---------------------------- MODULE ConfigProofs ----------------------------
(***************************************************************************)
(* A mount is configured, and a connection made, as the command line, the  *)
(* environment and the ssh config say (Cli, SshConfig).  The code's loops  *)
(* and recursions are compared with definitions that have none, for inputs *)
(* of any length, by the induction of ReadProofs.                          *)
(***************************************************************************)
EXTENDS MountProofs, SequenceTheorems

-----------------------------------------------------------------------------
(* Sizes and durations.                                                    *)

\* A size that is accepted is what was written, and more than nothing.
LEMMA SizeAsWritten ==
    ASSUME NEW q, ParseByteSize(q).ok, NEW size, size = ParseByteSize(q).value
    PROVE  /\ size > 0
           /\ size % Multiplier[q.suffix] = 0
           /\ size \div Multiplier[q.suffix] = q.value
<1>1. /\ q.value \in 1..(Word - 1) /\ q.suffix \in DOMAIN Multiplier
      /\ size = q.value * Multiplier[q.suffix]
  BY DEF ParseByteSize, Ok, Err
<1>2. PICK v \in Nat \ {0} : v = q.value
  BY <1>1, CliAssumption
<1>3. Multiplier[q.suffix] \in {1, 1024, 1024 * 1024, 1024 * 1024 * 1024}
  BY <1>1 DEF Multiplier
<1>4. \A m \in {1, 1024, 1024 * 1024, 1024 * 1024 * 1024} :
          v * m > 0 /\ (v * m) % m = 0 /\ (v * m) \div m = v
  OBVIOUS
<1> QED  BY <1>1, <1>2, <1>3, <1>4

\* A duration that is accepted is what was written, in any unit, if its seconds fit
\* a u64.
LEMMA DurationAsWritten ==
    ASSUME NEW q, ParseDuration(q).ok, Fits(q)
    PROVE  ParseDuration(q).value = Milliseconds(q)
<1>1. CASE q.suffix = "ms"
  BY <1>1 DEF ParseDuration, Milliseconds, Ok, Err
<1>2. CASE q.suffix # "ms"
  <2>1. /\ q.value \in 0..(Word - 1) /\ q.suffix \in DOMAIN Seconds
        /\ ParseDuration(q).value = 1000 * ((q.value * Seconds[q.suffix]) % Word)
    BY <1>2 DEF ParseDuration, Ok, Err
  <2>2. PICK v \in Nat : v = q.value
    BY <2>1, CliAssumption
  <2>3. PICK m \in {1, 60, 3600} : m = Seconds[q.suffix]
    BY <2>1 DEF Seconds
  <2>4. PICK x \in Nat : x = v * m
    BY <2>2, <2>3
  <2>5. x < Word /\ Word \in Nat
    BY <1>2, <2>2, <2>3, <2>4, CliAssumption DEF Fits
  <2>6. x % Word = x
    BY <2>5
  <2>7. Milliseconds(q) = 1000 * v * m /\ 1000 * v * m = 1000 * x
    BY <1>2, <2>2, <2>3, <2>4 DEF Milliseconds
  <2> QED  BY <2>1, <2>2, <2>3, <2>4, <2>6, <2>7
<1> QED  BY <1>1, <1>2

-----------------------------------------------------------------------------
(* Loops.                                                                  *)

\* The values of a loop of n rounds, of which g gives the next value.
RoundsOf(f, V, b, n, g) ==
    f \in [0..n -> V] /\ f[0] = b /\ \A i \in 1..n : f[i] = g[<<f[i - 1], i>>]

\* It has them all.
LEMMA Rounds ==
    ASSUME NEW V, NEW b \in V, NEW n \in Nat, NEW g \in [V \X (1..n) -> V]
    PROVE  \E f : RoundsOf(f, V, b, n, g)
<1> DEFINE T == {k \in Nat : k <= n => \E f \in [0..k -> V] :
                                f[0] = b /\ \A i \in 1..k : f[i] = g[<<f[i - 1], i>>]}
<1>1. 0 \in T
  <2>1. [i \in 0..0 |-> b] \in [0..0 -> V]
    OBVIOUS
  <2>2. [i \in 0..0 |-> b][0] = b /\ 1..0 = {}
    OBVIOUS
  <2> QED  BY <2>1, <2>2
<1>2. ASSUME NEW k \in Nat, k \in T PROVE k + 1 \in T
  <2> SUFFICES ASSUME k + 1 <= n
               PROVE  \E f \in [0..(k + 1) -> V] :
                         f[0] = b /\ \A i \in 1..(k + 1) : f[i] = g[<<f[i - 1], i>>]
    OBVIOUS
  <2>1. PICK f \in [0..k -> V] : f[0] = b /\ \A i \in 1..k : f[i] = g[<<f[i - 1], i>>]
    BY <1>2
  <2>2. PICK h : h = [i \in 0..(k + 1) |-> IF i <= k THEN f[i] ELSE g[<<f[k], i>>]]
    OBVIOUS
  <2>3. g[<<f[k], k + 1>>] \in V
    <3>1. f[k] \in V /\ k + 1 \in 1..n
      BY <2>1
    <3> QED  BY <3>1
  <2>4. \A i \in 0..(k + 1) : i <= k => i \in 0..k /\ h[i] = f[i] /\ f[i] \in V
    BY <2>2
  <2>5. h[k + 1] = g[<<f[k], k + 1>>]
    BY <2>2
  <2>6. h \in [0..(k + 1) -> V]
    <3>1. ASSUME NEW i \in 0..(k + 1) PROVE h[i] \in V
      <4>1. CASE i <= k
        BY <2>4, <4>1
      <4>2. CASE i = k + 1
        BY <2>3, <2>5, <4>2
      <4> QED  BY <4>1, <4>2
    <3> QED  BY <2>2, <3>1
  <2>7. h[0] = b
    BY <2>1, <2>4
  <2>8. ASSUME NEW i \in 1..(k + 1) PROVE h[i] = g[<<h[i - 1], i>>]
    <3>1. i - 1 \in 0..(k + 1) /\ i - 1 <= k /\ h[i - 1] = f[i - 1]
      BY <2>4
    <3>2. CASE i <= k
      BY <2>1, <2>4, <3>1, <3>2
    <3>3. CASE i = k + 1
      BY <2>5, <3>1, <3>3
    <3> QED  BY <3>2, <3>3
  <2> QED  BY <2>6, <2>7, <2>8
<1>3. n \in T
  <2> HIDE DEF T
  <2> QED  BY <1>1, <1>2, Induct
<1> QED  BY <1>3 DEF RoundsOf

\* The values of Sift's loop.
SiftOf(f, T, s, places) ==
    /\ f \in [0..Len(s) -> Seq(T)] /\ f[0] = <<>>
    /\ \A i \in 1..Len(s) : f[i] = IF i \in places THEN Append(f[i - 1], s[i]) ELSE f[i - 1]

LEMMA Sifted ==
    ASSUME NEW T, NEW s \in Seq(T), NEW places
    PROVE  \E f : SiftOf(f, T, s, places) /\ Sift(s, places) = f[Len(s)]
<1>1. PICK n \in Nat : n = Len(s)
  OBVIOUS
<1>2. PICK e \in Seq(T) : e = <<>>
  <2>1. <<>> \in Seq(T)
    OBVIOUS
  <2> QED  BY ONLY <2>1, Zenon
<1> DEFINE Loop(f) == f = [i \in 0..n |-> IF i = 0 THEN e
                                          ELSE IF i \in places THEN Append(f[i - 1], s[i]) ELSE f[i - 1]]
<1>3. PICK g : g = [x \in Seq(T) \X (1..n) |-> IF x[2] \in places THEN Append(x[1], s[x[2]]) ELSE x[1]]
  OBVIOUS
<1>4. g \in [Seq(T) \X (1..n) -> Seq(T)]
  <2>1. ASSUME NEW a \in Seq(T), NEW i \in 1..n PROVE Append(a, s[i]) \in Seq(T)
    BY <1>1
  <2> QED  BY <1>3, <2>1
<1>5. PICK f \in [0..n -> Seq(T)] : f[0] = e /\ \A i \in 1..n : f[i] = g[<<f[i - 1], i>>]
  <2>1. PICK V : V = Seq(T)
    OBVIOUS
  <2>2. e \in V /\ g \in [V \X (1..n) -> V] /\ n \in Nat
    BY <1>4, <2>1
  <2>3. PICK f : RoundsOf(f, V, e, n, g)
    BY ONLY <2>2, Rounds
  <2> QED  BY <2>1, <2>3 DEF RoundsOf
<1>6. Loop(f)
  <2>1. ASSUME NEW i \in 1..n
        PROVE  f[i] = IF i \in places THEN Append(f[i - 1], s[i]) ELSE f[i - 1]
    <3>1. i - 1 \in 0..n /\ f[i - 1] \in Seq(T)
      BY <1>5
    <3>2. g[<<f[i - 1], i>>] = IF i \in places THEN Append(f[i - 1], s[i]) ELSE f[i - 1]
      BY <1>3, <3>1
    <3> QED  BY <1>5, <3>2
  <2>2. f = [i \in 0..n |-> f[i]] /\ \A i \in 0..n : i = 0 \/ i \in 1..n
    OBVIOUS
  <2> QED  BY <1>5, <2>1, <2>2
<1>7. PICK h : h = CHOOSE f0 : Loop(f0)
  OBVIOUS
<1>8. Loop(h)
  BY <1>6, <1>7
<1>9. Sift(s, places) = h[n]
  BY <1>1, <1>2, <1>7 DEF Sift
<1>10. h[0] = e /\ \A i \in 1..n : h[i] = IF i \in places THEN Append(h[i - 1], s[i]) ELSE h[i - 1]
  <2>1. h[0] = e
    BY <1>8
  <2>2. ASSUME NEW i \in 1..n
        PROVE  h[i] = IF i \in places THEN Append(h[i - 1], s[i]) ELSE h[i - 1]
    <3>1. i \in 0..n /\ i # 0
      OBVIOUS
    <3> QED  BY <1>8, <3>1, Zenon
  <2> QED  BY <2>1, <2>2
<1> DEFINE R == {k \in Nat : k <= n => h[k] \in Seq(T)}
<1>11. 0 \in R
  BY <1>10
<1>12. ASSUME NEW k \in Nat, k \in R PROVE k + 1 \in R
  <2> SUFFICES ASSUME NEW i \in 1..n, i = k + 1 PROVE h[i] \in Seq(T)
    OBVIOUS
  <2>1. i - 1 = k /\ h[i - 1] \in Seq(T) /\ s[i] \in T
    BY <1>1, <1>12
  <2>2. Append(h[i - 1], s[i]) \in Seq(T)
    BY ONLY <2>1
  <2> QED  BY ONLY <1>10, <2>1, <2>2, i \in 1..n
<1>13. \A k \in 0..n : h[k] \in Seq(T)
  <2>1. \A k \in Nat : k \in R
    <3> HIDE DEF R
    <3> QED  BY <1>11, <1>12, Induct
  <2> QED  BY <2>1
<1>14. h \in [0..n -> Seq(T)]
  BY <1>8, <1>13
<1> QED  BY <1>1, <1>2, <1>9, <1>10, <1>14 DEF SiftOf

-----------------------------------------------------------------------------
(* Paths.                                                                  *)

\* Without "..", components lead where they do without ".".
LEMMA WalkNormal ==
    ASSUME NEW T, NEW from \in Seq(T), \A i \in 1..Len(from) : from[i] # ".."
    PROVE  Walk(from) = Normalize(from)
<1>1. PICK n \in Nat : n = Len(from)
  OBVIOUS
<1> DEFINE Loop(f) == f = [i \in 0..n |-> IF i = 0 THEN <<>> ELSE Enter(f[i - 1], from[i])]
<1>2. PICK places : places = {i \in DOMAIN from : from[i] # "."}
  OBVIOUS
<1>3. PICK f : SiftOf(f, T, from, places) /\ Sift(from, places) = f[n]
  BY <1>1, Sifted
<1>4. /\ f \in [0..n -> Seq(T)] /\ f[0] = <<>>
      /\ \A i \in 1..n : f[i] = IF i \in places THEN Append(f[i - 1], from[i]) ELSE f[i - 1]
      /\ \A i \in 1..n : i \in places <=> from[i] # "."
  BY <1>1, <1>2, <1>3 DEF SiftOf
<1>5. \A i \in 1..n : /\ from[i] = "." => f[i] = f[i - 1]
                      /\ from[i] # "." => f[i] = Append(f[i - 1], from[i])
  BY <1>4
<1>6. Loop(f)
  <2>1. ASSUME NEW i \in 1..n PROVE f[i] = Enter(f[i - 1], from[i])
    BY <1>1, <1>5 DEF Enter
  <2>2. f = [i \in 0..n |-> f[i]] /\ \A i \in 0..n : i # 0 => i \in 1..n
    BY <1>4
  <2> QED  BY <1>4, <2>1, <2>2
<1>7. PICK h : h = CHOOSE f0 : Loop(f0)
  OBVIOUS
<1>8. Loop(h)
  <2> HIDE DEF Loop
  <2> QED  BY <1>6, <1>7
<1>9. Walk(from) = h[n]
  BY <1>1, <1>7 DEF Walk
<1>10. h[0] = f[0]
  BY <1>8, <1>4
<1>11. ASSUME NEW i \in 1..n
      PROVE  /\ from[i] = "." => h[i] = h[i - 1]
             /\ from[i] # "." => h[i] = Append(h[i - 1], from[i])
  <2>1. i \in 0..n /\ i # 0 /\ from[i] # ".."
    BY <1>1
  <2>2. h[i] = Enter(h[i - 1], from[i])
    BY <1>8, <2>1
  <2> QED  BY <2>1, <2>2 DEF Enter
<1> HIDE DEF Loop
<1> DEFINE R == {k \in Nat : k <= n => h[k] = f[k]}
<1>12. 0 \in R
  BY <1>10
<1>13. ASSUME NEW k \in Nat, k \in R PROVE k + 1 \in R
  <2> SUFFICES ASSUME NEW i \in 1..n, i = k + 1 PROVE h[i] = f[i]
    OBVIOUS
  <2>1. h[i - 1] = f[i - 1]
    BY <1>13
  <2> QED  BY <1>5, <1>11, <2>1
<1>14. h[n] = f[n]
  <2> HIDE DEF R
  <2>1. n \in R
    BY <1>12, <1>13, Induct
  <2> QED  BY <2>1 DEF R
<1> QED  BY <1>2, <1>9, <1>14, <1>3 DEF Normalize

\* Normalize leaves out nothing of a directory that has no ".", and goes on.
LEMMA NormalizeBelow ==
    ASSUME NEW T, NEW cwd \in Seq(T), NEW path \in Seq(T), \A i \in 1..Len(cwd) : cwd[i] # "."
    PROVE  Normalize(cwd \o path) = cwd \o Normalize(path) /\ Normalize(path) \in Seq(T)
<1>1. PICK m \in Nat, n \in Nat : m = Len(cwd) /\ n = Len(path)
  OBVIOUS
<1>2. PICK all : all = cwd \o path
  OBVIOUS
<1>3. /\ all \in Seq(T) /\ Len(all) = m + n
      /\ \A i \in 1..m : all[i] = cwd[i]
      /\ \A i \in 1..n : all[m + i] = path[i]
  BY <1>1, <1>2, Joined
<1>4. PICK P : P = {i \in DOMAIN all : all[i] # "."}
  OBVIOUS
<1>5. PICK Q : Q = {i \in DOMAIN path : path[i] # "."}
  OBVIOUS
<1>6. PICK f : SiftOf(f, T, all, P) /\ Sift(all, P) = f[m + n]
  <2>1. PICK f : SiftOf(f, T, all, P) /\ Sift(all, P) = f[Len(all)]
    BY <1>3, Sifted
  <2> QED  BY <1>3, <2>1
<1>7. PICK g : SiftOf(g, T, path, Q) /\ Sift(path, Q) = g[n]
  BY <1>1, Sifted
<1>8. /\ f \in [0..(m + n) -> Seq(T)] /\ f[0] = <<>>
      /\ \A i \in 1..(m + n) : f[i] = IF i \in P THEN Append(f[i - 1], all[i]) ELSE f[i - 1]
  BY <1>3, <1>6 DEF SiftOf
<1>9. /\ g \in [0..n -> Seq(T)] /\ g[0] = <<>>
      /\ \A i \in 1..n : g[i] = IF i \in Q THEN Append(g[i - 1], path[i]) ELSE g[i - 1]
  BY <1>1, <1>7 DEF SiftOf
<1>10. /\ \A i \in 1..m : i \in P
       /\ \A i \in 1..n : m + i \in P <=> i \in Q
  <2>1. DOMAIN all = 1..(m + n) /\ DOMAIN path = 1..n
    BY <1>1, <1>3
  <2> QED  BY <1>1, <1>3, <1>4, <1>5, <2>1
<1> DEFINE R == {k \in Nat : k <= m => f[k] = SubSeq(cwd, 1, k)}
<1>11. 0 \in R
  BY <1>8
<1>12. ASSUME NEW k \in Nat, k \in R PROVE k + 1 \in R
  <2> SUFFICES ASSUME NEW i \in 1..m, i = k + 1 PROVE f[i] = SubSeq(cwd, 1, i)
    OBVIOUS
  <2>1. i - 1 = k /\ f[k] = SubSeq(cwd, 1, k) /\ i \in 1..(m + n) /\ i \in P /\ all[i] = cwd[i]
    BY <1>3, <1>10, <1>12
  <2>2. f[i] = Append(SubSeq(cwd, 1, k), cwd[i])
    BY <1>8, <2>1
  <2>3. Append(SubSeq(cwd, 1, k), cwd[k + 1]) = SubSeq(cwd, 1, k + 1)
    BY <1>1
  <2> QED  BY <2>2, <2>3
<1>13. f[m] = cwd
  <2> HIDE DEF R
  <2>1. m \in R
    BY <1>11, <1>12, Induct
  <2>2. SubSeq(cwd, 1, m) = cwd
    BY <1>1
  <2> QED  BY <2>1, <2>2 DEF R
<1> HIDE DEF R
<1> DEFINE W == {k \in Nat : k <= n => f[m + k] = cwd \o g[k]}
<1>14. 0 \in W
  <2>1. cwd \o <<>> = cwd
    BY ConcatEmptySeq
  <2>2. f[m] = cwd \o g[0]
    BY ONLY <1>9, <1>13, <2>1, Zenon
  <2>3. m + 0 = m
    OBVIOUS
  <2> QED  BY ONLY <2>2, <2>3
<1>15. ASSUME NEW k \in Nat, k \in W PROVE k + 1 \in W
  <2> SUFFICES ASSUME NEW i \in 1..n, i = k + 1 PROVE f[m + i] = cwd \o g[i]
    OBVIOUS
  <2>1. /\ i - 1 = k /\ f[m + k] = cwd \o g[k] /\ g[k] \in Seq(T) /\ k \in 0..n
        /\ m + i \in 1..(m + n) /\ (m + i) - 1 = m + k /\ all[m + i] = path[i] /\ path[i] \in T
    <3>1. i - 1 = k /\ k <= n /\ k \in 0..n /\ m + i \in 1..(m + n) /\ (m + i) - 1 = m + k
      OBVIOUS
    <3>2. f[m + k] = cwd \o g[k]
      BY <1>15, <3>1
    <3>3. all[m + i] = path[i] /\ path[i] \in T /\ g[k] \in Seq(T)
      BY <1>1, <1>3, <1>9, <3>1
    <3> QED  BY <3>1, <3>2, <3>3
  <2>2. CASE i \in Q
    <3>1. f[m + i] = Append(f[m + k], path[i]) /\ g[i] = Append(g[k], path[i])
      BY <1>8, <1>9, <1>10, <2>1, <2>2
    <3>2. PICK a \in Seq(T) : a = g[k]
      BY <2>1
    <3>3. PICK c \in T : c = path[i]
      BY <2>1
    <3>4. Append(cwd \o a, c) = cwd \o Append(a, c)
      <4>1. /\ <<c>> \in Seq(T) /\ cwd \o a \in Seq(T)
            /\ Append(cwd \o a, c) = (cwd \o a) \o <<c>> /\ Append(a, c) = a \o <<c>>
        BY AppendIsConcat
      <4>2. (cwd \o a) \o <<c>> = cwd \o (a \o <<c>>)
        BY ONLY <4>1, cwd \in Seq(T), a \in Seq(T), ConcatAssociative
      <4> QED  BY ONLY <4>1, <4>2
    <3> QED  BY <2>1, <3>1, <3>2, <3>3, <3>4
  <2>3. CASE i \notin Q
    BY <1>8, <1>9, <1>10, <2>1, <2>3
  <2> QED  BY <2>2, <2>3
<1>16. f[m + n] = cwd \o g[n]
  <2> HIDE DEF W
  <2>1. n \in W
    BY <1>14, <1>15, Induct
  <2> QED  BY <2>1 DEF W
<1> HIDE DEF W
<1>17. Normalize(all) = f[m + n] /\ Normalize(path) = g[n]
  BY <1>4, <1>5, <1>6, <1>7 DEF Normalize
<1> QED  BY <1>2, <1>9, <1>16, <1>17

\* A prefix below a directory is one in it.
LEMMA PrefixBelow ==
    ASSUME NEW T, NEW c \in Seq(T), NEW a \in Seq(T), NEW b \in Seq(T), IsPrefix(c \o a, c \o b)
    PROVE  IsPrefix(a, b)
<1>1. PICK m \in Nat, x \in Nat, y \in Nat : m = Len(c) /\ x = Len(a) /\ y = Len(b)
  OBVIOUS
<1>2. PICK s, t : s = c \o a /\ t = c \o b
  OBVIOUS
<1>3. /\ s \in Seq(T) /\ t \in Seq(T) /\ Len(s) = m + x /\ Len(t) = m + y
      /\ \A i \in 1..x : s[m + i] = a[i]
      /\ \A i \in 1..y : t[m + i] = b[i]
  BY <1>1, <1>2, Joined
<1>4. m + x <= m + y /\ SubSeq(s, 1, m + x) = SubSeq(t, 1, m + x)
  BY <1>2, <1>3 DEF IsPrefix
<1>5. \A i \in 1..(m + x) : SubSeq(s, 1, m + x)[i] = s[i] /\ SubSeq(t, 1, m + x)[i] = t[i]
  <2>1. PICK k \in Nat : k = m + x
    OBVIOUS
  <2>2. k <= Len(s) /\ k <= Len(t) /\ 0 \in Nat /\ k - 0 = k
    BY <1>3, <1>4, <2>1
  <2>3. \A i \in 1..k : SubSeq(s, 1, k)[i] = s[i]
    BY ONLY <1>3, <2>2, k \in Nat
  <2>4. \A i \in 1..k : SubSeq(t, 1, k)[i] = t[i]
    BY ONLY <1>3, <2>2, k \in Nat
  <2> QED  BY <2>1, <2>3, <2>4
<1>6. \A i \in 1..x : a[i] = b[i]
  <2>1. ASSUME NEW i \in 1..x PROVE a[i] = b[i]
    <3>1. m + i \in 1..(m + x) /\ i \in 1..y
      BY <1>4
    <3> QED  BY <1>3, <1>4, <1>5, <3>1
  <2> QED  BY <2>1
<1>7. x <= y /\ SubSeq(a, 1, x) = SubSeq(b, 1, x)
  BY <1>1, <1>4, <1>6
<1> QED  BY <1>1, <1>7 DEF IsPrefix

\* One and two components.
LEMMA Short ==
    ASSUME NEW T, NEW x \in T, NEW y \in T
    PROVE  /\ <<x>> \in Seq(T)
           /\ <<x, y>> \in Seq(T) /\ Len(<<x, y>>) = 2 /\ <<x, y>>[1] = x /\ <<x, y>>[2] = y
OBVIOUS

\* The names in a path.  (The provers do not know that a literal is a STRING.)
Name == STRING \cup {"/", "home", "cacheshfs", "cache", ".cache", ".cacheshfs-cache"}
Path == Seq(Name)
Absolute(p) == p # <<>> /\ p[1] = "/"

\* Where a path without ".." leads.
LEMMA LocationIs ==
    ASSUME NEW p \in Path, \A i \in DOMAIN p : p[i] # "..", NEW cwd, cwd = <<"/", "home">>
    PROVE  /\ Normalize(p) \in Path /\ cwd \in Path
           /\ Location(p, cwd) = IF Absolute(p) THEN Normalize(p) ELSE cwd \o Normalize(p)
<1>1. PICK T : T = Name
  OBVIOUS
<1>2. Path = Seq(T) /\ p \in Seq(T)
  BY <1>1 DEF Path
<1>3. cwd \in Seq(T) /\ Len(cwd) = 2 /\ cwd[1] = "/" /\ cwd[2] = "home"
  <2>1. PICK x \in T, y \in T : x = "/" /\ y = "home"
    BY <1>1 DEF Name
  <2>2. cwd = <<x, y>>
    BY <2>1
  <2>3. cwd \in Seq(T) /\ Len(cwd) = 2 /\ cwd[1] = x /\ cwd[2] = y
    BY ONLY <2>2, Short
  <2> QED  BY <2>1, <2>3
<1>4. \A i \in 1..Len(cwd) : cwd[i] # "." /\ cwd[i] # ".."
  BY <1>3
<1>5. Normalize(cwd \o p) = cwd \o Normalize(p) /\ Normalize(p) \in Seq(T)
  BY <1>2, <1>3, <1>4, NormalizeBelow
<1>6. \A i \in 1..Len(p) : p[i] # ".."
  BY <1>2
<1>7. CASE Absolute(p)
  <2>1. Walk(p) = Normalize(p)
    BY <1>2, <1>6, WalkNormal
  <2> QED  BY <1>2, <1>3, <1>5, <1>7, <2>1 DEF Location, Absolute
<1>8. CASE ~Absolute(p)
  <2>1. PICK all : all = cwd \o p
    OBVIOUS
  <2>2. all \in Seq(T) /\ \A i \in 1..Len(all) : all[i] # ".."
    BY <1>2, <1>3, <1>4, <1>6, <2>1
  <2>3. Walk(all) = Normalize(all)
    BY <2>2, WalkNormal
  <2>4. Location(p, cwd) = Walk(all)
    BY <1>8, <2>1 DEF Location, Absolute
  <2> QED  BY <1>2, <1>3, <1>5, <1>8, <2>1, <2>3, <2>4
<1> QED  BY <1>7, <1>8

\* A cache directory that is_inside lets pass is not in the mounted tree.
LEMMA CacheOutside ==
    ASSUME NEW m \in Path, NEW p \in Path, ~IsInside(p, m), Absolute(m) <=> Absolute(p),
           \A i \in DOMAIN m : m[i] # "..", \A i \in DOMAIN p : p[i] # "..",
           NEW cwd, cwd = <<"/", "home">>
    PROVE  ~IsPrefix(Location(m, cwd), Location(p, cwd))
<1>1. /\ Normalize(m) \in Path /\ Normalize(p) \in Path /\ cwd \in Path
      /\ Location(m, cwd) = IF Absolute(m) THEN Normalize(m) ELSE cwd \o Normalize(m)
      /\ Location(p, cwd) = IF Absolute(p) THEN Normalize(p) ELSE cwd \o Normalize(p)
  BY LocationIs
<1>2. PICK a \in Path, b \in Path : a = Normalize(m) /\ b = Normalize(p)
  BY <1>1
<1>3. ~IsPrefix(a, b)
  BY <1>2 DEF IsInside
<1>4. IsPrefix(cwd \o a, cwd \o b) => IsPrefix(a, b)
  BY <1>1, PrefixBelow DEF Path
<1> QED  BY <1>1, <1>2, <1>3, <1>4

\* There is a cache directory.
LEMMA CacheDirTyped == ASSUME CommandTyped(cli) PROVE CacheDirOf(cli, Env) \in Path
<1>1. \A a, b : a \in Path /\ b \in Path => a \o b \in Path
  BY DEF Path
<1>2. /\ <<"cacheshfs", "cache">> \in Path /\ <<"cacheshfs">> \in Path
      /\ <<".cache", "cacheshfs">> \in Path /\ <<".cacheshfs-cache">> \in Path
  <2>1. PICK T : T = Name
    OBVIOUS
  <2>2. "cacheshfs" \in T /\ "cache" \in T /\ ".cache" \in T /\ ".cacheshfs-cache" \in T
    BY <2>1 DEF Name
  <2> QED  BY <2>1, <2>2, Short, Zenon DEF Path
<1>3. Text \subseteq Path
  BY DEF Path, Text, Name
<1>4. DefaultCacheDir(Env) \in Path
  BY <1>1, <1>2, <1>3 DEF CommandTyped, OptionText, DefaultCacheDir, Env, NoPath
<1> QED  BY <1>3, <1>4 DEF CommandTyped, OptionText, CacheDirOf, NoPath

-----------------------------------------------------------------------------
(* The configuration.                                                      *)

\* What the process was started with is typed, and what it has made of it so far is
\* what the code computes from it.
ConfigInv ==
    /\ CommandTyped(cli) /\ LoginTyped(cli)
    /\ stage \in {"options", "offline", "dial"} =>
          ToMountConfig(cli, Env).ok /\ config = ToMountConfig(cli, Env).value
    /\ stage = "dial" =>
          /\ ConnectOptions(cli, Env, Env.file, config.target).ok
          /\ opts = ConnectOptions(cli, Env, Env.file, config.target).value

LEMMA ConfigStep == ASSUME ConfigInv, [Next]_vars PROVE ConfigInv'
<1>1. CommandTyped(NoCli) /\ LoginTyped(NoCli)
  <2>1. /\ NoCli.identityFile = <<>> /\ NoCli.env = NoEnv /\ NoCli.remote = <<>>
        /\ NoCli.mountpoint = <<>> /\ NoCli.cacheDir = None /\ NoCli.port = None
    BY DEF NoCli, NoPath
  <2>2. /\ NoEnv.agent = <<>> /\ NoEnv.file.lines = <<>> /\ NoEnv.home = None
        /\ NoEnv.xdgCacheHome = None /\ NoEnv.localAppData = None /\ NoEnv.user = None
    BY DEF NoEnv, NoPath
  <2>3. \A T : <<>> \in Seq(T)
    OBVIOUS
  <2> QED  BY ONLY <2>1, <2>2, <2>3 DEF LoginTyped, CommandTyped, OptionText, Text
<1>2. (CommandTyped(cli) /\ LoginTyped(cli))'
  <2>1. CASE UNCHANGED cli
    BY <2>1 DEF ConfigInv, CommandTyped, LoginTyped
  <2>2. CASE cli' = NoCli
    BY <1>1, <2>2 DEF CommandTyped, LoginTyped
  <2>3. CASE cli' \in Repeated
    BY <2>3, LoginAssumption DEF CommandTyped, LoginTyped
  <2> QED  BY <2>1, <2>2, <2>3 DEF Next, vars, parseVars, Invoke, Configure, BuildOptions, SkipConnection,
              Connecting, Forgotten, Mounting, Serving, Signalled, Outside
<1>3. ASSUME \/ stage' \notin {"options", "offline", "dial"}
             \/ stage' = stage /\ UNCHANGED <<parseVars, connectVars>>
      PROVE  ConfigInv'
  <2>1. CASE stage' \notin {"options", "offline", "dial"}
    BY <1>2, <2>1 DEF ConfigInv
  <2>2. CASE stage' = stage /\ UNCHANGED <<parseVars, connectVars>>
    BY <1>2, <2>2 DEF ConfigInv, parseVars, connectVars, Env
  <2> QED  BY <1>3, <2>1, <2>2
<1>4. CASE Invoke
  BY <1>3, <1>4 DEF Invoke
<1>5. CASE Configure
  <2>1. CASE ~ToMountConfig(cli, Env).ok
    BY <1>3, <1>5, <2>1 DEF Configure
  <2>2. CASE ToMountConfig(cli, Env).ok
    <3>1. /\ stage' \in {"options", "offline"} /\ cli' = cli
          /\ config' = ToMountConfig(cli, Env).value
      BY <1>5, <2>2 DEF Configure
    <3> QED  BY <1>2, <2>2, <3>1 DEF ConfigInv, Env
  <2> QED  BY <2>1, <2>2
<1>6. CASE BuildOptions
  <2>1. CASE ~ConnectOptions(cli, Env, Env.file, config.target).ok
    BY <1>3, <1>6, <2>1 DEF BuildOptions
  <2>2. CASE ConnectOptions(cli, Env, Env.file, config.target).ok
    <3>1. /\ stage = "options" /\ stage' = "dial" /\ cli' = cli /\ config' = config
          /\ opts' = ConnectOptions(cli, Env, Env.file, config.target).value
      BY <1>6, <2>2 DEF BuildOptions
    <3> QED  BY <1>2, <2>2, <3>1 DEF ConfigInv, Env
  <2> QED  BY <2>1, <2>2
<1>7. CASE SkipConnection
  BY <1>3, <1>7 DEF SkipConnection
<1>8. CASE Connecting
  <2>1. stage' \notin {"options", "offline", "dial"}
    BY <1>8, Classified DEF Connecting, S!Connect, S!Dial, S!ConnectionLost, S!CheckServerKey,
         S!Fail, S!PromptDeclines, S!PromptApproves, S!KeyAccepted, S!KeyRefused, S!AgentFails,
         S!AttemptLost, S!ConnectionBreaks, S!Trying, S!PassOver, S!Denied, S!OpenSftp
  <2> QED  BY <1>3, <2>1
<1>9. CASE Mounting
  BY <1>3, <1>9 DEF Mounting, M!MainThread, M!CheckMountpoint, M!SpawnMount, M!SetHandler,
       M!SetHandlerFails, M!WaitLoop, M!Decide, M!Unmount, M!UnmountFails, M!Join, M!JoinFails,
       M!ProcessExits, M!EndProcess
<1>10. CASE Serving
  BY <1>3, <1>10 DEF Serving, M!Serving, M!SessionEnds, M!SessionBreaks, M!StatAnswered,
       M!PageArrives, M!PageFails, M!CallArrives, M!WriteArrives, M!OpenArrives,
       M!CreateArrives, M!ReadArrives, M!Arrives, M!CallAnswered, M!OpenAnswered,
       M!ReadAnswered, M!Opendir, M!FlushAndRelease, M!BeginScan, M!ReadPage, M!EndScan
<1>11. CASE Signalled
  BY <1>3, <1>11 DEF Signalled, M!Interrupt, M!Terminate, M!Handled, M!Die, M!EndProcess
<1>12. CASE Outside
  BY <1>3, <1>12 DEF Outside, M!World, M!ExternalUnmount, M!NameRemoved, M!NameAdded
<1>13. CASE UNCHANGED vars
  BY <1>3, <1>13 DEF vars
<1> QED
  BY <1>4, <1>5, <1>6, <1>7, <1>8, <1>9, <1>10, <1>11, <1>12, <1>13 DEF Next

LEMMA ConfigInit == ASSUME Init PROVE ConfigInv
BY LoginAssumption DEF Init, ConfigInv

\* The configuration that was computed says what the options say.
LEMMA Configured == ASSUME ConfigInv PROVE ConfiguredAsWritten
<1> DEFINE m == cli.mountpoint
           p == CacheDirOf(cli, Env)
<1>1. ASSUME stage \in {"options", "offline"}
      PROVE  /\ cli.chunkSize # NoQuantity =>
                   /\ config.chunkSize > 0
                   /\ config.chunkSize % Multiplier[cli.chunkSize.suffix] = 0
                   /\ config.chunkSize \div Multiplier[cli.chunkSize.suffix] = cli.chunkSize.value
             /\ cli.metadataTtl # NoQuantity /\ Fits(cli.metadataTtl) =>
                   config.ttl = Milliseconds(cli.metadataTtl)
             /\ (\A q \in {m, p} : \A i \in DOMAIN q : q[i] # "..") /\ (Absolute(m) <=> Absolute(p)) =>
                   ~CacheInMount
  <2>1. ToMountConfig(cli, Env).ok /\ config = ToMountConfig(cli, Env).value
    BY <1>1 DEF ConfigInv
  <2> DEFINE chunk == IF cli.chunkSize = NoQuantity THEN Ok(DefaultChunk) ELSE ParseByteSize(cli.chunkSize)
             ttl == IF cli.metadataTtl = NoQuantity THEN Ok(DefaultTTL) ELSE ParseDuration(cli.metadataTtl)
  <2>2. /\ ~IsInside(p, m)
        /\ chunk.ok /\ config.chunkSize = chunk.value
        /\ ttl.ok /\ config.ttl = ttl.value
    BY <2>1 DEF ToMountConfig, Ok, Err
  <2>3. cli.chunkSize # NoQuantity =>
            /\ config.chunkSize > 0
            /\ config.chunkSize % Multiplier[cli.chunkSize.suffix] = 0
            /\ config.chunkSize \div Multiplier[cli.chunkSize.suffix] = cli.chunkSize.value
    BY <2>2, SizeAsWritten
  <2>4. cli.metadataTtl # NoQuantity /\ Fits(cli.metadataTtl) =>
            config.ttl = Milliseconds(cli.metadataTtl)
    BY <2>2, DurationAsWritten
  <2>5. m \in Path /\ p \in Path
    BY CacheDirTyped DEF ConfigInv, CommandTyped, Path, Text, Name
  <2>6. ASSUME \A q \in {m, p} : \A i \in DOMAIN q : q[i] # "..", Absolute(m) <=> Absolute(p)
        PROVE  ~CacheInMount
    <3>1. ~IsPrefix(Location(m, <<"/", "home">>), Location(p, <<"/", "home">>))
      <4> HIDE DEF m, p
      <4> QED  BY <2>2, <2>5, <2>6, CacheOutside
    <3> QED  BY <3>1 DEF CacheInMount, Cwd
  <2> QED  BY <2>3, <2>4, <2>6
<1>2. ASSUME stage = "dial", cli.readTimeout # NoQuantity, Fits(cli.readTimeout)
      PROVE  opts.readTimeout = Milliseconds(cli.readTimeout)
  <2>1. /\ ConnectOptions(cli, Env, Env.file, config.target).ok
        /\ opts = ConnectOptions(cli, Env, Env.file, config.target).value
    BY <1>2 DEF ConfigInv
  <2>2. /\ ParseDuration(cli.readTimeout).ok
        /\ opts.readTimeout = ParseDuration(cli.readTimeout).value
    BY <1>2, <2>1 DEF ConnectOptions, Ok, Err
  <2> QED  BY <1>2, <2>2, DurationAsWritten
<1> QED  BY <1>1, <1>2 DEF ConfiguredAsWritten, Absolute

\* to_mount_config and connect_options, for every command line and environment: a
\* chunk size, a TTL and a read timeout are what was written, in any unit and as
\* long as their bytes and seconds fit a word, and the cache directory is not in the
\* mounted tree, however long the paths, if they are of one kind and without "..".
THEOREM ConfiguredAsWrittenInvariant == Spec => []ConfiguredAsWritten
<1>1. Init => ConfigInv
  BY ConfigInit
<1>2. ConfigInv /\ [Next]_vars => ConfigInv'
  BY ConfigStep
<1>3. ConfigInv => ConfiguredAsWritten
  BY Configured
<1> QED  BY <1>1, <1>2, <1>3, PTL DEF Spec

-----------------------------------------------------------------------------
(* The remote.                                                             *)

\* Numbers have a least, and up to a bound a greatest.
LEMMA LeastOf ==
    ASSUME NEW X \in SUBSET Nat, X # {}
    PROVE  \E i \in X : (\A j \in X : i <= j)
<1>1. IsWellFoundedOn(OpToRel(<, Nat), Nat)
  BY NatLessThanWellFounded
<1>2. PICK k \in X : \A j \in X : ~(<<j, k>> \in OpToRel(<, Nat))
  BY ONLY <1>1, X \subseteq Nat, X # {}, WFMin, Zenon
<1>3. \A j \in X : ~(j < k)
  BY <1>2 DEF OpToRel
<1>4. \A j \in X : k <= j
  BY <1>3
<1> QED  BY <1>4

LEMMA GreatestOf ==
    ASSUME NEW n \in Nat, NEW X \in SUBSET (0..n), X # {}
    PROVE  \E i \in X : (\A j \in X : j <= i)
<1>1. PICK Y : Y = {n - i : i \in X}
  OBVIOUS
<1>2. Y \in SUBSET Nat /\ Y # {}
  <2>1. \A i \in X : n - i \in Nat
    OBVIOUS
  <2>2. PICK i \in X : TRUE
    OBVIOUS
  <2>3. n - i \in Y
    BY <1>1
  <2> QED  BY <1>1, <2>1, <2>3
<1>3. PICK y \in Y : \A z \in Y : y <= z
  BY <1>2, LeastOf
<1>4. PICK k \in X : y = n - k
  BY <1>1
<1>5. ASSUME NEW j \in X PROVE j <= k
  <2>1. n - j \in Y /\ k \in 0..n /\ j \in 0..n
    BY <1>1
  <2>2. y <= n - j
    BY <1>3, <2>1
  <2> QED  BY <1>4, <2>1, <2>2
<1> QED  BY <1>5

\* A sequence is what is before a place, what is there and what is after it.
CutOf(T, s, i) ==
    /\ Before(s, i) \in Seq(T) /\ After(s, i) \in Seq(T)
    /\ Len(Before(s, i)) = i - 1 /\ Len(After(s, i)) = Len(s) - i
    /\ \A j \in 1..(i - 1) : Before(s, i)[j] = s[j]
    /\ \A j \in 1..(Len(s) - i) : After(s, i)[j] = s[i + j]
    /\ s = Before(s, i) \o <<s[i]>> \o After(s, i)

LEMMA CutAt == ASSUME NEW T, NEW s \in Seq(T), NEW i \in 1..Len(s) PROVE CutOf(T, s, i)
<1>1. /\ Before(s, i) \in Seq(T) /\ Len(Before(s, i)) = i - 1
      /\ \A j \in 1..(i - 1) : Before(s, i)[j] = s[j]
  BY SubSeqProperties DEF Before
<1>2. /\ After(s, i) \in Seq(T) /\ Len(After(s, i)) = Len(s) - i
      /\ \A j \in 1..(Len(s) - i) : After(s, i)[j] = s[i + j]
  BY SubSeqProperties DEF After
<1>3. PICK a \in Seq(T), c \in Seq(T) : a = Before(s, i) /\ c = After(s, i)
  BY <1>1, <1>2
<1>4. PICK b : b = <<s[i]>> /\ b \in Seq(T) /\ Len(b) = 1 /\ b[1] = s[i]
  <2>1. PICK x \in T : x = s[i]
    OBVIOUS
  <2>2. <<x>> \in Seq(T) /\ Len(<<x>>) = 1 /\ <<x>>[1] = x
    OBVIOUS
  <2> QED  BY <2>1, <2>2
<1>5. PICK ab : ab = a \o b
  OBVIOUS
<1>6. /\ ab \in Seq(T) /\ Len(ab) = i
      /\ \A j \in 1..i : ab[j] = s[j]
  BY <1>1, <1>3, <1>4, <1>5, Joined
<1>7. PICK all : all = ab \o c
  OBVIOUS
<1>8. all \in Seq(T) /\ Len(all) = Len(s)
  <2>1. Len(ab \o c) = Len(ab) + Len(c) /\ ab \o c \in Seq(T)
    BY <1>6, Joined
  <2> QED  BY <1>2, <1>3, <1>6, <1>7, <2>1
<1>9. ASSUME NEW j \in 1..Len(s) PROVE all[j] = s[j]
  <2>1. CASE j <= i
    BY <1>6, <1>7, <2>1
  <2>2. CASE j > i
    <3>1. j - i \in 1..Len(c) /\ j - i \in 1..(Len(s) - i) /\ i + (j - i) = j /\ Len(ab) + (j - i) = j
      BY <1>2, <1>3, <1>6, <2>2
    <3>2. all[j] = c[j - i]
      BY <1>3, <1>6, <1>7, <3>1, Joined
    <3> QED  BY <1>2, <1>3, <3>1, <3>2
  <2> QED  BY <2>1, <2>2
<1>10. all = s
  BY <1>8, <1>9, SeqEqual
<1> QED  BY <1>1, <1>2, <1>3, <1>4, <1>5, <1>7, <1>10 DEF CutOf

\* No text is None.
LEMMA NoneNoText == None \notin Text
<1>1. SUFFICES ASSUME None \in Text PROVE FALSE
  OBVIOUS
<1>2. None[1] = "/none" /\ Len(None) = 1
  BY DEF None
<1>3. None[1] \in STRING \ {"/none"}
  BY <1>1, <1>2 DEF Text
<1> QED  BY <1>2, <1>3

\* The remote is cut at its first ":".
LEMMA RemoteCut ==
    ASSUME NEW spec \in Text, ParseRemote(spec).ok
    PROVE  \E c \in 1..Len(spec) :
              /\ spec[c] = ":" /\ \A j \in 1..(c - 1) : spec[j] # ":"
              /\ ParseRemote(spec).value = [target |-> Before(spec, c), root |-> After(spec, c)]
<1>1. PICK n \in Nat : n = Len(spec) /\ DOMAIN spec = 1..n
  BY DEF Text
<1>2. PICK X : X = At(spec, ":")
  OBVIOUS
<1>3. X \in SUBSET Nat /\ X # {} /\ \A i : i \in X <=> i \in 1..n /\ spec[i] = ":"
  BY <1>1, <1>2 DEF At, ParseRemote, Err
<1>4. PICK c : c = CHOOSE i \in X : \A j \in X : i <= j
  OBVIOUS
<1>5. c \in X /\ \A j \in X : c <= j
  BY <1>3, <1>4, LeastOf
<1>6. ParseRemote(spec).value = [target |-> Before(spec, c), root |-> After(spec, c)]
  BY <1>2, <1>4 DEF ParseRemote, Ok, Err
<1>7. \A j \in 1..(c - 1) : spec[j] # ":"
  BY <1>3, <1>5
<1> QED  BY <1>1, <1>3, <1>5, <1>6, <1>7

\* The target is cut at its last "@", if something is before it.
LEMMA TargetCut ==
    ASSUME NEW target \in Text
    PROVE  \/ /\ SplitUser(target) = [user |-> None, host |-> target]
              /\ At(target, "@") \subseteq {1}
           \/ \E k \in 2..Len(target) :
                 /\ target[k] = "@" /\ \A j \in (k + 1)..Len(target) : target[j] # "@"
                 /\ SplitUser(target) = [user |-> Before(target, k), host |-> After(target, k)]
<1>1. PICK n \in Nat : n = Len(target) /\ DOMAIN target = 1..n
  BY DEF Text
<1>2. PICK X : X = At(target, "@")
  OBVIOUS
<1>3. X \in SUBSET (0..n) /\ \A i : i \in X <=> i \in 1..n /\ target[i] = "@"
  BY <1>1, <1>2 DEF At
<1>4. CASE X = {}
  BY <1>2, <1>4 DEF SplitUser
<1>5. CASE X # {}
  <2>1. PICK k : k = CHOOSE i \in X : \A j \in X : j <= i
    OBVIOUS
  <2>2. k \in X /\ \A j \in X : j <= k
    BY <1>3, <1>5, <2>1, GreatestOf
  <2>3. SplitUser(target) = IF k = 1 THEN [user |-> None, host |-> target]
                            ELSE [user |-> Before(target, k), host |-> After(target, k)]
    BY <1>2, <1>5, <2>1 DEF SplitUser
  <2>4. CASE k = 1
    <3>1. X \subseteq {1}
      BY <1>3, <2>2, <2>4
    <3> QED  BY <1>2, <2>3, <2>4, <3>1
  <2>5. CASE k # 1
    <3>1. k \in 2..n /\ target[k] = "@" /\ \A j \in (k + 1)..n : target[j] # "@"
      BY <1>3, <2>2, <2>5
    <3> QED  BY <1>1, <2>3, <2>5, <3>1
  <2> QED  BY <2>4, <2>5
<1> QED  BY <1>4, <1>5

-----------------------------------------------------------------------------
(* Host patterns.                                                          *)

\* What the k-th character of a pattern takes of the text, from after a to b.
Takes(pattern, text, k, a, b) ==
    IF pattern[k] = "*" THEN a <= b
    ELSE b = a + 1 /\ pattern[k] \in {"?", text[b]}

\* The text after a can be cut into pieces for the characters of the pattern after i.
CutFrom(pattern, text, i, a, cut) ==
    /\ cut \in [i..Len(pattern) -> 0..Len(text)]
    /\ cut[i] = a /\ cut[Len(pattern)] = Len(text)
    /\ \A k \in (i + 1)..Len(pattern) : Takes(pattern, text, k, cut[k - 1], cut[k])
Cuts(pattern, text, i, a) == \E cut : CutFrom(pattern, text, i, a, cut)

LEMMA CutsAll ==
    ASSUME NEW P, NEW pattern \in Seq(P), NEW Q, NEW text \in Seq(Q)
    PROVE  GlobMeans(pattern, text) <=> Cuts(pattern, text, 0, 0)
<1>1. DOMAIN pattern = (0 + 1)..Len(pattern)
  OBVIOUS
<1>2. \A cut : CutFrom(pattern, text, 0, 0, cut) <=>
          /\ cut \in [0..Len(pattern) -> 0..Len(text)]
          /\ cut[0] = 0 /\ cut[Len(pattern)] = Len(text)
          /\ \A k \in DOMAIN pattern : Takes(pattern, text, k, cut[k - 1], cut[k])
  BY <1>1, Zenon DEF CutFrom
<1>3. GlobMeans(pattern, text) <=>
          \E cut \in [0..Len(pattern) -> 0..Len(text)] :
              /\ cut[0] = 0 /\ cut[Len(pattern)] = Len(text)
              /\ \A k \in DOMAIN pattern : Takes(pattern, text, k, cut[k - 1], cut[k])
  BY Zenon DEF GlobMeans, Takes
<1> QED  BY <1>2, <1>3, Zenon DEF Cuts

\* A pattern that has ended takes nothing.
LEMMA CutsEnd ==
    ASSUME NEW P, NEW pattern \in Seq(P), NEW Q, NEW text \in Seq(Q), NEW a \in 0..Len(text)
    PROVE  Cuts(pattern, text, Len(pattern), a) <=> a = Len(text)
<1>1. PICK p \in Nat, n \in Nat : p = Len(pattern) /\ n = Len(text)
  OBVIOUS
<1>2. ASSUME a = n PROVE CutFrom(pattern, text, p, a, [k \in p..p |-> n])
  BY <1>1, <1>2 DEF CutFrom
<1> QED  BY <1>1, <1>2 DEF Cuts, CutFrom

\* The next character takes its piece, and the others what is left.
LEMMA CutsNext ==
    ASSUME NEW P, NEW pattern \in Seq(P), NEW Q, NEW text \in Seq(Q),
           NEW i \in 1..Len(pattern), NEW a \in 0..Len(text)
    PROVE  Cuts(pattern, text, i - 1, a) <=>
              \E b \in 0..Len(text) : Takes(pattern, text, i, a, b) /\ Cuts(pattern, text, i, b)
<1>1. PICK p \in Nat, n \in Nat : p = Len(pattern) /\ n = Len(text)
  OBVIOUS
<1>2. ASSUME NEW cut, CutFrom(pattern, text, i - 1, a, cut)
      PROVE  \E b \in 0..n : Takes(pattern, text, i, a, b) /\ Cuts(pattern, text, i, b)
  <2>1. /\ cut \in [(i - 1)..p -> 0..n] /\ cut[i - 1] = a /\ cut[p] = n
        /\ \A k \in ((i - 1) + 1)..p : Takes(pattern, text, k, cut[k - 1], cut[k])
    BY <1>1, <1>2 DEF CutFrom
  <2>2. i \in ((i - 1) + 1)..p /\ cut[i] \in 0..n /\ \A k \in i..p : k \in (i - 1)..p
    BY <1>1, <2>1
  <2>3. Takes(pattern, text, i, a, cut[i])
    BY <2>1, <2>2
  <2>4. PICK rest : rest = [k \in i..p |-> cut[k]]
    OBVIOUS
  <2>5. rest \in [i..p -> 0..n] /\ rest[i] = cut[i] /\ rest[p] = n
    BY <1>1, <2>1, <2>2, <2>4
  <2>6. ASSUME NEW k \in (i + 1)..p PROVE Takes(pattern, text, k, rest[k - 1], rest[k])
    <3>1. k \in ((i - 1) + 1)..p /\ k - 1 \in i..p /\ k \in i..p
      BY <1>1
    <3>2. rest[k] = cut[k] /\ rest[k - 1] = cut[k - 1]
      BY <2>4, <3>1
    <3> QED  BY <2>1, <3>1, <3>2
  <2>7. CutFrom(pattern, text, i, cut[i], rest)
    BY <1>1, <2>5, <2>6 DEF CutFrom
  <2> QED  BY <2>2, <2>3, <2>7 DEF Cuts
<1>3. ASSUME NEW b \in 0..n, Takes(pattern, text, i, a, b), NEW rest, CutFrom(pattern, text, i, b, rest)
      PROVE  \E cut : CutFrom(pattern, text, i - 1, a, cut)
  <2>1. /\ rest \in [i..p -> 0..n] /\ rest[i] = b /\ rest[p] = n
        /\ \A k \in (i + 1)..p : Takes(pattern, text, k, rest[k - 1], rest[k])
    BY <1>1, <1>3 DEF CutFrom
  <2>2. PICK cut : cut = [k \in (i - 1)..p |-> IF k = i - 1 THEN a ELSE rest[k]]
    OBVIOUS
  <2>3. cut[i - 1] = a /\ \A k \in i..p : cut[k] = rest[k]
    BY <1>1, <2>2
  <2>4. cut \in [(i - 1)..p -> 0..n] /\ cut[p] = n
    <3>1. ASSUME NEW k \in (i - 1)..p PROVE cut[k] \in 0..n
      <4>1. k = i - 1 \/ k \in i..p
        OBVIOUS
      <4> QED  BY <1>1, <2>1, <2>3, <4>1
    <3> QED  BY <1>1, <2>1, <2>2, <2>3, <3>1
  <2>5. ASSUME NEW k \in ((i - 1) + 1)..p PROVE Takes(pattern, text, k, cut[k - 1], cut[k])
    <3>1. CASE k = i
      <4>1. i \in i..p /\ cut[k] = b /\ cut[k - 1] = a
        BY <1>1, <2>1, <2>3, <3>1
      <4> QED  BY <1>3, <3>1, <4>1
    <3>2. CASE k # i
      <4>1. k \in (i + 1)..p /\ k \in i..p /\ k - 1 \in i..p
        BY <1>1, <3>2
      <4>2. cut[k] = rest[k] /\ cut[k - 1] = rest[k - 1]
        BY <2>3, <4>1
      <4> QED  BY <2>1, <4>1, <4>2
    <3> QED  BY <3>1, <3>2
  <2>6. CutFrom(pattern, text, i - 1, a, cut)
    BY <1>1, <2>3, <2>4, <2>5 DEF CutFrom
  <2> QED  BY <2>6
<1> QED  BY <1>1, <1>2, <1>3 DEF Cuts

\* The same, as the code takes it: one character of the text at a time.
LEMMA CutsStep ==
    ASSUME NEW P, NEW pattern \in Seq(P), NEW Q, NEW text \in Seq(Q),
           NEW i \in 1..Len(pattern), NEW j \in 1..(Len(text) + 1)
    PROVE  /\ pattern[i] = "*" =>
                 (Cuts(pattern, text, i - 1, j - 1) <=>
                     \/ Cuts(pattern, text, i, j - 1)
                     \/ j <= Len(text) /\ Cuts(pattern, text, i - 1, j))
           /\ pattern[i] # "*" =>
                 (Cuts(pattern, text, i - 1, j - 1) <=>
                     j <= Len(text) /\ pattern[i] \in {"?", text[j]} /\ Cuts(pattern, text, i, j))
<1>1. PICK n \in Nat : n = Len(text)
  OBVIOUS
<1>2. j - 1 \in 0..n /\ (j <= n => j \in 0..n)
  BY <1>1
<1>3. \A a \in 0..n : Cuts(pattern, text, i - 1, a) <=>
          \E b \in 0..n : Takes(pattern, text, i, a, b) /\ Cuts(pattern, text, i, b)
  BY <1>1, CutsNext
<1>4. ASSUME pattern[i] = "*"
      PROVE  Cuts(pattern, text, i - 1, j - 1) <=>
                 Cuts(pattern, text, i, j - 1) \/ (j <= n /\ Cuts(pattern, text, i - 1, j))
  <2>1. \A a, b : Takes(pattern, text, i, a, b) <=> a <= b
    BY <1>4 DEF Takes
  <2>2. \A a \in 0..n : Cuts(pattern, text, i - 1, a) <=> \E b \in 0..n : a <= b /\ Cuts(pattern, text, i, b)
    BY <1>3, <2>1
  <2>3. \A b \in 0..n : j - 1 <= b <=> b = j - 1 \/ j <= b
    BY <1>2
  <2> QED  BY <1>2, <2>2, <2>3
<1>5. ASSUME pattern[i] # "*"
      PROVE  Cuts(pattern, text, i - 1, j - 1) <=>
                 j <= n /\ pattern[i] \in {"?", text[j]} /\ Cuts(pattern, text, i, j)
  <2>1. \A b \in 0..n : Takes(pattern, text, i, j - 1, b) <=> b = j /\ pattern[i] \in {"?", text[j]}
    BY <1>2, <1>5 DEF Takes
  <2> QED  BY <1>2, <1>3, <2>1
<1> QED  BY <1>1, <1>4, <1>5



\* glob_match says whether the text can be cut so.
LEMMA GlobAsWritten ==
    ASSUME NEW P, NEW pattern \in Seq(P), NEW Q, NEW text \in Seq(Q)
    PROVE  GlobMatch(pattern, text) <=> GlobMeans(pattern, text)
<1>1. PICK p \in Nat, n \in Nat : p = Len(pattern) /\ n = Len(text)
  OBVIOUS
<1> DEFINE Step(m, i, j) ==
        IF i > p THEN ~(j <= n)
        ELSE CASE pattern[i] = "*" -> m[<<i + 1, j>>] \/ (j <= n /\ m[<<i, j + 1>>])
               [] pattern[i] = "?" -> j <= n /\ m[<<i + 1, j + 1>>]
               [] OTHER -> j <= n /\ text[j] = pattern[i] /\ m[<<i + 1, j + 1>>]
    D == (1..(p + 1)) \X (1..(n + 1))
    Loop(m) == m = [at \in D |-> Step(m, at[1], at[2])]
    Same(m, i, j) == m[<<i, j>>] = IF Cuts(pattern, text, i - 1, j - 1) THEN TRUE ELSE FALSE
<1>2. PICK g : g = [at \in D |-> IF Cuts(pattern, text, at[1] - 1, at[2] - 1) THEN TRUE ELSE FALSE]
  OBVIOUS
<1>3. ASSUME NEW i \in 1..(p + 1), NEW j \in 1..(n + 1)
      PROVE  Same(g, i, j)
  BY <1>2
\* A step that starts from what can be cut ends with it.
<1>4. ASSUME NEW m, NEW i \in 1..(p + 1), NEW j \in 1..(n + 1),
             i <= p => Same(m, i + 1, j),
             j <= n => Same(m, i, j + 1),
             i <= p /\ j <= n => Same(m, i + 1, j + 1)
      PROVE  Step(m, i, j) = IF Cuts(pattern, text, i - 1, j - 1) THEN TRUE ELSE FALSE
  <2>1. (i + 1) - 1 = i /\ (j + 1) - 1 = j
    OBVIOUS
  <2>2. CASE i > p
    <3>1. i - 1 = p /\ j - 1 \in 0..n
      BY <2>2
    <3>2. Cuts(pattern, text, p, j - 1) <=> j - 1 = n
      BY <1>1, <3>1, CutsEnd
    <3>3. Step(m, i, j) = ~(j <= n)
      BY <2>2, Zenon
    <3>4. Cuts(pattern, text, i - 1, j - 1) <=> ~(j <= n)
      BY <3>1, <3>2
    <3> HIDE DEF Step
    <3> QED  BY <3>3, <3>4, Zenon
  <2>3. CASE i <= p
    <3>1. /\ pattern[i] = "*" =>
                 (Cuts(pattern, text, i - 1, j - 1) <=>
                     \/ Cuts(pattern, text, i, j - 1)
                     \/ j <= n /\ Cuts(pattern, text, i - 1, j))
          /\ pattern[i] # "*" =>
                 (Cuts(pattern, text, i - 1, j - 1) <=>
                     j <= n /\ pattern[i] \in {"?", text[j]} /\ Cuts(pattern, text, i, j))
      BY <1>1, <2>3, CutsStep
    <3>2. ~(i > p)
      BY <2>3
    <3>3. /\ m[<<i + 1, j>>] = IF Cuts(pattern, text, i, j - 1) THEN TRUE ELSE FALSE
          /\ j <= n => m[<<i, j + 1>>] = IF Cuts(pattern, text, i - 1, j) THEN TRUE ELSE FALSE
          /\ j <= n => m[<<i + 1, j + 1>>] = IF Cuts(pattern, text, i, j) THEN TRUE ELSE FALSE
      BY <1>4, <2>1, <2>3, Zenon
    <3>4. CASE pattern[i] = "*"
      <4>1. Step(m, i, j) = (m[<<i + 1, j>>] \/ (j <= n /\ m[<<i, j + 1>>]))
        BY <3>2, <3>4, Zenon
      <4> HIDE DEF Step
      <4> QED  BY <3>1, <3>3, <3>4, <4>1, Zenon
    <3>5. CASE pattern[i] = "?"
      <4>1. Step(m, i, j) = (j <= n /\ m[<<i + 1, j + 1>>])
        BY <3>2, <3>5, Zenon
      <4>2. pattern[i] # "*"
        BY <3>5
      <4> HIDE DEF Step
      <4> QED  BY <3>1, <3>3, <3>5, <4>1, <4>2, Zenon
    <3>6. CASE pattern[i] # "*" /\ pattern[i] # "?"
      <4>1. Step(m, i, j) = (j <= n /\ text[j] = pattern[i] /\ m[<<i + 1, j + 1>>])
        BY <3>2, <3>6, Zenon
      <4> HIDE DEF Step
      <4> QED  BY <3>1, <3>3, <3>6, <4>1, Zenon
    <3> QED  BY <3>4, <3>5, <3>6, Zenon
  <2>4. i > p \/ i <= p
    OBVIOUS
  <2> QED  BY <2>2, <2>3, <2>4, Zenon
<1>5. Loop(g)
  <2>1. ASSUME NEW i \in 1..(p + 1), NEW j \in 1..(n + 1)
        PROVE  g[<<i, j>>] = Step(g, i, j)
    <3>1. /\ i <= p => Same(g, i + 1, j)
          /\ j <= n => Same(g, i, j + 1)
          /\ i <= p /\ j <= n => Same(g, i + 1, j + 1)
      <4> HIDE DEF Same
      <4> QED  BY <1>3
    <3>2. Step(g, i, j) = IF Cuts(pattern, text, i - 1, j - 1) THEN TRUE ELSE FALSE
      <4> HIDE DEF Same, Step
      <4> QED  BY <1>4, <3>1
    <3> HIDE DEF Step
    <3> QED  BY <1>3, <3>2
  <2> HIDE DEF Step
  <2> QED  BY <1>2, <2>1
<1>6. PICK h : h = CHOOSE m : Loop(m)
  OBVIOUS
<1>7. Loop(h)
  <2> HIDE DEF Loop
  <2> QED  BY <1>5, <1>6
<1>8. GlobMatch(pattern, text) = h[<<1, 1>>]
  BY <1>1, <1>6 DEF GlobMatch
<1>9. ASSUME NEW i \in 1..(p + 1), NEW j \in 1..(n + 1)
      PROVE  h[<<i, j>>] = Step(h, i, j)
  BY <1>7
<1> DEFINE R == {k \in Nat : \A i \in 1..(p + 1), j \in 1..(n + 1) :
                                (p + n + 2) - (i + j) <= k => Same(h, i, j)}
<1>10. 0 \in R
  <2> SUFFICES ASSUME NEW i \in 1..(p + 1), NEW j \in 1..(n + 1), (p + n + 2) - (i + j) <= 0
               PROVE  Same(h, i, j)
    BY Zenon
  <2>1. ~(i <= p) /\ ~(j <= n)
    OBVIOUS
  <2>2. Step(h, i, j) = IF Cuts(pattern, text, i - 1, j - 1) THEN TRUE ELSE FALSE
    <3> HIDE DEF Same, Step
    <3> QED  BY <1>4, <2>1
  <2> HIDE DEF Step
  <2> QED  BY <1>9, <2>2
<1>11. ASSUME NEW k \in Nat, k \in R PROVE k + 1 \in R
  <2> SUFFICES ASSUME NEW i \in 1..(p + 1), NEW j \in 1..(n + 1), (p + n + 2) - (i + j) <= k + 1
               PROVE  Same(h, i, j)
    <3>1. k + 1 \in Nat
      OBVIOUS
    <3> QED  BY <3>1, Zenon
  <2>1. \A i0 \in 1..(p + 1), j0 \in 1..(n + 1) : (p + n + 2) - (i0 + j0) <= k => Same(h, i0, j0)
    BY <1>11
  <2>2. /\ i <= p => Same(h, i + 1, j)
        /\ j <= n => Same(h, i, j + 1)
        /\ i <= p /\ j <= n => Same(h, i + 1, j + 1)
    <3> HIDE DEF Same
    <3> QED  BY <2>1
  <2>3. Step(h, i, j) = IF Cuts(pattern, text, i - 1, j - 1) THEN TRUE ELSE FALSE
    <3> HIDE DEF Same, Step
    <3> QED  BY <1>4, <2>2
  <2> HIDE DEF Step
  <2> QED  BY <1>9, <2>3
<1>12. Same(h, 1, 1)
  <2>1. p + n \in R
    <3> HIDE DEF R
    <3> QED  BY <1>10, <1>11, Induct
  <2> HIDE DEF Same
  <2> QED  BY <2>1
<1>13. GlobMeans(pattern, text) <=> Cuts(pattern, text, 1 - 1, 1 - 1)
  BY CutsAll
<1> QED  BY <1>8, <1>12, <1>13

\* A Host line is for an alias when one of its patterns matches and no negated one does.
HostMeans(patterns, alias) ==
    LET matching(negated) == {p \in Range(patterns) : p.negated = negated /\ GlobMeans(p.glob, alias)}
    IN  matching(TRUE) = {} /\ matching(FALSE) # {}

LEMMA PatternsAsWritten ==
    ASSUME NEW line \in ConfigLine, NEW Q, NEW alias \in Seq(Q)
    PROVE  HostPatternsMatch(line.patterns, alias) <=> HostMeans(line.patterns, alias)
<1>1. PICK s : s = line.patterns /\ s \in Seq([negated : BOOLEAN, glob : Text])
  BY DEF ConfigLine
<1>2. PICK n \in Nat : n = Len(s) /\ DOMAIN s = 1..n
  BY <1>1
<1>3. \A i \in DOMAIN s : s[i].negated \in BOOLEAN /\ s[i].glob \in Text
  <2>1. PICK T : T = [negated : BOOLEAN, glob : Text]
    OBVIOUS
  <2>2. s \in Seq(T)
    BY <1>1, <2>1
  <2>3. \A i \in DOMAIN s : s[i] \in T
    BY ONLY <2>2
  <2> QED  BY <2>1, <2>3
<1>4. \A i \in DOMAIN s : GlobMatch(s[i].glob, alias) <=> GlobMeans(s[i].glob, alias)
  BY <1>3, GlobAsWritten DEF Text
<1>5. HostMeans(s, alias) <=>
          /\ \A i \in DOMAIN s : s[i].negated = TRUE => ~GlobMeans(s[i].glob, alias)
          /\ \E i \in DOMAIN s : s[i].negated = FALSE /\ GlobMeans(s[i].glob, alias)
  BY DEF HostMeans, Range
<1> QED  BY <1>1, <1>3, <1>4, <1>5 DEF HostPatternsMatch

-----------------------------------------------------------------------------
(* The ssh config.                                                         *)

\* Which lines apply at first, and after a line.
LEMMA AppliesFirst == ASSUME NEW lines, NEW alias PROVE Applies(lines, 1, alias)
<1>1. {j \in 1..(1 - 1) : lines[j].keyword \in {"host", "match"}} = {}
  OBVIOUS
<1> QED  BY <1>1 DEF Applies

LEMMA AppliesNext ==
    ASSUME NEW lines \in Seq(ConfigLine), NEW alias, NEW i \in 1..Len(lines)
    PROVE  /\ lines[i].keyword \in {"host", "match"} =>
                 (Applies(lines, i + 1, alias) <=>
                     lines[i].keyword = "host" /\ HostMeans(lines[i].patterns, alias))
           /\ lines[i].keyword \notin {"host", "match"} =>
                 (Applies(lines, i + 1, alias) <=> Applies(lines, i, alias))
<1>1. PICK n \in Nat : n = Len(lines)
  OBVIOUS
<1> DEFINE Heads(k) == {j \in 1..(k - 1) : lines[j].keyword \in {"host", "match"}}
           LastHead(k) == CHOOSE j \in Heads(k) : \A l \in Heads(k) : l <= j
<1>2. \A k : Applies(lines, k, alias) <=>
          (Heads(k) # {} =>
              lines[LastHead(k)].keyword = "host" /\ HostMeans(lines[LastHead(k)].patterns, alias))
  BY DEF Applies, HostMeans
<1>3. ASSUME lines[i].keyword \in {"host", "match"}
      PROVE  Heads(i + 1) # {} /\ LastHead(i + 1) = i
  <2>1. i \in Heads(i + 1) /\ \A l \in Heads(i + 1) : l \in Nat /\ l <= i
    BY <1>1, <1>3
  <2>2. PICK k : k = LastHead(i + 1)
    OBVIOUS
  <2>3. k \in Heads(i + 1) /\ \A l \in Heads(i + 1) : l <= k
    BY <2>1, <2>2
  <2>4. k = i
    <3> HIDE DEF Heads
    <3> QED  BY <2>1, <2>3
  <2> QED  BY <2>1, <2>2, <2>4
<1>4. ASSUME lines[i].keyword \notin {"host", "match"}
      PROVE  Heads(i + 1) = Heads(i) /\ LastHead(i + 1) = LastHead(i)
  <2>1. Heads(i + 1) = Heads(i)
    BY <1>1, <1>4
  <2> HIDE DEF Heads
  <2> QED  BY <2>1
<1> HIDE DEF Heads, LastHead
<1> QED  BY <1>2, <1>3, <1>4

\* What a line adds; m says whether it is a Host line for the alias.
Adds(acc, line, m, next) ==
    /\ next.active = CASE line.keyword = "host" -> m
                       [] line.keyword = "match" -> FALSE
                       [] OTHER -> acc.active
    /\ next.found.hostname =
          IF acc.active /\ line.keyword = "hostname" /\ acc.found.hostname = None
            THEN line.value ELSE acc.found.hostname
    /\ next.found.user =
          IF acc.active /\ line.keyword = "user" /\ acc.found.user = None
            THEN line.value ELSE acc.found.user
    /\ next.found.port =
          IF acc.active /\ line.keyword = "port" /\ line.value # BadPort /\ acc.found.port = None
            THEN line.value ELSE acc.found.port
    /\ next.found.identityFiles =
          IF acc.active /\ line.keyword = "identityfile"
            THEN Append(acc.found.identityFiles, line.value) ELSE acc.found.identityFiles

LEMMA LineAdds ==
    ASSUME NEW acc \in Accumulated, NEW line \in ConfigLine, NEW alias,
           NEW m \in BOOLEAN, m = HostPatternsMatch(line.patterns, alias)
    PROVE  Adds(acc, line, m, ResolveLine(acc, line, alias))
BY DEF Adds, ResolveLine, Accumulated, HostConfig

\* The first of some values, if there are any.
First(values) == IF values = <<>> THEN None ELSE Head(values)

\* Values that are kept when there is none yet, and values that add up.
LEMMA FirstKept ==
    ASSUME NEW s \in Seq(Text), NEW places, NEW v, SiftOf(v, Text, s, places), NEW x, x[0] = None,
           \A i \in 1..Len(s) : x[i] = IF i \in places /\ x[i - 1] = None THEN s[i] ELSE x[i - 1]
    PROVE  x[Len(s)] = First(v[Len(s)])
<1>1. PICK n \in Nat : n = Len(s)
  OBVIOUS
<1>2. PICK V : V = Text
  OBVIOUS
<1>3. /\ v \in [0..n -> Seq(V)] /\ v[0] = <<>>
      /\ \A i \in 1..n : v[i] = IF i \in places THEN Append(v[i - 1], s[i]) ELSE v[i - 1]
      /\ \A i \in 1..n : s[i] \in V
      /\ None \notin V
  BY <1>1, <1>2, NoneNoText DEF SiftOf
<1> DEFINE R == {k \in Nat : k <= n => x[k] = First(v[k])}
<1>4. 0 \in R
  BY <1>3 DEF First
<1>5. ASSUME NEW k \in Nat, k \in R PROVE k + 1 \in R
  <2> SUFFICES ASSUME NEW i \in 1..n, i = k + 1 PROVE x[i] = First(v[i])
    OBVIOUS
  <2>1. i - 1 = k /\ k \in 0..n /\ x[k] = First(v[k]) /\ s[i] \in V
    BY <1>3, <1>5
  <2>2. PICK a \in Seq(V) : a = v[k]
    BY <1>3, <2>1
  <2>3. x[i] = IF i \in places /\ x[k] = None THEN s[i] ELSE x[k]
    BY <1>1, <2>1
  <2>4. v[i] = IF i \in places THEN Append(a, s[i]) ELSE a
    BY <1>3, <2>1, <2>2
  <2>5. First(a) = None <=> a = <<>>
    BY <1>3, <2>2 DEF First
  <2>6. Append(a, s[i]) # <<>> /\ Head(Append(a, s[i])) = IF a = <<>> THEN s[i] ELSE Head(a)
    <3>1. PICK c \in V : c = s[i]
      BY <2>1
    <3>2. PICK b : b = Append(a, c)
      OBVIOUS
    <3>3. b \in Seq(V) /\ Len(b) = Len(a) + 1 /\ b[Len(a) + 1] = c /\ \A j \in 1..Len(a) : b[j] = a[j]
      BY <3>2
    <3>4. b # <<>> /\ Head(b) = b[1]
      BY <3>3
    <3>5. Len(a) \in Nat /\ (a = <<>> <=> Len(a) = 0) /\ (a # <<>> => Head(a) = a[1])
      OBVIOUS
    <3> QED  BY <3>1, <3>2, <3>3, <3>4, <3>5
  <2>7. First(Append(a, s[i])) = IF a = <<>> THEN s[i] ELSE First(a)
    BY <2>6 DEF First
  <2> QED  BY <2>1, <2>2, <2>3, <2>4, <2>5, <2>7
<1>6. n \in R
  <2> HIDE DEF R
  <2> QED  BY <1>4, <1>5, Induct
<1> QED  BY <1>1, <1>6

AddsUp(x, s, places) ==
    x[0] = <<>> /\ \A i \in 1..Len(s) : x[i] = IF i \in places THEN Append(x[i - 1], s[i]) ELSE x[i - 1]

LEMMA AllKept ==
    ASSUME NEW s \in Seq(Text), NEW places, NEW v, SiftOf(v, Text, s, places), NEW x, AddsUp(x, s, places)
    PROVE  x[Len(s)] = v[Len(s)]
<1>1. PICK n \in Nat : n = Len(s)
  OBVIOUS
<1>2. /\ v[0] = <<>>
      /\ \A i \in 1..n : v[i] = IF i \in places THEN Append(v[i - 1], s[i]) ELSE v[i - 1]
  BY <1>1 DEF SiftOf
<1> DEFINE R == {k \in Nat : k <= n => x[k] = v[k]}
<1>3. 0 \in R
  BY <1>2 DEF AddsUp
<1>4. ASSUME NEW k \in Nat, k \in R PROVE k + 1 \in R
  <2> SUFFICES ASSUME NEW i \in 1..n, i = k + 1 PROVE x[i] = v[i]
    OBVIOUS
  <2>1. i - 1 = k /\ x[i - 1] = v[i - 1]
    BY <1>4
  <2> QED  BY <1>1, <1>2, <2>1 DEF AddsUp
<1>5. n \in R
  <2> HIDE DEF R
  <2> QED  BY <1>3, <1>4, Induct
<1> QED  BY <1>1, <1>5

\* resolve finds what the config says of the alias.
LEMMA ResolveAsWritten ==
    ASSUME NEW lines \in Seq(ConfigLine), NEW Q, NEW alias \in Seq(Q)
    PROVE  Resolve(lines, alias) = ResolveMeans(lines, alias)
<1>1. PICK n \in Nat : n = Len(lines) /\ DOMAIN lines = 1..n
  OBVIOUS
<1>2. PICK f : f = CHOOSE g : LinesUpTo(g, lines, alias, n)
  OBVIOUS
<1>3. LinesUpTo(f, lines, alias, n)
  BY <1>2, LinesExist
<1>4. Resolve(lines, alias) = f[n].found
  BY <1>1, <1>2 DEF Resolve, LinesUpTo, NothingFound
<1>5. f[0] = NothingFound /\ \A i \in 1..n : f[i] = ResolveLine(f[i - 1], lines[i], alias)
  BY <1>3 DEF LinesUpTo
<1> DEFINE R == {k \in Nat : k <= n => f[k] \in Accumulated /\ (f[k].active <=> Applies(lines, k + 1, alias))}
<1>6. 0 \in R
  <2>1. NoConfig \in HostConfig
    BY DEF NoConfig, HostConfig, OptionText
  <2>2. NothingFound \in Accumulated /\ NothingFound.active = TRUE
    BY <2>1 DEF Accumulated, NothingFound
  <2>3. Applies(lines, 0 + 1, alias)
    BY AppliesFirst
  <2> QED  BY <1>5, <2>2, <2>3
<1>7. ASSUME NEW k \in Nat, k \in R PROVE k + 1 \in R
  <2> SUFFICES ASSUME NEW i \in 1..n, i = k + 1
               PROVE  f[i] \in Accumulated /\ (f[i].active <=> Applies(lines, i + 1, alias))
    OBVIOUS
  <2>1. i - 1 = k /\ lines[i] \in ConfigLine /\ i \in 1..Len(lines)
    BY <1>1
  <2>2. f[k] \in Accumulated /\ (f[k].active <=> Applies(lines, i, alias))
    BY <1>7
  <2>3. f[i] = ResolveLine(f[k], lines[i], alias)
    BY <1>5, <2>1
  <2>4. f[i] \in Accumulated
    BY ONLY <2>1, <2>2, <2>3, ResolveLineTyped
  <2>5. PICK m \in BOOLEAN : m = HostPatternsMatch(lines[i].patterns, alias)
    BY DEF HostPatternsMatch
  <2>6. /\ lines[i].keyword = "host" => f[i].active = m
        /\ lines[i].keyword = "match" => f[i].active = FALSE
        /\ lines[i].keyword \notin {"host", "match"} => f[i].active = f[k].active
    <3>1. Adds(f[k], lines[i], m, f[i])
      BY ONLY <2>1, <2>2, <2>3, <2>5, LineAdds
    <3> QED  BY <3>1 DEF Adds
  <2>7. m <=> HostMeans(lines[i].patterns, alias)
    BY <2>1, <2>5, PatternsAsWritten
  <2>8. /\ lines[i].keyword \in {"host", "match"} =>
              (Applies(lines, i + 1, alias) <=>
                  lines[i].keyword = "host" /\ HostMeans(lines[i].patterns, alias))
        /\ lines[i].keyword \notin {"host", "match"} =>
              (Applies(lines, i + 1, alias) <=> Applies(lines, i, alias))
    BY <2>1, AppliesNext
  <2>9. "host" # "match"
    OBVIOUS
  <2> QED  BY <2>2, <2>4, <2>6, <2>7, <2>8, <2>9, Zenon
<1>8. \A k \in 0..n : f[k] \in Accumulated /\ (f[k].active <=> Applies(lines, k + 1, alias))
  <2>1. \A k \in Nat : k \in R
    <3> HIDE DEF R
    <3> QED  BY <1>6, <1>7, Induct
  <2> QED  BY <2>1
<1> HIDE DEF R
<1>9. PICK s : s = [i \in 1..n |-> lines[i].value]
  OBVIOUS
<1>10. s \in Seq(Text) /\ Len(s) = n
  <2>1. \A i \in 1..n : lines[i] \in ConfigLine
    BY <1>1
  <2>2. s \in [1..n -> Text]
    BY <1>9, <2>1 DEF ConfigLine
  <2>3. PICK V : V = Text
    OBVIOUS
  <2>4. s \in Seq(V) /\ Len(s) = n
    BY <2>2, <2>3
  <2> QED  BY <2>3, <2>4
<1> DEFINE For(keyword) == LinesFor(lines, keyword, alias)
<1>11. \A keyword : ValuesFor(lines, keyword, alias) = Sift(s, For(keyword))
  BY <1>1, <1>9 DEF ValuesFor
<1>12. ASSUME NEW i \in 1..n, NEW keyword
       PROVE  i \in For(keyword) <=>
                 /\ f[i - 1].active /\ lines[i].keyword = keyword
                 /\ keyword = "port" => s[i] # BadPort
  <2>1. i - 1 \in 0..n /\ (i - 1) + 1 = i /\ s[i] = lines[i].value
    BY <1>9
  <2> QED  BY <1>1, <1>8, <2>1 DEF LinesFor
<1>13. ASSUME NEW i \in 1..n
       PROVE  /\ f[i].found.hostname = IF i \in For("hostname") /\ f[i - 1].found.hostname = None
                                          THEN s[i] ELSE f[i - 1].found.hostname
              /\ f[i].found.user = IF i \in For("user") /\ f[i - 1].found.user = None
                                      THEN s[i] ELSE f[i - 1].found.user
              /\ f[i].found.port = IF i \in For("port") /\ f[i - 1].found.port = None
                                      THEN s[i] ELSE f[i - 1].found.port
              /\ f[i].found.identityFiles = IF i \in For("identityfile")
                    THEN Append(f[i - 1].found.identityFiles, s[i]) ELSE f[i - 1].found.identityFiles
  <2>1. PICK k \in 0..n : k = i - 1
    OBVIOUS
  <2>2. lines[i] \in ConfigLine /\ f[k] \in Accumulated /\ s[i] = lines[i].value
    BY <1>1, <1>8, <1>9
  <2>3. PICK m \in BOOLEAN : m = HostPatternsMatch(lines[i].patterns, alias)
    BY DEF HostPatternsMatch
  <2>4. Adds(f[k], lines[i], m, f[i])
    <3>1. f[i] = ResolveLine(f[k], lines[i], alias)
      BY <1>5, <2>1
    <3> QED  BY ONLY <2>2, <2>3, <3>1, LineAdds
  <2>5. \A keyword : i \in For(keyword) <=> /\ f[k].active /\ lines[i].keyword = keyword
                                            /\ keyword = "port" => s[i] # BadPort
    BY <1>12, <2>1
  <2> HIDE DEF For
  <2> QED  BY <2>1, <2>2, <2>4, <2>5 DEF Adds
<1>14. f[0].found = NoConfig
  BY <1>5 DEF NothingFound
<1>15. f[n].found.hostname = First(ValuesFor(lines, "hostname", alias))
  <2>1. PICK x : x = [k \in 0..n |-> f[k].found.hostname]
    OBVIOUS
  <2>2. PICK places : places = For("hostname")
    OBVIOUS
  <2>3. /\ x[0] = None /\ x[n] = f[n].found.hostname
        /\ \A i \in 1..n : x[i] = IF i \in places /\ x[i - 1] = None THEN s[i] ELSE x[i - 1]
    BY <1>13, <1>14, <2>1, <2>2 DEF NoConfig
  <2>4. PICK v : SiftOf(v, Text, s, places) /\ Sift(s, places) = v[Len(s)]
    BY <1>10, Sifted
  <2>5. x[Len(s)] = First(v[Len(s)])
    BY <1>10, <2>3, <2>4, FirstKept
  <2> QED  BY <1>10, <1>11, <2>2, <2>3, <2>4, <2>5
<1>16. f[n].found.user = First(ValuesFor(lines, "user", alias))
  <2>1. PICK x : x = [k \in 0..n |-> f[k].found.user]
    OBVIOUS
  <2>2. PICK places : places = For("user")
    OBVIOUS
  <2>3. /\ x[0] = None /\ x[n] = f[n].found.user
        /\ \A i \in 1..n : x[i] = IF i \in places /\ x[i - 1] = None THEN s[i] ELSE x[i - 1]
    BY <1>13, <1>14, <2>1, <2>2 DEF NoConfig
  <2>4. PICK v : SiftOf(v, Text, s, places) /\ Sift(s, places) = v[Len(s)]
    BY <1>10, Sifted
  <2>5. x[Len(s)] = First(v[Len(s)])
    BY <1>10, <2>3, <2>4, FirstKept
  <2> QED  BY <1>10, <1>11, <2>2, <2>3, <2>4, <2>5
<1>17. f[n].found.port = First(ValuesFor(lines, "port", alias))
  <2>1. PICK x : x = [k \in 0..n |-> f[k].found.port]
    OBVIOUS
  <2>2. PICK places : places = For("port")
    OBVIOUS
  <2>3. /\ x[0] = None /\ x[n] = f[n].found.port
        /\ \A i \in 1..n : x[i] = IF i \in places /\ x[i - 1] = None THEN s[i] ELSE x[i - 1]
    BY <1>13, <1>14, <2>1, <2>2 DEF NoConfig
  <2>4. PICK v : SiftOf(v, Text, s, places) /\ Sift(s, places) = v[Len(s)]
    BY <1>10, Sifted
  <2>5. x[Len(s)] = First(v[Len(s)])
    BY <1>10, <2>3, <2>4, FirstKept
  <2> QED  BY <1>10, <1>11, <2>2, <2>3, <2>4, <2>5
<1>18. f[n].found.identityFiles = ValuesFor(lines, "identityfile", alias)
  <2>1. PICK x : x = [k \in 0..n |-> f[k].found.identityFiles]
    OBVIOUS
  <2>2. PICK places : places = For("identityfile")
    OBVIOUS
  <2>3. /\ x[0] = <<>> /\ x[n] = f[n].found.identityFiles
        /\ \A i \in 1..n : x[i] = IF i \in places THEN Append(x[i - 1], s[i]) ELSE x[i - 1]
    BY <1>13, <1>14, <2>1, <2>2 DEF NoConfig
  <2>4. PICK v : SiftOf(v, Text, s, places) /\ Sift(s, places) = v[Len(s)]
    BY <1>10, Sifted
  <2>5. x[Len(s)] = v[Len(s)]
    <3>1. AddsUp(x, s, places)
      BY <1>10, <2>3 DEF AddsUp
    <3> QED  BY ONLY <1>10, <2>4, <3>1, AllKept
  <2> QED  BY <1>10, <1>11, <2>2, <2>3, <2>4, <2>5
<1>19. f[n].found \in HostConfig
  BY <1>8 DEF Accumulated
<1> QED  BY <1>4, <1>15, <1>16, <1>17, <1>18, <1>19 DEF ResolveMeans, First, HostConfig

-----------------------------------------------------------------------------
(* The connection.                                                         *)

\* The user and the host that the code finds are those of the remote.
LEMMA RemoteAsWritten ==
    ASSUME NEW spec \in Text, NEW c \in 1..Len(spec), spec[c] = ":", \A j \in 1..(c - 1) : spec[j] # ":",
           NEW target, target = Before(spec, c)
    PROVE  \E at \in At(spec, "@") \cup {0} :
              LET u == IF at = 0 THEN None ELSE Before(spec, at)
                  a == SubSeq(spec, at + 1, c - 1)
              IN  /\ at < c /\ a \in Text
                  /\ RemoteMeans(spec, u, a, After(spec, c))
                  /\ SplitUser(target) = [user |-> u, host |-> a]
<1>1. PICK T : Text = Seq(T)
  BY DEF Text
<1>2. PICK n \in Nat : n = Len(spec) /\ DOMAIN spec = 1..n
  BY <1>1
<1>3. /\ target \in Text /\ Len(target) = c - 1 /\ \A j \in 1..(c - 1) : target[j] = spec[j]
      /\ spec = target \o <<":">> \o After(spec, c)
  <2>1. CutOf(T, spec, c)
    BY <1>1, CutAt
  <2> QED  BY <1>1, <2>1 DEF CutOf
<1>4. DOMAIN target = 1..(c - 1) /\ At(target, ":") = {}
  BY <1>1, <1>3 DEF At
<1>5. CASE SplitUser(target) = [user |-> None, host |-> target] /\ At(target, "@") \subseteq {1}
  <2>1. SubSeq(spec, 0 + 1, c - 1) = target
    BY DEF Before
  <2>2. RemoteMeans(spec, None, target, After(spec, c))
    BY <1>3, <1>4, <1>5 DEF RemoteMeans
  <2>3. 0 < c /\ 0 \in At(spec, "@") \cup {0}
    BY <1>2
  <2> QED  BY <1>3, <1>5, <2>1, <2>2, <2>3
<1>6. ASSUME NEW k \in 2..Len(target), target[k] = "@", \A j \in (k + 1)..Len(target) : target[j] # "@",
             SplitUser(target) = [user |-> Before(target, k), host |-> After(target, k)]
      PROVE  /\ k \in At(spec, "@") /\ k # 0 /\ k < c /\ SubSeq(spec, k + 1, c - 1) \in Text
             /\ RemoteMeans(spec, Before(spec, k), SubSeq(spec, k + 1, c - 1), After(spec, c))
             /\ SplitUser(target) = [user |-> Before(spec, k), host |-> SubSeq(spec, k + 1, c - 1)]
  <2>1. k \in 1..(c - 1) /\ k \in 1..n /\ k < c /\ k # 0 /\ k \in 1..Len(target)
    BY <1>2, <1>3
  <2>2. k \in At(spec, "@")
    BY <1>2, <1>3, <1>6, <2>1 DEF At
  <2>3. PICK u, a : u = Before(target, k) /\ a = After(target, k)
    OBVIOUS
  <2>4. /\ u \in Text /\ a \in Text /\ Len(u) = k - 1 /\ Len(a) = Len(target) - k
        /\ \A j \in 1..(Len(target) - k) : a[j] = target[k + j]
        /\ \A j \in 1..(k - 1) : u[j] = target[j]
        /\ target = u \o <<"@">> \o a
    <3>1. CutOf(T, target, k)
      BY <1>1, <1>3, <2>1, CutAt
    <3> QED  BY <1>1, <1>6, <2>3, <3>1 DEF CutOf
  <2>5. u = Before(spec, k)
    <3>1. PICK x : x = Before(spec, k)
      OBVIOUS
    <3>2. x \in Text /\ Len(x) = k - 1 /\ \A j \in 1..(k - 1) : x[j] = spec[j]
      <4>1. CutOf(T, spec, k)
        BY <1>1, <1>2, <2>1, CutAt
      <4> QED  BY <1>1, <3>1, <4>1 DEF CutOf
    <3>3. \A j \in 1..(k - 1) : u[j] = x[j]
      BY <1>3, <2>1, <2>4, <3>2
    <3> QED  BY <1>1, <2>4, <3>1, <3>2, <3>3, SameSeq
  <2>6. a = SubSeq(spec, k + 1, c - 1)
    <3>1. PICK x : x = SubSeq(spec, k + 1, c - 1)
      OBVIOUS
    <3>2. x \in Text /\ Len(x) = (c - 1) - k /\ \A j \in 1..((c - 1) - k) : x[j] = spec[k + j]
      <4>1. spec \in Seq(T) /\ k \in Nat /\ c - 1 \in Nat /\ c - 1 <= Len(spec) /\ k <= c - 1
        BY <1>1, <1>2, <2>1
      <4>2. /\ SubSeq(spec, k + 1, c - 1) \in Seq(T) /\ Len(SubSeq(spec, k + 1, c - 1)) = (c - 1) - k
            /\ \A j \in 1..((c - 1) - k) : SubSeq(spec, k + 1, c - 1)[j] = spec[k + j]
        BY ONLY <4>1, Sub
      <4> QED  BY <1>1, <3>1, <4>2
    <3>3. ASSUME NEW j \in 1..((c - 1) - k) PROVE a[j] = x[j]
      <4>1. j \in 1..(Len(target) - k) /\ k + j \in 1..(c - 1)
        BY <1>3, <2>1
      <4> QED  BY ONLY <1>3, <2>4, <3>2, <4>1, j \in 1..((c - 1) - k)
    <3> QED  BY <1>1, <1>3, <2>4, <3>1, <3>2, <3>3, SameSeq
  <2>7. At(a, "@") = {}
    <3>1. DOMAIN a = 1..(Len(target) - k)
      BY <1>1, <2>4
    <3>2. \A j \in 1..(Len(target) - k) : k + j \in (k + 1)..Len(target)
      BY <1>3
    <3>3. \A j \in 1..(Len(target) - k) : a[j] # "@"
      BY ONLY <1>6, <2>4, <3>2
    <3> QED  BY <3>1, <3>3 DEF At
  <2>8. u # None
    BY <2>4, NoneNoText
  <2>9. RemoteMeans(spec, u, a, After(spec, c))
    BY <1>3, <1>4, <2>4, <2>7, <2>8 DEF RemoteMeans
  <2> QED  BY <1>6, <2>1, <2>2, <2>3, <2>4, <2>5, <2>6, <2>9
<1>7. CASE \E k \in 2..Len(target) :
              /\ target[k] = "@" /\ \A j \in (k + 1)..Len(target) : target[j] # "@"
              /\ SplitUser(target) = [user |-> Before(target, k), host |-> After(target, k)]
  BY <1>6, <1>7
<1> QED  BY <1>3, <1>5, <1>7, TargetCut

\* The options of the connection are what the remote and the ssh config say.
LEMMA Connected == ASSUME ConfigInv PROVE ConnectsAsWritten
<1> SUFFICES ASSUME stage = "dial" PROVE ConnectsAsWritten
  BY DEF ConnectsAsWritten
<1>1. PICK spec \in Text : spec = cli.remote
  BY DEF ConfigInv, CommandTyped
<1>2. ParseRemote(spec).ok /\ config.target = ParseRemote(spec).value.target
  BY <1>1 DEF ConfigInv, ToMountConfig, Ok, Err
<1>3. PICK c \in 1..Len(spec) :
          /\ spec[c] = ":" /\ \A j \in 1..(c - 1) : spec[j] # ":"
          /\ ParseRemote(spec).value = [target |-> Before(spec, c), root |-> After(spec, c)]
  BY <1>2, RemoteCut
<1>4. PICK target : target = config.target /\ target = Before(spec, c)
  BY <1>2, <1>3
<1>5. PICK at \in At(spec, "@") \cup {0} :
          LET u == IF at = 0 THEN None ELSE Before(spec, at)
              a == SubSeq(spec, at + 1, c - 1)
          IN  /\ at < c /\ a \in Text
              /\ RemoteMeans(spec, u, a, After(spec, c))
              /\ SplitUser(target) = [user |-> u, host |-> a]
  BY <1>3, <1>4, RemoteAsWritten
<1>6. PICK u : u = IF at = 0 THEN None ELSE Before(spec, at)
  OBVIOUS
<1>7. PICK a \in Text : a = SubSeq(spec, at + 1, c - 1)
  BY <1>5
<1>8. at < c /\ RemoteMeans(spec, u, a, After(spec, c)) /\ SplitUser(target) = [user |-> u, host |-> a]
  BY <1>5, <1>6, <1>7
<1>9. PICK found : found = IF Env.file.status = "read" /\ (cli.sshConfig \/ Env.home # NoPath)
                             THEN ResolveMeans(Env.file.lines, a) ELSE NoConfig
  OBVIOUS
<1>10. PICK resolved : resolved = ResolveSshConfig(cli, Env, Env.file, a)
  OBVIOUS
<1>11. PICK parsed : parsed = ParseTarget(target, Env)
  OBVIOUS
<1>12. /\ resolved.ok /\ parsed.ok
       /\ opts.host = IF resolved.value.hostname # None THEN resolved.value.hostname ELSE parsed.value.host
       /\ opts.user = IF u = None /\ resolved.value.user # None
                        THEN resolved.value.user ELSE parsed.value.user
       /\ opts.port = IF cli.port # None THEN cli.port
                      ELSE IF resolved.value.port # None THEN resolved.value.port ELSE parsed.value.port
       /\ opts.identityFiles = DefaultIdentities(Env) \o cli.identityFile \o resolved.value.identityFiles
  <2>1. PICK split : split = SplitUser(target) /\ split.user = u /\ split.host = a
    BY <1>8
  <2>2. /\ ConnectOptions(cli, Env, Env.file, target).ok
        /\ opts = ConnectOptions(cli, Env, Env.file, target).value
    BY <1>4 DEF ConfigInv
  <2>3. resolved.ok /\ parsed.ok
    BY <1>10, <1>11, <2>1, <2>2 DEF ConnectOptions, Err
  <2> QED  BY <1>10, <1>11, <2>1, <2>2 DEF ConnectOptions, Ok, Err
<1>13. /\ parsed.value.host = a /\ parsed.value.port = <<"2", "2">>
       /\ parsed.value.user = IF u # None THEN u ELSE Env.user
  BY <1>8, <1>11, <1>12 DEF ParseTarget, ParseHostAndPort, Ok, Err
<1>14. Env.file.lines \in Seq(ConfigLine)
  BY DEF ConfigInv, LoginTyped, Env
<1>15. Resolve(Env.file.lines, a) = ResolveMeans(Env.file.lines, a)
  BY <1>14, ResolveAsWritten DEF Text
<1>16. resolved.value = found
  BY <1>9, <1>10, <1>12, <1>15 DEF ResolveSshConfig, Ok, Err
<1>17. opts.identityFiles = DefaultIdentities(Env) \o cli.identityFile \o found.identityFiles
  BY <1>12, <1>16
<1>18. c \in At(cli.remote, ":") /\ at \in At(cli.remote, "@") \cup {0}
  BY <1>1, <1>3, <1>5 DEF At, Text
<1> QED  BY <1>1, <1>6, <1>7, <1>8, <1>9, <1>12, <1>13, <1>16, <1>17, <1>18 DEF ConnectsAsWritten

\* connect_options, for every remote, command line and ssh config: the connection goes
\* to the host, user and port, and tries the identity files, that these say, whatever
\* the number of Host blocks, patterns and characters in them.
THEOREM ConnectsAsWrittenInvariant == Spec => []ConnectsAsWritten
<1>1. Init => ConfigInv
  BY ConfigInit
<1>2. ConfigInv /\ [Next]_vars => ConfigInv'
  BY ConfigStep
<1>3. ConfigInv => ConnectsAsWritten
  BY Connected
<1> QED  BY <1>1, <1>2, <1>3, PTL DEF Spec
=============================================================================
