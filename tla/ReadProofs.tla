----------------------------- MODULE ReadProofs -----------------------------
(***************************************************************************)
(* What the loops of the code compute, for inputs of any length: joining   *)
(* pieces, and the assembly of a read from chunks (ChunkedRead).           *)
(*                                                                         *)
(* Induction is by sets: a set that holds 0 and with every number the next *)
(* one holds all of them, since what it lacks would have a least element.  *)
(***************************************************************************)
EXTENDS ChunkedRead, FiniteSetTheorems, TLAPS

-----------------------------------------------------------------------------
(* Induction, and sequences.                                               *)

\* A set that holds 0 and every successor holds all numbers.
LEMMA Induct ==
    ASSUME NEW T, 0 \in T, \A n \in Nat : n \in T => n + 1 \in T
    PROVE  \A n \in Nat : n \in T
<1> SUFFICES ASSUME Nat \ T # {} PROVE FALSE
  OBVIOUS
<1>1. PICK x \in Nat \ T : \A y \in Nat \ T : ~(<<y, x>> \in OpToRel(<, Nat))
  <2>1. IsWellFoundedOn(OpToRel(<, Nat), Nat)
    BY NatLessThanWellFounded
  <2>2. Nat \ T \subseteq Nat
    OBVIOUS
  <2> QED  BY ONLY <2>1, <2>2, Nat \ T # {}, WFMin, Zenon
<1>2. \A y \in Nat \ T : ~(y < x)
  BY <1>1 DEF OpToRel
<1>3. x # 0 /\ x - 1 \in Nat
  OBVIOUS
<1>4. x - 1 \in T
  BY <1>2, <1>3
<1> QED  BY <1>3, <1>4

\* Two sequences, one after the other.
LEMMA Joined ==
    ASSUME NEW T, NEW a \in Seq(T), NEW b \in Seq(T)
    PROVE  /\ a \o b \in Seq(T)
           /\ Len(a \o b) = Len(a) + Len(b)
           /\ \A p \in 1..Len(a) : (a \o b)[p] = a[p]
           /\ \A p \in 1..Len(b) : (a \o b)[Len(a) + p] = b[p]
OBVIOUS

\* FlattenSeq's function on the first n of the sequences.
FlatUpTo(f, seqs, n) ==
    f = [i \in 1..n |-> IF i = 1 THEN seqs[i] ELSE f[i - 1] \o seqs[i]]

\* It exists.
LEMMA FlatExists ==
    ASSUME NEW seqs, NEW n \in Nat
    PROVE  \E f : FlatUpTo(f, seqs, n)
<1> DEFINE T == {k \in Nat : \E f : FlatUpTo(f, seqs, k)}
<1>1. 0 \in T
  <2>1. FlatUpTo(<<>>, seqs, 0)
    BY DEF FlatUpTo
  <2> QED  BY <2>1
<1>2. ASSUME NEW k \in Nat, k \in T PROVE k + 1 \in T
  <2>1. PICK f : FlatUpTo(f, seqs, k)
    BY <1>2
  <2>2. PICK g : g = [i \in 1..(k + 1) |-> IF i <= k THEN f[i]
                                           ELSE IF i = 1 THEN seqs[i] ELSE f[i - 1] \o seqs[i]]
    OBVIOUS
  <2>3. ASSUME NEW i \in 1..(k + 1) PROVE g[i] = IF i = 1 THEN seqs[i] ELSE g[i - 1] \o seqs[i]
    <3>1. CASE i <= k
      <4>1. i \in 1..k /\ (i # 1 => i - 1 \in 1..k /\ i - 1 <= k)
        BY <3>1
      <4>2. f[i] = IF i = 1 THEN seqs[i] ELSE f[i - 1] \o seqs[i]
        BY <2>1, <4>1 DEF FlatUpTo
      <4>3. g[i] = f[i] /\ (i # 1 => g[i - 1] = f[i - 1])
        BY <2>2, <4>1
      <4> QED  BY <4>2, <4>3
    <3>2. CASE i > k
      <4>1. i # 1 => i - 1 \in 1..(k + 1) /\ i - 1 <= k
        BY <3>2
      <4>2. i # 1 => g[i - 1] = f[i - 1]
        BY <2>2, <4>1
      <4> QED  BY <2>2, <3>2, <4>2
    <3> QED  BY <3>1, <3>2
  <2>4. FlatUpTo(g, seqs, k + 1)
    BY <2>2, <2>3 DEF FlatUpTo
  <2> QED  BY <2>4
<1>3. \A k \in Nat : k \in T
  <2> HIDE DEF T
  <2> QED  BY <1>1, <1>2, Induct
<1> QED  BY <1>3

\* f[i] is the first i of n sequences one after the other.
JoinsOf(f, seqs, n, T) ==
    /\ f \in [0..n -> Seq(T)] /\ f[0] = <<>>
    /\ \A i \in 1..n : f[i] = f[i - 1] \o seqs[i]

\* FlattenSeq joins its sequences one after the other.
LEMMA Flattened ==
    ASSUME NEW T, NEW n \in Nat, NEW seqs \in [1..n -> Seq(T)]
    PROVE  \E f : JoinsOf(f, seqs, n, T) /\ FlattenSeq(seqs) = f[n]
<1>1. Len(seqs) = n
  OBVIOUS
<1>2. PICK g : g = CHOOSE f : FlatUpTo(f, seqs, n)
  OBVIOUS
<1>3. FlatUpTo(g, seqs, n)
  BY <1>2, FlatExists
<1>4. n # 0 => FlattenSeq(seqs) = g[n]
  BY <1>1, <1>2 DEF FlattenSeq, FlatUpTo
<1>5. n = 0 => FlattenSeq(seqs) = <<>>
  BY <1>1 DEF FlattenSeq
<1>6. PICK f : f = [i \in 0..n |-> IF i = 0 THEN <<>> ELSE g[i]]
  OBVIOUS
<1>7. \A i \in 1..n : f[i] = f[i - 1] \o seqs[i]
  <2> SUFFICES ASSUME NEW i \in 1..n PROVE f[i] = f[i - 1] \o seqs[i]
    OBVIOUS
  <2>0. f[i] = g[i]
    BY <1>6
  <2>1. f[i] = IF i = 1 THEN seqs[i] ELSE g[i - 1] \o seqs[i]
    <3>1. g[i] = IF i = 1 THEN seqs[i] ELSE g[i - 1] \o seqs[i]
      BY ONLY <1>3, i \in 1..n DEF FlatUpTo
    <3> QED  BY ONLY <2>0, <3>1
  <2>2. CASE i = 1
    <3>1. f[i - 1] = <<>>
      BY <1>6, <2>2
    <3>2. <<>> \o seqs[i] = seqs[i]
      OBVIOUS
    <3> QED  BY <2>1, <2>2, <3>1, <3>2
  <2>3. CASE i # 1
    <3>1. f[i - 1] = g[i - 1]
      BY <1>6, <2>3
    <3> QED  BY <2>1, <2>3, <3>1
  <2> QED  BY <2>2, <2>3
<1>8. \A k \in Nat : k \in 0..n => f[k] \in Seq(T)
  <2> DEFINE R == {k \in Nat : k \in 0..n => f[k] \in Seq(T)}
  <2>1. 0 \in R
    BY <1>6
  <2>2. ASSUME NEW k \in Nat, k \in R PROVE k + 1 \in R
    <3> SUFFICES ASSUME k + 1 \in 0..n PROVE f[k + 1] \in Seq(T)
      OBVIOUS
    <3>1. f[k] \in Seq(T)
      BY <2>2
    <3>2. PICK j \in 1..n : j = k + 1
      OBVIOUS
    <3>3. f[j] = f[j - 1] \o seqs[j] /\ seqs[j] \in Seq(T)
      BY <1>7
    <3>4. j - 1 = k
      BY <3>2
    <3>5. f[j] \in Seq(T)
      BY ONLY <3>1, <3>3, <3>4
    <3> QED  BY <3>2, <3>5
  <2>3. \A k \in Nat : k \in R
    <3> HIDE DEF R
    <3> QED  BY <2>1, <2>2, Induct
  <2> QED  BY <2>3
<1>9. f \in [0..n -> Seq(T)]
  BY <1>6, <1>8
<1>10. f[0] = <<>> /\ FlattenSeq(seqs) = f[n]
  BY <1>4, <1>5, <1>6
<1> QED  BY <1>7, <1>9, <1>10 DEF JoinsOf

\* Sequences of the same length with the same elements are equal.
LEMMA SameSeq ==
    ASSUME NEW T, NEW s \in Seq(T), NEW t \in Seq(T), Len(s) = Len(t),
           \A i \in 1..Len(s) : s[i] = t[i]
    PROVE  s = t
OBVIOUS

\* The bytes x + 1 to y of a file.
LEMMA Sub ==
    ASSUME NEW T, NEW file \in Seq(T), NEW x \in Nat, NEW y \in Nat, y <= Len(file)
    PROVE  /\ SubSeq(file, x + 1, y) \in Seq(T)
           /\ Len(SubSeq(file, x + 1, y)) = IF x <= y THEN y - x ELSE 0
           /\ \A i \in 1..(y - x) : SubSeq(file, x + 1, y)[i] = file[x + i]
<1>1. SubSeq(file, x + 1, y) \in Seq(T)
  OBVIOUS
<1>2. Len(SubSeq(file, x + 1, y)) = IF x <= y THEN y - x ELSE 0
  OBVIOUS
<1>3. \A i \in 1..(y - x) : SubSeq(file, x + 1, y)[i] = file[x + i]
  OBVIOUS
<1> QED  BY <1>1, <1>2, <1>3

\* A part of a part is a part.
LEMMA SubOfSub ==
    ASSUME NEW T, NEW file \in Seq(T), NEW a \in Nat, NEW m \in Nat, m <= Len(file),
           NEW u \in Nat, NEW v \in Nat, v <= Len(SubSeq(file, a + 1, m))
    PROVE  SubSeq(SubSeq(file, a + 1, m), u + 1, v) = SubSeq(file, (a + u) + 1, a + v)
<1>1. PICK s \in Seq(T) : s = SubSeq(file, a + 1, m)
  BY Sub
<1>2. Len(s) = (IF a <= m THEN m - a ELSE 0) /\ \A i \in 1..(m - a) : s[i] = file[a + i]
  BY <1>1, Sub
<1>3. v <= Len(s)
  BY <1>1
<1>4. CASE v <= u
  <2>1. SubSeq(s, u + 1, v) = <<>> /\ SubSeq(file, (a + u) + 1, a + v) = <<>>
    BY <1>4
  <2> QED  BY <1>1, <2>1
<1>5. CASE v > u
  <2>1. a <= m /\ v <= m - a /\ a + v <= Len(file) /\ a + u \in Nat /\ a + v \in Nat
    BY <1>2, <1>3, <1>5
  <2>2. PICK l \in Seq(T) : l = SubSeq(s, u + 1, v)
    BY <1>3, Sub
  <2>3. Len(l) = v - u /\ \A i \in 1..(v - u) : l[i] = s[u + i]
    BY <1>3, <1>5, <2>2, Sub
  <2>4. PICK r \in Seq(T) : r = SubSeq(file, (a + u) + 1, a + v)
    BY <2>1, Sub
  <2>5. Len(r) = v - u /\ \A i \in 1..(v - u) : r[i] = file[(a + u) + i]
    <3>1. PICK x \in Nat : x = a + u
      BY <2>1
    <3>2. PICK y \in Nat : y = a + v
      BY <2>1
    <3>3. y <= Len(file) /\ y - x = v - u /\ x <= y
      BY <1>5, <2>1, <3>1, <3>2
    <3>4. r = SubSeq(file, x + 1, y)
      BY <2>4, <3>1, <3>2
    <3>5. Len(r) = y - x /\ \A i \in 1..(y - x) : r[i] = file[x + i]
      BY <3>3, <3>4, Sub
    <3> QED  BY <3>1, <3>3, <3>5
  <2>6. ASSUME NEW i \in 1..(v - u) PROVE l[i] = r[i]
    <3>1. l[i] = s[u + i]
      BY <2>3
    <3>2. u + i \in 1..(m - a) /\ a + (u + i) = (a + u) + i
      BY <2>1
    <3>3. s[u + i] = file[a + (u + i)]
      BY ONLY <1>2, <3>2
    <3> QED  BY ONLY <2>5, <2>6, <3>1, <3>2, <3>3
  <2>7. l = r
    BY <2>3, <2>5, <2>6, SameSeq
  <2> QED  BY <1>1, <2>2, <2>4, <2>7
<1> QED  BY <1>4, <1>5

\* The same, as an operator.
Part(file, x, y) == SubSeq(file, x + 1, y)

\* Two parts that meet are one.
LEMMA SubJoined ==
    ASSUME NEW T, NEW file \in Seq(T), NEW p \in Nat, NEW x \in Nat, NEW y \in Nat,
           p <= x, x <= Len(file), y <= Len(file)
    PROVE  Part(file, p, x) \o Part(file, x, y) = Part(file, p, Greatest(x, y))
<1>1. PICK s \in Seq(T) : s = SubSeq(file, p + 1, x) /\ s = Part(file, p, x)
  BY Sub DEF Part
<1>2. Len(s) = x - p /\ \A i \in 1..(x - p) : s[i] = file[p + i]
  BY <1>1, Sub
<1>3. PICK t \in Seq(T) : t = SubSeq(file, x + 1, y) /\ t = Part(file, x, y)
  BY Sub DEF Part
<1>4. CASE y <= x
  <2>1. t = <<>>
    BY <1>3, <1>4
  <2>2. s \o t = s
    BY <2>1
  <2> QED  BY <1>1, <1>3, <1>4, <2>2 DEF Greatest
<1>5. CASE y > x
  <2>1. Len(t) = y - x /\ \A i \in 1..(y - x) : t[i] = file[x + i]
    BY <1>3, <1>5, Sub
  <2>2. PICK r \in Seq(T) : r = SubSeq(file, p + 1, y)
    BY Sub
  <2>3. Len(r) = y - p /\ \A i \in 1..(y - p) : r[i] = file[p + i]
    BY <1>5, <2>2, Sub
  <2>4. PICK w : w = s \o t
    OBVIOUS
  <2>5. /\ w \in Seq(T) /\ Len(w) = Len(s) + Len(t)
        /\ \A i \in 1..Len(s) : w[i] = s[i]
        /\ \A i \in 1..Len(t) : w[Len(s) + i] = t[i]
    <3>1. s \in Seq(T) /\ t \in Seq(T)
      OBVIOUS
    <3> QED  BY ONLY <2>4, <3>1, Joined
  <2>6. ASSUME NEW i \in 1..(y - p) PROVE w[i] = r[i]
    <3>1. CASE i <= x - p
      BY <1>2, <2>3, <2>5, <3>1
    <3>2. CASE i > x - p
      <4>1. PICK j \in 1..(y - x) : i = (x - p) + j
        <5>1. i - (x - p) \in 1..(y - x) /\ i = (x - p) + (i - (x - p))
          BY <1>5, <3>2
        <5> QED  BY <5>1
      <4>2. w[i] = t[j]
        BY <1>2, <2>1, <2>5, <4>1
      <4>3. t[j] = file[x + j] /\ x + j = p + i
        BY <2>1, <4>1
      <4> QED  BY <2>3, <4>2, <4>3
    <3> QED  BY <3>1, <3>2
  <2>7. Len(w) = y - p
    BY <1>2, <1>5, <2>1, <2>5
  <2>8. w = r
    BY <2>3, <2>5, <2>6, <2>7, SameSeq
  <2>9. Greatest(x, y) = y /\ r = Part(file, p, y)
    BY <1>5, <2>2 DEF Greatest, Part
  <2> QED  BY ONLY <1>1, <1>3, <2>4, <2>8, <2>9
<1>6. y <= x \/ y > x
  OBVIOUS
<1> QED  BY ONLY <1>4, <1>5, <1>6

-----------------------------------------------------------------------------
(* The read.                                                               *)

\* The lesser of two numbers is one.
LEMMA LeastNat == ASSUME NEW a \in Nat, NEW b \in Nat PROVE Least(a, b) \in Nat
BY DEF Least

\* What chunk c adds to a read of the bytes offset + 1 to end: those of its bytes
\* that are in the range, as far as the server had them when it was fetched.
LEMMA PieceOfChunk ==
    ASSUME NEW T, NEW file \in Seq(T), NEW size \in Nat, size = Len(file),
           NEW csize \in Nat, csize > 0, NEW offset \in Nat, NEW end \in Nat,
           offset < end, end <= size, NEW c \in Nat, NEW has, has[c] \in Nat, has[c] <= size,
           NEW start \in Nat, start = c * csize, start < end, offset < start + csize
    PROVE  Piece(FetchedObject(file, size, csize, c, has), offset, end, csize, c)
             = SubSeq(file, Greatest(offset, start) + 1, Least(Least(end, start + csize), has[c]))
<1>0. /\ size \in Nat /\ csize \in Nat /\ offset \in Nat /\ end \in Nat /\ start \in Nat
      /\ csize > 0 /\ offset < end /\ end <= size /\ start < end /\ offset < start + csize
  OBVIOUS
<1>1. PICK h \in Nat : h = has[c]
  OBVIOUS
<1>2. PICK l \in Nat : l = Least(size - start, csize)
  <2>1. size - start \in Nat /\ csize \in Nat
    BY ONLY <1>0
  <2> QED  BY ONLY <2>1, LeastNat
<1>3. /\ l \in Nat /\ l > 0 /\ start + l <= size
      /\ l <= csize /\ (l = csize \/ start + l = size)
  BY ONLY <1>0, <1>2 DEF Least
<1>4. PICK m \in Nat : m = Least(start + l, h)
  BY <1>3 DEF Least
<1>5. /\ m \in Nat /\ h \in Nat /\ m <= start + l /\ m <= h /\ (m = start + l \/ m = h)
  BY ONLY <1>0, <1>1, <1>3, <1>4 DEF Least
<1>6. m <= size
  BY ONLY <1>0, <1>3, <1>5
<1>7. PICK object \in Seq(T) : object = SubSeq(file, start + 1, m)
  BY <1>6, Sub
<1>8. object = FetchedObject(file, size, csize, c, has)
  BY <1>1, <1>2, <1>4, <1>7 DEF FetchedObject
<1>9. PICK k \in Nat : k = Len(object)
  OBVIOUS
<1>10. k \in Nat /\ k = IF start <= m THEN m - start ELSE 0
  BY <1>6, <1>7, <1>9, Sub
<1>11. PICK b \in Nat : b = Greatest(offset, start)
  BY ONLY <1>0 DEF Greatest
<1>12. PICK e \in Nat : e = Least(end, start + csize)
  BY ONLY <1>0 DEF Least
<1>13. /\ b \in Nat /\ e \in Nat /\ start <= b /\ b < e /\ e <= end /\ e <= start + csize
  BY ONLY <1>0, <1>11, <1>12 DEF Greatest, Least
<1>14. e <= start + l
  BY ONLY <1>0, <1>3, <1>13
<1>15. PICK u \in Nat : u = b - start
  BY ONLY <1>0, <1>13
<1>16. PICK v \in Nat : v = Least(e - start, k)
  <2>1. e - start \in Nat /\ k \in Nat
    BY ONLY <1>0, <1>10, <1>13
  <2> QED  BY ONLY <2>1, LeastNat
<1>17. v \in Nat /\ v <= k /\ start + v <= e /\ (v = k \/ start + v = e)
  BY ONLY <1>0, <1>10, <1>13, <1>16 DEF Least
<1>18. Piece(object, offset, end, csize, c) = SubSeq(object, u + 1, v)
  <2>1. u + ((e - start) - u) = e - start
    BY ONLY <1>0, <1>13, <1>15
  <2>2. ReadObject(object, u, (e - start) - u) = SubSeq(object, u + 1, v)
    BY ONLY <2>1, <1>9, <1>16 DEF ReadObject
  <2> QED  BY <2>2, <1>11, <1>12, <1>15 DEF Piece
<1>19. SubSeq(object, u + 1, v) = SubSeq(file, (start + u) + 1, start + v)
  <2>1. v <= Len(SubSeq(file, start + 1, m))
    BY <1>7, <1>9, <1>17
  <2> QED  BY <1>6, <1>7, <2>1, SubOfSub
<1>20. start + u = b
  BY ONLY <1>0, <1>13, <1>15
<1>21. PICK y \in Nat : y = Least(e, h)
  BY <1>5, <1>13 DEF Least
<1>22. y \in Nat /\ y <= e /\ y <= h /\ (y = e \/ y = h)
  BY ONLY <1>5, <1>13, <1>21 DEF Least
<1>23. SubSeq(file, b + 1, start + v) = SubSeq(file, b + 1, y)
  <2>1. CASE h > start
    <3>1. start + v = y
      BY ONLY <1>0, <1>3, <1>5, <1>10, <1>13, <1>14, <1>17, <1>22, <2>1
    <3> QED  BY ONLY <3>1
  <2>2. CASE h <= start
    <3>1. start + v <= b /\ start + v \in Nat /\ y <= b
      BY ONLY <1>0, <1>5, <1>10, <1>13, <1>17, <1>22, <2>2
    <3>2. \A z \in Nat : z <= b => SubSeq(file, b + 1, z) = <<>>
      OBVIOUS
    <3> QED  BY <3>1, <3>2
  <2> QED  BY <2>1, <2>2
<1> QED  BY ONLY <1>1, <1>8, <1>11, <1>12, <1>18, <1>19, <1>20, <1>21, <1>23

\* Quotients, and products that grow.
LEMMA Quotient ==
    ASSUME NEW a \in Nat, NEW c \in Nat, c > 0
    PROVE  a \div c \in Nat /\ (a \div c) * c <= a /\ a < (a \div c) * c + c
OBVIOUS

LEMMA Product ==
    ASSUME NEW a \in Nat, NEW b \in Nat, NEW c \in Nat
    PROVE  /\ a * c \in Nat /\ (a + 1) * c = a * c + c
           /\ a <= b => a * c <= b * c
           /\ a < b => a * c + c <= b * c
OBVIOUS

\* Where a read is when the chunks before chunk number d have been joined: at the
\* beginning of that chunk, or at the beginning or the end of the range.
Boundary(offset, end, csize, d) == Greatest(offset, Least(end, d * csize))

\* The boundaries of a chunk in the range.
LEMMA Boundaries ==
    ASSUME NEW offset \in Nat, NEW end \in Nat, NEW csize \in Nat, NEW d \in Nat, NEW start \in Nat,
           start = d * csize, start < end, offset < end, offset < start + csize
    PROVE  /\ Boundary(offset, end, csize, d) = Greatest(offset, start)
           /\ Boundary(offset, end, csize, d + 1) = Least(end, start + csize)
<1>1. (d + 1) * csize = start + csize
  BY Product
<1>2. Greatest(offset, Least(end, start)) = Greatest(offset, start)
  BY ONLY offset \in Nat, end \in Nat, start \in Nat, start < end, offset < end DEF Greatest, Least
<1>3. Greatest(offset, Least(end, start + csize)) = Least(end, start + csize)
  BY ONLY offset \in Nat, end \in Nat, start \in Nat, csize \in Nat, offset < end,
          offset < start + csize DEF Greatest, Least
<1> QED  BY <1>1, <1>2, <1>3 DEF Boundary

\* The bytes from start + 1 to start + csize lie in chunk c.
LEMMA ChunkOf ==
    ASSUME NEW csize \in Nat, csize > 0, NEW c \in Nat, NEW start \in Nat, start = c * csize,
           NEW p \in Nat, start < p, p <= start + csize
    PROVE  (p - 1) \div csize = c
<1>1. PICK a \in Nat : a = p - 1
  OBVIOUS
<1>2. PICK q \in Nat : q = a \div csize
  BY Quotient
<1>3. PICK qc \in Nat : qc = q * csize
  BY Product
<1>4. qc <= a /\ a < qc + csize
  BY <1>2, <1>3, Quotient
<1>5. /\ a \in Nat /\ qc \in Nat /\ start \in Nat /\ csize \in Nat /\ start <= a /\ a < start + csize
      /\ q \in Nat /\ c \in Nat
  BY <1>1
<1>6. ~(q < c)
  <2> SUFFICES ASSUME q < c PROVE FALSE
    OBVIOUS
  <2>1. qc + csize <= start
    BY <1>3, Product
  <2> QED  BY ONLY <1>4, <1>5, <2>1
<1>7. ~(c < q)
  <2> SUFFICES ASSUME c < q PROVE FALSE
    OBVIOUS
  <2>1. start + csize <= qc
    BY <1>3, Product
  <2> QED  BY ONLY <1>4, <1>5, <2>1
<1>8. q = c
  BY ONLY <1>5, <1>6, <1>7
<1> QED  BY ONLY <1>1, <1>2, <1>8

\* Byte p of the file is between offset and x, and its chunk has it.
Had(p, offset, x, csize, has) == offset < p /\ p <= x /\ p <= has[(p - 1) \div csize]

\* The sequence s is the bytes between offset and x that their chunks have, each
\* once and in their order; pos says where each of them comes from.
Selects(s, pos, file, offset, x, csize, has) ==
    /\ pos \in [1..Len(s) -> 1..Len(file)]
    /\ \A i \in 1..Len(s) : s[i] = file[pos[i]] /\ Had(pos[i], offset, x, csize, has)
    /\ \A i, j \in 1..Len(s) : i < j => pos[i] < pos[j]
    /\ \A p \in 1..Len(file) : Had(p, offset, x, csize, has) => \E i \in 1..Len(s) : pos[i] = p

\* The bytes from b + 1 to e lie in a chunk that has h bytes of the file.
InChunk(b, e, csize, has, h) == \A p \in Nat : b < p /\ p <= e => has[(p - 1) \div csize] = h

\* One step of the assembly: behind what was read up to b come the bytes up to e
\* that the next chunk has.
LEMMA AssemblyStep ==
    ASSUME NEW T, NEW file \in Seq(T), NEW csize, NEW has, NEW offset \in Nat,
           NEW b \in Nat, NEW e \in Nat, NEW h \in Nat, NEW y \in Nat,
           offset <= b, b <= e, e <= Len(file), y = Least(e, h), InChunk(b, e, csize, has, h),
           NEW s \in Seq(T), NEW pos, Selects(s, pos, file, offset, b, csize, has)
    PROVE  \E new : Selects(s \o Part(file, b, y), new, file, offset, e, csize, has)
<1>1. PICK size \in Nat : size = Len(file)
  OBVIOUS
<1>2. /\ offset \in Nat /\ b \in Nat /\ e \in Nat /\ h \in Nat /\ y \in Nat /\ size \in Nat
      /\ offset <= b /\ b <= e /\ e <= size
      /\ y <= e /\ y <= h /\ (y = e \/ y = h)
  <2>1. offset \in Nat /\ b \in Nat /\ e \in Nat /\ h \in Nat /\ y \in Nat /\ size \in Nat
    OBVIOUS
  <2>2. offset <= b /\ b <= e /\ e <= size
    BY <1>1
  <2>3. y <= e /\ y <= h /\ (y = e \/ y = h)
    <3>1. y = Least(e, h)
      OBVIOUS
    <3> QED  BY ONLY <2>1, <3>1 DEF Least
  <2> QED  BY ONLY <2>1, <2>2, <2>3
<1>3. PICK m \in Nat : m = Len(s)
  OBVIOUS
<1>4. PICK l \in Nat : l = IF b <= y THEN y - b ELSE 0
  BY <1>2
<1>5. l \in Nat /\ m \in Nat /\ b + l <= size /\ b + l <= e /\ (l > 0 => b + l = y) /\ (y > b => b + l = y)
  BY ONLY <1>2, <1>3, <1>4
<1>6. PICK piece \in Seq(T) : piece = SubSeq(file, b + 1, y)
  <2>1. y <= Len(file) /\ file \in Seq(T) /\ b \in Nat /\ y \in Nat
    BY <1>1, <1>2
  <2>2. SubSeq(file, b + 1, y) \in Seq(T)
    BY ONLY <2>1, Sub
  <2> QED  BY ONLY <2>2
<1>7. Len(piece) = l /\ \A i \in 1..l : piece[i] = file[b + i]
  <2>1. y <= Len(file) /\ file \in Seq(T) /\ b \in Nat /\ y \in Nat
    BY <1>1, <1>2
  <2>2. /\ Len(SubSeq(file, b + 1, y)) = IF b <= y THEN y - b ELSE 0
        /\ \A i \in 1..(y - b) : SubSeq(file, b + 1, y)[i] = file[b + i]
    BY ONLY <2>1, Sub
  <2>3. \A i \in 1..l : i \in 1..(y - b)
    BY ONLY <1>2, <1>4
  <2> QED  BY ONLY <1>4, <1>6, <2>2, <2>3
<1>8. PICK t : t = s \o piece
  OBVIOUS
<1>9. /\ t \in Seq(T) /\ Len(t) = m + l
      /\ \A i \in 1..m : t[i] = s[i]
      /\ \A i \in 1..l : t[m + i] = piece[i]
  <2>1. s \in Seq(T) /\ piece \in Seq(T)
    OBVIOUS
  <2>2. /\ t \in Seq(T) /\ Len(t) = Len(s) + Len(piece)
        /\ \A i \in 1..Len(s) : t[i] = s[i]
        /\ \A i \in 1..Len(piece) : t[Len(s) + i] = piece[i]
    BY ONLY <1>8, <2>1, Joined
  <2> QED  BY ONLY <1>3, <1>7, <2>2
<1>10. /\ pos \in [1..m -> 1..size]
       /\ \A i \in 1..m : s[i] = file[pos[i]] /\ Had(pos[i], offset, b, csize, has)
       /\ \A i, j \in 1..m : i < j => pos[i] < pos[j]
       /\ \A p \in 1..size : Had(p, offset, b, csize, has) => \E i \in 1..m : pos[i] = p
  BY <1>1, <1>3 DEF Selects
<1>11. PICK new : new = [i \in 1..(m + l) |-> IF i <= m THEN pos[i] ELSE b + (i - m)]
  OBVIOUS
\* A place of the new sequence is an old one or one of the piece.
<1>12. ASSUME NEW i \in 1..(m + l)
       PROVE  \/ /\ i \in 1..m /\ new[i] = pos[i] /\ t[i] = s[i]
              \/ /\ i > m /\ i - m \in 1..l /\ new[i] = b + (i - m) /\ t[i] = file[b + (i - m)]
  <2>0. i \in Int /\ 1 <= i /\ i <= m + l
    BY <1>5
  <2>1. CASE i <= m
    <3>1. i \in 1..m
      BY ONLY <2>0, <2>1
    <3> QED  BY <1>9, <1>11, <2>1, <3>1
  <2>2. CASE i > m
    <3>1. i - m \in 1..l /\ m + (i - m) = i /\ ~(i <= m)
      BY ONLY <1>5, <2>0, <2>2
    <3>2. t[i] = piece[i - m]
      BY ONLY <1>9, <3>1
    <3>3. piece[i - m] = file[b + (i - m)]
      BY ONLY <1>7, <3>1
    <3>4. new[i] = b + (i - m)
      BY <1>11, <3>1
    <3> QED  BY ONLY <2>2, <3>1, <3>2, <3>3, <3>4
  <2> QED  BY ONLY <1>5, <2>0, <2>1, <2>2
<1>13. ASSUME NEW p \in Int, offset < p, p <= b, p <= has[(p - 1) \div csize] PROVE Had(p, offset, e, csize, has)
  <2>1. p <= e
    BY <1>2, <1>13
  <2> QED  BY <1>13, <2>1 DEF Had
<1>14. ASSUME NEW j \in 1..l PROVE b + j \in 1..size /\ Had(b + j, offset, e, csize, has)
  <2>1. PICK p : p = b + j
    OBVIOUS
  <2>2. p \in Nat /\ b < p /\ p <= e /\ p <= h /\ offset < p /\ p \in 1..size
    BY ONLY <1>2, <1>5, <2>1, j \in 1..l
  <2>3. has[(p - 1) \div csize] = h
    BY <2>2 DEF InChunk
  <2> QED  BY ONLY <2>1, <2>2, <2>3 DEF Had
<1>15. new \in [1..(m + l) -> 1..size]
  <2>1. ASSUME NEW i \in 1..(m + l) PROVE new[i] \in 1..size
    BY <1>10, <1>12, <1>14
  <2> QED  BY <1>11, <2>1
<1>16. ASSUME NEW i \in 1..(m + l) PROVE t[i] = file[new[i]] /\ Had(new[i], offset, e, csize, has)
  <2>1. CASE i \in 1..m /\ new[i] = pos[i] /\ t[i] = s[i]
    <3>1. s[i] = file[pos[i]] /\ Had(pos[i], offset, b, csize, has) /\ pos[i] \in Int
      BY <1>10, <2>1
    <3>2. Had(pos[i], offset, e, csize, has)
      BY <1>13, <3>1 DEF Had
    <3> QED  BY <2>1, <3>1, <3>2
  <2>2. CASE i > m /\ i - m \in 1..l /\ new[i] = b + (i - m) /\ t[i] = file[b + (i - m)]
    BY <1>14, <2>2
  <2> QED  BY <1>12, <2>1, <2>2
<1>17. ASSUME NEW i \in 1..(m + l), NEW j \in 1..(m + l), i < j PROVE new[i] < new[j]
  <2>1. CASE j <= m
    <3>1. i \in 1..m /\ j \in 1..m
      BY ONLY <1>5, <2>1, i \in 1..(m + l), j \in 1..(m + l), i < j
    <3>2. new[i] = pos[i] /\ new[j] = pos[j]
      BY <1>12, <3>1
    <3> QED  BY <1>10, <1>17, <3>1, <3>2
  <2>2. CASE j > m /\ i <= m
    <3>1. new[i] = pos[i] /\ i \in 1..m
      BY <1>12, <2>2
    <3>2. new[i] <= b /\ new[i] \in Int
      BY <1>10, <3>1 DEF Had
    <3>3. j - m \in 1..l /\ new[j] = b + (j - m)
      BY <1>12, <2>2
    <3> QED  BY ONLY <1>2, <1>5, <3>2, <3>3
  <2>3. CASE i > m
    <3>1. i \in Int /\ j \in Int /\ j > m
      BY <1>5, <1>17, <2>3
    <3>2. new[i] = b + (i - m) /\ new[j] = b + (j - m)
      BY <1>12, <2>3, <3>1
    <3> QED  BY ONLY <1>2, <1>5, <1>17, <3>1, <3>2
  <2>4. i \in Int /\ j \in Int
    OBVIOUS
  <2> QED  BY ONLY <1>5, <2>1, <2>2, <2>3, <2>4
<1>18. ASSUME NEW p \in 1..size, Had(p, offset, e, csize, has) PROVE \E i \in 1..(m + l) : new[i] = p
  <2>0. p \in Nat
    OBVIOUS
  <2>1. offset < p /\ p <= e /\ p <= has[(p - 1) \div csize]
    BY <1>18 DEF Had
  <2>2. CASE p <= b
    <3>1. Had(p, offset, b, csize, has)
      BY <2>1, <2>2 DEF Had
    <3>2. PICK i \in 1..m : pos[i] = p
      BY <1>10, <3>1
    <3>3. i \in 1..(m + l) /\ i <= m
      BY ONLY <1>5, <3>2
    <3> QED  BY <1>11, <3>2, <3>3
  <2>3. CASE p > b
    <3>1. has[(p - 1) \div csize] = h
      BY <2>0, <2>1, <2>3 DEF InChunk
    <3>2. p <= y
      BY ONLY <1>2, <2>0, <2>1, <3>1
    <3>3. PICK i : i = m + (p - b)
      OBVIOUS
    <3>4. i \in 1..(m + l) /\ ~(i <= m) /\ b + (i - m) = p
      BY ONLY <1>2, <1>5, <2>0, <2>3, <3>2, <3>3
    <3> QED  BY <1>11, <3>4
  <2> QED  BY ONLY <1>2, <2>0, <2>2, <2>3
<1>19. Selects(t, new, file, offset, e, csize, has)
  BY ONLY <1>1, <1>9, <1>15, <1>16, <1>17, <1>18 DEF Selects
<1>20. t = s \o Part(file, b, y)
  BY <1>6, <1>8 DEF Part
<1> QED  BY ONLY <1>19, <1>20

\* The chunks of a range: it begins in the first and ends in the last.
LEMMA ChunksOfRange ==
    ASSUME NEW csize \in Nat, csize > 0, NEW offset \in Nat, NEW end \in Nat, offset < end,
           NEW first, first = FirstChunk(offset, csize), NEW last, last = LastChunk(end, csize)
    PROVE  /\ first \in Nat /\ last \in Nat /\ first <= last
           /\ first * csize <= offset /\ end <= last * csize + csize
           /\ \A c \in first..last : c * csize < end /\ offset < c * csize + csize
<1>1. PICK e \in Nat : e = end - 1
  OBVIOUS
<1>2. e \in Nat /\ end = e + 1 /\ offset <= e
  BY <1>1
<1>3. first \in Nat /\ first * csize <= offset /\ offset < first * csize + csize
  BY Quotient DEF FirstChunk
<1>4. last \in Nat /\ last * csize <= e /\ e < last * csize + csize
  BY <1>1, Quotient DEF LastChunk
<1>5. PICK fc \in Nat : fc = first * csize
  BY <1>3, Product
<1>6. PICK lc \in Nat : lc = last * csize
  BY <1>4, Product
<1>7. fc \in Nat /\ lc \in Nat /\ fc <= offset /\ offset < fc + csize /\ lc <= e /\ e < lc + csize
  BY ONLY <1>3, <1>4, <1>5, <1>6
<1>8. first <= last
  <2> SUFFICES ASSUME last < first PROVE FALSE
    BY <1>3, <1>4
  <2>1. last * csize + csize <= first * csize
    BY <1>3, <1>4, Product
  <2>2. lc + csize <= fc
    BY ONLY <1>5, <1>6, <2>1
  <2>3. csize \in Nat /\ offset \in Nat
    OBVIOUS
  <2> QED  BY ONLY <1>2, <1>7, <2>2, <2>3
<1>9. ASSUME NEW c \in first..last PROVE c * csize < end /\ offset < c * csize + csize
  <2>1. c \in Nat /\ first <= c /\ c <= last
    BY <1>3, <1>4
  <2>2. first * csize <= c * csize /\ c * csize <= last * csize /\ c * csize \in Nat
    BY <1>3, <1>4, <2>1, Product
  <2>3. PICK cc \in Nat : cc = c * csize
    BY <2>2
  <2>4. fc <= cc /\ cc <= lc /\ cc \in Nat
    BY ONLY <1>5, <1>6, <2>2, <2>3
  <2>5. csize \in Nat /\ offset \in Nat
    OBVIOUS
  <2>6. cc < end /\ offset < cc + csize
    BY ONLY <1>2, <1>7, <2>4, <2>5
  <2> QED  BY ONLY <2>3, <2>6
<1>10. end <= lc + csize
  <2>1. csize \in Nat
    OBVIOUS
  <2> QED  BY ONLY <1>2, <1>7, <2>1
<1> QED  BY ONLY <1>3, <1>4, <1>6, <1>8, <1>9, <1>10

\* The pieces of n chunks from the first.
Pieces(file, size, csize, offset, end, first, n, has) ==
    [i \in 1..n |-> Piece(FetchedObject(file, size, csize, first + i - 1, has),
                          offset, end, csize, first + i - 1)]

\* No chunk of the range is short.
Whole(offset, end, csize, has) == \A p \in Nat : offset < p /\ p <= end => p <= has[(p - 1) \div csize]

\* What a read of the bytes offset + 1 to end returns: those that their chunks have,
\* once each and in their order, and the range itself if no chunk of it is short.
IsRead(bytes, file, offset, end, csize, has) ==
    /\ \E pos : Selects(bytes, pos, file, offset, end, csize, has)
    /\ Whole(offset, end, csize, has) => bytes = Part(file, offset, end)

\* The same of a read that has come to byte b of it.
ReadTo(bytes, file, offset, b, end, csize, has) ==
    /\ \E pos : Selects(bytes, pos, file, offset, b, csize, has)
    /\ Whole(offset, end, csize, has) => bytes = Part(file, offset, b)

\* Chunk c, from byte start, has bytes of the range; b and e are its boundaries.
LEMMA ChunkJoined ==
    ASSUME NEW T, NEW file \in Seq(T), NEW size \in Nat, size = Len(file),
           NEW csize \in Nat, csize > 0, NEW offset \in Nat, NEW end \in Nat,
           offset < end, end <= size, NEW c \in Nat, NEW has, has[c] \in Nat, has[c] <= size,
           NEW start \in Nat, start = c * csize, start < end, offset < start + csize,
           NEW s \in Seq(T), NEW b, b = Boundary(offset, end, csize, c),
           ReadTo(s, file, offset, b, end, csize, has), NEW e, e = Boundary(offset, end, csize, c + 1),
           NEW t, t = s \o Piece(FetchedObject(file, size, csize, c, has), offset, end, csize, c)
    PROVE  ReadTo(t, file, offset, e, end, csize, has)
<1>9. PICK pos : Selects(s, pos, file, offset, b, csize, has)
  BY DEF ReadTo
<1>0. /\ size \in Nat /\ csize \in Nat /\ offset \in Nat /\ end \in Nat /\ start \in Nat
      /\ csize > 0 /\ offset < end /\ end <= size /\ start < end /\ offset < start + csize
  OBVIOUS
<1>1. b = Greatest(offset, start) /\ e = Least(end, start + csize)
  BY Boundaries
<1>2. /\ b \in Nat /\ e \in Nat /\ b < e /\ e <= size /\ e <= end /\ offset <= b /\ start <= b
      /\ e <= start + csize
  BY ONLY <1>0, <1>1 DEF Greatest, Least
<1>3. PICK h \in Nat : h = has[c] /\ h <= size
  OBVIOUS
<1>4. PICK y \in Nat : y = Least(e, h)
  BY <1>2, LeastNat
<1>5. t = s \o Part(file, b, y)
  <2>1. Piece(FetchedObject(file, size, csize, c, has), offset, end, csize, c)
          = SubSeq(file, Greatest(offset, start) + 1, Least(Least(end, start + csize), has[c]))
    BY <1>0, PieceOfChunk
  <2>2. t = s \o Piece(FetchedObject(file, size, csize, c, has), offset, end, csize, c)
    OBVIOUS
  <2> QED  BY ONLY <1>1, <1>3, <1>4, <2>1, <2>2 DEF Part
<1>6. InChunk(b, e, csize, has, h)
  <2>1. ASSUME NEW p \in Nat, b < p, p <= e PROVE (p - 1) \div csize = c
    <3>1. start < p /\ p <= start + csize
      BY ONLY <1>0, <1>2, <2>1
    <3> QED  BY <1>0, <3>1, ChunkOf
  <2> QED  BY <1>3, <2>1 DEF InChunk
<1>7. \E new : Selects(t, new, file, offset, e, csize, has)
  <2>1. e <= Len(file) /\ b <= e
    BY <1>2
  <2>2. Selects(s, pos, file, offset, b, csize, has) /\ file \in Seq(T) /\ s \in Seq(T)
    BY <1>9
  <2>3. \E new : Selects(s \o Part(file, b, y), new, file, offset, e, csize, has)
    BY ONLY <1>0, <1>2, <1>3, <1>4, <1>6, <2>1, <2>2, AssemblyStep
  <2> QED  BY ONLY <1>5, <2>3
<1>8. ASSUME Whole(offset, end, csize, has) PROVE t = Part(file, offset, e)
  <2>1. s = Part(file, offset, b)
    BY <1>8 DEF ReadTo
  <2>2. e <= h
    <3>1. offset < e /\ b < e /\ e <= e
      BY ONLY <1>0, <1>2
    <3>2. e <= has[(e - 1) \div csize]
      BY <1>2, <1>8, <3>1 DEF Whole
    <3>3. has[(e - 1) \div csize] = h
      BY <1>2, <1>6, <3>1 DEF InChunk
    <3> QED  BY ONLY <3>2, <3>3
  <2>3. y = e /\ Greatest(b, y) = e
    BY ONLY <1>2, <1>3, <1>4, <2>2 DEF Least, Greatest
  <2>4. Part(file, offset, b) \o Part(file, b, y) = Part(file, offset, Greatest(b, y))
    <3>1. PICK x \in Nat : x = b
      BY <1>2
    <3>2. /\ offset <= x /\ x <= Len(file) /\ y <= Len(file)
          /\ file \in Seq(T) /\ offset \in Nat /\ x \in Nat /\ y \in Nat
      BY <1>2, <2>3, <3>1
    <3>3. Part(file, offset, x) \o Part(file, x, y) = Part(file, offset, Greatest(x, y))
      BY ONLY <3>2, SubJoined
    <3> QED  BY ONLY <3>1, <3>3
  <2> QED  BY ONLY <1>5, <2>1, <2>3, <2>4
<1> QED  BY ONLY <1>7, <1>8 DEF ReadTo

\* The pieces of a read, joined.
LEMMA Assembled ==
    ASSUME NEW T, NEW file \in Seq(T), NEW size \in Nat, size = Len(file),
           NEW csize \in Nat, csize > 0, NEW offset \in Nat, NEW end \in Nat,
           offset < end, end <= size, NEW has,
           NEW first, first = FirstChunk(offset, csize), NEW last, last = LastChunk(end, csize),
           \A c \in first..last : has[c] \in Nat /\ has[c] <= size, NEW n, n = last - first + 1,
           NEW pieces, pieces = Pieces(file, size, csize, offset, end, first, n, has)
    PROVE  FlattenSeq(pieces) \in Seq(T) /\ IsRead(FlattenSeq(pieces), file, offset, end, csize, has)
<1>1. /\ first \in Nat /\ last \in Nat /\ first <= last
      /\ first * csize <= offset /\ end <= last * csize + csize
      /\ \A c \in first..last : c * csize < end /\ offset < c * csize + csize
  BY ChunksOfRange
<1>14. pieces = [i \in 1..n |-> Piece(FetchedObject(file, size, csize, first + i - 1, has),
                                      offset, end, csize, first + i - 1)]
  BY DEF Pieces
<1>15. \A c \in first..last : has[c] \in Nat /\ has[c] <= size
  OBVIOUS
<1>0. first \in Nat /\ last \in Nat /\ first <= last /\ n = last - first + 1
  BY <1>1
<1>2. n \in Nat /\ n > 0 /\ first + n = last + 1
  BY ONLY <1>0
<1>3. pieces \in [1..n -> Seq(T)]
  <2> SUFFICES ASSUME NEW i \in 1..n PROVE pieces[i] \in Seq(T)
    BY <1>14
  <2>0. i \in 1..n
    OBVIOUS
  <2>1. PICK c \in first..last : c = first + i - 1
    <3>1. first + i - 1 \in first..last
      BY ONLY <1>0, <2>0
    <3> QED  BY <3>1
  <2>11. c \in first..last /\ c \in Nat
    BY ONLY <1>0, <2>0, <2>1
  <2>2. PICK start \in Nat : start = c * csize
    BY <2>11, Product
  <2>3. c \in Nat /\ start < end /\ offset < start + csize
    <3>1. c * csize < end /\ offset < c * csize + csize
      BY ONLY <1>1, <2>11
    <3> QED  BY ONLY <2>2, <2>11, <3>1
  <2>4. PICK h \in Nat : h = has[c] /\ h <= size
    BY <1>15, <2>11
  <2>5. Piece(FetchedObject(file, size, csize, c, has), offset, end, csize, c)
           = SubSeq(file, Greatest(offset, start) + 1, Least(Least(end, start + csize), has[c]))
    BY <2>2, <2>3, <2>4, PieceOfChunk
  <2>6. PICK y : y = Least(Least(end, start + csize), has[c])
    OBVIOUS
  <2>7. y \in Nat /\ y <= size
    <3>1. size \in Nat /\ end \in Nat /\ csize \in Nat /\ start \in Nat /\ h \in Nat /\ h <= size
      BY <2>4
    <3>2. y = Least(Least(end, start + csize), h)
      BY <2>4, <2>6
    <3> QED  BY ONLY <3>1, <3>2 DEF Least
  <2>8. PICK b \in Nat : b = Greatest(offset, start)
    BY DEF Greatest
  <2>9. SubSeq(file, b + 1, y) \in Seq(T)
    BY <2>7, Sub
  <2>10. pieces[i] = SubSeq(file, b + 1, y)
    BY <1>14, <2>1, <2>5, <2>6, <2>8
  <2> QED  BY ONLY <2>9, <2>10
<1>4. PICK f : JoinsOf(f, pieces, n, T) /\ FlattenSeq(pieces) = f[n]
  BY ONLY <1>2, <1>3, Flattened
<1>12. /\ f \in [0..n -> Seq(T)] /\ f[0] = <<>>
       /\ \A i \in 1..n : f[i] = f[i - 1] \o pieces[i]
  BY <1>4 DEF JoinsOf
<1> DEFINE At(k) == Boundary(offset, end, csize, first + k)
           R == {k \in Nat : k <= n => ReadTo(f[k], file, offset, At(k), end, csize, has)}
<1>13. Boundary(offset, end, csize, first) = offset
  <2>1. PICK fc \in Nat : fc = first * csize
    BY <1>1, Product
  <2>2. fc <= offset /\ offset < end /\ offset \in Nat /\ end \in Nat /\ fc \in Nat
    BY <1>1, <2>1
  <2>3. Greatest(offset, Least(end, fc)) = offset
    BY ONLY <2>2 DEF Greatest, Least
  <2> QED  BY ONLY <2>1, <2>3 DEF Boundary
<1>5. 0 \in R
  <2>1. At(0) = offset
    <3>1. first + 0 = first
      BY ONLY <1>0
    <3> QED  BY ONLY <1>13, <3>1
  <2>2. Part(file, offset, offset) = <<>>
    BY DEF Part
  <2>3. Selects(<<>>, <<>>, file, offset, offset, csize, has)
    <3>1. Len(<<>>) = 0 /\ 1..0 = {}
      OBVIOUS
    <3>2. \A p \in 1..Len(file) : ~Had(p, offset, offset, csize, has)
      BY DEF Had
    <3>3. <<>> \in [1..0 -> 1..Len(file)]
      OBVIOUS
    <3> QED  BY <3>1, <3>2, <3>3 DEF Selects
  <2>4. ReadTo(f[0], file, offset, At(0), end, csize, has)
    BY ONLY <1>12, <2>1, <2>2, <2>3 DEF ReadTo
  <2> QED  BY ONLY <2>4, 0 \in Nat
<1>6. ASSUME NEW k \in Nat, k \in R PROVE k + 1 \in R
  <2> SUFFICES ASSUME k + 1 <= n
               PROVE  ReadTo(f[k + 1], file, offset, At(k + 1), end, csize, has)
    OBVIOUS
  <2>0. k \in Nat /\ k + 1 <= n
    OBVIOUS
  <2>1. PICK c : c = first + k
    OBVIOUS
  <2>2. c \in first..last /\ c \in Nat
    BY ONLY <1>0, <2>0, <2>1
  <2>3. PICK b : b = Boundary(offset, end, csize, c)
    OBVIOUS
  <2>4. PICK e : e = Boundary(offset, end, csize, c + 1)
    OBVIOUS
  <2>5. At(k) = b /\ At(k + 1) = e
    <3>1. first + (k + 1) = c + 1
      BY ONLY <1>0, <2>0, <2>1
    <3> QED  BY ONLY <2>1, <2>3, <2>4, <3>1
  <2> HIDE DEF At
  <2>6. PICK s : s = f[k]
    OBVIOUS
  <2>7. ReadTo(s, file, offset, b, end, csize, has)
    <3>1. k <= n
      BY ONLY <1>2, <2>0
    <3> QED  BY ONLY <1>6, <2>5, <2>6, <3>1
  <2>9. PICK start \in Nat : start = c * csize
    <3>1. c \in Nat /\ csize \in Nat
      BY <2>2
    <3>2. c * csize \in Nat
      BY ONLY <3>1, Product
    <3> QED  BY <3>2
  <2>10. start < end /\ offset < start + csize /\ has[c] \in Nat /\ has[c] <= size
    <3>1. c * csize < end /\ offset < c * csize + csize
      BY ONLY <1>1, <2>2
    <3>2. has[c] \in Nat /\ has[c] <= size
      BY <1>15, <2>2
    <3> QED  BY ONLY <2>9, <3>1, <3>2
  <2>11. PICK i \in 1..n : i = k + 1
    BY <1>2
  <2>12. s \in Seq(T)
    <3>1. k \in 0..n
      BY ONLY <1>2, <2>0
    <3> QED  BY ONLY <1>12, <2>6, <3>1
  <2>13. PICK t : t = f[k + 1]
    OBVIOUS
  <2>14. t = s \o Piece(FetchedObject(file, size, csize, c, has), offset, end, csize, c)
    <3>1. first + i - 1 = c /\ i - 1 = k
      BY ONLY <1>0, <2>0, <2>1, <2>11
    <3>2. pieces[i] = Piece(FetchedObject(file, size, csize, c, has), offset, end, csize, c)
      BY <1>14, <3>1
    <3>3. f[i] = f[i - 1] \o pieces[i]
      BY <1>12
    <3> QED  BY ONLY <2>6, <2>11, <2>13, <3>1, <3>2, <3>3
  <2>15. /\ file \in Seq(T) /\ size \in Nat /\ size = Len(file) /\ csize \in Nat /\ csize > 0
         /\ offset \in Nat /\ end \in Nat /\ offset < end /\ end <= size /\ start \in Nat
    OBVIOUS
  <2>16. ReadTo(t, file, offset, e, end, csize, has)
    BY ONLY <2>2, <2>3, <2>4, <2>7, <2>9, <2>10, <2>12, <2>14, <2>15, ChunkJoined
  <2> QED  BY ONLY <2>5, <2>13, <2>16
<1>7. n \in R
  <2> HIDE DEF R
  <2> QED  BY <1>2, <1>5, <1>6, Induct
<1>10. Boundary(offset, end, csize, first + n) = end
  <2>1. PICK lc \in Nat : lc = last * csize
    BY <1>1, Product
  <2>2. (last + 1) * csize = lc + csize
    BY <1>1, <2>1, Product
  <2>3. end <= lc + csize /\ offset < end /\ offset \in Nat /\ end \in Nat /\ lc \in Nat /\ csize \in Nat
    BY <1>1, <2>1
  <2>4. Greatest(offset, Least(end, lc + csize)) = end
    BY ONLY <2>3 DEF Greatest, Least
  <2> QED  BY ONLY <1>2, <2>2, <2>4 DEF Boundary
<1>16. ReadTo(f[n], file, offset, Boundary(offset, end, csize, first + n), end, csize, has)
  BY ONLY <1>2, <1>7
<1>17. f[n] \in Seq(T)
  BY ONLY <1>2, <1>12
<1> QED  BY ONLY <1>4, <1>10, <1>16, <1>17 DEF IsRead, ReadTo

\* One quotient is no more than another.
LEMMA QuotientGrows ==
    ASSUME NEW csize \in Nat, csize > 0, NEW a \in Nat, NEW b \in Nat, a <= b
    PROVE  a \div csize <= b \div csize
<1>1. PICK p \in Nat : p = a \div csize
  BY Quotient
<1>2. PICK q \in Nat : q = b \div csize
  BY Quotient
<1>3. PICK pc \in Nat : pc = p * csize
  BY Product
<1>4. PICK qc \in Nat : qc = q * csize
  BY Product
<1>5. pc <= a /\ b < qc + csize
  BY <1>1, <1>2, <1>3, <1>4, Quotient
<1>6. ASSUME q < p PROVE FALSE
  <2>1. qc + csize <= pc
    BY <1>3, <1>4, <1>6, Product
  <2>2. a \in Nat /\ b \in Nat /\ csize \in Nat /\ pc \in Nat /\ qc \in Nat /\ a <= b
    OBVIOUS
  <2> QED  BY ONLY <1>5, <2>1, <2>2
<1>7. p \in Nat /\ q \in Nat
  OBVIOUS
<1>8. p <= q
  BY ONLY <1>6, <1>7
<1> QED  BY ONLY <1>1, <1>2, <1>8

\* Store::read puts a range together from chunks of any size, for any file and any
\* range, and however much of the file each chunk has: it returns the bytes of the
\* range that their chunks have, once each and in their order, and the range itself
\* if no chunk of it is short.
THEOREM ReadsTheRange ==
    ASSUME NEW T, NEW file \in Seq(T), NEW size \in Nat, size = Len(file),
           NEW csize \in Nat, csize > 0, NEW offset \in Nat, NEW len \in Nat,
           NEW has \in [0..(size \div csize) -> 0..size]
    PROVE  /\ ReadRange(file, size, csize, offset, len, has) \in Seq(T)
           /\ IsRead(ReadRange(file, size, csize, offset, len, has), file, offset,
                     Least(offset + len, size), csize, has)
<1>0. /\ size \in Nat /\ csize \in Nat /\ csize > 0 /\ offset \in Nat /\ len \in Nat
  OBVIOUS
<1>1. PICK bytes : bytes = ReadRange(file, size, csize, offset, len, has)
  OBVIOUS
<1>2. PICK end \in Nat : end = Least(offset + len, size)
  BY ONLY <1>0 DEF Least
<1>3. end \in Nat /\ end <= size /\ end <= offset + len /\ (end = size \/ end = offset + len)
  BY ONLY <1>0, <1>2 DEF Least
<1>4. CASE len = 0 \/ offset >= size
  <2>1. bytes = <<>>
    BY <1>1, <1>4 DEF ReadRange
  <2>2. end <= offset
    BY ONLY <1>0, <1>3, <1>4
  <2>3. Part(file, offset, end) = <<>>
    BY <2>2 DEF Part
  <2>4. Selects(<<>>, <<>>, file, offset, end, csize, has)
    <3>1. Len(<<>>) = 0 /\ 1..0 = {} /\ <<>> \in [1..0 -> 1..Len(file)]
      OBVIOUS
    <3>2. \A p \in Nat : ~(offset < p /\ p <= end)
      BY ONLY <1>0, <1>3, <2>2
    <3>3. \A p \in 1..Len(file) : p \in Nat
      OBVIOUS
    <3>4. \A p \in 1..Len(file) : ~Had(p, offset, end, csize, has)
      BY ONLY <3>2, <3>3 DEF Had
    <3> QED  BY <3>1, <3>4 DEF Selects
  <2>5. <<>> \in Seq(T)
    OBVIOUS
  <2> QED  BY ONLY <1>1, <1>2, <2>1, <2>3, <2>4, <2>5 DEF IsRead
<1>5. CASE ~(len = 0 \/ offset >= size)
  <2>1. offset < end /\ 0 < size
    BY ONLY <1>0, <1>3, <1>5
  <2>2. PICK first : first = FirstChunk(offset, csize)
    OBVIOUS
  <2>3. PICK last : last = LastChunk(end, csize)
    OBVIOUS
  <2>4. first \in Nat /\ last \in Nat /\ first <= last
    BY ONLY <1>0, <1>3, <2>1, <2>2, <2>3, ChunksOfRange
  <2>5. PICK m \in Nat : m = size \div csize
    BY Quotient
  <2>6. last <= m
    <3>1. (end - 1) \in Nat /\ end - 1 <= size
      BY ONLY <1>0, <1>3, <2>1
    <3>2. (end - 1) \div csize <= size \div csize
      BY ONLY <1>0, <3>1, QuotientGrows
    <3> QED  BY ONLY <2>3, <2>5, <3>2 DEF LastChunk
  <2>7. \A c \in first..last : c \in 0..m
    <3>1. m \in Nat
      OBVIOUS
    <3> QED  BY ONLY <2>4, <2>6, <3>1
  <2>8. \A c \in 0..m : has[c] \in Nat /\ has[c] <= size
    BY <2>5
  <2>9. \A c \in first..last : has[c] \in Nat /\ has[c] <= size
    BY ONLY <2>7, <2>8
  <2>10. PICK n : n = last - first + 1
    OBVIOUS
  <2>11. PICK pieces : pieces = Pieces(file, size, csize, offset, end, first, n, has)
    OBVIOUS
  <2>12. bytes = FlattenSeq(pieces)
    BY <1>1, <1>2, <1>5, <2>2, <2>3, <2>10, <2>11 DEF ReadRange, Pieces
  <2>13. file \in Seq(T) /\ size = Len(file)
    OBVIOUS
  <2>14. FlattenSeq(pieces) \in Seq(T) /\ IsRead(FlattenSeq(pieces), file, offset, end, csize, has)
    BY ONLY <1>0, <1>3, <2>1, <2>2, <2>3, <2>9, <2>10, <2>11, <2>13, Assembled
  <2> QED  BY ONLY <1>1, <1>2, <2>12, <2>14
<1> QED  BY ONLY <1>4, <1>5
=============================================================================
