----------------------------- MODULE VfsProofs ------------------------------
(***************************************************************************)
(* Proofs about CacheVfs: its node table, and what a mount that is the     *)
(* server's only client serves from the cache.                             *)
(***************************************************************************)
EXTENDS CacheVfs, FiniteSetTheorems, TLAPS

-----------------------------------------------------------------------------
(* Maps.                                                                   *)

LEMMA PutMap ==
    ASSUME NEW f, NEW k, NEW v
    PROVE  /\ DOMAIN Put(f, k, v) = DOMAIN f \cup {k}
           /\ Put(f, k, v)[k] = v
           /\ \A x \in DOMAIN f : x # k => Put(f, k, v)[x] = f[x]
BY DEF Put

LEMMA DropMap ==
    ASSUME NEW f, NEW S
    PROVE  /\ DOMAIN Drop(f, S) = DOMAIN f \ S
           /\ \A x \in DOMAIN f \ S : Drop(f, S)[x] = f[x]
BY DEF Drop

-----------------------------------------------------------------------------
(* Interning.                                                              *)

\* The numbering Intern chooses exists: as many ids as paths that need one.
LEMMA Numbering ==
    ASSUME NEW S, IsFiniteSet(S), NEW n \in Nat
    PROVE  \E f \in [S -> n..(n + Cardinality(S) - 1)] :
              \A p, q \in S : f[p] = f[q] => p = q
<1> DEFINE last == n + Cardinality(S) - 1
           T == n..last
<1>1. Cardinality(S) \in Nat
  BY FS_CardinalityType
<1>2. IsFiniteSet(T) /\ Cardinality(T) = Cardinality(S)
  <2>1. n \in Int /\ last \in Int
    BY <1>1
  <2>2. (IF n > last THEN 0 ELSE last - n + 1) = Cardinality(S)
    BY <1>1
  <2> HIDE DEF last
  <2>3. IsFiniteSet(n..last) /\ Cardinality(n..last) = IF n > last THEN 0 ELSE last - n + 1
    BY <2>1, FS_Interval
  <2> QED BY <2>2, <2>3
<1>3. ExistsBijection(S, T)
  BY <1>2, FS_SameCardinalityBij
<1> QED BY <1>3 DEF ExistsBijection, Bijection, Injection, IsInjective

\* What interning a finite set of paths does to the node table: known paths keep
\* their nodes, the others get new ones that lead back to them.
LEMMA InternFacts ==
    ASSUME NEW S, IsFiniteSet(S), nextNode \in Nat, Intern(S)
    PROVE  LET new == S \ DOMAIN pathToNode
           IN  /\ DOMAIN pathToNode' = DOMAIN pathToNode \cup S
               /\ \A p \in DOMAIN pathToNode : pathToNode'[p] = pathToNode[p]
               /\ \A p \in new : /\ pathToNode'[p] \in Nat
                                 /\ pathToNode'[p] >= nextNode
                                 /\ pathToNode'[p] < nextNode'
                                 /\ pathToNode'[p] \in DOMAIN nodeToPath'
                                 /\ nodeToPath'[pathToNode'[p]] = p
               /\ DOMAIN nodeToPath \subseteq DOMAIN nodeToPath'
               /\ \A n \in DOMAIN nodeToPath' :
                     \/ \E p \in new : pathToNode'[p] = n
                     \/ n \in DOMAIN nodeToPath /\ nodeToPath'[n] = nodeToPath[n]
               /\ nextNode' \in Nat /\ nextNode <= nextNode' /\ nextNode' <= MaxNode + 1
<1> DEFINE new == S \ DOMAIN pathToNode
           ids == nextNode..(nextNode + Cardinality(new) - 1)
           num == CHOOSE f \in [new -> ids] : \A p, q \in new : f[p] = f[q] => p = q
<1>1. IsFiniteSet(new) /\ Cardinality(new) \in Nat
  BY FS_Subset, FS_CardinalityType
<1>2. num \in [new -> ids] /\ \A p, q \in new : num[p] = num[q] => p = q
  BY <1>1, Numbering
<1>3. /\ nextNode + Cardinality(new) <= MaxNode + 1
      /\ pathToNode' = [p \in DOMAIN pathToNode \cup new |->
                           IF p \in new THEN num[p] ELSE pathToNode[p]]
      /\ nodeToPath' = [n \in DOMAIN nodeToPath \cup {num[p] : p \in new} |->
                           IF \E p \in new : num[p] = n THEN CHOOSE p \in new : num[p] = n
                                                        ELSE nodeToPath[n]]
      /\ nextNode' = nextNode + Cardinality(new)
  BY DEF Intern
<1> HIDE DEF num
<1>4. \A p \in new : num[p] \in Nat /\ num[p] >= nextNode /\ num[p] < nextNode'
  BY <1>1, <1>2, <1>3
<1>5. \A p \in new : (CHOOSE q \in new : num[q] = num[p]) = p
  BY <1>2
<1>6. /\ DOMAIN pathToNode' = DOMAIN pathToNode \cup S
      /\ \A p \in new : pathToNode'[p] = num[p]
      /\ \A p \in DOMAIN pathToNode : pathToNode'[p] = pathToNode[p]
  BY <1>3
<1>7. /\ DOMAIN nodeToPath' = DOMAIN nodeToPath \cup {num[p] : p \in new}
      /\ \A p \in new : nodeToPath'[num[p]] = p
      /\ \A n \in DOMAIN nodeToPath : (\A p \in new : num[p] # n) => nodeToPath'[n] = nodeToPath[n]
  BY <1>3, <1>5
<1>8. nextNode' \in Nat /\ nextNode <= nextNode' /\ nextNode' <= MaxNode + 1
  BY <1>1, <1>3
<1> HIDE DEF new, ids
<1>9. \A p \in new : /\ pathToNode'[p] \in Nat /\ pathToNode'[p] >= nextNode
                     /\ pathToNode'[p] < nextNode'
                     /\ pathToNode'[p] \in DOMAIN nodeToPath'
                     /\ nodeToPath'[pathToNode'[p]] = p
  BY <1>4, <1>6, <1>7
<1>10. \A n \in DOMAIN nodeToPath' :
          \/ \E p \in new : pathToNode'[p] = n
          \/ n \in DOMAIN nodeToPath /\ nodeToPath'[n] = nodeToPath[n]
  BY <1>6, <1>7
<1> QED BY <1>6, <1>7, <1>8, <1>9, <1>10 DEF new

-----------------------------------------------------------------------------
(* Paths as sequences of names.                                            *)

Prefix(q, k) == SubSeq(q, 1, k)

LEMMA PrefixFacts ==
    ASSUME NEW N, NEW q \in Seq(N), NEW k \in 0..Len(q)
    PROVE  /\ Prefix(q, k) \in Seq(N)
           /\ Len(Prefix(q, k)) = k
           /\ \A i \in 1..k : Prefix(q, k)[i] = q[i]
           /\ Prefix(q, Len(q)) = q
BY DEF Prefix

LEMMA SeqEqual ==
    ASSUME NEW N, NEW a \in Seq(N), NEW b \in Seq(N), Len(a) = Len(b),
           \A i \in 1..Len(a) : a[i] = b[i]
    PROVE  a = b
OBVIOUS

LEMMA PrefixPrefix ==
    ASSUME NEW N, NEW q \in Seq(N), NEW k \in 0..Len(q), NEW j \in 0..k
    PROVE  Prefix(Prefix(q, k), j) = Prefix(q, j)
<1>1. /\ Prefix(q, k) \in Seq(N) /\ Len(Prefix(q, k)) = k
      /\ \A i \in 1..k : Prefix(q, k)[i] = q[i]
  BY PrefixFacts
<1>2. /\ Prefix(Prefix(q, k), j) \in Seq(N) /\ Len(Prefix(Prefix(q, k), j)) = j
      /\ \A i \in 1..j : Prefix(Prefix(q, k), j)[i] = Prefix(q, k)[i]
  BY <1>1, PrefixFacts
<1>3. /\ Prefix(q, j) \in Seq(N) /\ Len(Prefix(q, j)) = j
      /\ \A i \in 1..j : Prefix(q, j)[i] = q[i]
  BY PrefixFacts
<1> QED BY <1>1, <1>2, <1>3, SeqEqual

LEMMA AppendFacts ==
    ASSUME NEW N, NEW d \in Seq(N), NEW n \in N
    PROVE  /\ Append(d, n) \in Seq(N)
           /\ Len(Append(d, n)) = Len(d) + 1
           /\ Append(d, n) # <<>>
           /\ Append(d, n)[Len(d) + 1] = n
           /\ \A k \in 0..Len(d) : Prefix(Append(d, n), k) = Prefix(d, k)
           /\ Prefix(Append(d, n), Len(d)) = d
<1> DEFINE p == Append(d, n)
<1>1. /\ p \in Seq(N) /\ Len(p) = Len(d) + 1 /\ p[Len(d) + 1] = n /\ p # <<>>
      /\ \A i \in 1..Len(d) : p[i] = d[i]
  OBVIOUS
<1> HIDE DEF p
<1>2. ASSUME NEW k \in 0..Len(d) PROVE Prefix(p, k) = Prefix(d, k)
  <2>1. k \in 0..Len(p)
    BY <1>1
  <2>2. /\ Prefix(p, k) \in Seq(N) /\ Len(Prefix(p, k)) = k
        /\ \A i \in 1..k : Prefix(p, k)[i] = p[i]
    BY <1>1, <2>1, PrefixFacts
  <2>3. /\ Prefix(d, k) \in Seq(N) /\ Len(Prefix(d, k)) = k
        /\ \A i \in 1..k : Prefix(d, k)[i] = d[i]
    BY PrefixFacts
  <2> QED BY <1>1, <2>2, <2>3, SeqEqual
<1>3. Prefix(p, Len(d)) = d
  BY <1>2, PrefixFacts
<1> QED BY <1>1, <1>2, <1>3 DEF p

\* The next longer prefix is a child of the shorter one.
LEMMA PrefixChild ==
    ASSUME NEW N, NEW q \in Seq(N), NEW k \in 0..(Len(q) - 1)
    PROVE  Prefix(q, k + 1) = Append(Prefix(q, k), q[k + 1]) /\ q[k + 1] \in N
<1>1. /\ Prefix(q, k) \in Seq(N) /\ Len(Prefix(q, k)) = k
      /\ \A i \in 1..k : Prefix(q, k)[i] = q[i]
  BY PrefixFacts
<1>2. /\ Prefix(q, k + 1) \in Seq(N) /\ Len(Prefix(q, k + 1)) = k + 1
      /\ \A i \in 1..(k + 1) : Prefix(q, k + 1)[i] = q[i]
  BY PrefixFacts
<1>3. q[k + 1] \in N
  OBVIOUS
<1> DEFINE a == Append(Prefix(q, k), q[k + 1])
<1>4. a \in Seq(N) /\ Len(a) = k + 1 /\ a[k + 1] = q[k + 1] /\ \A i \in 1..k : a[i] = q[i]
  BY <1>1, <1>3
<1> HIDE DEF a
<1>5. Prefix(q, k + 1) = a
  BY <1>2, <1>4, SeqEqual
<1> QED BY <1>3, <1>5 DEF a

\* Proper ancestors are the proper prefixes.
LEMMA UnderPrefix ==
    ASSUME NEW N, NEW p \in Seq(N), NEW q \in Seq(N)
    PROVE  Under(p, q) <=> Len(p) \in 0..(Len(q) - 1) /\ Prefix(q, Len(p)) = p
BY DEF Under, Prefix

-----------------------------------------------------------------------------
(* The server's tree: whatever is there has directories above it.          *)

DirIn(r, p) == p \in DOMAIN r /\ r[p].kind = "dir"

IsTree(r) ==
    /\ DOMAIN r \subseteq Paths
    /\ DirIn(r, <<>>)
    /\ \A p \in DOMAIN r : \A k \in 0..(Len(p) - 1) : DirIn(r, Prefix(p, k))

LEMMA PathsSeq == Paths \subseteq Seq(Names)
BY VfsAssumption DEF Paths

\* A node that is there is replaced; a directory by a directory.
LEMMA TreeReplace ==
    ASSUME NEW r, IsTree(r), NEW p \in DOMAIN r, NEW v, r[p].kind = "dir" => v.kind = "dir"
    PROVE  IsTree(Put(r, p, v))
<1>1. DOMAIN Put(r, p, v) = DOMAIN r
  BY DEF Put
<1>2. \A q \in DOMAIN r : DirIn(r, q) => DirIn(Put(r, p, v), q)
  BY <1>1 DEF DirIn, Put
<1> QED BY <1>1, <1>2 DEF IsTree, DirIn

\* A node is made in a directory.
LEMMA TreeMake ==
    ASSUME NEW r, IsTree(r), NEW d \in Paths, NEW n \in Names, NEW v,
           DirIn(r, d), Append(d, n) \in Paths, Append(d, n) \notin DOMAIN r
    PROVE  IsTree(Put(r, Append(d, n), v))
<1> DEFINE p == Append(d, n)
<1>0. /\ d \in Seq(Names) /\ Len(p) = Len(d) + 1 /\ Len(d) \in Nat
      /\ \A k \in 0..Len(d) : Prefix(p, k) = Prefix(d, k)
      /\ Prefix(d, Len(d)) = d
  BY PathsSeq, AppendFacts, PrefixFacts
<1> HIDE DEF p
<1>1. DOMAIN Put(r, p, v) = DOMAIN r \cup {p}
  BY PutMap
<1>2. \A q : DirIn(r, q) => DirIn(Put(r, p, v), q)
  BY <1>1 DEF DirIn, Put, p
<1>3. \A k \in 0..(Len(p) - 1) : DirIn(r, Prefix(p, k))
  <2> SUFFICES ASSUME NEW k \in 0..Len(d) PROVE DirIn(r, Prefix(d, k))
    BY <1>0
  <2>1. CASE k = Len(d)
    BY <1>0, <2>1
  <2>2. CASE k # Len(d)
    BY <1>0, <2>2 DEF IsTree, DirIn
  <2> QED BY <2>1, <2>2
<1>4. IsTree(Put(r, p, v))
  BY <1>1, <1>2, <1>3 DEF IsTree, p
<1> QED BY <1>4 DEF p

\* A file or an empty directory is removed.
LEMMA TreeRemove ==
    ASSUME NEW r, IsTree(r), NEW p \in Paths, p # <<>>,
           \A n \in Names : Append(p, n) \notin DOMAIN r
    PROVE  IsTree(Drop(r, {p}))
<1>1. /\ DOMAIN Drop(r, {p}) = DOMAIN r \ {p}
      /\ \A q \in DOMAIN r \ {p} : Drop(r, {p})[q] = r[q]
  BY DropMap
<1>2. ASSUME NEW q \in DOMAIN r, NEW k \in 0..(Len(q) - 1), Prefix(q, k) = p
      PROVE  FALSE
  <2>1. q \in Seq(Names) /\ Len(q) \in Nat
    BY PathsSeq DEF IsTree
  <2>2. Prefix(q, k + 1) = Append(p, q[k + 1]) /\ q[k + 1] \in Names
    BY <1>2, <2>1, PrefixChild
  <2>3. Prefix(q, k + 1) \in DOMAIN r
    <3>1. CASE k + 1 = Len(q)
      BY <2>1, <3>1, PrefixFacts
    <3>2. CASE k + 1 # Len(q)
      <4>1. k + 1 \in 0..(Len(q) - 1)
        BY <2>1, <3>2
      <4> QED BY <4>1 DEF IsTree, DirIn
    <3> QED BY <3>1, <3>2
  <2> QED BY <2>2, <2>3
<1> QED BY <1>1, <1>2 DEF IsTree, DirIn

-----------------------------------------------------------------------------
(* A renamed subtree.                                                      *)

Below(p, q) == p = q \/ Under(p, q)
Rest(p, q) == SubSeq(q, Len(p) + 1, Len(q))

LEMMA RestFacts ==
    ASSUME NEW N, NEW p \in Seq(N), NEW q \in Seq(N), Below(p, q)
    PROVE  /\ Rest(p, q) \in Seq(N)
           /\ Len(Rest(p, q)) = Len(q) - Len(p)
           /\ Len(p) <= Len(q)
           /\ q = p \o Rest(p, q)
<1>1. Len(p) <= Len(q) /\ Prefix(q, Len(p)) = p /\ Len(p) \in Nat /\ Len(q) \in Nat
  BY PrefixFacts DEF Below, Under, Prefix
<1>2. \A i \in 1..Len(p) : p[i] = q[i]
  BY <1>1, PrefixFacts
<1>3. /\ Rest(p, q) \in Seq(N) /\ Len(Rest(p, q)) = Len(q) - Len(p)
      /\ \A i \in 1..(Len(q) - Len(p)) : Rest(p, q)[i] = q[i + Len(p)]
  BY <1>1 DEF Rest
<1> DEFINE c == p \o Rest(p, q)
<1>4. /\ c \in Seq(N) /\ Len(c) = Len(q)
      /\ \A i \in 1..Len(p) : c[i] = p[i]
      /\ \A i \in (Len(p) + 1)..Len(q) : c[i] = Rest(p, q)[i - Len(p)]
  BY <1>1, <1>3
<1> HIDE DEF c
<1>5. \A i \in 1..Len(q) : q[i] = c[i]
  <2> SUFFICES ASSUME NEW i \in 1..Len(q) PROVE q[i] = c[i]
    OBVIOUS
  <2>1. CASE i <= Len(p)
    BY <1>1, <1>2, <1>4, <2>1
  <2>2. CASE i > Len(p)
    <3>1. i - Len(p) \in 1..(Len(q) - Len(p)) /\ (i - Len(p)) + Len(p) = i
      BY <1>1, <2>2
    <3> QED BY <1>1, <1>3, <1>4, <2>2, <3>1
  <2> QED BY <1>1, <2>1, <2>2
<1>6. q = c
  BY <1>4, <1>5, SeqEqual
<1> QED BY <1>1, <1>3, <1>6 DEF c

LEMMA ConcatFacts ==
    ASSUME NEW N, NEW p \in Seq(N), NEW x \in Seq(N)
    PROVE  /\ p \o x \in Seq(N) /\ Len(p \o x) = Len(p) + Len(x)
           /\ Len(p) \in Nat /\ Len(x) \in Nat
           /\ \A i \in 1..Len(p) : (p \o x)[i] = p[i]
           /\ \A i \in 1..Len(x) : (p \o x)[Len(p) + i] = x[i]
OBVIOUS

LEMMA JoinFacts ==
    ASSUME NEW N, NEW p \in Seq(N), NEW x \in Seq(N)
    PROVE  /\ p \o x \in Seq(N)
           /\ Len(p \o x) = Len(p) + Len(x)
           /\ Below(p, p \o x)
           /\ Rest(p, p \o x) = x
           /\ \A k \in 0..Len(p) : Prefix(p \o x, k) = Prefix(p, k)
           /\ \A k \in 0..Len(x) : Prefix(p \o x, Len(p) + k) = p \o Prefix(x, k)
<1> DEFINE q == p \o x
<1>1. /\ q \in Seq(N) /\ Len(q) = Len(p) + Len(x) /\ Len(p) \in Nat /\ Len(x) \in Nat
      /\ \A i \in 1..Len(p) : q[i] = p[i]
      /\ \A i \in 1..Len(x) : q[Len(p) + i] = x[i]
  BY ConcatFacts
<1> HIDE DEF q
<1>2. ASSUME NEW k \in 0..Len(p) PROVE Prefix(q, k) = Prefix(p, k)
  <2>1. k \in 0..Len(q)
    BY <1>1
  <2>2. /\ Prefix(q, k) \in Seq(N) /\ Len(Prefix(q, k)) = k
        /\ \A i \in 1..k : Prefix(q, k)[i] = q[i]
    BY <1>1, <2>1, PrefixFacts
  <2>3. /\ Prefix(p, k) \in Seq(N) /\ Len(Prefix(p, k)) = k
        /\ \A i \in 1..k : Prefix(p, k)[i] = p[i]
    BY PrefixFacts
  <2> QED BY <1>1, <2>2, <2>3, SeqEqual
<1>3. Below(p, q)
  <2>1. Prefix(q, Len(p)) = p
    BY <1>1, <1>2, PrefixFacts
  <2>2. CASE Len(x) = 0
    BY <1>1, <2>1, <2>2, PrefixFacts DEF Below
  <2>3. CASE Len(x) # 0
    BY <1>1, <2>1, <2>3 DEF Below, Under, Prefix
  <2> QED BY <2>2, <2>3
<1>4. Rest(p, q) = x
  <2>1. /\ Rest(p, q) \in Seq(N) /\ Len(Rest(p, q)) = Len(x)
        /\ \A i \in 1..Len(x) : Rest(p, q)[i] = q[i + Len(p)]
    BY <1>1 DEF Rest
  <2> QED BY <1>1, <2>1, SeqEqual
<1>5. ASSUME NEW k \in 0..Len(x) PROVE Prefix(q, Len(p) + k) = p \o Prefix(x, k)
  <2>0. PICK y : y = Prefix(x, k)
    OBVIOUS
  <2> DEFINE a == Prefix(q, Len(p) + k)
             b == p \o y
  <2>1. /\ a \in Seq(N) /\ Len(a) = Len(p) + k
        /\ \A i \in 1..(Len(p) + k) : a[i] = q[i]
    BY <1>1, PrefixFacts
  <2>2. /\ y \in Seq(N) /\ Len(y) = k /\ \A i \in 1..k : y[i] = x[i]
    BY <2>0, PrefixFacts
  <2>3. /\ b \in Seq(N) /\ Len(b) = Len(p) + Len(y)
        /\ \A i \in 1..Len(p) : b[i] = p[i]
        /\ \A i \in 1..Len(y) : b[Len(p) + i] = y[i]
    <3>1. y \in Seq(N)
      BY <2>2
    <3> QED BY ONLY <3>1, p \in Seq(N), ConcatFacts
  <2> HIDE DEF a, b
  <2>4. \A i \in 1..(Len(p) + k) : a[i] = b[i]
    <3> SUFFICES ASSUME NEW i \in 1..(Len(p) + k) PROVE a[i] = b[i]
      OBVIOUS
    <3>1. CASE i <= Len(p)
      BY <1>1, <2>1, <2>3, <3>1
    <3>2. CASE i > Len(p)
      <4>1. /\ i - Len(p) \in 1..k /\ i - Len(p) \in 1..Len(x)
            /\ Len(p) + (i - Len(p)) = i
        BY <1>1, <3>2
      <4>2. a[i] = x[i - Len(p)]
        BY <1>1, <2>1, <4>1
      <4> QED BY <2>2, <2>3, <4>1, <4>2
    <3> QED BY <1>1, <3>1, <3>2
  <2>5. a = b
    BY <2>1, <2>2, <2>3, <2>4, SeqEqual
  <2> QED BY <2>0, <2>5 DEF a, b
<1> QED BY <1>1, <1>2, <1>3, <1>4, <1>5 DEF q

\* Nothing lies below a path that is not there.
LEMMA NothingBelow ==
    ASSUME NEW r, IsTree(r), NEW p \in Seq(Names), p \notin DOMAIN r, NEW q \in DOMAIN r
    PROVE  ~Below(p, q)
<1>1. q \in Seq(Names)
  BY PathsSeq DEF IsTree
<1> QED BY <1>1, UnderPrefix DEF Below, IsTree, DirIn

\* A descendant's descendant is a descendant.
LEMMA BelowPrefix ==
    ASSUME NEW p \in Seq(Names), NEW q \in Seq(Names), NEW k \in 0..Len(q),
           Below(p, Prefix(q, k))
    PROVE  Below(p, q)
<1>1. Prefix(q, k) \in Seq(Names) /\ Len(Prefix(q, k)) = k /\ Len(q) \in Nat /\ Len(p) \in Nat
      /\ Prefix(q, Len(q)) = q
  BY PrefixFacts
<1>2. CASE p = Prefix(q, k)
  BY <1>1, <1>2, UnderPrefix DEF Below
<1>3. CASE Under(p, Prefix(q, k))
  <2>1. Len(p) \in 0..(k - 1) /\ Prefix(Prefix(q, k), Len(p)) = p
    BY <1>1, <1>3, UnderPrefix
  <2>2. Prefix(q, Len(p)) = p
    BY <1>1, <2>1, PrefixPrefix
  <2> QED BY <1>1, <2>1, <2>2, UnderPrefix DEF Below
<1> QED BY <1>2, <1>3 DEF Below

\* The renamed tree: what was not below `from` is where it was, what was below
\* `from` is at the same place below `to`.
LEMMA MovedFacts ==
    ASSUME IsTree(remote), NEW from \in DOMAIN remote, NEW to \in Seq(Names),
           to \notin DOMAIN remote
    PROVE  LET kept == {q \in DOMAIN remote : ~Below(from, q)}
               under == {q \in DOMAIN remote : Below(from, q)}
           IN  /\ DOMAIN Moved(from, to) = kept \cup {to \o Rest(from, q) : q \in under}
               /\ \A q \in kept : Moved(from, to)[q] = remote[q]
               /\ \A q \in under : Moved(from, to)[to \o Rest(from, q)] = remote[q]
<1> DEFINE below(p, q) == p = q \/ Under(p, q)
           rebase(q) == IF below(to, q) THEN from \o SubSeq(q, Len(to) + 1, Len(q)) ELSE q
           kept == {q \in DOMAIN remote : ~below(from, q)}
           under == {q \in DOMAIN remote : below(from, q)}
           moved == {to \o SubSeq(q, Len(from) + 1, Len(q)) : q \in under}
<1>1. Moved(from, to) = [q \in kept \cup moved |-> IF q \in moved THEN remote[rebase(q)] ELSE remote[q]]
  BY DEF Moved
<1>2. \A p, q : below(p, q) <=> Below(p, q)
  BY DEF Below
<1>3. \A q \in DOMAIN remote : q \in Seq(Names)
  BY PathsSeq DEF IsTree
<1>4. ASSUME NEW q \in under
      PROVE  rebase(to \o Rest(from, q)) = q /\ Below(to, to \o Rest(from, q))
  <2>1. Rest(from, q) \in Seq(Names) /\ q = from \o Rest(from, q)
    BY <1>2, <1>3, RestFacts
  <2>2. Below(to, to \o Rest(from, q)) /\ Rest(to, to \o Rest(from, q)) = Rest(from, q)
    BY <2>1, JoinFacts
  <2>3. rebase(to \o Rest(from, q)) = from \o Rest(to, to \o Rest(from, q))
    BY <2>2 DEF Below, Rest
  <2> QED BY <2>1, <2>2, <2>3
<1>5. moved = {to \o Rest(from, q) : q \in under}
  BY DEF Rest
<1>6. kept \cap moved = {}
  <2>1. \A q \in moved : Below(to, q)
    BY <1>4, <1>5
  <2>2. \A q \in kept : ~Below(to, q)
    BY NothingBelow
  <2> QED BY <2>1, <2>2
<1> HIDE DEF rebase, moved
<1>7. \A q \in kept : Moved(from, to)[q] = remote[q]
  BY <1>1, <1>6
<1>8. \A q \in under : Moved(from, to)[to \o Rest(from, q)] = remote[q]
  BY <1>1, <1>4, <1>5
<1>9. DOMAIN Moved(from, to) = kept \cup {to \o Rest(from, q) : q \in under}
  BY <1>1, <1>5
<1> QED BY <1>2, <1>7, <1>8, <1>9

LEMMA TreeRename ==
    ASSUME IsTree(remote), NEW from \in DOMAIN remote, from # <<>>,
           NEW d \in Paths, NEW n \in Names, DirIn(remote, d),
           Append(d, n) \notin DOMAIN remote, ~Under(from, Append(d, n)),
           DOMAIN Moved(from, Append(d, n)) \subseteq Paths
    PROVE  IsTree(Moved(from, Append(d, n)))
<1>0. PICK to : to = Append(d, n)
  OBVIOUS
<1> DEFINE kept == {q \in DOMAIN remote : ~Below(from, q)}
           under == {q \in DOMAIN remote : Below(from, q)}
           new == Moved(from, to)
<1>1. /\ to \in Seq(Names) /\ Len(to) = Len(d) + 1 /\ d \in Seq(Names) /\ Len(d) \in Nat
      /\ \A k \in 0..Len(d) : Prefix(to, k) = Prefix(d, k)
      /\ Prefix(to, Len(d)) = d /\ Prefix(d, Len(d)) = d
  BY <1>0, PathsSeq, AppendFacts, PrefixFacts
<1>2. \A q \in DOMAIN remote : q \in Seq(Names) /\ Len(q) \in Nat
  BY PathsSeq DEF IsTree
<1>3. /\ DOMAIN new = kept \cup {to \o Rest(from, q) : q \in under}
      /\ \A q \in kept : new[q] = remote[q]
      /\ \A q \in under : new[to \o Rest(from, q)] = remote[q]
  BY <1>0, <1>1, MovedFacts
<1> HIDE DEF new
<1>4. \A q \in kept : DirIn(remote, q) => DirIn(new, q)
  BY <1>3 DEF DirIn
<1>5. DirIn(new, <<>>)
  <2>1. ~Below(from, <<>>)
    BY <1>2 DEF Below, Under
  <2> QED BY <1>4, <2>1 DEF IsTree, DirIn
<1>6. ASSUME NEW q \in kept, NEW k \in 0..(Len(q) - 1) PROVE DirIn(new, Prefix(q, k))
  <2>1. DirIn(remote, Prefix(q, k))
    BY DEF IsTree
  <2>2. k \in 0..Len(q)
    BY <1>2
  <2>3. ~Below(from, Prefix(q, k))
    BY <1>2, <2>2, BelowPrefix
  <2> QED BY <1>4, <2>1, <2>3 DEF DirIn
<1>7. ASSUME NEW q \in under, NEW k \in 0..(Len(to \o Rest(from, q)) - 1)
      PROVE  DirIn(new, Prefix(to \o Rest(from, q), k))
  <2>0. PICK x : x = Rest(from, q)
    OBVIOUS
  <2>1. /\ x \in Seq(Names) /\ q = from \o x /\ Len(x) \in Nat /\ Len(x) = Len(q) - Len(from)
        /\ Len(from) \in Nat
    <3>1. from \in Seq(Names) /\ q \in Seq(Names) /\ Below(from, q)
      BY <1>2
    <3>2. x \in Seq(Names) /\ Len(x) = Len(q) - Len(from) /\ q = from \o x
      BY ONLY <2>0, <3>1, RestFacts
    <3> QED BY <3>1, <3>2
  <2>2. /\ Len(to \o x) = Len(to) + Len(x)
        /\ \A j \in 0..Len(to) : Prefix(to \o x, j) = Prefix(to, j)
        /\ \A j \in 0..Len(x) : Prefix(to \o x, Len(to) + j) = to \o Prefix(x, j)
    <3>1. to \in Seq(Names) /\ x \in Seq(Names)
      BY <1>1, <2>1
    <3> QED BY ONLY <3>1, JoinFacts
  <2>3. CASE k < Len(to)
    <3>1. k \in 0..Len(d) /\ k \in 0..(Len(to) - 1) /\ k \in 0..Len(to)
      BY <1>1, <2>3
    <3>2. Prefix(to \o x, k) = Prefix(d, k)
      BY <1>1, <2>2, <3>1
    <3>3. DirIn(remote, Prefix(d, k))
      <4>1. CASE k = Len(d)
        BY <1>1, <4>1
      <4>2. CASE k # Len(d)
        <5>1. k \in 0..(Len(d) - 1)
          BY <1>1, <3>1, <4>2
        <5> QED BY <5>1 DEF IsTree, DirIn
      <4> QED BY <4>1, <4>2
    <3>4. ~Below(from, Prefix(d, k))
      <4>1. SUFFICES ASSUME Below(from, Prefix(to, k)) PROVE FALSE
        BY <1>1, <3>1
      <4>2. Below(from, to)
        BY <1>1, <1>2, <3>1, <4>1, BelowPrefix
      <4> QED BY <1>0, <4>2 DEF Below
    <3> QED BY <1>4, <2>0, <3>2, <3>3, <3>4 DEF DirIn
  <2>4. CASE k >= Len(to)
    <3>1. PICK j \in 0..(Len(x) - 1) : k = Len(to) + j
      <4>1. k - Len(to) \in 0..(Len(x) - 1) /\ k = Len(to) + (k - Len(to))
        BY <1>1, <2>0, <2>1, <2>2, <2>4
      <4> QED BY <4>1
    <3>2. j \in 0..Len(x) /\ Len(from) + j \in 0..(Len(q) - 1)
      BY <1>2, <2>1, <3>1
    <3>3. Prefix(to \o x, k) = to \o Prefix(x, j)
      BY <2>2, <3>1, <3>2
    <3>4. Prefix(q, Len(from) + j) = from \o Prefix(x, j) /\ Prefix(x, j) \in Seq(Names)
      <4>1. from \in Seq(Names) /\ x \in Seq(Names)
        BY <1>2, <2>1
      <4>2. \A i \in 0..Len(x) : Prefix(from \o x, Len(from) + i) = from \o Prefix(x, i)
        BY ONLY <4>1, JoinFacts
      <4>3. Prefix(x, j) \in Seq(Names)
        BY <3>2, <4>1, PrefixFacts
      <4> QED BY <2>1, <3>2, <4>2, <4>3
    <3>5. DirIn(remote, from \o Prefix(x, j))
      BY <3>2, <3>4 DEF IsTree
    <3>6. Below(from, from \o Prefix(x, j)) /\ Rest(from, from \o Prefix(x, j)) = Prefix(x, j)
      BY <1>2, <3>4, JoinFacts
    <3>7. DirIn(new, to \o Prefix(x, j))
      BY <1>3, <3>5, <3>6 DEF DirIn
    <3> QED BY <2>0, <3>3, <3>7
  <2>5. Len(to) \in Nat /\ k \in Int
    BY <1>1, <2>0, <2>1, <2>2
  <2> QED BY <2>3, <2>4, <2>5
<1>8. IsTree(new)
  BY <1>0, <1>3, <1>5, <1>6, <1>7 DEF IsTree, new
<1> QED BY <1>0, <1>8 DEF new

-----------------------------------------------------------------------------
(* The index: keys are paths, content is in entries, listings hold names.  *)

IdxOK(i) ==
    /\ DOMAIN i.attrs \subseteq Paths
    /\ DOMAIN i.content \subseteq DOMAIN i.attrs
    /\ DOMAIN i.listing \subseteq Paths
    /\ \A p \in DOMAIN i.listing : i.listing[p] \subseteq Names

LEMMA IndexFields ==
    ASSUME NEW n, NEW a, NEW c, NEW l
    PROVE  /\ Index(n, a, c, l).next = n /\ Index(n, a, c, l).attrs = a
           /\ Index(n, a, c, l).content = c /\ Index(n, a, c, l).listing = l
BY DEF Index

LEMMA StoreAttrsOK ==
    ASSUME NEW i, IdxOK(i), NEW new, DOMAIN new \subseteq Paths
    PROVE  IdxOK(StoreAttrs(i, new))
BY DEF IdxOK, StoreAttrs, Index, Drop

LEMMA RecordListingOK ==
    ASSUME NEW i, IdxOK(i), NEW p \in Paths, NEW kids, DOMAIN kids \subseteq Names,
           \A n \in DOMAIN kids : Append(p, n) \in Paths
    PROVE  IdxOK(RecordListing(i, p, kids))
<1> DEFINE new == ByPath(p, kids)
           stored == StoreAttrs(i, new)
<1>1. DOMAIN new \subseteq Paths
  BY DEF ByPath
<1>2. IdxOK(stored) /\ stored.listing = i.listing
  BY <1>1, StoreAttrsOK DEF StoreAttrs, Index
<1> HIDE DEF stored, new
<1>3. RecordListing(i, p, kids)
        = Index(stored.next, stored.attrs, stored.content, Put(i.listing, p, DOMAIN kids))
  BY DEF RecordListing, stored, new
<1>4. /\ DOMAIN Put(i.listing, p, DOMAIN kids) \subseteq Paths
      /\ \A q \in DOMAIN Put(i.listing, p, DOMAIN kids) :
            Put(i.listing, p, DOMAIN kids)[q] \subseteq Names
  BY DEF IdxOK, Put
<1> QED BY <1>2, <1>3, <1>4, IndexFields DEF IdxOK

LEMMA InvalidateChildrenOK ==
    ASSUME NEW i, IdxOK(i), NEW p
    PROVE  IdxOK(InvalidateChildren(i, p))
BY DEF IdxOK, InvalidateChildren, Index, Drop

LEMMA RemoveEntryOK ==
    ASSUME NEW i, IdxOK(i), NEW p
    PROVE  IdxOK(RemoveEntry(i, p))
BY DEF IdxOK, RemoveEntry, Index, Drop

LEMMA InvalidateContentOK ==
    ASSUME NEW i, IdxOK(i), NEW p
    PROVE  IdxOK(InvalidateContent(i, p))
BY DEF IdxOK, InvalidateContent, Index, Drop

LEMMA RecordChunkOK ==
    ASSUME NEW i, IdxOK(i), NEW p \in Paths, NEW tag, NEW csize, NEW c, NEW o
    PROVE  IdxOK(RecordChunk(i, p, tag, csize, c, o))
<1> DEFINE new == RecordChunk(i, p, tag, csize, c, o)
<1>1. /\ DOMAIN new.attrs = DOMAIN i.attrs \cup {p}
      /\ DOMAIN new.content = DOMAIN i.content \cup {p}
      /\ new.listing = i.listing
  BY DEF RecordChunk, Index, Put
<1> QED BY <1>1 DEF IdxOK

LEMMA RenameEntryOK ==
    ASSUME NEW i, IdxOK(i), NEW from \in Paths, NEW to \in Paths
    PROVE  IdxOK(RenameEntry(i, from, to))
<1> DEFINE m == MoveEntry(i, from, to)
           gone == Descendants(i, from, to)
<1>1. /\ m.attrs = Move(i.attrs, from, to) /\ m.listing = Move(i.listing, from, to)
      /\ m.content = IF from \in DOMAIN i.attrs
                       THEN Move(Drop(i.content, {to} \ {from}), from, to) ELSE i.content
  BY DEF MoveEntry, Index
<1> HIDE DEF m
<1>2. DOMAIN m.attrs \subseteq Paths /\ DOMAIN m.content \subseteq DOMAIN m.attrs
  <2>1. CASE from \in DOMAIN i.attrs
    <3>1. DOMAIN m.attrs = (DOMAIN i.attrs \ {from}) \cup {to}
      BY <1>1, <2>1 DEF Move, Put, Drop
    <3>2. DOMAIN m.content \subseteq (DOMAIN i.content \ {from}) \cup {to}
      <4>1. DOMAIN Drop(i.content, {to} \ {from}) \subseteq DOMAIN i.content
        BY DEF Drop
      <4>2. PICK f : f = Drop(i.content, {to} \ {from})
        OBVIOUS
      <4>3. m.content = Move(f, from, to) /\ DOMAIN f \subseteq DOMAIN i.content
        BY <1>1, <2>1, <4>1, <4>2
      <4> QED BY <4>3 DEF Move, Put, Drop
    <3> QED BY <3>1, <3>2 DEF IdxOK
  <2>2. CASE from \notin DOMAIN i.attrs
    BY <1>1, <2>2 DEF IdxOK, Move
  <2> QED BY <2>1, <2>2
<1>3. DOMAIN m.listing \subseteq Paths /\ \A p \in DOMAIN m.listing : m.listing[p] \subseteq Names
  <2>1. CASE from \in DOMAIN i.listing
    BY <1>1, <2>1 DEF IdxOK, Move, Put, Drop
  <2>2. CASE from \notin DOMAIN i.listing
    BY <1>1, <2>2 DEF IdxOK, Move
  <2> QED BY <2>1, <2>2
<1>4. RenameEntry(i, from, to)
        = Index(m.next, Drop(m.attrs, gone), Drop(m.content, gone), Drop(m.listing, gone))
  BY DEF RenameEntry, m
<1> HIDE DEF gone
<1>5. /\ DOMAIN Drop(m.attrs, gone) = DOMAIN m.attrs \ gone
      /\ DOMAIN Drop(m.content, gone) = DOMAIN m.content \ gone
      /\ DOMAIN Drop(m.listing, gone) = DOMAIN m.listing \ gone
      /\ \A p \in DOMAIN m.listing \ gone : Drop(m.listing, gone)[p] = m.listing[p]
  BY DEF Drop
<1> QED BY <1>2, <1>3, <1>4, <1>5, IndexFields DEF IdxOK

-----------------------------------------------------------------------------
(* The inductive invariant behind TypeOK and NodeTable.                    *)

NodesOK ==
    /\ nextNode \in 2..(MaxNode + 1)
    /\ \A n \in DOMAIN nodeToPath : n \in Nat /\ n < nextNode /\ nodeToPath[n] \in Paths
    /\ \A p \in DOMAIN pathToNode :
          pathToNode[p] \in DOMAIN nodeToPath /\ nodeToPath[pathToNode[p]] = p
    /\ <<>> \in DOMAIN pathToNode /\ pathToNode[<<>>] = 1

HandlesOK ==
    /\ nextHandle \in 1..(MaxHandle + 1)
    /\ \A h \in DOMAIN handles :
          /\ h \in Nat /\ h < nextHandle
          /\ handles[h].path \in Paths /\ handles[h].node \in DOMAIN nodeToPath

TimesOK ==
    /\ \A p \in DOMAIN validated : p \in Paths /\ validated[p] \in 0..clock
    /\ \A e \in DOMAIN negative : e[1] \in DOMAIN nodeToPath /\ negative[e] \in 0..clock

MountOK == clock \in 0..MaxClock /\ up \in BOOLEAN /\ mode \in Modes /\ readOnly \in ReadOnlys

\* Keys and values are of this mount, and the tree has every ancestor of its
\* paths: being closed under parents alone would not survive a rename.
VfsInv == MountOK /\ IsTree(remote) /\ IdxOK(idx) /\ NodesOK /\ HandlesOK /\ TimesOK

LEMMA VfsInvImplies == VfsInv => TypeOK /\ NodeTable
<1> SUFFICES ASSUME VfsInv PROVE TypeOK /\ NodeTable
  OBVIOUS
<1>1. DOMAIN remote \subseteq Paths /\ IsDir(<<>>)
  BY DEF VfsInv, IsTree, DirIn, IsDir
<1>2. ASSUME NEW p \in DOMAIN remote \ {<<>>} PROVE IsDir(Parent(p))
  <2>1. p \in Seq(Names) /\ Len(p) \in Nat /\ Len(p) # 0
    BY <1>1, PathsSeq
  <2>2. Len(p) - 1 \in 0..(Len(p) - 1)
    BY <2>1
  <2> QED BY <2>2 DEF VfsInv, IsTree, DirIn, IsDir, Parent, Prefix
<1> QED BY <1>1, <1>2 DEF VfsInv, MountOK, IdxOK, NodesOK, HandlesOK, TimesOK, TypeOK, NodeTable

LEMMA FiniteChildren ==
    ASSUME NEW p, NEW S, S \subseteq {Append(p, n) : n \in Names}
    PROVE  IsFiniteSet(S)
<1> DEFINE T == {Append(p, n) : n \in Names}
           f == [n \in Names |-> Append(p, n)]
<1>1. f \in Surjection(Names, T)
  BY DEF Surjection
<1>2. IsFiniteSet(Names)
  BY VfsAssumption
<1>3. IsFiniteSet(T)
  BY <1>1, <1>2, FS_Surjection
<1> QED BY <1>3, FS_Subset

LEMMA InternNodes ==
    ASSUME NodesOK, NEW S \in SUBSET Paths, IsFiniteSet(S), Intern(S)
    PROVE  /\ NodesOK'
           /\ DOMAIN nodeToPath \subseteq DOMAIN nodeToPath'
           /\ \A n \in DOMAIN nodeToPath : nodeToPath'[n] = nodeToPath[n]
           /\ S \subseteq DOMAIN pathToNode'
<1> DEFINE new == S \ DOMAIN pathToNode
<1>0. nextNode \in Nat /\ nextNode >= 2 /\ MaxNode \in Nat
  BY VfsAssumption DEF NodesOK
<1>1. /\ DOMAIN pathToNode' = DOMAIN pathToNode \cup S
      /\ \A p \in DOMAIN pathToNode : pathToNode'[p] = pathToNode[p]
      /\ \A p \in new : /\ pathToNode'[p] \in Nat
                        /\ pathToNode'[p] >= nextNode
                        /\ pathToNode'[p] < nextNode'
                        /\ pathToNode'[p] \in DOMAIN nodeToPath'
                        /\ nodeToPath'[pathToNode'[p]] = p
      /\ DOMAIN nodeToPath \subseteq DOMAIN nodeToPath'
      /\ \A n \in DOMAIN nodeToPath' :
            \/ \E p \in new : pathToNode'[p] = n
            \/ n \in DOMAIN nodeToPath /\ nodeToPath'[n] = nodeToPath[n]
      /\ nextNode' \in Nat /\ nextNode <= nextNode' /\ nextNode' <= MaxNode + 1
  BY <1>0, InternFacts
<1>2. \A n \in DOMAIN nodeToPath : n \in Nat /\ n < nextNode
  BY DEF NodesOK
<1>3. \A n \in DOMAIN nodeToPath : nodeToPath'[n] = nodeToPath[n]
  BY <1>0, <1>1, <1>2
<1>4. \A n \in DOMAIN nodeToPath' : n \in Nat /\ n < nextNode' /\ nodeToPath'[n] \in Paths
  BY <1>0, <1>1, <1>2 DEF NodesOK
<1>5. \A p \in DOMAIN pathToNode' :
          pathToNode'[p] \in DOMAIN nodeToPath' /\ nodeToPath'[pathToNode'[p]] = p
  BY <1>1, <1>3 DEF NodesOK
<1>6. nextNode' \in 2..(MaxNode + 1)
  BY <1>0, <1>1
<1> QED BY <1>1, <1>3, <1>4, <1>5, <1>6 DEF NodesOK

LEMMA MoveNodes ==
    ASSUME NodesOK, NEW from, NEW to \in Paths, from # <<>>, to # <<>>, MoveNode(from, to)
    PROVE  NodesOK' /\ DOMAIN nodeToPath' = DOMAIN nodeToPath
<1>1. CASE from \notin DOMAIN pathToNode
  <2>1. UNCHANGED nodeVars
    BY <1>1 DEF MoveNode, Move, nodeVars
  <2> QED BY <2>1 DEF nodeVars, NodesOK
<1>2. CASE from \in DOMAIN pathToNode
  <2>1. /\ DOMAIN pathToNode' = (DOMAIN pathToNode \ {from}) \cup {to}
        /\ pathToNode'[to] = pathToNode[from]
        /\ \A p \in DOMAIN pathToNode \ {from} : p # to => pathToNode'[p] = pathToNode[p]
    BY <1>2 DEF MoveNode, Move, Put, Drop
  <2>2. pathToNode[from] \in DOMAIN nodeToPath /\ nodeToPath[pathToNode[from]] = from
    BY <1>2 DEF NodesOK
  <2>3. /\ DOMAIN nodeToPath' = DOMAIN nodeToPath
        /\ nodeToPath'[pathToNode[from]] = to
        /\ \A n \in DOMAIN nodeToPath : n # pathToNode[from] => nodeToPath'[n] = nodeToPath[n]
        /\ nextNode' = nextNode
    BY <1>2, <2>2 DEF MoveNode, Put
  <2>4. \A p \in DOMAIN pathToNode \ {from} : pathToNode[p] # pathToNode[from]
    BY <2>2 DEF NodesOK
  <2> QED BY <2>1, <2>2, <2>3, <2>4 DEF NodesOK
<1> QED BY <1>1, <1>2

LEMMA InitVfs == Init => VfsInv
<1> SUFFICES ASSUME Init PROVE VfsInv
  OBVIOUS
<1>1. MountOK
  BY VfsAssumption DEF Init, Mounted, MountOK
<1>2. IsTree(remote)
  <2>1. DOMAIN remote = {<<>>} /\ remote[<<>>].kind = "dir" /\ <<>> \in Paths
    BY VfsAssumption DEF Init, Directory, Paths
  <2> QED BY <2>1 DEF IsTree, DirIn
<1>3. IdxOK(idx)
  BY DEF Init, Mounted, EmptyIndex, Index, NoMap, IdxOK
<1>4. NodesOK
  BY VfsAssumption DEF Init, Mounted, NodesOK, Paths
<1>5. HandlesOK /\ TimesOK
  BY VfsAssumption DEF Init, Mounted, NoMap, HandlesOK, TimesOK
<1> QED BY <1>1, <1>2, <1>3, <1>4, <1>5 DEF VfsInv

\* Times that were there, and times that are now.
LEMMA TimesStep ==
    ASSUME TimesOK, MountOK, clock' = clock, DOMAIN nodeToPath \subseteq DOMAIN nodeToPath',
           \A p \in DOMAIN validated' :
              \/ p \in DOMAIN validated /\ validated'[p] = validated[p]
              \/ p \in Paths /\ validated'[p] = clock,
           \A e \in DOMAIN negative' :
              \/ e \in DOMAIN negative /\ negative'[e] = negative[e]
              \/ e[1] \in DOMAIN nodeToPath /\ negative'[e] = clock
    PROVE  TimesOK'
<1>1. clock \in 0..clock
  BY DEF MountOK
<1> QED BY <1>1 DEF TimesOK

LEMMA HandlesStep ==
    ASSUME HandlesOK, UNCHANGED handleVars, DOMAIN nodeToPath \subseteq DOMAIN nodeToPath'
    PROVE  HandlesOK'
BY DEF HandlesOK, handleVars

LEMMA OpenHandleStep ==
    ASSUME HandlesOK, NEW n, NEW p \in Paths, OpenHandle(n, p), n \in DOMAIN nodeToPath',
           DOMAIN nodeToPath \subseteq DOMAIN nodeToPath'
    PROVE  HandlesOK'
<1>1. /\ nextHandle \in Nat /\ nextHandle <= MaxHandle /\ nextHandle' = nextHandle + 1
      /\ nextHandle >= 1 /\ MaxHandle \in Nat
  BY VfsAssumption DEF OpenHandle, HandlesOK
<1>2. /\ DOMAIN handles' = DOMAIN handles \cup {nextHandle}
      /\ handles'[nextHandle] = [node |-> n, path |-> p]
      /\ \A h \in DOMAIN handles : h # nextHandle => handles'[h] = handles[h]
  BY DEF OpenHandle, Put
<1>3. nextHandle' \in 1..(MaxHandle + 1)
  BY <1>1
<1>4. ASSUME NEW h \in DOMAIN handles'
      PROVE  /\ h \in Nat /\ h < nextHandle'
             /\ handles'[h].path \in Paths /\ handles'[h].node \in DOMAIN nodeToPath'
  <2>1. CASE h = nextHandle
    BY <1>1, <1>2, <2>1
  <2>2. CASE h # nextHandle
    BY <1>1, <1>2, <2>2 DEF HandlesOK
  <2> QED BY <2>1, <2>2
<1> QED BY <1>3, <1>4 DEF HandlesOK

\* A child's path, for the nodes and names the calls are made with.
LEMMA ChildPath ==
    ASSUME NodesOK, NEW n \in Nodes, NEW name \in NamesBelow(n)
    PROVE  /\ nodeToPath[n] \in Paths /\ name \in Names
           /\ Append(nodeToPath[n], name) \in Paths
           /\ Append(nodeToPath[n], name) # <<>>
<1>1. nodeToPath[n] \in Paths /\ name \in Names /\ Append(nodeToPath[n], name) \in Paths
  BY DEF NodesOK, Nodes, NamesBelow
<1> QED BY <1>1, PathsSeq, AppendFacts

LEMMA RevalidatedOK ==
    ASSUME IdxOK(idx), NEW p \in Paths
    PROVE  IdxOK(Revalidated(p)) /\ IdxOK(GetattrIdx(p))
<1> DEFINE new == [q \in {p} |-> TagOf(remote[p])]
<1>1. DOMAIN new \subseteq Paths
  OBVIOUS
<1> HIDE DEF new
<1>2. IdxOK(StoreAttrs(idx, new))
  BY <1>1, StoreAttrsOK
<1>3. IdxOK(RemoveEntry(idx, p))
  BY RemoveEntryOK
<1> QED BY <1>2, <1>3 DEF Revalidated, GetattrIdx, new

LEMMA BrowseInv ==
    ASSUME VfsInv, Browse
    PROVE  VfsInv'
<1>0. MountOK /\ IsTree(remote) /\ IdxOK(idx) /\ NodesOK /\ HandlesOK /\ TimesOK
  BY DEF VfsInv
<1>1. Parents \subseteq Nodes
  BY DEF Parents
<1>2. ASSUME NEW n \in Parents, NEW name \in NamesBelow(n), LookupCached(n, name)
      PROVE  VfsInv'
  <2> DEFINE p == Append(nodeToPath[n], name)
  <2>1. p \in Paths
    BY <1>0, <1>1, ChildPath
  <2>2. Intern({p}) /\ UNCHANGED <<envVars, idx, handleVars, validated, negative>>
    BY <1>2 DEF LookupCached
  <2> HIDE DEF p
  <2>3. NodesOK' /\ DOMAIN nodeToPath \subseteq DOMAIN nodeToPath'
    BY <1>0, <2>1, <2>2, InternNodes, FS_Singleton
  <2>4. HandlesOK' /\ TimesOK'
    BY <1>0, <2>2, <2>3, HandlesStep DEF TimesOK, envVars
  <2> QED BY <1>0, <2>2, <2>3, <2>4 DEF VfsInv, MountOK, envVars, mountVars
<1>3. ASSUME NEW n \in Parents, NEW name \in NamesBelow(n), LookupFound(n, name)
      PROVE  VfsInv'
  <2> DEFINE p == Append(nodeToPath[n], name)
  <2>1. p \in Paths
    BY <1>0, <1>1, ChildPath
  <2>2. /\ Intern({p}) /\ UNCHANGED <<envVars, handleVars>>
        /\ idx' = Revalidated(p) /\ validated' = Put(validated, p, clock)
        /\ negative' = Drop(negative, {<<n, name>>})
    BY <1>3 DEF LookupFound
  <2> HIDE DEF p
  <2>3. NodesOK' /\ DOMAIN nodeToPath \subseteq DOMAIN nodeToPath'
    BY <1>0, <2>1, <2>2, InternNodes, FS_Singleton
  <2>4. HandlesOK' /\ IdxOK(idx')
    BY <1>0, <2>1, <2>2, <2>3, HandlesStep, RevalidatedOK
  <2>5. TimesOK'
    <3>1. \A q \in DOMAIN validated' :
              \/ q \in DOMAIN validated /\ validated'[q] = validated[q]
              \/ q \in Paths /\ validated'[q] = clock
      BY <2>1, <2>2 DEF Put
    <3>2. \A e \in DOMAIN negative' : e \in DOMAIN negative /\ negative'[e] = negative[e]
      BY <2>2 DEF Drop
    <3> QED BY <1>0, <2>2, <2>3, <3>1, <3>2, TimesStep DEF envVars
  <2> QED BY <1>0, <2>2, <2>3, <2>4, <2>5 DEF VfsInv, MountOK, envVars, mountVars
<1>4. ASSUME NEW n \in Parents, NEW name \in NamesBelow(n), LookupMissing(n, name)
      PROVE  VfsInv'
  <2> DEFINE p == Append(nodeToPath[n], name)
  <2>1. p \in Paths /\ n \in DOMAIN nodeToPath
    BY <1>0, <1>1, ChildPath DEF Nodes
  <2>2. /\ UNCHANGED <<envVars, nodeVars, handleVars, validated>>
        /\ idx' = Revalidated(p) /\ negative' = Put(negative, <<n, name>>, clock)
    BY <1>4 DEF LookupMissing
  <2> HIDE DEF p
  <2>3. NodesOK' /\ HandlesOK' /\ IdxOK(idx')
    BY <1>0, <2>1, <2>2, HandlesStep, RevalidatedOK DEF nodeVars, NodesOK
  <2>4. TimesOK'
    <3>1. \A e \in DOMAIN negative' :
              \/ e \in DOMAIN negative /\ negative'[e] = negative[e]
              \/ e[1] \in DOMAIN nodeToPath /\ negative'[e] = clock
      BY <2>1, <2>2 DEF Put
    <3> QED BY <1>0, <2>2, <3>1, TimesStep DEF envVars, nodeVars
  <2> QED BY <1>0, <2>2, <2>3, <2>4 DEF VfsInv, MountOK, envVars, mountVars
<1>5. ASSUME NEW n \in Nodes, Getattr(n)
      PROVE  VfsInv'
  <2> DEFINE p == nodeToPath[n]
  <2>1. p \in Paths
    BY <1>0 DEF NodesOK, Nodes
  <2>2. /\ UNCHANGED <<envVars, nodeVars, handleVars, negative>>
        /\ idx' = GetattrIdx(p) /\ validated' = GetattrValidated(p)
    BY <1>5 DEF Getattr
  <2> HIDE DEF p
  <2>3. NodesOK' /\ HandlesOK' /\ IdxOK(idx')
    BY <1>0, <2>1, <2>2, HandlesStep, RevalidatedOK DEF nodeVars, NodesOK
  <2>4. TimesOK'
    <3>1. \A q \in DOMAIN validated' :
              \/ q \in DOMAIN validated /\ validated'[q] = validated[q]
              \/ q \in Paths /\ validated'[q] = clock
      BY <2>1, <2>2 DEF GetattrValidated, Put
    <3> QED BY <1>0, <2>2, <3>1, TimesStep DEF envVars, nodeVars
  <2> QED BY <1>0, <2>2, <2>3, <2>4 DEF VfsInv, MountOK, envVars, mountVars
<1> QED BY <1>2, <1>3, <1>4, <1>5 DEF Browse

LEMMA ListInv ==
    ASSUME VfsInv, List
    PROVE  VfsInv'
<1>0. MountOK /\ IsTree(remote) /\ IdxOK(idx) /\ NodesOK /\ HandlesOK /\ TimesOK
  BY DEF VfsInv
<1>1. ASSUME NEW n \in Nodes, ReaddirCached(n)
      PROVE  VfsInv'
  <2> DEFINE p == nodeToPath[n]
             S == ListedChildren(p)
  <2>1. /\ Intern(S) /\ UNCHANGED <<envVars, idx, handleVars, validated, negative>>
        /\ p \in DOMAIN idx.listing
    BY <1>1 DEF ReaddirCached
  <2>2. S \subseteq Paths
    BY <1>0 DEF ListedChildren, IdxOK
  <2>3. IsFiniteSet(S)
    <3>1. S \subseteq {Append(p, name) : name \in Names}
      BY <1>0, <2>1 DEF ListedChildren, IdxOK
    <3> HIDE DEF S, p
    <3> QED BY <3>1, FiniteChildren
  <2> HIDE DEF S
  <2>4. NodesOK' /\ DOMAIN nodeToPath \subseteq DOMAIN nodeToPath'
    BY <1>0, <2>1, <2>2, <2>3, InternNodes
  <2>5. HandlesOK' /\ TimesOK'
    BY <1>0, <2>1, <2>4, HandlesStep DEF TimesOK, envVars
  <2> QED BY <1>0, <2>1, <2>4, <2>5 DEF VfsInv, MountOK, envVars, mountVars
<1>2. ASSUME NEW n \in Nodes, ReaddirRemote(n)
      PROVE  VfsInv'
  <2> DEFINE p == nodeToPath[n]
             kids == [name \in ChildrenOf(p) |-> TagOf(remote[Append(p, name)])]
             S == {Append(p, name) : name \in ChildrenOf(p)}
  <2>1. /\ idx' = RecordListing(idx, p, kids)
        /\ validated' = [q \in DOMAIN validated \cup S \cup {p} |->
                            IF q \in S \cup {p} THEN clock ELSE validated[q]]
        /\ Intern(S)
        /\ UNCHANGED <<envVars, handleVars, negative>>
    BY <1>2 DEF ReaddirRemote
  <2>2. /\ S \subseteq Paths /\ p \in Paths /\ DOMAIN kids \subseteq Names
        /\ \A name \in DOMAIN kids : Append(p, name) \in Paths
        /\ S \subseteq {Append(p, name) : name \in Names}
    BY <1>0 DEF ChildrenOf, IsTree, NodesOK, Nodes
  <2> HIDE DEF kids, S, p
  <2>3. NodesOK' /\ DOMAIN nodeToPath \subseteq DOMAIN nodeToPath'
    BY <1>0, <2>1, <2>2, FiniteChildren, InternNodes
  <2>4. HandlesOK' /\ IdxOK(idx')
    BY <1>0, <2>1, <2>2, <2>3, HandlesStep, RecordListingOK
  <2>5. TimesOK'
    <3>1. \A q \in DOMAIN validated' :
              \/ q \in DOMAIN validated /\ validated'[q] = validated[q]
              \/ q \in Paths /\ validated'[q] = clock
      BY <2>1, <2>2
    <3> QED BY <1>0, <2>1, <2>3, <3>1, TimesStep DEF envVars
  <2> QED BY <1>0, <2>1, <2>3, <2>4, <2>5 DEF VfsInv, MountOK, envVars, mountVars
<1> QED BY <1>1, <1>2 DEF List

LEMMA FileInv ==
    ASSUME VfsInv, ReadFiles \/ CloseFiles \/ WriteFiles
    PROVE  VfsInv'
<1>0. MountOK /\ IsTree(remote) /\ IdxOK(idx) /\ NodesOK /\ HandlesOK /\ TimesOK
  BY DEF VfsInv
<1>1. ASSUME NEW n \in Nodes, Open(n)
      PROVE  VfsInv'
  <2>1. nodeToPath[n] \in Paths /\ n \in DOMAIN nodeToPath
    BY <1>0 DEF NodesOK, Nodes
  <2>2. /\ OpenHandle(n, nodeToPath[n])
        /\ UNCHANGED <<envVars, idx, nodeVars, validated, negative>>
    BY <1>1 DEF Open
  <2>3. HandlesOK'
    BY <1>0, <2>1, <2>2, OpenHandleStep DEF nodeVars
  <2> QED BY <1>0, <2>2, <2>3
          DEF VfsInv, MountOK, NodesOK, TimesOK, envVars, mountVars, nodeVars
<1>2. ASSUME NEW h \in DOMAIN handles, NEW off, Read(h, off)
      PROVE  VfsInv'
  <2> DEFINE p == handles[h].path
             q == nodeToPath[handles[h].node]
             after == GetattrIdx(q)
  <2>1. p \in Paths /\ q \in Paths
    BY <1>0 DEF HandlesOK, NodesOK
  <2>2. /\ validated' = GetattrValidated(q)
        /\ UNCHANGED <<envVars, nodeVars, handleVars, negative>>
        /\ \/ idx' = RecordChunk(after, p, after.attrs[q], 1, off, Fetched(p, off))
           \/ idx' = after
    BY <1>2 DEF Read
  <2> HIDE DEF p, q
  <2>3. IdxOK(after)
    BY <1>0, <2>1, RevalidatedOK
  <2> HIDE DEF after
  <2>4. IdxOK(idx')
    BY <2>1, <2>2, <2>3, RecordChunkOK
  <2>5. NodesOK' /\ HandlesOK'
    BY <1>0, <2>2, HandlesStep DEF nodeVars, NodesOK
  <2>6. TimesOK'
    <3>1. \A x \in DOMAIN validated' :
              \/ x \in DOMAIN validated /\ validated'[x] = validated[x]
              \/ x \in Paths /\ validated'[x] = clock
      BY <2>1, <2>2 DEF GetattrValidated, Put
    <3> QED BY <1>0, <2>2, <3>1, TimesStep DEF envVars, nodeVars
  <2> QED BY <1>0, <2>2, <2>4, <2>5, <2>6 DEF VfsInv, MountOK, envVars, mountVars
<1>3. ASSUME NEW h \in DOMAIN handles, Release(h)
      PROVE  VfsInv'
  <2>1. /\ handles' = Drop(handles, {h})
        /\ UNCHANGED <<envVars, idx, nodeVars, nextHandle, validated, negative>>
    BY <1>3 DEF Release
  <2>2. HandlesOK'
    BY <1>0, <2>1 DEF HandlesOK, Drop, nodeVars
  <2> QED BY <1>0, <2>1, <2>2
          DEF VfsInv, MountOK, NodesOK, TimesOK, envVars, mountVars, nodeVars
<1>4. ASSUME NEW p \in Paths, NEW data, IsFile(p), remote' = Put(remote, p, FileOf(data, clock)),
             Written(p), UNCHANGED <<clock, up, mountVars, nodeVars, negative>>, HandlesOK'
      PROVE  VfsInv'
  <2>1. IsTree(remote')
    <3>1. p \in DOMAIN remote /\ remote[p].kind # "dir"
      BY <1>4 DEF IsFile
    <3> QED BY <1>0, <1>4, <3>1, TreeReplace
  <2>2. IdxOK(idx')
    BY <1>0, <1>4, InvalidateContentOK DEF Written
  <2>3. TimesOK'
    <3>1. \A x \in DOMAIN validated' : x \in DOMAIN validated /\ validated'[x] = validated[x]
      BY <1>4 DEF Written, Drop
    <3> QED BY <1>0, <1>4, <3>1, TimesStep DEF nodeVars
  <2> QED BY <1>0, <1>4, <2>1, <2>2, <2>3 DEF VfsInv, MountOK, NodesOK, mountVars, nodeVars
<1>5. ASSUME NEW n \in Nodes, OpenTruncate(n)
      PROVE  VfsInv'
  <2>1. nodeToPath[n] \in Paths /\ n \in DOMAIN nodeToPath
    BY <1>0 DEF NodesOK, Nodes
  <2>2. /\ OpenHandle(n, nodeToPath[n]) /\ Written(nodeToPath[n]) /\ IsFile(nodeToPath[n])
        /\ remote' = Put(remote, nodeToPath[n], FileOf(<<>>, clock))
        /\ UNCHANGED <<clock, up, mountVars, nodeVars, negative>>
    BY <1>5 DEF OpenTruncate
  <2>3. HandlesOK'
    BY <1>0, <2>1, <2>2, OpenHandleStep DEF nodeVars
  <2> QED BY <1>4, <2>1, <2>2, <2>3
<1>6. ASSUME NEW h \in DOMAIN handles, NEW off, NEW v, Write(h, off, v)
      PROVE  VfsInv'
  <2> DEFINE p == handles[h].path
             data == Overwrite(remote[p].data, off, v)
  <2>1. p \in Paths
    BY <1>0 DEF HandlesOK
  <2>2. /\ Written(p) /\ IsFile(p) /\ remote' = Put(remote, p, FileOf(data, clock))
        /\ UNCHANGED <<clock, up, mountVars, nodeVars, handleVars, negative>>
    BY <1>6 DEF Write
  <2> HIDE DEF p, data
  <2>3. HandlesOK'
    BY <1>0, <2>2, HandlesStep DEF nodeVars
  <2> QED BY <1>4, <2>1, <2>2, <2>3
<1> QED BY <1>1, <1>2, <1>3, <1>5, <1>6 DEF ReadFiles, CloseFiles, WriteFiles

LEMMA MakeInv ==
    ASSUME VfsInv, MakeAndRemove
    PROVE  VfsInv'
<1>0. MountOK /\ IsTree(remote) /\ IdxOK(idx) /\ NodesOK /\ HandlesOK /\ TimesOK
  BY DEF VfsInv
<1>1. Parents \subseteq Nodes
  BY DEF Parents
<1>2. ASSUME NEW n \in Parents, NEW name \in NamesBelow(n), NEW r, Made(n, name, r)
      PROVE  /\ MountOK' /\ IsTree(remote') /\ IdxOK(idx') /\ NodesOK' /\ TimesOK'
             /\ DOMAIN nodeToPath \subseteq DOMAIN nodeToPath'
             /\ Append(nodeToPath[n], name) \in DOMAIN pathToNode'
  <2> DEFINE d == nodeToPath[n]
             p == Append(d, name)
             new == [q \in {p} |-> TagOf(r)]
  <2>1. d \in Paths /\ name \in Names /\ p \in Paths
    BY <1>0, <1>1, ChildPath
  <2>2. /\ IsDir(d) /\ p \notin DOMAIN remote /\ remote' = Put(remote, p, r)
        /\ idx' = InvalidateChildren(StoreAttrs(idx, new), d)
        /\ validated' = Put(validated, p, clock)
        /\ negative' = Drop(negative, {<<n, name>>})
        /\ Intern({p})
        /\ UNCHANGED <<clock, up, mountVars>>
    BY <1>2 DEF Made
  <2>3. IsTree(remote')
    BY <1>0, <2>1, <2>2, TreeMake DEF IsDir, DirIn
  <2>4. DOMAIN new \subseteq Paths
    BY <2>1
  <2> HIDE DEF d, p, new
  <2>5. IdxOK(idx')
    BY <1>0, <2>2, <2>4, StoreAttrsOK, InvalidateChildrenOK
  <2>6. /\ NodesOK' /\ DOMAIN nodeToPath \subseteq DOMAIN nodeToPath'
        /\ {p} \subseteq DOMAIN pathToNode'
    BY <1>0, <2>1, <2>2, InternNodes, FS_Singleton
  <2>7. TimesOK'
    <3>1. \A q \in DOMAIN validated' :
              \/ q \in DOMAIN validated /\ validated'[q] = validated[q]
              \/ q \in Paths /\ validated'[q] = clock
      BY <2>1, <2>2 DEF Put
    <3>2. \A e \in DOMAIN negative' : e \in DOMAIN negative /\ negative'[e] = negative[e]
      BY <2>2 DEF Drop
    <3> QED BY <1>0, <2>2, <2>6, <3>1, <3>2, TimesStep
  <2> QED BY <1>0, <2>2, <2>3, <2>5, <2>6, <2>7 DEF MountOK, mountVars, p, d
<1>3. ASSUME NEW n \in Parents, NEW name \in NamesBelow(n), Create(n, name)
      PROVE  VfsInv'
  <2> DEFINE p == Append(nodeToPath[n], name)
  <2>1. Made(n, name, FileOf(<<>>, clock)) /\ OpenHandle(pathToNode'[p], p)
    BY <1>3 DEF Create
  <2>2. p \in Paths
    BY <1>0, <1>1, ChildPath
  <2>3. /\ MountOK' /\ IsTree(remote') /\ IdxOK(idx') /\ NodesOK' /\ TimesOK'
        /\ DOMAIN nodeToPath \subseteq DOMAIN nodeToPath' /\ p \in DOMAIN pathToNode'
    BY <1>2, <2>1
  <2> HIDE DEF p
  <2>4. pathToNode'[p] \in DOMAIN nodeToPath'
    BY <2>3 DEF NodesOK
  <2>5. HandlesOK'
    BY <1>0, <2>1, <2>2, <2>3, <2>4, OpenHandleStep
  <2> QED BY <2>3, <2>5 DEF VfsInv
<1>4. ASSUME NEW n \in Parents, NEW name \in NamesBelow(n), Mkdir(n, name)
      PROVE  VfsInv'
  <2>1. Made(n, name, Directory) /\ UNCHANGED handleVars
    BY <1>4 DEF Mkdir
  <2>2. /\ MountOK' /\ IsTree(remote') /\ IdxOK(idx') /\ NodesOK' /\ TimesOK'
        /\ DOMAIN nodeToPath \subseteq DOMAIN nodeToPath'
    BY <1>2, <2>1
  <2> QED BY <1>0, <2>1, <2>2, HandlesStep DEF VfsInv
<1>5. ASSUME NEW n \in Parents, NEW name \in NamesBelow(n), Remove(n, name)
      PROVE  VfsInv'
  <2> DEFINE d == nodeToPath[n]
             p == Append(d, name)
  <2>1. p \in Paths /\ p # <<>> /\ n \in DOMAIN nodeToPath
    BY <1>0, <1>1, ChildPath DEF Nodes
  <2>2. /\ ChildrenOf(p) = {} /\ remote' = Drop(remote, {p})
        /\ idx' = InvalidateChildren(RemoveEntry(idx, p), d)
        /\ negative' = Put(negative, <<n, name>>, clock)
        /\ UNCHANGED <<clock, up, mountVars, nodeVars, handleVars, validated>>
    BY <1>5 DEF Remove
  <2> HIDE DEF p, d
  <2>3. IsTree(remote')
    <3>1. \A x \in Names : Append(p, x) \notin DOMAIN remote
      BY <2>2 DEF ChildrenOf
    <3> QED BY <1>0, <2>1, <2>2, <3>1, TreeRemove
  <2>4. IdxOK(idx')
    BY <1>0, <2>2, RemoveEntryOK, InvalidateChildrenOK
  <2>5. NodesOK' /\ HandlesOK'
    BY <1>0, <2>2, HandlesStep DEF nodeVars, NodesOK
  <2>6. TimesOK'
    <3>1. \A e \in DOMAIN negative' :
              \/ e \in DOMAIN negative /\ negative'[e] = negative[e]
              \/ e[1] \in DOMAIN nodeToPath /\ negative'[e] = clock
      BY <2>1, <2>2 DEF Put
    <3> QED BY <1>0, <2>2, <3>1, TimesStep DEF nodeVars
  <2> QED BY <1>0, <2>2, <2>3, <2>4, <2>5, <2>6 DEF VfsInv, MountOK, mountVars
<1> QED BY <1>3, <1>4, <1>5 DEF MakeAndRemove

LEMMA RenameInv ==
    ASSUME VfsInv, Renames
    PROVE  VfsInv'
<1>0. MountOK /\ IsTree(remote) /\ IdxOK(idx) /\ NodesOK /\ HandlesOK /\ TimesOK
  BY DEF VfsInv
<1>1. PICK n \in Parents, m \in Parents :
         \E name \in NamesBelow(n), newName \in NamesBelow(m) : Rename(n, name, m, newName)
  BY DEF Renames
<1>2. PICK name \in NamesBelow(n), newName \in NamesBelow(m) : Rename(n, name, m, newName)
  BY <1>1
<1>3. n \in Nodes /\ m \in Nodes
  BY DEF Parents
<1> DEFINE d == nodeToPath[m]
           from == Append(nodeToPath[n], name)
           to == Append(d, newName)
<1>4. /\ from \in Paths /\ from # <<>> /\ to \in Paths /\ to # <<>>
      /\ d \in Paths /\ newName \in Names
  BY <1>0, <1>3, ChildPath
<1>5. /\ from \in DOMAIN remote /\ to \notin DOMAIN remote /\ IsDir(d) /\ ~Under(from, to)
      /\ DOMAIN Moved(from, to) \subseteq Paths /\ remote' = Moved(from, to)
      /\ idx' = InvalidateChildren(
                    InvalidateChildren(RenameEntry(idx, from, to), nodeToPath[n]), d)
      /\ MoveNode(from, to)
      /\ validated' = Drop(validated, {from})
      /\ negative' = Drop(Put(negative, <<n, name>>, clock), {<<m, newName>>})
      /\ UNCHANGED <<clock, up, mountVars, handleVars>>
  BY <1>2 DEF Rename, NegativeAfterRename
<1> HIDE DEF from, d
<1>6. IsTree(remote')
  BY <1>0, <1>4, <1>5, TreeRename DEF IsDir, DirIn
<1> HIDE DEF to
<1>7. IdxOK(idx')
  BY <1>0, <1>4, <1>5, RenameEntryOK, InvalidateChildrenOK
<1>8. NodesOK' /\ DOMAIN nodeToPath' = DOMAIN nodeToPath
  BY <1>0, <1>4, <1>5, MoveNodes
<1>9. HandlesOK'
  BY <1>0, <1>5, <1>8, HandlesStep
<1>10. TimesOK'
  <2>1. \A x \in DOMAIN validated' : x \in DOMAIN validated /\ validated'[x] = validated[x]
    BY <1>5 DEF Drop
  <2>2. \A e \in DOMAIN negative' :
            \/ e \in DOMAIN negative /\ negative'[e] = negative[e]
            \/ e[1] \in DOMAIN nodeToPath /\ negative'[e] = clock
    BY <1>3, <1>5 DEF Drop, Put, Nodes
  <2> QED BY <1>0, <1>5, <1>8, <2>1, <2>2, TimesStep
<1> QED BY <1>0, <1>5, <1>6, <1>7, <1>8, <1>9, <1>10 DEF VfsInv, MountOK, mountVars

LEMMA SetattrInv ==
    ASSUME VfsInv, Setattrs
    PROVE  VfsInv'
<1>0. MountOK /\ IsTree(remote) /\ IdxOK(idx) /\ NodesOK /\ HandlesOK /\ TimesOK
  BY DEF VfsInv
<1>1. PICK n \in Nodes : Setattr(n)
  BY DEF Setattrs
<1> DEFINE p == nodeToPath[n]
<1>2. p \in Paths
  BY <1>0 DEF NodesOK, Nodes
<1>3. /\ p \in DOMAIN remote /\ validated' = Put(validated, p, clock)
      /\ UNCHANGED <<clock, up, mountVars, nodeVars, handleVars, negative>>
  BY <1>1 DEF Setattr
<1>4. PICK r \in SetattrResults(p) :
         remote' = Put(remote, p, r) /\ idx' = StoreAttrs(idx, [q \in {p} |-> TagOf(r)])
  BY <1>1 DEF Setattr
<1> HIDE DEF p
<1>5. remote[p].kind = "dir" => r.kind = "dir"
  BY <1>3 DEF SetattrResults, IsDir
<1>6. IsTree(remote')
  BY <1>0, <1>3, <1>4, <1>5, TreeReplace
<1>7. IdxOK(idx')
  <2> DEFINE new == [q \in {p} |-> TagOf(r)]
  <2>1. DOMAIN new \subseteq Paths
    BY <1>2
  <2> HIDE DEF new
  <2>2. idx' = StoreAttrs(idx, new)
    BY <1>4 DEF new
  <2> QED BY <1>0, <2>1, <2>2, StoreAttrsOK
<1>8. NodesOK' /\ HandlesOK'
  BY <1>0, <1>3, HandlesStep DEF nodeVars, NodesOK
<1>9. TimesOK'
  <2>1. \A x \in DOMAIN validated' :
            \/ x \in DOMAIN validated /\ validated'[x] = validated[x]
            \/ x \in Paths /\ validated'[x] = clock
    BY <1>2, <1>3 DEF Put
  <2> QED BY <1>0, <1>3, <2>1, TimesStep DEF nodeVars
<1> QED BY <1>0, <1>3, <1>6, <1>7, <1>8, <1>9 DEF VfsInv, MountOK, mountVars

LEMMA NextVfs ==
    ASSUME VfsInv, [Next]_vars
    PROVE  VfsInv'
<1>0. MountOK /\ IsTree(remote) /\ IdxOK(idx) /\ NodesOK /\ HandlesOK /\ TimesOK
  BY DEF VfsInv
<1>1. CASE LinkChange
  BY <1>0, <1>1 DEF LinkChange, VfsInv, MountOK, NodesOK, HandlesOK, TimesOK,
                    mountVars, nodeVars, handleVars
<1>2. CASE Tick
  <2>1. /\ clock \in Nat /\ clock' = clock + 1 /\ clock < MaxClock /\ MaxClock \in Nat
        /\ UNCHANGED <<remote, up, mountVars, idx, nodeVars, handleVars, validated, negative>>
    BY <1>0, <1>2, VfsAssumption DEF Tick, MountOK
  <2>2. \A t \in 0..clock : t \in 0..clock'
    BY <2>1
  <2>3. TimesOK'
    BY <1>0, <2>1, <2>2 DEF TimesOK, nodeVars
  <2>4. MountOK'
    BY <1>0, <2>1 DEF MountOK, mountVars
  <2> QED BY <1>0, <2>1, <2>3, <2>4 DEF VfsInv, NodesOK, HandlesOK, nodeVars, handleVars
<1>3. CASE UNCHANGED vars
  BY <1>0, <1>3 DEF vars, VfsInv, MountOK, NodesOK, HandlesOK, TimesOK
<1> QED BY <1>1, <1>2, <1>3, BrowseInv, ListInv, FileInv, MakeInv, RenameInv, SetattrInv
        DEF Next

\* The tables stay consistent and the server's tree stays a tree, for trees,
\* clocks and tables of any size and for every choice of operations.
THEOREM VfsInvariant == Spec => []VfsInv
<1>1. Init => VfsInv
  BY InitVfs
<1>2. VfsInv /\ [Next]_vars => VfsInv'
  BY NextVfs
<1> QED BY <1>1, <1>2, PTL DEF Spec

\* CacheVfs: the tables of State hold paths, nodes and times of this mount.
THEOREM VfsTypes == Spec => []TypeOK
<1>1. VfsInv => TypeOK
  BY VfsInvImplies
<1> QED BY <1>1, VfsInvariant, PTL

\* State::intern and State::rename_path keep the two maps inverse: a path's node
\* leads back to it, the root keeps its node, an open file's node stays known.
THEOREM NodeTableInvariant == Spec => []NodeTable
<1>1. VfsInv => NodeTable
  BY VfsInvImplies
<1> QED BY <1>1, VfsInvariant, PTL
=============================================================================
