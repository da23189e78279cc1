---------------------------- MODULE CacheProofs -----------------------------
(***************************************************************************)
(* Proofs about what the cache serves: of CacheVfs, a mount that is the    *)
(* server's only client, and of SharedVfs, what survives other clients and *)
(* remounts.                                                               *)
(***************************************************************************)
EXTENDS SharedVfs, VfsProofs

-----------------------------------------------------------------------------
(* Without renames everything the cache holds is true of the server.       *)

\* Entries are of paths that are there; their attributes are the server's,
\* unless a write took the validation away.
AttrsTrueIn(i, r, v) ==
    /\ DOMAIN i.attrs \subseteq DOMAIN r
    /\ \A p \in DOMAIN i.attrs :
          r[p].kind = "dir" \/ p \in DOMAIN v => i.attrs[p] = TagOf(r[p])

\* Listings are of directories, name what is there, and have its attributes.
ListingsTrueIn(i, r) ==
    \A p \in DOMAIN i.listing :
        /\ DirIn(r, p)
        /\ i.listing[p] = {n \in Names : Append(p, n) \in DOMAIN r}
        /\ \A n \in i.listing[p] : Append(p, n) \in DOMAIN i.attrs

\* Content is of files, of the version the server has, and has its bytes.
ContentTrueIn(i, r) ==
    \A p \in DOMAIN i.content :
        /\ p \in DOMAIN r /\ r[p].kind = "file"
        /\ i.content[p].tag = TagOf(r[p])
        /\ \A c \in DOMAIN i.content[p].chunks :
              /\ c \in Nat /\ c < Len(r[p].data)
              /\ i.content[p].chunks[c] = r[p].data[c + 1]

IndexTrue(i, r, v) == AttrsTrueIn(i, r, v) /\ ListingsTrueIn(i, r) /\ ContentTrueIn(i, r)

\* Every node is the node of its path, and an open file's path is its node's.
NodesUnique ==
    \A n \in DOMAIN nodeToPath :
        nodeToPath[n] \in DOMAIN pathToNode /\ pathToNode[nodeToPath[n]] = n

HandlePaths == \A h \in DOMAIN handles : handles[h].path = nodeToPath[handles[h].node]

\* What was found missing is missing.
NegativesTrue ==
    \A e \in DOMAIN negative :
        /\ e = <<e[1], e[2]>> /\ e[2] \in Names
        /\ Append(nodeToPath[e[1]], e[2]) \notin DOMAIN remote

TruthInv ==
    /\ IndexTrue(idx, remote, validated)
    /\ NodesUnique /\ HandlePaths
    /\ NegativesTrue
    /\ Offline => DOMAIN idx.attrs = {}

LEMMA AppendInjective ==
    ASSUME NEW a \in Seq(Names), NEW b \in Seq(Names), NEW x \in Names, NEW y \in Names,
           Append(a, x) = Append(b, y)
    PROVE  a = b /\ x = y
<1>0. PICK c : c = Append(a, x)
  OBVIOUS
<1>1. Len(a) = Len(b) /\ Len(a) \in Nat
  BY AppendFacts
<1>2. Prefix(c, Len(a)) = a /\ c[Len(a) + 1] = x
  BY <1>0, AppendFacts
<1>3. Prefix(c, Len(b)) = b /\ c[Len(b) + 1] = y
  BY <1>0, AppendFacts
<1> QED BY <1>1, <1>2, <1>3

\* stat's answers are stored.
LEMMA StoreAttrsTrue ==
    ASSUME NEW i, NEW r, NEW v, IndexTrue(i, r, v), NEW new, NEW w,
           DOMAIN new \subseteq DOMAIN r, \A p \in DOMAIN new : new[p] = TagOf(r[p]),
           \A p \in DOMAIN w : p \in DOMAIN v \/ p \in DOMAIN new \/ DirIn(r, p)
    PROVE  IndexTrue(StoreAttrs(i, new), r, w)
<1> DEFINE j == StoreAttrs(i, new)
<1>1. /\ DOMAIN j.attrs = DOMAIN i.attrs \cup DOMAIN new
      /\ \A p \in DOMAIN new : j.attrs[p] = new[p]
      /\ \A p \in DOMAIN i.attrs : p \notin DOMAIN new => j.attrs[p] = i.attrs[p]
      /\ j.listing = i.listing
      /\ DOMAIN j.content \subseteq DOMAIN i.content
      /\ \A p \in DOMAIN j.content : j.content[p] = i.content[p]
  BY DEF StoreAttrs, Index, Drop
<1> HIDE DEF j
<1>2. AttrsTrueIn(j, r, w)
  BY <1>1 DEF IndexTrue, AttrsTrueIn, DirIn
<1>3. ListingsTrueIn(j, r)
  BY <1>1 DEF IndexTrue, ListingsTrueIn
<1>4. ContentTrueIn(j, r)
  BY <1>1 DEF IndexTrue, ContentTrueIn
<1> QED BY <1>2, <1>3, <1>4 DEF IndexTrue, j

\* remove of a path the server does not have: the cache has nothing of it.
LEMMA RemoveMissingTrue ==
    ASSUME NEW i, NEW r, NEW v, IndexTrue(i, r, v), NEW p, p \notin DOMAIN r
    PROVE  /\ IndexTrue(RemoveEntry(i, p), r, v)
           /\ DOMAIN RemoveEntry(i, p).attrs = DOMAIN i.attrs
<1> DEFINE j == RemoveEntry(i, p)
<1>1. p \notin DOMAIN i.attrs /\ p \notin DOMAIN i.listing /\ p \notin DOMAIN i.content
  BY DEF IndexTrue, AttrsTrueIn, ListingsTrueIn, ContentTrueIn, DirIn
<1>2. /\ DOMAIN j.attrs = DOMAIN i.attrs /\ DOMAIN j.listing = DOMAIN i.listing
      /\ DOMAIN j.content = DOMAIN i.content
      /\ \A q \in DOMAIN i.attrs : j.attrs[q] = i.attrs[q]
      /\ \A q \in DOMAIN i.listing : j.listing[q] = i.listing[q]
      /\ \A q \in DOMAIN i.content : j.content[q] = i.content[q]
  BY <1>1 DEF RemoveEntry, Index, Drop
<1> HIDE DEF j
<1>3. AttrsTrueIn(j, r, v)
  BY <1>2 DEF IndexTrue, AttrsTrueIn
<1>4. ListingsTrueIn(j, r)
  BY <1>2 DEF IndexTrue, ListingsTrueIn
<1>5. ContentTrueIn(j, r)
  BY <1>2 DEF IndexTrue, ContentTrueIn
<1> QED BY <1>2, <1>3, <1>4, <1>5 DEF IndexTrue, j

\* A file's bytes are changed at the server, its content is dropped and its
\* attributes are no longer valid.
LEMMA WrittenTrue ==
    ASSUME NEW i, NEW r, NEW v, IndexTrue(i, r, v), NEW p \in DOMAIN r, NEW x,
           r[p].kind = "file", x.kind = "file"
    PROVE  IndexTrue(InvalidateContent(i, p), Put(r, p, x), Drop(v, {p}))
<1> DEFINE j == InvalidateContent(i, p)
           s == Put(r, p, x)
           w == Drop(v, {p})
<1>1. /\ j.attrs = i.attrs /\ j.listing = i.listing
      /\ DOMAIN j.content = DOMAIN i.content \ {p}
      /\ \A q \in DOMAIN j.content : j.content[q] = i.content[q]
  BY DEF InvalidateContent, Index, Drop
<1>2. /\ DOMAIN s = DOMAIN r /\ s[p] = x
      /\ \A q \in DOMAIN r : q # p => s[q] = r[q]
      /\ DOMAIN w = DOMAIN v \ {p}
  BY DEF Put, Drop
<1> HIDE DEF j, s, w
<1>3. AttrsTrueIn(j, s, w)
  BY <1>1, <1>2 DEF IndexTrue, AttrsTrueIn
<1>4. ListingsTrueIn(j, s)
  BY <1>1, <1>2 DEF IndexTrue, ListingsTrueIn, DirIn
<1>5. ContentTrueIn(j, s)
  BY <1>1, <1>2 DEF IndexTrue, ContentTrueIn
<1> QED BY <1>3, <1>4, <1>5 DEF IndexTrue, j, s, w

\* Something is made at the server: its attributes are stored, and its parent's
\* listing is dropped.
LEMMA MadeTrue ==
    ASSUME NEW i, NEW r, NEW v, IndexTrue(i, r, v), IdxOK(i), NEW d \in Paths,
           NEW n \in Names, Append(d, n) \notin DOMAIN r, NEW x
    PROVE  LET p == Append(d, n)
           IN  IndexTrue(InvalidateChildren(StoreAttrs(i, [q \in {p} |-> TagOf(x)]), d),
                         Put(r, p, x), Put(v, p, clock))
<1>0. PICK p : p = Append(d, n)
  OBVIOUS
<1> DEFINE new == [q \in {p} |-> TagOf(x)]
           j == InvalidateChildren(StoreAttrs(i, new), d)
           s == Put(r, p, x)
           w == Put(v, p, clock)
<1>1. p \notin DOMAIN i.attrs /\ p \notin DOMAIN i.listing /\ p \notin DOMAIN i.content
  BY <1>0 DEF IndexTrue, AttrsTrueIn, ListingsTrueIn, ContentTrueIn, DirIn
<1>2. /\ DOMAIN j.attrs = DOMAIN i.attrs \cup {p} /\ j.attrs[p] = TagOf(x)
      /\ \A q \in DOMAIN i.attrs : q # p => j.attrs[q] = i.attrs[q]
      /\ DOMAIN j.listing = DOMAIN i.listing \ {d}
      /\ \A q \in DOMAIN j.listing : j.listing[q] = i.listing[q]
      /\ DOMAIN j.content \subseteq DOMAIN i.content
      /\ \A q \in DOMAIN j.content : j.content[q] = i.content[q]
  BY DEF InvalidateChildren, StoreAttrs, Index, Drop
<1>3. /\ DOMAIN s = DOMAIN r \cup {p} /\ s[p] = x
      /\ \A q \in DOMAIN r : q # p => s[q] = r[q]
      /\ DOMAIN w = DOMAIN v \cup {p}
  BY DEF Put
<1> HIDE DEF j, s, w
<1>4. AttrsTrueIn(j, s, w)
  BY <1>1, <1>2, <1>3 DEF IndexTrue, AttrsTrueIn
<1>5. ListingsTrueIn(j, s)
  <2> SUFFICES ASSUME NEW q \in DOMAIN j.listing
               PROVE  /\ DirIn(s, q)
                      /\ j.listing[q] = {m \in Names : Append(q, m) \in DOMAIN s}
                      /\ \A m \in j.listing[q] : Append(q, m) \in DOMAIN j.attrs
    BY DEF ListingsTrueIn
  <2>1. q \in DOMAIN i.listing /\ q # d /\ q \in Seq(Names) /\ d \in Seq(Names) /\ q # p
    BY <1>1, <1>2, PathsSeq DEF IdxOK
  <2>2. \A m \in Names : Append(q, m) # p
    BY <1>0, <2>1, AppendInjective
  <2>3. DirIn(s, q)
    BY <1>3, <2>1 DEF IndexTrue, ListingsTrueIn, DirIn
  <2> QED BY <1>2, <1>3, <2>1, <2>2, <2>3 DEF IndexTrue, ListingsTrueIn
<1>6. ContentTrueIn(j, s)
  BY <1>1, <1>2, <1>3 DEF IndexTrue, ContentTrueIn
<1> QED BY <1>0, <1>4, <1>5, <1>6 DEF IndexTrue, j, s, w

\* Something is removed at the server and with it its entry, and its parent's
\* listing is dropped.
LEMMA RemovedTrue ==
    ASSUME NEW i, NEW r, NEW v, IndexTrue(i, r, v), IdxOK(i), NEW d \in Paths, NEW n \in Names
    PROVE  LET p == Append(d, n)
           IN  IndexTrue(InvalidateChildren(RemoveEntry(i, p), d), Drop(r, {p}), v)
<1>0. PICK p : p = Append(d, n)
  OBVIOUS
<1> DEFINE j == InvalidateChildren(RemoveEntry(i, p), d)
           s == Drop(r, {p})
<1>1. /\ DOMAIN j.attrs = DOMAIN i.attrs \ {p}
      /\ \A q \in DOMAIN j.attrs : j.attrs[q] = i.attrs[q]
      /\ DOMAIN j.listing = DOMAIN i.listing \ {p, d}
      /\ \A q \in DOMAIN j.listing : j.listing[q] = i.listing[q]
      /\ DOMAIN j.content = DOMAIN i.content \ {p}
      /\ \A q \in DOMAIN j.content : j.content[q] = i.content[q]
  BY DEF InvalidateChildren, RemoveEntry, Index, Drop
<1>2. DOMAIN s = DOMAIN r \ {p} /\ \A q \in DOMAIN s : s[q] = r[q]
  BY DEF Drop
<1> HIDE DEF j, s
<1>3. AttrsTrueIn(j, s, v)
  BY <1>1, <1>2 DEF IndexTrue, AttrsTrueIn
<1>4. ListingsTrueIn(j, s)
  <2> SUFFICES ASSUME NEW q \in DOMAIN j.listing
               PROVE  /\ DirIn(s, q)
                      /\ j.listing[q] = {m \in Names : Append(q, m) \in DOMAIN s}
                      /\ \A m \in j.listing[q] : Append(q, m) \in DOMAIN j.attrs
    BY DEF ListingsTrueIn
  <2>1. q \in DOMAIN i.listing /\ q # d /\ q \in Seq(Names) /\ d \in Seq(Names) /\ q # p
    BY <1>1, PathsSeq DEF IdxOK
  <2>2. \A m \in Names : Append(q, m) # p
    BY <1>0, <2>1, AppendInjective
  <2>3. DirIn(s, q)
    BY <1>2, <2>1 DEF IndexTrue, ListingsTrueIn, DirIn
  <2> QED BY <1>1, <1>2, <2>1, <2>2, <2>3 DEF IndexTrue, ListingsTrueIn
<1>5. ContentTrueIn(j, s)
  BY <1>1, <1>2 DEF IndexTrue, ContentTrueIn
<1> QED BY <1>0, <1>3, <1>4, <1>5 DEF IndexTrue, j, s

\* setattr of a version with the same tag leaves the bytes alone.
LEMMA SetattrResultsFacts ==
    ASSUME NEW p \in DOMAIN remote, NEW x \in SetattrResults(p)
    PROVE  /\ remote[p].kind = "dir" => x = remote[p]
           /\ remote[p].kind # "dir" =>
                 /\ x.kind = "file"
                 /\ TagOf(x) = TagOf(remote[p]) =>
                       \A k \in Nat : k < Len(remote[p].data) => x.data[k + 1] = remote[p].data[k + 1]
<1>1. CASE IsDir(p)
  BY <1>1 DEF SetattrResults, IsDir
<1>2. CASE ~IsDir(p)
  <2> DEFINE data == remote[p].data
  <2>1. CASE \E s \in 0..MaxLen : x = FileOf(Resize(data, s), clock)
    <3>1. PICK s \in 0..MaxLen : x = FileOf(Resize(data, s), clock)
      BY <2>1
    <3>2. x.kind = "file" /\ x.data = Resize(data, s)
      BY <3>1 DEF FileOf
    <3>3. s \in Nat
      BY VfsAssumption
    <3> HIDE DEF data
    <3>4. Len(Resize(data, s)) = s
      BY <3>3 DEF Resize
    <3>5. ASSUME TagOf(x) = TagOf(remote[p]), NEW k \in Nat, k < Len(data)
          PROVE  x.data[k + 1] = data[k + 1]
      <4>1. Len(data) = s
        BY <3>2, <3>4, <3>5 DEF TagOf, data
      <4> QED BY <3>2, <3>3, <3>5, <4>1 DEF Resize
    <3> QED BY <1>2, <3>2, <3>5 DEF IsDir, data
  <2>2. CASE \E t \in 0..clock : x = FileOf(data, t)
    BY <1>2, <2>2 DEF FileOf, IsDir
  <2> QED BY <1>2, <2>1, <2>2 DEF SetattrResults
<1> QED BY <1>1, <1>2

LEMMA SetattrTrue ==
    ASSUME NEW i, NEW v, IndexTrue(i, remote, v), NEW p \in DOMAIN remote,
           NEW x \in SetattrResults(p)
    PROVE  IndexTrue(StoreAttrs(i, [q \in {p} |-> TagOf(x)]), Put(remote, p, x), Put(v, p, clock))
<1> DEFINE new == [q \in {p} |-> TagOf(x)]
           j == StoreAttrs(i, new)
           s == Put(remote, p, x)
           w == Put(v, p, clock)
<1>1. /\ DOMAIN j.attrs = DOMAIN i.attrs \cup {p} /\ j.attrs[p] = TagOf(x)
      /\ \A q \in DOMAIN i.attrs : q # p => j.attrs[q] = i.attrs[q]
      /\ j.listing = i.listing
      /\ DOMAIN j.content \subseteq DOMAIN i.content
      /\ \A q \in DOMAIN j.content : j.content[q] = i.content[q]
      /\ p \in DOMAIN j.content => i.content[p].tag = TagOf(x)
  BY DEF StoreAttrs, StalePaths, Index, Drop
<1>2. /\ DOMAIN s = DOMAIN remote /\ s[p] = x
      /\ \A q \in DOMAIN remote : q # p => s[q] = remote[q]
      /\ DOMAIN w = DOMAIN v \cup {p}
  BY DEF Put
<1> HIDE DEF j, s, w
<1>3. AttrsTrueIn(j, s, w)
  BY <1>1, <1>2 DEF IndexTrue, AttrsTrueIn
<1>4. ListingsTrueIn(j, s)
  BY <1>1, <1>2, SetattrResultsFacts DEF IndexTrue, ListingsTrueIn, DirIn
<1>5. ContentTrueIn(j, s)
  <2> SUFFICES ASSUME NEW q \in DOMAIN j.content
               PROVE  /\ q \in DOMAIN s /\ s[q].kind = "file"
                      /\ j.content[q].tag = TagOf(s[q])
                      /\ \A c \in DOMAIN j.content[q].chunks :
                            /\ c \in Nat /\ c < Len(s[q].data)
                            /\ j.content[q].chunks[c] = s[q].data[c + 1]
    BY DEF ContentTrueIn
  <2>1. CASE q # p
    BY <1>1, <1>2, <2>1 DEF IndexTrue, ContentTrueIn
  <2>2. CASE q = p
    <3>1. /\ remote[p].kind = "file" /\ i.content[p].tag = TagOf(remote[p])
          /\ i.content[p].tag = TagOf(x)
          /\ \A c \in DOMAIN i.content[p].chunks :
                /\ c \in Nat /\ c < Len(remote[p].data)
                /\ i.content[p].chunks[c] = remote[p].data[c + 1]
      BY <1>1, <2>2 DEF IndexTrue, ContentTrueIn
    <3>2. Len(x.data) = Len(remote[p].data)
      BY <3>1 DEF TagOf
    <3>3. x.kind = "file" /\ \A k \in Nat : k < Len(remote[p].data) => x.data[k + 1] = remote[p].data[k + 1]
      BY <3>1, SetattrResultsFacts
    <3> QED BY <1>1, <1>2, <2>2, <3>1, <3>2, <3>3
  <2> QED BY <2>1, <2>2
<1> QED BY <1>3, <1>4, <1>5 DEF IndexTrue, j, s, w

\* A chunk is fetched under the attributes the server has.
LEMMA RecordChunkTrue ==
    ASSUME NEW i, NEW v, IndexTrue(i, remote, v), NEW p \in DOMAIN i.attrs, IsFile(p),
           i.attrs[p] = TagOf(remote[p]), NEW off \in Nat, off < i.attrs[p][1]
    PROVE  LET j == RecordChunk(i, p, i.attrs[p], 1, off, Fetched(p, off))
           IN  IndexTrue(j, remote, v) /\ DOMAIN j.attrs = DOMAIN i.attrs
<1> DEFINE tag == i.attrs[p]
           o == Fetched(p, off)
           kept == IF ContentMatches(i, p, tag, 1) THEN i.content[p].chunks ELSE NoMap
           j == RecordChunk(i, p, tag, 1, off, o)
<1>1. tag[1] = Len(remote[p].data) /\ o = remote[p].data[off + 1]
  BY DEF TagOf, Fetched
<1>2. /\ j.attrs = i.attrs /\ j.listing = i.listing
      /\ j.content = Put(i.content, p, ContentRef(tag, 1, Put(kept, off, o)))
  BY DEF RecordChunk, Index
<1>3. \A c \in DOMAIN kept : c \in Nat /\ c < Len(remote[p].data) /\ kept[c] = remote[p].data[c + 1]
  BY DEF IndexTrue, ContentTrueIn, ContentMatches, NoMap
<1> HIDE DEF j, kept, o
<1>4. \A c \in DOMAIN Put(kept, off, o) :
          c \in Nat /\ c < Len(remote[p].data) /\ Put(kept, off, o)[c] = remote[p].data[c + 1]
  BY <1>1, <1>3 DEF Put
<1>5. /\ DOMAIN j.content = DOMAIN i.content \cup {p}
      /\ j.content[p].tag = tag /\ j.content[p].chunks = Put(kept, off, o)
      /\ \A q \in DOMAIN i.content : q # p => j.content[q] = i.content[q]
  <2>1. PICK ref : ref = ContentRef(tag, 1, Put(kept, off, o))
    OBVIOUS
  <2>2. ref.tag = tag /\ ref.chunks = Put(kept, off, o)
    BY <2>1 DEF ContentRef
  <2> QED BY <1>2, <2>1, <2>2 DEF Put
<1>6. ContentTrueIn(j, remote)
  BY <1>4, <1>5 DEF IndexTrue, ContentTrueIn, IsFile
<1>7. AttrsTrueIn(j, remote, v) /\ ListingsTrueIn(j, remote)
  BY <1>2 DEF IndexTrue, AttrsTrueIn, ListingsTrueIn
<1> QED BY <1>2, <1>6, <1>7 DEF IndexTrue, j, o

-----------------------------------------------------------------------------
(* The steps.                                                              *)

\* The old nodes keep their paths.
KeepsNodes ==
    /\ DOMAIN nodeToPath \subseteq DOMAIN nodeToPath'
    /\ \A n \in DOMAIN nodeToPath : nodeToPath'[n] = nodeToPath[n]

LEMMA InternUnique ==
    ASSUME NodesOK, NodesUnique, NEW S \in SUBSET Paths, IsFiniteSet(S), Intern(S)
    PROVE  /\ NodesUnique' /\ KeepsNodes
           /\ \A p \in S : /\ p \in DOMAIN pathToNode'
                           /\ pathToNode'[p] \in DOMAIN nodeToPath'
                           /\ nodeToPath'[pathToNode'[p]] = p
<1>0. nextNode \in Nat
  BY VfsAssumption DEF NodesOK
<1>1. /\ NodesOK' /\ DOMAIN nodeToPath \subseteq DOMAIN nodeToPath'
      /\ \A n \in DOMAIN nodeToPath : nodeToPath'[n] = nodeToPath[n]
      /\ S \subseteq DOMAIN pathToNode'
  BY InternNodes
<1> DEFINE new == S \ DOMAIN pathToNode
<1>2. /\ \A p \in DOMAIN pathToNode : p \in DOMAIN pathToNode' /\ pathToNode'[p] = pathToNode[p]
      /\ \A p \in new : p \in DOMAIN pathToNode' /\ nodeToPath'[pathToNode'[p]] = p
      /\ \A n \in DOMAIN nodeToPath' :
            \/ \E p \in new : pathToNode'[p] = n
            \/ n \in DOMAIN nodeToPath /\ nodeToPath'[n] = nodeToPath[n]
  BY <1>0, InternFacts
<1>3. NodesUnique'
  BY <1>2 DEF NodesUnique
<1> QED BY <1>1, <1>3 DEF KeepsNodes, NodesOK

LEMMA HandlePathsStep ==
    ASSUME HandlesOK, HandlePaths, KeepsNodes, UNCHANGED handles
    PROVE  HandlePaths'
BY DEF HandlesOK, HandlePaths, KeepsNodes

LEMMA OpenHandlePaths ==
    ASSUME HandlesOK, HandlePaths, KeepsNodes, NEW n, NEW p, OpenHandle(n, p),
           nodeToPath'[n] = p
    PROVE  HandlePaths'
<1>1. /\ DOMAIN handles' = DOMAIN handles \cup {nextHandle}
      /\ handles'[nextHandle] = [node |-> n, path |-> p]
      /\ \A h \in DOMAIN handles : h # nextHandle => handles'[h] = handles[h]
  BY DEF OpenHandle, Put
<1> QED BY <1>1 DEF HandlesOK, HandlePaths, KeepsNodes

\* No name is newly found missing, and nothing is made.
LEMMA NegativesStep ==
    ASSUME TimesOK, NegativesTrue, KeepsNodes, DOMAIN negative' \subseteq DOMAIN negative,
           DOMAIN remote' \subseteq DOMAIN remote
    PROVE  NegativesTrue'
BY DEF TimesOK, NegativesTrue, KeepsNodes

\* A name is found missing, or removed.
LEMMA NegativesMissing ==
    ASSUME TimesOK, NegativesTrue, UNCHANGED nodeToPath, NEW n, NEW name \in Names,
           negative' = Put(negative, <<n, name>>, clock),
           DOMAIN remote' \subseteq DOMAIN remote,
           Append(nodeToPath[n], name) \notin DOMAIN remote'
    PROVE  NegativesTrue'
<1> SUFFICES ASSUME NEW e \in DOMAIN negative'
             PROVE  /\ e = <<e[1], e[2]>> /\ e[2] \in Names
                    /\ Append(nodeToPath[e[1]], e[2]) \notin DOMAIN remote'
  BY DEF NegativesTrue
<1>1. e \in DOMAIN negative \/ e = <<n, name>>
  BY DEF Put
<1>2. CASE e \in DOMAIN negative
  BY <1>2 DEF NegativesTrue
<1>3. CASE e = <<n, name>>
  BY <1>3
<1> QED BY <1>1, <1>2, <1>3

\* getattr leaves the truth, and is true of what it asked for.
LEMMA GetattrTrue ==
    ASSUME IndexTrue(idx, remote, validated), NEW p
    PROVE  /\ IndexTrue(GetattrIdx(p), remote, GetattrValidated(p))
           /\ Offline => GetattrIdx(p) = idx
           /\ Online /\ p \in DOMAIN GetattrIdx(p).attrs => GetattrIdx(p).attrs[p] = TagOf(remote[p])
<1> DEFINE new == [q \in {p} |-> TagOf(remote[p])]
<1>1. CASE ~Stat(p)
  <2>1. GetattrIdx(p) = idx /\ GetattrValidated(p) = validated
    BY <1>1 DEF GetattrIdx, GetattrValidated
  <2>2. Online => Cached(p) /\ p \in DOMAIN validated
    BY <1>1 DEF Stat, Online, Cached, Fresh
  <2> QED BY <2>1, <2>2 DEF IndexTrue, AttrsTrueIn, Cached
<1>2. CASE Stat(p) /\ p \in DOMAIN remote
  <2>1. GetattrIdx(p) = StoreAttrs(idx, new) /\ GetattrValidated(p) = Put(validated, p, clock)
    BY <1>2 DEF GetattrIdx, GetattrValidated, Revalidated
  <2>2. /\ DOMAIN new \subseteq DOMAIN remote /\ \A q \in DOMAIN new : new[q] = TagOf(remote[q])
        /\ p \in DOMAIN new
    BY <1>2
  <2>3. \A q \in DOMAIN Put(validated, p, clock) : q \in DOMAIN validated \/ q \in DOMAIN new
    BY DEF Put
  <2>4. StoreAttrs(idx, new).attrs[p] = TagOf(remote[p])
    BY DEF StoreAttrs, Index
  <2> HIDE DEF new
  <2>5. IndexTrue(StoreAttrs(idx, new), remote, Put(validated, p, clock))
    BY <2>2, <2>3, StoreAttrsTrue
  <2> QED BY <1>2, <2>1, <2>4, <2>5 DEF Stat, Online
<1>3. CASE Stat(p) /\ p \notin DOMAIN remote
  <2>1. GetattrIdx(p) = RemoveEntry(idx, p) /\ GetattrValidated(p) = validated
    BY <1>3 DEF GetattrIdx, GetattrValidated, Revalidated
  <2>2. p \notin DOMAIN RemoveEntry(idx, p).attrs
    BY DEF RemoveEntry, Index, Drop
  <2> QED BY <1>3, <2>1, <2>2, RemoveMissingTrue DEF Stat, Online
<1> QED BY <1>1, <1>2, <1>3

LEMMA TruthBrowse ==
    ASSUME VfsInv, TruthInv, Browse
    PROVE  TruthInv'
<1>0. /\ MountOK /\ NodesOK /\ HandlesOK /\ TimesOK
      /\ IndexTrue(idx, remote, validated) /\ NodesUnique /\ HandlePaths /\ NegativesTrue
      /\ Offline => DOMAIN idx.attrs = {}
  BY DEF VfsInv, TruthInv
<1>1. Parents \subseteq Nodes
  BY DEF Parents
<1>2. ASSUME NEW n \in Parents, NEW name \in NamesBelow(n),
             LookupCached(n, name) \/ LookupFound(n, name)
      PROVE  TruthInv'
  <2> DEFINE p == Append(nodeToPath[n], name)
             new == [q \in {p} |-> TagOf(remote[p])]
  <2>1. p \in Paths
    BY <1>0, <1>1, ChildPath
  <2>2. /\ Intern({p}) /\ UNCHANGED <<envVars, handleVars>>
        /\ DOMAIN negative' \subseteq DOMAIN negative
    BY <1>2 DEF LookupCached, LookupFound, Drop
  <2>3. NodesUnique' /\ KeepsNodes
    BY <1>0, <2>1, <2>2, InternUnique, FS_Singleton
  <2>4. HandlePaths' /\ NegativesTrue'
    BY <1>0, <2>2, <2>3, HandlePathsStep, NegativesStep DEF envVars, handleVars
  <2>5. CASE UNCHANGED <<idx, validated>>
    BY <1>0, <2>2, <2>3, <2>4, <2>5 DEF TruthInv, envVars, mountVars, Offline
  <2>6. CASE LookupFound(n, name)
    <3>1. /\ Online /\ p \in DOMAIN remote /\ idx' = StoreAttrs(idx, new)
          /\ validated' = Put(validated, p, clock)
      BY <2>6 DEF LookupFound, Revalidated
    <3>2. /\ DOMAIN new \subseteq DOMAIN remote
          /\ \A q \in DOMAIN new : new[q] = TagOf(remote[q])
          /\ \A q \in DOMAIN validated' : q \in DOMAIN validated \/ q \in DOMAIN new
      BY <3>1 DEF Put
    <3> HIDE DEF new, p
    <3>3. IndexTrue(idx', remote, validated')
      BY <1>0, <3>1, <3>2, StoreAttrsTrue
    <3> QED BY <2>2, <2>3, <2>4, <3>1, <3>3 DEF TruthInv, envVars, mountVars, Offline, Online
  <2> QED BY <1>2, <2>5, <2>6 DEF LookupCached
<1>3. ASSUME NEW n \in Parents, NEW name \in NamesBelow(n), LookupMissing(n, name)
      PROVE  TruthInv'
  <2> DEFINE p == Append(nodeToPath[n], name)
  <2>1. name \in Names
    BY DEF NamesBelow
  <2>2. /\ Online /\ p \notin DOMAIN remote /\ idx' = RemoveEntry(idx, p)
        /\ negative' = Put(negative, <<n, name>>, clock)
        /\ UNCHANGED <<envVars, nodeVars, handleVars, validated>>
    BY <1>3 DEF LookupMissing, Revalidated
  <2>3. NegativesTrue'
    BY <1>0, <2>1, <2>2, NegativesMissing DEF nodeVars, envVars
  <2> HIDE DEF p
  <2>4. IndexTrue(idx', remote, validated)
    BY <1>0, <2>2, RemoveMissingTrue
  <2> QED BY <1>0, <2>2, <2>3, <2>4
          DEF TruthInv, NodesUnique, HandlePaths, nodeVars, handleVars, envVars, mountVars,
              Offline, Online
<1>4. ASSUME NEW n \in Nodes, Getattr(n)
      PROVE  TruthInv'
  <2>1. /\ idx' = GetattrIdx(nodeToPath[n]) /\ validated' = GetattrValidated(nodeToPath[n])
        /\ UNCHANGED <<envVars, nodeVars, handleVars, negative>>
    BY <1>4 DEF Getattr
  <2>2. IndexTrue(idx', remote, validated') /\ (Offline => idx' = idx)
    BY <1>0, <2>1, GetattrTrue
  <2> QED BY <1>0, <2>1, <2>2
          DEF TruthInv, NodesUnique, HandlePaths, NegativesTrue, nodeVars, handleVars, envVars,
              mountVars, Offline
<1> QED BY <1>2, <1>3, <1>4 DEF Browse

LEMMA TruthList ==
    ASSUME VfsInv, TruthInv, List
    PROVE  TruthInv'
<1>0. /\ MountOK /\ NodesOK /\ HandlesOK /\ TimesOK /\ IdxOK(idx) /\ IsTree(remote)
      /\ IndexTrue(idx, remote, validated) /\ NodesUnique /\ HandlePaths /\ NegativesTrue
      /\ Offline => DOMAIN idx.attrs = {}
  BY DEF VfsInv, TruthInv
<1>1. ASSUME NEW n \in Nodes, ReaddirCached(n)
      PROVE  TruthInv'
  <2> DEFINE p == nodeToPath[n]
             S == ListedChildren(p)
  <2>1. /\ Intern(S) /\ UNCHANGED <<envVars, idx, handleVars, validated, negative>>
        /\ p \in DOMAIN idx.listing
    BY <1>1 DEF ReaddirCached
  <2>2. S \subseteq Paths /\ S \subseteq {Append(p, name) : name \in Names}
    BY <1>0, <2>1 DEF ListedChildren, IdxOK
  <2> HIDE DEF S, p
  <2>3. NodesUnique' /\ KeepsNodes
    BY <1>0, <2>1, <2>2, FiniteChildren, InternUnique
  <2>4. HandlePaths' /\ NegativesTrue'
    BY <1>0, <2>1, <2>3, HandlePathsStep, NegativesStep DEF envVars, handleVars
  <2> QED BY <1>0, <2>1, <2>3, <2>4 DEF TruthInv, envVars, mountVars, Offline
<1>2. ASSUME NEW n \in Nodes, ReaddirRemote(n)
      PROVE  TruthInv'
  <2> DEFINE p == nodeToPath[n]
             kids == [name \in ChildrenOf(p) |-> TagOf(remote[Append(p, name)])]
             S == {Append(p, name) : name \in ChildrenOf(p)}
             new == ByPath(p, kids)
             stored == StoreAttrs(idx, new)
  <2>1. /\ idx' = Index(stored.next, stored.attrs, stored.content,
                        Put(idx.listing, p, ChildrenOf(p)))
        /\ validated' = [q \in DOMAIN validated \cup S \cup {p} |->
                            IF q \in S \cup {p} THEN clock ELSE validated[q]]
        /\ Intern(S) /\ Online /\ IsDir(p)
        /\ UNCHANGED <<envVars, handleVars, negative>>
    BY <1>2 DEF ReaddirRemote, RecordListing
  <2>2. /\ S \subseteq Paths /\ p \in Paths /\ p \in Seq(Names)
        /\ S \subseteq {Append(p, name) : name \in Names}
        /\ S \subseteq DOMAIN remote /\ DOMAIN new = S
    BY <1>0, PathsSeq DEF ChildrenOf, IsTree, NodesOK, Nodes, ByPath
  <2>3. ASSUME NEW q \in S PROVE new[q] = TagOf(remote[q])
    <3>1. PICK name \in ChildrenOf(p) : q = Append(p, name)
      OBVIOUS
    <3>2. q[Len(q)] = name
      BY <2>2, <3>1 DEF ChildrenOf
    <3> QED BY <3>1, <3>2 DEF ByPath
  <2>4. DOMAIN validated' = DOMAIN validated \cup S \cup {p}
    BY <2>1
  <2> HIDE DEF kids, S, p, new, stored
  <2>5. NodesUnique' /\ KeepsNodes
    BY <1>0, <2>1, <2>2, FiniteChildren, InternUnique
  <2>6. HandlePaths' /\ NegativesTrue'
    BY <1>0, <2>1, <2>5, HandlePathsStep, NegativesStep DEF envVars, handleVars
  <2>7. IndexTrue(stored, remote, validated')
    <3>1. \A q \in DOMAIN validated' : q \in DOMAIN validated \/ q \in DOMAIN new \/ DirIn(remote, q)
      BY <2>1, <2>2, <2>4 DEF IsDir, DirIn
    <3> QED BY <1>0, <2>2, <2>3, <3>1, StoreAttrsTrue DEF stored
  <2>8. stored.listing = idx.listing /\ S \subseteq DOMAIN stored.attrs
    BY <2>2 DEF stored, StoreAttrs, Index
  <2>9. IndexTrue(idx', remote, validated')
    <3>1. /\ idx'.attrs = stored.attrs /\ idx'.content = stored.content
          /\ DOMAIN idx'.listing = DOMAIN idx.listing \cup {p}
          /\ idx'.listing[p] = ChildrenOf(p)
          /\ \A q \in DOMAIN idx.listing : q # p => idx'.listing[q] = idx.listing[q]
      BY <2>1, IndexFields DEF Put
    <3>2. AttrsTrueIn(idx', remote, validated') /\ ContentTrueIn(idx', remote)
      BY <2>7, <3>1 DEF IndexTrue, AttrsTrueIn, ContentTrueIn
    <3>3. ListingsTrueIn(idx', remote)
      <4> SUFFICES ASSUME NEW q \in DOMAIN idx'.listing
                   PROVE  /\ DirIn(remote, q)
                          /\ idx'.listing[q] = {m \in Names : Append(q, m) \in DOMAIN remote}
                          /\ \A m \in idx'.listing[q] : Append(q, m) \in DOMAIN idx'.attrs
        BY DEF ListingsTrueIn
      <4>1. CASE q = p
        BY <2>1, <2>8, <3>1, <4>1 DEF ChildrenOf, S, IsDir, DirIn
      <4>2. CASE q # p
        BY <2>7, <2>8, <3>1, <4>2 DEF IndexTrue, ListingsTrueIn
      <4> QED BY <4>1, <4>2
    <3> QED BY <3>2, <3>3 DEF IndexTrue
  <2> QED BY <2>1, <2>5, <2>6, <2>9 DEF TruthInv, envVars, mountVars, Offline, Online
<1> QED BY <1>1, <1>2 DEF List

LEMMA TruthFiles ==
    ASSUME VfsInv, TruthInv, ReadFiles \/ CloseFiles \/ WriteFiles
    PROVE  TruthInv'
<1>0. /\ NodesOK /\ HandlesOK /\ TimesOK
      /\ IndexTrue(idx, remote, validated) /\ NodesUnique /\ HandlePaths /\ NegativesTrue
      /\ Offline => DOMAIN idx.attrs = {}
  BY DEF VfsInv, TruthInv
<1>1. UNCHANGED nodeVars => NodesUnique' /\ KeepsNodes
  BY <1>0 DEF NodesUnique, KeepsNodes, nodeVars
<1>2. ASSUME NEW n \in Nodes, Open(n)
      PROVE  TruthInv'
  <2>1. /\ OpenHandle(n, nodeToPath[n])
        /\ UNCHANGED <<envVars, idx, nodeVars, validated, negative>>
    BY <1>2 DEF Open
  <2>2. HandlePaths'
    BY <1>0, <1>1, <2>1, OpenHandlePaths DEF nodeVars
  <2> QED BY <1>0, <1>1, <2>1, <2>2
          DEF TruthInv, NegativesTrue, nodeVars, envVars, mountVars, Offline
<1>3. ASSUME NEW h \in DOMAIN handles, NEW off \in 0..(MaxLen - 1), Read(h, off)
      PROVE  TruthInv'
  <2> DEFINE p == handles[h].path
             after == GetattrIdx(p)
             miss(a) == off < a[1] /\ ~HasChunk(after, p, a, 1, off)
             fetch == p \in DOMAIN after.attrs /\ miss(after.attrs[p]) /\ Online /\ IsFile(p)
  <2>1. p = nodeToPath[handles[h].node]
    BY <1>0 DEF HandlePaths
  <2>2. /\ validated' = GetattrValidated(p)
        /\ idx' = IF fetch THEN RecordChunk(after, p, after.attrs[p], 1, off, Fetched(p, off))
                           ELSE after
        /\ UNCHANGED <<envVars, nodeVars, handleVars, negative>>
    BY <1>3, <2>1 DEF Read
  <2>3. /\ IndexTrue(after, remote, validated') /\ (Offline => after = idx)
        /\ Online /\ p \in DOMAIN after.attrs => after.attrs[p] = TagOf(remote[p])
    BY <1>0, <2>2, GetattrTrue
  <2>4. off \in Nat
    BY VfsAssumption
  <2> HIDE DEF after, p
  <2>5. IndexTrue(idx', remote, validated')
    <3>1. CASE fetch
      BY <2>2, <2>3, <2>4, <3>1, RecordChunkTrue
    <3>2. CASE ~fetch
      BY <2>2, <2>3, <3>2
    <3> QED BY <3>1, <3>2
  <2>6. Offline => idx' = idx
    BY <2>2, <2>3 DEF Online
  <2> QED BY <1>0, <1>1, <2>2, <2>5, <2>6
          DEF TruthInv, HandlePaths, NegativesTrue, nodeVars, handleVars, envVars, mountVars,
              Offline
<1>4. ASSUME NEW h \in DOMAIN handles, Release(h)
      PROVE  TruthInv'
  <2>1. /\ handles' = Drop(handles, {h})
        /\ UNCHANGED <<envVars, idx, nodeVars, nextHandle, validated, negative>>
    BY <1>4 DEF Release
  <2>2. HandlePaths'
    BY <1>0, <2>1 DEF HandlePaths, Drop, nodeVars
  <2> QED BY <1>0, <1>1, <2>1, <2>2
          DEF TruthInv, NegativesTrue, nodeVars, envVars, mountVars, Offline
<1>5. ASSUME NEW p, NEW data, Online, IsFile(p), remote' = Put(remote, p, FileOf(data, clock)),
             Written(p), UNCHANGED <<clock, up, mountVars, nodeVars, negative>>, HandlePaths'
      PROVE  TruthInv'
  <2>1. IndexTrue(idx', remote', validated')
    BY <1>0, <1>5, WrittenTrue DEF IsFile, FileOf, Written
  <2>2. DOMAIN remote' = DOMAIN remote
    BY <1>5 DEF IsFile, Put
  <2>3. NegativesTrue'
    BY <1>0, <1>1, <1>5, <2>2, NegativesStep
  <2> QED BY <1>1, <1>5, <2>1, <2>3 DEF TruthInv, mountVars, Offline, Online
<1>6. ASSUME NEW n \in Nodes, OpenTruncate(n)
      PROVE  TruthInv'
  <2>1. /\ Online /\ OpenHandle(n, nodeToPath[n]) /\ Written(nodeToPath[n])
        /\ IsFile(nodeToPath[n])
        /\ remote' = Put(remote, nodeToPath[n], FileOf(<<>>, clock))
        /\ UNCHANGED <<clock, up, mountVars, nodeVars, negative>>
    BY <1>6 DEF OpenTruncate
  <2>2. HandlePaths'
    BY <1>0, <1>1, <2>1, OpenHandlePaths DEF nodeVars
  <2> QED BY <1>5, <2>1, <2>2
<1>7. ASSUME NEW h \in DOMAIN handles, NEW off, NEW v, Write(h, off, v)
      PROVE  TruthInv'
  <2> DEFINE p == handles[h].path
             data == Overwrite(remote[p].data, off, v)
  <2>1. /\ Online /\ Written(p) /\ IsFile(p) /\ remote' = Put(remote, p, FileOf(data, clock))
        /\ UNCHANGED <<clock, up, mountVars, nodeVars, handleVars, negative>>
    BY <1>7 DEF Write
  <2> HIDE DEF p, data
  <2>2. HandlePaths'
    BY <1>0, <2>1 DEF HandlePaths, nodeVars, handleVars
  <2> QED BY <1>5, <2>1, <2>2
<1> QED BY <1>2, <1>3, <1>4, <1>6, <1>7 DEF ReadFiles, CloseFiles, WriteFiles

LEMMA TruthMake ==
    ASSUME VfsInv, TruthInv, MakeAndRemove
    PROVE  TruthInv'
<1>0. /\ NodesOK /\ HandlesOK /\ TimesOK /\ IdxOK(idx)
      /\ IndexTrue(idx, remote, validated) /\ NodesUnique /\ HandlePaths /\ NegativesTrue
  BY DEF VfsInv, TruthInv
<1>1. Parents \subseteq Nodes
  BY DEF Parents
<1>2. ASSUME NEW n \in Parents, NEW name \in NamesBelow(n), NEW r, Made(n, name, r)
      PROVE  LET p == Append(nodeToPath[n], name)
             IN  /\ IndexTrue(idx', remote', validated') /\ NegativesTrue' /\ NodesUnique'
                 /\ ~Offline' /\ KeepsNodes /\ nodeToPath'[pathToNode'[p]] = p
  <2> DEFINE d == nodeToPath[n]
             p == Append(d, name)
  <2>1. d \in Paths /\ name \in Names /\ p \in Paths /\ d \in Seq(Names) /\ n \in DOMAIN nodeToPath
    BY <1>0, <1>1, ChildPath, PathsSeq DEF Nodes
  <2>2. /\ Online /\ IsDir(d) /\ p \notin DOMAIN remote /\ remote' = Put(remote, p, r)
        /\ idx' = InvalidateChildren(StoreAttrs(idx, [q \in {p} |-> TagOf(r)]), d)
        /\ validated' = Put(validated, p, clock)
        /\ negative' = Drop(negative, {<<n, name>>})
        /\ Intern({p})
        /\ UNCHANGED <<clock, up, mountVars>>
    BY <1>2 DEF Made
  <2>3. IndexTrue(idx', remote', validated')
    BY <1>0, <2>1, <2>2, MadeTrue
  <2>4. NodesUnique' /\ KeepsNodes /\ nodeToPath'[pathToNode'[p]] = p
    BY <1>0, <2>1, <2>2, InternUnique, FS_Singleton
  <2>5. NegativesTrue'
    <3> SUFFICES ASSUME NEW e \in DOMAIN negative'
                 PROVE  /\ e = <<e[1], e[2]>> /\ e[2] \in Names
                        /\ Append(nodeToPath'[e[1]], e[2]) \notin DOMAIN remote'
      BY DEF NegativesTrue
    <3>1. /\ e \in DOMAIN negative /\ e # <<n, name>> /\ e = <<e[1], e[2]>> /\ e[2] \in Names
          /\ Append(nodeToPath[e[1]], e[2]) \notin DOMAIN remote
          /\ e[1] \in DOMAIN nodeToPath /\ nodeToPath'[e[1]] = nodeToPath[e[1]]
      BY <1>0, <2>2, <2>4 DEF NegativesTrue, Drop, TimesOK, KeepsNodes
    <3>2. nodeToPath[e[1]] \in Seq(Names)
      BY <1>0, <3>1, PathsSeq DEF NodesOK
    <3>3. Append(nodeToPath[e[1]], e[2]) # p
      <4> SUFFICES ASSUME Append(nodeToPath[e[1]], e[2]) = p PROVE FALSE
        OBVIOUS
      <4>1. nodeToPath[e[1]] = d /\ e[2] = name
        BY <2>1, <3>1, <3>2, AppendInjective
      <4>2. e[1] = n
        BY <1>0, <2>1, <3>1, <4>1 DEF NodesUnique
      <4> QED BY <3>1, <4>1, <4>2
    <3> QED BY <2>2, <3>1, <3>3 DEF Put
  <2> QED BY <2>2, <2>3, <2>4, <2>5 DEF mountVars, Offline, Online
<1>3. ASSUME NEW n \in Parents, NEW name \in NamesBelow(n), Create(n, name)
      PROVE  TruthInv'
  <2> DEFINE p == Append(nodeToPath[n], name)
  <2>1. Made(n, name, FileOf(<<>>, clock)) /\ OpenHandle(pathToNode'[p], p)
    BY <1>3 DEF Create
  <2>2. /\ IndexTrue(idx', remote', validated') /\ NegativesTrue' /\ NodesUnique'
        /\ ~Offline' /\ KeepsNodes /\ nodeToPath'[pathToNode'[p]] = p
    BY <1>2, <2>1
  <2> HIDE DEF p
  <2>3. HandlePaths'
    BY <1>0, <2>1, <2>2, OpenHandlePaths
  <2> QED BY <2>2, <2>3 DEF TruthInv
<1>4. ASSUME NEW n \in Parents, NEW name \in NamesBelow(n), Mkdir(n, name)
      PROVE  TruthInv'
  <2>1. Made(n, name, Directory) /\ UNCHANGED handleVars
    BY <1>4 DEF Mkdir
  <2>2. /\ IndexTrue(idx', remote', validated') /\ NegativesTrue' /\ NodesUnique'
        /\ ~Offline' /\ KeepsNodes
    BY <1>2, <2>1
  <2> QED BY <1>0, <2>1, <2>2, HandlePathsStep DEF TruthInv, handleVars
<1>5. ASSUME NEW n \in Parents, NEW name \in NamesBelow(n), Remove(n, name)
      PROVE  TruthInv'
  <2> DEFINE d == nodeToPath[n]
             p == Append(d, name)
  <2>1. d \in Paths /\ name \in Names
    BY <1>0, <1>1, ChildPath
  <2>2. /\ Online /\ remote' = Drop(remote, {p})
        /\ idx' = InvalidateChildren(RemoveEntry(idx, p), d)
        /\ negative' = Put(negative, <<n, name>>, clock)
        /\ UNCHANGED <<clock, up, mountVars, nodeVars, handleVars, validated>>
    BY <1>5 DEF Remove
  <2>3. IndexTrue(idx', remote', validated')
    BY <1>0, <2>1, <2>2, RemovedTrue
  <2>4. NegativesTrue'
    <3>1. DOMAIN remote' = DOMAIN remote \ {p}
      BY <2>2 DEF Drop
    <3> QED BY <1>0, <2>1, <2>2, <3>1, NegativesMissing DEF nodeVars
  <2> QED BY <1>0, <2>2, <2>3, <2>4
          DEF TruthInv, NodesUnique, HandlePaths, nodeVars, handleVars, mountVars, Offline, Online
<1> QED BY <1>3, <1>4, <1>5 DEF MakeAndRemove

LEMMA TruthSetattr ==
    ASSUME VfsInv, TruthInv, Setattrs
    PROVE  TruthInv'
<1>0. /\ TimesOK
      /\ IndexTrue(idx, remote, validated) /\ NodesUnique /\ HandlePaths /\ NegativesTrue
  BY DEF VfsInv, TruthInv
<1>1. PICK n \in Nodes : Setattr(n)
  BY DEF Setattrs
<1> DEFINE p == nodeToPath[n]
<1>2. /\ Online /\ p \in DOMAIN remote /\ validated' = Put(validated, p, clock)
      /\ UNCHANGED <<clock, up, mountVars, nodeVars, handleVars, negative>>
  BY <1>1 DEF Setattr
<1>3. PICK r \in SetattrResults(p) :
         remote' = Put(remote, p, r) /\ idx' = StoreAttrs(idx, [q \in {p} |-> TagOf(r)])
  BY <1>1 DEF Setattr
<1> HIDE DEF p
<1>4. IndexTrue(idx', remote', validated')
  BY <1>0, <1>2, <1>3, SetattrTrue
<1>5. DOMAIN remote' = DOMAIN remote
  BY <1>2, <1>3 DEF Put
<1>6. NegativesTrue'
  BY <1>0, <1>2, <1>5, NegativesStep DEF KeepsNodes, nodeVars
<1> QED BY <1>0, <1>2, <1>4, <1>6
        DEF TruthInv, NodesUnique, HandlePaths, nodeVars, handleVars, mountVars, Offline, Online

LEMMA InitTruth == Init => TruthInv
<1> SUFFICES ASSUME Init PROVE TruthInv
  OBVIOUS
<1>1. DOMAIN idx.attrs = {} /\ DOMAIN idx.content = {} /\ DOMAIN idx.listing = {}
  BY DEF Init, Mounted, EmptyIndex, Index, NoMap
<1>2. IndexTrue(idx, remote, validated)
  BY <1>1 DEF IndexTrue, AttrsTrueIn, ListingsTrueIn, ContentTrueIn
<1>3. NodesUnique /\ HandlePaths /\ NegativesTrue
  BY DEF Init, Mounted, NoMap, NodesUnique, HandlePaths, NegativesTrue
<1> QED BY <1>1, <1>2, <1>3 DEF TruthInv

LEMMA NextTruth ==
    ASSUME "rename" \notin Ops, VfsInv, TruthInv, [Next]_vars
    PROVE  TruthInv'
<1>1. CASE LinkChange \/ Tick \/ UNCHANGED vars
  <2>1. UNCHANGED <<remote, mode, idx, pathToNode, nodeToPath, handles, validated, negative>>
    BY <1>1 DEF LinkChange, Tick, vars, mountVars, nodeVars, handleVars
  <2> QED BY <2>1 DEF TruthInv, NodesUnique, HandlePaths, NegativesTrue, Offline
<1> QED BY <1>1, TruthBrowse, TruthList, TruthFiles, TruthMake, TruthSetattr DEF Next

LEMMA TruthImplies ==
    ASSUME VfsInv, TruthInv
    PROVE  ReadYourWrites /\ ListYourChanges /\ ContentCurrent /\ NegativeSound
<1>0. /\ AttrsTrueIn(idx, remote, validated) /\ ListingsTrueIn(idx, remote)
      /\ ContentTrueIn(idx, remote) /\ NegativesTrue /\ (Offline => DOMAIN idx.attrs = {})
  BY DEF TruthInv, IndexTrue
<1>1. ReadYourWrites
  BY <1>0 DEF ReadYourWrites, Cached, Fresh, AttrsTrueIn
<1>2. ListYourChanges
  <2> SUFFICES ASSUME NEW p \in DOMAIN idx.listing
               PROVE  ListedChildren(p) = {Append(p, n) : n \in ChildrenOf(p)}
    BY DEF ListYourChanges
  <2>1. idx.listing[p] = ChildrenOf(p) /\ \A n \in idx.listing[p] : Append(p, n) \in DOMAIN idx.attrs
    BY <1>0 DEF ListingsTrueIn, ChildrenOf
  <2> QED BY <2>1 DEF ListedChildren
<1>3. ContentCurrent
  BY <1>0 DEF ContentCurrent, ContentTrueIn
<1>4. NegativeSound
  BY <1>0 DEF NegativeSound, NegativesTrue
<1> QED BY <1>1, <1>2, <1>3, <1>4

\* A mount that is the server's only client and does not rename: everything in
\* its cache, but attributes a write invalidated, is true of the server.
THEOREM TruthInvariant ==
    ASSUME "rename" \notin Ops
    PROVE  Spec => [](VfsInv /\ TruthInv)
<1>1. Init => VfsInv /\ TruthInv
  BY InitVfs, InitTruth
<1>2. VfsInv /\ TruthInv /\ [Next]_vars => (VfsInv /\ TruthInv)'
  BY NextVfs, NextTruth
<1> QED BY <1>1, <1>2, PTL DEF Spec

\* getattr and lookup serve the server's attributes from the cache: a write, a
\* truncation or a removal of this mount never leaves older ones to be served.
THEOREM ReadYourWritesInvariant ==
    ASSUME "rename" \notin Ops
    PROVE  Spec => []ReadYourWrites
<1>1. VfsInv /\ TruthInv => ReadYourWrites
  BY TruthImplies
<1> QED BY <1>1, TruthInvariant, PTL

\* readdir serves the server's listing from the cache: what this mount made or
\* removed since the listing was recorded shows in it.
THEOREM ListYourChangesInvariant ==
    ASSUME "rename" \notin Ops
    PROVE  Spec => []ListYourChanges
<1>1. VfsInv /\ TruthInv => ListYourChanges
  BY TruthImplies
<1> QED BY <1>1, TruthInvariant, PTL

\* lookup says from its negative cache only of missing names that they are
\* missing.
THEOREM NegativeSoundInvariant ==
    ASSUME "rename" \notin Ops
    PROVE  Spec => []NegativeSound
<1>1. VfsInv /\ TruthInv => NegativeSound
  BY TruthImplies
<1> QED BY <1>1, TruthInvariant, PTL

-----------------------------------------------------------------------------
(* With renames, but without setattr, cached bytes are still the server's: *)
(* chunks are fetched under the attributes of a handle's node and filed    *)
(* under the handle's path, which a rename sets apart.                     *)

\* Content is of files; chunks are below the size they were fetched under, and
\* hold the file's bytes as far as the file reaches.
BytesTrueIn(i, r) ==
    \A p \in DOMAIN i.content :
        /\ p \in DOMAIN r /\ r[p].kind = "file"
        /\ \A c \in DOMAIN i.content[p].chunks :
              /\ c \in Nat /\ c < i.content[p].tag[1]
              /\ c < Len(r[p].data) => i.content[p].chunks[c] = r[p].data[c + 1]

\* Content stays where it was, or goes.
LEMMA BytesKept ==
    ASSUME NEW i, NEW j, NEW r, NEW s, BytesTrueIn(i, r),
           \A p \in DOMAIN j.content :
              /\ p \in DOMAIN i.content /\ j.content[p] = i.content[p]
              /\ p \in DOMAIN r => p \in DOMAIN s /\ s[p] = r[p]
    PROVE  BytesTrueIn(j, s)
BY DEF BytesTrueIn

LEMMA BytesStat ==
    ASSUME BytesTrueIn(idx, remote), NEW p
    PROVE  BytesTrueIn(Revalidated(p), remote) /\ BytesTrueIn(GetattrIdx(p), remote)
<1>1. /\ DOMAIN Revalidated(p).content \subseteq DOMAIN idx.content
      /\ \A q \in DOMAIN Revalidated(p).content : Revalidated(p).content[q] = idx.content[q]
  BY DEF Revalidated, StoreAttrs, RemoveEntry, Index, Drop
<1>2. BytesTrueIn(Revalidated(p), remote)
  BY <1>1, BytesKept
<1> QED BY <1>2 DEF GetattrIdx

LEMMA BytesChunk ==
    ASSUME NEW i, BytesTrueIn(i, remote), NEW p, IsFile(p), NEW tag, NEW off \in Nat,
           off < tag[1]
    PROVE  BytesTrueIn(RecordChunk(i, p, tag, 1, off, Fetched(p, off)), remote)
<1> DEFINE o == Fetched(p, off)
           kept == IF ContentMatches(i, p, tag, 1) THEN i.content[p].chunks ELSE NoMap
           ref == ContentRef(tag, 1, Put(kept, off, o))
           j == RecordChunk(i, p, tag, 1, off, o)
           good(c, x) == /\ c \in Nat /\ c < tag[1]
                         /\ c < Len(remote[p].data) => x = remote[p].data[c + 1]
<1>1. j.content = Put(i.content, p, ref) /\ ref.tag = tag /\ ref.chunks = Put(kept, off, o)
  BY DEF RecordChunk, Index, ContentRef
<1>2. \A c \in DOMAIN kept : good(c, kept[c])
  BY DEF BytesTrueIn, ContentMatches, NoMap
<1>3. good(off, o)
  BY DEF Fetched
<1> HIDE DEF j, kept, o, ref
<1>4. \A c \in DOMAIN Put(kept, off, o) : good(c, Put(kept, off, o)[c])
  BY <1>2, <1>3 DEF Put
<1>5. /\ DOMAIN j.content = DOMAIN i.content \cup {p} /\ j.content[p] = ref
      /\ \A q \in DOMAIN i.content : q # p => j.content[q] = i.content[q]
  BY <1>1 DEF Put
<1>6. BytesTrueIn(j, remote)
  BY <1>1, <1>4, <1>5 DEF BytesTrueIn, IsFile
<1> QED BY <1>6 DEF j, o

\* A renamed file takes its content along, and nothing stays below the old name
\* of a renamed directory.
LEMMA BytesRename ==
    ASSUME IsTree(remote), IdxOK(idx), BytesTrueIn(idx, remote), NEW from \in DOMAIN remote,
           NEW to \in Seq(Names), to \notin DOMAIN remote
    PROVE  BytesTrueIn(RenameEntry(idx, from, to), Moved(from, to))
<1> DEFINE j == RenameEntry(idx, from, to)
           m == MoveEntry(idx, from, to)
           gone == Descendants(idx, from, to)
           new == Moved(from, to)
<1>1. /\ m.attrs = Move(idx.attrs, from, to)
      /\ m.content = IF from \in DOMAIN idx.attrs
                       THEN Move(Drop(idx.content, {to} \ {from}), from, to) ELSE idx.content
      /\ gone = {p \in DOMAIN m.attrs : Under(from, p)}
      /\ j.content = Drop(m.content, gone)
  BY DEF RenameEntry, MoveEntry, Descendants, Index
<1> HIDE DEF j, m, gone
<1>2. \A p \in DOMAIN j.content : p \in DOMAIN m.content /\ p \notin gone /\ j.content[p] = m.content[p]
  BY <1>1 DEF Drop
<1>3. from \in Seq(Names) /\ from # to
  BY PathsSeq DEF IsTree
<1>4. /\ \A q \in DOMAIN remote : ~Below(from, q) => q \in DOMAIN new /\ new[q] = remote[q]
      /\ to \in DOMAIN new /\ new[to] = remote[from]
  <2>1. /\ \A q \in DOMAIN remote : ~Below(from, q) => q \in DOMAIN new /\ new[q] = remote[q]
        /\ Below(from, from)
        /\ to \o Rest(from, from) \in DOMAIN new
        /\ new[to \o Rest(from, from)] = remote[from]
    BY MovedFacts DEF Below
  <2>2. to \o Rest(from, from) = to
    <3>1. Rest(from, from) = <<>>
      BY <1>3 DEF Rest
    <3> QED BY <3>1
  <2> QED BY <2>1, <2>2
<1> HIDE DEF new
<1>5. ASSUME NEW p \in DOMAIN j.content
      PROVE  \/ p = to /\ from \in DOMAIN idx.content /\ j.content[p] = idx.content[from]
             \/ p \in DOMAIN idx.content /\ j.content[p] = idx.content[p] /\ ~Below(from, p)
  <2>1. p \in DOMAIN m.content /\ p \notin gone /\ j.content[p] = m.content[p]
    BY <1>2
  <2>2. CASE from \in DOMAIN idx.attrs
    <3>1. PICK f : f = Drop(idx.content, {to} \ {from})
      OBVIOUS
    <3>2. /\ \A q \in DOMAIN f : q \in DOMAIN idx.content /\ f[q] = idx.content[q]
          /\ m.content = Move(f, from, to)
      BY <1>1, <2>2, <3>1 DEF Drop
    <3>3. DOMAIN m.attrs = (DOMAIN idx.attrs \ {from}) \cup {to}
      BY <1>1, <2>2 DEF Move, Put, Drop
    <3>4. \/ p = to /\ from \in DOMAIN f /\ m.content[p] = f[from]
          \/ p \in DOMAIN f /\ p # from /\ m.content[p] = f[p]
      BY <2>1, <3>2 DEF Move, Put, Drop
    <3>5. p \in DOMAIN f /\ p # from => p \in DOMAIN m.attrs
      BY <3>2, <3>3 DEF IdxOK
    <3> QED BY <1>1, <2>1, <3>2, <3>4, <3>5 DEF Below
  <2>3. CASE from \notin DOMAIN idx.attrs
    <3>1. m.content = idx.content /\ m.attrs = idx.attrs
      BY <1>1, <2>3 DEF Move
    <3> QED BY <1>1, <2>1, <2>3, <3>1 DEF IdxOK, Below
  <2> QED BY <2>2, <2>3
<1>6. BytesTrueIn(j, new)
  BY <1>4, <1>5 DEF BytesTrueIn
<1> QED BY <1>6 DEF j, new

LEMMA NextBytes ==
    ASSUME "setattr" \notin Ops, VfsInv, BytesTrueIn(idx, remote), [Next]_vars
    PROVE  BytesTrueIn(idx', remote')
<1>0. IsTree(remote) /\ IdxOK(idx) /\ NodesOK /\ Parents \subseteq Nodes
  BY DEF VfsInv, Parents
<1>1. CASE UNCHANGED <<idx, remote>>
  BY <1>1
<1>2. CASE Browse
  <2>1. remote' = remote /\ (idx' = idx \/ \E p : idx' = Revalidated(p) \/ idx' = GetattrIdx(p))
    BY <1>2 DEF Browse, LookupCached, LookupFound, LookupMissing, Getattr, envVars
  <2> QED BY <2>1, BytesStat
<1>3. CASE List
  <2>1. CASE \E n \in Nodes : ReaddirCached(n)
    BY <1>1, <2>1 DEF ReaddirCached, envVars
  <2>2. CASE \E n \in Nodes : ReaddirRemote(n)
    <3>1. PICK p, kids : idx' = RecordListing(idx, p, kids) /\ remote' = remote
      BY <2>2 DEF ReaddirRemote, envVars
    <3>2. PICK new : idx'.content = Drop(idx.content, StalePaths(idx, new))
      BY <3>1 DEF RecordListing, StoreAttrs, Index
    <3>3. \A q \in DOMAIN idx'.content : q \in DOMAIN idx.content /\ idx'.content[q] = idx.content[q]
      BY <3>2 DEF Drop
    <3> QED BY <3>1, <3>3, BytesKept
  <2> QED BY <1>3, <2>1, <2>2 DEF List
<1>4. CASE ReadFiles
  <2>1. CASE \E n \in Nodes : Open(n)
    BY <1>1, <2>1 DEF Open, envVars
  <2>2. ASSUME NEW h \in DOMAIN handles, NEW off \in 0..(MaxLen - 1), Read(h, off)
        PROVE  BytesTrueIn(idx', remote')
    <3> DEFINE p == handles[h].path
               q == nodeToPath[handles[h].node]
               after == GetattrIdx(q)
    <3>1. /\ remote' = remote
          /\ \/ idx' = after
             \/ /\ idx' = RecordChunk(after, p, after.attrs[q], 1, off, Fetched(p, off))
                /\ off < after.attrs[q][1] /\ IsFile(p)
      BY <2>2 DEF Read, envVars
    <3>2. BytesTrueIn(after, remote) /\ off \in Nat
      BY BytesStat, VfsAssumption
    <3> HIDE DEF p, q, after
    <3> QED BY <3>1, <3>2, BytesChunk
  <2> QED BY <1>4, <2>1, <2>2 DEF ReadFiles
<1>5. CASE CloseFiles
  BY <1>1, <1>5 DEF CloseFiles, Release, envVars
<1>6. ASSUME NEW p, NEW x, IsFile(p), remote' = Put(remote, p, x), Written(p)
      PROVE  BytesTrueIn(idx', remote')
  <2>1. \A q \in DOMAIN idx'.content :
            q \in DOMAIN idx.content /\ idx'.content[q] = idx.content[q] /\ q # p
    BY <1>6 DEF Written, InvalidateContent, Index, Drop
  <2>2. \A q \in DOMAIN remote : q # p => q \in DOMAIN remote' /\ remote'[q] = remote[q]
    BY <1>6 DEF Put
  <2> QED BY <2>1, <2>2, BytesKept
<1>7. CASE WriteFiles
  BY <1>6, <1>7 DEF WriteFiles, OpenTruncate, Write
<1>8. CASE MakeAndRemove
  <2>1. ASSUME NEW n, NEW name, NEW r, Made(n, name, r)
        PROVE  BytesTrueIn(idx', remote')
    <3>1. PICK p, d, new : /\ p \notin DOMAIN remote /\ remote' = Put(remote, p, r)
                           /\ idx' = InvalidateChildren(StoreAttrs(idx, new), d)
      BY <2>1 DEF Made
    <3>2. \A q \in DOMAIN idx'.content : q \in DOMAIN idx.content /\ idx'.content[q] = idx.content[q]
      BY <3>1 DEF InvalidateChildren, StoreAttrs, Index, Drop
    <3>3. \A q \in DOMAIN remote : q \in DOMAIN remote' /\ remote'[q] = remote[q]
      BY <3>1 DEF Put
    <3> QED BY <3>2, <3>3, BytesKept
  <2>2. ASSUME NEW n, NEW name, Remove(n, name)
        PROVE  BytesTrueIn(idx', remote')
    <3>1. PICK p, d : /\ remote' = Drop(remote, {p})
                      /\ idx' = InvalidateChildren(RemoveEntry(idx, p), d)
      BY <2>2 DEF Remove
    <3>2. \A q \in DOMAIN idx'.content :
              q \in DOMAIN idx.content /\ idx'.content[q] = idx.content[q] /\ q # p
      BY <3>1 DEF InvalidateChildren, RemoveEntry, Index, Drop
    <3>3. \A q \in DOMAIN remote : q # p => q \in DOMAIN remote' /\ remote'[q] = remote[q]
      BY <3>1 DEF Drop
    <3> QED BY <3>2, <3>3, BytesKept
  <2> QED BY <1>8, <2>1, <2>2 DEF MakeAndRemove, Create, Mkdir
<1>9. CASE Renames
  <2>1. PICK n \in Parents, m \in Parents :
           \E name \in NamesBelow(n), newName \in NamesBelow(m) : Rename(n, name, m, newName)
    BY <1>9 DEF Renames
  <2>2. PICK name \in NamesBelow(n), newName \in NamesBelow(m) : Rename(n, name, m, newName)
    BY <2>1
  <2> DEFINE from == Append(nodeToPath[n], name)
             to == Append(nodeToPath[m], newName)
             moved == RenameEntry(idx, from, to)
  <2>3. /\ from \in DOMAIN remote /\ to \notin DOMAIN remote /\ remote' = Moved(from, to)
        /\ idx' = InvalidateChildren(InvalidateChildren(moved, nodeToPath[n]), nodeToPath[m])
    BY <2>2 DEF Rename
  <2>4. to \in Seq(Names)
    BY <1>0, ChildPath, PathsSeq
  <2> HIDE DEF from, to
  <2>5. BytesTrueIn(moved, remote')
    BY <1>0, <2>3, <2>4, BytesRename
  <2>6. idx'.content = moved.content
    BY <2>3 DEF InvalidateChildren, Index
  <2> QED BY <2>5, <2>6 DEF BytesTrueIn
<1>10. CASE LinkChange \/ Tick \/ UNCHANGED vars
  BY <1>1, <1>10 DEF LinkChange, Tick, vars
<1> QED BY <1>2, <1>3, <1>4, <1>5, <1>7, <1>8, <1>9, <1>10 DEF Next

LEMMA BytesCurrent ==
    ASSUME BytesTrueIn(idx, remote)
    PROVE  ContentCurrent
<1> SUFFICES ASSUME NEW p \in DOMAIN idx.content, idx.content[p].tag = TagOf(remote[p]),
                    NEW c \in DOMAIN idx.content[p].chunks
             PROVE  idx.content[p].chunks[c] = remote[p].data[c + 1]
  BY DEF ContentCurrent
<1>1. idx.content[p].tag[1] = Len(remote[p].data)
  BY DEF TagOf
<1> QED BY <1>1 DEF BytesTrueIn

\* read serves the server's bytes when the attributes it serves them under are
\* the server's, for a mount that does not both rename files and set attributes
\* (with both it may not: a chunk fetched through the old name of a renamed file
\* can survive a setattr that gives the file of that name the chunk's tag).
THEOREM ContentCurrentInvariant ==
    ASSUME "rename" \notin Ops \/ "setattr" \notin Ops
    PROVE  Spec => []ContentCurrent
<1> DEFINE Bytes == BytesTrueIn(idx, remote)
<1>1. CASE "rename" \notin Ops
  <2>1. VfsInv /\ TruthInv => ContentCurrent
    BY TruthImplies
  <2> QED BY <1>1, <2>1, TruthInvariant, PTL
<1>2. CASE "setattr" \notin Ops
  <2>1. Init => Bytes
    BY DEF Init, Mounted, EmptyIndex, Index, NoMap, BytesTrueIn
  <2>2. VfsInv /\ Bytes /\ [Next]_vars => Bytes'
    BY <1>2, NextBytes
  <2>3. Bytes => ContentCurrent
    BY BytesCurrent
  <2> HIDE DEF Bytes
  <2> QED BY <2>1, <2>2, <2>3, VfsInvariant, PTL DEF Spec
<1> QED BY <1>1, <1>2

-----------------------------------------------------------------------------
(* Offline and read-only mounts.                                           *)

\* A call that cannot reach the server leaves the store alone.
LEMMA DisconnectedNext ==
    ASSUME ~Online, Next
    PROVE  idx' = idx /\ remote' = remote
<1>1. \A p : GetattrIdx(p) = idx
  BY DEF GetattrIdx, Stat
<1>2. CASE Browse
  BY <1>1, <1>2 DEF Browse, LookupCached, LookupFound, LookupMissing, Getattr, envVars
<1>3. CASE List
  BY <1>3 DEF List, ReaddirCached, ReaddirRemote, envVars
<1>4. CASE ReadFiles \/ CloseFiles \/ WriteFiles
  BY <1>1, <1>4 DEF ReadFiles, CloseFiles, WriteFiles, Open, Read, Release, OpenTruncate, Write,
                    envVars
<1>5. CASE MakeAndRemove \/ Renames \/ Setattrs
  <2>1. CASE MakeAndRemove
    BY <2>1 DEF MakeAndRemove, Create, Mkdir, Made, Remove
  <2>2. CASE Renames
    BY <2>2 DEF Renames, Rename
  <2>3. CASE Setattrs
    BY <2>3 DEF Setattrs, Setattr
  <2> QED BY <1>5, <2>1, <2>2, <2>3
<1>6. CASE LinkChange \/ Tick
  BY <1>6 DEF LinkChange, Tick
<1> QED BY <1>2, <1>3, <1>4, <1>5, <1>6 DEF Next

\* No operation of an offline mount changes the store, whatever the kernel asks:
\* neither a failed stat nor a missing name removes an entry.
THEOREM OfflineFrozenTheorem == SharedSpec => OfflineFrozen
<1>1. [SharedNext]_sharedVars
        => [mode = "Offline" /\ mode' = "Offline" => idx' = idx]_sharedVars
  <2> SUFFICES ASSUME SharedNext, mode = "Offline" PROVE idx' = idx
    OBVIOUS
  <2>1. ~Online
    BY DEF Online, Offline
  <2> QED BY <2>1, DisconnectedNext DEF SharedNext, OtherClient, Remount
<1> QED BY <1>1, PTL DEF SharedSpec, OfflineFrozen

LEMMA ReadOnlyNext ==
    ASSUME readOnly, Next
    PROVE  remote' = remote
<1>1. CASE Browse
  BY <1>1 DEF Browse, LookupCached, LookupFound, LookupMissing, Getattr, envVars
<1>2. CASE List
  BY <1>2 DEF List, ReaddirCached, ReaddirRemote, envVars
<1>3. CASE ReadFiles \/ CloseFiles \/ WriteFiles
  BY <1>3 DEF ReadFiles, CloseFiles, WriteFiles, Open, Read, Release, OpenTruncate, Write, envVars
<1>4. CASE MakeAndRemove \/ Renames \/ Setattrs
  BY <1>4 DEF MakeAndRemove, Create, Mkdir, Made, Remove, Renames, Rename, Setattrs, Setattr
<1>5. CASE LinkChange \/ Tick
  BY <1>5 DEF LinkChange, Tick
<1> QED BY <1>1, <1>2, <1>3, <1>4, <1>5 DEF Next

\* No operation of a read-only mount changes the server's tree: every one that
\* writes, opening for truncation included, checks the flag first.
THEOREM ReadOnlyTheorem == SharedSpec => ReadOnlyKeepsServer
<1>1. [SharedNext]_sharedVars
        => [readOnly /\ remote' # remote
              => UNCHANGED <<idx, nodeVars, handleVars, validated, negative>>]_sharedVars
  <2> SUFFICES ASSUME SharedNext, readOnly, remote' # remote
               PROVE  UNCHANGED <<idx, nodeVars, handleVars, validated, negative>>
    OBVIOUS
  <2> QED BY ReadOnlyNext DEF SharedNext, OtherClient, Remount
<1> QED BY <1>1, PTL DEF SharedSpec, ReadOnlyKeepsServer

-----------------------------------------------------------------------------
(* The tables, with other clients and mounts that follow each other.       *)

LEMMA OtherTree ==
    ASSUME IsTree(remote), NEW p \in Files, NEW new, OtherClient(p, new),
           (\E r \in Versions : new = Put(remote, p, r)) \/ new = Drop(remote, {p})
    PROVE  IsTree(remote')
<1>0. IsDir(Parent(p)) /\ ~IsDir(p) /\ remote' = new /\ new # remote
  BY DEF OtherClient
<1>1. p \in Seq(Names) /\ p \in Paths
  BY VfsAssumption DEF Paths
<1>2. p # <<>>
  BY <1>0 DEF IsTree, DirIn, IsDir
<1>3. CASE \E r \in Versions : new = Put(remote, p, r)
  <2>1. PICK r \in Versions : new = Put(remote, p, r)
    BY <1>3
  <2>2. CASE p \in DOMAIN remote
    BY <1>0, <2>1, <2>2, TreeReplace DEF IsDir
  <2>3. CASE p \notin DOMAIN remote
    <3>1. PICK k : k = Len(p) - 1
      OBVIOUS
    <3>2. k \in 0..(Len(p) - 1) /\ k + 1 = Len(p)
      BY <1>1, <1>2, <3>1
    <3>3. Parent(p) = Prefix(p, k)
      BY <3>1 DEF Parent, Prefix
    <3>4. p = Append(Parent(p), p[k + 1]) /\ p[k + 1] \in Names
      BY <1>1, <3>2, <3>3, PrefixChild, PrefixFacts
    <3>5. DirIn(remote, Parent(p)) /\ Parent(p) \in Paths
      BY <1>0 DEF IsDir, DirIn, IsTree
    <3> QED BY <1>0, <1>1, <2>1, <2>3, <3>4, <3>5, TreeMake
  <2> QED BY <2>2, <2>3
<1>4. CASE new = Drop(remote, {p})
  <2>1. ASSUME NEW n \in Names, Append(p, n) \in DOMAIN remote PROVE FALSE
    <3>1. /\ Len(Append(p, n)) = Len(p) + 1 /\ Len(p) \in Nat
          /\ Prefix(Append(p, n), Len(p)) = p
      BY <1>1, AppendFacts
    <3>2. DirIn(remote, p)
      <4>1. Len(p) \in 0..(Len(Append(p, n)) - 1)
        BY <3>1
      <4>2. \A q \in DOMAIN remote : \A k \in 0..(Len(q) - 1) : DirIn(remote, Prefix(q, k))
        BY DEF IsTree
      <4>3. DirIn(remote, Prefix(Append(p, n), Len(p)))
        BY ONLY <2>1, <4>1, <4>2
      <4> QED BY <3>1, <4>3
    <3> QED BY <1>0, <3>2 DEF IsDir, DirIn
  <2> QED BY <1>0, <1>1, <1>2, <1>4, <2>1, TreeRemove
<1> QED BY <1>3, <1>4

LEMMA RemountVfs ==
    ASSUME VfsInv, Remount
    PROVE  VfsInv'
<1>1. MountOK' /\ IsTree(remote') /\ IdxOK(idx')
  BY DEF VfsInv, MountOK, Remount
<1>2. NodesOK'
  BY VfsAssumption DEF Remount, NodesOK, Paths
<1>3. HandlesOK' /\ TimesOK'
  BY VfsAssumption DEF Remount, NoMap, HandlesOK, TimesOK
<1> QED BY <1>1, <1>2, <1>3 DEF VfsInv

\* A step of another client.
OtherStep ==
    \/ \E p \in Files, r \in Versions : OtherClient(p, Put(remote, p, r))
    \/ \E p \in Files : OtherClient(p, Drop(remote, {p}))

LEMMA SharedNextSplit ==
    [SharedNext]_sharedVars =>
        \/ Aged /\ (Next \/ OtherStep \/ Remount)
        \/ UNCHANGED sharedVars
BY DEF SharedNext, OtherStep

LEMMA NextSharedVfs ==
    ASSUME VfsInv, [SharedNext]_sharedVars
    PROVE  VfsInv'
<1>1. CASE OtherStep
  <2>1. IsTree(remote')
    BY <1>1, OtherTree DEF OtherStep, VfsInv
  <2>2. UNCHANGED <<clock, up, mountVars, idx, nodeVars, handleVars, validated, negative>>
    BY <1>1 DEF OtherStep, OtherClient
  <2> QED BY <2>1, <2>2 DEF VfsInv, MountOK, NodesOK, HandlesOK, TimesOK, mountVars, nodeVars,
                            handleVars
<1>2. CASE UNCHANGED sharedVars
  BY <1>2, NextVfs DEF sharedVars
<1> QED BY <1>1, <1>2, SharedNextSplit, NextVfs, RemountVfs

\* The tables stay consistent across remounts and the tree stays a tree whatever
\* other clients do.
THEOREM SharedVfsInvariant == SharedSpec => []VfsInv
<1>1. SharedInit => VfsInv
  BY InitVfs DEF SharedInit
<1>2. VfsInv /\ [SharedNext]_sharedVars => VfsInv'
  BY NextSharedVfs
<1> QED BY <1>1, <1>2, PTL DEF SharedSpec

-----------------------------------------------------------------------------
(* Bounded staleness of attributes, without renames.                       *)

\* What is known of files as validated was true then, or later.
AgesOK ==
    /\ DOMAIN attrsTrueAt = DOMAIN idx.attrs
    /\ \A p \in DOMAIN attrsTrueAt : attrsTrueAt[p] \in Int
    /\ \A p \in DOMAIN idx.attrs \ Dirs : p \in DOMAIN validated => validated[p] <= attrsTrueAt[p]

\* The paths of the directories that are there, and the nodes of open files.
DirsKnown == \A p \in DOMAIN remote : remote[p].kind = "dir" => p \in Dirs

StaleInv == AgesOK /\ DirsKnown /\ HandlePaths

\* A step keeps a file's attributes and their validation time, or validates
\* attributes that are true, or takes one of them away.
KeepsAges ==
    \A p \in DOMAIN idx'.attrs \ Dirs :
        p \in DOMAIN validated' =>
            \/ AttrsTrue(p)'
            \/ /\ p \in DOMAIN idx.attrs /\ idx'.attrs[p] = idx.attrs[p]
               /\ p \in DOMAIN validated /\ validated'[p] = validated[p]

LEMMA AgesStep ==
    ASSUME AgesOK, MountOK', TimesOK', KeepsAges, Aged
    PROVE  AgesOK'
<1>1. attrsTrueAt' = [p \in DOMAIN idx'.attrs |->
          IF AttrsTrue(p)' THEN clock'
          ELSE IF p \in DOMAIN idx.attrs /\ idx'.attrs[p] = idx.attrs[p] THEN attrsTrueAt[p]
          ELSE Never]
  BY DEF Aged
<1>2. clock' \in Nat /\ Never \in Int
  BY VfsAssumption DEF MountOK, Never
<1>3. \A p \in DOMAIN idx'.attrs : attrsTrueAt'[p] \in Int
  BY <1>1, <1>2 DEF AgesOK
<1>4. \A p \in DOMAIN validated' : validated'[p] <= clock'
  BY <1>2 DEF TimesOK
<1>5. ASSUME NEW p \in DOMAIN idx'.attrs \ Dirs, p \in DOMAIN validated'
      PROVE  validated'[p] <= attrsTrueAt'[p]
  <2>1. CASE AttrsTrue(p)'
    BY <1>1, <1>4, <1>5, <2>1
  <2>2. CASE ~AttrsTrue(p)'
    <3>1. /\ p \in DOMAIN idx.attrs /\ idx'.attrs[p] = idx.attrs[p]
          /\ p \in DOMAIN validated /\ validated'[p] = validated[p]
      BY <1>5, <2>2 DEF KeepsAges
    <3>2. attrsTrueAt'[p] = attrsTrueAt[p]
      BY <1>1, <2>2, <3>1
    <3> QED BY <3>1, <3>2 DEF AgesOK
  <2> QED BY <2>1, <2>2
<1> QED BY <1>1, <1>3, <1>5 DEF AgesOK

LEMMA AgesImply ==
    ASSUME VfsInv, AgesOK
    PROVE  AttrsBoundedStale
<1> SUFFICES ASSUME mode # "Offline", NEW p \in DOMAIN idx.attrs \ Dirs, Fresh(p)
             PROVE  clock < attrsTrueAt[p] + TTL
  BY DEF AttrsBoundedStale
<1>1. p \in DOMAIN validated /\ clock < validated[p] + TTL
  BY DEF Fresh, Offline
<1>2. clock \in Int /\ TTL \in Int /\ validated[p] \in Int /\ attrsTrueAt[p] \in Int
  BY <1>1, VfsAssumption DEF VfsInv, MountOK, TimesOK, AgesOK
<1>3. validated[p] <= attrsTrueAt[p]
  BY <1>1 DEF AgesOK
<1> QED BY <1>1, <1>2, <1>3

\* The store took the server's attributes of p, or forgot p; p was validated, or
\* nothing was.
LEMMA AgesStat ==
    ASSUME NEW p, idx' = Revalidated(p), remote' = remote,
           \A q \in DOMAIN validated' :
              q # p \/ p \notin DOMAIN remote
                => q \in DOMAIN validated /\ validated'[q] = validated[q]
    PROVE  KeepsAges
<1>1. CASE p \in DOMAIN remote
  <2>1. /\ DOMAIN idx'.attrs = DOMAIN idx.attrs \cup {p} /\ idx'.attrs[p] = TagOf(remote[p])
        /\ \A q \in DOMAIN idx.attrs : q # p => idx'.attrs[q] = idx.attrs[q]
    BY <1>1 DEF Revalidated, StoreAttrs, Index
  <2>2. AttrsTrue(p)'
    BY <1>1, <2>1 DEF AttrsTrue
  <2> QED BY <2>1, <2>2 DEF KeepsAges
<1>2. CASE p \notin DOMAIN remote
  <2>1. \A q \in DOMAIN idx'.attrs : q \in DOMAIN idx.attrs /\ idx'.attrs[q] = idx.attrs[q]
    BY <1>2 DEF Revalidated, RemoveEntry, Index, Drop
  <2> QED BY <1>2, <2>1 DEF KeepsAges
<1> QED BY <1>1, <1>2

LEMMA AgesGetattr ==
    ASSUME NEW p, idx'.attrs = GetattrIdx(p).attrs, validated' = GetattrValidated(p),
           remote' = remote
    PROVE  KeepsAges
<1>1. CASE ~Stat(p)
  BY <1>1 DEF GetattrIdx, GetattrValidated, KeepsAges
<1>2. CASE Stat(p) /\ p \in DOMAIN remote
  <2>1. /\ DOMAIN idx'.attrs = DOMAIN idx.attrs \cup {p} /\ idx'.attrs[p] = TagOf(remote[p])
        /\ \A q \in DOMAIN idx.attrs : q # p => idx'.attrs[q] = idx.attrs[q]
    BY <1>2 DEF GetattrIdx, Revalidated, StoreAttrs, Index
  <2>2. AttrsTrue(p)'
    BY <1>2, <2>1 DEF AttrsTrue
  <2>3. \A q \in DOMAIN validated' : q # p => q \in DOMAIN validated /\ validated'[q] = validated[q]
    BY <1>2 DEF GetattrValidated, Put
  <2> QED BY <2>1, <2>2, <2>3 DEF KeepsAges
<1>3. CASE Stat(p) /\ p \notin DOMAIN remote
  <2>1. \A q \in DOMAIN idx'.attrs : q \in DOMAIN idx.attrs /\ idx'.attrs[q] = idx.attrs[q]
    BY <1>3 DEF GetattrIdx, Revalidated, RemoveEntry, Index, Drop
  <2> QED BY <1>3, <2>1 DEF KeepsAges, GetattrValidated
<1> QED BY <1>1, <1>2, <1>3

LEMMA InternKeeps ==
    ASSUME NodesOK, NEW S \in SUBSET Paths, IsFiniteSet(S), Intern(S)
    PROVE  KeepsNodes /\ \A p \in S : nodeToPath'[pathToNode'[p]] = p
<1>1. NodesOK' /\ KeepsNodes /\ S \subseteq DOMAIN pathToNode'
  BY InternNodes DEF KeepsNodes
<1> QED BY <1>1 DEF NodesOK

LEMMA StaleBrowse ==
    ASSUME VfsInv, StaleInv, Browse
    PROVE  KeepsAges /\ DirsKnown' /\ HandlePaths'
<1>0. NodesOK /\ HandlesOK /\ HandlePaths /\ DirsKnown /\ Parents \subseteq Nodes
  BY DEF VfsInv, StaleInv, Parents
<1>1. ASSUME NEW n \in Parents, NEW name \in NamesBelow(n),
             LookupCached(n, name) \/ LookupFound(n, name)
      PROVE  KeepsAges /\ DirsKnown' /\ HandlePaths'
  <2> DEFINE p == Append(nodeToPath[n], name)
  <2>1. p \in Paths
    BY <1>0, ChildPath
  <2>2. Intern({p}) /\ UNCHANGED <<remote, handles>>
    BY <1>1 DEF LookupCached, LookupFound, envVars, handleVars
  <2>3. HandlePaths'
    BY <1>0, <2>1, <2>2, InternKeeps, FS_Singleton, HandlePathsStep
  <2>4. KeepsAges
    <3>1. CASE LookupCached(n, name)
      BY <3>1 DEF LookupCached, KeepsAges
    <3>2. CASE LookupFound(n, name)
      <4>1. /\ p \in DOMAIN remote /\ idx' = Revalidated(p)
            /\ validated' = Put(validated, p, clock)
        BY <3>2 DEF LookupFound
      <4>2. \A q \in DOMAIN validated' :
                q # p => q \in DOMAIN validated /\ validated'[q] = validated[q]
        BY <4>1 DEF Put
      <4> HIDE DEF p
      <4> QED BY <2>2, <4>1, <4>2, AgesStat
    <3> QED BY <1>1, <3>1, <3>2
  <2> QED BY <1>0, <2>2, <2>3, <2>4 DEF DirsKnown
<1>2. ASSUME NEW n \in Parents, NEW name \in NamesBelow(n), LookupMissing(n, name)
      PROVE  KeepsAges /\ DirsKnown' /\ HandlePaths'
  <2>1. PICK p : idx' = Revalidated(p)
    BY <1>2 DEF LookupMissing
  <2>2. UNCHANGED <<remote, nodeToPath, handles, validated>>
    BY <1>2 DEF LookupMissing, envVars, nodeVars, handleVars
  <2>3. KeepsAges
    BY <2>1, <2>2, AgesStat
  <2> QED BY <1>0, <2>2, <2>3 DEF DirsKnown, HandlePaths
<1>3. ASSUME NEW n \in Nodes, Getattr(n)
      PROVE  KeepsAges /\ DirsKnown' /\ HandlePaths'
  <2>1. /\ idx' = GetattrIdx(nodeToPath[n]) /\ validated' = GetattrValidated(nodeToPath[n])
        /\ UNCHANGED <<remote, nodeToPath, handles>>
    BY <1>3 DEF Getattr, envVars, nodeVars, handleVars
  <2>2. KeepsAges
    BY <2>1, AgesGetattr
  <2> QED BY <1>0, <2>1, <2>2 DEF DirsKnown, HandlePaths
<1> QED BY <1>1, <1>2, <1>3 DEF Browse

LEMMA StaleList ==
    ASSUME VfsInv, StaleInv, List
    PROVE  KeepsAges /\ DirsKnown' /\ HandlePaths'
<1>0. /\ NodesOK /\ HandlesOK /\ HandlePaths /\ DirsKnown
      /\ IdxOK(idx) /\ IsTree(remote)
  BY DEF VfsInv, StaleInv
<1>1. ASSUME NEW n \in Nodes, ReaddirCached(n)
      PROVE  KeepsAges /\ DirsKnown' /\ HandlePaths'
  <2> DEFINE p == nodeToPath[n]
             S == ListedChildren(p)
  <2>1. Intern(S) /\ UNCHANGED <<remote, idx, handles, validated>> /\ p \in DOMAIN idx.listing
    BY <1>1 DEF ReaddirCached, envVars, handleVars
  <2>2. S \subseteq Paths /\ S \subseteq {Append(p, name) : name \in Names}
    BY <1>0, <2>1 DEF ListedChildren, IdxOK
  <2> HIDE DEF S, p
  <2>3. HandlePaths'
    BY <1>0, <2>1, <2>2, FiniteChildren, InternKeeps, HandlePathsStep
  <2> QED BY <1>0, <2>1, <2>3 DEF KeepsAges, DirsKnown
<1>2. ASSUME NEW n \in Nodes, ReaddirRemote(n)
      PROVE  KeepsAges /\ DirsKnown' /\ HandlePaths'
  <2> DEFINE p == nodeToPath[n]
             kids == [name \in ChildrenOf(p) |-> TagOf(remote[Append(p, name)])]
             S == {Append(p, name) : name \in ChildrenOf(p)}
             new == ByPath(p, kids)
  <2>1. /\ idx'.attrs = StoreAttrs(idx, new).attrs
        /\ validated' = [q \in DOMAIN validated \cup S \cup {p} |->
                            IF q \in S \cup {p} THEN clock ELSE validated[q]]
        /\ Intern(S) /\ IsDir(p)
        /\ UNCHANGED <<remote, handles>>
    BY <1>2, IndexFields DEF ReaddirRemote, RecordListing, envVars, handleVars
  <2>2. /\ S \subseteq Paths /\ p \in Seq(Names)
        /\ S \subseteq {Append(p, name) : name \in Names}
        /\ S \subseteq DOMAIN remote /\ DOMAIN new = S
    BY <1>0, PathsSeq DEF ChildrenOf, IsTree, NodesOK, Nodes, ByPath
  <2>3. ASSUME NEW q \in S PROVE new[q] = TagOf(remote[q])
    <3>1. PICK name \in ChildrenOf(p) : q = Append(p, name)
      OBVIOUS
    <3>2. q[Len(q)] = name
      BY <2>2, <3>1 DEF ChildrenOf
    <3> QED BY <3>1, <3>2 DEF ByPath
  <2> HIDE DEF kids, S, p, new
  <2>4. HandlePaths'
    BY <1>0, <2>1, <2>2, FiniteChildren, InternKeeps, HandlePathsStep
  <2>5. /\ DOMAIN idx'.attrs = DOMAIN idx.attrs \cup S
        /\ \A q \in S : idx'.attrs[q] = TagOf(remote[q])
        /\ \A q \in DOMAIN idx.attrs : q \notin S => idx'.attrs[q] = idx.attrs[q]
    BY <2>1, <2>2, <2>3 DEF StoreAttrs, Index
  <2>6. \A q \in S : AttrsTrue(q)'
    BY <2>1, <2>2, <2>5 DEF AttrsTrue
  <2>7. p \in Dirs
    BY <1>0, <2>1 DEF DirsKnown, IsDir
  <2>8. KeepsAges
    BY <2>1, <2>5, <2>6, <2>7 DEF KeepsAges
  <2> QED BY <1>0, <2>1, <2>4, <2>8 DEF DirsKnown
<1> QED BY <1>1, <1>2 DEF List

LEMMA StaleFiles ==
    ASSUME VfsInv, StaleInv, ReadFiles \/ CloseFiles \/ WriteFiles
    PROVE  KeepsAges /\ DirsKnown' /\ HandlePaths'
<1>0. NodesOK /\ HandlesOK /\ HandlePaths /\ DirsKnown
  BY DEF VfsInv, StaleInv
<1>1. ASSUME NEW n \in Nodes, Open(n)
      PROVE  KeepsAges /\ DirsKnown' /\ HandlePaths'
  <2>1. OpenHandle(n, nodeToPath[n]) /\ UNCHANGED <<remote, idx, nodeToPath, validated>>
    BY <1>1 DEF Open, envVars, nodeVars
  <2>2. HandlePaths'
    BY <1>0, <2>1, OpenHandlePaths DEF KeepsNodes
  <2> QED BY <1>0, <2>1, <2>2 DEF KeepsAges, DirsKnown
<1>2. ASSUME NEW h \in DOMAIN handles, NEW off, Read(h, off)
      PROVE  KeepsAges /\ DirsKnown' /\ HandlePaths'
  <2> DEFINE p == handles[h].path
             after == GetattrIdx(p)
             fetched == RecordChunk(after, p, after.attrs[p], 1, off, Fetched(p, off))
             miss(a) == off < a[1] /\ ~HasChunk(after, p, a, 1, off)
             fetch == p \in DOMAIN after.attrs /\ miss(after.attrs[p]) /\ Online /\ IsFile(p)
  <2>1. p = nodeToPath[handles[h].node]
    BY <1>0 DEF HandlePaths
  <2>2. /\ validated' = GetattrValidated(p) /\ UNCHANGED <<remote, nodeToPath, handles>>
        /\ idx' = IF fetch THEN fetched ELSE after
    BY <1>2, <2>1 DEF Read, envVars, nodeVars, handleVars
  <2>3. p \in DOMAIN after.attrs => fetched.attrs = after.attrs
    BY DEF RecordChunk, Index
  <2> HIDE DEF p, fetched
  <2>4. KeepsAges
    BY <2>2, <2>3, AgesGetattr
  <2> QED BY <1>0, <2>2, <2>4 DEF DirsKnown, HandlePaths
<1>3. ASSUME NEW h \in DOMAIN handles, Release(h)
      PROVE  KeepsAges /\ DirsKnown' /\ HandlePaths'
  <2>1. handles' = Drop(handles, {h}) /\ UNCHANGED <<remote, idx, nodeToPath, validated>>
    BY <1>3 DEF Release, envVars, nodeVars
  <2>2. HandlePaths'
    BY <1>0, <2>1 DEF HandlePaths, Drop
  <2> QED BY <1>0, <2>1, <2>2 DEF KeepsAges, DirsKnown
<1>4. ASSUME NEW p, NEW data, remote' = Put(remote, p, FileOf(data, clock)), Written(p)
      PROVE  KeepsAges /\ DirsKnown'
  <2>1. idx'.attrs = idx.attrs
    BY <1>4 DEF Written, InvalidateContent, Index
  <2>2. \A q \in DOMAIN validated' : q \in DOMAIN validated /\ validated'[q] = validated[q]
    BY <1>4 DEF Written, Drop
  <2>3. DirsKnown'
    BY <1>0, <1>4 DEF DirsKnown, Put, FileOf
  <2> QED BY <2>1, <2>2, <2>3 DEF KeepsAges
<1>5. ASSUME NEW n \in Nodes, OpenTruncate(n)
      PROVE  KeepsAges /\ DirsKnown' /\ HandlePaths'
  <2>1. /\ OpenHandle(n, nodeToPath[n]) /\ Written(nodeToPath[n])
        /\ remote' = Put(remote, nodeToPath[n], FileOf(<<>>, clock)) /\ UNCHANGED nodeToPath
    BY <1>5 DEF OpenTruncate, nodeVars
  <2>2. HandlePaths'
    BY <1>0, <2>1, OpenHandlePaths DEF KeepsNodes
  <2> QED BY <1>4, <2>1, <2>2
<1>6. ASSUME NEW h \in DOMAIN handles, NEW off, NEW v, Write(h, off, v)
      PROVE  KeepsAges /\ DirsKnown' /\ HandlePaths'
  <2>1. PICK p, data : Written(p) /\ remote' = Put(remote, p, FileOf(data, clock))
    BY <1>6 DEF Write
  <2>2. UNCHANGED <<nodeToPath, handles>>
    BY <1>6 DEF Write, nodeVars, handleVars
  <2> QED BY <1>0, <1>4, <2>1, <2>2 DEF HandlePaths
<1> QED BY <1>1, <1>2, <1>3, <1>5, <1>6 DEF ReadFiles, CloseFiles, WriteFiles

LEMMA StaleMake ==
    ASSUME VfsInv, StaleInv, MakeAndRemove
    PROVE  KeepsAges /\ DirsKnown' /\ HandlePaths'
<1>0. NodesOK /\ HandlesOK /\ HandlePaths /\ DirsKnown /\ Parents \subseteq Nodes
  BY DEF VfsInv, StaleInv, Parents
<1>1. ASSUME NEW n \in Parents, NEW name \in NamesBelow(n), NEW r, Made(n, name, r),
             r.kind = "dir" => Append(nodeToPath[n], name) \in Dirs
      PROVE  LET p == Append(nodeToPath[n], name)
             IN  KeepsAges /\ DirsKnown' /\ KeepsNodes /\ nodeToPath'[pathToNode'[p]] = p
  <2>0. PICK d, p : d = nodeToPath[n] /\ p = Append(d, name)
    OBVIOUS
  <2> DEFINE new == [q \in {p} |-> TagOf(r)]
  <2>1. p \in Paths
    BY <1>0, <2>0, ChildPath
  <2>2. /\ remote' = Put(remote, p, r)
        /\ idx' = InvalidateChildren(StoreAttrs(idx, new), d)
        /\ validated' = Put(validated, p, clock)
        /\ Intern({p})
    BY <1>1, <2>0 DEF Made
  <2>3. /\ DOMAIN idx'.attrs = DOMAIN idx.attrs \cup {p} /\ idx'.attrs[p] = TagOf(r)
        /\ \A q \in DOMAIN idx.attrs : q # p => idx'.attrs[q] = idx.attrs[q]
    BY <2>2 DEF InvalidateChildren, StoreAttrs, Index
  <2> HIDE DEF new
  <2>4. KeepsNodes /\ nodeToPath'[pathToNode'[p]] = p
    BY <1>0, <2>1, <2>2, InternKeeps, FS_Singleton
  <2>5. AttrsTrue(p)'
    BY <2>2, <2>3 DEF AttrsTrue, Put
  <2>6. \A q \in DOMAIN validated' :
            q # p => q \in DOMAIN validated /\ validated'[q] = validated[q]
    BY <2>2 DEF Put
  <2>7. DirsKnown'
    BY <1>0, <1>1, <2>0, <2>2 DEF DirsKnown, Put
  <2>8. KeepsAges
    BY <2>3, <2>5, <2>6 DEF KeepsAges
  <2> QED BY <2>0, <2>4, <2>7, <2>8
<1>2. ASSUME NEW n \in Parents, NEW name \in NamesBelow(n), Create(n, name)
      PROVE  KeepsAges /\ DirsKnown' /\ HandlePaths'
  <2> DEFINE p == Append(nodeToPath[n], name)
  <2>1. /\ Made(n, name, FileOf(<<>>, clock)) /\ OpenHandle(pathToNode'[p], p)
        /\ FileOf(<<>>, clock).kind # "dir"
    BY <1>2 DEF Create, FileOf
  <2>2. KeepsAges /\ DirsKnown' /\ KeepsNodes /\ nodeToPath'[pathToNode'[p]] = p
    BY <1>1, <2>1
  <2> HIDE DEF p
  <2> QED BY <1>0, <2>1, <2>2, OpenHandlePaths
<1>3. ASSUME NEW n \in Parents, NEW name \in NamesBelow(n), Mkdir(n, name)
      PROVE  KeepsAges /\ DirsKnown' /\ HandlePaths'
  <2>1. /\ Made(n, name, Directory) /\ UNCHANGED handles
        /\ Append(nodeToPath[n], name) \in Dirs
    BY <1>3 DEF Mkdir, handleVars
  <2>2. KeepsAges /\ DirsKnown' /\ KeepsNodes
    BY <1>1, <2>1
  <2> QED BY <1>0, <2>1, <2>2, HandlePathsStep
<1>4. ASSUME NEW n, NEW name, Remove(n, name)
      PROVE  KeepsAges /\ DirsKnown' /\ HandlePaths'
  <2>1. PICK p, d : /\ remote' = Drop(remote, {p})
                    /\ idx' = InvalidateChildren(RemoveEntry(idx, p), d)
    BY <1>4 DEF Remove
  <2>2. UNCHANGED <<nodeToPath, handles, validated>>
    BY <1>4 DEF Remove, nodeVars, handleVars
  <2>3. \A q \in DOMAIN idx'.attrs : q \in DOMAIN idx.attrs /\ idx'.attrs[q] = idx.attrs[q]
    BY <2>1 DEF InvalidateChildren, RemoveEntry, Index, Drop
  <2>4. DirsKnown'
    BY <1>0, <2>1 DEF DirsKnown, Drop
  <2> QED BY <1>0, <2>2, <2>3, <2>4 DEF KeepsAges, HandlePaths
<1> QED BY <1>2, <1>3, <1>4 DEF MakeAndRemove

LEMMA StaleSetattr ==
    ASSUME StaleInv, Setattrs
    PROVE  KeepsAges /\ DirsKnown' /\ HandlePaths'
<1>0. HandlePaths /\ DirsKnown
  BY DEF StaleInv
<1>1. PICK n \in Nodes : Setattr(n)
  BY DEF Setattrs
<1>a. PICK p : p = nodeToPath[n]
  OBVIOUS
<1>2. /\ p \in DOMAIN remote /\ validated' = Put(validated, p, clock)
      /\ UNCHANGED <<nodeToPath, handles>>
  BY <1>1, <1>a DEF Setattr, nodeVars, handleVars
<1>3. PICK r \in SetattrResults(p) :
         remote' = Put(remote, p, r) /\ idx' = StoreAttrs(idx, [q \in {p} |-> TagOf(r)])
  BY <1>1, <1>a DEF Setattr
<1>4. /\ DOMAIN idx'.attrs = DOMAIN idx.attrs \cup {p} /\ idx'.attrs[p] = TagOf(r)
      /\ \A q \in DOMAIN idx.attrs : q # p => idx'.attrs[q] = idx.attrs[q]
  BY <1>3 DEF StoreAttrs, Index
<1>5. AttrsTrue(p)'
  BY <1>3, <1>4 DEF AttrsTrue, Put
<1>6. \A q \in DOMAIN validated' :
          q # p => q \in DOMAIN validated /\ validated'[q] = validated[q]
  BY <1>2 DEF Put
<1>7. DirsKnown'
  BY <1>0, <1>2, <1>3, SetattrResultsFacts DEF DirsKnown, Put
<1> QED BY <1>0, <1>2, <1>4, <1>5, <1>6, <1>7 DEF KeepsAges, HandlePaths

LEMMA NextStale ==
    ASSUME "rename" \notin Ops, VfsInv, StaleInv, [SharedNext]_sharedVars
    PROVE  StaleInv'
<1>0. VfsInv' /\ AgesOK /\ DirsKnown /\ HandlePaths
  BY NextSharedVfs DEF StaleInv
<1>1. CASE Next /\ Aged
  <2>1. KeepsAges /\ DirsKnown' /\ HandlePaths'
    <3>1. CASE LinkChange \/ Tick
      <4>1. UNCHANGED <<remote, idx, nodeToPath, handles, validated>>
        BY <3>1 DEF LinkChange, Tick, nodeVars, handleVars
      <4> QED BY <1>0, <4>1 DEF KeepsAges, DirsKnown, HandlePaths
    <3> QED BY <1>1, <3>1, StaleBrowse, StaleList, StaleFiles, StaleMake, StaleSetattr DEF Next
  <2> QED BY <1>0, <1>1, <2>1, AgesStep DEF StaleInv, VfsInv
<1>2. CASE OtherStep /\ Aged
  <2>1. UNCHANGED <<idx, nodeToPath, handles, validated>>
    BY <1>2 DEF OtherStep, OtherClient, nodeVars, handleVars
  <2>2. DirsKnown'
    <3>1. PICK p : \/ \E r \in Versions : remote' = Put(remote, p, r)
                   \/ remote' = Drop(remote, {p})
      BY <1>2 DEF OtherStep, OtherClient
    <3>2. \A r \in Versions : r.kind # "dir"
      BY DEF Versions, FileOf
    <3> QED BY <1>0, <3>1, <3>2 DEF DirsKnown, Put, Drop
  <2> QED BY <1>0, <1>2, <2>1, <2>2, AgesStep DEF StaleInv, VfsInv, KeepsAges, HandlePaths
<1>3. CASE Remount /\ Aged
  <2>1. /\ UNCHANGED <<idx, remote>> /\ DOMAIN validated' = {} /\ DOMAIN handles' = {}
    BY <1>3 DEF Remount, NoMap
  <2> QED BY <1>0, <1>3, <2>1, AgesStep DEF StaleInv, VfsInv, KeepsAges, HandlePaths, DirsKnown
<1>4. CASE UNCHANGED sharedVars
  BY <1>4 DEF sharedVars, vars, StaleInv, AgesOK, DirsKnown, HandlePaths
<1> QED BY <1>1, <1>2, <1>3, <1>4, SharedNextSplit

\* Attributes of a file that getattr and lookup serve without asking were the
\* server's less than a TTL ago, whatever other clients did, whether the server
\* could be reached, and across remounts: what is validated is only ever set
\* together with attributes that are true.
THEOREM AttrsBoundedStaleTheorem ==
    ASSUME "rename" \notin Ops
    PROVE  SharedSpec => []AttrsBoundedStale
<1>1. SharedInit => StaleInv
  <2> SUFFICES ASSUME SharedInit PROVE StaleInv
    OBVIOUS
  <2>1. DirsKnown
    BY VfsAssumption DEF SharedInit, Init, DirsKnown, Directory
  <2> QED BY <2>1 DEF SharedInit, Init, Mounted, EmptyIndex, Index, NoMap, StaleInv, AgesOK, HandlePaths
<1>2. VfsInv /\ StaleInv /\ [SharedNext]_sharedVars => StaleInv'
  BY NextStale
<1>3. VfsInv /\ StaleInv => AttrsBoundedStale
  BY AgesImply DEF StaleInv
<1> QED BY <1>1, <1>2, <1>3, SharedVfsInvariant, PTL DEF SharedSpec

-----------------------------------------------------------------------------
(* Server wins: cached bytes and what other clients write.                 *)

\* Chunks are below the size they were fetched under, and hold the file's bytes
\* as far as it reaches, unless the file has another modification time by now.
VersionsTrueIn(i, r) ==
    \A p \in DOMAIN i.content :
        \A c \in DOMAIN i.content[p].chunks :
            /\ c \in Nat /\ c < i.content[p].tag[1]
            /\ p \in DOMAIN r /\ r[p].kind = "file" /\ i.content[p].tag[2] = r[p].mtime
                 /\ c < Len(r[p].data)
               => i.content[p].chunks[c] = r[p].data[c + 1]

\* Content stays or goes, and of what stays the file stays or goes.
LEMMA VersionsKept ==
    ASSUME NEW i, NEW j, NEW r, NEW s, VersionsTrueIn(i, r),
           \A p \in DOMAIN j.content :
              /\ p \in DOMAIN i.content /\ j.content[p] = i.content[p]
              /\ p \in DOMAIN s /\ s[p].kind = "file" => p \in DOMAIN r /\ s[p] = r[p]
    PROVE  VersionsTrueIn(j, s)
BY DEF VersionsTrueIn

LEMMA VersionsStat ==
    ASSUME VersionsTrueIn(idx, remote), NEW p
    PROVE  VersionsTrueIn(Revalidated(p), remote) /\ VersionsTrueIn(GetattrIdx(p), remote)
<1>1. /\ DOMAIN Revalidated(p).content \subseteq DOMAIN idx.content
      /\ \A q \in DOMAIN Revalidated(p).content : Revalidated(p).content[q] = idx.content[q]
  BY DEF Revalidated, StoreAttrs, RemoveEntry, Index, Drop
<1>2. VersionsTrueIn(Revalidated(p), remote)
  BY <1>1, VersionsKept
<1> QED BY <1>2 DEF GetattrIdx

LEMMA VersionsChunk ==
    ASSUME NEW i, VersionsTrueIn(i, remote), NEW p, IsFile(p), NEW tag, NEW off \in Nat,
           off < tag[1]
    PROVE  VersionsTrueIn(RecordChunk(i, p, tag, 1, off, Fetched(p, off)), remote)
<1> DEFINE o == Fetched(p, off)
           kept == IF ContentMatches(i, p, tag, 1) THEN i.content[p].chunks ELSE NoMap
           ref == ContentRef(tag, 1, Put(kept, off, o))
           j == RecordChunk(i, p, tag, 1, off, o)
           good(c, x) == /\ c \in Nat /\ c < tag[1]
                         /\ tag[2] = remote[p].mtime /\ c < Len(remote[p].data)
                              => x = remote[p].data[c + 1]
<1>1. j.content = Put(i.content, p, ref) /\ ref.tag = tag /\ ref.chunks = Put(kept, off, o)
  BY DEF RecordChunk, Index, ContentRef
<1>2. \A c \in DOMAIN kept : good(c, kept[c])
  BY DEF VersionsTrueIn, ContentMatches, NoMap, IsFile
<1>3. good(off, o)
  BY DEF Fetched
<1> HIDE DEF j, kept, o, ref
<1>4. \A c \in DOMAIN Put(kept, off, o) : good(c, Put(kept, off, o)[c])
  BY <1>2, <1>3 DEF Put
<1>5. /\ DOMAIN j.content = DOMAIN i.content \cup {p} /\ j.content[p] = ref
      /\ \A q \in DOMAIN i.content : q # p => j.content[q] = i.content[q]
  BY <1>1 DEF Put
<1>6. VersionsTrueIn(j, remote)
  <2> SUFFICES ASSUME NEW q \in DOMAIN j.content, NEW c \in DOMAIN j.content[q].chunks
               PROVE  /\ c \in Nat /\ c < j.content[q].tag[1]
                      /\ q \in DOMAIN remote /\ remote[q].kind = "file"
                           /\ j.content[q].tag[2] = remote[q].mtime /\ c < Len(remote[q].data)
                         => j.content[q].chunks[c] = remote[q].data[c + 1]
    BY DEF VersionsTrueIn
  <2>1. CASE q = p
    <3>1. /\ j.content[q].chunks = Put(kept, off, o)
          /\ j.content[q].tag = tag
      BY <1>1, <1>5, <2>1
    <3>2. good(c, Put(kept, off, o)[c])
      BY <1>4, <3>1
    <3> QED BY <2>1, <3>1, <3>2
  <2>2. CASE q # p
    <3>1. q \in DOMAIN i.content /\ j.content[q] = i.content[q]
      BY <1>5, <2>2
    <3> QED BY <3>1 DEF VersionsTrueIn
  <2> QED BY <2>1, <2>2
<1> QED BY <1>6 DEF j, o

LEMMA NextVersions ==
    ASSUME "rename" \notin Ops, "setattr" \notin Ops, VersionsTrueIn(idx, remote), Next
    PROVE  VersionsTrueIn(idx', remote')
<1>1. CASE UNCHANGED <<idx, remote>>
  BY <1>1
<1>2. CASE Browse
  <2>1. remote' = remote /\ (idx' = idx \/ \E p : idx' = Revalidated(p) \/ idx' = GetattrIdx(p))
    BY <1>2 DEF Browse, LookupCached, LookupFound, LookupMissing, Getattr, envVars
  <2> QED BY <2>1, VersionsStat
<1>3. CASE List
  <2>1. CASE \E n \in Nodes : ReaddirCached(n)
    BY <1>1, <2>1 DEF ReaddirCached, envVars
  <2>2. CASE \E n \in Nodes : ReaddirRemote(n)
    <3>1. PICK p, kids : idx' = RecordListing(idx, p, kids) /\ remote' = remote
      BY <2>2 DEF ReaddirRemote, envVars
    <3>2. PICK new : idx'.content = Drop(idx.content, StalePaths(idx, new))
      BY <3>1 DEF RecordListing, StoreAttrs, Index
    <3>3. \A q \in DOMAIN idx'.content : q \in DOMAIN idx.content /\ idx'.content[q] = idx.content[q]
      BY <3>2 DEF Drop
    <3> QED BY <3>1, <3>3, VersionsKept
  <2> QED BY <1>3, <2>1, <2>2 DEF List
<1>4. CASE ReadFiles
  <2>1. CASE \E n \in Nodes : Open(n)
    BY <1>1, <2>1 DEF Open, envVars
  <2>2. ASSUME NEW h \in DOMAIN handles, NEW off \in 0..(MaxLen - 1), Read(h, off)
        PROVE  VersionsTrueIn(idx', remote')
    <3> DEFINE p == handles[h].path
               q == nodeToPath[handles[h].node]
               after == GetattrIdx(q)
    <3>1. /\ remote' = remote
          /\ \/ idx' = after
             \/ /\ idx' = RecordChunk(after, p, after.attrs[q], 1, off, Fetched(p, off))
                /\ off < after.attrs[q][1] /\ IsFile(p)
      BY <2>2 DEF Read, envVars
    <3>2. VersionsTrueIn(after, remote) /\ off \in Nat
      BY VersionsStat, VfsAssumption
    <3> HIDE DEF p, q, after
    <3> QED BY <3>1, <3>2, VersionsChunk
  <2> QED BY <1>4, <2>1, <2>2 DEF ReadFiles
<1>5. CASE CloseFiles
  BY <1>1, <1>5 DEF CloseFiles, Release, envVars
<1>6. ASSUME NEW p, NEW x, remote' = Put(remote, p, x), Written(p)
      PROVE  VersionsTrueIn(idx', remote')
  <2>1. \A q \in DOMAIN idx'.content :
            q \in DOMAIN idx.content /\ idx'.content[q] = idx.content[q] /\ q # p
    BY <1>6 DEF Written, InvalidateContent, Index, Drop
  <2>2. \A q \in DOMAIN remote' : q # p => q \in DOMAIN remote /\ remote'[q] = remote[q]
    BY <1>6 DEF Put
  <2> QED BY <2>1, <2>2, VersionsKept
<1>7. CASE WriteFiles
  BY <1>6, <1>7 DEF WriteFiles, OpenTruncate, Write
<1>8. CASE MakeAndRemove
  <2>1. ASSUME NEW n, NEW name, NEW r, Made(n, name, r), r = Directory \/ r.data = <<>>
        PROVE  VersionsTrueIn(idx', remote')
    <3>1. PICK p, d : /\ p \notin DOMAIN remote /\ remote' = Put(remote, p, r)
                      /\ idx' = InvalidateChildren(StoreAttrs(idx, [q \in {p} |-> TagOf(r)]), d)
      BY <2>1 DEF Made
    <3>2. \A q \in DOMAIN idx'.content :
              /\ q \in DOMAIN idx.content /\ idx'.content[q] = idx.content[q]
              /\ q = p => idx.content[p].tag = TagOf(r)
      BY <3>1 DEF InvalidateChildren, StoreAttrs, StalePaths, Index, Drop
    <3>3. remote'[p] = r /\ \A q \in DOMAIN remote' : q # p => q \in DOMAIN remote /\ remote'[q] = remote[q]
      BY <3>1 DEF Put
    <3>4. Len(r.data) = 0
      BY <2>1 DEF Directory
    <3> SUFFICES ASSUME NEW q \in DOMAIN idx'.content, NEW c \in DOMAIN idx'.content[q].chunks
                 PROVE  /\ c \in Nat /\ c < idx'.content[q].tag[1]
                        /\ q \in DOMAIN remote' /\ remote'[q].kind = "file"
                             /\ idx'.content[q].tag[2] = remote'[q].mtime
                             /\ c < Len(remote'[q].data)
                           => idx'.content[q].chunks[c] = remote'[q].data[c + 1]
      BY DEF VersionsTrueIn
    <3>5. c \in Nat /\ c < idx'.content[q].tag[1]
      BY <3>2 DEF VersionsTrueIn
    <3>6. CASE q = p
      BY <3>3, <3>4, <3>5, <3>6
    <3>7. CASE q # p
      BY <3>2, <3>3, <3>5, <3>7 DEF VersionsTrueIn
    <3> QED BY <3>6, <3>7
  <2>2. ASSUME NEW n, NEW name, Remove(n, name)
        PROVE  VersionsTrueIn(idx', remote')
    <3>1. PICK p, d : /\ remote' = Drop(remote, {p})
                      /\ idx' = InvalidateChildren(RemoveEntry(idx, p), d)
      BY <2>2 DEF Remove
    <3>2. \A q \in DOMAIN idx'.content :
              q \in DOMAIN idx.content /\ idx'.content[q] = idx.content[q] /\ q # p
      BY <3>1 DEF InvalidateChildren, RemoveEntry, Index, Drop
    <3>3. \A q \in DOMAIN remote' : q \in DOMAIN remote /\ remote'[q] = remote[q]
      BY <3>1 DEF Drop
    <3> QED BY <3>2, <3>3, VersionsKept
  <2>3. FileOf(<<>>, clock).data = <<>>
    BY DEF FileOf
  <2> QED BY <1>8, <2>1, <2>2, <2>3 DEF MakeAndRemove, Create, Mkdir
<1>9. CASE LinkChange \/ Tick
  BY <1>1, <1>9 DEF LinkChange, Tick
<1> QED BY <1>2, <1>3, <1>4, <1>5, <1>7, <1>8, <1>9 DEF Next

\* Another client's version of a file has another modification time than the
\* content that is cached.
LEMMA OtherVersions ==
    ASSUME VfsInv, VersionsTrueIn(idx, remote), OtherStep
    PROVE  VersionsTrueIn(idx', remote')
<1>0. clock \in Nat
  BY VfsAssumption DEF VfsInv, MountOK
<1>1. ASSUME NEW p, NEW r \in Versions, OtherClient(p, Put(remote, p, r))
      PROVE  VersionsTrueIn(idx', remote')
  <2>1. /\ idx' = idx /\ remote' = Put(remote, p, r) /\ r.mtime = clock
        /\ p \in DOMAIN idx.content => idx.content[p].tag[2] < clock
    BY <1>1 DEF OtherClient, Versions, FileOf
  <2>2. /\ remote'[p] = r
        /\ \A q \in DOMAIN remote' : q # p => q \in DOMAIN remote /\ remote'[q] = remote[q]
    BY <2>1 DEF Put
  <2>3. p \in DOMAIN idx.content => idx.content[p].tag[2] # remote'[p].mtime
    BY <1>0, <2>1, <2>2
  <2> QED BY <2>1, <2>2, <2>3 DEF VersionsTrueIn
<1>2. ASSUME NEW p, OtherClient(p, Drop(remote, {p}))
      PROVE  VersionsTrueIn(idx', remote')
  <2>1. idx' = idx /\ \A q \in DOMAIN remote' : q \in DOMAIN remote /\ remote'[q] = remote[q]
    BY <1>2 DEF OtherClient, Drop
  <2> QED BY <2>1, VersionsKept
<1> QED BY <1>1, <1>2 DEF OtherStep

LEMMA VersionsCurrent ==
    ASSUME VersionsTrueIn(idx, remote)
    PROVE  ContentCurrent
<1> SUFFICES ASSUME NEW p \in DOMAIN idx.content, IsFile(p), idx.content[p].tag = TagOf(remote[p]),
                    NEW c \in DOMAIN idx.content[p].chunks
             PROVE  idx.content[p].chunks[c] = remote[p].data[c + 1]
  BY DEF ContentCurrent
<1>1. idx.content[p].tag[1] = Len(remote[p].data) /\ idx.content[p].tag[2] = remote[p].mtime
  BY DEF TagOf
<1> QED BY <1>1 DEF VersionsTrueIn, IsFile

\* read serves no bytes of an overwritten version when the attributes are the
\* server's, although chunks are fetched under attributes that other clients
\* have outdated, and across remounts (their versions differ in mtime, and this
\* mount neither renames nor sets modification times back).
THEOREM SharedContentCurrent ==
    ASSUME "rename" \notin Ops, "setattr" \notin Ops
    PROVE  SharedSpec => []ContentCurrent
<1> DEFINE Versioned == VersionsTrueIn(idx, remote)
<1>1. SharedInit => Versioned
  BY DEF SharedInit, Init, Mounted, EmptyIndex, Index, NoMap, VersionsTrueIn
<1>2. VfsInv /\ Versioned /\ [SharedNext]_sharedVars => Versioned'
  <2> SUFFICES ASSUME VfsInv, VersionsTrueIn(idx, remote), [SharedNext]_sharedVars
               PROVE  VersionsTrueIn(idx', remote')
    OBVIOUS
  <2>1. CASE Remount \/ UNCHANGED sharedVars
    <3>1. UNCHANGED <<idx, remote>>
      BY <2>1 DEF Remount, sharedVars, vars
    <3> QED BY <3>1
  <2> QED BY <2>1, SharedNextSplit, NextVersions, OtherVersions
<1>3. Versioned => ContentCurrent
  BY VersionsCurrent
<1> HIDE DEF Versioned
<1> QED BY <1>1, <1>2, <1>3, SharedVfsInvariant, PTL DEF SharedSpec
=============================================================================
