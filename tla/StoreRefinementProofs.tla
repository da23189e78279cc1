----------------------- MODULE StoreRefinementProofs ------------------------
(***************************************************************************)
(* Store implements ChunkCache: under the mapping of StoreRefinement every *)
(* step of the store is a step of the abstract cache or none at all.       *)
(***************************************************************************)
EXTENDS StoreRefinement, StoreProofs

-----------------------------------------------------------------------------
(* The refinement mapping as a function of the contents and the files, so  *)
(* that a state and its successor can be compared.                         *)

ResolvedIn(content, fs) ==
    [tag |-> content.tag, csize |-> content.csize,
     chunks |-> [c \in {d \in DOMAIN content.chunks : content.chunks[d] \in DOMAIN fs} |->
                    fs[content.chunks[c]]]]

ResolveIn(contents, fs) == [p \in DOMAIN contents |-> ResolvedIn(contents[p], fs)]

LEMMA ResolveNow ==
    /\ Resolve(mem) = ResolveIn(mem.content, files)
    /\ Resolve(disk) = ResolveIn(disk.content, files)
    /\ Resolve(mem)' = ResolveIn(mem'.content, files')
    /\ Resolve(disk)' = ResolveIn(disk'.content, files')
BY DEF Resolve, Resolved, ResolveIn, ResolvedIn

\* The abstract cache's operations on maps are those of the index.
LEMMA SameMaps ==
    /\ \A f, S : Cache!Without(f, S) = Drop(f, S)
    /\ \A f, k, v : Cache!With(f, k, v) = Put(f, k, v)
    /\ Cache!Nothing = NoMap
BY DEF Cache!Without, Cache!With, Cache!Nothing, Drop, Put, NoMap

\* Two sets of files that agree on the objects of the contents resolve them alike.
LEMMA ResolveSame ==
    ASSUME NEW contents, NEW fs, NEW gs,
           \A p \in DOMAIN contents : \A c \in DOMAIN contents[p].chunks :
              LET o == contents[p].chunks[c]
              IN  /\ o \in DOMAIN fs <=> o \in DOMAIN gs
                  /\ o \in DOMAIN fs => fs[o] = gs[o]
    PROVE  ResolveIn(contents, fs) = ResolveIn(contents, gs)
<1>1. ASSUME NEW p \in DOMAIN contents
      PROVE  ResolvedIn(contents[p], fs) = ResolvedIn(contents[p], gs)
  <2> DEFINE A == {d \in DOMAIN contents[p].chunks : contents[p].chunks[d] \in DOMAIN fs}
             B == {d \in DOMAIN contents[p].chunks : contents[p].chunks[d] \in DOMAIN gs}
  <2>1. A = B
    OBVIOUS
  <2>2. \A d \in A : fs[contents[p].chunks[d]] = gs[contents[p].chunks[d]]
    OBVIOUS
  <2> QED BY <2>1, <2>2 DEF ResolvedIn
<1> QED BY <1>1 DEF ResolveIn

LEMMA ResolveDrop ==
    ASSUME NEW contents, NEW D, NEW fs
    PROVE  ResolveIn(Drop(contents, D), fs) = Drop(ResolveIn(contents, fs), D)
<1>1. /\ DOMAIN Drop(contents, D) = DOMAIN contents \ D
      /\ \A p \in DOMAIN contents \ D : Drop(contents, D)[p] = contents[p]
  BY DropDomain
<1>2. /\ DOMAIN ResolveIn(contents, fs) = DOMAIN contents
      /\ \A p \in DOMAIN contents : ResolveIn(contents, fs)[p] = ResolvedIn(contents[p], fs)
  BY DEF ResolveIn
<1>3. ResolveIn(Drop(contents, D), fs) = [p \in DOMAIN contents \ D |-> ResolvedIn(contents[p], fs)]
  BY <1>1 DEF ResolveIn
<1>4. Drop(ResolveIn(contents, fs), D) = [p \in DOMAIN contents \ D |-> ResolvedIn(contents[p], fs)]
  BY <1>2 DEF Drop
<1> QED BY <1>3, <1>4

LEMMA ResolvePut ==
    ASSUME NEW contents, NEW k, NEW ref, NEW fs
    PROVE  ResolveIn(Put(contents, k, ref), fs)
             = Put(ResolveIn(contents, fs), k, ResolvedIn(ref, fs))
<1>1. /\ DOMAIN Put(contents, k, ref) = DOMAIN contents \cup {k}
      /\ \A p \in DOMAIN contents \cup {k} :
            Put(contents, k, ref)[p] = IF p = k THEN ref ELSE contents[p]
  BY DEF Put
<1>2. /\ DOMAIN ResolveIn(contents, fs) = DOMAIN contents
      /\ \A p \in DOMAIN contents : ResolveIn(contents, fs)[p] = ResolvedIn(contents[p], fs)
  BY DEF ResolveIn
<1>3. ResolveIn(Put(contents, k, ref), fs)
        = [p \in DOMAIN contents \cup {k} |->
              IF p = k THEN ResolvedIn(ref, fs) ELSE ResolvedIn(contents[p], fs)]
  BY <1>1 DEF ResolveIn
<1>4. Put(ResolveIn(contents, fs), k, ResolvedIn(ref, fs))
        = [p \in DOMAIN contents \cup {k} |->
              IF p = k THEN ResolvedIn(ref, fs) ELSE ResolvedIn(contents[p], fs)]
  BY <1>2 DEF Put
<1> QED BY <1>3, <1>4

-----------------------------------------------------------------------------
(* The initial state, and the steps by kind.                               *)

LEMMA InitRefines == Init => Cache!Init
<1> SUFFICES ASSUME Init PROVE Cache!Init
  OBVIOUS
<1>1. mem.content = NoMap /\ disk.content = NoMap /\ chunkSize \in ChunkSizes
  BY DEF Init, EmptyIndex, Index
<1>2. Resolve(mem) = NoMap /\ Resolve(disk) = NoMap
  BY <1>1 DEF Resolve, NoMap
<1> QED BY <1>1, <1>2, SameMaps DEF Cache!Init

\* Steps that touch neither contents nor files.
LEMMA QuietRefines ==
    ASSUME mem'.content = mem.content, disk'.content = disk.content, files' = files,
           chunkSize' = chunkSize
    PROVE  UNCHANGED Cache!cacheVars
BY ResolveNow DEF Cache!cacheVars

\* A step that forgets the contents of some paths, and may write the index.
LEMMA ForgetRefines ==
    ASSUME NEW D \in SUBSET Paths, mem'.content = Drop(mem.content, D),
           disk'.content = mem'.content \/ disk' = disk, files' = files, chunkSize' = chunkSize
    PROVE  Cache!Forget(D)
<1>1. Resolve(mem)' = Cache!Without(Resolve(mem), D)
  BY ResolveNow, ResolveDrop, SameMaps
<1>2. Resolve(disk)' = Resolve(mem)' \/ Resolve(disk)' = Resolve(disk)
  BY ResolveNow
<1> QED BY <1>1, <1>2 DEF Cache!Forget, Cache!MaySave

\* A downloaded file has an id that nothing refers to: it changes no chunk.
LEMMA DownloadRefines ==
    ASSUME StoreInv, NEW t \in Threads, Download(t)
    PROVE  UNCHANGED Cache!cacheVars
<1>1. /\ mem' = mem /\ disk' = disk /\ chunkSize' = chunkSize
      /\ pc[t] = "download" /\ DOMAIN files' = DOMAIN files \cup {obj[t]}
      /\ \A o \in DOMAIN files : o # obj[t] => files'[o] = files[o]
  BY DEF Download, Put
<1>2. obj[t] \notin Refs(mem) /\ obj[t] \notin Refs(disk)
  BY <1>1 DEF StoreInv, FreshIds, InFlight
<1>3. ResolveIn(mem.content, files') = ResolveIn(mem.content, files)
  BY <1>1, <1>2, RefsMember, ResolveSame
<1>4. ResolveIn(disk.content, files') = ResolveIn(disk.content, files)
  BY <1>1, <1>2, RefsMember, ResolveSame
<1> QED BY <1>1, <1>3, <1>4, ResolveNow DEF Cache!cacheVars

\* A deleted file takes one chunk of the saved copy away, or nothing: the index
\* in memory does not refer to it, and the one on disk does so at most once.
LEMMA RemoveFileRefines ==
    ASSUME StoreInv, NEW t \in Threads, NEW o \in doomed[t], RemoveFile(t, o),
           UNCHANGED <<mem, disk, chunkSize>>
    PROVE  UNCHANGED Cache!cacheVars \/ \E p \in Paths, c \in Chunks : Cache!Vanish(p, c)
<1>0. /\ IsIndex(disk) /\ Unshared(disk) /\ o \notin Refs(mem)
  BY DEF StoreInv, TypeOK, NoSharedObject, LiveObjectsKept
<1>1. CASE files' = files
  BY <1>1, QuietRefines
<1>2. CASE files' = Drop(files, {o})
  <2>1. /\ DOMAIN files' = DOMAIN files \ {o}
        /\ \A x \in DOMAIN files : x # o => files'[x] = files[x]
    BY <1>2 DEF Drop
  <2>2. Resolve(mem)' = Resolve(mem)
    <3>1. ResolveIn(mem.content, files') = ResolveIn(mem.content, files)
      BY <1>0, <2>1, RefsMember, ResolveSame
    <3> QED BY <3>1, ResolveNow
  <2>3. CASE o \notin Refs(disk) \/ o \notin DOMAIN files
    <3>1. ResolveIn(disk.content, files') = ResolveIn(disk.content, files)
      BY <2>1, <2>3, RefsMember, ResolveSame
    <3> QED BY <2>2, <3>1, ResolveNow DEF Cache!cacheVars
  <2>4. CASE o \in Refs(disk) /\ o \in DOMAIN files
    <3>1. PICK p \in DOMAIN disk.content : \E c \in DOMAIN disk.content[p].chunks :
              o = disk.content[p].chunks[c]
      BY <2>4, RefsMember
    <3>2. PICK c \in DOMAIN disk.content[p].chunks : o = disk.content[p].chunks[c]
      BY <3>1
    <3>3. p \in Paths /\ c \in Chunks
      <4>1. p \in Paths /\ disk.content[p] \in ContentRefs
        BY <1>0 DEF IsIndex, IsMap
      <4> QED BY <3>2, <4>1, ChunkMapMember DEF ContentRefs, IsMap
    <3>4. \A q \in DOMAIN disk.content : \A d \in DOMAIN disk.content[q].chunks :
              disk.content[q].chunks[d] = o => q = p /\ d = c
      BY <1>0, <3>1, <3>2, UnsharedUse
    <3> DEFINE old == ResolveIn(disk.content, files)
               new == ResolveIn(disk.content, files')
    <3>5. \A q \in DOMAIN disk.content : q # p => new[q] = old[q]
      BY <2>1, <3>4 DEF ResolveIn, ResolvedIn
    <3>6. /\ old[p] = ResolvedIn(disk.content[p], files)
          /\ new[p] = ResolvedIn(disk.content[p], files')
          /\ DOMAIN old = DOMAIN disk.content
          /\ DOMAIN new = DOMAIN disk.content
      BY <3>1 DEF ResolveIn
    <3>7. c \in DOMAIN old[p].chunks
      BY <2>4, <3>2, <3>6 DEF ResolvedIn
    <3>8. new[p] = [old[p] EXCEPT !.chunks = Drop(old[p].chunks, {c})]
      <4> DEFINE ref == disk.content[p]
                 A == {d \in DOMAIN ref.chunks : ref.chunks[d] \in DOMAIN files}
                 B == {d \in DOMAIN ref.chunks : ref.chunks[d] \in DOMAIN files'}
      <4>1. B = A \ {c}
        BY <2>1, <3>1, <3>2, <3>4
      <4>2. \A d \in B : files'[ref.chunks[d]] = files[ref.chunks[d]]
        BY <2>1
      <4>3. /\ old[p] = [tag |-> ref.tag, csize |-> ref.csize,
                         chunks |-> [d \in A |-> files[ref.chunks[d]]]]
            /\ new[p] = [tag |-> ref.tag, csize |-> ref.csize,
                         chunks |-> [d \in B |-> files'[ref.chunks[d]]]]
        BY <3>6 DEF ResolvedIn
      <4> HIDE DEF A, B, old, new, ref
      <4>4. Drop(old[p].chunks, {c}) = [d \in B |-> files'[ref.chunks[d]]]
        BY <4>1, <4>2, <4>3 DEF Drop
      <4> QED BY <4>3, <4>4
    <3>9. new = [old EXCEPT ![p].chunks = Drop(old[p].chunks, {c})]
      BY <3>5, <3>6, <3>8 DEF ResolveIn
    <3>10. Cache!Vanish(p, c)
      BY <2>2, <3>1, <3>6, <3>7, <3>9, ResolveNow, SameMaps DEF Cache!Vanish
    <3> QED BY <3>3, <3>10
  <2> QED BY <2>3, <2>4
<1> QED BY <1>1, <1>2 DEF RemoveFile

\* Recording a fetched chunk fills it.
LEMMA RecordRefines ==
    ASSUME StoreInv, NEW t \in Threads, RecordFetched(t)
    PROVE  \E p \in Paths, tag \in Tags, c \in Chunks : Cache!Fill(p, tag, c)
<1> DEFINE p == req[t].path
           tag == req[t].tag
           k == cur[t]
           o == obj[t]
           matches == ContentMatches(mem, p, tag, chunkSize)
           kept == IF matches THEN mem.content[p].chunks ELSE NoMap
           ref == ContentRef(tag, chunkSize, Put(kept, k, o))
<1>0. /\ mem' = RecordChunk(mem, p, tag, chunkSize, k, o) /\ pc[t] = "record"
      /\ disk' = disk /\ files' = files /\ chunkSize' = chunkSize
  BY DEF RecordFetched
<1>1. p \in Paths /\ tag \in Tags /\ k \in Chunks
  BY <1>0 DEF StoreInv, TypeOK, ReadPCs, Requests
<1>2. o \in DOMAIN files /\ files[o] = Stamp(tag, chunkSize, k)
  BY <1>0 DEF StoreInv, Downloaded
<1>3. mem'.content = Put(mem.content, p, ref)
  BY <1>0 DEF RecordChunk, Index
<1> HIDE DEF p, tag, k, o
<1> DEFINE held == ResolveIn(mem.content, files)
           same == p \in DOMAIN held /\ held[p].tag = tag /\ held[p].csize = chunkSize
           had == IF same THEN held[p].chunks ELSE NoMap
<1>4. same <=> matches
  BY DEF ResolveIn, ResolvedIn, ContentMatches
<1>5. /\ DOMAIN had = {d \in DOMAIN kept : kept[d] \in DOMAIN files}
      /\ \A d \in DOMAIN had : had[d] = files[kept[d]]
  <2>1. CASE matches
    <3>1. had = ResolvedIn(mem.content[p], files).chunks /\ kept = mem.content[p].chunks
      BY <1>4, <2>1 DEF ResolveIn, ContentMatches
    <3> QED BY <3>1 DEF ResolvedIn
  <2>2. CASE ~matches
    BY <1>4, <2>2 DEF NoMap
  <2> QED BY <2>1, <2>2
<1> HIDE DEF had, kept, same, matches
<1>6. ResolvedIn(ref, files).chunks = Put(had, k, Stamp(tag, chunkSize, k))
  <2> DEFINE refs == Put(kept, k, o)
             A == {d \in DOMAIN refs : refs[d] \in DOMAIN files}
  <2>1. ResolvedIn(ref, files).chunks = [d \in A |-> files[refs[d]]]
    BY DEF ResolvedIn, ContentRef
  <2>2. /\ DOMAIN refs = DOMAIN kept \cup {k} /\ refs[k] = o
        /\ \A d \in DOMAIN kept : d # k => refs[d] = kept[d]
    BY DEF Put
  <2> HIDE DEF refs
  <2>3. A = DOMAIN had \cup {k}
    BY <1>2, <1>5, <2>2
  <2>4. \A d \in A : files[refs[d]] = IF d = k THEN Stamp(tag, chunkSize, k) ELSE had[d]
    BY <1>2, <1>5, <2>2, <2>3
  <2> HIDE DEF A
  <2> QED BY <2>1, <2>3, <2>4 DEF Put
<1>7. ResolvedIn(ref, files) = Cache!Copy(tag, chunkSize, Put(had, k, Cache!Bytes(tag, chunkSize, k)))
  <2>1. ResolvedIn(ref, files) = [tag |-> tag, csize |-> chunkSize, chunks |-> ResolvedIn(ref, files).chunks]
    BY DEF ResolvedIn, ContentRef
  <2>2. Cache!Bytes(tag, chunkSize, k) = Stamp(tag, chunkSize, k)
    BY DEF Cache!Bytes, Stamp
  <2> HIDE DEF ref
  <2> QED BY <1>6, <2>1, <2>2 DEF Cache!Copy
<1> HIDE DEF ref
<1>8. Resolve(mem)' = Put(held, p, Cache!Copy(tag, chunkSize, Put(had, k, Cache!Bytes(tag, chunkSize, k))))
  BY <1>0, <1>3, <1>7, ResolveNow, ResolvePut
<1>9. Resolve(disk)' = Resolve(disk)
  BY <1>0, ResolveNow
<1>10. Cache!Fill(p, tag, k)
  BY <1>0, <1>8, <1>9, ResolveNow, SameMaps DEF Cache!Fill, had, same
<1> QED BY <1>1, <1>10

\* rename moves what was held of `from`, or forgets what `to` and the paths
\* below `from` had.
LEMMA RenameRefines ==
    ASSUME StoreInv, NEW t \in Threads, NEW from \in Paths, NEW to \in Paths,
           RenamePath(t, from, to)
    PROVE  \/ \E S \in SUBSET Paths : Cache!Forget(S)
           \/ \E S \in SUBSET Paths : Cache!Relocate(from, to, S)
<1> DEFINE moved == MoveEntry(mem, from, to)
           gone == Descendants(mem, from, to)
<1>0. IsIndex(mem)
  BY DEF StoreInv, TypeOK
<1>1. /\ mem' = RenameEntry(mem, from, to) /\ (disk' = mem' \/ disk' = disk)
      /\ files' = files /\ chunkSize' = chunkSize /\ ~Under(from, to)
  BY DEF RenamePath, Edit, Persist
<1>2. mem'.content = Drop(moved.content, gone)
  BY <1>1 DEF RenameEntry, Index
<1>3. gone \subseteq Paths /\ from \notin gone /\ to \notin gone
  <2>1. IsIndex(moved)
    BY <1>0, MoveEntryType
  <2>2. gone \subseteq DOMAIN moved.attrs
    BY DEF Descendants
  <2>3. ~Under(from, from)
    BY StoreAssumption DEF Under, Paths
  <2> QED BY <1>1, <2>1, <2>2, <2>3 DEF IsIndex, IsMap, Descendants
<1> HIDE DEF gone
<1>4. DOMAIN mem.content \subseteq DOMAIN mem.attrs
  BY <1>0 DEF IsIndex, IsMap
<1>5. CASE from \notin DOMAIN mem.content
  <2> DEFINE D == IF from \in DOMAIN mem.attrs THEN {to} \ {from} ELSE {}
  <2>1. moved.content = Drop(mem.content, D)
    <3>1. CASE from \in DOMAIN mem.attrs
      <4>1. moved.content = Move(Drop(mem.content, D), from, to)
        BY <3>1 DEF MoveEntry, Index
      <4>2. from \notin DOMAIN Drop(mem.content, D)
        BY <1>5 DEF Drop
      <4> QED BY <4>1, <4>2 DEF Move
    <3>2. CASE from \notin DOMAIN mem.attrs
      <4>1. moved.content = mem.content
        BY <3>2 DEF MoveEntry, Index
      <4>2. IsMap(mem.content, DOMAIN mem.attrs, ContentRefs)
        BY <1>0 DEF IsIndex
      <4>3. mem.content = [p \in DOMAIN mem.content |-> mem.content[p]]
        BY <4>2 DEF IsMap
      <4> QED BY <3>2, <4>1, <4>3 DEF Drop
    <3> QED BY <3>1, <3>2
  <2>2. mem'.content = Drop(mem.content, D \cup gone)
    <3>1. mem'.content = Drop(Drop(mem.content, D), gone)
      BY <1>2, <2>1
    <3>2. \A f, A, B : Drop(Drop(f, A), B) = Drop(f, A \cup B)
      <4> SUFFICES ASSUME NEW f, NEW A, NEW B PROVE Drop(Drop(f, A), B) = Drop(f, A \cup B)
        OBVIOUS
      <4>1. (DOMAIN f \ A) \ B = DOMAIN f \ (A \cup B)
        OBVIOUS
      <4> QED BY <4>1 DEF Drop
    <3> HIDE DEF D
    <3> QED BY <3>1, <3>2
  <2>3. D \cup gone \in SUBSET Paths
    BY <1>3
  <2> HIDE DEF D
  <2> QED BY <1>1, <2>2, <2>3, ForgetRefines
<1>6. CASE from \in DOMAIN mem.content
  <2> DEFINE held == ResolveIn(mem.content, files)
  <2>1. moved.content = Put(Drop(Drop(mem.content, {to} \ {from}), {from}), to, mem.content[from])
    <3>1. moved.content = Move(Drop(mem.content, {to} \ {from}), from, to)
      BY <1>4, <1>6 DEF MoveEntry, Index
    <3>2. /\ from \in DOMAIN Drop(mem.content, {to} \ {from})
          /\ Drop(mem.content, {to} \ {from})[from] = mem.content[from]
      BY <1>6 DEF Drop
    <3> QED BY <3>1, <3>2 DEF Move
  <2>2. mem'.content = Put(Drop(mem.content, gone \cup {from}), to, mem.content[from])
    <3> DEFINE f == mem.content
               A == {to} \ {from}
               inner == Drop(Drop(f, A), {from})
    <3>1. /\ DOMAIN inner = (DOMAIN f \ A) \ {from}
          /\ \A p \in DOMAIN inner : inner[p] = f[p]
      BY DEF Drop
    <3> HIDE DEF inner
    <3>2. mem'.content = Drop(Put(inner, to, f[from]), gone)
      BY <1>2, <2>1 DEF inner
    <3>3. mem'.content = [p \in (DOMAIN inner \cup {to}) \ gone |-> IF p = to THEN f[from] ELSE inner[p]]
      BY <3>2 DEF Drop, Put
    <3>4. (DOMAIN inner \cup {to}) \ gone = (DOMAIN f \ (gone \cup {from})) \cup {to}
      BY <1>3, <3>1
    <3>5. mem'.content = [p \in (DOMAIN f \ (gone \cup {from})) \cup {to} |-> IF p = to THEN f[from] ELSE f[p]]
      BY <3>1, <3>3, <3>4
    <3> HIDE DEF f
    <3>6. Put(Drop(f, gone \cup {from}), to, f[from])
            = [p \in (DOMAIN f \ (gone \cup {from})) \cup {to} |-> IF p = to THEN f[from] ELSE f[p]]
      BY DEF Put, Drop
    <3> QED BY <3>5, <3>6 DEF f
  <2>3. held[from] = ResolvedIn(mem.content[from], files) /\ from \in DOMAIN held
    BY <1>6 DEF ResolveIn
  <2>4. Resolve(mem)' = Put(Drop(held, gone \cup {from}), to, held[from])
    BY <1>1, <2>2, <2>3, ResolveNow, ResolvePut, ResolveDrop
  <2>5. Resolve(disk)' = Resolve(mem)' \/ Resolve(disk)' = Resolve(disk)
    BY <1>1, ResolveNow
  <2>6. Cache!Relocate(from, to, gone)
    BY <1>1, <2>3, <2>4, <2>5, ResolveNow, SameMaps DEF Cache!Relocate, Cache!MaySave
  <2> QED BY <1>3, <2>6
<1> QED BY <1>5, <1>6

LEMMA EditStepsRefine ==
    ASSUME StoreInv, NEW t \in Threads, EditSteps(t)
    PROVE  Cache!Next \/ UNCHANGED Cache!cacheVars
<1>0. IsIndex(mem) /\ DOMAIN mem.content \subseteq Paths
  BY DEF StoreInv, TypeOK, IsIndex, IsMap
<1>1. ASSUME NEW idx, NEW orphans, NEW save, NEW D, Edit(t, idx, orphans, save),
             idx.content = Drop(mem.content, D), D \subseteq Paths
      PROVE  Cache!Next
  <2>1. mem' = idx /\ (disk' = idx \/ disk' = disk) /\ files' = files /\ chunkSize' = chunkSize
    BY <1>1 DEF Edit, Persist
  <2>2. Cache!Forget(D)
    BY <1>1, <2>1, ForgetRefines
  <2> QED BY <1>1, <2>2 DEF Cache!Next
<1>2. ASSUME NEW p \in Paths, NEW tag \in Tags, PutAttrs(t, p, tag)
      PROVE  Cache!Next
  <2> DEFINE new == [q \in {p} |-> tag]
  <2> HIDE DEF new
  <2>1. /\ StoreAttrs(mem, new).content = Drop(mem.content, StalePaths(mem, new))
        /\ StalePaths(mem, new) \subseteq Paths
    BY <1>0 DEF StoreAttrs, Index, StalePaths
  <2> QED BY <1>1, <1>2, <2>1 DEF PutAttrs, new
<1>3. ASSUME NEW p \in Dirs, NEW S \in SUBSET ChildNames(p), NEW kids \in [S -> Tags],
             RecordListingOf(t, p, kids)
      PROVE  Cache!Next
  <2>1. /\ RecordListing(mem, p, kids).content
             = Drop(mem.content, StalePaths(mem, ByPath(p, kids)))
        /\ StalePaths(mem, ByPath(p, kids)) \subseteq Paths
    BY <1>0 DEF RecordListing, StoreAttrs, Index, StalePaths
  <2> QED BY <1>1, <1>3, <2>1 DEF RecordListingOf
<1>4. ASSUME NEW p \in Dirs, InvalidateChildrenOf(t, p)
      PROVE  Cache!Next
  <2>1. mem.content = Drop(mem.content, {})
    <3>1. mem.content = [q \in DOMAIN mem.content |-> mem.content[q]]
      BY <1>0 DEF IsIndex, IsMap
    <3> QED BY <3>1 DEF Drop
  <2>2. InvalidateChildren(mem, p).content = Drop(mem.content, {})
    BY <2>1 DEF InvalidateChildren, Index
  <2> QED BY <1>1, <1>4, <2>2 DEF InvalidateChildrenOf
<1>5. ASSUME NEW p \in Paths, RemovePath(t, p)
      PROVE  Cache!Next
  <2>1. RemoveEntry(mem, p).content = Drop(mem.content, {p})
    BY DEF RemoveEntry, Index
  <2> QED BY <1>1, <1>5, <2>1 DEF RemovePath
<1>6. ASSUME NEW p \in Paths, NEW q \in Paths, RenamePath(t, p, q)
      PROVE  Cache!Next
  BY <1>6, RenameRefines DEF Cache!Next
<1>7. ASSUME NEW p \in Paths, InvalidateContentOf(t, p)
      PROVE  Cache!Next
  <2>1. InvalidateContent(mem, p).content = Drop(mem.content, {p})
    BY DEF InvalidateContent, Index
  <2> QED BY <1>1, <1>7, <2>1 DEF InvalidateContentOf
<1>8. CASE UnlinkOrphan(t)
  <2>1. PICK o \in doomed[t] : RemoveFile(t, o)
    BY <1>8 DEF UnlinkOrphan
  <2>2. UNCHANGED <<mem, disk, chunkSize>>
    BY <1>8 DEF UnlinkOrphan
  <2> QED BY <2>1, <2>2, RemoveFileRefines DEF Cache!Next
<1> QED BY <1>2, <1>3, <1>4, <1>5, <1>6, <1>7, <1>8 DEF EditSteps

LEMMA ReadStepsRefine ==
    ASSUME StoreInv, NEW t \in Threads, ReadSteps(t)
    PROVE  Cache!Next \/ UNCHANGED Cache!cacheVars
<1>1. ASSUME UNCHANGED <<storeVars, chunkSize>> PROVE UNCHANGED Cache!cacheVars
  BY <1>1, QuietRefines DEF storeVars
<1>2. CASE AllocObject(t)
  <2>1. /\ mem'.content = mem.content /\ disk' = disk /\ files' = files
        /\ chunkSize' = chunkSize
    BY <1>2 DEF AllocObject, TakeId, Index
  <2> QED BY <2>1, QuietRefines
<1>3. CASE Download(t)
  BY <1>3, DownloadRefines
<1>4. CASE RecordFetched(t)
  BY <1>4, RecordRefines DEF Cache!Next
<1>5. CASE UnlinkReplaced(t)
  <2>1. PICK o \in doomed[t] : RemoveFile(t, o)
    BY <1>5 DEF UnlinkReplaced
  <2>2. UNCHANGED <<mem, disk, chunkSize>>
    BY <1>5 DEF UnlinkReplaced
  <2> QED BY <2>1, <2>2, RemoveFileRefines DEF Cache!Next
<1>6. CASE PersistFetched(t)
  <2>1. /\ mem' = mem /\ (disk' = mem \/ disk' = disk) /\ files' = files
        /\ chunkSize' = chunkSize
    BY <1>6 DEF PersistFetched, Persist
  <2>2. mem.content = Drop(mem.content, {})
    <3>1. mem.content = [q \in DOMAIN mem.content |-> mem.content[q]]
      BY DEF StoreInv, TypeOK, IsIndex, IsMap
    <3> QED BY <3>1 DEF Drop
  <2>3. Cache!Forget({})
    BY <2>1, <2>2, ForgetRefines
  <2> QED BY <2>3 DEF Cache!Next
<1>7. ASSUME \/ \E p \in Files, tag \in Tags, lo, hi \in Chunks : StartRead(t, p, tag, lo, hi)
             \/ \E p \in Files, lo, hi \in Chunks : StartReadCached(t, p, lo, hi)
             \/ CachedChunk(t) \/ DownloadFails(t) \/ CloneChunks(t) \/ ReadObject(t)
      PROVE  UNCHANGED <<storeVars, chunkSize>>
  BY <1>7 DEF StartRead, StartReadCached, CachedChunk, DownloadFails, CloneChunks, ReadObject
<1> QED BY <1>1, <1>2, <1>3, <1>4, <1>5, <1>6, <1>7 DEF ReadSteps

LEMMA NextRefines == StoreInv /\ [Next]_vars => [Cache!Next]_(Cache!cacheVars)
<1> SUFFICES ASSUME StoreInv, [Next]_vars
             PROVE  Cache!Next \/ UNCHANGED Cache!cacheVars
  OBVIOUS
<1>1. ASSUME NEW t \in Threads, ReadSteps(t) \/ EditSteps(t)
      PROVE  Cache!Next \/ UNCHANGED Cache!cacheVars
  BY <1>1, ReadStepsRefine, EditStepsRefine
<1>2. CASE Restart
  <2>1. mem' = disk /\ disk' = disk /\ files' = files /\ chunkSize' \in ChunkSizes
    BY <1>2 DEF Restart, StartFrom
  <2>2. Cache!Start
    BY <2>1, ResolveNow DEF Cache!Start
  <2> QED BY <2>2 DEF Cache!Next
<1>3. CASE RestartWithoutIndex
  <2>1. /\ mem'.content = NoMap /\ disk'.content = NoMap /\ files' = files
        /\ chunkSize' \in ChunkSizes /\ IndexMayBeLost
    BY <1>3 DEF RestartWithoutIndex, StartFrom, EmptyIndex, Index
  <2>2. ResolveIn(NoMap, files) = NoMap
    BY DEF ResolveIn, NoMap
  <2>3. Cache!StartEmpty
    BY <2>1, <2>2, ResolveNow, SameMaps DEF Cache!StartEmpty
  <2> QED BY <2>3 DEF Cache!Next
<1>4. CASE UNCHANGED vars
  BY <1>4, QuietRefines DEF vars
<1> QED BY <1>1, <1>2, <1>3, <1>4 DEF Next

-----------------------------------------------------------------------------
\* The store with its ids, object files, threads, failing writes and restarts
\* implements the abstract cache: chunks of one version per file whose bytes
\* never change under a reader, for any number of threads, paths and versions.
THEOREM StoreImplementsCache == Spec => ImplementsCache
<1>1. Init => Cache!Init
  BY InitRefines
<1>2. StoreInv /\ [Next]_vars => [Cache!Next]_(Cache!cacheVars)
  BY NextRefines
<1> QED BY <1>1, <1>2, StoreInvariant, PTL DEF Spec, ImplementsCache, Cache!Spec
=============================================================================
