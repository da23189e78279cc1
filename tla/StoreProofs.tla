---------------------------- MODULE StoreProofs -----------------------------
(***************************************************************************)
(* Proofs about Store, for any number of threads, paths, versions, ids and *)
(* restarts: its types; StoreInv, by which no object is shared, mistaken   *)
(* for another version's or chunk's, or deleted while it is referred to;   *)
(* and DiskCurrent: index.json keeps up with the index in memory.          *)
(***************************************************************************)
EXTENDS Store, TLAPS

\* A reference is a chunk of some path's content (ContentObjects, Refs).
LEMMA RefsMember ==
    ASSUME NEW idx, NEW o
    PROVE  o \in Refs(idx) <=>
             \E p \in DOMAIN idx.content : \E c \in DOMAIN idx.content[p].chunks :
                 o = idx.content[p].chunks[c]
BY DEF Refs, ObjectsAt, ContentObjects

LEMMA ObjectsAtMember ==
    ASSUME NEW idx, NEW S, NEW o
    PROVE  o \in ObjectsAt(idx, S) <=>
             \E p \in S \cap DOMAIN idx.content : \E c \in DOMAIN idx.content[p].chunks :
                 o = idx.content[p].chunks[c]
BY DEF ObjectsAt, ContentObjects

-----------------------------------------------------------------------------
(* Types of the index edits.                                               *)

LEMMA PutDomain ==
    ASSUME NEW f, NEW k, NEW v
    PROVE  /\ DOMAIN Put(f, k, v) = DOMAIN f \cup {k}
           /\ Put(f, k, v)[k] = v
           /\ \A x \in DOMAIN f : x # k => Put(f, k, v)[x] = f[x]
BY DEF Put

LEMMA DropDomain ==
    ASSUME NEW f, NEW D
    PROVE  /\ DOMAIN Drop(f, D) = DOMAIN f \ D
           /\ \A x \in DOMAIN f \ D : Drop(f, D)[x] = f[x]
BY DEF Drop

LEMMA PutType ==
    ASSUME NEW f, NEW S, NEW T, IsMap(f, S, T), NEW k \in S, NEW v \in T
    PROVE  IsMap(Put(f, k, v), S, T)
BY DEF Put, IsMap

LEMMA DropType ==
    ASSUME NEW f, NEW S, NEW T, NEW D, IsMap(f, S, T)
    PROVE  IsMap(Drop(f, D), S, T)
BY DEF Drop, IsMap

LEMMA NoMapType ==
    ASSUME NEW S, NEW T
    PROVE  IsMap(NoMap, S, T) /\ DOMAIN NoMap = {}
BY DEF NoMap, IsMap

LEMMA MakeIndex ==
    ASSUME NEW n \in Nat, NEW a, NEW c, NEW l,
           IsMap(a, Paths, Tags), IsMap(c, DOMAIN a, ContentRefs),
           IsMap(l, Paths, SUBSET Names)
    PROVE  IsIndex(Index(n, a, c, l))
BY DEF IsIndex, Index

LEMMA IndexFields ==
    ASSUME NEW n, NEW a, NEW c, NEW l
    PROVE  /\ Index(n, a, c, l).next = n
           /\ Index(n, a, c, l).attrs = a
           /\ Index(n, a, c, l).content = c
           /\ Index(n, a, c, l).listing = l
BY DEF Index

LEMMA IsMapWiden ==
    ASSUME NEW f, NEW S, NEW R, NEW T, IsMap(f, S, T), DOMAIN f \subseteq R
    PROVE  IsMap(f, R, T)
BY DEF IsMap

LEMMA EmptyIndexType == IsIndex(EmptyIndex) /\ Refs(EmptyIndex) = {}
<1>1. IsIndex(EmptyIndex)
  BY NoMapType, MakeIndex DEF EmptyIndex, NoMap
<1>2. Refs(EmptyIndex) = {}
  BY RefsMember DEF EmptyIndex, NoMap, Index
<1> QED BY <1>1, <1>2

LEMMA StoreAttrsType ==
    ASSUME NEW idx, IsIndex(idx), NEW new, IsMap(new, Paths, Tags)
    PROVE  IsIndex(StoreAttrs(idx, new))
<1> DEFINE a == [p \in DOMAIN idx.attrs \cup DOMAIN new |->
                     IF p \in DOMAIN new THEN new[p] ELSE idx.attrs[p]]
<1>1. IsMap(a, Paths, Tags) /\ DOMAIN a = DOMAIN idx.attrs \cup DOMAIN new
  BY DEF IsIndex, IsMap
<1> HIDE DEF a
<1>2. IsIndex(Index(idx.next, a, Drop(idx.content, StalePaths(idx, new)), idx.listing))
  <2>1. IsMap(Drop(idx.content, StalePaths(idx, new)), DOMAIN idx.attrs, ContentRefs)
    BY DropType DEF IsIndex
  <2>2. IsMap(Drop(idx.content, StalePaths(idx, new)), DOMAIN a, ContentRefs)
    BY <1>1, <2>1 DEF IsMap
  <2> QED BY <1>1, <2>2, MakeIndex DEF IsIndex
<1> QED BY <1>2 DEF StoreAttrs, a

LEMMA ListingType ==
    ASSUME NEW idx, IsIndex(idx), NEW p \in Paths, NEW S \in SUBSET Names
    PROVE  IsMap(Put(idx.listing, p, S), Paths, SUBSET Names)
BY PutType DEF IsIndex

LEMMA ByPathType ==
    ASSUME NEW p \in Dirs, NEW S \in SUBSET ChildNames(p), NEW kids \in [S -> Tags]
    PROVE  IsMap(ByPath(p, kids), Paths, Tags)
<1>1. p \in Seq(Names)
  BY StoreAssumption
<1>2. ASSUME NEW n \in S
      PROVE  Append(p, n) \in Paths /\ Append(p, n)[Len(Append(p, n))] = n
  BY <1>1, <1>2 DEF ChildNames
<1>3. ASSUME NEW q \in DOMAIN ByPath(p, kids)
      PROVE  q \in Paths /\ ByPath(p, kids)[q] \in Tags
  <2>1. PICK n \in S : q = Append(p, n)
    BY DEF ByPath
  <2>2. ByPath(p, kids)[q] = kids[q[Len(q)]]
    BY DEF ByPath
  <2> QED BY <1>2, <2>1, <2>2
<1>4. ByPath(p, kids) \in [DOMAIN ByPath(p, kids) -> Tags]
  BY <1>3 DEF ByPath
<1> QED BY <1>3, <1>4 DEF IsMap

LEMMA RecordListingType ==
    ASSUME NEW idx, IsIndex(idx), NEW p \in Dirs, NEW S \in SUBSET ChildNames(p),
           NEW kids \in [S -> Tags]
    PROVE  IsIndex(RecordListing(idx, p, kids))
<1>1. IsIndex(StoreAttrs(idx, ByPath(p, kids)))
  BY ByPathType, StoreAttrsType
<1>2. IsMap(Put(idx.listing, p, DOMAIN kids), Paths, SUBSET Names)
  BY ListingType DEF ChildNames, Paths
<1> QED BY <1>1, <1>2, MakeIndex DEF RecordListing, IsIndex

LEMMA InvalidateChildrenType ==
    ASSUME NEW idx, IsIndex(idx), NEW p
    PROVE  IsIndex(InvalidateChildren(idx, p))
<1>1. IsMap(Drop(idx.listing, {p}), Paths, SUBSET Names)
  BY DropType DEF IsIndex
<1> QED BY <1>1, MakeIndex DEF InvalidateChildren, IsIndex

LEMMA RemoveEntryType ==
    ASSUME NEW idx, IsIndex(idx), NEW p
    PROVE  IsIndex(RemoveEntry(idx, p))
<1>1. IsMap(idx.attrs, Paths, Tags) /\ IsMap(idx.listing, Paths, SUBSET Names)
      /\ IsMap(idx.content, DOMAIN idx.attrs, ContentRefs)
  BY DEF IsIndex
<1>2. IsMap(Drop(idx.attrs, {p}), Paths, Tags)
      /\ DOMAIN Drop(idx.attrs, {p}) = DOMAIN idx.attrs \ {p}
  BY <1>1, DropType, DropDomain
<1>3. IsMap(Drop(idx.listing, {p}), Paths, SUBSET Names)
  BY <1>1, DropType, DropDomain
<1>4. IsMap(Drop(idx.content, {p}), DOMAIN idx.attrs, ContentRefs)
      /\ DOMAIN Drop(idx.content, {p}) = DOMAIN idx.content \ {p}
  BY <1>1, DropType, DropDomain
<1>5. IsMap(Drop(idx.content, {p}), DOMAIN Drop(idx.attrs, {p}), ContentRefs)
  BY <1>1, <1>2, <1>4 DEF IsMap
<1> QED BY <1>2, <1>3, <1>5, MakeIndex DEF RemoveEntry, IsIndex

LEMMA InvalidateContentType ==
    ASSUME NEW idx, IsIndex(idx), NEW p
    PROVE  IsIndex(InvalidateContent(idx, p))
<1>1. IsMap(Drop(idx.content, {p}), DOMAIN idx.attrs, ContentRefs)
  BY DropType DEF IsIndex
<1> QED BY <1>1, MakeIndex DEF InvalidateContent, IsIndex

LEMMA TakeIdType ==
    ASSUME NEW idx, IsIndex(idx)
    PROVE  IsIndex(TakeId(idx))
<1>1. idx.next + 1 \in Nat
  BY DEF IsIndex
<1> QED BY <1>1, MakeIndex DEF TakeId, IsIndex

LEMMA MoveDomain ==
    ASSUME NEW f, NEW from, NEW to
    PROVE  DOMAIN Move(f, from, to)
             = IF from \in DOMAIN f THEN (DOMAIN f \ {from}) \cup {to} ELSE DOMAIN f
<1>1. CASE from \in DOMAIN f
  <2>1. Move(f, from, to) = Put(Drop(f, {from}), to, f[from])
    BY <1>1 DEF Move
  <2>2. DOMAIN Drop(f, {from}) = DOMAIN f \ {from}
    BY DropDomain
  <2>3. DOMAIN Move(f, from, to) = DOMAIN Drop(f, {from}) \cup {to}
    BY <2>1, PutDomain
  <2> QED BY <1>1, <2>2, <2>3
<1>2. CASE from \notin DOMAIN f
  BY <1>2 DEF Move
<1> QED BY <1>1, <1>2

LEMMA MoveType ==
    ASSUME NEW f, NEW S, NEW T, IsMap(f, S, T), NEW from \in S, NEW to \in S
    PROVE  IsMap(Move(f, from, to), S, T)
<1>1. CASE from \in DOMAIN f
  <2>1. IsMap(Drop(f, {from}), S, T)
    BY DropType
  <2>2. f[from] \in T
    BY <1>1 DEF IsMap
  <2>3. IsMap(Put(Drop(f, {from}), to, f[from]), S, T)
    BY <2>1, <2>2, PutType
  <2> QED BY <1>1, <2>3 DEF Move
<1>2. CASE from \notin DOMAIN f
  BY <1>2 DEF Move
<1> QED BY <1>1, <1>2

LEMMA MoveEntryType ==
    ASSUME NEW idx, IsIndex(idx), NEW from \in Paths, NEW to \in Paths
    PROVE  IsIndex(MoveEntry(idx, from, to))
<1> DEFINE a == Move(idx.attrs, from, to)
           kept == Drop(idx.content, {to} \ {from})
           c == IF from \in DOMAIN idx.attrs THEN Move(kept, from, to) ELSE idx.content
<1>1. IsMap(idx.attrs, Paths, Tags) /\ IsMap(idx.listing, Paths, SUBSET Names)
      /\ IsMap(idx.content, DOMAIN idx.attrs, ContentRefs) /\ idx.next \in Nat
  BY DEF IsIndex
<1>2. IsMap(a, Paths, Tags)
      /\ DOMAIN a = IF from \in DOMAIN idx.attrs THEN (DOMAIN idx.attrs \ {from}) \cup {to}
                                                  ELSE DOMAIN idx.attrs
  BY <1>1, MoveType, MoveDomain
<1>3. IsMap(Move(idx.listing, from, to), Paths, SUBSET Names)
  BY <1>1, MoveType, MoveDomain
<1>4. IsMap(c, DOMAIN a, ContentRefs)
  <2>1. CASE from \in DOMAIN idx.attrs
    <3>1. IsMap(kept, Paths, ContentRefs) /\ DOMAIN kept = DOMAIN idx.content \ ({to} \ {from})
      <4>1. IsMap(idx.content, Paths, ContentRefs)
        BY <1>1 DEF IsMap
      <4> QED BY <4>1, DropType, DropDomain
    <3>2. IsMap(Move(kept, from, to), Paths, ContentRefs)
          /\ DOMAIN Move(kept, from, to)
               = IF from \in DOMAIN kept THEN (DOMAIN kept \ {from}) \cup {to} ELSE DOMAIN kept
      BY <3>1, MoveType, MoveDomain
    <3>3. DOMAIN Move(kept, from, to) \subseteq DOMAIN a
      <4>1. DOMAIN idx.content \subseteq DOMAIN idx.attrs
        BY <1>1 DEF IsMap
      <4> HIDE DEF a, kept
      <4> QED BY <1>2, <2>1, <3>1, <3>2, <4>1
    <3>4. c = Move(kept, from, to)
      BY <2>1
    <3> QED BY <3>2, <3>3, <3>4 DEF IsMap
  <2>2. CASE from \notin DOMAIN idx.attrs
    BY <1>1, <1>2, <2>2
  <2> QED BY <2>1, <2>2
<1> HIDE DEF a, c
<1>5. IsIndex(Index(idx.next, a, c, Move(idx.listing, from, to)))
  BY <1>1, <1>2, <1>3, <1>4, MakeIndex
<1> QED BY <1>5 DEF MoveEntry, a, c

LEMMA RenameEntryType ==
    ASSUME NEW idx, IsIndex(idx), NEW from \in Paths, NEW to \in Paths
    PROVE  IsIndex(RenameEntry(idx, from, to))
<1> DEFINE m == MoveEntry(idx, from, to)
           gone == Descendants(idx, from, to)
<1>1. IsMap(m.attrs, Paths, Tags) /\ IsMap(m.listing, Paths, SUBSET Names)
      /\ IsMap(m.content, DOMAIN m.attrs, ContentRefs) /\ m.next \in Nat
  BY MoveEntryType DEF IsIndex
<1> HIDE DEF m, gone
<1>2. IsMap(Drop(m.attrs, gone), Paths, Tags) /\ DOMAIN Drop(m.attrs, gone) = DOMAIN m.attrs \ gone
  BY <1>1, DropType, DropDomain
<1>3. IsMap(Drop(m.listing, gone), Paths, SUBSET Names)
  BY <1>1, DropType, DropDomain
<1>4. IsMap(Drop(m.content, gone), DOMAIN m.attrs, ContentRefs)
      /\ DOMAIN Drop(m.content, gone) = DOMAIN m.content \ gone
  BY <1>1, DropType, DropDomain
<1>5. IsMap(Drop(m.content, gone), DOMAIN Drop(m.attrs, gone), ContentRefs)
  BY <1>1, <1>2, <1>4 DEF IsMap
<1>6. IsIndex(Index(m.next, Drop(m.attrs, gone), Drop(m.content, gone), Drop(m.listing, gone)))
  BY <1>1, <1>2, <1>3, <1>5, MakeIndex
<1> QED BY <1>6 DEF RenameEntry, m, gone

\* The ids that are handed out, and the initial id, are numbers.
LEMMA IdsNat == ObjectIds \subseteq Nat /\ 0 \in ObjectIds
BY StoreAssumption DEF ObjectIds

\* Maps(Chunks, ObjectIds) holds the chunk maps, whatever their domain.
LEMMA ChunkMapMember ==
    ASSUME NEW f
    PROVE  f \in Maps(Chunks, ObjectIds) <=> IsMap(f, Chunks, ObjectIds)
BY DEF Maps, IsMap

LEMMA RecordChunkType ==
    ASSUME NEW idx, IsIndex(idx), NEW p \in Paths, NEW tag \in Tags, NEW csize \in ChunkSizes,
           NEW k \in Chunks, NEW o \in ObjectIds
    PROVE  IsIndex(RecordChunk(idx, p, tag, csize, k, o))
<1> DEFINE kept == IF ContentMatches(idx, p, tag, csize) THEN idx.content[p].chunks ELSE NoMap
           a == IF p \in DOMAIN idx.attrs THEN idx.attrs ELSE Put(idx.attrs, p, tag)
           new == ContentRef(tag, csize, Put(kept, k, o))
<1>1. IsMap(idx.attrs, Paths, Tags) /\ IsMap(idx.listing, Paths, SUBSET Names)
      /\ IsMap(idx.content, DOMAIN idx.attrs, ContentRefs) /\ idx.next \in Nat
  BY DEF IsIndex
<1>2. IsMap(kept, Chunks, ObjectIds)
  <2>1. CASE ContentMatches(idx, p, tag, csize)
    <3>1. idx.content[p] \in ContentRefs
      BY <1>1, <2>1 DEF ContentMatches, IsMap
    <3>2. idx.content[p].chunks \in Maps(Chunks, ObjectIds)
      BY <3>1 DEF ContentRefs
    <3> QED BY <2>1, <3>2, ChunkMapMember
  <2>2. CASE ~ContentMatches(idx, p, tag, csize)
    BY <2>2, NoMapType
  <2> QED BY <2>1, <2>2
<1> HIDE DEF kept
<1>3. new \in ContentRefs
  <2>1. Put(kept, k, o) \in Maps(Chunks, ObjectIds)
    BY <1>2, PutType, ChunkMapMember
  <2> QED BY <2>1 DEF ContentRef, ContentRefs
<1>4. IsMap(a, Paths, Tags) /\ DOMAIN a = DOMAIN idx.attrs \cup {p}
  BY <1>1, PutType, PutDomain
<1> HIDE DEF a, new
<1>5. IsMap(idx.content, DOMAIN a, ContentRefs) /\ p \in DOMAIN a
  BY <1>1, <1>4 DEF IsMap
<1>6. IsMap(Put(idx.content, p, new), DOMAIN a, ContentRefs)
  BY <1>3, <1>5, PutType
<1>7. IsIndex(Index(idx.next, a, Put(idx.content, p, new), idx.listing))
  BY <1>1, <1>4, <1>6, MakeIndex
<1> QED BY <1>7 DEF RecordChunk, a, new, kept

-----------------------------------------------------------------------------
(* Type correctness.                                                       *)

LEMMA ObjectsAtNat ==
    ASSUME NEW idx, IsIndex(idx), NEW S
    PROVE  ObjectsAt(idx, S) \subseteq Nat
<1> SUFFICES ASSUME NEW o \in ObjectsAt(idx, S) PROVE o \in Nat
  OBVIOUS
<1>1. PICK p \in DOMAIN idx.content : \E c \in DOMAIN idx.content[p].chunks :
                 o = idx.content[p].chunks[c]
  BY ObjectsAtMember
<1>2. idx.content[p] \in ContentRefs
  BY DEF IsIndex, IsMap
<1>3. IsMap(idx.content[p].chunks, Chunks, ObjectIds)
  BY <1>2, ChunkMapMember DEF ContentRefs
<1> QED BY <1>1, <1>3, IdsNat DEF IsMap

LEMMA RefsNat ==
    ASSUME NEW idx, IsIndex(idx)
    PROVE  Refs(idx) \subseteq Nat
BY ObjectsAtNat DEF Refs

LEMMA ReplacedNat ==
    ASSUME NEW idx, IsIndex(idx), NEW p, NEW tag, NEW csize, NEW k
    PROVE  ReplacedObjects(idx, p, tag, csize, k) \subseteq Nat
<1>1. ReplacedObjects(idx, p, tag, csize, k) \subseteq Refs(idx)
  BY DEF ReplacedObjects, Refs, ObjectsAt, ContentObjects, HasChunk, ContentMatches
<1> QED BY <1>1, RefsNat

LEMMA InitType == Init => TypeOK
<1> SUFFICES ASSUME Init PROVE TypeOK
  OBVIOUS
<1>1. IsIndex(mem) /\ IsIndex(disk)
  BY EmptyIndexType DEF Init
<1>2. IsMap(files, Nat, Stamps)
  BY NoMapType DEF Init
<1>3. 0 \in Chunks
  BY StoreAssumption DEF Chunks
<1> QED BY <1>1, <1>2, <1>3, IdsNat DEF Init, TypeOK, ReadPCs

LEMMA EditType ==
    ASSUME TypeOK, NEW t \in Threads, NEW idx, IsIndex(idx), NEW orphans, orphans \subseteq Nat,
           NEW save, Edit(t, idx, orphans, save)
    PROVE  TypeOK'
<1>1. IsIndex(mem)' /\ IsIndex(disk)'
  BY DEF Edit, Persist, TypeOK
<1> QED BY <1>1 DEF Edit, TypeOK, ReadPCs

LEMMA ReturnType ==
    ASSUME TypeOK, NEW t \in Threads, Return(t), UNCHANGED <<storeVars, chunkSize>>
    PROVE  TypeOK'
<1>1. 0 \in Chunks
  BY StoreAssumption DEF Chunks
<1>2. pc' \in [Threads -> ReadPCs \cup {"idle", "unlink"}] /\ pc'[t] = "idle"
  BY DEF Return, TypeOK
<1> QED BY <1>1, <1>2, IdsNat DEF Return, TypeOK, storeVars, ReadPCs

LEMMA RemoveFileType ==
    ASSUME TypeOK, NEW t \in Threads, NEW o \in doomed[t], RemoveFile(t, o)
    PROVE  IsMap(files, Nat, Stamps)' /\ doomed' \in [Threads -> SUBSET Nat]
BY DropType DEF RemoveFile, TypeOK

LEMMA NextChunkType ==
    ASSUME TypeOK, NEW t \in Threads, req[t] \in Requests, req[t].lo <= req[t].hi,
           cur[t] <= req[t].hi, NextChunk(t)
    PROVE  /\ pc' \in [Threads -> ReadPCs \cup {"idle", "unlink"}]
           /\ pc'[t] \in {"check", "clone"}
           /\ \A u \in Threads \ {t} : pc'[u] = pc[u] /\ cur'[u] = cur[u]
           /\ cur' \in [Threads -> Chunks]
           /\ cur'[t] <= req[t].hi
<1>1. cur[t] \in Chunks /\ req[t].hi \in Chunks /\ req[t].lo \in Chunks
  BY DEF TypeOK, Requests
<1>2. cur[t] < req[t].hi => cur[t] + 1 \in Chunks /\ cur[t] + 1 <= req[t].hi
  BY <1>1, StoreAssumption DEF Chunks
<1> QED BY <1>1, <1>2 DEF NextChunk, TypeOK, ReadPCs

LEMMA ReadStepsType ==
    ASSUME TypeOK, NEW t \in Threads, ReadSteps(t)
    PROVE  TypeOK'
<1>1. ASSUME NEW p \in Files, NEW tag \in Tags, NEW lo \in Chunks, NEW hi \in Chunks,
             StartRead(t, p, tag, lo, hi)
      PROVE  TypeOK'
  <2>1. [path |-> p, tag |-> tag, lo |-> lo, hi |-> hi] \in Requests
    BY DEF Requests, Paths
  <2> QED BY <1>1, <2>1 DEF StartRead, TypeOK, storeVars, ReadPCs
<1>2. ASSUME NEW p \in Files, NEW lo \in Chunks, NEW hi \in Chunks,
             StartReadCached(t, p, lo, hi)
      PROVE  TypeOK'
  <2>1. mem.content[p] \in ContentRefs
    BY <1>2 DEF StartReadCached, TypeOK, IsIndex, IsMap
  <2>2. [path |-> p, tag |-> mem.content[p].tag, lo |-> lo, hi |-> hi] \in Requests
    BY <2>1 DEF Requests, Paths, ContentRefs
  <2> QED BY <1>2, <2>2 DEF StartReadCached, TypeOK, storeVars, ReadPCs
<1>3. CASE CachedChunk(t)
  <2>1. req[t] \in Requests /\ cur[t] \in Chunks /\ req[t].lo <= req[t].hi /\ cur[t] <= req[t].hi
    BY <1>3 DEF CachedChunk, TypeOK, ReadPCs
  <2>3. CASE NextChunk(t)
    BY <1>3, <2>1, <2>3, NextChunkType DEF CachedChunk, TypeOK, storeVars, ReadPCs
  <2>4. CASE pc' = [pc EXCEPT ![t] = "alloc"] /\ UNCHANGED cur
    BY <1>3, <2>1, <2>4 DEF CachedChunk, TypeOK, storeVars, ReadPCs
  <2> QED BY <1>3, <2>3, <2>4 DEF CachedChunk
<1>4. CASE AllocObject(t)
  <2>1. IsIndex(mem') /\ mem.next \in Nat
    BY <1>4, TakeIdType DEF AllocObject, TypeOK, IsIndex
  <2>2. mem.next \in ObjectIds
    BY <1>4, <2>1, StoreAssumption DEF AllocObject, ObjectIds
  <2> QED BY <1>4, <2>1, <2>2 DEF AllocObject, TypeOK, ReadPCs
<1>5. CASE Download(t)
  <2>1. Stamp(req[t].tag, chunkSize, cur[t]) \in Stamps
    BY <1>5 DEF Download, TypeOK, ReadPCs, Requests, Stamp, Stamps
  <2>2. IsMap(files', Nat, Stamps)
    BY <1>5, <2>1, IdsNat, PutType DEF Download, TypeOK
  <2> QED BY <1>5, <2>2 DEF Download, TypeOK, ReadPCs
<1>6. CASE DownloadFails(t)
  BY <1>6, ReturnType DEF DownloadFails
<1>7. CASE RecordFetched(t)
  <2>1. req[t] \in Requests
    BY <1>7 DEF RecordFetched, TypeOK, ReadPCs
  <2>2. IsIndex(mem')
    BY <1>7, <2>1, RecordChunkType DEF RecordFetched, TypeOK, Requests
  <2>3. doomed' \in [Threads -> SUBSET Nat]
    BY <1>7, ReplacedNat DEF RecordFetched, TypeOK
  <2> QED BY <1>7, <2>2, <2>3 DEF RecordFetched, TypeOK, ReadPCs
<1>8. CASE UnlinkReplaced(t)
  BY <1>8, RemoveFileType DEF UnlinkReplaced, TypeOK, ReadPCs
<1>9. CASE PersistFetched(t)
  <2>1. req[t] \in Requests /\ cur[t] \in Chunks /\ req[t].lo <= req[t].hi /\ cur[t] <= req[t].hi
    BY <1>9 DEF PersistFetched, TypeOK, ReadPCs
  <2>2. IsIndex(disk')
    BY <1>9 DEF PersistFetched, Persist, TypeOK
  <2> QED BY <1>9, <2>1, <2>2, NextChunkType, IdsNat DEF PersistFetched, TypeOK, ReadPCs
<1>10. CASE CloneChunks(t)
  <2>1. CASE Return(t)
    BY <1>10, <2>1, ReturnType DEF CloneChunks
  <2>2. CASE ~Return(t)
    <3>1. mem.content[req[t].path] \in ContentRefs
      BY <1>10, <2>2 DEF CloneChunks, TypeOK, IsIndex, IsMap
    <3> QED BY <1>10, <2>2, <3>1 DEF CloneChunks, TypeOK, storeVars, ReadPCs
  <2> QED BY <2>1, <2>2
<1>11. CASE ReadObject(t)
  <2>1. CASE Return(t)
    BY <1>11, <2>1, ReturnType DEF ReadObject
  <2>2. CASE ~Return(t)
    <3>1. req[t] \in Requests /\ cur[t] < req[t].hi /\ cur[t] \in Chunks
      BY <1>11, <2>2 DEF ReadObject, TypeOK, ReadPCs
    <3>2. cur[t] + 1 \in Chunks /\ cur[t] + 1 <= req[t].hi
      BY <3>1, StoreAssumption DEF Requests, Chunks
    <3> QED BY <1>11, <2>2, <3>2 DEF ReadObject, TypeOK, storeVars, ReadPCs
  <2> QED BY <2>1, <2>2
<1> QED BY <1>1, <1>2, <1>3, <1>4, <1>5, <1>6, <1>7, <1>8, <1>9, <1>10, <1>11 DEF ReadSteps

LEMMA EditStepsType ==
    ASSUME TypeOK, NEW t \in Threads, EditSteps(t)
    PROVE  TypeOK'
<1>0. IsIndex(mem)
  BY DEF TypeOK
<1>1. ASSUME NEW p \in Paths, NEW tag \in Tags, PutAttrs(t, p, tag)
      PROVE  TypeOK'
  <2> DEFINE new == [q \in {p} |-> tag]
  <2>1. IsMap(new, Paths, Tags)
    BY DEF IsMap
  <2> HIDE DEF new
  <2>2. IsIndex(StoreAttrs(mem, new)) /\ ObjectsAt(mem, StalePaths(mem, new)) \subseteq Nat
    BY <1>0, <2>1, StoreAttrsType, ObjectsAtNat
  <2> QED BY <1>1, <2>2, EditType DEF PutAttrs, new
<1>2. ASSUME NEW p \in Dirs, NEW S \in SUBSET ChildNames(p), NEW kids \in [S -> Tags],
             RecordListingOf(t, p, kids)
      PROVE  TypeOK'
  <2>1. IsIndex(RecordListing(mem, p, kids))
    BY <1>0, RecordListingType
  <2> QED BY <1>0, <1>2, <2>1, ObjectsAtNat, EditType DEF RecordListingOf
<1>3. ASSUME NEW p \in Dirs, InvalidateChildrenOf(t, p)
      PROVE  TypeOK'
  BY <1>0, <1>3, InvalidateChildrenType, EditType DEF InvalidateChildrenOf
<1>4. ASSUME NEW p \in Paths, RemovePath(t, p)
      PROVE  TypeOK'
  BY <1>0, <1>4, RemoveEntryType, ObjectsAtNat, EditType DEF RemovePath
<1>5. ASSUME NEW p \in Paths, NEW q \in Paths, RenamePath(t, p, q)
      PROVE  TypeOK'
  <2>1. IsIndex(RenameEntry(mem, p, q)) /\ IsIndex(MoveEntry(mem, p, q))
    BY <1>0, RenameEntryType, MoveEntryType
  <2> QED BY <1>5, <2>1, ObjectsAtNat, EditType DEF RenamePath
<1>6. ASSUME NEW p \in Paths, InvalidateContentOf(t, p)
      PROVE  TypeOK'
  BY <1>0, <1>6, InvalidateContentType, ObjectsAtNat, EditType DEF InvalidateContentOf
<1>7. CASE UnlinkOrphan(t)
  BY <1>7, RemoveFileType DEF UnlinkOrphan, TypeOK, ReadPCs
<1> QED BY <1>1, <1>2, <1>3, <1>4, <1>5, <1>6, <1>7 DEF EditSteps

LEMMA StartFromType ==
    ASSUME TypeOK, NEW idx, IsIndex(idx), StartFrom(idx)
    PROVE  TypeOK'
<1>1. 0 \in Chunks
  BY StoreAssumption DEF Chunks
<1>2. lost' \subseteq Nat
  BY RefsNat DEF StartFrom
<1> QED BY <1>1, <1>2, IdsNat DEF StartFrom, TypeOK, ReadPCs

LEMMA NextType == TypeOK /\ [Next]_vars => TypeOK'
<1> SUFFICES ASSUME TypeOK, [Next]_vars PROVE TypeOK'
  OBVIOUS
<1>1. ASSUME NEW t \in Threads, ReadSteps(t) \/ EditSteps(t) PROVE TypeOK'
  BY <1>1, ReadStepsType, EditStepsType
<1>2. CASE Restart
  BY <1>2, StartFromType DEF Restart, TypeOK
<1>3. CASE RestartWithoutIndex
  BY <1>3, StartFromType, EmptyIndexType DEF RestartWithoutIndex
<1>4. CASE UNCHANGED vars
  BY <1>4 DEF vars, TypeOK
<1> QED BY <1>1, <1>2, <1>3, <1>4 DEF Next

\* The store's state has its types in every reachable state.
THEOREM TypeCorrect == Spec => []TypeOK
BY InitType, NextType, PTL DEF Spec

-----------------------------------------------------------------------------
(* What the edits of the index have in common.                             *)

\* `new` holds some of the contents of `old`, perhaps under other paths, each
\* once; `orphans` are objects of `old` that `new` no longer refers to.
SafeEdit(old, new, orphans) ==
    /\ new.next = old.next
    /\ \A p \in DOMAIN new.content : \E q \in DOMAIN old.content :
          new.content[p] = old.content[q]
    /\ Unshared(new)
    /\ orphans \subseteq Refs(old)
    /\ orphans \cap Refs(new) = {}

LEMMA UnsharedUse ==
    ASSUME NEW idx, Unshared(idx), NEW p \in DOMAIN idx.content, NEW q \in DOMAIN idx.content,
           NEW c \in DOMAIN idx.content[p].chunks, NEW d \in DOMAIN idx.content[q].chunks,
           idx.content[p].chunks[c] = idx.content[q].chunks[d]
    PROVE  p = q /\ c = d
BY DEF Unshared

LEMMA SafeEditRefs ==
    ASSUME NEW old, NEW new, NEW orphans, SafeEdit(old, new, orphans)
    PROVE  Refs(new) \subseteq Refs(old)
BY RefsMember DEF SafeEdit

\* Dropping contents orphans exactly their objects, because none is shared.
LEMMA DropSafe ==
    ASSUME NEW old, NEW new, NEW D, Unshared(old),
           new.next = old.next, new.content = Drop(old.content, D)
    PROVE  SafeEdit(old, new, ObjectsAt(old, D))
<1>1. /\ DOMAIN new.content = DOMAIN old.content \ D
      /\ \A p \in DOMAIN new.content : new.content[p] = old.content[p]
  BY DEF Drop
<1>2. Unshared(new)
  BY <1>1 DEF Unshared
<1>3. ObjectsAt(old, D) \subseteq Refs(old)
  BY ObjectsAtMember, RefsMember
<1>4. ASSUME NEW o \in ObjectsAt(old, D), o \in Refs(new)
      PROVE  FALSE
  <2>1. PICK p \in D \cap DOMAIN old.content : \E c \in DOMAIN old.content[p].chunks :
            o = old.content[p].chunks[c]
    BY ObjectsAtMember
  <2>2. PICK q \in DOMAIN new.content : \E d \in DOMAIN new.content[q].chunks :
            o = new.content[q].chunks[d]
    BY <1>4, RefsMember
  <2>3. q \in DOMAIN old.content /\ q \notin D /\ new.content[q] = old.content[q]
    BY <1>1
  <2>4. PICK c \in DOMAIN old.content[p].chunks : o = old.content[p].chunks[c]
    BY <2>1
  <2>5. PICK d \in DOMAIN old.content[q].chunks : o = old.content[q].chunks[d]
    BY <2>2, <2>3
  <2>6. p = q
    <3>1. /\ p \in DOMAIN old.content /\ q \in DOMAIN old.content
          /\ old.content[p].chunks[c] = old.content[q].chunks[d]
      BY <2>3, <2>4, <2>5
    <3> QED BY <3>1, Zenon DEF Unshared
  <2> QED BY <2>3, <2>6
<1> QED BY <1>1, <1>2, <1>3, <1>4 DEF SafeEdit

LEMMA SameContentSafe ==
    ASSUME NEW old, NEW new, Unshared(old), new.next = old.next, new.content = old.content
    PROVE  SafeEdit(old, new, {})
BY DEF SafeEdit, Unshared

\* Where the content at p comes from when `from` is moved to `to`.
LEMMA MoveContent ==
    ASSUME NEW idx, IsIndex(idx), NEW from \in Paths, NEW to \in Paths
    PROVE  LET new == MoveEntry(idx, from, to).content
               src(p) == IF p = to /\ from \in DOMAIN idx.content THEN from ELSE p
           IN  /\ \A p \in DOMAIN new : src(p) \in DOMAIN idx.content
                                        /\ new[p] = idx.content[src(p)]
               /\ \A p, q \in DOMAIN new : src(p) = src(q) => p = q
<1> DEFINE new == MoveEntry(idx, from, to).content
           src(p) == IF p = to /\ from \in DOMAIN idx.content THEN from ELSE p
           kept == Drop(idx.content, {to} \ {from})
<1>0. DOMAIN idx.content \subseteq DOMAIN idx.attrs
  BY DEF IsIndex, IsMap
<1>1. CASE from \notin DOMAIN idx.attrs
  <2>1. new = idx.content
    BY <1>1 DEF MoveEntry, Index
  <2>2. from \notin DOMAIN idx.content
    BY <1>0, <1>1
  <2> QED BY <2>1, <2>2
<1>2. CASE from \in DOMAIN idx.attrs
  <2>1. new = Move(kept, from, to)
    BY <1>2 DEF MoveEntry, Index
  <2>2. /\ DOMAIN kept = DOMAIN idx.content \ ({to} \ {from})
        /\ \A p \in DOMAIN kept : kept[p] = idx.content[p]
    BY DEF Drop
  <2> HIDE DEF kept
  <2>3. CASE from \in DOMAIN idx.content
    <3>1. new = Put(Drop(kept, {from}), to, kept[from])
      BY <2>1, <2>2, <2>3 DEF Move
    <3>2. /\ DOMAIN Drop(kept, {from}) = DOMAIN kept \ {from}
          /\ \A p \in DOMAIN kept \ {from} : Drop(kept, {from})[p] = kept[p]
      BY DropDomain
    <3>3. /\ DOMAIN new = (DOMAIN kept \ {from}) \cup {to}
          /\ new[to] = kept[from]
          /\ \A p \in DOMAIN new : p # to => new[p] = kept[p]
      <4> DEFINE rest == Drop(kept, {from})
      <4> HIDE DEF new, rest
      <4>1. /\ DOMAIN new = DOMAIN rest \cup {to}
            /\ new[to] = kept[from]
            /\ \A p \in DOMAIN rest : p # to => new[p] = rest[p]
        BY <3>1 DEF Put, rest
      <4> QED BY <3>2, <4>1 DEF rest
    <3> HIDE DEF new
    <3> QED BY <2>2, <2>3, <3>3 DEF new
  <2>4. CASE from \notin DOMAIN idx.content
    <3>1. new = kept
      BY <2>1, <2>2, <2>4 DEF Move
    <3> QED BY <2>2, <2>4, <3>1
  <2> QED BY <2>3, <2>4
<1> QED BY <1>1, <1>2

LEMMA MoveSafe ==
    ASSUME NEW idx, IsIndex(idx), NEW from \in Paths, NEW to \in Paths, Unshared(idx)
    PROVE  SafeEdit(idx, MoveEntry(idx, from, to), {})
<1> DEFINE new == MoveEntry(idx, from, to)
           src(p) == IF p = to /\ from \in DOMAIN idx.content THEN from ELSE p
<1>1. \A p \in DOMAIN new.content : src(p) \in DOMAIN idx.content
                                    /\ new.content[p] = idx.content[src(p)]
  BY MoveContent
<1>2. \A p, q \in DOMAIN new.content : src(p) = src(q) => p = q
  BY MoveContent
<1>3. new.next = idx.next
  BY DEF MoveEntry, Index
<1> HIDE DEF new, src
<1>4. Unshared(new)
  <2> SUFFICES ASSUME NEW p \in DOMAIN new.content, NEW q \in DOMAIN new.content,
                      NEW c \in DOMAIN new.content[p].chunks,
                      NEW d \in DOMAIN new.content[q].chunks,
                      new.content[p].chunks[c] = new.content[q].chunks[d]
               PROVE  p = q /\ c = d
    BY DEF Unshared
  <2>1. src(p) = src(q) /\ c = d
    BY <1>1 DEF Unshared
  <2> QED BY <1>2, <2>1
<1> QED BY <1>1, <1>3, <1>4 DEF SafeEdit, new

LEMMA RenameSafe ==
    ASSUME NEW idx, IsIndex(idx), NEW from \in Paths, NEW to \in Paths, Unshared(idx)
    PROVE  SafeEdit(idx, RenameEntry(idx, from, to),
                    ObjectsAt(MoveEntry(idx, from, to), Descendants(idx, from, to)))
<1> DEFINE m == MoveEntry(idx, from, to)
           gone == Descendants(idx, from, to)
           new == RenameEntry(idx, from, to)
<1>1. SafeEdit(idx, m, {})
  BY MoveSafe
<1>2. new.next = m.next /\ new.content = Drop(m.content, gone)
  BY DEF RenameEntry, Index
<1> HIDE DEF m, gone, new
<1>3. SafeEdit(m, new, ObjectsAt(m, gone))
  BY <1>1, <1>2, DropSafe DEF SafeEdit
<1>4. Refs(m) \subseteq Refs(idx)
  BY <1>1, SafeEditRefs
<1>5. SafeEdit(idx, new, ObjectsAt(m, gone))
  BY <1>1, <1>3, <1>4 DEF SafeEdit
<1> QED BY <1>5 DEF m, gone, new

-----------------------------------------------------------------------------
(* The invariant holds initially.                                          *)

LEMMA InitStoreInv == Init => StoreInv
<1> SUFFICES ASSUME Init PROVE StoreInv
  OBVIOUS
<1>1. TypeOK
  BY InitType
<1>2. mem = EmptyIndex /\ disk = EmptyIndex /\ DOMAIN mem.content = {}
  BY DEF Init, EmptyIndex, Index, NoMap
<1>3. Refs(mem) = {} /\ Refs(disk) = {}
  BY <1>2, EmptyIndexType
<1>4. \A t \in Threads : pc[t] = "idle" /\ doomed[t] = {}
  BY DEF Init
<1>5. disk.next <= mem.next
  BY <1>2 DEF EmptyIndex, Index
<1> QED BY <1>1, <1>2, <1>3, <1>4, <1>5
        DEF StoreInv, Bounded, NoSharedObject, Unshared, ObjectIntegrity, ReadIntegrity,
            LiveObjectsKept, OnlyLostMissing, FreshIds, InFlight, Downloaded, UsedIds

-----------------------------------------------------------------------------
(* Steps that leave the store alone: a thread moves on or returns.         *)

LEMMA QuietStep ==
    ASSUME StoreInv, TypeOK', NEW t \in Threads,
           UNCHANGED <<storeVars, chunkSize>>,
           \A u \in Threads \ {t} : /\ pc'[u] = pc[u] /\ req'[u] = req[u] /\ cur'[u] = cur[u]
                                    /\ obj'[u] = obj[u] /\ snap'[u] = snap[u],
           \A u \in Threads : doomed'[u] \subseteq doomed[u],
           \/ pc'[t] \notin {"download", "record", "assemble"}
           \/ pc'[t] = "assemble" /\ pc[t] = "assemble" /\ snap'[t] = snap[t]
    PROVE  StoreInv'
<1>0. mem' = mem /\ disk' = disk /\ files' = files /\ lost' = lost /\ chunkSize' = chunkSize
  BY DEF storeVars
<1>1. /\ Bounded(mem') /\ Bounded(disk') /\ disk'.next <= mem'.next
      /\ NoSharedObject' /\ ObjectIntegrity' /\ OnlyLostMissing'
  BY <1>0 DEF StoreInv, NoSharedObject, ObjectIntegrity, OnlyLostMissing, HoldsWhatItSays
<1>2. \A u \in Threads : InFlight(u)' => InFlight(u) /\ u # t /\ obj'[u] = obj[u]
  BY DEF InFlight
<1>3. \A u \in Threads : pc'[u] = "assemble" => pc[u] = "assemble" /\ snap'[u] = snap[u]
  OBVIOUS
<1>4. ReadIntegrity'
  BY <1>0, <1>3 DEF StoreInv, ReadIntegrity, HoldsWhatItSays
<1>5. LiveObjectsKept'
  BY <1>0 DEF StoreInv, LiveObjectsKept
<1>6. FreshIds'
  BY <1>0, <1>2, <1>3 DEF StoreInv, FreshIds
<1>7. Downloaded'
  <2>1. \A u \in Threads : pc'[u] = "record" => u # t
    OBVIOUS
  <2> QED BY <1>0, <2>1 DEF StoreInv, Downloaded
<1>8. UsedIds'
  BY <1>0, <1>3 DEF StoreInv, UsedIds
<1> QED BY <1>1, <1>4, <1>5, <1>6, <1>7, <1>8 DEF StoreInv

LEMMA ReturnQuiet ==
    ASSUME StoreInv, TypeOK', NEW t \in Threads, Return(t), UNCHANGED <<storeVars, chunkSize>>
    PROVE  StoreInv'
<1>1. pc'[t] = "idle" /\ \A u \in Threads : doomed'[u] \subseteq doomed[u]
  BY DEF Return, StoreInv, TypeOK
<1>2. \A u \in Threads \ {t} : /\ pc'[u] = pc[u] /\ req'[u] = req[u] /\ cur'[u] = cur[u]
                               /\ obj'[u] = obj[u] /\ snap'[u] = snap[u]
  BY DEF Return, StoreInv, TypeOK
<1> QED BY <1>1, <1>2, QuietStep

-----------------------------------------------------------------------------
(* Edits.                                                                  *)

LEMMA EditPreserves ==
    ASSUME StoreInv, TypeOK', NEW t \in Threads, NEW idx, NEW orphans, NEW save,
           SafeEdit(mem, idx, orphans), Edit(t, idx, orphans, save)
    PROVE  StoreInv'
<1>0. /\ mem' = idx /\ (disk' = idx \/ disk' = disk)
      /\ files' = files /\ lost' = lost /\ chunkSize' = chunkSize
      /\ obj' = obj /\ req' = req /\ cur' = cur /\ snap' = snap
      /\ pc[t] = "idle"
  BY DEF Edit, Persist
<1>1. /\ pc'[t] \in {"idle", "unlink"} /\ doomed'[t] = orphans
      /\ \A u \in Threads \ {t} : pc'[u] = pc[u] /\ doomed'[u] = doomed[u]
  BY DEF Edit, StoreInv, TypeOK
<1>2. Refs(idx) \subseteq Refs(mem) /\ idx.next = mem.next /\ Unshared(idx)
      /\ orphans \subseteq Refs(mem) /\ orphans \cap Refs(idx) = {}
  BY SafeEditRefs DEF SafeEdit
<1>3. \A o \in Refs(mem) : o < mem.next
  BY DEF StoreInv, Bounded
<1>4. Bounded(mem') /\ Bounded(disk') /\ disk'.next <= mem'.next
  <2>1. Bounded(idx)
    BY <1>2, <1>3 DEF Bounded
  <2>2. mem.next \in Nat /\ disk.next <= mem.next /\ Bounded(disk)
    BY DEF StoreInv, TypeOK, IsIndex
  <2> QED BY <1>0, <1>2, <2>1, <2>2
<1>5. NoSharedObject'
  BY <1>0, <1>2 DEF StoreInv, NoSharedObject
<1>6. ObjectIntegrity'
  <2>1. \A p \in DOMAIN idx.content : HoldsWhatItSays(idx.content[p])
    BY DEF SafeEdit, StoreInv, ObjectIntegrity
  <2>2. \A p \in DOMAIN disk.content : HoldsWhatItSays(disk.content[p])
    BY DEF StoreInv, ObjectIntegrity
  <2> QED BY <1>0, <2>1, <2>2 DEF ObjectIntegrity, HoldsWhatItSays
<1>7. \A u \in Threads : (InFlight(u)' <=> InFlight(u)) /\ (InFlight(u) => u # t)
  BY <1>0, <1>1 DEF InFlight
<1>8. \A u \in Threads : /\ (pc'[u] = "assemble" <=> pc[u] = "assemble")
                         /\ (pc'[u] = "record" <=> pc[u] = "record")
  BY <1>0, <1>1
<1>9. ReadIntegrity' /\ Downloaded'
  BY <1>0, <1>8 DEF StoreInv, ReadIntegrity, HoldsWhatItSays, Downloaded
<1>10. LiveObjectsKept'
  BY <1>0, <1>1, <1>2 DEF StoreInv, LiveObjectsKept
<1>11. OnlyLostMissing'
  BY <1>0, <1>2 DEF StoreInv, OnlyLostMissing
<1>12. FreshIds'
  <2> SUFFICES ASSUME NEW u \in Threads, InFlight(u)'
               PROVE  /\ obj[u] < idx.next
                      /\ obj[u] \notin Refs(idx)
                      /\ obj[u] \notin Refs(disk')
                      /\ \A v \in Threads : InFlight(v)' /\ obj[v] = obj[u] => v = u
                      /\ \A v \in Threads : obj[u] \notin doomed'[v]
                      /\ \A v \in Threads : pc'[v] = "assemble"
                                              => obj[u] \notin ContentObjects(snap[v])
    BY <1>0 DEF FreshIds
  <2>1. InFlight(u) /\ obj[u] \notin Refs(mem) /\ obj[u] \notin Refs(disk) /\ obj[u] < mem.next
    BY <1>7 DEF StoreInv, FreshIds
  <2>2. \A v \in Threads : obj[u] \notin doomed'[v]
    BY <1>1, <1>2, <2>1 DEF StoreInv, FreshIds
  <2>3. obj[u] \notin Refs(idx) /\ obj[u] \notin Refs(disk')
    BY <1>0, <1>2, <2>1
  <2>4. \A v \in Threads : InFlight(v)' /\ obj[v] = obj[u] => v = u
    BY <1>7, <2>1 DEF StoreInv, FreshIds
  <2>5. \A v \in Threads : pc'[v] = "assemble" => obj[u] \notin ContentObjects(snap[v])
    BY <1>8, <2>1 DEF StoreInv, FreshIds
  <2> QED BY <1>2, <2>1, <2>2, <2>3, <2>4, <2>5
<1>13. UsedIds'
  BY <1>0, <1>1, <1>2, <1>3, <1>8 DEF StoreInv, UsedIds
<1> QED BY <1>4, <1>5, <1>6, <1>9, <1>10, <1>11, <1>12, <1>13 DEF StoreInv

LEMMA EditStepsPreserve ==
    ASSUME StoreInv, TypeOK', NEW t \in Threads, EditSteps(t), ~UnlinkOrphan(t)
    PROVE  StoreInv'
<1>0. IsIndex(mem) /\ Unshared(mem)
  BY DEF StoreInv, TypeOK, NoSharedObject
<1>1. ASSUME NEW p \in Paths, NEW tag \in Tags, PutAttrs(t, p, tag)
      PROVE  StoreInv'
  <2> DEFINE new == [q \in {p} |-> tag]
  <2> HIDE DEF new
  <2>1. SafeEdit(mem, StoreAttrs(mem, new), ObjectsAt(mem, StalePaths(mem, new)))
    BY <1>0, DropSafe DEF StoreAttrs, Index
  <2> QED BY <1>1, <2>1, EditPreserves DEF PutAttrs, new
<1>2. ASSUME NEW p \in Dirs, NEW S \in SUBSET ChildNames(p), NEW kids \in [S -> Tags],
             RecordListingOf(t, p, kids)
      PROVE  StoreInv'
  <2>1. SafeEdit(mem, RecordListing(mem, p, kids),
                 ObjectsAt(mem, StalePaths(mem, ByPath(p, kids))))
    BY <1>0, DropSafe DEF RecordListing, StoreAttrs, Index
  <2> QED BY <1>2, <2>1, EditPreserves DEF RecordListingOf
<1>3. ASSUME NEW p \in Dirs, InvalidateChildrenOf(t, p)
      PROVE  StoreInv'
  <2>1. SafeEdit(mem, InvalidateChildren(mem, p), {})
    BY <1>0, SameContentSafe DEF InvalidateChildren, Index
  <2> QED BY <1>3, <2>1, EditPreserves DEF InvalidateChildrenOf
<1>4. ASSUME NEW p \in Paths, RemovePath(t, p)
      PROVE  StoreInv'
  <2>1. SafeEdit(mem, RemoveEntry(mem, p), ObjectsAt(mem, {p}))
    BY <1>0, DropSafe DEF RemoveEntry, Index
  <2> QED BY <1>4, <2>1, EditPreserves DEF RemovePath
<1>5. ASSUME NEW p \in Paths, NEW q \in Paths, RenamePath(t, p, q)
      PROVE  StoreInv'
  BY <1>0, <1>5, RenameSafe, EditPreserves DEF RenamePath
<1>6. ASSUME NEW p \in Paths, InvalidateContentOf(t, p)
      PROVE  StoreInv'
  <2>1. SafeEdit(mem, InvalidateContent(mem, p), ObjectsAt(mem, {p}))
    BY <1>0, DropSafe DEF InvalidateContent, Index
  <2> QED BY <1>6, <2>1, EditPreserves DEF InvalidateContentOf
<1> QED BY <1>1, <1>2, <1>3, <1>4, <1>5, <1>6 DEF EditSteps

-----------------------------------------------------------------------------
(* Deleting a file: no index, reader or download loses what it needs.      *)

LEMMA RemoveFilePreserves ==
    ASSUME StoreInv, TypeOK', NEW t \in Threads, NEW o \in doomed[t], RemoveFile(t, o),
           pc[t] \in {"unlinkReplaced", "unlink"},
           \A u \in Threads : pc'[u] # pc[u] => u = t /\ pc'[t] \in {"idle", "persist"},
           UNCHANGED <<mem, disk, lost, chunkSize, req, cur, obj, snap>>
    PROVE  StoreInv'
<1>1. /\ \A x \in DOMAIN files' : x \in DOMAIN files /\ files'[x] = files[x]
      /\ \A x \in DOMAIN files : x # o => x \in DOMAIN files'
  <2>1. files' = files \/ files' = Drop(files, {o})
    BY DEF RemoveFile
  <2> QED BY <2>1 DEF Drop
<1>2. \A u \in Threads : doomed'[u] \subseteq doomed[u]
  BY DEF RemoveFile, StoreInv, TypeOK
<1>3. o \notin Refs(mem)
  BY DEF StoreInv, LiveObjectsKept
<1>4. \A u \in Threads : /\ (InFlight(u)' <=> InFlight(u))
                         /\ (pc'[u] = "assemble" <=> pc[u] = "assemble")
                         /\ (pc'[u] = "record" <=> pc[u] = "record")
  BY DEF InFlight
<1>5. /\ Bounded(mem') /\ Bounded(disk') /\ disk'.next <= mem'.next /\ NoSharedObject'
  BY DEF StoreInv, NoSharedObject
<1>6. ObjectIntegrity' /\ ReadIntegrity'
  BY <1>1, <1>4 DEF StoreInv, ObjectIntegrity, ReadIntegrity, HoldsWhatItSays
<1>7. LiveObjectsKept' /\ UsedIds'
  BY <1>2, <1>4 DEF StoreInv, LiveObjectsKept, UsedIds
<1>8. OnlyLostMissing'
  BY <1>1, <1>3 DEF StoreInv, OnlyLostMissing
<1>9. FreshIds'
  BY <1>2, <1>4 DEF StoreInv, FreshIds
<1>10. Downloaded'
  <2> SUFFICES ASSUME NEW u \in Threads, pc[u] = "record"
               PROVE  /\ obj[u] \in DOMAIN files'
                      /\ files'[obj[u]] = Stamp(req[u].tag, chunkSize, cur[u])
    BY <1>4 DEF Downloaded
  <2>1. obj[u] # o
    BY DEF StoreInv, FreshIds, InFlight
  <2>2. obj[u] \in DOMAIN files /\ files[obj[u]] = Stamp(req[u].tag, chunkSize, cur[u])
    BY DEF StoreInv, Downloaded
  <2> QED BY <1>1, <2>1, <2>2
<1> QED BY <1>5, <1>6, <1>7, <1>8, <1>9, <1>10 DEF StoreInv

-----------------------------------------------------------------------------
(* The steps of read and fetch_chunk.                                      *)

LEMMA AllocPreserves ==
    ASSUME StoreInv, TypeOK', NEW t \in Threads, AllocObject(t)
    PROVE  StoreInv'
<1>0. /\ mem'.content = mem.content /\ mem'.next = mem.next + 1 /\ mem.next \in Nat
      /\ disk' = disk /\ files' = files /\ lost' = lost /\ chunkSize' = chunkSize
      /\ req' = req /\ cur' = cur /\ doomed' = doomed /\ snap' = snap
      /\ disk.next \in Nat
  BY DEF AllocObject, TakeId, Index, StoreInv, TypeOK, IsIndex
<1>1. /\ pc'[t] = "download" /\ obj'[t] = mem.next /\ pc[t] = "alloc"
      /\ \A u \in Threads \ {t} : pc'[u] = pc[u] /\ obj'[u] = obj[u]
  BY DEF AllocObject, StoreInv, TypeOK
<1>2. Refs(mem') = Refs(mem)
  BY <1>0 DEF Refs, ObjectsAt
<1>3. Refs(mem) \subseteq Nat /\ Refs(disk) \subseteq Nat
  BY RefsNat DEF StoreInv, TypeOK
<1>4. Bounded(mem') /\ Bounded(disk') /\ disk'.next <= mem'.next
  BY <1>0, <1>2, <1>3 DEF StoreInv, Bounded
<1>5. NoSharedObject' /\ ObjectIntegrity'
  BY <1>0 DEF StoreInv, NoSharedObject, Unshared, ObjectIntegrity, HoldsWhatItSays
<1>6. \A u \in Threads : /\ (pc'[u] = "assemble" <=> pc[u] = "assemble")
                         /\ (pc'[u] = "record" <=> pc[u] = "record")
                         /\ (InFlight(u)' <=> InFlight(u) \/ u = t)
                         /\ (pc'[u] = "record" => u # t)
  BY <1>1 DEF InFlight
<1>7. ReadIntegrity' /\ LiveObjectsKept' /\ OnlyLostMissing'
  BY <1>0, <1>2, <1>6 DEF StoreInv, ReadIntegrity, HoldsWhatItSays, LiveObjectsKept, OnlyLostMissing
<1>8. Downloaded'
  BY <1>0, <1>1, <1>6 DEF StoreInv, Downloaded
<1>9. \A u \in Threads : /\ doomed[u] \subseteq Nat
                         /\ pc[u] = "assemble" => ContentObjects(snap[u]) \subseteq Nat
  <2>1. ASSUME NEW u \in Threads, pc[u] = "assemble"
        PROVE  ContentObjects(snap[u]) \subseteq Nat
    <3>1. IsMap(snap[u].chunks, Chunks, ObjectIds)
      BY <2>1, ChunkMapMember DEF StoreInv, TypeOK, ContentRefs
    <3> QED BY <3>1, IdsNat DEF ContentObjects, IsMap
  <2> QED BY <2>1 DEF StoreInv, TypeOK
<1>10. UsedIds'
  BY <1>0, <1>6, <1>9 DEF StoreInv, UsedIds
<1>11. FreshIds'
  <2> SUFFICES ASSUME NEW u \in Threads, InFlight(u)'
               PROVE  /\ obj'[u] < mem.next + 1
                      /\ obj'[u] \notin Refs(mem)
                      /\ obj'[u] \notin Refs(disk)
                      /\ \A v \in Threads : InFlight(v)' /\ obj'[v] = obj'[u] => v = u
                      /\ \A v \in Threads : obj'[u] \notin doomed[v]
                      /\ \A v \in Threads : pc'[v] = "assemble"
                                              => obj'[u] \notin ContentObjects(snap[v])
    BY <1>0, <1>2 DEF FreshIds
  <2>1. \A v \in Threads \ {t} : InFlight(v)' => obj'[v] = obj[v] /\ obj[v] < mem.next /\ obj[v] \in Nat
    BY <1>1, <1>6, IdsNat DEF StoreInv, FreshIds, TypeOK
  <2>2. CASE u = t
    <3>1. \A o \in Refs(mem) : o < mem.next
      BY DEF StoreInv, Bounded
    <3>2. \A o \in Refs(disk) : o < mem.next
      BY <1>0, <1>3 DEF StoreInv, Bounded
    <3>3. \A v \in Threads : /\ \A o \in doomed[v] : o < mem.next
                             /\ pc[v] = "assemble" => \A o \in ContentObjects(snap[v]) : o < mem.next
      BY DEF StoreInv, UsedIds
    <3> QED BY <1>0, <1>1, <1>6, <2>1, <2>2, <3>1, <3>2, <3>3
  <2>3. CASE u # t
    <3>1. InFlight(u) /\ obj'[u] = obj[u]
      BY <1>1, <1>6, <2>3
    <3>2. \A v \in Threads : InFlight(v)' /\ obj'[v] = obj'[u] => v = u
      BY <1>0, <1>1, <1>6, <2>1, <2>3, <3>1 DEF StoreInv, FreshIds
    <3>3. obj[u] < mem.next + 1
      BY <1>0, <2>1, <2>3
    <3> QED BY <1>6, <3>1, <3>2, <3>3 DEF StoreInv, FreshIds
  <2> QED BY <2>2, <2>3
<1> QED BY <1>4, <1>5, <1>7, <1>8, <1>10, <1>11 DEF StoreInv

LEMMA DownloadPreserves ==
    ASSUME StoreInv, TypeOK', NEW t \in Threads, Download(t)
    PROVE  StoreInv'
<1>0. /\ mem' = mem /\ disk' = disk /\ lost' = lost /\ chunkSize' = chunkSize
      /\ req' = req /\ cur' = cur /\ obj' = obj /\ doomed' = doomed /\ snap' = snap
      /\ pc[t] = "download"
  BY DEF Download
<1>1. pc'[t] = "record" /\ \A u \in Threads \ {t} : pc'[u] = pc[u]
  BY DEF Download, StoreInv, TypeOK
<1>2. /\ DOMAIN files' = DOMAIN files \cup {obj[t]}
      /\ files'[obj[t]] = Stamp(req[t].tag, chunkSize, cur[t])
      /\ \A x \in DOMAIN files : x # obj[t] => files'[x] = files[x]
  BY DEF Download, Put
<1>3. \A u \in Threads : (InFlight(u)' <=> InFlight(u)) /\ (pc'[u] = "assemble" <=> pc[u] = "assemble")
  BY <1>0, <1>1 DEF InFlight
<1>4. /\ obj[t] \notin Refs(mem) /\ obj[t] \notin Refs(disk)
      /\ \A u \in Threads : pc[u] = "assemble" => obj[t] \notin ContentObjects(snap[u])
      /\ \A u \in Threads : InFlight(u) /\ obj[u] = obj[t] => u = t
  BY <1>0 DEF StoreInv, FreshIds, InFlight
<1>5. Bounded(mem') /\ Bounded(disk') /\ disk'.next <= mem'.next /\ NoSharedObject'
      /\ LiveObjectsKept' /\ FreshIds' /\ UsedIds'
  BY <1>0, <1>3 DEF StoreInv, NoSharedObject, LiveObjectsKept, FreshIds, UsedIds
<1>6. OnlyLostMissing'
  BY <1>0, <1>2 DEF StoreInv, OnlyLostMissing
<1>7. ASSUME NEW content, obj[t] \notin ContentObjects(content), HoldsWhatItSays(content)
      PROVE  HoldsWhatItSays(content)'
  BY <1>2, <1>7 DEF HoldsWhatItSays, ContentObjects
<1>8. ObjectIntegrity'
  <2>1. ASSUME NEW p \in DOMAIN mem.content PROVE HoldsWhatItSays(mem.content[p])'
    BY <1>0, <1>4, <1>7 DEF StoreInv, ObjectIntegrity, Refs, ObjectsAt
  <2>2. ASSUME NEW p \in DOMAIN disk.content PROVE HoldsWhatItSays(disk.content[p])'
    BY <1>0, <1>4, <1>7 DEF StoreInv, ObjectIntegrity, Refs, ObjectsAt
  <2> QED BY <1>0, <2>1, <2>2 DEF ObjectIntegrity
<1>9. ReadIntegrity'
  <2>1. ASSUME NEW u \in Threads, pc[u] = "assemble" PROVE HoldsWhatItSays(snap[u])'
    BY <1>0, <1>4, <1>7, <2>1 DEF StoreInv, ReadIntegrity
  <2> QED BY <1>3, <2>1 DEF ReadIntegrity
<1>10. Downloaded'
  <2> SUFFICES ASSUME NEW u \in Threads, pc'[u] = "record"
               PROVE  /\ obj[u] \in DOMAIN files'
                      /\ files'[obj[u]] = Stamp(req[u].tag, chunkSize, cur[u])
    BY <1>0 DEF Downloaded
  <2>1. CASE u = t
    BY <1>2, <2>1
  <2>2. CASE u # t
    <3>1. pc[u] = "record" /\ obj[u] # obj[t]
      BY <1>1, <1>4, <2>2 DEF InFlight
    <3> QED BY <1>2, <3>1 DEF StoreInv, Downloaded
  <2> QED BY <2>1, <2>2
<1> QED BY <1>5, <1>6, <1>8, <1>9, <1>10 DEF StoreInv

\* What RecordChunk does to the references: one new object, the replaced ones
\* gone, no sharing.
LEMMA RecordChunkRefs ==
    ASSUME NEW idx, IsIndex(idx), Unshared(idx), NEW p, NEW tag, NEW csize, NEW k, NEW o,
           o \notin Refs(idx)
    PROVE  LET new  == RecordChunk(idx, p, tag, csize, k, o)
               gone == ReplacedObjects(idx, p, tag, csize, k)
           IN  /\ new.next = idx.next
               /\ Refs(new) \subseteq Refs(idx) \cup {o}
               /\ gone \subseteq Refs(idx)
               /\ gone \cap Refs(new) = {}
               /\ Unshared(new)
<1> DEFINE matches == ContentMatches(idx, p, tag, csize)
           kept == IF matches THEN idx.content[p].chunks ELSE NoMap
           chunks == Put(kept, k, o)
           new  == RecordChunk(idx, p, tag, csize, k, o)
           gone == ReplacedObjects(idx, p, tag, csize, k)
<1>1. new.next = idx.next /\ new.content = Put(idx.content, p, ContentRef(tag, csize, chunks))
  BY DEF RecordChunk, Index
<1>2. /\ DOMAIN new.content = DOMAIN idx.content \cup {p}
      /\ new.content[p].chunks = chunks
      /\ \A q \in DOMAIN idx.content : q # p => new.content[q] = idx.content[q]
  <2> HIDE DEF new, chunks
  <2> QED BY <1>1 DEF Put, ContentRef
<1>3. /\ DOMAIN chunks = DOMAIN kept \cup {k}
      /\ chunks[k] = o
      /\ \A c \in DOMAIN kept : c # k => chunks[c] = kept[c]
  <2> HIDE DEF kept
  <2> QED BY DEF Put
<1>4. matches => p \in DOMAIN idx.content /\ kept = idx.content[p].chunks
  BY DEF ContentMatches
<1>5. ~matches => DOMAIN kept = {}
  BY DEF NoMap
<1>6. gone \subseteq Refs(idx)
  BY DEF ReplacedObjects, HasChunk, ContentMatches, Refs, ObjectsAt, ContentObjects
<1>7. \A x \in gone : \E c \in DOMAIN idx.content[p].chunks :
          /\ p \in DOMAIN idx.content
          /\ x = idx.content[p].chunks[c]
          /\ matches => c = k
  BY DEF ReplacedObjects, HasChunk, ContentMatches, ContentObjects
<1> HIDE DEF new, gone, kept, matches, chunks
\* Every reference of `new` is the new object or one of idx at the same place.
<1>8. ASSUME NEW q \in DOMAIN new.content, NEW c \in DOMAIN new.content[q].chunks
      PROVE  \/ q = p /\ c = k /\ new.content[q].chunks[c] = o
             \/ /\ q \in DOMAIN idx.content /\ c \in DOMAIN idx.content[q].chunks
                /\ new.content[q].chunks[c] = idx.content[q].chunks[c]
                /\ q = p => matches /\ c # k
  <2>1. CASE q # p
    BY <1>2, <2>1
  <2>2. CASE q = p
    <3>1. c \in DOMAIN kept \cup {k} /\ new.content[q].chunks = chunks
      BY <1>2, <1>3, <2>2
    <3>2. CASE c = k
      BY <1>3, <2>2, <3>1, <3>2
    <3>3. CASE c # k
      BY <1>3, <1>4, <1>5, <2>2, <3>1, <3>3
    <3> QED BY <3>2, <3>3
  <2> QED BY <2>1, <2>2
<1>9. \A q \in DOMAIN idx.content : \A c \in DOMAIN idx.content[q].chunks :
          idx.content[q].chunks[c] # o
  BY RefsMember
<1>10. Refs(new) \subseteq Refs(idx) \cup {o}
  <2> SUFFICES ASSUME NEW x \in Refs(new) PROVE x \in Refs(idx) \cup {o}
    OBVIOUS
  <2>1. PICK q \in DOMAIN new.content : \E c \in DOMAIN new.content[q].chunks :
            x = new.content[q].chunks[c]
    BY RefsMember
  <2>2. PICK c \in DOMAIN new.content[q].chunks : x = new.content[q].chunks[c]
    BY <2>1
  <2> QED BY <1>8, <2>2, RefsMember
<1>11. gone \cap Refs(new) = {}
  <2> SUFFICES ASSUME NEW x \in gone, x \in Refs(new) PROVE FALSE
    OBVIOUS
  <2>1. PICK q \in DOMAIN new.content : \E c \in DOMAIN new.content[q].chunks :
            x = new.content[q].chunks[c]
    BY RefsMember
  <2>2. PICK c \in DOMAIN new.content[q].chunks : x = new.content[q].chunks[c]
    BY <2>1
  <2>3. PICK d \in DOMAIN idx.content[p].chunks :
            p \in DOMAIN idx.content /\ x = idx.content[p].chunks[d] /\ (matches => d = k)
    BY <1>7
  <2>4. x # o
    BY <1>9, <2>3
  <2>5. /\ q \in DOMAIN idx.content /\ c \in DOMAIN idx.content[q].chunks
        /\ x = idx.content[q].chunks[c]
        /\ q = p => matches /\ c # k
    BY <1>8, <2>2, <2>4
  <2>6. q = p /\ c = d
    <3>1. /\ p \in DOMAIN idx.content /\ d \in DOMAIN idx.content[p].chunks
          /\ x = idx.content[p].chunks[d]
      BY <2>3
    <3>2. /\ q \in DOMAIN idx.content /\ c \in DOMAIN idx.content[q].chunks
          /\ x = idx.content[q].chunks[c]
      BY <2>5
    <3>3. \A a \in DOMAIN idx.content[q].chunks, b \in DOMAIN idx.content[p].chunks :
              idx.content[q].chunks[a] = idx.content[p].chunks[b] => q = p /\ a = b
      BY <3>1, <3>2 DEF Unshared
    <3> QED BY <3>1, <3>2, <3>3
  <2> QED BY <2>3, <2>5, <2>6
<1>12. Unshared(new)
  <2> SUFFICES ASSUME NEW q \in DOMAIN new.content, NEW r \in DOMAIN new.content,
                      NEW c \in DOMAIN new.content[q].chunks,
                      NEW d \in DOMAIN new.content[r].chunks,
                      new.content[q].chunks[c] = new.content[r].chunks[d]
               PROVE  q = r /\ c = d
    BY DEF Unshared
  <2>1. CASE new.content[q].chunks[c] = o
    <3>1. \A s \in DOMAIN new.content : \A e \in DOMAIN new.content[s].chunks :
              new.content[s].chunks[e] = o => s = p /\ e = k
      BY <1>8, <1>9
    <3> QED BY <2>1, <3>1
  <2>2. CASE new.content[q].chunks[c] # o
    <3>1. /\ q \in DOMAIN idx.content /\ c \in DOMAIN idx.content[q].chunks
          /\ new.content[q].chunks[c] = idx.content[q].chunks[c]
      BY <1>8, <2>2
    <3>2. /\ r \in DOMAIN idx.content /\ d \in DOMAIN idx.content[r].chunks
          /\ new.content[r].chunks[d] = idx.content[r].chunks[d]
      BY <1>8, <2>2
    <3>3. idx.content[q].chunks[c] = idx.content[r].chunks[d]
      BY <3>1, <3>2
    <3> QED BY <3>1, <3>2, <3>3, UnsharedUse
  <2> QED BY <2>1, <2>2
<1> QED BY <1>1, <1>6, <1>10, <1>11, <1>12 DEF new, gone

\* If the new object holds the chunk it was fetched as, every content of the
\* edited index still leads to its own bytes.
LEMMA RecordChunkHolds ==
    ASSUME NEW idx, NEW p, NEW tag, NEW csize, NEW k, NEW o,
           \A q \in DOMAIN idx.content : HoldsWhatItSays(idx.content[q]),
           o \in DOMAIN files, files[o] = Stamp(tag, csize, k)
    PROVE  LET new == RecordChunk(idx, p, tag, csize, k, o)
           IN  \A q \in DOMAIN new.content : HoldsWhatItSays(new.content[q])
<1> DEFINE matches == ContentMatches(idx, p, tag, csize)
           kept == IF matches THEN idx.content[p].chunks ELSE NoMap
           ref == ContentRef(tag, csize, Put(kept, k, o))
           new == RecordChunk(idx, p, tag, csize, k, o)
<1>1. new.content = Put(idx.content, p, ref)
  BY DEF RecordChunk, Index
<1>2. /\ ref.tag = tag /\ ref.csize = csize
      /\ DOMAIN ref.chunks = DOMAIN kept \cup {k}
      /\ ref.chunks[k] = o
      /\ \A c \in DOMAIN kept : c # k => ref.chunks[c] = kept[c]
  <2> HIDE DEF kept
  <2> QED BY DEF Put, ContentRef
<1>3. \A c \in DOMAIN kept : kept[c] \in DOMAIN files => files[kept[c]] = Stamp(tag, csize, c)
  BY DEF ContentMatches, HoldsWhatItSays, NoMap
<1> HIDE DEF new, ref, kept, matches
<1>4. HoldsWhatItSays(ref)
  <2> SUFFICES ASSUME NEW c \in DOMAIN ref.chunks, ref.chunks[c] \in DOMAIN files
               PROVE  files[ref.chunks[c]] = Stamp(ref.tag, ref.csize, c)
    BY DEF HoldsWhatItSays
  <2>1. CASE c = k
    BY <1>2, <2>1
  <2>2. CASE c # k
    BY <1>2, <1>3, <2>2
  <2> QED BY <2>1, <2>2
<1>5. \A q \in DOMAIN new.content : new.content[q] = ref \/ (q \in DOMAIN idx.content /\ new.content[q] = idx.content[q])
  BY <1>1 DEF Put
<1>6. \A q \in DOMAIN new.content : HoldsWhatItSays(new.content[q])
  BY <1>4, <1>5
<1> QED BY <1>6 DEF new

LEMMA RecordFetchedPreserves ==
    ASSUME StoreInv, TypeOK', NEW t \in Threads, RecordFetched(t)
    PROVE  StoreInv'
<1> DEFINE p == req[t].path
           tag == req[t].tag
           k == cur[t]
           o == obj[t]
           gone == ReplacedObjects(mem, p, tag, chunkSize, k)
<1>0. /\ mem' = RecordChunk(mem, p, tag, chunkSize, k, o)
      /\ disk' = disk /\ files' = files /\ lost' = lost /\ chunkSize' = chunkSize
      /\ req' = req /\ cur' = cur /\ obj' = obj /\ snap' = snap
      /\ pc[t] = "record"
  BY DEF RecordFetched
<1>1. /\ doomed'[t] = gone /\ pc'[t] \in {"persist", "unlinkReplaced"}
      /\ \A u \in Threads \ {t} : pc'[u] = pc[u] /\ doomed'[u] = doomed[u]
  BY DEF RecordFetched, StoreInv, TypeOK
<1>2. /\ o < mem.next /\ o \notin Refs(mem) /\ o \notin Refs(disk)
      /\ \A u \in Threads : InFlight(u) /\ obj[u] = o => u = t
      /\ \A u \in Threads : o \notin doomed[u]
  BY <1>0 DEF StoreInv, FreshIds, InFlight
<1>3. o \in DOMAIN files /\ files[o] = Stamp(tag, chunkSize, k)
  BY <1>0 DEF StoreInv, Downloaded
<1>4. IsIndex(mem) /\ Unshared(mem) /\ Unshared(disk) /\ Bounded(mem) /\ Bounded(disk)
      /\ disk.next <= mem.next
  BY DEF StoreInv, TypeOK, NoSharedObject
<1>5. /\ mem'.next = mem.next
      /\ Refs(mem') \subseteq Refs(mem) \cup {o}
      /\ gone \subseteq Refs(mem)
      /\ gone \cap Refs(mem') = {}
      /\ Unshared(mem')
  BY <1>0, <1>2, <1>4, RecordChunkRefs
<1>6. \A q \in DOMAIN mem'.content : HoldsWhatItSays(mem'.content[q])
  BY <1>0, <1>3, RecordChunkHolds DEF StoreInv, ObjectIntegrity
<1> HIDE DEF gone, o, k, p, tag
<1>7. Bounded(mem') /\ Bounded(disk') /\ disk'.next <= mem'.next /\ NoSharedObject'
  BY <1>0, <1>2, <1>4, <1>5 DEF Bounded, NoSharedObject
<1>8. ObjectIntegrity'
  <2>1. \A q \in DOMAIN disk.content : HoldsWhatItSays(disk.content[q])
    BY DEF StoreInv, ObjectIntegrity
  <2> QED BY <1>0, <1>6, <2>1 DEF ObjectIntegrity, HoldsWhatItSays
<1>9. \A u \in Threads : /\ (InFlight(u)' <=> InFlight(u) /\ u # t)
                         /\ (pc'[u] = "assemble" <=> pc[u] = "assemble")
                         /\ (pc'[u] = "record" => pc[u] = "record")
  BY <1>0, <1>1 DEF InFlight
<1>10. ReadIntegrity' /\ Downloaded'
  BY <1>0, <1>9 DEF StoreInv, ReadIntegrity, HoldsWhatItSays, Downloaded
<1>11. LiveObjectsKept'
  BY <1>1, <1>2, <1>5 DEF StoreInv, LiveObjectsKept
<1>12. OnlyLostMissing'
  BY <1>0, <1>3, <1>5 DEF StoreInv, OnlyLostMissing
<1>13. \A u \in Threads : InFlight(u)' =>
          obj[u] # o /\ obj[u] \notin Refs(mem) /\ obj[u] \notin gone
  BY <1>2, <1>5, <1>9 DEF StoreInv, FreshIds
<1>14. FreshIds'
  BY <1>0, <1>1, <1>5, <1>9, <1>13 DEF StoreInv, FreshIds
<1>15. UsedIds'
  BY <1>0, <1>1, <1>4, <1>5, <1>9 DEF StoreInv, UsedIds, Bounded
<1> QED BY <1>7, <1>8, <1>10, <1>11, <1>12, <1>14, <1>15 DEF StoreInv

LEMMA PersistPreserves ==
    ASSUME StoreInv, TypeOK', NEW t \in Threads, PersistFetched(t)
    PROVE  StoreInv'
<1>0. /\ mem' = mem /\ (disk' = mem \/ disk' = disk)
      /\ files' = files /\ lost' = lost /\ chunkSize' = chunkSize
      /\ req' = req /\ doomed' = doomed /\ snap' = snap
      /\ pc[t] = "persist"
  BY DEF PersistFetched, Persist
<1>1. /\ pc'[t] \in {"check", "clone"}
      /\ \A u \in Threads \ {t} : pc'[u] = pc[u] /\ obj'[u] = obj[u] /\ cur'[u] = cur[u]
  BY DEF PersistFetched, NextChunk, StoreInv, TypeOK
<1>2. \A u \in Threads : /\ (InFlight(u)' => InFlight(u) /\ u # t)
                         /\ (pc'[u] = "assemble" => pc[u] = "assemble")
                         /\ (pc'[u] = "record" => pc[u] = "record" /\ u # t)
  BY <1>0, <1>1 DEF InFlight
<1>3. mem.next \in Nat
  BY DEF StoreInv, TypeOK, IsIndex
<1>4. Bounded(mem') /\ Bounded(disk') /\ disk'.next <= mem'.next /\ NoSharedObject'
  BY <1>0, <1>3 DEF StoreInv, NoSharedObject
<1>5. ObjectIntegrity'
  BY <1>0 DEF StoreInv, ObjectIntegrity, HoldsWhatItSays
<1>6. ReadIntegrity' /\ LiveObjectsKept' /\ OnlyLostMissing' /\ UsedIds'
  BY <1>0, <1>2 DEF StoreInv, ReadIntegrity, HoldsWhatItSays, LiveObjectsKept,
                    OnlyLostMissing, UsedIds
<1>7. Downloaded'
  BY <1>0, <1>1, <1>2 DEF StoreInv, Downloaded
<1>8. FreshIds'
  BY <1>0, <1>1, <1>2 DEF StoreInv, FreshIds
<1> QED BY <1>4, <1>5, <1>6, <1>7, <1>8 DEF StoreInv

\* The copy refers to what the index refers to, so to no object in flight.
LEMMA ClonePreserves ==
    ASSUME StoreInv, TypeOK', NEW t \in Threads, CloneChunks(t)
    PROVE  StoreInv'
<1> DEFINE p == req[t].path
<1>1. CASE p \in DOMAIN mem.content /\ mem.content[p].csize = chunkSize
  <2>0. /\ UNCHANGED <<mem, disk, files, lost, chunkSize, req, cur, obj, doomed>>
        /\ pc[t] = "clone"
    BY <1>1 DEF CloneChunks, storeVars
  <2>1. /\ pc'[t] = "assemble" /\ snap'[t] = mem.content[p]
        /\ \A u \in Threads \ {t} : pc'[u] = pc[u] /\ snap'[u] = snap[u]
    BY <1>1 DEF CloneChunks, StoreInv, TypeOK
  <2>2. ContentObjects(mem.content[p]) \subseteq Refs(mem)
    BY <1>1 DEF Refs, ObjectsAt
  <2> HIDE DEF p
  <2>3. \A u \in Threads : /\ (InFlight(u)' <=> InFlight(u))
                           /\ (pc'[u] = "record" <=> pc[u] = "record")
                           /\ (pc'[u] = "assemble" <=> pc[u] = "assemble" \/ u = t)
    BY <2>0, <2>1 DEF InFlight
  <2>4. /\ Bounded(mem') /\ Bounded(disk') /\ disk'.next <= mem'.next /\ NoSharedObject'
        /\ ObjectIntegrity' /\ LiveObjectsKept' /\ OnlyLostMissing'
    BY <2>0 DEF StoreInv, NoSharedObject, ObjectIntegrity, HoldsWhatItSays, LiveObjectsKept,
                OnlyLostMissing
  <2>5. Downloaded'
    BY <2>0, <2>3 DEF StoreInv, Downloaded
  <2>6. ReadIntegrity'
    <3>1. HoldsWhatItSays(mem.content[p])
      BY <1>1 DEF StoreInv, ObjectIntegrity
    <3>2. \A u \in Threads : pc'[u] = "assemble" => HoldsWhatItSays(snap'[u])
      BY <2>1, <2>3, <3>1 DEF StoreInv, ReadIntegrity
    <3> QED BY <2>0, <3>2 DEF ReadIntegrity, HoldsWhatItSays
  <2>7. UsedIds'
    <3>1. \A o \in ContentObjects(snap'[t]) : o < mem.next
      BY <2>1, <2>2 DEF StoreInv, Bounded
    <3> QED BY <2>0, <2>1, <2>3, <3>1 DEF StoreInv, UsedIds
  <2>8. FreshIds'
    <3>1. \A u \in Threads : InFlight(u) => obj[u] \notin ContentObjects(snap'[t])
      BY <2>1, <2>2 DEF StoreInv, FreshIds
    <3> QED BY <2>0, <2>1, <2>3, <3>1 DEF StoreInv, FreshIds
  <2> QED BY <2>4, <2>5, <2>6, <2>7, <2>8 DEF StoreInv
<1>2. CASE ~(p \in DOMAIN mem.content /\ mem.content[p].csize = chunkSize)
  BY <1>2, ReturnQuiet DEF CloneChunks
<1> QED BY <1>1, <1>2

LEMMA ReadStepsPreserve ==
    ASSUME StoreInv, TypeOK', NEW t \in Threads, ReadSteps(t)
    PROVE  StoreInv'
<1>0. TypeOK
  BY DEF StoreInv
<1>1. ASSUME NEW p \in Files, NEW tag \in Tags, NEW lo \in Chunks, NEW hi \in Chunks,
             StartRead(t, p, tag, lo, hi)
      PROVE  StoreInv'
  <2>1. /\ pc'[t] = "check" /\ UNCHANGED <<storeVars, chunkSize>> /\ doomed' = doomed
        /\ \A u \in Threads \ {t} : /\ pc'[u] = pc[u] /\ req'[u] = req[u] /\ cur'[u] = cur[u]
                                    /\ obj'[u] = obj[u] /\ snap'[u] = snap[u]
    BY <1>0, <1>1 DEF StartRead, TypeOK
  <2> QED BY <2>1, QuietStep
<1>2. ASSUME NEW p \in Files, NEW lo \in Chunks, NEW hi \in Chunks,
             StartReadCached(t, p, lo, hi)
      PROVE  StoreInv'
  <2>1. /\ pc'[t] = "clone" /\ UNCHANGED <<storeVars, chunkSize>> /\ doomed' = doomed
        /\ \A u \in Threads \ {t} : /\ pc'[u] = pc[u] /\ req'[u] = req[u] /\ cur'[u] = cur[u]
                                    /\ obj'[u] = obj[u] /\ snap'[u] = snap[u]
    BY <1>0, <1>2 DEF StartReadCached, TypeOK
  <2> QED BY <2>1, QuietStep
<1>3. CASE CachedChunk(t)
  <2>1. /\ pc'[t] \in {"check", "clone", "alloc"}
        /\ UNCHANGED <<storeVars, chunkSize>> /\ doomed' = doomed
        /\ \A u \in Threads \ {t} : /\ pc'[u] = pc[u] /\ req'[u] = req[u] /\ cur'[u] = cur[u]
                                    /\ obj'[u] = obj[u] /\ snap'[u] = snap[u]
    BY <1>0, <1>3 DEF CachedChunk, NextChunk, TypeOK
  <2> QED BY <2>1, QuietStep
<1>4. CASE AllocObject(t)
  BY <1>4, AllocPreserves
<1>5. CASE Download(t)
  BY <1>5, DownloadPreserves
<1>6. CASE DownloadFails(t)
  BY <1>6, ReturnQuiet DEF DownloadFails
<1>7. CASE RecordFetched(t)
  BY <1>7, RecordFetchedPreserves
<1>8. CASE UnlinkReplaced(t)
  <2>1. PICK o \in doomed[t] : RemoveFile(t, o)
    BY <1>8 DEF UnlinkReplaced
  <2>2. /\ pc[t] \in {"unlinkReplaced", "unlink"}
        /\ \A u \in Threads : pc'[u] # pc[u] => u = t /\ pc'[t] \in {"idle", "persist"}
        /\ UNCHANGED <<mem, disk, lost, chunkSize, req, cur, obj, snap>>
    BY <1>0, <1>8 DEF UnlinkReplaced, TypeOK
  <2> QED BY <2>1, <2>2, RemoveFilePreserves
<1>9. CASE PersistFetched(t)
  BY <1>9, PersistPreserves
<1>10. CASE CloneChunks(t)
  BY <1>10, ClonePreserves
<1>11. CASE ReadObject(t)
  <2>1. CASE Return(t)
    BY <1>11, <2>1, ReturnQuiet DEF ReadObject
  <2>2. CASE ~Return(t)
    <3>1. /\ pc[t] = "assemble" /\ UNCHANGED <<pc, req, obj, doomed, snap>>
          /\ UNCHANGED <<storeVars, chunkSize>>
          /\ \A u \in Threads \ {t} : cur'[u] = cur[u]
      BY <1>0, <1>11, <2>2 DEF ReadObject, TypeOK
    <3> QED BY <3>1, QuietStep
  <2> QED BY <2>1, <2>2
<1> QED BY <1>1, <1>2, <1>3, <1>4, <1>5, <1>6, <1>7, <1>8, <1>9, <1>10, <1>11 DEF ReadSteps

-----------------------------------------------------------------------------
(* Restarts: an index whose ids are below its counter is a safe start.     *)

LEMMA StartFromPreserves ==
    ASSUME StoreInv, TypeOK', NEW idx, StartFrom(idx),
           IsIndex(idx), Bounded(idx), Unshared(idx),
           \A p \in DOMAIN idx.content : HoldsWhatItSays(idx.content[p])
    PROVE  StoreInv'
<1>0. /\ mem' = idx /\ disk' = idx /\ files' = files /\ lost' = Refs(idx) \ DOMAIN files
      /\ \A t \in Threads : pc'[t] = "idle" /\ doomed'[t] = {}
  BY DEF StartFrom
<1>1. idx.next \in Nat
  BY DEF IsIndex
<1>2. Bounded(mem') /\ Bounded(disk') /\ disk'.next <= mem'.next /\ NoSharedObject'
      /\ LiveObjectsKept' /\ OnlyLostMissing'
  BY <1>0, <1>1 DEF NoSharedObject, LiveObjectsKept, OnlyLostMissing
<1>3. ObjectIntegrity'
  BY <1>0 DEF ObjectIntegrity, HoldsWhatItSays
<1>4. ReadIntegrity' /\ FreshIds' /\ Downloaded' /\ UsedIds'
  BY <1>0 DEF ReadIntegrity, FreshIds, InFlight, Downloaded, UsedIds
<1> QED BY <1>2, <1>3, <1>4 DEF StoreInv

-----------------------------------------------------------------------------
(* The theorems.                                                           *)

LEMMA NextStoreInv == StoreInv /\ [Next]_vars => StoreInv'
<1> SUFFICES ASSUME StoreInv, [Next]_vars PROVE StoreInv'
  OBVIOUS
<1>0. TypeOK'
  BY NextType DEF StoreInv
<1>1. ASSUME NEW t \in Threads, ReadSteps(t) PROVE StoreInv'
  BY <1>0, <1>1, ReadStepsPreserve
<1>2. ASSUME NEW t \in Threads, EditSteps(t) PROVE StoreInv'
  <2>1. CASE UnlinkOrphan(t)
    <3>1. PICK o \in doomed[t] : RemoveFile(t, o)
      BY <2>1 DEF UnlinkOrphan
    <3>2. /\ pc[t] \in {"unlinkReplaced", "unlink"}
          /\ \A u \in Threads : pc'[u] # pc[u] => u = t /\ pc'[t] \in {"idle", "persist"}
          /\ UNCHANGED <<mem, disk, lost, chunkSize, req, cur, obj, snap>>
      BY <2>1 DEF UnlinkOrphan, StoreInv, TypeOK
    <3> QED BY <1>0, <3>1, <3>2, RemoveFilePreserves
  <2>2. CASE ~UnlinkOrphan(t)
    BY <1>0, <1>2, <2>2, EditStepsPreserve
  <2> QED BY <2>1, <2>2
<1>3. CASE Restart
  BY <1>0, <1>3, StartFromPreserves
     DEF Restart, StoreInv, TypeOK, NoSharedObject, ObjectIntegrity
<1>4. CASE RestartWithoutIndex
  <2>1. /\ IsIndex(EmptyIndex) /\ Bounded(EmptyIndex) /\ Unshared(EmptyIndex)
        /\ \A p \in DOMAIN EmptyIndex.content : HoldsWhatItSays(EmptyIndex.content[p])
    BY EmptyIndexType DEF Bounded, Unshared, EmptyIndex, Index, NoMap
  <2> QED BY <1>0, <1>4, <2>1, StartFromPreserves DEF RestartWithoutIndex
<1>5. CASE UNCHANGED vars
  BY <1>5 DEF vars, StoreInv, TypeOK, NoSharedObject, ObjectIntegrity, ReadIntegrity,
              HoldsWhatItSays, LiveObjectsKept, OnlyLostMissing, FreshIds, InFlight,
              Downloaded, UsedIds
<1> QED BY <1>1, <1>2, <1>3, <1>4, <1>5 DEF Next

\* The inductive invariant holds in every reachable state.
THEOREM StoreInvariant == Spec => []StoreInv
BY InitStoreInv, NextStoreInv, PTL DEF Spec

\* No interleaving of store calls, failed index writes and restarts makes two
\* chunks of an index share an object file.
THEOREM ObjectsNeverShared == Spec => []NoSharedObject
<1>1. StoreInv => NoSharedObject
  BY DEF StoreInv
<1> QED BY <1>1, StoreInvariant, PTL

\* A reference in the index, in memory or in index.json, never leads to the
\* bytes of another version, chunk size or chunk.
THEOREM ObjectsHoldWhatIndexSays == Spec => []ObjectIntegrity
<1>1. StoreInv => ObjectIntegrity
  BY DEF StoreInv
<1> QED BY <1>1, StoreInvariant, PTL

\* A read that copied its chunk map and released the mutex never assembles the
\* range from two versions or from another chunk's bytes.
THEOREM ReadsNeverMix == Spec => []ReadIntegrity
<1>1. StoreInv => ReadIntegrity
  BY DEF StoreInv
<1> QED BY <1>1, StoreInvariant, PTL

\* What any thread is about to delete is not referred to by the live index.
THEOREM DeletionsAreDead == Spec => []LiveObjectsKept
<1>1. StoreInv => LiveObjectsKept
  BY DEF StoreInv
<1> QED BY <1>1, StoreInvariant, PTL

\* Within one mount no recorded chunk loses its file.
THEOREM MountLosesNothing == Spec => []OnlyLostMissing
<1>1. StoreInv => OnlyLostMissing
  BY DEF StoreInv
<1> QED BY <1>1, StoreInvariant, PTL

-----------------------------------------------------------------------------
(* DiskCurrent: while no rewrite of index.json fails, a mutex nobody holds *)
(* means that a restart would find what the mount serves.                  *)

\* An index is the record the code calls Index, and its contents hold chunks:
\* fetch_chunk creates a content together with its first chunk.
ProperIndex(idx) ==
    /\ idx = Index(idx.next, idx.attrs, idx.content, idx.listing)
    /\ \A p \in DOMAIN idx.content : DOMAIN idx.content[p].chunks # {}

\* Two indexes that differ at most in the object counter.
SameEntries(a, b) ==
    a.attrs = b.attrs /\ a.content = b.content /\ a.listing = b.listing

\* The mutex has one holder.
OneHolder == \A t, u \in Threads : Holds(t) /\ Holds(u) => t = u

\* The inductive invariant behind DiskCurrent: one thread at a time has the
\* index edited and not yet written.
DurableInv ==
    /\ ProperIndex(mem)
    /\ ProperIndex(disk)
    /\ OneHolder
    /\ LockFree /\ ~PersistMayFail => SameEntries(disk, mem)

-----------------------------------------------------------------------------
(* The edits keep indexes proper, and change nothing they do not save.     *)

LEMMA IndexProper ==
    ASSUME NEW n, NEW a, NEW c, NEW l,
           \A p \in DOMAIN c : DOMAIN c[p].chunks # {}
    PROVE  ProperIndex(Index(n, a, c, l))
BY DEF ProperIndex, Index

LEMMA DropNothing ==
    ASSUME NEW f, NEW S, NEW T, NEW D, IsMap(f, S, T), D \cap DOMAIN f = {}
    PROVE  Drop(f, D) = f
<1>1. DOMAIN f \ D = DOMAIN f
  OBVIOUS
<1>2. f = [x \in DOMAIN f |-> f[x]]
  BY DEF IsMap
<1> QED BY <1>1, <1>2 DEF Drop

LEMMA DropProper ==
    ASSUME NEW c, NEW D, \A p \in DOMAIN c : DOMAIN c[p].chunks # {}
    PROVE  \A p \in DOMAIN Drop(c, D) : DOMAIN Drop(c, D)[p].chunks # {}
BY DEF Drop

LEMMA MoveProper ==
    ASSUME NEW idx, IsIndex(idx), ProperIndex(idx), NEW from \in Paths, NEW to \in Paths
    PROVE  ProperIndex(MoveEntry(idx, from, to))
<1> DEFINE new == MoveEntry(idx, from, to)
<1>1. \A p \in DOMAIN new.content : \E q \in DOMAIN idx.content : new.content[p] = idx.content[q]
  BY MoveContent
<1>2. new = Index(new.next, new.attrs, new.content, new.listing)
  BY DEF MoveEntry, Index
<1> HIDE DEF new
<1>3. \A p \in DOMAIN new.content : DOMAIN new.content[p].chunks # {}
  BY <1>1 DEF ProperIndex
<1>4. ProperIndex(new)
  BY <1>2, <1>3 DEF ProperIndex
<1> QED BY <1>4 DEF new

LEMMA RecordChunkProper ==
    ASSUME NEW idx, ProperIndex(idx), NEW p, NEW tag, NEW csize, NEW k, NEW o
    PROVE  ProperIndex(RecordChunk(idx, p, tag, csize, k, o))
<1> DEFINE kept == IF ContentMatches(idx, p, tag, csize) THEN idx.content[p].chunks ELSE NoMap
           ref == ContentRef(tag, csize, Put(kept, k, o))
           content == Put(idx.content, p, ref)
<1>1. DOMAIN ref.chunks # {}
  BY DEF ContentRef, Put
<1> HIDE DEF ref
<1>2. \A q \in DOMAIN content : content[q] = ref \/ (q \in DOMAIN idx.content /\ content[q] = idx.content[q])
  BY DEF Put
<1>3. \A q \in DOMAIN content : DOMAIN content[q].chunks # {}
  BY <1>1, <1>2 DEF ProperIndex
<1> HIDE DEF content
<1> QED BY <1>3, IndexProper DEF RecordChunk, content, ref

\* The object files of a content without objects are none: a proper index has
\* an object wherever it has content.
LEMMA NoObjectsNoContent ==
    ASSUME NEW idx, ProperIndex(idx), NEW p, ObjectsAt(idx, {p}) = {}
    PROVE  p \notin DOMAIN idx.content
<1> SUFFICES ASSUME p \in DOMAIN idx.content PROVE FALSE
  OBVIOUS
<1>1. PICK c : c \in DOMAIN idx.content[p].chunks
  BY DEF ProperIndex
<1>2. idx.content[p].chunks[c] \in ObjectsAt(idx, {p})
  BY <1>1, ObjectsAtMember
<1> QED BY <1>2

-----------------------------------------------------------------------------
(* The invariant holds initially and is kept by every step.                *)

LEMMA InitDurable == Init => DurableInv
<1> SUFFICES ASSUME Init PROVE DurableInv
  OBVIOUS
<1>1. ProperIndex(EmptyIndex)
  BY IndexProper DEF EmptyIndex, NoMap
<1>2. \A t \in Threads : ~Holds(t)
  BY DEF Init, Holds
<1> QED BY <1>1, <1>2 DEF Init, DurableInv, OneHolder, SameEntries

\* Steps that leave entries and the mutex alone.
LEMMA DurableQuiet ==
    ASSUME DurableInv, ProperIndex(mem'), SameEntries(mem', mem), disk' = disk,
           \A t \in Threads : Holds(t)' <=> Holds(t)
    PROVE  DurableInv'
<1>1. LockFree' <=> LockFree
  BY DEF LockFree
<1>2. OneHolder'
  BY DEF DurableInv, OneHolder
<1>3. SameEntries(disk, mem) => SameEntries(disk', mem')
  BY DEF SameEntries
<1> QED BY <1>1, <1>2, <1>3 DEF DurableInv

\* An edit that is saved, or that leaves every entry as it was.
LEMMA DurableEdit ==
    ASSUME DurableInv, TypeOK, NEW t \in Threads, NEW idx, NEW orphans, NEW save,
           Edit(t, idx, orphans, save), ProperIndex(idx), save \/ SameEntries(idx, mem)
    PROVE  DurableInv'
<1>1. /\ LockFree /\ pc[t] = "idle" /\ mem' = idx /\ (disk' = idx \/ disk' = disk)
      /\ save /\ ~PersistMayFail => disk' = idx
      /\ ~save => disk' = disk
  BY DEF Edit, Persist
<1>2. pc'[t] \in {"idle", "unlink"} /\ \A u \in Threads \ {t} : pc'[u] = pc[u]
  BY DEF Edit, TypeOK
<1>3. \A u \in Threads : ~Holds(u)'
  BY <1>1, <1>2 DEF LockFree, Holds
<1>4. ~PersistMayFail => SameEntries(disk', mem')
  BY <1>1 DEF DurableInv, SameEntries
<1>5. ProperIndex(mem') /\ ProperIndex(disk')
  BY <1>1 DEF DurableInv
<1> QED BY <1>3, <1>4, <1>5 DEF DurableInv, OneHolder

LEMMA DurableEditSteps ==
    ASSUME DurableInv, TypeOK, NEW t \in Threads, EditSteps(t), ~UnlinkOrphan(t)
    PROVE  DurableInv'
<1>0. /\ IsIndex(mem) /\ ProperIndex(mem)
      /\ \A p \in DOMAIN mem.content : DOMAIN mem.content[p].chunks # {}
  BY DEF TypeOK, DurableInv, ProperIndex
<1>1. ASSUME NEW p \in Paths, NEW tag \in Tags, PutAttrs(t, p, tag)
      PROVE  DurableInv'
  <2> DEFINE new == [q \in {p} |-> tag]
  <2> HIDE DEF new
  <2>1. ProperIndex(StoreAttrs(mem, new))
    BY <1>0, DropProper, IndexProper DEF StoreAttrs
  <2> QED BY <1>1, <2>1, DurableEdit DEF PutAttrs, new
<1>2. ASSUME NEW p \in Dirs, NEW S \in SUBSET ChildNames(p), NEW kids \in [S -> Tags],
             RecordListingOf(t, p, kids)
      PROVE  DurableInv'
  <2>1. ProperIndex(StoreAttrs(mem, ByPath(p, kids)))
    BY <1>0, DropProper, IndexProper DEF StoreAttrs
  <2> DEFINE stored == StoreAttrs(mem, ByPath(p, kids))
  <2>2. \A q \in DOMAIN stored.content : DOMAIN stored.content[q].chunks # {}
    BY <2>1 DEF ProperIndex
  <2> HIDE DEF stored
  <2>3. ProperIndex(RecordListing(mem, p, kids))
    BY <2>2, IndexProper DEF RecordListing, stored
  <2> QED BY <1>2, <2>3, DurableEdit DEF RecordListingOf
<1>3. ASSUME NEW p \in Dirs, InvalidateChildrenOf(t, p)
      PROVE  DurableInv'
  <2>1. ProperIndex(InvalidateChildren(mem, p))
    BY <1>0, IndexProper DEF InvalidateChildren
  <2>2. p \notin DOMAIN mem.listing => Drop(mem.listing, {p}) = mem.listing
    BY <1>0, DropNothing DEF IsIndex
  <2>3. p \in DOMAIN mem.listing \/ SameEntries(InvalidateChildren(mem, p), mem)
    BY <2>2 DEF InvalidateChildren, Index, SameEntries
  <2> QED BY <1>3, <2>1, <2>3, DurableEdit DEF InvalidateChildrenOf
<1>4. ASSUME NEW p \in Paths, RemovePath(t, p)
      PROVE  DurableInv'
  <2> DEFINE save == p \in DOMAIN mem.attrs \/ p \in DOMAIN mem.listing
  <2>1. ProperIndex(RemoveEntry(mem, p))
    BY <1>0, DropProper, IndexProper DEF RemoveEntry
  <2>2. ~save => /\ Drop(mem.attrs, {p}) = mem.attrs
                 /\ Drop(mem.content, {p}) = mem.content
                 /\ Drop(mem.listing, {p}) = mem.listing
    <3>1. IsMap(mem.attrs, Paths, Tags) /\ IsMap(mem.content, DOMAIN mem.attrs, ContentRefs)
          /\ IsMap(mem.listing, Paths, SUBSET Names)
      BY <1>0 DEF IsIndex
    <3>2. ~save => /\ {p} \cap DOMAIN mem.attrs = {}
                   /\ {p} \cap DOMAIN mem.content = {}
                   /\ {p} \cap DOMAIN mem.listing = {}
      BY <3>1 DEF IsMap
    <3> QED BY <3>1, <3>2, DropNothing
  <2>3. save \/ SameEntries(RemoveEntry(mem, p), mem)
    BY <2>2 DEF RemoveEntry, Index, SameEntries
  <2> QED BY <1>4, <2>1, <2>3, DurableEdit DEF RemovePath
<1>5. ASSUME NEW p \in Paths, NEW q \in Paths, RenamePath(t, p, q)
      PROVE  DurableInv'
  <2>1. ProperIndex(MoveEntry(mem, p, q))
    BY <1>0, MoveProper
  <2> DEFINE moved == MoveEntry(mem, p, q)
  <2>2. \A r \in DOMAIN moved.content : DOMAIN moved.content[r].chunks # {}
    BY <2>1 DEF ProperIndex
  <2> HIDE DEF moved
  <2>3. ProperIndex(RenameEntry(mem, p, q))
    BY <2>2, DropProper, IndexProper DEF RenameEntry, moved
  <2> QED BY <1>5, <2>3, DurableEdit DEF RenamePath
<1>6. ASSUME NEW p \in Paths, InvalidateContentOf(t, p)
      PROVE  DurableInv'
  <2>1. ProperIndex(InvalidateContent(mem, p))
    BY <1>0, DropProper, IndexProper DEF InvalidateContent
  <2>2. ObjectsAt(mem, {p}) = {} => Drop(mem.content, {p}) = mem.content
    <3>1. ObjectsAt(mem, {p}) = {} => {p} \cap DOMAIN mem.content = {}
      BY <1>0, NoObjectsNoContent
    <3> QED BY <1>0, <3>1, DropNothing DEF IsIndex
  <2>3. ObjectsAt(mem, {p}) # {} \/ SameEntries(InvalidateContent(mem, p), mem)
    BY <2>2 DEF InvalidateContent, Index, SameEntries
  <2> QED BY <1>6, <2>1, <2>3, DurableEdit DEF InvalidateContentOf
<1> QED BY <1>1, <1>2, <1>3, <1>4, <1>5, <1>6 DEF EditSteps

\* Of read's steps, recording a chunk takes the mutex with the index edited, and
\* persisting gives it back with the index written; the others touch neither.
LEMMA DurableReadSteps ==
    ASSUME DurableInv, TypeOK, NEW t \in Threads, ReadSteps(t)
    PROVE  DurableInv'
<1>0. ProperIndex(mem) /\ ProperIndex(disk) /\ SameEntries(mem, mem)
  BY DEF DurableInv, SameEntries
<1>1. CASE RecordFetched(t)
  <2>1. /\ LockFree /\ disk' = disk /\ pc'[t] \in {"persist", "unlinkReplaced"}
        /\ \A u \in Threads \ {t} : pc'[u] = pc[u]
        /\ mem' = RecordChunk(mem, req[t].path, req[t].tag, chunkSize, cur[t], obj[t])
    BY <1>1 DEF RecordFetched, TypeOK
  <2>2. \A u \in Threads : Holds(u)' <=> u = t
    BY <2>1 DEF LockFree, Holds
  <2>3. ProperIndex(mem')
    BY <1>0, <2>1, RecordChunkProper
  <2> QED BY <1>0, <2>1, <2>2, <2>3 DEF DurableInv, OneHolder, LockFree
<1>2. CASE PersistFetched(t)
  <2>1. /\ mem' = mem /\ (disk' = mem \/ disk' = disk) /\ (~PersistMayFail => disk' = mem)
        /\ pc[t] = "persist" /\ pc'[t] \in {"check", "clone"}
        /\ \A u \in Threads \ {t} : pc'[u] = pc[u]
    BY <1>2 DEF PersistFetched, Persist, NextChunk, TypeOK
  <2>2. \A u \in Threads : ~Holds(u)'
    BY <2>1 DEF DurableInv, OneHolder, Holds
  <2> QED BY <1>0, <2>1, <2>2 DEF DurableInv, OneHolder, SameEntries
<1>3. CASE AllocObject(t)
  <2>1. /\ mem' = Index(mem.next + 1, mem.attrs, mem.content, mem.listing) /\ disk' = disk
        /\ \A u \in Threads : Holds(u)' <=> Holds(u)
    BY <1>3 DEF AllocObject, TakeId, Holds, TypeOK
  <2>2. ProperIndex(mem') /\ SameEntries(mem', mem)
    BY <1>0, <2>1 DEF ProperIndex, SameEntries, Index
  <2> QED BY <2>1, <2>2, DurableQuiet
<1>4. ASSUME UNCHANGED <<mem, disk>>, \A u \in Threads : Holds(u)' <=> Holds(u)
      PROVE  DurableInv'
  BY <1>0, <1>4, DurableQuiet
<1>5. ASSUME NEW p \in Files, NEW tag \in Tags, NEW lo \in Chunks, NEW hi \in Chunks,
             StartRead(t, p, tag, lo, hi)
      PROVE  DurableInv'
  BY <1>4, <1>5 DEF StartRead, storeVars, TypeOK, Holds
<1>6. ASSUME NEW p \in Files, NEW lo \in Chunks, NEW hi \in Chunks,
             StartReadCached(t, p, lo, hi)
      PROVE  DurableInv'
  BY <1>4, <1>6 DEF StartReadCached, storeVars, TypeOK, Holds
<1>7. CASE CachedChunk(t)
  BY <1>4, <1>7 DEF CachedChunk, NextChunk, storeVars, TypeOK, Holds
<1>8. CASE Download(t)
  BY <1>4, <1>8 DEF Download, TypeOK, Holds
<1>9. CASE DownloadFails(t)
  BY <1>4, <1>9 DEF DownloadFails, Return, storeVars, TypeOK, Holds
<1>10. CASE UnlinkReplaced(t)
  BY <1>4, <1>10 DEF UnlinkReplaced, TypeOK, Holds
<1>11. CASE CloneChunks(t)
  BY <1>4, <1>11 DEF CloneChunks, Return, storeVars, TypeOK, Holds
<1>12. CASE ReadObject(t)
  BY <1>4, <1>12 DEF ReadObject, Return, storeVars, TypeOK, Holds
<1> QED BY <1>1, <1>2, <1>3, <1>5, <1>6, <1>7, <1>8, <1>9, <1>10, <1>11, <1>12 DEF ReadSteps

LEMMA DurableStart ==
    ASSUME NEW idx, StartFrom(idx), ProperIndex(idx)
    PROVE  DurableInv'
<1>1. mem' = idx /\ disk' = idx /\ \A t \in Threads : ~Holds(t)'
  BY DEF StartFrom, Holds
<1> QED BY <1>1 DEF DurableInv, OneHolder, SameEntries

LEMMA NextDurable == TypeOK /\ DurableInv /\ [Next]_vars => DurableInv'
<1> SUFFICES ASSUME TypeOK, DurableInv, [Next]_vars PROVE DurableInv'
  OBVIOUS
<1>1. ASSUME NEW t \in Threads, ReadSteps(t) PROVE DurableInv'
  BY <1>1, DurableReadSteps
<1>2. ASSUME NEW t \in Threads, EditSteps(t) PROVE DurableInv'
  <2>1. CASE UnlinkOrphan(t)
    <3>1. UNCHANGED <<mem, disk>> /\ \A u \in Threads : Holds(u)' <=> Holds(u)
      BY <2>1 DEF UnlinkOrphan, TypeOK, Holds
    <3>2. ProperIndex(mem') /\ SameEntries(mem', mem)
      BY <3>1 DEF DurableInv, SameEntries
    <3> QED BY <3>1, <3>2, DurableQuiet
  <2> QED BY <1>2, <2>1, DurableEditSteps
<1>3. CASE Restart
  BY <1>3, DurableStart DEF Restart, DurableInv
<1>4. CASE RestartWithoutIndex
  <2>1. ProperIndex(EmptyIndex)
    BY IndexProper DEF EmptyIndex, NoMap
  <2> QED BY <1>4, <2>1, DurableStart DEF RestartWithoutIndex
<1>5. CASE UNCHANGED vars
  BY <1>5 DEF vars, DurableInv, OneHolder, LockFree, Holds
<1> QED BY <1>1, <1>2, <1>3, <1>4, <1>5 DEF Next

-----------------------------------------------------------------------------
\* One holder of the mutex, and an index on disk that follows the one in memory,
\* are kept by every step.
THEOREM DurableInvariant == Spec => []DurableInv
<1>1. Init => DurableInv
  BY InitDurable
<1>2. TypeOK /\ DurableInv /\ [Next]_vars => DurableInv'
  BY NextDurable
<1> QED BY <1>1, <1>2, TypeCorrect, PTL DEF Spec

\* If no rewrite of index.json fails, then whatever reads, edits and restarts
\* came before, index.json has the entries, contents and listings of the index
\* in memory whenever no fetch_chunk is inside its last critical section.
THEOREM DiskNeverBehind == Spec => []DiskCurrent
<1>1. DurableInv => DiskCurrent
  <2> SUFFICES ASSUME DurableInv, LockFree, ~PersistMayFail
               PROVE  disk = Index(disk.next, mem.attrs, mem.content, mem.listing)
    BY DEF DiskCurrent
  <2> QED BY DEF DurableInv, ProperIndex, SameEntries
<1> QED BY <1>1, DurableInvariant, PTL
=============================================================================
