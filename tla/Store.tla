------------------------------- MODULE Store --------------------------------
(***************************************************************************)
(* The persistent content store of crates/cacheshfs-core/src/store.rs with *)
(* several threads calling it, failing downloads, failing writes of the    *)
(* index, and processes that die and are started again.                    *)
(*                                                                         *)
(* The index mutex is what orders the threads: a critical section that     *)
(* touches no object file is one step; fetch_chunk's last one deletes      *)
(* object files while it holds the mutex, and readers open object files    *)
(* without it, so that section is split at each deletion.                  *)
(*                                                                         *)
(* An object file's bytes are abstracted to what they were fetched as: the *)
(* version, the chunk size and the chunk number.                           *)
(***************************************************************************)
EXTENDS StoreIndex

CONSTANTS
    Threads,     \* threads inside the store at once
    Files,       \* remote paths that are read, sequences of names
    Dirs,        \* remote paths that are listed
    Names,       \* child names a listing may hold
    Tags,        \* versions (size, mtime) the server reports
    MaxChunk,    \* last chunk number of a file
    ChunkSizes,  \* --cache-chunk-size values of successive mounts
    MaxObject,   \* bound on the object ids handed out
    PersistMayFail,  \* whether a rewrite of index.json can fail
    IndexMayBeLost   \* whether a start can find index.json missing or unreadable

ASSUME StoreAssumption ==
    /\ MaxChunk \in Nat
    /\ MaxObject \in Nat
    /\ PersistMayFail \in BOOLEAN
    /\ IndexMayBeLost \in BOOLEAN
    /\ Files \subseteq Seq(Names)
    /\ Dirs \subseteq Seq(Names)
    /\ ChunkSizes # {}

Paths == Files \cup Dirs
Chunks == 0..MaxChunk

VARIABLES
    mem,        \* the Index behind the mutex
    disk,       \* the Index in index.json
    files,      \* object files: id -> stamp of the bytes in it
    chunkSize,  \* the running mount's chunk size
    pc,         \* thread -> where it is
    req,        \* thread -> its read request: path, version, chunk range lo..hi
    cur,        \* thread -> chunk its read is at
    obj,        \* thread -> object id it allocated
    doomed,     \* thread -> object files it has yet to delete
    snap,       \* thread -> content its read assembles the range from
    lost        \* history: objects referred to but missing when the mount started

storeVars == <<mem, disk, files, lost>>
threadVars == <<pc, req, cur, obj, doomed, snap>>
vars == <<mem, disk, files, chunkSize, pc, req, cur, obj, doomed, snap, lost>>

NoReq == [path |-> <<>>, tag |-> 0, lo |-> 0, hi |-> 0]
NoContent == ContentRef(0, 0, NoMap)

\* What the bytes of an object are: chunk `chunk`, at `csize` bytes a chunk, of
\* version `tag`.
Stamp(tag, csize, chunk) == [tag |-> tag, csize |-> csize, chunk |-> chunk]

\* fetch_chunk holds the mutex while it deletes replaced objects and persists.
Holds(t) == pc[t] \in {"unlinkReplaced", "persist"}
LockFree == \A t \in Threads : ~Holds(t)

\* persist: index.json becomes the index, or stays what it was.
Persist(idx) ==
    \/ disk' = idx
    \/ PersistMayFail /\ disk' = disk

-----------------------------------------------------------------------------
Init ==
    /\ mem = EmptyIndex
    /\ disk = EmptyIndex
    /\ files = NoMap
    /\ chunkSize \in ChunkSizes
    /\ pc = [t \in Threads |-> "idle"]
    /\ req = [t \in Threads |-> NoReq]
    /\ cur = [t \in Threads |-> 0]
    /\ obj = [t \in Threads |-> 0]
    /\ doomed = [t \in Threads |-> {}]
    /\ snap = [t \in Threads |-> NoContent]
    /\ lost = {}

\* The call returns, with a result or an error.
Return(t) ==
    /\ pc' = [pc EXCEPT ![t] = "idle"]
    /\ req' = [req EXCEPT ![t] = NoReq]
    /\ cur' = [cur EXCEPT ![t] = 0]
    /\ obj' = [obj EXCEPT ![t] = 0]
    /\ doomed' = [doomed EXCEPT ![t] = {}]
    /\ snap' = [snap EXCEPT ![t] = NoContent]

-----------------------------------------------------------------------------
(* read: hydrate every chunk of the range, then read it from the objects.  *)

\* read, past its early return for an empty range.
StartRead(t, p, tag, lo, hi) ==
    /\ pc[t] = "idle"
    /\ lo <= hi
    /\ pc' = [pc EXCEPT ![t] = "check"]
    /\ req' = [req EXCEPT ![t] = [path |-> p, tag |-> tag, lo |-> lo, hi |-> hi]]
    /\ cur' = [cur EXCEPT ![t] = lo]
    /\ UNCHANGED <<storeVars, chunkSize, obj, doomed, snap>>

\* Mutant: the range is taken as one chunk longer.
NextChunkPastEnd(t) ==
    IF cur[t] <= req[t].hi
      THEN /\ cur' = [cur EXCEPT ![t] = cur[t] + 1]
           /\ pc' = [pc EXCEPT ![t] = "check"]
      ELSE /\ cur' = [cur EXCEPT ![t] = req[t].lo]
           /\ pc' = [pc EXCEPT ![t] = "clone"]

\* The loop of read moves on to the next chunk, or to read_cached_range.
NextChunk(t) ==
    IF cur[t] < req[t].hi
      THEN /\ cur' = [cur EXCEPT ![t] = cur[t] + 1]
           /\ pc' = [pc EXCEPT ![t] = "check"]
      ELSE /\ cur' = [cur EXCEPT ![t] = req[t].lo]
           /\ pc' = [pc EXCEPT ![t] = "clone"]

CachedChunk(t) ==
    /\ pc[t] = "check"
    /\ LockFree
    /\ IF HasChunk(mem, req[t].path, req[t].tag, chunkSize, cur[t])
         THEN NextChunk(t)
         ELSE pc' = [pc EXCEPT ![t] = "alloc"] /\ UNCHANGED cur
    /\ UNCHANGED <<storeVars, chunkSize, req, obj, doomed, snap>>

AllocObject(t) ==
    /\ pc[t] = "alloc"
    /\ LockFree
    /\ mem.next < MaxObject
    /\ obj' = [obj EXCEPT ![t] = mem.next]
    /\ mem' = TakeId(mem)
    /\ pc' = [pc EXCEPT ![t] = "download"]
    /\ UNCHANGED <<disk, files, lost, chunkSize, req, cur, doomed, snap>>

\* The download into the temp file and its rename into the objects directory,
\* over whatever file an earlier mount left under that id.
Download(t) ==
    /\ pc[t] = "download"
    /\ files' = Put(files, obj[t], Stamp(req[t].tag, chunkSize, cur[t]))
    /\ pc' = [pc EXCEPT ![t] = "record"]
    /\ UNCHANGED <<mem, disk, lost, chunkSize, req, cur, obj, doomed, snap>>

\* The remote or the local disk fails, before or after the id is taken: `?` leaves
\* fetch_chunk and read.
DownloadFails(t) ==
    /\ pc[t] \in {"alloc", "download"}
    /\ Return(t)
    /\ UNCHANGED <<storeVars, chunkSize>>

\* fetch_chunk takes the mutex again and records the chunk.  The code edits the
\* index between the deletions; nobody can see it before the mutex is free.
RecordFetched(t) ==
    /\ pc[t] = "record"
    /\ LockFree
    /\ mem' = RecordChunk(mem, req[t].path, req[t].tag, chunkSize, cur[t], obj[t])
    /\ doomed' = [doomed EXCEPT ![t] =
                    ReplacedObjects(mem, req[t].path, req[t].tag, chunkSize, cur[t])]
    /\ pc' = [pc EXCEPT ![t] = IF doomed'[t] = {} THEN "persist" ELSE "unlinkReplaced"]
    /\ UNCHANGED <<disk, files, lost, chunkSize, req, cur, obj, snap>>

\* remove_file of one doomed object; its error is ignored.
RemoveFile(t, o) ==
    /\ files' \in {files, Drop(files, {o})}
    /\ doomed' = [doomed EXCEPT ![t] = doomed[t] \ {o}]

UnlinkReplaced(t) ==
    /\ pc[t] = "unlinkReplaced"
    /\ \E o \in doomed[t] : RemoveFile(t, o)
    /\ pc' = [pc EXCEPT ![t] = IF doomed'[t] = {} THEN "persist" ELSE "unlinkReplaced"]
    /\ UNCHANGED <<mem, disk, lost, chunkSize, req, cur, obj, snap>>

\* fetch_chunk persists, drops the mutex and returns to the loop of read.
PersistFetched(t) ==
    /\ pc[t] = "persist"
    /\ Persist(mem)
    /\ NextChunk(t)
    /\ obj' = [obj EXCEPT ![t] = 0]
    /\ UNCHANGED <<mem, files, lost, chunkSize, req, doomed, snap>>

\* read_cached_range copies the chunk map and drops the mutex.  (The copy keeps
\* the content's tag and chunk size, which only the properties look at.)
CloneChunks(t) ==
    /\ pc[t] = "clone"
    /\ LockFree
    /\ IF req[t].path \in DOMAIN mem.content /\ mem.content[req[t].path].csize = chunkSize
         THEN /\ snap' = [snap EXCEPT ![t] = mem.content[req[t].path]]
              /\ pc' = [pc EXCEPT ![t] = "assemble"]
              /\ UNCHANGED <<req, cur, obj, doomed>>
         ELSE Return(t)
    /\ UNCHANGED <<storeVars, chunkSize>>

\* read_object on the object of the next chunk; a chunk the copy lacks, or an
\* object file that is gone, ends the read with an error.
ReadObject(t) ==
    /\ pc[t] = "assemble"
    /\ IF /\ cur[t] \in DOMAIN snap[t].chunks
          /\ snap[t].chunks[cur[t]] \in DOMAIN files
          /\ cur[t] < req[t].hi
         THEN /\ cur' = [cur EXCEPT ![t] = cur[t] + 1]
              /\ UNCHANGED <<pc, req, obj, doomed, snap>>
         ELSE Return(t)
    /\ UNCHANGED <<storeVars, chunkSize>>

\* read_cached, the offline read: content of any version will do, if it is
\* chunked the way this mount chunks.
StartReadCached(t, p, lo, hi) ==
    /\ pc[t] = "idle"
    /\ LockFree
    /\ lo <= hi
    /\ p \in DOMAIN mem.content
    /\ mem.content[p].csize = chunkSize
    /\ pc' = [pc EXCEPT ![t] = "clone"]
    /\ req' = [req EXCEPT ![t] = [path |-> p, tag |-> mem.content[p].tag, lo |-> lo, hi |-> hi]]
    /\ cur' = [cur EXCEPT ![t] = lo]
    /\ UNCHANGED <<storeVars, chunkSize, obj, doomed, snap>>

-----------------------------------------------------------------------------
(* The operations that edit the index, persist it, drop the mutex and only *)
(* then delete the files of the objects they orphaned.                     *)

\* One locked edit from mem to `idx`; `save` says whether it is persisted.
Edit(t, idx, orphans, save) ==
    /\ pc[t] = "idle"
    /\ LockFree
    /\ mem' = idx
    /\ IF save THEN Persist(idx) ELSE disk' = disk
    /\ doomed' = [doomed EXCEPT ![t] = orphans]
    /\ pc' = [pc EXCEPT ![t] = IF orphans = {} THEN "idle" ELSE "unlink"]
    /\ UNCHANGED <<files, lost, chunkSize, req, cur, obj, snap>>

PutAttrs(t, p, tag) ==
    LET new == [q \in {p} |-> tag]
    IN  Edit(t, StoreAttrs(mem, new), ObjectsAt(mem, StalePaths(mem, new)), TRUE)

RecordListingOf(t, p, kids) ==
    Edit(t, RecordListing(mem, p, kids),
         ObjectsAt(mem, StalePaths(mem, ByPath(p, kids))), TRUE)

InvalidateChildrenOf(t, p) ==
    Edit(t, InvalidateChildren(mem, p), {}, p \in DOMAIN mem.listing)

\* Mutant: only a path that had a listing is persisted.
RemovePathSavesListingsOnly(t, p) ==
    Edit(t, RemoveEntry(mem, p), ObjectsAt(mem, {p}), p \in DOMAIN mem.listing)

RemovePath(t, p) ==
    Edit(t, RemoveEntry(mem, p), ObjectsAt(mem, {p}),
         p \in DOMAIN mem.attrs \/ p \in DOMAIN mem.listing)

\* rename reports the objects of evicted descendants, not those of the entry
\* that `to` loses.  It is called with two children of directories, after the
\* server renamed the one to the other.
RenamePath(t, from, to) ==
    /\ from # <<>>
    /\ ~Under(from, to)
    /\ Edit(t, RenameEntry(mem, from, to),
            ObjectsAt(MoveEntry(mem, from, to), Descendants(mem, from, to)), TRUE)

InvalidateContentOf(t, p) ==
    Edit(t, InvalidateContent(mem, p), ObjectsAt(mem, {p}), ObjectsAt(mem, {p}) # {})

\* remove_objects, after the mutex is dropped.
UnlinkOrphan(t) ==
    /\ pc[t] = "unlink"
    /\ \E o \in doomed[t] : RemoveFile(t, o)
    /\ pc' = [pc EXCEPT ![t] = IF doomed'[t] = {} THEN "idle" ELSE "unlink"]
    /\ UNCHANGED <<mem, disk, lost, chunkSize, req, cur, obj, snap>>

-----------------------------------------------------------------------------
(* The process dies at any point and a mount is started on the same cache  *)
(* directory: Store::new, perhaps with another chunk size.                 *)

\* Mutant: the object counter is not part of what index.json brings back.
StartFromZero(idx) ==
    /\ mem' = Index(0, idx.attrs, idx.content, idx.listing)
    /\ disk' = idx
    /\ lost' = Refs(idx) \ DOMAIN files
    /\ chunkSize' \in ChunkSizes
    /\ pc' = [t \in Threads |-> "idle"]
    /\ req' = [t \in Threads |-> NoReq]
    /\ cur' = [t \in Threads |-> 0]
    /\ obj' = [t \in Threads |-> 0]
    /\ doomed' = [t \in Threads |-> {}]
    /\ snap' = [t \in Threads |-> NoContent]
    /\ UNCHANGED files

StartFrom(idx) ==
    /\ mem' = idx
    /\ disk' = idx
    /\ lost' = Refs(idx) \ DOMAIN files
    /\ chunkSize' \in ChunkSizes
    /\ pc' = [t \in Threads |-> "idle"]
    /\ req' = [t \in Threads |-> NoReq]
    /\ cur' = [t \in Threads |-> 0]
    /\ obj' = [t \in Threads |-> 0]
    /\ doomed' = [t \in Threads |-> {}]
    /\ snap' = [t \in Threads |-> NoContent]
    /\ UNCHANGED files

Restart == StartFrom(disk)

\* index.json is gone or cannot be parsed; object files may still lie around.
RestartWithoutIndex == IndexMayBeLost /\ StartFrom(EmptyIndex)

-----------------------------------------------------------------------------
ReadSteps(t) ==
    \/ \E p \in Files, tag \in Tags, lo, hi \in Chunks : StartRead(t, p, tag, lo, hi)
    \/ \E p \in Files, lo, hi \in Chunks : StartReadCached(t, p, lo, hi)
    \/ CachedChunk(t)
    \/ AllocObject(t)
    \/ Download(t)
    \/ DownloadFails(t)
    \/ RecordFetched(t)
    \/ UnlinkReplaced(t)
    \/ PersistFetched(t)
    \/ CloneChunks(t)
    \/ ReadObject(t)

\* The names a listing of p may hold: the tree is bounded to Paths.
ChildNames(p) == {n \in Names : Append(p, n) \in Paths}

EditSteps(t) ==
    \/ \E p \in Paths, tag \in Tags : PutAttrs(t, p, tag)
    \/ \E p \in Dirs : \E S \in SUBSET ChildNames(p) : \E kids \in [S -> Tags] :
            RecordListingOf(t, p, kids)
    \/ \E p \in Dirs : InvalidateChildrenOf(t, p)
    \/ \E p \in Paths : RemovePath(t, p)
    \/ \E p, q \in Paths : RenamePath(t, p, q)
    \/ \E p \in Paths : InvalidateContentOf(t, p)
    \/ UnlinkOrphan(t)

Next ==
    \/ \E t \in Threads : ReadSteps(t) \/ EditSteps(t)
    \/ Restart
    \/ RestartWithoutIndex

Spec == Init /\ [][Next]_vars

-----------------------------------------------------------------------------
(* Properties.                                                             *)

\* f is a map with keys in S and values in T.
IsMap(f, S, T) == DOMAIN f \subseteq S /\ f \in [DOMAIN f -> T]

Maps(S, T) == UNION {[D -> T] : D \in SUBSET S}

ObjectIds == 0..MaxObject
ContentRefs == [tag : Tags, csize : ChunkSizes, chunks : Maps(Chunks, ObjectIds)]

IsIndex(idx) ==
    /\ idx.next \in Nat
    /\ IsMap(idx.attrs, Paths, Tags)
    /\ IsMap(idx.content, DOMAIN idx.attrs, ContentRefs)
    /\ IsMap(idx.listing, Paths, SUBSET Names)

Requests == [path : Paths, tag : Tags, lo : Chunks, hi : Chunks]
Stamps == [tag : Tags, csize : ChunkSizes, chunk : Chunks]
ReadPCs == {"check", "alloc", "download", "record", "unlinkReplaced", "persist", "clone",
            "assemble"}

\* Every variable has the type of the field or local it stands for; content is
\* only ever recorded in an entry.
TypeOK ==
    /\ IsIndex(mem)
    /\ IsIndex(disk)
    /\ IsMap(files, Nat, Stamps)
    /\ chunkSize \in ChunkSizes
    /\ pc \in [Threads -> ReadPCs \cup {"idle", "unlink"}]
    /\ req \in [Threads -> Requests \cup {NoReq}]
    /\ cur \in [Threads -> Chunks]
    /\ obj \in [Threads -> ObjectIds]
    /\ doomed \in [Threads -> SUBSET Nat]
    /\ DOMAIN snap = Threads
    /\ lost \subseteq Nat
    /\ \A t \in Threads : pc[t] \in ReadPCs =>
          req[t] \in Requests /\ req[t].lo <= req[t].hi /\ cur[t] <= req[t].hi
    /\ \A t \in Threads : pc[t] = "assemble" => snap[t] \in ContentRefs

\* No two chunks of the index refer to the same object.
Unshared(idx) ==
    \A p, q \in DOMAIN idx.content :
        \A c \in DOMAIN idx.content[p].chunks, d \in DOMAIN idx.content[q].chunks :
            idx.content[p].chunks[c] = idx.content[q].chunks[d] => p = q /\ c = d

\* The index, in memory or on disk, never lets two chunks share an object:
\* deleting or replacing one file's chunk cannot take another's bytes away.
\* (fetch_chunk's ids, which are not persisted when allocated, against restarts
\* that fall back to the last index written; rename moving an entry.)
NoSharedObject == Unshared(mem) /\ Unshared(disk)

\* Every object file the content refers to holds the chunk it is filed under, of
\* the version and at the chunk size the content is tagged with.
HoldsWhatItSays(content) ==
    \A c \in DOMAIN content.chunks :
        content.chunks[c] \in DOMAIN files =>
            files[content.chunks[c]] = Stamp(content.tag, content.csize, c)

\* Whatever the order of downloads, renames, failed writes of the index and
\* restarts, a reference never leads to another version's or chunk's bytes.
ObjectIntegrity ==
    /\ \A p \in DOMAIN mem.content : HoldsWhatItSays(mem.content[p])
    /\ \A p \in DOMAIN disk.content : HoldsWhatItSays(disk.content[p])

\* read_cached_range reads objects after it let go of the mutex: what it finds
\* under its copied references is one version's chunks in their places, or
\* nothing, however the index has changed since.
ReadIntegrity ==
    \A t \in Threads : pc[t] = "assemble" => HoldsWhatItSays(snap[t])

\* A file about to be deleted is not one the in-memory index refers to.
LiveObjectsKept ==
    \A t \in Threads : doomed[t] \cap Refs(mem) = {}

\* A mount loses no chunk by itself: the only references it cannot serve are
\* the ones whose file was already missing when it started.
OnlyLostMissing == Refs(mem) \subseteq DOMAIN files \cup lost

\* "Writes are crash-safe" (store.rs module comment): what the index refers to
\* can be read, after a restart too.
RecoveredRefsReadable == Refs(mem) \subseteq DOMAIN files

\* While every rewrite of index.json succeeds, a mutex nobody holds means that
\* what a restart would load is what the mount now serves; only the id counter
\* may be behind.
DiskCurrent ==
    LockFree /\ ~PersistMayFail => disk = Index(disk.next, mem.attrs, mem.content, mem.listing)

-----------------------------------------------------------------------------
(* The inductive invariant behind the properties above.                    *)

\* Only ids that were handed out are referred to.
Bounded(idx) == \A o \in Refs(idx) : o < idx.next

\* fetch_chunk has an id of its own that no index mentions yet.
InFlight(t) == pc[t] \in {"download", "record"}

\* An id being downloaded is below the counter and nobody else's: no reference
\* in memory or on disk, no other download, no pending deletion, no reader.
FreshIds ==
    \A t \in Threads : InFlight(t) =>
        /\ obj[t] < mem.next
        /\ obj[t] \notin Refs(mem)
        /\ obj[t] \notin Refs(disk)
        /\ \A u \in Threads : InFlight(u) /\ obj[u] = obj[t] => u = t
        /\ \A u \in Threads : obj[t] \notin doomed[u]
        /\ \A u \in Threads : pc[u] = "assemble" => obj[t] \notin ContentObjects(snap[u])

\* A download that is done left its bytes under its id.
Downloaded ==
    \A t \in Threads : pc[t] = "record" =>
        /\ obj[t] \in DOMAIN files
        /\ files[obj[t]] = Stamp(req[t].tag, chunkSize, cur[t])

\* Ids a reader copied or a thread is about to delete were handed out.
UsedIds ==
    \A t \in Threads :
        /\ \A o \in doomed[t] : o < mem.next
        /\ pc[t] = "assemble" => \A o \in ContentObjects(snap[t]) : o < mem.next

\* The counter a restart falls back to is behind the one in memory, and ahead
\* of every id index.json refers to: an id it hands out again is free.
StoreInv ==
    /\ TypeOK
    /\ Bounded(mem)
    /\ Bounded(disk)
    /\ disk.next <= mem.next
    /\ NoSharedObject
    /\ ObjectIntegrity
    /\ ReadIntegrity
    /\ LiveObjectsKept
    /\ OnlyLostMissing
    /\ FreshIds
    /\ Downloaded
    /\ UsedIds
=============================================================================
