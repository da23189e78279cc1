------------------------------ MODULE CacheVfs ------------------------------
(***************************************************************************)
(* CacheVfs of crates/cacheshfs-core/src/vfs.rs over the store's index     *)
(* (StoreIndex), a remote file tree, a clock and a link that comes and     *)
(* goes.  The mount is the server's only client; SharedVfs adds others and *)
(* mounts that follow each other on one cache directory.                   *)
(*                                                                         *)
(* The FUSE session serves one request at a time, so an operation is one   *)
(* step.  Bytes are values of Vals and a chunk holds one of them: where    *)
(* Store keeps an object id under a chunk, this module keeps the byte the  *)
(* object holds.  A call that only returns cached data or an error changes *)
(* nothing and is a stuttering step.                                       *)
(***************************************************************************)
EXTENDS StoreIndex, Integers, FiniteSets

CONSTANTS
    Names,       \* file names
    Dirs,        \* paths that may be directories, the root <<>> among them
    Files,       \* paths that may be files
    Vals,        \* bytes
    MaxLen,      \* bound on a file's length
    TTL,         \* --metadata-ttl, in seconds
    MaxClock,    \* bound on the clock
    MaxNode,     \* bound on the node ids handed out
    MaxHandle,   \* bound on the file handles handed out
    Modes,       \* cache modes of the mounts
    ReadOnlys,   \* whether the mounts are read-only
    Ops          \* the operations of this instance

ASSUME VfsAssumption ==
    /\ MaxLen \in Nat /\ TTL \in Nat /\ MaxClock \in Nat
    /\ MaxNode \in Nat \ {0} /\ MaxHandle \in Nat
    /\ Dirs \subseteq Seq(Names) /\ Files \subseteq Seq(Names)
    /\ <<>> \in Dirs
    /\ IsFiniteSet(Names)
    /\ Modes \subseteq {"Remote", "OnDemand", "Pinned", "Offline"}
    /\ ReadOnlys \subseteq BOOLEAN

Paths == Dirs \cup Files

VARIABLES
    clock,       \* seconds
    remote,      \* the server's tree: path -> what is there
    up,          \* whether the server can be reached
    mode,        \* the running mount's cache mode
    readOnly,    \* the running mount's --read-only
    idx,         \* the store's index
    pathToNode,  \* State.path_to_node
    nodeToPath,  \* State.node_to_path
    nextNode,    \* State.next_node
    handles,     \* State.handles
    nextHandle,  \* State.next_handle
    validated,   \* State.validated: path -> when last confirmed by the server
    negative     \* State.negative: parent node and name -> when found missing

nodeVars == <<pathToNode, nodeToPath, nextNode>>
handleVars == <<handles, nextHandle>>
mountVars == <<mode, readOnly>>
envVars == <<clock, remote, up, mountVars>>
vars == <<clock, remote, up, mode, readOnly, idx, pathToNode, nodeToPath, nextNode, handles,
          nextHandle, validated, negative>>

-----------------------------------------------------------------------------
(* The server.                                                             *)

Zero == "0"          \* fills the holes of a file
Short == "short"     \* an object shorter than the chunk: the server had no more

FileOf(data, mtime) == [kind |-> "file", data |-> data, mtime |-> mtime]
Directory == [kind |-> "dir", data |-> <<>>, mtime |-> 0]

IsFile(p) == p \in DOMAIN remote /\ remote[p].kind = "file"
IsDir(p) == p \in DOMAIN remote /\ remote[p].kind = "dir"

\* Mutant: versions are told apart by their size alone.
TagOfSizeOnly(r) == <<Len(r.data), 0>>

\* What stat reports of r, the part the cache compares: size and mtime.
TagOf(r) == <<Len(r.data), r.mtime>>

Parent(p) == SubSeq(p, 1, Len(p) - 1)
ChildrenOf(p) == {n \in Names : Append(p, n) \in DOMAIN remote}

Resize(data, size) == [i \in 1..size |-> IF i <= Len(data) THEN data[i] ELSE Zero]
Overwrite(data, off, v) ==
    [Resize(data, IF off < Len(data) THEN Len(data) ELSE off + 1) EXCEPT ![off + 1] = v]

\* The tree after `from`, with everything below it, became `to`.
Moved(from, to) ==
    LET below(p, q) == p = q \/ Under(p, q)
        rebase(q) == IF below(to, q) THEN from \o SubSeq(q, Len(to) + 1, Len(q)) ELSE q
        kept == {q \in DOMAIN remote : ~below(from, q)}
        moved == {to \o SubSeq(q, Len(from) + 1, Len(q)) :
                     q \in {r \in DOMAIN remote : below(from, r)}}
    IN  [q \in kept \cup moved |-> IF q \in moved THEN remote[rebase(q)] ELSE remote[q]]

-----------------------------------------------------------------------------
(* Freshness and the tables of State.                                      *)

NegativeTTL == IF TTL < 1 THEN TTL ELSE 1

Offline == mode = "Offline"

\* Mutant: the offline checks are missing.
OnlineAlways == up

\* A call reaches the server: the link is up and the transport is not the
\* DisconnectedRemote of an offline mount.
Online == up /\ ~Offline

\* metadata_fresh
Fresh(p) == Offline \/ (p \in DOMAIN validated /\ clock < validated[p] + TTL)

\* fresh_negative, for an entry of State.negative.
FreshNegative(n, name) ==
    /\ <<n, name>> \in DOMAIN negative
    /\ Offline \/ clock < negative[<<n, name>>] + NegativeTTL

\* Fresh metadata that the store has.
Cached(p) == Fresh(p) /\ p \in DOMAIN idx.attrs

\* State::intern of every path in S: known paths keep their node, the others
\* get the next ones.
Intern(S) ==
    LET new == S \ DOMAIN pathToNode
        ids == nextNode..(nextNode + Cardinality(new) - 1)
        num == CHOOSE f \in [new -> ids] : \A p, q \in new : f[p] = f[q] => p = q
    IN  /\ nextNode + Cardinality(new) <= MaxNode + 1
        /\ pathToNode' = [p \in DOMAIN pathToNode \cup new |->
                             IF p \in new THEN num[p] ELSE pathToNode[p]]
        /\ nodeToPath' = [n \in DOMAIN nodeToPath \cup {num[p] : p \in new} |->
                             IF \E p \in new : num[p] = n THEN CHOOSE p \in new : num[p] = n
                                                          ELSE nodeToPath[n]]
        /\ nextNode' = nextNode + Cardinality(new)

\* Mutant: the handle counter is not advanced.
OpenHandleReused(n, p) ==
    /\ nextHandle <= MaxHandle
    /\ handles' = Put(handles, nextHandle, [node |-> n, path |-> p])
    /\ UNCHANGED nextHandle

\* State::open_handle
OpenHandle(n, p) ==
    /\ nextHandle <= MaxHandle
    /\ handles' = Put(handles, nextHandle, [node |-> n, path |-> p])
    /\ nextHandle' = nextHandle + 1

\* Mutant: only the map from paths is re-pointed.
MoveNodeOneWay(from, to) ==
    /\ pathToNode' = Move(pathToNode, from, to)
    /\ UNCHANGED <<nodeToPath, nextNode>>

\* State::rename_path
MoveNode(from, to) ==
    /\ pathToNode' = Move(pathToNode, from, to)
    /\ nodeToPath' = IF from \in DOMAIN pathToNode THEN Put(nodeToPath, pathToNode[from], to)
                                                   ELSE nodeToPath
    /\ UNCHANGED nextNode

-----------------------------------------------------------------------------
(* A mount.                                                                *)

\* A mount has just begun, on an empty cache directory.
Mounted ==
    /\ clock = 0
    /\ up = TRUE
    /\ idx = EmptyIndex
    /\ mode \in Modes /\ readOnly \in ReadOnlys
    /\ pathToNode = [p \in {<<>>} |-> 1]
    /\ nodeToPath = [n \in {1} |-> <<>>]
    /\ nextNode = 2
    /\ handles = NoMap
    /\ nextHandle = 1
    /\ validated = NoMap
    /\ negative = NoMap

Init == Mounted /\ remote = [p \in {<<>>} |-> Directory]

-----------------------------------------------------------------------------
(* Metadata.                                                               *)

\* The store after remote.stat(p) was answered, by getattr and by lookup: the
\* attributes put, or the entry removed if the server has none.
Revalidated(p) ==
    IF p \in DOMAIN remote THEN StoreAttrs(idx, [q \in {p} |-> TagOf(remote[p])])
                           ELSE RemoveEntry(idx, p)

\* lookup finds the child in the store: fresh, or the server cannot be reached.
LookupCached(n, name) ==
    LET p == Append(nodeToPath[n], name)
    IN  /\ ~FreshNegative(n, name)
        /\ p \in DOMAIN idx.attrs
        /\ Fresh(p) \/ ~Online
        /\ Intern({p})
        /\ UNCHANGED <<envVars, idx, handleVars, validated, negative>>

LookupFound(n, name) ==
    LET p == Append(nodeToPath[n], name)
    IN  /\ ~FreshNegative(n, name) /\ ~Cached(p)
        /\ Online /\ p \in DOMAIN remote
        /\ idx' = Revalidated(p)
        /\ validated' = Put(validated, p, clock)
        /\ negative' = Drop(negative, {<<n, name>>})
        /\ Intern({p})
        /\ UNCHANGED <<envVars, handleVars>>

LookupMissing(n, name) ==
    LET p == Append(nodeToPath[n], name)
    IN  /\ ~FreshNegative(n, name) /\ ~Cached(p)
        /\ Online /\ p \notin DOMAIN remote
        /\ idx' = Revalidated(p)
        /\ negative' = Put(negative, <<n, name>>, clock)
        /\ UNCHANGED <<envVars, nodeVars, handleVars, validated>>

\* What getattr makes of the store and of the freshness map.
Stat(p) == ~Cached(p) /\ Online
GetattrIdx(p) == IF Stat(p) THEN Revalidated(p) ELSE idx

\* Mutant: serving the cached copy of an unreachable server counts as validation.
GetattrValidatedOnFallback(p) == IF ~Cached(p) THEN Put(validated, p, clock) ELSE validated

GetattrValidated(p) ==
    IF Stat(p) /\ p \in DOMAIN remote THEN Put(validated, p, clock) ELSE validated

Getattr(n) ==
    /\ idx' = GetattrIdx(nodeToPath[n])
    /\ validated' = GetattrValidated(nodeToPath[n])
    /\ UNCHANGED <<envVars, nodeVars, handleVars, negative>>

\* readdir_from_cache: the listed children whose attributes are in the store.
ListedChildren(p) == {Append(p, n) : n \in idx.listing[p]} \cap DOMAIN idx.attrs

ReaddirCached(n) ==
    LET p == nodeToPath[n]
    IN  /\ p \in DOMAIN idx.listing
        /\ Fresh(p) \/ ~Online
        /\ Intern(ListedChildren(p))
        /\ UNCHANGED <<envVars, idx, handleVars, validated, negative>>

ReaddirRemote(n) ==
    LET p == nodeToPath[n]
        kids == [name \in ChildrenOf(p) |-> TagOf(remote[Append(p, name)])]
        paths == {Append(p, name) : name \in ChildrenOf(p)}
    IN  /\ ~(Fresh(p) /\ p \in DOMAIN idx.listing)
        /\ Online /\ IsDir(p)
        /\ idx' = RecordListing(idx, p, kids)
        /\ validated' = [q \in DOMAIN validated \cup paths \cup {p} |->
                            IF q \in paths \cup {p} THEN clock ELSE validated[q]]
        /\ Intern(paths)
        /\ UNCHANGED <<envVars, handleVars, negative>>

-----------------------------------------------------------------------------
(* Handles.                                                                *)

\* Mutants: the attributes stay valid; the content stays.
WrittenStaysValid(p) == idx' = InvalidateContent(idx, p) /\ UNCHANGED validated
WrittenKeepsContent(p) == idx' = idx /\ validated' = Drop(validated, {p})

\* The cache after a change of the file's bytes that went through to the server.
Written(p) ==
    /\ idx' = InvalidateContent(idx, p)
    /\ validated' = Drop(validated, {p})

Open(n) ==
    /\ OpenHandle(n, nodeToPath[n])
    /\ UNCHANGED <<envVars, idx, nodeVars, validated, negative>>

\* Mutant: opening for truncation is not refused on a read-only mount.
OpenTruncateUnchecked(n) ==
    LET p == nodeToPath[n]
    IN  /\ Online /\ IsFile(p)
        /\ remote' = Put(remote, p, FileOf(<<>>, clock))
        /\ Written(p)
        /\ OpenHandle(n, p)
        /\ UNCHANGED <<clock, up, mountVars, nodeVars, negative>>

OpenTruncate(n) ==
    LET p == nodeToPath[n]
    IN  /\ ~readOnly /\ Online /\ IsFile(p)
        /\ remote' = Put(remote, p, FileOf(<<>>, clock))
        /\ Written(p)
        /\ OpenHandle(n, p)
        /\ UNCHANGED <<clock, up, mountVars, nodeVars, negative>>

\* The byte fetch_chunk finds at `off`: it trusts the size it was given and
\* records what the server returned, be it nothing.
Fetched(p, off) ==
    IF off < Len(remote[p].data) THEN remote[p].data[off + 1] ELSE Short

\* read in the modes that cache content: getattr of the handle's node, then the
\* missing chunk of the handle's path, filed under the attributes of the node.
\* In the other modes read changes nothing.
Read(h, off) ==
    LET p == handles[h].path
        q == nodeToPath[handles[h].node]
        after == GetattrIdx(q)
        miss(a) == off < a[1] /\ ~HasChunk(after, p, a, 1, off)
    IN  /\ mode \in {"OnDemand", "Pinned"}
        /\ validated' = GetattrValidated(q)
        /\ idx' = IF q \in DOMAIN after.attrs /\ miss(after.attrs[q]) /\ Online /\ IsFile(p)
                    THEN RecordChunk(after, p, after.attrs[q], 1, off, Fetched(p, off))
                    ELSE after
        /\ UNCHANGED <<envVars, nodeVars, handleVars, negative>>

Write(h, off, v) ==
    LET p == handles[h].path
    IN  /\ ~readOnly /\ Online /\ IsFile(p)
        /\ remote' = Put(remote, p, FileOf(Overwrite(remote[p].data, off, v), clock))
        /\ Written(p)
        /\ UNCHANGED <<clock, up, mountVars, nodeVars, handleVars, negative>>

Release(h) ==
    /\ handles' = Drop(handles, {h})
    /\ UNCHANGED <<envVars, idx, nodeVars, nextHandle, validated, negative>>

-----------------------------------------------------------------------------
(* Mutations of the tree: the server first, then the cache.                *)

\* Mutant: the parent's listing stays.
MadeKeepsListing(n, name, r) ==
    LET p == Append(nodeToPath[n], name)
    IN  /\ ~readOnly /\ Online /\ IsDir(nodeToPath[n]) /\ p \notin DOMAIN remote
        /\ remote' = Put(remote, p, r)
        /\ idx' = StoreAttrs(idx, [q \in {p} |-> TagOf(r)])
        /\ validated' = Put(validated, p, clock)
        /\ negative' = Drop(negative, {<<n, name>>})
        /\ Intern({p})
        /\ UNCHANGED <<clock, up, mountVars>>

\* Mutant: the name stays among the missing ones.
MadeKeepsNegative(n, name, r) ==
    LET p == Append(nodeToPath[n], name)
    IN  /\ ~readOnly /\ Online /\ IsDir(nodeToPath[n]) /\ p \notin DOMAIN remote
        /\ remote' = Put(remote, p, r)
        /\ idx' = InvalidateChildren(StoreAttrs(idx, [q \in {p} |-> TagOf(r)]), nodeToPath[n])
        /\ validated' = Put(validated, p, clock)
        /\ Intern({p})
        /\ UNCHANGED <<clock, up, mountVars, negative>>

\* The part create and mkdir share: the server made r at p, below node n.
Made(n, name, r) ==
    LET p == Append(nodeToPath[n], name)
    IN  /\ ~readOnly /\ Online /\ IsDir(nodeToPath[n]) /\ p \notin DOMAIN remote
        /\ remote' = Put(remote, p, r)
        /\ idx' = InvalidateChildren(StoreAttrs(idx, [q \in {p} |-> TagOf(r)]), nodeToPath[n])
        /\ validated' = Put(validated, p, clock)
        /\ negative' = Drop(negative, {<<n, name>>})
        /\ Intern({p})
        /\ UNCHANGED <<clock, up, mountVars>>

Create(n, name) ==
    /\ Append(nodeToPath[n], name) \in Files
    /\ Made(n, name, FileOf(<<>>, clock))
    /\ OpenHandle(pathToNode'[Append(nodeToPath[n], name)], Append(nodeToPath[n], name))

Mkdir(n, name) ==
    /\ Append(nodeToPath[n], name) \in Dirs
    /\ Made(n, name, Directory)
    /\ UNCHANGED handleVars

\* unlink and rmdir: the same steps, for a file and for an empty directory.
Remove(n, name) ==
    LET p == Append(nodeToPath[n], name)
    IN  /\ ~readOnly /\ Online
        /\ p \in DOMAIN remote /\ ChildrenOf(p) = {}
        /\ remote' = Drop(remote, {p})
        /\ idx' = InvalidateChildren(RemoveEntry(idx, p), nodeToPath[n])
        /\ negative' = Put(negative, <<n, name>>, clock)
        /\ UNCHANGED <<clock, up, mountVars, nodeVars, handleVars, validated>>

\* The old name is missing from now on, the new one no longer.
NegativeAfterRename(n, name, m, newName) ==
    Drop(Put(negative, <<n, name>>, clock), {<<m, newName>>})

\* The server refuses to rename over something that exists.
Rename(n, name, m, newName) ==
    LET from == Append(nodeToPath[n], name)
        to == Append(nodeToPath[m], newName)
    IN  /\ ~readOnly /\ Online
        /\ from \in DOMAIN remote /\ to \notin DOMAIN remote
        /\ IsDir(nodeToPath[m]) /\ ~Under(from, to)
        /\ DOMAIN Moved(from, to) \subseteq Paths
        /\ remote' = Moved(from, to)
        /\ idx' = InvalidateChildren(
                      InvalidateChildren(RenameEntry(idx, from, to), nodeToPath[n]),
                      nodeToPath[m])
        /\ MoveNode(from, to)
        /\ validated' = Drop(validated, {from})
        /\ negative' = NegativeAfterRename(n, name, m, newName)
        /\ UNCHANGED <<clock, up, mountVars, handleVars>>

\* What setattr can make of the node at p: another size, another modification
\* time, or only owner and permissions, which the cache does not tell apart.
SetattrResults(p) ==
    IF IsDir(p) THEN {remote[p]}
    ELSE {FileOf(Resize(remote[p].data, s), clock) : s \in 0..MaxLen}
            \cup {FileOf(remote[p].data, t) : t \in 0..clock}

Setattr(n) ==
    LET p == nodeToPath[n]
    IN  /\ ~readOnly /\ Online /\ p \in DOMAIN remote
        /\ \E r \in SetattrResults(p) :
              /\ remote' = Put(remote, p, r)
              /\ idx' = StoreAttrs(idx, [q \in {p} |-> TagOf(r)])
        /\ validated' = Put(validated, p, clock)
        /\ UNCHANGED <<clock, up, mountVars, nodeVars, handleVars, negative>>

-----------------------------------------------------------------------------
(* The environment.                                                        *)

Tick ==
    /\ clock < MaxClock
    /\ clock' = clock + 1
    /\ UNCHANGED <<remote, up, mountVars, idx, nodeVars, handleVars, validated, negative>>

LinkChange ==
    /\ up' = ~up
    /\ UNCHANGED <<clock, remote, mountVars, idx, nodeVars, handleVars, validated, negative>>

-----------------------------------------------------------------------------
\* The names an instance looks for below node n.
NamesBelow(n) == {name \in Names : Append(nodeToPath[n], name) \in Paths}

Nodes == DOMAIN nodeToPath

\* The nodes a name can be looked up, made or removed below.  Not among them is
\* the node of a removed directory whose name another one took: the kernel makes
\* no such call below a dead directory.
Parents == {n \in Nodes : nodeToPath[n] \in DOMAIN pathToNode /\ pathToNode[nodeToPath[n]] = n}

Browse ==
    \/ \E n \in Parents : \E name \in NamesBelow(n) : LookupCached(n, name)
    \/ \E n \in Parents : \E name \in NamesBelow(n) : LookupFound(n, name)
    \/ \E n \in Parents : \E name \in NamesBelow(n) : LookupMissing(n, name)
    \/ \E n \in Nodes : Getattr(n)

List ==
    \/ \E n \in Nodes : ReaddirCached(n)
    \/ \E n \in Nodes : ReaddirRemote(n)

ReadFiles ==
    \/ \E n \in Nodes : Open(n)
    \/ \E h \in DOMAIN handles, off \in 0..(MaxLen - 1) : Read(h, off)

CloseFiles == \E h \in DOMAIN handles : Release(h)

WriteFiles ==
    \/ \E n \in Nodes : OpenTruncate(n)
    \/ \E h \in DOMAIN handles, off \in 0..(MaxLen - 1), v \in Vals : Write(h, off, v)

MakeAndRemove ==
    \/ \E n \in Parents : \E name \in NamesBelow(n) : Create(n, name)
    \/ \E n \in Parents : \E name \in NamesBelow(n) : Mkdir(n, name)
    \/ \E n \in Parents : \E name \in NamesBelow(n) : Remove(n, name)

Renames ==
    \E n, m \in Parents : \E name \in NamesBelow(n), newName \in NamesBelow(m) :
        Rename(n, name, m, newName)

Setattrs == \E n \in Nodes : Setattr(n)

Next ==
    \/ Browse
    \/ "list" \in Ops /\ List
    \/ "read" \in Ops /\ ReadFiles
    \/ "close" \in Ops /\ CloseFiles
    \/ "write" \in Ops /\ WriteFiles
    \/ "make" \in Ops /\ MakeAndRemove
    \/ "rename" \in Ops /\ Renames
    \/ "setattr" \in Ops /\ Setattrs
    \/ "link" \in Ops /\ LinkChange
    \/ Tick

Spec == Init /\ [][Next]_vars

-----------------------------------------------------------------------------
(* Properties.                                                             *)

\* The tables hold paths, nodes and times of this mount; the server's tree is a
\* tree.
TypeOK ==
    /\ clock \in 0..MaxClock /\ up \in BOOLEAN /\ mode \in Modes /\ readOnly \in ReadOnlys
    /\ DOMAIN remote \subseteq Paths /\ IsDir(<<>>)
    /\ \A p \in DOMAIN remote \ {<<>>} : IsDir(Parent(p))
    /\ DOMAIN idx.attrs \subseteq Paths
    /\ DOMAIN idx.content \subseteq DOMAIN idx.attrs
    /\ DOMAIN idx.listing \subseteq Paths
    /\ nextNode \in 2..(MaxNode + 1) /\ nextHandle \in 1..(MaxHandle + 1)
    /\ \A p \in DOMAIN validated : p \in Paths /\ validated[p] \in 0..clock
    /\ \A e \in DOMAIN negative : e[1] \in DOMAIN nodeToPath /\ negative[e] \in 0..clock
    /\ \A h \in DOMAIN handles : h < nextHandle /\ handles[h].path \in Paths

\* A path's node leads back to the path, so no two paths share a node; ids are
\* not handed out twice; the root keeps its node; the node of an open file stays
\* known.  (intern and rename_path edit the two maps in different ways.)
NodeTable ==
    /\ \A p \in DOMAIN pathToNode :
          pathToNode[p] \in DOMAIN nodeToPath /\ nodeToPath[pathToNode[p]] = p
    /\ \A n \in DOMAIN nodeToPath : n < nextNode
    /\ <<>> \in DOMAIN pathToNode /\ pathToNode[<<>>] = 1
    /\ \A h \in DOMAIN handles : handles[h].node \in DOMAIN nodeToPath

\* "Force a metadata re-validation" after a write, and the like for every other
\* operation: the attributes served without asking are the server's, as long as
\* nobody else changes it.
ReadYourWrites ==
    \A p \in Paths : Cached(p) => p \in DOMAIN remote /\ idx.attrs[p] = TagOf(remote[p])

\* "Local writes should update local cache state immediately": as long as nobody
\* else changes the tree, a listing served from the store is the server's.
ListYourChanges ==
    \A p \in DOMAIN idx.listing :
        Fresh(p) /\ IsDir(p) => ListedChildren(p) = {Append(p, n) : n \in ChildrenOf(p)}

\* As long as nobody else changes the tree and no directory with directories in it
\* is renamed, a name said to be missing without asking is missing: create, mkdir
\* and rename clear what lookup, unlink and rename remember.  (A renamed directory
\* takes its own node along, and leaves those below it at their old paths.)
NegativeSound ==
    \A e \in DOMAIN negative :
        LET p == nodeToPath[e[1]]
        IN  FreshNegative(e[1], e[2]) /\ p \in DOMAIN pathToNode /\ pathToNode[p] = e[1]
              => Append(p, e[2]) \notin DOMAIN remote

\* Server wins: cached bytes are filed under a size and mtime; if the server's
\* file still has these, the bytes are the server's, whatever was fetched under
\* outdated attributes, written, truncated, renamed or deleted in between.
ContentCurrent ==
    \A p \in DOMAIN idx.content :
        IsFile(p) /\ idx.content[p].tag = TagOf(remote[p]) =>
            \A c \in DOMAIN idx.content[p].chunks : idx.content[p].chunks[c] = remote[p].data[c + 1]
=============================================================================
