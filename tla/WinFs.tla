------------------------------- MODULE WinFs --------------------------------
(***************************************************************************)
(* crates/cacheshfs-windows/src: CacheFs, the WinFsp adapter, whose        *)
(* callbacks run on several dispatcher threads and each make one or more   *)
(* calls of the VFS.  A VFS call is taken apart here where it gives up its *)
(* locks: it reads the tables, waits for the server, edits the store, and  *)
(* edits the state.  The cache is CacheVfs's, with the files of one        *)
(* directory; names, not bytes, are what this module is about.             *)
(*                                                                         *)
(* WinFsp (external) runs creations, deletions and renames alone, opens    *)
(* and listings beside each other, and everything else without a guard;    *)
(* callbacks on one open file do not overlap unless they only look.  It    *)
(* asks for the deletion of a file when its last handle is cleaned up.     *)
(*                                                                         *)
(* The transport is the SFTP one: a request is carried out or not, and its *)
(* answer may be lost.                                                     *)
(***************************************************************************)
EXTENDS CacheVfs

CONSTANTS
    FirstFiles,  \* files that may be on the server at first
    Threads,     \* dispatcher threads
    Fold,        \* name -> the name without letter case
    MaxOpen,     \* bound on open files
    MaxJobs      \* bound on the callbacks

ASSUME WinAssumption ==
    /\ MaxOpen \in Nat /\ MaxJobs \in Nat /\ DOMAIN Fold = Names
    /\ Dirs = {<<>>} /\ Files = {<<n>> : n \in Names} /\ FirstFiles \subseteq Files

VARIABLES
    volume,      \* the mount: none, serving, over
    opens,       \* CacheFile by number, with the name WinFsp knows it by
    job,         \* what each thread does
    started,     \* callbacks so far
    unsure,      \* history: names in changes that were carried out and reported failed, of
                 \* files that WinFsp took for another, and what such names became
    misdeleted,  \* history: a cleanup deleted another file than the one opened
    refused      \* history: an error was returned for what is in the cache

cacheVars == <<idx, nodeVars, handleVars, validated, negative>>
historyVars == <<unsure, misdeleted, refused>>
winVars == <<volume, opens, job, started, historyVars>>

RootNode == 1
Root == <<>>

\* A job is a callback with the VFS calls it has still to make.  `guard` is the
\* WinFsp lock it holds, `open` its file, `path` what the current call is about
\* and `seen` what the server answered.
Idle == [cb |-> "none", guard |-> "none", open |-> 0, name |-> "none", new |-> "none",
         todo |-> <<>>, phase |-> "call", path |-> Root, seen |-> {}]

WinInit ==
    /\ Mounted
    /\ \E there \in SUBSET FirstFiles :
          remote = [p \in there \cup {Root} |-> IF p = Root THEN Directory ELSE FileOf(<<>>, 0)]
    /\ volume = "none"
    /\ opens = NoMap
    /\ job = [t \in Threads |-> Idle]
    /\ started = 0
    /\ unsure = {} /\ misdeleted = FALSE /\ refused = FALSE

-----------------------------------------------------------------------------
(* The transport's errors.                                                 *)

\* map_sftp_error: only what the server says is told apart.
MapSftpError(status) ==
    CASE status = "NoSuchFile" -> "NotFound"
      [] status = "PermissionDenied" -> "PermissionDenied"
      [] status = "OpUnsupported" -> "UnsupportedOperation"
      [] OTHER -> "RemoteBackend"

IsUnreachable(error) == error = "Unavailable"

\* What the SFTP client reports of a connection that is gone: no status at all.
LinkError == MapSftpError("no answer")

-----------------------------------------------------------------------------
(* Mounting.                                                               *)

\* winfsp_init, FileSystemHost::new, mount and start succeed, and the handler is
\* set; or one of them fails.
Mount ==
    /\ volume = "none"
    /\ volume' \in {"serving", "over"}
    /\ UNCHANGED <<envVars, cacheVars, opens, job, started, historyVars>>

\* Ctrl-C: the loop ends, and dropping the host waits for the threads.
Unmount ==
    /\ volume = "serving"
    /\ \A t \in Threads : job[t] = Idle
    /\ volume' = "over"
    /\ UNCHANGED <<envVars, cacheVars, opens, job, started, historyVars>>

-----------------------------------------------------------------------------
(* Callbacks begin.                                                        *)

GuardFree(guard) ==
    \A t \in Threads : /\ guard = "exclusive" => job[t].guard = "none"
                       /\ guard = "shared" => job[t].guard # "exclusive"

\* On a case-insensitive volume WinFsp has one file for names that differ in letter
\* case only, and knows it by the name it was first opened with.
SameFile(o, p) == Fold[opens[o].name] = Fold[opens[p].name]
FileFree(o, cb) ==
    \A t \in Threads : job[t].open # 0 /\ SameFile(o, job[t].open) => {cb, job[t].cb} = {"info"}

Begin(t, new) ==
    /\ volume = "serving" /\ started < MaxJobs
    /\ job[t] = Idle
    /\ GuardFree(new.guard)
    /\ new.open # 0 => FileFree(new.open, new.cb)
    /\ job' = [job EXCEPT ![t] = new]
    /\ started' = started + 1
    /\ UNCHANGED <<envVars, cacheVars, volume>>

\* open, after get_security_by_name, which resolves the name in the same way.
OpenByName(t, name) ==
    /\ Begin(t, [Idle EXCEPT !.cb = "open", !.guard = "shared", !.name = name,
                             !.todo = <<"getattr", "lookup", "open">>])
    /\ UNCHANGED <<opens, historyVars>>

\* create; the leaf's letter case is not looked at.
CreateByName(t, name) ==
    /\ Begin(t, [Idle EXCEPT !.cb = "create", !.guard = "exclusive", !.name = name,
                             !.todo = <<"create">>])
    /\ UNCHANGED <<opens, historyVars>>

\* get_file_info, flush, and read, which asks for the attributes first.
GetFileInfo(t, o) ==
    /\ Begin(t, [Idle EXCEPT !.cb = "info", !.open = o, !.todo = <<"getattr">>])
    /\ UNCHANGED <<opens, historyVars>>

\* write: at an offset; at the end or within the size, which is asked for; or
\* nothing, if the range lies beyond the size.
WriteFile(t, o) ==
    /\ \E todo \in {<<"write", "getattr">>, <<"getattr", "write", "getattr">>,
                    <<"getattr", "getattr">>} :
          Begin(t, [Idle EXCEPT !.cb = "write", !.open = o, !.todo = todo])
    /\ UNCHANGED <<opens, historyVars>>

\* set_basic_info and set_file_size, which only asks if it is an allocation size.
SetInfo(t, o) ==
    /\ \E todo \in {<<"setattr", "getattr">>, <<"getattr">>} :
          Begin(t, [Idle EXCEPT !.cb = "setInfo", !.open = o, !.todo = todo])
    /\ UNCHANGED <<opens, historyVars>>

OverwriteFile(t, o) ==
    /\ Begin(t, [Idle EXCEPT !.cb = "overwrite", !.guard = "exclusive", !.open = o,
                             !.todo = <<"setattr", "getattr">>])
    /\ UNCHANGED <<opens, historyVars>>

ReadDirectory(t) ==
    /\ Begin(t, [Idle EXCEPT !.cb = "list", !.guard = "shared", !.todo = <<"getattr", "readdir">>])
    /\ UNCHANGED <<opens, historyVars>>

RenameFile(t, o, new) ==
    /\ Begin(t, [Idle EXCEPT !.cb = "rename", !.guard = "exclusive", !.open = o,
                             !.name = opens[o].name, !.new = new, !.todo = <<"rename">>])
    /\ UNCHANGED <<opens, historyVars>>

\* set_delete: one store, under the shared guard.
SetDelete(o, delete) ==
    /\ volume = "serving" /\ GuardFree("shared") /\ FileFree(o, "setDelete")
    /\ opens' = [opens EXCEPT ![o].deletePending = delete]
    /\ UNCHANGED <<envVars, cacheVars, volume, job, started, historyVars>>

LastHandle(o) == \A p \in DOMAIN opens : SameFile(o, p) => p = o

\* cleanup of the last handle of a file to be deleted.
Cleanup(t, o) ==
    /\ opens[o].deletePending /\ LastHandle(o)
    /\ Begin(t, [Idle EXCEPT !.cb = "cleanup", !.guard = "exclusive", !.open = o,
                             !.name = opens[o].name, !.todo = <<"unlink">>])
    /\ opens' = [opens EXCEPT ![o].deletePending = FALSE, ![o].cleaned = TRUE]
    /\ UNCHANGED historyVars

\* Every other cleanup does nothing; close releases the handle.
Close(o) ==
    /\ volume = "serving" /\ FileFree(o, "close")
    /\ ~(opens[o].deletePending /\ LastHandle(o))
    /\ opens' = Drop(opens, {o})
    /\ Release(opens[o].handle)
    /\ UNCHANGED <<volume, job, started, historyVars>>

-----------------------------------------------------------------------------
(* The VFS calls of a job.                                                 *)

Call(t) == Head(job[t].todo)
Doing(t, call, phase) == job[t].todo # <<>> /\ Call(t) = call /\ job[t].phase = phase

\* The path a call is about, read under the state's lock: by name, by the open
\* file's node, or, in write, by its handle.
Target(t) ==
    LET j == job[t]
    IN  CASE Call(t) \in {"lookup", "create", "unlink", "rename"} -> <<j.name>>
          [] Call(t) \in {"readdir", "scan"} -> Root
          [] Call(t) = "write" -> handles[opens[j.open].handle].path
          [] Call(t) \in {"getattr", "setattr"} ->
                IF j.open = 0 THEN Root ELSE nodeToPath[opens[j.open].node]

\* The callback is over.
Finish(t) == job' = [job EXCEPT ![t] = Idle]

\* The call is over; the callback is, if it was the last one.
NextCall(t) ==
    IF Len(job[t].todo) = 1 THEN Finish(t)
    ELSE job' = [job EXCEPT ![t].todo = Tail(@), ![t].phase = "call", ![t].path = Root, ![t].seen = {}]

Then(t, todo, path) ==
    job' = [job EXCEPT ![t].todo = todo, ![t].phase = "call", ![t].path = path, ![t].seen = {}]

GetattrHit(t) ==
    /\ Doing(t, "getattr", "call") /\ Cached(Target(t))
    /\ NextCall(t)
    /\ UNCHANGED <<envVars, cacheVars, volume, opens, started, historyVars>>

LookupHit(t) ==
    /\ Doing(t, "lookup", "call")
    /\ ~FreshNegative(RootNode, job[t].name) /\ Cached(Target(t))
    /\ Intern({Target(t)})
    /\ Then(t, <<"open">>, Target(t))
    /\ UNCHANGED <<envVars, idx, handleVars, validated, negative, volume, opens, started, historyVars>>

\* lookup_component: a name that is missing is looked for in the listing.
LookupNegative(t) ==
    /\ Doing(t, "lookup", "call") /\ FreshNegative(RootNode, job[t].name)
    /\ Then(t, <<"scan", "open">>, Root)
    /\ UNCHANGED <<envVars, cacheVars, volume, opens, started, historyVars>>

\* What lookup_component makes of a listing: an entry with the name but for its
\* letter case, or the end of the callback.
Matching(t, paths) == {p \in paths : Fold[p[1]] = Fold[job[t].name]}
ScanDone(t, paths) ==
    IF Matching(t, paths) = {} THEN Finish(t)
    ELSE \E p \in Matching(t, paths) : Then(t, <<"open">>, p)

\* readdir_from_cache, by a listing or by lookup_component.
ListFromStore(t) ==
    /\ Intern(ListedChildren(Root))
    /\ IF Call(t) = "scan" THEN ScanDone(t, ListedChildren(Root)) ELSE NextCall(t)

ReaddirHit(t) ==
    /\ Doing(t, "readdir", "call") \/ Doing(t, "scan", "call")
    /\ Fresh(Root) /\ Root \in DOMAIN idx.listing
    /\ ListFromStore(t)
    /\ UNCHANGED <<envVars, idx, handleVars, validated, negative, volume, opens, started, historyVars>>

\* The cache has no answer: the call sends a request.
Ask(t) ==
    /\ job[t].todo # <<>> /\ job[t].phase = "call" /\ Call(t) # "open"
    /\ Call(t) = "getattr" => ~Cached(Target(t))
    /\ Call(t) = "lookup" => ~FreshNegative(RootNode, job[t].name) /\ ~Cached(Target(t))
    /\ Call(t) \in {"readdir", "scan"} => ~(Fresh(Root) /\ Root \in DOMAIN idx.listing)
    /\ job' = [job EXCEPT ![t].path = Target(t), ![t].phase = "ask"]
    /\ UNCHANGED <<envVars, cacheVars, volume, opens, started, historyVars>>

Looks == {"getattr", "lookup", "readdir", "scan"}
Answer(t) == IF Call(t) \in {"readdir", "scan"} THEN {<<n>> : n \in ChildrenOf(Root)}
                                                ELSE {job[t].path} \cap DOMAIN remote

\* The server answers a question.
ServerAnswers(t) ==
    /\ job[t].phase = "ask" /\ Call(t) \in Looks /\ up
    /\ job' = [job EXCEPT ![t].phase = "store", ![t].seen = Answer(t)]
    /\ UNCHANGED <<envVars, cacheVars, volume, opens, started, historyVars>>

\* What the server makes of a change: nothing, if it refuses.
Accepts(t) ==
    LET p == job[t].path
    IN  CASE Call(t) = "create" -> p \notin DOMAIN remote
          [] Call(t) = "rename" -> p \in DOMAIN remote /\ <<job[t].new>> \notin DOMAIN remote
          [] Call(t) \in {"unlink", "setattr", "write"} -> p \in DOMAIN remote
RemoteAfter(t) ==
    LET p == job[t].path
    IN  CASE Call(t) = "create" -> Put(remote, p, FileOf(<<>>, 0))
          [] Call(t) = "unlink" -> Drop(remote, {p})
          [] Call(t) = "rename" -> Moved(p, <<job[t].new>>)
          [] Call(t) \in {"setattr", "write"} -> remote

\* Where the open files are after it.  WinFsp knows a file by its old name if it
\* is not told that a rename was carried out.
OpensAfter(t, told) ==
    LET p == job[t].path
        now(o) == IF opens[o].at = p /\ Call(t) = "rename" THEN <<job[t].new>>
                  ELSE IF opens[o].at = p /\ Call(t) = "unlink" THEN Root
                  ELSE opens[o].at
        lost(o) == ~told /\ opens[o].at = p /\ Call(t) = "rename"
    IN  [o \in DOMAIN opens |-> [opens[o] EXCEPT !.at = now(o), !.astray = @ \/ lost(o)]]

\* The names that are others' or nobody's after it.
NamesChanged(t) ==
    CASE Call(t) \in {"create", "unlink"} -> {job[t].name}
      [] Call(t) = "rename" -> {job[t].name, job[t].new}
      [] Call(t) \in {"setattr", "write"} -> {}

\* The server carries out a change.
ServerActs(t) ==
    /\ job[t].phase = "ask" /\ Call(t) \notin Looks /\ up /\ Accepts(t)
    /\ remote' = RemoteAfter(t)
    /\ misdeleted' = \/ misdeleted
                     \/ /\ Call(t) = "unlink"
                        /\ ~opens[job[t].open].astray /\ opens[job[t].open].at # job[t].path
    /\ \/ /\ job' = [job EXCEPT ![t].phase = "store"]
          /\ opens' = OpensAfter(t, TRUE)
          /\ UNCHANGED unsure
       \/ /\ Finish(t)        \* the answer, or that of a second request, is lost
          /\ opens' = OpensAfter(t, FALSE)
          /\ unsure' = unsure \cup NamesChanged(t)
    /\ UNCHANGED <<clock, up, mountVars, cacheVars, volume, started, refused>>

ServerRefuses(t) ==
    /\ job[t].phase = "ask" /\ Call(t) \notin Looks /\ up /\ ~Accepts(t)
    /\ Finish(t)
    /\ UNCHANGED <<envVars, cacheVars, volume, opens, started, historyVars>>

\* Whether the cache could answer the call in the server's place.
InCache(t) ==
    \/ Call(t) \in {"getattr", "lookup"} /\ job[t].path \in DOMAIN idx.attrs
    \/ Call(t) \in {"readdir", "scan"} /\ Root \in DOMAIN idx.listing

\* The connection is gone: the fallback is for errors that say so.
RequestFails(t) ==
    /\ job[t].phase = "ask" /\ ~up
    /\ IF IsUnreachable(LinkError) /\ InCache(t)
         THEN /\ CASE Call(t) = "getattr" -> NextCall(t) /\ UNCHANGED nodeVars
                   [] Call(t) = "lookup" -> /\ Intern({job[t].path})
                                            /\ Then(t, <<"open">>, job[t].path)
                   [] Call(t) \in {"readdir", "scan"} -> ListFromStore(t)
              /\ UNCHANGED refused
         ELSE /\ Finish(t)
              /\ refused' = (refused \/ InCache(t))
              /\ UNCHANGED nodeVars
    /\ UNCHANGED <<envVars, idx, handleVars, validated, negative, volume, opens, started, unsure,
                   misdeleted>>

\* Mutant: a change leaves the directory's listing as it is.
KeepListing(i) == i

\* The listing goes with every change: invalidate_children.
DropListing(i) == InvalidateChildren(i, Root)

\* The edit of the store.
EditStore(t) ==
    LET p == job[t].path
        seen == job[t].seen
        attrs(S) == [q \in S |-> <<0, 0>>]
    IN  /\ job[t].phase = "store"
        /\ idx' = CASE Call(t) \in {"getattr", "lookup"} ->
                          IF seen = {} THEN RemoveEntry(idx, p) ELSE StoreAttrs(idx, attrs(seen))
                    [] Call(t) \in {"readdir", "scan"} ->
                          RecordListing(idx, Root, [n \in {q[1] : q \in seen} |-> <<0, 0>>])
                    [] Call(t) = "create" -> DropListing(StoreAttrs(idx, attrs({p})))
                    [] Call(t) = "unlink" -> DropListing(RemoveEntry(idx, p))
                    [] Call(t) = "rename" -> DropListing(RenameEntry(idx, p, <<job[t].new>>))
                    [] Call(t) = "setattr" -> StoreAttrs(idx, attrs({p}))
                    [] Call(t) = "write" -> InvalidateContent(idx, p)
        /\ job' = [job EXCEPT ![t].phase = "state"]
        /\ UNCHANGED <<envVars, nodeVars, handleVars, validated, negative, volume, opens, started,
                       historyVars>>

-----------------------------------------------------------------------------
(* The edit of the state, call by call, and what the callback does next.   *)

Validate(S) == validated' = [q \in DOMAIN validated \cup S |-> IF q \in S THEN clock ELSE validated[q]]

\* Mutant: a name remembered as missing stays so.
KeepNegative(name) == UNCHANGED negative

\* A name that exists is no longer remembered as missing.
ClearNegative(name) == negative' = Drop(negative, {<<RootNode, name>>})

GetattrDone(t) ==
    /\ Doing(t, "getattr", "state")
    /\ IF job[t].seen = {} THEN Finish(t) /\ UNCHANGED validated
                           ELSE NextCall(t) /\ Validate({job[t].path})
    /\ UNCHANGED <<envVars, idx, nodeVars, handleVars, negative, volume, opens, started, historyVars>>

LookupDone(t) ==
    /\ Doing(t, "lookup", "state")
    /\ IF job[t].seen = {}
         THEN /\ negative' = Put(negative, <<RootNode, job[t].name>>, clock)
              /\ Then(t, <<"scan", "open">>, Root)
              /\ UNCHANGED <<validated, nodeVars>>
         ELSE /\ ClearNegative(job[t].name)
              /\ Then(t, <<"open">>, job[t].path)
              /\ Validate(job[t].seen) /\ Intern(job[t].seen)
    /\ UNCHANGED <<envVars, idx, handleVars, volume, opens, started, historyVars>>

ReaddirDone(t) ==
    /\ Doing(t, "readdir", "state") \/ Doing(t, "scan", "state")
    /\ Validate(job[t].seen \cup {Root}) /\ Intern(job[t].seen)
    /\ IF Call(t) = "scan" THEN ScanDone(t, job[t].seen) ELSE NextCall(t)
    /\ UNCHANGED <<envVars, idx, handleVars, negative, volume, opens, started, historyVars>>

\* A CacheFile; `at` is where the file is on the server, wherever it goes, and
\* `astray` says that WinFsp has it under a name that is not its own: that of
\* another file, which is open already, or one it was renamed from.
NewOpen(node, name, at) ==
    \E o \in 1..MaxOpen \ DOMAIN opens :
        LET known == {opens[p].name : p \in {q \in DOMAIN opens : Fold[opens[q].name] = Fold[name]}}
            file == IF known = {} THEN name ELSE CHOOSE n \in known : TRUE
        IN  /\ \A p \in 1..(o - 1) : p \in DOMAIN opens
            /\ opens' = Put(opens, o, [node |-> node, handle |-> nextHandle, name |-> file,
                                       deletePending |-> FALSE, cleaned |-> FALSE, at |-> at,
                                       astray |-> file # name])
            /\ unsure' = IF file # name THEN unsure \cup {name} ELSE unsure

\* Mutant: WinFsp goes on with the name as it was given.
OpenedNameAsGiven(t) == job[t].name

\* The name open reports to WinFsp: the one that exists on the remote.
OpenedName(t) == job[t].path[1]

OpenDone(t) ==
    /\ Doing(t, "open", "call")
    /\ NewOpen(pathToNode[job[t].path], OpenedName(t), job[t].path)
    /\ OpenHandle(pathToNode[job[t].path], job[t].path)
    /\ Finish(t)
    /\ UNCHANGED <<envVars, idx, nodeVars, validated, negative, volume, started, misdeleted, refused>>

CreateDone(t) ==
    LET p == job[t].path
    IN  /\ Doing(t, "create", "state")
        /\ Validate({p})
        /\ ClearNegative(job[t].name)
        /\ Intern({p}) /\ OpenHandle(pathToNode'[p], p)
        /\ NewOpen(pathToNode'[p], job[t].name, p)
        /\ Finish(t)
        /\ UNCHANGED <<envVars, idx, volume, started, misdeleted, refused>>

UnlinkDone(t) ==
    /\ Doing(t, "unlink", "state")
    /\ negative' = Put(negative, <<RootNode, job[t].name>>, clock)
    /\ Finish(t)
    /\ UNCHANGED <<envVars, idx, nodeVars, handleVars, validated, volume, opens, started, historyVars>>

\* WinFsp renames its open files with the callback's return.
RenameDone(t) ==
    LET j == job[t]
    IN  /\ Doing(t, "rename", "state")
        /\ MoveNode(j.path, <<j.new>>)
        /\ validated' = Drop(validated, {j.path})
        /\ negative' = NegativeAfterRename(RootNode, j.name, RootNode, j.new)
        /\ opens' = [o \in DOMAIN opens |->
                        [opens[o] EXCEPT !.name = IF @ = j.name THEN j.new ELSE @]]
        /\ unsure' = IF j.name \in unsure THEN unsure \cup {j.new} ELSE unsure
        /\ Finish(t)
        /\ UNCHANGED <<envVars, idx, handleVars, volume, started, misdeleted, refused>>

SetattrDone(t) ==
    /\ Doing(t, "setattr", "state")
    /\ Validate({job[t].path})
    /\ NextCall(t)
    /\ UNCHANGED <<envVars, idx, nodeVars, handleVars, negative, volume, opens, started, historyVars>>

WriteDone(t) ==
    /\ Doing(t, "write", "state")
    /\ validated' = Drop(validated, {job[t].path})
    /\ NextCall(t)
    /\ UNCHANGED <<envVars, idx, nodeVars, handleVars, negative, volume, opens, started, historyVars>>

-----------------------------------------------------------------------------
Usable == {o \in DOMAIN opens : ~opens[o].cleaned}

Callbacks(t) ==
    \/ \E name \in Names : OpenByName(t, name)
    \/ \E name \in Names : CreateByName(t, name)
    \/ \E o \in Usable : GetFileInfo(t, o)
    \/ \E o \in Usable : WriteFile(t, o)
    \/ \E o \in Usable : SetInfo(t, o)
    \/ \E o \in Usable : OverwriteFile(t, o)
    \/ ReadDirectory(t)
    \/ \E o \in Usable, new \in Names : RenameFile(t, o, new)
    \/ \E o \in Usable : Cleanup(t, o)

VfsCalls(t) ==
    \/ GetattrHit(t)
    \/ LookupHit(t)
    \/ LookupNegative(t)
    \/ ReaddirHit(t)
    \/ Ask(t)
    \/ ServerAnswers(t)
    \/ ServerActs(t)
    \/ ServerRefuses(t)
    \/ RequestFails(t)
    \/ EditStore(t)
    \/ GetattrDone(t)
    \/ LookupDone(t)
    \/ ReaddirDone(t)
    \/ OpenDone(t)
    \/ CreateDone(t)
    \/ UnlinkDone(t)
    \/ RenameDone(t)
    \/ SetattrDone(t)
    \/ WriteDone(t)

World == (Tick \/ LinkChange) /\ UNCHANGED winVars

WinNext ==
    \/ Mount
    \/ Unmount
    \/ \E t \in Threads : Callbacks(t)
    \/ \E t \in Threads : VfsCalls(t)
    \/ \E o \in Usable, delete \in BOOLEAN : SetDelete(o, delete)
    \/ \E o \in DOMAIN opens : Close(o)
    \/ World

WinSpec == WinInit /\ [][WinNext]_<<vars, winVars>>

-----------------------------------------------------------------------------
(* Properties.                                                             *)

\* While no creation, deletion or rename is under way, which WinFsp keeps apart
\* from listings, a listing served from the store names exactly the files of the
\* server, but for names in changes that were reported failed and of files that
\* were taken for another: whatever other threads were doing between their answers
\* and their edits of the cache.
ListingWhole ==
    (\A t \in Threads : job[t].guard # "exclusive") /\ Fresh(Root) /\ Root \in DOMAIN idx.listing =>
        \A n \in Names \ unsure : <<n>> \in ListedChildren(Root) <=> <<n>> \in DOMAIN remote

\* Likewise a name that is taken for missing, or found, without asking.
NamesTrue ==
    (\A t \in Threads : job[t].guard # "exclusive") =>
        \A n \in Names \ unsure :
            IF FreshNegative(RootNode, n) THEN <<n>> \notin DOMAIN remote
            ELSE Cached(<<n>>) => <<n>> \in DOMAIN remote

\* "A case-insensitive volume upper-cases the name for later operations (e.g.
\* cleanup/delete), which then fails against the case-sensitive remote": a file
\* opened under any letter case, and renamed while it is open, is the one that
\* its cleanup deletes, also when a namesake in another case exists, unless that
\* was open when it was opened, or a rename of the file was reported failed.
DeletesTheOpened == ~misdeleted

\* "If the server becomes unreachable, already-cached chunks and listings keep
\* being served": no callback fails for want of the server while the cache has
\* what it asks for.
ServedWhenUnreachable == ~refused
=============================================================================
