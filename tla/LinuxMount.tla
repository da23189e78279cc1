----------------------------- MODULE LinuxMount -----------------------------
(***************************************************************************)
(* crates/cacheshfs-linux/src: mounting, serving FUSE requests on the      *)
(* session's thread, and unmounting when a signal arrives or somebody else *)
(* unmounts.  `stage` is where the main thread is.                         *)
(*                                                                         *)
(* Requests are told apart by what they can wait for: a read of the remote *)
(* has a timeout, every other remote call, the stat before a read and the  *)
(* listing of a directory included, waits as long as the server takes.     *)
(* Two are followed further: the scan of a directory, page by page by      *)
(* index, and the assembly of a read from chunks (ChunkedRead).            *)
(***************************************************************************)
EXTENDS ChunkedRead, FiniteSets

CONSTANTS
    Names,      \* names in the directory that is scanned
    FileLen,    \* length of the file that is read
    ReadRanges  \* offset and size of the reads users make

VARIABLES
    stage,
    mnt,        \* the mountpoint: dir, none (no directory), mounted, held (mounted,
                \* after an unmount that failed), stale (its process is gone)
    fuse,       \* the session's thread: none, running, ended, broke (with an error)
    shutdown,   \* the flag the signal handler sets
    request,    \* the FUSE request being served
    inUse,      \* whether a user has a file or directory of the mount open
    scan,       \* a user's scan of a directory
    listing     \* what readdir answers for it now, in the server's order

mountVars == <<mnt, fuse, shutdown, request, inUse, scan, listing>>

NoRequest == [kind |-> "none", range |-> <<0, 0>>]

\* No scan: nothing read, nothing seen, nobody to blame.
NoScan == [on |-> FALSE, offset |-> 0, seen |-> <<>>, stayed |-> {}, removed |-> FALSE,
           inserted |-> FALSE]
ScanOver == scan' = NoScan /\ listing' = <<>>

IsMounted == mnt \in {"mounted", "held"}

\* is_finished of the session's thread.
Finished == fuse \in {"ended", "broke"}

\* Nobody is served any more.
ServiceOver == request' = NoRequest /\ inUse' = FALSE /\ ScanOver

-----------------------------------------------------------------------------
(* mount().                                                                *)

\* The mountpoint must be a directory; asking a stale one is an error too.
CheckMountpoint ==
    /\ stage = "checkMountpoint"
    /\ stage' = IF mnt = "dir" THEN "spawn" ELSE "failed"
    /\ UNCHANGED mountVars

SpawnMount ==
    /\ stage = "spawn"
    /\ \/ /\ stage' = "setHandler"
          /\ mnt' = "mounted"
          /\ fuse' = "running"
       \/ /\ stage' = "failed"
          /\ UNCHANGED <<mnt, fuse>>
    /\ UNCHANGED <<shutdown, request, inUse, scan, listing>>

SetHandler ==
    /\ stage = "setHandler"
    /\ stage' = "wait"
    /\ UNCHANGED mountVars

\* Dropping the session unmounts, if the system lets it; nobody waits for the
\* session's thread, which serves on until the process is gone.
DropSession ==
    /\ mnt' \in IF mnt = "mounted" THEN {"dir", "held"} ELSE {mnt}
    /\ UNCHANGED <<shutdown, fuse, request, inUse, scan, listing>>

\* Without a handler mount returns an error.
SetHandlerFails ==
    /\ stage = "setHandler"
    /\ stage' = "returning"
    /\ DropSession

\* Mutant: only the end of the session ends the loop.
WaitLoopIgnoresFlag ==
    /\ stage = "wait"
    /\ Finished
    /\ stage' = "decide"
    /\ UNCHANGED mountVars

\* The loop's condition turns false.
WaitLoop ==
    /\ stage = "wait"
    /\ shutdown \/ Finished
    /\ stage' = "decide"
    /\ UNCHANGED mountVars

\* Mutant: main returns and leaves the unmounting to the end of the process.
DecideReturns ==
    /\ stage = "decide"
    /\ stage' = IF Finished THEN "join" ELSE "exited"
    /\ UNCHANGED mountVars

Decide ==
    /\ stage = "decide"
    /\ stage' = IF Finished THEN "join" ELSE "unmount"
    /\ UNCHANGED mountVars

\* umount_and_join, first half.  The mount is detached at once; the session goes
\* on for those who still use it.
Unmount ==
    /\ stage = "unmount"
    /\ stage' = "join"
    /\ mnt' = IF mnt = "mounted" THEN "dir" ELSE mnt
    /\ UNCHANGED <<fuse, shutdown, request, inUse, scan, listing>>

\* The system refuses; umount_and_join returns without joining.
UnmountFails ==
    /\ stage = "unmount"
    /\ stage' = "returning"
    /\ mnt' = IF mnt = "mounted" THEN "held" ELSE mnt
    /\ UNCHANGED <<fuse, shutdown, request, inUse, scan, listing>>

Join ==
    /\ stage = "join"
    /\ fuse = "ended"
    /\ stage' = "exited"
    /\ UNCHANGED mountVars

\* The session's thread ended with an error, which join hands on.
JoinFails ==
    /\ stage = "join"
    /\ fuse = "broke"
    /\ stage' = "returning"
    /\ DropSession

\* The session ends when it is unmounted and nobody uses it any more.
SessionEnds ==
    /\ fuse = "running"
    /\ ~IsMounted
    /\ request = NoRequest /\ ~inUse
    /\ fuse' = "ended"
    /\ ScanOver
    /\ UNCHANGED <<stage, mnt, shutdown, request, inUse>>

\* An error of /dev/fuse, or a panic, ends its loop; what it served is unanswered
\* and the mountpoint stays mounted.
SessionBreaks ==
    /\ fuse = "running"
    /\ fuse' = "broke"
    /\ ServiceOver
    /\ UNCHANGED <<stage, mnt, shutdown>>

-----------------------------------------------------------------------------
(* The end of the process, signals and the rest of the world.              *)

\* The process is gone and its threads with it; what is still mounted is stale.
EndProcess(last) ==
    /\ stage' = last
    /\ fuse' = "none"
    /\ mnt' = IF IsMounted THEN "stale" ELSE mnt
    /\ ServiceOver
    /\ UNCHANGED shutdown

Die == EndProcess("killed")

\* main reports the error that mount returned.
ProcessExits == stage = "returning" /\ EndProcess("failed")

Handled == stage \in {"wait", "decide", "unmount", "join"}

\* SIGINT: the handler sets the flag; before it is there, the process dies.  A
\* process that returns an error may have one or not.
Interrupt ==
    /\ stage \notin {"exited", "failed", "denied", "killed"}
    /\ \/ /\ Handled \/ stage = "returning"
          /\ shutdown' = TRUE
          /\ UNCHANGED <<stage, mnt, fuse, request, inUse, scan, listing>>
       \/ ~Handled /\ Die

\* SIGTERM: ctrlc is built without its "termination" feature, so nothing handles
\* this signal.
Terminate ==
    /\ stage \notin {"exited", "failed", "denied", "killed"}
    /\ Die

\* fusermount -u, which is refused while the mount is in use, or -uz, which is not.
ExternalUnmount ==
    /\ IsMounted \/ mnt = "stale"
    /\ mnt' = "dir"
    /\ UNCHANGED <<stage, fuse, shutdown, request, inUse, scan, listing>>

-----------------------------------------------------------------------------
(* Requests, one at a time.                                                *)

Reachable == fuse = "running" /\ (IsMounted \/ inUse)

Arrives(kind, range) ==
    /\ Reachable /\ request = NoRequest
    /\ request' = [kind |-> kind, range |-> range]
    /\ UNCHANGED <<stage, mnt, fuse, shutdown, inUse, scan, listing>>

\* lookup, getattr, setattr, mkdir, unlink, rmdir and rename; a name that is not
\* UTF-8, or a rename with flags, is refused on the spot and changes nothing.
CallArrives == Arrives("call", <<0, 0>>)
WriteArrives == inUse /\ Arrives("call", <<0, 0>>)

\* open and create; by name, hence through the mountpoint.
OpenArrives == IsMounted /\ Arrives("open", <<0, 0>>)
CreateArrives == IsMounted /\ Arrives("open", <<0, 0>>)

\* read begins with the attributes of the file.
ReadArrives == inUse /\ ~scan.on /\ \E range \in ReadRanges : Arrives("stat", range)

\* The server answers, or the connection breaks and the call fails.
CallAnswered ==
    /\ request.kind = "call"
    /\ request' = NoRequest
    /\ UNCHANGED <<stage, mnt, fuse, shutdown, inUse, scan, listing>>

OpenAnswered ==
    /\ request.kind = "open"
    /\ request' = NoRequest
    /\ inUse' \in {inUse, TRUE}
    /\ UNCHANGED <<stage, mnt, fuse, shutdown, scan, listing>>

\* The attributes are fresh or arrive, and the chunks are next; or stat fails.
StatAnswered ==
    /\ request.kind = "stat"
    /\ request' \in {[request EXCEPT !.kind = "read"], NoRequest}
    /\ UNCHANGED <<stage, mnt, fuse, shutdown, inUse, scan, listing>>

\* The chunks are cached or fetched, or a fetch fails or times out.
ReadAnswered ==
    /\ request.kind = "read"
    /\ request' = NoRequest
    /\ UNCHANGED <<stage, mnt, fuse, shutdown, inUse, scan, listing>>

\* opendir, flush and release are answered without the remote.
Opendir ==
    /\ Reachable /\ IsMounted /\ request = NoRequest
    /\ inUse' = TRUE
    /\ UNCHANGED <<stage, mnt, fuse, shutdown, request, scan, listing>>

\* The last user closes.
FlushAndRelease ==
    /\ fuse = "running" /\ inUse /\ request = NoRequest
    /\ inUse' = FALSE
    /\ ScanOver
    /\ UNCHANGED <<stage, mnt, fuse, shutdown, request>>

-----------------------------------------------------------------------------
(* readdir by pages.  The listing may change between two of them: readdir  *)
(* is answered anew each time, and the kernel comes back with an index.    *)

\* The first page is asked for, and each of the others.
BeginScan ==
    /\ Reachable /\ inUse /\ ~scan.on /\ request = NoRequest
    /\ request' = [NoRequest EXCEPT !.kind = "page"]
    /\ \E names \in SUBSET Names :
          /\ listing' = SetToSeq(names)
          /\ scan' = [NoScan EXCEPT !.on = TRUE, !.stayed = names]
    /\ UNCHANGED <<stage, mnt, fuse, shutdown, inUse>>

PageArrives == scan.on /\ Arrives("page", <<0, 0>>)

\* Mutant: the offset of an entry is its own index, not the next one.
NextOffsetIsIndex(index) == index - 1

\* The offset the kernel comes back with after entry `index`, counted from 1.
NextOffset(index) == index

\* One page: entries from the offset on, as many as fit the kernel's buffer.
ReadPage ==
    /\ request.kind = "page" /\ request' = NoRequest
    /\ scan.offset < Len(listing)
    /\ \E last \in (scan.offset + 1)..Len(listing) :
          scan' = [scan EXCEPT !.offset = NextOffset(last),
                               !.seen = @ \o SubSeq(listing, scan.offset + 1, last)]
    /\ UNCHANGED <<stage, mnt, fuse, shutdown, inUse, listing>>

\* An empty page: the user has seen it all.
EndScan ==
    /\ request.kind = "page" /\ request' = NoRequest
    /\ scan.offset >= Len(listing)
    /\ ScanOver
    /\ UNCHANGED <<stage, mnt, fuse, shutdown, inUse>>

\* An error instead of a page.
PageFails ==
    /\ request.kind = "page" /\ request' = NoRequest
    /\ ScanOver
    /\ UNCHANGED <<stage, mnt, fuse, shutdown, inUse>>

\* Somebody adds or removes a name.
NameRemoved ==
    /\ scan.on
    /\ \E i \in DOMAIN listing :
          /\ listing' = RemoveAt(listing, i)
          /\ scan' = [scan EXCEPT !.stayed = @ \ {listing[i]},
                                  !.removed = @ \/ i <= scan.offset]
    /\ UNCHANGED <<stage, mnt, fuse, shutdown, request, inUse>>

NameAdded ==
    /\ scan.on
    /\ \E n \in Names \ Range(listing), i \in 1..(Len(listing) + 1) :
          /\ listing' = InsertAt(listing, i, n)
          /\ scan' = [scan EXCEPT !.inserted = @ \/ i <= scan.offset]
    /\ UNCHANGED <<stage, mnt, fuse, shutdown, request, inUse>>

-----------------------------------------------------------------------------
(* The steps of the main thread, and of everybody else.                    *)

MainThread ==
    \/ CheckMountpoint
    \/ SpawnMount
    \/ SetHandler
    \/ SetHandlerFails
    \/ WaitLoop
    \/ Decide
    \/ Unmount
    \/ UnmountFails
    \/ Join
    \/ JoinFails
    \/ ProcessExits

Serving ==
    \/ SessionEnds
    \/ SessionBreaks
    \/ CallArrives
    \/ WriteArrives
    \/ OpenArrives
    \/ CreateArrives
    \/ ReadArrives
    \/ CallAnswered
    \/ OpenAnswered
    \/ StatAnswered
    \/ ReadAnswered
    \/ Opendir
    \/ FlushAndRelease
    \/ BeginScan
    \/ PageArrives
    \/ ReadPage
    \/ EndScan
    \/ PageFails

World ==
    \/ ExternalUnmount
    \/ NameRemoved
    \/ NameAdded

-----------------------------------------------------------------------------
\* When mount() returns without an error, the mountpoint is a plain directory
\* again, the session's thread has ended and every request is answered, whether the
\* flag, the end of the session or both were seen first.  When it returns an error,
\* the mount is gone or the system refused to unmount it: no way out forgets it.
CleanExit ==
    /\ stage = "exited" => mnt = "dir" /\ fuse = "ended" /\ request = NoRequest
    /\ stage \in {"returning", "failed"} => mnt # "mounted"

\* A scan by pages: a name that was there from the first page to the last is seen,
\* unless an entry before the kernel's index was removed meanwhile; and seen once,
\* unless one was inserted there.
ScanFaithful ==
    scan.on /\ scan.offset >= Len(listing) =>
        \A n \in scan.stayed :
            LET times == Cardinality({i \in DOMAIN scan.seen : scan.seen[i] = n})
            IN  (~scan.removed => times >= 1) /\ (~scan.inserted => times <= 1)

\* Whatever the chunk size, wherever the range begins and ends, and however much of
\* the file each chunk has (chunks are fetched at different times, some by earlier
\* reads, from a file others may shorten and lengthen), a read returns, in their
\* order and once each, the bytes of the range that its chunks have: all of them,
\* in their places, when every chunk is whole.
ReadAssembled ==
    request.kind = "read" =>
        \A csize \in 1..(FileLen + 1) :
            LET file == [i \in 1..FileLen |-> i]
                offset == request.range[1]
                end == Least(offset + request.range[2], FileLen)
            IN  \A has \in [0..(FileLen \div csize) -> 0..FileLen] :
                    LET bytes == ReadRange(file, FileLen, csize, offset, request.range[2], has)
                    IN  /\ \A i, j \in 1..Len(bytes) : i < j => bytes[i] < bytes[j]
                        /\ \A p \in 1..FileLen :
                              (\E i \in 1..Len(bytes) : bytes[i] = p)
                                <=> offset < p /\ p <= end /\ p <= has[(p - 1) \div csize]
=============================================================================
