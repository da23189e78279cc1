----------------------------- MODULE ChunkCache -----------------------------
(***************************************************************************)
(* What the content store of crates/cacheshfs-core/src/store.rs promises:  *)
(* for each path some chunks of one version of the file, and a saved copy  *)
(* of that a process finds when it starts.  There are no object ids, no    *)
(* object files and no threads; Store is shown to implement this module.   *)
(*                                                                         *)
(* A chunk is held together with its bytes, and nothing changes the bytes  *)
(* of a chunk that is held: chunks come, are forgotten, move with their    *)
(* file, or fall back to the saved copy.                                   *)
(***************************************************************************)
CONSTANTS
    Paths,          \* paths of files and directories
    Tags,           \* versions
    Chunks,         \* chunk numbers
    ChunkSizes,     \* chunk sizes of successive mounts
    IndexMayBeLost  \* whether a start can find no saved copy

VARIABLES
    held,       \* path -> version, chunk size, and the bytes of the chunks held
    saved,      \* the same, as a process started now would find it
    chunkSize   \* the running mount's chunk size

cacheVars == <<held, saved, chunkSize>>

Nothing == [p \in {} |-> {}]

Without(f, S) == [x \in DOMAIN f \ S |-> f[x]]
With(f, k, v) == [x \in DOMAIN f \cup {k} |-> IF x = k THEN v ELSE f[x]]

\* The bytes of a chunk of a version, at a chunk size.
Bytes(tag, csize, c) == [tag |-> tag, csize |-> csize, chunk |-> c]

Copy(tag, csize, chunks) == [tag |-> tag, csize |-> csize, chunks |-> chunks]

Init ==
    /\ held = Nothing
    /\ saved = Nothing
    /\ chunkSize \in ChunkSizes

\* A chunk was fetched.  It joins the others of its version and chunk size; those
\* of another version or chunk size go.
Fill(p, tag, c) ==
    LET same == p \in DOMAIN held /\ held[p].tag = tag /\ held[p].csize = chunkSize
        kept == IF same THEN held[p].chunks ELSE Nothing
    IN  /\ held' = With(held, p, Copy(tag, chunkSize, With(kept, c, Bytes(tag, chunkSize, c))))
        /\ UNCHANGED <<saved, chunkSize>>

\* The saved copy is brought up to date, or it is not.
MaySave == saved' = held' \/ saved' = saved

\* The files S are forgotten: new versions were seen, or they were removed or
\* written.  Nothing but a save, if S is empty.
Forget(S) ==
    /\ held' = Without(held, S)
    /\ MaySave
    /\ UNCHANGED chunkSize

\* `from` became `to`, with what was held of it; the files S are forgotten.
Relocate(from, to, S) ==
    /\ from \in DOMAIN held
    /\ held' = With(Without(held, S \cup {from}), to, held[from])
    /\ MaySave
    /\ UNCHANGED chunkSize

\* A chunk of the saved copy is deleted before the copy is brought up to date.
Vanish(p, c) ==
    /\ p \in DOMAIN saved /\ c \in DOMAIN saved[p].chunks
    /\ saved' = [saved EXCEPT ![p].chunks = Without(saved[p].chunks, {c})]
    /\ UNCHANGED <<held, chunkSize>>

\* A process starts.
Start ==
    /\ held' = saved
    /\ chunkSize' \in ChunkSizes
    /\ UNCHANGED saved

StartEmpty ==
    /\ IndexMayBeLost
    /\ held' = Nothing
    /\ saved' = Nothing
    /\ chunkSize' \in ChunkSizes

Next ==
    \/ \E p \in Paths, tag \in Tags, c \in Chunks : Fill(p, tag, c)
    \/ \E S \in SUBSET Paths : Forget(S)
    \/ \E from, to \in Paths : \E S \in SUBSET Paths : Relocate(from, to, S)
    \/ \E p \in Paths, c \in Chunks : Vanish(p, c)
    \/ Start
    \/ StartEmpty

Spec == Init /\ [][Next]_cacheVars
=============================================================================
