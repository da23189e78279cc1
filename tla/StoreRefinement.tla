-------------------------- MODULE StoreRefinement ---------------------------
(***************************************************************************)
(* Store implements ChunkCache: what an index holds is what its references *)
(* lead to among the object files, and a reference without a file holds    *)
(* nothing.                                                                *)
(***************************************************************************)
EXTENDS Store

\* What a reader finds when it follows the references of a content.
Resolved(content) ==
    [tag |-> content.tag, csize |-> content.csize,
     chunks |-> [c \in {d \in DOMAIN content.chunks : content.chunks[d] \in DOMAIN files} |->
                    files[content.chunks[c]]]]

Resolve(idx) == [p \in DOMAIN idx.content |-> Resolved(idx.content[p])]

Cache == INSTANCE ChunkCache WITH held <- Resolve(mem), saved <- Resolve(disk)

\* Whatever the threads of the store do with ids and object files, and wherever
\* the process dies, a reader of the cache sees chunks of one version per file
\* whose bytes never change under it: they are added when fetched, dropped when
\* invalidated, moved by a rename, and fall back to the saved copy at a restart.
\* (fetch_chunk renames a download over whatever file has its id; deletions come
\* before or after the index is written.)
ImplementsCache == Cache!Spec
=============================================================================
