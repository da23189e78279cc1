---------------------------- MODULE ChunkedRead -----------------------------
(***************************************************************************)
(* The byte arithmetic of a read in crates/cacheshfs-core/src/store.rs: a  *)
(* range is cut into chunks, each chunk is fetched whole into an object,   *)
(* and the range is put together from pieces of the objects.               *)
(*                                                                         *)
(* A file is the sequence of its bytes; `has[c]` is how many of them the   *)
(* server still has when chunk c is fetched.                               *)
(***************************************************************************)
EXTENDS Integers, Sequences, SequencesExt

Least(a, b) == IF a < b THEN a ELSE b
Greatest(a, b) == IF a > b THEN a ELSE b

\* chunk_range, of a range that is not empty.
FirstChunk(offset, csize) == offset \div csize
LastChunk(end, csize) == (end - 1) \div csize

\* fetch_chunk's loop over short reads: it ends when the chunk is full or the
\* server returns nothing.
FetchedObject(file, size, csize, c, has) ==
    LET start == c * csize
        len == Least(size - start, csize)
    IN  SubSeq(file, start + 1, Least(start + len, has[c]))

\* read_object: what the object has of the range asked for.
ReadObject(object, from, len) == SubSeq(object, from + 1, Least(from + len, Len(object)))

\* Mutant: a piece reaches to the end of its chunk.
PieceToChunkEnd(object, offset, end, csize, c) ==
    LET start == c * csize
        from == Greatest(offset, start) - start
    IN  ReadObject(object, from, csize - from)

\* The part of chunk c in the range, in read_cached_range.
Piece(object, offset, end, csize, c) ==
    LET start == c * csize
        from == Greatest(offset, start) - start
        to == Least(end, start + csize) - start
    IN  ReadObject(object, from, to - from)

\* Store::read of a file whose attributes say `size`.
ReadRange(file, size, csize, offset, len, has) ==
    LET end == Least(offset + len, size)
        piece(c) == Piece(FetchedObject(file, size, csize, c, has), offset, end, csize, c)
        first == FirstChunk(offset, csize)
        pieces == [i \in 1..(LastChunk(end, csize) - first + 1) |-> piece(first + i - 1)]
    IN  IF len = 0 \/ offset >= size THEN <<>> ELSE FlattenSeq(pieces)
=============================================================================
