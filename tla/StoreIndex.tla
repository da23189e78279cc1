----------------------------- MODULE StoreIndex -----------------------------
(***************************************************************************)
(* The cache index of crates/cacheshfs-core/src/store.rs as a value, and   *)
(* the edits the store makes to it while it holds the index mutex.  Every  *)
(* operator takes an index and returns the edited index; which objects an  *)
(* edit orphans is a separate operator, since the code deletes their files *)
(* at a different moment than it edits the index.                          *)
(*                                                                         *)
(* A path is the sequence of its components.  An entry's attributes are    *)
(* abstracted to their tag, the pair (size, mtime): the store compares     *)
(* nothing else.  A HashMap is a function whose DOMAIN is its key set.     *)
(***************************************************************************)
EXTENDS Naturals, Sequences

\* HashMap::insert and HashMap::remove.
Put(f, k, v) == [x \in DOMAIN f \cup {k} |-> IF x = k THEN v ELSE f[x]]
Drop(f, S) == [x \in DOMAIN f \ S |-> f[x]]

NoMap == [x \in {} |-> {}]

\* struct Index, with the entries' attributes and contents as two maps: the
\* next object id, attributes, content, and child names by path.
Index(next, attrs, content, listing) ==
    [next |-> next, attrs |-> attrs, content |-> content, listing |-> listing]

\* Index::default(): what Store::new starts from without a readable index.
EmptyIndex == Index(0, NoMap, NoMap, NoMap)

\* Content recorded for version `tag` in chunks of `csize` bytes: the object
\* that holds each chunk.
ContentRef(tag, csize, chunks) == [tag |-> tag, csize |-> csize, chunks |-> chunks]

\* Store::content_objects.
ContentObjects(content) == {content.chunks[c] : c \in DOMAIN content.chunks}

\* All objects the contents at the paths S refer to.
ObjectsAt(idx, S) == UNION {ContentObjects(idx.content[p]) : p \in S \cap DOMAIN idx.content}

\* Every object the index refers to.
Refs(idx) == ObjectsAt(idx, DOMAIN idx.content)

-----------------------------------------------------------------------------
(* store_attrs, for the paths in DOMAIN new at once: put_attrs updates one *)
(* path, record_listing one per child.                                     *)

\* The paths whose content was recorded for another version than `new` says.
StalePaths(idx, new) == {p \in DOMAIN idx.content \cap DOMAIN new : idx.content[p].tag # new[p]}

\* Mutant: the stale content stays in the entry although its objects go.
StoreAttrsKeepsStale(idx, new) ==
    Index(idx.next,
          [p \in DOMAIN idx.attrs \cup DOMAIN new |->
              IF p \in DOMAIN new THEN new[p] ELSE idx.attrs[p]],
          idx.content,
          idx.listing)

StoreAttrs(idx, new) ==
    Index(idx.next,
          [p \in DOMAIN idx.attrs \cup DOMAIN new |->
              IF p \in DOMAIN new THEN new[p] ELSE idx.attrs[p]],
          Drop(idx.content, StalePaths(idx, new)),
          idx.listing)

-----------------------------------------------------------------------------
(* Directory listings.                                                     *)

\* The children of a listing keyed by their paths instead of their names.
ByPath(parent, kids) ==
    [p \in {Append(parent, n) : n \in DOMAIN kids} |-> kids[p[Len(p)]]]

\* record_listing: the children's attributes, then the parent's child names.
RecordListing(idx, parent, kids) ==
    LET stored == StoreAttrs(idx, ByPath(parent, kids))
    IN  Index(stored.next, stored.attrs, stored.content,
              Put(idx.listing, parent, DOMAIN kids))

InvalidateChildren(idx, path) ==
    Index(idx.next, idx.attrs, idx.content, Drop(idx.listing, {path}))

-----------------------------------------------------------------------------
(* Entries.                                                                *)

\* remove: the entry, its content and its listing.
RemoveEntry(idx, path) ==
    Index(idx.next, Drop(idx.attrs, {path}), Drop(idx.content, {path}),
          Drop(idx.listing, {path}))

\* Mutant: the content is cloned out of the entry instead of taken.
InvalidateContentClones(idx, path) == idx

\* invalidate_content.
InvalidateContent(idx, path) ==
    Index(idx.next, idx.attrs, Drop(idx.content, {path}), idx.listing)

\* Path q lies strictly below path p (the key starts with "p/").
Under(p, q) == Len(p) < Len(q) /\ SubSeq(q, 1, Len(p)) = p

\* HashMap::remove(from) followed, if there was a value, by insert(to, value).
Move(f, from, to) ==
    IF from \in DOMAIN f THEN Put(Drop(f, {from}), to, f[from]) ELSE f

\* Mutant: the entry is copied to `to` and stays at `from`.
MoveEntryCopies(idx, from, to) ==
    Index(idx.next,
          IF from \in DOMAIN idx.attrs THEN Put(idx.attrs, to, idx.attrs[from]) ELSE idx.attrs,
          IF from \in DOMAIN idx.content THEN Put(idx.content, to, idx.content[from])
                                         ELSE idx.content,
          Move(idx.listing, from, to))

\* Moving the entry `from` (attributes and content together) over `to`.
MoveEntry(idx, from, to) ==
    Index(idx.next,
          Move(idx.attrs, from, to),
          IF from \in DOMAIN idx.attrs
            THEN Move(Drop(idx.content, {to} \ {from}), from, to)
            ELSE idx.content,
          Move(idx.listing, from, to))

\* The entries below `from` once it is moved: their cached paths are void.
Descendants(idx, from, to) ==
    {p \in DOMAIN MoveEntry(idx, from, to).attrs : Under(from, p)}

\* Mutant: descendants are reported as evicted but stay in the index.
RenameEntryKeepsDescendants(idx, from, to) == MoveEntry(idx, from, to)

RenameEntry(idx, from, to) ==
    LET moved == MoveEntry(idx, from, to)
        gone  == Descendants(idx, from, to)
    IN  Index(moved.next, Drop(moved.attrs, gone), Drop(moved.content, gone),
              Drop(moved.listing, gone))

-----------------------------------------------------------------------------
(* Content.                                                                *)

\* Mutant: the counter is read but not advanced.
TakeIdNotAdvanced(idx) == idx

\* fetch_chunk's first critical section: an id is taken from the counter.
TakeId(idx) == Index(idx.next + 1, idx.attrs, idx.content, idx.listing)

\* read, cached_chunk: the content at `path` is of this version and chunking.
ContentMatches(idx, path, tag, csize) ==
    /\ path \in DOMAIN idx.content
    /\ idx.content[path].tag = tag
    /\ idx.content[path].csize = csize

\* cached_chunk(..).is_some()
HasChunk(idx, path, tag, csize, chunk) ==
    /\ ContentMatches(idx, path, tag, csize)
    /\ chunk \in DOMAIN idx.content[path].chunks

\* Mutant: chunks of another version are kept when the content is retagged.
RecordChunkKeepsOldVersion(idx, path, tag, csize, chunk, object) ==
    LET kept == IF path \in DOMAIN idx.content THEN idx.content[path].chunks ELSE NoMap
    IN  Index(idx.next,
              IF path \in DOMAIN idx.attrs THEN idx.attrs ELSE Put(idx.attrs, path, tag),
              Put(idx.content, path, ContentRef(tag, csize, Put(kept, chunk, object))),
              idx.listing)

\* Mutant: content started afresh keeps the chunk size of the mount before.
RecordChunkKeepsChunkSize(idx, path, tag, csize, chunk, object) ==
    LET matches == ContentMatches(idx, path, tag, csize)
        kept == IF matches THEN idx.content[path].chunks ELSE NoMap
        size == IF path \in DOMAIN idx.content THEN idx.content[path].csize ELSE csize
    IN  Index(idx.next,
              IF path \in DOMAIN idx.attrs THEN idx.attrs ELSE Put(idx.attrs, path, tag),
              Put(idx.content, path, ContentRef(tag, size, Put(kept, chunk, object))),
              idx.listing)

\* The tail of fetch_chunk: get or create the entry and its content, start the
\* content afresh if it is of another version or chunking, point the chunk at
\* the new object.
RecordChunk(idx, path, tag, csize, chunk, object) ==
    LET kept == IF ContentMatches(idx, path, tag, csize)
                  THEN idx.content[path].chunks ELSE NoMap
    IN  Index(idx.next,
              IF path \in DOMAIN idx.attrs THEN idx.attrs ELSE Put(idx.attrs, path, tag),
              Put(idx.content, path, ContentRef(tag, csize, Put(kept, chunk, object))),
              idx.listing)

\* The objects RecordChunk replaces, whose files fetch_chunk deletes on the way.
ReplacedObjects(idx, path, tag, csize, chunk) ==
    CASE HasChunk(idx, path, tag, csize, chunk) -> {idx.content[path].chunks[chunk]}
      [] path \in DOMAIN idx.content
           /\ ~ContentMatches(idx, path, tag, csize) -> ContentObjects(idx.content[path])
      [] OTHER -> {}
=============================================================================
