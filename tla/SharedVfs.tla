----------------------------- MODULE SharedVfs ------------------------------
(***************************************************************************)
(* CacheVfs on a server that other clients change too, with mounts in any  *)
(* cache mode following each other on one cache directory.  Two history    *)
(* variables say when the cached attributes, and when the cached listing,  *)
(* of each path were last true of the server.                              *)
(***************************************************************************)
EXTENDS CacheVfs

VARIABLES attrsTrueAt, listingTrueAt

sharedVars == <<vars, attrsTrueAt, listingTrueAt>>

\* A time too early to be within the TTL of any other.
Never == -TTL

AttrsTrue(p) ==
    p \in DOMAIN idx.attrs /\ p \in DOMAIN remote /\ idx.attrs[p] = TagOf(remote[p])
ListingTrue(p) ==
    p \in DOMAIN idx.listing /\ IsDir(p) /\ idx.listing[p] = ChildrenOf(p)

\* The histories after a step: what is true now, what was and is still cached,
\* and what never was.
Aged ==
    /\ attrsTrueAt' = [p \in DOMAIN idx'.attrs |->
          IF AttrsTrue(p)' THEN clock'
          ELSE IF p \in DOMAIN idx.attrs /\ idx'.attrs[p] = idx.attrs[p] THEN attrsTrueAt[p]
          ELSE Never]
    /\ listingTrueAt' = [p \in DOMAIN idx'.listing |->
          IF ListingTrue(p)' THEN clock'
          ELSE IF p \in DOMAIN idx.listing /\ idx'.listing[p] = idx.listing[p]
            THEN listingTrueAt[p]
          ELSE Never]

-----------------------------------------------------------------------------
\* The process ends, and a mount is started on the same cache directory, with
\* the tables CacheVfs::new gives it.
Remount ==
    /\ mode' \in Modes /\ readOnly' \in ReadOnlys
    /\ pathToNode' = [p \in {<<>>} |-> 1]
    /\ nodeToPath' = [n \in {1} |-> <<>>]
    /\ nextNode' = 2
    /\ handles' = NoMap
    /\ nextHandle' = 1
    /\ validated' = NoMap
    /\ negative' = NoMap
    /\ UNCHANGED <<clock, remote, up, idx>>

\* Another client makes, rewrites or deletes the file p, or an operation of this
\* mount does and its answer is lost.  Their versions differ in mtime from the one
\* whose content is cached: size and mtime tell them apart.
OtherClient(p, new) ==
    /\ IsDir(Parent(p)) /\ ~IsDir(p)
    /\ p \in DOMAIN idx.content => idx.content[p].tag[2] < clock
    /\ new # remote
    /\ remote' = new
    /\ UNCHANGED <<clock, up, mountVars, idx, nodeVars, handleVars, validated, negative>>

\* The files another client may write.
Versions == {FileOf(data, clock) : data \in UNION {[1..k -> Vals] : k \in 0..MaxLen}}

SharedInit == Init /\ attrsTrueAt = NoMap /\ listingTrueAt = NoMap

SharedNext ==
    \/ Next /\ Aged
    \/ (\E p \in Files, r \in Versions : OtherClient(p, Put(remote, p, r))) /\ Aged
    \/ (\E p \in Files : OtherClient(p, Drop(remote, {p}))) /\ Aged
    \/ "remount" \in Ops /\ Remount /\ Aged

SharedSpec == SharedInit /\ [][SharedNext]_sharedVars

-----------------------------------------------------------------------------
\* "Expired metadata should be revalidated": a file's attributes that are served
\* without asking the server were true less than a TTL ago, whoever changed the
\* file and whether or not the server could be reached in between.  (Not so a
\* directory's: readdir renews their time without asking for them.)
AttrsBoundedStale ==
    mode # "Offline" =>
        \A p \in DOMAIN idx.attrs \ Dirs : Fresh(p) => clock < attrsTrueAt[p] + TTL

\* "Within the TTL, getattr/lookup/readdir are served from the store ...; past
\* it, the remote is revalidated": the same for listings.
ListingBoundedStale ==
    mode # "Offline" =>
        \A p \in DOMAIN idx.listing : Fresh(p) => clock < listingTrueAt[p] + TTL

\* "Partial read honoring offset/size": the chunks cached for a version can be put
\* together.  An object that is shorter than its chunk, because the server had no
\* more of the file, has no longer one behind it, or read_cached_range would return
\* the bytes of that one too early.
ReadsInPlace ==
    \A p \in DOMAIN idx.content :
        LET chunks == idx.content[p].chunks
        IN  idx.content[p].tag = idx.attrs[p] =>
                \A c, d \in DOMAIN chunks : c < d /\ chunks[c] = Short => chunks[d] = Short

\* An offline mount leaves the cache as it found it: a name it does not know is
\* not mistaken for one the server deleted.
OfflineFrozen == [][mode = "Offline" /\ mode' = "Offline" => idx' = idx]_sharedVars

\* A read-only mount never changes the server: whatever step changes the tree is
\* somebody else's, and shows in nothing this mount keeps.
ReadOnlyKeepsServer ==
    [][readOnly /\ remote' # remote
         => UNCHANGED <<idx, nodeVars, handleVars, validated, negative>>]_sharedVars
=============================================================================
