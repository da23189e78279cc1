# A TLA+ model of cacheshfs

cacheshfs mounts a directory of an SSH server and keeps what it has seen of it in
a cache directory, so that files can be read again without the network. This
directory holds TLA+ modules that model it from the command line to the object
files, TLC configurations that check them on small instances, and TLAPS proofs,
for every size of instance, of nearly all of what the instances show.

    tlc -workers 2 -config MCStoreThreads.cfg MCStore     # one run
    tlapm StoreProofs.tla                                 # the proofs of one module

`PROJECT.json` lists the runs, the source lines each definition stands for, one
mutation of the code per checked property that the property catches, the
findings, and the hazards the properties are aimed at.

## The system

| part | state it keeps | operations | hard behaviour | what makes it correct |
|---|---|---|---|---|
| content store, `core/store.rs` | the index (attributes, content references, listings, next object id) behind a mutex; `index.json`; object and temp files | put_attrs, record_listing, invalidate_children, remove, rename, invalidate_content, read, read_cached | threads that read object files outside the mutex; deletions before or after an unlock; failing persists; crashes; chunk-size changes between mounts | a reference leads to the right bytes or to none; no object in two places; nothing live is deleted |
| caching VFS, `core/vfs.rs` | node tables, handles, freshness times, remembered misses (one mutex) | lookup, getattr, readdir, open, read, write, release, create, mkdir, unlink, rmdir, rename, setattr | cached data judged by time; renames under open handles; a server that is away, or changed by others; offline and read-only mounts | what is served without asking is the server's, or was within the TTL; the server wins |
| remote contract, `core/lib.rs` | none | `RemoteFilesystem`, `RemotePath` | errors that mean "gone" against errors that mean "away" | – |
| SFTP transport, `sftp/lib.rs` | an SSH session and a runtime | the ten operations of `RemoteFilesystem`; connecting, host keys, authentication | timeouts, operations of two requests, lost connections; keys that change between mounts | an unreachable server is reported as such; an unknown or changed host key is refused; every usable key gets its turn |
| Linux adapter, `linux/` | the FUSE session, a shutdown flag | one callback per FUSE request; mount | paging of listings, shutdown against external unmount and slow requests | entries listed once; the mount comes down with the process |
| Windows adapter, `windows/` | a context per open file, `delete_pending` | one callback per WinFsp request, path resolution by lookup | several dispatcher threads; letter case; delete on cleanup | the opened file is the deleted one; caches survive the races |
| command line, `cli/` | none | option parsing, `ssh_config` resolution | arithmetic on sizes and durations; paths inside each other; precedence | options mean what is written; the connection goes where OpenSSH would go |

The adapters call the VFS, the VFS calls the store and the transport; the store
calls the transport back to fetch chunks. The store's mutex and the VFS's are
never held at the same time. On Linux the FUSE session (`fuser` with its default
configuration) serves one request after the other; WinFsp uses several threads.

How the modules lie over that:

| module | is | used by |
|---|---|---|
| StoreIndex | the cache index as a value | Store, CacheVfs |
| Store | threads, object files, `index.json`, crashes | StoreRefinement, the proofs |
| ChunkCache | what the store promises | StoreRefinement |
| ChunkedRead | byte arithmetic of a read | LinuxMount |
| CacheVfs | the VFS, a request at a time | SharedVfs, WinFs |
| SharedVfs | other clients, remounts | |
| WinFs | the WinFsp adapter and the VFS's races | |
| SshConfig, Cli | options and configuration | MountProcess |
| Session | connecting | MountProcess |
| LinuxMount | mount(), requests, shutdown | MountProcess |
| MountProcess | processes that follow each other | |

## The modules

**StoreIndex** is the cache index as a value: every locked edit that `store.rs`
makes (`store_attrs`, `record_listing`, `remove`, `rename`, the tail of
`fetch_chunk`, ...) is an operator from an index to an index, and the objects an
edit orphans are operators of their own. A path is the sequence of its
components; attributes are abstracted to the pair the store compares, size and
mtime ("tag"). Both state machines below are built from it, so the VFS is checked
over the same index edits that the store is proved about.

**Store** puts threads, the disk and crashes around it. Variables: `mem` (the
index behind the mutex), `disk` (`index.json`), `files` (object files, each
stamped with the version, chunk size and chunk it was fetched as), and per thread
the local variables of the call it is in. A critical section that touches no file
is one step. `fetch_chunk` is five: take an id, download and rename, edit the
index, delete each replaced file, persist; the last three under the mutex, which
`Holds` and `LockFree` express. `read_cached_range` copies the chunk map in one
step and opens one object per step, without the mutex. The other operations edit
and persist in one step and then delete orphaned files one by one, unlocked, as
the code does. A deletion may fail silently, a persist may fail silently
(`PersistMayFail`), a download may fail; `Restart` may happen in any state and
comes up with the last `index.json`, perhaps with another chunk size;
`RestartWithoutIndex` is a missing or unreadable index.

**CacheVfs** is `vfs.rs` over StoreIndex, a server tree, a clock in seconds and a
link that goes up and down. One action per operation of `VirtualFilesystem`; a
request is one step because the FUSE session serves them one at a time. `lookup`
is three actions (served from the store; found; missing), `readdir` two, `open`
two (truncating or not), `unlink` and `rmdir` one, since their code is the same
and the server decides which applies. A call that only reports an error or
returns what is cached changes nothing and is a stuttering step. Where Store keeps
an object id under a chunk, CacheVfs keeps the byte the object holds, so that
"the cached content is the server's" can be said; a chunk is one byte.

**SharedVfs** adds what is outside the mount. `OtherClient` changes the server
behind its back; a request that took effect on the server but whose answer was
lost looks the same from here. `Remount` ends the process and starts one with
another cache mode or read-only setting on the same cache directory. Two history
variables record when the cached attributes, and when the cached listing, of a
path were last true of the server. A chunk that the server had no byte of is
`Short`.

**ChunkCache** is the abstract specification of the store: per path some chunks of
one version, with their bytes, and a saved copy of that. No ids, files or
threads. Six actions: a chunk is added, files are forgotten, a file moves with
what is held of it, a chunk of the saved copy vanishes, a process starts with or
without the saved copy. **StoreRefinement** maps Store to it: what an index holds
is what its references lead to among the object files (`Resolve`). Allocating,
downloading and deleting are stuttering steps of the cache, except that deleting a
replaced object before `index.json` is written makes a chunk of the saved copy
vanish (`Vanish`, the only action that is there for the code's sake).

**WinFs** is the Windows adapter on top of CacheVfs's tables. A WinFsp callback is
a job of a dispatcher thread: a list of VFS calls still to make. A call is taken
apart where it lets go of its locks: it reads the tables (`Ask`, or a `...Hit`
that answers from the cache), the server answers or acts (`ServerAnswers`,
`ServerActs`), the store is edited (`EditStore`), the state is edited (`...Done`).
Steps of different threads interleave as far as WinFsp lets callbacks overlap:
creations, deletions and renames exclude each other and opens and listings,
callbacks on one file exclude each other unless they only look. A change may be
carried out and its answer lost, which covers the second request of `create` and
`setattr` failing. Paths are resolved by exact name first and then through the
listing (`lookup_component`). The history variable `unsure` collects the names of
changes that were reported failed although they happened, of files that WinFsp
took for another one already open, and what such names are renamed to; `astray`
marks the open files that WinFsp has under a name that is not theirs for one of
these reasons. There is one directory (`WinAssumption`); sizes and bytes, which
CacheVfs has, are left out here.

**MountProcess** is `main`: it takes a command line and its environment apart
(**Cli**, with **SshConfig**), connects (**Session**) and mounts (**LinuxMount**),
all of them sharing `stage`, and when the process is gone another is started on
the same mountpoint and `known_hosts`. Cli and SshConfig are operators named after
the functions; beside them stand definitions that say the same without loops
(`ResolveMeans`, `GlobMeans`, `RemoteMeans`, `Location`) and that the properties
compare them with. An option that is not there (`None`) is a marker that is no
text, so that an empty value (`HostName=`, a `HOME` that is set to nothing) is told
apart from a missing one, as the code's `Option` does; a size or duration without a
suffix has the one the code takes it to have.

Session goes from dialling through the host key, the prompt and the keys to the
SFTP channel. `outcomes` is what became of the keys tried so far: refused by the
server, not signed by the agent, or lost with the connection, which the server may
have hung up (after `MaxTries` refusals) and which may break at any time. As in
`authenticate`, none of these ends the loop over the keys, and the end of the loop
is "denied". There is one `known_hosts` file, the only one the command line
configures.

LinuxMount has the main thread (check, spawn, set the handler, wait, decide,
unmount, join), the session's thread, signals and `fusermount`. Unmounting may
fail, the session's thread may end with an error, and so may mount: then nobody
joins the thread, which serves on until the process is gone (stages "returning",
"failed"). Requests come one at a time and are told apart by what they wait for: a
FUSE read waits for the attributes first ("stat", without a timeout) and then for
its chunks ("read", with one); pages of a listing and all other calls have no
timeout. A directory scan is followed page by page, and a read through
**ChunkedRead**, in which every chunk may have any part of the file.

**StoreProofs** and **StoreRefinementProofs** hold the proofs about the store,
**ReadProofs** those about reads, **VfsProofs** and **CacheProofs** those about the
VFS, **WinProofs** those about the Windows adapter, **MountProofs** those about the
process and **ConfigProofs** those about its options. **MCStore**, **MCVfs**,
**MCShared**, **MCMountProcess**, **MCWinFs** give names to the small sets the
configurations use.

Operators called "Mutant" stand beside the definition they are a plausible bug
of; no specification uses them.

### What the environment is assumed to do

- The server refuses to rename over an existing name, as OpenSSH does for the
  SFTP rename request, and `create` fails on an existing name (the transport
  opens with CREATE and EXCLUDE).
- Another client's version of a file differs in mtime from the version whose
  content is cached. The cache tells versions apart by size and whole seconds of
  mtime and nothing else; two changes of the same size within one second are one
  version to it, by design.
- The mtime of a directory is not distinguished. (`readdir` renews the freshness
  of the directory's own attributes without fetching them, so these can be older
  than the TTL; `AttrsBoundedStale` is about files.)
- Other clients make, rewrite and delete files, not directories.
- The kernel makes no lookup, create or remove below the node of a directory that
  was removed and whose name another one took.
- A link that is down ends a call with an error. In CacheVfs the error may be
  `Unavailable` (the cached copy is served, and a node may be handed out) or
  another (the call fails); WinFs takes the one the SFTP transport returns.
- WinFsp's locks are those of its fine-grained strategy, which `mount.rs` pins; on
  a case-insensitive volume it has one file for names that differ in letter case
  only and knows it by the first one opened.
- A server hangs up after `MaxTries` refused keys and takes the others as they come.
  A `known_hosts` lookup is an
  error if the host is on file with another key of the same algorithm, or if the
  file cannot be read.
- fuser's session ends once it is unmounted and nobody uses it. Dropping it, as an
  early return of mount does, unmounts and waits for nothing. A process that is gone
  leaves a stale mount unless it was unmounted.

## What the runs check

| run | instance | states | shows |
|---|---|---|---|
| store_threads | 2 threads, 1 file of 2 versions and 2 chunks, crashes, failing persists | 2.4 M | readers outside the mutex, double fetches and deletions after unlock never mix versions or delete live objects; reused object ids never lead to other bytes |
| store_restart | 1 thread, a directory and 2 files of 1 chunk, 2 chunk sizes, crashes, index may be lost | 0.3 M | references lead to the right bytes across restarts and renames; only what was missing at the start stays missing; `index.json` is current whenever the mutex is free; the store implements ChunkCache |
| vfs_own | a directory with a file of up to 2 bytes, 2 handles, a link that drops | 0.5 M | a client alone on the server sees its own changes, in attributes, listings and bytes, and no remembered miss hides a file |
| vfs_moves | 2 directories and 2 files, renames between them, reads and writes through old handles | 0.6 M | node tables stay inverse, content stays current |
| vfs_shared | 1 file, other clients, a link that drops, remounts online and offline, read-only or not | 0.5 M | server wins; attributes served without asking are less than a TTL old; offline mounts leave the cache alone, read-only ones the server |
| mount_process | 4,900 command lines with their environments, ssh configs of 3 lines, 3 host keys, 3 user keys, connections that break, a scan of 2 names, reads of a 3-byte file at every chunk size, signals at any time, unmounts that fail | 0.5 M | options mean what was written; no unvouched key is accepted; a usable key is not passed over; a scan and a read return what was there; mount never returns with the mount forgotten; a process told to end ends |
| win_threads | 2 threads, 3 names of which 2 differ in letter case only, 2 open files, 3 callbacks, a link that drops, lost answers | 1.7 M | listings and remembered names stay the server's under all interleavings; the file opened is the file deleted; node tables stay inverse |

`ListingWhole` and `NamesTrue` make an exception for the names in `unsure`, those of
changes that were reported failed and happened (`create` and `setattr` are two
requests) above all: there the code lets the cache be wrong until the TTL ends.
`DeletesTheOpened` makes one for a file opened while its namesake in another case is
open, which WinFsp takes for the same file. `ScanFaithful` excuses what paging by
index cannot avoid: entries that come or go before the kernel's index.
`DeniedForGoodReason` excuses a good key that comes after `MaxTries` refused ones, or
for which the agent does not sign, or that meets a broken connection: the code tells
none of these from a refusal. `ReadAssembled` says that a read returns the bytes of
the range that its chunks have, in order; where a chunk is short, the bytes behind it
are too early, which `read_in_place` is about. What `ConfiguredAsWritten` and
`ConnectsAsWritten` leave open (durations that do not fit, paths with `..` or of two
kinds, the place of `--identity-file`) is among the disagreements below.

Five runs show where the code does something else than its documentation says:

- **store_crash**: `fetch_chunk` deletes replaced objects before it persists. After
  a crash in between, `index.json` refers to files that are gone, and the chunk,
  found in the index, is never fetched again. `OnlyLostMissing` says this is the
  only way to get there: within a mount no reference is lost.
- **vfs_rename_listing**: a renamed directory keeps its cached listing, its
  children lose their attributes, and `readdir` leaves out children without
  attributes: the directory is listed as empty.
- **vfs_stale_listing**: `getattr` and `lookup` of a directory renew the time its
  listing is judged by, so the listing outlives the TTL.
- **read_in_place**: a later chunk of a file is read, another client truncates the
  file, and an earlier chunk is read within the TTL. Its object is short, the later one
  is still there for the same version, and a read of both returns the later one's
  bytes where the earlier one's should be.
- **win_unreachable**: when the connection is gone, the SFTP client's errors carry
  no status and become `RemoteBackend`; `is_unreachable` is true of `Unavailable`
  only, so calls fail although the cache has the answer. (The run uses the Windows
  adapter; the transport and the VFS are the same on Linux.)

Six more disagreements have a configuration that shows each of them, and are not
among the runs:

    tlc -config MCVfsRenameAttrs.cfg MCVfs             # ReadYourWrites
    tlc -config MCVfsRenameMissing.cfg MCVfs           # NegativeSound
    tlc -config MCMountDurations.cfg MCMountProcess    # DurationsAsWritten
    tlc -config MCMountCacheDir.cfg MCMountProcess     # CacheOutsideMount
    tlc -config MCMountIdentity.cfg MCMountProcess     # IdentityFileFirst
    tlc -config MCMountSigterm.cfg MCMountProcess      # SignalsHandled

- **ReadYourWrites**: create f, write to f, create g, unlink g, rename f to g.
  g's freshness time is still there, so f's attributes from before the write are
  served for g.
- **NegativeSound**: `rename_path` moves the node of a renamed directory and not
  those of its descendants. mkdir d and d/e, create d/e/f, rename d to x; a lookup of
  f below the node of d/e, which still says d/e, is remembered as missing; rename x to
  d, and d/e/f exists and is said to be missing while the entry is fresh.
- **DurationsAsWritten**: minutes and hours are multiplied without a check; a release
  build wraps. (`parse_byte_size` checks.)
- **CacheOutsideMount**: `is_inside` knows neither `..` nor the working directory, so
  a cache directory in the mounted tree is accepted.
- **IdentityFileFirst**: the default identity files are tried before `--identity-file`,
  which the documents say overrides and pins.
- **SignalsHandled**: `README.md` and `mount.rs` promise a clean unmount on SIGTERM, but
  `ctrlc` is built without its `termination` feature, so that the signal kills the
  process (`Terminate`) and the mount stays behind, stale.

`ReadYourWrites`, `ListYourChanges` and `NegativeSound` hold in the instances without
renames and fail with them; `NodeTable` and `ContentCurrent` hold with them in
`vfs_moves`. Looking for the hypotheses of the theorems below showed one more limit,
in an instance larger than that run's:

- `ContentCurrent` fails with renames and `setattr` together: read through an old
  handle of f after f was renamed to g and f was created anew; the short chunk is
  filed under the tag of the new f, and a `setattr` that makes f as long within
  the same second brings the tag to life.

### Bounds

Two threads are the fewest that interleave, and every hazard of the store is
between two of them: a reader and an editor, or two fetches. Two versions and two
chunks are the fewest that can be mixed. Two object ids let one fetch replace
another under a reader, and be handed out again after a restart. Threads that fail
to persist and trees that change are in different instances because together they
are too many; the proofs have all of it at once. When ids run out `AllocObject` is
disabled and the read can only fail. In the VFS, a TTL of 2 against a clock of 2
has instants inside and at the end of the TTL, and a negative TTL (at most one
second) that ends earlier; in `vfs_shared` a TTL of 1 against a clock of 2 has
instants past it; in `vfs_moves` the clock stands still, so that everything
happens within one second and every remembered miss and freshness time stays in
force, the hardest case for a client's own changes. Cache mode Pinned behaves as
OnDemand. Two names per level suffice for a rename and for the reuse of a name.
`Ops` selects the operations of an instance; between them the instances take every
action. Node and handle ids are bounded by `MaxNode` and `MaxHandle` in the guards
of `Intern` and `OpenHandle`. Threads are symmetric, and no property tells them
apart.

In `mount_process` the words of sizes and durations are 16 bits wide instead of
64, with numbers on both sides of every product that just fits. Remotes are all
texts of up to four of the characters the parsers look at; ssh configs are all
sequences of up to three of eleven lines, enough for a block, a setting in it and
one that comes too late. The first process may have any of these command lines;
later ones (`Repeated`) have a terminal or `--accept-unknown-hosts`, because what
matters for them is what their predecessors left in `known_hosts` and at the
mountpoint. Two names make a page boundary with an entry on either side; files of
three bytes are cut by chunk sizes 1 to 4 in every way, with every amount of the file
in each chunk. `MaxTries` of 2 lets a server hang up before, and after, a good key.
The disagreements in MountProcess use the few command lines that each is about.

In `win_threads` three callbacks are enough for an open, a change that overlaps
it or follows it, and a third that sees the result; the third name is a file that
WinFsp does not confuse with the other two, so that callbacks on files overlap.
A TTL of one second and one tick let everything expire at any point of a call.

### Fairness

`MountProcess!Fairness` is what `ShutdownCompletes` rests on: the main thread keeps
running (its loop polls every 150 ms and waits for nothing else), the session's
thread ends once it can, and the fetching of chunks, once the attributes are there, is
answered or timed out, which `SftpBackend::read` ensures. Nothing else is assumed:
`stat`, `read_dir` and the other remote calls have no timeout in the code, and users
need not close their files, so the property says "if nothing kills the process, nobody
keeps a file of the mount open for ever, and no stat, listing or other call hangs".
SIGTERM, which kills, is thereby excluded (`SignalsHandled`, above); "failed" is
a way for main to return, since unmounting and joining can fail. The other
specifications state no fairness; they have no liveness properties.

Deadlock is checked except in WinFs, whose instances stop when the mount is over
or the callbacks have run out.

## What is proved

The theorems hold for any sets of threads, files, directories, names, versions,
keys and command lines, any number of chunks, object ids, nodes and handles, any
clock and TTL, whether or not persists fail, indexes get lost or links drop. They
rest on the assumptions that the modules state with ASSUME, which TLC evaluates in
every run: bounds are naturals (`MaxNode` at least 1, the root's), paths are
sequences of names, there is a chunk size, directories have finitely many names
(`Names` is finite, so that a listing is a finite sequence), known_hosts files are
sets of records, reads have an offset and a length, and identity files, agents and
ssh configs are lists of texts, in which the marker for "no value" does not occur
(`StoreAssumption`, `VfsAssumption`, `WinAssumption`, `CliAssumption`,
`KnownHostsAssumption`, `NamesAssumption`, `ReadAssumption`, `LoginAssumption`).

### The store

- `StoreProofs!TypeCorrect`: `Spec => []TypeOK`.
- `StoreProofs!StoreInvariant`: `Spec => []StoreInv`, and from it
  `ObjectsNeverShared`, `ObjectsHoldWhatIndexSays`, `ReadsNeverMix`,
  `DeletionsAreDead` and `MountLosesNothing`.
- `StoreProofs!DiskNeverBehind`: `Spec => []DiskCurrent`.
- `StoreRefinementProofs!StoreImplementsCache`: `Spec => ImplementsCache`.

The argument is about object ids. No property above is inductive alone: after a
restart the counter falls back to the one on disk, ids are handed out again, and
the download overwrites whatever file lies under the id. `StoreInv` therefore
says that the counter in memory is ahead of every id that memory refers to, that
the one on disk is ahead of every id the disk refers to and not ahead of the one
in memory, and that an id in flight (allocated, not yet recorded) belongs to one
thread and is not referred to by memory, disk, a reader's copy or a pending
deletion (`FreshIds`, `UsedIds`, `Bounded`). A finished download has left the
right bytes under its id (`Downloaded`). Then a download touches no object anyone
refers to, a recorded chunk is a new object, and what an edit orphans is out of
the index for good, because ids in the index are never handed out again while the
process lives. The proof goes action by action; lemmas about the edits of
StoreIndex (which references an edit keeps, drops or adds, and that it keeps them
unshared) carry most of it.

`DiskCurrent` needs `DurableInv`: the mutex has one holder at a time, and while it
is free (and no write fails) disk and memory have the same entries, so that only
its holder has an index edited and not yet written. The refinement is a step
simulation under `StoreInv`: every action maps to one of ChunkCache's or to a
stutter, the object files being looked through by `Resolve`.

### The VFS

- `VfsProofs!VfsInvariant`: `Spec => []VfsInv`, and from it `VfsTypes` (`TypeOK`)
  and `NodeTableInvariant` (`NodeTable`), with every operation. `VfsInv` adds to
  them the shape of the tree and of the index, and what a handle refers to.
- `CacheProofs`: for a client alone on the server and `"rename" \notin Ops`,
  `ReadYourWrites`, `ListYourChanges` and `NegativeSound`. They are proved
  together, as consequences of `TruthInv`: the index agrees with the server
  (`IndexTrue`: attributes that are still valid, listings, content), a node is the
  node of its path, and what was remembered as missing is missing. The hypothesis is what the code needs: with renames
  all three fail (above).
- `CacheProofs!ContentCurrentInvariant`, for instances that lack `rename` or
  `setattr`; with both it fails (above). Its invariant `BytesTrueIn` says that
  content is of files that are there, that chunks are below the size they were
  fetched under, and that they hold the file's bytes as far as the file reaches.
- `CacheProofs`, with other clients: `OfflineFrozen` and `ReadOnlyKeepsServer`, action properties with
  every operation, and `VfsInv` with other clients and remounts. Without renames,
  `AttrsBoundedStale`; its invariant `StaleInv` bounds the freshness times by the
  history variables. Without `rename` and `setattr`, `ContentCurrent`
  (`VersionsTrueIn`: the same of files whose mtime is still that of their chunks): a `setattr` may set an mtime back to that of an earlier
  version of another client's, which the cache cannot tell from that version.

### The Windows adapter

For any number of threads, callbacks, names, open files and any folding of letter
case (`WinProofs`), in three layers:

- `WinShape`: `Shape` says which calls each thread's callback has still to make, on
  which open file, and that the threads are as far apart as WinFsp's locks keep
  them (`Alone`): a change of a name has no open, listing or other change of a name
  beside it. `WinNodeTable` (`NodeTable`) is part of it.
- `DeletesTheOpenedInvariant` (`DeletesTheOpened`): `Located` says that an open file
  which is not astray, and not deleted, is on the server under the name WinFsp
  knows it by, also while a rename of it is between the server's answer and the
  edit of the tables; `Last`, that a cleanup that deletes is the last on its file.
- `ListingWholeInvariant`, `NamesTrueInvariant`: neither property is inductive,
  because a thread may be about to edit the cache with an answer it got long ago.
  `NamesInv` adds, per thread, what its answer said and that it is still so when
  the edit comes (`ThreadsOK`: nobody could change names meanwhile, the locks of
  `Shape` see to that), per open file that its node leads to it (`FilesOK`), and
  per name that cache and server agree except while a change of that name is under
  way (`NamesOK`); where one is, the change's own edits restore it.

The steps are first sorted into a few kinds (`StepKinds`: beginnings of callbacks,
quiet steps of a call, the four that touch open files or change the server, closes,
and what lets all of this be), so that a layer is proved once per kind and not once
per action.

### Reads

`ReadProofs!ReadsTheRange` is about `Store::read` itself: for any file, chunk size,
offset and length, and whatever part of the file each chunk has, the pieces joined are
the bytes of the range that the chunks have, once each and in their order; if no chunk
of the range is short, they are the range. Nothing is assumed of when and from what the
chunks were fetched. It is an induction over the chunks: what has been joined before a
chunk is what the chunks before it have of the range (`ReadTo`). Induction is by sets
(`Induct`), and `Flattened` says what `FlattenSeq` computes; loops that the proofs
are about are written with it, or as recursive functions.
`MountProofs!ReadAssembledInvariant` is the same for every read of the mount.

### The process

- `MountProofs!SessionTrustedInvariant`: `SessionInv` says that what is on file was
  vouched for and that the prompt comes up only where nothing contradicts the key.
- `MountProofs!DeniedForGoodReasonInvariant`: `DeniedInv` says that every outcome so far
  has its reason (`Tried`): a refused key is not one the server takes, an unsigned one is
  the agent's, and one that was lost met a connection that had broken, or that the
  server had hung up after `MaxTries` refusals before it. Every plain key of the agent
  and every file that can be loaded is among the attempts (`FlatHolds`), and the
  files are a list because `resolve` gives one (`ResolveTyped`).
- `MountProofs!CleanExitInvariant`: `MountInv` ties the stage to the state of mount,
  session and request; in particular the session runs or has ended by itself at every
  stage at which mount may still return, and the mount is "held", not "mounted", where
  unmounting was tried in vain.
- `MountProofs!ScanFaithfulInvariant`: `ScanOk` says, of the names that stayed,
  that the listing has each once, that those before the kernel's index have been
  seen unless an entry was removed there, and that those behind it have not, and
  none twice, unless one was inserted there.

### The options

`ConfigProofs` proves `ConfiguredAsWrittenInvariant` and `ConnectsAsWrittenInvariant`.
Their invariant `ConfigInv` is simple: the configuration and the options are what
`ToMountConfig` and `ConnectOptions` compute from the command line. The work is to
show that the code's loops compute what the definitions without loops say, for
texts and files of any length. Where the code loops or recurs, the model has a
recursive function; that such a function exists and what it computes is shown by
induction over sets (`Rounds`, `Sifted`, `LinesExist`).

- `SizeAsWritten`, `DurationAsWritten`: the arithmetic, for any width of word, every unit
  and every value that fits.
- `CacheOutside`: `is_inside` compares what is left of two paths without `.`; this
  is where the paths lead (`WalkNormal`) if they have no `..` and start at
  the same place.
- `GlobAsWritten`: `glob_match`, a recursion over pattern and text, finds a match
  if and only if the text can be cut into pieces for the characters of the pattern.
  What can be cut satisfies the recursion (`CutsStep`), and by induction over what
  is left of both it is its only solution.
- `ResolveAsWritten`: after i lines of the ssh config, `active` says whether line
  i + 1 applies to the alias, and each setting is the first of the values, or all
  of them, of the lines up to there that apply.
- `RemoteAsWritten`: the first `:` and the last `@` before it take the remote apart
  into the user, host and root it is made of.

### Only model-checked

- `ShutdownCompletes`: liveness is out of the prover's reach.
- The violations.

Every other invariant and action property of the passing runs is a theorem; those
that need a hypothesis (no renames, or no `setattr`) say so above.

## What is not modelled

- The legacy whole-file object of old indexes, and temp files left by a crash.
- In WinFs: directories below the root, sizes and bytes, offline and read-only
  mounts (CacheVfs has all of these, for one request at a time). Hence an append
  at a stale size, and attributes filed by a listing that is overtaken by a write,
  are hazards without a property.
- The conversions of `attr.rs` and `error.rs` on both platforms: tables without
  state.
- Symbolic links, owners, permissions and access times: the cache stores them
  and compares none of them.
- Two processes on one cache directory at the same time: nothing in the code
  arranges for it, and nothing is promised.
- Several `known_hosts` files: the command line configures one.
- clap's parsing, quoting and comments in ssh configs, messages, the systemd units
  and the build script.

## Plan

Modelling is complete as far as the list above goes, and so are the proofs of what
the runs check. What could be added:

1. Sizes and bytes in WinFs, for the append at a stale size and the listing that is
   overtaken by a write.
2. The hypotheses "no renames" of the theorems about the VFS could be narrowed to
   the sequences that the violations and the limit above show to go wrong.
