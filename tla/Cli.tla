-------------------------------- MODULE Cli ---------------------------------
(***************************************************************************)
(* crates/cacheshfs-cli/src/cli.rs: from the command line and the user's   *)
(* environment to the mount's configuration and the connection's options.  *)
(*                                                                         *)
(* Texts that are taken apart are sequences of characters (the remote, the *)
(* host names in it) or of components (paths, "/" being the first of an    *)
(* absolute one).  A size or duration is its number and its suffix.  u64   *)
(* arithmetic is modulo Word.                                              *)
(***************************************************************************)
EXTENDS SshConfig, Integers

CONSTANTS
    Word,          \* 2^64, scaled down
    DefaultChunk,  \* DEFAULT_CACHE_CHUNK_SIZE
    DefaultTTL,    \* DEFAULT_METADATA_TTL, in milliseconds
    DefaultTimeout, \* DEFAULT_READ_TIMEOUT, in milliseconds
    DefaultIds     \* default_identity_files: file names

ASSUME CliAssumption == Word \in Nat /\ DefaultChunk \in 1..(Word - 1) /\ {DefaultTTL, DefaultTimeout} \subseteq Nat

NoQuantity == [value |-> 0, suffix |-> "absent"]
NoPath == None

Ok(v) == [ok |-> TRUE, value |-> v]
Err == [ok |-> FALSE]

\* str::split_once, str::rsplit_once at position i.
At(s, c) == {i \in DOMAIN s : s[i] = c}
Before(s, i) == SubSeq(s, 1, i - 1)
After(s, i) == SubSeq(s, i + 1, Len(s))

-----------------------------------------------------------------------------
(* The remote.                                                             *)

ParseRemote(spec) ==
    LET first == CHOOSE i \in At(spec, ":") : \A j \in At(spec, ":") : i <= j
    IN  IF At(spec, ":") = {} \/ Before(spec, first) = <<>> \/ After(spec, first) = <<>>
          THEN Err
          ELSE Ok([target |-> Before(spec, first), root |-> After(spec, first)])

\* RemotePath::new: absolute, and no component is "..".
RemotePathOk(root) ==
    /\ root # <<>> /\ root[1] = "/"
    /\ ~\E i \in At(root, "..") : /\ root[i - 1] = "/"
                                  /\ i = Len(root) \/ root[i + 1] = "/"

\* The split at the last "@", which counts only with something before it.
SplitUser(target) ==
    LET last == CHOOSE i \in At(target, "@") : \A j \in At(target, "@") : j <= i
    IN  IF At(target, "@") = {} \/ last = 1
          THEN [user |-> None, host |-> target]
          ELSE [user |-> Before(target, last), host |-> After(target, last)]

\* parse_host_and_port, for a host without ":" (the target ends at the first one
\* of the remote): a bracketed host lacks its port.
ParseHostAndPort(host) ==
    IF host = <<>> \/ host[1] = "[" THEN Err ELSE Ok([host |-> host, port |-> <<"2", "2">>])

\* SftpTarget::parse; default_username fails without USER.
ParseTarget(target, env) ==
    LET split == SplitUser(target)
        user == IF split.user # None THEN split.user ELSE env.user
        parsed == ParseHostAndPort(split.host)
    IN  IF user = None \/ ~parsed.ok THEN Err
        ELSE Ok([user |-> user, host |-> parsed.value.host, port |-> parsed.value.port])

-----------------------------------------------------------------------------
(* Sizes and durations.                                                    *)

\* Without a suffix, bytes.
Multiplier == [k \in {"b", "k", "m", "g"} |->
                  CASE k = "b" -> 1 [] k = "k" -> 1024 [] k = "m" -> 1024 * 1024
                    [] k = "g" -> 1024 * 1024 * 1024]

\* Mutant: the product is not checked.
ParseByteSizeWraps(q) ==
    IF q.value \notin 1..(Word - 1) \/ q.suffix \notin DOMAIN Multiplier THEN Err
    ELSE Ok((q.value * Multiplier[q.suffix]) % Word)

\* parse_byte_size, with checked_mul.
ParseByteSize(q) ==
    IF \/ q.value \notin 1..(Word - 1)
       \/ q.suffix \notin DOMAIN Multiplier
       \/ q.value > (Word - 1) \div Multiplier[q.suffix]
      THEN Err
      ELSE Ok(q.value * Multiplier[q.suffix])

\* Without a suffix, seconds.
Seconds == [u \in {"s", "m", "h"} |-> CASE u = "s" -> 1 [] u = "m" -> 60 [] u = "h" -> 3600]

\* parse_duration, in milliseconds; a release build wraps.
ParseDuration(q) ==
    IF q.value \notin 0..(Word - 1) \/ q.suffix \notin DOMAIN Seconds \cup {"ms"} THEN Err
    ELSE IF q.suffix = "ms" THEN Ok(q.value)
    ELSE Ok(1000 * ((q.value * Seconds[q.suffix]) % Word))

-----------------------------------------------------------------------------
(* The cache directory.                                                    *)

DefaultCacheDir(env) ==
    CASE env.localAppData # NoPath -> env.localAppData \o <<"cacheshfs", "cache">>
      [] env.localAppData = NoPath /\ env.xdgCacheHome # NoPath -> env.xdgCacheHome \o <<"cacheshfs">>
      [] env.localAppData = NoPath /\ env.xdgCacheHome = NoPath /\ env.home # NoPath ->
            env.home \o <<".cache", "cacheshfs">>
      [] OTHER -> <<".cacheshfs-cache">>

CacheDirOf(cli, env) == IF cli.cacheDir # NoPath THEN cli.cacheDir ELSE DefaultCacheDir(env)

Normalize(path) == Sift(path, {i \in DOMAIN path : path[i] # "."})

IsInside(path, ancestor) == IsPrefix(Normalize(ancestor), Normalize(path))

-----------------------------------------------------------------------------
(* The two results.                                                        *)

\* to_mount_config, and the checks of the root and the TTL that run makes next.
ToMountConfig(cli, env) ==
    LET remote == ParseRemote(cli.remote)
        chunk == IF cli.chunkSize = NoQuantity THEN Ok(DefaultChunk) ELSE ParseByteSize(cli.chunkSize)
        ttl == IF cli.metadataTtl = NoQuantity THEN Ok(DefaultTTL) ELSE ParseDuration(cli.metadataTtl)
    IN  IF ~remote.ok \/ IsInside(CacheDirOf(cli, env), cli.mountpoint) \/ ~chunk.ok
             \/ ~RemotePathOk(remote.value.root) \/ ~ttl.ok
          THEN Err
          ELSE Ok([target |-> remote.value.target, cacheMode |-> cli.cacheMode,
                   chunkSize |-> chunk.value, ttl |-> ttl.value])

\* resolve_ssh_config: `file` is what reading the config file gives, if there is
\* one to read.
ResolveSshConfig(cli, env, file, alias) ==
    CASE ~cli.sshConfig /\ env.home = NoPath -> Ok(NoConfig)
      [] (cli.sshConfig \/ env.home # NoPath) /\ file.status = "read" -> Ok(Resolve(file.lines, alias))
      [] ~cli.sshConfig /\ env.home # NoPath /\ file.status = "missing" -> Ok(NoConfig)
      [] OTHER -> Err

\* default_identity_files.
DefaultIdentities(env) == IF env.home = NoPath THEN <<>> ELSE DefaultIds

\* connect_options.
ConnectOptions(cli, env, file, target) ==
    LET found == ResolveSshConfig(cli, env, file, SplitUser(target).host)
        parsed == ParseTarget(target, env)
        timeout == IF cli.readTimeout = NoQuantity THEN Ok(DefaultTimeout) ELSE ParseDuration(cli.readTimeout)
    IN  IF ~found.ok \/ ~parsed.ok \/ ~timeout.ok THEN Err
        ELSE Ok([host |-> IF found.value.hostname # None THEN found.value.hostname
                                                          ELSE parsed.value.host,
                 user |-> IF SplitUser(target).user = None /\ found.value.user # None
                            THEN found.value.user ELSE parsed.value.user,
                 port |-> IF cli.port # None THEN cli.port
                          ELSE IF found.value.port # None THEN found.value.port
                          ELSE parsed.value.port,
                 identityFiles |-> DefaultIdentities(env) \o cli.identityFile \o found.value.identityFiles,
                 accept |-> cli.acceptUnknown, readTimeout |-> timeout.value])

-----------------------------------------------------------------------------
(* What the options mean, said without the steps that compute it.          *)

\* The milliseconds of a duration, and whether its seconds fit a u64.
Milliseconds(q) == IF q.suffix = "ms" THEN q.value ELSE 1000 * q.value * Seconds[q.suffix]
Fits(q) == q.suffix = "ms" \/ q.value * Seconds[q.suffix] < Word

\* The remote is [user@]host:root, where root starts after the first ":" and the
\* user, if there is one, ends at the last "@" of the rest.
RemoteMeans(spec, user, alias, root) ==
    LET target == IF user = None THEN alias ELSE user \o <<"@">> \o alias
    IN  /\ spec = target \o <<":">> \o root
        /\ At(target, ":") = {}
        /\ IF user = None THEN At(alias, "@") \subseteq {1} ELSE At(alias, "@") = {}

\* The directory c of a directory, and where these lead one after the other.
Enter(at, c) == CASE c = "." -> at
                  [] c = ".." -> IF Len(at) > 1 THEN Front(at) ELSE at
                  [] c \notin {".", ".."} -> Append(at, c)
Walk(path) ==
    LET at[i \in 0..Len(path)] == IF i = 0 THEN <<>> ELSE Enter(at[i - 1], path[i])
    IN  at[Len(path)]

\* Where a path leads, seen from the directory the process was started in.
Location(path, cwd) == Walk(IF path # <<>> /\ path[1] = "/" THEN path ELSE cwd \o path)
=============================================================================
