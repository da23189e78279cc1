---------------------------- MODULE MountProcess ----------------------------
(***************************************************************************)
(* The life of a cacheshfs process on Linux, and of the ones started after *)
(* it on the same mountpoint by the same user: run() of crates/cacheshfs-  *)
(* cli/src/main.rs, which takes the command line apart (Cli, SshConfig),   *)
(* connects (Session) and mounts (LinuxMount).                             *)
(*                                                                         *)
(* The command line, the ssh config and the options are forgotten as soon  *)
(* as the code is done with them.                                          *)
(***************************************************************************)
EXTENDS Cli, FiniteSets

CONSTANTS
    CommandLines,  \* command lines of the first process, with their environments
    Repeated,      \* command lines of the processes after it
    KnownHosts,    \* known_hosts at first
    HostKeys, UserKeys, MaxTries, Names, FileLen, ReadRanges

VARIABLES
    stage, cli, config,
    opts, world, knownHosts, serverKey, accepted, outcomes, link, vouched,
    mnt, fuse, shutdown, request, inUse, listing, scan

S == INSTANCE Session
M == INSTANCE LinuxMount

\* known_hosts is a set of records of host, port and key.
ASSUME KnownHostsAssumption ==
    \A known \in KnownHosts :
        /\ known.readable \in BOOLEAN
        /\ known = [readable |-> known.readable, records |-> known.records]
        /\ \A r \in known.records : r = S!Record(r, r.key)

\* A directory has finitely many names.
ASSUME NamesAssumption == IsFiniteSet(Names)

\* A file has a length, and users read so many bytes from an offset.
ASSUME ReadAssumption == FileLen \in Nat /\ ReadRanges \subseteq Nat \X Nat

\* Characters of a text or components of a path; options that may be unset; lines
\* of an ssh config; and what an agent holds.
Text == Seq(STRING \ {"/none"})
OptionText == Text \cup {None}
ConfigLine == [keyword : STRING, patterns : Seq([negated : BOOLEAN, glob : Text]), value : Text]
AgentKey == [key : Text, certificate : BOOLEAN]

\* What is on the command line and in the environment.
CommandTyped(c) ==
    /\ c.remote \in Text /\ c.mountpoint \in Text
    /\ c.cacheDir \in OptionText /\ c.port \in OptionText
    /\ c.env.home \in OptionText /\ c.env.xdgCacheHome \in OptionText
    /\ c.env.localAppData \in OptionText /\ c.env.user \in OptionText

\* What a user can log in with is lists of files and keys.
LoginTyped(c) ==
    /\ c.identityFile \in Seq(Text)
    /\ c.env.agent \in Seq(AgentKey)
    /\ c.env.file.lines \in Seq(ConfigLine)

ASSUME LoginAssumption ==
    /\ MaxTries \in Nat
    /\ DefaultIds \in Seq(Text)
    /\ \A c \in CommandLines \cup Repeated : CommandTyped(c) /\ LoginTyped(c)

parseVars == <<cli, config>>
connectVars == <<opts, world, knownHosts, serverKey, accepted, outcomes, link, vouched>>
mountVars == <<mnt, fuse, shutdown, request, inUse, scan, listing>>
vars == <<stage, parseVars, connectVars, mountVars>>

Env == cli.env

\* The variables of the environment, the ssh config as reading it turns out, and
\* what connecting will find.
NoEnv == [home |-> NoPath, xdgCacheHome |-> NoPath, localAppData |-> NoPath, user |-> None,
          file |-> [status |-> "missing", lines |-> <<>>],
          tty |-> FALSE, agent |-> <<>>, usable |-> {}]
NoCli == [remote |-> <<>>, mountpoint |-> <<>>, cacheDir |-> NoPath, cacheMode |-> "OnDemand",
          chunkSize |-> NoQuantity, metadataTtl |-> NoQuantity, readTimeout |-> NoQuantity,
          port |-> None, identityFile |-> <<>>, acceptUnknown |-> FALSE, sshConfig |-> FALSE,
          env |-> NoEnv]
NoMountConfig == [target |-> <<>>, cacheMode |-> "OnDemand", chunkSize |-> 0, ttl |-> 0]

Forgotten == cli' = NoCli /\ config' = NoMountConfig

Gone == {"exited", "failed", "denied", "killed"}

Init ==
    /\ stage = "parse"
    /\ cli \in CommandLines /\ config = NoMountConfig
    /\ opts = S!NoOpts /\ world = S!NoWorld /\ serverKey = S!NoKey
    /\ accepted = {} /\ outcomes = <<>> /\ link = "up"
    /\ knownHosts \in KnownHosts
    /\ vouched = knownHosts.records
    /\ mnt \in {"dir", "none"}
    /\ fuse = "none" /\ shutdown = FALSE
    /\ request = M!NoRequest /\ inUse = FALSE
    /\ scan = M!NoScan /\ listing = <<>>

-----------------------------------------------------------------------------
(* run().                                                                  *)

\* The next process is started.
Invoke ==
    /\ stage \in Gone
    /\ stage' = "parse"
    /\ cli' \in Repeated
    /\ config' = NoMountConfig
    /\ opts' = S!NoOpts /\ world' = S!NoWorld /\ serverKey' = S!NoKey
    /\ accepted' = {} /\ outcomes' = <<>> /\ link' = "up"
    /\ fuse' = "none" /\ shutdown' = FALSE
    /\ UNCHANGED <<knownHosts, vouched, mnt, request, inUse, listing, scan>>

\* The configuration, before any connection is made; an offline mount makes none.
Configure ==
    /\ stage = "parse"
    /\ LET result == ToMountConfig(cli, Env)
       IN  IF ~result.ok
             THEN stage' = "failed" /\ Forgotten
             ELSE /\ stage' = IF result.value.cacheMode = "Offline" THEN "offline" ELSE "options"
                  /\ config' = result.value
                  /\ UNCHANGED cli
    /\ UNCHANGED <<connectVars, mountVars>>

\* connect_options reads the ssh config and finds the user's keys.
BuildOptions ==
    /\ stage = "options"
    /\ LET result == ConnectOptions(cli, Env, Env.file, config.target)
       IN  IF ~result.ok
             THEN stage' = "failed" /\ UNCHANGED <<opts, world>>
             ELSE /\ stage' = "dial"
                  /\ opts' = result.value
                  /\ world' = [home |-> Env.home # NoPath, tty |-> Env.tty,
                               agent |-> Env.agent, usable |-> Env.usable]
    /\ UNCHANGED <<cli, config, knownHosts, serverKey, accepted, outcomes, link, vouched, mountVars>>

SkipConnection ==
    /\ stage = "offline"
    /\ stage' = "checkMountpoint"
    /\ Forgotten
    /\ UNCHANGED <<connectVars, mountVars>>

Connecting == S!Connect /\ Forgotten /\ UNCHANGED mountVars

Mounting == M!MainThread /\ UNCHANGED <<parseVars, connectVars>>
Serving == M!Serving /\ UNCHANGED <<parseVars, connectVars>>

\* Signals reach the process at any time; one that dies forgets what it knew.
Signalled == (M!Interrupt \/ M!Terminate) /\ UNCHANGED <<parseVars, connectVars>>
Outside == M!World /\ UNCHANGED <<parseVars, connectVars>>

Next ==
    \/ Invoke
    \/ Configure
    \/ BuildOptions
    \/ SkipConnection
    \/ Connecting
    \/ Mounting
    \/ Serving
    \/ Signalled
    \/ Outside

\* The main thread runs; the session's thread ends when it can; a read of the
\* remote, once the file's attributes are there, is answered or times out.  Nothing
\* makes other calls return, users close files, or signals come.
Fairness ==
    /\ WF_vars(Mounting)
    /\ WF_vars(M!SessionEnds /\ UNCHANGED <<parseVars, connectVars>>)
    /\ WF_vars(M!ReadAnswered /\ UNCHANGED <<parseVars, connectVars>>)

Spec == Init /\ [][Next]_vars /\ Fairness

-----------------------------------------------------------------------------
(* Properties.                                                             *)

\* Where the process is started.
Cwd == <<"/", "home">>

\* The cache directory lies in the mounted tree.
CacheInMount == IsPrefix(Location(cli.mountpoint, Cwd), Location(CacheDirOf(cli, Env), Cwd))

\* The mount is configured as the command line says: a chunk size is what was
\* written, and never zero; so are the TTL and the read timeout whenever their
\* seconds fit a u64 (DurationsAsWritten drops this condition, and fails); and the
\* cache directory does not lie in the mounted tree, if both paths are absolute or
\* both relative and neither has ".." (CacheOutsideMount drops these, and fails).
ConfiguredAsWritten ==
    /\ stage \in {"options", "offline"} =>
        LET plain == {cli.mountpoint, CacheDirOf(cli, Env)}
            absolute(p) == p # <<>> /\ p[1] = "/"
        IN  /\ cli.chunkSize # NoQuantity =>
                  /\ config.chunkSize > 0
                  /\ config.chunkSize % Multiplier[cli.chunkSize.suffix] = 0
                  /\ config.chunkSize \div Multiplier[cli.chunkSize.suffix] = cli.chunkSize.value
            /\ cli.metadataTtl # NoQuantity /\ Fits(cli.metadataTtl) =>
                  config.ttl = Milliseconds(cli.metadataTtl)
            /\ /\ \A p \in plain : \A i \in DOMAIN p : p[i] # ".."
               /\ \A p, q \in plain : absolute(p) = absolute(q)
               => ~CacheInMount
    /\ stage = "dial" /\ cli.readTimeout # NoQuantity /\ Fits(cli.readTimeout) =>
          opts.readTimeout = Milliseconds(cli.readTimeout)

\* "Parse a duration like `500ms`, `30s`, `5m`, `1h`" (parse_duration): a duration
\* that is accepted is the one that was written, however long.
DurationsAsWritten ==
    /\ stage \in {"options", "offline"} /\ cli.metadataTtl # NoQuantity =>
          config.ttl = Milliseconds(cli.metadataTtl)
    /\ stage = "dial" /\ cli.readTimeout # NoQuantity =>
          opts.readTimeout = Milliseconds(cli.readTimeout)

\* "The cache directory must never live inside the mounted filesystem tree, or cache
\* writes would recurse through the mount" (to_mount_config), wherever the process
\* is started and however the two paths are written.
CacheOutsideMount == stage \in {"options", "offline"} => ~CacheInMount

\* The connection goes where the remote and the ssh config say: --port and a user
\* in the remote override the config, and the config's first matching value counts.
\* Three lists of identity files are tried, the default ones, --identity-file and
\* the config's, in this order (IdentityFileFirst wants another one, and fails).
ConnectsAsWritten ==
    stage = "dial" =>
        \E colon \in At(cli.remote, ":"), at \in At(cli.remote, "@") \cup {0} :
            LET u == IF at = 0 THEN None ELSE Before(cli.remote, at)
                a == SubSeq(cli.remote, at + 1, colon - 1)
            IN
            /\ at < colon /\ RemoteMeans(cli.remote, u, a, After(cli.remote, colon))
            /\ LET found == IF Env.file.status = "read" /\ (cli.sshConfig \/ Env.home # NoPath)
                              THEN ResolveMeans(Env.file.lines, a) ELSE NoConfig
                   either(first, second) == IF first # None THEN first ELSE second
               IN  /\ opts.host = either(found.hostname, a)
                   /\ opts.user = either(u, either(found.user, Env.user))
                   /\ opts.port = either(cli.port, either(found.port, <<"2", "2">>))
                   /\ opts.identityFiles =
                         DefaultIdentities(Env) \o cli.identityFile \o found.identityFiles

\* "Identity precedence: --identity-file first, then any from ssh config"
\* (connect_options), "--identity-file pins a specific key": no other file is tried
\* before it.
IdentityFileFirst ==
    stage = "dial" /\ cli.identityFile # <<>> => IsPrefix(cli.identityFile, opts.identityFiles)

SessionTrusted == S!SessionTrusted
DeniedForGoodReason == S!DeniedForGoodReason
CleanExit == M!CleanExit
ScanFaithful == M!ScanFaithful
ReadAssembled == M!ReadAssembled

\* "Ctrl-C (SIGINT/SIGTERM) triggers a clean unmount", and fusermount -u ends the
\* process: once the flag is set or the session is over, main returns, if nothing
\* kills the process (as SIGTERM does: SignalsHandled), nobody keeps a file of the
\* mount open for ever and no remote call hangs other than the reads, which have a
\* timeout.
ShutdownCompletes ==
    [](stage # "killed") /\ <>[]~inUse /\ []<>(request.kind \notin {"call", "open", "stat", "page"})
      => ((shutdown /\ M!Handled) \/ fuse \in {"ended", "broke"} ~> stage \in {"exited", "failed"})

\* "SIGINT (Ctrl-C) / SIGTERM flip this flag; the wait loop below then triggers a
\* clean unmount" (mount.rs): while the handler is there, no signal kills the
\* process.
SignalsHandled == [][M!Handled => stage' # "killed"]_vars
=============================================================================
