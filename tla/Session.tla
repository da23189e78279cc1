------------------------------ MODULE Session -------------------------------
(***************************************************************************)
(* Connecting in crates/cacheshfs-sftp/src/lib.rs: connect_async, the host *)
(* key check with its prompt, authentication by agents and identity files, *)
(* and the opening of the SFTP channel.  `stage` says where the process    *)
(* is; every failure ends it.                                              *)
(*                                                                         *)
(* A host key is an algorithm and an identity; known_hosts is a set of     *)
(* records of host, port and key.  An identity file stands for its key.    *)
(***************************************************************************)
EXTENDS Integers, Sequences, FiniteSets, SequencesExt

CONSTANTS
    HostKeys,    \* keys a server may present
    UserKeys,    \* keys of users, and the identity files that hold them
    MaxTries     \* failed attempts after which the server hangs up

VARIABLES
    stage,       \* where the process is
    opts,        \* SftpConnectOptions
    world,       \* what the process finds: home, terminal, agents, usable identity files
    knownHosts,  \* ~/.ssh/known_hosts: whether it can be read, and its records
    serverKey,   \* the key the server presents
    accepted,    \* the keys the server lets the user in with
    outcomes,    \* what became of the keys tried so far
    link,        \* the connection: up, hungUp (by the server), broken
    vouched      \* history: records that were there, or that the user approved

sessionVars == <<opts, knownHosts, outcomes, link, vouched>>
worldVars == <<world, serverKey, accepted>>

Record(o, key) == [host |-> o.host, port |-> o.port, key |-> key]

Fail == stage' = "failed"

NoOpts == [host |-> <<>>, port |-> <<>>, user |-> <<>>, identityFiles |-> <<>>, accept |-> FALSE,
           readTimeout |-> 0]
NoWorld == [home |-> FALSE, tty |-> FALSE, agent |-> <<>>, usable |-> {}]
NoKey == [alg |-> "none", id |-> 0]

-----------------------------------------------------------------------------
(* The host key.                                                           *)

\* check_known_hosts_path of russh: an error if the host is on file with another
\* key of the same algorithm, else whether it is on file with this one.
CheckKnownHosts(key) ==
    LET recorded == {r.key : r \in {s \in knownHosts.records :
                                       s.host = opts.host /\ s.port = opts.port}}
    IN  CASE ~knownHosts.readable -> "error"
          [] knownHosts.readable /\ (\E k \in recorded : k.alg = key.alg /\ k # key) -> "error"
          [] OTHER -> IF key \in recorded THEN "true" ELSE "false"

\* Mutant: a file that does not vouch for the key is passed over.
ClassifyHostKeyPassesOver(key) ==
    IF world.home /\ CheckKnownHosts(key) = "true" THEN "Known" ELSE "Unknown"

\* classify_host_key; without a home directory there is no file to look into.
ClassifyHostKey(key) ==
    IF ~world.home THEN "Unknown"
    ELSE CASE CheckKnownHosts(key) = "true" -> "Known"
           [] CheckKnownHosts(key) = "error" -> "Changed"
           [] CheckKnownHosts(key) = "false" -> "Unknown"

\* The TCP connection and the key exchange up to the server's key.
Dial ==
    /\ stage = "dial"
    /\ stage' = "hostKey"
    /\ serverKey' \in HostKeys
    /\ accepted' \in SUBSET UserKeys
    /\ UNCHANGED <<sessionVars, world>>

\* The connection is not made, or breaks off while client::connect or the opening
\* of the channel waits for it; the key exchange goes on a little after the check
\* of the server's key.
ConnectionLost ==
    /\ \/ stage \in {"dial", "hostKey", "openSftp"}
       \/ stage = "authenticate" /\ outcomes = <<>> /\ link = "up"
    /\ Fail
    /\ UNCHANGED <<sessionVars, worldVars>>

\* check_server_key up to the prompt.
CheckServerKey ==
    /\ stage = "hostKey"
    /\ stage' = CASE ClassifyHostKey(serverKey) = "Known" -> "authenticate"
                  [] ClassifyHostKey(serverKey) = "Changed" -> "failed"
                  [] ClassifyHostKey(serverKey) = "Unknown" ->
                        IF opts.accept THEN "authenticate" ELSE "prompt"
    /\ UNCHANGED <<sessionVars, worldVars>>

\* prompt_unknown_host without a terminal, with another answer than yes, or none.
PromptDeclines ==
    /\ stage = "prompt"
    /\ Fail
    /\ UNCHANGED <<sessionVars, worldVars>>

\* The user says yes.  The key is recorded; if that fails, which it does without
\* a home directory, the connection is made all the same.
PromptApproves ==
    /\ stage = "prompt"
    /\ world.tty
    /\ stage' = "authenticate"
    /\ vouched' = vouched \cup {Record(opts, serverKey)}
    /\ \/ UNCHANGED knownHosts
       \/ /\ world.home
          /\ knownHosts' = [knownHosts EXCEPT !.records = @ \cup {Record(opts, serverKey)}]
    /\ UNCHANGED <<opts, outcomes, link, worldVars>>

-----------------------------------------------------------------------------
(* Authentication.                                                         *)

\* The keys an agent offers; certificates are passed over.
PlainKeys(agent) ==
    FlattenSeq([i \in DOMAIN agent |-> IF agent[i].certificate THEN <<>> ELSE <<agent[i].key>>])

\* The identity files that exist and can be loaded.
LoadedFiles(files) ==
    FlattenSeq([i \in DOMAIN files |-> IF files[i] \in world.usable THEN <<files[i]>> ELSE <<>>])

\* Mutant: a file that cannot be loaded ends the loop over the files.
AttemptsStopAtBadFile ==
    PlainKeys(world.agent)
        \o (IF opts.identityFiles # <<>> /\ opts.identityFiles[1] \notin world.usable
              THEN <<>> ELSE LoadedFiles(opts.identityFiles))

\* The keys authenticate tries, in order: the agent's, then the identity files.
\* (On Windows the agents of several pipes are tried one after the other, like one
\* agent that offers all their keys.)
Attempts == PlainKeys(world.agent) \o LoadedFiles(opts.identityFiles)

\* There is a key left to try, the next one.
Trying == stage = "authenticate" /\ Len(outcomes) < Len(Attempts)
NextKey == Attempts[Len(outcomes) + 1]

\* The attempt does not succeed, and authenticate goes on to the next key, be it
\* that the server refuses this one or that authenticate_publickey returns an error.
PassOver(outcome) ==
    /\ outcomes' = Append(outcomes, outcome)
    /\ UNCHANGED <<stage, opts, knownHosts, vouched, worldVars>>

RefusedBefore(i) == {j \in 1..(i - 1) : outcomes[j] = "refused"}

KeyAccepted ==
    /\ Trying /\ link = "up"
    /\ NextKey \in accepted
    /\ stage' = "openSftp"
    /\ UNCHANGED <<sessionVars, worldVars>>

\* The server hangs up after so many of these.
KeyRefused ==
    /\ Trying /\ link = "up"
    /\ NextKey \notin accepted
    /\ PassOver("refused")
    /\ link' = IF Cardinality(RefusedBefore(Len(outcomes) + 1)) + 1 >= MaxTries THEN "hungUp" ELSE "up"

\* The server would take the key, but the agent does not sign.
AgentFails ==
    /\ Trying /\ link = "up"
    /\ NextKey \in accepted
    /\ Len(outcomes) < Len(PlainKeys(world.agent))
    /\ PassOver("unsigned")
    /\ UNCHANGED link

AttemptLost ==
    /\ Trying /\ link # "up"
    /\ PassOver("lost")
    /\ UNCHANGED link

\* The connection breaks between two attempts, or under one.
ConnectionBreaks ==
    /\ stage = "authenticate"
    /\ link = "up"
    /\ link' = "broken"
    /\ UNCHANGED <<stage, opts, knownHosts, outcomes, vouched, worldVars>>

Denied ==
    /\ stage = "authenticate"
    /\ Len(outcomes) = Len(Attempts)
    /\ stage' = "denied"
    /\ UNCHANGED <<sessionVars, worldVars>>

\* channel_open_session, request_subsystem and SftpSession::new.  The options
\* have served their purpose.
OpenSftp ==
    /\ stage = "openSftp"
    /\ stage' = "checkMountpoint"
    /\ opts' = NoOpts /\ outcomes' = <<>> /\ link' = "up"
    /\ world' = NoWorld /\ serverKey' = NoKey /\ accepted' = {}
    /\ UNCHANGED <<knownHosts, vouched>>

Connect ==
    \/ Dial
    \/ ConnectionLost
    \/ CheckServerKey
    \/ PromptDeclines
    \/ PromptApproves
    \/ KeyAccepted
    \/ KeyRefused
    \/ AgentFails
    \/ AttemptLost
    \/ ConnectionBreaks
    \/ Denied
    \/ OpenSftp

-----------------------------------------------------------------------------
\* "By default an unknown host prompts for confirmation (and a changed key is
\* always rejected)": nobody is authenticated to over a key that was neither on
\* file when the first process started nor approved by a user since, unless told
\* to accept unknown ones, and never when another key of the same algorithm is on
\* file.  (Processes follow each other, record keys and may fail to; the server's
\* key may change between them.)
SessionTrusted ==
    stage \in {"authenticate", "openSftp"} =>
        /\ opts.accept \/ Record(opts, serverKey) \in vouched
        /\ world.home /\ knownHosts.readable =>
              \A r \in knownHosts.records :
                  r.host = opts.host /\ r.port = opts.port /\ r.key.alg = serverKey.alg
                    => r.key = serverKey

\* Being denied means that every key the server would have taken and the process
\* could offer was tried, and lost for a reason of its own: the agent did not sign
\* with it, the connection had broken, or the server had refused so many keys
\* before it that it had hung up.  (Missing files, files that cannot be loaded,
\* certificates and keys that are refused come before it in any order.)
DeniedForGoodReason ==
    LET offered(k) == \/ \E i \in DOMAIN world.agent : world.agent[i] = [key |-> k, certificate |-> FALSE]
                      \/ k \in world.usable /\ \E i \in DOMAIN opts.identityFiles : opts.identityFiles[i] = k
        excused(i) == \/ outcomes[i] = "unsigned"
                      \/ /\ outcomes[i] = "lost"
                         /\ link = "broken" \/ Cardinality(RefusedBefore(i)) >= MaxTries
    IN  stage = "denied" =>
            \A k \in accepted : offered(k) => \E i \in DOMAIN outcomes : Attempts[i] = k /\ excused(i)
=============================================================================
