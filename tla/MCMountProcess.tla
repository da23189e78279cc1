--------------------------- MODULE MCMountProcess ---------------------------
(* Small instances of MountProcess for TLC. *)
EXTENDS MountProcess

Defaults == <<<<"id1">>>>

HomeEnv == [NoEnv EXCEPT !.home = <<"/", "home">>, !.user = <<"m">>, !.usable = {<<"id2">>}]
BaseCli == [NoCli EXCEPT !.remote = <<"u", "@", "h", ":", "/">>, !.mountpoint = <<"/", "m">>,
                         !.env = HomeEnv]

\* Remotes of up to four characters.
Remotes == {[BaseCli EXCEPT !.remote = r] :
               r \in UNION {[1..k -> {"h", "@", ":", "/", "[", ".."}] : k \in 0..4}}

\* Sizes and durations around the width of a word.
Quantities(suffixes) == {[value |-> v, suffix |-> s] : v \in {0, 1, 18, 19, 63, 64, 65535, 65536},
                                                       s \in suffixes}
Sizes == {[BaseCli EXCEPT !.chunkSize = q] : q \in Quantities({"b", "k", "m", "?"})}
Durations == {[BaseCli EXCEPT !.metadataTtl = q, !.cacheMode = "Offline"] :
                 q \in Quantities({"ms", "s", "m", "h", "?"})}
                \cup {[BaseCli EXCEPT !.readTimeout = q] : q \in Quantities({"ms", "s", "m", "h", "?"})}

\* Mountpoints and cache directories of up to three components.
Places == {[BaseCli EXCEPT !.mountpoint = p, !.cacheDir = q, !.cacheMode = "Offline"] :
              p, q \in {<<>>, <<"/", "m">>, <<"/", "m", "m">>, <<"/", ".", "m">>, <<"/">>, <<"m">>, <<".">>,
                        <<".", "m">>, <<"m", "m">>, <<"..", "m">>, <<"/", "m", ".", "c">>,
                        <<"/", "m", "..", "c">>}}
DefaultPlaces == {[BaseCli EXCEPT !.mountpoint = p, !.cacheMode = "Offline", !.env.xdgCacheHome = x,
                                  !.env.localAppData = l, !.env.home = h] :
                     p \in {<<"/", "m">>, <<"m">>}, x, l \in {NoPath, <<"/", "m">>},
                     h \in {NoPath, <<>>, <<"/", "m">>, <<"/", "home">>}}

\* ssh configs of up to three lines.
HostLine(ps) == [keyword |-> "host", patterns |-> ps, value |-> <<>>]
Line(k, v) == [keyword |-> k, patterns |-> <<>>, value |-> v]
Glob(g) == [negated |-> FALSE, glob |-> g]
NotGlob(g) == [negated |-> TRUE, glob |-> g]
Lines == {HostLine(<<Glob(<<"*", "h">>)>>), HostLine(<<Glob(<<"h", "?">>)>>),
          HostLine(<<Glob(<<"*">>), NotGlob(<<"?", "*">>)>>), Line("match", <<>>),
          Line("hostname", <<"x">>), Line("hostname", <<>>), Line("user", <<"w">>),
          Line("port", <<"9">>), Line("port", BadPort), Line("identityfile", <<"id2">>),
          Line("other", <<>>)}
Files == {[status |-> "read", lines |-> ls] : ls \in UNION {[1..k -> Lines] : k \in 0..3}}
            \cup {[status |-> s, lines |-> <<>>] : s \in {"missing", "error"}}
Configs == {[c EXCEPT !.env.file = f] :
               f \in Files, c \in {BaseCli, [BaseCli EXCEPT !.remote = <<"h", ":", "/">>,
                                                            !.port = <<"7">>, !.identityFile = <<<<"id3">>>>]}}
              \cup {[BaseCli EXCEPT !.remote = r, !.sshConfig = g, !.env.file.status = s, !.env.home = h,
                                    !.env.user = u] :
                       r \in {<<"h", ":", "/">>, <<"u", "@", "h", ":", "/">>}, g \in BOOLEAN,
                       s \in {"missing", "error"}, h \in {NoPath, <<"/", "home">>}, u \in {None, <<"m">>}}

\* Terminals, agents and identity files.
Certificate(k) == [key |-> k, certificate |-> TRUE]
Key(k) == [key |-> k, certificate |-> FALSE]
Logins == {[BaseCli EXCEPT !.acceptUnknown = a, !.identityFile = i, !.env.tty = t, !.env.agent = g,
                           !.env.usable = u] :
              a, t \in BOOLEAN, i \in {<<>>, <<<<"id2">>>>},
              g \in {<<>>, <<Certificate(<<"id1">>)>>, <<Key(<<"id3">>)>>, <<Certificate(<<"id2">>), Key(<<"id2">>)>>},
              u \in {{}, {<<"id2">>}, {<<"id1">>, <<"id2">>}}}

\* What later processes are started with: an unattended one and one at a terminal.
LaterLogins == {[BaseCli EXCEPT !.acceptUnknown = a, !.env.tty = ~a, !.env.usable = {<<"id1">>}] : a \in BOOLEAN}

\* The plainest command line.
PlainLogin == {[BaseCli EXCEPT !.acceptUnknown = TRUE, !.env.usable = {<<"id1">>}]}

AllCommandLines == Remotes \cup Sizes \cup Durations \cup Places \cup DefaultPlaces \cup Configs \cup Logins

KeyA1 == [alg |-> "a", id |-> 1]
KeyA2 == [alg |-> "a", id |-> 2]
KeyB == [alg |-> "b", id |-> 3]
FileKeys == {<<"id1">>, <<"id2">>}
ServerKeys == {KeyA1, KeyA2, KeyB}

OnFile(keys) == [readable |-> TRUE,
                 records |-> {[host |-> <<"h">>, port |-> <<"2", "2">>, key |-> k] : k \in keys}]
Unreadable == [readable |-> FALSE, records |-> {}]
FirstKnownHosts == {OnFile({}), OnFile({KeyA1}), Unreadable}

Ranges == {<<o, n>> : o, n \in 0..4}
=============================================================================
