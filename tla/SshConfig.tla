----------------------------- MODULE SshConfig ------------------------------
(***************************************************************************)
(* crates/cacheshfs-cli/src/ssh_config.rs: what an OpenSSH client config   *)
(* says of a host alias, as the code computes it line by line, and as a    *)
(* definition that looks at the file as a whole.                           *)
(*                                                                         *)
(* A line is a keyword, the patterns of a "host" line and the value of any *)
(* other; comments, blank lines, letter case, quotes and separators are    *)
(* gone, and a keyword that is none of ours is "other".  A value, a glob   *)
(* and an alias are sequences of characters; BadPort is any text that is   *)
(* not a 16-bit number.                                                    *)
(***************************************************************************)
EXTENDS Naturals, Sequences, SequencesExt

None == <<"/none">>     \* Option::None: no character, nor a name in a path, is "/none"
BadPort == <<"bad">>

\* The elements of a sequence at these places, in their order.
Sift(s, places) ==
    LET upTo[i \in 0..Len(s)] ==
            IF i = 0 THEN <<>>
            ELSE IF i \in places THEN Append(upTo[i - 1], s[i]) ELSE upTo[i - 1]
    IN  upTo[Len(s)]

\* SshHostConfig::default()
NoConfig == [hostname |-> None, user |-> None, port |-> None, identityFiles |-> <<>>]

\* glob_match: the suffix of the pattern from i against the suffix of the text
\* from j.
GlobMatch(pattern, text) ==
    LET m[at \in (1..(Len(pattern) + 1)) \X (1..(Len(text) + 1))] ==
            LET i == at[1]
                j == at[2]
                more == j <= Len(text)
            IN  IF i > Len(pattern) THEN ~more
                ELSE CASE pattern[i] = "*" -> m[<<i + 1, j>>] \/ (more /\ m[<<i, j + 1>>])
                       [] pattern[i] = "?" -> more /\ m[<<i + 1, j + 1>>]
                       [] OTHER -> more /\ text[j] = pattern[i] /\ m[<<i + 1, j + 1>>]
    IN  m[<<1, 1>>]

\* Mutant: a negated pattern is one that does not match.
HostPatternsMatchIgnoresVeto(patterns, alias) ==
    \E i \in DOMAIN patterns : ~patterns[i].negated /\ GlobMatch(patterns[i].glob, alias)

\* host_patterns_match: a negated pattern that matches ends the loop.
HostPatternsMatch(patterns, alias) ==
    /\ \A i \in DOMAIN patterns : patterns[i].negated => ~GlobMatch(patterns[i].glob, alias)
    /\ \E i \in DOMAIN patterns : ~patterns[i].negated /\ GlobMatch(patterns[i].glob, alias)

\* The body of resolve's loop: whether settings apply from here on, and what was
\* found so far.  The first value wins; identity files add up.
ResolveLine(acc, line, alias) ==
    LET found == acc.found
        first(old) == IF old = None THEN line.value ELSE old
    IN  CASE line.keyword = "host" -> [acc EXCEPT !.active = HostPatternsMatch(line.patterns, alias)]
          [] line.keyword = "match" -> [acc EXCEPT !.active = FALSE]
          [] line.keyword \notin {"host", "match"} /\ ~acc.active -> acc
          [] acc.active /\ line.keyword = "hostname" ->
                [acc EXCEPT !.found.hostname = first(found.hostname)]
          [] acc.active /\ line.keyword = "user" -> [acc EXCEPT !.found.user = first(found.user)]
          [] acc.active /\ line.keyword = "port" /\ line.value # BadPort ->
                [acc EXCEPT !.found.port = first(found.port)]
          [] acc.active /\ line.keyword = "identityfile" ->
                [acc EXCEPT !.found.identityFiles = Append(found.identityFiles, line.value)]
          [] OTHER -> acc

Resolve(config, alias) ==
    LET upTo[i \in 0..Len(config)] ==
            IF i = 0 THEN [active |-> TRUE, found |-> NoConfig]
                     ELSE ResolveLine(upTo[i - 1], config[i], alias)
    IN  upTo[Len(config)].found

-----------------------------------------------------------------------------
(* The same without loops: what ssh_config(5) says of the keywords we use. *)

\* The text can be cut into one piece per character of the pattern: any piece for
\* a star, one character for "?", that character for every other.
GlobMeans(pattern, text) ==
    \E cut \in [0..Len(pattern) -> 0..Len(text)] :
        /\ cut[0] = 0 /\ cut[Len(pattern)] = Len(text)
        /\ \A i \in DOMAIN pattern :
              IF pattern[i] = "*" THEN cut[i - 1] <= cut[i]
              ELSE cut[i] = cut[i - 1] + 1 /\ pattern[i] \in {"?", text[cut[i]]}

\* The line stands before every Host and Match line, or the last of these above
\* it is a Host line for this alias.
Applies(config, i, alias) ==
    LET heads == {j \in 1..(i - 1) : config[j].keyword \in {"host", "match"}}
        last == CHOOSE j \in heads : \A k \in heads : k <= j
        matching(negated) == {p \in Range(config[last].patterns) :
                                 p.negated = negated /\ GlobMeans(p.glob, alias)}
    IN  heads # {} => /\ config[last].keyword = "host"
                      /\ matching(TRUE) = {} /\ matching(FALSE) # {}

\* The lines with a value of a keyword that apply to the alias.
LinesFor(config, keyword, alias) ==
    {i \in DOMAIN config : /\ config[i].keyword = keyword
                           /\ keyword = "port" => config[i].value # BadPort
                           /\ Applies(config, i, alias)}

\* Their values, in the order of the file.
ValuesFor(config, keyword, alias) ==
    Sift([i \in DOMAIN config |-> config[i].value], LinesFor(config, keyword, alias))

ResolveMeans(config, alias) ==
    LET first(values) == IF values = <<>> THEN None ELSE Head(values)
    IN  [hostname |-> first(ValuesFor(config, "hostname", alias)),
         user |-> first(ValuesFor(config, "user", alias)),
         port |-> first(ValuesFor(config, "port", alias)),
         identityFiles |-> ValuesFor(config, "identityfile", alias)]
=============================================================================
