---------------------------- MODULE MountProofs -----------------------------
(***************************************************************************)
(* What MountProcess promises, proved for every command line, known_hosts  *)
(* file, key and name: nobody is authenticated to over a host key that     *)
(* nobody vouched for, or denied without a reason, and no way out of       *)
(* mount() forgets the mount; scans and reads return what they should.     *)
(***************************************************************************)
EXTENDS MountProcess, ReadProofs

-----------------------------------------------------------------------------
(* The host key.                                                           *)

\* classify_host_key gives one of three answers.
LEMMA Classified ==
    ASSUME NEW key
    PROVE  /\ S!CheckKnownHosts(key) \in {"true", "error", "false"}
           /\ S!ClassifyHostKey(key) \in {"Known", "Changed", "Unknown"}
<1>1. S!CheckKnownHosts(key) \in {"true", "error", "false"}
  BY DEF S!CheckKnownHosts
<1> QED  BY <1>1 DEF S!ClassifyHostKey

\* No other key of the server's algorithm is on file, where the file counts.
Unrivalled ==
    world.home /\ knownHosts.readable =>
        \A r \in knownHosts.records :
            r.host = opts.host /\ r.port = opts.port /\ r.key.alg = serverKey.alg
              => r.key = serverKey

\* What is on file was vouched for, the prompt only comes up where nothing on file
\* contradicts the key, and a session that goes on is trusted.
SessionInv ==
    /\ knownHosts.readable \in BOOLEAN
    /\ knownHosts = [readable |-> knownHosts.readable, records |-> knownHosts.records]
    /\ \A r \in knownHosts.records : r = S!Record(r, r.key)
    /\ knownHosts.records \subseteq vouched
    /\ stage = "prompt" => Unrivalled
    /\ SessionTrusted

\* The check of the server's key lets through what is on file, and stops what
\* contradicts it.
LEMMA KeyChecked ==
    ASSUME SessionInv
    PROVE  /\ S!ClassifyHostKey(serverKey) = "Known" => S!Record(opts, serverKey) \in vouched
           /\ S!ClassifyHostKey(serverKey) # "Changed" => Unrivalled
<1> DEFINE recorded == {r.key : r \in {s \in knownHosts.records :
                                          s.host = opts.host /\ s.port = opts.port}}
<1>1. S!CheckKnownHosts(serverKey) = "true" => serverKey \in recorded
  BY DEF S!CheckKnownHosts
<1>2. serverKey \in recorded => S!Record(opts, serverKey) \in vouched
  BY DEF SessionInv, S!Record
<1>3. knownHosts.readable /\ S!CheckKnownHosts(serverKey) # "error" =>
        \A k \in recorded : k.alg = serverKey.alg => k = serverKey
  BY DEF S!CheckKnownHosts, SessionInv
<1>4. S!ClassifyHostKey(serverKey) = "Known" => S!CheckKnownHosts(serverKey) = "true"
  BY Classified DEF S!ClassifyHostKey
<1>5. world.home /\ S!ClassifyHostKey(serverKey) # "Changed" => S!CheckKnownHosts(serverKey) # "error"
  BY DEF S!ClassifyHostKey
<1> QED  BY <1>1, <1>2, <1>3, <1>4, <1>5 DEF Unrivalled

\* The inductive step for the host key.
LEMMA SessionStep == ASSUME SessionInv, [Next]_vars PROVE SessionInv'
<1> USE DEF SessionInv, SessionTrusted, S!SessionTrusted, Unrivalled, S!Record
<1>1. CASE Invoke
  BY <1>1 DEF Invoke
<1>2. CASE Configure
  BY <1>2 DEF Configure, connectVars
<1>3. CASE BuildOptions
  BY <1>3 DEF BuildOptions
<1>4. CASE SkipConnection
  BY <1>4 DEF SkipConnection, connectVars
<1>5. CASE Connecting
  <2>1. CASE S!CheckServerKey
    BY <2>1, Classified, KeyChecked DEF S!CheckServerKey, S!sessionVars, S!worldVars
  <2>2. CASE S!PromptApproves
    BY <2>2 DEF S!PromptApproves, S!worldVars
  <2>3. CASE S!Dial \/ S!ConnectionLost \/ S!PromptDeclines \/ S!Denied \/ S!OpenSftp
    BY <2>3 DEF S!Dial, S!ConnectionLost, S!PromptDeclines, S!Denied, S!OpenSftp, S!Fail,
         S!sessionVars, S!worldVars
  <2>4. CASE S!KeyAccepted \/ S!KeyRefused \/ S!AgentFails \/ S!AttemptLost \/ S!ConnectionBreaks
    BY <2>4 DEF S!KeyAccepted, S!KeyRefused, S!AgentFails, S!AttemptLost, S!ConnectionBreaks,
         S!Trying, S!PassOver, S!sessionVars, S!worldVars
  <2> QED  BY <1>5, <2>1, <2>2, <2>3, <2>4 DEF Connecting, S!Connect
<1>6. CASE Mounting
  BY <1>6 DEF Mounting, M!MainThread, M!CheckMountpoint, M!SpawnMount, M!SetHandler,
       M!SetHandlerFails, M!WaitLoop, M!Decide, M!Unmount, M!UnmountFails, M!Join, M!JoinFails,
       M!ProcessExits, M!DropSession, M!EndProcess, M!ServiceOver, connectVars
<1>7. CASE Serving
  BY <1>7 DEF Serving, M!Serving, M!SessionEnds, M!SessionBreaks, M!ServiceOver, M!StatAnswered,
       M!PageArrives, M!PageFails, M!CallArrives, M!WriteArrives, M!OpenArrives,
       M!CreateArrives, M!ReadArrives, M!Arrives, M!CallAnswered, M!OpenAnswered,
       M!ReadAnswered, M!Opendir, M!FlushAndRelease, M!BeginScan, M!ReadPage, M!EndScan, connectVars
<1>8. CASE Signalled
  BY <1>8 DEF Signalled, M!Interrupt, M!Terminate, M!Handled, M!Die, M!EndProcess, M!ServiceOver, connectVars
<1>9. CASE Outside
  BY <1>9 DEF Outside, M!World, M!ExternalUnmount, M!NameRemoved, M!NameAdded, connectVars
<1>10. CASE UNCHANGED vars
  BY <1>10 DEF vars, connectVars
<1> QED
  BY <1>1, <1>2, <1>3, <1>4, <1>5, <1>6, <1>7, <1>8, <1>9, <1>10 DEF Next

\* check_server_key: over all processes of a user, nobody is authenticated to over
\* a key that was neither on file nor approved, unless told to accept unknown ones,
\* and never against a key of the same algorithm on file.
THEOREM SessionTrustedInvariant == Spec => []SessionTrusted
<1>1. Init => SessionInv
  BY KnownHostsAssumption DEF Init, SessionInv, SessionTrusted, S!SessionTrusted
<1>2. SessionInv /\ [Next]_vars => SessionInv'
  BY SessionStep
<1>3. SessionInv => SessionTrusted
  BY DEF SessionInv
<1> QED  BY <1>1, <1>2, <1>3, PTL DEF Spec

-----------------------------------------------------------------------------
(* The mount.                                                              *)

\* The stages between the mounting and the end of the process.
Mounted == {"setHandler", "wait", "decide", "unmount", "join"}

\* The session's thread lives only between the mounting and the end, and requests
\* are served only while it runs.  The mountpoint is mounted only while mount() is
\* at work and the thread has not ended well, and no longer when the main thread
\* waits for it, unless it broke; it is held only by a mount() that returns an
\* error.
MountInv ==
    /\ fuse \in {"running", "broke"} => stage \in Mounted \cup {"returning"}
    /\ fuse # "running" => request = M!NoRequest
    /\ mnt = "mounted" => stage \in Mounted /\ fuse \in {"running", "broke"}
    /\ mnt = "held" => stage = "returning"
    /\ stage \in Mounted => mnt \in {"dir", "mounted"}
    /\ stage = "join" => mnt = "dir" \/ fuse = "broke"
    /\ stage = "exited" => mnt = "dir" /\ fuse = "ended"

\* The inductive step for the way through mount() and its end.
LEMMA MountStep == ASSUME MountInv, [Next]_vars PROVE MountInv'
<1>1. CASE Invoke
  BY <1>1 DEF Invoke, MountInv, Gone, Mounted, M!NoRequest
<1>2. CASE Configure
  BY <1>2 DEF Configure, MountInv, Mounted, mountVars
<1>3. CASE BuildOptions
  BY <1>3 DEF BuildOptions, MountInv, Mounted, mountVars
<1>4. CASE SkipConnection
  BY <1>4 DEF SkipConnection, MountInv, Mounted, mountVars
<1>5. CASE Connecting
  <2>1. stage \in {"dial", "hostKey", "prompt", "authenticate", "openSftp"}
    BY <1>5 DEF Connecting, S!Connect, S!Dial, S!ConnectionLost, S!CheckServerKey,
         S!PromptDeclines, S!PromptApproves, S!KeyAccepted, S!KeyRefused, S!AgentFails,
         S!AttemptLost, S!ConnectionBreaks, S!Trying, S!Denied, S!OpenSftp
  <2>2. stage' \in {"hostKey", "prompt", "authenticate", "openSftp", "checkMountpoint", "failed", "denied"}
    BY <1>5, <2>1, Classified DEF Connecting, S!Connect, S!Dial, S!ConnectionLost, S!CheckServerKey,
         S!Fail, S!PromptDeclines, S!PromptApproves, S!KeyAccepted, S!KeyRefused, S!AgentFails,
         S!AttemptLost, S!ConnectionBreaks, S!Trying, S!PassOver, S!Denied, S!OpenSftp
  <2> QED  BY <1>5, <2>1, <2>2 DEF Connecting, MountInv, Mounted, mountVars
<1>6. CASE Mounting
  BY <1>6 DEF Mounting, M!MainThread, M!CheckMountpoint, M!SpawnMount, M!SetHandler,
       M!SetHandlerFails, M!WaitLoop, M!Decide, M!Unmount, M!UnmountFails, M!Join, M!JoinFails,
       M!ProcessExits, M!DropSession, M!EndProcess, M!ServiceOver, M!IsMounted, M!Finished,
       M!NoRequest, M!mountVars, MountInv, Mounted
<1>7. CASE Serving
  <2>1. CASE M!SessionEnds \/ M!SessionBreaks
    BY <2>1 DEF M!SessionEnds, M!SessionBreaks, M!ServiceOver, M!IsMounted, M!NoRequest, MountInv, Mounted
  <2>2. ASSUME UNCHANGED <<stage, mnt, fuse>>, fuse = "running" \/ request' = M!NoRequest
        PROVE  MountInv'
    BY <2>2 DEF MountInv
  <2>3. CASE M!CallArrives \/ M!WriteArrives \/ M!OpenArrives \/ M!CreateArrives \/ M!ReadArrives
               \/ M!PageArrives \/ M!Opendir \/ M!FlushAndRelease \/ M!BeginScan
    BY <2>2, <2>3 DEF M!CallArrives, M!WriteArrives, M!OpenArrives, M!CreateArrives, M!ReadArrives,
         M!PageArrives, M!Arrives, M!Reachable, M!Opendir, M!FlushAndRelease, M!BeginScan
  <2>4. CASE M!CallAnswered \/ M!OpenAnswered \/ M!ReadAnswered \/ M!ReadPage \/ M!EndScan \/ M!PageFails
    BY <2>2, <2>4 DEF M!CallAnswered, M!OpenAnswered, M!ReadAnswered, M!ReadPage, M!EndScan, M!PageFails
  <2>5. CASE M!StatAnswered
    <3>1. fuse = "running"
      BY <2>5 DEF M!StatAnswered, M!NoRequest, MountInv
    <3> QED  BY <2>2, <2>5, <3>1 DEF M!StatAnswered
  <2> QED  BY <1>7, <2>1, <2>3, <2>4, <2>5 DEF Serving, M!Serving
<1>8. CASE Signalled
  BY <1>8 DEF Signalled, M!Interrupt, M!Terminate, M!Handled, M!Die, M!EndProcess, M!ServiceOver,
       M!IsMounted, M!NoRequest, MountInv, Mounted
<1>9. CASE Outside
  BY <1>9 DEF Outside, M!World, M!ExternalUnmount, M!NameRemoved, M!NameAdded, M!IsMounted, MountInv, Mounted
<1>10. CASE UNCHANGED vars
  BY <1>10 DEF vars, mountVars, MountInv, Mounted
<1> QED
  BY <1>1, <1>2, <1>3, <1>4, <1>5, <1>6, <1>7, <1>8, <1>9, <1>10 DEF Next

\* mount() of crates/cacheshfs-linux/src/mount.rs, under every order of signals,
\* unmounts by others, requests and failures: when it returns without an error, the
\* mountpoint is a directory again, the session's thread has ended and nothing it
\* served is unanswered; when it returns an error, the mount is gone or the system
\* refused to take it away.
THEOREM CleanExitInvariant == Spec => []CleanExit
<1>1. Init => MountInv
  BY DEF Init, MountInv, Mounted, M!NoRequest
<1>2. MountInv /\ [Next]_vars => MountInv'
  BY MountStep
<1>3. MountInv => CleanExit
  BY DEF MountInv, CleanExit, M!CleanExit, Mounted
<1> QED  BY <1>1, <1>2, <1>3, PTL DEF Spec

-----------------------------------------------------------------------------
(* The scan of a directory.                                                *)

\* Counting inside LinuxMount is counting.
LEMMA SameCardinality == ASSUME NEW S0 PROVE M!Cardinality(S0) = Cardinality(S0)
BY DEF M!Cardinality, Cardinality

\* A set of names is listed as a sequence that has each of them once.
LEMMA ListingOfSet ==
    ASSUME NEW names \in SUBSET Names
    PROVE  /\ M!SetToSeq(names) \in Seq(Names)
           /\ \A p, q \in 1..Len(M!SetToSeq(names)) :
                 M!SetToSeq(names)[p] = M!SetToSeq(names)[q] => p = q
           /\ \A n \in names : \E p \in 1..Len(M!SetToSeq(names)) : M!SetToSeq(names)[p] = n
<1> DEFINE k == Cardinality(names)
           f == M!SetToSeq(names)
<1>1. IsFiniteSet(names) /\ k \in Nat /\ ExistsBijection(1..k, names)
  BY FS_Subset, FS_CardinalityType, NamesAssumption
<1>2. \E g \in [1..k -> names] : M!IsInjective(g)
  BY <1>1 DEF ExistsBijection, Bijection, Injection, IsInjective, M!IsInjective
<1>3. f \in [1..k -> names] /\ M!IsInjective(f)
  BY <1>2, SameCardinality DEF M!SetToSeq
<1> HIDE DEF f
<1>4. f \in Injection(1..k, names)
  BY <1>3 DEF Injection, IsInjective, M!IsInjective
<1>5. IsFiniteSet(1..k) /\ Cardinality(1..k) = k
  BY <1>1, FS_Interval
<1>6. f \in Surjection(1..k, names)
  BY <1>1, <1>4, <1>5, FS_Injection
<1>7. f \in Seq(Names) /\ Len(f) = k
  BY <1>1, <1>3
<1> QED  BY <1>1, <1>3, <1>6, <1>7 DEF M!IsInjective, Surjection, f

\* Without its i-th entry a listing has the others, those behind one place earlier.
LEMMA EntryRemoved ==
    ASSUME NEW s \in Seq(Names), NEW i \in 1..Len(s)
    PROVE  /\ M!RemoveAt(s, i) \in Seq(Names)
           /\ Len(M!RemoveAt(s, i)) = Len(s) - 1
           /\ \A p \in 1..(Len(s) - 1) : M!RemoveAt(s, i)[p] = IF p < i THEN s[p] ELSE s[p + 1]
<1>1. Len(s) \in Nat /\ i \in Nat /\ i >= 1 /\ i <= Len(s)
  OBVIOUS
<1>2. PICK a : a = SubSeq(s, 1, i - 1)
  OBVIOUS
<1>3. PICK b : b = SubSeq(s, i + 1, Len(s))
  OBVIOUS
<1>4. PICK r : r = a \o b
  OBVIOUS
<1>5. a \in Seq(Names) /\ Len(a) = i - 1 /\ \A p \in 1..(i - 1) : a[p] = s[p]
  BY <1>1, <1>2
<1>6. b \in Seq(Names) /\ Len(b) = Len(s) - i /\ \A p \in 1..(Len(s) - i) : b[p] = s[p + i]
  BY <1>1, <1>3
<1>7. /\ r \in Seq(Names)
      /\ Len(r) = Len(a) + Len(b)
      /\ \A p \in 1..Len(a) : r[p] = a[p]
      /\ \A p \in 1..Len(b) : r[Len(a) + p] = b[p]
  <2>1. a \in Seq(Names) /\ b \in Seq(Names)
    BY ONLY <1>5, <1>6
  <2> QED  BY ONLY <1>4, <2>1, Joined
<1>8. Len(r) = Len(s) - 1
  BY ONLY <1>1, <1>5, <1>6, <1>7
<1>9. ASSUME NEW p \in 1..(Len(s) - 1), p < i PROVE r[p] = s[p]
  BY ONLY <1>1, <1>5, <1>7, <1>9
<1>10. ASSUME NEW p \in 1..(Len(s) - 1), p >= i PROVE r[p] = s[p + 1]
  <2>1. p = Len(a) + (p - i + 1) /\ p - i + 1 \in 1..Len(b) /\ p - i + 1 \in 1..(Len(s) - i)
    BY ONLY <1>1, <1>5, <1>6, <1>10
  <2>2. r[p] = b[p - i + 1]
    BY ONLY <1>7, <2>1
  <2>3. b[p - i + 1] = s[p - i + 1 + i]
    BY ONLY <1>6, <2>1
  <2> QED  BY ONLY <1>1, <1>10, <2>2, <2>3
<1>11. r = M!RemoveAt(s, i)
  BY <1>2, <1>3, <1>4 DEF M!RemoveAt
<1> QED  BY ONLY <1>1, <1>7, <1>8, <1>9, <1>10, <1>11

\* With an entry more at place i it has the others, those behind one place later.
LEMMA EntryInserted ==
    ASSUME NEW s \in Seq(Names), NEW i \in 1..(Len(s) + 1), NEW n \in Names
    PROVE  /\ M!InsertAt(s, i, n) \in Seq(Names)
           /\ Len(M!InsertAt(s, i, n)) = Len(s) + 1
           /\ \A p \in 1..(Len(s) + 1) :
                 M!InsertAt(s, i, n)[p] = IF p < i THEN s[p] ELSE IF p = i THEN n ELSE s[p - 1]
<1>1. Len(s) \in Nat /\ i \in Nat /\ i >= 1 /\ i <= Len(s) + 1
  OBVIOUS
<1>2. PICK a : a = SubSeq(s, 1, i - 1)
  OBVIOUS
<1>3. PICK b : b = SubSeq(s, i, Len(s))
  OBVIOUS
<1>4. PICK c : c = a \o <<n>>
  OBVIOUS
<1>5. PICK r : r = c \o b
  OBVIOUS
<1>6. a \in Seq(Names) /\ Len(a) = i - 1 /\ \A p \in 1..(i - 1) : a[p] = s[p]
  BY <1>1, <1>2
<1>7. b \in Seq(Names) /\ Len(b) = Len(s) - i + 1 /\ \A p \in 1..(Len(s) - i + 1) : b[p] = s[p + i - 1]
  BY <1>1, <1>3
<1>8. c \in Seq(Names) /\ Len(c) = i /\ \A p \in 1..i : c[p] = IF p < i THEN s[p] ELSE n
  BY <1>1, <1>4, <1>6
<1>9. /\ r \in Seq(Names)
      /\ Len(r) = Len(c) + Len(b)
      /\ \A p \in 1..Len(c) : r[p] = c[p]
      /\ \A p \in 1..Len(b) : r[Len(c) + p] = b[p]
  <2>1. c \in Seq(Names) /\ b \in Seq(Names)
    BY ONLY <1>7, <1>8
  <2> QED  BY ONLY <1>5, <2>1, Joined
<1>10. Len(r) = Len(s) + 1
  BY ONLY <1>1, <1>7, <1>8, <1>9
<1>11. ASSUME NEW p \in 1..(Len(s) + 1), p <= i PROVE r[p] = IF p < i THEN s[p] ELSE n
  BY ONLY <1>1, <1>8, <1>9, <1>11
<1>12. ASSUME NEW p \in 1..(Len(s) + 1), p > i PROVE r[p] = s[p - 1]
  <2>1. p = Len(c) + (p - i) /\ p - i \in 1..Len(b) /\ p - i \in 1..(Len(s) - i + 1)
    BY ONLY <1>1, <1>7, <1>8, <1>12
  <2>2. r[p] = b[p - i]
    BY ONLY <1>9, <2>1
  <2>3. b[p - i] = s[p - i + i - 1]
    BY ONLY <1>7, <2>1
  <2> QED  BY ONLY <1>1, <1>12, <2>2, <2>3
<1>13. r = M!InsertAt(s, i, n)
  BY <1>2, <1>3, <1>4, <1>5 DEF M!InsertAt
<1>14. ASSUME NEW p \in 1..(Len(s) + 1)
       PROVE  r[p] = IF p < i THEN s[p] ELSE IF p = i THEN n ELSE s[p - 1]
  <2>1. p \in Int
    OBVIOUS
  <2>2. CASE p <= i
    <3>1. r[p] = IF p < i THEN s[p] ELSE n
      BY <1>11, <2>2
    <3> QED  BY ONLY <1>1, <2>1, <2>2, <3>1
  <2>3. CASE p > i
    <3>1. r[p] = s[p - 1]
      BY <1>12, <2>3
    <3> QED  BY ONLY <1>1, <2>1, <2>3, <3>1
  <2> QED  BY ONLY <1>1, <2>1, <2>2, <2>3
<1>15. r \in Seq(Names)
  BY <1>9
<1> QED  BY ONLY <1>10, <1>13, <1>14, <1>15

\* A scan sc of listing ls: entries before the kernel's index have been seen, unless
\* one was removed there; entries behind it have not, and none was seen twice,
\* unless one was inserted there.
ScanOk(sc, ls) ==
    /\ sc \in [on : BOOLEAN, offset : Nat, seen : Seq(Names), stayed : SUBSET Names,
               removed : BOOLEAN, inserted : BOOLEAN]
    /\ ls \in Seq(Names)
    /\ \A p, q \in 1..Len(ls) : ls[p] = ls[q] => p = q
    /\ \A n \in sc.stayed : \E p \in 1..Len(ls) : ls[p] = n
    /\ \A p \in 1..Len(ls) :
          ~sc.removed /\ p <= sc.offset /\ ls[p] \in sc.stayed =>
              \E i \in 1..Len(sc.seen) : sc.seen[i] = ls[p]
    /\ \A p \in 1..Len(ls), i \in 1..Len(sc.seen) :
          ~sc.inserted /\ p > sc.offset /\ ls[p] \in sc.stayed => sc.seen[i] # ls[p]
    /\ \A i, j \in 1..Len(sc.seen) :
          ~sc.inserted /\ sc.seen[i] \in sc.stayed /\ sc.seen[i] = sc.seen[j] => i = j

\* It holds when there is no scan, and when one begins.
LEMMA NoScanOk == ScanOk(M!NoScan, <<>>)
BY DEF ScanOk, M!NoScan

LEMMA ScanBegins ==
    ASSUME NEW names \in SUBSET Names
    PROVE  ScanOk([M!NoScan EXCEPT !.on = TRUE, !.stayed = names], M!SetToSeq(names))
<1>1. PICK ls : ls = M!SetToSeq(names)
  OBVIOUS
<1>2. /\ ls \in Seq(Names)
      /\ \A p, q \in 1..Len(ls) : ls[p] = ls[q] => p = q
      /\ \A n \in names : \E p \in 1..Len(ls) : ls[p] = n
  BY <1>1, ListingOfSet
<1>3. PICK sc : sc = [M!NoScan EXCEPT !.on = TRUE, !.stayed = names]
  OBVIOUS
<1>4. /\ sc \in [on : BOOLEAN, offset : Nat, seen : Seq(Names), stayed : SUBSET Names,
                 removed : BOOLEAN, inserted : BOOLEAN]
      /\ sc.offset = 0 /\ sc.seen = <<>> /\ sc.stayed = names
  BY <1>3, <<>> \in Seq(Names) DEF M!NoScan
<1>5. ScanOk(sc, ls)
  BY <1>2, <1>4 DEF ScanOk
<1> QED  BY <1>1, <1>3, <1>5

\* A page is read.
LEMMA PageOk ==
    ASSUME NEW sc, NEW ls, ScanOk(sc, ls), NEW last \in (sc.offset + 1)..Len(ls)
    PROVE  ScanOk([sc EXCEPT !.offset = last,
                             !.seen = @ \o SubSeq(ls, sc.offset + 1, last)], ls)
<1>1. PICK o \in Nat : o = sc.offset
  BY DEF ScanOk
<1>2. PICK before \in Seq(Names) : before = sc.seen
  BY DEF ScanOk
<1>3. PICK m \in Nat : m = Len(before)
  OBVIOUS
<1>4. ls \in Seq(Names)
  BY DEF ScanOk
<1>5. PICK k \in Nat : k = Len(ls)
  BY <1>4
<1>6. last \in Nat /\ o \in Nat /\ k \in Nat /\ o < last /\ last <= k
  BY <1>1, <1>5
<1>7. PICK seen : seen = before \o SubSeq(ls, o + 1, last)
  OBVIOUS
<1>8. /\ seen \in Seq(Names) /\ Len(seen) = m + (last - o)
      /\ \A i \in 1..m : seen[i] = before[i]
      /\ \A p \in (o + 1)..last : seen[m + (p - o)] = ls[p]
  <2>1. PICK page : page = SubSeq(ls, o + 1, last)
    OBVIOUS
  <2>2. /\ page \in Seq(Names) /\ Len(page) = last - o
        /\ \A p \in 1..(last - o) : page[p] = ls[o + p]
    <3>1. ls \in Seq(Names) /\ o \in Nat /\ last \in Nat /\ last <= Len(ls) /\ o <= last
      BY ONLY <1>4, <1>5, <1>6
    <3>2. /\ SubSeq(ls, o + 1, last) \in Seq(Names)
          /\ Len(SubSeq(ls, o + 1, last)) = IF o <= last THEN last - o ELSE 0
          /\ \A p \in 1..(last - o) : SubSeq(ls, o + 1, last)[p] = ls[o + p]
      BY ONLY <3>1, Sub
    <3> QED  BY ONLY <2>1, <3>1, <3>2
  <2>3. before \in Seq(Names) /\ page \in Seq(Names) /\ seen = before \o page
    BY <1>7, <2>1, <2>2
  <2>4. /\ seen \in Seq(Names) /\ Len(seen) = Len(before) + Len(page)
        /\ \A p \in 1..Len(before) : seen[p] = before[p]
        /\ \A p \in 1..Len(page) : seen[Len(before) + p] = page[p]
    BY ONLY <2>3, Joined
  <2>5. ASSUME NEW p \in (o + 1)..last PROVE seen[m + (p - o)] = ls[p]
    <3>1. p - o \in 1..(last - o) /\ o + (p - o) = p
      BY <1>6
    <3>2. seen[Len(before) + (p - o)] = page[p - o]
      BY ONLY <2>2, <2>4, <3>1
    <3>3. page[p - o] = ls[p]
      BY ONLY <2>2, <3>1
    <3> QED  BY <1>3, <3>2, <3>3
  <2> QED  BY <1>3, <2>2, <2>4, <2>5
<1>9. /\ \A p, q \in 1..k : ls[p] = ls[q] => p = q
      /\ \A p \in 1..k : ~sc.removed /\ p <= o /\ ls[p] \in sc.stayed => \E i \in 1..m : before[i] = ls[p]
      /\ \A p \in 1..k, i \in 1..m : ~sc.inserted /\ p > o /\ ls[p] \in sc.stayed => before[i] # ls[p]
      /\ \A i, j \in 1..m : ~sc.inserted /\ before[i] \in sc.stayed /\ before[i] = before[j] => i = j
  BY <1>1, <1>2, <1>3, <1>5 DEF ScanOk
<1>10. PICK new : new = [sc EXCEPT !.offset = last, !.seen = seen]
  OBVIOUS
<1>11. /\ new \in [on : BOOLEAN, offset : Nat, seen : Seq(Names), stayed : SUBSET Names,
                   removed : BOOLEAN, inserted : BOOLEAN]
       /\ new.offset = last /\ new.seen = seen /\ new.stayed = sc.stayed
       /\ new.removed = sc.removed /\ new.inserted = sc.inserted
  BY <1>6, <1>8, <1>10 DEF ScanOk
\* An entry of the new sequence is an old one or one of the page.
<1>12. ASSUME NEW i \in 1..(m + (last - o))
       PROVE  \/ i \in 1..m /\ seen[i] = before[i]
              \/ o + (i - m) \in (o + 1)..last /\ seen[i] = ls[o + (i - m)]
  <2>1. CASE i <= m
    BY <1>8, <2>1
  <2>2. CASE i > m
    <3>1. o + (i - m) \in (o + 1)..last /\ m + (o + (i - m) - o) = i
      BY <1>6, <2>2
    <3>2. PICK p \in (o + 1)..last : p = o + (i - m) /\ m + (p - o) = i
      BY <3>1
    <3>3. seen[m + (p - o)] = ls[p]
      BY ONLY <1>8, <3>2
    <3> QED  BY <3>1, <3>2, <3>3
  <2> QED  BY <1>6, <2>1, <2>2
<1>13. \A p \in 1..k :
          ~sc.removed /\ p <= last /\ ls[p] \in sc.stayed =>
              \E i \in 1..(m + (last - o)) : seen[i] = ls[p]
  <2> SUFFICES ASSUME NEW p \in 1..k, ~sc.removed, p <= last, ls[p] \in sc.stayed
               PROVE  \E i \in 1..(m + (last - o)) : seen[i] = ls[p]
    OBVIOUS
  <2>1. CASE p <= o
    <3>1. PICK i \in 1..m : before[i] = ls[p]
      BY <1>9, <2>1
    <3>2. i \in 1..(m + (last - o)) /\ seen[i] = before[i]
      BY <1>6, <1>8
    <3> QED  BY <3>1, <3>2
  <2>2. CASE p > o
    <3>1. p \in (o + 1)..last /\ m + (p - o) \in 1..(m + (last - o))
      BY <1>6, <2>2
    <3> QED  BY <1>8, <3>1
  <2> QED  BY <2>1, <2>2
<1>14. \A p \in 1..k, i \in 1..(m + (last - o)) :
          ~sc.inserted /\ p > last /\ ls[p] \in sc.stayed => seen[i] # ls[p]
  <2> SUFFICES ASSUME NEW p \in 1..k, NEW i \in 1..(m + (last - o)),
                      ~sc.inserted, p > last, ls[p] \in sc.stayed
               PROVE  seen[i] # ls[p]
    OBVIOUS
  <2>1. CASE i \in 1..m /\ seen[i] = before[i]
    BY <1>6, <1>9, <2>1
  <2>2. CASE o + (i - m) \in (o + 1)..last /\ seen[i] = ls[o + (i - m)]
    <3>1. o + (i - m) \in 1..k /\ o + (i - m) # p
      BY <1>6, <2>2
    <3>2. PICK q \in 1..k : q = o + (i - m) /\ q # p /\ seen[i] = ls[q]
      BY <2>2, <3>1
    <3> QED  BY ONLY <1>9, <3>2, p \in 1..k
  <2> QED  BY <1>12, <2>1, <2>2
<1>15. \A i, j \in 1..(m + (last - o)) :
          ~sc.inserted /\ seen[i] \in sc.stayed /\ seen[i] = seen[j] => i = j
  <2> SUFFICES ASSUME NEW i \in 1..(m + (last - o)), NEW j \in 1..(m + (last - o)),
                      ~sc.inserted, seen[i] \in sc.stayed, seen[i] = seen[j]
               PROVE  i = j
    OBVIOUS
  <2> DEFINE Old(n) == n \in 1..m /\ seen[n] = before[n]
             Page(n) == o + (n - m) \in (o + 1)..last /\ seen[n] = ls[o + (n - m)]
  <2>1. (Old(i) \/ Page(i)) /\ (Old(j) \/ Page(j))
    BY <1>12
  <2>2. CASE Old(i) /\ Old(j)
    BY <1>9, <2>2
  <2>3. CASE Page(i) /\ Page(j)
    <3>1. o + (i - m) \in 1..k /\ o + (j - m) \in 1..k
      BY <1>6, <2>3
    <3>2. o + (i - m) = o + (j - m)
      BY <1>9, <2>3, <3>1
    <3> QED  BY <3>2
  <2>4. CASE Old(i) /\ Page(j)
    <3>1. o + (j - m) \in 1..k /\ o + (j - m) > o
      BY <1>6, <2>4
    <3>2. PICK p \in 1..k : p = o + (j - m) /\ p > o
      BY ONLY <3>1
    <3>3. ls[p] = before[i] /\ ls[p] \in sc.stayed /\ i \in 1..m
      BY <2>4, <3>2
    <3> QED  BY ONLY <1>9, <3>2, <3>3, ~sc.inserted
  <2>5. CASE Page(i) /\ Old(j)
    <3>1. o + (i - m) \in 1..k /\ o + (i - m) > o
      BY <1>6, <2>5
    <3>2. PICK p \in 1..k : p = o + (i - m) /\ p > o
      BY ONLY <3>1
    <3>3. ls[p] = before[j] /\ ls[p] \in sc.stayed /\ j \in 1..m
      BY <2>5, <3>2
    <3> QED  BY ONLY <1>9, <3>2, <3>3, ~sc.inserted
  <2> QED  BY <2>1, <2>2, <2>3, <2>4, <2>5
<1>16. ls \in Seq(Names) /\ \A n \in sc.stayed : \E p \in 1..k : ls[p] = n
  BY <1>5 DEF ScanOk
<1>17. ScanOk(new, ls)
  BY ONLY <1>5, <1>8, <1>9, <1>11, <1>13, <1>14, <1>15, <1>16 DEF ScanOk
<1> QED  BY ONLY <1>1, <1>2, <1>7, <1>10, <1>17

\* Somebody removes a name: it need not be seen, and the entries behind it move up.
LEMMA RemovalOk ==
    ASSUME NEW sc, NEW ls, ScanOk(sc, ls), NEW i \in 1..Len(ls)
    PROVE  ScanOk([sc EXCEPT !.stayed = @ \ {ls[i]}, !.removed = @ \/ i <= sc.offset],
                  M!RemoveAt(ls, i))
<1>1. PICK o \in Nat : o = sc.offset
  BY DEF ScanOk
<1>2. PICK seen \in Seq(Names) : seen = sc.seen
  BY DEF ScanOk
<1>3. ls \in Seq(Names)
  BY DEF ScanOk
<1>4. PICK k \in Nat : k = Len(ls)
  BY <1>3
<1>5. PICK r : r = M!RemoveAt(ls, i)
  OBVIOUS
<1>6. /\ r \in Seq(Names) /\ Len(r) = k - 1
      /\ \A p \in 1..(k - 1) : r[p] = IF p < i THEN ls[p] ELSE ls[p + 1]
  <2>1. /\ M!RemoveAt(ls, i) \in Seq(Names)
        /\ Len(M!RemoveAt(ls, i)) = Len(ls) - 1
        /\ \A p \in 1..(Len(ls) - 1) : M!RemoveAt(ls, i)[p] = IF p < i THEN ls[p] ELSE ls[p + 1]
    BY ONLY <1>3, i \in 1..Len(ls), EntryRemoved
  <2> QED  BY ONLY <1>4, <1>5, <2>1
<1>7. PICK m \in Nat : m = Len(seen)
  OBVIOUS
<1>8. /\ \A p, q \in 1..k : ls[p] = ls[q] => p = q
      /\ \A n \in sc.stayed : \E p \in 1..k : ls[p] = n
      /\ \A p \in 1..k : ~sc.removed /\ p <= o /\ ls[p] \in sc.stayed => \E j \in 1..m : seen[j] = ls[p]
      /\ \A p \in 1..k, j \in 1..m : ~sc.inserted /\ p > o /\ ls[p] \in sc.stayed => seen[j] # ls[p]
      /\ \A j, l \in 1..m : ~sc.inserted /\ seen[j] \in sc.stayed /\ seen[j] = seen[l] => j = l
  BY <1>1, <1>2, <1>4, <1>7 DEF ScanOk
<1>9. PICK new : new = [sc EXCEPT !.stayed = @ \ {ls[i]}, !.removed = @ \/ i <= sc.offset]
  OBVIOUS
<1>10. /\ new \in [on : BOOLEAN, offset : Nat, seen : Seq(Names), stayed : SUBSET Names,
                   removed : BOOLEAN, inserted : BOOLEAN]
       /\ new.offset = o /\ new.seen = seen /\ new.stayed = sc.stayed \ {ls[i]}
       /\ ~new.removed => ~sc.removed /\ i > o
       /\ new.inserted = sc.inserted
  <2>1. PICK flag \in BOOLEAN : flag = (sc.removed \/ i <= sc.offset)
    OBVIOUS
  <2>2. sc \in [on : BOOLEAN, offset : Nat, seen : Seq(Names), stayed : SUBSET Names,
                removed : BOOLEAN, inserted : BOOLEAN]
    BY DEF ScanOk
  <2>3. new = [sc EXCEPT !.stayed = sc.stayed \ {ls[i]}, !.removed = flag]
    BY <1>9, <2>1, <2>2
  <2>4. ~flag => ~sc.removed /\ i > o
    <3>1. ~flag => ~(sc.removed \/ i <= sc.offset)
      BY ONLY <2>1, Zenon
    <3>2. ~(i <= sc.offset) => i > o
      BY <1>1, <1>4
    <3> QED  BY ONLY <3>1, <3>2, Zenon
  <2> QED  BY ONLY <1>1, <1>2, <2>1, <2>2, <2>3, <2>4
<1>11. i \in 1..k
  BY <1>4
\* Where the entries come from, and where they go.
<1>12. ASSUME NEW p \in 1..(k - 1)
       PROVE  \E q \in 1..k : r[p] = ls[q] /\ q # i /\ q >= p /\ (q < i => q = p) /\ (q > i => q = p + 1)
  <2>1. CASE p < i
    BY <1>6, <1>11, <2>1
  <2>2. CASE p >= i
    <3>1. p + 1 \in 1..k /\ p + 1 > i
      BY <1>11, <2>2
    <3>2. r[p] = ls[p + 1]
      BY <1>6, <2>2, <1>11
    <3> QED  BY <1>11, <3>1, <3>2
  <2> QED  BY <1>11, <2>1, <2>2
<1>13. ASSUME NEW q \in 1..k, q # i PROVE \E p \in 1..(k - 1) : r[p] = ls[q]
  <2>1. CASE q < i
    <3>1. q \in 1..(k - 1)
      BY <1>11, <2>1
    <3> QED  BY <1>6, <2>1, <3>1
  <2>2. CASE q > i
    <3>1. q - 1 \in 1..(k - 1) /\ ~(q - 1 < i) /\ q - 1 + 1 = q
      BY <1>11, <2>2
    <3>2. r[q - 1] = ls[q]
      BY ONLY <1>6, <3>1
    <3> QED  BY <3>1, <3>2
  <2> QED  BY <1>11, <1>13, <2>1, <2>2
<1>14. \A p, q \in 1..(k - 1) : r[p] = r[q] => p = q
  <2> SUFFICES ASSUME NEW p \in 1..(k - 1), NEW q \in 1..(k - 1), r[p] = r[q] PROVE p = q
    OBVIOUS
  <2>1. PICK a \in 1..k : r[p] = ls[a] /\ a # i /\ (a < i => a = p) /\ (a > i => a = p + 1)
    BY <1>12
  <2>2. PICK b \in 1..k : r[q] = ls[b] /\ b # i /\ (b < i => b = q) /\ (b > i => b = q + 1)
    BY <1>12
  <2>3. a \in 1..k /\ b \in 1..k /\ ls[a] = ls[b]
    BY <2>1, <2>2
  <2>4. a = b
    BY ONLY <1>8, <2>3
  <2> QED  BY <1>11, <2>1, <2>2, <2>4
<1>15. \A n \in sc.stayed \ {ls[i]} : \E p \in 1..(k - 1) : r[p] = n
  <2> SUFFICES ASSUME NEW n \in sc.stayed, n # ls[i] PROVE \E p \in 1..(k - 1) : r[p] = n
    OBVIOUS
  <2>1. PICK q \in 1..k : ls[q] = n
    BY ONLY <1>8, n \in sc.stayed
  <2>2. q # i
    BY <2>1
  <2> QED  BY <1>13, <2>1, <2>2
<1>16. \A p \in 1..(k - 1) : ~sc.removed /\ i > o /\ p <= o /\ r[p] \in sc.stayed \ {ls[i]} =>
          \E j \in 1..m : seen[j] = r[p]
  <2> SUFFICES ASSUME NEW p \in 1..(k - 1), ~sc.removed, i > o, p <= o, r[p] \in sc.stayed
               PROVE  \E j \in 1..m : seen[j] = r[p]
    OBVIOUS
  <2>1. p \in 1..k /\ p < i
    BY <1>11
  <2>2. r[p] = ls[p]
    BY <1>6, <2>1
  <2> QED  BY ONLY <1>8, <2>1, <2>2, ~sc.removed, p <= o, r[p] \in sc.stayed
<1>17. \A p \in 1..(k - 1), j \in 1..m :
          ~sc.inserted /\ p > o /\ r[p] \in sc.stayed \ {ls[i]} => seen[j] # r[p]
  <2> SUFFICES ASSUME NEW p \in 1..(k - 1), NEW j \in 1..m, ~sc.inserted, p > o, r[p] \in sc.stayed
               PROVE  seen[j] # r[p]
    OBVIOUS
  <2>1. PICK q \in 1..k : r[p] = ls[q] /\ q >= p
    BY <1>12
  <2> QED  BY <1>8, <2>1
<1>18. ScanOk(new, r)
  BY ONLY <1>6, <1>7, <1>8, <1>10, <1>14, <1>15, <1>16, <1>17 DEF ScanOk
<1> QED  BY ONLY <1>5, <1>9, <1>18

\* Somebody adds a name: it need not be seen, and the entries behind it move down.
LEMMA InsertionOk ==
    ASSUME NEW sc, NEW ls, ScanOk(sc, ls), NEW i \in 1..(Len(ls) + 1), NEW n \in Names,
           \A p \in 1..Len(ls) : ls[p] # n
    PROVE  ScanOk([sc EXCEPT !.inserted = @ \/ i <= sc.offset], M!InsertAt(ls, i, n))
<1>1. PICK o \in Nat : o = sc.offset
  BY DEF ScanOk
<1>2. PICK seen \in Seq(Names) : seen = sc.seen
  BY DEF ScanOk
<1>3. ls \in Seq(Names)
  BY DEF ScanOk
<1>4. PICK k \in Nat : k = Len(ls)
  BY <1>3
<1>5. PICK r : r = M!InsertAt(ls, i, n)
  OBVIOUS
<1>6. /\ r \in Seq(Names) /\ Len(r) = k + 1
      /\ \A p \in 1..(k + 1) : r[p] = IF p < i THEN ls[p] ELSE IF p = i THEN n ELSE ls[p - 1]
  <2>1. /\ M!InsertAt(ls, i, n) \in Seq(Names)
        /\ Len(M!InsertAt(ls, i, n)) = Len(ls) + 1
        /\ \A p \in 1..(Len(ls) + 1) :
              M!InsertAt(ls, i, n)[p] = IF p < i THEN ls[p] ELSE IF p = i THEN n ELSE ls[p - 1]
    BY ONLY <1>3, i \in 1..(Len(ls) + 1), n \in Names, EntryInserted
  <2> QED  BY ONLY <1>4, <1>5, <2>1
<1>7. PICK m \in Nat : m = Len(seen)
  OBVIOUS
<1>8. /\ \A p, q \in 1..k : ls[p] = ls[q] => p = q
      /\ \A x \in sc.stayed : \E p \in 1..k : ls[p] = x
      /\ \A p \in 1..k : ~sc.removed /\ p <= o /\ ls[p] \in sc.stayed => \E j \in 1..m : seen[j] = ls[p]
      /\ \A p \in 1..k, j \in 1..m : ~sc.inserted /\ p > o /\ ls[p] \in sc.stayed => seen[j] # ls[p]
      /\ \A j, l \in 1..m : ~sc.inserted /\ seen[j] \in sc.stayed /\ seen[j] = seen[l] => j = l
  BY <1>1, <1>2, <1>4, <1>7 DEF ScanOk
<1>9. PICK new : new = [sc EXCEPT !.inserted = @ \/ i <= sc.offset]
  OBVIOUS
<1>10. /\ new \in [on : BOOLEAN, offset : Nat, seen : Seq(Names), stayed : SUBSET Names,
                   removed : BOOLEAN, inserted : BOOLEAN]
       /\ new.offset = o /\ new.seen = seen /\ new.stayed = sc.stayed
       /\ ~new.inserted => ~sc.inserted /\ i > o
       /\ new.removed = sc.removed
  <2>1. PICK flag \in BOOLEAN : flag = (sc.inserted \/ i <= sc.offset)
    OBVIOUS
  <2>2. sc \in [on : BOOLEAN, offset : Nat, seen : Seq(Names), stayed : SUBSET Names,
                removed : BOOLEAN, inserted : BOOLEAN]
    BY DEF ScanOk
  <2>3. new = [sc EXCEPT !.inserted = flag]
    BY <1>9, <2>1, <2>2
  <2>4. ~flag => ~sc.inserted /\ i > o
    <3>1. ~flag => ~(sc.inserted \/ i <= sc.offset)
      BY ONLY <2>1, Zenon
    <3>2. ~(i <= sc.offset) => i > o
      BY <1>1, <1>4
    <3> QED  BY ONLY <3>1, <3>2, Zenon
  <2> QED  BY ONLY <1>1, <1>2, <2>1, <2>2, <2>3, <2>4
<1>11. i \in 1..(k + 1) /\ n \notin sc.stayed /\ \A p \in 1..k : ls[p] # n
  BY <1>4, <1>8
\* Where the entries come from, and where they go.
<1>12. ASSUME NEW p \in 1..(k + 1), p # i
       PROVE  \E q \in 1..k : r[p] = ls[q] /\ q <= p /\ (p < i => q = p) /\ (p > i => q = p - 1)
  <2>1. CASE p < i
    <3>1. p \in 1..k /\ r[p] = ls[p]
      BY <1>6, <1>11, <2>1
    <3> QED  BY <2>1, <3>1, <1>11
  <2>2. CASE p > i
    <3>1. p - 1 \in 1..k
      BY <1>11, <2>2
    <3>2. r[p] = ls[p - 1]
      BY <1>6, <2>2, <1>11
    <3> QED  BY <1>11, <2>2, <3>1, <3>2
  <2> QED  BY <1>11, <1>12, <2>1, <2>2
<1>13. ASSUME NEW q \in 1..k PROVE \E p \in 1..(k + 1) : r[p] = ls[q]
  <2>1. CASE q < i
    <3>1. q \in 1..(k + 1)
      OBVIOUS
    <3> QED  BY <1>6, <2>1, <3>1
  <2>2. CASE q >= i
    <3>1. q + 1 \in 1..(k + 1) /\ ~(q + 1 < i) /\ q + 1 # i /\ q + 1 - 1 = q
      BY <1>11, <2>2
    <3>2. r[q + 1] = ls[q]
      BY ONLY <1>6, <3>1
    <3> QED  BY <3>1, <3>2
  <2> QED  BY <1>11, <2>1, <2>2
<1>14. r[i] = n
  BY <1>6, <1>11
<1>15. \A p, q \in 1..(k + 1) : r[p] = r[q] => p = q
  <2> SUFFICES ASSUME NEW p \in 1..(k + 1), NEW q \in 1..(k + 1), r[p] = r[q] PROVE p = q
    OBVIOUS
  <2>1. CASE p = i \/ q = i
    BY <1>11, <1>12, <1>14, <2>1
  <2>2. CASE p # i /\ q # i
    <3>1. PICK a \in 1..k : r[p] = ls[a] /\ (p < i => a = p) /\ (p > i => a = p - 1)
      BY <1>12, <2>2
    <3>2. PICK b \in 1..k : r[q] = ls[b] /\ (q < i => b = q) /\ (q > i => b = q - 1)
      BY <1>12, <2>2
    <3>3. a \in 1..k /\ b \in 1..k /\ ls[a] = ls[b]
      BY <3>1, <3>2
    <3>4. a = b
      BY ONLY <1>8, <3>3
    <3> QED  BY <1>11, <2>2, <3>1, <3>2, <3>4
  <2> QED  BY <2>1, <2>2
<1>16. \A x \in sc.stayed : \E p \in 1..(k + 1) : r[p] = x
  BY <1>8, <1>13
<1>17. \A p \in 1..(k + 1) :
          ~sc.removed /\ p <= o /\ r[p] \in sc.stayed => \E j \in 1..m : seen[j] = r[p]
  <2> SUFFICES ASSUME NEW p \in 1..(k + 1), ~sc.removed, p <= o, r[p] \in sc.stayed
               PROVE  \E j \in 1..m : seen[j] = r[p]
    OBVIOUS
  <2>1. PICK q \in 1..k : r[p] = ls[q] /\ q <= p
    BY <1>11, <1>12, <1>14
  <2> QED  BY <1>8, <2>1
<1>18. \A p \in 1..(k + 1), j \in 1..m :
          ~sc.inserted /\ i > o /\ p > o /\ r[p] \in sc.stayed => seen[j] # r[p]
  <2> SUFFICES ASSUME NEW p \in 1..(k + 1), NEW j \in 1..m, ~sc.inserted, i > o, p > o,
                      r[p] \in sc.stayed
               PROVE  seen[j] # r[p]
    OBVIOUS
  <2>1. PICK q \in 1..k : r[p] = ls[q] /\ p # i /\ (p < i => q = p) /\ (p > i => q = p - 1)
    BY <1>11, <1>12, <1>14
  <2>2. q > o
    BY <1>11, <2>1
  <2> QED  BY <1>8, <2>1, <2>2
<1>19. ScanOk(new, r)
  BY ONLY <1>6, <1>7, <1>8, <1>10, <1>15, <1>16, <1>17, <1>18 DEF ScanOk
<1> QED  BY ONLY <1>5, <1>9, <1>19

ScanInv == ScanOk(scan, listing)

\* The inductive step for the scan: only its own pages and changes of the
\* directory touch it.
LEMMA ScanStep == ASSUME ScanInv, [Next]_vars PROVE ScanInv'
<1>1. CASE UNCHANGED <<scan, listing>>
  BY <1>1 DEF ScanInv
<1>2. CASE M!ScanOver
  BY <1>2, NoScanOk DEF ScanInv, M!ScanOver
<1>3. CASE M!BeginScan
  <2>1. PICK names \in SUBSET Names : /\ listing' = M!SetToSeq(names)
                                      /\ scan' = [M!NoScan EXCEPT !.on = TRUE, !.stayed = names]
    BY <1>3 DEF M!BeginScan
  <2> QED  BY ONLY <2>1, ScanBegins DEF ScanInv
<1>4. CASE M!ReadPage
  <2>1. PICK last \in (scan.offset + 1)..Len(listing) :
            /\ listing' = listing
            /\ scan' = [scan EXCEPT !.offset = last,
                                    !.seen = @ \o SubSeq(listing, scan.offset + 1, last)]
    BY <1>4 DEF M!ReadPage, M!NextOffset
  <2> QED  BY <2>1, PageOk DEF ScanInv
<1>5. CASE M!NameRemoved
  <2>1. PICK i \in DOMAIN listing :
            /\ listing' = M!RemoveAt(listing, i)
            /\ scan' = [scan EXCEPT !.stayed = @ \ {listing[i]}, !.removed = @ \/ i <= scan.offset]
    BY <1>5 DEF M!NameRemoved
  <2>2. i \in 1..Len(listing)
    BY DEF ScanInv, ScanOk
  <2> QED  BY <2>1, <2>2, RemovalOk DEF ScanInv
<1>6. CASE M!NameAdded
  <2>1. PICK n \in Names \ M!Range(listing), i \in 1..(Len(listing) + 1) :
            /\ listing' = M!InsertAt(listing, i, n)
            /\ scan' = [scan EXCEPT !.inserted = @ \/ i <= scan.offset]
    BY <1>6 DEF M!NameAdded
  <2>2. \A p \in 1..Len(listing) : listing[p] # n
    BY DEF ScanInv, ScanOk, M!Range
  <2> QED  BY <2>1, <2>2, InsertionOk DEF ScanInv
<1>7. CASE Invoke \/ Configure \/ BuildOptions \/ SkipConnection \/ Connecting \/ UNCHANGED vars
  BY <1>1, <1>7 DEF Invoke, Configure, BuildOptions, SkipConnection, Connecting, mountVars, vars
<1>8. CASE Mounting
  BY <1>1, <1>2, <1>8 DEF Mounting, M!MainThread, M!CheckMountpoint, M!SpawnMount, M!SetHandler,
       M!SetHandlerFails, M!WaitLoop, M!Decide, M!Unmount, M!UnmountFails, M!Join, M!JoinFails,
       M!ProcessExits, M!DropSession, M!EndProcess, M!ServiceOver, M!mountVars
<1>9. CASE Serving
  BY <1>1, <1>2, <1>3, <1>4, <1>9 DEF Serving, M!Serving, M!SessionEnds, M!SessionBreaks, M!ServiceOver, M!StatAnswered,
       M!PageArrives, M!PageFails, M!CallArrives,
       M!WriteArrives, M!OpenArrives, M!CreateArrives, M!ReadArrives, M!Arrives, M!CallAnswered,
       M!OpenAnswered, M!ReadAnswered, M!Opendir, M!FlushAndRelease, M!EndScan
<1>10. CASE Signalled
  BY <1>1, <1>2, <1>10 DEF Signalled, M!Interrupt, M!Terminate, M!Die, M!EndProcess, M!ServiceOver
<1>11. CASE Outside
  BY <1>1, <1>5, <1>6, <1>11 DEF Outside, M!World, M!ExternalUnmount
<1> QED
  BY <1>7, <1>8, <1>9, <1>10, <1>11 DEF Next

\* readdir by pages: whatever is added to and removed from a directory while it is
\* read, a name that is there all the time is seen, unless an entry before the
\* kernel's index went away, and seen once, unless one came to lie there.
THEOREM ScanFaithfulInvariant == Spec => []ScanFaithful
<1>1. Init => ScanInv
  BY NoScanOk DEF Init, ScanInv
<1>2. ScanInv /\ [Next]_vars => ScanInv'
  BY ScanStep
<1>3. ScanInv => ScanFaithful
  <2> SUFFICES ASSUME ScanInv, scan.on, scan.offset >= Len(listing), NEW n \in scan.stayed
               PROVE  LET times == M!Cardinality({i \in DOMAIN scan.seen : scan.seen[i] = n})
                      IN  (~scan.removed => times >= 1) /\ (~scan.inserted => times <= 1)
    BY DEF ScanFaithful, M!ScanFaithful
  <2>1. PICK places : places = {i \in DOMAIN scan.seen : scan.seen[i] = n}
    OBVIOUS
  <2>2. places \subseteq 1..Len(scan.seen) /\ Len(scan.seen) \in Nat
    BY <2>1 DEF ScanInv, ScanOk
  <2>3. IsFiniteSet(places)
    <3>1. PICK m \in Nat : m = Len(scan.seen)
      BY <2>2
    <3>2. IsFiniteSet(1..m)
      BY FS_Interval
    <3> QED  BY <2>2, <3>1, <3>2, FS_Subset
  <2>4. ~scan.removed => places # {}
    <3>1. PICK p \in 1..Len(listing) : listing[p] = n
      BY DEF ScanInv, ScanOk
    <3>2. p <= scan.offset
      BY DEF ScanInv, ScanOk
    <3>3. ~scan.removed => \E i \in 1..Len(scan.seen) : scan.seen[i] = n
      BY <3>1, <3>2 DEF ScanInv, ScanOk
    <3> QED  BY <2>1, <3>3 DEF ScanInv, ScanOk
  <2>5. ~scan.inserted => \A i, j \in places : i = j
    BY <2>1, <2>2 DEF ScanInv, ScanOk
  <2>6. Cardinality(places) \in Nat
    BY <2>3, FS_CardinalityType
  <2>7. ~scan.removed => Cardinality(places) >= 1
    BY <2>3, <2>4, <2>6, FS_EmptySet
  <2>8. ~scan.inserted => Cardinality(places) <= 1
    <3>1. CASE places = {}
      BY <3>1, FS_EmptySet
    <3>2. CASE places # {} /\ \A i, j \in places : i = j
      <4>1. PICK i : i \in places
        BY <3>2
      <4>2. places = {i}
        BY <3>2, <4>1
      <4> QED  BY <4>2, FS_Singleton
    <3> QED  BY <2>5, <3>1, <3>2
  <2> QED  BY <2>1, <2>7, <2>8, SameCardinality
<1> QED  BY <1>1, <1>2, <1>3, PTL DEF Spec

-----------------------------------------------------------------------------
(* Reads.                                                                  *)

\* A read that is served is one a user made.
ReadInv == request.kind \in {"stat", "read"} => request.range \in ReadRanges

\* The inductive step for reads.
LEMMA ReadStep == ASSUME ReadInv, [Next]_vars PROVE ReadInv'
<1>1. request' = request => ReadInv'
  BY DEF ReadInv
<1>2. request' = M!NoRequest => ReadInv'
  BY DEF ReadInv, M!NoRequest
<1>3. CASE UNCHANGED vars
  BY <1>1, <1>3 DEF vars, mountVars
<1>4. CASE Invoke \/ Configure \/ BuildOptions \/ SkipConnection \/ Connecting
  BY <1>1, <1>4 DEF Invoke, Configure, BuildOptions, SkipConnection, Connecting, mountVars
<1>5. CASE Mounting
  BY <1>1, <1>2, <1>5 DEF Mounting, M!MainThread, M!CheckMountpoint, M!SpawnMount, M!SetHandler,
     M!SetHandlerFails, M!WaitLoop, M!Decide, M!Unmount, M!UnmountFails, M!Join, M!JoinFails,
     M!ProcessExits, M!DropSession, M!EndProcess, M!ServiceOver, M!mountVars
<1>6. CASE Serving
  <2>1. CASE M!ReadArrives
    BY <2>1 DEF M!ReadArrives, M!Arrives, ReadInv
  <2>2. CASE M!CallArrives \/ M!WriteArrives \/ M!OpenArrives \/ M!CreateArrives \/ M!PageArrives
    BY <2>2 DEF M!CallArrives, M!WriteArrives, M!OpenArrives, M!CreateArrives, M!PageArrives,
       M!Arrives, ReadInv
  <2>3. CASE M!CallAnswered \/ M!OpenAnswered \/ M!ReadAnswered \/ M!ReadPage \/ M!EndScan \/ M!PageFails
    BY <1>2, <2>3 DEF M!CallAnswered, M!OpenAnswered, M!ReadAnswered, M!ReadPage, M!EndScan, M!PageFails
  <2>4. CASE M!SessionEnds \/ M!SessionBreaks \/ M!Opendir \/ M!FlushAndRelease
    BY <1>1, <1>2, <2>4 DEF M!SessionEnds, M!SessionBreaks, M!ServiceOver, M!Opendir, M!FlushAndRelease
  <2>5. CASE M!StatAnswered
    <3>1. CASE request' = [request EXCEPT !.kind = "read"]
      <4>1. request'.range = request.range
        BY <3>1
      <4>2. request.range \in ReadRanges
        BY <2>5 DEF M!StatAnswered, ReadInv
      <4> QED  BY <4>1, <4>2 DEF ReadInv
    <3> QED  BY <1>2, <2>5, <3>1 DEF M!StatAnswered
  <2>6. CASE M!BeginScan
    <3>1. request' = [M!NoRequest EXCEPT !.kind = "page"]
      BY <2>6 DEF M!BeginScan
    <3>2. request'.kind = "page"
      BY <3>1 DEF M!NoRequest
    <3> QED  BY <3>2 DEF ReadInv
  <2> QED  BY <1>6, <2>1, <2>2, <2>3, <2>4, <2>5, <2>6 DEF Serving, M!Serving
<1>7. CASE Signalled
  BY <1>1, <1>2, <1>7 DEF Signalled, M!Interrupt, M!Terminate, M!Die, M!EndProcess, M!ServiceOver
<1>8. CASE Outside
  BY <1>1, <1>8 DEF Outside, M!World, M!ExternalUnmount, M!NameRemoved, M!NameAdded
<1> QED  BY <1>3, <1>4, <1>5, <1>6, <1>7, <1>8 DEF Next

\* The mount's read is the one of ReadProofs.
LEMMA SameRead ==
    ASSUME NEW file, NEW size, NEW csize, NEW offset, NEW len, NEW has
    PROVE  /\ M!ReadRange(file, size, csize, offset, len, has)
                = ReadRange(file, size, csize, offset, len, has)
           /\ M!Least(size, len) = Least(size, len)
BY DEF M!ReadRange, M!Piece, M!FetchedObject, M!ReadObject, M!Least, M!Greatest, M!FirstChunk,
       M!LastChunk, M!FlattenSeq, ReadRange, Piece, FetchedObject, ReadObject, Least, Greatest,
       FirstChunk, LastChunk, FlattenSeq

\* In the file whose bytes are their positions, the bytes that are selected are
\* those that their chunks have, in their order.
LEMMA SelectedPositions ==
    ASSUME NEW n \in Nat, NEW file, file = [i \in 1..n |-> i], NEW bytes, NEW pos,
           NEW offset, NEW x, NEW csize, NEW has,
           Len(bytes) \in Nat, Selects(bytes, pos, file, offset, x, csize, has)
    PROVE  /\ \A i, j \in 1..Len(bytes) : i < j => bytes[i] < bytes[j]
           /\ \A p \in 1..n : (\E i \in 1..Len(bytes) : bytes[i] = p) <=> Had(p, offset, x, csize, has)
<1>1. PICK m \in Nat : m = Len(bytes)
  OBVIOUS
<1>2. Len(file) = n
  OBVIOUS
<1>3. /\ pos \in [1..m -> 1..n]
      /\ \A i \in 1..m : bytes[i] = file[pos[i]] /\ Had(pos[i], offset, x, csize, has)
      /\ \A i, j \in 1..m : i < j => pos[i] < pos[j]
      /\ \A p \in 1..n : Had(p, offset, x, csize, has) => \E i \in 1..m : pos[i] = p
  BY <1>1, <1>2 DEF Selects
<1>4. \A i \in 1..m : bytes[i] = pos[i] /\ pos[i] \in 1..n
  BY <1>3
<1>5. \A i, j \in 1..m : i < j => bytes[i] < bytes[j]
  BY ONLY <1>3, <1>4
<1>6. ASSUME NEW p \in 1..n PROVE (\E i \in 1..m : bytes[i] = p) <=> Had(p, offset, x, csize, has)
  <2>1. ASSUME NEW i \in 1..m, bytes[i] = p PROVE Had(p, offset, x, csize, has)
    <3>1. pos[i] = p
      BY ONLY <1>4, <2>1
    <3>2. Had(pos[i], offset, x, csize, has)
      BY ONLY <1>3, <2>1
    <3> QED  BY ONLY <3>1, <3>2
  <2>2. ASSUME Had(p, offset, x, csize, has) PROVE \E i \in 1..m : bytes[i] = p
    <3>1. PICK i \in 1..m : pos[i] = p
      BY ONLY <1>3, <1>6, <2>2
    <3> QED  BY ONLY <1>4, <3>1
  <2> QED  BY ONLY <2>1, <2>2
<1> QED  BY ONLY <1>1, <1>5, <1>6

\* What ReadAssembled says of one read.
AssembledAs(bytes, offset, end, csize, has) ==
    /\ \A i, j \in 1..Len(bytes) : i < j => bytes[i] < bytes[j]
    /\ \A p \in 1..FileLen :
          (\E i \in 1..Len(bytes) : bytes[i] = p)
            <=> offset < p /\ p <= end /\ p <= has[(p - 1) \div csize]

\* Every read a user makes is assembled rightly.
LEMMA ReadAssembles == ASSUME ReadInv PROVE ReadAssembled
<1> SUFFICES ASSUME request.kind = "read" PROVE ReadAssembled
  BY DEF ReadAssembled, M!ReadAssembled
<1>1. PICK offset : offset = request.range[1]
  OBVIOUS
<1>2. PICK len : len = request.range[2]
  OBVIOUS
<1>3. FileLen \in Nat /\ offset \in Nat /\ len \in Nat
  BY <1>1, <1>2, ReadAssumption DEF ReadInv
<1>4. PICK file : file = [i \in 1..FileLen |-> i]
  OBVIOUS
<1>5. file \in Seq(Nat) /\ Len(file) = FileLen
  BY <1>3, <1>4
<1>6. PICK end : end = M!Least(offset + len, FileLen)
  OBVIOUS
<1>7. ASSUME NEW csize \in 1..(FileLen + 1), NEW has \in [0..(FileLen \div csize) -> 0..FileLen],
             NEW bytes, bytes = M!ReadRange(file, FileLen, csize, offset, len, has)
      PROVE  AssembledAs(bytes, offset, end, csize, has)
  <2>1. csize \in Nat /\ csize > 0
    BY <1>3
  <2>2. bytes = ReadRange(file, FileLen, csize, offset, len, has)
    BY <1>7, SameRead
  <2>3. end = Least(offset + len, FileLen)
    BY <1>6, SameRead
  <2>4. /\ ReadRange(file, FileLen, csize, offset, len, has) \in Seq(Nat)
        /\ IsRead(ReadRange(file, FileLen, csize, offset, len, has), file, offset,
                  Least(offset + len, FileLen), csize, has)
    BY ONLY <1>3, <1>5, <1>7, <2>1, ReadsTheRange
  <2>5. PICK pos : Selects(bytes, pos, file, offset, end, csize, has)
    BY ONLY <2>2, <2>3, <2>4 DEF IsRead
  <2>6. Len(bytes) \in Nat
    BY ONLY <2>2, <2>4
  <2>7. /\ \A i, j \in 1..Len(bytes) : i < j => bytes[i] < bytes[j]
        /\ \A p \in 1..FileLen :
              (\E i \in 1..Len(bytes) : bytes[i] = p) <=> Had(p, offset, end, csize, has)
    BY ONLY <1>3, <1>4, <2>5, <2>6, SelectedPositions
  <2> QED  BY ONLY <2>7 DEF Had, AssembledAs
<1>8. \A csize \in 1..(FileLen + 1) : \A has \in [0..(FileLen \div csize) -> 0..FileLen] :
         AssembledAs(M!ReadRange(file, FileLen, csize, offset, len, has), offset, end, csize, has)
  BY ONLY <1>7
<1>9. \A csize \in 1..(FileLen + 1) : \A has \in [0..(FileLen \div csize) -> 0..FileLen] :
         AssembledAs(M!ReadRange([i \in 1..FileLen |-> i], FileLen, csize, request.range[1],
                                 request.range[2], has),
                     request.range[1], M!Least(request.range[1] + request.range[2], FileLen),
                     csize, has)
  BY ONLY <1>1, <1>2, <1>4, <1>6, <1>8
<1> QED  BY ONLY <1>9, Zenon DEF ReadAssembled, M!ReadAssembled, AssembledAs

\* read of LinuxMount, through Store::read: for every length of the file, range and
\* chunk size, and whatever part of the file each chunk has, a read returns those
\* bytes of the range that its chunks have, once each and in their order.
THEOREM ReadAssembledInvariant == Spec => []ReadAssembled
<1>1. Init => ReadInv
  BY DEF Init, ReadInv, M!NoRequest
<1>2. ReadInv /\ [Next]_vars => ReadInv'
  BY ReadStep
<1>3. ReadInv => ReadAssembled
  BY ReadAssembles
<1> QED  BY <1>1, <1>2, <1>3, PTL DEF Spec

-----------------------------------------------------------------------------
(* Authentication.                                                         *)

\* A value is somewhere in a sequence.
Holds(s, v) == \E p \in 1..Len(s) : s[p] = v

\* Every element of a sequence that is flattened is somewhere in the result.
LEMMA FlatHolds ==
    ASSUME NEW T, NEW n \in Nat, NEW seqs \in [1..n -> Seq(T)],
           NEW at \in 1..n, NEW v \in T, seqs[at] = <<v>>
    PROVE  Holds(FlattenSeq(seqs), v)
<1>1. PICK f : JoinsOf(f, seqs, n, T) /\ FlattenSeq(seqs) = f[n]
  BY Flattened
<1>2. /\ f \in [0..n -> Seq(T)]
      /\ \A i \in 1..n : f[i] = f[i - 1] \o seqs[i]
  BY <1>1 DEF JoinsOf
<1> DEFINE R == {k \in Nat : at <= k /\ k <= n => Holds(f[k], v)}
<1>3. 0 \in R
  OBVIOUS
<1>4. ASSUME NEW k \in Nat, k \in R PROVE k + 1 \in R
  <2> SUFFICES ASSUME NEW i \in 1..n, i = k + 1, at <= i PROVE Holds(f[i], v)
    OBVIOUS
  <2>1. PICK a \in Seq(T) : a = f[k]
    BY <1>2
  <2>2. PICK b \in Seq(T) : b = seqs[i]
    OBVIOUS
  <2>3. PICK c : c = f[i]
    OBVIOUS
  <2>4. c = a \o b
    <3>1. i - 1 = k
      OBVIOUS
    <3> QED  BY <1>2, <2>1, <2>2, <2>3, <3>1
  <2>5. Holds(c, v)
    <3>1. CASE i = at
      <4>1. Len(c) = Len(a) + 1 /\ c[Len(a) + 1] = v /\ Len(a) \in Nat
        <5>1. b = <<v>> /\ a \in Seq(T) /\ v \in T /\ b \in Seq(T)
          BY <2>2, <3>1
        <5>2. Len(b) = 1 /\ b[1] = v
          BY ONLY <5>1
        <5>3. Len(a \o b) = Len(a) + Len(b) /\ \A p \in 1..Len(b) : (a \o b)[Len(a) + p] = b[p]
          BY ONLY <5>1, Joined
        <5> QED  BY <2>4, <5>1, <5>2, <5>3
      <4>2. Len(a) + 1 \in 1..Len(c)
        BY <4>1
      <4> QED  BY <4>1, <4>2 DEF Holds
    <3>2. CASE i # at
      <4>1. PICK p \in 1..Len(a) : a[p] = v
        BY <1>4, <2>1, <3>2 DEF Holds
      <4>2. p \in 1..Len(c) /\ c[p] = v
        BY <2>4, <4>1
      <4> QED  BY <4>2 DEF Holds
    <3> QED  BY <3>1, <3>2
  <2> QED  BY ONLY <2>3, <2>5
<1>5. n \in R
  <2> HIDE DEF R
  <2> QED  BY <1>3, <1>4, Induct
<1>6. Holds(f[n], v)
  BY <1>5
<1> QED  BY ONLY <1>1, <1>6

\* What the ssh config gives.
HostConfig == [hostname : OptionText, user : OptionText, port : OptionText, identityFiles : Seq(Text)]
Accumulated == [active : BOOLEAN, found : HostConfig]

\* The body of resolve's loop gives what the loop needs.
LEMMA ResolveLineTyped ==
    ASSUME NEW acc \in Accumulated, NEW line \in ConfigLine, NEW alias
    PROVE  ResolveLine(acc, line, alias) \in Accumulated
<1>1. HostPatternsMatch(line.patterns, alias) \in BOOLEAN
  BY DEF HostPatternsMatch
<1>2. PICK m \in BOOLEAN : m = HostPatternsMatch(line.patterns, alias)
  BY <1>1
<1>3. \A old \in OptionText : (IF old = None THEN line.value ELSE old) \in OptionText
  BY DEF ConfigLine, OptionText
<1>4. Append(acc.found.identityFiles, line.value) \in Seq(Text)
  BY DEF Accumulated, HostConfig, ConfigLine
<1> QED  BY <1>2, <1>3, <1>4 DEF ResolveLine, Accumulated, HostConfig

\* Before the first line.
NothingFound == [active |-> TRUE, found |-> NoConfig]

\* resolve's loop over n lines.
LinesUpTo(f, config0, alias, n) ==
    f = [i \in 0..n |-> IF i = 0 THEN NothingFound
                                 ELSE ResolveLine(f[i - 1], config0[i], alias)]

\* It ends.
LEMMA LinesExist ==
    ASSUME NEW config0, NEW alias, NEW n \in Nat
    PROVE  \E f : LinesUpTo(f, config0, alias, n)
<1> DEFINE T == {k \in Nat : \E f : LinesUpTo(f, config0, alias, k)}
<1>1. 0 \in T
  <2>1. PICK f : f = [i \in 0..0 |-> NothingFound]
    OBVIOUS
  <2>2. LinesUpTo(f, config0, alias, 0)
    BY <2>1 DEF LinesUpTo
  <2> QED  BY <2>2
<1>2. ASSUME NEW k \in Nat, k \in T PROVE k + 1 \in T
  <2>1. PICK f : LinesUpTo(f, config0, alias, k)
    BY <1>2
  <2>2. PICK g : g = [i \in 0..(k + 1) |-> IF i <= k THEN f[i]
                                           ELSE ResolveLine(f[i - 1], config0[i], alias)]
    OBVIOUS
  <2>3. ASSUME NEW i \in 0..(k + 1)
        PROVE  g[i] = IF i = 0 THEN NothingFound
                               ELSE ResolveLine(g[i - 1], config0[i], alias)
    <3>1. CASE i <= k
      <4>1. i \in 0..k /\ (i # 0 => i - 1 \in 0..(k + 1) /\ i - 1 <= k)
        BY <3>1
      <4>2. f[i] = IF i = 0 THEN NothingFound
                            ELSE ResolveLine(f[i - 1], config0[i], alias)
        BY <2>1, <4>1 DEF LinesUpTo
      <4>3. g[i] = f[i] /\ (i # 0 => g[i - 1] = f[i - 1])
        BY <2>2, <3>1, <4>1
      <4> QED  BY <4>2, <4>3
    <3>2. CASE i > k
      <4>1. i # 0 /\ i - 1 \in 0..(k + 1) /\ i - 1 <= k
        BY <3>2
      <4>2. g[i - 1] = f[i - 1] /\ g[i] = ResolveLine(f[i - 1], config0[i], alias)
        BY <2>2, <3>2, <4>1
      <4> QED  BY <4>1, <4>2
    <3> QED  BY <3>1, <3>2
  <2>4. LinesUpTo(g, config0, alias, k + 1)
    BY <2>2, <2>3 DEF LinesUpTo
  <2> QED  BY <2>4
<1>3. \A k \in Nat : k \in T
  <2> HIDE DEF T
  <2> QED  BY <1>1, <1>2, Induct
<1> QED  BY <1>3

\* resolve finds a host's configuration.
LEMMA ResolveTyped ==
    ASSUME NEW lines \in Seq(ConfigLine), NEW alias
    PROVE  Resolve(lines, alias) \in HostConfig
<1>1. PICK n \in Nat : n = Len(lines)
  OBVIOUS
<1>2. PICK f : f = CHOOSE g : LinesUpTo(g, lines, alias, n)
  OBVIOUS
<1>3. LinesUpTo(f, lines, alias, n)
  BY <1>2, LinesExist
<1>4. Resolve(lines, alias) = f[n].found
  BY <1>1, <1>2 DEF Resolve, LinesUpTo, NothingFound
<1>5. \A i \in 1..n : f[i] = ResolveLine(f[i - 1], lines[i], alias)
  BY <1>3 DEF LinesUpTo
<1> DEFINE R == {k \in Nat : k <= n => f[k] \in Accumulated}
<1>6. 0 \in R
  <2>1. NoConfig \in HostConfig
    BY DEF NoConfig, HostConfig, OptionText
  <2>3. NothingFound \in Accumulated
    BY <2>1 DEF Accumulated, NothingFound
  <2>4. f[0] = NothingFound
    BY <1>3 DEF LinesUpTo
  <2> QED  BY <2>3, <2>4
<1>7. ASSUME NEW k \in Nat, k \in R PROVE k + 1 \in R
  <2> SUFFICES ASSUME k + 1 <= n PROVE f[k + 1] \in Accumulated
    OBVIOUS
  <2>1. PICK i \in 1..n : i = k + 1
    OBVIOUS
  <2>2. i - 1 = k /\ lines[i] \in ConfigLine
    BY <1>1, <2>1
  <2>3. f[k] \in Accumulated
    BY <1>7
  <2>4. f[i] = ResolveLine(f[k], lines[i], alias)
    BY <1>5, <2>2
  <2>5. f[i] \in Accumulated
    BY ONLY <2>2, <2>3, <2>4, ResolveLineTyped
  <2> QED  BY <2>1, <2>5
<1>8. f[n] \in Accumulated
  <2> HIDE DEF R
  <2>1. n \in R
    BY <1>6, <1>7, Induct
  <2> QED  BY <2>1 DEF R
<1> QED  BY <1>4, <1>8 DEF Accumulated

\* connect_options gives a list of identity files.
LEMMA OptionsTyped ==
    ASSUME LoginTyped(cli), ConnectOptions(cli, Env, Env.file, config.target).ok
    PROVE  ConnectOptions(cli, Env, Env.file, config.target).value.identityFiles \in Seq(Text)
<1>1. PICK found : found = ResolveSshConfig(cli, Env, Env.file, SplitUser(config.target).host)
  OBVIOUS
<1>2. \A alias : Resolve(Env.file.lines, alias) \in HostConfig
  BY ResolveTyped DEF LoginTyped, Env
<1>3. NoConfig \in HostConfig
  BY DEF NoConfig, HostConfig, OptionText
<1>4. found.ok => found.value \in HostConfig
  BY <1>1, <1>2, <1>3 DEF ResolveSshConfig, Ok, Err
<1>5. found.ok
  BY <1>1 DEF ConnectOptions, Err
<1>6. ConnectOptions(cli, Env, Env.file, config.target).value.identityFiles
        = DefaultIdentities(Env) \o cli.identityFile \o found.value.identityFiles
  BY <1>1 DEF ConnectOptions, Ok, Err
<1>7. DefaultIdentities(Env) \in Seq(Text) /\ cli.identityFile \in Seq(Text)
  BY LoginAssumption DEF DefaultIdentities, LoginTyped
<1>8. found.value.identityFiles \in Seq(Text)
  BY <1>4, <1>5 DEF HostConfig
<1>9. DefaultIdentities(Env) \o cli.identityFile \o found.value.identityFiles \in Seq(Text)
  BY ONLY <1>7, <1>8
<1> QED  BY ONLY <1>6, <1>9

\* Flattening gives a sequence.
LEMMA FlatTyped ==
    ASSUME NEW T, NEW n \in Nat, NEW seqs \in [1..n -> Seq(T)]
    PROVE  FlattenSeq(seqs) \in Seq(T)
<1>1. PICK f : JoinsOf(f, seqs, n, T) /\ FlattenSeq(seqs) = f[n]
  BY Flattened
<1> QED  BY <1>1 DEF JoinsOf

\* The agent's plain keys are all tried.
LEMMA PlainHolds ==
    ASSUME NEW agent \in Seq(AgentKey)
    PROVE  /\ S!PlainKeys(agent) \in Seq(Text)
           /\ \A i \in DOMAIN agent : ~agent[i].certificate =>
                 Holds(S!PlainKeys(agent), agent[i].key)
<1>1. PICK n \in Nat : n = Len(agent)
  OBVIOUS
<1>2. PICK seqs : seqs = [i \in 1..n |-> IF agent[i].certificate THEN <<>> ELSE <<agent[i].key>>]
  OBVIOUS
<1>3. DOMAIN agent = 1..n /\ \A i \in 1..n : agent[i].key \in Text
  <2>1. DOMAIN agent = 1..n /\ \A i \in 1..n : agent[i] \in AgentKey
    BY <1>1
  <2>2. \A a \in AgentKey : a.key \in Text
    BY DEF AgentKey
  <2> QED  BY ONLY <2>1, <2>2
<1>4. seqs \in [1..n -> Seq(Text)]
  BY <1>2, <1>3
<1>5. S!PlainKeys(agent) = FlattenSeq(seqs)
  BY <1>2, <1>3 DEF S!PlainKeys, S!FlattenSeq, FlattenSeq
<1>6. FlattenSeq(seqs) \in Seq(Text)
  BY ONLY <1>1, <1>4, FlatTyped
<1>7. ASSUME NEW i \in 1..n, ~agent[i].certificate
      PROVE  Holds(FlattenSeq(seqs), agent[i].key)
  <2>1. PICK v \in Text : v = agent[i].key
    BY <1>3
  <2>2. seqs[i] = <<v>>
    BY <1>2, <1>7, <2>1
  <2>3. Holds(FlattenSeq(seqs), v)
    BY <1>4, <2>2, FlatHolds
  <2> QED  BY ONLY <2>1, <2>3
<1> QED  BY ONLY <1>3, <1>5, <1>6, <1>7

\* The identity files that can be loaded are all tried.
LEMMA LoadedHolds ==
    ASSUME NEW files \in Seq(Text)
    PROVE  /\ S!LoadedFiles(files) \in Seq(Text)
           /\ \A i \in DOMAIN files : files[i] \in world.usable =>
                 Holds(S!LoadedFiles(files), files[i])
<1>1. PICK n \in Nat : n = Len(files)
  OBVIOUS
<1>2. PICK seqs : seqs = [i \in 1..n |-> IF files[i] \in world.usable THEN <<files[i]>> ELSE <<>>]
  OBVIOUS
<1>3. DOMAIN files = 1..n /\ \A i \in 1..n : files[i] \in Text
  BY <1>1
<1>4. seqs \in [1..n -> Seq(Text)]
  BY <1>2, <1>3
<1>5. S!LoadedFiles(files) = FlattenSeq(seqs)
  BY <1>2, <1>3 DEF S!LoadedFiles, S!FlattenSeq, FlattenSeq
<1>6. FlattenSeq(seqs) \in Seq(Text)
  BY ONLY <1>1, <1>4, FlatTyped
<1>7. ASSUME NEW i \in 1..n, files[i] \in world.usable
      PROVE  Holds(FlattenSeq(seqs), files[i])
  <2>1. PICK v \in Text : v = files[i]
    BY <1>3
  <2>2. seqs[i] = <<v>>
    BY <1>2, <1>7, <2>1
  <2>3. Holds(FlattenSeq(seqs), v)
    BY <1>4, <2>2, FlatHolds
  <2> QED  BY ONLY <2>1, <2>3
<1> QED  BY ONLY <1>3, <1>5, <1>6, <1>7

\* Counting inside Session is counting.
LEMMA SameCount == ASSUME NEW S0 PROVE S!Cardinality(S0) = Cardinality(S0)
BY DEF S!Cardinality, Cardinality

\* What becomes of a key that does not get the user in.
Outcomes == {"refused", "unsigned", "lost"}

\* Those before the i-th that the server refused.
Refused(out, i) == {j \in 1..(i - 1) : out[j] = "refused"}

\* One outcome more.
IsAdded(new, out, n, x) ==
    /\ new \in Seq(Outcomes) /\ Len(new) = n + 1
    /\ new[n + 1] = x /\ \A i \in 1..n : new[i] = out[i]
    /\ \A i \in 1..(n + 1) : Refused(new, i) = Refused(out, i)
    /\ Refused(new, n + 2) = IF x = "refused" THEN Refused(out, n + 1) \cup {n + 1}
                                              ELSE Refused(out, n + 1)

LEMMA OutcomeAdded ==
    ASSUME NEW out \in Seq(Outcomes), NEW n \in Nat, n = Len(out), NEW x \in Outcomes,
           NEW new, new = Append(out, x)
    PROVE  IsAdded(new, out, n, x)
<1>1. new \in Seq(Outcomes) /\ Len(new) = n + 1 /\ new[n + 1] = x /\ \A i \in 1..n : new[i] = out[i]
  OBVIOUS
<1>2. ASSUME NEW i \in 1..(n + 1) PROVE Refused(new, i) = Refused(out, i)
  <2>1. \A j \in 1..(i - 1) : j \in 1..n
    OBVIOUS
  <2> QED  BY <1>1, <2>1 DEF Refused
<1>3. Refused(new, n + 2) = {j \in 1..(n + 1) : new[j] = "refused"}
  <2>1. (n + 2) - 1 = n + 1
    OBVIOUS
  <2> QED  BY <2>1 DEF Refused
<1>4. Refused(out, n + 1) = {j \in 1..n : out[j] = "refused"}
  <2>1. (n + 1) - 1 = n
    OBVIOUS
  <2> QED  BY <2>1 DEF Refused
<1>5. \A j : j \in 1..(n + 1) <=> j \in 1..n \/ j = n + 1
  OBVIOUS
<1>6. Refused(new, n + 2) = IF x = "refused" THEN Refused(out, n + 1) \cup {n + 1}
                                             ELSE Refused(out, n + 1)
  BY ONLY <1>1, <1>3, <1>4, <1>5
<1> QED  BY ONLY <1>1, <1>2, <1>6 DEF IsAdded

\* How many were refused.
LEMMA RefusedCount ==
    ASSUME NEW out, NEW n \in Nat
    PROVE  /\ Cardinality(Refused(out, n + 1)) \in Nat
           /\ Cardinality(Refused(out, n + 1) \cup {n + 1}) = Cardinality(Refused(out, n + 1)) + 1
<1>1. Refused(out, n + 1) \subseteq 1..n /\ n + 1 \notin Refused(out, n + 1)
  BY DEF Refused
<1>2. IsFiniteSet(Refused(out, n + 1))
  BY <1>1, FS_Interval, FS_Subset
<1> QED  BY <1>1, <1>2, FS_CardinalityType, FS_AddElement

\* The keys tried so far, their outcomes and the link agree: what was refused is
\* not accepted, nothing is lost while the link is up, and the server only hangs up
\* on a user it has refused often enough before.
Tried(out, lk, acc, att) ==
    /\ out \in Seq(Outcomes) /\ lk \in {"up", "hungUp", "broken"}
    /\ Len(out) <= Len(att)
    /\ \A i \in 1..Len(out) : att[i] \in acc => out[i] # "refused"
    /\ lk = "up" => \A i \in 1..Len(out) : out[i] # "lost"
    /\ lk = "hungUp" =>
          /\ Cardinality(Refused(out, Len(out) + 1)) >= MaxTries
          /\ \A i \in 1..Len(out) : out[i] = "lost" => Cardinality(Refused(out, i)) >= MaxTries

\* Nothing is tried yet.
LEMMA TriedNothing ==
    ASSUME NEW acc, NEW att, Len(att) \in Nat
    PROVE  Tried(<<>>, "up", acc, att)
<1>1. <<>> \in Seq(Outcomes) /\ Len(<<>>) = 0 /\ \A i \in 1..0 : FALSE
  OBVIOUS
<1> QED  BY <1>1 DEF Tried

\* Another key is passed over: one the server does not take, or one it takes that is
\* not signed for, or any once the link is down.
LEMMA TriedMore ==
    ASSUME NEW out, NEW lk, NEW acc, NEW att, Tried(out, lk, acc, att), Len(att) \in Nat,
           NEW n \in Nat, n = Len(out), n < Len(att),
           NEW x, NEW new, new = Append(out, x), NEW lk2,
           \/ /\ x = "refused" /\ lk = "up" /\ att[n + 1] \notin acc
              /\ lk2 = IF Cardinality(Refused(out, n + 1)) + 1 >= MaxTries THEN "hungUp" ELSE "up"
           \/ x = "unsigned" /\ lk = "up" /\ lk2 = lk
           \/ x = "lost" /\ lk # "up" /\ lk2 = lk
    PROVE  Tried(new, lk2, acc, att)
<1>1. out \in Seq(Outcomes) /\ x \in Outcomes
  BY DEF Tried, Outcomes
<1>2. /\ new \in Seq(Outcomes) /\ Len(new) = n + 1
      /\ new[n + 1] = x /\ \A i \in 1..n : new[i] = out[i]
      /\ \A i \in 1..(n + 1) : Refused(new, i) = Refused(out, i)
      /\ Refused(new, n + 2) = IF x = "refused" THEN Refused(out, n + 1) \cup {n + 1}
                                                ELSE Refused(out, n + 1)
  <2>1. n \in Nat /\ n = Len(out) /\ new = Append(out, x)
    OBVIOUS
  <2>2. IsAdded(new, out, n, x)
    BY ONLY <1>1, <2>1, OutcomeAdded
  <2> QED  BY ONLY <2>2 DEF IsAdded
<1>3. /\ lk \in {"up", "hungUp", "broken"}
      /\ \A i \in 1..n : att[i] \in acc => out[i] # "refused"
      /\ lk = "up" => \A i \in 1..n : out[i] # "lost"
      /\ lk = "hungUp" =>
            /\ Cardinality(Refused(out, n + 1)) >= MaxTries
            /\ \A i \in 1..n : out[i] = "lost" => Cardinality(Refused(out, i)) >= MaxTries
  BY DEF Tried
<1>4. PICK m \in Nat : m = Len(att)
  OBVIOUS
<1>5. Len(new) <= Len(att) /\ lk2 \in {"up", "hungUp", "broken"}
  <2>1. Len(new) <= Len(att)
    BY <1>2, <1>4
  <2>2. lk2 \in {"up", "hungUp", "broken"}
    BY <1>3
  <2> QED  BY <2>1, <2>2
<1>6. \A i \in 1..(n + 1) : i \in 1..n \/ i = n + 1
  OBVIOUS
<1>7. \A i \in 1..(n + 1) : att[i] \in acc => new[i] # "refused"
  <2>1. att[n + 1] \in acc => new[n + 1] # "refused"
    BY <1>2
  <2>2. \A i \in 1..n : att[i] \in acc => new[i] # "refused"
    BY ONLY <1>2, <1>3
  <2> QED  BY ONLY <1>6, <2>1, <2>2
<1>8. lk2 = "up" => \A i \in 1..(n + 1) : new[i] # "lost"
  <2>1. lk2 = "up" => lk = "up" /\ x # "lost"
    OBVIOUS
  <2> QED  BY ONLY <1>2, <1>3, <1>6, <2>1
<1>9. lk2 = "hungUp" => Cardinality(Refused(new, n + 2)) >= MaxTries
  <2>1. CASE x = "refused"
    <3>1. Refused(new, n + 2) = Refused(out, n + 1) \cup {n + 1}
      BY <1>2, <2>1
    <3>2. Cardinality(Refused(out, n + 1) \cup {n + 1}) = Cardinality(Refused(out, n + 1)) + 1
      BY RefusedCount
    <3>3. lk2 = "hungUp" => Cardinality(Refused(out, n + 1)) + 1 >= MaxTries
      BY <2>1
    <3> QED  BY ONLY <3>1, <3>2, <3>3
  <2>2. CASE x # "refused"
    <3>1. Refused(new, n + 2) = Refused(out, n + 1) /\ lk2 = lk
      BY <1>2, <2>2
    <3> QED  BY ONLY <1>3, <3>1
  <2> QED  BY ONLY <2>1, <2>2
<1>10. ASSUME lk2 = "hungUp", NEW i \in 1..(n + 1), new[i] = "lost"
       PROVE  Cardinality(Refused(new, i)) >= MaxTries
  <2>1. lk = "hungUp" /\ x = "lost"
    <3>1. CASE lk = "up"
      <4>1. x # "lost"
        BY <3>1
      <4>2. new[i] # "lost"
        BY ONLY <1>2, <1>3, <1>6, <3>1, <4>1, i \in 1..(n + 1)
      <4> QED  BY <1>10, <4>2
    <3>2. CASE lk # "up"
      BY <1>10, <3>2
    <3> QED  BY ONLY <3>1, <3>2
  <2>2. Refused(new, i) = Refused(out, i)
    BY ONLY <1>2, i \in 1..(n + 1)
  <2>3. CASE i = n + 1
    BY ONLY <1>3, <2>1, <2>2, <2>3
  <2>4. CASE i \in 1..n
    <3>1. out[i] = "lost"
      BY ONLY <1>2, <1>10, <2>4
    <3> QED  BY ONLY <1>3, <2>1, <2>2, <2>4, <3>1
  <2> QED  BY <1>6, <2>3, <2>4
<1>11. (n + 1) + 1 = n + 2
  OBVIOUS
<1> QED  BY ONLY <1>2, <1>5, <1>7, <1>8, <1>9, <1>10, <1>11 DEF Tried

\* What the user has is typed, the keys tried so far are accounted for, and being
\* denied means that all were tried.
DeniedInv ==
    /\ LoginTyped(cli)
    /\ world.agent \in Seq(AgentKey) /\ opts.identityFiles \in Seq(Text)
    /\ stage \in {"parse", "options", "offline", "dial", "hostKey", "prompt"} =>
          outcomes = <<>> /\ link = "up"
    /\ stage \in {"authenticate", "denied"} => Tried(outcomes, link, accepted, S!Attempts)
    /\ stage = "denied" => Len(outcomes) = Len(S!Attempts)

\* There is a number of keys to try.
LEMMA AttemptsTyped == ASSUME DeniedInv PROVE Len(S!Attempts) \in Nat
<1>1. PICK a \in Seq(Text) : a = S!PlainKeys(world.agent)
  BY PlainHolds DEF DeniedInv
<1>2. PICK b \in Seq(Text) : b = S!LoadedFiles(opts.identityFiles)
  BY LoadedHolds DEF DeniedInv
<1>3. a \o b \in Seq(Text)
  OBVIOUS
<1>4. Len(a \o b) \in Nat
  BY ONLY <1>3
<1> QED  BY <1>1, <1>2, <1>4 DEF S!Attempts

\* It says what DeniedForGoodReason says.
LEMMA DeniedReason == ASSUME DeniedInv PROVE DeniedForGoodReason
<1> SUFFICES ASSUME stage = "denied", NEW k \in accepted,
                    \/ \E i \in DOMAIN world.agent :
                          world.agent[i] = [key |-> k, certificate |-> FALSE]
                    \/ k \in world.usable /\ \E i \in DOMAIN opts.identityFiles :
                                                  opts.identityFiles[i] = k
             PROVE  \E i \in DOMAIN outcomes :
                       /\ S!Attempts[i] = k
                       /\ \/ outcomes[i] = "unsigned"
                          \/ /\ outcomes[i] = "lost"
                             /\ link = "broken" \/ S!Cardinality(S!RefusedBefore(i)) >= MaxTries
  BY DEF DeniedForGoodReason, S!DeniedForGoodReason
<1>1. PICK a \in Seq(Text) : a = S!PlainKeys(world.agent)
  BY PlainHolds DEF DeniedInv
<1>2. PICK b \in Seq(Text) : b = S!LoadedFiles(opts.identityFiles)
  BY LoadedHolds DEF DeniedInv
<1>3. PICK all : all = S!Attempts
  OBVIOUS
<1>4. all = a \o b
  BY <1>1, <1>2, <1>3 DEF S!Attempts
<1>5. /\ a \o b \in Seq(Text) /\ Len(a \o b) = Len(a) + Len(b)
      /\ \A p \in 1..Len(a) : (a \o b)[p] = a[p]
      /\ \A p \in 1..Len(b) : (a \o b)[Len(a) + p] = b[p]
  <2>1. a \in Seq(Text) /\ b \in Seq(Text)
    OBVIOUS
  <2> QED  BY ONLY <2>1, Joined
<1>6. \E p \in 1..Len(all) : all[p] = k
  <2>1. ASSUME NEW i \in DOMAIN world.agent, world.agent[i] = [key |-> k, certificate |-> FALSE]
        PROVE  \E p \in 1..Len(all) : all[p] = k
    <3>1. ~world.agent[i].certificate /\ world.agent[i].key = k
      BY <2>1
    <3>2. PICK p \in 1..Len(a) : a[p] = k
      BY <1>1, <3>1, PlainHolds DEF DeniedInv, Holds
    <3>3. p \in 1..Len(all) /\ all[p] = k
      BY <1>4, <1>5, <3>2
    <3> QED  BY <3>3
  <2>2. ASSUME NEW i \in DOMAIN opts.identityFiles, k \in world.usable, opts.identityFiles[i] = k
        PROVE  \E p \in 1..Len(all) : all[p] = k
    <3>2. PICK p \in 1..Len(b) : b[p] = k
      BY <1>2, <2>2, LoadedHolds DEF DeniedInv, Holds
    <3>3. Len(a) + p \in 1..Len(all) /\ all[Len(a) + p] = k
      BY <1>4, <1>5, <3>2
    <3> QED  BY <3>3
  <2> QED  BY <2>1, <2>2
<1>7. PICK p \in 1..Len(all) : all[p] = k
  BY <1>6
<1>8. /\ outcomes \in Seq(Outcomes) /\ link \in {"up", "hungUp", "broken"}
      /\ \A i \in 1..Len(outcomes) : all[i] \in accepted => outcomes[i] # "refused"
      /\ link = "up" => \A i \in 1..Len(outcomes) : outcomes[i] # "lost"
      /\ link = "hungUp" => \A i \in 1..Len(outcomes) :
                               outcomes[i] = "lost" => Cardinality(Refused(outcomes, i)) >= MaxTries
      /\ Len(outcomes) = Len(all)
  BY <1>3 DEF DeniedInv, Tried
<1>9. p \in 1..Len(outcomes) /\ p \in DOMAIN outcomes
  BY <1>7, <1>8
<1>10. outcomes[p] \in {"unsigned", "lost"}
  <2>1. outcomes[p] \in Outcomes
    BY <1>8, <1>9
  <2>2. outcomes[p] # "refused"
    BY ONLY <1>7, <1>8, <1>9, k \in accepted
  <2> QED  BY ONLY <2>1, <2>2 DEF Outcomes
<1>11. S!Cardinality(S!RefusedBefore(p)) = Cardinality(Refused(outcomes, p))
  BY SameCount DEF S!RefusedBefore, Refused
<1>12. outcomes[p] = "lost" => link = "broken" \/ S!Cardinality(S!RefusedBefore(p)) >= MaxTries
  BY ONLY <1>8, <1>9, <1>11
<1> QED  BY ONLY <1>3, <1>7, <1>9, <1>10, <1>12

\* The inductive step for authentication.
LEMMA DeniedStep == ASSUME DeniedInv, [Next]_vars PROVE DeniedInv'
<1>1. LoginTyped(NoCli)
  <2>1. NoCli.identityFile = <<>> /\ NoCli.env = NoEnv
    BY DEF NoCli
  <2>2. NoEnv.agent = <<>> /\ NoEnv.file.lines = <<>>
    BY DEF NoEnv
  <2>3. \A T : <<>> \in Seq(T)
    OBVIOUS
  <2> QED  BY ONLY <2>1, <2>2, <2>3 DEF LoginTyped
<1>2. LoginTyped(cli)'
  <2>1. CASE UNCHANGED cli
    BY <2>1 DEF DeniedInv, LoginTyped
  <2>2. CASE cli' = NoCli
    BY <1>1, <2>2 DEF LoginTyped
  <2>3. CASE cli' \in Repeated
    BY <2>3, LoginAssumption DEF LoginTyped
  <2> QED  BY <2>1, <2>2, <2>3 DEF Next, vars, parseVars, Invoke, Configure, BuildOptions, SkipConnection,
              Connecting, Forgotten, Mounting, Serving, Signalled, Outside
<1>3. ASSUME UNCHANGED connectVars, LoginTyped(cli)',
             \/ stage' = stage
             \/ stage' \notin {"parse", "options", "offline", "dial", "hostKey", "prompt", "authenticate", "denied"}
             \/ stage = "parse" /\ stage' \in {"options", "offline"}
      PROVE  DeniedInv'
  <2>1. S!Attempts' = S!Attempts
    BY <1>3 DEF S!Attempts, S!PlainKeys, S!LoadedFiles, connectVars
  <2> QED  BY <1>3, <2>1 DEF DeniedInv, connectVars
<1>4. CASE Invoke
  BY <1>2, <1>4 DEF Invoke, DeniedInv, S!NoOpts, S!NoWorld
<1>5. CASE Configure
  BY <1>2, <1>3, <1>5 DEF Configure
<1>6. CASE BuildOptions
  BY <1>2, <1>6, OptionsTyped DEF BuildOptions, DeniedInv, LoginTyped, Env
<1>7. CASE SkipConnection
  BY <1>2, <1>3, <1>7 DEF SkipConnection
<1>8. CASE Connecting
  <2>0. S!Attempts' = S!Attempts \/ ~UNCHANGED <<opts, world>>
    BY DEF S!Attempts, S!PlainKeys, S!LoadedFiles
  <2>1. CASE S!Dial
    BY <1>2, <2>1 DEF S!Dial, DeniedInv, S!sessionVars
  <2>2. CASE S!ConnectionLost \/ S!PromptDeclines
    BY <1>2, <2>2 DEF S!ConnectionLost, S!PromptDeclines, S!Fail, DeniedInv, S!sessionVars, S!worldVars
  <2>3. CASE S!CheckServerKey \/ S!PromptApproves
    <3>1. outcomes = <<>> /\ link = "up" /\ UNCHANGED <<opts, world, outcomes, link, accepted>>
      BY <2>3 DEF S!CheckServerKey, S!PromptApproves, DeniedInv, S!sessionVars, S!worldVars
    <3>2. stage' \in {"authenticate", "failed", "prompt"}
      BY <2>3, Classified DEF S!CheckServerKey, S!PromptApproves
    <3>3. Tried(<<>>, "up", accepted, S!Attempts)
      BY AttemptsTyped, TriedNothing
    <3>4. S!Attempts' = S!Attempts
      BY <2>0, <3>1
    <3>5. Tried(outcomes, link, accepted, S!Attempts)'
      BY ONLY <3>1, <3>3, <3>4
    <3> QED  BY <1>2, <3>1, <3>2, <3>5 DEF DeniedInv
  <2>4. CASE S!KeyRefused \/ S!AgentFails \/ S!AttemptLost
    <3>1. UNCHANGED <<stage, opts, world, accepted>>
      BY <2>4 DEF S!KeyRefused, S!AgentFails, S!AttemptLost, S!PassOver, S!worldVars
    <3>2. PICK att : att = S!Attempts
      OBVIOUS
    <3>3. Len(att) \in Nat /\ S!Attempts' = att
      BY <2>0, <3>1, <3>2, AttemptsTyped
    <3>4. stage = "authenticate" /\ Len(outcomes) < Len(att) /\ Tried(outcomes, link, accepted, att)
      BY <2>4, <3>2 DEF S!KeyRefused, S!AgentFails, S!AttemptLost, S!Trying, DeniedInv
    <3>5. PICK n \in Nat : n = Len(outcomes)
      BY <3>4 DEF Tried
    <3>6. PICK x : /\ outcomes' = Append(outcomes, x)
                   /\ \/ /\ x = "refused" /\ link = "up" /\ att[n + 1] \notin accepted
                         /\ link' = IF Cardinality(Refused(outcomes, n + 1)) + 1 >= MaxTries THEN "hungUp" ELSE "up"
                      \/ x = "unsigned" /\ link = "up" /\ link' = link
                      \/ x = "lost" /\ link # "up" /\ link' = link
      <4>1. S!Cardinality(S!RefusedBefore(n + 1)) = Cardinality(Refused(outcomes, n + 1))
        BY SameCount DEF S!RefusedBefore, Refused
      <4>2. CASE S!KeyRefused
        <5>1. /\ outcomes' = Append(outcomes, "refused") /\ link = "up" /\ att[n + 1] \notin accepted
              /\ link' = IF S!Cardinality(S!RefusedBefore(n + 1)) + 1 >= MaxTries THEN "hungUp" ELSE "up"
          BY <3>2, <3>5, <4>2 DEF S!KeyRefused, S!PassOver, S!NextKey
        <5> QED  BY ONLY <4>1, <5>1
      <4>3. CASE S!AgentFails
        BY <4>3 DEF S!AgentFails, S!PassOver
      <4>4. CASE S!AttemptLost
        BY <4>4 DEF S!AttemptLost, S!PassOver
      <4> QED  BY <2>4, <4>2, <4>3, <4>4
    <3>7. Tried(outcomes', link', accepted, att)
      BY ONLY <3>3, <3>4, <3>5, <3>6, TriedMore
    <3> QED  BY <1>2, <3>1, <3>3, <3>4, <3>7 DEF DeniedInv
  <2>7. CASE S!KeyAccepted
    BY <1>2, <2>7 DEF S!KeyAccepted, DeniedInv, S!sessionVars, S!worldVars
  <2>8. CASE S!ConnectionBreaks
    <3>1. /\ UNCHANGED <<stage, opts, world, accepted, outcomes>> /\ stage = "authenticate"
          /\ link' = "broken"
      BY <2>8 DEF S!ConnectionBreaks, S!worldVars
    <3>2. S!Attempts' = S!Attempts
      BY <2>0, <3>1
    <3>3. Tried(outcomes, "broken", accepted, S!Attempts)
      BY <3>1 DEF DeniedInv, Tried
    <3>4. Tried(outcomes, link, accepted, S!Attempts)'
      BY ONLY <3>1, <3>2, <3>3
    <3> QED  BY <1>2, <3>1, <3>4 DEF DeniedInv
  <2>5. CASE S!Denied
    BY <1>2, <2>0, <2>5 DEF S!Denied, DeniedInv, S!sessionVars, S!worldVars
  <2>6. CASE S!OpenSftp
    BY <1>2, <2>6 DEF S!OpenSftp, DeniedInv, S!NoOpts, S!NoWorld
  <2> QED  BY <1>8, <2>1, <2>2, <2>3, <2>4, <2>5, <2>6, <2>7, <2>8 DEF Connecting, S!Connect
<1>9. CASE Mounting
  BY <1>2, <1>3, <1>9 DEF Mounting, M!MainThread, M!CheckMountpoint, M!SpawnMount, M!SetHandler,
       M!SetHandlerFails, M!WaitLoop, M!Decide, M!Unmount, M!UnmountFails, M!Join, M!JoinFails,
       M!ProcessExits, M!DropSession, M!EndProcess, M!ServiceOver
<1>10. CASE Serving
  BY <1>2, <1>3, <1>10 DEF Serving, M!Serving, M!SessionEnds, M!SessionBreaks, M!ServiceOver, M!StatAnswered,
       M!PageArrives, M!PageFails, M!CallArrives, M!WriteArrives, M!OpenArrives,
       M!CreateArrives, M!ReadArrives, M!Arrives, M!CallAnswered, M!OpenAnswered,
       M!ReadAnswered, M!Opendir, M!FlushAndRelease, M!BeginScan, M!ReadPage, M!EndScan
<1>11. CASE Signalled
  BY <1>2, <1>3, <1>11 DEF Signalled, M!Interrupt, M!Terminate, M!Handled, M!Die, M!EndProcess, M!ServiceOver
<1>12. CASE Outside
  BY <1>2, <1>3, <1>12 DEF Outside, M!World, M!ExternalUnmount, M!NameRemoved, M!NameAdded
<1>13. CASE UNCHANGED vars
  BY <1>2, <1>3, <1>13 DEF vars
<1> QED
  BY <1>4, <1>5, <1>6, <1>7, <1>8, <1>9, <1>10, <1>11, <1>12, <1>13 DEF Next

\* authenticate: when a user is denied, every key the server would have taken and
\* the process could offer was tried, and the agent did not sign with it, or the
\* connection had broken, or the server had hung up after refusing MaxTries keys
\* before it; whatever the agent holds, the ssh config says and the files are worth.
THEOREM DeniedForGoodReasonInvariant == Spec => []DeniedForGoodReason
<1>1. Init => DeniedInv
  BY LoginAssumption DEF Init, DeniedInv, S!NoOpts, S!NoWorld
<1>2. DeniedInv /\ [Next]_vars => DeniedInv'
  BY DeniedStep
<1>3. DeniedInv => DeniedForGoodReason
  BY DeniedReason
<1> QED  BY <1>1, <1>2, <1>3, PTL DEF Spec
=============================================================================
