----------------------------- MODULE WinProofs ------------------------------
(***************************************************************************)
(* Proofs about WinFs, for any number of threads, callbacks, names and     *)
(* open files and any letter case: the node table, what a cleanup deletes, *)
(* and what the cache says of names while threads change it.               *)
(***************************************************************************)
EXTENDS WinFs, VfsProofs

-----------------------------------------------------------------------------
(* Callbacks and the calls they make.                                      *)

ByName == {"none", "open", "create", "list"}
OnFile == {"info", "write", "setInfo", "overwrite", "rename", "cleanup"}

\* The VFS calls a callback may have still to make.
Todo(cb) ==
    CASE cb = "none" -> {<<>>}
      [] cb = "open" -> {<<"getattr", "lookup", "open">>, <<"lookup", "open">>, <<"scan", "open">>,
                         <<"open">>}
      [] cb = "create" -> {<<"create">>}
      [] cb = "info" -> {<<"getattr">>}
      [] cb = "write" -> {<<"write", "getattr">>, <<"getattr", "write", "getattr">>,
                          <<"getattr", "getattr">>, <<"getattr">>}
      [] cb \in {"setInfo", "overwrite"} -> {<<"setattr", "getattr">>, <<"getattr">>}
      [] cb = "list" -> {<<"getattr", "readdir">>, <<"readdir">>}
      [] cb = "rename" -> {<<"rename">>}
      [] cb = "cleanup" -> {<<"unlink">>}

\* The first of them.
Calls(cb) ==
    CASE cb = "open" -> {"getattr", "lookup", "scan", "open"}
      [] cb = "create" -> {"create"}
      [] cb = "info" -> {"getattr"}
      [] cb = "write" -> {"write", "getattr"}
      [] cb \in {"setInfo", "overwrite"} -> {"setattr", "getattr"}
      [] cb = "list" -> {"getattr", "readdir"}
      [] cb = "rename" -> {"rename"}
      [] cb = "cleanup" -> {"unlink"}

GuardOf(cb) ==
    CASE cb \in {"create", "overwrite", "rename", "cleanup"} -> "exclusive"
      [] cb \in {"open", "list"} -> "shared"
      [] cb \in {"none", "info", "write", "setInfo"} -> "none"

LEMMA OneCall ==
    ASSUME NEW a
    PROVE  Head(<<a>>) = a /\ Len(<<a>>) = 1 /\ <<a>> # <<>>
OBVIOUS

LEMMA TwoCalls ==
    ASSUME NEW a, NEW b
    PROVE  /\ Head(<<a, b>>) = a /\ Tail(<<a, b>>) = <<b>> /\ Len(<<a, b>>) # 1
           /\ <<a, b>> # <<>>
<1>1. Head(<<a, b>>) = a /\ Len(<<a, b>>) = 2 /\ <<a, b>> # <<>>
  OBVIOUS
<1>2. Tail(<<a, b>>) = <<b>>
  OBVIOUS
<1> QED BY <1>1, <1>2

LEMMA ThreeCalls ==
    ASSUME NEW a, NEW b, NEW c
    PROVE  /\ Head(<<a, b, c>>) = a /\ Tail(<<a, b, c>>) = <<b, c>> /\ Len(<<a, b, c>>) # 1
           /\ <<a, b, c>> # <<>>
<1>1. Head(<<a, b, c>>) = a /\ Len(<<a, b, c>>) = 3 /\ <<a, b, c>> # <<>>
  OBVIOUS
<1>2. Tail(<<a, b, c>>) = <<b, c>>
  OBVIOUS
<1> QED BY <1>1, <1>2

\* What is left after the first call are calls of the callback, and `open` comes
\* after a name was found only.
Fits(cb, todo) ==
    /\ todo # <<>>
    /\ Head(todo) \in Calls(cb)
    /\ Len(todo) # 1 => /\ Tail(todo) \in Todo(cb)
                        /\ Head(todo) \in {"lookup", "scan"} \/ Head(Tail(todo)) # "open"

LEMMA FitsOne ==
    ASSUME NEW cb, NEW a \in Calls(cb)
    PROVE  Fits(cb, <<a>>)
BY OneCall DEF Fits

LEMMA FitsTwo ==
    ASSUME NEW cb, NEW a \in Calls(cb), NEW b, <<b>> \in Todo(cb),
           a \in {"lookup", "scan"} \/ b # "open"
    PROVE  Fits(cb, <<a, b>>)
BY OneCall, TwoCalls DEF Fits

LEMMA FitsThree ==
    ASSUME NEW cb, NEW a \in Calls(cb), NEW b, NEW c, <<b, c>> \in Todo(cb), b # "open"
    PROVE  Fits(cb, <<a, b, c>>)
BY TwoCalls, ThreeCalls DEF Fits

LEMMA TodoFits ==
    ASSUME NEW cb \in ByName \cup OnFile, cb # "none", NEW todo \in Todo(cb)
    PROVE  Fits(cb, todo)
<1>1. CASE cb = "open"
  <2>1. /\ Todo(cb) = {<<"getattr", "lookup", "open">>, <<"lookup", "open">>, <<"scan", "open">>,
                       <<"open">>}
        /\ Calls(cb) = {"getattr", "lookup", "scan", "open"}
    BY <1>1 DEF Todo, Calls
  <2>2. Fits(cb, <<"getattr", "lookup", "open">>)
    BY <2>1, FitsThree
  <2>3. Fits(cb, <<"lookup", "open">>) /\ Fits(cb, <<"scan", "open">>)
    BY <2>1, FitsTwo
  <2>4. Fits(cb, <<"open">>)
    BY <2>1, FitsOne
  <2> QED BY <2>1, <2>2, <2>3, <2>4
<1>2. CASE cb = "create"
  BY <1>2, FitsOne DEF Todo, Calls
<1>3. CASE cb = "info"
  BY <1>3, FitsOne DEF Todo, Calls
<1>4. CASE cb = "rename"
  BY <1>4, FitsOne DEF Todo, Calls
<1>5. CASE cb = "cleanup"
  BY <1>5, FitsOne DEF Todo, Calls
<1>6. CASE cb = "write"
  <2>1. /\ Todo(cb) = {<<"write", "getattr">>, <<"getattr", "write", "getattr">>,
                       <<"getattr", "getattr">>, <<"getattr">>}
        /\ Calls(cb) = {"write", "getattr"}
    BY <1>6 DEF Todo, Calls
  <2>2. Fits(cb, <<"getattr", "write", "getattr">>)
    BY <2>1, FitsThree
  <2>3. Fits(cb, <<"write", "getattr">>) /\ Fits(cb, <<"getattr", "getattr">>)
    BY <2>1, FitsTwo
  <2>4. Fits(cb, <<"getattr">>)
    BY <2>1, FitsOne
  <2> QED BY <2>1, <2>2, <2>3, <2>4
<1>7. CASE cb \in {"setInfo", "overwrite"}
  <2>1. /\ Todo(cb) = {<<"setattr", "getattr">>, <<"getattr">>}
        /\ Calls(cb) = {"setattr", "getattr"}
    BY <1>7 DEF Todo, Calls
  <2>2. Fits(cb, <<"setattr", "getattr">>)
    BY <2>1, FitsTwo
  <2>3. Fits(cb, <<"getattr">>)
    BY <2>1, FitsOne
  <2> QED BY <2>1, <2>2, <2>3
<1>8. CASE cb = "list"
  <2>1. Todo(cb) = {<<"getattr", "readdir">>, <<"readdir">>} /\ Calls(cb) = {"getattr", "readdir"}
    BY <1>8 DEF Todo, Calls
  <2>2. Fits(cb, <<"getattr", "readdir">>)
    BY <2>1, FitsTwo
  <2>3. Fits(cb, <<"readdir">>)
    BY <2>1, FitsOne
  <2> QED BY <2>1, <2>2, <2>3
<1> QED BY <1>1, <1>2, <1>3, <1>4, <1>5, <1>6, <1>7, <1>8 DEF ByName, OnFile

-----------------------------------------------------------------------------
(* What a step makes of a thread's job.                                    *)

Todos == UNION {Todo(cb) : cb \in ByName \cup OnFile}

Job == [cb : ByName \cup OnFile, guard : {"none", "shared", "exclusive"}, open : Nat,
        name : Names \cup {"none"}, new : Names \cup {"none"}, todo : Todos,
        phase : {"call", "ask", "store", "state"}, path : Paths, seen : SUBSET Paths]

Jobs == job \in [Threads -> Job]

\* Every other thread's job stays.
Others(t) == Jobs' /\ \A u \in Threads \ {t} : job'[u] = job[u]

\* The callback stays, and what it is about.
Same(t) ==
    /\ job'[t].cb = job[t].cb /\ job'[t].guard = job[t].guard /\ job'[t].open = job[t].open
    /\ job'[t].name = job[t].name /\ job'[t].new = job[t].new

Ends(t) == Others(t) /\ job'[t] = Idle

\* On to another call than `open`.
Goes(t) ==
    /\ Others(t) /\ Same(t)
    /\ job'[t].todo \in Todo(job[t].cb) /\ job'[t].todo # <<>>
    /\ job'[t].phase = "call" /\ Call(t)' # "open"

\* On to `open`, of the path p.
Found(t, p) ==
    /\ Others(t) /\ Same(t)
    /\ job'[t].todo = <<"open">> /\ job'[t].phase = "call" /\ job'[t].path = p

\* On with the same call.
Works(t, phase, path, seen) ==
    /\ Others(t) /\ Same(t)
    /\ job'[t].todo = job[t].todo /\ job'[t].phase = phase
    /\ job'[t].path = path /\ job'[t].seen = seen

LEMMA RootPath == Root \in Paths
BY VfsAssumption DEF Root, Paths

LEMMA NamePath ==
    ASSUME NEW n \in Names
    PROVE  <<n>> \in Paths /\ <<n>> # Root /\ <<n>> \in Files
BY WinAssumption DEF Root, Paths

LEMMA FlatPaths ==
    ASSUME NEW p \in Paths, p # Root
    PROVE  \E n \in Names : p = <<n>>
BY WinAssumption DEF Root, Paths

LEMMA IdleJob == Idle \in Job
<1>1. <<>> \in Todos
  BY DEF Todos, Todo, ByName
<1> QED BY <1>1, RootPath DEF Idle, Job, ByName

LEMMA FinishStep ==
    ASSUME Jobs, NEW t \in Threads, Finish(t)
    PROVE  Ends(t)
BY IdleJob DEF Jobs, Finish, Ends, Others

LEMMA ThenStep ==
    ASSUME Jobs, NEW t \in Threads, NEW todo \in Todos, NEW path \in Paths, Then(t, todo, path)
    PROVE  /\ Others(t) /\ Same(t)
           /\ job'[t].todo = todo /\ job'[t].phase = "call" /\ job'[t].path = path
<1> DEFINE k == [job[t] EXCEPT !.todo = todo, !.phase = "call", !.path = path, !.seen = {}]
<1>1. job[t] \in Job
  BY DEF Jobs
<1>2. k \in Job
  BY <1>1 DEF Job
<1>3. job' = [job EXCEPT ![t] = k]
  BY DEF Then
<1>4. /\ k.cb = job[t].cb /\ k.guard = job[t].guard /\ k.open = job[t].open
      /\ k.name = job[t].name /\ k.new = job[t].new
      /\ k.todo = todo /\ k.phase = "call" /\ k.path = path
  BY <1>1 DEF Job
<1> HIDE DEF k
<1>5. job'[t] = k /\ Others(t)
  BY <1>2, <1>3 DEF Jobs, Others
<1> QED BY <1>4, <1>5 DEF Same

LEMMA NextCallStep ==
    ASSUME Jobs, NEW t \in Threads, job[t].todo \in Todo(job[t].cb), job[t].cb # "none",
           Call(t) \notin {"lookup", "scan"}, NextCall(t)
    PROVE  Ends(t) \/ Goes(t)
<1>1. job[t] \in Job /\ job[t].cb \in ByName \cup OnFile
  BY DEF Jobs, Job
<1>2. Fits(job[t].cb, job[t].todo)
  BY <1>1, TodoFits
<1>3. CASE Len(job[t].todo) = 1
  BY <1>3, FinishStep DEF NextCall
<1>4. CASE Len(job[t].todo) # 1
  <2> DEFINE todo == Tail(job[t].todo)
  <2>1. todo \in Todo(job[t].cb) /\ Head(todo) # "open"
    BY <1>2, <1>4 DEF Fits, Call
  <2>2. todo \in Todos
    BY <1>1, <2>1 DEF Todos
  <2>3. Then(t, todo, Root)
    BY <1>4 DEF NextCall, Then
  <2>4. todo # <<>>
    BY <1>1, <2>1, TodoFits DEF Fits
  <2> HIDE DEF todo
  <2>5. /\ Others(t) /\ Same(t)
        /\ job'[t].todo = todo /\ job'[t].phase = "call"
    BY <2>2, <2>3, ThenStep, RootPath
  <2> QED BY <2>1, <2>4, <2>5 DEF Goes, Call
<1> QED BY <1>3, <1>4

LEMMA AskStep ==
    ASSUME Jobs, NEW t \in Threads, NEW path \in Paths,
           job' = [job EXCEPT ![t].path = path, ![t].phase = "ask"]
    PROVE  Works(t, "ask", path, job[t].seen)
<1> DEFINE k == [job[t] EXCEPT !.path = path, !.phase = "ask"]
<1>1. job[t] \in Job
  BY DEF Jobs
<1>2. k \in Job
  BY <1>1 DEF Job
<1>3. job' = [job EXCEPT ![t] = k]
  OBVIOUS
<1>4. /\ k.cb = job[t].cb /\ k.guard = job[t].guard /\ k.open = job[t].open
      /\ k.name = job[t].name /\ k.new = job[t].new /\ k.todo = job[t].todo
      /\ k.phase = "ask" /\ k.path = path /\ k.seen = job[t].seen
  BY <1>1 DEF Job
<1> HIDE DEF k
<1>5. job'[t] = k /\ Others(t)
  BY <1>2, <1>3 DEF Jobs, Others
<1> QED BY <1>4, <1>5 DEF Same, Works

LEMMA AnswerStep ==
    ASSUME Jobs, NEW t \in Threads, NEW seen \in SUBSET Paths,
           job' = [job EXCEPT ![t].phase = "store", ![t].seen = seen]
    PROVE  Works(t, "store", job[t].path, seen)
<1> DEFINE k == [job[t] EXCEPT !.phase = "store", !.seen = seen]
<1>1. job[t] \in Job
  BY DEF Jobs
<1>2. k \in Job
  BY <1>1 DEF Job
<1>3. job' = [job EXCEPT ![t] = k]
  OBVIOUS
<1>4. /\ k.cb = job[t].cb /\ k.guard = job[t].guard /\ k.open = job[t].open
      /\ k.name = job[t].name /\ k.new = job[t].new /\ k.todo = job[t].todo
      /\ k.phase = "store" /\ k.path = job[t].path /\ k.seen = seen
  BY <1>1 DEF Job
<1> HIDE DEF k
<1>5. job'[t] = k /\ Others(t)
  BY <1>2, <1>3 DEF Jobs, Others
<1> QED BY <1>4, <1>5 DEF Same, Works

LEMMA PhaseStep ==
    ASSUME Jobs, NEW t \in Threads, NEW phase \in {"store", "state"},
           job' = [job EXCEPT ![t].phase = phase]
    PROVE  Works(t, phase, job[t].path, job[t].seen)
<1> DEFINE k == [job[t] EXCEPT !.phase = phase]
<1>1. job[t] \in Job
  BY DEF Jobs
<1>2. k \in Job
  BY <1>1 DEF Job
<1>3. job' = [job EXCEPT ![t] = k]
  OBVIOUS
<1>4. /\ k.cb = job[t].cb /\ k.guard = job[t].guard /\ k.open = job[t].open
      /\ k.name = job[t].name /\ k.new = job[t].new /\ k.todo = job[t].todo
      /\ k.phase = phase /\ k.path = job[t].path /\ k.seen = job[t].seen
  BY <1>1 DEF Job
<1> HIDE DEF k
<1>5. job'[t] = k /\ Others(t)
  BY <1>2, <1>3 DEF Jobs, Others
<1> QED BY <1>4, <1>5 DEF Same, Works

-----------------------------------------------------------------------------
(* The shape of a state: every job is one of a callback, on files that are *)
(* open, beside the jobs WinFsp lets run beside it.                        *)

OpenFile == [node : Nat, handle : Nat, name : Names, deletePending : BOOLEAN, cleaned : BOOLEAN,
             at : Paths, astray : BOOLEAN]

Opens == DOMAIN opens \subseteq Nat \ {0} /\ opens \in [DOMAIN opens -> OpenFile]

JobOK(t) ==
    /\ job[t].todo \in Todo(job[t].cb) /\ job[t].guard = GuardOf(job[t].cb)
    /\ job[t].cb = "none" => job[t].phase = "call"
    /\ job[t].open = 0 <=> job[t].cb \in ByName
    /\ job[t].open # 0 => /\ job[t].open \in DOMAIN opens
                          /\ opens[job[t].open].cleaned <=> job[t].cb = "cleanup"
    /\ job[t].cb \in {"open", "create"} => job[t].name \in Names
    /\ job[t].cb = "rename" => job[t].new \in Names
    /\ job[t].cb \in {"rename", "cleanup"} => job[t].name = opens[job[t].open].name

\* What a call that was sent is about, and what it can have been answered.
PathOK(t) ==
    /\ job[t].phase # "call" =>
          /\ Call(t) \in {"lookup", "create", "unlink", "rename"} => job[t].path = <<job[t].name>>
          /\ Call(t) \in {"readdir", "scan"} => job[t].path = Root
          /\ Call(t) = "getattr" /\ job[t].open = 0 => job[t].path = Root
          /\ Call(t) # "open"
    /\ job[t].phase \in {"store", "state"} =>
          /\ Call(t) \in {"getattr", "lookup"} => job[t].seen \subseteq {job[t].path}
          /\ Call(t) \in {"readdir", "scan"} => job[t].seen \subseteq {<<n>> : n \in Names}
    /\ job[t].cb = "open" /\ Call(t) = "open" => job[t].path \in DOMAIN pathToNode \ {Root}

\* A creation, deletion or rename is beside unguarded callbacks only, and what
\* runs beside another callback on its file only looks, like that one.
Apart(t, u) ==
    /\ job[t].guard = "exclusive" => job[u].guard = "none"
    /\ job[t].open # 0 /\ job[u].open # 0 /\ SameFile(job[t].open, job[u].open)
          => job[t].cb = "info" /\ job[u].cb = "info"

Alone == \A t, u \in Threads : t # u => Apart(t, u)

\* An open file has a node and a handle of its own.
OpensOK ==
    /\ \A o \in DOMAIN opens :
          opens[o].node \in DOMAIN nodeToPath /\ opens[o].handle \in DOMAIN handles
    /\ \A o, p \in DOMAIN opens : opens[o].handle = opens[p].handle => o = p

Tables == IsTree(remote) /\ IdxOK(idx) /\ NodesOK /\ HandlesOK /\ unsure \subseteq Names

Shape ==
    /\ Tables /\ Jobs /\ Opens /\ OpensOK /\ Alone
    /\ \A t \in Threads : JobOK(t) /\ PathOK(t)

\* Which callbacks make which calls.
LEMMA CallFacts ==
    ASSUME Jobs, NEW t \in Threads, JobOK(t), job[t].cb # "none"
    PROVE  /\ job[t].todo # <<>> /\ Call(t) \in Calls(job[t].cb)
           /\ Call(t) \in {"lookup", "scan", "open"} => job[t].cb = "open"
           /\ Call(t) = "create" <=> job[t].cb = "create"
           /\ Call(t) = "unlink" <=> job[t].cb = "cleanup"
           /\ Call(t) = "rename" <=> job[t].cb = "rename"
           /\ Call(t) = "readdir" => job[t].cb = "list"
           /\ Call(t) = "setattr" => job[t].cb \in {"setInfo", "overwrite"}
           /\ Call(t) = "write" => job[t].cb = "write"
           /\ Call(t) = "getattr" => job[t].cb \in {"open", "list", "info", "write", "setInfo",
                                                    "overwrite"}
           /\ Call(t) \in {"getattr", "lookup", "scan", "open", "create", "write", "setattr",
                           "readdir", "rename", "unlink"}
<1>1. job[t].cb \in ByName \cup OnFile
  BY DEF Jobs, Job
<1>2. job[t].todo # <<>> /\ Call(t) \in Calls(job[t].cb)
  BY <1>1, TodoFits DEF JobOK, Fits, Call
<1> DEFINE cb == job[t].cb
<1> HIDE DEF cb
<1>3. cb \in ByName \cup OnFile /\ cb # "none" /\ Call(t) \in Calls(cb)
  BY <1>1, <1>2 DEF cb
<1>4. /\ Call(t) \in {"lookup", "scan", "open"} => cb = "open"
      /\ Call(t) = "create" <=> cb = "create"
      /\ Call(t) = "unlink" <=> cb = "cleanup"
      /\ Call(t) = "rename" <=> cb = "rename"
      /\ Call(t) = "readdir" => cb = "list"
      /\ Call(t) = "setattr" => cb \in {"setInfo", "overwrite"}
      /\ Call(t) = "write" => cb = "write"
      /\ Call(t) = "getattr" => cb \in {"open", "list", "info", "write", "setInfo", "overwrite"}
      /\ Call(t) \in {"getattr", "lookup", "scan", "open", "create", "write", "setattr",
                      "readdir", "rename", "unlink"}
  BY <1>3 DEF Calls, ByName, OnFile
<1> QED BY <1>2, <1>4 DEF cb

\* A thread with a call to make is busy.
LEMMA Busy ==
    ASSUME NEW t \in Threads, JobOK(t), job[t].todo # <<>> \/ job[t].phase # "call"
    PROVE  job[t].cb # "none"
BY DEF JobOK, Todo

-----------------------------------------------------------------------------
(* Quiet steps: a thread goes on, and the server, the open files and what  *)
(* is known of them stay.                                                  *)

Answered(t) == job[t].phase \in {"store", "state"}

\* A rename that the server carried out and WinFsp does not know of yet.
Moving(t) == job[t].cb = "rename" /\ Answered(t)

\* The node table only grows.
NodesGrow ==
    /\ DOMAIN nodeToPath \subseteq DOMAIN nodeToPath'
    /\ \A n \in DOMAIN nodeToPath : nodeToPath'[n] = nodeToPath[n]
    /\ DOMAIN pathToNode \subseteq DOMAIN pathToNode'
    /\ \A p \in DOMAIN pathToNode : pathToNode'[p] = pathToNode[p]

Moves(t) ==
    \/ Ends(t) /\ job[t].phase # "store" /\ ~Moving(t)
    \/ Goes(t) /\ job[t].cb \notin {"create", "rename", "cleanup"}
    \/ \E p \in DOMAIN pathToNode' \ {Root} : Found(t, p) /\ job[t].cb = "open"
    \/ /\ job[t].phase = "call" /\ Call(t) # "open"
       /\ Works(t, "ask", Target(t), job[t].seen)
    \/ /\ job[t].phase = "ask" /\ Call(t) \in Looks
       /\ Works(t, "store", job[t].path, Answer(t))
    \/ /\ job[t].phase = "store"
       /\ Works(t, "state", job[t].path, job[t].seen)

Quiet(t) ==
    /\ UNCHANGED <<remote, opens, unsure, misdeleted, handleVars>> /\ NodesGrow
    /\ job[t].cb # "none"
    /\ Moves(t)

LEMMA IdleOK ==
    ASSUME NEW t \in Threads, job'[t] = Idle
    PROVE  JobOK(t)' /\ PathOK(t)'
<1>1. /\ job'[t].cb = "none" /\ job'[t].guard = "none" /\ job'[t].open = 0
      /\ job'[t].todo = <<>> /\ job'[t].phase = "call"
  BY DEF Idle
<1>2. Todo("none") = {<<>>} /\ GuardOf("none") = "none" /\ "none" \in ByName
  BY DEF Todo, GuardOf, ByName
<1> QED BY <1>1, <1>2 DEF JobOK, PathOK

\* A job that goes on within its callback.
LEMMA JobGoesOn ==
    ASSUME NEW t \in Threads, JobOK(t), job[t].cb # "none", Same(t),
           job'[t].todo \in Todo(job[t].cb), UNCHANGED opens
    PROVE  JobOK(t)'
BY DEF JobOK, Same

LEMMA OtherThreads ==
    ASSUME Shape, NEW t \in Threads, Others(t), Same(t) \/ job'[t] = Idle, UNCHANGED opens,
           DOMAIN pathToNode \subseteq DOMAIN pathToNode'
    PROVE  Alone' /\ \A u \in Threads \ {t} : JobOK(u)' /\ PathOK(u)'
<1>1. ASSUME NEW u \in Threads, NEW v \in Threads, u # v
      PROVE  Apart(u, v)'
  <2>1. Apart(u, v) /\ Apart(v, u)
    BY <1>1 DEF Shape, Alone
  <2>2. ASSUME NEW w \in Threads
        PROVE  \/ /\ job'[w].guard = job[w].guard /\ job'[w].open = job[w].open
                  /\ job'[w].cb = job[w].cb
               \/ job'[w].guard = "none" /\ job'[w].open = 0
    BY DEF Others, Same, Idle
  <2>3. CASE job'[u].guard = "none" /\ job'[u].open = 0
    BY <2>3 DEF Apart
  <2>4. CASE job'[v].guard = "none" /\ job'[v].open = 0
    BY <2>4 DEF Apart
  <2> QED BY <2>1, <2>2, <2>3, <2>4 DEF Apart, SameFile
<1>2. ASSUME NEW u \in Threads \ {t}
      PROVE  JobOK(u)' /\ PathOK(u)'
  <2>1. job'[u] = job[u] /\ JobOK(u) /\ PathOK(u)
    BY DEF Others, Shape
  <2> QED BY <2>1 DEF JobOK, PathOK, Call
<1> QED BY <1>1, <1>2 DEF Alone

\* The path a call is sent about is one of the server's.
LEMMA TargetPath ==
    ASSUME Shape, NEW t \in Threads, job[t].cb # "none", Call(t) # "open"
    PROVE  /\ Target(t) \in Paths
           /\ Call(t) \in {"lookup", "create", "unlink", "rename"} =>
                 job[t].name \in Names /\ Target(t) = <<job[t].name>>
           /\ Call(t) \in {"readdir", "scan"} => Target(t) = Root
           /\ Call(t) = "getattr" /\ job[t].open = 0 => Target(t) = Root
           /\ Call(t) \in {"getattr", "setattr"} /\ job[t].open # 0 =>
                 Target(t) = nodeToPath[opens[job[t].open].node]
<1>1. JobOK(t) /\ Jobs /\ Opens /\ OpensOK /\ NodesOK /\ HandlesOK
  BY DEF Shape, Tables
<1>2. /\ Call(t) \in {"getattr", "lookup", "scan", "open", "create", "write", "setattr",
                      "readdir", "rename", "unlink"}
      /\ Call(t) = "lookup" => job[t].cb = "open"
      /\ Call(t) = "create" => job[t].cb = "create"
      /\ Call(t) = "unlink" => job[t].cb = "cleanup"
      /\ Call(t) = "rename" => job[t].cb = "rename"
  BY <1>1, CallFacts
<1>3. job[t].open # 0 => /\ job[t].open \in DOMAIN opens
                         /\ opens[job[t].open].name \in Names
                         /\ opens[job[t].open].node \in DOMAIN nodeToPath
                         /\ nodeToPath[opens[job[t].open].node] \in Paths
                         /\ handles[opens[job[t].open].handle].path \in Paths
  BY <1>1 DEF JobOK, Opens, OpenFile, OpensOK, NodesOK, HandlesOK
<1>4. job[t].cb \in {"rename", "cleanup"} => job[t].open # 0
  BY <1>1 DEF JobOK, ByName
<1>5. Call(t) \in {"lookup", "create", "unlink", "rename"} => job[t].name \in Names
  BY <1>1, <1>2, <1>3, <1>4 DEF JobOK
<1>6. CASE Call(t) \in {"lookup", "create", "unlink", "rename"}
  <2>1. Target(t) = <<job[t].name>>
    BY <1>6 DEF Target
  <2> QED BY <1>5, <1>6, <2>1, NamePath
<1>7. CASE Call(t) \in {"readdir", "scan"} \/ (Call(t) \in {"getattr", "setattr"}
                                               /\ job[t].open = 0)
  <2>1. Target(t) = Root
    BY <1>7 DEF Target
  <2> QED BY <1>7, <2>1, RootPath
<1>8. CASE Call(t) \in {"getattr", "setattr"} /\ job[t].open # 0
  <2>1. Target(t) = nodeToPath[opens[job[t].open].node]
    BY <1>8 DEF Target
  <2> QED BY <1>3, <1>8, <2>1
<1>9. CASE Call(t) = "write"
  <2>1. Target(t) = handles[opens[job[t].open].handle].path
    BY <1>9 DEF Target
  <2>2. job[t].open # 0
    BY <1>1, <1>9, CallFacts DEF JobOK, ByName
  <2> QED BY <1>3, <1>9, <2>1, <2>2
<1> QED BY <1>2, <1>6, <1>7, <1>8, <1>9

LEMMA QuietShape ==
    ASSUME Shape, NEW t \in Threads, Quiet(t), IdxOK(idx'), NodesOK'
    PROVE  Shape'
<1>1. /\ Tables /\ Jobs /\ Opens /\ OpensOK /\ JobOK(t) /\ PathOK(t)
      /\ job[t].cb # "none" /\ Moves(t) /\ NodesGrow /\ handles' = handles
      /\ UNCHANGED <<remote, opens, unsure, handleVars>>
  BY DEF Shape, Quiet, handleVars
<1>2. Tables'
  BY <1>1, HandlesStep DEF Tables, NodesGrow
<1>3. Opens' /\ OpensOK'
  BY <1>1 DEF Opens, OpensOK, NodesGrow
<1>4. Others(t) /\ (Same(t) \/ job'[t] = Idle)
  BY <1>1 DEF Moves, Ends, Goes, Found, Works
<1>5. Alone' /\ \A u \in Threads \ {t} : JobOK(u)' /\ PathOK(u)'
  BY <1>1, <1>4, OtherThreads DEF NodesGrow
<1>6. JobOK(t)' /\ PathOK(t)'
  <2>1. CASE Ends(t)
    BY <2>1, IdleOK DEF Ends
  <2>2. CASE Goes(t)
    <3>1. JobOK(t)'
      BY <1>1, <2>2, JobGoesOn DEF Goes
    <3> QED BY <2>2, <3>1 DEF Goes, PathOK
  <2>3. ASSUME NEW p \in DOMAIN pathToNode' \ {Root}, Found(t, p), job[t].cb = "open"
        PROVE  JobOK(t)' /\ PathOK(t)'
    <3>1. <<"open">> \in Todo("open")
      BY DEF Todo
    <3>2. JobOK(t)'
      BY <1>1, <2>3, <3>1, JobGoesOn DEF Found
    <3> QED BY <2>3, <3>2 DEF Found, PathOK
  <2>4. ASSUME NEW phase, NEW path, NEW seen, Works(t, phase, path, seen)
        PROVE  JobOK(t)' /\ Call(t)' = Call(t)
    BY <1>1, <2>4, JobGoesOn DEF Works, JobOK, Call
  <2>5. CASE /\ job[t].phase = "call" /\ Call(t) # "open"
             /\ Works(t, "ask", Target(t), job[t].seen)
    BY <1>1, <2>4, <2>5, TargetPath DEF Works, Same, PathOK
  <2>6. CASE /\ job[t].phase = "ask" /\ Call(t) \in Looks
             /\ Works(t, "store", job[t].path, Answer(t))
    BY <1>1, <2>4, <2>6 DEF Works, Same, PathOK, Answer, ChildrenOf
  <2>7. CASE job[t].phase = "store" /\ Works(t, "state", job[t].path, job[t].seen)
    BY <1>1, <2>4, <2>7 DEF Works, Same, PathOK
  <2> QED BY <1>1, <2>1, <2>2, <2>3, <2>5, <2>6, <2>7 DEF Moves
<1>7. Jobs'
  BY <1>4 DEF Others
<1> QED BY <1>2, <1>3, <1>5, <1>6, <1>7 DEF Shape

-----------------------------------------------------------------------------
(* The VFS calls that are quiet.                                           *)

QuietStep(t) == Quiet(t) /\ IdxOK(idx') /\ NodesOK'

Children == {<<n>> : n \in Names}

LEMMA ChildPaths == Children \subseteq Paths /\ Root \notin Children
BY NamePath DEF Children

LEMMA FiniteNames ==
    ASSUME NEW S \in SUBSET Children
    PROVE  IsFiniteSet(S)
<1>1. \A n \in Names : Append(Root, n) = <<n>>
  BY DEF Root
<1>2. S \subseteq {Append(Root, n) : n \in Names}
  BY <1>1 DEF Children
<1> QED BY <1>2, FiniteChildren

LEMMA InternStep ==
    ASSUME NodesOK, NEW S \in SUBSET Children, Intern(S)
    PROVE  NodesOK' /\ NodesGrow /\ S \subseteq DOMAIN pathToNode'
<1>1. IsFiniteSet(S) /\ S \subseteq Paths
  BY FiniteNames, ChildPaths
<1>2. /\ NodesOK'
      /\ DOMAIN nodeToPath \subseteq DOMAIN nodeToPath'
      /\ \A n \in DOMAIN nodeToPath : nodeToPath'[n] = nodeToPath[n]
      /\ S \subseteq DOMAIN pathToNode'
  BY <1>1, InternNodes
<1>3. nextNode \in Nat
  BY VfsAssumption DEF NodesOK
<1>4. /\ DOMAIN pathToNode' = DOMAIN pathToNode \cup S
      /\ \A p \in DOMAIN pathToNode : pathToNode'[p] = pathToNode[p]
  BY <1>1, <1>3, InternFacts
<1> QED BY <1>2, <1>4 DEF NodesGrow

LEMMA NodesStay ==
    ASSUME NodesOK, UNCHANGED nodeVars
    PROVE  NodesOK' /\ NodesGrow
BY DEF NodesOK, NodesGrow, nodeVars

LEMMA ListedNames ==
    ASSUME IdxOK(idx), Root \in DOMAIN idx.listing
    PROVE  ListedChildren(Root) = {<<n>> : n \in idx.listing[Root]} \cap DOMAIN idx.attrs
           /\ ListedChildren(Root) \subseteq Children
<1>1. \A n \in Names : Append(Root, n) = <<n>>
  BY DEF Root
<1>2. idx.listing[Root] \subseteq Names
  BY DEF IdxOK
<1> QED BY <1>1, <1>2 DEF ListedChildren, Children

LEMMA OpenTodo == <<"open">> \in Todos /\ <<"scan", "open">> \in Todos
                  /\ <<"scan", "open">> \in Todo("open") /\ <<"scan", "open">> # <<>>
                  /\ Head(<<"scan", "open">>) = "scan"
<1>1. <<"open">> \in Todo("open") /\ <<"scan", "open">> \in Todo("open")
  BY DEF Todo
<1>2. "open" \in ByName \cup OnFile
  BY DEF ByName
<1> QED BY <1>1, <1>2, TwoCalls DEF Todos

\* What a listing leads to.
LEMMA ListStep ==
    ASSUME Shape, NEW t \in Threads, job[t].cb # "none", Call(t) \in {"readdir", "scan"},
           NEW S \in SUBSET Children,
           IF Call(t) = "scan" THEN ScanDone(t, S) ELSE NextCall(t)
    PROVE  \/ Ends(t) /\ ~Moving(t)
           \/ Goes(t) /\ job[t].cb = "list"
           \/ \E p \in S : Found(t, p) /\ job[t].cb = "open"
<1>1. /\ Jobs /\ JobOK(t)
      /\ Call(t) = "scan" => job[t].cb = "open"
      /\ Call(t) = "readdir" => job[t].cb = "list"
  BY CallFacts DEF Shape
<1>2. CASE Call(t) = "readdir"
  <2>1. Ends(t) \/ Goes(t)
    BY <1>1, <1>2, NextCallStep DEF JobOK
  <2> QED BY <1>1, <1>2, <2>1 DEF Moving
<1>3. CASE Call(t) = "scan" /\ Finish(t)
  BY <1>1, <1>3, FinishStep DEF Moving
<1>4. ASSUME Call(t) = "scan", NEW p \in S, Then(t, <<"open">>, p)
      PROVE  Found(t, p) /\ job[t].cb = "open"
  BY <1>1, <1>4, ThenStep, OpenTodo, ChildPaths DEF Found
<1> QED BY <1>2, <1>3, <1>4 DEF ScanDone, Matching

\* A call that ends, and the callback with it or not.
LEMMA NextStep ==
    ASSUME Shape, NEW t \in Threads, job[t].cb # "none",
           Call(t) \in {"getattr", "setattr", "write"}, Finish(t) \/ NextCall(t)
    PROVE  \/ Ends(t) /\ ~Moving(t)
           \/ Goes(t) /\ job[t].cb \notin {"create", "rename", "cleanup"}
<1>1. Jobs /\ JobOK(t) /\ job[t].cb \notin {"create", "rename", "cleanup"}
  BY CallFacts DEF Shape
<1> QED BY <1>1, FinishStep, NextCallStep DEF JobOK, Moving

LEMMA LookupHitQuiet ==
    ASSUME Shape, NEW t \in Threads, LookupHit(t)
    PROVE  QuietStep(t) /\ Found(t, <<job[t].name>>) /\ job[t].cb = "open" /\ job[t].name \in Names
<1>1. /\ Doing(t, "lookup", "call") /\ Intern({Target(t)}) /\ Then(t, <<"open">>, Target(t))
      /\ UNCHANGED <<envVars, idx, handleVars, opens, historyVars>>
      /\ Jobs /\ JobOK(t) /\ NodesOK /\ IdxOK(idx)
  BY DEF LookupHit, Shape, Tables
<1>2. job[t].cb # "none" /\ Call(t) = "lookup"
  BY <1>1, Busy DEF Doing
<1>3. job[t].cb = "open" /\ job[t].name \in Names /\ Target(t) = <<job[t].name>>
  BY <1>1, <1>2, CallFacts, TargetPath
<1>4. NodesOK' /\ NodesGrow /\ Target(t) \in DOMAIN pathToNode'
  BY <1>1, <1>3, InternStep DEF Children
<1>5. Found(t, Target(t))
  BY <1>1, <1>3, ThenStep, OpenTodo, NamePath DEF Found
<1>6. Moves(t)
  BY <1>3, <1>4, <1>5, NamePath DEF Moves
<1> QED BY <1>1, <1>2, <1>3, <1>4, <1>5, <1>6 DEF QuietStep, Quiet, envVars, historyVars

LEMMA LookupNegativeQuiet ==
    ASSUME Shape, NEW t \in Threads,
           LookupNegative(t) \/ (LookupDone(t) /\ job[t].seen = {})
    PROVE  QuietStep(t) /\ Goes(t) /\ job[t].cb = "open"
<1>1. /\ Doing(t, "lookup", "call") \/ Doing(t, "lookup", "state")
      /\ Then(t, <<"scan", "open">>, Root)
      /\ UNCHANGED <<envVars, idx, nodeVars, handleVars, opens, historyVars>>
      /\ Jobs /\ JobOK(t) /\ NodesOK /\ IdxOK(idx)
  BY DEF LookupNegative, LookupDone, Shape, Tables, cacheVars
<1>2. job[t].cb # "none" /\ Call(t) = "lookup"
  BY <1>1, Busy DEF Doing
<1>3. job[t].cb = "open"
  BY <1>1, <1>2, CallFacts
<1>4. Goes(t)
  BY <1>1, <1>3, ThenStep, OpenTodo, RootPath DEF Goes, Call
<1>5. Moves(t)
  BY <1>3, <1>4 DEF Moves
<1> QED BY <1>1, <1>2, <1>3, <1>4, <1>5, NodesStay DEF QuietStep, Quiet, envVars, historyVars

LEMMA LookupFoundQuiet ==
    ASSUME Shape, NEW t \in Threads, LookupDone(t), job[t].seen # {}
    PROVE  /\ QuietStep(t) /\ Found(t, job[t].path) /\ job[t].cb = "open"
           /\ job[t].path = <<job[t].name>> /\ job[t].name \in Names /\ job[t].seen = {job[t].path}
<1>1. /\ Doing(t, "lookup", "state") /\ Intern(job[t].seen) /\ Then(t, <<"open">>, job[t].path)
      /\ UNCHANGED <<envVars, idx, handleVars, opens, historyVars>>
      /\ Jobs /\ JobOK(t) /\ NodesOK /\ IdxOK(idx) /\ PathOK(t)
  BY DEF LookupDone, Shape, Tables
<1>2. job[t].cb # "none" /\ Call(t) = "lookup" /\ job[t].phase = "state"
  BY <1>1, Busy DEF Doing
<1>3. job[t].cb = "open" /\ job[t].name \in Names
  BY <1>1, <1>2, CallFacts, TargetPath
<1>4. job[t].path = <<job[t].name>> /\ job[t].seen = {job[t].path}
  BY <1>1, <1>2 DEF PathOK
<1>5. NodesOK' /\ NodesGrow /\ job[t].path \in DOMAIN pathToNode'
  BY <1>1, <1>3, <1>4, InternStep DEF Children
<1>6. Found(t, job[t].path)
  BY <1>1, <1>3, <1>4, ThenStep, OpenTodo, NamePath DEF Found
<1>7. Moves(t)
  BY <1>3, <1>4, <1>5, <1>6, NamePath DEF Moves
<1> QED BY <1>1, <1>2, <1>3, <1>4, <1>5, <1>6, <1>7 DEF QuietStep, Quiet, envVars, historyVars

LEMMA ReaddirQuiet ==
    ASSUME Shape, NEW t \in Threads, ReaddirHit(t) \/ ReaddirDone(t)
    PROVE  /\ QuietStep(t) /\ UNCHANGED <<idx, negative>> /\ Call(t) \in {"readdir", "scan"}
           /\ \/ Ends(t)
              \/ Goes(t)
              \/ \E p \in IF ReaddirHit(t) THEN ListedChildren(Root) ELSE job[t].seen :
                    Found(t, p) /\ p \in Children
<1> DEFINE S == IF ReaddirHit(t) THEN ListedChildren(Root) ELSE job[t].seen
<1>1. /\ ReaddirHit(t) => /\ Root \in DOMAIN idx.listing
                          /\ Doing(t, "readdir", "call") \/ Doing(t, "scan", "call")
      /\ ~ReaddirHit(t) => Doing(t, "readdir", "state") \/ Doing(t, "scan", "state")
      /\ Intern(S) /\ IF Call(t) = "scan" THEN ScanDone(t, S) ELSE NextCall(t)
      /\ UNCHANGED <<envVars, idx, handleVars, opens, historyVars, negative>>
  BY DEF ReaddirHit, ReaddirDone, ListFromStore
<1>2. Jobs /\ JobOK(t) /\ NodesOK /\ IdxOK(idx) /\ PathOK(t)
  BY DEF Shape, Tables
<1>3. job[t].cb # "none" /\ Call(t) \in {"readdir", "scan"} /\ job[t].phase # "store"
  BY <1>1, <1>2, Busy DEF Doing
<1>4. S \subseteq Children
  BY <1>1, <1>2, <1>3, ListedNames DEF PathOK, Doing, Children
<1> HIDE DEF S
<1>5. NodesOK' /\ NodesGrow /\ S \subseteq DOMAIN pathToNode'
  BY <1>1, <1>2, <1>4, InternStep
<1>6. \/ Ends(t) /\ ~Moving(t)
      \/ Goes(t) /\ job[t].cb = "list"
      \/ \E p \in S : Found(t, p) /\ job[t].cb = "open"
  BY <1>1, <1>3, <1>4, ListStep
<1>7. Moves(t)
  BY <1>3, <1>4, <1>5, <1>6, ChildPaths DEF Moves
<1>8. QuietStep(t)
  BY <1>1, <1>2, <1>3, <1>5, <1>7 DEF QuietStep, Quiet, envVars, historyVars
<1> QED BY <1>1, <1>3, <1>4, <1>6, <1>8 DEF S

LEMMA CallEndsQuiet ==
    ASSUME Shape, NEW t \in Threads,
           GetattrHit(t) \/ GetattrDone(t) \/ SetattrDone(t) \/ WriteDone(t)
    PROVE  QuietStep(t) /\ (Ends(t) \/ Goes(t)) /\ UNCHANGED <<idx, negative>>
<1>1. /\ Finish(t) \/ NextCall(t)
      /\ job[t].todo # <<>> /\ job[t].phase # "store" /\ Call(t) \in {"getattr", "setattr", "write"}
      /\ UNCHANGED <<envVars, idx, nodeVars, handleVars, opens, historyVars, negative>>
  BY DEF GetattrHit, GetattrDone, SetattrDone, WriteDone, Doing, cacheVars
<1>2. Jobs /\ JobOK(t) /\ NodesOK /\ IdxOK(idx)
  BY DEF Shape, Tables
<1>3. job[t].cb # "none"
  BY <1>1, <1>2, Busy
<1>4. \/ Ends(t) /\ ~Moving(t)
      \/ Goes(t) /\ job[t].cb \notin {"create", "rename", "cleanup"}
  BY <1>1, <1>3, NextStep
<1>5. Moves(t)
  BY <1>1, <1>4 DEF Moves
<1> QED BY <1>1, <1>2, <1>3, <1>4, <1>5, NodesStay DEF QuietStep, Quiet, envVars, historyVars

LEMMA AskQuiet ==
    ASSUME Shape, NEW t \in Threads, Ask(t)
    PROVE  /\ QuietStep(t) /\ UNCHANGED <<idx, negative>>
           /\ Works(t, "ask", Target(t), job[t].seen)
<1>1. /\ job[t].todo # <<>> /\ job[t].phase = "call" /\ Call(t) # "open"
      /\ job' = [job EXCEPT ![t].path = Target(t), ![t].phase = "ask"]
      /\ UNCHANGED <<envVars, idx, nodeVars, handleVars, opens, historyVars, negative>>
      /\ Jobs /\ JobOK(t) /\ NodesOK /\ IdxOK(idx)
  BY DEF Ask, Shape, Tables, cacheVars
<1>2. job[t].cb # "none"
  BY <1>1, Busy
<1>3. Target(t) \in Paths
  BY <1>1, <1>2, TargetPath
<1>4. Works(t, "ask", Target(t), job[t].seen)
  BY <1>1, <1>3, AskStep
<1>5. Moves(t)
  BY <1>1, <1>4 DEF Moves
<1> QED BY <1>1, <1>2, <1>4, <1>5, NodesStay DEF QuietStep, Quiet, envVars, historyVars

LEMMA AnswersQuiet ==
    ASSUME Shape, NEW t \in Threads, ServerAnswers(t)
    PROVE  /\ QuietStep(t) /\ UNCHANGED <<idx, negative>>
           /\ Works(t, "store", job[t].path, Answer(t))
<1>1. /\ job[t].phase = "ask" /\ Call(t) \in Looks
      /\ job' = [job EXCEPT ![t].phase = "store", ![t].seen = Answer(t)]
      /\ UNCHANGED <<envVars, idx, nodeVars, handleVars, opens, historyVars, negative>>
      /\ Jobs /\ JobOK(t) /\ NodesOK /\ IdxOK(idx)
  BY DEF ServerAnswers, Shape, Tables, cacheVars
<1>2. job[t].cb # "none"
  BY <1>1, Busy
<1>3. Answer(t) \subseteq Paths
  <2>1. job[t].path \in Paths
    BY <1>1 DEF Jobs, Job
  <2> QED BY <2>1, ChildPaths DEF Answer, ChildrenOf, Children
<1>4. Works(t, "store", job[t].path, Answer(t))
  BY <1>1, <1>3, AnswerStep
<1>5. Moves(t)
  BY <1>1, <1>4 DEF Moves
<1> QED BY <1>1, <1>2, <1>4, <1>5, NodesStay DEF QuietStep, Quiet, envVars, historyVars

\* The transport never reports that the server cannot be reached.
LEMMA NeverUnavailable == ~IsUnreachable(LinkError)
<1>1. LinkError = "RemoteBackend"
  BY Zenon DEF LinkError, MapSftpError
<1> QED BY <1>1 DEF IsUnreachable

LEMMA FailsQuiet ==
    ASSUME Shape, NEW t \in Threads, ServerRefuses(t) \/ RequestFails(t)
    PROVE  QuietStep(t) /\ UNCHANGED <<idx, negative>> /\ Ends(t)
<1>1. /\ job[t].phase = "ask" /\ Finish(t)
      /\ UNCHANGED <<envVars, idx, nodeVars, handleVars, opens, negative, unsure, misdeleted>>
      /\ Jobs /\ JobOK(t) /\ NodesOK /\ IdxOK(idx)
  BY NeverUnavailable DEF ServerRefuses, RequestFails, Shape, Tables, cacheVars, historyVars
<1>2. job[t].cb # "none"
  BY <1>1, Busy
<1>3. Ends(t)
  BY <1>1, FinishStep
<1>4. Moves(t)
  BY <1>1, <1>3 DEF Moves, Moving, Answered
<1> QED BY <1>1, <1>2, <1>3, <1>4, NodesStay DEF QuietStep, Quiet, envVars

LEMMA UnlinkDoneQuiet ==
    ASSUME Shape, NEW t \in Threads, UnlinkDone(t)
    PROVE  /\ QuietStep(t) /\ UNCHANGED idx /\ Ends(t) /\ job[t].cb = "cleanup"
           /\ job[t].phase = "state" /\ negative' = Put(negative, <<RootNode, job[t].name>>, clock)
<1>1. /\ Doing(t, "unlink", "state") /\ Finish(t)
      /\ negative' = Put(negative, <<RootNode, job[t].name>>, clock)
      /\ UNCHANGED <<envVars, idx, nodeVars, handleVars, opens, historyVars>>
      /\ Jobs /\ JobOK(t) /\ NodesOK /\ IdxOK(idx)
  BY DEF UnlinkDone, Shape, Tables
<1>2. job[t].cb # "none" /\ Call(t) = "unlink" /\ job[t].phase = "state"
  BY <1>1, Busy DEF Doing
<1>3. Ends(t) /\ job[t].cb = "cleanup"
  BY <1>1, <1>2, FinishStep, CallFacts
<1>4. Moves(t)
  BY <1>2, <1>3 DEF Moves, Moving
<1> QED BY <1>1, <1>2, <1>3, <1>4, NodesStay DEF QuietStep, Quiet, envVars, historyVars

-----------------------------------------------------------------------------
(* The edits of the store.                                                 *)

Attrs(S) == [q \in S |-> <<0, 0>>]
Kids(S) == [n \in {q[1] : q \in S} |-> <<0, 0>>]

LEMMA KidNames ==
    ASSUME NEW S \in SUBSET Children
    PROVE  /\ DOMAIN Kids(S) \subseteq Names
           /\ \A n \in Names : n \in DOMAIN Kids(S) <=> <<n>> \in S
<1>1. DOMAIN Kids(S) = {q[1] : q \in S}
  BY DEF Kids
<1>2. \A n : <<n>>[1] = n
  OBVIOUS
<1>3. \A q \in S : \E n \in Names : q = <<n>> /\ q[1] = n
  BY <1>2 DEF Children
<1> QED BY <1>1, <1>2, <1>3

\* What EditStore makes of the index, call by call.
LEMMA EditFacts ==
    ASSUME NEW t \in Threads, EditStore(t)
    PROVE  /\ Call(t) \in {"getattr", "lookup"} =>
                  idx' = IF job[t].seen = {} THEN RemoveEntry(idx, job[t].path)
                                             ELSE StoreAttrs(idx, Attrs(job[t].seen))
           /\ Call(t) \in {"readdir", "scan"} => idx' = RecordListing(idx, Root, Kids(job[t].seen))
           /\ Call(t) = "create" => idx' = DropListing(StoreAttrs(idx, Attrs({job[t].path})))
           /\ Call(t) = "unlink" => idx' = DropListing(RemoveEntry(idx, job[t].path))
           /\ Call(t) = "rename" =>
                  idx' = DropListing(RenameEntry(idx, job[t].path, <<job[t].new>>))
           /\ Call(t) = "setattr" => idx' = StoreAttrs(idx, Attrs({job[t].path}))
           /\ Call(t) = "write" => idx' = InvalidateContent(idx, job[t].path)
BY DEF EditStore, Attrs, Kids

LEMMA EditStoreQuiet ==
    ASSUME Shape, NEW t \in Threads, EditStore(t)
    PROVE  /\ QuietStep(t) /\ UNCHANGED negative
           /\ job[t].phase = "store" /\ Works(t, "state", job[t].path, job[t].seen)
<1> DEFINE p == job[t].path
           seen == job[t].seen
<1>1. /\ job[t].phase = "store" /\ job' = [job EXCEPT ![t].phase = "state"]
      /\ UNCHANGED <<envVars, nodeVars, handleVars, opens, historyVars, negative>>
      /\ Jobs /\ JobOK(t) /\ PathOK(t) /\ NodesOK /\ IdxOK(idx)
  BY DEF EditStore, Shape, Tables
<1>2. job[t].cb # "none"
  BY <1>1, Busy
<1>3. Works(t, "state", p, seen)
  BY <1>1, PhaseStep
<1>4. Moves(t)
  BY <1>1, <1>3 DEF Moves
<1>5. p \in Paths /\ seen \subseteq Paths
  BY <1>1 DEF Jobs, Job
<1>6. IdxOK(idx')
  <2> HIDE DEF p, seen
  <2>1. DOMAIN Attrs(seen) = seen /\ DOMAIN Attrs({p}) = {p}
    BY DEF Attrs
  <2>2. CASE Call(t) \in {"getattr", "lookup"}
    <3>1. idx' = IF seen = {} THEN RemoveEntry(idx, p) ELSE StoreAttrs(idx, Attrs(seen))
      BY <2>2, EditFacts DEF p, seen
    <3> QED BY <1>1, <1>5, <2>1, <3>1, RemoveEntryOK, StoreAttrsOK
  <2>3. CASE Call(t) \in {"readdir", "scan"}
    <3>1. idx' = RecordListing(idx, Root, Kids(seen))
      BY <2>3, EditFacts DEF seen
    <3>2. seen \in SUBSET Children
      BY <1>1, <2>3 DEF PathOK, Children, seen
    <3>3. \A n \in DOMAIN Kids(seen) : Append(Root, n) \in Paths
      <4>1. \A n \in Names : Append(Root, n) = <<n>>
        BY DEF Root
      <4> QED BY <3>2, <4>1, KidNames, ChildPaths DEF Children
    <3> QED BY <1>1, <3>1, <3>2, <3>3, KidNames, RecordListingOK, RootPath
  <2>4. CASE Call(t) = "create"
    <3>1. idx' = DropListing(StoreAttrs(idx, Attrs({p})))
      BY <2>4, EditFacts DEF p
    <3>2. IdxOK(StoreAttrs(idx, Attrs({p})))
      BY <1>1, <1>5, <2>1, StoreAttrsOK
    <3> QED BY <3>1, <3>2, InvalidateChildrenOK DEF DropListing
  <2>5. CASE Call(t) = "unlink"
    <3>1. idx' = DropListing(RemoveEntry(idx, p))
      BY <2>5, EditFacts DEF p
    <3>2. IdxOK(RemoveEntry(idx, p))
      BY <1>1, RemoveEntryOK
    <3> QED BY <3>1, <3>2, InvalidateChildrenOK DEF DropListing
  <2>6. CASE Call(t) = "rename"
    <3>1. idx' = DropListing(RenameEntry(idx, p, <<job[t].new>>))
      BY <2>6, EditFacts DEF p
    <3>2. job[t].new \in Names
      BY <1>1, <1>2, <2>6, CallFacts DEF JobOK
    <3>3. IdxOK(RenameEntry(idx, p, <<job[t].new>>))
      BY <1>1, <1>5, <3>2, NamePath, RenameEntryOK
    <3> QED BY <3>1, <3>3, InvalidateChildrenOK DEF DropListing
  <2>7. CASE Call(t) = "setattr"
    <3>1. idx' = StoreAttrs(idx, Attrs({p}))
      BY <2>7, EditFacts DEF p
    <3> QED BY <1>1, <1>5, <2>1, <3>1, StoreAttrsOK
  <2>8. CASE Call(t) = "write"
    <3>1. idx' = InvalidateContent(idx, p)
      BY <2>8, EditFacts DEF p
    <3> QED BY <1>1, <3>1, InvalidateContentOK
  <2>9. Call(t) # "open"
    BY <1>1 DEF PathOK
  <2> QED BY <1>1, <1>2, <2>2, <2>3, <2>4, <2>5, <2>6, <2>7, <2>8, <2>9, CallFacts
<1> QED BY <1>1, <1>2, <1>3, <1>4, <1>6, NodesStay DEF QuietStep, Quiet, envVars, historyVars

-----------------------------------------------------------------------------
(* Callbacks begin.                                                        *)

\* The callback t takes up, with its open file and its name.
Begins(t) ==
    /\ Others(t) /\ job[t] = Idle
    /\ job'[t].cb \notin {"none"} /\ job'[t].phase = "call" /\ Call(t)' # "open"
    /\ UNCHANGED <<remote, nodeVars, handleVars, idx, negative, unsure, misdeleted>>

\* WinFsp's files stay, but for marks.
OpensStay ==
    /\ DOMAIN opens' = DOMAIN opens
    /\ \A o \in DOMAIN opens :
          /\ opens'[o].node = opens[o].node /\ opens'[o].handle = opens[o].handle
          /\ opens'[o].name = opens[o].name /\ opens'[o].at = opens[o].at
          /\ opens'[o].astray = opens[o].astray
          /\ opens[o].cleaned => opens'[o].cleaned

LEMMA BeginShape ==
    ASSUME Shape, NEW t \in Threads, NEW new \in Job, Begin(t, new), new.cb # "none",
           new.todo \in Todo(new.cb), Head(new.todo) # "open",
           new.guard = GuardOf(new.cb), new.phase = "call", new.open = 0 <=> new.cb \in ByName,
           new.open # 0 => /\ new.open \in DOMAIN opens /\ ~opens[new.open].cleaned
                           /\ opens'[new.open].cleaned <=> new.cb = "cleanup",
           new.cb \in {"open", "create"} => new.name \in Names,
           new.cb = "rename" => new.new \in Names,
           new.cb \in {"rename", "cleanup"} => new.name = opens[new.open].name,
           Opens', OpensStay, UNCHANGED historyVars,
           \A o \in DOMAIN opens \ {new.open} : opens'[o].cleaned = opens[o].cleaned
    PROVE  Shape' /\ Begins(t) /\ job'[t] = new
<1>1. /\ job[t] = Idle /\ GuardFree(new.guard)
      /\ new.open # 0 => FileFree(new.open, new.cb)
      /\ job' = [job EXCEPT ![t] = new] /\ UNCHANGED <<envVars, cacheVars>>
      /\ Tables /\ Jobs /\ Opens /\ OpensOK /\ Alone
      /\ \A u \in Threads : JobOK(u) /\ PathOK(u)
  BY DEF Begin, Shape
<1>2. job'[t] = new /\ Others(t)
  BY <1>1 DEF Jobs, Others
<1>3. Begins(t)
  BY <1>1, <1>2 DEF Begins, Call, envVars, cacheVars, nodeVars, handleVars, historyVars
<1>4. Tables'
  BY <1>1 DEF Tables, envVars, cacheVars, nodeVars, handleVars, historyVars, NodesOK, HandlesOK,
              IsTree, DirIn, IdxOK
<1>5. OpensOK'
  BY <1>1 DEF OpensOK, OpensStay, cacheVars, nodeVars, handleVars
<1>6. JobOK(t)' /\ PathOK(t)'
  <2>1. JobOK(t)'
    BY <1>2 DEF JobOK, OpensStay, ByName
  <2> QED BY <1>2, <2>1 DEF PathOK, Call
<1>7. ASSUME NEW u \in Threads \ {t}
      PROVE  JobOK(u)' /\ PathOK(u)'
  <2>1. job'[u] = job[u] /\ JobOK(u) /\ PathOK(u)
    BY <1>1, <1>2 DEF Others
  <2>2. job[u].open # 0 /\ job[u].open = new.open => new.cb = "info"
    <3>1. SUFFICES ASSUME job[u].open # 0, job[u].open = new.open PROVE new.cb = "info"
      OBVIOUS
    <3>2. SameFile(new.open, job[u].open)
      BY <3>1 DEF SameFile
    <3>3. {new.cb, job[u].cb} = {"info"}
      BY <1>1, <3>1, <3>2 DEF FileFree
    <3> QED BY <3>3
  <2>3. job[u].open # 0 => (opens'[job[u].open].cleaned <=> opens[job[u].open].cleaned)
    BY <2>1, <2>2 DEF JobOK
  <2>4. JobOK(u)'
    BY <2>1, <2>3 DEF JobOK, OpensStay, ByName
  <2> QED BY <1>1, <2>1, <2>4 DEF PathOK, Call, cacheVars, nodeVars
<1>8. ASSUME NEW u \in Threads, NEW v \in Threads, u # v
      PROVE  Apart(u, v)'
  <2>1. Apart(u, v) /\ Apart(v, u)
    BY <1>1, <1>8 DEF Alone
  <2>2. \A o, p \in DOMAIN opens : SameFile(o, p)' <=> SameFile(o, p)
    BY DEF OpensStay, SameFile
  <2>3. CASE u # t /\ v # t
    BY <1>1, <1>2, <2>1, <2>2, <2>3 DEF Apart, Others, JobOK
  <2>4. ASSUME NEW w \in Threads \ {t}
        PROVE  Apart(t, w)' /\ Apart(w, t)'
    <3>1. job'[w] = job[w] /\ job'[t] = new /\ JobOK(w)
      BY <1>1, <1>2 DEF Others
    <3>2. /\ new.guard = "exclusive" => job[w].guard = "none"
          /\ job[w].guard = "exclusive" => new.guard = "none"
      <4>1. new.guard \in {"none", "shared", "exclusive"}
        BY DEF Job
      <4> QED BY <1>1, <4>1 DEF GuardFree
    <3>3. ASSUME new.open # 0, job[w].open # 0,
                 SameFile(new.open, job[w].open) \/ SameFile(job[w].open, new.open)
          PROVE  new.cb = "info" /\ job[w].cb = "info"
      <4>1. SameFile(new.open, job[w].open)
        BY <3>3 DEF SameFile
      <4>2. {new.cb, job[w].cb} = {"info"}
        BY <1>1, <3>3, <4>1 DEF FileFree
      <4> QED BY <4>2
    <3>4. \A o \in {new.open, job[w].open} : o # 0 => o \in DOMAIN opens
      BY <3>1 DEF JobOK
    <3> QED BY <2>2, <3>1, <3>2, <3>3, <3>4 DEF Apart
  <2> QED BY <1>8, <2>3, <2>4
<1>9. Jobs'
  BY <1>2 DEF Others
<1> QED BY <1>2, <1>3, <1>4, <1>5, <1>6, <1>7, <1>8, <1>9 DEF Shape, Alone

LEMMA TodoTyped ==
    ASSUME NEW cb \in ByName \cup OnFile, NEW todo \in Todo(cb)
    PROVE  todo \in Todos
BY DEF Todos

\* A callback on no open file.
LEMMA NamedBegins ==
    ASSUME Shape, NEW t \in Threads, NEW cb \in {"open", "create", "list"},
           NEW name \in Names \cup {"none"}, cb # "list" => name \in Names,
           NEW todo \in Todo(cb), Head(todo) # "open", NEW new \in Job, Begin(t, new),
           new.cb = cb, new.guard = GuardOf(cb), new.open = 0, new.name = name, new.todo = todo,
           new.phase = "call", UNCHANGED <<opens, historyVars>>
    PROVE  Shape' /\ Begins(t) /\ UNCHANGED opens /\ job'[t].cb # "cleanup"
<1>1. cb \in ByName /\ cb # "none" /\ cb \notin {"rename", "cleanup"}
  BY DEF ByName
<1>2. Opens' /\ OpensStay
  BY DEF Shape, Opens, OpensStay
<1> QED BY <1>1, <1>2, BeginShape

\* A callback on an open file.
LEMMA FileBegins ==
    ASSUME Shape, NEW t \in Threads, NEW cb \in {"info", "write", "setInfo", "overwrite"},
           NEW o \in Usable, NEW todo \in Todo(cb), NEW new \in Job, Begin(t, new),
           new.cb = cb, new.guard = GuardOf(cb), new.open = o, new.todo = todo,
           new.phase = "call", UNCHANGED <<opens, historyVars>>
    PROVE  Shape' /\ Begins(t) /\ UNCHANGED opens /\ job'[t].cb # "cleanup"
<1>1. cb \in ByName \cup OnFile /\ cb \notin ByName /\ cb \notin {"none", "rename", "cleanup"}
  BY DEF ByName, OnFile
<1>2. o \in Nat \ {0} /\ o \in DOMAIN opens /\ ~opens[o].cleaned
  BY DEF Usable, Shape, Opens
<1>3. Opens' /\ OpensStay
  BY DEF Shape, Opens, OpensStay
<1>4. Head(todo) # "open"
  <2>1. Fits(cb, todo)
    BY <1>1, TodoFits
  <2> QED BY <2>1 DEF Fits, Calls
<1> QED BY <1>1, <1>2, <1>3, <1>4, BeginShape

LEMMA RenameBegins ==
    ASSUME Shape, NEW t \in Threads, NEW o \in Usable, NEW n \in Names, RenameFile(t, o, n)
    PROVE  Shape' /\ Begins(t) /\ job'[t].cb = "rename"
<1> DEFINE new == [Idle EXCEPT !.cb = "rename", !.guard = "exclusive", !.open = o,
                               !.name = opens[o].name, !.new = n, !.todo = <<"rename">>]
<1>1. /\ "rename" \in ByName \cup OnFile /\ "rename" \notin ByName
      /\ <<"rename">> \in Todo("rename") /\ GuardOf("rename") = "exclusive"
  BY DEF ByName, OnFile, Todo, GuardOf
<1>2. <<"rename">> \in Todos /\ Head(<<"rename">>) = "rename"
  BY <1>1, TodoTyped, OneCall
<1>3. o \in Nat \ {0} /\ o \in DOMAIN opens /\ ~opens[o].cleaned /\ opens[o].name \in Names
  BY DEF Usable, Shape, Opens, OpenFile
<1>4. new \in Job
  BY <1>1, <1>2, <1>3, RootPath DEF Job, Idle
<1>5. /\ new.cb = "rename" /\ new.guard = "exclusive" /\ new.open = o /\ new.name = opens[o].name
      /\ new.new = n /\ new.todo = <<"rename">> /\ new.phase = "call"
  BY DEF Idle
<1>6. Begin(t, new) /\ UNCHANGED <<opens, historyVars>>
  BY DEF RenameFile
<1> HIDE DEF new
<1>7. Opens' /\ OpensStay
  BY <1>6 DEF Shape, Opens, OpensStay
<1> QED BY <1>1, <1>2, <1>3, <1>4, <1>5, <1>6, <1>7, BeginShape

LEMMA CleanupBegins ==
    ASSUME Shape, NEW t \in Threads, NEW o \in Usable, Cleanup(t, o)
    PROVE  /\ Shape' /\ Begins(t) /\ OpensStay /\ LastHandle(o)
           /\ job'[t].cb = "cleanup" /\ job'[t].open = o
           /\ \A p \in DOMAIN opens \ {o} : opens'[p] = opens[p]
<1> DEFINE new == [Idle EXCEPT !.cb = "cleanup", !.guard = "exclusive", !.open = o,
                               !.name = opens[o].name, !.todo = <<"unlink">>]
<1>1. /\ "cleanup" \in ByName \cup OnFile /\ "cleanup" \notin ByName
      /\ <<"unlink">> \in Todo("cleanup") /\ GuardOf("cleanup") = "exclusive"
  BY DEF ByName, OnFile, Todo, GuardOf
<1>2. <<"unlink">> \in Todos /\ Head(<<"unlink">>) = "unlink"
  BY <1>1, TodoTyped, OneCall
<1>3. o \in Nat \ {0} /\ o \in DOMAIN opens /\ ~opens[o].cleaned /\ opens[o].name \in Names
  BY DEF Usable, Shape, Opens, OpenFile
<1>4. new \in Job
  BY <1>1, <1>2, <1>3, RootPath DEF Job, Idle
<1>5. /\ new.cb = "cleanup" /\ new.guard = "exclusive" /\ new.open = o /\ new.name = opens[o].name
      /\ new.todo = <<"unlink">> /\ new.phase = "call"
  BY DEF Idle
<1>6. /\ Begin(t, new) /\ UNCHANGED historyVars /\ LastHandle(o)
      /\ opens' = [opens EXCEPT ![o].deletePending = FALSE, ![o].cleaned = TRUE]
  BY DEF Cleanup
<1> HIDE DEF new
<1>7. /\ opens[o] \in OpenFile /\ opens \in [DOMAIN opens -> OpenFile]
      /\ DOMAIN opens \subseteq Nat \ {0}
  BY <1>3 DEF Shape, Opens
<1> DEFINE f == [opens[o] EXCEPT !.deletePending = FALSE, !.cleaned = TRUE]
<1>8. /\ f \in OpenFile /\ f.cleaned = TRUE /\ f.node = opens[o].node /\ f.handle = opens[o].handle
      /\ f.name = opens[o].name /\ f.at = opens[o].at /\ f.astray = opens[o].astray
  BY <1>7 DEF OpenFile
<1>9. opens' = [opens EXCEPT ![o] = f]
  BY <1>6
<1> HIDE DEF f
<1>10. /\ Opens' /\ OpensStay /\ opens'[o].cleaned
       /\ \A p \in DOMAIN opens \ {o} : opens'[p] = opens[p]
  BY <1>3, <1>7, <1>8, <1>9 DEF Opens, OpensStay
<1>11. PICK n \in Job : n = new
  BY <1>4
<1>12. /\ n.cb # "none" /\ n.todo \in Todo(n.cb) /\ Head(n.todo) # "open"
       /\ n.guard = GuardOf(n.cb) /\ n.phase = "call"
       /\ n.cb \notin {"open", "create", "rename"} /\ n.name = opens[n.open].name
  BY <1>1, <1>2, <1>5, <1>11
<1>13. /\ n.open = 0 <=> n.cb \in ByName
       /\ n.open \in DOMAIN opens /\ ~opens[n.open].cleaned
       /\ opens'[n.open].cleaned <=> n.cb = "cleanup"
       /\ \A p \in DOMAIN opens \ {n.open} : opens'[p].cleaned = opens[p].cleaned
  BY <1>1, <1>3, <1>5, <1>10, <1>11
<1>14. Begin(t, n) /\ UNCHANGED historyVars /\ Opens' /\ OpensStay
  BY <1>6, <1>10, <1>11
<1>15. Shape' /\ Begins(t) /\ job'[t] = n
  BY ONLY Shape, t \in Threads, n \in Job, <1>12, <1>13, <1>14, BeginShape
<1> QED BY <1>5, <1>6, <1>10, <1>11, <1>15

\* What every callback begins with.
LEMMA CallbackBegins ==
    ASSUME Shape, NEW t \in Threads, Callbacks(t)
    PROVE  /\ Shape' /\ Begins(t)
           /\ \/ UNCHANGED opens /\ job'[t].cb # "cleanup"
              \/ /\ OpensStay /\ LastHandle(job'[t].open) /\ job'[t].cb = "cleanup"
                 /\ job'[t].open \in Usable
                 /\ \A p \in DOMAIN opens \ {job'[t].open} : opens'[p] = opens[p]
<1>1. ASSUME NEW name \in Names, OpenByName(t, name)
      PROVE  Shape' /\ Begins(t) /\ UNCHANGED opens /\ job'[t].cb # "cleanup"
  <2> DEFINE new == [Idle EXCEPT !.cb = "open", !.guard = "shared", !.name = name,
                                 !.todo = <<"getattr", "lookup", "open">>]
  <2>1. /\ <<"getattr", "lookup", "open">> \in Todo("open") /\ GuardOf("open") = "shared"
        /\ "open" \in ByName
    BY DEF Todo, GuardOf, ByName
  <2>2. /\ <<"getattr", "lookup", "open">> \in Todos
        /\ Head(<<"getattr", "lookup", "open">>) = "getattr"
    BY <2>1, TodoTyped, ThreeCalls
  <2>3. /\ new \in Job /\ new.cb = "open" /\ new.guard = "shared" /\ new.open = 0
        /\ new.name = name /\ new.todo = <<"getattr", "lookup", "open">> /\ new.phase = "call"
    BY <2>1, <2>2, RootPath DEF Idle, Job
  <2>4. Begin(t, new) /\ UNCHANGED <<opens, historyVars>>
    BY <1>1 DEF OpenByName
  <2> HIDE DEF new
  <2> QED BY <2>1, <2>2, <2>3, <2>4, NamedBegins
<1>2. ASSUME NEW name \in Names, CreateByName(t, name)
      PROVE  Shape' /\ Begins(t) /\ UNCHANGED opens /\ job'[t].cb # "cleanup"
  <2> DEFINE new == [Idle EXCEPT !.cb = "create", !.guard = "exclusive", !.name = name,
                                 !.todo = <<"create">>]
  <2>1. <<"create">> \in Todo("create") /\ GuardOf("create") = "exclusive" /\ "create" \in ByName
    BY DEF Todo, GuardOf, ByName
  <2>2. <<"create">> \in Todos /\ Head(<<"create">>) = "create"
    BY <2>1, TodoTyped, OneCall
  <2>3. /\ new \in Job /\ new.cb = "create" /\ new.guard = "exclusive" /\ new.open = 0
        /\ new.name = name /\ new.todo = <<"create">> /\ new.phase = "call"
    BY <2>1, <2>2, RootPath DEF Idle, Job
  <2>4. Begin(t, new) /\ UNCHANGED <<opens, historyVars>>
    BY <1>2 DEF CreateByName
  <2> HIDE DEF new
  <2> QED BY <2>1, <2>2, <2>3, <2>4, NamedBegins
<1>3. ASSUME NEW o \in Usable, GetFileInfo(t, o)
      PROVE  Shape' /\ Begins(t) /\ UNCHANGED opens /\ job'[t].cb # "cleanup"
  <2> DEFINE new == [Idle EXCEPT !.cb = "info", !.open = o, !.todo = <<"getattr">>]
  <2>1. <<"getattr">> \in Todo("info") /\ GuardOf("info") = "none" /\ "info" \in OnFile
    BY DEF Todo, GuardOf, OnFile
  <2>2. <<"getattr">> \in Todos /\ o \in Nat
    BY <2>1, TodoTyped DEF Usable, Shape, Opens
  <2>3. /\ new \in Job /\ new.cb = "info" /\ new.guard = "none" /\ new.open = o
        /\ new.todo = <<"getattr">> /\ new.phase = "call"
    BY <2>1, <2>2, RootPath DEF Idle, Job
  <2>4. Begin(t, new) /\ UNCHANGED <<opens, historyVars>>
    BY <1>3 DEF GetFileInfo
  <2> HIDE DEF new
  <2> QED BY <2>1, <2>3, <2>4, FileBegins
<1>4. ASSUME NEW o \in Usable, WriteFile(t, o)
      PROVE  Shape' /\ Begins(t) /\ UNCHANGED opens /\ job'[t].cb # "cleanup"
  <2>0. PICK todo \in {<<"write", "getattr">>, <<"getattr", "write", "getattr">>,
                       <<"getattr", "getattr">>} :
              Begin(t, [Idle EXCEPT !.cb = "write", !.open = o, !.todo = todo])
    BY <1>4 DEF WriteFile
  <2> DEFINE new == [Idle EXCEPT !.cb = "write", !.open = o, !.todo = todo]
  <2>1. todo \in Todo("write") /\ GuardOf("write") = "none" /\ "write" \in OnFile
    BY DEF Todo, GuardOf, OnFile
  <2>2. todo \in Todos /\ o \in Nat
    BY <2>1, TodoTyped DEF Usable, Shape, Opens
  <2>3. /\ new \in Job /\ new.cb = "write" /\ new.guard = "none" /\ new.open = o
        /\ new.todo = todo /\ new.phase = "call"
    BY <2>1, <2>2, RootPath DEF Idle, Job
  <2>4. Begin(t, new) /\ UNCHANGED <<opens, historyVars>>
    BY <2>0, <1>4 DEF WriteFile
  <2> HIDE DEF new
  <2> QED BY <2>1, <2>3, <2>4, FileBegins
<1>5. ASSUME NEW o \in Usable, SetInfo(t, o)
      PROVE  Shape' /\ Begins(t) /\ UNCHANGED opens /\ job'[t].cb # "cleanup"
  <2>0. PICK todo \in {<<"setattr", "getattr">>, <<"getattr">>} :
              Begin(t, [Idle EXCEPT !.cb = "setInfo", !.open = o, !.todo = todo])
    BY <1>5 DEF SetInfo
  <2> DEFINE new == [Idle EXCEPT !.cb = "setInfo", !.open = o, !.todo = todo]
  <2>1. todo \in Todo("setInfo") /\ GuardOf("setInfo") = "none" /\ "setInfo" \in OnFile
    BY DEF Todo, GuardOf, OnFile
  <2>2. todo \in Todos /\ o \in Nat
    BY <2>1, TodoTyped DEF Usable, Shape, Opens
  <2>3. /\ new \in Job /\ new.cb = "setInfo" /\ new.guard = "none" /\ new.open = o
        /\ new.todo = todo /\ new.phase = "call"
    BY <2>1, <2>2, RootPath DEF Idle, Job
  <2>4. Begin(t, new) /\ UNCHANGED <<opens, historyVars>>
    BY <2>0, <1>5 DEF SetInfo
  <2> HIDE DEF new
  <2> QED BY <2>1, <2>3, <2>4, FileBegins
<1>6. ASSUME NEW o \in Usable, OverwriteFile(t, o)
      PROVE  Shape' /\ Begins(t) /\ UNCHANGED opens /\ job'[t].cb # "cleanup"
  <2> DEFINE new == [Idle EXCEPT !.cb = "overwrite", !.guard = "exclusive", !.open = o,
                                 !.todo = <<"setattr", "getattr">>]
  <2>1. /\ <<"setattr", "getattr">> \in Todo("overwrite") /\ GuardOf("overwrite") = "exclusive"
        /\ "overwrite" \in OnFile
    BY DEF Todo, GuardOf, OnFile
  <2>2. <<"setattr", "getattr">> \in Todos /\ o \in Nat
    BY <2>1, TodoTyped DEF Usable, Shape, Opens
  <2>3. /\ new \in Job /\ new.cb = "overwrite" /\ new.guard = "exclusive" /\ new.open = o
        /\ new.todo = <<"setattr", "getattr">> /\ new.phase = "call"
    BY <2>1, <2>2, RootPath DEF Idle, Job
  <2>4. Begin(t, new) /\ UNCHANGED <<opens, historyVars>>
    BY <1>6 DEF OverwriteFile
  <2> HIDE DEF new
  <2> QED BY <2>1, <2>3, <2>4, FileBegins
<1>7. ASSUME ReadDirectory(t)
      PROVE  Shape' /\ Begins(t) /\ UNCHANGED opens /\ job'[t].cb # "cleanup"
  <2> DEFINE new == [Idle EXCEPT !.cb = "list", !.guard = "shared", !.todo = <<"getattr", "readdir">>]
  <2>1. <<"getattr", "readdir">> \in Todo("list") /\ GuardOf("list") = "shared" /\ "list" \in ByName
    BY DEF Todo, GuardOf, ByName
  <2>2. <<"getattr", "readdir">> \in Todos /\ Head(<<"getattr", "readdir">>) = "getattr"
    BY <2>1, TodoTyped, TwoCalls
  <2>3. /\ new \in Job /\ new.cb = "list" /\ new.guard = "shared" /\ new.open = 0
        /\ new.name = "none" /\ new.todo = <<"getattr", "readdir">> /\ new.phase = "call"
    BY <2>1, <2>2, RootPath DEF Idle, Job
  <2>4. Begin(t, new) /\ UNCHANGED <<opens, historyVars>>
    BY <1>7 DEF ReadDirectory
  <2> HIDE DEF new
  <2> QED BY <2>1, <2>2, <2>3, <2>4, NamedBegins
<1>8. ASSUME NEW o \in Usable, NEW n \in Names, RenameFile(t, o, n)
      PROVE  Shape' /\ Begins(t) /\ UNCHANGED opens /\ job'[t].cb # "cleanup"
  BY <1>8, RenameBegins DEF RenameFile
<1>9. ASSUME NEW o \in Usable, Cleanup(t, o)
      PROVE  /\ Shape' /\ Begins(t) /\ OpensStay /\ LastHandle(job'[t].open)
             /\ job'[t].cb = "cleanup" /\ job'[t].open \in Usable
             /\ \A p \in DOMAIN opens \ {job'[t].open} : opens'[p] = opens[p]
  BY <1>9, CleanupBegins
<1> QED BY <1>1, <1>2, <1>3, <1>4, <1>5, <1>6, <1>7, <1>8, <1>9 DEF Callbacks

-----------------------------------------------------------------------------
(* The server carries out a change.                                        *)

LEMMA NothingUnder ==
    ASSUME NEW n \in Names, NEW q \in Paths
    PROVE  Below(<<n>>, q) <=> q = <<n>>
<1>1. CASE q = Root
  BY <1>1 DEF Below, Under, Root
<1>2. ASSUME NEW m \in Names, q = <<m>> PROVE ~Under(<<n>>, q)
  BY <1>2 DEF Under
<1> QED BY <1>1, <1>2, FlatPaths DEF Below

LEMMA FlatMoved ==
    ASSUME IsTree(remote), NEW n \in Names, NEW m \in Names, <<n>> \in DOMAIN remote,
           <<m>> \notin DOMAIN remote
    PROVE  /\ DOMAIN Moved(<<n>>, <<m>>) = (DOMAIN remote \ {<<n>>}) \cup {<<m>>}
           /\ IsTree(Moved(<<n>>, <<m>>))
<1> DEFINE from == <<n>>
           to == <<m>>
           new == Moved(from, to)
           kept == {q \in DOMAIN remote : ~Below(from, q)}
           under == {q \in DOMAIN remote : Below(from, q)}
<1>1. DOMAIN new = kept \cup {to \o Rest(from, q) : q \in under}
  <2>1. to \in Seq(Names)
    OBVIOUS
  <2> QED BY <2>1, MovedFacts
<1>2. DOMAIN remote \subseteq Paths
  BY DEF IsTree
<1>3. kept = DOMAIN remote \ {from} /\ under = {from}
  BY <1>2, NothingUnder
<1>4. to \o Rest(from, from) = to
  <2>1. from \in Seq(Names) /\ Len(from) = 1 /\ to \in Seq(Names) /\ Below(from, from)
    BY DEF Below
  <2>2. Rest(from, from) \in Seq(Names) /\ Len(Rest(from, from)) = 1 - 1
    BY <2>1, RestFacts
  <2>3. Rest(from, from) = <<>>
    BY <2>2
  <2>4. to \o <<>> = to
    OBVIOUS
  <2> QED BY <2>3, <2>4
<1> HIDE DEF from, to, new, kept, under
<1>5. DOMAIN new = (DOMAIN remote \ {from}) \cup {to}
  BY <1>1, <1>3, <1>4
<1>6. IsTree(new)
  <2>1. from \in DOMAIN remote /\ from # <<>> /\ to \in Paths /\ from \in Paths
    BY NamePath DEF from, to, Root
  <2>2. to = Append(Root, m) /\ Root \in Paths /\ DirIn(remote, Root)
    BY RootPath DEF to, Root, IsTree
  <2>3. ~Under(from, to)
    BY <2>1, NothingUnder DEF Below, from, Under
  <2>4. DOMAIN new \subseteq Paths
    BY <1>2, <1>5, <2>1
  <2> QED BY <2>1, <2>2, <2>3, <2>4, TreeRename DEF new, to
<1> QED BY <1>5, <1>6 DEF from, to, new

\* What is on the server afterwards.
LEMMA ActsRemote ==
    ASSUME Shape, NEW t \in Threads, ServerActs(t)
    PROVE  /\ job[t].phase = "ask" /\ job[t].cb # "none" /\ Call(t) \notin Looks
           /\ IsTree(remote')
           /\ Call(t) \in {"setattr", "write"} =>
                 remote' = remote /\ job[t].path \in DOMAIN remote
           /\ Call(t) \in {"create", "unlink", "rename"} =>
                 job[t].name \in Names /\ job[t].path = <<job[t].name>>
           /\ Call(t) = "create" => DOMAIN remote' = DOMAIN remote \cup {<<job[t].name>>}
           /\ Call(t) = "unlink" => DOMAIN remote' = DOMAIN remote \ {<<job[t].name>>}
           /\ Call(t) = "rename" =>
                 /\ job[t].new \in Names /\ <<job[t].new>> \notin DOMAIN remote
                 /\ <<job[t].name>> \in DOMAIN remote
                 /\ DOMAIN remote' = (DOMAIN remote \ {<<job[t].name>>}) \cup {<<job[t].new>>}
<1>1. /\ job[t].phase = "ask" /\ Call(t) \notin Looks /\ Accepts(t) /\ remote' = RemoteAfter(t)
      /\ Jobs /\ JobOK(t) /\ PathOK(t) /\ IsTree(remote)
  BY DEF ServerActs, Shape, Tables
<1>2. job[t].cb # "none"
  BY <1>1, Busy
<1>3. Call(t) \in {"create", "unlink", "rename", "setattr", "write"}
  BY <1>1, <1>2, CallFacts DEF Looks, PathOK
<1>4. Call(t) \in {"create", "unlink", "rename"} =>
         job[t].name \in Names /\ job[t].path = <<job[t].name>>
  BY <1>1, <1>2, TargetPath DEF PathOK
<1>5. CASE Call(t) \in {"setattr", "write"}
  <2>1. remote' = remote
    BY <1>1, <1>5 DEF RemoteAfter
  <2>2. job[t].path \in DOMAIN remote
    BY <1>1, <1>5 DEF Accepts
  <2> QED BY <1>1, <1>2, <1>5, <2>1, <2>2
<1>6. CASE Call(t) = "create"
  <2>1. remote' = Put(remote, <<job[t].name>>, FileOf(<<>>, 0))
    BY <1>1, <1>4, <1>6 DEF RemoteAfter
  <2>2. <<job[t].name>> \notin DOMAIN remote
    BY <1>1, <1>4, <1>6 DEF Accepts
  <2>3. <<job[t].name>> = Append(Root, job[t].name) /\ DirIn(remote, Root)
    BY <1>1, <1>4, <1>6 DEF Root, IsTree
  <2>4. IsTree(remote')
    BY <1>1, <1>4, <1>6, <2>1, <2>2, <2>3, TreeMake, NamePath, RootPath
  <2>5. DOMAIN remote' = DOMAIN remote \cup {<<job[t].name>>}
    BY <2>1, PutMap
  <2> QED BY <1>1, <1>2, <1>4, <1>6, <2>4, <2>5
<1>7. CASE Call(t) = "unlink"
  <2>1. remote' = Drop(remote, {<<job[t].name>>})
    BY <1>1, <1>4, <1>7 DEF RemoteAfter
  <2>2. \A n \in Names : Append(<<job[t].name>>, n) \notin DOMAIN remote
    <3>1. SUFFICES ASSUME NEW n \in Names, Append(<<job[t].name>>, n) \in Paths PROVE FALSE
      BY <1>1 DEF IsTree
    <3>2. <<job[t].name>> \in Seq(Names) /\ Len(<<job[t].name>>) = 1
      BY <1>4, <1>7
    <3>3. Len(Append(<<job[t].name>>, n)) = 2
      BY <3>2, AppendFacts
    <3>4. Len(Root) = 0 /\ \A m \in Names : Len(<<m>>) = 1
      BY DEF Root
    <3> DEFINE q == Append(<<job[t].name>>, n)
    <3>5. q \in Paths /\ Len(q) = 2
      BY <3>1, <3>3
    <3> HIDE DEF q
    <3>6. q # Root
      BY <3>4, <3>5
    <3>7. \E m \in Names : q = <<m>>
      BY <3>5, <3>6, FlatPaths
    <3> QED BY <3>4, <3>5, <3>7
  <2>3. <<job[t].name>> \in Paths /\ <<job[t].name>> # <<>>
    BY <1>4, <1>7, NamePath DEF Root
  <2>4. IsTree(remote')
    BY <1>1, <2>1, <2>2, <2>3, TreeRemove
  <2> QED BY <1>1, <1>2, <1>4, <1>7, <2>1, <2>4, DropMap
<1>8. CASE Call(t) = "rename"
  <2>1. remote' = Moved(<<job[t].name>>, <<job[t].new>>)
    BY <1>1, <1>4, <1>8 DEF RemoteAfter
  <2>2. <<job[t].name>> \in DOMAIN remote /\ <<job[t].new>> \notin DOMAIN remote
    BY <1>1, <1>4, <1>8 DEF Accepts
  <2>3. job[t].new \in Names
    BY <1>1, <1>2, <1>8, CallFacts DEF JobOK
  <2> QED BY <1>1, <1>2, <1>4, <1>8, <2>1, <2>2, <2>3, FlatMoved
<1> QED BY <1>3, <1>5, <1>6, <1>7, <1>8

\* Where a file is, once thread t's change was carried out.
Now(t, o) ==
    IF opens[o].at = job[t].path /\ Call(t) = "rename" THEN <<job[t].new>>
    ELSE IF opens[o].at = job[t].path /\ Call(t) = "unlink" THEN Root
    ELSE opens[o].at

Lost(t, o) == opens[o].at = job[t].path /\ Call(t) = "rename"

LEMMA OpensAfterFacts ==
    ASSUME Shape, NEW t \in Threads, job[t].cb # "none", NEW told \in BOOLEAN,
           opens' = OpensAfter(t, told)
    PROVE  /\ Opens' /\ DOMAIN opens' = DOMAIN opens
           /\ \A o \in DOMAIN opens :
                 /\ opens'[o].node = opens[o].node /\ opens'[o].handle = opens[o].handle
                 /\ opens'[o].name = opens[o].name /\ opens'[o].cleaned = opens[o].cleaned
                 /\ opens'[o].at = Now(t, o)
                 /\ opens'[o].astray <=> opens[o].astray \/ (~told /\ Lost(t, o))
<1>1. Opens /\ Jobs /\ JobOK(t)
  BY DEF Shape
<1>2. opens' = [o \in DOMAIN opens |->
                   [opens[o] EXCEPT !.at = Now(t, o),
                                    !.astray = opens[o].astray \/ (~told /\ Lost(t, o))]]
  BY DEF OpensAfter, Now, Lost
<1>3. ASSUME NEW o \in DOMAIN opens
      PROVE  /\ opens'[o] \in OpenFile
             /\ opens'[o].node = opens[o].node /\ opens'[o].handle = opens[o].handle
             /\ opens'[o].name = opens[o].name /\ opens'[o].cleaned = opens[o].cleaned
             /\ opens'[o].at = Now(t, o)
             /\ opens'[o].astray <=> opens[o].astray \/ (~told /\ Lost(t, o))
  <2>1. opens[o] \in OpenFile
    BY <1>1 DEF Opens
  <2>2. Now(t, o) \in Paths
    <3>1. Call(t) = "rename" => job[t].new \in Names
      BY <1>1, CallFacts DEF JobOK
    <3> QED BY <2>1, <3>1, NamePath, RootPath DEF Now, OpenFile
  <2> DEFINE b == opens[o].astray \/ (~told /\ Lost(t, o))
             f == [opens[o] EXCEPT !.at = Now(t, o), !.astray = b]
  <2>3. b \in BOOLEAN
    BY <2>1 DEF OpenFile
  <2>4. opens'[o] = f
    BY <1>2
  <2> HIDE DEF b
  <2>5. /\ f \in OpenFile /\ f.node = opens[o].node /\ f.handle = opens[o].handle
        /\ f.name = opens[o].name /\ f.cleaned = opens[o].cleaned /\ f.at = Now(t, o)
        /\ f.astray = b
    BY <2>1, <2>2, <2>3 DEF OpenFile
  <2> HIDE DEF f
  <2> QED BY <2>4, <2>5 DEF b
<1>4. DOMAIN opens' = DOMAIN opens
  BY <1>2
<1>5. opens' \in [DOMAIN opens' -> OpenFile]
  BY <1>2, <1>3, <1>4
<1> QED BY <1>1, <1>3, <1>4, <1>5 DEF Opens

LEMMA ActsFacts ==
    ASSUME Shape, NEW t \in Threads, ServerActs(t)
    PROVE  /\ Opens' /\ DOMAIN opens' = DOMAIN opens
           /\ \A o \in DOMAIN opens :
                 /\ opens'[o].node = opens[o].node /\ opens'[o].handle = opens[o].handle
                 /\ opens'[o].name = opens[o].name /\ opens'[o].cleaned = opens[o].cleaned
                 /\ opens'[o].at = Now(t, o)
                 /\ opens[o].astray => opens'[o].astray
           /\ \/ /\ Works(t, "store", job[t].path, job[t].seen) /\ UNCHANGED unsure
                 /\ \A o \in DOMAIN opens : opens'[o].astray => opens[o].astray
              \/ /\ Ends(t) /\ unsure' = unsure \cup NamesChanged(t)
                 /\ \A o \in DOMAIN opens :
                       opens'[o].astray <=> opens[o].astray \/ Lost(t, o)
           /\ UNCHANGED <<nodeVars, handleVars, idx, negative>>
           /\ misdeleted' = \/ misdeleted
                            \/ /\ Call(t) = "unlink" /\ ~opens[job[t].open].astray
                               /\ opens[job[t].open].at # job[t].path
<1>1. job[t].cb # "none" /\ Jobs
  BY ActsRemote DEF Shape
<1>2. /\ UNCHANGED <<nodeVars, handleVars, idx, negative>>
      /\ misdeleted' = \/ misdeleted
                       \/ /\ Call(t) = "unlink" /\ ~opens[job[t].open].astray
                          /\ opens[job[t].open].at # job[t].path
  BY DEF ServerActs, cacheVars
<1>3. CASE /\ job' = [job EXCEPT ![t].phase = "store"] /\ opens' = OpensAfter(t, TRUE)
           /\ UNCHANGED unsure
  <2>1. Works(t, "store", job[t].path, job[t].seen)
    BY <1>1, <1>3, PhaseStep
  <2>2. /\ Opens' /\ DOMAIN opens' = DOMAIN opens
        /\ \A o \in DOMAIN opens :
              /\ opens'[o].node = opens[o].node /\ opens'[o].handle = opens[o].handle
              /\ opens'[o].name = opens[o].name /\ opens'[o].cleaned = opens[o].cleaned
              /\ opens'[o].at = Now(t, o)
              /\ opens'[o].astray <=> opens[o].astray \/ (~TRUE /\ Lost(t, o))
    BY <1>1, <1>3, OpensAfterFacts
  <2> QED BY <1>2, <1>3, <2>1, <2>2
<1>4. CASE /\ Finish(t) /\ opens' = OpensAfter(t, FALSE) /\ unsure' = unsure \cup NamesChanged(t)
  <2>1. Ends(t)
    BY <1>1, <1>4, FinishStep
  <2>2. /\ Opens' /\ DOMAIN opens' = DOMAIN opens
        /\ \A o \in DOMAIN opens :
              /\ opens'[o].node = opens[o].node /\ opens'[o].handle = opens[o].handle
              /\ opens'[o].name = opens[o].name /\ opens'[o].cleaned = opens[o].cleaned
              /\ opens'[o].at = Now(t, o)
              /\ opens'[o].astray <=> opens[o].astray \/ (~FALSE /\ Lost(t, o))
    BY <1>1, <1>4, OpensAfterFacts
  <2> QED BY <1>2, <1>4, <2>1, <2>2
<1> QED BY <1>3, <1>4 DEF ServerActs

\* The names a change is about.
LEMMA ChangedNames ==
    ASSUME Shape, NEW t \in Threads, ServerActs(t)
    PROVE  /\ NamesChanged(t) \subseteq Names
           /\ Call(t) \in {"create", "unlink"} => NamesChanged(t) = {job[t].name}
           /\ Call(t) = "rename" => NamesChanged(t) = {job[t].name, job[t].new}
           /\ Call(t) \in {"setattr", "write"} => NamesChanged(t) = {}
           /\ Call(t) \in {"create", "unlink", "rename", "setattr", "write"}
<1>1. /\ job[t].phase = "ask" /\ job[t].cb # "none" /\ Call(t) \notin Looks
      /\ Call(t) \in {"create", "unlink", "rename"} => job[t].name \in Names
      /\ Call(t) = "rename" => job[t].new \in Names
  BY ActsRemote
<1>2. Call(t) \in {"create", "unlink", "rename", "setattr", "write"}
  BY <1>1, CallFacts DEF Looks, PathOK, Shape
<1> QED BY <1>1, <1>2 DEF NamesChanged

LEMMA ActsShape ==
    ASSUME Shape, NEW t \in Threads, ServerActs(t)
    PROVE  Shape'
<1>1. /\ Tables /\ Jobs /\ Opens /\ OpensOK /\ Alone
      /\ \A u \in Threads : JobOK(u) /\ PathOK(u)
  BY DEF Shape
<1>2. /\ job[t].cb # "none" /\ job[t].phase = "ask" /\ Call(t) \notin Looks /\ IsTree(remote')
      /\ UNCHANGED <<nodeVars, handleVars, idx>> /\ unsure' \subseteq Names
      /\ Opens' /\ DOMAIN opens' = DOMAIN opens
      /\ \A o \in DOMAIN opens :
            /\ opens'[o].node = opens[o].node /\ opens'[o].handle = opens[o].handle
            /\ opens'[o].name = opens[o].name /\ opens'[o].cleaned = opens[o].cleaned
      /\ Works(t, "store", job[t].path, job[t].seen) \/ Ends(t)
  BY <1>1, ActsRemote, ActsFacts, ChangedNames DEF Tables
<1>3. Tables'
  BY <1>1, <1>2 DEF Tables, NodesOK, HandlesOK, IdxOK, nodeVars, handleVars
<1>4. OpensOK'
  BY <1>1, <1>2 DEF OpensOK, nodeVars, handleVars
<1>5. Others(t) /\ (Same(t) \/ job'[t] = Idle)
  BY <1>2 DEF Works, Ends
<1>6. ASSUME NEW u \in Threads, NEW v \in Threads, u # v
      PROVE  Apart(u, v)'
  <2>1. Apart(u, v) /\ JobOK(u) /\ JobOK(v)
    BY <1>1, <1>6 DEF Alone
  <2>2. ASSUME NEW w \in Threads
        PROVE  \/ /\ job'[w].guard = job[w].guard /\ job'[w].open = job[w].open
                  /\ job'[w].cb = job[w].cb
               \/ job'[w].guard = "none" /\ job'[w].open = 0
    BY <1>5 DEF Others, Same, Idle
  <2>3. \A o, p \in DOMAIN opens : SameFile(o, p)' <=> SameFile(o, p)
    BY <1>2 DEF SameFile
  <2>4. CASE job'[u].guard = "none" /\ job'[u].open = 0
    BY <2>4 DEF Apart
  <2>5. CASE job'[v].guard = "none" /\ job'[v].open = 0
    BY <2>5 DEF Apart
  <2> QED BY <2>1, <2>2, <2>3, <2>4, <2>5 DEF Apart, JobOK
<1>7. ASSUME NEW u \in Threads
      PROVE  JobOK(u)' /\ PathOK(u)'
  <2>1. JobOK(u) /\ PathOK(u)
    BY <1>1
  <2>2. CASE u # t
    <3>1. job'[u] = job[u]
      BY <1>5, <2>2 DEF Others
    <3>2. JobOK(u)'
      BY <1>2, <2>1, <3>1 DEF JobOK, ByName
    <3> QED BY <1>2, <2>1, <3>1, <3>2 DEF PathOK, Call, nodeVars
  <2>3. CASE u = t /\ Ends(t)
    BY <2>3, IdleOK DEF Ends
  <2>4. CASE u = t /\ Works(t, "store", job[t].path, job[t].seen)
    <3>1. JobOK(t)'
      BY <1>2, <2>1, <2>4 DEF JobOK, ByName, Works, Same
    <3>2. Call(t)' = Call(t)
      BY <2>4 DEF Works, Call
    <3> QED BY <1>2, <2>1, <2>4, <3>1, <3>2 DEF PathOK, Works, Same, Looks, nodeVars
  <2> QED BY <1>2, <2>2, <2>3, <2>4
<1>8. Jobs'
  BY <1>5 DEF Others
<1> QED BY <1>2, <1>3, <1>4, <1>6, <1>7, <1>8 DEF Shape, Alone

-----------------------------------------------------------------------------
(* A file is opened.                                                       *)

\* The file at p is open as o.
OpenedAs(o, p) ==
    /\ o \in Nat \ {0} /\ o \notin DOMAIN opens /\ DOMAIN opens' = DOMAIN opens \cup {o}
    /\ \A q \in DOMAIN opens : opens'[q] = opens[q]
    /\ p \in DOMAIN pathToNode' /\ opens'[o].node = pathToNode'[p]
    /\ opens'[o].handle = nextHandle /\ ~opens'[o].cleaned /\ opens'[o].at = p
    /\ opens'[o].astray <=> p # <<opens'[o].name>>
    /\ p = <<opens'[o].name>> \/ p[1] \in unsure'

Adds(t, p) ==
    /\ Ends(t) /\ NodesGrow /\ p \in Children
    /\ UNCHANGED <<remote, idx, misdeleted>>
    /\ unsure \subseteq unsure' /\ unsure' \subseteq Names
    /\ DOMAIN handles \subseteq DOMAIN handles' /\ nextHandle \in DOMAIN handles'
    /\ Opens' /\ \E o \in Nat : OpenedAs(o, p)

LEMMA NewOpenFacts ==
    ASSUME Opens, NEW node \in Nat, NEW name \in Names, nextHandle \in Nat,
           NewOpen(node, name, <<name>>), <<name>> \in DOMAIN pathToNode',
           node = pathToNode'[<<name>>], unsure \subseteq Names
    PROVE  /\ Opens' /\ unsure \subseteq unsure' /\ unsure' \subseteq Names
           /\ \E o \in Nat : OpenedAs(o, <<name>>)
<1> DEFINE known == {opens[p].name : p \in {q \in DOMAIN opens : Fold[opens[q].name] = Fold[name]}}
           file == IF known = {} THEN name ELSE CHOOSE n \in known : TRUE
           f == [node |-> node, handle |-> nextHandle, name |-> file, deletePending |-> FALSE,
                 cleaned |-> FALSE, at |-> <<name>>, astray |-> file # name]
<1>1. PICK o \in 1..MaxOpen \ DOMAIN opens :
         /\ opens' = Put(opens, o, f)
         /\ unsure' = IF file # name THEN unsure \cup {name} ELSE unsure
  BY DEF NewOpen
<1>2. file \in Names
  <2>1. known \subseteq Names
    BY DEF Opens, OpenFile
  <2> QED BY <2>1
<1> HIDE DEF file, known
<1>3. o \in Nat \ {0} /\ o \notin DOMAIN opens
  BY WinAssumption
<1>4. /\ f \in OpenFile /\ f.node = node /\ f.handle = nextHandle /\ f.name = file /\ ~f.cleaned
      /\ f.at = <<name>> /\ (f.astray <=> file # name)
  BY <1>2, NamePath DEF OpenFile
<1> HIDE DEF f
<1>5. /\ DOMAIN opens' = DOMAIN opens \cup {o} /\ opens'[o] = f
      /\ \A p \in DOMAIN opens : opens'[p] = opens[p]
  BY <1>1, <1>3 DEF Put
<1>6. opens' \in [DOMAIN opens' -> OpenFile]
  <2>1. opens' = [x \in DOMAIN opens' |-> opens'[x]]
    BY <1>1 DEF Put
  <2>2. \A x \in DOMAIN opens' : opens'[x] \in OpenFile
    BY <1>4, <1>5 DEF Opens
  <2> QED BY <2>1, <2>2
<1>7. Opens'
  BY <1>3, <1>5, <1>6 DEF Opens
<1>8. <<name>> = <<file>> <=> name = file
  OBVIOUS
<1>9. <<name>>[1] = name
  OBVIOUS
<1>10. OpenedAs(o, <<name>>)
  BY <1>1, <1>3, <1>4, <1>5, <1>8, <1>9 DEF OpenedAs
<1> QED BY <1>1, <1>3, <1>7, <1>10

LEMMA HandleFacts ==
    ASSUME HandlesOK, NEW n, NEW p, OpenHandle(n, p)
    PROVE  /\ nextHandle \in Nat /\ DOMAIN handles \subseteq DOMAIN handles'
           /\ nextHandle \in DOMAIN handles'
<1>1. nextHandle \in Nat
  BY VfsAssumption DEF HandlesOK
<1>2. DOMAIN handles' = DOMAIN handles \cup {nextHandle}
  BY DEF OpenHandle, Put
<1> QED BY <1>1, <1>2

LEMMA OpenDoneAdds ==
    ASSUME Shape, NEW t \in Threads, OpenDone(t)
    PROVE  /\ Adds(t, job[t].path) /\ job[t].cb = "open" /\ NodesOK' /\ HandlesOK'
           /\ job[t].phase = "call" /\ Call(t) = "open" /\ UNCHANGED negative
<1> DEFINE p == job[t].path
<1>1. /\ Doing(t, "open", "call") /\ NewOpen(pathToNode[p], OpenedName(t), p)
      /\ OpenHandle(pathToNode[p], p) /\ Finish(t)
      /\ UNCHANGED <<envVars, idx, nodeVars, negative, misdeleted>>
      /\ Jobs /\ Opens /\ JobOK(t) /\ PathOK(t) /\ NodesOK /\ HandlesOK /\ unsure \subseteq Names
  BY DEF OpenDone, Shape, Tables
<1>2. job[t].cb = "open" /\ Call(t) = "open" /\ job[t].phase = "call"
  BY <1>1, Busy, CallFacts DEF Doing
<1>3. p \in Paths /\ p # Root /\ p \in DOMAIN pathToNode
  BY <1>1, <1>2 DEF PathOK, Jobs, Job
<1> HIDE DEF p
<1>4. PICK n \in Names : p = <<n>>
  BY <1>3, FlatPaths
<1>5. OpenedName(t) = n
  BY <1>4 DEF OpenedName, p
<1>6. pathToNode[p] \in Nat /\ pathToNode[p] \in DOMAIN nodeToPath
  BY <1>1, <1>3 DEF NodesOK
<1>7. NodesOK' /\ NodesGrow /\ pathToNode' = pathToNode /\ nodeToPath' = nodeToPath
  BY <1>1, NodesStay DEF nodeVars
<1>8. HandlesOK'
  BY <1>1, <1>3, <1>6, <1>7, OpenHandleStep
<1>9. /\ nextHandle \in Nat /\ DOMAIN handles \subseteq DOMAIN handles'
      /\ nextHandle \in DOMAIN handles'
  BY <1>1, HandleFacts
<1>10. /\ Opens' /\ unsure \subseteq unsure' /\ unsure' \subseteq Names
       /\ \E o \in Nat : OpenedAs(o, <<n>>)
  BY <1>1, <1>3, <1>4, <1>5, <1>6, <1>7, <1>9, NewOpenFacts
<1>11. Ends(t)
  BY <1>1, FinishStep
<1>12. Adds(t, p)
  BY <1>1, <1>4, <1>7, <1>9, <1>10, <1>11 DEF Adds, Children, envVars
<1> QED BY <1>1, <1>2, <1>7, <1>8, <1>12 DEF p

LEMMA CreateDoneAdds ==
    ASSUME Shape, NEW t \in Threads, CreateDone(t)
    PROVE  /\ Adds(t, <<job[t].name>>) /\ job[t].cb = "create" /\ NodesOK' /\ HandlesOK'
           /\ job[t].phase = "state" /\ job[t].name \in Names
           /\ negative' = Drop(negative, {<<RootNode, job[t].name>>})
<1> DEFINE p == job[t].path
           n == job[t].name
<1>1. /\ Doing(t, "create", "state") /\ ClearNegative(n) /\ Intern({p})
      /\ OpenHandle(pathToNode'[p], p) /\ NewOpen(pathToNode'[p], n, p) /\ Finish(t)
      /\ UNCHANGED <<envVars, idx, misdeleted>>
      /\ Jobs /\ Opens /\ JobOK(t) /\ PathOK(t) /\ NodesOK /\ HandlesOK /\ unsure \subseteq Names
  BY DEF CreateDone, Shape, Tables
<1>2. job[t].cb = "create" /\ Call(t) = "create" /\ job[t].phase = "state"
  BY <1>1, Busy, CallFacts DEF Doing
<1>3. n \in Names /\ p = <<n>>
  BY <1>1, <1>2 DEF JobOK, PathOK
<1>4. negative' = Drop(negative, {<<RootNode, n>>})
  BY <1>1 DEF ClearNegative
<1> HIDE DEF p, n
<1>5. NodesOK' /\ NodesGrow /\ p \in DOMAIN pathToNode'
  BY <1>1, <1>3, InternStep DEF Children
<1>6. pathToNode'[p] \in Nat /\ pathToNode'[p] \in DOMAIN nodeToPath'
  BY <1>5 DEF NodesOK
<1>7. HandlesOK'
  BY <1>1, <1>3, <1>5, <1>6, OpenHandleStep, NamePath DEF NodesGrow
<1>8. /\ nextHandle \in Nat /\ DOMAIN handles \subseteq DOMAIN handles'
      /\ nextHandle \in DOMAIN handles'
  BY <1>1, HandleFacts
<1>9. /\ Opens' /\ unsure \subseteq unsure' /\ unsure' \subseteq Names
      /\ \E o \in Nat : OpenedAs(o, <<n>>)
  BY <1>1, <1>3, <1>5, <1>6, <1>8, NewOpenFacts
<1>10. Ends(t)
  BY <1>1, FinishStep
<1>11. Adds(t, <<n>>)
  BY <1>1, <1>3, <1>5, <1>8, <1>9, <1>10 DEF Adds, Children, envVars
<1> QED BY <1>2, <1>3, <1>4, <1>5, <1>7, <1>11 DEF n

LEMMA AddsShape ==
    ASSUME Shape, NEW t \in Threads, NEW p, Adds(t, p), NodesOK', HandlesOK'
    PROVE  Shape'
<1>1. /\ Tables /\ Jobs /\ Opens /\ OpensOK /\ Alone
      /\ \A u \in Threads : JobOK(u) /\ PathOK(u)
      /\ Ends(t) /\ NodesGrow /\ UNCHANGED <<remote, idx>> /\ unsure' \subseteq Names
      /\ DOMAIN handles \subseteq DOMAIN handles' /\ nextHandle \in DOMAIN handles' /\ Opens'
  BY DEF Shape, Adds
<1>2. PICK o \in Nat : OpenedAs(o, p)
  BY DEF Adds
<1>3. Tables'
  BY <1>1 DEF Tables
<1>4. OpensOK'
  <2>1. opens'[o].node \in DOMAIN nodeToPath'
    BY <1>2 DEF OpenedAs, NodesOK
  <2>2. \A q \in DOMAIN opens : opens'[q].handle # nextHandle
    BY <1>1, <1>2 DEF OpenedAs, OpensOK, Tables, HandlesOK
  <2> QED BY <1>1, <1>2, <2>1, <2>2 DEF OpenedAs, OpensOK, NodesGrow
<1>5. ASSUME NEW u \in Threads
      PROVE  JobOK(u)' /\ PathOK(u)'
  <2>1. CASE u = t
    BY <1>1, <2>1, IdleOK DEF Ends
  <2>2. CASE u # t
    <3>1. job'[u] = job[u] /\ JobOK(u) /\ PathOK(u)
      BY <1>1, <2>2 DEF Ends, Others
    <3>2. JobOK(u)'
      BY <1>2, <3>1 DEF JobOK, OpenedAs, ByName
    <3> QED BY <1>1, <3>1, <3>2 DEF PathOK, Call, NodesGrow
  <2> QED BY <2>1, <2>2
<1>6. ASSUME NEW u \in Threads, NEW v \in Threads, u # v
      PROVE  Apart(u, v)'
  <2>1. Apart(u, v) /\ JobOK(u) /\ JobOK(v)
    BY <1>1, <1>6 DEF Alone
  <2>2. \A w \in Threads : job'[w] = job[w] \/ (job'[w].guard = "none" /\ job'[w].open = 0)
    BY <1>1 DEF Ends, Others, Idle
  <2>3. \A x, y \in DOMAIN opens : SameFile(x, y)' <=> SameFile(x, y)
    BY <1>2 DEF SameFile, OpenedAs
  <2> QED BY <2>1, <2>2, <2>3 DEF Apart, JobOK
<1>7. Jobs'
  BY <1>1 DEF Ends, Others
<1> QED BY <1>1, <1>3, <1>4, <1>5, <1>6, <1>7 DEF Shape, Alone

-----------------------------------------------------------------------------
(* WinFsp learns of a rename; files are closed.                            *)

\* A callback that runs beside a creation, deletion or rename, on another file.
LEMMA BesideExclusive ==
    ASSUME Shape, NEW t \in Threads, NEW u \in Threads \ {t}, job[t].guard = "exclusive"
    PROVE  /\ job[u].cb \in {"none", "info", "write", "setInfo"}
           /\ job[t].open # 0 /\ job[u].open # 0 =>
                 opens[job[u].open].name # opens[job[t].open].name
<1>1. Apart(t, u) /\ JobOK(u) /\ JobOK(t) /\ job[u] \in Job
  BY DEF Shape, Alone, Jobs
<1>2. GuardOf(job[u].cb) = "none" /\ job[u].cb \in ByName \cup OnFile
  BY <1>1 DEF Apart, JobOK, Job
<1>3. job[u].cb \in {"none", "info", "write", "setInfo"}
  BY <1>2 DEF GuardOf, ByName, OnFile
<1>4. job[t].cb # "info"
  BY <1>1 DEF JobOK, GuardOf
<1> QED BY <1>1, <1>3, <1>4 DEF Apart, SameFile

\* A shared callback runs beside no creation, deletion or rename.
LEMMA BesideShared ==
    ASSUME Shape, NEW t \in Threads, NEW u \in Threads, job[t].cb \in {"open", "list"}
    PROVE  job[u].cb \notin {"create", "cleanup", "rename", "overwrite"}
<1>1. JobOK(u) /\ JobOK(t) /\ (u # t => Apart(u, t))
  BY DEF Shape, Alone
<1>2. job[t].guard = "shared" /\ job[t].cb \notin {"create", "cleanup", "rename", "overwrite"}
  BY <1>1 DEF JobOK, GuardOf
<1>3. job[u].cb \in {"create", "cleanup", "rename", "overwrite"} => job[u].guard = "exclusive"
  BY <1>1 DEF JobOK, GuardOf
<1> QED BY <1>1, <1>2, <1>3 DEF Apart

\* Only one of the callbacks is a creation, deletion or rename.
LEMMA OneExclusive ==
    ASSUME Shape, NEW t \in Threads, NEW u \in Threads \ {t},
           job[t].cb \in {"create", "cleanup", "rename", "overwrite"}
    PROVE  /\ job[t].guard = "exclusive"
           /\ job[u].cb \in {"none", "info", "write", "setInfo"}
<1>1. job[t].guard = "exclusive"
  BY DEF Shape, JobOK, GuardOf
<1> QED BY <1>1, BesideExclusive

LEMMA RenameDoneFacts ==
    ASSUME Shape, NEW t \in Threads, RenameDone(t)
    PROVE  /\ job[t].cb = "rename" /\ job[t].phase = "state" /\ job[t].guard = "exclusive"
           /\ job[t].open \in DOMAIN opens /\ job[t].open # 0
           /\ job[t].name = opens[job[t].open].name
           /\ job[t].name \in Names /\ job[t].new \in Names
           /\ Ends(t) /\ MoveNode(<<job[t].name>>, <<job[t].new>>)
           /\ NodesOK' /\ DOMAIN nodeToPath' = DOMAIN nodeToPath
           /\ negative' = NegativeAfterRename(RootNode, job[t].name, RootNode, job[t].new)
           /\ unsure' = IF job[t].name \in unsure THEN unsure \cup {job[t].new} ELSE unsure
           /\ UNCHANGED <<remote, idx, handleVars, misdeleted>>
           /\ Opens' /\ DOMAIN opens' = DOMAIN opens
           /\ \A o \in DOMAIN opens :
                 /\ opens'[o].node = opens[o].node /\ opens'[o].handle = opens[o].handle
                 /\ opens'[o].cleaned = opens[o].cleaned /\ opens'[o].at = opens[o].at
                 /\ opens'[o].astray = opens[o].astray
                 /\ opens'[o].name = IF opens[o].name = job[t].name THEN job[t].new
                                                                    ELSE opens[o].name
<1>1. /\ Doing(t, "rename", "state") /\ MoveNode(job[t].path, <<job[t].new>>)
      /\ negative' = NegativeAfterRename(RootNode, job[t].name, RootNode, job[t].new)
      /\ opens' = [o \in DOMAIN opens |->
                      [opens[o] EXCEPT !.name = IF @ = job[t].name THEN job[t].new ELSE @]]
      /\ unsure' = IF job[t].name \in unsure THEN unsure \cup {job[t].new} ELSE unsure
      /\ Finish(t) /\ UNCHANGED <<envVars, idx, handleVars, misdeleted>>
      /\ Jobs /\ Opens /\ JobOK(t) /\ PathOK(t) /\ NodesOK
  BY DEF RenameDone, Shape, Tables
<1>2. job[t].cb = "rename" /\ Call(t) = "rename" /\ job[t].phase = "state"
  BY <1>1, Busy, CallFacts DEF Doing
<1>3. /\ job[t].open \in DOMAIN opens /\ job[t].open # 0 /\ job[t].name = opens[job[t].open].name
      /\ job[t].new \in Names /\ job[t].guard = "exclusive" /\ job[t].path = <<job[t].name>>
  BY <1>1, <1>2 DEF JobOK, PathOK, GuardOf, ByName
<1>4. job[t].name \in Names
  BY <1>1, <1>3 DEF Opens, OpenFile
<1>5. NodesOK' /\ DOMAIN nodeToPath' = DOMAIN nodeToPath
  BY <1>1, <1>3, <1>4, MoveNodes, NamePath DEF Root
<1>6. ASSUME NEW o \in DOMAIN opens
      PROVE  /\ opens'[o] \in OpenFile
             /\ opens'[o].node = opens[o].node /\ opens'[o].handle = opens[o].handle
             /\ opens'[o].cleaned = opens[o].cleaned /\ opens'[o].at = opens[o].at
             /\ opens'[o].astray = opens[o].astray
             /\ opens'[o].name = IF opens[o].name = job[t].name THEN job[t].new
                                                                ELSE opens[o].name
  <2> DEFINE n == IF opens[o].name = job[t].name THEN job[t].new ELSE opens[o].name
             f == [opens[o] EXCEPT !.name = n]
  <2>1. opens[o] \in OpenFile
    BY <1>1 DEF Opens
  <2>2. n \in Names
    BY <1>3, <2>1 DEF OpenFile
  <2>3. opens'[o] = f
    BY <1>1
  <2> HIDE DEF n
  <2>4. /\ f \in OpenFile /\ f.node = opens[o].node /\ f.handle = opens[o].handle
        /\ f.cleaned = opens[o].cleaned /\ f.at = opens[o].at /\ f.astray = opens[o].astray
        /\ f.name = n
    BY <2>1, <2>2 DEF OpenFile
  <2> HIDE DEF f
  <2> QED BY <2>3, <2>4 DEF n
<1>7. DOMAIN opens' = DOMAIN opens
  BY <1>1
<1>8. opens' \in [DOMAIN opens' -> OpenFile]
  BY <1>1, <1>6, <1>7
<1>9. Opens'
  BY <1>1, <1>7, <1>8 DEF Opens
<1>10. Ends(t)
  BY <1>1, FinishStep
<1> QED BY <1>1, <1>2, <1>3, <1>4, <1>5, <1>6, <1>7, <1>9, <1>10 DEF envVars

LEMMA RenameDoneShape ==
    ASSUME Shape, NEW t \in Threads, RenameDone(t)
    PROVE  Shape'
<1>1. /\ Tables /\ Jobs /\ Opens /\ OpensOK /\ Alone
      /\ \A u \in Threads : JobOK(u) /\ PathOK(u)
  BY DEF Shape
<1>2. /\ job[t].guard = "exclusive" /\ job[t].open \in DOMAIN opens /\ job[t].open # 0
      /\ job[t].name = opens[job[t].open].name /\ job[t].new \in Names
      /\ Ends(t) /\ NodesOK' /\ DOMAIN nodeToPath' = DOMAIN nodeToPath
      /\ unsure' = IF job[t].name \in unsure THEN unsure \cup {job[t].new} ELSE unsure
      /\ UNCHANGED <<remote, idx, handleVars>>
      /\ Opens' /\ DOMAIN opens' = DOMAIN opens
      /\ \A o \in DOMAIN opens :
            /\ opens'[o].node = opens[o].node /\ opens'[o].handle = opens[o].handle
            /\ opens'[o].cleaned = opens[o].cleaned
            /\ opens[o].name # job[t].name => opens'[o].name = opens[o].name
  BY RenameDoneFacts
<1>3. Tables'
  BY <1>1, <1>2, HandlesStep DEF Tables
<1>4. OpensOK'
  BY <1>1, <1>2 DEF OpensOK, handleVars
<1>5. ASSUME NEW u \in Threads \ {t}
      PROVE  /\ job'[u] = job[u] /\ job[u].cb \in {"none", "info", "write", "setInfo"}
             /\ job[u].open # 0 => opens'[job[u].open].name = opens[job[u].open].name
  BY <1>1, <1>2, BesideExclusive DEF Ends, Others, JobOK
<1>6. ASSUME NEW u \in Threads
      PROVE  JobOK(u)' /\ PathOK(u)'
  <2>1. CASE u = t
    BY <1>2, <2>1, IdleOK DEF Ends
  <2>2. CASE u # t
    <3>1. JobOK(u) /\ PathOK(u) /\ job'[u] = job[u] /\ job[u].cb \notin {"open", "rename", "cleanup"}
      BY <1>1, <1>5, <2>2
    <3>2. JobOK(u)'
      BY <1>2, <3>1 DEF JobOK
    <3> QED BY <3>1, <3>2 DEF PathOK, Call
  <2> QED BY <2>1, <2>2
<1>7. ASSUME NEW u \in Threads, NEW v \in Threads, u # v
      PROVE  Apart(u, v)'
  <2>1. Apart(u, v) /\ JobOK(u) /\ JobOK(v)
    BY <1>1, <1>7 DEF Alone
  <2>2. job'[t].guard = "none" /\ job'[t].open = 0
    BY <1>2 DEF Ends, Idle
  <2>3. CASE u # t /\ v # t
    BY <1>5, <2>1, <2>3 DEF Apart, SameFile
  <2> QED BY <2>2, <2>3 DEF Apart
<1>8. Jobs'
  BY <1>2 DEF Ends, Others
<1> QED BY <1>2, <1>3, <1>4, <1>6, <1>7, <1>8 DEF Shape, Alone

LEMMA CloseShape ==
    ASSUME Shape, NEW o \in DOMAIN opens, Close(o)
    PROVE  /\ Shape' /\ UNCHANGED <<job, remote, idx, nodeVars, negative, unsure, misdeleted>>
           /\ DOMAIN opens' = DOMAIN opens \ {o}
           /\ \A p \in DOMAIN opens' : opens'[p] = opens[p]
<1>1. /\ Tables /\ Jobs /\ Opens /\ OpensOK /\ Alone
      /\ \A u \in Threads : JobOK(u) /\ PathOK(u)
  BY DEF Shape
<1>2. /\ FileFree(o, "close") /\ opens' = Drop(opens, {o})
      /\ handles' = Drop(handles, {opens[o].handle})
      /\ UNCHANGED <<remote, idx, nodeVars, nextHandle, negative, job, unsure, misdeleted>>
  BY DEF Close, Release, envVars, historyVars
<1>3. /\ DOMAIN opens' = DOMAIN opens \ {o} /\ \A p \in DOMAIN opens' : opens'[p] = opens[p]
      /\ DOMAIN handles' = DOMAIN handles \ {opens[o].handle}
      /\ \A h \in DOMAIN handles' : handles'[h] = handles[h]
  BY <1>2 DEF Drop
<1>4. \A u \in Threads : job[u].open # 0 => job[u].open # o
  <2>1. SUFFICES ASSUME NEW u \in Threads, job[u].open = o, o # 0 PROVE FALSE
    OBVIOUS
  <2>2. SameFile(o, job[u].open)
    BY <2>1 DEF SameFile
  <2>3. {"close", job[u].cb} = {"info"}
    BY <1>2, <2>1, <2>2 DEF FileFree
  <2> QED BY <2>3
<1>5. Tables'
  BY <1>1, <1>2, <1>3 DEF Tables, NodesOK, HandlesOK, nodeVars
<1>6. Opens'
  <2>1. opens' = [x \in DOMAIN opens' |-> opens'[x]]
    BY <1>2 DEF Drop
  <2> QED BY <1>1, <1>3, <2>1 DEF Opens
<1>7. OpensOK'
  <2>1. ASSUME NEW p \in DOMAIN opens'
        PROVE  opens'[p].node \in DOMAIN nodeToPath' /\ opens'[p].handle \in DOMAIN handles'
    <3>1. p \in DOMAIN opens /\ p # o /\ opens'[p] = opens[p]
      BY <1>3
    <3>2. /\ opens[p].node \in DOMAIN nodeToPath /\ opens[p].handle \in DOMAIN handles
          /\ opens[p].handle # opens[o].handle
      BY <1>1, <3>1 DEF OpensOK
    <3> QED BY <1>2, <1>3, <3>1, <3>2 DEF nodeVars
  <2>2. ASSUME NEW p \in DOMAIN opens', NEW q \in DOMAIN opens', opens'[p].handle = opens'[q].handle
        PROVE  p = q
    <3>1. p \in DOMAIN opens /\ q \in DOMAIN opens /\ opens'[p] = opens[p] /\ opens'[q] = opens[q]
      BY <1>3
    <3> QED BY <1>1, <2>2, <3>1 DEF OpensOK
  <2> QED BY <2>1, <2>2 DEF OpensOK
<1>8. ASSUME NEW u \in Threads
      PROVE  JobOK(u)' /\ PathOK(u)'
  <2>1. JobOK(u) /\ PathOK(u) /\ job' = job
    BY <1>1, <1>2
  <2>2. JobOK(u)'
    BY <1>3, <1>4, <2>1 DEF JobOK, ByName
  <2> QED BY <1>2, <2>1, <2>2 DEF PathOK, Call, nodeVars
<1>9. Alone'
  <2>1. SUFFICES ASSUME NEW u \in Threads, NEW v \in Threads, u # v PROVE Apart(u, v)'
    BY DEF Alone
  <2>2. Apart(u, v) /\ JobOK(u) /\ JobOK(v) /\ job' = job
    BY <1>1, <1>2, <2>1 DEF Alone
  <2>3. \A x, y \in DOMAIN opens' : SameFile(x, y)' <=> SameFile(x, y)
    BY <1>3 DEF SameFile
  <2> QED BY <1>3, <1>4, <2>1, <2>2, <2>3 DEF Apart, JobOK
<1>10. Jobs'
  BY <1>1, <1>2 DEF Jobs
<1> QED BY <1>2, <1>3, <1>5, <1>6, <1>7, <1>8, <1>9, <1>10 DEF Shape

\* Steps that no thread, file or table sees.
Still ==
    /\ UNCHANGED <<job, remote, idx, nodeVars, handleVars, negative, unsure, misdeleted>>
    /\ OpensStay /\ Opens' /\ \A o \in DOMAIN opens : opens'[o].cleaned = opens[o].cleaned

LEMMA StillShape ==
    ASSUME Shape, Still
    PROVE  Shape'
<1>1. /\ Tables /\ Jobs /\ OpensOK /\ Alone /\ \A u \in Threads : JobOK(u) /\ PathOK(u)
  BY DEF Shape
<1>2. /\ UNCHANGED <<job, remote, idx, nodeVars, handleVars, unsure>>
      /\ OpensStay /\ Opens' /\ \A o \in DOMAIN opens : opens'[o].cleaned = opens[o].cleaned
  BY DEF Still
<1>3. Tables' /\ Jobs' /\ OpensOK'
  BY <1>1, <1>2 DEF Tables, NodesOK, HandlesOK, Jobs, OpensOK, OpensStay, nodeVars, handleVars
<1>4. ASSUME NEW u \in Threads
      PROVE  JobOK(u)' /\ PathOK(u)'
  <2>1. JobOK(u) /\ PathOK(u) /\ job' = job
    BY <1>1, <1>2
  <2>2. JobOK(u)'
    BY <1>2, <2>1 DEF JobOK, OpensStay, ByName
  <2> QED BY <1>2, <2>1, <2>2 DEF PathOK, Call, nodeVars
<1>5. Alone'
  <2>1. \A x, y \in DOMAIN opens : SameFile(x, y)' <=> SameFile(x, y)
    BY <1>2 DEF SameFile, OpensStay
  <2> QED BY <1>1, <1>2, <2>1 DEF Alone, Apart, JobOK
<1> QED BY <1>2, <1>3, <1>4, <1>5 DEF Shape

LEMMA SetDeleteStill ==
    ASSUME Shape, NEW o \in Usable, NEW delete \in BOOLEAN, SetDelete(o, delete)
    PROVE  Still
<1>1. /\ opens' = [opens EXCEPT ![o].deletePending = delete]
      /\ UNCHANGED <<job, remote, idx, nodeVars, handleVars, negative, unsure, misdeleted>>
  BY DEF SetDelete, envVars, cacheVars, historyVars
<1>2. /\ o \in DOMAIN opens /\ opens[o] \in OpenFile /\ opens \in [DOMAIN opens -> OpenFile]
      /\ DOMAIN opens \subseteq Nat \ {0}
  BY DEF Usable, Shape, Opens
<1> DEFINE f == [opens[o] EXCEPT !.deletePending = delete]
<1>3. /\ f \in OpenFile /\ f.cleaned = opens[o].cleaned /\ f.node = opens[o].node
      /\ f.handle = opens[o].handle /\ f.name = opens[o].name /\ f.at = opens[o].at
      /\ f.astray = opens[o].astray
  BY <1>2 DEF OpenFile
<1>4. opens' = [opens EXCEPT ![o] = f]
  BY <1>1
<1> HIDE DEF f
<1>5. Opens' /\ OpensStay /\ \A p \in DOMAIN opens : opens'[p].cleaned = opens[p].cleaned
  BY <1>2, <1>3, <1>4 DEF Opens, OpensStay
<1> QED BY <1>1, <1>5 DEF Still

LEMMA OtherStill ==
    ASSUME Shape, Mount \/ Unmount \/ World \/ UNCHANGED <<vars, winVars>>
    PROVE  Still
<1>1. UNCHANGED <<job, remote, idx, nodeVars, handleVars, negative, unsure, misdeleted, opens>>
  BY DEF Mount, Unmount, World, Tick, LinkChange, vars, winVars, envVars, cacheVars, historyVars,
         nodeVars, handleVars
<1> QED BY <1>1 DEF Still, OpensStay, Opens, Shape

-----------------------------------------------------------------------------
(* The shape is kept.                                                      *)

LEMMA InitShape ==
    ASSUME WinInit
    PROVE  Shape /\ job = [t \in Threads |-> Idle] /\ opens = NoMap /\ unsure = {} /\ ~misdeleted
           /\ DOMAIN idx.attrs = {} /\ DOMAIN idx.listing = {} /\ DOMAIN negative = {}
<1>1. /\ job = [t \in Threads |-> Idle] /\ opens = NoMap /\ unsure = {} /\ ~misdeleted
      /\ idx = EmptyIndex /\ negative = NoMap /\ handles = NoMap
  BY DEF WinInit, Mounted
<1>2. DOMAIN idx.attrs = {} /\ DOMAIN idx.content = {} /\ DOMAIN idx.listing = {}
      /\ DOMAIN negative = {} /\ DOMAIN handles = {} /\ DOMAIN opens = {}
  BY <1>1 DEF EmptyIndex, Index, NoMap
<1>3. NodesOK /\ HandlesOK
  BY <1>2, VfsAssumption DEF WinInit, Mounted, NodesOK, Paths, HandlesOK
<1>4. IsTree(remote)
  <2>1. PICK there \in SUBSET FirstFiles :
           remote = [p \in there \cup {Root} |-> IF p = Root THEN Directory ELSE FileOf(<<>>, 0)]
    BY DEF WinInit
  <2>2. DOMAIN remote \subseteq Paths /\ DOMAIN remote = there \cup {Root}
    BY <2>1, WinAssumption, RootPath DEF Paths
  <2>3. DirIn(remote, Root)
    BY <2>1, <2>2 DEF DirIn, Directory
  <2>4. ASSUME NEW p \in DOMAIN remote, NEW k \in 0..(Len(p) - 1)
        PROVE  Prefix(p, k) = Root
    <3>1. CASE p = Root
      BY <3>1 DEF Root
    <3>2. CASE p # Root
      <4>1. PICK n \in Names : p = <<n>>
        BY <2>2, <3>2, FlatPaths
      <4>2. k = 0
        BY <4>1
      <4> QED BY <4>1, <4>2 DEF Prefix, Root
    <3> QED BY <3>1, <3>2
  <2> QED BY <2>2, <2>3, <2>4 DEF IsTree, Root
<1>5. Tables /\ Opens /\ OpensOK
  BY <1>1, <1>2, <1>3, <1>4 DEF Tables, IdxOK, Opens, OpensOK, NoMap
<1>6. Jobs
  BY <1>1, IdleJob DEF Jobs
<1>7. ASSUME NEW t \in Threads
      PROVE  /\ job[t].cb = "none" /\ job[t].guard = "none" /\ job[t].open = 0
             /\ job[t].todo = <<>> /\ job[t].phase = "call"
  BY <1>1 DEF Idle
<1>8. Todo("none") = {<<>>} /\ GuardOf("none") = "none" /\ "none" \in ByName
  BY DEF Todo, GuardOf, ByName
<1>9. Alone /\ \A t \in Threads : JobOK(t) /\ PathOK(t)
  BY <1>7, <1>8 DEF Alone, Apart, JobOK, PathOK
<1> QED BY <1>1, <1>2, <1>5, <1>6, <1>9 DEF Shape

\* The steps, but for the calls that only go on.
Loud(t) == ServerActs(t) \/ OpenDone(t) \/ CreateDone(t) \/ RenameDone(t)

LEMMA CallKinds ==
    ASSUME Shape, NEW t \in Threads, VfsCalls(t)
    PROVE  QuietStep(t) \/ Loud(t)
<1>1. CASE GetattrHit(t) \/ GetattrDone(t) \/ SetattrDone(t) \/ WriteDone(t)
  BY <1>1, CallEndsQuiet
<1>2. CASE LookupHit(t)
  BY <1>2, LookupHitQuiet
<1>3. CASE LookupNegative(t) \/ LookupDone(t)
  BY <1>3, LookupNegativeQuiet, LookupFoundQuiet
<1>4. CASE ReaddirHit(t) \/ ReaddirDone(t)
  BY <1>4, ReaddirQuiet
<1>5. CASE Ask(t)
  BY <1>5, AskQuiet
<1>6. CASE ServerAnswers(t)
  BY <1>6, AnswersQuiet
<1>7. CASE ServerRefuses(t) \/ RequestFails(t)
  BY <1>7, FailsQuiet
<1>8. CASE EditStore(t)
  BY <1>8, EditStoreQuiet
<1>9. CASE UnlinkDone(t)
  BY <1>9, UnlinkDoneQuiet
<1>10. CASE Loud(t)
  BY <1>10
<1> QED BY <1>1, <1>2, <1>3, <1>4, <1>5, <1>6, <1>7, <1>8, <1>9, <1>10 DEF VfsCalls, Loud

LEMMA StepKinds ==
    ASSUME Shape, [WinNext]_<<vars, winVars>>
    PROVE  \/ Still
           \/ \E t \in Threads : Callbacks(t) \/ (QuietStep(t) /\ VfsCalls(t)) \/ Loud(t)
           \/ \E o \in DOMAIN opens : Close(o)
<1>1. CASE Mount \/ Unmount \/ World \/ UNCHANGED <<vars, winVars>>
  BY <1>1, OtherStill
<1>2. ASSUME NEW o \in Usable, NEW delete \in BOOLEAN, SetDelete(o, delete)
      PROVE  Still
  BY <1>2, SetDeleteStill
<1>3. ASSUME NEW t \in Threads, VfsCalls(t)
      PROVE  (QuietStep(t) /\ VfsCalls(t)) \/ Loud(t)
  BY <1>3, CallKinds
<1> QED BY <1>1, <1>2, <1>3 DEF WinNext

LEMMA NextShape ==
    ASSUME Shape, [WinNext]_<<vars, winVars>>
    PROVE  Shape'
<1>1. CASE Still
  BY <1>1, StillShape
<1>2. ASSUME NEW o \in DOMAIN opens, Close(o)
      PROVE  Shape'
  BY <1>2, CloseShape
<1>3. ASSUME NEW t \in Threads, Callbacks(t)
      PROVE  Shape'
  BY <1>3, CallbackBegins
<1>4. ASSUME NEW t \in Threads, QuietStep(t)
      PROVE  Shape'
  BY <1>4, QuietShape DEF QuietStep
<1>5. ASSUME NEW t \in Threads, ServerActs(t)
      PROVE  Shape'
  BY <1>5, ActsShape
<1>6. ASSUME NEW t \in Threads, OpenDone(t) \/ CreateDone(t)
      PROVE  Shape'
  BY <1>6, OpenDoneAdds, CreateDoneAdds, AddsShape
<1>7. ASSUME NEW t \in Threads, RenameDone(t)
      PROVE  Shape'
  BY <1>7, RenameDoneShape
<1> QED BY <1>1, <1>2, <1>3, <1>4, <1>5, <1>6, <1>7, StepKinds DEF Loud

\* Every thread does what its callback has still to do, on a file that is open,
\* beside the callbacks WinFsp lets run beside it: fs.rs's callbacks, and the
\* locks they run under, for any number of threads.
THEOREM WinShape == WinSpec => []Shape
<1>1. WinInit => Shape
  BY InitShape
<1>2. Shape /\ [WinNext]_<<vars, winVars>> => Shape'
  BY NextShape
<1> QED BY <1>1, <1>2, PTL DEF WinSpec

\* The two maps of nodes agree, numbers are used once, and every handle is one of
\* a node, whichever threads intern, open, rename and release at the same time.
THEOREM WinNodeTable == WinSpec => []NodeTable
<1>1. Shape => NodeTable
  BY DEF Shape, Tables, NodesOK, HandlesOK, NodeTable
<1> QED BY <1>1, WinShape, PTL

-----------------------------------------------------------------------------
(* What a cleanup deletes: an open file that WinFsp has under its own name *)
(* is where that name says, or where the rename under way has taken it.    *)

Deleting(o) == \E t \in Threads : job[t].open = o /\ job[t].cb = "cleanup" /\ ~Answered(t)

Placed(o) ==
    \/ /\ opens[o].at = <<opens[o].name>>
       /\ \A t \in Threads : Moving(t) => job[t].name # opens[o].name
    \/ \E t \in Threads : /\ Moving(t) /\ job[t].name = opens[o].name
                          /\ opens[o].at = <<job[t].new>>

Live(o) == ~opens[o].astray /\ (~opens[o].cleaned \/ Deleting(o))

Located == \A o \in DOMAIN opens : Live(o) => Placed(o)

\* A cleanup under way is that of the last handle.
Last == \A t \in Threads : job[t].cb = "cleanup" => LastHandle(job[t].open)

\* The thread t changes no file's place: what moves goes on moving.
KeepsMoving ==
    \A t \in Threads : /\ Moving(t)' <=> Moving(t)
                       /\ Moving(t) => job'[t].name = job[t].name /\ job'[t].new = job[t].new

KeepsCleaning ==
    \A t \in Threads : job'[t].cb = "cleanup" =>
        /\ job[t].cb = "cleanup" /\ job'[t].open = job[t].open
        /\ Answered(t) => Answered(t)'

LEMMA PlacedStays ==
    ASSUME KeepsMoving, NEW o, Placed(o),
           opens'[o].name = opens[o].name, opens'[o].at = opens[o].at
    PROVE  Placed(o)'
BY DEF KeepsMoving, Placed

LEMMA DeletingStays ==
    ASSUME KeepsCleaning, NEW o, Deleting(o)'
    PROVE  Deleting(o)
BY DEF KeepsCleaning, Deleting

\* A step that keeps both, and the names and places of the files that are left.
LEMMA LocatedStays ==
    ASSUME Last, Located, KeepsMoving, KeepsCleaning, DOMAIN opens' \subseteq DOMAIN opens,
           \A t \in Threads : job'[t].cb = "cleanup" => job'[t].open \in DOMAIN opens',
           \A o \in DOMAIN opens' :
              /\ opens'[o].name = opens[o].name /\ opens'[o].at = opens[o].at
              /\ opens[o].astray => opens'[o].astray
              /\ opens[o].cleaned => opens'[o].cleaned
    PROVE  Last' /\ Located'
<1>1. ASSUME NEW t \in Threads, job'[t].cb = "cleanup"
      PROVE  LastHandle(job[t].open)'
  <2>1. LastHandle(job[t].open) /\ job'[t].open = job[t].open /\ job'[t].open \in DOMAIN opens'
    BY <1>1 DEF Last, KeepsCleaning
  <2> QED BY <2>1 DEF LastHandle, SameFile
<1>2. ASSUME NEW o \in DOMAIN opens', Live(o)'
      PROVE  Placed(o)'
  <2>1. Live(o)
    BY <1>2, DeletingStays DEF Live
  <2> QED BY <2>1, PlacedStays DEF Located
<1> QED BY <1>1, <1>2 DEF Last, Located

LEMMA StillLocated ==
    ASSUME Shape, Last, Located, Still
    PROVE  Last' /\ Located'
<1>1. job' = job /\ OpensStay /\ DOMAIN opens' = DOMAIN opens
  BY DEF Still, OpensStay
<1>2. KeepsMoving /\ KeepsCleaning
  BY <1>1 DEF KeepsMoving, KeepsCleaning, Moving, Answered
<1>3. \A t \in Threads : job'[t].cb = "cleanup" => job'[t].open \in DOMAIN opens'
  BY <1>1 DEF Shape, JobOK, ByName
<1> QED BY <1>1, <1>2, <1>3, LocatedStays DEF OpensStay

LEMMA CloseLocated ==
    ASSUME Shape, Last, Located, NEW o \in DOMAIN opens, Close(o)
    PROVE  Last' /\ Located' /\ UNCHANGED misdeleted
<1>1. /\ Shape' /\ job' = job /\ DOMAIN opens' = DOMAIN opens \ {o} /\ UNCHANGED misdeleted
      /\ \A p \in DOMAIN opens' : opens'[p] = opens[p]
  BY CloseShape
<1>2. KeepsMoving /\ KeepsCleaning
  BY <1>1 DEF KeepsMoving, KeepsCleaning, Moving, Answered
<1>3. \A t \in Threads : job'[t].cb = "cleanup" => job'[t].open \in DOMAIN opens'
  BY <1>1 DEF Shape, JobOK, ByName
<1>4. Last' /\ Located'
  BY <1>1, <1>2, <1>3, LocatedStays
<1> QED BY <1>1, <1>4

\* Where a quiet step takes a job that moves or cleans up.
LEMMA QuietKeeps ==
    ASSUME Shape, NEW t \in Threads, QuietStep(t)
    PROVE  KeepsMoving /\ KeepsCleaning
<1>1. /\ Jobs /\ JobOK(t) /\ job[t].cb # "none" /\ Moves(t)
  BY DEF Shape, QuietStep, Quiet
<1>2. Call(t) \in Looks => job[t].cb \notin {"rename", "cleanup"}
  BY <1>1, CallFacts DEF Looks
<1>3. /\ \A u \in Threads \ {t} : job'[u] = job[u]
      /\ Same(t) \/ job'[t] = Idle
  BY <1>1 DEF Moves, Ends, Goes, Found, Works, Others
<1>4. Idle.cb = "none"
  BY DEF Idle
<1>5. Moving(t)' <=> Moving(t)
  BY <1>1, <1>2, <1>4 DEF Moves, Ends, Goes, Found, Works, Same, Moving, Answered
<1>6. job'[t].cb = "cleanup" => (Answered(t) => Answered(t)')
  BY <1>1, <1>2, <1>4 DEF Moves, Ends, Goes, Found, Works, Same, Answered
<1>7. KeepsMoving
  BY <1>3, <1>4, <1>5 DEF KeepsMoving, Same, Moving, Answered
<1>8. KeepsCleaning
  BY <1>3, <1>4, <1>6 DEF KeepsCleaning, Same, Answered
<1> QED BY <1>7, <1>8

LEMMA QuietLocated ==
    ASSUME Shape, Last, Located, NEW t \in Threads, QuietStep(t)
    PROVE  Last' /\ Located' /\ UNCHANGED misdeleted
<1>1. UNCHANGED <<opens, misdeleted>>
  BY DEF QuietStep, Quiet
<1>2. Shape'
  BY QuietShape DEF QuietStep
<1>3. \A u \in Threads : job'[u].cb = "cleanup" => job'[u].open \in DOMAIN opens'
  BY <1>2 DEF Shape, JobOK, ByName
<1>4. Last' /\ Located'
  BY <1>1, <1>3, QuietKeeps, LocatedStays
<1> QED BY <1>1, <1>4

LEMMA BeginLocated ==
    ASSUME Shape, Last, Located, NEW t \in Threads, Callbacks(t)
    PROVE  Last' /\ Located' /\ UNCHANGED misdeleted
<1>1. /\ Shape' /\ Begins(t)
      /\ \/ UNCHANGED opens /\ job'[t].cb # "cleanup"
         \/ /\ OpensStay /\ LastHandle(job'[t].open) /\ job'[t].cb = "cleanup"
            /\ job'[t].open \in Usable
            /\ \A p \in DOMAIN opens \ {job'[t].open} : opens'[p] = opens[p]
  BY CallbackBegins
<1>2. /\ \A u \in Threads \ {t} : job'[u] = job[u]
      /\ job[t] = Idle /\ job'[t].phase = "call" /\ UNCHANGED misdeleted
  BY <1>1 DEF Begins, Others
<1>3. Idle.cb = "none" /\ Idle.phase = "call"
  BY DEF Idle
<1>4. KeepsMoving
  BY <1>2, <1>3 DEF KeepsMoving, Moving, Answered
<1>5. OpensStay
  BY <1>1 DEF OpensStay
<1>6. ASSUME NEW u \in Threads, job'[u].cb = "cleanup"
      PROVE  LastHandle(job[u].open)'
  <2>1. LastHandle(job'[u].open)
    BY <1>1, <1>2, <1>6 DEF Last
  <2>2. job'[u].open \in DOMAIN opens'
    BY <1>1, <1>6 DEF Shape, JobOK, ByName
  <2> QED BY <1>5, <2>1, <2>2 DEF LastHandle, SameFile, OpensStay
<1>7. ASSUME NEW o \in DOMAIN opens', Live(o)'
      PROVE  Placed(o)'
  <2>1. ~opens[o].astray /\ o \in DOMAIN opens
    BY <1>5, <1>7 DEF Live, OpensStay
  <2>2. CASE ~opens'[o].cleaned
    <3>1. Live(o)
      BY <1>5, <2>1, <2>2 DEF Live, OpensStay
    <3> QED BY <1>4, <1>5, <2>1, <3>1, PlacedStays DEF Located, OpensStay
  <2>3. CASE Deleting(o)'
    <3>1. Deleting(o) \/ o \in Usable
      BY <1>1, <1>2, <2>3 DEF Deleting, Answered
    <3>2. Live(o)
      BY <2>1, <3>1 DEF Live, Usable
    <3> QED BY <1>4, <1>5, <2>1, <3>2, PlacedStays DEF Located, OpensStay
  <2> QED BY <1>7, <2>2, <2>3 DEF Live
<1> QED BY <1>2, <1>6, <1>7 DEF Last, Located

\* While a file is opened or created nothing is renamed or deleted.
LEMMA AddsLocated ==
    ASSUME Shape, Located, NEW t \in Threads, NEW p, Adds(t, p),
           \A u \in Threads : job[u].cb \notin {"rename", "cleanup"}
    PROVE  Last' /\ Located' /\ UNCHANGED misdeleted
<1>1. /\ Ends(t) /\ p \in Children /\ UNCHANGED misdeleted
  BY DEF Adds
<1>2. PICK o \in Nat : OpenedAs(o, p)
  BY DEF Adds
<1>3. Idle.cb = "none"
  BY DEF Idle
<1>4. \A u \in Threads : job'[u].cb \notin {"rename", "cleanup"}
  BY <1>1, <1>3 DEF Ends, Others
<1>5. Last' /\ KeepsMoving
  BY <1>4 DEF Last, KeepsMoving, Moving
<1>6. ASSUME NEW q \in DOMAIN opens', Live(q)'
      PROVE  Placed(q)'
  <2>1. ~Deleting(q)'
    BY <1>4 DEF Deleting
  <2>2. CASE q = o
    BY <1>2, <1>4, <1>6, <2>2 DEF OpenedAs, Live, Placed, Moving
  <2>3. CASE q # o
    <3>1. q \in DOMAIN opens /\ opens'[q] = opens[q]
      BY <1>2, <2>3 DEF OpenedAs
    <3>2. Live(q)
      BY <1>6, <2>1, <3>1 DEF Live
    <3> QED BY <1>5, <3>1, <3>2, PlacedStays DEF Located
  <2> QED BY <2>2, <2>3
<1> QED BY <1>1, <1>5, <1>6 DEF Located

LEMMA OpensLocated ==
    ASSUME Shape, Located, NEW t \in Threads, OpenDone(t) \/ CreateDone(t)
    PROVE  Last' /\ Located' /\ UNCHANGED misdeleted
<1>1. CASE OpenDone(t)
  <2>1. Adds(t, job[t].path) /\ job[t].cb = "open"
    BY <1>1, OpenDoneAdds
  <2>2. \A u \in Threads : job[u].cb \notin {"rename", "cleanup"}
    BY <2>1, BesideShared
  <2> QED BY <2>1, <2>2, AddsLocated
<1>2. CASE CreateDone(t)
  <2>1. Adds(t, <<job[t].name>>) /\ job[t].cb = "create"
    BY <1>2, CreateDoneAdds
  <2>2. \A u \in Threads : job[u].cb \notin {"rename", "cleanup"}
    BY <2>1, OneExclusive
  <2> QED BY <2>1, <2>2, AddsLocated
<1> QED BY <1>1, <1>2

LEMMA RenameLocated ==
    ASSUME Shape, Located, NEW t \in Threads, RenameDone(t)
    PROVE  Last' /\ Located' /\ UNCHANGED misdeleted
<1>1. /\ job[t].cb = "rename" /\ job[t].phase = "state" /\ Ends(t) /\ UNCHANGED misdeleted
      /\ DOMAIN opens' = DOMAIN opens
      /\ \A o \in DOMAIN opens :
            /\ opens'[o].cleaned = opens[o].cleaned /\ opens'[o].at = opens[o].at
            /\ opens'[o].astray = opens[o].astray
            /\ opens'[o].name = IF opens[o].name = job[t].name THEN job[t].new ELSE opens[o].name
  BY RenameDoneFacts
<1>2. \A u \in Threads \ {t} : job[u].cb \notin {"rename", "cleanup"}
  BY <1>1, OneExclusive
<1>3. Idle.cb = "none"
  BY DEF Idle
<1>4. \A u \in Threads : job'[u].cb \notin {"rename", "cleanup"}
  BY <1>1, <1>2, <1>3 DEF Ends, Others
<1>5. \A u \in Threads : Moving(u) <=> u = t
  BY <1>1, <1>2 DEF Moving, Answered
<1>6. ASSUME NEW o \in DOMAIN opens', Live(o)'
      PROVE  Placed(o)'
  <2>1. ~Deleting(o)'
    BY <1>4 DEF Deleting
  <2>2. Live(o) /\ o \in DOMAIN opens
    BY <1>1, <1>6, <2>1 DEF Live
  <2>3. Placed(o)
    BY <2>2 DEF Located
  <2>4. opens[o].at = IF opens[o].name = job[t].name THEN <<job[t].new>> ELSE <<opens[o].name>>
    BY <1>5, <2>3 DEF Placed
  <2>5. opens'[o].at = <<opens'[o].name>>
    BY <1>1, <2>2, <2>4
  <2> QED BY <1>4, <2>5 DEF Placed, Moving
<1> QED BY <1>1, <1>4, <1>6 DEF Last, Located

LEMMA ActsLocated ==
    ASSUME Shape, Last, Located, ~misdeleted, NEW t \in Threads, ServerActs(t)
    PROVE  Last' /\ Located' /\ ~misdeleted'
<1>1. /\ job[t].phase = "ask" /\ job[t].cb # "none" /\ Call(t) \notin Looks
      /\ Call(t) \in {"create", "unlink", "rename"} =>
            job[t].name \in Names /\ job[t].path = <<job[t].name>>
  BY ActsRemote
<1>2. /\ DOMAIN opens' = DOMAIN opens
      /\ \A o \in DOMAIN opens :
            /\ opens'[o].name = opens[o].name /\ opens'[o].cleaned = opens[o].cleaned
            /\ opens'[o].at = Now(t, o)
            /\ opens[o].astray => opens'[o].astray
      /\ \/ Works(t, "store", job[t].path, job[t].seen)
         \/ Ends(t) /\ \A o \in DOMAIN opens : opens'[o].astray <=> opens[o].astray \/ Lost(t, o)
      /\ misdeleted' = \/ misdeleted
                       \/ /\ Call(t) = "unlink" /\ ~opens[job[t].open].astray
                          /\ opens[job[t].open].at # job[t].path
  BY ActsFacts
<1>3. /\ Jobs /\ JobOK(t) /\ Shape'
      /\ \A u \in Threads : JobOK(u) /\ job[u].open # 0 => job[u].open \in DOMAIN opens
  BY ActsShape DEF Shape, JobOK
<1>4. /\ Call(t) = "unlink" <=> job[t].cb = "cleanup"
      /\ Call(t) = "rename" <=> job[t].cb = "rename"
  BY <1>1, <1>3, CallFacts
<1>5. /\ \A u \in Threads \ {t} : job'[u] = job[u]
      /\ Same(t) \/ job'[t] = Idle
  BY <1>2 DEF Works, Ends, Others
<1>6. Idle.cb = "none"
  BY DEF Idle
<1>7. KeepsCleaning
  BY <1>1, <1>5, <1>6 DEF KeepsCleaning, Same, Answered
<1>8. Last'
  <2>1. SUFFICES ASSUME NEW u \in Threads, job'[u].cb = "cleanup"
                 PROVE  LastHandle(job[u].open)'
    BY DEF Last
  <2>2. LastHandle(job[u].open) /\ job'[u].open = job[u].open /\ job'[u].open \in DOMAIN opens'
    BY <1>3, <1>7, <2>1 DEF Last, KeepsCleaning, Shape, JobOK, ByName
  <2> QED BY <1>2, <2>2 DEF LastHandle, SameFile
<1>9. CASE Call(t) \notin {"unlink", "rename"}
  <2>1. KeepsMoving
    BY <1>4, <1>5, <1>6, <1>9 DEF KeepsMoving, Moving, Same, Answered
  <2>2. \A o \in DOMAIN opens : opens'[o].at = opens[o].at
    BY <1>2, <1>9 DEF Now
  <2>3. \A u \in Threads : job'[u].cb = "cleanup" => job'[u].open \in DOMAIN opens'
    BY <1>3 DEF Shape, JobOK, ByName
  <2>4. Located'
    BY <1>2, <1>7, <2>1, <2>2, <2>3, LocatedStays
  <2> QED BY <1>2, <1>8, <1>9, <2>4
<1>10. CASE Call(t) = "unlink"
  <2>1. \A u \in Threads : job[u].cb = "rename" => FALSE
    BY <1>4, <1>10, OneExclusive
  <2>2. \A u \in Threads \ {t} : job[u].cb # "cleanup"
    BY <1>4, <1>10, OneExclusive
  <2>3. \A u \in Threads : job'[u].cb # "rename"
    BY <1>4, <1>5, <1>6, <1>10, <2>1 DEF Same
  <2>4. \A o : ~Deleting(o)'
    BY <1>2, <1>5, <1>6, <2>2 DEF Deleting, Works, Ends, Answered
  <2>5. job[t].open \in DOMAIN opens /\ opens[job[t].open].cleaned /\ LastHandle(job[t].open)
        /\ opens[job[t].open].name = job[t].name /\ Deleting(job[t].open)
    BY <1>1, <1>3, <1>4, <1>10 DEF Shape, JobOK, ByName, Last, Deleting, Answered
  <2>6. ~opens[job[t].open].astray => opens[job[t].open].at = job[t].path
    BY <1>1, <1>10, <2>1, <2>5 DEF Located, Live, Placed, Moving
  <2>7. ASSUME NEW o \in DOMAIN opens', Live(o)'
        PROVE  Placed(o)'
    <3>1. o \in DOMAIN opens /\ ~opens[o].cleaned /\ ~opens[o].astray
      BY <1>2, <2>4, <2>7 DEF Live
    <3>2. opens[o].at = <<opens[o].name>>
      BY <2>1, <3>1 DEF Located, Live, Placed, Moving
    <3>3. opens[o].name # job[t].name
      BY <2>5, <3>1 DEF LastHandle, SameFile
    <3>4. opens[o].at # job[t].path
      BY <1>1, <1>10, <3>2, <3>3
    <3>5. opens'[o].at = <<opens'[o].name>>
      BY <1>2, <1>10, <3>1, <3>2, <3>4 DEF Now
    <3> QED BY <2>3, <3>5 DEF Placed, Moving
  <2> QED BY <1>2, <1>8, <2>6, <2>7 DEF Located
<1>11. CASE Call(t) = "rename"
  <2>1. \A u \in Threads \ {t} : job[u].cb \notin {"rename", "cleanup"}
    BY <1>4, <1>11, OneExclusive
  <2>2. \A u \in Threads : ~Moving(u)
    BY <1>1, <2>1 DEF Moving, Answered
  <2>3. \A o : ~Deleting(o)'
    BY <1>4, <1>5, <1>6, <1>11, <2>1 DEF Deleting, Same
  <2>4. ASSUME NEW o \in DOMAIN opens', Live(o)'
        PROVE  Placed(o)'
    <3>1. o \in DOMAIN opens /\ ~opens[o].cleaned /\ ~opens[o].astray
      BY <1>2, <2>3, <2>4 DEF Live
    <3>2. opens[o].at = <<opens[o].name>>
      BY <2>2, <3>1 DEF Located, Live, Placed
    <3>3. opens'[o].name = opens[o].name /\ opens'[o].at = Now(t, o)
      BY <1>2, <3>1
    <3>4. opens[o].at = job[t].path <=> opens[o].name = job[t].name
      BY <1>1, <1>11, <3>2
    <3>5. CASE Works(t, "store", job[t].path, job[t].seen)
      <4>1. /\ Moving(t)' /\ job'[t].name = job[t].name /\ job'[t].new = job[t].new
            /\ \A u \in Threads : Moving(u)' => u = t
        BY <1>4, <1>5, <1>11, <2>1, <3>5 DEF Works, Same, Moving, Answered
      <4> QED BY <1>11, <3>2, <3>3, <3>4, <4>1 DEF Placed, Now
    <3>6. CASE Ends(t) /\ \A p \in DOMAIN opens : opens'[p].astray <=> opens[p].astray \/ Lost(t, p)
      <4>1. ~Lost(t, o)
        BY <2>4, <3>1, <3>6 DEF Live
      <4>2. opens'[o].at = <<opens'[o].name>>
        BY <1>11, <3>2, <3>3, <4>1 DEF Lost, Now
      <4>3. \A u \in Threads : ~Moving(u)'
        BY <1>5, <1>6, <2>1, <3>6 DEF Ends, Moving
      <4> QED BY <4>2, <4>3 DEF Placed
    <3> QED BY <1>2, <3>5, <3>6
  <2> QED BY <1>2, <1>8, <1>11, <2>4 DEF Located
<1> QED BY <1>9, <1>10, <1>11

\* The invariant behind DeletesTheOpened.
DeletesInv == Shape /\ Last /\ Located /\ ~misdeleted

LEMMA NextDeletes ==
    ASSUME DeletesInv, [WinNext]_<<vars, winVars>>
    PROVE  DeletesInv'
<1>1. Shape /\ Last /\ Located /\ ~misdeleted /\ Shape'
  BY NextShape DEF DeletesInv
<1>2. CASE Still
  BY <1>1, <1>2, StillLocated DEF DeletesInv, Still
<1>3. ASSUME NEW o \in DOMAIN opens, Close(o)
      PROVE  DeletesInv'
  BY <1>1, <1>3, CloseLocated DEF DeletesInv
<1>4. ASSUME NEW t \in Threads, Callbacks(t)
      PROVE  DeletesInv'
  BY <1>1, <1>4, BeginLocated DEF DeletesInv
<1>5. ASSUME NEW t \in Threads, QuietStep(t)
      PROVE  DeletesInv'
  BY <1>1, <1>5, QuietLocated DEF DeletesInv
<1>6. ASSUME NEW t \in Threads, Loud(t)
      PROVE  DeletesInv'
  BY <1>1, <1>6, ActsLocated, OpensLocated, RenameLocated DEF DeletesInv, Loud
<1> QED BY <1>1, <1>2, <1>3, <1>4, <1>5, <1>6, StepKinds

\* A cleanup deletes the file that was opened, under whatever letter case and
\* after whatever renames, however the other threads' callbacks fall between: the
\* name fs.rs's open reports, and RenameDone's edit of it, are the file's own.
THEOREM DeletesTheOpenedInvariant == WinSpec => []DeletesTheOpened
<1>1. WinInit => DeletesInv
  <2>1. SUFFICES ASSUME WinInit PROVE DeletesInv
    OBVIOUS
  <2>2. Shape /\ job = [t \in Threads |-> Idle] /\ opens = NoMap /\ ~misdeleted
    BY <2>1, InitShape
  <2>3. Idle.cb = "none" /\ DOMAIN opens = {}
    BY <2>2 DEF Idle, NoMap
  <2> QED BY <2>2, <2>3 DEF DeletesInv, Last, Located
<1>2. DeletesInv /\ [WinNext]_<<vars, winVars>> => DeletesInv'
  BY NextDeletes
<1>3. DeletesInv => DeletesTheOpened
  BY DEF DeletesInv, DeletesTheOpened
<1> QED BY <1>1, <1>2, <1>3, PTL DEF WinSpec

-----------------------------------------------------------------------------
(* What the cache says of names.  An open file is found by its node under  *)
(* the name WinFsp has it by; a thread between its answer and its edits    *)
(* knows what is still so, since what could change it is kept apart; and   *)
(* the tables are right of all names but those of a change under way.      *)

PathOf(o) == nodeToPath[opens[o].node]
Unsure(p) == \E n \in unsure : p = <<n>>

FileOK(o) ==
    \/ opens[o].cleaned
    \/ Unsure(PathOf(o))
    \/ /\ PathOf(o) = <<opens[o].name>>
       /\ PathOf(o) \in DOMAIN pathToNode /\ pathToNode[PathOf(o)] = opens[o].node
       /\ \/ PathOf(o) \in DOMAIN remote
          \/ \E t \in Threads : Moving(t) /\ job[t].name = opens[o].name

\* What a request is about is the file's path still.
AskedOK(t) ==
    job[t].open # 0 /\ job[t].phase # "call" /\ Call(t) \in {"getattr", "setattr"} =>
        \/ Unsure(job[t].path)
        \/ job[t].path = <<opens[job[t].open].name>> /\ PathOf(job[t].open) = job[t].path

\* What the server answered is so still.
LooksOK(t) ==
    Answered(t) =>
        /\ Call(t) = "lookup" =>
              \/ job[t].name \in unsure
              \/ job[t].seen = {} <=> job[t].path \notin DOMAIN remote
        /\ Call(t) \in {"readdir", "scan"} =>
              \A n \in Names \ unsure : <<n>> \in job[t].seen <=> <<n>> \in DOMAIN remote
        /\ Call(t) = "getattr" /\ job[t].open = 0 => job[t].seen = {Root}
        /\ Call(t) = "getattr" /\ job[t].open # 0 =>
              Unsure(job[t].path) \/ (job[t].path \in DOMAIN remote /\ job[t].seen # {})
        /\ Call(t) = "setattr" => Unsure(job[t].path) \/ job[t].path \in DOMAIN remote

\* What was found and is about to be opened is there still.
OpeningOK(t) ==
    job[t].cb = "open" /\ Call(t) = "open" =>
        Unsure(job[t].path) \/ job[t].path \in DOMAIN remote

\* So is what a change that was carried out has done.
NamingOK(t) ==
    Answered(t) =>
        /\ job[t].cb = "create" => <<job[t].name>> \in DOMAIN remote
        /\ job[t].cb = "cleanup" => <<job[t].name>> \notin DOMAIN remote
        /\ job[t].cb = "rename" =>
              /\ <<job[t].name>> \notin DOMAIN remote /\ <<job[t].new>> \in DOMAIN remote
              /\ \A o \in DOMAIN opens :
                    ~opens[o].cleaned /\ PathOf(o) = <<job[t].new>> => job[t].new \in unsure

Naming(t) == job[t].cb \in {"create", "cleanup", "rename"}
Involved(t) == IF job[t].cb = "rename" THEN {job[t].name, job[t].new} ELSE {job[t].name}

\* The store, and the state, are behind the server on the name n.
Storing(n) == \E t \in Threads : Naming(t) /\ job[t].phase = "store" /\ n \in Involved(t)
Changing(n) == \E t \in Threads : Naming(t) /\ Answered(t) /\ n \in Involved(t)

Listed(n) == n \in idx.listing[Root] /\ <<n>> \in DOMAIN idx.attrs

NameOK(n) ==
    /\ <<n>> \in DOMAIN idx.attrs => Storing(n) \/ <<n>> \in DOMAIN remote
    /\ Root \in DOMAIN idx.listing => Storing(n) \/ (Listed(n) <=> <<n>> \in DOMAIN remote)
    /\ <<RootNode, n>> \in DOMAIN negative => Changing(n) \/ <<n>> \notin DOMAIN remote

FilesOK == \A o \in DOMAIN opens : FileOK(o)
ThreadOK(t) == AskedOK(t) /\ LooksOK(t) /\ OpeningOK(t) /\ NamingOK(t)
ThreadsOK == \A t \in Threads : ThreadOK(t)
NamesOK == \A n \in Names \ unsure : NameOK(n)

\* The invariant behind ListingWhole and NamesTrue.
NamesInv == DeletesInv /\ FilesOK /\ ThreadsOK /\ NamesOK

KeepsFile(o) == opens'[o].name = opens[o].name /\ PathOf(o)' = PathOf(o)

LEMMA UnsureGrows ==
    ASSUME unsure \subseteq unsure', NEW p, Unsure(p)
    PROVE  Unsure(p)'
BY DEF Unsure

LEMMA PathStays ==
    ASSUME Shape, NodesGrow, NEW o \in DOMAIN opens, opens'[o].node = opens[o].node
    PROVE  PathOf(o)' = PathOf(o)
<1>1. opens[o].node \in DOMAIN nodeToPath
  BY DEF Shape, OpensOK
<1> QED BY <1>1 DEF PathOf, NodesGrow

LEMMA FileStays ==
    ASSUME Shape, NodesGrow, KeepsMoving, NEW o \in DOMAIN opens, FileOK(o),
           opens'[o].node = opens[o].node, opens'[o].name = opens[o].name,
           opens[o].cleaned => opens'[o].cleaned,
           DOMAIN remote' = DOMAIN remote, unsure \subseteq unsure'
    PROVE  FileOK(o)'
<1>1. PathOf(o)' = PathOf(o)
  BY PathStays
<1>2. CASE opens[o].cleaned
  BY <1>2 DEF FileOK
<1>3. CASE Unsure(PathOf(o))
  BY <1>1, <1>3 DEF FileOK, Unsure
<1>4. CASE /\ PathOf(o) = <<opens[o].name>>
           /\ PathOf(o) \in DOMAIN pathToNode /\ pathToNode[PathOf(o)] = opens[o].node
           /\ \/ PathOf(o) \in DOMAIN remote
              \/ \E t \in Threads : Moving(t) /\ job[t].name = opens[o].name
  <2>1. PathOf(o) \in DOMAIN pathToNode' /\ pathToNode'[PathOf(o)] = opens[o].node
    BY <1>4 DEF NodesGrow
  <2>2. \/ PathOf(o) \in DOMAIN remote'
        \/ \E t \in Threads : Moving(t)' /\ job'[t].name = opens'[o].name
    BY <1>4 DEF KeepsMoving
  <2> QED BY <1>1, <1>4, <2>1, <2>2 DEF FileOK
<1> QED BY <1>2, <1>3, <1>4 DEF FileOK

\* A thread that does nothing.
LEMMA LooksStay ==
    ASSUME NEW u \in Threads, job'[u] = job[u], AskedOK(u), LooksOK(u), OpeningOK(u),
           DOMAIN remote' = DOMAIN remote, unsure \subseteq unsure',
           job[u].open # 0 => KeepsFile(job[u].open)
    PROVE  AskedOK(u)' /\ LooksOK(u)' /\ OpeningOK(u)'
<1>1. Call(u)' = Call(u) /\ (Answered(u)' <=> Answered(u))
  BY DEF Call, Answered
<1>2. \A p : Unsure(p) => Unsure(p)'
  BY UnsureGrows
<1>3. AskedOK(u)'
  <2>1. SUFFICES ASSUME job'[u].open # 0, job'[u].phase # "call", Call(u)' \in {"getattr", "setattr"}
                 PROVE  \/ Unsure(job[u].path)'
                        \/ /\ job'[u].path = <<opens'[job'[u].open].name>>
                           /\ PathOf(job[u].open)' = job'[u].path
    BY DEF AskedOK
  <2>2. \/ Unsure(job[u].path)
        \/ job[u].path = <<opens[job[u].open].name>> /\ PathOf(job[u].open) = job[u].path
    BY <1>1, <2>1 DEF AskedOK
  <2>3. CASE Unsure(job[u].path)
    BY <2>3 DEF Unsure
  <2>4. CASE job[u].path = <<opens[job[u].open].name>> /\ PathOf(job[u].open) = job[u].path
    BY <2>1, <2>4 DEF KeepsFile, PathOf
  <2> QED BY <2>2, <2>3, <2>4
<1>4. LooksOK(u)'
  BY <1>1 DEF LooksOK, Unsure
<1>5. OpeningOK(u)'
  BY <1>1 DEF OpeningOK, Unsure
<1> QED BY <1>3, <1>4, <1>5

\* A thread with nothing sent.
LEMMA NothingSent ==
    ASSUME NEW u \in Threads, job'[u].phase = "call", job'[u].cb = "open" => Call(u)' # "open"
    PROVE  ThreadOK(u)'
BY DEF ThreadOK, AskedOK, LooksOK, OpeningOK, NamingOK, Answered

\* A change that waits for its edits while no file is opened or moved.
LEMMA NamingStays ==
    ASSUME NEW u \in Threads, Same(u), Answered(u), NamingOK(u),
           DOMAIN remote' = DOMAIN remote, unsure \subseteq unsure',
           job[u].cb = "rename" =>
              \A o \in DOMAIN opens' : /\ o \in DOMAIN opens /\ PathOf(o)' = PathOf(o)
                                       /\ opens[o].cleaned => opens'[o].cleaned
    PROVE  NamingOK(u)'
BY DEF NamingOK, Same

LEMMA NamesStay ==
    ASSUME NamesOK, DOMAIN remote' = DOMAIN remote, unsure \subseteq unsure', UNCHANGED idx,
           \A n \in Names : Storing(n) => Storing(n)',
           \A n \in Names : <<RootNode, n>> \in DOMAIN negative' =>
              \/ <<RootNode, n>> \in DOMAIN negative /\ (Changing(n) => Changing(n)')
              \/ n \in unsure
              \/ <<n>> \notin DOMAIN remote
    PROVE  NamesOK'
<1>1. SUFFICES ASSUME NEW n \in Names, n \notin unsure' PROVE NameOK(n)'
  BY DEF NamesOK
<1>2. NameOK(n) /\ n \notin unsure
  BY <1>1 DEF NamesOK
<1>3. Listed(n)' <=> Listed(n)
  BY DEF Listed
<1> QED BY <1>2, <1>3 DEF NameOK

-----------------------------------------------------------------------------
(* The names through quiet steps.                                          *)

\* A question is not about a file that a rename under way has taken.
LEMMA NotMoving ==
    ASSUME Shape, NEW t \in Threads, job[t].open # 0, job[t].cb # "rename", NEW u \in Threads,
           Moving(u)
    PROVE  job[u].name # opens[job[t].open].name
<1>1. u # t /\ job[u].cb = "rename" /\ JobOK(u)
  BY DEF Moving, Shape
<1>2. /\ job[u].guard = "exclusive" /\ job[u].open # 0
      /\ job[u].name = opens[job[u].open].name
  BY <1>1 DEF JobOK, GuardOf, ByName
<1> QED BY <1>1, <1>2, BesideExclusive

LEMMA RootThere ==
    ASSUME Shape
    PROVE  Root \in DOMAIN remote /\ \A n \in Names : <<n>> \in DOMAIN remote <=> n \in ChildrenOf(Root)
<1>1. \A n \in Names : Append(Root, n) = <<n>>
  BY DEF Root
<1> QED BY <1>1 DEF Shape, Tables, IsTree, DirIn, Root, ChildrenOf

\* The answer to a question.
LEMMA AnswerOK ==
    ASSUME NamesInv, NEW t \in Threads, job[t].phase = "ask", Call(t) \in Looks,
           UNCHANGED <<remote, opens, unsure>>, NodesGrow,
           Works(t, "store", job[t].path, Answer(t))
    PROVE  ThreadOK(t)'
<1>1. /\ Shape /\ Jobs /\ JobOK(t) /\ PathOK(t) /\ FilesOK /\ AskedOK(t)
  BY DEF NamesInv, DeletesInv, Shape, ThreadsOK, ThreadOK
<1>2. /\ Same(t) /\ job'[t].todo = job[t].todo /\ job'[t].phase = "store"
      /\ job'[t].path = job[t].path /\ job'[t].seen = Answer(t)
  BY DEF Works
<1>3. Call(t)' = Call(t) /\ job[t].cb # "none"
  BY <1>1, <1>2, Busy DEF Call
<1>4. job[t].cb \notin {"create", "cleanup", "rename"} /\ Call(t) # "open"
  BY <1>1, <1>3, CallFacts DEF Looks
<1>5. OpeningOK(t)' /\ NamingOK(t)'
  BY <1>2, <1>3, <1>4 DEF OpeningOK, NamingOK, Same
<1>6. ASSUME job[t].open # 0 PROVE KeepsFile(job[t].open)
  <2>1. job[t].open \in DOMAIN opens
    BY <1>1, <1>6 DEF JobOK
  <2>2. PathOf(job[t].open)' = nodeToPath'[opens[job[t].open].node]
    BY <1>2 DEF PathOf, Same
  <2>3. opens[job[t].open].node \in DOMAIN nodeToPath
    BY <1>1, <2>1 DEF Shape, OpensOK
  <2> QED BY <2>2, <2>3 DEF KeepsFile, NodesGrow, PathOf
<1>7. AskedOK(t)'
  <2>1. SUFFICES ASSUME job[t].open # 0, Call(t) \in {"getattr", "setattr"}
                 PROVE  \/ Unsure(job[t].path)'
                        \/ /\ job[t].path = <<opens[job[t].open].name>>
                           /\ PathOf(job[t].open)' = job[t].path
    BY <1>2, <1>3 DEF AskedOK, Same
  <2>2. \/ Unsure(job[t].path)
        \/ job[t].path = <<opens[job[t].open].name>> /\ PathOf(job[t].open) = job[t].path
    BY <1>1, <2>1 DEF AskedOK
  <2> QED BY <1>2, <1>6, <2>1, <2>2 DEF Unsure, KeepsFile
<1>8. CASE Call(t) = "lookup"
  <2>1. Answer(t) = {job[t].path} \cap DOMAIN remote
    BY <1>8 DEF Answer
  <2>2. LooksOK(t)'
    BY <1>2, <1>3, <1>8, <2>1 DEF LooksOK
  <2> QED BY <1>5, <1>7, <2>2 DEF ThreadOK
<1>9. CASE Call(t) \in {"readdir", "scan"}
  <2>1. Answer(t) = {<<n>> : n \in ChildrenOf(Root)}
    BY <1>9 DEF Answer
  <2>2. \A n \in Names : <<n>> \in Answer(t) <=> <<n>> \in DOMAIN remote
    BY <1>1, <2>1, RootThere
  <2>3. LooksOK(t)'
    BY <1>2, <1>3, <1>9, <2>2 DEF LooksOK
  <2> QED BY <1>5, <1>7, <2>3 DEF ThreadOK
<1>10. CASE Call(t) = "getattr" /\ job[t].open = 0
  <2>1. Answer(t) = {Root}
    BY <1>1, <1>10, RootThere DEF Answer, PathOK
  <2>2. LooksOK(t)'
    BY <1>2, <1>3, <1>10, <2>1 DEF LooksOK, Same
  <2> QED BY <1>5, <1>7, <2>2 DEF ThreadOK
<1>11. CASE Call(t) = "getattr" /\ job[t].open # 0
  <2>1. Answer(t) = {job[t].path} \cap DOMAIN remote
    BY <1>11 DEF Answer
  <2>2. Unsure(job[t].path) \/ job[t].path \in DOMAIN remote
    <3>1. CASE job[t].path = <<opens[job[t].open].name>> /\ PathOf(job[t].open) = job[t].path
      <4>1. job[t].open \in DOMAIN opens /\ ~opens[job[t].open].cleaned
        BY <1>1, <1>4, <1>11 DEF JobOK
      <4>2. FileOK(job[t].open)
        BY <1>1, <4>1 DEF FilesOK
      <4>3. \A u \in Threads : ~(Moving(u) /\ job[u].name = opens[job[t].open].name)
        BY <1>1, <1>4, <1>11, NotMoving
      <4> QED BY <3>1, <4>1, <4>2, <4>3 DEF FileOK
    <3> QED BY <1>1, <1>11, <3>1 DEF AskedOK
  <2>3. LooksOK(t)'
    BY <1>2, <1>3, <1>11, <2>1, <2>2 DEF LooksOK, Same, Unsure
  <2> QED BY <1>5, <1>7, <2>3 DEF ThreadOK
<1> QED BY <1>8, <1>9, <1>10, <1>11 DEF Looks

\* A request is sent, for what the tables say the call is about.
LEMMA RequestOK ==
    ASSUME NamesInv, NEW t \in Threads, job[t].phase = "call", Call(t) # "open",
           job[t].cb # "none", UNCHANGED <<opens, unsure>>, NodesGrow,
           Works(t, "ask", Target(t), job[t].seen)
    PROVE  ThreadOK(t)'
<1>1. /\ Shape /\ Jobs /\ JobOK(t) /\ FilesOK
  BY DEF NamesInv, DeletesInv, Shape
<1>2. /\ Same(t) /\ job'[t].todo = job[t].todo /\ job'[t].phase = "ask"
      /\ job'[t].path = Target(t)
  BY DEF Works
<1>3. Call(t)' = Call(t)
  BY <1>2 DEF Call
<1>4. LooksOK(t)' /\ NamingOK(t)' /\ OpeningOK(t)'
  BY <1>2, <1>3 DEF LooksOK, NamingOK, OpeningOK, Answered
<1>5. AskedOK(t)'
  <2>1. SUFFICES ASSUME job[t].open # 0, Call(t) \in {"getattr", "setattr"}
                 PROVE  \/ Unsure(job[t].path)'
                        \/ /\ job'[t].path = <<opens[job[t].open].name>>
                           /\ PathOf(job[t].open)' = job'[t].path
    BY <1>2, <1>3 DEF AskedOK, Same
  <2>2. job'[t].path = PathOf(job[t].open)
    BY <1>2, <2>1 DEF Target, PathOf
  <2>3. job[t].cb # "cleanup"
    BY <1>1, <2>1, CallFacts
  <2>4. job[t].open \in DOMAIN opens /\ ~opens[job[t].open].cleaned
    BY <1>1, <2>1, <2>3 DEF JobOK
  <2>5. FileOK(job[t].open) /\ opens[job[t].open].node \in DOMAIN nodeToPath
    BY <1>1, <2>4 DEF FilesOK, Shape, OpensOK
  <2>6. PathOf(job[t].open)' = PathOf(job[t].open)
    BY <1>2, <2>5 DEF PathOf, Same, NodesGrow
  <2>7. Unsure(PathOf(job[t].open)) \/ PathOf(job[t].open) = <<opens[job[t].open].name>>
    BY <2>4, <2>5 DEF FileOK
  <2> QED BY <2>2, <2>6, <2>7 DEF Unsure
<1> QED BY <1>4, <1>5 DEF ThreadOK

LEMMA QuietThreads ==
    ASSUME NamesInv, NEW t \in Threads, QuietStep(t),
           \A p \in Paths : Found(t, p) => Unsure(p) \/ p \in DOMAIN remote
    PROVE  FilesOK' /\ ThreadsOK'
<1>1. /\ Shape /\ FilesOK /\ ThreadsOK /\ \A u \in Threads : JobOK(u)
      /\ UNCHANGED <<remote, opens, unsure>> /\ NodesGrow /\ job[t].cb # "none" /\ Moves(t)
      /\ KeepsMoving /\ NodesOK'
  BY QuietKeeps DEF NamesInv, DeletesInv, Shape, QuietStep, Quiet
<1>2. FilesOK'
  BY <1>1, FileStays DEF FilesOK
<1>3. \A o \in DOMAIN opens : KeepsFile(o)
  BY <1>1, PathStays DEF KeepsFile
<1>4. ASSUME NEW u \in Threads \ {t}
      PROVE  ThreadOK(u)'
  <2>1. job'[u] = job[u] /\ ThreadOK(u) /\ JobOK(u)
    BY <1>1 DEF Moves, Ends, Goes, Found, Works, Others, ThreadsOK
  <2>2. job[u].open # 0 => KeepsFile(job[u].open)
    BY <1>3, <2>1 DEF JobOK
  <2>3. AskedOK(u)' /\ LooksOK(u)' /\ OpeningOK(u)'
    BY <1>1, <2>1, <2>2, LooksStay DEF ThreadOK
  <2>4. NamingOK(u)'
    <3>1. CASE Answered(u)
      BY <1>1, <1>3, <2>1, <3>1, NamingStays DEF Same, KeepsFile, ThreadOK
    <3>2. CASE ~Answered(u)
      BY <2>1, <3>2 DEF NamingOK, Answered
    <3> QED BY <3>1, <3>2
  <2> QED BY <2>3, <2>4 DEF ThreadOK
<1>5. ThreadOK(t)'
  <2>1. CASE Ends(t)
    <3>1. job'[t].phase = "call" /\ job'[t].cb = "none"
      BY <2>1 DEF Ends, Idle
    <3> QED BY <3>1, NothingSent
  <2>2. CASE Goes(t)
    BY <2>2, NothingSent DEF Goes
  <2>3. ASSUME NEW p \in DOMAIN pathToNode' \ {Root}, Found(t, p)
        PROVE  ThreadOK(t)'
    <3>1. p \in Paths
      BY <1>1 DEF NodesOK
    <3>2. Unsure(p) \/ p \in DOMAIN remote
      BY <2>3, <3>1
    <3>3. job'[t].phase = "call" /\ job'[t].path = p
      BY <2>3 DEF Found
    <3>4. Unsure(p)' <=> Unsure(p)
      BY <1>1 DEF Unsure
    <3>5. OpeningOK(t)'
      BY <1>1, <3>2, <3>3, <3>4 DEF OpeningOK, Unsure
    <3> QED BY <3>3, <3>5 DEF ThreadOK, AskedOK, LooksOK, NamingOK, Answered
  <2>4. CASE /\ job[t].phase = "call" /\ Call(t) # "open"
             /\ Works(t, "ask", Target(t), job[t].seen)
    BY <1>1, <2>4, RequestOK
  <2>5. CASE /\ job[t].phase = "ask" /\ Call(t) \in Looks
             /\ Works(t, "store", job[t].path, Answer(t))
    BY <1>1, <2>5, AnswerOK
  <2>6. CASE job[t].phase = "store" /\ Works(t, "state", job[t].path, job[t].seen)
    <3>1. /\ Same(t) /\ job'[t].todo = job[t].todo /\ job'[t].phase = "state"
          /\ job'[t].path = job[t].path /\ job'[t].seen = job[t].seen
      BY <2>6 DEF Works
    <3>2. Call(t)' = Call(t) /\ ThreadOK(t) /\ JobOK(t) /\ Answered(t)
      BY <1>1, <2>6, <3>1 DEF Call, ThreadsOK, Answered
    <3>3. NamingOK(t)'
      BY <1>1, <1>3, <3>1, <3>2, NamingStays DEF KeepsFile, ThreadOK
    <3>4. LooksOK(t)' /\ OpeningOK(t)'
      BY <1>1, <3>1, <3>2 DEF ThreadOK, LooksOK, OpeningOK, Unsure, Same
    <3>5. job[t].open # 0 => PathOf(job[t].open)' = PathOf(job[t].open)
      BY <1>1, <1>3, <3>1, <3>2 DEF JobOK, KeepsFile, PathOf, Same
    <3>6. AskedOK(t)'
      BY <1>1, <2>6, <3>1, <3>2, <3>5 DEF ThreadOK, AskedOK, Unsure, Same
    <3> QED BY <3>3, <3>4, <3>6 DEF ThreadOK
  <2> QED BY <1>1, <2>1, <2>2, <2>3, <2>4, <2>5, <2>6 DEF Moves
<1> QED BY <1>2, <1>4, <1>5 DEF ThreadsOK

LEMMA NotFound ==
    ASSUME NEW t \in Threads,
           Ends(t) \/ Goes(t) \/ (Call(t) # "open" /\ \E a, b, c : Works(t, a, b, c))
    PROVE  \A p : ~Found(t, p)
<1>1. SUFFICES ASSUME NEW p, Found(t, p) PROVE FALSE
  OBVIOUS
<1>2. job'[t].todo = <<"open">> /\ Call(t)' = "open" /\ job'[t].todo # <<>>
  BY <1>1, OneCall DEF Found, Call
<1>3. Idle.todo = <<>>
  BY DEF Idle
<1>4. ~Ends(t) /\ ~Goes(t)
  BY <1>2, <1>3 DEF Ends, Goes
<1> QED BY <1>2, <1>4 DEF Works, Call

\* No name is being changed while a name is looked up or listed.
LEMMA NothingChanging ==
    ASSUME Shape, NEW t \in Threads, job[t].cb \in {"open", "list"}, NEW n
    PROVE  ~Storing(n) /\ ~Changing(n) /\ ~Naming(t)
BY BesideShared DEF Storing, Changing, Naming

LEMMA QuietNames ==
    ASSUME NamesInv, NEW t \in Threads, QuietStep(t), ~(Naming(t) /\ Answered(t)), UNCHANGED idx,
           \A n \in Names : <<RootNode, n>> \in DOMAIN negative' =>
              \/ <<RootNode, n>> \in DOMAIN negative
              \/ n \in unsure
              \/ <<n>> \notin DOMAIN remote
    PROVE  NamesOK'
<1>1. /\ NamesOK /\ UNCHANGED <<remote, unsure>> /\ Moves(t)
  BY DEF NamesInv, QuietStep, Quiet
<1>2. \A u \in Threads \ {t} : job'[u] = job[u]
  BY <1>1 DEF Moves, Ends, Goes, Found, Works, Others
<1>3. \A u \in Threads : Naming(u) /\ Answered(u) => u # t
  OBVIOUS
<1>4. ASSUME NEW n \in Names, Storing(n)
      PROVE  Storing(n)'
  <2>1. PICK u \in Threads : Naming(u) /\ job[u].phase = "store" /\ n \in Involved(u)
    BY <1>4 DEF Storing
  <2>2. u # t
    BY <2>1, <1>3 DEF Answered
  <2>3. Naming(u)' /\ job'[u].phase = "store" /\ n \in Involved(u)'
    BY <1>2, <2>1, <2>2 DEF Naming, Involved
  <2> QED BY <2>3 DEF Storing
<1>5. ASSUME NEW n \in Names, Changing(n)
      PROVE  Changing(n)'
  <2>1. PICK u \in Threads : Naming(u) /\ Answered(u) /\ n \in Involved(u)
    BY <1>5 DEF Changing
  <2>2. u # t
    BY <2>1, <1>3
  <2>3. Naming(u)' /\ Answered(u)' /\ n \in Involved(u)'
    BY <1>2, <2>1, <2>2 DEF Naming, Involved, Answered
  <2> QED BY <2>3 DEF Changing
<1> QED BY <1>1, <1>4, <1>5, NamesStay

LEMMA CallEndsNames ==
    ASSUME NamesInv, NEW t \in Threads,
           GetattrHit(t) \/ GetattrDone(t) \/ SetattrDone(t) \/ WriteDone(t)
    PROVE  FilesOK' /\ ThreadsOK' /\ NamesOK'
<1>1. Shape /\ QuietStep(t) /\ (Ends(t) \/ Goes(t)) /\ UNCHANGED <<idx, negative>>
  BY CallEndsQuiet DEF NamesInv, DeletesInv
<1>2. Call(t) \in {"getattr", "setattr", "write"} /\ job[t].cb # "none" /\ Jobs /\ JobOK(t)
  BY <1>1 DEF GetattrHit, GetattrDone, SetattrDone, WriteDone, Doing, QuietStep, Quiet, Shape
<1>3. ~Naming(t)
  BY <1>2, CallFacts DEF Naming
<1>4. FilesOK' /\ ThreadsOK'
  BY <1>1, NotFound, QuietThreads
<1>5. NamesOK'
  BY <1>1, <1>3, QuietNames
<1> QED BY <1>4, <1>5

\* Requests, answers and failures.
LEMMA RequestNames ==
    ASSUME NamesInv, NEW t \in Threads,
           Ask(t) \/ ServerAnswers(t) \/ ServerRefuses(t) \/ RequestFails(t)
    PROVE  FilesOK' /\ ThreadsOK' /\ NamesOK'
<1>1. Shape
  BY DEF NamesInv, DeletesInv
<1>2. QuietStep(t) /\ UNCHANGED <<idx, negative>>
  BY <1>1, AskQuiet, AnswersQuiet, FailsQuiet
<1>3. \A p : ~Found(t, p)
  <2>1. CASE Ask(t)
    BY <1>1, <2>1, AskQuiet, NotFound DEF Ask
  <2>2. CASE ServerAnswers(t)
    BY <1>1, <2>2, AnswersQuiet, NotFound DEF ServerAnswers, Looks
  <2>3. CASE ServerRefuses(t) \/ RequestFails(t)
    BY <1>1, <2>3, FailsQuiet, NotFound
  <2> QED BY <2>1, <2>2, <2>3
<1>4. ~Answered(t)
  BY DEF Ask, ServerAnswers, ServerRefuses, RequestFails, Answered
<1>5. FilesOK' /\ ThreadsOK'
  BY <1>2, <1>3, QuietThreads
<1>6. NamesOK'
  BY <1>2, <1>4, QuietNames
<1> QED BY <1>5, <1>6

LEMMA LookupNames ==
    ASSUME NamesInv, NEW t \in Threads, LookupHit(t) \/ LookupNegative(t) \/ LookupDone(t)
    PROVE  FilesOK' /\ ThreadsOK' /\ NamesOK'
<1>1. Shape /\ NamesOK /\ ThreadOK(t)
  BY DEF NamesInv, DeletesInv, ThreadsOK
<1>2. CASE LookupHit(t)
  <2>1. /\ QuietStep(t) /\ Found(t, <<job[t].name>>) /\ job[t].cb = "open" /\ job[t].name \in Names
        /\ UNCHANGED <<idx, negative>>
    BY <1>1, <1>2, LookupHitQuiet DEF LookupHit
  <2>2. \A n : ~Storing(n) /\ ~Naming(t)
    BY <1>1, <2>1, NothingChanging
  <2>3. <<job[t].name>> \in DOMAIN idx.attrs
    BY <1>2 DEF LookupHit, Cached, Target, Doing
  <2>4. Unsure(<<job[t].name>>) \/ <<job[t].name>> \in DOMAIN remote
    BY <1>1, <2>1, <2>2, <2>3 DEF NamesOK, NameOK, Unsure
  <2>5. \A p : Found(t, p) => p = <<job[t].name>>
    BY <2>1 DEF Found
  <2>6. FilesOK' /\ ThreadsOK'
    BY <2>1, <2>4, <2>5, QuietThreads
  <2> QED BY <2>1, <2>2, <2>6, QuietNames
<1>3. CASE LookupNegative(t)
  <2>1. QuietStep(t) /\ Goes(t) /\ job[t].cb = "open" /\ UNCHANGED <<idx, negative>>
    BY <1>1, <1>3, LookupNegativeQuiet DEF LookupNegative, cacheVars
  <2>2. ~Naming(t)
    BY <1>1, <2>1, NothingChanging
  <2>3. FilesOK' /\ ThreadsOK'
    BY <2>1, NotFound, QuietThreads
  <2> QED BY <2>1, <2>2, <2>3, QuietNames
<1>4. CASE LookupDone(t) /\ job[t].seen = {}
  <2>1. QuietStep(t) /\ Goes(t) /\ job[t].cb = "open"
    BY <1>1, <1>4, LookupNegativeQuiet
  <2>2. /\ UNCHANGED idx /\ negative' = Put(negative, <<RootNode, job[t].name>>, clock)
        /\ Call(t) = "lookup" /\ job[t].phase = "state"
    BY <1>4 DEF LookupDone, Doing
  <2>3. ~Naming(t) /\ PathOK(t)
    BY <1>1, <2>1, NothingChanging DEF Shape
  <2>4. job[t].name \in unsure \/ <<job[t].name>> \notin DOMAIN remote
    BY <1>1, <1>4, <2>2, <2>3 DEF ThreadOK, LooksOK, PathOK, Answered
  <2>5. \A n : <<RootNode, n>> = <<RootNode, job[t].name>> => n = job[t].name
    OBVIOUS
  <2>6. DOMAIN negative' = DOMAIN negative \cup {<<RootNode, job[t].name>>}
    BY <2>2 DEF Put
  <2>7. \A n \in Names : <<RootNode, n>> \in DOMAIN negative' =>
            <<RootNode, n>> \in DOMAIN negative \/ n \in unsure \/ <<n>> \notin DOMAIN remote
    BY <2>4, <2>5, <2>6
  <2>8. FilesOK' /\ ThreadsOK'
    BY <2>1, NotFound, QuietThreads
  <2> QED BY <2>1, <2>2, <2>3, <2>7, <2>8, QuietNames
<1>5. CASE LookupDone(t) /\ job[t].seen # {}
  <2>1. /\ QuietStep(t) /\ Found(t, job[t].path) /\ job[t].cb = "open"
        /\ job[t].path = <<job[t].name>>
    BY <1>1, <1>5, LookupFoundQuiet
  <2>2. /\ UNCHANGED idx /\ negative' = Drop(negative, {<<RootNode, job[t].name>>})
        /\ Call(t) = "lookup" /\ job[t].phase = "state"
    BY <1>5 DEF LookupDone, Doing, ClearNegative
  <2>3. ~Naming(t)
    BY <1>1, <2>1, NothingChanging
  <2>4. Unsure(job[t].path) \/ job[t].path \in DOMAIN remote
    BY <1>1, <1>5, <2>1, <2>2 DEF ThreadOK, LooksOK, Answered, Unsure
  <2>5. DOMAIN negative' \subseteq DOMAIN negative
    BY <2>2 DEF Drop
  <2>6. \A p : Found(t, p) => p = job[t].path
    BY <2>1 DEF Found
  <2>7. FilesOK' /\ ThreadsOK'
    BY <2>1, <2>4, <2>6, QuietThreads
  <2> QED BY <2>1, <2>2, <2>3, <2>5, <2>7, QuietNames
<1> QED BY <1>2, <1>3, <1>4, <1>5

LEMMA ReaddirNames ==
    ASSUME NamesInv, NEW t \in Threads, ReaddirHit(t) \/ ReaddirDone(t)
    PROVE  FilesOK' /\ ThreadsOK' /\ NamesOK'
<1>1. Shape /\ NamesOK /\ ThreadOK(t) /\ Jobs /\ JobOK(t) /\ PathOK(t) /\ IdxOK(idx)
  BY DEF NamesInv, DeletesInv, ThreadsOK, Shape, Tables
<1>2. /\ QuietStep(t) /\ UNCHANGED <<idx, negative>> /\ Call(t) \in {"readdir", "scan"}
      /\ \/ Ends(t)
         \/ Goes(t)
         \/ \E p \in IF ReaddirHit(t) THEN ListedChildren(Root) ELSE job[t].seen :
               Found(t, p) /\ p \in Children
  BY <1>1, ReaddirQuiet
<1>3. job[t].cb \in {"open", "list"}
  BY <1>1, <1>2, CallFacts DEF QuietStep, Quiet
<1>4. ~Naming(t) /\ \A n : ~Storing(n)
  BY <1>1, <1>3, NothingChanging
<1>5. ASSUME NEW p \in IF ReaddirHit(t) THEN ListedChildren(Root) ELSE job[t].seen, p \in Children
      PROVE  Unsure(p) \/ p \in DOMAIN remote
  <2>1. PICK n \in Names : p = <<n>>
    BY <1>5 DEF Children
  <2>2. CASE ReaddirHit(t)
    <3>1. Root \in DOMAIN idx.listing /\ <<n>> \in ListedChildren(Root)
      BY <1>5, <2>1, <2>2 DEF ReaddirHit
    <3>2. <<n>> \in DOMAIN idx.attrs
      BY <3>1 DEF ListedChildren
    <3> QED BY <1>1, <1>4, <2>1, <3>2 DEF NamesOK, NameOK, Unsure
  <2>3. CASE ~ReaddirHit(t)
    <3>1. ReaddirDone(t) /\ <<n>> \in job[t].seen
      BY <1>5, <2>1, <2>3
    <3>2. Answered(t)
      BY <3>1 DEF ReaddirDone, Doing, Answered
    <3> QED BY <1>1, <1>2, <2>1, <3>1, <3>2 DEF ThreadOK, LooksOK, Unsure
  <2> QED BY <2>2, <2>3
<1>6. \A p : Found(t, p) => Unsure(p) \/ p \in DOMAIN remote
  <2>1. CASE Ends(t) \/ Goes(t)
    BY <2>1, NotFound
  <2>2. ASSUME NEW q \in IF ReaddirHit(t) THEN ListedChildren(Root) ELSE job[t].seen,
               Found(t, q), q \in Children
        PROVE  \A p : Found(t, p) => Unsure(p) \/ p \in DOMAIN remote
    <3>1. \A p : Found(t, p) => p = q
      BY <2>2 DEF Found
    <3> QED BY <1>5, <2>2, <3>1
  <2> QED BY <1>2, <2>1, <2>2
<1>7. FilesOK' /\ ThreadsOK'
  BY <1>2, <1>6, QuietThreads
<1>8. NamesOK'
  BY <1>2, <1>4, QuietNames
<1> QED BY <1>7, <1>8

\* A thread that ends: what it was changing is in the tables.
LEMMA EndNames ==
    ASSUME NamesOK, NEW t \in Threads, Ends(t), job[t].phase # "store",
           DOMAIN remote' = DOMAIN remote, unsure \subseteq unsure', UNCHANGED idx,
           \A n \in Names : <<RootNode, n>> \in DOMAIN negative' =>
              \/ <<RootNode, n>> \in DOMAIN negative /\ (Naming(t) => n \notin Involved(t))
              \/ n \in unsure
              \/ <<n>> \notin DOMAIN remote
    PROVE  NamesOK'
<1>1. \A u \in Threads \ {t} : job'[u] = job[u]
  BY DEF Ends, Others
<1>2. ASSUME NEW n \in Names, Storing(n)
      PROVE  Storing(n)'
  <2>1. PICK u \in Threads : Naming(u) /\ job[u].phase = "store" /\ n \in Involved(u)
    BY <1>2 DEF Storing
  <2>2. Naming(u)' /\ job'[u].phase = "store" /\ n \in Involved(u)'
    BY <1>1, <2>1 DEF Naming, Involved
  <2> QED BY <2>2 DEF Storing
<1>3. ASSUME NEW n \in Names, Naming(t) => n \notin Involved(t), Changing(n)
      PROVE  Changing(n)'
  <2>1. PICK u \in Threads : Naming(u) /\ Answered(u) /\ n \in Involved(u)
    BY <1>3 DEF Changing
  <2>2. Naming(u)' /\ Answered(u)' /\ n \in Involved(u)'
    BY <1>1, <1>3, <2>1 DEF Naming, Involved, Answered
  <2> QED BY <2>2 DEF Changing
<1> QED BY <1>2, <1>3, NamesStay

LEMMA UnlinkDoneNames ==
    ASSUME NamesInv, NEW t \in Threads, UnlinkDone(t)
    PROVE  FilesOK' /\ ThreadsOK' /\ NamesOK'
<1>1. Shape /\ NamesOK /\ ThreadOK(t)
  BY DEF NamesInv, DeletesInv, ThreadsOK
<1>2. /\ QuietStep(t) /\ UNCHANGED idx /\ Ends(t) /\ job[t].cb = "cleanup"
      /\ job[t].phase = "state" /\ negative' = Put(negative, <<RootNode, job[t].name>>, clock)
  BY <1>1, UnlinkDoneQuiet
<1>3. FilesOK' /\ ThreadsOK'
  BY <1>2, NotFound, QuietThreads
<1>4. <<job[t].name>> \notin DOMAIN remote
  BY <1>1, <1>2 DEF ThreadOK, NamingOK, Answered
<1>5. DOMAIN negative' = DOMAIN negative \cup {<<RootNode, job[t].name>>}
  BY <1>2 DEF Put
<1>6. \A n : <<RootNode, n>> = <<RootNode, job[t].name>> => n = job[t].name
  OBVIOUS
<1>7. Involved(t) = {job[t].name}
  BY <1>2 DEF Involved
<1>8. UNCHANGED <<remote, unsure>>
  BY <1>2 DEF QuietStep, Quiet
<1>9. NamesOK'
  BY <1>1, <1>2, <1>4, <1>5, <1>6, <1>7, <1>8, EndNames
<1> QED BY <1>3, <1>9

LEMMA StoreAttrsDomains ==
    ASSUME NEW i, NEW new
    PROVE  /\ DOMAIN StoreAttrs(i, new).attrs = DOMAIN i.attrs \cup DOMAIN new
           /\ StoreAttrs(i, new).listing = i.listing
BY DEF StoreAttrs, Index

LEMMA RemoveEntryDomains ==
    ASSUME NEW i, NEW p
    PROVE  /\ DOMAIN RemoveEntry(i, p).attrs = DOMAIN i.attrs \ {p}
           /\ DOMAIN RemoveEntry(i, p).listing = DOMAIN i.listing \ {p}
           /\ \A q \in DOMAIN i.listing \ {p} : RemoveEntry(i, p).listing[q] = i.listing[q]
BY DEF RemoveEntry, Index, Drop

LEMMA RenameEntryDomains ==
    ASSUME NEW i, NEW from, NEW to
    PROVE  DOMAIN RenameEntry(i, from, to).attrs \subseteq (DOMAIN i.attrs \ {from}) \cup {to}
<1> DEFINE m == MoveEntry(i, from, to)
           gone == Descendants(i, from, to)
<1>1. m.attrs = Move(i.attrs, from, to)
  BY DEF MoveEntry, Index
<1>2. RenameEntry(i, from, to)
        = Index(m.next, Drop(m.attrs, gone), Drop(m.content, gone), Drop(m.listing, gone))
  BY DEF RenameEntry
<1> HIDE DEF m, gone
<1>3. DOMAIN m.attrs \subseteq (DOMAIN i.attrs \ {from}) \cup {to}
  <2>1. CASE from \in DOMAIN i.attrs
    BY <1>1, <2>1 DEF Move, Put, Drop
  <2>2. CASE from \notin DOMAIN i.attrs
    BY <1>1, <2>2 DEF Move
  <2> QED BY <2>1, <2>2
<1>4. DOMAIN Drop(m.attrs, gone) \subseteq DOMAIN m.attrs
  BY DEF Drop
<1> QED BY <1>2, <1>3, <1>4, IndexFields

LEMMA DropListingDomains ==
    ASSUME NEW i
    PROVE  DropListing(i).attrs = i.attrs /\ Root \notin DOMAIN DropListing(i).listing
BY DEF DropListing, InvalidateChildren, Index, Drop

LEMMA RecordListingDomains ==
    ASSUME NEW i, NEW S \in SUBSET Children
    PROVE  /\ DOMAIN RecordListing(i, Root, Kids(S)).attrs = DOMAIN i.attrs \cup S
           /\ RecordListing(i, Root, Kids(S)).listing[Root] = DOMAIN Kids(S)
<1> DEFINE new == ByPath(Root, Kids(S))
           stored == StoreAttrs(i, new)
<1>1. DOMAIN new = S
  <2>1. \A n \in Names : Append(Root, n) = <<n>>
    BY DEF Root
  <2>2. DOMAIN new = {Append(Root, n) : n \in DOMAIN Kids(S)}
    BY DEF ByPath
  <2>3. /\ DOMAIN Kids(S) \subseteq Names
        /\ \A n \in Names : n \in DOMAIN Kids(S) <=> <<n>> \in S
    BY KidNames
  <2>4. \A n \in DOMAIN Kids(S) : Append(Root, n) = <<n>> /\ <<n>> \in S
    BY <2>1, <2>3
  <2>5. \A q \in S : \E n \in DOMAIN Kids(S) : q = Append(Root, n)
    BY <2>1, <2>3 DEF Children
  <2> HIDE DEF new
  <2>6. DOMAIN new \subseteq S
    BY <2>2, <2>4
  <2>7. S \subseteq DOMAIN new
    BY <2>2, <2>5
  <2> QED BY <2>6, <2>7
<1>2. DOMAIN stored.attrs = DOMAIN i.attrs \cup S
  BY <1>1, StoreAttrsDomains
<1> HIDE DEF stored, new
<1>3. RecordListing(i, Root, Kids(S))
        = Index(stored.next, stored.attrs, stored.content, Put(i.listing, Root, DOMAIN Kids(S)))
  BY DEF RecordListing, stored, new
<1>4. Put(i.listing, Root, DOMAIN Kids(S))[Root] = DOMAIN Kids(S)
  BY DEF Put
<1> QED BY <1>2, <1>3, <1>4, IndexFields

\* A name through an edit of the store that is none of a change of names.
LEMMA EditedName ==
    ASSUME NEW n, NameOK(n), Storing(n) => Storing(n)', Changing(n) => Changing(n)',
           UNCHANGED <<remote, negative>>,
           <<n>> \in DOMAIN idx'.attrs => <<n>> \in DOMAIN idx.attrs \/ <<n>> \in DOMAIN remote,
           Root \in DOMAIN idx'.listing =>
              \/ /\ Root \in DOMAIN idx.listing /\ idx'.listing[Root] = idx.listing[Root]
                 /\ <<n>> \in DOMAIN idx.attrs =>
                       <<n>> \in DOMAIN idx'.attrs \/ <<n>> \notin DOMAIN remote
              \/ Listed(n)' <=> <<n>> \in DOMAIN remote
    PROVE  NameOK(n)'
BY DEF NameOK, Listed

LEMMA EditStoreNames ==
    ASSUME NamesInv, NEW t \in Threads, EditStore(t)
    PROVE  FilesOK' /\ ThreadsOK' /\ NamesOK'
<1> DEFINE p == job[t].path
           seen == job[t].seen
<1>1. Shape /\ NamesOK /\ ThreadOK(t) /\ Jobs /\ JobOK(t) /\ PathOK(t)
  BY DEF NamesInv, DeletesInv, ThreadsOK, Shape
<1>2. /\ QuietStep(t) /\ UNCHANGED negative /\ job[t].phase = "store"
      /\ Works(t, "state", p, seen)
  BY <1>1, EditStoreQuiet
<1>3. /\ UNCHANGED <<remote, unsure>> /\ job[t].cb # "none" /\ Answered(t) /\ Call(t) # "open"
  BY <1>1, <1>2 DEF QuietStep, Quiet, Answered, PathOK
<1>4. FilesOK' /\ ThreadsOK'
  BY <1>2, <1>3, NotFound, QuietThreads
<1>5. /\ \A u \in Threads \ {t} : job'[u] = job[u]
      /\ Same(t) /\ job'[t].phase = "state"
  BY <1>2 DEF Works, Others
<1>6. \A n : Changing(n) => Changing(n)'
  BY <1>5 DEF Changing, Naming, Involved, Answered, Same
<1> HIDE DEF p, seen
<1>7. DOMAIN Attrs(seen) = seen /\ DOMAIN Attrs({p}) = {p}
  BY DEF Attrs
<1>8. CASE ~Naming(t)
  <2>1. \A n : Storing(n) => Storing(n)'
    BY <1>5, <1>8 DEF Storing, Naming, Involved
  <2>2. SUFFICES ASSUME NEW n \in Names, n \notin unsure
                 PROVE  /\ <<n>> \in DOMAIN idx'.attrs =>
                              <<n>> \in DOMAIN idx.attrs \/ <<n>> \in DOMAIN remote
                        /\ Root \in DOMAIN idx'.listing =>
                              \/ /\ Root \in DOMAIN idx.listing
                                 /\ idx'.listing[Root] = idx.listing[Root]
                                 /\ <<n>> \in DOMAIN idx.attrs =>
                                       <<n>> \in DOMAIN idx'.attrs \/ <<n>> \notin DOMAIN remote
                              \/ Listed(n)' <=> <<n>> \in DOMAIN remote
    BY <1>1, <1>2, <1>3, <1>4, <1>6, <2>1, EditedName DEF NamesOK
  <2>3. ~Unsure(<<n>>)
    BY <2>2 DEF Unsure
  <2>4. CASE Call(t) \in {"getattr", "lookup"} /\ seen = {}
    <3>1. idx' = RemoveEntry(idx, p)
      BY <2>4, EditFacts DEF p, seen
    <3>2. /\ DOMAIN idx'.attrs = DOMAIN idx.attrs \ {p}
          /\ DOMAIN idx'.listing = DOMAIN idx.listing \ {p}
          /\ \A q \in DOMAIN idx.listing \ {p} : idx'.listing[q] = idx.listing[q]
      BY <3>1, RemoveEntryDomains
    <3>3. p = <<n>> => <<n>> \notin DOMAIN remote
      <4>1. CASE Call(t) = "lookup"
        <5>1. p = <<job[t].name>>
          BY <1>1, <1>2, <4>1 DEF PathOK, p
        <5>2. job[t].name \in unsure \/ (seen = {} <=> p \notin DOMAIN remote)
          BY <1>1, <1>3, <4>1 DEF ThreadOK, LooksOK, p, seen
        <5> QED BY <2>2, <2>4, <5>1, <5>2
      <4>2. CASE Call(t) = "getattr"
        BY <1>1, <1>3, <2>3, <2>4, <4>2 DEF ThreadOK, LooksOK, p, seen
      <4> QED BY <2>4, <4>1, <4>2
    <3> QED BY <3>2, <3>3
  <2>5. CASE Call(t) \in {"getattr", "lookup"} /\ seen # {}
    <3>1. idx' = StoreAttrs(idx, Attrs(seen))
      BY <2>5, EditFacts DEF seen
    <3>2. DOMAIN idx'.attrs = DOMAIN idx.attrs \cup seen /\ idx'.listing = idx.listing
      BY <1>7, <3>1, StoreAttrsDomains
    <3>3. seen \subseteq {p}
      BY <1>1, <1>2, <2>5 DEF PathOK, p, seen
    <3>4. <<n>> \in seen => <<n>> \in DOMAIN remote
      <4>1. CASE Call(t) = "lookup"
        <5>1. p = <<job[t].name>>
          BY <1>1, <1>2, <4>1 DEF PathOK, p
        <5>2. job[t].name \in unsure \/ (seen = {} <=> p \notin DOMAIN remote)
          BY <1>1, <1>3, <4>1 DEF ThreadOK, LooksOK, p, seen
        <5> QED BY <2>2, <2>5, <3>3, <5>1, <5>2
      <4>2. CASE Call(t) = "getattr" /\ job[t].open = 0
        <5>1. seen = {Root} /\ <<n>> # Root
          BY <1>1, <1>3, <4>2, NamePath DEF ThreadOK, LooksOK, seen
        <5> QED BY <5>1
      <4>3. CASE Call(t) = "getattr" /\ job[t].open # 0
        BY <1>1, <1>3, <2>3, <3>3, <4>3 DEF ThreadOK, LooksOK, p, seen
      <4> QED BY <2>5, <4>1, <4>2, <4>3
    <3> QED BY <3>2, <3>4
  <2>6. CASE Call(t) \in {"readdir", "scan"}
    <3>1. idx' = RecordListing(idx, Root, Kids(seen))
      BY <2>6, EditFacts DEF seen
    <3>2. seen \in SUBSET Children
      BY <1>1, <1>2, <2>6 DEF PathOK, Children, seen
    <3>3. /\ DOMAIN idx'.attrs = DOMAIN idx.attrs \cup seen
          /\ idx'.listing[Root] = DOMAIN Kids(seen)
      BY <3>1, <3>2, RecordListingDomains
    <3>4. <<n>> \in seen <=> <<n>> \in DOMAIN remote
      BY <1>1, <1>3, <2>2, <2>6 DEF ThreadOK, LooksOK, seen
    <3>5. Listed(n)' <=> <<n>> \in seen
      BY <3>2, <3>3, KidNames DEF Listed
    <3> QED BY <3>3, <3>4, <3>5
  <2>7. CASE Call(t) = "setattr"
    <3>1. idx' = StoreAttrs(idx, Attrs({p}))
      BY <2>7, EditFacts DEF p
    <3>2. DOMAIN idx'.attrs = DOMAIN idx.attrs \cup {p} /\ idx'.listing = idx.listing
      BY <1>7, <3>1, StoreAttrsDomains
    <3>3. p = <<n>> => <<n>> \in DOMAIN remote
      BY <1>1, <1>3, <2>3, <2>7 DEF ThreadOK, LooksOK, p
    <3> QED BY <3>2, <3>3
  <2>8. CASE Call(t) = "write"
    <3>1. idx' = InvalidateContent(idx, p)
      BY <2>8, EditFacts DEF p
    <3>2. idx'.attrs = idx.attrs /\ idx'.listing = idx.listing
      BY <3>1, IndexFields DEF InvalidateContent
    <3> QED BY <3>2
  <2>9. Call(t) \notin {"create", "unlink", "rename"}
    BY <1>1, <1>3, <1>8, CallFacts DEF Naming
  <2> QED BY <1>1, <1>3, <2>4, <2>5, <2>6, <2>7, <2>8, <2>9, CallFacts
<1>9. CASE Naming(t)
  <2>1. p = <<job[t].name>> /\ Call(t) \in {"create", "unlink", "rename"}
    BY <1>1, <1>2, <1>3, <1>9, CallFacts DEF Naming, PathOK, p
  <2>2. SUFFICES ASSUME NEW n \in Names, n \notin unsure
                 PROVE  /\ <<n>> \in DOMAIN idx'.attrs => <<n>> \in DOMAIN remote
                        /\ Root \notin DOMAIN idx'.listing
    <3>1. \A n \in Names \ unsure : NameOK(n)
      BY <1>1 DEF NamesOK
    <3>2. NamesOK'
      BY <1>2, <1>3, <1>6, <2>2, <3>1 DEF NamesOK, NameOK
    <3> QED BY <1>4, <3>2
  <2>3. n \notin Involved(t) => ~Storing(n)
    BY <1>1, <1>9, OneExclusive DEF Naming, Storing
  <2>4. <<n>> \in DOMAIN idx.attrs /\ n \notin Involved(t) => <<n>> \in DOMAIN remote
    BY <1>1, <2>2, <2>3 DEF NamesOK, NameOK
  <2>5. n # job[t].name => <<n>> # p
    BY <2>1
  <2>6. CASE Call(t) = "create"
    <3>1. /\ idx' = DropListing(StoreAttrs(idx, Attrs({p}))) /\ job[t].cb = "create"
      BY <1>1, <1>3, <2>6, EditFacts, CallFacts DEF p
    <3>2. DOMAIN idx'.attrs = DOMAIN idx.attrs \cup {p} /\ Root \notin DOMAIN idx'.listing
      BY <1>7, <3>1, StoreAttrsDomains, DropListingDomains
    <3>3. Involved(t) = {job[t].name} /\ p \in DOMAIN remote
      BY <1>1, <1>3, <2>1, <3>1 DEF Involved, ThreadOK, NamingOK
    <3> QED BY <2>1, <2>4, <3>2, <3>3
  <2>7. CASE Call(t) = "unlink"
    <3>1. /\ idx' = DropListing(RemoveEntry(idx, p)) /\ job[t].cb = "cleanup"
      BY <1>1, <1>3, <2>7, EditFacts, CallFacts DEF p
    <3>2. DOMAIN idx'.attrs = DOMAIN idx.attrs \ {p} /\ Root \notin DOMAIN idx'.listing
      BY <3>1, RemoveEntryDomains, DropListingDomains
    <3>3. Involved(t) = {job[t].name}
      BY <3>1 DEF Involved
    <3> QED BY <2>1, <2>4, <3>2, <3>3
  <2>8. CASE Call(t) = "rename"
    <3>1. /\ idx' = DropListing(RenameEntry(idx, p, <<job[t].new>>)) /\ job[t].cb = "rename"
      BY <1>1, <1>3, <2>8, EditFacts, CallFacts DEF p
    <3>2. /\ DOMAIN idx'.attrs \subseteq (DOMAIN idx.attrs \ {p}) \cup {<<job[t].new>>}
          /\ Root \notin DOMAIN idx'.listing
      BY <3>1, RenameEntryDomains, DropListingDomains
    <3>3. Involved(t) = {job[t].name, job[t].new} /\ <<job[t].new>> \in DOMAIN remote
      BY <1>1, <1>3, <3>1 DEF Involved, ThreadOK, NamingOK
    <3> QED BY <2>1, <2>4, <3>2, <3>3
  <2> QED BY <2>1, <2>6, <2>7, <2>8
<1> QED BY <1>8, <1>9

-----------------------------------------------------------------------------
(* The names through the other steps.                                      *)

\* Threads that do nothing, while the files keep their names and nodes.
LEMMA ThreadStays ==
    ASSUME NEW u \in Threads, job'[u] = job[u], ThreadOK(u), JobOK(u),
           DOMAIN remote' = DOMAIN remote, unsure \subseteq unsure',
           job[u].open # 0 => KeepsFile(job[u].open),
           job[u].cb = "rename" =>
              \A o \in DOMAIN opens' : /\ o \in DOMAIN opens /\ PathOf(o)' = PathOf(o)
                                       /\ opens[o].cleaned => opens'[o].cleaned
    PROVE  ThreadOK(u)'
<1>1. AskedOK(u)' /\ LooksOK(u)' /\ OpeningOK(u)'
  BY LooksStay DEF ThreadOK
<1>2. CASE Answered(u)
  BY <1>1, <1>2, NamingStays DEF ThreadOK, Same
<1>3. CASE ~Answered(u)
  BY <1>1, <1>3 DEF ThreadOK, NamingOK, Answered
<1> QED BY <1>2, <1>3

LEMMA SameJobs ==
    ASSUME UNCHANGED job
    PROVE  /\ KeepsMoving
           /\ \A n : (Storing(n)' <=> Storing(n)) /\ (Changing(n)' <=> Changing(n))
BY DEF KeepsMoving, Storing, Changing, Moving, Naming, Involved, Answered

LEMMA StillNames ==
    ASSUME NamesInv, Still
    PROVE  FilesOK' /\ ThreadsOK' /\ NamesOK'
<1>1. /\ Shape /\ FilesOK /\ ThreadsOK /\ NamesOK /\ \A u \in Threads : JobOK(u)
      /\ UNCHANGED <<job, remote, idx, nodeVars, negative, unsure>> /\ OpensStay /\ NodesOK
  BY DEF NamesInv, DeletesInv, Shape, Tables, Still
<1>2. NodesGrow /\ KeepsMoving
  BY <1>1, NodesStay, SameJobs
<1>3. FilesOK'
  BY <1>1, <1>2, FileStays DEF FilesOK, OpensStay
<1>4. \A o \in DOMAIN opens : KeepsFile(o)
  BY <1>1, <1>2, PathStays DEF KeepsFile, OpensStay
<1>5. ASSUME NEW u \in Threads PROVE ThreadOK(u)'
  <2>1. job'[u] = job[u] /\ ThreadOK(u) /\ JobOK(u)
    BY <1>1 DEF ThreadsOK
  <2>2. job[u].open # 0 => KeepsFile(job[u].open)
    BY <1>4, <2>1 DEF JobOK
  <2> QED BY <1>1, <1>4, <2>1, <2>2, ThreadStays DEF KeepsFile, OpensStay
<1>6. NamesOK'
  BY <1>1, NamesStay, SameJobs
<1> QED BY <1>3, <1>5, <1>6 DEF ThreadsOK

LEMMA CloseNames ==
    ASSUME NamesInv, NEW o \in DOMAIN opens, Close(o)
    PROVE  FilesOK' /\ ThreadsOK' /\ NamesOK'
<1>1. /\ Shape /\ FilesOK /\ ThreadsOK /\ NamesOK /\ NodesOK
  BY DEF NamesInv, DeletesInv, Shape, Tables
<1>2. /\ Shape' /\ UNCHANGED <<job, remote, idx, nodeVars, negative, unsure>>
      /\ DOMAIN opens' = DOMAIN opens \ {o} /\ \A p \in DOMAIN opens' : opens'[p] = opens[p]
  BY <1>1, CloseShape
<1>3. NodesGrow /\ KeepsMoving
  BY <1>1, <1>2, NodesStay, SameJobs
<1>4. FilesOK'
  BY <1>1, <1>2, <1>3, FileStays DEF FilesOK
<1>5. \A p \in DOMAIN opens' : KeepsFile(p)
  BY <1>1, <1>2, <1>3, PathStays DEF KeepsFile
<1>6. ASSUME NEW u \in Threads PROVE ThreadOK(u)'
  <2>1. job'[u] = job[u] /\ ThreadOK(u) /\ JobOK(u) /\ JobOK(u)'
    BY <1>1, <1>2 DEF ThreadsOK, Shape
  <2>2. job[u].open # 0 => KeepsFile(job[u].open)
    BY <1>5, <2>1 DEF JobOK
  <2> QED BY <1>2, <1>5, <2>1, <2>2, ThreadStays DEF KeepsFile
<1>7. NamesOK'
  BY <1>1, <1>2, NamesStay, SameJobs
<1> QED BY <1>4, <1>6, <1>7 DEF ThreadsOK

LEMMA BeginNames ==
    ASSUME NamesInv, NEW t \in Threads, Callbacks(t)
    PROVE  FilesOK' /\ ThreadsOK' /\ NamesOK'
<1>1. /\ Shape /\ FilesOK /\ ThreadsOK /\ NamesOK /\ NodesOK /\ \A u \in Threads : JobOK(u)
  BY DEF NamesInv, DeletesInv, Shape, Tables
<1>2. Shape' /\ Begins(t) /\ OpensStay
  BY <1>1, CallbackBegins DEF OpensStay
<1>3. /\ \A u \in Threads \ {t} : job'[u] = job[u]
      /\ job[t] = Idle /\ job'[t].phase = "call" /\ Call(t)' # "open"
      /\ UNCHANGED <<remote, nodeVars, idx, negative, unsure>>
  BY <1>2 DEF Begins, Others
<1>4. Idle.cb = "none" /\ Idle.phase = "call"
  BY DEF Idle
<1>5. KeepsMoving
  BY <1>3, <1>4 DEF KeepsMoving, Moving, Answered
<1>6. NodesGrow
  BY <1>1, <1>3, NodesStay
<1>7. FilesOK'
  BY <1>1, <1>2, <1>3, <1>5, <1>6, FileStays DEF FilesOK, OpensStay
<1>8. \A o \in DOMAIN opens : KeepsFile(o)
  BY <1>1, <1>2, <1>6, PathStays DEF KeepsFile, OpensStay
<1>9. ASSUME NEW u \in Threads \ {t} PROVE ThreadOK(u)'
  <2>1. job'[u] = job[u] /\ ThreadOK(u) /\ JobOK(u)
    BY <1>1, <1>3 DEF ThreadsOK
  <2>2. job[u].open # 0 => KeepsFile(job[u].open)
    BY <1>8, <2>1 DEF JobOK
  <2> QED BY <1>2, <1>3, <1>8, <2>1, <2>2, ThreadStays DEF KeepsFile, OpensStay
<1>10. ThreadOK(t)'
  BY <1>3, NothingSent
<1>11. \A n : (Storing(n) => Storing(n)') /\ (Changing(n) => Changing(n)')
  BY <1>3, <1>4 DEF Storing, Changing, Naming, Involved, Answered
<1>12. NamesOK'
  BY <1>1, <1>3, <1>11, NamesStay
<1> QED BY <1>7, <1>9, <1>10, <1>12 DEF ThreadsOK

LEMMA AddsNames ==
    ASSUME NamesInv, NEW t \in Threads, NEW p, Adds(t, p), NodesOK', job[t].phase # "store",
           \A u \in Threads : job[u].cb \notin {"rename", "cleanup"},
           Unsure(p) \/ p \in DOMAIN remote
    PROVE  FilesOK' /\ ThreadsOK'
<1>1. /\ Shape /\ FilesOK /\ ThreadsOK /\ \A u \in Threads : JobOK(u)
  BY DEF NamesInv, DeletesInv, Shape
<1>2. /\ Ends(t) /\ NodesGrow /\ p \in Children /\ UNCHANGED remote /\ unsure \subseteq unsure'
  BY DEF Adds
<1>3. PICK o \in Nat : OpenedAs(o, p)
  BY DEF Adds
<1>4. Idle.cb = "none" /\ Idle.phase = "call"
  BY DEF Idle
<1>5. KeepsMoving
  BY <1>2, <1>4 DEF KeepsMoving, Moving, Ends, Others
<1>6. FileOK(o)'
  <2>1. /\ p \in DOMAIN pathToNode' /\ opens'[o].node = pathToNode'[p]
        /\ p = <<opens'[o].name>> \/ p[1] \in unsure'
    BY <1>3 DEF OpenedAs
  <2>2. PathOf(o)' = p
    BY <2>1 DEF NodesOK, PathOf
  <2>3. CASE p = <<opens'[o].name>>
    BY <1>2, <2>1, <2>2, <2>3, UnsureGrows DEF FileOK, Unsure
  <2>4. CASE p[1] \in unsure'
    <3>1. p = <<p[1]>>
      BY <1>2 DEF Children
    <3> QED BY <2>2, <2>4, <3>1 DEF FileOK, Unsure
  <2> QED BY <2>1, <2>3, <2>4
<1>7. ASSUME NEW q \in DOMAIN opens
      PROVE  FileOK(q)' /\ KeepsFile(q)
  <2>1. opens'[q] = opens[q] /\ FileOK(q)
    BY <1>1, <1>3 DEF OpenedAs, FilesOK
  <2>2. FileOK(q)'
    BY <1>1, <1>2, <1>5, <2>1, FileStays
  <2> QED BY <1>1, <1>2, <2>1, <2>2, PathStays DEF KeepsFile
<1>8. FilesOK'
  BY <1>3, <1>6, <1>7 DEF FilesOK, OpenedAs
<1>9. ASSUME NEW u \in Threads \ {t} PROVE ThreadOK(u)'
  <2>1. job'[u] = job[u] /\ ThreadOK(u) /\ JobOK(u)
    BY <1>1, <1>2 DEF ThreadsOK, Ends, Others
  <2>2. job[u].open # 0 => KeepsFile(job[u].open)
    BY <1>7, <2>1 DEF JobOK
  <2> QED BY <1>2, <2>1, <2>2, ThreadStays
<1>10. ThreadOK(t)'
  BY <1>2, <1>4, NothingSent DEF Ends
<1> QED BY <1>8, <1>9, <1>10 DEF ThreadsOK

LEMMA OpenDoneNames ==
    ASSUME NamesInv, NEW t \in Threads, OpenDone(t)
    PROVE  FilesOK' /\ ThreadsOK' /\ NamesOK'
<1>1. Shape /\ NamesOK /\ ThreadOK(t)
  BY DEF NamesInv, DeletesInv, ThreadsOK
<1>2. /\ Adds(t, job[t].path) /\ job[t].cb = "open" /\ NodesOK' /\ job[t].phase = "call"
      /\ Call(t) = "open" /\ UNCHANGED negative
  BY <1>1, OpenDoneAdds
<1>3. \A u \in Threads : job[u].cb \notin {"rename", "cleanup"}
  BY <1>1, <1>2, BesideShared
<1>4. Unsure(job[t].path) \/ job[t].path \in DOMAIN remote
  BY <1>1, <1>2 DEF ThreadOK, OpeningOK
<1>5. FilesOK' /\ ThreadsOK'
  BY <1>2, <1>3, <1>4, AddsNames
<1>6. ~Naming(t) /\ Ends(t) /\ UNCHANGED <<remote, idx>> /\ unsure \subseteq unsure'
  BY <1>2 DEF Naming, Adds
<1>7. NamesOK'
  BY <1>1, <1>2, <1>6, EndNames
<1> QED BY <1>5, <1>7

LEMMA CreateDoneNames ==
    ASSUME NamesInv, NEW t \in Threads, CreateDone(t)
    PROVE  FilesOK' /\ ThreadsOK' /\ NamesOK'
<1>1. Shape /\ NamesOK /\ ThreadOK(t)
  BY DEF NamesInv, DeletesInv, ThreadsOK
<1>2. /\ Adds(t, <<job[t].name>>) /\ job[t].cb = "create" /\ NodesOK' /\ job[t].phase = "state"
      /\ negative' = Drop(negative, {<<RootNode, job[t].name>>})
  BY <1>1, CreateDoneAdds
<1>3. \A u \in Threads : job[u].cb \notin {"rename", "cleanup"}
  BY <1>1, <1>2, OneExclusive
<1>4. <<job[t].name>> \in DOMAIN remote
  BY <1>1, <1>2 DEF ThreadOK, NamingOK, Answered
<1>5. FilesOK' /\ ThreadsOK'
  BY <1>2, <1>3, <1>4, AddsNames
<1>6. /\ Involved(t) = {job[t].name} /\ Ends(t) /\ UNCHANGED <<remote, idx>>
      /\ unsure \subseteq unsure'
  BY <1>2 DEF Involved, Adds
<1>7. DOMAIN negative' = DOMAIN negative \ {<<RootNode, job[t].name>>}
  BY <1>2 DEF Drop
<1>8. NamesOK'
  BY <1>1, <1>2, <1>6, <1>7, EndNames
<1> QED BY <1>5, <1>8

\* Where State::rename_path leaves a node.
LEMMA MovedNode ==
    ASSUME NodesOK, NEW from, NEW to, MoveNode(from, to), NEW n \in DOMAIN nodeToPath
    PROVE  /\ from \in DOMAIN pathToNode /\ n = pathToNode[from] =>
                 /\ nodeToPath[n] = from /\ nodeToPath'[n] = to
                 /\ to \in DOMAIN pathToNode' /\ pathToNode'[to] = n
           /\ ~(from \in DOMAIN pathToNode /\ n = pathToNode[from]) => nodeToPath'[n] = nodeToPath[n]
           /\ \A p \in DOMAIN pathToNode \ {from, to} :
                 p \in DOMAIN pathToNode' /\ pathToNode'[p] = pathToNode[p]
<1>1. CASE from \in DOMAIN pathToNode
  <2>1. /\ pathToNode' = Put(Drop(pathToNode, {from}), to, pathToNode[from])
        /\ nodeToPath' = Put(nodeToPath, pathToNode[from], to)
    BY <1>1 DEF MoveNode, Move
  <2>2. nodeToPath[pathToNode[from]] = from
    BY <1>1 DEF NodesOK
  <2>3. /\ nodeToPath'[pathToNode[from]] = to
        /\ n # pathToNode[from] => nodeToPath'[n] = nodeToPath[n]
    BY <2>1 DEF Put
  <2>4. /\ to \in DOMAIN pathToNode' /\ pathToNode'[to] = pathToNode[from]
        /\ \A p \in DOMAIN pathToNode \ {from, to} :
              p \in DOMAIN pathToNode' /\ pathToNode'[p] = pathToNode[p]
    BY <2>1 DEF Put, Drop
  <2> QED BY <1>1, <2>2, <2>3, <2>4
<1>2. CASE from \notin DOMAIN pathToNode
  BY <1>2 DEF MoveNode, Move
<1> QED BY <1>1, <1>2

LEMMA RenameDoneNames ==
    ASSUME NamesInv, NEW t \in Threads, RenameDone(t)
    PROVE  FilesOK' /\ ThreadsOK' /\ NamesOK'
<1> DEFINE name == job[t].name
           new == job[t].new
<1>1. /\ Shape /\ FilesOK /\ ThreadsOK /\ NamesOK /\ NodesOK /\ \A u \in Threads : JobOK(u)
      /\ \A o \in DOMAIN opens : opens[o].node \in DOMAIN nodeToPath
  BY DEF NamesInv, DeletesInv, Shape, Tables, OpensOK
<1>2. /\ job[t].cb = "rename" /\ job[t].phase = "state" /\ job[t].guard = "exclusive"
      /\ job[t].open # 0 /\ name = opens[job[t].open].name
      /\ Ends(t) /\ MoveNode(<<name>>, <<new>>)
      /\ negative' = NegativeAfterRename(RootNode, name, RootNode, new)
      /\ unsure' = IF name \in unsure THEN unsure \cup {new} ELSE unsure
      /\ UNCHANGED <<remote, idx>> /\ DOMAIN opens' = DOMAIN opens
      /\ \A o \in DOMAIN opens :
            /\ opens'[o].node = opens[o].node /\ opens'[o].cleaned = opens[o].cleaned
            /\ opens'[o].name = IF opens[o].name = name THEN new ELSE opens[o].name
  BY <1>1, RenameDoneFacts
<1>3. /\ <<name>> \notin DOMAIN remote /\ <<new>> \in DOMAIN remote
      /\ \A o \in DOMAIN opens : ~opens[o].cleaned /\ PathOf(o) = <<new>> => new \in unsure
  BY <1>1, <1>2 DEF ThreadsOK, ThreadOK, NamingOK, Answered
<1> HIDE DEF name, new
<1>4. \A u \in Threads : Moving(u) => u = t
  BY <1>1, <1>2, OneExclusive DEF Moving
<1>5. unsure \subseteq unsure'
  BY <1>2
<1>6. \A m : <<m>> = <<name>> => m = name
  OBVIOUS
<1>7. \A o \in DOMAIN opens : PathOf(o)' = nodeToPath'[opens[o].node]
  BY <1>2 DEF PathOf
<1> DEFINE Moved1(o) == <<name>> \in DOMAIN pathToNode /\ opens[o].node = pathToNode[<<name>>]
<1>8. ASSUME NEW o \in DOMAIN opens
      PROVE  /\ Moved1(o) => /\ PathOf(o) = <<name>> /\ PathOf(o)' = <<new>>
                             /\ <<new>> \in DOMAIN pathToNode' /\ pathToNode'[<<new>>] = opens[o].node
             /\ ~Moved1(o) => PathOf(o)' = PathOf(o)
             /\ \A p \in DOMAIN pathToNode \ {<<name>>, <<new>>} :
                   p \in DOMAIN pathToNode' /\ pathToNode'[p] = pathToNode[p]
  BY <1>1, <1>2, <1>7, MovedNode DEF PathOf
<1>9. ASSUME NEW o \in DOMAIN opens
      PROVE  FileOK(o)'
  <2>1. FileOK(o)
    BY <1>1 DEF FilesOK
  <2>2. CASE opens[o].cleaned
    BY <1>2, <2>2 DEF FileOK
  <2>3. CASE ~opens[o].cleaned /\ Moved1(o)
    <3>1. /\ PathOf(o) = <<name>> /\ PathOf(o)' = <<new>>
          /\ <<new>> \in DOMAIN pathToNode' /\ pathToNode'[<<new>>] = opens'[o].node
      BY <1>2, <1>8, <2>3
    <3>2. CASE name \in unsure
      BY <1>2, <3>1, <3>2 DEF FileOK, Unsure
    <3>3. CASE name \notin unsure
      <4>1. <<name>> = <<opens[o].name>>
        BY <1>6, <2>1, <2>3, <3>1, <3>3 DEF FileOK, Unsure
      <4>2. opens'[o].name = new
        BY <1>2, <4>1
      <4> QED BY <1>2, <1>3, <3>1, <4>2 DEF FileOK
    <3> QED BY <3>2, <3>3
  <2>4. CASE ~opens[o].cleaned /\ ~Moved1(o)
    <3>1. PathOf(o)' = PathOf(o)
      BY <1>8, <2>4
    <3>2. CASE Unsure(PathOf(o))
      BY <1>5, <3>1, <3>2 DEF FileOK, Unsure
    <3>3. CASE ~Unsure(PathOf(o))
      <4>1. /\ PathOf(o) = <<opens[o].name>>
            /\ PathOf(o) \in DOMAIN pathToNode /\ pathToNode[PathOf(o)] = opens[o].node
            /\ \/ PathOf(o) \in DOMAIN remote
               \/ \E u \in Threads : Moving(u) /\ job[u].name = opens[o].name
        BY <2>1, <2>4, <3>3 DEF FileOK
      <4>2. PathOf(o) # <<name>> /\ opens[o].name # name
        BY <2>4, <4>1
      <4>3. PathOf(o) # <<new>>
        BY <1>3, <2>4, <3>3 DEF Unsure
      <4>4. PathOf(o) \in DOMAIN pathToNode' /\ pathToNode'[PathOf(o)] = opens[o].node
        BY <1>8, <4>1, <4>2, <4>3
      <4>5. PathOf(o) \in DOMAIN remote
        BY <1>4, <4>1, <4>2 DEF name
      <4> QED BY <1>2, <3>1, <4>1, <4>2, <4>4, <4>5 DEF FileOK
    <3> QED BY <3>2, <3>3
  <2> QED BY <2>2, <2>3, <2>4
<1>10. ASSUME NEW u \in Threads \ {t}
       PROVE  ThreadOK(u)'
  <2>1. /\ job'[u] = job[u] /\ ThreadOK(u) /\ JobOK(u)
        /\ job[u].cb \in {"none", "info", "write", "setInfo"}
        /\ job[u].open # 0 => opens[job[u].open].name # name
    BY <1>1, <1>2, BesideExclusive DEF ThreadsOK, Ends, Others
  <2>2. Call(u)' = Call(u) /\ (Answered(u)' <=> Answered(u))
    BY <2>1 DEF Call, Answered
  <2>3. LooksOK(u)' /\ OpeningOK(u)' /\ NamingOK(u)'
    BY <1>2, <1>5, <2>1, <2>2 DEF ThreadOK, LooksOK, OpeningOK, NamingOK, Unsure
  <2>4. AskedOK(u)'
    <3>1. SUFFICES ASSUME job[u].open # 0, job[u].phase # "call", Call(u) \in {"getattr", "setattr"}
                   PROVE  \/ Unsure(job[u].path)'
                          \/ /\ job[u].path = <<opens'[job[u].open].name>>
                             /\ PathOf(job[u].open)' = job[u].path
      BY <2>1, <2>2 DEF AskedOK
    <3>2. CASE Unsure(job[u].path)
      BY <1>5, <2>1, <3>2 DEF Unsure
    <3>3. CASE job[u].path = <<opens[job[u].open].name>> /\ PathOf(job[u].open) = job[u].path
      <4>1. job[u].open \in DOMAIN opens /\ opens[job[u].open].name # name
        BY <2>1, <3>1 DEF JobOK
      <4>2. opens'[job[u].open].name = opens[job[u].open].name
        BY <1>2, <4>1
      <4>3. PathOf(job[u].open) # <<name>>
        BY <1>6, <3>3, <4>1
      <4>4. nodeToPath'[opens[job[u].open].node] = PathOf(job[u].open)
        BY <1>7, <1>8, <4>1, <4>3
      <4>5. PathOf(job[u].open)' = PathOf(job[u].open)
        BY <1>2, <2>1, <4>1, <4>4 DEF PathOf
      <4> QED BY <3>3, <4>2, <4>5
    <3> QED BY <2>1, <3>1, <3>2, <3>3 DEF ThreadOK, AskedOK
  <2> QED BY <2>3, <2>4 DEF ThreadOK
<1>11. ThreadOK(t)'
  <2>1. job'[t].phase = "call" /\ job'[t].cb = "none"
    BY <1>2 DEF Ends, Idle
  <2> QED BY <2>1, NothingSent
<1>12. Involved(t) = {name, new}
  BY <1>2 DEF Involved, name, new
<1>13. DOMAIN negative' = (DOMAIN negative \cup {<<RootNode, name>>}) \ {<<RootNode, new>>}
  BY <1>2 DEF NegativeAfterRename, Put, Drop
<1>14. \A n : <<RootNode, n>> = <<RootNode, name>> => n = name
  OBVIOUS
<1>15. \A n \in Names : <<RootNode, n>> \in DOMAIN negative' =>
            \/ <<RootNode, n>> \in DOMAIN negative /\ n \notin Involved(t)
            \/ <<n>> \notin DOMAIN remote
  BY <1>3, <1>12, <1>13, <1>14
<1>16. NamesOK'
  BY <1>1, <1>2, <1>5, <1>15, EndNames
<1> QED BY <1>2, <1>9, <1>10, <1>11, <1>16 DEF FilesOK, ThreadsOK

\* The server carries out a change of no name.
LEMMA ActsOnFile ==
    ASSUME NamesInv, NEW t \in Threads, ServerActs(t), Call(t) \in {"setattr", "write"}
    PROVE  FilesOK' /\ ThreadsOK' /\ NamesOK'
<1>1. /\ Shape /\ FilesOK /\ ThreadsOK /\ NamesOK /\ NodesOK /\ Jobs /\ PathOK(t)
      /\ \A u \in Threads : JobOK(u)
  BY DEF NamesInv, DeletesInv, Shape, Tables
<1>2. /\ job[t].phase = "ask" /\ job[t].cb # "none" /\ remote' = remote
      /\ job[t].path \in DOMAIN remote
  BY <1>1, ActsRemote
<1>3. /\ DOMAIN opens' = DOMAIN opens
      /\ \A o \in DOMAIN opens :
            /\ opens'[o].node = opens[o].node /\ opens'[o].name = opens[o].name
            /\ opens'[o].cleaned = opens[o].cleaned
      /\ \/ Works(t, "store", job[t].path, job[t].seen) /\ UNCHANGED unsure
         \/ Ends(t) /\ unsure' = unsure \cup NamesChanged(t)
      /\ UNCHANGED <<nodeVars, idx, negative>>
  BY <1>1, ActsFacts
<1>4. unsure' = unsure
  BY <1>1, <1>3, ChangedNames
<1>5. job[t].cb \notin {"create", "cleanup", "rename"}
  BY <1>1, <1>2, CallFacts
<1>6. /\ \A u \in Threads \ {t} : job'[u] = job[u]
      /\ Same(t) \/ job'[t] = Idle
  BY <1>3 DEF Works, Ends, Others
<1>7. Idle.cb = "none" /\ Idle.phase = "call"
  BY DEF Idle
<1>8. KeepsMoving
  BY <1>5, <1>6, <1>7 DEF KeepsMoving, Moving, Same, Answered
<1>9. NodesGrow
  BY <1>1, <1>3, NodesStay
<1>10. FilesOK' /\ \A o \in DOMAIN opens : KeepsFile(o)
  BY <1>1, <1>2, <1>3, <1>4, <1>8, <1>9, FileStays, PathStays DEF FilesOK, KeepsFile
<1>11. ASSUME NEW u \in Threads \ {t} PROVE ThreadOK(u)'
  <2>1. job'[u] = job[u] /\ ThreadOK(u) /\ JobOK(u)
    BY <1>1, <1>6 DEF ThreadsOK
  <2>2. job[u].open # 0 => KeepsFile(job[u].open)
    BY <1>10, <2>1 DEF JobOK
  <2> QED BY <1>2, <1>3, <1>4, <1>10, <2>1, <2>2, ThreadStays DEF KeepsFile
<1>12. ThreadOK(t)'
  <2>1. CASE Ends(t)
    BY <1>7, <2>1, NothingSent DEF Ends
  <2>2. CASE Works(t, "store", job[t].path, job[t].seen)
    <3>1. /\ Same(t) /\ job'[t].phase = "store" /\ job'[t].path = job[t].path
          /\ Call(t)' = Call(t)
      BY <2>2 DEF Works, Call
    <3>2. OpeningOK(t)' /\ NamingOK(t)'
      BY <1>5, <3>1 DEF OpeningOK, NamingOK, Same
    <3>3. LooksOK(t)'
      BY <1>2, <3>1 DEF LooksOK
    <3>4. job[t].open # 0 => PathOf(job[t].open)' = PathOf(job[t].open)
      BY <1>1, <1>10, <3>1 DEF JobOK, KeepsFile, PathOf, Same
    <3>5. job[t].open # 0 => opens'[job[t].open].name = opens[job[t].open].name
      BY <1>1, <1>3 DEF JobOK
    <3>6. AskedOK(t)'
      BY <1>1, <1>2, <1>4, <3>1, <3>4, <3>5 DEF ThreadsOK, ThreadOK, AskedOK, Unsure, Same
    <3> QED BY <3>2, <3>3, <3>6 DEF ThreadOK
  <2> QED BY <1>3, <2>1, <2>2
<1>13. \A n : (Storing(n) => Storing(n)') /\ (Changing(n) => Changing(n)')
  BY <1>5, <1>6 DEF Storing, Changing, Naming, Involved, Answered
<1>14. NamesOK'
  BY <1>1, <1>2, <1>3, <1>4, <1>13, NamesStay
<1> QED BY <1>10, <1>11, <1>12, <1>14 DEF ThreadsOK

\* The server carries out a creation, deletion or rename: what is known of the
\* names involved is behind, or unsure, and nobody else has asked about them.
LEMMA ActsOnNames ==
    ASSUME NamesInv, NEW t \in Threads, ServerActs(t), Call(t) \in {"create", "unlink", "rename"}
    PROVE  FilesOK' /\ ThreadsOK' /\ NamesOK'
<1> DEFINE name == job[t].name
           new == job[t].new
<1>1. /\ Shape /\ FilesOK /\ ThreadsOK /\ NamesOK /\ NodesOK /\ Jobs /\ Last
      /\ \A u \in Threads : JobOK(u)
  BY DEF NamesInv, DeletesInv, Shape, Tables
<1>2. /\ job[t].phase = "ask" /\ job[t].cb # "none" /\ name \in Names
      /\ Call(t) = "create" => DOMAIN remote' = DOMAIN remote \cup {<<name>>}
      /\ Call(t) = "unlink" => DOMAIN remote' = DOMAIN remote \ {<<name>>}
      /\ Call(t) = "rename" =>
            /\ new \in Names /\ <<new>> \notin DOMAIN remote /\ <<name>> \in DOMAIN remote
            /\ DOMAIN remote' = (DOMAIN remote \ {<<name>>}) \cup {<<new>>}
  BY <1>1, ActsRemote
<1>3. /\ DOMAIN opens' = DOMAIN opens
      /\ \A o \in DOMAIN opens :
            /\ opens'[o].node = opens[o].node /\ opens'[o].name = opens[o].name
            /\ opens'[o].cleaned = opens[o].cleaned
      /\ \/ Works(t, "store", job[t].path, job[t].seen) /\ UNCHANGED unsure
         \/ Ends(t) /\ unsure' = unsure \cup NamesChanged(t)
      /\ UNCHANGED <<nodeVars, idx, negative>>
  BY <1>1, ActsFacts
<1>4. /\ Call(t) = "create" <=> job[t].cb = "create"
      /\ Call(t) = "unlink" <=> job[t].cb = "cleanup"
      /\ Call(t) = "rename" <=> job[t].cb = "rename"
  BY <1>1, <1>2, CallFacts
<1>5. /\ Involved(t) = NamesChanged(t) /\ Naming(t)
      /\ Call(t) = "rename" => Involved(t) = {name, new}
      /\ Call(t) # "rename" => Involved(t) = {name}
  BY <1>1, <1>4, ChangedNames DEF Involved, Naming
<1>6. /\ \A u \in Threads \ {t} : job'[u] = job[u]
      /\ Same(t) \/ job'[t] = Idle
  BY <1>3 DEF Works, Ends, Others
<1>7. /\ job[t].guard = "exclusive"
      /\ \A u \in Threads \ {t} : job[u].cb \in {"none", "info", "write", "setInfo"}
  BY <1>1, <1>4, OneExclusive DEF JobOK, GuardOf
<1> HIDE DEF name, new
<1>8. unsure \subseteq unsure'
  BY <1>3
<1>9. \A n \in Names \ Involved(t) : <<n>> \in DOMAIN remote' <=> <<n>> \in DOMAIN remote
  <2>1. SUFFICES ASSUME NEW n \in Names, n \notin Involved(t)
                 PROVE  <<n>> \in DOMAIN remote' <=> <<n>> \in DOMAIN remote
    OBVIOUS
  <2>2. <<n>> # <<name>> /\ (Call(t) = "rename" => <<n>> # <<new>>)
    BY <1>5, <2>1
  <2> QED BY <1>2, <2>2
<1>10. NodesGrow
  BY <1>1, <1>3, NodesStay
<1>11. \A o \in DOMAIN opens : KeepsFile(o)
  BY <1>1, <1>3, <1>10, PathStays DEF KeepsFile
<1>12. ASSUME NEW u \in Threads PROVE ~Moving(u) /\ ~(Naming(u) /\ Answered(u))
  BY <1>2, <1>7 DEF Moving, Naming, Answered
<1>13. ASSUME NEW o \in DOMAIN opens
       PROVE  FileOK(o)'
  <2>1. FileOK(o) /\ PathOf(o)' = PathOf(o) /\ opens[o].name \in Names
    BY <1>1, <1>11 DEF FilesOK, KeepsFile, Shape, Opens, OpenFile
  <2>2. CASE opens[o].cleaned
    BY <1>3, <2>2 DEF FileOK
  <2>3. CASE Unsure(PathOf(o))
    BY <1>8, <2>1, <2>3 DEF FileOK, Unsure
  <2>4. CASE ~opens[o].cleaned /\ ~Unsure(PathOf(o))
    <3>1. /\ PathOf(o) = <<opens[o].name>> /\ PathOf(o) \in DOMAIN remote
          /\ PathOf(o) \in DOMAIN pathToNode' /\ pathToNode'[PathOf(o)] = opens[o].node
      BY <1>10, <1>12, <2>1, <2>4 DEF FileOK, NodesGrow
    <3>2. SUFFICES \/ Unsure(PathOf(o))'
                   \/ PathOf(o) \in DOMAIN remote'
                   \/ Moving(t)' /\ job'[t].name = opens[o].name
      BY <1>3, <2>1, <3>1 DEF FileOK, Unsure
    <3>3. CASE opens[o].name \notin Involved(t)
      BY <1>9, <2>1, <3>1, <3>3
    <3>4. CASE opens[o].name \in Involved(t) /\ Ends(t)
      <4>1. opens[o].name \in unsure' \/ Works(t, "store", job[t].path, job[t].seen)
        BY <1>3, <1>5, <3>4
      <4>2. ~(Ends(t) /\ Works(t, "store", job[t].path, job[t].seen))
        BY DEF Ends, Works, Idle
      <4> QED BY <2>1, <3>1, <3>4, <4>1, <4>2 DEF Unsure
    <3>5. CASE opens[o].name \in Involved(t) /\ Works(t, "store", job[t].path, job[t].seen)
      <4>1. CASE Call(t) = "create"
        BY <1>2, <3>1, <4>1
      <4>2. CASE Call(t) = "unlink"
        <5>1. /\ LastHandle(job[t].open) /\ job[t].open \in DOMAIN opens
              /\ opens[job[t].open].cleaned /\ opens[job[t].open].name = name
          BY <1>1, <1>4, <4>2 DEF Last, JobOK, ByName, name
        <5>2. opens[o].name = name
          BY <1>5, <3>5, <4>2
        <5>3. o = job[t].open
          BY <5>1, <5>2 DEF LastHandle, SameFile
        <5> QED BY <2>4, <5>1, <5>3
      <4>3. CASE Call(t) = "rename" /\ opens[o].name = name
        <5>1. Moving(t)' /\ job'[t].name = job[t].name
          BY <1>4, <3>5, <4>3 DEF Works, Same, Moving, Answered
        <5> QED BY <4>3, <5>1 DEF name
      <4>4. CASE Call(t) = "rename" /\ opens[o].name = new
        BY <1>2, <3>1, <4>4
      <4> QED BY <1>5, <3>5, <4>1, <4>2, <4>3, <4>4
    <3> QED BY <1>3, <3>3, <3>4, <3>5
  <2> QED BY <2>2, <2>3, <2>4
<1>14. ASSUME NEW u \in Threads \ {t} PROVE ThreadOK(u)'
  <2>1. /\ job'[u] = job[u] /\ ThreadOK(u) /\ JobOK(u)
        /\ job[u].cb \in {"none", "info", "write", "setInfo"}
    BY <1>1, <1>6, <1>7 DEF ThreadsOK
  <2>2. Call(u)' = Call(u) /\ (Answered(u)' <=> Answered(u))
    BY <2>1 DEF Call, Answered
  <2>3. OpeningOK(u)' /\ NamingOK(u)'
    BY <2>1 DEF OpeningOK, NamingOK
  <2>4. AskedOK(u)'
    <3>1. SUFFICES ASSUME job[u].open # 0, job[u].phase # "call", Call(u) \in {"getattr", "setattr"}
                   PROVE  \/ Unsure(job[u].path)'
                          \/ /\ job[u].path = <<opens'[job[u].open].name>>
                             /\ PathOf(job[u].open)' = job[u].path
      BY <2>1, <2>2 DEF AskedOK
    <3>2. KeepsFile(job[u].open)
      BY <1>11, <2>1, <3>1 DEF JobOK
    <3>3. PathOf(job[u].open)' = PathOf(job[u].open)
      BY <2>1, <3>2 DEF KeepsFile, PathOf
    <3>4. \/ Unsure(job[u].path)
          \/ job[u].path = <<opens[job[u].open].name>> /\ PathOf(job[u].open) = job[u].path
      BY <2>1, <3>1 DEF ThreadOK, AskedOK
    <3>5. CASE Unsure(job[u].path)
      BY <1>8, <2>1, <3>5 DEF Unsure
    <3>6. CASE job[u].path = <<opens[job[u].open].name>> /\ PathOf(job[u].open) = job[u].path
      BY <3>2, <3>3, <3>6 DEF KeepsFile
    <3> QED BY <3>4, <3>5, <3>6
  <2>5. LooksOK(u)'
    <3>1. SUFFICES ASSUME Answered(u) PROVE LooksOK(u)'
      BY <2>2 DEF LooksOK
    <3>2. job[u].cb # "none"
      BY <2>1, <3>1, Busy DEF Answered
    <3>3. /\ job[u].cb \in OnFile /\ job[u].open # 0
          /\ Call(u) \in {"getattr", "setattr", "write"}
      BY <1>1, <2>1, <3>2, CallFacts DEF JobOK, OnFile, ByName
    <3>4. \/ Unsure(job[u].path)
          \/ job[u].path = <<opens[job[u].open].name>>
          \/ Call(u) = "write"
      BY <2>1, <3>1, <3>3 DEF ThreadOK, AskedOK, Answered
    <3>5. opens[job[u].open].name \in Names
      BY <1>1, <2>1, <3>3 DEF JobOK, Shape, Opens, OpenFile
    <3>6. /\ job[u].path = <<opens[job[u].open].name>>
          /\ job[u].path \in DOMAIN remote
          => job[u].path \in DOMAIN remote'
      <4>1. CASE Call(t) = "create"
        BY <1>2, <4>1
      <4>2. CASE Call(t) \in {"unlink", "rename"}
        <5>1. job[t].open # 0 /\ name = opens[job[t].open].name
          BY <1>1, <1>4, <4>2 DEF JobOK, ByName, name
        <5>2. opens[job[u].open].name # name
          BY <1>1, <1>7, <3>3, <5>1, BesideExclusive
        <5>3. <<opens[job[u].open].name>> # <<name>>
          BY <5>2
        <5> QED BY <1>2, <4>2, <5>3
      <4> QED BY <4>1, <4>2
    <3>7. Unsure(job[u].path) => Unsure(job[u].path)'
      BY <1>8, <2>1 DEF Unsure
    <3> QED BY <2>1, <2>2, <3>1, <3>3, <3>4, <3>6, <3>7 DEF ThreadOK, LooksOK
  <2> QED BY <2>3, <2>4, <2>5 DEF ThreadOK
<1>15. ThreadOK(t)'
  <2>1. CASE Ends(t)
    <3>1. job'[t].phase = "call" /\ job'[t].cb = "none"
      BY <2>1 DEF Ends, Idle
    <3> QED BY <3>1, NothingSent
  <2>2. CASE Works(t, "store", job[t].path, job[t].seen)
    <3>1. Same(t) /\ Call(t)' = Call(t) /\ unsure \subseteq unsure'
      BY <1>8, <2>2 DEF Works, Call
    <3>2. AskedOK(t)' /\ LooksOK(t)' /\ OpeningOK(t)'
      BY <3>1 DEF AskedOK, LooksOK, OpeningOK
    <3>3. CASE Call(t) = "create"
      BY <1>2, <1>4, <3>1, <3>2, <3>3 DEF ThreadOK, NamingOK, Same, name
    <3>4. CASE Call(t) = "unlink"
      BY <1>2, <1>4, <3>1, <3>2, <3>4 DEF ThreadOK, NamingOK, Same, name
    <3>5. CASE Call(t) = "rename"
      <4>1. <<name>> \notin DOMAIN remote' /\ <<new>> \in DOMAIN remote'
        BY <1>2, <3>5
      <4>2. ASSUME NEW o \in DOMAIN opens, ~opens[o].cleaned, PathOf(o) = <<new>>
            PROVE  new \in unsure
        <5>1. Unsure(<<new>>)
          BY <1>1, <1>2, <1>12, <3>5, <4>2 DEF FilesOK, FileOK
        <5>2. PICK m \in unsure : <<new>> = <<m>>
          BY <5>1 DEF Unsure
        <5> QED BY <5>2
      <4>3. \A o \in DOMAIN opens' : ~opens'[o].cleaned /\ PathOf(o)' = <<new>> => new \in unsure'
        BY <1>3, <1>8, <1>11, <4>2 DEF KeepsFile
      <4> QED BY <1>4, <3>1, <3>2, <3>5, <4>1, <4>3 DEF ThreadOK, NamingOK, Same, name, new
    <3> QED BY <3>3, <3>4, <3>5
  <2> QED BY <1>3, <2>1, <2>2
<1>16. NamesOK'
  <2>1. SUFFICES ASSUME NEW n \in Names, n \notin unsure' PROVE NameOK(n)'
    BY DEF NamesOK
  <2>2. NameOK(n) /\ ~Storing(n) /\ ~Changing(n)
    BY <1>1, <1>8, <1>12, <2>1 DEF NamesOK, Storing, Changing, Answered
  <2>3. Listed(n)' <=> Listed(n)
    BY <1>3 DEF Listed
  <2>4. CASE n \notin Involved(t)
    BY <1>3, <1>9, <2>2, <2>3, <2>4 DEF NameOK
  <2>5. CASE n \in Involved(t)
    <3>1. Works(t, "store", job[t].path, job[t].seen)
      BY <1>3, <1>5, <2>1, <2>5
    <3>2. Naming(t)' /\ job'[t].phase = "store" /\ n \in Involved(t)'
      BY <1>5, <2>5, <3>1 DEF Works, Same, Naming, Involved
    <3>3. Storing(n)' /\ Changing(n)'
      BY <3>2 DEF Storing, Changing, Answered
    <3> QED BY <3>3 DEF NameOK
  <2> QED BY <2>4, <2>5
<1> QED BY <1>3, <1>13, <1>14, <1>15, <1>16 DEF FilesOK, ThreadsOK

LEMMA NextNames ==
    ASSUME NamesInv, [WinNext]_<<vars, winVars>>
    PROVE  NamesInv'
<1>1. Shape /\ DeletesInv'
  BY NextDeletes DEF NamesInv, DeletesInv
<1>2. CASE Still
  BY <1>1, <1>2, StillNames DEF NamesInv
<1>3. ASSUME NEW o \in DOMAIN opens, Close(o)
      PROVE  NamesInv'
  BY <1>1, <1>3, CloseNames DEF NamesInv
<1>4. ASSUME NEW t \in Threads, Callbacks(t)
      PROVE  NamesInv'
  BY <1>1, <1>4, BeginNames DEF NamesInv
<1>5. ASSUME NEW t \in Threads, VfsCalls(t)
      PROVE  NamesInv'
  <2>1. CASE GetattrHit(t) \/ GetattrDone(t) \/ SetattrDone(t) \/ WriteDone(t)
    BY <1>1, <2>1, CallEndsNames DEF NamesInv
  <2>2. CASE LookupHit(t) \/ LookupNegative(t) \/ LookupDone(t)
    BY <1>1, <2>2, LookupNames DEF NamesInv
  <2>3. CASE ReaddirHit(t) \/ ReaddirDone(t)
    BY <1>1, <2>3, ReaddirNames DEF NamesInv
  <2>4. CASE Ask(t) \/ ServerAnswers(t) \/ ServerRefuses(t) \/ RequestFails(t)
    BY <1>1, <2>4, RequestNames DEF NamesInv
  <2>5. CASE EditStore(t)
    BY <1>1, <2>5, EditStoreNames DEF NamesInv
  <2>6. CASE UnlinkDone(t)
    BY <1>1, <2>6, UnlinkDoneNames DEF NamesInv
  <2>7. CASE OpenDone(t)
    BY <1>1, <2>7, OpenDoneNames DEF NamesInv
  <2>8. CASE CreateDone(t)
    BY <1>1, <2>8, CreateDoneNames DEF NamesInv
  <2>9. CASE RenameDone(t)
    BY <1>1, <2>9, RenameDoneNames DEF NamesInv
  <2>10. CASE ServerActs(t)
    <3>1. Call(t) \in {"create", "unlink", "rename", "setattr", "write"}
      BY <1>1, <2>10, ChangedNames
    <3> QED BY <1>1, <2>10, <3>1, ActsOnFile, ActsOnNames DEF NamesInv
  <2> QED BY <1>5, <2>1, <2>2, <2>3, <2>4, <2>5, <2>6, <2>7, <2>8, <2>9, <2>10 DEF VfsCalls
<1>6. \A t \in Threads : Loud(t) => VfsCalls(t)
  BY DEF Loud, VfsCalls
<1> QED BY <1>1, <1>2, <1>3, <1>4, <1>5, <1>6, StepKinds

\* What the cache says of names, and what every thread between its answer and its
\* edits goes by, is so on the server, but for the names of a change under way or
\* one reported failed.
THEOREM WinNames == WinSpec => []NamesInv
<1>1. WinInit => NamesInv
  <2>1. SUFFICES ASSUME WinInit PROVE NamesInv
    OBVIOUS
  <2>2. /\ Shape /\ job = [t \in Threads |-> Idle] /\ opens = NoMap /\ ~misdeleted
        /\ DOMAIN idx.attrs = {} /\ DOMAIN idx.listing = {} /\ DOMAIN negative = {}
    BY <2>1, InitShape
  <2>3. Idle.cb = "none" /\ Idle.phase = "call" /\ DOMAIN opens = {}
    BY <2>2 DEF Idle, NoMap
  <2>4. DeletesInv /\ FilesOK
    BY <2>2, <2>3 DEF DeletesInv, Last, Located, FilesOK
  <2>5. ThreadsOK
    BY <2>2, <2>3 DEF ThreadsOK, ThreadOK, AskedOK, LooksOK, OpeningOK, NamingOK, Answered
  <2>6. NamesOK
    BY <2>2 DEF NamesOK, NameOK
  <2> QED BY <2>4, <2>5, <2>6 DEF NamesInv
<1>2. NamesInv /\ [WinNext]_<<vars, winVars>> => NamesInv'
  BY NextNames
<1> QED BY <1>1, <1>2, PTL DEF WinSpec

\* Nothing is behind while no creation, deletion or rename is under way.
LEMMA NothingExclusive ==
    ASSUME Shape, \A t \in Threads : job[t].guard # "exclusive", NEW n
    PROVE  ~Storing(n) /\ ~Changing(n)
<1>1. \A t \in Threads : ~Naming(t)
  BY DEF Shape, JobOK, GuardOf, Naming
<1> QED BY <1>1 DEF Storing, Changing

\* A listing served from the store names the server's files, whatever other
\* threads do between their answers and their edits: vfs.rs's readdir and the
\* invalidate_children of every change of a name.
THEOREM ListingWholeInvariant == WinSpec => []ListingWhole
<1>1. NamesInv => ListingWhole
  <2>1. SUFFICES ASSUME NamesInv, \A t \in Threads : job[t].guard # "exclusive",
                        Root \in DOMAIN idx.listing, NEW n \in Names \ unsure
                 PROVE  <<n>> \in ListedChildren(Root) <=> <<n>> \in DOMAIN remote
    BY DEF ListingWhole
  <2>2. Shape /\ NameOK(n) /\ IdxOK(idx)
    BY <2>1 DEF NamesInv, DeletesInv, NamesOK, Shape, Tables
  <2>3. Listed(n) <=> <<n>> \in DOMAIN remote
    BY <2>1, <2>2, NothingExclusive DEF NameOK
  <2>4. ListedChildren(Root) = {<<m>> : m \in idx.listing[Root]} \cap DOMAIN idx.attrs
    BY <2>1, <2>2, ListedNames
  <2>5. <<n>> \in ListedChildren(Root) <=> Listed(n)
    BY <2>4 DEF Listed
  <2> QED BY <2>3, <2>5
<1> QED BY <1>1, WinNames, PTL

\* A name taken for missing is missing, and one found without asking is there:
\* vfs.rs's negative entries and attributes, and what create, unlink and rename
\* make of them, however the threads' edits fall between each other.
THEOREM NamesTrueInvariant == WinSpec => []NamesTrue
<1>1. NamesInv => NamesTrue
  <2>1. SUFFICES ASSUME NamesInv, \A t \in Threads : job[t].guard # "exclusive",
                        NEW n \in Names \ unsure
                 PROVE  IF FreshNegative(RootNode, n) THEN <<n>> \notin DOMAIN remote
                        ELSE Cached(<<n>>) => <<n>> \in DOMAIN remote
    BY DEF NamesTrue
  <2>2. Shape /\ NameOK(n)
    BY <2>1 DEF NamesInv, DeletesInv, NamesOK
  <2>3. ~Storing(n) /\ ~Changing(n)
    BY <2>1, <2>2, NothingExclusive
  <2>4. FreshNegative(RootNode, n) => <<n>> \notin DOMAIN remote
    BY <2>2, <2>3 DEF FreshNegative, NameOK
  <2>5. Cached(<<n>>) => <<n>> \in DOMAIN remote
    BY <2>2, <2>3 DEF Cached, NameOK
  <2> QED BY <2>4, <2>5
<1> QED BY <1>1, WinNames, PTL
=============================================================================
