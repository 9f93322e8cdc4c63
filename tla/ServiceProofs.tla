----------------------------- MODULE ServiceProofs -----------------------------
(***************************************************************************)
(* The parts of the process do not wait for each other, the circuit is not *)
(* open for ever and GET /quota is answered in time: for any number of     *)
(* requests and jobs, any pool, any timeouts and any crash.  The argument  *)
(* for the circuit: while it is open no call begins, so those under way    *)
(* have what is left of one timeout, less the time it has been open.  For  *)
(* the pool: a handler that queues has given back what it held, since      *)
(* every place from which it queues keeps at most the one connection it    *)
(* gives back.  For the quota: what a request has waited and what is left  *)
(* of the wait it is in add up to no more than the waits it has come to.   *)
(***************************************************************************)
EXTENDS Service, TLAPS

ClientInv ==
    /\ ClientTypeOK /\ OpenAtMost
    /\ cooldown = 0 => openFor = 0
    /\ cooldown > 0 => \A r \in calling : openFor + deadline[r] <= GrpcTimeout

TypesOfTasks ==
    /\ phase \in {"down", "up", "draining"}
    /\ checkpointer \in BOOLEAN /\ scheduler \in BOOLEAN
    /\ at \in [Tasks -> Places]
    /\ kind \in [Requests -> Kinds]
    /\ conns \in [Tasks -> {0, 1}]
    /\ patience \in [Tasks -> 0..NoWait]
    /\ left \in [Tasks -> 0..Commits]
    /\ reader \in Tasks \cup {Nobody}
    /\ waited \in [Requests -> 0..(Longest + 1)]

\* What a place says of the waits and the connections of the task in it.
Holds(x) ==
    /\ at[x] \in {"idle", "ask", "base", "saver", "push"} => ~Waiting(x)
    /\ at[x] \in {"idle", "ask", "base"} => conns[x] = 0
    /\ Waiting(x) => conns[x] = 0
    /\ x \in calling => at[x] = "base"
    /\ reader = x => at[x] = "saver"

\* What a GET /quota has waited so far, and what is left of its wait.
Waits(r) ==
    /\ kind[r] = "quota" => at[r] \in {"auth", "ask", "base", "query"}
    /\ kind[r] # "quota" => waited[r] = 0
    /\ at[r] = "auth" =>
          waited[r] + (IF Waiting(r) THEN patience[r] ELSE 0) <= PoolTimeout
    /\ at[r] = "ask" => waited[r] <= PoolTimeout
    /\ at[r] = "base" => waited[r] + deadline[r] <= PoolTimeout + GrpcTimeout
    /\ at[r] = "query" => waited[r] + (IF Waiting(r) THEN patience[r] ELSE 0) <= Longest
    /\ waited[r] <= Longest

TasksInv ==
    /\ TypesOfTasks
    /\ \A x \in Tasks : Holds(x)
    /\ \A r \in Requests : Waits(r)

IInv == ClientInv /\ TasksInv
-----------------------------------------------------------------------------
(* The client of the base service.                                         *)

LEMMA ClientInitInv == ClientInit => ClientInv
  BY ClientTimes DEF ClientInit, ClientInv, ClientTypeOK, OpenAtMost

LEMMA ClientResetInv ==
    ASSUME ClientReset
    PROVE  ClientInv'
  BY ClientTimes DEF ClientReset, ClientInv, ClientTypeOK, OpenAtMost

LEMMA CallInv ==
    ASSUME ClientInv, NEW r \in Requests, Call(r)
    PROVE  ClientInv'
  BY ClientTimes DEF Call, Dial, CircuitOpen, ClientInv, ClientTypeOK, OpenAtMost

LEMMA AnsweredInv ==
    ASSUME ClientInv, NEW r \in Requests, Answered(r)
    PROVE  ClientInv'
  BY ClientTimes DEF Answered, HangUp, ClientInv, ClientTypeOK, OpenAtMost

LEMMA FailedInv ==
    ASSUME ClientInv, NEW r \in Requests, Failed(r)
    PROVE  ClientInv'
  <1> USE ClientTimes DEF Failed, HangUp, ClientInv, ClientTypeOK, OpenAtMost
  <1>1. openFor <= GrpcTimeout
    OBVIOUS
  <1>2. \A q \in calling' : openFor' + deadline'[q] <= GrpcTimeout
    OBVIOUS
  <1> QED BY <1>1, <1>2

LEMMA ElapsesInv ==
    ASSUME ClientInv, Elapses
    PROVE  ClientInv'
  <1> USE ClientTimes DEF Elapses, ClientInv, ClientTypeOK, OpenAtMost
  <1>1. deadline' \in [Requests -> 0..GrpcTimeout]
    OBVIOUS
  <1>2. cooldown' \in 0..Cooldown /\ openFor' + cooldown' <= GrpcTimeout + Cooldown
        /\ openFor' \in Nat
    OBVIOUS
  <1>3. cooldown' > 0 => \A q \in calling' : openFor' + deadline'[q] <= GrpcTimeout
    OBVIOUS
  <1> QED BY <1>1, <1>2, <1>3

LEMMA SameClient ==
    ASSUME ClientInv, UNCHANGED clientVars
    PROVE  ClientInv'
  BY DEF clientVars, ClientInv, ClientTypeOK, OpenAtMost

-----------------------------------------------------------------------------
(* How a task moves.                                                       *)

LEMMA QueueMoves ==
    ASSUME TypesOfTasks, NEW x \in Tasks, NEW place \in Places, NEW n \in {0, 1},
           n <= conns[x], Queue(x, place, n)
    PROVE  /\ at' \in [Tasks -> Places] /\ at'[x] = place
           /\ conns' \in [Tasks -> {0, 1}] /\ conns'[x] = conns[x] - n
           /\ patience' \in [Tasks -> 0..NoWait] /\ patience'[x] = PoolTimeout
           /\ Waiting(x)'
           /\ \A y \in Tasks : y # x => /\ at'[y] = at[y] /\ conns'[y] = conns[y]
                                        /\ patience'[y] = patience[y]
  <1>1. PoolTimeout \in 0..NoWait /\ PoolTimeout # NoWait
    BY PoolAssumption DEF NoWait
  <1>2. conns[x] - n \in {0, 1}
    BY DEF TypesOfTasks
  <1> QED BY <1>1, <1>2 DEF Queue, TypesOfTasks, Waiting

LEMMA ProceedMoves ==
    ASSUME TypesOfTasks, NEW x \in Tasks, NEW place \in Places, NEW n \in {0, 1},
           Proceed(x, place, n)
    PROVE  /\ at' \in [Tasks -> Places] /\ at'[x] = place
           /\ conns' \in [Tasks -> {0, 1}] /\ conns'[x] = n
           /\ patience' \in [Tasks -> 0..NoWait]
           /\ ~Waiting(x)'
           /\ \A y \in Tasks : y # x => /\ at'[y] = at[y] /\ conns'[y] = conns[y]
                                        /\ patience'[y] = patience[y]
  <1>1. NoWait \in 0..NoWait
    BY PoolAssumption DEF NoWait
  <1> QED BY <1>1 DEF Proceed, TypesOfTasks, Waiting

\* What holds of the task that moves, and held of the others, holds of all.
LEMMA OneMoves ==
    ASSUME TasksInv, NEW x \in Tasks, TypesOfTasks', Holds(x)',
           x \in Requests => Waits(x)',
           \A y \in Tasks : y # x =>
               /\ at'[y] = at[y] /\ conns'[y] = conns[y] /\ patience'[y] = patience[y]
               /\ y \in calling' => y \in calling
               /\ reader' = y => reader = y,
           \A r \in Requests : r # x =>
               kind'[r] = kind[r] /\ waited'[r] = waited[r] /\ deadline'[r] = deadline[r]
    PROVE  TasksInv'
  <1>1. ASSUME NEW y \in Tasks, y # x
        PROVE  Holds(y)'
    BY <1>1 DEF TasksInv, Holds, Waiting
  <1>2. ASSUME NEW r \in Requests, r # x
        PROVE  Waits(r)'
    BY <1>2 DEF TasksInv, Waits, Waiting, Tasks
  <1> QED BY <1>1, <1>2 DEF TasksInv

LEMMA SumsAreNumbers ==
    /\ PoolTimeout \in Nat /\ GrpcTimeout \in Nat /\ Longest \in Nat /\ NoWait \in Nat
    /\ 0 <= PoolTimeout /\ PoolTimeout + GrpcTimeout + PoolTimeout = Longest
    /\ PoolTimeout <= Longest
  BY PoolAssumption, ClientTimes DEF Longest, NoWait

\* A task that is over waits for nothing and holds nothing.
LEMMA EndInv ==
    ASSUME TasksInv, NEW x \in Tasks, End(x), x \notin calling, UNCHANGED <<clientVars, appVars>>
    PROVE  TasksInv'
  <1> USE DEF End, clientVars, appVars
  <1>1. /\ at' \in [Tasks -> Places] /\ at'[x] = "idle"
        /\ conns' \in [Tasks -> {0, 1}] /\ conns'[x] = 0
        /\ patience' \in [Tasks -> 0..NoWait] /\ ~Waiting(x)'
        /\ \A y \in Tasks : y # x => /\ at'[y] = at[y] /\ conns'[y] = conns[y]
                                     /\ patience'[y] = patience[y]
    BY ProceedMoves DEF TasksInv, Places
  <1>2. kind' \in [Requests -> Kinds] /\ waited' \in [Requests -> 0..(Longest + 1)]
    BY SumsAreNumbers DEF TasksInv, TypesOfTasks, Kinds
  <1>3. left' \in [Tasks -> 0..Commits] /\ reader' \in Tasks \cup {Nobody}
    BY CommitAssumption DEF TasksInv, TypesOfTasks
  <1>4. TypesOfTasks'
    BY <1>1, <1>2, <1>3 DEF TasksInv, TypesOfTasks
  <1>5. Holds(x)'
    BY <1>1, TaskAssumption DEF Holds
  <1>6. x \in Requests => Waits(x)'
    BY <1>1, SumsAreNumbers DEF Waits
  <1>7. /\ \A y \in Tasks : y # x => /\ (y \in calling' => y \in calling)
                                    /\ (reader' = y => reader = y)
        /\ \A r \in Requests : r # x =>
              kind'[r] = kind[r] /\ waited'[r] = waited[r] /\ deadline'[r] = deadline[r]
    BY TaskAssumption
  <1> QED BY <1>1, <1>4, <1>5, <1>6, <1>7, OneMoves

\* The values of a task that is idle.
LEMMA IdleTypes ==
    /\ "idle" \in Places /\ "session" \in Kinds /\ 0 \in {0, 1}
    /\ NoWait \in 0..NoWait /\ 0 \in 0..Commits /\ 0 \in 0..(Longest + 1)
  BY SumsAreNumbers, CommitAssumption DEF Places, Kinds

LEMMA InitIInv == Init => IInv
  <1> SUFFICES ASSUME Init PROVE IInv
    OBVIOUS
  <1>1. TypesOfTasks
    BY IdleTypes DEF Init, TasksInit, TypesOfTasks
  <1>2. \A x \in Tasks : Holds(x)
    BY TaskAssumption DEF Init, TasksInit, ClientInit, Holds, Waiting
  <1>3. \A r \in Requests : Waits(r)
    <2> SUFFICES ASSUME NEW r \in Requests PROVE Waits(r)
      OBVIOUS
    <2>1. at[r] = "idle" /\ kind[r] = "session" /\ waited[r] = 0
      BY DEF Init, TasksInit, Tasks
    <2> QED BY <2>1, SumsAreNumbers DEF Waits
  <1> QED BY <1>1, <1>2, <1>3, ClientInitInv DEF Init, IInv, TasksInv

\* The process has stopped, whatever it was at.
LEMMA StoppedInv ==
    ASSUME Stopped
    PROVE  IInv'
  <1> USE DEF Stopped
  <1>1. TypesOfTasks'
    BY IdleTypes DEF TypesOfTasks
  <1>2. \A x \in Tasks : Holds(x)'
    BY TaskAssumption DEF ClientReset, Holds, Waiting
  <1>3. \A r \in Requests : Waits(r)'
    BY SumsAreNumbers DEF Waits, Waiting, Tasks
  <1> QED BY <1>1, <1>2, <1>3, ClientResetInv DEF IInv, TasksInv

-----------------------------------------------------------------------------
(* What a task does.                                                       *)

\* A task that moves without a wait of its own to account for: it is no GET
\* /quota, or a job.
LEMMA QuietMove ==
    ASSUME IInv, NEW x \in Tasks, x \in Requests => kind[x] # "quota",
           at'[x] \in Places \ {"idle", "ask", "base"}, x \notin calling,
           at' \in [Tasks -> Places], conns' \in [Tasks -> {0, 1}],
           patience' \in [Tasks -> 0..NoWait], left' \in [Tasks -> 0..Commits],
           \A y \in Tasks : y # x => /\ at'[y] = at[y] /\ conns'[y] = conns[y]
                                     /\ patience'[y] = patience[y],
           Waiting(x)' => at'[x] \notin {"saver", "push"} /\ conns'[x] = 0,
           reader' = x => at'[x] = "saver", reader' \in {reader, x},
           UNCHANGED <<clientVars, appVars, kind, waited>>
    PROVE  IInv'
  <1>1. TypesOfTasks'
    BY DEF IInv, TasksInv, TypesOfTasks, appVars
  <1>2. Holds(x)'
    BY DEF Holds, clientVars
  <1>3. x \in Requests => Waits(x)'
    <2> SUFFICES ASSUME x \in Requests PROVE Waits(x)'
      OBVIOUS
    <2>1. waited'[x] = 0 /\ kind'[x] # "quota"
      BY DEF IInv, TasksInv, Waits
    <2>2. IF Waiting(x)' THEN patience'[x] <= PoolTimeout /\ patience'[x] \in Nat ELSE TRUE
      BY SumsAreNumbers DEF Waiting, NoWait
    <2> QED BY <2>1, <2>2, SumsAreNumbers DEF Waits
  <1>4. TasksInv'
    BY <1>1, <1>2, <1>3, OneMoves DEF IInv, clientVars
  <1> QED BY <1>4, SameClient DEF IInv

LEMMA ArriveStep ==
    ASSUME IInv, NEW r \in Requests, NEW k \in Kinds, Arrive(r, k)
    PROVE  IInv'
  <1> USE DEF Arrive
  <1>1. r \in Tasks /\ "auth" \in Places /\ 0 \in {0, 1}
    BY DEF Tasks, Places
  <1>2. /\ at[r] = "idle" /\ conns[r] = 0 /\ waited[r] = 0 /\ r \notin calling /\ reader # r
    BY <1>1 DEF IInv, TasksInv, Holds, Waits
  <1>3. /\ at' \in [Tasks -> Places] /\ at'[r] = "auth"
        /\ conns' \in [Tasks -> {0, 1}] /\ conns'[r] = 0
        /\ patience' \in [Tasks -> 0..NoWait] /\ patience'[r] = PoolTimeout
        /\ \A y \in Tasks : y # r => /\ at'[y] = at[y] /\ conns'[y] = conns[y]
                                     /\ patience'[y] = patience[y]
    BY <1>1, <1>2, QueueMoves DEF IInv, TasksInv
  <1>4. /\ kind' \in [Requests -> Kinds] /\ left' \in [Tasks -> 0..Commits]
        /\ \A q \in Requests : q # r => kind'[q] = kind[q]
    <2>1. 0 \in 0..Commits /\ Commits \in 0..Commits
      BY CommitAssumption
    <2> QED BY <2>1 DEF IInv, TasksInv, TypesOfTasks
  <1>5. TypesOfTasks'
    BY <1>3, <1>4 DEF IInv, TasksInv, TypesOfTasks, appVars
  <1>6. Holds(r)'
    BY <1>2, <1>3 DEF Holds, clientVars
  <1>7. Waits(r)'
    BY <1>2, <1>3, SumsAreNumbers DEF Waits
  <1>8. TasksInv'
    BY <1>1, <1>3, <1>4, <1>5, <1>6, <1>7, OneMoves DEF IInv, clientVars
  <1> QED BY <1>8, SameClient DEF IInv

LEMMA FireStep ==
    ASSUME IInv, NEW j \in Jobs, Fire(j)
    PROVE  IInv'
  <1> USE DEF Fire
  <1>1. j \in Tasks /\ j \notin Requests /\ "work" \in Places
    BY TaskAssumption DEF Tasks, Places
  <1>2. /\ at[j] = "idle" /\ conns[j] = 0 /\ j \notin calling /\ reader # j
    BY <1>1 DEF IInv, TasksInv, Holds
  <1>3. /\ at' \in [Tasks -> Places] /\ at'[j] = "work"
        /\ conns' \in [Tasks -> {0, 1}] /\ conns'[j] = 0
        /\ patience' \in [Tasks -> 0..NoWait]
        /\ \A y \in Tasks : y # j => /\ at'[y] = at[y] /\ conns'[y] = conns[y]
                                     /\ patience'[y] = patience[y]
    BY <1>1, <1>2, QueueMoves DEF IInv, TasksInv
  <1>4. left' \in [Tasks -> 0..Commits]
    <2>1. Commits \in 0..Commits
      BY CommitAssumption
    <2> QED BY <2>1 DEF IInv, TasksInv, TypesOfTasks
  <1> QED BY <1>1, <1>2, <1>3, <1>4, QuietMove

LEMMA ConnectStep ==
    ASSUME IInv, NEW x \in Tasks, Connect(x)
    PROVE  IInv'
  <1> USE DEF Connect
  <1>1. /\ Waiting(x) /\ conns[x] = 0 /\ x \notin calling /\ reader # x
        /\ at[x] \notin {"idle", "ask", "base"}
    BY DEF IInv, TasksInv, Holds
  <1>2. /\ conns' \in [Tasks -> {0, 1}] /\ patience' \in [Tasks -> 0..NoWait]
        /\ ~Waiting(x)'
        /\ \A y \in Tasks : y # x => conns'[y] = conns[y] /\ patience'[y] = patience[y]
    BY <1>1, SumsAreNumbers DEF IInv, TasksInv, TypesOfTasks, Waiting
  <1>3. TypesOfTasks'
    BY <1>2 DEF IInv, TasksInv, TypesOfTasks, appVars
  <1>4. Holds(x)'
    BY <1>1, <1>2 DEF Holds, clientVars
  <1>5. x \in Requests => Waits(x)'
    <2> SUFFICES ASSUME x \in Requests PROVE Waits(x)'
      OBVIOUS
    <2>1. patience[x] \in Nat /\ waited[x] \in Nat
      BY DEF IInv, TasksInv, TypesOfTasks
    <2> QED BY <1>1, <1>2, <2>1, SumsAreNumbers DEF IInv, TasksInv, Waits
  <1>6. TasksInv'
    BY <1>2, <1>3, <1>4, <1>5, OneMoves DEF IInv, clientVars
  <1> QED BY <1>6, SameClient DEF IInv

\* The task is over, with nothing else done.
LEMMA EndStep ==
    ASSUME IInv, NEW x \in Tasks, End(x), x \notin calling, UNCHANGED <<clientVars, appVars>>
    PROVE  IInv'
  BY EndInv, SameClient DEF IInv

LEMMA TimesOutStep ==
    ASSUME IInv, NEW x \in Tasks, TimesOut(x)
    PROVE  IInv'
  <1> USE DEF TimesOut
  <1>1. /\ conns[x] = 0 /\ x \notin calling /\ reader # x
        /\ at[x] \notin {"idle", "ask", "base"}
    BY DEF IInv, TasksInv, Holds
  <1>2. CASE at[x] # "stream"
    BY <1>1, <1>2, EndStep
  <1>3. CASE at[x] = "stream"
    <2>1. "settle" \in Places
      BY DEF Places
    <2>2. /\ at' \in [Tasks -> Places] /\ at'[x] = "settle"
          /\ conns' \in [Tasks -> {0, 1}] /\ conns'[x] = 0
          /\ patience' \in [Tasks -> 0..NoWait]
          /\ \A y \in Tasks : y # x => /\ at'[y] = at[y] /\ conns'[y] = conns[y]
                                       /\ patience'[y] = patience[y]
      BY <1>1, <1>3, <2>1, QueueMoves DEF IInv, TasksInv
    <2>3. x \in Requests => kind[x] # "quota"
      BY <1>3 DEF IInv, TasksInv, Waits
    <2>4. left' \in [Tasks -> 0..Commits] /\ UNCHANGED <<clientVars, appVars, kind, waited, reader>>
      BY <1>3 DEF IInv, TasksInv, TypesOfTasks
    <2> QED BY <1>1, <2>1, <2>2, <2>3, <2>4, QuietMove
  <1> QED BY <1>2, <1>3

LEMMA RespondsStep ==
    ASSUME IInv, NEW x \in Tasks, Responds(x)
    PROVE  IInv'
  <1>1. x \notin calling
    BY DEF Responds, Has, IInv, TasksInv, Holds
  <1> QED BY <1>1, EndStep DEF Responds

LEMMA CommitAndGoOnStep ==
    ASSUME IInv, NEW x \in Tasks, CommitAndGoOn(x)
    PROVE  IInv'
  <1> USE DEF CommitAndGoOn, Has
  <1>1. /\ at[x] \in {"check", "stream", "settle", "work"} /\ at[x] \in Places
        /\ conns[x] = 1 /\ x \notin calling /\ reader # x
        /\ x \in Requests => kind[x] # "quota"
    BY DEF IInv, TasksInv, TypesOfTasks, Holds, Waits
  <1>2. /\ at' \in [Tasks -> Places] /\ at'[x] = at[x]
        /\ conns' \in [Tasks -> {0, 1}] /\ conns'[x] = 0
        /\ patience' \in [Tasks -> 0..NoWait]
        /\ \A y \in Tasks : y # x => /\ at'[y] = at[y] /\ conns'[y] = conns[y]
                                     /\ patience'[y] = patience[y]
    BY <1>1, QueueMoves DEF IInv, TasksInv
  <1>3. left' \in [Tasks -> 0..Commits]
    BY CommitAssumption DEF IInv, TasksInv, TypesOfTasks
  <1> QED BY <1>1, <1>2, <1>3, QuietMove

-----------------------------------------------------------------------------
(* GET /quota.                                                             *)

LEMMA AuthDoneStep ==
    ASSUME IInv, NEW r \in Requests, AuthDone(r)
    PROVE  IInv'
  <1> USE DEF AuthDone, Has
  <1>1. /\ r \in Tasks /\ at[r] = "auth" /\ ~Waiting(r) /\ conns[r] = 1
        /\ r \notin calling /\ reader # r
        /\ waited[r] \in Nat /\ waited[r] <= PoolTimeout
    BY SumsAreNumbers DEF Tasks, IInv, TasksInv, TypesOfTasks, Holds, Waits
  <1>2. {"ask", "check", "thread"} \subseteq Places
    BY DEF Places
  <1>3. CASE kind[r] = "quota"
    <2>1. Proceed(r, "ask", 0)
      BY <1>3
    <2>2. /\ at' \in [Tasks -> Places] /\ at'[r] = "ask"
          /\ conns' \in [Tasks -> {0, 1}] /\ conns'[r] = 0
          /\ patience' \in [Tasks -> 0..NoWait] /\ ~Waiting(r)'
          /\ \A y \in Tasks : y # r => /\ at'[y] = at[y] /\ conns'[y] = conns[y]
                                       /\ patience'[y] = patience[y]
      BY <1>1, <1>2, <2>1, ProceedMoves DEF IInv, TasksInv
    <2>3. TypesOfTasks'
      BY <2>2 DEF IInv, TasksInv, TypesOfTasks, appVars
    <2>4. Holds(r)'
      BY <1>1, <2>2 DEF Holds, clientVars
    <2>5. Waits(r)'
      BY <1>1, <1>3, <2>2, SumsAreNumbers DEF Waits
    <2>6. TasksInv'
      BY <1>1, <2>2, <2>3, <2>4, <2>5, OneMoves DEF IInv, clientVars
    <2> QED BY <2>6, SameClient DEF IInv
  <1>4. CASE kind[r] # "quota"
    <2>1. \E place \in {"check", "thread"} : Queue(r, place, 1)
      BY <1>4
    <2>2. PICK place \in {"check", "thread"} : Queue(r, place, 1)
      BY <2>1
    <2>3. /\ at' \in [Tasks -> Places] /\ at'[r] = place
          /\ conns' \in [Tasks -> {0, 1}] /\ conns'[r] = 0
          /\ patience' \in [Tasks -> 0..NoWait]
          /\ \A y \in Tasks : y # r => /\ at'[y] = at[y] /\ conns'[y] = conns[y]
                                       /\ patience'[y] = patience[y]
      BY <1>1, <1>2, <2>2, QueueMoves DEF IInv, TasksInv
    <2>4. left' \in [Tasks -> 0..Commits]
      BY DEF IInv, TasksInv, TypesOfTasks
    <2> QED BY <1>1, <1>2, <1>4, <2>3, <2>4, QuietMove
  <1> QED BY <1>3, <1>4

\* The base service is asked: what is left of its time is one timeout.
LEMMA AskBaseStep ==
    ASSUME IInv, NEW r \in Requests, AskBase(r)
    PROVE  IInv'
  <1> USE DEF AskBase
  <1>1. /\ r \in Tasks /\ at[r] = "ask" /\ conns[r] = 0 /\ reader # r
        /\ waited[r] \in Nat /\ waited[r] <= PoolTimeout /\ "base" \in Places
    BY DEF Tasks, IInv, TasksInv, TypesOfTasks, Holds, Waits, Places
  <1>2. /\ at' \in [Tasks -> Places] /\ at'[r] = "base"
        /\ conns' \in [Tasks -> {0, 1}] /\ conns'[r] = 0
        /\ patience' \in [Tasks -> 0..NoWait] /\ ~Waiting(r)'
        /\ \A y \in Tasks : y # r => /\ at'[y] = at[y] /\ conns'[y] = conns[y]
                                     /\ patience'[y] = patience[y]
    BY <1>1, ProceedMoves DEF IInv, TasksInv
  <1>3. /\ calling' = calling \cup {r} /\ deadline'[r] = GrpcTimeout
        /\ \A q \in Requests : q # r => deadline'[q] = deadline[q]
    BY DEF Call, Dial, IInv, ClientInv, ClientTypeOK
  <1>4. TypesOfTasks'
    BY <1>2 DEF IInv, TasksInv, TypesOfTasks, appVars
  <1>5. Holds(r)'
    BY <1>1, <1>2 DEF Holds
  <1>6. Waits(r)'
    BY <1>1, <1>2, <1>3, SumsAreNumbers DEF Waits, IInv, TasksInv
  <1>7. TasksInv'
    BY <1>1, <1>2, <1>3, <1>4, <1>5, <1>6, OneMoves DEF IInv
  <1> QED BY <1>7, CallInv DEF IInv

\* It goes on to its sums, for which it waits once more.
LEMMA ReturnsInv ==
    ASSUME IInv, NEW r \in Requests, at[r] \in {"ask", "base"}, Returns(r), UNCHANGED appVars,
           calling' \subseteq calling, r \notin calling',
           \A q \in Requests : q # r => deadline'[q] = deadline[q]
    PROVE  TasksInv'
  <1> USE DEF Returns
  <1>1. /\ r \in Tasks /\ conns[r] = 0 /\ reader # r /\ "query" \in Places
        /\ waited[r] \in Nat
    BY DEF Tasks, IInv, TasksInv, TypesOfTasks, Holds, Places
  <1>2. waited[r] <= PoolTimeout + GrpcTimeout
    <2>1. deadline[r] \in Nat
      BY ClientTimes DEF IInv, ClientInv, ClientTypeOK
    <2> QED BY <1>1, <2>1, SumsAreNumbers DEF IInv, TasksInv, Waits
  <1>3. /\ at' \in [Tasks -> Places] /\ at'[r] = "query"
        /\ conns' \in [Tasks -> {0, 1}] /\ conns'[r] = 0
        /\ patience' \in [Tasks -> 0..NoWait] /\ patience'[r] = PoolTimeout
        /\ \A y \in Tasks : y # r => /\ at'[y] = at[y] /\ conns'[y] = conns[y]
                                     /\ patience'[y] = patience[y]
    BY <1>1, QueueMoves DEF IInv, TasksInv
  <1>4. TypesOfTasks'
    BY <1>3 DEF IInv, TasksInv, TypesOfTasks, appVars
  <1>5. Holds(r)'
    BY <1>1, <1>3 DEF Holds
  <1>6. Waits(r)'
    BY <1>1, <1>2, <1>3, SumsAreNumbers DEF Waits, IInv, TasksInv
  <1> QED BY <1>1, <1>3, <1>4, <1>5, <1>6, OneMoves DEF IInv

LEMMA SkipBaseStep ==
    ASSUME IInv, NEW r \in Requests, SkipBase(r)
    PROVE  IInv'
  <1>1. r \notin calling
    BY DEF SkipBase, IInv, TasksInv, Holds, Tasks
  <1>2. TasksInv'
    BY <1>1, ReturnsInv DEF SkipBase, Returns, clientVars
  <1> QED BY <1>2, SameClient DEF SkipBase, IInv

LEMMA HangUpCalls ==
    ASSUME ClientTypeOK, NEW r \in Requests, HangUp(r)
    PROVE  /\ calling' \subseteq calling /\ r \notin calling'
           /\ \A q \in Requests : q # r => deadline'[q] = deadline[q]
  BY DEF HangUp, ClientTypeOK

LEMMA BaseAnswersStep ==
    ASSUME IInv, NEW r \in Requests, BaseAnswers(r)
    PROVE  IInv'
  <1>1. at[r] = "base" /\ Answered(r) /\ Returns(r) /\ UNCHANGED appVars
    BY DEF BaseAnswers, Returns
  <1>2. TasksInv'
    BY <1>1, HangUpCalls, ReturnsInv DEF Answered, IInv, ClientInv
  <1> QED BY <1>1, <1>2, AnsweredInv DEF IInv

LEMMA BaseFailsStep ==
    ASSUME IInv, NEW r \in Requests, BaseUnavailable(r) \/ DeadlineExceeded(r)
    PROVE  IInv'
  <1>1. at[r] = "base" /\ Failed(r) /\ Returns(r) /\ UNCHANGED appVars
    BY DEF BaseUnavailable, DeadlineExceeded, Returns
  <1>2. TasksInv'
    BY <1>1, HangUpCalls, ReturnsInv DEF Failed, IInv, ClientInv
  <1> QED BY <1>1, <1>2, FailedInv DEF IInv

-----------------------------------------------------------------------------
(* The checkpointer, streams and jobs.                                     *)

LEMMA ThreadFoundStep ==
    ASSUME IInv, NEW r \in Requests, ThreadFound(r)
    PROVE  IInv'
  <1> USE DEF ThreadFound, Has
  <1>1. /\ r \in Tasks /\ at[r] = "thread" /\ conns[r] \in {0, 1} /\ r \notin calling
        /\ reader # r /\ "saver" \in Places
    BY DEF Tasks, IInv, TasksInv, TypesOfTasks, Holds, Places
  <1>2. /\ at' \in [Tasks -> Places] /\ at'[r] = "saver"
        /\ conns' \in [Tasks -> {0, 1}]
        /\ patience' \in [Tasks -> 0..NoWait] /\ ~Waiting(r)'
        /\ \A y \in Tasks : y # r => /\ at'[y] = at[y] /\ conns'[y] = conns[y]
                                     /\ patience'[y] = patience[y]
    BY <1>1, ProceedMoves DEF IInv, TasksInv
  <1>3. left' \in [Tasks -> 0..Commits]
    BY DEF IInv, TasksInv, TypesOfTasks
  <1> QED BY <1>1, <1>2, <1>3, QuietMove

LEMMA TakeSaverStep ==
    ASSUME IInv, NEW r \in Requests, TakeSaver(r)
    PROVE  IInv'
  <1> USE DEF TakeSaver
  <1>1. /\ r \in Tasks /\ at[r] = "saver" /\ r \notin calling /\ kind[r] # "quota"
        /\ ~Waiting(r) /\ "saver" \in Places
    BY DEF Tasks, IInv, TasksInv, Holds, Waits, Places
  <1>2. TypesOfTasks
    BY DEF IInv, TasksInv
  <1> QED BY <1>1, <1>2, QuietMove DEF TypesOfTasks, Waiting

LEMMA SaverDoneStep ==
    ASSUME IInv, NEW r \in Requests, SaverDone(r)
    PROVE  IInv'
  <1>1. r \in Tasks /\ r \notin calling
    BY DEF SaverDone, Tasks, IInv, TasksInv, Holds
  <1> QED BY <1>1, EndStep DEF SaverDone

LEMMA StartStreamStep ==
    ASSUME IInv, NEW r \in Requests, StartStream(r)
    PROVE  IInv'
  <1> USE DEF StartStream, Has
  <1>1. /\ r \in Tasks /\ at[r] = "check" /\ conns[r] = 1 /\ r \notin calling
        /\ reader # r /\ kind[r] # "quota" /\ "stream" \in Places
    BY DEF Tasks, IInv, TasksInv, TypesOfTasks, Holds, Waits, Places
  <1>2. /\ at' \in [Tasks -> Places] /\ at'[r] = "stream"
        /\ conns' \in [Tasks -> {0, 1}] /\ (Waiting(r)' => conns'[r] = 0)
        /\ patience' \in [Tasks -> 0..NoWait]
        /\ \A y \in Tasks : y # r => /\ at'[y] = at[y] /\ conns'[y] = conns[y]
                                     /\ patience'[y] = patience[y]
    BY <1>1, ProceedMoves, QueueMoves DEF IInv, TasksInv
  <1>3. left' \in [Tasks -> 0..Commits]
    BY DEF IInv, TasksInv, TypesOfTasks
  <1> QED BY <1>1, <1>2, <1>3, QuietMove

LEMMA StreamRaisesStep ==
    ASSUME IInv, NEW r \in Requests, StreamRaises(r)
    PROVE  IInv'
  <1> USE DEF StreamRaises, Has
  <1>1. /\ r \in Tasks /\ at[r] = "stream" /\ r \notin calling
        /\ reader # r /\ kind[r] # "quota" /\ "settle" \in Places
    BY DEF Tasks, IInv, TasksInv, Holds, Waits, Places
  <1>2. /\ at' \in [Tasks -> Places] /\ at'[r] = "settle"
        /\ conns' \in [Tasks -> {0, 1}] /\ ~Waiting(r)'
        /\ patience' \in [Tasks -> 0..NoWait]
        /\ \A y \in Tasks : y # r => /\ at'[y] = at[y] /\ conns'[y] = conns[y]
                                     /\ patience'[y] = patience[y]
    BY <1>1, ProceedMoves DEF IInv, TasksInv
  <1>3. left' \in [Tasks -> 0..Commits]
    BY DEF IInv, TasksInv, TypesOfTasks
  <1> QED BY <1>1, <1>2, <1>3, QuietMove

LEMMA DisconnectStep ==
    ASSUME IInv, NEW r \in Requests, Disconnect(r)
    PROVE  IInv'
  <1>1. r \in Tasks /\ r \notin calling
    BY DEF Disconnect, Tasks, IInv, TasksInv, Holds
  <1> QED BY <1>1, EndStep DEF Disconnect

LEMMA PushStartsStep ==
    ASSUME IInv, NEW j \in Jobs, PushStarts(j)
    PROVE  IInv'
  <1> USE DEF PushStarts, Has
  <1>1. /\ j \in Tasks /\ j \notin Requests /\ at[j] = "work" /\ j \notin calling
        /\ reader # j /\ "push" \in Places
    BY TaskAssumption DEF Tasks, IInv, TasksInv, Holds, Places
  <1>2. /\ at' \in [Tasks -> Places] /\ at'[j] = "push"
        /\ conns' \in [Tasks -> {0, 1}] /\ ~Waiting(j)'
        /\ patience' \in [Tasks -> 0..NoWait]
        /\ \A y \in Tasks : y # j => /\ at'[y] = at[y] /\ conns'[y] = conns[y]
                                     /\ patience'[y] = patience[y]
    BY <1>1, ProceedMoves DEF IInv, TasksInv
  <1>3. left' \in [Tasks -> 0..Commits]
    <2>1. left[j] \in 0..Commits /\ left[j] - 1 \in 0..Commits
      BY <1>1, CommitAssumption DEF IInv, TasksInv, TypesOfTasks
    <2> QED BY <2>1 DEF IInv, TasksInv, TypesOfTasks
  <1> QED BY <1>1, <1>2, <1>3, QuietMove

LEMMA PushEndsStep ==
    ASSUME IInv, NEW j \in Jobs, PushEnds(j)
    PROVE  IInv'
  <1> USE DEF PushEnds
  <1>1. /\ j \in Tasks /\ j \notin Requests /\ at[j] = "push" /\ j \notin calling
        /\ reader # j /\ "work" \in Places /\ conns[j] \in {0, 1}
    BY TaskAssumption DEF Tasks, IInv, TasksInv, TypesOfTasks, Holds, Places
  <1>2. CASE End(j)
    BY <1>1, <1>2, EndStep
  <1>3. CASE /\ IF conns[j] = 0 THEN Queue(j, "work", 0) ELSE Proceed(j, "work", 1)
             /\ UNCHANGED <<kind, left, reader, waited>>
    <2>1. /\ at' \in [Tasks -> Places] /\ at'[j] = "work"
          /\ conns' \in [Tasks -> {0, 1}] /\ (Waiting(j)' => conns'[j] = 0)
          /\ patience' \in [Tasks -> 0..NoWait]
          /\ \A y \in Tasks : y # j => /\ at'[y] = at[y] /\ conns'[y] = conns[y]
                                       /\ patience'[y] = patience[y]
      BY <1>1, <1>3, ProceedMoves, QueueMoves DEF IInv, TasksInv
    <2>2. left' \in [Tasks -> 0..Commits]
      BY <1>3 DEF IInv, TasksInv, TypesOfTasks
    <2> QED BY <1>1, <1>3, <2>1, <2>2, QuietMove
  <1> QED BY <1>2, <1>3

-----------------------------------------------------------------------------
(* The process and its clock.                                              *)

LEMMA PhaseStep ==
    ASSUME IInv, Startup \/ Sigterm
    PROVE  IInv'
  <1>1. UNCHANGED <<clientVars, at, kind, conns, patience, left, reader, waited>>
    BY DEF Startup, Sigterm, taskVars
  <1>2. TypesOfTasks'
    BY <1>1 DEF Startup, Sigterm, IInv, TasksInv, TypesOfTasks
  <1>3. /\ \A x \in Tasks : Holds(x)'
        /\ \A r \in Requests : Waits(r)'
    BY <1>1 DEF IInv, TasksInv, Holds, Waits, Waiting, clientVars
  <1> QED BY <1>1, <1>2, <1>3, SameClient DEF IInv, TasksInv

\* Whatever a tick adds to a wait it takes from what is left of it.
LEMMA TickStep ==
    ASSUME IInv, Tick
    PROVE  IInv'
  <1> USE DEF Tick
  <1>1. /\ ClientInv' /\ calling' = calling
        /\ \A r \in calling : deadline[r] > 0 /\ deadline'[r] = deadline[r] - 1
        /\ \A r \in Requests : r \notin calling => deadline'[r] = 0
        /\ \A r \in Requests : deadline[r] \in Nat
    BY ElapsesInv, ClientTimes DEF IInv, Elapses, ClientInv, ClientTypeOK
  <1>2. TypesOfTasks
    BY DEF IInv, TasksInv
  <1>3. \A x \in Tasks :
          /\ patience[x] \in 1..NoWait /\ patience'[x] \in 0..NoWait
          /\ Waiting(x)' <=> Waiting(x)
          /\ Waiting(x) => patience'[x] = patience[x] - 1
    BY <1>2, SumsAreNumbers DEF TypesOfTasks, Waiting
  <1>4. \A r \in Requests : waited[r] \in Nat /\ waited[r] <= Longest
    BY <1>2, SumsAreNumbers DEF TypesOfTasks, IInv, TasksInv, Waits
  <1>5. \A r \in Requests :
          waited'[r] = IF kind[r] = "quota" /\ (Waiting(r) \/ r \in calling)
                       THEN waited[r] + 1 ELSE waited[r]
    BY <1>4
  <1>6. TypesOfTasks'
    <2>1. patience' \in [Tasks -> 0..NoWait]
      BY <1>3
    <2>2. waited' \in [Requests -> 0..(Longest + 1)]
      BY <1>4, SumsAreNumbers
    <2> QED BY <1>2, <2>1, <2>2 DEF TypesOfTasks, appVars
  <1>7. ASSUME NEW x \in Tasks
        PROVE  Holds(x)'
    BY <1>1, <1>3 DEF IInv, TasksInv, Holds
  <1>8. ASSUME NEW r \in Requests
        PROVE  Waits(r)'
    <2>1. r \in Tasks /\ Holds(r) /\ Waits(r)
      BY DEF Tasks, IInv, TasksInv
    <2>2. CASE kind[r] = "quota" /\ (Waiting(r) \/ r \in calling)
      <3>1. waited'[r] = waited[r] + 1
        BY <1>5, <2>2
      <3>2. CASE Waiting(r)
        <4>1. /\ at[r] \in {"auth", "query"} /\ patience[r] \in Nat
              /\ patience'[r] = patience[r] - 1 /\ Waiting(r)'
          BY <1>3, <2>1, <2>2, <3>2 DEF Holds, Waits
        <4>2. waited'[r] + patience'[r] = waited[r] + patience[r] /\ patience'[r] >= 0
          BY <1>3, <1>4, <2>1, <3>1, <4>1
        <4> QED BY <1>3, <1>4, <2>1, <2>2, <3>1, <3>2, <4>1, <4>2, SumsAreNumbers DEF Waits
      <3>3. CASE r \in calling
        <4>1. at[r] = "base" /\ waited'[r] + deadline'[r] = waited[r] + deadline[r]
              /\ deadline'[r] >= 0
          BY <1>1, <1>4, <2>1, <3>1, <3>3 DEF Holds
        <4> QED BY <1>1, <1>4, <2>1, <2>2, <3>1, <4>1, SumsAreNumbers DEF Waits
      <3> QED BY <2>2, <3>2, <3>3
    <2>3. CASE ~(kind[r] = "quota" /\ (Waiting(r) \/ r \in calling))
      <3>1. waited'[r] = waited[r]
        BY <1>5, <2>3
      <3>2. deadline'[r] <= deadline[r] /\ deadline'[r] \in Nat
        BY <1>1
      <3>3. CASE kind[r] # "quota"
        <4>1. Waiting(r) => patience[r] <= PoolTimeout /\ patience'[r] <= PoolTimeout
          BY <1>3, <2>1, SumsAreNumbers DEF Waiting, NoWait
        <4> QED BY <1>1, <1>3, <1>4, <2>1, <3>1, <3>2, <3>3, <4>1, SumsAreNumbers DEF Waits
      <3>4. CASE kind[r] = "quota" /\ ~Waiting(r)
        BY <1>1, <1>3, <1>4, <2>1, <3>1, <3>2, <3>4, SumsAreNumbers DEF Waits
      <3> QED BY <2>3, <3>3, <3>4
    <2> QED BY <2>2, <2>3
  <1> QED BY <1>1, <1>6, <1>7, <1>8 DEF IInv, TasksInv

LEMMA StutterStep ==
    ASSUME IInv, UNCHANGED vars
    PROVE  IInv'
  <1>1. UNCHANGED <<clientVars, appVars, at, kind, conns, patience, left, reader, waited>>
    BY DEF vars, taskVars
  <1>2. TypesOfTasks'
    BY <1>1 DEF appVars, IInv, TasksInv, TypesOfTasks
  <1>3. /\ \A x \in Tasks : Holds(x)'
        /\ \A r \in Requests : Waits(r)'
    BY <1>1 DEF IInv, TasksInv, Holds, Waits, Waiting, clientVars
  <1> QED BY <1>1, <1>2, <1>3, SameClient DEF IInv, TasksInv

LEMMA StepIInv ==
    ASSUME IInv, NEW x \in Tasks, Step(x)
    PROVE  IInv'
  BY TimesOutStep, RespondsStep, CommitAndGoOnStep, AuthDoneStep, AskBaseStep, SkipBaseStep,
     BaseFailsStep, ThreadFoundStep, SaverDoneStep, StartStreamStep, StreamRaisesStep,
     PushStartsStep, PushEndsStep DEF Step

LEMMA EnvironmentIInv ==
    ASSUME IInv, Environment
    PROVE  IInv'
  BY BaseAnswersStep, BaseFailsStep, DisconnectStep, ArriveStep, FireStep, PhaseStep, StoppedInv
     DEF Environment, Crash

LEMMA NextIInv == IInv /\ [Next]_vars => IInv'
  BY StepIInv, ConnectStep, TakeSaverStep, TickStep, StoppedInv, EnvironmentIInv, StutterStep
     DEF Next, Shutdown

-----------------------------------------------------------------------------
\* Types of the client's, the tasks' and the process's state.
THEOREM TypeCorrect == Spec => []TypeOK
  <1>1. IInv => TypeOK
    BY DEF IInv, ClientInv, TasksInv, TypesOfTasks, TypeOK
  <1> QED BY <1>1, InitIInv, NextIInv, PTL DEF Spec

\* user_client.py:30-31: for any timeout and cooldown and any calls that were
\* under way, the circuit is never open for longer than both together.
THEOREM OpenAtMostCorrect == Spec => []OpenAtMost
  <1>1. IInv => OpenAtMost
    BY DEF IInv, ClientInv
  <1> QED BY <1>1, InitIInv, NextIInv, PTL DEF Spec

\* database.py:40, quota.py:28: whatever the size of the pool and whoever is
\* under way, nobody who waits holds what another waits for.
THEOREM HoldersMoveCorrect == Spec => []HoldersMove
  <1>1. IInv => HoldersMove
    <2> SUFFICES ASSUME IInv PROVE HoldersMove
      OBVIOUS
    <2>1. \A x \in Tasks : Holds(x)
      BY DEF IInv, TasksInv
    <2>2. \A x \in Tasks : Waiting(x) \/ x \in calling => conns[x] = 0
      BY <2>1 DEF Holds
    <2>3. reader # Nobody => reader \in Tasks
      BY DEF IInv, TasksInv, TypesOfTasks
    <2>4. reader # Nobody => ~Waiting(reader) /\ reader \notin calling
      BY <2>1, <2>3 DEF Holds
    <2> QED BY <2>2, <2>4 DEF HoldersMove
  <1> QED BY <1>1, InitIInv, NextIInv, PTL DEF Spec

\* quota.py:20-53: whatever others hold and however often the base service has
\* failed, GET /quota waits for its two sessions and for one call at most.
THEOREM QuotaInTimeCorrect == Spec => []QuotaInTime
  <1>1. IInv => QuotaInTime
    BY DEF IInv, TasksInv, Waits, QuotaInTime
  <1> QED BY <1>1, InitIInv, NextIInv, PTL DEF Spec
=============================================================================
