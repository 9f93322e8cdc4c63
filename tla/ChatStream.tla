----------------------------- MODULE ChatStream -----------------------------
(***************************************************************************)
(* The chat path of the API: POST /chat, POST /agents/{name}/chat and      *)
(* POST /chat/{thread_id}/resume, the generator _stream_agent they hand to *)
(* StreamingResponse, the repositories it awaits, and what runs beside it: *)
(* other requests on the same thread, DELETE /sessions/{id}, the quota     *)
(* reset jobs, client disconnects, a crash of the process, a database that *)
(* fails.  One run is one request.  Every await of the code is a point     *)
(* where the others may step in, so each stretch of code between two       *)
(* awaits or yields is one action.                                         *)
(*                                                                         *)
(* The database is MySQL at REPEATABLE READ: the first SELECT of a         *)
(* transaction fixes what the later ones see, and commit ends it.  Because *)
(* record_usage and update_status refresh() after they commit, a stream    *)
(* is nearly always inside a transaction that an earlier step opened: snap *)
(* is the thread's status as that transaction sees it.                     *)
(***************************************************************************)
EXTENDS Naturals, FiniteSets

CONSTANTS
    Users,
    Threads,        \* ids the threads table may ever hold
    Runs,           \* requests that start or resume a run; each is made once
    Caller,         \* the user who makes each request
    Agents,         \* agent names a request may carry
    KnownAgents,    \* those the agent registry has a class for
    Limit,          \* token limit of each period
    MaxNodes,       \* bound: chunks an agent streams before it stops
    Faults,         \* the faults that happen: "disconnect", "crash", "db"
    NoThread        \* a run that has no thread yet

Period == <<"daily", "weekly", "monthly">>
Periods == {"daily", "weekly", "monthly"}

ASSUME CallerAssumption == Caller \in [Runs -> Users] /\ Users # {}
ASSUME AgentAssumption == KnownAgents \subseteq Agents /\ KnownAgents # {}
ASSUME LimitAssumption == Limit \in [Periods -> Nat]
ASSUME NodesAssumption == MaxNodes \in Nat
ASSUME ThreadAssumption == NoThread \notin Threads

VARIABLES
    status,     \* status[t]: threads.status, "none" before, "deleted" after
    owner,      \* owner[t]: threads.user_id
    agentName,  \* agentName[t]: threads.agent_name
    usage,      \* rows of token_usage as <<run, period>>, one token each
    pausedAt,   \* history: nodes completed when thread t last paused
    run         \* run[r]: the local state of request r

vars == <<status, owner, agentName, usage, pausedAt, run>>

Final == {"awaiting_approval", "completed", "error"}
Live == {"active", "running"} \cup Final
Status == Live \cup {"none", "deleted"}
NoTxn == "no_transaction"

(***************************************************************************)
(* pc of a run: idle, not sent yet; create and created, inside             *)
(* thread_repo.create; open, the response was returned and the generator   *)
(* has not started; get, commit and refresh, the three awaits of           *)
(* update_status; stream, waiting for a chunk; record and recorded, the    *)
(* two awaits of record_usage; done and fail, about to yield that event;   *)
(* closed, over.                                                           *)
(***************************************************************************)
Handler == {"create", "created"}
Update == {"get", "commit", "refresh"}
Streaming == Update \cup {"open", "stream", "record", "recorded", "done", "fail"}
PC == Handler \cup Streaming \cup {"idle", "closed"}

Target == {"running"} \cup Final
Snapshot == Status \cup {NoTxn}
Events == {"awaiting_approval", "done", "error"}

Run == [pc : PC,
        thread : Threads \cup {NoThread},
        kind : {"chat", "resume"},
        agent : Agents,
        target : Target,            \* what update_status writes
        period : 1..4,              \* the next period to record
        snap : Snapshot,
        poisoned : BOOLEAN,         \* the session needs a rollback first
        node : 0..MaxNodes,         \* node_complete events sent
        sent : SUBSET Events,
        billed : SUBSET Periods,    \* history: usage rows committed
        wrote : SUBSET Final,       \* history: final statuses written
        failed : BOOLEAN,           \* history: the database failed it
        lost : BOOLEAN]             \* history: ended by a fault

TypeOK ==
    /\ status \in [Threads -> Status]
    /\ owner \in [Threads -> Users]
    /\ agentName \in [Threads -> Agents]
    /\ usage \subseteq Runs \X Periods
    /\ pausedAt \in [Threads -> 0..MaxNodes]
    /\ run \in [Runs -> Run]

NewRun == [pc |-> "idle", thread |-> NoThread, kind |-> "chat",
           agent |-> CHOOSE a \in KnownAgents : TRUE,
           target |-> "running", period |-> 1, snap |-> NoTxn,
           poisoned |-> FALSE, node |-> 0, sent |-> {}, billed |-> {}, wrote |-> {},
           failed |-> FALSE, lost |-> FALSE]

Init ==
    /\ status = [t \in Threads |-> "none"]
    /\ owner = [t \in Threads |-> CHOOSE u \in Users : TRUE]
    /\ agentName = [t \in Threads |-> CHOOSE a \in KnownAgents : TRUE]
    /\ usage = {}
    /\ pausedAt = [t \in Threads |-> 0]
    /\ run = [r \in Runs |-> NewRun]

-----------------------------------------------------------------------------
(* The request handlers.                                                   *)

Total(u, p) == Cardinality({row \in usage : row[2] = p /\ Caller[row[1]] = u})

\* QuotaRepository.check_limit with a message of one token.
WithinLimit(u) == \A p \in Periods : Total(u, p) + 1 <= Limit[p]

Owns(r, t) == status[t] \in Live /\ owner[t] = Caller[r]

\* POST /chat on an existing thread: the thread's status is not looked at,
\* and the agent is the request's.  One transaction reads quota and thread.
Chat(r, t, a) ==
    /\ run[r].pc = "idle"
    /\ WithinLimit(Caller[r])
    /\ Owns(r, t)
    /\ run' = [run EXCEPT ![r].pc = "open", ![r].thread = t,
                          ![r].agent = a, ![r].snap = status[t]]
    /\ UNCHANGED <<status, owner, agentName, usage, pausedAt>>

\* POST /chat without a thread id: on to thread_repo.create.
ChatNewThread(r, a) ==
    /\ run[r].pc = "idle"
    /\ WithinLimit(Caller[r])
    /\ run' = [run EXCEPT ![r].pc = "create", ![r].agent = a]
    /\ UNCHANGED <<status, owner, agentName, usage, pausedAt>>

\* 429, or 404 for a thread that is gone or somebody else's.
ChatRefused(r) ==
    /\ run[r].pc = "idle"
    /\ \/ ~WithinLimit(Caller[r])
       \/ \E t \in Threads : ~Owns(r, t)
    /\ run' = [run EXCEPT ![r].pc = "closed"]
    /\ UNCHANGED <<status, owner, agentName, usage, pausedAt>>

InsertThread(r, t) ==
    /\ status[t] = "none"
    /\ status' = [status EXCEPT ![t] = "active"]
    /\ owner' = [owner EXCEPT ![t] = Caller[r]]
    /\ agentName' = [agentName EXCEPT ![t] = run[r].agent]
    /\ UNCHANGED <<usage, pausedAt>>

CreateCommit(r, t) ==
    /\ run[r].pc = "create"
    /\ InsertThread(r, t)
    /\ run' = [run EXCEPT ![r].pc = "created", ![r].thread = t]

\* refresh() of a row deleted meanwhile raises: a 500.
CreateRefresh(r) ==
    /\ run[r].pc = "created"
    /\ run' = [run EXCEPT
                 ![r].pc = IF status[run[r].thread] \in Live THEN "open" ELSE "closed",
                 ![r].snap = status[run[r].thread]]
    /\ UNCHANGED <<status, owner, agentName, usage, pausedAt>>

\* POST /chat/{thread_id}/resume: no quota check, the thread's stored agent,
\* and the status is left as it is until the stream starts.
ResumeChat(r, t) ==
    /\ run[r].pc = "idle"
    /\ Owns(r, t)
    /\ status[t] = "awaiting_approval"
    /\ run' = [run EXCEPT ![r].pc = "open", ![r].thread = t,
                          ![r].kind = "resume", ![r].agent = agentName[t],
                          ![r].snap = status[t]]
    /\ UNCHANGED <<status, owner, agentName, usage, pausedAt>>

\* 404 or 400.
ResumeRefused(r) ==
    /\ run[r].pc = "idle"
    /\ \E t \in Threads : ~Owns(r, t) \/ status[t] # "awaiting_approval"
    /\ run' = [run EXCEPT ![r].pc = "closed", ![r].kind = "resume"]
    /\ UNCHANGED <<status, owner, agentName, usage, pausedAt>>

-----------------------------------------------------------------------------
(* _stream_agent.                                                          *)

\* The generator starts, with the handler's transaction still open or, when
\* FastAPI closed the session with the request's dependencies, without.
\* An agent the registry does not know: an error event, no status.
StartStream(r) ==
    /\ run[r].pc = "open"
    /\ \E s \in {run[r].snap, NoTxn} :
         run' = IF run[r].agent \in KnownAgents
                THEN [run EXCEPT ![r].pc = "get", ![r].snap = s]
                ELSE [run EXCEPT ![r].pc = "closed", ![r].snap = s,
                                 ![r].sent = @ \cup {"error"}]
    /\ UNCHANGED <<status, owner, agentName, usage, pausedAt>>

\* Variant for the checks: the except branch catches its own exceptions.
RaisedRetry(r, poison) ==
    [run[r] EXCEPT !.pc = "fail", !.poisoned = poison]

\* An exception: inside try it goes to the except branch; inside that
\* branch's own update_status it leaves the generator.
Raised(r, poison) ==
    LET inExcept == run[r].pc \in Update /\ run[r].target = "error"
    IN  [run[r] EXCEPT !.pc = IF inExcept THEN "closed" ELSE "fail",
                       !.lost = inExcept,
                       !.poisoned = poison]

\* Variant: the return after the awaiting_approval update is missing.
ReturnedNoReturn(rec) ==
    [rec EXCEPT !.pc = IF rec.target \in {"running", "awaiting_approval"}
                       THEN "stream" ELSE "closed"]

\* update_status returned.
Returned(rec) ==
    [rec EXCEPT !.pc = IF rec.target = "running" THEN "stream" ELSE "closed"]

\* get(): from the open transaction's snapshot, or a new one.  A session
\* whose flush failed refuses to execute anything.
UpdateGet(r) ==
    LET seen == IF run[r].snap = NoTxn THEN status[run[r].thread] ELSE run[r].snap
        rec == [run[r] EXCEPT !.snap = seen]
    IN  /\ run[r].pc = "get"
        /\ run' = [run EXCEPT ![r] =
                     IF run[r].poisoned THEN Raised(r, TRUE)
                     ELSE IF seen \in Live THEN [rec EXCEPT !.pc = "commit"]
                     ELSE Returned(rec)]
        /\ UNCHANGED <<status, owner, agentName, usage, pausedAt>>

\* Variant: an upsert instead of an UPDATE.
UpdateCommitUpsert(r) ==
    /\ run[r].pc = "commit"
    /\ status' = [status EXCEPT ![run[r].thread] = run[r].target]
    /\ run' = [run EXCEPT ![r].pc = "refresh", ![r].snap = NoTxn,
                          ![r].wrote = @ \cup ({run[r].target} \cap Final)]
    /\ UNCHANGED <<owner, agentName, usage, pausedAt>>

\* Assign and commit.  No UPDATE is sent when the row was read with the same
\* status; one that matches no row raises StaleDataError in the flush.
UpdateCommit(r) ==
    LET t == run[r].thread
        s == run[r].target
        dirty == run[r].snap # s
    IN  /\ run[r].pc = "commit"
        /\ IF dirty /\ status[t] \notin Live
           THEN /\ run' = [run EXCEPT ![r] = Raised(r, TRUE)]
                /\ UNCHANGED <<status, pausedAt>>
           ELSE /\ status' = [status EXCEPT ![t] = IF dirty THEN s ELSE @]
                /\ pausedAt' = [pausedAt EXCEPT ![t] =
                                  IF s = "awaiting_approval" THEN run[r].node ELSE @]
                /\ run' = [run EXCEPT ![r].pc = "refresh", ![r].snap = NoTxn,
                             ![r].wrote = IF dirty /\ s \in Final
                                          THEN @ \cup {s} ELSE @]
        /\ UNCHANGED <<owner, agentName, usage>>

\* refresh(): opens the next transaction; raises when the row is gone.
UpdateRefresh(r) ==
    LET s == status[run[r].thread]
    IN  /\ run[r].pc = "refresh"
        /\ run' = [run EXCEPT ![r] =
                     IF s \in Live THEN Returned([run[r] EXCEPT !.snap = s])
                     ELSE [Raised(r, FALSE) EXCEPT !.snap = s]]
        /\ UNCHANGED <<status, owner, agentName, usage, pausedAt>>

\* A chunk of a node: a node_complete event.
AgentOutput(r) ==
    /\ run[r].pc = "stream"
    /\ run[r].node < MaxNodes
    /\ run' = [run EXCEPT ![r].node = @ + 1]
    /\ UNCHANGED <<status, owner, agentName, usage, pausedAt>>

\* Variants: a status of another name; the status without the event; the
\* event without the status.
AgentHitlTypo(r) ==
    /\ run[r].pc = "stream"
    /\ run' = [run EXCEPT ![r].pc = "get", ![r].target = "paused",
                          ![r].sent = @ \cup {"awaiting_approval"}]
    /\ UNCHANGED <<status, owner, agentName, usage, pausedAt>>

AgentHitlStatusFirst(r) ==
    /\ run[r].pc = "stream"
    /\ run' = [run EXCEPT ![r].pc = "get", ![r].target = "awaiting_approval"]
    /\ UNCHANGED <<status, owner, agentName, usage, pausedAt>>

AgentHitlEventOnly(r) ==
    /\ run[r].pc = "stream"
    /\ run' = [run EXCEPT ![r].pc = "closed", ![r].sent = @ \cup {"awaiting_approval"}]
    /\ UNCHANGED <<status, owner, agentName, usage, pausedAt>>

\* A chunk with hitl_required: the event is sent, then the status written.
AgentHitl(r) ==
    /\ run[r].pc = "stream"
    /\ run' = [run EXCEPT ![r].pc = "get", ![r].target = "awaiting_approval",
                          ![r].sent = @ \cup {"awaiting_approval"}]
    /\ UNCHANGED <<status, owner, agentName, usage, pausedAt>>

AgentRaise(r) ==
    /\ run[r].pc = "stream"
    /\ run' = [run EXCEPT ![r] = Raised(r, FALSE)]
    /\ UNCHANGED <<status, owner, agentName, usage, pausedAt>>

\* Variant: "done" is sent before the answer is billed.
AgentEndDoneFirst(r) ==
    /\ run[r].pc = "stream"
    /\ run' = [run EXCEPT ![r].pc = "record", ![r].sent = @ \cup {"done"}]
    /\ UNCHANGED <<status, owner, agentName, usage, pausedAt>>

AgentEnd(r) ==
    /\ run[r].pc = "stream"
    /\ run' = [run EXCEPT ![r].pc = "record"]
    /\ UNCHANGED <<status, owner, agentName, usage, pausedAt>>

\* record_usage: INSERT and commit ...
InsertUsage(r) ==
    /\ usage' = usage \cup {<<r, Period[run[r].period]>>}
    /\ UNCHANGED <<status, owner, agentName, pausedAt>>

RecordCommit(r) ==
    /\ run[r].pc = "record"
    /\ InsertUsage(r)
    /\ run' = [run EXCEPT ![r].pc = "recorded", ![r].snap = NoTxn,
                          ![r].billed = @ \cup {Period[run[r].period]}]

\* Variant: the loop over the periods stops one short.
RecordRefreshShort(r) ==
    /\ run[r].pc = "recorded"
    /\ run' = [run EXCEPT ![r].snap = status[run[r].thread],
                 ![r].pc = IF run[r].period = 2 THEN "done" ELSE "record",
                 ![r].period = @ + 1]
    /\ UNCHANGED <<status, owner, agentName, usage, pausedAt>>

\* ... then refresh, which raises when a reset has deleted the row.
RecordRefresh(r) ==
    LET there == <<r, Period[run[r].period]>> \in usage
        rec == [run[r] EXCEPT !.snap = status[run[r].thread],
                              !.pc = IF run[r].period = 3 THEN "done" ELSE "record",
                              !.period = @ + 1]
    IN  /\ run[r].pc = "recorded"
        /\ run' = [run EXCEPT ![r] =
                     IF there THEN rec
                     ELSE [Raised(r, FALSE) EXCEPT !.snap = status[run[r].thread]]]
        /\ UNCHANGED <<status, owner, agentName, usage, pausedAt>>

\* Variant: no "done" event.
SendDoneSilent(r) ==
    /\ run[r].pc = "done"
    /\ run' = [run EXCEPT ![r].pc = "get", ![r].target = "completed"]
    /\ UNCHANGED <<status, owner, agentName, usage, pausedAt>>

SendDone(r) ==
    /\ run[r].pc = "done"
    /\ run' = [run EXCEPT ![r].pc = "get", ![r].target = "completed",
                          ![r].sent = @ \cup {"done"}]
    /\ UNCHANGED <<status, owner, agentName, usage, pausedAt>>

\* Variant: the event, and no update of the status.
SendErrorOnly(r) ==
    /\ run[r].pc = "fail"
    /\ run' = [run EXCEPT ![r].pc = "closed", ![r].sent = @ \cup {"error"}]
    /\ UNCHANGED <<status, owner, agentName, usage, pausedAt>>

\* The except branch: the event first, then update_status.
SendError(r) ==
    /\ run[r].pc = "fail"
    /\ run' = [run EXCEPT ![r].pc = "get", ![r].target = "error",
                          ![r].sent = @ \cup {"error"}]
    /\ UNCHANGED <<status, owner, agentName, usage, pausedAt>>

-----------------------------------------------------------------------------
(* What happens beside the runs, and faults.                               *)

\* DELETE /sessions/{thread_id} by the thread's owner.
DeleteSession(t) ==
    /\ status[t] \in Live
    /\ status' = [status EXCEPT ![t] = "deleted"]
    /\ UNCHANGED <<owner, agentName, usage, pausedAt, run>>

\* QuotaRepository.reset by the scheduler's jobs: there is no monthly one.
QuotaReset(u, p) ==
    /\ p \in {"daily", "weekly"}
    /\ usage' = {row \in usage : row[2] # p \/ Caller[row[1]] # u}
    /\ UNCHANGED <<status, owner, agentName, pausedAt, run>>

\* The client goes away: the task is cancelled at its await, and neither
\* CancelledError nor GeneratorExit is an Exception.
Disconnect(r) ==
    /\ "disconnect" \in Faults
    /\ run[r].pc \in Streaming
    /\ run' = [run EXCEPT ![r].pc = "closed", ![r].lost = TRUE]
    /\ UNCHANGED <<status, owner, agentName, usage, pausedAt>>

\* The process dies; nothing looks at the threads when it starts again.
Crash ==
    /\ "crash" \in Faults
    /\ run' = [r \in Runs |-> IF run[r].pc \in Handler \cup Streaming
                              THEN [run[r] EXCEPT !.pc = "closed", !.lost = TRUE]
                              ELSE run[r]]
    /\ UNCHANGED <<status, owner, agentName, usage, pausedAt>>

DbRaised(r, poison) == [Raised(r, poison) EXCEPT !.failed = TRUE]

\* The database fails a statement; in the handler that is a 500.  A flush
\* or a connection that breaks leaves a session that refuses further work
\* until a rollback.  With no transaction open the session first checks a
\* connection out, and a check-out that is refused or times out leaves it
\* as it was: the except branch can still write.
DbFail(r) ==
    /\ "db" \in Faults
    /\ \/ /\ run[r].pc \in Handler
          /\ run' = [run EXCEPT ![r].pc = "closed", ![r].lost = TRUE]
       \/ /\ run[r].pc \in Update \cup {"record", "recorded"}
          /\ ~run[r].poisoned
          /\ \E poison \in BOOLEAN :
               /\ poison \/ run[r].snap = NoTxn
               /\ run' = [run EXCEPT ![r] = DbRaised(r, poison)]
    /\ UNCHANGED <<status, owner, agentName, usage, pausedAt>>

\* The commit reaches the database and its acknowledgement is lost.
DbFailAfterCommit(r) ==
    /\ "db" \in Faults
    /\ \/ /\ run[r].pc = "create"
          /\ \E t \in Threads : InsertThread(r, t)
          /\ run' = [run EXCEPT ![r].pc = "closed", ![r].lost = TRUE]
       \/ /\ run[r].pc = "record"
          /\ InsertUsage(r)
          /\ run' = [run EXCEPT ![r] = [DbRaised(r, TRUE) EXCEPT
                                          !.billed = @ \cup {Period[run[r].period]}]]
       \/ /\ run[r].pc = "commit"
          /\ status[run[r].thread] \in Live
          /\ run[r].snap # run[r].target
          /\ status' = [status EXCEPT ![run[r].thread] = run[r].target]
          /\ pausedAt' = [pausedAt EXCEPT ![run[r].thread] =
                IF run[r].target = "awaiting_approval" THEN run[r].node ELSE @]
          /\ run' = [run EXCEPT ![r] = [DbRaised(r, TRUE) EXCEPT
                       !.wrote = @ \cup ({run[r].target} \cap Final)]]
          /\ UNCHANGED <<owner, agentName, usage>>

-----------------------------------------------------------------------------
Request(r) ==
    \/ \E a \in Agents : ChatNewThread(r, a) \/ \E t \in Threads : Chat(r, t, a)
    \/ \E t \in Threads : ResumeChat(r, t)
    \/ ChatRefused(r) \/ ResumeRefused(r)

RunStep(r) ==
    \/ \E t \in Threads : CreateCommit(r, t)
    \/ CreateRefresh(r) \/ StartStream(r)
    \/ UpdateGet(r) \/ UpdateCommit(r) \/ UpdateRefresh(r)
    \/ AgentOutput(r) \/ AgentHitl(r) \/ AgentRaise(r) \/ AgentEnd(r)
    \/ RecordCommit(r) \/ RecordRefresh(r) \/ SendDone(r) \/ SendError(r)

Environment ==
    \/ \E t \in Threads : DeleteSession(t)
    \/ \E u \in Users, p \in Periods : QuotaReset(u, p)
    \/ \E r \in Runs : Disconnect(r) \/ DbFail(r) \/ DbFailAfterCommit(r)
    \/ Crash

Next == (\E r \in Runs : Request(r) \/ RunStep(r)) \/ Environment

Spec == Init /\ [][Next]_vars

\* The event loop runs every task that is ready, a query is answered or
\* fails, and an agent's graph is finite.  Nobody has to send a request.
Fairness == \A r \in Runs : WF_vars(RunStep(r))

FairSpec == Spec /\ Fairness

-----------------------------------------------------------------------------
(* Properties that hold.                                                   *)

\* chat.py:59-64: a client that saw "done" has been billed for the answer in
\* every period, whatever resets, disconnects or failures came between.
DoneIsBilled == \A r \in Runs : "done" \in run[r].sent => run[r].billed = Periods

\* A run settles its thread once.  Only when the database failed it after
\* that (session_repo.py:38: the refresh that follows the commit) does it
\* write again, and what it writes then is "error" (chat.py:67-68).
RevisedOnlyOnFailure ==
    \A r \in Runs : \A s1, s2 \in run[r].wrote :
        s1 # s2 => "error" \in {s1, s2} /\ run[r].failed

\* Run r has set its thread running and has still to settle it: it is under
\* way in a transaction that saw "running", or in none.
Settles(r) ==
    /\ run[r].pc \in Streaming \ {"open"}
    /\ run[r].pc \in {"get", "commit"} => run[r].target # "running"
    /\ run[r].pc = "refresh" => run[r].target = "running"
    /\ run[r].snap \in {NoTxn, "running"}

\* A run that a fault ended, or whose session can settle nothing any more:
\* chat.py:68 does not roll back, so it leaves its thread running for good.
Broken(r) == run[r].lost \/ run[r].poisoned

\* A thread whose status is "running" has a run that will settle it, or one
\* that a fault took: concurrent runs and stale snapshots never lose the
\* last update (chat.py:44-68 over session_repo.py:32-39).
RunningHasOwner ==
    \A t \in Threads : status[t] = "running" =>
        \E r \in Runs : run[r].thread = t /\ (Settles(r) \/ Broken(r))

\* An "error" event after "done" on one stream: only when the thread was
\* deleted under the run or the database failed it.
DoneRetractedOnlyByLoss ==
    \A r \in Runs : {"done", "error"} \subseteq run[r].sent =>
        status[run[r].thread] = "deleted" \/ run[r].failed

\* A run that billed an answer delivers it with "done", unless a fault ended
\* it, the database failed it between the INSERTs (quota_repo.py:13-18), or
\* a quota reset deleted a row between its INSERT and its refresh.
BilledIsDelivered ==
    \A r \in Runs :
        run[r].pc = "closed" /\ ~run[r].lost /\ ~run[r].failed /\ run[r].billed # {} =>
            \/ "done" \in run[r].sent
            \/ \E p \in run[r].billed : <<r, p>> \notin usage

\* No update of a run brings back a thread that DELETE removed.
DeletedStaysDeleted ==
    [][\A t \in Threads : status[t] = "deleted" => status'[t] = "deleted"]_vars

\* Without faults every request that was sent comes to its end ...
RunsEnd == \A r \in Runs : run[r].pc # "idle" ~> run[r].pc = "closed"

\* ... and no thread stays running.
RunningIsTemporary ==
    \A t \in Threads : status[t] = "running" ~> status[t] # "running"

\* The shape of a run's local state at each point of the code: what makes
\* TypeOK, DoneIsBilled and RunningHasOwner inductive.
Begun == {"record", "recorded", "done", "fail", "closed"}

RunOK(x) ==
    /\ x.pc \in {"idle", "create"} => x.thread = NoThread
    /\ x.pc \notin {"idle", "create", "closed"} => x.thread \in Threads
    /\ x.pc \in {"idle", "create", "created", "open", "stream"} => x.target = "running"
    /\ x.target = "running" /\ x.pc \notin Begun => x.period = 1
    /\ x.pc \in {"record", "recorded"} => x.period # 4
    /\ x.pc = "record" => \A i \in 1..3 : i < x.period => Period[i] \in x.billed
    /\ x.pc = "recorded" => \A i \in 1..3 : i <= x.period => Period[i] \in x.billed
    /\ x.pc = "done" \/ "done" \in x.sent => x.billed = Periods
    /\ x.poisoned => \/ x.pc \in {"fail", "closed"}
                    \/ (x.pc = "get" /\ x.target = "error")
    /\ x.lost => x.pc = "closed"
    /\ x.pc = "commit" => x.snap # NoTxn

RunShape == \A r \in Runs : RunOK(run[r])

IInv == TypeOK /\ RunShape /\ RunningHasOwner

-----------------------------------------------------------------------------
(* What the documents say and the code does not do.                        *)

\* AI_ARCH.MD:306, CHANGELOG.md:71: resume continues from the checkpoint, so
\* no node that was complete when the thread paused runs again.
ResumeContinues ==
    [][\A r \in Runs :
          /\ run[r].kind = "resume" /\ run'[r].node # run[r].node
          /\ status[run[r].thread] = "running"
          => run'[r].node > pausedAt[run[r].thread]]_vars
=============================================================================
