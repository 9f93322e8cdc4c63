-------------------------------- MODULE Service --------------------------------
(***************************************************************************)
(* The process around the endpoints: what requests and jobs wait for.      *)
(* There are three things to wait for: a connection of the MySQL pool,     *)
(* which a session takes for its first statement and gives back with the   *)
(* commit or when it is closed; the base service (UserClient); and the one *)
(* connection of the checkpointer.  The lifespan of main.py opens them,    *)
(* and closes them when uvicorn has seen the last request off.             *)
(*                                                                         *)
(* A request is where it is in its handler: auth, get_current_user; ask    *)
(* and base, before and in the call of GET /quota; query, its three sums;  *)
(* thread, the thread's row; saver, the checkpointer; check, quota and     *)
(* thread of a chat or a resumption; stream, the answer; settle,           *)
(* update_status in the except branch.  A job is at work, or at push,      *)
(* between two statements.  What statements read and write is ChatStream's *)
(* and its like's; here they may succeed or fail.                          *)
(***************************************************************************)
EXTENDS UserClient, FiniteSetsExt

CONSTANTS
    Jobs,           \* scheduler jobs, each with one instance at a time
    PoolSize,       \* connections of the engine, overflow included
    PoolTimeout,    \* ticks that a session waits for one
    Commits,        \* bound: commits of a stream or a job
    Nobody

Tasks == Requests \cup Jobs

ASSUME TaskAssumption == Requests \cap Jobs = {} /\ Nobody \notin Tasks
ASSUME PoolAssumption == PoolSize \in Nat \ {0} /\ PoolTimeout \in Nat
ASSUME CommitAssumption == Commits \in Nat

VARIABLES
    phase,          \* of the process
    checkpointer,   \* app.state.checkpointer is there
    scheduler,      \* app.state.scheduler is there
    at,             \* at[x]: where task x is
    kind,           \* kind[r]: the endpoint of request r
    conns,          \* conns[x]: connections that x has taken
    patience,       \* patience[x]: ticks left of a wait for one, or NoWait
    left,           \* left[x]: commits to come
    reader,         \* who reads through the checkpointer's connection
    waited          \* history: ticks a GET /quota has spent waiting

appVars == <<phase, checkpointer, scheduler>>
taskVars == <<at, kind, conns, patience, left, reader, waited>>
vars == <<clientVars, appVars, taskVars>>

\* GET /quota; a thread's row, or those of a user; GET checkpoints and
\* messages; POST /chat, or POST resume, which differs in its 404s and 503s.
Kinds == {"quota", "session", "history", "chat"}
Places == {"idle", "auth", "ask", "base", "query", "thread", "saver", "check",
           "stream", "settle", "work", "push"}
NoWait == PoolTimeout + 1

\* What GET /quota can spend waiting: two sessions and one call.
Longest == 2 * PoolTimeout + GrpcTimeout

TypeOK ==
    /\ ClientTypeOK
    /\ phase \in {"down", "up", "draining"}
    /\ checkpointer \in BOOLEAN /\ scheduler \in BOOLEAN
    /\ at \in [Tasks -> Places]
    /\ kind \in [Requests -> Kinds]
    /\ conns \in [Tasks -> {0, 1}]
    /\ patience \in [Tasks -> 0..NoWait]
    /\ left \in [Tasks -> 0..Commits]
    /\ reader \in Tasks \cup {Nobody}
    /\ waited \in [Requests -> 0..(Longest + 1)]

TasksInit ==
    /\ at = [x \in Tasks |-> "idle"]
    /\ kind = [r \in Requests |-> "session"]
    /\ conns = [x \in Tasks |-> 0]
    /\ patience = [x \in Tasks |-> NoWait]
    /\ left = [x \in Tasks |-> 0]
    /\ reader = Nobody
    /\ waited = [r \in Requests |-> 0]

Init ==
    /\ ClientInit
    /\ phase = "down" /\ checkpointer = FALSE /\ scheduler = FALSE
    /\ TasksInit

-----------------------------------------------------------------------------
(* The steps of a task.                                                    *)

Waiting(x) == patience[x] # NoWait
Has(x, place) == at[x] = place /\ ~Waiting(x) /\ conns[x] > 0
Taken == MapThenSumSet(LAMBDA x : conns[x], Tasks)

\* Go to a place whose first statement needs a connection.  The session
\* gives back the n it has, or keeps them.
Queue(x, place, n) ==
    /\ at' = [at EXCEPT ![x] = place]
    /\ conns' = [conns EXCEPT ![x] = @ - n]
    /\ patience' = [patience EXCEPT ![x] = PoolTimeout]

\* Go on with the connections it has, none or one.
Proceed(x, place, n) ==
    /\ at' = [at EXCEPT ![x] = place]
    /\ conns' = [conns EXCEPT ![x] = n]
    /\ patience' = [patience EXCEPT ![x] = NoWait]

\* The task is over: its sessions are closed.  A FastAPI that closes a handler's
\* session before the stream starts leaves the generator one that opened itself
\* anew and that nobody closes (chat.py:65, 68): its connection goes back when
\* the ended generator is collected, which End stands for as well.
End(x) ==
    /\ Proceed(x, "idle", 0)
    /\ left' = [left EXCEPT ![x] = 0]
    /\ reader' = IF reader = x THEN Nobody ELSE reader
    /\ waited' = [r \in Requests |-> IF r = x THEN 0 ELSE waited[r]]
    /\ kind' = [r \in Requests |-> IF r = x THEN "session" ELSE kind[r]]

\* uvicorn accepts a request, and get_current_user opens its session.
Arrive(r, k) ==
    /\ phase = "up" /\ at[r] = "idle"
    /\ Queue(r, "auth", 0)
    /\ kind' = [kind EXCEPT ![r] = k]
    /\ left' = [left EXCEPT ![r] = IF k = "chat" THEN Commits ELSE 0]
    /\ UNCHANGED <<clientVars, appVars, reader, waited>>

\* A trigger fires; max_instances is 1.
Fire(j) ==
    /\ phase # "down" /\ scheduler /\ at[j] = "idle"
    /\ Queue(j, "work", 0)
    /\ left' = [left EXCEPT ![j] = Commits]
    /\ UNCHANGED <<clientVars, appVars, kind, reader, waited>>

\* The pool hands out a connection, in no fixed order.
Connect(x) ==
    /\ Waiting(x) /\ Taken < PoolSize
    /\ conns' = [conns EXCEPT ![x] = @ + 1]
    /\ patience' = [patience EXCEPT ![x] = NoWait]
    /\ UNCHANGED <<clientVars, appVars, at, kind, left, reader, waited>>

\* The wait is over without one: TimeoutError, which only a stream catches,
\* to write the status "error" with the same session.
TimesOut(x) ==
    /\ Waiting(x) /\ patience[x] = 0
    /\ IF at[x] = "stream"
       THEN Queue(x, "settle", 0) /\ UNCHANGED <<left, reader, waited, kind>>
       ELSE End(x)
    /\ UNCHANGED <<clientVars, appVars>>

\* get_current_user has the user's row and closes its session; the handler's
\* own, from get_session, is opened by the first statement.  What depends on
\* the checkpointer is refused with 503 if startup could not open it.
\* Variant: the session stays open, as one that get_db provides would.
AuthKeeps(r) ==
    /\ Has(r, "auth")
    /\ kind[r] = "history" => checkpointer
    /\ CASE kind[r] = "quota" -> Proceed(r, "ask", 1)
         [] kind[r] = "chat" -> Queue(r, "check", 0)
         [] OTHER -> Queue(r, "thread", 0)
    /\ UNCHANGED <<clientVars, appVars, kind, left, reader, waited>>

AuthDone(r) ==
    /\ Has(r, "auth")
    /\ kind[r] = "history" => checkpointer
    /\ CASE kind[r] = "quota" -> Proceed(r, "ask", 0)
         [] kind[r] = "chat" -> Queue(r, "check", 1)
         [] OTHER -> Queue(r, "thread", 1)
    /\ UNCHANGED <<clientVars, appVars, kind, left, reader, waited>>

\* The handler is done or raises, on its way or at its end: 404, 429, 500,
\* 503, or what it was asked for.
Responds(x) ==
    /\ \E place \in {"auth", "query", "thread", "check", "stream", "settle", "work"} :
          Has(x, place)
    /\ End(x)
    /\ UNCHANGED <<clientVars, appVars>>

-----------------------------------------------------------------------------
(* GET /quota: no connection is held while the base service is asked.      *)

AskBase(r) ==
    /\ at[r] = "ask"
    /\ Call(r)
    /\ Proceed(r, "base", conns[r])
    /\ UNCHANGED <<appVars, kind, left, reader, waited>>

SkipBase(r) ==
    /\ at[r] = "ask" /\ CircuitOpen
    /\ Queue(r, "query", 0)
    /\ UNCHANGED <<clientVars, appVars, kind, left, reader, waited>>

\* Its limit, or an error; without one the limit is that of the settings.
Returns(r) == Queue(r, "query", 0) /\ UNCHANGED <<appVars, kind, left, reader, waited>>

BaseAnswers(r) == at[r] = "base" /\ Answered(r) /\ Returns(r)
BaseUnavailable(r) == at[r] = "base" /\ Failed(r) /\ Returns(r)

\* Variant: the call is made again, as @retry says.
DeadlineRetried(r) ==
    /\ at[r] = "base" /\ deadline[r] = 0
    /\ Answered(r)
    /\ Proceed(r, "ask", 0)
    /\ UNCHANGED <<appVars, kind, left, reader, waited>>

DeadlineExceeded(r) ==
    /\ at[r] = "base" /\ deadline[r] = 0
    /\ Failed(r) /\ Returns(r)

-----------------------------------------------------------------------------
(* GET checkpoints and messages: the session, with its transaction open,   *)
(* waits for the one connection to Postgres, whose users queue in order.   *)

ThreadFound(r) ==
    /\ Has(r, "thread") /\ kind[r] = "history"
    /\ Proceed(r, "saver", conns[r])
    /\ UNCHANGED <<clientVars, appVars, kind, left, reader, waited>>

TakeSaver(r) ==
    /\ at[r] = "saver" /\ reader = Nobody
    /\ reader' = r
    /\ UNCHANGED <<clientVars, appVars, at, kind, conns, patience, left, waited>>

SaverDone(r) ==
    /\ at[r] = "saver" /\ reader = r
    /\ End(r)
    /\ UNCHANGED <<clientVars, appVars>>

-----------------------------------------------------------------------------
(* Chats and jobs.                                                         *)

\* A commit returns the connection, and the refresh or the next statement
\* needs one.
CommitAndGoOn(x) ==
    /\ Has(x, "check") \/ Has(x, "stream") \/ Has(x, "settle") \/ Has(x, "work")
    /\ left[x] > 0
    /\ left' = [left EXCEPT ![x] = @ - 1]
    /\ Queue(x, at[x], 1)
    /\ UNCHANGED <<clientVars, appVars, kind, reader, waited>>

\* The response starts.  FastAPI has closed the session by then, or closes it
\* when the stream has ended: then it keeps its connection while agents work.
StartStream(r) ==
    /\ Has(r, "check")
    /\ Proceed(r, "stream", 1) \/ Queue(r, "stream", 1)
    /\ UNCHANGED <<clientVars, appVars, kind, left, reader, waited>>

\* The except branch of the stream.
StreamRaises(r) ==
    /\ Has(r, "stream")
    /\ Proceed(r, "settle", 1)
    /\ UNCHANGED <<clientVars, appVars, kind, left, reader, waited>>

\* A client that leaves cancels a stream, wherever it is.
Disconnect(r) ==
    /\ at[r] \in {"stream", "settle"}
    /\ End(r)
    /\ UNCHANGED <<clientVars, appVars>>

\* The reminder job pushes between two statements: without a connection, or
\* with the one of a mark_sent that found no row to commit.
PushStarts(j) ==
    /\ Has(j, "work") /\ left[j] > 0
    /\ left' = [left EXCEPT ![j] = @ - 1]
    /\ Proceed(j, "push", 0) \/ Proceed(j, "push", 1)
    /\ UNCHANGED <<clientVars, appVars, kind, reader, waited>>

\* Variant: the session gives back a connection it may not have.
PushEndsTwice(j) ==
    /\ at[j] = "push"
    /\ Queue(j, "work", 1)
    /\ UNCHANGED <<clientVars, appVars, kind, left, reader, waited>>

\* The record is marked, or was not pushed and is left for later, which may
\* end the job.
PushEnds(j) ==
    /\ at[j] = "push"
    /\ \/ /\ IF conns[j] = 0 THEN Queue(j, "work", 0) ELSE Proceed(j, "work", 1)
          /\ UNCHANGED <<kind, left, reader, waited>>
       \/ End(j)
    /\ UNCHANGED <<clientVars, appVars>>

-----------------------------------------------------------------------------
(* The process.                                                            *)

\* lifespan: the checkpointer and the scheduler may fail to start, and the
\* application serves without them.
Startup ==
    /\ phase = "down" /\ phase' = "up"
    /\ checkpointer' \in BOOLEAN /\ scheduler' \in BOOLEAN
    /\ UNCHANGED <<clientVars, taskVars>>

\* SIGTERM: uvicorn takes no more requests and waits for those it has.
Sigterm ==
    /\ phase = "up" /\ phase' = "draining"
    /\ UNCHANGED <<clientVars, checkpointer, scheduler, taskVars>>

Stopped ==
    /\ phase' = "down" /\ checkpointer' = FALSE /\ scheduler' = FALSE
    /\ ClientReset
    /\ at' = [x \in Tasks |-> "idle"]
    /\ kind' = [r \in Requests |-> "session"]
    /\ conns' = [x \in Tasks |-> 0]
    /\ patience' = [x \in Tasks |-> NoWait]
    /\ left' = [x \in Tasks |-> 0]
    /\ reader' = Nobody
    /\ waited' = [r \in Requests |-> 0]

\* The second half of lifespan; scheduler.shutdown cancels the running jobs.
Shutdown ==
    /\ phase = "draining"
    /\ \A r \in Requests : at[r] = "idle"
    /\ Stopped

Crash == phase # "down" /\ Stopped

\* A tick.  Whoever may wait no longer goes on before it.
Tick ==
    /\ \A x \in Tasks : patience[x] > 0
    /\ Elapses
    /\ patience' = [x \in Tasks |-> IF Waiting(x) THEN patience[x] - 1 ELSE NoWait]
    /\ waited' = [r \in Requests |->
                    IF /\ kind[r] = "quota" /\ waited[r] <= Longest
                       /\ Waiting(r) \/ r \in calling
                    THEN waited[r] + 1 ELSE waited[r]]
    /\ UNCHANGED <<appVars, at, kind, conns, left, reader>>

\* What a task does by itself, the pool and the base service willing.
Step(x) ==
    \/ TimesOut(x) \/ Responds(x) \/ CommitAndGoOn(x)
    \/ /\ x \in Requests
       /\ \/ AuthDone(x) \/ AskBase(x) \/ SkipBase(x) \/ DeadlineExceeded(x)
          \/ ThreadFound(x) \/ SaverDone(x) \/ StartStream(x) \/ StreamRaises(x)
    \/ x \in Jobs /\ (PushStarts(x) \/ PushEnds(x))

Environment ==
    \/ \E r \in Requests : BaseAnswers(r) \/ BaseUnavailable(r) \/ Disconnect(r)
    \/ \E r \in Requests, k \in Kinds : Arrive(r, k)
    \/ \E j \in Jobs : Fire(j)
    \/ Startup \/ Sigterm \/ Crash

Next ==
    \/ \E x \in Tasks : Step(x) \/ Connect(x)
    \/ \E r \in Requests : TakeSaver(r)
    \/ Tick \/ Shutdown
    \/ Environment

Spec == Init /\ [][Next]_vars

\* The event loop runs what is ready and time passes; asyncio.Lock serves its
\* waiters in turn.  The base service need never answer, nor the pool be fair.
FairSpec ==
    /\ Spec
    /\ \A x \in Tasks : WF_vars(Step(x))
    /\ \A r \in Requests : SF_vars(TakeSaver(r))
    /\ WF_vars(Tick) /\ WF_vars(Shutdown)

-----------------------------------------------------------------------------
(* Properties.                                                             *)

\* No two parts of the process wait for each other: whoever waits for the
\* pool (database.py:40) or for the base service (quota.py:28) holds no pooled
\* connection, whatever its handler did before, and whoever has the
\* checkpointer's connection waits for neither.
HoldersMove ==
    /\ \A x \in Tasks : Waiting(x) \/ x \in calling => conns[x] = 0
    /\ reader # Nobody => ~Waiting(reader) /\ reader \notin calling

\* GET /quota (quota.py:20-53) waits no longer than once for each of its two
\* sessions and for one timeout of the base service (user_client.py:60-79),
\* whatever others hold and however often the base service has failed.
QuotaInTime == \A r \in Requests : waited[r] <= Longest

\* After SIGTERM the process ends (main.py:110): no request waits for ever, be
\* the base service silent, the pool exhausted and jobs started meanwhile.
ShutdownCompletes == phase = "draining" ~> phase = "down"
=============================================================================
