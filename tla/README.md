# TLA+ models of the pagent service

The repository is a FastAPI service that streams answers of LLM agents, keeps
threads and token quotas in MySQL, runs a few scheduled jobs and commits prompt
guidelines to git.  This directory holds TLA+ models of its stateful parts, the
TLC instances that check them and TLAPS proofs of the properties that matter
most.  Paths below are relative to the repository root.

## The system

| part | state | operations | talks to | hard because |
|---|---|---|---|---|
| Chat API, `src/api/routers/chat.py`, `agents.py` | none of its own; a generator per answer | start a run, resume a run, stream | thread and quota repositories, agents | several runs on one thread, each a generator with about fifteen awaits; clients leave, the database fails |
| Repositories, `src/persistence` | `threads`, `token_usage`, `reminders`, `users` in MySQL | create, get, update_status, delete; record_usage, check_limit, reset; get_pending, mark_sent | every other part | commit and refresh are separate awaits; snapshots; a failed flush poisons a session |
| Sessions API, `src/api/routers/sessions.py` | - | list, get, delete, checkpoints, messages | thread repository, checkpointer | delete under a run; a transaction open while another connection is waited for |
| Scheduler, `src/scheduler` | job schedule | daily and weekly quota reset, reminder job | quota and reminder repositories, webhook | partial failure, no transaction around push and mark |
| Rate limiter, `src/api/middleware.py` | a Redis sorted set per user | check | Redis | clock read and transaction are apart; fails open |
| Current user, `src/api/deps.py` | `users` rows | JIT creation | MySQL | select, then insert; two unique keys |
| gRPC user client, `src/grpc/user_client.py` | circuit breaker | get_user, get_user_context | base service | one breaker for all requests, decided again by calls that began before it opened |
| Manager graph and teams, `src/agents` | LangGraph state of one run | guardrail, classify, plan, team pipeline, approval, validate | LLM, tools | what one node drops, later nodes never see |
| Tools, `src/tools` | git work tree, external calendars, MCP session | commit, create_task, run_code, search | subprocesses, HTTP | several steps, each may fail or time out |
| LLM registry, `src/llm` | adapters, fallback chain | register, get_with_fallback | providers | order of the chain |
| Knowledge base, `src/scripts`, `src/memory/long_term.py` | pgvector table | index files; retrieve, grade, rewrite | Postgres, embeddings, LLM | one transaction per chunk; read while it is written |
| Other memory and cache, `src/memory`, `src/core/caching.py` | Redis lists and hashes | add, get, clear | Redis | no caller |
| Startup, `src/main.py`, and the pool, `src/persistence/database.py` | clients held by the app; pooled connections | open, close; take, give back | everything | one failing step of several; a drain without a time limit; a pool with one |

What makes each part correct, in one line each: a client is told exactly what
the table and the bill say (chat); usage passes a limit by one wave of
concurrent answers and no more, and a lockout ends (quota); a reminder is
pushed once, unless a fault lost the answer or the record of it, and is not held up by others
(reminders); no more than the limit is let in per window and nobody below the
limit is refused (rate limiter); the models are asked about this request and no
other, and a pause for approval repeats nothing (agents); the guidelines written
last are the ones committed, if the run that wrote them can commit (guidelines); nobody waits for what somebody holds who
waits, so that every wait and every shutdown ends (process); a file that counts as
indexed is there whole, and a query that finds something answers (knowledge base).

## Modules

`ChatStream` is the core.  A run is one HTTP request: the handler and then the
generator `_stream_agent`.  `run[r].pc` names the await the request is at, so
one action is the code between two awaits or yields:

| actions | code |
|---|---|
| `Chat`, `ChatNewThread`, `ChatRefused` | `chat.py:71-119`, and `agents.py:31-80`, which is the same handler with the agent in the path |
| `ResumeChat`, `ResumeRefused` | `chat.py:122-166` |
| `CreateCommit`, `CreateRefresh` | `session_repo.py:11-16` |
| `StartStream`, `AgentOutput`, `AgentHitl`, `AgentRaise`, `AgentEnd`, `SendDone`, `SendError` | `chat.py:25-68` |
| `UpdateGet`, `UpdateCommit`, `UpdateRefresh` | `session_repo.py:32-39` |
| `RecordCommit`, `RecordRefresh` | `quota_repo.py:13-18` |
| `DeleteSession`, `QuotaReset` | what runs beside it |
| `Disconnect`, `Crash`, `DbFail`, `DbFailAfterCommit` | faults |

Decisions a reader should know:

- MySQL runs at REPEATABLE READ.  `snap` is the thread's status as the run's
  open transaction sees it: `refresh()` after `commit()` opens the next one, so a
  later `get()` reads an old state.  SQLAlchemy sends no UPDATE for an attribute
  that is set to the value it was read with; an UPDATE that matches no row raises
  `StaleDataError`, after which the session refuses everything (`poisoned`).
- The database may fail any statement (`DbFail`).  A flush or a connection that
  breaks poisons the session.  A session with no transaction open first checks a
  connection out, as `refresh()` does after `commit()`: a check-out that is refused
  or times out raises and leaves the session usable, so that the except branch
  writes `error` over a `completed` that is committed.  `failed` remembers either.
- A poisoned session strands its thread at `running`: the except branch does not
  roll back, and its own `update_status` raises.  The code prevents this nowhere, so
  `RunningHasOwner` exempts such runs (`Broken`), `chat_live` assumes no faults, and
  no property says that such a thread leaves `running`.
- Depending on the FastAPI version the request's session is closed before or
  after the body is streamed; the repository pins none, so `StartStream` allows
  both (the snapshot is kept or dropped).
- `CancelledError` and `GeneratorExit` are no `Exception`: a client that leaves
  skips the except branch.
- The agent is an environment: it may output up to `MaxNodes` chunks, ask for
  approval, raise or end.  Agents are compiled without a checkpointer and
  `resume_chat` does not use the one it is given.
- An answer is one token here; what answers weigh is `Quota`'s matter.

`AnswerContract` is what this amounts to for a client, without awaits, sessions,
snapshots or faults: a run is accepted on a thread, sets it running, is billed,
tells one outcome and, at most, an error after it, and writes to the table the
status that follows from what it has told.  `ChatRefinement` maps `ChatStream`
to it: `told` is what was sent on the stream, `paid` the runs billed in every
period, `over` the closed ones.  Every handler, repository call, disconnect and
crash is a step of the contract or a stutter; the run checks it and
`ChatStreamProofs` proves it.  That a final status was announced
before it was written is part of the contract (`Settle`) and has no invariant of
its own.

`Callers` is `get_current_user`: the select, the insert and the commit by which a
user's first request makes the user's row.  The insert waits for an open
transaction that holds the same key, and fails if the key is there; the keys are
the id and the email.  An email that is missing is `""`, so among users whose
requests come without `X-User-Email` the first keeps all others out: each of their
inserts is a duplicate (`Clash`), and no row is ever made for them.  Some users have
rows from earlier requests to begin with.

`Quota` extends `Callers` with what a chat does once it is let in: the check, the
rows and the two jobs, with weighted messages and answers.  A job takes the users
that are active when it begins (`quota_reset.py:24`), in the order the database
returns them, and resets one after the other; when it fails, the DELETE at hand is
committed or not and the users after it wait for the next firing.  `off` are the
users that are not active: nothing under `src/` sets the flag, so `SwitchUser` is
external, and `get_current_user` does not look at it, so that they are let in and
counted as before, and never reset.  A request that is not in `Chats` is any other endpoint.  `wave[u]` is a
history variable: u's requests that were under way together when one last passed
the check.

`Reminders` has the three operations of the repository and the job's two
sessions.  Rows are created by an external writer (`create` has no caller under
`src/`).  The process is one (the image starts one uvicorn) and
`max_instances=1`, so there is one job at a time.  A push fails without reaching
anybody (`PushFails`) or after the webhook has taken it, when its answer is lost,
late or an error (`PushUnanswered`); `send_reminder` returns `False` for both.

`RateLimiter` has a clock in ticks; a tick stands for the resolution of
`time.time()`, so no two requests of the one process read the same time.  A
request reads the clock (`Arrive`) and its transaction reaches Redis later
(`CheckRate`), in any order, at most `MaxLag` ticks after.  A MULTI/EXEC is
atomic.  A refused request has been added to the set all the same.

`Teams` has the thirteen agents and the four pipelines as dataflow.  A text is
the set of what it repeats (a user's request, a model's words, a placeholder,
what the web, the traces or a run of code said); a node is an action that reads
channels with the fallbacks of the code and writes one.  `{}` is an empty text
and `None` a channel nobody wrote; Python's `or` treats them alike, and so does
`FirstOf`.  A model answers nothing, or something that repeats any part of what it
was asked, none of it included (`Answers`); how answers are parsed is reduced to
that.  `silent` and `leftOut` remember that a model of the run answered nothing, or
something without a request its prompt held.  The actions on the outside
world (create a task, run code, commit) are counted.

`ManagerGraph` extends `Teams` with the two ways in: the manager's graph on one
checkpointed thread, and agents or team supervisors that a chat names (`docs`
stands for `docs_supervisor`, and so on).  `mgr` is the checkpoint of the
manager's thread: it is written by each node that completes, kept when a node
raises, and overlaid by the input of the next request, messages appended.  The
registry finds no manager (it discovers classes below `agents/teams`), so today
only the tests run that graph; its properties are those of the code as written.
One reads in it that the approval comes after the team has worked, while
`AI_ARCH.MD` draws it before, and that nothing reads what the human replied: a
rejected answer goes to the validator too, with the feedback beside it.

Which prompts hold the request depends on how a node reads its channels.
`Robust` nodes read the request itself and hold it whatever other models have
answered.  `Recovering` nodes, the summarizer and the task architect, fall back on
the user's text only when the channel before them is empty (`summarizer.py:47`,
`task_architect.py:73`): an answer such as "OK" is not, and takes the request from
the prompts that follow.  The other nodes have no fallback at all.

`Guidelines` is what `yaml_architect_node` does from the moment the model has
answered, in concurrent runs on one checkout.  The node's steps interleave at
awaits only (`writing` excludes the other runs' steps, not the git processes).
git is modelled as far as the code depends on it: `add` and `commit` take
`index.lock` or fail, `add` reads the file once, `commit` fails when there is
nothing to commit or HEAD has moved, and either fails for reasons of its own (no
repository, no identity, a hook, a signal).  git may also be impossible to start,
and `write_text` may raise with a part of the text in the file.  SIGKILL leaves the
lock if it was held; from then on every run logs "Git commit skipped" and the
guidelines in HEAD stay as they are.  No code removes the lock.

A child that git has left (a hook, an agent) holds git's pipes (`held`), and
`communicate()` returns when both are closed.  At the timeout git is killed and
`communicate()` is awaited again without a limit (`draining`), so a child that
holds on keeps the run: the code's `timeout`, "per-command" in `git_commit.py:65`,
bounds the process and not the run, and `RunsEnd` asks nothing of a run whose pipes
are held for ever.  `trouble` are the runs that failed, or whose
process did, was locked out, killed or left.

`UserClient` is the gRPC client: which requests await the base service, what is
left of their deadlines and of the cooldown.  `_is_circuit_open` is asked before
a call, `_trip_circuit` is called by each that fails.  `@retry` never retries,
since the body catches what it looks for; `DeadlineRetried` is the variant in
which it would.

`Service` extends it with everything else that handlers and jobs wait for.  A
task is at one await of its handler (`at`), may hold a pooled connection
(`conns`) or wait for one (`patience`), or read through the checkpointer, whose
`AsyncPostgresSaver` has one connection and a lock in front of it (`reader`).
What is read and written belongs to the other modules.

| actions | code |
|---|---|
| `Arrive`, `AuthDone` | `deps.py:42-75`; the session is its own and closed before the handler's first statement |
| `AskBase`, `SkipBase`, `BaseAnswers`, `BaseUnavailable`, `DeadlineExceeded` | `quota.py:20-53` with `user_client.py:60-79` |
| `ThreadFound`, `TakeSaver`, `SaverDone` | `sessions.py:53-107`, `checkpointer.py:21-46` |
| `StartStream`, `CommitAndGoOn`, `StreamRaises`, `Disconnect` | `chat.py:25-119`; after a commit the refresh takes a connection again |
| `Fire`, `PushStarts`, `PushEnds` | the jobs; a push happens without a connection, or with that of a `mark_sent` that found no row |
| `Connect`, `TimesOut` | SQLAlchemy's pool, in no fixed order and with a time limit (external) |
| `Startup`, `Sigterm`, `Shutdown`, `Crash` | `main.py:30-126`; parts that fail to start are absent, and what needs the checkpointer is answered with 503 |

The shutdown is one step, for nothing of it is left once the process has ended.
`End` closes a task's sessions.  Where FastAPI has closed the handler's session
before the stream, nothing closes the one the generator then opens anew
(`chat.py:65`, `:68`); its connection goes back when the ended generator is
collected, which CPython does at once and `End` therefore stands for.

`KnowledgeBase` is `index_knowledge_base.py` and `LongTermMemory`.  A run of the
script reads the files in any order, cuts one up in the rounds of `_chunk_text`
and stores chunk after chunk, each in a transaction of its own; whatever raises
gives up the file with what is stored of it.  `corrective_rag` counts documents
only: which are nearest and how the model grades them is open.  What the rewritten
query finds is not graded, so it answers with irrelevant documents sooner than
with none.

## Runs

| run | instance | shows |
|---|---|---|
| `chat_core` | 1 user, 1 thread, 2 requests, 1 chunk, all faults | what clients, table and bill say, and the refinement of `AnswerContract` |
| `chat_live` | 1 user, 2 threads, 2 requests, no faults, fairness | every run ends; no thread stays running |
| `chat_resume` | 2 requests, 2 chunks | violated: a resumed run starts from its first node |
| `quota` | 2 users with emails of their own, each with a row or not, 2 chats of one of them heavier than the limit, users switched off and on, jobs and logins fail, fairness | who gets in has a row; overshoot is one wave; lockouts end for active users |
| `quota_monthly` | the same, logins do not fail | violated: a monthly lockout never ends |
| `reminders` | 3 reminders, 3 days, 2 faults, one undeliverable, fairness | one push more per lost answer or mark; what is due is sent |
| `ratelimit` | 4 requests of a user, 1 without id, limit 2, window 4, lag 2, 11 ticks | the bound, and nobody refused below it |
| `agents` | 3 requests, on the manager's thread or to any of 13 agents and 4 teams | prompts hold this request and no other; a pause repeats nothing; no answer that awaits approval is validated before the human has replied |
| `agents_direct` | 1 request to the default agent | violated: the model is not asked what the user sent |
| `guidelines` | 2 runs, any of which may fail, be killed or cancelled, children of git, fairness of the node only | the last text is committed, HEAD never goes back, a run ends unless a child of git holds its pipes for ever |
| `service` | 2 requests to any endpoint, 1 job, 1 pooled connection, timeouts of a tick, cooldown of 2, 1 commit, fairness | no hold-and-wait, bounded waits, the breaker closes, shutdown completes |
| `knowledge` | 1 run over files of 6, 1 and 0 characters, sizes 1 to 4 with overlap 1, 2 queries for 2 documents, fairness | indexed files are whole, queries that find answer, the script ends where its loop advances |

Why the bounds are enough: two runs on one thread are what every pairwise race
needs, and a third only repeats one of them.  One thread suffices where threads do not interact.
`LastTick` lets a window slide fully past and a key expire.  Two faults allow a
lost mark, and a second one on the repetition.  Three requests are a thread's
past, the run that is watched, and one that follows a pause; they are symmetric.
Two runs of `Guidelines` let one stage or commit what the other has written, whole or
half, and lock it out; that the last text is committed and HEAD never goes back is
proved for any number.  In `Quota` the user without a chat stands before or after
the other in a job's order.
One pooled connection for three tasks is the pool at its limit, where a second
connection of anybody would be one too many; a pool of more only delays that.
Two requests are enough for a call that was under way when another opened the
circuit, and for two readers of the checkpointer.  Six characters make up to five
chunks, with a last one that is cut short (size 4), and the size that equals the
overlap is the one whose loop stands still; `MaxChunks` bounds only that loop.

What no run shows, because the code does nothing about it: a thread whose run's
session is poisoned stays `running`; users who share an email, the empty one above
all, are turned away for good; two resumptions of a
paused thread both pass the check of `chat.py:136` and both run, as `ChatStream`
allows; and the limiter acts on paths that begin with `/chat` (`middleware.py:41`)
while `create_app` mounts the chat at `/api/v1/chat` (`main.py:154`), so that
the application counts nothing.  `ratelimit` checks it under the paths its tests
mount.  A stream keeps its connection while its agent works, so that streams
in the pool's number make every other session wait and, after its time limit,
answer with 500; the bounds of `service` include these waits.

Fairness.  `ChatStream`: weak fairness of each run's own steps, none of clients,
deletions or faults: the event loop runs every ready task, a query is answered
or fails, a graph is finite.  `Quota`: the cron triggers keep firing, and strong
fairness of each user's reset at the moment a job has come to that user: a job
may fail at any user, but not every time it comes to the same.  That a job comes to
a user is not assumed: it follows, since those before that user are passed in turn.  `Reminders`: the interval trigger keeps firing, and a push of a
deliverable reminder that is tried again and again succeeds at last; lost answers
are faults, of which there are finitely many.
`Guidelines`: weak fairness of the node's own steps and timers, none of git, so a
process may hang, and a child of it may hold its pipes, for ever.  `Service`: weak fairness of each task's own steps, of
time and of the lifespan, strong fairness of a reader's turn at the checkpointer,
since asyncio.Lock is first come, first served; none of the base service, of the
pool's choice, of arrivals, triggers or faults.  `KnowledgeBase`: the script's and
the queries' own steps, each of which may be a failure.

Deadlock is not checked where every request is made once and the model stops
when all are over (`CHECK_DEADLOCK FALSE` in those configurations).

## Proofs

Every safety invariant and action property that a passing run checks, and the
refinement of `AnswerContract`, is a theorem for every value of the constants:
any number of users, threads, requests, files, connections, any times and limits,
any number of faults.  A module `XProofs` extends `X` and has the shape: parts of
an inductive invariant, each named for what it says; a lemma per action, or per
group of actions that change the same part; a lemma that initial states satisfy the
invariant and one that every step keeps it (`InitIInv`, `NextIInv`); and the
theorems.  TLC was given each part as an invariant before it was proved.

`ChatStreamProofs`

- `TypeCorrect`: `TypeOK` and `RunShape`, which ties each program counter to what
  the run's local state must be there (at `record`, the rows of all earlier
  periods are billed; a poisoned session is in the except branch or done; a run is
  past its first await only with a thread).  A step changes one run, so this is
  proved run by run (`LocalStep`).
- `DoneIsBilledCorrect`: from `RunShape`.
- `RunningHasOwnerCorrect`: with `RunShape`, the property is inductive.  The
  argument is per action: a step that keeps a thread running keeps its run's
  `Settles`, or breaks the run; a commit of `running` makes the committing run
  the one that settles it.
- `DeletedStaysDeletedCorrect`: an action property, from the guards.
- `RevisedOnlyOnFailureCorrect` needs `ToldShape`: what a run has said, been billed
  and written at each point of the code.  The case that matters is a run that
  comes back to `update_status` from the except branch after it has written a
  final status.  Either its session is broken, or its snapshot, taken by the refresh
  that raised, no longer has the row, and it writes nothing more; or the database
  failed that refresh without poisoning the session, and it writes `error`, once.
- `DoneRetractedOnlyByLossCorrect` and `BilledIsDeliveredCorrect` relate one run
  to the table: `ThreadsThere` (a run's thread is in the table, deleted or not, so
  that what a snapshot does not have was deleted and not unborn), `Retracted` and
  `Delivered` (a run that was billed, can still speak and has not said so misses
  one of its rows), each unless the database failed the run.  Both last because a deleted thread and a deleted usage row
  stay away: only the run that inserted a row could write it again.
- `KeepsContractCorrect`: `ChatStream` implements `AnswerContract`.  `Of`, `Told`,
  `Paid` and `Over` are the mapping of `ChatRefinement`; `InitContract` and
  `NextContract` map initial states and steps.  A step is `TellAlone`, `OpenAlone`,
  `BillAlone`, `WriteAlone`, an end (`Over` grows) or nothing (`UnseenAlone`), and
  `ToldShape` says which: that a run which writes `completed` has told `done`, that
  a bill that becomes full was not full before, and so on.

`QuotaProofs` proves `OvershootIsOneWaveCorrect` for every weight and limit.  The
sum of tokens is the cardinality of a set of tokens, so that the proof needs
monotonicity of cardinality and no induction over the rows.  It also proves
`TypeCorrect`, and `EnteredIsKnownCorrect` for every choice of emails, shared ones
included, which `quota` leaves out; the argument is that rows of
users are only added.

`RateLimiterProofs` proves `BoundKept`.  `RateBound` is not inductive: why a
transaction that finds room may let its request in depends on what the set has
kept.  The strengthening is `Stamped` (clock readings differ and lie in the past,
no waiting request is overdue), `Outlives` (a key expires only after its scores
have left the window), `Kept` (what Redis let in is in the set or older than the
window) and `AdmittedBound`, which states the bound for stretches that begin at
any time and not only at a request.  The step that matters is `CheckRate`:
`AllCounted` shows that every request the stretch holds is among the scores that
transaction counts, since none can be older than the window by more than the lag
the stretch is shortened by.  `RefusedOnlyOverLimitCorrect` is the converse:
`Came` (every score is a clock reading of a request of that user) gives an
injection of the scores a refusal counted into the user's requests within the
window, whether or not there are finitely many requests in all.

`RemindersProofs` proves `PushedOncePerLostMarkCorrect` and `SentWasPushedCorrect`.
That a push count is bounded says nothing of why the job may push: `Waits` says
that a record the job has still to come to is unsent, or deleted since it was
fetched, stands in the list once and has been pushed no more often than answers and
marks were lost; `InHand` allows the one in hand a push more; `Counts` is the same for rows
that no list holds.  `SnapSees` is about the transaction that `mark_sent` leaves
open when it finds no row: it was opened after the fetch, so a row that it does
not see was deleted after the fetch too.  `IsFiniteSet(Written)` lets the fetch
put the due rows in a list.

`ServiceProofs` proves `OpenAtMostCorrect`: while the circuit is open no call
begins, so what is left of a call under way and the time the circuit has been open
add up to one timeout at most (`ClientInv`); the last call that can trip it again
ends before that.  `HoldersMoveCorrect` is from `Holds`, what each place of a
handler says of its connection and its waits: whoever queues has given back what
it held.  `QuotaInTimeCorrect` is from `Waits`: what a request has waited and what
is left of the wait it is in add up to no more than the waits it has come to.

`ManagerGraphProofs` proves the four properties of the agents.  `Course` says what
may be left of a pipeline (a suffix of it), that nothing was done before the team
works or while something is left, and whose run it is; from it
`ActsOnceCorrect`, for the node that acts is the last of its pipeline, and
`AnswerAwaitsHumanCorrect`.  `Own` says that every channel holds nothing of another
request, which needs that the manager's messages end with the run's own
(`LastHuman`).  `Keeps` follows the request through a team: as long as no
model has left it out, the channels prompts come from (`Carrying`) hold it or
nothing, and as long as none was silent they are not empty; those that a node reads
without a fallback have been written by then (`OnCourse`).  So
`PromptsKeepRequestCorrect`, with `MustHold` for what each kind of node promises.

`GuidelinesProofs` proves `HeadNeverGoesBackCorrect` and
`LastIsCommittedCorrect`.  Texts are ordered by the turn they were written in
and, within it, by whether they are whole (`Rank`).  `Ordered`: HEAD is never ahead
of the index, nor the index of the file, and what a process has read lies between.
`Where` ties processes to their runs and the lock to its holder, `Turns` says who
wrote last, and `LastIsOnItsWay` how far that run's text has come: staged, or in
HEAD, and from then on no other process can stage or commit anything older.  Nothing
is assumed of the other runs, whose processes may fail at any step.

`KnowledgeBaseProofs` proves `IndexedIsWholeCorrect` for all lengths, sizes and
overlaps: `Reading`, `Chunking` and `Storing` say what is stored of the file at
hand (nothing; nothing; the chunks before the next one), what has been cut off it
and where the next cut starts, and `Indexed` that a file once reported is stored
whole.  A run's rows are its own and none is ever taken away, so other runs and
queries cannot disturb this.  `FoundIsAnsweredCorrect` is from `QueryInv`: what a
query has kept and what is left to grade are no more than it found, and where it
has found something there are rows for the rewritten query to find.

Assumptions of the proofs are the ASSUMEs of the modules and nothing else: types of
constants; names that must differ (`NoneAssumption`: a channel nobody wrote is no
text; `NoUser`, `NoThread`, `NoRun`, `NoFile`, `Nobody`); finitely many requests in
`Callers` and `Quota`, where weights are summed; a lag of a tick at least and the
window at most in `RateLimiter`; a chunk size that is positive and not below the
overlap and queries for at least one document in `KnowledgeBase`; a pool of at least
one connection and a cooldown above zero.  The bounds of the instances (`LastTick`, `LastDay`,
`MaxFaults`, `MaxNodes`, `MaxChunks`, the sizes of the sets) are constants of any
value in them.

Only model-checked are the properties under fairness, which need ENABLED and a
measure: `RunsEnd` and `RunningIsTemporary` (`chat_live`), `LockoutEnds` (`quota`),
`DueIsSent` (`reminders`), `RunsEnd` (`guidelines`), `ShutdownCompletes`
(`service`), `ScriptEnds` (`knowledge`).  The violated properties are not theorems.

## Not modelled

Formatting, prompts, settings, tracing, generated gRPC stubs and migrations hold
no state of the program's own, and the routers for health, metrics and models only
report.  The text a model produces, and the regular expressions and parsers
applied to it, are reduced to what a text may repeat; so `_parse_verdict`, for
which an empty review passes, has no property, and neither has `_parse_intent`,
which walks a set of strings in an order that changes between processes
(`router.py:24`).  `create_scheduler`'s cron expressions are "keeps firing".

Without a caller under `src/`, so that there is no order of calls to model: the
tool registry and the MCP client, the response cache, short-term and entity
memory, the condenser, the prompting nodes, the conflict resolver, `get_user`,
`list_tasks`.  One reads in them that `MCPClient.connect` registers tools
with a session that is closed when it returns (`mcp/client.py:44-52`), while
`is_connected()` stays true.  `lifespan` fills the LLM registry once with one
mock adapter, which cannot fail; its fallback chain is never walked.

`sync_manager` reports to the user through the model after the tasks are created:
when a backend raises what is no `ToolError` (a lost connection to Notion or Jira)
or the model fails, the run fails and a second one creates the tasks again.
`Teams` has these runs (`AgentRaises`); nothing in the code promises that a
retry repeats nothing, so no property says so.  `PROJECT.json` lists every part
with its status.

## Plan

All planned modules and proofs of safety are there.  What would say more, in order:
contracts like `AnswerContract` for the accounting (a limit per period, spent
without regard to jobs and sessions), for the reminder job (a reminder is due, then
sent) and for the indexed files, with `Quota`, `Reminders` and `KnowledgeBase` shown
to implement them; the commit of `yaml_architect` as a contract of file and HEAD;
and the tool registry and MCP client, as soon as the code calls them.
