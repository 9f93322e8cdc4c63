-------------------------------- MODULE Quota --------------------------------
(***************************************************************************)
(* Token accounting: the check that lets a chat request in, the rows a     *)
(* finished answer adds for each period, and the two scheduler jobs that   *)
(* delete them.  ChatStream counts every answer as one token and is about  *)
(* the thread; here messages and answers weigh what they weigh, and the    *)
(* jobs go through the active users one commit at a time.  Nothing in the  *)
(* repository switches a user off; an operator who does so in the database *)
(* keeps the user from the jobs, and get_current_user lets them in still.  *)
(*                                                                         *)
(* The check weighs the message, the row weighs the answer, and several    *)
(* awaits lie between them: the question is by how much usage can pass a   *)
(* limit, and whether a user who passed one is ever let in again.          *)
(***************************************************************************)
EXTENDS Naturals, Sequences, SequencesExt, Callers

CONSTANTS
    Chats,          \* the requests that start or resume a chat
    Message,        \* tokens of each request's message, as count_tokens has it
    Answer,         \* tokens of its answer
    Limit,          \* token limit of each period
    JobsFail        \* whether the database may fail under a job

Periods == {"daily", "weekly", "monthly"}
Jobs == {"daily", "weekly"}

ASSUME ChatAssumption == Chats \subseteq Requests
ASSUME WeightAssumption == Message \in [Requests -> Nat] /\ Answer \in [Requests -> Nat]
ASSUME LimitAssumption == Limit \in [Periods -> Nat]
ASSUME JobsFailAssumption == JobsFail \in BOOLEAN

VARIABLES
    rows,       \* rows of token_usage as <<request, period>>
    pc,         \* where each request is
    resumed,    \* history: requests that resumed a paused thread
    off,        \* the users whose is_active is false
    todo,       \* the users a running job has still to reset, in its order
    job,        \* whether each job runs
    wave        \* history: u's requests under way when one last passed the check

vars == <<callerVars, rows, pc, resumed, off, todo, job, wave>>

\* A period: the stream is under way, and that is the next row to record.
PC == {"idle", "closed"} \cup Periods

TypeOK ==
    /\ CallersTypeOK
    /\ rows \subseteq Requests \X Periods
    /\ pc \in [Requests -> PC]
    /\ resumed \subseteq Requests
    /\ off \subseteq Users
    /\ todo \in [Jobs -> Seq(Users)]
    /\ job \in [Jobs -> {"idle", "resetting"}]
    /\ wave \in [Users -> SUBSET Requests]

Init ==
    /\ CallersInit
    /\ rows = {}
    /\ pc = [r \in Requests |-> "idle"]
    /\ resumed = {}
    /\ off = {}
    /\ todo = [p \in Jobs |-> <<>>]
    /\ job = [p \in Jobs |-> "idle"]
    /\ wave = [u \in Users |-> {}]

-----------------------------------------------------------------------------
RowsOf(u, p) == {row \in rows : row[2] = p /\ Caller[row[1]] = u}

\* The sum over R of the rows' tokens, as the number of those tokens.
Tokens(R) == Cardinality(UNION {{row} \X (1..Answer[row[1]]) : row \in R})

Total(u, p) == Tokens(RowsOf(u, p))

\* Variant: the loop over the limits forgets the last.
WithinLimitTwo(u, n) == \A p \in {"daily", "weekly"} : Total(u, p) + n <= Limit[p]

\* check_limit: one transaction, so one state, for the three periods.
WithinLimit(u, n) == \A p \in Periods : Total(u, p) + n <= Limit[p]

UnderWay(u) == {r \in Requests : Caller[r] = u /\ pc[r] \in Periods}

\* Every request first goes through Callers, and only a chat goes further.
Authenticate(r) ==
    /\ Enter(r)
    /\ UNCHANGED <<rows, pc, resumed, off, todo, job, wave>>

Ready(r) == r \in Chats /\ auth[r] = "in" /\ pc[r] = "idle"

Chat(r) ==
    /\ Ready(r)
    /\ WithinLimit(Caller[r], Message[r])
    /\ pc' = [pc EXCEPT ![r] = "daily"]
    /\ wave' = [wave EXCEPT ![Caller[r]] = UnderWay(Caller[r]) \cup {r}]
    /\ UNCHANGED <<callerVars, rows, resumed, off, todo, job>>

ChatRefused(r) ==
    /\ Ready(r)
    /\ ~WithinLimit(Caller[r], Message[r])
    /\ pc' = [pc EXCEPT ![r] = "closed"]
    /\ UNCHANGED <<callerVars, rows, resumed, off, todo, job, wave>>

\* resume_chat makes a QuotaRepository and does not ask it.  Which threads
\* wait for approval is ChatStream's matter: here any request may resume one.
ResumeChat(r) ==
    /\ Ready(r)
    /\ pc' = [pc EXCEPT ![r] = "daily"]
    /\ resumed' = resumed \cup {r}
    /\ UNCHANGED <<callerVars, rows, off, todo, job, wave>>

\* Variant: a period of another name.
AfterYearly == [daily |-> "weekly", weekly |-> "yearly", monthly |-> "closed"]

After == [daily |-> "weekly", weekly |-> "monthly", monthly |-> "closed"]

RecordUsage(r) ==
    /\ pc[r] \in Periods
    /\ rows' = rows \cup {<<r, pc[r]>>}
    /\ pc' = [pc EXCEPT ![r] = After[@]]
    /\ UNCHANGED <<callerVars, resumed, off, todo, job, wave>>

\* The run pauses, fails or loses its client: what it recorded stays.
Stop(r) ==
    /\ pc[r] \in Periods
    /\ pc' = [pc EXCEPT ![r] = "closed"]
    /\ UNCHANGED <<callerVars, rows, resumed, off, todo, job, wave>>

-----------------------------------------------------------------------------
(* reset_daily and reset_weekly; max_instances = 1.                        *)

\* Variant: the users are those who have used tokens today.
JobBeginsRecorded(p) ==
    /\ job[p] = "idle"
    /\ job' = [job EXCEPT ![p] = "resetting"]
    /\ \E list \in SetToSeqs({u \in known \ off : RowsOf(u, "daily") # {}}) :
         todo' = [todo EXCEPT ![p] = list]
    /\ UNCHANGED <<callerVars, rows, pc, resumed, off, wave>>

\* The trigger fires; _get_all_user_ids, in a session of its own, takes the
\* users that are active now, in whatever order the database returns them.
JobBegins(p) ==
    /\ job[p] = "idle"
    /\ job' = [job EXCEPT ![p] = "resetting"]
    /\ \E list \in SetToSeqs(known \ off) : todo' = [todo EXCEPT ![p] = list]
    /\ UNCHANGED <<callerVars, rows, pc, resumed, off, wave>>

\* The job has come to u.
ComesTo(p, u) == job[p] = "resetting" /\ todo[p] # <<>> /\ Head(todo[p]) = u

Reset(p, u) ==
    /\ ComesTo(p, u)
    /\ rows' = rows \ RowsOf(u, p)
    /\ todo' = [todo EXCEPT ![p] = Tail(@)]
    /\ UNCHANGED <<callerVars, pc, resumed, off, job, wave>>

JobEnds(p) ==
    /\ job[p] = "resetting" /\ todo[p] = <<>>
    /\ job' = [job EXCEPT ![p] = "idle"]
    /\ UNCHANGED <<callerVars, rows, pc, resumed, off, todo, wave>>

\* An exception leaves the job, with the DELETE it was at committed or not:
\* the users after that one keep their rows until it fires again.
JobFails(p) ==
    /\ JobsFail
    /\ job[p] = "resetting"
    /\ \/ UNCHANGED rows
       \/ \E u \in Users : ComesTo(p, u) /\ rows' = rows \ RowsOf(u, p)
    /\ job' = [job EXCEPT ![p] = "idle"]
    /\ todo' = [todo EXCEPT ![p] = <<>>]
    /\ UNCHANGED <<callerVars, pc, resumed, off, wave>>

\* External: someone sets is_active in the users table.
SwitchUser(u) ==
    /\ u \in known
    /\ \/ u \in off /\ off' = off \ {u}
       \/ u \notin off /\ off' = off \cup {u}
    /\ UNCHANGED <<callerVars, rows, pc, resumed, todo, job, wave>>

-----------------------------------------------------------------------------
Request(r) ==
    \/ Authenticate(r)
    \/ Chat(r) \/ ChatRefused(r) \/ ResumeChat(r)
    \/ RecordUsage(r) \/ Stop(r)

JobStep(p) == JobBegins(p) \/ JobEnds(p) \/ \E u \in Users : Reset(p, u)

Next ==
    \/ \E r \in Requests : Request(r)
    \/ \E p \in Jobs : JobStep(p) \/ JobFails(p)
    \/ \E u \in Users : SwitchUser(u)

Spec == Init /\ [][Next]_vars

\* Cron triggers go on firing, the event loop runs the jobs, and the database
\* does not fail each time a job comes to the same user: a job that fails at
\* one user never comes to those after it, so nothing is assumed of them.
FairSpec ==
    /\ Spec
    /\ \A p \in Jobs : WF_vars(JobStep(p)) /\ \A u \in Users : SF_vars(Reset(p, u))

-----------------------------------------------------------------------------
\* quota_repo.py:38-47 against chat.py:83 and chat.py:59-62: what a user has
\* used in a period, less the answers that were under way together when a
\* request of theirs last passed the check, and those of resumed threads,
\* fits the limit.  So concurrent requests pass a limit once, by at most
\* their own answers, and never add up from one check to the next.
OvershootIsOneWave ==
    \A u \in Users, p \in Periods :
        Tokens({row \in RowsOf(u, p) : row[1] \notin wave[u] \cup resumed}) <= Limit[p]

LockedOut(u, p) == Total(u, p) >= Limit[p]

\* quota_reset.py:20-50: a user at the daily or the weekly limit is below it
\* again, wherever jobs fail on the way to them, unless they are switched off.
LockoutEnds ==
    \A u \in {Caller[r] : r \in Chats}, p \in Jobs :
        LockedOut(u, p) ~> ~LockedOut(u, p) \/ u \in off

\* AI_ARCH.MD:217 has quota_reset.py reset the monthly counters too.
MonthlyLockoutEnds ==
    \A u \in Users : LockedOut(u, "monthly") ~> ~LockedOut(u, "monthly")
=============================================================================
