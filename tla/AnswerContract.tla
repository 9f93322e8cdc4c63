---------------------------- MODULE AnswerContract ----------------------------
(***************************************************************************)
(* What the chat API promises, and nothing of how it is done: a run is     *)
(* accepted on a thread, says what came of it on its stream, is billed,    *)
(* and its thread's status in the table follows what was said.  ChatStream *)
(* is shown to implement this (ChatRefinement).                            *)
(***************************************************************************)
CONSTANTS Threads, Runs, NoThread

VARIABLES
    status,     \* status[t]: what GET /sessions shows
    of,         \* of[r]: the thread run r was accepted on
    told,       \* told[r]: the outcomes r's client has been told
    paid,       \* the runs whose answer is billed
    over        \* the runs that do nothing any more

vars == <<status, of, told, paid, over>>

Final == {"awaiting_approval", "completed", "error"}
There(t) == status[t] \notin {"none", "deleted"}

\* The status that a client who was told S expects: an error is the last word.
Expected(S) ==
    CASE "error" \in S -> "error"
      [] S = {"done"} -> "completed"
      [] S = {"awaiting_approval"} -> "awaiting_approval"

Init ==
    /\ status = [t \in Threads |-> "none"]
    /\ of = [r \in Runs |-> NoThread]
    /\ told = [r \in Runs |-> {}]
    /\ paid = {}
    /\ over = {}

\* A new thread, of a run whose client need not live to see it.
Open(t) ==
    /\ status[t] = "none"
    /\ status' = [status EXCEPT ![t] = "active"]
    /\ \/ UNCHANGED of
       \/ \E r \in Runs : of[r] = NoThread /\ of' = [of EXCEPT ![r] = t]
    /\ UNCHANGED <<told, paid>>

\* A run is accepted on a thread that is there, once.
Accept(r, t) ==
    /\ of[r] = NoThread /\ There(t)
    /\ of' = [of EXCEPT ![r] = t]
    /\ UNCHANGED <<status, told, paid>>

\* It sets its thread running, unless it has had its say.
Begin(r) ==
    /\ of[r] # NoThread /\ There(of[r])
    /\ told[r] = {} /\ r \notin paid
    /\ status' = [status EXCEPT ![of[r]] = "running"]
    /\ UNCHANGED <<of, told, paid>>

Bill(r) ==
    /\ told[r] = {}
    /\ paid' = paid \cup {r}
    /\ UNCHANGED <<status, of, told>>

\* One outcome, "done" only of a billed answer; after it only an error.
Tell(r, e) ==
    /\ "error" \notin told[r]
    /\ e # "error" => told[r] = {}
    /\ e = "done" => r \in paid
    /\ told' = [told EXCEPT ![r] = @ \cup {e}]
    /\ UNCHANGED <<status, of, paid>>

\* The thread's status becomes what this run's client expects.
Settle(r) ==
    /\ of[r] # NoThread /\ There(of[r])
    /\ told[r] # {}
    /\ status' = [status EXCEPT ![of[r]] = Expected(told[r])]
    /\ UNCHANGED <<of, told, paid>>

Delete(t) ==
    /\ There(t)
    /\ status' = [status EXCEPT ![t] = "deleted"]
    /\ UNCHANGED <<of, told, paid>>

RunDoes(r) ==
    /\ r \notin over
    /\ \/ \E t \in Threads : Accept(r, t)
       \/ Begin(r) \/ Bill(r) \/ Settle(r)
       \/ \E e \in {"awaiting_approval", "done", "error"} : Tell(r, e)

\* Any step may be the last one of some runs.
Next ==
    /\ \/ \E r \in Runs : RunDoes(r)
       \/ \E t \in Threads : Open(t) \/ Delete(t)
       \/ UNCHANGED <<status, of, told, paid>>
    /\ over \subseteq over' /\ over' \subseteq Runs

Spec == Init /\ [][Next]_vars
=============================================================================
