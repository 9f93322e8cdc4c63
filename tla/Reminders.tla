------------------------------ MODULE Reminders ------------------------------
(***************************************************************************)
(* The reminder job: what is due and unsent is fetched in one session, and *)
(* in another each is pushed and then marked.  Between a push and its mark *)
(* lie the mark's SELECT and its commit, and beside the job DELETE of the  *)
(* thread takes its reminders with it, the day turns, the webhook or the   *)
(* database fails, and the process may stop at any await.                  *)
(***************************************************************************)
EXTENDS Naturals, Sequences, SequencesExt

CONSTANTS
    Ids,            \* reminders the table may ever hold
    Deadline,       \* the day each is due
    LastDay,        \* bound: the days the model runs for
    Deliverable,    \* reminders the webhook takes in the end
    MaxFaults,      \* bound: faults that happen in all
    None            \* no record, no transaction

ASSUME DeadlineAssumption == Deadline \in [Ids -> Nat]
ASSUME DayAssumption == LastDay \in Nat /\ MaxFaults \in Nat
ASSUME DeliverableAssumption == Deliverable \subseteq Ids /\ None \notin Ids

VARIABLES
    row,        \* row[i]: the reminder's row
    today,
    pc,         \* where the job is
    pending,    \* the records it has fetched and not yet come to
    current,    \* the record it has in hand
    snap,       \* the rows its session's transaction sees
    pushed,     \* history: how often each was pushed
    lostMarks,  \* history: pushes left without a mark, as their answer or mark was lost
    faults      \* faults so far

vars == <<row, today, pc, pending, current, snap, pushed, lostMarks, faults>>
jobVars == <<pc, pending, current, snap>>

Rows == {"none", "unsent", "sent", "deleted"}

TypeOK ==
    /\ row \in [Ids -> Rows]
    /\ today \in 0..LastDay
    /\ pc \in {"idle", "next", "mark", "commit"}
    /\ pending \in Seq(Ids) /\ current \in Ids \cup {None}
    /\ snap \in [Ids -> Rows] \cup {None}
    /\ pushed \in [Ids -> Nat]
    /\ lostMarks \in [Ids -> Nat]
    /\ faults \in 0..MaxFaults

Init ==
    /\ row = [i \in Ids |-> "none"]
    /\ today = 0
    /\ pc = "idle" /\ pending = <<>> /\ current = None /\ snap = None
    /\ pushed = [i \in Ids |-> 0]
    /\ lostMarks = [i \in Ids |-> 0]
    /\ faults = 0

-----------------------------------------------------------------------------
(* Beside the job.                                                         *)

\* Variant: a state that get_pending does not know.
CreatePending(i) ==
    /\ row[i] = "none"
    /\ row' = [row EXCEPT ![i] = "pending"]
    /\ UNCHANGED <<today, pushed, lostMarks, faults, jobVars>>

\* A reminder is created, for any day: ReminderRepository.create.
Create(i) ==
    /\ row[i] = "none"
    /\ row' = [row EXCEPT ![i] = "unsent"]
    /\ UNCHANGED <<today, pushed, lostMarks, faults, jobVars>>

\* Its thread or its user is deleted: ON DELETE CASCADE.
Delete(i) ==
    /\ row[i] \in {"unsent", "sent"}
    /\ row' = [row EXCEPT ![i] = "deleted"]
    /\ UNCHANGED <<today, pushed, lostMarks, faults, jobVars>>

NextDay ==
    /\ today < LastDay
    /\ today' = today + 1
    /\ UNCHANGED <<row, pushed, lostMarks, faults, jobVars>>

-----------------------------------------------------------------------------
(* run_reminder_job; max_instances = 1, so the next run waits for this one.*)

Due == {i \in Ids : row[i] = "unsent" /\ Deadline[i] <= today}

\* get_pending, in a session of its own: by deadline, ties in any order.
Fetch ==
    /\ pc = "idle"
    /\ \E order \in SetToSeqs(Due) :
         /\ \A a, b \in 1..Len(order) : a < b => Deadline[order[a]] <= Deadline[order[b]]
         /\ pending' = order
    /\ pc' = "next"
    /\ UNCHANGED <<row, today, current, snap, pushed, lostMarks, faults>>

Finish ==
    /\ pc = "next" /\ pending = <<>>
    /\ pc' = "idle" /\ snap' = None
    /\ UNCHANGED <<row, today, pending, current, pushed, lostMarks, faults>>

\* send_reminder returns True: the push is out of the process.
Push ==
    /\ pc = "next" /\ pending # <<>>
    /\ pushed' = [pushed EXCEPT ![Head(pending)] = @ + 1]
    /\ current' = Head(pending) /\ pending' = Tail(pending)
    /\ pc' = "mark"
    /\ UNCHANGED <<row, today, snap, lostMarks, faults>>

\* Variant: a failed push ends the job.
PushFailsAborts ==
    /\ pc = "next" /\ pending # <<>>
    /\ pending' = <<>>
    /\ UNCHANGED <<row, today, pc, current, snap, pushed, lostMarks, faults>>

\* Variant: the result of the push is not looked at.
PushFailsMarks ==
    /\ pc = "next" /\ pending # <<>>
    /\ current' = Head(pending) /\ pending' = Tail(pending)
    /\ pc' = "mark"
    /\ UNCHANGED <<row, today, snap, pushed, lostMarks, faults>>

\* send_reminder returns False: the record waits for a later run.
PushFails ==
    /\ pc = "next" /\ pending # <<>>
    /\ pending' = Tail(pending)
    /\ UNCHANGED <<row, today, pc, current, snap, pushed, lostMarks, faults>>

\* The webhook takes the post, and its answer is lost, late or an error:
\* send_reminder returns False for a reminder that is out.
PushUnanswered ==
    /\ pc = "next" /\ pending # <<>>
    /\ faults < MaxFaults /\ faults' = faults + 1
    /\ pushed' = [pushed EXCEPT ![Head(pending)] = @ + 1]
    /\ lostMarks' = [lostMarks EXCEPT ![Head(pending)] = @ + 1]
    /\ pending' = Tail(pending)
    /\ UNCHANGED <<row, today, pc, current, snap>>

\* mark_sent's SELECT.  For a row that is not there it returns without a
\* commit, and the transaction stays open for the records to come.
Mark ==
    LET seen == IF snap = None THEN row ELSE snap
        there == seen[current] \in {"unsent", "sent"}
    IN  /\ pc = "mark"
        /\ snap' = seen
        /\ pc' = IF there THEN "commit" ELSE "next"
        /\ current' = IF there THEN current ELSE None
        /\ UNCHANGED <<row, today, pending, pushed, lostMarks, faults>>

\* Variant: is_sent is set and never committed.
CommitLost ==
    /\ pc = "commit"
    /\ snap' = None /\ pc' = "next" /\ current' = None
    /\ UNCHANGED <<row, today, pending, pushed, lostMarks, faults>>

\* The job's exceptions reach the scheduler, which logs them: the records it
\* had not come to stay unsent, and the session is closed.
Abort ==
    /\ pc' = "idle" /\ pending' = <<>> /\ current' = None /\ snap' = None

\* mark_sent's UPDATE and commit; when the row has been deleted since the
\* SELECT, the flush raises StaleDataError.
Commit ==
    /\ pc = "commit"
    /\ IF row[current] = "deleted"
       THEN Abort /\ UNCHANGED row
       ELSE /\ row' = [row EXCEPT ![current] = "sent"]
            /\ snap' = None /\ pc' = "next" /\ current' = None
            /\ UNCHANGED pending
    /\ UNCHANGED <<today, pushed, lostMarks, faults>>

\* The database fails, or the process stops and starts again.
Fault ==
    /\ pc # "idle"
    /\ faults < MaxFaults /\ faults' = faults + 1
    /\ lostMarks' = [i \in Ids |-> IF current = i THEN lostMarks[i] + 1 ELSE lostMarks[i]]
    /\ Abort
    /\ UNCHANGED <<row, today, pushed>>

\* The mark's commit reaches the database and its acknowledgement is lost.
CommitUnacknowledged ==
    /\ pc = "commit" /\ row[current] # "deleted"
    /\ faults < MaxFaults /\ faults' = faults + 1
    /\ row' = [row EXCEPT ![current] = "sent"]
    /\ Abort
    /\ UNCHANGED <<today, pushed, lostMarks>>

-----------------------------------------------------------------------------
JobStep == Fetch \/ Finish \/ Push \/ PushFails \/ Mark \/ Commit

Next ==
    \/ \E i \in Ids : Create(i) \/ Delete(i)
    \/ NextDay \/ JobStep \/ PushUnanswered \/ Fault \/ CommitUnacknowledged

Spec == Init /\ [][Next]_vars

PushOf(i) == pending # <<>> /\ Head(pending) = i /\ Push

\* The interval trigger goes on firing, the event loop runs the job, and the
\* webhook does not refuse a deliverable reminder for ever.  The faults that
\* may happen, lost answers among them, are finitely many.
FairSpec ==
    /\ Spec
    /\ WF_vars(JobStep)
    /\ \A i \in Deliverable : SF_vars(PushOf(i))

-----------------------------------------------------------------------------
\* reminder.py:94-99: a reminder is pushed again only for a push whose answer
\* or whose mark a fault lost.  Deletions, pushes that do not arrive, the turn
\* of the day and the open transaction a missing row leaves behind cause no
\* second push, and one fault causes one at the most.
PushedOncePerLostMark == \A i \in Ids : pushed[i] <= 1 + lostMarks[i]

\* A reminder that the table calls sent was pushed, and on its day or later
\* (reminder_repo.py:13-29).
SentWasPushed ==
    \A i \in Ids : row[i] = "sent" => pushed[i] > 0 /\ Deadline[i] <= today

\* A due reminder that the webhook takes in the end is sent, or deleted,
\* whatever becomes of the others: one that always fails holds up none.
DueIsSent == \A i \in Deliverable : i \in Due ~> row[i] \in {"sent", "deleted"}
=============================================================================
