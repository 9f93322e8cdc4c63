---------------------------- MODULE RemindersProofs ---------------------------
(***************************************************************************)
(* The reminder job pushes no reminder twice but for a lost answer or mark,*)
(* for any table of reminders, any days and any number of faults.  The     *)
(* argument: a record the job has still to come to is unsent, or was       *)
(* deleted since it was fetched, and stands in the list once; so when it is*)
(* in hand it has been pushed once more than answers and marks were lost,  *)
(* and it leaves the job's hand marked, deleted for good, or with its mark *)
(* counted as lost.  The transaction a  *)
(* missing row leaves open does not disturb this, since it was opened      *)
(* after the fetch: a row it does not see was deleted after the fetch too. *)
(***************************************************************************)
EXTENDS Reminders, FiniteSetTheorems, TLAPS

Written == {i \in Ids : row[i] # "none"}

\* A record the job has still to come to, or has in hand.
Open(i) == row[i] \in {"unsent", "deleted"} /\ Deadline[i] <= today

\* The transaction that is open does not see a row less than there is.
SnapSees(i) == snap # None => snap[i] \in {"unsent", "deleted"}
                              /\ (snap[i] = "deleted" => row[i] = "deleted")

Places ==
    /\ pc = "idle" => pending = <<>> /\ snap = None
    /\ pc \in {"mark", "commit"} <=> current # None

Waits ==
    \A a \in 1..Len(pending) :
        /\ Open(pending[a]) /\ SnapSees(pending[a])
        /\ pushed[pending[a]] <= lostMarks[pending[a]]
        /\ pending[a] # current
        /\ \A b \in 1..Len(pending) : a # b => pending[a] # pending[b]

InHand ==
    current # None =>
        /\ Open(current) /\ SnapSees(current)
        /\ pushed[current] > 0 /\ pushed[current] <= 1 + lostMarks[current]

Counts ==
    \A i \in Ids :
        /\ pushed[i] <= 1 + lostMarks[i]
        /\ row[i] \in {"none", "unsent"} /\ i # current => pushed[i] <= lostMarks[i]

IInv ==
    /\ TypeOK /\ IsFiniteSet(Written)
    /\ Places /\ Waits /\ InHand /\ Counts /\ SentWasPushed

-----------------------------------------------------------------------------
LEMMA HeadTail ==
    ASSUME NEW S, NEW s \in Seq(S), s # <<>>
    PROVE  /\ Len(s) \in Nat \ {0} /\ Len(Tail(s)) = Len(s) - 1
           /\ Head(s) = s[1] /\ Head(s) \in S /\ Tail(s) \in Seq(S)
           /\ \A a \in 1..Len(Tail(s)) : Tail(s)[a] = s[a + 1] /\ a + 1 \in 1..Len(s)
  OBVIOUS

LEMMA InitIInv == Init => IInv
  <1> SUFFICES ASSUME Init PROVE IInv
    OBVIOUS
  <1>1. TypeOK
    BY DayAssumption DEF Init, TypeOK, Rows
  <1>2. IsFiniteSet(Written)
    <2>1. Written = {}
      BY DEF Init, Written
    <2> QED BY <2>1, FS_EmptySet
  <1>3. Places /\ Waits /\ InHand /\ Counts /\ SentWasPushed
    BY DEF Init, Places, Waits, InHand, Counts, SentWasPushed
  <1> QED BY <1>1, <1>2, <1>3 DEF IInv

\* No row is born of the job's steps.
LEMMA SameWritten ==
    ASSUME TypeOK, IsFiniteSet(Written), \A i \in Ids : row'[i] # "none" => row[i] # "none"
    PROVE  IsFiniteSet(Written')
  <1>1. Written' \subseteq Written
    BY DEF Written
  <1> QED BY <1>1, FS_Subset

-----------------------------------------------------------------------------
(* Beside the job.                                                         *)

LEMMA CreateStep ==
    ASSUME IInv, NEW i \in Ids, Create(i)
    PROVE  IInv'
  <1> USE DEF IInv, Create, jobVars
  <1>1. TypeOK'
    BY DEF TypeOK, Rows
  <1>2. IsFiniteSet(Written')
    <2>1. Written' = Written \cup {i}
      BY DEF Written, TypeOK
    <2> QED BY <2>1, FS_AddElement
  <1>3. /\ \A j \in Ids : row[j] \in {"unsent", "deleted", "sent"} => row'[j] = row[j]
        /\ \A a \in 1..Len(pending) : pending[a] \in Ids
        /\ current # None => current \in Ids
    BY DEF TypeOK
  <1>4. Places' /\ SentWasPushed' /\ Counts'
    BY DEF Places, SentWasPushed, Counts, TypeOK
  <1>5. Waits' /\ InHand'
    BY <1>3 DEF Waits, InHand, Open, SnapSees
  <1> QED BY <1>1, <1>2, <1>4, <1>5

LEMMA DeleteStep ==
    ASSUME IInv, NEW i \in Ids, Delete(i)
    PROVE  IInv'
  <1> USE DEF IInv, Delete, jobVars
  <1>1. TypeOK'
    BY DEF TypeOK, Rows
  <1>2. IsFiniteSet(Written')
    BY SameWritten DEF TypeOK
  <1>3. /\ \A j \in Ids : row'[j] = row[j] \/ row'[j] = "deleted"
        /\ \A a \in 1..Len(pending) : pending[a] \in Ids
        /\ current # None => current \in Ids
    BY DEF TypeOK
  <1>4. Places' /\ SentWasPushed' /\ Counts'
    BY <1>3 DEF Places, SentWasPushed, Counts
  <1>5. Waits' /\ InHand'
    BY <1>3 DEF Waits, InHand, Open, SnapSees
  <1> QED BY <1>1, <1>2, <1>4, <1>5

LEMMA NextDayStep ==
    ASSUME IInv, NextDay
    PROVE  IInv'
  <1> USE DEF IInv, NextDay, jobVars
  <1>1. TypeOK' /\ today \in Nat /\ today' = today + 1
    BY DayAssumption DEF TypeOK
  <1>2. IsFiniteSet(Written')
    BY SameWritten DEF TypeOK
  <1>3. /\ \A j \in Ids : Deadline[j] \in Nat
        /\ \A a \in 1..Len(pending) : pending[a] \in Ids
        /\ current # None => current \in Ids
    BY DeadlineAssumption DEF TypeOK
  <1>4. Places' /\ SentWasPushed' /\ Counts'
    BY <1>1, <1>3 DEF Places, SentWasPushed, Counts
  <1>5. Waits' /\ InHand'
    BY <1>1, <1>3 DEF Waits, InHand, Open, SnapSees
  <1> QED BY <1>1, <1>2, <1>4, <1>5

-----------------------------------------------------------------------------
(* The job.                                                                *)

\* What is fetched are the due rows, each of them once.
LEMMA FetchOrder ==
    ASSUME IInv, NEW order \in SetToSeqs(Due)
    PROVE  /\ order \in Seq(Ids)
           /\ \A a \in 1..Len(order) : order[a] \in Due
           /\ \A a, b \in 1..Len(order) : a # b => order[a] # order[b]
  <1>1. IsFiniteSet(Due)
    <2>1. Due \subseteq Written
      BY DEF Due, Written
    <2> QED BY <2>1, FS_Subset DEF IInv
  <1>2. Cardinality(Due) \in Nat
    BY <1>1, FS_CardinalityType
  <1>3. order \in [1..Cardinality(Due) -> Due]
        /\ \A a, b \in 1..Cardinality(Due) : a # b => order[a] # order[b]
    BY DEF SetToSeqs
  <1>4. order \in Seq(Due) /\ Len(order) = Cardinality(Due)
    BY <1>2, <1>3
  <1>5. order \in Seq(Ids)
    BY <1>4 DEF Due
  <1> QED BY <1>3, <1>4, <1>5

LEMMA FetchStep ==
    ASSUME IInv, Fetch
    PROVE  IInv'
  <1> USE DEF IInv, Fetch
  <1>1. PICK order \in SetToSeqs(Due) : pending' = order
    OBVIOUS
  <1>2. TypeOK'
    BY <1>1, FetchOrder DEF TypeOK
  <1>3. IsFiniteSet(Written')
    BY SameWritten
  <1>4. current = None /\ snap = None
    BY DEF Places, TypeOK
  <1>5. Places' /\ InHand' /\ Counts' /\ SentWasPushed'
    BY <1>4 DEF Places, InHand, Counts, SentWasPushed
  <1>6. Waits'
    <2> SUFFICES ASSUME NEW a \in 1..Len(order)
                 PROVE  /\ Open(order[a]) /\ pushed[order[a]] <= lostMarks[order[a]]
                        /\ order[a] # None
      BY <1>1, <1>4, FetchOrder DEF Waits, Open, SnapSees
    <2>1. order[a] \in Ids /\ row[order[a]] = "unsent" /\ Deadline[order[a]] <= today
      BY FetchOrder DEF Due
    <2> QED BY <1>4, <2>1, DeliverableAssumption DEF Open, Counts
  <1> QED BY <1>2, <1>3, <1>5, <1>6

LEMMA FinishStep ==
    ASSUME IInv, Finish
    PROVE  IInv'
  <1> USE DEF IInv, Finish
  <1>1. TypeOK'
    BY DEF TypeOK
  <1>2. IsFiniteSet(Written')
    BY SameWritten
  <1>3. current = None
    BY DEF Places
  <1>4. Places' /\ Counts' /\ SentWasPushed'
    BY <1>3 DEF Places, Counts, SentWasPushed
  <1>5. Waits' /\ InHand'
    BY <1>3 DEF Waits, InHand
  <1> QED BY <1>1, <1>2, <1>4, <1>5

\* What holds of the records still to come holds of all but the first.
LEMMA TailWaits ==
    ASSUME IInv, pending # <<>>, pc = "next", pending' = Tail(pending),
           UNCHANGED <<row, today, snap>>,
           \A i \in Ids : i # Head(pending) =>
               pushed'[i] = pushed[i] /\ lostMarks'[i] = lostMarks[i],
           current' \in {Head(pending), None}
    PROVE  Waits'
  <1> SUFFICES ASSUME NEW a \in 1..Len(Tail(pending))
               PROVE  /\ Open(Tail(pending)[a]) /\ SnapSees(Tail(pending)[a])
                      /\ pushed'[Tail(pending)[a]] <= lostMarks'[Tail(pending)[a]]
                      /\ Tail(pending)[a] # current'
                      /\ \A b \in 1..Len(Tail(pending)) : a # b => Tail(pending)[a] # Tail(pending)[b]
    BY DEF Waits, Open, SnapSees
  <1>1. /\ Len(pending) \in Nat \ {0} /\ Head(pending) = pending[1]
        /\ \A b \in 1..Len(Tail(pending)) :
              Tail(pending)[b] = pending[b + 1] /\ b + 1 \in 1..Len(pending)
        /\ Tail(pending) \in Seq(Ids) /\ Tail(pending)[a] \in Ids
    BY HeadTail DEF IInv, TypeOK
  <1>2. pending[a + 1] # pending[1]
    BY <1>1 DEF IInv, Waits
  <1>3. /\ Open(pending[a + 1]) /\ SnapSees(pending[a + 1])
        /\ pushed[pending[a + 1]] <= lostMarks[pending[a + 1]]
    BY <1>1 DEF IInv, Waits
  <1>4. Tail(pending)[a] # current'
    BY <1>1, <1>2, DeliverableAssumption
  <1>5. ASSUME NEW b \in 1..Len(Tail(pending)), a # b
        PROVE  Tail(pending)[a] # Tail(pending)[b]
    BY <1>1, <1>5 DEF IInv, Waits
  <1> QED BY <1>1, <1>2, <1>3, <1>4, <1>5

LEMMA PushStep ==
    ASSUME IInv, Push
    PROVE  IInv'
  <1> USE DEF IInv, Push
  <1>1. /\ Head(pending) \in Ids /\ Head(pending) = pending[1] /\ 1 \in 1..Len(pending)
        /\ Tail(pending) \in Seq(Ids)
    BY HeadTail DEF TypeOK
  <1>2. TypeOK'
    BY <1>1 DEF TypeOK
  <1>3. IsFiniteSet(Written')
    BY SameWritten
  <1>4. Places'
    BY <1>1, DeliverableAssumption DEF Places
  <1>5. Waits'
    BY TailWaits DEF TypeOK
  <1>6. /\ Open(Head(pending)) /\ SnapSees(Head(pending))
        /\ pushed[Head(pending)] <= lostMarks[Head(pending)]
        /\ pushed[Head(pending)] \in Nat /\ lostMarks[Head(pending)] \in Nat
        /\ pushed'[Head(pending)] = pushed[Head(pending)] + 1
    BY <1>1 DEF Waits, TypeOK
  <1>7. InHand'
    BY <1>1, <1>6 DEF InHand, Open, SnapSees
  <1>8. Counts' /\ SentWasPushed'
    <2> SUFFICES ASSUME NEW i \in Ids
                 PROVE  /\ pushed'[i] <= 1 + lostMarks'[i]
                        /\ row'[i] \in {"none", "unsent"} /\ i # current' => pushed'[i] <= lostMarks'[i]
                        /\ row'[i] = "sent" => pushed'[i] > 0 /\ Deadline[i] <= today'
      BY DEF Counts, SentWasPushed
    <2>1. CASE i = Head(pending)
      BY <1>6, <2>1 DEF Open
    <2>2. CASE i # Head(pending)
      <3>1. pushed'[i] = pushed[i] /\ current = None
        BY <2>2 DEF TypeOK, Places
      <3> QED BY <2>2, <3>1, DeliverableAssumption DEF Counts, SentWasPushed
    <2> QED BY <2>1, <2>2
  <1> QED BY <1>2, <1>3, <1>4, <1>5, <1>7, <1>8

LEMMA PushFailsStep ==
    ASSUME IInv, PushFails
    PROVE  IInv'
  <1> USE DEF IInv, PushFails
  <1>1. TypeOK'
    BY HeadTail DEF TypeOK
  <1>2. IsFiniteSet(Written')
    BY SameWritten
  <1>3. current = None
    BY DEF Places
  <1>4. Places' /\ InHand' /\ Counts' /\ SentWasPushed'
    BY <1>3 DEF Places, InHand, Counts, SentWasPushed
  <1>5. Waits'
    BY <1>3, TailWaits
  <1> QED BY <1>1, <1>2, <1>4, <1>5

LEMMA PushUnansweredStep ==
    ASSUME IInv, PushUnanswered
    PROVE  IInv'
  <1> USE DEF IInv, PushUnanswered
  <1>1. /\ Head(pending) \in Ids /\ Head(pending) = pending[1] /\ 1 \in 1..Len(pending)
        /\ Tail(pending) \in Seq(Ids)
    BY HeadTail DEF TypeOK
  <1>2. TypeOK'
    BY <1>1, DayAssumption DEF TypeOK
  <1>3. IsFiniteSet(Written')
    BY SameWritten
  <1>4. current = None
    BY DEF Places
  <1>5. Waits'
    BY <1>4, TailWaits DEF TypeOK
  <1>6. /\ row[Head(pending)] \in {"unsent", "deleted"}
        /\ pushed[Head(pending)] <= lostMarks[Head(pending)]
        /\ pushed[Head(pending)] \in Nat /\ lostMarks[Head(pending)] \in Nat
        /\ pushed'[Head(pending)] = pushed[Head(pending)] + 1
        /\ lostMarks'[Head(pending)] = lostMarks[Head(pending)] + 1
    BY <1>1 DEF Waits, Open, TypeOK
  <1>7. \A i \in Ids : i # Head(pending) =>
            pushed'[i] = pushed[i] /\ lostMarks'[i] = lostMarks[i]
    BY DEF TypeOK
  <1>8. Places' /\ InHand'
    BY <1>4 DEF Places, InHand
  <1>9. Counts' /\ SentWasPushed'
    BY <1>4, <1>6, <1>7 DEF Counts, SentWasPushed
  <1> QED BY <1>2, <1>3, <1>5, <1>8, <1>9

LEMMA MarkStep ==
    ASSUME IInv, Mark
    PROVE  IInv'
  <1> USE DEF IInv, Mark
  <1> DEFINE seen == IF snap = None THEN row ELSE snap
             there == seen[current] \in {"unsent", "sent"}
  <1>1. current # None /\ current \in Ids
    BY DEF Places, TypeOK
  <1>2. /\ snap' = seen /\ pc' = IF there THEN "commit" ELSE "next"
        /\ current' = IF there THEN current ELSE None
    OBVIOUS
  <1>3. TypeOK'
    <2>1. seen \in [Ids -> Rows]
      BY DEF TypeOK
    <2> HIDE DEF seen
    <2> QED BY <1>2, <2>1 DEF TypeOK
  <1>4. IsFiniteSet(Written')
    BY SameWritten
  <1>5. ~there => row[current] = "deleted"
    <2>1. CASE snap = None
      BY <1>1, <2>1 DEF InHand, Open
    <2>2. CASE snap # None
      BY <1>1, <2>2 DEF InHand, SnapSees
    <2> QED BY <2>1, <2>2
  <1>6. ASSUME NEW i \in Ids, Open(i), SnapSees(i)
        PROVE  SnapSees(i)'
    BY <1>2, <1>6 DEF Open, SnapSees
  <1> HIDE DEF there
  <1>7. Places' /\ SentWasPushed'
    BY <1>1, <1>2 DEF Places, SentWasPushed
  <1>8. Counts'
    BY <1>2, <1>5 DEF Counts
  <1>9. InHand'
    BY <1>1, <1>2, <1>6 DEF InHand, Open
  <1>10. Waits'
    <2> SUFFICES ASSUME NEW a \in 1..Len(pending)
                 PROVE  Open(pending[a])' /\ SnapSees(pending[a])' /\ pending[a] # current'
      BY DEF Waits
    <2>1. pending[a] \in Ids
      BY DEF TypeOK
    <2> QED BY <1>2, <1>6, <2>1, DeliverableAssumption DEF Waits, Open
  <1> QED BY <1>3, <1>4, <1>7, <1>8, <1>9, <1>10

\* The job's run is over: nothing is pending, nothing in hand.
LEMMA AbortPlaces ==
    ASSUME TypeOK, Abort
    PROVE  Places' /\ Waits' /\ InHand'
  BY DEF Abort, Places, Waits, InHand

LEMMA CommitStep ==
    ASSUME IInv, Commit
    PROVE  IInv'
  <1> USE DEF IInv, Commit
  <1>1. current # None /\ current \in Ids
    BY DEF Places, TypeOK
  <1>2. TypeOK'
    <2>1. row' \in [Ids -> Rows]
      BY <1>1 DEF TypeOK, Rows
    <2>2. CASE Abort
      BY <2>1, <2>2 DEF TypeOK, Abort
    <2>3. CASE snap' = None /\ pc' = "next" /\ current' = None /\ UNCHANGED pending
      BY <2>1, <2>3 DEF TypeOK
    <2> QED BY <2>2, <2>3
  <1>3. row[current] \in {"unsent", "deleted"}
        /\ pushed[current] > 0 /\ Deadline[current] <= today
    BY <1>1 DEF InHand, Open
  <1>4. CASE row[current] = "deleted"
    <2>1. UNCHANGED <<row, today, pushed, lostMarks>> /\ Abort
      BY <1>4
    <2>2. IsFiniteSet(Written')
      BY <2>1, SameWritten
    <2>3. Counts' /\ SentWasPushed'
      BY <1>4, <2>1 DEF Counts, SentWasPushed
    <2> QED BY <1>2, <2>1, <2>2, <2>3, AbortPlaces
  <1>5. CASE row[current] # "deleted"
    <2>1. /\ row' = [row EXCEPT ![current] = "sent"] /\ UNCHANGED <<pending, today, pushed, lostMarks>>
          /\ snap' = None /\ pc' = "next" /\ current' = None
      BY <1>5
    <2>2. \A i \in Ids : row'[i] = IF i = current THEN "sent" ELSE row[i]
      BY <2>1 DEF TypeOK
    <2>3. IsFiniteSet(Written')
      BY <1>3, <2>2, SameWritten
    <2>4. Places' /\ InHand'
      BY <2>1 DEF Places, InHand
    <2>5. Counts' /\ SentWasPushed'
      BY <1>3, <2>1, <2>2 DEF Counts, SentWasPushed
    <2>6. Waits'
      <3> SUFFICES ASSUME NEW a \in 1..Len(pending)
                   PROVE  Open(pending[a])' /\ SnapSees(pending[a])' /\ pending[a] # current'
        BY <2>1 DEF Waits
      <3>1. pending[a] \in Ids
        BY DEF TypeOK
      <3>2. pending[a] # current
        BY DEF Waits
      <3> QED BY <2>1, <2>2, <3>1, <3>2, DeliverableAssumption DEF Waits, Open, SnapSees
    <2> QED BY <1>2, <2>3, <2>4, <2>5, <2>6
  <1> QED BY <1>4, <1>5

LEMMA FaultStep ==
    ASSUME IInv, Fault
    PROVE  IInv'
  <1> USE DEF IInv, Fault
  <1>1. Abort /\ UNCHANGED <<row, today, pushed>>
    OBVIOUS
  <1>2. TypeOK'
    BY DayAssumption DEF TypeOK, Abort
  <1>3. IsFiniteSet(Written')
    BY <1>1, SameWritten
  <1>4. \A i \in Ids : /\ lostMarks[i] \in Nat /\ pushed[i] \in Nat
                       /\ lostMarks'[i] = IF current = i THEN lostMarks[i] + 1 ELSE lostMarks[i]
    BY DEF TypeOK
  <1>5. Counts' /\ SentWasPushed'
    BY <1>1, <1>4 DEF Counts, SentWasPushed
  <1> QED BY <1>1, <1>2, <1>3, <1>5, AbortPlaces

LEMMA CommitUnacknowledgedStep ==
    ASSUME IInv, CommitUnacknowledged
    PROVE  IInv'
  <1> USE DEF IInv, CommitUnacknowledged
  <1>1. current # None /\ current \in Ids
    BY DEF Places, TypeOK
  <1>2. Abort /\ UNCHANGED <<today, pushed, lostMarks>>
    OBVIOUS
  <1>3. TypeOK'
    BY <1>1, DayAssumption DEF TypeOK, Rows, Abort
  <1>4. row[current] \in {"unsent", "deleted"}
        /\ pushed[current] > 0 /\ Deadline[current] <= today
    BY <1>1 DEF InHand, Open
  <1>5. \A i \in Ids : row'[i] = IF i = current THEN "sent" ELSE row[i]
    BY DEF TypeOK
  <1>6. IsFiniteSet(Written')
    BY <1>4, <1>5, SameWritten
  <1>7. Counts' /\ SentWasPushed'
    BY <1>2, <1>4, <1>5 DEF Counts, SentWasPushed
  <1> QED BY <1>2, <1>3, <1>6, <1>7, AbortPlaces

LEMMA StutterStep ==
    ASSUME IInv, UNCHANGED vars
    PROVE  IInv'
  BY DEF IInv, vars, TypeOK, Written, Places, Waits, InHand, Counts, Open, SnapSees,
         SentWasPushed

LEMMA NextIInv == IInv /\ [Next]_vars => IInv'
  BY CreateStep, DeleteStep, NextDayStep, FetchStep, FinishStep, PushStep, PushFailsStep, PushUnansweredStep,
     MarkStep, CommitStep, FaultStep, CommitUnacknowledgedStep, StutterStep
     DEF Next, JobStep

-----------------------------------------------------------------------------
\* Types of the reminder job's state (reminder.py:73-99).
THEOREM TypeCorrect == Spec => []TypeOK
  <1>1. IInv => TypeOK
    BY DEF IInv
  <1> QED BY <1>1, InitIInv, NextIInv, PTL DEF Spec

\* reminder.py:94-99: for any table of reminders and any faults, no reminder
\* is pushed more often than once and once for each push whose answer or mark
\* a fault lost.
THEOREM PushedOncePerLostMarkCorrect == Spec => []PushedOncePerLostMark
  <1>1. IInv => PushedOncePerLostMark
    BY DEF IInv, Counts, PushedOncePerLostMark
  <1> QED BY <1>1, InitIInv, NextIInv, PTL DEF Spec

\* reminder_repo.py:13-29: a reminder that the table calls sent was pushed, on
\* its day or later, whatever transaction its mark was made in.
THEOREM SentWasPushedCorrect == Spec => []SentWasPushed
  <1>1. IInv => SentWasPushed
    BY DEF IInv
  <1> QED BY <1>1, InitIInv, NextIInv, PTL DEF Spec
=============================================================================
