--------------------------- MODULE GuidelinesProofs ---------------------------
(***************************************************************************)
(* The guidelines that are committed never go back, for any number of runs *)
(* and whatever fails, is killed, cancelled or locked out, and the run that*)
(* wrote last leaves its text committed unless it was disturbed itself,    *)
(* whatever became of the others.  The argument: texts are ordered         *)
(* by the turn they were written in and, within it, by whether they are    *)
(* whole.  In that order HEAD is never ahead of the index, nor the index   *)
(* of the file; the lock keeps two processes from staging at a time, and   *)
(* git refuses to move a HEAD that is not the one it read, so that each of *)
(* the three only goes forward.  So once the run that wrote last has       *)
(* staged or committed its text, no other run's processes can undo it.     *)
(***************************************************************************)
EXTENDS Guidelines, TLAPS

Rank(text) == 2 * text.turn + (IF text.whole THEN 1 ELSE 0)

\* A run has a process exactly while it waits for one, or has left it.
Where ==
    \A r \in Runs :
        /\ pc[r] \in {"idle", "writing", "add", "draining", "done", "raised"} => git[r] = "none"
        /\ pc[r] = "adding" => git[r] \in {"add", "adding", "ok", "failed"}
        /\ pc[r] = "committing" => git[r] \in {"commit", "committing", "ok", "failed"}
        /\ pc[r] \in {"draining", "raised", "cancelled"} => r \in trouble
        /\ git[r] = "adding" <=> lock = r

Ordered ==
    /\ Rank(head) <= Rank(index) /\ Rank(index) <= Rank(file)
    /\ \A r \in Runs :
          /\ git[r] = "adding" => Rank(index) <= Rank(saw[r]) /\ Rank(saw[r]) <= Rank(file)
          /\ git[r] = "committing" => Rank(base[r]) < Rank(saw[r]) /\ Rank(saw[r]) <= Rank(index)

Turns ==
    /\ file.turn = writes
    /\ \A r \in Runs : turn[r] <= writes /\ (turn[r] = 0 <=> pc[r] = "idle")
    /\ \A r, q \in Runs : r # q /\ turn[r] = turn[q] => turn[r] = 0
    /\ \A r \in Runs : pc[r] = "writing" => turn[r] = writes

\* How far the text of the run that wrote last has come.
LastIsOnItsWay ==
    \A r \in Runs \ trouble : turn[r] = writes =>
        /\ pc[r] = "adding" =>
              /\ git[r] # "failed"
              /\ git[r] = "adding" => saw[r] = file
              /\ git[r] = "ok" => index = file
        /\ pc[r] = "committing" =>
              /\ index = file
              /\ git[r] = "committing" => saw[r] = file
              /\ git[r] \in {"ok", "failed"} => head = file
        /\ pc[r] = "done" => head = file

IInv == TypeOK /\ Where /\ Ordered /\ Turns /\ LastIsOnItsWay
-----------------------------------------------------------------------------
(* The order of texts.                                                     *)

LEMMA RankType ==
    ASSUME NEW a \in Text
    PROVE  Rank(a) \in Nat /\ a.turn \in Nat
  BY DEF Rank, Text

LEMMA RankInjective ==
    ASSUME NEW a \in Text, NEW b \in Text, Rank(a) = Rank(b)
    PROVE  a = b
  <1>1. a.turn = b.turn /\ (a.whole <=> b.whole)
    BY DEF Rank, Text
  <1>2. a.whole = b.whole
    BY <1>1 DEF Text
  <1> QED BY <1>1, <1>2 DEF Text

LEMMA RankTurn ==
    ASSUME NEW a \in Text, NEW b \in Text, Rank(a) <= Rank(b)
    PROVE  a.turn <= b.turn
  BY DEF Rank, Text

\* The texts of a state have ranks.
LEMMA Ranks ==
    ASSUME TypeOK
    PROVE  /\ Rank(file) \in Nat /\ Rank(index) \in Nat /\ Rank(head) \in Nat
           /\ \A r \in Runs : Rank(saw[r]) \in Nat /\ Rank(base[r]) \in Nat
  BY RankType DEF TypeOK

LEMMA InitIInv == Init => IInv
  <1> SUFFICES ASSUME Init PROVE IInv
    OBVIOUS
  <1>1. First \in Text
    BY DEF First, Text
  <1>2. TypeOK
    BY <1>1 DEF Init, TypeOK, Places
  <1>3. Where
    BY RunAssumption DEF Init, Where
  <1>4. Ordered
    BY <1>2, Ranks DEF Init, Ordered
  <1>5. Turns /\ LastIsOnItsWay
    BY DEF Init, Turns, LastIsOnItsWay, First
  <1> QED BY <1>2, <1>3, <1>4, <1>5 DEF IInv

-----------------------------------------------------------------------------
(* The node.                                                               *)

\* A step of the node that touches none of git's data keeps the order as long
\* as the file goes forward and no process comes to read or to commit.
LEMMA SameOrder ==
    ASSUME TypeOK, TypeOK', Ordered, UNCHANGED gitData, Rank(file) <= Rank(file'),
           \A r \in Runs : /\ git'[r] = "adding" => git[r] = "adding"
                           /\ git'[r] = "committing" => git[r] = "committing"
    PROVE  Ordered'
  <1>1. /\ Rank(file) \in Nat /\ Rank(file') \in Nat /\ Rank(index) \in Nat
        /\ \A r \in Runs : Rank(saw[r]) \in Nat
    BY Ranks, RankType DEF TypeOK
  <1>2. Rank(index') <= Rank(file') /\ Rank(head') <= Rank(index')
    BY <1>1 DEF Ordered, gitData
  <1>3. ASSUME NEW r \in Runs
        PROVE  /\ git'[r] = "adding" => /\ Rank(index') <= Rank(saw'[r])
                                        /\ Rank(saw'[r]) <= Rank(file')
               /\ git'[r] = "committing" => /\ Rank(base'[r]) < Rank(saw'[r])
                                            /\ Rank(saw'[r]) <= Rank(index')
    BY <1>1 DEF Ordered, gitData
  <1> QED BY <1>2, <1>3 DEF Ordered

LEMMA WriteStep ==
    ASSUME IInv, NEW p \in Runs, Write(p)
    PROVE  IInv'
  <1> USE DEF IInv, Write, Goto
  <1> DEFINE text == [turn |-> writes + 1, whole |-> FALSE]
  <1>1. text \in Text /\ file' = text /\ writes \in Nat
    BY DEF Text, TypeOK
  <1>2. TypeOK'
    BY <1>1 DEF TypeOK, Places, gitData
  <1>3. /\ \A r \in Runs : pc'[r] = (IF r = p THEN "writing" ELSE pc[r])
        /\ \A r \in Runs : turn'[r] = (IF r = p THEN writes + 1 ELSE turn[r])
        /\ \A r \in Runs : turn[r] \in Nat /\ turn[r] <= writes
        /\ pc[p] = "idle" /\ \A r \in Runs \ {p} : pc[r] # "writing"
    BY DEF TypeOK, Turns
  <1>4. Where'
    BY <1>3 DEF Where
  <1>5. Rank(file) <= Rank(text)
    BY DEF Rank, Turns, TypeOK, Text
  <1>6. Ordered'
    BY <1>1, <1>2, <1>5, SameOrder
  <1>7. Turns'
    BY <1>1, <1>3 DEF Turns
  <1>8. LastIsOnItsWay'
    BY <1>1, <1>3 DEF LastIsOnItsWay
  <1> QED BY <1>2, <1>4, <1>6, <1>7, <1>8

LEMMA WrittenStep ==
    ASSUME IInv, NEW p \in Runs, Written(p)
    PROVE  IInv'
  <1> USE DEF IInv, Written, Goto
  <1>1. file' \in Text /\ file'.turn = file.turn /\ file'.whole
    BY DEF Text, TypeOK
  <1>2. TypeOK'
    BY <1>1 DEF TypeOK, Places, gitData
  <1>3. /\ \A r \in Runs : pc'[r] = (IF r = p THEN "add" ELSE pc[r])
        /\ pc[p] = "writing" /\ turn[p] = writes /\ turn[p] # 0 /\ git[p] = "none"
    BY DEF TypeOK, Turns, Where
  <1>4. Where'
    BY <1>3 DEF Where
  <1>5. Rank(file) <= Rank(file')
    BY <1>1 DEF Rank, TypeOK, Text
  <1>6. Ordered'
    BY <1>1, <1>2, <1>5, SameOrder
  <1>7. Turns'
    BY <1>1, <1>3 DEF Turns
  <1>8. LastIsOnItsWay'
    BY <1>3 DEF LastIsOnItsWay, Turns
  <1> QED BY <1>2, <1>4, <1>6, <1>7, <1>8

\* A step that writes no text and begins or ends no run of the node's write.
LEMMA SameTurns ==
    ASSUME Turns, TypeOK, UNCHANGED <<file, turn, writes>>,
           \A r \in Runs : /\ pc'[r] = "idle" <=> pc[r] = "idle"
                           /\ pc'[r] = "writing" <=> pc[r] = "writing"
    PROVE  Turns'
  BY DEF Turns

LEMMA WriteFailsStep ==
    ASSUME IInv, NEW p \in Runs, WriteFails(p)
    PROVE  IInv'
  <1> USE DEF IInv, WriteFails, Goto, Disturbed
  <1>1. TypeOK'
    BY DEF TypeOK, Places, gitData
  <1>2. /\ \A r \in Runs : pc'[r] = (IF r = p THEN "raised" ELSE pc[r])
        /\ pc[p] = "writing" /\ git[p] = "none" /\ trouble' = trouble \cup {p}
    BY DEF TypeOK, Where
  <1>3. Where'
    BY <1>2 DEF Where
  <1>4. Ordered'
    BY <1>1, Ranks, SameOrder
  <1>5. Turns'
    BY <1>2 DEF Turns
  <1>6. LastIsOnItsWay'
    BY <1>2 DEF LastIsOnItsWay, gitData
  <1> QED BY <1>1, <1>3, <1>4, <1>5, <1>6

LEMMA StartAddStep ==
    ASSUME IInv, NEW p \in Runs, StartAdd(p)
    PROVE  IInv'
  <1> USE DEF IInv, StartAdd, Start, Goto, Process, Disturbed
  <1>1. TypeOK'
    BY DEF TypeOK, Places, gitData
  <1>2. /\ pc[p] = "add" /\ git[p] = "none"
        /\ \A r \in Runs : r # p => pc'[r] = pc[r] /\ git'[r] = git[r]
        /\ \/ git'[p] = "add" /\ pc'[p] = "adding" /\ trouble' = trouble
           \/ git'[p] = "none" /\ pc'[p] = "done" /\ trouble' = trouble \cup {p}
    BY DEF TypeOK, Where
  <1>3. Where'
    BY <1>2 DEF Where
  <1>4. Ordered'
    BY <1>1, <1>2, Ranks, SameOrder
  <1>5. Turns'
    BY <1>2, SameTurns DEF gitData
  <1>6. LastIsOnItsWay'
    BY <1>2 DEF LastIsOnItsWay, gitData
  <1> QED BY <1>1, <1>3, <1>4, <1>5, <1>6

LEMMA AddReturnsStep ==
    ASSUME IInv, NEW p \in Runs, AddReturns(p)
    PROVE  IInv'
  <1> USE DEF IInv, AddReturns, Returned, Start, Goto, Process, Disturbed
  <1>1. TypeOK'
    BY DEF TypeOK, Places, gitData
  <1>2. /\ pc[p] = "adding"
        /\ \A r \in Runs : r # p => pc'[r] = pc[r] /\ git'[r] = git[r]
        /\ \/ /\ git[p] = "ok" /\ git'[p] = "commit" /\ pc'[p] = "committing"
              /\ trouble' = trouble
           \/ git[p] = "ok" /\ git'[p] = "none" /\ pc'[p] = "done" /\ trouble' = trouble \cup {p}
           \/ git[p] = "failed" /\ git'[p] = "none" /\ pc'[p] = "done" /\ trouble' = trouble
    BY DEF TypeOK
  <1>3. Where'
    BY <1>2 DEF Where
  <1>4. Ordered'
    BY <1>1, <1>2, Ranks, SameOrder
  <1>5. Turns'
    BY <1>2, SameTurns DEF gitData
  <1>6. LastIsOnItsWay'
    BY <1>2 DEF LastIsOnItsWay, gitData
  <1> QED BY <1>1, <1>3, <1>4, <1>5, <1>6

LEMMA CommitReturnsStep ==
    ASSUME IInv, NEW p \in Runs, CommitReturns(p)
    PROVE  IInv'
  <1> USE DEF IInv, CommitReturns, Returned, Goto, Process
  <1>1. TypeOK'
    BY DEF TypeOK, Places, gitData
  <1>2. /\ pc[p] = "committing" /\ git[p] \in {"ok", "failed"}
        /\ git'[p] = "none" /\ pc'[p] = "done"
        /\ \A r \in Runs : r # p => pc'[r] = pc[r] /\ git'[r] = git[r]
    BY DEF TypeOK
  <1>3. Where'
    BY <1>2 DEF Where
  <1>4. Ordered'
    BY <1>1, <1>2, Ranks, SameOrder
  <1>5. Turns'
    BY <1>2, SameTurns DEF gitData
  <1>6. LastIsOnItsWay'
    BY <1>2 DEF LastIsOnItsWay, gitData
  <1> QED BY <1>1, <1>3, <1>4, <1>5, <1>6

\* A process is killed, whether or not its run waits for it.
LEMMA KilledStep ==
    ASSUME IInv, NEW p \in Runs, Killed(p), UNCHANGED held,
           pc[p] \in {"adding", "committing", "cancelled"},
           pc' \in [Runs -> Places], pc'[p] \in {"draining", "cancelled"},
           \A r \in Runs : r # p => pc'[r] = pc[r]
    PROVE  IInv'
  <1> USE DEF IInv, Killed, LockLeft, Running, Process, Disturbed
  <1>1. TypeOK'
    BY DEF TypeOK, gitData
  <1>2. /\ git'[p] = "none" /\ trouble' = trouble \cup {p}
        /\ \A r \in Runs : r # p => git'[r] = git[r]
    BY DEF TypeOK
  <1>3. \A r \in Runs : git'[r] = "adding" <=> lock' = r
    BY <1>2, RunAssumption DEF Where
  <1>4. Where'
    BY <1>2, <1>3 DEF Where
  <1>5. Ordered'
    BY <1>1, <1>2, Ranks, SameOrder
  <1>6. Turns'
    BY <1>2, SameTurns DEF gitData
  <1>7. LastIsOnItsWay'
    BY <1>2 DEF LastIsOnItsWay, gitData
  <1> QED BY <1>1, <1>4, <1>5, <1>6, <1>7

LEMMA TimeoutStep ==
    ASSUME IInv, NEW p \in Runs, Timeout(p)
    PROVE  IInv'
  <1>1. /\ pc[p] \in {"adding", "committing"} /\ pc'[p] = "draining"
        /\ pc' \in [Runs -> Places]
        /\ \A r \in Runs : r # p => pc'[r] = pc[r]
    BY DEF IInv, TypeOK, Places, Timeout, Goto
  <1> QED BY <1>1, KilledStep DEF Timeout

LEMMA CollectStep ==
    ASSUME IInv, NEW p \in Runs, Collect(p)
    PROVE  IInv'
  <1>1. /\ pc[p] = "cancelled" /\ pc'[p] = "cancelled" /\ UNCHANGED held
        /\ pc' \in [Runs -> Places]
        /\ \A r \in Runs : r # p => pc'[r] = pc[r]
    BY DEF IInv, TypeOK, Collect
  <1> QED BY <1>1, KilledStep DEF Collect

\* A run that is no longer waited for, or waits no longer, is disturbed.
LEMMA GivenUpStep ==
    ASSUME IInv, NEW p \in Runs, Drained(p) \/ Cancel(p)
    PROVE  IInv'
  <1> USE DEF IInv, Drained, Cancel, Returned, Goto, Disturbed
  <1>1. TypeOK'
    BY DEF TypeOK, Places, gitData
  <1>2. /\ \/ pc[p] = "draining" /\ pc'[p] = "done" /\ trouble' = trouble
           \/ /\ pc[p] \in {"adding", "committing", "draining"} /\ pc'[p] = "cancelled"
              /\ trouble' = trouble \cup {p}
        /\ \A r \in Runs : r # p => pc'[r] = pc[r]
        /\ UNCHANGED <<git, gitData, lock, file, turn, writes>>
    BY DEF TypeOK
  <1>3. Where'
    BY <1>2 DEF Where
  <1>4. Ordered'
    BY <1>1, <1>2, Ranks, SameOrder
  <1>5. Turns'
    BY <1>2, SameTurns DEF gitData
  <1>6. LastIsOnItsWay'
    BY <1>2 DEF LastIsOnItsWay, Where, gitData
  <1> QED BY <1>1, <1>3, <1>4, <1>5, <1>6

-----------------------------------------------------------------------------
(* git.                                                                    *)

\* Between the file and the index a text that is no older is the same.
LEMMA Squeezed ==
    ASSUME TypeOK, Ordered, NEW text \in Text,
           Rank(index) <= Rank(text), Rank(text) <= Rank(file), index = file
    PROVE  text = file
  <1>1. Rank(text) \in Nat /\ Rank(file) \in Nat
    BY RankType, Ranks
  <1>2. Rank(text) = Rank(file)
    BY <1>1
  <1> QED BY <1>2, RankInjective DEF TypeOK

\* A process that fails leaves the lock, or takes it with it.
LEMMA FailsStep ==
    ASSUME IInv, NEW p \in Runs, LockedOut(p) \/ GitFails(p)
    PROVE  IInv'
  <1> USE DEF IInv, LockedOut, GitFails, LockLeft, Running, Fails, Process, Disturbed
  <1>1. TypeOK'
    BY DEF TypeOK, gitData
  <1>2. /\ git[p] \in {"add", "adding", "commit", "committing"} /\ git'[p] = "failed"
        /\ trouble' = trouble \cup {p}
        /\ lock' = lock \/ lock' = Stale \/ (lock = p /\ lock' = NoRun)
        /\ lock = p => lock' \in {NoRun, Stale}
        /\ lock' = Stale => lock \in {p, NoRun, Stale}
        /\ \A r \in Runs : r # p => git'[r] = git[r]
        /\ UNCHANGED <<pc, gitData, file, turn, writes>>
    BY DEF TypeOK, Where
  <1>3. Where'
    BY <1>2, RunAssumption DEF Where
  <1>4. Ordered'
    BY <1>1, <1>2, Ranks, SameOrder
  <1>5. Turns'
    BY <1>2, SameTurns DEF gitData
  <1>6. LastIsOnItsWay'
    BY <1>2 DEF LastIsOnItsWay, gitData
  <1> QED BY <1>1, <1>3, <1>4, <1>5, <1>6

LEMMA ChildStep ==
    ASSUME IInv, NEW p \in Runs, LeavesChild(p) \/ ChildEnds(p)
    PROVE  IInv'
  <1>1. TypeOK'
    BY DEF IInv, TypeOK, LeavesChild, ChildEnds, gitData
  <1>2. Where' /\ Ordered' /\ Turns' /\ LastIsOnItsWay'
    BY DEF IInv, LeavesChild, ChildEnds, gitData, Where, Ordered, Turns, LastIsOnItsWay
  <1> QED BY <1>1, <1>2 DEF IInv

LEMMA AddReadsStep ==
    ASSUME IInv, NEW p \in Runs, AddReads(p)
    PROVE  IInv'
  <1> USE DEF IInv, AddReads, Process
  <1>1. TypeOK'
    BY DEF TypeOK, Places
  <1>2. /\ git[p] = "add" /\ git'[p] = "adding" /\ lock = NoRun /\ lock' = p
        /\ saw'[p] = file
        /\ \A r \in Runs : r # p => git'[r] = git[r] /\ saw'[r] = saw[r]
    BY DEF TypeOK, Places
  <1>3. Where'
    BY <1>2, RunAssumption DEF Where
  <1>4. Ordered'
    BY <1>1, <1>2, Ranks DEF Ordered
  <1>5. Turns'
    BY SameTurns
  <1>6. LastIsOnItsWay'
    BY <1>2 DEF LastIsOnItsWay, Where
  <1> QED BY <1>1, <1>3, <1>4, <1>5, <1>6

LEMMA AddStagesStep ==
    ASSUME IInv, NEW p \in Runs, AddStages(p)
    PROVE  IInv'
  <1> USE DEF IInv, AddStages, Process
  <1>1. TypeOK'
    BY DEF TypeOK, Places
  <1>2. /\ git[p] = "adding" /\ git'[p] = "ok" /\ lock = p /\ lock' = NoRun
        /\ index' = saw[p] /\ saw[p] \in Text
        /\ \A r \in Runs : r # p => git'[r] = git[r] /\ git[r] # "adding"
    BY DEF TypeOK, Where
  <1>3. Where'
    BY <1>2, RunAssumption DEF Where
  <1>4. /\ Rank(index) <= Rank(saw[p]) /\ Rank(saw[p]) <= Rank(file)
        /\ Rank(index') = Rank(saw[p])
    BY <1>2 DEF Ordered
  <1>5. Ordered'
    BY <1>1, <1>2, <1>4, Ranks DEF Ordered
  <1>6. Turns'
    BY SameTurns
  <1>7. index = file => index' = file
    BY <1>2, <1>4, Squeezed
  <1>8. LastIsOnItsWay'
    BY <1>2, <1>7 DEF LastIsOnItsWay, Where
  <1> QED BY <1>1, <1>3, <1>5, <1>6, <1>8

LEMMA CommitReadsStep ==
    ASSUME IInv, NEW p \in Runs, CommitReads(p)
    PROVE  IInv'
  <1> USE DEF IInv, CommitReads, Fails, Process
  <1>1. TypeOK'
    BY DEF TypeOK, Places, gitData
  <1>2. /\ git[p] = "commit"
        /\ UNCHANGED <<pc, lock, file, index, head, turn, writes, trouble>>
        /\ \A r \in Runs : r # p => git'[r] = git[r] /\ saw'[r] = saw[r] /\ base'[r] = base[r]
    BY DEF TypeOK, Places, gitData
  <1>3. \/ index = head /\ git'[p] = "failed" /\ saw' = saw /\ base' = base
        \/ /\ index # head /\ git'[p] = "committing"
           /\ saw'[p] = index /\ base'[p] = head
    BY DEF TypeOK, Places, gitData
  <1>4. Where'
    BY <1>2, <1>3 DEF Where
  <1>5. index # head => Rank(head) < Rank(index)
    BY Ranks, RankInjective DEF Ordered, TypeOK
  <1>6. Ordered'
    BY <1>1, <1>2, <1>3, <1>5, Ranks DEF Ordered
  <1>7. Turns'
    BY <1>2, SameTurns
  <1>8. LastIsOnItsWay'
    BY <1>2, <1>3 DEF LastIsOnItsWay, Where
  <1> QED BY <1>1, <1>4, <1>6, <1>7, <1>8

LEMMA CommitMovesHeadStep ==
    ASSUME IInv, NEW p \in Runs, CommitMovesHead(p)
    PROVE  IInv' /\ Rank(head) <= Rank(head')
  <1> USE DEF IInv, CommitMovesHead, Fails, Process, Disturbed
  <1>1. TypeOK'
    <2>1. CASE head = base[p]
      BY <2>1 DEF TypeOK, Places, gitData
    <2>2. CASE head # base[p]
      BY <2>2 DEF TypeOK, Places, gitData
    <2> QED BY <2>1, <2>2
  <1>2. /\ git[p] = "committing" /\ git'[p] \in {"ok", "failed"} /\ pc[p] # "idle"
        /\ UNCHANGED <<pc, lock, file, index, saw, base, turn, writes>>
        /\ \A r \in Runs : r # p => git'[r] = git[r]
    BY DEF TypeOK, gitData, Where
  <1>3. \/ /\ head = base[p] /\ head' = saw[p] /\ git'[p] = "ok" /\ UNCHANGED trouble
        \/ head' = head /\ trouble' = trouble \cup {p}
    BY DEF TypeOK, Places, gitData
  <1>4. Where'
    BY <1>2, <1>3 DEF Where
  <1>5. Rank(head) <= Rank(head') /\ Rank(head') <= Rank(index)
    BY <1>2, <1>3, Ranks DEF Ordered
  <1>6. Ordered'
    BY <1>2, <1>5 DEF Ordered
  <1>7. Turns'
    BY <1>2, SameTurns
  <1>8. head = file => head' = head
    <2>1. CASE head = base[p]
      <3>1. Rank(head) < Rank(saw[p]) /\ Rank(saw[p]) <= Rank(file)
        BY <1>2, <2>1, Ranks DEF Ordered
      <3> QED BY <3>1, Ranks
    <2> QED BY <1>3, <2>1
  <1>9. LastIsOnItsWay'
    BY <1>2, <1>3, <1>8 DEF LastIsOnItsWay, Where
  <1> QED BY <1>1, <1>4, <1>5, <1>6, <1>7, <1>9

LEMMA StutterStep ==
    ASSUME IInv, UNCHANGED vars
    PROVE  IInv'
  BY DEF IInv, vars, TypeOK, Where, Ordered, Turns, LastIsOnItsWay

LEMMA NextIInv == IInv /\ [Next]_vars => IInv'
  BY WriteStep, WrittenStep, WriteFailsStep, StartAddStep, AddReturnsStep, CommitReturnsStep,
     TimeoutStep, CollectStep, GivenUpStep, FailsStep, ChildStep, AddReadsStep, AddStagesStep,
     CommitReadsStep, CommitMovesHeadStep, StutterStep DEF Next, Node, Git

-----------------------------------------------------------------------------
\* Types of the runs, their processes and git's data (yaml_architect.py:71-104).
THEOREM TypeCorrect == Spec => []TypeOK
  <1>1. IInv => TypeOK
    BY DEF IInv
  <1> QED BY <1>1, InitIInv, NextIInv, PTL DEF Spec

\* yaml_architect.py:90-104: for any number of overlapping runs, whatever
\* failed, what was written last is committed when its run has ended and was
\* not disturbed itself.
THEOREM LastIsCommittedCorrect == Spec => []LastIsCommitted
  <1>1. IInv => LastIsCommitted
    BY DEF IInv, LastIsOnItsWay, LastIsCommitted
  <1> QED BY <1>1, InitIInv, NextIInv, PTL DEF Spec

\* yaml_architect.py:95-100: in any order of the processes, killed and
\* forgotten ones included, no commit replaces guidelines by earlier ones.
THEOREM HeadNeverGoesBackCorrect == Spec => HeadNeverGoesBack
  <1>1. IInv /\ [Next]_vars => [head'.turn >= head.turn]_vars
    <2> SUFFICES ASSUME IInv, Next
                 PROVE  head'.turn >= head.turn
      OBVIOUS
    <2>1. head.turn \in Nat
      BY RankType DEF IInv, TypeOK
    <2>2. ASSUME NEW r \in Runs, CommitMovesHead(r)
          PROVE  head'.turn >= head.turn
      <3>1. head \in Text /\ head' \in Text /\ Rank(head) <= Rank(head')
        BY <2>2, CommitMovesHeadStep DEF IInv, TypeOK
      <3> QED BY <3>1, RankTurn, RankType
    <2>3. CASE head' = head
      BY <2>1, <2>3
    <2>4. head' = head \/ \E r \in Runs : CommitMovesHead(r)
      BY DEF Next, Node, Git, Write, Written, WriteFails, StartAdd, AddReturns, CommitReturns,
             Timeout, Drained, Collect, Killed, Cancel, LockedOut, GitFails, LeavesChild,
             ChildEnds, Fails, AddReads, AddStages, CommitReads, gitData
    <2> QED BY <2>2, <2>3, <2>4
  <1> QED BY <1>1, InitIInv, NextIInv, PTL DEF Spec, HeadNeverGoesBack
=============================================================================
