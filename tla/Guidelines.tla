------------------------------ MODULE Guidelines ------------------------------
(***************************************************************************)
(* Runs of yaml_architect_node on one checkout: each writes the guidelines *)
(* file, stages it and commits, with a git process for either step.  The   *)
(* node's own steps take turns on the event loop; the git processes do not *)
(* and only git's locks hold them apart.  A process may not start, may     *)
(* fail, and may hang: it is killed when its time is up, which may leave   *)
(* the lock on the index behind, and the run goes on when no child of the  *)
(* process holds its pipes any more.                                       *)
(***************************************************************************)
EXTENDS Naturals

CONSTANTS
    Runs,       \* runs of the node
    NoRun,      \* nobody holds the lock
    Stale       \* a killed process held it

ASSUME RunAssumption == NoRun \notin Runs /\ Stale \notin Runs /\ NoRun # Stale

VARIABLES
    pc,                 \* where each run is
    git,                \* what its git process does
    saw,                \* the text the process has read
    base,               \* the commit it has read
    file, index, head,  \* the guidelines in the checkout, staged, committed
    lock,               \* index.lock
    turn,               \* history: which text each run wrote, from 1 on
    writes,             \* history: texts written
    held,               \* runs whose process has left a child that holds its pipes
    trouble             \* history: runs that failed, or whose process did, was
                        \* locked out, killed or left

vars == <<pc, git, saw, base, file, index, head, lock, turn, writes, held, trouble>>
gitData == <<saw, base, index, head>>

\* A text is known by the turn it was written in; until it is written whole
\* the file holds a part of it.
Text == [turn : Nat, whole : BOOLEAN]
First == [turn |-> 0, whole |-> TRUE]

Places == {"idle", "writing", "add", "adding", "committing", "draining",
           "done", "raised", "cancelled"}

TypeOK ==
    /\ pc \in [Runs -> Places]
    /\ git \in [Runs -> {"none", "add", "adding", "commit", "committing", "ok", "failed"}]
    /\ saw \in [Runs -> Text] /\ base \in [Runs -> Text]
    /\ file \in Text /\ index \in Text /\ head \in Text
    /\ lock \in Runs \cup {NoRun, Stale}
    /\ turn \in [Runs -> Nat] /\ writes \in Nat
    /\ held \subseteq Runs /\ trouble \subseteq Runs

Init ==
    /\ pc = [r \in Runs |-> "idle"] /\ git = [r \in Runs |-> "none"]
    /\ saw = [r \in Runs |-> First] /\ base = [r \in Runs |-> First]
    /\ file = First /\ index = First /\ head = First
    /\ lock = NoRun
    /\ turn = [r \in Runs |-> 0] /\ writes = 0
    /\ held = {} /\ trouble = {}

-----------------------------------------------------------------------------
(* The node.  No await lies inside its write: no other run takes a step    *)
(* while one writes.                                                       *)

Goto(r, place) ==
    /\ \A q \in Runs \ {r} : pc[q] # "writing"
    /\ pc' = [pc EXCEPT ![r] = place]

Process(r, state) == git' = [git EXCEPT ![r] = state]

Disturbed(r) == trouble' = trouble \cup {r}

\* The model has answered, in YAML or not: the file is opened and emptied.
Write(r) ==
    /\ pc[r] = "idle"
    /\ writes' = writes + 1
    /\ turn' = [turn EXCEPT ![r] = writes + 1]
    /\ file' = [turn |-> writes + 1, whole |-> FALSE]
    /\ Goto(r, "writing")
    /\ UNCHANGED <<git, gitData, lock, held, trouble>>

Written(r) ==
    /\ pc[r] = "writing"
    /\ file' = [file EXCEPT !.whole = TRUE]
    /\ Goto(r, "add")
    /\ UNCHANGED <<git, gitData, lock, turn, writes, held, trouble>>

\* The disk is full: write_text raises, out of the node, and what it has
\* written of the text stays.  An open that fails leaves all as it was.
WriteFails(r) ==
    /\ pc[r] = "writing"
    /\ Goto(r, "raised") /\ Disturbed(r)
    /\ UNCHANGED <<git, gitData, lock, file, turn, writes, held>>

\* git is started and waited for, or it cannot be: the OSError becomes a
\* ToolError, which the node only logs.
Start(r, command, place) ==
    \/ Process(r, command) /\ Goto(r, place) /\ UNCHANGED trouble
    \/ Process(r, "none") /\ Goto(r, "done") /\ Disturbed(r)

StartAdd(r) ==
    /\ pc[r] = "add"
    /\ Start(r, "add", "adding")
    /\ UNCHANGED <<gitData, lock, file, turn, writes, held>>

\* communicate() has met the end of both pipes and of the process.
Returned(r, place) == pc[r] = place /\ r \notin held

\* Variants: the ToolError leaves the node; the commit is not made.
AddReturnsRaising(r) ==
    /\ Returned(r, "adding")
    /\ \/ git[r] = "ok" /\ Start(r, "commit", "committing")
       \/ git[r] = "failed" /\ Process(r, "none") /\ Goto(r, "error") /\ UNCHANGED trouble
    /\ UNCHANGED <<gitData, lock, file, turn, writes, held>>

AddReturnsOnly(r) ==
    /\ Returned(r, "adding")
    /\ git[r] \in {"ok", "failed"} /\ Process(r, "none") /\ Goto(r, "done")
    /\ UNCHANGED <<gitData, lock, file, turn, writes, held, trouble>>

\* An exit code other than 0 is a ToolError, which the node only logs.
AddReturns(r) ==
    /\ Returned(r, "adding")
    /\ \/ git[r] = "ok" /\ Start(r, "commit", "committing")
       \/ git[r] = "failed" /\ Process(r, "none") /\ Goto(r, "done") /\ UNCHANGED trouble
    /\ UNCHANGED <<gitData, lock, file, turn, writes, held>>

CommitReturns(r) ==
    /\ Returned(r, "committing")
    /\ git[r] \in {"ok", "failed"} /\ Process(r, "none") /\ Goto(r, "done")
    /\ UNCHANGED <<gitData, lock, file, turn, writes, held, trouble>>

Running(r) == git[r] \in {"add", "adding", "commit", "committing"}

\* What becomes of the lock when a process is killed: it stays if the process
\* holds it, and a commit holds it for a while of its own.
LockLeft(r) ==
    IF lock = r THEN {Stale}
    ELSE IF lock = NoRun /\ git[r] = "commit" THEN {NoRun, Stale}
    ELSE {lock}

Killed(r) ==
    /\ Process(r, "none")
    /\ lock' \in IF Running(r) THEN LockLeft(r) ELSE {lock}
    /\ Disturbed(r)
    /\ UNCHANGED <<gitData, file, turn, writes>>

\* Variant: communicate() is awaited without a time limit.
NoTimeout(r) == r \notin Runs /\ UNCHANGED vars

\* The time is up while the process runs, or a child of it holds its pipes:
\* it is killed, and communicate() is awaited again, without a time limit.
Timeout(r) ==
    /\ pc[r] \in {"adding", "committing"}
    /\ Running(r) \/ r \in held
    /\ Killed(r) /\ Goto(r, "draining")
    /\ UNCHANGED held

Drained(r) ==
    /\ Returned(r, "draining")
    /\ Goto(r, "done")
    /\ UNCHANGED <<git, gitData, lock, file, turn, writes, held, trouble>>

\* The client has left: CancelledError passes every `except Exception`, and
\* the process goes on without its run, to its end or until it is collected.
Cancel(r) ==
    /\ pc[r] \in {"adding", "committing", "draining"}
    /\ Goto(r, "cancelled") /\ Disturbed(r)
    /\ held' = held \ {r}
    /\ UNCHANGED <<git, gitData, lock, file, turn, writes>>

Collect(r) == pc[r] = "cancelled" /\ Running(r) /\ Killed(r) /\ UNCHANGED <<pc, held>>

-----------------------------------------------------------------------------
(* git, as far as the node depends on it.                                  *)

Fails(r) == Process(r, "failed") /\ UNCHANGED gitData

\* A process fails for a reason of its own: no repository, no identity, a hook
\* that refuses, a lock on a ref, a signal.
GitFails(r) ==
    /\ Running(r)
    /\ lock' \in LockLeft(r) \cup {IF lock = r THEN NoRun ELSE lock}
    /\ Fails(r) /\ Disturbed(r)
    /\ UNCHANGED <<pc, file, turn, writes, held>>

\* A hook, an agent or a daemon that git has started keeps git's pipes.
LeavesChild(r) ==
    /\ Running(r) /\ pc[r] # "cancelled" /\ r \notin held
    /\ held' = held \cup {r}
    /\ UNCHANGED <<pc, git, gitData, lock, file, turn, writes, trouble>>

ChildEnds(r) ==
    /\ r \in held
    /\ held' = held \ {r}
    /\ UNCHANGED <<pc, git, gitData, lock, file, turn, writes, trouble>>

\* The lock is taken or the process fails.
LockedOut(r) ==
    /\ git[r] \in {"add", "commit"} /\ lock # NoRun
    /\ Fails(r) /\ Disturbed(r)
    /\ UNCHANGED <<pc, lock, file, turn, writes, held>>

\* Variant: what the run has written, and not what the file holds.
AddReadsOwn(r) ==
    /\ git[r] = "add" /\ lock = NoRun
    /\ lock' = r
    /\ saw' = [saw EXCEPT ![r] = [turn |-> turn[r], whole |-> TRUE]]
    /\ Process(r, "adding")
    /\ UNCHANGED <<pc, base, index, head, file, turn, writes, held, trouble>>

AddReads(r) ==
    /\ git[r] = "add" /\ lock = NoRun
    /\ lock' = r
    /\ saw' = [saw EXCEPT ![r] = file]
    /\ Process(r, "adding")
    /\ UNCHANGED <<pc, base, index, head, file, turn, writes, held, trouble>>

AddStages(r) ==
    /\ git[r] = "adding"
    /\ index' = saw[r] /\ lock' = NoRun
    /\ Process(r, "ok")
    /\ UNCHANGED <<pc, saw, base, head, file, turn, writes, held, trouble>>

\* The index is committed, whoever staged what it holds; when it is what
\* HEAD has there is nothing to commit, and the process fails.
CommitReads(r) ==
    /\ git[r] = "commit" /\ lock = NoRun
    /\ IF index = head
       THEN Fails(r)
       ELSE /\ saw' = [saw EXCEPT ![r] = index] /\ base' = [base EXCEPT ![r] = head]
            /\ Process(r, "committing")
            /\ UNCHANGED <<index, head>>
    /\ UNCHANGED <<pc, lock, file, turn, writes, held, trouble>>

\* HEAD moves from the commit that was read, or the process fails.
CommitMovesHead(r) ==
    /\ git[r] = "committing"
    /\ \/ /\ head = base[r] /\ head' = saw[r]
          /\ Process(r, "ok")
          /\ UNCHANGED <<saw, base, index, trouble>>
       \/ /\ head # base[r] /\ Fails(r) /\ Disturbed(r)
    /\ UNCHANGED <<pc, lock, file, turn, writes, held>>

-----------------------------------------------------------------------------
Node(r) ==
    \/ Written(r) \/ StartAdd(r) \/ AddReturns(r) \/ CommitReturns(r)
    \/ Timeout(r) \/ Drained(r)

Git(r) ==
    \/ LockedOut(r) \/ AddReads(r) \/ AddStages(r) \/ CommitReads(r) \/ CommitMovesHead(r)
    \/ GitFails(r) \/ LeavesChild(r) \/ ChildEnds(r)

Next ==
    \E r \in Runs :
        Write(r) \/ WriteFails(r) \/ Node(r) \/ Cancel(r) \/ Collect(r) \/ Git(r)

Spec == Init /\ [][Next]_vars

\* The event loop runs every task that can go on and fires its timers; git
\* may hang, and a child of it may hold its pipes for ever.
FairSpec == Spec /\ \A r \in Runs : WF_vars(Node(r))

-----------------------------------------------------------------------------
\* yaml_architect.py:90-104: what was written last is committed when its run
\* has ended, if that run's own processes did not fail and were not locked
\* out, killed or left: whichever run's processes staged and committed it,
\* whatever half written text they met and whatever became of the others.
LastIsCommitted ==
    \A r \in Runs \ trouble : turn[r] = writes /\ pc[r] = "done" => head = file

\* yaml_architect.py:95-100: the committed guidelines are never replaced by
\* ones written earlier, in any order of the processes, killed and forgotten
\* ones included.
HeadNeverGoesBack == [][head'.turn >= head.turn]_vars

Ended(r) == pc[r] \in {"done", "raised", "cancelled"}

\* git_commit.py:14-42: a run ends whatever becomes of git, unless a child of
\* git holds its pipes for ever.
RunsEnd == \A r \in Runs : <>[](r \notin held) => (pc[r] # "idle" ~> Ended(r))
=============================================================================
