---------------------------- MODULE ChatRefinement ----------------------------
(* ChatStream implements AnswerContract.                                   *)
EXTENDS ChatStream

Contract == INSTANCE AnswerContract WITH
    of <- [r \in Runs |-> run[r].thread],
    told <- [r \in Runs |-> run[r].sent],
    paid <- {r \in Runs : run[r].billed = Periods},
    over <- {r \in Runs : run[r].pc = "closed"}

\* Whatever other runs, deletions, resets and faults do, each run of the
\* handlers and the generator (chat.py:25-166) is a run of the contract: it
\* says one outcome, "done" only when billed, takes one back only by "error",
\* writes to the table only the status that follows from what it said, so that
\* GET /sessions shows no outcome that no client has been told, and nothing
\* once it is over.
KeepsContract == Contract!Spec
=============================================================================
