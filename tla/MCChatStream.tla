---------------------------- MODULE MCChatStream ----------------------------
(* Instances of ChatStream for TLC.                                        *)
EXTENDS ChatRefinement, TLC

CONSTANTS u1, r1, r2, r3

\* Every request comes from one user.
OneCaller == [r \in Runs |-> u1]

\* A monthly limit two answers reach; the others never bind.
SmallLimit == [p \in Periods |-> IF p = "monthly" THEN 2 ELSE 9]

RunSymmetry == Permutations(Runs)
=============================================================================
