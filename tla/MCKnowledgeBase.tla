---------------------------- MODULE MCKnowledgeBase ----------------------------
(* Instances of KnowledgeBase for TLC.                                     *)
EXTENDS KnowledgeBase

CONSTANTS long, short, blank

\* A file of several chunks, one that fits in any, and one with no text.
Lengths == [f \in Files |-> CASE f = long -> 6 [] f = short -> 1 [] f = blank -> 0]
=============================================================================
