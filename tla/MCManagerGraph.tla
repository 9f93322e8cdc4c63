---------------------------- MODULE MCManagerGraph ----------------------------
(* Instances of ManagerGraph for TLC.                                      *)
EXTENDS ManagerGraph, TLC

SameRequest == Permutations(Requests)

Everyone == Agents \cup TeamNames

\* ChatRequest.agent_name's default.
DefaultAgent == {"summarizer"}
=============================================================================
