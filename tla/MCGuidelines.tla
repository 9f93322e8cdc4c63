----------------------------- MODULE MCGuidelines -----------------------------
(* Instances of Guidelines for TLC.                                        *)
EXTENDS Guidelines
=============================================================================
