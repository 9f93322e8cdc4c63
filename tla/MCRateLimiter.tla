---------------------------- MODULE MCRateLimiter ----------------------------
(* Instances of RateLimiter for TLC.                                       *)
EXTENDS RateLimiter, TLC

CONSTANTS u1, r1, r2, r3, r4, r5

\* One request came round the gateway, without the header.
Callers == [r \in Requests |-> IF r = r5 THEN NoUser ELSE u1]

\* The path the tests mount the router at.
TestPaths == [r \in Requests |-> <<"chat">>]

\* The requests of u1 are interchangeable.
SameCaller == Permutations(Requests \ {r5})
=============================================================================
