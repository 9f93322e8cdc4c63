------------------------------ MODULE UserClient ------------------------------
(***************************************************************************)
(* The gRPC client of the base service and its circuit breaker: one        *)
(* object that all requests share.  Whether the circuit is open is asked   *)
(* before a call and decided again, by any call that was under way, when   *)
(* that call fails.  Times are what is left of them: the code compares     *)
(* readings of a monotonic clock.                                          *)
(***************************************************************************)
EXTENDS Naturals

CONSTANTS
    Requests,
    GrpcTimeout,    \* _GRPC_TIMEOUT_S, in ticks
    Cooldown        \* _CIRCUIT_COOLDOWN_S, in ticks

ASSUME ClientTimes == GrpcTimeout \in Nat /\ Cooldown \in Nat \ {0}

VARIABLES
    calling,    \* the requests that await the base service
    deadline,   \* deadline[r]: ticks left to r's call
    cooldown,   \* ticks until the circuit closes, 0 when it is closed
    openFor     \* history: ticks it has been open without a break

clientVars == <<calling, deadline, cooldown, openFor>>

ClientTypeOK ==
    /\ calling \subseteq Requests
    /\ deadline \in [Requests -> 0..GrpcTimeout]
    /\ cooldown \in 0..Cooldown
    /\ openFor \in 0..(GrpcTimeout + Cooldown)

\* UserGrpcClient(): nothing of an earlier process is known.
ClientInit ==
    /\ calling = {}
    /\ deadline = [r \in Requests |-> 0]
    /\ cooldown = 0
    /\ openFor = 0

ClientReset ==
    /\ calling' = {}
    /\ deadline' = [r \in Requests |-> 0]
    /\ cooldown' = 0
    /\ openFor' = 0

CircuitOpen == cooldown > 0

Dial(r) ==
    /\ calling' = calling \cup {r}
    /\ deadline' = [deadline EXCEPT ![r] = GrpcTimeout]
    /\ UNCHANGED <<cooldown, openFor>>

\* Variant: the circuit is not looked at.
CallAlways(r) == r \notin calling /\ Dial(r)

\* get_user_context with the circuit closed; with the circuit open it
\* returns None at once.
Call(r) == ~CircuitOpen /\ r \notin calling /\ Dial(r)

HangUp(r) ==
    /\ r \in calling
    /\ calling' = calling \ {r}
    /\ deadline' = [deadline EXCEPT ![r] = 0]

\* The base service answers, or refuses in a way that is no fault of its own.
Answered(r) == HangUp(r) /\ UNCHANGED <<cooldown, openFor>>

\* UNAVAILABLE at any time, DEADLINE_EXCEEDED when the time is up.  The body
\* catches both, so that @retry sees none: there is no second attempt.
Failed(r) ==
    /\ HangUp(r)
    /\ cooldown' = Cooldown
    /\ UNCHANGED openFor

\* Variant: the calls have no timeout.
ElapsesUntimed ==
    /\ deadline' = deadline
    /\ cooldown' = IF cooldown = 0 THEN 0 ELSE cooldown - 1
    /\ openFor' = IF cooldown' = 0 THEN 0 ELSE openFor + 1
    /\ UNCHANGED calling

\* Time passes, never beyond the deadline of a call.
Elapses ==
    /\ \A r \in calling : deadline[r] > 0
    /\ deadline' = [r \in Requests |->
                      IF r \in calling THEN deadline[r] - 1 ELSE 0]
    /\ cooldown' = IF cooldown = 0 THEN 0 ELSE cooldown - 1
    /\ openFor' = IF cooldown' = 0 THEN 0 ELSE openFor + 1
    /\ UNCHANGED calling

-----------------------------------------------------------------------------
\* user_client.py:30-31 sets the end of the cooldown anew with each failure,
\* so calls that were under way at the first one prolong it; none begins
\* while it lasts, so it ends within one timeout and one cooldown.
OpenAtMost == openFor + cooldown <= GrpcTimeout + Cooldown
=============================================================================
