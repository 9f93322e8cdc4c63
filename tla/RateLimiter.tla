----------------------------- MODULE RateLimiter -----------------------------
(***************************************************************************)
(* RateLimitMiddleware: for each user a Redis sorted set of the times of   *)
(* the user's requests.  A request reads the clock, opens a connection and *)
(* runs one MULTI/EXEC that drops what is older than the window, adds the  *)
(* request and counts.  Redis executes these transactions in any order,    *)
(* so one that read the clock earlier may run later; how much later        *)
(* (MaxLag) decides what the limiter guarantees.                           *)
(***************************************************************************)
EXTENDS Naturals, FiniteSets, Sequences

CONSTANTS
    Users,
    NoUser,         \* the caller of a request without X-User-Id
    Requests,
    Caller,
    Path,           \* the path of each request, as its segments
    Limit, Window,
    Grace,          \* what the key's TTL adds to the window
    MaxLag,         \* longest time from reading the clock to Redis' answer
    RedisFails,     \* whether Redis may be out of reach
    LastTick        \* bound: ticks of the clock

ASSUME RequestAssumption ==
    /\ NoUser \notin Users
    /\ Caller \in [Requests -> Users \cup {NoUser}]
    /\ Path \in [Requests -> Seq(STRING)] /\ \A r \in Requests : Path[r] # <<>>
ASSUME TimeAssumption ==
    /\ Limit \in Nat /\ Window \in Nat /\ Grace \in Nat /\ LastTick \in Nat
    /\ MaxLag \in 1..Window

VARIABLES
    now,        \* the clock; no two requests read the same time
    pc,         \* what became of each request
    stamp,      \* the time it read
    zset,       \* zset[u]: the scores under the key ratelimit:u
    expires     \* expires[u]: when Redis drops the key

vars == <<now, pc, stamp, zset, expires>>

TypeOK ==
    /\ now \in Nat
    /\ pc \in [Requests -> {"idle", "waiting", "served", "limited", "unchecked"}]
    /\ stamp \in [Requests -> Nat]
    /\ zset \in [Users -> SUBSET Nat]
    /\ expires \in [Users -> Nat]

Init ==
    /\ now = 0
    /\ pc = [r \in Requests |-> "idle"]
    /\ stamp = [r \in Requests |-> 0]
    /\ zset = [u \in Users |-> {}]
    /\ expires = [u \in Users |-> 0]

-----------------------------------------------------------------------------
\* request.url.path.startswith("/chat"), for the paths of this API.
Matches(path) == Head(path) = "chat"

Checked(r) == Matches(Path[r]) /\ Caller[r] # NoUser

\* Time passes while no transaction is overdue.
Advance ==
    /\ now < LastTick
    /\ \A r \in Requests : pc[r] = "waiting" => now < stamp[r] + MaxLag
    /\ now' = now + 1

Tick == Advance /\ UNCHANGED <<pc, stamp, zset, expires>>

\* dispatch, to the await: reading the clock takes time.
Arrive(r) ==
    /\ pc[r] = "idle"
    /\ Advance
    /\ stamp' = [stamp EXCEPT ![r] = now]
    /\ pc' = [pc EXCEPT ![r] = IF Checked(r) THEN "waiting" ELSE "served"]
    /\ UNCHANGED <<zset, expires>>

\* zremrangebyscore with the start of the window included, then zadd.
Slid(r) == {s \in zset[Caller[r]] : s + Window > stamp[r]} \cup {stamp[r]}

\* The transaction's effect: what it keeps and the TTL it sets.
Transaction(r) ==
    /\ zset' = [zset EXCEPT ![Caller[r]] = Slid(r)]
    /\ expires' = [expires EXCEPT ![Caller[r]] = now + Window + Grace]

\* Variants: the count is taken before the request is added; a full window
\* is taken for one over the limit.
CheckCountsFirst(r) ==
    /\ pc[r] = "waiting"
    /\ Transaction(r)
    /\ pc' = [pc EXCEPT ![r] =
                IF Cardinality(Slid(r) \ {stamp[r]}) <= Limit THEN "served" ELSE "limited"]
    /\ UNCHANGED <<now, stamp>>

CheckStrict(r) ==
    /\ pc[r] = "waiting"
    /\ Transaction(r)
    /\ pc' = [pc EXCEPT ![r] = IF Cardinality(Slid(r)) < Limit THEN "served" ELSE "limited"]
    /\ UNCHANGED <<now, stamp>>

\* _check_rate: a refused request has been added all the same.
CheckRate(r) ==
    /\ pc[r] = "waiting"
    /\ Transaction(r)
    /\ pc' = [pc EXCEPT ![r] = IF Cardinality(Slid(r)) <= Limit THEN "served" ELSE "limited"]
    /\ UNCHANGED <<now, stamp>>

\* Variant: the exception leaves dispatch.
RedisFailsClosed(r) ==
    /\ RedisFails
    /\ pc[r] = "waiting"
    /\ UNCHANGED <<zset, expires>>
    /\ pc' = [pc EXCEPT ![r] = "error"]
    /\ UNCHANGED <<now, stamp>>

\* Any exception lets the request through, the transaction done or not.
RedisFailsOpen(r) ==
    /\ RedisFails
    /\ pc[r] = "waiting"
    /\ Transaction(r) \/ UNCHANGED <<zset, expires>>
    /\ pc' = [pc EXCEPT ![r] = "unchecked"]
    /\ UNCHANGED <<now, stamp>>

Expire(u) ==
    /\ zset[u] # {} /\ expires[u] <= now
    /\ zset' = [zset EXCEPT ![u] = {}]
    /\ UNCHANGED <<now, pc, stamp, expires>>

Next ==
    \/ Tick
    \/ \E r \in Requests : Arrive(r) \/ CheckRate(r) \/ RedisFailsOpen(r)
    \/ \E u \in Users : Expire(u)

Spec == Init /\ [][Next]_vars

-----------------------------------------------------------------------------
\* Requests of u that were let in and read a time from `from` on, for `length`.
Served(u, from, length) ==
    {r \in Requests : /\ Caller[r] = u /\ pc[r] = "served"
                      /\ from <= stamp[r] /\ stamp[r] < from + length}

\* Those that Redis let in, in a window shortened by what transactions lag.
Admitted(u, from) == {r \in Served(u, from, Window + 1 - MaxLag) : Checked(r)}

\* middleware.py:60-73: in any stretch of time as long as the window, less
\* what transactions may lag, Redis lets in at most Limit requests of a user.
\* The order in which transactions run, the expiry of the key and lost
\* replies do not weaken this.
RateBound ==
    \A u \in Users, q \in Requests : Cardinality(Admitted(u, stamp[q])) <= Limit

\* middleware.py:73: nobody is refused who has not sent more than Limit
\* requests, refused ones included, since the window began.
RefusedOnlyOverLimit ==
    [][\A r \in Requests : pc[r] = "waiting" /\ pc'[r] = "limited" =>
          Cardinality({q \in Requests : /\ Caller[q] = Caller[r] /\ pc[q] # "idle"
                                        /\ stamp[q] + Window > stamp[r]}) > Limit]_vars
=============================================================================
