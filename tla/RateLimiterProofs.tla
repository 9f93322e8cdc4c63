-------------------------- MODULE RateLimiterProofs --------------------------
(***************************************************************************)
(* The rate limiter keeps its bound for every number of requests and users,*)
(* every limit and window, and every lag up to the window.  The argument:  *)
(* a request that was let in stays in the user's sorted set until it is    *)
(* older than the window, whatever later transactions drop and whenever    *)
(* the key expires; so the transaction that lets in one more counts all    *)
(* that a stretch ending with it holds.                                    *)
(***************************************************************************)
EXTENDS RateLimiter, Functions, FiniteSetTheorems, TLAPS

\* Clock readings differ, lie in the past, and a waiting request is checked
\* and not overdue.
Stamped ==
    /\ \A r \in Requests : pc[r] # "idle" => stamp[r] < now
    /\ \A r, q \in Requests :
          r # q /\ pc[r] # "idle" /\ pc[q] # "idle" => stamp[r] # stamp[q]
    /\ \A r \in Requests : pc[r] = "waiting" => Checked(r) /\ now <= stamp[r] + MaxLag

\* A score is dropped with its key only after it has left the window.
Outlives ==
    \A u \in Users : \A s \in zset[u] : s < now /\ s + Window + Grace < expires[u]

\* What Redis let in is still counted, or has left the window.
Kept ==
    \A r \in Requests : Checked(r) /\ pc[r] = "served" =>
        stamp[r] \in zset[Caller[r]] \/ stamp[r] + Window < now

AdmittedBound ==
    \A u \in Users, from \in Nat :
        IsFiniteSet(Admitted(u, from)) /\ Cardinality(Admitted(u, from)) <= Limit

IInv == TypeOK /\ Stamped /\ Outlives /\ Kept /\ AdmittedBound

-----------------------------------------------------------------------------
LEMMA CheckedCaller ==
    ASSUME NEW r \in Requests, Checked(r)
    PROVE  Caller[r] \in Users
  BY RequestAssumption DEF Checked

\* The scores a transaction keeps are readings of the clock, so finitely many.
LEMMA SlidFinite ==
    ASSUME TypeOK, Outlives, NEW r \in Requests, Caller[r] \in Users
    PROVE  IsFiniteSet(Slid(r))
  <1>1. stamp[r] \in Nat /\ now \in Nat /\ zset[Caller[r]] \in SUBSET Nat
    BY DEF TypeOK
  <1>2. IsFiniteSet(0..(now + stamp[r]))
    BY <1>1, FS_Interval
  <1>3. Slid(r) \subseteq 0..(now + stamp[r])
    <2> SUFFICES ASSUME NEW s \in Slid(r) PROVE s \in 0..(now + stamp[r])
      OBVIOUS
    <2>1. CASE s = stamp[r]
      BY <1>1, <2>1
    <2>2. CASE s \in zset[Caller[r]]
      <3>1. s \in Nat /\ s < now
        BY <1>1, <2>2 DEF Outlives
      <3> QED BY <1>1, <3>1
    <2> QED BY <2>1, <2>2 DEF Slid
  <1> QED BY <1>2, <1>3, FS_Subset

LEMMA InitIInv == Init => IInv
  <1> SUFFICES ASSUME Init PROVE IInv
    OBVIOUS
  <1>1. TypeOK /\ Stamped /\ Outlives /\ Kept
    BY DEF Init, TypeOK, Stamped, Outlives, Kept
  <1>2. AdmittedBound
    <2> SUFFICES ASSUME NEW u \in Users, NEW from \in Nat
                 PROVE  IsFiniteSet(Admitted(u, from)) /\ Cardinality(Admitted(u, from)) <= Limit
      BY DEF AdmittedBound
    <2>1. Admitted(u, from) = {}
      BY DEF Init, Admitted, Served
    <2> QED BY <2>1, FS_EmptySet, TimeAssumption
  <1> QED BY <1>1, <1>2 DEF IInv

\* Fewer requests were let in than before, or as many.
LEMMA NoneAdmitted ==
    ASSUME AdmittedBound,
           \A u \in Users, from \in Nat : Admitted(u, from)' \subseteq Admitted(u, from)
    PROVE  AdmittedBound'
  <1> SUFFICES ASSUME NEW u \in Users, NEW from \in Nat
               PROVE  /\ IsFiniteSet(Admitted(u, from)')
                      /\ Cardinality(Admitted(u, from)') <= Limit
    BY DEF AdmittedBound
  <1>1. IsFiniteSet(Admitted(u, from)) /\ Cardinality(Admitted(u, from)) <= Limit
    BY DEF AdmittedBound
  <1>2. /\ IsFiniteSet(Admitted(u, from)')
        /\ Cardinality(Admitted(u, from)') <= Cardinality(Admitted(u, from))
    BY <1>1, FS_Subset
  <1>3. Cardinality(Admitted(u, from)) \in Nat /\ Cardinality(Admitted(u, from)') \in Nat
    BY <1>1, <1>2, FS_CardinalityType
  <1> QED BY <1>1, <1>2, <1>3, TimeAssumption

\* Every step but a transaction that lets its request in leaves who was let
\* in as it is: a new request is waiting, or is not checked.
LEMMA SameServed ==
    ASSUME \A r \in Requests : Checked(r) /\ pc'[r] = "served" =>
               pc[r] = "served" /\ stamp'[r] = stamp[r],
           AdmittedBound
    PROVE  AdmittedBound'
  <1> SUFFICES ASSUME NEW u \in Users, NEW from \in Nat
               PROVE  Admitted(u, from)' \subseteq Admitted(u, from)
    BY NoneAdmitted
  <1> QED BY DEF Admitted, Served, Checked, Matches

LEMMA ArriveStep ==
    ASSUME IInv, NEW r0 \in Requests, Arrive(r0)
    PROVE  IInv'
  <1> USE DEF IInv, Arrive, Advance
  <1>1. TypeOK'
    BY DEF TypeOK
  <1>2. now' = now + 1 /\ now \in Nat /\ stamp'[r0] = now
        /\ \A r \in Requests : r # r0 => pc'[r] = pc[r] /\ stamp'[r] = stamp[r]
        /\ pc'[r0] = (IF Checked(r0) THEN "waiting" ELSE "served")
        /\ stamp \in [Requests -> Nat]
    BY DEF TypeOK
  <1>3. Stamped'
    <2>1. \A r \in Requests : pc'[r] # "idle" => stamp'[r] < now'
      BY <1>2 DEF Stamped
    <2>2. \A r, q \in Requests :
             r # q /\ pc'[r] # "idle" /\ pc'[q] # "idle" => stamp'[r] # stamp'[q]
      BY <1>2 DEF Stamped
    <2>3. \A r \in Requests : pc'[r] = "waiting" => Checked(r) /\ now' <= stamp'[r] + MaxLag
      BY <1>2, TimeAssumption DEF Stamped
    <2> QED BY <2>1, <2>2, <2>3 DEF Stamped, Checked, Matches
  <1>4. Outlives'
    BY <1>2 DEF Outlives, TypeOK
  <1>5. Kept'
    <2> SUFFICES ASSUME NEW r \in Requests, Checked(r), pc'[r] = "served"
                 PROVE  stamp'[r] \in zset'[Caller[r]] \/ stamp'[r] + Window < now'
      BY DEF Kept, Checked, Matches
    <2>1. r # r0
      BY <1>2
    <2>2. stamp[r] \in Nat /\ Window \in Nat
      BY <1>2, TimeAssumption
    <2> QED BY <1>2, <2>1, <2>2 DEF Kept
  <1>6. AdmittedBound'
    BY <1>2, SameServed
  <1> QED BY <1>1, <1>3, <1>4, <1>5, <1>6

LEMMA TickStep ==
    ASSUME IInv, Tick
    PROVE  IInv'
  <1> USE DEF IInv, Tick, Advance
  <1>1. TypeOK'
    BY DEF TypeOK
  <1>2. now' = now + 1 /\ now \in Nat /\ stamp \in [Requests -> Nat]
    BY DEF TypeOK
  <1>3. Stamped'
    BY <1>2, TimeAssumption DEF Stamped, Checked, Matches
  <1>4. Outlives'
    BY <1>2 DEF Outlives, TypeOK
  <1>5. Kept'
    BY <1>2, TimeAssumption DEF Kept, Checked, Matches
  <1>6. AdmittedBound'
    BY SameServed
  <1> QED BY <1>1, <1>3, <1>4, <1>5, <1>6

LEMMA ExpireStep ==
    ASSUME IInv, NEW u0 \in Users, Expire(u0)
    PROVE  IInv'
  <1> USE DEF IInv, Expire
  <1>1. TypeOK'
    BY DEF TypeOK
  <1>2. /\ now \in Nat /\ stamp \in [Requests -> Nat]
        /\ zset'[u0] = {} /\ \A u \in Users : u # u0 => zset'[u] = zset[u]
        /\ \A u \in Users : expires[u] \in Nat
    BY DEF TypeOK
  <1>3. Stamped'
    BY DEF Stamped, Checked, Matches
  <1>4. Outlives'
    BY <1>2 DEF Outlives
  <1>5. Kept'
    <2> SUFFICES ASSUME NEW r \in Requests, Checked(r), pc[r] = "served",
                        Caller[r] = u0, stamp[r] \in zset[u0]
                 PROVE  stamp[r] + Window < now
      BY <1>2, CheckedCaller DEF Kept, Checked, Matches
    <2>1. stamp[r] + Window + Grace < expires[u0] /\ expires[u0] <= now
      BY DEF Outlives
    <2> QED BY <1>2, <2>1, TimeAssumption
  <1>6. AdmittedBound'
    BY SameServed
  <1> QED BY <1>1, <1>3, <1>4, <1>5, <1>6

\* What a transaction does to the scores, whatever its caller makes of it.
LEMMA TransactionKeeps ==
    ASSUME IInv, NEW r0 \in Requests, pc[r0] = "waiting", Transaction(r0),
           UNCHANGED <<now, stamp>>
    PROVE  /\ zset' \in [Users -> SUBSET Nat] /\ expires' \in [Users -> Nat]
           /\ Outlives'
           /\ \A r \in Requests : Checked(r) /\ pc[r] = "served" =>
                 stamp[r] \in zset'[Caller[r]] \/ stamp[r] + Window < now
           /\ stamp[r0] \in zset'[Caller[r0]]
  <1> DEFINE u0 == Caller[r0]
  <1>1. u0 \in Users
    BY CheckedCaller DEF IInv, Stamped
  <1>2. /\ now \in Nat /\ stamp \in [Requests -> Nat] /\ zset \in [Users -> SUBSET Nat]
        /\ expires \in [Users -> Nat]
    BY DEF IInv, TypeOK
  <1>3. stamp[r0] < now
    BY DEF IInv, Stamped
  <1>4. /\ zset'[u0] = Slid(r0) /\ expires'[u0] = now + Window + Grace
        /\ \A u \in Users : u # u0 => zset'[u] = zset[u] /\ expires'[u] = expires[u]
    BY <1>1, <1>2 DEF Transaction
  <1>5. Slid(r0) \subseteq Nat
    BY <1>1, <1>2 DEF Slid
  <1>6. zset' \in [Users -> SUBSET Nat] /\ expires' \in [Users -> Nat]
    BY <1>1, <1>2, <1>5, TimeAssumption DEF Transaction
  <1>7. Outlives'
    <2> SUFFICES ASSUME NEW u \in Users, NEW s \in zset'[u]
                 PROVE  s < now /\ s + Window + Grace < expires'[u]
      BY DEF Outlives
    <2>1. CASE u # u0
      BY <1>4, <2>1 DEF IInv, Outlives
    <2>2. CASE u = u0
      <3>1. s \in Nat /\ s < now
        BY <1>1, <1>2, <1>3, <1>4, <1>5, <2>2 DEF Slid, IInv, Outlives
      <3> QED BY <1>2, <1>4, <2>2, <3>1, TimeAssumption
    <2> QED BY <2>1, <2>2
  <1>8. \A r \in Requests : Checked(r) /\ pc[r] = "served" =>
            stamp[r] \in zset'[Caller[r]] \/ stamp[r] + Window < now
    <2> SUFFICES ASSUME NEW r \in Requests, Checked(r), pc[r] = "served",
                        stamp[r] \notin zset'[Caller[r]]
                 PROVE  stamp[r] + Window < now
      OBVIOUS
    <2>1. Caller[r] \in Users
      BY CheckedCaller
    <2>2. stamp[r] \in zset[Caller[r]] \/ stamp[r] + Window < now
      BY DEF IInv, Kept
    <2>3. CASE stamp[r] \in zset[Caller[r]]
      <3>1. Caller[r] = u0
        BY <1>4, <2>1, <2>3
      <3>2. ~(stamp[r] + Window > stamp[r0])
        BY <1>4, <2>3, <3>1 DEF Slid
      <3> QED BY <1>2, <1>3, <3>2, TimeAssumption
    <2> QED BY <2>2, <2>3
  <1>9. stamp[r0] \in zset'[u0]
    BY <1>4 DEF Slid
  <1> QED BY <1>6, <1>7, <1>8, <1>9

\* The requests a stretch holds that ends with r0 are all among the scores
\* that r0's transaction counts.
LEMMA AllCounted ==
    ASSUME IInv, NEW r0 \in Requests, CheckRate(r0), Cardinality(Slid(r0)) <= Limit,
           NEW u \in Users, NEW from \in Nat, r0 \in Admitted(u, from)'
    PROVE  IsFiniteSet(Admitted(u, from)') /\ Cardinality(Admitted(u, from)') <= Limit
  <1> DEFINE S == Admitted(u, from)'
  <1> DEFINE f == [r \in S |-> stamp[r]]
  <1>1. /\ now \in Nat /\ stamp \in [Requests -> Nat] /\ zset \in [Users -> SUBSET Nat]
        /\ stamp' = stamp /\ now' = now
    BY DEF IInv, TypeOK, CheckRate
  <1>2. \A r \in S : /\ r \in Requests /\ Caller[r] = u /\ Checked(r)
                     /\ from <= stamp[r] /\ stamp[r] < from + (Window + 1 - MaxLag)
                     /\ r # r0 => pc[r] = "served"
    <2>1. \A r \in S : /\ r \in Requests /\ Caller[r] = u /\ Checked(r)
                      /\ from <= stamp'[r] /\ stamp'[r] < from + (Window + 1 - MaxLag)
                      /\ pc'[r] = "served"
      BY DEF Admitted, Served, Checked, Matches
    <2>2. \A r \in Requests : r # r0 => pc'[r] = pc[r]
      BY DEF CheckRate, IInv, TypeOK
    <2> QED BY <1>1, <2>1, <2>2
  <1>3. stamp[r0] < now /\ now <= stamp[r0] + MaxLag
    BY DEF IInv, Stamped, CheckRate
  <1>4. \A r \in S : stamp[r] \in Slid(r0)
    <2> SUFFICES ASSUME NEW r \in S, r # r0 PROVE stamp[r] \in Slid(r0)
      BY DEF Slid
    <2>1. r \in Requests /\ pc[r] = "served" /\ Checked(r) /\ Caller[r] = u /\ Caller[r0] = u
      BY <1>2
    <2>2. stamp[r] + Window >= now /\ stamp[r] + Window > stamp[r0]
      BY <1>1, <1>2, <1>3, <2>1, TimeAssumption
    <2>3. stamp[r] \in zset[u]
      BY <1>1, <2>1, <2>2, TimeAssumption DEF IInv, Kept
    <2> QED BY <2>1, <2>2, <2>3 DEF Slid
  <1>5. \A r, q \in S : stamp[r] = stamp[q] => r = q
    BY <1>2 DEF IInv, Stamped, CheckRate
  <1>6. f \in Injection(S, Slid(r0))
    BY <1>4, <1>5 DEF Injection, IsInjective
  <1>7. IsFiniteSet(Slid(r0))
    BY <1>2, SlidFinite DEF IInv
  <1>8. IsFiniteSet(S) /\ Cardinality(S) <= Cardinality(Slid(r0))
    BY <1>6, <1>7, FS_Injection
  <1>9. Cardinality(S) \in Nat /\ Cardinality(Slid(r0)) \in Nat
    BY <1>7, <1>8, FS_CardinalityType
  <1> QED BY <1>8, <1>9, TimeAssumption

LEMMA CheckRateStep ==
    ASSUME IInv, NEW r0 \in Requests, CheckRate(r0)
    PROVE  IInv'
  <1>1. /\ pc[r0] = "waiting" /\ Transaction(r0) /\ UNCHANGED <<now, stamp>>
        /\ pc' = [pc EXCEPT ![r0] =
                     IF Cardinality(Slid(r0)) <= Limit THEN "served" ELSE "limited"]
        /\ pc \in [Requests -> {"idle", "waiting", "served", "limited", "unchecked"}]
        /\ now \in Nat /\ stamp \in [Requests -> Nat]
    BY DEF CheckRate, IInv, TypeOK
  <1>2. /\ zset' \in [Users -> SUBSET Nat] /\ expires' \in [Users -> Nat]
        /\ Outlives'
        /\ \A r \in Requests : Checked(r) /\ pc[r] = "served" =>
              stamp[r] \in zset'[Caller[r]] \/ stamp[r] + Window < now
        /\ stamp[r0] \in zset'[Caller[r0]]
    BY <1>1, TransactionKeeps
  <1>3. TypeOK'
    BY <1>1, <1>2 DEF TypeOK
  <1>4. Stamped'
    BY <1>1 DEF IInv, Stamped, Checked, Matches
  <1>5. Kept'
    BY <1>1, <1>2 DEF Kept, Checked, Matches
  <1>6. AdmittedBound'
    <2>1. CASE Cardinality(Slid(r0)) <= Limit
      <3> SUFFICES ASSUME NEW u \in Users, NEW from \in Nat
                   PROVE  /\ IsFiniteSet(Admitted(u, from)')
                          /\ Cardinality(Admitted(u, from)') <= Limit
        BY DEF AdmittedBound
      <3>1. CASE r0 \in Admitted(u, from)'
        BY <2>1, <3>1, AllCounted
      <3>2. CASE r0 \notin Admitted(u, from)'
        <4>1. Admitted(u, from)' \subseteq Admitted(u, from)
          BY <1>1, <3>2 DEF Admitted, Served, Checked, Matches
        <4>2. IsFiniteSet(Admitted(u, from)) /\ Cardinality(Admitted(u, from)) <= Limit
          BY DEF IInv, AdmittedBound
        <4>3. /\ IsFiniteSet(Admitted(u, from)')
              /\ Cardinality(Admitted(u, from)') <= Cardinality(Admitted(u, from))
          BY <4>1, <4>2, FS_Subset
        <4>4. /\ Cardinality(Admitted(u, from)) \in Nat
              /\ Cardinality(Admitted(u, from)') \in Nat
          BY <4>2, <4>3, FS_CardinalityType
        <4> QED BY <4>2, <4>3, <4>4, TimeAssumption
      <3> QED BY <3>1, <3>2
    <2>2. CASE ~(Cardinality(Slid(r0)) <= Limit)
      <3>1. \A r \in Requests : Checked(r) /\ pc'[r] = "served" =>
                pc[r] = "served" /\ stamp'[r] = stamp[r]
        BY <1>1, <2>2
      <3> QED BY <3>1, SameServed DEF IInv
    <2> QED BY <2>1, <2>2
  <1> QED BY <1>2, <1>3, <1>4, <1>5, <1>6 DEF IInv

LEMMA FailStep ==
    ASSUME IInv, NEW r0 \in Requests, RedisFailsOpen(r0)
    PROVE  IInv'
  <1>1. /\ pc[r0] = "waiting" /\ UNCHANGED <<now, stamp>>
        /\ pc' = [pc EXCEPT ![r0] = "unchecked"]
        /\ Transaction(r0) \/ UNCHANGED <<zset, expires>>
        /\ pc \in [Requests -> {"idle", "waiting", "served", "limited", "unchecked"}]
        /\ now \in Nat /\ stamp \in [Requests -> Nat]
    BY DEF RedisFailsOpen, IInv, TypeOK
  <1>2. /\ zset' \in [Users -> SUBSET Nat] /\ expires' \in [Users -> Nat]
        /\ Outlives'
        /\ \A r \in Requests : Checked(r) /\ pc[r] = "served" =>
              stamp[r] \in zset'[Caller[r]] \/ stamp[r] + Window < now
    <2>1. CASE Transaction(r0)
      BY <1>1, <2>1, TransactionKeeps
    <2>2. CASE UNCHANGED <<zset, expires>>
      BY <1>1, <2>2 DEF IInv, TypeOK, Outlives, Kept
    <2> QED BY <1>1, <2>1, <2>2
  <1>3. TypeOK'
    BY <1>1, <1>2 DEF TypeOK
  <1>4. Stamped'
    BY <1>1 DEF IInv, Stamped, Checked, Matches
  <1>5. Kept'
    BY <1>1, <1>2 DEF Kept, Checked, Matches
  <1>6. AdmittedBound'
    BY <1>1, SameServed DEF IInv
  <1> QED BY <1>2, <1>3, <1>4, <1>5, <1>6 DEF IInv

LEMMA NextIInv == IInv /\ [Next]_vars => IInv'
  <1> SUFFICES ASSUME IInv, [Next]_vars PROVE IInv'
    OBVIOUS
  <1>1. CASE Tick
    BY <1>1, TickStep
  <1>2. ASSUME NEW r \in Requests, Arrive(r) PROVE IInv'
    BY <1>2, ArriveStep
  <1>3. ASSUME NEW r \in Requests, CheckRate(r) PROVE IInv'
    BY <1>3, CheckRateStep
  <1>4. ASSUME NEW r \in Requests, RedisFailsOpen(r) PROVE IInv'
    BY <1>4, FailStep
  <1>5. ASSUME NEW u \in Users, Expire(u) PROVE IInv'
    BY <1>5, ExpireStep
  <1>6. CASE UNCHANGED vars
    BY <1>6 DEF vars, IInv, TypeOK, Stamped, Outlives, Kept, AdmittedBound, Admitted,
               Served, Checked, Matches
  <1> QED BY <1>1, <1>2, <1>3, <1>4, <1>5, <1>6 DEF Next

-----------------------------------------------------------------------------
\* Types of the limiter's state (middleware.py:60-73).
THEOREM TypeCorrect == Spec => []TypeOK
  <1>1. IInv => TypeOK
    BY DEF IInv
  <1> QED BY <1>1, InitIInv, NextIInv, PTL DEF Spec

\* middleware.py:60-73: with any number of users and requests, in any stretch
\* as long as the window less the lag at most Limit requests of a user are
\* let in by Redis, whatever order transactions run in.
THEOREM BoundKept == Spec => []RateBound
  <1>1. IInv => RateBound
    BY DEF IInv, TypeOK, AdmittedBound, RateBound
  <1> QED BY <1>1, InitIInv, NextIInv, PTL DEF Spec

-----------------------------------------------------------------------------
(* Refusals.                                                               *)

\* A score is the clock reading of a request of that user: nobody's window
\* is filled by what somebody else sent, or by a request twice.
Came ==
    \A u \in Users : \A s \in zset[u] :
        \E q \in Requests : Caller[q] = u /\ pc[q] # "idle" /\ stamp[q] = s

\* Requests keep what they have read, and only new scores need a request.
LEMMA CameKept ==
    ASSUME Came,
           \A q \in Requests : pc[q] # "idle" => pc'[q] # "idle" /\ stamp'[q] = stamp[q],
           \A u \in Users : \A s \in zset'[u] :
               \/ s \in zset[u]
               \/ \E q \in Requests : Caller[q] = u /\ pc'[q] # "idle" /\ stamp'[q] = s
    PROVE  Came'
  BY DEF Came

LEMMA TransactionCame ==
    ASSUME IInv, Came, NEW r0 \in Requests, pc[r0] = "waiting", Transaction(r0),
           UNCHANGED <<now, stamp>>, NEW e \in {"served", "limited", "unchecked"},
           pc' = [pc EXCEPT ![r0] = e]
    PROVE  Came'
  <1>1. Caller[r0] \in Users
    BY CheckedCaller DEF IInv, Stamped
  <1>2. \A q \in Requests : pc[q] # "idle" => pc'[q] # "idle" /\ stamp'[q] = stamp[q]
    BY DEF IInv, TypeOK
  <1>3. pc'[r0] # "idle" /\ stamp'[r0] = stamp[r0]
    BY <1>2
  <1>4. \A u \in Users : zset'[u] = IF u = Caller[r0] THEN Slid(r0) ELSE zset[u]
    BY <1>1 DEF Transaction, IInv, TypeOK
  <1>5. Slid(r0) \subseteq zset[Caller[r0]] \cup {stamp[r0]}
    BY DEF Slid
  <1>6. ASSUME NEW u \in Users, NEW s \in zset'[u]
        PROVE  \/ s \in zset[u]
               \/ \E q \in Requests : Caller[q] = u /\ pc'[q] # "idle" /\ stamp'[q] = s
    BY <1>3, <1>4, <1>5, <1>6
  <1> QED BY <1>2, <1>6, CameKept

LEMMA NextCame == IInv /\ Came /\ [Next]_vars => Came'
  <1> SUFFICES ASSUME IInv, Came, [Next]_vars PROVE Came'
    OBVIOUS
  <1>1. CASE Tick
    BY <1>1, CameKept DEF Tick
  <1>2. ASSUME NEW r \in Requests, Arrive(r) PROVE Came'
    <2>1. \A q \in Requests : pc[q] # "idle" => pc'[q] # "idle" /\ stamp'[q] = stamp[q]
      BY <1>2 DEF Arrive, IInv, TypeOK
    <2> QED BY <1>2, <2>1, CameKept DEF Arrive
  <1>3. ASSUME NEW r \in Requests, CheckRate(r) PROVE Came'
    BY <1>3, TransactionCame DEF CheckRate
  <1>4. ASSUME NEW r \in Requests, RedisFailsOpen(r) PROVE Came'
    <2>1. CASE Transaction(r)
      BY <1>4, <2>1, TransactionCame DEF RedisFailsOpen
    <2>2. CASE UNCHANGED <<zset, expires>>
      <3>1. \A q \in Requests : pc[q] # "idle" => pc'[q] # "idle" /\ stamp'[q] = stamp[q]
        BY <1>4 DEF RedisFailsOpen, IInv, TypeOK
      <3> QED BY <2>2, <3>1, CameKept
    <2> QED BY <1>4, <2>1, <2>2 DEF RedisFailsOpen
  <1>5. ASSUME NEW u \in Users, Expire(u) PROVE Came'
    <2>1. \A v \in Users : zset'[v] \subseteq zset[v]
      BY <1>5 DEF Expire, IInv, TypeOK
    <2> QED BY <1>5, <2>1, CameKept DEF Expire
  <1>6. CASE UNCHANGED vars
    BY <1>6, CameKept DEF vars
  <1> QED BY <1>1, <1>2, <1>3, <1>4, <1>5, <1>6 DEF Next

\* The requests that a refusal counts.
Counted(r) == {q \in Requests : /\ Caller[q] = Caller[r] /\ pc[q] # "idle"
                                /\ stamp[q] + Window > stamp[r]}

\* A request reads a time of its own, so that there is one for each score
\* and, though Requests need not be finite, finitely many have come.
LEMMA ScoresAreRequests ==
    ASSUME IInv, Came, NEW r \in Requests, pc[r] = "waiting"
    PROVE  /\ Cardinality(Slid(r)) <= Cardinality(Counted(r))
           /\ Cardinality(Slid(r)) \in Nat /\ Cardinality(Counted(r)) \in Nat
  <1> DEFINE S == Slid(r)
             C == Counted(r)
             of == [s \in S |-> CHOOSE q \in C : stamp[q] = s]
             at == [q \in C |-> stamp[q]]
  <1>1. /\ Checked(r) /\ Caller[r] \in Users /\ stamp \in [Requests -> Nat] /\ now \in Nat
        /\ zset \in [Users -> SUBSET Nat]
    BY CheckedCaller DEF IInv, TypeOK, Stamped
  <1>2. IsFiniteSet(C)
    <2>1. at \in Injection(C, 0..now)
      <3>1. \A q \in C : at[q] \in 0..now
        BY <1>1 DEF Counted, IInv, Stamped
      <3>2. \A p, q \in C : at[p] = at[q] => p = q
        BY DEF Counted, IInv, Stamped
      <3> QED BY <3>1, <3>2 DEF Injection, IsInjective
    <2> QED BY <2>1, <1>1, FS_Interval, FS_Injection
  <1>3. \A s \in S : \E q \in C : stamp[q] = s
    <2>1. Window > 0 /\ Window \in Nat
      BY TimeAssumption
    <2>2. r \in C
      BY <1>1, <2>1 DEF Counted
    <2>3. ASSUME NEW s \in zset[Caller[r]], s + Window > stamp[r]
          PROVE  \E q \in C : stamp[q] = s
      BY <1>1, <2>3 DEF Came, Counted
    <2> QED BY <2>2, <2>3 DEF Slid
  <1>4. \A s \in S : of[s] \in C /\ stamp[of[s]] = s
    BY <1>3
  <1>5. of \in Injection(S, C)
    BY <1>4 DEF Injection, IsInjective
  <1>6. IsFiniteSet(S) /\ Cardinality(S) <= Cardinality(C)
    BY <1>2, <1>5, FS_Injection
  <1> QED BY <1>2, <1>6, FS_CardinalityType

\* middleware.py:73: for every limit and window, a user is refused only after
\* more than Limit requests of the user's own since the window began.
THEOREM RefusedOnlyOverLimitCorrect == Spec => RefusedOnlyOverLimit
  <1>1. Init => Came
    BY DEF Init, Came
  <1>2. ASSUME IInv, Came, [Next]_vars
        PROVE  [\A r \in Requests : pc[r] = "waiting" /\ pc'[r] = "limited" =>
                   Cardinality({q \in Requests : /\ Caller[q] = Caller[r] /\ pc[q] # "idle"
                                                 /\ stamp[q] + Window > stamp[r]}) > Limit]_vars
    <2> SUFFICES ASSUME NEW r \in Requests, pc[r] = "waiting", pc'[r] = "limited"
                 PROVE  Cardinality(Counted(r)) > Limit
      BY DEF Counted
    <2>1. CheckRate(r)
      <3>1. pc \in [Requests -> {"idle", "waiting", "served", "limited", "unchecked"}]
        BY <1>2 DEF IInv, TypeOK
      <3>2. PICK q \in Requests : Arrive(q) \/ CheckRate(q) \/ RedisFailsOpen(q)
        BY <1>2 DEF Next, Tick, Expire, vars
      <3> QED BY <3>1, <3>2 DEF Arrive, CheckRate, RedisFailsOpen
    <2>2. ~(Cardinality(Slid(r)) <= Limit)
      BY <1>2, <2>1 DEF CheckRate, IInv, TypeOK
    <2>3. /\ Cardinality(Slid(r)) <= Cardinality(Counted(r))
          /\ Cardinality(Slid(r)) \in Nat /\ Cardinality(Counted(r)) \in Nat
      BY <1>2, ScoresAreRequests
    <2> QED BY <2>2, <2>3, TimeAssumption
  <1> QED BY <1>1, <1>2, NextCame, InitIInv, NextIInv, PTL DEF Spec, RefusedOnlyOverLimit
=============================================================================
