----------------------------- MODULE QuotaProofs -----------------------------
(***************************************************************************)
(* Proofs about Quota for any users, requests, limits and token counts.    *)
(* What the overshoot needs of a sum of tokens is that it grows with the   *)
(* set of rows (TokensMonotone): a check bounds the sum over all rows, a   *)
(* reset takes rows away, and a row that is added belongs to a request     *)
(* that is in the wave or resumed (UnderWayIsCounted).  And about the      *)
(* callers: rows of users are only added (AdmissionStep).                  *)
(***************************************************************************)
EXTENDS Quota, FiniteSetTheorems, TLAPS

AllRows == Requests \X Periods

LEMMA AllRowsFinite == IsFiniteSet(AllRows)
<1>1. IsFiniteSet({"daily"})
  BY FS_Singleton
<1>2. IsFiniteSet({"daily"} \cup {"weekly"})
  BY <1>1, FS_AddElement
<1>3. IsFiniteSet(({"daily"} \cup {"weekly"}) \cup {"monthly"})
  BY <1>2, FS_AddElement
<1>4. Periods = ({"daily"} \cup {"weekly"}) \cup {"monthly"}
  BY DEF Periods
<1>5. IsFiniteSet(Periods)
  BY <1>3, <1>4
<1>6. QED
  BY <1>5, CallerAssumption, FS_Product DEF AllRows

Weight(R) == UNION {{row} \X (1..Answer[row[1]]) : row \in R}

\* The tokens of a set of rows are finitely many.
LEMMA WeightFinite ==
  ASSUME NEW R \in SUBSET AllRows
  PROVE  IsFiniteSet(Weight(R))
<1> DEFINE f == [row \in R |-> {row} \X (1..Answer[row[1]])]
           T == {{row} \X (1..Answer[row[1]]) : row \in R}
<1>1. IsFiniteSet(R)
  BY AllRowsFinite, FS_Subset
<1>2. f \in Surjection(R, T)
  <2>1. f \in [R -> T]
    OBVIOUS
  <2>2. \A x \in T : \E row \in R : f[row] = x
    OBVIOUS
  <2>3. QED
    BY <2>1, <2>2 DEF Surjection
<1>3. IsFiniteSet(T)
  BY <1>1, <1>2, FS_Surjection
<1>4. ASSUME NEW row \in R PROVE IsFiniteSet({row} \X (1..Answer[row[1]]))
  <2>1. row[1] \in Requests
    BY DEF AllRows
  <2>2. Answer[row[1]] \in Nat
    BY <2>1, WeightAssumption
  <2>3. IsFiniteSet(1..Answer[row[1]])
    BY <2>2, FS_Interval
  <2>4. IsFiniteSet({row})
    BY FS_Singleton
  <2>5. QED
    BY <2>3, <2>4, FS_Product
<1>5. \A x \in T : IsFiniteSet(x)
  BY <1>4
<1>6. QED
  BY <1>3, <1>5, FS_UNION DEF Weight

\* quota_repo.py:34-36: a sum over fewer rows is no larger.
LEMMA TokensMonotone ==
  ASSUME NEW R \in SUBSET AllRows, NEW S \in SUBSET R
  PROVE  /\ Tokens(R) \in Nat /\ Tokens(S) \in Nat
         /\ Tokens(S) <= Tokens(R)
<1>1. Tokens(R) = Cardinality(Weight(R)) /\ Tokens(S) = Cardinality(Weight(S))
  BY DEF Tokens, Weight
<1>2. IsFiniteSet(Weight(R)) /\ IsFiniteSet(Weight(S))
  BY WeightFinite
<1>3. Weight(S) \in SUBSET Weight(R)
  BY DEF Weight
<1>4. QED
  BY <1>1, <1>2, <1>3, FS_Subset, FS_CardinalityType

-----------------------------------------------------------------------------
LEMMA CallersTypeInductive ==
  ASSUME CallersTypeOK, NEW r \in Requests, Enter(r)
  PROVE  CallersTypeOK'
<1>1. Caller[r] \in Users
  BY CallerAssumption
<1>2. CASE Select(r)
  BY <1>2 DEF CallersTypeOK, Select, Now
<1>3. CASE Insert(r)
  BY <1>3 DEF CallersTypeOK, Insert, Now
<1>4. CASE CommitUser(r)
  BY <1>1, <1>4 DEF CallersTypeOK, CommitUser, Now
<1>5. CASE CallerFails(r)
  BY <1>1, <1>5 DEF CallersTypeOK, CallerFails, Now
<1>6. QED
  BY <1>2, <1>3, <1>4, <1>5 DEF Enter

\* What a job lists of a set of users is a sequence of users.
LEMMA ListType ==
  ASSUME NEW S \in SUBSET Users, NEW list \in SetToSeqs(S)
  PROVE  list \in Seq(Users)
<1>1. IsFiniteSet(S)
  BY CallerAssumption, FS_Subset
<1>2. Cardinality(S) \in Nat
  BY <1>1, FS_CardinalityType
<1>3. list \in [1..Cardinality(S) -> Users]
  BY DEF SetToSeqs
<1>4. QED
  BY <1>2, <1>3

LEMMA TypeInductive == TypeOK /\ [Next]_vars => TypeOK'
<1> SUFFICES ASSUME TypeOK, [Next]_vars PROVE TypeOK'
  OBVIOUS
<1>1. ASSUME NEW r \in Requests, Authenticate(r) PROVE TypeOK'
  <2>1. CallersTypeOK'
    BY <1>1, CallersTypeInductive DEF TypeOK, Authenticate
  <2>2. QED
    BY <1>1, <2>1 DEF TypeOK, Authenticate
<1>2. ASSUME NEW r \in Requests, Chat(r) PROVE TypeOK'
  <2>1. Caller[r] \in Users /\ UnderWay(Caller[r]) \cup {r} \in SUBSET Requests
    BY CallerAssumption DEF UnderWay
  <2>2. QED
    BY <1>2, <2>1 DEF TypeOK, CallersTypeOK, callerVars, Chat, PC, Periods
<1>3. ASSUME NEW r \in Requests, ChatRefused(r) \/ ResumeChat(r) PROVE TypeOK'
  BY <1>3, CallerAssumption DEF TypeOK, CallersTypeOK, callerVars, ChatRefused, ResumeChat, PC, Periods
<1>4. ASSUME NEW r \in Requests, RecordUsage(r) PROVE TypeOK'
  <2>1. After[pc[r]] \in PC
    BY <1>4 DEF RecordUsage, After, PC, Periods
  <2>2. QED
    BY <1>4, <2>1 DEF TypeOK, CallersTypeOK, callerVars, RecordUsage
<1>5. ASSUME NEW r \in Requests, Stop(r) PROVE TypeOK'
  BY <1>5 DEF TypeOK, CallersTypeOK, callerVars, Stop, PC
<1>6. ASSUME NEW p \in Jobs, JobBegins(p) PROVE TypeOK'
  <2>1. PICK list \in SetToSeqs(known \ off) : todo' = [todo EXCEPT ![p] = list]
    BY <1>6 DEF JobBegins
  <2>2. list \in Seq(Users)
    BY <2>1, ListType DEF TypeOK, CallersTypeOK
  <2>3. todo' \in [Jobs -> Seq(Users)]
    BY <2>1, <2>2 DEF TypeOK
  <2>4. QED
    BY <1>6, <2>3 DEF TypeOK, CallersTypeOK, callerVars, JobBegins
<1>7. ASSUME NEW p \in Jobs, JobEnds(p) PROVE TypeOK'
  BY <1>7 DEF TypeOK, CallersTypeOK, callerVars, JobEnds
<1>8. ASSUME NEW p \in Jobs, JobFails(p) PROVE TypeOK'
  <2>1. rows' \subseteq rows
    BY <1>8 DEF JobFails
  <2>2. todo' \in [Jobs -> Seq(Users)]
    BY <1>8 DEF TypeOK, JobFails
  <2>3. QED
    BY <1>8, <2>1, <2>2 DEF TypeOK, CallersTypeOK, callerVars, JobFails
<1>9. ASSUME NEW p \in Jobs, NEW u \in Users, Reset(p, u) PROVE TypeOK'
  <2>1. todo[p] \in Seq(Users) /\ todo[p] # <<>>
    BY <1>9 DEF TypeOK, Reset, ComesTo
  <2>2. todo' \in [Jobs -> Seq(Users)]
    BY <1>9, <2>1 DEF TypeOK, Reset
  <2>3. QED
    BY <1>9, <2>2 DEF TypeOK, CallersTypeOK, callerVars, Reset
<1>10. ASSUME NEW u \in Users, SwitchUser(u) PROVE TypeOK'
  BY <1>10 DEF TypeOK, CallersTypeOK, callerVars, SwitchUser
<1>11. CASE UNCHANGED vars
  BY <1>11 DEF TypeOK, CallersTypeOK, callerVars, vars
<1>12. QED
  BY <1>1, <1>2, <1>3, <1>4, <1>5, <1>6, <1>7, <1>8, <1>9, <1>10, <1>11
     DEF Next, Request, JobStep

\* A request under way is in its user's last wave, unless it was resumed.
UnderWayIsCounted ==
  \A r \in Requests : pc[r] \in Periods => r \in wave[Caller[r]] \cup resumed

LEMMA CountedInductive ==
  ASSUME TypeOK, UnderWayIsCounted, [Next]_vars
  PROVE  UnderWayIsCounted'
<1>1. ASSUME NEW r \in Requests, Chat(r) PROVE UnderWayIsCounted'
  <2> SUFFICES ASSUME NEW q \in Requests, pc'[q] \in Periods
               PROVE  q \in wave'[Caller[q]] \cup resumed'
    BY DEF UnderWayIsCounted
  <2>1. Caller[r] \in Users /\ Caller[q] \in Users
    BY CallerAssumption
  <2>2. CASE q = r
    BY <1>1, <2>1, <2>2 DEF Chat, TypeOK
  <2>3. CASE q # r
    <3>1. pc[q] \in Periods
      BY <1>1, <2>3 DEF Chat, TypeOK
    <3>2. CASE Caller[q] = Caller[r]
      BY <1>1, <2>1, <3>1, <3>2 DEF Chat, TypeOK, UnderWay
    <3>3. CASE Caller[q] # Caller[r]
      BY <1>1, <2>1, <3>1, <3>3 DEF Chat, TypeOK, UnderWayIsCounted
    <3>4. QED
      BY <3>2, <3>3
  <2>4. QED
    BY <2>2, <2>3
<1>2. ASSUME NEW r \in Requests, ChatRefused(r) \/ Stop(r) PROVE UnderWayIsCounted'
  BY <1>2 DEF ChatRefused, Stop, TypeOK, UnderWayIsCounted, Periods
<1>3. ASSUME NEW r \in Requests, ResumeChat(r) PROVE UnderWayIsCounted'
  BY <1>3 DEF ResumeChat, TypeOK, UnderWayIsCounted
<1>4. ASSUME NEW r \in Requests, RecordUsage(r) PROVE UnderWayIsCounted'
  BY <1>4 DEF RecordUsage, TypeOK, UnderWayIsCounted
<1>5. CASE UNCHANGED <<pc, wave, resumed>>
  BY <1>5 DEF UnderWayIsCounted
<1>6. QED
  BY <1>1, <1>2, <1>3, <1>4, <1>5
     DEF Next, Request, JobStep, Authenticate, JobBegins, JobEnds, JobFails, Reset,
         SwitchUser, vars

Counted(u, p) == {row \in RowsOf(u, p) : row[1] \notin wave[u] \cup resumed}

LEMMA CountedRows ==
  ASSUME TypeOK, NEW u, NEW p
  PROVE  Counted(u, p) \in SUBSET AllRows /\ RowsOf(u, p) \in SUBSET AllRows
  BY DEF Counted, RowsOf, TypeOK, AllRows

\* Rows that the bound speaks of appear only by a check of their user, which
\* bounds all of the user's rows.
LEMMA CountedShrinks ==
  ASSUME TypeOK, UnderWayIsCounted, [Next]_vars, NEW u \in Users, NEW p \in Periods
  PROVE  \/ Counted(u, p)' \subseteq Counted(u, p)
         \/ Counted(u, p)' \subseteq RowsOf(u, p) /\ \E n \in Nat : WithinLimit(u, n)
<1>1. ASSUME NEW r \in Requests, Chat(r)
      PROVE  \/ Counted(u, p)' \subseteq Counted(u, p)
             \/ Counted(u, p)' \subseteq RowsOf(u, p) /\ \E n \in Nat : WithinLimit(u, n)
  <2>1. CASE Caller[r] = u
    <3>1. WithinLimit(u, Message[r]) /\ Message[r] \in Nat
      BY <1>1, <2>1, WeightAssumption DEF Chat
    <3>2. Counted(u, p)' \subseteq RowsOf(u, p)
      BY <1>1 DEF Chat, Counted, RowsOf
    <3>3. QED
      BY <3>1, <3>2
  <2>2. CASE Caller[r] # u
    BY <1>1, <2>2 DEF Chat, Counted, RowsOf, TypeOK
  <2>3. QED
    BY <2>1, <2>2
<1>2. ASSUME NEW r \in Requests, ResumeChat(r) PROVE Counted(u, p)' \subseteq Counted(u, p)
  BY <1>2 DEF ResumeChat, Counted, RowsOf
<1>3. ASSUME NEW r \in Requests, RecordUsage(r) PROVE Counted(u, p)' \subseteq Counted(u, p)
  <2>1. r \in wave[Caller[r]] \cup resumed
    BY <1>3 DEF RecordUsage, UnderWayIsCounted
  <2>2. rows' = rows \cup {<<r, pc[r]>>} /\ wave' = wave /\ resumed' = resumed
    BY <1>3 DEF RecordUsage
  <2>3. QED
    BY <2>1, <2>2 DEF Counted, RowsOf
<1>4. ASSUME rows' \subseteq rows, UNCHANGED <<wave, resumed>>
      PROVE  Counted(u, p)' \subseteq Counted(u, p)
  BY <1>4 DEF Counted, RowsOf
<1>5. ASSUME NEW q \in Jobs, JobStep(q) \/ JobFails(q)
      PROVE  rows' \subseteq rows /\ UNCHANGED <<wave, resumed>>
  BY <1>5 DEF JobStep, JobBegins, JobEnds, JobFails, Reset
<1>6. QED
  BY <1>1, <1>2, <1>3, <1>4, <1>5
     DEF Next, Request, Authenticate, ChatRefused, Stop, SwitchUser, vars

LEMMA OvershootInductive ==
  ASSUME TypeOK, UnderWayIsCounted, OvershootIsOneWave, [Next]_vars
  PROVE  OvershootIsOneWave'
<1> SUFFICES ASSUME NEW u \in Users, NEW p \in Periods
             PROVE  Tokens(Counted(u, p)') <= Limit[p]
  BY DEF OvershootIsOneWave, Counted, Tokens
<1>1. Limit[p] \in Nat
  BY LimitAssumption
<1>2. CASE Counted(u, p)' \subseteq Counted(u, p)
  <2>1. Tokens(Counted(u, p)) <= Limit[p]
    BY DEF OvershootIsOneWave, Counted
  <2>2. QED
    BY <1>1, <1>2, <2>1, CountedRows, TokensMonotone
<1>3. CASE Counted(u, p)' \subseteq RowsOf(u, p) /\ \E n \in Nat : WithinLimit(u, n)
  <2>1. PICK n \in Nat : Tokens(RowsOf(u, p)) + n <= Limit[p]
    BY <1>3 DEF WithinLimit, Total
  <2>2. /\ Tokens(RowsOf(u, p)) \in Nat
        /\ Tokens(Counted(u, p)') \in Nat
        /\ Tokens(Counted(u, p)') <= Tokens(RowsOf(u, p))
    BY <1>3, CountedRows, TokensMonotone
  <2>3. QED
    BY <1>1, <2>1, <2>2
<1>4. QED
  BY <1>2, <1>3, CountedShrinks

\* quota_repo.py:38-47, chat.py:59-62 and 83: usage passes a limit by at most
\* the answers of one wave of concurrent requests and of resumed threads.
THEOREM OvershootIsOneWaveCorrect == Spec => []OvershootIsOneWave
<1> DEFINE Inv == TypeOK /\ UnderWayIsCounted /\ OvershootIsOneWave
<1>1. Init => Inv
  <2> SUFFICES ASSUME Init PROVE Inv
    OBVIOUS
  <2>1. TypeOK
    BY DEF Init, TypeOK, CallersInit, CallersTypeOK, PC
  <2>2. UnderWayIsCounted
    BY DEF Init, UnderWayIsCounted, Periods
  <2>3. ASSUME NEW u \in Users, NEW p \in Periods
        PROVE  Tokens(Counted(u, p)) <= Limit[p]
    <3>1. Counted(u, p) = {}
      BY DEF Init, Counted, RowsOf
    <3>2. Tokens({}) = 0
      BY FS_EmptySet DEF Tokens
    <3>3. QED
      BY <3>1, <3>2, LimitAssumption
  <2>4. QED
    BY <2>1, <2>2, <2>3 DEF OvershootIsOneWave, Counted
<1>2. Inv /\ [Next]_vars => Inv'
  BY TypeInductive, CountedInductive, OvershootInductive
<1>3. Inv => OvershootIsOneWave
  OBVIOUS
<1>4. QED
  BY <1>1, <1>2, <1>3, PTL DEF Spec
-----------------------------------------------------------------------------
\* Rows of users are only added, and whoever goes in has one.
LEMMA AdmissionStep ==
  ASSUME TypeOK, EnteredIsKnown, NEW r \in Requests, Enter(r)
  PROVE  EnteredIsKnown'
<1>1. auth \in [Requests -> {"new", "absent", "inserting", "in", "duplicate", "error"}]
  BY DEF TypeOK, CallersTypeOK
<1>2. known \subseteq known'
  BY DEF Enter, Select, Insert, CommitUser, CallerFails
<1>3. PICK place : auth' = [auth EXCEPT ![r] = place]
  BY DEF Enter, Select, Insert, CommitUser, CallerFails, Now
<1>4. ASSUME NEW q \in Requests, q # r, auth'[q] = "in" PROVE Caller[q] \in known'
  <2>1. auth'[q] = auth[q]
    BY <1>1, <1>3, <1>4
  <2>2. QED
    BY <1>2, <1>4, <2>1 DEF EnteredIsKnown
<1>5. auth'[r] = "in" => Caller[r] \in known'
  BY <1>1 DEF Enter, Select, Insert, CommitUser, CallerFails, Now
<1>6. QED
  BY <1>4, <1>5 DEF EnteredIsKnown

LEMMA AdmissionInductive ==
  ASSUME TypeOK, EnteredIsKnown, [Next]_vars
  PROVE  EnteredIsKnown'
<1>1. ASSUME NEW r \in Requests, Authenticate(r) PROVE EnteredIsKnown'
  BY <1>1, AdmissionStep DEF Authenticate
<1>2. CASE UNCHANGED callerVars
  BY <1>2 DEF callerVars, EnteredIsKnown
<1>3. QED
  BY <1>1, <1>2
     DEF Next, Request, JobStep, Chat, ChatRefused, ResumeChat, RecordUsage, Stop,
         JobBegins, JobEnds, JobFails, Reset, SwitchUser, vars

LEMMA AdmissionAlways == Spec => [](TypeOK /\ EnteredIsKnown)
<1>1. Init => TypeOK /\ EnteredIsKnown
  BY DEF Init, TypeOK, CallersInit, CallersTypeOK, PC, EnteredIsKnown
<1>2. TypeOK /\ EnteredIsKnown /\ [Next]_vars => (TypeOK /\ EnteredIsKnown)'
  BY TypeInductive, AdmissionInductive
<1>3. QED
  BY <1>1, <1>2, PTL DEF Spec

\* deps.py:57-73: no interleaving of first requests and database failures
\* lets a request go on without its user's row.
THEOREM EnteredIsKnownCorrect == Spec => []EnteredIsKnown
<1>1. TypeOK /\ EnteredIsKnown => EnteredIsKnown
  OBVIOUS
<1>2. QED
  BY <1>1, AdmissionAlways, PTL

\* Every state of the accounting is well typed.
THEOREM TypeCorrect == Spec => []TypeOK
<1>1. TypeOK /\ EnteredIsKnown => TypeOK
  OBVIOUS
<1>2. QED
  BY <1>1, AdmissionAlways, PTL
=============================================================================
