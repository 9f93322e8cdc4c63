------------------------------- MODULE Callers -------------------------------
(***************************************************************************)
(* get_current_user, which every endpoint but health and metrics depends   *)
(* on: a user's first request makes the user's row, which threads and      *)
(* usage rows refer to.  A transaction selects the row, inserts it when it *)
(* is not there and commits; requests of a new user may all find nothing.  *)
(***************************************************************************)
EXTENDS FiniteSets

CONSTANTS
    Users,
    Requests,       \* each is made once
    Caller,         \* the user who makes each request
    Email,          \* X-User-Email of each user, "" where the header is missing
    CallersFail     \* whether the database may fail under this transaction

ASSUME CallerAssumption ==
    /\ IsFiniteSet(Users) /\ IsFiniteSet(Requests)
    /\ Caller \in [Requests -> Users]

VARIABLES
    known,      \* users with a row in the users table
    auth        \* where each request is

callerVars == <<known, auth>>

CallersTypeOK ==
    /\ known \subseteq Users
    /\ auth \in [Requests -> {"new", "absent", "inserting", "in", "duplicate", "error"}]

-----------------------------------------------------------------------------
Now(r, place) == auth' = [auth EXCEPT ![r] = place]

Select(r) ==
    /\ auth[r] = "new"
    /\ Now(r, IF Caller[r] \in known THEN "in" ELSE "absent")
    /\ UNCHANGED known

\* The id is the primary key, and the email is unique.
Clash(u, v) == u = v \/ Email[u] = Email[v]

\* Some users have rows from earlier requests.
CallersInit ==
    /\ known \in {U \in SUBSET Users : \A u, v \in U : u # v => ~Clash(u, v)}
    /\ auth = [r \in Requests |-> "new"]

Clashing(r, U) == \E u \in U : Clash(u, Caller[r])

Inserting == {Caller[q] : q \in {p \in Requests : auth[p] = "inserting"}}

\* flush(): the INSERT waits for a transaction that holds the key, and fails
\* if the key is there.
Insert(r) ==
    /\ auth[r] = "absent"
    /\ ~Clashing(r, Inserting)
    /\ Now(r, IF Clashing(r, known) THEN "duplicate" ELSE "inserting")
    /\ UNCHANGED known

\* Variant: the session is left without a commit.
LeaveUncommitted(r) ==
    /\ auth[r] = "inserting"
    /\ Now(r, "in")
    /\ UNCHANGED known

\* Leaving `session.begin()` commits.
CommitUser(r) ==
    /\ auth[r] = "inserting"
    /\ known' = known \cup {Caller[r]}
    /\ Now(r, "in")

\* A statement or the commit fails, the commit with the row in or not.
CallerFails(r) ==
    /\ CallersFail
    /\ auth[r] \in {"new", "absent", "inserting"}
    /\ \/ UNCHANGED known
       \/ auth[r] = "inserting" /\ known' = known \cup {Caller[r]}
    /\ Now(r, "error")

Enter(r) == Select(r) \/ Insert(r) \/ CommitUser(r) \/ CallerFails(r)

-----------------------------------------------------------------------------
\* deps.py:57-73, "ensure user exists in local DB for foreign key
\* constraints": a request that goes on has its user's row committed, in
\* whatever order first requests of the user select and insert.
EnteredIsKnown == \A r \in Requests : auth[r] = "in" => Caller[r] \in known
=============================================================================
