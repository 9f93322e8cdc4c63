------------------------------- MODULE MCQuota -------------------------------
(* Instances of Quota for TLC.                                             *)
EXTENDS Quota

CONSTANTS u1, u2, r1, r2

\* One user's chats; the other, who may have a row from before, is there for
\* the jobs, which go from user to user.
OneCaller == [r \in Requests |-> u1]

OwnEmails == [u \in Users |-> u]

ShortMessages == [r \in Requests |-> 1]

\* An answer longer than what is left of any limit, and one not so long.
LongAnswers == [r \in Requests |-> IF r = r1 THEN 3 ELSE 2]

\* The monthly limit is the tightest, as it is for a user over months.
Limits == [p \in Periods |-> CASE p = "daily" -> 3 [] p = "weekly" -> 4 [] p = "monthly" -> 2]
=============================================================================
