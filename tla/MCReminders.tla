----------------------------- MODULE MCReminders -----------------------------
(* Instances of Reminders for TLC.                                         *)
EXTENDS Reminders

CONSTANTS i1, i2, i3

\* One is due from the start and two from the next day.
OneADay == [i \in Ids |-> IF i = i1 THEN 0 ELSE 1]
=============================================================================
