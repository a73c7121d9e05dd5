---------------------------- MODULE MCReminders ----------------------------
(* Small instances of Reminders for TLC.                                   *)
EXTENDS Reminders

\* Each reminder wants its mail on day 1.
MCWanted == [r \in Reminder |-> 1]
=============================================================================
