--------------------------- MODULE MCScheduledChecks ---------------------------
(* ScheduledChecks on one process and one schedule, which nobody edits.     *)
EXTENDS ScheduledChecks

DeclaredSettings == [k \in Keys |-> [cron |-> "hourly", enabled |-> TRUE]]
=============================================================================
