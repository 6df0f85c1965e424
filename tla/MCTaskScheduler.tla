-------------------------- MODULE MCTaskScheduler --------------------------
(* Instances of TaskScheduler for TLC. *)
EXTENDS TaskScheduler, TLC

CONSTANTS once, twice, ever

\* twice has a budget of two runs, the others have none.
Budget == [t \in Tasks |-> IF t = twice THEN 2 ELSE 0]
=============================================================================
