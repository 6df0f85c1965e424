--------------------------- MODULE ExclusiveTurn ---------------------------
(***************************************************************************)
(* What the global AI lock promises to its callers: "Nami processes one    *)
(* thing at a time (chat, tasks, heartbeat)".                              *)
(*                                                                         *)
(* A job asks for its turn, and is then either given the turn or refused;  *)
(* a turn is given only while no other job has it.  Nothing is said here   *)
(* of queues, polling or clocks: AiLock implements this module.            *)
(***************************************************************************)
CONSTANT Jobs

VARIABLE turn     \* turn[j]: how far job j has come

Stages == {"idle", "waiting", "running", "done", "refused"}

NobodyRuns == \A j \in Jobs : turn[j] # "running"

Init == turn = [j \in Jobs |-> "idle"]

Ask(j) ==
  /\ turn[j] = "idle"
  /\ turn' = [turn EXCEPT ![j] = "waiting"]

\* A job may be given its turn at once, without waiting for it.
Start(j) ==
  /\ turn[j] \in {"idle", "waiting"}
  /\ NobodyRuns
  /\ turn' = [turn EXCEPT ![j] = "running"]

Finish(j) ==
  /\ turn[j] = "running"
  /\ turn' = [turn EXCEPT ![j] = "done"]

\* Only a job that waits is refused: asking itself never fails.
Refuse(j) ==
  /\ turn[j] = "waiting"
  /\ turn' = [turn EXCEPT ![j] = "refused"]

Next == \E j \in Jobs : Ask(j) \/ Start(j) \/ Finish(j) \/ Refuse(j)

Spec == Init /\ [][Next]_turn
=============================================================================
