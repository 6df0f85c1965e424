----------------------------- MODULE SandboxJobs -----------------------------
(***************************************************************************)
(* Commands in the sandbox container (lib/services/sandbox_manager.py and  *)
(* its tools): run_bash waits for a command for a while and then leaves it *)
(* in the background; jobs that have ended are told when the next context  *)
(* is built.  The tools that change a job are unsafe ones, so the loop of  *)
(* the one run that holds the AI lock calls them one after another.        *)
(***************************************************************************)
EXTENDS FiniteSets

CONSTANT Commands  \* commands given to run_bash, each with a job of its own

VARIABLES
  jobs,      \* SandboxManager._jobs: the registry
  process,   \* per command: "none", "running", "cancelling", "exited", "cancelled"
  finished,  \* jobs with finished_at
  notified,  \* jobs that were put into a context
  caller,    \* run_bash: "none", "waiting", "done", "backgrounded", "cancelled"
  killed,    \* history: jobs that kill_job has stopped
  cleared,   \* history: jobs a reset has taken from the registry
  toldEnd    \* history: jobs whose end was put into a context

jobVars == <<jobs, process, finished, notified, caller, killed, cleared, toldEnd>>

NoCaller == \A j \in Commands : caller[j] # "waiting"
Ended(j) == process[j] \in {"exited", "cancelled"}

JobInit ==
  /\ jobs = {} /\ finished = {} /\ notified = {} /\ killed = {} /\ cleared = {} /\ toldEnd = {}
  /\ process = [j \in Commands |-> "none"] /\ caller = [j \in Commands |-> "none"]

\* The job is registered and its task created; the tool call waits for the shielded task.
RunBash(j) ==
  /\ NoCaller /\ caller[j] = "none"
  /\ caller' = [caller EXCEPT ![j] = "waiting"]
  /\ process' = [process EXCEPT ![j] = "running"]
  /\ jobs' = jobs \cup {j}
  /\ UNCHANGED <<finished, notified, killed, cleared, toldEnd>>

\* _run_job: the command or its connection ends, or the cancellation arrives; the
\* finally block sets finished_at (again, for a killed job).
JobEnds(j) ==
  /\ process[j] \in {"running", "cancelling"}
  /\ process' = [process EXCEPT ![j] = IF @ = "running" THEN "exited" ELSE "cancelled"]
  /\ finished' = finished \cup {j}
  /\ UNCHANGED <<jobs, notified, caller, killed, cleared, toldEnd>>

\* The result of a command that ended in time is the answer of the tool call.
CallReturns(j) ==
  /\ caller[j] = "waiting" /\ Ended(j)
  /\ caller' = [caller EXCEPT ![j] = "done"]
  /\ UNCHANGED <<jobs, process, finished, notified, killed, cleared, toldEnd>>

\* Mutant: wait_for without the shield.
CallLeavesUnshielded(j, how) ==
  /\ caller[j] = "waiting"
  /\ caller' = [caller EXCEPT ![j] = how]
  /\ process' = [process EXCEPT ![j] = IF @ = "running" THEN "cancelling" ELSE @]
  /\ UNCHANGED <<jobs, finished, notified, killed, cleared, toldEnd>>

\* fg_timeout, or the run is cancelled: the shield keeps the job's task going.
CallLeaves(j, how) ==
  /\ caller[j] = "waiting"
  /\ caller' = [caller EXCEPT ![j] = how]
  /\ UNCHANGED <<jobs, process, finished, notified, killed, cleared, toldEnd>>

\* kill_job: nothing to do for a job that is unknown or has ended.
KillJob(j) ==
  /\ NoCaller /\ j \in jobs \ finished
  /\ process' = [process EXCEPT ![j] = "cancelling"]
  /\ finished' = finished \cup {j} /\ killed' = killed \cup {j}
  /\ UNCHANGED <<jobs, notified, caller, cleared, toldEnd>>

\* reset: the workspace is wiped, then the registry is cleared; no job is cancelled.
ResetSandbox ==
  /\ NoCaller /\ jobs # {}
  /\ jobs' = {} /\ cleared' = cleared \cup jobs
  /\ UNCHANGED <<process, finished, notified, caller, killed, toldEnd>>

\* Mutant: every tracked job is marked, the running ones too.
PopCompletedMarkingAll ==
  /\ NoCaller
  /\ LET ready == {j \in jobs \cap finished : j \notin notified}
     IN ready # {} /\ notified' = notified \cup jobs /\ toldEnd' = toldEnd \cup ready
  /\ UNCHANGED <<jobs, process, finished, caller, killed, cleared>>

\* pop_unnotified_completed, for the context of the next turn; jobs whose end was the
\* answer of the tool call are among them.
PopCompleted ==
  /\ NoCaller
  /\ LET ready == {j \in jobs \cap finished : j \notin notified}
     IN ready # {} /\ notified' = notified \cup ready /\ toldEnd' = toldEnd \cup ready
  /\ UNCHANGED <<jobs, process, finished, caller, killed, cleared>>

JobNext ==
  \/ ResetSandbox \/ PopCompleted
  \/ \E j \in Commands :
       \/ RunBash(j) \/ JobEnds(j) \/ CallReturns(j) \/ KillJob(j)
       \/ \E how \in {"backgrounded", "cancelled"} : CallLeaves(j, how)
JobSpec == JobInit /\ [][JobNext]_jobVars

-----------------------------------------------------------------------------
JobTypeOK ==
  /\ jobs \cup finished \cup notified \cup killed \cup cleared \cup toldEnd \subseteq Commands
  /\ process \in [Commands -> {"none", "running", "cancelling", "exited", "cancelled"}]
  /\ caller \in [Commands -> {"none", "waiting", "done", "backgrounded", "cancelled"}]

\* A command that its tool call gave up waiting for runs on: only what somebody asked to
\* stop is stopped, by kill_job or (were it done) by a reset.  And the end of every
\* command, unless a reset has come between, has been told to the model or is told with
\* its next turn.
NoJobLost ==
  \A j \in Commands :
    /\ process[j] \in {"cancelling", "cancelled"} => j \in killed \cup cleared
    /\ Ended(j) /\ j \notin cleared => j \in toldEnd \/ j \in (jobs \cap finished) \ notified

\* "All running jobs are cancelled and tracked jobs cleared" (reset_sandbox.py:43): no
\* command that the registry held at a reset runs on.
ResetStopsJobs == \A j \in cleared : process[j] # "running"
=============================================================================
