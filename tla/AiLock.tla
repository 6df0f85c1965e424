------------------------------- MODULE AiLock -------------------------------
(***************************************************************************)
(* The global AI lock: lib/utils/ai_lock.py and the callers that run under *)
(* it (lib/services/ai_pipeline_handler.py for messages and scheduled      *)
(* tasks, the heartbeat modules for dream, research and grooming).         *)
(*                                                                         *)
(* One job is one call of acquire_ai_lock and the work it protects.  The   *)
(* lock underneath is an asyncio.Lock: a flag, a FIFO of waiting futures,  *)
(* and a hand-over in two steps (release() resolves the first future, the  *)
(* waiter sets the flag when the event loop resumes it).                   *)
(*                                                                         *)
(* Time is kept as differences only: timer[j] is what is left of the       *)
(* wait_for timeout of j, idle is time.monotonic() - _last_activity        *)
(* (saturating at InactivityLimit), and active[j] says that _last_activity *)
(* differs from the last_seen_activity of j.                               *)
(***************************************************************************)
EXTENDS Naturals, Sequences, SequencesExt

CONSTANTS
  Foreground,       \* messages and scheduled tasks (AIPipelineHandler)
  Background,       \* dream, research and grooming (heartbeat modules)
  CheckInterval,    \* check_interval, in ticks
  InactivityLimit,  \* inactivity_timeout, in ticks
  MaxBumps,         \* tool calls one job makes (the tool loop is bounded)
  EarlyTick         \* may a heartbeat tick come before the lock is registered?

ASSUME AiLockAssumption ==
  /\ Foreground \cap Background = {}
  /\ CheckInterval \in Nat \ {0}
  /\ InactivityLimit \in Nat \ {0}
  /\ MaxBumps \in Nat
  /\ EarlyTick \in BOOLEAN

Jobs == Foreground \cup Background

VARIABLES
  registered,   \* g_data["ai_lock"] is set (AIPipelineHandler constructed)
  pc,           \* pc[j]: where job j is
  locked,       \* Lock._locked
  waiters,      \* Lock._waiters, first to wake first
  woken,        \* the waiters whose future release() has resolved
  timer,        \* timer[j]: what is left of the wait_for timeout of j
  active,       \* active[j]: _last_activity # last_seen_activity of j
  idle,         \* time.monotonic() - _last_activity, up to InactivityLimit
  bumps,        \* bumps[j]: the tool calls job j has made
  silence       \* history: the time since the last holder of the lock took it
                \* or made a tool call under it, up to InactivityLimit

vars ==
  <<registered, pc, locked, waiters, woken, timer, active, idle, bumps, silence>>

PC == {"idle", "waiting", "holding", "bare", "done", "refused"}

TypeOK ==
  /\ registered \in BOOLEAN
  /\ pc \in [Jobs -> PC]
  /\ locked \in BOOLEAN
  /\ waiters \in Seq(Jobs)
  /\ woken \in SUBSET Jobs
  /\ timer \in [Jobs -> 0..CheckInterval]
  /\ active \in [Jobs -> BOOLEAN]
  /\ idle \in 0..InactivityLimit
  /\ bumps \in [Jobs -> 0..MaxBumps]
  /\ silence \in 0..InactivityLimit

\* _last_activity starts at 0.0 while the monotonic clock may show any time.
Init ==
  /\ registered = ~EarlyTick
  /\ pc = [j \in Jobs |-> "idle"]
  /\ locked = FALSE
  /\ waiters = <<>>
  /\ woken = {}
  /\ timer = [j \in Jobs |-> 0]
  /\ active = [j \in Jobs |-> FALSE]
  /\ idle \in 0..InactivityLimit
  /\ bumps = [j \in Jobs |-> 0]
  /\ silence = 0

-----------------------------------------------------------------------------
(* The pieces of a step. *)

\* bump_activity(): every waiter will see that _last_activity has moved.
BumpActivity(queue) ==
  /\ idle' = 0
  /\ active' = [k \in Jobs |-> k \in ToSet(queue)]

\* Mutant: the start of a new holder's work does not count as activity.
TakeLockUnreported(j, queue) ==
  /\ locked' = TRUE
  /\ waiters' = queue
  /\ pc' = [pc EXCEPT ![j] = "holding"]
  /\ timer' = [timer EXCEPT ![j] = 0]
  /\ silence' = 0
  /\ UNCHANGED <<idle, active>>

\* Lock.acquire() has returned: bump_activity() and return True.
TakeLock(j, queue) ==
  /\ locked' = TRUE
  /\ waiters' = queue
  /\ pc' = [pc EXCEPT ![j] = "holding"]
  /\ timer' = [timer EXCEPT ![j] = 0]
  /\ silence' = 0
  /\ BumpActivity(queue)

\* Mutant: last_seen_activity is not brought up to date.
JoinQueueUnseen(j, queue) ==
  /\ waiters' = Append(queue, j)
  /\ pc' = [pc EXCEPT ![j] = "waiting"]
  /\ timer' = [timer EXCEPT ![j] = CheckInterval]
  /\ UNCHANGED <<locked, active, idle, silence>>

\* Lock.acquire() suspends: j is last in the queue, with a fresh timeout.
JoinQueue(j, queue) ==
  /\ waiters' = Append(queue, j)
  /\ pc' = [pc EXCEPT ![j] = "waiting"]
  /\ timer' = [timer EXCEPT ![j] = CheckInterval]
  /\ active' = [active EXCEPT ![j] = FALSE]
  /\ UNCHANGED <<locked, idle, silence>>

\* Mutant: a caller that finds the lock free takes it, whoever waits.
TryAcquireBarging(j, queue) ==
  IF ~locked
  THEN TakeLock(j, queue)
  ELSE JoinQueue(j, queue)

\* wait_for(lock.acquire()) by j, which is not in queue: the lock is taken at
\* once only when it is free and nobody waits for it.
TryAcquire(j, queue) ==
  IF ~locked /\ queue = <<>>
  THEN TakeLock(j, queue)
  ELSE JoinQueue(j, queue)

\* Lock._wake_up_first(): resolve the future of the first waiter.
FirstOf(queue) == IF queue = <<>> THEN {} ELSE {Head(queue)}

-----------------------------------------------------------------------------
(* The actions. *)

\* AIPipelineHandler.__init__ publishes the lock; until then no message or
\* task reaches a handler, but a heartbeat tick may already have come.
Register ==
  /\ ~registered
  /\ registered' = TRUE
  /\ UNCHANGED <<pc, locked, waiters, woken, timer, active, idle, bumps, silence>>

\* acquire_ai_lock(lock) is called.
Acquire(j) ==
  /\ registered
  /\ pc[j] = "idle"
  /\ TryAcquire(j, waiters)
  /\ UNCHANGED <<registered, woken, bumps>>

\* "fallback: lock not ready yet": a heartbeat module runs without the lock.
RunBare(j) ==
  /\ j \in Background
  /\ ~registered
  /\ pc[j] = "idle"
  /\ pc' = [pc EXCEPT ![j] = "bare"]
  /\ UNCHANGED
       <<registered, locked, waiters, woken, timer, active, idle, bumps, silence>>

\* The module may be run again by a later tick.
FinishBare(j) ==
  /\ pc[j] = "bare"
  /\ pc' = [pc EXCEPT ![j] = "idle"]
  /\ bumps' = [bumps EXCEPT ![j] = 0]
  /\ UNCHANGED
       <<registered, locked, waiters, woken, timer, active, idle, silence>>

\* The event loop resumes a waiter whose future is resolved: acquire() sets
\* the flag without looking at it again.
Resume(j) ==
  \E i \in DOMAIN waiters :
    /\ waiters[i] = j
    /\ j \in woken
    /\ TakeLock(j, RemoveAt(waiters, i))
    /\ woken' = woken \ {j}
    /\ UNCHANGED <<registered, bumps>>

\* What acquire_ai_lock does once the timeout has taken j out of the queue:
\* it tries again (at the end of the queue) if the holder was seen active or
\* has not been silent for long enough, and gives up otherwise.
AfterTimeout(j, queue) ==
  \/ /\ active[j] \/ idle < InactivityLimit
     /\ TryAcquire(j, queue)
  \/ /\ ~active[j] /\ idle >= InactivityLimit
     /\ waiters' = queue
     /\ pc' = [pc EXCEPT ![j] = "refused"]
     /\ UNCHANGED <<locked, timer, active, idle, silence>>

\* Mutant: a waiter that times out does not hand its wake-up on.
TimeOutDropsWakeUp(j) ==
  \E i \in DOMAIN waiters :
    LET queue == RemoveAt(waiters, i)
    IN /\ waiters[i] = j
       /\ timer[j] = 0
       /\ woken' = woken \ {j}
       /\ AfterTimeout(j, queue)
       /\ UNCHANGED <<registered, bumps>>

\* The wait_for timeout of j: the cancelled acquire() leaves the queue, and
\* if the lock is free hands the wake-up on to the new first waiter.
TimeOut(j) ==
  \E i \in DOMAIN waiters :
    LET queue == RemoveAt(waiters, i)
    IN /\ waiters[i] = j
       /\ timer[j] = 0
       /\ woken' = (woken \ {j}) \cup (IF locked THEN {} ELSE FirstOf(queue))
       /\ AfterTimeout(j, queue)
       /\ UNCHANGED <<registered, bumps>>

\* The holder makes a tool call: _execute_safe_tools / _execute_unsafe_tools.
ToolCall(j) ==
  /\ pc[j] \in {"holding", "bare"}
  /\ bumps[j] < MaxBumps
  /\ bumps' = [bumps EXCEPT ![j] = @ + 1]
  /\ silence' = IF pc[j] = "holding" THEN 0 ELSE silence
  /\ BumpActivity(waiters)
  /\ UNCHANGED <<registered, pc, locked, waiters, woken, timer>>

\* "finally: lock.release()".
Release(j) ==
  /\ pc[j] = "holding"
  /\ pc' = [pc EXCEPT ![j] = "done"]
  /\ locked' = FALSE
  /\ woken' = woken \cup FirstOf(waiters)
  /\ UNCHANGED <<registered, waiters, timer, active, idle, bumps, silence>>

\* Mutant: timers run on below zero.
TickBelowZero ==
  /\ woken = {}
  /\ idle' = IF idle < InactivityLimit THEN idle + 1 ELSE idle
  /\ silence' = IF silence < InactivityLimit THEN silence + 1 ELSE silence
  /\ timer' = [j \in Jobs |-> timer[j] - 1]
  /\ UNCHANGED <<registered, pc, locked, waiters, woken, active, bumps>>

\* Time passes only when the event loop has nothing ready to run.  A holder
\* may stay silent for any time.
Tick ==
  /\ woken = {}
  /\ idle' = IF idle < InactivityLimit THEN idle + 1 ELSE idle
  /\ silence' = IF silence < InactivityLimit THEN silence + 1 ELSE silence
  /\ timer' = [j \in Jobs |-> IF timer[j] > 0 THEN timer[j] - 1 ELSE 0]
  /\ UNCHANGED <<registered, pc, locked, waiters, woken, active, bumps>>

Next ==
  \/ Register
  \/ Tick
  \/ \E j \in Jobs :
       \/ Acquire(j) \/ RunBare(j) \/ FinishBare(j)
       \/ Resume(j) \/ TimeOut(j) \/ ToolCall(j) \/ Release(j)

Spec == Init /\ [][Next]_vars

\* The event loop runs what is ready and fires its timers.  Nothing is
\* assumed of the holder: it may hang for ever without releasing the lock.
LoopFairness ==
  /\ WF_vars(Tick)
  /\ \A j \in Jobs : WF_vars(Resume(j)) /\ WF_vars(TimeOut(j))

FairSpec == Spec /\ LoopFairness

-----------------------------------------------------------------------------
(* Properties. *)

\* The flag of the lock is set exactly while one job is between acquire and
\* release, although resume() sets it blindly and release() clears it blindly
\* (ai_lock.py:82, the try/finally of every caller).
OneHolder ==
  /\ locked <=> \E j \in Jobs : pc[j] = "holding"
  /\ \A i, j \in Jobs : pc[i] = "holding" /\ pc[j] = "holding" => i = j

\* A free lock that somebody waits for has a wake-up on its way: none is lost
\* when a waiter times out in the very moment the lock is handed to it.
NoLostWakeup == ~locked /\ waiters # <<>> => woken # {}

\* A job waits exactly when it is in the queue, and it is there once: being
\* sent to the end again and again by the polling never duplicates it.
QueueHoldsTheWaiting ==
  /\ \A j \in Jobs : pc[j] = "waiting" <=> j \in ToSet(waiters)
  /\ \A i, k \in DOMAIN waiters : waiters[i] = waiters[k] => i = k

\* "Only if the holder stops reporting progress for inactivity_timeout
\* consecutive seconds do we give up": whoever is refused has the last holder
\* of the lock silent for that long behind it.  Neither an earlier holder's
\* silence, nor the time of the waiter itself in a long queue, nor the bumps of
\* a job outside the lock counts (silence is the holder's own; the code only
\* has the one stamp that everybody writes).
RefusedOnlyBehindSilence ==
  [][\A j \in Jobs :
       pc[j] # "refused" /\ pc'[j] = "refused" => silence >= InactivityLimit]_vars

\* Nobody waits for ever, even behind a holder that never releases the lock:
\* every waiting job gets the lock or gives up.
EveryWaitEnds ==
  \A j \in Jobs : pc[j] = "waiting" ~> pc[j] # "waiting"

\* The lock gives exclusive turns.  A job that runs without the lock has no
\* turn in the sense of ExclusiveTurn: it is still idle there.
turnOf ==
  [j \in Jobs |-> CASE pc[j] = "holding" -> "running"
                    [] pc[j] = "bare" -> "idle"
                    [] OTHER -> pc[j]]

Turn == INSTANCE ExclusiveTurn WITH turn <- turnOf

\* acquire_ai_lock over asyncio.Lock implements exclusive turns: a turn is
\* given only while nobody has it, and only a waiting job is refused.
GivesExclusiveTurns == Turn!Spec
=============================================================================
