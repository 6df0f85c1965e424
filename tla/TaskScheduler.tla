--------------------------- MODULE TaskScheduler ---------------------------
(***************************************************************************)
(* The scheduler of the AI's own tasks, lib/services/task_scheduler.py:    *)
(* rows in SQLite, a poll loop that publishes task.due, the handler of     *)
(* task.completed, and the check for missed tasks at startup.  The tools   *)
(* of OllamaTools/schedule_task.py create and cancel; the task itself runs *)
(* in AIPipelineHandler._on_task_due.                                      *)
(*                                                                         *)
(* publish() awaits its subscribers, so the poll loop is held up until the *)
(* pipeline of a task and the handlers of its completion are over: due     *)
(* tasks are fired one after another, from rows that were read before the  *)
(* first of them started.                                                  *)
(*                                                                         *)
(* Creation and cancellation are single statements on the database, made   *)
(* by AI runs that come between or inside the steps of a task.             *)
(***************************************************************************)
EXTENDS Naturals, Sequences, SequencesExt, FiniteSets

CONSTANTS
  Tasks,
  Recurring,     \* tasks with a recurrence
  TtlRuns,       \* TtlRuns[t]: ttl_runs at creation, 0 for None
  Interval,      \* the recurrence, in ticks of the clock
  MaxPending,    \* MAX_PENDING_PER_USER
  MaxTime,       \* bound: the last tick of the clock
  MaxRuns,       \* bound: runs are counted up to here
  MaxCrashes,    \* bound: stops and crashes of the server
  MayCancel,     \* do users cancel tasks?
  MayRefuse,     \* can acquire_ai_lock give up?
  MayFail        \* can a task's pipeline raise?

ASSUME SchedulerAssumption ==
  /\ IsFiniteSet(Tasks) /\ Recurring \subseteq Tasks
  /\ TtlRuns \in [Tasks -> Nat]
  /\ Interval \in Nat \ {0}
  /\ MaxPending \in Nat \ {0}
  /\ MaxTime \in Nat \ {0}
  /\ MaxRuns \in Nat
  /\ \A t \in Tasks : TtlRuns[t] < MaxRuns /\ 1 < MaxRuns
  /\ MaxCrashes \in Nat
  /\ {MayCancel, MayRefuse, MayFail} \subseteq BOOLEAN

VARIABLES
  phase,      \* down; polling: start() is done, the handlers are not; up
  clock,      \* time.time()
  row,        \* row[t]: the row of t in scheduled_tasks
  batch,      \* rows read by _fire_overdue and not yet fired: <<task, ttl_runs>>
  step,       \* what the poll loop is waiting for
  ok,         \* success of the current task.completed
  crashes,
  runs,       \* history: how often t was started
  lastStart,  \* history: the last start of t, 0 for never or if that run failed
  orphans,    \* history: tasks whose row was left running
  cancelled   \* history: tasks for which cancel_task returned True

history == <<runs, lastStart, orphans, cancelled>>
vars == <<phase, clock, row, batch, step, ok, crashes, history>>

Status == {"absent", "pending", "running", "done", "failed"}
Result == {"none", "ok", "error", "cancelled by user", "missed_offline", "ttl_expired"}

\* last is last_fired_at, 0 for NULL.
Row == [status : Status, result : Result, at : 0..(MaxTime + Interval),
        last : 0..MaxTime, ttl : Nat]

\* idle: asleep until the next poll; then, for the first row of the batch:
\* pick: to be fired; lock: task.due published; run: the pipeline runs;
\* completed: task.completed published; expire, count, reschedule: what is
\* left of the handler of task.completed.
Step == {"idle", "pick", "lock", "run", "completed", "expire", "count", "reschedule"}

Due(t) == row[t].status = "pending" /\ row[t].at <= clock

Current == Head(batch)[1]
CurrentTtl == Head(batch)[2]

\* The loop goes on with the rest of the batch.
NextInBatch ==
  /\ batch' = Tail(batch)
  /\ step' = IF Len(batch) = 1 THEN "idle" ELSE "pick"

\* AIPipelineHandler and NotificationPipeline have subscribed.
Subscribed == phase = "up"

Init ==
  /\ phase = "up"
  /\ clock = 1
  /\ row = [t \in Tasks |-> [status |-> "absent", result |-> "none", at |-> 0,
                             last |-> 0, ttl |-> 0]]
  /\ batch = <<>> /\ step = "idle" /\ ok = FALSE
  /\ crashes = 0
  /\ runs = [t \in Tasks |-> 0]
  /\ lastStart = [t \in Tasks |-> 0]
  /\ orphans = {} /\ cancelled = {}

-----------------------------------------------------------------------------
(* Users, time and the process. *)

\* The tools refuse a time that has come; what a user writes for a time is parsed first.
FutureTimes == (clock + 1)..MaxTime

\* create_task, with a time in the future.
Create(t) ==
  /\ phase = "up"
  /\ row[t].status = "absent"
  /\ Cardinality({u \in Tasks : row[u].status = "pending"}) < MaxPending
  /\ \E at \in FutureTimes :
       row' = [row EXCEPT ![t] = [status |-> "pending", result |-> "none", at |-> at,
                                  last |-> 0, ttl |-> TtlRuns[t]]]
  /\ UNCHANGED <<phase, clock, batch, step, ok, crashes, history>>

\* cancel_task: UPDATE ... WHERE status = 'pending'.
Cancel(t) ==
  /\ MayCancel
  /\ phase = "up"
  /\ row[t].status = "pending"
  /\ row' = [row EXCEPT ![t].status = "failed", ![t].result = "cancelled by user"]
  /\ cancelled' = cancelled \cup {t}
  /\ UNCHANGED <<phase, clock, batch, step, ok, crashes, runs, lastStart, orphans>>

Tick ==
  /\ clock < MaxTime
  /\ clock' = clock + 1
  /\ UNCHANGED <<phase, row, batch, step, ok, crashes, history>>

\* The process stops, in the middle of whatever the poll loop was doing.
Crash ==
  /\ phase # "down"
  /\ crashes < MaxCrashes
  /\ crashes' = crashes + 1
  /\ phase' = "down"
  /\ batch' = <<>> /\ step' = "idle" /\ ok' = FALSE
  /\ orphans' = orphans \cup {t \in Tasks : row[t].status = "running"}
  /\ UNCHANGED <<clock, row, runs, lastStart, cancelled>>

\* _next_run_from(task, from).
NextRunFrom(from) == from + Interval

\* start(): missed one-shots fail, recurring tasks are rebased from now; then
\* the poll loop starts.  The task.missed published here for missed one-shots
\* finds no subscriber and changes nothing.
CheckMissed ==
  /\ phase = "down"
  /\ phase' = "polling"
  /\ LET missed == {t \in Tasks : row[t].status = "pending" /\ row[t].at < clock}
     IN row' = [t \in Tasks |->
                  IF t \notin missed THEN row[t]
                  ELSE IF t \in Recurring THEN [row[t] EXCEPT !.at = NextRunFrom(clock)]
                  ELSE [row[t] EXCEPT !.status = "failed", !.result = "missed_offline"]]
  /\ UNCHANGED <<clock, batch, step, ok, crashes, history>>

\* The rest of the initialisation: NotificationPipeline, AIPipelineHandler.
Wire ==
  /\ phase = "polling"
  /\ phase' = "up"
  /\ UNCHANGED <<clock, row, batch, step, ok, crashes, history>>

-----------------------------------------------------------------------------
(* The poll loop. *)

\* _fire_overdue reads all overdue rows.
Poll ==
  /\ phase \in {"polling", "up"}
  /\ step = "idle"
  /\ \E order \in SetToSeqs({t \in Tasks : Due(t)}) :
       /\ order # <<>>
       /\ batch' = [i \in DOMAIN order |-> <<order[i], row[order[i]].ttl>>]
  /\ step' = "pick"
  /\ UNCHANGED <<phase, clock, row, ok, crashes, history>>

\* Mutant: the status is left to the handler of task.due.
PickUnmarked ==
  /\ step = "pick"
  /\ IF Subscribed THEN step' = "lock" /\ UNCHANGED batch ELSE NextInBatch
  /\ UNCHANGED <<phase, clock, row, ok, crashes, history>>

\* _set_status(running), then publish(task.due): with no subscriber it returns
\* at once and the loop goes on.
Pick ==
  /\ step = "pick"
  /\ row' = [row EXCEPT ![Current].status = "running", ![Current].result = "none"]
  /\ IF Subscribed
     THEN step' = "lock" /\ UNCHANGED <<batch, orphans>>
     ELSE NextInBatch /\ orphans' = orphans \cup {Current}
  /\ UNCHANGED <<phase, clock, ok, crashes, runs, lastStart, cancelled>>

\* _on_task_due gets the AI lock and runs the prompt.
Start ==
  /\ step = "lock"
  /\ step' = "run"
  /\ runs' = [runs EXCEPT ![Current] = IF @ < MaxRuns THEN @ + 1 ELSE @]
  /\ lastStart' = [lastStart EXCEPT ![Current] = clock]
  /\ UNCHANGED <<phase, clock, row, batch, ok, crashes, orphans, cancelled>>

\* "Lock holder inactive - dropping task".
Refused ==
  /\ MayRefuse
  /\ step = "lock"
  /\ NextInBatch
  /\ orphans' = orphans \cup {Current}
  /\ UNCHANGED <<phase, clock, row, ok, crashes, runs, lastStart, cancelled>>

\* Mutant: a run that raises publishes nothing.
FinishUntold ==
  /\ step = "run"
  /\ ok' \in IF MayFail THEN BOOLEAN ELSE {TRUE}
  /\ IF ok' THEN step' = "completed" /\ UNCHANGED batch ELSE NextInBatch
  /\ UNCHANGED <<phase, clock, row, crashes, history>>

\* The pipeline returns or raises; task.completed is published.
Finish ==
  /\ step = "run"
  /\ ok' \in IF MayFail THEN BOOLEAN ELSE {TRUE}
  /\ step' = "completed"
  /\ lastStart' = [lastStart EXCEPT ![Current] = IF ok' THEN @ ELSE 0]
  /\ UNCHANGED <<phase, clock, row, batch, crashes, runs, orphans, cancelled>>

\* What StoreResult does to the row, and where it goes on.
ResultStored ==
  row' = [row EXCEPT ![Current] =
            IF ok THEN [@ EXCEPT !.status = "done", !.result = "ok", !.last = clock]
            ELSE [@ EXCEPT !.status = "failed", !.result = "error"]]

\* Mutant: a missing budget is taken for a budget of zero and counted down.
StoreCountsAll ==
  /\ step = "completed"
  /\ ResultStored
  /\ IF Current \notin Recurring THEN NextInBatch
     ELSE step' = (IF CurrentTtl = 1 THEN "expire" ELSE "count") /\ UNCHANGED batch
  /\ UNCHANGED <<phase, clock, ok, crashes, history>>

\* Mutant: the budget expires at zero, not at one.
StoreOneMore ==
  /\ step = "completed"
  /\ ResultStored
  /\ IF Current \notin Recurring THEN NextInBatch
     ELSE step' = (IF CurrentTtl = 0 THEN "reschedule" ELSE "count") /\ UNCHANGED batch
  /\ UNCHANGED <<phase, clock, ok, crashes, history>>

\* Mutant: only a success is written to the row.
StoreSuccessOnly ==
  /\ step = "completed"
  /\ IF ok THEN ResultStored ELSE UNCHANGED row
  /\ NextInBatch
  /\ UNCHANGED <<phase, clock, ok, crashes, history>>

\* _on_task_completed: the first _set_status, and what will follow it.
StoreResult ==
  /\ step = "completed"
  /\ ResultStored
  /\ IF Current \notin Recurring THEN NextInBatch
     ELSE /\ step' = CASE CurrentTtl = 0 -> "reschedule"
                       [] CurrentTtl = 1 -> "expire"
                       [] CurrentTtl > 1 -> "count"
          /\ UNCHANGED batch
  /\ UNCHANGED <<phase, clock, ok, crashes, history>>

Expire ==
  /\ step = "expire"
  /\ row' = [row EXCEPT ![Current].status = "done", ![Current].result = "ttl_expired"]
  /\ NextInBatch
  /\ UNCHANGED <<phase, clock, ok, crashes, history>>

\* Mutant: a failed run does not count.
CountSuccesses ==
  /\ step = "count"
  /\ row' = [row EXCEPT ![Current].ttl = IF ok THEN CurrentTtl - 1 ELSE @]
  /\ step' = "reschedule"
  /\ UNCHANGED <<phase, clock, batch, ok, crashes, history>>

\* _decrement_ttl, with the number from the event.
CountDown ==
  /\ step = "count"
  /\ row' = [row EXCEPT ![Current].ttl = CurrentTtl - 1]
  /\ step' = "reschedule"
  /\ UNCHANGED <<phase, clock, batch, ok, crashes, history>>

\* Mutant: the anchor is always scheduled_at.
RescheduleFromPlan ==
  /\ step = "reschedule"
  /\ row' = [row EXCEPT ![Current] =
               [@ EXCEPT !.status = "pending", !.result = "none",
                         !.at = NextRunFrom(row[Current].at)]]
  /\ NextInBatch
  /\ UNCHANGED <<phase, clock, ok, crashes, history>>

\* _reschedule_by_id: the anchor is last_fired_at, or scheduled_at.
Reschedule ==
  /\ step = "reschedule"
  /\ LET anchor == IF row[Current].last # 0 THEN row[Current].last ELSE row[Current].at
     IN row' = [row EXCEPT ![Current] =
                  [@ EXCEPT !.status = "pending", !.result = "none",
                            !.at = NextRunFrom(anchor)]]
  /\ NextInBatch
  /\ UNCHANGED <<phase, clock, ok, crashes, history>>

Loop == Poll \/ Pick \/ Start \/ Refused \/ Finish \/ StoreResult
        \/ Expire \/ CountDown \/ Reschedule

Next ==
  \/ Tick \/ Crash \/ CheckMissed \/ Wire \/ Loop
  \/ \E t \in Tasks : Create(t) \/ Cancel(t)

Spec == Init /\ [][Next]_vars

\* The loop polls again and again, the AI lock is obtained (AiLock: it is, or
\* it is refused), and the server is started again. Nothing makes the run of a task
\* return: unlike that of a message it is not under wait_for.
FairSpec ==
  /\ Spec /\ WF_vars(Tick) /\ WF_vars(step # "run" /\ Loop)
  /\ WF_vars(CheckMissed) /\ WF_vars(Wire)

-----------------------------------------------------------------------------
(* Properties. *)

TypeOK ==
  /\ phase \in {"down", "polling", "up"}
  /\ clock \in 1..MaxTime
  /\ row \in [Tasks -> Row]
  /\ batch \in Seq(Tasks \X Nat)
  /\ step \in Step
  /\ (step = "idle") <=> (batch = <<>>)
  /\ ok \in BOOLEAN
  /\ crashes \in 0..MaxCrashes
  /\ runs \in [Tasks -> 0..MaxRuns]
  /\ lastStart \in [Tasks -> 0..MaxTime]
  /\ orphans \subseteq Tasks /\ cancelled \subseteq Tasks

\* A one-shot runs at most once, whatever crashes, restarts, cancellations and
\* late rows come in between: status is written before task.due is published
\* (task_scheduler.py:346-349).
OneShotRunsOnce == \A t \in Tasks \ Recurring : runs[t] <= 1

\* "Auto-cancel after N runs" (schedule_task.py:342): not one run more, failed
\* and interrupted ones included.
TtlBoundsRuns ==
  \A t \in Recurring : TtlRuns[t] # 0 => runs[t] <= TtlRuns[t]

\* Nor one run less: while a task waits for its next run, what is left of its
\* budget and what was used of it are the whole budget.
TtlIsExact ==
  \A t \in Recurring :
    row[t].status = "pending" /\ TtlRuns[t] # 0 => row[t].ttl + runs[t] = TtlRuns[t]

\* "Repeat pattern: hourly, daily, every_n_hours, ..." (schedule_task.py:227):
\* one recurrence lies between the start of a run that does not fail and the
\* next one, across crashes, restarts and refusals.
StartsAreSpaced ==
  [][\A t \in Recurring :
       step = "lock" /\ step' = "run" /\ Current = t /\ lastStart[t] # 0
         => clock >= lastStart[t] + Interval]_vars

\* "Compute the next scheduled_at for a recurring task and reset it to pending"
\* (task_scheduler.py:413): the next time is later than the one before, after
\* a failed run too.
NextRunIsLater ==
  [][\A t \in Recurring :
       row[t].status \in {"done", "failed"} /\ row'[t].status = "pending"
         => row'[t].at > row[t].at]_vars

\* cancel_task and list_tasks report "running" from the row: a row that says
\* so belongs to the task that the poll loop has in hand, or was left behind by
\* a crash, a refusal of the lock or a poll before the handler had subscribed.
RunningIsLive ==
  \A t \in Tasks \ orphans :
    row[t].status = "running" => batch # <<>> /\ Current = t

\* "Cancel a pending task ... True if cancelled" (task_scheduler.py:300-303):
\* a task whose cancellation has succeeded does not start any more.
CancelledNeverStarts ==
  [][\A t \in cancelled : runs'[t] = runs[t]]_vars

\* Every one-shot comes to its end, although it may be due while other tasks
\* hold the loop up, or while the server is down; the exceptions are again the
\* rows left behind, and a run that never returns, behind which every task waits.
OneShotsEnd ==
  \A t \in Tasks \ Recurring :
    row[t].status = "pending"
      ~> row[t].status \in {"done", "failed"} \/ t \in orphans \/ [](step = "run")
=============================================================================
