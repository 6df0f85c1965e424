------------------------ MODULE TaskSchedulerProofs ------------------------
(***************************************************************************)
(* Theorems about TaskScheduler, for any tasks, budgets, recurrence and    *)
(* bounds.  SchedInv is the inductive invariant: what the rows, the batch  *)
(* read from them and the histories say of one another at every step of    *)
(* the poll loop.                                                          *)
(***************************************************************************)
EXTENDS TaskScheduler, FiniteSetTheorems, SequenceTheorems, TLAPS

Task(i) == batch[i][1]
Ttl(i)  == batch[i][2]

\* Entry i of the batch is still to be started.
Awaits(i) == i \in DOMAIN batch /\ (i > 1 \/ step \in {"pick", "lock"})

\* t is in the batch and still to be started.
Queued(t) == \E i \in DOMAIN batch : Awaits(i) /\ Task(i) = t

\* The poll loop is at one of these steps, with t.
At(steps, t) == step \in steps /\ Task(1) = t

\* A batch holds a task once, and only tasks whose time has come.
BatchInv ==
  /\ \A i, j \in DOMAIN batch : Task(i) = Task(j) => i = j
  /\ \A i \in DOMAIN batch : row[Task(i)].at <= clock

\* What the poll loop does agrees with the row of the task it does it to.
StepInv ==
  /\ \A i \in DOMAIN batch :
       i > 1 \/ step = "pick" => row[Task(i)].status \in {"pending", "failed"}
  /\ step \in {"lock", "run", "completed"} => row[Task(1)].status = "running"
  /\ step \in {"expire", "count", "reschedule"} =>
       row[Task(1)].status \in {"done", "failed"} /\ Task(1) \in Recurring
  /\ step = "count" => Ttl(1) > 1
  /\ phase = "down" => step = "idle"

\* A one-shot that has not been started has no run behind it.
OneShotInv ==
  \A t \in Tasks \ Recurring :
    /\ runs[t] <= 1
    /\ row[t].status \in {"absent", "pending"} => runs[t] = 0
    /\ Queued(t) => runs[t] = 0

\* The budget that the batch carries is that of the row, until it is counted down.
TtlInv ==
  \A i \in DOMAIN batch : i > 1 \/ step # "reschedule" => Ttl(i) = row[Task(i)].ttl

\* What is left of a budget and what was used of it: between Start and CountDown
\* the run under way is in both.
BudgetInv ==
  \A t \in Recurring : TtlRuns[t] # 0 =>
    /\ runs[t] <= TtlRuns[t]
    /\ row[t].status = "absent" => runs[t] = 0
    /\ row[t].status = "pending" \/ Queued(t) \/ At({"reschedule"}, t) =>
         row[t].ttl + runs[t] = TtlRuns[t] /\ row[t].ttl >= 1
    /\ At({"run", "completed", "count"}, t) =>
         row[t].ttl + runs[t] = TtlRuns[t] + 1 /\ row[t].ttl >= 1

\* A row to be started was rescheduled from a start at least Interval before its
\* time, or rebased at startup; last_fired_at carries the start over the handler.
SpaceInv ==
  \A t \in Recurring :
    /\ lastStart[t] <= clock
    /\ row[t].status = "absent" => lastStart[t] = 0
    /\ (row[t].status = "pending" \/ Queued(t)) /\ lastStart[t] # 0 =>
         row[t].at >= lastStart[t] + Interval
    /\ At({"completed"}, t) /\ ~ok => lastStart[t] = 0
    /\ At({"expire", "count", "reschedule"}, t) /\ lastStart[t] # 0 =>
         row[t].last >= lastStart[t]

\* All of it: this is what every step preserves.
SchedInv ==
  /\ TypeOK /\ BatchInv /\ StepInv /\ OneShotInv /\ TtlInv /\ BudgetInv
  /\ RunningIsLive /\ SpaceInv

-----------------------------------------------------------------------------
(* The batch. *)

\* What the poll loop has in hand while it is not idle.
LEMMA BatchType ==
  ASSUME TypeOK
  PROVE  /\ Len(batch) \in Nat /\ DOMAIN batch = 1..Len(batch)
         /\ \A i \in DOMAIN batch : batch[i] \in Tasks \X Nat
         /\ \A i \in DOMAIN batch : Task(i) \in Tasks /\ Ttl(i) \in Nat
         /\ step # "idle" => 1 \in DOMAIN batch /\ Current \in Tasks
         /\ Current = Task(1) /\ CurrentTtl = Ttl(1)
<1>1. batch \in Seq(Tasks \X Nat)
  BY DEF TypeOK
<1>2. Len(batch) \in Nat /\ DOMAIN batch = 1..Len(batch)
  BY <1>1, LenProperties
<1>3. \A i \in DOMAIN batch : batch[i] \in Tasks \X Nat
  BY <1>1, <1>2, ElementOfSeq
<1>4. \A i \in DOMAIN batch : Task(i) \in Tasks /\ Ttl(i) \in Nat
  BY <1>3 DEF Task, Ttl
<1>5. Current = Task(1) /\ CurrentTtl = Ttl(1)
  BY <1>1 DEF Current, CurrentTtl, Task, Ttl
<1>6. step # "idle" => 1 \in DOMAIN batch
  <2>1. step # "idle" => batch # <<>>
    BY DEF TypeOK
  <2>2. batch # <<>> => Len(batch) # 0
    BY <1>1, EmptySeq
  <2>3. QED
    BY <1>2, <2>1, <2>2
<1>7. QED
  BY <1>2, <1>3, <1>4, <1>5, <1>6

\* NextInBatch moves every entry one place up and waits for nothing.
LEMMA Advance ==
  ASSUME TypeOK, step # "idle", NextInBatch
  PROVE  /\ batch' \in Seq(Tasks \X Nat)
         /\ DOMAIN batch' = 1..(Len(batch) - 1)
         /\ \A i \in DOMAIN batch' : i + 1 \in DOMAIN batch /\ batch'[i] = batch[i + 1]
         /\ step' \in {"idle", "pick"}
         /\ (step' = "idle") <=> (batch' = <<>>)
<1>1. /\ batch \in Seq(Tasks \X Nat) /\ batch # <<>>
      /\ Len(batch) \in Nat /\ DOMAIN batch = 1..Len(batch) /\ Len(batch) >= 1
  BY BatchType DEF TypeOK
<1>2. /\ batch' \in Seq(Tasks \X Nat)
      /\ Len(batch') = Len(batch) - 1
      /\ \A i \in 1..Len(batch') : batch'[i] = batch[i + 1]
  BY <1>1, HeadTailProperties DEF NextInBatch
<1>3. DOMAIN batch' = 1..(Len(batch) - 1)
  BY <1>2, LenProperties
<1>4. batch' = <<>> <=> Len(batch) = 1
  BY <1>1, <1>2, EmptySeq
<1>5. \A i \in DOMAIN batch' : i + 1 \in DOMAIN batch /\ batch'[i] = batch[i + 1]
  BY <1>1, <1>2, <1>3, SMTT(20)
<1>6. step' = IF Len(batch) = 1 THEN "idle" ELSE "pick"
  BY DEF NextInBatch
<1>7. QED
  BY <1>2, <1>3, <1>4, <1>5, <1>6

\* Poll reads every due row once.
LEMMA PollBatch ==
  ASSUME TypeOK, NEW order \in SetToSeqs({t \in Tasks : Due(t)}), order # <<>>,
         batch' = [i \in DOMAIN order |-> <<order[i], row[order[i]].ttl>>]
  PROVE  /\ batch' \in Seq(Tasks \X Nat) /\ batch' # <<>>
         /\ \A i \in DOMAIN batch' : /\ order[i] \in Tasks /\ Due(order[i])
                                     /\ batch'[i] = <<order[i], row[order[i]].ttl>>
         /\ \A i, j \in DOMAIN batch' : order[i] = order[j] => i = j
<1>. DEFINE due == {t \in Tasks : Due(t)}
            n   == Cardinality(due)
<1>1. n \in Nat
  BY SchedulerAssumption, FS_Subset, FS_CardinalityType
<1>2. /\ order \in [1..n -> due]
      /\ \A i, j \in 1..n : i # j => order[i] # order[j]
  BY DEF SetToSeqs
<1>. HIDE DEF n
<1>3. n # 0
  <2>1. order \in Seq(due) /\ Len(order) = n
    BY <1>1, <1>2, SeqDef
  <2>2. QED
    BY <2>1, EmptySeq
<1>4. DOMAIN batch' = 1..n /\ DOMAIN order = 1..n
  BY <1>2
<1>5. \A i \in 1..n : /\ order[i] \in Tasks /\ Due(order[i])
                      /\ batch'[i] = <<order[i], row[order[i]].ttl>>
  BY <1>2, <1>4
<1>6. \A t \in Tasks : row[t].ttl \in Nat
  BY DEF TypeOK, Row
<1>7. batch' \in [1..n -> Tasks \X Nat]
  BY <1>4, <1>5, <1>6
<1>8. batch' \in Seq(Tasks \X Nat)
  BY <1>1, <1>7, SeqDef
<1>9. batch' # <<>>
  BY <1>1, <1>3, <1>4
<1>10. QED
  BY <1>2, <1>4, <1>5, <1>8, <1>9

-----------------------------------------------------------------------------
(* The rows. *)

\* What a statement of the scheduler makes of the row of t, the text of its
\* result left out; the other rows stay.
RowBecomes(t, status, at, last, ttl) ==
  /\ row' \in [Tasks -> Row]
  /\ row'[t].status = status /\ row'[t].at = at
  /\ row'[t].last = last /\ row'[t].ttl = ttl
  /\ \A u \in Tasks \ {t} : row'[u] = row[u]

LEMMA RowType ==
  ASSUME TypeOK, NEW t \in Tasks
  PROVE  /\ row[t] \in Row
         /\ row[t].status \in Status /\ row[t].result \in Result
         /\ row[t].at \in 0..(MaxTime + Interval)
         /\ row[t].last \in 0..MaxTime /\ row[t].ttl \in Nat
  BY DEF TypeOK, Row

LEMMA RowUpdate ==
  ASSUME row \in [Tasks -> Row], NEW t \in Tasks, NEW r \in Row,
         row' = [row EXCEPT ![t] = r]
  PROVE  RowBecomes(t, r.status, r.at, r.last, r.ttl)
  BY DEF RowBecomes

\* The steps of the poll loop that write, at the row in hand.
LEMMA PickRow ==
  ASSUME TypeOK, Pick
  PROVE  RowBecomes(Current, "running", row[Current].at, row[Current].last,
                    row[Current].ttl)
<1>. DEFINE r == [row[Current] EXCEPT !.status = "running", !.result = "none"]
<1>1. Current \in Tasks /\ row \in [Tasks -> Row]
  BY BatchType DEF Pick, TypeOK
<1>2. r \in Row /\ r.status = "running" /\ r.at = row[Current].at
      /\ r.last = row[Current].last /\ r.ttl = row[Current].ttl
  BY <1>1 DEF Row, Status, Result
<1>3. row' = [row EXCEPT ![Current] = r]
  BY <1>1 DEF Pick
<1>. HIDE DEF r
<1>4. QED
  BY <1>1, <1>2, <1>3, RowUpdate

LEMMA StoreRow ==
  ASSUME TypeOK, StoreResult
  PROVE  RowBecomes(Current, IF ok THEN "done" ELSE "failed", row[Current].at,
                    IF ok THEN clock ELSE row[Current].last, row[Current].ttl)
<1>. DEFINE r == IF ok THEN [row[Current] EXCEPT !.status = "done", !.result = "ok",
                                                 !.last = clock]
                 ELSE [row[Current] EXCEPT !.status = "failed", !.result = "error"]
<1>1. Current \in Tasks /\ row \in [Tasks -> Row] /\ clock \in 1..MaxTime
      /\ MaxTime \in Nat
  BY BatchType, SchedulerAssumption DEF StoreResult, TypeOK
<1>2. row' = [row EXCEPT ![Current] = r]
  BY <1>1 DEF StoreResult, ResultStored
<1>3. r \in Row /\ r.status = (IF ok THEN "done" ELSE "failed") /\ r.at = row[Current].at
      /\ r.last = (IF ok THEN clock ELSE row[Current].last) /\ r.ttl = row[Current].ttl
  <2>1. CASE ok
    <3>1. r = [row[Current] EXCEPT !.status = "done", !.result = "ok", !.last = clock]
      BY <2>1
    <3>2. clock \in 0..MaxTime
      BY <1>1
    <3>. HIDE DEF r
    <3>3. QED
      BY <1>1, <2>1, <3>1, <3>2 DEF Row, Status, Result
  <2>2. CASE ~ok
    <3>1. r = [row[Current] EXCEPT !.status = "failed", !.result = "error"]
      BY <2>2
    <3>. HIDE DEF r
    <3>2. QED
      BY <1>1, <2>2, <3>1 DEF Row, Status, Result
  <2>3. QED
    BY <2>1, <2>2
<1>. HIDE DEF r
<1>4. QED
  BY <1>1, <1>2, <1>3, RowUpdate

LEMMA ExpireRow ==
  ASSUME TypeOK, Expire
  PROVE  RowBecomes(Current, "done", row[Current].at, row[Current].last, row[Current].ttl)
<1>. DEFINE r == [row[Current] EXCEPT !.status = "done", !.result = "ttl_expired"]
<1>1. Current \in Tasks /\ row \in [Tasks -> Row]
  BY BatchType DEF Expire, TypeOK
<1>2. r \in Row /\ r.status = "done" /\ r.at = row[Current].at
      /\ r.last = row[Current].last /\ r.ttl = row[Current].ttl
  BY <1>1 DEF Row, Status, Result
<1>3. row' = [row EXCEPT ![Current] = r]
  BY <1>1 DEF Expire
<1>. HIDE DEF r
<1>4. QED
  BY <1>1, <1>2, <1>3, RowUpdate

\* CountDown is reached with a budget of more than one run.
LEMMA CountDownRow ==
  ASSUME TypeOK, StepInv, CountDown
  PROVE  RowBecomes(Current, row[Current].status, row[Current].at, row[Current].last,
                    CurrentTtl - 1)
<1>. DEFINE r == [row[Current] EXCEPT !.ttl = CurrentTtl - 1]
<1>1. Current \in Tasks /\ row \in [Tasks -> Row] /\ CurrentTtl - 1 \in Nat
  BY BatchType, SMTT(20) DEF CountDown, TypeOK, StepInv
<1>2. r \in Row /\ r.status = row[Current].status /\ r.at = row[Current].at
      /\ r.last = row[Current].last /\ r.ttl = CurrentTtl - 1
  BY <1>1 DEF Row
<1>3. row' = [row EXCEPT ![Current] = r]
  BY <1>1 DEF CountDown
<1>. HIDE DEF r
<1>4. QED
  BY <1>1, <1>2, <1>3, RowUpdate

\* The anchor of the next run.
Anchor(t) == IF row[t].last # 0 THEN row[t].last ELSE row[t].at

LEMMA RescheduleRow ==
  ASSUME TypeOK, BatchInv, Reschedule
  PROVE  RowBecomes(Current, "pending", Anchor(Current) + Interval, row[Current].last,
                    row[Current].ttl)
<1>. DEFINE r == [row[Current] EXCEPT !.status = "pending", !.result = "none",
                                      !.at = Anchor(Current) + Interval]
<1>1. /\ Current \in Tasks /\ row \in [Tasks -> Row]
      /\ row[Current].at <= clock /\ clock \in 1..MaxTime
      /\ MaxTime \in Nat /\ Interval \in Nat
  BY BatchType, SchedulerAssumption DEF Reschedule, TypeOK, BatchInv
<1>2. row[Current] \in Row /\ row[Current].at \in 0..(MaxTime + Interval)
      /\ row[Current].last \in 0..MaxTime
  BY <1>1, RowType
<1>3. Anchor(Current) + Interval \in 0..(MaxTime + Interval)
  BY <1>1, <1>2 DEF Anchor
<1>4. row' = [row EXCEPT ![Current] = r]
  BY <1>1 DEF Reschedule, Anchor, NextRunFrom
<1>5. r \in Row /\ r.status = "pending" /\ r.at = Anchor(Current) + Interval
      /\ r.last = row[Current].last /\ r.ttl = row[Current].ttl
  BY <1>2, <1>3 DEF Row, Status, Result
<1>. HIDE DEF r
<1>6. QED
  BY <1>1, <1>4, <1>5, RowUpdate

\* The statements of the users.
LEMMA CreateRow ==
  ASSUME TypeOK, NEW t \in Tasks, Create(t)
  PROVE  \E at \in (clock + 1)..MaxTime : RowBecomes(t, "pending", at, 0, TtlRuns[t])
<1>1. PICK at \in (clock + 1)..MaxTime :
        row' = [row EXCEPT ![t] = [status |-> "pending", result |-> "none", at |-> at,
                                   last |-> 0, ttl |-> TtlRuns[t]]]
  BY DEF Create, FutureTimes
<1>. DEFINE r == [status |-> "pending", result |-> "none", at |-> at, last |-> 0,
                  ttl |-> TtlRuns[t]]
<1>2. at \in 0..(MaxTime + Interval) /\ 0 \in 0..MaxTime /\ TtlRuns[t] \in Nat
  BY SchedulerAssumption DEF TypeOK
<1>3. r \in Row /\ r.status = "pending" /\ r.at = at /\ r.last = 0 /\ r.ttl = TtlRuns[t]
  BY <1>2 DEF Row, Status, Result
<1>4. row' = [row EXCEPT ![t] = r] /\ row \in [Tasks -> Row]
  BY <1>1 DEF TypeOK
<1>. HIDE DEF r
<1>5. RowBecomes(t, "pending", at, 0, TtlRuns[t])
  BY <1>3, <1>4, RowUpdate
<1>6. QED
  BY <1>5

LEMMA CancelRow ==
  ASSUME TypeOK, NEW t \in Tasks, Cancel(t)
  PROVE  RowBecomes(t, "failed", row[t].at, row[t].last, row[t].ttl)
<1>. DEFINE r == [row[t] EXCEPT !.status = "failed", !.result = "cancelled by user"]
<1>1. row \in [Tasks -> Row]
  BY DEF TypeOK
<1>2. r \in Row /\ r.status = "failed" /\ r.at = row[t].at
      /\ r.last = row[t].last /\ r.ttl = row[t].ttl
  BY <1>1 DEF Row, Status, Result
<1>3. row' = [row EXCEPT ![t] = r]
  BY <1>1 DEF Cancel
<1>. HIDE DEF r
<1>4. QED
  BY <1>1, <1>2, <1>3, RowUpdate

\* The check at startup leaves running, done and failed rows alone.
LEMMA MissedRows ==
  ASSUME TypeOK, CheckMissed
  PROVE  /\ row' \in [Tasks -> Row]
         /\ \A t \in Tasks :
              /\ row'[t].ttl = row[t].ttl /\ row'[t].last = row[t].last
              /\ \/ row'[t] = row[t]
                 \/ /\ row[t].status = "pending"
                    /\ \/ t \in Recurring /\ row'[t].status = "pending"
                          /\ row'[t].at = clock + Interval
                       \/ t \notin Recurring /\ row'[t].status = "failed"
<1>. DEFINE missed == {t \in Tasks : row[t].status = "pending" /\ row[t].at < clock}
<1>1. row' = [t \in Tasks |->
                IF t \notin missed THEN row[t]
                ELSE IF t \in Recurring THEN [row[t] EXCEPT !.at = clock + Interval]
                ELSE [row[t] EXCEPT !.status = "failed", !.result = "missed_offline"]]
  BY DEF CheckMissed, NextRunFrom
<1>2. clock + Interval \in 0..(MaxTime + Interval)
  BY SchedulerAssumption DEF TypeOK
<1>3. ASSUME NEW t \in Tasks
      PROVE  /\ row'[t] \in Row
             /\ row'[t].ttl = row[t].ttl /\ row'[t].last = row[t].last
             /\ \/ row'[t] = row[t]
                \/ /\ row[t].status = "pending"
                   /\ \/ t \in Recurring /\ row'[t].status = "pending"
                         /\ row'[t].at = clock + Interval
                      \/ t \notin Recurring /\ row'[t].status = "failed"
  <2>1. row[t] \in Row
    BY RowType
  <2>2. CASE t \notin missed
    <3>1. row'[t] = row[t]
      BY <1>1, <2>2
    <3>2. QED
      BY <2>1, <3>1
  <2>3. CASE t \in missed /\ t \in Recurring
    <3>1. row'[t] = [row[t] EXCEPT !.at = clock + Interval]
      BY <1>1, <2>3
    <3>2. QED
      BY <1>2, <2>1, <2>3, <3>1 DEF Row
  <2>4. CASE t \in missed /\ t \notin Recurring
    <3>1. row'[t] = [row[t] EXCEPT !.status = "failed", !.result = "missed_offline"]
      BY <1>1, <2>4
    <3>2. QED
      BY <2>1, <2>4, <3>1 DEF Row, Status, Result
  <2>5. QED
    BY <2>2, <2>3, <2>4
<1>4. QED
  BY <1>1, <1>3, Zenon

-----------------------------------------------------------------------------
(* Types. *)

LEMMA TypeInit == Init => TypeOK
<1>. SUFFICES ASSUME Init PROVE TypeOK
  OBVIOUS
<1>1. row \in [Tasks -> Row]
  BY SchedulerAssumption DEF Init, Row, Status, Result
<1>2. batch \in Seq(Tasks \X Nat)
  BY EmptySeq DEF Init
<1>3. /\ clock \in 1..MaxTime /\ crashes \in 0..MaxCrashes
      /\ runs \in [Tasks -> 0..MaxRuns] /\ lastStart \in [Tasks -> 0..MaxTime]
  <2>1. 0 \in 0..MaxRuns /\ 0 \in 0..MaxTime
    BY SchedulerAssumption
  <2>2. QED
    BY <2>1, SchedulerAssumption DEF Init
<1>4. QED
  BY <1>1, <1>2, <1>3 DEF TypeOK, Init, Step

\* at stays in its range because a task is never started before its time:
\* hence BatchInv.
LEMMA TypeStep ==
  ASSUME TypeOK, BatchInv, StepInv, Next
  PROVE  TypeOK'
<1>0. step # "idle" => Current \in Tasks
  BY BatchType
<1>1. CASE Tick
  <2>1. clock' \in 1..MaxTime
    BY <1>1, SchedulerAssumption DEF Tick, TypeOK
  <2>2. QED
    BY <1>1, <2>1 DEF Tick, TypeOK, history
<1>2. CASE Crash
  <2>1. crashes' \in 0..MaxCrashes
    BY <1>2, SchedulerAssumption DEF Crash, TypeOK
  <2>2. batch' \in Seq(Tasks \X Nat)
    BY <1>2, EmptySeq DEF Crash
  <2>3. orphans' \subseteq Tasks
    BY <1>2 DEF Crash, TypeOK
  <2>4. QED
    BY <1>2, <2>1, <2>2, <2>3 DEF Crash, Step, TypeOK
<1>3. CASE CheckMissed
  BY <1>3, MissedRows DEF CheckMissed, TypeOK, history
<1>4. CASE Wire
  BY <1>4 DEF Wire, TypeOK, history
<1>5. CASE Poll
  <2>1. batch' \in Seq(Tasks \X Nat) /\ batch' # <<>>
    BY <1>5, PollBatch DEF Poll
  <2>2. QED
    BY <1>5, <2>1 DEF Poll, Step, TypeOK, history
<1>6. CASE Pick
  <2>1. row' \in [Tasks -> Row]
    BY <1>6, PickRow DEF RowBecomes
  <2>2. batch' \in Seq(Tasks \X Nat) /\ step' \in Step /\ ((step' = "idle") <=> (batch' = <<>>))
    BY <1>6, Advance DEF Pick, Step, TypeOK
  <2>3. orphans' \subseteq Tasks
    BY <1>0, <1>6 DEF Pick, TypeOK
  <2>4. QED
    BY <1>6, <2>1, <2>2, <2>3 DEF Pick, TypeOK
<1>7. CASE Start
  <2>1. runs' \in [Tasks -> 0..MaxRuns]
    <3>1. ASSUME NEW t \in Tasks PROVE runs'[t] \in 0..MaxRuns
      BY <1>7, SchedulerAssumption, SMTT(20) DEF Start, TypeOK
    <3>2. QED
      BY <1>7, <3>1 DEF Start, TypeOK
  <2>2. lastStart' \in [Tasks -> 0..MaxTime]
    <3>1. clock \in 0..MaxTime
      BY SchedulerAssumption DEF TypeOK
    <3>2. QED
      BY <1>7, <3>1 DEF Start, TypeOK
  <2>3. QED
    BY <1>7, <2>1, <2>2 DEF Start, Step, TypeOK
<1>8. CASE Refused
  <2>1. batch' \in Seq(Tasks \X Nat) /\ step' \in Step /\ ((step' = "idle") <=> (batch' = <<>>))
    BY <1>8, Advance DEF Refused, Step
  <2>2. QED
    BY <1>0, <1>8, <2>1 DEF Refused, TypeOK
<1>9. CASE Finish
  <2>1. ok' \in BOOLEAN
    BY <1>9 DEF Finish
  <2>2. lastStart' \in [Tasks -> 0..MaxTime]
    <3>1. ASSUME NEW t \in Tasks PROVE lastStart'[t] \in 0..MaxTime
      BY <1>9, SchedulerAssumption DEF Finish, TypeOK
    <3>2. QED
      BY <1>9, <3>1 DEF Finish, TypeOK
  <2>3. QED
    BY <1>9, <2>1, <2>2 DEF Finish, Step, TypeOK
<1>10. CASE StoreResult
  <2>1. row' \in [Tasks -> Row]
    BY <1>10, StoreRow DEF RowBecomes
  <2>2. batch' \in Seq(Tasks \X Nat) /\ step' \in Step /\ ((step' = "idle") <=> (batch' = <<>>))
    <3>1. CASE Current \notin Recurring
      BY <1>10, <3>1, Advance DEF StoreResult, Step
    <3>2. CASE Current \in Recurring
      <4>1. step' \in {"reschedule", "expire", "count"}
        <5>1. CurrentTtl = 0 \/ CurrentTtl = 1 \/ CurrentTtl > 1
          BY <1>10, BatchType DEF StoreResult
        <5>2. QED
          BY <1>10, <3>2, <5>1 DEF StoreResult
      <4>2. QED
        BY <1>10, <3>2, <4>1 DEF StoreResult, Step, TypeOK
    <3>3. QED
      BY <3>1, <3>2
  <2>3. QED
    BY <1>10, <2>1, <2>2 DEF StoreResult, TypeOK, history
<1>11. CASE Expire
  <2>1. row' \in [Tasks -> Row]
    BY <1>11, ExpireRow DEF RowBecomes
  <2>2. batch' \in Seq(Tasks \X Nat) /\ step' \in Step /\ ((step' = "idle") <=> (batch' = <<>>))
    BY <1>11, Advance DEF Expire, Step
  <2>3. QED
    BY <1>11, <2>1, <2>2 DEF Expire, TypeOK, history
<1>12. CASE CountDown
  <2>1. row' \in [Tasks -> Row]
    BY <1>12, CountDownRow DEF RowBecomes, CountDown
  <2>2. QED
    BY <1>12, <2>1 DEF CountDown, Step, TypeOK, history
<1>13. CASE Reschedule
  <2>1. row' \in [Tasks -> Row]
    BY <1>13, RescheduleRow DEF RowBecomes
  <2>2. batch' \in Seq(Tasks \X Nat) /\ step' \in Step /\ ((step' = "idle") <=> (batch' = <<>>))
    BY <1>13, Advance DEF Reschedule, Step
  <2>3. QED
    BY <1>13, <2>1, <2>2 DEF Reschedule, TypeOK, history
<1>14. ASSUME NEW t \in Tasks, Create(t) PROVE TypeOK'
  <2>1. row' \in [Tasks -> Row]
    BY <1>14, CreateRow DEF RowBecomes
  <2>2. QED
    BY <1>14, <2>1 DEF Create, FutureTimes, TypeOK, history
<1>15. ASSUME NEW t \in Tasks, Cancel(t) PROVE TypeOK'
  <2>1. row' \in [Tasks -> Row]
    BY <1>15, CancelRow DEF RowBecomes
  <2>2. QED
    BY <1>15, <2>1 DEF Cancel, TypeOK
<1>16. QED
  BY <1>1, <1>2, <1>3, <1>4, <1>5, <1>6, <1>7, <1>8, <1>9, <1>10, <1>11, <1>12,
     <1>13, <1>14, <1>15 DEF Next, Loop

-----------------------------------------------------------------------------
(* The entries of the batch. *)

\* The loop goes on after a step that wrote to no row but that in hand.
LEMMA EntriesAdvance ==
  ASSUME TypeOK, BatchInv, step # "idle", NextInBatch,
         \A u \in Tasks \ {Current} : row'[u] = row[u]
  PROVE  /\ \A i \in DOMAIN batch' :
              /\ i \in Nat /\ i >= 1 /\ i + 1 \in DOMAIN batch /\ batch'[i] = batch[i + 1]
              /\ Task(i + 1) \in Tasks /\ Task(i + 1) # Current
              /\ row'[Task(i + 1)] = row[Task(i + 1)]
         /\ step' \in {"idle", "pick"}
         /\ step' # "idle" => 1 \in DOMAIN batch'
<1>1. /\ Len(batch) \in Nat /\ DOMAIN batch = 1..Len(batch) /\ 1 \in DOMAIN batch
      /\ Current = Task(1) /\ \A i \in DOMAIN batch : Task(i) \in Tasks
  BY BatchType
<1>2. /\ DOMAIN batch' = 1..(Len(batch) - 1)
      /\ \A i \in DOMAIN batch' : i + 1 \in DOMAIN batch /\ batch'[i] = batch[i + 1]
      /\ step' \in {"idle", "pick"}
  BY Advance
<1>3. ASSUME NEW i \in DOMAIN batch'
      PROVE  /\ i \in Nat /\ i >= 1 /\ i + 1 \in DOMAIN batch
             /\ Task(i + 1) \in Tasks /\ Task(i + 1) # Current
  BY <1>1, <1>2, <1>3 DEF BatchInv
<1>4. step' # "idle" => 1 \in DOMAIN batch'
  BY <1>1, <1>2 DEF NextInBatch
<1>5. QED
  BY <1>2, <1>3, <1>4

LEMMA EntriesInvAdvance ==
  ASSUME TypeOK, BatchInv, StepInv, TtlInv, step # "idle", NextInBatch,
         \A u \in Tasks \ {Current} : row'[u] = row[u],
         clock' = clock, phase' = phase
  PROVE  BatchInv' /\ StepInv' /\ TtlInv'
<1>1. /\ \A i \in DOMAIN batch' :
           /\ i \in Nat /\ i >= 1 /\ i + 1 \in DOMAIN batch /\ batch'[i] = batch[i + 1]
           /\ row'[Task(i + 1)] = row[Task(i + 1)]
      /\ step' \in {"idle", "pick"}
  BY EntriesAdvance
<1>2. \A i, j \in DOMAIN batch' : batch'[i][1] = batch'[j][1] => i = j
  <2>1. SUFFICES ASSUME NEW i \in DOMAIN batch', NEW j \in DOMAIN batch',
                        batch'[i][1] = batch'[j][1]
                 PROVE  i = j
    OBVIOUS
  <2>2. i + 1 = j + 1
    BY <1>1, <2>1 DEF BatchInv, Task
  <2>3. QED
    BY <1>1, <2>2
<1>3. \A i \in DOMAIN batch' : row'[batch'[i][1]].at <= clock'
  BY <1>1 DEF BatchInv, Task
<1>4. \A i \in DOMAIN batch' : row'[batch'[i][1]].status \in {"pending", "failed"}
  BY <1>1 DEF StepInv, Task
<1>5. \A i \in DOMAIN batch' : batch'[i][2] = row'[batch'[i][1]].ttl
  BY <1>1 DEF TtlInv, Task, Ttl
<1>6. phase' = "down" => step' = "idle"
  BY DEF StepInv
<1>7. QED
  BY <1>1, <1>2, <1>3, <1>4, <1>5, <1>6 DEF BatchInv, StepInv, TtlInv, Task, Ttl

LEMMA EntriesStep ==
  ASSUME TypeOK, BatchInv, StepInv, TtlInv, Next
  PROVE  BatchInv' /\ StepInv' /\ TtlInv'
<1>0. /\ \A i \in DOMAIN batch : i \in Nat /\ i >= 1 /\ Task(i) \in Tasks
      /\ step # "idle" => 1 \in DOMAIN batch /\ Current \in Tasks
      /\ Current = Task(1) /\ CurrentTtl = Ttl(1)
      /\ step # "idle" => \A i \in DOMAIN batch : i > 1 => Task(i) \in Tasks \ {Current}
  <2>1. Len(batch) \in Nat /\ DOMAIN batch = 1..Len(batch)
    BY BatchType
  <2>2. QED
    BY <2>1, BatchType DEF BatchInv
<1>. DEFINE Inv == BatchInv /\ StepInv /\ TtlInv
<1>1. CASE Tick
  <2>1. clock <= clock' /\ clock \in Nat /\ clock' \in Nat
    BY <1>1, SchedulerAssumption DEF Tick, TypeOK
  <2>2. \A i \in DOMAIN batch : row[Task(i)].at \in Nat
    BY <1>0, RowType, SchedulerAssumption
  <2>3. BatchInv'
    BY <1>1, <2>1, <2>2 DEF Tick, BatchInv, Task
  <2>4. QED
    BY <1>1, <2>3 DEF Tick, StepInv, TtlInv, Task, Ttl
<1>2. CASE Crash
  BY <1>2 DEF Crash, BatchInv, StepInv, TtlInv
<1>3. CASE CheckMissed
  <2>1. batch = <<>> /\ step = "idle"
    BY <1>3 DEF CheckMissed, StepInv, TypeOK
  <2>2. batch' = <<>> /\ step' = "idle" /\ phase' = "polling"
    BY <1>3, <2>1 DEF CheckMissed
  <2>3. QED
    BY <2>2 DEF BatchInv, StepInv, TtlInv
<1>4. CASE Wire
  BY <1>4 DEF Wire, BatchInv, StepInv, TtlInv, Task, Ttl
<1>5. CASE Poll
  <2>1. PICK order \in SetToSeqs({t \in Tasks : Due(t)}) :
          order # <<>> /\ batch' = [i \in DOMAIN order |-> <<order[i], row[order[i]].ttl>>]
    BY <1>5 DEF Poll
  <2>2. /\ \A i \in DOMAIN batch' : /\ order[i] \in Tasks /\ Due(order[i])
                                    /\ batch'[i] = <<order[i], row[order[i]].ttl>>
        /\ \A i, j \in DOMAIN batch' : order[i] = order[j] => i = j
    BY <2>1, PollBatch
  <2>3. \A i \in DOMAIN batch' :
          /\ batch'[i][1] = order[i] /\ batch'[i][2] = row[order[i]].ttl
          /\ row[order[i]].status = "pending" /\ row[order[i]].at <= clock
    BY <2>2 DEF Due
  <2>4. row' = row /\ clock' = clock /\ step' = "pick" /\ phase' # "down"
    BY <1>5 DEF Poll
  <2>5. QED
    BY <2>2, <2>3, <2>4 DEF BatchInv, StepInv, TtlInv, Task, Ttl
<1>6. CASE Pick
  <2>1. /\ row'[Current].status = "running" /\ row'[Current].at = row[Current].at
        /\ row'[Current].ttl = row[Current].ttl
        /\ \A u \in Tasks \ {Current} : row'[u] = row[u]
    BY <1>6, PickRow DEF RowBecomes
  <2>2. CASE Subscribed
    <3>1. batch' = batch /\ step' = "lock" /\ clock' = clock /\ phase' = "up"
      BY <1>6, <2>2 DEF Pick, Subscribed
    <3>2. step = "pick" /\ Current = Task(1) /\ 1 \in DOMAIN batch
      BY <1>0, <1>6 DEF Pick
    <3>3. BatchInv'
      BY <1>0, <2>1, <3>1, <3>2 DEF BatchInv, Task
    <3>4. StepInv'
      BY <1>0, <2>1, <3>1, <3>2 DEF StepInv, Task, Ttl
    <3>5. TtlInv'
      BY <1>0, <2>1, <3>1, <3>2 DEF TtlInv, Task, Ttl
    <3>6. QED
      BY <3>3, <3>4, <3>5
  <2>3. CASE ~Subscribed
    BY <1>6, <2>1, <2>3, EntriesInvAdvance DEF Pick
  <2>4. QED
    BY <2>2, <2>3
<1>7. CASE Start
  BY <1>0, <1>7 DEF Start, BatchInv, StepInv, TtlInv, Task, Ttl
<1>8. CASE Refused
  BY <1>8, EntriesInvAdvance DEF Refused
<1>9. CASE Finish
  BY <1>0, <1>9 DEF Finish, BatchInv, StepInv, TtlInv, Task, Ttl
<1>10. CASE StoreResult
  <2>1. /\ row'[Current].status \in {"done", "failed"} /\ row'[Current].at = row[Current].at
        /\ row'[Current].ttl = row[Current].ttl
        /\ \A u \in Tasks \ {Current} : row'[u] = row[u]
    BY <1>10, StoreRow DEF RowBecomes
  <2>2. CASE Current \notin Recurring
    BY <1>10, <2>1, <2>2, EntriesInvAdvance DEF StoreResult
  <2>3. CASE Current \in Recurring
    <3>1. CurrentTtl = 0 \/ CurrentTtl = 1 \/ CurrentTtl > 1
      BY <1>10, BatchType DEF StoreResult
    <3>2. /\ batch' = batch /\ clock' = clock /\ phase' = phase
          /\ step' \in {"reschedule", "expire", "count"}
          /\ step' = "count" => CurrentTtl > 1
      BY <1>10, <2>3, <3>1 DEF StoreResult
    <3>3. QED
      BY <1>0, <1>10, <2>1, <2>3, <3>2 DEF StoreResult, BatchInv, StepInv, TtlInv, Task, Ttl
  <2>4. QED
    BY <2>2, <2>3
<1>11. CASE Expire
  <2>1. \A u \in Tasks \ {Current} : row'[u] = row[u]
    BY <1>11, ExpireRow DEF RowBecomes
  <2>2. QED
    BY <1>11, <2>1, EntriesInvAdvance DEF Expire
<1>12. CASE CountDown
  <2>1. /\ row'[Current].status = row[Current].status /\ row'[Current].at = row[Current].at
        /\ \A u \in Tasks \ {Current} : row'[u] = row[u]
    BY <1>12, CountDownRow DEF RowBecomes
  <2>2. QED
    BY <1>0, <1>12, <2>1 DEF CountDown, BatchInv, StepInv, TtlInv, Task, Ttl
<1>13. CASE Reschedule
  <2>1. \A u \in Tasks \ {Current} : row'[u] = row[u]
    BY <1>13, RescheduleRow DEF RowBecomes
  <2>2. QED
    BY <1>13, <2>1, EntriesInvAdvance DEF Reschedule
<1>14. ASSUME NEW t \in Tasks, Create(t) PROVE Inv'
  <2>1. \A u \in Tasks \ {t} : row'[u] = row[u]
    BY <1>14, CreateRow DEF RowBecomes
  <2>2. \A i \in DOMAIN batch : Task(i) # t
    <3>1. row[t].status = "absent"
      BY <1>14 DEF Create
    <3>2. ASSUME NEW i \in DOMAIN batch PROVE row[Task(i)].status # "absent"
      <4>1. step # "idle"
        BY DEF TypeOK
      <4>2. i > 1 \/ i = 1
        BY <1>0
      <4>3. QED
        BY <4>1, <4>2 DEF StepInv, TypeOK, Step
    <3>3. QED
      BY <3>1, <3>2
  <2>3. QED
    BY <1>0, <1>14, <2>1, <2>2 DEF Create, BatchInv, StepInv, TtlInv, Task, Ttl
<1>15. ASSUME NEW t \in Tasks, Cancel(t) PROVE Inv'
  <2>1. /\ row'[t].status = "failed" /\ row'[t].at = row[t].at /\ row'[t].ttl = row[t].ttl
        /\ \A u \in Tasks \ {t} : row'[u] = row[u]
    BY <1>15, CancelRow DEF RowBecomes
  <2>2. QED
    <3>1. /\ batch' = batch /\ step' = step /\ clock' = clock /\ phase' = phase
          /\ row[t].status = "pending"
      BY <1>15 DEF Cancel
    <3>2. BatchInv'
      BY <1>0, <2>1, <3>1 DEF BatchInv, Task
    <3>3. step \in {"lock", "run", "completed", "expire", "count", "reschedule"}
            => Task(1) # t
      BY <3>1 DEF StepInv
    <3>4. StepInv'
      BY <1>0, <2>1, <3>1, <3>3 DEF StepInv, Task, Ttl
    <3>5. TtlInv'
      BY <1>0, <2>1, <3>1 DEF TtlInv, Task, Ttl
    <3>6. QED
      BY <3>2, <3>4, <3>5
<1>16. QED
  BY <1>1, <1>2, <1>3, <1>4, <1>5, <1>6, <1>7, <1>8, <1>9, <1>10, <1>11, <1>12,
     <1>13, <1>14, <1>15 DEF Next, Loop

-----------------------------------------------------------------------------
(* The queue. *)

\* A step queues a task only by reading its pending row, and whatever starts
\* the task in hand or drops it takes it from the queue.
LEMMA QueueStep ==
  ASSUME TypeOK, BatchInv, Next
  PROVE  /\ step \in {"pick", "lock"} => Queued(Current)
         /\ Poll => \A t \in Tasks : Queued(t)' => row[t].status = "pending"
         /\ ~Poll => \A t \in Tasks : Queued(t)' => Queued(t)
         /\ step # "idle" /\ (Start \/ NextInBatch) =>
              \A t \in Tasks : Queued(t)' => t # Current
<1>0. /\ \A i \in DOMAIN batch : i \in Nat /\ i >= 1 /\ Task(i) \in Tasks
      /\ step # "idle" => 1 \in DOMAIN batch /\ Current \in Tasks
      /\ Current = Task(1)
      /\ step # "idle" => \A i \in DOMAIN batch : i > 1 => Task(i) # Current
  <2>1. Len(batch) \in Nat /\ DOMAIN batch = 1..Len(batch)
    BY BatchType
  <2>2. QED
    BY <2>1, BatchType DEF BatchInv
<1>1. step \in {"pick", "lock"} => Queued(Current)
  BY <1>0 DEF Queued, Awaits
<1>2. ASSUME Poll, NEW t \in Tasks, Queued(t)' PROVE row[t].status = "pending"
  <2>1. PICK order \in SetToSeqs({u \in Tasks : Due(u)}) :
          order # <<>> /\ batch' = [i \in DOMAIN order |-> <<order[i], row[order[i]].ttl>>]
    BY <1>2 DEF Poll
  <2>2. \A i \in DOMAIN batch' : Due(order[i]) /\ batch'[i] = <<order[i], row[order[i]].ttl>>
    BY <2>1, PollBatch
  <2>3. PICK i \in DOMAIN batch' : batch'[i][1] = t
    BY <1>2 DEF Queued, Task
  <2>4. QED
    BY <2>2, <2>3 DEF Due
<1>3. ASSUME step # "idle", NextInBatch
      PROVE  \A t \in Tasks : Queued(t)' => Queued(t) /\ t # Current
  <2>1. \A i \in DOMAIN batch' : i + 1 \in DOMAIN batch /\ batch'[i] = batch[i + 1]
    BY <1>3, Advance
  <2>2. DOMAIN batch' = 1..(Len(batch) - 1) /\ Len(batch) \in Nat
    BY <1>3, Advance, BatchType
  <2>3. SUFFICES ASSUME NEW t \in Tasks, Queued(t)' PROVE Queued(t) /\ t # Current
    OBVIOUS
  <2>4. PICK i \in DOMAIN batch' : batch'[i][1] = t
    BY <2>3 DEF Queued, Task
  <2>5. i + 1 \in DOMAIN batch /\ i + 1 > 1 /\ Task(i + 1) = t
    BY <2>1, <2>2, <2>4 DEF Task
  <2>6. QED
    BY <1>0, <1>3, <2>5 DEF Queued, Awaits
<1>4. ASSUME batch' = batch, step' \in {"pick", "lock"} => step \in {"pick", "lock"}
      PROVE  \A t \in Tasks : Queued(t)' => Queued(t)
  BY <1>4 DEF Queued, Awaits, Task
<1>5. ASSUME Start, NEW t \in Tasks, Queued(t)' PROVE t # Current
  <2>1. batch' = batch /\ step' = "run" /\ step # "idle"
    BY <1>5 DEF Start
  <2>2. PICK i \in DOMAIN batch : i > 1 /\ Task(i) = t
    BY <1>5, <2>1 DEF Queued, Awaits, Task
  <2>3. QED
    BY <1>0, <2>1, <2>2
<1>6. ASSUME ~Poll, NEW t \in Tasks, Queued(t)' PROVE Queued(t)
  <2>1. CASE step # "idle" /\ NextInBatch
    BY <1>3, <1>6, <2>1
  <2>2. CASE batch' = batch /\ (step' \in {"pick", "lock"} => step \in {"pick", "lock"})
    BY <1>4, <1>6, <2>2
  <2>3. CASE Crash
    <3>1. batch' = <<>>
      BY <2>3 DEF Crash
    <3>2. QED
      BY <1>6, <3>1 DEF Queued
  <2>4. CASE StoreResult
    <3>1. CASE Current \notin Recurring
      BY <2>1, <2>4, <3>1 DEF StoreResult
    <3>2. CASE Current \in Recurring
      <4>1. CurrentTtl = 0 \/ CurrentTtl = 1 \/ CurrentTtl > 1
        BY <2>4, BatchType DEF StoreResult
      <4>2. batch' = batch /\ step' \in {"reschedule", "expire", "count"}
        BY <2>4, <3>2, <4>1 DEF StoreResult
      <4>3. QED
        BY <2>2, <4>2
    <3>3. QED
      BY <3>1, <3>2
  <2>5. CASE Pick
    BY <2>1, <2>2, <2>5 DEF Pick
  <2>6. CASE Tick \/ CheckMissed \/ Wire \/ \E u \in Tasks : Create(u) \/ Cancel(u)
    BY <2>2, <2>6 DEF Tick, CheckMissed, Wire, Create, Cancel
  <2>7. CASE Start \/ Finish \/ CountDown
    BY <2>2, <2>7 DEF Start, Finish, CountDown
  <2>8. CASE Refused \/ Expire \/ Reschedule
    BY <2>1, <2>8 DEF Refused, Expire, Reschedule
  <2>9. QED
    BY <1>6, <2>3, <2>4, <2>5, <2>6, <2>7, <2>8 DEF Next, Loop
<1>7. QED
  BY <1>1, <1>2, <1>3, <1>5, <1>6

-----------------------------------------------------------------------------
(* One-shots. *)

\* A step that starts nothing leaves runs alone, and makes a one-shot pending
\* or absent only when it was that before.
LEMMA OneShotRows ==
  ASSUME TypeOK, BatchInv, StepInv, Next, NEW t \in Tasks \ Recurring,
         row'[t].status \in {"absent", "pending"}
  PROVE  row[t].status \in {"absent", "pending"} /\ ~(Start /\ t = Current)
<1>0. /\ step # "idle" => Current \in Tasks /\ Current = Task(1)
      /\ t \in Tasks /\ t \notin Recurring
  BY BatchType
<1>1. CASE Tick \/ Crash \/ Wire \/ Poll \/ Refused \/ Finish
  <2>1. row' = row
    BY <1>1 DEF Tick, Crash, Wire, Poll, Refused, Finish
  <2>2. ~Start
    BY <1>1 DEF Tick, Crash, Wire, Poll, Refused, Finish, Start, NextInBatch
  <2>3. QED
    BY <2>1, <2>2
<1>2. CASE CheckMissed
  <2>1. row'[t] = row[t] \/ row[t].status = "pending"
    BY <1>2, MissedRows
  <2>2. QED
    BY <1>2, <2>1 DEF CheckMissed, Start
<1>3. CASE Pick
  BY <1>0, <1>3, PickRow DEF RowBecomes, Pick, Start
<1>4. CASE Start
  BY <1>0, <1>4 DEF Start, StepInv
<1>5. CASE StoreResult
  <2>1. /\ row'[Current].status \in {"done", "failed"}
        /\ \A u \in Tasks \ {Current} : row'[u] = row[u]
    BY <1>5, StoreRow DEF RowBecomes
  <2>2. QED
    BY <1>0, <1>5, <2>1 DEF StoreResult, Start
<1>6. CASE Expire
  BY <1>0, <1>6, ExpireRow DEF RowBecomes, Expire, Start
<1>7. CASE CountDown
  <2>1. /\ row'[Current].status = row[Current].status
        /\ \A u \in Tasks \ {Current} : row'[u] = row[u]
    BY <1>7, CountDownRow DEF RowBecomes
  <2>2. QED
    BY <1>0, <1>7, <2>1 DEF CountDown, Start
<1>8. CASE Reschedule
  <2>1. \A u \in Tasks \ {Current} : row'[u] = row[u]
    BY <1>8, RescheduleRow DEF RowBecomes
  <2>2. t # Current
    BY <1>0, <1>8 DEF Reschedule, StepInv
  <2>3. QED
    BY <1>0, <1>8, <2>1, <2>2 DEF Reschedule, Start
<1>9. ASSUME NEW u \in Tasks, Create(u) PROVE row[t].status \in {"absent", "pending"} /\ ~Start
  <2>1. \A v \in Tasks \ {u} : row'[v] = row[v]
    BY <1>9, CreateRow DEF RowBecomes
  <2>2. row[u].status = "absent" /\ step' = step
    BY <1>9 DEF Create
  <2>3. QED
    BY <1>0, <2>1, <2>2 DEF Start
<1>10. ASSUME NEW u \in Tasks, Cancel(u) PROVE row[t].status \in {"absent", "pending"} /\ ~Start
  <2>1. \A v \in Tasks \ {u} : row'[v] = row[v]
    BY <1>10, CancelRow DEF RowBecomes
  <2>2. row[u].status = "pending" /\ step' = step
    BY <1>10 DEF Cancel
  <2>3. QED
    BY <1>0, <2>1, <2>2 DEF Start
<1>11. QED
  BY <1>1, <1>2, <1>3, <1>4, <1>5, <1>6, <1>7, <1>8, <1>9, <1>10 DEF Next, Loop

\* Only Start counts a run, of the task in hand.
LEMMA RunsStep ==
  ASSUME TypeOK, Next
  PROVE  \/ runs' = runs /\ ~Start
         \/ /\ Start /\ Current \in Tasks
            /\ \A t \in Tasks : runs'[t] = IF t # Current THEN runs[t]
                                           ELSE IF runs[t] < MaxRuns THEN runs[t] + 1
                                           ELSE runs[t]
<1>1. CASE Start
  BY <1>1, BatchType DEF Start, TypeOK
<1>2. CASE ~Start
  BY <1>2 DEF Next, Loop, Tick, Crash, CheckMissed, Wire, Create, Cancel, Poll, Pick,
     Refused, Finish, StoreResult, Expire, CountDown, Reschedule, history
<1>3. QED
  BY <1>1, <1>2

LEMMA OneShotStep ==
  ASSUME TypeOK, BatchInv, StepInv, OneShotInv, Next
  PROVE  OneShotInv'
<1>1. SUFFICES ASSUME NEW t \in Tasks \ Recurring
               PROVE  /\ runs'[t] <= 1
                      /\ row'[t].status \in {"absent", "pending"} => runs'[t] = 0
                      /\ Queued(t)' => runs'[t] = 0
  BY DEF OneShotInv
<1>2. /\ runs[t] <= 1 /\ runs[t] \in Nat
      /\ row[t].status \in {"absent", "pending"} => runs[t] = 0
      /\ Queued(t) => runs[t] = 0
  BY SchedulerAssumption DEF OneShotInv, TypeOK
<1>3. row'[t].status \in {"absent", "pending"} =>
        row[t].status \in {"absent", "pending"} /\ ~(Start /\ t = Current)
  BY OneShotRows
<1>4. CASE Start
  <2>1. Queued(Current) /\ (Queued(t)' => Queued(t) /\ t # Current)
    <3>1. ~Poll /\ step # "idle" /\ step \in {"pick", "lock"}
      BY <1>4 DEF Start, Poll
    <3>2. QED
      BY <1>4, <3>1, QueueStep
  <2>2. runs'[t] = IF t # Current THEN runs[t]
                   ELSE IF runs[t] < MaxRuns THEN runs[t] + 1 ELSE runs[t]
    BY <1>4, RunsStep
  <2>3. CASE t = Current
    <3>1. runs[t] = 0
      BY <1>2, <2>1, <2>3
    <3>2. runs'[t] = 1 \/ runs'[t] = 0
      BY <2>2, <2>3, <3>1
    <3>3. QED
      BY <1>3, <1>4, <2>1, <2>3, <3>2
  <2>4. CASE t # Current
    BY <1>2, <1>3, <2>1, <2>2, <2>4
  <2>5. QED
    BY <2>3, <2>4
<1>5. CASE ~Start
  <2>1. runs' = runs
    BY <1>5, RunsStep
  <2>2. Queued(t)' => Queued(t) \/ row[t].status = "pending"
    BY QueueStep
  <2>3. QED
    BY <1>2, <1>3, <2>1, <2>2
<1>6. QED
  BY <1>4, <1>5

-----------------------------------------------------------------------------
(* Running rows. *)

LEMMA RunningStep ==
  ASSUME TypeOK, BatchInv, StepInv, RunningIsLive, Next
  PROVE  RunningIsLive'
<1>1. SUFFICES ASSUME NEW t \in Tasks \ orphans', row'[t].status = "running"
               PROVE  batch' # <<>> /\ Current' = t
  BY DEF RunningIsLive
<1>2. /\ t \in Tasks /\ t \notin orphans
      /\ row[t].status = "running" => step # "idle" /\ Current = t
      /\ step # "idle" => batch # <<>> /\ Current \in Tasks /\ Current = Task(1)
  <2>1. orphans \subseteq orphans'
    BY DEF Next, Loop, Tick, Crash, CheckMissed, Wire, Create, Cancel, Poll, Pick, Start,
       Refused, Finish, StoreResult, Expire, CountDown, Reschedule, history
  <2>2. QED
    BY <1>1, <2>1, BatchType DEF RunningIsLive, TypeOK
<1>3. ASSUME batch' = batch, step # "idle", Current = t
      PROVE  batch' # <<>> /\ Current' = t
  BY <1>2, <1>3 DEF Current
<1>4. CASE Tick \/ Wire
  BY <1>1, <1>2, <1>3, <1>4 DEF Tick, Wire
<1>5. CASE Crash
  BY <1>1, <1>5 DEF Crash
<1>6. CASE CheckMissed
  <2>1. step = "idle" /\ row[t].status = "running"
    BY <1>1, <1>6, MissedRows DEF CheckMissed, StepInv
  <2>2. QED
    BY <1>2, <2>1
<1>7. CASE Poll
  BY <1>1, <1>2, <1>7 DEF Poll
<1>8. CASE Pick
  <2>1. \A u \in Tasks \ {Current} : row'[u] = row[u]
    BY <1>8, PickRow DEF RowBecomes
  <2>2. t = Current
    BY <1>1, <1>2, <2>1
  <2>3. batch' = batch /\ step # "idle"
    BY <1>1, <1>8, <2>2 DEF Pick
  <2>4. QED
    BY <1>3, <2>2, <2>3
<1>9. CASE Start \/ Finish
  BY <1>1, <1>2, <1>3, <1>9 DEF Start, Finish
<1>10. CASE Refused
  BY <1>1, <1>2, <1>10 DEF Refused
<1>11. CASE StoreResult
  <2>1. /\ row'[Current].status \in {"done", "failed"}
        /\ \A u \in Tasks \ {Current} : row'[u] = row[u]
    BY <1>11, StoreRow DEF RowBecomes
  <2>2. QED
    BY <1>1, <1>2, <2>1
<1>12. CASE Expire
  <2>1. row'[Current].status = "done" /\ \A u \in Tasks \ {Current} : row'[u] = row[u]
    BY <1>12, ExpireRow DEF RowBecomes
  <2>2. QED
    BY <1>1, <1>2, <2>1
<1>13. CASE CountDown
  <2>1. /\ row'[Current].status = row[Current].status
        /\ \A u \in Tasks \ {Current} : row'[u] = row[u]
    BY <1>13, CountDownRow DEF RowBecomes
  <2>2. row[Current].status \in {"done", "failed"}
    BY <1>2, <1>13 DEF CountDown, StepInv
  <2>3. QED
    BY <1>1, <1>2, <2>1, <2>2
<1>14. CASE Reschedule
  <2>1. row'[Current].status = "pending" /\ \A u \in Tasks \ {Current} : row'[u] = row[u]
    BY <1>14, RescheduleRow DEF RowBecomes
  <2>2. QED
    BY <1>1, <1>2, <2>1
<1>15. ASSUME NEW u \in Tasks, Create(u) \/ Cancel(u)
       PROVE  batch' # <<>> /\ Current' = t
  <2>1. row'[u].status \in {"pending", "failed"} /\ \A v \in Tasks \ {u} : row'[v] = row[v]
    BY <1>15, CreateRow, CancelRow DEF RowBecomes
  <2>2. batch' = batch
    BY <1>15 DEF Create, Cancel
  <2>3. QED
    BY <1>1, <1>2, <1>3, <2>1, <2>2
<1>16. QED
  BY <1>4, <1>5, <1>6, <1>7, <1>8, <1>9, <1>10, <1>11, <1>12, <1>13, <1>14, <1>15
     DEF Next, Loop

-----------------------------------------------------------------------------
(* Recurring tasks. *)

\* What a step that neither starts, stores, counts nor reschedules does to a
\* task, as far as budgets and distances are concerned.
LEMMA QuietRows ==
  ASSUME TypeOK, BatchInv, StepInv, Next, NEW t \in Recurring,
         ~Start, ~StoreResult, ~CountDown, ~Reschedule, ~Create(t)
  PROVE  /\ row'[t].last = row[t].last /\ row'[t].ttl = row[t].ttl
         /\ row'[t].status \in {"absent", "pending"} => row[t].status = row'[t].status
         /\ \/ row'[t].at = row[t].at
            \/ row[t].status = "pending" /\ row'[t].at = clock + Interval
         /\ step' \in {"run", "completed"} => batch' = batch /\ (step' = step \/ Finish)
         /\ step' \in {"expire", "count", "reschedule"} => batch' = batch /\ step' = step
<1>0. t \in Tasks /\ (step # "idle" => Current \in Tasks)
  BY BatchType, SchedulerAssumption
<1>1. CASE Tick \/ Crash \/ Wire \/ Poll \/ Refused \/ Finish
  <2>1. row' = row
    BY <1>1 DEF Tick, Crash, Wire, Poll, Refused, Finish
  <2>2. \/ batch' = batch /\ step' = step
        \/ step' \in {"idle", "pick"}
        \/ Finish /\ batch' = batch /\ step' = "completed"
    BY <1>1 DEF Tick, Crash, Wire, Poll, Refused, Finish, NextInBatch
  <2>3. QED
    BY <2>1, <2>2
<1>2. CASE CheckMissed
  <2>1. batch' = batch /\ step' = step
    BY <1>2 DEF CheckMissed
  <2>2. /\ row'[t].ttl = row[t].ttl /\ row'[t].last = row[t].last
        /\ \/ row'[t] = row[t]
           \/ row[t].status = "pending" /\ row'[t].status = "pending"
              /\ row'[t].at = clock + Interval
    BY <1>0, <1>2, MissedRows
  <2>3. QED
    BY <2>1, <2>2
<1>3. CASE Pick
  <2>1. RowBecomes(Current, "running", row[Current].at, row[Current].last,
                   row[Current].ttl)
    BY <1>3, PickRow
  <2>2. step' \in {"lock", "idle", "pick"}
    BY <1>3 DEF Pick, NextInBatch
  <2>3. QED
    BY <1>0, <2>1, <2>2 DEF RowBecomes
<1>4. CASE Expire
  <2>1. RowBecomes(Current, "done", row[Current].at, row[Current].last,
                   row[Current].ttl)
    BY <1>4, ExpireRow
  <2>2. step' \in {"idle", "pick"}
    BY <1>4 DEF Expire, NextInBatch
  <2>3. QED
    BY <1>0, <2>1, <2>2 DEF RowBecomes
<1>5. CASE \E u \in Tasks : Create(u)
  <2>1. PICK u \in Tasks : Create(u)
    BY <1>5
  <2>2. batch' = batch /\ step' = step /\ row[u].status = "absent"
    BY <2>1 DEF Create
  <2>3. \A v \in Tasks \ {u} : row'[v] = row[v]
    BY <2>1, CreateRow DEF RowBecomes
  <2>4. u # t
    BY <2>1
  <2>5. QED
    BY <1>0, <2>2, <2>3, <2>4
<1>6. CASE \E u \in Tasks : Cancel(u)
  <2>1. PICK u \in Tasks : Cancel(u)
    BY <1>6
  <2>2. batch' = batch /\ step' = step
    BY <2>1 DEF Cancel
  <2>3. RowBecomes(u, "failed", row[u].at, row[u].last, row[u].ttl)
    BY <2>1, CancelRow
  <2>4. QED
    BY <1>0, <2>2, <2>3 DEF RowBecomes
<1>7. QED
  BY <1>1, <1>2, <1>3, <1>4, <1>5, <1>6 DEF Next, Loop

\* The part of BudgetInv that concerns t.
Budget(t) ==
  /\ runs[t] <= TtlRuns[t]
  /\ row[t].status = "absent" => runs[t] = 0
  /\ row[t].status = "pending" \/ Queued(t) \/ At({"reschedule"}, t) =>
       row[t].ttl + runs[t] = TtlRuns[t] /\ row[t].ttl >= 1
  /\ At({"run", "completed", "count"}, t) =>
       row[t].ttl + runs[t] = TtlRuns[t] + 1 /\ row[t].ttl >= 1

LEMMA BudgetStep ==
  ASSUME TypeOK, BatchInv, StepInv, TtlInv, BudgetInv, Next
  PROVE  BudgetInv'
<1>1. SUFFICES ASSUME NEW t \in Recurring, TtlRuns[t] # 0 PROVE Budget(t)'
  BY DEF BudgetInv, Budget
<1>2. /\ Budget(t) /\ t \in Tasks /\ row[t].ttl \in Nat /\ runs[t] \in Nat
      /\ TtlRuns[t] \in Nat /\ TtlRuns[t] < MaxRuns /\ MaxRuns \in Nat
      /\ Current = Task(1) /\ CurrentTtl = Ttl(1)
      /\ step # "idle" => Current \in Tasks
      /\ step \notin {"idle", "reschedule"} => CurrentTtl = row[Current].ttl
  <2>1. t \in Tasks /\ TtlRuns[t] \in Nat /\ TtlRuns[t] < MaxRuns /\ MaxRuns \in Nat
    BY SchedulerAssumption
  <2>2. row[t].ttl \in Nat /\ runs[t] \in Nat
    BY <2>1, RowType DEF TypeOK
  <2>3. Budget(t)
    BY <1>1 DEF BudgetInv, Budget
  <2>4. /\ Current = Task(1) /\ CurrentTtl = Ttl(1)
        /\ step # "idle" => Current \in Tasks /\ 1 \in DOMAIN batch
    BY BatchType
  <2>5. QED
    BY <2>1, <2>2, <2>3, <2>4 DEF TtlInv
<1>3. Queued(t)' => Queued(t) \/ row[t].status = "pending"
  BY <1>2, QueueStep
<1>4. CASE Start
  <2>1. /\ row' = row /\ batch' = batch /\ step = "lock" /\ step' = "run"
        /\ ~Poll /\ step \in {"pick", "lock"} /\ step # "idle"
    BY <1>4 DEF Start, Poll
  <2>2. Queued(Current) /\ (Queued(t)' => Queued(t) /\ t # Current)
    BY <1>2, <1>4, <2>1, QueueStep
  <2>3. runs'[t] = IF t # Current THEN runs[t]
                   ELSE IF runs[t] < MaxRuns THEN runs[t] + 1 ELSE runs[t]
    BY <1>2, <1>4, RunsStep
  <2>4. CASE t = Current
    <3>1. row[t].ttl + runs[t] = TtlRuns[t] /\ row[t].ttl >= 1
      BY <1>2, <2>2, <2>4 DEF Budget
    <3>2. runs'[t] = runs[t] + 1
      BY <1>2, <2>3, <2>4, <3>1
    <3>3. row[t].status = "running"
      BY <1>2, <2>1, <2>4 DEF StepInv
    <3>4. QED
      BY <1>2, <2>1, <2>2, <2>4, <3>1, <3>2, <3>3 DEF Budget, At, Task
  <2>5. CASE t # Current
    BY <1>2, <2>1, <2>2, <2>3, <2>5 DEF Budget, At, Task
  <2>6. QED
    BY <2>4, <2>5
<1>5. CASE StoreResult
  <2>1. runs' = runs /\ step = "completed"
    BY <1>5, RunsStep DEF StoreResult, Start
  <2>2. RowBecomes(Current, IF ok THEN "done" ELSE "failed", row[Current].at,
                   IF ok THEN clock ELSE row[Current].last, row[Current].ttl)
    BY <1>5, StoreRow
  <2>3. CASE t = Current
    <3>1. row'[t].status \in {"done", "failed"} /\ row'[t].ttl = row[t].ttl
      BY <2>2, <2>3 DEF RowBecomes
    <3>2. row[t].ttl + runs[t] = TtlRuns[t] + 1 /\ row[t].ttl >= 1
      BY <1>2, <2>1, <2>3 DEF Budget, At
    <3>3. batch' = batch /\ step' \in {"expire", "count"}
      <4>1. CurrentTtl = 1 \/ CurrentTtl > 1
        BY <1>2, <2>1, <2>3, <3>2
      <4>2. QED
        BY <1>1, <1>2, <1>5, <2>3, <4>1 DEF StoreResult
    <3>4. ~Queued(t)'
      <4>1. 1 \in DOMAIN batch /\ Task(1) = t
        BY <1>2, <2>1, <2>3, BatchType
      <4>2. \A i \in DOMAIN batch : i > 1 => Task(i) # t
        BY <4>1 DEF BatchInv
      <4>3. QED
        BY <3>3, <4>2 DEF Queued, Awaits, Task
    <3>5. QED
      BY <1>2, <2>1, <3>1, <3>2, <3>3, <3>4 DEF Budget, At
  <2>4. CASE t # Current
    <3>1. row'[t] = row[t]
      BY <1>2, <2>2, <2>4 DEF RowBecomes
    <3>2. batch' = batch \/ step' \in {"idle", "pick"}
      BY <1>5 DEF StoreResult, NextInBatch
    <3>3. ~At({"run", "completed", "count", "reschedule"}, t)'
      BY <1>2, <2>1, <2>4, <3>2 DEF At, Task
    <3>4. QED
      BY <1>2, <1>3, <2>1, <3>1, <3>3 DEF Budget, At
  <2>5. QED
    BY <2>3, <2>4
<1>6. CASE CountDown
  <2>1. /\ runs' = runs /\ batch' = batch /\ step = "count" /\ step' = "reschedule"
    BY <1>6, RunsStep DEF CountDown, Start
  <2>2. RowBecomes(Current, row[Current].status, row[Current].at, row[Current].last,
                   CurrentTtl - 1)
    BY <1>6, CountDownRow
  <2>3. CASE t = Current
    <3>1. row'[t].ttl = row[t].ttl - 1 /\ row'[t].status = row[t].status /\ row[t].ttl > 1
      BY <1>2, <2>1, <2>2, <2>3 DEF RowBecomes, StepInv
    <3>2. row[t].ttl + runs[t] = TtlRuns[t] + 1
      BY <1>2, <2>1, <2>3 DEF Budget, At
    <3>3. QED
      BY <1>2, <2>1, <3>1, <3>2 DEF Budget, At
  <2>4. CASE t # Current
    <3>1. row'[t] = row[t]
      BY <1>2, <2>2, <2>4 DEF RowBecomes
    <3>2. QED
      BY <1>2, <1>3, <2>1, <2>4, <3>1 DEF Budget, At, Task
  <2>5. QED
    BY <2>3, <2>4
<1>7. CASE Reschedule
  <2>1. runs' = runs /\ step = "reschedule" /\ step' \in {"idle", "pick"}
    BY <1>7, RunsStep DEF Reschedule, Start, NextInBatch
  <2>2. RowBecomes(Current, "pending", Anchor(Current) + Interval, row[Current].last,
                   row[Current].ttl)
    BY <1>7, RescheduleRow
  <2>3. CASE t = Current
    <3>1. row'[t].ttl = row[t].ttl /\ row'[t].status = "pending"
      BY <2>2, <2>3 DEF RowBecomes
    <3>2. row[t].ttl + runs[t] = TtlRuns[t] /\ row[t].ttl >= 1
      BY <1>2, <2>1, <2>3 DEF Budget, At
    <3>3. QED
      BY <1>2, <2>1, <3>1, <3>2 DEF Budget, At
  <2>4. CASE t # Current
    <3>1. row'[t] = row[t]
      BY <1>2, <2>2, <2>4 DEF RowBecomes
    <3>2. QED
      BY <1>2, <1>3, <2>1, <3>1 DEF Budget, At
  <2>5. QED
    BY <2>3, <2>4
<1>8. CASE ~Start /\ ~StoreResult /\ ~CountDown /\ ~Reschedule
  <2>1. runs' = runs
    BY <1>8, RunsStep
  <2>2. CASE Create(t)
    <3>1. batch' = batch /\ step' = step /\ row[t].status = "absent"
      BY <2>2 DEF Create
    <3>2. row'[t].status = "pending" /\ row'[t].ttl = TtlRuns[t]
      BY <1>2, <2>2, CreateRow DEF RowBecomes
    <3>3. ~At({"run", "completed", "count"}, t)
      BY <1>2, <3>1 DEF At, StepInv
    <3>4. runs[t] = 0
      BY <1>2, <3>1 DEF Budget
    <3>5. QED
      BY <1>1, <1>2, <2>1, <3>1, <3>2, <3>3, <3>4 DEF Budget, At, Task
  <2>3. CASE ~Create(t)
    <3>1. /\ row'[t].ttl = row[t].ttl
          /\ row'[t].status \in {"absent", "pending"} => row[t].status = row'[t].status
          /\ step' \in {"run", "completed"} => batch' = batch /\ (step' = step \/ Finish)
          /\ step' \in {"expire", "count", "reschedule"} => batch' = batch /\ step' = step
      BY <1>8, <2>3, QuietRows
    <3>2. Finish => step = "run"
      BY DEF Finish
    <3>3. At({"run", "completed", "count"}, t)' => At({"run", "completed", "count"}, t)
      BY <3>1, <3>2 DEF At, Task
    <3>4. At({"reschedule"}, t)' => At({"reschedule"}, t)
      BY <3>1 DEF At, Task
    <3>5. QED
      BY <1>2, <1>3, <2>1, <3>1, <3>3, <3>4 DEF Budget
  <2>4. QED
    BY <2>2, <2>3
<1>9. QED
  BY <1>4, <1>5, <1>6, <1>7, <1>8

\* The part of SpaceInv that concerns t.
Space(t) ==
  /\ lastStart[t] <= clock
  /\ row[t].status = "absent" => lastStart[t] = 0
  /\ (row[t].status = "pending" \/ Queued(t)) /\ lastStart[t] # 0 =>
       row[t].at >= lastStart[t] + Interval
  /\ At({"completed"}, t) /\ ~ok => lastStart[t] = 0
  /\ At({"expire", "count", "reschedule"}, t) /\ lastStart[t] # 0 =>
       row[t].last >= lastStart[t]

LEMMA SpaceStep ==
  ASSUME TypeOK, BatchInv, StepInv, SpaceInv, Next
  PROVE  SpaceInv'
<1>1. SUFFICES ASSUME NEW t \in Recurring PROVE Space(t)'
  BY DEF SpaceInv, Space
<1>2. /\ Space(t) /\ t \in Tasks
      /\ row[t].at \in Nat /\ row[t].last \in Nat /\ lastStart[t] \in Nat
      /\ clock \in Nat /\ clock >= 1 /\ Interval \in Nat
      /\ Current = Task(1)
      /\ step # "idle" => Current \in Tasks /\ 1 \in DOMAIN batch
  <2>1. /\ t \in Tasks /\ MaxTime \in Nat /\ Interval \in Nat
    BY SchedulerAssumption
  <2>2. row[t].at \in Nat /\ row[t].last \in Nat
    BY <2>1, RowType
  <2>3. lastStart[t] \in Nat /\ clock \in Nat /\ clock >= 1
    BY <2>1 DEF TypeOK
  <2>4. Space(t)
    BY <1>1 DEF SpaceInv, Space
  <2>5. QED
    BY <2>1, <2>2, <2>3, <2>4, BatchType
<1>3. /\ Queued(t)' => Queued(t) \/ row[t].status = "pending"
      /\ step # "idle" /\ (Start \/ NextInBatch) => (Queued(t)' => t # Current)
  BY <1>2, QueueStep
<1>4. CASE Start
  <2>1. /\ row' = row /\ batch' = batch /\ clock' = clock /\ step = "lock"
        /\ step' = "run" /\ lastStart' = [lastStart EXCEPT ![Current] = clock]
    BY <1>4 DEF Start
  <2>2. CASE t = Current
    <3>1. lastStart'[t] = clock
      BY <1>2, <2>1, <2>2 DEF TypeOK
    <3>2. row[t].status = "running" /\ ~Queued(t)'
      BY <1>2, <1>3, <1>4, <2>1, <2>2 DEF StepInv
    <3>3. QED
      BY <1>2, <2>1, <3>1, <3>2 DEF Space, At
  <2>3. CASE t # Current
    <3>1. lastStart'[t] = lastStart[t]
      BY <1>2, <2>1, <2>3 DEF TypeOK
    <3>2. QED
      BY <1>2, <1>3, <2>1, <3>1 DEF Space, At
  <2>4. QED
    BY <2>2, <2>3
<1>5. CASE Finish
  <2>1. /\ row' = row /\ batch' = batch /\ clock' = clock /\ step = "run"
        /\ step' = "completed" /\ ok' \in BOOLEAN
        /\ lastStart' = [lastStart EXCEPT ![Current] = IF ok' THEN @ ELSE 0]
    BY <1>5 DEF Finish
  <2>2. /\ lastStart'[t] = lastStart[t] \/ lastStart'[t] = 0
        /\ t = Current /\ ~ok' => lastStart'[t] = 0
    BY <1>2, <2>1 DEF TypeOK
  <2>3. QED
    BY <1>2, <1>3, <2>1, <2>2 DEF Space, At, Task
<1>6. lastStart' = lastStart \/ Start \/ Finish
  BY DEF Next, Loop, Tick, Crash, CheckMissed, Wire, Create, Cancel, Poll, Pick,
     Refused, StoreResult, Expire, CountDown, Reschedule, history
<1>7. CASE StoreResult
  <2>1. step = "completed" /\ clock' = clock /\ ok \in BOOLEAN /\ lastStart' = lastStart
    BY <1>7 DEF StoreResult, TypeOK, history
  <2>2. RowBecomes(Current, IF ok THEN "done" ELSE "failed", row[Current].at,
                   IF ok THEN clock ELSE row[Current].last, row[Current].ttl)
    BY <1>7, StoreRow
  <2>3. (batch' = batch \/ step' \in {"idle", "pick"}) /\ step' # "completed"
    <3>1. CASE Current \notin Recurring
      BY <1>7, <3>1 DEF StoreResult, NextInBatch
    <3>2. CASE Current \in Recurring
      <4>1. CurrentTtl = 0 \/ CurrentTtl = 1 \/ CurrentTtl > 1
        BY <1>7, BatchType DEF StoreResult
      <4>2. QED
        BY <1>7, <3>2, <4>1 DEF StoreResult
    <3>3. QED
      BY <3>1, <3>2
  <2>4. CASE t = Current
    <3>1. row'[t].status \in {"done", "failed"}
      BY <2>2, <2>4 DEF RowBecomes
    <3>2. lastStart[t] # 0 => row'[t].last >= lastStart[t]
      <4>1. CASE ok
        BY <1>2, <2>2, <2>4, <4>1 DEF RowBecomes, Space
      <4>2. CASE ~ok
        BY <1>2, <2>1, <2>4, <4>2 DEF Space, At
      <4>3. QED
        BY <4>1, <4>2
    <3>3. row'[t].at = row[t].at
      BY <2>2, <2>4 DEF RowBecomes
    <3>4. QED
      BY <1>2, <1>3, <2>1, <2>3, <3>1, <3>2, <3>3 DEF Space, At
  <2>5. CASE t # Current
    <3>1. row'[t] = row[t]
      BY <1>2, <2>2, <2>5 DEF RowBecomes
    <3>2. ~At({"completed", "expire", "count", "reschedule"}, t)'
      BY <1>2, <2>1, <2>3, <2>5 DEF At, Task
    <3>3. QED
      BY <1>2, <1>3, <2>1, <3>1, <3>2 DEF Space, At
  <2>6. QED
    BY <2>4, <2>5
<1>8. CASE CountDown
  <2>1. /\ step = "count" /\ step' = "reschedule" /\ batch' = batch /\ clock' = clock
        /\ lastStart' = lastStart
    BY <1>8 DEF CountDown, history
  <2>2. RowBecomes(Current, row[Current].status, row[Current].at, row[Current].last,
                   CurrentTtl - 1)
    BY <1>8, CountDownRow
  <2>3. /\ row'[t].at = row[t].at /\ row'[t].last = row[t].last
        /\ row'[t].status = row[t].status
    BY <1>2, <2>2 DEF RowBecomes
  <2>4. QED
    BY <1>2, <1>3, <2>1, <2>3 DEF Space, At, Task
<1>9. CASE Reschedule
  <2>1. /\ step = "reschedule" /\ step' \in {"idle", "pick"} /\ clock' = clock
        /\ lastStart' = lastStart
    BY <1>9 DEF Reschedule, NextInBatch, history
  <2>2. RowBecomes(Current, "pending", Anchor(Current) + Interval, row[Current].last,
                   row[Current].ttl)
    BY <1>9, RescheduleRow
  <2>3. CASE t = Current
    <3>1. row'[t].status = "pending" /\ row'[t].at = Anchor(t) + Interval
      BY <2>2, <2>3 DEF RowBecomes
    <3>2. lastStart[t] # 0 => row'[t].at >= lastStart[t] + Interval
      <4>1. lastStart[t] # 0 => row[t].last >= lastStart[t]
        BY <1>2, <2>1, <2>3 DEF Space, At
      <4>2. QED
        BY <1>2, <3>1, <4>1 DEF Anchor
    <3>3. QED
      BY <1>2, <2>1, <3>1, <3>2 DEF Space, At
  <2>4. CASE t # Current
    <3>1. row'[t] = row[t]
      BY <1>2, <2>2, <2>4 DEF RowBecomes
    <3>2. QED
      BY <1>2, <1>3, <2>1, <3>1 DEF Space, At
  <2>5. QED
    BY <2>3, <2>4
<1>10. CASE ~Start /\ ~Finish /\ ~StoreResult /\ ~CountDown /\ ~Reschedule
  <2>1. lastStart' = lastStart
    BY <1>6, <1>10
  <2>2. clock' \in Nat /\ clock <= clock'
    <3>1. clock' = clock \/ clock' = clock + 1
      BY <1>10 DEF Next, Loop, Tick, Crash, CheckMissed, Wire, Create, Cancel, Poll,
         Pick, Refused, Expire
    <3>2. QED
      BY <1>2, <3>1
  <2>3. CASE Create(t)
    <3>1. /\ batch' = batch /\ step' = step /\ row[t].status = "absent"
          /\ clock' = clock /\ ok' = ok
      BY <2>3 DEF Create
    <3>2. lastStart[t] = 0
      BY <1>2, <3>1 DEF Space
    <3>3. QED
      BY <1>2, <2>1, <2>2, <3>2 DEF Space
  <2>4. CASE ~Create(t)
    <3>1. /\ row'[t].last = row[t].last
          /\ row'[t].status \in {"absent", "pending"} => row[t].status = row'[t].status
          /\ \/ row'[t].at = row[t].at
             \/ row[t].status = "pending" /\ row'[t].at = clock + Interval
          /\ step' \in {"run", "completed"} => batch' = batch /\ (step' = step \/ Finish)
          /\ step' \in {"expire", "count", "reschedule"} => batch' = batch /\ step' = step
      BY <1>10, <2>4, QuietRows
    <3>2. ok' = ok \/ step' = "idle"
      BY <1>10 DEF Next, Loop, Tick, Crash, CheckMissed, Wire, Create, Cancel, Poll,
         Pick, Refused, Expire
    <3>3. At({"completed"}, t)' /\ ~ok' => At({"completed"}, t) /\ ~ok
      BY <1>10, <3>1, <3>2 DEF At, Task
    <3>4. At({"expire", "count", "reschedule"}, t)' => At({"expire", "count", "reschedule"}, t)
      BY <3>1 DEF At, Task
    <3>5. QED
      BY <1>2, <1>3, <2>1, <2>2, <3>1, <3>3, <3>4 DEF Space
  <2>5. QED
    BY <2>3, <2>4
<1>11. QED
  BY <1>4, <1>5, <1>7, <1>8, <1>9, <1>10

-----------------------------------------------------------------------------
(* Theorems. *)

LEMMA SchedInvInit == Init => SchedInv
<1>. SUFFICES ASSUME Init PROVE SchedInv
  OBVIOUS
<1>1. TypeOK
  BY TypeInit
<1>2. /\ batch = <<>> /\ step = "idle" /\ phase = "up" /\ clock = 1
      /\ \A t \in Tasks : row[t].status = "absent" /\ runs[t] = 0 /\ lastStart[t] = 0
      /\ Recurring \subseteq Tasks
  BY SchedulerAssumption DEF Init
<1>3. BatchInv /\ StepInv /\ TtlInv
  BY <1>2 DEF BatchInv, StepInv, TtlInv
<1>4. \A t : ~Queued(t)
  BY <1>2 DEF Queued
<1>5. OneShotInv
  BY <1>2, <1>4 DEF OneShotInv
<1>6. BudgetInv
  BY <1>2, <1>4, SchedulerAssumption DEF BudgetInv, At
<1>7. RunningIsLive
  BY <1>2 DEF RunningIsLive
<1>8. SpaceInv
  BY <1>2, <1>4 DEF SpaceInv, At
<1>9. QED
  BY <1>1, <1>3, <1>5, <1>6, <1>7, <1>8 DEF SchedInv

LEMMA SchedInvStep == SchedInv /\ [Next]_vars => SchedInv'
<1>. SUFFICES ASSUME SchedInv, [Next]_vars PROVE SchedInv'
  OBVIOUS
<1>1. CASE Next
  BY <1>1, TypeStep, EntriesStep, OneShotStep, BudgetStep, RunningStep, SpaceStep
     DEF SchedInv
<1>2. CASE UNCHANGED vars
  <2>1. /\ UNCHANGED <<phase, clock, row, batch, step, ok, crashes>>
        /\ UNCHANGED <<runs, lastStart, orphans, cancelled>>
    BY <1>2 DEF vars, history
  <2>2. TypeOK' /\ BatchInv' /\ StepInv' /\ TtlInv'
    BY <2>1 DEF SchedInv, TypeOK, BatchInv, StepInv, TtlInv, Task, Ttl
  <2>3. RunningIsLive'
    BY <2>1 DEF SchedInv, RunningIsLive, Current
  <2>4. \A t : Queued(t)' <=> Queued(t)
    BY <2>1 DEF Queued, Awaits, Task
  <2>5. OneShotInv'
    BY <2>1, <2>4 DEF SchedInv, OneShotInv
  <2>6. BudgetInv'
    BY <2>1, <2>4 DEF SchedInv, BudgetInv, At, Task
  <2>7. SpaceInv'
    BY <2>1, <2>4 DEF SchedInv, SpaceInv, At, Task
  <2>8. QED
    BY <2>2, <2>3, <2>5, <2>6, <2>7 DEF SchedInv
<1>3. QED
  BY <1>1, <1>2

\* The inductive invariant: at every step of the poll loop the rows, the batch
\* read from them and the histories agree.
THEOREM SchedulerInvariant == Spec => []SchedInv
  BY SchedInvInit, SchedInvStep, PTL DEF Spec

\* Every variable stays in its type; in particular the time of a rescheduled
\* row stays in its range, because no task is started before its time.
THEOREM SchedulerTypes == Spec => []TypeOK
<1>1. SchedInv => TypeOK
  BY DEF SchedInv
<1>2. QED
  BY <1>1, SchedulerInvariant, PTL

\* A one-shot runs at most once, through crashes, restarts, cancellations and
\* refusals of the AI lock.
THEOREM OneShotsRunOnce == Spec => []OneShotRunsOnce
<1>1. SchedInv => OneShotRunsOnce
  BY DEF SchedInv, OneShotInv, OneShotRunsOnce
<1>2. QED
  BY <1>1, SchedulerInvariant, PTL

\* A recurring task with a budget of N runs never runs more than N times.
THEOREM BudgetIsKept == Spec => []TtlBoundsRuns
<1>1. SchedInv => TtlBoundsRuns
  BY DEF SchedInv, BudgetInv, TtlBoundsRuns
<1>2. QED
  BY <1>1, SchedulerInvariant, PTL

\* While a task waits for its next run, no run of its budget has been lost.
THEOREM BudgetIsExact == Spec => []TtlIsExact
<1>1. SchedInv => TtlIsExact
  BY DEF SchedInv, BudgetInv, TtlIsExact
<1>2. QED
  BY <1>1, SchedulerInvariant, PTL

\* A row that says running is that of the task in hand, or was left behind.
THEOREM RunningRowsAreLive == Spec => []RunningIsLive
<1>1. SchedInv => RunningIsLive
  BY DEF SchedInv
<1>2. QED
  BY <1>1, SchedulerInvariant, PTL

\* A whole recurrence lies between a start that did not fail and the next one.
THEOREM StartsKeepDistance == Spec => StartsAreSpaced
<1>1. ASSUME SchedInv, [Next]_vars, NEW t \in Recurring,
             step = "lock", step' = "run", Current = t, lastStart[t] # 0
      PROVE  clock >= lastStart[t] + Interval
  <2>1. t \in Tasks /\ 1 \in DOMAIN batch /\ Task(1) = t
    BY <1>1, BatchType, SchedulerAssumption DEF SchedInv
  <2>2. Queued(t)
    BY <1>1, <2>1 DEF Queued, Awaits
  <2>3. row[t].at <= clock /\ row[t].at >= lastStart[t] + Interval
    BY <1>1, <2>1, <2>2 DEF SchedInv, BatchInv, SpaceInv
  <2>4. row[t].at \in Nat /\ clock \in Nat /\ lastStart[t] \in Nat /\ Interval \in Nat
    BY <1>1, <2>1, RowType, SchedulerAssumption, SMTT(20) DEF SchedInv, TypeOK
  <2>5. QED
    BY <2>3, <2>4
<1>2. SchedInv /\ [Next]_vars =>
        [\A t \in Recurring :
           step = "lock" /\ step' = "run" /\ Current = t /\ lastStart[t] # 0
             => clock >= lastStart[t] + Interval]_vars
  BY <1>1
<1>3. QED
  BY <1>2, SchedulerInvariant, PTL DEF Spec, StartsAreSpaced
=============================================================================
