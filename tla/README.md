# Nami AI in TLA+

A verification development for Nami AI, a personal assistant runtime: a Python
server (one asyncio process), Node bridges to Discord and WhatsApp, and SQLite
files that survive restarts. The specifications model the program's own control
logic; TLC checks them on small instances, TLAPS proves what matters most for
all instances. Paths below are relative to the repository; `lib/` and
`OllamaTools/` are under `src/`.

## 1. The system and its parts

Everything in the server runs on one event loop: code between two `await`s is
atomic, and every `await` is a point where other handlers run. The components
talk through an event bus (`lib/services/event_bus.py`), whose `publish` runs the
subscribers of the moment concurrently and waits for all of them, through the
global registry, and through the bridges' WebSockets.

| Part | State | Operations | What makes it correct |
|---|---|---|---|
| AI lock (`lib/utils/ai_lock.py`) | an `asyncio.Lock` (flag, queue of futures), time of last activity | `acquire_ai_lock`, `bump_activity`, release by the caller | one thing at a time; no lost wake-up; patience with live holders only; no endless wait |
| Pipeline handler (`ai_pipeline_handler.py`) | none but the lock | `message.received`, `task.due` | every message is answered, every task completed, the lock released on every path |
| AI pipeline, context builder, tool executor (`ai_pipeline.py`, `context_builder.py`, `tool_executor.py`) | the loop of one run: round, calls, errors; queues of notices | build the context, ask with retries, safe tools in parallel, unsafe ones in order, escalate, store | every call is answered in its place, limits end every run, a notice is told once |
| Adapter WebSocket server (`adapter_ws_server.py`) | connections, action futures, REST futures | receive, query, recover, response, typing, invoke, push | answers and results reach the request they belong to |
| REST API (`api_server.py`) | one future per conversation | chat completions with a timeout | a request gets its own answer |
| Message state cache (`message_state_cache.py`) | one SQLite row per conversation | put, processing, done, error, get, requeue, expiry | rows tell the truth, answers survive a lost link, lost messages run again |
| Discord bridge (`adapters/discord_bridge/index.js`) | per-conversation queues, pending entries with phases and timers, the socket | register, send, lifecycle events, timeouts, reconnect, actions | each request ends, with its own answer |
| WhatsApp bridge (`adapters/whatsapp_bridge`) | the same with one timeout, and a pruned history | the same | the same |
| Task scheduler (`task_scheduler.py`, `OllamaTools/schedule_task.py`) | one SQLite row per task, the batch in hand | create, cancel, poll, complete, reschedule, missed at startup | one-shots at most once, budgets exact, distances kept, cancellation final |
| Startup (`app_initializer.py`) | the order of construction | `initialize`, `cleanup` | subscribers exist before what they must hear |
| Notifications | pending silent results | deliver, drain | each result told once |
| Heartbeat, curiosity, dream, research queue | idle times, gates, active task, the table `research_queue` | tick, plan, research, fail, retry, dream | claims are held, no lost topic, no dream beside research |
| Memory services | a graph database | extract, consolidate, merge, delete, groom | knowledge is not lost by merging |
| Self-modification sessions (`session_manager.py`, `nami_*` tools) | marker, git tag, working tree, cache of edited files | begin, edit, verify, abort, recovery, cached files | a crash never leaves unverified edits of tracked files without a marker |
| MCP client (`mcp_client.py`) | processes, sessions, monitors | connect, call, monitor, reload, disconnect | a call gets its own response, dead servers leave |
| Sandbox (`sandbox_manager.py`) | the registry of jobs | run, wait, kill, reset, report | no job is lost, each end is told |
| Model cache, providers, vision, configuration, health probes | | | section 6 |

What is hard here: the hand-over of the lock against timeouts; the life of a
message over two processes of which either may fail; state keyed by conversation
while several messages of a conversation are alive; rows read before an await
and used after it; events published before anybody subscribes; timers armed
after an await; crashes between two writes. `PROJECT.json` lists each place under
"hazards", with the properties that watch it.

## 2. The modules

| Module | Models | Used by |
|---|---|---|
| `ExclusiveTurn` | the promise of the AI lock: ask, then be given the turn alone, or be refused | abstract specification; instantiated by the next two |
| `AiLock` | `acquire_ai_lock` over `asyncio.Lock`, its callers, the passing of time | `MCAiLock`, `AiLockProofs` |
| `MessageLifecycle` | bridge, WebSocket server, cache and message handler together, with the lock as `ExclusiveTurn` | `MCMessageLifecycle`, `LifecycleProofs` |
| `TaskScheduler` | scheduler, task handler, startup and restarts | `MCTaskScheduler`, `TaskSchedulerProofs` |
| `ConversationReplies` | the promise of replies per conversation: each to at most one request, which waits for it | abstract specification; instantiated by `WhatsAppBridge` and `RestApi` |
| `SelfModSession` | sessions step by step, crash recovery | `MCServices`, `ToolProofs` |
| `PipelineRun` | runs of the pipeline with the tool loop and the notices | `MCServices`, `PipelineProofs` |
| `DiscordBridge` | the requests of one conversation with all timers and awaits of their entries | `MCServices`, `BridgeProofs` |
| `WhatsAppBridge` | the queues, entries and histories of the chats | `MCServices`, `BridgeProofs` |
| `RestApi` | requests, futures and the pipeline's handler | `MCServices`, `BridgeProofs` |
| `AdapterCalls` | connections of a bridge, actions, pushes | `MCServices`, `BridgeProofs` |
| `McpClient` | connections, monitors and calls of an MCP server | `MCServices`, `ToolProofs` |
| `SandboxJobs` | jobs and their reports | `MCServices`, `ToolProofs` |
| `IdleWork` | heartbeat ticks, research queue, curiosity and dreams | `MCServices`, `IdleProofs` |
| `MemoryGraph` | extraction, consolidation and agents on one graph | `MCMemoryGraph`, `MCServices`, `IdleProofs` |
| `MCServices` | the ten modules from `SelfModSession` on, side by side | `ServicesProofs` |
| `AiLockProofs`, `TaskSchedulerProofs`, `LifecycleProofs`, `PipelineProofs`, `BridgeProofs`, `ToolProofs`, `IdleProofs`, `ServicesProofs` | the theorems | |

The composition is by refinement: `AiLock` implements `ExclusiveTurn`
(`GivesExclusiveTurns`, checked and proved), and `MessageLifecycle` uses
`ExclusiveTurn` in place of the lock, so that its states hold no queue and no
clock. `IdleWork`, `RestApi` and `DiscordBridge` use no more of the lock than what
`ExclusiveTurn` promises: one run at a time, or a refusal. `RestApi` and
`WhatsAppBridge` implement `ConversationReplies`, one on either side of the server
(`GivesReplies`, checked and proved). The ten modules in
`MCServices` share no variables with one another, so
there they are not interleaved: each behaviour is one of a single component, which
the constant `Parts` lists.

Operators with a comment that begins with "Mutant:" are variants of the
operator below them, with a plausible bug; no specification uses them. Each
property is shown to fail when such a variant takes the place of the original
(`PROJECT.json`, "mutants").

### AiLock

A job is one call of `acquire_ai_lock` with the work it protects. `locked`,
`waiters` and `woken` are the flag, the deque and the resolved futures of
`asyncio.Lock` (Python 3.12): `release()` clears the flag and resolves the first
future, and the waiter sets the flag when it is resumed (`Resume`). `TimeOut` is
the `wait_for` timeout, also in the moment when the future is already resolved:
`acquire()` is cancelled, leaves the queue, and wakes the next waiter if the
flag is clear; then the code looks at the activity and tries again at the end of
the queue, or gives up. `ToolCall` is `bump_activity()` in the tool executor.
`RunBare` is the fallback of the heartbeat modules when the lock is not yet
registered ("fallback: lock not ready yet"); such a job runs beside whoever holds the
lock. `silence` is a history: how long the present holder has reported nothing.

Time is kept as differences (`timer`, `idle`), so the state is finite without a
clock bound. `Tick` needs an idle event loop (`woken = {}`), which is what an
event loop is: a callback that is ready runs before the loop sleeps.

### MessageLifecycle

| Variable | Code |
|---|---|
| `phase`, `crashes` | how far `AppInitializer` has come; a bound |
| `conn`, `drops` | the socket; a bound |
| `bridge[m]`, `answer[m]`, `outbox` | `entry.phase` of `registerPendingResponse` and its end; what the promise was resolved with; requests inside `sendWsEvent` |
| `inbox` | requests read from the socket, in the order in which the cache's one connection serves them |
| `row[c]`, `leftover` | `message_state`; history: rows last written before the latest crash |
| `untracked`, `unsettled` | history: conversations whose latest message could not be put, or whose row lacks an outcome that could not be written |
| `pc[j]`, `entry[c]`, `turn` | the handler of job `j`; the row `message.recover` has read; the lock |

A job is a message or the recovery of a conversation (`message.recover` publishes
the cached message a second time). Each step ends at an await that matters:
cache write, send, lock, pipeline, outcome write, delivery with release.
`Resolve` resolves whatever request the conversation has pending, as the code
does. `RejectAll` is `rejectAllPendingResponses` on a lost link. `BridgeDies`: a
message that arrives while the socket is closed waits up to 30 s in
`waitForWsReady`, its ack timer rejects after 10 s a promise that nobody awaits
yet, and Node ends the process on the unhandled rejection.
With `CacheMayFail` every operation of the cache may raise, which its callers log and
ignore: a message is then acknowledged and published without a row (`Put`), a row keeps
its state (`StartTyping`, `WriteOutcome`), and an answer is delivered that no row holds;
a read that raises is taken for no row (`CacheReads`). The database file is shared with
the scheduler, whose writes may hold it locked. A commit that raises is modelled as a
statement without effect, though the change stays in the open transaction of the
connection and the next commit may write it after all.
`MayRecover` stands for a run that is silent for 15 minutes, possible when
`bot.pipeline_timeout` is configured above its default of 600 s.

### TaskScheduler

`row[t]` is the row of `scheduled_tasks`. `batch` is the list of rows that
`_fire_overdue` has read, with the `ttl_runs` of that moment, and `step` says
which await of the first of them the poll loop is in: `publish` waits for the
handler, so tasks run one after another. `phase` is `polling` between
`TaskScheduler.start()` and the subscription of the handler. Zero stands for
None in `ttl` and `last`. `Create` and `Cancel` may come at any step: they are
tool calls of other AI runs, or of the task itself.
The histories `runs`, `lastStart`, `orphans` and `cancelled` feed no guard.


### SelfModSession

| Variable | Code |
|---|---|
| `marker`, `repo`, `tree`, `cache` | `.nami_change_session`, git with its tag `nami_safe_point`, the working tree as a version per file, `.nami_session_cache`; all survive a crash |
| `server`, `todo` | whether the process runs, is in `recover_from_crash`, or is down; the steps left of the tool in hand |
| `verified`, `stuck` | history: the tree of the latest PASS; a rollback failed |

A tool runs without an await, so no other tool comes in between, but the process
may die, or the step raise, between any two of its file operations. `BeginSession`,
`EditCode`, `AbortSession`, `VerifyPass` and `VerifyFail` lay out the steps in the
order of the code; `Tag`, `Mark`, `WriteFile` and so on take one each. `SessStart`
is `recover_from_crash`, itself interruptible. Files are versions; each edit writes
a new one. `EditAllowed` is the whitelist, which `ApplyCachedFile` does not ask. `Reset` is
`git reset --hard`: it brings back the `Tracked` files and leaves the others as they are.

### PipelineRun

One run after another: `BuildContext` drains the notices, `Answered` and `AskFails`
are the first request under `with_retry`, `BeginRound` to `CloseRound` the body of
`execute_tool_loop`, `AnsweredAgain` its next request, `StoreAll` what follows.
`Cancelled` is the pipeline's timeout at any await. `RoundSignature` sorts calls by
tool as the code does; `SourceOf` is the key of `tool_results` (the id, else the name);
`context` keeps of each appended message its kind and the call whose result it holds.

### DiscordBridge and WhatsAppBridge

Both are the Node process with its death on an unhandled rejection. In `WhatsAppBridge`
the chats share the process and the socket; `line` is `convQueues`, `waiting` is
`pendingResponses`, `reply` the message whose answer was taken. `DiscordBridge` keeps to
one conversation, since conversations share nothing but the process and its socket,
and follows the entry of `registerPendingResponse` closely: `entryPhase`, the one timer it
names (`timer`), a recovery timer it no longer names (`loose`), and the awaits inside
`onProcessing` and `_onInactivityTimeout` (`awaiting`), after which a timer is armed and
a typing loop stored whatever has become of the entry (`TypingStarted`,
`RecoverAsked`). Closures do not know the map: `GiveUpOn` empties it whoever's entry is
in it by then. `work[m]` is what the server may still send for a message, `rerun`
that a recovery asked for it again. `overtaken` is a history: such an await ended
after its entry had.

### ConversationReplies

The server answers a conversation, not a request: `response.ready` carries only a
`conversation_id`. What a caller may rely on all the same is a small machine: a request
is registered, sent, resolved once with a reply to a request of its own conversation, and
closed; a reply resolves at most one request, and none that has its reply or is closed.
In `RestApi` registering and sending are one step (`Send`), replies are owed while
the pipeline's handler has the request, and `Close` is the `finally` block. In
`WhatsAppBridge` `Register` is `registerPendingResponse`, `Send` the write to the socket,
and a closing of the socket closes all requests that wait, at once, with what was
owed to them. `DiscordBridge` and `MessageLifecycle` do not implement it, because a
recovery makes the server answer a message a second time.

### RestApi and AdapterCalls

`RestApi`: `pending` is `_rest_pending`, one future per conversation; `Post` replaces what
is registered, `LeaveRest` (the `finally` block) removes whatever is. `PublishReturns` is
the moment when the 120 s begin: publishing awaits the pipeline's handler.
`AdapterCalls`: `link` is the connection the bridge uses, `registered` the one the server
writes to, `handlers` those it still reads from; the two ends notice a break at
different times (`BreakLink`, `NoticeClosed`). `futures` is `_action_futures`; `CarryOut` and
`Report` are `executeAction` and its result over whatever link there is by then.

### McpClient and SandboxJobs

`McpClient`: connections of one server name are numbered; `serving` is the entry of
`servers`, `running` the processes alive, `monitored` those with a monitor task, `stdout`
the unread lines of each. `WritesStray` is a line that is no response, which
`_read_message` takes for one. `LoadTools` is a reload, which connects again and leaves
the old process running. `SandboxJobs`: `process` is the command, `caller` its `run_bash` call
behind `asyncio.shield`, `finished` and `notified` the fields of `BackgroundJob`.

### IdleWork and MemoryGraph

`IdleWork`: `topicState`, `retryCount` and `backedOff` are the table `research_queue`,
`curiosity` and `dream` the tasks of the two modules, `turn` the AI lock. `Tick` is a
heartbeat tick with promotion of retries and the daily cap; the agent may start,
complete and fail topics in any order, as its tools allow, and may queue new ones.
`EndResearch` includes the `finally` block that puts claims back, if it can. A statement on
the tables may raise at each place where the code catches it (`Raises`, up to
`MaxDbErrors`): the sessions or the pending topics count as none, nothing is promoted, a
discovery is not counted, claims are not reset, a dream's gate lets it pass. `orphans`
are claims that a crash or such an error has left.

`MemoryGraph`: `about[m]` is the subject of a node, a class of texts that chains of
similarity connect. Consolidation may find any disjoint clusters of nodes of one subject
(`Clusterings`, DBSCAN; the rest is noise) and works on them one by one: `merging` is the
target it has picked and the sources it is about to delete. The agent of a dream or of
grooming rewrites a node to any subject, deletes any node, and merges any two ids in two
steps (`KeepMerged`, `DropMerged`), since its tool checks neither that the node to keep
exists nor that it is not the one to delete. `known` and `overlapped` are histories; what a tool
of the agent removes is taken to be meant and leaves `known`. Memories that say the same thing
share a subject: of two texts in one cluster only that of the target is kept, which the
model does not tell apart.

## 3. The runs

| Run | Shows |
|---|---|
| `AiLockSafety` | `TypeOK`, `OneHolder`, `NoLostWakeup`; `GivesExclusiveTurns` (implements `ExclusiveTurn`); `RefusedOnlyBehindSilence`: the silence that a waiter measures is that of the present holder; `EveryWaitEnds` |
| `LifecycleServer` | `TypeOK`, `ProcessingIsLive`, `StoredBeforeDelivered`, with failing runs and cache operations, a crash, a lost link and every timeout |
| `LifecycleOrderly` | `TrackedUntilAnswered`, `AnswerIsOwn`, `AnsweredOrDropped`, while the link holds; cache operations may fail |
| `LifecycleRestart` | `LostRowsRunAgain` is violated |
| `LifecycleCrossAnswer` | `AnswerIsOwn` is violated after a lost link |
| `SchedulerRuns` | `TypeOK`, `OneShotRunsOnce`, `TtlBoundsRuns`, `TtlIsExact`, `RunningIsLive`, `StartsAreSpaced`, `OneShotsEnd`, with a crash, refusals, failures and cancellations |
| `SchedulerCancelLate` | `CancelledNeverStarts` is violated |
| `SchedulerFailing` | `NextRunIsLater` is violated |
| `Services` | the properties of the ten components in `MCServices`, below |
| `SessionForgets` | `VerifiedEditsSurvive` is violated |
| `MemoryVanishes` | `KnowledgeKept` is violated |
| `SandboxReset` | `ResetStopsJobs` is violated |

`Services` chooses a component of `Parts` at the start of a behaviour (`part`) and lets it
run while the others stay as they are; it has about 220 000 distinct states and takes three
minutes. Per component:

| Component | Properties |
|---|---|
| `SelfModSession` | `NoStrayEdits`: without a marker the tracked files are as committed or as last verified, whichever step a crash or an error has cut off |
| `PipelineRun` | `HistoryIsPaired`: every call is followed by its own result, placeholders hit results only, no guidance is lost; `ToldAtMostOnce`: over retries, failures and cancellations; `RunsMoveOn`: each step ends the run or uses up rounds, stages, attempts or calls; `EveryRunEnds`: by the limits of the loop alone, unless a tool never returns |
| `WhatsAppBridge` | `EntryIsCurrent`: an entry is that of the message in hand, and none outlives it; `EveryMessageIsDone`; `GivesReplies` |
| `DiscordBridge` | `EntryIsWatched`: a waiting request has a timer or an await that will arm one, and is missing from the map only if an await has overtaken it; `EveryMessageIsDone` |
| `RestApi` | `OwnAnswer`: for requests with a conversation to themselves; `GivesReplies`: a future resolves at most one request, of the conversation it was registered for |
| `AdapterCalls` | `ResultIsOwn`: whatever link it comes over and however late; `PushReachesLink` |
| `McpClient` | `ResponseIsOwn` on every connection without a cancelled call or a stray line; `DeadServerLeaves` |
| `IdleWork` | `ClaimsHaveSession`: a claim has a session, or a crash or a failed reset has left it; `RetriesComeBack`: unless a session hangs |
| `MemoryGraph` | `LossNeedsOverlap`: each of consolidation and agent alone leaves a node of every subject that was not removed on purpose |
| `SandboxJobs` | `NoJobLost`: a tracked command ends by itself or by `kill_job`, and each end is told unless the sandbox was reset |
| all | `ServicesTypeOK` |

### Bounds, and why they are enough

- `AiLockSafety`: two foreground and two background jobs give a holder, a job that
  is handed the lock, a job that times out in that moment, and one behind them;
  `CheckInterval = 2 < InactivityLimit = 3` lets a waiter time out before and at the limit.
  `MaxBumps` bounds tool calls, as the tool loop does.
- `Lifecycle*`: two messages of one conversation are the least at which rows,
  entries and answers can be confused; a third in another conversation
  (`LifecycleOrderly`) shows that conversations do not disturb each other; three in
  one conversation (`LifecycleServer`, symmetric in the messages) let a run that got
  its turn late mark the row as its own after a later message was stored, while a
  recovery of either is under way, which `StoredBeforeDelivered` allows for;
  `MaxCrashes` and `MaxDrops` of one let every step be followed by a failure and a
  recovery, and a lost link by a crash; refusals of the lock are left to `LifecycleOrderly`. Deadlock is not checked: all messages may be over.
- `SchedulerRuns`: one one-shot, one task with a budget of two, one without;
  four ticks with an interval of two give time for two regular runs and any number
  of failing ones; runs are counted up to three, one more than the budget. `MaxPending` of
  one makes the limit bite. Deadlock is not checked: the clock stops at `MaxTime`.
- `Services`, deadlock not checked since bounded components run out of work:
  - sessions: two files that may be edited, one of which git tracks, two sessions so
    that one inherits the tree of the other, one edit (`SessionForgets` has two), `MaxSessCrashes` one at any step, in recovery too;
  - pipeline: two calls of a safe tool (the least for results keyed by name) and one
    of an unsafe one; `MaxCalls` 1, `MaxRounds` 2, `Threshold` 2 put every limit within
    reach of the others; two attempts, two runs, a notice that may come at any time;
  - WhatsApp: two messages of a chat and one of another, a history of two so that it
    is pruned, one closing of the socket; Discord: two interchangeable messages of one
    conversation and one closing (`MaxCuts`), the least at which the timer of one request meets
    another's entry;
  - REST: two requests of one conversation and one alone in its own; calls of
    adapters: two actions, one push, two connections, so that an old handler ends
    beside a new link; MCP: two interchangeable calls, two
    connections and one stray line;
  - idle work: two topics, `RetryLimit` 2, `DailyCap` 1, so that a busy queue, the cap and
    the last attempt all keep a retry waiting; one crash and one statement that raises;
    memory: three nodes of two subjects and two labels, clusters of two; sandbox: two
    commands.

### Fairness

- `AiLock`: weak fairness of `Tick`, `Resume` and `TimeOut`, that is, of the event
  loop and its timers. None of `ToolCall` and `Release`: a holder may hang.
- `MessageLifecycle`: weak fairness of each started handler, of reconnecting and of
  booting. The pipeline ends because it runs under `asyncio.wait_for`
  (`pipeline_timeout`). Refusal, missing provider, timeouts and expiry have none.
- `TaskScheduler`: weak fairness of the clock, of the poll loop's next step except the
  return of a run, and of startup. That the step out of `acquire_ai_lock` comes is
  `EveryWaitEnds`. That a run returns is not assumed: unlike that of a message
  (`ai_pipeline_handler.py:127`) the run of a task (line 284) is not under `wait_for`, and a
  tool may hang. `OneShotsEnd` says that a one-shot comes to its end or the loop waits
  for ever for one run.
- `PipelineRun`: weak fairness of the run's next step (`Proceed`) while no tool runs:
  providers have a request timeout. That a tool returns is not assumed, because the executor
  gives tools no time limit and the pipes of an MCP server have none either;
  `EveryRunEnds` excepts a run that waits for tools for ever. None of `Cancelled`, so the
  limits end the run by themselves, and none of the model giving a final text.
- `WhatsAppBridge`, `DiscordBridge`: weak fairness of what timers, the queue and the
  platform's client do for a message (`WaStep`, `PostStep`). None of the server, the socket
  or a restart. A status update re-arms the timer of silence; it cannot do so for ever,
  since updates end with the run, and the run with `pipeline_timeout`.
- `McpClient`: weak fairness of each monitor (`MonitorReacts`).
- `IdleWork`: weak fairness of the tick, of midnight, of backoffs, and of the end of a
  task's wait for the lock, `CuriosityTurn` or `CuriosityRefused`, which `EveryWaitEnds`
  gives. None of the end of a discovery, of a research session, of a dream or of a chat
  turn: their tools may hang. `RetriesComeBack` says that a topic that waits for a retry
  leaves that state, or a session goes on for ever.
- The others have no liveness property and no fairness.

## 4. Where code and documentation disagree

Each has a run whose counterexample TLC prints:

- Lost messages are not requeued: `requeue_lost` (`app_initializer.py:573`) publishes
  before `AIPipelineHandler` subscribes (line 586).
- An answer may go to a later message of its conversation, after a lost link.
- A task cancelled after its row was read starts all the same.
- A recurring task that fails after a success is scheduled for the time that has
  just passed.
- Verified edits of a self-modification session are wiped by the next rollback:
  nothing commits them, so moving the tag to HEAD moves it nowhere.
- Consolidation deletes the sources of a cluster although its target is gone:
  a dream has deleted it as a duplicate, and nothing is left.
- `reset_sandbox` cancels no command, though its texts (`reset_sandbox.py:4`, `15`, `43`)
  say that running jobs are cancelled: they go on, tracked by nobody.

Met while modelling, visible in the models, without a run of their own:

Messages and bridges
- `task.missed` is published (`app_initializer.py:459`) before the notification
  pipeline subscribes (line 493); `CheckMissed` therefore tells nobody.
- The two silent returns of the message handler, lock refused and provider missing,
  leave the request to the bridge's 30 minutes (`dropped` in `MessageLifecycle`).
- Operations of the cache that raise are logged and ignored (`adapter_ws_server.py:267`,
  `365`, `410`, `566`, `684`): a message runs without a row, a row stays `processing` although
  its answer was delivered, and a bridge that asks then is told that nothing is known or
  that the message still runs. A failing `set_processing` leaves the row `queued`.
- After a lost link the next message overwrites the row of one that still runs:
  `TrackedUntilAnswered` holds only while the link does.
- The ack timeout of the Discord bridge, and any rejection while `sendWsEvent` still
  waits for the socket in either bridge (WhatsApp `index.js:490`, `519`), is unhandled and
  ends the process (`BridgeDies`, `DieNow`, `Die`), although `errorReply` (line 726) has a
  text for an unreachable server.
- `onProcessing` (Discord `index.js:474`) stores the typing loop after an await: for an
  entry that has ended meanwhile it goes on for ever, though line 1134 says that
  `_clearAll()` cleans it up. The timer armed behind it asks for a recovery, and
  its own timeout deletes the entry of whatever message waits by then (`overtaken`).
- The REST timeout of 120 s begins only when `publish` has returned, that is, after
  the pipeline has run (`PublishReturns`); two requests of one conversation share one
  future.
- A cancelled `invoke_action` leaves its future behind (`CancelCall`).

Scheduler, lock and idle work
- A task row left `running` by a crash, a refused lock or a poll during startup
  stays so for ever and cannot be cancelled (`orphans` in `TaskScheduler`).
- A heartbeat module that ticks before the lock is registered runs beside a later
  holder (`RunBare`), though `ai_lock` is meant for one thing at a time; the properties of
  the lock are about those who ask for it.
- The run of a task is not under `wait_for`: one that hangs in a tool holds the poll loop,
  and with it every scheduled task, for ever. A research session that hangs blocks all
  others by gate 2 (`curiosity.py:150`), and with them every promotion of a retry.
- "Max research sessions per day" (`config.yml.example:333`) counts only sessions that
  return (`curiosity_research.py:226` is skipped by what line 232 catches), and a
  discovery that finds topics counts twice with the research behind it. Claims put
  back by the `finally` block cost no retry, so no number bounds how often a topic is
  researched.
- The `finally` block "guarantees" (`curiosity_research.py:201`) that no claim is left, but the
  reset it calls swallows its errors (line 193): a claim that stays closes the gate of
  dreams until the next session ends.
- `research_complete_topic` and `research_fail_topic` look at no status; promotion gives
  up topics in whose last failure a retry was promised; a claim that a crash leaves
  keeps dreams away until the next research session ends.

Tools and sessions
- Without ids the results of a round are keyed by the tool's name: the last call of
  a tool answers for all (`SourceOf`). Notices are lost when the run that took them fails.
- `nami_apply_cached_file` bypasses the whitelist; cleaning up session directories looks
  at no marker; a rollback does not reload modules that were hot-reloaded. Edits of files
  that git does not track survive every rollback: `git reset --hard` leaves them alone
  (`NoStrayEdits` is about tracked files).
- MCP: a reload leaves the old process running, out of reach of `disconnect_all`; the
  monitor of a dead process removes whatever server has its name (`mcp_client.py:541`), a live
  new one too; a stdio read has no timeout; response ids are not compared, and any line is
  taken for a response (line 498): a cancelled call, a notification or stray output shifts
  all later calls of the connection.
- A result returned in the foreground of the sandbox is told once more as a notice.
- Two extractions of the same fact may both pass the duplicate check.
- `dream_merge_memories` does not ask whether the two ids differ, and goes on when the node to
  keep does not exist ("No ... found" does not begin with "Error", `dream_tools.py:265`).
  Consolidation keeps only the text of the target, deletes a source that
  `dream_update_memory` has rewritten meanwhile, and clusters by chains of similarity, so
  the texts at the two ends of a cluster may be less alike than the threshold.

## 5. What is proved

### AiLockProofs

For all sets of jobs, all timeouts and bounds, from
`AiLockAssumption` only: `TypeCorrect`, `Exclusion`, `WakeUpsSurvive`,
`QueueIsExact`, `NobodyRefused`, `ImplementsExclusiveTurn`.

The argument: `OneHolder` and `NoLostWakeup` are not inductive. A wake-up survives
only because a resolved future belongs to a job that is in the queue and waits,
and at most one future is resolved at a time and only while the lock is free; the
inductive invariant `LockInv` is the conjunction of these facts with the two
properties and with the exactness of the queue. `LockOrder` proves it by one step
per action; removal from the queue (`RemoveAt`) and its effect on membership and
distinctness are lemmas. `NobodyRefused` (`RefusedOnlyBehindSilence`) adds that the time
measured since the last activity is never more than the silence of the present holder,
because taking the lock reports activity.
The refinement theorem maps `Init` to `Init` and each action to a step of
`ExclusiveTurn` or a stutter, using `OneHolder` for the exclusiveness of `Start`.

### TaskSchedulerProofs

For all finite sets of tasks, all budgets, recurrences and
bounds, from `SchedulerAssumption` only: `SchedulerTypes`, `OneShotsRunOnce`,
`BudgetIsKept`, `BudgetIsExact`, `RunningRowsAreLive`, `StartsKeepDistance`.

The argument: none of these is inductive, not even the types, because the poll loop
acts on a batch of rows read some time ago while users, crashes and the handler
change the rows. `SchedInv` says what the batch may still rely on: it holds a task
once, its entries are not running elsewhere, their time has come (`BatchInv`,
`StepInv`), and the budget they carry is that of the row until it is counted down
(`TtlInv`). Then: a one-shot that is pending or queued has not run (`OneShotInv`);
remaining budget plus runs is the budget while pending or queued, and one more
while a run is under way (`BudgetInv`); the time of a row to be started is a
recurrence after its last start (`SpaceInv`). `EntriesStep`, `OneShotStep`,
`BudgetStep`, `RunningStep` and `SpaceStep` prove these, one step per action, from
lemmas that say what each action does to the rows (`PickRow` ... `MissedRows`) and
to the queue (`QueueStep`).

### LifecycleProofs

For all finite sets of conversations, all messages, bounds and switches of failures,
from `LifecycleAssumption` only: `LifecycleTypes`, `ProcessingRowsAreLive`,
`AnswersAreStored`; and as long as the link holds and the bridge waits (`LinkHolds`: no
crash, no loss of the link, no timeout, which is what `LifecycleOrderly` checks; errors,
refusals, missing providers and failing cache operations are allowed): `MessagesAreTracked`, `MessagesGetTheirAnswer`.

Types are not inductive because a recovery works on the row it has read, and because a
queue entry becomes a job. `FlowInv` says that a recovery under way has read a row
(`EntryInv`), that a conversation's recovery is in the queue at most once and only while
its job has just been received (`RecoverInv`), and that a message not yet sent is
unknown to the server (`FreshInv`). `LiveInv` adds that a handler past the lock holds the
turn (`HeldInv`); with the exclusiveness of `ExclusiveTurn`, whoever writes a row finds no
other processing row alive.

`AnswersAreStored` is about a step and three actors: the handler that stores and delivers,
the handler of an earlier message that gets its turn later, and a recovery. `KeepInv` says
what they rely on: a message is put into the cache once and before it is worked on
(`PutInv`), whatever a row or a recovery names is a message of that conversation
(`RowsAreOwn`) that has been stored (`FreshUnknown`), one handler runs at a time
(`OneTurn`), and between the write of an outcome and its delivery the row, if it is still
that message's, holds the answer (`AnswerStored`). An attempt to prove the property in an
earlier form failed on a real behaviour: a handler that gets the lock late marks the row,
which by then belongs to a later message, and an answer is delivered although "its" row
does not hold it. The property now says so, and `LifecycleServer` has the three messages
that it takes.

For the other two, `OrderlyInv` says that nothing is queried or recovered (`Straight`) and
that the bridge has one request of a conversation at a time, the only one worked on
(`OneInHand`); then whatever is routed by conversation reaches it.

### PipelineProofs

For any calls, tools, answers of the provider and limits, from `RunAssumption` only:

- `NoticesAreToldOnce`: `NoticeInv` says that a notice is not yet there, in the queue, in the
  context of a run that is asking, or told.
- `HistoryStaysPaired`: all calls in the history are answered except, while tools run, those
  of its last message (`HistoryInv`); the guidance in it is that of `escalated`, both finite.
  `RoundAppends` says what a round adds, `HistoryCloses` that this closes the open message.
  With calls without ids the source of a result is the largest index of a set, so the
  proof needs that a bounded set of numbers has one (`LargestNumber`, from the
  well-foundedness of inclusion among finite sets, since induction is out of reach).
- `RunsGoOn` (`RunsMoveOn`): the limits are overrun by one, and only to end the run (`LimitInv`);
  each call of the round in hand has a state (`ResultInv`). The order that the property
  names, rounds left, then stages, attempts and calls, is well-founded, so `RunsMoveOn`
  is the part of `EveryRunEnds` that does not need fairness.

### BridgeProofs

- `EntriesAreCurrent` (any messages and chats): the property alone does not say why nobody
  else waits for an answer. `LineInv` does: the queue of a chat holds each message once,
  and only its first is in turn; `WaEntryInv` ties the entry and "typing" to that one.
- `EntriesAreWatched` (any posts of a conversation): `ChainInv` is the same fact about
  `convQueues`; `PhaseInv` says that the timer that runs and the await under way tell the
  phase, so a guard on the phase is one on both; `WatchInv` gives every request that waits
  one of the two. The last conjunct of the property needs `overtaken \/ Orderly`: as long
  as no await has ended too late, timers, awaits and typing loops belong to the entry in
  the map. `EntryStep` is the one lemma for all that happens inside an entry.
- `FuturesAreAwaited`, `AnswersAreOwn` (any requests and conversations): `RestInv` adds that
  a request alone in its conversation is registered until it leaves, and that its
  future holds nothing but its own answer.
- `ResultsAreOwn`, `PushesReachTheLink` (any actions, pushes and links): `CallFacts` ties each
  call to its future and to what the bridge did; while the bridge is connected the
  server writes to its latest connection (`LinkInv`).
- `RestImplementsReplies`, `WaImplementsReplies`: each initial state maps to one of
  `ConversationReplies`, and each step to a step of it or a stutter, under the mappings
  `restStatus`, `restReply` and `waStatus`, `waReply`. What the mapping needs of the
  reachable states is that the entry found under a conversation is that of a request
  which waits (`FutureIsAwaited`; `LineInv` and `WaEntryInv`) and that no reply is there
  before the request (`FreshFutures`, `WaFresh`); then resolving it is a `Deliver`, and
  finding none is a `Lose`.

### ToolProofs, IdleProofs

- `EditsAreWatched` (any files, whitelists, sessions and bounds): `TodoInv` lists what may be
  left of a tool in hand, each shape with what makes the rest safe: a marker is set only
  when the tag is there (`Beginning`), a file is written only under a marker (`Editing`), a
  marker is deleted only when the tree is back, git has failed, or the edits were accepted
  (`Ending`, `Recovering`, `Accepting`). A crash empties `todo`, so what remains is: a marker
  implies a tag, and without a marker the tracked files are as committed or as verified.
- `ResponsesAreOwn` (any calls and connections): a process writes each response once, to
  its own output (`PipesInv`), one call reads at a time (`CallsInv`), and on a connection
  without a cancelled call or a stray line all that is unread or unanswered is for the call
  that reads (`FreshInv`).
- `JobsAreKept` (any commands).
- `ClaimsAreHeld` (any topics, caps and limits): the lock ties research and dream to turns,
  what is left over is claimed still, and while no statement has raised, a dream that
  waits has seen no claim that was left over (`TurnInv`).
- `LossesNeedOverlap` (any memories, subjects and labels): while nothing has overlapped,
  `Standing` holds: what the agent is about to delete is not needed by `known`; clusters are
  disjoint, of nodes that are there and of one subject each, and none holds what is about
  to be deleted; the target of the merge in hand is there and of its sources' subject.
### ServicesProofs

The theorems above about a module of `MCServices` are about its own specification (`WaSpec`,
`RunSpec` and so on). `ServicesProofs` is about the specification that TLC checks, for any
`Parts`: a step of one component is a step of its own specification and a stutter of the
others (`StepOfEach`), so the conjunction of all inductive invariants (`ServicesInv`) is
inductive by the same lemmas. `ServicesTypes` and `ServicesAreSafe` are all invariants of the
run `Services`; `ServicesPush`, `ServicesMoveOn` and `ServicesReply` its action properties and
its refinement. The types needed more than the safety
invariants did, and those parts are invariants of their own: `WaRest` (the pruned history
fits its window), `DiscordRest` and `ChainIsFull` (the queue misses no message in
progress), `SessRest` (the edit in hand is one that the bound allows).

### Assumptions, and what is only model-checked

The theorems use the ASSUMEs of their modules and nothing else; TLC evaluates each of
them in a run. Every invariant, every action property and every refinement that a passing
run checks is a theorem. `QueueHoldsTheWaiting` (`AiLock`) and `FutureIsAwaited` (`RestApi`) are
proved, as parts of inductive invariants, and are in no run. Only model-checked are the liveness properties, because fairness
and ENABLED are beyond the prover: `EveryWaitEnds`, `AnsweredOrDropped`, `OneShotsEnd`,
`EveryRunEnds`, `EveryMessageIsDone`, `DeadServerLeaves`, `RetriesComeBack`; and the violations,
which are counterexamples.

## 6. Not modelled, and the plan

Left out because there is nothing in them for a model checker to find, being sequential
computation or pure I/O:

- providers' HTTP requests and parsing, prompts, personality, vision, web search,
  downloads: what they may answer is an open choice in `PipelineRun`;
- the model cache, `retry` outside the pipeline's first request, the registry, the loading
  and hot reload of tools and heartbeat modules;
- the health probes, notification sinks, logging, configuration, QR login;
- the rest of the context and its trimming to the token budget, truncation of results;
- memory scores: decay, hierarchy, importance and analytics change numbers that no
  modelled guard reads; texts are known by their subject only;
- cron arithmetic: a recurrence is a constant interval;
- the container behind the sandbox, its output and ring buffers.

Left out although it is concurrent: the swap of `row_factory` on the shared connection
(`message_state_cache.py:181`), whose effect depends on how aiosqlite's thread
interleaves two reads of one connection; `MessageLifecycle` serves them one at a time and lets
any of them raise.
The limit of pending tasks (`task_scheduler.py:219`) counts and inserts in two awaits;
`Create` is one step, since no property depends on the limit being hard.

The table of components in `PROJECT.json` says for each part what is left out of it.
What remains to be done is proof and refinement:

1. Variants like `RunsMoveOn` for the other liveness properties: the stages of a request in
   `WhatsAppBridge` and `DiscordBridge` (`EveryMessageIsDone`), the attempts of a topic in
   `IdleWork` (`RetriesComeBack`), the batch of the poll loop in `TaskScheduler`.
2. A promise weaker than `ConversationReplies`, which allows an answer to be delivered twice,
   for `DiscordBridge` and `MessageLifecycle`.
3. Counting and inserting a task as two steps of `TaskScheduler`, and what is left of the limit
   of pending tasks then.
