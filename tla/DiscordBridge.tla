--------------------------- MODULE DiscordBridge ----------------------------
(***************************************************************************)
(* The Discord bridge (adapters/discord_bridge/index.js) with the timers   *)
(* and awaits of its pending entries.  Conversations share only the        *)
(* process and its socket, so this is one of them: its messages go one at  *)
(* a time, and an event of the server goes to whatever entry is in the map *)
(* by then.  What cache, handler and lock do in between is the subject of  *)
(* MessageLifecycle; here the server is what it may send.                  *)
(***************************************************************************)
EXTENDS Naturals, Sequences, SequencesExt

CONSTANTS
  Posts,   \* messages of Discord users in the conversation
  NoPost,  \* no message
  MaxCuts  \* bound on the closings of the socket

ASSUME PostAssumption == NoPost \notin Posts /\ MaxCuts \in Nat

VARIABLES
  bridgeUp,    \* the process
  clientReady, \* clientInitStarted
  wire,        \* "closed" (a reconnect timer runs), "connecting", "open"
  cuts,
  post,        \* "new", "chained", "writing", "sent", "apologising", "answered", "over", "lost"
  chain,       \* convQueues
  inMap,       \* pendingResponses: the message whose entry it holds
  entryPhase,  \* entry.phase
  timer,       \* the entry's timer that runs: "none", "ack", "queue", "inactivity", "recovery"
  loose,       \* entries with a recovery timer that entry.inactivityTimer no longer names
  awaiting,    \* an await inside the entry: "none", "typing" (sendTyping), "recover" (sendWsEvent)
  typed,       \* entries whose typing loop runs
  settled,     \* entries whose promise is resolved or rejected
  work,        \* per message: "none", "acking", "waiting", "running", "resending"
  rerun,       \* messages whose run was asked for once more while it was under way
  lastPut,     \* the message in the cache's row
  query,       \* a message.query is under way
  overtaken    \* history: an await of an entry ended after the entry had moved on

entryVars == <<inMap, entryPhase, timer, loose, awaiting, typed, settled, overtaken>>
postVars == <<post, chain>>
socketVars == <<bridgeUp, clientReady, wire, cuts, query>>
serverSide == <<work, rerun, lastPut>>
discordVars == <<entryVars, postVars, socketVars, serverSide>>

InProgress == {"chained", "writing", "sent", "apologising", "answered"}
AtHead(m) == chain # <<>> /\ Head(chain) = m
Each(v) == [m \in Posts |-> v]

DiscordInit ==
  /\ bridgeUp = TRUE /\ clientReady = FALSE /\ wire = "connecting" /\ cuts = 0 /\ query = FALSE
  /\ post = Each("new") /\ chain = <<>>
  /\ inMap = {} /\ entryPhase = Each("none") /\ timer = Each("none") /\ loose = {}
  /\ awaiting = Each("none") /\ typed = {} /\ settled = {} /\ overtaken = FALSE
  /\ work = Each("none") /\ rerun = {} /\ lastPut = NoPost

-----------------------------------------------------------------------------
(* The end of a request. *)

\* The process ends: a rejected promise that nobody awaits, or no configuration in time.
DieNow ==
  /\ bridgeUp' = FALSE /\ clientReady' = FALSE /\ wire' = "closed" /\ query' = FALSE
  /\ post' = [m \in Posts |-> IF post[m] \in InProgress THEN "lost" ELSE post[m]]
  /\ chain' = <<>> /\ inMap' = {} /\ timer' = Each("none") /\ loose' = {}
  /\ entryPhase' = Each("none") /\ awaiting' = Each("none") /\ typed' = {}
  /\ settled' = {m \in Posts : post[m] \notin {"new", "chained"}}
  /\ UNCHANGED overtaken

\* Mutant: the timer of the third phase is not cleared.
ClearTwoTimers(m) ==
  /\ timer' = [timer EXCEPT ![m] = IF @ \in {"ack", "queue"} THEN "none" ELSE @]
  /\ typed' = typed \ {m}

\* _clearAll: the timers that the entry names, and its typing loop if there is one yet.
ClearAll(m) ==
  /\ timer' = [timer EXCEPT ![m] = "none"]
  /\ typed' = typed \ {m}

\* entry.resolve. A message still being written finds its promise resolved.
ResolveEntry(m) ==
  /\ ClearAll(m) /\ inMap' = {} /\ settled' = settled \cup {m}
  /\ post' = [post EXCEPT ![m] = IF @ = "sent" THEN "answered" ELSE @]
  /\ UNCHANGED <<chain, entryPhase, loose, awaiting, overtaken>>

\* entry.reject: the task of the message logs it and ends, unless it has yet to await.
RejectEntry(m) ==
  /\ ClearAll(m) /\ inMap' = {} /\ settled' = settled \cup {m}
  /\ post' = [post EXCEPT ![m] = "over"] /\ chain' = Tail(chain)
  /\ UNCHANGED <<entryPhase, loose, awaiting, overtaken>>

\* rejectAllPendingResponses
RejectPending == IF inMap = {} THEN UNCHANGED <<entryVars, postVars>> ELSE \E m \in inMap : RejectEntry(m)
Unawaited == \E m \in inMap : post[m] = "writing"

\* An event of the server finds an entry of its conversation.
Heard == wire = "open" /\ inMap # {}

\* The task of the message has ended, well or badly.
Done(m) == post' = [post EXCEPT ![m] = "over"] /\ chain' = Tail(chain)

-----------------------------------------------------------------------------
(* The process and its socket. *)

RestartBridge ==
  /\ ~bridgeUp /\ bridgeUp' = TRUE /\ wire' = "connecting"
  /\ UNCHANGED <<clientReady, cuts, query, entryVars, postVars, serverSide>>

NoConfig == bridgeUp /\ ~clientReady /\ DieNow /\ UNCHANGED <<cuts, serverSide>>

\* 'open': a query for what is pending; capabilities.ack starts the Discord client.
OpenSocket ==
  /\ wire = "connecting" /\ wire' = "open" /\ clientReady' = TRUE
  /\ query' = (inMap # {})
  /\ UNCHANGED <<bridgeUp, cuts, entryVars, postVars, serverSide>>

\* 'close', perhaps because the server has died and its runs with it.
CloseSocket ==
  /\ bridgeUp /\ wire # "closed" /\ cuts < MaxCuts
  /\ cuts' = cuts + 1
  /\ IF Unawaited THEN DieNow
     ELSE /\ wire' = "closed" /\ query' = FALSE
          /\ RejectPending
          /\ UNCHANGED <<bridgeUp, clientReady>>
  /\ \/ UNCHANGED <<work, rerun>>
     \/ work' = Each("none") /\ rerun' = {}
  /\ UNCHANGED lastPut

ReconnectBridge ==
  /\ bridgeUp /\ wire = "closed" /\ wire' = "connecting"
  /\ UNCHANGED <<bridgeUp, clientReady, cuts, query, entryVars, postVars, serverSide>>

-----------------------------------------------------------------------------
(* A message. *)

\* handleIncomingDiscordMessage, for a message that is answered (shouldRespond).  Which of
\* those to come it is makes no difference: they come in one order.
ReceivePost(m) ==
  /\ clientReady /\ post[m] = "new" /\ m = CHOOSE x \in Posts : post[x] = "new"
  /\ post' = [post EXCEPT ![m] = "chained"] /\ chain' = Append(chain, m)
  /\ UNCHANGED <<entryVars, socketVars, serverSide>>

\* registerPendingResponse: the former request of the conversation has ended, so there
\* is no entry to supersede.
RegisterEntry(m) ==
  /\ post[m] = "chained" /\ AtHead(m)
  /\ post' = [post EXCEPT ![m] = "writing"]
  /\ inMap' = {m}
  /\ entryPhase' = [entryPhase EXCEPT ![m] = "ack"] /\ timer' = [timer EXCEPT ![m] = "ack"]
  /\ UNCHANGED <<chain, loose, awaiting, typed, settled, overtaken, socketVars, serverSide>>

WritePost(m) ==
  /\ post[m] = "writing" /\ wire = "open"
  /\ post' = [post EXCEPT ![m] = IF m \in settled THEN "answered" ELSE "sent"]
  /\ work' = [work EXCEPT ![m] = "acking"] /\ lastPut' = m
  /\ UNCHANGED <<chain, entryVars, socketVars, rerun>>

\* No socket for 30 s, or an error of the write: the entry is rejected before anybody
\* awaits it.
PostNotWritten(m) ==
  /\ post[m] = "writing"
  /\ IF m \in inMap THEN DieNow /\ UNCHANGED cuts
     ELSE Done(m) /\ UNCHANGED <<entryVars, socketVars>>
  /\ UNCHANGED serverSide

SendReply(m) ==
  /\ post[m] = "answered" /\ Done(m)
  /\ UNCHANGED <<entryVars, socketVars, serverSide>>

-----------------------------------------------------------------------------
(* The timers and awaits of an entry. Each deletes the conversation's entry from the *)
(* map, whoever's it is by then. *)

AckTimeout(m) ==
  /\ timer[m] = "ack"
  /\ IF post[m] = "sent" THEN RejectEntry(m) /\ UNCHANGED socketVars
     ELSE DieNow /\ UNCHANGED cuts
  /\ UNCHANGED serverSide

\* _onQueueTimeout and _onRecoveryTimeout, up to their first await. The timers last
\* longer than a write.
GiveUpOn(m, left) ==
  /\ post[m] # "writing"
  /\ IF m \notin settled /\ post[m] = "over" THEN DieNow /\ UNCHANGED cuts
     ELSE /\ ClearAll(m) /\ inMap' = {}
          /\ post' = [post EXCEPT ![m] = IF @ = "sent" THEN "apologising" ELSE @]
          /\ loose' = left
          /\ UNCHANGED <<chain, entryPhase, awaiting, settled, overtaken, socketVars>>
  /\ UNCHANGED serverSide

QueueTimeout(m) == timer[m] = "queue" /\ GiveUpOn(m, loose)
RecoveryTimeout(m) ==
  /\ awaiting[m] = "none"
  /\ \/ timer[m] = "recovery" /\ GiveUpOn(m, loose)
     \/ m \in loose /\ GiveUpOn(m, loose \ {m})

\* The reaction and the reply have been tried: the promise is rejected.
Apologised(m) ==
  /\ post[m] = "apologising" /\ Done(m) /\ settled' = settled \cup {m}
  /\ UNCHANGED <<inMap, entryPhase, timer, loose, awaiting, typed, overtaken, socketVars, serverSide>>

\* _onInactivityTimeout, up to the await of sendWsEvent.
SilenceTimeout(m) ==
  /\ timer[m] = "inactivity" /\ awaiting[m] = "none" /\ entryPhase[m] = "processing"
  /\ entryPhase' = [entryPhase EXCEPT ![m] = "recovering"]
  /\ timer' = [timer EXCEPT ![m] = "none"] /\ awaiting' = [awaiting EXCEPT ![m] = "recover"]
  /\ UNCHANGED <<inMap, loose, typed, settled, overtaken, postVars, socketVars, serverSide>>

\* message.recover is written, or not: the grace period begins, beside one that a status
\* update may have begun. The server sends a stored answer again, or runs what it takes
\* for unfinished once more.
RecoverAsked(m) ==
  /\ awaiting[m] = "recover" /\ awaiting' = [awaiting EXCEPT ![m] = "none"]
  /\ timer' = [timer EXCEPT ![m] = "recovery"]
  /\ loose' = IF timer[m] = "recovery" THEN loose \cup {m} ELSE loose
  /\ overtaken' = (overtaken \/ m \in settled \/ timer[m] = "recovery")
  /\ \/ UNCHANGED <<work, rerun>>
     \/ /\ wire = "open"
        /\ IF work[lastPut] = "none"
           THEN \E s \in {"waiting", "resending"} : work' = [work EXCEPT ![lastPut] = s] /\ UNCHANGED rerun
           ELSE rerun' = rerun \cup {lastPut} /\ UNCHANGED work
  /\ UNCHANGED <<inMap, entryPhase, typed, settled, postVars, socketVars, lastPut>>

\* startTypingLoop returns: the loop is stored and the inactivity timer armed, whatever
\* has become of the entry.
TypingStarted(m) ==
  /\ awaiting[m] = "typing" /\ awaiting' = [awaiting EXCEPT ![m] = "none"]
  /\ typed' = typed \cup {m} /\ timer' = [timer EXCEPT ![m] = "inactivity"]
  /\ overtaken' = (overtaken \/ m \in settled)
  /\ UNCHANGED <<inMap, entryPhase, loose, settled, postVars, socketVars, serverSide>>

-----------------------------------------------------------------------------
(* Events of the server; without a socket they are lost. *)

\* onQueued: from the first phase only.
OnQueued(e) ==
  /\ IF entryPhase[e] = "ack"
     THEN entryPhase' = [entryPhase EXCEPT ![e] = "queued"] /\ timer' = [timer EXCEPT ![e] = "queue"]
     ELSE UNCHANGED <<entryPhase, timer>>
  /\ UNCHANGED <<inMap, loose, awaiting, typed, settled, overtaken, postVars>>

QueuedArrives(m) ==
  /\ work[m] = "acking" /\ work' = [work EXCEPT ![m] = "waiting"]
  /\ IF Heard THEN \E e \in inMap : OnQueued(e) ELSE UNCHANGED <<entryVars, postVars>>
  /\ UNCHANGED <<socketVars, rerun, lastPut>>

\* onProcessing, up to its await: from the second phase only.
OnProcessing(e) ==
  /\ IF entryPhase[e] = "queued"
     THEN /\ entryPhase' = [entryPhase EXCEPT ![e] = "processing"]
          /\ timer' = [timer EXCEPT ![e] = "none"] /\ awaiting' = [awaiting EXCEPT ![e] = "typing"]
     ELSE UNCHANGED <<entryPhase, timer, awaiting>>
  /\ UNCHANGED <<inMap, loose, typed, settled, overtaken, postVars>>

\* The global lock lets one run at a time.
ProcessingArrives(m) ==
  /\ work[m] = "waiting" /\ \A x \in Posts : work[x] # "running"
  /\ work' = [work EXCEPT ![m] = "running"]
  /\ IF Heard THEN \E e \in inMap : OnProcessing(e) ELSE UNCHANGED <<entryVars, postVars>>
  /\ UNCHANGED <<socketVars, rerun, lastPut>>

\* resetInactivity
ResetInactivity(e) ==
  /\ timer' = CASE entryPhase[e] = "processing" -> [timer EXCEPT ![e] = "inactivity"]
                [] entryPhase[e] = "recovering" -> [timer EXCEPT ![e] = "recovery"]
                [] OTHER -> timer
  /\ UNCHANGED <<inMap, entryPhase, loose, awaiting, typed, settled, overtaken, postVars>>

StatusArrives(m) ==
  /\ work[m] = "running"
  /\ IF Heard THEN \E e \in inMap : ResetInactivity(e) ELSE UNCHANGED <<entryVars, postVars>>
  /\ UNCHANGED <<socketVars, serverSide>>

\* response.ready; without an entry it is posted as it is (conversationChannels).
ResponseArrives(m) ==
  /\ work[m] \in {"running", "resending"}
  /\ work' = [work EXCEPT ![m] = IF m \in rerun THEN "waiting" ELSE "none"]
  /\ rerun' = rerun \ {m}
  /\ IF Heard THEN \E e \in inMap : ResolveEntry(e) ELSE UNCHANGED <<entryVars, postVars>>
  /\ UNCHANGED <<socketVars, lastPut>>

\* Refused by the lock, or no provider: nothing is sent.
DropPost(m) ==
  /\ work[m] = "waiting" /\ work' = [work EXCEPT ![m] = "none"]
  /\ UNCHANGED <<entryVars, postVars, socketVars, rerun, lastPut>>

\* message.status: what is under way changes nothing; a stored answer resolves, an error
\* or no row rejects.
QueryAnswered ==
  /\ query /\ wire = "open"
  /\ LET finished == \A m \in {lastPut} \ {NoPost} : work[m] = "none" IN
     \/ finished /\ Unawaited /\ DieNow
     \/ /\ query' = FALSE /\ UNCHANGED <<bridgeUp, clientReady, wire>>
        /\ \/ UNCHANGED <<entryVars, postVars>>
           \/ finished /\ Heard /\ \E e \in inMap : ResolveEntry(e)
           \/ finished /\ ~Unawaited /\ RejectPending
  /\ UNCHANGED <<cuts, serverSide>>

-----------------------------------------------------------------------------
\* What time and Discord bring about: all of it comes, whatever the server does.
PostStep(m) ==
  \/ RegisterEntry(m) \/ WritePost(m) \/ PostNotWritten(m) \/ SendReply(m)
  \/ AckTimeout(m) \/ QueueTimeout(m) \/ SilenceTimeout(m) \/ RecoveryTimeout(m)
  \/ RecoverAsked(m) \/ TypingStarted(m) \/ Apologised(m)
DiscordNext ==
  \/ RestartBridge \/ NoConfig \/ OpenSocket \/ CloseSocket \/ ReconnectBridge \/ QueryAnswered
  \/ \E m \in Posts :
       \/ ReceivePost(m) \/ PostStep(m) \/ QueuedArrives(m) \/ ProcessingArrives(m)
       \/ StatusArrives(m) \/ ResponseArrives(m) \/ DropPost(m)
DiscordSpec == DiscordInit /\ [][DiscordNext]_discordVars /\ \A m \in Posts : WF_discordVars(PostStep(m))

-----------------------------------------------------------------------------
\* The variables have their types, and a conversation's queue holds the messages in
\* progress, each once.
DiscordTypeOK ==
  /\ bridgeUp \in BOOLEAN /\ clientReady \in BOOLEAN /\ wire \in {"closed", "connecting", "open"} /\ cuts \in 0..MaxCuts
  /\ post \in [Posts -> InProgress \cup {"new", "over", "lost"}] /\ chain \in Seq(Posts)
  /\ IsInjective(chain) /\ ToSet(chain) = {m \in Posts : post[m] \in InProgress}
  /\ inMap \cup loose \cup typed \cup settled \cup rerun \subseteq Posts /\ lastPut \in Posts \cup {NoPost}
  /\ entryPhase \in [Posts -> {"none", "ack", "queued", "processing", "recovering"}]
  /\ timer \in [Posts -> {"none", "ack", "queue", "inactivity", "recovery"}]
  /\ awaiting \in [Posts -> {"none", "typing", "recover"}]
  /\ work \in [Posts -> {"none", "acking", "waiting", "running", "resending"}]
  /\ query \in BOOLEAN /\ overtaken \in BOOLEAN

\* A request that waits has a timer that will end it, or an await that will arm one; the
\* map holds the entry of the current message; and a waiting message is missing from it,
\* or an ended one still has timers or a typing loop, only if an await inside an entry
\* has ended after the entry had.
EntryIsWatched ==
  /\ \A m \in inMap : AtHead(m) /\ m \notin settled /\ post[m] \in {"writing", "sent"}
  /\ \A m \in Posts : post[m] = "sent" => m \notin settled /\ (timer[m] # "none" \/ awaiting[m] # "none")
  /\ \A m \in Posts :
       (post[m] = "sent" /\ m \notin inMap) \/ (m \in settled /\ (timer[m] # "none" \/ m \in typed)) => overtaken

\* A message in the queue of the conversation is done with, and the next one gets its
\* turn, also when its entry was deleted by the timer of an earlier one.
EveryPostEnds == \A m \in Posts : post[m] = "chained" ~> post[m] \in {"over", "lost"}
=============================================================================
