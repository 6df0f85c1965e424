-------------------------- MODULE MessageLifecycle --------------------------
(***************************************************************************)
(* The life of a chat message: from the Discord bridge                     *)
(* (adapters/discord_bridge/index.js) over the adapter WebSocket server    *)
(* (lib/services/adapter_ws_server.py), its SQLite cache                   *)
(* (message_state_cache.py) and the event bus to the pipeline handler      *)
(* (ai_pipeline_handler.py), and back; with link losses, server crashes,   *)
(* cache operations that raise, and the recovery from them.                *)
(*                                                                         *)
(* A job is one activation of the pipeline handler: a message is its own   *)
(* job, and a conversation is the job of its message.recover request.  The *)
(* global AI lock is ExclusiveTurn, which AiLock implements.               *)
(*                                                                         *)
(* Everything is keyed by conversation, as in the code: the cache row, the *)
(* pending entry of the bridge and the routing of a response.  A response  *)
(* is represented by the message whose run produced it.                    *)
(***************************************************************************)
EXTENDS Naturals, Sequences, SequencesExt

CONSTANTS
  Messages,
  Conversations,
  ConvOf,           \* the conversation of a message
  Background,       \* other users of the AI lock, one run each per boot
  None,
  Apology,          \* any of the fixed error and "lost track" texts
  MaxCrashes,       \* bound: server crashes
  MaxDrops,         \* bound: losses of the WebSocket link
  MayGiveUp,        \* do the ack, queue and recovery timeouts of the bridge fire?
  MayRecover,       \* can a run be silent for INACTIVITY_TIMEOUT_MS?
  MayRefuse,        \* can acquire_ai_lock give up?
  MayLackProvider,  \* can the provider be unavailable?
  MayFail,          \* can the pipeline raise or time out?
  CacheMayFail      \* can an operation of the cache raise?

ASSUME LifecycleAssumption ==
  /\ ConvOf \in [Messages -> Conversations]
  /\ IsFiniteSet(Conversations)
  /\ Messages \cap Conversations = {}
  /\ Background \cap (Messages \cup Conversations) = {}
  /\ None \notin Messages /\ Apology \notin Messages /\ None # Apology
  /\ MaxCrashes \in Nat /\ MaxDrops \in Nat
  /\ {MayGiveUp, MayRecover, MayRefuse, MayLackProvider, MayFail, CacheMayFail} \subseteq BOOLEAN

Jobs == Messages \cup Conversations

VARIABLES
  phase,     \* of the server: down, init, requeued (subscribers not yet), up
  crashes,
  conn,      \* the bridge and the server are connected
  drops,
  bridge,    \* bridge[m]: phase of the pending entry of m, or its end
  outbox,    \* messages the bridge has registered and not yet written
  answer,    \* answer[m]: what the request for m was resolved with
  inbox,     \* requests the server has read and not yet taken to its cache
  row,       \* row[c]: the cache row of c, if any; it survives crashes
  leftover,  \* rows last written before the latest crash
  untracked, \* conversations whose latest message could not be put
  unsettled, \* conversations whose row lacks an outcome that could not be written
  pc,        \* pc[j]: how far the server is with job j
  entry,     \* entry[c]: the row that the recovery of c has read
  turn       \* the AI lock

bridgeVars == <<bridge, outbox, answer>>
linkVars   == <<conn, drops, inbox>>
cacheVars  == <<row, leftover, untracked, unsettled>>
serverVars == <<phase, crashes>>
jobVars    == <<pc, entry, turn>>
vars == <<bridgeVars, linkVars, cacheVars, serverVars, jobVars>>

Lock == INSTANCE ExclusiveTurn WITH Jobs <- Jobs \cup Background

-----------------------------------------------------------------------------
(* Types and helpers. *)

Pending == {"ack", "queued", "processing", "recovering"}
BridgePhase == {"new", "answered", "failed"} \cup Pending

\* none, received: created; read: recovery has its entry; put: row written;
\* asked: in acquire_ai_lock; held: lock taken; typing: marked processing;
\* storedDone, storedError: outcome written; dropped, answered: over.
PC == {"none", "received", "read", "put", "asked", "held", "typing",
       "storedDone", "storedError", "dropped", "answered"}

RowState == {"queued", "processing", "done", "error"}
NoRow == [state |-> "absent", msg |-> None, response |-> None]
Row == {NoRow} \cup
       [state : RowState, msg : Messages, response : Messages \cup {None}]

Conv(j) == IF j \in Messages THEN ConvOf[j] ELSE j

\* The message a job works on: its own, or the one in the row it has read.
Work(j) == IF j \in Messages THEN j ELSE entry[j].msg

Of(c) == {m \in Messages : ConvOf[m] = c}

PendingIn(c) == {m \in Of(c) : bridge[m] \in Pending}

Unfinished == {"queued", "processing"}

LostRows == {c \in Conversations : row[c].state \in Unfinished}

\* AIPipelineHandler has subscribed to message.received.
Subscribed == phase = "up"

\* response.ready or message.status for c, on the link as it is now: the
\* pending entry of the conversation is resolved, whatever message it is for.
Resolve(c, response) ==
  LET hit == IF conn THEN PendingIn(c) ELSE {}
  IN /\ bridge' = [m \in Messages |-> IF m \in hit THEN "answered" ELSE bridge[m]]
     /\ answer' = [m \in Messages |-> IF m \in hit THEN response ELSE answer[m]]
     /\ UNCHANGED outbox

\* A lifecycle event for c moves the pending entry on, from one phase only.
Advance(c, from, to) ==
  /\ bridge' = [m \in Messages |->
                  IF conn /\ m \in Of(c) /\ bridge[m] = from THEN to ELSE bridge[m]]
  /\ UNCHANGED <<outbox, answer>>

\* rejectAllPendingResponses: what is pending fails, and what was being written
\* goes down with the link.
RejectAll ==
  /\ bridge' = [m \in Messages |-> IF bridge[m] \in Pending THEN "failed" ELSE bridge[m]]
  /\ outbox' = {}
  /\ UNCHANGED answer

\* set_done and set_error of an outcome that makes the row r.  When the write
\* raises, the server logs it and goes on, and the row stays behind.
WriteOutcome(c, r) ==
  /\ \/ row' = [row EXCEPT ![c] = r] /\ unsettled' = unsettled \ {c}
     \/ /\ CacheMayFail /\ row[c] # NoRow
        /\ unsettled' = unsettled \cup {c}
        /\ UNCHANGED row
  /\ UNCHANGED <<leftover, untracked>>

\* What msg_cache.get(c) gives its callers: they take an error for no row.
CacheReads(c) == {row[c]} \cup IF CacheMayFail THEN {NoRow} ELSE {}

\* The bridge starts its Discord client on the first capabilities.ack, so the
\* first message comes after a boot and a connection.
Init ==
  /\ phase = "up" /\ crashes = 0
  /\ conn = TRUE /\ drops = 0 /\ inbox = <<>>
  /\ bridge = [m \in Messages |-> "new"]
  /\ outbox = {}
  /\ answer = [m \in Messages |-> None]
  /\ row = [c \in Conversations |-> NoRow]
  /\ leftover = {} /\ untracked = {} /\ unsettled = {}
  /\ pc = [j \in Jobs |-> "none"]
  /\ entry = [c \in Conversations |-> NoRow]
  /\ Lock!Init

-----------------------------------------------------------------------------
(* The server process. *)

\* msg_cache.init(): the table is there, nothing is subscribed yet.
Boot ==
  /\ phase = "down"
  /\ phase' = "init"
  /\ UNCHANGED <<crashes, bridgeVars, linkVars, cacheVars, jobVars>>

\* requeue_lost: every unfinished row is published as message.received, which
\* starts a job only if somebody is subscribed.
RequeueLost ==
  /\ phase = "init"
  /\ phase' = "requeued"
  /\ LET started == IF Subscribed THEN {row[c].msg : c \in LostRows} ELSE {}
     IN /\ pc' = [j \in Jobs |-> IF j \in started THEN "asked" ELSE pc[j]]
        /\ turn' = [j \in Jobs \cup Background |->
                      IF j \in started THEN "waiting" ELSE turn[j]]
  /\ UNCHANGED <<crashes, bridgeVars, linkVars, cacheVars, entry>>

\* subscribe_to_event_bus and AIPipelineHandler(event_bus), then serving.
Serve ==
  /\ phase = "requeued"
  /\ phase' = "up"
  /\ UNCHANGED <<crashes, bridgeVars, linkVars, cacheVars, jobVars>>

\* The process dies: handlers, lock and link are gone, the rows stay.  The
\* bridge sees the link close.
Crash ==
  /\ phase # "down"
  /\ crashes < MaxCrashes
  /\ crashes' = crashes + 1
  /\ phase' = "down"
  /\ conn' = FALSE /\ inbox' = <<>>
  /\ IF conn THEN RejectAll ELSE UNCHANGED bridgeVars
  /\ leftover' = {c \in Conversations : row[c] # NoRow}
  /\ untracked' = {} /\ unsettled' = {}
  /\ pc' = [j \in Jobs |-> "none"]
  /\ entry' = [c \in Conversations |-> NoRow]
  /\ turn' = [j \in Jobs \cup Background |-> "idle"]
  /\ UNCHANGED <<drops, row>>

\* _cleanup_loop: finished rows expire after an hour, unfinished ones after a
\* day, which is longer than any run: only rows that nobody works on get there.
Expire(c) ==
  /\ phase # "down"
  /\ \/ row[c].state \in {"done", "error"}
     \/ /\ row[c].state \in Unfinished
        /\ \A j \in Jobs : Conv(j) = c => pc[j] \in {"none", "dropped", "answered"}
  /\ row' = [row EXCEPT ![c] = NoRow]
  /\ unsettled' = unsettled \ {c}
  /\ UNCHANGED <<leftover, untracked, bridgeVars, linkVars, serverVars, jobVars>>

\* Dream, research and grooming take their turns under the same lock.
Other(b) ==
  /\ phase = "up"
  /\ Lock!Ask(b) \/ Lock!Start(b) \/ Lock!Finish(b)
  /\ UNCHANGED <<bridgeVars, linkVars, cacheVars, serverVars, pc, entry>>

-----------------------------------------------------------------------------
(* The bridge. *)

\* Mutant: the bridge does not keep the messages of a conversation in a queue.
RegisterAtOnce(m) ==
  /\ bridge[m] = "new"
  /\ bridge' = [bridge EXCEPT ![m] = "ack"]
  /\ outbox' = outbox \cup {m}
  /\ UNCHANGED <<answer, linkVars, cacheVars, serverVars, jobVars>>

\* The conversation's queue reaches m: registerPendingResponse comes before
\* the event can be written.
Register(m) ==
  /\ bridge[m] = "new"
  /\ PendingIn(ConvOf[m]) = {} /\ outbox \cap Of(ConvOf[m]) = {}
  /\ bridge' = [bridge EXCEPT ![m] = "ack"]
  /\ outbox' = outbox \cup {m}
  /\ UNCHANGED <<answer, linkVars, cacheVars, serverVars, jobVars>>

\* sendWsEvent(message.received); the server starts a task for it.
Send(m) ==
  /\ m \in outbox /\ conn
  /\ outbox' = outbox \ {m}
  /\ inbox' = Append(inbox, <<"put", m>>)
  /\ pc' = [pc EXCEPT ![m] = "received"]
  /\ UNCHANGED <<bridge, answer, conn, drops, cacheVars, serverVars, entry, turn>>

\* Somebody waits for the socket when the ack timeout (10 s, sooner than the
\* 30 s of waitForWsReady) or the close of a failed connection attempt rejects
\* the entry.  Nobody awaits that promise yet: the unhandled rejection ends the
\* bridge process, and everything it had pending is gone.
BridgeDies ==
  /\ MayGiveUp
  /\ outbox # {} /\ ~conn
  /\ RejectAll
  /\ UNCHANGED <<linkVars, cacheVars, serverVars, jobVars>>

\* The ack, queue or recovery timeout of m, whose event is written.
GiveUp(m) ==
  /\ MayGiveUp
  /\ bridge[m] \in {"ack", "queued", "recovering"} /\ m \notin outbox
  /\ bridge' = [bridge EXCEPT ![m] = "failed"]
  /\ UNCHANGED <<outbox, answer, linkVars, cacheVars, serverVars, jobVars>>

\* Mutant: status updates do not reset the inactivity timer.
InactivityUnreset(m) ==
  LET c == ConvOf[m]
  IN /\ bridge[m] = "processing" /\ conn
     /\ pc[c] = "none"
     /\ bridge' = [bridge EXCEPT ![m] = "recovering"]
     /\ inbox' = Append(inbox, <<"recover", c>>)
     /\ pc' = [pc EXCEPT ![c] = "received"]
     /\ UNCHANGED <<outbox, answer, conn, drops, cacheVars, serverVars, entry, turn>>

\* _onInactivityTimeout: ask the server to recover the conversation, once
\* per boot.
InactivityTimeout(m) ==
  LET c == ConvOf[m]
  IN /\ MayRecover
     /\ bridge[m] = "processing" /\ conn
     /\ pc[c] = "none"
     /\ bridge' = [bridge EXCEPT ![m] = "recovering"]
     /\ inbox' = Append(inbox, <<"recover", c>>)
     /\ pc' = [pc EXCEPT ![c] = "received"]
     /\ UNCHANGED <<outbox, answer, conn, drops, cacheVars, serverVars, entry, turn>>

\* The socket opens: every pending conversation is queried, then those who
\* wait for the socket may write.
Connect ==
  /\ phase = "up" /\ ~conn
  /\ conn' = TRUE
  /\ \E order \in SetToSeqs({c \in Conversations : PendingIn(c) # {}}) :
       inbox' = inbox \o [i \in DOMAIN order |-> <<"query", order[i]>>]
  /\ UNCHANGED <<drops, bridgeVars, cacheVars, serverVars, jobVars>>

\* The link breaks, with whatever was under way in either direction.  The
\* server goes on with its jobs.  A crash counts against the bound as well.
LoseLink ==
  /\ conn
  /\ drops + crashes < MaxDrops
  /\ drops' = drops + 1
  /\ conn' = FALSE
  /\ RejectAll
  /\ UNCHANGED <<inbox, cacheVars, serverVars, jobVars>>

-----------------------------------------------------------------------------
(* The WebSocket server and the pipeline handler. *)

\* Every event gets a task of its own, but each begins with a cache operation,
\* and the one connection of the cache serves these in order.
Serves(kind, x) ==
  /\ inbox # <<>> /\ Head(inbox) = <<kind, x>>
  /\ inbox' = Tail(inbox)

\* msg_cache.put: INSERT OR REPLACE, with no response.  When it raises, the
\* message goes on without a row, or with the row of an earlier one.
Put(m) ==
  LET c == ConvOf[m]
  IN /\ Serves("put", m)
     /\ pc' = [pc EXCEPT ![m] = "put"]
     /\ \/ /\ row' = [row EXCEPT ![c] = [state |-> "queued", msg |-> m, response |-> None]]
           /\ leftover' = leftover \ {c}
           /\ untracked' = untracked \ {c} /\ unsettled' = unsettled \ {c}
        \/ /\ CacheMayFail
           /\ untracked' = untracked \cup {c}
           /\ UNCHANGED <<row, leftover, unsettled>>
     /\ UNCHANGED <<bridgeVars, conn, drops, serverVars, entry, turn>>

\* message.queued is sent, message.received is published: the handler calls
\* acquire_ai_lock.
AckAndPublish(m) ==
  /\ pc[m] = "put"
  /\ pc' = [pc EXCEPT ![m] = "asked"]
  /\ Advance(ConvOf[m], "ack", "queued")
  /\ Lock!Ask(m)
  /\ UNCHANGED <<linkVars, cacheVars, serverVars, entry>>

Acquire(j) ==
  /\ pc[j] = "asked"
  /\ Lock!Start(j)
  /\ pc' = [pc EXCEPT ![j] = "held"]
  /\ UNCHANGED <<bridgeVars, linkVars, cacheVars, serverVars, entry>>

\* "Lock holder inactive - dropping message": nothing is published.
Refuse(j) ==
  /\ MayRefuse
  /\ pc[j] = "asked"
  /\ Lock!Refuse(j)
  /\ pc' = [pc EXCEPT ![j] = "dropped"]
  /\ UNCHANGED <<bridgeVars, linkVars, cacheVars, serverVars, entry>>

\* _resolve_pipeline_provider returns None: the handler returns, and releases.
NoProvider(j) ==
  /\ MayLackProvider
  /\ pc[j] = "held"
  /\ Lock!Finish(j)
  /\ pc' = [pc EXCEPT ![j] = "dropped"]
  /\ UNCHANGED <<bridgeVars, linkVars, cacheVars, serverVars, entry>>

\* Mutant: set_processing inserts the row when it is missing.
StartTypingUpsert(j) ==
  LET c == Conv(j)
  IN /\ pc[j] = "held"
     /\ pc' = [pc EXCEPT ![j] = "typing"]
     /\ row' = [row EXCEPT ![c].state = "processing"]
     /\ Advance(c, "queued", "processing")
     /\ UNCHANGED <<leftover, untracked, unsettled, linkVars, serverVars, entry, turn>>

\* typing.start -> send_message_processing: the row is updated if it exists
\* (unless set_processing raises), and the bridge is told.
StartTyping(j) ==
  LET c == Conv(j)
  IN /\ pc[j] = "held"
     /\ pc' = [pc EXCEPT ![j] = "typing"]
     /\ \/ /\ row' = [row EXCEPT ![c] = IF @ = NoRow THEN @
                                          ELSE [@ EXCEPT !.state = "processing"]]
           /\ unsettled' = unsettled \ {c}
        \/ CacheMayFail /\ UNCHANGED <<row, unsettled>>
     /\ Advance(c, "queued", "processing")
     /\ UNCHANGED <<leftover, untracked, linkVars, serverVars, entry, turn>>

\* The run of j comes to an end: with an error even before typing.start.
Over(j, ok) ==
  \/ ok /\ pc[j] = "typing"
  \/ ~ok /\ MayFail /\ pc[j] \in {"held", "typing"}

\* Mutant: a failed run leaves its row as it is.
StoreOnlySuccess(j, ok) ==
  LET c == Conv(j)
  IN /\ Over(j, ok)
     /\ pc' = [pc EXCEPT ![j] = IF ok THEN "storedDone" ELSE "storedError"]
     /\ IF row[c] = NoRow \/ ~ok THEN UNCHANGED cacheVars
        ELSE WriteOutcome(c, [row[c] EXCEPT !.state = "done", !.response = Work(j)])
     /\ UNCHANGED <<bridgeVars, linkVars, serverVars, entry, turn>>

\* Mutant: set_done forgets the response.
StoreNoResponse(j, ok) ==
  LET c == Conv(j)
  IN /\ Over(j, ok)
     /\ pc' = [pc EXCEPT ![j] = IF ok THEN "storedDone" ELSE "storedError"]
     /\ WriteOutcome(c, IF row[c] = NoRow THEN NoRow
                        ELSE [row[c] EXCEPT !.state = IF ok THEN "done" ELSE "error"])
     /\ UNCHANGED <<bridgeVars, linkVars, serverVars, entry, turn>>

\* The pipeline is over and response.ready published: set_done writes the
\* response, set_error leaves the old one, and a missing row stays missing.
Store(j, ok) ==
  LET c == Conv(j)
  IN /\ Over(j, ok)
     /\ pc' = [pc EXCEPT ![j] = IF ok THEN "storedDone" ELSE "storedError"]
     /\ WriteOutcome(c, IF row[c] = NoRow THEN NoRow
                        ELSE IF ok THEN [row[c] EXCEPT !.state = "done", !.response = Work(j)]
                        ELSE [row[c] EXCEPT !.state = "error"])
     /\ UNCHANGED <<bridgeVars, linkVars, serverVars, entry, turn>>

\* Mutant: the lock is not released on the error path.
RespondKeepsLock(j) ==
  /\ pc[j] \in {"storedDone", "storedError"}
  /\ pc' = [pc EXCEPT ![j] = "answered"]
  /\ IF pc[j] = "storedDone" THEN Lock!Finish(j) ELSE UNCHANGED turn
  /\ Resolve(Conv(j), IF pc[j] = "storedDone" THEN Work(j) ELSE Apology)
  /\ UNCHANGED <<linkVars, cacheVars, serverVars, entry>>

\* send_response to whatever link there is, and the release of the lock.
Respond(j) ==
  /\ pc[j] \in {"storedDone", "storedError"}
  /\ pc' = [pc EXCEPT ![j] = "answered"]
  /\ Lock!Finish(j)
  /\ Resolve(Conv(j), IF pc[j] = "storedDone" THEN Work(j) ELSE Apology)
  /\ UNCHANGED <<linkVars, cacheVars, serverVars, entry>>

\* _on_message_query: message.status.  "error" and "unknown" (no row, or the
\* cache raised) fail the entry, an unfinished state leaves it alone.
AnswerQuery(c) ==
  /\ Serves("query", c)
  /\ \E found \in CacheReads(c) :
       CASE found.state = "done" -> Resolve(c, found.response)
         [] found.state \in {"error", "absent"} ->
              /\ bridge' = [m \in Messages |->
                              IF conn /\ m \in PendingIn(c) THEN "failed" ELSE bridge[m]]
              /\ UNCHANGED <<outbox, answer>>
         [] OTHER -> UNCHANGED bridgeVars
  /\ UNCHANGED <<conn, drops, cacheVars, serverVars, jobVars>>

\* _on_message_recover reads the row ...
RecoverRead(c) ==
  /\ Serves("recover", c)
  /\ pc' = [pc EXCEPT ![c] = "read"]
  /\ \E found \in CacheReads(c) : entry' = [entry EXCEPT ![c] = found]
  /\ UNCHANGED <<bridgeVars, conn, drops, cacheVars, serverVars, turn>>

\* ... and acts on what it has read: an unfinished message is published again,
\* anything else is answered at once.
RecoverAct(c) ==
  /\ pc[c] = "read"
  /\ \/ /\ entry[c].state \in Unfinished
        /\ pc' = [pc EXCEPT ![c] = "asked"]
        /\ Lock!Ask(c)
        /\ UNCHANGED bridgeVars
     \/ /\ entry[c].state \notin Unfinished
        /\ pc' = [pc EXCEPT ![c] = "answered"]
        /\ Resolve(c, IF entry[c].state = "done" THEN entry[c].response ELSE Apology)
        /\ UNCHANGED turn
  /\ UNCHANGED <<linkVars, cacheVars, serverVars, entry>>

-----------------------------------------------------------------------------
Next ==
  \/ Boot \/ RequeueLost \/ Serve \/ Crash \/ Connect \/ LoseLink \/ BridgeDies
  \/ \E b \in Background : Other(b)
  \/ \E m \in Messages :
       \/ Register(m) \/ Send(m) \/ GiveUp(m)
       \/ InactivityTimeout(m) \/ Put(m) \/ AckAndPublish(m)
  \/ \E c \in Conversations :
       Expire(c) \/ AnswerQuery(c) \/ RecoverRead(c) \/ RecoverAct(c)
  \/ \E j \in Jobs :
       \/ Acquire(j) \/ Refuse(j) \/ NoProvider(j) \/ StartTyping(j)
       \/ \E ok \in BOOLEAN : Store(j, ok)
       \/ Respond(j)

Spec == Init /\ [][Next]_vars

\* Both processes go on: the server boots and serves, the socket is opened
\* again, every started handler is resumed, and the pipeline returns (it runs
\* under pipeline_timeout).  Failures, timeouts and expiry owe nothing.
Fairness ==
  /\ WF_vars(Boot \/ RequeueLost \/ Serve) /\ WF_vars(Connect)
  /\ \A b \in Background : WF_vars(Other(b))
  /\ \A m \in Messages : WF_vars(Send(m)) /\ WF_vars(Put(m)) /\ WF_vars(AckAndPublish(m))
  /\ \A c \in Conversations :
       WF_vars(AnswerQuery(c)) /\ WF_vars(RecoverRead(c)) /\ WF_vars(RecoverAct(c))
  /\ \A j \in Jobs :
       /\ WF_vars(Acquire(j)) /\ WF_vars(StartTyping(j))
       /\ WF_vars(\E ok \in BOOLEAN : Store(j, ok)) /\ WF_vars(Respond(j))

FairSpec == Spec /\ Fairness

-----------------------------------------------------------------------------
(* Properties. *)

TypeOK ==
  /\ phase \in {"down", "init", "requeued", "up"}
  /\ crashes \in 0..MaxCrashes /\ drops \in 0..MaxDrops
  /\ conn \in BOOLEAN
  /\ bridge \in [Messages -> BridgePhase]
  /\ outbox \subseteq Messages
  /\ answer \in [Messages -> Messages \cup {None, Apology}]
  /\ inbox \in Seq({"put", "query", "recover"} \X Jobs)
  /\ row \in [Conversations -> Row]
  /\ leftover \subseteq Conversations
  /\ untracked \subseteq Conversations /\ unsettled \subseteq Conversations
  /\ pc \in [Jobs -> PC]
  /\ entry \in [Conversations -> Row]
  /\ turn \in [Jobs \cup Background -> Lock!Stages]

\* "processing: Pipeline is actively running for this message"
\* (message_state_cache.py:13): whether runs fail, locks are refused or cache
\* operations raise, a row that says so belongs to the conversation whose job
\* holds the AI lock at this moment.  Two things alone leave such rows behind,
\* a crash and an outcome that could not be written, until the next write.
ProcessingIsLive ==
  \A c \in Conversations \ (leftover \cup unsettled) :
    row[c].state = "processing" =>
      \E j \in Jobs : Conv(j) = c /\ pc[j] = "typing" /\ turn[j] = "running"

\* "Tracks every inbound message from receipt through delivery"
\* (message_state_cache.py:4): while the server works on an accepted message,
\* its row holds that message and says that it is unfinished, unless the put
\* of that very message raised.
TrackedUntilAnswered ==
  \A m \in Messages :
    pc[m] \in {"put", "asked", "held", "typing"} /\ ConvOf[m] \notin untracked =>
      row[ConvOf[m]].msg = m /\ row[ConvOf[m]].state \in Unfinished

\* "Send a message.received event and wait for the matching response.ready"
\* (discord_bridge/index.js:743): a request is never resolved with the answer
\* to another message of the conversation.
AnswerIsOwn ==
  \A m \in Messages : bridge[m] = "answered" => answer[m] \in {m, Apology}

\* The row r holds the answer m.
Stored(r, m) == r.state = "done" /\ r.response = m

\* Re-delivery of missed responses (message_state_cache.py:7) rests on the
\* order of writes: when the answer of a message is delivered, a row that still
\* belongs to that message already holds the answer, or the recovery that
\* delivers it has read it there.  (By then the run of a message sent earlier,
\* which got its turn later, may have marked the row as its own.)  The answer
\* whose write to the row raised is delivered all the same.
StoredBeforeDelivered ==
  [][\A m \in Messages, c \in Conversations :
       /\ bridge[m] \in Pending /\ bridge'[m] = "answered"
       /\ row[c].msg = answer'[m] /\ answer'[m] # None
       /\ c \notin unsettled
       => \/ Stored(row[c], answer'[m])
          \/ pc[c] = "read" /\ pc'[c] = "answered" /\ Stored(entry[c], answer'[m])]_vars

\* "Re-publish messages stuck in queued/processing at startup ... so the
\* pipeline handler picks it up normally" (message_state_cache.py:206-210).
LostRowsRunAgain ==
  [][phase = "init" /\ phase' = "requeued" =>
       \A c \in LostRows : pc'[row[c].msg] = "asked"]_vars

\* "so both WS adapters and REST callers receive the error message rather than
\* hanging" (adapter_ws_server.py:620): behind a link that holds, every message
\* sent is answered, although answers are routed by conversation only and
\* other users of the lock come in between.  The exceptions are the two silent
\* returns of the handler, a refused lock and an unavailable provider
\* (ai_pipeline_handler.py:58-63 and 89-90).
AnsweredOrDropped ==
  \A m \in Messages :
    bridge[m] = "ack" ~> bridge[m] = "answered" \/ pc[m] = "dropped"
=============================================================================
