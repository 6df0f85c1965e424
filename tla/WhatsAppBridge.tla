--------------------------- MODULE WhatsAppBridge ---------------------------
(***************************************************************************)
(* The WhatsApp bridge (adapters/whatsapp_bridge/index.js): one Node       *)
(* process between WhatsApp and the socket of the server.  Messages of a   *)
(* chat go one at a time; an answer is matched to the chat, not to the     *)
(* message.  A rejected promise that nobody awaits ends the process (Node  *)
(* 20); docker starts it again.                                            *)
(***************************************************************************)
EXTENDS Naturals, Sequences

CONSTANTS
  Incoming,  \* messages of WhatsApp users
  Chats, ChatOf,
  Window,    \* max_history
  NoMsg,     \* no message
  MaxCloses  \* bound on the closings of the socket

ASSUME WaAssumption == NoMsg \notin Incoming /\ ChatOf \in [Incoming -> Chats] /\ Window \in Nat \ {0} /\ MaxCloses \in Nat

VARIABLES
  alive,     \* the process
  client,    \* clientInitStarted: WhatsApp is connected after the first capabilities.ack
  socket,    \* "closed" (a reconnect timer runs), "connecting", "open"
  closes,
  waStage,   \* "new", "deciding", "queued", "typing", "writing", "sent", "answered", "failing", "over", "lost"
  line,      \* convQueues: the chain of promises of a chat
  waiting,   \* pendingResponses: per chat the message whose entry it is
  reply,     \* the message whose answer has been taken for this one
  typing,    \* messages with a typing loop
  owed,      \* messages the server has still to answer
  waHistory  \* history.db per chat: survives restarts

memory == <<client, socket, waStage, line, waiting, reply, typing>>
waVars == <<alive, closes, memory, owed, waHistory>>

Entry(m) == waiting[ChatOf[m]] = m
Current(m) == line[ChatOf[m]] # <<>> /\ Head(line[ChatOf[m]]) = m
Busy == {"deciding", "queued", "typing", "writing", "sent", "answered", "failing"}
Stage(m, s) == waStage' = [waStage EXCEPT ![m] = s]
Forget(c) == [waiting EXCEPT ![c] = NoMsg]

\* Mutant: one message too many is kept.
RememberOneMore(m, role) ==
  LET all == Append(waHistory[ChatOf[m]], <<role, m>>)
      first == IF Len(all) > Window + 1 THEN Len(all) - Window ELSE 1
  IN waHistory' = [waHistory EXCEPT ![ChatOf[m]] = SubSeq(all, first, Len(all))]

\* ConversationHistory.append: insert, then prune to the newest of the chat.
Remember(m, role) ==
  LET all == Append(waHistory[ChatOf[m]], <<role, m>>)
      first == IF Len(all) > Window THEN Len(all) - Window + 1 ELSE 1
  IN waHistory' = [waHistory EXCEPT ![ChatOf[m]] = SubSeq(all, first, Len(all))]

WaInit ==
  /\ alive = TRUE /\ client = FALSE /\ socket = "connecting" /\ closes = 0
  /\ waStage = [m \in Incoming |-> "new"]
  /\ line = [c \in Chats |-> <<>>] /\ waiting = [c \in Chats |-> NoMsg]
  /\ reply = [m \in Incoming |-> NoMsg] /\ typing = {} /\ owed = {}
  /\ waHistory = [c \in Chats |-> <<>>]

-----------------------------------------------------------------------------
(* The process and its socket. *)

Die ==
  /\ alive' = FALSE /\ client' = FALSE /\ socket' = "closed"
  /\ waStage' = [m \in Incoming |-> IF waStage[m] \in Busy THEN "lost" ELSE waStage[m]]
  /\ line' = [c \in Chats |-> <<>>] /\ waiting' = [c \in Chats |-> NoMsg]
  /\ reply' = [m \in Incoming |-> NoMsg] /\ typing' = {}
  /\ UNCHANGED <<owed, waHistory>>

Restart ==
  /\ ~alive
  /\ alive' = TRUE /\ socket' = "connecting"
  /\ UNCHANGED <<client, closes, waStage, line, waiting, reply, typing, owed, waHistory>>

\* main: no configuration within 30 s.
ConfigTimesOut == alive /\ ~client /\ Die /\ UNCHANGED closes

Open ==
  /\ socket = "connecting" /\ socket' = "open"
  /\ UNCHANGED <<alive, closes, client, waStage, line, waiting, reply, typing, owed, waHistory>>

\* capabilities.ack starts the client once per process.
AckConfig ==
  /\ socket = "open" /\ ~client /\ client' = TRUE
  /\ UNCHANGED <<alive, closes, socket, waStage, line, waiting, reply, typing, owed, waHistory>>

\* 'close', of an open socket or of a failed attempt: every entry is rejected. That of
\* a message being written has no handler yet.
Close ==
  /\ alive /\ socket # "closed" /\ closes < MaxCloses
  /\ closes' = closes + 1
  /\ IF \E m \in Incoming : Entry(m) /\ waStage[m] = "writing" THEN Die
     ELSE /\ socket' = "closed"
          /\ waStage' = [m \in Incoming |-> IF Entry(m) THEN "failing" ELSE waStage[m]]
          /\ waiting' = [c \in Chats |-> NoMsg]
          /\ UNCHANGED <<alive, client, line, reply, typing, owed, waHistory>>

Reconnect ==
  /\ alive /\ socket = "closed" /\ socket' = "connecting"
  /\ UNCHANGED <<alive, closes, client, waStage, line, waiting, reply, typing, owed, waHistory>>

-----------------------------------------------------------------------------
(* A message. *)

Arrive(m) ==
  /\ client /\ waStage[m] = "new" /\ Stage(m, "deciding")
  /\ UNCHANGED <<alive, closes, client, socket, line, waiting, reply, typing, owed, waHistory>>

\* shouldRespond may look a contact up, so a later message may overtake this one. A
\* !clear is obeyed at once, beside the queue.
Decide(m) ==
  /\ waStage[m] = "deciding"
  /\ \/ Stage(m, "over") /\ UNCHANGED <<line, waHistory>>
     \/ Stage(m, "over") /\ waHistory' = [waHistory EXCEPT ![ChatOf[m]] = <<>>] /\ UNCHANGED line
     \/ Stage(m, "queued") /\ line' = [line EXCEPT ![ChatOf[m]] = Append(@, m)] /\ UNCHANGED waHistory
  /\ UNCHANGED <<alive, closes, client, socket, waiting, reply, typing, owed>>

\* The finally block: the typing loop ends and the queue goes on.
Leave(m) ==
  /\ Stage(m, "over")
  /\ typing' = typing \ {m}
  /\ line' = [line EXCEPT ![ChatOf[m]] = Tail(@)]

\* Mutant: the task is started beside the queue instead of after its predecessor.
BeginAtOnce(m) ==
  /\ waStage[m] = "queued"
  /\ Stage(m, "typing") /\ typing' = typing \cup {m} /\ UNCHANGED line
  /\ UNCHANGED <<alive, closes, client, socket, waiting, reply, owed, waHistory>>

\* Mutant: the chain goes on only after a task that has not failed.
BeginBreakingChain(m) ==
  /\ waStage[m] = "queued" /\ Current(m)
  /\ \/ Stage(m, "typing") /\ typing' = typing \cup {m} /\ UNCHANGED line
     \/ Stage(m, "over") /\ UNCHANGED <<typing, line>>
  /\ UNCHANGED <<alive, closes, client, socket, waiting, reply, owed, waHistory>>

\* getChat may fail, which only the queue catches.
Begin(m) ==
  /\ waStage[m] = "queued" /\ Current(m)
  /\ \/ Stage(m, "typing") /\ typing' = typing \cup {m} /\ UNCHANGED line
     \/ Leave(m)
  /\ UNCHANGED <<alive, closes, client, socket, waiting, reply, owed, waHistory>>

\* The user's text joins the history, the entry is made, and sendWsEvent waits for an
\* open socket. An entry that is there already is superseded, that is, rejected.
Ask(m) ==
  LET old == waiting[ChatOf[m]]
  IN /\ waStage[m] = "typing"
     /\ waiting' = [waiting EXCEPT ![ChatOf[m]] = m]
     /\ waStage' = [x \in Incoming |-> IF x = m THEN "writing" ELSE IF x = old THEN "failing" ELSE waStage[x]]
     /\ Remember(m, "user")
     /\ UNCHANGED <<alive, closes, client, socket, line, reply, typing, owed>>

\* Written, the promise is awaited; it may have been resolved already.
Written(m) ==
  /\ waStage[m] = "writing" /\ socket = "open"
  /\ Stage(m, IF Entry(m) THEN "sent" ELSE "answered")
  /\ owed' = owed \cup {m}
  /\ UNCHANGED <<alive, closes, client, socket, line, waiting, reply, typing, waHistory>>

\* 30 s without a socket, or the write fails: the catch block rejects the entry, whose
\* promise nobody awaits, and throws on.
WriteFails(m) ==
  /\ waStage[m] = "writing"
  /\ IF Entry(m) THEN Die
     ELSE /\ Stage(m, "failing")
          /\ UNCHANGED <<alive, client, socket, line, waiting, reply, typing, owed, waHistory>>
  /\ UNCHANGED closes

\* Mutant: whichever chat waits takes the answer.
AnswerOfAnyChat(m) ==
  \E c \in Chats : LET p == waiting[c] IN
    /\ m \in owed /\ owed' = owed \ {m}
    /\ socket = "open" /\ p # NoMsg
    /\ waiting' = Forget(c) /\ reply' = [reply EXCEPT ![p] = m]
    /\ waStage' = [waStage EXCEPT ![p] = IF @ = "sent" THEN "answered" ELSE @]
    /\ UNCHANGED <<alive, closes, client, socket, line, typing, waHistory>>

\* response.ready for the chat: whoever has the entry takes it.
Answer(m) ==
  LET p == waiting[ChatOf[m]]
      hit == socket = "open" /\ p # NoMsg
  IN /\ m \in owed /\ owed' = owed \ {m}
     /\ IF hit
        THEN /\ waiting' = Forget(ChatOf[m]) /\ reply' = [reply EXCEPT ![p] = m]
             /\ waStage' = [waStage EXCEPT ![p] = IF @ = "sent" THEN "answered" ELSE @]
        ELSE UNCHANGED <<waiting, reply, waStage>>
     /\ UNCHANGED <<alive, closes, client, socket, line, typing, waHistory>>

\* Mutant: the timeout leaves the entry in the map.
TimeOutKeepingEntry(m) ==
  /\ waStage[m] = "sent" /\ Entry(m)
  /\ Stage(m, "failing")
  /\ UNCHANGED <<alive, closes, client, socket, line, waiting, reply, typing, owed, waHistory>>

\* RESPONSE_TIMEOUT_MS.
TimeOut(m) ==
  /\ waStage[m] = "sent" /\ Entry(m)
  /\ waiting' = Forget(ChatOf[m]) /\ Stage(m, "failing")
  /\ UNCHANGED <<alive, closes, client, socket, line, reply, typing, owed, waHistory>>

\* The answer, or <ignore>, joins the history after it has been sent; a failing send
\* is one more error.
Reply(m) ==
  /\ waStage[m] = "answered"
  /\ \/ Leave(m) /\ Remember(m, "assistant")
     \/ Stage(m, "failing") /\ UNCHANGED <<line, typing, waHistory>>
  /\ UNCHANGED <<alive, closes, client, socket, waiting, reply, owed>>

\* errorReply, sent if WhatsApp takes it.
Apologise(m) ==
  /\ waStage[m] = "failing" /\ Leave(m)
  /\ UNCHANGED <<alive, closes, client, socket, waiting, reply, owed, waHistory>>

WaStep(m) == Decide(m) \/ Begin(m) \/ Ask(m) \/ Written(m) \/ WriteFails(m) \/ TimeOut(m) \/ Reply(m) \/ Apologise(m)
WaNext ==
  \/ Restart \/ ConfigTimesOut \/ Open \/ AckConfig \/ Close \/ Reconnect
  \/ \E m \in Incoming : Arrive(m) \/ Answer(m) \/ WaStep(m)
WaSpec == WaInit /\ [][WaNext]_waVars /\ \A m \in Incoming : WF_waVars(WaStep(m))

-----------------------------------------------------------------------------
WaTypeOK ==
  /\ alive \in BOOLEAN /\ client \in BOOLEAN /\ closes \in 0..MaxCloses
  /\ socket \in {"closed", "connecting", "open"}
  /\ waStage \in [Incoming -> Busy \cup {"new", "over", "lost"}]
  /\ line \in [Chats -> Seq(Incoming)] /\ waiting \in [Chats -> Incoming \cup {NoMsg}]
  /\ reply \in [Incoming -> Incoming \cup {NoMsg}] /\ typing \cup owed \subseteq Incoming
  /\ \A c \in Chats : waHistory[c] \in Seq({"user", "assistant"} \X Incoming) /\ Len(waHistory[c]) <= Window

\* An entry belongs to the current message of its chat, so it is never superseded; a
\* message that waits for its answer has the entry an answer or the timeout resolves;
\* and none is left over for an answer that comes later than its message's end. "Typing"
\* shows for the current message of a chat only, and ends with it.
EntryIsCurrent ==
  \A m \in Incoming :
    /\ Entry(m) => Current(m) /\ waStage[m] \in {"writing", "sent"}
    /\ waStage[m] = "sent" => Entry(m)
    /\ waStage[m] = "typing" => waiting[ChatOf[m]] = NoMsg
    /\ m \in typing => Current(m) /\ waStage[m] \in Busy

\* A message that has been accepted is done with, whatever the server, the socket and
\* WhatsApp do, and the next one gets its turn; only the death of the process takes it.
EveryMessageEnds == \A m \in Incoming : waStage[m] = "queued" ~> waStage[m] \in {"over", "lost"}

-----------------------------------------------------------------------------
(* What the bridge makes of the server's answers: ConversationReplies. *)

Asking(m) == waStage[m] \in {"writing", "sent", "answered"}
waStatus == [m \in Incoming |-> CASE waStage[m] \in {"new", "deciding", "queued", "typing"} -> "new"
                                  [] waStage[m] = "writing" -> "open"
                                  [] waStage[m] \in {"sent", "answered"} -> "sent"
                                  [] OTHER -> "closed"]
waReply == [m \in Incoming |-> IF Asking(m) THEN reply[m] ELSE NoMsg]

WaTalk == INSTANCE ConversationReplies WITH
  Requests <- Incoming, Talk <- ChatOf, None <- NoMsg, status <- waStatus, reply <- waReply

\* Entries keyed by chat implement it, over closed sockets, timeouts and the death of
\* the process: an answer resolves at most one message, of its own chat, that waits and
\* has none.
WaGivesReplies == WaTalk!Spec
=============================================================================
