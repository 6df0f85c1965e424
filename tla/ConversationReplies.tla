------------------------ MODULE ConversationReplies ------------------------
(***************************************************************************)
(* What a caller of the server is promised, although replies are matched   *)
(* to conversations and not to requests: a reply goes to at most one       *)
(* request, which is one of the conversation, waits for a reply and has    *)
(* none; and a request that has ended is never resolved.                   *)
(*                                                                         *)
(* Nothing is said here of maps, futures, queues or timers: the handler of *)
(* REST requests (RestApi) and the WhatsApp bridge (WhatsAppBridge)        *)
(* implement this module, one on either side of the server.                *)
(***************************************************************************)
CONSTANTS
  Requests,
  Talk,      \* Talk[r]: the conversation of r
  None       \* no reply

VARIABLES
  status,    \* status[r]: "new", "open", "sent" or "closed"
  reply,     \* reply[r]: the request whose reply the open request r has got
  owed       \* requests whose reply is still to come

talkVars == <<status, reply, owed>>

Waits(r) == status[r] \in {"open", "sent"} /\ reply[r] = None

Init ==
  /\ status = [r \in Requests |-> "new"]
  /\ reply = [r \in Requests |-> None]
  /\ owed = {}

\* A request may be resolved from here on, even before it is written.
Register(r) ==
  /\ status[r] = "new"
  /\ status' = [status EXCEPT ![r] = "open"]
  /\ UNCHANGED <<reply, owed>>

\* The server has the request; it replies to it once.
Send(r) ==
  /\ status[r] \in {"new", "open"}
  /\ status' = [status EXCEPT ![r] = "sent"]
  /\ owed' = owed \cup {r}
  /\ UNCHANGED reply

\* The reply to q is given to r.
Deliver(q, r) ==
  /\ q \in owed /\ owed' = owed \ {q}
  /\ Talk[q] = Talk[r] /\ Waits(r)
  /\ reply' = [reply EXCEPT ![r] = q]
  /\ UNCHANGED status

\* Nobody takes the reply to q, or there is none.
Lose(q) ==
  /\ q \in owed /\ owed' = owed \ {q}
  /\ UNCHANGED <<status, reply>>

\* Requests end, replied to or not; what is owed to them may be called off.
Close(R) ==
  /\ \A r \in R : status[r] # "closed"
  /\ status' = [r \in Requests |-> IF r \in R THEN "closed" ELSE status[r]]
  /\ reply' = [r \in Requests |-> IF r \in R THEN None ELSE reply[r]]
  /\ owed' \in {owed, owed \ R}

Next ==
  \/ \E R \in SUBSET Requests : Close(R)
  \/ \E r \in Requests : Register(r) \/ Send(r) \/ Lose(r)
  \/ \E q, r \in Requests : Deliver(q, r)

Spec == Init /\ [][Next]_talkVars
=============================================================================
