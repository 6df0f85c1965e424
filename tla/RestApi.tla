------------------------------ MODULE RestApi -------------------------------
(***************************************************************************)
(* POST /v1/chat/completions (api_server.py): a request publishes          *)
(* message.received and waits for response.ready through a future that is  *)
(* registered under its conversation (adapter_ws_server.py).               *)
(***************************************************************************)
CONSTANTS
  Requests,
  Threads, ThreadOf,  \* conversations: given by the client, or made up for one request
  NoRequest

ASSUME RestAssumption == ThreadOf \in [Requests -> Threads] /\ NoRequest \notin Requests

VARIABLES
  rest,     \* the handler: "new", "publishing", "waiting", "answered", "timed out", "failed"
  pending,  \* _rest_pending: per conversation the request whose future is registered
  future,   \* per request: whose answer has been set
  pipe      \* the pipeline's handler: "none", "asked", "running", "answered", "dropped"

restVars == <<rest, pending, future, pipe>>

Alone(r) == \A x \in Requests \ {r} : ThreadOf[x] # ThreadOf[r]
\* Mutant: a future that has its answer is set again.
TakesAgain(c) == pending[c] # NoRequest

\* response.ready: true if the future of the conversation took it.
Takes(c) == pending[c] # NoRequest /\ future[pending[c]] = NoRequest

RestInit ==
  /\ rest = [r \in Requests |-> "new"] /\ pending = [c \in Threads |-> NoRequest]
  /\ future = [r \in Requests |-> NoRequest] /\ pipe = [r \in Requests |-> "none"]

\* Registering replaces whatever is registered. Publishing awaits every subscriber,
\* so it lasts as long as the pipeline's handler does.
Post(r) ==
  /\ rest[r] = "new"
  /\ rest' = [rest EXCEPT ![r] = "publishing"]
  /\ pending' = [pending EXCEPT ![ThreadOf[r]] = r]
  /\ pipe' = [pipe EXCEPT ![r] = "asked"]
  /\ UNCHANGED future

\* The global lock lets one run at a time.
RunPipeline(r) ==
  /\ pipe[r] = "asked" /\ \A x \in Requests : pipe[x] # "running"
  /\ pipe' = [pipe EXCEPT ![r] = "running"]
  /\ UNCHANGED <<rest, pending, future>>

\* Refused by the lock, or no provider: nothing is published.
DropRequest(r) ==
  /\ pipe[r] \in {"asked", "running"} /\ pipe' = [pipe EXCEPT ![r] = "dropped"]
  /\ UNCHANGED <<rest, pending, future>>

\* Mutant: the answer is handed to the first request of the conversation that waits.
RespondToAny(r) ==
  /\ pipe[r] = "running" /\ pipe' = [pipe EXCEPT ![r] = "answered"]
  /\ \E x \in Requests : /\ rest[x] \in {"publishing", "waiting"} /\ future[x] = NoRequest
                         /\ future' = [future EXCEPT ![x] = r]
  /\ UNCHANGED <<rest, pending>>

\* response.ready, with the answer or with an error text. If no future takes it, it goes
\* to the adapter "rest_api", which is nobody.
Respond(r) ==
  LET c == ThreadOf[r]
  IN /\ pipe[r] = "running" /\ pipe' = [pipe EXCEPT ![r] = "answered"]
     /\ future' = IF Takes(c) THEN [future EXCEPT ![pending[c]] = r] ELSE future
     /\ UNCHANGED <<rest, pending>>

\* Only now does the wait with its timeout of 120 s begin.
PublishReturns(r) ==
  /\ rest[r] = "publishing" /\ pipe[r] \in {"answered", "dropped"}
  /\ rest' = [rest EXCEPT ![r] = "waiting"]
  /\ UNCHANGED <<pending, future, pipe>>

\* The finally block removes what is registered for the conversation, whoever did.
LeaveRest(r, outcome) ==
  /\ rest' = [rest EXCEPT ![r] = outcome]
  /\ pending' = [pending EXCEPT ![ThreadOf[r]] = NoRequest]

Return(r) ==
  /\ rest[r] = "waiting"
  /\ LeaveRest(r, IF future[r] # NoRequest THEN "answered" ELSE "timed out")
  /\ UNCHANGED <<future, pipe>>

\* The request is cancelled at an await, as by a shutdown: the finally block runs, and
\* the pipeline's handler is cancelled with the publisher that awaits it.
Fail(r) ==
  /\ rest[r] \in {"publishing", "waiting"}
  /\ LeaveRest(r, "failed")
  /\ pipe' = [pipe EXCEPT ![r] = IF @ \in {"asked", "running"} THEN "dropped" ELSE @]
  /\ UNCHANGED future

RestStep(r) == RunPipeline(r) \/ DropRequest(r) \/ Respond(r) \/ PublishReturns(r) \/ Return(r)
RestNext == \E r \in Requests : Post(r) \/ RestStep(r) \/ Fail(r)
RestSpec == RestInit /\ [][RestNext]_restVars

-----------------------------------------------------------------------------
RestTypeOK ==
  /\ rest \in [Requests -> {"new", "publishing", "waiting", "answered", "timed out", "failed"}]
  /\ pending \in [Threads -> Requests \cup {NoRequest}] /\ future \in [Requests -> Requests \cup {NoRequest}]
  /\ pipe \in [Requests -> {"none", "asked", "running", "answered", "dropped"}]

\* However the requests of a conversation get in each other's way, a registered future
\* is that of a request that still waits for it: none is left behind.
FutureIsAwaited == \A c \in Threads : pending[c] # NoRequest =>
  ThreadOf[pending[c]] = c /\ rest[pending[c]] \in {"publishing", "waiting"}

\* A request with its conversation to itself gets the answer to its own message, and
\* times out only if its message was dropped.
OwnAnswer == \A r \in Requests : Alone(r) =>
  /\ rest[r] = "answered" => future[r] = r
  /\ rest[r] = "timed out" => pipe[r] = "dropped"

-----------------------------------------------------------------------------
(* What the handler promises: ConversationReplies. *)

Waiting(r) == rest[r] \in {"publishing", "waiting"}
restStatus == [r \in Requests |-> CASE rest[r] = "new" -> "new"
                                    [] Waiting(r) -> "sent"
                                    [] OTHER -> "closed"]
restReply == [r \in Requests |-> IF Waiting(r) THEN future[r] ELSE NoRequest]

RestTalk == INSTANCE ConversationReplies WITH
  Talk <- ThreadOf, None <- NoRequest,
  status <- restStatus, reply <- restReply, owed <- {r \in Requests : pipe[r] \in {"asked", "running"}}

\* Futures keyed by conversation, replaced and removed by whichever request comes or
\* goes, implement it: an answer resolves at most one request, of its own conversation,
\* that waits and has none.
RestGivesReplies == RestTalk!Spec
=============================================================================
