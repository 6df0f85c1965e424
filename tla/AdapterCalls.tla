---------------------------- MODULE AdapterCalls ----------------------------
(***************************************************************************)
(* What the server asks of a bridge (lib/services/adapter_ws_server.py):   *)
(* actions, with a future per call, and messages pushed without an answer. *)
(* The link of one adapter breaks and is opened again; server and bridge   *)
(* notice at different times.                                              *)
(***************************************************************************)
EXTENDS Naturals

CONSTANTS
  Actions,   \* calls of adapter actions by the model: each has a call_id of its own
  Pushes,    \* messages pushed to the adapter
  MaxLinks   \* bound on the connections of the bridge

ASSUME CallAssumption == MaxLinks \in Nat \ {0} /\ Actions \cap Pushes = {}

VARIABLES
  opened,    \* connections the bridge has opened
  link,      \* the one it uses; 0 is none
  handlers,  \* connections the server still reads from
  registered, \* _connections: the one the server writes to; 0 is none
  offered,   \* _adapter_tools is set
  call,      \* per call: "new", "waiting", "ok", "error", "timeout", "cancelled"
  futures,   \* _action_futures
  carried,   \* invocations that have reached the bridge
  did,       \* history: per call what the bridge made of it, "none" before
  outcome,   \* per call: the result the bridge has still to send, or "none"
  pushed     \* per message: "new", "delivered", "lost"

linkEnds == <<opened, link, handlers, registered>>
callVars == <<linkEnds, offered, call, futures, carried, did, outcome, pushed>>

CallInit ==
  /\ opened = 0 /\ link = 0 /\ handlers = {} /\ registered = 0 /\ offered = FALSE
  /\ call = [k \in Actions |-> "new"] /\ futures = {} /\ carried = {}
  /\ did = [k \in Actions |-> "none"] /\ outcome = [k \in Actions |-> "none"]
  /\ pushed = [p \in Pushes |-> "new"]

\* The server's messages arrive if it writes to the link that the bridge uses.
Arrives == registered # 0 /\ registered = link

-----------------------------------------------------------------------------
(* The link. *)

\* handle_connection: accepted and registered at once, replacing an older connection,
\* which is not closed.
OpenLink ==
  /\ link = 0 /\ opened < MaxLinks
  /\ opened' = opened + 1 /\ link' = opened + 1
  /\ handlers' = handlers \cup {opened + 1} /\ registered' = opened + 1
  /\ UNCHANGED <<offered, call, futures, carried, did, outcome, pushed>>

\* The bridge's socket closes. What it is carrying out goes on.
BreakLink ==
  /\ link # 0 /\ link' = 0
  /\ UNCHANGED <<opened, handlers, registered, offered, call, futures, carried, did, outcome, pushed>>

\* Mutant: the handler that ends clears the registration, whoever made it.
NoticeClearing(n) ==
  /\ n \in handlers /\ n # link
  /\ handlers' = handlers \ {n} /\ registered' = 0
  /\ UNCHANGED <<opened, link, offered, call, futures, carried, did, outcome, pushed>>

\* The server's read fails; the handler clears the registration if it is its own.
NoticeClosed(n) ==
  /\ n \in handlers /\ n # link
  /\ handlers' = handlers \ {n}
  /\ registered' = IF registered = n THEN 0 ELSE registered
  /\ UNCHANGED <<opened, link, offered, call, futures, carried, did, outcome, pushed>>

\* capabilities.register: the tools stay when the adapter goes.
RegisterTools ==
  /\ link # 0 /\ ~offered /\ offered' = TRUE
  /\ UNCHANGED <<linkEnds, call, futures, carried, did, outcome, pushed>>

-----------------------------------------------------------------------------
(* Calls of actions. *)

\* invoke_action: the future is there before the message is sent, and the call waits
\* for 30 s even if nobody is connected.
Invoke(k) ==
  /\ offered /\ call[k] = "new"
  /\ call' = [call EXCEPT ![k] = "waiting"]
  /\ futures' = futures \cup {k}
  /\ carried' = IF Arrives THEN carried \cup {k} ELSE carried
  /\ UNCHANGED <<linkEnds, offered, did, outcome, pushed>>

\* executeAction: whatever it throws is an error result.
CarryOut(k) ==
  /\ k \in carried /\ carried' = carried \ {k}
  /\ \E r \in {"ok", "error"} : outcome' = [outcome EXCEPT ![k] = r] /\ did' = [did EXCEPT ![k] = r]
  /\ UNCHANGED <<linkEnds, offered, call, futures, pushed>>

\* Mutant: a result that nobody waits for any more is taken by another call.
ReportToAnother(k) ==
  /\ outcome[k] # "none" /\ outcome' = [outcome EXCEPT ![k] = "none"]
  /\ link # 0
  /\ LET takers == {x \in futures : call[x] = "waiting"} IN
       /\ call' = [x \in Actions |-> IF x \in takers THEN outcome[k] ELSE call[x]]
       /\ futures' = futures \ takers
  /\ UNCHANGED <<linkEnds, offered, carried, did, pushed>>

\* action.result over the link the bridge has by then; without one for 30 s it is
\* given up. The server takes it if the call still waits.
Report(k) ==
  /\ outcome[k] # "none" /\ outcome' = [outcome EXCEPT ![k] = "none"]
  /\ IF link = 0 THEN UNCHANGED <<call, futures>>
     ELSE /\ futures' = futures \ {k}
          /\ call' = [call EXCEPT ![k] = IF @ = "waiting" THEN outcome[k] ELSE @]
  /\ UNCHANGED <<linkEnds, offered, carried, did, pushed>>

CallTimesOut(k) ==
  /\ call[k] = "waiting"
  /\ call' = [call EXCEPT ![k] = "timeout"] /\ futures' = futures \ {k}
  /\ UNCHANGED <<linkEnds, offered, carried, did, outcome, pushed>>

\* The pipeline's timeout cancels the run: the future stays, unless a result comes.
CancelCall(k) ==
  /\ call[k] = "waiting" /\ call' = [call EXCEPT ![k] = "cancelled"]
  /\ UNCHANGED <<linkEnds, offered, futures, carried, did, outcome, pushed>>

\* send.message, send.dm: written to whatever is registered, and forgotten.
Push(p) ==
  /\ pushed[p] = "new"
  /\ pushed' = [pushed EXCEPT ![p] = IF Arrives THEN "delivered" ELSE "lost"]
  /\ UNCHANGED <<linkEnds, offered, call, futures, carried, did, outcome>>

CallStep(k) == CarryOut(k) \/ Report(k) \/ CallTimesOut(k)
CallNext ==
  \/ OpenLink \/ BreakLink \/ RegisterTools \/ \E n \in 1..MaxLinks : NoticeClosed(n)
  \/ \E k \in Actions : Invoke(k) \/ CallStep(k) \/ CancelCall(k)
  \/ \E p \in Pushes : Push(p)
CallSpec == CallInit /\ [][CallNext]_callVars

-----------------------------------------------------------------------------
CallTypeOK ==
  /\ opened \in 0..MaxLinks /\ {link, registered} \subseteq 0..opened /\ handlers \subseteq 1..opened
  /\ offered \in BOOLEAN /\ futures \cup carried \subseteq Actions
  /\ call \in [Actions -> {"new", "waiting", "ok", "error", "timeout", "cancelled"}]
  /\ {did, outcome} \subseteq [Actions -> {"none", "ok", "error"}]
  /\ pushed \in [Pushes -> {"new", "delivered", "lost"}]

\* What the model is told of an action is what its own invocation did, whichever
\* connection the result comes over and however late; and a call that waits has the
\* future through which it ends.
ResultIsOwn ==
  \A k \in Actions :
    /\ call[k] \in {"ok", "error"} => did[k] = call[k]
    /\ call[k] = "waiting" => k \in futures
    /\ k \in futures => call[k] \in {"waiting", "cancelled"}

\* A message pushed while the bridge is connected reaches it, though handlers of its
\* former connections may end at any time.
PushReachesLink == [][\A p \in Pushes : pushed[p] = "new" /\ pushed'[p] = "lost" => link = 0]_callVars
=============================================================================
