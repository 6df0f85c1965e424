----------------------------- MODULE MCServices -----------------------------
(***************************************************************************)
(* The components that share no state with one another, for TLC: every     *)
(* behaviour is one of a single component, chosen at the start, while the  *)
(* others stay as they are.                                                *)
(***************************************************************************)
EXTENDS SelfModSession, PipelineRun, WhatsAppBridge, DiscordBridge, RestApi, AdapterCalls, McpClient,
        IdleWork, MCMemoryGraph, SandboxJobs

CONSTANT Parts  \* the components that may run

VARIABLE part

MCToolOf == [c \in Calls |-> IF c = "b" THEN "write" ELSE "read"]
MCResponses == {<<>>, <<"b", "a1">>, <<"a1", "a2">>}
MCChatOf == [m \in Incoming |-> IF m = "m3" THEN "chat2" ELSE "chat1"]
MCThreadOf == [r \in Requests |-> IF r = "r3" THEN "thread2" ELSE "thread1"]

Init ==
  /\ part \in Parts
  /\ SessInit /\ RunInit /\ WaInit /\ DiscordInit /\ RestInit /\ CallInit /\ McpInit
  /\ IdleInit /\ GraphInit /\ JobInit
  \* Components that stay as they are need no choices of their own.
  /\ part # "sessions" => repo = "none"
  /\ part # "mcp" => ~remote /\ ~autoReconnect
  /\ part # "memory" => \A m \in Memories : about[m] = "tea"

Turn(p) == part = p /\ UNCHANGED part
Sessions_ == Turn("sessions") /\ SessNext /\ UNCHANGED <<runVars, waVars, discordVars, restVars, callVars, mcpVars, idleVars, graphVars, jobVars>>
Pipeline_ == Turn("pipeline") /\ RunNext /\ UNCHANGED <<sessVars, waVars, discordVars, restVars, callVars, mcpVars, idleVars, graphVars, jobVars>>
WhatsApp_ == Turn("whatsapp") /\ WaNext /\ UNCHANGED <<sessVars, runVars, discordVars, restVars, callVars, mcpVars, idleVars, graphVars, jobVars>>
Discord_ == Turn("discord") /\ DiscordNext /\ UNCHANGED <<sessVars, runVars, waVars, restVars, callVars, mcpVars, idleVars, graphVars, jobVars>>
Rest_ == Turn("rest") /\ RestNext /\ UNCHANGED <<sessVars, runVars, waVars, discordVars, callVars, mcpVars, idleVars, graphVars, jobVars>>
Calls_ == Turn("calls") /\ CallNext /\ UNCHANGED <<sessVars, runVars, waVars, discordVars, restVars, mcpVars, idleVars, graphVars, jobVars>>
Mcp_ == Turn("mcp") /\ McpNext /\ UNCHANGED <<sessVars, runVars, waVars, discordVars, restVars, callVars, idleVars, graphVars, jobVars>>
Idle_ == Turn("idle") /\ IdleNext /\ UNCHANGED <<sessVars, runVars, waVars, discordVars, restVars, callVars, mcpVars, graphVars, jobVars>>
Memory_ == Turn("memory") /\ GraphNext /\ UNCHANGED <<sessVars, runVars, waVars, discordVars, restVars, callVars, mcpVars, idleVars, jobVars>>
Sandbox_ == Turn("sandbox") /\ JobNext /\ UNCHANGED <<sessVars, runVars, waVars, discordVars, restVars, callVars, mcpVars, idleVars, graphVars>>

Next == Sessions_ \/ Pipeline_ \/ WhatsApp_ \/ Discord_ \/ Rest_ \/ Calls_ \/ Mcp_ \/ Idle_ \/ Memory_ \/ Sandbox_

vars == <<part, sessVars, runVars, waVars, discordVars, restVars, callVars, mcpVars, idleVars, graphVars, jobVars>>

\* The fairness that each component states, for the one that runs.
Fairness ==
  /\ WF_runVars(part = "pipeline" /\ ~ToolRuns /\ Proceed)
  /\ \A m \in Incoming : WF_waVars(part = "whatsapp" /\ WaStep(m))
  /\ \A m \in Posts : WF_discordVars(part = "discord" /\ PostStep(m))
  /\ \A g \in 1..MaxConnects : WF_mcpVars(part = "mcp" /\ MonitorReacts(g))
  /\ WF_idleVars(part = "idle" /\ Tick) /\ WF_idleVars(part = "idle" /\ Midnight)
  /\ WF_idleVars(part = "idle" /\ (CuriosityTurn \/ CuriosityRefused))
  /\ \A t \in Topics : WF_idleVars(part = "idle" /\ BackoffEnds(t))

Spec == Init /\ [][Next]_vars /\ Fairness

\* The variables of every component have their types.
ServicesTypeOK ==
  /\ part \in Parts
  /\ SessTypeOK /\ RunTypeOK /\ WaTypeOK /\ DiscordTypeOK /\ RestTypeOK /\ CallTypeOK /\ McpTypeOK /\ IdleTypeOK
  /\ GraphTypeOK /\ JobTypeOK

\* A message that either bridge has put into the queue of its conversation is done with,
\* and the next one gets its turn; only the end of the process takes it.
EveryMessageIsDone == EveryMessageEnds /\ EveryPostEnds

\* Both callers that the server answers by conversation, the handler of REST requests and
\* the WhatsApp bridge, keep the promise of ConversationReplies.
GivesReplies == RestGivesReplies /\ WaGivesReplies
=============================================================================
