----------------------------- MODULE McpClient ------------------------------
(***************************************************************************)
(* Tools of one configured MCP server (lib/mcp_client.py,                  *)
(* lib/utils/mcp_loader.py): a process with JSON-RPC over its pipes, or a  *)
(* session of HTTP requests.  The pipes are read line by line; neither the *)
(* id of a response is looked at nor whether a line is one: notifications  *)
(* and stray output take the place of responses.  Every reload of the      *)
(* tools and every research run connects again.                            *)
(***************************************************************************)
EXTENDS Naturals, Sequences

CONSTANTS
  McpCalls,    \* tool calls; the global lock admits one at a time
  NoAnswer,
  Stray,       \* a line that is no response to a call
  MaxConnects, \* bound on connections
  MaxStrays    \* bound on stray lines

ASSUME McpAssumption ==
  /\ NoAnswer \notin McpCalls /\ Stray \notin McpCalls /\ NoAnswer # Stray
  /\ MaxConnects \in Nat \ {0} /\ MaxStrays \in Nat

Lines == McpCalls \cup {Stray}

VARIABLES
  remote,     \* transport "http" or "sse" instead of "stdio"
  autoReconnect,
  connects,   \* connections so far, numbered
  running,    \* those whose process runs, or whose session is open
  starting,   \* those in connect_server
  serving,    \* servers[name]; 0 is none
  monitored,  \* those with a monitor task
  closed,     \* disconnect_all has run
  mcpCall,    \* per call: "new", "reading", "ended" (a result, an error or a cancellation)
  at,         \* per call: the connection it was sent over
  working,    \* requests a process has still to answer
  stdout,     \* per connection: lines not yet read
  got,        \* per call: whose response it took for its own
  strays,     \* stray lines so far
  skewed      \* history: connections with a cancelled call or a stray line

mcpLinks == <<remote, autoReconnect, connects, running, starting, serving, monitored, closed>>
mcpPipes == <<mcpCall, at, working, stdout, got, strays, skewed>>
mcpVars == <<mcpLinks, mcpPipes>>

McpInit ==
  /\ remote \in BOOLEAN /\ autoReconnect \in BOOLEAN
  /\ connects = 0 /\ running = {} /\ starting = {} /\ serving = 0 /\ monitored = {} /\ closed = FALSE
  /\ mcpCall = [k \in McpCalls |-> "new"] /\ at = [k \in McpCalls |-> 0] /\ working = {}
  /\ stdout = [g \in 1..MaxConnects |-> <<>>] /\ got = [k \in McpCalls |-> NoAnswer]
  /\ strays = 0 /\ skewed = {}

-----------------------------------------------------------------------------
(* Connections. *)

Launch ==
  /\ connects < MaxConnects
  /\ connects' = connects + 1
  /\ running' = running \cup {connects + 1} /\ starting' = starting \cup {connects + 1}

\* load_mcp_tools: at boot, for system.reload_tools and for every research run.
LoadTools ==
  /\ ~closed /\ Launch
  /\ UNCHANGED <<remote, autoReconnect, serving, monitored, closed, mcpPipes>>

\* Mutant: a server is monitored only if it is not a reconnected one.
ConnectedUnwatched(g) ==
  /\ g \in starting \cap running /\ starting' = starting \ {g}
  /\ serving' = g
  /\ monitored' = IF remote \/ monitored # {} THEN monitored ELSE monitored \cup {g}
  /\ UNCHANGED <<remote, autoReconnect, connects, running, closed, mcpPipes>>

\* initialize and tools/list are answered: the server replaces the one of that name,
\* which goes on running.
Connected(g) ==
  /\ g \in starting \cap running /\ starting' = starting \ {g}
  /\ serving' = g
  /\ monitored' = IF remote THEN monitored ELSE monitored \cup {g}
  /\ UNCHANGED <<remote, autoReconnect, connects, running, closed, mcpPipes>>

\* An error or the end of the output. A session is closed then, a process is not.
ConnectFails(g) ==
  /\ g \in starting /\ starting' = starting \ {g}
  /\ running' = IF remote THEN running \ {g} ELSE running
  /\ UNCHANGED <<remote, autoReconnect, connects, serving, monitored, closed, mcpPipes>>

ProcessExits(g) ==
  /\ g \in running /\ ~remote /\ running' = running \ {g}
  /\ working' = {k \in working : at[k] # g}
  /\ UNCHANGED <<remote, autoReconnect, connects, starting, serving, monitored, closed, mcpCall, at, stdout, got, strays, skewed>>

\* _monitor_server: whatever server has the name is removed, and there is one attempt
\* to connect again.
MonitorReacts(g) ==
  /\ g \in monitored \ running /\ monitored' = monitored \ {g}
  /\ serving' = 0
  /\ IF autoReconnect /\ connects < MaxConnects THEN Launch ELSE UNCHANGED <<connects, running, starting>>
  /\ UNCHANGED <<remote, autoReconnect, closed, mcpPipes>>

\* disconnect_all at shutdown: the monitor is cancelled before the process is ended.
DisconnectAll ==
  /\ ~closed /\ closed' = TRUE
  /\ running' = running \ {serving} /\ monitored' = monitored \ {serving} /\ serving' = 0
  /\ working' = {k \in working : at[k] # serving}
  /\ UNCHANGED <<remote, autoReconnect, connects, starting, mcpCall, at, stdout, got, strays, skewed>>

-----------------------------------------------------------------------------
(* Calls. *)

\* call_tool: without a server an error. A request to a process that has just died is
\* lost, and the end of its output is read. Which of the calls it is makes no difference.
CallTool(k) ==
  /\ mcpCall[k] = "new" /\ k = CHOOSE x \in McpCalls : mcpCall[x] = "new"
  /\ \A x \in McpCalls : mcpCall[x] # "reading"
  /\ mcpCall' = [mcpCall EXCEPT ![k] = IF serving = 0 THEN "ended" ELSE "reading"]
  /\ at' = [at EXCEPT ![k] = serving]
  /\ working' = IF serving \in running THEN working \cup {k} ELSE working
  /\ UNCHANGED <<mcpLinks, stdout, got, strays, skewed>>

\* A process may answer requests in any order.
Answers(k) ==
  /\ k \in working /\ ~remote /\ working' = working \ {k}
  /\ stdout' = [stdout EXCEPT ![at[k]] = Append(@, k)]
  /\ UNCHANGED <<mcpLinks, mcpCall, at, got, strays, skewed>>

\* A notification, a line that is not JSON, or what is left of one too long for the
\* reader. During connect_server it takes the place of a response there, which is then
\* the line that is left over. What nobody is going to read is left out.
WritesStray(g) ==
  /\ g \in running /\ ~remote /\ strays < MaxStrays /\ strays' = strays + 1
  /\ g \in starting \cup {serving} \/ \E k \in McpCalls : mcpCall[k] = "reading" /\ at[k] = g
  /\ stdout' = [stdout EXCEPT ![g] = Append(@, Stray)] /\ skewed' = skewed \cup {g}
  /\ UNCHANGED <<mcpLinks, mcpCall, at, working, got>>

\* Mutant: the responses of a process that is gone are read by the next one's calls.
ReadAny(k) ==
  /\ mcpCall[k] = "reading" /\ ~remote
  /\ \E g \in 1..MaxConnects :
       /\ stdout[g] # <<>> /\ \A h \in 1..(g - 1) : stdout[h] = <<>>
       /\ got' = [got EXCEPT ![k] = Head(stdout[g])]
       /\ stdout' = [stdout EXCEPT ![g] = Tail(@)]
  /\ mcpCall' = [mcpCall EXCEPT ![k] = "ended"]
  /\ UNCHANGED <<mcpLinks, at, working, strays, skewed>>

\* _read_message takes the next line of the server's output, whatever it is: one that
\* holds an error or is not JSON fails the call, whose own response stays unread if it
\* was another.
Read(k) ==
  /\ mcpCall[k] = "reading" /\ ~remote /\ stdout[at[k]] # <<>>
  /\ got' = [got EXCEPT ![k] = Head(stdout[at[k]])]
  /\ stdout' = [stdout EXCEPT ![at[k]] = Tail(@)]
  /\ mcpCall' = [mcpCall EXCEPT ![k] = "ended"]
  /\ UNCHANGED <<mcpLinks, at, working, strays, skewed>>

\* EOFError, or a broken pipe.
EndOfOutput(k) ==
  /\ mcpCall[k] = "reading" /\ ~remote /\ stdout[at[k]] = <<>> /\ at[k] \notin running
  /\ mcpCall' = [mcpCall EXCEPT ![k] = "ended"]
  /\ UNCHANGED <<mcpLinks, at, working, stdout, got, strays, skewed>>

\* _call_tool_http: a request of its own, with a timeout.
PostCall(k) ==
  /\ mcpCall[k] = "reading" /\ remote /\ working' = working \ {k}
  /\ mcpCall' = [mcpCall EXCEPT ![k] = "ended"]
  /\ got' = [got EXCEPT ![k] = k] \/ UNCHANGED got
  /\ UNCHANGED <<mcpLinks, at, stdout, strays, skewed>>

\* The pipeline's timeout: there is no other for a process that does not answer. Its
\* response, if it comes, stays in the pipe.
CancelRead(k) ==
  /\ mcpCall[k] = "reading" /\ mcpCall' = [mcpCall EXCEPT ![k] = "ended"]
  /\ skewed' = IF remote THEN skewed ELSE skewed \cup {at[k]}
  /\ UNCHANGED <<mcpLinks, at, working, stdout, got, strays>>

McpCallStep(k) == CallTool(k) \/ Answers(k) \/ Read(k) \/ EndOfOutput(k) \/ PostCall(k) \/ CancelRead(k)
McpNext ==
  \/ LoadTools \/ DisconnectAll
  \/ \E g \in 1..MaxConnects : Connected(g) \/ ConnectFails(g) \/ ProcessExits(g) \/ WritesStray(g) \/ MonitorReacts(g)
  \/ \E k \in McpCalls : McpCallStep(k)
McpSpec == McpInit /\ [][McpNext]_mcpVars

-----------------------------------------------------------------------------
McpTypeOK ==
  /\ remote \in BOOLEAN /\ autoReconnect \in BOOLEAN /\ closed \in BOOLEAN /\ connects \in 0..MaxConnects
  /\ running \cup starting \cup monitored \cup skewed \subseteq 1..connects /\ serving \in 0..connects
  /\ mcpCall \in [McpCalls -> {"new", "reading", "ended"}]
  /\ at \in [McpCalls -> 0..connects] /\ working \subseteq McpCalls
  /\ stdout \in [1..MaxConnects -> Seq(Lines)] /\ got \in [McpCalls -> Lines \cup {NoAnswer}]
  /\ strays \in 0..MaxStrays

\* A call is given the response to its own request, though ids are not compared, on
\* every connection on which no call was cancelled and the server wrote nothing but
\* responses: the shift that either leaves stays with its connection, and connecting
\* again heals it.
ResponseIsOwn == \A k \in McpCalls : got[k] # NoAnswer /\ got[k] # k => at[k] \in skewed

\* A process that has died is not called for ever: it leaves the table, also when it
\* had been connected again after an earlier one.
DeadServerLeaves == \A g \in 1..MaxConnects : (serving = g /\ g \notin running) ~> serving # g
=============================================================================
