----------------------------- MODULE ToolProofs -----------------------------
(***************************************************************************)
(* Proofs about what stands behind tools: commands in the sandbox          *)
(* (SandboxJobs), MCP servers (McpClient) and the sessions in which the    *)
(* program changes itself (SelfModSession).  For any number of commands,   *)
(* calls, connections, files, sessions and crashes.                        *)
(***************************************************************************)
EXTENDS SandboxJobs, McpClient, SelfModSession, SequenceTheorems, TLAPS

-----------------------------------------------------------------------------
(* Commands. *)

\* A job that has begun is in the registry until a reset clears it, one that has ended
\* has its time set, and marking a job is the same as telling its end.
JobFacts ==
  /\ notified = toldEnd
  /\ \A j \in Commands :
       /\ process[j] # "none" => j \in jobs \cup cleared
       /\ Ended(j) => j \in finished
       /\ process[j] \in {"cancelling", "cancelled"} => j \in killed

JobInv == JobTypeOK /\ JobFacts

LEMMA JobTypes ==
  ASSUME JobTypeOK, [JobNext]_jobVars
  PROVE  JobTypeOK'
<1>. USE DEF JobTypeOK
<1>1. CASE ResetSandbox
  BY <1>1 DEF ResetSandbox
<1>2. CASE PopCompleted
  BY <1>2 DEF PopCompleted
<1>3. ASSUME NEW j \in Commands, RunBash(j)
      PROVE  JobTypeOK'
  BY <1>3 DEF RunBash
<1>4. ASSUME NEW j \in Commands, JobEnds(j)
      PROVE  JobTypeOK'
  BY <1>4 DEF JobEnds
<1>5. ASSUME NEW j \in Commands, CallReturns(j)
      PROVE  JobTypeOK'
  BY <1>5 DEF CallReturns
<1>6. ASSUME NEW j \in Commands, KillJob(j)
      PROVE  JobTypeOK'
  BY <1>6 DEF KillJob
<1>7. ASSUME NEW j \in Commands, NEW how \in {"backgrounded", "cancelled"}, CallLeaves(j, how)
      PROVE  JobTypeOK'
  BY <1>7 DEF CallLeaves
<1>8. CASE UNCHANGED jobVars
  BY <1>8 DEF jobVars
<1>9. QED
  BY <1>1, <1>2, <1>3, <1>4, <1>5, <1>6, <1>7, <1>8 DEF JobNext

LEMMA JobStep ==
  ASSUME JobInv, [JobNext]_jobVars
  PROVE  JobFacts'
<1>. USE DEF JobInv, JobTypeOK, JobFacts, Ended
<1>1. CASE ResetSandbox
  BY <1>1 DEF ResetSandbox
<1>2. CASE PopCompleted
  BY <1>2 DEF PopCompleted
<1>3. ASSUME NEW j \in Commands, RunBash(j)
      PROVE  JobFacts'
  BY <1>3 DEF RunBash
<1>4. ASSUME NEW j \in Commands, JobEnds(j)
      PROVE  JobFacts'
  BY <1>4 DEF JobEnds
<1>5. ASSUME NEW j \in Commands, \/ CallReturns(j)
                                 \/ \E how \in {"backgrounded", "cancelled"} : CallLeaves(j, how)
      PROVE  JobFacts'
  BY <1>5 DEF CallReturns, CallLeaves
<1>6. ASSUME NEW j \in Commands, KillJob(j)
      PROVE  JobFacts'
  BY <1>6 DEF KillJob
<1>7. CASE UNCHANGED jobVars
  BY <1>7 DEF jobVars
<1>8. QED
  BY <1>1, <1>2, <1>3, <1>4, <1>5, <1>6, <1>7 DEF JobNext

LEMMA JobStart == JobInit => JobInv
  BY DEF JobInit, JobInv, JobTypeOK, JobFacts, Ended

LEMMA JobKept ==
  ASSUME JobInv, [JobNext]_jobVars
  PROVE  JobInv'
  BY JobTypes, JobStep DEF JobInv

LEMMA JobTold == JobInv => NoJobLost
  BY DEF JobInv, JobTypeOK, JobFacts, Ended, NoJobLost

\* No command is stopped that nobody asked to stop (sandbox_manager.py:201, the shield),
\* and the end of each is told or is still to be told,
\* unless a reset has cleared the registry.
THEOREM JobsAreKept == JobSpec => []NoJobLost
<1>1. JobInv /\ [JobNext]_jobVars => JobInv'
  BY JobKept
<1>2. JobInv => NoJobLost
  BY JobTold
<1>3. QED
  BY JobStart, <1>1, <1>2, PTL DEF JobSpec

-----------------------------------------------------------------------------
(* MCP servers. *)

\* One call reads at a time, over a connection of its own choice; a call that has not
\* begun was given nothing.
CallsInv ==
  /\ \A k, x \in McpCalls : mcpCall[k] = "reading" /\ mcpCall[x] = "reading" => k = x
  /\ \A k \in McpCalls :
       /\ mcpCall[k] = "reading" => at[k] # 0
       /\ mcpCall[k] = "new" => got[k] = NoAnswer
       /\ k \in working => mcpCall[k] # "new" /\ (remote \/ at[k] \in running)

\* A process writes the response to a request once, to its own output; a stray line is
\* remembered.
PipesInv ==
  \A g \in 1..MaxConnects : \A i \in 1..Len(stdout[g]) :
    IF stdout[g][i] = Stray
    THEN g \in skewed
    ELSE /\ at[stdout[g][i]] = g
         /\ mcpCall[stdout[g][i]] # "new" /\ stdout[g][i] \notin working
         /\ \A j \in 1..Len(stdout[g]) : stdout[g][j] = stdout[g][i] => j = i

\* On a connection without a cancelled call or a stray line, what is to be answered or
\* read is that of the call which is reading.
FreshInv ==
  /\ \A k \in working : remote \/ at[k] \in skewed \/ mcpCall[k] = "reading"
  /\ \A g \in 1..MaxConnects : \A i \in 1..Len(stdout[g]) :
       remote \/ g \in skewed \/ mcpCall[stdout[g][i]] = "reading"

McpInv == McpTypeOK /\ CallsInv /\ PipesInv /\ FreshInv /\ ResponseIsOwn

LEMMA McpStart == McpInit => McpInv
<1>. SUFFICES ASSUME McpInit
              PROVE  McpInv
  OBVIOUS
<1>. USE McpAssumption DEF McpInit
<1>1. McpTypeOK
  <2>1. connects \in 0..MaxConnects /\ serving \in 0..connects
    OBVIOUS
  <2>2. \A g \in 1..MaxConnects : <<>> \in Seq(Lines)
    OBVIOUS
  <2>3. stdout \in [1..MaxConnects -> Seq(Lines)]
    BY <2>2
  <2>4. at \in [McpCalls -> 0..connects] /\ got \in [McpCalls -> Lines \cup {NoAnswer}]
    OBVIOUS
  <2>5. strays \in 0..MaxStrays
    OBVIOUS
  <2>6. QED
    BY <2>1, <2>3, <2>4, <2>5 DEF McpTypeOK
<1>2. CallsInv /\ ResponseIsOwn
  BY DEF CallsInv, ResponseIsOwn
<1>3. \A g \in 1..MaxConnects : Len(stdout[g]) = 0
  OBVIOUS
<1>4. PipesInv /\ FreshInv
  BY <1>3 DEF PipesInv, FreshInv
<1>5. QED
  BY <1>1, <1>2, <1>4 DEF McpInv

LEMMA McpTypes ==
  ASSUME McpTypeOK, CallsInv, [McpNext]_mcpVars
  PROVE  McpTypeOK'
<1>. USE McpAssumption DEF McpTypeOK, mcpPipes, mcpLinks
<1>1. CASE LoadTools
  BY <1>1 DEF LoadTools, Launch
<1>2. CASE DisconnectAll
  BY <1>2 DEF DisconnectAll
<1>3. ASSUME NEW g \in 1..MaxConnects, Connected(g) \/ ConnectFails(g)
      PROVE  McpTypeOK'
  BY <1>3 DEF Connected, ConnectFails
<1>4. ASSUME NEW g \in 1..MaxConnects, ProcessExits(g)
      PROVE  McpTypeOK'
  BY <1>4 DEF ProcessExits
<1>5. ASSUME NEW g \in 1..MaxConnects, MonitorReacts(g)
      PROVE  McpTypeOK'
  BY <1>5 DEF MonitorReacts, Launch
<1>6. ASSUME NEW k \in McpCalls, CallTool(k)
      PROVE  McpTypeOK'
  BY <1>6 DEF CallTool
<1>7. ASSUME NEW k \in McpCalls, Answers(k)
      PROVE  McpTypeOK'
  <2>1. at[k] \in 0..MaxConnects
    OBVIOUS
  <2>2. \A g \in 1..MaxConnects : Append(stdout[g], k) \in Seq(Lines)
    BY DEF Lines
  <2>3. stdout' \in [1..MaxConnects -> Seq(Lines)]
    BY <1>7, <2>1, <2>2 DEF Answers
  <2>4. QED
    BY <1>7, <2>3 DEF Answers
<1>8. ASSUME NEW k \in McpCalls, Read(k)
      PROVE  McpTypeOK'
  <2>1. at[k] \in 1..MaxConnects
    BY <1>8 DEF Read, CallsInv
  <2>2. /\ stdout[at[k]] \in Seq(Lines) /\ stdout[at[k]] # <<>>
        /\ Head(stdout[at[k]]) \in Lines /\ Tail(stdout[at[k]]) \in Seq(Lines)
    BY <1>8, <2>1 DEF Read
  <2>3. QED
    BY <1>8, <2>1, <2>2 DEF Read
<1>9. ASSUME NEW k \in McpCalls, EndOfOutput(k)
      PROVE  McpTypeOK'
  BY <1>9 DEF EndOfOutput
<1>10. ASSUME NEW k \in McpCalls, PostCall(k)
       PROVE  McpTypeOK'
  <2>1. CASE got' = [got EXCEPT ![k] = k]
    <3>1. got' \in [McpCalls -> Lines \cup {NoAnswer}]
      BY <2>1 DEF Lines
    <3>2. QED
      BY <1>10, <2>1, <3>1 DEF PostCall
  <2>2. CASE UNCHANGED got
    BY <1>10, <2>2 DEF PostCall
  <2>3. QED
    BY <1>10, <2>1, <2>2 DEF PostCall
<1>11. ASSUME NEW k \in McpCalls, CancelRead(k)
       PROVE  McpTypeOK'
  <2>1. at[k] \in 1..connects
    BY <1>11 DEF CancelRead, CallsInv
  <2>2. skewed' \subseteq 1..connects
    BY <1>11, <2>1 DEF CancelRead
  <2>3. QED
    BY <1>11, <2>2 DEF CancelRead
<1>12. CASE UNCHANGED mcpVars
  BY <1>12 DEF mcpVars
<1>13. ASSUME NEW g \in 1..MaxConnects, WritesStray(g)
       PROVE  McpTypeOK'
  <2>1. Append(stdout[g], Stray) \in Seq(Lines)
    BY DEF Lines
  <2>2. stdout' \in [1..MaxConnects -> Seq(Lines)] /\ strays' \in 0..MaxStrays
    BY <1>13, <2>1 DEF WritesStray
  <2>3. skewed' \subseteq 1..connects
    BY <1>13 DEF WritesStray
  <2>4. QED
    BY <1>13, <2>2, <2>3 DEF WritesStray
<1>14. QED
  BY <1>1, <1>2, <1>3, <1>4, <1>5, <1>6, <1>7, <1>8, <1>9, <1>10, <1>11, <1>12, <1>13
     DEF McpNext, McpCallStep

\* Connections come and go: calls lose at most what a dead process had to answer.
LEMMA LinkKeeps ==
  ASSUME McpInv,
         UNCHANGED <<remote, mcpCall, at, stdout, got, skewed>>,
         working' \subseteq working,
         \A k \in working' : remote \/ at[k] \in running'
  PROVE  CallsInv' /\ PipesInv' /\ FreshInv' /\ ResponseIsOwn'
<1>1. CallsInv'
  BY DEF McpInv, McpTypeOK, CallsInv
<1>2. PipesInv'
  BY DEF McpInv, PipesInv
<1>3. FreshInv'
  BY DEF McpInv, FreshInv
<1>4. ResponseIsOwn'
  BY DEF McpInv, ResponseIsOwn
<1>5. QED
  BY <1>1, <1>2, <1>3, <1>4

LEMMA LinkStepsKeep ==
  ASSUME McpInv, \/ LoadTools \/ DisconnectAll \/ UNCHANGED mcpVars
                 \/ \E g \in 1..MaxConnects :
                      Connected(g) \/ ConnectFails(g) \/ ProcessExits(g) \/ MonitorReacts(g)
  PROVE  CallsInv' /\ PipesInv' /\ FreshInv' /\ ResponseIsOwn'
<1>. USE DEF mcpPipes, mcpLinks
<1>1. \A k \in working : remote \/ at[k] \in running
  BY DEF McpInv, McpTypeOK, CallsInv
<1>2. UNCHANGED <<remote, mcpCall, at, stdout, got, skewed>> /\ working' \subseteq working
  BY DEF LoadTools, Launch, DisconnectAll, Connected, ConnectFails, ProcessExits, MonitorReacts, mcpVars
<1>3. ASSUME NEW k \in working'
      PROVE  remote \/ at[k] \in running'
  BY <1>1, <1>3 DEF LoadTools, Launch, DisconnectAll, Connected, ConnectFails, ProcessExits,
     MonitorReacts, mcpVars
<1>4. QED
  BY <1>2, <1>3, LinkKeeps

LEMMA CallToolKeeps ==
  ASSUME McpInv, NEW k \in McpCalls, CallTool(k)
  PROVE  CallsInv' /\ PipesInv' /\ FreshInv' /\ ResponseIsOwn'
<1>1. /\ mcpCall[k] = "new" /\ got[k] = NoAnswer /\ k \notin working
      /\ \A x \in McpCalls : mcpCall[x] # "reading"
      /\ \A x \in McpCalls : x # k => mcpCall'[x] = mcpCall[x] /\ at'[x] = at[x]
      /\ at'[k] = serving
      /\ mcpCall'[k] = IF serving = 0 THEN "ended" ELSE "reading"
      /\ working' = IF serving \in running THEN working \cup {k} ELSE working
      /\ UNCHANGED <<mcpLinks, stdout, got, skewed>>
  BY DEF CallTool, McpInv, McpTypeOK, CallsInv
<1>2. \A g \in 1..MaxConnects : \A i \in 1..Len(stdout[g]) :
        stdout[g][i] # k /\ stdout[g][i] \in Lines
  BY <1>1, McpAssumption DEF McpInv, McpTypeOK, PipesInv
<1>3. serving \in running => serving # 0
  BY DEF McpInv, McpTypeOK
<1>4. working \subseteq McpCalls
  BY DEF McpInv, McpTypeOK
<1>5. CallsInv'
  BY <1>1, <1>3, <1>4 DEF McpInv, CallsInv, mcpLinks
<1>6. PipesInv'
  <2>1. ASSUME NEW g \in 1..MaxConnects, NEW i \in 1..Len(stdout[g]), stdout[g][i] # Stray
        PROVE  /\ at'[stdout[g][i]] = g
               /\ mcpCall'[stdout[g][i]] # "new" /\ stdout[g][i] \notin working'
               /\ \A j \in 1..Len(stdout[g]) : stdout[g][j] = stdout[g][i] => j = i
    BY <1>1, <1>2, <2>1 DEF McpInv, PipesInv, Lines
  <2>2. QED
    BY <1>1, <2>1 DEF McpInv, PipesInv
<1>7. FreshInv'
  <2>1. ASSUME NEW g \in 1..MaxConnects, NEW i \in 1..Len(stdout[g]), stdout[g][i] # Stray
        PROVE  mcpCall'[stdout[g][i]] = mcpCall[stdout[g][i]]
    BY <1>1, <1>2, <2>1 DEF Lines
  <2>2. \A g \in 1..MaxConnects : \A i \in 1..Len(stdout[g]) :
          remote \/ g \in skewed \/ mcpCall'[stdout[g][i]] = "reading"
    BY <2>1 DEF McpInv, FreshInv, PipesInv
  <2>3. QED
    BY <1>1, <1>3, <1>4, <2>2 DEF McpInv, FreshInv, mcpLinks
<1>8. ResponseIsOwn'
  BY <1>1 DEF McpInv, ResponseIsOwn
<1>9. QED
  BY <1>5, <1>6, <1>7, <1>8

LEMMA AnswersKeeps ==
  ASSUME McpInv, NEW k \in McpCalls, Answers(k)
  PROVE  CallsInv' /\ PipesInv' /\ FreshInv' /\ ResponseIsOwn'
<1>. DEFINE a == at[k]
            old == stdout[a]
<1>1. /\ k \in working /\ ~remote /\ working' = working \ {k}
      /\ UNCHANGED <<mcpLinks, mcpCall, at, got, skewed>>
  BY DEF Answers
<1>2. a \in 1..MaxConnects /\ old \in Seq(Lines) /\ k \in Lines /\ k # Stray
  BY <1>1, McpAssumption DEF McpInv, McpTypeOK, CallsInv, Lines
<1>3. /\ \A g \in 1..MaxConnects : g # a => stdout'[g] = stdout[g]
      /\ stdout'[a] = Append(old, k)
  BY <1>2 DEF Answers, McpInv, McpTypeOK
<1>4. /\ Len(stdout'[a]) = Len(old) + 1 /\ Len(old) \in Nat
      /\ \A i \in 1..Len(old) : stdout'[a][i] = old[i] /\ old[i] \in Lines
      /\ stdout'[a][Len(old) + 1] = k
  BY <1>2, <1>3, AppendProperties
<1>5. /\ \A i \in 1..Len(old) : old[i] # k
      /\ mcpCall[k] # "new"
      /\ a \in skewed \/ mcpCall[k] = "reading"
  BY <1>1, <1>2 DEF McpInv, PipesInv, CallsInv, FreshInv
<1>6. CallsInv'
  BY <1>1 DEF McpInv, CallsInv, mcpLinks
<1>7. PipesInv'
  <2>. SUFFICES ASSUME NEW g \in 1..MaxConnects, NEW i \in 1..Len(stdout'[g])
                PROVE  IF stdout'[g][i] = Stray
                       THEN g \in skewed
                       ELSE /\ at[stdout'[g][i]] = g
                            /\ mcpCall[stdout'[g][i]] # "new" /\ stdout'[g][i] \notin working'
                            /\ \A j \in 1..Len(stdout'[g]) :
                                 stdout'[g][j] = stdout'[g][i] => j = i
    BY <1>1 DEF PipesInv
  <2>1. CASE g # a
    BY <1>1, <1>3, <2>1 DEF McpInv, PipesInv
  <2>2. CASE g = a
    <3>1. \A j \in 1..Len(old) :
            IF old[j] = Stray
            THEN a \in skewed
            ELSE /\ at[old[j]] = a /\ mcpCall[old[j]] # "new" /\ old[j] \notin working
                 /\ \A l \in 1..Len(old) : old[l] = old[j] => l = j
      BY <1>2 DEF McpInv, PipesInv
    <3>2. \A j \in 1..Len(stdout'[a]) : j \in 1..Len(old) \/ j = Len(old) + 1
      BY <1>4
    <3>3. CASE i \in 1..Len(old)
      <4>1. stdout'[g][i] = old[i]
        BY <1>4, <2>2, <3>3
      <4>2. old[i] # Stray => \A j \in 1..Len(stdout'[a]) : stdout'[a][j] = old[i] => j = i
        BY <1>4, <1>5, <3>1, <3>2, <3>3
      <4>3. QED
        BY <1>1, <2>2, <3>1, <3>3, <4>1, <4>2
    <3>4. CASE i = Len(old) + 1
      <4>1. stdout'[g][i] = k
        BY <1>4, <2>2, <3>4
      <4>2. \A j \in 1..Len(stdout'[a]) : stdout'[a][j] = k => j = i
        BY <1>4, <1>5, <3>2, <3>4
      <4>3. QED
        BY <1>1, <1>2, <1>5, <2>2, <4>1, <4>2
    <3>5. QED
      BY <2>2, <3>2, <3>3, <3>4
  <2>3. QED
    BY <2>1, <2>2
<1>8. FreshInv'
  <2>1. ASSUME NEW g \in 1..MaxConnects, NEW i \in 1..Len(stdout'[g])
        PROVE  g \in skewed \/ mcpCall[stdout'[g][i]] = "reading"
    <3>1. CASE g # a
      BY <1>1, <1>3, <2>1, <3>1 DEF McpInv, FreshInv
    <3>2. CASE g = a
      <4>1. \A j \in 1..Len(old) : a \in skewed \/ mcpCall[old[j]] = "reading"
        BY <1>1, <1>2 DEF McpInv, FreshInv
      <4>2. i \in 1..Len(old) \/ i = Len(old) + 1
        BY <1>4, <3>2
      <4>3. QED
        BY <1>4, <1>5, <3>2, <4>1, <4>2
    <3>3. QED
      BY <3>1, <3>2
  <2>2. QED
    BY <1>1, <2>1 DEF McpInv, FreshInv, mcpLinks
<1>9. ResponseIsOwn'
  BY <1>1 DEF McpInv, ResponseIsOwn
<1>10. QED
  BY <1>6, <1>7, <1>8, <1>9

LEMMA StrayKeeps ==
  ASSUME McpInv, NEW a \in 1..MaxConnects, WritesStray(a)
  PROVE  CallsInv' /\ PipesInv' /\ FreshInv' /\ ResponseIsOwn'
<1>. DEFINE old == stdout[a]
<1>1. /\ ~remote /\ skewed' = skewed \cup {a}
      /\ UNCHANGED <<mcpLinks, mcpCall, at, working, got>>
  BY DEF WritesStray
<1>2. old \in Seq(Lines) /\ Stray \in Lines
  BY DEF McpInv, McpTypeOK, Lines
<1>3. /\ \A g \in 1..MaxConnects : g # a => stdout'[g] = stdout[g]
      /\ stdout'[a] = Append(old, Stray)
  BY DEF WritesStray, McpInv, McpTypeOK
<1>4. /\ Len(stdout'[a]) = Len(old) + 1 /\ Len(old) \in Nat
      /\ \A i \in 1..Len(old) : stdout'[a][i] = old[i]
      /\ stdout'[a][Len(old) + 1] = Stray
  BY <1>2, <1>3, AppendProperties
<1>5. \A i \in 1..Len(stdout'[a]) : i \in 1..Len(old) \/ i = Len(old) + 1
  BY <1>4
<1>6. CallsInv'
  BY <1>1 DEF McpInv, CallsInv, mcpLinks
<1>7. PipesInv'
  <2>1. ASSUME NEW g \in 1..MaxConnects, NEW i \in 1..Len(stdout'[g]), stdout'[g][i] # Stray
        PROVE  /\ at[stdout'[g][i]] = g
               /\ mcpCall[stdout'[g][i]] # "new" /\ stdout'[g][i] \notin working
               /\ \A j \in 1..Len(stdout'[g]) : stdout'[g][j] = stdout'[g][i] => j = i
    <3>1. CASE g # a
      BY <1>3, <2>1, <3>1 DEF McpInv, PipesInv
    <3>2. CASE g = a
      <4>1. i \in 1..Len(old) /\ stdout'[g][i] = old[i]
        BY <1>4, <1>5, <2>1, <3>2
      <4>2. /\ at[old[i]] = a /\ mcpCall[old[i]] # "new" /\ old[i] \notin working
            /\ \A j \in 1..Len(old) : old[j] = old[i] => j = i
        BY <2>1, <4>1 DEF McpInv, PipesInv
      <4>3. QED
        BY <1>4, <1>5, <2>1, <3>2, <4>1, <4>2
    <3>3. QED
      BY <3>1, <3>2
  <2>2. ASSUME NEW g \in 1..MaxConnects, NEW i \in 1..Len(stdout'[g]), stdout'[g][i] = Stray
        PROVE  g \in skewed'
    BY <1>1, <1>3, <2>2 DEF McpInv, PipesInv
  <2>3. QED
    BY <1>1, <2>1, <2>2 DEF PipesInv
<1>8. FreshInv'
  BY <1>1, <1>3 DEF McpInv, FreshInv, mcpLinks
<1>9. ResponseIsOwn'
  BY <1>1 DEF McpInv, ResponseIsOwn
<1>10. QED
  BY <1>6, <1>7, <1>8, <1>9

LEMMA ReadKeeps ==
  ASSUME McpInv, NEW k \in McpCalls, Read(k)
  PROVE  CallsInv' /\ PipesInv' /\ FreshInv' /\ ResponseIsOwn'
<1>. DEFINE a == at[k]
            old == stdout[a]
<1>1. /\ mcpCall[k] = "reading" /\ ~remote /\ old # <<>>
      /\ UNCHANGED <<mcpLinks, at, working, skewed>>
  BY DEF Read
<1>2. a \in 1..MaxConnects /\ old \in Seq(Lines)
  BY <1>1, McpAssumption DEF McpInv, McpTypeOK, CallsInv
<1>3. /\ \A g \in 1..MaxConnects : g # a => stdout'[g] = stdout[g]
      /\ stdout'[a] = Tail(old)
      /\ \A x \in McpCalls : x # k => mcpCall'[x] = mcpCall[x] /\ got'[x] = got[x]
      /\ mcpCall'[k] = "ended" /\ got'[k] = Head(old)
  BY <1>2 DEF Read, McpInv, McpTypeOK
<1>4. /\ Len(stdout'[a]) = Len(old) - 1 /\ Len(old) \in Nat /\ Len(old) >= 1
      /\ \A i \in 1..Len(stdout'[a]) : stdout'[a][i] = old[i + 1] /\ i + 1 \in 1..Len(old)
      /\ Head(old) = old[1] /\ 1 \in 1..Len(old)
  <2>1. Len(old) \in Nat /\ Len(old) >= 1 /\ Head(old) = old[1]
    BY <1>1, <1>2
  <2>2. /\ Len(stdout'[a]) = Len(old) - 1
        /\ \A i \in 1..Len(stdout'[a]) : stdout'[a][i] = old[i + 1]
    BY <1>1, <1>2, <1>3, HeadTailProperties
  <2>3. QED
    BY <2>1, <2>2
<1>5. \A i \in 1..Len(old) :
        IF old[i] = Stray
        THEN a \in skewed
        ELSE /\ old[i] \in McpCalls /\ at[old[i]] = a
             /\ mcpCall[old[i]] # "new" /\ old[i] \notin working
             /\ \A j \in 1..Len(old) : old[j] = old[i] => j = i
  BY <1>2 DEF McpInv, PipesInv, Lines
<1>6. a \in skewed \/ old[1] = k
  BY <1>1, <1>2, <1>4, <1>5 DEF McpInv, FreshInv, CallsInv
<1>7. CallsInv'
  BY <1>1, <1>3 DEF McpInv, CallsInv, mcpLinks
<1>8. PipesInv'
  <2>1. ASSUME NEW g \in 1..MaxConnects, NEW i \in 1..Len(stdout'[g])
        PROVE  IF stdout'[g][i] = Stray
               THEN g \in skewed
               ELSE /\ at[stdout'[g][i]] = g
                    /\ mcpCall'[stdout'[g][i]] # "new" /\ stdout'[g][i] \notin working
                    /\ \A j \in 1..Len(stdout'[g]) : stdout'[g][j] = stdout'[g][i] => j = i
    <3>1. CASE g # a
      <4>1. stdout'[g] = stdout[g] /\ stdout[g] \in Seq(Lines)
        BY <1>3, <3>1 DEF McpInv, McpTypeOK
      <4>2. stdout[g][i] \in Lines
        BY <4>1
      <4>3. QED
        BY <1>1, <1>3, <4>1, <4>2 DEF McpInv, PipesInv, Lines
    <3>2. CASE g = a
      <4>1. stdout'[g][i] = old[i + 1] /\ i + 1 \in 1..Len(old) /\ i \in Int
        BY <1>4, <3>2
      <4>2. CASE old[i + 1] = Stray
        BY <1>5, <3>2, <4>1, <4>2
      <4>3. CASE old[i + 1] # Stray
        <5>1. mcpCall'[old[i + 1]] # "new"
          BY <1>3, <1>5, <4>1, <4>3
        <5>2. ASSUME NEW j \in 1..Len(stdout'[g]), stdout'[g][j] = stdout'[g][i]
              PROVE  j = i
          <6>1. old[j + 1] = old[i + 1] /\ j + 1 \in 1..Len(old) /\ j \in Int
            BY <1>4, <3>2, <4>1, <5>2, SMTT(20)
          <6>2. QED
            BY <1>5, <4>1, <4>3, <6>1
        <5>3. QED
          BY <1>5, <3>2, <4>1, <4>3, <5>1, <5>2
      <4>4. QED
        BY <4>2, <4>3
    <3>3. QED
      BY <3>1, <3>2
  <2>2. QED
    BY <1>1, <2>1 DEF PipesInv
<1>9. FreshInv'
  <2>1. ASSUME NEW x \in working
        PROVE  at[x] \in skewed \/ mcpCall'[x] = "reading"
    <3>1. CASE x = k
      BY <1>1, <1>4, <1>5, <1>6, <2>1, <3>1, McpAssumption
    <3>2. CASE x # k
      BY <1>1, <1>3, <2>1, <3>2 DEF McpInv, McpTypeOK, FreshInv
    <3>3. QED
      BY <3>1, <3>2
  <2>2. ASSUME NEW g \in 1..MaxConnects, NEW i \in 1..Len(stdout'[g]), g \notin skewed
        PROVE  mcpCall'[stdout'[g][i]] = "reading"
    <3>1. CASE g # a
      <4>1. stdout'[g] = stdout[g] /\ stdout[g] \in Seq(Lines)
        BY <1>3, <3>1 DEF McpInv, McpTypeOK
      <4>2. stdout[g][i] # Stray
        BY <2>2, <4>1 DEF McpInv, PipesInv
      <4>3. stdout[g][i] \in McpCalls /\ at[stdout[g][i]] = g
        BY <4>1, <4>2, <2>2 DEF McpInv, PipesInv, Lines
      <4>4. stdout[g][i] # k
        BY <3>1, <4>3
      <4>5. mcpCall[stdout[g][i]] = "reading"
        BY <1>1, <2>2, <4>1 DEF McpInv, FreshInv
      <4>6. QED
        BY <1>3, <4>1, <4>3, <4>4, <4>5
    <3>2. CASE g = a
      <4>1. stdout'[g][i] = old[i + 1] /\ i + 1 \in 1..Len(old) /\ i + 1 # 1
        BY <1>4, <3>2, SMTT(20)
      <4>2. old[i + 1] # k /\ old[i + 1] \in McpCalls
        BY <1>4, <1>5, <1>6, <2>2, <3>2, <4>1
      <4>3. mcpCall[old[i + 1]] = "reading"
        BY <1>1, <1>2, <2>2, <3>2, <4>1 DEF McpInv, FreshInv
      <4>4. QED
        BY <1>3, <4>1, <4>2, <4>3
    <3>3. QED
      BY <3>1, <3>2
  <2>3. QED
    BY <1>1, <2>1, <2>2 DEF FreshInv, mcpLinks
<1>10. ResponseIsOwn'
  BY <1>1, <1>3, <1>4, <1>6 DEF McpInv, ResponseIsOwn
<1>11. QED
  BY <1>7, <1>8, <1>9, <1>10

\* A call that ends without reading has nothing in its pipe, or its connection is
\* remembered as skewed.
LEMMA EndKeeps ==
  ASSUME McpInv, NEW k \in McpCalls,
         mcpCall[k] = "reading", mcpCall' = [mcpCall EXCEPT ![k] = "ended"],
         working' \subseteq working, skewed \subseteq skewed',
         \A x \in McpCalls : got'[x] = got[x] \/ got'[x] = x,
         \A x \in McpCalls : x # k => got'[x] = got[x],
         UNCHANGED <<mcpLinks, at, stdout>>,
         \/ remote
         \/ at[k] \in skewed'
         \/ k \notin working /\ Len(stdout[at[k]]) = 0
  PROVE  CallsInv' /\ PipesInv' /\ FreshInv' /\ ResponseIsOwn'
<1>1. /\ \A x \in McpCalls : x # k => mcpCall'[x] = mcpCall[x]
      /\ mcpCall'[k] = "ended"
      /\ working \subseteq McpCalls
  BY DEF McpInv, McpTypeOK
<1>2. \A g \in 1..MaxConnects : \A i \in 1..Len(stdout[g]) :
        stdout[g][i] # Stray => stdout[g][i] \in McpCalls /\ at[stdout[g][i]] = g
  <2>1. ASSUME NEW g \in 1..MaxConnects, NEW i \in 1..Len(stdout[g]), stdout[g][i] # Stray
        PROVE  stdout[g][i] \in McpCalls /\ at[stdout[g][i]] = g
    <3>1. stdout[g] \in Seq(Lines)
      BY DEF McpInv, McpTypeOK
    <3>2. stdout[g][i] \in Lines
      BY <3>1
    <3>3. QED
      BY <2>1, <3>2 DEF McpInv, PipesInv, Lines
  <2>2. QED
    BY <2>1
<1>3. CallsInv'
  BY <1>1 DEF McpInv, CallsInv, mcpLinks
<1>4. PipesInv'
  <2>1. ASSUME NEW g \in 1..MaxConnects, NEW i \in 1..Len(stdout[g]), stdout[g][i] # Stray
        PROVE  /\ at[stdout[g][i]] = g
               /\ mcpCall'[stdout[g][i]] # "new" /\ stdout[g][i] \notin working'
               /\ \A j \in 1..Len(stdout[g]) : stdout[g][j] = stdout[g][i] => j = i
    BY <1>1, <1>2, <2>1 DEF McpInv, PipesInv
  <2>2. QED
    BY <2>1 DEF McpInv, PipesInv
<1>5. FreshInv'
  <2>1. ASSUME NEW x \in working'
        PROVE  remote \/ at[x] \in skewed' \/ mcpCall'[x] = "reading"
    BY <1>1, <2>1 DEF McpInv, FreshInv
  <2>2. ASSUME NEW g \in 1..MaxConnects, NEW i \in 1..Len(stdout[g]), g \notin skewed'
        PROVE  remote \/ mcpCall'[stdout[g][i]] = "reading"
    <3>0. stdout[g][i] # Stray
      BY <2>2 DEF McpInv, PipesInv
    <3>1. stdout[g][i] \in McpCalls /\ at[stdout[g][i]] = g
      BY <1>2, <3>0
    <3>2. remote \/ mcpCall[stdout[g][i]] = "reading"
      BY <2>2 DEF McpInv, FreshInv
    <3>3. CASE stdout[g][i] = k
      <4>1. Len(stdout[g]) # 0
        OBVIOUS
      <4>2. QED
        BY <2>2, <3>1, <3>3, <4>1
    <3>4. CASE stdout[g][i] # k
      BY <1>1, <3>1, <3>2, <3>4
    <3>5. QED
      BY <3>3, <3>4
  <2>3. QED
    BY <2>1, <2>2 DEF FreshInv, mcpLinks
<1>6. ResponseIsOwn'
  BY DEF McpInv, ResponseIsOwn
<1>7. QED
  BY <1>3, <1>4, <1>5, <1>6

LEMMA McpStep ==
  ASSUME McpInv, [McpNext]_mcpVars
  PROVE  CallsInv' /\ PipesInv' /\ FreshInv' /\ ResponseIsOwn'
<1>1. ASSUME NEW k \in McpCalls, EndOfOutput(k)
      PROVE  CallsInv' /\ PipesInv' /\ FreshInv' /\ ResponseIsOwn'
  <2>1. k \notin working /\ Len(stdout[at[k]]) = 0
    BY <1>1 DEF EndOfOutput, McpInv, McpTypeOK, CallsInv
  <2>2. QED
    BY <1>1, <2>1, EndKeeps DEF EndOfOutput
<1>2. ASSUME NEW k \in McpCalls, PostCall(k)
      PROVE  CallsInv' /\ PipesInv' /\ FreshInv' /\ ResponseIsOwn'
  <2>1. /\ mcpCall[k] = "reading" /\ remote /\ working' \subseteq working
        /\ skewed \subseteq skewed' /\ UNCHANGED <<mcpLinks, at, stdout>>
        /\ mcpCall' = [mcpCall EXCEPT ![k] = "ended"]
        /\ got' = [got EXCEPT ![k] = k] \/ got' = got
    BY <1>2 DEF PostCall
  <2>2. /\ \A x \in McpCalls : got'[x] = got[x] \/ got'[x] = x
        /\ \A x \in McpCalls : x # k => got'[x] = got[x]
    BY <2>1 DEF McpInv, McpTypeOK
  <2>3. QED
    BY <2>1, <2>2, EndKeeps
<1>3. ASSUME NEW k \in McpCalls, CancelRead(k)
      PROVE  CallsInv' /\ PipesInv' /\ FreshInv' /\ ResponseIsOwn'
  <2>1. /\ mcpCall[k] = "reading" /\ mcpCall' = [mcpCall EXCEPT ![k] = "ended"]
        /\ skewed \subseteq skewed' /\ (remote \/ at[k] \in skewed')
        /\ UNCHANGED <<mcpLinks, at, working, stdout, got>>
    BY <1>3 DEF CancelRead
  <2>2. QED
    BY <2>1, EndKeeps
<1>4. QED
  BY <1>1, <1>2, <1>3, LinkStepsKeep, CallToolKeeps, AnswersKeeps, StrayKeeps, ReadKeeps
     DEF McpNext, McpCallStep

LEMMA McpKept ==
  ASSUME McpInv, [McpNext]_mcpVars
  PROVE  McpInv'
  BY McpTypes, McpStep DEF McpInv

\* On a connection without a cancelled call and without a stray line of the server every
\* call is given its own response (mcp_client.py:251-267, 498-503).
THEOREM ResponsesAreOwn == McpSpec => []ResponseIsOwn
<1>1. McpInv /\ [McpNext]_mcpVars => McpInv'
  BY McpKept
<1>2. McpInv => ResponseIsOwn
  BY DEF McpInv
<1>3. QED
  BY McpStart, <1>1, <1>2, PTL DEF McpSpec

-----------------------------------------------------------------------------
(* Sessions. *)

LEMMA Three ==
  ASSUME NEW a, NEW b, NEW c
  PROVE  Head(<<a, b, c>>) = a /\ Tail(<<a, b, c>>) = <<b, c>>
  OBVIOUS

LEMMA Two ==
  ASSUME NEW a, NEW b
  PROVE  Head(<<a, b>>) = a /\ Tail(<<a, b>>) = <<b>>
  OBVIOUS

LEMMA One ==
  ASSUME NEW a
  PROVE  Head(<<a>>) = a /\ Tail(<<a>>) = <<>>
  OBVIOUS

\* What may be left of the tool in hand, with what must hold for the rest to be safe: a
\* session is marked only when there is a tag, a rollback starts from a session, and a
\* marker goes only when the tree is back or has been accepted.
Beginning ==
  \E s \in Sessions : \/ todo = <<<<"tag">>, <<"mark", s>>, <<"dir", s>>>>
                      \/ todo = <<<<"mark", s>>, <<"dir", s>>>> /\ repo = "tag"
                      \/ todo = <<<<"dir", s>>>>

Editing ==
  \E f \in Files : \/ todo = <<<<"write", f>>, <<"cache", f>>>> /\ marker # NoSession
                   \/ todo = <<<<"cache", f>>>>

Rolled == Agree(tree, Committed) \/ stuck = TRUE

Ending ==
  \E m \in Sessions, r \in {"aborted", "rolled_back"} :
     \/ todo = <<<<"reset">>, <<"unmark">>, <<"finalize", m, r>>>> /\ marker # NoSession
     \/ todo = <<<<"unmark">>, <<"finalize", m, r>>>> /\ Rolled
     \/ todo = <<<<"finalize", m, r>>>>

Accepting ==
  \E m \in Sessions :
     \/ todo = <<<<"retag">>, <<"unmark">>, <<"finalize", m, "passed">>>>
     \/ todo = <<<<"unmark">>, <<"finalize", m, "passed">>>>
     \/ todo = <<<<"finalize", m, "passed">>>>

Recovering ==
  \/ todo = <<<<"reset">>, <<"unmark">>>> /\ marker # NoSession
  \/ todo = <<<<"unmark">>>> /\ Rolled

TodoInv == todo = <<>> \/ Beginning \/ Editing \/ Ending \/ Accepting \/ Recovering

SessInv ==
  /\ TodoInv
  /\ marker \in Sessions \cup {NoSession}
  /\ marker # NoSession => repo = "tag"
  /\ marker = NoSession => Agree(tree, verified) \/ Rolled

LEMMA SessStarts == SessInit => SessInv
  BY DEF SessInit, SessInv, TodoInv, Rolled, Agree

\* A tool lays out its steps.
LEMMA PlanStep ==
  ASSUME SessInv,
         \/ \E s \in Sessions : BeginSession(s)
         \/ \E f \in Files : EditCode(f)
         \/ AbortSession \/ VerifyPass \/ VerifyFail
  PROVE  SessInv'
<1>1. /\ UNCHANGED <<server, repo, tree, marker, cache, edits, sessCrashes, verified, stuck>>
      /\ TodoInv'
  <2>1. CASE \E s \in Sessions : BeginSession(s)
    BY <2>1 DEF BeginSession, Plan, TodoInv, Beginning
  <2>2. CASE \E f \in Files : EditCode(f)
    BY <2>2 DEF EditCode, Plan, TodoInv, Editing
  <2>3. CASE AbortSession
    BY <2>3 DEF AbortSession, Plan, TodoInv, Ending, SessInv
  <2>4. CASE VerifyFail
    BY <2>4 DEF VerifyFail, Plan, TodoInv, Ending, SessInv
  <2>5. CASE VerifyPass
    BY <2>5 DEF VerifyPass, Plan, TodoInv, Accepting, SessInv
  <2>6. QED
    BY <2>1, <2>2, <2>3, <2>4, <2>5
<1>2. QED
  BY <1>1 DEF SessInv, Rolled

\* Which step is in hand tells what is left after it.
LEMMA Rest ==
  ASSUME TodoInv, todo # <<>>, NEW step, Do(step)
  PROVE  /\ step = "tag" => \E s \in Sessions : todo' = <<<<"mark", s>>, <<"dir", s>>>>
         /\ step = "mark" => /\ repo = "tag"
                             /\ \E s \in Sessions : Head(todo)[2] = s /\ todo' = <<<<"dir", s>>>>
         /\ step = "dir" => todo' = <<>>
         /\ step = "write" => marker # NoSession /\ \E f \in Files : todo' = <<<<"cache", f>>>>
         /\ step = "cache" => todo' = <<>>
         /\ step = "reset" => /\ marker # NoSession
                              /\ \/ todo' = <<<<"unmark">>>>
                                 \/ \E m \in Sessions, r \in {"aborted", "rolled_back"} :
                                       todo' = <<<<"unmark">>, <<"finalize", m, r>>>>
         /\ step = "retag" => \E m \in Sessions : todo' = <<<<"unmark">>, <<"finalize", m, "passed">>>>
         /\ step = "unmark" => /\ Rolled \/ \E m \in Sessions : todo = <<<<"unmark">>, <<"finalize", m, "passed">>>>
                               /\ \/ todo' = <<>>
                                  \/ \E m \in Sessions, r \in {"aborted", "rolled_back", "passed"} :
                                        todo' = <<<<"finalize", m, r>>>>
         /\ step = "finalize" => todo' = <<>>
<1>1. CASE Beginning
  <2>1. PICK s \in Sessions : 
          \/ todo = <<<<"tag">>, <<"mark", s>>, <<"dir", s>>>>
          \/ todo = <<<<"mark", s>>, <<"dir", s>>>> /\ repo = "tag"
          \/ todo = <<<<"dir", s>>>>
    BY <1>1 DEF Beginning
  <2>2. CASE todo = <<<<"tag">>, <<"mark", s>>, <<"dir", s>>>>
    <3>1. Head(todo) = <<"tag">> /\ Tail(todo) = <<<<"mark", s>>, <<"dir", s>>>>
      BY <2>2, Three
    <3>2. step = "tag" /\ todo' = <<<<"mark", s>>, <<"dir", s>>>>
      BY <3>1 DEF Do
    <3>3. QED
      BY <2>2, <3>1, <3>2
  <2>3. CASE todo = <<<<"mark", s>>, <<"dir", s>>>> /\ repo = "tag"
    <3>1. Head(todo) = <<"mark", s>> /\ Tail(todo) = <<<<"dir", s>>>>
      BY <2>3, Two
    <3>2. step = "mark" /\ todo' = <<<<"dir", s>>>>
      BY <3>1 DEF Do
    <3>3. QED
      BY <2>3, <3>1, <3>2
  <2>4. CASE todo = <<<<"dir", s>>>>
    <3>1. Head(todo) = <<"dir", s>> /\ Tail(todo) = <<>>
      BY <2>4, One
    <3>2. step = "dir" /\ todo' = <<>>
      BY <3>1 DEF Do
    <3>3. QED
      BY <2>4, <3>1, <3>2
  <2>5. QED
    BY <2>1, <2>2, <2>3, <2>4
<1>2. CASE Editing
  <2>1. PICK f \in Files : 
          \/ todo = <<<<"write", f>>, <<"cache", f>>>> /\ marker # NoSession
          \/ todo = <<<<"cache", f>>>>
    BY <1>2 DEF Editing
  <2>2. CASE todo = <<<<"write", f>>, <<"cache", f>>>> /\ marker # NoSession
    <3>1. Head(todo) = <<"write", f>> /\ Tail(todo) = <<<<"cache", f>>>>
      BY <2>2, Two
    <3>2. step = "write" /\ todo' = <<<<"cache", f>>>>
      BY <3>1 DEF Do
    <3>3. QED
      BY <2>2, <3>1, <3>2
  <2>3. CASE todo = <<<<"cache", f>>>>
    <3>1. Head(todo) = <<"cache", f>> /\ Tail(todo) = <<>>
      BY <2>3, One
    <3>2. step = "cache" /\ todo' = <<>>
      BY <3>1 DEF Do
    <3>3. QED
      BY <2>3, <3>1, <3>2
  <2>4. QED
    BY <2>1, <2>2, <2>3
<1>3. CASE Ending
  <2>1. PICK m \in Sessions, r \in {"aborted", "rolled_back"} : 
          \/ todo = <<<<"reset">>, <<"unmark">>, <<"finalize", m, r>>>> /\ marker # NoSession
          \/ todo = <<<<"unmark">>, <<"finalize", m, r>>>> /\ Rolled
          \/ todo = <<<<"finalize", m, r>>>>
    BY <1>3 DEF Ending
  <2>2. CASE todo = <<<<"reset">>, <<"unmark">>, <<"finalize", m, r>>>> /\ marker # NoSession
    <3>1. Head(todo) = <<"reset">> /\ Tail(todo) = <<<<"unmark">>, <<"finalize", m, r>>>>
      BY <2>2, Three
    <3>2. step = "reset" /\ todo' = <<<<"unmark">>, <<"finalize", m, r>>>>
      BY <3>1 DEF Do
    <3>3. QED
      BY <2>2, <3>1, <3>2
  <2>3. CASE todo = <<<<"unmark">>, <<"finalize", m, r>>>> /\ Rolled
    <3>1. Head(todo) = <<"unmark">> /\ Tail(todo) = <<<<"finalize", m, r>>>>
      BY <2>3, Two
    <3>2. step = "unmark" /\ todo' = <<<<"finalize", m, r>>>>
      BY <3>1 DEF Do
    <3>3. QED
      BY <2>3, <3>1, <3>2
  <2>4. CASE todo = <<<<"finalize", m, r>>>>
    <3>1. Head(todo) = <<"finalize", m, r>> /\ Tail(todo) = <<>>
      BY <2>4, One
    <3>2. step = "finalize" /\ todo' = <<>>
      BY <3>1 DEF Do
    <3>3. QED
      BY <2>4, <3>1, <3>2
  <2>5. QED
    BY <2>1, <2>2, <2>3, <2>4
<1>4. CASE Accepting
  <2>1. PICK m \in Sessions : 
          \/ todo = <<<<"retag">>, <<"unmark">>, <<"finalize", m, "passed">>>>
          \/ todo = <<<<"unmark">>, <<"finalize", m, "passed">>>>
          \/ todo = <<<<"finalize", m, "passed">>>>
    BY <1>4 DEF Accepting
  <2>2. CASE todo = <<<<"retag">>, <<"unmark">>, <<"finalize", m, "passed">>>>
    <3>1. Head(todo) = <<"retag">> /\ Tail(todo) = <<<<"unmark">>, <<"finalize", m, "passed">>>>
      BY <2>2, Three
    <3>2. step = "retag" /\ todo' = <<<<"unmark">>, <<"finalize", m, "passed">>>>
      BY <3>1 DEF Do
    <3>3. QED
      BY <2>2, <3>1, <3>2
  <2>3. CASE todo = <<<<"unmark">>, <<"finalize", m, "passed">>>>
    <3>1. Head(todo) = <<"unmark">> /\ Tail(todo) = <<<<"finalize", m, "passed">>>>
      BY <2>3, Two
    <3>2. step = "unmark" /\ todo' = <<<<"finalize", m, "passed">>>>
      BY <3>1 DEF Do
    <3>3. QED
      BY <2>3, <3>1, <3>2
  <2>4. CASE todo = <<<<"finalize", m, "passed">>>>
    <3>1. Head(todo) = <<"finalize", m, "passed">> /\ Tail(todo) = <<>>
      BY <2>4, One
    <3>2. step = "finalize" /\ todo' = <<>>
      BY <3>1 DEF Do
    <3>3. QED
      BY <2>4, <3>1, <3>2
  <2>5. QED
    BY <2>1, <2>2, <2>3, <2>4
<1>5. CASE Recovering
  <2>1. 
          \/ todo = <<<<"reset">>, <<"unmark">>>> /\ marker # NoSession
          \/ todo = <<<<"unmark">>>> /\ Rolled
    BY <1>5 DEF Recovering
  <2>2. CASE todo = <<<<"reset">>, <<"unmark">>>> /\ marker # NoSession
    <3>1. Head(todo) = <<"reset">> /\ Tail(todo) = <<<<"unmark">>>>
      BY <2>2, Two
    <3>2. step = "reset" /\ todo' = <<<<"unmark">>>>
      BY <3>1 DEF Do
    <3>3. QED
      BY <2>2, <3>1, <3>2
  <2>3. CASE todo = <<<<"unmark">>>> /\ Rolled
    <3>1. Head(todo) = <<"unmark">> /\ Tail(todo) = <<>>
      BY <2>3, One
    <3>2. step = "unmark" /\ todo' = <<>>
      BY <3>1 DEF Do
    <3>3. QED
      BY <2>3, <3>1, <3>2
  <2>4. QED
    BY <2>1, <2>2, <2>3
<1>6. QED
  BY <1>1, <1>2, <1>3, <1>4, <1>5 DEF TodoInv

\* A session that accepts its edits is recognised by its last step.
LEMMA AcceptingPasses ==
  ASSUME NEW m \in Sessions, todo = <<<<"unmark">>, <<"finalize", m, "passed">>>>
  PROVE  Passing
<1>1. 2 \in DOMAIN todo /\ todo[2] = <<"finalize", m, "passed">>
  OBVIOUS
<1>2. todo[2][1] = "finalize" /\ todo[2][3] = "passed"
  BY <1>1
<1>3. QED
  BY <1>1, <1>2 DEF Passing

\* The steps of a tool that leave marker and tree alone.
LEMMA QuietStep ==
  ASSUME SessInv, Tag \/ Retag \/ MakeDir \/ Finalize \/ CacheEdit
  PROVE  SessInv'
<1>1. TodoInv /\ todo # <<>>
  BY DEF SessInv, Do, Tag, Retag, MakeDir, Finalize, CacheEdit
<1>2. UNCHANGED <<tree, marker, verified, stuck>>
  BY DEF Tag, Retag, MakeDir, Finalize, CacheEdit
<1>3. repo' = "tag" \/ repo' = repo
  BY DEF Tag, Retag, MakeDir, Finalize, CacheEdit
<1>4. TodoInv'
  <2>1. CASE Tag
    <3>1. repo' = "tag" /\ \E s \in Sessions : todo' = <<<<"mark", s>>, <<"dir", s>>>>
      BY <1>1, <2>1, Rest DEF Tag
    <3>2. QED
      BY <3>1 DEF TodoInv, Beginning
  <2>2. CASE Retag
    <3>1. \E m \in Sessions : todo' = <<<<"unmark">>, <<"finalize", m, "passed">>>>
      BY <1>1, <2>2, Rest DEF Retag
    <3>2. QED
      BY <3>1 DEF TodoInv, Accepting
  <2>3. CASE MakeDir \/ Finalize \/ CacheEdit
    <3>1. todo' = <<>>
      BY <1>1, <2>3, Rest DEF MakeDir, Finalize, CacheEdit
    <3>2. QED
      BY <3>1 DEF TodoInv
  <2>4. QED
    BY <2>1, <2>2, <2>3
<1>5. QED
  BY <1>2, <1>3, <1>4 DEF SessInv, Rolled

LEMMA MarkStep ==
  ASSUME SessInv, Mark
  PROVE  SessInv'
<1>1. TodoInv /\ todo # <<>> /\ Do("mark")
  BY DEF SessInv, Do, Mark
<1>2. PICK s \in Sessions : Head(todo)[2] = s /\ todo' = <<<<"dir", s>>>>
  BY <1>1, Rest
<1>3. marker' = s /\ repo' = "tag"
  BY <1>1, <1>2, Rest DEF Mark
<1>4. TodoInv'
  BY <1>2 DEF TodoInv, Beginning
<1>5. QED
  BY <1>3, <1>4, SessAssumption DEF SessInv

\* The marker goes: the tree is back, or it is what has just been accepted.
LEMMA UnmarkStep ==
  ASSUME SessInv, Unmark
  PROVE  SessInv'
<1>1. TodoInv /\ todo # <<>> /\ Do("unmark")
  BY DEF SessInv, Do, Unmark
<1>2. marker' = NoSession /\ UNCHANGED <<repo, tree, stuck>>
  BY DEF Unmark
<1>3. Agree(tree, verified)' \/ Rolled'
  <2>1. Rolled => Rolled'
    BY <1>2 DEF Rolled, Agree, Committed
  <2>2. ASSUME NEW m \in Sessions, todo = <<<<"unmark">>, <<"finalize", m, "passed">>>>
        PROVE  Agree(tree, verified)'
    BY <1>2, <2>2, AcceptingPasses DEF Unmark, Agree
  <2>3. QED
    BY <1>1, <2>1, <2>2, Rest
<1>4. TodoInv'
  <2>1. CASE todo' = <<>>
    BY <2>1 DEF TodoInv
  <2>2. ASSUME NEW m \in Sessions, NEW r \in {"aborted", "rolled_back", "passed"},
               todo' = <<<<"finalize", m, r>>>>
        PROVE  TodoInv'
    BY <2>2 DEF TodoInv, Ending, Accepting
  <2>3. QED
    BY <1>1, <2>1, <2>2, Rest
<1>5. QED
  BY <1>2, <1>3, <1>4 DEF SessInv

LEMMA WriteFileStep ==
  ASSUME SessInv, WriteFile
  PROVE  SessInv'
<1>1. TodoInv /\ todo # <<>> /\ Do("write")
  BY DEF SessInv, Do, WriteFile
<1>2. marker # NoSession /\ \E f \in Files : todo' = <<<<"cache", f>>>>
  BY <1>1, Rest
<1>3. UNCHANGED <<repo, marker>>
  BY DEF WriteFile
<1>4. QED
  BY <1>2, <1>3 DEF SessInv, TodoInv, Editing

\* The rollback, when git does it and when git fails.
LEMMA ResetStep ==
  ASSUME SessInv, Reset \/ ResetFails
  PROVE  SessInv'
<1>1. TodoInv /\ todo # <<>> /\ Do("reset")
  BY DEF SessInv, Do, Reset, ResetFails
<1>2. /\ marker # NoSession
      /\ \/ todo' = <<<<"unmark">>>>
         \/ \E m \in Sessions, r \in {"aborted", "rolled_back"} :
               todo' = <<<<"unmark">>, <<"finalize", m, r>>>>
  BY <1>1, Rest
<1>3. repo = "tag" /\ UNCHANGED <<repo, marker>>
  BY <1>2 DEF SessInv, Reset, ResetFails
<1>4. Rolled'
  BY <1>3, SessAssumption DEF Rolled, Reset, ResetFails, Committed, Agree
<1>5. TodoInv'
  BY <1>2, <1>4 DEF TodoInv, Ending, Recovering
<1>6. QED
  BY <1>2, <1>3, <1>5 DEF SessInv

\* Crashes, errors and starts; and what happens between two tools.
LEMMA OtherStep ==
  ASSUME SessInv,
         \/ StepFails \/ SessCrash \/ SessStart \/ Recovered \/ DropCaches
         \/ \E s \in Sessions, f \in Files : ApplyCachedFile(s, f)
  PROVE  SessInv'
<1>1. CASE StepFails \/ SessCrash
  BY <1>1 DEF StepFails, SessCrash, SessInv, TodoInv, Rolled, Agree
<1>2. CASE SessStart
  BY <1>2 DEF SessStart, SessInv, TodoInv, Recovering, Rolled
<1>3. CASE Recovered
  BY <1>3 DEF Recovered, SessInv, TodoInv, Rolled, Agree
<1>4. CASE DropCaches
  BY <1>4 DEF DropCaches, Idle, SessInv, TodoInv, Rolled, Agree
<1>5. ASSUME NEW s \in Sessions, NEW f \in Files, ApplyCachedFile(s, f)
      PROVE  SessInv'
  BY <1>5 DEF ApplyCachedFile, Idle, SessInv, TodoInv
<1>6. QED
  BY <1>1, <1>2, <1>3, <1>4, <1>5

LEMMA SessStep ==
  ASSUME SessInv, [SessNext]_sessVars
  PROVE  SessInv'
<1>1. CASE SessNext
  BY <1>1, PlanStep, QuietStep, MarkStep, UnmarkStep, WriteFileStep, ResetStep, OtherStep DEF SessNext
<1>2. CASE UNCHANGED sessVars
  BY <1>2 DEF sessVars, SessInv, TodoInv, Beginning, Editing, Ending, Accepting, Recovering, Rolled
<1>3. QED
  BY <1>1, <1>2

LEMMA SessWatched == SessInv => NoStrayEdits
  BY DEF SessInv, Rolled, NoStrayEdits

\* Whenever no marker is there, the tracked files are the committed ones or those that
\* were verified last, unless git failed to roll back (session_manager.py:102-118,
\* 166-206).
THEOREM EditsAreWatched == SessSpec => []NoStrayEdits
<1>1. SessInv /\ [SessNext]_sessVars => SessInv'
  BY SessStep
<1>2. SessInv => NoStrayEdits
  BY SessWatched
<1>3. QED
  BY SessStarts, <1>1, <1>2, PTL DEF SessSpec

-----------------------------------------------------------------------------
(* The types of a session. *)

Entries == [result : Results \cup {"none"}, files : [Files -> Version \cup {NotCached}]]

\* The edit in hand is one that the bound allows.
WriteNext == todo # <<>> /\ Head(todo)[1] = "write"

SessRest ==
  /\ server \in {"down", "recovering", "up"} /\ repo \in {"none", "commit", "tag"}
  /\ tree \in [Files -> Version] /\ verified \in [Files -> Version]
  /\ cache \in [Sessions -> Entries]
  /\ edits \in Version /\ sessCrashes \in 0..MaxSessCrashes /\ stuck \in BOOLEAN
  /\ WriteNext => edits < MaxEdits

LEMMA Bounds == /\ 0 \in Version /\ 0 \in 0..MaxSessCrashes /\ Committed \in [Files -> Version]
                /\ NoDir \in Entries /\ NewDir \in Entries
<1>1. MaxEdits \in Nat /\ MaxSessCrashes \in Nat
  BY SessAssumption
<1>2. 0 \in Version /\ NotCached \in Version \cup {NotCached} /\ 0 \in 0..MaxSessCrashes
  BY <1>1 DEF Version
<1>3. Committed \in [Files -> Version]
  BY <1>2 DEF Committed
<1>4. NoDir \in Entries
  BY <1>2 DEF NoDir, Entries
<1>5. NewDir \in Entries
  BY <1>2 DEF NoDir, NewDir, Entries, Results
<1>6. QED
  BY <1>2, <1>3, <1>4, <1>5

LEMMA SessRestStart == SessInit => SessRest
<1>. SUFFICES ASSUME SessInit
              PROVE  SessRest
  OBVIOUS
<1>1. cache \in [Sessions -> Entries]
  BY Bounds DEF SessInit
<1>2. tree \in [Files -> Version] /\ verified \in [Files -> Version]
  BY Bounds DEF SessInit
<1>3. edits \in Version /\ sessCrashes \in 0..MaxSessCrashes
  BY Bounds DEF SessInit
<1>4. QED
  BY <1>1, <1>2, <1>3 DEF SessInit, SessRest, WriteNext

\* The last step of a session names its result.
LEMMA FinalizeTells ==
  ASSUME TodoInv, todo # <<>>, Head(todo)[1] = "finalize"
  PROVE  Head(todo)[3] \in Results
<1>1. ASSUME NEW m \in Sessions, NEW r \in {"aborted", "rolled_back", "passed"}, Head(todo) = <<"finalize", m, r>>
      PROVE  Head(todo)[3] \in Results
  BY <1>1 DEF Results
<1>2. CASE Beginning
  BY <1>2, One, Two, Three DEF Beginning
<1>3. CASE Editing
  BY <1>3, One, Two DEF Editing
<1>4. CASE Ending
  BY <1>1, <1>4, One, Two, Three DEF Ending
<1>5. CASE Accepting
  BY <1>1, <1>5, One, Two, Three DEF Accepting
<1>6. CASE Recovering
  BY <1>6, One, Two DEF Recovering
<1>7. QED
  BY <1>2, <1>3, <1>4, <1>5, <1>6 DEF TodoInv

\* Nobody but a new edit is about to write.
LEMMA NoWrite ==
  ASSUME TodoInv, todo # <<>>, NEW step, Do(step)
  PROVE  ~WriteNext'
<1>. SUFFICES ASSUME todo' # <<>>
              PROVE  Head(todo')[1] # "write"
  BY DEF WriteNext
<1>1. step \in {"tag", "mark", "dir", "write", "cache", "reset", "retag", "unmark", "finalize"}
  <2>1. CASE Beginning
    BY <2>1, One, Two, Three DEF Beginning, Do
  <2>2. CASE Editing
    BY <2>2, One, Two DEF Editing, Do
  <2>3. CASE Ending
    BY <2>3, One, Two, Three DEF Ending, Do
  <2>4. CASE Accepting
    BY <2>4, One, Two, Three DEF Accepting, Do
  <2>5. CASE Recovering
    BY <2>5, One, Two DEF Recovering, Do
  <2>6. QED
    BY <2>1, <2>2, <2>3, <2>4, <2>5 DEF TodoInv
<1>2. CASE step = "tag"
  BY <1>2, Rest, Two
<1>3. CASE step \in {"mark", "write"}
  BY <1>3, Rest, One
<1>4. CASE step \in {"reset", "retag"}
  BY <1>4, Rest, One, Two
<1>5. CASE step = "unmark"
  BY <1>5, Rest, One
<1>6. CASE step \in {"dir", "cache", "finalize"}
  BY <1>6, Rest
<1>7. QED
  BY <1>1, <1>2, <1>3, <1>4, <1>5, <1>6

LEMMA SessRestStep ==
  ASSUME SessInv, SessRest, [SessNext]_sessVars
  PROVE  SessRest'
<1>0. TodoInv /\ MaxEdits \in Nat /\ MaxSessCrashes \in Nat
  BY SessAssumption DEF SessInv
<1>1. CASE UNCHANGED sessVars
  BY <1>1 DEF sessVars, SessRest, WriteNext
\* A tool lays out its steps.
<1>2. ASSUME NEW steps, Plan(steps), steps # <<>> /\ Head(steps)[1] = "write" => edits < MaxEdits
      PROVE  SessRest'
  BY <1>2 DEF Plan, SessRest, WriteNext
<1>3. ASSUME NEW s \in Sessions, BeginSession(s)
      PROVE  SessRest'
  BY <1>2, <1>3, Three DEF BeginSession
<1>4. ASSUME NEW f \in Files, EditCode(f)
      PROVE  SessRest'
  BY <1>2, <1>4 DEF EditCode
<1>5. CASE AbortSession \/ VerifyPass \/ VerifyFail
  BY <1>2, <1>5, Three DEF AbortSession, VerifyPass, VerifyFail
\* The steps.
<1>6. CASE Tag \/ Retag \/ Mark
  <2>1. ~WriteNext'
    BY <1>0, <1>6, NoWrite DEF Tag, Retag, Mark, Do
  <2>2. QED
    BY <1>6, <2>1 DEF Tag, Retag, Mark, SessRest
<1>7. CASE Unmark \/ Reset \/ ResetFails
  <2>1. ~WriteNext'
    BY <1>0, <1>7, NoWrite DEF Unmark, Reset, ResetFails, Do
  <2>0. tree' \in [Files -> Version]
    BY <1>7, Bounds DEF Unmark, Reset, ResetFails, SessRest, Committed
  <2>2. /\ verified' = verified \/ verified' = tree
        /\ stuck' = stuck \/ stuck' = TRUE
        /\ UNCHANGED <<server, repo, cache, edits, sessCrashes>>
    BY <1>7 DEF Unmark, Reset, ResetFails
  <2>3. QED
    BY <2>0, <2>1, <2>2 DEF SessRest
<1>8. CASE WriteFile
  <2>1. ~WriteNext'
    BY <1>0, <1>8, NoWrite DEF WriteFile, Do
  <2>2. edits' \in Version
    BY <1>0, <1>8 DEF WriteFile, Do, SessRest, WriteNext, Version
  <2>3. tree' \in [Files -> Version]
    BY <1>8, <2>2 DEF WriteFile, SessRest
  <2>4. QED
    BY <1>8, <2>1, <2>2, <2>3 DEF WriteFile, SessRest
<1>9. CASE MakeDir \/ Finalize \/ CacheEdit
  <2>1. ~WriteNext'
    BY <1>0, <1>9, NoWrite DEF MakeDir, Finalize, CacheEdit, Do
  <2>2. CASE MakeDir
    BY <2>1, <2>2, Bounds DEF MakeDir, SessRest
  <2>3. CASE Finalize
    <3>1. Head(todo)[3] \in Results
      BY <1>0, <2>3, FinalizeTells DEF Finalize, Do
    <3>2. cache' \in [Sessions -> Entries]
      BY <2>3, <3>1 DEF Finalize, SessRest, Entries
    <3>3. QED
      BY <2>1, <2>3, <3>2 DEF Finalize, SessRest
  <2>4. CASE CacheEdit
    <3>1. cache' \in [Sessions -> Entries]
      <4>. DEFINE f == Head(todo)[2]
      <4>1. cache' = cache \/ cache' = [cache EXCEPT ![marker].files[f] = tree[f]]
        BY <2>4 DEF CacheEdit
      <4>2. \A s \in Sessions : [cache[s] EXCEPT !.files[f] = tree[f]] \in Entries
        BY DEF SessRest, Entries
      <4>3. QED
        BY <4>1, <4>2 DEF SessRest
    <3>2. QED
      BY <2>1, <2>4, <3>1 DEF CacheEdit, SessRest
  <2>5. QED
    BY <1>9, <2>2, <2>3, <2>4
\* Crashes, errors and starts; and what happens between two tools.
<1>10. CASE StepFails \/ SessCrash
  <2>1. ~WriteNext' /\ sessCrashes' \in 0..MaxSessCrashes
    BY <1>0, <1>10 DEF StepFails, SessCrash, SessRest, WriteNext
  <2>2. QED
    BY <1>10, <2>1 DEF StepFails, SessCrash, SessRest
<1>11. CASE SessStart \/ Recovered
  <2>1. ~WriteNext'
    BY <1>11, Two DEF SessStart, Recovered, WriteNext
  <2>2. QED
    BY <1>11, <2>1 DEF SessStart, Recovered, SessRest
<1>12. CASE DropCaches
  <2>1. cache' \in [Sessions -> Entries]
    BY <1>12, Bounds DEF DropCaches, SessRest
  <2>2. QED
    BY <1>12, <2>1 DEF DropCaches, SessRest, WriteNext
<1>13. ASSUME NEW s \in Sessions, NEW f \in Files, ApplyCachedFile(s, f)
       PROVE  SessRest'
  <2>1. cache[s].files[f] \in Version
    BY <1>13 DEF ApplyCachedFile, SessRest, Entries
  <2>2. tree' \in [Files -> Version]
    BY <1>13, <2>1 DEF ApplyCachedFile, SessRest
  <2>3. QED
    BY <1>13, <2>2 DEF ApplyCachedFile, SessRest, WriteNext
<1>14. QED
  BY <1>1, <1>3, <1>4, <1>5, <1>6, <1>7, <1>8, <1>9, <1>10, <1>11, <1>12, <1>13 DEF SessNext

\* The invariants of a session give the types of its variables.
LEMMA SessTyped ==
  ASSUME SessInv, SessRest
  PROVE  SessTypeOK
  BY DEF SessInv, SessRest, SessTypeOK, Entries

=============================================================================
