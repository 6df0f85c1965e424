--------------------------- MODULE ServicesProofs ---------------------------
(***************************************************************************)
(* The invariants of the components that share no state, together, for the *)
(* specification that TLC checks (MCServices): a step of one of them is a  *)
(* step of its own specification, and the others stay.  What the proofs of *)
(* the components say of their steps holds for all of them at once, with   *)
(* any values of the constants.                                            *)
(***************************************************************************)
EXTENDS MCServices, ToolProofs, PipelineProofs, BridgeProofs, IdleProofs

ServicesInv ==
  /\ part \in Parts
  /\ SessInv /\ SessRest
  /\ LimitInv /\ HistoryInv /\ ResultInv /\ NoticeInv
  /\ WaInv /\ WaRest /\ WaFresh
  /\ DiscordInv /\ DiscordRest /\ ChainIsFull
  /\ RestInv /\ FreshFutures
  /\ CallInv /\ LinkInv
  /\ McpInv /\ IdleInv /\ GraphInv /\ JobInv

LEMMA ServicesStart == Init => ServicesInv
<1>. SUFFICES ASSUME Init
              PROVE  ServicesInv
  OBVIOUS
<1>1. SessInv /\ SessRest
  BY SessStarts, SessRestStart DEF Init
<1>2. LimitInv /\ HistoryInv /\ ResultInv /\ NoticeInv
  BY LimitStart, HistoryStart, ResultStart, NoticeStart DEF Init
<1>3. WaInv /\ WaRest /\ WaFresh /\ DiscordInv /\ DiscordRest /\ ChainIsFull
  BY WaStart, WaRestStart, WaTalkStart, DiscordStart, DiscordRestStart DEF Init
<1>4. RestInv /\ FreshFutures /\ CallInv /\ LinkInv /\ McpInv
  BY RestStart, RestTalkStart, CallStart, McpStart DEF Init
<1>5. IdleInv /\ GraphInv /\ JobInv
  BY IdleStart, GraphStart, JobStart DEF Init
<1>6. QED
  BY <1>1, <1>2, <1>3, <1>4, <1>5 DEF Init, ServicesInv

\* Whoever takes a step, it is one of each component's own specification.
LEMMA StepOfEach ==
  ASSUME [Next]_vars
  PROVE  /\ part' = part
         /\ [SessNext]_sessVars /\ [RunNext]_runVars /\ [WaNext]_waVars /\ [DiscordNext]_discordVars
         /\ [RestNext]_restVars /\ [CallNext]_callVars /\ [McpNext]_mcpVars /\ [IdleNext]_idleVars
         /\ [GraphNext]_graphVars /\ [JobNext]_jobVars
<1>1. CASE Sessions_ \/ Pipeline_ \/ WhatsApp_ \/ Discord_
  BY <1>1 DEF Sessions_, Pipeline_, WhatsApp_, Discord_, Turn
<1>2. CASE Rest_ \/ Calls_ \/ Mcp_
  BY <1>2 DEF Rest_, Calls_, Mcp_, Turn
<1>3. CASE Idle_ \/ Memory_ \/ Sandbox_
  BY <1>3 DEF Idle_, Memory_, Sandbox_, Turn
<1>4. CASE UNCHANGED vars
  BY <1>4 DEF vars
<1>5. QED
  BY <1>1, <1>2, <1>3, <1>4 DEF Next

LEMMA ServicesStep ==
  ASSUME ServicesInv, [Next]_vars
  PROVE  ServicesInv'
<1>0. part' = part
  BY StepOfEach
<1>1. SessInv' /\ SessRest'
  <2>1. [SessNext]_sessVars
    BY StepOfEach
  <2>2. QED
    BY <2>1, SessStep, SessRestStep DEF ServicesInv
<1>2. LimitInv' /\ HistoryInv' /\ ResultInv' /\ NoticeInv'
  <2>1. [RunNext]_runVars
    BY StepOfEach
  <2>2. QED
    BY <2>1, LimitStep, HistoryStep, ResultStep, NoticeStep DEF ServicesInv
<1>3. WaInv' /\ WaRest' /\ WaFresh'
  <2>1. [WaNext]_waVars
    BY StepOfEach
  <2>2. QED
    BY <2>1, WaKept, WaRestStep, WaFreshStep DEF ServicesInv
<1>4. DiscordInv' /\ DiscordRest' /\ ChainIsFull'
  <2>1. [DiscordNext]_discordVars
    BY StepOfEach
  <2>2. QED
    BY <2>1, DiscordKept, DiscordRestStep, ChainFullStep DEF ServicesInv
<1>5. RestInv' /\ FreshFutures' /\ CallInv' /\ LinkInv'
  <2>1. [RestNext]_restVars /\ [CallNext]_callVars
    BY StepOfEach
  <2>2. QED
    BY <2>1, RestKept, FreshStep, CallKept, LinkStep DEF ServicesInv, CallInv
<1>6. McpInv' /\ JobInv'
  <2>1. [McpNext]_mcpVars /\ [JobNext]_jobVars
    BY StepOfEach
  <2>2. QED
    BY <2>1, McpKept, JobKept DEF ServicesInv
<1>7. IdleInv' /\ GraphInv'
  <2>1. [IdleNext]_idleVars /\ [GraphNext]_graphVars
    BY StepOfEach
  <2>2. QED
    BY <2>1, IdleKept, GraphKept DEF ServicesInv
<1>8. QED
  BY <1>0, <1>1, <1>2, <1>3, <1>4, <1>5, <1>6, <1>7 DEF ServicesInv

LEMMA ServicesOrder == Spec => []ServicesInv
<1>1. ServicesInv /\ [Next]_vars => ServicesInv'
  BY ServicesStep
<1>2. QED
  BY ServicesStart, <1>1, PTL DEF Spec

\* The variables of all components have their types: no queue of a bridge holds a
\* message twice or one that is not in progress, and no history grows past its window.
THEOREM ServicesTypes == Spec => []ServicesTypeOK
<1>1. ServicesInv => ServicesTypeOK
  <2>. SUFFICES ASSUME ServicesInv
                PROVE  ServicesTypeOK
    OBVIOUS
  <2>1. SessTypeOK /\ WaTypeOK /\ DiscordTypeOK
    BY SessTyped, WaTyped, DiscordTyped DEF ServicesInv
  <2>2. RunTypeOK /\ RestTypeOK /\ CallTypeOK /\ McpTypeOK
    BY DEF ServicesInv, LimitInv, RestInv, CallInv, McpInv
  <2>3. IdleTypeOK /\ GraphTypeOK /\ JobTypeOK
    BY DEF ServicesInv, IdleInv, GraphInv, JobInv
  <2>4. QED
    BY <2>1, <2>2, <2>3 DEF ServicesInv, ServicesTypeOK
<1>2. QED
  BY ServicesOrder, <1>1, PTL

\* No edit of the program's own code outlives its session unverified; the history of a
\* run stays paired and a notice is told once; the entries of both bridges are those of
\* the requests that wait; REST requests, actions of adapters and calls of MCP tools get
\* their own results; claims and jobs are kept, and a subject of the memory is lost only to
\* overlapping writers: all in one behaviour, whichever component runs.
THEOREM ServicesAreSafe ==
  Spec => [](/\ NoStrayEdits /\ HistoryIsPaired /\ ToldAtMostOnce
             /\ EntryIsCurrent /\ EntryIsWatched
             /\ FutureIsAwaited /\ OwnAnswer /\ ResultIsOwn /\ ResponseIsOwn
             /\ ClaimsHaveSession /\ LossNeedsOverlap /\ NoJobLost)
<1>. DEFINE Safe == /\ NoStrayEdits /\ HistoryIsPaired /\ ToldAtMostOnce
                    /\ EntryIsCurrent /\ EntryIsWatched
                    /\ FutureIsAwaited /\ OwnAnswer /\ ResultIsOwn /\ ResponseIsOwn
                    /\ ClaimsHaveSession /\ LossNeedsOverlap /\ NoJobLost
<1>1. ServicesInv => Safe
  <2>. SUFFICES ASSUME ServicesInv
                PROVE  Safe
    OBVIOUS
  <2>1. NoStrayEdits /\ HistoryIsPaired /\ ToldAtMostOnce
    BY SessWatched, HistoryPaired DEF ServicesInv, NoticeInv
  <2>2. EntryIsCurrent /\ EntryIsWatched
    BY WaCurrent, DiscordWatched DEF ServicesInv
  <2>3. FutureIsAwaited /\ OwnAnswer /\ ResultIsOwn /\ ResponseIsOwn
    BY RestOwn, CallOwn DEF ServicesInv, RestInv, McpInv
  <2>4. ClaimsHaveSession /\ LossNeedsOverlap /\ NoJobLost
    BY GraphLoses, JobTold DEF ServicesInv, IdleInv
  <2>5. QED
    BY <2>1, <2>2, <2>3, <2>4
<1>. HIDE DEF Safe
<1>2. Spec => []Safe
  BY ServicesOrder, <1>1, PTL
<1>3. QED
  BY <1>2 DEF Safe

\* A run of the pipeline is bounded by the limits of its loop, whichever component runs.
THEOREM ServicesMoveOn == Spec => RunsMoveOn
<1>1. ServicesInv /\ [Next]_vars =>
        [stage # "idle" =>
           \/ stage' = "idle"
           \/ rounds < rounds' /\ rounds' <= MaxRounds + 1
           \/ rounds' = rounds /\ Ahead[stage'] < Ahead[stage]
           \/ UNCHANGED <<rounds, stage>> /\ attempt < attempt' /\ attempt' <= MaxAttempts
           \/ /\ UNCHANGED <<rounds, stage, response>> /\ stage = "tools"
              /\ \A i \in DOMAIN response : Steps[result'[i]] <= Steps[result[i]]
              /\ \E i \in DOMAIN response : Steps[result'[i]] < Steps[result[i]]
        ]_<<stage, inline, withIds, attempt, loopVars, runs, inContext, told>>
  BY StepOfEach, RunMoves DEF ServicesInv
<1>2. QED
  BY ServicesOrder, <1>1, PTL DEF Spec, RunsMoveOn

\* A message pushed while the bridge is connected reaches it, whichever component runs.
THEOREM ServicesPush == Spec => PushReachesLink
<1>1. ServicesInv /\ [Next]_vars =>
        [\A p \in Pushes : pushed[p] = "new" /\ pushed'[p] = "lost" => link = 0]_callVars
  BY StepOfEach, PushArrives DEF ServicesInv, CallInv
<1>2. QED
  BY ServicesOrder, <1>1, PTL DEF Spec, PushReachesLink

\* The handler of REST requests and the WhatsApp bridge implement ConversationReplies,
\* whichever component runs.
THEOREM ServicesReply == Spec => GivesReplies
<1>1. Init => RestTalk!Init /\ WaTalk!Init
  BY RestTalkStart, WaTalkStart DEF Init
<1>2. ServicesInv /\ [Next]_vars => [RestTalk!Next]_(RestTalk!talkVars)
  BY StepOfEach, RestTalkStep DEF ServicesInv
<1>3. ServicesInv /\ [Next]_vars => [WaTalk!Next]_(WaTalk!talkVars)
  BY StepOfEach, WaTalkStep DEF ServicesInv
<1>4. QED
  BY ServicesOrder, <1>1, <1>2, <1>3, PTL
     DEF Spec, GivesReplies, RestGivesReplies, WaGivesReplies, RestTalk!Spec, WaTalk!Spec

=============================================================================
