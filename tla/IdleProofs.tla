----------------------------- MODULE IdleProofs -----------------------------
(***************************************************************************)
(* Proofs about what runs without the user: the research queue with its    *)
(* sessions and dreams (IdleWork), and the writers of the memory graph     *)
(* (MemoryGraph).  For any number of topics, retries, sessions a day,      *)
(* failing statements, memories and subjects.                              *)
(***************************************************************************)
EXTENDS IdleWork, MemoryGraph, TLAPS

-----------------------------------------------------------------------------
(* Research and dreams. *)

\* Who is at work holds the lock, and as long as no statement has failed, what a crash has
\* left in_progress is gone before a dream begins to wait.
TurnInv ==
  /\ curiosity \in {"discovering", "researching"} => turn = "curiosity"
  /\ dream = "dreaming" => turn = "dream"
  /\ orphans \subseteq InState("in_progress")
  /\ dream # "none" /\ dbErrors = 0 => orphans = {}

IdleInv == IdleTypeOK /\ TurnInv /\ ClaimsHaveSession

LEMMA IdleStart == IdleInit => IdleInv
<1>. SUFFICES ASSUME IdleInit
              PROVE  IdleInv
  OBVIOUS
<1>. USE IdleAssumption DEF IdleInit
<1>1. IdleTypeOK
  BY DEF IdleTypeOK
<1>2. TurnInv /\ ClaimsHaveSession
  BY DEF TurnInv, ClaimsHaveSession, InState
<1>3. QED
  BY <1>1, <1>2 DEF IdleInv

\* A statement that fails is counted, and the count never becomes zero again.
LEMMA ErrorTypes ==
  ASSUME IdleTypeOK, Works \/ Raises
  PROVE  /\ dbErrors' \in 0 .. MaxDbErrors
         /\ dbErrors' = 0 => Works /\ dbErrors = 0
<1>1. dbErrors \in 0 .. MaxDbErrors /\ MaxDbErrors \in Nat
  BY IdleAssumption DEF IdleTypeOK
<1>2. QED
  BY <1>1 DEF Works, Raises

\* The sessions of today are among those counted, and one more is a number again.
LEMMA CountTypes ==
  ASSUME IdleTypeOK
  PROVE  /\ SessionsSoFar \in Nat
         /\ CountSession => sessionsToday' \in Nat /\ sessionDate' \in {"today", "earlier"}
<1>1. SessionsSoFar \in Nat
  BY DEF IdleTypeOK, SessionsSoFar
<1>2. ASSUME CountSession
      PROVE  sessionsToday' = SessionsSoFar + 1 /\ sessionDate' = "today"
  BY <1>2 DEF CountSession
<1>3. SessionsSoFar + 1 \in Nat
  BY <1>1
<1>4. QED
  BY <1>1, <1>2, <1>3

LEMMA StateTypes ==
  ASSUME IdleTypeOK, NEW S,
         NEW s \in {"absent", "pending", "in_progress", "done", "failed_retry", "failed"}
  PROVE  /\ SetState(S, s) \in [Topics -> {"absent", "pending", "in_progress", "done",
                                           "failed_retry", "failed"}]
         /\ \A t \in Topics : SetState(S, s)[t] = IF t \in S THEN s ELSE topicState[t]
  BY DEF IdleTypeOK, SetState

\* Promotion touches topics that wait for a retry only.
LEMMA PromoteTypes ==
  ASSUME IdleTypeOK
  PROVE  /\ Promote \in [Topics -> {"absent", "pending", "in_progress", "done",
                                    "failed_retry", "failed"}]
         /\ \A t \in Topics : Promote[t] = "in_progress" <=> topicState[t] = "in_progress"
  BY DEF IdleTypeOK, Promote, InState

LEMMA IdleTypes ==
  ASSUME IdleTypeOK, [IdleNext]_idleVars
  PROVE  IdleTypeOK'
<1>. USE DEF queueVars
<1>1. CASE ChatTurn \/ Midnight \/ CuriosityTurn \/ CuriosityRefused \/ DreamTurn
  BY <1>1 DEF IdleTypeOK, ChatTurn, Midnight, CuriosityTurn, CuriosityRefused, DreamTurn
<1>2. CASE Tick
  <2>1. PICK lost \in {"nothing", "sessions", "promotion", "pending"} :
          /\ IF lost = "nothing" THEN Works ELSE Raises
          /\ IF lost = "sessions"
             THEN UNCHANGED <<sessionsToday, sessionDate>>
             ELSE /\ SessionsSoFar < DailyCap
                  /\ sessionDate' = "today" /\ sessionsToday' = SessionsSoFar
          /\ topicState' = IF lost = "promotion" THEN topicState ELSE Promote
          /\ Schedule(IF lost = "pending" THEN {} ELSE Pending(topicState'))
    BY <1>2 DEF Tick
  <2>2. dbErrors' \in 0 .. MaxDbErrors
    BY <2>1, ErrorTypes
  <2>3. sessionsToday' \in Nat /\ sessionDate' \in {"today", "earlier"}
    BY <2>1, CountTypes DEF IdleTypeOK
  <2>4. topicState' \in [Topics -> {"absent", "pending", "in_progress", "done",
                                    "failed_retry", "failed"}]
    BY <2>1, PromoteTypes DEF IdleTypeOK
  <2>5. curiosity' \in {"none", "plans discovery", "plans research"}
    BY <2>1 DEF Schedule
  <2>6. UNCHANGED <<retryCount, backedOff, dream, turn, orphans, idleCrashes>>
    BY <1>2 DEF Tick
  <2>7. QED
    BY <2>2, <2>3, <2>4, <2>5, <2>6 DEF IdleTypeOK
<1>3. CASE Discover
  <2>1. PICK new \in SUBSET InState("absent") :
          /\ topicState' = SetState(new, "pending")
          /\ \/ /\ Works /\ CountSession
                /\ IF new = {} THEN LeaveTurn
                               ELSE curiosity' = "researching" /\ turn' = turn
             \/ Raises /\ LeaveTurn /\ UNCHANGED <<sessionsToday, sessionDate>>
    BY <1>3 DEF Discover
  <2>2. dbErrors' \in 0 .. MaxDbErrors
    BY <2>1, ErrorTypes
  <2>3. sessionsToday' \in Nat /\ sessionDate' \in {"today", "earlier"}
    BY <2>1, CountTypes DEF IdleTypeOK
  <2>4. topicState' \in [Topics -> {"absent", "pending", "in_progress", "done",
                                    "failed_retry", "failed"}]
    BY <2>1, StateTypes
  <2>5. curiosity' \in {"none", "researching"} /\ turn' \in {"free", turn}
    BY <2>1 DEF LeaveTurn
  <2>6. UNCHANGED <<retryCount, backedOff, dream, orphans, idleCrashes>>
    BY <1>3 DEF Discover
  <2>7. QED
    BY <2>2, <2>3, <2>4, <2>5, <2>6 DEF IdleTypeOK
<1>4. CASE DiscoveryFails
  BY <1>4 DEF IdleTypeOK, DiscoveryFails, LeaveTurn
<1>5. CASE EndResearch
  <2>1. dbErrors' \in 0 .. MaxDbErrors
    BY <1>5, ErrorTypes DEF EndResearch
  <2>2. sessionsToday' \in Nat /\ sessionDate' \in {"today", "earlier"}
    BY <1>5, CountTypes DEF EndResearch, IdleTypeOK
  <2>3. /\ topicState' \in [Topics -> {"absent", "pending", "in_progress", "done",
                                       "failed_retry", "failed"}]
        /\ orphans' \subseteq Topics
    BY <1>5, StateTypes DEF EndResearch, IdleTypeOK, InState
  <2>4. /\ curiosity' = "none" /\ turn' = "free"
        /\ UNCHANGED <<retryCount, backedOff, dream, idleCrashes>>
    BY <1>5 DEF EndResearch, LeaveTurn
  <2>5. QED
    BY <2>1, <2>2, <2>3, <2>4 DEF IdleTypeOK
<1>6. CASE IdleCrash
  <2>1. /\ idleCrashes' = idleCrashes + 1 /\ idleCrashes < MaxIdleCrashes
        /\ curiosity' = "none" /\ dream' = "none" /\ turn' = "free"
        /\ UNCHANGED <<topicState, retryCount, backedOff, sessionsToday, sessionDate, dbErrors>>
        /\ orphans' \subseteq Topics
    BY <1>6 DEF IdleCrash, InState
  <2>2. idleCrashes' \in 0 .. MaxIdleCrashes
    <3>1. idleCrashes \in 0 .. MaxIdleCrashes /\ MaxIdleCrashes \in Nat
      BY IdleAssumption DEF IdleTypeOK
    <3>2. idleCrashes < MaxIdleCrashes /\ idleCrashes' = idleCrashes + 1
      BY <2>1
    <3>3. QED
      BY <3>1, <3>2
  <2>3. QED
    BY <2>1, <2>2 DEF IdleTypeOK
<1>7. ASSUME NEW t \in Topics, QueueResearch(t) \/ StartTopic(t) \/ CompleteTopic(t) \/ BackoffEnds(t)
      PROVE  IdleTypeOK'
  <2>1. CASE QueueResearch(t) \/ StartTopic(t)
    <3>1. topicState' = SetState({t}, "pending") \/ topicState' = SetState({t}, "in_progress")
      BY <2>1 DEF QueueResearch, StartTopic
    <3>2. topicState' \in [Topics -> {"absent", "pending", "in_progress", "done",
                                      "failed_retry", "failed"}]
      BY <3>1, StateTypes
    <3>3. UNCHANGED <<retryCount, backedOff, sessionsToday, sessionDate, curiosity, dream,
                      turn, orphans, idleCrashes, dbErrors>>
      BY <2>1 DEF QueueResearch, StartTopic
    <3>4. QED
      BY <3>2, <3>3 DEF IdleTypeOK
  <2>2. CASE CompleteTopic(t)
    BY <2>2, StateTypes DEF IdleTypeOK, CompleteTopic
  <2>3. CASE BackoffEnds(t)
    BY <2>3 DEF IdleTypeOK, BackoffEnds
  <2>4. QED
    BY <1>7, <2>1, <2>2, <2>3
<1>8. ASSUME NEW t \in Topics, FailTopic(t)
      PROVE  IdleTypeOK'
  <2>1. /\ topicState' \in [Topics -> {"absent", "pending", "in_progress", "done",
                                       "failed_retry", "failed"}]
        /\ retryCount' \in [Topics -> Nat] /\ backedOff' \subseteq Topics
    BY <1>8, StateTypes DEF IdleTypeOK, FailTopic
  <2>2. QED
    BY <1>8, <2>1 DEF IdleTypeOK, FailTopic
<1>9. CASE DreamTick
  <2>1. dbErrors' \in 0 .. MaxDbErrors
    BY <1>9, ErrorTypes DEF DreamTick
  <2>2. QED
    BY <1>9, <2>1 DEF IdleTypeOK, DreamTick
<1>10. CASE UNCHANGED idleVars
  BY <1>10 DEF idleVars, IdleTypeOK
<1>11. QED
  BY <1>1, <1>2, <1>3, <1>4, <1>5, <1>6, <1>7, <1>8, <1>9, <1>10 DEF IdleNext

\* Claims and turns, one step per action.
LEMMA ClaimsStep ==
  ASSUME IdleInv, [IdleNext]_idleVars
  PROVE  TurnInv' /\ ClaimsHaveSession'
<1>. USE DEF queueVars, InState
<1>. USE DEF TurnInv, ClaimsHaveSession
<1>1. CASE ChatTurn \/ Midnight \/ CuriosityTurn \/ CuriosityRefused
  BY <1>1 DEF IdleInv, ChatTurn, Midnight, CuriosityTurn, CuriosityRefused
<1>2. CASE Tick
  <2>1. /\ InState("in_progress")' = InState("in_progress")
        /\ curiosity = "none" /\ curiosity' \in {"none", "plans discovery", "plans research"}
        /\ UNCHANGED <<dream, turn, orphans>> /\ (Works \/ Raises)
    BY <1>2, PromoteTypes DEF IdleInv, Tick, Schedule
  <2>2. dbErrors' = 0 => dbErrors = 0
    BY <2>1, ErrorTypes DEF IdleInv
  <2>3. QED
    BY <2>1, <2>2 DEF IdleInv
<1>3. CASE Discover
  <2>1. PICK new \in SUBSET InState("absent") : topicState' = SetState(new, "pending")
    BY <1>3 DEF Discover
  <2>2. InState("in_progress")' = InState("in_progress")
    BY <2>1, StateTypes DEF IdleInv
  <2>3. /\ curiosity = "discovering" /\ curiosity' \in {"none", "researching"}
        /\ curiosity' = "researching" => turn' = turn
        /\ turn' \in {"free", turn} /\ UNCHANGED <<dream, orphans>> /\ (Works \/ Raises)
    BY <1>3 DEF Discover, LeaveTurn
  <2>4. dbErrors' = 0 => dbErrors = 0
    BY <2>3, ErrorTypes DEF IdleInv
  <2>5. QED
    BY <2>2, <2>3, <2>4 DEF IdleInv
<1>4. CASE DiscoveryFails
  BY <1>4 DEF IdleInv, DiscoveryFails, LeaveTurn
<1>5. CASE EndResearch
  <2>1. dream # "dreaming" /\ dream' = dream /\ curiosity' = "none" /\ turn' = "free"
    BY <1>5 DEF IdleInv, EndResearch, LeaveTurn
  <2>2. \/ orphans' = {} /\ InState("in_progress")' = {}
        \/ orphans' = InState("in_progress")'
    BY <1>5, StateTypes DEF IdleInv, EndResearch
  <2>3. dbErrors' = 0 => orphans' = {}
    BY <1>5, ErrorTypes DEF IdleInv, EndResearch, Raises
  <2>4. QED
    BY <2>1, <2>2, <2>3
<1>6. CASE IdleCrash
  BY <1>6 DEF IdleInv, IdleCrash
<1>7. ASSUME NEW t \in Topics, \/ QueueResearch(t) \/ StartTopic(t) \/ CompleteTopic(t)
                               \/ FailTopic(t) \/ BackoffEnds(t)
      PROVE  TurnInv' /\ ClaimsHaveSession'
  BY <1>7, StateTypes DEF IdleInv, QueueResearch, StartTopic, CompleteTopic, FailTopic, BackoffEnds
<1>8. CASE DreamTick
  <2>1. dbErrors' = 0 => InState("in_progress") = {}
    BY <1>8, ErrorTypes DEF IdleInv, DreamTick, Raises
  <2>2. /\ dream = "none" /\ dream' = "waiting"
        /\ UNCHANGED <<topicState, curiosity, turn, orphans>>
    BY <1>8 DEF DreamTick
  <2>3. QED
    BY <2>1, <2>2 DEF IdleInv
<1>9. CASE DreamTurn
  BY <1>9 DEF IdleInv, DreamTurn
<1>10. CASE UNCHANGED idleVars
  BY <1>10 DEF IdleInv, idleVars
<1>11. QED
  BY <1>1, <1>2, <1>3, <1>4, <1>5, <1>6, <1>7, <1>8, <1>9, <1>10 DEF IdleNext

LEMMA IdleKept ==
  ASSUME IdleInv, [IdleNext]_idleVars
  PROVE  IdleInv'
  BY IdleTypes, ClaimsStep DEF IdleInv

LEMMA IdleOrder == IdleSpec => []IdleInv
<1>1. IdleInv /\ [IdleNext]_idleVars => IdleInv'
  BY IdleKept
<1>2. QED
  BY IdleStart, <1>1, PTL DEF IdleSpec

\* A claimed topic has a session that may complete it or was left by a crash or a failing
\* reset, and no dream runs beside a session.
THEOREM ClaimsAreHeld == IdleSpec => []ClaimsHaveSession
<1>1. IdleInv => ClaimsHaveSession
  BY DEF IdleInv
<1>2. QED
  BY IdleOrder, <1>1, PTL

-----------------------------------------------------------------------------
(* The memory graph. *)

\* As long as nobody wrote under the other's eyes, every known subject has a node that is
\* not about to be dropped, what consolidation has found is there as it was read, in
\* clusters apart from one another, and the node that it keeps is there and says what the
\* sources say.
Standing ==
  /\ \A f \in known : \E m \in graph \ dropping : about[m] = f
  /\ \A C \in clusters : C \subseteq graph /\ \A m, n \in C : about[m] = about[n]
  /\ \A C, D \in clusters : C = D \/ C \cap D = {}
  /\ \A C \in clusters : C \cap merging.sources = {}
  /\ merging # NoMerge =>
       \E best \in graph : /\ merging.target = {best} /\ best \notin merging.sources
                           /\ \A m \in merging.sources : about[m] = about[best]

\* Without an agent nothing is about to be dropped.
AgentIdle == agent = "none" => dropping = {}

GraphInv == GraphTypeOK /\ AgentIdle /\ (overlapped \/ Standing)

LEMMA GraphStart == GraphInit => GraphInv
<1>. SUFFICES ASSUME GraphInit
              PROVE  GraphInv
  OBVIOUS
<1>. USE DEF GraphInit
<1>1. GraphTypeOK
  BY DEF GraphTypeOK, NoMerge
<1>2. AgentIdle
  BY DEF AgentIdle
<1>3. Standing
  BY DEF Standing
<1>4. QED
  BY <1>1, <1>2, <1>3 DEF GraphInv

LEMMA RewrittenTypes ==
  ASSUME GraphTypeOK, NEW S, NEW f \in Subjects
  PROVE  /\ Rewritten(S, f) \in [Memories -> Subjects]
         /\ \A m \in Memories : Rewritten(S, f)[m] = IF m \in S THEN f ELSE about[m]
  BY DEF GraphTypeOK, Rewritten

\* The actions of consolidation and the agent, in the order of Next.
LEMMA GraphTypes ==
  ASSUME GraphTypeOK, [GraphNext]_graphVars
  PROVE  GraphTypeOK'
<1>. USE DEF consolidationVars, agentVars
<1>1. CASE MergeFails \/ AgentStarts \/ AgentDone
  BY <1>1 DEF GraphTypeOK, MergeFails, AgentStarts, AgentDone, NoMerge
<1>2. CASE ReadRecent
  BY <1>2 DEF GraphTypeOK, ReadRecent, Clusterings
<1>3. CASE DeleteSources
  <2>1. overlapped' \in BOOLEAN
    BY <1>3 DEF DeleteSources
  <2>2. QED
    BY <1>3, <2>1 DEF GraphTypeOK, DeleteSources, NoMerge
<1>4. CASE DropMerged
  <2>1. overlapped' \in BOOLEAN
    BY <1>4 DEF DropMerged, Writes
  <2>2. QED
    BY <1>4, <2>1 DEF GraphTypeOK, DropMerged
<1>5. ASSUME NEW m \in Memories, ExtractNew(m) \/ StoreMemory(m)
      PROVE  GraphTypeOK'
  BY <1>5 DEF GraphTypeOK, ExtractNew, StoreMemory, Extractable
<1>6. ASSUME NEW m \in Memories, DeleteMemory(m)
      PROVE  GraphTypeOK'
  <2>1. overlapped' \in BOOLEAN
    BY <1>6 DEF DeleteMemory, Writes
  <2>2. /\ graph' \subseteq graph /\ known' \subseteq known
        /\ UNCHANGED <<about, everStored, extracting, clusters, merging, agent, dropping>>
    BY <1>6 DEF DeleteMemory
  <2>3. QED
    BY <2>1, <2>2 DEF GraphTypeOK
<1>7. ASSUME NEW m \in Memories, NEW f \in Subjects, UpdateMemory(m, f)
      PROVE  GraphTypeOK'
  <2>1. overlapped' \in BOOLEAN /\ about' \in [Memories -> Subjects]
    BY <1>7, RewrittenTypes DEF UpdateMemory, Writes
  <2>2. known' \subseteq Subjects
    BY <1>7 DEF GraphTypeOK, UpdateMemory
  <2>3. UNCHANGED <<graph, everStored, extracting, clusters, merging, agent, dropping>>
    BY <1>7 DEF UpdateMemory
  <2>4. QED
    BY <2>1, <2>2, <2>3 DEF GraphTypeOK
<1>8. ASSUME NEW kept \in SUBSET graph, NEW drop \in graph, NEW f \in Subjects,
             KeepMerged(kept, drop, f)
      PROVE  GraphTypeOK'
  <2>1. overlapped' \in BOOLEAN /\ about' \in [Memories -> Subjects]
    BY <1>8, RewrittenTypes DEF KeepMerged, Writes
  <2>2. known' \subseteq Subjects /\ dropping' \subseteq everStored
    BY <1>8 DEF GraphTypeOK, KeepMerged
  <2>3. UNCHANGED <<graph, everStored, extracting, clusters, merging, agent>>
    BY <1>8 DEF KeepMerged
  <2>4. QED
    BY <2>1, <2>2, <2>3 DEF GraphTypeOK
<1>9. ASSUME NEW C \in clusters, MergeCluster(C) \/ PassOver(C)
      PROVE  GraphTypeOK'
  BY <1>9 DEF GraphTypeOK, MergeCluster, PassOver
<1>10. CASE UNCHANGED graphVars
  BY <1>10 DEF GraphTypeOK, graphVars
<1>11. QED
  BY <1>1, <1>2, <1>3, <1>4, <1>5, <1>6, <1>7, <1>8, <1>9, <1>10 DEF GraphNext

\* A node is dropped by an agent at work.
LEMMA AgentStep ==
  ASSUME GraphInv, [GraphNext]_graphVars
  PROVE  AgentIdle'
<1>1. AgentIdle
  BY DEF GraphInv
<1>. USE <1>1 DEF consolidationVars, agentVars, AgentIdle
<1>2. CASE ReadRecent \/ MergeFails \/ AgentStarts \/ AgentDone \/ DeleteSources \/ DropMerged
  BY <1>2 DEF ReadRecent, MergeFails, AgentStarts, AgentDone, DeleteSources, DropMerged
<1>3. ASSUME NEW m \in Memories, ExtractNew(m) \/ StoreMemory(m) \/ DeleteMemory(m)
      PROVE  AgentIdle'
  BY <1>3 DEF ExtractNew, StoreMemory, DeleteMemory
<1>4. ASSUME NEW m \in Memories, NEW f \in Subjects, UpdateMemory(m, f)
      PROVE  AgentIdle'
  BY <1>4 DEF UpdateMemory
<1>5. ASSUME NEW kept \in SUBSET graph, NEW drop \in graph, NEW f \in Subjects,
             KeepMerged(kept, drop, f)
      PROVE  AgentIdle'
  BY <1>5 DEF KeepMerged
<1>6. ASSUME NEW C \in clusters, MergeCluster(C) \/ PassOver(C)
      PROVE  AgentIdle'
  BY <1>6 DEF MergeCluster, PassOver
<1>7. CASE UNCHANGED graphVars
  BY <1>7 DEF graphVars
<1>8. QED
  BY <1>2, <1>3, <1>4, <1>5, <1>6, <1>7 DEF GraphNext

\* An overlap is never forgotten.
LEMMA OverlapStays ==
  ASSUME [GraphNext]_graphVars, ~overlapped'
  PROVE  ~overlapped
<1>. USE DEF Writes
<1>1. CASE ReadRecent \/ MergeFails \/ AgentStarts \/ AgentDone \/ DeleteSources \/ DropMerged
  BY <1>1 DEF ReadRecent, MergeFails, AgentStarts, AgentDone, DeleteSources, DropMerged
<1>2. ASSUME NEW m \in Memories, ExtractNew(m) \/ StoreMemory(m) \/ DeleteMemory(m)
      PROVE  ~overlapped
  BY <1>2 DEF ExtractNew, StoreMemory, DeleteMemory
<1>3. ASSUME NEW m \in Memories, NEW f \in Subjects, UpdateMemory(m, f)
      PROVE  ~overlapped
  BY <1>3 DEF UpdateMemory
<1>4. ASSUME NEW kept \in SUBSET graph, NEW drop \in graph, NEW f \in Subjects,
             KeepMerged(kept, drop, f)
      PROVE  ~overlapped
  BY <1>4 DEF KeepMerged
<1>5. ASSUME NEW C \in clusters, MergeCluster(C) \/ PassOver(C)
      PROVE  ~overlapped
  BY <1>5 DEF MergeCluster, PassOver
<1>6. CASE UNCHANGED graphVars
  BY <1>6 DEF graphVars
<1>7. QED
  BY <1>1, <1>2, <1>3, <1>4, <1>5, <1>6 DEF GraphNext

\* A known subject that not only nodes of S are about has a node outside S.
LEMMA Elsewhere ==
  ASSUME Standing, dropping = {}, NEW S, NEW f \in known \ OnlyIn(S)
  PROVE  \E m \in graph \ S : about[m] = f
<1>1. PICK m \in graph : about[m] = f
  BY DEF Standing
<1>2. CASE m \in S
  BY <1>1, <1>2 DEF OnlyIn
<1>3. CASE m \notin S
  BY <1>1, <1>3
<1>4. QED
  BY <1>2, <1>3

\* Nobody wrote under the other's eyes: either way, the one who writes is alone.
LEMMA StandingStep ==
  ASSUME GraphInv, [GraphNext]_graphVars, ~overlapped'
  PROVE  Standing'
<1>1. GraphTypeOK /\ AgentIdle /\ Standing
  BY OverlapStays DEF GraphInv
<1>. USE DEF consolidationVars, agentVars
<1>2. CASE ReadRecent
  <2>1. merging = NoMerge /\ clusters' \in Clusterings
    BY <1>2 DEF ReadRecent, Consolidating
  <2>2. UNCHANGED <<graph, about, merging, known, dropping>>
    BY <1>2 DEF ReadRecent
  <2>3. merging.sources = {}
    BY <2>1 DEF NoMerge
  <2>4. /\ \A C \in clusters' : C \subseteq graph /\ \A m, n \in C : about[m] = about[n]
        /\ \A C, D \in clusters' : C = D \/ C \cap D = {}
    BY <2>1 DEF Clusterings
  <2>5. QED
    BY <1>1, <2>1, <2>2, <2>3, <2>4 DEF Standing
<1>3. CASE MergeFails
  BY <1>1, <1>3 DEF MergeFails, Standing, NoMerge
<1>4. CASE AgentStarts \/ AgentDone
  BY <1>1, <1>4 DEF AgentStarts, AgentDone, Standing
<1>5. CASE DeleteSources
  <2>1. agent = "none"
    BY <1>1, <1>5 DEF DeleteSources, GraphTypeOK
  <2>2. dropping = {} /\ dropping' = {}
    BY <1>1, <1>5, <2>1 DEF AgentIdle, DeleteSources
  <2>3. PICK best \in graph : /\ merging.target = {best} /\ best \notin merging.sources
                              /\ \A m \in merging.sources : about[m] = about[best]
    BY <1>1, <1>5 DEF Standing, DeleteSources
  <2>4. /\ graph' = graph \ merging.sources /\ merging' = NoMerge
        /\ UNCHANGED <<clusters, about, known>>
    BY <1>5 DEF DeleteSources
  <2>5. ASSUME NEW f \in known
        PROVE  \E m \in graph' : about[m] = f
    <3>1. PICK m \in graph : about[m] = f
      BY <1>1 DEF Standing
    <3>2. CASE m \in merging.sources
      BY <2>3, <2>4, <3>1, <3>2
    <3>3. CASE m \notin merging.sources
      BY <2>4, <3>1, <3>3
    <3>4. QED
      BY <3>2, <3>3
  <2>6. \A C \in clusters : C \subseteq graph'
    BY <1>1, <2>4 DEF Standing
  <2>7. merging'.sources = {}
    BY <2>4 DEF NoMerge
  <2>8. QED
    BY <1>1, <2>2, <2>4, <2>5, <2>6, <2>7 DEF Standing
<1>6. CASE DropMerged
  <2>1. clusters = {} /\ merging = NoMerge
    BY <1>6 DEF DropMerged, Writes, Consolidating
  <2>2. /\ graph \ dropping \subseteq graph' /\ graph' \subseteq graph /\ dropping' = {}
        /\ UNCHANGED <<clusters, merging, about, known>>
    BY <1>6 DEF DropMerged
  <2>3. \A f \in known : \E m \in graph' \ dropping' : about[m] = f
    BY <1>1, <2>2 DEF Standing
  <2>4. QED
    BY <2>1, <2>2, <2>3 DEF Standing
<1>7. ASSUME NEW m \in Memories, ExtractNew(m)
      PROVE  Standing'
  BY <1>1, <1>7 DEF ExtractNew, Standing
<1>8. ASSUME NEW m \in Memories, StoreMemory(m)
      PROVE  Standing'
  <2>1. /\ graph' = graph \cup {m} /\ known' = known \cup {about[m]} /\ m \notin graph
        /\ UNCHANGED <<clusters, merging, about, dropping>>
    BY <1>1, <1>8 DEF StoreMemory, GraphTypeOK
  <2>2. m \notin dropping
    BY <1>1, <1>8 DEF StoreMemory, GraphTypeOK
  <2>3. \A f \in known' : \E n \in graph' \ dropping' : about[n] = f
    BY <1>1, <2>1, <2>2 DEF Standing
  <2>4. QED
    BY <1>1, <2>1, <2>3 DEF Standing
<1>9. ASSUME NEW m \in Memories, DeleteMemory(m)
      PROVE  Standing'
  <2>1. clusters = {} /\ merging = NoMerge
    BY <1>9 DEF DeleteMemory, Writes, Consolidating
  <2>2. /\ graph' = graph \ {m} /\ dropping = {} /\ known' = known \ OnlyIn({m})
        /\ UNCHANGED <<clusters, merging, about, dropping>>
    BY <1>9 DEF DeleteMemory
  <2>3. \A f \in known' : \E n \in graph' \ dropping' : about[n] = f
    BY <1>1, <2>2, Elsewhere
  <2>4. QED
    BY <2>1, <2>2, <2>3 DEF Standing
<1>10. ASSUME NEW m \in Memories, NEW f \in Subjects, UpdateMemory(m, f)
       PROVE  Standing'
  <2>1. clusters = {} /\ merging = NoMerge
    BY <1>10 DEF UpdateMemory, Writes, Consolidating
  <2>2. /\ m \in graph /\ dropping = {} /\ known' = (known \ OnlyIn({m})) \cup {f}
        /\ about' = Rewritten({m}, f) /\ UNCHANGED <<clusters, merging, graph, dropping>>
    BY <1>10 DEF UpdateMemory
  <2>3. graph \subseteq Memories
    BY <1>1 DEF GraphTypeOK
  <2>4. \A n \in graph : about'[n] = IF n = m THEN f ELSE about[n]
    BY <1>1, <2>2, <2>3, RewrittenTypes
  <2>5. \A g \in known' : \E n \in graph' \ dropping' : about'[n] = g
    <3>1. ASSUME NEW g \in known \ OnlyIn({m})
          PROVE  \E n \in graph : about'[n] = g
      BY <1>1, <2>2, <2>4, Elsewhere
    <3>2. \E n \in graph : about'[n] = f
      BY <2>2, <2>4
    <3>3. QED
      BY <2>2, <3>1, <3>2
  <2>6. QED
    BY <2>1, <2>2, <2>5 DEF Standing
<1>11. ASSUME NEW kept \in SUBSET graph, NEW drop \in graph, NEW f \in Subjects,
              KeepMerged(kept, drop, f)
       PROVE  Standing'
  <2>1. clusters = {} /\ merging = NoMerge
    BY <1>11 DEF KeepMerged, Writes, Consolidating
  <2>2. /\ dropping = {} /\ dropping' = {drop} /\ about' = Rewritten(kept, f)
        /\ known' = (known \ OnlyIn(kept \cup {drop})) \cup {f : m \in kept \ {drop}}
        /\ UNCHANGED <<clusters, merging, graph>>
    BY <1>11 DEF KeepMerged
  <2>3. graph \subseteq Memories
    BY <1>1 DEF GraphTypeOK
  <2>4. \A n \in graph : about'[n] = IF n \in kept THEN f ELSE about[n]
    BY <1>1, <2>2, <2>3, RewrittenTypes
  <2>5. ASSUME NEW g \in known \ OnlyIn(kept \cup {drop})
        PROVE  \E n \in graph \ {drop} : about'[n] = g
    BY <1>1, <2>2, <2>4, Elsewhere
  <2>6. ASSUME NEW m \in kept \ {drop}
        PROVE  \E n \in graph \ {drop} : about'[n] = f
    BY <2>4
  <2>7. \A g \in known' : \E n \in graph' \ dropping' : about'[n] = g
    BY <2>2, <2>5, <2>6
  <2>8. QED
    BY <2>1, <2>2, <2>7 DEF Standing
<1>12. ASSUME NEW C \in clusters, MergeCluster(C)
       PROVE  Standing'
  <2>1. PICK best \in C :
            merging' = [target  |-> {best},
                        sources |-> {m \in C \ {best} : TypeOf[m] = TypeOf[best]}]
    BY <1>12 DEF MergeCluster
  <2>2. clusters' = clusters \ {C} /\ UNCHANGED <<graph, about, known, dropping>>
    BY <1>12 DEF MergeCluster
  <2>3. best \in graph /\ merging'.target = {best} /\ best \notin merging'.sources
    BY <1>1, <2>1 DEF Standing
  <2>4. \A m \in merging'.sources : m \in C /\ about[m] = about[best]
    BY <1>1, <2>1 DEF Standing
  <2>5. \A D \in clusters' : D \cap merging'.sources = {}
    BY <1>1, <2>2, <2>4 DEF Standing
  <2>6. QED
    BY <1>1, <2>2, <2>3, <2>4, <2>5 DEF Standing
<1>13. ASSUME NEW C \in clusters, PassOver(C)
       PROVE  Standing'
  BY <1>1, <1>13 DEF PassOver, Standing
<1>14. CASE UNCHANGED graphVars
  BY <1>1, <1>14 DEF graphVars, Standing
<1>15. QED
  BY <1>2, <1>3, <1>4, <1>5, <1>6, <1>7, <1>8, <1>9, <1>10, <1>11, <1>12, <1>13, <1>14
     DEF GraphNext

LEMMA GraphKept ==
  ASSUME GraphInv, [GraphNext]_graphVars
  PROVE  GraphInv'
  BY GraphTypes, AgentStep, StandingStep DEF GraphInv

LEMMA GraphLoses == GraphInv => LossNeedsOverlap
  BY DEF GraphInv, Standing, LossNeedsOverlap, KnowledgeKept

\* A subject that no tool removed is lost only if an agent and consolidation were at work
\* at the same time and one of them wrote.
THEOREM LossesNeedOverlap == GraphSpec => []LossNeedsOverlap
<1>1. GraphInv /\ [GraphNext]_graphVars => GraphInv'
  BY GraphKept
<1>2. GraphInv => LossNeedsOverlap
  BY GraphLoses
<1>3. QED
  BY GraphStart, <1>1, <1>2, PTL DEF GraphSpec

=============================================================================
