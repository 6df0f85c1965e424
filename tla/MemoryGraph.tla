---------------------------- MODULE MemoryGraph ----------------------------
(***************************************************************************)
(* Nami's memory graph and the three that write to it at the same time:   *)
(* the extraction that follows a chat turn (fire and forget), the agent   *)
(* of a dream or of memory grooming (one at a time, behind the AI lock)   *)
(* and the periodic consolidation, which takes no lock at all.            *)
(*                                                                         *)
(* Of what a node says only its subject is kept: the texts that a chain   *)
(* of similar texts links are on one subject.  Consolidation clusters by  *)
(* such chains, so a cluster never mixes subjects, while which nodes of a *)
(* subject are close enough to be one cluster depends on scores and is    *)
(* free.  A merged node keeps the text of one node of the cluster alone:  *)
(* what is claimed below is that the subject survives, not every text.    *)
(***************************************************************************)
EXTENDS Naturals, FiniteSets

CONSTANTS
    Memories,       \* identifiers of nodes
    Subjects,       \* what a node may be about
    TypeOf,         \* [Memories -> memory types]: the label of the node
    MinCluster      \* ConsolidationConfig.min_cluster_size

ASSUME GraphAssumption == MinCluster \in Nat \ {0}

VARIABLES
    graph,          \* the nodes in Neo4j
    about,          \* the subject of a node; before it is created, of the
                    \* turn that it will be extracted from
    everStored,     \* the nodes created so far: a uuid is never reused
    extracting,     \* the nodes that passed _is_duplicate, not yet created
    clusters,       \* what consolidation found and did not process yet
    merging,        \* [target, sources] of the cluster it is merging
    agent,          \* "none", "working": a dream or grooming session
    dropping,       \* the node dream_merge_memories is about to delete
    known,          \* history: the subjects stored, less those that the
                    \* tools removed
    overlapped      \* history: the agent wrote to the graph while
                    \* consolidation was at work on what it had read, or
                    \* consolidation deleted while the agent was at work

consolidationVars == <<clusters, merging>>
agentVars == <<agent, dropping>>
graphVars == <<graph, about, everStored, extracting, consolidationVars,
               agentVars, known, overlapped>>

NoMerge == [target |-> {}, sources |-> {}]

Consolidating == clusters # {} \/ merging # NoMerge

GraphTypeOK ==
    /\ graph \subseteq everStored /\ everStored \subseteq Memories
    /\ about \in [Memories -> Subjects]
    /\ extracting \subseteq Memories \ everStored
    /\ clusters \subseteq SUBSET Memories
    /\ merging \in [target : SUBSET Memories, sources : SUBSET Memories]
    /\ agent \in {"none", "working"} /\ dropping \subseteq everStored
    /\ known \subseteq Subjects /\ overlapped \in BOOLEAN

GraphInit ==
    /\ about \in [Memories -> Subjects]
    /\ graph = {} /\ everStored = {} /\ extracting = {}
    /\ clusters = {} /\ merging = NoMerge
    /\ agent = "none" /\ dropping = {}
    /\ known = {} /\ overlapped = FALSE

-----------------------------------------------------------------------------
(* Extraction: process_memories.                                           *)

\* What the extractor may make of a turn: a memory of its own, or, when no attempt
\* gives a list of JSON, nothing.
Extractable == Memories \ (everStored \cup extracting)

\* The turn's memory is new to the index (or the search failed).  Another
\* extraction may be about to store the same fact.
ExtractNew(m) ==
    /\ m \in Extractable
    /\ extracting' = extracting \cup {m}
    /\ UNCHANGED <<graph, about, everStored, consolidationVars, agentVars,
                   known, overlapped>>

StoreMemory(m) ==
    /\ m \in extracting
    /\ extracting' = extracting \ {m}
    /\ graph' = graph \cup {m}
    /\ everStored' = everStored \cup {m}
    /\ known' = known \cup {about[m]}
    /\ UNCHANGED <<about, consolidationVars, agentVars, overlapped>>

-----------------------------------------------------------------------------
(* Consolidation: consolidate_user_memories.                               *)

\* What DBSCAN may make of the recent nodes: disjoint clusters, the rest is noise.
Clusterings ==
    {P \in SUBSET SUBSET graph :
        /\ \A C \in P : /\ Cardinality(C) >= MinCluster
                        /\ \A m, n \in C : about[m] = about[n]
        /\ \A C, D \in P : C = D \/ C \cap D = {}}

ReadRecent ==
    /\ ~Consolidating
    /\ clusters' \in Clusterings
    /\ UNCHANGED <<graph, about, everStored, extracting, merging, agentVars,
                   known, overlapped>>

\* Mutant: the representative is not taken out of the sources.
MergeWhole(C) ==
    /\ merging = NoMerge
    /\ \E best \in C :
          merging' = [target  |-> {best},
                      sources |-> {m \in C : TypeOf[m] = TypeOf[best]}]
    /\ clusters' = clusters \ {C}
    /\ UNCHANGED <<graph, about, everStored, extracting, agentVars, known,
                   overlapped>>

\* _merge_and_promote_cluster keeps the node that scored best when it was read
\* and deletes the others of its label.
MergeCluster(C) ==
    /\ merging = NoMerge
    /\ \E best \in C :
          merging' = [target  |-> {best},
                      sources |-> {m \in C \ {best} : TypeOf[m] = TypeOf[best]}]
    /\ clusters' = clusters \ {C}
    /\ UNCHANGED <<graph, about, everStored, extracting, agentVars, known,
                   overlapped>>

\* A cluster of low value only decays; an error ends its merge or all of them.
PassOver(C) ==
    /\ merging = NoMerge
    /\ clusters' = clusters \ {C}
    /\ UNCHANGED <<graph, about, everStored, extracting, merging, agentVars,
                   known, overlapped>>

\* The update of a target that is gone matches nothing and is no error: the
\* sources are deleted all the same, whatever they say by now.
DeleteSources ==
    /\ merging # NoMerge
    /\ graph' = graph \ merging.sources
    /\ merging' = NoMerge
    /\ overlapped' = (overlapped \/ agent = "working")
    /\ UNCHANGED <<about, everStored, extracting, clusters, agentVars, known>>

MergeFails ==
    /\ merging # NoMerge
    /\ merging' = NoMerge
    /\ UNCHANGED <<graph, about, everStored, extracting, clusters, agentVars,
                   known, overlapped>>

-----------------------------------------------------------------------------
(* The agent of a dream or of grooming, and its tools.  A tool takes any   *)
(* id, and what it removes is taken to be meant.                           *)

AgentStarts ==
    /\ agent = "none" /\ agent' = "working"
    /\ UNCHANGED <<graph, about, everStored, extracting, consolidationVars,
                   dropping, known, overlapped>>

AgentDone ==
    /\ agent = "working" /\ dropping = {}
    /\ agent' = "none"
    /\ UNCHANGED <<graph, about, everStored, extracting, consolidationVars,
                   dropping, known, overlapped>>

\* The subjects of nodes in S that no other node is about.
OnlyIn(S) == {about[m] : m \in S} \ {about[m] : m \in graph \ S}

Rewritten(S, f) == [m \in Memories |-> IF m \in S THEN f ELSE about[m]]

Writes == overlapped' = (overlapped \/ Consolidating)

\* dream_update_memory.
UpdateMemory(m, f) ==
    /\ agent = "working" /\ dropping = {} /\ m \in graph
    /\ about' = Rewritten({m}, f)
    /\ known' = (known \ OnlyIn({m})) \cup {f}
    /\ Writes
    /\ UNCHANGED <<graph, everStored, extracting, consolidationVars, agentVars>>

\* dream_delete_memory.
DeleteMemory(m) ==
    /\ agent = "working" /\ dropping = {} /\ m \in graph
    /\ graph' = graph \ {m}
    /\ known' = known \ OnlyIn({m})
    /\ Writes
    /\ UNCHANGED <<about, everStored, extracting, consolidationVars, agentVars>>

\* dream_merge_memories rewrites the node to keep, if there is one of that id:
\* "No ... found" does not begin with "Error", so it goes on all the same, and
\* it does not ask whether the two ids differ.  (With no node to drop, it is an
\* update.)
KeepMerged(kept, drop, f) ==
    /\ agent = "working" /\ dropping = {}
    /\ kept \subseteq graph /\ Cardinality(kept) <= 1 /\ drop \in graph
    /\ about' = Rewritten(kept, f)
    /\ dropping' = {drop}
    /\ known' = (known \ OnlyIn(kept \cup {drop})) \cup {f : m \in kept \ {drop}}
    /\ Writes
    /\ UNCHANGED <<graph, everStored, extracting, consolidationVars, agent>>

\* Then it deletes the other, unless the query raises.
DropMerged ==
    /\ dropping # {}
    /\ graph' \in {graph, graph \ dropping}
    /\ dropping' = {}
    /\ Writes
    /\ UNCHANGED <<about, everStored, extracting, consolidationVars, agent,
                   known>>

GraphNext ==
    \/ ReadRecent \/ DeleteSources \/ MergeFails
    \/ AgentStarts \/ AgentDone \/ DropMerged
    \/ \E m \in Memories : ExtractNew(m) \/ StoreMemory(m) \/ DeleteMemory(m)
    \/ \E m \in Memories, f \in Subjects : UpdateMemory(m, f)
    \/ \E kept \in SUBSET graph, drop \in graph, f \in Subjects :
          KeepMerged(kept, drop, f)
    \/ \E C \in clusters : MergeCluster(C) \/ PassOver(C)

GraphSpec == GraphInit /\ [][GraphNext]_graphVars

-----------------------------------------------------------------------------
\* A merge keeps the most representative memory of its cluster and merges the
\* others into it: a subject that no tool removed still has a node
\* (_merge_and_promote_cluster).
KnowledgeKept == \A f \in known : \E m \in graph : about[m] = f

\* Such a subject is lost only if the agent wrote to the graph while
\* consolidation was at work on what it had read, or consolidation deleted
\* while the agent was at work; consolidation among extractions, and the agent
\* among extractions, lose none.
LossNeedsOverlap == KnowledgeKept \/ overlapped
=============================================================================
