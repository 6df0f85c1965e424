---------------------------- MODULE MCMemoryGraph ----------------------------
(* Three memories, one of which has another label than the rest. *)
EXTENDS MemoryGraph

MCTypeOf == [m \in Memories |-> IF m = "n3" THEN "EpisodicMemory" ELSE "KnowledgeUnit"]
=============================================================================
