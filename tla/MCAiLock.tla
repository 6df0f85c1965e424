------------------------------ MODULE MCAiLock ------------------------------
(* Instances of AiLock for TLC. *)
EXTENDS AiLock, TLC

\* Jobs of one kind are interchangeable.
Symmetry == Permutations(Foreground) \cup Permutations(Background)
=============================================================================
