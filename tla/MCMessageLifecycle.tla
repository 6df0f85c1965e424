------------------------- MODULE MCMessageLifecycle -------------------------
(* Instances of MessageLifecycle for TLC: messages that share a conversation. *)
EXTENDS MessageLifecycle, TLC

CONSTANTS m1, m2, m3, c1, c2

TwoInOne == m1 :> c1 @@ m2 :> c1

ThreeInOne == TwoInOne @@ m3 :> c1

TwoAndOne == m1 :> c1 @@ m2 :> c1 @@ m3 :> c2

\* In ThreeInOne the messages are interchangeable.
Symmetry == Permutations({m1, m2, m3})
=============================================================================
