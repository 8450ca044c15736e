------------------------ MODULE MCSessionCheckpoint ------------------------
(* Small instances of SessionCheckpoint for TLC. *)
EXTENDS SessionCheckpoint, TLC

CONSTANTS p1, p2, c1, c2

JustOne == c1 :> p1
OnePlayer == (c1 :> p1) @@ (c2 :> p1)

Symmetry == Permutations(Requests) \cup Permutations(Sessions)
=============================================================================
