---------------------------- MODULE MCDeltaFanout ----------------------------
(* Small instances of DeltaFanout for TLC. *)
EXTENDS DeltaFanout

Symmetric == Permutations(Sessions)
=============================================================================
