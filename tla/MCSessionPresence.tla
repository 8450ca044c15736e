------------------------- MODULE MCSessionPresence -------------------------
(* Small instances of SessionPresence for TLC. *)
EXTENDS SessionPresence, TLC

CONSTANTS p1, p2, t1, t2, c1, c2, r1, arena, s1, s2
=============================================================================
