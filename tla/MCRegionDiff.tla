---------------------------- MODULE MCRegionDiff ----------------------------
(* Small instances of RegionDiff for TLC. *)
EXTENDS RegionDiff

CONSTANTS c, d, e

WholeAndPart == { {c, d, e}, {c, d} }
=============================================================================
