------------------------- MODULE MCRegionSnapshots -------------------------
(* Small instances of RegionSnapshots for TLC. *)
EXTENDS RegionSnapshots

CONSTANT x

\* The looks are alike, so the first tile of the region may be taken to look like x.
FirstTileIsX ==
    \A c \in Cells :
        (grid[c] # Empty /\ \A d \in 1..(c - 1) : grid[d] = Empty) => grid[c] = x

MCInit == Init /\ FirstTileIsX

MCSpec == MCInit /\ [][Next]_vars /\ Fairness
=============================================================================
