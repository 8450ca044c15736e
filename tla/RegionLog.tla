------------------------------ MODULE RegionLog ------------------------------
(****************************************************************************)
(* What the tile store promises to everything that reads a region: one      *)
(* append-only log of numbered changes.  Change n is the n-th to be         *)
(* committed, the region's current version is the number of the last one,   *)
(* and the tiles on the grid are what the log adds up to.  Region diff,     *)
(* reconnect replay and the realtime fanout are all written against this    *)
(* promise: they ask for "everything after version n".                      *)
(****************************************************************************)
EXTENDS Naturals, Sequences

CONSTANTS
    Actors,     \* players
    Cells,      \* coordinates of the region's grid
    Looks,      \* what a tile looks like (shape, colour, style)
    Empty       \* what an empty cell holds

VARIABLES
    log,        \* sequence of committed changes
    head,       \* the region's current version
    grid        \* what each cell holds: an owner and a look, or Empty

logVars == <<log, head, grid>>

Change == [version : Nat, cell : Cells, op : {"upsert", "delete"},
           owner : Actors \cup {"none"}, look : Looks \cup {"none"}]

Held == [owner : Actors, look : Looks]

\* A region that one placement has founded.
Init ==
    \E c \in Cells, a \in Actors, l \in Looks :
        /\ log = << [version |-> 1, cell |-> c, op |-> "upsert",
                     owner |-> a, look |-> l] >>
        /\ head = 1
        /\ grid = [x \in Cells |-> IF x = c THEN [owner |-> a, look |-> l]
                                            ELSE Empty]

Upsert(c, a, l) ==
    /\ grid[c] # Empty => grid[c].owner = a
    /\ head' = head + 1
    /\ log' = Append(log, [version |-> head + 1, cell |-> c, op |-> "upsert",
                           owner |-> a, look |-> l])
    /\ grid' = [grid EXCEPT ![c] = [owner |-> a, look |-> l]]

Erase(c) ==
    /\ grid[c] # Empty
    /\ head' = head + 1
    /\ log' = Append(log, [version |-> head + 1, cell |-> c, op |-> "delete",
                           owner |-> "none", look |-> "none"])
    /\ grid' = [grid EXCEPT ![c] = Empty]

Next == \E c \in Cells : Erase(c) \/ \E a \in Actors, l \in Looks : Upsert(c, a, l)

Spec == Init /\ [][Next]_logVars
=============================================================================
