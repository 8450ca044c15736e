-------------------------- MODULE MCPlacementStore --------------------------
(* Small instances of PlacementStore for TLC. *)
EXTENDS PlacementStore, TLC

CONSTANTS a, b, c, d, k, x, y

Place(who, where, look) ==
    [kind |-> "place", actor |-> who, cmd |-> k, cell |-> where, look |-> look]
Edit(who, where, look) ==
    [kind |-> "edit", actor |-> who, cmd |-> k, cell |-> where, look |-> look]
Delete(who, where, look) ==
    [kind |-> "delete", actor |-> who, cmd |-> k, cell |-> where, look |-> look]

\* Two players place, in one cell and in two; one of them also edits and deletes.
GridJobs == { Place(a, c, x), Place(b, c, x), Place(b, d, x), Edit(a, c, y),
              Delete(a, c, x) }

\* One command sent again, its identity used for another cell, and a deletion that
\* makes room for it to be executed again.
RetryJobs == { Place(a, c, x), Place(a, d, x), Delete(a, c, x) }

\* Two players place their first tiles at once; a third request follows.
FirstJobs == { Place(a, c, x), Place(b, d, x), Edit(a, c, y) }

Symmetric == Permutations(Requests)
=============================================================================
