\* Two snapshots, two restores and a change of a player meet in a region of two cells.
SPECIFICATION MCSpec
CONSTANTS
    x = x
    CellCount = 2
    Looks = {x, y}
    Empty = Empty
    Writers = {w1}
    Creators = {k1, k2}
    Restores = {r1, r2}
    Nobody = Nobody
    TelemetryFails = TRUE
CHECK_DEADLOCK FALSE
INVARIANTS
    TypeOK
    MismatchMeansInterference
PROPERTIES
    RestoreReplaces
    RestoreEnds
