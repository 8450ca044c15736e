\* Two concurrent calls of every kind in a founded region, in one cell and in two.
SPECIFICATION FoundedSpec
CONSTANTS
    Requests = {r1, r2}
    Actors = {a, b}
    Cells = {c, d}
    Commands = {k}
    Looks = {x, y}
    a = a  b = b  c = c  d = d  k = k  x = x  y = y
    Jobs <- GridJobs
    ReplayWindow = 1
    EditWindow = 1
    ServerLag = 1
    MaxClock = 2
INVARIANTS
    TypeOK
    LocksHold
    NoDeadlock
    VersionsDense
    CellsAddUp
PROPERTIES
    ImplementsRegionLog
    EveryCallEnds
