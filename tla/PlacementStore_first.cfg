\* The first placements of a region, made at once.
SPECIFICATION EmptySpec
CONSTANTS
    Requests = {r1, r2, r3}
    Actors = {a, b}
    Cells = {c, d}
    Commands = {k}
    Looks = {x, y}
    a = a  b = b  c = c  d = d  k = k  x = x  y = y
    Jobs <- FirstJobs
    ReplayWindow = 1
    EditWindow = 1
    ServerLag = 0
    MaxClock = 0
SYMMETRY Symmetric
PROPERTIES
    VersionNeverRegresses
