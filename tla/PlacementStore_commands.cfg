\* One command sent three times, also after its answer has expired.
SPECIFICATION EmptySpec
CONSTANTS
    Requests = {r1, r2, r3}
    Actors = {a}
    Cells = {c, d}
    Commands = {k}
    Looks = {x, y}
    a = a  b = b  c = c  d = d  k = k  x = x  y = y
    Jobs <- RetryJobs
    ReplayWindow = 1
    EditWindow = 1
    ServerLag = 0
    MaxClock = 2
SYMMETRY Symmetric
INVARIANTS
    CommandExecutedOnce
    ReplaysTellTheTruth
    MismatchMeansReuse
