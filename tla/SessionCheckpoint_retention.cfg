\* One player, two reconnects that overlap, a sweep, deltas that age, tokens that expire.
SPECIFICATION Spec
CONSTANTS
    p1 = p1  p2 = p2  c1 = c1  c2 = c2
    Players = {p1}
    Connections = {c1}
    Owner <- JustOne
    Requests = {r1, r2}
    Sweeps = {s1}
    Sessions = {k1}
    Nobody = Nobody
    Grace = 1
    TokenTtl = 1
    SweepsRoom = TRUE
    MaxClock = 2
    MaxVersion = 2
    MaxTokens = 2
    MaxCrashes = 0
SYMMETRY Symmetry
CHECK_DEADLOCK FALSE
INVARIANTS
    TypeOK
    NeededIsKept
    ReplayIsWhole
    TokenUsedOnce
