\* Two connections of one player, a reconnect, a sweep and a crash.
SPECIFICATION Spec
CONSTANTS
    p1 = p1  p2 = p2  c1 = c1  c2 = c2
    Players = {p1, p2}
    Connections = {c1, c2}
    Owner <- OnePlayer
    Requests = {r1}
    Sweeps = {s1}
    Sessions = {k1, k2}
    Nobody = Nobody
    Grace = 1
    TokenTtl = 2
    SweepsRoom = TRUE
    MaxClock = 3
    MaxVersion = 0
    MaxTokens = 1
    MaxCrashes = 1
CHECK_DEADLOCK FALSE
INVARIANTS
    OneLiveSession
PROPERTIES
    ArchivedIsFinal
    OverdueEnds
