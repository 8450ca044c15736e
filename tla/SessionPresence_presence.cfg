\* Two players, tokens and connections, one room, heartbeats that name the room key, the sweep, a crash.
SPECIFICATION Spec
CONSTANTS
    p1 = p1  p2 = p2  t1 = t1  t2 = t2  c1 = c1  c2 = c2  r1 = r1  arena = arena  s1 = s1  s2 = s2
    Players = {p1, p2}
    Tokens = {t1, t2}
    Connections = {c1, c2}
    Instances = {r1}
    Claims = {arena}
    Sweeps = {s1}
    Second = 2
    TokenTtl = 1
    HeartbeatTtl = 1
    Nobody = Nobody
    MaxClock = 3
    MaxCrashes = 1
CHECK_DEADLOCK FALSE
INVARIANTS
    TokenAdmitsOnce
    AliveIsMember
PROPERTIES
    SilentIsForgotten
