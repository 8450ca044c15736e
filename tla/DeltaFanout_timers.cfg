\* Two sessions and one placement, with callbacks that wait: the timers.
SPECIFICATION Spec
CONSTANTS
    Sessions = {s1, s2}
    MaxSeq = 1
    MaxAttempts = 1
    OutboundCap = 1
    SlowApply = TRUE
    TelemetryFails = TRUE
INVARIANTS
    AckIsHonest
PROPERTIES
    EntriesEnd
\* All placements are published, all sessions gone, all timers spent.
CHECK_DEADLOCK FALSE
