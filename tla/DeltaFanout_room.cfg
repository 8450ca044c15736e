\* Two sessions, two placements, a cap of one delta per window.
SPECIFICATION Spec
CONSTANTS
    Sessions = {s1, s2}
    MaxSeq = 2
    MaxAttempts = 1
    OutboundCap = 1
    SlowApply = FALSE
    TelemetryFails = FALSE
SYMMETRY Symmetric
INVARIANTS
    TypeOK
    AppliedInOrder
    BacklogBounded
    GoneIsForgotten
\* All placements are published, all sessions gone, all timers spent.
CHECK_DEADLOCK FALSE
