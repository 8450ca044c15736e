\* Two calls per window of three, a sweep as early as it may be, time for three windows.
SPECIFICATION Spec
CONSTANTS
    Window = 3
    MaxInWindow = 2
    Ttl = 2
    MaxClock = 9
    MaxCalls = 8
CHECK_DEADLOCK FALSE
INVARIANTS
    SlidingWindowHolds
    RetryAfterIsExact
    FixedWindowHolds
