SPECIFICATION SseSpec
CONSTANTS
    Sessions = {s1, s2}
    Ttl = 3
    Idle = 2
    MaxTime = 5
INVARIANTS
    EvictedOnce
    ActiveWithinLife
PROPERTIES
    NoRefreshAfterGap
CHECK_DEADLOCK FALSE
