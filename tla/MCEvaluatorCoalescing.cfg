SPECIFICATION Spec
CONSTANTS
    write = write
    shell = shell
    reset = reset
    publish = publish
    exempt = exempt
    Requests = {r1, r2, r3}
    Keys = {write, shell, reset, publish, exempt}
    Tier1 <- MCTier1
    NoJudge = {reset, publish, exempt}
    Ttl = 1
    CleanupInterval = 2
    MaxTime = 2
INVARIANTS
    OneJudgmentPerKey
    CacheHoldsJudgments
    AnswersGrounded
PROPERTIES
    CancellationContained
    ExpiredAreSwept
    RequestsEnd
CHECK_DEADLOCK FALSE
