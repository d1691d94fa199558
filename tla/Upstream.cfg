CONSTANTS
    FailureThreshold = 2
    RecoveryTimeout = 1
    Requests = {r1, r2, r3}
    Idempotent = {r1}
    Instances = 2
    MaxAttempts = 2
SPECIFICATION FairSpec
INVARIANTS PostAtMostOnce RepeatsBounded OpenMeansUntouched
PROPERTY EveryRequestEnds
CHECK_DEADLOCK FALSE
