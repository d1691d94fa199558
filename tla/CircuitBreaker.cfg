CONSTANTS
    FailureThreshold = 2
    RecoveryTimeout = 2
    Callers = {c1, c2, c3, c4}
SPECIFICATION FairSpec
INVARIANTS SlotHasHolder SingleProbe
PROPERTIES QuarantineServed AdmitsAgain
