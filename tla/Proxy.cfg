SPECIFICATION Spec
CONSTANTS
    Requests = {q1, q2}
    Instances = {i1, i2}
    MaxConnections = 2
    MaxAgain = 1
    MaxLost = 1
INVARIANTS ConnectionsOwned CrossesClean HealthIsReal
SYMMETRY Alike
CHECK_DEADLOCK FALSE
