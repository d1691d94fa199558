CONSTANTS
    MAX_ROUNDS = 2
    Questions = {q1}
    MaxAnswers = 3
    RunIds = {i1}
    Handlers = {h1}
SPECIFICATION Spec
INVARIANT GeneratingMeansInFlight
CHECK_DEADLOCK FALSE
