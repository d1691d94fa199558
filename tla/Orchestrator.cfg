CONSTANTS
    MAX_ROUNDS = 2
    Questions = {q1}
    MaxAnswers = 4
    RunIds = {i1}
    Handlers = {h1, h2}
SPECIFICATION FairSpec
INVARIANTS Gated ReadersLetGo
           PaidMeansDelivered GeneratingIsTended
PROPERTIES LivesAsPromised GenerationSettles
CHECK_DEADLOCK FALSE
