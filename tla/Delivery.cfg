SPECIFICATION DeliverySpec
CONSTANTS
    MaxTail = 2
    MaxLines = 2
    MaxChunk = 4
    Lengths = {2, 3}
    TTL = 1
    MaxRuns = 2
    Ids = {r1, r2, r3}
    Project = r1
    Console = FALSE
    Instances = {i1, i2}
INVARIANTS KeptWhileDue ReadsAlong
PROPERTY AnswersAreTrue
CHECK_DEADLOCK FALSE
SYMMETRY Alike
