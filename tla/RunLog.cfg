SPECIFICATION FairSpec
CONSTANTS
    RunIds = {r1, r2}
    Generations = {g1, g2}
    Followers = {f1}
    MaxLogs = 1
    MaxBytes = 3
    Sizes = {1, 2}
    MaxChunks = 3
INVARIANTS InOrder KeepsNewest
PROPERTIES CaughtUp FollowersLetGo
CHECK_DEADLOCK FALSE
