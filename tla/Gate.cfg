SPECIFICATION GateSpec
CONSTANTS
    Addresses = {alice, bob}
    ChallengeTtl = 1
    SessionTtl = 1
    Horizon = 4
    MaxChallenges = 1
    MaxSecrets = 2
    Quotes = {q1}
    Handlers = {h1, h2}
    MaxRuns = 1
INVARIANTS PayerProved SettledIsCredited
SYMMETRY Alike
CHECK_DEADLOCK FALSE
