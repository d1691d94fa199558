CONSTANTS
    Accounts = {a1}
    Handlers = {h1, h2}
    Runs = {r1}
    Costs = {3}
    FreeTokens = 2
    PaidTokens = 3
    PackTokens = 2
    Reserve = 1
    Week = 2
    Month = 2
    MaxTime = 2
    MaxPurchases = 2
    MaxLost = 1
SPECIFICATION Spec
INVARIANTS OverspendNotForgiven AWeekAtATime PeriodGranted SubscriberGranted
CHECK_DEADLOCK FALSE
SYMMETRY Interchangeable
