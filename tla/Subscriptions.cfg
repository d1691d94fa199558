SPECIFICATION Spec
CONSTANTS
    Addresses = {alice, bob}
    PlanIds = {starter, builder}
    Prices = {0, 1}
    Terms = {0, 1, 2}
    Funds = 1
    MaxTime = 2
    MaxPlanSets = 2
    MaxPeriods = 2
INVARIANT AsPaid
PROPERTIES PaidTimeKept Signed AsRelied
CHECK_DEADLOCK FALSE
