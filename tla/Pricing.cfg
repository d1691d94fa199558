SPECIFICATION PricingSpec
CONSTANTS
    PER_MILLION = 5
    Whole = 4
    Rates = {0, 1, 3, 7}
    Margins = {0, 1, 3}
    Minimums = {0, 2}
    Amounts = {0, 1, 2, 5, 8}
    Bills = {0, 1, 2, 5}
    Counts = {0, 1, 3}
    MaxSales = 3
    MaxRuns = 3
INVARIANTS NeverOversold CostsCovered
CHECK_DEADLOCK FALSE
