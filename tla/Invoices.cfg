CONSTANTS
    Packs = {p1}
    Plans = {l1}
    Quotes = {q1}
    MaxIssued = 1
    MaxTxs = 2
    Handlers = {h1, h2}
SPECIFICATION FairSpec
INVARIANTS CreditedAsPaid PaidMeansCredited
PROPERTIES PaidIsFinal PaymentIsCredited
CHECK_DEADLOCK FALSE
