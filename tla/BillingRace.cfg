\* Returns and checkouts that overlap until one of them fails.
SPECIFICATION Spec
CONSTANTS
    Orders = {o1, o2}
    Handlers = {h1, h2}
    Plans <- TwoPlans
    PayAgain = FALSE
    Overlap = "until a failure"
    SlowHandlers = FALSE
    MaxReturns = 4
    MaxCrashes = 1
    MaxFaults = 1
SYMMETRY Shuffle
INVARIANTS
    TypeOK
    ActiveMeansPaid
    ActivatedOnce
CHECK_DEADLOCK FALSE
