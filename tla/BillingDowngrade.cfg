\* A checkout commits the status it read before the membership was activated.
SPECIFICATION Spec
CONSTANTS
    Orders = {o1, o2}
    Handlers = {h1}
    Plans <- OnePlan
    PayAgain = FALSE
    Overlap = "always"
    SlowHandlers = FALSE
    MaxReturns = 4
    MaxCrashes = 0
    MaxFaults = 0
SYMMETRY Shuffle
INVARIANTS
    PaidHasAccess
CHECK_DEADLOCK FALSE
