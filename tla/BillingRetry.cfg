\* One order whose returns overlap, crash, fail and go stale.
SPECIFICATION FairSpec
CONSTANTS
    Orders = {o1}
    Handlers = {h1, h2}
    Plans <- OnePlan
    PayAgain = TRUE
    Overlap = "always"
    SlowHandlers = TRUE
    MaxReturns = 3
    MaxCrashes = 1
    MaxFaults = 1
INVARIANTS
    ProcessedMeansActivated
PROPERTIES
    ConfirmedUntilContradicted
    ConfirmedInTheEnd
CHECK_DEADLOCK FALSE
