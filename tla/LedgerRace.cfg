\* Two requests that interleave on one debt.
SPECIFICATION Spec
CONSTANTS
    Debts = {d1}
    Payments = {p1, p2}
    Requests = {r1, r2}
    Ops <- CrudOps
    PaymentInputs <- RacePayments
    DebtInputs <- RaceDebts
    Limits = {2}
    OpeningBalances = {2}
    MaxNow = 0
    MaxEdits = 1
    MaxCrashes = 0
    Cent = 1
    RateNum = 1
    RateDen = 2
SYMMETRY Shuffle
INVARIANTS
    PaidMeansSettled
    AuditTellsTheTruth
