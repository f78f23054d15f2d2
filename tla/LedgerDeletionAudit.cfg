\* Deleting a debt, one request at a time.
SPECIFICATION Spec
CONSTANTS
    Debts = {d1}
    Payments = {}
    Requests = {r1}
    Ops <- DebtOps
    PaymentInputs <- WholePayments
    DebtInputs <- WholeDebts
    Limits = {2}
    OpeningBalances = {2}
    MaxNow = 0
    MaxEdits = 2
    MaxCrashes = 0
    Cent = 1
    RateNum = 1
    RateDen = 2
SYMMETRY Shuffle
INVARIANTS
    DeletionsAudited
