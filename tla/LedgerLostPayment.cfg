\* Two payments on one debt at once.
SPECIFICATION Spec
CONSTANTS
    Debts = {d1}
    Payments = {p1, p2}
    Requests = {r1, r2}
    Ops <- PayOps
    PaymentInputs <- WholePayments
    DebtInputs <- WholeDebts
    Limits = {2}
    OpeningBalances = {2}
    MaxNow = 0
    MaxEdits = 2
    MaxCrashes = 0
    Cent = 1
    RateNum = 1
    RateDen = 2
SYMMETRY Shuffle
INVARIANTS
    BooksClose
