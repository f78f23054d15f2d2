\* One request at a time, every operation, crashes between its steps.
SPECIFICATION Spec
CONSTANTS
    Debts = {d1}
    Payments = {p1, p2}
    Requests = {r1}
    Ops <- AllOps
    PaymentInputs <- CentPayments
    DebtInputs <- CentDebts
    Limits = {0, 2}
    OpeningBalances = {4}
    MaxNow = 1
    MaxEdits = 2
    MaxCrashes = 1
    Cent = 2
    RateNum = 1
    RateDen = 2
SYMMETRY Shuffle
INVARIANTS
    TypeOK
    BooksClose
PROPERTIES
    SnapshotIsCurrent
    KeepsTheBook
