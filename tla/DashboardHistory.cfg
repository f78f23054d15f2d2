\* More snapshots than the query of the dashboard takes.
SPECIFICATION Spec
CONSTANTS
    Debts = {d1}
    NoDebt = NoDebt
    Index <- MCIndex
    Holdings <- MCHoldings
    HistoryTaken = 12
    MaxSnapshots = 13
PROPERTIES
    HistoryReachesNow
CHECK_DEADLOCK FALSE
