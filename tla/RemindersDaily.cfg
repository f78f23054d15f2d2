\* A daily call, calls by hand, a failure, an overlap and a change of mind.
SPECIFICATION Spec
CONSTANTS
    DayLength = 3
    Lookback = 3
    CronHour = 0
    FirstDay <- Calendar
    DebtForms <- Debts
    SettingForms <- Preferences
    Runs = {r1, r2}
    MaxEdits = 1
    MaxFaults = 1
    MaxOverlaps = 1
SYMMETRY Shuffle
INVARIANTS
    TypeOK
    OnceUnlessCut
    SentWasMailed
    ToldByTheDailyCall
PROPERTIES
    LeavesNothingUntold
CHECK_DEADLOCK FALSE
