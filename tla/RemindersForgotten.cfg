\* A debt that is due on the last day of its month; nothing fails.
SPECIFICATION Spec
CONSTANTS
    DayLength = 3
    Lookback = 3
    CronHour = 0
    FirstDay <- Calendar
    DebtForms <- LastDayCard
    SettingForms <- SameDay
    Runs = {r1}
    MaxEdits = 0
    MaxFaults = 0
    MaxOverlaps = 0
INVARIANTS
    NothingForgotten
CHECK_DEADLOCK FALSE
