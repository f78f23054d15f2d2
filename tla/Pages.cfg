SPECIFICATION PagesSpec
CONSTANTS
  d1 = d1
  d2 = d2
  d3 = d3
  NoDebt = NoDebt
  Index <- MCIndex
  Forms <- MCForms
  RateDen = 100
  MaxPeriods = 20
  Dust = 1
  Accesses <- MCAccesses
  PlannedDebts = {d1, d2}
  Portfolios <- MCPortfolios
  MonthlyBudgets = {0, 60}
  Extra = 20
  Stopped = 5
  BetterRate = 2
  MonthDen = 100
  MaxMonths = 40
  RateWeight = 70
  BalanceWeight = 30
  BoostFloor = 10
  BoostStep = 5
  BoostCap = 120
  ShownDebts = {d1, d2, d3}
  Holdings <- MCHoldings
  HistoryTaken = 12
  MaxSnapshots = 3
  PaidDebts = {d1, d2}
  Recorded <- MCRecorded
  Ranges <- MCRanges
  FirstDay = 68
  LastDay = 71
  MaxPayments = 2
  PaymentsTaken = 40
  Instances = {"i1", "i2"}
  Syncs = {"s1", "s2"}
  NoSync = "none"
  Jobs = {"j1", "j2"}
  Users <- MCUsers
  HistoryLimit <- MCHistoryLimit
  DigestSize = 2
  Days = {1, 6}
  MaxNotices = 3
  MaxCrossings = 1
  MaxCuts = 1
  MaxHops = 3
  \* A limit of ten requests in a minute counts as two in two ticks.
  Scale = 5
  LimitCap = 4
  LimitWindow = 2
  MaxTime = 4
  MaxRestarts = 1
  Devices = {"k1"}
  NoDevice = "none"
  MaxClicks = 3
  MaxSerial = 3
  MaxInFlight = 2
  MaxLost = 1
  FormKinds = {"debt", "payment", "register", "login", "reset", "password", "profile",
               "preferences", "onboarding", "simulator"}
  FieldCap = 6
  MaxChanged = 3
  DeskDebts = {d1, d2}
  NoPayment = 0
  Payments = {1, 2}
  Openings <- MCOpenings
  Asks = {d2}
  Entries <- MCEntries
  Cent = 2
  InterestNum = 1
  InterestDen = 8
  Incomes = {1}
  Balances = {1, 9}
  Budgets = {1, 2}
  MoneyCap = 8
  MaxDebts = 2
  MaxEdits = 7
  MaxPosts = 2
  Debts = {d1, d2, d3}
  Books <- MCBooks
  Limits = {1, 2}
  DebtAmounts <- MCAmounts
  Today = 2
  MaxTyped = 1
  MaxRequests = 2
INVARIANTS
  PagesTyped
  PayingMoreIsAhead
  PlansConserve
  AheadOfMinimum
  RecommendedIsSafe
  SavingsAreReal
  StreakIsHeard
  OneNoticePerOccasion
  DigestMailedOnce
  UrgentNoticeLeads
  RedirectsEnd
  LimitsHold
  SettingsTellTheTruth
  ControlsAreFreed
  VerdictsAgree
PROPERTIES
  UrgentShown
  LatestReportShown
  PreviewsHold
CHECK_DEADLOCK FALSE
