-------------------------------- MODULE Pages --------------------------------
(* The pages, gates and forms that keep no state in common, each on inputs of *)
(* its own: open says which of them a behaviour is about, and the variables   *)
(* of the others stay closed.                                                 *)
EXTENDS Amortisation, FiniteSets

CONSTANTS NoDebt, Index,                                                    \* no name; an order
          PlannedDebts, Portfolios, MonthlyBudgets, Extra, Stopped,         \* Planner
          BetterRate, MonthDen, MaxMonths, RateWeight, BalanceWeight,
          BoostFloor, BoostStep, BoostCap,
          ShownDebts, Holdings, HistoryTaken, MaxSnapshots,                 \* Dashboard
          PaidDebts, Recorded, Ranges, FirstDay, LastDay, MaxPayments,      \* Reports
          PaymentsTaken,
          Instances, Syncs, NoSync, Jobs, Users, HistoryLimit, DigestSize,   \* Notices
          Days, MaxNotices, MaxCrossings, MaxCuts,
          MaxHops,                                                          \* Access
          Scale, LimitCap, LimitWindow, MaxTime, MaxRestarts,               \* Gates
          Devices, NoDevice, MaxClicks, MaxSerial, MaxInFlight, MaxLost,    \* SettingsPanel
          FormKinds, FieldCap, MaxChanged,                                  \* Forms
          DeskDebts, NoPayment, Payments, Openings, Asks, Entries, Cent,    \* PaymentDesk
          InterestNum, InterestDen,
          Incomes, Balances, Budgets, MoneyCap, MaxDebts, MaxEdits,         \* Wizard
          MaxPosts,
          Debts, Books, Limits, DebtAmounts, Today,                         \* DebtDesk
          MaxTyped, MaxRequests                                             \* the two desks

VARIABLES open,
          planned, budget, current, focus, plan, advice,                    \* Planner
          debts, member, billing, history, page,                            \* Dashboard
          payments, today, tier, fields, asked, inFlight, summary, refusal, \* Reports
          notices, account, day, sync, promise, fresh, view, screen, job,   \* Notices
          crossings, cuts,
          deploy, user, row, cookies, db, seen, at, hops,                   \* Access
          route, now, entry, passed, restarts, answer,                      \* Gates
          stored, recent, challenge, panel, pending, call, confirm, serial, \* SettingsPanel
          clicks, lost, overlapped, reran,
          kind, capture, edits, verdict,                                    \* Forms
          rows, ledger, desk, linked, selected, capturing, filter, submit,  \* PaymentDesk
          removal, stale, spent,
          step, draft, loading, submitting, question, preview, posts,       \* Wizard
          thrown, slipped, saved, changes,
          held, limit, list, editing, typed, saving, filing, deleting,      \* DebtDesk
          outdated, used

planVars == <<planned, budget, current, focus, plan, advice>>
pageVars == <<debts, member, billing, history, page>>
reportVars == <<payments, today, tier, fields, asked, inFlight, summary, refusal>>
noticeVars == <<notices, account, day, sync, promise, fresh, view, screen, job, crossings,
                cuts>>
accessVars == <<deploy, user, row, cookies, db, seen, at, hops>>
gateVars == <<route, now, entry, passed, restarts, answer>>
settingVars == <<stored, recent, challenge, panel, pending, call, confirm, serial, clicks, lost,
                 overlapped, reran>>
formVars == <<kind, capture, edits, verdict>>
deskVars == <<rows, ledger, desk, linked, selected, capturing, filter, submit, removal, stale,
              spent>>
wizardVars == <<step, draft, loading, submitting, question, preview, posts, thrown, slipped,
                saved, changes>>
debtVars == <<held, limit, list, editing, typed, saving, filing, deleting, outdated, used>>

-----------------------------------------------------------------------------
P == INSTANCE Planner WITH debts <- planned, Debts <- PlannedDebts, Budgets <- MonthlyBudgets,
       RateDen <- MonthDen
D == INSTANCE Dashboard WITH Debts <- ShownDebts, tier <- member, status <- billing
R == INSTANCE Reports WITH Debts <- PaidDebts, Entries <- Recorded
N == INSTANCE Notices
A == INSTANCE Access
G == INSTANCE Gates WITH Window <- LimitWindow
S == INSTANCE SettingsPanel
F == INSTANCE Forms WITH Kinds <- FormKinds, MoneyCap <- FieldCap, MaxEdits <- MaxChanged,
       answer <- verdict
E == INSTANCE PaymentDesk WITH Debts <- DeskDebts, RateNum <- InterestNum,
       RateDen <- InterestDen, page <- desk, asked <- linked, form <- capturing, call <- submit
W == INSTANCE Wizard WITH stored <- saved, edits <- changes
T == INSTANCE DebtDesk WITH Openings <- Books, Entries <- DebtAmounts

-----------------------------------------------------------------------------
\* What is typed or stored is of its type, and the bounds are numbers.
ASSUME PlannerAssumption ==
  /\ IsFiniteSet(PlannedDebts) /\ Portfolios \subseteq [PlannedDebts -> P!Debt]
  /\ MonthlyBudgets \subseteq Nat /\ {MonthDen, BoostStep} \subseteq Nat \ {0}
  /\ {Extra, Stopped, BetterRate, BoostFloor, BoostCap, MaxMonths} \subseteq Nat
ASSUME RankingAssumption ==
  /\ {RateWeight, BalanceWeight} \subseteq Nat
  /\ \A d, e \in PlannedDebts : Index[d] \in Int /\ (d # e => Index[d] # Index[e])
ASSUME DashboardAssumption ==
  /\ IsFiniteSet(ShownDebts) /\ NoDebt \notin ShownDebts /\ Holdings \subseteq D!Holding
  /\ \A d, e \in ShownDebts : Index[d] \in Int /\ (d # e => Index[d] # Index[e])
ASSUME ReportsAssumption == /\ Ranges \subseteq Nat \X Nat /\ Recorded \subseteq R!Entry
                            /\ {FirstDay, LastDay} \subseteq Nat
ASSUME NoticesAssumption == /\ UNION Users \subseteq N!Account /\ Days \subseteq Nat /\ Days # {}
                            /\ IsFiniteSet(Jobs) /\ IsFiniteSet(Syncs)
                            /\ NoSync \notin Syncs /\ {"none", "ready"} \cap Syncs = {}
ASSUME FormsAssumption == FormKinds \subseteq DOMAIN F!Values /\ FieldCap \in Nat
ASSUME GatesAssumption == {Scale, LimitCap, LimitWindow} \subseteq Nat \ {0} /\ MaxTime \in Nat

\* Amounts of money are stored, and typed, in whole cents.
Cents == {x \in Nat : x % Cent = 0}
OptionalCents == Cents \cup {E!Omitted}
CentsOwed == [balance : Cents, late : Cents, extra : Cents]
CentsRow == [owed : CentsOwed, minimum : Cents, last : Cents, archived : BOOLEAN]
CentsSplit == [amount : Cents, principal : Cents, interest : Cents, late : Cents, extra : Cents,
               remaining : Cents]
Posted == [state : {"LIVE", "GONE"}, debt : DeskDebts, split : CentsSplit]
ASSUME DeskAssumption ==
  /\ {Cent, InterestDen} \subseteq Nat \ {0} /\ InterestNum \in Nat
  /\ IsFiniteSet(DeskDebts) /\ NoDebt \notin DeskDebts /\ \A d \in DeskDebts : Index[d] \in Int
  /\ IsFiniteSet(Payments) /\ Payments \subseteq Int /\ NoPayment \notin Payments
  /\ \A o \in Openings : /\ o.rows \in [DeskDebts -> CentsRow]
                         /\ \A p \in Payments \cap DOMAIN o.ledger : o.ledger[p] \in Posted
  /\ Asks \subseteq DeskDebts \cup {NoDebt}
  /\ Entries \subseteq [amount : Cents, interest : OptionalCents, late : OptionalCents]
ASSUME BoundsAssumption ==
  {MaxHops, MaxSnapshots, MaxCuts, MaxChanged} \subseteq Nat /\ FirstDay <= LastDay
ASSUME WizardAssumption == {MaxDebts, MaxEdits} \subseteq Nat
ASSUME DebtsAssumption ==
  /\ IsFiniteSet(Debts) /\ NoDebt \notin Debts /\ Limits \subseteq Nat
  /\ Books \subseteq [Debts -> T!Row] /\ DebtAmounts \subseteq T!Amounts /\ Today \in Nat

-----------------------------------------------------------------------------
LoanClosed == form = {} /\ run = {} /\ shown = {}
PlanClosed == /\ planned = {} /\ budget = {} /\ current = {} /\ focus = {}
              /\ plan = {} /\ advice = {}
PageClosed == debts = {} /\ member = {} /\ billing = {} /\ history = {} /\ page = {}
ReportClosed == /\ payments = {} /\ today = {} /\ tier = {} /\ fields = {} /\ asked = {}
                /\ inFlight = {} /\ summary = {} /\ refusal = {}
NoticeClosed == /\ notices = {} /\ account = {} /\ day = {} /\ sync = {} /\ promise = {}
                /\ fresh = {} /\ view = {} /\ screen = {} /\ job = {}
                /\ crossings = {} /\ cuts = {}
AccessClosed == /\ deploy = {} /\ user = {} /\ row = {} /\ cookies = {} /\ db = {}
                /\ seen = {} /\ at = {} /\ hops = {}
GateClosed == /\ route = {} /\ now = {} /\ entry = {} /\ passed = {} /\ restarts = {}
              /\ answer = {}
SettingClosed == /\ stored = {} /\ recent = {} /\ challenge = {} /\ panel = {}
                 /\ pending = {} /\ call = {} /\ confirm = {} /\ serial = {} /\ clicks = {}
                 /\ lost = {} /\ overlapped = {} /\ reran = {}
FormClosed == kind = {} /\ capture = {} /\ edits = {} /\ verdict = {}
DeskClosed == /\ rows = {} /\ ledger = {} /\ desk = {} /\ linked = {} /\ selected = {}
              /\ capturing = {} /\ filter = {} /\ submit = {} /\ removal = {} /\ stale = {}
              /\ spent = {}
WizardClosed == /\ step = {} /\ draft = {} /\ loading = {} /\ submitting = {}
                /\ question = {} /\ preview = {} /\ posts = {} /\ thrown = {}
                /\ slipped = {} /\ saved = {} /\ changes = {}
DebtsClosed == /\ held = {} /\ limit = {} /\ list = {} /\ editing = {} /\ typed = {}
               /\ saving = {} /\ filing = {} /\ deleting = {} /\ outdated = {} /\ used = {}

OpenInit ==
  /\ open \in {"loan", "planner", "dashboard", "reports", "notices", "access",
              "gates", "settings", "forms", "payments", "wizard", "debts"}
  /\ IF open = "loan" THEN Init ELSE LoanClosed
  /\ IF open = "planner" THEN P!Init ELSE PlanClosed
  /\ IF open = "dashboard" THEN D!Init ELSE PageClosed
  /\ IF open = "reports" THEN R!Init ELSE ReportClosed
  /\ IF open = "notices" THEN N!Init ELSE NoticeClosed
  /\ IF open = "access" THEN A!Init ELSE AccessClosed
  /\ IF open = "gates" THEN G!Init ELSE GateClosed
  /\ IF open = "settings" THEN S!Init ELSE SettingClosed
  /\ IF open = "forms" THEN F!Init ELSE FormClosed
  /\ IF open = "payments" THEN E!Init ELSE DeskClosed
  /\ IF open = "wizard" THEN W!Init ELSE WizardClosed
  /\ IF open = "debts" THEN T!Init ELSE DebtsClosed

Only(what) == open = what /\ UNCHANGED open
OnLoan == /\ Only("loan")
          /\ UNCHANGED <<planVars, pageVars, reportVars, noticeVars, accessVars, gateVars,
                         settingVars, formVars, deskVars, wizardVars, debtVars>>
OnPlanner == /\ Only("planner")
             /\ UNCHANGED <<vars, pageVars, reportVars, noticeVars, accessVars, gateVars,
                            settingVars, formVars, deskVars, wizardVars, debtVars>>
OnDashboard == /\ Only("dashboard")
               /\ UNCHANGED <<vars, planVars, reportVars, noticeVars, accessVars, gateVars,
                              settingVars, formVars, deskVars, wizardVars, debtVars>>
OnReports == /\ Only("reports")
             /\ UNCHANGED <<vars, planVars, pageVars, noticeVars, accessVars, gateVars,
                            settingVars, formVars, deskVars, wizardVars, debtVars>>
OnNotices == /\ Only("notices")
             /\ UNCHANGED <<vars, planVars, pageVars, reportVars, accessVars, gateVars,
                            settingVars, formVars, deskVars, wizardVars, debtVars>>
OnAccess == /\ Only("access")
            /\ UNCHANGED <<vars, planVars, pageVars, reportVars, noticeVars, gateVars,
                           settingVars, formVars, deskVars, wizardVars, debtVars>>
OnGates == /\ Only("gates")
           /\ UNCHANGED <<vars, planVars, pageVars, reportVars, noticeVars, accessVars,
                          settingVars, formVars, deskVars, wizardVars, debtVars>>
OnSettings == /\ Only("settings")
              /\ UNCHANGED <<vars, planVars, pageVars, reportVars, noticeVars, accessVars,
                             gateVars, formVars, deskVars, wizardVars, debtVars>>
OnForms == /\ Only("forms")
           /\ UNCHANGED <<vars, planVars, pageVars, reportVars, noticeVars, accessVars,
                          gateVars, settingVars, deskVars, wizardVars, debtVars>>
OnPayments == /\ Only("payments")
              /\ UNCHANGED <<vars, planVars, pageVars, reportVars, noticeVars, accessVars,
                             gateVars, settingVars, formVars, wizardVars, debtVars>>
OnWizard == /\ Only("wizard")
            /\ UNCHANGED <<vars, planVars, pageVars, reportVars, noticeVars, accessVars,
                           gateVars, settingVars, formVars, deskVars, debtVars>>
OnDebts == /\ Only("debts")
           /\ UNCHANGED <<vars, planVars, pageVars, reportVars, noticeVars, accessVars,
                          gateVars, settingVars, formVars, deskVars, wizardVars>>

OpenNext ==
  \/ OnLoan /\ (NextPeriod \/ Show)
  \/ OnPlanner /\ (P!NextMonth \/ P!Compare)
  \/ OnDashboard /\ (D!ChangeDebt \/ D!ChangeMembership \/ D!OpenDashboard)
  \/ OnReports /\ (R!RecordPayment \/ R!NextDay \/ R!SetFields \/ R!Reload
                   \/ R!ReportAnswered \/ R!ReportFailed \/ R!Lapse)
  \/ OnNotices /\ (N!Visit \/ N!Leave \/ N!FindNotice \/ N!CreateNotice \/ N!SyncFails
                   \/ N!SyncEnds \/ N!CooldownEnds \/ N!ListNotices \/ N!MarkRead \/ N!ReadAll
                   \/ N!PickDigest \/ N!MailDigest \/ N!MarkDigest \/ N!CutDigest
                   \/ N!ChangeAccount \/ N!LaterDay)
  \/ OnAccess /\ (A!Ask \/ A!proxy \/ A!Page \/ A!Login \/ A!Register \/ A!Logout \/ A!Unlock
                  \/ A!FinishOnboarding \/ A!SetMfa \/ A!SessionEnds \/ A!StatusChanges
                  \/ A!RoleChanges \/ A!DatabaseComesAndGoes \/ A!AvailabilityLapses
                  \/ A!CookieLapses)
  \/ OnGates /\ (G!Call \/ G!Tick \/ G!Restart)
  \/ OnSettings /\ (\/ \E a \in S!Actions, k \in Devices \cup {NoDevice} : S!Click(a, k)
                    \/ S!Confirm \/ S!Cancel \/ S!ServeConfirm \/ S!ConfirmAnswered
                    \/ S!ConfirmRefused \/ S!RecentLapses
                    \/ \E s \in S!Slots : S!Serve(s) \/ S!Return(s))
  \/ OnForms /\ (F!Edit \/ F!Submit)
  \/ OnPayments /\ (E!Choose \/ E!Type \/ E!Quick \/ E!Correct \/ E!Clear \/ E!Filter \/ E!Submit
                    \/ E!Delete \/ E!ServeCreate \/ E!ServeUpdate \/ E!ServeDelete \/ E!Saved
                    \/ E!NotSaved \/ E!Deleted \/ E!NotDeleted \/ E!Refresh \/ E!Elsewhere)
  \/ OnWizard /\ W!Here /\ (W!TypeIncome \/ W!AddDebt \/ W!TypeDebt \/ W!RemoveDebt
                           \/ W!TypeBudget \/ W!Continue \/ W!Back \/ W!AskPreview
                           \/ W!PreviewArrives \/ W!PreviewFails \/ W!Send \/ W!PostArrives
                           \/ W!PostFails \/ W!Reload)
  \/ OnDebts /\ (T!TypeValues \/ T!applyPreset \/ T!startEditingDebt \/ T!Clear \/ T!submit
                 \/ T!handleArchive \/ T!handleDelete \/ T!createDebt \/ T!updateDebt
                 \/ T!deleteDebt \/ T!Saved \/ T!Archived \/ T!Deleted \/ T!Failed
                 \/ T!Refresh \/ T!Elsewhere)

allVars == <<open, vars, planVars, pageVars, reportVars, noticeVars, accessVars, gateVars,
             settingVars, formVars, deskVars, wizardVars, debtVars>>
PagesSpec == OpenInit /\ [][OpenNext]_allVars

-----------------------------------------------------------------------------
\* The variables of each page have their types.
PagesTyped ==
  CASE open = "loan" -> TypeOK           [] open = "planner" -> P!TypeOK
    [] open = "dashboard" -> D!TypeOK    [] open = "reports" -> R!TypeOK
    [] open = "notices" -> N!TypeOK      [] open = "access" -> A!TypeOK
    [] open = "gates" -> G!TypeOK        [] open = "settings" -> S!TypeOK
    [] open = "forms" -> F!TypeOK        [] open = "payments" -> E!TypeOK
    [] open = "wizard" -> W!TypeOK       [] open = "debts" -> T!TypeOK

\* Paying more never costs more (simulate-debt.ts).
PayingMoreIsAhead == open = "loan" => PayingMoreNeverHurts
\* The plans conserve money (strategy-engine.ts).
PlansConserve == open = "planner" => P!PlanConserves
\* No plan falls behind the minimums (strategy-engine.ts).
AheadOfMinimum == open = "planner" => P!NeverBehindMinimum
\* Following the recommendation never costs more (plan-optimization.ts).
RecommendedIsSafe == open = "planner" => P!RecommendedNeverCostsMore
\* What the simulator calls a saving is one under AVALANCHE (simulator-service.ts).
SavingsAreReal == open = "planner" => P!WhatIfsPay
\* The limit of a membership never hides the most urgent debt (dashboard-service.ts).
UrgentShown == [][open = "dashboard" /\ D!OpenDashboard =>
  \A d \in D!Active : /\ page'.urgent # NoDebt /\ page'.pitched # NoDebt
                      /\ \A u \in {page'.urgent, page'.pitched} :
                           ~D!Sooner(d, u)]_allVars
\* A late answer never replaces the report of a later question (reports-panel.tsx).
LatestReportShown == [][open = "reports" /\ R!ReportAnswered =>
  <<summary'.from, summary'.to>> = asked]_allVars
\* A streak of weeks and a prompt to get back to the plan exclude each other
\* (dashboard-service.ts).
StreakIsHeard == open = "reports" => R!StreakNeedsNoPrompt
\* One notice is unread for one occasion, but for those that synchronisations which cross
\* one another, in several processes or after a failure, create twice, each at most one of
\* an alert (notification-service.ts).
OneNoticePerOccasion == open = "notices" => N!OneUnreadPerAlert
\* A notice is handed to the mail service once, but for runs that are cut or started over
\* another, and is marked only when it was (notification-service.ts, mail-service.ts).
DigestMailedOnce == open = "notices" => N!DigestOnce
\* An urgent notice leads the page whenever one is shown (notification-center.tsx).
UrgentNoticeLeads == open = "notices" => N!UrgentLeads
\* The checks of the proxy and of the pages never send a browser back and forth
\* (proxy.ts, session.ts, host-access.ts).
RedirectsEnd == open = "access" => A!NavigationEnds
\* The rate limit turns away no caller too early and lets none through too often
\* (rate-limit.ts).
LimitsHold == open = "gates" => G!LimitHolds
\* The settings page shows the factors and keys as they are stored (settings-panel.tsx).
SettingsTellTheTruth == open = "settings" => S!PanelTellsTheTruth
\* A control that waits for a request is freed when the request is over
\* (settings-panel.tsx, onboarding-wizard.tsx).
ControlsAreFreed == /\ open = "settings" => S!FreedAfterWork
                    /\ open = "wizard" => W!FreedAfterRequest
\* The rules beside the fields of a form and those of its schema agree, but for the
\* differences that are listed (src/lib/validations).
VerdictsAgree == open = "forms" => F!VerdictsAgree
\* What a screen announces is what comes of it, whatever answers and refreshes arrive in
\* between: the balance a payment will leave, the payment or the debt a correction is
\* about, that archiving a debt changes only its status (and forgets the day it was paid
\* off) and that a new debt is within the limit, and the plan of the wizard's last step (payment-manager.tsx,
\* debt-manager.tsx, onboarding-wizard.tsx).
PreviewsHold == [][/\ open = "payments" => E!PreviewHolds /\ E!CorrectionStays
                   /\ open = "debts" => T!CorrectsItsOwn' /\ T!ArchivesOnly /\ T!LimitIsTold
                   /\ open = "wizard" => W!PreviewIsCurrent]_allVars
=============================================================================
