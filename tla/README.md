# Deuda Clara RD: TLA+ models and proofs

Deuda Clara RD is a Next.js application over PostgreSQL (through Prisma) with which one person
keeps track of their debts: what is owed, what has been paid, what comes due, and which order
of payment costs least.  It bills a membership through AZUL, mails reminders and digests from a
daily job, and guards accounts with passwords, TOTP, recovery codes and passkeys.

What goes wrong in it goes wrong in three places.

* **Between two statements of a request.**  A request runs in a serverless function: it reads
  rows, computes in JavaScript, writes absolute values, and then writes what follows (an audit
  entry, a snapshot, the status of an event).  `prisma.$transaction` makes a group of writes
  atomic under READ COMMITTED; the reads a group is computed from are nearly always outside it.
  Nothing keeps two requests of the same user apart, and a function may be cut short between any
  two statements.
* **Between a screen and the server.**  A screen is rendered with rows, computes announcements
  from them, and keeps its fields editable while its requests are in flight; answers and
  refreshes arrive under what the user typed since.
* **At the borders of its arithmetic.**  Interest is rounded every period, simulations stop at a
  cap, queries take the first so many rows, calendars have last days, and every rule of a form is
  written twice.

The models give every request its program counter and make one action of each statement or
transaction; they give every screen its requests in flight and what they were asked about; and
they run the pure algorithms step by step over every small input.

Paths below are relative to the repository's root (`src/server` is `src/src/server` in
`PROJECT.json`, which adds the directory the repository is in).

## 1. Inventory

| Component | State it keeps | Operations | What is hard | What makes it correct | Module |
|---|---|---|---|---|---|
| Payments (`server/payments`) | `Payment` rows; amounts, status and settlement date of their `Debt` | create, update, delete; allocation and reversal | the debt is read before the transaction and overwritten in it; three roundings per payment | debt + payments = what was declared; a PAID debt owes nothing | `PaymentAllocation`, `Ledger` |
| Debts (`server/debts`) | `Debt` rows | create, update (archive), delete with cascade | the status is derived before the limit is read; entries follow the deletion | archive flag, status and amounts agree; deletions are on record | `Ledger` |
| Audit log, snapshots (`server/audit`, `server/snapshots`) | `AuditLog`, `BalanceSnapshot` | append, sum and save | written after the commit, one by one; foreign keys | an entry tells of what happened; a snapshot is of the moment | `Ledger` |
| Onboarding (`server/onboarding`) and its wizard | first debts, profile, `onboardingCompleted`; the draft of five steps | one transaction; preview, submit | double submission; fields editable while the preview is computed | closed once, all or nothing; the result shown is of the values in the form | `Ledger`, `Wizard` |
| Plans (`lib/feature-access.ts`, `lib/membership`) | tier of the user | read-only checks | counted outside the transaction | what is hidden is not what matters most | `Membership` |
| Billing (`server/billing`) | `BillingPayment`, `BillingProviderEvent`, the billing columns of `UserSettings` | checkout; approved, declined and cancelled returns | returns come again, late, never, out of order; a claimed event goes stale after ten minutes | an order activates once and is never lost; who paid has access | `Billing` |
| Accounts (`server/auth`) | `User`, `PasswordResetToken` | register, log in, reauthenticate, change and reset the password | check, hash, then store; tokens and codes for one use | single use; no session survives old credentials | `Account` |
| Sessions (`lib/auth`) | `Session` rows, two cookies | create, look up, rotate, revoke, destroy, recent authentication | rotation is four statements and a cookie | the caller stays, nobody else does | `Account` |
| MFA (`server/settings`, `server/auth`) | TOTP secret, flag, recovery hashes | set up, verify, disable, regenerate | secret read, verified and stored in separate statements | the factor in force is one the user holds | `Account` |
| Account status (`server/admin`) | `User.status` | disable, enable | sessions outlive it | a disabled user is refused | `Account`, `Access` |
| Reminders (`server/reminders`) | `NotificationEvent` by dedupe key | daily job: enumerate, look up, create, mail, mark | calendar window against daily call; mail before mark; overlapping runs | told once, none forgotten | `Reminders` |
| Notices and digests (`server/notifications`) | `Notification` rows; a promise and a cooldown per process | synchronise, list, read, digest | find-then-create without a key; a promise no other process sees; send-then-mark; a sum of weights picks the top | one unread row per occasion, one digest per row, urgent first | `Notices` |
| Mail (`server/mail`) | none | send | the reply is not read: what is refused in it is taken for sent | what is marked was handed over | in `Reminders`, `Notices` |
| Planner (`server/planner`, `server/dashboard/plan-optimization.ts`) | none | simulate, compare, recommend | clipping of minimums, budget and balances; the 600-month cap | money is conserved; a recommendation never costs more | `Planner` |
| Simulator (`lib/simulator`) | none | three schedules of one loan | interest rounded every period; the last cent | paying more never hurts | `Amortisation` |
| Dashboard (`server/dashboard`) | none | one query, what a membership sees of it | rows are cut at limits | the most urgent debt is never cut; the chart reaches today | `Dashboard` |
| Reports (`server/reports`) and their panel | the range in the fields, the report on the screen | report, comparison, habits | late answers; two week arithmetics | the last question's answer; habits do not contradict | `Reports` |
| Page access (`proxy.ts`, `app/**/page.tsx`), host panel (`server/host`), database availability, demo session | cookies, a cached reachability | redirect, unlock, fall back | each check looks for itself, at its own moment | no browser is sent back and forth | `Access` |
| API routes (`app/api`), rate limiting (`lib/security`) | windows in the memory of one process | gates in order, count | the window starts over | no caller is turned away early or let through too often | `Gates` |
| Settings page (`features/settings`) with passkeys | what the cards show, the action that waits for a confirmation | enrol, confirm, run again | the re-run happens outside the function that frees its control | the page tells what is stored | `SettingsPanel` |
| Forms and validations (`lib/validations`, the fields of each screen) | the values typed | every rule, twice | two helpers per rule | both give the same verdict | `Forms` |
| Payments screen, debts screen (`features/payments`, `features/debts`) | the list rendered, the form, requests in flight | type, correct, archive, delete, quick amounts | stale lists, stale closures, late answers | what was announced is what is done | `PaymentDesk`, `DebtDesk` |
| Passkey login, demo ledger, exports, membership and dashboard pages, encryption, telemetry, configuration, schema, scripts | cookies, constants | read and render | see section 5 | | not modelled, or as constants |

`PROJECT.json` lists every component with its sources, its status and, where something is left
out, the reason; "hazards" lists what in the code a test would hardly reach, at its line, with
the properties that watch it.

**How they interact.**  Payments, debts and onboarding share the `Debt` rows, and all of them
end with an audit entry and a snapshot: they are one module, `Ledger`.  Billing changes the tier,
which `Ledger` meets as `ChangePlan`, and `Dashboard`, `Reports` and `DebtDesk` as a membership
that may lapse under a page.  The daily job runs reminders and then the digest; they share no
row, so each has its module.  `Access` composes the proxy, the pages, the session and the
host gate, which ask one another's questions at different moments.  `Gates` stands in front of
every service.  A screen's module holds the service it calls as one step, because what the
service does between its own statements is the subject of `Ledger` and `Account`.

## 2. Modules

| Module | Code | What it models |
|---|---|---|
| `PaymentAllocation` | `server/payments/payment-allocation.ts`, `lib/validations/payments.ts` | the split of a payment, its reversal, the rounding to cents; pure |
| `Ledger` | `server/payments`, `server/debts`, `server/audit`, `server/snapshots`, `server/onboarding` | debts, payments and the requests that change them |
| `DebtBook` | (abstract) | the promise: an entry moves what its debt owes by what the entry says |
| `Billing` | `server/billing`, the return routes | orders, provider events, the membership |
| `Account` | `server/auth`, `lib/auth`, `server/settings`, `server/admin` | credentials, second factor, sessions, cookies |
| `Reminders` | `server/reminders`, `server/mail`, the job's route | the calendar, the event rows, the runs of the job |
| `Notices` | `server/notifications`, `features/notifications` | synchronisations, the page, the digest |
| `Membership` | `lib/feature-access.ts`, `lib/membership` | what each tier unlocks; pure |
| `Amortisation` | `lib/simulator` | three schedules of one loan, in lockstep |
| `Planner` | `server/planner`, `server/dashboard/plan-optimization.ts` | eleven plans of one portfolio, in lockstep |
| `Dashboard`, `Reports` | `server/dashboard`, `server/reports`, `features/reports` | what is read, cut, shown and asked again |
| `Access` | `proxy.ts`, `app/**/page.tsx`, `lib/auth/session.ts`, `server/host`, `lib/demo/session.ts`, `server/services` | where a browser ends up |
| `Gates` | `app/api/**/route.ts`, `lib/security` | what a route asks, in which order, and its limit |
| `SettingsPanel` | `features/settings`, `app/api/settings` | the security cards and the confirmation they wait for |
| `Forms` | `lib/validations` and the fields of ten screens | both rules of every field |
| `PaymentDesk`, `DebtDesk`, `Wizard` | `features/payments`, `features/debts`, `features/onboarding` | the screens, their lists and their requests |
| `Pages` | | one instance of each page module and of `Amortisation`, side by side: `open` says which one a behaviour is about |
| `MC*` | | forms, amounts, calendars and symmetry sets for TLC |
| `*Proofs` | | the theorems of section 4 |

### Ledger

`debts[d]` and `payments[p]` are rows: a status outside the enumeration, `"NONE"` or `"GONE"`,
says that the row is not there.  `req[r]` is a request: its operation, the place where it stands
(`debt`, `limit`, `write`, `audit`, `sum`, `save`), and *what it has read* (`seen`, `seenPayment`)
or has prepared (`next`), so that a commit writes what the code would write, however old its
reads are.  Each commit is one action, because it is one transaction or one statement.  A guard
such as `Exists(d)` on a commit is the `WHERE` of its `updateMany`, or the foreign key that the
insert needs; `CommitFails` is the other branch, and also stands for an unreachable database.
`WriteAudit` checks the foreign keys of `AuditLog` (`prisma/schema.prisma:474`); when the row it
names is gone the insert throws, the request ends there, and no snapshot is taken, exactly as
the `await` in the service does.

Money is an integer number of units, `Cent` of them to a cent.  The code computes with exact
decimals and rounds to two places when it stores, so the halves of a cent of an interest
estimate need units of their own: at `Cent = 1` they cannot occur, at `Cent = 2` they do.

`charged`, `paid` and `edits` are history variables: what the user has declared a debt to be,
what its live payments record, and how often they were edited.

`DebtBook` is the abstract specification: `owes[d]` and `entry[p]`, and five kinds of step
(declare, strike, enter, amend, cancel).  Entering a payment takes its parts off what the debt owes, up to
`Slack`, which is what rounding the parts one by one may gain: a cent where half cents occur,
nothing elsewhere.  `Ledger` implements it, while requests do not overlap, under the mapping
`owes <- TotalDue`, `entry <- the parts of the payment`; a crash, a failed commit or a failed audit
entry map to a step or to a stutter, never to half of one.

### Billing

One user, any number of orders.  `payments[o]` and `settings` are the rows; `event[e]` is the
`BillingProviderEvent` whose unique key (the route, the order, whether the return carried its
parameters) is the only lock there is.  `handler[h]` stands at one of the statements of
`processAzulReturn`: insert or find the event, claim it, read the payment, activate or reject,
audit, mark.  `Fault` is a statement the database refuses, which inside the `try` leads to
`MarkFailed` and outside ends the request; `CrashHandler` leaves the event `PROCESSING`, and
`GoStale` is the ten minutes after which another delivery may take it over.  `gateway` and
`returns` are AZUL and the browser: a return, once handed out, may come any number of times, at
any time, with its parameters lost, or never.  `checkout` is the checkout in flight, with the
billing status that it read before it writes.

### Account

Credentials, second factor and sessions of one user, in the browsers the user has.  `era`
counts changes of credentials, `born[s]` says in which era the credentials that opened session
`s` were checked; `spent` counts the uses of a code or a reset token.  A request that is refused
changes nothing here, so the checks of a handler are the conditions of its action.

`req[b]` is the request of browser `b` between two of its statements, with what it read when it
began: the era, the list of recovery codes it will write back.  Requests overlap and are cut short;
`overlaps` and `cuts` count the two, because a login that overlaps a change of the password opens
its session after the others were closed, and one that overlaps another spends the same code.
`overtaken` has the browsers verifying a second factor whose secret was replaced or removed since
they read it.  `lapses` bounds what expires or is disabled.

### Reminders and Notices

`Reminders`: one user, one debt, a clock in ticks.  `Occurrences`, `Scheduled`, `InWindow` and
`Candidates` translate `reminder-engine.ts`; the actions are the statements of
`dispatchAutomatedReminderEmails`: look up the event, create it (outside the `try`: a duplicate
key ends the run), mail, mark, or the `catch` block.  `mails` counts what the mail service
accepted.  `sendTransactionalEmail` awaits the service and does not look at its reply
(`mail-service.ts:26-34`): a mail refused in it (`SendRefused`) is marked `SENT` like any other and
is remembered in `refused` only; what is thrown (`SendFails`) leads to the `catch` block.  What *ought* to be told (`OnSchedule`, `Wanted`) is stated from the debt and the
preferences alone, not from what the code enumerates.  The constant `FirstDay` is the calendar:
the first day of each month and the day after the last, counted from the day the clock starts.

`Notices`: the rows of one user in the order they were created.  A visit is served by one of the
processes (`Instances`), and starts a synchronisation unless one of that process is in flight or
its cooldown holds (`promise[i]`, `fresh[i]`: `notificationSyncState` is a `Map` in the memory of a
process, `notification-service.ts:32`).  `crossings` counts those begun while one is at work that
this process does not wait for.  A synchronisation looks for each alert and creates what it did not
find, in any order, because `Promise.all` starts them together; a failure ends it and forgets the
cooldown while the others go on.  The option `force` (`:402`) is left out: nothing in the
repository passes it.  The page lists, scores and marks; the digest picks five rows, hands them to
the mail service, and marks them in a second statement; `mailed` and `dropped` count what the
service took and what it refused in the reply that is not read.

### Amortisation, Planner, Dashboard, Reports

`Amortisation` advances `BASE`, `EXTRA` and `AGGRESSIVE` of one form a period at a time, with the
code's rounding half up and its three ways to refuse a loan; `Show` is what the reader's plan may
see.  Of two routes of the same interest `Recommended` takes the one of fewer periods, where the code
compares months rounded to one decimal (`simulate-debt.ts:310`) and keeps the first of two alike.  `Planner` does the same with eleven plans of one portfolio: minimums only, the three orders,
the three with a suggested extra, and the simulator's what-ifs; `Compare` is
`compareSimulationSummary`.  All plans are in lockstep, so that two of them can be compared at the
same month.  The calendar of a plan is its month number; the month's interest is rounded down,
where the code keeps decimals.

`Dashboard` is one query, the debts a membership analyses, and what is shown of them.  `Reports`
has the payments of a few weeks, the report over a range, the panel that asks for one and the
habits the dashboard reads from the same payments.  Days and noons are half-day instants, so that
"seven times twenty-four hours" and "this calendar week" differ as they do in the code.

### Access and Gates

`Access` follows one browser: it asks for a path, `proxy` looks at the session through its
internal fetch and either redirects or passes on, `Page` looks again, and between the two the
session may end, the role or status change, the database come or go, its cached reachability
lapse, a cookie expire.  `hops` counts redirects since the user asked or anything changed.

`Gates` lists every route with the gates it asks in its order (`login`, `checkout`,
`jobsNotifications`, ...), and translates `assertRateLimit` with its map in memory.  A call is answered by the first
gate that refuses; requests before the limit gate are not counted, as in the code.
The limit of a development server, which is none (`rate-limit.ts:37-43`), and the one kept by Upstash where it is
configured (`:45-55`) are left out.

### SettingsPanel, Forms and the screens

`SettingsPanel` keeps what the server has stored beside what the page shows.  An action that needs
a recent confirmation and is refused is kept in `pending` and run again after `Confirm`, by the
effect that is not awaited by the control's own handler.

`Forms` holds, for each of ten forms, the rule beside each field (`Screen`) and the rule of the
schema (`Schema`) with the values on both sides of each border.  Where the two differ in the code
the difference is listed by name (`OnlyTheServer`, `OnlyTheScreen`), each with its line; the
property is that there is no other.

A row of `DebtDesk` has the day it was paid off beside its status and its amounts, because
`updateDebt` writes that column whatever the form says (`debt-service.ts:325`).
`PaymentDesk`, `DebtDesk` and `Wizard` keep the list the screen was rendered with apart from the
rows that are stored, the form with where its values came from, and each request in flight with
what it was sent with and the selection its closure sees.

## 3. What each run checks

Every passing run ends with its state space exhausted; none takes more than a few minutes.

| Run | Instance | Properties | Shows |
|---|---|---|---|
| `LedgerSerial` | 1 debt, 2 payments, every operation, one request at a time, `Cent = 2`, one crash | `TypeOK`, `BooksClose`, `SnapshotIsCurrent`, `KeepsTheBook` | books close up to the cent an edit can gain, snapshots are current, `Ledger` implements `DebtBook` |
| `LedgerRace` | the same rows, two requests at once | `PaidMeansSettled`, `AuditTellsTheTruth` | what survives stale writers |
| `LedgerLostPayment` | two payments at once | `BooksClose` | **violated**: the second commit erases the first from the balance |
| `LedgerDeletionAudit` | delete a debt | `DeletionsAudited` | **violated**: its audit entry is refused by the foreign key |
| `BillingRace` | 2 orders, 2 plans, 2 handlers and a checkout at once until one of them crashes or is refused a statement | `TypeOK`, `ActiveMeansPaid`, `ActivatedOnce` | the event row alone keeps an order from activating twice; only who paid is active |
| `BillingRetry` | 1 order that may be paid after a decline, 3 returns, 2 handlers, stale claims, a crash, a refused statement, fairness | `ProcessedMeansActivated`, `ConfirmedUntilContradicted`, `ConfirmedInTheEnd` | nothing approved is lost; a return that keeps coming is acted upon; a confirmed payment is overwritten only by a late decline AZUL did send |
| `BillingDowngrade` | an activation between the read and the write of a checkout | `PaidHasAccess` | **violated**: a member who paid is set back to PENDING |
| `AccountRequests` | 2 browsers, 2 secrets, 2 codes, 3 sessions, 1 reset token, two changes of credentials, one request that overlaps another or is cut short, one lapse (5.2 M) | `TypeOK`, `SessionsAreCurrent`, `GoodForOnce`, `FactorIsUsable`, `CallerAloneStays` | sessions follow the credentials, codes and tokens are for one use, but for one more with each overlap; the factor in force is usable, unless a set-up overtook its verification |
| `RemindersDaily` | two months, 4 debts, 2 preferences, 2 runs, one edit, one failure or unread refusal, one overlap (3.6 M) | `TypeOK`, `OnceUnlessCut`, `SentWasMailed`, `ToldByTheDailyCall`, `LeavesNothingUntold` | nothing in a window is left untold but for a refusal nobody reads, and a mail repeats only for a failure or an overlap |
| `RemindersForgotten` | a card due on the last day of its month | `NothingForgotten` | **violated**: its same-day reminder is never sent |
| `Pages` | twelve instances that share no state, see below | eighteen, see below | what the algorithms, the pages and the screens promise |
| `DashboardHistory` | thirteen changes of one debt | `HistoryReachesNow` | **violated**: the chart shows the twelve oldest snapshots |

### The run of the pages

`Pages` holds an instance of each module of a page or an algorithm; `open`, chosen at the start,
says which one a behaviour is about, and the variables of the others stay empty.  Its constants
are the sets of inputs and the bounds of all of them; `MCPages` and `Pages.cfg` give them values.  The state space
is the *sum* of the twelve, not their product: these parts keep no state in common, so nothing is
lost by checking them side by side.  2.6 million states in all.

| `open` | Instance (states) | Properties |
|---|---|---|
| `loan` | 5 principals, 13 payments, 5 extras, 4 rates, 20 periods (8.8 k) | `PayingMoreIsAhead` |
| `planner` | two debts, each large or small, with a high or a low minimum, up to three rates and two dates; no budget or one of 60; 40 months (48 k) | `PlansConserve`, `AheadOfMinimum`, `RecommendedIsSafe`, `SavingsAreReal` |
| `dashboard` | three debts of five kinds, every tier and billing status (62 k) | `UrgentShown` |
| `reports` | two payments around the borders of weeks, windows and three ranges; a membership that lapses (97 k) | `LatestReportShown`, `StreakIsHeard` |
| `notices` | two kinds of user, two processes, two synchronisations and two runs of the job at once, three rows, one crossing, one cut (1.17 M) | `OneNoticePerOccasion`, `DigestMailedOnce`, `UrgentNoticeLeads` |
| `access` | every deployment, user, cookie and database; every kind of page (101 k) | `RedirectsEnd` |
| `gates` | every route, five ticks, a limit of ten as two, one restart (136 k) | `LimitsHold` |
| `settings` | one device, three clicks, two calls at once, one answer lost (112 k) | `SettingsTellTheTruth`, `ControlsAreFreed` |
| `forms` | ten forms, three changed fields each (55 k) | `VerdictsAgree` |
| `payments` | two debts, one payment on one of them, two more requests (441 k) | `PreviewsHold` |
| `debts` | a debt with charges, one that is paid, room for one more; two requests (186 k) | `PreviewsHold` |
| `wizard` | two debts, seven edits, two submits in flight (153 k) | `PreviewsHold`, `ControlsAreFreed` |

* `PayingMoreIsAhead`: in spite of the rounding of every period, a scenario that pays more is
  never longer in force, owes no more and has accrued no more interest.
* `PlansConserve`, `AheadOfMinimum`: at every month, what was owed plus interest and charges is
  what was paid plus what is owed; no debt of any plan is behind where the minimums alone have it.
* `RecommendedIsSafe`: the plan the dashboard recommends never costs more nor takes longer than the
  plan in use, although plans are ranked by months before interest.  `SavingsAreReal`: under
  AVALANCHE the simulator's savings are savings; under the other orders they may be negative, and
  the model says so by restricting itself.
* `UrgentShown`: the limit of a free membership never hides the most urgent debt, from the page or
  from the offer it makes.
* `LatestReportShown`: a late answer never replaces the report of a later question, because a
  reload is refused while one is awaited.  `StreakIsHeard`: whoever has a streak of weeks is not
  told to get back to the plan, although one counts calendar weeks and the other hours.
* `OneNoticePerOccasion`: there is no unique key; the promise of a process and the order of the
  awaits keep a user from two unread notices of one occasion.  A synchronisation that crosses another,
  begun by another process or beside what a failed one left under way, doubles an alert
  once at most; where none crosses, nothing is doubled.
* `DigestMailedOnce`: a notice is handed to the mail service again only for a cut between mail and
  mark or for an overlapping run, and none is marked that was never handed over.  That the
  service *took* it is not said, because the code does not know.
* `UrgentNoticeLeads`: the weights of the score never add up to a severity.
* `RedirectsEnd`: two redirects at most, whatever the proxy and the pages each see.
* `LimitsHold`: whoever is turned away had spent the limit in the window before; in any stretch of
  a window's length fewer than two limits pass, and one limit more for each restart.
* `SettingsTellTheTruth`: when nothing is in flight the page shows what is stored, except after a
  lost answer or calls that overlapped.  `ControlsAreFreed`: a control stays disabled only while a
  call of its kind is at work, or after one was run again (which nothing frees: see the
  divergences), or, in the wizard, after a request that ended without an answer.
* `VerdictsAgree`: what the screen lets through the server accepts and what it stops the server
  would refuse, but for the listed differences.
* `PreviewsHold`: the balance announced is the balance that results on a debt that has not changed
  (within the cent of overpayment that is tolerated); a correction stays with its own payment or
  debt; archiving an unchanged debt changes its status and erases the day it was paid off, and
  nothing else of it or of another debt; a debt is not refused for a limit the
  screen did not tell of; the plan of the wizard's last step is of the debts in the form.

### Bounds, and why they are enough

* **Ledger.**  Two payments are the least for one to be erased, amended or struck out under the
  other; every operation touches one debt, and the only thing two debts share is the sum of a
  snapshot and the count of the limit, so one debt is kept and the limits are 0 and 2 (refused,
  granted).  Forms are a part payment, one that names its parts, and one larger than the debt;
  debts open, negotiating, archived and empty.  `MaxEdits` bounds the payments recorded on a
  debt, which otherwise grow without end; `MaxNow = 1` lets a due date pass.  Half cents occur in
  `LedgerSerial`, whose payments are in whole cents and whose interest is not.
* **Billing.**  Two orders are the least for one to disturb the other; a crash and a refused
  statement at every point of a handler.  In `BillingRace` returns and checkouts overlap freely as
  long as nothing has failed; a crash or a refused statement befalls a request that is alone, and
  after it they come one at a time: what a failure leaves behind is met by whoever comes next, and `BillingRetry` has the overlap after a failure, with
  one order, because an order's events are its own.  There `PayAgain` is TRUE, an order AZUL declined
  may be paid later, and three returns let the decline be handled after the approval; in
  `BillingRace` AZUL decides an order once.
* **Account.**  Two browsers, so that there is an "other" session to revoke; three sessions, so
  that a successor exists beside both; two changes of credentials, so that the second meets what
  the first left.  One mishap, an overlap or a cut, at any statement of any request
  (`MaxMishaps`), and one lapse: a confirmation, a session or a token that expires, or a
  change of the status (`MaxLapses`).  One password is enough, as it is the era that tells credentials apart.
  Section 4 proves the same properties without these bounds.
* **Reminders.**  A day of three ticks (8 hours): the scheduled call, a morning and a noon hour.
  The look-back of 26 hours becomes 3 ticks, a day: the window is closed at both ends
  (`reminder-engine.ts:236`), so it still overlaps from call to call.  Months of two days, with a
  day 3 that both clamp; a month ahead of the clock, where the calendar ends.  A run works on the
  snapshot it read, so an edit is modelled before or after it, and time passes between runs.
* **Pages.**  Two debts are the least for an order of attack to matter; forty months let plans end,
  stall and outlive each other.  Three debts exceed what the free membership analyses (two).  Days
  28 to 71 put a payment on either side of every border of a week, of seven days and of a range.
  Two synchronisations or runs are the least that overlap, and two processes the least that do not
  see one another's promise; limits are scaled (`Scale`) so that a
  window fills within its ticks.  A screen gets one entry beyond what it was opened with and two
  requests, one of which may be another device's: the least for an answer to arrive under a later
  form.

`SYMMETRY` is used where the properties do not tell the elements apart, and never in the run
with a liveness property.  `CHECK_DEADLOCK FALSE` is stated for `Billing`, `Account`, `Reminders`,
`Dashboard` and `Pages`, which do stop in the model: their orders, codes, sessions, days, snapshots
and clicks are used up, and a schedule ends.  `Ledger` never stops (a refused request leaves every
variable as it is).

### Fairness

Only `BillingRetry` assumes any: weak fairness of each handler's own steps (a function that is
running and is not cut short gets to its next statement) and of `GoStale` (ten minutes pass).
Nothing is assumed of AZUL, of the browser, of checkouts or of failures: `ConfirmedInTheEnd` is
conditional on the return that *keeps coming* (the customer reloads the page, AZUL retries),
because the code has no job that looks for lost orders.  `SlowHandlers = TRUE` there lets a
claim go stale under a handler that is still at work; two handlers may then activate an order
twice, which is why `ActivatedOnce` belongs to `BillingRace`.

### What the violations mean

* **A payment is erased** (`payment-service.ts:118`): `createPayment` computes the new amounts
  from a debt read before the transaction.
* **Deletions leave no entry** (`debt-service.ts:371`, `payment-service.ts:345`): the entry names
  the row that has just been deleted, its foreign key refuses it, and the request answers an
  error although the deletion stands.  `SECURITY.md:18` promises the entry.
* **A checkout takes the membership away** (`billing-service.ts:308`): the status is read before
  the transaction that writes it.  `docs/BILLING_AZUL.md:15` promises the activation.
* **The last day of the month is forgotten** (`reminder-engine.ts:87`): occurrences are
  enumerated for the month of `now` and the next, so at 9:00 UTC on the first, when yesterday's
  reminder is within the window, its date is no longer enumerated.
* **The chart stops** (`dashboard-service.ts:65`): a snapshot is added for every change, and the
  dashboard takes the twelve oldest.  After the thirteenth change the chart is of the past for good.

### What overlapping requests cost

`BooksClose`, `KeepsTheBook` and `SnapshotIsCurrent` of `Ledger` hold one request at a time and not
otherwise, as `LedgerLostPayment` shows; `LedgerSerial` says so by its constant.

Everywhere else requests overlap, and a property that an overlap can break counts what it can break.
In `Account`: the reset token is checked before the transaction that spends it
(`auth-service.ts:474-485`), recovery codes are written back from the list that was read (`:269`,
`:388`), so one overlap gives one more use (`GoodForOnce`); a login in flight opens its session
after the others were revoked, so one overlap leaves one session more (`SessionsAreCurrent`,
`CallerAloneStays`); a set-up stored between the read and the store of a verification
(`settings-service.ts:577-606`) leaves a second factor in force whose secret nobody proved, which
`FactorIsUsable` names and exempts.  In `Notices` a crossing doubles an alert, in `Reminders` an
overlap repeats a mail.  `PaidMeansSettled`, `AuditTellsTheTruth`, `ActiveMeansPaid`,
`ProcessedMeansActivated`, `SentWasMailed` and those of the screens ask nothing of the kind.

### Divergences seen, and not made into runs

Documents:

* `SECURITY.md:19`, `:46` and `docs/STRIPE_SETUP.md` describe Stripe webhooks; the code uses
  AZUL's returns.  The customer portal is offered and always answers 501
  (`billing-service.ts:337-345`).
* The job's route exports `POST` and wants a secret in a header; `vercel.json` schedules its
  path.  The models take it that some scheduler does call it once a day.

Services:

* The plan's limit of active debts can be exceeded by two requests at once
  (`debt-service.ts:75`) and by deleting the payment that had settled a debt
  (`payment-service.ts:312`), which counts nothing.
* An abandoned annual checkout leaves a monthly member marked as annual
  (`billing-service.ts:312`), and no code ends a membership at `membershipCurrentPeriodEnd`.
* `updatePayment` answers with a row read after its transaction (`payment-service.ts:270`).
* Disabling a user deletes no session (`admin-service.ts:289`): enabling brings them back.
* The reply of the mail service is not read (`mail-service.ts:26-34`): a reminder or a digest that it
  refuses is marked as sent, and is never tried again.
* The promise and the cooldown of a synchronisation are kept per process
  (`notification-service.ts:32`): two processes create the same notice twice.
* Archiving a debt that was paid off erases the day it was (`debt-service.ts:325-326`).
* A decline or a cancellation that is handled after the approval of the same order overwrites its
  payment's `APPROVED` (`billing-service.ts:508`); the membership stays.
* Two requests at once may use one reset token or one recovery code, and verifying a second factor
  may enable one that another set-up has replaced meanwhile (above).
* A correction of a payment that names another debt is refused (`payment-service.ts:205-211`) after
  its rows were read and before anything is written; `Ledger` leaves it out, as it changes nothing.
* The notification centre announces the most recent alerts, and its query puts those already
  read first (`notification-service.ts:441-448`), so that with many rows the unread ones are cut.
  Reading all of them also reads those that are hidden.
* `getDebtSummary` counts archived debts.
* Several routes (onboarding, preview, password recovery, logout) check the origin outside their
  `try`, so a foreign origin is answered 500.  The proxy's internal fetch carries no client
  address.  The rate limit is per process and starts over with it.
* Requests that overlap the rotation of a session sign the browser out.  A stale session cookie
  ends in an error page where a component may not write cookies (`session.ts:359-361`); a demo
  cookie hides a real login (`session.ts:327-331`).
* Two tabs share the cookie of one passkey challenge, and the counter of a passkey may go backwards.

Forms (the lists `OnlyTheServer` and `OnlyTheScreen` of the module are of these):

* An empty list of reminder days, an avatar's length, the amounts and names of the wizard, and
  mail addresses whose last part is one letter: only the server refuses.  A recovery code: the screen is stricter.
* A debt paid below its stored minimum payment can no longer be saved or archived from the
  screen, because the minimum must not exceed the total; onboarding accepts such a minimum.
* `FIXED_NO_INTEREST` in the simulator still validates the rate it hides.

Screens:

* Payments: a preview with no split typed puts the whole amount on the principal, where the server
  takes interest first; on a correction it counts the payment twice; a refresh with `?debtId`
  replaces the chosen debt; a late deletion or success wipes what was typed meanwhile; "Pagar
  mínimo" may exceed the balance.  Deletions always answer an error (see the violations), so the
  screen is never refreshed after one.
* Debts: paid debts count toward the limit (`debt-manager.tsx:461`), and one may be shown as the
  most pressing; a preset chosen during a correction turns it into a new debt of the same name;
  archiving writes back the values of the page; bringing a debt back by editing it may be refused
  for a limit the screen never told of.
* Wizard: a fetch that throws leaves its button disabled until the page is loaded again; Enter in
  the only field of steps 2 and 4 submits the form.
* Settings: a confirmed action that was run again leaves its control disabled.  The membership page
  does not guard its own re-run, so a second checkout may start.

## 4. What is proved

`tlapm` checks the following for every value of the constants that the modules' `ASSUME`s admit:
any number of debts, payments, requests, orders, handlers, browsers, sessions and runs, any forms
and calendars, any bounds.

| Theorem | Module | Statement | Argument |
|---|---|---|---|
| `PartsFit` | `LedgerProofs` | each part of a payment fits in what is owed, the parts fit in the amount, and the principal a form names changes nothing | arithmetic on the four parts, from `RoundingBounds` (rounding is monotone, moves by less than a cent and keeps whole cents) |
| `AllocationTypes` | `LedgerProofs` | neither the debt a payment leaves nor its split is negative | `PartsFit` |
| `NothingRemains` | `LedgerProofs` | when the remainder told is zero, the rounded debt owes zero | the three rounded amounts are not negative and at most what they round |
| `TypeCorrect` | `LedgerProofs` | `Spec => []TypeOK` of `Ledger` | `TypeOK` is inductive: one lemma for the reads, one for each kind of commit, one for what follows the commit |
| `PaidIsSettled` | `LedgerProofs` | with forms in whole cents, `Spec => []PaidMeansSettled` | below |
| `LogIsTrue` | `LedgerProofs` | `Spec => []AuditTellsTheTruth`, whatever overlaps | below |
| `TotalTakes` | `SumProofs` | the sum of `MapThenSumSet` over a finite set of rows is that of any of them and of the rest | below |
| `KeepsItsBook` | `BookProofs` | one request at a time and payment forms in whole cents: `Spec => KeepsTheBook`, the refinement of `DebtBook` | below |
| `SnapshotsAreCurrent` | `BookProofs` | one request at a time: `Spec => SnapshotIsCurrent` | below |
| `BooksAreClosed` | `BookProofs` | one request at a time and payment forms in whole cents: `Spec => []BooksClose` | below |
| `BillingTyped` | `BillingProofs` | `Spec => []TypeOK` of `Billing` | `TypeOK` is inductive |
| `OnlyPaidIsActive`, `ProcessedIsActivated` | `BillingProofs` | `Spec => []ActiveMeansPaid`, `Spec => []ProcessedMeansActivated` | below |
| `ConfirmedUntilTheContrary` | `BillingProofs` | `Spec => ConfirmedUntilContradicted`, also where an order is paid after a decline | below |
| `ActivatesOnce` | `BillingProofs` | while AZUL decides an order once, no claim goes stale under a handler at work, and requests no longer overlap once one has failed: `Spec => []ActivatedOnce` | below |
| `AccountTyped` | `AccountProofs` | `Spec => []TypeOK` of `Account`, whatever overlaps | `TypeOK` is inductive: no request knows credentials, codes or sessions that were never issued |
| `SessionsStayCurrent`, `SpentOnce`, `FactorStaysUsable`, `CallerStaysAlone` | `AccountProofs` | `Spec => ...` of the four properties of `Account`, however requests overlap | below |
| `RemindersTyped` | `RemindersProofs` | `Spec => []TypeOK` of `Reminders` | `TypeOK`, and that the hour of a candidate is a moment |
| `SentIsMailed` | `RemindersProofs` | `Spec => []SentWasMailed` | below |
| `RemindedOnce` | `RemindersProofs` | `Spec => []OnceUnlessCut`, for any runs, failures and overlaps | below |
| `NothingUntold` | `RemindersProofs` | reminders are told no more days ahead than a month has: `Spec => LeavesNothingUntold` | below |
| `DailyCallTells` | `RemindersProofs` | the same, and a window that reaches back to the call before: `Spec => []ToldByTheDailyCall` | below |
| `PayingMoreIsSafe` | `AmortisationProofs` | the schedules of the simulator are typed, conserve money, and the one that pays more is never behind | below |
| `MorePaidIsAhead` | `PagesProofs` | `PagesSpec => []PayingMoreIsAhead` | the invariant of `AmortisationProofs`, in the composition |
| `RedirectsStop` | `PagesProofs` | `PagesSpec => []RedirectsEnd`, whatever `MaxHops` allows | below |
| `LateAnswersAreDropped`, `StreaksAreHeard` | `PagesProofs` | `PagesSpec => LatestReportShown`, `PagesSpec => []StreakIsHeard` | below |
| `LimitsAreKept` | `PagesProofs` | `PagesSpec => []LimitsHold`, for every limit, window and number of restarts | below |
| `SettingsAreShown`, `ControlsFreed` | `PagesProofs` | `PagesSpec => []SettingsTellTheTruth`, `PagesSpec => []ControlsAreFreed` | below |
| `NoticesAreSingle`, `DigestsAreMailedOnce` | `PagesProofs` | `PagesSpec => []OneNoticePerOccasion`, `PagesSpec => []DigestMailedOnce` | below |
| `UrgentNoticesLead` | `PagesProofs` | `PagesSpec => []UrgentNoticeLeads` | below |
| `MoneyIsKept`, `MinimumsTrail` | `PagesProofs` | `PagesSpec => []PlansConserve`, `PagesSpec => []AheadOfMinimum`, for any debts, rates, budgets and months | below |
| `AdviceIsBest` | `PagesProofs` | the recommended plan ends cheaper and sooner than its rivals with the same money, no later than the plan in use and, with the user's own budget, for no more interest | below |
| `UrgentIsShown` | `PagesProofs` | `PagesSpec => UrgentShown`, for any debts and membership | below |
| `FormVerdictsAgree` | `PagesProofs` | `PagesSpec => []VerdictsAgree`, for every cap on the amounts | below |
| `ScreensKeepTheirWord` | `PagesProofs` | `PagesSpec => PreviewsHold`, for any books, drafts and late answers, with amounts in whole cents | below |
| `PagesAreTyped` | `PagesProofs` | `PagesSpec => []PagesTyped`, the type invariants of the twelve modules behind the pages | below |

**PaidIsSettled.**  `PaidMeansSettled` is not inductive: an edit commits a row it made before it
looked at the limit, perhaps long before.  The invariant `SettledInv` adds `EditsSettled`, that
the row every debt request carries agrees with itself, and `TypeOK`.  A payment commit writes
amounts, status and settlement date from the same stale row, so they agree among themselves
whatever the table holds: that is what makes the theorem true in spite of the races, and it
rests on `NothingRemains`.  The hypothesis `WholeForms` is needed: with a fraction of a cent in
a debt form the status comes from an amount the columns do not keep, and a debt of 0.004 is
stored as 0.00 and CURRENT.

**LogIsTrue.**  An entry is written after the commit by a request that remembers what it did, and
others may have changed or deleted the row in between.  `AuditInv` adds to `TypeOK` and the
property that a request on its way to the log has committed what it is about to tell
(`HasCommitted`) and, if it is about a debt, carries its row (`CarriesARow`).  An entry once true
stays true because of `NothingComesBack`: no step undoes that a row was there, or brings back a
row that was deleted.

**KeepsItsBook.**  The theorem of refinement: the initial states map to initial states, and every
step of a ledger without overlap maps to a step of the book or to a stutter.  `BookInv` says what
makes the reads of a lone request current: the row it carries is the row in the table
(`ReadsTheRows`), the amounts it carries and those of the rows are whole cents (`CarriesCents`,
`RowsKept`), and a payment that is not there records nothing.  `PartsOfAWhole` is the arithmetic: of a payment in whole cents the
three rounded parts and the rounded remainder differ from the amount by one cent at most, which is
the `Slack` of the book.

**TotalTakes.**  `MapThenSumSet` adds the rows up in an order `CHOOSE` picks, by a function that is
defined recursively on the subsets of the set.  That there is one such function, only one, and that
its value does not depend on the order, are shown by a minimal counterexample: of the subsets of a
finite set that fail, one fails with no smaller one failing, because strict inclusion is well
founded there (`SmallestFailure`).  That takes the place of an induction, which the provers cannot
instantiate.

**SnapshotsAreCurrent, BooksAreClosed.**  Both are about sums.  `SumInv` says that a request about
to save its snapshot has summed the debts as they now are, which holds because nobody else commits
in between; a step that changes one row moves the sum by what that row moves.  `CloseInv` says that
there are finitely many live payments, that each is of a debt that is there, that `paid[d]` is the
sum of the parts of the payments on `d`, and that each debt is `Balanced`: what it owes and what was
paid add up to what was declared, or exceed it by half a cent at most for each payment recorded or
edited.  The step of a payment rests on the lemmas of `KeepsItsBook`; a debt's deletion takes its
payments along, so what remains of its sum is the empty one.

**OnlyPaidIsActive, ProcessedIsActivated.**  One invariant, `PaidInv`, carries both.  It follows an
approval from AZUL to the rows: every return that says approved is of an order AZUL approved
(`KnownToAzul`), a confirmed payment is of such an order (`Confirmed`), the active tier is that of a
confirmed order (`TierIsPaid`), a handler past the activation has activated (`OnItsWay`), and a
processed approval was acted upon (`ApprovalsActedUpon`).  There is no hypothesis on overlap: the
activation is one transaction that reads its own order, and neither a second handler nor a
checkout turns an activation back into a payment that was never made.

**ConfirmedUntilTheContrary.**  A payment that says `APPROVED` is written over by one statement only, the
one that rejects, and that one writes no more than the status of the payment.  `FinalInv` says that a
handler about to reject holds a return that was not of an approval (`RejectsOthers`: an approval that
lost its parameters is refused before) and that, where AZUL decides an order once, every return
tells what it decided (`OneOutcome`).  So what overwrites a confirmed payment is a decline or a
cancellation that AZUL did send of that order, and that only where an order may be paid after one:
returns of both kinds are then in the browser's history, and the older one, loaded again, is
believed.  No hypothesis is left; the statement itself says when.

**ActivatesOnce.**  The event row is a lock until something fails.  `OneByOne` says that, while nothing
has failed, one handler at most works on the approval of an order (`Locked`), and that afterwards
requests come alone (the hypothesis `Overlap # "always"`).  `Once` says that an activated order has
its payment confirmed, and that a handler about to activate has an order that was not: it read a
payment that was pending, and nobody else can have confirmed it since.  Without `~SlowHandlers` a
second handler takes a stale claim over from one that is about to activate, and both do.

**Account.**  There is no hypothesis on overlap.  A request begun while another is in flight adds one to
`overlaps`, and the invariants are counts that such a step alone can raise.

* *Requests* (`FewBusy`): no more are in flight than one and one for each overlap.
* *SessionsStayCurrent*, *CallerStaysAlone* (`SessionInv`).  As long as none was cut short, `FewLeft`
  counts the open sessions of older credentials that no change under way is about to close, together
  with the requests that may still store or open something: at most one more than the overlaps, and,
  once none of these requests knows the credentials in force, no more than the overlaps.  A change that
  raises the era leaves every other request behind, which the second count has room for; a request that
  opens a session turns from pending to left.  `FewBeside` does the same beside the session of a
  caller: what is open there and the other requests pending are no more than the overlaps, cut short
  or not.  The step of each operation is one of a few kinds (`Kinds`), by what it does to the request, the
  sessions and the era.
* *SpentOnce* (`UseInv`).  For a code or a token, `FewUses`: the times it was accepted, the requests
  about to accept it (`Claims`), and one if it is still good, or will be made good again by a list of codes
  that is written back late, are at most one and one for each overlap.
* *FactorStaysUsable* (`FactorInv`): a request that verifies and was not overtaken holds the secret
  that is stored and that the user has in the authenticator.

**SentIsMailed.**  An event is marked from the status a run holds, some steps after the mail.
`MailInv` adds `MarksWhatWasMailed` (a run about to mark `SENT` holds a reminder that was handed to
the mail service: taken, or refused in the reply that is not read) and the shape of `run` and `mails`; `OneReminderPerKey` says that a dedupe key names one
reminder whatever the hour it was scheduled for, so that storing a status speaks of no other.

**RemindedOnce.**  A mail more than one must be paid for by a failure or an overlap.  `CostInv`
counts the mails of a reminder so far and the runs that may yet send another against the failures
and overlaps there were: together they are at most one more, unless the event says `SENT`, which
whoever still comes will read.  A run that finds no event creates it, and the unique key stops
whoever read the same absence; one that finds `FAILED` tries again, and a failure had made it so.

**NothingUntold, DailyCallTells.**  `UntoldInv` says that whatever a clean run ought to tell is on
its list, or behind it and handed over, taken or refused in the unread reply.  That it was listed at all (`OwedIsListed`) is a fact about the calendar: the
code enumerates the month it is and the next, so a date must not lie beyond the next month when its
reminder is due.  `ShortNotice`, no more days ahead than any whole month has, is what makes it so:
the page offers five, two and none, but `normalizeReminderDays` (`src/config/reminders.ts:38`) lets
up to 30 through, and one told 29 or 30 days ahead across February is not enumerated.  `DailyInv`
adds that while nothing failed and no run overlapped another (`Undisturbed`), the first call after
a reminder came due has it on its list, and when that call is past it was mailed.  `WideWindow`,
a look-back of a day, is implied by `REMINDER_LOOKBACK_HOURS`, which is 26.  Both theorems speak of
reminders until the month of their date is over (`InItsMonth`): after it `NothingForgotten` is violated.

**PayingMoreIsSafe.**  `Spec => [](TypeOK /\ ScheduleConserves /\ PayingMoreNeverHurts)`, for every
form, rate and number of periods.  Each schedule satisfies `Sound` (its balance, interest and
payments agree to the cent), and of two schedules the one that pays more `Leads` the other.  The
step from one period to the next rests on the rounded interest being monotone in the balance and
on a balance plus its rounded interest being monotone too: without the second, half a cent gained
in one period could have been lost for good.

**Pages.**  `PageMoves` says that a page, once open, stays open, and that a step of the composition
is one of its module; each theorem then needs the invariant of one module only.  Nothing is assumed
of the sets of inputs but what the `ASSUME`s of `Pages` say: what is stored is of its type, the
bounds are numbers.

* *RedirectsStop.*  `AccessInv` says where a redirect leads: after the first the browser is at a
  page that redirects no more for the session, onboarding and host cookie it has (`Final`), or at
  `/login` or `/host`, which redirect once more at most; after the second it is at a final one.
* *LateAnswersAreDropped.*  Only the report that was asked for last is awaited: a new question is
  refused while one is in flight.  *StreaksAreHeard* needs only that days are numbers: a
  streak begins with a payment in the calendar week of today, which is less than seven days ago.
* *LimitsAreKept.*  Sums of requests over stretches of time.  The invariant says that an entry counts
  what came since it was opened, the first of them when it was (`FirstOpens`); that the stretch up to
  now holds one whole entry of each process, less the request that opened the oldest, and what the
  entry counts (`Carried`); that whoever is turned away found the limit spent (`TurnedAway`); and it
  keeps the bound of every earlier stretch (`Earlier`).  `SumProofs` moves the ends of a stretch.
* *SettingsAreShown, ControlsFreed.*  While no answer was lost and no calls overlapped, at most one
  slot is busy (`OneAtATime`), and what the page shows, or will show when the accepted answer
  arrives, agrees with what is stored (`AgreeInv`); a control is off because a call of its kind is
  busy, or because it was run again (`FreedInv`).  In the wizard a control is off only between
  its request and the answer (`WizardInv`).
* *NoticesAreSingle.*  `Count` says, of each alert, that its doubled notices and the
  synchronisations that have it before them are at most one more than the crossings, and that,
  while a recent notice of it is there, the doubled ones and the synchronisations that found none are no
  more than the crossings.  A crossing alone adds a synchronisation; one that finds a notice stops
  counting, and one that creates a second turns into a doubled notice.
* *DigestsAreMailedOnce.*  `DigestInv` counts mails against cuts, and adds the runs that hold the row
  in hand between picking and mailing; a row is marked by a run that has handed it over.
* *UrgentNoticesLead.*  The weights of an urgent row add up to 165 at least, those of any other to 145
  at most, and a finite set of rows has one of the highest score.
* *MoneyIsKept.*  A month takes each debt from what is owed to what is due of it (interest and
  charges added) and from there to what is left after the payments, and each of the two is a sum over
  the debts: `DueAddsUp` and `PaidMonthKeeps`, on `TotalAdds` of `SumProofs`.  The charge of a month
  is counted up to the month a debt was paid off, so the invariant adds that a debt has such a month
  exactly when nothing of it is owed (`Dated`).
* *MinimumsTrail.*  Of two plans, more is due of a debt of which more was owed (`DueGrows`: rounded
  interest is monotone), and a month of the minimums pays of each debt no more than its minimum, which every
  other plan that runs pays first: whatever is left of the budget only widens the lead (`AheadStep`).
* *AdviceIsBest.*  Plans are compared by months before interest; that the sooner one is the cheaper
  too is a matter of counting.  A plan that still owes something has paid its whole budget every
  month (`BudgetIsSpent`): the minimums and, poured into the debts in a strict order, all that is
  left, or all they take (`Pouring`, `AheadIsAnOrder`).  So a plan that ended in m months paid more than m - 1
  budgets and at most m (`Spent`), and what it paid beyond what was owed is its interest, by the
  invariant of `MoneyIsKept`.  Hence, with no more money, fewer months are less interest, and with no
  less money, no more interest is no more months (`SoonerIsCheaper`).  `Best` picks a plan that no other is
  better than (`BestIsBest`), and once an advice is given no plan moves (`AdviceInv`).  This is
  `RecommendedIsSafe` but for one case, an advice with the suggested extra: it ends no later than
  the plan in use, and sooner or for less interest (`Improves`); that it costs no more interest when it
  ends sooner is checked only.
* *UrgentIsShown.*  The order the query lists debts in, the order they are ranked in for the analysis
  and the order of urgency are strict, and the first two never put a debt before one that is sooner.
  Of finitely many debts one is first (`SomeIsFirst` of `SumProofs`), and the first in rank is
  analysed because every membership analyses one at least.
* *FormVerdictsAgree.*  One lemma for each form: for every `FieldCap` the rule of the screen and the
  rule of the schema agree on every value of every field, but for the differences listed.

* *ScreensKeepTheirWord.*  One invariant for each of the three screens, `ScreensInv`.  *Payments*
  (`DeskInv`): every payment on the page was posted and is of the debt the page lists it under, a
  correction is about such a payment and the debt in the form is its debt, and a request announces what would be
  left of the row the announcement was made from; the split of the screen and the one of the
  server differ by the cent that is tolerated (`PaymentTakes`, `PaymentGivesBack`).  *Debts* (`DebtsInv`): a new debt is sent only while the list it was filled in under was below
  its limit, and an archiving request holds the values of the debt it names, so that only the status and the settlement date are left to differ.  *Wizard* (`PreviewInv`): the plan
  shown, and the one asked for, is of the debts and the income of the draft.
* *PagesAreTyped.*  `PagesKnown` gathers the invariants above and adds what types need beyond them:
  a cookie and a user the checks can meet (`AccessTyped`), rows born on a day of the calendar (`NoticesKnown`), calls of a
  kind that was asked for (`SettingsKnown`), changes that are counted (`FormKnown`), months and payments
  within their bounds (`PlannerKnown`).  The bounds enter as `BoundsAssumption`.

What the `ASSUME`s of `Pages` ask, beyond types: `DeskAssumption`, that amounts stored and typed are
whole cents, as the columns (`@db.Decimal(14, 2)`) and the fields of the payment form
(`step="0.01"`, `payment-manager.tsx:677-736`) have it; with fractions of a cent a preview could
differ by more than the cent that is tolerated.  `RankingAssumption`, that the weights of the
hybrid order are not negative and that the query lists the debts one after another, which decides
between two debts of equal score and date.

**Only model-checked**, of the safety properties: `RecommendedIsSafe` for an advice with the suggested extra, and
`SavingsAreReal`.  Both compare plans of different budgets or rates that were carried to their ends,
and an order of attack that weighs balances beside rates need not be the same in both.
`SavingsAreReal` is true of the debts of the run and of no more than that: debts of 30 and 28 at 8 %
a month with minimums of 10 and 1, a budget of 18 and an extra of 1 end with an interest of 8 instead
of 7, because each month's interest is rounded to whole units.  The code keeps twenty digits
until it sums up, so there the difference is far below a cent; no example with an effect beyond
the rounding is known.  Out of
the prover's reach, and so of TLC alone: liveness under fairness (`ConfirmedInTheEnd`), `ENABLED`,
induction over data (what a plan of the planner comes to after all its months) and recursive
operators.

## 5. What is not modelled

* Strings, names, wording, formatting, mail templates and the shapes of answers; encryption,
  password hashing and signatures, which are taken to work.
* Isolation below READ COMMITTED: a transaction is atomic, and its own reads happen at once.
* The demo ledger, which answers from cookies when the database is unreachable or the user
  asked for it; two requests of one browser overwrite each other's cookie
  (`lib/demo/payments.ts:162`), and its data is disposable.
* Passkeys as credentials: enrolment and removal are in `SettingsPanel`; the login with one, its
  challenge and the signature counter are not.
* The plan's limit as a property: its count, the insert and the reopening are steps of `Ledger`,
  but the code keeps no limit that a property could state (see the divergences).
* Exports and what the dashboard and membership pages draw: text and charts made of what
  `Dashboard`, `Reports`, `Planner` and `Membership` hold, with no state of their own beyond which
  panel is open.
* Public pages, telemetry, configuration, seeds and deployment scripts: constants and I/O.

## 6. Plan

Done, in the order of the plan:

1. `PaymentAllocation`, `Ledger`, `DebtBook`: the money; types, settlement, the log and the
   refinement proved.
2. `Billing`: returns that repeat, crash and go stale; all of its safety proved.
3. `Account`: credentials and sessions; its properties proved however requests overlap.
4. `Reminders`, `Notices`: the calendar, the daily job, the digest; all of their safety proved.
5. `Membership`, `Amortisation`, `Planner`, `Dashboard`, `Reports`: what is computed and what of it
   is seen.
6. `Access`, `Gates`, `SettingsPanel`, `Forms`, `PaymentDesk`, `DebtDesk`, `Wizard`: what stands
   between a browser and the services; all of its safety proved in the composition, `Pages`.

Left:

7. `DemoLedger` over the same `PaymentAllocation`, with the cached availability of the database.
8. The login with a passkey beside `Account`: challenge, counter, two tabs.
9. Exports and the membership page's re-run of a checkout.
10. Proofs: of `SavingsAreReal` and of an advice with the suggested extra, what does not depend on the
    rounding of the amounts; the refinement of the screens by the services they call.
