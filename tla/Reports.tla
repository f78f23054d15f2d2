------------------------------- MODULE Reports -------------------------------
(* What a user's payments tell: the report of a range of days and its        *)
(* comparison with the days before it (report-service.ts), the panel that     *)
(* asks for it (reports-panel.tsx, app/api/reports), and the habits the       *)
(* dashboard reads from the same payments (dashboard-service.ts).  A payment  *)
(* is dated at midnight of its day; the clock stands at noon; instants are    *)
(* counted in half days and day 0 is a Monday.                                *)
EXTENDS Integers, FiniteSets, FiniteSetsExt, Membership

CONSTANTS Debts,          \* the debts payments go to; a debt is its own category
          Entries,        \* the payments that may be recorded, each in Entry
          Ranges,         \* the ranges the date fields may be given
          FirstDay, LastDay, MaxPayments, \* bounds
          PaymentsTaken   \* payments: { take: 40 }

Entry == [day : Nat, debt : Debts, principal : Nat, cost : Nat]

VARIABLES payments, today, tier,
          fields,    \* the range in the date fields
          asked,     \* the range of the last reload
          inFlight,  \* the ranges asked for and not answered
          summary,   \* the report on the screen
          refusal    \* the last toast

vars == <<payments, today, tier, fields, asked, inFlight, summary, refusal>>

access == featureAccess(tier, IF tier = "FREE" THEN "FREE" ELSE "ACTIVE")
Paid(S) == MapThenSumSet(LAMBDA p : p.principal + p.cost, S)
Principal(S) == MapThenSumSet(LAMBDA p : p.principal, S)
Rounded(n, d) == (2 * n + d) \div (2 * d)   \* Math.round
Share(part, S) == IF Paid(S) > 0 THEN Rounded(part * 100, Paid(S)) ELSE 0

-----------------------------------------------------------------------------
(* The report.                                                               *)

In(from, to) == {p \in payments : from <= p.day /\ p.day <= to}

Read(S) ==
  [count |-> Cardinality(S), paid |-> Paid(S), principal |-> Share(Principal(S), S),
   cost |-> Share(Paid(S) - Principal(S), S),
   byDebt |-> [d \in Debts |-> Paid({p \in S : p.debt = d})]]

\* buildReportInsights
Progress(S) == IF S = {} THEN "STARTING"
               ELSE IF 2 * Principal(S) > Paid(S) /\ Read(S).principal >= 70 THEN "STRONG"
               ELSE "WATCH"

\* buildReportComparison; a now, b before.
Comparison(a, b) ==
  LET principal == a.principal - b.principal
      paid == IF b.paid > 0 THEN Rounded((a.paid - b.paid) * 100, b.paid) ELSE 0
  IN  CASE a.count = 0 /\ b.count = 0 -> "NO_BASELINE"
        [] a.count > 0 /\ b.count = 0 -> "IMPROVING"
        [] a.count = 0 /\ b.count > 0 -> "REGRESSION"
        [] a.count > 0 /\ b.count > 0 /\
           (principal >= 8 \/ (principal >= 4 /\ paid >= 10)) -> "IMPROVING"
        [] OTHER -> IF principal <= -8 \/ a.cost - b.cost >= 8 \/ paid <= -20
                    THEN "REGRESSION" ELSE "STABLE"

getReportSummary(from, to) ==
  LET days == Max({to - from + 1, 1})
      previousTo == from - 1
      before == In(previousTo - (days - 1), previousTo)
  IN  [from |-> from, to |-> to, now |-> Read(In(from, to)), before |-> Read(before),
       progress |-> Progress(In(from, to)),
       signal |-> Comparison(Read(In(from, to)), Read(before))]

-----------------------------------------------------------------------------
(* The habits of the dashboard, from the newest payments only.               *)

Now == 2 * today + 1
Newest == {p \in payments : Cardinality({q \in payments : q.day > p.day}) < PaymentsTaken}
Week(day) == day \div 7
Streak == LET paid == {Week(p.day) : p \in Newest}
          IN  Max({n \in 0 .. Week(today) + 1 : \A k \in 0 .. n - 1 : Week(today) - k \in paid})
Window(from, to) == Paid({p \in Newest : Now + 2 * from <= 2 * p.day /\ 2 * p.day < Now + 2 * to})

\* Mutant: the prompt looks five days back.
ReviewPrompt_FiveDays == \A p \in Newest : 2 * p.day < Now - 10

ReviewPrompt == \A p \in Newest : 2 * p.day < Now - 14
Momentum ==
  LET recent == Window(-30, 0)
      previous == Window(-60, -30)
  IN  CASE recent > previous /\ previous > 0 -> "better"
        [] recent > 0 /\ previous = 0 -> "started"
        [] recent = 0 -> "nothing"
        [] OTHER -> IF recent < previous THEN "slower" ELSE "kept"

-----------------------------------------------------------------------------
(* The panel.                                                                *)

Init == /\ payments = {} /\ today = FirstDay /\ tier \in Tiers
        /\ fields = <<FirstDay, FirstDay>> /\ asked = fields /\ inFlight = {}
        /\ summary = getReportSummary(FirstDay, FirstDay) /\ refusal = "none"

RecordPayment == \E e \in Entries :
  /\ e \notin payments /\ Cardinality(payments) < MaxPayments
  /\ payments' = payments \cup {e}
  /\ UNCHANGED <<today, tier, fields, asked, inFlight, summary, refusal>>

NextDay == /\ today < LastDay /\ today' = today + 1
           /\ UNCHANGED <<payments, tier, fields, asked, inFlight, summary, refusal>>

SetFields == \E r \in Ranges :
  /\ r # fields /\ fields' = r
  /\ UNCHANGED <<payments, today, tier, asked, inFlight, summary, refusal>>

\* Mutant: the button may be pressed while a report is awaited.
CanReload_Always == TRUE

\* The button is disabled while a report is awaited.
CanReload == inFlight = {}
Reload ==
  /\ CanReload /\ UNCHANGED <<payments, today, tier, fields, summary>>
  /\ \/ /\ fields[1] > fields[2] /\ refusal' = "backwards" /\ UNCHANGED <<asked, inFlight>>
     \/ /\ fields[1] <= fields[2] /\ ~isReportRangeAllowed(access, fields[1], fields[2])
        /\ refusal' = "range" /\ UNCHANGED <<asked, inFlight>>
     \/ /\ fields[1] <= fields[2] /\ isReportRangeAllowed(access, fields[1], fields[2])
        /\ asked' = fields /\ inFlight' = inFlight \cup {fields} /\ refusal' = "none"

\* The service looks at the membership again: it may have lapsed meanwhile.
ReportAnswered == \E r \in inFlight :
  /\ isReportRangeAllowed(access, r[1], r[2])
  /\ summary' = getReportSummary(r[1], r[2])
  /\ inFlight' = inFlight \ {r}
  /\ UNCHANGED <<payments, today, tier, fields, asked, refusal>>

ReportFailed == \E r \in inFlight :
  /\ inFlight' = inFlight \ {r} /\ refusal' = "failed"
  /\ UNCHANGED <<payments, today, tier, fields, asked, summary>>

Lapse == /\ tier # "FREE" /\ tier' = "FREE"
         /\ UNCHANGED <<payments, today, fields, asked, inFlight, summary, refusal>>

Next == RecordPayment \/ NextDay \/ SetFields \/ Reload \/ ReportAnswered \/ ReportFailed \/ Lapse
Spec == Init /\ [][Next]_vars
-----------------------------------------------------------------------------
TypeOK ==
  /\ payments \subseteq Entry /\ today \in FirstDay .. LastDay /\ tier \in Tiers
  /\ fields \in Nat \X Nat /\ asked \in Nat \X Nat /\ inFlight \subseteq Nat \X Nat
  /\ summary.signal \in {"NO_BASELINE", "IMPROVING", "REGRESSION", "STABLE"}
  /\ summary.progress \in {"STARTING", "WATCH", "STRONG"}
  /\ refusal \in {"none", "backwards", "range", "failed"}

\* An answer that comes late never replaces the report of a later question: what
\* an answer puts on the screen is the range asked for last.
ShownIsLastAsked == [][ReportAnswered => <<summary'.from, summary'.to>> = asked]_vars

\* A week with a payment is never met with the advice to get back to the plan: the
\* streak counts calendar weeks, the prompt seven times twenty-four hours back.
StreakNeedsNoPrompt == Streak > 0 => ~ReviewPrompt
=============================================================================
