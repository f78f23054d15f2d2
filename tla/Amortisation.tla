--------------------------- MODULE Amortisation ---------------------------
(* The single-debt simulator, src/src/lib/simulator/simulate-debt.ts: the   *)
(* scenarios BASE, EXTRA and AGGRESSIVE of one form, advanced in lockstep   *)
(* one payment period a step, then compared, then cut down to what the      *)
(* reader's plan may see.  Amounts are cents and the interest of a period   *)
(* is rounded half up to the cent, as in the code.                          *)
EXTENDS Integers

CONSTANTS Forms,       \* the forms that may be submitted, each in Form
          RateDen,     \* a period rate of r is r / RateDen
          MaxPeriods,  \* fifty years of periods
          Dust,        \* the balance that counts as paid: one cent
          Accesses        \* what each membership may see, see Access

Form == [principal : Nat, payment : Nat, extra : Nat, rate : Nat]
Access == [compare : BOOLEAN, savings : BOOLEAN, extra : BOOLEAN, recommended : BOOLEAN]

ASSUME AmortisationAssumption ==
  /\ Forms \subseteq Form /\ Accesses \subseteq Access
  /\ RateDen \in Nat \ {0} /\ MaxPeriods \in Nat /\ Dust \in Nat

VARIABLES form,   \* the submitted form
          run,    \* scenario -> where its schedule stands
          shown   \* the result as the reader gets it, or Nothing

vars == <<form, run, shown>>

Scenarios == {"BASE", "EXTRA", "AGGRESSIVE"}
Outcomes == {"running", "feasible", "invalid", "below_interest", "too_long"}
Refused == {"invalid", "below_interest"}
Nothing == [recommended |-> "none", extra |-> "none", aggressive |-> FALSE, saved |-> 0]

HalfUp(n, d) == (2 * n + d) \div (2 * d)
InterestOn(b) == HalfUp(b * form.rate, RateDen)

\* Mutant: the extra is taken for the whole payment.
Payment_ExtraOnly(s) ==
  CASE s = "BASE" -> form.payment
    [] s = "EXTRA" -> form.extra
    [] OTHER -> form.payment + 2 * form.extra

\* buildScenarioPayment: the aggressive payment adds twice the extra or half the base.
Payment(s) ==
  CASE s = "BASE"  -> form.payment
    [] s = "EXTRA" -> form.payment + form.extra
    [] OTHER -> form.payment + (IF 4 * form.extra >= form.payment THEN 2 * form.extra
                                ELSE HalfUp(form.payment, 2))

\* The checks simulateScenario makes before the first period.
Opening(f, pay) ==
  [balance |-> f.principal, paid |-> 0, interest |-> 0, periods |-> 0,
   outcome |-> IF f.principal = 0 \/ pay = 0 THEN "invalid"
               ELSE IF f.rate > 0 /\ pay <= HalfUp(f.principal * f.rate, RateDen)
                    THEN "below_interest" ELSE "running"]

Period(r, pay) ==
  LET interest == InterestOn(r.balance)
      due == r.balance + interest
      actual == IF pay <= due THEN pay ELSE due
  IN  IF r.outcome # "running" THEN r
      ELSE IF r.periods >= MaxPeriods THEN [r EXCEPT !.outcome = "too_long"]
      ELSE IF actual <= interest THEN [r EXCEPT !.outcome = "below_interest"]
      ELSE [balance |-> due - actual, paid |-> r.paid + actual,
            interest |-> r.interest + interest, periods |-> r.periods + 1,
            outcome |-> IF due - actual <= Dust THEN "feasible" ELSE "running"]

-----------------------------------------------------------------------------
Feasible(s) == run[s].outcome = "feasible"

\* buildSimulatorRecommendation: the cheaper of the two accelerated scenarios,
\* then the shorter, then EXTRA.
Recommended ==
  LET e == run["EXTRA"]
      a == run["AGGRESSIVE"]
      aggressiveWins == \/ ~Feasible("EXTRA")
                        \/ a.interest < e.interest
                        \/ a.interest = e.interest /\ a.periods < e.periods
  IN  IF ~Feasible("EXTRA") /\ ~Feasible("AGGRESSIVE") THEN "none"
      ELSE IF Feasible("AGGRESSIVE") /\ aggressiveWins THEN "AGGRESSIVE" ELSE "EXTRA"

InterestSaved == IF Feasible("BASE") /\ Feasible("EXTRA")
                 THEN run["BASE"].interest - run["EXTRA"].interest ELSE 0

\* filterSimulationByAccess: a reader who may not compare sees the base twice.
Filtered(access) ==
  [recommended |-> IF access.recommended THEN Recommended ELSE "none",
   extra |-> IF access.compare /\ access.extra THEN "EXTRA" ELSE "BASE",
   aggressive |-> access.compare /\ access.extra /\ form.payment + form.extra > 0,
   saved |-> IF access.savings THEN InterestSaved ELSE 0]

-----------------------------------------------------------------------------
Init == /\ form \in Forms /\ shown = Nothing
        /\ run = [s \in Scenarios |-> Opening(form, Payment(s))]

NextPeriod == /\ \E s \in Scenarios : run[s].outcome = "running"
              /\ run' = [s \in Scenarios |-> Period(run[s], Payment(s))]
              /\ UNCHANGED <<form, shown>>

Show == /\ \A s \in Scenarios : run[s].outcome # "running"
        /\ shown = Nothing
        /\ \E access \in Accesses : shown' = Filtered(access)
        /\ UNCHANGED <<form, run>>

Next == NextPeriod \/ Show
Spec == Init /\ [][Next]_vars

-----------------------------------------------------------------------------
TypeOK ==
  /\ form \in Form
  /\ run \in [Scenarios -> [balance : Nat, paid : Nat, interest : Nat,
                            periods : Nat, outcome : Outcomes]]
  /\ shown \in [recommended : Scenarios \cup {"none"}, extra : Scenarios \cup {"none"},
                aggressive : BOOLEAN, saved : Int]

\* No cent is made or lost: at every period the principal and the interest are
\* what was paid and what is still owed (the cent of Dust included).
ScheduleConserves == \A s \in Scenarios :
  form.principal + run[s].interest = run[s].paid + run[s].balance

\* Paying more never leaves a scenario behind one that pays less: it is never
\* longer in force, it owes no more until it is done, and it has accrued no more
\* interest.  This is what makes interestSaved and monthsSaved savings.
Ahead(t, s) ==
  /\ run[t].outcome = "feasible" \/ run[t].balance <= run[s].balance
  /\ run[t].interest <= run[s].interest
  /\ run[t].periods <= run[s].periods
PayingMoreNeverHurts ==
  /\ run["BASE"].outcome \notin Refused => Ahead("EXTRA", "BASE")
  /\ run["EXTRA"].outcome \notin Refused => Ahead("AGGRESSIVE", "EXTRA")
  /\ shown.saved >= 0

=============================================================================
