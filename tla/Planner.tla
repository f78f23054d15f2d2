------------------------------ MODULE Planner ------------------------------
(* The repayment planner: src/src/server/planner/strategy-engine.ts computes *)
(* one plan month by month, plan-optimization.ts compares three orders with  *)
(* and without a suggested extra, simulator-service.ts asks for what-if      *)
(* plans.  Here every plan of one request advances in lockstep, one month a  *)
(* step, so that plans can be compared at the same month.  Amounts are whole *)
(* units and the month's interest is rounded down.                           *)
EXTENDS Integers, FiniteSets, FiniteSetsExt

CONSTANTS Portfolios,    \* the sets of debts a user may hold, see Debt
          Debts, Index,  \* names, and their order in the query's answer
          Budgets,       \* the monthly budgets a user may have set
          Extra, Stopped, BetterRate, \* the simulator's what-if inputs
          RateDen,       \* a rate of r is r / RateDen a month
          MaxMonths, RateWeight, BalanceWeight,
          BoostFloor, BoostStep, BoostCap

VARIABLES debts,   \* the working debts: terms that no month changes
          budget, current, focus, \* the user's budget, strategy, chosen debt
          plan,    \* plan name -> where its simulation stands
          advice   \* the comparison the dashboard shows, or NoAdvice

vars == <<debts, budget, current, focus, plan, advice>>

Strategies == {"AVALANCHE", "SNOWBALL", "HYBRID"}
Boosted == [AVALANCHE |-> "avalanche+", SNOWBALL |-> "snowball+", HYBRID |-> "hybrid+"]
WhatIfs == {"extra", "focused", "charged", "refinanced"}
Plans == {"minimum"} \cup Strategies \cup {Boosted[s] : s \in Strategies} \cup WhatIfs

Debt == [owed : Nat \ {0}, minimum : Nat, rate : Nat, due : Nat]
NoAdvice == [strategy |-> "none", plan |-> "none", boosted |-> FALSE]

Total(f, S) == MapThenSumSet(LAMBDA d : f[d], S)
Lesser(a, b) == IF a <= b THEN a ELSE b
Greater(a, b) == IF a <= b THEN b ELSE a

\* What the minimums of the debts S come to when they owe owed.
MinimumDue(owed, S) == Total([d \in Debts |-> Lesser(owed[d], debts[d].minimum)], S)
Owed0 == [d \in Debts |-> debts[d].owed]
Selected(asked) == Greater(asked, MinimumDue(Owed0, Debts))

SuggestedExtra ==
  LET min == MinimumDue(Owed0, Debts)
      raw == Greater(BoostFloor * 100, min * 12)
  IN  IF min = 0 THEN 0
      ELSE Lesser(((raw + BoostStep * 100 - 1) \div (BoostStep * 100)) * BoostStep, BoostCap)

\* The request each plan is computed from.
StrategyOf(p) == IF p \in Strategies THEN p
                 ELSE IF \E s \in Strategies : p = Boosted[s]
                      THEN CHOOSE s \in Strategies : p = Boosted[s]
                      ELSE current
\* Mutant: the extra replaces the budget.
BudgetOf_ExtraAlone(p) == IF p = "extra" THEN Extra ELSE budget

BudgetOf(p) == CASE p \in {Boosted[s] : s \in Strategies} -> Selected(budget) + SuggestedExtra
                 [] p = "extra" -> budget + Extra
                 [] OTHER       -> budget
ChargeOf(p, d) == IF p = "charged" /\ d = focus THEN Stopped ELSE 0
RateOf(p, d) == IF p = "refinanced" /\ d = focus THEN BetterRate ELSE debts[d].rate
FocusOf(p) == IF p = "focused" THEN {focus} ELSE {}

-----------------------------------------------------------------------------
(* The order in which what is left of the budget attacks the debts.          *)

\* buildStrategyScore, multiplied out by the two maxima it divides by.
Score(p, owed, active, d) ==
  LET maxRate == Max({RateOf(p, e) : e \in active} \cup {1})
      maxOwed == Max({owed[e] : e \in active} \cup {1})
      rate == RateOf(p, d) * maxOwed
      size == (maxOwed - owed[d]) * maxRate
  IN  CASE StrategyOf(p) = "AVALANCHE" -> rate * 100 + size
        [] StrategyOf(p) = "SNOWBALL"  -> size * 100 + rate
        [] OTHER -> rate * RateWeight + size * BalanceWeight

DueFirst(d, e) == \/ debts[d].due # 0 /\ debts[e].due = 0
                  \/ debts[d].due # 0 /\ debts[d].due < debts[e].due

Ahead(p, owed, active, d, e) ==
  LET sd == Score(p, owed, active, d)
      se == Score(p, owed, active, e)
      sameDue == ~DueFirst(d, e) /\ ~DueFirst(e, d)
      sameFocus == (d \in FocusOf(p)) = (e \in FocusOf(p))
  IN  \/ ~sameFocus /\ d \in FocusOf(p)
      \/ sameFocus /\ sd > se
      \/ sameFocus /\ sd = se /\ DueFirst(d, e)
      \/ sameFocus /\ sd = se /\ sameDue /\ Index[d] < Index[e]

-----------------------------------------------------------------------------
(* One month of one plan.                                                    *)

Start == [owed |-> Owed0, paid |-> 0, interest |-> 0, months |-> 0,
          outcome |-> "running", payoff |-> [d \in Debts |-> 0]]

Active(r) == {d \in Debts : r.owed[d] > 0}

Interest(p, d, owed) == (owed * RateOf(p, d)) \div RateDen
WithInterest(p, r) ==
  [d \in Debts |-> IF d \in Active(r)
                   THEN LET o == r.owed[d] + ChargeOf(p, d) IN o + Interest(p, d, o)
                   ELSE 0]
\* Mutant: the interest is counted on the balance before the month's charge.
InterestOf_Uncharged(p, r) ==
  Total([d \in Debts |-> Interest(p, d, r.owed[d])], Active(r))

InterestOf(p, r) ==
  Total([d \in Debts |-> Interest(p, d, r.owed[d] + ChargeOf(p, d))], Active(r))

\* Mutant: the budget goes to the debts in order, no minimum kept back.
AfterPayments_NoReserve(p, r, due, money) ==
  LET before(d) == {e \in Active(r) : Ahead(p, r.owed, Active(r), e, d)}
  IN  [d \in Debts |-> due[d] - Lesser(due[d], Greater(money - Total(due, before(d)), 0))]

\* Mutant: a minimum is paid in full to a debt that owes less.
AfterPayments_Overdrawn(p, r, due, money) ==
  [d \in Debts |-> IF d \in Active(r) THEN due[d] - debts[d].minimum ELSE 0]

\* What is owed once the minimums and then the rest of the budget are paid.
AfterPayments(p, r, due, money) ==
  LET left == money - MinimumDue(due, Active(r))
      rest == [d \in Debts |-> Greater(due[d] - debts[d].minimum, 0)]
      before(d) == {e \in Active(r) : Ahead(p, r.owed, Active(r), e, d)}
  IN  [d \in Debts |->
         rest[d] - Lesser(rest[d], Greater(left - Total(rest, before(d)), 0))]

Pay(p, r) ==
  LET due == WithInterest(p, r)
      needed == MinimumDue(due, Active(r))
      money == IF p = "minimum" THEN needed ELSE Selected(BudgetOf(p))
      after == AfterPayments(p, r, due, money)
      accrued == [r EXCEPT !.months = @ + 1, !.interest = @ + InterestOf(p, r)]
  IN  IF money < needed
      THEN [accrued EXCEPT !.owed = due, !.outcome = "budget_below_minimum"]
      ELSE [accrued EXCEPT
              !.owed = after,
              !.paid = @ + Total(due, Active(r)) - Total(after, Active(r)),
              !.payoff = [d \in Debts |-> IF d \in Active(r) /\ after[d] = 0
                                          THEN r.months + 1 ELSE @[d]],
              !.outcome = IF /\ Total(after, Debts) >= Total(r.owed, Debts)
                             /\ money <= needed
                          THEN "non_amortizing" ELSE "running"]

Month(p, r) ==
  CASE r.outcome # "running"  -> r
    [] r.outcome = "running" /\ r.months >= MaxMonths ->
         [r EXCEPT !.outcome = "max_months_reached"]
    [] r.outcome = "running" /\ r.months < MaxMonths /\ Active(r) = {} ->
         [r EXCEPT !.outcome = "feasible"]
    [] OTHER -> Pay(p, r)

-----------------------------------------------------------------------------
(* The comparison of the plans.                                              *)

Feasible(p) == plan[p].outcome = "feasible"
Remaining(p) == IF Feasible(p) THEN 0 ELSE Total(plan[p].owed, Debts)

\* Mutant: the comparison is the wrong way round.
Better_Swapped(p, q) == Feasible(p) /\ Feasible(q) /\ plan[p].interest > plan[q].interest

Better(p, q) ==   \* compareSimulationSummary < 0
  \/ Feasible(p) /\ ~Feasible(q)
  \/ Feasible(p) /\ Feasible(q) /\ plan[p].months < plan[q].months
  \/ /\ Feasible(p) = Feasible(q)
     /\ Feasible(p) => plan[p].months = plan[q].months
     /\ \/ plan[p].interest < plan[q].interest
        \/ plan[p].interest = plan[q].interest /\ Remaining(p) < Remaining(q)

Rank == [AVALANCHE |-> 1, SNOWBALL |-> 2, HYBRID |-> 3]
Best(name) == CHOOSE s \in Strategies :
  \A t \in Strategies \ {s} :
    ~Better(name[t], name[s]) /\ (Better(name[s], name[t]) \/ Rank[s] < Rank[t])

Improves(p, q) == /\ Feasible(p) /\ Feasible(q)
                  /\ plan[p].interest < plan[q].interest \/ plan[p].months < plan[q].months

Advice ==
  LET plain == Best([s \in Strategies |-> s])
      boost == Best(Boosted)
  IN  IF /\ ~Improves(plain, current)
         /\ SuggestedExtra > 0 /\ Improves(Boosted[boost], current)
      THEN [strategy |-> boost, plan |-> Boosted[boost], boosted |-> TRUE]
      ELSE [strategy |-> plain, plan |-> plain, boosted |-> FALSE]

-----------------------------------------------------------------------------
Init == /\ debts \in Portfolios /\ budget \in Budgets
        /\ current \in Strategies /\ focus \in Debts
        /\ plan = [p \in Plans |-> Start]
        /\ advice = NoAdvice

NextMonth == /\ \E p \in Plans : plan[p].outcome = "running"
             /\ plan' = [p \in Plans |-> Month(p, plan[p])]
             /\ UNCHANGED <<debts, budget, current, focus, advice>>

Compare == /\ \A p \in Plans : plan[p].outcome # "running"
           /\ advice = NoAdvice /\ advice' = Advice
           /\ UNCHANGED <<debts, budget, current, focus, plan>>

Next == NextMonth \/ Compare
Spec == Init /\ [][Next]_vars
-----------------------------------------------------------------------------
TypeOK ==
  /\ debts \in [Debts -> Debt] /\ budget \in Budgets
  /\ current \in Strategies /\ focus \in Debts
  /\ plan \in [Plans -> [owed : [Debts -> Nat], paid : Nat, interest : Nat,
                         months : 0 .. MaxMonths, payoff : [Debts -> 0 .. MaxMonths],
                         outcome : {"running", "feasible", "budget_below_minimum",
                                    "non_amortizing", "max_months_reached"}]]
  /\ advice = NoAdvice \/ advice.strategy \in Strategies

\* What the stopped card was charged while it was owed.
Charged(p) == Total([d \in Debts |-> ChargeOf(p, d) *
                       (IF plan[p].payoff[d] > 0 THEN plan[p].payoff[d] ELSE plan[p].months)],
                    Debts)

\* Money is neither made nor lost by a plan: at every month what was owed, the
\* interest and the charges are what was paid and what is still owed.
PlanConserves == \A p \in Plans :
  Total(Owed0, Debts) + plan[p].interest + Charged(p) =
    plan[p].paid + Total(plan[p].owed, Debts)

\* Whatever order and budget a plan of the same debts uses, no debt is ever behind
\* where the minimum payments alone would have it at the same month (the ground
\* of savingsVsMinimumOnly and monthsSavedVsMinimumOnly).
NeverBehindMinimum == \A p \in Plans \ {"minimum", "charged", "refinanced"} :
  /\ plan["minimum"].outcome = "running" /\ plan[p].outcome = "running"
  => \A d \in Debts : plan[p].owed[d] <= plan["minimum"].owed[d]

Saves(p, q) == Feasible(p) /\ Feasible(q) =>
  plan[p].interest <= plan[q].interest /\ plan[p].months <= plan[q].months

\* Whoever follows the plan the dashboard recommends never pays more interest nor
\* takes longer than with the plan in use, and never trades a plan that ends for
\* one that does not (compareSimulationSummary ranks months before interest).
RecommendedNeverCostsMore ==
  advice # NoAdvice /\ Feasible(current) => Feasible(advice.plan) /\ Saves(advice.plan, current)

\* Under AVALANCHE an extra payment, a better rate or a card that stops being
\* used never costs interest or time: the savings the simulator shows are savings.
\* (Under the other orders the simulator can show a negative saving.  For debts other than
\* those of the run, rounding a month's interest to whole units may cost a unit.)
WhatIfsPay ==
  advice # NoAdvice /\ current = "AVALANCHE" =>
    /\ Saves("extra", current) /\ Saves(current, "charged")
    /\ BetterRate <= debts[focus].rate => Saves("refinanced", current)
=============================================================================
