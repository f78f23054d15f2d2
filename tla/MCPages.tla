------------------------------ MODULE MCPages -------------------------------
(* The pages, gates and forms, each on every small input of its own.          *)
EXTENDS Pages, TLC

CONSTANTS d1, d2, d3
MCIndex == [d \in {d1, d2, d3} |-> CASE d = d1 -> 1 [] d = d2 -> 2 [] OTHER -> 3]

(* The simulator's form, and what each membership may see of its result.     *)
M == INSTANCE Membership
MCForms == [principal : {0, 1, 2, 30, 59}, payment : 0 .. 12, extra : 0 .. 4,
            rate : {0, 1, 5, 20}]
MCAccesses == {LET access == M!PLAN_FEATURES[t]
            IN  [compare |-> access.premium, savings |-> access.premium,
                 extra |-> access.premium, recommended |-> access.premium] : t \in M!Tiers}

(* Two debts under every combination of size, minimum, rate and date, the    *)
(* first without the middle rate.                                            *)
Terms(rates, dates) == [owed : {30, 200}, minimum : {5, 40}, rate : rates, due : dates]
MCPortfolios == {d1 :> a @@ d2 :> b : a \in Terms({0, 10}, {0}), b \in Terms({0, 2, 10}, {0, 5})}

(* Three debts, more than the free membership analyses.                      *)
Held(s, b, i, u) == [status |-> s, balance |-> b, interest |-> i, due |-> u,
                     minimum |-> 2, card |-> b > 1]
MCHoldings == {Held("CURRENT", 1, 1, 0), Held("LATE", 2, 3, 2), Held("LATE", 2, 1, 1),
               Held("CURRENT", 2, 3, 1), Held("PAID", 0, 0, 2)}

(* Payments around the borders of the ranges, the weeks and the windows.     *)
MCRecorded == {[day |-> d, debt |-> IF d > 60 THEN d1 ELSE d2, principal |-> q, cost |-> 10 - q] :
                 d \in {8, 28, 38, 63, 69}, q \in {4, 9}}
MCRanges == {<<64, 69>>, <<69, 64>>, <<30, 64>>}

(* A user whose debt falls late and is at risk, and who may come to owe       *)
(* nothing, and one with a monthly report to hear of by mail.                 *)
Person(due, risk, paid, premium, wants) ==
  [open |-> due # 0, due |-> due, upcoming |-> 1, risk |-> risk, paid |-> paid,
   premium |-> premium, signal |-> "STABLE", wants |-> wants,
   emails |-> "OVERDUE" \notin wants]
MCUsers == LET late == {"OVERDUE", "MINIMUM_PAYMENT_RISK", "MONTHLY_REPORT"}
           IN  {{Person(2, TRUE, FALSE, TRUE, late), Person(0, FALSE, TRUE, FALSE, late)},
                {Person(0, FALSE, TRUE, FALSE, {"MONTHLY_REPORT"})}}
MCHistoryLimit == [premium \in BOOLEAN |-> IF premium THEN 2 ELSE 1]

(* Two debts, one with a payment on it, and a link to the screen of the other *)
(* debt.  The interest of a month is the eighth of a balance.                 *)
Open(balance, late, minimum, last) ==
  [owed |-> [balance |-> balance, late |-> late, extra |-> 0], minimum |-> minimum,
   last |-> last, archived |-> FALSE]
MCOpenings ==
  {[rows |-> d1 :> Open(20, 2, 6, 4) @@ d2 :> Open(10, 0, 14, 0),
    ledger |-> 1 :> [state |-> "LIVE", debt |-> d1,
                     split |-> [amount |-> 4, principal |-> 2, interest |-> 2, late |-> 0,
                                extra |-> 0, remaining |-> 22]]]}
Typed(amount, interest, late) == [amount |-> amount, interest |-> interest, late |-> late]
MCEntries == {Typed(6, 4, -1), Typed(22, -1, 0)}

(* A debt with charges, one that is paid, and room for one more.  Today is 2. *)
Debt(b, f, m, u) == [balance |-> b, fees |-> f, minimum |-> m, due |-> u]
MCBooks == {d1 :> [status |-> "CURRENT", of |-> Debt(2, 1, 1, 0), paidOff |-> 0]
            @@ d2 :> [status |-> "PAID", of |-> Debt(0, 0, 0, 1), paidOff |-> 1]
            @@ d3 :> [status |-> "NONE", of |-> Debt(0, 0, 0, 0), paidOff |-> 0]}
MCAmounts == {Debt(2, 0, 1, 1), Debt(1, 0, 2, 3)}
=============================================================================
