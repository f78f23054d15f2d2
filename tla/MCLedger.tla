------------------------------- MODULE MCLedger -------------------------------
(* Small forms, amounts and dates for the runs of Ledger.                    *)
EXTENDS Ledger, TLC

Pay(amount) == [NoPaymentInput EXCEPT !.amount = amount]
Form(status, balance, late, due) ==
    [status |-> status, due |-> due,
     owed |-> [balance |-> balance, late |-> late, extra |-> 0]]

AllOps  == Operations
CrudOps == Operations \ {"onboard"}
DebtOps == {"createDebt", "updateDebt", "deleteDebt"}
PayOps  == PaymentOps \cup {"createDebt"}

\* Two units to the cent, so that the interest of a month may end in half a cent:
\* a part payment, one that names its parts, and one over what a debt owes.
CentPayments == {Pay(2), Pay(6), [Pay(4) EXCEPT !.late = 0, !.interest = 2]}
CentDebts == {Form("CURRENT", 4, 2, 0), Form("NEGOTIATING", 6, 0, NoDate),
              Form("ARCHIVED", 2, 0, NoDate), Form("CURRENT", 0, 0, NoDate)}

\* Whole cents at Cent = 1.
WholePayments == {Pay(1), Pay(3)}
WholeDebts == {Form("CURRENT", 2, 1, 0), Form("CURRENT", 2, 0, NoDate)}

\* For two requests at once: fewer forms, more interleavings.
RacePayments == {Pay(1), Pay(3)}
RaceDebts == {Form("CURRENT", 2, 1, NoDate), Form("ARCHIVED", 1, 0, NoDate)}

Shuffle == Permutations(Debts) \cup Permutations(Payments) \cup Permutations(Requests)
=============================================================================
