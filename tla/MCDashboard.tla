---------------------------- MODULE MCDashboard ----------------------------
(* One debt that is paid down and edited, for the history of its balance.    *)
EXTENDS Dashboard
MCIndex == [d \in Debts |-> 1]
MCHoldings == {[status |-> "CURRENT", balance |-> b, interest |-> 1, due |-> 0,
                minimum |-> 1, card |-> FALSE] : b \in {1, 2}}
=============================================================================
