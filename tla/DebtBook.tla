------------------------------- MODULE DebtBook -------------------------------
(***************************************************************************)
(* What the ledger promises when requests do not overlap: a book of open   *)
(* debts in which every payment entered, amended or struck out moves what  *)
(* its debt owes by what the entry says, up to the rounding of its parts.  *)
(***************************************************************************)
EXTENDS Integers

CONSTANTS
    Debts, Payments,
    Slack     \* what the rounding of one entry's parts may gain

VARIABLES
    owes,     \* owes[d]: what debt d owes, or Closed
    entry     \* entry[p]: the debt payment p went to and how much of it

Closed == -1
Blank  == [debt |-> "none", parts |-> 0]

Init ==
    /\ owes = [d \in Debts |-> Closed]
    /\ entry = [p \in Payments |-> Blank]

\* The owner opens debts or states anew what an open one owes.
Declare ==
    /\ owes' \in [Debts -> Nat \cup {Closed}]
    /\ \A d \in Debts : owes[d] # Closed => owes'[d] # Closed
    /\ UNCHANGED entry

\* A debt leaves the book with its entries.
Strike(d) ==
    /\ owes' = [owes EXCEPT ![d] = Closed]
    /\ entry' = [p \in Payments |-> IF entry[p].debt = d THEN Blank ELSE entry[p]]

\* The debt owes n more, but for what the rounding of the parts may add.
Moves(d, n) == \E gain \in 0..Slack : owes' = [owes EXCEPT ![d] = @ + n + gain]

Enter(p, d) ==
    /\ entry[p] = Blank /\ owes[d] # Closed
    /\ entry'[p].debt = d /\ entry'[p].parts \in 0..(owes[d] + Slack)
    /\ entry' = [entry EXCEPT ![p] = entry'[p]]
    /\ Moves(d, -entry'[p].parts)

Amend(p, d) ==
    /\ entry[p].debt = d /\ entry'[p].debt = d
    /\ entry'[p].parts \in 0..(owes[d] + entry[p].parts + Slack)
    /\ entry' = [entry EXCEPT ![p] = entry'[p]]
    /\ Moves(d, entry[p].parts - entry'[p].parts)

Cancel(p, d) ==
    /\ entry[p].debt = d
    /\ entry' = [entry EXCEPT ![p] = Blank]
    /\ Moves(d, entry[p].parts)

Next ==
    \/ Declare
    \/ \E d \in Debts : \/ Strike(d)
                        \/ \E p \in Payments : Enter(p, d) \/ Amend(p, d) \/ Cancel(p, d)

Spec == Init /\ [][Next]_<<owes, entry>>
=============================================================================
