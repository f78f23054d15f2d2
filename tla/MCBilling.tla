------------------------------- MODULE MCBilling -------------------------------
(* Small catalogues for the runs of Billing.                                 *)
EXTENDS Billing, TLC

OnePlan  == {[tier |-> "PRO", interval |-> "MONTHLY"]}
TwoPlans == {[tier |-> "PRO", interval |-> "MONTHLY"], [tier |-> "NORMAL", interval |-> "ANNUAL"]}

Shuffle == Permutations(Orders) \cup Permutations(Handlers)
=============================================================================
