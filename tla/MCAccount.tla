------------------------------ MODULE MCAccount ------------------------------
(* Small sets of credentials for the runs of Account.                        *)
EXTENDS Account, TLC

Shuffle == Permutations(Browsers) \cup Permutations(Passwords)
           \cup Permutations(Secrets) \cup Permutations(Codes)
           \cup Permutations(Sessions)
=============================================================================
