----------------------------- MODULE Membership -----------------------------
(* What each membership unlocks (src/src/lib/feature-access.ts), shared by   *)
(* the modules of the screens and services that ask for it.                  *)
EXTENDS Integers

Tiers == {"FREE", "NORMAL", "PRO"}
BillingStatuses == {"FREE", "PENDING", "ACTIVE", "PAST_DUE", "CANCELED", "INACTIVE"}
Unlimited == 1000000

\* PLAN_FEATURES.  "premium" stands for the nine capabilities that Premium and Pro
\* share, "pro" for the five that only Pro has (exports among them).
PLAN_FEATURES ==
  [FREE   |-> [premium |-> FALSE, pro |-> FALSE, maxActiveDebts |-> 2,
               maxReportRangeDays |-> 31, notificationHistoryLimit |-> 8,
               balanceHistoryPoints |-> 3, recentPaymentsLimit |-> 3, riskAlertLimit |-> 1,
               dueSoonLimit |-> 2, allowedReminderDays |-> {2, 0}],
   NORMAL |-> [premium |-> TRUE, pro |-> FALSE, maxActiveDebts |-> 10,
               maxReportRangeDays |-> 90, notificationHistoryLimit |-> 40,
               balanceHistoryPoints |-> 8, recentPaymentsLimit |-> 8, riskAlertLimit |-> 3,
               dueSoonLimit |-> 4, allowedReminderDays |-> {5, 2, 0}],
   PRO    |-> [premium |-> TRUE, pro |-> TRUE, maxActiveDebts |-> Unlimited,
               maxReportRangeDays |-> 365, notificationHistoryLimit |-> 100,
               balanceHistoryPoints |-> 12, recentPaymentsLimit |-> 12, riskAlertLimit |-> 5,
               dueSoonLimit |-> 6, allowedReminderDays |-> {5, 2, 0}]]

hasPaidAccess(tier, status) == tier # "FREE" /\ status = "ACTIVE"
effectiveTier(tier, status) == IF hasPaidAccess(tier, status) THEN tier ELSE "FREE"
featureAccess(tier, status) == PLAN_FEATURES[effectiveTier(tier, status)]
upgradeTarget(tier, status) ==
  IF effectiveTier(tier, status) = "NORMAL" THEN "PRO" ELSE "NORMAL"

canAddMoreDebts(access, count) == count < access.maxActiveDebts

sanitizeReminderDays(access, days) ==
  LET kept == days \cap access.allowedReminderDays
  IN  IF kept = {} THEN access.allowedReminderDays ELSE kept

\* Both ends count; a range given backwards has the length of the other one.
reportRangeDays(from, to) == 1 + IF from <= to THEN to - from ELSE from - to
isReportRangeAllowed(access, from, to) == reportRangeDays(from, to) <= access.maxReportRangeDays
=============================================================================
