------------------------------ MODULE Dashboard ------------------------------
(* The dashboard of src/src/server/dashboard/dashboard-service.ts: what it    *)
(* reads in one query, which debts it analyses, what it shows.  The plans it  *)
(* compares are the module Planner.                                           *)
EXTENDS Integers, FiniteSets, FiniteSetsExt, SequencesExt, Membership

CONSTANTS Debts, Index,    \* names of debts, and their order in the query's answer
          Holdings,        \* what a debt may be, each in Holding
          NoDebt,          \* no name
          HistoryTaken,    \* balanceSnapshots: { take: 12 }
          MaxSnapshots     \* bound on the history

Holding == [status : {"NONE", "CURRENT", "LATE", "NEGOTIATING", "PAID", "ARCHIVED"},
            balance : Nat, interest : Nat, due : Nat, minimum : Nat, card : BOOLEAN]

VARIABLES debts,    \* name -> holding (status NONE: no such debt)
          tier, status,
          history,  \* the totals of the balance snapshots, oldest first
          page      \* the dashboard last opened, or NoPage

vars == <<debts, tier, status, history, page>>
NoPage == [urgent |-> NoDebt, pitched |-> NoDebt, analysed |-> {}, hidden |-> 0,
           dueSoon |-> {}, risks |-> {}, total |-> 0, owedAnalysed |-> 0,
           optimised |-> FALSE, balances |-> <<>>]

Active == {d \in Debts : debts[d].status \notin {"NONE", "PAID", "ARCHIVED"}}
TotalOf(S) == MapThenSumSet(LAMBDA d : debts[d].balance, S)

-----------------------------------------------------------------------------
(* The orders.                                                               *)

Urgency(d) == IF debts[d].status = "LATE" THEN 0 ELSE 1
\* A debt without a date is due last.
DueTime(d) == IF debts[d].due = 0 THEN Unlimited ELSE debts[d].due

\* Mutant: the dearest debts are analysed, whatever their dates.
RanksBefore_Dearest(d, e) ==
  \/ Urgency(d) < Urgency(e)
  \/ /\ Urgency(d) = Urgency(e)
     /\ \/ debts[d].interest > debts[e].interest
        \/ debts[d].interest = debts[e].interest /\ Index[d] < Index[e]

\* rankDebtsForAnalysis: late, then due first, then the dearer; stable otherwise.
RanksBefore(d, e) ==
  \/ Urgency(d) < Urgency(e)
  \/ Urgency(d) = Urgency(e) /\ DueTime(d) < DueTime(e)
  \/ /\ Urgency(d) = Urgency(e) /\ DueTime(d) = DueTime(e)
     /\ \/ debts[d].interest > debts[e].interest
        \/ debts[d].interest = debts[e].interest /\ Index[d] < Index[e]

Analysed(access) ==
  IF access.premium THEN Active
  ELSE {d \in Active : Cardinality({e \in Active : RanksBefore(e, d)}) < access.maxActiveDebts}

\* The debts are listed as the query gives them, or as they were ranked.
ListedBefore(byQuery, d, e) == IF byQuery THEN Index[d] < Index[e] ELSE RanksBefore(d, e)
FirstOf(S, n, byQuery) == {d \in S : Cardinality({e \in S : ListedBefore(byQuery, e, d)}) < n}

\* Late debts first and then by date, those alike staying as listed.
Sooner(d, e) == \/ Urgency(d) < Urgency(e)
                \/ Urgency(d) = Urgency(e) /\ DueTime(d) < DueTime(e)
MoreUrgent(byQuery, d, e) == Sooner(d, e) \/ (~Sooner(e, d) /\ ListedBefore(byQuery, d, e))
MostUrgent(S, byQuery) ==
  IF S = {} THEN NoDebt ELSE CHOOSE d \in S : \A e \in S \ {d} : MoreUrgent(byQuery, d, e)

FirstDue(S, n, byQuery) ==
  LET dated == {d \in S : debts[d].due # 0}
      before(d) == {e \in dated : \/ debts[e].due < debts[d].due
                                  \/ debts[e].due = debts[d].due /\ ListedBefore(byQuery, e, d)}
  IN  {d \in dated : Cardinality(before(d)) < n}

\* isMinimumPaymentRisk: a card whose minimum hardly covers the interest of the month.
AtRisk(S) == {d \in S : debts[d].card /\ 10 * debts[d].minimum <= 11 * debts[d].interest}

-----------------------------------------------------------------------------
\* The chart: the query takes the oldest snapshots, the page the last of those.
BalanceHistory(access) ==
  LET taken == SubSeq(history, 1, Min({HistoryTaken, Len(history)}))
      points == Min({access.balanceHistoryPoints, Len(taken)})
  IN  SubSeq(taken, Len(taken) - points + 1, Len(taken))

\* buildMembershipConversionSnapshot: every active debt, whatever the membership.
PitchedDebt == MostUrgent(Active, TRUE)

DashboardData ==
  LET access == featureAccess(tier, status)
      analysed == Analysed(access)
  IN [urgent |-> MostUrgent(analysed, access.premium),
      pitched |-> PitchedDebt, analysed |-> analysed,
      hidden |-> Cardinality(Active) - Cardinality(analysed),
      dueSoon |-> FirstDue(analysed, access.dueSoonLimit, access.premium),
      risks |-> FirstOf(AtRisk(analysed), access.riskAlertLimit, access.premium),
      total |-> TotalOf(Active), owedAnalysed |-> TotalOf(analysed),
      optimised |-> access.premium, balances |-> BalanceHistory(access)]

Init == /\ debts = [d \in Debts |-> [status |-> "NONE", balance |-> 0, interest |-> 0,
                                     due |-> 0, minimum |-> 0, card |-> FALSE]]
        /\ tier = "FREE" /\ status = "FREE" /\ history = <<>> /\ page = NoPage

\* A debt is added, edited, paid or archived, and the snapshot that follows is added.
ChangeDebt == \E d \in Debts, h \in Holdings :
  /\ h # debts[d] /\ Len(history) < MaxSnapshots
  /\ debts' = [debts EXCEPT ![d] = h]
  /\ history' = Append(history, TotalOf(Active)')
  /\ UNCHANGED <<tier, status, page>>

ChangeMembership == \E t \in Tiers, s \in {"FREE", "PENDING", "ACTIVE"} :
  /\ <<tier, status>> # <<t, s>> /\ (s = "FREE") = (t = "FREE")
  /\ tier' = t /\ status' = s /\ UNCHANGED <<debts, history, page>>

OpenDashboard == /\ page' = DashboardData /\ page' # page
                 /\ UNCHANGED <<debts, tier, status, history>>

Next == ChangeDebt \/ ChangeMembership \/ OpenDashboard
Spec == Init /\ [][Next]_vars
-----------------------------------------------------------------------------
TypeOK ==
  /\ debts \in [Debts -> Holding] /\ tier \in Tiers /\ status \in BillingStatuses
  /\ history \in Seq(Nat) /\ Len(history) <= MaxSnapshots
  /\ page.analysed \subseteq Debts /\ page.hidden \in Nat
  /\ page.risks \subseteq page.analysed /\ page.dueSoon \subseteq page.analysed

\* However many debts a membership leaves out of the analysis, the one the
\* dashboard calls urgent is as urgent as any the user holds: late whenever one is
\* late, and due no later than any other of its kind; and the same holds of the
\* one the membership page pleads with.
UrgentIsSeen == [][OpenDashboard =>
  \A d \in Active : /\ page'.urgent # NoDebt /\ page'.pitched # NoDebt
                    /\ \A u \in {page'.urgent, page'.pitched} :
                         ~Sooner(d, u)]_vars

\* The chart says how the balance moves: its last point is the last snapshot.
HistoryReachesNow == [][OpenDashboard /\ history # <<>> =>
  page'.balances # <<>> /\ Last(page'.balances) = Last(history)]_vars
=============================================================================
