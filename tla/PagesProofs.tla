------------------------------ MODULE PagesProofs ------------------------------
(***************************************************************************)
(* What the pages, the gates and the forms promise, for any inputs, limits *)
(* and bounds: a browser is not sent back and forth, a rate limit lets     *)
(* through what it says, a notice is doubled and mailed again only for     *)
(* what crossed or was cut, and a screen shows what is stored.             *)
(***************************************************************************)
EXTENDS Pages, AmortisationProofs, SumProofs, Sequences

-----------------------------------------------------------------------------
(* A page stays open, and a step is one of it.                               *)

LEMMA PageMoves ==
    [OpenNext]_allVars
      => /\ open' = open
         /\ open = "loan" => [Next]_vars
         /\ open = "planner" => [P!Next]_planVars
         /\ open = "dashboard" => [D!Next]_pageVars
         /\ open = "reports" => [R!Next]_reportVars
         /\ open = "notices" => [N!Next]_noticeVars
         /\ open = "access" => [A!Next]_accessVars
         /\ open = "gates" => [G!Next]_gateVars
         /\ open = "settings" => [S!Next]_settingVars
         /\ open = "forms" => [F!Next]_formVars
         /\ open = "payments" => [E!Next]_deskVars
         /\ open = "wizard" => [W!Here /\ W!Next]_wizardVars
         /\ open = "debts" => [T!Next]_debtVars
BY DEF OpenNext, Only, OnLoan, OnPlanner, OnDashboard, OnReports, OnNotices, OnAccess, OnGates,
       OnSettings, OnForms, OnPayments, OnWizard, OnDebts, allVars, Next, P!Next, D!Next, R!Next,
       N!Next, A!Next, G!Next, S!Next, F!Next, E!Next, W!Next, T!Next

-----------------------------------------------------------------------------
(* The simulator.                                                            *)

\* On the page as alone, a scenario that pays more of a loan is never behind one that pays
\* less, for any amounts, rates and terms (simulate-debt.ts).
THEOREM MorePaidIsAhead == PagesSpec => []PayingMoreIsAhead
<1> DEFINE Inv == open = "loan" => IInv
<1>1. OpenInit => Inv
  BY InitHolds DEF OpenInit
<1>2. Inv /\ [OpenNext]_allVars => Inv'
  BY PageMoves, StepHolds
<1>3. Inv => PayingMoreIsAhead
  BY IInvImplies DEF PayingMoreIsAhead
<1> QED
  BY <1>1, <1>2, <1>3, PTL DEF PagesSpec

-----------------------------------------------------------------------------
(* Redirects.                                                                *)

\* Where a browser may be sent without being sent on from there.
Final ==
    \/ at.path = "/dashboard" /\ A!CurrentSession \in A!Signed /\ A!Onboarded
    \/ at.path = "/onboarding" /\ A!CurrentSession \in A!Signed /\ ~A!Onboarded
    \/ at.path = "/login" /\ A!CurrentSession \notin A!Signed
    \/ at.path = "/configuracion" /\ A!CurrentSession # "none"
    \/ /\ at.path = "/host/unlock" /\ deploy.panel /\ A!Has("dc_session")
       /\ A!Decision(TRUE) = "GRANTED"

AccessInv ==
    /\ hops \in 0 .. 2
    /\ at.phase \notin {"asked", "passed"} => hops = 0
    /\ hops = 1 => \/ at.path = "/login" \/ Final
                   \/ at.path = "/host" /\ A!Has("dc_session")
    /\ hops = 2 => Final

\* Asking whether the database answers does not change the answer that a session gets.
LEMMA LookingChangesNothing ==
    ASSUME UNCHANGED <<deploy, user, row, cookies, db>>,
           seen' = seen \/ seen' = A!SeenAfter
    PROVE  /\ A!CurrentSession' = A!CurrentSession
           /\ A!Onboarded' = A!Onboarded
           /\ \A allow \in BOOLEAN : A!Decision(allow)' = A!Decision(allow)
<1>1. A!CurrentSession' = A!CurrentSession
  BY DEF A!CurrentSession, A!SeenAfter, A!isDatabaseReachable, A!InDemo, A!Has
<1>2. A!Onboarded' = A!Onboarded
  BY DEF A!Onboarded, A!InDemo, A!Has
<1>3. \A allow \in BOOLEAN : A!Secondary(allow)' = A!Secondary(allow)
  BY DEF A!Secondary, A!Has
<1> QED
  BY <1>1, <1>2, <1>3 DEF A!Decision

\* One redirect leads to the end of the way, or to a page that ends it with the next.
LEMMA RedirectsLead ==
    ASSUME A!proxy \/ A!Page, NEW path, A!Redirect(path)
    PROVE  /\ ~Final
           /\ \/ Final'
              \/ /\ at.path # "/login" /\ ~(at.path = "/host" /\ A!Has("dc_session"))
                 /\ path = "/login" \/ (path = "/host" /\ A!Has("dc_session")')
<1>1. UNCHANGED <<deploy, user, row, cookies, db>> /\ (seen' = seen \/ seen' = A!SeenAfter)
  BY DEF A!proxy, A!Page, A!ErrorPage, A!LoginPage, A!requireUser, A!MemberPage,
         A!DashboardPage, A!OnboardingPage, A!HostPage, A!Serves
<1>2. at'.path = path /\ at' = [path |-> path, phase |-> "asked"]
  BY DEF A!Redirect
<1>3. /\ A!CurrentSession' = A!CurrentSession /\ A!Onboarded' = A!Onboarded
      /\ \A allow \in BOOLEAN : A!Decision(allow)' = A!Decision(allow)
      /\ \A c : A!Has(c)' = A!Has(c)
      /\ deploy' = deploy
  BY <1>1, LookingChangesNothing DEF A!Has
<1> DEFINE Onwards == /\ ~Final
                    /\ \/ Final'
                       \/ /\ at.path # "/login" /\ ~(at.path = "/host" /\ A!Has("dc_session"))
                          /\ path = "/login" \/ (path = "/host" /\ A!Has("dc_session")')
<1>4. ASSUME NEW what, A!Show(what), what \in {"shown", "missing", "error"} PROVE FALSE
  BY <1>2, <1>4 DEF A!Show
<1>5. ~A!Pass
  BY <1>2 DEF A!Pass
<1>6. ASSUME NEW to, A!Redirect(to) PROVE to = path
  BY <1>2, <1>6 DEF A!Redirect
<1>7. /\ A!CurrentSession \in {"demo", "none", "cleared", "failed", "user"}
      /\ A!CurrentSession = "user" => A!Has("dc_session")
      /\ A!CurrentSession = "none" => ~A!Has("dc_session")
  BY DEF A!CurrentSession
<1>8. ASSUME NEW allow \in BOOLEAN, at.path = IF allow THEN "/host/unlock" ELSE "/host",
             A!Has("dc_session") \/ A!CurrentSession \in A!Signed,
             A!Decision(allow) # "GRANTED", A!Resolve(A!Decision(allow))
      PROVE  Onwards
  <2>1. A!Decision(allow) \in {"LOGIN", "SECONDARY_REQUIRED", "MFA_SETUP_REQUIRED"}
        /\ path = A!Target[A!Decision(allow)]
    BY <1>4, <1>6, <1>8 DEF A!Resolve, A!Target
  <2>2. ~Final
    BY <1>8 DEF Final
  <2>3. CASE A!Decision(allow) = "LOGIN"
    <3>1. A!CurrentSession \in {"none", "cleared"} /\ path = "/login"
      BY <2>1, <2>3, <1>7 DEF A!Decision, A!Target
    <3> QED
      BY <3>1, <2>2, <1>2, <1>3 DEF Final, A!Signed
  <2>4. CASE A!Decision(allow) = "SECONDARY_REQUIRED"
    <3>1. A!CurrentSession = "user" /\ deploy.panel /\ path = "/host/unlock"
      BY <2>1, <2>4, <1>7 DEF A!Decision, A!Target
    <3>2. A!Decision(TRUE) = "GRANTED"
      BY <2>4, <3>1 DEF A!Decision, A!Secondary
    <3> QED
      BY <3>1, <3>2, <2>2, <1>2, <1>3, <1>7 DEF Final
  <2>5. CASE A!Decision(allow) = "MFA_SETUP_REQUIRED"
    <3>1. A!CurrentSession = "user" /\ path = "/configuracion"
      BY <2>1, <2>5, <1>7 DEF A!Decision, A!Target
    <3> QED
      BY <3>1, <2>2, <1>2, <1>3 DEF Final
  <2> QED
    BY <2>1, <2>3, <2>4, <2>5
<1>9. CASE A!proxy
  <2>1. CASE at.path \in A!Internal /\ (IF A!Has("dc_session")
                                       THEN at.path = "/admin" /\ A!Redirect("/host")
                                       ELSE A!Redirect("/login"))
    BY <2>1, <1>3, <1>6 DEF Final, A!Internal
  <2>2. CASE /\ at.path \in {"/host", "/host/unlock"} /\ A!Has("dc_session")
             /\ LET outcome == A!Decision(at.path = "/host/unlock")
                IN  IF outcome = "GRANTED" THEN A!Pass ELSE A!Resolve(outcome)
    <3>1. PICK allow \in BOOLEAN : allow = (at.path = "/host/unlock")
      OBVIOUS
    <3> QED
      BY <2>2, <3>1, <1>5, <1>8
  <2> QED
    BY <1>4, <1>5, <1>9, <2>1, <2>2 DEF A!proxy
<1>10. CASE A!Page
  <2>1. CASE A!LoginPage
    <3>1. at.path = "/login" /\ A!CurrentSession \in A!Signed /\ path = A!Home
      BY <1>4, <1>6, <2>1 DEF A!LoginPage, A!Serves, A!Public, A!For
    <3> QED
      BY <3>1, <1>2, <1>3 DEF Final, A!Home
  <2>2. CASE A!requireUser
    <3>1. at.path # "/login" /\ A!CurrentSession = "none" /\ path = "/login"
      BY <1>6, <2>2 DEF A!requireUser, A!Serves, A!Public, A!For
    <3> QED
      BY <3>1, <1>7 DEF Final, A!Signed
  <2>3. CASE A!DashboardPage \/ A!OnboardingPage
    <3>1. /\ A!CurrentSession \in A!Signed /\ path = A!Home
          /\ \/ at.path = "/dashboard" /\ ~A!Onboarded
             \/ at.path = "/onboarding" /\ A!Onboarded
      BY <1>4, <1>6, <2>3 DEF A!DashboardPage, A!OnboardingPage, A!Serves, A!For
    <3> QED
      BY <3>1, <1>2, <1>3 DEF Final, A!Home
  <2>4. ASSUME NEW allow \in BOOLEAN,
               A!HostPage(IF allow THEN "/host/unlock" ELSE "/host", allow)
        PROVE  Onwards
    <3>1. /\ at.path = IF allow THEN "/host/unlock" ELSE "/host"
          /\ A!CurrentSession \in A!Signed
          /\ IF A!Decision(allow) = "GRANTED" THEN A!Show("shown")
             ELSE A!Resolve(A!Decision(allow))
      BY <2>4 DEF A!HostPage, A!Serves, A!For
    <3> QED
      BY <3>1, <1>4, <1>8
  <2>5. ~A!ErrorPage /\ ~A!MemberPage
    BY <1>4 DEF A!ErrorPage, A!MemberPage
  <2> QED
    BY <1>10, <2>1, <2>2, <2>3, <2>4, <2>5 DEF A!Page
<1> QED
  BY <1>9, <1>10

LEMMA AccessStep == AccessInv /\ [A!Next]_accessVars => AccessInv'
<1> SUFFICES ASSUME AccessInv, [A!Next]_accessVars PROVE AccessInv'
  OBVIOUS
<1>1. CASE UNCHANGED accessVars
  <2>1. AccessInv' = AccessInv
    BY <1>1 DEF AccessInv, Final, accessVars, A!CurrentSession, A!Onboarded, A!Decision,
         A!Secondary, A!Has, A!InDemo, A!isDatabaseReachable
  <2> QED
    BY <2>1
<1>2. CASE hops' = 0
  BY <1>2, SMT DEF AccessInv
<1>3. ASSUME A!proxy \/ A!Page PROVE AccessInv'
  <2>1. \/ hops' = 0
        \/ A!Pass
        \/ \E path : A!Redirect(path)
    BY <1>3 DEF A!proxy, A!Page, A!ErrorPage, A!LoginPage, A!requireUser, A!MemberPage,
         A!DashboardPage, A!OnboardingPage, A!HostPage, A!Show, A!Resolve
  <2>2. CASE A!Pass
    <3>1. UNCHANGED <<deploy, user, row, cookies, db>> /\ (seen' = seen \/ seen' = A!SeenAfter)
      BY <1>3 DEF A!proxy, A!Page, A!ErrorPage, A!LoginPage, A!requireUser, A!MemberPage,
         A!DashboardPage, A!OnboardingPage, A!HostPage, A!Serves
    <3>2. at'.path = at.path /\ at'.phase = "passed" /\ hops' = hops
      BY <2>2 DEF A!Pass
    <3>3. Final => Final'
      BY <3>1, <3>2, LookingChangesNothing DEF Final, A!Has
    <3>4. A!Has("dc_session")' = A!Has("dc_session")
      BY <3>1 DEF A!Has
    <3> QED
      BY <3>2, <3>3, <3>4 DEF AccessInv
  <2>3. ASSUME NEW path, A!Redirect(path) PROVE AccessInv'
    <3>1. at'.path = path /\ at'.phase = "asked" /\ hops' \in {hops, hops + 1}
      BY <2>3 DEF A!Redirect
    <3>2. hops # 2
      BY <1>3, <2>3, RedirectsLead DEF AccessInv
    <3>3. hops = 1 => Final'
      BY <1>3, <2>3, RedirectsLead DEF AccessInv
    <3>4. hops = 0 => Final' \/ path = "/login" \/ (path = "/host" /\ A!Has("dc_session")')
      BY <1>3, <2>3, RedirectsLead
    <3>5. hops' \in 0 .. 2 /\ (hops' = 2 => hops = 1) /\ (hops' = 1 => hops \in {0, 1})
      BY <3>1, <3>2, SMT DEF AccessInv
    <3> QED
      BY <3>1, <3>3, <3>4, <3>5 DEF AccessInv
  <2> QED
    BY <1>2, <2>1, <2>2, <2>3
<1>4. CASE A!Login /\ UNCHANGED hops
  BY <1>4, SMT DEF AccessInv, A!Login, A!On, A!Goes
<1> QED
  BY <1>1, <1>2, <1>3, <1>4
     DEF A!Next, A!Ask, A!Login, A!Register, A!Logout, A!Unlock, A!FinishOnboarding, A!SetMfa,
         A!SessionEnds, A!StatusChanges, A!RoleChanges, A!DatabaseComesAndGoes,
         A!AvailabilityLapses, A!CookieLapses, A!Changed, A!Goes

\* The checks of the proxy, of the pages and of the panel's gate look at the session each
\* for itself; whatever the deployment, the user and the cookies, and whenever the database
\* comes or goes, a browser is redirected twice at most (proxy.ts, session.ts,
\* host-access.ts).
THEOREM RedirectsStop == PagesSpec => []RedirectsEnd
<1> DEFINE Inv == open = "access" => AccessInv
<1>1. OpenInit => Inv
  BY SMT DEF OpenInit, A!Init, AccessInv
<1>2. Inv /\ [OpenNext]_allVars => Inv'
  BY PageMoves, AccessStep
<1>3. Inv => RedirectsEnd
  BY SMT DEF AccessInv, RedirectsEnd, A!NavigationEnds
<1> QED
  BY <1>1, <1>2, <1>3, PTL DEF PagesSpec

-----------------------------------------------------------------------------
(* Reports.                                                                  *)

\* The only report awaited is the one asked for last.
ReportsInv ==
    /\ inFlight \subseteq {asked}
    /\ fields \in Nat \X Nat /\ asked \in Nat \X Nat
    /\ payments \subseteq R!Entry /\ today \in Nat

LEMMA ReportsStep == ReportsInv /\ [R!Next]_reportVars => ReportsInv'
BY ReportsAssumption DEF ReportsInv, reportVars, R!Next, R!RecordPayment, R!NextDay, R!SetFields,
   R!Reload, R!CanReload, R!ReportAnswered, R!ReportFailed, R!Lapse

LEMMA ReportsHold == PagesSpec => [](open = "reports" => ReportsInv)
<1>1. OpenInit => (open = "reports" => ReportsInv)
  BY ReportsAssumption DEF OpenInit, R!Init, ReportsInv
<1>2. (open = "reports" => ReportsInv) /\ [OpenNext]_allVars
      => (open = "reports" => ReportsInv)'
  BY PageMoves, ReportsStep
<1> QED
  BY <1>1, <1>2, PTL DEF PagesSpec

\* For any ranges, payments and memberships that lapse, an answer that comes late is never
\* put in the place of a later question's (reports-panel.tsx).
THEOREM LateAnswersAreDropped == PagesSpec => LatestReportShown
<1>1. (open = "reports" => ReportsInv) /\ [OpenNext]_allVars
      => [open = "reports" /\ R!ReportAnswered
          => <<summary'.from, summary'.to>> = asked]_allVars
  <2> SUFFICES ASSUME open = "reports" => ReportsInv, open = "reports", R!ReportAnswered
               PROVE  <<summary'.from, summary'.to>> = asked
    OBVIOUS
  <2>1. asked \in Nat \X Nat /\ inFlight \subseteq {asked}
    BY DEF ReportsInv
  <2>2. summary' = R!getReportSummary(asked[1], asked[2])
    BY <2>1 DEF R!ReportAnswered
  <2>3. summary'.from = asked[1] /\ summary'.to = asked[2]
    BY <2>2 DEF R!getReportSummary
  <2> QED
    BY <2>1, <2>3
<1> QED
  BY <1>1, ReportsHold, PTL DEF PagesSpec, LatestReportShown

LEMMA WeekIsSevenDays ==
    ASSUME NEW d \in Nat, NEW t \in Nat, d \div 7 = t \div 7
    PROVE  2 * d >= 2 * t - 12
OBVIOUS

\* Whoever paid in the week of today, whatever the day, is not told to get back to the plan
\* (dashboard-service.ts).
THEOREM StreaksAreHeard == PagesSpec => []StreakIsHeard
<1>1. (open = "reports" => ReportsInv) => StreakIsHeard
  <2> SUFFICES ASSUME ReportsInv, R!Streak > 0 PROVE ~R!ReviewPrompt
    BY DEF StreakIsHeard, R!StreakNeedsNoPrompt
  <2> DEFINE paid == {R!Week(p.day) : p \in R!Newest}
             runs == {n \in 0 .. R!Week(today) + 1 : \A k \in 0 .. n - 1 : R!Week(today) - k \in paid}
  <2>1. R!Week(today) \in Nat
    BY DEF ReportsInv, R!Week
  <2>2. R!Week(today) \in paid
    <3> SUFFICES ASSUME R!Week(today) \notin paid PROVE FALSE
      OBVIOUS
    <3>1. runs = {0}
      <4>1. 0 \in runs
        BY <2>1
      <4>2. ASSUME NEW n \in runs, n # 0 PROVE FALSE
        <5>1. n \in Nat /\ 0 \in 0 .. n - 1
          BY <2>1, <4>2
        <5>2. R!Week(today) - 0 \in paid
          BY <5>1
        <5> QED
          BY <5>2, <2>1
      <4> QED
        BY <4>1, <4>2
    <3>2. R!Streak = 0
      BY <3>1 DEF R!Streak, R!Max
    <3> QED
      BY <3>2
  <2>3. PICK p \in R!Newest : p.day \div 7 = today \div 7
    BY <2>2 DEF R!Week
  <2>4. p.day \in Nat /\ today \in Nat
    BY DEF ReportsInv, R!Newest, R!Entry
  <2>5. 2 * p.day >= 2 * today - 12
    BY <2>3, <2>4, WeekIsSevenDays
  <2>6. ~(2 * p.day < R!Now - 14)
    BY <2>4, <2>5 DEF R!Now
  <2> QED
    BY <2>6 DEF R!ReviewPrompt
<1> QED
  BY <1>1, ReportsHold, PTL

-----------------------------------------------------------------------------
(* Rate limits.                                                              *)

\* The ticks from a to b, of which there are none before the first.
Stretch(a, b) == {u \in Nat : a <= u /\ u <= b}

LEMMA StretchIsFinite ==
    ASSUME NEW a \in Int, NEW b \in Int
    PROVE  IsFiniteSet(Stretch(a, b)) /\ Stretch(a, b) = G!Max({a, 0}) .. b
<1>1. G!Max({a, 0}) = IF a >= 0 THEN a ELSE 0
  <2> DEFINE m == IF a >= 0 THEN a ELSE 0
  <2>1. m \in {a, 0} /\ \A y \in {a, 0} : m >= y
    OBVIOUS
  <2>2. \A x \in {a, 0} : (\A y \in {a, 0} : x >= y) => x = m
    OBVIOUS
  <2> HIDE DEF m
  <2>3. G!Max({a, 0}) = m
    BY <2>1, <2>2 DEF G!Max
  <2> QED
    BY <2>3 DEF m
<1>2. Stretch(a, b) = G!Max({a, 0}) .. b
  BY <1>1 DEF Stretch
<1>3. IsFiniteSet(G!Max({a, 0}) .. b)
  BY <1>1, FS_Interval
<1> QED
  BY <1>2, <1>3

LEMMA LetThroughIsTotal ==
    ASSUME NEW a \in Int, NEW b \in Int
    PROVE  G!LetThrough(a, b) = Total(passed, Stretch(a, b))
<1> DEFINE U == Stretch(a, b)
<1>1. IsFiniteSet(U) /\ U = G!Max({a, 0}) .. b
  BY StretchIsFinite
<1> HIDE DEF U
<1>2. PICK f : IsSummation(passed, U, f)
  BY <1>1, SummationExists
<1> DEFINE Sums(h) == h = [V \in SUBSET U |->
                              IF V = {} THEN 0
                              ELSE passed[CHOOSE x \in V : TRUE] + h[V \ {CHOOSE x \in V : TRUE}]]
<1>4. \A h : Sums(h) <=> IsSummation(passed, U, h)
  BY DEF IsSummation, Pick
<1>5. Sums(f) /\ \A h : Sums(h) => h = f
  BY <1>1, <1>2, <1>4, OneSummation
<1>6. G!LetThrough(a, b) = f[U]
  BY <1>1, <1>5 DEF G!LetThrough, G!SumFunctionOnSet, G!FoldFunctionOnSet, G!MapThenFoldSet
<1>7. f[U] = Total(passed, U)
  BY <1>1, <1>2, SummationsTotal
<1> QED
  BY <1>6, <1>7 DEF U

\* What p lets through from a to b.
Through(p, a, b) == Total(p, Stretch(a, b))
Counts == [0 .. MaxTime -> Nat]

LEMMA ThroughIsNat ==
    ASSUME NEW p \in Counts, NEW a \in Int, NEW b \in 0 .. MaxTime
    PROVE  Through(p, a, b) \in Nat
<1>1. \A u \in Stretch(a, b) : p[u] \in Nat
  BY GatesAssumption DEF Stretch, Counts
<1>2. b \in Int
  BY GatesAssumption
<1> QED
  BY <1>1, <1>2, StretchIsFinite, TotalIsNat DEF Through

LEMMA ThroughOpens ==
    ASSUME NEW p \in Counts, NEW a \in Int, NEW b \in 0 .. MaxTime
    PROVE  /\ a < 0 => Through(p, a, b) = Through(p, a + 1, b)
           /\ 0 <= a /\ a <= b => Through(p, a, b) = p[a] + Through(p, a + 1, b)
           /\ a > b => Through(p, a, b) = 0
           /\ Through(p, a + 1, b) <= Through(p, a, b)
<1>0. b \in Nat /\ b \in Int /\ a + 1 \in Int
  BY GatesAssumption
<1>1. CASE a < 0
  <2>1. Stretch(a, b) = Stretch(a + 1, b)
    BY <1>1 DEF Stretch
  <2>2. Through(p, a, b) = Through(p, a + 1, b)
    BY <2>1 DEF Through
  <2>3. Through(p, a + 1, b) <= Through(p, a, b)
    BY <1>0, <2>2, ThroughIsNat
  <2> QED
    BY <1>0, <1>1, <2>2, <2>3
<1>2. CASE a > b
  <2>1. Stretch(a, b) = {} /\ Stretch(a + 1, b) = {}
    BY <1>0, <1>2 DEF Stretch
  <2>2. Through(p, a, b) = 0 /\ Through(p, a + 1, b) = 0
    BY <2>1, TotalOfNone DEF Through
  <2> QED
    BY <1>0, <1>2, <2>2
<1>3. CASE 0 <= a /\ a <= b
  <2>1. a \in Stretch(a, b) /\ Stretch(a, b) \ {a} = Stretch(a + 1, b)
    BY <1>0, <1>3 DEF Stretch
  <2>2. IsFiniteSet(Stretch(a, b))
    BY <1>0, StretchIsFinite
  <2>4. \A u \in Stretch(a, b) : p[u] \in Int
    BY <1>0, GatesAssumption DEF Stretch, Counts
  <2>3. Through(p, a, b) = p[a] + Through(p, a + 1, b)
    BY <2>1, <2>2, <2>4, TotalTakes DEF Through
  <2>6. p[a] \in Nat /\ Through(p, a + 1, b) \in Nat
    BY <1>0, <1>3, ThroughIsNat, GatesAssumption DEF Counts
  <2>5. Through(p, a + 1, b) <= Through(p, a, b)
    BY <2>3, <2>6
  <2> QED
    BY <1>0, <1>3, <2>3, <2>5
<1> QED
  BY <1>0, <1>1, <1>2, <1>3

\* A tick in which nothing has come adds nothing.
LEMMA ThroughWaits ==
    ASSUME NEW p \in Counts, NEW a \in Int, NEW b \in Nat, b < MaxTime, p[b + 1] = 0
    PROVE  Through(p, a, b + 1) = Through(p, a, b)
<1>0. b + 1 \in Nat /\ b + 1 \in Int /\ b + 1 \in 0 .. MaxTime /\ b \in 0 .. MaxTime
  BY GatesAssumption
<1>1. CASE a > b + 1
  <2>1. Stretch(a, b + 1) = {} /\ Stretch(a, b) = {}
    BY <1>0, <1>1 DEF Stretch
  <2> QED
    BY <2>1 DEF Through
<1>2. CASE a <= b + 1
  <2>1. b + 1 \in Stretch(a, b + 1) /\ Stretch(a, b + 1) \ {b + 1} = Stretch(a, b)
    BY <1>0, <1>2 DEF Stretch
  <2>2. IsFiniteSet(Stretch(a, b + 1))
    <3>1. \A c \in Int : IsFiniteSet(Stretch(a, c))
      BY StretchIsFinite
    <3> QED
      BY <1>0, <3>1
  <2>4. \A u \in Stretch(a, b + 1) : p[u] \in Int
    BY <1>0, GatesAssumption DEF Stretch, Counts
  <2>3. Through(p, a, b + 1) = 0 + Through(p, a, b)
    BY <2>1, <2>2, <2>4, TotalTakes DEF Through
  <2> QED
    BY <1>0, <2>3, ThroughIsNat
<1> QED
  BY <1>0, <1>1, <1>2

LEMMA ThroughKeeps ==
    ASSUME NEW p \in Counts, NEW b \in 0 .. MaxTime, NEW q, \A u \in 0 .. b : q[u] = p[u],
           NEW a \in Int
    PROVE  Through(q, a, b) = Through(p, a, b)
<1>1. b \in Int /\ b \in Nat
  BY GatesAssumption
<1>2. \A u \in Stretch(a, b) : q[u] = p[u] /\ p[u] \in Int
  BY <1>1, GatesAssumption DEF Stretch, Counts
<1>3. IsFiniteSet(Stretch(a, b))
  BY <1>1, StretchIsFinite
<1> QED
  BY <1>2, <1>3, TotalOfSame DEF Through

\* A request let through now counts once in each stretch that reaches now.
LEMMA ThroughCounts ==
    ASSUME NEW p \in Counts, NEW t \in 0 .. MaxTime, NEW q \in Counts, q[t] = p[t] + 1,
           \A u \in 0 .. MaxTime : u # t => q[u] = p[u], NEW a \in Int
    PROVE  /\ a <= t => Through(q, a, t) = Through(p, a, t) + 1
           /\ a > t => Through(q, a, t) = 0
<1>0. t \in Nat /\ a \in Int /\ t \in Int /\ p[t] \in Nat
  BY GatesAssumption DEF Counts
<1>1. q[t] = p[t] + 1 /\ \A u \in 0 .. MaxTime : u # t => q[u] = p[u]
  OBVIOUS
<1>3. ASSUME a <= t PROVE Through(q, a, t) = Through(p, a, t) + 1
  <2>1. t \in Stretch(a, t)
    BY <1>0, <1>3 DEF Stretch
  <2>5. IsFiniteSet(Stretch(a, t))
    BY <1>0, StretchIsFinite
  <2>2. \A u \in Stretch(a, t) : p[u] \in Int /\ q[u] \in Int
    <3>1. \A u \in Stretch(a, t) : u \in 0 .. MaxTime
      BY <1>0, GatesAssumption DEF Stretch
    <3> QED
      BY <3>1 DEF Counts
  <2>3. \A u \in Stretch(a, t) \ {t} : p[u] = q[u]
    BY <1>0, <1>1, GatesAssumption DEF Stretch
  <2>4. Through(q, a, t) = Through(p, a, t) - p[t] + q[t]
    <3>1. PICK U : U = Stretch(a, t)
      OBVIOUS
    <3>2. t \in U /\ IsFiniteSet(U) /\ (\A u \in U : p[u] \in Int /\ q[u] \in Int)
          /\ \A u \in U \ {t} : p[u] = q[u]
      BY <2>1, <2>2, <2>3, <2>5, <3>1
    <3>3. Total(q, U) = q[t] + Total(q, U \ {t})
      BY <3>2, TotalTakes
    <3>4. Total(p, U) = p[t] + Total(p, U \ {t})
      BY <3>2, TotalTakes
    <3>5. IsFiniteSet(U \ {t})
      BY <3>2, FS_RemoveElement
    <3>6. Total(p, U \ {t}) = Total(q, U \ {t})
      BY <3>2, <3>5, TotalOfSame
    <3>7. Total(q, U \ {t}) \in Int
      BY <3>2, <3>5, TotalIsInt
    <3>8. Total(q, U) = Total(p, U) - p[t] + q[t]
      BY <1>0, <1>1, <3>3, <3>4, <3>6, <3>7
    <3> QED
      BY <3>1, <3>8 DEF Through
  <2> QED
    BY <1>0, <1>1, <2>4, ThroughIsNat
<1>4. a > t => Through(q, a, t) = 0
  BY <1>0, <1>1, ThroughOpens
<1> QED
  BY <1>3, <1>4

LEMMA ThroughGrows ==
    ASSUME NEW p \in Counts, NEW a \in Int, NEW c \in Int, a <= c, NEW b \in 0 .. MaxTime
    PROVE  Through(p, c, b) <= Through(p, a, b)
<1>1. b \in Int
  BY GatesAssumption
<1>2. Stretch(c, b) \subseteq Stretch(a, b)
  BY DEF Stretch
<1>3. IsFiniteSet(Stretch(a, b))
  BY <1>1, StretchIsFinite
<1>4. \A u \in Stretch(a, b) : p[u] \in Nat
  BY GatesAssumption DEF Stretch, Counts
<1> QED
  BY <1>2, <1>3, <1>4, TotalGrows DEF Through

-----------------------------------------------------------------------------
\* A limit is at least one request, and a route without one has none.
LEMMA LimitIsPositive ==
    ASSUME NEW gates, NEW n \in Nat \ {0}
    PROVE  G!Limited(gates, n).limit \in Nat \ {0}
<1>1. (n + Scale - 1) \div Scale \in Nat \ {0}
  <2>1. n + Scale - 1 \in Int /\ n + Scale - 1 >= Scale /\ Scale \in Nat \ {0}
    BY GatesAssumption
  <2>2. \A m \in Int, s \in Nat \ {0} : m >= s => m \div s >= 1 /\ m \div s \in Int
    OBVIOUS
  <2> QED
    BY <2>1, <2>2
<1> DEFINE q == (n + Scale - 1) \div Scale
<1> HIDE DEF q
<1>2. q \in Nat \ {0} /\ LimitCap \in Nat \ {0}
  BY <1>1, GatesAssumption DEF q
<1>3. G!Min({q, LimitCap}) \in {q, LimitCap}
  <2>1. \E x \in {q, LimitCap} : \A y \in {q, LimitCap} : x <= y
    BY <1>2
  <2> QED
    BY <2>1 DEF G!Min
<1> QED
  BY <1>2, <1>3 DEF G!Limited, q

LEMMA RoutesAreLimited ==
    ASSUME NEW r \in G!Routes
    PROVE  /\ r.limit \in Nat
           /\ (\E k \in 1 .. Len(r.gates) : r.gates[k] = "limit") => r.limit > 0
<1>1. CASE r \in {G!login, G!registrar, G!cambiarContrasena, G!reautenticar,
                  G!recuperarContrasena, G!restablecerContrasena, G!passkeyLoginOptions,
                  G!passkeyLoginVerify, G!checkout, G!portal, G!setUpTotp, G!passkeyOptions,
                  G!passkeyVerify, G!passkeyDelete, G!hostAccess, G!hostGate,
                  G!jobsNotifications}
  <2>1. r.limit \in Nat \ {0}
    BY <1>1, LimitIsPositive
       DEF G!login, G!registrar, G!cambiarContrasena, G!reautenticar, G!recuperarContrasena,
           G!restablecerContrasena, G!passkeyLoginOptions, G!passkeyLoginVerify, G!checkout,
           G!portal, G!setUpTotp, G!passkeyOptions, G!passkeyVerify, G!passkeyDelete,
           G!hostAccess, G!hostGate, G!jobsNotifications
  <2> QED
    BY <2>1
<1>2. CASE r \in {G!logout, G!onboarding, G!onboardingPreview, G!getDebts, G!postDebts,
                  G!getDebt, G!patchDebt, G!deleteDebt, G!getPayments, G!postPayments,
                  G!patchPayment, G!deletePayment, G!readNotification,
                  G!readAllNotifications, G!postSimulator, G!reportSummary, G!exportCsv,
                  G!exportPdf, G!membership, G!profile, G!preferences, G!verifyTotp,
                  G!disableTotp, G!userStatus, G!emailTemplate, G!planEvents}
  BY <1>2
     DEF G!Unlimited, G!logout, G!onboarding, G!onboardingPreview, G!getDebts, G!postDebts,
         G!getDebt, G!patchDebt, G!deleteDebt, G!getPayments, G!postPayments, G!patchPayment,
         G!deletePayment, G!readNotification, G!readAllNotifications, G!postSimulator,
         G!reportSummary, G!exportCsv, G!exportPdf, G!membership, G!profile, G!preferences,
         G!verifyTotp, G!disableTotp, G!userStatus, G!emailTemplate, G!planEvents
<1> QED
  BY <1>1, <1>2 DEF G!Routes

\* The gate that refuses is one that the request fails.
LEMMA FirstFails ==
    ASSUME NEW wrong, G!FirstOf(wrong) # 0
    PROVE  route.gates[G!FirstOf(wrong)] \in wrong
<1> DEFINE I == {i \in 1 .. Len(route.gates) : route.gates[i] \in wrong}
<1>1. I # {} /\ G!FirstOf(wrong) = G!Min(I)
  BY DEF G!FirstOf, G!SelectInSeq
<1>2. I \in SUBSET Nat
  OBVIOUS
<1> HIDE DEF I
<1>3. \E x \in I : \A y \in I : x <= y
  BY <1>1, <1>2, SmallestNumber
<1>4. G!Min(I) \in I
  BY <1>3 DEF G!Min
<1> QED
  BY <1>1, <1>4 DEF I

\* What a request leaves: what it found, or one more let through, or a caller turned away
\* by an entry that is full.
LEMMA CallsCount ==
    ASSUME route \in G!Routes, entry.count \in Nat, G!Call
    PROVE  /\ UNCHANGED <<route, now, restarts>>
           /\ \/ UNCHANGED <<entry, passed>> /\ answer' # "limit"
              \/ /\ route.limit > 0 /\ G!Success /\ answer' # "limit"
                 /\ entry' = G!assertRateLimit /\ passed' = [passed EXCEPT ![now] = @ + 1]
              \/ /\ UNCHANGED <<entry, passed>>
                 /\ entry.count # 0 /\ ~(entry.resetAt <= now) /\ ~(entry.count < route.limit)
<1>1. PICK wrong \in SUBSET (G!Gates \ {"limit"}) :
        LET first == G!FirstOf(wrong)
            counted == G!Before("limit", first)
        IN  /\ UNCHANGED <<route, now, restarts>>
            /\ IF counted
               THEN /\ entry' = G!assertRateLimit
                    /\ passed' = IF G!Success THEN [passed EXCEPT ![now] = @ + 1] ELSE passed
               ELSE UNCHANGED <<entry, passed>>
            /\ answer' = IF counted /\ ~G!Success THEN "limit"
                         ELSE IF first = 0 THEN "served" ELSE route.gates[first]
  BY DEF G!Call
<1> DEFINE first == G!FirstOf(wrong)
           counted == G!Before("limit", first)
<1>2. first # 0 => route.gates[first] # "limit"
  BY FirstFails
<1>3. counted => route.limit > 0
  BY RoutesAreLimited DEF G!Before
<1> HIDE DEF first, counted
<1>4. CASE ~counted
  BY <1>1, <1>2, <1>4 DEF first, counted
<1>5. CASE counted /\ G!Success
  BY <1>1, <1>2, <1>3, <1>5 DEF first, counted
<1>6. CASE counted /\ ~G!Success
  <2>1. entry.count # 0 /\ ~(entry.resetAt <= now) /\ ~(entry.count < route.limit)
    BY <1>6 DEF G!Success
  <2>2. entry.count >= route.limit
    BY <2>1, RoutesAreLimited
  <2>3. G!assertRateLimit = entry
    BY <2>1, <2>2 DEF G!assertRateLimit
  <2>4. UNCHANGED <<entry, passed>>
    BY <1>1, <1>6, <2>3 DEF first, counted
  <2> QED
    BY <1>1, <2>1, <2>4
<1> QED
  BY <1>4, <1>5, <1>6

\* An entry that counts, and the windows' worth of requests that the processes may have
\* let through.
Live == entry.count > 0 /\ entry.resetAt > now
Opened == entry.resetAt - LimitWindow
Allowed == (1 + restarts) * route.limit
Counted == IF Live THEN entry.count ELSE 0

GatesTyped ==
    /\ route \in G!Routes /\ now \in 0 .. MaxTime /\ restarts \in Nat /\ passed \in Counts
    /\ \A u \in 0 .. MaxTime : u > now => passed[u] = 0
    /\ entry.count \in Nat /\ entry.resetAt \in Nat /\ entry.count <= route.limit
    /\ Live => Opened \in 0 .. now
\* An entry counts what came since it was opened, the first of them when it was.
FirstOpens ==
    Live => /\ Through(passed, Opened, now) >= entry.count
            /\ Through(passed, Opened + 1, now) <= entry.count - 1
\* What came in the window before now is of one whole entry of each process at most, less
\* the request that opened the oldest, and what the entry counts.
Carried ==
    route.limit > 0 => Through(passed, now - LimitWindow + 1, now) <= Allowed - 1 + Counted
TurnedAway == answer = "limit" => Through(passed, now - LimitWindow + 1, now) >= route.limit
Earlier == route.limit > 0 =>
    \A t \in 0 .. now : Through(passed, t - LimitWindow + 1, t) <= Allowed + route.limit - 1
GatesInv == GatesTyped /\ FirstOpens /\ Carried /\ TurnedAway /\ Earlier

LEMMA AllowedGrows ==
    GatesTyped => /\ Allowed \in Nat /\ Counted \in Nat /\ route.limit \in Nat
                  /\ Counted <= route.limit /\ Allowed >= route.limit
<1> SUFFICES ASSUME GatesTyped
             PROVE  /\ Allowed \in Nat /\ Counted \in Nat /\ route.limit \in Nat
                    /\ Counted <= route.limit /\ Allowed >= route.limit
  OBVIOUS
<1>1. route.limit \in Nat /\ restarts \in Nat
  BY RoutesAreLimited DEF GatesTyped
<1>2. \A r \in Nat, k \in Nat : (1 + r) * k \in Nat /\ (1 + r) * k >= k
  <2> SUFFICES ASSUME NEW r \in Nat, NEW k \in Nat PROVE (1 + r) * k \in Nat /\ (1 + r) * k >= k
    OBVIOUS
  <2>1. (1 + r) * k = k + r * k /\ r * k \in Nat
    OBVIOUS
  <2> QED
    BY <2>1
<1>3. Allowed \in Nat /\ Allowed >= route.limit
  BY <1>1, <1>2 DEF Allowed
<1>4. Counted \in Nat /\ Counted <= route.limit
  BY <1>1 DEF GatesTyped, Counted
<1> QED
  BY <1>1, <1>3, <1>4

LEMMA GatesStart == G!Init => GatesInv
<1> SUFFICES ASSUME G!Init PROVE GatesInv
  OBVIOUS
<1>1. route.limit \in Nat /\ MaxTime \in Nat
  BY RoutesAreLimited, GatesAssumption DEF G!Init
<1>2. GatesTyped
  BY <1>1 DEF G!Init, GatesTyped, Counts, Live
<1>3. ~Live /\ now = 0
  BY DEF Live, G!Init
<1>4. \A t \in 0 .. now : Through(passed, t - LimitWindow + 1, t) = 0
  <2>1. \A u \in Stretch(0 - LimitWindow + 1, 0) : passed[u] = 0
    BY <1>1 DEF G!Init, Stretch
  <2>2. LimitWindow \in Nat /\ 0 - LimitWindow + 1 \in Int
    BY GatesAssumption
  <2>3. IsFiniteSet(Stretch(0 - LimitWindow + 1, 0))
    <3>1. PICK a \in Int : a = 0 - LimitWindow + 1
      BY <2>2
    <3>3. \A b, c \in Int : IsFiniteSet(Stretch(b, c))
      BY StretchIsFinite, Zenon
    <3>2. IsFiniteSet(Stretch(a, 0))
      BY <3>3
    <3> QED
      BY <3>1, <3>2
  <2>5. Total(passed, Stretch(0 - LimitWindow + 1, 0)) = 0
    BY <2>1, <2>3, TotalOfZeros
  <2> QED
    BY <2>5, <1>3 DEF Through
<1>5. Allowed \in Nat /\ Counted \in Nat /\ Allowed >= route.limit
  BY <1>2, AllowedGrows
<1>6. Carried
  <2>1. Through(passed, now - LimitWindow + 1, now) = 0
    BY <1>3, <1>4
  <2> QED
    BY <1>1, <1>5, <2>1 DEF Carried
<1>7. Earlier
  BY <1>1, <1>4, <1>5 DEF Earlier
<1> QED
  BY <1>2, <1>3, <1>6, <1>7 DEF GatesInv, FirstOpens, TurnedAway, G!Init

LEMMA GatesTick == GatesInv /\ G!Tick => GatesInv'
<1> SUFFICES ASSUME GatesInv, G!Tick PROVE GatesInv'
  OBVIOUS
<1>1. PICK p : p = passed
  OBVIOUS
<1>2. PICK n : n = now
  OBVIOUS
<1>3. PICK w : w = LimitWindow
  OBVIOUS
<1>4. /\ n \in Nat /\ n < MaxTime /\ w \in Nat \ {0} /\ p \in Counts /\ p[n + 1] = 0
      /\ n \in 0 .. MaxTime /\ n + 1 \in 0 .. MaxTime /\ n + 1 \in Nat
      /\ passed' = p /\ now' = n + 1 /\ MaxTime \in Nat
  BY <1>1, <1>2, <1>3, GatesAssumption DEF GatesInv, GatesTyped, G!Tick
<1>5. UNCHANGED <<route, entry, passed, restarts>> /\ answer' = "none"
  BY DEF G!Tick
<1>6. Live' => Live
  BY <1>2, <1>4, <1>5 DEF Live, GatesInv, GatesTyped
<1>7. Opened' = Opened /\ Allowed' = Allowed
  BY <1>5 DEF Opened, Allowed
<1>8. GatesTyped'
  <2>1. Live' => Opened' \in 0 .. now'
    BY <1>2, <1>4, <1>6, <1>7 DEF GatesInv, GatesTyped
  <2>2. \A u \in 0 .. MaxTime : u > now' => passed'[u] = 0
    BY <1>2, <1>4, <1>5 DEF GatesInv, GatesTyped
  <2> QED
    BY <1>4, <1>5, <2>1, <2>2 DEF GatesInv, GatesTyped
<1>9. \A a \in Int : Through(p, a, n + 1) = Through(p, a, n)
  BY <1>4, ThroughWaits
<1>10. FirstOpens'
  <2> SUFFICES ASSUME Live'
               PROVE  /\ Through(p, Opened, n + 1) >= entry.count
                      /\ Through(p, Opened + 1, n + 1) <= entry.count - 1
    BY <1>4, <1>5, <1>7 DEF FirstOpens
  <2>1. /\ Through(p, Opened, n) >= entry.count
        /\ Through(p, Opened + 1, n) <= entry.count - 1
    BY <1>1, <1>2, <1>6 DEF GatesInv, FirstOpens
  <2>2. Opened \in Int /\ Opened + 1 \in Int
    BY <1>6 DEF GatesInv, GatesTyped
  <2>3. Through(p, Opened, n + 1) = Through(p, Opened, n)
    BY <1>9, <2>2
  <2>4. Through(p, Opened + 1, n + 1) = Through(p, Opened + 1, n)
    BY <1>9, <2>2
  <2> QED
    BY <2>1, <2>3, <2>4
<1>11. /\ Allowed \in Nat /\ Counted \in Nat /\ Counted' \in Nat /\ route.limit \in Nat
       /\ Counted <= route.limit /\ Allowed >= route.limit
  <2>1. GatesTyped
    BY DEF GatesInv
  <2>2. Counted' \in Nat
    BY <1>5, <2>1 DEF Counted, GatesTyped
  <2> QED
    BY <2>1, <2>2, AllowedGrows
<1>12. Carried'
  <2> SUFFICES ASSUME route.limit > 0
               PROVE  Through(p, n + 1 - w + 1, n + 1) <= Allowed - 1 + Counted'
    BY <1>3, <1>4, <1>5, <1>7 DEF Carried
  <2> DEFINE a == n - w + 1
  <2>1. a \in Int /\ a + 1 \in Int /\ n + 1 - w + 1 = a + 1
    BY <1>4
  <2>2. Through(p, n + 1 - w + 1, n + 1) = Through(p, a + 1, n)
    BY <1>9, <2>1
  <2> HIDE DEF a
  <2>3. Through(p, a + 1, n) <= Through(p, a, n)
    BY <1>4, <2>1, ThroughOpens
  <2>4. Through(p, a, n) <= Allowed - 1 + Counted
    BY <1>1, <1>2, <1>3 DEF GatesInv, Carried, a
  <2>5. Through(p, a + 1, n) \in Nat /\ Through(p, a, n) \in Nat
    BY <1>4, <2>1, ThroughIsNat
  <2>6. CASE Live' \/ ~Live
    <3>1. Counted' = Counted
      BY <1>5, <1>6, <2>6 DEF Counted
    <3> QED
      BY <1>11, <2>2, <2>3, <2>4, <2>5, <3>1
  <2>7. CASE Live /\ ~Live'
    <3>1. Opened = a
      BY <1>2, <1>3, <1>4, <1>5, <2>7 DEF Live, Opened, a, GatesInv, GatesTyped
    <3>2. Through(p, a + 1, n) <= entry.count - 1 /\ entry.count <= route.limit
      BY <1>1, <1>2, <2>7, <3>1 DEF GatesInv, FirstOpens, GatesTyped
    <3>3. entry.count \in Nat
      BY DEF GatesInv, GatesTyped
    <3> QED
      BY <1>11, <2>2, <2>5, <3>2, <3>3
  <2> QED
    BY <2>6, <2>7
<1>13. Earlier'
  <2> SUFFICES ASSUME route.limit > 0, NEW t \in 0 .. n + 1
               PROVE  Through(p, t - w + 1, t) <= Allowed + route.limit - 1
    BY <1>3, <1>4, <1>5, <1>7, Zenon DEF Earlier
  <2>1. CASE t \in 0 .. n
    BY <1>1, <1>2, <1>3, <2>1 DEF GatesInv, Earlier
  <2>2. CASE t = n + 1
    <3>0. PICK a : a = t - w + 1
      OBVIOUS
    <3>1. Through(p, a, t) <= Allowed - 1 + Counted'
      BY <1>3, <1>4, <1>5, <1>7, <1>12, <2>2, <3>0 DEF Carried
    <3>2. Counted' <= route.limit
      BY <1>5, <1>11 DEF Counted, GatesInv, GatesTyped
    <3>3. a \in Int /\ t \in 0 .. MaxTime
      BY <1>4, <2>2, <3>0
    <3>4. Through(p, a, t) \in Nat
      BY <1>4, <3>3, ThroughIsNat
    <3>5. Through(p, a, t) <= Allowed + route.limit - 1
      BY <1>11, <3>1, <3>2, <3>4
    <3> QED
      BY <3>0, <3>5
  <2> QED
    BY <1>4, <2>1, <2>2
<1> QED
  BY <1>5, <1>8, <1>10, <1>12, <1>13 DEF GatesInv, TurnedAway

\* A process that begins anew may let one more entry's worth through.
LEMMA GatesRestart == GatesInv /\ G!Restart => GatesInv'
<1> SUFFICES ASSUME GatesInv, G!Restart PROVE GatesInv'
  OBVIOUS
<1>1. /\ UNCHANGED <<route, now, passed, answer>> /\ entry'.count = 0 /\ entry'.resetAt = 0
      /\ restarts' = restarts + 1 /\ GatesTyped
  BY DEF G!Restart, GatesInv
<1>2. ~Live' /\ Counted' = 0
  BY <1>1 DEF Live, Counted
<1>4. /\ Allowed \in Nat /\ Counted \in Nat /\ route.limit \in Nat
      /\ Counted <= route.limit /\ Allowed >= route.limit
  BY <1>1, AllowedGrows
<1>3. GatesTyped'
  BY <1>1, <1>2, <1>4 DEF GatesTyped
<1>5. Allowed' = Allowed + route.limit
  <2>1. \A r, k \in Nat : (1 + (r + 1)) * k = (1 + r) * k + k
    OBVIOUS
  <2> QED
    BY <1>1, <1>4, <2>1 DEF Allowed, GatesTyped
<1>6. /\ now \in 0 .. MaxTime /\ now \in Nat /\ passed \in Counts /\ LimitWindow \in Nat
      /\ MaxTime \in Nat
  BY <1>1, GatesAssumption DEF GatesTyped
<1>7. Carried'
  <2> SUFFICES ASSUME route.limit > 0
               PROVE  Through(passed, now - LimitWindow + 1, now) <= Allowed' - 1 + Counted'
    BY <1>1 DEF Carried
  <2>1. PICK x : x = Through(passed, now - LimitWindow + 1, now)
    OBVIOUS
  <2>2. x <= Allowed - 1 + Counted
    BY <2>1 DEF GatesInv, Carried
  <2>3. x \in Nat
    <3>1. now - LimitWindow + 1 \in Int
      BY <1>6
    <3> QED
      BY <1>6, <2>1, <3>1, ThroughIsNat
  <2> QED
    BY <1>2, <1>4, <1>5, <2>1, <2>2, <2>3
<1>8. Earlier'
  <2> SUFFICES ASSUME route.limit > 0, NEW t \in 0 .. now
               PROVE  Through(passed, t - LimitWindow + 1, t) <= Allowed' + route.limit - 1
    BY <1>1 DEF Earlier
  <2>1. PICK x : x = Through(passed, t - LimitWindow + 1, t)
    OBVIOUS
  <2>2. x <= Allowed + route.limit - 1
    BY <2>1 DEF GatesInv, Earlier
  <2>3. x \in Nat
    <3>1. t - LimitWindow + 1 \in Int /\ t \in 0 .. MaxTime
      BY <1>6
    <3> QED
      BY <1>6, <2>1, <3>1, ThroughIsNat
  <2> QED
    BY <1>4, <1>5, <2>1, <2>2, <2>3
<1> QED
  BY <1>1, <1>2, <1>3, <1>7, <1>8 DEF GatesInv, FirstOpens, TurnedAway

\* A request that the limit lets through.
LEMMA GatesPass ==
    ASSUME GatesInv, UNCHANGED <<route, now, restarts>>, answer' # "limit", route.limit > 0,
           G!Success, entry' = G!assertRateLimit, passed' = [passed EXCEPT ![now] = @ + 1]
    PROVE  GatesInv'
<1>1. PICK p : p = passed
  OBVIOUS
<1>2. PICK n : n = now
  OBVIOUS
<1>3. PICK w : w = LimitWindow
  OBVIOUS
<1>4. PICK q : q = passed'
  OBVIOUS
<1>5. /\ n \in Nat /\ w \in Nat \ {0} /\ p \in Counts /\ n \in 0 .. MaxTime /\ MaxTime \in Nat
      /\ q = [p EXCEPT ![n] = @ + 1]
  BY <1>1, <1>2, <1>3, <1>4, GatesAssumption DEF GatesInv, GatesTyped
<1>6. /\ q \in Counts
      /\ \A a \in Int : /\ \A b \in 0 .. n : b < n => Through(q, a, b) = Through(p, a, b)
                        /\ a <= n => Through(q, a, n) = Through(p, a, n) + 1
                        /\ a > n => Through(q, a, n) = 0
  <2>1. /\ n \in 0 .. n /\ q \in Counts /\ q[n] = p[n] + 1
        /\ \A u \in 0 .. MaxTime : u # n => q[u] = p[u]
    BY <1>5 DEF Counts
  <2>2. ASSUME NEW a \in Int
        PROVE  /\ a <= n => Through(q, a, n) = Through(p, a, n) + 1
               /\ a > n => Through(q, a, n) = 0
    BY <1>5, <2>1, ThroughCounts
  <2>3. ASSUME NEW a \in Int, NEW b \in 0 .. n, b < n PROVE Through(q, a, b) = Through(p, a, b)
    <3>1. b \in 0 .. MaxTime /\ \A u \in 0 .. b : q[u] = p[u]
      BY <1>5, <2>1, <2>3
    <3> QED
      BY <1>5, <3>1, ThroughKeeps
  <2> QED
    BY <2>1, <2>2, <2>3
<1>7. GatesTyped /\ Allowed' = Allowed /\ entry.count \in Nat /\ entry.resetAt \in Nat
  BY DEF GatesInv, GatesTyped, Allowed
<1>8. /\ Allowed \in Nat /\ Counted \in Nat /\ route.limit \in Nat
      /\ Counted <= route.limit /\ Allowed >= route.limit
  BY <1>7, AllowedGrows
<1>9. \/ ~Live /\ entry' = [count |-> 1, resetAt |-> n + w]
      \/ Live /\ entry' = [count |-> entry.count + 1, resetAt |-> entry.resetAt]
              /\ entry.count < route.limit
  BY <1>2, <1>3, <1>5, <1>7, <1>8 DEF G!Success, G!assertRateLimit, Live
<1>10. Live' /\ Counted' = entry'.count /\ Counted' = Counted + 1 /\ Counted' <= route.limit
       /\ (~Live => Opened' = n) /\ (Live => Opened' = Opened)
  BY <1>2, <1>3, <1>5, <1>7, <1>8, <1>9 DEF Live, Counted, Opened
<1>11. GatesTyped'
  <2>1. Opened' \in 0 .. now'
    BY <1>2, <1>5, <1>7, <1>10 DEF GatesTyped
  <2>2. entry'.count \in Nat /\ entry'.resetAt \in Nat /\ entry'.count <= route'.limit
    BY <1>5, <1>7, <1>8, <1>9, <1>10
  <2>3. \A u \in 0 .. MaxTime : u > now' => passed'[u] = 0
    BY <1>1, <1>2, <1>4, <1>5, <1>7 DEF GatesTyped, Counts
  <2>4. passed' \in Counts
    BY <1>4, <1>6
  <2> QED
    BY <1>7, <2>1, <2>2, <2>3, <2>4 DEF GatesTyped
<1>12. FirstOpens'
  <2> SUFFICES /\ Through(q, Opened', n) >= entry'.count
               /\ Through(q, Opened' + 1, n) <= entry'.count - 1
    BY <1>2, <1>4 DEF FirstOpens
  <2>1. CASE ~Live
    <3>1. PICK k \in Int : k = n + 1 /\ k > n /\ n \in Int /\ n <= n
      BY <1>5
    <3>2. Through(q, n, n) = Through(p, n, n) + 1
      BY <1>6, <3>1
    <3>3. Through(q, k, n) = 0
      BY <1>6, <3>1
    <3>4. Through(p, n, n) \in Nat
      BY <1>5, ThroughIsNat
    <3>5. entry'.count = 1 /\ Opened' = n /\ Opened' + 1 = k
      <4>1. entry'.count = 1
        BY <1>9, <2>1
      <4>2. Opened' = n
        BY <1>10, <2>1
      <4> QED
        BY <3>1, <4>1, <4>2
    <3> QED
      BY <3>2, <3>3, <3>4, <3>5
  <2>2. CASE Live
    <3>1. PICK o : o = Opened
      OBVIOUS
    <3>2. o \in Int /\ o <= n
      BY <1>2, <1>5, <1>7, <2>2, <3>1 DEF GatesTyped
    <3>3. PICK k \in Int : k = o + 1
      BY <3>2
    <3>4. Through(p, o, n) >= entry.count /\ Through(p, k, n) <= entry.count - 1
      BY <1>1, <1>2, <2>2, <3>1, <3>3 DEF GatesInv, FirstOpens
    <3>5. Through(q, o, n) = Through(p, o, n) + 1
      BY <1>6, <3>2
    <3>6. Through(q, k, n) = Through(p, k, n) + 1 \/ Through(q, k, n) = 0
      <4>1. k <= n \/ k > n
        BY <1>5
      <4> QED
        BY <1>6, <4>1
    <3>7. Through(p, o, n) \in Nat /\ Through(p, k, n) \in Nat
      BY <1>5, <3>2, ThroughIsNat
    <3>8. entry'.count = entry.count + 1 /\ Opened' = o /\ Opened' + 1 = k
      <4>1. entry'.count = entry.count + 1
        BY <1>9, <2>2
      <4>2. Opened' = o
        BY <1>10, <2>2, <3>1
      <4> QED
        BY <3>3, <4>1, <4>2
    <3>9. Through(q, o, n) >= entry.count + 1
      BY <1>7, <3>4, <3>5, <3>7
    <3>10. Through(q, k, n) <= entry.count
      BY <1>7, <3>4, <3>6, <3>7
    <3> QED
      BY <1>7, <3>8, <3>9, <3>10
  <2> QED
    BY <2>1, <2>2
<1>13. Through(q, n - w + 1, n) \in Nat /\ Through(q, n - w + 1, n) <= Allowed - 1 + Counted'
  <2>1. PICK a \in Int : a = n - w + 1 /\ a <= n
    BY <1>5
  <2>2. Through(q, a, n) = Through(p, a, n) + 1
    BY <1>6, <2>1
  <2>3. Through(p, a, n) <= Allowed - 1 + Counted
    BY <1>1, <1>2, <1>3, <2>1 DEF GatesInv, Carried
  <2>4. Through(p, a, n) \in Nat
    BY <1>5, <2>1, ThroughIsNat
  <2>5. Through(q, a, n) \in Nat /\ Through(q, a, n) <= Allowed - 1 + Counted'
    BY <1>8, <1>10, <2>2, <2>3, <2>4
  <2> QED
    BY <2>1, <2>5
<1>14. Carried'
  BY <1>2, <1>3, <1>4, <1>7, <1>13 DEF Carried
<1>15. Earlier'
  <2> SUFFICES ASSUME NEW t \in 0 .. n
               PROVE  Through(q, t - w + 1, t) <= Allowed + route.limit - 1
    BY <1>2, <1>3, <1>4, <1>7 DEF Earlier
  <2>1. CASE t < n
    <3>1. PICK a \in Int : a = t - w + 1
      BY <1>5
    <3>2. Through(q, a, t) = Through(p, a, t)
      BY <1>6, <2>1
    <3>3. Through(p, a, t) <= Allowed + route.limit - 1
      BY <1>1, <1>2, <1>3, <3>1 DEF GatesInv, Earlier
    <3> QED
      BY <3>1, <3>2, <3>3
  <2>2. CASE t = n
    <3>1. PICK x : x = Through(q, n - w + 1, n)
      OBVIOUS
    <3>2. x <= Allowed + route.limit - 1
      BY <1>8, <1>10, <1>13, <3>1
    <3> QED
      BY <2>2, <3>1, <3>2
  <2> QED
    BY <1>5, <2>1, <2>2
<1> QED
  BY <1>11, <1>12, <1>14, <1>15 DEF GatesInv, TurnedAway

\* A request that an entry turns away.
LEMMA GatesRefuse ==
    ASSUME GatesInv, UNCHANGED <<route, now, restarts, entry, passed>>,
           entry.count # 0, ~(entry.resetAt <= now), ~(entry.count < route.limit)
    PROVE  GatesInv'
<1>1. /\ GatesTyped /\ now \in Nat /\ now \in 0 .. MaxTime /\ LimitWindow \in Nat /\ passed \in Counts
      /\ entry.count \in Nat /\ entry.resetAt \in Nat /\ route.limit \in Nat
  BY GatesAssumption, RoutesAreLimited DEF GatesInv, GatesTyped
<1>2. Live /\ entry.count = route.limit
  BY <1>1 DEF Live, GatesTyped
<1>3. PICK o \in Int : o = Opened
  BY <1>1, <1>2 DEF GatesTyped
<1>4. PICK a \in Int : a = now - LimitWindow + 1
  BY <1>1
<1>5. a <= o
  BY <1>1, <1>2, <1>3, <1>4 DEF Live, Opened
<1>6. Through(passed, a, now) >= Through(passed, o, now)
  BY <1>1, <1>5, ThroughGrows
<1>7. Through(passed, o, now) >= route.limit
  BY <1>2, <1>3 DEF GatesInv, FirstOpens
<1>8. Through(passed, a, now) \in Nat /\ Through(passed, o, now) \in Nat
  BY <1>1, ThroughIsNat
<1>9. Through(passed, a, now) >= route.limit
  BY <1>1, <1>6, <1>7, <1>8
<1>10. TurnedAway'
  BY <1>4, <1>9 DEF TurnedAway
<1> QED
  BY <1>10 DEF GatesInv, GatesTyped, FirstOpens, Carried, Earlier, Live, Opened, Allowed, Counted

LEMMA GatesStep == GatesInv /\ [G!Next]_gateVars => GatesInv'
<1> SUFFICES ASSUME GatesInv, [G!Next]_gateVars PROVE GatesInv'
  OBVIOUS
<1>1. CASE G!Call
  <2>1. route \in G!Routes /\ entry.count \in Nat
    BY DEF GatesInv, GatesTyped
  <2>2. /\ UNCHANGED <<route, now, restarts>>
        /\ \/ UNCHANGED <<entry, passed>> /\ answer' # "limit"
           \/ /\ route.limit > 0 /\ G!Success /\ answer' # "limit"
              /\ entry' = G!assertRateLimit /\ passed' = [passed EXCEPT ![now] = @ + 1]
           \/ /\ UNCHANGED <<entry, passed>>
              /\ entry.count # 0 /\ ~(entry.resetAt <= now) /\ ~(entry.count < route.limit)
    BY <1>1, <2>1, CallsCount
  <2>3. CASE UNCHANGED <<route, now, restarts, entry, passed>> /\ answer' # "limit"
    BY <2>3 DEF GatesInv, GatesTyped, FirstOpens, Carried, Earlier, TurnedAway, Live, Opened,
                Allowed, Counted
  <2> QED
    BY <2>2, <2>3, GatesPass, GatesRefuse
<1>2. CASE UNCHANGED gateVars
  BY <1>2 DEF gateVars, GatesInv, GatesTyped, FirstOpens, Carried, Earlier, TurnedAway, Live,
              Opened, Allowed, Counted
<1> QED
  BY <1>1, <1>2, GatesTick, GatesRestart DEF G!Next

LEMMA GatesTell == GatesInv => G!LimitHolds
<1> SUFFICES ASSUME GatesInv PROVE G!LimitHolds
  OBVIOUS
<1>1. /\ GatesTyped /\ now \in Nat /\ MaxTime \in Nat /\ now \in 0 .. MaxTime /\ LimitWindow \in Nat
      /\ passed \in Counts /\ restarts \in Nat
  BY GatesAssumption DEF GatesInv, GatesTyped
<1>2. Allowed \in Nat /\ route.limit \in Nat /\ Allowed + route.limit = (2 + restarts) * route.limit
  <2>1. \A r, k \in Nat : (1 + r) * k + k = (2 + r) * k
    OBVIOUS
  <2> QED
    BY <1>1, <2>1, AllowedGrows DEF Allowed
<1>3. \A t \in 0 .. now : /\ t - LimitWindow + 1 \in Int /\ t \in Int /\ t \in 0 .. MaxTime
                          /\ G!LetThrough(t - LimitWindow + 1, t) = Through(passed, t - LimitWindow + 1, t)
  BY <1>1, LetThroughIsTotal DEF Through
<1>4. answer = "limit" => G!LetThrough(now - LimitWindow + 1, now) >= route.limit
  BY <1>1, <1>3 DEF GatesInv, TurnedAway
<1>5. ASSUME route.limit > 0, NEW t \in 0 .. now
      PROVE  G!LetThrough(t - LimitWindow + 1, t) < (2 + restarts) * route.limit
  <2>1. PICK x : x = Through(passed, t - LimitWindow + 1, t)
    OBVIOUS
  <2>2. x \in Nat
    BY <1>1, <1>3, <2>1, ThroughIsNat
  <2>3. x <= Allowed + route.limit - 1
    BY <1>5, <2>1 DEF GatesInv, Earlier
  <2>4. x < Allowed + route.limit
    BY <1>2, <2>2, <2>3
  <2> QED
    BY <1>2, <1>3, <2>1, <2>4
<1> QED
  BY <1>4, <1>5 DEF G!LimitHolds

\* Whatever the routes and their limits, and however calls, ticks and restarts fall: a
\* caller is turned away only when the window before it let through as many as the limit,
\* and no window lets through two limits, and one more for each process begun anew
\* (rate-limit.ts).
THEOREM LimitsAreKept == PagesSpec => []LimitsHold
<1> DEFINE Inv == open = "gates" => GatesInv
<1>1. OpenInit => Inv
  BY GatesStart DEF OpenInit
<1>2. Inv /\ [OpenNext]_allVars => Inv'
  BY PageMoves, GatesStep
<1>3. Inv => LimitsHold
  BY GatesTell DEF LimitsHold
<1> QED
  BY <1>1, <1>2, <1>3, PTL DEF PagesSpec

-----------------------------------------------------------------------------
(* The settings page.                                                        *)

Keys == Devices \cup {NoDevice}
Do == [action : S!Actions \cup {"none"}, device : Keys, of : Nat]
Places == {"idle", "sent", "options", "verifying", "accepted", "refused", "reauth",
           "rerunning"}
Calls == [do : Do, at : Places, result : Nat, passkeys : SUBSET Keys, by : {0}]
Panels == [enabled : BOOLEAN, setup : Nat, codes : Nat, passkeys : SUBSET Keys, card : BOOLEAN,
           working : [S!Kinds -> BOOLEAN]]

SettingsTyped ==
    /\ stored \in [mfa : {"off", "prepared", "on"}, key : Nat, codes : Nat, passkeys : SUBSET Keys]
    /\ panel \in Panels /\ pending \in Do /\ call \in [S!Slots -> Calls]
    /\ confirm \in [at : Places, then : Do]
    /\ serial \in Nat /\ lost \in Nat /\ overlapped \in BOOLEAN /\ challenge \in Nat
    /\ recent \in BOOLEAN /\ reran \subseteq S!Kinds /\ clicks \in Nat

LEMMA KindsOfActions == \A action : S!KindOf(action) \in S!Kinds
BY DEF S!KindOf, S!Kinds

LEMMA NothingIsTyped == S!None \in Do /\ S!NoCall \in Calls /\ S!NoCall.at = "idle"
<1>1. S!None \in Do
  <2>1. S!None = [action |-> "none", device |-> NoDevice, of |-> 0]
    BY DEF S!None
  <2>2. NoDevice \in Keys
    BY DEF Keys
  <2>3. "none" \in S!Actions \cup {"none"}
    OBVIOUS
  <2> QED
    BY <2>1, <2>2, <2>3 DEF Do
<1>2. S!NoCall \in Calls /\ S!NoCall.at = "idle"
  <2>1. {} \in SUBSET Keys
    OBVIOUS
  <2>2. \A do \in Do, K \in SUBSET Keys :
          [do |-> do, at |-> "idle", result |-> 0, passkeys |-> K, by |-> 0] \in Calls
    BY DEF Calls, Places
  <2> QED
    BY <1>1, <2>1, <2>2 DEF S!NoCall
<1> QED
  BY <1>1, <1>2

LEMMA SettingsStart == S!Init => SettingsTyped
<1> SUFFICES ASSUME S!Init PROVE SettingsTyped
  OBVIOUS
<1>1. panel \in Panels
  BY DEF S!Init, Panels
<1>2. pending \in Do /\ call \in [S!Slots -> Calls] /\ confirm \in [at : Places, then : Do]
  BY NothingIsTyped DEF S!Init, S!NoConfirm, Places
<1> QED
  BY <1>1, <1>2 DEF S!Init, SettingsTyped

LEMMA AnswersAreTyped ==
    ASSUME call \in [S!Slots -> Calls], NEW s \in S!Slots, NEW where \in Places, NEW r \in Nat,
           NEW K \in SUBSET Keys, S!Answer(s, where, r, K)
    PROVE  /\ call' \in [S!Slots -> Calls]
           /\ \A t \in S!Slots \ {s} : call'[t] = call[t]
           /\ call'[s].do = call[s].do /\ call'[s].at = where /\ call'[s].result = r
           /\ call'[s].passkeys = K
BY DEF S!Answer, Calls

LEMMA StartsAreTyped ==
    ASSUME call \in [S!Slots -> Calls], NEW s \in S!Slots, NEW do \in Do, S!Starts(s, do)
    PROVE  /\ call' \in [S!Slots -> Calls]
           /\ \A t \in S!Slots \ {s} : call'[t] = call[t]
           /\ call'[s].do = do /\ call'[s].at = "sent"
<1>1. call' = [call EXCEPT ![s] = [S!NoCall EXCEPT !.do = do, !.at = "sent"]]
  BY DEF S!Starts
<1> DEFINE new == [S!NoCall EXCEPT !.do = do, !.at = "sent"]
<1>2. new \in Calls /\ new.do = do /\ new.at = "sent"
  BY NothingIsTyped DEF Calls, Places
<1> HIDE DEF new
<1> QED
  BY <1>1, <1>2 DEF new

LEMMA EndsAreTyped ==
    ASSUME call \in [S!Slots -> Calls], NEW s \in S!Slots, S!Ends(s)
    PROVE  /\ call' \in [S!Slots -> Calls]
           /\ \A t \in S!Slots \ {s} : call'[t] = call[t]
           /\ call'[s].at = "idle"
           /\ confirm' = IF s = "rerun" THEN S!NoConfirm ELSE confirm
BY NothingIsTyped DEF S!Ends, S!EndsConfirm

LEMMA ShownIsTyped ==
    ASSUME panel \in Panels, NEW c \in Calls
    PROVE  S!Shown(c) \in Panels /\ S!Shown(c).working = panel.working
<1> USE DEF Panels, Calls
<1>1. CASE c.do.action = "setup"
  BY <1>1 DEF S!Shown
<1>2. CASE c.do.action = "verify"
  BY <1>2 DEF S!Shown
<1>3. CASE c.do.action = "regenerate"
  BY <1>3 DEF S!Shown
<1>4. CASE c.do.action = "disable"
  BY <1>4 DEF S!Shown
<1>5. CASE c.do.action \in {"register", "remove"}
  BY <1>5 DEF S!Shown
<1>6. CASE c.do.action \notin {"setup", "verify", "regenerate", "disable", "register", "remove"}
  BY <1>6 DEF S!Shown
<1> QED
  BY <1>1, <1>2, <1>3, <1>4, <1>5, <1>6

Busy(s) == call[s].at # "idle"
\* A panel that shows what is stored.
Agrees(p) ==
    /\ p.enabled = (stored.mfa = "on") /\ p.passkeys = stored.passkeys
    /\ p.setup # 0 => stored.mfa = "prepared" /\ stored.key = p.setup
    /\ p.codes # 0 => p.codes = stored.codes

RerunIsKnown ==
    /\ Busy("rerun") <=> confirm.at = "rerunning"
    /\ Busy("rerun") => S!KindIn("rerun") \in reran
FreedInv == \A k \in S!Kinds : panel.working[k] =>
    k \in reran \/ \E s \in S!Slots : Busy(s) /\ S!KindIn(s) = k
Registers == \A s \in S!Slots : call[s].at \in {"options", "verifying"} =>
                                  call[s].do.action = "register"
NoSparesOff == stored.mfa # "on" => stored.codes = 0
OneAtATime == ~overlapped => \A s, t \in S!Slots : s = t \/ ~Busy(s) \/ ~Busy(t)
AgreeInv == lost = 0 /\ ~overlapped =>
    /\ (\A s \in S!Slots : call[s].at # "accepted") => Agrees(panel)
    /\ \A s \in S!Slots : call[s].at = "accepted" => Agrees(S!Shown(call[s]))

SettingsInv == /\ SettingsTyped /\ RerunIsKnown /\ FreedInv /\ Registers /\ NoSparesOff
               /\ OneAtATime /\ AgreeInv

\* What a route answers leaves the page as it is.
LEMMA ServesKeep ==
    ASSUME SettingsTyped, NEW s \in S!Slots, S!Serve(s)
    PROVE  /\ UNCHANGED <<recent, panel, pending, confirm, clicks, lost, overlapped, reran>>
           /\ call' \in [S!Slots -> Calls] /\ call'[s].do = call[s].do
           /\ \A t \in S!Slots \ {s} : call'[t] = call[t]
           /\ call[s].at \in {"sent", "options", "verifying"} /\ call'[s].at # "idle"
<1> USE DEF SettingsTyped, Places
<1>0. /\ call \in [S!Slots -> Calls] /\ stored.passkeys \in SUBSET Keys /\ {} \in SUBSET Keys
      /\ serial \in Nat /\ serial + 1 \in Nat /\ call[s].result \in Nat /\ call[s].do.device \in Keys
  BY DEF Calls, Do
<1>1. CASE S!Totp(s)
  <2>1. PICK r \in Nat : S!Answer(s, "accepted", r, {})
    BY <1>0, <1>1 DEF S!Totp
  <2> QED
    BY <1>0, <1>1, <2>1, AnswersAreTyped DEF S!Totp, S!counts
<1>2. CASE S!ChangePassword(s)
  <2>1. S!Answer(s, "accepted", 0, {})
    BY <1>2 DEF S!ChangePassword
  <2> QED
    BY <1>0, <1>2, <2>1, AnswersAreTyped DEF S!ChangePassword, S!counts, S!server
<1>3. CASE S!RegistrationOptions(s)
  <2>1. S!Answer(s, "options", serial + 1, stored.passkeys)
    BY <1>3 DEF S!RegistrationOptions
  <2> QED
    BY <1>0, <1>3, <2>1, AnswersAreTyped DEF S!RegistrationOptions, S!counts
<1>4. CASE S!Ceremony(s)
  <2>1. PICK where \in {"verifying", "refused"}, r \in Nat : S!Answer(s, where, r, {})
    BY <1>0, <1>4 DEF S!Ceremony
  <2> QED
    BY <1>0, <1>4, <2>1, AnswersAreTyped DEF S!Ceremony, S!counts
<1>5. CASE S!verifyPasskeyRegistration(s)
  <2>1. PICK K \in SUBSET Keys : S!Answer(s, "accepted", 0, K)
    BY <1>0, <1>5 DEF S!verifyPasskeyRegistration
  <2> QED
    BY <1>0, <1>5, <2>1, AnswersAreTyped DEF S!verifyPasskeyRegistration, S!counts
<1>6. CASE S!deleteUserPasskey(s)
  <2>1. PICK K \in SUBSET Keys : S!Answer(s, "accepted", 0, K)
    BY <1>0, <1>6 DEF S!deleteUserPasskey
  <2> QED
    BY <1>0, <1>6, <2>1, AnswersAreTyped DEF S!deleteUserPasskey, S!counts
<1>7. CASE S!AsksToConfirm(s) \/ S!Refuse(s)
  <2>1. PICK where \in {"reauth", "refused"} : S!Answer(s, where, 0, {})
    BY <1>7 DEF S!AsksToConfirm, S!Refuse
  <2> QED
    BY <1>0, <1>7, <2>1, AnswersAreTyped DEF S!AsksToConfirm, S!Refuse, S!counts, S!server, S!Requests
<1> QED
  BY <1>1, <1>2, <1>3, <1>4, <1>5, <1>6, <1>7 DEF S!Serve

LEMMA ServesAreTyped ==
    ASSUME SettingsTyped, NEW s \in S!Slots, S!Serve(s)
    PROVE  SettingsTyped'
<1>1. /\ UNCHANGED <<recent, panel, pending, confirm, clicks, lost, overlapped, reran>>
      /\ call' \in [S!Slots -> Calls]
  BY ServesKeep
<1>2. serial' \in Nat
  BY DEF SettingsTyped, S!Serve, S!Totp, S!ChangePassword, S!RegistrationOptions, S!Ceremony,
         S!verifyPasskeyRegistration, S!deleteUserPasskey, S!AsksToConfirm, S!Refuse, S!server
<1>3. challenge' \in Nat
  BY DEF SettingsTyped, S!Serve, S!Totp, S!ChangePassword, S!RegistrationOptions, S!Ceremony,
         S!verifyPasskeyRegistration, S!deleteUserPasskey, S!AsksToConfirm, S!Refuse, S!server,
         Calls
<1>4. stored' \in [mfa : {"off", "prepared", "on"}, key : Nat, codes : Nat, passkeys : SUBSET Keys]
  <2>1. serial + 1 \in Nat /\ call[s].do.device \in Keys
    BY DEF SettingsTyped, Calls, Do
  <2>2. CASE UNCHANGED stored
    BY <2>2 DEF SettingsTyped
  <2>3. CASE S!Totp(s)
    <3>1. PICK n \in Nat : \/ stored' = [stored EXCEPT !.mfa = "prepared", !.key = n, !.codes = 0]
                           \/ stored' = [stored EXCEPT !.mfa = "on", !.codes = n]
                           \/ stored' = [stored EXCEPT !.codes = n]
                           \/ stored' = [stored EXCEPT !.mfa = "off", !.key = 0, !.codes = 0]
      BY <2>1, <2>3 DEF S!Totp
    <3>2. stored \in [mfa : {"off", "prepared", "on"}, key : Nat, codes : Nat,
                      passkeys : SUBSET Keys]
      BY DEF SettingsTyped
    <3>3. CASE stored' = [stored EXCEPT !.mfa = "prepared", !.key = n, !.codes = 0]
      BY <3>2, <3>3
    <3>4. CASE stored' = [stored EXCEPT !.mfa = "on", !.codes = n]
      BY <3>2, <3>4
    <3>5. CASE stored' = [stored EXCEPT !.codes = n]
      BY <3>2, <3>5
    <3>6. CASE stored' = [stored EXCEPT !.mfa = "off", !.key = 0, !.codes = 0]
      BY <3>2, <3>6
    <3> QED
      BY <3>1, <3>3, <3>4, <3>5, <3>6
  <2>4. CASE S!verifyPasskeyRegistration(s) \/ S!deleteUserPasskey(s)
    BY <2>1, <2>4 DEF SettingsTyped, S!verifyPasskeyRegistration, S!deleteUserPasskey
  <2> QED
    BY <2>2, <2>3, <2>4 DEF S!Serve, S!ChangePassword, S!RegistrationOptions, S!Ceremony,
       S!AsksToConfirm, S!Refuse, S!server
<1> QED
  BY <1>1, <1>2, <1>3, <1>4 DEF SettingsTyped

LEMMA ServesStep ==
    ASSUME SettingsInv, NEW s \in S!Slots, S!Serve(s)
    PROVE  SettingsInv'
<1>1. /\ UNCHANGED <<recent, panel, pending, confirm, clicks, lost, overlapped, reran>>
      /\ call' \in [S!Slots -> Calls] /\ call'[s].do = call[s].do
      /\ \A t \in S!Slots \ {s} : call'[t] = call[t]
      /\ call[s].at \in {"sent", "options", "verifying"} /\ call'[s].at # "idle"
      /\ SettingsTyped /\ SettingsTyped'
  BY ServesKeep, ServesAreTyped DEF SettingsInv
<1>2. \A t \in S!Slots : /\ Busy(t)' <=> Busy(t)
                         /\ S!KindIn(t)' = S!KindIn(t)
  BY <1>1 DEF Busy, S!KindIn
<1>3. RerunIsKnown'
  BY <1>1, <1>2 DEF SettingsInv, RerunIsKnown, S!Slots
<1>4. FreedInv'
  BY <1>1, <1>2 DEF SettingsInv, FreedInv
<1>5. Registers'
  <2>1. call'[s].at \in {"options", "verifying"} => call[s].do.action = "register"
    BY DEF SettingsInv, Registers, S!Serve, S!Totp, S!ChangePassword, S!RegistrationOptions,
           S!Ceremony, S!verifyPasskeyRegistration, S!deleteUserPasskey, S!AsksToConfirm,
           S!Refuse, S!Answer, SettingsTyped, Calls
  <2> QED
    BY <1>1, <2>1 DEF SettingsInv, Registers
<1>6. OneAtATime'
  BY <1>1, <1>2 DEF SettingsInv, OneAtATime
<1>7. stored' = stored \/ S!Totp(s) \/ S!verifyPasskeyRegistration(s) \/ S!deleteUserPasskey(s)
  BY DEF S!Serve, S!ChangePassword, S!RegistrationOptions, S!Ceremony, S!AsksToConfirm, S!Refuse,
         S!server
<1>8. /\ stored \in [mfa : {"off", "prepared", "on"}, key : Nat, codes : Nat, passkeys : SUBSET Keys]
      /\ panel \in Panels /\ call \in [S!Slots -> Calls]
  BY DEF SettingsInv, SettingsTyped
<1>9. NoSparesOff'
  <2>1. CASE stored' = stored
    BY <2>1 DEF SettingsInv, NoSparesOff
  <2>2. CASE S!Totp(s)
    BY <1>8, <2>2 DEF SettingsInv, NoSparesOff, S!Totp
  <2>3. CASE S!verifyPasskeyRegistration(s) \/ S!deleteUserPasskey(s)
    BY <1>8, <2>3 DEF SettingsInv, NoSparesOff, S!verifyPasskeyRegistration, S!deleteUserPasskey
  <2> QED
    BY <1>7, <2>1, <2>2, <2>3
<1>10. AgreeInv'
  <2> SUFFICES ASSUME lost = 0, ~overlapped
               PROVE  /\ (\A t \in S!Slots : call'[t].at # "accepted") => Agrees(panel)'
                      /\ \A t \in S!Slots : call'[t].at = "accepted" => Agrees(S!Shown(call[t]))'
    BY <1>1 DEF AgreeInv
  <2>1. \A t \in S!Slots \ {s} : ~Busy(t)
    BY <1>1 DEF SettingsInv, OneAtATime, Busy
  <2>2. Agrees(panel)
    BY <1>1, <2>1 DEF SettingsInv, AgreeInv, Busy
  <2>3. \A t \in S!Slots : call'[t].at = "accepted" => t = s
    BY <1>1, <2>1 DEF Busy
  <2>4. CASE call'[s].at # "accepted"
    <3>1. stored' = stored
      BY <2>4, <1>8 DEF S!Serve, S!Totp, S!ChangePassword, S!RegistrationOptions, S!Ceremony,
         S!verifyPasskeyRegistration, S!deleteUserPasskey, S!AsksToConfirm, S!Refuse, S!server,
         S!Answer, Calls
    <3> QED
      BY <1>1, <2>2, <2>3, <2>4, <3>1 DEF Agrees
  <2>5. ASSUME call'[s].at = "accepted" PROVE Agrees(S!Shown(call[s]))'
    <3>1. /\ stored.passkeys = panel.passkeys /\ (panel.codes # 0 => panel.codes = stored.codes)
          /\ panel.enabled = (stored.mfa = "on")
          /\ panel.setup # 0 => stored.mfa = "prepared" /\ stored.key = panel.setup
          /\ stored.mfa # "on" => stored.codes = 0
          /\ panel' = panel
      BY <1>1, <2>2 DEF Agrees, SettingsInv, NoSparesOff
    <3>2. PICK c : c = call'[s]
      OBVIOUS
    <3>3. c.do = call[s].do /\ c \in Calls
      BY <1>1, <3>2
    <3>4. S!Shown(call[s])' = S!Shown(c)
      BY <3>1, <3>2 DEF S!Shown
    <3>5. PICK p : p = S!Shown(c)
      OBVIOUS
    <3> SUFFICES /\ p.enabled = (stored'.mfa = "on") /\ p.passkeys = stored'.passkeys
                 /\ p.setup # 0 => stored'.mfa = "prepared" /\ stored'.key = p.setup
                 /\ p.codes # 0 => p.codes = stored'.codes
      BY <3>4, <3>5 DEF Agrees
    <3>6. c.at = "accepted"
      BY <2>5, <3>2
    <3>7. CASE S!Totp(s)
      <4>1. PICK n : n = serial + 1
        OBVIOUS
      <4>2. c.result = IF c.do.action = "disable" THEN 0 ELSE n
        BY <1>8, <3>2, <3>3, <3>7, <4>1 DEF S!Totp, S!Answer, Calls
      <4>3. CASE /\ c.do.action = "setup" /\ stored.mfa # "on"
                 /\ stored' = [stored EXCEPT !.mfa = "prepared", !.key = n, !.codes = 0]
        <5>1. p = [panel EXCEPT !.setup = n]
          BY <3>5, <4>2, <4>3 DEF S!Shown
        <5> QED
          BY <1>8, <3>1, <4>3, <5>1 DEF Panels
      <4>4. CASE /\ c.do.action = "verify"
                 /\ stored' = [stored EXCEPT !.mfa = "on", !.codes = n]
        <5>1. p = [panel EXCEPT !.enabled = TRUE, !.codes = n, !.setup = 0]
          BY <3>5, <4>2, <4>4 DEF S!Shown
        <5> QED
          BY <1>8, <3>1, <4>4, <5>1 DEF Panels
      <4>5. CASE /\ c.do.action = "regenerate" /\ stored.mfa = "on"
                 /\ stored' = [stored EXCEPT !.codes = n]
        <5>1. p = [panel EXCEPT !.codes = n]
          BY <3>5, <4>2, <4>5 DEF S!Shown
        <5> QED
          BY <1>8, <3>1, <4>5, <5>1 DEF Panels
      <4>6. CASE /\ c.do.action = "disable"
                 /\ stored' = [stored EXCEPT !.mfa = "off", !.key = 0, !.codes = 0]
        <5>1. p = [panel EXCEPT !.enabled = FALSE, !.codes = 0, !.setup = 0]
          BY <3>5, <4>6 DEF S!Shown
        <5> QED
          BY <1>8, <3>1, <4>6, <5>1 DEF Panels
      <4> QED
        BY <3>3, <3>7, <4>1, <4>3, <4>4, <4>5, <4>6 DEF S!Totp
    <3>8. CASE S!verifyPasskeyRegistration(s) \/ S!deleteUserPasskey(s)
      <4>1. c.do.action \in {"register", "remove"}
        BY <3>3, <3>8 DEF S!verifyPasskeyRegistration, S!deleteUserPasskey, SettingsInv, Registers
      <4>2. p = [panel EXCEPT !.passkeys = c.passkeys]
        BY <3>5, <4>1 DEF S!Shown
      <4>3. c.passkeys = stored'.passkeys
        BY <1>8, <3>2, <3>8 DEF S!verifyPasskeyRegistration, S!deleteUserPasskey, S!Answer, Calls
      <4>4. stored' = [stored EXCEPT !.passkeys = stored'.passkeys]
        BY <1>8, <3>8 DEF S!verifyPasskeyRegistration, S!deleteUserPasskey
      <4> QED
        BY <1>8, <3>1, <4>2, <4>3, <4>4 DEF Panels
    <3>9. CASE S!ChangePassword(s)
      <4>1. c.do.action = "password"
        BY <1>8, <3>3, <3>9 DEF S!ChangePassword, S!KindIn, S!KindOf
      <4>2. p = panel /\ stored' = stored
        BY <3>5, <3>9, <4>1 DEF S!Shown, S!ChangePassword, S!server
      <4> QED
        BY <3>1, <4>2
    <3>10. ~S!RegistrationOptions(s) /\ ~S!Ceremony(s) /\ ~S!AsksToConfirm(s) /\ ~S!Refuse(s)
      BY <1>8, <3>2, <3>6 DEF S!RegistrationOptions, S!Ceremony, S!AsksToConfirm, S!Refuse,
         S!Answer, Calls
    <3> QED
      BY <3>7, <3>8, <3>9, <3>10 DEF S!Serve
  <2> QED
    BY <1>1, <2>3, <2>4, <2>5
<1> QED
  BY <1>1, <1>3, <1>4, <1>5, <1>6, <1>9, <1>10 DEF SettingsInv

\* What a control does with an answer.
LEMMA ReturnsKeep ==
    ASSUME SettingsTyped, NEW s \in S!Slots, S!Return(s)
    PROVE  /\ UNCHANGED <<stored, recent, serial, clicks, overlapped, reran>> /\ S!Ends(s)
           /\ call[s].at # "idle" /\ panel'.working = S!Frees(s)
           /\ panel' \in Panels /\ pending' \in Do /\ lost' \in Nat /\ challenge' \in Nat
           /\ \/ call[s].at = "accepted" /\ panel' = [S!Shown(call[s]) EXCEPT !.working = S!Frees(s)]
              \/ call[s].at = "accepted" /\ lost' = lost + 1
              \/ call[s].at # "accepted" /\ panel' \in {[panel EXCEPT !.working = S!Frees(s)],
                                  [panel EXCEPT !.card = TRUE, !.working = S!Frees(s)]}
<1>1. /\ call[s] \in Calls /\ panel \in Panels /\ pending \in Do /\ lost \in Nat
      /\ challenge \in Nat /\ call[s].do \in Do
  BY DEF SettingsTyped, Calls
<1>2. S!Frees(s) \in [S!Kinds -> BOOLEAN]
  BY <1>1 DEF S!Frees, Panels
<1>3. S!Shown(call[s]) \in Panels
  BY <1>1, ShownIsTyped
<1>4. CASE S!Receive(s)
  <2>1. panel' \in Panels /\ panel'.working = S!Frees(s)
    BY <1>2, <1>3, <1>4 DEF S!Receive, Panels
  <2>2. pending' \in Do /\ lost' \in Nat /\ challenge' \in Nat
    BY <1>1, <1>4 DEF S!Receive, S!counts
  <2> QED
    BY <1>4, <2>1, <2>2 DEF S!Receive, S!counts
<1>5. CASE S!ReceiveReauth(s)
  <2>1. panel' \in Panels /\ panel'.working = S!Frees(s)
    BY <1>1, <1>2, <1>5 DEF S!ReceiveReauth, Panels
  <2>2. pending' \in Do /\ lost' \in Nat /\ challenge' \in Nat
    BY <1>1, <1>5 DEF S!ReceiveReauth, S!counts, S!server
  <2> QED
    BY <1>5, <2>1, <2>2 DEF S!ReceiveReauth, S!counts, S!server
<1>6. CASE S!ReceiveRefusal(s) \/ S!Lose(s)
  <2>1. panel' \in Panels /\ panel'.working = S!Frees(s)
    BY <1>1, <1>2, <1>6 DEF S!ReceiveRefusal, S!Lose, Panels
  <2>2. pending' \in Do /\ lost' \in Nat /\ challenge' \in Nat
    BY <1>1, <1>6 DEF S!ReceiveRefusal, S!Lose, S!counts, S!server
  <2> QED
    BY <1>6, <2>1, <2>2 DEF S!ReceiveRefusal, S!Lose, S!counts, S!server
<1> QED
  BY <1>4, <1>5, <1>6 DEF S!Return

LEMMA ReturnsStep ==
    ASSUME SettingsInv, NEW s \in S!Slots, S!Return(s)
    PROVE  SettingsInv'
<1>0. SettingsTyped /\ call \in [S!Slots -> Calls]
  BY DEF SettingsInv, SettingsTyped
<1>1. /\ UNCHANGED <<stored, recent, serial, clicks, overlapped, reran>> /\ S!Ends(s)
      /\ call[s].at # "idle" /\ panel'.working = S!Frees(s)
      /\ panel' \in Panels /\ pending' \in Do /\ lost' \in Nat /\ challenge' \in Nat
      /\ \/ call[s].at = "accepted" /\ panel' = [S!Shown(call[s]) EXCEPT !.working = S!Frees(s)]
         \/ call[s].at = "accepted" /\ lost' = lost + 1
         \/ call[s].at # "accepted" /\ panel' \in {[panel EXCEPT !.working = S!Frees(s)],
                             [panel EXCEPT !.card = TRUE, !.working = S!Frees(s)]}
  BY <1>0, ReturnsKeep
<1>2. /\ call' \in [S!Slots -> Calls]
      /\ \A t \in S!Slots \ {s} : call'[t] = call[t]
      /\ call'[s].at = "idle"
      /\ confirm' = IF s = "rerun" THEN S!NoConfirm ELSE confirm
  BY <1>0, <1>1, EndsAreTyped
<1>3. SettingsTyped'
  <2>1. confirm' \in [at : Places, then : Do]
    BY <1>2, <1>0, NothingIsTyped DEF SettingsTyped, S!NoConfirm, Places
  <2> QED
    BY <1>1, <1>2, <2>1, <1>0 DEF SettingsTyped
<1>4. \A t \in S!Slots \ {s} : (Busy(t)' <=> Busy(t)) /\ S!KindIn(t)' = S!KindIn(t)
  BY <1>2 DEF Busy, S!KindIn
<1>5. ~Busy(s)'
  BY <1>2 DEF Busy
<1>6. RerunIsKnown'
  BY <1>1, <1>2, <1>4, <1>5 DEF SettingsInv, RerunIsKnown, S!Slots, S!NoConfirm
<1>7. FreedInv'
  <2> SUFFICES ASSUME NEW k \in S!Kinds, panel'.working[k], k \notin reran
               PROVE  \E t \in S!Slots : Busy(t)' /\ S!KindIn(t)' = k
    BY <1>1 DEF FreedInv
  <2>1. panel.working[k] /\ (s = "rerun" \/ k # S!KindIn(s))
    BY <1>0, <1>1 DEF S!Frees, SettingsTyped, Panels
  <2>2. PICK t \in S!Slots : Busy(t) /\ S!KindIn(t) = k
    BY <2>1 DEF SettingsInv, FreedInv
  <2>3. t # s
    BY <2>1, <2>2 DEF SettingsInv, RerunIsKnown
  <2> QED
    BY <1>4, <2>2, <2>3
<1>8. Registers'
  BY <1>2 DEF SettingsInv, Registers
<1>9. NoSparesOff'
  BY <1>1 DEF SettingsInv, NoSparesOff
<1>10. OneAtATime'
  BY <1>1, <1>4, <1>5 DEF SettingsInv, OneAtATime
<1>11. AgreeInv'
  <2> SUFFICES ASSUME lost' = 0, ~overlapped
               PROVE  /\ (\A t \in S!Slots : call'[t].at # "accepted") => Agrees(panel)'
                      /\ \A t \in S!Slots : call'[t].at = "accepted" => Agrees(S!Shown(call[t]))'
    BY <1>1 DEF AgreeInv
  <2>1. \A t \in S!Slots \ {s} : ~Busy(t)
    BY <1>1 DEF SettingsInv, OneAtATime, Busy
  <2>2. \A t \in S!Slots : call'[t].at = "idle"
    BY <1>2, <2>1 DEF Busy
  <2>3. ~(lost' = lost + 1)
    BY <1>0 DEF SettingsTyped
  <2>4. lost = 0
    <3>1. lost' = lost \/ lost' = lost + 1
      BY DEF S!Return, S!Receive, S!ReceiveReauth, S!ReceiveRefusal, S!Lose, S!counts
    <3> QED
      BY <2>3, <3>1
  <2>5. Agrees(panel)'
    <3>1. CASE call[s].at = "accepted" /\ panel' = [S!Shown(call[s]) EXCEPT !.working = S!Frees(s)]
      <4>1. PICK p : p = S!Shown(call[s])
        OBVIOUS
      <4>2. Agrees(p) /\ p \in Panels
        BY <1>0, <2>4, <3>1, <4>1, ShownIsTyped DEF SettingsInv, AgreeInv, SettingsTyped
      <4>3. panel' = [p EXCEPT !.working = S!Frees(s)]
        BY <3>1, <4>1
      <4> QED
        BY <1>1, <4>2, <4>3 DEF Agrees, Panels
    <3>2. CASE /\ call[s].at # "accepted"
               /\ panel' \in {[panel EXCEPT !.working = S!Frees(s)],
                              [panel EXCEPT !.card = TRUE, !.working = S!Frees(s)]}
      <4>1. Agrees(panel)
        BY <2>1, <2>4, <3>2 DEF SettingsInv, AgreeInv, Busy
      <4> QED
        BY <1>0, <1>1, <3>2, <4>1 DEF Agrees, Panels, SettingsTyped
    <3> QED
      BY <1>1, <2>3, <3>1, <3>2
  <2> QED
    BY <2>2, <2>5
<1> QED
  BY <1>3, <1>6, <1>7, <1>8, <1>9, <1>10, <1>11 DEF SettingsInv

\* A call that a control starts, or that is run again once the user has confirmed.
LEMMA StartsStep ==
    ASSUME SettingsInv, NEW s \in S!Slots, NEW do \in Do, S!Starts(s, do), ~Busy(s),
           UNCHANGED <<stored, lost>>, SettingsTyped', RerunIsKnown',
           S!KindOf(do.action) \in reran' \/ s # "rerun", reran \subseteq reran',
           \E card \in BOOLEAN : panel' = [panel EXCEPT !.card = card, !.working = S!Disables(do)]
    PROVE  SettingsInv'
<1>0. SettingsTyped /\ call \in [S!Slots -> Calls] /\ panel \in Panels
  BY DEF SettingsInv, SettingsTyped
<1>1. /\ call' \in [S!Slots -> Calls]
      /\ \A t \in S!Slots \ {s} : call'[t] = call[t]
      /\ call'[s].do = do /\ call'[s].at = "sent"
  BY <1>0, StartsAreTyped
<1>2. /\ \A t \in S!Slots \ {s} : (Busy(t)' <=> Busy(t)) /\ S!KindIn(t)' = S!KindIn(t)
      /\ Busy(s)' /\ S!KindIn(s)' = S!KindOf(do.action)
  BY <1>1 DEF Busy, S!KindIn
<1>3. FreedInv'
  <2> SUFFICES ASSUME NEW k \in S!Kinds, panel'.working[k], k \notin reran'
               PROVE  \E t \in S!Slots : Busy(t)' /\ S!KindIn(t)' = k
    BY DEF FreedInv
  <2>1. CASE k = S!KindOf(do.action)
    BY <1>2, <2>1
  <2>2. CASE k # S!KindOf(do.action)
    <3>1. panel.working[k]
      BY <1>0, <2>2 DEF S!Disables, Panels
    <3>2. PICK t \in S!Slots : Busy(t) /\ S!KindIn(t) = k
      BY <3>1 DEF SettingsInv, FreedInv
    <3> QED
      BY <1>2, <3>2
  <2> QED
    BY <2>1, <2>2
<1>4. Registers'
  BY <1>1 DEF SettingsInv, Registers
<1>5. NoSparesOff'
  BY DEF SettingsInv, NoSparesOff
<1>6. ~overlapped' => ~overlapped /\ \A t \in S!Slots \ {s} : ~Busy(t)
  BY DEF S!Starts, S!Idle, Busy
<1>7. OneAtATime'
  BY <1>2, <1>6 DEF OneAtATime
<1>8. AgreeInv'
  <2> SUFFICES ASSUME lost = 0, ~overlapped' PROVE /\ Agrees(panel)'
                                                  /\ \A t \in S!Slots : call'[t].at # "accepted"
    BY DEF AgreeInv
  <2>1. \A t \in S!Slots : ~Busy(t)
    BY <1>6
  <2>2. \A t \in S!Slots : call'[t].at # "accepted"
    BY <1>1, <2>1 DEF Busy
  <2>3. Agrees(panel)
    BY <1>6, <2>1 DEF SettingsInv, AgreeInv, Busy
  <2> QED
    BY <1>0, <2>2, <2>3 DEF Agrees, Panels
<1> QED
  BY <1>3, <1>4, <1>5, <1>7, <1>8 DEF SettingsInv

LEMMA ClicksStep ==
    ASSUME SettingsInv, NEW action \in S!Actions, NEW device \in Devices \cup {NoDevice},
           S!Click(action, device)
    PROVE  SettingsInv'
<1>0. SettingsTyped /\ call \in [S!Slots -> Calls] /\ panel \in Panels
  BY DEF SettingsInv, SettingsTyped
<1> DEFINE do == [action |-> action, device |-> device,
                  of |-> IF action = "verify" THEN panel.setup ELSE 0]
           own == S!KindOf(action)
<1>1. do \in Do /\ do.action = action
  BY <1>0 DEF Do, Keys, Panels
<1>2. own \in S!Slots /\ own \in S!Kinds /\ own # "rerun"
  BY KindsOfActions DEF S!Slots, S!Kinds
<1>3. /\ ~Busy(own) /\ S!Starts(own, do) /\ clicks' = clicks + 1
      /\ panel' = [panel EXCEPT !.working = S!Disables(do)]
      /\ UNCHANGED <<stored, recent, challenge, serial, pending, confirm, lost, reran>>
  BY DEF S!Click, S!Idle, Busy, S!server
<1> HIDE DEF do, own
<1>4. /\ call' \in [S!Slots -> Calls]
      /\ \A t \in S!Slots \ {own} : call'[t] = call[t]
  BY <1>0, <1>1, <1>2, <1>3, StartsAreTyped
<1>5. panel' = [panel EXCEPT !.card = panel.card, !.working = S!Disables(do)] /\ panel.card \in BOOLEAN
  BY <1>0, <1>3 DEF Panels
<1>6. S!Disables(do) \in [S!Kinds -> BOOLEAN]
  BY <1>0 DEF S!Disables, Panels
<1>7. SettingsTyped'
  <2>1. panel' \in Panels
    BY <1>0, <1>3, <1>6 DEF Panels
  <2>2. overlapped' \in BOOLEAN
    BY <1>0, <1>3 DEF S!Starts, SettingsTyped
  <2> QED
    BY <1>0, <1>3, <1>4, <2>1, <2>2 DEF SettingsTyped
<1>8. RerunIsKnown'
  BY <1>2, <1>3, <1>4 DEF SettingsInv, RerunIsKnown, Busy, S!KindIn, S!Slots
<1> QED
  BY <1>1, <1>2, <1>3, <1>5, <1>7, <1>8, StartsStep

LEMMA RerunsStep == SettingsInv /\ S!ConfirmAnswered => SettingsInv'
<1> SUFFICES ASSUME SettingsInv, S!ConfirmAnswered PROVE SettingsInv'
  OBVIOUS
<1>0. SettingsTyped /\ call \in [S!Slots -> Calls] /\ panel \in Panels /\ confirm.then \in Do
  BY DEF SettingsInv, SettingsTyped
<1>1. PICK do \in Do : do = confirm.then
  BY <1>0
<1>2. /\ confirm.at = "accepted" /\ S!Starts("rerun", do)
      /\ confirm' = [confirm EXCEPT !.at = "rerunning"] /\ pending' = S!None
      /\ panel' = [panel EXCEPT !.card = FALSE, !.working = S!Disables(do)]
      /\ reran' = reran \cup {S!KindOf(do.action)}
      /\ UNCHANGED <<stored, recent, challenge, serial, clicks, lost>>
  BY <1>1 DEF S!ConfirmAnswered, S!server
<1>3. "rerun" \in S!Slots /\ ~Busy("rerun")
  BY <1>2 DEF SettingsInv, RerunIsKnown, S!Slots
<1>4. /\ call' \in [S!Slots -> Calls] /\ call'["rerun"].do = do /\ call'["rerun"].at = "sent"
  BY <1>0, <1>2, <1>3, StartsAreTyped
<1>5. SettingsTyped'
  <2>1. panel' \in Panels
    <3>1. S!Disables(do) \in [S!Kinds -> BOOLEAN]
      BY <1>0 DEF S!Disables, Panels
    <3> QED
      BY <1>0, <1>2, <3>1 DEF Panels
  <2>2. overlapped' \in BOOLEAN
    BY <1>0, <1>2 DEF S!Starts, SettingsTyped
  <2>3. confirm' \in [at : Places, then : Do] /\ pending' \in Do
    BY <1>0, <1>2, NothingIsTyped DEF SettingsTyped, Places
  <2>4. reran' \subseteq S!Kinds
    BY <1>0, <1>2, KindsOfActions DEF SettingsTyped
  <2> QED
    BY <1>0, <1>2, <1>4, <2>1, <2>2, <2>3, <2>4 DEF SettingsTyped
<1>6. RerunIsKnown'
  <2>1. confirm'.at = "rerunning"
    BY <1>0, <1>2 DEF SettingsTyped
  <2> QED
    BY <1>2, <1>4, <2>1 DEF RerunIsKnown, Busy, S!KindIn
<1>7. \E card \in BOOLEAN : panel' = [panel EXCEPT !.card = card, !.working = S!Disables(do)]
  BY <1>2
<1>8. S!KindOf(do.action) \in reran' /\ reran \subseteq reran'
  BY <1>2
<1> QED
  BY <1>2, <1>3, <1>5, <1>6, <1>7, <1>8, StartsStep

\* What the user and the cookie do besides.
LEMMA ConfirmsStep ==
    ASSUME SettingsInv,
           S!Confirm \/ S!Cancel \/ S!ServeConfirm \/ S!ConfirmRefused \/ S!RecentLapses
    PROVE  SettingsInv'
<1>0. SettingsTyped /\ call \in [S!Slots -> Calls] /\ panel \in Panels
  BY DEF SettingsInv, SettingsTyped
<1>1. /\ UNCHANGED <<stored, call, lost, overlapped, reran, serial, challenge, clicks>>
      /\ recent' \in BOOLEAN /\ pending' \in Do
      /\ panel' = panel \/ panel' = [panel EXCEPT !.card = FALSE]
  BY <1>0, NothingIsTyped DEF S!Confirm, S!Cancel, S!ServeConfirm, S!ConfirmRefused,
     S!RecentLapses, S!server, S!counts, SettingsTyped
<1>2. /\ panel' \in Panels /\ panel'.working = panel.working /\ panel'.enabled = panel.enabled
      /\ panel'.setup = panel.setup /\ panel'.codes = panel.codes
      /\ panel'.passkeys = panel.passkeys
  BY <1>0, <1>1 DEF Panels
<1>3. confirm' \in [at : Places, then : Do] /\ (confirm'.at = "rerunning" <=> confirm.at = "rerunning")
  BY <1>0, <1>1, NothingIsTyped DEF S!Confirm, S!Cancel, S!ServeConfirm, S!ConfirmRefused,
     S!RecentLapses, SettingsTyped, Places, S!NoConfirm
<1>4. SettingsTyped'
  BY <1>0, <1>1, <1>2, <1>3 DEF SettingsTyped
<1>5. RerunIsKnown' /\ FreedInv'
  BY <1>1, <1>2, <1>3 DEF SettingsInv, RerunIsKnown, FreedInv, Busy, S!KindIn
<1>6. Registers' /\ NoSparesOff' /\ OneAtATime'
  BY <1>1 DEF SettingsInv, Registers, NoSparesOff, OneAtATime, Busy
<1>7. AgreeInv'
  <2> SUFFICES ASSUME lost = 0, ~overlapped
               PROVE  /\ (\A t \in S!Slots : call[t].at # "accepted") => Agrees(panel)'
                      /\ \A t \in S!Slots : call[t].at = "accepted" => Agrees(S!Shown(call[t]))'
    BY <1>1 DEF AgreeInv
  <2>1. (\A t \in S!Slots : call[t].at # "accepted") => Agrees(panel)'
    BY <1>1, <1>2 DEF SettingsInv, AgreeInv, Agrees
  <2>2. ASSUME NEW t \in S!Slots, call[t].at = "accepted" PROVE Agrees(S!Shown(call[t]))'
    <3>1. PICK c \in Calls : c = call[t] /\ c = call'[t]
      BY <1>0, <1>1
    <3>2. PICK p : p = S!Shown(c)
      OBVIOUS
    <3>3. PICK q : q = S!Shown(c)'
      OBVIOUS
    <3>4. /\ q.enabled = p.enabled /\ q.setup = p.setup /\ q.codes = p.codes
          /\ q.passkeys = p.passkeys
      <4> USE <1>0, <1>2, <3>2, <3>3 DEF Panels, S!Shown
      <4>1. CASE c.do.action = "setup"
        BY <4>1
      <4>2. CASE c.do.action = "verify"
        BY <4>2
      <4>3. CASE c.do.action = "regenerate"
        BY <4>3
      <4>4. CASE c.do.action = "disable"
        BY <4>4
      <4>5. CASE c.do.action \in {"register", "remove"}
        BY <4>5
      <4>6. CASE c.do.action \notin {"setup", "verify", "regenerate", "disable", "register", "remove"}
        BY <4>6
      <4> QED
        BY <4>1, <4>2, <4>3, <4>4, <4>5, <4>6
    <3>5. Agrees(p)
      BY <2>2, <3>1, <3>2 DEF SettingsInv, AgreeInv
    <3>6. S!Shown(call[t])' = q
      BY <3>1, <3>3 DEF S!Shown
    <3> QED
      BY <1>1, <3>4, <3>5, <3>6 DEF Agrees
  <2> QED
    BY <2>1, <2>2
<1> QED
  BY <1>4, <1>5, <1>6, <1>7 DEF SettingsInv

LEMMA SettingsStep == SettingsInv /\ [S!Next]_settingVars => SettingsInv'
<1> SUFFICES ASSUME SettingsInv, [S!Next]_settingVars PROVE SettingsInv'
  OBVIOUS
<1>1. CASE UNCHANGED settingVars
  <2> USE <1>1 DEF settingVars, SettingsInv
  <2>1. SettingsTyped' /\ RerunIsKnown' /\ NoSparesOff' /\ Registers'
    BY DEF SettingsTyped, RerunIsKnown, NoSparesOff, Registers, Busy, S!KindIn
  <2>2. FreedInv' /\ OneAtATime'
    BY DEF FreedInv, OneAtATime, Busy, S!KindIn
  <2>3. AgreeInv' <=> AgreeInv
    BY DEF AgreeInv, Agrees, S!Shown
  <2> QED
    BY <2>1, <2>2, <2>3
<1> QED
  BY <1>1, ServesStep, ReturnsStep, ClicksStep, RerunsStep, ConfirmsStep DEF S!Next

LEMMA SettingsBegin == S!Init => SettingsInv
<1> SUFFICES ASSUME S!Init PROVE SettingsInv
  OBVIOUS
<1>1. SettingsTyped /\ \A s \in S!Slots : call[s].at = "idle"
  BY SettingsStart, NothingIsTyped DEF S!Init
<1>2. RerunIsKnown
  BY <1>1 DEF S!Init, RerunIsKnown, Busy, S!NoConfirm, S!Slots
<1>3. FreedInv /\ Registers /\ NoSparesOff /\ OneAtATime
  BY <1>1 DEF S!Init, FreedInv, Registers, NoSparesOff, OneAtATime, Busy
<1>4. AgreeInv
  BY <1>1 DEF AgreeInv, Agrees, S!Init
<1> QED
  BY <1>1, <1>2, <1>3, <1>4 DEF SettingsInv

LEMMA SettingsTell == SettingsInv => S!PanelTellsTheTruth /\ S!FreedAfterWork
<1> SUFFICES ASSUME SettingsInv PROVE S!PanelTellsTheTruth /\ S!FreedAfterWork
  OBVIOUS
<1>1. S!PanelTellsTheTruth
  BY DEF SettingsInv, AgreeInv, Agrees, S!PanelTellsTheTruth, S!Idle
<1>2. S!FreedAfterWork
  BY DEF SettingsInv, FreedInv, S!FreedAfterWork, S!Idle, Busy
<1> QED
  BY <1>1, <1>2

LEMMA SettingsStay == PagesSpec => [](open = "settings" => SettingsInv)
<1> DEFINE Inv == open = "settings" => SettingsInv
<1>1. OpenInit => Inv
  BY SettingsBegin DEF OpenInit
<1>2. Inv /\ [OpenNext]_allVars => Inv'
  BY PageMoves, SettingsStep
<1> QED
  BY <1>1, <1>2, PTL DEF PagesSpec

\* For any devices, clicks and confirmations, once no call is at work and if no answer was
\* lost and no two calls overlapped, the settings page shows the factor, the keys and the
\* codes as they are stored (settings-panel.tsx).
THEOREM SettingsAreShown == PagesSpec => []SettingsTellTheTruth
<1>1. (open = "settings" => SettingsInv) => SettingsTellTheTruth
  BY SettingsTell DEF SettingsTellTheTruth
<1> QED
  BY <1>1, SettingsStay, PTL

-----------------------------------------------------------------------------
(* The wizard.                                                               *)

WizardInv == W!FreedAfterRequest /\ (\E Q : posts \in Seq(Q))

LEMMA ValidIsSomething ==
    ASSUME NEW d, d.budget \in 1 .. MoneyCap
    PROVE  d # W!Nothing
BY DEF W!Nothing

LEMMA WizardStep == WizardInv /\ W!Here /\ [W!Next]_wizardVars => WizardInv'
<1> SUFFICES ASSUME WizardInv, W!Here, [W!Next]_wizardVars PROVE WizardInv'
  OBVIOUS
<1>1. PICK Q : posts \in Seq(Q)
  BY DEF WizardInv
<1>2. CASE UNCHANGED <<loading, submitting, question, posts, thrown, saved>>
  BY <1>2 DEF WizardInv, W!FreedAfterRequest, W!Here
<1>3. CASE W!AskPreview
  BY <1>3, ValidIsSomething DEF W!AskPreview, W!StepIsValid, W!BudgetIsValid, WizardInv,
     W!FreedAfterRequest, W!Here
<1>4. CASE W!PreviewArrives
  BY <1>4 DEF W!PreviewArrives, WizardInv, W!FreedAfterRequest, W!Here
<1>5. CASE W!PreviewFails
  BY <1>5 DEF W!PreviewFails, WizardInv, W!FreedAfterRequest, W!Here
<1>6. CASE W!Send
  <2>1. posts' = Append(posts, draft)
    BY <1>6 DEF W!Send
  <2>2. posts \in Seq(Q \cup {draft})
    <3>1. Len(posts) \in Nat /\ posts \in [1 .. Len(posts) -> Q]
      BY <1>1
    <3>2. posts \in [1 .. Len(posts) -> Q \cup {draft}]
      BY <3>1
    <3> QED
      BY <3>1, <3>2
  <2>3. posts' \in Seq(Q \cup {draft}) /\ posts' # <<>>
    BY <2>1, <2>2
  <2> QED
    BY <1>6, <2>3 DEF W!Send, WizardInv, W!FreedAfterRequest, W!Here
<1>7. CASE W!PostArrives
  <2>1. posts' \in Seq(Q)
    BY <1>1, <1>7 DEF W!PostArrives
  <2>2. submitting' => ~W!Here'
    BY <1>7, ValidIsSomething DEF W!PostArrives, W!Accepted, W!Here
  <2> QED
    BY <1>7, <2>1, <2>2 DEF W!PostArrives, WizardInv, W!FreedAfterRequest
<1>8. CASE W!PostFails
  <2>1. posts' \in Seq(Q)
    BY <1>1, <1>8 DEF W!PostFails
  <2> QED
    BY <1>8, <2>1 DEF W!PostFails, WizardInv, W!FreedAfterRequest
<1>9. CASE W!Reload
  <2>1. posts' \in Seq(Q)
    BY <1>9 DEF W!Reload
  <2> QED
    BY <1>9, <2>1 DEF W!Reload, WizardInv, W!FreedAfterRequest
<1> QED
  BY <1>2, <1>3, <1>4, <1>5, <1>6, <1>7, <1>8, <1>9
     DEF W!Next, W!TypeIncome, W!AddDebt, W!TypeDebt, W!RemoveDebt, W!TypeBudget, W!Continue,
         W!Back, W!Editing, wizardVars

LEMMA WizardStart == W!Init => WizardInv
<1> SUFFICES ASSUME W!Init PROVE WizardInv
  OBVIOUS
<1>1. posts = <<>> /\ loading = FALSE /\ submitting = FALSE
  BY DEF W!Init
<1> QED
  BY <1>1 DEF WizardInv, W!FreedAfterRequest

LEMMA WizardRests == WizardInv /\ UNCHANGED wizardVars => WizardInv'
BY DEF WizardInv, W!FreedAfterRequest, W!Here, wizardVars

LEMMA WizardStay == PagesSpec => [](open = "wizard" => WizardInv)
<1> DEFINE Inv == open = "wizard" => WizardInv
<1>1. OpenInit => Inv
  BY WizardStart DEF OpenInit
<1>2. Inv /\ [OpenNext]_allVars => Inv'
  BY PageMoves, WizardStep, WizardRests
<1> QED
  BY <1>1, <1>2, PTL DEF PagesSpec

\* A control of either page is disabled only while the request it waits for is under way,
\* whatever requests fail or arrive late, but for two ends the code leaves open: an action
\* run again after a confirmation, and an answer that throws (settings-panel.tsx,
\* onboarding-wizard.tsx).
THEOREM ControlsFreed == PagesSpec => []ControlsAreFreed
<1>1. (open = "settings" => SettingsInv) /\ (open = "wizard" => WizardInv) => ControlsAreFreed
  BY SettingsTell DEF ControlsAreFreed, WizardInv
<1> QED
  BY <1>1, SettingsStay, WizardStay, PTL

-----------------------------------------------------------------------------
(* Notices.                                                                  *)

Notice == [alert : N!Alerts, born : Nat, read : BOOLEAN, sent : BOOLEAN, mailed : Nat,
           dropped : Nat]
Sync == [at : {"idle", "running", "failed"}, looking : SUBSET N!Alerts, creating : SUBSET N!Alerts]
Run == [at : {"idle", "mail", "mark"}, picked : SUBSET Nat]

NoticesTyped ==
    /\ notices \in Seq(Notice) /\ day \in Nat /\ account \in N!Account
    /\ sync \in [Syncs -> Sync] /\ job \in [Jobs -> Run]
    /\ \A j \in Jobs : job[j].picked \subseteq N!Ids
    /\ DOMAIN screen \subseteq N!Ids
    /\ promise \in [Instances -> Syncs \cup {NoSync}]
    /\ crossings \in Nat /\ cuts \in Nat

LEMMA NoticesStart == N!Init => NoticesTyped
<1> SUFFICES ASSUME N!Init PROVE NoticesTyped
  OBVIOUS
<1>1. day \in Nat
  <2>1. \E x \in Days : \A y \in Days : x <= y
    BY NoticesAssumption, SmallestNumber
  <2>2. N!Min(Days) \in Days
    BY <2>1 DEF N!Min
  <2> QED
    BY <2>2, NoticesAssumption DEF N!Init
<1>2. sync \in [Syncs -> Sync]
  BY DEF N!Init, N!Idle, Sync
<1>3. job \in [Jobs -> Run] /\ \A j \in Jobs : job[j].picked \subseteq N!Ids
  BY DEF N!Init, N!Resting, Run
<1>4. notices \in Seq(Notice) /\ DOMAIN screen \subseteq N!Ids
  BY DEF N!Init
<1> QED
  BY <1>1, <1>2, <1>3, <1>4, NoticesAssumption DEF N!Init, NoticesTyped

LEMMA OccasionsAreAlerts == account \in N!Account => N!Occasions \in SUBSET N!Alerts
BY DEF N!Account, N!Occasions, N!Alerts, N!Optional

LEMMA LeftIsTyped ==
    ASSUME sync \in [Syncs -> Sync], NEW s \in Syncs, NEW looking \in SUBSET N!Alerts,
           NEW creating \in SUBSET N!Alerts
    PROVE  /\ N!Left(s, looking, creating) \in Sync
           /\ N!Left(s, looking, creating).looking = looking
           /\ N!Left(s, looking, creating).creating = creating
           /\ N!Left(s, looking, creating).at \in {sync[s].at, "idle"}
           /\ sync[s].at # "failed" => N!Left(s, looking, creating).at = sync[s].at
<1>1. CASE sync[s].at = "failed" /\ looking \cup creating = {}
  BY <1>1 DEF N!Left, N!Idle, Sync
<1>2. CASE ~(sync[s].at = "failed" /\ looking \cup creating = {})
  BY <1>2 DEF N!Left, Sync
<1> QED
  BY <1>1, <1>2

\* What a step makes of the rows.
Adds(a) == /\ Len(notices') = Len(notices) + 1
           /\ \A i \in N!Ids : notices'[i] = notices[i]
           /\ notices'[Len(notices')] = [alert |-> a, born |-> day, read |-> FALSE, sent |-> FALSE,
                                         mailed |-> 0, dropped |-> 0]
Marks == /\ Len(notices') = Len(notices)
         /\ \A i \in N!Ids : /\ notices'[i].alert = notices[i].alert
                             /\ notices'[i].born = notices[i].born
                             /\ notices[i].read => notices'[i].read

LEMMA RowsAreKept ==
    ASSUME NoticesTyped, NEW f, f \in [N!Ids -> Notice], notices' = f
    PROVE  notices' \in Seq(Notice) /\ Len(notices') = Len(notices)
<1>1. Len(notices) \in Nat /\ N!Ids = 1 .. Len(notices)
  BY DEF NoticesTyped, N!Ids
<1> QED
  BY <1>1

LEMMA RowsAreMarked ==
    ASSUME NoticesTyped, N!MarkRead \/ N!ReadAll \/ N!MailDigest \/ N!MarkDigest
    PROVE  notices' \in Seq(Notice) /\ Marks
<1>1. notices \in [N!Ids -> Notice] /\ Len(notices) \in Nat
  BY DEF NoticesTyped, N!Ids
<1>2. CASE UNCHANGED notices
  BY <1>2 DEF NoticesTyped, Marks
<1>3. CASE N!MarkRead
  <2>1. PICK i \in N!Ids : notices' = [notices EXCEPT ![i].read = TRUE]
    BY <1>3 DEF N!MarkRead, NoticesTyped
  <2>2. [notices EXCEPT ![i].read = TRUE] \in [N!Ids -> Notice]
    BY <1>1 DEF Notice
  <2> QED
    BY <1>1, <2>1, <2>2, RowsAreKept DEF Marks, Notice
<1>4. CASE N!ReadAll
  <2>1. notices' = [i \in N!Ids |-> [notices[i] EXCEPT !.read = TRUE]]
    BY <1>4 DEF N!ReadAll
  <2>2. [i \in N!Ids |-> [notices[i] EXCEPT !.read = TRUE]] \in [N!Ids -> Notice]
    BY <1>1 DEF Notice
  <2> QED
    BY <1>1, <2>1, <2>2, RowsAreKept DEF Marks, Notice
<1>5. CASE N!MarkDigest
  <2>1. PICK picks : notices' = [i \in N!Ids |-> IF i \in picks THEN [notices[i] EXCEPT !.sent = TRUE]
                                            ELSE notices[i]]
    BY <1>5 DEF N!MarkDigest
  <2>2. [i \in N!Ids |-> IF i \in picks THEN [notices[i] EXCEPT !.sent = TRUE] ELSE notices[i]]
          \in [N!Ids -> Notice]
    BY <1>1 DEF Notice
  <2> QED
    BY <1>1, <2>1, <2>2, RowsAreKept DEF Marks, Notice
<1>6. ASSUME NEW picks, NEW taken \in BOOLEAN,
             notices' = [i \in N!Ids |->
                IF i \notin picks THEN notices[i]
                ELSE IF taken THEN [notices[i] EXCEPT !.mailed = @ + 1]
                ELSE [notices[i] EXCEPT !.dropped = @ + 1]]
      PROVE  notices' \in Seq(Notice) /\ Marks
  <2>1. \A i \in N!Ids : [notices[i] EXCEPT !.mailed = @ + 1] \in Notice
    BY <1>1 DEF Notice
  <2>2. \A i \in N!Ids : [notices[i] EXCEPT !.dropped = @ + 1] \in Notice
    BY <1>1 DEF Notice
  <2>3. [i \in N!Ids |-> IF i \notin picks THEN notices[i]
                        ELSE IF taken THEN [notices[i] EXCEPT !.mailed = @ + 1]
                        ELSE [notices[i] EXCEPT !.dropped = @ + 1]] \in [N!Ids -> Notice]
    BY <1>1, <2>1, <2>2
  <2> QED
    BY <1>1, <1>6, <2>3, RowsAreKept DEF Marks, Notice
<1>7. CASE N!MailDigest
  BY <1>2, <1>6, <1>7 DEF N!MailDigest
<1> QED
  BY <1>3, <1>4, <1>5, <1>7

LEMMA RowsAreAdded ==
    ASSUME NoticesTyped, NEW a \in N!Alerts,
           notices' = Append(notices, [alert |-> a, born |-> day, read |-> FALSE, sent |-> FALSE,
                                       mailed |-> 0, dropped |-> 0])
    PROVE  notices' \in Seq(Notice) /\ Adds(a)
<1> DEFINE new == [alert |-> a, born |-> day, read |-> FALSE, sent |-> FALSE, mailed |-> 0,
                   dropped |-> 0]
<1>1. new \in Notice
  BY DEF Notice, NoticesTyped
<1> HIDE DEF new
<1>2. notices \in Seq(Notice) /\ notices' = Append(notices, new)
  BY DEF NoticesTyped, new
<1>3. /\ notices' \in Seq(Notice) /\ Len(notices') = Len(notices) + 1
      /\ \A i \in 1 .. Len(notices) : notices'[i] = notices[i]
      /\ notices'[Len(notices) + 1] = new
  BY <1>1, <1>2
<1> QED
  BY <1>3 DEF Adds, N!Ids, new

\* A visit joins, skips, or starts a synchronisation in a slot that is idle.
Starts(i, s) ==
    /\ promise[i] = NoSync /\ sync[s].at = "idle" /\ promise' = [promise EXCEPT ![i] = s]
    /\ sync' = [sync EXCEPT ![s] = [at |-> "running", looking |-> N!Occasions, creating |-> {}]]
    /\ crossings' = IF \E t \in Syncs : sync[t].at # "idle" THEN crossings + 1 ELSE crossings

LEMMA VisitsStart ==
    ASSUME NoticesTyped, N!Visit
    PROVE  \/ UNCHANGED <<sync, promise, crossings>>
           \/ \E i \in Instances, s \in Syncs : /\ Starts(i, s) /\ sync' \in [Syncs -> Sync]
                                              /\ promise' \in [Instances -> Syncs \cup {NoSync}]
<1>1. PICK i \in Instances :
        \/ UNCHANGED <<sync, promise, crossings>>
        \/ /\ ~N!Joins(i) /\ \E s \in Syncs : sync[s].at = "idle"
           /\ LET s == CHOOSE s \in Syncs : sync[s].at = "idle"
                  crosses == \E t \in Syncs : sync[t].at # "idle" /\ t # promise[i]
              IN  /\ promise' = [promise EXCEPT ![i] = s]
                  /\ sync' = [sync EXCEPT ![s] =
                                 [at |-> "running", looking |-> N!Occasions, creating |-> {}]]
                  /\ crossings' = IF crosses THEN crossings + 1 ELSE crossings
  BY DEF N!Visit
<1>2. CASE ~UNCHANGED <<sync, promise, crossings>>
  <2>1. promise[i] = NoSync
    BY <1>1, <1>2 DEF N!Joins
  <2>2. PICK s \in Syncs :
          /\ sync[s].at = "idle" /\ promise' = [promise EXCEPT ![i] = s]
          /\ sync' = [sync EXCEPT ![s] =
                         [at |-> "running", looking |-> N!Occasions, creating |-> {}]]
          /\ crossings' = IF \E t \in Syncs : sync[t].at # "idle" /\ t # promise[i]
                          THEN crossings + 1 ELSE crossings
    BY <1>1, <1>2
  <2>3. crossings' = IF \E t \in Syncs : sync[t].at # "idle" THEN crossings + 1 ELSE crossings
    BY <2>1, <2>2, NoticesAssumption
  <2>4. [at |-> "running", looking |-> N!Occasions, creating |-> {}] \in Sync
    BY OccasionsAreAlerts DEF NoticesTyped, Sync
  <2>5. sync' \in [Syncs -> Sync] /\ promise' \in [Instances -> Syncs \cup {NoSync}]
    BY <2>2, <2>4 DEF NoticesTyped
  <2> QED
    BY <2>1, <2>2, <2>3, <2>5 DEF Starts
<1> QED
  BY <1>2

LEMMA PromisesAreTyped ==
    ASSUME NoticesTyped, N!Visit \/ N!SyncFails \/ N!SyncEnds
    PROVE  promise' \in [Instances -> Syncs \cup {NoSync}]
<1>1. promise \in [Instances -> Syncs \cup {NoSync}]
  BY DEF NoticesTyped
<1>2. CASE N!Visit
  BY <1>1, <1>2, VisitsStart
<1>3. CASE N!SyncFails \/ N!SyncEnds
  <2>1. PICK i \in Instances : promise' = [promise EXCEPT ![i] = NoSync]
    BY <1>3 DEF N!SyncFails, N!SyncEnds
  <2> QED
    BY <1>1, <2>1
<1> QED
  BY <1>2, <1>3

\* What a step of a synchronisation does to its slot.
LEMMA SyncsAreTyped ==
    ASSUME NoticesTyped,
           N!Visit \/ N!FindNotice \/ N!CreateNotice \/ N!SyncFails \/ N!SyncEnds
    PROVE  sync' \in [Syncs -> Sync]
<1>0. sync \in [Syncs -> Sync]
  BY DEF NoticesTyped
<1>1. N!Idle \in Sync
  BY DEF N!Idle, Sync
<1>2. CASE N!Visit
  BY <1>0, <1>2, VisitsStart DEF NoticesTyped
<1>3. CASE N!FindNotice
  <2>1. PICK s \in Syncs : \E a \in sync[s].looking :
                            \E C \in {sync[s].creating, sync[s].creating \cup {a}} :
          sync' = [sync EXCEPT ![s] = N!Left(s, sync[s].looking \ {a}, C)]
    <3>0. PICK s \in Syncs : \E a \in N!Now(s) \cap sync[s].looking :
            sync' = [sync EXCEPT ![s] =
                       N!Left(s, @.looking \ {a},
                              IF N!Recent(a) THEN @.creating ELSE @.creating \cup {a})]
      BY <1>3 DEF N!FindNotice
    <3>1. PICK a \in N!Now(s) \cap sync[s].looking :
            sync' = [sync EXCEPT ![s] =
                       N!Left(s, sync[s].looking \ {a},
                              IF N!Recent(a) THEN sync[s].creating ELSE sync[s].creating \cup {a})]
      BY <1>0, <3>0
    <3>2. PICK C : C = IF N!Recent(a) THEN sync[s].creating ELSE sync[s].creating \cup {a}
      OBVIOUS
    <3>3. C \in {sync[s].creating, sync[s].creating \cup {a}}
      BY <3>2
    <3> QED
      BY <3>1, <3>2, <3>3
  <2>2. PICK a \in sync[s].looking : \E C \in {sync[s].creating, sync[s].creating \cup {a}} :
          sync' = [sync EXCEPT ![s] = N!Left(s, sync[s].looking \ {a}, C)]
    BY <2>1
  <2>3. PICK C \in {sync[s].creating, sync[s].creating \cup {a}} :
          sync' = [sync EXCEPT ![s] = N!Left(s, sync[s].looking \ {a}, C)]
    BY <2>2
  <2>4. sync[s].looking \ {a} \in SUBSET N!Alerts /\ C \in SUBSET N!Alerts
    BY <1>0, <2>2, <2>3 DEF Sync
  <2>5. N!Left(s, sync[s].looking \ {a}, C) \in Sync
    BY <1>0, <2>4, LeftIsTyped
  <2> QED
    BY <1>0, <2>3, <2>5
<1>4. CASE N!CreateNotice
  <2>1. PICK s \in Syncs : \E a \in sync[s].creating :
          sync' = [sync EXCEPT ![s] = N!Left(s, sync[s].looking, sync[s].creating \ {a})]
    BY <1>0, <1>4 DEF N!CreateNotice
  <2>2. PICK a \in sync[s].creating :
          sync' = [sync EXCEPT ![s] = N!Left(s, sync[s].looking, sync[s].creating \ {a})]
    BY <2>1
  <2>3. sync[s].looking \in SUBSET N!Alerts /\ sync[s].creating \ {a} \in SUBSET N!Alerts
    BY <1>0, <2>2 DEF Sync
  <2>4. N!Left(s, sync[s].looking, sync[s].creating \ {a}) \in Sync
    BY <1>0, <2>3, LeftIsTyped
  <2> QED
    BY <1>0, <2>2, <2>4
<1>5. CASE N!SyncFails
  <2>1. PICK s \in Syncs : \E going \in SUBSET (sync[s].looking \cup sync[s].creating) :
          sync' = [sync EXCEPT ![s] =
                     IF going = {} THEN N!Idle
                     ELSE [at |-> "failed", looking |-> going \cap sync[s].looking,
                           creating |-> going \cap sync[s].creating]]
    <3>1. PICK s \in Syncs : \E a \in N!Now(s) :
            sync' = [sync EXCEPT ![s] =
                       IF N!Now(s) \ {a} = {} THEN N!Idle
                       ELSE [at |-> "failed", looking |-> (N!Now(s) \ {a}) \cap sync[s].looking,
                             creating |-> (N!Now(s) \ {a}) \cap sync[s].creating]]
      BY <1>0, <1>5 DEF N!SyncFails
    <3>2. \A a : N!Now(s) \ {a} \in SUBSET (sync[s].looking \cup sync[s].creating)
      BY DEF N!Now
    <3> QED
      BY <3>1, <3>2
  <2>2. \A going : [at |-> "failed", looking |-> going \cap sync[s].looking,
                creating |-> going \cap sync[s].creating] \in Sync
    BY <1>0 DEF Sync
  <2> QED
    BY <1>0, <1>1, <2>1, <2>2
<1>6. CASE N!SyncEnds
  BY <1>0, <1>1, <1>6 DEF N!SyncEnds
<1> QED
  BY <1>2, <1>3, <1>4, <1>5, <1>6

LEMMA ListedAreIds ==
    ASSUME NoticesTyped, NEW X \in N!Listable
    PROVE  X \subseteq N!Ids
BY DEF N!Listable, N!kSubset, N!NewestOf

LEMMA RunsAreTyped ==
    ASSUME NoticesTyped, N!PickDigest \/ N!MailDigest \/ N!MarkDigest \/ N!CutDigest
    PROVE  job' \in [Jobs -> Run] /\ \A j \in Jobs : job'[j].picked \subseteq N!Ids
<1>0. job \in [Jobs -> Run] /\ (\A j \in Jobs : job[j].picked \subseteq N!Ids) /\ N!Ids \subseteq Nat
  BY DEF NoticesTyped, N!Ids
<1>1. N!Resting \in Run /\ N!Resting.picked \subseteq N!Ids
  BY DEF N!Resting, Run
<1>2. CASE N!PickDigest
  <2>1. PICK j \in Jobs, picks \in SUBSET N!Ids :
          job' = [job EXCEPT ![j] = [at |-> "mail", picked |-> picks]]
    BY <1>2 DEF N!PickDigest, N!NewestOf
  <2>2. [at |-> "mail", picked |-> picks] \in Run
    BY <1>0, <2>1 DEF Run
  <2> QED
    BY <1>0, <2>1, <2>2
<1>3. CASE N!MailDigest
  BY <1>0, <1>1, <1>3 DEF N!MailDigest, Run
<1>4. CASE N!MarkDigest \/ N!CutDigest
  BY <1>0, <1>1, <1>4 DEF N!MarkDigest, N!CutDigest
<1> QED
  BY <1>2, <1>3, <1>4

LEMMA NoticesTypedStep == NoticesTyped /\ [N!Next]_noticeVars => NoticesTyped'
<1> SUFFICES ASSUME NoticesTyped, [N!Next]_noticeVars PROVE NoticesTyped'
  OBVIOUS
<1>0. /\ notices \in Seq(Notice) /\ day \in Nat /\ account \in N!Account
      /\ sync \in [Syncs -> Sync] /\ job \in [Jobs -> Run]
      /\ \A j \in Jobs : job[j].picked \subseteq N!Ids
      /\ DOMAIN screen \subseteq N!Ids
      /\ promise \in [Instances -> Syncs \cup {NoSync}]
      /\ crossings \in Nat /\ cuts \in Nat
  BY DEF NoticesTyped
<1>1. notices' \in Seq(Notice) /\ N!Ids \subseteq N!Ids'
  <2>1. CASE UNCHANGED notices
    BY <1>0, <2>1 DEF N!Ids
  <2>2. CASE N!CreateNotice
    <3>1. PICK a \in N!Alerts : notices' = Append(notices, [alert |-> a, born |-> day, read |-> FALSE,
                                                           sent |-> FALSE, mailed |-> 0, dropped |-> 0])
      BY <1>0, <2>2 DEF N!CreateNotice, Sync
    <3>2. notices' \in Seq(Notice) /\ Adds(a)
      BY <3>1, RowsAreAdded
    <3>3. Len(notices) \in Nat /\ Len(notices') = Len(notices) + 1
      BY <1>0, <3>2 DEF Adds
    <3> QED
      BY <3>2, <3>3 DEF N!Ids
  <2>3. CASE N!MarkRead \/ N!ReadAll \/ N!MailDigest \/ N!MarkDigest
    BY <1>0, <2>3, RowsAreMarked DEF Marks, N!Ids
  <2> QED
    BY <2>1, <2>2, <2>3 DEF N!Next, noticeVars, N!Visit, N!Leave, N!FindNotice, N!SyncFails,
       N!SyncEnds, N!CooldownEnds, N!ListNotices, N!PickDigest, N!CutDigest, N!ChangeAccount,
       N!LaterDay
<1>2. day' \in Nat /\ account' \in N!Account /\ crossings' \in Nat /\ cuts' \in Nat
  <2>1. day' \in Nat
    BY <1>0, NoticesAssumption DEF N!Next, noticeVars, N!Visit, N!Leave, N!FindNotice,
       N!CreateNotice, N!SyncFails, N!SyncEnds, N!CooldownEnds, N!ListNotices, N!MarkRead,
       N!ReadAll, N!PickDigest, N!MailDigest, N!MarkDigest, N!CutDigest, N!ChangeAccount,
       N!LaterDay
  <2>2. account' \in N!Account
    BY <1>0, NoticesAssumption DEF N!Next, noticeVars, N!Visit, N!Leave, N!FindNotice,
       N!CreateNotice, N!SyncFails, N!SyncEnds, N!CooldownEnds, N!ListNotices, N!MarkRead,
       N!ReadAll, N!PickDigest, N!MailDigest, N!MarkDigest, N!CutDigest, N!ChangeAccount,
       N!LaterDay
  <2>3. crossings' \in {crossings, crossings + 1}
    BY DEF N!Next, noticeVars, N!Visit, N!Leave, N!FindNotice,
       N!CreateNotice, N!SyncFails, N!SyncEnds, N!CooldownEnds, N!ListNotices, N!MarkRead,
       N!ReadAll, N!PickDigest, N!MailDigest, N!MarkDigest, N!CutDigest, N!ChangeAccount,
       N!LaterDay
  <2>4. cuts' \in {cuts, cuts + 1}
    BY DEF N!Next, noticeVars, N!Visit, N!Leave, N!FindNotice,
       N!CreateNotice, N!SyncFails, N!SyncEnds, N!CooldownEnds, N!ListNotices, N!MarkRead,
       N!ReadAll, N!PickDigest, N!MailDigest, N!MarkDigest, N!CutDigest, N!ChangeAccount,
       N!LaterDay
  <2> QED
    BY <1>0, <2>1, <2>2, <2>3, <2>4
<1>3. sync' \in [Syncs -> Sync]
  BY <1>0, SyncsAreTyped DEF N!Next, noticeVars, N!Leave, N!CooldownEnds, N!ListNotices,
     N!MarkRead, N!ReadAll, N!PickDigest, N!MailDigest, N!MarkDigest, N!CutDigest,
     N!ChangeAccount, N!LaterDay
<1>4. job' \in [Jobs -> Run] /\ \A j \in Jobs : job'[j].picked \subseteq N!Ids
  BY <1>0, RunsAreTyped DEF N!Next, noticeVars, N!Visit, N!Leave, N!FindNotice, N!CreateNotice,
     N!SyncFails, N!SyncEnds, N!CooldownEnds, N!ListNotices, N!MarkRead, N!ReadAll,
     N!ChangeAccount, N!LaterDay
<1>5. DOMAIN screen' \subseteq N!Ids
  <2>1. CASE UNCHANGED screen
    BY <1>0, <2>1
  <2>2. CASE N!ListNotices
    <3>1. PICK X \in N!Listable : screen' = [i \in X |-> ~N!Unread(i)]
      BY <2>2 DEF N!ListNotices
    <3> QED
      BY <3>1, ListedAreIds
  <2>3. CASE N!MarkRead \/ N!ReadAll
    BY <1>0, <2>3 DEF N!MarkRead, N!ReadAll
  <2> QED
    BY <2>1, <2>2, <2>3 DEF N!Next, noticeVars, N!Visit, N!Leave, N!FindNotice, N!CreateNotice,
       N!SyncFails, N!SyncEnds, N!CooldownEnds, N!PickDigest, N!MailDigest, N!MarkDigest,
       N!CutDigest, N!ChangeAccount, N!LaterDay
<1>6. promise' \in [Instances -> Syncs \cup {NoSync}]
  BY <1>0, PromisesAreTyped DEF NoticesTyped, N!Next, noticeVars, N!Leave, N!FindNotice,
     N!CreateNotice, N!CooldownEnds, N!ListNotices, N!MarkRead, N!ReadAll, N!PickDigest,
     N!MailDigest, N!MarkDigest, N!CutDigest, N!ChangeAccount, N!LaterDay
<1> QED
  BY <1>1, <1>2, <1>3, <1>4, <1>5, <1>6 DEF NoticesTyped

\* The slots: one that is idle holds nothing, what is created was looked for and is looked
\* for no more, and a promise is that of one process and of a synchronisation that runs.
SlotsInv ==
    /\ \A s \in Syncs : /\ sync[s].at = "idle" => sync[s].looking = {} /\ sync[s].creating = {}
                        /\ sync[s].looking \cap sync[s].creating = {}
    /\ \A i \in Instances : promise[i] # NoSync => sync[promise[i]].at = "running"
    /\ \A i, k \in Instances : promise[i] = promise[k] /\ promise[i] # NoSync => i = k

\* The synchronisations that have an alert before them, those that found no notice of it,
\* and how they make up, with the notices that are doubled, for the crossings.
Seeking(a) == {s \in Syncs : a \in sync[s].looking \cup sync[s].creating}
Making(a) == {s \in Syncs : a \in sync[s].creating}
Count(a) ==
    /\ Cardinality(N!Doubled(a)) <= crossings
    /\ Cardinality(N!Doubled(a)) + Cardinality(Seeking(a)) <= crossings + 1
    /\ N!Recent(a) => Cardinality(N!Doubled(a)) + Cardinality(Making(a)) <= crossings
NoticesInv == NoticesTyped /\ SlotsInv /\ \A a \in N!Alerts : Count(a)

LEMMA CountsAreNumbers ==
    ASSUME NoticesTyped, NEW a
    PROVE  /\ IsFiniteSet(N!Doubled(a)) /\ Cardinality(N!Doubled(a)) \in Nat
           /\ IsFiniteSet(Seeking(a)) /\ Cardinality(Seeking(a)) \in Nat
           /\ IsFiniteSet(Making(a)) /\ Cardinality(Making(a)) \in Nat
<1>1. N!Doubled(a) \subseteq N!Ids /\ IsFiniteSet(N!Ids)
  <2>1. Len(notices) \in Nat
    BY DEF NoticesTyped
  <2>2. IsFiniteSet(1 .. Len(notices))
    BY <2>1, FS_Interval
  <2> QED
    BY <2>2 DEF N!Doubled, N!Ids
<1>2. Seeking(a) \subseteq Syncs /\ Making(a) \subseteq Syncs
  BY DEF Seeking, Making
<1>3. IsFiniteSet(N!Doubled(a)) /\ IsFiniteSet(Seeking(a)) /\ IsFiniteSet(Making(a))
  BY <1>1, <1>2, NoticesAssumption, FS_Subset
<1> QED
  BY <1>3, FS_CardinalityType

\* An alert of which nothing more is doubled, looked for or created.
LEMMA CountsKeep ==
    ASSUME NoticesTyped, NoticesTyped', NEW a, Count(a), crossings' = crossings,
           N!Doubled(a)' \subseteq N!Doubled(a), Seeking(a)' \subseteq Seeking(a),
           N!Recent(a)' => N!Recent(a) /\ Making(a)' \subseteq Making(a)
    PROVE  Count(a)'
<1>1. /\ Cardinality(N!Doubled(a))' <= Cardinality(N!Doubled(a))
      /\ Cardinality(Seeking(a))' <= Cardinality(Seeking(a))
      /\ N!Recent(a)' => Cardinality(Making(a))' <= Cardinality(Making(a))
  <2>1. \A X, Y : IsFiniteSet(Y) /\ X \subseteq Y => Cardinality(X) <= Cardinality(Y)
    BY FS_Subset
  <2>2. IsFiniteSet(N!Doubled(a)) /\ IsFiniteSet(Seeking(a)) /\ IsFiniteSet(Making(a))
    BY CountsAreNumbers
  <2> QED
    BY <2>1, <2>2
<1>2. /\ Cardinality(N!Doubled(a)) \in Nat /\ Cardinality(Seeking(a)) \in Nat
      /\ Cardinality(Making(a)) \in Nat /\ crossings \in Nat
  BY CountsAreNumbers DEF NoticesTyped
<1>3. /\ Cardinality(N!Doubled(a))' \in Nat /\ Cardinality(Seeking(a))' \in Nat
      /\ Cardinality(Making(a))' \in Nat
  <2>1. /\ N!Doubled(a)' \subseteq N!Doubled(a) /\ IsFiniteSet(N!Doubled(a))
        /\ Seeking(a)' \subseteq Syncs /\ Making(a)' \subseteq Syncs
    BY CountsAreNumbers DEF Seeking, Making
  <2>2. IsFiniteSet(N!Doubled(a)') /\ IsFiniteSet(Seeking(a)') /\ IsFiniteSet(Making(a)')
    BY <2>1, NoticesAssumption, FS_Subset
  <2> QED
    BY <2>2, FS_CardinalityType
<1> QED
  BY <1>1, <1>2, <1>3 DEF Count

\* Where the rows stay, so do what is doubled and what is recent; and where rows are only
\* marked, or a day goes by, there is no more of either.
LEMMA RowsDoubleNoMore ==
    ASSUME NoticesTyped, NoticesTyped', Marks, day' >= day, NEW a
    PROVE  N!Doubled(a)' \subseteq N!Doubled(a) /\ (N!Recent(a)' => N!Recent(a))
<1>0. \A i \in N!Ids' : /\ i \in N!Ids /\ notices'[i].alert = notices[i].alert
                        /\ notices'[i].born = notices[i].born
                        /\ (notices[i].read => notices'[i].read)
  BY DEF Marks, N!Ids
<1>1. ASSUME NEW k \in N!Doubled(a)' PROVE k \in N!Doubled(a)
  <2>1. PICK i \in N!Ids' : /\ i < k /\ notices'[i].alert = a /\ ~notices'[i].read
                            /\ notices'[k].born <= notices'[i].born + N!Lookback(a)
    BY DEF N!Doubled, N!Unread, N!Lookback
  <2>2. k \in N!Ids' /\ notices'[k].alert = a /\ ~notices'[k].read
    BY DEF N!Doubled, N!Unread
  <2> QED
    BY <1>0, <2>1, <2>2 DEF N!Doubled, N!Unread
<1>2. ASSUME N!Recent(a)' PROVE N!Recent(a)
  <2>1. PICK i \in N!Ids' : /\ notices'[i].alert = a /\ ~notices'[i].read
                            /\ notices'[i].born >= day' - N!Lookback(a)
    BY <1>2 DEF N!Recent, N!Unread, N!Lookback
  <2>2. notices[i].born \in Nat
    <3>1. notices[i] \in Notice
      BY <1>0, <2>1 DEF NoticesTyped, N!Ids
    <3> QED
      BY <3>1 DEF Notice
  <2>3. N!Lookback(a) \in Nat /\ day \in Nat /\ day' \in Nat
    BY DEF N!Lookback, NoticesTyped
  <2>4. notices[i].born >= day' - N!Lookback(a)
    BY <1>0, <2>1
  <2>5. notices[i].born >= day - N!Lookback(a)
    BY <2>2, <2>3, <2>4
  <2> QED
    BY <1>0, <2>1, <2>5 DEF N!Recent, N!Unread
<1> QED
  BY <1>1, <1>2

LEMMA SameRowsAreMarks == UNCHANGED notices => Marks
BY DEF Marks

LEMMA SlotsVisit == NoticesInv /\ NoticesTyped' /\ N!Visit => SlotsInv'
<1> SUFFICES ASSUME NoticesInv, NoticesTyped', N!Visit PROVE SlotsInv'
  OBVIOUS
<1>1. NoticesTyped /\ SlotsInv
  BY DEF NoticesInv
<1>2. CASE UNCHANGED <<sync, promise>>
  BY <1>1, <1>2 DEF SlotsInv
<1>3. ASSUME NEW i \in Instances, NEW s \in Syncs, Starts(i, s) PROVE SlotsInv'
  <2>0. sync \in [Syncs -> Sync] /\ promise \in [Instances -> Syncs \cup {NoSync}]
    BY <1>1 DEF NoticesTyped
  <2>1. /\ sync'[s].at = "running" /\ sync'[s].creating = {}
        /\ \A t \in Syncs : t # s => sync'[t] = sync[t]
        /\ promise'[i] = s /\ \A k \in Instances : k # i => promise'[k] = promise[k]
    BY <1>3, <2>0 DEF Starts
  <2>2. \A k \in Instances : promise[k] # s
    BY <1>1, <1>3, NoticesAssumption DEF SlotsInv, Starts
  <2>3. \A k \in Instances : promise'[k] # NoSync => sync'[promise'[k]].at = "running"
    BY <1>1, <2>0, <2>1, <2>2 DEF SlotsInv
  <2>4. \A k, m \in Instances : promise'[k] = promise'[m] /\ promise'[k] # NoSync => k = m
    BY <1>1, <2>1, <2>2 DEF SlotsInv
  <2>5. \A t \in Syncs : /\ sync'[t].at = "idle" => sync'[t].looking = {} /\ sync'[t].creating = {}
                         /\ sync'[t].looking \cap sync'[t].creating = {}
    BY <1>1, <2>1 DEF SlotsInv
  <2> QED
    BY <2>3, <2>4, <2>5 DEF SlotsInv
<1> QED
  BY <1>1, <1>2, <1>3, VisitsStart

LEMMA CountsVisit ==
    NoticesInv /\ NoticesTyped' /\ N!Visit => \A a \in N!Alerts : Count(a)'
<1> SUFFICES ASSUME NoticesInv, NoticesTyped', N!Visit, NEW a \in N!Alerts PROVE Count(a)'
  OBVIOUS
<1>0. /\ NoticesTyped /\ NoticesTyped' /\ Count(a) /\ UNCHANGED <<notices, day>> /\ Marks
      /\ crossings \in Nat /\ sync \in [Syncs -> Sync]
  BY SameRowsAreMarks DEF NoticesInv, NoticesTyped, N!Visit
<1>1. day' >= day
  BY <1>0 DEF NoticesTyped
<1>2. N!Doubled(a)' \subseteq N!Doubled(a) /\ (N!Recent(a)' => N!Recent(a))
  BY <1>0, <1>1, RowsDoubleNoMore
<1>3. CASE UNCHANGED <<sync, promise, crossings>>
  <2>1. Seeking(a)' = Seeking(a) /\ Making(a)' = Making(a)
    BY <1>3 DEF Seeking, Making
  <2> QED
    BY <1>0, <1>2, <1>3, <2>1, CountsKeep
<1>4. ASSUME NEW i \in Instances, NEW s \in Syncs, Starts(i, s) PROVE Count(a)'
  <2>1. Making(a)' = Making(a) /\ Seeking(a)' \subseteq Seeking(a) \cup {s}
    <3>1. /\ sync'[s].creating = {} /\ sync[s].creating = {}
          /\ \A t \in Syncs : t # s => sync'[t] = sync[t]
      BY <1>0, <1>4 DEF Starts, NoticesInv, SlotsInv
    <3> QED
      BY <3>1 DEF Making, Seeking
  <2>2. N!Doubled(a)' = N!Doubled(a) /\ (N!Recent(a)' <=> N!Recent(a))
    BY <1>0 DEF N!Doubled, N!Ids, N!Unread, N!Recent
  <2>3. /\ Cardinality(N!Doubled(a)) \in Nat /\ Cardinality(Making(a)) \in Nat
        /\ Cardinality(Seeking(a)) \in Nat /\ IsFiniteSet(Seeking(a))
    BY <1>0, CountsAreNumbers
  <2>4. /\ Cardinality(N!Doubled(a)') = Cardinality(N!Doubled(a))
        /\ Cardinality(Making(a)') = Cardinality(Making(a))
    BY <2>1, <2>2, Zenon
  <2>5. /\ Cardinality(Seeking(a)') \in Nat
        /\ Cardinality(Seeking(a)') <= Cardinality(Seeking(a)) + 1
        /\ Seeking(a) = {} => Cardinality(Seeking(a)') <= 1
    <3> DEFINE X == Seeking(a)
               Y == Seeking(a)'
    <3>1. IsFiniteSet(X) /\ Cardinality(X) \in Nat /\ Y \subseteq X \cup {s}
      BY <2>1, <2>3
    <3> HIDE DEF X, Y
    <3>2. /\ IsFiniteSet(X \cup {s}) /\ Cardinality(X \cup {s}) \in Nat
          /\ Cardinality(X \cup {s}) <= Cardinality(X) + 1
      <4>1. Cardinality(X \cup {s}) = IF s \in X THEN Cardinality(X) ELSE Cardinality(X) + 1
        BY <3>1, FS_AddElement
      <4>2. IsFiniteSet(X \cup {s})
        BY <3>1, FS_AddElement
      <4> QED
        BY <3>1, <4>1, <4>2
    <3>3. IsFiniteSet(Y) /\ Cardinality(Y) <= Cardinality(X \cup {s})
      BY <3>1, <3>2, FS_Subset
    <3>4. Cardinality(Y) \in Nat
      BY <3>3, FS_CardinalityType
    <3>5. Cardinality(Y) <= Cardinality(X) + 1
      BY <3>1, <3>2, <3>3, <3>4
    <3>6. X = {} => Cardinality(X) = 0
      BY FS_EmptySet
    <3>7. X = {} => Cardinality(Y) <= 1
      BY <3>5, <3>6
    <3> QED
      BY <3>4, <3>5, <3>7 DEF X, Y
  <2>6. CASE \E t \in Syncs : sync[t].at # "idle"
    <3>1. crossings' = crossings + 1
      BY <1>4, <2>6 DEF Starts
    <3> QED
      BY <1>0, <2>2, <2>3, <2>4, <2>5, <3>1 DEF Count
  <2>7. CASE ~(\E t \in Syncs : sync[t].at # "idle")
    <3>1. crossings' = crossings
      BY <1>4, <2>7 DEF Starts
    <3>2. Seeking(a) = {}
      BY <2>7 DEF Seeking, NoticesInv, SlotsInv
    <3> QED
      BY <1>0, <2>2, <2>3, <2>4, <2>5, <3>1, <3>2 DEF Count
  <2> QED
    BY <2>6, <2>7
<1> QED
  BY <1>0, <1>3, <1>4, VisitsStart

\* A step of one slot that only takes alerts off it, and neither starts nor ends it.
LEMMA SlotsGoOn ==
    ASSUME NoticesInv, NEW s \in Syncs, NEW slot \in Sync, sync' = [sync EXCEPT ![s] = slot],
           promise' = promise, slot.looking \cap slot.creating = {},
           sync[s].at # "failed" => slot.at = sync[s].at,
           slot.at = "idle" => slot.looking = {} /\ slot.creating = {}
    PROVE  SlotsInv'
<1>0. /\ sync \in [Syncs -> Sync] /\ promise \in [Instances -> Syncs \cup {NoSync}] /\ SlotsInv
  BY DEF NoticesInv, NoticesTyped
<1>1. sync'[s] = slot /\ \A t \in Syncs : t # s => sync'[t] = sync[t]
  BY <1>0
<1>2. \A i \in Instances : promise[i] # NoSync => sync'[promise[i]].at = "running"
  <2>1. sync[s].at = "running" => slot.at = "running"
    OBVIOUS
  <2> QED
    BY <1>0, <1>1, <2>1 DEF SlotsInv
<1> QED
  BY <1>0, <1>1, <1>2 DEF SlotsInv

LEMMA NoticesFind == NoticesInv /\ NoticesTyped' /\ N!FindNotice => NoticesInv'
<1> SUFFICES ASSUME NoticesInv, NoticesTyped', N!FindNotice PROVE NoticesInv'
  OBVIOUS
<1>0. /\ Marks /\ sync \in [Syncs -> Sync] /\ crossings' = crossings /\ day' = day
      /\ promise' = promise /\ UNCHANGED notices /\ NoticesTyped /\ day' >= day
  BY SameRowsAreMarks DEF N!FindNotice, NoticesInv, NoticesTyped
<1>1. PICK s \in Syncs : \E a \in N!Now(s) \cap sync[s].looking :
        sync' = [sync EXCEPT ![s] =
                   N!Left(s, @.looking \ {a}, IF N!Recent(a) THEN @.creating ELSE @.creating \cup {a})]
  BY DEF N!FindNotice
<1>2. PICK a \in N!Now(s) \cap sync[s].looking :
        sync' = [sync EXCEPT ![s] =
                   N!Left(s, sync[s].looking \ {a},
                          IF N!Recent(a) THEN sync[s].creating ELSE sync[s].creating \cup {a})]
  BY <1>0, <1>1
<1>3. PICK C \in SUBSET N!Alerts :
        /\ C = IF N!Recent(a) THEN sync[s].creating ELSE sync[s].creating \cup {a}
        /\ sync' = [sync EXCEPT ![s] = N!Left(s, sync[s].looking \ {a}, C)]
  BY <1>0, <1>2 DEF Sync
<1>4. sync[s].looking \ {a} \in SUBSET N!Alerts
  BY <1>0 DEF Sync
<1>5. PICK slot \in Sync :
        /\ slot = N!Left(s, sync[s].looking \ {a}, C)
        /\ slot.looking = sync[s].looking \ {a} /\ slot.creating = C
        /\ sync[s].at # "failed" => slot.at = sync[s].at
  BY <1>0, <1>4, LeftIsTyped
<1>6. slot.at = "idle" => slot.looking = {} /\ slot.creating = {}
  <2>1. sync[s].at # "idle"
    BY <1>2 DEF NoticesInv, SlotsInv
  <2> QED
    BY <1>0, <1>5, <2>1 DEF N!Left, N!Idle, Sync
<1>7. slot.looking \cap slot.creating = {}
  BY <1>3, <1>5 DEF NoticesInv, SlotsInv
<1>8. SlotsInv'
  BY <1>0, <1>3, <1>5, <1>6, <1>7, SlotsGoOn
<1>9. ASSUME NEW b \in N!Alerts PROVE Count(b)'
  <2>1. N!Doubled(b)' \subseteq N!Doubled(b) /\ (N!Recent(b)' => N!Recent(b))
    BY <1>0, RowsDoubleNoMore DEF NoticesInv
  <2>2. sync'[s] = slot /\ \A t \in Syncs : t # s => sync'[t] = sync[t]
    BY <1>0, <1>3, <1>5
  <2>3. Seeking(b)' \subseteq Seeking(b)
    BY <1>2, <1>3, <1>5, <2>2 DEF Seeking
  <2>4. N!Recent(b) => Making(b)' \subseteq Making(b)
    BY <1>3, <1>5, <2>2 DEF Making
  <2> QED
    BY <1>0, <2>1, <2>3, <2>4, CountsKeep DEF NoticesInv
<1> QED
  BY <1>8, <1>9 DEF NoticesInv

\* A notice is created: it is doubled only if one of its alert came before it since it was
\* looked for, and its synchronisation is done with the alert.
LEMMA NoticesCreate == NoticesInv /\ NoticesTyped' /\ N!CreateNotice => NoticesInv'
<1> SUFFICES ASSUME NoticesInv, NoticesTyped', N!CreateNotice PROVE NoticesInv'
  OBVIOUS
<1>0. /\ sync \in [Syncs -> Sync] /\ crossings' = crossings /\ day' = day /\ promise' = promise
      /\ day \in Nat /\ NoticesTyped /\ Len(notices) \in Nat /\ crossings \in Nat
  BY DEF N!CreateNotice, NoticesInv, NoticesTyped
<1>1. PICK s \in Syncs : \E a \in sync[s].creating :
        /\ notices' = Append(notices, [alert |-> a, born |-> day, read |-> FALSE, sent |-> FALSE,
                                       mailed |-> 0, dropped |-> 0])
        /\ sync' = [sync EXCEPT ![s] = N!Left(s, @.looking, @.creating \ {a})]
  BY DEF N!CreateNotice
<1>2. PICK a \in sync[s].creating :
        /\ notices' = Append(notices, [alert |-> a, born |-> day, read |-> FALSE, sent |-> FALSE,
                                       mailed |-> 0, dropped |-> 0])
        /\ sync' = [sync EXCEPT ![s] = N!Left(s, sync[s].looking, sync[s].creating \ {a})]
  BY <1>0, <1>1
<1>3. /\ a \in N!Alerts /\ sync[s].looking \in SUBSET N!Alerts
      /\ sync[s].creating \ {a} \in SUBSET N!Alerts
  BY <1>0, <1>2 DEF Sync
<1>4. Adds(a)
  BY <1>0, <1>2, <1>3, RowsAreAdded
<1>5. PICK slot \in Sync :
        /\ slot = N!Left(s, sync[s].looking, sync[s].creating \ {a})
        /\ slot.looking = sync[s].looking /\ slot.creating = sync[s].creating \ {a}
        /\ sync[s].at # "failed" => slot.at = sync[s].at
  BY <1>0, <1>3, LeftIsTyped
<1>6. slot.at = "idle" => slot.looking = {} /\ slot.creating = {}
  <2>1. sync[s].at # "idle"
    BY <1>2 DEF NoticesInv, SlotsInv
  <2> QED
    BY <1>0, <1>5, <2>1 DEF N!Left, N!Idle, Sync
<1>7. slot.looking \cap slot.creating = {} /\ a \notin sync[s].looking
  BY <1>2, <1>5 DEF NoticesInv, SlotsInv
<1>8. SlotsInv'
  BY <1>0, <1>2, <1>5, <1>6, <1>7, SlotsGoOn
<1>9. sync'[s] = slot /\ \A t \in Syncs : t # s => sync'[t] = sync[t]
  BY <1>0, <1>2, <1>5
<1>10. /\ N!Ids' = N!Ids \cup {Len(notices) + 1} /\ \A i \in N!Ids : notices'[i] = notices[i]
       /\ notices'[Len(notices) + 1].alert = a /\ notices'[Len(notices) + 1].born = day
       /\ \A i \in N!Ids : i < Len(notices) + 1
  BY <1>0, <1>4 DEF Adds, N!Ids
<1>11. \A b : N!Doubled(b)' \subseteq N!Doubled(b) \cup {Len(notices) + 1}
  <2> SUFFICES ASSUME NEW b, NEW k \in N!Doubled(b)', k # Len(notices) + 1
               PROVE  k \in N!Doubled(b)
    OBVIOUS
  <2>1. PICK i \in N!Ids' : /\ i < k /\ notices'[i].alert = b /\ ~notices'[i].read
                            /\ notices'[k].born <= notices'[i].born + N!Lookback(b)
    BY DEF N!Doubled, N!Unread, N!Lookback
  <2>2. k \in N!Ids' /\ notices'[k].alert = b /\ ~notices'[k].read
    BY DEF N!Doubled, N!Unread
  <2>3. k \in N!Ids /\ i \in N!Ids
    <3>1. k \in N!Ids
      BY <1>10, <2>2
    <3>2. k < Len(notices) + 1 /\ k \in Nat /\ i # Len(notices) + 1
      BY <1>0, <1>10, <2>1, <3>1 DEF N!Ids
    <3> QED
      BY <1>10, <2>1, <3>1, <3>2
  <2> QED
    BY <1>10, <2>1, <2>2, <2>3 DEF N!Doubled, N!Unread
<1>12. ASSUME NEW b \in N!Alerts, b # a PROVE Count(b)'
  <2>1. N!Doubled(b)' \subseteq N!Doubled(b)
    BY <1>10, <1>11, <1>12 DEF N!Doubled
  <2>2. N!Recent(b)' => N!Recent(b)
    <3> SUFFICES ASSUME N!Recent(b)' PROVE N!Recent(b)
      OBVIOUS
    <3>1. PICK i \in N!Ids' : /\ notices'[i].alert = b /\ ~notices'[i].read
                              /\ notices'[i].born >= day - N!Lookback(b)
      BY <1>0 DEF N!Recent, N!Unread, N!Lookback
    <3>2. i \in N!Ids /\ notices'[i] = notices[i]
      BY <1>10, <1>12, <3>1
    <3> QED
      BY <3>1, <3>2 DEF N!Recent, N!Unread
  <2>3. Seeking(b)' \subseteq Seeking(b) /\ Making(b)' \subseteq Making(b)
    BY <1>5, <1>9 DEF Seeking, Making
  <2> QED
    BY <1>0, <2>1, <2>2, <2>3, CountsKeep DEF NoticesInv
<1>13. Count(a)'
  <2>1. /\ Seeking(a)' = Seeking(a) \ {s} /\ Making(a)' = Making(a) \ {s}
        /\ s \in Seeking(a) /\ s \in Making(a) /\ Making(a) \subseteq Seeking(a)
    BY <1>2, <1>5, <1>7, <1>9 DEF Seeking, Making
  <2>2. /\ IsFiniteSet(N!Doubled(a)) /\ Cardinality(N!Doubled(a)) \in Nat
        /\ IsFiniteSet(Seeking(a)) /\ Cardinality(Seeking(a)) \in Nat
        /\ IsFiniteSet(Making(a)) /\ Cardinality(Making(a)) \in Nat
    BY <1>0, CountsAreNumbers
  <2>3. /\ Cardinality(Seeking(a)') = Cardinality(Seeking(a)) - 1
        /\ Cardinality(Making(a)') = Cardinality(Making(a)) - 1
        /\ Cardinality(Making(a)) <= Cardinality(Seeking(a))
    <3>1. /\ Cardinality(Seeking(a) \ {s}) = Cardinality(Seeking(a)) - 1
          /\ Cardinality(Making(a) \ {s}) = Cardinality(Making(a)) - 1
      BY <2>1, <2>2, FS_RemoveElement
    <3>2. Cardinality(Making(a)) <= Cardinality(Seeking(a))
      BY <2>1, <2>2, FS_Subset
    <3>3. /\ Cardinality(Seeking(a)') = Cardinality(Seeking(a) \ {s})
          /\ Cardinality(Making(a)') = Cardinality(Making(a) \ {s})
      BY <2>1, Zenon
    <3> QED
      BY <3>1, <3>2, <3>3
  <2>4. Cardinality(N!Doubled(a)') \in Nat
    <3>1. IsFiniteSet(N!Doubled(a) \cup {Len(notices) + 1})
      BY <2>2, FS_AddElement
    <3>2. IsFiniteSet(N!Doubled(a)')
      BY <1>11, <3>1, FS_Subset
    <3> QED
      BY <3>2, FS_CardinalityType
  <2>5. CASE N!Recent(a)
    <3>1. Cardinality(N!Doubled(a)') <= Cardinality(N!Doubled(a)) + 1
      <4>1. /\ IsFiniteSet(N!Doubled(a) \cup {Len(notices) + 1})
            /\ Cardinality(N!Doubled(a) \cup {Len(notices) + 1}) <= Cardinality(N!Doubled(a)) + 1
        <5>1. Cardinality(N!Doubled(a) \cup {Len(notices) + 1})
                = IF Len(notices) + 1 \in N!Doubled(a) THEN Cardinality(N!Doubled(a))
                  ELSE Cardinality(N!Doubled(a)) + 1
          BY <2>2, FS_AddElement
        <5>2. IsFiniteSet(N!Doubled(a) \cup {Len(notices) + 1})
          BY <2>2, FS_AddElement
        <5> QED
          BY <2>2, <5>1, <5>2
      <4>2. Cardinality(N!Doubled(a)') <= Cardinality(N!Doubled(a) \cup {Len(notices) + 1})
        BY <1>11, <4>1, FS_Subset
      <4>3. Cardinality(N!Doubled(a) \cup {Len(notices) + 1}) \in Nat
        BY <4>1, FS_CardinalityType
      <4> QED
        BY <2>2, <2>4, <4>1, <4>2, <4>3
    <3>2. Cardinality(Making(a)') \in Nat
      <4>1. IsFiniteSet(Making(a) \ {s})
        BY <2>2, FS_Subset
      <4> QED
        BY <2>1, <4>1, FS_CardinalityType
    <3>3. /\ Cardinality(N!Doubled(a)) + Cardinality(Making(a)) <= crossings
          /\ Cardinality(N!Doubled(a)) + Cardinality(Seeking(a)) <= crossings + 1
      BY <1>3, <2>5 DEF NoticesInv, Count
    <3> QED
      BY <1>0, <2>2, <2>3, <2>4, <3>1, <3>2, <3>3 DEF Count
  <2>6. CASE ~N!Recent(a)
    <3>1. Len(notices) + 1 \notin N!Doubled(a)'
      <4> SUFFICES ASSUME Len(notices) + 1 \in N!Doubled(a)' PROVE FALSE
        OBVIOUS
      <4>1. PICK i \in N!Ids' : /\ i < Len(notices) + 1 /\ notices'[i].alert = a
                                /\ ~notices'[i].read
                                /\ notices'[Len(notices) + 1].born <= notices'[i].born + N!Lookback(a)
        BY DEF N!Doubled, N!Unread, N!Lookback
      <4>2. i \in N!Ids /\ notices'[i] = notices[i]
        BY <1>0, <1>10, <4>1
      <4>3. notices[i].born \in Nat /\ N!Lookback(a) \in Nat
        <5>1. notices[i] \in Notice
          BY <1>0, <4>2 DEF NoticesTyped, N!Ids
        <5> QED
          BY <5>1 DEF Notice, N!Lookback
      <4>4. day <= notices[i].born + N!Lookback(a)
        BY <1>10, <4>1, <4>2
      <4>5. notices[i].born >= day - N!Lookback(a)
        BY <1>0, <4>3, <4>4
      <4> QED
        BY <2>6, <4>1, <4>2, <4>5 DEF N!Recent, N!Unread
    <3>2. Cardinality(N!Doubled(a)') <= Cardinality(N!Doubled(a))
      <4>1. N!Doubled(a)' \subseteq N!Doubled(a)
        BY <1>11, <3>1
      <4> QED
        BY <2>2, <4>1, FS_Subset
    <3>3. /\ Cardinality(N!Doubled(a)) <= crossings
          /\ Cardinality(N!Doubled(a)) + Cardinality(Seeking(a)) <= crossings + 1
      BY <1>3 DEF NoticesInv, Count
    <3> QED
      BY <1>0, <2>2, <2>3, <2>4, <3>2, <3>3 DEF Count
  <2> QED
    BY <2>5, <2>6
<1> QED
  BY <1>8, <1>12, <1>13 DEF NoticesInv

\* A promise is forgotten with its synchronisation.
LEMMA PromiseIsForgotten ==
    ASSUME NoticesInv, NEW s \in Syncs, \A t \in Syncs : t # s => sync'[t] = sync[t],
           NEW i \in Instances, promise[i] = s, promise' = [promise EXCEPT ![i] = NoSync]
    PROVE  /\ \A k \in Instances : promise'[k] # NoSync => sync'[promise'[k]].at = "running"
           /\ \A k, m \in Instances : promise'[k] = promise'[m] /\ promise'[k] # NoSync => k = m
<1>0. promise \in [Instances -> Syncs \cup {NoSync}] /\ SlotsInv
  BY DEF NoticesInv, NoticesTyped
<1>1. promise'[i] = NoSync /\ \A k \in Instances : k # i => promise'[k] = promise[k]
  BY <1>0
<1>2. \A k \in Instances : k # i => promise[k] # s
  BY <1>0, NoticesAssumption DEF SlotsInv
<1> QED
  BY <1>0, <1>1, <1>2 DEF SlotsInv

LEMMA NoticesEnd == NoticesInv /\ NoticesTyped' /\ N!SyncEnds => NoticesInv'
<1> SUFFICES ASSUME NoticesInv, NoticesTyped', N!SyncEnds PROVE NoticesInv'
  OBVIOUS
<1>0. /\ Marks /\ sync \in [Syncs -> Sync] /\ crossings' = crossings /\ day' >= day
      /\ NoticesTyped /\ SlotsInv /\ promise \in [Instances -> Syncs \cup {NoSync}]
  BY SameRowsAreMarks DEF N!SyncEnds, NoticesInv, NoticesTyped
<1>1. PICK s \in Syncs :
        /\ sync[s].at = "running" /\ sync[s].looking \cup sync[s].creating = {}
        /\ sync' = [sync EXCEPT ![s] = N!Idle]
        /\ \E i \in Instances : promise[i] = s /\ promise' = [promise EXCEPT ![i] = NoSync]
  BY DEF N!SyncEnds
<1>2. /\ sync'[s].at = "idle" /\ sync'[s].looking = {} /\ sync'[s].creating = {}
      /\ \A t \in Syncs : t # s => sync'[t] = sync[t]
  BY <1>0, <1>1 DEF N!Idle
<1>3. SlotsInv'
  BY <1>0, <1>1, <1>2, PromiseIsForgotten DEF SlotsInv
<1>4. ASSUME NEW a \in N!Alerts PROVE Count(a)'
  <2>1. Seeking(a)' \subseteq Seeking(a) /\ Making(a)' \subseteq Making(a)
    BY <1>2 DEF Seeking, Making
  <2>2. N!Doubled(a)' \subseteq N!Doubled(a) /\ (N!Recent(a)' => N!Recent(a))
    BY <1>0, RowsDoubleNoMore
  <2> QED
    BY <1>0, <2>1, <2>2, CountsKeep DEF NoticesInv
<1> QED
  BY <1>3, <1>4 DEF NoticesInv

LEMMA NoticesFail == NoticesInv /\ NoticesTyped' /\ N!SyncFails => NoticesInv'
<1> SUFFICES ASSUME NoticesInv, NoticesTyped', N!SyncFails PROVE NoticesInv'
  OBVIOUS
<1>0. /\ Marks /\ sync \in [Syncs -> Sync] /\ crossings' = crossings /\ day' >= day
      /\ NoticesTyped /\ SlotsInv /\ promise \in [Instances -> Syncs \cup {NoSync}]
  BY SameRowsAreMarks DEF N!SyncFails, NoticesInv, NoticesTyped
<1>1. PICK s \in Syncs : \E a \in N!Now(s) :
        /\ sync' = [sync EXCEPT ![s] =
                     IF N!Now(s) \ {a} = {} THEN N!Idle
                     ELSE [at |-> "failed", looking |-> (N!Now(s) \ {a}) \cap sync[s].looking,
                           creating |-> (N!Now(s) \ {a}) \cap sync[s].creating]]
        /\ \E i \in Instances : promise[i] = s /\ promise' = [promise EXCEPT ![i] = NoSync]
  BY <1>0 DEF N!SyncFails
<1>2. /\ sync'[s].at = "idle" => sync'[s].looking = {} /\ sync'[s].creating = {}
      /\ sync'[s].looking \subseteq sync[s].looking
      /\ sync'[s].creating \subseteq sync[s].creating
      /\ \A t \in Syncs : t # s => sync'[t] = sync[t]
  BY <1>0, <1>1 DEF N!Idle
<1>3. SlotsInv'
  BY <1>0, <1>1, <1>2, PromiseIsForgotten DEF SlotsInv
<1>4. ASSUME NEW a \in N!Alerts PROVE Count(a)'
  <2>1. Seeking(a)' \subseteq Seeking(a) /\ Making(a)' \subseteq Making(a)
    BY <1>2 DEF Seeking, Making
  <2>2. N!Doubled(a)' \subseteq N!Doubled(a) /\ (N!Recent(a)' => N!Recent(a))
    BY <1>0, RowsDoubleNoMore
  <2> QED
    BY <1>0, <2>1, <2>2, CountsKeep DEF NoticesInv
<1> QED
  BY <1>3, <1>4 DEF NoticesInv

LEMMA NoticesRest ==
    ASSUME NoticesInv, NoticesTyped', UNCHANGED <<sync, promise, crossings>>, Marks, day' >= day
    PROVE  NoticesInv'
<1>1. SlotsInv'
  BY DEF NoticesInv, SlotsInv
<1>2. ASSUME NEW a \in N!Alerts PROVE Count(a)'
  <2>1. Seeking(a)' = Seeking(a) /\ Making(a)' = Making(a)
    BY DEF Seeking, Making
  <2>2. N!Doubled(a)' \subseteq N!Doubled(a) /\ (N!Recent(a)' => N!Recent(a))
    BY RowsDoubleNoMore DEF NoticesInv
  <2> QED
    BY <2>1, <2>2, CountsKeep DEF NoticesInv
<1> QED
  BY <1>1, <1>2 DEF NoticesInv

LEMMA NoticesStep == NoticesInv /\ [N!Next]_noticeVars => NoticesInv'
<1> SUFFICES ASSUME NoticesInv, [N!Next]_noticeVars PROVE NoticesInv'
  OBVIOUS
<1>0. NoticesTyped /\ NoticesTyped' /\ day \in Nat /\ day' \in Nat
  BY NoticesTypedStep DEF NoticesInv, NoticesTyped
<1>1. ASSUME UNCHANGED <<sync, promise, crossings, notices, day>> PROVE NoticesInv'
  BY <1>0, <1>1, SameRowsAreMarks, NoticesRest
<1>2. CASE N!Visit
  BY <1>0, <1>2, SlotsVisit, CountsVisit DEF NoticesInv
<1>3. CASE N!MarkRead \/ N!ReadAll \/ N!MailDigest \/ N!MarkDigest
  <2>1. Marks
    BY <1>0, <1>3, RowsAreMarked
  <2>2. UNCHANGED <<sync, promise, crossings, day>>
    BY <1>3 DEF N!MarkRead, N!ReadAll, N!MailDigest, N!MarkDigest
  <2> QED
    BY <1>0, <2>1, <2>2, NoticesRest
<1>4. CASE N!LaterDay
  <2>1. Marks /\ UNCHANGED <<sync, promise, crossings>> /\ day' > day
    BY <1>4, SameRowsAreMarks DEF N!LaterDay
  <2> QED
    BY <1>0, <2>1, NoticesRest
<1> QED
  BY <1>0, <1>1, <1>2, <1>3, <1>4, NoticesFind, NoticesCreate, NoticesEnd, NoticesFail
     DEF N!Next, noticeVars, N!Leave, N!CooldownEnds, N!ListNotices, N!PickDigest, N!CutDigest,
         N!ChangeAccount

LEMMA NoticesBegin == N!Init => NoticesInv
<1> SUFFICES ASSUME N!Init PROVE NoticesInv
  OBVIOUS
<1>1. NoticesTyped
  BY NoticesStart
<1>2. SlotsInv
  BY DEF N!Init, SlotsInv, N!Idle
<1>3. ASSUME NEW a \in N!Alerts PROVE Count(a)
  <2>1. N!Doubled(a) = {} /\ Seeking(a) = {} /\ Making(a) = {} /\ crossings = 0
    BY DEF N!Init, N!Doubled, N!Ids, Seeking, Making, N!Idle
  <2>2. /\ Cardinality(N!Doubled(a)) = 0 /\ Cardinality(Seeking(a)) = 0
        /\ Cardinality(Making(a)) = 0
    BY <2>1, FS_EmptySet
  <2> QED
    BY <2>1, <2>2 DEF Count
<1> QED
  BY <1>1, <1>2, <1>3 DEF NoticesInv

\* For any users, days, processes and failures, an alert has no second unread notice within
\* its look-back but for the synchronisations that crossed another, one each at most: the
\* promise of a process is that of the only one it has at work (notification-service.ts).
THEOREM NoticesAreSingle == PagesSpec => []OneNoticePerOccasion
<1> DEFINE Inv == open = "notices" => NoticesInv
<1>1. OpenInit => Inv
  BY NoticesBegin DEF OpenInit
<1>2. Inv /\ [OpenNext]_allVars => Inv'
  BY PageMoves, NoticesStep
<1>3. Inv => OneNoticePerOccasion
  BY DEF OneNoticePerOccasion, NoticesInv, Count, N!OneUnreadPerAlert, Cardinality, N!Cardinality
<1> QED
  BY <1>1, <1>2, <1>3, PTL DEF PagesSpec

-----------------------------------------------------------------------------
(* The digest.                                                               *)

\* The runs that are about to mail notice i, whether some run is at work on it, and how
\* many mails it may have had beyond those of the runs that were cut.
Mailing(i) == {j \in Jobs : job[j].at = "mail" /\ i \in job[j].picked}
AtWork(i) == \E j \in Jobs : job[j].at # "idle" /\ i \in job[j].picked
Allowance(i) == IF notices[i].sent \/ AtWork(i) THEN 1 ELSE 0
DigestInv ==
    /\ NoticesTyped
    /\ \A i \in N!Ids : /\ N!Handed(i) + Cardinality(Mailing(i)) <= cuts + Allowance(i)
                        /\ notices[i].sent => N!Handed(i) >= 1
    /\ \A j \in Jobs : job[j].at = "mark" => \A i \in job[j].picked : N!Handed(i) >= 1

LEMMA RowsAreTyped == NoticesTyped => \A i \in N!Ids : N!Handed(i) \in Nat
<1> SUFFICES ASSUME NoticesTyped, NEW i \in N!Ids PROVE N!Handed(i) \in Nat
  OBVIOUS
<1>1. notices[i] \in Notice
  BY DEF NoticesTyped, N!Ids
<1> QED
  BY <1>1 DEF Notice, N!Handed

LEMMA OutIsFinite == \A i : IsFiniteSet(Mailing(i)) /\ Cardinality(Mailing(i)) \in Nat
<1> SUFFICES ASSUME NEW i PROVE IsFiniteSet(Mailing(i)) /\ Cardinality(Mailing(i)) \in Nat
  OBVIOUS
<1>1. Mailing(i) \in SUBSET Jobs
  BY DEF Mailing
<1>2. IsFiniteSet(Mailing(i))
  BY <1>1, NoticesAssumption, FS_Subset
<1> QED
  BY <1>2, FS_CardinalityType

\* A run starts to mail, or is done with mailing.
LEMMA OneMoreOut ==
    ASSUME NEW i, NEW j \in Jobs
    PROVE  /\ Cardinality(Mailing(i) \cup {j}) <= Cardinality(Mailing(i)) + 1
           /\ j \in Mailing(i) => Cardinality(Mailing(i) \ {j}) = Cardinality(Mailing(i)) - 1
<1> DEFINE X == Mailing(i)
<1>0. IsFiniteSet(X) /\ Cardinality(X) \in Nat
  BY OutIsFinite
<1> HIDE DEF X
<1>1. Cardinality(X \cup {j}) <= Cardinality(X) + 1
  <2>1. Cardinality(X \cup {j}) = IF j \in X THEN Cardinality(X) ELSE Cardinality(X) + 1
    BY <1>0, FS_AddElement
  <2> QED
    BY <1>0, <2>1
<1>2. j \in X => Cardinality(X \ {j}) = Cardinality(X) - 1
  BY <1>0, FS_RemoveElement
<1> QED
  BY <1>1, <1>2 DEF X

LEMMA DigestIsKept ==
    ASSUME DigestInv, NoticesTyped', UNCHANGED <<job, cuts>>,
           \A i \in N!Ids' : \/ /\ i \in N!Ids /\ N!Handed(i)' = N!Handed(i)
                                /\ notices'[i].sent = notices[i].sent
                             \/ i \notin N!Ids /\ N!Handed(i)' = 0 /\ notices'[i].sent = FALSE,
           N!Ids \subseteq N!Ids'
    PROVE  DigestInv'
<1>1. \A i : Mailing(i)' = Mailing(i) /\ (AtWork(i)' <=> AtWork(i))
  BY DEF Mailing, AtWork
<1>2. ASSUME NEW i \in N!Ids'
      PROVE  /\ N!Handed(i)' + Cardinality(Mailing(i)') <= cuts + Allowance(i)'
             /\ notices'[i].sent => N!Handed(i)' >= 1
  <2>1. CASE i \in N!Ids
    <3>1. N!Handed(i)' = N!Handed(i) /\ notices'[i].sent = notices[i].sent
      BY <2>1
    <3>2. Allowance(i)' = Allowance(i)
      BY <1>1, <3>1 DEF Allowance
    <3> QED
      BY <1>1, <2>1, <3>1, <3>2 DEF DigestInv
  <2>2. CASE i \notin N!Ids
    <3>1. Mailing(i) = {}
      BY <2>2 DEF Mailing, DigestInv, NoticesTyped
    <3>2. Cardinality(Mailing(i)') = 0
      BY <1>1, <3>1, FS_EmptySet
    <3>3. Allowance(i)' \in {0, 1} /\ cuts \in Nat
      BY DEF Allowance, DigestInv, NoticesTyped
    <3> QED
      BY <2>2, <3>2, <3>3
  <2> QED
    BY <2>1, <2>2
<1>3. \A j \in Jobs : job'[j].at = "mark" => \A i \in job'[j].picked : N!Handed(i)' >= 1
  <2>1. \A j \in Jobs : job[j].picked \subseteq N!Ids
    BY DEF DigestInv, NoticesTyped
  <2>2. \A i \in N!Ids : N!Handed(i)' = N!Handed(i)
    OBVIOUS
  <2> QED
    BY <2>1, <2>2 DEF DigestInv
<1>4. \A i \in N!Ids' : /\ N!Handed(i)' + Cardinality(Mailing(i)') <= cuts' + Allowance(i)'
                        /\ notices'[i].sent => N!Handed(i)' >= 1
  BY <1>2
<1> QED
  BY <1>3, <1>4 DEF DigestInv

LEMMA DigestPicks == DigestInv /\ NoticesTyped' /\ N!PickDigest => DigestInv'
<1> SUFFICES ASSUME DigestInv, NoticesTyped', N!PickDigest PROVE DigestInv'
  OBVIOUS
<1>0. /\ job \in [Jobs -> Run] /\ cuts \in Nat /\ UNCHANGED notices /\ N!Ids' = N!Ids
      /\ \A i : N!Handed(i)' = N!Handed(i)
  BY DEF N!PickDigest, DigestInv, NoticesTyped, N!Ids, N!Handed
<1>1. PICK j \in Jobs :
        /\ job[j].at = "idle"
        /\ cuts' = IF \E k \in Jobs \ {j} : job[k].at # "idle" THEN cuts + 1 ELSE cuts
        /\ job' = [job EXCEPT ![j] = [at |-> "mail",
                     picked |-> N!NewestOf({i \in N!Ids : N!Pickable(i)}, DigestSize)]]
  BY DEF N!PickDigest
<1>2. PICK picks : picks = N!NewestOf({i \in N!Ids : N!Pickable(i)}, DigestSize)
  OBVIOUS
<1>3. \A i \in picks : ~notices[i].sent
  BY <1>2 DEF N!NewestOf, N!Pickable
<1>4. /\ job'[j].at = "mail" /\ job'[j].picked = picks
      /\ \A k \in Jobs : k # j => job'[k] = job[k]
  BY <1>0, <1>1, <1>2
<1>5. \A i : /\ Mailing(i)' = IF i \in picks THEN Mailing(i) \cup {j} ELSE Mailing(i)
             /\ AtWork(i)' <=> AtWork(i) \/ i \in picks
  BY <1>1, <1>4 DEF Mailing, AtWork
<1>6. ASSUME NEW i \in N!Ids
      PROVE  N!Handed(i) + Cardinality(Mailing(i)') <= cuts' + Allowance(i)'
  <2>0. /\ N!Handed(i) + Cardinality(Mailing(i)) <= cuts + Allowance(i)
        /\ N!Handed(i) \in Nat /\ Cardinality(Mailing(i)) \in Nat /\ Allowance(i) \in {0, 1}
    BY OutIsFinite, RowsAreTyped DEF DigestInv, Allowance
  <2>1. Allowance(i)' = IF notices[i].sent \/ AtWork(i) \/ i \in picks THEN 1 ELSE 0
    BY <1>0, <1>5 DEF Allowance
  <2>2. CASE \E k \in Jobs \ {j} : job[k].at # "idle"
    <3>1. cuts' = cuts + 1
      BY <1>1, <2>2
    <3>2. Cardinality(Mailing(i)') <= Cardinality(Mailing(i)) + 1
      <4>1. Cardinality(Mailing(i) \cup {j}) <= Cardinality(Mailing(i)) + 1
        BY OneMoreOut
      <4>2. Mailing(i)' = Mailing(i) \cup {j} \/ Mailing(i)' = Mailing(i)
        BY <1>5
      <4>3. \/ Cardinality(Mailing(i)') = Cardinality(Mailing(i) \cup {j})
            \/ Cardinality(Mailing(i)') = Cardinality(Mailing(i))
        BY <4>2, Zenon
      <4> QED
        BY <2>0, <4>1, <4>3
    <3>3. Allowance(i) <= Allowance(i)'
      BY <2>1 DEF Allowance
    <3>4. Cardinality(Mailing(i)') \in Nat
      BY <1>5, <2>0, OutIsFinite, FS_AddElement, FS_CardinalityType
    <3>5. Allowance(i)' \in {0, 1}
      BY <2>1
    <3> QED
      BY <1>0, <2>0, <3>1, <3>2, <3>3, <3>4, <3>5
  <2>3. CASE ~(\E k \in Jobs \ {j} : job[k].at # "idle")
    <3>1. cuts' = cuts
      BY <1>1, <2>3
    <3>2. CASE i \in picks
      <4>1. ~AtWork(i) /\ Mailing(i) = {}
        BY <1>1, <2>3 DEF AtWork, Mailing
      <4>2. Allowance(i) = 0
        BY <1>3, <3>2, <4>1 DEF Allowance
      <4>3. Cardinality(Mailing(i)') = 1
        <5>1. Mailing(i)' = {j}
          BY <1>5, <3>2, <4>1
        <5> QED
          BY <5>1, FS_Singleton
      <4>4. Cardinality(Mailing(i)) = 0
        BY <4>1, FS_EmptySet
      <4>5. Allowance(i)' = 1
        BY <2>1, <3>2
      <4> QED
        BY <1>0, <2>0, <3>1, <4>2, <4>3, <4>4, <4>5
    <3>3. CASE i \notin picks
      <4>1. Allowance(i)' = Allowance(i)
        BY <2>1, <3>3 DEF Allowance
      <4> QED
        BY <1>5, <2>0, <3>1, <3>3, <4>1
    <3> QED
      BY <3>2, <3>3
  <2> QED
    BY <2>2, <2>3
<1>7. \A k \in Jobs : job'[k].at = "mark" => \A i \in job'[k].picked : N!Handed(i) >= 1
  BY <1>4 DEF DigestInv
<1>8. \A i \in N!Ids : notices[i].sent => N!Handed(i) >= 1
  BY DEF DigestInv
<1> QED
  BY <1>0, <1>6, <1>7, <1>8 DEF DigestInv

\* A run that ends, or turns from mailing to marking, by what it leaves of the rows.
LEMMA DigestTurns ==
    ASSUME DigestInv, NoticesTyped', N!Ids' = N!Ids, NEW j \in Jobs, NEW next \in Run,
           job' = [job EXCEPT ![j] = next], next.at # "mail", cuts' \in Nat,
           next.at = "mark" => next.picked = job[j].picked /\ job[j].at = "mail",
           \A i \in N!Ids : /\ (notices'[i].sent => notices[i].sent \/ i \in job[j].picked)
                            /\ (notices[i].sent => notices'[i].sent)
                            /\ (notices'[i].sent => N!Handed(i)' >= 1)
                            /\ N!Handed(i)' \in {N!Handed(i), N!Handed(i) + 1},
           \A i \in N!Ids : N!Handed(i)' = N!Handed(i) + 1
              => j \in Mailing(i) /\ next.at = "mark",
           \A i \in job[j].picked : next.at = "mark" => N!Handed(i)' = N!Handed(i) + 1,
           \A i \in N!Ids : \/ j \in Mailing(i) /\ cuts' = cuts
                            \/ notices'[i].sent = TRUE /\ cuts' = cuts
                            \/ i \notin job[j].picked /\ cuts' \in {cuts, cuts + 1}
                            \/ cuts' = cuts + 1
    PROVE  DigestInv'
<1>0. job \in [Jobs -> Run] /\ cuts \in Nat /\ NoticesTyped
  BY DEF DigestInv, NoticesTyped
<1>1. job'[j] = next /\ \A k \in Jobs : k # j => job'[k] = job[k]
  BY <1>0
<1>2. \A i : Mailing(i)' = Mailing(i) \ {j}
  BY <1>1 DEF Mailing
<1>3. ASSUME NEW i \in N!Ids
      PROVE  N!Handed(i)' + Cardinality(Mailing(i)') <= cuts' + Allowance(i)'
  <2>0. /\ N!Handed(i) + Cardinality(Mailing(i)) <= cuts + Allowance(i)
        /\ N!Handed(i) \in Nat /\ Cardinality(Mailing(i)) \in Nat /\ Allowance(i) \in {0, 1}
    BY <1>0, OutIsFinite, RowsAreTyped DEF DigestInv, Allowance
  <2>1. Allowance(i)' \in {0, 1}
    BY DEF Allowance
  <2>2. CASE j \in Mailing(i)
    <3>1. Cardinality(Mailing(i)') = Cardinality(Mailing(i) \ {j})
      BY <1>2, Zenon
    <3>2. Cardinality(Mailing(i)') = Cardinality(Mailing(i)) - 1
      BY <2>2, <3>1, OneMoreOut
    <3>3. CASE N!Handed(i)' = N!Handed(i) + 1
      <4>1. i \in job[j].picked /\ next.at = "mark" /\ next.picked = job[j].picked
        BY <2>2, <3>3 DEF Mailing
      <4>2. AtWork(i)'
        BY <1>1, <4>1 DEF AtWork
      <4>3. Allowance(i)' = 1
        BY <4>2 DEF Allowance
      <4>4. Allowance(i) <= Allowance(i)' /\ cuts' \in {cuts, cuts + 1}
        BY <2>0, <4>3
      <4> QED
        BY <1>0, <2>0, <3>2, <3>3, <4>3, <4>4
    <3>4. CASE N!Handed(i)' = N!Handed(i)
      <4>1. cuts' \in {cuts, cuts + 1}
        OBVIOUS
      <4> QED
        BY <1>0, <2>0, <2>1, <3>2, <3>4, <4>1
    <3> QED
      BY <3>3, <3>4
  <2>3. CASE j \notin Mailing(i)
    <3>1. Cardinality(Mailing(i)') = Cardinality(Mailing(i))
      <4>1. Mailing(i) \ {j} = Mailing(i)
        BY <2>3
      <4> QED
        BY <1>2, <4>1, Zenon
    <3>2. N!Handed(i)' = N!Handed(i)
      BY <2>3
    <3>3. CASE notices'[i].sent = TRUE /\ cuts' = cuts
      <4>1. Allowance(i)' = 1
        BY <3>3 DEF Allowance
      <4> QED
        BY <1>0, <2>0, <3>1, <3>2, <3>3, <4>1
    <3>4. CASE i \notin job[j].picked /\ cuts' \in {cuts, cuts + 1}
      <4>1. notices'[i].sent <=> notices[i].sent
        BY <3>4
      <4>2. AtWork(i) => AtWork(i)'
        BY <1>1, <3>4 DEF AtWork
      <4>3. Allowance(i) <= Allowance(i)'
        BY <4>1, <4>2 DEF Allowance
      <4> QED
        BY <1>0, <2>0, <2>1, <3>1, <3>2, <3>4, <4>3
    <3>5. CASE cuts' = cuts + 1
      BY <1>0, <2>0, <2>1, <3>1, <3>2, <3>5
    <3> QED
      BY <2>3, <3>3, <3>4, <3>5
  <2> QED
    BY <2>2, <2>3
<1>4. ASSUME NEW k \in Jobs, job'[k].at = "mark", NEW i \in job'[k].picked
      PROVE  N!Handed(i)' >= 1
  <2>1. i \in N!Ids
    BY <1>4 DEF NoticesTyped
  <2>2. N!Handed(i) \in Nat
    BY <1>0, <2>1, RowsAreTyped
  <2>3. CASE k = j
    BY <1>1, <1>4, <2>2, <2>3
  <2>4. CASE k # j
    <3>1. N!Handed(i) >= 1
      BY <1>1, <1>4, <2>4 DEF DigestInv
    <3> QED
      BY <2>1, <2>2, <3>1
  <2> QED
    BY <2>3, <2>4
<1>5. \A i \in N!Ids' : /\ N!Handed(i)' + Cardinality(Mailing(i)') <= cuts' + Allowance(i)'
                        /\ notices'[i].sent => N!Handed(i)' >= 1
  BY <1>3
<1>6. \A k \in Jobs : job'[k].at = "mark" => \A i \in job'[k].picked : N!Handed(i)' >= 1
  BY <1>4
<1> QED
  BY <1>5, <1>6 DEF DigestInv

LEMMA DigestMails == DigestInv /\ NoticesTyped' /\ N!MailDigest => DigestInv'
<1> SUFFICES ASSUME DigestInv, NoticesTyped', N!MailDigest PROVE DigestInv'
  OBVIOUS
<1>0. /\ job \in [Jobs -> Run] /\ cuts \in Nat /\ cuts' = cuts /\ NoticesTyped
      /\ \A k \in Jobs : job[k].picked \subseteq N!Ids
      /\ notices \in [N!Ids -> Notice] /\ Len(notices) \in Nat
  BY DEF DigestInv, NoticesTyped, N!MailDigest, N!Ids
<1>1. \A i \in N!Ids : N!Handed(i) \in Nat /\ (notices[i].sent => N!Handed(i) >= 1)
  BY <1>0, RowsAreTyped DEF DigestInv
<1>2. PICK j \in Jobs :
        /\ job[j].at = "mail"
        /\ \/ /\ \E taken \in BOOLEAN : notices' = [i \in N!Ids |->
                    IF i \notin job[j].picked THEN notices[i]
                    ELSE IF taken THEN [notices[i] EXCEPT !.mailed = @ + 1]
                    ELSE [notices[i] EXCEPT !.dropped = @ + 1]]
              /\ job' = [job EXCEPT ![j].at = "mark"]
           \/ job' = [job EXCEPT ![j] = N!Resting] /\ UNCHANGED notices
  BY DEF N!MailDigest
<1>3. CASE job' = [job EXCEPT ![j] = N!Resting] /\ UNCHANGED notices
  <2>1. N!Resting \in Run /\ N!Resting.at = "idle"
    BY DEF N!Resting, Run
  <2>2. PICK next \in Run : next = N!Resting
    BY <2>1
  <2>3. /\ job' = [job EXCEPT ![j] = next] /\ next.at = "idle" /\ N!Ids' = N!Ids
        /\ \A i \in N!Ids : notices'[i] = notices[i] /\ N!Handed(i)' = N!Handed(i)
    BY <1>3, <2>1, <2>2 DEF N!Ids, N!Handed
  <2>4. \A i \in N!Ids : i \notin job[j].picked \/ j \in Mailing(i)
    BY <1>2 DEF Mailing
  <2>5. \A i \in N!Ids : N!Handed(i)' = N!Handed(i) + 1 => FALSE
    BY <1>1, <2>3
  <2> QED
    BY <1>0, <1>1, <2>3, <2>4, <2>5, DigestTurns
<1>4. ASSUME NEW taken \in BOOLEAN,
             notices' = [i \in N!Ids |->
                IF i \notin job[j].picked THEN notices[i]
                ELSE IF taken THEN [notices[i] EXCEPT !.mailed = @ + 1]
                ELSE [notices[i] EXCEPT !.dropped = @ + 1]],
             job' = [job EXCEPT ![j].at = "mark"]
      PROVE  DigestInv'
  <2>1. PICK next \in Run : next = [job[j] EXCEPT !.at = "mark"]
    BY <1>0 DEF Run
  <2>2. job' = [job EXCEPT ![j] = next] /\ next.at = "mark" /\ next.picked = job[j].picked
    BY <1>0, <1>4, <2>1 DEF Run
  <2>3. N!Ids' = N!Ids
    <3>1. DOMAIN notices' = N!Ids /\ notices' \in Seq(Notice)
      BY <1>4 DEF NoticesTyped
    <3>2. 1 .. Len(notices') = N!Ids
      BY <3>1
    <3> QED
      BY <3>2 DEF N!Ids
  <2>4. \A i \in N!Ids :
          IF i \in job[j].picked
          THEN notices'[i].sent = notices[i].sent /\ N!Handed(i)' = N!Handed(i) + 1
          ELSE notices'[i] = notices[i] /\ N!Handed(i)' = N!Handed(i)
    <3>1. ASSUME NEW i \in N!Ids, i \in job[j].picked
          PROVE  notices'[i].sent = notices[i].sent /\ N!Handed(i)' = N!Handed(i) + 1
      <4>1. notices[i] \in Notice /\ notices'[i] = IF taken THEN [notices[i] EXCEPT !.mailed = @ + 1]
                                                  ELSE [notices[i] EXCEPT !.dropped = @ + 1]
        BY <1>0, <1>4, <3>1
      <4>2. CASE taken
        <5>1. notices'[i] = [notices[i] EXCEPT !.mailed = @ + 1]
          BY <4>1, <4>2
        <5> QED
          BY <4>1, <5>1 DEF Notice, N!Handed
      <4>3. CASE ~taken
        <5>1. notices'[i] = [notices[i] EXCEPT !.dropped = @ + 1]
          BY <4>1, <4>3
        <5> QED
          BY <4>1, <5>1 DEF Notice, N!Handed
      <4> QED
        BY <4>2, <4>3
    <3>2. ASSUME NEW i \in N!Ids, i \notin job[j].picked
          PROVE  notices'[i] = notices[i] /\ N!Handed(i)' = N!Handed(i)
      BY <1>4, <3>2 DEF N!Handed
    <3> QED
      BY <3>1, <3>2
  <2>5. \A i \in N!Ids : i \in job[j].picked <=> j \in Mailing(i)
    BY <1>2 DEF Mailing
  <2>6. \A i \in N!Ids : /\ (notices'[i].sent <=> notices[i].sent)
                         /\ N!Handed(i)' \in {N!Handed(i), N!Handed(i) + 1}
    BY <2>4
  <2>7. \A i \in N!Ids : notices'[i].sent => N!Handed(i)' >= 1
    BY <1>1, <2>6
  <2>8. \A i \in N!Ids : N!Handed(i)' = N!Handed(i) + 1 => j \in Mailing(i)
    BY <1>1, <2>4, <2>5
  <2>9. \A i \in job[j].picked : N!Handed(i)' = N!Handed(i) + 1
    BY <1>0, <2>4
  <2> QED
    BY <1>0, <1>2, <2>2, <2>3, <2>5, <2>6, <2>7, <2>8, <2>9, DigestTurns
<1> QED
  BY <1>2, <1>3, <1>4

LEMMA DigestMarks ==
    DigestInv /\ NoticesTyped' /\ (N!MarkDigest \/ N!CutDigest) => DigestInv'
<1> SUFFICES ASSUME DigestInv, NoticesTyped', N!MarkDigest \/ N!CutDigest PROVE DigestInv'
  OBVIOUS
<1>0. /\ job \in [Jobs -> Run] /\ cuts \in Nat /\ NoticesTyped
      /\ notices \in [N!Ids -> Notice] /\ Len(notices) \in Nat
  BY DEF DigestInv, NoticesTyped, N!Ids
<1>1. \A i \in N!Ids : N!Handed(i) \in Nat /\ (notices[i].sent => N!Handed(i) >= 1)
  BY <1>0, RowsAreTyped DEF DigestInv
<1>2. N!Resting \in Run /\ N!Resting.at = "idle"
  BY DEF N!Resting, Run
<1>3. PICK next \in Run : next = N!Resting
  BY <1>2
<1>4. CASE N!MarkDigest
  <2>1. PICK j \in Jobs :
          /\ job[j].at = "mark" /\ cuts' = cuts
          /\ notices' = [i \in N!Ids |-> IF i \in job[j].picked
                                         THEN [notices[i] EXCEPT !.sent = TRUE] ELSE notices[i]]
          /\ job' = [job EXCEPT ![j] = next]
    BY <1>3, <1>4 DEF N!MarkDigest
  <2>2. N!Ids' = N!Ids
    <3>1. DOMAIN notices' = N!Ids /\ notices' \in Seq(Notice)
      BY <2>1 DEF NoticesTyped
    <3>2. 1 .. Len(notices') = N!Ids
      BY <3>1
    <3> QED
      BY <3>2 DEF N!Ids
  <2>3. \A i \in N!Ids :
          IF i \in job[j].picked
          THEN notices'[i].sent = TRUE /\ N!Handed(i)' = N!Handed(i)
          ELSE notices'[i] = notices[i] /\ N!Handed(i)' = N!Handed(i)
    BY <1>0, <2>1 DEF Notice, N!Handed
  <2>4. \A i \in job[j].picked : N!Handed(i) >= 1
    BY <2>1 DEF DigestInv
  <2>5. \A i \in N!Ids : /\ notices'[i].sent => notices[i].sent \/ i \in job[j].picked
                         /\ notices[i].sent => notices'[i].sent
                         /\ N!Handed(i)' = N!Handed(i)
    BY <2>3
  <2>6. \A i \in N!Ids : notices'[i].sent => N!Handed(i)' >= 1
    BY <1>1, <2>4, <2>5
  <2>7. \A i \in N!Ids : i \notin job[j].picked \/ notices'[i].sent = TRUE
    BY <2>3
  <2>8. \A i \in N!Ids : N!Handed(i)' = N!Handed(i) + 1 => FALSE
    BY <1>1, <2>5
  <2> QED
    BY <1>0, <1>2, <1>3, <2>1, <2>2, <2>5, <2>6, <2>7, <2>8, DigestTurns
<1>5. CASE N!CutDigest
  <2>1. PICK j \in Jobs : job[j].at = "mark" /\ job' = [job EXCEPT ![j] = next]
    BY <1>3, <1>5 DEF N!CutDigest
  <2>2. cuts' = cuts + 1 /\ UNCHANGED notices
    BY <1>5 DEF N!CutDigest
  <2>3. /\ N!Ids' = N!Ids /\ cuts' \in Nat
        /\ \A i \in N!Ids : notices'[i] = notices[i] /\ N!Handed(i)' = N!Handed(i)
    BY <1>0, <2>2 DEF N!Ids, N!Handed
  <2>4. \A i \in N!Ids : N!Handed(i)' = N!Handed(i) + 1 => FALSE
    BY <1>1, <2>3
  <2>5. next.at = "idle"
    BY <1>2, <1>3
  <2> QED
    BY <1>1, <2>1, <2>2, <2>3, <2>4, <2>5, DigestTurns
<1> QED
  BY <1>4, <1>5

LEMMA DigestStep == DigestInv /\ [N!Next]_noticeVars => DigestInv'
<1> SUFFICES ASSUME DigestInv, [N!Next]_noticeVars PROVE DigestInv'
  OBVIOUS
<1>0. NoticesTyped /\ NoticesTyped'
  BY NoticesTypedStep DEF DigestInv
<1>1. CASE UNCHANGED <<notices, job, cuts>>
  <2>1. N!Ids' = N!Ids /\ \A i \in N!Ids : notices'[i] = notices[i] /\ N!Handed(i)' = N!Handed(i)
    BY <1>1 DEF N!Ids, N!Handed
  <2> QED
    BY <1>0, <1>1, <2>1, DigestIsKept
<1>2. CASE N!CreateNotice
  <2>1. /\ UNCHANGED <<job, cuts>>
        /\ \E a \in N!Alerts : notices' = Append(notices, [alert |-> a, born |-> day,
                                 read |-> FALSE, sent |-> FALSE,
                                 mailed |-> 0, dropped |-> 0])
    BY <1>0, <1>2 DEF N!CreateNotice, NoticesTyped, Sync
  <2>2. PICK a \in N!Alerts : notices' = Append(notices, [alert |-> a, born |-> day,
                                 read |-> FALSE, sent |-> FALSE,
                                 mailed |-> 0, dropped |-> 0])
    BY <2>1
  <2>3. Adds(a) /\ Len(notices) \in Nat
    BY <1>0, <2>2, RowsAreAdded DEF NoticesTyped
  <2>4. N!Ids \subseteq N!Ids' /\ \A i \in N!Ids' : i \in N!Ids \/ i = Len(notices')
    BY <2>3 DEF Adds, N!Ids
  <2>5. Len(notices') \notin N!Ids /\ \A i \in N!Ids : notices'[i] = notices[i]
    BY <2>3 DEF Adds, N!Ids
  <2>6. \A i \in N!Ids' : i \notin N!Ids => N!Handed(i)' = 0 /\ notices'[i].sent = FALSE
    BY <2>3, <2>4 DEF Adds, N!Handed
  <2>7. \A i \in N!Ids : N!Handed(i)' = N!Handed(i) /\ notices'[i].sent = notices[i].sent
    BY <2>5 DEF N!Handed
  <2> QED
    BY <1>0, <2>1, <2>4, <2>5, <2>6, <2>7, DigestIsKept
<1>3. CASE N!MarkRead \/ N!ReadAll
  <2>1. UNCHANGED <<job, cuts>>
    BY <1>3 DEF N!MarkRead, N!ReadAll
  <2>2. /\ notices \in [N!Ids -> Notice] /\ notices' \in Seq(Notice) /\ Len(notices) \in Nat
        /\ Marks
    BY <1>0, <1>3, RowsAreMarked DEF NoticesTyped, N!Ids
  <2>3. N!Ids' = N!Ids
    BY <2>2 DEF Marks, N!Ids
  <2>4. \A i \in N!Ids : N!Handed(i)' = N!Handed(i) /\ notices'[i].sent = notices[i].sent
    <3>1. CASE N!MarkRead
      <4>1. PICK i \in N!Ids : notices' = [notices EXCEPT ![i].read = TRUE]
        BY <1>0, <3>1 DEF N!MarkRead, NoticesTyped
      <4> QED
        BY <2>2, <4>1 DEF Notice, N!Handed
    <3>2. CASE N!ReadAll
      <4>1. notices' = [i \in N!Ids |-> [notices[i] EXCEPT !.read = TRUE]]
        BY <3>2 DEF N!ReadAll
      <4> QED
        BY <2>2, <4>1 DEF Notice, N!Handed
    <3> QED
      BY <1>3, <3>1, <3>2
  <2> QED
    BY <1>0, <2>1, <2>3, <2>4, DigestIsKept
<1> QED
  BY <1>0, <1>1, <1>2, <1>3, DigestPicks, DigestMails, DigestMarks
     DEF N!Next, noticeVars, N!Visit, N!Leave, N!FindNotice, N!SyncFails, N!SyncEnds,
         N!CooldownEnds, N!ListNotices, N!ChangeAccount, N!LaterDay

LEMMA DigestBegin == N!Init => DigestInv
<1> SUFFICES ASSUME N!Init PROVE DigestInv
  OBVIOUS
<1>1. N!Ids = {}
  BY DEF N!Init, N!Ids
<1>2. \A j \in Jobs : job[j].at = "idle"
  BY DEF N!Init, N!Resting
<1> QED
  BY <1>1, <1>2, NoticesStart DEF DigestInv

LEMMA DigestTells == DigestInv => N!DigestOnce
<1> SUFFICES ASSUME DigestInv, NEW i \in N!Ids
             PROVE  /\ N!Handed(i) <= 1 + cuts
                    /\ notices[i].sent => N!Handed(i) >= 1
  BY DEF N!DigestOnce
<1>1. /\ N!Handed(i) + Cardinality(Mailing(i)) <= cuts + Allowance(i)
      /\ N!Handed(i) \in Nat /\ Cardinality(Mailing(i)) \in Nat
      /\ Allowance(i) \in {0, 1} /\ cuts \in Nat
  BY OutIsFinite, RowsAreTyped DEF DigestInv, Allowance, NoticesTyped
<1> QED
  BY <1>1 DEF DigestInv

\* Whatever runs of the job overlap or are cut, a notice is handed to the mail service once, and
\* once more for each such run at most, whatever the service answers; what is marked was
\* handed over (notification-service.ts, mail-service.ts).
THEOREM DigestsAreMailedOnce == PagesSpec => []DigestMailedOnce
<1> DEFINE Inv == open = "notices" => DigestInv
<1>1. OpenInit => Inv
  BY DigestBegin DEF OpenInit
<1>2. Inv /\ [OpenNext]_allVars => Inv'
  BY PageMoves, DigestStep
<1>3. Inv => DigestMailedOnce
  BY DigestTells DEF DigestMailedOnce
<1> QED
  BY <1>1, <1>2, <1>3, PTL DEF PagesSpec

-----------------------------------------------------------------------------
(* The notice that leads the page.                                           *)

\* The score of a notice is that of its severity and of its alert, with what is unread.
LEMMA ScoresAreNumbers ==
    \A i : /\ N!Score(i) \in 0 .. 195
           /\ N!Bucket(i) = "URGENT" => N!Score(i) >= 165
           /\ N!Bucket(i) # "URGENT" => N!Score(i) <= 145
<1> SUFFICES ASSUME NEW i
             PROVE  /\ N!Score(i) \in 0 .. 195
                    /\ N!Bucket(i) = "URGENT" => N!Score(i) >= 165
                    /\ N!Bucket(i) # "URGENT" => N!Score(i) <= 145
  OBVIOUS
<1>1. PICK unread : unread = IF screen[i] THEN 0 ELSE 30
  OBVIOUS
<1>2. unread \in {0, 30}
  BY <1>1
<1>3. N!Score(i) = (CASE N!Bucket(i) = "URGENT" -> 120 [] N!Bucket(i) = "IMPORTANT" -> 80
                      [] OTHER -> 40) + unread + 20
                   + (CASE notices[i].alert = "OVERDUE" -> 25 [] notices[i].alert = "DUE_SOON" -> 15
                        [] OTHER -> 0)
  BY <1>1 DEF N!Score
<1>4. CASE notices[i].alert = "OVERDUE"
  <2>1. N!Bucket(i) = "URGENT"
    BY <1>4 DEF N!Bucket, N!Severity
  <2>2. N!Score(i) = 120 + unread + 20 + 25
    BY <1>3, <1>4, <2>1
  <2> QED
    BY <1>2, <2>1, <2>2
<1>5. CASE notices[i].alert # "OVERDUE"
  <2>1. N!Bucket(i) # "URGENT"
    <3>1. N!Severity(notices[i].alert) \in {"WARNING", "INFO"}
      BY <1>5 DEF N!Severity
    <3> QED
      BY <3>1 DEF N!Bucket
  <2>2. PICK b : b = CASE N!Bucket(i) = "URGENT" -> 120 [] N!Bucket(i) = "IMPORTANT" -> 80
                       [] OTHER -> 40
    OBVIOUS
  <2>3. PICK e : e = CASE notices[i].alert = "OVERDUE" -> 25 [] notices[i].alert = "DUE_SOON" -> 15
                       [] OTHER -> 0
    OBVIOUS
  <2>4. b \in {40, 80} /\ e \in {0, 15}
    BY <1>5, <2>1, <2>2, <2>3
  <2>5. N!Score(i) = b + unread + 20 + e
    BY <1>3, <2>2, <2>3
  <2> QED
    BY <1>2, <2>1, <2>4, <2>5
<1> QED
  BY <1>4, <1>5

LEMMA OneLeads ==
    ASSUME NoticesTyped, DOMAIN screen # {}
    PROVE  \E i \in DOMAIN screen : \A k \in DOMAIN screen : N!Leads(i, k)
<1> DEFINE Shown == DOMAIN screen
           Gaps == {195 - N!Score(i) : i \in Shown}
<1>1. Shown \subseteq 1 .. Len(notices) /\ Len(notices) \in Nat /\ Shown # {}
  BY DEF NoticesTyped, N!Ids
<1> HIDE DEF Shown
<1>2. Gaps \in SUBSET Nat /\ Gaps # {}
  <2>1. \A i \in Shown : 195 - N!Score(i) \in Nat
    <3> SUFFICES ASSUME NEW i \in Shown PROVE 195 - N!Score(i) \in Nat
      OBVIOUS
    <3>1. N!Score(i) \in 0 .. 195
      BY ScoresAreNumbers
    <3> QED
      BY <3>1
  <2> QED
    BY <1>1, <2>1
<1>3. PICK g \in Gaps : \A h \in Gaps : g <= h
  BY <1>2, SmallestNumber
<1> DEFINE Firsts == {i \in Shown : 195 - N!Score(i) = g}
           Backs == {Len(notices) - i : i \in Firsts}
<1>4. Backs \in SUBSET Nat /\ Backs # {}
  BY <1>1, <1>3
<1>5. PICK p \in Backs : \A q \in Backs : p <= q
  BY <1>4, SmallestNumber
<1>6. PICK i \in Firsts : p = Len(notices) - i
  OBVIOUS
<1>7. ASSUME NEW k \in Shown PROVE N!Leads(i, k)
  <2>1. g <= 195 - N!Score(k) /\ 195 - N!Score(i) = g
    BY <1>3, <1>6
  <2>2. N!Score(i) \in Int /\ N!Score(k) \in Int /\ i \in Int /\ k \in Int
    <3>1. N!Score(i) \in 0 .. 195 /\ N!Score(k) \in 0 .. 195
      BY ScoresAreNumbers
    <3>2. i \in 1 .. Len(notices) /\ k \in 1 .. Len(notices)
      BY <1>1, <1>6, <1>7
    <3>3. \A x \in 0 .. 195 : x \in Int
      OBVIOUS
    <3>4. \A x \in 1 .. Len(notices) : x \in Int
      BY <1>1
    <3> QED
      BY <3>1, <3>2, <3>3, <3>4, Zenon
  <2>3. N!Score(i) >= N!Score(k)
    BY <2>1, <2>2
  <2>4. CASE N!Score(i) = N!Score(k)
    <3>1. k \in Firsts
      BY <2>1, <2>4
    <3>2. p <= Len(notices) - k
      BY <1>5, <3>1
    <3>3. i >= k
      BY <1>1, <1>6, <2>2, <3>2
    <3> QED
      BY <2>4, <3>3 DEF N!Leads
  <2> QED
    BY <2>2, <2>3, <2>4 DEF N!Leads
<1> QED
  BY <1>6, <1>7 DEF Shown

LEMMA UrgentIsFirst == NoticesTyped => N!UrgentLeads
<1> SUFFICES ASSUME NoticesTyped, NEW k \in DOMAIN screen, N!Bucket(k) = "URGENT"
             PROVE  N!Bucket(N!Primary) = "URGENT"
  BY DEF N!UrgentLeads
<1>1. N!Leads(N!Primary, k)
  BY OneLeads DEF N!Primary
<1>2. PICK m : m = N!Primary
  OBVIOUS
<1>3. N!Score(m) >= N!Score(k)
  BY <1>1, <1>2, ScoresAreNumbers DEF N!Leads
<1> QED
  BY <1>2, <1>3, ScoresAreNumbers

\* However many notices the page shows and whatever was read of them, an urgent one leads
\* whenever there is one (notification-center.tsx).
THEOREM UrgentNoticesLead == PagesSpec => []UrgentNoticeLeads
<1> DEFINE Inv == open = "notices" => NoticesTyped
<1>1. OpenInit => Inv
  BY NoticesStart DEF OpenInit
<1>2. Inv /\ [OpenNext]_allVars => Inv'
  BY PageMoves, NoticesTypedStep
<1>3. Inv => UrgentNoticeLeads
  BY UrgentIsFirst DEF UrgentNoticeLeads
<1> QED
  BY <1>1, <1>2, <1>3, PTL DEF PagesSpec

-----------------------------------------------------------------------------
(* Forms.                                                                    *)

\* Each field holds one of the values on the borders of its rules.
FormTyped ==
    /\ kind \in FormKinds
    /\ DOMAIN capture = DOMAIN F!Values[kind]
    /\ capture = [field \in DOMAIN capture |-> capture[field]]
    /\ \A field \in DOMAIN capture : capture[field] \in F!Values[kind][field]

LEMMA FormStart == F!Init => FormTyped
<1> SUFFICES ASSUME F!Init PROVE FormTyped
  OBVIOUS
<1>0. kind \in FormKinds /\ capture \in F!Opened[kind]
  BY DEF F!Init
<1>1. CASE kind = "debt"
  BY <1>0, <1>1 DEF FormTyped, F!Opened, F!Values, F!Lengths, F!Passwords, F!Emptied, F!Sums,
     F!Money, F!Blank
<1>2. CASE kind = "payment"
  BY <1>0, <1>2 DEF FormTyped, F!Opened, F!Values, F!Lengths, F!Passwords, F!Emptied, F!Sums,
     F!Money, F!Blank
<1>3. CASE kind = "register"
  BY <1>0, <1>3 DEF FormTyped, F!Opened, F!Values, F!Lengths, F!Passwords, F!Emptied, F!Sums,
     F!Money, F!Blank
<1>4. CASE kind = "login"
  BY <1>0, <1>4 DEF FormTyped, F!Opened, F!Values, F!Lengths, F!Passwords, F!Emptied, F!Sums,
     F!Money, F!Blank
<1>5. CASE kind = "reset"
  BY <1>0, <1>5 DEF FormTyped, F!Opened, F!Values, F!Lengths, F!Passwords, F!Emptied, F!Sums,
     F!Money, F!Blank
<1>6. CASE kind = "password"
  BY <1>0, <1>6 DEF FormTyped, F!Opened, F!Values, F!Lengths, F!Passwords, F!Emptied, F!Sums,
     F!Money, F!Blank
<1>7. CASE kind = "profile"
  BY <1>0, <1>7 DEF FormTyped, F!Opened, F!Values, F!Lengths, F!Passwords, F!Emptied, F!Sums,
     F!Money, F!Blank
<1>8. CASE kind = "preferences"
  BY <1>0, <1>8 DEF FormTyped, F!Opened, F!Values, F!Lengths, F!Passwords, F!Emptied, F!Sums,
     F!Money, F!Blank
<1>9. CASE kind = "onboarding"
  BY <1>0, <1>9 DEF FormTyped, F!Opened, F!Values, F!Lengths, F!Passwords, F!Emptied, F!Sums,
     F!Money, F!Blank
<1>10. CASE kind = "simulator"
  BY <1>0, <1>10 DEF FormTyped, F!Opened, F!Values, F!Lengths, F!Passwords, F!Emptied, F!Sums,
     F!Money, F!Blank
<1>11. kind \in {"debt", "payment", "register", "login", "reset", "password", "profile",
             "preferences", "onboarding", "simulator"}
  BY <1>0, FormsAssumption DEF F!Values
<1> QED
  BY <1>1, <1>2, <1>3, <1>4, <1>5, <1>6, <1>7, <1>8, <1>9, <1>10, <1>11

LEMMA FormStep == FormTyped /\ [F!Next]_formVars => FormTyped'
<1> SUFFICES ASSUME FormTyped, [F!Next]_formVars PROVE FormTyped'
  OBVIOUS
<1>1. CASE UNCHANGED <<kind, capture>>
  BY <1>1 DEF FormTyped
<1>2. CASE F!Edit
  <2>1. PICK field \in DOMAIN capture : \E v \in F!Values[kind][field] :
          capture' = F!Settled([capture EXCEPT ![field] = v])
    BY <1>2 DEF F!Edit
  <2>2. PICK v \in F!Values[kind][field] : capture' = F!Settled([capture EXCEPT ![field] = v])
    BY <2>1
  <2>3. PICK c : c = [capture EXCEPT ![field] = v]
    OBVIOUS
  <2>4. /\ DOMAIN c = DOMAIN F!Values[kind] /\ c = [f \in DOMAIN c |-> c[f]]
        /\ \A f \in DOMAIN c : c[f] \in F!Values[kind][f]
    BY <2>3 DEF FormTyped
  <2>5. kind' = kind
    BY <1>2 DEF F!Edit
  <2>6. CASE F!Settled(c) = c
    BY <2>2, <2>3, <2>4, <2>5, <2>6 DEF FormTyped
  <2>7. CASE kind = "debt" /\ F!Settled(c) = [c EXCEPT !.limit = F!Blank, !.statement = F!Blank]
    <3>1. F!Blank \in F!Values["debt"]["limit"] /\ F!Blank \in F!Values["debt"]["statement"]
      BY DEF F!Values
    <3>2. capture' = [c EXCEPT !["limit"] = F!Blank, !["statement"] = F!Blank]
      BY <2>2, <2>3, <2>7
    <3> QED
      BY <2>4, <2>5, <2>7, <3>1, <3>2 DEF FormTyped
  <2> QED
    BY <2>6, <2>7 DEF F!Settled
<1> QED
  BY <1>1, <1>2 DEF F!Next, F!Submit, formVars

\* A form that its screen lets through is one the server takes, and the other way round, but
\* for what only one of the two looks at.
Agreed == /\ F!Screen(capture) => F!Schema(capture) \/ F!OnlyTheServer(capture)
          /\ F!Schema(capture) => F!Screen(capture) \/ F!OnlyTheScreen(capture)

LEMMA DebtAgrees == FormTyped /\ kind = "debt" => Agreed
<1> SUFFICES ASSUME FormTyped, kind = "debt" PROVE Agreed
  OBVIOUS
<1>1. /\ capture.name \in {0, 1, 120, 121}
      /\ capture.creditor \in {0, 1, 120, 121}
      /\ capture.card \in {0, 1}
      /\ capture.balance \in F!Sums
      /\ capture.limit \in {-99, 0, 1, 2}
      /\ capture.rate \in {-1, 0, 999, 1000}
      /\ capture.minimum \in F!Sums
      /\ capture.statement \in {-99, 0, 1, 31, 32}
      /\ capture.due \in {-99, 0, 1, 31, 32}
      /\ capture.late \in {-1, 0, 1}
      /\ capture.extra \in {0, 1, FieldCap + 1}
      /\ capture.notes \in {-99, 4000, 4001}
      /\ capture.started \in {-99, 5}
      /\ capture.ends \in {-99, 4, 5}
  BY DEF FormTyped, F!Values, F!Lengths, F!Passwords, F!Blank, F!NoShape, F!NoUrl, F!NotNumber
<1>2. F!Screen(capture) = F!DebtScreen(capture) /\ F!Schema(capture) = F!debtSchema(capture)
  BY DEF F!Screen, F!Schema
<1>3. \A length \in {0, 1, 120, 121} : F!Written(length, 120) <=> F!normalizedText(length, 120)
  BY DEF F!Written, F!normalizedText
<1>4. \A v \in {capture.balance, capture.minimum, capture.late, capture.extra} :
        F!Amount(v) <=> F!moneySchema(v)
  BY <1>1, FormsAssumption DEF F!Amount, F!moneySchema, F!Sums, F!Money, F!NotNumber
<1>5. F!Optional(F!Amount(capture.limit) /\ capture.card = 1, capture.limit)
      <=> F!optionalMoney(capture.limit) /\ (capture.limit # F!Blank => capture.card = 1)
  BY <1>1, FormsAssumption DEF F!Optional, F!Amount, F!optionalMoney, F!moneySchema, F!Blank,
     F!NotNumber
<1>6. F!Optional(F!Day(capture.statement) /\ capture.card = 1, capture.statement)
      <=> F!optionalDay(capture.statement) /\ (capture.statement # F!Blank => capture.card = 1)
  BY <1>1 DEF F!Optional, F!Day, F!optionalDay, F!Blank
<1>7. F!Optional(F!Day(capture.due), capture.due) <=> F!optionalDay(capture.due)
  BY <1>1 DEF F!Optional, F!Day, F!optionalDay, F!Blank
<1>8. capture.notes <= 4000 <=> F!optionalLongText(capture.notes)
  <2>1. PICK n \in {-99, 4000, 4001} : n = capture.notes
    BY <1>1
  <2>2. n <= 4000 <=> n = -99 \/ n \in 1 .. 4000
    <3>1. CASE n = -99
      BY <3>1
    <3>2. CASE n = 4000
      BY <3>2
    <3>3. CASE n = 4001
      BY <3>3
    <3> QED
      BY <2>1, <3>1, <3>2, <3>3
  <2> QED
    BY <2>1, <2>2 DEF F!optionalLongText, F!Blank
<1>9. capture.rate >= 0 /\ capture.rate <= 999 <=> F!percentageSchema(capture.rate)
  BY <1>1 DEF F!percentageSchema
<1>10. F!WithinLimit(capture)
       <=> ~(/\ capture.limit # F!Blank /\ capture.limit > 0
             /\ 2 * capture.balance > 3 * capture.limit)
  <2>1. capture.balance \in Int /\ capture.limit \in Int
    BY <1>1, FormsAssumption DEF F!Sums, F!Money
  <2>2. PICK b \in Int, l \in Int : b = capture.balance /\ l = capture.limit
    BY <2>1
  <2>3. 2 * b <= 3 * l <=> ~(2 * b > 3 * l)
    BY <2>2
  <2> QED
    BY <2>2, <2>3 DEF F!WithinLimit
<1>11. F!DebtScreen(capture) <=> F!debtSchema(capture)
  BY <1>1, <1>3, <1>4, <1>5, <1>6, <1>7, <1>8, <1>9, <1>10 DEF F!DebtScreen, F!debtSchema
<1> QED
  BY <1>2, <1>11 DEF Agreed

LEMMA PaymentAgrees == FormTyped /\ kind = "payment" => Agreed
<1> SUFFICES ASSUME FormTyped, kind = "payment" PROVE Agreed
  OBVIOUS
<1>1. /\ capture.debt \in {0, 1}
      /\ capture.amount \in F!Sums
      /\ capture.principal \in {-99, -1, 0, 2}
      /\ capture.interest \in {-99, -1, 0, 1}
      /\ capture.late \in {-99, 1, FieldCap + 1}
      /\ capture.extra \in {-99, 0, 1}
      /\ capture.paidAt \in {-99, 5}
      /\ capture.notes \in {-99, 4000, 4001}
  BY DEF FormTyped, F!Values, F!Lengths, F!Passwords, F!Blank, F!NoShape, F!NoUrl, F!NotNumber
<1>2. F!Screen(capture) = F!PaymentScreen(capture) /\ F!Schema(capture) = F!paymentSchema(capture)
  BY DEF F!Screen, F!Schema
<1>3. F!Amount(capture.amount) <=> F!moneySchema(capture.amount)
  BY <1>1, FormsAssumption DEF F!Amount, F!moneySchema, F!Sums, F!Money, F!NotNumber
<1>4. \A part \in {capture.principal, capture.interest, capture.late, capture.extra} :
        F!Optional(F!Amount(part), part) <=> F!optionalMoney(part)
  BY <1>1, FormsAssumption DEF F!Optional, F!Amount, F!optionalMoney, F!moneySchema, F!Blank,
     F!NotNumber
<1>5. capture.notes <= 4000 <=> F!optionalLongText(capture.notes)
  <2>1. PICK n \in {-99, 4000, 4001} : n = capture.notes
    BY <1>1
  <2>2. n <= 4000 <=> n = -99 \/ n \in 1 .. 4000
    <3>1. CASE n = -99
      BY <3>1
    <3>2. CASE n = 4000
      BY <3>2
    <3>3. CASE n = 4001
      BY <3>3
    <3> QED
      BY <2>1, <3>1, <3>2, <3>3
  <2> QED
    BY <2>1, <2>2 DEF F!optionalLongText, F!Blank
<1>6. capture.debt >= 1 <=> F!normalizedText(capture.debt, 255)
  BY <1>1 DEF F!normalizedText
<1>7. F!PaymentScreen(capture) <=> F!paymentSchema(capture)
  BY <1>3, <1>4, <1>5, <1>6 DEF F!PaymentScreen, F!paymentSchema
<1> QED
  BY <1>2, <1>7 DEF Agreed

LEMMA RegisterAgrees == FormTyped /\ kind = "register" => Agreed
<1> SUFFICES ASSUME FormTyped, kind = "register" PROVE Agreed
  OBVIOUS
<1>1. /\ capture.first \in {1, 2, 60, 61}
      /\ capture.last \in {1, 2, 60, 61}
      /\ capture.email \in {0, 1, 2}
      /\ capture.password \in {-8, 7, 8, 72, 73}
      /\ capture.confirm \in {-8, 7, 8, 72, 73}
      /\ capture.legal \in {0, 1}
  BY DEF FormTyped, F!Values, F!Lengths, F!Passwords, F!Blank, F!NoShape, F!NoUrl, F!NotNumber
<1>2. F!Screen(capture) = F!RegisterScreen(capture) /\ F!Schema(capture) = F!registerSchema(capture)
  BY DEF F!Screen, F!Schema
<1>3. /\ F!RegisterScreen(capture) => F!registerSchema(capture) \/ F!OnlyTheServer(capture)
      /\ F!registerSchema(capture) => F!RegisterScreen(capture) \/ F!OnlyTheScreen(capture)
  BY <1>1, FormsAssumption DEF F!RegisterScreen, F!registerSchema, F!OnlyTheServer,
     F!OnlyTheScreen, F!EmailTyped, F!PasswordTyped, F!emailSchema, F!passwordSchema,
     F!NoShape, F!Emptied, F!Sums, F!Money, F!Blank, F!NotNumber
<1> QED
  BY <1>2, <1>3 DEF Agreed

LEMMA LoginAgrees == FormTyped /\ kind = "login" => Agreed
<1> SUFFICES ASSUME FormTyped, kind = "login" PROVE Agreed
  OBVIOUS
<1>1. /\ capture.email \in {0, 1, 2}
      /\ capture.password \in {0, 1}
      /\ capture.totp \in {0, 5, 6}
      /\ capture.recovery \in {0, 7, 8, 20, 21}
  BY DEF FormTyped, F!Values, F!Lengths, F!Passwords, F!Blank, F!NoShape, F!NoUrl, F!NotNumber
<1>2. F!Screen(capture) = F!LoginScreen(capture) /\ F!Schema(capture) = F!loginSchema(capture)
  BY DEF F!Screen, F!Schema
<1>3. /\ F!LoginScreen(capture) => F!loginSchema(capture) \/ F!OnlyTheServer(capture)
      /\ F!loginSchema(capture) => F!LoginScreen(capture) \/ F!OnlyTheScreen(capture)
  BY <1>1, FormsAssumption DEF F!LoginScreen, F!loginSchema, F!OnlyTheServer,
     F!OnlyTheScreen, F!EmailTyped, F!emailSchema, F!Emptied, F!Sums, F!Money, F!Blank,
     F!NotNumber
<1> QED
  BY <1>2, <1>3 DEF Agreed

LEMMA ResetAgrees == FormTyped /\ kind = "reset" => Agreed
<1> SUFFICES ASSUME FormTyped, kind = "reset" PROVE Agreed
  OBVIOUS
<1>1. /\ capture.token \in {19, 20}
      /\ capture.password \in {-8, 7, 8, 72, 73}
      /\ capture.confirm \in {-8, 7, 8, 72, 73}
  BY DEF FormTyped, F!Values, F!Lengths, F!Passwords, F!Blank, F!NoShape, F!NoUrl, F!NotNumber
<1>2. F!Screen(capture) = F!ResetScreen(capture) /\ F!Schema(capture) = F!resetPasswordSchema(capture)
  BY DEF F!Screen, F!Schema
<1>3. /\ F!ResetScreen(capture) => F!resetPasswordSchema(capture) \/ F!OnlyTheServer(capture)
      /\ F!resetPasswordSchema(capture) => F!ResetScreen(capture) \/ F!OnlyTheScreen(capture)
  BY <1>1, FormsAssumption DEF F!ResetScreen, F!resetPasswordSchema, F!OnlyTheServer,
     F!OnlyTheScreen, F!PasswordTyped, F!passwordSchema, F!NoShape, F!Emptied, F!Sums,
     F!Money, F!Blank, F!NotNumber
<1> QED
  BY <1>2, <1>3 DEF Agreed

LEMMA PasswordAgrees == FormTyped /\ kind = "password" => Agreed
<1> SUFFICES ASSUME FormTyped, kind = "password" PROVE Agreed
  OBVIOUS
<1>1. /\ capture.current \in {0, 1}
      /\ capture.password \in {-8, 7, 8, 72, 73}
      /\ capture.confirm \in {-8, 7, 8, 72, 73}
  BY DEF FormTyped, F!Values, F!Lengths, F!Passwords, F!Blank, F!NoShape, F!NoUrl, F!NotNumber
<1>2. F!Screen(capture) = F!PasswordScreen(capture) /\ F!Schema(capture) = F!changePasswordSchema(capture)
  BY DEF F!Screen, F!Schema
<1>3. /\ F!PasswordScreen(capture) => F!changePasswordSchema(capture) \/ F!OnlyTheServer(capture)
      /\ F!changePasswordSchema(capture) => F!PasswordScreen(capture) \/ F!OnlyTheScreen(capture)
  BY <1>1, FormsAssumption DEF F!PasswordScreen, F!changePasswordSchema, F!OnlyTheServer,
     F!OnlyTheScreen, F!PasswordTyped, F!passwordSchema, F!NoShape, F!Emptied, F!Sums,
     F!Money, F!Blank, F!NotNumber
<1> QED
  BY <1>2, <1>3 DEF Agreed

LEMMA ProfileAgrees == FormTyped /\ kind = "profile" => Agreed
<1> SUFFICES ASSUME FormTyped, kind = "profile" PROVE Agreed
  OBVIOUS
<1>1. /\ capture.first \in {0, 1, 80, 81}
      /\ capture.last \in {0, 1, 80, 81}
      /\ capture.avatar \in {-99, -1, 500, 501}
  BY DEF FormTyped, F!Values, F!Lengths, F!Passwords, F!Blank, F!NoShape, F!NoUrl, F!NotNumber
<1>2. F!Screen(capture) = F!ProfileScreen(capture) /\ F!Schema(capture) = F!profileSchema(capture)
  BY DEF F!Screen, F!Schema
<1>3. /\ F!ProfileScreen(capture) => F!profileSchema(capture) \/ F!OnlyTheServer(capture)
      /\ F!profileSchema(capture) => F!ProfileScreen(capture) \/ F!OnlyTheScreen(capture)
  BY <1>1, FormsAssumption DEF F!ProfileScreen, F!profileSchema, F!OnlyTheServer,
     F!OnlyTheScreen, F!Written, F!normalizedText, F!NoUrl, F!Emptied, F!Sums, F!Money,
     F!Blank, F!NotNumber
<1> QED
  BY <1>2, <1>3 DEF Agreed

LEMMA PreferencesAgrees == FormTyped /\ kind = "preferences" => Agreed
<1> SUFFICES ASSUME FormTyped, kind = "preferences" PROVE Agreed
  OBVIOUS
<1>1. /\ capture.rate \in {-98, -1, 0, 70, 100, 101}
      /\ capture.balance \in {-98, -1, 0, 30, 100, 101}
      /\ capture.budget \in F!Emptied
      /\ capture.days \in {0, 1, 3}
      /\ capture.hour \in {6, 22}
      /\ capture.upcoming \in {-98, 0, 1, 30, 31}
      /\ capture.timezone \in {0, 1, 80, 81}
  BY DEF FormTyped, F!Values, F!Lengths, F!Passwords, F!Blank, F!NoShape, F!NoUrl, F!NotNumber
<1>2. F!Screen(capture) = F!PreferencesScreen(capture) /\ F!Schema(capture) = F!preferencesSchema(capture)
  BY DEF F!Screen, F!Schema
<1>3. /\ F!PreferencesScreen(capture) => F!preferencesSchema(capture) \/ F!OnlyTheServer(capture)
      /\ F!preferencesSchema(capture) => F!PreferencesScreen(capture) \/ F!OnlyTheScreen(capture)
  BY <1>1, FormsAssumption DEF F!PreferencesScreen, F!preferencesSchema, F!OnlyTheServer,
     F!OnlyTheScreen, F!Percent, F!Amount, F!moneySchema, F!Written, F!normalizedText,
     F!Emptied, F!Sums, F!Money, F!Blank, F!NotNumber
<1> QED
  BY <1>2, <1>3 DEF Agreed

LEMMA OnboardingAgrees == FormTyped /\ kind = "onboarding" => Agreed
<1> SUFFICES ASSUME FormTyped, kind = "onboarding" PROVE Agreed
  OBVIOUS
<1>1. /\ capture.income \in F!Emptied
      /\ capture.budget \in F!Emptied
      /\ capture.name \in {0, 1, 80, 81}
      /\ capture.balance \in F!Emptied
      /\ capture.minimum \in F!Emptied
      /\ capture.rate \in {-99, -1, 0, 1000, 1001}
  BY DEF FormTyped, F!Values, F!Lengths, F!Passwords, F!Blank, F!NoShape, F!NoUrl, F!NotNumber
<1>2. F!Screen(capture) = F!OnboardingScreen(capture) /\ F!Schema(capture) = F!onboardingSchema(capture)
  BY DEF F!Screen, F!Schema
<1>3. /\ F!OnboardingScreen(capture) => F!onboardingSchema(capture) \/ F!OnlyTheServer(capture)
      /\ F!onboardingSchema(capture) => F!OnboardingScreen(capture) \/ F!OnlyTheScreen(capture)
  BY <1>1, FormsAssumption DEF F!OnboardingScreen, F!onboardingSchema, F!OnlyTheServer,
     F!OnlyTheScreen, F!PositiveAmount, F!Amount, F!Optional, F!moneyField, F!Emptied,
     F!Sums, F!Money, F!Blank, F!NotNumber
<1> QED
  BY <1>2, <1>3 DEF Agreed

LEMMA SimulatorAgrees == FormTyped /\ kind = "simulator" => Agreed
<1> SUFFICES ASSUME FormTyped, kind = "simulator" PROVE Agreed
  OBVIOUS
<1>1. /\ capture.fixed \in {0, 1}
      /\ capture.principal \in F!Sums
      /\ capture.rate \in {-1, 0, 999, 1000}
      /\ capture.payment \in F!Sums
      /\ capture.extra \in {-99, -1, 0, FieldCap + 1}
      /\ capture.start \in {-99, 5}
  BY DEF FormTyped, F!Values, F!Lengths, F!Passwords, F!Blank, F!NoShape, F!NoUrl, F!NotNumber
<1>2. F!Screen(capture) = F!SimulatorScreen(capture) /\ F!Schema(capture) = F!parseSimulator(capture)
  BY DEF F!Screen, F!Schema
<1>3. \A v \in {capture.principal, capture.payment} : F!PositiveAmount(v) <=> F!moneyField(v)
  BY <1>1, FormsAssumption DEF F!PositiveAmount, F!Amount, F!moneyField, F!Sums, F!Money, F!NotNumber
<1>4. F!Optional(F!Amount(capture.extra), capture.extra) <=> F!optionalMoney(capture.extra)
  BY <1>1, FormsAssumption DEF F!Optional, F!Amount, F!optionalMoney, F!moneySchema, F!Blank,
     F!NotNumber
<1>5. \/ F!OnlyTheScreen(capture)
      \/ (capture.rate >= 0 /\ capture.rate <= 999
          <=> (IF capture.fixed = 1 THEN 0 ELSE capture.rate) \in 0 .. 999)
  BY <1>1 DEF F!OnlyTheScreen
<1>6. capture.rate >= 0 /\ capture.rate <= 999
      => (IF capture.fixed = 1 THEN 0 ELSE capture.rate) \in 0 .. 999
  BY <1>1
<1>7. /\ F!SimulatorScreen(capture) => F!parseSimulator(capture)
      /\ F!parseSimulator(capture) => F!SimulatorScreen(capture) \/ F!OnlyTheScreen(capture)
  BY <1>3, <1>4, <1>5, <1>6 DEF F!SimulatorScreen, F!parseSimulator
<1> QED
  BY <1>2, <1>7 DEF Agreed

LEMMA FormsAgree == FormTyped => Agreed
<1> SUFFICES ASSUME FormTyped PROVE Agreed
  OBVIOUS
<1>1. kind \in {"debt", "payment", "register", "login", "reset", "password", "profile",
             "preferences", "onboarding", "simulator"}
  BY FormsAssumption DEF FormTyped, F!Values
<1> QED
  BY <1>1, DebtAgrees, PaymentAgrees, RegisterAgrees, LoginAgrees, ResetAgrees,
     PasswordAgrees, ProfileAgrees, PreferencesAgrees, OnboardingAgrees, SimulatorAgrees

FormInv == FormTyped /\ F!VerdictsAgree

LEMMA FormInvStep == FormInv /\ [F!Next]_formVars => FormInv'
<1> SUFFICES ASSUME FormInv, [F!Next]_formVars PROVE FormInv'
  OBVIOUS
<1>1. FormTyped /\ FormTyped'
  BY FormStep DEF FormInv
<1>2. CASE F!Submit
  <2>1. UNCHANGED <<kind, capture>>
    BY <1>2 DEF F!Submit
  <2>2. /\ F!Schema(capture)' <=> F!Schema(capture)
        /\ F!OnlyTheServer(capture)' <=> F!OnlyTheServer(capture)
        /\ F!OnlyTheScreen(capture)' <=> F!OnlyTheScreen(capture)
    BY <2>1 DEF F!OnlyTheServer, F!OnlyTheScreen, F!Schema
  <2>3. /\ verdict' = "stopped" => ~F!Screen(capture)
        /\ verdict' = "refused" => F!Screen(capture) /\ ~F!Schema(capture)
    <3>1. verdict' = CASE ~F!Screen(capture) -> "stopped"
                       [] F!Screen(capture) /\ ~F!Schema(capture) -> "refused"
                       [] OTHER -> "accepted"
      BY <1>2 DEF F!Submit
    <3> QED
      BY <3>1
  <2> QED
    BY <1>1, <2>2, <2>3, FormsAgree DEF FormInv, F!VerdictsAgree, Agreed
<1>3. CASE F!Edit
  BY <1>1, <1>3 DEF F!Edit, FormInv, F!VerdictsAgree
<1>4. CASE UNCHANGED formVars
  <2>1. /\ F!Schema(capture)' <=> F!Schema(capture)
        /\ F!OnlyTheServer(capture)' <=> F!OnlyTheServer(capture)
        /\ F!OnlyTheScreen(capture)' <=> F!OnlyTheScreen(capture)
        /\ verdict' = verdict
    BY <1>4 DEF F!OnlyTheServer, F!OnlyTheScreen, F!Schema, formVars
  <2> QED
    BY <1>1, <2>1 DEF FormInv, F!VerdictsAgree
<1> QED
  BY <1>2, <1>3, <1>4 DEF F!Next

\* The rules beside the fields and those of the schemas agree, but for the differences that
\* are listed, for every cap on an amount and after any number of changes: the values on both
\* sides of every border of every rule are tried (src/lib/validations).
THEOREM FormVerdictsAgree == PagesSpec => []VerdictsAgree
<1> DEFINE Inv == open = "forms" => FormInv
<1>1. OpenInit => Inv
  BY FormStart DEF OpenInit, F!Init, FormInv, F!VerdictsAgree
<1>2. Inv /\ [OpenNext]_allVars => Inv'
  BY PageMoves, FormInvStep
<1>3. Inv => VerdictsAgree
  BY DEF FormInv, VerdictsAgree
<1> QED
  BY <1>1, <1>2, <1>3, PTL DEF PagesSpec

-----------------------------------------------------------------------------
(* The planner.                                                              *)

PlanOutcomes == {"running", "feasible", "budget_below_minimum", "non_amortizing",
                 "max_months_reached"}
PlanRow == [owed : [PlannedDebts -> Nat], paid : Int, interest : Nat, months : Nat,
            payoff : [PlannedDebts -> Nat], outcome : PlanOutcomes]
PlansTyped ==
    /\ planned \in [PlannedDebts -> P!Debt] /\ budget \in Nat
    /\ current \in P!Strategies /\ focus \in PlannedDebts
    /\ plan \in [P!Plans -> PlanRow]

LEMMA PlanTotal ==
    ASSUME NEW g, NEW U, IsFiniteSet(U) PROVE P!Total(g, U) = Total(g, U)
<1>2. PICK f : IsSummation(g, U, f)
  BY SummationExists
<1> DEFINE Sums(h) == h = [V \in SUBSET U |->
                              IF V = {} THEN 0
                              ELSE g[CHOOSE x \in V : TRUE] + h[V \ {CHOOSE x \in V : TRUE}]]
<1>4. \A h : Sums(h) <=> IsSummation(g, U, h)
  BY DEF IsSummation, Pick
<1>5. Sums(f) /\ \A h : Sums(h) => h = f
  BY <1>2, <1>4, OneSummation
<1>6. P!Total(g, U) = f[U]
  BY <1>5 DEF P!Total, P!MapThenSumSet, P!MapThenFoldSet
<1>7. f[U] = Total(g, U)
  BY <1>2, SummationsTotal
<1> QED
  BY <1>6, <1>7

\* What the minimums come to is an amount.
LEMMA MinimumDueTyped ==
    ASSUME planned \in [PlannedDebts -> P!Debt], NEW owed \in [PlannedDebts -> Nat],
           NEW U \in SUBSET PlannedDebts
    PROVE  P!MinimumDue(owed, U) \in Nat
<1> DEFINE g == [d \in PlannedDebts |-> P!Lesser(owed[d], planned[d].minimum)]
<1>1. \A d \in U : g[d] \in Nat
  BY DEF P!Lesser, P!Debt
<1>2. IsFiniteSet(U)
  BY PlannerAssumption, FS_Subset
<1>3. P!MinimumDue(owed, U) = Total(g, U)
  BY <1>2, PlanTotal DEF P!MinimumDue
<1> HIDE DEF g
<1> QED
  BY <1>1, <1>2, <1>3, TotalIsNat

LEMMA RoundingUp ==
    ASSUME NEW a \in Nat, NEW b \in Nat \ {0}, NEW c \in Nat
    PROVE  ((a + b * 100 - 1) \div (b * 100)) * c \in Nat
<1>1. b * 100 \in Nat \ {0} /\ a + b * 100 - 1 \in Nat
  OBVIOUS
<1>2. (a + b * 100 - 1) \div (b * 100) \in Nat
  BY <1>1
<1> QED
  BY <1>2

\* The extra the dashboard suggests is an amount.
LEMMA SuggestedTyped == PlansTyped => P!SuggestedExtra \in Nat
<1> SUFFICES ASSUME PlansTyped PROVE P!SuggestedExtra \in Nat
  OBVIOUS
<1> DEFINE m == P!MinimumDue(P!Owed0, PlannedDebts)
           raw == P!Greater(BoostFloor * 100, m * 12)
           extra == ((raw + BoostStep * 100 - 1) \div (BoostStep * 100)) * BoostStep
<1>0. P!Owed0 \in [PlannedDebts -> Nat]
  BY DEF PlansTyped, P!Owed0, P!Debt
<1>1. m \in Nat
  BY <1>0, MinimumDueTyped DEF PlansTyped
<1>2. raw \in Nat
  BY <1>1, PlannerAssumption DEF P!Greater
<1>3. P!SuggestedExtra = IF m = 0 THEN 0 ELSE P!Lesser(extra, BoostCap)
  BY DEF P!SuggestedExtra
<1> HIDE DEF raw
<1>4. extra \in Nat /\ BoostCap \in Nat
  BY <1>2, PlannerAssumption, RoundingUp
<1> HIDE DEF m, extra
<1> QED
  BY <1>3, <1>4 DEF P!Lesser

\* The money of a month is an amount.
LEMMA MoneyTyped ==
    ASSUME PlansTyped, NEW p
    PROVE  P!Selected(P!BudgetOf(p)) \in Nat
<1>1. P!Owed0 \in [PlannedDebts -> Nat]
  BY DEF PlansTyped, P!Owed0, P!Debt
<1>2. P!MinimumDue(P!Owed0, PlannedDebts) \in Nat
  BY <1>1, MinimumDueTyped DEF PlansTyped
<1>3. \A b \in Nat : P!Selected(b) \in Nat
  BY <1>2 DEF P!Selected, P!Greater
<1>4. P!SuggestedExtra \in Nat
  BY SuggestedTyped
<1>5. P!BudgetOf(p) \in Nat
  BY <1>3, <1>4, PlannerAssumption DEF P!BudgetOf, PlansTyped
<1> QED
  BY <1>3, <1>5

\* A month's interest and charges, debt by debt.
LEMMA MonthsDue ==
    ASSUME PlansTyped, NEW p, NEW d \in PlannedDebts, NEW o \in Nat
    PROVE  P!ChargeOf(p, d) \in Nat /\ P!RateOf(p, d) \in Nat /\ P!Interest(p, d, o) \in Nat
<1>1. P!ChargeOf(p, d) \in Nat /\ P!RateOf(p, d) \in Nat
  BY PlannerAssumption DEF PlansTyped, P!ChargeOf, P!RateOf, P!Debt
<1>2. o * P!RateOf(p, d) \in Nat
  BY <1>1
<1>3. MonthDen \in Nat \ {0}
  BY PlannerAssumption
<1> QED
  BY <1>1, <1>2, <1>3 DEF P!Interest

LEMMA DueTyped ==
    ASSUME PlansTyped, NEW p, NEW r \in PlanRow
    PROVE  LET due == P!WithInterest(p, r) IN
           /\ due \in [PlannedDebts -> Nat]
           /\ \A d \in PlannedDebts : due[d] =
                IF r.owed[d] > 0
                THEN r.owed[d] + P!ChargeOf(p, d) + P!Interest(p, d, r.owed[d] + P!ChargeOf(p, d))
                ELSE 0
           /\ \A d \in PlannedDebts : r.owed[d] > 0 <=> due[d] > 0
<1> DEFINE due == P!WithInterest(p, r)
           charge(d) == P!ChargeOf(p, d)
           interest(d) == P!Interest(p, d, r.owed[d] + charge(d))
<1>1. \A d \in PlannedDebts : r.owed[d] \in Nat
  BY DEF PlanRow
<1>2. \A d \in PlannedDebts : charge(d) \in Nat
  BY MonthsDue
<1>3. \A d \in PlannedDebts : interest(d) \in Nat
  BY <1>1, <1>2, MonthsDue
<1>4. due = [d \in PlannedDebts |-> IF r.owed[d] > 0 THEN r.owed[d] + charge(d) + interest(d) ELSE 0]
  BY DEF P!WithInterest, P!Active
<1> HIDE DEF charge, interest, due
<1>5. /\ due \in [PlannedDebts -> Nat]
      /\ \A d \in PlannedDebts : r.owed[d] > 0 <=> due[d] > 0
  BY <1>1, <1>2, <1>3, <1>4
<1> QED
  BY <1>4, <1>5 DEF charge, interest, due

\* What is left of each debt: no less than nothing, no more than what a minimum leaves, and
\* just that when there is money for the minimums alone.
LEMMA AfterTyped ==
    ASSUME PlansTyped, NEW p, NEW r \in PlanRow, NEW due \in [PlannedDebts -> Nat], NEW money \in Int
    PROVE  LET after == P!AfterPayments(p, r, due, money)
               rest(d) == P!Greater(due[d] - planned[d].minimum, 0)
           IN  /\ after \in [PlannedDebts -> Nat]
               /\ \A d \in PlannedDebts : after[d] <= rest(d) /\ rest(d) \in Nat /\ rest(d) <= due[d]
               /\ money = P!MinimumDue(due, P!Active(r))
                    => \A d \in PlannedDebts : after[d] = rest(d)
<1> DEFINE after == P!AfterPayments(p, r, due, money)
           rest == [d \in PlannedDebts |-> P!Greater(due[d] - planned[d].minimum, 0)]
           needed == P!MinimumDue(due, P!Active(r))
           before(d) == {e \in P!Active(r) : P!Ahead(p, r.owed, P!Active(r), e, d)}
           taken(d) == P!Total(rest, before(d))
<1>1. /\ rest \in [PlannedDebts -> Nat]
      /\ \A d \in PlannedDebts : rest[d] <= due[d]
  BY DEF PlansTyped, P!Debt, P!Greater
<1>2. needed \in Nat
  BY MinimumDueTyped DEF PlansTyped, P!Active
<1>3. ASSUME NEW d PROVE taken(d) \in Nat
  <2>1. before(d) \in SUBSET PlannedDebts /\ IsFiniteSet(before(d))
    BY PlannerAssumption, FS_Subset DEF P!Active
  <2>2. \A x \in before(d) : rest[x] \in Nat
    BY <1>1, <2>1
  <2> HIDE DEF rest, before
  <2> QED
    BY <2>1, <2>2, PlanTotal, TotalIsNat
<1>4. after = [d \in PlannedDebts |->
                 rest[d] - P!Lesser(rest[d], P!Greater(money - needed - taken(d), 0))]
  BY DEF P!AfterPayments
<1>5. \A d \in PlannedDebts : rest[d] = P!Greater(due[d] - planned[d].minimum, 0)
  OBVIOUS
<1> HIDE DEF after, rest, needed, taken
<1>6. ASSUME NEW d \in PlannedDebts
      PROVE  /\ after[d] \in Nat /\ after[d] <= rest[d]
             /\ money = needed => after[d] = rest[d]
  <2>1. money - needed - taken(d) \in Int /\ (money = needed => money - needed - taken(d) <= 0)
    BY <1>2, <1>3
  <2>2. rest[d] \in Nat
    BY <1>1
  <2> QED
    BY <1>4, <2>1, <2>2 DEF P!Lesser, P!Greater
<1>7. after \in [PlannedDebts -> Nat]
  BY <1>4, <1>6
<1> QED
  BY <1>1, <1>5, <1>6, <1>7 DEF after, needed

\* What a plan has been charged for the card in use, month by month.
Charges(p, r) == [d \in PlannedDebts |->
    P!ChargeOf(p, d) * (IF r.payoff[d] > 0 THEN r.payoff[d] ELSE r.months)]
OwedAtFirst == Total(P!Owed0, PlannedDebts)
Conserved(p, r) ==
    OwedAtFirst + r.interest + Total(Charges(p, r), PlannedDebts) = r.paid + Total(r.owed, PlannedDebts)
\* A debt is dated as paid off once it owes nothing, and only then.
Dated(r) == \A d \in PlannedDebts : r.payoff[d] > 0 <=> r.owed[d] = 0

\* A month, taken debt by debt: q has dated what it paid off, and has been charged a month more.
LEMMA ChargesOfAMonth ==
    ASSUME PlansTyped, NEW p, NEW r \in PlanRow, NEW q \in PlanRow, Dated(r),
           q.months = r.months + 1,
           \A d \in PlannedDebts : q.payoff[d] = r.payoff[d]
                                   \/ (r.owed[d] > 0 /\ q.payoff[d] = r.months + 1)
    PROVE  LET charged == [d \in PlannedDebts |-> IF r.owed[d] > 0 THEN P!ChargeOf(p, d) ELSE 0] IN
           /\ \A d \in PlannedDebts : Charges(p, r)[d] \in Nat /\ charged[d] \in Nat
           /\ Total(Charges(p, q), PlannedDebts)
                = Total(Charges(p, r), PlannedDebts) + Total(charged, PlannedDebts)
<1> DEFINE charged == [d \in PlannedDebts |-> IF r.owed[d] > 0 THEN P!ChargeOf(p, d) ELSE 0]
<1>1. ASSUME NEW d \in PlannedDebts
      PROVE  /\ Charges(p, r)[d] \in Nat /\ charged[d] \in Nat
             /\ Charges(p, q)[d] = Charges(p, r)[d] + charged[d]
  <2>1. PICK c \in Nat : c = P!ChargeOf(p, d)
    BY MonthsDue, 0 \in Nat
  <2>2. /\ r.months \in Nat /\ r.payoff[d] \in Nat /\ r.owed[d] \in Nat
        /\ r.payoff[d] > 0 <=> r.owed[d] = 0
    BY DEF PlanRow, Dated
  <2>3. c * (r.months + 1) = c * r.months + c /\ c * r.months \in Nat
    <3>1. PICK m \in Nat : m = r.months
      BY <2>2
    <3>2. c * (m + 1) = c * m + c /\ c * m \in Nat
      BY <2>1, Z3
    <3> QED
      BY <3>1, <3>2
  <2>4. c * r.payoff[d] \in Nat
    BY <2>1, <2>2
  <2>5. /\ Charges(p, r)[d] = IF r.payoff[d] > 0 THEN c * r.payoff[d] ELSE c * r.months
        /\ Charges(p, q)[d] = IF q.payoff[d] > 0 THEN c * q.payoff[d] ELSE c * (r.months + 1)
        /\ charged[d] = IF r.owed[d] > 0 THEN c ELSE 0
    BY <2>1 DEF Charges
  <2>6. CASE r.owed[d] > 0
    <3>1. Charges(p, r)[d] = c * r.months /\ charged[d] = c
      BY <2>2, <2>5, <2>6
    <3>2. Charges(p, q)[d] = c * (r.months + 1)
      BY <2>2, <2>5, <2>6
    <3> QED
      BY <2>1, <2>3, <3>1, <3>2
  <2>7. CASE ~(r.owed[d] > 0)
    <3>1. r.payoff[d] > 0 /\ q.payoff[d] = r.payoff[d]
      BY <2>2, <2>7
    <3> QED
      BY <2>4, <2>5, <2>7, <3>1
  <2> QED
    BY <2>6, <2>7
<1> HIDE DEF charged
<1>2. IsFiniteSet(PlannedDebts)
  BY PlannerAssumption
<1>3. Total(Charges(p, q), PlannedDebts)
        = Total(Charges(p, r), PlannedDebts) + Total(charged, PlannedDebts)
  BY <1>1, <1>2, TotalAdds
<1> QED
  BY <1>1, <1>3 DEF charged

\* What is due in a month, debts and sums.
LEMMA DueAddsUp ==
    ASSUME PlansTyped, NEW p, NEW r \in PlanRow
    PROVE  LET charged == [d \in PlannedDebts |-> IF r.owed[d] > 0 THEN P!ChargeOf(p, d) ELSE 0] IN
           /\ P!InterestOf(p, r) \in Nat
           /\ Total(P!WithInterest(p, r), PlannedDebts)
                = Total(r.owed, PlannedDebts) + Total(charged, PlannedDebts) + P!InterestOf(p, r)
           /\ Total(r.owed, PlannedDebts) \in Nat /\ Total(charged, PlannedDebts) \in Nat
<1> DEFINE charged == [d \in PlannedDebts |-> IF r.owed[d] > 0 THEN P!ChargeOf(p, d) ELSE 0]
           due == P!WithInterest(p, r)
           both == [d \in PlannedDebts |-> r.owed[d] + charged[d]]
           cost == [d \in PlannedDebts |-> P!Interest(p, d, r.owed[d] + P!ChargeOf(p, d))]
           interest == [d \in PlannedDebts |-> IF r.owed[d] > 0 THEN cost[d] ELSE 0]
<1>1. \A d \in PlannedDebts :
        /\ r.owed[d] \in Nat /\ charged[d] \in Nat /\ both[d] \in Nat /\ cost[d] \in Nat
        /\ interest[d] \in Nat
        /\ due[d] = both[d] + interest[d] /\ both[d] = r.owed[d] + charged[d]
  <2> SUFFICES ASSUME NEW d \in PlannedDebts
               PROVE  /\ r.owed[d] \in Nat /\ charged[d] \in Nat /\ both[d] \in Nat
                      /\ cost[d] \in Nat /\ interest[d] \in Nat
                      /\ due[d] = both[d] + interest[d] /\ both[d] = r.owed[d] + charged[d]
    OBVIOUS
  <2>1. r.owed[d] \in Nat /\ P!ChargeOf(p, d) \in Nat
    BY MonthsDue DEF PlanRow
  <2>2. r.owed[d] + P!ChargeOf(p, d) \in Nat
    BY <2>1
  <2>3. P!Interest(p, d, r.owed[d] + P!ChargeOf(p, d)) \in Nat
    BY <2>2, MonthsDue
  <2>4. due[d] = IF r.owed[d] > 0
                 THEN r.owed[d] + P!ChargeOf(p, d) + P!Interest(p, d, r.owed[d] + P!ChargeOf(p, d))
                 ELSE 0
    BY DueTyped
  <2> HIDE DEF due
  <2> QED
    BY <2>1, <2>3, <2>4
<1>2. IsFiniteSet(PlannedDebts) /\ P!Active(r) \in SUBSET PlannedDebts /\ IsFiniteSet(P!Active(r))
  BY PlannerAssumption, FS_Subset DEF P!Active
<1>3. /\ \A d \in P!Active(r) : cost[d] = interest[d]
      /\ \A d \in PlannedDebts \ P!Active(r) : interest[d] = 0
  BY DEF P!Active
<1>4. P!InterestOf(p, r) = Total(cost, P!Active(r))
  BY <1>2, PlanTotal DEF P!InterestOf
<1> HIDE DEF charged, due, both, cost, interest
<1>5. Total(cost, P!Active(r)) = Total(interest, P!Active(r))
  BY <1>2, <1>3, TotalOfSame
<1>6. Total(interest, PlannedDebts) = Total(interest, P!Active(r))
  BY <1>1, <1>2, <1>3, TotalOfTheRest
<1>7. Total(due, PlannedDebts) = Total(both, PlannedDebts) + Total(interest, PlannedDebts)
  BY <1>1, <1>2, TotalAdds
<1>8. Total(both, PlannedDebts) = Total(r.owed, PlannedDebts) + Total(charged, PlannedDebts)
  <2>1. PICK owed : owed = r.owed
    OBVIOUS
  <2>2. \A d \in PlannedDebts :
          owed[d] \in Int /\ charged[d] \in Int /\ both[d] = owed[d] + charged[d]
    BY <1>1, <2>1
  <2>3. Total(both, PlannedDebts) = Total(owed, PlannedDebts) + Total(charged, PlannedDebts)
    BY <1>2, <2>2, TotalAdds
  <2> QED
    BY <2>1, <2>3
<1>9. /\ Total(r.owed, PlannedDebts) \in Nat /\ Total(charged, PlannedDebts) \in Nat
      /\ Total(interest, PlannedDebts) \in Nat
  BY <1>1, <1>2, TotalIsNat
<1> QED
  BY <1>4, <1>5, <1>6, <1>7, <1>8, <1>9 DEF charged, due

\* What a month that is paid leaves of a plan.
Kept(p, r, q) == q \in PlanRow /\ Dated(q) /\ (Conserved(p, r) => Conserved(p, q))

LEMMA PaidMonthKeeps ==
    ASSUME PlansTyped, NEW p, NEW r \in PlanRow, Dated(r)
    PROVE  Kept(p, r, P!Pay(p, r))
<1> DEFINE due == P!WithInterest(p, r)
           needed == P!MinimumDue(due, P!Active(r))
           money == IF p = "minimum" THEN needed ELSE P!Selected(P!BudgetOf(p))
           after == P!AfterPayments(p, r, due, money)
           payoff == [d \in PlannedDebts |-> IF d \in P!Active(r) /\ after[d] = 0
                                             THEN r.months + 1 ELSE r.payoff[d]]
           given == P!Total(due, P!Active(r)) - P!Total(after, P!Active(r))
           charged == [d \in PlannedDebts |-> IF r.owed[d] > 0 THEN P!ChargeOf(p, d) ELSE 0]
           outcome == IF /\ P!Total(after, PlannedDebts) >= P!Total(r.owed, PlannedDebts)
                         /\ money <= needed
                      THEN "non_amortizing" ELSE "running"
           accrued == [r EXCEPT !.months = @ + 1, !.interest = @ + P!InterestOf(p, r)]
           q == P!Pay(p, r)
<1>1. q = IF money < needed
          THEN [accrued EXCEPT !.owed = due, !.outcome = "budget_below_minimum"]
          ELSE [accrued EXCEPT !.owed = after, !.paid = @ + given, !.payoff = payoff,
                               !.outcome = outcome]
  BY DEF P!Pay, PlanRow
<1>2. /\ due \in [PlannedDebts -> Nat]
      /\ \A d \in PlannedDebts : r.owed[d] > 0 <=> due[d] > 0
  BY DueTyped
<1>3. needed \in Nat /\ money \in Nat
  <2>1. needed \in Nat
    BY <1>2, MinimumDueTyped DEF PlansTyped, P!Active
  <2> QED
    BY <2>1, MoneyTyped
<1>4. /\ after \in [PlannedDebts -> Nat]
      /\ \A d \in PlannedDebts : after[d] <= due[d]
  <2>1. /\ after \in [PlannedDebts -> Nat]
        /\ \A d \in PlannedDebts : /\ after[d] <= P!Greater(due[d] - planned[d].minimum, 0)
                                   /\ P!Greater(due[d] - planned[d].minimum, 0) \in Nat
                                   /\ P!Greater(due[d] - planned[d].minimum, 0) <= due[d]
    BY <1>2, <1>3, AfterTyped
  <2> HIDE DEF after, due
  <2> QED
    BY <1>2, <2>1
<1>5. /\ r.months \in Nat /\ r.interest \in Nat /\ r.paid \in Int
      /\ r.payoff \in [PlannedDebts -> Nat] /\ r.owed \in [PlannedDebts -> Nat]
  BY DEF PlanRow
<1>6. /\ P!InterestOf(p, r) \in Nat
      /\ Total(due, PlannedDebts)
           = Total(r.owed, PlannedDebts) + Total(charged, PlannedDebts) + P!InterestOf(p, r)
      /\ Total(r.owed, PlannedDebts) \in Nat /\ Total(charged, PlannedDebts) \in Nat
  BY DueAddsUp
<1>7. IsFiniteSet(PlannedDebts) /\ P!Active(r) \in SUBSET PlannedDebts /\ IsFiniteSet(P!Active(r))
  BY PlannerAssumption, FS_Subset DEF P!Active
<1> HIDE DEF due, needed, money, after
<1>8. /\ Total(due, PlannedDebts) = P!Total(due, P!Active(r))
      /\ Total(after, PlannedDebts) = P!Total(after, P!Active(r))
      /\ Total(due, PlannedDebts) \in Nat /\ Total(after, PlannedDebts) \in Nat
  <2>1. \A d \in PlannedDebts \ P!Active(r) : due[d] = 0 /\ after[d] = 0
    BY <1>2, <1>4 DEF P!Active
  <2>2. \A d \in PlannedDebts : due[d] \in Nat /\ after[d] \in Nat
    BY <1>2, <1>4
  <2>3. /\ Total(due, PlannedDebts) = Total(due, P!Active(r))
        /\ Total(after, PlannedDebts) = Total(after, P!Active(r))
    BY <1>7, <2>1, <2>2, TotalOfTheRest
  <2> QED
    BY <1>7, <2>2, <2>3, PlanTotal, TotalIsNat
<1>9. payoff \in [PlannedDebts -> Nat]
  BY <1>5
<1> HIDE DEF charged
<1>10. ASSUME NEW w \in PlanRow, w.months = r.months + 1,
              w.interest = r.interest + P!InterestOf(p, r),
              \A d \in PlannedDebts : w.payoff[d] = r.payoff[d]
                                      \/ (r.owed[d] > 0 /\ w.payoff[d] = r.months + 1),
              Total(w.owed, PlannedDebts) \in Nat, w.paid \in Int,
              Total(due, PlannedDebts) = w.paid - r.paid + Total(w.owed, PlannedDebts)
       PROVE  Conserved(p, r) => Conserved(p, w)
  <2>1. /\ \A d \in PlannedDebts : Charges(p, r)[d] \in Nat
        /\ Total(Charges(p, w), PlannedDebts)
             = Total(Charges(p, r), PlannedDebts) + Total(charged, PlannedDebts)
    BY <1>10, ChargesOfAMonth DEF charged
  <2>2. Total(Charges(p, r), PlannedDebts) \in Nat
    BY <1>7, <2>1, TotalIsNat
  <2>3. OwedAtFirst \in Nat
    <3>1. P!Owed0 \in [PlannedDebts -> Nat]
      BY DEF PlansTyped, P!Owed0, P!Debt
    <3> QED
      BY <1>7, <3>1, TotalIsNat DEF OwedAtFirst
  <2> QED
    BY <1>5, <1>6, <1>10, <2>1, <2>2, <2>3 DEF Conserved
<1>13. /\ accrued \in PlanRow /\ accrued.months = r.months + 1
       /\ accrued.interest = r.interest + P!InterestOf(p, r)
       /\ accrued.paid = r.paid /\ accrued.payoff = r.payoff
  <2>1. r.months + 1 \in Nat /\ r.interest + P!InterestOf(p, r) \in Nat
    BY <1>5, <1>6
  <2>2. PICK m \in Nat, i \in Nat : m = r.months + 1 /\ i = r.interest + P!InterestOf(p, r)
    BY <2>1
  <2>3. accrued = [r EXCEPT !.months = m, !.interest = i]
    BY <2>2 DEF PlanRow
  <2> HIDE DEF accrued
  <2> QED
    BY <2>2, <2>3 DEF PlanRow
<1> HIDE DEF accrued
<1>11. CASE money < needed
  <2>1. /\ q.months = r.months + 1 /\ q.interest = r.interest + P!InterestOf(p, r)
        /\ q.owed = due /\ q.payoff = r.payoff /\ q.paid = r.paid /\ q \in PlanRow
    BY <1>1, <1>2, <1>11, <1>13 DEF PlanRow, PlanOutcomes
  <2> HIDE DEF q
  <2>2. Dated(q)
    BY <1>2, <1>5, <2>1 DEF Dated
  <2>3. Conserved(p, r) => Conserved(p, q)
    BY <1>5, <1>8, <1>10, <2>1
  <2> QED
    BY <2>1, <2>2, <2>3 DEF Kept, q
<1>12. CASE ~(money < needed)
  <2>0. given \in Int
    BY <1>8
  <2>9. outcome \in PlanOutcomes
    BY DEF PlanOutcomes
  <2> HIDE DEF given, outcome, payoff
  <2>1. /\ q.months = r.months + 1 /\ q.interest = r.interest + P!InterestOf(p, r)
        /\ q.owed = after /\ q.payoff = payoff /\ q.paid = r.paid + given /\ q \in PlanRow
    <3>1. q = [accrued EXCEPT !.owed = after, !.paid = @ + given, !.payoff = payoff,
                              !.outcome = outcome]
      BY <1>1, <1>12
    <3>2. accrued.paid + given \in Int
      BY <1>5, <1>13, <2>0
    <3> HIDE DEF q
    <3> QED
      BY <1>4, <1>9, <1>13, <2>9, <3>1, <3>2 DEF PlanRow
  <2> USE DEF given, payoff
  <2> HIDE DEF q
  <2>2. Dated(q)
    <3> SUFFICES ASSUME NEW d \in PlannedDebts PROVE payoff[d] > 0 <=> after[d] = 0
      BY <2>1 DEF Dated
    <3>1. /\ r.months + 1 > 0
          /\ r.payoff[d] > 0 <=> r.owed[d] = 0
          /\ r.owed[d] \in Nat /\ after[d] \in Nat /\ due[d] \in Nat /\ after[d] <= due[d]
      BY <1>2, <1>4, <1>5 DEF Dated
    <3>2. payoff[d] = IF r.owed[d] > 0 /\ after[d] = 0 THEN r.months + 1 ELSE r.payoff[d]
      BY DEF P!Active
    <3>3. r.owed[d] > 0 <=> due[d] > 0
      BY <1>2
    <3> HIDE DEF payoff
    <3>4. CASE r.owed[d] > 0 /\ after[d] = 0
      BY <1>5, <3>1, <3>2, <3>4
    <3>5. CASE r.owed[d] > 0 /\ after[d] # 0
      BY <3>1, <3>2, <3>5
    <3>6. CASE ~(r.owed[d] > 0)
      BY <3>1, <3>2, <3>3, <3>6
    <3> QED
      BY <3>4, <3>5, <3>6
  <2>3. \A d \in PlannedDebts : q.payoff[d] = r.payoff[d]
                                \/ (r.owed[d] > 0 /\ q.payoff[d] = r.months + 1)
    BY <2>1 DEF P!Active
  <2>4. Total(due, PlannedDebts) = q.paid - r.paid + Total(q.owed, PlannedDebts)
    BY <1>5, <1>8, <2>1
  <2>5. Total(q.owed, PlannedDebts) \in Nat /\ q.paid \in Int
    BY <1>5, <1>8, <2>0, <2>1
  <2>6. Conserved(p, r) => Conserved(p, q)
    BY <1>10, <2>1, <2>3, <2>4, <2>5
  <2> QED
    BY <2>1, <2>2, <2>6 DEF Kept, q
<1> QED
  BY <1>11, <1>12

LEMMA MonthCases ==
    ASSUME NEW p, NEW r \in PlanRow
    PROVE  LET q == P!Month(p, r) IN
           \/ r.outcome # "running" /\ q = r
           \/ r.outcome = "running" /\ q = [r EXCEPT !.outcome = "max_months_reached"]
           \/ r.outcome = "running" /\ q = [r EXCEPT !.outcome = "feasible"]
           \/ r.outcome = "running" /\ q = P!Pay(p, r)
<1>1. r.months \in Nat /\ MaxMonths \in Nat
  BY PlannerAssumption DEF PlanRow
<1> QED
  BY <1>1 DEF P!Month

LEMMA MonthKeeps ==
    ASSUME PlansTyped, NEW p, NEW r \in PlanRow, Dated(r)
    PROVE  Kept(p, r, P!Month(p, r))
<1>1. ASSUME NEW o \in PlanOutcomes PROVE Kept(p, r, [r EXCEPT !.outcome = o])
  <2>1. PICK q : q = [r EXCEPT !.outcome = o]
    OBVIOUS
  <2>2. /\ q \in PlanRow /\ q.owed = r.owed /\ q.interest = r.interest /\ q.paid = r.paid
        /\ q.months = r.months /\ q.payoff = r.payoff
    BY <2>1 DEF PlanRow
  <2>3. Kept(p, r, q)
    BY <2>2 DEF Kept, Dated, Conserved, Charges
  <2> QED
    BY <2>1, <2>3
<1>2. "max_months_reached" \in PlanOutcomes /\ "feasible" \in PlanOutcomes
  BY DEF PlanOutcomes
<1>3. Kept(p, r, r)
  BY DEF Kept
<1> QED
  BY <1>1, <1>2, <1>3, MonthCases, PaidMonthKeeps

LEMMA PartGrows ==
    ASSUME NEW a \in Nat, NEW b \in Nat, a <= b, NEW n \in Nat \ {0}
    PROVE  a \div n <= b \div n
BY Z3

\* Plans whose debts bear the interest of the portfolio and no charges.
Plain == P!Plans \ {"minimum", "charged", "refinanced"}

\* More is due of a debt that owed more.
LEMMA DueGrows ==
    ASSUME PlansTyped, NEW p \in Plain, NEW r \in PlanRow, NEW m \in PlanRow,
           NEW d \in PlannedDebts, r.owed[d] <= m.owed[d]
    PROVE  P!WithInterest(p, r)[d] <= P!WithInterest("minimum", m)[d]
<1>1. /\ P!ChargeOf(p, d) = 0 /\ P!ChargeOf("minimum", d) = 0
      /\ P!RateOf(p, d) = planned[d].rate /\ P!RateOf("minimum", d) = planned[d].rate
  BY DEF Plain, P!ChargeOf, P!RateOf
<1>2. planned[d].rate \in Nat /\ r.owed[d] \in Nat /\ m.owed[d] \in Nat /\ MonthDen \in Nat \ {0}
  BY PlannerAssumption DEF PlansTyped, P!Debt, PlanRow
<1>3. PICK a \in Nat, b \in Nat, c \in Nat :
        a = r.owed[d] /\ b = m.owed[d] /\ c = planned[d].rate
  BY <1>2
<1>4. a * c \in Nat /\ b * c \in Nat /\ a * c <= b * c
  BY <1>3, ProductGrows
<1>5. (a * c) \div MonthDen <= (b * c) \div MonthDen
  BY <1>2, <1>4, PartGrows
<1>6. (a * c) \div MonthDen \in Nat /\ (b * c) \div MonthDen \in Nat
  BY <1>2, <1>4
<1>7. /\ P!WithInterest(p, r)[d] = IF a > 0 THEN a + (a * c) \div MonthDen ELSE 0
      /\ P!WithInterest("minimum", m)[d] = IF b > 0 THEN b + (b * c) \div MonthDen ELSE 0
  <2>1. /\ P!WithInterest(p, r)[d] =
             IF a > 0 THEN a + P!ChargeOf(p, d) + P!Interest(p, d, a + P!ChargeOf(p, d)) ELSE 0
        /\ P!WithInterest("minimum", m)[d] =
             IF b > 0
             THEN b + P!ChargeOf("minimum", d) + P!Interest("minimum", d, b + P!ChargeOf("minimum", d))
             ELSE 0
    BY <1>3, DueTyped
  <2>2. /\ P!Interest(p, d, a) = (a * c) \div MonthDen
        /\ P!Interest("minimum", d, b) = (b * c) \div MonthDen
    BY <1>1, <1>3 DEF P!Interest
  <2>3. a + 0 = a /\ b + 0 = b
    OBVIOUS
  <2> QED
    BY <1>1, <2>1, <2>2, <2>3
<1> QED
  BY <1>3, <1>5, <1>6, <1>7

\* A month that leaves a plan running has paid the minimums.
LEMMA PaidMonth ==
    ASSUME NEW p, NEW r \in PlanRow, P!Pay(p, r).outcome = "running"
    PROVE  P!Pay(p, r).owed =
             P!AfterPayments(p, r, P!WithInterest(p, r),
                             IF p = "minimum" THEN P!MinimumDue(P!WithInterest(p, r), P!Active(r))
                             ELSE P!Selected(P!BudgetOf(p)))
<1> DEFINE due == P!WithInterest(p, r)
           needed == P!MinimumDue(due, P!Active(r))
           money == IF p = "minimum" THEN needed ELSE P!Selected(P!BudgetOf(p))
           after == P!AfterPayments(p, r, due, money)
           payoff == [d \in PlannedDebts |-> IF d \in P!Active(r) /\ after[d] = 0
                                             THEN r.months + 1 ELSE r.payoff[d]]
           outcome == IF /\ P!Total(after, PlannedDebts) >= P!Total(r.owed, PlannedDebts)
                         /\ money <= needed
                      THEN "non_amortizing" ELSE "running"
           accrued == [r EXCEPT !.months = @ + 1, !.interest = @ + P!InterestOf(p, r)]
           paid == r.paid + P!Total(due, P!Active(r)) - P!Total(after, P!Active(r))
           q == P!Pay(p, r)
<1>1. q = IF money < needed
          THEN [accrued EXCEPT !.owed = due, !.outcome = "budget_below_minimum"]
          ELSE [accrued EXCEPT !.owed = after, !.paid = paid, !.payoff = payoff,
                               !.outcome = outcome]
  BY DEF P!Pay, PlanRow
<1>2. DOMAIN accrued = {"owed", "paid", "interest", "months", "payoff", "outcome"}
  BY DEF PlanRow
<1> HIDE DEF accrued, after, paid, payoff, outcome, due, needed, money, q
<1>3. q.owed = after
  BY <1>1, <1>2 DEF q
<1> QED
  BY <1>3 DEF q, after, due, money, needed

LEMMA AheadStep ==
    ASSUME PlansTyped, NEW p \in Plain, NEW r \in PlanRow, NEW m \in PlanRow,
           \A d \in PlannedDebts : r.owed[d] <= m.owed[d],
           P!Pay(p, r).outcome = "running", P!Pay("minimum", m).outcome = "running",
           NEW d \in PlannedDebts
    PROVE  P!Pay(p, r).owed[d] <= P!Pay("minimum", m).owed[d]
<1> DEFINE due == P!WithInterest(p, r)
           most == P!WithInterest("minimum", m)
           money == P!Selected(P!BudgetOf(p))
           least == P!MinimumDue(most, P!Active(m))
           after == P!AfterPayments(p, r, due, money)
           rest == P!AfterPayments("minimum", m, most, least)
           of(x) == P!Greater(x[d] - planned[d].minimum, 0)
<1>1. due \in [PlannedDebts -> Nat] /\ most \in [PlannedDebts -> Nat] /\ due[d] <= most[d]
  BY DueTyped, DueGrows
<1>2. P!Pay(p, r).owed = after /\ P!Pay("minimum", m).owed = rest
  BY PaidMonth DEF Plain
<1>3. money \in Int /\ least \in Int
  BY <1>1, MoneyTyped, MinimumDueTyped DEF PlansTyped, P!Active
<1>4. after \in [PlannedDebts -> Nat] /\ after[d] <= of(due)
  BY <1>1, <1>3, AfterTyped
<1>5. rest[d] = of(most)
  BY <1>1, <1>3, AfterTyped
<1> HIDE DEF due, most, money, least, after, rest
<1>6. planned[d].minimum \in Nat /\ due[d] \in Nat /\ most[d] \in Nat /\ after[d] \in Nat
  BY <1>1, <1>4 DEF PlansTyped, P!Debt
<1> QED
  BY <1>1, <1>2, <1>4, <1>5, <1>6 DEF P!Greater

Behind(p) == plan["minimum"].outcome = "running" /\ plan[p].outcome = "running"
             => \A d \in PlannedDebts : plan[p].owed[d] <= plan["minimum"].owed[d]
PlannerInv ==
    /\ PlansTyped
    /\ \A p \in P!Plans : Dated(plan[p]) /\ Conserved(p, plan[p])
    /\ \A p \in Plain : Behind(p)

LEMMA PlannerStart == P!Init => PlannerInv
<1> SUFFICES ASSUME P!Init PROVE PlannerInv
  OBVIOUS
<1>1. /\ planned \in [PlannedDebts -> P!Debt] /\ budget \in Nat
      /\ current \in P!Strategies /\ focus \in PlannedDebts
      /\ plan = [p \in P!Plans |-> P!Start]
  BY PlannerAssumption DEF P!Init
<1>2. /\ P!Owed0 \in [PlannedDebts -> Nat]
      /\ \A d \in PlannedDebts : P!Owed0[d] > 0
  BY <1>1 DEF P!Owed0, P!Debt
<1>3. /\ P!Start.owed = P!Owed0 /\ P!Start.paid = 0 /\ P!Start.interest = 0 /\ P!Start.months = 0
      /\ P!Start.payoff = [d \in PlannedDebts |-> 0] /\ P!Start \in PlanRow
  BY <1>2 DEF P!Start, PlanRow, PlanOutcomes
<1>4. PlansTyped
  BY <1>1, <1>3 DEF PlansTyped
<1>5. Dated(P!Start)
  BY <1>2, <1>3 DEF Dated
<1>6. ASSUME NEW p PROVE Conserved(p, P!Start)
  <2>1. \A d \in PlannedDebts : Charges(p, P!Start)[d] = 0
    <3> SUFFICES ASSUME NEW d \in PlannedDebts PROVE Charges(p, P!Start)[d] = 0
      OBVIOUS
    <3>1. PICK c \in Nat : c = P!ChargeOf(p, d)
      BY <1>4, MonthsDue, 0 \in Nat
    <3>2. Charges(p, P!Start)[d] = c * 0
      BY <1>3, <3>1 DEF Charges
    <3> QED
      BY <3>2
  <2>2. Total(Charges(p, P!Start), PlannedDebts) = 0
    BY <2>1, PlannerAssumption, TotalOfZeros
  <2>3. Total(P!Owed0, PlannedDebts) \in Nat
    BY <1>2, PlannerAssumption, TotalIsNat
  <2> QED
    BY <1>3, <2>2, <2>3 DEF Conserved, OwedAtFirst
<1>7. \A p \in P!Plans : plan[p] = P!Start
  BY <1>1
<1>8. "minimum" \in P!Plans /\ Plain \subseteq P!Plans
  BY DEF P!Plans, Plain
<1>9. \A p \in Plain : Behind(p)
  BY <1>2, <1>3, <1>7, <1>8 DEF Behind
<1> QED
  BY <1>4, <1>5, <1>6, <1>7, <1>9 DEF PlannerInv

LEMMA PlannerStep == PlannerInv /\ [P!Next]_planVars => PlannerInv'
<1> SUFFICES ASSUME PlannerInv, [P!Next]_planVars PROVE PlannerInv'
  OBVIOUS
<1>1. UNCHANGED <<planned, budget, current, focus>>
  BY DEF planVars, P!Next, P!NextMonth, P!Compare
<1>2. /\ \A p, d : P!ChargeOf(p, d)' = P!ChargeOf(p, d)
      /\ P!Owed0' = P!Owed0
  BY <1>1 DEF P!ChargeOf, P!Owed0
<1>3. \A p, q : q' = q => (Conserved(p, q) <=> Conserved(p, q)')
  BY <1>2 DEF Conserved, OwedAtFirst, Charges
<1>4. CASE plan' = plan
  BY <1>1, <1>2, <1>4 DEF PlannerInv, PlansTyped, Dated, Behind, Conserved, OwedAtFirst, Charges
<1>5. CASE P!NextMonth
  <2>1. plan' = [p \in P!Plans |-> P!Month(p, plan[p])]
    BY <1>5 DEF P!NextMonth
  <2>2. PlansTyped /\ \A p \in P!Plans : plan[p] \in PlanRow
    BY DEF PlannerInv, PlansTyped
  <2>3. \A p \in P!Plans : Kept(p, plan[p], plan'[p])
    BY <2>1, <2>2, MonthKeeps DEF PlannerInv
  <2>4. PlansTyped'
    BY <1>1, <2>1, <2>2, <2>3 DEF PlansTyped, Kept
  <2>5. ASSUME NEW p \in P!Plans PROVE Dated(plan[p])' /\ Conserved(p, plan[p])'
    <3>1. Dated(plan'[p]) /\ Conserved(p, plan'[p])
      BY <2>3 DEF Kept, PlannerInv
    <3>2. Dated(plan[p])'
      BY <3>1 DEF Dated
    <3>3. Conserved(p, plan[p])'
      BY <1>2, <3>1 DEF Conserved, OwedAtFirst, Charges
    <3> QED
      BY <3>2, <3>3
  <2>6. ASSUME NEW p \in Plain PROVE Behind(p)'
    <3> SUFFICES ASSUME plan'["minimum"].outcome = "running", plan'[p].outcome = "running",
                        NEW d \in PlannedDebts
                 PROVE  plan'[p].owed[d] <= plan'["minimum"].owed[d]
      BY DEF Behind
    <3>1. "minimum" \in P!Plans /\ p \in P!Plans
      BY DEF P!Plans, Plain
    <3>2. ASSUME NEW o \in {"minimum", p}
          PROVE  plan[o].outcome = "running" /\ plan'[o] = P!Pay(o, plan[o])
      <4>1. plan[o] \in PlanRow /\ plan'[o] = P!Month(o, plan[o]) /\ plan'[o].outcome = "running"
        BY <2>1, <2>2, <3>1
      <4>2. \/ plan[o].outcome # "running" /\ plan'[o] = plan[o]
            \/ plan[o].outcome = "running" /\ plan'[o] = [plan[o] EXCEPT !.outcome = "max_months_reached"]
            \/ plan[o].outcome = "running" /\ plan'[o] = [plan[o] EXCEPT !.outcome = "feasible"]
            \/ plan[o].outcome = "running" /\ plan'[o] = P!Pay(o, plan[o])
        BY <4>1, MonthCases
      <4>3. /\ [plan[o] EXCEPT !.outcome = "max_months_reached"].outcome # "running"
            /\ [plan[o] EXCEPT !.outcome = "feasible"].outcome # "running"
        BY <4>1 DEF PlanRow
      <4> QED
        BY <4>1, <4>2, <4>3
    <3>3. \A e \in PlannedDebts : plan[p].owed[e] <= plan["minimum"].owed[e]
      BY <3>2 DEF PlannerInv, Behind
    <3>4. P!Pay(p, plan[p]).outcome = "running"
          /\ P!Pay("minimum", plan["minimum"]).outcome = "running"
      BY <3>2
    <3> QED
      BY <2>2, <3>1, <3>2, <3>3, <3>4, AheadStep
  <2> QED
    BY <2>4, <2>5, <2>6 DEF PlannerInv
<1> QED
  BY <1>4, <1>5 DEF planVars, P!Next, P!Compare

\* No month, of any plan of any debts, makes or loses money: what was owed, the interest and
\* the charges are what was paid and what is still owed (strategy-engine.ts).
THEOREM MoneyIsKept == PagesSpec => []PlansConserve
<1> DEFINE Inv == open = "planner" => PlannerInv
<1>1. OpenInit => Inv
  BY PlannerStart DEF OpenInit
<1>2. Inv /\ [OpenNext]_allVars => Inv'
  BY PageMoves, PlannerStep
<1>3. PlannerInv => P!PlanConserves
  <2> SUFFICES ASSUME PlannerInv, NEW p \in P!Plans
               PROVE  P!Total(P!Owed0, PlannedDebts) + plan[p].interest + P!Charged(p)
                        = plan[p].paid + P!Total(plan[p].owed, PlannedDebts)
    BY DEF P!PlanConserves
  <2>1. \A g : P!Total(g, PlannedDebts) = Total(g, PlannedDebts)
    BY PlannerAssumption, PlanTotal
  <2>2. P!Charged(p) = Total(Charges(p, plan[p]), PlannedDebts)
    BY <2>1 DEF P!Charged, Charges
  <2> QED
    BY <2>1, <2>2 DEF PlannerInv, Conserved, OwedAtFirst
<1>4. Inv => PlansConserve
  BY <1>3 DEF PlansConserve
<1> QED
  BY <1>1, <1>2, <1>4, PTL DEF PagesSpec

\* Whatever order and budget a plan follows, as long as it and the one of the minimums run no
\* debt is behind where the minimums have it (strategy-engine.ts).
THEOREM MinimumsTrail == PagesSpec => []AheadOfMinimum
<1> DEFINE Inv == open = "planner" => PlannerInv
<1>1. OpenInit => Inv
  BY PlannerStart DEF OpenInit
<1>2. Inv /\ [OpenNext]_allVars => Inv'
  BY PageMoves, PlannerStep
<1>3. Inv => AheadOfMinimum
  BY DEF AheadOfMinimum, P!NeverBehindMinimum, PlannerInv, Behind, Plain
<1> QED
  BY <1>1, <1>2, <1>3, PTL DEF PagesSpec

-----------------------------------------------------------------------------
(* The dashboard.                                                            *)

DashInv == debts \in [ShownDebts -> D!Holding] /\ member \in D!Tiers /\ billing \in D!BillingStatuses

LEMMA DashStart == D!Init => DashInv
BY DEF D!Init, DashInv, D!Holding, D!Tiers, D!BillingStatuses

LEMMA DashStep == DashInv /\ [D!Next]_pageVars => DashInv'
BY DashboardAssumption DEF DashInv, D!Next, D!ChangeDebt, D!ChangeMembership, D!OpenDashboard,
   pageVars, D!Tiers, D!BillingStatuses

\* What the debts are ordered by are numbers.
LEMMA KeysAreNumbers ==
    ASSUME DashInv, NEW d \in ShownDebts
    PROVE  /\ D!Urgency(d) \in Int /\ D!DueTime(d) \in Int
           /\ debts[d].interest \in Int /\ Index[d] \in Int
BY DashboardAssumption DEF DashInv, D!Holding, D!Urgency, D!DueTime, D!Unlimited

LEMMA SoonerIsAnOrder ==
    ASSUME DashInv, NEW d \in ShownDebts, NEW e \in ShownDebts, NEW f \in ShownDebts
    PROVE  /\ D!Sooner(d, e) => ~D!Sooner(e, d)
           /\ D!Sooner(d, e) => D!Sooner(d, f) \/ D!Sooner(f, e)
<1>1. \A x \in {d, e, f} : D!Urgency(x) \in Int /\ D!DueTime(x) \in Int
  BY KeysAreNumbers
<1> QED
  BY <1>1 DEF D!Sooner

LEMMA RanksAreAnOrder ==
    ASSUME DashInv, NEW d \in ShownDebts, NEW e \in ShownDebts, NEW f \in ShownDebts
    PROVE  /\ d = e \/ D!RanksBefore(d, e) \/ D!RanksBefore(e, d)
           /\ D!RanksBefore(d, e) /\ D!RanksBefore(e, f) => D!RanksBefore(d, f)
           /\ D!RanksBefore(d, e) => ~D!RanksBefore(e, d)
           /\ D!RanksBefore(d, e) => ~D!Sooner(e, d)
<1>1. \A x \in {d, e, f} : /\ D!Urgency(x) \in Int /\ D!DueTime(x) \in Int
                           /\ debts[x].interest \in Int /\ Index[x] \in Int
  BY KeysAreNumbers
<1>2. d # e => Index[d] # Index[e]
  BY DashboardAssumption
<1>3. d = e \/ D!RanksBefore(d, e) \/ D!RanksBefore(e, d)
  BY <1>1, <1>2 DEF D!RanksBefore
<1>4. D!RanksBefore(d, e) /\ D!RanksBefore(e, f) => D!RanksBefore(d, f)
  BY <1>1 DEF D!RanksBefore
<1>5. D!RanksBefore(d, e) => ~D!RanksBefore(e, d) /\ ~D!Sooner(e, d)
  BY <1>1 DEF D!RanksBefore, D!Sooner
<1> QED
  BY <1>3, <1>4, <1>5

LEMMA MoreUrgentIsAnOrder ==
    ASSUME DashInv, NEW q \in BOOLEAN, NEW d \in ShownDebts, NEW e \in ShownDebts, NEW f \in ShownDebts
    PROVE  /\ d = e \/ D!MoreUrgent(q, d, e) \/ D!MoreUrgent(q, e, d)
           /\ D!MoreUrgent(q, d, e) /\ D!MoreUrgent(q, e, f) => D!MoreUrgent(q, d, f)
           /\ D!MoreUrgent(q, d, e) => ~D!Sooner(e, d)
<1>1. /\ d = e \/ D!ListedBefore(q, d, e) \/ D!ListedBefore(q, e, d)
      /\ D!ListedBefore(q, d, e) /\ D!ListedBefore(q, e, f) => D!ListedBefore(q, d, f)
  <2>1. /\ Index[d] \in Int /\ Index[e] \in Int /\ Index[f] \in Int
        /\ d # e => Index[d] # Index[e]
    BY DashboardAssumption
  <2> QED
    BY <2>1, RanksAreAnOrder DEF D!ListedBefore
<1>2. /\ D!Sooner(d, e) => ~D!Sooner(e, d) /\ (D!Sooner(d, f) \/ D!Sooner(f, e))
      /\ D!Sooner(e, f) => D!Sooner(e, d) \/ D!Sooner(d, f)
      /\ D!Sooner(f, d) => D!Sooner(f, e) \/ D!Sooner(e, d)
      /\ D!Sooner(f, e) => ~D!Sooner(e, f)
      /\ D!Sooner(f, d) => ~D!Sooner(d, f)
      /\ D!Sooner(e, d) => ~D!Sooner(d, e)
  BY SoonerIsAnOrder
<1> QED
  BY <1>1, <1>2 DEF D!MoreUrgent

\* The debt called the most urgent of some is one of them, and none of them is sooner.
LEMMA MostUrgentLeads ==
    ASSUME DashInv, NEW q \in BOOLEAN, NEW U \in SUBSET ShownDebts, U # {}
    PROVE  /\ D!MostUrgent(U, q) \in U
           /\ \A e \in U : ~D!Sooner(e, D!MostUrgent(U, q))
<1> DEFINE first == D!MostUrgent(U, q)
           before == {p \in ShownDebts \X ShownDebts : D!MoreUrgent(q, p[1], p[2])}
<1>1. \A x, y \in ShownDebts : <<x, y>> \in before <=> D!MoreUrgent(q, x, y)
  OBVIOUS
<1>2. IsFiniteSet(U)
  BY DashboardAssumption, FS_Subset
<1>3. /\ \A x, y \in U : x = y \/ <<x, y>> \in before \/ <<y, x>> \in before
      /\ \A x, y, z \in U : <<x, y>> \in before /\ <<y, z>> \in before => <<x, z>> \in before
  BY <1>1, MoreUrgentIsAnOrder
<1> HIDE DEF before
<1>4. \E x \in U : \A y \in U \ {x} : <<x, y>> \in before
  BY <1>2, <1>3, SomeIsFirst
<1>5. \E x \in U : \A y \in U \ {x} : D!MoreUrgent(q, x, y)
  BY <1>1, <1>4
<1>6. first \in U /\ \A y \in U \ {first} : D!MoreUrgent(q, first, y)
  BY <1>5 DEF D!MostUrgent
<1> HIDE DEF first
<1>7. ASSUME NEW e \in U PROVE ~D!Sooner(e, first)
  <2>1. CASE e = first
    BY <1>6, <2>1, SoonerIsAnOrder
  <2>2. CASE e # first
    BY <1>6, <2>2, MoreUrgentIsAnOrder
  <2> QED
    BY <2>1, <2>2
<1> QED
  BY <1>6, <1>7 DEF first

\* However few debts a membership analyses, the first in rank is among them.
LEMMA FirstIsAnalysed ==
    ASSUME DashInv, D!Active # {}, NEW access, access.maxActiveDebts \in Nat \ {0}
    PROVE  \E f \in D!Analysed(access) : \A e \in D!Active : ~D!Sooner(e, f)
<1> DEFINE before == {p \in ShownDebts \X ShownDebts : D!RanksBefore(p[1], p[2])}
<1>0. D!Active \in SUBSET ShownDebts /\ IsFiniteSet(D!Active)
  BY DashboardAssumption, FS_Subset DEF D!Active
<1>1. \A x, y \in ShownDebts : <<x, y>> \in before <=> D!RanksBefore(x, y)
  OBVIOUS
<1>2. /\ \A x, y \in D!Active : x = y \/ <<x, y>> \in before \/ <<y, x>> \in before
      /\ \A x, y, z \in D!Active : <<x, y>> \in before /\ <<y, z>> \in before => <<x, z>> \in before
  BY <1>0, <1>1, RanksAreAnOrder
<1> HIDE DEF before
<1>3. PICK f \in D!Active : \A y \in D!Active \ {f} : <<f, y>> \in before
  BY <1>0, <1>2, SomeIsFirst
<1>4. \A y \in D!Active \ {f} : D!RanksBefore(f, y)
  BY <1>0, <1>1, <1>3
<1>5. {e \in D!Active : D!RanksBefore(e, f)} = {}
  <2> SUFFICES ASSUME NEW e \in D!Active, D!RanksBefore(e, f) PROVE FALSE
    OBVIOUS
  <2>1. CASE e = f
    BY <1>0, <2>1, RanksAreAnOrder
  <2>2. CASE e # f
    BY <1>0, <1>4, <2>2, RanksAreAnOrder
  <2> QED
    BY <2>1, <2>2
<1>6. f \in D!Analysed(access)
  <2>1. D!Cardinality({}) = 0
    BY FS_EmptySet DEF D!Cardinality, Cardinality
  <2> QED
    BY <1>5, <2>1 DEF D!Analysed
<1>7. ASSUME NEW e \in D!Active PROVE ~D!Sooner(e, f)
  <2>1. CASE e = f
    BY <1>0, <2>1, SoonerIsAnOrder
  <2>2. CASE e # f
    BY <1>0, <1>4, <2>2, RanksAreAnOrder
  <2> QED
    BY <2>1, <2>2
<1> QED
  BY <1>6, <1>7

\* Every membership analyses a debt at least (feature-access.ts).
LEMMA SomeAreAnalysed ==
    ASSUME DashInv
    PROVE  /\ D!featureAccess(member, billing).maxActiveDebts \in Nat \ {0}
           /\ D!featureAccess(member, billing).premium \in BOOLEAN
<1> DEFINE features(t) == D!PLAN_FEATURES[t]
<1>1. D!Unlimited \in Nat \ {0}
  BY SMT DEF D!Unlimited
<1>2. features("FREE").maxActiveDebts = 2 /\ features("FREE").premium = FALSE
  BY SMT DEF D!PLAN_FEATURES
<1>3. features("NORMAL").maxActiveDebts = 10 /\ features("NORMAL").premium = TRUE
  BY SMT DEF D!PLAN_FEATURES
<1>4. features("PRO").maxActiveDebts = D!Unlimited /\ features("PRO").premium = TRUE
  BY SMT DEF D!PLAN_FEATURES
<1> HIDE DEF features
<1>5. D!effectiveTier(member, billing) \in {"FREE", "NORMAL", "PRO"}
  BY DEF DashInv, D!effectiveTier, D!Tiers
<1>6. D!featureAccess(member, billing) = features(D!effectiveTier(member, billing))
  BY DEF D!featureAccess, features
<1>7. CASE D!effectiveTier(member, billing) = "FREE"
  <2>1. D!featureAccess(member, billing) = features("FREE")
    BY <1>6, <1>7
  <2>2. D!featureAccess(member, billing).maxActiveDebts \in Nat \ {0}
    BY <1>2, <2>1, SMT
  <2>3. D!featureAccess(member, billing).premium \in BOOLEAN
    BY <1>2, <2>1, Zenon
  <2> QED
    BY <2>2, <2>3
<1>8. CASE D!effectiveTier(member, billing) = "NORMAL"
  <2>1. D!featureAccess(member, billing) = features("NORMAL")
    BY <1>6, <1>8
  <2>2. D!featureAccess(member, billing).maxActiveDebts \in Nat \ {0}
    BY <1>3, <2>1, SMT
  <2>3. D!featureAccess(member, billing).premium \in BOOLEAN
    BY <1>3, <2>1, Zenon
  <2> QED
    BY <2>2, <2>3
<1>9. CASE D!effectiveTier(member, billing) = "PRO"
  <2>1. D!featureAccess(member, billing) = features("PRO")
    BY <1>6, <1>9
  <2>2. D!featureAccess(member, billing).maxActiveDebts \in Nat \ {0}
    BY <1>1, <1>4, <2>1, SMT
  <2>3. D!featureAccess(member, billing).premium \in BOOLEAN
    BY <1>4, <2>1, Zenon
  <2> QED
    BY <2>2, <2>3
<1> QED
  BY <1>5, <1>7, <1>8, <1>9

\* The most urgent debt is never among those a membership leaves out: whatever the debts, none
\* is sooner than the one the page calls urgent, nor than the one its offer pleads with
\* (dashboard-service.ts).
THEOREM UrgentIsShown == PagesSpec => UrgentShown
<1> DEFINE Inv == open = "dashboard" => DashInv
           Shows == open = "dashboard" /\ D!OpenDashboard =>
                      \A d \in D!Active :
                        /\ page'.urgent # NoDebt /\ page'.pitched # NoDebt
                        /\ \A u \in {page'.urgent, page'.pitched} : ~D!Sooner(d, u)
<1>1. OpenInit => Inv
  BY DashStart DEF OpenInit
<1>2. Inv /\ [OpenNext]_allVars => Inv'
  BY PageMoves, DashStep
<1>3. Inv => Shows
  <2> SUFFICES ASSUME DashInv, D!OpenDashboard, NEW d \in D!Active
               PROVE  /\ page'.urgent # NoDebt /\ page'.pitched # NoDebt
                      /\ ~D!Sooner(d, page'.urgent) /\ ~D!Sooner(d, page'.pitched)
    OBVIOUS
  <2> DEFINE access == D!featureAccess(member, billing)
  <2>1. access.maxActiveDebts \in Nat \ {0} /\ access.premium \in BOOLEAN
    BY SomeAreAnalysed
  <2>2. /\ page'.urgent = D!MostUrgent(D!Analysed(access), access.premium)
        /\ page'.pitched = D!MostUrgent(D!Active, TRUE)
    BY DEF D!OpenDashboard, D!DashboardData, D!PitchedDebt
  <2> HIDE DEF access
  <2>3. D!Analysed(access) \subseteq D!Active /\ D!Active \subseteq ShownDebts
    BY DEF D!Analysed, D!Active
  <2>4. PICK f \in D!Analysed(access) : ~D!Sooner(d, f)
    BY <2>1, FirstIsAnalysed
  <2>5. page'.urgent \in D!Analysed(access) /\ ~D!Sooner(f, page'.urgent)
    BY <2>1, <2>2, <2>3, <2>4, MostUrgentLeads
  <2>6. page'.pitched \in D!Active /\ ~D!Sooner(d, page'.pitched)
    BY <2>2, <2>3, MostUrgentLeads
  <2>7. ~D!Sooner(d, page'.urgent)
    BY <2>3, <2>4, <2>5, SoonerIsAnOrder
  <2> QED
    BY <2>3, <2>5, <2>6, <2>7, DashboardAssumption
<1>4. Inv /\ [OpenNext]_allVars => [Shows]_allVars
  BY <1>3
<1> QED
  BY <1>1, <1>2, <1>4, PTL DEF PagesSpec, UrgentShown
-----------------------------------------------------------------------------
(* The wizard: what its last step shows.                                     *)

Texts == Balances \cup {0}
WizardTyped ==
    /\ step \in 1 .. 5 /\ draft \in W!Drafts /\ question \in W!Drafts
    /\ preview \in W!Drafts /\ saved \in W!Drafts /\ posts \in Seq(W!Drafts)
    /\ loading \in BOOLEAN /\ submitting \in BOOLEAN /\ thrown \in BOOLEAN /\ slipped \in BOOLEAN
    /\ changes \in 0 .. MaxEdits

\* A preview waits for its answer on the step that asked, and what it was asked for is what
\* the form still says, but for a budget that slipped.
PreviewInv ==
    /\ WizardTyped /\ W!PreviewIsCurrent
    /\ loading => step = 4
    /\ question # W!Nothing => /\ loading /\ question.debts = draft.debts
                               /\ question.income = draft.income
                               /\ question.budget = draft.budget \/ slipped

LEMMA TextsAreBounded ==
    ASSUME NEW s \in Seq(Texts), Len(s) <= MaxDebts
    PROVE  s \in W!SeqOf(Texts, MaxDebts)
<1>1. Len(s) \in 0 .. MaxDebts /\ s \in [1 .. Len(s) -> Texts]
  BY WizardAssumption
<1> QED
  BY <1>1 DEF W!SeqOf

LEMMA BoundedAreTexts ==
    ASSUME NEW s \in W!SeqOf(Texts, MaxDebts)
    PROVE  s \in Seq(Texts) /\ Len(s) <= MaxDebts
<1>1. PICK m \in 0 .. MaxDebts : s \in [1 .. m -> Texts]
  BY DEF W!SeqOf
<1>2. m \in Nat /\ m <= MaxDebts
  BY WizardAssumption
<1>3. s \in Seq(Texts) /\ Len(s) = m
  BY <1>1, <1>2
<1> QED
  BY <1>2, <1>3

LEMMA DraftsAreRecords ==
    /\ W!Drafts = [income : Incomes \cup {0}, debts : W!SeqOf(Texts, MaxDebts),
                   budget : Budgets \cup {0}]
    /\ W!Nothing \in W!Drafts /\ W!defaultValues = W!Nothing
    /\ W!Nothing = [income |-> 0, debts |-> <<>>, budget |-> 0]
<1>1. <<>> \in W!SeqOf(Texts, MaxDebts)
  <2>1. <<>> \in Seq(Texts) /\ Len(<<>>) <= MaxDebts
    BY WizardAssumption
  <2> QED
    BY <2>1, TextsAreBounded
<1>2. W!Drafts = [income : Incomes \cup {0}, debts : W!SeqOf(Texts, MaxDebts),
                  budget : Budgets \cup {0}]
  BY DEF W!Drafts, Texts
<1> QED
  BY <1>1, <1>2 DEF W!Nothing, W!defaultValues

LEMMA NothingIsADraft == W!Nothing \in W!Drafts /\ W!defaultValues = W!Nothing
BY DraftsAreRecords

LEMMA DraftsAreTyped ==
    ASSUME draft \in W!Drafts, UNCHANGED changes \/ changes' \in Int,
           W!TypeIncome \/ W!AddDebt \/ W!TypeDebt \/ W!RemoveDebt \/ W!TypeBudget
    PROVE  /\ draft' \in W!Drafts
           /\ draft'.income = draft.income \/ step = 2
           /\ draft'.debts = draft.debts \/ step = 3
           /\ draft'.budget = draft.budget \/ (step = 4 /\ (loading => slipped'))
<1> USE DraftsAreRecords
<1>1. /\ draft.debts \in Seq(Texts) /\ Len(draft.debts) <= MaxDebts
  BY BoundedAreTexts
<1>2. Len(draft.debts) \in Nat /\ draft.debts \in [1 .. Len(draft.debts) -> Texts]
      /\ DOMAIN draft.debts = 1 .. Len(draft.debts)
  BY <1>1
<1>3. CASE W!TypeIncome
  BY <1>3 DEF W!TypeIncome
<1>4. CASE W!AddDebt
  <2>1. 0 \in Texts
    BY DEF Texts
  <2>2. /\ Append(draft.debts, 0) \in Seq(Texts) /\ Len(Append(draft.debts, 0)) = Len(draft.debts) + 1
    BY <1>1, <2>1
  <2>3. Len(Append(draft.debts, 0)) <= MaxDebts
    BY <1>2, <1>4, <2>2, WizardAssumption DEF W!AddDebt
  <2>5. Append(draft.debts, 0) \in W!SeqOf(Texts, MaxDebts)
    BY <2>2, <2>3, TextsAreBounded
  <2> QED
    BY <1>4, <2>5 DEF W!AddDebt
<1>5. CASE W!TypeDebt
  <2>1. PICK i \in DOMAIN draft.debts, v \in Texts : draft' = [draft EXCEPT !.debts[i] = v]
    BY <1>5 DEF W!TypeDebt, Texts
  <2>2. /\ [draft.debts EXCEPT ![i] = v] \in Seq(Texts)
        /\ Len([draft.debts EXCEPT ![i] = v]) = Len(draft.debts)
    BY <1>1, <2>1
  <2>3. [draft.debts EXCEPT ![i] = v] \in W!SeqOf(Texts, MaxDebts)
    BY <1>1, <2>2, TextsAreBounded
  <2> QED
    BY <1>5, <2>1, <2>3 DEF W!TypeDebt
<1>6. CASE W!RemoveDebt
  <2>1. PICK i \in DOMAIN draft.debts : draft' = [draft EXCEPT !.debts = W!RemoveAt(@, i)]
    BY <1>6 DEF W!RemoveDebt
  <2> DEFINE front == SubSeq(draft.debts, 1, i - 1)
             back == SubSeq(draft.debts, i + 1, Len(draft.debts))
  <2>2. i \in 1 .. Len(draft.debts)
    BY <1>2, <2>1
  <2>3. front \in Seq(Texts) /\ Len(front) = i - 1
    BY <1>1, <1>2, <2>2
  <2>4. back \in Seq(Texts) /\ Len(back) = Len(draft.debts) - i
    BY <1>1, <1>2, <2>2
  <2>5. front \o back \in Seq(Texts) /\ Len(front \o back) = Len(draft.debts) - 1
    BY <1>2, <2>2, <2>3, <2>4
  <2>6. Len(front \o back) <= MaxDebts
    BY <1>1, <1>2, <2>5, WizardAssumption
  <2>7. front \o back \in W!SeqOf(Texts, MaxDebts)
    BY <2>5, <2>6, TextsAreBounded
  <2> QED
    BY <1>6, <2>1, <2>7 DEF W!RemoveDebt, W!RemoveAt
<1>7. CASE W!TypeBudget
  BY <1>7 DEF W!TypeBudget
<1> QED
  BY <1>3, <1>4, <1>5, <1>6, <1>7

\* What is posted, and what comes of it, was typed.
LEMMA PostsAreTyped ==
    ASSUME WizardTyped, W!Send \/ W!PostArrives \/ W!PostFails \/ W!Reload
    PROVE  posts' \in Seq(W!Drafts) /\ saved' \in W!Drafts
<1>1. posts \in Seq(W!Drafts) /\ saved \in W!Drafts /\ draft \in W!Drafts
  BY DEF WizardTyped
<1>2. posts # <<>> => Head(posts) \in W!Drafts /\ Tail(posts) \in Seq(W!Drafts)
  BY <1>1
<1>3. CASE W!Send
  BY <1>1, <1>3 DEF W!Send
<1>4. CASE W!PostArrives
  BY <1>1, <1>2, <1>4 DEF W!PostArrives
<1>5. CASE W!PostFails
  BY <1>1, <1>2, <1>5 DEF W!PostFails
<1>6. CASE W!Reload
  <2>1. \A i \in DOMAIN posts : posts[i] \in W!Drafts
    BY <1>1
  <2> QED
    BY <1>1, <1>6, <2>1 DEF W!Reload
<1> QED
  BY <1>3, <1>4, <1>5, <1>6

LEMMA PreviewStep == PreviewInv /\ [W!Next]_wizardVars => PreviewInv'
<1> SUFFICES ASSUME PreviewInv, [W!Next]_wizardVars PROVE PreviewInv'
  OBVIOUS
<1> DEFINE Request == <<loading, question, preview, posts, saved, submitting, thrown>>
<1>1. WizardTyped /\ MaxEdits \in Nat
  BY WizardAssumption DEF PreviewInv
<1>2. CASE W!TypeIncome \/ W!AddDebt \/ W!TypeDebt \/ W!RemoveDebt \/ W!TypeBudget
  <2>1. UNCHANGED <<step, Request>> /\ changes' \in 0 .. MaxEdits /\ changes' \in Int
    BY <1>1, <1>2 DEF W!TypeIncome, W!AddDebt, W!TypeDebt, W!RemoveDebt, W!TypeBudget, W!Editing,
       WizardTyped
  <2>2. slipped' = slipped \/ slipped' = (slipped \/ loading)
    BY <1>2 DEF W!TypeIncome, W!AddDebt, W!TypeDebt, W!RemoveDebt, W!TypeBudget
  <2>3. step \in {2, 3, 4}
    BY <1>2 DEF W!TypeIncome, W!AddDebt, W!TypeDebt, W!RemoveDebt, W!TypeBudget
  <2>4. /\ draft' \in W!Drafts
        /\ draft'.income = draft.income \/ step = 2
        /\ draft'.debts = draft.debts \/ step = 3
        /\ draft'.budget = draft.budget \/ (step = 4 /\ (loading => slipped'))
    BY <1>1, <1>2, <2>1, DraftsAreTyped DEF WizardTyped
  <2>5. WizardTyped'
    BY <1>1, <2>1, <2>2, <2>4 DEF WizardTyped
  <2> QED
    <3>1. step = 4 \/ ~loading
      BY DEF PreviewInv
    <3>2. step' # 5 /\ (loading' => step' = 4)
      BY <2>1, <2>3, <3>1
    <3>3. ASSUME question' # W!Nothing
          PROVE  /\ loading' /\ question'.debts = draft'.debts /\ question'.income = draft'.income
                 /\ question'.budget = draft'.budget \/ slipped'
      <4>1. /\ loading /\ question.debts = draft.debts /\ question.income = draft.income
            /\ question.budget = draft.budget \/ slipped
        BY <2>1, <3>3 DEF PreviewInv
      <4>2. step = 4
        BY <3>1, <4>1
      <4>3. /\ draft'.debts = draft.debts /\ draft'.income = draft.income
            /\ draft'.budget = draft.budget \/ slipped'
        BY <2>4, <4>1, <4>2
      <4>4. slipped => slipped'
        BY <2>2
      <4> QED
        BY <2>1, <4>1, <4>3, <4>4
    <3> QED
      BY <2>5, <3>2, <3>3 DEF PreviewInv, W!PreviewIsCurrent
<1>3. CASE W!Continue \/ W!Back
  BY <1>1, <1>3 DEF W!Continue, W!Back, W!CanContinue, W!CanGoBack, PreviewInv, WizardTyped,
     W!PreviewIsCurrent
<1>4. CASE W!AskPreview
  <2>1. /\ loading' = TRUE /\ question' = draft /\ slipped' = FALSE /\ step = 4
        /\ UNCHANGED <<step, draft, submitting, preview, posts, thrown, saved, changes>>
    BY <1>4 DEF W!AskPreview
  <2>2. WizardTyped'
    BY <1>1, <2>1 DEF WizardTyped
  <2> QED
    BY <2>1, <2>2 DEF PreviewInv, W!PreviewIsCurrent
<1>5. CASE W!PreviewArrives
  <2>1. /\ loading /\ question # W!Nothing /\ loading' = FALSE /\ question' = W!Nothing
        /\ UNCHANGED <<draft, submitting, posts, thrown, slipped, saved, changes>>
        /\ \/ preview' = question /\ step' = 5
           \/ UNCHANGED <<preview, step>>
    BY <1>5 DEF W!PreviewArrives
  <2>2. WizardTyped'
    <3>1. step' \in 1 .. 5 /\ preview' \in W!Drafts
      BY <1>1, <2>1 DEF WizardTyped
    <3>2. loading' \in BOOLEAN
      BY <2>1, Zenon
    <3> QED
      BY <1>1, <2>1, <3>1, <3>2, NothingIsADraft DEF WizardTyped
  <2>3. W!PreviewIsCurrent'
    BY <2>1 DEF PreviewInv, W!PreviewIsCurrent
  <2> QED
    BY <2>1, <2>2, <2>3 DEF PreviewInv
<1>6. CASE W!PreviewFails
  BY <1>1, <1>6, DraftsAreRecords DEF W!PreviewFails, PreviewInv, WizardTyped, W!PreviewIsCurrent
<1>7. CASE W!Send \/ W!PostArrives \/ W!PostFails
  <2>1. /\ UNCHANGED <<step, draft, loading, question, preview, slipped, changes>>
        /\ submitting' \in BOOLEAN /\ thrown' \in BOOLEAN
    BY <1>1, <1>7 DEF W!Send, W!PostArrives, W!PostFails, WizardTyped
  <2> QED
    BY <1>1, <1>7, <2>1, PostsAreTyped DEF PreviewInv, WizardTyped, W!PreviewIsCurrent
<1>8. CASE W!Reload
  <2>1. /\ step' = 1 /\ draft' = W!Nothing /\ loading' = FALSE /\ submitting' = FALSE
        /\ question' = W!Nothing /\ preview' = W!Nothing
        /\ thrown' = FALSE /\ slipped' = FALSE /\ changes' = changes
    BY <1>8, NothingIsADraft DEF W!Reload
  <2>2. WizardTyped'
    <3>1. step' \in 1 .. 5
      BY <2>1
    <3>2. /\ loading' \in BOOLEAN /\ submitting' \in BOOLEAN /\ thrown' \in BOOLEAN
          /\ slipped' \in BOOLEAN
      BY <2>1, Zenon
    <3>3. posts' \in Seq(W!Drafts) /\ saved' \in W!Drafts
      BY <1>1, <1>8, PostsAreTyped
    <3> QED
      BY <1>1, <2>1, <3>1, <3>2, <3>3, NothingIsADraft DEF WizardTyped
  <2> QED
    BY <2>1, <2>2 DEF PreviewInv, W!PreviewIsCurrent
<1>9. CASE UNCHANGED wizardVars
  BY <1>9 DEF wizardVars, PreviewInv, WizardTyped, W!PreviewIsCurrent
<1> QED
  BY <1>2, <1>3, <1>4, <1>5, <1>6, <1>7, <1>8, <1>9 DEF W!Next

LEMMA PreviewStart == W!Init => PreviewInv
<1> SUFFICES ASSUME W!Init PROVE PreviewInv
  OBVIOUS
<1>1. /\ step = 1 /\ draft = W!Nothing /\ loading = FALSE /\ submitting = FALSE
      /\ question = W!Nothing /\ preview = W!Nothing /\ posts = <<>>
      /\ thrown = FALSE /\ slipped = FALSE /\ saved = W!Nothing /\ changes = 0
  BY NothingIsADraft DEF W!Init
<1>2. WizardTyped
  <2>1. step \in 1 .. 5 /\ changes \in 0 .. MaxEdits /\ posts \in Seq(W!Drafts)
    BY <1>1, WizardAssumption
  <2>2. /\ loading \in BOOLEAN /\ submitting \in BOOLEAN /\ thrown \in BOOLEAN
        /\ slipped \in BOOLEAN
    BY <1>1, Zenon
  <2> QED
    BY <1>1, <2>1, <2>2, NothingIsADraft DEF WizardTyped
<1> QED
  BY <1>1, <1>2 DEF PreviewInv, W!PreviewIsCurrent

LEMMA WizardIsTyped == PreviewInv => W!TypeOK
BY DEF PreviewInv, WizardTyped, W!TypeOK
-----------------------------------------------------------------------------
(* The screen of the debts.                                                  *)

ListedDebts == [held : [Debts -> T!Row], limit : Limits]
Unarchived(seenAs) == {d \in Debts : seenAs.held[d].status \notin T!Gone \cup {"ARCHIVED"}}
Saving == [stage : {"sent", "done", "refused", "over the limit"}, debt : Debts \cup {NoDebt},
           in : T!Form, from : ListedDebts]
Filing == [stage : {"sent", "done", "refused"}, debt : Debts, in : T!Form, from : ListedDebts,
           clears : BOOLEAN]
Deleting == [stage : {"sent", "done"}, debt : Debts, clears : BOOLEAN]
DebtsTyped ==
    /\ held \in [Debts -> T!Row] /\ limit \in Limits /\ list \in ListedDebts
    /\ editing \in Debts \cup {NoDebt} /\ typed \in T!Form
    /\ saving \in Saving \cup {T!Quiet} /\ filing \in Filing \cup {T!Quiet}
    /\ deleting \in Deleting \cup {T!Quiet}

\* What is added was within the limit on the screen, and what is archived is sent as the
\* screen had it.
DebtsInv ==
    /\ DebtsTyped /\ T!CorrectsItsOwn
    /\ saving # T!Quiet /\ saving.debt = NoDebt
         => ~(Cardinality(Unarchived(saving.from)) >= saving.from.limit)
    /\ filing # T!Quiet
         => /\ filing.in.status = "ARCHIVED"
            /\ filing.in.of = filing.from.held[filing.debt].of

LEMMA QuietIsNoCall ==
    /\ \A c \in Saving \cup Filing \cup Deleting : c # T!Quiet
    /\ T!Quiet.stage = "none"
<1>1. DOMAIN T!Quiet = {"stage"} /\ T!Quiet.stage = "none"
  BY DEF T!Quiet
<1>2. \A c \in Saving \cup Filing \cup Deleting : c.stage # "none"
  BY DEF Saving, Filing, Deleting
<1> QED
  BY <1>1, <1>2

LEMMA EmptyIsAForm == T!emptyDebtValues \in T!Form /\ T!emptyDebtValues.source = NoDebt
BY DEF T!emptyDebtValues, T!Nothing, T!Form, T!Statuses, T!Amounts

LEMMA EntriesAreRows ==
    ASSUME NEW in \in T!Form, NEW was \in Nat
    PROVE  /\ T!RowOf(in, was) \in T!Row /\ T!RowOf(in, was).of = in.of
           /\ in.status = "ARCHIVED"
                => T!RowOf(in, was).status = "ARCHIVED" /\ T!RowOf(in, was).paidOff = 0
<1>1. T!deriveDebtStatus(in.of, in.status) \in T!Statuses
  BY DEF T!deriveDebtStatus, T!Statuses
<1>2. in.status = "ARCHIVED" => T!deriveDebtStatus(in.of, in.status) = "ARCHIVED"
  BY DEF T!deriveDebtStatus
<1>3. in.of \in T!Amounts /\ Today \in Nat
  BY DebtsAssumption DEF T!Form
<1> DEFINE status_ == T!deriveDebtStatus(in.of, in.status)
           off_ == IF status_ # "PAID" THEN 0 ELSE IF was # 0 THEN was ELSE Today
<1>4. off_ \in Nat /\ (status_ = "ARCHIVED" => off_ = 0)
  BY <1>3
<1>5. T!RowOf(in, was) = [status |-> status_, of |-> in.of, paidOff |-> off_]
  BY DEF T!RowOf
<1> HIDE DEF status_, off_
<1>6. status_ \in T!Statuses /\ (in.status = "ARCHIVED" => status_ = "ARCHIVED")
  BY <1>1, <1>2 DEF status_
<1> QED
  BY <1>3, <1>4, <1>5, <1>6 DEF T!Row

LEMMA ListedAreForms ==
    ASSUME DebtsTyped, NEW d \in T!Listed
    PROVE  /\ d \in Debts /\ T!debtToFormValues(d) \in T!Form
           /\ T!debtToFormValues(d) = [source |-> d, named |-> TRUE, status |-> list.held[d].status,
                                       of |-> list.held[d].of]
<1>1. d \in Debts /\ list.held[d] \in T!Row /\ list.held[d].status \notin T!Gone
  BY DEF T!Listed, T!Exists, DebtsTyped, ListedDebts
<1>2. list.held[d].status \in T!Statuses /\ list.held[d].of \in T!Amounts
  BY <1>1 DEF T!Row
<1> QED
  BY <1>1, <1>2 DEF T!debtToFormValues, T!Form

LEMMA CardinalIsCardinal == ASSUME NEW s PROVE T!Cardinality(s) = Cardinality(s)
BY DEF T!Cardinality, Cardinality

\* The screen counts the debts it lists that are not archived.
LEMMA ScreenCounts == T!activeDebts = Unarchived(list)
BY DEF T!activeDebts, T!Listed, T!Exists, Unarchived

LEMMA DebtFormsKeep ==
    ASSUME DebtsTyped, T!CorrectsItsOwn,
           T!TypeValues \/ T!applyPreset \/ T!startEditingDebt \/ T!Clear
    PROVE  /\ typed' \in T!Form /\ editing' \in Debts \cup {NoDebt} /\ T!CorrectsItsOwn'
           /\ UNCHANGED <<held, limit, list, saving, filing, deleting>>
<1>1. typed \in T!Form /\ editing \in Debts \cup {NoDebt}
  BY DEF DebtsTyped
<1>2. UNCHANGED <<held, limit, list, saving, filing, deleting>>
  BY DEF T!TypeValues, T!applyPreset, T!startEditingDebt, T!Clear, T!InForm
<1>3. CASE T!TypeValues
  <2>1. PICK e \in DebtAmounts, s \in T!Statuses :
          typed' = [typed EXCEPT !.named = TRUE, !.status = s, !.of = e]
    BY <1>3 DEF T!TypeValues
  <2>2. e \in T!Amounts
    BY DebtsAssumption
  <2>3. typed' \in T!Form /\ typed'.source = typed.source
    BY <1>1, <2>1, <2>2 DEF T!Form
  <2> QED
    BY <1>1, <1>2, <1>3, <2>3 DEF T!TypeValues, T!CorrectsItsOwn
<1>4. CASE T!applyPreset
  <2>1. typed' \in T!Form
    <3>1. [typed EXCEPT !.source = NoDebt, !.status = "CURRENT", !.of.fees = 0] \in T!Form
      <4>1. typed.of \in T!Amounts /\ "CURRENT" \in T!Statuses
        BY <1>1 DEF T!Form, T!Statuses
      <4>2. [typed.of EXCEPT !.fees = 0] \in T!Amounts
        BY <4>1 DEF T!Amounts
      <4> QED
        BY <1>1, <4>1, <4>2 DEF T!Form
    <3> QED
      BY <1>4, <3>1, EmptyIsAForm DEF T!applyPreset
  <2> QED
    BY <1>2, <1>4, <2>1 DEF T!applyPreset, T!CorrectsItsOwn
<1>5. CASE T!startEditingDebt
  <2>1. PICK d \in T!Listed : editing' = d /\ typed' = T!debtToFormValues(d)
    BY <1>5 DEF T!startEditingDebt
  <2> QED
    BY <1>2, <2>1, ListedAreForms DEF T!CorrectsItsOwn
<1>6. CASE T!Clear
  BY <1>2, <1>6, EmptyIsAForm DEF T!Clear, T!resetForm, T!CorrectsItsOwn
<1> QED
  BY <1>2, <1>3, <1>4, <1>5, <1>6

LEMMA DebtRequestsKeep ==
    ASSUME DebtsInv, T!submit \/ T!handleArchive \/ T!handleDelete
    PROVE  DebtsInv'
<1>1. /\ DebtsTyped /\ list \in ListedDebts /\ typed \in T!Form
      /\ editing \in Debts \cup {NoDebt}
  BY DEF DebtsInv, DebtsTyped
<1>2. UNCHANGED <<held, limit, list, editing, typed>> /\ T!CorrectsItsOwn'
  BY DEF T!submit, T!handleArchive, T!handleDelete, DebtsInv, T!CorrectsItsOwn
<1>3. CASE T!submit
  <2>1. /\ saving' = [stage |-> "sent", debt |-> editing, in |-> typed, from |-> list]
        /\ ~T!debtLimitReached /\ UNCHANGED <<filing, deleting>>
    BY <1>3 DEF T!submit
  <2>2. saving' \in Saving
    BY <1>1, <2>1 DEF Saving
  <2>3. saving'.debt = NoDebt
          => ~(Cardinality(Unarchived(saving'.from)) >= saving'.from.limit)
    <3>1. saving'.from = list /\ saving'.debt = editing
      BY <2>1
    <3> QED
      BY <2>1, <3>1, ScreenCounts, CardinalIsCardinal DEF T!debtLimitReached
  <2>4. DebtsTyped'
    BY <1>1, <1>2, <2>1, <2>2 DEF DebtsTyped
  <2> QED
    BY <1>2, <2>1, <2>3, <2>4 DEF DebtsInv, Unarchived
<1>4. CASE T!handleArchive
  <2>1. PICK d \in T!Listed :
          filing' = [stage |-> "sent", debt |-> d,
                     in |-> [T!debtToFormValues(d) EXCEPT !.status = "ARCHIVED"],
                     from |-> list, clears |-> editing = d]
    BY <1>4 DEF T!handleArchive
  <2>2. UNCHANGED <<saving, deleting>>
    BY <1>4 DEF T!handleArchive
  <2>3. /\ d \in Debts /\ T!debtToFormValues(d) \in T!Form
        /\ T!debtToFormValues(d).of = list.held[d].of
    BY <1>1, ListedAreForms
  <2>4. /\ filing' \in Filing /\ filing'.in.status = "ARCHIVED"
        /\ filing'.in.of = filing'.from.held[filing'.debt].of
    <3>1. "ARCHIVED" \in T!Statuses /\ (editing = d) \in BOOLEAN
      BY DEF T!Statuses
    <3>2. /\ [T!debtToFormValues(d) EXCEPT !.status = "ARCHIVED"] \in T!Form
          /\ [T!debtToFormValues(d) EXCEPT !.status = "ARCHIVED"].of = list.held[d].of
          /\ [T!debtToFormValues(d) EXCEPT !.status = "ARCHIVED"].status = "ARCHIVED"
      BY <2>3, <3>1 DEF T!Form
    <3> QED
      BY <1>1, <2>1, <2>3, <3>1, <3>2 DEF Filing
  <2>5. DebtsTyped'
    BY <1>1, <1>2, <2>2, <2>4 DEF DebtsTyped
  <2> QED
    BY <1>2, <2>2, <2>4, <2>5 DEF DebtsInv, Unarchived
<1>5. CASE T!handleDelete
  <2>1. PICK d \in T!Listed : deleting' = [stage |-> "sent", debt |-> d, clears |-> editing = d]
    BY <1>5 DEF T!handleDelete
  <2>2. d \in Debts /\ (editing = d) \in BOOLEAN /\ UNCHANGED <<saving, filing>>
    BY <1>5 DEF T!Listed, T!handleDelete
  <2>3. deleting' \in Deleting
    BY <2>1, <2>2 DEF Deleting
  <2>4. DebtsTyped'
    BY <1>1, <1>2, <2>2, <2>3 DEF DebtsTyped
  <2> QED
    BY <1>2, <2>2, <2>4 DEF DebtsInv, Unarchived
<1> QED
  BY <1>3, <1>4, <1>5

\* What the service makes of a request.
LEMMA DebtServicesKeep ==
    ASSUME DebtsInv, T!createDebt \/ T!updateDebt \/ T!deleteDebt
    PROVE  DebtsInv'
<1>1. /\ DebtsTyped /\ held \in [Debts -> T!Row]
      /\ saving \in Saving \cup {T!Quiet} /\ filing \in Filing \cup {T!Quiet}
      /\ deleting \in Deleting \cup {T!Quiet}
  BY DEF DebtsInv, DebtsTyped
<1>2. UNCHANGED <<limit, list, editing, typed>> /\ T!CorrectsItsOwn'
  BY DEF T!createDebt, T!updateDebt, T!deleteDebt, T!Served, DebtsInv, T!CorrectsItsOwn
<1>3. CASE T!createDebt
  <2>1. saving \in Saving /\ UNCHANGED <<filing, deleting>>
    BY <1>1, <1>3, QuietIsNoCall DEF T!createDebt
  <2>2. T!RowOf(saving.in, 0) \in T!Row
    BY <2>1, EntriesAreRows DEF Saving
  <2>3. held' \in [Debts -> T!Row]
    BY <1>1, <1>3, <2>2 DEF T!createDebt, T!Stores
  <2>4. \/ saving' = [saving EXCEPT !.stage = "done"]
        \/ saving' = [saving EXCEPT !.stage = "over the limit"]
    BY <1>3 DEF T!createDebt
  <2>5. saving' \in Saving /\ saving'.debt = saving.debt /\ saving'.from = saving.from
    BY <2>1, <2>4 DEF Saving
  <2>6. saving # T!Quiet
    BY <2>1, QuietIsNoCall
  <2>7. DebtsTyped'
    BY <1>1, <1>2, <2>1, <2>3, <2>5 DEF DebtsTyped
  <2> QED
    BY <1>2, <2>1, <2>5, <2>6, <2>7 DEF DebtsInv, Unarchived
<1>4. ASSUME NEW call_ \in Saving \cup Filing, T!Updates(call_), call_.debt # NoDebt
      PROVE  held' \in [Debts -> T!Row]
  <2>1. call_.debt \in Debts /\ call_.in \in T!Form
    BY <1>4 DEF Saving, Filing
  <2>2. held[call_.debt].paidOff \in Nat
    BY <1>1, <2>1 DEF T!Row
  <2>3. T!RowOf(call_.in, held[call_.debt].paidOff) \in T!Row
    BY <2>1, <2>2, EntriesAreRows
  <2> QED
    BY <1>1, <1>4, <2>1, <2>3 DEF T!Updates, T!Stores
<1>5. CASE T!updateDebt
  <2>1. CASE /\ saving.stage = "sent" /\ saving.debt # NoDebt /\ T!Updates(saving)
             /\ saving' = T!After(saving) /\ UNCHANGED <<filing, deleting>>
    <3>1. saving \in Saving
      BY <1>1, <2>1, QuietIsNoCall
    <3>2. saving' \in Saving /\ saving'.debt # NoDebt
      BY <2>1, <3>1 DEF T!After, Saving
    <3>3. DebtsTyped'
      BY <1>1, <1>2, <1>4, <2>1, <3>1, <3>2 DEF DebtsTyped
    <3> QED
      BY <1>2, <2>1, <3>2, <3>3 DEF DebtsInv, Unarchived
  <2>2. CASE /\ filing.stage = "sent" /\ T!Updates(filing)
             /\ filing' = T!After(filing) /\ UNCHANGED <<saving, deleting>>
    <3>1. filing \in Filing /\ filing # T!Quiet /\ filing.debt # NoDebt
      <4>1. filing \in Filing /\ filing # T!Quiet
        BY <1>1, <2>2, QuietIsNoCall
      <4> QED
        BY <4>1, DebtsAssumption DEF Filing
    <3>2. /\ filing' \in Filing /\ filing'.debt = filing.debt /\ filing'.in = filing.in
          /\ filing'.from = filing.from
      BY <2>2, <3>1 DEF T!After, Filing
    <3>3. DebtsTyped'
      BY <1>1, <1>2, <1>4, <2>2, <3>1, <3>2 DEF DebtsTyped
    <3> QED
      BY <1>2, <2>2, <3>1, <3>2, <3>3 DEF DebtsInv, Unarchived
  <2> QED
    BY <1>5, <2>1, <2>2 DEF T!updateDebt
<1>6. CASE T!deleteDebt
  <2>1. deleting \in Deleting /\ UNCHANGED <<saving, filing>>
    BY <1>1, <1>6, QuietIsNoCall DEF T!deleteDebt
  <2>2. [held[deleting.debt] EXCEPT !.status = "GONE"] \in T!Row
    BY <1>1, <2>1 DEF Deleting, T!Row, T!Gone
  <2>3. held' \in [Debts -> T!Row]
    BY <1>1, <1>6, <2>2 DEF T!deleteDebt, T!Stores
  <2>4. deleting' \in Deleting
    BY <1>6, <2>1 DEF T!deleteDebt, Deleting
  <2>5. DebtsTyped'
    BY <1>1, <1>2, <2>1, <2>3, <2>4 DEF DebtsTyped
  <2> QED
    BY <1>2, <2>1, <2>5 DEF DebtsInv, Unarchived
<1> QED
  BY <1>3, <1>5, <1>6

\* What the screen makes of an answer, and what is done elsewhere.
LEMMA DebtAnswersKeep ==
    ASSUME DebtsInv, T!Saved \/ T!Archived \/ T!Deleted \/ T!Failed \/ T!Refresh \/ T!Elsewhere
    PROVE  DebtsInv'
<1>1. /\ DebtsTyped /\ held \in [Debts -> T!Row] /\ limit \in Limits /\ typed \in T!Form
  BY DEF DebtsInv, DebtsTyped
<1>2. CASE T!Saved \/ T!Archived \/ T!Deleted \/ T!Failed
  <2>1. UNCHANGED <<held, limit, list>>
    BY <1>2 DEF T!Saved, T!Archived, T!Deleted, T!Failed
  <2>2. \/ editing' = NoDebt /\ typed' = T!emptyDebtValues
        \/ UNCHANGED <<editing, typed>>
    BY <1>2 DEF T!Saved, T!Archived, T!Deleted, T!Failed, T!resetForm
  <2>3. /\ saving' \in {saving, T!Quiet} /\ filing' \in {filing, T!Quiet}
        /\ deleting' \in {deleting, T!Quiet}
    BY <1>2 DEF T!Saved, T!Archived, T!Deleted, T!Failed
  <2>4. DebtsTyped'
    BY <1>1, <2>1, <2>2, <2>3, EmptyIsAForm DEF DebtsTyped
  <2>5. T!CorrectsItsOwn'
    BY <2>2 DEF DebtsInv, T!CorrectsItsOwn
  <2> QED
    BY <2>3, <2>4, <2>5 DEF DebtsInv, Unarchived
<1>3. CASE T!Refresh
  <2>1. list' = [held |-> held, limit |-> limit]
        /\ UNCHANGED <<held, limit, editing, typed, saving, filing, deleting>>
    BY <1>3 DEF T!Refresh
  <2>2. list' \in ListedDebts
    BY <1>1, <2>1 DEF ListedDebts
  <2>3. DebtsTyped'
    BY <1>1, <2>1, <2>2 DEF DebtsTyped
  <2> QED
    BY <2>1, <2>3 DEF DebtsInv, Unarchived, T!CorrectsItsOwn
<1>4. CASE T!Elsewhere
  <2>1. UNCHANGED <<list, editing, typed, saving, filing, deleting>>
    BY <1>4 DEF T!Elsewhere
  <2>2. held' \in [Debts -> T!Row] /\ limit' \in Limits
    <3>1. CASE \E d \in Debts : T!Stores(d, T!PaysOff(d)) /\ UNCHANGED limit
      <4>1. PICK d \in Debts : held' = [held EXCEPT ![d] = T!PaysOff(d)]
        BY <3>1 DEF T!Stores
      <4>2. T!PaysOff(d) \in T!Row
        <5>1. held[d] \in T!Row /\ "PAID" \in T!Statuses /\ Today \in Nat
          BY <1>1, DebtsAssumption DEF T!Statuses
        <5>2. [held[d].of EXCEPT !.balance = 0, !.fees = 0] \in T!Amounts
          BY <5>1 DEF T!Row, T!Amounts
        <5> QED
          BY <5>1, <5>2 DEF T!PaysOff, T!Row
      <4> QED
        BY <1>1, <3>1, <4>1, <4>2
    <3> QED
      BY <1>1, <1>4, <3>1 DEF T!Elsewhere
  <2>3. DebtsTyped'
    BY <1>1, <2>1, <2>2 DEF DebtsTyped
  <2> QED
    BY <2>1, <2>3 DEF DebtsInv, Unarchived, T!CorrectsItsOwn
<1> QED
  BY <1>2, <1>3, <1>4

LEMMA DebtsStep == DebtsInv /\ [T!Next]_debtVars => DebtsInv'
<1>1. DebtsInv /\ UNCHANGED debtVars => DebtsInv'
  BY DEF DebtsInv, DebtsTyped, Unarchived, T!CorrectsItsOwn, debtVars
<1>2. ASSUME DebtsInv, T!TypeValues \/ T!applyPreset \/ T!startEditingDebt \/ T!Clear
      PROVE  DebtsInv'
  <2>1. /\ typed' \in T!Form /\ editing' \in Debts \cup {NoDebt} /\ T!CorrectsItsOwn'
        /\ UNCHANGED <<held, limit, list, saving, filing, deleting>>
    BY <1>2, DebtFormsKeep DEF DebtsInv
  <2>2. DebtsTyped'
    BY <1>2, <2>1 DEF DebtsInv, DebtsTyped
  <2> QED
    BY <1>2, <2>1, <2>2 DEF DebtsInv, Unarchived
<1> QED
  BY <1>1, <1>2, DebtRequestsKeep, DebtServicesKeep, DebtAnswersKeep DEF T!Next

LEMMA DebtsStart == T!Init => DebtsInv
<1> SUFFICES ASSUME T!Init PROVE DebtsInv
  OBVIOUS
<1>1. /\ held \in [Debts -> T!Row] /\ limit \in Limits /\ list = [held |-> held, limit |-> limit]
      /\ editing = NoDebt /\ typed = T!emptyDebtValues
      /\ saving = T!Quiet /\ filing = T!Quiet /\ deleting = T!Quiet
  BY DebtsAssumption DEF T!Init
<1>2. list \in ListedDebts
  BY <1>1 DEF ListedDebts
<1> QED
  BY <1>1, <1>2, EmptyIsAForm DEF DebtsInv, DebtsTyped, T!CorrectsItsOwn

\* How a request of either kind may change.
LEMMA CallsMove ==
    ASSUME [T!Next]_debtVars
    PROVE  /\ \/ filing' \in {filing, T!Quiet} \/ T!handleArchive
              \/ T!Updates(filing) /\ filing' = T!After(filing)
           /\ \/ saving' \in {saving, T!Quiet} \/ T!submit \/ T!createDebt
              \/ saving' = T!After(saving)
<1>1. CASE \/ T!TypeValues \/ T!applyPreset \/ T!startEditingDebt \/ T!Clear \/ UNCHANGED debtVars
  BY <1>1 DEF T!TypeValues, T!applyPreset, T!startEditingDebt, T!Clear, T!InForm, debtVars
<1>2. CASE T!submit \/ T!handleArchive \/ T!handleDelete
  BY <1>2 DEF T!submit, T!handleArchive, T!handleDelete
<1>3. CASE T!createDebt \/ T!updateDebt \/ T!deleteDebt
  BY <1>3 DEF T!createDebt, T!updateDebt, T!deleteDebt
<1>4. CASE T!Saved \/ T!Archived \/ T!Deleted \/ T!Failed \/ T!Refresh \/ T!Elsewhere
  BY <1>4 DEF T!Saved, T!Archived, T!Deleted, T!Failed, T!Refresh, T!Elsewhere
<1> QED
  BY <1>1, <1>2, <1>3, <1>4 DEF T!Next

\* Archiving a debt that is still as it was listed changes its status and the day it was
\* paid off alone, and whoever was shown the debts as they are is not told of the limit
\* too late.
LEMMA ArchivingIsAll == DebtsInv /\ [T!Next]_debtVars => T!ArchivesOnly
<1> SUFFICES ASSUME DebtsInv, [T!Next]_debtVars, filing.stage = "sent", filing'.stage = "done",
                    held[filing.debt] = filing.from.held[filing.debt]
             PROVE  held' = [held EXCEPT ![filing.debt].status = "ARCHIVED",
                                         ![filing.debt].paidOff = 0]
  BY DEF T!ArchivesOnly
<1> DEFINE d == filing.debt
           row_ == T!RowOf(filing.in, held[d].paidOff)
<1>1. filing # T!Quiet /\ filing \in Filing /\ d \in Debts
  <2>1. filing # T!Quiet
    BY QuietIsNoCall
  <2> QED
    BY <2>1 DEF DebtsInv, DebtsTyped, Filing
<1>2. filing' # filing /\ filing' # T!Quiet
  BY QuietIsNoCall
<1>3. T!Updates(filing) /\ filing' = T!After(filing)
  BY <1>1, <1>2, CallsMove DEF T!handleArchive
<1>4. T!Accepts(d, filing.in)
  BY <1>1, <1>3 DEF T!After, Filing
<1>5. held' = [held EXCEPT ![d] = row_]
  BY <1>3, <1>4 DEF T!Updates, T!Stores
<1>6. /\ held \in [Debts -> T!Row] /\ held[d] \in T!Row
      /\ filing.in \in T!Form /\ filing.in.status = "ARCHIVED" /\ filing.in.of = held[d].of
  BY <1>1 DEF DebtsInv, DebtsTyped, Filing
<1>7. held[d].paidOff \in Nat
  BY <1>6 DEF T!Row
<1>8. /\ row_ \in T!Row /\ row_.status = "ARCHIVED" /\ row_.of = held[d].of
      /\ row_.paidOff = 0
  BY <1>6, <1>7, EntriesAreRows
<1> HIDE DEF row_
<1>9. [held[d] EXCEPT !.status = "ARCHIVED", !.paidOff = 0] = row_
  BY <1>6, <1>8 DEF T!Row
<1> QED
  BY <1>1, <1>5, <1>6, <1>9

LEMMA LimitsAreTold == DebtsInv /\ [T!Next]_debtVars => T!LimitIsTold
<1> SUFFICES ASSUME DebtsInv, [T!Next]_debtVars, saving.stage = "sent",
                    saving'.stage \notin {"none", "sent", "done", "refused"},
                    saving.from = [held |-> held, limit |-> limit]
             PROVE  FALSE
  BY Zenon DEF T!LimitIsTold
<1> DEFINE active == {d \in Debts : T!isActive(held[d])}
<1>1. saving # T!Quiet /\ saving \in Saving
  <2>1. saving # T!Quiet
    BY QuietIsNoCall
  <2> QED
    BY <2>1 DEF DebtsInv, DebtsTyped
<1>2. saving' # saving /\ saving' # T!Quiet
  BY QuietIsNoCall
<1>3. T!createDebt \/ saving' = T!After(saving)
  BY <1>1, <1>2, CallsMove DEF T!submit
<1>4. saving' # T!After(saving)
  BY <1>1 DEF T!After, Saving
<1>5. /\ saving.debt = NoDebt
      /\ saving' = [saving EXCEPT !.stage = "done"] \/ ~T!assertDebtLimit(T!RowOf(saving.in, 0), 0)
  BY <1>3, <1>4 DEF T!createDebt
<1>6. [saving EXCEPT !.stage = "done"].stage = "done"
  BY <1>1 DEF Saving
<1>7. ~(Cardinality(active) + 0 < limit)
  BY <1>5, <1>6, CardinalIsCardinal DEF T!assertDebtLimit
<1>8. ~(Cardinality(Unarchived(saving.from)) >= saving.from.limit) /\ saving.from.limit = limit
  BY <1>1, <1>5 DEF DebtsInv
<1>9. active \subseteq Unarchived(saving.from) /\ Unarchived(saving.from) \subseteq Debts
  <2>1. saving.from.held = held
    OBVIOUS
  <2>2. \A d \in Debts : T!isActive(held[d]) => held[d].status \notin T!Gone \cup {"ARCHIVED"}
    BY DEF T!isActive
  <2> QED
    BY <2>1, <2>2 DEF Unarchived
<1>10. /\ Cardinality(active) \in Nat /\ Cardinality(Unarchived(saving.from)) \in Nat
       /\ Cardinality(active) <= Cardinality(Unarchived(saving.from))
  <2>1. IsFiniteSet(Unarchived(saving.from)) /\ IsFiniteSet(active)
    BY <1>9, DebtsAssumption, FS_Subset
  <2> QED
    BY <1>9, <2>1, FS_Subset, FS_CardinalityType
<1>11. limit \in Nat
  BY DebtsAssumption DEF DebtsInv, DebtsTyped
<1> QED
  BY <1>7, <1>8, <1>10, <1>11

LEMMA DebtsAreTyped == DebtsInv => T!TypeOK
BY DEF DebtsInv, DebtsTyped, ListedDebts, T!TypeOK
-----------------------------------------------------------------------------
(* The screen of the payments: what a payment takes, in whole cents.         *)

CentsEntry == [debt : DeskDebts \cup {NoDebt}, amount : Cents, principal : OptionalCents,
               interest : OptionalCents, late : OptionalCents, extra : OptionalCents]

LEMMA CentsAreMultiples ==
    ASSUME NEW x \in Nat PROVE x \in Cents <=> \E k \in Nat : x = Cent * k
<1>1. Cent \in Nat \ {0}
  BY DeskAssumption
<1>2. ASSUME x % Cent = 0 PROVE \E k \in Nat : x = Cent * k
  <2>1. x = Cent * (x \div Cent) + (x % Cent) /\ x \div Cent \in Nat
    BY <1>1, Z3
  <2>2. x = Cent * (x \div Cent)
    BY <1>1, <1>2, <2>1
  <2> QED
    BY <2>1, <2>2
<1>3. ASSUME NEW k \in Nat, x = Cent * k PROVE x % Cent = 0
  BY <1>1, <1>3, Z3
<1> QED
  BY <1>2, <1>3 DEF Cents

LEMMA CentsAddUp ==
    ASSUME NEW x \in Cents, NEW y \in Cents
    PROVE  /\ x \in Nat /\ y \in Nat /\ x + y \in Cents /\ (y <= x => x - y \in Cents)
           /\ 0 \in Cents /\ Cent \in Cents
<1>1. Cent \in Nat \ {0} /\ x \in Nat /\ y \in Nat
  BY DeskAssumption DEF Cents
<1>2. PICK j \in Nat, k \in Nat : x = Cent * j /\ y = Cent * k
  BY <1>1, CentsAreMultiples
<1>3. x + y = Cent * (j + k) /\ j + k \in Nat /\ 0 = Cent * 0 /\ Cent = Cent * 1
  BY <1>1, <1>2, Z3
<1>4. ASSUME y <= x PROVE x - y \in Cents
  <2>1. x - y = Cent * (j - k)
    BY <1>1, <1>2, Z3
  <2>2. j - k \in Nat
    BY <1>1, <1>2, <1>4, Z3
  <2> QED
    BY <1>1, <1>4, <2>1, <2>2, CentsAreMultiples
<1>5. x + y \in Cents /\ 0 \in Cents /\ Cent \in Cents
  <2>1. x + y \in Cents
    BY <1>1, <1>3, CentsAreMultiples
  <2>2. 0 \in Cents
    BY <1>1, <1>3, CentsAreMultiples
  <2>3. Cent \in Cents
    BY <1>1, <1>3, CentsAreMultiples
  <2> QED
    BY <2>1, <2>2, <2>3
<1> QED
  BY <1>1, <1>4, <1>5

LEMMA RoundedToCents ==
    ASSUME NEW x \in Nat
    PROVE  E!ToCents(x) \in Cents /\ (x \in Cents => E!ToCents(x) = x)
<1>1. Cent \in Nat \ {0}
  BY DeskAssumption
<1> DEFINE q == (2 * x + Cent) \div (2 * Cent)
<1>2. q \in Nat
  BY <1>1, Z3
<1>3. Cent * q \in Nat
  BY <1>1, <1>2, Z3
<1>4. E!ToCents(x) = Cent * q
  BY DEF E!ToCents
<1>5. ASSUME x \in Cents PROVE Cent * q = x
  <2>1. PICK k \in Nat : x = Cent * k
    BY <1>5, CentsAreMultiples
  <2>2. 2 * x + Cent = (2 * Cent) * k + Cent
    BY <1>1, <2>1, Z3
  <2>3. ((2 * Cent) * k + Cent) \div (2 * Cent) = k
    BY <1>1, Z3
  <2> QED
    BY <2>1, <2>2, <2>3
<1>6. Cent * q \in Cents
  BY <1>2, <1>3, CentsAreMultiples
<1> QED
  BY <1>4, <1>5, <1>6

LEMMA DeskInterest ==
    ASSUME NEW o \in CentsOwed
    PROVE  E!MonthlyInterest(o) \in Nat
<1>1. o.balance \in Nat /\ InterestNum \in Nat /\ InterestDen \in Nat \ {0}
  BY DeskAssumption DEF CentsOwed, Cents
<1>2. o.balance * InterestNum \in Nat
  BY <1>1, Z3
<1> QED
  BY <1>1, <1>2, Z3 DEF E!MonthlyInterest

LEMMA CentsOfAPart ==
    ASSUME NEW most \in Cents, NEW left \in Cents, NEW part \in OptionalCents
    PROVE  /\ E!Part(part, most, left) \in Cents /\ E!Lesser(most, left) \in Cents
           /\ E!Part(part, most, left) <= most /\ E!Part(part, most, left) <= left
           /\ E!Lesser(most, left) <= most /\ E!Lesser(most, left) <= left
BY DEF E!Part, E!Lesser, OptionalCents, E!Omitted, Cents

\* A payment that leaves nothing over takes its amount off the debt, and the screen knows no
\* more of it than that.
LEMMA PaymentTakes ==
    ASSUME NEW o \in CentsOwed, NEW in \in CentsEntry
    PROVE  /\ E!OwedAfter(o, in) \in CentsOwed /\ E!BreakdownOf(o, in) \in CentsSplit
           /\ E!Unplaced(o, in) \in Nat
           /\ E!TotalDue(E!OwedAfter(o, in)) = E!TotalDue(o) - in.amount + E!Unplaced(o, in)
<1> DEFINE late      == E!LatePart(o, in)
           extra     == E!ExtraPart(o, in)
           after     == E!AfterCharges(o, in)
           interest  == E!InterestPart(o, in)
           principal == E!PrincipalPart(o, in)
           most      == E!Lesser(o.balance, after)
<1>1. /\ o.balance \in Cents /\ o.late \in Cents /\ o.extra \in Cents /\ in.amount \in Cents
      /\ in.late \in OptionalCents /\ in.extra \in OptionalCents
      /\ in.interest \in OptionalCents /\ in.principal \in OptionalCents
  BY DEF CentsOwed, CentsEntry
<1>2. late \in Cents /\ late <= o.late /\ late <= in.amount
  BY <1>1, CentsOfAPart DEF E!LatePart
<1>3. in.amount - late \in Cents
  BY <1>1, <1>2, CentsAddUp
<1>4. extra \in Cents /\ extra <= o.extra /\ extra <= in.amount - late
  BY <1>1, <1>3, CentsOfAPart DEF E!ExtraPart
<1>5. after \in Cents /\ after = in.amount - late - extra
  BY <1>3, <1>4, CentsAddUp DEF E!AfterCharges
<1>6. most \in Cents /\ most <= o.balance /\ most <= after
  BY <1>1, <1>5, CentsOfAPart
<1>7. /\ o.balance \in Nat /\ o.late \in Nat /\ o.extra \in Nat /\ in.amount \in Nat
      /\ late \in Nat /\ extra \in Nat /\ after \in Nat /\ most \in Nat
  BY <1>1, <1>2, <1>4, <1>5, <1>6 DEF Cents
<1>8. interest \in Nat /\ interest <= most
  <2>1. in.interest = E!Omitted \/ in.interest \in Nat
    BY <1>1 DEF OptionalCents, Cents
  <2> QED
    BY <1>7, <2>1, DeskInterest DEF E!InterestPart, E!Lesser
<1>9. principal = most - interest
  <2> DEFINE room   == o.balance - interest
             left   == after - interest
             wanted == E!Part(in.principal, room, left)
  <2>1. room \in Nat /\ left \in Nat
    BY <1>6, <1>7, <1>8
  <2>2. in.principal = E!Omitted \/ in.principal \in Nat
    BY <1>1 DEF OptionalCents, Cents
  <2>3. wanted \in Nat /\ wanted <= room /\ wanted <= left
    BY <2>1, <2>2 DEF E!Part, E!Lesser, E!Omitted
  <2>4. wanted + E!Lesser(room - wanted, left - wanted) = E!Lesser(room, left)
    BY <2>1, <2>3 DEF E!Lesser
  <2>5. E!Lesser(room, left) = most - interest
    BY <1>7, <1>8, <2>1 DEF E!Lesser
  <2> QED
    BY <2>4, <2>5 DEF E!PrincipalPart
<1>10. /\ o.balance - principal - interest = o.balance - most /\ o.balance - most \in Cents
       /\ o.late - late \in Cents /\ o.extra - extra \in Cents
  <2>1. o.balance - most \in Cents
    BY <1>1, <1>6, CentsAddUp
  <2>2. o.late - late \in Cents
    BY <1>1, <1>2, CentsAddUp
  <2>3. o.extra - extra \in Cents
    BY <1>1, <1>4, CentsAddUp
  <2> QED
    BY <1>7, <1>8, <1>9, <2>1, <2>2, <2>3
<1>11. /\ o.balance - most \in Nat /\ o.late - late \in Nat /\ o.extra - extra \in Nat
  BY <1>10 DEF Cents
<1>12. E!Rest(o, in) = [balance |-> o.balance - most, late |-> o.late - late,
                        extra |-> o.extra - extra]
  BY <1>10 DEF E!Rest
<1>13. E!OwedAfter(o, in) = [balance |-> o.balance - most, late |-> o.late - late,
                             extra |-> o.extra - extra]
  BY <1>10, <1>11, <1>12, RoundedToCents DEF E!OwedAfter
<1>14. E!OwedAfter(o, in) \in CentsOwed
  BY <1>10, <1>13 DEF CentsOwed
<1>15. E!Unplaced(o, in) = after - most
  BY <1>7, <1>8, <1>9 DEF E!Unplaced
<1>16. E!BreakdownOf(o, in) \in CentsSplit
  <2>1. principal \in Nat
    BY <1>7, <1>8, <1>9
  <2>2. E!TotalDue(E!Rest(o, in)) \in Nat
    BY <1>11, <1>12 DEF E!TotalDue
  <2>3. /\ E!ToCents(in.amount) \in Cents /\ E!ToCents(principal) \in Cents
        /\ E!ToCents(interest) \in Cents /\ E!ToCents(late) \in Cents
        /\ E!ToCents(extra) \in Cents /\ E!RemainingAfter(o, in) \in Cents
    BY <1>7, <1>8, <2>1, <2>2, RoundedToCents DEF E!RemainingAfter
  <2> QED
    BY <2>3 DEF E!BreakdownOf, CentsSplit
<1>17. E!TotalDue(E!OwedAfter(o, in)) = E!TotalDue(o) - in.amount + E!Unplaced(o, in)
  BY <1>5, <1>7, <1>13, <1>15 DEF E!TotalDue
<1> QED
  BY <1>6, <1>7, <1>14, <1>15, <1>16, <1>17

LEMMA PaymentGivesBack ==
    ASSUME NEW o \in CentsOwed, NEW b \in CentsSplit
    PROVE  E!Reverted(o, b) \in CentsOwed
<1>1. /\ o.balance \in Cents /\ o.late \in Cents /\ o.extra \in Cents
      /\ b.principal \in Cents /\ b.interest \in Cents /\ b.late \in Cents /\ b.extra \in Cents
  BY DEF CentsOwed, CentsSplit
<1>2. o.balance + b.principal \in Cents
  BY <1>1, CentsAddUp
<1>3. o.balance + b.principal + b.interest \in Cents /\ o.late + b.late \in Cents
      /\ o.extra + b.extra \in Cents
  BY <1>1, <1>2, CentsAddUp
<1> QED
  BY <1>3 DEF E!Reverted, CentsOwed
-----------------------------------------------------------------------------
(* The screen of the payments: what it shows, types and sends.               *)

PaymentRow == Posted \cup {E!Blank}
SomeDebt == DeskDebts \cup {NoDebt}
SomePayment == Payments \cup {NoPayment}
Screens == [rows : [DeskDebts -> CentsRow], ledger : [Payments -> PaymentRow]]
Submits == [op : {"create", "update"}, payment : SomePayment, in : CentsEntry,
            stage : E!InFlight, default : SomeDebt, base : CentsOwed, preview : Nat]
Removals == [op : {"delete"}, payment : Payments, stage : E!InFlight, default : SomeDebt,
             clears : BOOLEAN]
DeskTyped ==
    /\ rows \in [DeskDebts -> CentsRow] /\ ledger \in [Payments -> PaymentRow] /\ desk \in Screens
    /\ linked \in SomeDebt /\ selected \in SomePayment /\ capturing \in CentsEntry
    /\ filter \in SomeDebt /\ submit \in Submits \cup {E!Quiet}
    /\ removal \in Removals \cup {E!Quiet} /\ stale \in BOOLEAN

\* What the screen lists was posted, and to the debt it is listed under.
ListsThePosted ==
    \A p \in Payments : desk.ledger[p] \in Posted =>
                          ledger[p] \in Posted /\ ledger[p].debt = desk.ledger[p].debt
CorrectsThePosted ==
    selected # NoPayment => ledger[selected] \in Posted /\ capturing.debt = ledger[selected].debt
LeftOf(o, amount) == IF E!TotalDue(o) - amount < 0 THEN 0 ELSE E!TotalDue(o) - amount
SendsWhatItShows ==
    submit # E!Quiet =>
      /\ submit.in.debt \in DeskDebts /\ (submit.op = "update" => submit.payment \in Payments)
      /\ submit.preview = LeftOf(submit.base, submit.in.amount)
DeskInv == DeskTyped /\ ListsThePosted /\ CorrectsThePosted /\ SendsWhatItShows

LEMMA NothingIsSent ==
    /\ \A c \in Submits \cup Removals : c # E!Quiet
    /\ E!Quiet.op = "none"
<1>1. E!Quiet.op = "none"
  BY DEF E!Quiet
<1>2. \A c \in Submits \cup Removals : c.op # "none"
  BY DEF Submits, Removals
<1> QED
  BY <1>1, <1>2

LEMMA BlankIsNotPosted == E!Blank \notin Posted /\ E!Blank.state = "NONE"
<1>1. E!Blank.state = "NONE"
  BY DEF E!Blank
<1>2. \A r \in Posted : r.state # "NONE"
  BY DEF Posted
<1> QED
  BY <1>1, <1>2

LEMMA LiveIsPosted ==
    ASSUME NEW r \in PaymentRow
    PROVE  /\ r.state = "LIVE" => r \in Posted
           /\ r.state # "NONE" <=> r \in Posted
<1>1. \A q \in Posted : q.state # "NONE"
  BY DEF Posted
<1> QED
  BY <1>1, BlankIsNotPosted DEF PaymentRow

LEMMA ZeroIsCents == 0 \in Cents
<1>1. Cent \in Cents
  <2>1. Cent \in Nat /\ Cent = Cent * 1
    BY DeskAssumption
  <2> QED
    BY <2>1, CentsAreMultiples
<1> QED
  BY <1>1, CentsAddUp

LEMMA FirstIsListed ==
    ASSUME NEW options, options \subseteq DeskDebts, options # {}
    PROVE  (CHOOSE d \in options : \A e \in options : Index[d] <= Index[e]) \in options
<1> DEFINE Order == {xy \in DeskDebts \X DeskDebts : Index[xy[1]] <= Index[xy[2]]}
<1>1. IsFiniteSet(options)
  BY DeskAssumption, FS_Subset
<1>2. \A d \in options : Index[d] \in Int
  BY DeskAssumption
<1>3. \A x, y \in options : <<x, y>> \in Order <=> Index[x] <= Index[y]
  OBVIOUS
<1> HIDE DEF Order
<1>4. ASSUME NEW x \in options, NEW y \in options
      PROVE  x = y \/ <<x, y>> \in Order \/ <<y, x>> \in Order
  <2>1. Index[x] \in Int /\ Index[y] \in Int
    BY <1>2
  <2>2. Index[x] <= Index[y] \/ Index[y] <= Index[x]
    BY <2>1
  <2> QED
    BY <1>3, <2>2, Zenon
<1>5. \A x, y, z \in options : <<x, y>> \in Order /\ <<y, z>> \in Order => <<x, z>> \in Order
  BY <1>2, <1>3
<1>6. PICK x \in options : \A y \in options \ {x} : <<x, y>> \in Order
  BY <1>1, <1>4, <1>5, SomeIsFirst
<1>7. \A y \in options : Index[x] <= Index[y]
  <2> SUFFICES ASSUME NEW y \in options PROVE Index[x] <= Index[y]
    OBVIOUS
  <2>1. CASE y = x
    BY <1>2, <2>1
  <2>2. CASE y # x
    BY <1>3, <1>6, <2>2, Zenon
  <2> QED
    BY <2>1, <2>2
<1> QED
  BY <1>7

LEMMA FirstIsADebt ==
    /\ E!debtOptions \subseteq DeskDebts /\ E!first \in SomeDebt
    /\ (E!debtOptions)' \subseteq DeskDebts /\ E!first' \in SomeDebt
<1>1. E!debtOptions \subseteq DeskDebts /\ (E!debtOptions)' \subseteq DeskDebts
  BY DEF E!debtOptions
<1>2. E!first \in SomeDebt
  BY <1>1, FirstIsListed DEF E!first, SomeDebt
<1>3. E!first' \in SomeDebt
  BY <1>1, FirstIsListed DEF E!first, SomeDebt
<1> QED
  BY <1>1, <1>2, <1>3

LEMMA LatestIsCents ==
    ASSUME NEW d, NEW book \in [Payments -> PaymentRow]
    PROVE  E!Latest(d, book) \in Cents
<1> DEFINE live == {p \in Payments : book[p].state = "LIVE" /\ book[p].debt = d}
           Order == {xy \in Payments \X Payments : xy[2] <= xy[1]}
<1>1. CASE live = {}
  BY <1>1, ZeroIsCents DEF E!Latest
<1>2. CASE live # {}
  <2>1. IsFiniteSet(live) /\ live \subseteq Payments /\ Payments \subseteq Int
    BY DeskAssumption, FS_Subset
  <2>2. \A x, y \in live : <<x, y>> \in Order <=> y <= x
    OBVIOUS
  <2>3. \A x \in live : x \in Int
    BY <2>1
  <2>4. \A p \in live : book[p] \in Posted
    BY LiveIsPosted
  <2>5. E!Latest(d, book) = book[CHOOSE p \in live : \A q \in live : q <= p].split.amount
    BY <1>2 DEF E!Latest
  <2> HIDE DEF Order, live
  <2>6. ASSUME NEW x \in live, NEW y \in live
        PROVE  x = y \/ <<x, y>> \in Order \/ <<y, x>> \in Order
    <3>1. x \in Int /\ y \in Int
      BY <2>3
    <3>2. y <= x \/ x <= y
      BY <3>1
    <3> QED
      BY <2>2, <3>2, Zenon
  <2>7. \A x, y, z \in live : <<x, y>> \in Order /\ <<y, z>> \in Order => <<x, z>> \in Order
    BY <2>2, <2>3
  <2>8. PICK x \in live : \A y \in live \ {x} : <<x, y>> \in Order
    BY <1>2, <2>1, <2>6, <2>7, SomeIsFirst
  <2>9. \A y \in live : y <= x
    <3> SUFFICES ASSUME NEW y \in live PROVE y <= x
      OBVIOUS
    <3>1. CASE y = x
      BY <2>3, <3>1
    <3>2. CASE y # x
      BY <2>2, <2>8, <3>2, Zenon
    <3> QED
      BY <3>1, <3>2
  <2>10. (CHOOSE p \in live : \A q \in live : q <= p) \in live
    BY <2>9
  <2> QED
    BY <2>4, <2>5, <2>10 DEF Posted, CentsSplit
<1> QED
  BY <1>1, <1>2

LEMMA PickedIsTyped ==
    ASSUME NEW options, options \subseteq DeskDebts, NEW one \in SomeDebt, NEW chosen,
           NEW what \in CentsEntry
    PROVE  /\ E!Picked(options, one, chosen, what) \in CentsEntry
           /\ chosen # NoPayment => E!Picked(options, one, chosen, what) = what
BY DEF E!Picked, CentsEntry, SomeDebt

LEMMA EmptyIsTyped ==
    ASSUME NEW d \in SomeDebt PROVE E!emptyPayment(d) \in CentsEntry
BY ZeroIsCents DEF E!emptyPayment, CentsEntry, OptionalCents, SomeDebt

LEMMA ResetIsTyped ==
    ASSUME linked \in SomeDebt, NEW default \in SomeDebt, E!resetForm(default)
    PROVE  selected' = NoPayment /\ capturing' \in CentsEntry
<1> DEFINE d == IF linked # NoDebt THEN linked ELSE default
<1>1. d \in SomeDebt
  OBVIOUS
<1>2. E!emptyPayment(d) \in CentsEntry
  BY <1>1, EmptyIsTyped
<1>3. selected' = NoPayment
      /\ capturing' = E!Picked(E!debtOptions, E!first, NoPayment, E!emptyPayment(d))
  BY DEF E!resetForm
<1> QED
  BY <1>2, <1>3, FirstIsADebt, PickedIsTyped

\* Typing, choosing and correcting change the form alone, and a correction keeps the debt its
\* payment was posted to.
LEMMA DeskFormsKeep ==
    ASSUME DeskInv, E!Choose \/ E!Type \/ E!Quick \/ E!Correct \/ E!Clear
    PROVE  DeskInv'
<1>1. /\ DeskTyped /\ capturing \in CentsEntry /\ selected \in SomePayment /\ linked \in SomeDebt
      /\ desk \in Screens
  BY DEF DeskInv, DeskTyped
<1>2. UNCHANGED <<rows, ledger, desk, linked, filter, submit, removal, stale>>
  BY DEF E!Choose, E!Type, E!Quick, E!Correct, E!Clear, E!OnScreen
<1>3. ASSUME capturing' \in CentsEntry, selected' \in SomePayment, CorrectsThePosted'
      PROVE  DeskInv'
  BY <1>1, <1>2, <1>3 DEF DeskInv, DeskTyped, ListsThePosted, SendsWhatItShows
<1>4. CASE E!Choose
  <2>1. PICK d \in E!debtOptions \cup {NoDebt} : capturing' = [capturing EXCEPT !.debt = d]
    BY <1>4 DEF E!Choose
  <2>2. d \in SomeDebt /\ selected' = NoPayment /\ selected = NoPayment
    BY <1>4, FirstIsADebt DEF E!Choose, E!CanChoose, SomeDebt
  <2>3. capturing' \in CentsEntry
    BY <1>1, <2>1, <2>2 DEF CentsEntry, SomeDebt
  <2> QED
    BY <1>1, <1>3, <2>2, <2>3 DEF CorrectsThePosted
<1>5. CASE E!Type
  <2>1. PICK e \in Entries : capturing' = [capturing EXCEPT !.amount = e.amount,
                                             !.interest = e.interest, !.late = e.late]
    BY <1>5 DEF E!Type
  <2>2. e.amount \in Cents /\ e.interest \in OptionalCents /\ e.late \in OptionalCents
    BY DeskAssumption
  <2>3. capturing' \in CentsEntry /\ capturing'.debt = capturing.debt
    BY <1>1, <2>1, <2>2 DEF CentsEntry
  <2>4. selected' = selected
    BY <1>5 DEF E!Type
  <2> QED
    BY <1>1, <1>2, <1>3, <2>3, <2>4 DEF DeskInv, CorrectsThePosted
<1>6. CASE E!Quick
  <2>1. PICK amount \in E!QuickAmounts : E!applyQuickAmount(amount)
    BY <1>6 DEF E!Quick
  <2>2. amount \in Cents
    <3>1. E!selectedDebt # NoDebt /\ E!selectedDebt \in DeskDebts
      BY <2>1, FirstIsADebt DEF E!QuickAmounts, E!selectedDebt
    <3>2. desk.rows[E!selectedDebt] \in CentsRow
      BY <1>1, <3>1 DEF Screens
    <3> DEFINE shownRow == desk.rows[E!selectedDebt]
    <3>3. /\ shownRow.owed \in CentsOwed /\ shownRow.minimum \in Cents /\ shownRow.last \in Cents
          /\ shownRow.owed.balance \in Cents /\ shownRow.owed.late \in Cents
          /\ shownRow.owed.extra \in Cents
      BY <3>2 DEF CentsRow, CentsOwed
    <3>4. E!TotalDue(shownRow.owed) \in Cents
      BY <3>3, CentsAddUp DEF E!TotalDue
    <3> QED
      BY <2>1, <3>1, <3>3, <3>4 DEF E!QuickAmounts, E!effectiveBalance
  <2>3. capturing' \in CentsEntry /\ capturing'.debt = capturing.debt
    <3>1. capturing.debt \in SomeDebt
      BY <1>1 DEF CentsEntry, SomeDebt
    <3>2. E!emptyPayment(capturing.debt) \in CentsEntry
          /\ E!emptyPayment(capturing.debt).debt = capturing.debt
      BY <3>1, EmptyIsTyped DEF E!emptyPayment
    <3>3. ASSUME NEW what \in CentsEntry
          PROVE  /\ [what EXCEPT !.amount = amount] \in CentsEntry
                 /\ [what EXCEPT !.amount = amount].debt = what.debt
      BY <2>2 DEF CentsEntry
    <3>4. \/ capturing' = [E!emptyPayment(capturing.debt) EXCEPT !.amount = amount]
          \/ capturing' = [capturing EXCEPT !.amount = amount]
      BY <2>1 DEF E!applyQuickAmount
    <3> QED
      BY <1>1, <3>2, <3>3, <3>4
  <2>4. selected' = selected
    BY <1>6 DEF E!Quick
  <2> QED
    BY <1>1, <1>2, <1>3, <2>3, <2>4 DEF DeskInv, CorrectsThePosted
<1>7. CASE E!Correct
  <2>1. PICK p \in E!filteredPayments : selected' = p /\ capturing' = E!paymentToForm(p)
    BY <1>7 DEF E!Correct
  <2>2. p \in Payments /\ desk.ledger[p] \in PaymentRow /\ desk.ledger[p].state = "LIVE"
    BY <1>1, <2>1 DEF E!filteredPayments, E!Listed, Screens
  <2>3. desk.ledger[p] \in Posted
    BY <2>2, LiveIsPosted
  <2>4. ledger[p] \in Posted /\ ledger[p].debt = desk.ledger[p].debt
    BY <2>2, <2>3 DEF DeskInv, ListsThePosted
  <2>5. capturing' \in CentsEntry /\ capturing'.debt = desk.ledger[p].debt
    BY <2>1, <2>3 DEF E!paymentToForm, Posted, CentsSplit, CentsEntry, OptionalCents
  <2> QED
    BY <1>2, <1>3, <2>1, <2>2, <2>4, <2>5 DEF CorrectsThePosted, SomePayment
<1>8. CASE E!Clear
  <2>1. E!resetForm(E!first)
    BY <1>8 DEF E!Clear
  <2>2. selected' = NoPayment /\ capturing' \in CentsEntry
    BY <1>1, <2>1, FirstIsADebt, ResetIsTyped
  <2> QED
    BY <1>3, <2>2 DEF CorrectsThePosted, SomePayment
<1> QED
  BY <1>4, <1>5, <1>6, <1>7, <1>8

\* What is sent is what the screen shows.
LEMMA DeskRequestsKeep ==
    ASSUME DeskInv, E!Filter \/ E!Submit \/ E!Delete
    PROVE  DeskInv'
<1>1. /\ DeskTyped /\ capturing \in CentsEntry /\ selected \in SomePayment /\ linked \in SomeDebt
      /\ desk \in Screens
  BY DEF DeskInv, DeskTyped
<1>2. UNCHANGED <<rows, ledger, desk, linked, selected, capturing, stale>>
  BY DEF E!Filter, E!Submit, E!Delete
<1>3. CASE E!Filter
  <2>1. filter' \in SomeDebt /\ UNCHANGED <<submit, removal>>
    BY <1>3, FirstIsADebt DEF E!Filter, SomeDebt
  <2> QED
    BY <1>1, <1>2, <2>1
       DEF DeskInv, DeskTyped, ListsThePosted, CorrectsThePosted, SendsWhatItShows
<1>4. CASE E!Submit
  <2> DEFINE base == desk.rows[E!selectedDebt].owed
  <2>1. /\ E!selectedDebt # NoDebt /\ UNCHANGED <<filter, removal>>
        /\ submit' = [op |-> IF selected = NoPayment THEN "create" ELSE "update",
                      payment |-> selected, in |-> capturing, stage |-> "sent",
                      default |-> E!first, base |-> base, preview |-> E!estimatedRemaining]
    BY <1>4 DEF E!Submit
  <2>2. E!selectedDebt = capturing.debt /\ capturing.debt \in DeskDebts
    BY <2>1, FirstIsADebt DEF E!selectedDebt
  <2>3. base \in CentsOwed
    BY <1>1, <2>2 DEF Screens, CentsRow
  <2>4. E!estimatedRemaining = LeftOf(base, capturing.amount)
    BY DEF E!estimatedRemaining, LeftOf, E!effectiveBalance
  <2>5. LeftOf(base, capturing.amount) \in Nat
    BY <1>1, <2>3 DEF LeftOf, E!TotalDue, CentsOwed, Cents, CentsEntry
  <2>6. submit' \in Submits
    <3>1. (IF selected = NoPayment THEN "create" ELSE "update") \in {"create", "update"}
          /\ "sent" \in E!InFlight
      BY DEF E!InFlight
    <3> QED
      BY <1>1, <2>1, <2>3, <2>4, <2>5, <3>1, FirstIsADebt DEF Submits
  <2>7. SendsWhatItShows'
    BY <1>1, <2>1, <2>2, <2>4 DEF SendsWhatItShows, SomePayment, LeftOf
  <2>8. DeskTyped'
    BY <1>1, <1>2, <2>1, <2>6 DEF DeskTyped
  <2> QED
    BY <1>2, <2>7, <2>8 DEF DeskInv, ListsThePosted, CorrectsThePosted
<1>5. CASE E!Delete
  <2>1. PICK p \in E!filteredPayments :
          removal' = [op |-> "delete", payment |-> p, stage |-> "sent", default |-> E!first,
                      clears |-> selected = p]
    BY <1>5 DEF E!Delete
  <2>2. p \in Payments /\ (selected = p) \in BOOLEAN /\ "sent" \in E!InFlight
    BY <2>1 DEF E!filteredPayments, E!Listed, E!InFlight
  <2>3. removal' \in Removals
    BY <2>1, <2>2, FirstIsADebt DEF Removals
  <2>4. UNCHANGED <<filter, submit>>
    BY <1>5 DEF E!Delete
  <2> QED
    BY <1>1, <1>2, <2>3, <2>4
       DEF DeskInv, DeskTyped, ListsThePosted, CorrectsThePosted, SendsWhatItShows
<1> QED
  BY <1>3, <1>4, <1>5

\* What the server stores is money and keeps the debt of each payment.
LEMMA DeskStores ==
    ASSUME DeskInv, NEW d \in DeskDebts, NEW owed \in CentsOwed, NEW p \in Payments,
           NEW what \in Posted, E!Store(d, owed, p, what),
           ledger[p] \in Posted => what.debt = ledger[p].debt
    PROVE  /\ rows' \in [DeskDebts -> CentsRow] /\ ledger' \in [Payments -> PaymentRow]
           /\ \A q \in Payments : ledger[q] \in Posted =>
                                    ledger'[q] \in Posted /\ ledger'[q].debt = ledger[q].debt
           /\ rows'[d].owed = owed
<1>1. rows \in [DeskDebts -> CentsRow] /\ ledger \in [Payments -> PaymentRow]
  BY DEF DeskInv, DeskTyped
<1>2. /\ ledger' = [ledger EXCEPT ![p] = what]
      /\ rows' = [rows EXCEPT ![d].owed = owed, ![d].last = E!Latest(d, ledger')]
  BY DEF E!Store
<1>3. ledger' \in [Payments -> PaymentRow]
  BY <1>1, <1>2 DEF PaymentRow
<1>4. \A q \in Payments : ledger[q] \in Posted =>
                            ledger'[q] \in Posted /\ ledger'[q].debt = ledger[q].debt
  BY <1>1, <1>2
<1>5. E!Latest(d, ledger') \in Cents
  BY <1>3, LatestIsCents
<1> HIDE DEF E!Latest
<1>6. /\ [rows[d] EXCEPT !.owed = owed, !.last = E!Latest(d, ledger')] \in CentsRow
      /\ [rows[d] EXCEPT !.owed = owed, !.last = E!Latest(d, ledger')].owed = owed
  BY <1>1, <1>5 DEF CentsRow
<1>7. rows' = [rows EXCEPT ![d] = [rows[d] EXCEPT !.owed = owed, !.last = E!Latest(d, ledger')]]
  BY <1>1, <1>2, <1>6 DEF CentsRow
<1> QED
  BY <1>1, <1>3, <1>4, <1>6, <1>7

\* After an answer of the server the screen still tells of what was posted.
LEMMA DeskServed ==
    ASSUME DeskInv, UNCHANGED <<desk, linked, selected, capturing, filter, stale>>,
           rows' \in [DeskDebts -> CentsRow], ledger' \in [Payments -> PaymentRow],
           \A q \in Payments : ledger[q] \in Posted =>
                                 ledger'[q] \in Posted /\ ledger'[q].debt = ledger[q].debt,
           \/ submit' = submit
           \/ \E s \in E!InFlight : submit \in Submits /\ submit' = [submit EXCEPT !.stage = s],
           \/ removal' = removal
           \/ \E s \in E!InFlight : removal \in Removals /\ removal' = [removal EXCEPT !.stage = s]
    PROVE  DeskInv'
<1>1. DeskTyped /\ selected \in SomePayment
  BY DEF DeskInv, DeskTyped
<1>2. /\ submit' \in Submits \cup {E!Quiet} /\ SendsWhatItShows'
  <2>1. CASE submit' = submit
    BY <1>1, <2>1 DEF DeskInv, DeskTyped, SendsWhatItShows, LeftOf
  <2>2. CASE \E s \in E!InFlight : submit \in Submits /\ submit' = [submit EXCEPT !.stage = s]
    <3>1. /\ submit' \in Submits /\ submit'.in = submit.in /\ submit'.op = submit.op
          /\ submit'.payment = submit.payment /\ submit'.preview = submit.preview
          /\ submit'.base = submit.base
      BY <2>2 DEF Submits
    <3>2. submit # E!Quiet
      BY <2>2, NothingIsSent
    <3> QED
      BY <3>1, <3>2 DEF DeskInv, SendsWhatItShows, LeftOf
  <2> QED
    BY <2>1, <2>2
<1>3. removal' \in Removals \cup {E!Quiet}
  BY <1>1 DEF DeskTyped, Removals
<1>4. DeskTyped'
  BY <1>1, <1>2, <1>3 DEF DeskTyped
<1>5. ListsThePosted' /\ CorrectsThePosted'
  BY <1>1 DEF DeskInv, ListsThePosted, CorrectsThePosted, SomePayment
<1> QED
  BY <1>2, <1>4, <1>5 DEF DeskInv

LEMMA DeskServicesKeep ==
    ASSUME DeskInv, E!ServeCreate \/ E!ServeUpdate \/ E!ServeDelete
    PROVE  DeskInv'
<1>1. /\ DeskTyped /\ rows \in [DeskDebts -> CentsRow] /\ ledger \in [Payments -> PaymentRow]
      /\ \A s \in {"sent", "done", "refused"} : s \in E!InFlight
      /\ UNCHANGED <<desk, linked, selected, capturing, filter, stale>>
  BY DEF DeskInv, DeskTyped, E!InFlight, E!ServeCreate, E!ServeUpdate, E!ServeDelete
<1>2. \A d \in DeskDebts : rows[d].owed \in CentsOwed
  BY <1>1 DEF CentsRow
<1>3. CASE E!ServeCreate
  <2>1. submit.op = "create" /\ removal' = removal
    BY <1>3 DEF E!ServeCreate
  <2>2. submit \in Submits /\ submit.in \in CentsEntry /\ submit.in.debt \in DeskDebts
    <3>1. submit # E!Quiet
      BY <2>1, NothingIsSent
    <3> QED
      BY <3>1 DEF DeskInv, DeskTyped, SendsWhatItShows, Submits
  <2>3. CASE E!Refuse
    BY <1>1, <2>1, <2>2, <2>3, DeskServed DEF E!Refuse
  <2>4. CASE ~E!Refuse
    <3> DEFINE d == submit.in.debt
               what == [state |-> "LIVE", debt |-> d,
                        split |-> E!BreakdownOf(rows[d].owed, submit.in)]
    <3>1. PICK p \in Payments :
            /\ ledger[p].state = "NONE"
            /\ E!Store(d, E!OwedAfter(rows[d].owed, submit.in), p, what)
            /\ submit' = [submit EXCEPT !.stage = "done"]
      BY <1>3, <2>4 DEF E!ServeCreate
    <3>2. ledger[p] \notin Posted
      BY <1>1, <3>1, LiveIsPosted
    <3>3. E!OwedAfter(rows[d].owed, submit.in) \in CentsOwed /\ what \in Posted
      BY <1>2, <2>2, PaymentTakes DEF Posted
    <3> HIDE DEF d, what
    <3>4. d \in DeskDebts
      BY <2>2 DEF d
    <3> QED
      BY <1>1, <2>1, <2>2, <3>1, <3>2, <3>3, <3>4, DeskStores, DeskServed
  <2> QED
    BY <2>3, <2>4
<1>4. CASE E!ServeUpdate
  <2>1. submit.op = "update" /\ removal' = removal
    BY <1>4 DEF E!ServeUpdate
  <2>2. /\ submit \in Submits /\ submit.in \in CentsEntry /\ submit.in.debt \in DeskDebts
        /\ submit.payment \in Payments
    <3>1. submit # E!Quiet
      BY <2>1, NothingIsSent
    <3> QED
      BY <2>1, <3>1 DEF DeskInv, DeskTyped, SendsWhatItShows, Submits
  <2>3. CASE E!Refuse
    BY <1>1, <2>1, <2>2, <2>3, DeskServed DEF E!Refuse
  <2>4. CASE ~E!Refuse
    <3> DEFINE p == submit.payment
               d == submit.in.debt
               back == E!Reverted(rows[d].owed, ledger[p].split)
               what == [ledger[p] EXCEPT !.split = E!BreakdownOf(back, submit.in)]
    <3>1. /\ ledger[p].state = "LIVE" /\ ledger[p].debt = d
          /\ E!Store(ledger[p].debt, E!OwedAfter(back, submit.in), p, what)
          /\ submit' = [submit EXCEPT !.stage = "done"]
      BY <1>4, <2>4 DEF E!ServeUpdate
    <3>2. ledger[p] \in Posted /\ ledger[p].split \in CentsSplit
      BY <1>1, <2>2, <3>1, LiveIsPosted DEF Posted
    <3>3. back \in CentsOwed
      BY <1>2, <2>2, <3>2, PaymentGivesBack
    <3>4. E!OwedAfter(back, submit.in) \in CentsOwed /\ E!BreakdownOf(back, submit.in) \in CentsSplit
      BY <2>2, <3>3, PaymentTakes
    <3>5. what \in Posted /\ what.debt = ledger[p].debt
      BY <3>2, <3>4 DEF Posted
    <3>6. p \in Payments /\ d \in DeskDebts /\ E!Store(d, E!OwedAfter(back, submit.in), p, what)
      BY <2>2, <3>1
    <3> HIDE DEF d, what, p, back
    <3> QED
      BY <1>1, <2>1, <2>2, <3>1, <3>4, <3>5, <3>6, DeskStores, DeskServed
  <2> QED
    BY <2>3, <2>4
<1>5. CASE E!ServeDelete
  <2>1. removal.op = "delete" /\ submit' = submit
    BY <1>5 DEF E!ServeDelete
  <2>2. removal \in Removals /\ removal.payment \in Payments
    <3>1. removal # E!Quiet
      BY <2>1, NothingIsSent
    <3> QED
      BY <3>1 DEF DeskInv, DeskTyped, Removals
  <2>3. CASE removal' = [removal EXCEPT !.stage = "refused"] /\ UNCHANGED <<rows, ledger>>
    BY <1>1, <2>1, <2>2, <2>3, DeskServed
  <2>4. CASE ~(removal' = [removal EXCEPT !.stage = "refused"] /\ UNCHANGED <<rows, ledger>>)
    <3> DEFINE p == removal.payment
               d == ledger[p].debt
               owed == E!Reverted(rows[d].owed, ledger[p].split)
               what == [ledger[p] EXCEPT !.state = "GONE"]
    <3>1. /\ ledger[p].state = "LIVE" /\ E!Store(d, owed, p, what)
          /\ removal' = [removal EXCEPT !.stage = "done"]
      BY <1>5, <2>4 DEF E!ServeDelete
    <3>2. ledger[p] \in Posted /\ ledger[p].split \in CentsSplit /\ d \in DeskDebts
      BY <1>1, <2>2, <3>1, LiveIsPosted DEF Posted
    <3>3. owed \in CentsOwed
      BY <1>2, <3>2, PaymentGivesBack
    <3>4. what \in Posted /\ what.debt = ledger[p].debt
      BY <3>2 DEF Posted
    <3>5. p \in Payments
      BY <2>2
    <3> HIDE DEF d, what, p, owed
    <3> QED
      BY <1>1, <2>1, <2>2, <3>1, <3>2, <3>3, <3>4, <3>5, DeskStores, DeskServed
  <2> QED
    BY <2>3, <2>4
<1> QED
  BY <1>3, <1>4, <1>5

\* An answer empties the form or leaves it, and a refresh shows what is stored.
LEMMA DeskAnswersKeep ==
    ASSUME DeskInv, \/ E!Saved \/ E!NotSaved \/ E!Deleted \/ E!NotDeleted \/ E!Refresh
                    \/ E!Elsewhere
    PROVE  DeskInv'
<1>1. /\ DeskTyped /\ rows \in [DeskDebts -> CentsRow] /\ ledger \in [Payments -> PaymentRow]
      /\ capturing \in CentsEntry /\ selected \in SomePayment /\ linked \in SomeDebt
      /\ submit \in Submits \cup {E!Quiet} /\ removal \in Removals \cup {E!Quiet}
  BY DEF DeskInv, DeskTyped
<1>2. CASE E!Saved \/ E!NotSaved \/ E!Deleted \/ E!NotDeleted
  <2>1. /\ UNCHANGED <<rows, ledger, desk, linked, filter>> /\ stale' \in BOOLEAN
        /\ submit' \in {submit, E!Quiet} /\ removal' \in {removal, E!Quiet}
    BY <1>1, <1>2 DEF E!Saved, E!NotSaved, E!Deleted, E!NotDeleted, DeskTyped
  <2>2. \/ UNCHANGED <<selected, capturing>>
        \/ \E default \in SomeDebt : E!resetForm(default)
    <3>1. CASE E!Saved
      BY <1>1, <3>1 DEF E!Saved, Submits
    <3>2. CASE E!Deleted
      BY <1>1, <3>2 DEF E!Deleted, Removals
    <3>3. CASE E!NotSaved \/ E!NotDeleted
      BY <3>3 DEF E!NotSaved, E!NotDeleted
    <3> QED
      BY <1>2, <3>1, <3>2, <3>3
  <2>3. /\ capturing' \in CentsEntry /\ selected' \in SomePayment
        /\ UNCHANGED <<selected, capturing>> \/ selected' = NoPayment
    BY <1>1, <2>2, ResetIsTyped DEF SomePayment
  <2>4. DeskTyped'
    BY <1>1, <2>1, <2>3 DEF DeskTyped
  <2> QED
    BY <2>1, <2>3, <2>4
       DEF DeskInv, ListsThePosted, CorrectsThePosted, SendsWhatItShows, LeftOf
<1>3. CASE E!Refresh
  <2>1. /\ desk' = [rows |-> rows, ledger |-> ledger] /\ stale' = FALSE
        /\ capturing' = E!Picked(E!debtOptions', E!first', selected, capturing)
        /\ UNCHANGED <<rows, ledger, linked, selected, filter, submit, removal>>
    BY <1>3 DEF E!Refresh
  <2>2. /\ capturing' \in CentsEntry /\ (selected # NoPayment => capturing' = capturing)
    BY <1>1, <2>1, FirstIsADebt, PickedIsTyped
  <2>3. desk' \in Screens /\ stale' \in BOOLEAN
    BY <1>1, <2>1, Zenon DEF Screens
  <2>4. DeskTyped'
    BY <1>1, <2>1, <2>2, <2>3 DEF DeskTyped
  <2> QED
    BY <2>1, <2>2, <2>4
       DEF DeskInv, ListsThePosted, CorrectsThePosted, SendsWhatItShows, LeftOf
<1>4. CASE E!Elsewhere
  <2>1. UNCHANGED <<ledger, desk, linked, selected, capturing, filter, submit, removal, stale>>
    BY <1>4 DEF E!Elsewhere
  <2>2. PICK d \in DeskDebts : \/ rows' = [rows EXCEPT ![d].owed.late = @ + Cent]
                               \/ rows' = [rows EXCEPT ![d].archived = TRUE]
    BY <1>4 DEF E!Elsewhere
  <2>3. rows[d] \in CentsRow /\ rows[d].owed \in CentsOwed /\ rows[d].owed.late \in Cents
    BY <1>1 DEF CentsRow, CentsOwed
  <2>4. rows[d].owed.late + Cent \in Cents
    BY <2>3, CentsAddUp
  <2>5. [rows[d].owed EXCEPT !.late = rows[d].owed.late + Cent] \in CentsOwed
    BY <2>3, <2>4 DEF CentsOwed
  <2>6. rows' \in [DeskDebts -> CentsRow]
    BY <1>1, <2>2, <2>3, <2>5 DEF CentsRow
  <2>7. DeskTyped'
    BY <1>1, <2>1, <2>6 DEF DeskTyped
  <2> QED
    BY <2>1, <2>7
       DEF DeskInv, ListsThePosted, CorrectsThePosted, SendsWhatItShows, LeftOf
<1> QED
  BY <1>2, <1>3, <1>4

LEMMA DeskStep == DeskInv /\ [E!Next]_deskVars => DeskInv'
<1>1. DeskInv /\ UNCHANGED deskVars => DeskInv'
  BY DEF DeskInv, DeskTyped, ListsThePosted, CorrectsThePosted, SendsWhatItShows, LeftOf, deskVars
<1> QED
  BY <1>1, DeskFormsKeep, DeskRequestsKeep, DeskServicesKeep, DeskAnswersKeep DEF E!Next

LEMMA DeskStart == E!Init => DeskInv
<1> SUFFICES ASSUME E!Init PROVE DeskInv
  OBVIOUS
<1>1. PICK opening \in Openings :
        /\ rows = opening.rows
        /\ ledger = [p \in Payments |-> IF p \in DOMAIN opening.ledger THEN opening.ledger[p]
                                        ELSE E!Blank]
  BY DEF E!Init
<1>2. rows \in [DeskDebts -> CentsRow] /\ ledger \in [Payments -> PaymentRow]
  BY <1>1, DeskAssumption DEF PaymentRow
<1>3. /\ desk = [rows |-> rows, ledger |-> ledger] /\ linked \in Asks /\ selected = NoPayment
      /\ filter = NoDebt /\ submit = E!Quiet /\ removal = E!Quiet /\ stale = FALSE
      /\ capturing = E!Picked(E!debtOptions, E!first, NoPayment,
                              E!emptyPayment(IF linked # NoDebt THEN linked ELSE E!first))
  BY DEF E!Init
<1>4. desk \in Screens
  BY <1>2, <1>3 DEF Screens
<1>5. linked \in SomeDebt
  BY <1>3, DeskAssumption DEF SomeDebt
<1>6. capturing \in CentsEntry
  <2> DEFINE d == IF linked # NoDebt THEN linked ELSE E!first
  <2>1. d \in SomeDebt
    BY <1>5, FirstIsADebt
  <2>2. E!emptyPayment(d) \in CentsEntry
    BY <2>1, EmptyIsTyped
  <2> QED
    BY <1>3, <2>2, FirstIsADebt, PickedIsTyped
<1>7. DeskTyped
  <2>1. stale \in BOOLEAN
    BY <1>3, Zenon
  <2> QED
    BY <1>2, <1>3, <1>4, <1>5, <1>6, <2>1 DEF DeskTyped, SomePayment, SomeDebt
<1> QED
  BY <1>3, <1>7 DEF DeskInv, ListsThePosted, CorrectsThePosted, SendsWhatItShows

\* What a payment leaves is what the screen announced, within the cent that is tolerated.
LEMMA AnnouncedIsLeft == DeskInv => E!PreviewHolds
<1> SUFFICES ASSUME DeskInv, E!ServeCreate, submit'.stage = "done",
                    rows[submit.in.debt].owed = submit.base
             PROVE  E!TotalDue(rows'[submit.in.debt].owed) - submit.preview \in -Cent .. Cent
  BY DEF E!PreviewHolds
<1> DEFINE d == submit.in.debt
           in == submit.in
           o == rows[d].owed
<1>1. /\ submit \in Submits /\ in \in CentsEntry /\ d \in DeskDebts
      /\ submit.preview = LeftOf(submit.base, in.amount)
      /\ rows \in [DeskDebts -> CentsRow] /\ ledger \in [Payments -> PaymentRow]
  <2>1. submit # E!Quiet
    BY NothingIsSent DEF E!ServeCreate
  <2> QED
    BY <2>1 DEF DeskInv, DeskTyped, SendsWhatItShows, Submits
<1>2. o \in CentsOwed
  BY <1>1 DEF CentsRow
<1>3. ~E!Refuse
  <2>1. [submit EXCEPT !.stage = "refused"].stage = "refused"
    BY <1>1 DEF Submits
  <2> QED
    BY <2>1 DEF E!Refuse
<1>4. E!Rejection(o, in) = "none"
  BY <1>3 DEF E!ServeCreate
<1>5. PICK p \in Payments :
        E!Store(d, E!OwedAfter(o, in), p, [state |-> "LIVE", debt |-> d,
                                           split |-> E!BreakdownOf(o, in)])
  BY <1>3 DEF E!ServeCreate
<1>6. rows'[d].owed = E!OwedAfter(o, in)
  <2>1. /\ rows' = [rows EXCEPT ![d].owed = E!OwedAfter(o, in), ![d].last = E!Latest(d, ledger')]
    BY <1>5 DEF E!Store
  <2> HIDE DEF E!Latest
  <2>2. rows[d] \in CentsRow
    BY <1>1
  <2> QED
    BY <1>1, <2>1, <2>2 DEF CentsRow
<1>7. /\ E!Unplaced(o, in) \in Nat
      /\ E!TotalDue(rows'[d].owed) = E!TotalDue(o) - in.amount + E!Unplaced(o, in)
      /\ E!TotalDue(rows'[d].owed) \in Nat
  <2>1. E!OwedAfter(o, in) \in CentsOwed
    BY <1>1, <1>2, PaymentTakes
  <2>2. E!TotalDue(E!OwedAfter(o, in)) \in Nat
    BY <2>1 DEF E!TotalDue, CentsOwed, Cents
  <2> QED
    BY <1>1, <1>2, <1>6, <2>2, PaymentTakes
<1>8. E!TotalDue(o) \in Nat /\ in.amount \in Nat /\ Cent \in Nat
  BY <1>1, <1>2, DeskAssumption DEF E!TotalDue, CentsOwed, Cents, CentsEntry
<1>9. in.amount <= E!TotalDue(o) + Cent /\ E!Unplaced(o, in) <= Cent
  <2>1. ~(in.amount > E!TotalDue(o) + Cent) /\ ~(E!Unplaced(o, in) > Cent)
    BY <1>4 DEF E!Rejection
  <2> QED
    BY <1>7, <1>8, <2>1
<1>10. submit.preview = LeftOf(o, in.amount)
  BY <1>1
<1> QED
  BY <1>7, <1>8, <1>9, <1>10 DEF LeftOf

LEMMA CorrectionsStay == DeskInv' => E!CorrectionStays
BY DEF DeskInv, CorrectsThePosted, E!CorrectionStays

LEMMA DeskIsTyped == DeskInv => E!TypeOK
<1> SUFFICES ASSUME DeskInv PROVE E!TypeOK
  OBVIOUS
<1>1. /\ rows \in [DeskDebts -> CentsRow] /\ ledger \in [Payments -> PaymentRow] /\ desk \in Screens
      /\ selected \in SomePayment /\ capturing \in CentsEntry /\ filter \in SomeDebt
      /\ stale \in BOOLEAN /\ submit \in Submits \cup {E!Quiet} /\ removal \in Removals \cup {E!Quiet}
  BY DEF DeskInv, DeskTyped
<1>2. Cents \subseteq Nat /\ OptionalCents \subseteq E!OptionalMoney
  BY DEF Cents, OptionalCents, E!OptionalMoney
<1>3. CentsRow \subseteq E!Row
  <2>1. CentsOwed \subseteq E!Owed
    BY <1>2 DEF CentsOwed, E!Owed
  <2> QED
    BY <1>2, <2>1 DEF CentsRow, E!Row
<1>4. CentsEntry \subseteq E!Entry
  BY <1>2 DEF CentsEntry, E!Entry
<1>5. \A p \in Payments : /\ ledger[p].state \in {"NONE", "LIVE", "GONE"}
                          /\ ledger[p].split \in E!Breakdown /\ ledger[p].debt \in SomeDebt
  <2>1. \A r \in Posted : /\ r.state \in {"NONE", "LIVE", "GONE"}
                          /\ r.split \in E!Breakdown /\ r.debt \in SomeDebt
    BY <1>2 DEF Posted, CentsSplit, E!Breakdown, SomeDebt
  <2>2. /\ E!Blank.state \in {"NONE", "LIVE", "GONE"}
        /\ E!Blank.split \in E!Breakdown /\ E!Blank.debt \in SomeDebt
    BY DEF E!Blank, E!Breakdown, SomeDebt
  <2> QED
    BY <1>1, <2>1, <2>2 DEF PaymentRow
<1>6. \A d \in DeskDebts : rows[d] \in E!Row /\ desk.rows[d] \in E!Row
  BY <1>1, <1>3 DEF Screens
<1>7. submit = E!Quiet \/ submit.stage \in E!InFlight
  BY <1>1 DEF Submits
<1>8. removal = E!Quiet \/ removal.stage \in E!InFlight
  BY <1>1 DEF Removals
<1> QED
  BY <1>1, <1>4, <1>5, <1>6, <1>7, <1>8 DEF E!TypeOK, SomePayment, SomeDebt

-----------------------------------------------------------------------------
(* What the screens announce.                                                *)

ScreensInv ==
    /\ open = "payments" => DeskInv
    /\ open = "debts" => DebtsInv
    /\ open = "wizard" => PreviewInv

LEMMA ScreensStart == OpenInit => ScreensInv
BY DeskStart, DebtsStart, PreviewStart DEF OpenInit, ScreensInv

LEMMA ScreensStep == ScreensInv /\ [OpenNext]_allVars => ScreensInv'
<1> SUFFICES ASSUME ScreensInv, [OpenNext]_allVars PROVE ScreensInv'
  OBVIOUS
<1>1. open' = open
  BY PageMoves
<1>2. open = "payments" => DeskInv'
  BY PageMoves, DeskStep DEF ScreensInv
<1>3. open = "debts" => DebtsInv'
  BY PageMoves, DebtsStep DEF ScreensInv
<1>4. open = "wizard" => PreviewInv'
  <2>1. [W!Here /\ W!Next]_wizardVars => [W!Next]_wizardVars
    OBVIOUS
  <2> QED
    BY PageMoves, PreviewStep, <2>1 DEF ScreensInv
<1> QED
  BY <1>1, <1>2, <1>3, <1>4 DEF ScreensInv

\* What a screen announces is what comes of it, whatever answers, refreshes and other devices
\* come in between, for amounts in whole cents: the balance a payment leaves, within the cent
\* that is tolerated; the payment and the debt a correction is about; an archiving that changes
\* nothing else; a limit that is told before a debt is filled in; the plan of the wizard's last
\* step (payment-manager.tsx, debt-manager.tsx, onboarding-wizard.tsx).
THEOREM ScreensKeepTheirWord == PagesSpec => PreviewsHold
<1> DEFINE Told == /\ open = "payments" => E!PreviewHolds /\ E!CorrectionStays
                   /\ open = "debts" => T!CorrectsItsOwn' /\ T!ArchivesOnly /\ T!LimitIsTold
                   /\ open = "wizard" => W!PreviewIsCurrent
<1>1. ScreensInv /\ ScreensInv' /\ [OpenNext]_allVars => [Told]_allVars
  <2> SUFFICES ASSUME ScreensInv, ScreensInv', [OpenNext]_allVars PROVE Told
    OBVIOUS
  <2>1. open' = open
    BY PageMoves
  <2>2. open = "payments" => E!PreviewHolds /\ E!CorrectionStays
    BY <2>1, AnnouncedIsLeft, CorrectionsStay DEF ScreensInv
  <2>3. open = "debts" => T!CorrectsItsOwn' /\ T!ArchivesOnly /\ T!LimitIsTold
    <3>1. open = "debts" => DebtsInv /\ DebtsInv' /\ [T!Next]_debtVars
      BY <2>1, PageMoves DEF ScreensInv
    <3>2. DebtsInv' => T!CorrectsItsOwn'
      BY DEF DebtsInv
    <3> QED
      BY <3>1, <3>2, ArchivingIsAll, LimitsAreTold
  <2>4. open = "wizard" => W!PreviewIsCurrent
    BY DEF ScreensInv, PreviewInv
  <2> QED
    BY <2>2, <2>3, <2>4
<1> QED
  BY <1>1, ScreensStart, ScreensStep, PTL DEF PagesSpec, PreviewsHold

-----------------------------------------------------------------------------
(* What the proxy reads and where a browser is sent.                         *)

\* Where a redirect leads is a page.
LEMMA TargetsArePaths ==
    ASSUME NEW outcome \in DOMAIN A!Target
    PROVE  A!Target[outcome] \in A!Paths
BY DEF A!Target, A!Paths, A!Public, A!Members, A!Internal

LEMMA PathsArePages ==
    /\ A!Home \in A!Paths /\ A!Internal \subseteq A!Paths
    /\ {"/login", "/host", "/host/unlock", "/dashboard", "/onboarding"} \subseteq A!Paths
BY DEF A!Home, A!Paths, A!Public, A!Members, A!Internal

AccessTyped ==
    /\ deploy \in [panel : BOOLEAN, secondary : BOOLEAN, demo : BOOLEAN]
    /\ db \in BOOLEAN /\ A!TypeOK

LEMMA AccessIsTyped == AccessTyped /\ [A!Next]_accessVars => AccessTyped'
<1> SUFFICES ASSUME AccessTyped, [A!Next]_accessVars PROVE AccessTyped'
  OBVIOUS
<1> DEFINE Phases == {"asked", "passed", "shown", "missing", "error"}
<1>0. /\ deploy \in [panel : BOOLEAN, secondary : BOOLEAN, demo : BOOLEAN] /\ db \in BOOLEAN
      /\ user \in [active : BOOLEAN, staff : BOOLEAN, mfa : BOOLEAN, onboarded : BOOLEAN]
      /\ cookies \subseteq A!Cookies /\ seen \in {"unknown", "up", "down"}
      /\ at \in [path : A!Paths, phase : Phases] /\ hops \in 0 .. MaxHops /\ MaxHops \in Nat
  BY BoundsAssumption DEF AccessTyped, A!TypeOK
<1> USE DEF A!Next, A!Ask, A!proxy, A!Page, A!ErrorPage, A!LoginPage, A!requireUser, A!MemberPage,
        A!DashboardPage, A!OnboardingPage, A!HostPage, A!Login, A!Register, A!Logout, A!Unlock,
        A!FinishOnboarding, A!SetMfa, A!SessionEnds, A!StatusChanges, A!RoleChanges,
        A!DatabaseComesAndGoes, A!AvailabilityLapses, A!CookieLapses, A!Changed, accessVars, A!Serves
<1>1. UNCHANGED deploy /\ db' \in BOOLEAN
  BY <1>0, Zenon
<1>2. user' \in [active : BOOLEAN, staff : BOOLEAN, mfa : BOOLEAN, onboarded : BOOLEAN]
  <2>1. \/ user' = user
        \/ user' = [active |-> TRUE, staff |-> FALSE, mfa |-> FALSE, onboarded |-> FALSE]
        \/ user' = [user EXCEPT !.onboarded = TRUE]
        \/ user' = [user EXCEPT !.mfa = ~user.mfa]
        \/ user' = [user EXCEPT !.active = ~user.active]
        \/ user' = [user EXCEPT !.staff = ~user.staff]
    BY <1>0
  <2>2. ASSUME NEW b \in BOOLEAN, \/ user' = [user EXCEPT !.onboarded = b]
                                  \/ user' = [user EXCEPT !.mfa = b]
                                  \/ user' = [user EXCEPT !.active = b]
                                  \/ user' = [user EXCEPT !.staff = b]
        PROVE user' \in [active : BOOLEAN, staff : BOOLEAN, mfa : BOOLEAN, onboarded : BOOLEAN]
    BY <1>0, <2>2
  <2>3. CASE user' = user
    BY <1>0, <2>3
  <2>4. CASE user' = [active |-> TRUE, staff |-> FALSE, mfa |-> FALSE, onboarded |-> FALSE]
    BY <2>4
  <2>5. /\ TRUE \in BOOLEAN /\ (~user.mfa) \in BOOLEAN
        /\ (~user.active) \in BOOLEAN /\ (~user.staff) \in BOOLEAN
    OBVIOUS
  <2> QED
    BY <2>1, <2>2, <2>3, <2>4, <2>5, Zenon
<1>3. cookies' \subseteq A!Cookies
  BY <1>0 DEF A!Cookies
<1>4. seen' \in {"unknown", "up", "down"}
  BY <1>0 DEF A!SeenAfter
<1>5. at' \in [path : A!Paths, phase : Phases] /\ hops' \in 0 .. MaxHops
  <2>1. \/ UNCHANGED at
        \/ \E phase \in Phases : at' = [at EXCEPT !.phase = phase]
        \/ \E path \in A!Paths : at' = [path |-> path, phase |-> "asked"]
    BY TargetsArePaths, PathsArePages DEF A!Show, A!Pass, A!Redirect, A!Resolve, A!Goes
  <2>2. UNCHANGED hops \/ hops' = 0 \/ (hops < MaxHops /\ hops' = hops + 1)
    BY DEF A!Show, A!Pass, A!Redirect, A!Resolve, A!Goes
  <2>3. hops' \in 0 .. MaxHops
    BY <1>0, <2>2
  <2> QED
    BY <1>0, <2>1, <2>3
<1> QED
  BY <1>0, <1>1, <1>2, <1>3, <1>4, <1>5 DEF AccessTyped, A!TypeOK

LEMMA AccessBegins == A!Init => AccessTyped
<1> SUFFICES ASSUME A!Init PROVE AccessTyped
  OBVIOUS
<1>1. MaxHops \in Nat
  BY BoundsAssumption
<1> QED
  BY <1>1 DEF A!Init, AccessTyped, A!TypeOK, A!Paths, A!Public, A!Cookies

-----------------------------------------------------------------------------
(* What a gate remembers of a caller.                                        *)

\* Every route asks its gates one after another.
LEMMA GatesAreASequence == \A r \in G!Routes : DOMAIN r.gates = 1 .. Len(r.gates)
<1> SUFFICES ASSUME NEW r \in G!Routes PROVE DOMAIN r.gates = 1 .. Len(r.gates)
  OBVIOUS
<1>1. CASE r \in {G!login, G!registrar, G!cambiarContrasena, G!reautenticar,
                  G!recuperarContrasena, G!restablecerContrasena}
  BY <1>1 DEF G!login, G!registrar, G!cambiarContrasena, G!reautenticar, G!recuperarContrasena,
         G!restablecerContrasena, G!Limited
<1>2. CASE r \in {G!passkeyLoginOptions, G!passkeyLoginVerify, G!checkout, G!portal,
                  G!setUpTotp, G!passkeyOptions}
  BY <1>2 DEF G!passkeyLoginOptions, G!passkeyLoginVerify, G!checkout, G!portal, G!setUpTotp,
         G!passkeyOptions, G!Limited
<1>3. CASE r \in {G!passkeyVerify, G!passkeyDelete, G!hostAccess, G!hostGate,
                  G!jobsNotifications}
  BY <1>3 DEF G!passkeyVerify, G!passkeyDelete, G!hostAccess, G!hostGate, G!jobsNotifications,
         G!Limited
<1>4. CASE r \in {G!logout, G!onboarding, G!onboardingPreview, G!getDebts, G!postDebts,
                  G!getDebt, G!patchDebt}
  BY <1>4 DEF G!logout, G!onboarding, G!onboardingPreview, G!getDebts, G!postDebts, G!getDebt,
         G!patchDebt, G!Unlimited
<1>5. CASE r \in {G!deleteDebt, G!getPayments, G!postPayments, G!patchPayment, G!deletePayment,
                  G!readNotification, G!readAllNotifications}
  BY <1>5 DEF G!deleteDebt, G!getPayments, G!postPayments, G!patchPayment, G!deletePayment,
         G!readNotification, G!readAllNotifications, G!Unlimited
<1>6. CASE r \in {G!postSimulator, G!reportSummary, G!exportCsv, G!exportPdf, G!membership,
                  G!profile}
  BY <1>6 DEF G!postSimulator, G!reportSummary, G!exportCsv, G!exportPdf, G!membership,
         G!profile, G!Unlimited
<1>7. CASE r \in {G!preferences, G!verifyTotp, G!disableTotp, G!userStatus, G!emailTemplate,
                  G!planEvents}
  BY <1>7 DEF G!preferences, G!verifyTotp, G!disableTotp, G!userStatus, G!emailTemplate,
         G!planEvents, G!Unlimited
<1> QED
  BY <1>1, <1>2, <1>3, <1>4, <1>5, <1>6, <1>7 DEF G!Routes

\* The gate that refuses is one the route has.
LEMMA FirstIsAGate ==
    ASSUME NEW wrong, G!FirstOf(wrong) # 0
    PROVE  G!FirstOf(wrong) \in 1 .. Len(route.gates)
<1> DEFINE I == {i \in 1 .. Len(route.gates) : route.gates[i] \in wrong}
<1>1. I # {} /\ G!FirstOf(wrong) = G!Min(I)
  BY DEF G!FirstOf, G!SelectInSeq
<1>2. I \in SUBSET Nat
  OBVIOUS
<1> HIDE DEF I
<1>3. \E x \in I : \A y \in I : x <= y
  BY <1>1, <1>2, SmallestNumber
<1>4. G!Min(I) \in I
  BY <1>3 DEF G!Min
<1> QED
  BY <1>1, <1>4 DEF I

LEMMA GatesAreTyped == GatesInv /\ G!TypeOK /\ [G!Next]_gateVars => G!TypeOK'
<1> SUFFICES ASSUME GatesInv, G!TypeOK, [G!Next]_gateVars PROVE G!TypeOK'
  OBVIOUS
<1>1. /\ route \in G!Routes /\ now \in 0 .. MaxTime /\ entry.count \in 0 .. route.limit
      /\ entry.resetAt \in 0 .. MaxTime + LimitWindow /\ route.limit \in Nat
      /\ MaxTime \in Nat /\ LimitWindow \in Nat
      /\ answer \in G!Gates \cup {"served", "none"}
  BY RoutesAreLimited, GatesAssumption DEF GatesInv, GatesTyped, G!TypeOK
<1>2. UNCHANGED route
  BY DEF G!Next, G!Call, G!Tick, G!Restart, gateVars
<1>3. G!Gates' = G!Gates
  BY <1>2 DEF G!Gates
<1>4. entry'.count \in 0 .. route'.limit /\ entry'.resetAt \in 0 .. MaxTime + LimitWindow
  <2>1. CASE UNCHANGED entry
    BY <1>1, <1>2, <2>1
  <2>2. CASE entry' = [count |-> 0, resetAt |-> 0]
    BY <1>1, <1>2, <2>2
  <2>3. CASE entry' = G!assertRateLimit /\ route.limit > 0 /\ G!Success
    <3>1. CASE entry' = [count |-> 1, resetAt |-> now + LimitWindow]
      BY <1>1, <1>2, <2>3, <3>1
    <3>2. CASE entry' = [count |-> entry.count + 1, resetAt |-> entry.resetAt]
               /\ entry.count < route.limit
      BY <1>1, <1>2, <3>2
    <3> QED
      BY <1>1, <2>3, <3>1, <3>2 DEF G!assertRateLimit, G!Success
  <2> QED
    BY <1>1, <2>1, <2>2, <2>3, CallsCount DEF G!Next, G!Tick, G!Restart, gateVars
<1>5. answer' \in G!Gates \cup {"served", "none"}
  <2>1. CASE UNCHANGED answer \/ answer' = "none"
    BY <1>1, <2>1
  <2>2. CASE G!Call
    <3>1. PICK wrong : LET first == G!FirstOf(wrong)
                           counted == G!Before("limit", first)
                       IN  answer' = IF counted /\ ~G!Success THEN "limit"
                                     ELSE IF first = 0 THEN "served" ELSE route.gates[first]
      BY <2>2 DEF G!Call
    <3>2. \A k \in 1 .. Len(route.gates) : route.gates[k] \in G!Gates
      BY <1>1, GatesAreASequence DEF G!Gates, G!ToSet
    <3>3. G!Before("limit", G!FirstOf(wrong)) => "limit" \in G!Gates
      BY <3>2 DEF G!Before
    <3>4. G!FirstOf(wrong) # 0 => route.gates[G!FirstOf(wrong)] \in G!Gates
      BY <3>2, FirstIsAGate
    <3> QED
      BY <3>1, <3>3, <3>4
  <2> QED
    BY <2>1, <2>2 DEF G!Next, G!Tick, G!Restart, gateVars
<1> QED
  BY <1>3, <1>4, <1>5 DEF G!TypeOK

LEMMA GatesBeginTyped == G!Init => G!TypeOK
<1> SUFFICES ASSUME G!Init PROVE G!TypeOK
  OBVIOUS
<1>1. route.limit \in Nat /\ MaxTime \in Nat /\ LimitWindow \in Nat
  BY RoutesAreLimited, GatesAssumption DEF G!Init
<1> QED
  BY <1>1 DEF G!Init, G!TypeOK

-----------------------------------------------------------------------------
(* What a report says.                                                       *)

\* What a report says of a range is one of its words.
LEMMA ReportsSayWords ==
    ASSUME NEW from, NEW to
    PROVE  /\ R!getReportSummary(from, to).signal \in {"NO_BASELINE", "IMPROVING", "REGRESSION", "STABLE"}
           /\ R!getReportSummary(from, to).progress \in {"STARTING", "WATCH", "STRONG"}
<1>1. \A a, b : R!Comparison(a, b) \in {"NO_BASELINE", "IMPROVING", "REGRESSION", "STABLE"}
  BY DEF R!Comparison
<1>2. \A U : R!Progress(U) \in {"STARTING", "WATCH", "STRONG"}
  BY DEF R!Progress
<1> QED
  BY <1>1, <1>2 DEF R!getReportSummary

LEMMA ReportsAreTyped == ReportsInv /\ R!TypeOK /\ [R!Next]_reportVars => R!TypeOK'
<1> SUFFICES ASSUME ReportsInv, R!TypeOK, [R!Next]_reportVars PROVE R!TypeOK'
  OBVIOUS
<1>1. ReportsInv'
  BY ReportsStep
<1>2. FirstDay \in Nat /\ LastDay \in Nat
  BY ReportsAssumption
<1>3. today' \in FirstDay .. LastDay
  BY <1>2 DEF R!TypeOK, reportVars, R!Next, R!RecordPayment, R!NextDay, R!SetFields, R!Reload,
     R!ReportAnswered, R!ReportFailed, R!Lapse
<1>4. tier' \in R!Tiers /\ refusal' \in {"none", "backwards", "range", "failed"}
  BY DEF R!TypeOK, reportVars, R!Next, R!RecordPayment, R!NextDay, R!SetFields, R!Reload,
     R!ReportAnswered, R!ReportFailed, R!Lapse, R!Tiers
<1>5. UNCHANGED summary \/ \E from, to : summary' = R!getReportSummary(from, to)
  BY DEF reportVars, R!Next, R!RecordPayment, R!NextDay, R!SetFields, R!Reload,
     R!ReportAnswered, R!ReportFailed, R!Lapse
<1>6. /\ summary'.signal \in {"NO_BASELINE", "IMPROVING", "REGRESSION", "STABLE"}
      /\ summary'.progress \in {"STARTING", "WATCH", "STRONG"}
  BY <1>5, ReportsSayWords DEF R!TypeOK
<1> QED
  BY <1>1, <1>3, <1>4, <1>6 DEF R!TypeOK, ReportsInv

LEMMA ReportsBegin == R!Init => ReportsInv /\ R!TypeOK
<1> SUFFICES ASSUME R!Init PROVE ReportsInv /\ R!TypeOK
  OBVIOUS
<1>1. ReportsInv
  BY ReportsAssumption DEF R!Init, ReportsInv
<1>2. FirstDay \in Nat /\ LastDay \in Nat /\ FirstDay <= LastDay
  BY ReportsAssumption, BoundsAssumption
<1>3. today \in FirstDay .. LastDay /\ tier \in R!Tiers /\ refusal = "none"
  BY <1>2 DEF R!Init
<1>4. summary = R!getReportSummary(FirstDay, FirstDay)
  BY DEF R!Init
<1> QED
  BY <1>1, <1>3, <1>4, ReportsSayWords DEF R!TypeOK, ReportsInv

-----------------------------------------------------------------------------
(* What the dashboard shows.                                                 *)

\* A page shows debts that were analysed, and how many were not.
LEMMA DashPage ==
    ASSUME DashInv, D!OpenDashboard
    PROVE  /\ page'.analysed \subseteq ShownDebts /\ page'.hidden \in Nat
           /\ page'.risks \subseteq page'.analysed /\ page'.dueSoon \subseteq page'.analysed
<1> DEFINE access == D!featureAccess(member, billing)
           analysed == D!Analysed(access)
<1>1. /\ page'.analysed = analysed
      /\ page'.hidden = D!Cardinality(D!Active) - D!Cardinality(analysed)
      /\ page'.dueSoon = D!FirstDue(analysed, access.dueSoonLimit, access.premium)
      /\ page'.risks = D!FirstOf(D!AtRisk(analysed), access.riskAlertLimit, access.premium)
  BY DEF D!OpenDashboard, D!DashboardData
<1>2. analysed \in SUBSET D!Active /\ D!Active \in SUBSET ShownDebts
  BY DEF D!Analysed, D!Active
<1> HIDE DEF analysed, access
<1>3. page'.risks \subseteq analysed /\ page'.dueSoon \subseteq analysed
  BY <1>1 DEF D!FirstDue, D!FirstOf, D!AtRisk
<1>4. IsFiniteSet(D!Active) /\ IsFiniteSet(analysed)
  BY <1>2, DashboardAssumption, FS_Subset
<1>5. /\ Cardinality(D!Active) \in Nat /\ Cardinality(analysed) \in Nat
      /\ Cardinality(analysed) <= Cardinality(D!Active)
  BY <1>2, <1>4, FS_CardinalityType, FS_Subset
<1>6. \A U : D!Cardinality(U) = Cardinality(U)
  BY DEF D!Cardinality, Cardinality
<1> QED
  BY <1>1, <1>2, <1>3, <1>5, <1>6

LEMMA BalancesAddUp ==
    ASSUME DashInv, NEW U \in SUBSET ShownDebts
    PROVE  D!TotalOf(U) \in Nat
<1> DEFINE g == [d \in ShownDebts |-> debts[d].balance]
           Sums(h) == h = [V \in SUBSET U |->
                              IF V = {} THEN 0
                              ELSE debts[CHOOSE x \in V : TRUE].balance
                                   + h[V \ {CHOOSE x \in V : TRUE}]]
<1>1. IsFiniteSet(U)
  BY DashboardAssumption, FS_Subset
<1>2. \A d \in U : g[d] \in Nat
  BY DEF DashInv, D!Holding
<1>3. PICK f : IsSummation(g, U, f)
  BY <1>1, SummationExists
<1>4. ASSUME NEW h PROVE Sums(h) <=> IsSummation(g, U, h)
  <2>1. \A V \in SUBSET U : V # {} => g[CHOOSE x \in V : TRUE] = debts[CHOOSE x \in V : TRUE].balance
    OBVIOUS
  <2> HIDE DEF g
  <2> QED
    BY <2>1 DEF IsSummation, Pick
<1>5. Sums(f) /\ \A h : Sums(h) => h = f
  BY <1>1, <1>3, <1>4, OneSummation
<1>6. D!TotalOf(U) = f[U]
  BY <1>5 DEF D!TotalOf, D!MapThenSumSet, D!MapThenFoldSet
<1>7. f[U] = Total(g, U)
  BY <1>1, <1>3, SummationsTotal
<1> HIDE DEF g
<1> QED
  BY <1>1, <1>2, <1>6, <1>7, TotalIsNat

LEMMA ActiveAddsUp == DashInv => D!TotalOf(D!Active) \in Nat
  BY BalancesAddUp DEF D!Active

DashTyped == DashInv /\ D!TypeOK

LEMMA DashIsTyped == DashTyped /\ [D!Next]_pageVars => DashTyped'
<1> SUFFICES ASSUME DashTyped, [D!Next]_pageVars PROVE DashTyped'
  OBVIOUS
<1>1. DashInv /\ DashInv' /\ D!TypeOK
  BY DashStep DEF DashTyped
<1>2. history' \in Seq(Nat) /\ Len(history') <= MaxSnapshots
  <2>1. CASE D!ChangeDebt
    <3>1. PICK n : n = D!TotalOf(D!Active)'
      OBVIOUS
    <3>2. n \in Nat
      <4>1. DashInv' => (D!TotalOf(D!Active) \in Nat)'
        BY ActiveAddsUp, PTL
      <4> QED
        BY <1>1, <3>1, <4>1
    <3>3. history \in Seq(Nat) /\ Len(history) < MaxSnapshots /\ history' = Append(history, n)
      BY <1>1, <2>1, <3>1 DEF D!ChangeDebt, D!TypeOK
    <3>4. MaxSnapshots \in Nat /\ Len(history) \in Nat
      BY <3>3, BoundsAssumption
    <3> QED
      BY <3>2, <3>3, <3>4
  <2> QED
    BY <1>1, <2>1 DEF D!Next, D!ChangeMembership, D!OpenDashboard, pageVars, D!TypeOK
<1>3. /\ page'.analysed \subseteq ShownDebts /\ page'.hidden \in Nat
      /\ page'.risks \subseteq page'.analysed /\ page'.dueSoon \subseteq page'.analysed
  BY <1>1, DashPage DEF D!Next, D!ChangeMembership, D!ChangeDebt, pageVars, D!TypeOK
<1> QED
  BY <1>1, <1>2, <1>3 DEF DashTyped, DashInv, D!TypeOK

LEMMA DashBegins == D!Init => DashTyped
<1> SUFFICES ASSUME D!Init PROVE DashTyped
  OBVIOUS
<1>1. /\ page.analysed = {} /\ page.hidden = 0 /\ page.risks = {} /\ page.dueSoon = {}
  BY DEF D!Init, D!NoPage
<1>2. history \in Seq(Nat) /\ Len(history) <= MaxSnapshots
  BY BoundsAssumption DEF D!Init
<1> QED
  BY <1>1, <1>2, DashStart DEF DashTyped, DashInv, D!TypeOK

-----------------------------------------------------------------------------
(* What is known of the notices.                                             *)

\* The bounds on the rows, and what a synchronisation at work holds.
BoundedNotices ==
    /\ \A i \in N!Ids : notices[i].born \in Days
    /\ day \in Days /\ account \in UNION Users /\ cuts \in 0 .. MaxCuts
    /\ view \in {"none", "ready"} \cup Syncs
NoticesKnown == NoticesInv /\ DigestInv /\ BoundedNotices

LEMMA NoticesAreTyped == NoticesKnown => N!TypeOK
<1> SUFFICES ASSUME NoticesKnown PROVE N!TypeOK
  OBVIOUS
<1>1. \A s \in Syncs : sync[s].at = "idle" => sync[s] = N!Idle
  <2>1. ASSUME NEW s \in Syncs, sync[s].at = "idle"
        PROVE  sync[s] = N!Idle
    <3>1. sync[s] \in Sync
      BY DEF NoticesKnown, NoticesInv, NoticesTyped
    <3>2. sync[s].looking = {} /\ sync[s].creating = {}
      BY <2>1 DEF NoticesKnown, NoticesInv, SlotsInv
    <3> QED
      BY <2>1, <3>1, <3>2 DEF Sync, N!Idle
  <2> QED
    BY <2>1
<1>2. \A i \in N!Ids : notices[i].alert \in N!Alerts /\ N!Handed(i) \in 0 .. 1 + MaxCuts
  <2>1. ASSUME NEW i \in N!Ids
        PROVE  notices[i].alert \in N!Alerts /\ N!Handed(i) \in 0 .. 1 + MaxCuts
    <3>1. notices[i] \in Notice
      BY <2>1 DEF NoticesKnown, NoticesInv, NoticesTyped, N!Ids
    <3>2. /\ N!Handed(i) + Cardinality(Mailing(i)) <= cuts + Allowance(i)
          /\ N!Handed(i) \in Nat
      BY <2>1, RowsAreTyped DEF NoticesKnown, DigestInv
    <3>3. Allowance(i) \in {0, 1} /\ Cardinality(Mailing(i)) \in Nat /\ cuts \in 0 .. MaxCuts
      BY OutIsFinite DEF Allowance, NoticesKnown, BoundedNotices
    <3> QED
      BY <3>1, <3>2, <3>3, BoundsAssumption DEF Notice
  <2> QED
    BY <2>1
<1>3. /\ \A i \in Instances : promise[i] # NoSync => sync[promise[i]].at = "running"
      /\ \A s \in Syncs : sync[s].looking \cap sync[s].creating = {}
  BY DEF NoticesKnown, NoticesInv, SlotsInv
<1>4. /\ promise \in [Instances -> Syncs \cup {NoSync}] /\ DOMAIN screen \subseteq N!Ids
      /\ \A j \in Jobs : job[j].picked \subseteq N!Ids
  BY DEF NoticesKnown, NoticesInv, NoticesTyped
<1>5. BoundedNotices
  BY DEF NoticesKnown
<1> QED
  BY <1>1, <1>2, <1>3, <1>4, <1>5 DEF N!TypeOK, BoundedNotices

LEMMA BornOnADay == NoticesKnown /\ [N!Next]_noticeVars => (\A i \in N!Ids : notices[i].born \in Days)'
<1> SUFFICES ASSUME NoticesKnown, [N!Next]_noticeVars, NEW i \in N!Ids'
             PROVE  notices'[i].born \in Days
  BY DEF N!Ids
<1>0. /\ NoticesTyped /\ (\A k \in N!Ids : notices[k].born \in Days) /\ day \in Days
      /\ Len(notices) \in Nat
  BY DEF NoticesKnown, NoticesInv, NoticesTyped, BoundedNotices
<1>1. CASE UNCHANGED notices
  BY <1>0, <1>1 DEF N!Ids
<1>2. CASE N!CreateNotice
  <2>1. PICK a \in N!Alerts : notices' = Append(notices, [alert |-> a, born |-> day, read |-> FALSE,
                                                          sent |-> FALSE, mailed |-> 0, dropped |-> 0])
    BY <1>0, <1>2 DEF N!CreateNotice, NoticesTyped, Sync
  <2>2. Adds(a)
    BY <1>0, <2>1, RowsAreAdded
  <2>3. CASE i \in N!Ids
    BY <1>0, <2>2, <2>3 DEF Adds
  <2>4. CASE i = Len(notices')
    BY <1>0, <2>2, <2>4 DEF Adds
  <2> QED
    BY <1>0, <2>2, <2>3, <2>4 DEF Adds, N!Ids
<1>3. CASE N!MarkRead \/ N!ReadAll \/ N!MailDigest \/ N!MarkDigest
  BY <1>0, <1>3, RowsAreMarked DEF Marks, N!Ids
<1> QED
  BY <1>1, <1>2, <1>3 DEF N!Next, noticeVars, N!Visit, N!Leave, N!FindNotice, N!SyncFails,
     N!SyncEnds, N!CooldownEnds, N!ListNotices, N!PickDigest, N!CutDigest, N!ChangeAccount,
     N!LaterDay

LEMMA NoticesGoOn == NoticesKnown /\ [N!Next]_noticeVars => NoticesKnown'
<1> SUFFICES ASSUME NoticesKnown, [N!Next]_noticeVars PROVE NoticesKnown'
  OBVIOUS
<1>0. /\ day \in Days /\ account \in UNION Users /\ cuts \in 0 .. MaxCuts
      /\ view \in {"none", "ready"} \cup Syncs
  BY DEF NoticesKnown, BoundedNotices
<1>1. NoticesInv' /\ DigestInv'
  BY NoticesStep, DigestStep DEF NoticesKnown
<1>2. day' \in Days /\ account' \in UNION Users
  BY <1>0 DEF N!Next, noticeVars, N!Visit, N!Leave, N!FindNotice,
     N!CreateNotice, N!SyncFails, N!SyncEnds, N!CooldownEnds, N!ListNotices, N!MarkRead,
     N!ReadAll, N!PickDigest, N!MailDigest, N!MarkDigest, N!CutDigest, N!ChangeAccount,
     N!LaterDay
<1>3. cuts' = cuts \/ (cuts < MaxCuts /\ cuts' = cuts + 1)
  <2>1. CASE N!PickDigest
    <3>1. PICK over \in BOOLEAN : (over => cuts < MaxCuts) /\ cuts' = IF over THEN cuts + 1 ELSE cuts
      BY <2>1, Zenon DEF N!PickDigest
    <3> QED
      BY <3>1
  <2> QED
    BY <2>1 DEF N!Next, noticeVars, N!Visit, N!Leave, N!FindNotice,
     N!CreateNotice, N!SyncFails, N!SyncEnds, N!CooldownEnds, N!ListNotices, N!MarkRead,
     N!ReadAll, N!MailDigest, N!MarkDigest, N!CutDigest, N!ChangeAccount,
     N!LaterDay
<1>4. cuts' \in 0 .. MaxCuts
  BY <1>0, <1>3, BoundsAssumption
<1>5. view' \in {"none", "ready"} \cup Syncs
  <2>1. CASE N!Visit
    <3>1. PICK i \in Instances : \/ N!Joins(i) /\ view' = promise[i]
                               \/ view' = "ready"
                               \/ /\ \E s \in Syncs : sync[s].at = "idle"
                                  /\ view' = CHOOSE s \in Syncs : sync[s].at = "idle"
      BY <2>1 DEF N!Visit
    <3>2. promise[i] \in Syncs \cup {NoSync}
      BY DEF NoticesKnown, NoticesInv, NoticesTyped
    <3> QED
      BY <3>1, <3>2 DEF N!Joins
  <2> QED
    BY <1>0, <2>1 DEF N!Next, noticeVars, N!Leave, N!FindNotice,
     N!CreateNotice, N!SyncFails, N!SyncEnds, N!CooldownEnds, N!ListNotices, N!MarkRead,
     N!ReadAll, N!PickDigest, N!MailDigest, N!MarkDigest, N!CutDigest, N!ChangeAccount,
     N!LaterDay
<1> QED
  BY <1>1, <1>2, <1>4, <1>5, BornOnADay DEF NoticesKnown, BoundedNotices

LEMMA NoticesOpen == N!Init => NoticesKnown
<1> SUFFICES ASSUME N!Init PROVE NoticesKnown
  OBVIOUS
<1>1. NoticesInv /\ DigestInv
  BY NoticesBegin, DigestBegin
<1>2. day \in Days
  <2>1. \E x \in Days : \A y \in Days : x <= y
    BY NoticesAssumption, SmallestNumber
  <2> QED
    BY <2>1 DEF N!Init, N!Min
<1>3. \A i \in N!Ids : notices[i].born \in Days
  BY DEF N!Init, N!Ids
<1> QED
  BY <1>1, <1>2, <1>3, BoundsAssumption DEF N!Init, N!Idle, NoticesKnown, BoundedNotices

-----------------------------------------------------------------------------
(* What waits on the settings page.                                          *)

\* What is asked for names an action, and a device where a passkey is registered; the card
\* that asks for a confirmation shows while an action waits for it.
Doable(do) == do.action \in S!Actions /\ (do.action = "register" => do.device \in Devices)
CardInv ==
    /\ stored.passkeys \subseteq Devices
    /\ \A s \in S!Slots : Busy(s) => Doable(call[s].do) /\ (s = "rerun" \/ S!KindIn(s) = s)
    /\ (pending = S!None /\ panel.card = FALSE) \/ (Doable(pending) /\ panel.card = TRUE)
    /\ confirm.at = "idle" \/ Doable(confirm.then)
SettingsKnown == SettingsInv /\ CardInv

LEMMA SettingsAreTyped == SettingsKnown => S!TypeOK
<1> SUFFICES ASSUME SettingsKnown PROVE S!TypeOK
  OBVIOUS
<1>1. stored.mfa \in {"off", "prepared", "on"} /\ stored.passkeys \subseteq Devices
  BY DEF SettingsKnown, SettingsInv, SettingsTyped, CardInv
<1>2. \A s \in S!Slots : S!Idle(s) \/ s = "rerun" \/ S!KindIn(s) = s
  BY DEF SettingsKnown, CardInv, Busy, S!Idle
<1>3. panel.card = (pending # S!None)
  <2>1. Doable(pending) => pending # S!None
    BY DEF Doable, S!None, S!Actions
  <2> QED
    BY <2>1 DEF SettingsKnown, CardInv
<1>4. (call["rerun"].at # "idle") = (confirm.at = "rerunning")
  BY DEF SettingsKnown, SettingsInv, RerunIsKnown, Busy
<1> QED
  BY <1>1, <1>2, <1>3, <1>4 DEF S!TypeOK

LEMMA ServesAsked == ASSUME SettingsKnown, NEW s \in S!Slots, S!Serve(s) PROVE CardInv'
<1>0. SettingsTyped /\ CardInv /\ Registers
  BY DEF SettingsKnown, SettingsInv
<1>1. /\ UNCHANGED <<panel, pending, confirm>>
      /\ call' \in [S!Slots -> Calls] /\ call'[s].do = call[s].do
      /\ \A t \in S!Slots \ {s} : call'[t] = call[t]
      /\ call[s].at \in {"sent", "options", "verifying"} /\ call'[s].at # "idle"
  BY <1>0, ServesKeep
<1>2. Busy(s) /\ \A t \in S!Slots : (Busy(t)' <=> Busy(t)) /\ call'[t].do = call[t].do
  BY <1>1 DEF Busy
<1>3. stored'.passkeys \subseteq Devices
  <2>1. stored.passkeys \subseteq Devices
    BY <1>0 DEF CardInv
  <2>2. stored \in [mfa : {"off", "prepared", "on"}, key : Nat, codes : Nat, passkeys : SUBSET Keys]
    BY <1>0 DEF SettingsTyped
  <2>3. CASE S!verifyPasskeyRegistration(s)
    <3>1. call[s].do.device \in Devices
      BY <1>0, <1>2, <2>3 DEF S!verifyPasskeyRegistration, Registers, CardInv, Doable
    <3> QED
      BY <2>1, <2>2, <2>3, <3>1 DEF S!verifyPasskeyRegistration
  <2>4. CASE S!deleteUserPasskey(s)
    BY <2>1, <2>2, <2>4 DEF S!deleteUserPasskey
  <2>5. CASE S!Totp(s)
    <3>1. PICK n : \/ stored' = [stored EXCEPT !.mfa = "prepared", !.key = n, !.codes = 0]
                       \/ stored' = [stored EXCEPT !.mfa = "on", !.codes = n]
                       \/ stored' = [stored EXCEPT !.codes = n]
                       \/ stored' = [stored EXCEPT !.mfa = "off", !.key = 0, !.codes = 0]
      BY <2>5 DEF S!Totp
    <3> QED
      BY <2>1, <2>2, <3>1
  <2> QED
    BY <2>1, <2>3, <2>4, <2>5 DEF S!Serve, S!ChangePassword, S!RegistrationOptions, S!Ceremony,
       S!AsksToConfirm, S!Refuse, S!server
<1>4. \A t \in S!Slots : Busy(t)' => Doable(call'[t].do) /\ (t = "rerun" \/ S!KindIn(t)' = t)
  BY <1>0, <1>2 DEF CardInv, S!KindIn
<1> QED
  BY <1>0, <1>1, <1>3, <1>4 DEF CardInv

LEMMA ReturnsAsked == ASSUME SettingsKnown, NEW s \in S!Slots, S!Return(s) PROVE CardInv'
<1>0. SettingsTyped /\ CardInv /\ call \in [S!Slots -> Calls] /\ panel \in Panels /\ call[s] \in Calls
  BY DEF SettingsKnown, SettingsInv, SettingsTyped
<1>1. UNCHANGED stored /\ S!Ends(s) /\ Busy(s)
  BY <1>0, ReturnsKeep DEF Busy
<1>2. /\ \A t \in S!Slots \ {s} : call'[t] = call[t]
      /\ call'[s].at = "idle"
      /\ confirm' = IF s = "rerun" THEN S!NoConfirm ELSE confirm
  BY <1>0, <1>1, EndsAreTyped
<1>3. \A t \in S!Slots : Busy(t)' => Doable(call'[t].do) /\ (t = "rerun" \/ S!KindIn(t)' = t)
  BY <1>0, <1>2 DEF CardInv, S!KindIn, Busy
<1>4. confirm'.at = "idle" \/ Doable(confirm'.then)
  BY <1>0, <1>2 DEF CardInv, S!NoConfirm
<1>5. CASE S!ReceiveReauth(s)
  <2>1. pending' = call[s].do /\ Doable(call[s].do) /\ panel'.card = TRUE
    BY <1>0, <1>1, <1>5 DEF S!ReceiveReauth, CardInv, Panels
  <2> QED
    BY <1>0, <1>1, <1>3, <1>4, <2>1 DEF CardInv
<1>6. CASE S!Receive(s) \/ S!ReceiveRefusal(s) \/ S!Lose(s)
  <2>1. S!Shown(call[s]).card = panel.card /\ S!Shown(call[s]) \in Panels
    BY <1>0, ShownIsTyped DEF S!Shown, Panels
  <2>2. panel'.card = panel.card
    BY <1>0, <1>6, <2>1 DEF S!Receive, S!ReceiveRefusal, S!Lose, Panels
  <2>3. pending' = pending
    BY <1>6 DEF S!Receive, S!ReceiveRefusal, S!Lose
  <2> QED
    BY <1>0, <1>1, <1>3, <1>4, <2>2, <2>3 DEF CardInv
<1> QED
  BY <1>5, <1>6 DEF S!Return

\* A call that starts.
LEMMA StartsAsked ==
    ASSUME SettingsKnown, NEW s \in S!Slots, NEW do \in Do, Doable(do), S!Starts(s, do),
           s = "rerun" \/ S!KindOf(do.action) = s
    PROVE  \A t \in S!Slots : Busy(t)' => Doable(call'[t].do) /\ (t = "rerun" \/ S!KindIn(t)' = t)
<1>0. CardInv /\ call \in [S!Slots -> Calls]
  BY DEF SettingsKnown, SettingsInv, SettingsTyped
<1>1. /\ \A t \in S!Slots \ {s} : call'[t] = call[t]
      /\ call'[s].do = do /\ call'[s].at = "sent"
  BY <1>0, StartsAreTyped
<1> QED
  BY <1>0, <1>1 DEF CardInv, S!KindIn, Busy

LEMMA CardStep == SettingsKnown /\ [S!Next]_settingVars => CardInv'
<1> SUFFICES ASSUME SettingsKnown, [S!Next]_settingVars PROVE CardInv'
  OBVIOUS
<1>0. /\ CardInv /\ panel \in Panels /\ pending \in Do /\ confirm \in [at : Places, then : Do]
      /\ call \in [S!Slots -> Calls]
  BY DEF SettingsKnown, SettingsInv, SettingsTyped
<1>1. CASE UNCHANGED <<stored, call, panel, pending, confirm>>
  BY <1>0, <1>1 DEF CardInv, Busy, S!KindIn
<1>2. ASSUME NEW a \in S!Actions, NEW d \in Devices \cup {NoDevice}, S!Click(a, d) PROVE CardInv'
  <2>1. PICK do : do = [action |-> a, device |-> d, of |-> IF a = "verify" THEN panel.setup ELSE 0]
    OBVIOUS
  <2>2. do \in Do /\ do.action = a /\ do.device = d
    BY <1>0, <2>1 DEF Do, Keys, Panels
  <2>3. S!Starts(S!KindOf(a), do) /\ ((d # NoDevice) = (a \in {"register", "remove"}))
    BY <1>2, <2>1 DEF S!Click
  <2>4. S!KindOf(a) \in S!Slots /\ Doable(do)
    BY <2>2, <2>3, KindsOfActions DEF S!Slots, Doable
  <2>5. \A t \in S!Slots : Busy(t)' => Doable(call'[t].do) /\ (t = "rerun" \/ S!KindIn(t)' = t)
    BY <2>2, <2>3, <2>4, StartsAsked
  <2>6. UNCHANGED <<stored, pending, confirm>> /\ panel'.card = panel.card
    BY <1>0, <1>2 DEF S!Click, S!server, Panels
  <2> QED
    BY <1>0, <2>5, <2>6 DEF CardInv
<1>3. CASE S!Confirm
  BY <1>0, <1>3 DEF S!Confirm, S!server, CardInv, Busy, S!KindIn
<1>4. CASE S!Cancel
  <2>1. panel'.card = FALSE
    BY <1>0, <1>4 DEF S!Cancel, Panels
  <2> QED
    BY <1>0, <1>4, <2>1 DEF S!Cancel, S!server, CardInv, Busy, S!KindIn
<1>5. CASE S!ServeConfirm
  <2>1. confirm'.then = confirm.then /\ confirm.at # "idle"
    BY <1>0, <1>5 DEF S!ServeConfirm
  <2> QED
    BY <1>0, <1>5, <2>1 DEF S!ServeConfirm, CardInv, Busy, S!KindIn
<1>6. CASE S!ConfirmAnswered
  <2>1. S!Starts("rerun", confirm.then) /\ Doable(confirm.then) /\ confirm.then \in Do
    BY <1>0, <1>6 DEF S!ConfirmAnswered, CardInv
  <2>2. \A t \in S!Slots : Busy(t)' => Doable(call'[t].do) /\ (t = "rerun" \/ S!KindIn(t)' = t)
    BY <2>1, StartsAsked DEF S!Slots
  <2>3. pending' = S!None /\ panel'.card = FALSE /\ confirm'.then = confirm.then /\ UNCHANGED stored
    BY <1>0, <1>6 DEF S!ConfirmAnswered, S!server, Panels
  <2> QED
    BY <1>0, <2>1, <2>2, <2>3 DEF CardInv
<1>7. CASE S!ConfirmRefused
  BY <1>0, <1>7 DEF S!ConfirmRefused, S!NoConfirm, S!server, CardInv, Busy, S!KindIn
<1> QED
  BY <1>1, <1>2, <1>3, <1>4, <1>5, <1>6, <1>7, ServesAsked, ReturnsAsked
     DEF S!Next, S!RecentLapses, settingVars

LEMMA CardStart == S!Init => CardInv
<1> SUFFICES ASSUME S!Init PROVE CardInv
  OBVIOUS
<1>1. \A s \in S!Slots : ~Busy(s)
  BY NothingIsTyped DEF S!Init, Busy
<1> QED
  BY <1>1 DEF S!Init, CardInv, S!NoConfirm

-----------------------------------------------------------------------------
(* What a form holds.                                                        *)

\* What a form holds, and how often it was changed.
FormCounted == edits \in 0 .. MaxChanged /\ verdict \in F!Answers
FormKnown == FormInv /\ FormCounted

LEMMA FormIsTyped == FormKnown => F!TypeOK
BY DEF FormKnown, FormCounted, FormInv, FormTyped, F!TypeOK

LEMMA FormGoesOn == FormKnown /\ [F!Next]_formVars => FormKnown'
<1> SUFFICES ASSUME FormKnown, [F!Next]_formVars PROVE FormKnown'
  OBVIOUS
<1>1. FormInv'
  BY FormInvStep DEF FormKnown
<1>2. edits' = edits \/ (edits < MaxChanged /\ edits' = edits + 1)
  BY DEF F!Next, F!Edit, F!Submit, formVars
<1>3. verdict' \in F!Answers
  BY DEF F!Next, F!Edit, F!Submit, formVars, F!Answers, FormKnown, FormCounted
<1>4. edits \in 0 .. MaxChanged /\ MaxChanged \in Nat
  BY BoundsAssumption DEF FormKnown, FormCounted
<1> QED
  BY <1>1, <1>2, <1>3, <1>4 DEF FormKnown, FormCounted

LEMMA FormBegins == F!Init => FormKnown
<1> SUFFICES ASSUME F!Init PROVE FormKnown
  OBVIOUS
<1>1. FormTyped /\ F!VerdictsAgree
  BY FormStart DEF F!Init, F!VerdictsAgree
<1>2. edits = 0 /\ verdict = "editing"
  BY DEF F!Init
<1> QED
  BY <1>1, <1>2, BoundsAssumption DEF FormKnown, FormCounted, FormInv, F!Answers

-----------------------------------------------------------------------------
(* How far a plan may get.                                                   *)

\* How far a plan may get, and what it has paid.
Bounded(r) == /\ r.paid \in Nat /\ r.months \in 0 .. MaxMonths
              /\ \A d \in PlannedDebts : r.payoff[d] \in 0 .. MaxMonths

LEMMA PaidMonthBounded ==
    ASSUME PlansTyped, NEW p, NEW r \in PlanRow, Bounded(r), r.months < MaxMonths
    PROVE  Bounded(P!Pay(p, r))
<1> DEFINE due == P!WithInterest(p, r)
           needed == P!MinimumDue(due, P!Active(r))
           money == IF p = "minimum" THEN needed ELSE P!Selected(P!BudgetOf(p))
           after == P!AfterPayments(p, r, due, money)
           payoff == [d \in PlannedDebts |-> IF d \in P!Active(r) /\ after[d] = 0
                                             THEN r.months + 1 ELSE r.payoff[d]]
           given == P!Total(due, P!Active(r)) - P!Total(after, P!Active(r))
           outcome == IF /\ P!Total(after, PlannedDebts) >= P!Total(r.owed, PlannedDebts)
                         /\ money <= needed
                      THEN "non_amortizing" ELSE "running"
           interest == r.interest + P!InterestOf(p, r)
           q == P!Pay(p, r)
<1>1. \/ q = [r EXCEPT !.months = @ + 1, !.interest = interest, !.owed = due,
                       !.outcome = "budget_below_minimum"]
      \/ q = [r EXCEPT !.months = @ + 1, !.interest = interest, !.owed = after,
                       !.paid = @ + given, !.payoff = payoff, !.outcome = outcome]
  BY DEF P!Pay, PlanRow
<1>2. due \in [PlannedDebts -> Nat]
  BY DueTyped
<1>3. needed \in Nat /\ money \in Nat
  <2>1. needed \in Nat
    BY <1>2, MinimumDueTyped DEF PlansTyped, P!Active
  <2> QED
    BY <2>1, MoneyTyped
<1>4. /\ after \in [PlannedDebts -> Nat]
      /\ \A d \in PlannedDebts : after[d] <= due[d]
  <2>1. /\ after \in [PlannedDebts -> Nat]
        /\ \A d \in PlannedDebts : /\ after[d] <= P!Greater(due[d] - planned[d].minimum, 0)
                                   /\ P!Greater(due[d] - planned[d].minimum, 0) \in Nat
                                   /\ P!Greater(due[d] - planned[d].minimum, 0) <= due[d]
    <3> HIDE DEF due, needed, money
    <3>1. money \in Int
      BY <1>3
    <3> QED
      BY <1>2, <3>1, AfterTyped
  <2> HIDE DEF after, due
  <2> QED
    BY <1>2, <2>1
<1> HIDE DEF due, needed, money, after
<1>5. given \in Nat
  <2> DEFINE U == P!Active(r)
             spent_ == [d \in U |-> due[d] - after[d]]
  <2>1. U \in SUBSET PlannedDebts /\ IsFiniteSet(U)
    BY PlannerAssumption, FS_Subset DEF P!Active
  <2>2. \A d \in U : after[d] \in Nat /\ spent_[d] \in Nat /\ due[d] = after[d] + spent_[d]
    BY <1>2, <1>4, <2>1
  <2> HIDE DEF U, spent_
  <2>3. /\ Total(due, U) = Total(after, U) + Total(spent_, U)
        /\ Total(after, U) \in Nat /\ Total(spent_, U) \in Nat
    BY <2>1, <2>2, TotalAdds, TotalIsNat
  <2>4. P!Total(due, U) = Total(due, U) /\ P!Total(after, U) = Total(after, U)
    BY <2>1, PlanTotal
  <2> QED
    BY <2>3, <2>4 DEF U
<1> HIDE DEF q, outcome, interest, given
<1>6. q.months = r.months + 1 /\ q.paid \in {r.paid, r.paid + given} /\ q.payoff \in {r.payoff, payoff}
  BY <1>1 DEF PlanRow
<1>7. MaxMonths \in Nat /\ r.months + 1 \in 0 .. MaxMonths
  BY PlannerAssumption DEF Bounded
<1>8. \A d \in PlannedDebts : q.payoff[d] \in {r.payoff[d], r.months + 1}
  BY <1>6
<1> HIDE DEF payoff
<1>9. r.paid + given \in Nat
  BY <1>5 DEF Bounded
<1> QED
  BY <1>6, <1>7, <1>8, <1>9 DEF Bounded, q

LEMMA MonthBounded ==
    ASSUME PlansTyped, NEW p, NEW r \in PlanRow, Bounded(r)
    PROVE  Bounded(P!Month(p, r))
<1>1. \A o : Bounded([r EXCEPT !.outcome = o])
  BY DEF Bounded, PlanRow
<1>2. MaxMonths \in Nat /\ r.months \in Nat
  BY PlannerAssumption DEF PlanRow
<1>3. \/ P!Month(p, r) = r
      \/ P!Month(p, r) = [r EXCEPT !.outcome = "max_months_reached"]
      \/ P!Month(p, r) = [r EXCEPT !.outcome = "feasible"]
      \/ r.months < MaxMonths /\ P!Month(p, r) = P!Pay(p, r)
  BY <1>2 DEF P!Month
<1> QED
  BY <1>1, <1>3, PaidMonthBounded

\* What the comparison reads of a plan.
LEMMA PlanFigures ==
    ASSUME PlansTyped, NEW p \in P!Plans
    PROVE  /\ P!Feasible(p) \in BOOLEAN /\ plan[p].months \in Nat /\ plan[p].interest \in Nat
           /\ P!Remaining(p) \in Nat
<1>1. plan[p] \in PlanRow
  BY DEF PlansTyped
<1>2. IsFiniteSet(PlannedDebts) /\ \A d \in PlannedDebts : plan[p].owed[d] \in Nat
  BY <1>1, PlannerAssumption DEF PlanRow
<1>3. P!Total(plan[p].owed, PlannedDebts) \in Nat
  BY <1>2, PlanTotal, TotalIsNat
<1> QED
  BY <1>1, <1>3 DEF P!Feasible, P!Remaining, PlanRow

\* Of the three orders one comes out best: none of the others is better.
LEMMA BestIsBest ==
    ASSUME PlansTyped, NEW name \in [P!Strategies -> P!Plans]
    PROVE  /\ P!Best(name) \in P!Strategies
           /\ \A t \in P!Strategies : ~P!Better(name[t], name[P!Best(name)])
<1> DEFINE Beats(s, t) == /\ ~P!Better(name[t], name[s])
                          /\ P!Better(name[s], name[t]) \/ P!Rank[s] < P!Rank[t]
           Order == {x \in P!Strategies \X P!Strategies : Beats(x[1], x[2])}
           feasible(s) == P!Feasible(name[s])
           months(s) == plan[name[s]].months
           interest(s) == plan[name[s]].interest
           remaining(s) == P!Remaining(name[s])
<1>1. \A s \in P!Strategies : /\ feasible(s) \in BOOLEAN /\ months(s) \in Nat /\ interest(s) \in Nat
                              /\ remaining(s) \in Nat
  BY PlanFigures
<1>2. \A s, t : P!Better(name[s], name[t]) <=>
        \/ feasible(s) /\ ~feasible(t)
        \/ feasible(s) /\ feasible(t) /\ months(s) < months(t)
        \/ /\ feasible(s) <=> feasible(t)
           /\ feasible(s) => months(s) = months(t)
           /\ \/ interest(s) < interest(t)
              \/ interest(s) = interest(t) /\ remaining(s) < remaining(t)
  BY DEF P!Better, P!Feasible
<1>3. /\ \A s \in P!Strategies : P!Rank[s] \in Nat
      /\ \A s, t \in P!Strategies : P!Rank[s] = P!Rank[t] => s = t
  BY DEF P!Rank, P!Strategies
<1>4. \A x, y \in P!Strategies : <<x, y>> \in Order <=> Beats(x, y)
  OBVIOUS
<1> HIDE DEF Order, feasible, months, interest, remaining
<1>5. \A x, y \in P!Strategies : x = y \/ Beats(x, y) \/ Beats(y, x)
  BY <1>1, <1>2, <1>3
<1>6. \A x, y, z \in P!Strategies : Beats(x, y) /\ Beats(y, z) => Beats(x, z)
  BY <1>1, <1>2, <1>3
<1> HIDE DEF Beats
<1>7. IsFiniteSet(P!Strategies) /\ P!Strategies # {}
  <2>1. IsFiniteSet({"AVALANCHE"} \cup {"SNOWBALL"} \cup {"HYBRID"})
    BY FS_Singleton, FS_Union
  <2>2. P!Strategies = {"AVALANCHE"} \cup {"SNOWBALL"} \cup {"HYBRID"}
    BY DEF P!Strategies
  <2> QED
    BY <2>1, <2>2
<1>8. \E s \in P!Strategies : \A t \in P!Strategies \ {s} : <<s, t>> \in Order
  BY <1>4, <1>5, <1>6, <1>7, SomeIsFirst
<1>9. \E s \in P!Strategies : \A t \in P!Strategies \ {s} : Beats(s, t)
  BY <1>4, <1>8
<1>10. P!Best(name) \in P!Strategies /\ \A t \in P!Strategies \ {P!Best(name)} : Beats(P!Best(name), t)
  BY <1>9 DEF P!Best, Beats
<1>11. \A s \in P!Strategies : ~P!Better(name[s], name[s])
  BY <1>1, <1>2
<1> QED
  BY <1>10, <1>11 DEF Beats

AdviceTyped == advice = P!NoAdvice \/ advice.strategy \in P!Strategies
PlannerKnown == /\ PlannerInv /\ AdviceTyped /\ budget \in MonthlyBudgets
                /\ \A p \in P!Plans : Bounded(plan[p])

LEMMA AdviceNames == PlansTyped => P!Advice.strategy \in P!Strategies
<1> SUFFICES ASSUME PlansTyped PROVE P!Advice.strategy \in P!Strategies
  OBVIOUS
<1>1. /\ [s \in P!Strategies |-> s] \in [P!Strategies -> P!Plans]
      /\ P!Boosted \in [P!Strategies -> P!Plans]
  BY DEF P!Plans, P!Boosted, P!Strategies
<1>2. P!Best([s \in P!Strategies |-> s]) \in P!Strategies /\ P!Best(P!Boosted) \in P!Strategies
  BY <1>1, BestIsBest
<1> QED
  BY <1>2 DEF P!Advice

LEMMA PlannerIsTyped == PlannerKnown => P!TypeOK
<1> SUFFICES ASSUME PlannerKnown PROVE P!TypeOK
  OBVIOUS
<1> DEFINE Row == [owed : [PlannedDebts -> Nat], paid : Nat, interest : Nat,
                   months : 0 .. MaxMonths, payoff : [PlannedDebts -> 0 .. MaxMonths],
                   outcome : PlanOutcomes]
<1>1. plan \in [P!Plans -> PlanRow]
  BY DEF PlannerKnown, PlannerInv, PlansTyped
<1>2. ASSUME NEW p \in P!Plans PROVE plan[p] \in Row
  <2>1. plan[p] \in PlanRow /\ Bounded(plan[p])
    BY <1>1 DEF PlannerKnown
  <2>2. plan[p].payoff \in [PlannedDebts -> 0 .. MaxMonths]
    BY <2>1 DEF Bounded, PlanRow
  <2> QED
    BY <2>1, <2>2 DEF Bounded, PlanRow
<1>3. plan \in [P!Plans -> Row]
  BY <1>1, <1>2
<1> QED
  BY <1>3 DEF P!TypeOK, PlannerKnown, AdviceTyped, PlannerInv, PlansTyped, PlanOutcomes

LEMMA PlannerGoesOn == PlannerKnown /\ [P!Next]_planVars => PlannerKnown'
<1> SUFFICES ASSUME PlannerKnown, [P!Next]_planVars PROVE PlannerKnown'
  OBVIOUS
<1>0. PlansTyped /\ PlannerInv' /\ budget' = budget
  BY PlannerStep DEF PlannerKnown, PlannerInv, planVars, P!Next, P!NextMonth, P!Compare
<1>1. AdviceTyped'
  <2>1. advice' = advice \/ advice' = P!Advice
    BY DEF planVars, P!Next, P!NextMonth, P!Compare
  <2>2. P!NoAdvice' = P!NoAdvice /\ P!Strategies' = P!Strategies
    OBVIOUS
  <2> QED
    BY <1>0, <2>1, <2>2, AdviceNames DEF PlannerKnown, AdviceTyped
<1>2. \A p \in P!Plans : Bounded(plan[p])'
  <2>1. CASE plan' = plan
    BY <2>1 DEF PlannerKnown, Bounded
  <2>2. CASE P!NextMonth
    <3> SUFFICES ASSUME NEW p \in P!Plans PROVE Bounded(plan[p])'
      OBVIOUS
    <3>1. plan'[p] = P!Month(p, plan[p])
      BY <2>2 DEF P!NextMonth
    <3>2. Bounded(plan'[p])
      BY <1>0, <3>1, MonthBounded DEF PlannerKnown, PlansTyped
    <3> QED
      BY <3>2 DEF Bounded
  <2> QED
    BY <2>1, <2>2 DEF planVars, P!Next, P!Compare
<1> QED
  BY <1>0, <1>1, <1>2 DEF PlannerKnown

LEMMA PlannerBegins == P!Init => PlannerKnown
<1> SUFFICES ASSUME P!Init PROVE PlannerKnown
  OBVIOUS
<1>1. PlannerInv /\ budget \in MonthlyBudgets /\ advice = P!NoAdvice
  BY PlannerStart DEF P!Init
<1>2. ASSUME NEW p \in P!Plans PROVE Bounded(plan[p])
  <2>1. plan[p] = P!Start
    BY DEF P!Init
  <2> QED
    BY <2>1, PlannerAssumption DEF P!Start, Bounded
<1> QED
  BY <1>1, <1>2 DEF PlannerKnown, AdviceTyped

-----------------------------------------------------------------------------
(* Every page, with all that is known of it.                                 *)

OpenPages == {"loan", "planner", "dashboard", "reports", "notices", "access", "gates",
              "settings", "forms", "payments", "wizard", "debts"}
PagesKnown ==
    /\ open = "loan" => IInv
    /\ open = "planner" => PlannerKnown
    /\ open = "dashboard" => DashTyped
    /\ open = "reports" => ReportsInv /\ R!TypeOK
    /\ open = "notices" => NoticesKnown
    /\ open = "access" => AccessTyped
    /\ open = "gates" => GatesInv /\ G!TypeOK
    /\ open = "settings" => SettingsKnown
    /\ open = "forms" => FormKnown
    /\ ScreensInv

LEMMA PagesOpen == OpenInit => PagesKnown /\ open \in OpenPages
<1> SUFFICES ASSUME OpenInit PROVE PagesKnown /\ open \in OpenPages
  OBVIOUS
<1>1. /\ open = "loan" => IInv
      /\ open = "planner" => PlannerKnown
      /\ open = "dashboard" => DashTyped
  BY InitHolds, PlannerBegins, DashBegins DEF OpenInit
<1>2. /\ open = "reports" => ReportsInv /\ R!TypeOK
      /\ open = "notices" => NoticesKnown
      /\ open = "access" => AccessTyped
  BY ReportsBegin, NoticesOpen, AccessBegins DEF OpenInit
<1>3. /\ open = "gates" => GatesInv /\ G!TypeOK
      /\ open = "settings" => SettingsKnown
      /\ open = "forms" => FormKnown
  BY GatesStart, GatesBeginTyped, SettingsBegin, CardStart, FormBegins DEF OpenInit, SettingsKnown
<1>4. ScreensInv /\ open \in OpenPages
  BY ScreensStart DEF OpenInit, OpenPages
<1> QED
  BY <1>1, <1>2, <1>3, <1>4 DEF PagesKnown

LEMMA PagesGoOn == PagesKnown /\ [OpenNext]_allVars => PagesKnown'
<1> SUFFICES ASSUME PagesKnown, [OpenNext]_allVars PROVE PagesKnown'
  OBVIOUS
<1>1. open' = open
  BY PageMoves
<1>2. ScreensInv'
  BY ScreensStep DEF PagesKnown
<1>3. open = "loan" => IInv'
  BY PageMoves, StepHolds DEF PagesKnown
<1>4. open = "planner" => PlannerKnown'
  BY PageMoves, PlannerGoesOn DEF PagesKnown
<1>5. open = "dashboard" => DashTyped'
  BY PageMoves, DashIsTyped DEF PagesKnown
<1>6. open = "reports" => ReportsInv' /\ R!TypeOK'
  BY PageMoves, ReportsStep, ReportsAreTyped DEF PagesKnown
<1>7. open = "notices" => NoticesKnown'
  BY PageMoves, NoticesGoOn DEF PagesKnown
<1>8. open = "access" => AccessTyped'
  BY PageMoves, AccessIsTyped DEF PagesKnown
<1>9. open = "gates" => GatesInv' /\ G!TypeOK'
  BY PageMoves, GatesStep, GatesAreTyped DEF PagesKnown
<1>10. open = "settings" => SettingsKnown'
  BY PageMoves, SettingsStep, CardStep DEF PagesKnown, SettingsKnown
<1>11. open = "forms" => FormKnown'
  BY PageMoves, FormGoesOn DEF PagesKnown
<1> QED
  BY <1>1, <1>2, <1>3, <1>4, <1>5, <1>6, <1>7, <1>8, <1>9, <1>10, <1>11 DEF PagesKnown

LEMMA PagesKnowTheirTypes == PagesKnown /\ open \in OpenPages => PagesTyped
<1> SUFFICES ASSUME PagesKnown, open \in OpenPages PROVE PagesTyped
  OBVIOUS
<1>1. /\ open = "loan" => TypeOK
      /\ open = "planner" => P!TypeOK
      /\ open = "dashboard" => D!TypeOK
      /\ open = "reports" => R!TypeOK
      /\ open = "notices" => N!TypeOK
      /\ open = "access" => A!TypeOK
      /\ open = "gates" => G!TypeOK
      /\ open = "settings" => S!TypeOK
      /\ open = "forms" => F!TypeOK
  BY PlannerIsTyped, NoticesAreTyped, SettingsAreTyped, FormIsTyped
     DEF PagesKnown, IInv, DashTyped, AccessTyped
<1>2. /\ open = "payments" => E!TypeOK
      /\ open = "wizard" => W!TypeOK
      /\ open = "debts" => T!TypeOK
  BY DeskIsTyped, WizardIsTyped, DebtsAreTyped DEF PagesKnown, ScreensInv
<1> QED
  BY <1>1, <1>2 DEF PagesTyped, OpenPages

\* On every page of the program, for any inputs within the assumptions, what is stored, shown
\* or under way is of its type: a plan has paid an amount and takes no more months than are
\* simulated, a notice was born on a day and is mailed no more often than runs are cut, the
\* card that asks for a confirmation shows while an action waits for it, a slot at rest holds
\* nothing.
THEOREM PagesAreTyped == PagesSpec => []PagesTyped
<1>1. OpenInit => PagesKnown /\ open \in OpenPages
  BY PagesOpen
<1>2. PagesKnown /\ open \in OpenPages /\ [OpenNext]_allVars => (PagesKnown /\ open \in OpenPages)'
  BY PageMoves, PagesGoOn
<1>3. PagesKnown /\ open \in OpenPages => PagesTyped
  BY PagesKnowTheirTypes
<1> QED
  BY <1>1, <1>2, <1>3, PTL DEF PagesSpec

-----------------------------------------------------------------------------
(* What the planner recommends.                                              *)

\* A relation ranks some when of two one is before the other, in one direction and in no circle.
Ranks(rel, some) ==
    /\ \A x, y \in some : x = y \/ <<x, y>> \in rel \/ <<y, x>> \in rel
    /\ \A x, y, z \in some : <<x, y>> \in rel /\ <<y, z>> \in rel => <<x, z>> \in rel
    /\ \A x \in some : <<x, x>> \notin rel

RankedBefore(rel, some, d) == {e \in some : <<e, d>> \in rel}

\* What each of some gets of what is left: what those ranked before it leave, at most its room.
PouredInto(rel, room, left, some) ==
    [d \in some |-> P!Lesser(room[d], P!Greater(left - Total(room, RankedBefore(rel, some, d)), 0))]

LEMMA RanksFewer ==
    ASSUME NEW some, NEW rel, Ranks(rel, some), NEW part \in SUBSET some PROVE Ranks(rel, part)
BY DEF Ranks

\* Of finitely many, ranked, one is last.
LEMMA SomeIsLast ==
    ASSUME NEW some, IsFiniteSet(some), some # {}, NEW rel,
           \A x, y \in some : x = y \/ <<x, y>> \in rel \/ <<y, x>> \in rel,
           \A x, y, z \in some : <<x, y>> \in rel /\ <<y, z>> \in rel => <<x, z>> \in rel
    PROVE  \E x \in some : \A y \in some \ {x} : <<y, x>> \in rel
<1> DEFINE Back == {x \in some \X some : <<x[2], x[1]>> \in rel}
<1>1. \A x, y \in some : <<x, y>> \in Back <=> <<y, x>> \in rel
  BY Zenon
<1> HIDE DEF Back
<1>2. \A x, y \in some : x = y \/ <<x, y>> \in Back \/ <<y, x>> \in Back
  BY <1>1, Zenon
<1>3. \A x, y, z \in some : <<x, y>> \in Back /\ <<y, z>> \in Back => <<x, z>> \in Back
  <2> SUFFICES ASSUME NEW x \in some, NEW y \in some, NEW z \in some,
                      <<x, y>> \in Back, <<y, z>> \in Back
               PROVE  <<x, z>> \in Back
    OBVIOUS
  <2>1. <<z, y>> \in rel /\ <<y, x>> \in rel
    BY <1>1
  <2>2. <<z, x>> \in rel
    BY <2>1
  <2> QED
    BY <1>1, <2>2
<1>4. PICK x \in some : \A y \in some \ {x} : <<x, y>> \in Back
  BY <1>2, <1>3, SomeIsFirst
<1> QED
  BY <1>1, <1>4

LEMMA SomeRanksLast ==
    ASSUME NEW some, IsFiniteSet(some), some # {}, NEW rel, Ranks(rel, some)
    PROVE  \E x \in some : \A y \in some \ {x} : <<y, x>> \in rel
BY SomeIsLast DEF Ranks

\* One more, ranked last, takes its room or what the others leave.
LEMMA OneMoreTakes ==
    ASSUME NEW part, IsFiniteSet(part), NEW rel, Ranks(rel, part),
           NEW last \in part, \A y \in part \ {last} : <<y, last>> \in rel,
           NEW room, \A x \in part : room[x] \in Nat, NEW left \in Nat,
           Total(PouredInto(rel, room, left, part \ {last}), part \ {last})
             = P!Lesser(left, Total(room, part \ {last}))
    PROVE  Total(PouredInto(rel, room, left, part), part) = P!Lesser(left, Total(room, part))
<1> DEFINE but == part \ {last}
           mine == PouredInto(rel, room, left, part)
           theirs == PouredInto(rel, room, left, but)
           taken == Total(room, but)
<1>1. but \in SUBSET part /\ IsFiniteSet(but) /\ last \notin but
  BY FS_Subset
<1>2. RankedBefore(rel, part, last) = but
  <2>1. <<last, last>> \notin rel
    BY DEF Ranks
  <2> QED
    BY <2>1 DEF RankedBefore
<1>3. ASSUME NEW d \in but PROVE RankedBefore(rel, part, d) = RankedBefore(rel, but, d)
  <2>1. <<d, last>> \in rel /\ <<last, last>> \notin rel
    BY DEF Ranks
  <2>2. <<last, d>> \notin rel
    BY <2>1 DEF Ranks
  <2> QED
    BY <2>2 DEF RankedBefore
<1>4. ASSUME NEW some \in SUBSET part PROVE Total(room, some) \in Nat
  <2>1. IsFiniteSet(some) /\ \A x \in some : room[x] \in Nat
    BY FS_Subset
  <2> QED
    BY <2>1, TotalIsNat
<1>5. taken \in Nat /\ room[last] \in Nat
  BY <1>1, <1>4
<1>6. Total(room, part) = room[last] + taken
  <2>1. \A x \in part : room[x] \in Int
    OBVIOUS
  <2> QED
    BY <2>1, TotalTakes
<1>7. mine[last] = P!Lesser(room[last], P!Greater(left - taken, 0))
  BY <1>2 DEF PouredInto
<1>8. \A d \in but : mine[d] = theirs[d]
  BY <1>1, <1>3 DEF PouredInto
<1>9. ASSUME NEW d \in part PROVE mine[d] \in Nat
  <2>1. PICK n \in Nat : n = Total(room, RankedBefore(rel, part, d))
    BY <1>4 DEF RankedBefore
  <2>2. mine[d] = P!Lesser(room[d], P!Greater(left - n, 0))
    BY <2>1 DEF PouredInto
  <2>3. room[d] \in Nat
    OBVIOUS
  <2> HIDE DEF mine
  <2> QED
    BY <2>2, <2>3 DEF P!Lesser, P!Greater
<1> HIDE DEF mine, theirs, taken
<1>10. Total(mine, part) = mine[last] + Total(mine, but)
  BY <1>9, TotalTakes
<1>11. Total(mine, but) = Total(theirs, but)
  <2> HIDE DEF but
  <2> QED
    BY <1>1, <1>8, TotalOfSame
<1>12. Total(theirs, but) = P!Lesser(left, taken)
  BY DEF theirs, taken
<1>13. Total(mine, part) = P!Lesser(left, Total(room, part))
  <2> HIDE DEF but
  <2> QED
    BY <1>5, <1>6, <1>7, <1>10, <1>11, <1>12 DEF P!Lesser, P!Greater
<1> QED
  BY <1>13 DEF mine

\* What is poured into debts one after another, to each at most what it takes, comes to what
\* there is, or to all they take.
LEMMA Pouring ==
    ASSUME NEW takers, IsFiniteSet(takers), NEW rel, Ranks(rel, takers),
           NEW room, \A x \in takers : room[x] \in Nat, NEW left \in Nat
    PROVE  Total(PouredInto(rel, room, left, takers), takers) = P!Lesser(left, Total(room, takers))
<1> DEFINE Comes(some) == Total(PouredInto(rel, room, left, some), some)
                            = P!Lesser(left, Total(room, some))
           Failures == {part \in SUBSET takers : ~Comes(part)}
<1>1. Failures \in SUBSET SUBSET takers
  BY Zenon
<1>2. \A part \in SUBSET takers : part \in Failures <=> ~Comes(part)
  BY Zenon
<1> HIDE DEF Failures, Comes
<1>3. SUFFICES ASSUME Failures # {} PROVE FALSE
  <2>1. Failures = {} => Comes(takers)
    BY <1>2, Zenon
  <2> QED
    BY <2>1 DEF Comes
<1>4. PICK part \in Failures : \A fewer \in SUBSET part : fewer # part => fewer \notin Failures
  BY <1>1, <1>3, SmallestFailure
<1>5. part \in SUBSET takers /\ ~Comes(part)
  BY <1>1, <1>2
<1>6. IsFiniteSet(part) /\ Ranks(rel, part)
  BY <1>5, FS_Subset, RanksFewer
<1>7. Comes({})
  <2>1. Total(PouredInto(rel, room, left, {}), {}) = 0 /\ Total(room, {}) = 0
    BY TotalOfNone
  <2> QED
    BY <2>1 DEF Comes, P!Lesser
<1>8. PICK last \in part : \A y \in part \ {last} : <<y, last>> \in rel
  <2>1. part # {}
    BY <1>5, <1>7
  <2> QED
    BY <1>6, <2>1, SomeRanksLast
<1>9. Comes(part \ {last})
  <2>1. part \ {last} \in SUBSET part /\ part \ {last} # part /\ part \ {last} \in SUBSET takers
    BY <1>5
  <2>2. part \ {last} \notin Failures
    BY <1>4, <2>1
  <2> QED
    BY <1>2, <2>1, <2>2
<1>10. Comes(part)
  <2>1. \A x \in part : room[x] \in Nat
    BY <1>5
  <2> QED
    BY <1>6, <1>8, <1>9, <2>1, OneMoreTakes DEF Comes
<1> QED
  BY <1>5, <1>10

\* A finite set of numbers has a greatest.
LEMMA MaxIsIn ==
    ASSUME NEW them \in SUBSET Nat, IsFiniteSet(them), them # {} PROVE P!Max(them) \in Nat
<1> DEFINE Order == {x \in them \X them : x[1] <= x[2]}
<1>1. \A x, y \in them : <<x, y>> \in Order <=> x <= y
  OBVIOUS
<1>2. \A x \in them : x \in Nat
  OBVIOUS
<1> HIDE DEF Order
<1>3. /\ \A x, y \in them : x = y \/ <<x, y>> \in Order \/ <<y, x>> \in Order
      /\ \A x, y, z \in them : <<x, y>> \in Order /\ <<y, z>> \in Order => <<x, z>> \in Order
  BY <1>1, <1>2
<1>4. PICK m \in them : \A y \in them \ {m} : <<y, m>> \in Order
  BY <1>3, SomeIsLast
<1>5. ASSUME NEW y \in them PROVE y <= m
  <2>1. y \in Nat /\ m \in Nat
    BY <1>2, <1>4
  <2>2. y # m => <<y, m>> \in Order
    BY <1>4
  <2>3. y # m => y <= m
    BY <1>1, <1>4, <2>2
  <2> QED
    BY <2>1, <2>3
<1> QED
  BY <1>2, <1>5 DEF P!Max

\* What a finite set is mapped to is finite.
LEMMA ImageIsFinite == ASSUME NEW some, IsFiniteSet(some), NEW g PROVE IsFiniteSet({g[x] : x \in some})
<1> DEFINE h == [x \in some |-> g[x]]
           image == {g[x] : x \in some}
<1>1. h \in Surjection(some, image)
  BY DEF Surjection
<1> QED
  BY <1>1, FS_Surjection

\* The plans of the comparison: one budget, no extra inputs, all orders.
Even == P!Strategies \cup {P!Boosted[s] : s \in P!Strategies}

LEMMA ScoreIsANumber ==
    ASSUME PlansTyped, NEW p, NEW r \in PlanRow, NEW d \in PlannedDebts
    PROVE  P!Score(p, r.owed, P!Active(r), d) \in Int
<1> DEFINE rates == {P!RateOf(p, e) : e \in P!Active(r)} \cup {1}
           amounts == {r.owed[e] : e \in P!Active(r)} \cup {1}
<1>1. IsFiniteSet(P!Active(r)) /\ P!Active(r) \subseteq PlannedDebts
  BY PlannerAssumption, FS_Subset DEF P!Active
<1>2. \A e \in PlannedDebts : P!RateOf(p, e) \in Nat /\ r.owed[e] \in Nat
  BY MonthsDue, 0 \in Nat DEF PlanRow
<1>3. IsFiniteSet(rates) /\ IsFiniteSet(amounts)
  <2> DEFINE rate == [e \in P!Active(r) |-> P!RateOf(p, e)]
  <2>1. /\ IsFiniteSet({rate[e] : e \in P!Active(r)})
        /\ IsFiniteSet({r.owed[e] : e \in P!Active(r)})
    BY <1>1, ImageIsFinite
  <2>2. {rate[e] : e \in P!Active(r)} = {P!RateOf(p, e) : e \in P!Active(r)}
    OBVIOUS
  <2> QED
    BY <2>1, <2>2, FS_AddElement
<1>4. rates \in SUBSET Nat /\ amounts \in SUBSET Nat /\ rates # {} /\ amounts # {}
  BY <1>1, <1>2
<1>5. P!Max(rates) \in Nat /\ P!Max(amounts) \in Nat
  <2> HIDE DEF rates, amounts
  <2> QED
    BY <1>3, <1>4, MaxIsIn
<1>6. PICK a \in Nat, b \in Nat : a = P!Max(rates) /\ b = P!Max(amounts)
  BY <1>5
<1>7. PICK x \in Nat, y \in Nat : x = P!RateOf(p, d) /\ y = r.owed[d]
  BY <1>2
<1> DEFINE rate == x * b
           size == (b - y) * a
<1>8. rate \in Int /\ size \in Int
  BY <1>6, <1>7
<1>9. P!Score(p, r.owed, P!Active(r), d) =
        CASE P!StrategyOf(p) = "AVALANCHE" -> rate * 100 + size
          [] P!StrategyOf(p) = "SNOWBALL"  -> size * 100 + rate
          [] OTHER -> rate * RateWeight + size * BalanceWeight
  BY <1>6, <1>7 DEF P!Score
<1> HIDE DEF rate, size
<1>10. RateWeight \in Nat /\ BalanceWeight \in Nat
  BY RankingAssumption
<1> QED
  BY <1>8, <1>9, <1>10

\* The debts of a plan that favours none are attacked in a strict order.
LEMMA AheadIsAnOrder ==
    ASSUME PlansTyped, NEW p \in Even, NEW r \in PlanRow,
           NEW d \in P!Active(r), NEW e \in P!Active(r), NEW f \in P!Active(r)
    PROVE  LET before(x, y) == P!Ahead(p, r.owed, P!Active(r), x, y) IN
           /\ d = e \/ before(d, e) \/ before(e, d)
           /\ before(d, e) /\ before(e, f) => before(d, f)
           /\ ~before(d, d)
<1> DEFINE score(x) == P!Score(p, r.owed, P!Active(r), x)
           before(x, y) == P!Ahead(p, r.owed, P!Active(r), x, y)
<1>1. P!FocusOf(p) = {}
  BY DEF Even, P!FocusOf, P!Strategies, P!Boosted
<1>2. \A x, y : before(x, y) <=>
        \/ score(x) > score(y)
        \/ score(x) = score(y) /\ P!DueFirst(x, y)
        \/ score(x) = score(y) /\ ~P!DueFirst(x, y) /\ ~P!DueFirst(y, x) /\ Index[x] < Index[y]
  BY <1>1 DEF P!Ahead
<1>3. d \in PlannedDebts /\ e \in PlannedDebts /\ f \in PlannedDebts
  BY DEF P!Active
<1>4. score(d) \in Int /\ score(e) \in Int /\ score(f) \in Int
  BY <1>3, ScoreIsANumber
<1>5. /\ Index[d] \in Int /\ Index[e] \in Int /\ Index[f] \in Int
      /\ d # e => Index[d] # Index[e]
  BY <1>3, RankingAssumption
<1>6. planned[d].due \in Nat /\ planned[e].due \in Nat /\ planned[f].due \in Nat
  BY <1>3 DEF PlansTyped, P!Debt
<1>7. \A x, y : P!DueFirst(x, y) <=>
        \/ planned[x].due # 0 /\ planned[y].due = 0
        \/ planned[x].due # 0 /\ planned[x].due < planned[y].due
  BY DEF P!DueFirst
<1> HIDE DEF score, before
<1>8. d = e \/ before(d, e) \/ before(e, d)
  BY <1>2, <1>4, <1>5, <1>6, <1>7
<1>9. before(d, e) /\ before(e, f) => before(d, f)
  BY <1>2, <1>4, <1>5, <1>6, <1>7
<1>10. ~before(d, d)
  BY <1>2, <1>4, <1>5, <1>6, <1>7
<1> QED
  BY <1>8, <1>9, <1>10 DEF before

\* A month that pays the minimums spends the whole budget, or all that is due.
LEMMA BudgetIsSpent ==
    ASSUME PlansTyped, NEW p \in Even, NEW r \in PlanRow, NEW due \in [PlannedDebts -> Nat],
           NEW money \in Nat, P!MinimumDue(due, P!Active(r)) <= money
    PROVE  Total(due, P!Active(r)) - Total(P!AfterPayments(p, r, due, money), P!Active(r))
             = P!Lesser(money, Total(due, P!Active(r)))
<1> DEFINE taken == P!Active(r)
           least == [d \in PlannedDebts |-> P!Lesser(due[d], planned[d].minimum)]
           rest == [d \in PlannedDebts |-> P!Greater(due[d] - planned[d].minimum, 0)]
           needed == P!MinimumDue(due, taken)
           left == money - needed
           before(d) == {e \in taken : P!Ahead(p, r.owed, taken, e, d)}
           order == {x \in taken \X taken : P!Ahead(p, r.owed, taken, x[1], x[2])}
           poured == PouredInto(order, rest, left, taken)
           after == P!AfterPayments(p, r, due, money)
<1>1. taken \in SUBSET PlannedDebts /\ IsFiniteSet(taken)
  BY PlannerAssumption, FS_Subset DEF P!Active
<1>2. \A d \in PlannedDebts : /\ due[d] \in Nat /\ least[d] \in Nat /\ rest[d] \in Nat
                              /\ due[d] = least[d] + rest[d]
  BY DEF PlansTyped, P!Debt, P!Lesser, P!Greater
<1>3. needed = Total(least, taken)
  BY <1>1, PlanTotal DEF P!MinimumDue
<1>4. after = [d \in PlannedDebts |->
                 rest[d] - P!Lesser(rest[d], P!Greater(left - P!Total(rest, before(d)), 0))]
  BY DEF P!AfterPayments
<1>5. \A d : P!Total(rest, before(d)) = Total(rest, before(d))
  <2> SUFFICES ASSUME NEW d PROVE P!Total(rest, before(d)) = Total(rest, before(d))
    OBVIOUS
  <2>1. IsFiniteSet(before(d))
    BY <1>1, FS_Subset
  <2> HIDE DEF rest, before
  <2> QED
    BY <2>1, PlanTotal
<1>6. \A d \in taken : before(d) = RankedBefore(order, taken, d)
  BY DEF RankedBefore
<1>7. \A x, y \in taken : <<x, y>> \in order <=> P!Ahead(p, r.owed, taken, x, y)
  OBVIOUS
<1> HIDE DEF order
<1>8. \A d \in taken : poured[d] = P!Lesser(rest[d], P!Greater(left - Total(rest, before(d)), 0))
  <2> HIDE DEF rest, before, left, taken
  <2> QED
    BY <1>6 DEF PouredInto
<1>9. \A d \in taken : after[d] = rest[d] - poured[d]
  <2> HIDE DEF rest, before, left, after, poured
  <2> QED
    BY <1>1, <1>4, <1>5, <1>8
<1> HIDE DEF least, needed, after
<1>10. Total(due, taken) = needed + Total(rest, taken)
  <2>1. \A d \in taken : least[d] \in Int /\ rest[d] \in Int /\ due[d] = least[d] + rest[d]
    BY <1>1, <1>2
  <2> HIDE DEF rest, taken
  <2> QED
    BY <1>1, <1>3, <2>1, TotalAdds
<1>11. needed \in Nat /\ left \in Nat
  <2>1. needed \in Nat
    BY MinimumDueTyped, <1>1 DEF PlansTyped, needed
  <2> QED
    BY <2>1 DEF needed
<1>12. Total(poured, taken) = P!Lesser(left, Total(rest, taken))
  <2>1. ASSUME NEW x \in taken, NEW y \in taken, NEW z \in taken
        PROVE  /\ x = y \/ P!Ahead(p, r.owed, taken, x, y) \/ P!Ahead(p, r.owed, taken, y, x)
               /\ P!Ahead(p, r.owed, taken, x, y) /\ P!Ahead(p, r.owed, taken, y, z)
                    => P!Ahead(p, r.owed, taken, x, z)
               /\ ~P!Ahead(p, r.owed, taken, x, x)
    BY AheadIsAnOrder
  <2>2. \A x \in taken : rest[x] \in Nat
    BY <1>1, <1>2
  <2> HIDE DEF rest, left, taken
  <2>3. Ranks(order, taken)
    <3>1. \A x, y \in taken : x = y \/ <<x, y>> \in order \/ <<y, x>> \in order
      BY <1>7, <2>1, Zenon
    <3>2. \A x, y, z \in taken : <<x, y>> \in order /\ <<y, z>> \in order => <<x, z>> \in order
      BY <1>7, <2>1
    <3>3. \A x \in taken : <<x, x>> \notin order
      BY <1>7, <2>1
    <3> QED
      BY <3>1, <3>2, <3>3 DEF Ranks
  <2> QED
    BY <1>1, <1>11, <2>2, <2>3, Pouring
<1>13. \A d \in taken : /\ rest[d] \in Nat /\ poured[d] \in Nat /\ after[d] \in Int
                        /\ rest[d] = after[d] + poured[d]
  <2>1. \A d \in taken : Total(rest, before(d)) \in Nat
    <3> SUFFICES ASSUME NEW d \in taken PROVE Total(rest, before(d)) \in Nat
      OBVIOUS
    <3>1. IsFiniteSet(before(d)) /\ \A e \in before(d) : rest[e] \in Nat
      BY <1>1, <1>2, FS_Subset
    <3> HIDE DEF rest, before
    <3> QED
      BY <3>1, TotalIsNat
  <2>2. \A d \in taken : rest[d] \in Nat
    BY <1>1, <1>2
  <2> HIDE DEF rest, before, left, poured
  <2>3. \A d \in taken : poured[d] \in Nat
    BY <1>11, <1>8, <2>1, <2>2 DEF P!Lesser, P!Greater
  <2> HIDE DEF taken
  <2> QED
    BY <1>9, <2>2, <2>3
<1> HIDE DEF rest, poured, taken
<1>14. Total(rest, taken) = Total(after, taken) + Total(poured, taken)
  BY <1>1, <1>13, TotalAdds
<1>15. Total(rest, taken) \in Nat /\ Total(after, taken) \in Int
  BY <1>1, <1>13, TotalIsNat, TotalIsInt
<1>16. Total(due, taken) - Total(after, taken) = P!Lesser(money, Total(due, taken))
  BY <1>10, <1>11, <1>12, <1>14, <1>15 DEF P!Lesser
<1> QED
  BY <1>16 DEF after, taken

\* What a plan of the comparison may spend in a month.
MoneyOf(p) == P!Selected(P!BudgetOf(p))

\* A month after which a plan still runs has spent its budget, or has nothing left to pay.
LEMMA PaidMonthSpends ==
    ASSUME PlansTyped, NEW p \in Even, NEW r \in PlanRow, P!Active(r) # {},
           P!Pay(p, r).outcome = "running"
    PROVE  LET q == P!Pay(p, r) IN
           /\ q.months = r.months + 1 /\ q.paid > r.paid /\ q.paid <= r.paid + MoneyOf(p)
           /\ (\E d \in PlannedDebts : q.owed[d] > 0) => q.paid = r.paid + MoneyOf(p)
<1> DEFINE due == P!WithInterest(p, r)
           taken == P!Active(r)
           needed == P!MinimumDue(due, taken)
           money == MoneyOf(p)
           after == P!AfterPayments(p, r, due, money)
           payoff == [d \in PlannedDebts |-> IF d \in P!Active(r) /\ after[d] = 0
                                             THEN r.months + 1 ELSE r.payoff[d]]
           given == P!Total(due, taken) - P!Total(after, taken)
           outcome == IF /\ P!Total(after, PlannedDebts) >= P!Total(r.owed, PlannedDebts)
                         /\ money <= needed
                      THEN "non_amortizing" ELSE "running"
           interest == r.interest + P!InterestOf(p, r)
           q == P!Pay(p, r)
<1>0. p # "minimum"
  BY DEF Even, P!Strategies, P!Boosted
<1>1. IF money < needed
      THEN q = [r EXCEPT !.months = @ + 1, !.interest = interest, !.owed = due,
                         !.outcome = "budget_below_minimum"]
      ELSE q = [r EXCEPT !.months = @ + 1, !.interest = interest, !.owed = after,
                         !.paid = @ + given, !.payoff = payoff, !.outcome = outcome]
  BY <1>0 DEF P!Pay, PlanRow, MoneyOf
<1>2. /\ due \in [PlannedDebts -> Nat]
      /\ \A d \in PlannedDebts : r.owed[d] > 0 <=> due[d] > 0
  BY DueTyped
<1>3. needed \in Nat /\ money \in Nat
  <2>1. needed \in Nat
    BY <1>2, MinimumDueTyped DEF PlansTyped, P!Active
  <2> QED
    BY <2>1, MoneyTyped DEF MoneyOf
<1>4. /\ after \in [PlannedDebts -> Nat]
      /\ \A d \in PlannedDebts : after[d] <= due[d]
  <2>1. /\ after \in [PlannedDebts -> Nat]
        /\ \A d \in PlannedDebts : /\ after[d] <= P!Greater(due[d] - planned[d].minimum, 0)
                                   /\ P!Greater(due[d] - planned[d].minimum, 0) \in Nat
                                   /\ P!Greater(due[d] - planned[d].minimum, 0) <= due[d]
    <3> HIDE DEF due, needed, money
    <3>1. money \in Int
      BY <1>3
    <3> QED
      BY <1>2, <3>1, AfterTyped
  <2> HIDE DEF after, due
  <2> QED
    BY <1>2, <2>1
<1>5. taken \in SUBSET PlannedDebts /\ IsFiniteSet(taken)
  BY PlannerAssumption, FS_Subset DEF P!Active
<1> HIDE DEF due, needed, money, after, interest, payoff, outcome, q
<1>6. /\ ~(money < needed) /\ outcome = "running"
      /\ q.months = r.months + 1 /\ q.paid = r.paid + given /\ q.owed = after
  <2>1. q.outcome = "running"
    BY DEF q
  <2>2. ~(money < needed)
    BY <1>1, <2>1 DEF PlanRow
  <2> QED
    BY <1>1, <2>1, <2>2 DEF PlanRow
<1>7. given = P!Lesser(money, Total(due, taken))
  <2>1. needed <= money
    BY <1>3, <1>6
  <2>2. Total(due, taken) - Total(after, taken) = P!Lesser(money, Total(due, taken))
    BY <1>2, <1>3, <2>1, BudgetIsSpent DEF needed, after
  <2> QED
    BY <1>5, <2>2, PlanTotal
<1>8. /\ \A d \in PlannedDebts \ taken : due[d] = 0 /\ after[d] = 0
      /\ \A d \in taken : due[d] > 0
  BY <1>2, <1>4 DEF P!Active
<1>9. /\ Total(due, PlannedDebts) = Total(due, taken) /\ Total(after, PlannedDebts) = Total(after, taken)
      /\ Total(due, taken) \in Nat /\ Total(after, taken) \in Nat
  <2>1. \A d \in PlannedDebts : due[d] \in Nat /\ after[d] \in Nat
    BY <1>2, <1>4
  <2> HIDE DEF taken
  <2> QED
    BY <1>5, <1>8, <2>1, PlannerAssumption, TotalOfTheRest, TotalIsNat
<1>10. /\ Total(r.owed, PlannedDebts) \in Nat
       /\ Total(r.owed, PlannedDebts) <= Total(due, PlannedDebts)
  <2> DEFINE charged == [d \in PlannedDebts |-> IF r.owed[d] > 0 THEN P!ChargeOf(p, d) ELSE 0]
  <2>1. /\ P!InterestOf(p, r) \in Nat
        /\ Total(due, PlannedDebts)
             = Total(r.owed, PlannedDebts) + Total(charged, PlannedDebts) + P!InterestOf(p, r)
        /\ Total(r.owed, PlannedDebts) \in Nat /\ Total(charged, PlannedDebts) \in Nat
    BY DueAddsUp DEF due
  <2> HIDE DEF charged
  <2> QED
    BY <2>1
<1>11. ASSUME NEW g \in [PlannedDebts -> Nat], NEW d \in taken, g[d] > 0
       PROVE  Total(g, taken) > 0
  <2>1. /\ \A x \in taken : g[x] \in Nat
        /\ IsFiniteSet(taken \ {d})
    BY <1>5, FS_Subset
  <2> HIDE DEF taken
  <2>2. Total(g, taken) = g[d] + Total(g, taken \ {d}) /\ Total(g, taken \ {d}) \in Nat
    BY <1>5, <2>1, TotalTakes, TotalIsNat
  <2> QED
    BY <1>11, <2>1, <2>2
<1>12. Total(due, taken) > 0
  BY <1>2, <1>8, <1>11
<1>13. money > 0
  <2> SUFFICES ASSUME money = 0 PROVE FALSE
    BY <1>3
  <2>1. given = 0
    BY <1>7, <1>9 DEF P!Lesser
  <2>2. P!Total(due, taken) = Total(due, taken) /\ P!Total(after, taken) = Total(after, taken)
    BY <1>5, PlanTotal
  <2>3. Total(after, PlannedDebts) >= Total(r.owed, PlannedDebts)
    BY <1>9, <1>10, <2>1, <2>2
  <2>4. /\ P!Total(after, PlannedDebts) = Total(after, PlannedDebts)
        /\ P!Total(r.owed, PlannedDebts) = Total(r.owed, PlannedDebts)
    BY PlannerAssumption, PlanTotal
  <2> QED
    BY <1>3, <1>6, <2>3, <2>4 DEF outcome
<1>14. ASSUME NEW d \in PlannedDebts, after[d] > 0 PROVE given = money
  <2>1. d \in taken
    BY <1>8, <1>14
  <2>2. Total(after, taken) > 0
    BY <1>4, <1>11, <1>14, <2>1
  <2>3. given = Total(due, taken) - Total(after, taken)
    BY <1>5, PlanTotal
  <2> QED
    BY <1>3, <1>7, <1>9, <2>2, <2>3 DEF P!Lesser
<1>15. given > 0 /\ given <= money /\ given \in Nat
  <2> HIDE DEF given
  <2> QED
    BY <1>3, <1>7, <1>9, <1>12, <1>13 DEF P!Lesser
<1>16. r.paid \in Int
  BY DEF PlanRow
<1>17. /\ q.paid > r.paid /\ q.paid <= r.paid + money
       /\ (\E d \in PlannedDebts : q.owed[d] > 0) => q.paid = r.paid + money
  <2> HIDE DEF given
  <2> QED
    BY <1>3, <1>6, <1>14, <1>15, <1>16
<1> QED
  BY <1>6, <1>17 DEF q, money

LEMMA MonthPays ==
    ASSUME NEW p, NEW r \in PlanRow
    PROVE  LET q == P!Month(p, r) IN
           \/ r.outcome # "running" /\ q = r
           \/ r.outcome = "running" /\ q = [r EXCEPT !.outcome = "max_months_reached"]
           \/ r.outcome = "running" /\ P!Active(r) = {} /\ q = [r EXCEPT !.outcome = "feasible"]
           \/ r.outcome = "running" /\ P!Active(r) # {} /\ q = P!Pay(p, r)
<1>1. r.months \in Nat /\ MaxMonths \in Nat
  BY PlannerAssumption DEF PlanRow
<1> QED
  BY <1>1 DEF P!Month

\* What a plan of the comparison has paid: its budget month by month, but for the last.
Spent(p, r) ==
    r.outcome \in {"running", "feasible"} =>
      /\ r.paid <= r.months * MoneyOf(p)
      /\ r.months = 0 \/ r.paid > (r.months - 1) * MoneyOf(p)
      /\ r.months = 0 => P!Active(r) # {}
      /\ P!Active(r) # {} => r.outcome = "running" /\ r.paid = r.months * MoneyOf(p)

LEMMA MonthSpends ==
    ASSUME PlansTyped, NEW p \in Even, NEW r \in PlanRow, Spent(p, r)
    PROVE  Spent(p, P!Month(p, r))
<1>1. CASE r.outcome # "running" /\ P!Month(p, r) = r
  BY <1>1
<1>2. CASE P!Month(p, r) = [r EXCEPT !.outcome = "max_months_reached"]
  BY <1>2 DEF Spent, PlanRow
<1>3. CASE /\ r.outcome = "running" /\ P!Active(r) = {}
           /\ P!Month(p, r) = [r EXCEPT !.outcome = "feasible"]
  <2>1. PICK q : q = [r EXCEPT !.outcome = "feasible"]
    OBVIOUS
  <2>2. q.owed = r.owed /\ q.paid = r.paid /\ q.months = r.months /\ q.outcome = "feasible"
    BY <2>1 DEF PlanRow
  <2>3. P!Active(q) = P!Active(r)
    BY <2>2 DEF P!Active
  <2> QED
    BY <1>3, <2>1, <2>2, <2>3 DEF Spent
<1>4. CASE r.outcome = "running" /\ P!Active(r) # {} /\ P!Month(p, r) = P!Pay(p, r)
  <2> DEFINE q == P!Pay(p, r)
  <2> SUFFICES ASSUME q.outcome \in {"running", "feasible"} PROVE Spent(p, q)
    BY <1>4 DEF Spent
  <2>1. q.outcome = "running"
    BY DEF P!Pay, PlanRow
  <2>2. /\ q.months = r.months + 1 /\ q.paid > r.paid /\ q.paid <= r.paid + MoneyOf(p)
        /\ (\E d \in PlannedDebts : q.owed[d] > 0) => q.paid = r.paid + MoneyOf(p)
    BY <1>4, <2>1, PaidMonthSpends
  <2>3. PICK m \in Nat, b \in Nat : m = r.months /\ b = MoneyOf(p)
    BY MoneyTyped DEF MoneyOf, PlanRow
  <2>4. r.paid = m * b
    BY <1>4, <2>3 DEF Spent
  <2>5. (m + 1) * b = m * b + b /\ m * b \in Nat
    BY <2>3
  <2>6. q.months = m + 1 /\ q.months - 1 = m /\ q.months # 0
    BY <2>2, <2>3
  <2>7. P!Active(q) # {} => q.paid = r.paid + b
    BY <2>2, <2>3 DEF P!Active
  <2> HIDE DEF q
  <2>8. /\ q.paid <= (m + 1) * b /\ q.paid > m * b
        /\ P!Active(q) # {} => q.paid = (m + 1) * b
    BY <2>2, <2>3, <2>4, <2>5, <2>7
  <2> QED
    BY <2>1, <2>3, <2>6, <2>8 DEF Spent
<1> QED
  BY <1>1, <1>2, <1>3, <1>4, MonthPays

LEMMA SpentAtFirst == PlansTyped => \A p \in Even : Spent(p, P!Start)
<1> SUFFICES ASSUME PlansTyped, NEW p \in Even PROVE Spent(p, P!Start)
  OBVIOUS
<1>1. P!Start.owed = P!Owed0 /\ P!Start.paid = 0 /\ P!Start.months = 0 /\ P!Start.outcome = "running"
  BY DEF P!Start
<1>2. P!Active(P!Start) # {}
  BY <1>1 DEF PlansTyped, P!Active, P!Owed0, P!Debt
<1>3. PICK b \in Nat : b = MoneyOf(p)
  BY MoneyTyped DEF MoneyOf
<1>4. 0 * b = 0
  BY <1>3
<1> QED
  BY <1>1, <1>2, <1>3, <1>4 DEF Spent

\* A plan of the comparison that ended cost what it paid beyond what was owed.
LEMMA EndedCosts ==
    ASSUME PlannerInv, NEW p \in Even, Spent(p, plan[p]), P!Feasible(p)
    PROVE  plan[p].interest = plan[p].paid - OwedAtFirst /\ OwedAtFirst \in Nat
<1>1. p \in P!Plans /\ plan[p] \in PlanRow /\ PlansTyped
  BY DEF Even, P!Plans, PlannerInv, PlansTyped
<1>2. \A d \in PlannedDebts : P!ChargeOf(p, d) = 0
  BY DEF P!ChargeOf, Even, P!Strategies, P!Boosted
<1>3. \A d \in PlannedDebts : Charges(p, plan[p])[d] = 0
  <2> SUFFICES ASSUME NEW d \in PlannedDebts PROVE Charges(p, plan[p])[d] = 0
    OBVIOUS
  <2>1. PICK n \in Nat : n = IF plan[p].payoff[d] > 0 THEN plan[p].payoff[d] ELSE plan[p].months
    BY <1>1 DEF PlanRow
  <2>2. Charges(p, plan[p])[d] = 0 * n
    BY <1>2, <2>1 DEF Charges
  <2> QED
    BY <2>1, <2>2
<1>4. \A d \in PlannedDebts : plan[p].owed[d] = 0
  <2>1. P!Active(plan[p]) = {}
    BY DEF Spent, P!Feasible
  <2>2. \A d \in PlannedDebts : plan[p].owed[d] \in Nat
    BY <1>1 DEF PlanRow
  <2> QED
    BY <2>1, <2>2 DEF P!Active
<1>5. Total(Charges(p, plan[p]), PlannedDebts) = 0 /\ Total(plan[p].owed, PlannedDebts) = 0
  BY <1>3, <1>4, PlannerAssumption, TotalOfZeros
<1>6. OwedAtFirst \in Nat
  <2>1. \A d \in PlannedDebts : P!Owed0[d] \in Nat
    BY <1>1 DEF PlansTyped, P!Owed0, P!Debt
  <2> QED
    BY <2>1, PlannerAssumption, TotalIsNat DEF OwedAtFirst
<1>7. Conserved(p, plan[p])
  BY <1>1 DEF PlannerInv
<1>8. plan[p].interest \in Nat /\ plan[p].paid \in Int
  BY <1>1 DEF PlanRow
<1> QED
  BY <1>5, <1>6, <1>7, <1>8 DEF Conserved

LEMMA ProductsOrder ==
    ASSUME NEW m \in Nat, NEW n \in Nat, NEW b \in Nat, NEW c \in Nat, m <= n, b <= c
    PROVE  m * b \in Nat /\ n * c \in Nat /\ m * b <= n * c
<1>1. m * b \in Nat /\ n * b \in Nat /\ n * c \in Nat
  OBVIOUS
<1>2. m * b <= n * b /\ n * b <= n * c
  BY Z3
<1> QED
  BY <1>1, <1>2

\* Of two plans that ended, the one with no more money that took fewer months cost less, and
\* the one with no less money that cost no more took no more months.
LEMMA SoonerIsCheaper ==
    ASSUME PlannerInv, NEW p \in Even, NEW q \in Even, Spent(p, plan[p]), Spent(q, plan[q]),
           P!Feasible(p), P!Feasible(q)
    PROVE  /\ MoneyOf(p) <= MoneyOf(q) /\ plan[p].months < plan[q].months
                => plan[p].interest < plan[q].interest
           /\ MoneyOf(q) <= MoneyOf(p) /\ plan[p].interest <= plan[q].interest
                => plan[p].months <= plan[q].months
<1>1. /\ p \in P!Plans /\ plan[p] \in PlanRow /\ q \in P!Plans /\ plan[q] \in PlanRow /\ PlansTyped
  BY DEF Even, P!Plans, PlannerInv, PlansTyped
<1>2. PICK m \in Nat, n \in Nat, b \in Nat, c \in Nat :
        m = plan[p].months /\ n = plan[q].months /\ b = MoneyOf(p) /\ c = MoneyOf(q)
  BY <1>1, MoneyTyped DEF MoneyOf, PlanRow
<1>3. PICK x \in Int, y \in Int, o \in Nat : x = plan[p].paid /\ y = plan[q].paid /\ o = OwedAtFirst
  BY <1>1, EndedCosts DEF PlanRow
<1>4. plan[p].interest = x - o /\ plan[q].interest = y - o
  BY <1>3, EndedCosts
<1>5. m # 0 /\ n # 0
  BY <1>2 DEF Spent, P!Feasible
<1>6. x <= m * b /\ x > (m - 1) * b /\ y <= n * c /\ y > (n - 1) * c
  BY <1>2, <1>3, <1>5 DEF Spent, P!Feasible
<1>7. ASSUME b <= c, m < n PROVE x < y
  <2>1. n - 1 \in Nat /\ m <= n - 1
    BY <1>7
  <2>2. m * b <= (n - 1) * c /\ m * b \in Nat /\ (n - 1) * c \in Nat
    BY <1>7, <2>1, ProductsOrder
  <2> QED
    BY <1>6, <2>2
<1>8. ASSUME c <= b, x <= y PROVE m <= n
  <2> SUFFICES ASSUME ~(m <= n) PROVE FALSE
    OBVIOUS
  <2>1. m - 1 \in Nat /\ n <= m - 1
    OBVIOUS
  <2>2. n * c <= (m - 1) * b /\ n * c \in Nat /\ (m - 1) * b \in Nat
    BY <1>8, <2>1, ProductsOrder
  <2> QED
    BY <1>6, <1>8, <2>2
<1>9. x - o < y - o <=> x < y
  BY <1>3
<1>10. x - o <= y - o <=> x <= y
  BY <1>3
<1> QED
  BY <1>2, <1>4, <1>7, <1>8, <1>9, <1>10

\* Each order has the same money as the others, and more once boosted.
LEMMA EvenMoney ==
    ASSUME PlansTyped, NEW s \in P!Strategies, NEW t \in P!Strategies
    PROVE  /\ MoneyOf(s) = MoneyOf(t) /\ MoneyOf(P!Boosted[s]) = MoneyOf(P!Boosted[t])
           /\ MoneyOf(s) <= MoneyOf(P!Boosted[t])
           /\ s \in Even /\ P!Boosted[s] \in Even
<1> DEFINE least == P!MinimumDue(P!Owed0, PlannedDebts)
<1>1. \A x \in P!Strategies : P!BudgetOf(x) = budget
  BY DEF P!BudgetOf, P!Strategies, P!Boosted
<1>2. \A x \in P!Strategies : P!BudgetOf(P!Boosted[x]) = P!Selected(budget) + P!SuggestedExtra
  <2> SUFFICES ASSUME NEW x \in P!Strategies
               PROVE  P!BudgetOf(P!Boosted[x]) = P!Selected(budget) + P!SuggestedExtra
    OBVIOUS
  <2>1. P!Boosted[x] \in {P!Boosted[other] : other \in P!Strategies}
    OBVIOUS
  <2>2. P!Boosted[x] # "extra"
    BY DEF P!Strategies, P!Boosted
  <2> QED
    BY <2>1, <2>2 DEF P!BudgetOf
<1>3. least \in Nat
  <2>1. P!Owed0 \in [PlannedDebts -> Nat]
    BY DEF PlansTyped, P!Owed0, P!Debt
  <2> QED
    BY <2>1, MinimumDueTyped DEF PlansTyped
<1>4. P!SuggestedExtra \in Nat
  BY SuggestedTyped
<1>5. budget \in Nat
  BY DEF PlansTyped
<1>6. \A x : P!Selected(x) = P!Greater(x, least)
  BY DEF P!Selected
<1> HIDE DEF least
<1>7. P!Selected(budget) <= P!Selected(P!Selected(budget) + P!SuggestedExtra)
  BY <1>3, <1>4, <1>5, <1>6 DEF P!Greater
<1> QED
  BY <1>1, <1>2, <1>7 DEF MoneyOf, Even

\* The plans an advice was chosen from: each order, with the budget it is given for.
Rival(a, s) == IF a.boosted THEN P!Boosted[s] ELSE s
\* No plan of its budget that ends is cheaper or sooner, nor is the plan in use sooner; and
\* nobody is asked for more money but to save something.
GoodAdvice(a) ==
    /\ \A s \in P!Strategies :
         P!Feasible(Rival(a, s)) => P!Feasible(a.plan) /\ P!Saves(a.plan, Rival(a, s))
    /\ P!Feasible(current) => P!Feasible(a.plan) /\ plan[a.plan].months <= plan[current].months
    /\ a.boosted => P!Improves(a.plan, current)
SpentAll == \A p \in Even : Spent(p, plan[p])

LEMMA BestSaves ==
    ASSUME PlannerInv, SpentAll, NEW p \in Even, NEW q \in Even, MoneyOf(p) = MoneyOf(q),
           ~P!Better(q, p), P!Feasible(q)
    PROVE  P!Feasible(p) /\ P!Saves(p, q)
<1>1. P!Feasible(p)
  BY DEF P!Better
<1>2. /\ plan[p].months \in Nat /\ plan[q].months \in Nat
      /\ plan[p].interest \in Nat /\ plan[q].interest \in Nat
  BY PlanFigures DEF Even, P!Plans, PlannerInv
<1>3. plan[p].months <= plan[q].months
  BY <1>1, <1>2 DEF P!Better
<1>4. CASE plan[p].months = plan[q].months
  BY <1>1, <1>2, <1>3, <1>4 DEF P!Better, P!Saves
<1>5. CASE plan[p].months < plan[q].months
  <2>1. MoneyOf(p) <= MoneyOf(q)
    BY MoneyTyped DEF MoneyOf, PlannerInv
  <2>2. plan[p].interest < plan[q].interest
    BY <1>1, <1>5, <2>1, SoonerIsCheaper DEF SpentAll
  <2> QED
    BY <1>1, <1>2, <1>3, <2>2 DEF P!Saves
<1> QED
  BY <1>2, <1>3, <1>4, <1>5

LEMMA AdviceIsGood == ASSUME PlannerInv, SpentAll PROVE GoodAdvice(P!Advice)
<1> DEFINE own == [s \in P!Strategies |-> s]
           plain == P!Best(own)
           boost == P!Best(P!Boosted)
           a == P!Advice
<1>0. PlansTyped /\ current \in P!Strategies
  BY DEF PlannerInv, PlansTyped
<1>1. own \in [P!Strategies -> P!Plans] /\ P!Boosted \in [P!Strategies -> P!Plans]
  BY DEF P!Plans, P!Boosted, P!Strategies
<1>2. /\ plain \in P!Strategies /\ \A t \in P!Strategies : ~P!Better(own[t], own[plain])
      /\ boost \in P!Strategies /\ \A t \in P!Strategies : ~P!Better(P!Boosted[t], P!Boosted[boost])
  <2> HIDE DEF own
  <2> QED
    BY <1>0, <1>1, BestIsBest
<1>3. \/ a = [strategy |-> plain, plan |-> plain, boosted |-> FALSE]
      \/ /\ a = [strategy |-> boost, plan |-> P!Boosted[boost], boosted |-> TRUE]
         /\ P!Improves(P!Boosted[boost], current)
  BY DEF P!Advice
<1> HIDE DEF a, boost
<1>4. CASE a = [strategy |-> plain, plan |-> plain, boosted |-> FALSE]
  <2>1. \A t \in P!Strategies : ~P!Better(t, plain)
    BY <1>2
  <2> HIDE DEF plain
  <2>2. a.plan = plain /\ ~a.boosted /\ \A s : Rival(a, s) = s
    BY <1>4 DEF Rival
  <2>3. ASSUME NEW s \in P!Strategies, P!Feasible(s)
        PROVE  P!Feasible(plain) /\ P!Saves(plain, s)
    BY <1>0, <1>2, <2>1, <2>3, EvenMoney, BestSaves
  <2>4. P!Feasible(current) => P!Feasible(plain) /\ plan[plain].months <= plan[current].months
    BY <1>0, <2>3 DEF P!Saves
  <2> QED
    BY <2>2, <2>3, <2>4 DEF GoodAdvice, a
<1>5. CASE /\ a = [strategy |-> boost, plan |-> P!Boosted[boost], boosted |-> TRUE]
           /\ P!Improves(P!Boosted[boost], current)
  <2> DEFINE b == P!Boosted[boost]
  <2>1. a.plan = b /\ \A s : Rival(a, s) = P!Boosted[s]
    BY <1>5 DEF Rival
  <2>2. b \in Even /\ current \in Even /\ MoneyOf(current) <= MoneyOf(b)
    BY <1>0, <1>2, EvenMoney
  <2>3. ASSUME NEW s \in P!Strategies, P!Feasible(P!Boosted[s])
        PROVE  P!Feasible(b) /\ P!Saves(b, P!Boosted[s])
    BY <1>0, <1>2, <2>3, EvenMoney, BestSaves
  <2>4. /\ P!Feasible(b) /\ P!Feasible(current)
        /\ plan[b].interest < plan[current].interest \/ plan[b].months < plan[current].months
    BY <1>5 DEF P!Improves
  <2>5. /\ plan[b].months \in Nat /\ plan[current].months \in Nat
        /\ plan[b].interest \in Nat /\ plan[current].interest \in Nat
    BY <1>0, <2>2, PlanFigures DEF Even, P!Plans
  <2> HIDE DEF b
  <2>6. plan[b].interest <= plan[current].interest => plan[b].months <= plan[current].months
    BY <2>2, <2>4, SoonerIsCheaper DEF SpentAll
  <2>7. plan[b].months <= plan[current].months
    BY <2>4, <2>5, <2>6
  <2> USE DEF b
  <2> QED
    BY <1>5, <2>1, <2>3, <2>4, <2>7 DEF GoodAdvice, a
<1> QED
  BY <1>3, <1>4, <1>5 DEF a

\* An advice is given once every plan has come to its end, and no plan moves any more.
AdviceInv ==
    /\ PlannerInv /\ SpentAll
    /\ advice # P!NoAdvice => GoodAdvice(advice) /\ \A p \in P!Plans : plan[p].outcome # "running"

LEMMA AdviceStart == P!Init => AdviceInv
<1> SUFFICES ASSUME P!Init PROVE AdviceInv
  OBVIOUS
<1>1. PlannerInv /\ PlansTyped /\ advice = P!NoAdvice /\ \A p \in P!Plans : plan[p] = P!Start
  BY PlannerStart DEF P!Init, PlannerInv
<1>2. Even \subseteq P!Plans
  BY DEF Even, P!Plans
<1> QED
  BY <1>1, <1>2, SpentAtFirst DEF AdviceInv, SpentAll

LEMMA AdviceStep == AdviceInv /\ [P!Next]_planVars => AdviceInv'
<1> SUFFICES ASSUME AdviceInv, [P!Next]_planVars PROVE AdviceInv'
  OBVIOUS
<1>1. UNCHANGED <<planned, budget, current, focus>> /\ PlannerInv'
  BY PlannerStep DEF AdviceInv, planVars, P!Next, P!NextMonth, P!Compare
<1>2. \A p : MoneyOf(p)' = MoneyOf(p)
  BY <1>1 DEF MoneyOf, P!Selected, P!BudgetOf, P!SuggestedExtra, P!MinimumDue, P!Owed0
<1>3. \A p, r : Spent(p, r)' <=> Spent(p, r)
  BY <1>2 DEF Spent, P!Active
<1>4. CASE P!NextMonth
  <2>1. advice = P!NoAdvice /\ advice' = advice /\ P!NoAdvice' = P!NoAdvice
    BY <1>4 DEF P!NextMonth, AdviceInv, P!NoAdvice
  <2>2. ASSUME NEW p \in Even PROVE Spent(p, plan[p])'
    <3>1. p \in P!Plans /\ PlansTyped /\ plan[p] \in PlanRow
      BY <2>2 DEF Even, P!Plans, AdviceInv, PlannerInv, PlansTyped
    <3>2. plan'[p] = P!Month(p, plan[p])
      BY <1>4, <3>1 DEF P!NextMonth
    <3>3. Spent(p, plan'[p])
      BY <3>1, <3>2, MonthSpends DEF AdviceInv, SpentAll
    <3> QED
      BY <1>2, <3>3 DEF Spent, P!Active
  <2> QED
    BY <1>1, <2>1, <2>2 DEF AdviceInv, SpentAll
<1>5. CASE plan' = plan
  <2>1. SpentAll'
    BY <1>2, <1>5 DEF AdviceInv, SpentAll, Spent, P!Active
  <2>2. \A a : GoodAdvice(a) => (advice' = a => GoodAdvice(advice)')
    BY <1>1, <1>5 DEF GoodAdvice, Rival, P!Feasible, P!Saves, P!Improves
  <2>3. CASE advice' = advice
    BY <1>1, <1>5, <2>1, <2>2, <2>3 DEF AdviceInv, P!NoAdvice
  <2>4. CASE P!Compare
    <3>1. advice' = P!Advice /\ \A p \in P!Plans : plan[p].outcome # "running"
      BY <2>4 DEF P!Compare
    <3>2. GoodAdvice(P!Advice)
      BY AdviceIsGood DEF AdviceInv
    <3> QED
      BY <1>1, <1>5, <2>1, <2>2, <3>1, <3>2 DEF AdviceInv
  <2> QED
    BY <2>3, <2>4 DEF planVars, P!Next, P!NextMonth
<1> QED
  BY <1>4, <1>5 DEF planVars, P!Next, P!Compare

\* The plan the dashboard recommends is the best of the three with its budget: none of them
\* ends for less interest or sooner.  It ends if the plan in use does, and no later.  With the
\* user's own budget it does not cost more interest either, and with a larger one it ends
\* sooner or costs less (plan-optimization.ts).
THEOREM AdviceIsBest ==
    PagesSpec => [](open = "planner" /\ advice # P!NoAdvice
                      => /\ GoodAdvice(advice)
                         /\ ~advice.boosted => P!RecommendedNeverCostsMore)
<1> DEFINE Inv == open = "planner" => AdviceInv
<1>1. OpenInit => Inv
  BY AdviceStart DEF OpenInit
<1>2. Inv /\ [OpenNext]_allVars => Inv'
  BY PageMoves, AdviceStep
<1>3. Inv => (open = "planner" /\ advice # P!NoAdvice
                => GoodAdvice(advice) /\ (~advice.boosted => P!RecommendedNeverCostsMore))
  <2> SUFFICES ASSUME AdviceInv, advice # P!NoAdvice
               PROVE  GoodAdvice(advice) /\ (~advice.boosted => P!RecommendedNeverCostsMore)
    OBVIOUS
  <2>1. GoodAdvice(advice) /\ current \in P!Strategies
    BY DEF AdviceInv, PlannerInv, PlansTyped
  <2>2. ASSUME ~advice.boosted, P!Feasible(current)
        PROVE  P!Feasible(advice.plan) /\ P!Saves(advice.plan, current)
    BY <2>1, <2>2 DEF GoodAdvice, Rival
  <2> QED
    BY <2>1, <2>2 DEF P!RecommendedNeverCostsMore
<1> QED
  BY <1>1, <1>2, <1>3, PTL DEF PagesSpec

================================================================================
