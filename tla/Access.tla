------------------------------- MODULE Access -------------------------------
(* Which page one browser ends up on: the proxy in front of every page        *)
(* (proxy.ts), the pages' own checks (app/**/page.tsx, lib/auth/session.ts,   *)
(* server/host/host-access.ts), the demo mode that stands in while the        *)
(* database is away (lib/demo, database-availability.ts), and the changes of  *)
(* the account that fall between the proxy's look and the page's.             *)
EXTENDS Integers

CONSTANTS MaxHops   \* redirects counted, beyond which the count stays

Public == {"/login"}                        \* /registro is alike
Members == {"/deudas", "/configuracion"}    \* /pagos, /planes, ... are like /deudas
Internal == {"/host", "/host/unlock", "/admin"}
Paths == Public \cup Members \cup Internal \cup {"/dashboard", "/onboarding"}
Cookies == {"dc_session", "dc_demo_session", "dc_host_gate"}

VARIABLES deploy,   \* the environment: the panel is on, it has a second key, demo mode
          user,     \* staff: role ADMIN and an allowed address
          row,      \* the session of the browser's cookie exists and has not expired
          cookies, db,
          seen,     \* __databaseAvailabilityCache: "unknown", "up" or "down"
          at,       \* "asked" of the proxy, "passed" on to the page, or what came back
          hops      \* redirects followed since the user asked or anything changed

vars == <<deploy, user, row, cookies, db, seen, at, hops>>
Has(c) == c \in cookies

-----------------------------------------------------------------------------
(* lib/auth/session.ts and lib/demo/session.ts                               *)

InDemo == deploy.demo /\ Has("dc_demo_session")
isDatabaseReachable == IF seen = "unknown" THEN db ELSE seen = "up"

\* "cleared": the cookie is to be deleted, which a route handler may do and a page
\* that is being rendered may not (the framework throws).
CurrentSession ==
  CASE InDemo -> "demo"
    [] ~InDemo /\ ~Has("dc_session") -> "none"
    [] OTHER -> CASE deploy.demo /\ (~isDatabaseReachable \/ ~db) -> "cleared"
                  [] ~deploy.demo /\ ~db -> "failed"
                  [] OTHER -> IF row /\ user.active THEN "user" ELSE "cleared"

\* Demo mode asks whether the database answers and remembers it, a failure above all.
SeenAfter == IF ~deploy.demo \/ InDemo \/ ~Has("dc_session") THEN seen
             ELSE IF isDatabaseReachable /\ db THEN "up" ELSE "down"

Onboarded == InDemo \/ user.onboarded

-----------------------------------------------------------------------------
(* server/host/host-access.ts                                                *)

\* Mutant: the unlock page is held to the second key as well.
Secondary_Always(allowMissing) == deploy.secondary /\ ~Has("dc_host_gate")

Secondary(allowMissing) == deploy.secondary /\ ~Has("dc_host_gate") /\ ~allowMissing
Decision(allowMissing) ==
  IF ~deploy.panel THEN "NOT_FOUND"
  ELSE CASE CurrentSession = "failed" -> "FAILED"
         [] CurrentSession \in {"none", "cleared"} -> "LOGIN"
         [] CurrentSession = "demo" -> "NOT_FOUND"
         [] OTHER -> CASE ~user.staff -> "NOT_FOUND"
                       [] user.staff /\ ~user.mfa -> "MFA_SETUP_REQUIRED"
                       [] OTHER -> IF Secondary(allowMissing) THEN "SECONDARY_REQUIRED"
                                   ELSE "GRANTED"

Target == [LOGIN |-> "/login", SECONDARY_REQUIRED |-> "/host/unlock",
           MFA_SETUP_REQUIRED |-> "/configuracion"]

-----------------------------------------------------------------------------
(* A request: the proxy first, the page afterwards.                          *)

Show(what) == at' = [at EXCEPT !.phase = what] /\ hops' = 0
Pass == at' = [at EXCEPT !.phase = "passed"] /\ UNCHANGED hops
Redirect(path) == /\ at' = [path |-> path, phase |-> "asked"]
                  /\ hops' = IF hops < MaxHops THEN hops + 1 ELSE hops
Settled == at.phase \in {"shown", "missing", "error"}
Resolve(outcome) == IF outcome \in DOMAIN Target THEN Redirect(Target[outcome])
                    ELSE Show("missing")

Ask == \E p \in Paths :
  /\ Settled /\ at' = [path |-> p, phase |-> "asked"] /\ hops' = 0
  /\ UNCHANGED <<deploy, user, row, cookies, db, seen>>

proxy ==
  /\ at.phase = "asked"
  /\ UNCHANGED <<deploy, user, row, cookies, db>>
  /\ \/ at.path \notin Internal /\ Pass /\ UNCHANGED seen
     \/ at.path \in Internal /\ ~deploy.panel /\ Show("missing") /\ UNCHANGED seen
     \/ /\ at.path \in Internal /\ deploy.panel /\ UNCHANGED seen
        /\ IF Has("dc_session") THEN at.path = "/admin" /\ Redirect("/host")
           ELSE Redirect("/login")
     \/ /\ at.path \in {"/host", "/host/unlock"} /\ deploy.panel /\ Has("dc_session")
        /\ seen' = SeenAfter
        /\ LET outcome == Decision(at.path = "/host/unlock")
           IN  IF outcome = "GRANTED" THEN Pass ELSE Resolve(outcome)
     \* The route that decides is limited, and any answer but 200 counts as a no.
     \/ /\ at.path \in {"/host", "/host/unlock"} /\ deploy.panel /\ Has("dc_session")
        /\ Show("missing") /\ UNCHANGED seen

Home == IF Onboarded THEN "/dashboard" ELSE "/onboarding"
Serves(paths) == /\ at.phase = "passed" /\ at.path \in paths /\ seen' = SeenAfter
                 /\ UNCHANGED <<deploy, user, row, cookies, db>>
For(sessions) == CurrentSession \in sessions
Signed == {"demo", "user"}

\* The framework's error boundary, when the session cannot be had.
ErrorPage == Serves(Paths) /\ For({"cleared", "failed"}) /\ Show("error")
LoginPage == /\ Serves(Public)
             /\ \/ For({"none"}) /\ Show("shown")
                \/ For(Signed) /\ Redirect(Home)
requireUser == Serves(Paths \ Public) /\ For({"none"}) /\ Redirect("/login")
MemberPage == Serves(Members) /\ For(Signed) /\ Show("shown")
DashboardPage == /\ Serves({"/dashboard"}) /\ For(Signed)
                 /\ IF Onboarded THEN Show("shown") ELSE Redirect(Home)
OnboardingPage == /\ Serves({"/onboarding"}) /\ For(Signed)
                  /\ IF Onboarded THEN Redirect(Home) ELSE Show("shown")
HostPage(path, allowMissing) ==
  /\ Serves({path}) /\ For(Signed)
  /\ LET outcome == Decision(allowMissing)
     IN  IF outcome = "GRANTED" THEN Show("shown") ELSE Resolve(outcome)
Page == \/ ErrorPage \/ LoginPage \/ requireUser \/ MemberPage \/ DashboardPage
        \/ OnboardingPage \/ HostPage("/host", FALSE) \/ HostPage("/host/unlock", TRUE)

-----------------------------------------------------------------------------
(* What the pages let the user do.  Each ends in a new request.              *)

Goes(path) == at' = [path |-> path, phase |-> "asked"] /\ hops' = 0
On(path) == at = [path |-> path, phase |-> "shown"]

\* api/auth/login: demo accounts only while the database is not reached.
Login == /\ On("/login")
         /\ UNCHANGED <<deploy, user, db>>
         /\ LET away == deploy.demo /\ (~isDatabaseReachable \/ ~db)
            IN  \/ /\ away /\ cookies' = cookies \cup {"dc_demo_session"} /\ seen' = "down"
                   /\ Goes("/dashboard") /\ UNCHANGED row
                \/ /\ ~away /\ db /\ user.active
                   /\ cookies' = cookies \cup {"dc_session"} /\ row' = TRUE
                   /\ seen' = IF deploy.demo THEN "up" ELSE seen
                   /\ Goes(IF user.onboarded THEN "/dashboard" ELSE "/onboarding")
                \/ ~away /\ ~db /\ seen' = "down" /\ UNCHANGED <<row, cookies, at, hops>>

\* api/auth/registrar: the browser goes on with a new account.
Register ==
  /\ On("/login")
  /\ UNCHANGED <<deploy, db>>
  /\ LET away == deploy.demo /\ (~isDatabaseReachable \/ ~db)
     IN  \/ /\ away /\ cookies' = cookies \cup {"dc_demo_session"} /\ seen' = "down"
            /\ Goes("/dashboard") /\ UNCHANGED <<user, row>>
         \/ /\ ~away /\ db /\ cookies' = cookies \cup {"dc_session"} /\ row' = TRUE
            /\ user' = [active |-> TRUE, staff |-> FALSE, mfa |-> FALSE, onboarded |-> FALSE]
            /\ seen' = IF deploy.demo THEN "up" ELSE seen
            /\ Goes("/onboarding")

\* api/auth/logout: without the database, demo mode forgets the cookies only.
Logout ==
  /\ at.phase = "shown" /\ at.path \notin Public \cup {"/host/unlock"}
  /\ deploy.demo \/ db \/ ~Has("dc_session")
  /\ cookies' = cookies \ {"dc_session", "dc_demo_session"}
  /\ row' = (row /\ (InDemo \/ ~isDatabaseReachable \/ ~db))
  /\ seen' = SeenAfter /\ Goes("/login")
  /\ UNCHANGED <<deploy, user, db>>

\* api/internal/host-gate
Unlock == /\ On("/host/unlock") /\ Decision(TRUE) = "GRANTED"
          /\ cookies' = IF deploy.secondary THEN cookies \cup {"dc_host_gate"} ELSE cookies
          /\ seen' = SeenAfter /\ Goes("/host")
          /\ UNCHANGED <<deploy, user, row, db>>

\* api/auth/onboarding, for the account the cookie names.
FinishOnboarding == /\ On("/onboarding") /\ CurrentSession = "user" /\ db
                    /\ user' = [user EXCEPT !.onboarded = TRUE]
                    /\ seen' = SeenAfter /\ Goes("/dashboard")
                    /\ UNCHANGED <<deploy, row, cookies, db>>
\* api/settings/mfa/totp
SetMfa == /\ On("/configuracion") /\ CurrentSession = "user" /\ db
          /\ user' = [user EXCEPT !.mfa = ~@] /\ hops' = 0
          /\ seen' = SeenAfter
          /\ UNCHANGED <<deploy, row, cookies, db, at>>

-----------------------------------------------------------------------------
(* What changes meanwhile, between the proxy and the page too.               *)

Changed == hops' = 0 /\ UNCHANGED <<deploy, at>>
SessionEnds == row /\ row' = FALSE /\ Changed /\ UNCHANGED <<user, cookies, db, seen>>
StatusChanges == /\ user' = [user EXCEPT !.active = ~@] /\ Changed
                 /\ UNCHANGED <<row, cookies, db, seen>>
RoleChanges == /\ user' = [user EXCEPT !.staff = ~@] /\ Changed
               /\ UNCHANGED <<row, cookies, db, seen>>
DatabaseComesAndGoes == db' = ~db /\ Changed /\ UNCHANGED <<user, row, cookies, seen>>
AvailabilityLapses == /\ seen # "unknown" /\ seen' = "unknown" /\ Changed
                      /\ UNCHANGED <<user, row, cookies, db>>
CookieLapses == \E c \in cookies : /\ cookies' = cookies \ {c} /\ Changed
                                   /\ UNCHANGED <<user, row, db, seen>>

Init == /\ deploy \in [panel : BOOLEAN, secondary : BOOLEAN, demo : BOOLEAN]
        /\ user = [active |-> TRUE, staff |-> TRUE, mfa |-> FALSE, onboarded |-> FALSE]
        /\ row = FALSE /\ cookies = {} /\ db = TRUE /\ seen = "unknown"
        /\ at = [path |-> "/login", phase |-> "asked"] /\ hops = 0
Next == \/ Ask \/ proxy \/ Page \/ Login \/ Register \/ Logout \/ Unlock
        \/ FinishOnboarding \/ SetMfa \/ SessionEnds \/ StatusChanges \/ RoleChanges
        \/ DatabaseComesAndGoes \/ AvailabilityLapses \/ CookieLapses
Spec == Init /\ [][Next]_vars
-----------------------------------------------------------------------------
TypeOK == /\ user \in [active : BOOLEAN, staff : BOOLEAN, mfa : BOOLEAN, onboarded : BOOLEAN]
          /\ cookies \subseteq Cookies /\ seen \in {"unknown", "up", "down"}
          /\ at \in [path : Paths, phase : {"asked", "passed", "shown", "missing", "error"}]
          /\ hops \in 0 .. MaxHops

\* The proxy, the pages and the panel's gate each send the browser on by their own look
\* at the session: unless something changes under way, a request is answered after two
\* redirects at most, and no two checks send it back and forth.
NavigationEnds == hops <= 2
=============================================================================
