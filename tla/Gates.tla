-------------------------------- MODULE Gates --------------------------------
(* What a route of app/api asks before it calls its service, in the order it  *)
(* asks, and the limit that counts what reaches it (lib/security/rate-limit.ts*)
(* with the store of one process).  The services are the other modules'.      *)
EXTENDS Integers, Sequences, FiniteSets, FiniteSetsExt, SequencesExt

CONSTANTS Scale,       \* requests of the code that one request stands for in a limit
          LimitCap,    \* the largest limit told apart
          Window,      \* windowMs, in ticks: one window for every limited route
          MaxTime, MaxRestarts   \* bounds

\* origin: assertSameOrigin; session: getCurrentSession; recent: assertRecentAuth;
\* schema: the body; panel: assertHostPanelApiAccess; challenge: the passkey's cookie;
\* secret: the header of an internal caller; plan: the membership's features;
\* limit: assertRateLimit; config: the payment provider is not configured.
Unlimited(gates) == [gates |-> gates, limit |-> 0]
Limited(gates, limit) == [gates |-> gates,
                           limit |-> Min({(limit + Scale - 1) \div Scale, LimitCap})]

login == Limited(<<"origin", "schema", "limit">>, 10)
registrar == Limited(<<"origin", "limit", "schema">>, 5)
logout == Unlimited(<<"origin">>)
cambiarContrasena == Limited(<<"origin", "session", "recent", "schema", "limit">>, 8)
reautenticar == Limited(<<"origin", "session", "schema", "limit">>, 8)
recuperarContrasena == Limited(<<"origin", "schema", "limit">>, 5)
restablecerContrasena == Limited(<<"origin", "schema", "limit">>, 5)
onboarding == Unlimited(<<"origin", "session", "schema">>)
onboardingPreview == Unlimited(<<"origin", "session", "schema">>)
passkeyLoginOptions == Limited(<<"origin", "schema", "limit">>, 10)
passkeyLoginVerify == Limited(<<"origin", "challenge", "limit", "schema">>, 15)

getDebts == Unlimited(<<"session">>)
postDebts == Unlimited(<<"origin", "session", "schema">>)
getDebt == Unlimited(<<"session">>)
patchDebt == Unlimited(<<"origin", "session", "schema">>)
deleteDebt == Unlimited(<<"origin", "session">>)
getPayments == Unlimited(<<"session">>)
postPayments == Unlimited(<<"origin", "session", "schema">>)
patchPayment == Unlimited(<<"origin", "session", "schema">>)
deletePayment == Unlimited(<<"origin", "session">>)
readNotification == Unlimited(<<"origin", "session">>)
readAllNotifications == Unlimited(<<"origin", "session">>)
postSimulator == Unlimited(<<"origin", "session", "schema">>)
reportSummary == Unlimited(<<"session", "plan">>)
exportCsv == Unlimited(<<"session", "plan">>)
exportPdf == Unlimited(<<"session", "plan">>)

checkout == Limited(<<"origin", "session", "recent", "schema", "limit">>, 10)
portal == Limited(<<"origin", "session", "recent", "limit">>, 12)
membership == Unlimited(<<"origin", "session", "schema", "config">>)
profile == Unlimited(<<"origin", "session", "schema">>)
preferences == Unlimited(<<"origin", "session", "schema">>)
setUpTotp == Limited(<<"origin", "session", "recent", "limit", "schema">>, 5)
verifyTotp == Unlimited(<<"origin", "session", "recent", "schema">>)
disableTotp == Unlimited(<<"origin", "session", "recent", "schema">>)
passkeyOptions == Limited(<<"origin", "session", "recent", "limit">>, 5)
passkeyVerify == Limited(<<"origin", "session", "recent", "challenge", "limit", "schema">>, 10)
passkeyDelete == Limited(<<"origin", "session", "recent", "limit">>, 10)

userStatus == Unlimited(<<"origin", "panel", "schema">>)
emailTemplate == Unlimited(<<"origin", "panel", "schema">>)
hostAccess == Limited(<<"limit", "secret", "origin">>, 120)
hostGate == Limited(<<"origin", "panel", "schema", "limit">>, 10)
jobsNotifications == Limited(<<"secret", "limit">>, 20)
planEvents == Unlimited(<<"origin", "schema">>)

Routes == {login, registrar, logout, cambiarContrasena, reautenticar, recuperarContrasena,
  restablecerContrasena, onboarding, onboardingPreview, passkeyLoginOptions,
  passkeyLoginVerify, getDebts, postDebts, getDebt, patchDebt, deleteDebt, getPayments,
  postPayments, patchPayment, deletePayment, readNotification, readAllNotifications,
  postSimulator, reportSummary, exportCsv, exportPdf, checkout, portal, membership, profile,
  preferences, setUpTotp, verifyTotp, disableTotp, passkeyOptions, passkeyVerify,
  passkeyDelete, userStatus, emailTemplate, hostAccess, hostGate, jobsNotifications, planEvents}

VARIABLES route,    \* the route called, with one key
          now,
          entry,    \* memoryStore.get(key): count and resetAt, count 0 where there is none
          passed,   \* tick -> requests that the limit let through then
          restarts, \* processes that began anew, with an empty store
          answer    \* the gate that refused the last request, "served", or "none" yet

vars == <<route, now, entry, passed, restarts, answer>>
Gates == ToSet(route.gates)

-----------------------------------------------------------------------------
\* Mutant: the entry is renewed with every request, so a steady caller never gets out.
assertRateLimit_Renewed ==
  IF entry.count = 0 \/ entry.resetAt <= now THEN [count |-> 1, resetAt |-> now + Window]
  ELSE IF entry.count >= route.limit THEN [entry EXCEPT !.resetAt = now + Window]
  ELSE [count |-> entry.count + 1, resetAt |-> entry.resetAt]

\* The entry after a request; a request that changes nothing is refused.
assertRateLimit ==
  IF entry.count = 0 \/ entry.resetAt <= now THEN [count |-> 1, resetAt |-> now + Window]
  ELSE IF entry.count >= route.limit THEN entry
  ELSE [count |-> entry.count + 1, resetAt |-> entry.resetAt]
Success == entry.count = 0 \/ entry.resetAt <= now \/ entry.count < route.limit

\* A request fails the gates in wrong, and is refused by the first of them it meets.
FirstOf(wrong) == SelectInSeq(route.gates, LAMBDA g : g \in wrong)
Before(g, i) == \E k \in 1 .. Len(route.gates) : route.gates[k] = g /\ (i = 0 \/ k < i)

Call == \E wrong \in SUBSET (Gates \ {"limit"}) :
  LET first == FirstOf(wrong)
      counted == Before("limit", first)
  IN  /\ UNCHANGED <<route, now, restarts>>
      /\ IF counted
         THEN /\ entry' = assertRateLimit
              /\ passed' = IF Success THEN [passed EXCEPT ![now] = @ + 1] ELSE passed
         ELSE UNCHANGED <<entry, passed>>
      /\ answer' = IF counted /\ ~Success THEN "limit"
                   ELSE IF first = 0 THEN "served" ELSE route.gates[first]

Tick == /\ now < MaxTime /\ now' = now + 1 /\ answer' = "none"
        /\ UNCHANGED <<route, entry, passed, restarts>>
\* The store of a process goes with it.
Restart == /\ restarts < MaxRestarts /\ entry.count > 0 /\ restarts' = restarts + 1
           /\ entry' = [count |-> 0, resetAt |-> 0]
           /\ UNCHANGED <<route, now, passed, answer>>

Init == /\ route \in Routes /\ now = 0 /\ entry = [count |-> 0, resetAt |-> 0]
        /\ passed = [t \in 0 .. MaxTime |-> 0] /\ restarts = 0 /\ answer = "none"
Next == Call \/ Tick \/ Restart
Spec == Init /\ [][Next]_vars
-----------------------------------------------------------------------------
TypeOK == /\ entry.count \in 0 .. route.limit /\ entry.resetAt \in 0 .. MaxTime + Window
          /\ answer \in Gates \cup {"served", "none"}

LetThrough(first, last) == SumFunctionOnSet(passed, Max({first, 0}) .. last)

\* A caller is turned away only when the window before it let as many through as the
\* limit says; and windows that begin with a request let through at most two limits less
\* one in any stretch of their length, and one limit more for every process begun anew.
LimitHolds ==
  /\ answer = "limit" => LetThrough(now - Window + 1, now) >= route.limit
  /\ route.limit > 0 => \A t \in 0 .. now :
       LetThrough(t - Window + 1, t) < (2 + restarts) * route.limit
=============================================================================
