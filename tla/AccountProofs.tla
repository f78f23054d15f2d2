----------------------------- MODULE AccountProofs -----------------------------
(***************************************************************************)
(* However requests overlap and are cut short: each overlap revives a code *)
(* or a token, or leaves a session beside the caller's, once at most, and  *)
(* only a verification that was overtaken enables a factor nobody has      *)
(* shown.                                                                  *)
(***************************************************************************)
EXTENDS Account, FiniteSetTheorems, TLAPS

Ops == {"none", "register", "login", "reauth", "setup", "reset"} \cup Rotates
Opens == {"register", "login"} \cup Rotates
Stages == {"idle", "create", "spend", "open", "answer", "store", "revoke", "retire"}
Input == Passwords \cup Secrets \cup Codes \cup ResetTokens \cup {"none"}

RequestState ==
    [op: Ops, pc: Stages, in: Input, codes: SUBSET Codes,
     fresh: Sessions \cup Secrets \cup {"none"}, knows: Nat]

LEMMA IdleIsTyped ==
    Idle \in RequestState /\ Idle.pc = "idle" /\ Idle.op = "none" /\ Idle.codes = {} /\ Idle.knows = 0
BY DEF Idle, RequestState, Ops, Stages, Input

-----------------------------------------------------------------------------
(* What requests that overlap cannot upset: the types.                     *)

\* What a request must have in hand where it stands, whatever others do.
Fits(r) ==
    /\ r.pc = "idle" => r.op = "none"
    /\ r.pc = "create" => r.op = "register"
    /\ r.pc = "spend" => r.op \in {"login", "reauth"} /\ r.in \in r.codes
    /\ r.pc = "open" => r.op \in Opens
    /\ r.pc \in {"revoke", "retire"} => r.op \in Rotates
    /\ r.pc = "store" /\ r.op = "changePassword" => r.in \in Passwords
    /\ r.pc = "store" /\ r.op = "reset" => r.in \in ResetTokens
    /\ r.pc = "answer" => \/ r.op = "setup" /\ r.fresh \in Secrets
                          \/ r.op = "reauth"
                          \/ r.op \in Opens /\ r.fresh \in Sessions

Knows(r) == r.knows <= era /\ r.codes \subseteq issued

RowsOK ==
    /\ password \in Passwords \cup {"none"} /\ status \in {"ACTIVE", "DISABLED"}
    /\ mfa \in [enabled: BOOLEAN, secret: Secrets \cup {"none"}, codes: SUBSET Codes]
    /\ tokens \in [ResetTokens -> {"none", "live", "used", "expired"}]
    /\ live \subseteq Sessions
    /\ jar \in [Browsers -> [session: Sessions \cup {"none"}, recent: BOOLEAN]]
    /\ app \subseteq Secrets /\ issued \subseteq Codes /\ mfa.codes \subseteq issued
    /\ era \in Nat /\ born \in [Sessions -> Nat] /\ spent \in [Codes \cup ResetTokens -> Nat]

MishapsOK ==
    /\ overtaken \subseteq Browsers
    /\ overlaps \in Nat /\ cuts \in Nat /\ overlaps + cuts <= MaxMishaps /\ lapses \in 0..MaxLapses

TypedInv ==
    /\ RowsOK
    /\ \A b \in Browsers : req[b] \in RequestState /\ Fits(req[b]) /\ Knows(req[b])
    /\ req \in [Browsers -> RequestState]

\* A step that rewrites the request of one browser, or of none.
LEMMA OneWrites ==
    ASSUME TypedInv, RowsOK', NEW b \in Browsers, NEW r \in RequestState,
           req' = [req EXCEPT ![b] = r], Fits(r), r.knows <= era', r.codes \subseteq issued',
           era <= era', issued \subseteq issued'
    PROVE  TypedInv'
<1>1. req' \in [Browsers -> RequestState] /\ req'[b] = r
  BY DEF TypedInv
<1>2. \A c \in Browsers \ {b} : req'[c] = req[c]
  BY DEF TypedInv
<1>3. era \in Nat /\ era' \in Nat
  BY DEF TypedInv, RowsOK
<1>4. ASSUME NEW c \in Browsers
      PROVE  req'[c] \in RequestState /\ Fits(req'[c]) /\ Knows(req[c])'
  <2>1. CASE c = b
    BY <1>1, <2>1 DEF Knows
  <2>2. CASE c # b
    <3>1. req'[c] = req[c] /\ req[c] \in RequestState /\ Fits(req[c]) /\ Knows(req[c])
      BY <1>2, <2>2 DEF TypedInv
    <3>2. req[c].knows \in Nat
      BY <3>1 DEF RequestState
    <3> QED
      BY <1>3, <3>1, <3>2 DEF Knows
  <2> QED
    BY <2>1, <2>2
<1>5. \A c \in Browsers : Fits(req[c])'
  BY <1>4 DEF Fits
<1> QED
  BY <1>1, <1>4, <1>5 DEF TypedInv

LEMMA NoneWrites ==
    ASSUME TypedInv, RowsOK', UNCHANGED <<req, era, issued>>
    PROVE  TypedInv'
BY DEF TypedInv, Fits, Knows

LEMMA TypedInit == Init => TypedInv
<1> SUFFICES ASSUME Init PROVE TypedInv
  OBVIOUS
<1>1. RowsOK
  BY AccountAssumption DEF Init, RowsOK, NoMfa, NoJar
<1>2. req \in [Browsers -> RequestState] /\ \A b \in Browsers : req[b] = Idle
  BY IdleIsTyped DEF Init
<1>3. Fits(Idle) /\ Knows(Idle)
  BY IdleIsTyped, <1>1 DEF Fits, Knows, RowsOK
<1> QED
  BY <1>1, <1>2, <1>3 DEF TypedInv

\* A request begins, or is over.
LEMMA TypedBegin ==
    ASSUME TypedInv, NEW b \in Browsers, NEW op \in Ops, NEW pc \in Stages, NEW in \in Input,
           Begin(b, op, pc, in), UNCHANGED <<account, jar, app, issued, history>>,
           \/ pc = "create" /\ op = "register"
           \/ pc = "spend" /\ op \in {"login", "reauth"} /\ in \in mfa.codes
           \/ pc = "open" /\ op = "login"
           \/ pc = "answer" /\ op = "reauth"
           \/ pc = "store" /\ \/ op = "changePassword" /\ in \in Passwords
                              \/ op = "reset" /\ in \in ResetTokens
                              \/ op \notin {"changePassword", "reset"}
    PROVE  TypedInv'
<1> DEFINE r == [Idle EXCEPT !.op = op, !.pc = pc, !.in = in, !.codes = mfa.codes, !.knows = era]
<1>1. mfa.codes \in SUBSET Codes /\ mfa.codes \subseteq issued /\ era \in Nat
  BY DEF TypedInv, RowsOK
<1>2. /\ r \in RequestState /\ r.op = op /\ r.pc = pc /\ r.in = in
      /\ r.codes = mfa.codes /\ r.knows = era
  BY <1>1 DEF Idle, RequestState, Input
<1>3. req' = [req EXCEPT ![b] = r]
  BY DEF Begin
<1> HIDE DEF r
<1>4. Fits(r)
  BY <1>2 DEF Fits, Opens
<1>5. RowsOK' /\ era' = era /\ issued' = issued
  BY DEF TypedInv, RowsOK, account, history
<1>6. r.knows <= era' /\ era <= era' /\ r.codes \subseteq issued' /\ issued \subseteq issued'
  BY <1>1, <1>2, <1>5
<1> QED
  BY <1>2, <1>3, <1>4, <1>5, <1>6, OneWrites

LEMMA TypedFinish ==
    ASSUME TypedInv, RowsOK', NEW b \in Browsers, Finish(b), era <= era', issued' = issued
    PROVE  TypedInv'
<1>1. Fits(Idle) /\ Idle.knows <= era' /\ Idle.codes \subseteq issued'
  BY IdleIsTyped DEF Fits, RowsOK
<1> QED
  BY <1>1, IdleIsTyped, OneWrites DEF Finish

LEMMA TypedBeginnings ==
    ASSUME TypedInv, NEW b \in Browsers,
           \/ Register(b) \/ SetUpTotp(b)
           \/ \E pw \in Passwords, f \in Factors : Login(b, pw, f) \/ Reauthenticate(b, pw, f)
           \/ \E pw, new \in Passwords : ChangePassword(b, pw, new)
           \/ \E s \in Secrets : VerifyTotp(b, s)
           \/ \E pw \in Passwords, s \in Secrets : DisableTotp(b, pw, s)
           \/ \E pw \in Passwords : RegenerateCodes(b, pw)
           \/ \E t \in ResetTokens : CheckToken(b, t)
    PROVE  TypedInv'
<1> USE DEF Input, Ops, Stages, Rotates
<1>1. CASE Register(b)
  BY <1>1, TypedBegin DEF Register
<1>2. CASE SetUpTotp(b)
  BY <1>2, TypedBegin DEF SetUpTotp
<1>3. ASSUME NEW f \in Factors, NEW op \in {"login", "reauth"},
             NEW pc \in {"spend", IF op = "login" THEN "open" ELSE "answer"},
             pc = "spend" => f \in mfa.codes,
             Begin(b, op, pc, f), UNCHANGED <<account, jar, app, issued, history>>
      PROVE  TypedInv'
  BY <1>3, TypedBegin DEF Factors
<1>4. ASSUME NEW pw \in Passwords, NEW f \in Factors, Login(b, pw, f) \/ Reauthenticate(b, pw, f)
      PROVE  TypedInv'
  BY <1>3, <1>4 DEF Login, Reauthenticate, Spends
<1>5. ASSUME NEW pw \in Passwords, NEW new \in Passwords, ChangePassword(b, pw, new)
      PROVE  TypedInv'
  BY <1>5, TypedBegin DEF ChangePassword
<1>6. ASSUME NEW s \in Secrets, VerifyTotp(b, s) PROVE TypedInv'
  BY <1>6, TypedBegin DEF VerifyTotp
<1>7. ASSUME NEW pw \in Passwords, NEW s \in Secrets, DisableTotp(b, pw, s) PROVE TypedInv'
  BY <1>7, TypedBegin DEF DisableTotp
<1>8. ASSUME NEW pw \in Passwords, RegenerateCodes(b, pw) PROVE TypedInv'
  BY <1>8, TypedBegin DEF RegenerateCodes
<1>9. ASSUME NEW t \in ResetTokens, CheckToken(b, t) PROVE TypedInv'
  BY <1>9, TypedBegin DEF CheckToken
<1> QED
  BY <1>1, <1>2, <1>4, <1>5, <1>6, <1>7, <1>8, <1>9

\* A request that goes on: it keeps what it was given, and may get a session or a secret.
LEMMA TypedOn ==
    ASSUME TypedInv, RowsOK', NEW b \in Browsers, NEW pc \in Stages,
           NEW fresh \in Sessions \cup Secrets \cup {"none"},
           NEW r, r = [req[b] EXCEPT !.pc = pc, !.fresh = fresh],
           req' = [req EXCEPT ![b] = r],
           Fits(r), era' = era, issued' = issued
    PROVE  TypedInv'
<1>1. req[b] \in RequestState /\ Knows(req[b]) /\ era \in Nat
  BY DEF TypedInv, RowsOK
<1>2. r \in RequestState /\ r.knows = req[b].knows /\ r.codes = req[b].codes
  BY <1>1 DEF RequestState
<1>3. r.knows <= era' /\ r.codes \subseteq issued' /\ era <= era' /\ issued \subseteq issued'
  BY <1>1, <1>2 DEF Knows
<1> QED
  BY <1>2, <1>3, OneWrites

LEMMA TypedGoto ==
    ASSUME TypedInv, RowsOK', NEW b \in Browsers, NEW pc \in Stages, Goto(b, pc),
           Fits([req[b] EXCEPT !.pc = pc]), era' = era, issued' = issued
    PROVE  TypedInv'
<1> DEFINE r == [req[b] EXCEPT !.pc = pc]
<1>1. req[b] \in RequestState
  BY DEF TypedInv
<1>2. /\ r = [req[b] EXCEPT !.pc = pc, !.fresh = req[b].fresh]
      /\ req[b].fresh \in Sessions \cup Secrets \cup {"none"}
  BY <1>1 DEF RequestState
<1>3. req' = [req EXCEPT ![b] = r] /\ Fits(r)
  BY DEF Goto
<1> HIDE DEF r
<1> QED
  BY <1>2, <1>3, TypedOn

\* New credentials are stored.
LEMMA TypedEra ==
    ASSUME TypedInv, RowsOK', NEW b \in Browsers, req[b].op \in Rotates,
           NewEra(b, "revoke"), issued \subseteq issued'
    PROVE  TypedInv'
<1> DEFINE r == [req[b] EXCEPT !.pc = "revoke", !.knows = era + 1]
<1>1. req[b] \in RequestState /\ Knows(req[b]) /\ era \in Nat
  BY DEF TypedInv, RowsOK
<1>2. /\ r \in RequestState /\ r.knows = era + 1 /\ r.codes = req[b].codes
      /\ r.pc = "revoke" /\ r.op = req[b].op
  <2>1. era + 1 \in Nat
    BY <1>1
  <2> DEFINE next == era + 1
  <2> HIDE DEF next
  <2>2. next \in Nat => /\ [req[b] EXCEPT !.pc = "revoke", !.knows = next] \in RequestState
                        /\ [req[b] EXCEPT !.pc = "revoke", !.knows = next].knows = next
                        /\ [req[b] EXCEPT !.pc = "revoke", !.knows = next].codes = req[b].codes
                        /\ [req[b] EXCEPT !.pc = "revoke", !.knows = next].pc = "revoke"
                        /\ [req[b] EXCEPT !.pc = "revoke", !.knows = next].op = req[b].op
    BY <1>1 DEF RequestState, Stages
  <2> QED
    BY <2>1, <2>2 DEF next
<1>3. req' = [req EXCEPT ![b] = r] /\ era' = era + 1
  BY DEF NewEra
<1> HIDE DEF r
<1>4. Fits(r)
  BY <1>2 DEF Fits
<1>5. r.knows <= era' /\ r.codes \subseteq issued' /\ era <= era'
  BY <1>1, <1>2, <1>3 DEF Knows
<1> QED
  BY <1>2, <1>3, <1>4, <1>5, OneWrites

LEMMA CountUp ==
    ASSUME NEW S, NEW f \in [S -> Nat], NEW x PROVE [f EXCEPT ![x] = @ + 1] \in [S -> Nat]
<1>1. x \in S => f[x] + 1 \in Nat
  OBVIOUS
<1> DEFINE n == f[x] + 1
<1>2. x \in S => n \in Nat
  BY <1>1
<1> HIDE DEF n
<1>3. [f EXCEPT ![x] = n] \in [S -> Nat]
  BY <1>2
<1> QED
  BY <1>3 DEF n

LEMMA TypedSigning ==
    ASSUME TypedInv, NEW b \in Browsers,
           CreateUser(b) \/ SpendCode(b) \/ OpenSession(b) \/ Answer(b)
    PROVE  TypedInv'
<1>1. req[b] \in RequestState /\ Fits(req[b]) /\ Knows(req[b]) /\ RowsOK
  BY DEF TypedInv
<1>2. CASE CreateUser(b)
  <2>1. RowsOK' /\ era' = era /\ issued' = issued /\ era <= era'
    BY <1>1, <1>2 DEF CreateUser, RowsOK, history
  <2>2. CASE Finish(b)
    BY <2>1, <2>2, TypedFinish
  <2>3. CASE Goto(b, "open")
    <3>1. Fits([req[b] EXCEPT !.pc = "open"])
      BY <1>1, <1>2 DEF Fits, RequestState, CreateUser, At, Opens
    <3> QED
      BY <2>1, <2>3, <3>1, TypedGoto DEF Stages
  <2> QED
    BY <1>2, <2>2, <2>3 DEF CreateUser
<1>3. CASE SpendCode(b)
  <2> DEFINE pc == IF req[b].op = "login" THEN "open" ELSE "answer"
  <2>1. /\ mfa' \in [enabled: BOOLEAN, secret: Secrets \cup {"none"}, codes: SUBSET Codes]
        /\ mfa'.codes \subseteq issued
    <3>1. Remaining(b) \subseteq issued /\ issued \subseteq Codes
      BY <1>1 DEF Remaining, Knows, RowsOK
    <3> QED
      BY <1>1, <1>3, <3>1 DEF SpendCode, RowsOK
  <2>2. spent' \in [Codes \cup ResetTokens -> Nat]
    BY <1>1, <1>3, CountUp DEF SpendCode, RowsOK
  <2>3. RowsOK' /\ era' = era /\ issued' = issued
    BY <1>1, <1>3, <2>1, <2>2 DEF SpendCode, RowsOK
  <2>4. Fits([req[b] EXCEPT !.pc = pc])
    BY <1>1, <1>3 DEF Fits, RequestState, SpendCode, At, Opens
  <2> QED
    BY <1>3, <2>3, <2>4, TypedGoto DEF SpendCode, Stages
<1>4. CASE OpenSession(b)
  <2>1. PICK s \in FreshSessions :
          /\ live' = live \cup {s}
          /\ req' = [req EXCEPT ![b].pc = "answer", ![b].fresh = s]
    BY <1>4 DEF OpenSession
  <2> DEFINE r == [req[b] EXCEPT !.pc = "answer", !.fresh = s]
  <2>2. s \in Sessions /\ RowsOK' /\ era' = era /\ issued' = issued
    <3>1. born' \in [Sessions -> Nat]
      BY <1>1, <1>4 DEF OpenSession, RowsOK, RequestState
    <3> QED
      BY <1>1, <1>4, <2>1, <3>1 DEF OpenSession, RowsOK, FreshSessions
  <2>3. req' = [req EXCEPT ![b] = r]
    BY <2>1
  <2>4. Fits(r)
    BY <1>1, <1>4, <2>2 DEF Fits, RequestState, OpenSession, At
  <2> HIDE DEF r
  <2>5. r = [req[b] EXCEPT !.pc = "answer", !.fresh = s]
    BY DEF r
  <2> QED
    BY <2>2, <2>3, <2>4, <2>5, TypedOn DEF Stages
<1>5. CASE Answer(b)
  <2>1. CASE req[b].op = "setup"
    <3>1. app' = app \cup {req[b].fresh} /\ req[b].fresh \in Secrets /\ UNCHANGED jar
      BY <1>1, <1>5, <2>1 DEF Answer, Fits, At, Opens, Rotates
    <3>2. RowsOK' /\ era' = era /\ issued' = issued /\ era <= era' /\ Finish(b)
      BY <1>1, <1>5, <3>1 DEF Answer, RowsOK, account, history
    <3> QED
      BY <3>2, TypedFinish
  <2>2. CASE req[b].op # "setup"
    <3>1. req[b].op # "reauth" => req[b].fresh \in Sessions
      BY <1>1, <1>5, <2>2 DEF Answer, Fits, At
    <3>2. jar' \in [Browsers -> [session: Sessions \cup {"none"}, recent: BOOLEAN]]
      <4>1. jar \in [Browsers -> [session: Sessions \cup {"none"}, recent: BOOLEAN]]
        BY <1>1 DEF RowsOK
      <4>2. CASE req[b].op = "reauth"
        BY <1>5, <2>2, <4>1, <4>2 DEF Answer
      <4>3. CASE req[b].op # "reauth"
        BY <1>5, <2>2, <3>1, <4>1, <4>3 DEF Answer
      <4> QED
        BY <4>2, <4>3
    <3>3. RowsOK' /\ era' = era /\ issued' = issued /\ era <= era' /\ Finish(b)
      BY <1>1, <1>5, <2>2, <3>2 DEF Answer, RowsOK, account, history
    <3> QED
      BY <3>3, TypedFinish
  <2> QED
    BY <2>1, <2>2
<1> QED
  BY <1>2, <1>3, <1>4, <1>5

LEMMA TypedStoring ==
    ASSUME TypedInv, NEW b \in Browsers,
           \/ StorePassword(b) \/ StoreSecret(b) \/ StoreVerified(b) \/ StoreDisabled(b)
           \/ StoreCodes(b) \/ StoreReset(b)
    PROVE  TypedInv'
<1>1. req[b] \in RequestState /\ Fits(req[b]) /\ Knows(req[b]) /\ RowsOK /\ era + 1 \in Nat
      /\ era <= era + 1
  BY DEF TypedInv, RowsOK
<1>2. CASE StorePassword(b)
  <2>1. req[b].in \in Passwords /\ req[b].op \in Rotates
    BY <1>1, <1>2 DEF StorePassword, Fits, At, Rotates
  <2>2. RowsOK' /\ issued' = issued
    BY <1>1, <1>2, <2>1 DEF StorePassword, RowsOK, NewEra
  <2> QED
    BY <1>2, <2>1, <2>2, TypedEra DEF StorePassword
<1>3. CASE StoreSecret(b)
  <2>1. PICK s \in Secrets : /\ mfa' = [NoMfa EXCEPT !.secret = s]
                             /\ req' = [req EXCEPT ![b].pc = "answer", ![b].fresh = s]
    BY <1>3 DEF StoreSecret
  <2> DEFINE r == [req[b] EXCEPT !.pc = "answer", !.fresh = s]
  <2>2. RowsOK' /\ era' = era /\ issued' = issued
    BY <1>1, <1>3, <2>1 DEF StoreSecret, RowsOK, NoMfa, history
  <2>3. req' = [req EXCEPT ![b] = r]
    BY <2>1
  <2>4. Fits(r)
    BY <1>1, <1>3 DEF Fits, RequestState, StoreSecret
  <2> HIDE DEF r
  <2>5. r = [req[b] EXCEPT !.pc = "answer", !.fresh = s]
    BY DEF r
  <2> QED
    BY <2>2, <2>3, <2>4, <2>5, TypedOn DEF Stages
<1>4. CASE StoreVerified(b) \/ StoreCodes(b)
  <2>1. PICK new \in NewCodes :
          /\ mfa' = [mfa EXCEPT !.enabled = TRUE, !.codes = new]
             \/ mfa' = [mfa EXCEPT !.codes = new]
          /\ issued' = issued \cup new
    BY <1>4 DEF StoreVerified, StoreCodes
  <2>2. req[b].op \in Rotates /\ NewEra(b, "revoke") /\ era' = era + 1
    BY <1>4 DEF StoreVerified, StoreCodes, Rotates, NewEra
  <2>3. /\ mfa' \in [enabled: BOOLEAN, secret: Secrets \cup {"none"}, codes: SUBSET Codes]
        /\ mfa'.codes = new
    <3>1. mfa \in [enabled: BOOLEAN, secret: Secrets \cup {"none"}, codes: SUBSET Codes]
          /\ new \in SUBSET Codes
      BY <1>1 DEF RowsOK, NewCodes
    <3>2. CASE mfa' = [mfa EXCEPT !.enabled = TRUE, !.codes = new]
      BY <3>1, <3>2
    <3>3. CASE mfa' = [mfa EXCEPT !.codes = new]
      BY <3>1, <3>3
    <3> QED
      BY <2>1, <3>2, <3>3
  <2>4. RowsOK'
    BY <1>1, <1>4, <2>1, <2>2, <2>3 DEF RowsOK, StoreVerified, StoreCodes
  <2> QED
    BY <2>1, <2>2, <2>4, TypedEra
<1>5. CASE StoreDisabled(b)
  <2>1. RowsOK' /\ issued' = issued
    BY <1>1, <1>5 DEF StoreDisabled, RowsOK, NewEra, Disabled, NoMfa
  <2> QED
    BY <1>5, <2>1, TypedEra DEF StoreDisabled, Rotates
<1>6. CASE StoreReset(b)
  <2>1. tokens' \in [ResetTokens -> {"none", "live", "used", "expired"}]
    BY <1>1, <1>6 DEF StoreReset, Used, RowsOK
  <2>2. spent' \in [Codes \cup ResetTokens -> Nat]
    BY <1>1, <1>6, CountUp DEF StoreReset, RowsOK
  <2>3. RowsOK' /\ issued' = issued /\ era <= era'
    BY <1>1, <1>6, <2>1, <2>2 DEF StoreReset, SurvivesReset, RowsOK
  <2> QED
    BY <1>6, <2>3, TypedFinish DEF StoreReset
<1> QED
  BY <1>2, <1>3, <1>4, <1>5, <1>6

LEMMA TypedClosing ==
    ASSUME TypedInv, NEW b \in Browsers, RevokeOthers(b) \/ RetireSession(b) PROVE TypedInv'
<1> DEFINE pc == IF req[b].pc = "revoke" THEN "retire" ELSE "open"
<1>1. req[b] \in RequestState /\ Fits(req[b]) /\ RowsOK
  BY DEF TypedInv
<1>2. Goto(b, pc) /\ req[b].pc \in {"revoke", "retire"}
  BY DEF RevokeOthers, RetireSession, At
<1>3. RowsOK' /\ era' = era /\ issued' = issued
  BY <1>1 DEF RevokeOthers, RetireSession, RowsOK, history
<1>4. Fits([req[b] EXCEPT !.pc = pc])
  BY <1>1, <1>2 DEF Fits, RequestState, Opens
<1> QED
  BY <1>2, <1>3, <1>4, TypedGoto DEF Stages

\* Cookies, tokens, rows and the status of the account, behind the backs of the requests.
LEMMA TypedOutside ==
    ASSUME TypedInv,
           \/ \E b \in Browsers : Logout(b) \/ DropCookie(b) \/ ExpireRecent(b)
           \/ \E t \in ResetTokens : RequestReset(t) \/ ExpireToken(t)
           \/ \E s \in Sessions : ExpireSession(s)
           \/ \E to \in {"ACTIVE", "DISABLED"} : SetStatus(to)
           \/ UNCHANGED vars
    PROVE  TypedInv'
<1>0. RowsOK
  BY DEF TypedInv
<1>1. ASSUME NEW b \in Browsers, Logout(b) \/ DropCookie(b) \/ ExpireRecent(b)
      PROVE  RowsOK' /\ UNCHANGED <<req, era, issued>>
  <2>1. jar' \in [Browsers -> [session: Sessions \cup {"none"}, recent: BOOLEAN]]
    <3>1. jar \in [Browsers -> [session: Sessions \cup {"none"}, recent: BOOLEAN]]
      BY <1>0 DEF RowsOK
    <3>2. CASE Logout(b)
      BY <3>1, <3>2 DEF Logout, NoJar
    <3>3. CASE DropCookie(b)
      BY <3>1, <3>3 DEF DropCookie
    <3>4. CASE ExpireRecent(b)
      BY <3>1, <3>4 DEF ExpireRecent
    <3> QED
      BY <1>1, <3>2, <3>3, <3>4
  <2> QED
    BY <1>0, <1>1, <2>1 DEF Logout, DropCookie, ExpireRecent, RowsOK, account, history
<1>2. ASSUME NEW t \in ResetTokens, RequestReset(t) \/ ExpireToken(t)
      PROVE  RowsOK' /\ UNCHANGED <<req, era, issued>>
  <2>1. tokens' \in [ResetTokens -> {"none", "live", "used", "expired"}]
    BY <1>0, <1>2 DEF RequestReset, ExpireToken, RowsOK
  <2> QED
    BY <1>0, <1>2, <2>1 DEF RequestReset, ExpireToken, RowsOK, history
<1>3. ASSUME NEW s \in Sessions, ExpireSession(s)
      PROVE  RowsOK' /\ UNCHANGED <<req, era, issued>>
  BY <1>0, <1>3 DEF ExpireSession, RowsOK, history
<1>4. ASSUME NEW to \in {"ACTIVE", "DISABLED"}, SetStatus(to)
      PROVE  RowsOK' /\ UNCHANGED <<req, era, issued>>
  BY <1>0, <1>4 DEF SetStatus, RowsOK, history
<1>5. CASE UNCHANGED vars
  BY <1>0, <1>5, NoneWrites DEF RowsOK, vars, account, history
<1> QED
  BY <1>1, <1>2, <1>3, <1>4, <1>5, NoneWrites

LEMMA TypedStep == TypedInv /\ [Next]_vars => TypedInv'
<1> SUFFICES ASSUME TypedInv, [Next]_vars PROVE TypedInv'
  OBVIOUS
<1>1. ASSUME NEW b \in Browsers, CutShort(b) PROVE TypedInv'
  <2>1. RowsOK' /\ issued' = issued /\ era' = era /\ era <= era'
    BY <1>1, AccountAssumption DEF CutShort, TypedInv, RowsOK, account, history
  <2> QED
    BY <1>1, <2>1, TypedFinish DEF CutShort
<1>2. ASSUME NEW b \in Browsers, SignIn(b) \/ Change(b) \/ ExpireRecent(b) PROVE TypedInv'
  BY <1>2, TypedBeginnings, TypedSigning, TypedStoring, TypedClosing, TypedOutside
     DEF SignIn, Change
<1> QED
  BY <1>1, <1>2, TypedOutside DEF Next

-----------------------------------------------------------------------------
(* The bounds on what may befall the requests.                             *)

LEMMA MishapsStep == MishapsOK /\ [Next]_vars => MishapsOK'
<1> SUFFICES ASSUME MishapsOK, [Next]_vars PROVE MishapsOK'
  OBVIOUS
<1>0. MaxMishaps \in Nat /\ MaxLapses \in Nat
  BY AccountAssumption
<1>1. CASE UNCHANGED mishaps
  BY <1>1 DEF MishapsOK, mishaps
<1>2. ASSUME NEW b \in Browsers, MayStart(b),
             overlaps' = (IF Alone THEN overlaps ELSE overlaps + 1),
             UNCHANGED <<overtaken, cuts, lapses>>
      PROVE  MishapsOK'
  BY <1>0, <1>2 DEF MishapsOK, MayStart, MayMiss
<1>3. CASE Lapse /\ UNCHANGED <<overlaps, overtaken, cuts>>
  BY <1>0, <1>3 DEF MishapsOK, Lapse
<1>4. CASE overtaken' \subseteq Browsers /\ UNCHANGED <<overlaps, cuts, lapses>>
  BY <1>4 DEF MishapsOK
<1>5. ASSUME NEW b \in Browsers, CutShort(b) PROVE MishapsOK'
  BY <1>0, <1>5 DEF MishapsOK, CutShort, MayMiss
<1>6. ASSUME NEW b \in Browsers, SignIn(b) PROVE MishapsOK'
  BY <1>1, <1>2, <1>6
     DEF SignIn, Register, CreateUser, SpendCode, OpenSession, Answer, Logout, DropCookie,
         Login, Reauthenticate, Begin, mishaps
<1>7. ASSUME NEW b \in Browsers, Change(b) PROVE MishapsOK'
  BY <1>1, <1>2, <1>4, <1>7
     DEF Change, ChangePassword, SetUpTotp, VerifyTotp, DisableTotp, RegenerateCodes, CheckToken,
         StorePassword, StoreSecret, StoreVerified, StoreDisabled, StoreCodes, StoreReset,
         RevokeOthers, RetireSession, Begin, MayChange, Overtakes, Verifying, mishaps, MishapsOK
<1>8. CASE UNCHANGED vars
  BY <1>1, <1>8 DEF vars, mishaps
<1> QED
  BY <1>1, <1>3, <1>5, <1>6, <1>7, <1>8
     DEF Next, ExpireRecent, RequestReset, ExpireToken, ExpireSession, SetStatus, mishaps

\* Rows, cookies and requests stay well formed however requests overlap: what a request
\* read, and the credentials it knows, are never ahead of what was issued and in force
\* (session-service.ts, auth-service.ts, totp.ts).
THEOREM AccountTyped == Spec => []TypeOK
<1>1. TypedInv /\ MishapsOK => TypeOK
  <2> SUFFICES ASSUME TypedInv, MishapsOK PROVE TypeOK
    OBVIOUS
  <2>1. \A b \in Browsers : req[b].knows \in 0..era /\ req[b].codes \subseteq issued
    BY DEF TypedInv, RowsOK, Knows, RequestState
  <2> QED
    BY <2>1 DEF TypedInv, RowsOK, MishapsOK, TypeOK
<1>2. Init => MishapsOK
  BY AccountAssumption DEF Init, MishapsOK
<1> QED
  BY <1>1, <1>2, TypedInit, TypedStep, MishapsStep, PTL DEF Spec

-----------------------------------------------------------------------------
(* What a step does to the requests and the sessions.                      *)

Elsewhere(b) == \A c \in Browsers \ {b} : req'[c] = req[c]

\* A request begins: it knows the credentials in force.
Begun(b) ==
    /\ Idles(b) /\ Elsewhere(b) /\ UNCHANGED <<live, born, era, jar, cuts>>
    /\ overlaps' = IF Alone THEN overlaps ELSE overlaps + 1
    /\ req'[b].pc \in {"create", "spend", "open", "answer", "store"} /\ req'[b].knows = era
    /\ req'[b].op \in Rotates => req'[b].pc = "store"

\* One goes on without touching a session, and may be over.
Passed(b) ==
    /\ req[b].pc \in {"create", "spend", "store"} /\ Elsewhere(b)
    /\ UNCHANGED <<live, born, era, jar, overlaps, cuts>>
    /\ req'[b].pc \in {"idle", "open", "answer"} /\ req'[b].op \notin Rotates
    /\ req'[b].pc = "open" => req'[b].knows = req[b].knows

\* It opens a session that nobody holds.
Opened(b) ==
    /\ At(b, "open") /\ Elsewhere(b) /\ UNCHANGED <<era, jar, overlaps, cuts>>
    /\ req'[b].pc = "answer" /\ req'[b].op = req[b].op
    /\ req'[b].fresh \in FreshSessions /\ live' = live \cup {req'[b].fresh}
    /\ born'[req'[b].fresh] = req[b].knows /\ \A s \in live : born'[s] = born[s]

Answered(b) ==
    /\ At(b, "answer") /\ Elsewhere(b) /\ req'[b].pc = "idle" /\ req'[b].op \notin Rotates
    /\ UNCHANGED <<live, born, era, overlaps, cuts>>
    /\ \A c \in Browsers \ {b} : jar'[c] = jar[c]

\* It puts new credentials in force.
Renewed(b) ==
    /\ At(b, "store") /\ Elsewhere(b) /\ UNCHANGED <<live, born, jar, overlaps, cuts>>
    /\ req'[b].pc = "revoke" /\ era' = era + 1 /\ req'[b].knows = era'

Reset(b) ==
    /\ At(b, "store") /\ Elsewhere(b) /\ UNCHANGED <<born, jar, overlaps, cuts>>
    /\ req'[b].pc = "idle" /\ req'[b].op \notin Rotates /\ live' = {} /\ era' = era + 1

Revoked(b) ==
    /\ At(b, "revoke") /\ Elsewhere(b) /\ UNCHANGED <<born, era, jar, overlaps, cuts>>
    /\ req'[b].pc = "retire" /\ req'[b].op = req[b].op /\ req'[b].knows = req[b].knows
    /\ live' = live \cap {jar[b].session}

RetiredOwn(b) ==
    /\ At(b, "retire") /\ Elsewhere(b) /\ UNCHANGED <<born, era, jar, overlaps, cuts>>
    /\ req'[b].pc = "open" /\ req'[b].op = req[b].op /\ req'[b].knows = req[b].knows
    /\ live' = live \ {jar[b].session}

Died(b) ==
    /\ ~Idles(b) /\ Elsewhere(b) /\ UNCHANGED <<live, born, era, jar, overlaps>>
    /\ cuts' = cuts + 1 /\ req'[b].pc = "idle" /\ req'[b].op \notin Rotates

\* No request moves; sessions may close, and those that wait may lose their cookies.
Aside ==
    /\ UNCHANGED <<req, born, era, overlaps, cuts>> /\ live' \subseteq live
    /\ \A b \in Browsers : ~Idles(b) => jar'[b].session = jar[b].session

Kinds(b) ==
    \/ Begun(b) \/ Passed(b) \/ Opened(b) \/ Answered(b) \/ Renewed(b) \/ Reset(b)
    \/ Revoked(b) \/ RetiredOwn(b) \/ Died(b)

\* Who writes one request leaves the others as they are.
LEMMA OthersStay ==
    ASSUME TypedInv, NEW b \in Browsers, NEW r, req' = [req EXCEPT ![b] = r]
    PROVE  Elsewhere(b) /\ req'[b] = r
BY DEF TypedInv, Elsewhere

LEMMA Beginning ==
    ASSUME TypedInv, NEW b \in Browsers, MayStart(b), NEW op, NEW pc, NEW in,
           Begin(b, op, pc, in), UNCHANGED <<live, born, era, jar>>,
           pc \in {"create", "spend", "open", "answer", "store"},
           op \in Rotates => pc = "store"
    PROVE  Begun(b)
<1> DEFINE r == [Idle EXCEPT !.op = op, !.pc = pc, !.in = in, !.codes = mfa.codes, !.knows = era]
<1>1. r.pc = pc /\ r.knows = era /\ r.op = op
  BY DEF Idle
<1>2. req' = [req EXCEPT ![b] = r]
  BY DEF Begin
<1> HIDE DEF r
<1>3. Elsewhere(b) /\ req'[b] = r
  BY <1>2, OthersStay
<1> QED
  BY <1>1, <1>3 DEF Begun, MayStart, Begin

LEMMA BeginningsAreKinds ==
    ASSUME TypedInv, NEW b \in Browsers,
           \/ Register(b) \/ SetUpTotp(b)
           \/ \E pw \in Passwords, f \in Factors : Login(b, pw, f) \/ Reauthenticate(b, pw, f)
           \/ \E pw, new \in Passwords : ChangePassword(b, pw, new)
           \/ \E s \in Secrets : VerifyTotp(b, s)
           \/ \E pw \in Passwords, s \in Secrets : DisableTotp(b, pw, s)
           \/ \E pw \in Passwords : RegenerateCodes(b, pw)
           \/ \E t \in ResetTokens : CheckToken(b, t)
    PROVE  Begun(b)
<1> USE DEF account, history, Rotates, MayChange
<1>1. CASE Register(b)
  BY <1>1, Beginning DEF Register
<1>2. CASE SetUpTotp(b)
  BY <1>2, Beginning DEF SetUpTotp
<1>3. ASSUME NEW pw \in Passwords, NEW f \in Factors, Login(b, pw, f) PROVE Begun(b)
  <2>1. Begin(b, "login", IF Spends(f) THEN "spend" ELSE "open", f)
    BY <1>3 DEF Login
  <2> QED
    BY <1>3, <2>1, Beginning DEF Login
<1>4. ASSUME NEW pw \in Passwords, NEW f \in Factors, Reauthenticate(b, pw, f) PROVE Begun(b)
  <2>1. Begin(b, "reauth", IF Spends(f) THEN "spend" ELSE "answer", f)
    BY <1>4 DEF Reauthenticate
  <2> QED
    BY <1>4, <2>1, Beginning DEF Reauthenticate
<1>5. ASSUME NEW pw \in Passwords, NEW new \in Passwords, ChangePassword(b, pw, new)
      PROVE  Begun(b)
  BY <1>5, Beginning DEF ChangePassword
<1>6. ASSUME NEW s \in Secrets, VerifyTotp(b, s) PROVE Begun(b)
  BY <1>6, Beginning DEF VerifyTotp
<1>7. ASSUME NEW pw \in Passwords, NEW s \in Secrets, DisableTotp(b, pw, s) PROVE Begun(b)
  BY <1>7, Beginning DEF DisableTotp
<1>8. ASSUME NEW pw \in Passwords, RegenerateCodes(b, pw) PROVE Begun(b)
  BY <1>8, Beginning DEF RegenerateCodes
<1>9. ASSUME NEW t \in ResetTokens, CheckToken(b, t) PROVE Begun(b)
  BY <1>9, Beginning DEF CheckToken
<1> QED
  BY <1>1, <1>2, <1>3, <1>4, <1>5, <1>6, <1>7, <1>8, <1>9

LEMMA IdleRotatesNot == Idle.op \notin Rotates
BY DEF Idle, Rotates

LEMMA SigningIsAKind ==
    ASSUME TypedInv, NEW b \in Browsers,
           CreateUser(b) \/ SpendCode(b) \/ OpenSession(b) \/ Answer(b)
    PROVE  Kinds(b)
<1>1. req[b] \in RequestState /\ Fits(req[b])
  BY DEF TypedInv
<1>2. CASE CreateUser(b)
  <2>1. req[b].pc = "create" /\ req[b].op = "register" /\ req[b].op \notin Rotates
    BY <1>1, <1>2 DEF CreateUser, At, Fits, Rotates
  <2>2. CASE Finish(b)
    <3>1. Elsewhere(b) /\ req'[b] = Idle
      BY <2>2, OthersStay DEF Finish
    <3> QED
      BY <1>2, <2>1, <3>1, IdleIsTyped, IdleRotatesNot DEF CreateUser, Kinds, Passed, history, mishaps
  <2>3. CASE Goto(b, "open")
    <3> DEFINE r == [req[b] EXCEPT !.pc = "open"]
    <3>1. Elsewhere(b) /\ req'[b] = r
      BY <2>3, OthersStay DEF Goto
    <3>2. r.pc = "open" /\ r.op = req[b].op /\ r.knows = req[b].knows
      BY <1>1 DEF RequestState
    <3> QED
      BY <1>2, <2>1, <3>1, <3>2 DEF CreateUser, Kinds, Passed, history, mishaps
  <2> QED
    BY <1>2, <2>2, <2>3 DEF CreateUser
<1>3. CASE SpendCode(b)
  <2> DEFINE pc == IF req[b].op = "login" THEN "open" ELSE "answer"
             r == [req[b] EXCEPT !.pc = pc]
  <2>1. req[b].pc = "spend" /\ req[b].op \notin Rotates
    BY <1>1, <1>3 DEF SpendCode, At, Fits, Rotates
  <2>2. Elsewhere(b) /\ req'[b] = r
    BY <1>3, OthersStay DEF SpendCode, Goto
  <2>3. r.pc = pc /\ r.op = req[b].op /\ r.knows = req[b].knows /\ pc \in {"open", "answer"}
    BY <1>1 DEF RequestState
  <2> HIDE DEF r, pc
  <2> QED
    BY <1>3, <2>1, <2>2, <2>3 DEF SpendCode, Kinds, Passed, history, mishaps
<1>4. CASE OpenSession(b)
  <2>1. PICK s \in FreshSessions :
          /\ live' = live \cup {s} /\ born' = [born EXCEPT ![s] = req[b].knows]
          /\ req' = [req EXCEPT ![b].pc = "answer", ![b].fresh = s]
    BY <1>4 DEF OpenSession
  <2> DEFINE r == [req[b] EXCEPT !.pc = "answer", !.fresh = s]
  <2>2. req' = [req EXCEPT ![b] = r]
    BY <2>1
  <2>3. Elsewhere(b) /\ req'[b] = r
    BY <2>2, OthersStay
  <2>4. r.pc = "answer" /\ r.op = req[b].op /\ r.fresh = s
    BY <1>1 DEF RequestState
  <2> HIDE DEF r
  <2>5. s \in Sessions /\ s \notin live
    BY <2>1 DEF FreshSessions
  <2>6. born'[s] = req[b].knows /\ \A z \in live : born'[z] = born[z]
    BY <2>1, <2>5 DEF TypedInv, RowsOK
  <2> QED
    BY <1>4, <2>1, <2>3, <2>4, <2>6 DEF OpenSession, Kinds, Opened, mishaps
<1>5. CASE Answer(b)
  <2>1. Elsewhere(b) /\ req'[b] = Idle
    BY <1>5, OthersStay DEF Answer, Finish
  <2>2. \A c \in Browsers \ {b} : jar'[c] = jar[c]
    BY <1>5 DEF Answer, TypedInv, RowsOK
  <2> QED
    BY <1>5, <2>1, <2>2, IdleIsTyped, IdleRotatesNot
       DEF Answer, Kinds, Answered, account, history, mishaps
<1> QED
  BY <1>2, <1>3, <1>4, <1>5

LEMMA StoringIsAKind ==
    ASSUME TypedInv, NEW b \in Browsers,
           \/ StorePassword(b) \/ StoreSecret(b) \/ StoreVerified(b) \/ StoreDisabled(b)
           \/ StoreCodes(b) \/ StoreReset(b)
    PROVE  Kinds(b)
<1>1. req[b] \in RequestState
  BY DEF TypedInv
<1>2. CASE StorePassword(b) \/ StoreVerified(b) \/ StoreDisabled(b) \/ StoreCodes(b)
  <2> DEFINE r == [req[b] EXCEPT !.pc = "revoke", !.knows = era + 1]
  <2>1. req' = [req EXCEPT ![b] = r] /\ era' = era + 1
    BY <1>2 DEF StorePassword, StoreVerified, StoreDisabled, StoreCodes, NewEra
  <2>2. r.pc = "revoke" /\ r.knows = era + 1
    BY <1>1 DEF RequestState
  <2> HIDE DEF r
  <2>3. Elsewhere(b) /\ req'[b] = r
    BY <2>1, OthersStay
  <2>4. At(b, "store") /\ UNCHANGED <<live, born, jar, overlaps, cuts>>
    BY <1>2 DEF StorePassword, StoreVerified, StoreDisabled, StoreCodes, Overtakes, mishaps
  <2> QED
    BY <2>1, <2>2, <2>3, <2>4 DEF Kinds, Renewed
<1>3. CASE StoreSecret(b)
  <2>1. PICK s \in Secrets : req' = [req EXCEPT ![b].pc = "answer", ![b].fresh = s]
    BY <1>3 DEF StoreSecret
  <2> DEFINE r == [req[b] EXCEPT !.pc = "answer", !.fresh = s]
  <2>2. req' = [req EXCEPT ![b] = r]
    BY <2>1
  <2>3. r.pc = "answer" /\ r.op = req[b].op
    BY <1>1 DEF RequestState
  <2> HIDE DEF r
  <2>4. Elsewhere(b) /\ req'[b] = r
    BY <2>2, OthersStay
  <2>5. req[b].pc = "store" /\ req[b].op \notin Rotates
    BY <1>3 DEF StoreSecret, At, Rotates
  <2>6. UNCHANGED <<live, born, era, jar, overlaps, cuts>>
    BY <1>3 DEF StoreSecret, Overtakes, history
  <2> QED
    BY <2>3, <2>4, <2>5, <2>6 DEF Kinds, Passed
<1>4. CASE StoreReset(b)
  <2>1. Elsewhere(b) /\ req'[b] = Idle
    BY <1>4, OthersStay DEF StoreReset, Finish
  <2> QED
    BY <1>4, <2>1, IdleIsTyped, IdleRotatesNot DEF StoreReset, SurvivesReset, Kinds, Reset, mishaps
<1> QED
  BY <1>2, <1>3, <1>4

LEMMA ClosingIsAKind ==
    ASSUME TypedInv, NEW b \in Browsers, RevokeOthers(b) \/ RetireSession(b) PROVE Kinds(b)
<1> DEFINE pc == IF req[b].pc = "revoke" THEN "retire" ELSE "open"
           r == [req[b] EXCEPT !.pc = pc]
<1>1. req[b].pc = "revoke" \/ req[b].pc = "retire"
  BY DEF RevokeOthers, RetireSession, At
<1>2. req' = [req EXCEPT ![b] = r]
  BY DEF RevokeOthers, RetireSession, At, Goto
<1>3. r.pc = pc /\ r.op = req[b].op /\ r.knows = req[b].knows
  BY DEF TypedInv, RequestState
<1> HIDE DEF r
<1>4. Elsewhere(b) /\ req'[b] = r
  BY <1>2, OthersStay
<1>5. UNCHANGED <<born, era, jar, overlaps, cuts>>
  BY DEF RevokeOthers, RetireSession, history, mishaps
<1>6. CASE RevokeOthers(b)
  <2>1. live' = live \cap {jar[b].session}
    BY <1>6 DEF RevokeOthers, Others
  <2> QED
    BY <1>3, <1>4, <1>5, <1>6, <2>1 DEF RevokeOthers, At, Kinds, Revoked
<1>7. CASE RetireSession(b)
  BY <1>3, <1>4, <1>5, <1>7 DEF RetireSession, Retired, At, Kinds, RetiredOwn
<1> QED
  BY <1>6, <1>7

LEMMA OutsideIsAside ==
    ASSUME TypedInv,
           \/ \E b \in Browsers : Logout(b) \/ DropCookie(b) \/ ExpireRecent(b)
           \/ \E t \in ResetTokens : RequestReset(t) \/ ExpireToken(t)
           \/ \E s \in Sessions : ExpireSession(s)
           \/ \E to \in {"ACTIVE", "DISABLED"} : SetStatus(to)
           \/ UNCHANGED vars
    PROVE  Aside
<1>1. ASSUME NEW b \in Browsers, Logout(b) \/ DropCookie(b) \/ ExpireRecent(b) PROVE Aside
  <2>1. jar \in [Browsers -> [session: Sessions \cup {"none"}, recent: BOOLEAN]]
    BY DEF TypedInv, RowsOK
  <2>2. \A c \in Browsers : ~Idles(c) => jar'[c].session = jar[c].session
    <3>1. CASE Logout(b) \/ DropCookie(b)
      BY <2>1, <3>1 DEF Logout, DropCookie
    <3>2. CASE ExpireRecent(b)
      BY <2>1, <3>2 DEF ExpireRecent
    <3> QED
      BY <1>1, <3>1, <3>2
  <2>3. UNCHANGED <<req, born, era, overlaps, cuts>> /\ live' \subseteq live
    BY <1>1 DEF Logout, DropCookie, ExpireRecent, account, history, mishaps
  <2> QED
    BY <2>2, <2>3 DEF Aside
<1>2. ASSUME NEW t \in ResetTokens, RequestReset(t) \/ ExpireToken(t) PROVE Aside
  BY <1>2 DEF RequestReset, ExpireToken, Aside, history, mishaps
<1>3. ASSUME NEW s \in Sessions, ExpireSession(s) PROVE Aside
  BY <1>3 DEF ExpireSession, Aside, history
<1>4. ASSUME NEW to \in {"ACTIVE", "DISABLED"}, SetStatus(to) PROVE Aside
  BY <1>4 DEF SetStatus, Aside, history
<1>5. CASE UNCHANGED vars
  BY <1>5 DEF Aside, vars, account, history, mishaps
<1> QED
  BY <1>1, <1>2, <1>3, <1>4, <1>5

LEMMA StepHasAKind ==
    ASSUME TypedInv, [Next]_vars PROVE Aside \/ \E b \in Browsers : Kinds(b)
<1>1. ASSUME NEW b \in Browsers, CutShort(b) PROVE Kinds(b)
  <2>1. Elsewhere(b) /\ req'[b] = Idle
    BY <1>1, OthersStay DEF CutShort, Finish
  <2> QED
    BY <1>1, <2>1, IdleIsTyped, IdleRotatesNot DEF CutShort, Kinds, Died, account, history
<1>2. ASSUME NEW b \in Browsers, SignIn(b) \/ Change(b) \/ ExpireRecent(b)
      PROVE  Aside \/ Kinds(b)
  <2>1. Begun(b) => Kinds(b)
    BY DEF Kinds
  <2> QED
    BY <1>2, <2>1, BeginningsAreKinds, SigningIsAKind, StoringIsAKind, ClosingIsAKind, OutsideIsAside
       DEF SignIn, Change
<1> QED
  BY <1>1, <1>2, OutsideIsAside DEF Next

-----------------------------------------------------------------------------
(* What is counted against the overlaps.                                   *)

LEMMA Fewer ==
    ASSUME NEW S, IsFiniteSet(S), NEW T, T \subseteq S
    PROVE  /\ IsFiniteSet(T) /\ Cardinality(T) \in Nat /\ Cardinality(S) \in Nat
           /\ Cardinality(T) <= Cardinality(S)
BY FS_Subset, FS_CardinalityType

LEMMA OneMore ==
    ASSUME NEW S, IsFiniteSet(S), NEW x, NEW T, T \subseteq S \cup {x}
    PROVE  /\ IsFiniteSet(T) /\ Cardinality(T) \in Nat /\ Cardinality(S) \in Nat
           /\ Cardinality(T) <= Cardinality(S) + 1
<1>1. /\ IsFiniteSet(S \cup {x})
      /\ Cardinality(S \cup {x}) = IF x \in S THEN Cardinality(S) ELSE Cardinality(S) + 1
  BY FS_AddElement
<1>2. Cardinality(S) \in Nat
  BY FS_CardinalityType
<1>3. IsFiniteSet(T) /\ Cardinality(T) \in Nat /\ Cardinality(T) <= Cardinality(S \cup {x})
  BY <1>1, Fewer
<1> QED
  BY <1>1, <1>2, <1>3

LEMMA OneLess ==
    ASSUME NEW S, IsFiniteSet(S), NEW x \in S, NEW T, T \subseteq S \ {x}
    PROVE  /\ IsFiniteSet(T) /\ Cardinality(T) \in Nat /\ Cardinality(S) \in Nat
           /\ Cardinality(T) + 1 <= Cardinality(S)
<1>1. IsFiniteSet(S \ {x}) /\ Cardinality(S \ {x}) = Cardinality(S) - 1
  BY FS_RemoveElement
<1>2. Cardinality(S) \in Nat
  BY FS_CardinalityType
<1>3. IsFiniteSet(T) /\ Cardinality(T) \in Nat /\ Cardinality(T) <= Cardinality(S \ {x})
  BY <1>1, Fewer
<1> QED
  BY <1>1, <1>2, <1>3

LEMMA NoneAtAll == IsFiniteSet({}) /\ Cardinality({}) = 0
BY FS_EmptySet

\* The requests in flight, and those that may still store or open something.
Busy == {b \in Browsers : ~Idles(b)}
Pending == {b \in Browsers : req[b].pc \notin {"idle", "answer"}}

\* The sessions of older credentials that no change under way is about to close.
Doomed(s) == \E b \in Browsers : \/ At(b, "revoke")
                                 \/ At(b, "retire") /\ s = jar[b].session
Left == {s \in live : born[s] # era /\ ~Doomed(s)}

FewBusy == Cardinality(Busy) <= 1 + overlaps
Outdates == \A b \in Pending : req[b].knows # era
FewLeft ==
    cuts = 0 => /\ Cardinality(Left) + Cardinality(Pending) <= overlaps + 1
                /\ Outdates => Cardinality(Left) + Cardinality(Pending) <= overlaps

\* What lies beside the session of a caller who changed the credentials, or may yet.
Own(b) == {IF At(b, "answer") THEN req[b].fresh ELSE jar[b].session}
Beside(b) == live \ Own(b)
Rivals(b) == Pending \ {b}
Changed(b) == req[b].op \in Rotates /\ req[b].pc \in {"retire", "open", "answer"}
FewBeside(b) ==
    Changed(b) => /\ Cardinality(Beside(b)) + Cardinality(Rivals(b)) <= overlaps
                  /\ ~At(b, "retire") => jar[b].session \notin live

SessionInv ==
    /\ TypedInv /\ MishapsOK /\ IsFiniteSet(live)
    /\ FewBusy /\ FewLeft /\ \A b \in Browsers : FewBeside(b)

LEMMA Finite ==
    ASSUME SessionInv
    PROVE  /\ IsFiniteSet(live) /\ IsFiniteSet(Busy) /\ IsFiniteSet(Pending) /\ IsFiniteSet(Left)
           /\ \A b \in Browsers : IsFiniteSet(Beside(b)) /\ IsFiniteSet(Rivals(b))
           /\ overlaps \in Nat /\ cuts \in Nat
           /\ Cardinality(Busy) \in Nat /\ Cardinality(Pending) \in Nat /\ Cardinality(Left) \in Nat
<1>1. IsFiniteSet(Browsers) /\ IsFiniteSet(live) /\ overlaps \in Nat /\ cuts \in Nat
  BY AccountAssumption DEF SessionInv, MishapsOK
<1>2. IsFiniteSet(Busy) /\ IsFiniteSet(Pending) /\ IsFiniteSet(Left)
  BY <1>1, Fewer DEF Busy, Pending, Left
<1>3. \A b \in Browsers : IsFiniteSet(Beside(b)) /\ IsFiniteSet(Rivals(b))
  BY <1>1, <1>2, Fewer DEF Beside, Rivals
<1> QED
  BY <1>1, <1>2, <1>3, FS_CardinalityType

LEMMA LiveStaysFinite ==
    ASSUME SessionInv, Aside \/ \E b \in Browsers : Kinds(b) PROVE IsFiniteSet(live')
<1>1. IsFiniteSet(live)
  BY DEF SessionInv
<1>2. CASE live' \subseteq live
  BY <1>1, <1>2, Fewer
<1>3. ASSUME NEW b \in Browsers, Opened(b) PROVE IsFiniteSet(live')
  BY <1>1, <1>3, OneMore DEF Opened
<1> QED
  BY <1>2, <1>3 DEF Aside, Kinds, Begun, Passed, Answered, Renewed, Reset, Revoked, RetiredOwn, Died

LEMMA BusyStep ==
    ASSUME SessionInv, Aside \/ \E b \in Browsers : Kinds(b) PROVE FewBusy'
<1>0. IsFiniteSet(Busy) /\ overlaps \in Nat /\ FewBusy /\ Cardinality(Busy) \in Nat
  BY Finite DEF SessionInv
<1>1. ASSUME Busy' \subseteq Busy, overlaps' = overlaps PROVE FewBusy'
  <2>1. Cardinality(Busy') <= Cardinality(Busy) /\ Cardinality(Busy') \in Nat
    BY <1>0, <1>1, Fewer
  <2> QED
    BY <1>0, <1>1, <2>1 DEF FewBusy
<1>2. ASSUME NEW b \in Browsers, Begun(b) PROVE FewBusy'
  <2>1. Busy' \subseteq Busy \cup {b}
    BY <1>2 DEF Busy, Idles, Begun, Elsewhere
  <2>2. Cardinality(Busy') <= Cardinality(Busy) + 1 /\ Cardinality(Busy') \in Nat
    BY <1>0, <2>1, OneMore
  <2>3. Alone => Cardinality(Busy) = 0
    <3>1. Alone => Busy = {}
      BY DEF Alone, Busy
    <3> QED
      BY <3>1, NoneAtAll
  <2>4. overlaps' = IF Alone THEN overlaps ELSE overlaps + 1
    BY <1>2 DEF Begun
  <2> QED
    BY <1>0, <2>2, <2>3, <2>4 DEF FewBusy
<1>3. ASSUME NEW b \in Browsers, Kinds(b), ~Begun(b) PROVE FewBusy'
  <2>1. ~Idles(b) /\ Elsewhere(b) /\ overlaps' = overlaps
    BY <1>3 DEF Kinds, Passed, Opened, Answered, Renewed, Reset, Revoked, RetiredOwn, Died, At, Idles
  <2>2. Busy' \subseteq Busy
    BY <2>1 DEF Busy, Idles, Elsewhere
  <2> QED
    BY <1>1, <2>1, <2>2
<1>4. CASE Aside
  <2>1. Busy' \subseteq Busy /\ overlaps' = overlaps
    BY <1>4 DEF Aside, Busy, Idles
  <2> QED
    BY <1>1, <2>1
<1> QED
  BY <1>2, <1>3, <1>4

\* No session and no request is added to those that are counted.
LEMMA NoMoreLeft ==
    ASSUME SessionInv, UNCHANGED <<overlaps, cuts>>, Left' \subseteq Left, Pending' \subseteq Pending,
           Outdates' => Outdates
    PROVE  FewLeft'
<1>1. /\ Cardinality(Left') <= Cardinality(Left) /\ Cardinality(Left') \in Nat
      /\ Cardinality(Pending') <= Cardinality(Pending) /\ Cardinality(Pending') \in Nat
  BY Finite, Fewer
<1>2. FewLeft /\ overlaps \in Nat /\ Cardinality(Left) \in Nat /\ Cardinality(Pending) \in Nat
  BY Finite DEF SessionInv
<1> HIDE DEF Left, Pending, Outdates
<1> QED
  BY <1>1, <1>2 DEF FewLeft

\* One request less makes up for one session more of credentials it has outlived.
LEMMA OneLeaves ==
    ASSUME SessionInv, UNCHANGED <<overlaps, cuts>>, NEW b \in Pending, Pending' \subseteq Pending \ {b},
           NEW s, \/ Left' \subseteq Left
                  \/ Left' \subseteq Left \cup {s} /\ (Outdates' => Outdates)
    PROVE  FewLeft'
<1>1. Cardinality(Pending') + 1 <= Cardinality(Pending) /\ Cardinality(Pending') \in Nat
  BY Finite, OneLess
<1>2. FewLeft /\ overlaps \in Nat /\ Cardinality(Left) \in Nat /\ Cardinality(Pending) \in Nat
  BY Finite DEF SessionInv
<1> HIDE DEF Left, Pending, Outdates
<1>3. CASE Left' \subseteq Left
  <2>1. Cardinality(Left') <= Cardinality(Left) /\ Cardinality(Left') \in Nat
    BY <1>3, Finite, Fewer
  <2> QED
    BY <1>1, <1>2, <2>1 DEF FewLeft
<1>4. CASE Left' \subseteq Left \cup {s} /\ (Outdates' => Outdates)
  <2>1. Cardinality(Left') <= Cardinality(Left) + 1 /\ Cardinality(Left') \in Nat
    BY <1>4, Finite, OneMore
  <2> QED
    BY <1>1, <1>2, <1>4, <2>1 DEF FewLeft
<1> QED
  BY <1>3, <1>4

LEMMA LeftBegins ==
    ASSUME SessionInv, NEW b \in Browsers, Begun(b) PROVE FewLeft'
<1>1. Left' \subseteq Left
  <2>1. \A s : Doomed(s)' <=> Doomed(s)
    BY DEF Begun, Elsewhere, Idles, Doomed, At
  <2> QED
    BY <2>1 DEF Begun, Left
<1>2. b \notin Pending /\ Pending' \subseteq Pending \cup {b} /\ cuts' = cuts
  BY DEF Begun, Elsewhere, Idles, Pending
<1>3. /\ Cardinality(Left') <= Cardinality(Left) /\ Cardinality(Left') \in Nat
      /\ Cardinality(Pending') <= Cardinality(Pending) + 1 /\ Cardinality(Pending') \in Nat
  BY <1>1, <1>2, Finite, Fewer, OneMore
<1>4. FewLeft /\ overlaps \in Nat /\ Cardinality(Left) \in Nat /\ Cardinality(Pending) \in Nat
  BY Finite DEF SessionInv
<1>5. Outdates' => Pending' \subseteq Pending
  BY <1>2 DEF Outdates, Begun
<1>6. Outdates' => Outdates
  BY DEF Outdates, Pending, Begun, Elsewhere, Idles
<1>7. CASE Alone
  <2>1. Pending = {} /\ overlaps' = overlaps
    BY <1>7 DEF Alone, Pending, Idles, Begun
  <2>2. Cardinality(Pending) = 0 /\ Outdates /\ (Outdates' => Cardinality(Pending') = 0)
    <3>1. Outdates' => Pending' = {}
      BY <1>5, <2>1
    <3> QED
      BY <2>1, <3>1, NoneAtAll DEF Outdates
  <2> HIDE DEF Left, Pending, Outdates
  <2> QED
    BY <1>2, <1>3, <1>4, <2>1, <2>2 DEF FewLeft
<1>8. CASE ~Alone
  <2>1. overlaps' = overlaps + 1
    BY <1>8 DEF Begun
  <2> HIDE DEF Left, Pending, Outdates
  <2> QED
    BY <1>2, <1>3, <1>4, <1>6, <2>1 DEF FewLeft
<1> QED
  BY <1>7, <1>8

LEMMA LeftStep ==
    ASSUME SessionInv, Aside \/ \E b \in Browsers : Kinds(b) PROVE FewLeft'
<1>1. ASSUME NEW b \in Browsers, Passed(b) PROVE FewLeft'
  <2>1. Left' \subseteq Left
    <3>1. \A s : Doomed(s)' <=> Doomed(s)
      BY <1>1 DEF Passed, Elsewhere, Doomed, At
    <3> QED
      BY <1>1, <3>1 DEF Passed, Left
  <2>2. b \in Pending /\ UNCHANGED <<overlaps, cuts>>
    BY <1>1 DEF Passed, Pending
  <2>3. CASE req'[b].pc = "open"
    <3>1. Pending' \subseteq Pending /\ (Outdates' => Outdates)
      BY <1>1, <2>2, <2>3 DEF Passed, Pending, Outdates, Elsewhere
    <3> QED
      BY <2>1, <2>2, <3>1, NoMoreLeft
  <2>4. CASE req'[b].pc # "open"
    <3>1. Pending' \subseteq Pending \ {b}
      BY <1>1, <2>4 DEF Passed, Pending, Elsewhere
    <3> QED
      BY <2>1, <2>2, <3>1, OneLeaves
  <2> QED
    BY <2>3, <2>4
<1>2. ASSUME NEW b \in Browsers, Opened(b) PROVE FewLeft'
  <2> DEFINE s == req'[b].fresh
  <2>1. /\ b \in Pending /\ UNCHANGED <<overlaps, cuts>> /\ Pending' \subseteq Pending \ {b}
        /\ \A z : Doomed(z)' <=> Doomed(z)
    BY <1>2 DEF Opened, Pending, Elsewhere, Doomed, At
  <2>2. /\ Left' \subseteq Left \cup {s}
        /\ req[b].knows = era => Left' \subseteq Left
    BY <1>2, <2>1 DEF Opened, Left
  <2>3. req[b].knows # era => (Outdates' => Outdates)
    BY <1>2 DEF Opened, Outdates, Pending, Elsewhere
  <2> HIDE DEF s
  <2> QED
    BY <2>1, <2>2, <2>3, OneLeaves
<1>3. ASSUME NEW b \in Browsers, Answered(b) PROVE FewLeft'
  <2>1. Pending' \subseteq Pending /\ UNCHANGED <<overlaps, cuts>> /\ (Outdates' => Outdates)
    BY <1>3 DEF Answered, Pending, Outdates, Elsewhere, At
  <2>2. Left' \subseteq Left
    <3>1. \A s : Doomed(s)' <=> Doomed(s)
      BY <1>3 DEF Answered, Elsewhere, Doomed, At
    <3> QED
      BY <1>3, <3>1 DEF Answered, Left
  <2> QED
    BY <2>1, <2>2, NoMoreLeft
<1>4. ASSUME NEW b \in Browsers, Renewed(b) \/ Reset(b) PROVE FewLeft'
  <2>1. Left' = {}
    <3>1. CASE Renewed(b)
      BY <3>1 DEF Renewed, Left, Doomed, At
    <3>2. CASE Reset(b)
      BY <3>2 DEF Reset, Left
    <3> QED
      BY <1>4, <3>1, <3>2
  <2>2. /\ b \in Busy /\ UNCHANGED <<overlaps, cuts>> /\ Pending' \subseteq Busy
        /\ Outdates' => Pending' \subseteq Busy \ {b}
    BY <1>4 DEF Renewed, Reset, Outdates, Busy, Pending, Idles, Elsewhere, At
  <2>3. /\ Cardinality(Left') = 0 /\ Cardinality(Pending') \in Nat
        /\ Cardinality(Pending') <= Cardinality(Busy)
        /\ Outdates' => Cardinality(Pending') + 1 <= Cardinality(Busy)
    BY <2>1, <2>2, Finite, Fewer, OneLess, NoneAtAll
  <2>4. Cardinality(Busy) <= 1 + overlaps /\ overlaps \in Nat /\ Cardinality(Busy) \in Nat
    BY Finite DEF SessionInv, FewBusy
  <2> HIDE DEF Left, Pending, Outdates
  <2> QED
    BY <2>2, <2>3, <2>4 DEF FewLeft
<1>5. ASSUME NEW b \in Browsers, Revoked(b) \/ RetiredOwn(b) PROVE FewLeft'
  <2>1. Pending' \subseteq Pending /\ UNCHANGED <<overlaps, cuts>> /\ (Outdates' => Outdates)
    BY <1>5 DEF Revoked, RetiredOwn, Pending, Outdates, Elsewhere, At
  <2>2. CASE Revoked(b)
    <3>1. Left' = {}
      BY <2>2 DEF Revoked, Left, Doomed, At
    <3> QED
      BY <2>1, <3>1, NoMoreLeft
  <2>3. CASE RetiredOwn(b)
    <3>1. \A s \in live' : Doomed(s) => Doomed(s)'
      BY <2>3 DEF RetiredOwn, Elsewhere, Doomed, At
    <3>2. Left' \subseteq Left
      BY <2>3, <3>1 DEF RetiredOwn, Left
    <3> QED
      BY <2>1, <3>2, NoMoreLeft
  <2> QED
    BY <1>5, <2>2, <2>3
<1>6. ASSUME NEW b \in Browsers, Died(b) PROVE FewLeft'
  BY <1>6, Finite DEF Died, FewLeft
<1>7. CASE Aside
  <2>1. Pending' \subseteq Pending /\ UNCHANGED <<overlaps, cuts>> /\ (Outdates' => Outdates)
    BY <1>7 DEF Aside, Pending, Outdates
  <2>2. \A s : Doomed(s) => Doomed(s)'
    BY <1>7 DEF Aside, Doomed, At, Idles
  <2>3. Left' \subseteq Left
    BY <1>7, <2>2 DEF Aside, Left
  <2> QED
    BY <2>1, <2>3, NoMoreLeft
<1> QED
  BY <1>1, <1>2, <1>3, <1>4, <1>5, <1>6, <1>7, LeftBegins DEF Kinds

\* What lies beside b's session is counted; a step that opens another ends a request.
LEMMA BesideKeeps ==
    ASSUME SessionInv, NEW b \in Browsers, FewBeside(b), Changed(b), UNCHANGED overlaps,
           At(b, "retire")' \/ jar'[b].session \notin live',
           \/ Beside(b)' \subseteq Beside(b) /\ Rivals(b)' \subseteq Rivals(b)
           \/ \E c \in Rivals(b) : /\ \E s : Beside(b)' \subseteq Beside(b) \cup {s}
                                   /\ Rivals(b)' \subseteq Rivals(b) \ {c}
    PROVE  FewBeside(b)'
<1> DEFINE B == Beside(b)  R == Rivals(b)
<1>1. /\ IsFiniteSet(B) /\ IsFiniteSet(R) /\ Cardinality(B) \in Nat /\ Cardinality(R) \in Nat
      /\ overlaps \in Nat /\ Cardinality(B) + Cardinality(R) <= overlaps
  BY Finite, FS_CardinalityType DEF FewBeside
<1> SUFFICES Cardinality(B') + Cardinality(R') <= overlaps
  BY DEF FewBeside
<1>2. CASE B' \subseteq B /\ R' \subseteq R
  <2> HIDE DEF B, R
  <2>1. /\ Cardinality(B') <= Cardinality(B) /\ Cardinality(R') <= Cardinality(R)
        /\ Cardinality(B') \in Nat /\ Cardinality(R') \in Nat
    BY <1>1, <1>2, Fewer
  <2> QED
    BY <1>1, <2>1
<1>3. ASSUME NEW c \in R, NEW s, B' \subseteq B \cup {s}, R' \subseteq R \ {c}
      PROVE  Cardinality(B') + Cardinality(R') <= overlaps
  <2> HIDE DEF B, R
  <2>1. Cardinality(B') <= Cardinality(B) + 1 /\ Cardinality(B') \in Nat
    BY <1>1, <1>3, OneMore
  <2>2. Cardinality(R') + 1 <= Cardinality(R) /\ Cardinality(R') \in Nat
    BY <1>1, <1>3, OneLess
  <2> QED
    BY <1>1, <2>1, <2>2
<1> QED
  BY <1>2, <1>3

LEMMA BesideOthers ==
    ASSUME SessionInv, NEW b \in Browsers, NEW c \in Browsers \ {b}, Kinds(c), Changed(b)'
    PROVE  FewBeside(b)'
<1>1. /\ Elsewhere(c) /\ req'[b] = req[b] /\ jar'[b] = jar[b]
  BY DEF Kinds, Begun, Passed, Opened, Answered, Renewed, Reset, Revoked, RetiredOwn, Died, Elsewhere
<1>2. /\ Changed(b) /\ FewBeside(b) /\ ~Idles(b) /\ Own(b)' = Own(b)
      /\ At(b, "retire")' <=> At(b, "retire")
  BY <1>1 DEF SessionInv, Changed, Idles, Own, At
<1>3. ~At(b, "retire") => jar[b].session \notin live
  BY <1>2 DEF FewBeside
<1>4. CASE Opened(c)
  <2> DEFINE s == req'[c].fresh
  <2>1. s # jar[b].session
    BY <1>4 DEF Opened, FreshSessions, Held
  <2>2. /\ Beside(b)' \subseteq Beside(b) \cup {s}
        /\ c \in Rivals(b) /\ Rivals(b)' \subseteq Rivals(b) \ {c}
        /\ overlaps' = overlaps
    BY <1>1, <1>2, <1>4 DEF Opened, Beside, Rivals, Pending, Elsewhere, At
  <2>3. At(b, "retire")' \/ jar'[b].session \notin live'
    BY <1>1, <1>2, <1>3, <1>4, <2>1 DEF Opened
  <2> HIDE DEF s
  <2> QED
    BY <1>2, <2>2, <2>3, BesideKeeps
<1>5. CASE Begun(c)
  <2> DEFINE B == Beside(b)  R == Rivals(b)
  <2>1. overlaps' = overlaps + 1
    BY <1>2, <1>5 DEF Begun, Alone
  <2>2. B' = B /\ R' \subseteq R \cup {c} /\ jar' = jar /\ live' = live
    BY <1>1, <1>2, <1>5 DEF Begun, Beside, Rivals, Pending, Elsewhere
  <2>3. /\ IsFiniteSet(B) /\ IsFiniteSet(R) /\ Cardinality(B) \in Nat /\ Cardinality(R) \in Nat
        /\ overlaps \in Nat /\ Cardinality(B) + Cardinality(R) <= overlaps
    BY <1>2, Finite, FS_CardinalityType DEF FewBeside
  <2>4. Cardinality(B') + Cardinality(R') <= overlaps'
    <3> HIDE DEF B, R
    <3>1. /\ Cardinality(B') = Cardinality(B)
          /\ Cardinality(R') <= Cardinality(R) + 1 /\ Cardinality(R') \in Nat
      BY <2>2, <2>3, OneMore
    <3> QED
      BY <2>1, <2>3, <3>1
  <2> QED
    BY <1>2, <1>3, <2>2, <2>4 DEF FewBeside
<1>6. CASE ~Opened(c) /\ ~Begun(c)
  <2>1. live' \subseteq live /\ overlaps' = overlaps
    BY <1>6 DEF Kinds, Passed, Answered, Renewed, Reset, Revoked, RetiredOwn, Died
  <2>2. c \in Pending' => c \in Pending
    BY <1>6 DEF Kinds, Passed, Answered, Renewed, Reset, Revoked, RetiredOwn, Died, Pending, At
  <2>3. Beside(b)' \subseteq Beside(b) /\ Rivals(b)' \subseteq Rivals(b)
    BY <1>1, <1>2, <2>1, <2>2 DEF Beside, Rivals, Pending, Elsewhere
  <2>4. At(b, "retire")' \/ jar'[b].session \notin live'
    BY <1>1, <1>2, <1>3, <2>1
  <2> QED
    BY <1>2, <2>1, <2>3, <2>4, BesideKeeps
<1> QED
  BY <1>4, <1>5, <1>6

LEMMA BesideOwn ==
    ASSUME SessionInv, NEW b \in Browsers, Kinds(b), Changed(b)' PROVE FewBeside(b)'
<1>1. Opened(b) \/ Revoked(b) \/ RetiredOwn(b)
  BY DEF Kinds, Changed, Begun, Passed, Answered, Renewed, Reset, Died
<1>2. CASE Revoked(b)
  <2> DEFINE B == Beside(b)  R == Rivals(b)
  <2>1. B' = {} /\ R' \subseteq Busy \ {b} /\ b \in Busy /\ overlaps' = overlaps
    BY <1>2 DEF Revoked, Beside, Own, Rivals, Pending, Busy, Idles, Elsewhere, At
  <2>2. Cardinality(Busy) <= 1 + overlaps /\ overlaps \in Nat /\ Cardinality(Busy) \in Nat
    BY Finite DEF SessionInv, FewBusy
  <2>3. Cardinality(B') + Cardinality(R') <= overlaps'
    <3>1. Cardinality(B') = 0
      BY <2>1, NoneAtAll
    <3>2. Cardinality(R') + 1 <= Cardinality(Busy) /\ Cardinality(R') \in Nat
      <4> HIDE DEF B, R
      <4> QED
        BY <2>1, Finite, OneLess
    <3> QED
      BY <2>1, <2>2, <3>1, <3>2
  <2>4. At(b, "retire")'
    BY <1>2 DEF Revoked, At
  <2> QED
    BY <2>3, <2>4 DEF FewBeside
<1>3. CASE RetiredOwn(b)
  <2>1. Changed(b) /\ FewBeside(b) /\ overlaps' = overlaps
    BY <1>3 DEF RetiredOwn, Changed, At, SessionInv
  <2>2. Beside(b)' \subseteq Beside(b) /\ Rivals(b)' \subseteq Rivals(b) /\ jar'[b].session \notin live'
    BY <1>3 DEF RetiredOwn, Beside, Own, Rivals, Pending, Elsewhere, At
  <2> QED
    BY <2>1, <2>2, BesideKeeps
<1>4. CASE Opened(b)
  <2> DEFINE s == req'[b].fresh
  <2>1. Changed(b) /\ FewBeside(b) /\ overlaps' = overlaps
    BY <1>4 DEF Opened, Changed, At, SessionInv
  <2>2. jar[b].session \notin live /\ s # jar[b].session /\ jar' = jar /\ live' = live \cup {s}
    BY <1>4, <2>1 DEF Opened, FewBeside, At, FreshSessions, Held
  <2>3. Own(b)' = {s} /\ Own(b) = {jar[b].session}
    BY <1>4 DEF Opened, Own, At
  <2>4. Beside(b)' \subseteq Beside(b)
    BY <2>2, <2>3 DEF Beside
  <2>5. Rivals(b)' \subseteq Rivals(b) /\ jar'[b].session \notin live'
    BY <1>4, <2>2 DEF Opened, Rivals, Pending, Elsewhere
  <2> HIDE DEF s
  <2> QED
    BY <2>1, <2>4, <2>5, BesideKeeps
<1> QED
  BY <1>1, <1>2, <1>3, <1>4

LEMMA BesideAside ==
    ASSUME SessionInv, NEW b \in Browsers, Aside, Changed(b)' PROVE FewBeside(b)'
<1>1. Changed(b) /\ FewBeside(b) /\ overlaps' = overlaps /\ jar'[b].session = jar[b].session
  BY DEF Aside, Changed, SessionInv, Idles
<1>2. Beside(b)' \subseteq Beside(b) /\ Rivals(b)' \subseteq Rivals(b)
  BY <1>1 DEF Aside, Beside, Own, Rivals, Pending, At
<1>3. At(b, "retire")' \/ jar'[b].session \notin live'
  BY <1>1 DEF FewBeside, Aside, At
<1> QED
  BY <1>1, <1>2, <1>3, BesideKeeps

LEMMA SessionStep == SessionInv /\ [Next]_vars => SessionInv'
<1> SUFFICES ASSUME SessionInv, [Next]_vars PROVE SessionInv'
  OBVIOUS
<1>1. TypedInv' /\ MishapsOK'
  BY TypedStep, MishapsStep DEF SessionInv
<1>2. Aside \/ \E b \in Browsers : Kinds(b)
  BY StepHasAKind DEF SessionInv
<1>3. IsFiniteSet(live)' /\ FewBusy' /\ FewLeft'
  BY <1>2, LiveStaysFinite, BusyStep, LeftStep
<1>4. ASSUME NEW b \in Browsers PROVE FewBeside(b)'
  <2>1. CASE Changed(b)'
    BY <1>2, <2>1, BesideOthers, BesideOwn, BesideAside
  <2>2. CASE ~Changed(b)'
    BY <2>2 DEF FewBeside
  <2> QED
    BY <2>1, <2>2
<1> QED
  BY <1>1, <1>3, <1>4 DEF SessionInv

LEMMA SessionInit == Init => SessionInv
<1> SUFFICES ASSUME Init PROVE SessionInv
  OBVIOUS
<1>1. TypedInv /\ overlaps = 0 /\ cuts = 0 /\ live = {} /\ \A b \in Browsers : req[b] = Idle
  BY TypedInit DEF Init
<1>2. MishapsOK
  BY AccountAssumption DEF Init, MishapsOK
<1>3. Busy = {} /\ Pending = {} /\ Left = {}
  BY <1>1, IdleIsTyped DEF Busy, Pending, Left, Idles
<1>4. FewBusy /\ FewLeft
  BY <1>1, <1>3, NoneAtAll DEF FewBusy, FewLeft
<1>5. \A b \in Browsers : FewBeside(b)
  BY <1>1, IdleRotatesNot DEF FewBeside, Changed
<1> QED
  BY <1>1, <1>2, <1>4, <1>5, NoneAtAll DEF SessionInv

\* However requests overlap, as long as none is cut short: when all have answered, there
\* are no more sessions of older credentials than there were overlaps (revokeAllUserSessions
\* and rotateCurrentSession after each change; the reset's deleteMany).
THEOREM SessionsStayCurrent == Spec => []SessionsAreCurrent
<1>1. SessionInv => SessionsAreCurrent
  <2> SUFFICES ASSUME SessionInv, cuts = 0, Alone PROVE Cardinality(Outdated) <= overlaps
    BY DEF SessionsAreCurrent
  <2>1. Pending = {} /\ Outdates /\ Left = Outdated
    BY DEF Alone, Idles, Pending, Outdates, Left, Outdated, Doomed, At
  <2>2. Cardinality(Left) + 0 <= overlaps /\ Cardinality(Left) \in Nat
    BY <2>1, NoneAtAll, Finite DEF SessionInv, FewLeft
  <2> QED
    BY <2>1, <2>2
<1> QED
  BY <1>1, SessionInit, SessionStep, PTL DEF Spec

\* However requests overlap and are cut short: who changes the credentials is answered
\* with a session beside which no more are open than requests overlapped another
\* (settings-service.ts, the end of each change; rotateCurrentSession).
THEOREM CallerStaysAlone == Spec => CallerAloneStays
<1> DEFINE Stays(b) == req[b].op \in Rotates /\ jar'[b].session # jar[b].session
                       => Cardinality(live' \ {jar'[b].session}) <= overlaps
<1>1. SessionInv /\ [Next]_vars => \A b \in Browsers : Stays(b)
  <2> SUFFICES ASSUME SessionInv, [Next]_vars, NEW b \in Browsers, req[b].op \in Rotates,
                      jar'[b].session # jar[b].session
               PROVE  Cardinality(live' \ {jar'[b].session}) <= overlaps
    OBVIOUS
  <2>0. jar \in [Browsers -> [session: Sessions \cup {"none"}, recent: BOOLEAN]]
    BY DEF SessionInv, TypedInv, RowsOK
  <2>1. PICK c \in Browsers : Answer(c) \/ Logout(c) \/ DropCookie(c) \/ ExpireRecent(c)
    BY DEF Next, vars, SignIn, Change, CutShort, RequestReset, ExpireToken, ExpireSession,
           SetStatus, Register, CreateUser, SpendCode, OpenSession, Login, Reauthenticate,
           ChangePassword, SetUpTotp, VerifyTotp, DisableTotp, RegenerateCodes, CheckToken,
           StorePassword, StoreSecret, StoreVerified, StoreDisabled, StoreCodes, StoreReset,
           RevokeOthers, RetireSession
  <2>2. c = b
    BY <2>0, <2>1 DEF Answer, Logout, DropCookie, ExpireRecent
  <2>3. Answer(b)
    <3>1. ~Idles(b)
      BY DEF SessionInv, TypedInv, Fits, Idles, Rotates
    <3> QED
      BY <2>0, <2>1, <2>2, <3>1 DEF Logout, DropCookie, ExpireRecent
  <2>4. req[b].pc = "answer" /\ jar'[b].session = req[b].fresh /\ live' = live
    BY <2>0, <2>3 DEF Answer, At, Rotates, account
  <2>5. Changed(b) /\ FewBeside(b) /\ Own(b) = {req[b].fresh}
    BY <2>4 DEF Changed, SessionInv, Own, At
  <2>6. /\ Cardinality(Beside(b)) + Cardinality(Rivals(b)) <= overlaps /\ overlaps \in Nat
        /\ Cardinality(Beside(b)) \in Nat /\ Cardinality(Rivals(b)) \in Nat
    BY <2>5, Finite, FS_CardinalityType DEF FewBeside
  <2>7. Beside(b) = live' \ {jar'[b].session}
    BY <2>4, <2>5 DEF Beside
  <2> QED
    BY <2>6, <2>7
<1>2. SessionInv /\ [Next]_vars => SessionInv'
  BY SessionStep
<1> QED
  BY <1>1, <1>2, SessionInit, PTL DEF Spec, CallerAloneStays

-----------------------------------------------------------------------------
(* What a code or a token is good for.                                     *)

Uses == Codes \cup ResetTokens
Claimant(b) == At(b, "spend") \/ (At(b, "store") /\ req[b].op = "reset")
Claims(x) == {b \in Browsers : Claimant(b) /\ req[b].in = x}
Offered(x) == x \in mfa.codes \/ (x \in ResetTokens /\ tokens[x] = "live")
Handed(x)  == x \in issued \/ (x \in ResetTokens /\ tokens[x] # "none")

\* It is accepted now and nobody is about to use it, or it will be written back.
Revived(x) == \E b \in Browsers : At(b, "spend") /\ x \in Remaining(b)
StillGood(x) == (Offered(x) /\ Claims(x) = {}) \/ Revived(x)
Room(x) == IF StillGood(x) THEN 1 ELSE 0

FewUses(x) ==
    /\ spent[x] + Cardinality(Claims(x)) + Room(x) <= 1 + overlaps
    /\ ~Handed(x) => spent[x] = 0 /\ Claims(x) = {}

UseInv == TypedInv /\ MishapsOK /\ \A x \in Uses : FewUses(x)

LEMMA UseFacts ==
    ASSUME UseInv, NEW x \in Uses
    PROVE  /\ FewUses(x) /\ IsFiniteSet(Claims(x)) /\ Cardinality(Claims(x)) \in Nat
           /\ spent[x] \in Nat /\ overlaps \in Nat /\ Room(x) \in {0, 1}
<1>1. IsFiniteSet(Browsers)
  BY AccountAssumption
<1>2. IsFiniteSet(Claims(x))
  BY <1>1, Fewer DEF Claims
<1> QED
  BY <1>2, FS_CardinalityType DEF UseInv, TypedInv, RowsOK, MishapsOK, Uses, Room

\* Nobody's claim changes, and nothing is offered but what was, or is new.
Quiet ==
    /\ UNCHANGED <<spent, overlaps>>
    /\ \A b \in Browsers :
          /\ Claimant(b)' <=> Claimant(b)
          /\ Claimant(b) => req'[b].in = req[b].in
          /\ At(b, "spend")' => At(b, "spend") /\ req'[b] = req[b]
    /\ \A x \in Uses : /\ Handed(x) => Handed(x)'
                       /\ Offered(x)' => Offered(x) \/ ~Handed(x)

Joined(b) ==
    /\ Idles(b) /\ Elsewhere(b) /\ UNCHANGED <<mfa, tokens, spent, issued>>
    /\ overlaps' = IF Alone THEN overlaps ELSE overlaps + 1
    /\ req'[b].codes = mfa.codes
    /\ At(b, "spend")' => req'[b].in \in mfa.codes
    /\ Claimant(b)' => Offered(req'[b].in)

SpentOne(b) ==
    /\ At(b, "spend") /\ Elsewhere(b) /\ ~Claimant(b)'
    /\ UNCHANGED <<tokens, issued, overlaps>>
    /\ mfa'.codes = Remaining(b) /\ spent' = [spent EXCEPT ![req[b].in] = @ + 1]

ResetOne(b) ==
    /\ At(b, "store") /\ req[b].op = "reset" /\ Elsewhere(b) /\ ~Claimant(b)'
    /\ UNCHANGED <<mfa, issued, overlaps>>
    /\ tokens' = Used(req[b].in) /\ spent' = [spent EXCEPT ![req[b].in] = @ + 1]

GaveUp(b) ==
    /\ Elsewhere(b) /\ ~Claimant(b)' /\ UNCHANGED <<mfa, tokens, issued, spent, overlaps>>

UseKinds(b) == Joined(b) \/ SpentOne(b) \/ ResetOne(b) \/ GaveUp(b)

LEMMA QuietKeeps ==
    ASSUME UseInv, Quiet, NEW x \in Uses PROVE FewUses(x)'
<1>1. Claims(x)' = Claims(x) /\ spent' = spent /\ overlaps' = overlaps
  BY DEF Quiet, Claims
<1>2. Revived(x)' => Revived(x)
  BY DEF Quiet, Revived, Remaining
<1>3. StillGood(x)' => StillGood(x) \/ ~Handed(x)
  BY <1>1, <1>2 DEF Quiet, StillGood
<1>4. Room(x)' <= Room(x) \/ (~Handed(x) /\ Room(x)' <= 1)
  BY <1>3 DEF Room
<1>5. Room(x)' \in {0, 1} /\ (~Handed(x)' => ~Handed(x))
  BY DEF Room, Quiet
<1>6. ~Handed(x) => spent[x] = 0 /\ Cardinality(Claims(x)) = 0
  BY UseFacts, NoneAtAll DEF FewUses
<1>7. spent[x] + Cardinality(Claims(x)) + Room(x)' <= 1 + overlaps
  BY <1>4, <1>5, <1>6, UseFacts DEF FewUses
<1> QED
  BY <1>1, <1>5, <1>7, UseFacts DEF FewUses

LEMMA GivingUpKeeps ==
    ASSUME UseInv, NEW b \in Browsers, GaveUp(b), NEW x \in Uses PROVE FewUses(x)'
<1>1. /\ UNCHANGED <<spent, overlaps>> /\ Claims(x)' \subseteq Claims(x) \ {b}
      /\ b \notin Claims(x) => Claims(x)' = Claims(x)
  BY DEF GaveUp, Claims, Elsewhere, Claimant, At
<1>2. Offered(x)' = Offered(x) /\ Handed(x)' = Handed(x)
  BY DEF GaveUp, Offered, Handed
<1>3. Revived(x)' => Revived(x)
  BY DEF GaveUp, Revived, Remaining, Elsewhere, Claimant, At
<1>4. Room(x)' \in {0, 1}
  BY DEF Room
<1>5. CASE b \in Claims(x)
  <2>1. Cardinality(Claims(x)') + 1 <= Cardinality(Claims(x)) /\ Cardinality(Claims(x)') \in Nat
    BY <1>1, <1>5, UseFacts, OneLess
  <2>2. Handed(x)
    BY <1>5, UseFacts DEF FewUses
  <2> HIDE DEF Claims, Room, Handed
  <2> QED
    BY <1>1, <1>2, <1>4, <2>1, <2>2, UseFacts DEF FewUses
<1>6. CASE b \notin Claims(x)
  <2>1. StillGood(x)' => StillGood(x)
    BY <1>1, <1>2, <1>3, <1>6 DEF StillGood
  <2>2. Room(x)' <= Room(x)
    BY <2>1 DEF Room
  <2> QED
    BY <1>1, <1>2, <1>4, <1>6, <2>2, UseFacts DEF FewUses
<1> QED
  BY <1>5, <1>6

LEMMA JoiningKeeps ==
    ASSUME UseInv, NEW b \in Browsers, Joined(b), NEW x \in Uses PROVE FewUses(x)'
<1>1. /\ UNCHANGED spent /\ Offered(x)' = Offered(x) /\ Handed(x)' = Handed(x)
      /\ overlaps' = IF Alone THEN overlaps ELSE overlaps + 1
      /\ b \notin Claims(x) /\ Claims(x)' \subseteq Claims(x) \cup {b}
      /\ b \notin Claims(x)' => Claims(x)' = Claims(x)
  BY DEF Joined, Claims, Elsewhere, Claimant, At, Idles, Offered, Handed
<1>2. Alone => Claims(x) = {} /\ ~Revived(x)
  BY DEF Alone, Claims, Claimant, Revived, At, Idles
<1>3. Revived(x)' => \/ Revived(x)
                     \/ At(b, "spend")' /\ x \in mfa.codes /\ x # req'[b].in
  BY DEF Joined, Revived, Remaining, Elsewhere, At
<1>4. Room(x)' \in {0, 1}
  BY DEF Room
<1>5. CASE b \in Claims(x)'
  <2>1. Offered(x) /\ Handed(x)
    <3>1. Offered(x)
      BY <1>5 DEF Claims, Joined
    <3> QED
      BY <3>1 DEF Offered, Handed, UseInv, TypedInv, RowsOK
  <2>2. /\ StillGood(x)' => StillGood(x)
        /\ Alone => ~StillGood(x)' /\ StillGood(x)
    BY <1>1, <1>2, <1>3, <1>5, <2>1 DEF StillGood, Claims
  <2>3. Room(x)' <= Room(x) /\ (Alone => Room(x)' = 0 /\ Room(x) = 1)
    BY <2>2 DEF Room
  <2>4. Cardinality(Claims(x)') <= Cardinality(Claims(x)) + 1 /\ Cardinality(Claims(x)') \in Nat
    BY <1>1, UseFacts, OneMore
  <2> HIDE DEF Claims, Room, Handed
  <2> QED
    BY <1>1, <1>4, <2>1, <2>3, <2>4, UseFacts DEF FewUses
<1>6. CASE b \notin Claims(x)'
  <2>1. Alone => (StillGood(x)' => StillGood(x))
    BY <1>1, <1>2, <1>3, <1>6 DEF StillGood, Offered
  <2>2. Alone => Room(x)' <= Room(x)
    BY <2>1 DEF Room
  <2> QED
    BY <1>1, <1>4, <1>6, <2>2, UseFacts DEF FewUses
<1> QED
  BY <1>5, <1>6

LEMMA SpendingKeeps ==
    ASSUME UseInv, NEW b \in Browsers, SpentOne(b) \/ ResetOne(b), NEW x \in Uses
    PROVE  FewUses(x)'
<1> DEFINE y == req[b].in
<1>1. /\ overlaps' = overlaps /\ Claims(x)' \subseteq Claims(x) \ {b}
      /\ x # y => Claims(x)' = Claims(x)
      /\ b \in Claims(y)
  BY DEF SpentOne, ResetOne, Claims, Elsewhere, Claimant, At
<1>2. Revived(x)' => Revived(x)
  BY DEF SpentOne, ResetOne, Revived, Remaining, Elsewhere, Claimant, At
<1>3. Handed(x) => Handed(x)'
  BY DEF SpentOne, ResetOne, Handed, Used, UseInv, TypedInv, RowsOK
<1>4. /\ x = y => ~Offered(x)'
      /\ x # y => (Offered(x)' => Offered(x) \/ Revived(x))
  <2>1. CASE SpentOne(b)
    <3>1. y \in Codes
      BY <2>1 DEF SpentOne, At, UseInv, TypedInv, Fits, RequestState
    <3> QED
      BY <2>1, <3>1, AccountAssumption DEF SpentOne, Offered, Revived, Remaining
  <2>2. CASE ResetOne(b)
    <3>1. /\ y \in ResetTokens /\ mfa.codes \subseteq Codes
          /\ tokens \in [ResetTokens -> {"none", "live", "used", "expired"}]
      BY <2>2 DEF ResetOne, At, UseInv, TypedInv, Fits, RowsOK
    <3> QED
      BY <2>2, <3>1, AccountAssumption DEF ResetOne, Offered, Used
  <2> QED
    BY <2>1, <2>2
<1>5. Room(x)' \in {0, 1} /\ Room(x)' <= Room(x)
  <2>1. StillGood(x)' => StillGood(x)
    BY <1>1, <1>2, <1>4 DEF StillGood
  <2> QED
    BY <2>1 DEF Room
<1>6. CASE x = y
  <2>1. Cardinality(Claims(x)') + 1 <= Cardinality(Claims(x)) /\ Cardinality(Claims(x)') \in Nat
    BY <1>1, <1>6, UseFacts, OneLess
  <2>2. Handed(x)
    BY <1>1, <1>6, UseFacts DEF FewUses
  <2>3. spent'[x] = spent[x] + 1
    BY <1>6 DEF SpentOne, ResetOne, UseInv, TypedInv, RowsOK, Uses
  <2> HIDE DEF Claims, Room, Handed, y
  <2> QED
    BY <1>1, <1>3, <1>5, <2>1, <2>2, <2>3, UseFacts DEF FewUses
<1>7. CASE x # y
  <2>1. spent'[x] = spent[x]
    BY <1>7 DEF SpentOne, ResetOne, UseInv, TypedInv, RowsOK, Uses
  <2> HIDE DEF Claims, Room, Handed, y
  <2> QED
    BY <1>1, <1>3, <1>5, <1>7, <2>1, UseFacts DEF FewUses
<1> QED
  BY <1>6, <1>7

\* A request under way that is not over stands past its checks.
LEMMA UnderWay ==
    ASSUME NEW b \in Browsers, Kinds(b), ~Idles(b)
    PROVE  Elsewhere(b) /\ req'[b].pc \notin {"spend", "store"} /\ ~Claimant(b)'
BY DEF Kinds, Begun, Passed, Opened, Answered, Renewed, Reset, Revoked, RetiredOwn, Died,
       Claimant, At

LEMMA JoinsIn ==
    ASSUME TypedInv, NEW b \in Browsers, MayStart(b), NEW op, NEW pc, NEW in,
           Begin(b, op, pc, in), UNCHANGED <<account, history, issued>>,
           pc = "spend" => in \in mfa.codes,
           pc = "store" /\ op = "reset" => in \in ResetTokens /\ tokens[in] = "live"
    PROVE  Joined(b)
<1> DEFINE r == [Idle EXCEPT !.op = op, !.pc = pc, !.in = in, !.codes = mfa.codes, !.knows = era]
<1>1. r.pc = pc /\ r.op = op /\ r.in = in /\ r.codes = mfa.codes
  BY DEF Idle
<1>2. req' = [req EXCEPT ![b] = r]
  BY DEF Begin
<1> HIDE DEF r
<1>3. Elsewhere(b) /\ req'[b] = r
  BY <1>2, OthersStay
<1> QED
  BY <1>1, <1>3 DEF Joined, MayStart, Begin, account, history, Claimant, At, Offered

LEMMA BeginningsJoin ==
    ASSUME TypedInv, NEW b \in Browsers,
           \/ Register(b) \/ SetUpTotp(b)
           \/ \E pw \in Passwords, f \in Factors : Login(b, pw, f) \/ Reauthenticate(b, pw, f)
           \/ \E pw, new \in Passwords : ChangePassword(b, pw, new)
           \/ \E s \in Secrets : VerifyTotp(b, s)
           \/ \E pw \in Passwords, s \in Secrets : DisableTotp(b, pw, s)
           \/ \E pw \in Passwords : RegenerateCodes(b, pw)
           \/ \E t \in ResetTokens : CheckToken(b, t)
    PROVE  Joined(b)
<1> USE DEF MayChange
<1>1. CASE Register(b)
  BY <1>1, JoinsIn DEF Register
<1>2. CASE SetUpTotp(b)
  BY <1>2, JoinsIn DEF SetUpTotp
<1>3. ASSUME NEW pw \in Passwords, NEW f \in Factors, Login(b, pw, f) PROVE Joined(b)
  <2>1. Begin(b, "login", IF Spends(f) THEN "spend" ELSE "open", f)
    BY <1>3 DEF Login
  <2> QED
    BY <1>3, <2>1, JoinsIn DEF Login, Spends
<1>4. ASSUME NEW pw \in Passwords, NEW f \in Factors, Reauthenticate(b, pw, f) PROVE Joined(b)
  <2>1. Begin(b, "reauth", IF Spends(f) THEN "spend" ELSE "answer", f)
    BY <1>4 DEF Reauthenticate
  <2> QED
    BY <1>4, <2>1, JoinsIn DEF Reauthenticate, Spends
<1>5. ASSUME NEW pw \in Passwords, NEW new \in Passwords, ChangePassword(b, pw, new)
      PROVE  Joined(b)
  BY <1>5, JoinsIn DEF ChangePassword
<1>6. ASSUME NEW s \in Secrets, VerifyTotp(b, s) PROVE Joined(b)
  BY <1>6, JoinsIn DEF VerifyTotp
<1>7. ASSUME NEW pw \in Passwords, NEW s \in Secrets, DisableTotp(b, pw, s) PROVE Joined(b)
  BY <1>7, JoinsIn DEF DisableTotp
<1>8. ASSUME NEW pw \in Passwords, RegenerateCodes(b, pw) PROVE Joined(b)
  BY <1>8, JoinsIn DEF RegenerateCodes
<1>9. ASSUME NEW t \in ResetTokens, CheckToken(b, t) PROVE Joined(b)
  BY <1>9, JoinsIn DEF CheckToken
<1> QED
  BY <1>1, <1>2, <1>3, <1>4, <1>5, <1>6, <1>7, <1>8, <1>9

\* Codes that are replaced, by none or by new ones, and tokens that are as they were.
LEMMA NewOnesOnly ==
    ASSUME TypedInv, UNCHANGED tokens, issued \subseteq issued',
           mfa'.codes \subseteq mfa.codes \cup (Codes \ issued), NEW x \in Uses
    PROVE  (Handed(x) => Handed(x)') /\ (Offered(x)' => Offered(x) \/ ~Handed(x))
BY AccountAssumption DEF Handed, Offered, Uses

LEMMA QuietActor ==
    ASSUME TypedInv, NEW b \in Browsers, ~Claimant(b), ~Idles(b), Kinds(b),
           UNCHANGED <<tokens, spent, overlaps>>, issued \subseteq issued',
           mfa'.codes \subseteq mfa.codes \cup (Codes \ issued)
    PROVE  Quiet
<1>1. Elsewhere(b) /\ ~Claimant(b)' /\ ~At(b, "spend")'
  BY UnderWay DEF Claimant
<1>2. \A x \in Uses : (Handed(x) => Handed(x)') /\ (Offered(x)' => Offered(x) \/ ~Handed(x))
  BY NewOnesOnly
<1>3. \A c \in Browsers \ {b} : /\ Claimant(c)' <=> Claimant(c)
                               /\ req'[c] = req[c] /\ (At(c, "spend")' => At(c, "spend"))
  BY <1>1 DEF Elsewhere, Claimant, At
<1> QED
  BY <1>1, <1>2, <1>3 DEF Quiet

LEMMA QuietSteps ==
    ASSUME TypedInv, NEW b \in Browsers,
           \/ CreateUser(b) \/ OpenSession(b) \/ Answer(b) \/ StorePassword(b) \/ StoreSecret(b)
           \/ StoreVerified(b) \/ StoreDisabled(b) \/ StoreCodes(b)
           \/ RevokeOthers(b) \/ RetireSession(b)
    PROVE  Quiet
<1>1. Kinds(b) /\ mfa \in [enabled: BOOLEAN, secret: Secrets \cup {"none"}, codes: SUBSET Codes]
  BY SigningIsAKind, StoringIsAKind, ClosingIsAKind DEF TypedInv, RowsOK
<1>2. ~Claimant(b) /\ ~Idles(b)
  BY DEF CreateUser, OpenSession, Answer, StorePassword, StoreSecret, StoreVerified,
         StoreDisabled, StoreCodes, RevokeOthers, RetireSession, Claimant, At, Idles
<1>3. UNCHANGED <<tokens, spent, overlaps>>
  BY DEF CreateUser, OpenSession, Answer, StorePassword, StoreSecret, StoreVerified, StoreDisabled,
         StoreCodes, RevokeOthers, RetireSession, account, history, mishaps, Overtakes
<1>4. CASE StoreVerified(b) \/ StoreCodes(b)
  <2>1. PICK new \in NewCodes :
          /\ mfa' = [mfa EXCEPT !.enabled = TRUE, !.codes = new]
             \/ mfa' = [mfa EXCEPT !.codes = new]
          /\ issued' = issued \cup new
    BY <1>4 DEF StoreVerified, StoreCodes
  <2>2. mfa'.codes = new
    <3>1. CASE mfa' = [mfa EXCEPT !.enabled = TRUE, !.codes = new]
      BY <1>1, <3>1
    <3>2. CASE mfa' = [mfa EXCEPT !.codes = new]
      BY <1>1, <3>2
    <3> QED
      BY <2>1, <3>1, <3>2
  <2>3. issued \subseteq issued' /\ mfa'.codes \subseteq mfa.codes \cup (Codes \ issued)
    BY <2>1, <2>2 DEF NewCodes
  <2> QED
    BY <1>1, <1>2, <1>3, <2>3, QuietActor
<1>5. CASE ~(StoreVerified(b) \/ StoreCodes(b))
  <2>1. issued' = issued
    BY <1>5 DEF CreateUser, OpenSession, Answer, StorePassword, StoreSecret, StoreDisabled,
                RevokeOthers, RetireSession
  <2>2. mfa' = mfa \/ mfa'.codes = {}
    BY <1>5 DEF CreateUser, OpenSession, Answer, StorePassword, StoreSecret, StoreDisabled,
                RevokeOthers, RetireSession, Disabled, NoMfa, account
  <2> QED
    BY <1>1, <1>2, <1>3, <2>1, <2>2, QuietActor
<1> QED
  BY <1>4, <1>5

LEMMA QuietOutside ==
    ASSUME TypedInv,
           \/ \E b \in Browsers : Logout(b) \/ DropCookie(b) \/ ExpireRecent(b)
           \/ \E t \in ResetTokens : RequestReset(t) \/ ExpireToken(t)
           \/ \E s \in Sessions : ExpireSession(s)
           \/ \E to \in {"ACTIVE", "DISABLED"} : SetStatus(to)
           \/ UNCHANGED vars
    PROVE  Quiet
<1>1. UNCHANGED <<req, spent, overlaps, mfa, issued>>
  BY DEF Logout, DropCookie, ExpireRecent, RequestReset, ExpireToken, ExpireSession, SetStatus,
         vars, account, history, mishaps
<1>2. /\ tokens \in [ResetTokens -> {"none", "live", "used", "expired"}]
      /\ mfa.codes \subseteq Codes /\ issued \subseteq Codes
  BY DEF TypedInv, RowsOK
<1>3. \/ UNCHANGED tokens
      \/ \E t \in ResetTokens : \/ tokens[t] = "none" /\ tokens' = [tokens EXCEPT ![t] = "live"]
                                \/ tokens[t] = "live" /\ tokens' = [tokens EXCEPT ![t] = "expired"]
  BY DEF Logout, DropCookie, ExpireRecent, RequestReset, ExpireToken, ExpireSession, SetStatus,
         vars, account
<1>4. \A x \in Uses : (Handed(x) => Handed(x)') /\ (Offered(x)' => Offered(x) \/ ~Handed(x))
  BY <1>1, <1>2, <1>3, AccountAssumption DEF Handed, Offered, Uses
<1>5. \A b \in Browsers : (Claimant(b)' <=> Claimant(b)) /\ (At(b, "spend")' <=> At(b, "spend"))
  BY <1>1 DEF Claimant, At
<1> QED
  BY <1>1, <1>4, <1>5 DEF Quiet

LEMMA UseStep == UseInv /\ [Next]_vars => UseInv'
<1> SUFFICES ASSUME UseInv, [Next]_vars PROVE UseInv'
  OBVIOUS
<1>1. TypedInv /\ TypedInv' /\ MishapsOK'
  BY TypedStep, MishapsStep DEF UseInv
<1>2. ASSUME NEW b \in Browsers, SpendCode(b) PROVE SpentOne(b)
  <2>1. Kinds(b) /\ ~Idles(b)
    BY <1>1, <1>2, SigningIsAKind DEF SpendCode, At, Idles
  <2>2. mfa'.codes = Remaining(b)
    BY <1>1, <1>2 DEF SpendCode, TypedInv, RowsOK
  <2> QED
    BY <1>2, <2>1, <2>2, UnderWay DEF SpendCode, SpentOne, mishaps
<1>3. ASSUME NEW b \in Browsers, StoreReset(b) PROVE ResetOne(b)
  <2>1. Kinds(b) /\ ~Idles(b)
    BY <1>1, <1>3, StoringIsAKind DEF StoreReset, At, Idles
  <2> QED
    BY <1>3, <2>1, UnderWay DEF StoreReset, ResetOne, mishaps
<1>4. ASSUME NEW b \in Browsers, CutShort(b) PROVE GaveUp(b)
  <2>1. Elsewhere(b) /\ req'[b] = Idle
    BY <1>1, <1>4, OthersStay DEF CutShort, Finish
  <2> QED
    BY <1>4, <2>1, IdleIsTyped DEF CutShort, GaveUp, Claimant, At, account, history
<1>5. ASSUME NEW b \in Browsers, SignIn(b) \/ Change(b) \/ ExpireRecent(b) \/ CutShort(b)
      PROVE  Quiet \/ UseKinds(b)
  BY <1>1, <1>2, <1>3, <1>4, <1>5, BeginningsJoin, QuietSteps, QuietOutside
     DEF SignIn, Change, UseKinds
<1>6. Quiet \/ \E b \in Browsers : UseKinds(b)
  BY <1>1, <1>5, QuietOutside DEF Next
<1>7. \A x \in Uses : FewUses(x)'
  BY <1>6, QuietKeeps, JoiningKeeps, SpendingKeeps, GivingUpKeeps DEF UseKinds
<1> QED
  BY <1>1, <1>7 DEF UseInv

LEMMA UseInit == Init => UseInv
<1> SUFFICES ASSUME Init PROVE UseInv
  OBVIOUS
<1>1. TypedInv /\ MishapsOK
  BY SessionInit DEF SessionInv
<1>2. \A x \in Uses : Claims(x) = {} /\ ~StillGood(x) /\ spent[x] = 0 /\ overlaps = 0
  BY IdleIsTyped DEF Init, Claims, Claimant, StillGood, Offered, Revived, At, NoMfa, Uses
<1>3. \A x \in Uses : FewUses(x)
  BY <1>2, NoneAtAll DEF FewUses, Room
<1> QED
  BY <1>1, <1>3 DEF UseInv

\* However requests overlap and are cut short, and whatever list of codes is written back
\* late: a recovery code and a reset token are accepted once, and once more at most with
\* every overlap (auth-service.ts, the recovery codes of a login, resetPassword).
THEOREM SpentOnce == Spec => []GoodForOnce
<1>1. UseInv => GoodForOnce
  <2> SUFFICES ASSUME UseInv, NEW x \in Uses PROVE spent[x] <= 1 + overlaps
    BY DEF GoodForOnce, Uses
  <2> QED
    BY UseFacts DEF FewUses
<1> QED
  BY <1>1, UseInit, UseStep, PTL DEF Spec

-----------------------------------------------------------------------------
(* What a verification has seen.                                           *)

Verifies(b) == At(b, "store") /\ req[b].op = "verify"
Seen(b) == req[b].in = mfa.secret /\ mfa.secret \in app

FactorInv ==
    /\ TypedInv /\ FactorIsUsable
    /\ \A b \in Browsers : Verifies(b) /\ b \notin overtaken => Seen(b)

\* The factor is as it was, and who verifies one has seen it.
Calm ==
    /\ UNCHANGED proved /\ mfa'.enabled = mfa.enabled /\ mfa'.secret = mfa.secret
    /\ app \subseteq app'
    /\ \A b \in Browsers : Verifies(b)' /\ b \notin overtaken' =>
          \/ Verifies(b) /\ b \notin overtaken /\ req'[b] = req[b]
          \/ req'[b].in = mfa.secret /\ mfa.secret \in app

LEMMA CalmKeeps ==
    ASSUME FactorInv, Calm, TypedInv' PROVE FactorInv'
<1>1. FactorIsUsable'
  BY DEF FactorInv, Calm, FactorIsUsable
<1>2. \A b \in Browsers : Verifies(b)' /\ b \notin overtaken' => Seen(b)'
  BY DEF FactorInv, Calm, Seen
<1> QED
  BY <1>1, <1>2 DEF FactorInv

\* One request that verifies nothing, or has just seen the secret, leaves it calm.
LEMMA OneIsCalm ==
    ASSUME FactorInv, NEW b \in Browsers, Elsewhere(b), UNCHANGED proved, app \subseteq app',
           mfa'.enabled = mfa.enabled, mfa'.secret = mfa.secret,
           overtaken \ {b} \subseteq overtaken',
           Verifies(b)' => req'[b].in = mfa.secret /\ mfa.secret \in app
    PROVE  Calm
<1>1. \A c \in Browsers \ {b} : (Verifies(c)' => Verifies(c)) /\ req'[c] = req[c]
  BY DEF Elsewhere, Verifies, At
<1> QED
  BY <1>1 DEF Calm

LEMMA BeginsCalmly ==
    ASSUME FactorInv, NEW b \in Browsers, NEW op, NEW pc, NEW in,
           Begin(b, op, pc, in), UNCHANGED <<account, app, history>>,
           op = "verify" => in = mfa.secret /\ mfa.secret \in app
    PROVE  Calm
<1> DEFINE r == [Idle EXCEPT !.op = op, !.pc = pc, !.in = in, !.codes = mfa.codes, !.knows = era]
<1>1. r.pc = pc /\ r.op = op /\ r.in = in
  BY DEF Idle
<1>2. req' = [req EXCEPT ![b] = r]
  BY DEF Begin
<1> HIDE DEF r
<1>3. Elsewhere(b) /\ req'[b] = r
  BY <1>2, OthersStay DEF FactorInv
<1> QED
  BY <1>1, <1>3, OneIsCalm DEF Begin, account, history, Verifies, At

LEMMA BeginningsAreCalm ==
    ASSUME FactorInv, NEW b \in Browsers,
           \/ Register(b) \/ SetUpTotp(b)
           \/ \E pw \in Passwords, f \in Factors : Login(b, pw, f) \/ Reauthenticate(b, pw, f)
           \/ \E pw, new \in Passwords : ChangePassword(b, pw, new)
           \/ \E s \in Secrets : VerifyTotp(b, s)
           \/ \E pw \in Passwords, s \in Secrets : DisableTotp(b, pw, s)
           \/ \E pw \in Passwords : RegenerateCodes(b, pw)
           \/ \E t \in ResetTokens : CheckToken(b, t)
    PROVE  Calm
<1>1. CASE Register(b)
  BY <1>1, BeginsCalmly DEF Register
<1>2. CASE SetUpTotp(b)
  BY <1>2, BeginsCalmly DEF SetUpTotp
<1>3. ASSUME NEW pw \in Passwords, NEW f \in Factors, Login(b, pw, f) PROVE Calm
  <2>1. Begin(b, "login", IF Spends(f) THEN "spend" ELSE "open", f)
    BY <1>3 DEF Login
  <2> QED
    BY <1>3, <2>1, BeginsCalmly DEF Login
<1>4. ASSUME NEW pw \in Passwords, NEW f \in Factors, Reauthenticate(b, pw, f) PROVE Calm
  <2>1. Begin(b, "reauth", IF Spends(f) THEN "spend" ELSE "answer", f)
    BY <1>4 DEF Reauthenticate
  <2> QED
    BY <1>4, <2>1, BeginsCalmly DEF Reauthenticate
<1>5. ASSUME NEW pw \in Passwords, NEW new \in Passwords, ChangePassword(b, pw, new) PROVE Calm
  BY <1>5, BeginsCalmly DEF ChangePassword
<1>6. ASSUME NEW s \in Secrets, VerifyTotp(b, s) PROVE Calm
  BY <1>6, BeginsCalmly DEF VerifyTotp
<1>7. ASSUME NEW pw \in Passwords, NEW s \in Secrets, DisableTotp(b, pw, s) PROVE Calm
  BY <1>7, BeginsCalmly DEF DisableTotp
<1>8. ASSUME NEW pw \in Passwords, RegenerateCodes(b, pw) PROVE Calm
  BY <1>8, BeginsCalmly DEF RegenerateCodes
<1>9. ASSUME NEW t \in ResetTokens, CheckToken(b, t) PROVE Calm
  BY <1>9, BeginsCalmly DEF CheckToken
<1> QED
  BY <1>1, <1>2, <1>3, <1>4, <1>5, <1>6, <1>7, <1>8, <1>9

LEMMA OthersAreCalm ==
    ASSUME FactorInv, NEW b \in Browsers,
           \/ CreateUser(b) \/ SpendCode(b) \/ OpenSession(b) \/ Answer(b) \/ StorePassword(b)
           \/ StoreCodes(b) \/ StoreReset(b) \/ RevokeOthers(b) \/ RetireSession(b) \/ CutShort(b)
    PROVE  Calm
<1>1. mfa \in [enabled: BOOLEAN, secret: Secrets \cup {"none"}, codes: SUBSET Codes] /\ TypedInv
  BY DEF FactorInv, TypedInv, RowsOK
<1>2. mfa'.enabled = mfa.enabled /\ mfa'.secret = mfa.secret
  <2>1. CASE SpendCode(b)
    BY <1>1, <2>1 DEF SpendCode
  <2>2. CASE StoreCodes(b)
    BY <1>1, <2>2 DEF StoreCodes
  <2>3. CASE ~SpendCode(b) /\ ~StoreCodes(b)
    BY <2>3 DEF CreateUser, OpenSession, Answer, StorePassword, StoreReset, RevokeOthers,
                RetireSession, CutShort, account
  <2> QED
    BY <2>1, <2>2, <2>3
<1>3. UNCHANGED proved /\ app \subseteq app' /\ overtaken \ {b} \subseteq overtaken'
  BY DEF CreateUser, SpendCode, OpenSession, Answer, StorePassword, StoreCodes, StoreReset,
         RevokeOthers, RetireSession, CutShort, history, mishaps
<1>4. Elsewhere(b) /\ ~Verifies(b)'
  <2>1. CASE CutShort(b)
    <3>1. Elsewhere(b) /\ req'[b] = Idle
      BY <1>1, <2>1, OthersStay DEF CutShort, Finish
    <3> QED
      BY <3>1, IdleIsTyped DEF Verifies, At
  <2>2. CASE ~CutShort(b)
    <3>1. Kinds(b)
      BY <1>1, <2>2, SigningIsAKind, StoringIsAKind, ClosingIsAKind
    <3>2. ~Idles(b)
      BY <2>2 DEF CreateUser, SpendCode, OpenSession, Answer, StorePassword, StoreCodes, StoreReset,
                  RevokeOthers, RetireSession, At, Idles
    <3> QED
      BY <3>1, <3>2, UnderWay DEF Verifies, At
  <2> QED
    BY <2>1, <2>2
<1> QED
  BY <1>2, <1>3, <1>4, OneIsCalm

LEMMA OutsideIsCalm ==
    ASSUME FactorInv,
           \/ \E b \in Browsers : Logout(b) \/ DropCookie(b) \/ ExpireRecent(b)
           \/ \E t \in ResetTokens : RequestReset(t) \/ ExpireToken(t)
           \/ \E s \in Sessions : ExpireSession(s)
           \/ \E to \in {"ACTIVE", "DISABLED"} : SetStatus(to)
           \/ UNCHANGED vars
    PROVE  Calm
<1>1. UNCHANGED <<req, mfa, app, proved, overtaken>>
  BY DEF Logout, DropCookie, ExpireRecent, RequestReset, ExpireToken, ExpireSession, SetStatus,
         vars, account, history, mishaps
<1> QED
  BY <1>1 DEF Calm, Verifies, At

\* A secret that is stored or cleared overtakes who is verifying the one before.
LEMMA OvertakingKeeps ==
    ASSUME FactorInv, NEW b \in Browsers, StoreSecret(b) \/ StoreDisabled(b), TypedInv'
    PROVE  FactorInv'
<1>1. mfa'.enabled = FALSE
  BY DEF StoreSecret, StoreDisabled, Disabled, NoMfa
<1>2. Kinds(b) /\ ~Idles(b)
  BY StoringIsAKind DEF FactorInv, StoreSecret, StoreDisabled, At, Idles
<1>3. overtaken' = Verifying /\ Elsewhere(b) /\ ~Verifies(b)'
  BY <1>2, UnderWay DEF StoreSecret, StoreDisabled, Overtakes, Verifies, At
<1>4. \A c \in Browsers : ~(Verifies(c)' /\ c \notin overtaken')
  BY <1>3 DEF Verifies, Verifying, At, Elsewhere
<1> QED
  BY <1>1, <1>4 DEF FactorInv, FactorIsUsable

LEMMA VerifyingKeeps ==
    ASSUME FactorInv, NEW b \in Browsers, StoreVerified(b), TypedInv' PROVE FactorInv'
<1>1. mfa'.secret = mfa.secret /\ app' = app
  BY DEF FactorInv, TypedInv, RowsOK, StoreVerified
<1>2. Kinds(b) /\ ~Idles(b) /\ Verifies(b)
  BY StoringIsAKind DEF FactorInv, StoreVerified, Verifies, At, Idles
<1>3. overtaken' = overtaken \ {b} /\ Elsewhere(b) /\ ~Verifies(b)'
  BY <1>2, UnderWay DEF StoreVerified, Verifies, At
<1>4. \A c \in Browsers : Verifies(c)' /\ c \notin overtaken' => Seen(c)'
  BY <1>1, <1>3 DEF FactorInv, Verifies, At, Elsewhere, Seen
<1>5. proved' = IF b \in overtaken THEN "overtaken" ELSE req[b].in
  BY DEF StoreVerified
<1>6. b \notin overtaken => Seen(b)
  BY <1>2 DEF FactorInv
<1>7. FactorIsUsable'
  BY <1>1, <1>5, <1>6 DEF FactorIsUsable, Seen
<1> QED
  BY <1>4, <1>7 DEF FactorInv

LEMMA FactorStep == FactorInv /\ [Next]_vars => FactorInv'
<1> SUFFICES ASSUME FactorInv, [Next]_vars PROVE FactorInv'
  OBVIOUS
<1>1. TypedInv'
  BY TypedStep DEF FactorInv
<1>2. ASSUME NEW b \in Browsers, SignIn(b) \/ Change(b) \/ ExpireRecent(b) \/ CutShort(b)
      PROVE  FactorInv'
  BY <1>1, <1>2, CalmKeeps, BeginningsAreCalm, OthersAreCalm, OutsideIsCalm,
     OvertakingKeeps, VerifyingKeeps DEF SignIn, Change
<1> QED
  BY <1>1, <1>2, CalmKeeps, OutsideIsCalm DEF Next

\* However requests overlap and are cut short: a second factor in force is one whose codes
\* the user has shown to produce, and still can, unless its verification was overtaken by
\* another set-up or a disabling (settings-service.ts, set-up, verification, disabling).
THEOREM FactorStaysUsable == Spec => []FactorIsUsable
<1>1. Init => FactorInv
  BY TypedInit, IdleIsTyped DEF Init, FactorInv, FactorIsUsable, NoMfa, Verifies, At
<1>2. FactorInv => FactorIsUsable
  BY DEF FactorInv
<1> QED
  BY <1>1, <1>2, FactorStep, PTL DEF Spec
================================================================================
