-------------------------------- MODULE Account --------------------------------
(***************************************************************************)
(* The credentials and sessions of one user: password, second factor,      *)
(* recovery codes, reset tokens, and the cookies of the user's browsers.   *)
(*                                                                         *)
(* Every statement commits on its own, the reset's three excepted.  A      *)
(* request that is refused changes nothing here and is left out: the       *)
(* conditions of an action are the checks its handler makes.               *)
(***************************************************************************)
EXTENDS Naturals, FiniteSets

CONSTANTS
    Browsers,       \* each has one request in flight at most
    Passwords,
    Secrets,        \* TOTP secrets
    Codes,          \* recovery codes; none is issued twice
    Sessions,       \* session tokens; one is not reused while anyone holds it
    ResetTokens,    \* none is issued twice
    MaxChanges,     \* bound: changes of credentials
    MaxMishaps,     \* bound: requests that overlap another or are cut short
    MaxLapses       \* bound: what expires before its use, changes of the status

ASSUME AccountAssumption ==
    /\ {MaxChanges, MaxMishaps, MaxLapses} \subseteq Nat /\ IsFiniteSet(Browsers)
    /\ Secrets \cap Codes = {} /\ ResetTokens \cap Codes = {}
    /\ {"none", "overtaken"} \cap (Secrets \cup Codes \cup Sessions \cup Passwords) = {}

VARIABLES
    password,     \* User.passwordHash; "none" before the registration
    status,       \* User.status
    mfa,          \* UserSettings: mfaTotpEnabled, its secret, the codes left
    tokens,       \* PasswordResetToken, by token
    live,         \* the Session rows
    jar,          \* jar[b]: the cookies of browser b
    req,          \* req[b]: the request of browser b
    app,          \* external: the secrets in the user's authenticator
    issued,       \* the recovery codes ever issued
    era,          \* history: changes of credentials so far
    born,         \* history: the era whose credentials opened a session
    proved,       \* history: the secret whose code enabled the second factor, or
                  \* "overtaken" where another one was stored since it was read
    spent,        \* history: times a code or a reset token was accepted
    overlaps,     \* history: requests begun while another was in flight
    overtaken,    \* history: who verifies a secret that is no longer the one in store
    cuts,         \* history: requests cut short
    lapses        \* history: expiries and changes of status

account == <<password, status, mfa, tokens, live>>
history == <<era, born, proved, spent>>
mishaps == <<overlaps, overtaken, cuts, lapses>>
vars    == <<account, jar, req, app, issued, history, mishaps>>

NoMfa  == [enabled |-> FALSE, secret |-> "none", codes |-> {}]
NoJar  == [session |-> "none", recent |-> FALSE]
Idle   == [op |-> "none", pc |-> "idle", in |-> "none", codes |-> {},
           fresh |-> "none", knows |-> 0]

Init ==
    /\ password = "none" /\ status = "ACTIVE"
    /\ mfa = NoMfa
    /\ tokens = [t \in ResetTokens |-> "none"]
    /\ live = {}
    /\ jar = [b \in Browsers |-> NoJar]
    /\ req = [b \in Browsers |-> Idle]
    /\ app = {} /\ issued = {}
    /\ era = 0 /\ born = [s \in Sessions |-> 0] /\ proved = "none"
    /\ spent = [x \in Codes \cup ResetTokens |-> 0]
    /\ overlaps = 0 /\ overtaken = {} /\ cuts = 0 /\ lapses = 0

-----------------------------------------------------------------------------
(* Requests                                                                *)

Idles(b) == req[b].pc = "idle"
MayMiss == overlaps + cuts < MaxMishaps
Alone == \A c \in Browsers : Idles(c)
MayStart(b) == Idles(b) /\ (Alone \/ MayMiss)
At(b, pc) == req[b].pc = pc
Goto(b, pc) == req' = [req EXCEPT ![b].pc = pc]
Begin(b, op, pc, in) ==
    /\ req' = [req EXCEPT ![b] = [Idle EXCEPT !.op = op, !.pc = pc, !.in = in,
                                              !.codes = mfa.codes, !.knows = era]]
    /\ overlaps' = IF Alone THEN overlaps ELSE overlaps + 1
    /\ UNCHANGED <<overtaken, cuts, lapses>>
Finish(b) == req' = [req EXCEPT ![b] = Idle]

Held == {jar[b].session : b \in Browsers} \cup {req[b].fresh : b \in Browsers}
FreshSessions == Sessions \ (live \cup Held)

\* getCurrentSession, and assertRecentAuth for what is sensitive.
SignedIn(b)  == jar[b].session \in live /\ status = "ACTIVE"
Confirmed(b) == SignedIn(b) /\ jar[b].recent
MayChange(b) == MayStart(b) /\ Confirmed(b) /\ era < MaxChanges

\* A session that is gone, expired or of a disabled user takes its cookie along.
DropCookie(b) ==
    /\ Idles(b) /\ jar[b].session # "none" /\ ~SignedIn(b)
    /\ jar' = [jar EXCEPT ![b].session = "none"]
    /\ UNCHANGED <<account, req, app, issued, history, mishaps>>

-----------------------------------------------------------------------------
(* Registration and login                                                  *)

\* registerUser: the address must be free, and unique when it is stored.
Register(b) ==
    /\ MayStart(b) /\ password = "none"
    /\ Begin(b, "register", "create", "none")
    /\ UNCHANGED <<account, jar, app, issued, history>>

CreateUser(b) ==
    /\ At(b, "create")
    /\ IF password = "none"
       THEN (\E pw \in Passwords : password' = pw) /\ Goto(b, "open")
       ELSE Finish(b) /\ UNCHANGED password
    /\ UNCHANGED <<status, mfa, tokens, live, jar, app, issued, history, mishaps>>

\* A code of the authenticator, or one of the recovery codes that were read.
Accepts(factor) == mfa.enabled => factor = mfa.secret \/ factor \in mfa.codes
Spends(factor)  == mfa.enabled /\ factor \in mfa.codes

\* authenticateUser and reauthenticateUser read the user once.
Login(b, pw, factor) ==
    /\ MayStart(b) /\ status = "ACTIVE" /\ pw = password /\ Accepts(factor)
    /\ Begin(b, "login", IF Spends(factor) THEN "spend" ELSE "open", factor)
    /\ UNCHANGED <<account, jar, app, issued, history>>

Reauthenticate(b, pw, factor) ==
    /\ MayStart(b) /\ SignedIn(b) /\ pw = password /\ Accepts(factor)
    /\ Begin(b, "reauth", IF Spends(factor) THEN "spend" ELSE "answer", factor)
    /\ UNCHANGED <<account, jar, app, issued, history>>

\* remainingHashes, from the list that was read.
Remaining(b) == req[b].codes \ {req[b].in}

SpendCode(b) ==
    /\ At(b, "spend")
    /\ mfa' = [mfa EXCEPT !.codes = Remaining(b)]
    /\ spent' = [spent EXCEPT ![req[b].in] = @ + 1]
    /\ Goto(b, IF req[b].op = "login" THEN "open" ELSE "answer")
    /\ UNCHANGED <<password, status, tokens, live, jar, app, issued, era, born, proved, mishaps>>

\* createUserSession, which is also how rotateCurrentSession ends.
OpenSession(b) ==
    /\ At(b, "open")
    /\ \E s \in FreshSessions :
          /\ live' = live \cup {s}
          /\ born' = [born EXCEPT ![s] = req[b].knows]
          /\ req' = [req EXCEPT ![b].pc = "answer", ![b].fresh = s]
    /\ UNCHANGED <<password, status, mfa, tokens, jar, app, issued, era, proved, spent, mishaps>>

\* The response sets the cookies; a setup's shows the new secret.
Answer(b) ==
    /\ At(b, "answer")
    /\ IF req[b].op = "setup"
       THEN app' = app \cup {req[b].fresh} /\ UNCHANGED jar
       ELSE /\ jar' = [jar EXCEPT ![b].recent = TRUE,
                                  ![b].session = IF req[b].op = "reauth" THEN @ ELSE req[b].fresh]
            /\ UNCHANGED app
    /\ Finish(b)
    /\ UNCHANGED <<account, issued, history, mishaps>>

\* destroyCurrentSession.
Logout(b) ==
    /\ Idles(b) /\ jar[b] # NoJar
    /\ live' = live \ {jar[b].session}
    /\ jar' = [jar EXCEPT ![b] = NoJar]
    /\ UNCHANGED <<password, status, mfa, tokens, req, app, issued, history, mishaps>>

-----------------------------------------------------------------------------
(* Changes of credentials: check what was read, store, revoke the other    *)
(* sessions, retire this one, open its successor.                          *)

\* New credentials are in force; only the request that stored them knows them.
NewEra(b, pc) ==
    /\ era' = era + 1
    /\ req' = [req EXCEPT ![b].pc = pc, ![b].knows = era + 1]

ChangePassword(b, pw, new) ==
    /\ MayChange(b) /\ pw = password
    /\ Begin(b, "changePassword", "store", new)
    /\ UNCHANGED <<account, jar, app, issued, history>>

StorePassword(b) ==
    /\ At(b, "store") /\ req[b].op = "changePassword"
    /\ password' = req[b].in
    /\ NewEra(b, "revoke")
    /\ UNCHANGED <<status, mfa, tokens, live, jar, app, issued, born, proved, spent, mishaps>>

\* The verifications in flight have read a secret that no longer is the one in store.
Verifying == {b \in Browsers : At(b, "store") /\ req[b].op = "verify"}
Overtakes == overtaken' = Verifying /\ UNCHANGED <<overlaps, cuts, lapses>>

SetUpTotp(b) ==
    /\ MayStart(b) /\ Confirmed(b) /\ ~mfa.enabled
    /\ Begin(b, "setup", "store", "none")
    /\ UNCHANGED <<account, jar, app, issued, history>>

StoreSecret(b) ==
    /\ At(b, "store") /\ req[b].op = "setup"
    /\ \E s \in Secrets \ (app \cup {mfa.secret}) :
          /\ mfa' = [NoMfa EXCEPT !.secret = s]
          /\ req' = [req EXCEPT ![b].pc = "answer", ![b].fresh = s]
    /\ Overtakes
    /\ UNCHANGED <<password, status, tokens, live, jar, app, issued, history>>

\* createRecoveryCodes.
NewCodes == (SUBSET (Codes \ issued)) \ {{}}

\* The secret that was read must match the code; its row is not compared again.
VerifyTotp(b, secret) ==
    /\ MayChange(b) /\ ~mfa.enabled
    /\ secret \in app /\ secret = mfa.secret
    /\ Begin(b, "verify", "store", secret)
    /\ UNCHANGED <<account, jar, app, issued, history>>

StoreVerified(b) ==
    /\ At(b, "store") /\ req[b].op = "verify"
    /\ \E new \in NewCodes :
          /\ mfa' = [mfa EXCEPT !.enabled = TRUE, !.codes = new]
          /\ issued' = issued \cup new
    /\ proved' = IF b \in overtaken THEN "overtaken" ELSE req[b].in
    /\ overtaken' = overtaken \ {b}
    /\ NewEra(b, "revoke")
    /\ UNCHANGED <<password, status, tokens, live, jar, app, born, spent, overlaps, cuts, lapses>>

DisableTotp(b, pw, secret) ==
    /\ MayChange(b) /\ mfa.enabled /\ pw = password
    /\ secret \in app /\ secret = mfa.secret
    /\ Begin(b, "disable", "store", secret)
    /\ UNCHANGED <<account, jar, app, issued, history>>

\* Mutant: the secret is cleared, the flag is not.
Disabled_KeepsFlag(m) == [NoMfa EXCEPT !.enabled = m.enabled]

Disabled(m) == NoMfa

StoreDisabled(b) ==
    /\ At(b, "store") /\ req[b].op = "disable"
    /\ mfa' = Disabled(mfa)
    /\ NewEra(b, "revoke")
    /\ Overtakes
    /\ UNCHANGED <<password, status, tokens, live, jar, app, issued, born, proved, spent>>

RegenerateCodes(b, pw) ==
    /\ MayChange(b) /\ mfa.enabled /\ pw = password
    /\ Begin(b, "regenerate", "store", "none")
    /\ UNCHANGED <<account, jar, app, issued, history>>

StoreCodes(b) ==
    /\ At(b, "store") /\ req[b].op = "regenerate"
    /\ \E new \in NewCodes :
          /\ mfa' = [mfa EXCEPT !.codes = new]
          /\ issued' = issued \cup new
    /\ NewEra(b, "revoke")
    /\ UNCHANGED <<password, status, tokens, live, jar, app, born, proved, spent, mishaps>>

Others(b) == live \ {jar[b].session}

RevokeOthers(b) ==
    /\ At(b, "revoke")
    /\ live' = live \ Others(b)
    /\ Goto(b, "retire")
    /\ UNCHANGED <<password, status, mfa, tokens, jar, app, issued, history, mishaps>>

\* Mutant: the session is kept beside its successor.
Retired_Nothing(b) == {}

Retired(b) == {jar[b].session}

RetireSession(b) ==
    /\ At(b, "retire")
    /\ live' = live \ Retired(b)
    /\ Goto(b, "open")
    /\ UNCHANGED <<password, status, mfa, tokens, jar, app, issued, history, mishaps>>

-----------------------------------------------------------------------------
(* Password reset                                                          *)

RequestReset(t) ==
    /\ password # "none" /\ tokens[t] = "none"
    /\ tokens' = [tokens EXCEPT ![t] = "live"]
    /\ UNCHANGED <<password, status, mfa, live, jar, req, app, issued, history, mishaps>>

\* resetPassword checks the token, hashes, and only then opens a transaction.
CheckToken(b, t) ==
    /\ MayStart(b) /\ tokens[t] = "live" /\ era < MaxChanges
    /\ Begin(b, "reset", "store", t)
    /\ UNCHANGED <<account, jar, app, issued, history>>

\* Mutant: the token is not marked.
Used_Unmarked(t) == tokens

\* Mutant: the token's row is deleted.
Used_Deleted(t) == [x \in ResetTokens \ {t} |-> tokens[x]]

\* Mutant: the sessions stay open.
SurvivesReset_All == live

Used(t) == [tokens EXCEPT ![t] = "used"]
SurvivesReset == {}

StoreReset(b) ==
    /\ At(b, "store") /\ req[b].op = "reset"
    /\ \E pw \in Passwords : password' = pw
    /\ tokens' = Used(req[b].in)
    /\ live' = SurvivesReset
    /\ spent' = [spent EXCEPT ![req[b].in] = @ + 1]
    /\ era' = era + 1
    /\ Finish(b)
    /\ UNCHANGED <<status, mfa, jar, app, issued, born, proved, mishaps>>

-----------------------------------------------------------------------------
(* The administrator, the clock and failures                               *)

Lapse == lapses < MaxLapses /\ lapses' = lapses + 1

SetStatus(to) ==
    /\ Lapse
    /\ password # "none" /\ status # to
    /\ status' = to
    /\ UNCHANGED <<password, mfa, tokens, live, jar, req, app, issued, history>>
    /\ UNCHANGED <<overlaps, overtaken, cuts>>

ExpireToken(t) ==
    /\ Lapse
    /\ tokens[t] = "live"
    /\ tokens' = [tokens EXCEPT ![t] = "expired"]
    /\ UNCHANGED <<password, status, mfa, live, jar, req, app, issued, history>>
    /\ UNCHANGED <<overlaps, overtaken, cuts>>

ExpireSession(s) ==
    /\ Lapse
    /\ s \in live
    /\ live' = live \ {s}
    /\ UNCHANGED <<password, status, mfa, tokens, jar, req, app, issued, history>>
    /\ UNCHANGED <<overlaps, overtaken, cuts>>

ExpireRecent(b) ==
    /\ Lapse
    /\ jar[b].recent
    /\ jar' = [jar EXCEPT ![b].recent = FALSE]
    /\ UNCHANGED <<account, req, app, issued, history>>
    /\ UNCHANGED <<overlaps, overtaken, cuts>>

\* The process dies or a statement fails: what was stored stays.
CutShort(b) ==
    /\ ~Idles(b) /\ MayMiss
    /\ cuts' = cuts + 1 /\ overtaken' = overtaken \ {b}
    /\ Finish(b)
    /\ UNCHANGED <<account, jar, app, issued, history, overlaps, lapses>>

Factors == Secrets \cup Codes \cup {"none"}

SignIn(b) ==
    \/ Register(b) \/ CreateUser(b) \/ SpendCode(b) \/ OpenSession(b) \/ Answer(b)
    \/ Logout(b) \/ DropCookie(b)
    \/ \E pw \in Passwords, f \in Factors : Login(b, pw, f) \/ Reauthenticate(b, pw, f)

Change(b) ==
    \/ \E pw, new \in Passwords : ChangePassword(b, pw, new)
    \/ SetUpTotp(b)
    \/ \E s \in Secrets : VerifyTotp(b, s)
    \/ \E pw \in Passwords, s \in Secrets : DisableTotp(b, pw, s)
    \/ \E pw \in Passwords : RegenerateCodes(b, pw)
    \/ \E t \in ResetTokens : CheckToken(b, t)
    \/ StorePassword(b) \/ StoreSecret(b) \/ StoreVerified(b) \/ StoreDisabled(b)
    \/ StoreCodes(b) \/ StoreReset(b) \/ RevokeOthers(b) \/ RetireSession(b)

Next ==
    \/ \E b \in Browsers : SignIn(b) \/ Change(b) \/ ExpireRecent(b) \/ CutShort(b)
    \/ \E t \in ResetTokens : RequestReset(t) \/ ExpireToken(t)
    \/ \E s \in Sessions : ExpireSession(s)
    \/ \E to \in {"ACTIVE", "DISABLED"} : SetStatus(to)

Spec == Init /\ [][Next]_vars

-----------------------------------------------------------------------------
(* Properties                                                              *)

\* Rows, cookies and requests are well formed.
TypeOK ==
    /\ password \in Passwords \cup {"none"} /\ status \in {"ACTIVE", "DISABLED"}
    /\ mfa \in [enabled: BOOLEAN, secret: Secrets \cup {"none"}, codes: SUBSET Codes]
    /\ tokens \in [ResetTokens -> {"none", "live", "used", "expired"}]
    /\ live \subseteq Sessions
    /\ jar \in [Browsers -> [session: Sessions \cup {"none"}, recent: BOOLEAN]]
    /\ app \subseteq Secrets /\ issued \subseteq Codes
    /\ \A b \in Browsers : req[b].knows \in 0..era /\ req[b].codes \subseteq issued
    /\ mfa.codes \subseteq issued
    /\ era \in Nat /\ overtaken \subseteq Browsers
    /\ {overlaps, cuts} \subseteq Nat /\ overlaps + cuts <= MaxMishaps /\ lapses \in 0..MaxLapses

\* Once no request is in flight, an open session that was not opened with the credentials
\* now in force is the work of a request that overlapped a change of them: there are no
\* more of these than overlaps, and none where requests came one at a time.
Outdated == {s \in live : born[s] # era}
SessionsAreCurrent == cuts = 0 /\ Alone => Cardinality(Outdated) <= overlaps

\* A change of credentials leaves its caller signed in, and nobody else but who
\* overlapped a request, however often requests were cut short before.
Rotates == {"changePassword", "verify", "disable", "regenerate"}
CallerAloneStays ==
    [][\A b \in Browsers : req[b].op \in Rotates /\ jar'[b].session # jar[b].session
         => Cardinality(live' \ {jar'[b].session}) <= overlaps]_vars

\* A recovery code and a reset token are good for one use, and for one more at most with
\* every request that overlaps another: a list of codes that is written back late revives
\* no more of a code than that.
GoodForOnce == \A x \in Codes \cup ResetTokens : spent[x] <= 1 + overlaps

\* A second factor in force is one whose codes the user has shown to produce, and the
\* user still holds its secret (no login waits for a code nobody has), unless a set-up
\* or a disabling was stored between the read and the store of its verification.
FactorIsUsable ==
    mfa.enabled /\ proved # "overtaken" => mfa.secret = proved /\ mfa.secret \in app
=============================================================================
