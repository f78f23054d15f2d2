---------------------------- MODULE SettingsPanel ----------------------------
(* The security cards of the settings page (settings-panel.tsx) against the   *)
(* routes they call: what asks for a recent confirmation is refused, waits    *)
(* while the user confirms who they are, and is run again.  Other browsers    *)
(* are left to Account.                                                       *)
EXTENDS Naturals, FiniteSets

CONSTANTS Devices, NoDevice,   \* authenticators that may hold a passkey
          \* bounds: clicks, calls at once, keys, codes and challenges issued, answers lost
          MaxClicks, MaxInFlight, MaxSerial, MaxLost

Actions == {"setup", "verify", "regenerate", "disable", "register", "remove", "password"}
Kinds == {"totp", "passkey", "password"}
KindOf(action) == CASE action \in {"setup", "verify", "regenerate", "disable"} -> "totp"
                    [] action = "password" -> "password"
                    [] OTHER -> "passkey"
Slots == Kinds \cup {"rerun"}   \* a call of a control, and the one run again
Requests == {"sent", "verifying"}   \* a registration asks for options, then verifies

VARIABLES stored,     \* settings and credentials: mfa, key, codes, passkeys
          recent,     \* the cookie of assertRecentAuth
          challenge,  \* the cookie of a registration, 0 for none
          panel,      \* what the page shows, and the controls it disables
          pending,    \* pendingSensitiveAction
          call,       \* slot -> a call in flight
          confirm,    \* the confirmation in flight, with the action it will run again
          serial, clicks, lost,
          overlapped, \* two calls were in flight together
          reran       \* kinds of which an action was run again

server == <<stored, recent, challenge, serial>>
counts == <<clicks, lost, overlapped, reran>>
vars == <<server, panel, pending, call, confirm, counts>>

None == [action |-> "none", device |-> NoDevice, of |-> 0]
NoCall == [do |-> None, at |-> "idle", result |-> 0, passkeys |-> {}, by |-> 0]
NoConfirm == [at |-> "idle", then |-> None]
Idle(s) == call[s].at = "idle"
KindIn(s) == KindOf(call[s].do.action)

-----------------------------------------------------------------------------
(* The controls.                                                             *)

SetUp(do) == do.action = "setup" /\ ~panel.enabled
Verify(do) == do.action = "verify" /\ ~panel.enabled /\ panel.setup # 0 /\ do.of = panel.setup
Regenerate(do) == do.action = "regenerate" /\ panel.enabled
Disable(do) == do.action = "disable" /\ panel.enabled
RegisterPasskey(do) == do.action = "register" /\ do.device # NoDevice
RemovePasskey(do) == do.action = "remove" /\ do.device \in panel.passkeys
SetPassword(do) == do.action = "password"
Offered(do) == \/ SetUp(do) \/ Verify(do) \/ Regenerate(do) \/ Disable(do)
               \/ RegisterPasskey(do) \/ RemovePasskey(do) \/ SetPassword(do)

\* action() disables its controls itself, and so it does when it is run again.
Starts(s, do) ==
  /\ call' = [call EXCEPT ![s] = [NoCall EXCEPT !.do = do, !.at = "sent"]]
  /\ overlapped' = (overlapped \/ \E t \in Slots \ {s} : ~Idle(t))
Disables(do) == [panel.working EXCEPT ![KindOf(do.action)] = @ \/ KindOf(do.action) # "password"]

Click(action, device) ==
  LET do == [action |-> action, device |-> device,
             of |-> IF action = "verify" THEN panel.setup ELSE 0]
      kind == KindOf(action)
  IN  /\ (device # NoDevice) = (action \in {"register", "remove"})
      /\ Offered(do) /\ ~panel.working[kind] /\ Idle(kind) /\ Starts(kind, do)
      /\ clicks < MaxClicks /\ clicks' = clicks + 1
      /\ Cardinality({s \in Slots : ~Idle(s)}) < MaxInFlight
      /\ panel' = [panel EXCEPT !.working = Disables(do)]
      /\ UNCHANGED <<server, pending, confirm, lost, reran>>

Confirm == /\ panel.card /\ confirm.at = "idle"
           /\ confirm' = [at |-> "sent", then |-> pending]
           /\ UNCHANGED <<server, panel, pending, call, counts>>
Cancel == /\ panel.card /\ confirm.at = "idle"
          /\ panel' = [panel EXCEPT !.card = FALSE] /\ pending' = None
          /\ UNCHANGED <<server, call, confirm, counts>>

-----------------------------------------------------------------------------
(* The routes.                                                               *)

Answer(s, at, result, passkeys) ==
  call' = [call EXCEPT ![s].at = at, ![s].result = result, ![s].passkeys = passkeys]

\* createUserTotpSetup, verifyUserTotpSetup, regenerateUserRecoveryCodes, disableUserTotp
Totp(s) ==
  LET do == call[s].do
      fresh == serial + 1
  IN  /\ call[s].at = "sent" /\ KindIn(s) = "totp" /\ recent /\ serial < MaxSerial
      /\ \/ /\ do.action = "setup" /\ stored.mfa # "on"
            /\ stored' = [stored EXCEPT !.mfa = "prepared", !.key = fresh, !.codes = 0]
         \/ /\ do.action = "verify" /\ stored.mfa = "prepared" /\ stored.key = do.of
            /\ stored' = [stored EXCEPT !.mfa = "on", !.codes = fresh]
         \/ /\ do.action = "regenerate" /\ stored.mfa = "on"
            /\ stored' = [stored EXCEPT !.codes = fresh]
         \/ /\ do.action = "disable" /\ stored.mfa = "on"
            /\ stored' = [stored EXCEPT !.mfa = "off", !.key = 0, !.codes = 0]
      /\ serial' = fresh
      /\ Answer(s, "accepted", IF do.action = "disable" THEN 0 ELSE fresh, {})
      /\ UNCHANGED <<recent, challenge, panel, pending, confirm, counts>>

ChangePassword(s) == /\ call[s].at = "sent" /\ KindIn(s) = "password" /\ recent
                     /\ Answer(s, "accepted", 0, {})
                     /\ UNCHANGED <<server, panel, pending, confirm, counts>>

\* createPasskeyRegistrationOptions: what is registered already is excluded.
RegistrationOptions(s) ==
  /\ call[s].at = "sent" /\ call[s].do.action = "register" /\ recent /\ serial < MaxSerial
  /\ serial' = serial + 1 /\ Answer(s, "options", serial + 1, stored.passkeys)
  /\ UNCHANGED <<stored, recent, challenge, panel, pending, confirm, counts>>
\* The answer sets the cookie; the device takes part, or the user cancels.
Ceremony(s) ==
  /\ call[s].at = "options"
  /\ challenge' = call[s].result
  /\ \/ call[s].do.device \notin call[s].passkeys /\ Answer(s, "verifying", call[s].result, {})
     \/ Answer(s, "refused", 0, {})
  /\ UNCHANGED <<stored, recent, serial, panel, pending, confirm, counts>>
verifyPasskeyRegistration(s) ==
  /\ call[s].at = "verifying" /\ recent
  /\ challenge = call[s].result /\ call[s].do.device \notin stored.passkeys
  /\ stored' = [stored EXCEPT !.passkeys = @ \cup {call[s].do.device}]
  /\ Answer(s, "accepted", 0, stored'.passkeys)
  /\ UNCHANGED <<recent, challenge, serial, panel, pending, confirm, counts>>
deleteUserPasskey(s) ==
  /\ call[s].at = "sent" /\ call[s].do.action = "remove" /\ recent
  /\ call[s].do.device \in stored.passkeys
  /\ stored' = [stored EXCEPT !.passkeys = @ \ {call[s].do.device}]
  /\ Answer(s, "accepted", 0, stored'.passkeys)
  /\ UNCHANGED <<recent, challenge, serial, panel, pending, confirm, counts>>

\* assertRecentAuth: reauthRequired.
AsksToConfirm(s) == /\ call[s].at \in Requests /\ ~recent
                    /\ Answer(s, "reauth", 0, {})
                    /\ UNCHANGED <<server, panel, pending, confirm, counts>>
\* A wrong password or code, a limit, a failure; or what was asked does not apply.
Refuse(s) == /\ call[s].at \in Requests /\ recent
             /\ Answer(s, "refused", 0, {})
             /\ UNCHANGED <<server, panel, pending, confirm, counts>>

\* reautenticar
ServeConfirm == /\ confirm.at = "sent"
                /\ \/ recent' = TRUE /\ confirm' = [confirm EXCEPT !.at = "accepted"]
                   \/ UNCHANGED recent /\ confirm' = [confirm EXCEPT !.at = "refused"]
                /\ UNCHANGED <<stored, challenge, serial, panel, pending, call, counts>>
RecentLapses == /\ recent /\ recent' = FALSE
                /\ UNCHANGED <<stored, challenge, serial, panel, pending, call, confirm, counts>>

-----------------------------------------------------------------------------
(* The answers.                                                              *)

\* Mutant: the recovery codes stay on the page once the second factor is off.
Shown_KeepsCodes(c) ==
  CASE c.do.action = "setup" -> [panel EXCEPT !.setup = c.result]
    [] c.do.action = "verify" -> [panel EXCEPT !.enabled = TRUE, !.codes = c.result, !.setup = 0]
    [] c.do.action = "regenerate" -> [panel EXCEPT !.codes = c.result]
    [] c.do.action = "disable" -> [panel EXCEPT !.enabled = FALSE, !.setup = 0]
    [] c.do.action \in {"register", "remove"} -> [panel EXCEPT !.passkeys = c.passkeys]
    [] OTHER -> panel

\* What a control shows of an accepted action.
Shown(c) ==
  CASE c.do.action = "setup" -> [panel EXCEPT !.setup = c.result]
    [] c.do.action = "verify" -> [panel EXCEPT !.enabled = TRUE, !.codes = c.result, !.setup = 0]
    [] c.do.action = "regenerate" -> [panel EXCEPT !.codes = c.result]
    [] c.do.action = "disable" -> [panel EXCEPT !.enabled = FALSE, !.codes = 0, !.setup = 0]
    [] c.do.action \in {"register", "remove"} -> [panel EXCEPT !.passkeys = c.passkeys]
    [] OTHER -> panel

\* Mutant: the controls are freed only when the action succeeds.
Frees_Succeeded(s) ==
  IF call[s].at = "accepted" THEN [panel.working EXCEPT ![KindIn(s)] = FALSE] ELSE panel.working

\* The finally of a control.  What was run again has none: its own ended before.
Frees(s) == IF s = "rerun" THEN panel.working ELSE [panel.working EXCEPT ![KindIn(s)] = FALSE]
EndsConfirm(s) == IF s = "rerun" THEN NoConfirm ELSE confirm
Ends(s) == call' = [call EXCEPT ![s] = NoCall] /\ confirm' = EndsConfirm(s)

Receive(s) ==
  /\ call[s].at = "accepted" /\ Ends(s)
  /\ panel' = [Shown(call[s]) EXCEPT !.working = Frees(s)]
  /\ challenge' = IF call[s].do.action = "register" THEN 0 ELSE challenge
  /\ UNCHANGED <<stored, recent, serial, pending, counts>>
ReceiveReauth(s) ==
  /\ call[s].at = "reauth" /\ Ends(s)
  /\ pending' = call[s].do
  /\ panel' = [panel EXCEPT !.card = TRUE, !.working = Frees(s)]
  /\ UNCHANGED <<server, counts>>
ReceiveRefusal(s) ==
  /\ call[s].at = "refused" /\ Ends(s)
  /\ panel' = [panel EXCEPT !.working = Frees(s)]
  /\ UNCHANGED <<server, pending, counts>>
Lose(s) ==
  /\ call[s].at = "accepted" /\ lost < MaxLost /\ lost' = lost + 1 /\ Ends(s)
  /\ panel' = [panel EXCEPT !.working = Frees(s)]
  /\ UNCHANGED <<server, pending, clicks, overlapped, reran>>

\* confirmRecentAuth: the action it saw when it was clicked is run again.
ConfirmAnswered ==
  /\ confirm.at = "accepted"
  /\ pending' = None
  /\ Starts("rerun", confirm.then) /\ confirm' = [confirm EXCEPT !.at = "rerunning"]
  /\ panel' = [panel EXCEPT !.card = FALSE, !.working = Disables(confirm.then)]
  /\ reran' = reran \cup {KindOf(confirm.then.action)}
  /\ UNCHANGED <<server, clicks, lost>>
ConfirmRefused ==
  /\ confirm.at = "refused" /\ confirm' = NoConfirm
  /\ UNCHANGED <<server, panel, pending, call, counts>>

Init ==
  /\ stored = [mfa |-> "off", key |-> 0, codes |-> 0, passkeys |-> {}]
  /\ recent = TRUE /\ challenge = 0 /\ serial = 0
  /\ panel = [enabled |-> FALSE, setup |-> 0, codes |-> 0, passkeys |-> {}, card |-> FALSE,
              working |-> [k \in Kinds |-> FALSE]]
  /\ pending = None /\ call = [s \in Slots |-> NoCall] /\ confirm = NoConfirm
  /\ clicks = 0 /\ lost = 0 /\ overlapped = FALSE /\ reran = {}
Serve(s) == \/ Totp(s) \/ ChangePassword(s) \/ RegistrationOptions(s) \/ Ceremony(s)
            \/ verifyPasskeyRegistration(s) \/ deleteUserPasskey(s)
            \/ AsksToConfirm(s) \/ Refuse(s)
Return(s) == Receive(s) \/ ReceiveReauth(s) \/ ReceiveRefusal(s) \/ Lose(s)
Next == \/ \E a \in Actions, d \in Devices \cup {NoDevice} : Click(a, d)
        \/ Confirm \/ Cancel \/ ServeConfirm \/ ConfirmAnswered \/ ConfirmRefused \/ RecentLapses
        \/ \E s \in Slots : Serve(s) \/ Return(s)
Spec == Init /\ [][Next]_vars
-----------------------------------------------------------------------------
TypeOK ==
  /\ stored.mfa \in {"off", "prepared", "on"} /\ stored.passkeys \subseteq Devices
  /\ \A s \in Slots : Idle(s) \/ s = "rerun" \/ KindIn(s) = s
  /\ panel.card = (pending # None)
  /\ (call["rerun"].at # "idle") = (confirm.at = "rerunning")

\* When nothing is in flight, the page shows the second factor, its setup key, its
\* recovery codes and the passkeys as they are stored, whatever was confirmed, refused,
\* cancelled or run again before; an answer that was lost and calls that overlapped
\* excepted.
PanelTellsTheTruth ==
  (\A s \in Slots : Idle(s)) /\ lost = 0 /\ ~overlapped =>
    /\ panel.enabled = (stored.mfa = "on") /\ panel.passkeys = stored.passkeys
    /\ panel.setup # 0 => stored.mfa = "prepared" /\ stored.key = panel.setup
    /\ panel.codes # 0 => panel.codes = stored.codes

\* A control stays disabled only while a call of its kind is at work, or after an action
\* of its kind was run again: then nothing frees it until the page is reloaded.
FreedAfterWork == \A k \in Kinds : panel.working[k] =>
  k \in reran \/ \E s \in Slots : ~Idle(s) /\ KindIn(s) = k
=============================================================================
