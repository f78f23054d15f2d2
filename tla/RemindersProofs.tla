---------------------------- MODULE RemindersProofs ----------------------------
(***************************************************************************)
(* For any calendar, debts and preferences, however many runs overlap,     *)
(* fail or are cut short: an event marked as sent was mailed, or refused   *)
(* in a reply that nobody reads; a reminder is mailed once, and once more  *)
(* at most for each failure or overlap; a run that noticed no failure      *)
(* leaves nothing of its window untold but for such refusals; and the      *)
(* daily call tells whatever has come due.                                 *)
(***************************************************************************)
EXTENDS Reminders, FiniteSets, FiniteSetTheorems, WellFoundedInduction, TLAPS

Candidate == [reminder: Reminder, at: {Scheduled(m, s) : m \in Reminder, s \in SettingForms}]

RunState == [pc: {"idle", "look", "create", "send", "mark", "fail"},
             todo: SUBSET Candidate, current: Candidate \cup {NoCandidate},
             status: {"NONE", "SENT", "SKIPPED"}, due: SUBSET Reminder, clean: BOOLEAN]

\* What a run about to mark an event as sent has in hand was mailed, or refused unread.
MarksWhatWasMailed ==
    \A r \in Runs : run[r].pc = "mark" /\ run[r].status = "SENT"
                    => HandedOver(run[r].current.reminder)

MailInv ==
    /\ run \in [Runs -> RunState]
    /\ mails \in [Reminder -> Nat]
    /\ refused \in SUBSET Reminder
    /\ settings \in SettingForms
    /\ \A r \in Runs : run[r].pc \in {"create", "send", "mark", "fail"}
                       => run[r].current \in Candidate
    /\ MarksWhatWasMailed
    /\ SentWasMailed

KeyOf(m) == DedupeKey([reminder |-> m, at |-> 0])

\* A key names one reminder, whatever the hour it was scheduled for.
LEMMA OneReminderPerKey ==
    ASSUME NEW m \in Reminder, NEW c \in Candidate, KeyOf(m) = DedupeKey(c)
    PROVE  m = c.reminder
BY DEF KeyOf, DedupeKey, Candidate, Reminder

LEMMA IdleRunIsTyped == IdleRun \in RunState
BY DEF IdleRun, RunState

LEMMA CandidatesAreTyped ==
    ASSUME MailInv PROVE Candidates(debt, settings, now) \subseteq Candidate
<1> SUFFICES ASSUME NEW c \in Candidates(debt, settings, now) PROVE c \in Candidate
  OBVIOUS
<1>1. PICK m \in Reminder : c = [reminder |-> m, at |-> Scheduled(m, settings)]
  BY DEF Candidates
<1>2. Scheduled(m, settings) \in {Scheduled(n, s) : n \in Reminder, s \in SettingForms}
  BY DEF MailInv
<1> QED
  BY <1>1, <1>2 DEF Candidate

\* Mails are only ever added, and refusals never forgotten.
LEMMA MailsStay ==
    ASSUME mails \in [Reminder -> Nat], NEW m \in Reminder, refused \subseteq refused',
           mails' = [mails EXCEPT ![m] = @ + 1] \/ UNCHANGED mails
    PROVE  /\ mails' \in [Reminder -> Nat]
           /\ \A n \in Reminder : HandedOver(n) => HandedOver(n)'
           /\ UNCHANGED mails \/ mails'[m] > 0
<1>1. CASE UNCHANGED mails
  BY <1>1 DEF HandedOver
<1>2. CASE mails' = [mails EXCEPT ![m] = @ + 1]
  <2>1. mails[m] \in Nat /\ mails'[m] = mails[m] + 1
    BY <1>2
  <2>2. \A n \in Reminder : n # m => mails'[n] = mails[n]
    BY <1>2
  <2> QED
    BY <1>2, <2>1, <2>2 DEF HandedOver
<1> QED
  BY <1>1, <1>2

\* A status other than SENT, or of a reminder that was mailed, may be stored.
LEMMA StatusStored ==
    ASSUME MailInv, NEW r \in Runs, run[r].current \in Candidate, NEW status,
           MarkEvent(r, status), UNCHANGED <<mails, refused>>,
           status = "SENT" => HandedOver(run[r].current.reminder)
    PROVE  SentWasMailed'
<1> SUFFICES ASSUME NEW m \in Reminder, KeyOf(m) \in DOMAIN event', event'[KeyOf(m)] = "SENT"
             PROVE  HandedOver(m)
  BY DEF SentWasMailed, KeyOf, DedupeKey, HandedOver
<1>1. DOMAIN event' = DOMAIN event
  BY DEF MarkEvent
<1>2. CASE KeyOf(m) = Key(r)
  <2>1. m = run[r].current.reminder
    BY <1>2, OneReminderPerKey DEF Key, Current
  <2>2. event'[KeyOf(m)] = status
    BY <1>1, <1>2 DEF MarkEvent
  <2> QED
    BY <2>1, <2>2
<1>3. CASE KeyOf(m) # Key(r)
  BY <1>1, <1>3 DEF MarkEvent, MailInv, SentWasMailed, KeyOf
<1> QED
  BY <1>2, <1>3

LEMMA InitMail == Init => MailInv
<1> SUFFICES ASSUME Init PROVE MailInv
  OBVIOUS
<1>1. run \in [Runs -> RunState] /\ settings \in SettingForms
  BY IdleRunIsTyped DEF Init
<1>2. mails \in [Reminder -> Nat] /\ refused \in SUBSET Reminder
  BY DEF Init
<1>3. \A r \in Runs : run[r].pc = "idle"
  BY DEF Init, IdleRun
<1>4. SentWasMailed
  BY DEF Init, SentWasMailed
<1> QED
  BY <1>1, <1>2, <1>3, <1>4 DEF MailInv, MarksWhatWasMailed

\* What the clock and the user do.
LEMMA OutsideKeepsMail ==
    ASSUME MailInv, UNCHANGED <<event, run, mails, refused>>, settings' \in SettingForms
    PROVE  MailInv'
BY DEF MailInv, MarksWhatWasMailed, SentWasMailed, DedupeKey, HandedOver

\* After the step, the mail service has answered for m.
HandedLater(m) == mails'[m] > 0 \/ m \in refused'

\* A step of one run that stores nothing unmailed as sent, nor comes to.
LEMMA RunSteps ==
    ASSUME MailInv, NEW r \in Runs, NEW state \in RunState,
           run' = [run EXCEPT ![r] = state], UNCHANGED settings, SentWasMailed',
           mails' \in [Reminder -> Nat], refused' \in SUBSET Reminder,
           \A n \in Reminder : HandedOver(n) => HandedOver(n)',
           state.pc \in {"create", "send", "mark", "fail"} => state.current \in Candidate,
           state.pc = "mark" /\ state.status = "SENT" => HandedLater(state.current.reminder)
    PROVE  MailInv'
<1>1. run' \in [Runs -> RunState] /\ run'[r] = state
  BY DEF MailInv
<1>2. \A s \in Runs \ {r} : run'[s] = run[s]
  BY DEF MailInv
<1>3. \A s \in Runs : run'[s].pc \in {"create", "send", "mark", "fail"}
                      => run'[s].current \in Candidate
  BY <1>1, <1>2 DEF MailInv
<1>4. MarksWhatWasMailed'
  <2> SUFFICES ASSUME NEW s \in Runs, run'[s].pc = "mark", run'[s].status = "SENT"
               PROVE  HandedOver(run[s].current.reminder)'
    BY DEF MarksWhatWasMailed
  <2>1. CASE s = r
    BY <1>1, <2>1 DEF HandedOver, HandedLater
  <2>2. CASE s # r
    <3>1. run'[s] = run[s] /\ run[s].current \in Candidate
      BY <1>2, <2>2 DEF MailInv
    <3>2. run[s].current.reminder \in Reminder /\ HandedOver(run[s].current.reminder)
      BY <3>1 DEF MailInv, MarksWhatWasMailed, Candidate
    <3> QED
      BY <3>1, <3>2 DEF HandedOver
  <2> QED
    BY <2>1, <2>2
<1> QED
  BY <1>1, <1>3, <1>4 DEF MailInv

\* A step of one run that leaves the events alone.
LEMMA RunMoves ==
    ASSUME MailInv, NEW r \in Runs, NEW state \in RunState,
           run' = [run EXCEPT ![r] = state], UNCHANGED <<event, settings>>,
           mails' \in [Reminder -> Nat], refused' \in SUBSET Reminder,
           \A n \in Reminder : HandedOver(n) => HandedOver(n)',
           state.pc \in {"create", "send", "mark", "fail"} => state.current \in Candidate,
           state.pc = "mark" /\ state.status = "SENT" => HandedLater(state.current.reminder)
    PROVE  MailInv'
<1>1. SentWasMailed'
  BY DEF MailInv, SentWasMailed, DedupeKey
<1> QED
  BY <1>1, RunSteps

\* What a run of the job does, or what befalls it.
LEMMA RunStepsKeepMail ==
    ASSUME MailInv, NEW r \in Runs,
           \/ StartRun(r) \/ LookUp(r) \/ CreateEvent(r) \/ SendMail(r) \/ MarkDelivery(r)
           \/ MarkFailed(r) \/ FinishRun(r) \/ SendRefused(r) \/ SendFails(r) \/ MarkFails(r)
           \/ CutRun(r)
    PROVE  MailInv'
<1>1. /\ run[r] \in RunState /\ settings \in SettingForms /\ mails \in [Reminder -> Nat]
      /\ refused \in SUBSET Reminder
  BY DEF MailInv
<1>2. IdleRun \in RunState /\ IdleRun.pc = "idle"
  BY IdleRunIsTyped DEF IdleRun
<1>3. ASSUME Stop(r), UNCHANGED <<event, mails, refused, settings>> PROVE MailInv'
  BY <1>1, <1>2, <1>3, RunMoves DEF Stop, HandedOver
<1>4. CASE StartRun(r)
  <2> DEFINE todo == IF settings.emails /\ debt.active
                     THEN Candidates(debt, settings, now) ELSE {}
             due == {m \in Reminder : /\ Wanted(m) /\ InItsMonth(m, now)
                                       /\ Scheduled(m, settings) \in now - Lookback .. now}
             state == [IdleRun EXCEPT !.pc = "look", !.todo = todo, !.due = due]
  <2>1. todo \in SUBSET Candidate /\ due \in SUBSET Reminder
    BY CandidatesAreTyped
  <2>2. state \in RunState /\ state.pc = "look"
    <3> HIDE DEF todo, due
    <3> QED
      BY <1>2, <2>1 DEF RunState
  <2>3. run' = [run EXCEPT ![r] = state] /\ UNCHANGED <<event, settings, mails, refused>>
    BY <1>4 DEF StartRun, user
  <2> QED
    <3> HIDE DEF state
    <3> QED
      BY <1>1, <2>2, <2>3, RunMoves DEF HandedOver
<1>5. CASE LookUp(r)
  <2>1. PICK c \in run[r].todo :
          run' = IF IsDone(DedupeKey(c))
                 THEN [run EXCEPT ![r].todo = @ \ {c}]
                 ELSE [run EXCEPT ![r].current = c,
                                  ![r].pc = IF DedupeKey(c) \in DOMAIN event
                                            THEN "send" ELSE "create"]
    BY <1>5 DEF LookUp
  <2>2. c \in Candidate /\ run[r].pc = "look"
    BY <1>1, <1>5 DEF RunState, LookUp, At
  <2>3. UNCHANGED <<event, settings, mails, refused>>
    BY <1>5 DEF LookUp, user
  <2>4. CASE IsDone(DedupeKey(c))
    <3> DEFINE state == [run[r] EXCEPT !.todo = @ \ {c}]
    <3>1. state \in RunState /\ state.pc = "look"
      BY <1>1, <2>2 DEF RunState
    <3>2. run' = [run EXCEPT ![r] = state]
      BY <2>1, <2>4
    <3> QED
      <4> HIDE DEF state
      <4> QED
        BY <1>1, <2>3, <3>1, <3>2, RunMoves DEF HandedOver
  <2>5. CASE ~IsDone(DedupeKey(c))
    <3> DEFINE pc == IF DedupeKey(c) \in DOMAIN event THEN "send" ELSE "create"
               state == [run[r] EXCEPT !.current = c, !.pc = pc]
    <3>1. state \in RunState /\ state.pc # "mark" /\ state.current \in Candidate
      BY <1>1, <2>2 DEF RunState
    <3>2. run' = [run EXCEPT ![r] = state]
      BY <2>1, <2>5
    <3> QED
      <4> HIDE DEF state
      <4> QED
        BY <1>1, <2>3, <3>1, <3>2, RunMoves DEF HandedOver
  <2> QED
    BY <2>4, <2>5
<1>6. CASE CreateEvent(r)
  <2>1. run[r].current \in Candidate /\ UNCHANGED <<settings, mails, refused>>
    BY <1>6 DEF MailInv, CreateEvent, At, user
  <2>2. CASE Key(r) \in DOMAIN event
    BY <1>3, <1>6, <2>1, <2>2 DEF CreateEvent
  <2>3. CASE Key(r) \notin DOMAIN event
    <3> DEFINE state == [run[r] EXCEPT !.pc = "send"]
    <3>1. event' = [k \in DOMAIN event \cup {Key(r)} |->
                       IF k = Key(r) THEN "PENDING" ELSE event[k]]
      BY <1>6, <2>3 DEF CreateEvent
    <3>2. SentWasMailed'
      BY <2>1, <3>1 DEF MailInv, SentWasMailed, HandedOver
    <3>3. state \in RunState /\ state.pc = "send" /\ state.current \in Candidate
      BY <1>1, <2>1 DEF RunState
    <3>4. run' = [run EXCEPT ![r] = state]
      BY <1>6, <2>3 DEF CreateEvent, Goto
    <3> QED
      <4> HIDE DEF state
      <4> QED
        BY <1>1, <2>1, <3>2, <3>3, <3>4, RunSteps DEF HandedOver
  <2> QED
    BY <2>2, <2>3
<1>7. CASE SendMail(r) \/ SendRefused(r)
  <2> DEFINE status == Delivery(mailer)
             state == [run[r] EXCEPT !.pc = "mark", !.status = status]
  <2>1. run[r].current \in Candidate /\ run[r].current.reminder \in Reminder
    BY <1>7 DEF MailInv, SendMail, SendRefused, At, Candidate
  <2>2. UNCHANGED <<event, settings>>
    BY <1>7 DEF SendMail, SendRefused, Failing, user
  <2>3. refused' \in SUBSET Reminder /\ refused \subseteq refused'
    BY <1>1, <1>7, <2>1 DEF SendMail, SendRefused, Current
  <2>4. /\ mails' \in [Reminder -> Nat]
        /\ \A n \in Reminder : HandedOver(n) => HandedOver(n)'
    <3>1. mails' = [mails EXCEPT ![run[r].current.reminder] = @ + 1] \/ UNCHANGED mails
      BY <1>7 DEF SendMail, SendRefused, Accepted, Current
    <3> QED
      BY <1>1, <2>1, <2>3, <3>1, MailsStay
  <2>5. status \in {"SENT", "SKIPPED"} /\ (status = "SENT" => mailer)
    BY DEF Delivery
  <2>6. mailer => HandedLater(run[r].current.reminder)
    <3>1. CASE SendMail(r)
      BY <1>1, <2>1, <3>1 DEF SendMail, Accepted, Current, HandedLater
    <3>2. CASE SendRefused(r)
      BY <2>1, <3>2 DEF SendRefused, Current, HandedLater
    <3> QED
      BY <1>7, <3>1, <3>2
  <2>7. run' = [run EXCEPT ![r] = state]
    BY <1>7 DEF SendMail, SendRefused, Delivered
  <2>8. state \in RunState /\ state.current = run[r].current /\ state.status = status
    <3> HIDE DEF status
    <3> QED
      BY <1>1, <2>5 DEF RunState
  <2> QED
    <3> HIDE DEF status, state
    <3> QED
      BY <2>1, <2>2, <2>3, <2>4, <2>5, <2>6, <2>7, <2>8, RunMoves
<1>8. ASSUME NEW status, NEW clean \in BOOLEAN, run[r].current \in Candidate,
             MarkEvent(r, status), NextCandidate(r, clean), UNCHANGED <<settings, mails, refused>>,
             status = "SENT" => HandedOver(run[r].current.reminder)
      PROVE  MailInv'
  <2> DEFINE state == [run[r] EXCEPT !.pc = "look", !.todo = @ \ {Current(r)},
                                     !.current = NoCandidate, !.status = "NONE",
                                     !.clean = @ /\ clean]
  <2>1. SentWasMailed'
    BY <1>8, StatusStored
  <2>2. (run[r].clean /\ clean) \in BOOLEAN
    OBVIOUS
  <2>3. state \in RunState /\ state.pc = "look"
    BY <1>1, <2>2 DEF RunState
  <2>4. run' = [run EXCEPT ![r] = state]
    BY <1>8 DEF NextCandidate
  <2> QED
    <3> HIDE DEF state
    <3> QED
      BY <1>1, <1>8, <2>1, <2>3, <2>4, RunSteps DEF HandedOver
<1>9. CASE MarkDelivery(r)
  <2>1. run[r].current \in Candidate /\ run[r].pc = "mark"
    BY <1>9 DEF MailInv, MarkDelivery, At
  <2>2. run[r].status = "SENT" => HandedOver(run[r].current.reminder)
    BY <2>1 DEF MailInv, MarksWhatWasMailed
  <2>3. (run[r].status = "SENT") \in BOOLEAN
    OBVIOUS
  <2>4. /\ MarkEvent(r, run[r].status) /\ NextCandidate(r, run[r].status = "SENT")
        /\ UNCHANGED <<settings, mails, refused>>
    BY <1>9 DEF MarkDelivery, user
  <2> QED
    BY <1>8, <2>1, <2>2, <2>3, <2>4
<1>10. CASE MarkFailed(r)
  <2>1. run[r].current \in Candidate
    BY <1>10 DEF MailInv, MarkFailed, At
  <2>2. /\ MarkEvent(r, "FAILED") /\ NextCandidate(r, FALSE)
        /\ UNCHANGED <<settings, mails, refused>>
    BY <1>10 DEF MarkFailed, user
  <2> QED
    BY <1>8, <2>1, <2>2
<1>11. CASE FinishRun(r)
  BY <1>3, <1>11 DEF FinishRun, user
<1>12. CASE CutRun(r)
  BY <1>3, <1>12 DEF CutRun, Failing, user
<1>13. ASSUME SendFails(r) \/ MarkFails(r) PROVE MailInv'
  <2> DEFINE state == [run[r] EXCEPT !.pc = "fail"]
  <2>1. run[r].current \in Candidate /\ run[r].current.reminder \in Reminder
    BY <1>13 DEF MailInv, SendFails, MarkFails, At, Candidate
  <2>2. UNCHANGED <<event, settings>> /\ run' = [run EXCEPT ![r] = state]
    BY <1>13 DEF SendFails, MarkFails, Failing, Goto, user
  <2>3. /\ mails' \in [Reminder -> Nat] /\ refused' = refused
        /\ \A n \in Reminder : HandedOver(n) => HandedOver(n)'
    <3>1. mails' = [mails EXCEPT ![run[r].current.reminder] = @ + 1] \/ UNCHANGED mails
      BY <1>13 DEF SendFails, MarkFails, Accepted, Current
    <3>2. refused' = refused
      BY <1>13 DEF SendFails, MarkFails
    <3> QED
      BY <1>1, <2>1, <3>1, <3>2, MailsStay
  <2>4. state \in RunState /\ state.pc = "fail" /\ state.current \in Candidate
    BY <1>1, <2>1 DEF RunState
  <2> QED
    <3> HIDE DEF state
    <3> QED
      BY <1>1, <2>2, <2>3, <2>4, RunMoves
<1> QED
  BY <1>4, <1>5, <1>6, <1>7, <1>9, <1>10, <1>11, <1>12, <1>13

LEMMA NextKeepsMail == MailInv /\ [Next]_vars => MailInv'
<1> SUFFICES ASSUME MailInv, [Next]_vars PROVE MailInv'
  OBVIOUS
<1>1. settings \in SettingForms
  BY DEF MailInv
<1>2. CASE Tick \/ ConfigureMailer \/ UNCHANGED vars
  BY <1>1, <1>2, OutsideKeepsMail DEF Tick, ConfigureMailer, Edited, vars, user
<1>3. CASE \E form \in DebtForms : EditDebt(form)
  BY <1>1, <1>3, OutsideKeepsMail DEF EditDebt, Edited
<1>4. CASE \E form \in SettingForms : EditSettings(form)
  BY <1>4, OutsideKeepsMail DEF EditSettings, Edited
<1>5. ASSUME NEW r \in Runs,
             \/ StartRun(r) \/ LookUp(r) \/ CreateEvent(r) \/ SendMail(r) \/ MarkDelivery(r)
             \/ MarkFailed(r) \/ FinishRun(r) \/ SendRefused(r) \/ SendFails(r)
             \/ MarkFails(r) \/ CutRun(r)
      PROVE  MailInv'
  BY <1>5, RunStepsKeepMail
<1> QED
  BY <1>2, <1>3, <1>4, <1>5 DEF Next

(***************************************************************************)
(* An event row that says SENT, which no later run looks into again        *)
(* (reminder-scheduler-service.ts:120), belongs to a reminder whose mail   *)
(* the service accepted, or refused in the reply that mail-service.ts:26   *)
(* drops: never to one whose mails were all skipped, thrown back or cut.   *)
(***************************************************************************)
THEOREM SentIsMailed == Spec => []SentWasMailed
<1>1. MailInv => SentWasMailed
  BY DEF MailInv
<1> QED
  BY <1>1, InitMail, NextKeepsMail, PTL DEF Spec

-----------------------------------------------------------------------------
(* What the steps of a run make of its state                               *)

RunStep(r) == \/ StartRun(r) \/ LookUp(r) \/ CreateEvent(r) \/ SendMail(r) \/ MarkDelivery(r)
              \/ MarkFailed(r) \/ FinishRun(r) \/ SendRefused(r) \/ SendFails(r)
              \/ MarkFails(r) \/ CutRun(r)

Owed == {m \in Reminder : /\ Wanted(m) /\ InItsMonth(m, now)
                          /\ Scheduled(m, settings) \in now - Lookback .. now}
Listed == IF settings.emails /\ debt.active THEN Candidates(debt, settings, now) ELSE {}
Started == [IdleRun EXCEPT !.pc = "look", !.todo = Listed, !.due = Owed]
Skipping(q, c) == [q EXCEPT !.todo = @ \ {c}]
Taking(q, c) == [q EXCEPT !.current = c,
                          !.pc = IF DedupeKey(c) \in DOMAIN event THEN "send" ELSE "create"]
Going(q, pc) == [q EXCEPT !.pc = pc]
Sending(q) == [q EXCEPT !.pc = "mark", !.status = Delivery(mailer)]
Turning(q, clean) == [q EXCEPT !.pc = "look", !.todo = @ \ {q.current}, !.current = NoCandidate,
                               !.status = "NONE", !.clean = @ /\ clean]

Becomes(r, state) == run' = [run EXCEPT ![r] = state]
SameFields(p, q) == p.due = q.due /\ p.status = q.status

LEMMA StartedFields ==
    ASSUME MailInv
    PROVE  /\ Started \in RunState /\ Started.pc = "look" /\ Started.todo = Listed
           /\ Started.due = Owed /\ Started.clean = TRUE /\ Started.current = NoCandidate
           /\ Listed \subseteq Candidates(debt, settings, now)
<1>1. Listed \in SUBSET Candidate /\ Owed \in SUBSET Reminder
  BY CandidatesAreTyped DEF Listed, Owed
<1>2. Listed \subseteq Candidates(debt, settings, now)
  BY DEF Listed
<1> QED
  BY <1>1, <1>2 DEF Started, IdleRun, RunState

LEMMA SkippingFields ==
    ASSUME NEW q \in RunState, NEW c
    PROVE  /\ Skipping(q, c) \in RunState /\ Skipping(q, c).todo = q.todo \ {c}
           /\ Skipping(q, c).pc = q.pc /\ Skipping(q, c).current = q.current
           /\ Skipping(q, c).clean = q.clean /\ SameFields(Skipping(q, c), q)
BY DEF Skipping, SameFields, RunState

LEMMA TakingFields ==
    ASSUME NEW q \in RunState, NEW c \in Candidate
    PROVE  /\ Taking(q, c) \in RunState /\ Taking(q, c).todo = q.todo
           /\ Taking(q, c).pc = (IF DedupeKey(c) \in DOMAIN event THEN "send" ELSE "create")
           /\ Taking(q, c).current = c /\ Taking(q, c).clean = q.clean
           /\ SameFields(Taking(q, c), q)
BY DEF Taking, SameFields, RunState

LEMMA GoingFields ==
    ASSUME NEW q \in RunState, NEW pc \in {"idle", "look", "create", "send", "mark", "fail"}
    PROVE  /\ Going(q, pc) \in RunState /\ Going(q, pc).todo = q.todo /\ Going(q, pc).pc = pc
           /\ Going(q, pc).current = q.current /\ Going(q, pc).clean = q.clean
           /\ SameFields(Going(q, pc), q)
BY DEF Going, SameFields, RunState

LEMMA SendingFields ==
    ASSUME NEW q \in RunState
    PROVE  /\ Sending(q) \in RunState /\ Sending(q).todo = q.todo /\ Sending(q).pc = "mark"
           /\ Sending(q).current = q.current /\ Sending(q).clean = q.clean
           /\ Sending(q).due = q.due /\ Sending(q).status = Delivery(mailer)
BY DEF Sending, Delivery, RunState

LEMMA TurningFields ==
    ASSUME NEW q \in RunState, NEW clean \in BOOLEAN
    PROVE  /\ Turning(q, clean) \in RunState /\ Turning(q, clean).todo = q.todo \ {q.current}
           /\ Turning(q, clean).pc = "look" /\ Turning(q, clean).current = NoCandidate
           /\ Turning(q, clean).clean = (q.clean /\ clean) /\ Turning(q, clean).due = q.due
<1>1. (q.clean /\ clean) \in BOOLEAN
  OBVIOUS
<1> QED
  BY <1>1 DEF Turning, RunState

LEMMA Shapes ==
    ASSUME NEW r \in Runs, RunStep(r), MailInv
    PROVE  \/ StartRun(r) /\ Becomes(r, Started)
           \/ /\ LookUp(r) /\ run[r].pc = "look"
              /\ \E c \in run[r].todo :
                    IF IsDone(DedupeKey(c)) THEN Becomes(r, Skipping(run[r], c))
                                            ELSE Becomes(r, Taking(run[r], c))
           \/ CreateEvent(r) /\ Key(r) \in DOMAIN event /\ Becomes(r, IdleRun)
           \/ CreateEvent(r) /\ Key(r) \notin DOMAIN event /\ Becomes(r, Going(run[r], "send"))
           \/ (SendMail(r) \/ SendRefused(r)) /\ Becomes(r, Sending(run[r]))
           \/ MarkDelivery(r) /\ Becomes(r, Turning(run[r], run[r].status = "SENT"))
           \/ MarkFailed(r) /\ Becomes(r, Turning(run[r], FALSE))
           \/ FinishRun(r) /\ Becomes(r, IdleRun)
           \/ (SendFails(r) \/ MarkFails(r)) /\ Becomes(r, Going(run[r], "fail"))
           \/ CutRun(r) /\ Becomes(r, IdleRun)
<1> USE DEF Becomes
<1>1. CASE StartRun(r)
  BY <1>1 DEF StartRun, Started, Listed, Owed
<1>2. CASE LookUp(r)
  BY <1>2 DEF LookUp, At, Skipping, Taking, MailInv
<1>3. CASE CreateEvent(r)
  BY <1>3 DEF CreateEvent, Stop, Goto, Going, MailInv
<1>4. CASE SendMail(r) \/ SendRefused(r)
  BY <1>4 DEF SendMail, SendRefused, Delivered, Sending, MailInv
<1>5. CASE MarkDelivery(r)
  BY <1>5 DEF MarkDelivery, NextCandidate, Turning, Current, MailInv
<1>6. CASE MarkFailed(r)
  BY <1>6 DEF MarkFailed, NextCandidate, Turning, Current, MailInv
<1>7. CASE FinishRun(r) \/ CutRun(r)
  BY <1>7 DEF FinishRun, CutRun, Stop
<1>8. CASE SendFails(r) \/ MarkFails(r)
  BY <1>8 DEF SendFails, MarkFails, Goto, Going, MailInv
<1> QED
  BY <1>1, <1>2, <1>3, <1>4, <1>5, <1>6, <1>7, <1>8 DEF RunStep

-----------------------------------------------------------------------------
(* What holds of every run: it has in hand one of the reminders on its     *)
(* list, the list is of the settings in force, and without a mail service  *)
(* it is about to skip what nobody has marked as sent.                     *)

Busy(q) == q.pc \in {"create", "send", "mark", "fail"}
IsAbout(q, m) == Busy(q) /\ q.current.reminder = m
Keeps(q, m) == \E c \in q.todo : c.reminder = m
HasSent(q, m) == q.pc = "mark" /\ q.status = "SENT" /\ q.current.reminder = m
HasFailed(q, m) == q.pc = "fail" /\ q.current.reminder = m

SaysSent(m) == KeyOf(m) \in DOMAIN event /\ event[KeyOf(m)] = "SENT"
Settled(m) == SaysSent(m) \/ \E r \in Runs : HasSent(run[r], m)

InLine(r) ==
    /\ run[r].pc = "idle" => run[r] = IdleRun
    /\ run[r].pc \in {"send", "mark", "fail"} => Key(r) \in DOMAIN event
    /\ Busy(run[r]) => run[r].current \in run[r].todo
    /\ \A c \in run[r].todo : c.at = Scheduled(c.reminder, settings)
    /\ run[r].pc = "mark" => run[r].status = Delivery(mailer)
    /\ ~mailer => \A m \in Reminder :
          IsAbout(run[r], m) /\ run[r].pc \in {"create", "send", "mark"} => ~Settled(m)

RunInv == MailInv /\ \A r \in Runs : InLine(r)

LEMMA ListedAtTheirHour ==
    ASSUME NEW c \in Candidates(debt, settings, now)
    PROVE  c.at = Scheduled(c.reminder, settings)
<1>1. PICK m \in Reminder : c = [reminder |-> m, at |-> Scheduled(m, settings)]
  BY DEF Candidates
<1> QED
  BY <1>1

\* No two entries of a list are about one reminder.
LEMMA ListedOnce ==
    ASSUME RunInv, NEW r \in Runs, NEW b \in run[r].todo, NEW c \in run[r].todo,
           b.reminder = c.reminder
    PROVE  b = c
<1>1. b \in Candidate /\ c \in Candidate
  BY DEF RunInv, MailInv, RunState
<1>2. b.at = c.at
  BY DEF RunInv, InLine
<1> QED
  BY <1>1, <1>2 DEF Candidate

\* What a run has in hand.
LEMMA HandIsTyped ==
    ASSUME MailInv, NEW r \in Runs, Busy(run[r])
    PROVE  /\ run[r].current \in Candidate /\ run[r].current.reminder \in Reminder
           /\ Key(r) = KeyOf(run[r].current.reminder)
BY DEF MailInv, Busy, Candidate, Key, Current, KeyOf, DedupeKey

\* The status of one event changes, or one event is added that does not say SENT.
LEMMA EventsMove ==
    ASSUME NEW r \in Runs, RunStep(r), MailInv, NEW m \in Reminder
    PROVE  /\ \/ SaysSent(m)' <=> SaysSent(m)
              \/ IsAbout(run[r], m) /\ (MarkDelivery(r) \/ MarkFailed(r))
           /\ MarkDelivery(r) /\ IsAbout(run[r], m) /\ KeyOf(m) \in DOMAIN event
              => (SaysSent(m)' <=> run[r].status = "SENT")
           /\ MarkFailed(r) /\ IsAbout(run[r], m) => ~SaysSent(m)'
           /\ DOMAIN event \subseteq DOMAIN event'
<1>1. UNCHANGED event => (SaysSent(m)' <=> SaysSent(m))
  BY DEF SaysSent, KeyOf, DedupeKey
<1>2. CASE CreateEvent(r)
  <2>1. UNCHANGED event \/ (Key(r) \notin DOMAIN event
          /\ event' = [k \in DOMAIN event \cup {Key(r)} |->
                          IF k = Key(r) THEN "PENDING" ELSE event[k]])
    BY <1>2 DEF CreateEvent
  <2>2. KeyOf(m)' = KeyOf(m)
    BY DEF KeyOf, DedupeKey
  <2>3. SaysSent(m)' <=> SaysSent(m)
    <3>1. CASE UNCHANGED event
      BY <1>1, <3>1
    <3>2. CASE ~UNCHANGED event
      <4>1. CASE KeyOf(m) = Key(r)
        BY <2>1, <2>2, <3>2, <4>1 DEF SaysSent
      <4>2. CASE KeyOf(m) # Key(r)
        BY <2>1, <2>2, <3>2, <4>2 DEF SaysSent
      <4> QED
        BY <4>1, <4>2
    <3> QED
      BY <3>1, <3>2
  <2>4. ~MarkDelivery(r) /\ ~MarkFailed(r)
    BY <1>2 DEF CreateEvent, MarkDelivery, MarkFailed, At
  <2>5. DOMAIN event \subseteq DOMAIN event'
    BY <2>1
  <2> QED
    BY <2>3, <2>4, <2>5
<1>3. ASSUME NEW status, MarkEvent(r, status), Busy(run[r])
      PROVE  /\ DOMAIN event' = DOMAIN event
             /\ (SaysSent(m)' <=> SaysSent(m)) \/ IsAbout(run[r], m)
             /\ IsAbout(run[r], m) => (SaysSent(m)' <=> KeyOf(m) \in DOMAIN event /\ status = "SENT")
  <2>1. DOMAIN event' = DOMAIN event
    BY <1>3 DEF MarkEvent
  <2>2. Key(r) = KeyOf(run[r].current.reminder) /\ run[r].current \in Candidate
    BY <1>3, HandIsTyped
  <2>3. KeyOf(m)' = KeyOf(m)
    BY DEF KeyOf, DedupeKey
  <2>4. CASE Key(r) = KeyOf(m)
    <3>1. run[r].current.reminder = m
      BY <2>2, <2>4, OneReminderPerKey DEF Key, Current
    <3>2. KeyOf(m) \in DOMAIN event => event'[KeyOf(m)] = status
      BY <1>3, <2>4 DEF MarkEvent
    <3> QED
      BY <1>3, <2>1, <2>3, <3>1, <3>2 DEF IsAbout, SaysSent
  <2>5. CASE Key(r) # KeyOf(m)
    <3>1. KeyOf(m) \in DOMAIN event => event'[KeyOf(m)] = event[KeyOf(m)]
      BY <2>5 , <1>3 DEF MarkEvent
    <3>2. ~IsAbout(run[r], m)
      BY <2>2, <2>5 DEF IsAbout
    <3> QED
      BY <2>1, <2>3, <3>1, <3>2 DEF SaysSent
  <2> QED
    BY <2>4, <2>5
<1>4. CASE MarkDelivery(r)
  <2>1. MarkEvent(r, run[r].status) /\ Busy(run[r]) /\ ~MarkFailed(r)
    BY <1>4 DEF MarkDelivery, MarkFailed, At, Busy
  <2> QED
    BY <1>3, <1>4, <2>1
<1>5. CASE MarkFailed(r)
  <2>1. MarkEvent(r, "FAILED") /\ Busy(run[r]) /\ ~MarkDelivery(r)
    BY <1>5 DEF MarkDelivery, MarkFailed, At, Busy
  <2> QED
    BY <1>3, <1>5, <2>1
<1>6. CASE UNCHANGED event /\ ~MarkDelivery(r) /\ ~MarkFailed(r)
  <2>1. DOMAIN event' = DOMAIN event
    BY <1>6
  <2> QED
    BY <1>1, <1>6, <2>1
<1>7. \/ CreateEvent(r) \/ MarkDelivery(r) \/ MarkFailed(r)
      \/ StartRun(r) \/ LookUp(r) \/ SendMail(r) \/ FinishRun(r) \/ SendRefused(r) \/ SendFails(r)
      \/ MarkFails(r) \/ CutRun(r)
  BY DEF RunStep
<1>8. UNCHANGED event \/ CreateEvent(r) \/ MarkDelivery(r) \/ MarkFailed(r)
  BY <1>7 DEF StartRun, LookUp, SendMail, FinishRun, SendRefused, SendFails, MarkFails, CutRun, Failing
<1> QED
  BY <1>2, <1>4, <1>5, <1>6, <1>8

\* What a step of a run leaves behind.
After(r) ==
    /\ \A s \in Runs \ {r} : run'[s] = run[s]
    /\ UNCHANGED <<now, user>>
    /\ run'[r].pc = "idle" => run'[r] = IdleRun
    /\ run'[r].pc \in {"send", "mark", "fail"} => Key(r)' \in DOMAIN event'
    /\ Busy(run'[r]) => run'[r].current \in run'[r].todo
    /\ \A c \in run'[r].todo : c.at = Scheduled(c.reminder, settings)
    /\ run'[r].pc = "mark" => run'[r].status = Delivery(mailer)
    /\ Busy(run'[r]) => \/ Busy(run[r]) /\ run'[r].current = run[r].current
                        \/ ~SaysSent(run'[r].current.reminder)
    /\ run'[r].pc \in {"create", "send", "mark"} /\ Busy(run[r]) => run[r].pc \in {"create", "send"}

LEMMA Others ==
    ASSUME MailInv, NEW r \in Runs, NEW state, Becomes(r, state)
    PROVE  run'[r] = state /\ \A s \in Runs \ {r} : run'[s] = run[s]
BY DEF MailInv, Becomes

LEMMA RunLeaves ==
    ASSUME RunInv, NEW r \in Runs, RunStep(r)
    PROVE  After(r)
<1>1. MailInv /\ InLine(r) /\ run[r] \in RunState
  BY DEF RunInv, MailInv
<1>2. UNCHANGED <<now, user>>
  BY DEF RunStep, StartRun, LookUp, CreateEvent, SendMail, MarkDelivery, MarkFailed, FinishRun,
         SendRefused, SendFails, MarkFails, CutRun, Failing
<1>3. DOMAIN event \subseteq DOMAIN event'
  <2>1. CASE \E m \in Reminder : TRUE
    BY <1>1, <2>1, EventsMove
  <2>2. CASE Reminder = {}
    <3>1. run[r].todo = {} /\ ~Busy(run[r])
      BY <1>1, <2>2, HandIsTyped DEF RunState, Candidate
    <3> QED
      BY <3>1 DEF Busy, RunStep, StartRun, LookUp, CreateEvent, SendMail, MarkDelivery, MarkFailed,
         FinishRun, SendRefused, SendFails, MarkFails, CutRun, Failing, At
  <2> QED
    BY <2>1, <2>2
<1> DEFINE P(state) ==
      /\ state.pc = "idle" => state = IdleRun
      /\ state.pc \in {"send", "mark", "fail"} => DedupeKey(state.current) \in DOMAIN event'
      /\ Busy(state) => state.current \in state.todo
      /\ \A c \in state.todo : c.at = Scheduled(c.reminder, settings)
      /\ state.pc = "mark" => state.status = Delivery(mailer)
      /\ Busy(state) => \/ Busy(run[r]) /\ state.current = run[r].current
                        \/ ~SaysSent(state.current.reminder)
      /\ state.pc \in {"create", "send", "mark"} /\ Busy(run[r]) => run[r].pc \in {"create", "send"}
<1>4. ASSUME NEW state, Becomes(r, state), P(state) PROVE After(r)
  <2>1. run'[r] = state /\ \A s \in Runs \ {r} : run'[s] = run[s]
    BY <1>1, <1>4, Others
  <2>2. Key(r)' = DedupeKey(state.current)
    BY <2>1 DEF Key, Current, DedupeKey
  <2> QED
    BY <1>2, <1>4, <2>1, <2>2 DEF After
<1>5. P(IdleRun)
  BY DEF IdleRun, Busy
<1>6. ASSUME Becomes(r, Started) PROVE After(r)
  <2>1. \A c \in Listed : c.at = Scheduled(c.reminder, settings)
    BY <1>1, StartedFields, ListedAtTheirHour
  <2>2. P(Started)
    BY <1>1, <2>1, StartedFields DEF Busy
  <2> QED
    BY <1>4, <1>6, <2>2
<1>7. ASSUME NEW c \in run[r].todo, IsDone(DedupeKey(c)), run[r].pc = "look",
             Becomes(r, Skipping(run[r], c))
      PROVE  After(r)
  <2>1. c \in Candidate
    BY <1>1, <1>7 DEF RunState
  <2>2. P(Skipping(run[r], c))
    BY <1>1, <1>7, <2>1, SkippingFields DEF Busy, InLine
  <2> QED
    BY <1>4, <1>7, <2>2
<1>8. ASSUME NEW c \in run[r].todo, ~IsDone(DedupeKey(c)), run[r].pc = "look", UNCHANGED event,
             Becomes(r, Taking(run[r], c))
      PROVE  After(r)
  <2>1. c \in Candidate /\ DedupeKey(c) = KeyOf(c.reminder)
    BY <1>1, <1>8 DEF RunState, DedupeKey, KeyOf
  <2>2. ~SaysSent(c.reminder)
    BY <1>8, <2>1 DEF SaysSent, IsDone
  <2>3. P(Taking(run[r], c))
    BY <1>1, <1>3, <1>8, <2>1, <2>2, TakingFields DEF Busy, InLine
  <2> QED
    BY <1>4, <1>8, <2>3
<1>9. ASSUME NEW pc \in {"send", "fail"}, Busy(run[r]), Becomes(r, Going(run[r], pc)),
             Key(r) \in DOMAIN event', pc = "send" => run[r].pc = "create"
      PROVE  After(r)
  <2>1. run[r].current \in Candidate
    BY <1>1, <1>9, HandIsTyped
  <2>2. P(Going(run[r], pc))
    BY <1>1, <1>9, <2>1, GoingFields DEF Busy, InLine, Key, Current
  <2> QED
    BY <1>4, <1>9, <2>2
<1>10. ASSUME run[r].pc = "send", Becomes(r, Sending(run[r])) PROVE After(r)
  <2>1. run[r].current \in Candidate
    BY <1>1, <1>10, HandIsTyped DEF Busy
  <2>2. P(Sending(run[r]))
    BY <1>1, <1>3, <1>10, <2>1, SendingFields DEF Busy, InLine, Key, Current
  <2> QED
    BY <1>4, <1>10, <2>2
<1>11. ASSUME NEW clean \in BOOLEAN, Busy(run[r]), Becomes(r, Turning(run[r], clean)) PROVE After(r)
  <2>1. run[r].current \in Candidate
    BY <1>1, <1>11, HandIsTyped
  <2>2. P(Turning(run[r], clean))
    BY <1>1, <1>11, <2>1, TurningFields DEF Busy, InLine
  <2> QED
    BY <1>4, <1>11, <2>2
<1> HIDE DEF P
<1>12. CASE StartRun(r) /\ Becomes(r, Started)
  BY <1>6, <1>12
<1>13. CASE LookUp(r) /\ run[r].pc = "look"
  <2>1. UNCHANGED event
    BY <1>13 DEF LookUp
  <2>2. \E c \in run[r].todo : IF IsDone(DedupeKey(c)) THEN Becomes(r, Skipping(run[r], c))
                                                       ELSE Becomes(r, Taking(run[r], c))
    BY <1>13 DEF LookUp, Becomes, Skipping, Taking, MailInv
  <2> QED
    BY <1>7, <1>8, <1>13, <2>1, <2>2
<1>14. CASE CreateEvent(r) /\ Key(r) \notin DOMAIN event /\ Becomes(r, Going(run[r], "send"))
  <2>1. Key(r) \in DOMAIN event' /\ run[r].pc = "create"
    BY <1>14 DEF CreateEvent, At
  <2> QED
    BY <1>9, <1>14, <2>1 DEF Busy
<1>15. CASE (SendMail(r) \/ SendRefused(r)) /\ Becomes(r, Sending(run[r]))
  BY <1>10, <1>15 DEF SendMail, SendRefused, At, Failing
<1>16. CASE MarkDelivery(r) /\ Becomes(r, Turning(run[r], run[r].status = "SENT"))
  BY <1>11, <1>16 DEF MarkDelivery, At, Busy
<1>17. CASE MarkFailed(r) /\ Becomes(r, Turning(run[r], FALSE))
  BY <1>11, <1>17 DEF MarkFailed, At, Busy
<1>18. CASE (SendFails(r) \/ MarkFails(r)) /\ Becomes(r, Going(run[r], "fail"))
  <2>1. run[r].pc \in {"send", "mark"} /\ UNCHANGED event
    BY <1>18 DEF SendFails, MarkFails, At, Failing
  <2>2. Key(r) \in DOMAIN event'
    BY <1>1, <1>3, <2>1 DEF InLine
  <2> QED
    BY <1>9, <1>18, <2>1, <2>2 DEF Busy
<1>19. CASE Becomes(r, IdleRun)
  BY <1>4, <1>5, <1>19
<1> QED
  BY <1>1, Shapes, <1>12, <1>13, <1>14, <1>15, <1>16, <1>17, <1>18, <1>19

\* Nothing is settled while there is no mail service.
LEMMA SettledMoves ==
    ASSUME RunInv, NEW r \in Runs, RunStep(r), NEW m \in Reminder, ~mailer, Settled(m)'
    PROVE  Settled(m)
<1>1. After(r) /\ MailInv /\ InLine(r)
  BY RunLeaves DEF RunInv
<1>2. CASE SaysSent(m)'
  <2>1. CASE SaysSent(m)' <=> SaysSent(m)
    BY <1>2, <2>1 DEF Settled
  <2>2. CASE IsAbout(run[r], m) /\ (MarkDelivery(r) \/ MarkFailed(r))
    <3>1. MarkDelivery(r) /\ run[r].pc = "mark" /\ KeyOf(m) \in DOMAIN event
      BY <1>1, <1>2, <2>2, EventsMove, HandIsTyped DEF MarkDelivery, At, IsAbout, Busy, InLine
    <3>2. run[r].status # "SENT"
      BY <1>1, <3>1 DEF InLine, Delivery
    <3> QED
      BY <1>1, <1>2, <2>2, <3>1, <3>2, EventsMove
  <2> QED
    BY <1>1, <2>1, <2>2, EventsMove
<1>3. CASE \E s \in Runs : HasSent(run'[s], m)
  <2>1. PICK s \in Runs : HasSent(run'[s], m)
    BY <1>3
  <2>2. s # r
    BY <1>1, <2>1 DEF HasSent, After, Delivery
  <2> QED
    BY <1>1, <2>1, <2>2 DEF After, Settled
<1> QED
  BY <1>2, <1>3 DEF Settled, HasSent, SaysSent

LEMMA RunsKeepLine ==
    ASSUME RunInv, NEW r \in Runs, RunStep(r), NEW s \in Runs
    PROVE  InLine(s)'
<1>1. After(r) /\ MailInv /\ InLine(s) /\ MailInv'
  BY RunLeaves, RunStepsKeepMail DEF RunInv, RunStep
<1>2. UNCHANGED <<settings, mailer>>
  BY <1>1 DEF After, user
<1>3. \A m, f : Scheduled(m, f)' = Scheduled(m, f)
  BY DEF Scheduled
<1>4. CASE s = r
  <2>1. ASSUME NEW m \in Reminder, ~mailer, IsAbout(run'[r], m),
               run'[r].pc \in {"create", "send", "mark"}
        PROVE  ~Settled(m)'
    <3>1. ~Settled(m)
      <4>1. CASE Busy(run[r]) /\ run'[r].current = run[r].current
        BY <1>1, <1>4, <2>1, <4>1 DEF After, InLine, IsAbout
      <4>2. CASE ~SaysSent(m)
        <5>1. \A q \in Runs : ~HasSent(run[q], m)
          BY <2>1 DEF HasSent, RunInv, InLine, Delivery
        <5> QED
          BY <4>2, <5>1 DEF Settled
      <4> QED
        BY <1>1, <2>1, <4>1, <4>2 DEF After, IsAbout
    <3> QED
      BY <2>1, <3>1, SettledMoves
  <2>2. (~mailer => \A m \in Reminder :
            IsAbout(run[r], m) /\ run[r].pc \in {"create", "send", "mark"} => ~Settled(m))'
    BY <1>2, <2>1 DEF IsAbout, Busy
  <2> QED
    BY <1>1, <1>2, <1>3, <1>4, <2>2 DEF After, InLine, Busy, Delivery
<1>5. CASE s # r
  <2>1. run'[s] = run[s]
    BY <1>1, <1>5 DEF After
  <2>2. (~mailer => \A m \in Reminder :
            IsAbout(run[s], m) /\ run[s].pc \in {"create", "send", "mark"} => ~Settled(m))'
    BY <1>1, <1>2, <2>1, SettledMoves DEF InLine, IsAbout, Busy
  <2>3. run[s].pc \in {"send", "mark", "fail"} => Key(s)' \in DOMAIN event'
    <3>1. SUFFICES ASSUME run[s].pc \in {"send", "mark", "fail"} PROVE Key(s)' \in DOMAIN event'
      OBVIOUS
    <3>2. Key(s)' = Key(s)
      BY <2>1 DEF Key, Current, DedupeKey
    <3>3. DOMAIN event \subseteq DOMAIN event'
      BY <1>1, <3>1, HandIsTyped, EventsMove DEF Busy
    <3> QED
      BY <1>1, <3>1, <3>2, <3>3 DEF InLine
  <2> QED
    BY <1>1, <1>2, <1>3, <2>1, <2>2, <2>3 DEF InLine, Busy, Delivery
<1> QED
  BY <1>4, <1>5

\* The clock moves, and the user edits, while no run is at work.
Outside ==
    \/ Tick \/ ConfigureMailer
    \/ \E form \in DebtForms : EditDebt(form)
    \/ \E form \in SettingForms : EditSettings(form)

LEMMA OutsideRuns ==
    ASSUME Outside, RunInv
    PROVE  /\ UNCHANGED <<event, run, mails, refused, faults, overlaps>>
           /\ \A r \in Runs : run[r] = IdleRun /\ run[r].pc = "idle" /\ run'[r] = run[r]
<1>1. UNCHANGED <<event, run, mails, refused, faults, overlaps>> /\ Working = {}
  BY DEF Outside, Tick, ConfigureMailer, EditDebt, EditSettings, Edited
<1>2. \A r \in Runs : run[r].pc = "idle"
  BY <1>1 DEF Working
<1> QED
  BY <1>1, <1>2 DEF RunInv, InLine

LEMMA InitRuns == Init => RunInv
<1>1. SUFFICES ASSUME Init, NEW r \in Runs PROVE InLine(r)
  BY InitMail DEF RunInv
<1>2. run[r] = IdleRun /\ run[r].pc = "idle" /\ run[r].todo = {}
  BY <1>1 DEF Init, IdleRun
<1> QED
  BY <1>2 DEF InLine, Busy

LEMMA NextKeepsRuns == RunInv /\ [Next]_vars => RunInv'
<1> SUFFICES ASSUME RunInv, [Next]_vars PROVE RunInv'
  OBVIOUS
<1>1. MailInv'
  BY NextKeepsMail DEF RunInv
<1> SUFFICES ASSUME NEW s \in Runs PROVE InLine(s)'
  BY <1>1 DEF RunInv
<1>2. CASE UNCHANGED vars
  <2>1. InLine(s) /\ UNCHANGED <<run, event, mailer, settings>>
    BY <1>2 DEF vars, user, RunInv
  <2> QED
    BY <2>1 DEF InLine, Busy, IsAbout, Key, Current, DedupeKey, Settled, SaysSent, HasSent, KeyOf,
                Scheduled, Delivery
<1>3. CASE Outside
  <2>1. run'[s] = IdleRun /\ IdleRun.pc = "idle" /\ IdleRun.todo = {}
    BY <1>3, OutsideRuns DEF IdleRun
  <2> QED
    BY <1>1, <2>1 DEF InLine, Busy, IsAbout
<1>4. ASSUME NEW r \in Runs, RunStep(r) PROVE InLine(s)'
  BY <1>4, RunsKeepLine
<1> QED
  BY <1>1, <1>2, <1>3, <1>4 DEF Next, Outside, RunStep

-----------------------------------------------------------------------------
(* The types                                                               *)

TypeInv == RunInv /\ TypeOK /\ faults \in Nat /\ overlaps \in Nat

EventTyped == \A k \in DOMAIN event : /\ k \in Types \X Dates \X Nat
                                      /\ event[k] \in {"PENDING", "SENT", "SKIPPED", "FAILED"}

LEMMA KeysAreTyped ==
    ASSUME NEW m \in Reminder PROVE KeyOf(m) \in Types \X Dates \X Nat
<1>1. m.type \in Types /\ m.date \in Dates /\ m.before \in UNION {s.days : s \in SettingForms}
  BY DEF Reminder
<1>2. PICK s \in SettingForms : m.before \in s.days
  BY <1>1
<1>3. s.days \in SUBSET Nat
  BY RemindersAssumption
<1> QED
  BY <1>1, <1>2, <1>3 DEF KeyOf, DedupeKey

\* What TypeOK says of the runs follows from what holds of every run.
LEMMA RunsAreTyped ==
    ASSUME RunInv
    PROVE  /\ settings \in SettingForms /\ mails \in [Reminder -> Nat] /\ refused \subseteq Reminder
           /\ \A r \in Runs :
                /\ run[r].pc \in {"idle", "look", "create", "send", "mark", "fail"}
                /\ run[r].pc \in {"send", "mark", "fail"} => Key(r) \in DOMAIN event
                /\ run[r].pc = "mark" => run[r].status \in {"SENT", "SKIPPED"}
BY DEF RunInv, MailInv, RunState, InLine, Delivery

LEMMA RunsKeepTypes ==
    ASSUME TypeInv, NEW r \in Runs, RunStep(r)
    PROVE  TypeInv'
<1>1. RunInv' /\ RunInv
  BY NextKeepsRuns DEF TypeInv, RunStep, Next
<1>2. After(r) /\ MailInv /\ InLine(r)
  BY RunLeaves DEF TypeInv, RunInv
<1>3. EventTyped'
  <2>1. EventTyped
    BY DEF TypeInv, TypeOK, EventTyped
  <2>2. Busy(run[r]) => Key(r) \in Types \X Dates \X Nat
    BY <1>2, HandIsTyped, KeysAreTyped
  <2>3. CASE CreateEvent(r)
    <3>1. UNCHANGED event \/ event' = [k \in DOMAIN event \cup {Key(r)} |->
                                          IF k = Key(r) THEN "PENDING" ELSE event[k]]
      BY <2>3 DEF CreateEvent
    <3>2. Key(r) \in Types \X Dates \X Nat
      BY <2>2, <2>3 DEF CreateEvent, At, Busy
    <3>3. CASE UNCHANGED event
      BY <2>1, <3>3 DEF EventTyped
    <3>4. CASE event' = [k \in DOMAIN event \cup {Key(r)} |->
                            IF k = Key(r) THEN "PENDING" ELSE event[k]]
      <4>1. SUFFICES ASSUME NEW k \in DOMAIN event'
                     PROVE  /\ k \in Types \X Dates \X Nat
                            /\ event'[k] \in {"PENDING", "SENT", "SKIPPED", "FAILED"}
        BY DEF EventTyped
      <4>2. CASE k = Key(r)
        BY <3>2, <3>4, <4>2
      <4>3. CASE k # Key(r)
        BY <2>1, <3>4, <4>3 DEF EventTyped
      <4> QED
        BY <4>2, <4>3
    <3> QED
      BY <3>1, <3>3, <3>4
  <2>4. ASSUME NEW status \in {"SENT", "SKIPPED", "FAILED"}, MarkEvent(r, status) PROVE EventTyped'
    BY <2>1, <2>4 DEF EventTyped, MarkEvent
  <2>5. CASE MarkDelivery(r)
    <3>1. run[r].status \in {"SENT", "SKIPPED"} /\ MarkEvent(r, run[r].status)
      BY <1>1, <2>5, RunsAreTyped DEF MarkDelivery, At
    <3> QED
      BY <2>4, <3>1
  <2>6. CASE MarkFailed(r)
    <3>1. MarkEvent(r, "FAILED")
      BY <2>6 DEF MarkFailed
    <3> QED
      BY <2>4, <3>1
  <2>7. CASE UNCHANGED event
    BY <2>1, <2>7 DEF EventTyped
  <2>8. UNCHANGED event \/ CreateEvent(r) \/ MarkDelivery(r) \/ MarkFailed(r)
    BY DEF RunStep, StartRun, LookUp, SendMail, FinishRun, SendRefused, SendFails, MarkFails, CutRun, Failing
  <2> QED
    BY <2>3, <2>5, <2>6, <2>7, <2>8
<1>4. called' \in BOOLEAN /\ faults' \in Nat /\ overlaps' \in Nat
  <2>1. called \in BOOLEAN /\ faults \in Nat /\ overlaps \in Nat
    BY DEF TypeInv, TypeOK
  <2>2. CASE StartRun(r)
    <3>1. called' \in BOOLEAN
      BY <2>2, Zenon DEF StartRun
    <3> QED
      BY <2>1, <2>2, <3>1 DEF StartRun
  <2>3. CASE ~StartRun(r)
    <3>1. (faults' = faults \/ faults' = faults + 1) /\ UNCHANGED <<called, overlaps>>
      BY <2>3 DEF RunStep, LookUp, CreateEvent, SendMail, MarkDelivery, MarkFailed, FinishRun,
                      SendRefused, SendFails, MarkFails, CutRun, Failing
    <3> QED
      BY <2>1, <3>1
  <2> QED
    BY <2>2, <2>3
<1>5. /\ now' \in Nat /\ since' \in 0 .. now' /\ debt' \in DebtForms /\ mailer' \in BOOLEAN
  BY <1>2 DEF After, user, TypeInv, TypeOK
<1>6. settings' \in SettingForms /\ mails' \in [Reminder -> Nat] /\ refused' \subseteq Reminder
  BY <1>1 DEF RunInv, MailInv
<1>7. (\A s \in Runs :
         /\ run[s].pc \in {"idle", "look", "create", "send", "mark", "fail"}
         /\ run[s].pc \in {"send", "mark", "fail"} => Key(s) \in DOMAIN event
         /\ run[s].pc = "mark" => run[s].status \in {"SENT", "SKIPPED"})'
  BY <1>1 DEF RunInv, MailInv, RunState, InLine, Delivery
<1> QED
  BY <1>1, <1>3, <1>4, <1>5, <1>6, <1>7 DEF TypeInv, TypeOK, EventTyped

LEMMA InitTypes == Init => TypeInv
<1> SUFFICES ASSUME Init PROVE TypeInv
  OBVIOUS
<1>1. RunInv
  BY InitRuns
<1>2. now \in Nat /\ since \in 0 .. now /\ faults \in Nat /\ overlaps \in Nat
  BY DEF Init
<1>3. called \in BOOLEAN /\ debt \in DebtForms /\ mailer \in BOOLEAN /\ DOMAIN event = {}
  BY DEF Init
<1> QED
  BY <1>1, <1>2, <1>3, RunsAreTyped DEF TypeInv, TypeOK

LEMMA NextKeepsTypes == TypeInv /\ [Next]_vars => TypeInv'
<1> SUFFICES ASSUME TypeInv, [Next]_vars PROVE TypeInv'
  OBVIOUS
<1>1. RunInv'
  BY NextKeepsRuns DEF TypeInv
<1>2. ASSUME UNCHANGED <<event, run, mails, refused, faults, overlaps>>, now' \in Nat, since' \in 0 .. now',
             called' \in BOOLEAN, debt' \in DebtForms, settings' \in SettingForms,
             mailer' \in BOOLEAN
      PROVE  TypeInv'
  BY <1>1, <1>2 DEF TypeInv, TypeOK, Key, Current, DedupeKey
<1>3. CASE UNCHANGED vars
  BY <1>2, <1>3 DEF vars, user, TypeInv, TypeOK
<1>4. CASE Tick
  <2>1. now \in Nat /\ since \in 0 .. now
    BY DEF TypeInv, TypeOK
  <2>2. now' = now + 1 /\ since' = since /\ called' = FALSE
    BY <1>4 DEF Tick, user
  <2>3. now' \in Nat /\ since' \in 0 .. now'
    BY <2>1, <2>2
  <2> QED
    BY <1>2, <1>4, <2>2, <2>3 DEF Tick, user, TypeInv, TypeOK
<1>5. CASE ConfigureMailer
  BY <1>2, <1>5 DEF ConfigureMailer, Edited, TypeInv, TypeOK
<1>6. CASE \E form \in DebtForms : EditDebt(form)
  BY <1>2, <1>6 DEF EditDebt, Edited, TypeInv, TypeOK
<1>7. CASE \E form \in SettingForms : EditSettings(form)
  BY <1>2, <1>7 DEF EditSettings, Edited, TypeInv, TypeOK
<1>8. ASSUME NEW r \in Runs, RunStep(r) PROVE TypeInv'
  BY <1>8, RunsKeepTypes
<1> QED
  BY <1>3, <1>4, <1>5, <1>6, <1>7, <1>8 DEF Next, RunStep

(***************************************************************************)
(* The clock, the user's rows, the event rows and the runs keep their      *)
(* types; a run that is past its look-up of an event finds the row there   *)
(* (reminder-scheduler-service.ts updates it by its id, or would throw).    *)
(***************************************************************************)
THEOREM RemindersTyped == Spec => []TypeOK
<1>1. TypeInv => TypeOK
  BY DEF TypeInv
<1> QED
  BY <1>1, InitTypes, NextKeepsTypes, PTL DEF Spec

-----------------------------------------------------------------------------
(* What each reminder may still cost                                       *)

\* The runs that may yet mail m.
Yet(m) == {r \in Runs : /\ Keeps(run[r], m)
                        /\ ~(IsAbout(run[r], m) /\ run[r].pc \in {"mark", "fail"})}
Pending(m) == Cardinality(Yet(m))
Costs == faults + overlaps
Counted(m) == mails[m] + Pending(m)

\* The mails of m so far, and those that its runs may yet send, against the failures and
\* overlaps that pay for them.  A run begun after m was settled finds its event and mails nothing.
OnceInv(m) ==
    /\ (\E r \in Runs : HasFailed(run[r], m)) => Counted(m) <= Costs
    /\ ~Settled(m) => mails[m] <= Costs /\ Counted(m) <= 1 + Costs
    /\ Settled(m) => \/ Counted(m) <= 1 + Costs
                     \/ /\ Counted(m) <= 2 + Costs /\ SaysSent(m) /\ Yet(m) # {}
                        /\ \A r \in Runs : ~IsAbout(run[r], m)

CostInv == TypeInv /\ IsFiniteSet(Working) /\ \A m \in Reminder : OnceInv(m)

\* How many runs may yet mail a reminder.
LEMMA PendingIsCounted ==
    ASSUME MailInv, IsFiniteSet(Working), NEW m \in Reminder, \A r \in Runs : InLine(r)
    PROVE  /\ IsFiniteSet(Yet(m)) /\ Pending(m) \in Nat /\ (Pending(m) = 0 <=> Yet(m) = {})
           /\ Yet(m) \subseteq Working
<1>1. Yet(m) \subseteq Working
  BY DEF Yet, Keeps, Working, InLine, IdleRun
<1>2. IsFiniteSet(Yet(m))
  BY <1>1, FS_Subset
<1> QED
  BY <1>1, <1>2, FS_CardinalityType, FS_EmptySet DEF Pending

LEMMA WorkingMoves ==
    ASSUME MailInv, NEW r \in Runs, After(r), IsFiniteSet(Working)
    PROVE  IsFiniteSet(Working)' /\ Working' \subseteq Working \cup {r}
<1>1. Working' \subseteq Working \cup {r}
  BY DEF After, Working
<1>2. IsFiniteSet(Working \cup {r})
  BY FS_AddElement
<1> QED
  BY <1>1, <1>2, FS_Subset

\* One run's step adds it to those that may yet mail m, removes it or does neither.
LEMMA PendingMoves ==
    ASSUME CostInv, NEW r \in Runs, After(r), RunInv', NEW m \in Reminder
    PROVE  /\ Pending(m) \in Nat /\ Pending(m)' \in Nat
           /\ (Pending(m) = 0 <=> Yet(m) = {}) /\ (Pending(m)' = 0 <=> Yet(m)' = {})
           /\ (r \in Yet(m) <=> r \in Yet(m)') => Pending(m)' = Pending(m)
           /\ r \in Yet(m) /\ r \notin Yet(m)' => Pending(m)' = Pending(m) - 1
           /\ r \notin Yet(m) /\ r \in Yet(m)' => Pending(m)' = Pending(m) + 1
<1>1. MailInv /\ IsFiniteSet(Working) /\ \A s \in Runs : InLine(s)
  BY DEF CostInv, TypeInv, RunInv
<1>2. IsFiniteSet(Yet(m)) /\ Pending(m) \in Nat /\ (Pending(m) = 0 <=> Yet(m) = {})
  BY <1>1, PendingIsCounted
<1>3. \A s \in Runs \ {r} : s \in Yet(m) <=> s \in Yet(m)'
  BY DEF After, Yet, Keeps, IsAbout, Busy
<1>4. Yet(m) \subseteq Runs /\ Yet(m)' \subseteq Runs
  BY DEF Yet
<1>5. CASE r \in Yet(m) <=> r \in Yet(m)'
  <2>1. Yet(m)' = Yet(m)
    BY <1>3, <1>4, <1>5
  <2> QED
    BY <1>2, <2>1 DEF Pending
<1>6. CASE r \in Yet(m) /\ r \notin Yet(m)'
  <2>1. Yet(m)' = Yet(m) \ {r}
    BY <1>3, <1>4, <1>6
  <2>2. IsFiniteSet(Yet(m)') /\ Pending(m)' = Pending(m) - 1
    BY <1>2, <1>6, <2>1, FS_RemoveElement DEF Pending
  <2> QED
    BY <1>2, <1>6, <2>2, FS_CardinalityType, FS_EmptySet DEF Pending
<1>7. CASE r \notin Yet(m) /\ r \in Yet(m)'
  <2>1. Yet(m)' = Yet(m) \cup {r}
    BY <1>3, <1>4, <1>7
  <2>2. Pending(m)' = Pending(m) + 1
    BY <1>2, <1>7, <2>1, FS_AddElement DEF Pending
  <2> QED
    BY <1>2, <1>7, <2>2
<1> QED
  BY <1>5, <1>6, <1>7

\* Whatever may still be mailed is paid for.
LEMMA Paid ==
    ASSUME NEW m \in Reminder, mails[m]' \in Nat, Pending(m)' \in Nat, Costs' \in Nat,
           Counted(m)' <= Costs'
    PROVE  OnceInv(m)'
BY DEF OnceInv, Counted

\* A step that neither mails m, nor settles it, nor lets one more run mail it.
LEMMA Quiet ==
    ASSUME CostInv, NEW r \in Runs, After(r), RunInv', NEW m \in Reminder,
           mails'[m] = mails[m], Costs' \in Nat, Costs' >= Costs,
           r \in Yet(m)' => r \in Yet(m),
           SaysSent(m)' <=> SaysSent(m), HasSent(run'[r], m) <=> HasSent(run[r], m),
           HasFailed(run'[r], m) => HasFailed(run[r], m),
           IsAbout(run'[r], m) => IsAbout(run[r], m) \/ ~SaysSent(m)
    PROVE  OnceInv(m)'
<1>1. /\ Pending(m) \in Nat /\ Pending(m)' \in Nat /\ Pending(m)' <= Pending(m)
      /\ Pending(m)' = Pending(m) /\ Yet(m) # {} => Yet(m)' # {}
  BY PendingMoves
<1>2. Settled(m)' <=> Settled(m)
  BY DEF Settled, After, HasSent, SaysSent
<1>3. (\E s \in Runs : HasFailed(run'[s], m)) => \E s \in Runs : HasFailed(run[s], m)
  BY DEF After
<1>4. SaysSent(m) /\ (\A s \in Runs : ~IsAbout(run[s], m)) => \A s \in Runs : ~IsAbout(run'[s], m)
  BY DEF After
<1>5. Costs \in Nat /\ mails[m] \in Nat /\ OnceInv(m)
  BY DEF CostInv, TypeInv, TypeOK, Costs
<1>6. Counted(m)' = mails[m] + Pending(m)' /\ Counted(m)' <= Counted(m)
  BY <1>1, <1>5 DEF Counted
<1>7. Pending(m)' # Pending(m) => Counted(m)' + 1 <= Counted(m)
  BY <1>1, <1>5, <1>6 DEF Counted
<1>8. Counted(m) \in Nat /\ Counted(m)' \in Nat
  BY <1>1, <1>5, <1>6 DEF Counted
<1>9. (\E s \in Runs : HasFailed(run'[s], m)) => Counted(m)' <= Costs'
  BY <1>3, <1>5, <1>6, <1>8 DEF OnceInv
<1>10. ~Settled(m)' => mails'[m] <= Costs' /\ Counted(m)' <= 1 + Costs'
  BY <1>2, <1>5, <1>6, <1>8 DEF OnceInv
<1>11. Settled(m)' => \/ Counted(m)' <= 1 + Costs'
                      \/ /\ Counted(m)' <= 2 + Costs' /\ SaysSent(m)' /\ Yet(m)' # {}
                         /\ \A s \in Runs : ~IsAbout(run'[s], m)
  <2>1. CASE Settled(m) /\ Counted(m) > 1 + Costs
    <3>1. Counted(m) <= 2 + Costs /\ SaysSent(m) /\ Yet(m) # {} /\ \A s \in Runs : ~IsAbout(run[s], m)
      BY <1>5, <1>8, <2>1 DEF OnceInv
    <3>2. CASE Pending(m)' = Pending(m)
      BY <1>1, <1>4, <1>5, <1>6, <1>8, <3>1, <3>2
    <3>3. CASE Pending(m)' # Pending(m)
      BY <1>5, <1>7, <1>8, <3>1, <3>3
    <3> QED
      BY <3>2, <3>3
  <2>2. CASE Settled(m) /\ Counted(m) <= 1 + Costs
    BY <1>5, <1>6, <1>8, <2>2
  <2> QED
    BY <1>2, <1>5, <1>8, <2>1, <2>2
<1> QED
  BY <1>9, <1>10, <1>11 DEF OnceInv, IsAbout, Busy, HasFailed

\* A failure: the reply that nobody reads is one.
Fails(r) == SendRefused(r) \/ SendFails(r) \/ MarkFails(r) \/ CutRun(r)

\* What a step of a run costs.
LEMMA CostMoves ==
    ASSUME CostInv, NEW r \in Runs, RunStep(r)
    PROVE  /\ Costs \in Nat /\ Costs' \in Nat /\ Costs' >= Costs
           /\ Fails(r) => Costs' = Costs + 1
           /\ StartRun(r) /\ Working # {} => Costs' = Costs + 1
<1>1. faults \in Nat /\ overlaps \in Nat
  BY DEF CostInv, TypeInv
<1>2. /\ faults' \in Nat /\ overlaps' \in Nat /\ faults' >= faults /\ overlaps' >= overlaps
      /\ Fails(r) => faults' = faults + 1 /\ overlaps' = overlaps
      /\ StartRun(r) /\ Working # {} => faults' = faults /\ overlaps' = overlaps + 1
  <2>1. CASE StartRun(r)
    <3>1. ~Fails(r)
      BY <2>1 DEF StartRun, Fails, SendRefused, SendFails, MarkFails, CutRun, At
    <3> QED
      BY <1>1, <2>1, <3>1 DEF StartRun
  <2>2. CASE Fails(r)
    <3>1. ~StartRun(r)
      BY <2>2 DEF StartRun, Fails, SendRefused, SendFails, MarkFails, CutRun, At
    <3> QED
      BY <1>1, <2>2, <3>1 DEF Fails, SendRefused, SendFails, MarkFails, CutRun, Failing
  <2>3. CASE ~(StartRun(r) \/ Fails(r))
    <3>1. UNCHANGED <<faults, overlaps>>
      BY <2>3 DEF RunStep, LookUp, CreateEvent, SendMail, MarkDelivery, MarkFailed, FinishRun,
                  Fails
    <3> QED
      BY <1>1, <2>3, <3>1
  <2> QED
    BY <2>1, <2>2, <2>3
<1>3. Costs \in Nat /\ Costs' \in Nat /\ Costs' >= Costs
  <2>1. faults' \in Nat /\ overlaps' \in Nat
    BY <1>2
  <2>2. Costs \in Nat
    BY <1>1 DEF Costs
  <2>3. \A i, j, k, l \in Nat : i + j \in Nat /\ (k >= i /\ l >= j => k + l >= i + j)
    OBVIOUS
  <2>4. Costs' \in Nat
    BY <2>1, <2>3, Zenon DEF Costs
  <2>5. Costs' >= Costs
    BY <1>1, <1>2, <2>1, <2>3 DEF Costs
  <2> QED
    BY <2>2, <2>4, <2>5
<1>4. ASSUME Fails(r) PROVE Costs' = Costs + 1
  <2>1. faults' = faults + 1 /\ overlaps' = overlaps
    BY <1>2, <1>4
  <2> QED
    BY <1>1, <2>1 DEF Costs
<1>5. ASSUME StartRun(r), Working # {} PROVE Costs' = Costs + 1
  <2>1. faults' = faults /\ overlaps' = overlaps + 1
    BY <1>2, <1>5
  <2> QED
    BY <1>1, <2>1 DEF Costs
<1> QED
  BY <1>3, <1>4, <1>5

\* What there is to know of a step of a run, for the lemmas below.
LEMMA StepFacts ==
    ASSUME CostInv, NEW r \in Runs, RunStep(r)
    PROVE  /\ RunInv /\ MailInv /\ InLine(r) /\ run[r] \in RunState /\ mails \in [Reminder -> Nat]
           /\ After(r) /\ RunInv' /\ mails' \in [Reminder -> Nat]
           /\ Costs \in Nat /\ Costs' \in Nat /\ Costs' >= Costs
<1>1. RunInv /\ MailInv /\ InLine(r) /\ run[r] \in RunState /\ mails \in [Reminder -> Nat]
  BY DEF CostInv, TypeInv, RunInv, MailInv
<1>2. RunInv'
  BY <1>1, NextKeepsRuns DEF RunStep, Next
<1>3. mails' \in [Reminder -> Nat]
  BY <1>2 DEF RunInv, MailInv
<1> QED
  BY <1>1, <1>2, <1>3, RunLeaves, CostMoves

LEMMA StartCosts ==
    ASSUME CostInv, NEW r \in Runs, StartRun(r), NEW m \in Reminder
    PROVE  OnceInv(m)'
<1>1. RunStep(r)
  BY DEF RunStep
<1>2. /\ RunInv /\ MailInv /\ InLine(r) /\ run[r] \in RunState /\ After(r) /\ RunInv'
      /\ Costs \in Nat /\ Costs' \in Nat /\ Costs' >= Costs /\ mails \in [Reminder -> Nat]
  BY <1>1, StepFacts
<1>3. run[r] = IdleRun /\ run[r].pc = "idle" /\ run[r].todo = {} /\ run'[r].pc = "look"
  <2>1. run'[r] = Started
    BY <1>2, Others DEF StartRun, Started, Listed, Owed, Becomes
  <2> QED
    BY <1>2, <2>1, StartedFields DEF StartRun, At, InLine, IdleRun
<1>4. UNCHANGED <<mails, event>>
  BY DEF StartRun
<1>5. SaysSent(m)' <=> SaysSent(m)
  BY <1>4 DEF SaysSent, KeyOf, DedupeKey
<1>6. \A s \in Runs : /\ HasSent(run'[s], m) <=> HasSent(run[s], m)
                      /\ HasFailed(run'[s], m) <=> HasFailed(run[s], m)
                      /\ IsAbout(run'[s], m) <=> IsAbout(run[s], m)
  BY <1>2, <1>3 DEF After, HasSent, HasFailed, IsAbout, Busy
<1>7. Settled(m)' <=> Settled(m)
  BY <1>5, <1>6 DEF Settled, HasSent
<1>8. /\ Pending(m) \in Nat /\ Pending(m)' \in Nat /\ Pending(m)' <= Pending(m) + 1
      /\ (Pending(m) = 0 <=> Yet(m) = {}) /\ (Pending(m)' = 0 <=> Yet(m)' = {})
      /\ Pending(m)' >= Pending(m)
  <2>1. r \notin Yet(m)
    BY <1>3 DEF Yet, Keeps
  <2> QED
    BY <1>2, <2>1, PendingMoves
<1>9. mails[m] \in Nat /\ Counted(m) = mails[m] + Pending(m) /\ Counted(m)' = mails[m] + Pending(m)'
  BY <1>2, <1>4 DEF Counted
<1>10. OnceInv(m)
  BY DEF CostInv
<1>11. CASE Working = {}
  <2>1. Yet(m) = {} /\ \A s \in Runs : ~IsAbout(run[s], m) /\ ~HasFailed(run[s], m)
                                       /\ ~HasSent(run[s], m)
    <3>1. \A s \in Runs : run[s].pc = "idle"
      BY <1>11 DEF Working
    <3>2. Yet(m) = {}
      BY <1>2, <1>11, PendingIsCounted DEF CostInv, RunInv
    <3> QED
      BY <3>1, <3>2 DEF IsAbout, HasFailed, HasSent, Busy
  <2>2. Pending(m) = 0 /\ (Settled(m) <=> SaysSent(m))
    BY <1>8, <2>1 DEF Settled
  <2>3. mails[m] <= Costs \/ (SaysSent(m) /\ mails[m] <= 1 + Costs)
    BY <1>2, <1>9, <1>10, <2>1, <2>2 DEF OnceInv
  <2>4. ~(\E s \in Runs : HasFailed(run'[s], m))
    BY <1>6, <2>1
  <2>5. ~Settled(m)' => mails'[m] <= Costs' /\ Counted(m)' <= 1 + Costs'
    <3>1. SUFFICES ASSUME ~Settled(m) PROVE mails[m] <= Costs' /\ Counted(m)' <= 1 + Costs'
      BY <1>4, <1>7
    <3>2. mails[m] <= Costs
      BY <2>2, <2>3, <3>1
    <3> QED
      BY <1>2, <1>8, <1>9, <2>2, <3>2
  <2>6. Settled(m)' => \/ Counted(m)' <= 1 + Costs'
                       \/ /\ Counted(m)' <= 2 + Costs' /\ SaysSent(m)' /\ Yet(m)' # {}
                          /\ \A s \in Runs : ~IsAbout(run'[s], m)
    <3>1. mails[m] <= 1 + Costs
      BY <1>2, <1>9, <2>3
    <3> QED
      BY <1>2, <1>5, <1>6, <1>7, <1>8, <1>9, <2>1, <2>2, <3>1
  <2> QED
    BY <2>4, <2>5, <2>6 DEF OnceInv, IsAbout, HasFailed, Busy
<1>12. CASE Working # {}
  <2>1. Costs' = Costs + 1
    BY <1>1, <1>12, CostMoves
  <2>2. Counted(m)' <= Counted(m) + 1 /\ Counted(m) \in Nat /\ Counted(m)' \in Nat
    BY <1>8, <1>9
  <2>3. (\E s \in Runs : HasFailed(run'[s], m)) => Counted(m)' <= Costs'
    BY <1>2, <1>6, <1>10, <2>1, <2>2 DEF OnceInv
  <2>4. ~Settled(m)' => mails'[m] <= Costs' /\ Counted(m)' <= 1 + Costs'
    BY <1>2, <1>4, <1>7, <1>9, <1>10, <2>1, <2>2 DEF OnceInv
  <2>5. Settled(m)' => \/ Counted(m)' <= 1 + Costs'
                       \/ /\ Counted(m)' <= 2 + Costs' /\ SaysSent(m)' /\ Yet(m)' # {}
                          /\ \A s \in Runs : ~IsAbout(run'[s], m)
    BY <1>2, <1>5, <1>6, <1>7, <1>8, <1>10, <2>1, <2>2 DEF OnceInv
  <2> QED
    BY <2>3, <2>4, <2>5 DEF OnceInv, IsAbout, HasFailed, Busy
<1> QED
  BY <1>11, <1>12

\* A run takes the next reminder of its list, unless its event says that it was sent.
LEMMA LookUpCosts ==
    ASSUME CostInv, NEW r \in Runs, LookUp(r), NEW m \in Reminder
    PROVE  OnceInv(m)'
<1>1. RunStep(r)
  BY DEF RunStep
<1>2. /\ RunInv /\ MailInv /\ InLine(r) /\ run[r] \in RunState /\ After(r) /\ RunInv'
      /\ Costs \in Nat /\ Costs' \in Nat /\ Costs' >= Costs /\ mails \in [Reminder -> Nat]
  BY <1>1, StepFacts
<1>3. UNCHANGED <<mails, event>> /\ run[r].pc = "look"
  BY DEF LookUp, At
<1>4. SaysSent(m)' <=> SaysSent(m)
  BY <1>3 DEF SaysSent, KeyOf, DedupeKey
<1>5. PICK c \in run[r].todo : IF IsDone(DedupeKey(c)) THEN Becomes(r, Skipping(run[r], c))
                                                       ELSE Becomes(r, Taking(run[r], c))
  BY <1>2 DEF LookUp, Becomes, Skipping, Taking, MailInv
<1>6. c \in Candidate /\ KeyOf(c.reminder) = DedupeKey(c)
  BY <1>2 DEF RunState, KeyOf, DedupeKey
<1>7. CASE IsDone(DedupeKey(c))
  <2>1. run'[r].todo = run[r].todo \ {c} /\ run'[r].pc = "look"
    BY <1>2, <1>3, <1>5, <1>7, Others, SkippingFields
  <2>2. r \in Yet(m)' => r \in Yet(m)
    BY <1>3, <2>1 DEF Yet, Keeps, IsAbout, Busy
  <2> QED
    BY <1>2, <1>3, <1>4, <2>1, <2>2, Quiet DEF HasSent, HasFailed, IsAbout, Busy
<1>8. CASE ~IsDone(DedupeKey(c))
  <2>1. /\ run'[r].todo = run[r].todo /\ run'[r].current = c
        /\ run'[r].pc \in {"create", "send"}
    BY <1>2, <1>5, <1>6, <1>8, Others, TakingFields
  <2>2. r \in Yet(m)' => r \in Yet(m)
    BY <1>3, <2>1 DEF Yet, Keeps, IsAbout, Busy
  <2>3. ~SaysSent(c.reminder)
    BY <1>6, <1>8 DEF SaysSent, IsDone
  <2> QED
    BY <1>2, <1>3, <1>4, <2>1, <2>2, <2>3, Quiet DEF HasSent, HasFailed, IsAbout, Busy
<1> QED
  BY <1>7, <1>8

\* The run ends, or drops what it had in hand, without mailing it.
LEMMA DropCosts ==
    ASSUME CostInv, NEW r \in Runs, NEW m \in Reminder, RunStep(r), UNCHANGED mails,
           SaysSent(m)' <=> SaysSent(m), run'[r].todo \subseteq run[r].todo,
           ~HasSent(run[r], m), ~Busy(run'[r]), 
           r \in Yet(m)' => ~(IsAbout(run[r], m) /\ run[r].pc \in {"mark", "fail"})
    PROVE  OnceInv(m)'
<1>1. /\ After(r) /\ RunInv' /\ Costs' \in Nat /\ Costs' >= Costs /\ mails \in [Reminder -> Nat]
  BY StepFacts
<1>2. r \in Yet(m)' => r \in Yet(m)
  BY DEF Yet, Keeps
<1> QED
  BY <1>1, <1>2, Quiet DEF HasSent, HasFailed, IsAbout, Busy

\* What a run has in hand is on its list once: to drop it is to drop the reminder.
LEMMA TurnDrops ==
    ASSUME RunInv, NEW r \in Runs, NEW m \in Reminder, IsAbout(run[r], m),
           NEW c \in run[r].todo \ {run[r].current}
    PROVE  c.reminder # m
<1>1. run[r].current \in run[r].todo
  BY DEF RunInv, InLine, IsAbout
<1> QED
  BY <1>1, ListedOnce DEF IsAbout

\* The steps by which a run gives up or is done with the reminder it has in hand, without mailing.
LEMMA EndCosts ==
    ASSUME CostInv, NEW r \in Runs, NEW m \in Reminder,
           FinishRun(r) \/ (CreateEvent(r) /\ Key(r) \in DOMAIN event)
    PROVE  OnceInv(m)'
<1>1. RunStep(r) /\ ~MarkDelivery(r) /\ ~MarkFailed(r)
  BY DEF RunStep, FinishRun, CreateEvent, MarkDelivery, MarkFailed, At
<1>2. MailInv /\ Becomes(r, IdleRun) /\ UNCHANGED mails /\ run[r].pc \in {"look", "create"}
  BY <1>1, StepFacts DEF FinishRun, CreateEvent, Becomes, Stop, At
<1>3. run'[r] = IdleRun /\ IdleRun.todo = {} /\ IdleRun.pc = "idle"
  BY <1>2, Others DEF IdleRun
<1>4. SaysSent(m)' <=> SaysSent(m)
  BY <1>1, <1>2, EventsMove
<1> QED
  BY <1>1, <1>2, <1>3, <1>4, DropCosts DEF HasSent, Busy

LEMMA CreateCosts ==
    ASSUME CostInv, NEW r \in Runs, NEW m \in Reminder, CreateEvent(r), Key(r) \notin DOMAIN event
    PROVE  OnceInv(m)'
<1>1. RunStep(r) /\ ~MarkDelivery(r) /\ ~MarkFailed(r)
  BY DEF RunStep, CreateEvent, MarkDelivery, MarkFailed, At
<1>2. /\ MailInv /\ Becomes(r, Going(run[r], "send")) /\ UNCHANGED mails /\ run[r].pc = "create"
      /\ run[r] \in RunState /\ After(r) /\ RunInv' /\ Costs' \in Nat /\ Costs' >= Costs
  BY <1>1, StepFacts DEF CreateEvent, Becomes, Goto, Going, At, MailInv
<1>3. /\ run'[r].todo = run[r].todo /\ run'[r].current = run[r].current /\ run'[r].pc = "send"
  BY <1>2, Others, GoingFields
<1>4. SaysSent(m)' <=> SaysSent(m)
  BY <1>1, <1>2, EventsMove
<1>5. r \in Yet(m)' => r \in Yet(m)
  BY <1>2, <1>3 DEF Yet, Keeps, IsAbout, Busy
<1> QED
  BY <1>1, <1>2, <1>3, <1>4, <1>5, Quiet DEF HasSent, HasFailed, IsAbout, Busy

LEMMA SendCosts ==
    ASSUME CostInv, NEW r \in Runs, NEW m \in Reminder, SendMail(r)
    PROVE  OnceInv(m)'
<1>1. RunStep(r) /\ ~MarkDelivery(r) /\ ~MarkFailed(r)
  BY DEF RunStep, SendMail, MarkDelivery, MarkFailed, At
<1>2. /\ MailInv /\ Becomes(r, Sending(run[r])) /\ run[r].pc = "send" /\ InLine(r) /\ RunInv
      /\ run[r] \in RunState /\ After(r) /\ RunInv' /\ Costs \in Nat /\ Costs' \in Nat
      /\ Costs' >= Costs /\ mails \in [Reminder -> Nat] /\ OnceInv(m)
  BY <1>1, StepFacts DEF SendMail, Delivered, Becomes, Sending, At, MailInv, CostInv
<1>3. /\ run'[r].todo = run[r].todo /\ run'[r].current = run[r].current /\ run'[r].pc = "mark"
      /\ run'[r].status = Delivery(mailer)
  BY <1>2, Others, SendingFields
<1>4. SaysSent(m)' <=> SaysSent(m)
  BY <1>1, <1>2, EventsMove
<1>5. r \in Yet(m)' => r \in Yet(m)
  BY <1>2, <1>3 DEF Yet, Keeps, IsAbout, Busy
<1>6. run[r].current.reminder \in Reminder /\ Busy(run[r]) /\ run[r].current \in run[r].todo
  BY <1>2, HandIsTyped DEF Busy, InLine
<1>7. CASE ~IsAbout(run[r], m)
  <2>1. run[r].current.reminder # m
    BY <1>6, <1>7 DEF IsAbout
  <2>2. mails'[m] = mails[m]
    BY <1>2, <1>6, <2>1 DEF SendMail, Accepted, Current
  <2> QED
    BY <1>1, <1>2, <1>3, <1>4, <1>5, <2>1, <2>2, Quiet DEF HasSent, HasFailed, IsAbout
<1>8. CASE IsAbout(run[r], m)
  <2>1. r \in Yet(m) /\ r \notin Yet(m)'
    BY <1>2, <1>3, <1>6, <1>8 DEF Yet, Keeps, IsAbout, Busy
  <2>2. Pending(m) \in Nat /\ Pending(m)' \in Nat /\ Pending(m)' = Pending(m) - 1
    BY <1>2, <2>1, PendingMoves
  <2>3. mails[m] \in Nat /\ Counted(m) = mails[m] + Pending(m) /\ Counted(m) <= 1 + Costs
    BY <1>2, <1>8, <2>2 DEF Counted, OnceInv
  <2>4. \A s \in Runs : HasFailed(run'[s], m) => HasFailed(run[s], m)
    BY <1>2, <1>3 DEF After, HasFailed
  <2>5. CASE mailer
    <3>1. mails'[m] = mails[m] + 1
      BY <1>2, <1>6, <1>8, <2>5 DEF SendMail, Accepted, Current, IsAbout
    <3>2. Counted(m)' = Counted(m)
      BY <2>2, <2>3, <3>1 DEF Counted
    <3>3. Settled(m)'
      <4>1. HasSent(run'[r], m)
        BY <1>3, <1>8, <2>5 DEF HasSent, Delivery, IsAbout
      <4> QED
        BY <4>1 DEF Settled, HasSent
    <3>4. (\E s \in Runs : HasFailed(run'[s], m)) => Counted(m)' <= Costs'
      <4>1. Counted(m) \in Nat
        BY <2>2, <2>3
      <4> QED
        BY <1>2, <2>4, <3>2, <4>1 DEF OnceInv
    <3>5. Counted(m)' <= 1 + Costs'
      BY <1>2, <2>2, <2>3, <3>2
    <3> QED
      BY <3>3, <3>4, <3>5 DEF OnceInv, HasFailed
  <2>6. CASE ~mailer
    <3>1. mails'[m] = mails[m]
      BY <2>6 DEF SendMail
    <3>2. ~Settled(m) /\ ~Settled(m)'
      BY <1>1, <1>2, <1>8, <2>6, SettledMoves DEF InLine
    <3>3. Counted(m)' = Counted(m) - 1 /\ Counted(m) \in Nat
      BY <2>2, <2>3, <3>1 DEF Counted
    <3>4. (\E s \in Runs : HasFailed(run'[s], m)) => Counted(m)' <= Costs'
      BY <1>2, <2>3, <2>4, <3>3 DEF OnceInv
    <3>5. mails'[m] <= Costs' /\ Counted(m)' <= 1 + Costs'
      BY <1>2, <2>2, <2>3, <3>1, <3>2, <3>3 DEF OnceInv
    <3> QED
      BY <3>2, <3>4, <3>5 DEF OnceInv, HasFailed
  <2> QED
    BY <2>5, <2>6
<1> QED
  BY <1>7, <1>8

\* Another candidate is taken up.
LEMMA TurnCosts ==
    ASSUME CostInv, NEW r \in Runs, NEW m \in Reminder, MarkDelivery(r) \/ MarkFailed(r)
    PROVE  OnceInv(m)'
<1>1. RunStep(r) /\ run[r].pc \in {"mark", "fail"} /\ UNCHANGED mails
  BY DEF RunStep, MarkDelivery, MarkFailed, At
<1>2. /\ MailInv /\ InLine(r) /\ RunInv
      /\ run[r] \in RunState /\ After(r) /\ RunInv' /\ Costs \in Nat /\ Costs' \in Nat
      /\ Costs' >= Costs /\ mails \in [Reminder -> Nat] /\ OnceInv(m)
  BY <1>1, StepFacts DEF CostInv
<1>3. run'[r].todo = run[r].todo \ {run[r].current} /\ run'[r].pc = "look"
  <2>1. CASE MarkDelivery(r)
    <3>1. Becomes(r, Turning(run[r], run[r].status = "SENT"))
      BY <1>2, <2>1 DEF MarkDelivery, NextCandidate, Turning, Current, MailInv, Becomes
    <3>2. (run[r].status = "SENT") \in BOOLEAN
      OBVIOUS
    <3>3. run'[r] = Turning(run[r], run[r].status = "SENT")
      BY <1>2, <3>1, Others
    <3> DEFINE sent == run[r].status = "SENT"
    <3> HIDE DEF sent
    <3>4. run'[r] = Turning(run[r], sent) /\ sent \in BOOLEAN
      BY <3>2, <3>3 DEF sent
    <3> QED
      BY <1>2, <3>4, TurningFields
  <2>2. CASE MarkFailed(r)
    <3>1. Becomes(r, Turning(run[r], FALSE))
      BY <1>2, <2>2 DEF MarkFailed, NextCandidate, Turning, Current, MailInv, Becomes
    <3>2. run'[r] = Turning(run[r], FALSE)
      BY <1>2, <3>1, Others
    <3> QED
      BY <1>2, <3>2, TurningFields
  <2> QED
    BY <2>1, <2>2
<1>4. CASE ~IsAbout(run[r], m)
  <2>1. SaysSent(m)' <=> SaysSent(m)
    BY <1>1, <1>2, <1>4, EventsMove
  <2> QED
    BY <1>1, <1>3, <1>4, <2>1, DropCosts DEF HasSent, Busy, IsAbout
<1>5. CASE IsAbout(run[r], m)
  <2>1. r \notin Yet(m) /\ r \notin Yet(m)'
    BY <1>1, <1>2, <1>3, <1>5, TurnDrops DEF Yet, Keeps
  <2>2. Pending(m) \in Nat /\ Pending(m)' = Pending(m)
    BY <1>2, <2>1, PendingMoves
  <2>3. mails[m] \in Nat /\ Counted(m)' = Counted(m) /\ Counted(m) = mails[m] + Pending(m)
    BY <1>1, <1>2, <2>2 DEF Counted
  <2>4. CASE MarkFailed(r)
    <3>1. HasFailed(run[r], m)
      BY <1>5, <2>4 DEF HasFailed, IsAbout, MarkFailed, At
    <3>2. Counted(m)' <= Costs'
      BY <1>2, <2>2, <2>3, <3>1 DEF OnceInv
    <3> QED
      BY <1>1, <1>2, <2>2, <2>3, <3>2, Paid
  <2>5. CASE MarkDelivery(r)
    <3>1. SaysSent(m)' <=> run[r].status = "SENT"
      <4>1. KeyOf(m) \in DOMAIN event
        BY <1>1, <1>2, <1>5, HandIsTyped DEF InLine, IsAbout
      <4> QED
        BY <1>1, <1>2, <1>5, <2>5, <4>1, EventsMove
    <3>2. Counted(m) <= 1 + Costs
      BY <1>2, <1>5, <2>3 DEF OnceInv
    <3>3. \A s \in Runs : HasFailed(run'[s], m) => HasFailed(run[s], m)
      BY <1>2, <1>3 DEF After, HasFailed
    <3>4. (\E s \in Runs : HasFailed(run'[s], m)) => Counted(m)' <= Costs'
      BY <1>2, <2>2, <2>3, <3>3 DEF OnceInv
    <3>5. Counted(m)' <= 1 + Costs'
      BY <1>2, <2>2, <2>3, <3>2
    <3>6. CASE run[r].status = "SENT"
      BY <3>1, <3>4, <3>5, <3>6 DEF OnceInv, HasFailed, Settled
    <3>7. CASE run[r].status # "SENT"
      <4>1. ~mailer /\ run[r].pc = "mark"
        BY <1>2, <2>5, <3>7 DEF InLine, Delivery, MarkDelivery, At
      <4>2. ~Settled(m) /\ ~Settled(m)'
        BY <1>1, <1>2, <1>5, <4>1, SettledMoves DEF InLine
      <4>3. mails'[m] <= Costs'
        BY <1>1, <1>2, <2>3, <4>2 DEF OnceInv
      <4> QED
        BY <3>4, <3>5, <4>2, <4>3 DEF OnceInv, HasFailed
    <3> QED
      BY <3>6, <3>7
  <2> QED
    BY <2>4, <2>5
<1> QED
  BY <1>4, <1>5

\* A failure pays for the mail it may have sent, and for the one that is left to be sent again.
LEMMA FailureCosts ==
    ASSUME CostInv, NEW r \in Runs, NEW m \in Reminder, Fails(r)
    PROVE  OnceInv(m)'
<1>1. RunStep(r) /\ UNCHANGED event /\ run[r].pc # "idle"
  BY DEF RunStep, Fails, SendRefused, SendFails, MarkFails, CutRun, Failing, At
<1>2. /\ MailInv /\ InLine(r) /\ RunInv
      /\ run[r] \in RunState /\ After(r) /\ RunInv' /\ Costs \in Nat /\ Costs' \in Nat
      /\ Costs' = Costs + 1 /\ mails \in [Reminder -> Nat] /\ mails' \in [Reminder -> Nat]
      /\ OnceInv(m)
  BY <1>1, StepFacts, CostMoves DEF CostInv
<1>3. \/ run'[r].todo = {} /\ run'[r].pc = "idle"
      \/ /\ run'[r].todo = run[r].todo /\ run'[r].pc = "fail" /\ run'[r].current = run[r].current
         /\ run[r].pc \in {"send", "mark"}
      \/ /\ run'[r].todo = run[r].todo /\ run'[r].pc = "mark" /\ run'[r].current = run[r].current
         /\ run[r].pc = "send" /\ UNCHANGED mails
  <2>1. CASE CutRun(r)
    <3>1. run'[r] = IdleRun
      BY <1>2, <2>1, Others DEF CutRun, Stop, Becomes
    <3> QED
      BY <3>1 DEF IdleRun
  <2>2. CASE SendFails(r) \/ MarkFails(r)
    <3>1. Becomes(r, Going(run[r], "fail")) /\ run[r].pc \in {"send", "mark"}
      BY <1>2, <2>2 DEF SendFails, MarkFails, Goto, Going, Becomes, MailInv, At
    <3> QED
      BY <1>2, <3>1, Others, GoingFields
  <2>3. CASE SendRefused(r)
    <3>1. Becomes(r, Sending(run[r])) /\ run[r].pc = "send" /\ UNCHANGED mails
      BY <1>2, <2>3 DEF SendRefused, Delivered, Sending, Becomes, MailInv, At
    <3> QED
      BY <1>2, <3>1, Others, SendingFields
  <2> QED
    BY <2>1, <2>2, <2>3 DEF Fails
<1>4. SaysSent(m)' <=> SaysSent(m)
  BY <1>1 DEF SaysSent, KeyOf, DedupeKey
<1>5. r \in Yet(m)' => r \in Yet(m)
  BY <1>3 DEF Yet, Keeps, IsAbout, Busy
<1>6. CASE ~IsAbout(run[r], m)
  <2>1. mails'[m] = mails[m]
    <3>1. CASE SendFails(r)
      <4>1. run[r].current.reminder # m
        BY <1>6, <3>1 DEF SendFails, At, IsAbout, Busy
      <4>2. run[r].current.reminder \in Reminder
        BY <1>2, <3>1, HandIsTyped DEF SendFails, At, Busy
      <4> QED
        BY <1>2, <3>1, <4>1, <4>2 DEF SendFails, Accepted, Current
    <3>2. CASE MarkFails(r) \/ CutRun(r) \/ SendRefused(r)
      BY <3>2 DEF MarkFails, CutRun, SendRefused
    <3> QED
      BY <3>1, <3>2 DEF Fails
  <2> QED
    BY <1>2, <1>3, <1>4, <1>5, <1>6, <2>1, Quiet DEF HasSent, HasFailed, IsAbout, Busy
<1>7. CASE IsAbout(run[r], m)
  <2>1. /\ Pending(m) \in Nat /\ Pending(m)' \in Nat /\ Pending(m)' <= Pending(m)
        /\ r \in Yet(m) /\ r \notin Yet(m)' => Pending(m)' = Pending(m) - 1
    BY <1>2, <1>5, PendingMoves
  <2>2. mails[m] \in Nat /\ Counted(m) = mails[m] + Pending(m) /\ Counted(m) <= 1 + Costs
    BY <1>2, <1>7, <2>1 DEF Counted, OnceInv
  <2>3. mails'[m] + Pending(m)' <= Counted(m)
    <3>1. CASE SendFails(r)
      <4>1. r \in Yet(m) /\ r \notin Yet(m)'
        <5>1. run[r].pc = "send" /\ run[r].current \in run[r].todo
          BY <1>2, <1>7, <3>1 DEF SendFails, At, InLine, IsAbout
        <5> QED
          BY <1>3, <1>7, <5>1 DEF Yet, Keeps, IsAbout, Busy
      <4>2. mails'[m] = mails[m] \/ mails'[m] = mails[m] + 1
        BY <1>2, <1>7, <3>1 DEF SendFails, Accepted, Current, IsAbout
      <4> QED
        BY <2>1, <2>2, <4>1, <4>2
    <3>2. CASE MarkFails(r) \/ CutRun(r) \/ SendRefused(r)
      <4>1. mails'[m] = mails[m]
        BY <3>2 DEF MarkFails, CutRun, SendRefused
      <4> QED
        BY <2>1, <2>2, <4>1
    <3> QED
      BY <3>1, <3>2 DEF Fails
  <2>4. Counted(m)' <= Costs'
    BY <1>2, <2>1, <2>2, <2>3 DEF Counted
  <2> QED
    BY <1>2, <2>1, <2>4, Paid
<1> QED
  BY <1>6, <1>7

LEMMA InitCosts == Init => CostInv
<1> SUFFICES ASSUME Init PROVE CostInv
  OBVIOUS
<1>1. TypeInv /\ Working = {} /\ \A r \in Runs : run[r].pc = "idle"
  BY InitTypes DEF Working, Init, IdleRun
<1>2. IsFiniteSet(Working)
  BY <1>1, FS_EmptySet
<1>3. ASSUME NEW m \in Reminder PROVE OnceInv(m)
  <2>1. Yet(m) = {} /\ Pending(m) = 0
    BY <1>1, <1>2, PendingIsCounted DEF TypeInv, RunInv
  <2>2. mails[m] = 0 /\ Costs = 0 /\ Counted(m) = 0
    BY <2>1 DEF Init, Costs, Counted
  <2>3. ~Settled(m)
    BY <1>1 DEF Init, Settled, SaysSent, HasSent
  <2> QED
    BY <2>2, <2>3 DEF OnceInv
<1> QED
  BY <1>1, <1>2, <1>3 DEF CostInv

LEMMA NextKeepsCosts == CostInv /\ [Next]_vars => CostInv'
<1> SUFFICES ASSUME CostInv, [Next]_vars PROVE CostInv'
  OBVIOUS
<1>1. TypeInv'
  BY NextKeepsTypes DEF CostInv
<1>2. CASE UNCHANGED <<event, run, mails, refused, faults, overlaps>>
  <2>1. \A m : /\ Yet(m)' = Yet(m) /\ (Settled(m)' <=> Settled(m)) /\ (SaysSent(m)' <=> SaysSent(m))
               /\ Costs' = Costs /\ Working' = Working
    BY <1>2 DEF Yet, Keeps, IsAbout, Busy, Settled, SaysSent, HasSent, KeyOf, DedupeKey, Costs,
                Working
  <2> QED
    BY <1>1, <1>2, <2>1 DEF CostInv, OnceInv, Counted, Pending, HasFailed, IsAbout, Busy
<1>3. ASSUME NEW r \in Runs, RunStep(r) PROVE CostInv'
  <2>1. IsFiniteSet(Working)'
    BY <1>3, StepFacts, WorkingMoves DEF CostInv
  <2>2. ASSUME NEW m \in Reminder PROVE OnceInv(m)'
    BY <1>3, StartCosts, LookUpCosts, EndCosts, CreateCosts, SendCosts, TurnCosts, FailureCosts
       DEF RunStep, Fails
  <2> QED
    BY <1>1, <2>1, <2>2 DEF CostInv
<1>4. Outside => UNCHANGED <<event, run, mails, refused, faults, overlaps>>
  BY OutsideRuns DEF CostInv, TypeInv
<1> QED
  BY <1>2, <1>3, <1>4 DEF Next, Outside, RunStep, vars

(***************************************************************************)
(* A reminder is mailed once, and once more at most for every run that was *)
(* cut short, every mail or update that failed, and every run begun while  *)
(* another was at work (reminder-scheduler-service.ts:115-219: neither the *)
(* look-up of the event nor its creation is in one transaction with the    *)
(* mail).                                                                  *)
(***************************************************************************)
THEOREM RemindedOnce == Spec => []OnceUnlessCut
<1>1. CostInv => OnceUnlessCut
  <2> SUFFICES ASSUME CostInv, NEW m \in Reminder PROVE mails[m] <= 1 + faults + overlaps
    BY DEF OnceUnlessCut
  <2>1. OnceInv(m) /\ mails[m] \in Nat /\ faults \in Nat /\ overlaps \in Nat
    BY DEF CostInv, TypeInv, TypeOK
  <2>2. Pending(m) \in Nat /\ (Pending(m) = 0 <=> Yet(m) = {})
    BY PendingIsCounted DEF CostInv, TypeInv, RunInv
  <2> QED
    BY <2>1, <2>2 DEF OnceInv, Counted, Costs
<1> QED
  BY <1>1, InitCosts, NextKeepsCosts, PTL DEF Spec

-----------------------------------------------------------------------------
(* The calendar                                                            *)

LEMMA LeastNatural ==
    ASSUME NEW T \in SUBSET Nat, T # {}
    PROVE  \E n \in T : \A k \in T : n <= k
<1>1. PICK n \in T : \A k \in T : <<k, n>> \notin OpToRel(<, Nat)
  BY NatLessThanWellFounded, WFMin
<1>2. \A k \in T : ~(k < n)
  BY <1>1 DEF OpToRel
<1> QED
  BY <1>2

LEMMA Products ==
    ASSUME NEW a \in Int, NEW b \in Int, NEW k \in Nat, a <= b
    PROVE  a * k <= b * k
<1>1. (b - a) \in Nat
  OBVIOUS
<1>2. \A i, j \in Nat : i * j \in Nat
  OBVIOUS
<1>3. (b - a) * k \in Nat
  BY <1>1, <1>2
<1>4. (b - a) * k = b * k - a * k
  OBVIOUS
<1> QED
  BY <1>3, <1>4

LEMMA Division ==
    ASSUME NEW n \in Int, NEW k \in Nat \ {0}
    PROVE  /\ n \div k \in Int /\ n % k \in 0 .. k - 1
           /\ n = (k * (n \div k)) + (n % k)
OBVIOUS

\* The day of a moment is the last that does not begin after it.
LEMMA DayOfMoment ==
    ASSUME NEW t \in Int, NEW d \in Int
    PROVE  Today(t) \in Int /\ (d * DayLength <= t <=> d <= Today(t))
<1>1. DayLength \in Nat \ {0}
  BY RemindersAssumption
<1> DEFINE q == Today(t)
<1>2. q \in Int /\ DayLength * q <= t /\ t < DayLength * q + DayLength
  BY <1>1, Division DEF Today
<1>3. DayLength * q = q * DayLength /\ DayLength * q + DayLength = (q + 1) * DayLength
  BY <1>1, <1>2
<1>4. q * DayLength \in Int /\ (q + 1) * DayLength \in Int /\ d * DayLength \in Int
  BY <1>1, <1>2
<1>5. q * DayLength <= t /\ t < (q + 1) * DayLength
  BY <1>2, <1>3
<1> HIDE DEF q
<1>6. ASSUME d <= q PROVE d * DayLength <= t
  BY <1>1, <1>2, <1>4, <1>5, <1>6, Products
<1>7. ASSUME ~(d <= q) PROVE ~(d * DayLength <= t)
  <2>1. q + 1 <= d /\ q + 1 \in Int
    BY <1>2, <1>7
  <2>2. (q + 1) * DayLength <= d * DayLength
    BY <1>1, <1>2, <2>1, Products
  <2> QED
    BY <1>4, <1>5, <2>2
<1> QED
  BY <1>2, <1>6, <1>7 DEF q

\* The days that begin the months.
LEMMA FirstDays ==
    /\ Len(FirstDay) \in Nat /\ Len(FirstDay) > 2 /\ DOMAIN FirstDay = 1 .. Len(FirstDay)
    /\ \A m \in 1 .. Len(FirstDay) : FirstDay[m] \in Nat
    /\ FirstDay[1] = 0
    /\ \A m, n \in 1 .. Len(FirstDay) : m < n => FirstDay[m] < FirstDay[n]
BY RemindersAssumption

LEMMA MonthOfDate ==
    ASSUME NEW d \in Dates
    PROVE  /\ MonthOf(d) \in Months
           /\ FirstDay[MonthOf(d)] <= d /\ d < FirstDay[MonthOf(d) + 1]
<1> DEFINE T == {n \in Months : d < FirstDay[n + 1]}
<1>1. d \in Nat /\ d < FirstDay[Len(FirstDay)]
  BY FirstDays DEF Dates
<1>2. Len(FirstDay) - 1 \in T /\ T \in SUBSET Nat
  BY <1>1, FirstDays DEF Months
<1>3. PICK n \in T : \A k \in T : n <= k
  BY <1>2, LeastNatural
<1>4. FirstDay[n] <= d
  <2>1. CASE n = 1
    BY <1>1, <2>1, FirstDays
  <2>2. CASE n # 1
    <3>1. n - 1 \in Months /\ (n - 1) + 1 = n /\ n - 1 \notin T
      BY <1>3, <2>2, FirstDays DEF Months
    <3> QED
      BY <1>1, <1>3, <3>1, FirstDays DEF Months
  <2> QED
    BY <2>1, <2>2
<1>5. n \in Months /\ d \in FirstDay[n] .. FirstDay[n + 1] - 1
  BY <1>1, <1>3, <1>4, FirstDays DEF Months
<1>6. MonthOf(d) \in Months /\ d \in FirstDay[MonthOf(d)] .. FirstDay[MonthOf(d) + 1] - 1
  BY <1>5 DEF MonthOf
<1> QED
  BY <1>1, <1>6, FirstDays DEF Months

\* Days in their order lie in months in their order.
LEMMA MonthsInOrder ==
    ASSUME NEW d \in Dates, NEW e \in Dates, d <= e
    PROVE  MonthOf(d) <= MonthOf(e)
<1>1. /\ MonthOf(d) \in Months /\ FirstDay[MonthOf(d)] <= d
      /\ MonthOf(e) \in Months /\ e < FirstDay[MonthOf(e) + 1]
  BY MonthOfDate
<1> SUFFICES ASSUME ~(MonthOf(d) <= MonthOf(e)) PROVE FALSE
  OBVIOUS
<1>2. MonthOf(e) + 1 <= MonthOf(d) /\ MonthOf(e) + 1 \in 1 .. Len(FirstDay)
      /\ MonthOf(d) \in 1 .. Len(FirstDay)
  BY <1>1, FirstDays DEF Months
<1>3. FirstDay[MonthOf(e) + 1] <= FirstDay[MonthOf(d)]
  BY <1>2, FirstDays
<1>4. FirstDay[MonthOf(e) + 1] \in Nat /\ FirstDay[MonthOf(d)] \in Nat /\ d \in Int /\ e \in Int
  BY <1>2, FirstDays DEF Dates
<1> QED
  BY <1>1, <1>3, <1>4

\* A reminder is told no more days ahead than a month has: 28 at most, whatever the month (the
\* last one of the calendar may be cut short).  The form offers five, two and none;
\* normalizeReminderDays lets up to 30 through (reminders.ts:38).
ShortNotice ==
    \A s \in SettingForms : \A b \in s.days, m \in 1 .. Len(FirstDay) - 2 : b <= MonthLength(m)

\* The calendar ends a month ahead of the clock.
InCalendar == now \in Nat /\ now < FirstDay[Len(FirstDay) - 1] * DayLength

\* What is due is in the month it is or in the next, until the month of its date is over.
LEMMA DueSoon ==
    ASSUME ShortNotice, settings \in SettingForms, InCalendar, NEW m \in Reminder,
           m.before \in settings.days, InItsMonth(m, now), Scheduled(m, settings) <= now
    PROVE  MonthOf(m.date) \in MonthsAhead(now) /\ Today(now) \in Dates
<1> DEFINE today == Today(now)
           mo == MonthOf(today)
<1>1. /\ m.date \in Dates /\ m.date \in Nat /\ settings.days \in SUBSET Nat /\ m.before \in Nat
      /\ settings.hour \in Nat /\ DayLength \in Nat \ {0} /\ now \in Nat
  BY RemindersAssumption DEF Reminder, Dates, InCalendar
<1>2. today \in Int /\ \A d \in Int : d * DayLength <= now <=> d <= today
  BY <1>1, DayOfMoment
<1>3. today \in Dates
  <2>1. 0 <= today
    <3>1. 0 * DayLength = 0
      BY <1>1
    <3> QED
      BY <1>1, <1>2, <3>1
  <2>2. today < FirstDay[Len(FirstDay) - 1]
    <3>1. FirstDay[Len(FirstDay) - 1] \in Nat
      BY FirstDays
    <3>2. ~(FirstDay[Len(FirstDay) - 1] * DayLength <= now)
      BY <1>1, <3>1 DEF InCalendar
    <3> QED
      BY <1>2, <3>1, <3>2
  <2>3. FirstDay[Len(FirstDay) - 1] < FirstDay[Len(FirstDay)]
    BY FirstDays
  <2> QED
    BY <1>2, <2>1, <2>2, <2>3, FirstDays DEF Dates
<1>4. /\ mo \in Months /\ today < FirstDay[mo + 1]
      /\ MonthOf(m.date) \in Months /\ FirstDay[MonthOf(m.date)] <= m.date /\ mo <= MonthOf(m.date)
  BY <1>1, <1>3, MonthOfDate DEF InItsMonth
<1>5. m.date - m.before <= today
  <2>1. (m.date - m.before) * DayLength \in Int
    BY <1>1
  <2>2. (m.date - m.before) * DayLength <= now
    BY <1>1, <2>1 DEF Scheduled
  <2> QED
    BY <1>1, <1>2, <2>2
<1> HIDE DEF today, mo
<1>6. MonthOf(m.date) \in {mo, mo + 1}
  <2>1. SUFFICES ASSUME mo + 2 <= MonthOf(m.date) PROVE FALSE
    BY <1>4 DEF Months
  <2>2. /\ mo + 1 \in 1 .. Len(FirstDay) - 2 /\ mo + 1 \in 1 .. Len(FirstDay)
        /\ mo + 2 \in 1 .. Len(FirstDay) /\ MonthOf(m.date) \in 1 .. Len(FirstDay)
    BY <1>4, <2>1, FirstDays DEF Months
  <2>3. m.before <= FirstDay[mo + 2] - FirstDay[mo + 1]
    <3>1. (mo + 1) + 1 = mo + 2
      BY <1>4 DEF Months
    <3> QED
      BY <2>2, <3>1 DEF ShortNotice, MonthLength
  <2>4. FirstDay[mo + 2] <= FirstDay[MonthOf(m.date)]
    BY <2>1, <2>2, FirstDays
  <2>5. FirstDay[mo + 1] \in Nat /\ FirstDay[mo + 2] \in Nat /\ FirstDay[MonthOf(m.date)] \in Nat
    BY <2>2, FirstDays
  <2> QED
    BY <1>1, <1>2, <1>4, <1>5, <2>3, <2>4, <2>5
<1> QED
  BY <1>3, <1>4, <1>6 DEF MonthsAhead, mo, today

\* A run has on its list whatever it ought to tell.
LEMMA OwedIsListed ==
    ASSUME ShortNotice, MailInv, InCalendar, NEW m \in Owed
    PROVE  [reminder |-> m, at |-> Scheduled(m, settings)] \in Listed
<1>1. /\ m \in Reminder /\ Wanted(m) /\ InItsMonth(m, now)
      /\ Scheduled(m, settings) \in now - Lookback .. now
  BY DEF Owed
<1>2. settings \in SettingForms /\ m.before \in settings.days /\ OnSchedule(m, debt)
      /\ settings.emails /\ debt.active
  BY <1>1 DEF MailInv, Wanted
<1>3. Scheduled(m, settings) <= now
  <2>1. now - Lookback \in Int /\ now \in Int
    BY RemindersAssumption DEF InCalendar
  <2> QED
    BY <1>1, <2>1
<1>4. MonthOf(m.date) \in MonthsAhead(now)
  BY <1>1, <1>2, <1>3, DueSoon
<1>5. [type |-> m.type, date |-> m.date] \in Occurrences(debt, now)
  <2>1. [type |-> m.type, date |-> m.date] \in [type: Types, date: Dates]
    BY <1>1 DEF Reminder
  <2> QED
    BY <1>2, <1>4, <2>1 DEF OnSchedule, Occurrences
<1> QED
  BY <1>1, <1>2, <1>5 DEF Listed, Candidates, InWindow

-----------------------------------------------------------------------------
(* What a run has yet to tell                                              *)

Untold(r) == run[r].pc # "idle" /\ run[r].clean
             => \A m \in run[r].due : HandedOver(m) \/ Keeps(run[r], m)

UntoldInv == TypeInv /\ InCalendar /\ \A r \in Runs : Untold(r)

LEMMA MailsOnlyGrow ==
    ASSUME RunInv, NEW r \in Runs, RunStep(r), NEW m \in Reminder
    PROVE  /\ mails[m] > 0 => mails'[m] > 0
           /\ HandedOver(m) => HandedOver(m)'
<1>1. refused \subseteq refused'
  BY DEF RunStep, StartRun, LookUp, CreateEvent, SendMail, MarkDelivery, MarkFailed, FinishRun,
         SendRefused, SendFails, MarkFails, CutRun
<1>2. mails[m] > 0 => mails'[m] > 0
  <2>1. CASE SendMail(r) \/ SendFails(r)
    <3>1. run[r].current.reminder \in Reminder /\ mails \in [Reminder -> Nat]
      BY <2>1, HandIsTyped DEF RunInv, MailInv, SendMail, SendFails, At, Busy
    <3>2. mails' = [mails EXCEPT ![run[r].current.reminder] = @ + 1] \/ UNCHANGED mails
      BY <2>1 DEF SendMail, SendFails, Accepted, Current
    <3> QED
      BY <3>1, <3>2
  <2>2. CASE ~(SendMail(r) \/ SendFails(r))
    <3>1. UNCHANGED mails
      BY <2>2 DEF RunStep, StartRun, LookUp, CreateEvent, MarkDelivery, MarkFailed, FinishRun,
                  SendRefused, MarkFails, CutRun
    <3> QED
      BY <3>1
  <2> QED
    BY <2>1, <2>2
<1> QED
  BY <1>1, <1>2 DEF HandedOver

\* A run goes on with what is due, drops only what was mailed, and is unclean once it has failed.
LEMMA RunContinues ==
    ASSUME RunInv, NEW r \in Runs, RunStep(r), ~StartRun(r), run'[r].pc # "idle"
    PROVE  /\ run[r].pc # "idle" /\ run'[r].due = run[r].due /\ (run'[r].clean => run[r].clean)
           /\ \A m \in Reminder : run'[r].clean /\ Keeps(run[r], m)
                                  => Keeps(run'[r], m) \/ HandedOver(m)'
<1>1. MailInv /\ InLine(r) /\ run[r] \in RunState
  BY DEF RunInv, MailInv
<1> DEFINE Goes(state) ==
      /\ run[r].pc # "idle" /\ state.due = run[r].due /\ (state.clean => run[r].clean)
      /\ \A m \in Reminder : state.clean /\ Keeps(run[r], m) => Keeps(state, m) \/ HandedOver(m)'
<1> SUFFICES Goes(run'[r])
  OBVIOUS
<1>2. ASSUME NEW state, Becomes(r, state) PROVE run'[r] = state
  BY <1>1, <1>2, Others
<1>3. CASE Becomes(r, IdleRun)
  BY <1>2, <1>3 DEF IdleRun
<1>4. CASE LookUp(r)
  <2>1. PICK c \in run[r].todo : IF IsDone(DedupeKey(c)) THEN Becomes(r, Skipping(run[r], c))
                                                         ELSE Becomes(r, Taking(run[r], c))
    BY <1>1, <1>4 DEF LookUp, Becomes, Skipping, Taking, MailInv
  <2>2. c \in Candidate /\ c.reminder \in Reminder /\ run[r].pc = "look" /\ UNCHANGED <<mails, refused>>
    BY <1>1, <1>4 DEF RunState, Candidate, LookUp, At
  <2>3. CASE IsDone(DedupeKey(c))
    <3>1. KeyOf(c.reminder) \in DOMAIN event /\ event[KeyOf(c.reminder)] = "SENT"
      BY <2>3 DEF IsDone, KeyOf, DedupeKey
    <3>2. HandedOver(c.reminder) /\ \A m \in Reminder : HandedOver(m) => HandedOver(m)'
      BY <1>1, <2>2, <3>1 DEF MailInv, SentWasMailed, KeyOf, HandedOver
    <3>3. run'[r] = Skipping(run[r], c)
      BY <1>2, <2>1, <2>3
    <3>4. Goes(Skipping(run[r], c))
      BY <1>1, <2>2, <3>2, SkippingFields DEF SameFields, Keeps
    <3> QED
      BY <3>3, <3>4
  <2>4. CASE ~IsDone(DedupeKey(c))
    <3>1. run'[r] = Taking(run[r], c)
      BY <1>2, <2>1, <2>4
    <3>2. Goes(Taking(run[r], c))
      BY <1>1, <2>2, TakingFields DEF SameFields, Keeps
    <3> QED
      BY <3>1, <3>2
  <2> QED
    BY <2>3, <2>4
<1>5. ASSUME NEW pc \in {"send", "fail"}, Becomes(r, Going(run[r], pc)), run[r].pc # "idle"
      PROVE  Goes(run'[r])
  <2>1. Goes(Going(run[r], pc))
    BY <1>1, <1>5, GoingFields DEF SameFields, Keeps
  <2> QED
    BY <1>2, <1>5, <2>1
<1>6. CASE (SendMail(r) \/ SendRefused(r)) /\ Becomes(r, Sending(run[r]))
  <2>1. Goes(Sending(run[r]))
    BY <1>1, <1>6, SendingFields DEF Keeps, SendMail, SendRefused, At
  <2> QED
    BY <1>2, <1>6, <2>1
<1>7. ASSUME NEW clean \in BOOLEAN, Becomes(r, Turning(run[r], clean)), Busy(run[r]),
             UNCHANGED <<mails, refused>>, clean => HandedOver(run[r].current.reminder)
      PROVE  Goes(run'[r])
  <2>1. \A m \in Reminder : clean /\ Keeps(run[r], m) /\ ~HandedOver(m)
                            => \E c \in run[r].todo \ {run[r].current} : c.reminder = m
    BY <1>7 DEF Keeps
  <2>3. \A m \in Reminder : HandedOver(m)' <=> HandedOver(m)
    BY <1>7 DEF HandedOver
  <2>2. Goes(Turning(run[r], clean))
    BY <1>1, <1>7, <2>1, <2>3, TurningFields DEF Keeps, Busy
  <2> QED
    BY <1>2, <1>7, <2>2
<1>8. CASE MarkDelivery(r) /\ Becomes(r, Turning(run[r], run[r].status = "SENT"))
  <2> DEFINE sent == run[r].status = "SENT"
  <2>1. sent \in BOOLEAN /\ Becomes(r, Turning(run[r], sent)) /\ run[r].pc = "mark"
    BY <1>8 DEF MarkDelivery, At
  <2>2. sent => HandedOver(run[r].current.reminder)
    BY <1>1, <2>1 DEF MailInv, MarksWhatWasMailed
  <2>3. UNCHANGED <<mails, refused>>
    BY <1>8 DEF MarkDelivery
  <2> HIDE DEF sent
  <2> QED
    BY <1>7, <2>1, <2>2, <2>3 DEF Busy
<1>9. CASE MarkFailed(r) /\ Becomes(r, Turning(run[r], FALSE))
  <2>1. run[r].pc = "fail" /\ UNCHANGED <<mails, refused>>
    BY <1>9 DEF MarkFailed, At
  <2> QED
    BY <1>7, <1>9, <2>1 DEF Busy
<1>10. CASE CreateEvent(r) /\ Becomes(r, Going(run[r], "send"))
  BY <1>5, <1>10 DEF CreateEvent, At
<1>11. CASE (SendFails(r) \/ MarkFails(r)) /\ Becomes(r, Going(run[r], "fail"))
  BY <1>5, <1>11 DEF SendFails, MarkFails, At
<1> HIDE DEF Goes
<1> QED
  BY <1>1, Shapes, <1>3, <1>4, <1>6, <1>8, <1>9, <1>10, <1>11

LEMMA InitUntold == Init => UntoldInv
<1> SUFFICES ASSUME Init PROVE UntoldInv
  OBVIOUS
<1>1. TypeInv /\ \A r \in Runs : run[r].pc = "idle"
  BY InitTypes DEF Init, IdleRun
<1>2. InCalendar
  <2>1. FirstDay[1] < FirstDay[Len(FirstDay) - 1] /\ FirstDay[Len(FirstDay) - 1] \in Nat
    BY FirstDays
  <2>2. 1 <= FirstDay[Len(FirstDay) - 1] /\ DayLength \in Nat \ {0}
    BY <2>1, FirstDays, RemindersAssumption
  <2>3. 1 * DayLength <= FirstDay[Len(FirstDay) - 1] * DayLength
    BY <2>1, <2>2, Products
  <2>4. now = 0 /\ FirstDay[Len(FirstDay) - 1] * DayLength \in Int
    BY <2>1, <2>2 DEF Init
  <2> QED
    BY <2>2, <2>3, <2>4 DEF InCalendar
<1> QED
  BY <1>1, <1>2 DEF UntoldInv, Untold

LEMMA CalendarKept == InCalendar /\ [Next]_vars => InCalendar'
<1> SUFFICES ASSUME InCalendar, [Next]_vars PROVE InCalendar'
  OBVIOUS
<1>1. CASE Tick
  BY <1>1 DEF Tick, InCalendar
<1>2. CASE ~Tick
  <2>1. now' = now
    BY <1>2 DEF Next, vars, ConfigureMailer, EditDebt, EditSettings, Edited, StartRun, LookUp,
                CreateEvent, SendMail, MarkDelivery, MarkFailed, FinishRun, SendRefused, SendFails, MarkFails,
                CutRun, Failing
  <2> QED
    BY <2>1 DEF InCalendar
<1> QED
  BY <1>1, <1>2

LEMMA NextKeepsUntold == ShortNotice /\ UntoldInv /\ [Next]_vars => UntoldInv'
<1> SUFFICES ASSUME ShortNotice, UntoldInv, [Next]_vars PROVE UntoldInv'
  OBVIOUS
<1>1. TypeInv' /\ InCalendar' /\ RunInv /\ MailInv
  BY NextKeepsTypes, CalendarKept DEF UntoldInv, TypeInv, RunInv
<1>2. CASE UNCHANGED <<run, mails, refused>>
  BY <1>1, <1>2 DEF UntoldInv, Untold, Keeps, HandedOver
<1>3. ASSUME NEW r \in Runs, RunStep(r), NEW s \in Runs PROVE Untold(s)'
  <2>1. After(r) /\ \A m \in Reminder : HandedOver(m) => HandedOver(m)'
    BY <1>1, <1>3, RunLeaves, MailsOnlyGrow
  <2>2. run[s].due \subseteq Reminder /\ Untold(s)
    BY <1>1 DEF MailInv, RunState, UntoldInv
  <2>3. CASE s # r
    <3>1. run'[s] = run[s]
      BY <2>1, <2>3 DEF After
    <3> QED
      BY <2>1, <2>2, <3>1 DEF Untold, Keeps
  <2>4. CASE s = r /\ StartRun(r)
    <3>1. Becomes(r, Started)
      BY <2>4 DEF StartRun, Started, Listed, Owed, Becomes
    <3>2. run'[r] = Started /\ Started.due = Owed /\ Started.todo = Listed
      BY <1>1, <3>1, Others, StartedFields
    <3>3. \A m \in Owed : \E c \in Listed : c.reminder = m
      <4>1. SUFFICES ASSUME NEW m \in Owed PROVE \E c \in Listed : c.reminder = m
        OBVIOUS
      <4>2. [reminder |-> m, at |-> Scheduled(m, settings)] \in Listed
        BY <1>1, OwedIsListed DEF UntoldInv
      <4> QED
        BY <4>2
    <3> QED
      BY <2>4, <3>2, <3>3 DEF Untold, Keeps
  <2>5. CASE s = r /\ ~StartRun(r)
    <3>1. SUFFICES ASSUME run'[r].pc # "idle", run'[r].clean, NEW m \in run'[r].due
                   PROVE  HandedOver(m)' \/ Keeps(run'[r], m)
      BY <2>5 DEF Untold, Keeps, HandedOver
    <3>2. run[r].pc # "idle" /\ run[r].clean /\ m \in run[r].due /\ m \in Reminder
      BY <1>1, <1>3, <2>2, <2>5, <3>1, RunContinues
    <3>3. HandedOver(m) \/ Keeps(run[r], m)
      BY <2>2, <2>5, <3>2 DEF Untold
    <3> QED
      BY <1>1, <1>3, <2>1, <2>5, <3>1, <3>2, <3>3, RunContinues
  <2> QED
    BY <2>3, <2>4, <2>5
<1>4. Outside => UNCHANGED <<run, mails, refused>>
  BY <1>1, OutsideRuns
<1> QED
  BY <1>1, <1>2, <1>3, <1>4 DEF Next, Outside, RunStep, vars, UntoldInv

(***************************************************************************)
(* Told at most a month ahead, a reminder of the window is mailed by the   *)
(* time a run ends that noticed no failure, whatever the events say, or is *)
(* one whose mail was refused in a reply the code does not read, then or   *)
(* before (reminder-engine.ts:81-110 enumerates the month it is and the    *)
(* next; mail-service.ts:26).                                              *)
(***************************************************************************)
THEOREM NothingUntold ==
    ASSUME ShortNotice PROVE Spec => LeavesNothingUntold
<1> DEFINE Leaves == \A r \in Runs :
             At(r, "look") /\ run[r].todo = {} /\ run[r].clean /\ run'[r].pc = "idle"
             => \A m \in run[r].due : HandedOver(m)'
<1>1. UntoldInv /\ [Next]_vars => [Leaves]_vars
  <2> SUFFICES ASSUME UntoldInv, Next, NEW r \in Runs, At(r, "look"), run[r].todo = {},
                      run[r].clean, run'[r].pc = "idle", NEW m \in run[r].due
               PROVE  HandedOver(m)'
    OBVIOUS
  <2>1. RunInv /\ MailInv /\ Untold(r) /\ m \in Reminder /\ run[r].pc = "look"
    BY DEF UntoldInv, TypeInv, RunInv, MailInv, RunState, At
  <2>2. HandedOver(m)
    BY <2>1 DEF Untold, Keeps
  <2>3. ASSUME NEW s \in Runs, RunStep(s) PROVE HandedOver(m)'
    BY <2>1, <2>2, <2>3, MailsOnlyGrow
  <2>4. Outside => UNCHANGED <<mails, refused>>
    BY <2>1, OutsideRuns
  <2> QED
    BY <2>2, <2>3, <2>4 DEF Next, Outside, RunStep, HandedOver
<1>2. UntoldInv /\ [Next]_vars => UntoldInv'
  BY NextKeepsUntold
<1> QED
  BY <1>1, <1>2, InitUntold, PTL DEF Spec, LeavesNothingUntold

-----------------------------------------------------------------------------
(* What the daily call tells                                               *)

\* While nothing failed and no run overlapped another.
Undisturbed ==
    /\ overlaps = 0 => /\ \A r, s \in Working : r = s
                       /\ \A r \in Runs : run[r].pc = "create" => Key(r) \notin DOMAIN event
    /\ faults = 0 => /\ refused = {}
                     /\ \A r \in Runs : run[r].pc # "fail" /\ (mailer => run[r].clean)

\* The reminder has come due since the last change, and the call that tells it is here or past.
CallHasCome(m) ==
    LET at == Scheduled(m, settings)
    IN  /\ Wanted(m) /\ mailer /\ faults = 0 /\ overlaps = 0
        /\ since < at /\ FirstCall(at) <= now /\ InItsMonth(m, FirstCall(at))

Tells(r, m) == run[r].pc # "idle" /\ m \in run[r].due

ToldInv(m) ==
    LET call == FirstCall(Scheduled(m, settings))
    IN  CallHasCome(m) => /\ call < now => mails[m] > 0
                          /\ call = now /\ called => mails[m] > 0 \/ \E r \in Runs : Tells(r, m)

DailyInv == UntoldInv /\ Undisturbed /\ \A m \in Reminder : ToldInv(m)

\* The window of a run reaches back a day: REMINDER_LOOKBACK_HOURS is 26 (reminders.ts:1).
WideWindow == Lookback >= DayLength - 1

LEMMA FirstCallIsNext ==
    ASSUME NEW t \in Int
    PROVE  /\ FirstCall(t) \in Int /\ t <= FirstCall(t) /\ FirstCall(t) <= t + DayLength - 1
           /\ FirstCall(t) % DayLength = CronHour
<1>1. DayLength \in Nat \ {0} /\ CronHour \in 0 .. DayLength - 1
  BY RemindersAssumption
<1> DEFINE wait == (CronHour - t) % DayLength
           days == (CronHour - t) \div DayLength
<1>2. wait \in 0 .. DayLength - 1 /\ days \in Int /\ CronHour - t = (DayLength * days) + wait
  <2>1. CronHour - t \in Int
    BY <1>1
  <2> QED
    BY <1>1, <2>1, Division
<1>3. FirstCall(t) = t + wait
  BY DEF FirstCall
<1> HIDE DEF wait, days
<1>4. FirstCall(t) \in Int /\ t <= FirstCall(t) /\ FirstCall(t) <= t + DayLength - 1
  BY <1>1, <1>2, <1>3
<1>5. FirstCall(t) % DayLength = CronHour
  <2> DEFINE n == FirstCall(t)
             q == n \div DayLength
             k == n % DayLength
  <2>1. n = CronHour - (DayLength * days)
    <3>1. DayLength * days \in Int
      BY <1>1, <1>2
    <3> QED
      BY <1>1, <1>2, <1>3, <3>1
  <2>2. q \in Int /\ k \in 0 .. DayLength - 1 /\ n = (DayLength * q) + k
    BY <1>1, <1>4, Division
  <2> HIDE DEF n, q, k
  <2> DEFINE e == q + days
  <2>3. e \in Int /\ DayLength * e = DayLength * q + DayLength * days
    BY <1>1, <1>2, <2>2
  <2>4. DayLength * q \in Int /\ DayLength * days \in Int
    BY <1>1, <1>2, <2>2
  <2>5. CronHour - k = DayLength * e
    BY <1>1, <2>1, <2>2, <2>3, <2>4
  <2> HIDE DEF e
  <2>6. e = 0
    <3>1. CASE e >= 1
      <4>1. 1 * DayLength <= e * DayLength
        BY <1>1, <2>3, <3>1, Products
      <4>2. e * DayLength = DayLength * e
        BY <1>1, <2>3
      <4> QED
        BY <1>1, <2>2, <2>5, <4>1, <4>2
    <3>2. CASE e <= -1
      <4>1. e * DayLength <= (-1) * DayLength
        BY <1>1, <2>3, <3>2, Products
      <4>2. e * DayLength = DayLength * e
        BY <1>1, <2>3
      <4> QED
        BY <1>1, <2>2, <2>5, <4>1, <4>2
    <3> QED
      BY <2>3, <3>1, <3>2
  <2>7. DayLength * e = 0
    BY <1>1, <2>6
  <2> QED
    BY <1>1, <2>2, <2>5, <2>7 DEF k, n
<1> QED
  BY <1>4, <1>5

LEMMA HoursAreWhole ==
    ASSUME NEW m \in Reminder, NEW s \in SettingForms
    PROVE  Scheduled(m, s) \in Int
<1>1. m.date \in Int /\ s.hour \in Int /\ DayLength \in Int
  BY RemindersAssumption DEF Reminder, Dates
<1>2. m.before \in Nat
  <2>1. PICK f \in SettingForms : m.before \in f.days
    BY DEF Reminder
  <2> QED
    BY <2>1, RemindersAssumption
<1> QED
  BY <1>1, <1>2 DEF Scheduled

\* With one run at a time, a run that creates an event finds no event there.
LEMMA RunsStayUndisturbed ==
    ASSUME RunInv, Undisturbed, faults \in Nat, overlaps \in Nat, NEW r \in Runs, RunStep(r)
    PROVE  Undisturbed'
<1>1. /\ MailInv /\ InLine(r) /\ run[r] \in RunState /\ After(r)
      /\ Working' \subseteq Working \cup {r}
  BY RunLeaves DEF RunInv, MailInv, After, Working
<1>2. /\ \A s \in Runs \ {r} : run'[s] = run[s]
      /\ mailer' = mailer
  BY <1>1 DEF After, user
<1>3. faults' = 0 => faults = 0 /\ ~Fails(r)
  <2>1. CASE Fails(r)
    BY <2>1 DEF Fails, SendRefused, SendFails, MarkFails, CutRun, Failing
  <2>2. CASE ~Fails(r)
    BY <2>2 DEF RunStep, StartRun, LookUp, CreateEvent, SendMail, MarkDelivery, MarkFailed, FinishRun,
                Fails
  <2> QED
    BY <2>1, <2>2
<1>4. overlaps' = 0 => overlaps = 0 /\ (StartRun(r) => Working = {})
  <2>1. CASE StartRun(r)
    BY <2>1 DEF StartRun
  <2>2. CASE ~StartRun(r)
    BY <2>2 DEF RunStep, LookUp, CreateEvent, SendMail, MarkDelivery, MarkFailed, FinishRun,
                SendRefused, SendFails, MarkFails, CutRun, Failing
  <2> QED
    BY <2>1, <2>2
<1>5. ~StartRun(r) => r \in Working
  BY DEF RunStep, LookUp, CreateEvent, SendMail, MarkDelivery, MarkFailed, FinishRun, SendRefused, SendFails,
         MarkFails, CutRun, At, Working
<1>6. ASSUME overlaps' = 0 PROVE \A s \in Working' : s = r
  BY <1>1, <1>4, <1>5, <1>6 DEF Undisturbed
<1>7. ASSUME overlaps' = 0, NEW s \in Runs, run'[s].pc = "create" PROVE Key(s)' \notin DOMAIN event'
  <2>1. s = r
    BY <1>6, <1>7 DEF Working
  <2>2. LookUp(r)
    <3>1. Becomes(r, IdleRun) => run'[r].pc = "idle"
      BY <1>1, Others DEF IdleRun
    <3>2. Becomes(r, Started) => run'[r].pc = "look"
      BY <1>1, Others, StartedFields
    <3>3. \A pc \in {"send", "fail"} : Becomes(r, Going(run[r], pc)) => run'[r].pc = pc
      BY <1>1, Others, GoingFields
    <3>4. Becomes(r, Sending(run[r])) => run'[r].pc = "mark"
      BY <1>1, Others, SendingFields
    <3>5. \A clean \in BOOLEAN : Becomes(r, Turning(run[r], clean)) => run'[r].pc = "look"
      BY <1>1, Others, TurningFields
    <3>6. (run[r].status = "SENT") \in BOOLEAN
      OBVIOUS
    <3> QED
      BY <1>1, <1>7, <2>1, <3>1, <3>2, <3>3, <3>4, <3>5, <3>6, Shapes
  <2>3. PICK c \in run[r].todo : IF IsDone(DedupeKey(c)) THEN Becomes(r, Skipping(run[r], c))
                                                         ELSE Becomes(r, Taking(run[r], c))
    BY <1>1, <2>2 DEF LookUp, Becomes, Skipping, Taking, MailInv
  <2>4. c \in Candidate /\ run[r].pc = "look"
    BY <1>1, <2>2 DEF RunState, LookUp, At
  <2>5. ~IsDone(DedupeKey(c)) /\ run'[r] = Taking(run[r], c)
    BY <1>1, <1>7, <2>1, <2>3, <2>4, Others, SkippingFields
  <2>6. run'[r].current = c /\ DedupeKey(c) \notin DOMAIN event
    BY <1>1, <1>7, <2>1, <2>4, <2>5, TakingFields
  <2>7. Key(s)' = DedupeKey(c)
    BY <2>1, <2>6 DEF Key, Current, DedupeKey
  <2> QED
    BY <2>2, <2>6, <2>7 DEF LookUp
<1>8. ASSUME faults' = 0, NEW s \in Runs PROVE run'[s].pc # "fail" /\ (mailer => run'[s].clean)
  <2>1. faults = 0 /\ run[s].pc # "fail" /\ (mailer => run[s].clean) /\ run[r].pc # "fail"
        /\ (mailer => run[r].clean)
    BY <1>3, <1>8 DEF Undisturbed
  <2>2. CASE s # r
    BY <1>2, <2>1, <2>2
  <2>3. CASE s = r
    <3>1. Becomes(r, IdleRun) => run'[r].pc # "fail" /\ run'[r].clean = TRUE
      BY <1>1, Others DEF IdleRun
    <3>2. Becomes(r, Started) => run'[r].pc # "fail" /\ run'[r].clean = TRUE
      BY <1>1, Others, StartedFields
    <3>3. Becomes(r, Going(run[r], "send")) => run'[r].pc # "fail" /\ run'[r].clean = run[r].clean
      BY <1>1, Others, GoingFields
    <3>4. Becomes(r, Sending(run[r])) => run'[r].pc # "fail" /\ run'[r].clean = run[r].clean
      BY <1>1, Others, SendingFields
    <3>5. MarkDelivery(r) => run'[r].pc # "fail" /\ (mailer => run'[r].clean)
      <4>1. SUFFICES ASSUME MarkDelivery(r) PROVE run'[r].pc # "fail" /\ (mailer => run'[r].clean)
        OBVIOUS
      <4> DEFINE sent == run[r].status = "SENT"
      <4>2. sent \in BOOLEAN /\ Becomes(r, Turning(run[r], sent)) /\ (mailer => sent)
        BY <1>1, <4>1 DEF MarkDelivery, NextCandidate, Turning, Current, MailInv, Becomes, At,
                          InLine, Delivery
      <4> HIDE DEF sent
      <4> QED
        BY <1>1, <2>1, <4>2, Others, TurningFields
    <3>6. \A c \in run[r].todo : Becomes(r, Skipping(run[r], c)) /\ run[r].pc = "look"
             => run'[r].pc # "fail" /\ run'[r].clean = run[r].clean
      BY <1>1, Others, SkippingFields
    <3>7. \A c \in run[r].todo : Becomes(r, Taking(run[r], c))
             => run'[r].pc # "fail" /\ run'[r].clean = run[r].clean
      <4>1. run[r].todo \subseteq Candidate
        BY <1>1 DEF RunState
      <4> QED
        BY <1>1, <4>1, Others, TakingFields
    <3>8. ~MarkFailed(r)
      BY <2>1 DEF MarkFailed, At
    <3> QED
      BY <1>1, <1>3, <1>8, <2>1, <2>3, <3>1, <3>2, <3>3, <3>4, <3>5, <3>6, <3>7, <3>8, Shapes DEF Fails
  <2> QED
    BY <2>2, <2>3
<1>9. ASSUME faults' = 0 PROVE refused' = {}
  <2>1. refused' = refused
    BY <1>3, <1>9 DEF RunStep, StartRun, LookUp, CreateEvent, SendMail, MarkDelivery, MarkFailed,
                      FinishRun, Fails
  <2> QED
    BY <1>3, <1>9, <2>1 DEF Undisturbed
<1> QED
  BY <1>2, <1>6, <1>7, <1>8, <1>9 DEF Undisturbed

LEMMA RunsKeepTold ==
    ASSUME WideWindow, DailyInv, NEW r \in Runs, RunStep(r), NEW m \in Reminder
    PROVE  ToldInv(m)'
<1>1. /\ TypeInv /\ RunInv /\ MailInv /\ InLine(r) /\ After(r) /\ Undisturbed /\ ToldInv(m)
      /\ run[r] \in RunState /\ \A s \in Runs : Untold(s)
      /\ faults \in Nat /\ overlaps \in Nat /\ now \in Nat
  BY RunLeaves DEF DailyInv, UntoldInv, TypeInv, TypeOK, RunInv, MailInv
<1>2. mails[m] > 0 => mails'[m] > 0
  BY <1>1, MailsOnlyGrow
<1> DEFINE at == Scheduled(m, settings)
           call == FirstCall(at)
<1>3. UNCHANGED <<now, debt, settings, mailer, since>>
  BY <1>1 DEF After, user
<1>4. Wanted(m)' <=> Wanted(m)
  BY <1>3 DEF Wanted, OnSchedule
<1>5. at' = at /\ call' = call
  BY <1>3 DEF Scheduled, FirstCall
<1>6. InItsMonth(m, call)' <=> InItsMonth(m, call)
  BY <1>5 DEF InItsMonth, Today
<1>7. at \in Int /\ call \in Int /\ at <= call /\ call <= at + DayLength - 1
      /\ call % DayLength = CronHour
  BY <1>1, HoursAreWhole, FirstCallIsNext DEF MailInv
<1>8. faults' = 0 => faults = 0 /\ ~Fails(r)
  <2>1. CASE Fails(r)
    BY <1>1, <2>1 DEF Fails, SendRefused, SendFails, MarkFails, CutRun, Failing
  <2>2. CASE ~Fails(r)
    BY <2>2 DEF RunStep, StartRun, LookUp, CreateEvent, SendMail, MarkDelivery, MarkFailed, FinishRun,
                Fails
  <2> QED
    BY <2>1, <2>2
<1>9. overlaps' = 0 => overlaps = 0
  <2>1. CASE StartRun(r)
    BY <1>1, <2>1 DEF StartRun
  <2>2. CASE ~StartRun(r)
    BY <2>2 DEF RunStep, LookUp, CreateEvent, SendMail, MarkDelivery, MarkFailed, FinishRun,
                SendRefused, SendFails, MarkFails, CutRun, Failing
  <2> QED
    BY <2>1, <2>2
<1> SUFFICES ASSUME CallHasCome(m)'
             PROVE  /\ call < now => mails'[m] > 0
                    /\ call = now /\ called' => mails'[m] > 0 \/ \E s \in Runs : Tells(s, m)'
  BY <1>3, <1>5 DEF ToldInv
<1>10. faults' = 0 /\ overlaps' = 0 /\ CallHasCome(m) /\ Wanted(m) /\ InItsMonth(m, call) /\ mailer
  BY <1>3, <1>4, <1>5, <1>6, <1>8, <1>9 DEF CallHasCome
<1>11. /\ call < now => mails[m] > 0
       /\ call = now /\ called => mails[m] > 0 \/ \E s \in Runs : Tells(s, m)
  BY <1>1, <1>10 DEF ToldInv
<1> SUFFICES ASSUME call = now, called', ~(mails'[m] > 0) PROVE \E s \in Runs : Tells(s, m)'
  BY <1>2, <1>11
<1>12. CASE StartRun(r)
  <2>1. Becomes(r, Started)
    BY <1>12 DEF StartRun, Started, Listed, Owed, Becomes
  <2>2. run'[r].pc = "look" /\ run'[r].due = Owed
    BY <1>1, <2>1, Others, StartedFields
  <2>3. at \in now - Lookback .. now
    <3>1. Lookback \in Nat /\ DayLength \in Nat
      BY RemindersAssumption
    <3> QED
      BY <1>1, <1>7, <3>1 DEF WideWindow
  <2>4. m \in Owed
    BY <1>10, <2>3 DEF Owed
  <2>5. Tells(r, m)'
    BY <2>2, <2>4 DEF Tells
  <2> QED
    BY <2>5
<1>13. CASE ~StartRun(r)
  <2>1. called' = called
    BY <1>13 DEF RunStep, LookUp, CreateEvent, SendMail, MarkDelivery, MarkFailed, FinishRun,
                 SendRefused, SendFails, MarkFails, CutRun, Failing
  <2>2. PICK s \in Runs : Tells(s, m)
    BY <1>2, <1>11, <2>1
  <2>3. CASE s # r
    <3>1. run'[s] = run[s]
      BY <1>1, <2>3 DEF After
    <3> QED
      BY <2>2, <3>1 DEF Tells
  <2>4. CASE s = r /\ run'[r].pc # "idle"
    <3>1. run'[r].due = run[r].due
      BY <1>1, <1>13, <2>4, RunContinues
    <3>2. Tells(r, m)'
      BY <2>2, <2>4, <3>1 DEF Tells
    <3> QED
      BY <3>2
  <2>5. CASE s = r /\ run'[r].pc = "idle"
    <3>1. ~Becomes(r, Started) /\ ~Becomes(r, Going(run[r], "send")) /\ ~Becomes(r, Sending(run[r]))
          /\ ~Becomes(r, Going(run[r], "fail"))
      BY <1>1, <2>5, Others, StartedFields, GoingFields, SendingFields
    <3>2. \A clean \in BOOLEAN : ~Becomes(r, Turning(run[r], clean))
      BY <1>1, <2>5, Others, TurningFields
    <3>3. (run[r].status = "SENT") \in BOOLEAN
      OBVIOUS
    <3>4. run[r].pc = "look" => \A c \in run[r].todo : ~Becomes(r, Skipping(run[r], c))
                                                       /\ ~Becomes(r, Taking(run[r], c))
      <4>1. run[r].todo \subseteq Candidate
        BY <1>1 DEF RunState
      <4> QED
        BY <1>1, <2>5, <4>1, Others, SkippingFields, TakingFields
    <3>5. FinishRun(r) \/ (CreateEvent(r) /\ Key(r) \in DOMAIN event) \/ CutRun(r)
      BY <1>1, <3>1, <3>2, <3>3, <3>4, Shapes
    <3>6. FinishRun(r)
      BY <1>1, <1>8, <1>9, <1>10, <3>5 DEF Undisturbed, CreateEvent, At, Fails
    <3>7. run[r].todo = {} /\ UNCHANGED mails /\ run[r].clean /\ refused = {}
      BY <1>1, <1>8, <1>10, <3>6 DEF Undisturbed, FinishRun
    <3>8. mails[m] > 0
      BY <1>1, <2>2, <2>5, <3>7 DEF Untold, Tells, Keeps, HandedOver
    <3> QED
      BY <1>2, <3>8
  <2> QED
    BY <2>3, <2>4, <2>5
<1> QED
  BY <1>12, <1>13

\* The scheduler calls the job before its hour is over, and the run is over by then.
LEMMA TickKeepsTold ==
    ASSUME DailyInv, Tick, NEW m \in Reminder
    PROVE  ToldInv(m)'
<1>1. /\ MailInv /\ ToldInv(m) /\ now \in Nat /\ Working = {} /\ now' = now + 1 /\ called' = FALSE
      /\ (now % DayLength = CronHour => called)
      /\ UNCHANGED <<debt, settings, mailer, since, mails, refused, faults, overlaps>>
  BY DEF DailyInv, UntoldInv, TypeInv, TypeOK, RunInv, Tick, user
<1> DEFINE at == Scheduled(m, settings)
           call == FirstCall(at)
<1>2. Wanted(m)' <=> Wanted(m)
  BY <1>1 DEF Wanted, OnSchedule
<1>3. at' = at /\ call' = call
  BY <1>1 DEF Scheduled, FirstCall
<1>4. InItsMonth(m, call)' <=> InItsMonth(m, call)
  BY <1>3 DEF InItsMonth, Today
<1>5. call \in Int /\ call % DayLength = CronHour
  BY <1>1, HoursAreWhole, FirstCallIsNext DEF MailInv
<1> SUFFICES ASSUME CallHasCome(m)', call < now' PROVE mails[m] > 0
  BY <1>1, <1>3 DEF ToldInv
<1>6. call <= now
  BY <1>1, <1>5
<1>7. CallHasCome(m)
  BY <1>1, <1>2, <1>3, <1>4, <1>6 DEF CallHasCome
<1>8. CASE call < now
  BY <1>1, <1>7, <1>8 DEF ToldInv
<1>9. CASE call = now
  <2>1. \A r \in Runs : ~Tells(r, m)
    BY <1>1 DEF Tells, Working
  <2>2. called
    BY <1>1, <1>5, <1>9
  <2> QED
    BY <1>1, <1>7, <1>9, <2>1, <2>2 DEF ToldInv
<1> QED
  BY <1>1, <1>5, <1>6, <1>8, <1>9

LEMMA InitDaily == Init => DailyInv
<1> SUFFICES ASSUME Init PROVE DailyInv
  OBVIOUS
<1>1. UntoldInv /\ Working = {} /\ \A r \in Runs : run[r] = IdleRun /\ IdleRun.pc = "idle"
                                                   /\ IdleRun.clean = TRUE
  BY InitUntold DEF Init, IdleRun, Working
<1>2. Undisturbed
  BY <1>1 DEF Undisturbed, Init
<1>3. ASSUME NEW m \in Reminder PROVE ~CallHasCome(m)
  <2>1. Scheduled(m, settings) \in Int /\ Scheduled(m, settings) <= FirstCall(Scheduled(m, settings))
        /\ FirstCall(Scheduled(m, settings)) \in Int
    BY <1>1, HoursAreWhole, FirstCallIsNext DEF UntoldInv, TypeInv, RunInv, MailInv
  <2> QED
    BY <2>1 DEF Init, CallHasCome
<1> QED
  BY <1>1, <1>2, <1>3 DEF DailyInv, ToldInv

LEMMA NextKeepsDaily ==
    ASSUME ShortNotice, WideWindow, DailyInv, [Next]_vars
    PROVE  DailyInv'
<1>1. UntoldInv' /\ RunInv /\ MailInv /\ faults \in Nat /\ overlaps \in Nat
  BY NextKeepsUntold DEF DailyInv, UntoldInv, TypeInv, RunInv
<1>2. ASSUME NEW r \in Runs, RunStep(r) PROVE DailyInv'
  BY <1>1, <1>2, RunsStayUndisturbed, RunsKeepTold DEF DailyInv
<1>3. ASSUME UNCHANGED <<event, run, refused, faults, overlaps>>, mailer' = mailer \/ Working = {}
      PROVE  Undisturbed'
  <2>1. Working' = Working /\ \A r \in Runs : Key(r)' = Key(r)
    BY <1>3 DEF Working, Key, Current, DedupeKey
  <2>2. Working = {} => \A r \in Runs : run[r].clean
    BY DEF Working, DailyInv, UntoldInv, TypeInv, RunInv, InLine, IdleRun
  <2> QED
    BY <1>3, <2>1, <2>2 DEF DailyInv, Undisturbed
<1>4. CASE Tick
  BY <1>1, <1>3, <1>4, TickKeepsTold DEF DailyInv, Tick, user
<1>5. CASE UNCHANGED vars
  <2>1. Undisturbed'
    BY <1>3, <1>5 DEF vars, user
  <2>2. ASSUME NEW m \in Reminder PROVE ToldInv(m)'
    <3>1. ToldInv(m)
      BY DEF DailyInv
    <3> QED
      BY <1>5, <3>1 DEF vars, user, ToldInv, CallHasCome, Wanted, OnSchedule, Scheduled, FirstCall,
                        InItsMonth, Today, Tells
  <2> QED
    BY <1>1, <2>1, <2>2 DEF DailyInv
<1>6. CASE Outside /\ ~Tick
  <2>1. UNCHANGED <<now, event, run, mails, refused, faults, overlaps>> /\ Working = {} /\ since' = now
    BY <1>6 DEF Outside, ConfigureMailer, EditDebt, EditSettings, Edited
  <2>2. Undisturbed'
    BY <1>3, <2>1
  <2>3. ASSUME NEW m \in Reminder PROVE ~CallHasCome(m)'
    <3>1. settings' \in SettingForms /\ now \in Nat
      BY <1>1 DEF UntoldInv, TypeInv, RunInv, MailInv, DailyInv, TypeOK
    <3> DEFINE at == Scheduled(m, settings')
    <3>2. at \in Int /\ FirstCall(at) \in Int /\ at <= FirstCall(at)
      BY <3>1, HoursAreWhole, FirstCallIsNext
    <3>3. Scheduled(m, settings)' = at /\ FirstCall(Scheduled(m, settings))' = FirstCall(at)
      BY DEF Scheduled, FirstCall
    <3> QED
      BY <2>1, <3>1, <3>2, <3>3 DEF CallHasCome
  <2> QED
    BY <1>1, <2>2, <2>3 DEF DailyInv, ToldInv
<1> QED
  BY <1>2, <1>4, <1>5, <1>6 DEF Next, Outside, RunStep

(***************************************************************************)
(* Nothing failing and no run overlapping another, the scheduler's daily   *)
(* call tells every reminder that falls due after the user's last change,  *)
(* when the call comes in the month of its date or before: the window of a *)
(* run reaches back to the call before (REMINDER_LOOKBACK_HOURS).          *)
(***************************************************************************)
THEOREM DailyCallTells ==
    ASSUME ShortNotice, WideWindow PROVE Spec => []ToldByTheDailyCall
<1>1. DailyInv => ToldByTheDailyCall
  <2> SUFFICES ASSUME DailyInv, NEW m \in Reminder, Answered(m),
                      InItsMonth(m, FirstCall(Scheduled(m, settings)))
               PROVE  mails[m] > 0
    BY DEF ToldByTheDailyCall
  <2> DEFINE call == FirstCall(Scheduled(m, settings))
  <2>1. call \in Int /\ now \in Nat
    BY HoursAreWhole, FirstCallIsNext DEF DailyInv, UntoldInv, TypeInv, TypeOK
  <2>2. call < now
    BY DEF Answered
  <2>3. call <= now
    BY <2>1, <2>2
  <2>4. CallHasCome(m)
    BY <2>3 DEF Answered, CallHasCome
  <2> QED
    BY <2>2, <2>4 DEF DailyInv, ToldInv
<1>2. DailyInv /\ [Next]_vars => DailyInv'
  BY NextKeepsDaily
<1> QED
  BY <1>1, <1>2, InitDaily, PTL DEF Spec
================================================================================
