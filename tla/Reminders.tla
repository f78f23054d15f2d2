------------------------------- MODULE Reminders -------------------------------
(***************************************************************************)
(* The reminder mails of one user's debt: a job, called once a day by the  *)
(* scheduler and by hand whenever someone likes, mails what has come due   *)
(* since about a day ago and keeps an event row for each reminder, so that *)
(* the next run knows what was sent.                                       *)
(*                                                                         *)
(* Time is counted in ticks of the user's own clock, DayLength to a day.   *)
(***************************************************************************)
EXTENDS Integers, Sequences

CONSTANTS
    DayLength,      \* ticks in a day
    Lookback,       \* REMINDER_LOOKBACK_HOURS, in ticks
    CronHour,       \* the tick of the day at which the scheduler calls the job
    FirstDay,       \* the day each month of the calendar begins on, and the day after the last
    DebtForms,      \* the debts the user may have
    SettingForms,   \* the preferences the user may choose
    Runs,           \* runs of the job that may be at work together
    MaxEdits,       \* bound: changes of the debt, the preferences, the mailer
    MaxFaults,      \* bound: runs cut short, mails refused or lost, updates that fail
    MaxOverlaps     \* bound: runs begun while another is at work

Months == 1 .. Len(FirstDay) - 1
Types  == {"STATEMENT_CLOSING", "PAYMENT_DUE"}

Dates == 0 .. FirstDay[Len(FirstDay)] - 1
NoDay == 0
NoDate == -1

ASSUME RemindersAssumption ==
    /\ FirstDay \in Seq(Nat) /\ Len(FirstDay) > 2 /\ FirstDay[1] = 0
    /\ \A m, n \in DOMAIN FirstDay : m < n => FirstDay[m] < FirstDay[n]
    /\ DayLength \in Nat \ {0} /\ Lookback \in Nat /\ CronHour \in 0 .. DayLength - 1
    /\ DebtForms \subseteq [statementDay: Nat, dueDay: Nat, nextDueDate: Dates \cup {NoDate},
                            active: BOOLEAN]
    /\ SettingForms \subseteq [hour: 0 .. DayLength - 1, days: (SUBSET Nat) \ {{}}, emails: BOOLEAN]
    /\ MaxEdits \in Nat /\ MaxFaults \in Nat /\ MaxOverlaps \in Nat

\* A reminder: what happens on which date, and how many days ahead it is told.
Reminder == [type: Types, date: Dates, before: UNION {s.days : s \in SettingForms}]

VARIABLES
    now,        \* the clock
    debt,       \* Debt: its days, and whether it is owed and has its notices on
    settings,   \* UserSettings: hour, days before, and mails wanted
    mailer,     \* is the mail service configured?
    event,      \* NotificationEvent: status by dedupe key, for the rows there are
    run,        \* run[r]: where a run of the job stands
    mails,      \* external: mails accepted for each reminder
    refused,    \* external: reminders a mail of which was refused in a reply nobody read
    called,     \* has the scheduler called the job at this tick?
    since,      \* history: when debt, preferences or mailer last changed
    edits, faults, overlaps

user   == <<debt, settings, mailer, since, edits>>
vars   == <<now, user, event, run, mails, refused, called, faults, overlaps>>

NoCandidate == [reminder |-> "none", at |-> 0]
IdleRun == [pc |-> "idle", todo |-> {}, current |-> NoCandidate,
            status |-> "NONE", due |-> {}, clean |-> TRUE]

-----------------------------------------------------------------------------
(* What is due                                                             *)

MonthLength(m) == FirstDay[m + 1] - FirstDay[m]
MonthOf(date) == CHOOSE m \in Months : date \in FirstDay[m] .. FirstDay[m + 1] - 1
Today(t) == t \div DayLength

\* The day of the month, or the month's last day.
DateIn(m, day) == FirstDay[m] + (IF day < MonthLength(m) THEN day ELSE MonthLength(m)) - 1

\* Mutant: this month only.
MonthsAhead_This(t) == {MonthOf(Today(t))}

\* The month it is, and the next.
MonthsAhead(t) == LET m == MonthOf(Today(t)) IN {m, m + 1} \cap Months

\* buildReminderOccurrencesForDebt: the monthly days, or else the one due date.
Occurrences(d, t) ==
    {o \in [type: Types, date: Dates] :
        \/ o.type = "STATEMENT_CLOSING" /\ d.statementDay # NoDay
           /\ \E m \in MonthsAhead(t) : o.date = DateIn(m, d.statementDay)
        \/ o.type = "PAYMENT_DUE" /\ d.dueDay # NoDay
           /\ \E m \in MonthsAhead(t) : o.date = DateIn(m, d.dueDay)
        \/ o.type = "PAYMENT_DUE" /\ d.dueDay = NoDay /\ o.date = d.nextDueDate}

Scheduled(r, s) == (r.date - r.before) * DayLength + s.hour

InWindow(at, t) == at \in t - Lookback .. t

\* buildReminderDispatchCandidates: what the run at time t has to see to.
Candidates(d, s, t) ==
    {[reminder |-> r, at |-> Scheduled(r, s)] :
        r \in {r \in Reminder :
                  /\ r.before \in s.days
                  /\ [type |-> r.type, date |-> r.date] \in Occurrences(d, t)
                  /\ InWindow(Scheduled(r, s), t)}}

\* Mutant: the hour is part of the key.
DedupeKey_Timed(c) == <<c.reminder.type, c.reminder.date, c.reminder.before, c.at>>

DedupeKey(c) == <<c.reminder.type, c.reminder.date, c.reminder.before>>

Init ==
    /\ now = 0
    /\ debt \in DebtForms /\ settings \in SettingForms /\ mailer \in BOOLEAN
    /\ event = [k \in {} |-> "NONE"]
    /\ run = [r \in Runs |-> IdleRun]
    /\ mails = [r \in Reminder |-> 0] /\ refused = {}
    /\ called = FALSE /\ since = 0
    /\ edits = 0 /\ faults = 0 /\ overlaps = 0

-----------------------------------------------------------------------------
(* The clock and the user                                                  *)

Working == {r \in Runs : run[r].pc # "idle"}

\* A run is over before the next tick, and the scheduler does not forget.  The
\* calendar ends a month ahead of the clock.
Tick ==
    /\ Working = {}
    /\ now % DayLength = CronHour => called
    /\ now + 1 < FirstDay[Len(FirstDay) - 1] * DayLength
    /\ now' = now + 1
    /\ called' = FALSE
    /\ UNCHANGED <<user, event, run, mails, refused, faults, overlaps>>

\* A run works on what it read at its start: a change that comes meanwhile is
\* as good as one that comes after it.
Edited ==
    /\ edits < MaxEdits /\ Working = {}
    /\ edits' = edits + 1
    /\ since' = now
    /\ UNCHANGED <<now, event, run, mails, refused, called, faults, overlaps>>

EditDebt(form) == form # debt /\ debt' = form /\ Edited /\ UNCHANGED <<settings, mailer>>
EditSettings(form) ==
    form # settings /\ settings' = form /\ Edited /\ UNCHANGED <<debt, mailer>>
ConfigureMailer == mailer' = ~mailer /\ Edited /\ UNCHANGED <<debt, settings>>

-----------------------------------------------------------------------------
(* A run of dispatchAutomatedReminderEmails                                *)

At(r, pc) == run[r].pc = pc
Current(r) == run[r].current
Key(r) == DedupeKey(Current(r))
Goto(r, pc) == run' = [run EXCEPT ![r].pc = pc]
Stop(r) == run' = [run EXCEPT ![r] = IdleRun]
NextCandidate(r, clean) ==
    run' = [run EXCEPT ![r].pc = "look", ![r].todo = @ \ {Current(r)},
                       ![r].current = NoCandidate, ![r].status = "NONE",
                       ![r].clean = @ /\ clean]
MarkEvent(r, status) == event' = [event EXCEPT ![Key(r)] = status]

\* What ought to be told at time t, whatever the code enumerates: see Owed below.
OnSchedule(r, d) ==
    \/ r.type = "STATEMENT_CLOSING" /\ d.statementDay # NoDay
       /\ r.date = DateIn(MonthOf(r.date), d.statementDay)
    \/ r.type = "PAYMENT_DUE" /\ d.dueDay # NoDay
       /\ r.date = DateIn(MonthOf(r.date), d.dueDay)
    \/ r.type = "PAYMENT_DUE" /\ d.dueDay = NoDay /\ r.date = d.nextDueDate
Wanted(r) ==
    debt.active /\ settings.emails /\ r.before \in settings.days /\ OnSchedule(r, debt)

\* The month a reminder is about is not over.
InItsMonth(r, t) == MonthOf(Today(t)) <= MonthOf(r.date)

\* The users, their preferences and their debts are read once.
StartRun(r) ==
    /\ At(r, "idle")
    /\ IF Working = {} THEN UNCHANGED overlaps
       ELSE overlaps < MaxOverlaps /\ overlaps' = overlaps + 1
    /\ run' = [run EXCEPT ![r] =
          [IdleRun EXCEPT !.pc = "look",
               !.todo = IF settings.emails /\ debt.active
                        THEN Candidates(debt, settings, now) ELSE {},
               !.due = {m \in Reminder : /\ Wanted(m) /\ InItsMonth(m, now)
                                         /\ Scheduled(m, settings) \in now - Lookback .. now}]]
    /\ called' = (now % DayLength = CronHour)
    /\ UNCHANGED <<now, user, event, mails, refused, faults>>

\* Mutant: whatever has an event is left alone.
IsDone_AnyStatus(k) == k \in DOMAIN event

\* Mutant: the event is never looked at.
IsDone_Never(k) == FALSE

IsDone(k) == k \in DOMAIN event /\ event[k] = "SENT"

\* findUnique, earliest candidate first.
LookUp(r) ==
    /\ At(r, "look")
    /\ \E c \in run[r].todo :
          /\ \A other \in run[r].todo : c.at <= other.at
          /\ run' = IF IsDone(DedupeKey(c))
                    THEN [run EXCEPT ![r].todo = @ \ {c}]
                    ELSE [run EXCEPT ![r].current = c,
                                     ![r].pc = IF DedupeKey(c) \in DOMAIN event
                                               THEN "send" ELSE "create"]
    /\ UNCHANGED <<now, user, event, mails, refused, called, faults, overlaps>>

\* A key that another run created meanwhile ends this run.
CreateEvent(r) ==
    /\ At(r, "create")
    /\ IF Key(r) \in DOMAIN event
       THEN Stop(r) /\ UNCHANGED event
       ELSE /\ event' = [k \in DOMAIN event \cup {Key(r)} |->
                            IF k = Key(r) THEN "PENDING" ELSE event[k]]
            /\ Goto(r, "send")
    /\ UNCHANGED <<now, user, mails, refused, called, faults, overlaps>>

\* Mutant: the run does not look at `queued`.
Delivery_Assumed(queued) == "SENT"

\* What sendTransactionalEmail returns: `queued`, unless there is no mail service.
Delivery(queued) == IF queued THEN "SENT" ELSE "SKIPPED"

Accepted(r) == mails' = [mails EXCEPT ![Current(r).reminder] = @ + 1]
Delivered(r) == run' = [run EXCEPT ![r].pc = "mark", ![r].status = Delivery(mailer)]

\* Without a mail service the mail is skipped.
SendMail(r) ==
    /\ At(r, "send")
    /\ IF mailer THEN Accepted(r) ELSE UNCHANGED mails
    /\ Delivered(r)
    /\ UNCHANGED <<now, user, event, refused, called, faults, overlaps>>

MarkDelivery(r) ==
    /\ At(r, "mark")
    /\ MarkEvent(r, run[r].status)
    /\ NextCandidate(r, run[r].status = "SENT")
    /\ UNCHANGED <<now, user, mails, refused, called, faults, overlaps>>

\* The catch block.
MarkFailed(r) ==
    /\ At(r, "fail")
    /\ MarkEvent(r, "FAILED")
    /\ NextCandidate(r, FALSE)
    /\ UNCHANGED <<now, user, mails, refused, called, faults, overlaps>>

FinishRun(r) ==
    /\ At(r, "look") /\ run[r].todo = {}
    /\ Stop(r)
    /\ UNCHANGED <<now, user, event, mails, refused, called, faults, overlaps>>

-----------------------------------------------------------------------------
(* Failures                                                                *)

Failing == faults < MaxFaults /\ faults' = faults + 1
           /\ UNCHANGED <<now, user, event, called, overlaps>>

\* The mail service refuses the mail in its reply, which has an `error` nobody
\* looks at: the call returns as after a mail that was accepted.
SendRefused(r) ==
    /\ At(r, "send") /\ mailer
    /\ refused' = refused \cup {Current(r).reminder}
    /\ Delivered(r)
    /\ Failing /\ UNCHANGED mails

\* The call of the mail service throws, whether or not the mail was accepted.
SendFails(r) ==
    /\ At(r, "send") /\ mailer
    /\ Accepted(r) \/ UNCHANGED mails
    /\ Goto(r, "fail")
    /\ Failing /\ UNCHANGED refused

MarkFails(r) == At(r, "mark") /\ Goto(r, "fail") /\ Failing /\ UNCHANGED <<mails, refused>>

\* The process dies, or a statement outside the try block fails.
CutRun(r) == ~At(r, "idle") /\ Stop(r) /\ Failing /\ UNCHANGED <<mails, refused>>

Next ==
    \/ Tick \/ ConfigureMailer
    \/ \E form \in DebtForms : EditDebt(form)
    \/ \E form \in SettingForms : EditSettings(form)
    \/ \E r \in Runs : \/ StartRun(r) \/ LookUp(r) \/ CreateEvent(r) \/ SendMail(r)
                       \/ MarkDelivery(r) \/ MarkFailed(r) \/ FinishRun(r)
                       \/ SendRefused(r) \/ SendFails(r) \/ MarkFails(r) \/ CutRun(r)

Spec == Init /\ [][Next]_vars

-----------------------------------------------------------------------------
(* Properties                                                              *)

\* An event row has the key of a reminder and a status of its enumeration, and
\* a run that has passed its creation finds the row there.
TypeOK ==
    /\ now \in Nat /\ since \in 0 .. now /\ called \in BOOLEAN
    /\ debt \in DebtForms /\ settings \in SettingForms /\ mailer \in BOOLEAN
    /\ \A k \in DOMAIN event :
          /\ k \in Types \X Dates \X Nat
          /\ event[k] \in {"PENDING", "SENT", "SKIPPED", "FAILED"}
    /\ mails \in [Reminder -> Nat] /\ refused \subseteq Reminder
    /\ \A r \in Runs :
          /\ run[r].pc \in {"idle", "look", "create", "send", "mark", "fail"}
          /\ run[r].pc \in {"send", "mark", "fail"} => Key(r) \in DOMAIN event
          /\ run[r].pc = "mark" => run[r].status \in {"SENT", "SKIPPED"}

\* A reminder is mailed once, however often the job is called and however the
\* user moves the hour; each failure or overlapping run costs one more at most.
OnceUnlessCut == \A r \in Reminder : mails[r] <= 1 + faults + overlaps

\* Accepted by the mail service, or refused in a reply nobody read: the code
\* cannot tell the two apart.
HandedOver(m) == mails[m] > 0 \/ m \in refused

\* An event marked as sent, which no later run looks into, is not one whose mail
\* was skipped, thrown back or never tried, whatever runs overlap and fail: the
\* mail service has the mail, or has refused it in its unread reply.
SentWasMailed ==
    \A r \in Reminder :
        LET k == DedupeKey([reminder |-> r, at |-> 0])
        IN  k \in DOMAIN event /\ event[k] = "SENT" => HandedOver(r)

\* A run that ends with nothing failed or skipped leaves no reminder of its
\* window untold, in whatever state earlier runs have left the events, as long
\* as the month of the date is not over; a refusal in an unread reply, in this
\* run or in one before it, is the one thing such a run does not notice.
LeavesNothingUntold ==
    [][\A r \in Runs :
          At(r, "look") /\ run[r].todo = {} /\ run[r].clean /\ run'[r].pc = "idle"
          => \A m \in run[r].due : HandedOver(m)']_vars

\* The scheduler's first call at or after a moment.
FirstCall(t) == t + ((CronHour - t) % DayLength)

Answered(r) ==
    LET at == Scheduled(r, settings)
    IN  Wanted(r) /\ mailer /\ faults = 0 /\ overlaps = 0 /\ Working = {}
        /\ since < at /\ FirstCall(at) < now

\* Nothing failing, the daily call tells every reminder that falls due after
\* the user's last change, when the call comes in the month of its date or before.
ToldByTheDailyCall ==
    \A r \in Reminder :
        Answered(r) /\ InItsMonth(r, FirstCall(Scheduled(r, settings))) => mails[r] > 0

\* The promise to the user: every reminder is told, whichever day it is about.
NothingForgotten == \A r \in Reminder : Answered(r) => mails[r] > 0
=============================================================================
