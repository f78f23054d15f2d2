------------------------------- MODULE Notices -------------------------------
(* The notices of one user: the synchronisation that every visit of the page  *)
(* asks for (notification-service.ts), with the promise and the cooldown that *)
(* each process keeps for its own visits in a Map of its memory; the page     *)
(* itself (notification-center.tsx); and the digest the daily job hands to    *)
(* the mail service before it marks what it handed over.  Nothing calls the   *)
(* synchronisation with its option force, which would neither join nor wait.  *)
EXTENDS Integers, FiniteSets, Sequences, FiniteSetsExt

CONSTANTS Instances,      \* the processes of the server
          Syncs,          \* slots for synchronisations at work
          NoSync,
          Jobs,           \* slots for runs of the daily job
          Users,          \* users, each the set of what it may hold and prefer
          HistoryLimit,   \* notificationHistoryLimit, premium -> number
          DigestSize,     \* take: 5
          Days, MaxNotices, MaxCrossings, MaxCuts   \* bounds

Signals == {"IMPROVING", "STABLE", "REGRESSION", "NO_BASELINE"}
DebtAlerts == {"DUE_SOON", "OVERDUE", "MINIMUM_PAYMENT_RISK"}
\* A follow-up is named by the signal its title tells of.
Alerts == DebtAlerts \cup {"STRATEGY_RECOMMENDATION", "MONTHLY_REPORT"} \cup Signals

Optional == DebtAlerts \cup {"MONTHLY_REPORT"}

\* due is 0 for a debt without a date; wants are the alerts not switched off.
Account == [open : BOOLEAN, due : Nat, upcoming : Nat, risk : BOOLEAN, paid : BOOLEAN,
            premium : BOOLEAN, signal : Signals, wants : SUBSET Optional, emails : BOOLEAN]

VARIABLES notices,  \* the rows, in the order they were created
          account, day,
          sync,     \* slot -> what a synchronisation still has to look for and to create
          promise, fresh,   \* notificationSyncState of each process: the sync in flight,
                            \* and whether the last one ended within the cooldown
          view,     \* the visit: "none", the sync it awaits, or "ready" to list
          screen,   \* what the page shows: id -> shown as read
          job,      \* slot -> a run of the job: where it stands, what it picked
          crossings,   \* syncs started beside one that their process does not wait for
          cuts      \* runs of the job cut between mail and mark, or started over another

vars == <<notices, account, day, sync, promise, fresh, view, screen, job, crossings, cuts>>

Ids == 1 .. Len(notices)
Unread(i) == ~notices[i].read
\* The mails of a notice that the mail service was handed, taken or refused.
Handed(i) == notices[i].mailed + notices[i].dropped
NewestOf(S, n) == {i \in S : Cardinality({k \in S : k > i}) < n}

-----------------------------------------------------------------------------
(* The synchronisation.                                                      *)

Occasion(a) ==
  CASE a = "DUE_SOON" -> account.due >= day /\ account.due <= day + account.upcoming
    [] a = "OVERDUE" -> account.due # 0 /\ account.due < day
    [] a = "MINIMUM_PAYMENT_RISK" -> account.risk
    [] a = "STRATEGY_RECOMMENDATION" -> TRUE
    [] a = "MONTHLY_REPORT" -> account.paid
    [] OTHER -> account.premium /\ account.signal = a
Occasions == {a \in account.wants \cup (Alerts \ Optional) :
                Occasion(a) /\ (account.open \/ a = "MONTHLY_REPORT")}

\* The alerts of the debts are looked for together, the others one after another.
Stage(a) == CASE a \in DebtAlerts -> 1 [] a = "STRATEGY_RECOMMENDATION" -> 2
              [] a \in Signals -> 3 [] OTHER -> 4
Now(s) == {a \in sync[s].looking \cup sync[s].creating :
             \A b \in sync[s].looking \cup sync[s].creating : Stage(a) <= Stage(b)}
Lookback(a) == IF a \in Signals THEN 7 ELSE 3

\* A synchronisation and a run of the job touch different columns of a row, so
\* they are modelled one after the other; each overlaps with its like.
Quiet == \A s \in Syncs : sync[s].at = "idle"
NoJob == \A j \in Jobs : job[j].at = "idle"

Idle == [at |-> "idle", looking |-> {}, creating |-> {}]
\* One that failed goes on only with the statements already under way.
Left(s, looking, creating) ==
  IF sync[s].at = "failed" /\ looking \cup creating = {} THEN Idle
  ELSE [sync[s] EXCEPT !.looking = looking, !.creating = creating]

\* Mutant: a visit never joins the synchronisation in flight.
Joins_Never(i) == FALSE

\* syncUserNotifications: await the promise, or skip within the cooldown, or start.
Joins(i) == promise[i] # NoSync
Visit == \E i \in Instances :
  /\ view = "none" /\ NoJob
  /\ UNCHANGED <<notices, account, day, fresh, screen, job, cuts>>
  /\ \/ Joins(i) /\ view' = promise[i] /\ UNCHANGED <<sync, promise, crossings>>
     \/ ~Joins(i) /\ fresh[i] /\ view' = "ready" /\ UNCHANGED <<sync, promise, crossings>>
     \/ /\ ~Joins(i) /\ ~fresh[i]
        /\ \E s \in Syncs : sync[s].at = "idle"
        /\ LET s == CHOOSE s \in Syncs : sync[s].at = "idle"
               crosses == \E t \in Syncs : sync[t].at # "idle" /\ t # promise[i]
           IN  /\ promise' = [promise EXCEPT ![i] = s] /\ view' = s
               /\ sync' = [sync EXCEPT ![s] =
                              [at |-> "running", looking |-> Occasions, creating |-> {}]]
               /\ crosses => crossings < MaxCrossings
               /\ crossings' = IF crosses THEN crossings + 1 ELSE crossings

\* The visitor leaves before the page is there; the synchronisation goes on.
Leave == /\ view \in Syncs /\ view' = "none"
         /\ UNCHANGED <<notices, account, day, sync, promise, fresh, screen, job, crossings, cuts>>

Recent(a) == \E i \in Ids : /\ notices[i].alert = a /\ Unread(i)
                            /\ notices[i].born >= day - Lookback(a)
FindNotice == \E s \in Syncs : \E a \in Now(s) \cap sync[s].looking :
  /\ sync' = [sync EXCEPT ![s] =
       Left(s, @.looking \ {a}, IF Recent(a) THEN @.creating ELSE @.creating \cup {a})]
  /\ UNCHANGED <<notices, account, day, promise, fresh, view, screen, job, crossings,
                 cuts>>

CreateNotice == \E s \in Syncs : \E a \in sync[s].creating :
  /\ Len(notices) < MaxNotices
  /\ notices' = Append(notices, [alert |-> a, born |-> day, read |-> FALSE, sent |-> FALSE,
                                 mailed |-> 0, dropped |-> 0])
  /\ sync' = [sync EXCEPT ![s] = Left(s, @.looking, @.creating \ {a})]
  /\ UNCHANGED <<account, day, promise, fresh, view, screen, job, crossings, cuts>>

\* A statement fails: the promise is rejected and forgotten, with the cooldown; what
\* Promise.all had started besides goes on.
SyncFails == \E s \in Syncs : \E a \in Now(s) :
  /\ sync[s].at = "running"
  /\ LET going == Now(s) \ {a}
     IN sync' = [sync EXCEPT ![s] =
          IF going = {} THEN Idle
          ELSE [at |-> "failed", looking |-> going \cap @.looking,
                creating |-> going \cap @.creating]]
  /\ \E i \in Instances : /\ promise[i] = s /\ promise' = [promise EXCEPT ![i] = NoSync]
                          /\ fresh' = [fresh EXCEPT ![i] = FALSE]
  /\ view' = IF view = s THEN "none" ELSE view
  /\ UNCHANGED <<notices, account, day, screen, job, crossings, cuts>>

SyncEnds == \E s \in Syncs :
  /\ sync[s].at = "running" /\ sync[s].looking \cup sync[s].creating = {}
  /\ sync' = [sync EXCEPT ![s] = Idle]
  /\ \E i \in Instances : /\ promise[i] = s /\ promise' = [promise EXCEPT ![i] = NoSync]
                          /\ fresh' = [fresh EXCEPT ![i] = TRUE]
  /\ view' = IF view = s THEN "ready" ELSE view
  /\ UNCHANGED <<notices, account, day, screen, job, crossings, cuts>>

CooldownEnds == \E i \in Instances :
  /\ fresh[i] /\ fresh' = [fresh EXCEPT ![i] = FALSE]
  /\ UNCHANGED <<notices, account, day, sync, promise, view, screen, job, crossings,
                 cuts>>

-----------------------------------------------------------------------------
(* The page.                                                                 *)

\* Ordered by readAt, ascending: the database puts the unread ones (null) last, so
\* they are listed only in the room that the read ones leave.
Listable ==
  LET limit == HistoryLimit[account.premium]
      readOnes == {i \in Ids : ~Unread(i)}
  IN  IF Cardinality(readOnes) >= limit THEN kSubset(limit, readOnes)
      ELSE {readOnes \cup NewestOf(Ids \ readOnes, limit - Cardinality(readOnes))}
ListNotices == \E S \in Listable :
  /\ view = "ready" /\ view' = "none" /\ screen' = [i \in S |-> ~Unread(i)]
  /\ UNCHANGED <<notices, account, day, sync, promise, fresh, job, crossings, cuts>>

Severity(a) == CASE a = "OVERDUE" -> "CRITICAL"
                 [] a \in {"DUE_SOON", "MINIMUM_PAYMENT_RISK", "REGRESSION"} -> "WARNING"
                 [] OTHER -> "INFO"
Bucket(i) == CASE Severity(notices[i].alert) = "CRITICAL" -> "URGENT"
               [] Severity(notices[i].alert) = "WARNING" -> "IMPORTANT"
               [] OTHER -> "OPPORTUNITY"

\* Mutant: what is unread weighs as much as the severity.
Score_UnreadFirst(i) ==
  (CASE Bucket(i) = "URGENT" -> 120 [] Bucket(i) = "IMPORTANT" -> 80 [] OTHER -> 40)
  + (IF screen[i] THEN 0 ELSE 80) + 20
  + (CASE notices[i].alert = "OVERDUE" -> 25 [] notices[i].alert = "DUE_SOON" -> 15 [] OTHER -> 0)

\* Every notice a synchronisation creates has an action, which counts 20.
Score(i) ==
  (CASE Bucket(i) = "URGENT" -> 120 [] Bucket(i) = "IMPORTANT" -> 80 [] OTHER -> 40)
  + (IF screen[i] THEN 0 ELSE 30) + 20
  + (CASE notices[i].alert = "OVERDUE" -> 25 [] notices[i].alert = "DUE_SOON" -> 15 [] OTHER -> 0)
\* Of two with one score the newer comes first.
Leads(i, k) == Score(i) > Score(k) \/ (Score(i) = Score(k) /\ i >= k)
Primary == CHOOSE i \in DOMAIN screen : \A k \in DOMAIN screen : Leads(i, k)

MarkRead == \E i \in DOMAIN screen :
  /\ ~screen[i]
  /\ notices' = [notices EXCEPT ![i].read = TRUE] /\ screen' = [screen EXCEPT ![i] = TRUE]
  /\ UNCHANGED <<account, day, sync, promise, fresh, view, job, crossings, cuts>>

\* Every notice of the user is marked, those the page does not show too.
ReadAll == /\ \E i \in DOMAIN screen : ~screen[i]
           /\ notices' = [i \in Ids |-> [notices[i] EXCEPT !.read = TRUE]]
           /\ screen' = [i \in DOMAIN screen |-> TRUE]
           /\ UNCHANGED <<account, day, sync, promise, fresh, view, job, crossings, cuts>>

-----------------------------------------------------------------------------
(* The digest.                                                               *)

Resting == [at |-> "idle", picked |-> {}]

\* Mutant: what was sent is picked again.
Pickable_Sent(i) == Unread(i)

Pickable(i) == Unread(i) /\ ~notices[i].sent
PickDigest == \E j \in {k \in Jobs : job[k].at = "idle"} :
  LET picked == NewestOf({i \in Ids : Pickable(i)}, DigestSize)
      over == \E k \in Jobs \ {j} : job[k].at # "idle"
  IN  /\ Quiet /\ account.emails /\ picked # {}
      /\ over => cuts < MaxCuts
      /\ cuts' = IF over THEN cuts + 1 ELSE cuts
      /\ job' = [job EXCEPT ![j] = [at |-> "mail", picked |-> picked]]
      /\ UNCHANGED <<notices, account, day, sync, promise, fresh, view, screen, crossings>>

\* sendTransactionalEmail: the mail is taken; or it is refused in a reply that nobody
\* reads, and taken for sent; or it is skipped (not configured), or the call throws.
MailDigest == \E j \in Jobs :
  /\ job[j].at = "mail"
  /\ \/ /\ \E taken \in BOOLEAN : notices' = [i \in Ids |->
            IF i \notin job[j].picked THEN notices[i]
            ELSE IF taken THEN [notices[i] EXCEPT !.mailed = @ + 1]
            ELSE [notices[i] EXCEPT !.dropped = @ + 1]]
        /\ job' = [job EXCEPT ![j].at = "mark"]
     \/ job' = [job EXCEPT ![j] = Resting] /\ UNCHANGED notices
  /\ UNCHANGED <<account, day, sync, promise, fresh, view, screen, crossings, cuts>>

MarkDigest == \E j \in Jobs :
  /\ job[j].at = "mark"
  /\ notices' = [i \in Ids |-> IF i \in job[j].picked
                               THEN [notices[i] EXCEPT !.sent = TRUE] ELSE notices[i]]
  /\ job' = [job EXCEPT ![j] = Resting]
  /\ UNCHANGED <<account, day, sync, promise, fresh, view, screen, crossings, cuts>>

\* The update is refused, or the function is cut short, after the mail was handed over.
CutDigest == \E j \in Jobs :
  /\ job[j].at = "mark" /\ cuts < MaxCuts /\ cuts' = cuts + 1
  /\ job' = [job EXCEPT ![j] = Resting]
  /\ UNCHANGED <<notices, account, day, sync, promise, fresh, view, screen, crossings>>

-----------------------------------------------------------------------------
(* The debts, the payments and the clock, which a synchronisation reads once. *)

ChangeAccount == \E u \in Users : \E a \in u :
  /\ Quiet /\ NoJob /\ account \in u \ {a} /\ account' = a
  /\ UNCHANGED <<notices, day, sync, promise, fresh, view, screen, job, crossings, cuts>>
LaterDay ==
  /\ Quiet /\ NoJob /\ \E d \in Days : d > day /\ day' = d
  /\ fresh' = [i \in Instances |-> FALSE]
  /\ UNCHANGED <<notices, account, sync, promise, view, screen, job, crossings, cuts>>

Init == /\ notices = <<>> /\ account \in UNION Users /\ day = Min(Days)
        /\ sync = [s \in Syncs |-> Idle] /\ promise = [i \in Instances |-> NoSync]
        /\ fresh = [i \in Instances |-> FALSE]
        /\ view = "none" /\ screen = <<>> /\ job = [j \in Jobs |-> Resting]
        /\ crossings = 0 /\ cuts = 0
Next == \/ Visit \/ Leave \/ FindNotice \/ CreateNotice \/ SyncFails \/ SyncEnds \/ CooldownEnds
        \/ ListNotices \/ MarkRead \/ ReadAll
        \/ PickDigest \/ MailDigest \/ MarkDigest \/ CutDigest \/ ChangeAccount \/ LaterDay
Spec == Init /\ [][Next]_vars
-----------------------------------------------------------------------------
TypeOK ==
  /\ \A i \in Ids : /\ notices[i].alert \in Alerts /\ notices[i].born \in Days
                    /\ Handed(i) \in 0 .. 1 + MaxCuts
  /\ account \in UNION Users /\ promise \in [Instances -> Syncs \cup {NoSync}]
  /\ \A i \in Instances : promise[i] # NoSync => sync[promise[i]].at = "running"
  /\ view \in {"none", "ready"} \cup Syncs /\ DOMAIN screen \subseteq Ids
  /\ \A s \in Syncs : /\ sync[s].at = "idle" => sync[s] = Idle
                      /\ sync[s].looking \cap sync[s].creating = {}
  /\ \A j \in Jobs : job[j].picked \subseteq Ids

\* A notice is looked for and then created, and no key of the table forbids two: the
\* promise of a process and the order of its awaits alone keep a user from two unread
\* notices of one occasion.  A synchronisation that crosses another - started by another
\* process, or beside what a failed one had under way - doubles an alert at most once.
Doubled(a) == {k \in Ids :
  /\ notices[k].alert = a /\ Unread(k)
  /\ \E i \in Ids : /\ i < k /\ notices[i].alert = a /\ Unread(i)
                    /\ notices[k].born <= notices[i].born + Lookback(a)}
OneUnreadPerAlert == \A a \in Alerts : Cardinality(Doubled(a)) <= crossings

\* The alert the page puts first is an urgent one whenever it shows one, whatever was
\* read already: the weights of the score never add up to a severity.
UrgentLeads == (\E i \in DOMAIN screen : Bucket(i) = "URGENT") => Bucket(Primary) = "URGENT"

\* A notice is handed to the mail service again only for a run of the job that was cut
\* between the mail and the mark, or that started over another; and none is marked that
\* was never handed over.  Whether the service took it, the mark does not tell.
DigestOnce == \A i \in Ids : /\ Handed(i) <= 1 + cuts
                             /\ notices[i].sent => Handed(i) >= 1
=============================================================================
