-------------------------------- MODULE Billing --------------------------------
(***************************************************************************)
(* The paid membership of one user: checkouts, and the returns by which    *)
(* AZUL (through the customer's browser) reports how each order ended.     *)
(*                                                                         *)
(* A return may come again, late, out of order, or never.  Its handler     *)
(* claims an event row, reads the payment, and only then acts; nothing     *)
(* keeps two handlers apart but that row, which goes stale after a while.  *)
(***************************************************************************)
EXTENDS Naturals, FiniteSets

CONSTANTS
    Orders,         \* order numbers; none is used twice
    Handlers,       \* returns that may be handled together
    Plans,          \* the [tier, interval] pairs on sale
    PayAgain,       \* may an order be paid after a decline or a cancellation?
    Overlap,        \* when requests may overlap, see MayStart and MayFail
    SlowHandlers,   \* may a handler at work be taken for a dead one?
    MaxReturns,     \* bound: returns the browser is handed
    MaxCrashes,     \* bound: handlers or checkouts cut short
    MaxFaults       \* bound: statements the database refuses

ASSUME BillingAssumption ==
    /\ Plans \subseteq [tier: {"NORMAL", "PRO"}, interval: {"MONTHLY", "ANNUAL"}]
    /\ Plans # {}
    /\ PayAgain \in BOOLEAN /\ SlowHandlers \in BOOLEAN
    /\ Overlap \in {"never", "until a failure", "always"}
    /\ {MaxReturns, MaxCrashes, MaxFaults} \subseteq Nat

Outcomes == {"approved", "declined", "cancelled"}

\* A return: the route it comes to, its order, and what its parameters hold.
\* A bare one has no parameter but the order number.
Return == [outcome: Outcomes, order: Orders, bare: BOOLEAN, ok: BOOLEAN]
Event  == Outcomes \X Orders \X BOOLEAN
EventOf(m) == <<m.outcome, m.order, m.bare>>

VARIABLES
    payments,     \* BillingPayment by order: status and plan
    settings,     \* UserSettings: tier, billing status, interval
    event,        \* BillingProviderEvent: status, and whether it has gone stale
    handler,      \* handler[h]: where it stands, with which return
    checkout,     \* the checkout in flight
    configured,   \* are the AZUL credentials in place?
    gateway,      \* external: what AZUL has seen of each order
    returns,      \* external: the returns the browser has been handed
    activations,  \* history: times each order activated the membership
    crashes, faults

rows   == <<payments, settings, event>>
azul   == <<gateway, returns>>
bounds == <<crashes, faults>>
vars   == <<rows, handler, checkout, configured, azul, activations, bounds>>

NoPlan == [tier |-> "FREE", interval |-> "NONE"]
BillingStatuses == {"FREE", "PENDING", "ACTIVE"}

IdleHandler  == [pc |-> "idle", return |-> [outcome |-> "none"], seen |-> "NONE"]
IdleCheckout == [pc |-> "idle", order |-> "none", plan |-> NoPlan, seen |-> "FREE"]

Init ==
    /\ payments = [o \in Orders |-> [status |-> "NONE", plan |-> NoPlan]]
    /\ settings = [tier |-> "FREE", status |-> "FREE", interval |-> "NONE", recurring |-> FALSE]
    /\ event = [e \in Event |-> [status |-> "NONE", stale |-> FALSE]]
    /\ handler = [h \in Handlers |-> IdleHandler]
    /\ checkout = IdleCheckout
    /\ configured \in BOOLEAN
    /\ gateway = [o \in Orders |-> "unknown"]
    /\ returns = {}
    /\ activations = [o \in Orders |-> 0]
    /\ crashes = 0 /\ faults = 0

\* "until a failure": requests overlap until one fails, which fails alone, and no
\* two overlap from then on (two deliveries may both claim an event that failed).
Busy == {h \in Handlers : handler[h].pc # "idle"}
InFlight == Cardinality(Busy) + (IF checkout.pc = "idle" THEN 0 ELSE 1)
MayStart == \/ Overlap = "always" \/ InFlight = 0
            \/ Overlap = "until a failure" /\ crashes + faults = 0
MayFail == Overlap # "until a failure" \/ InFlight <= 1

-----------------------------------------------------------------------------
(* Checkout                                                                *)

\* createMembershipCheckoutSession reads the user; no code sets `recurring`.
StartCheckout(plan) ==
    /\ checkout.pc = "idle" /\ configured /\ MayStart
    /\ ~(settings.recurring /\ settings.status = "ACTIVE")
    /\ checkout' = [checkout EXCEPT !.pc = "write", !.plan = plan, !.seen = settings.status]
    /\ UNCHANGED <<rows, handler, configured, azul, activations, bounds>>

StatusAfterCheckout(seen) == IF seen = "ACTIVE" THEN "ACTIVE" ELSE "PENDING"

\* One transaction: the order, and the settings with the status that was read.
CommitCheckout ==
    /\ checkout.pc = "write"
    /\ \E o \in Orders :
          /\ payments[o].status = "NONE"
          /\ payments' = [payments EXCEPT ![o] = [status |-> "PENDING", plan |-> checkout.plan]]
          /\ checkout' = [checkout EXCEPT !.pc = "answer", !.order = o]
    /\ settings' = [settings EXCEPT !.status = StatusAfterCheckout(checkout.seen),
                                    !.interval = checkout.plan.interval]
    /\ UNCHANGED <<event, handler, configured, azul, activations, bounds>>

\* After the audit entry the form reaches the browser, which posts it to AZUL.
AnswerCheckout ==
    /\ checkout.pc = "answer"
    /\ gateway' = [gateway EXCEPT ![checkout.order] = "open"]
    /\ checkout' = IdleCheckout
    /\ UNCHANGED <<rows, handler, configured, returns, activations, bounds>>

\* Without AZUL credentials the settings page sets the plan itself.
ChoosePlan(tier) ==
    /\ ~configured
    /\ settings' = [settings EXCEPT !.tier = tier, !.interval = "NONE", !.recurring = FALSE,
                                    !.status = IF tier = "FREE" THEN "FREE" ELSE "ACTIVE"]
    /\ UNCHANGED <<payments, event, handler, checkout, configured, azul, activations, bounds>>

-----------------------------------------------------------------------------
(* AZUL and the browser                                                    *)

\* AZUL decides an open order and hands the browser the return for it.
Decide(o, outcome) ==
    /\ gateway[o] = "open" /\ Cardinality(returns) < MaxReturns
    /\ gateway' = [gateway EXCEPT ![o] = IF outcome # "approved" /\ PayAgain
                                         THEN "open" ELSE outcome]
    /\ returns' = returns \cup
          {[outcome |-> outcome, order |-> o, bare |-> outcome = "cancelled",
            ok |-> outcome = "approved"]}
    /\ UNCHANGED <<rows, handler, checkout, configured, activations, bounds>>

\* The browser opens the route without the parameters AZUL posted to it.
LoseParameters(m) ==
    /\ m \in returns /\ ~m.bare /\ Cardinality(returns) < MaxReturns
    /\ returns' = returns \cup {[m EXCEPT !.bare = TRUE, !.ok = FALSE]}
    /\ UNCHANGED <<rows, handler, checkout, configured, gateway, activations, bounds>>

-----------------------------------------------------------------------------
(* Handling a return                                                       *)

At(h, pc) == handler[h].pc = pc
Goto(h, pc) == handler' = [handler EXCEPT ![h].pc = pc]
Finish(h) == handler' = [handler EXCEPT ![h] = IdleHandler]
E(h) == EventOf(handler[h].return)
O(h) == handler[h].return.order
MarkEvent(h, status) ==
    event' = [event EXCEPT ![E(h)] = [status |-> status, stale |-> FALSE]]

\* The route is called, for the first time or again.
Deliver(h, m) ==
    /\ At(h, "idle") /\ m \in returns /\ MayStart
    /\ handler' = [handler EXCEPT ![h] = [IdleHandler EXCEPT !.pc = "begin", !.return = m]]
    /\ UNCHANGED <<rows, checkout, configured, azul, activations, bounds>>

\* Mutant: an upsert in place of the insert.
CreateEvent_Unlocked(h) ==
    /\ At(h, "begin")
    /\ MarkEvent(h, "PROCESSING")
    /\ Goto(h, "read")
    /\ UNCHANGED <<payments, settings, checkout, configured, azul, activations, bounds>>

\* The insert is the lock: one creator, everyone else finds the row.
CreateEvent(h) ==
    /\ At(h, "begin")
    /\ IF event[E(h)].status = "NONE"
       THEN MarkEvent(h, "PROCESSING") /\ Goto(h, "read")
       ELSE UNCHANGED event /\ Goto(h, "existing")
    /\ UNCHANGED <<payments, settings, checkout, configured, azul, activations, bounds>>

\* Mutant: an event is never taken over.
ShouldProcess_NeverStale(e) == e.status = "FAILED"

\* getBillingProviderEventProcessingDecision.
ShouldProcess(e) == e.status = "FAILED" \/ (e.status = "PROCESSING" /\ e.stale)

ReadEvent(h) ==
    /\ At(h, "existing")
    /\ IF ShouldProcess(event[E(h)]) THEN Goto(h, "claim") ELSE Finish(h)
    /\ UNCHANGED <<rows, checkout, configured, azul, activations, bounds>>

\* The update says nothing of the status it expects.
ClaimEvent(h) ==
    /\ At(h, "claim")
    /\ MarkEvent(h, "PROCESSING")
    /\ Goto(h, "read")
    /\ UNCHANGED <<payments, settings, checkout, configured, azul, activations, bounds>>

\* The order exists, and an approved return carries a signature, which can be
\* verified as long as the credentials are in place.  (AZUL signs what it sends
\* and reports the amount it was asked for.)
Valid(m) ==
    /\ payments[m.order].status # "NONE"
    /\ m.outcome = "approved" => ~m.bare
    /\ ~m.bare => configured

\* Mutant: any signed response is taken for an approval.
Approves_Signed(m) == ~m.bare

Approves(m) == m.outcome = "approved" /\ m.ok

\* Mutant: an approval that comes again counts as a decline.
NextStep_Declines(m, status) ==
    IF Approves(m) /\ status # "APPROVED" THEN "activate" ELSE "reject"

NextStep(m, status) ==
    IF ~Approves(m) THEN "reject" ELSE IF status # "APPROVED" THEN "activate" ELSE "done"

ReadPayment(h) ==
    LET m == handler[h].return
    IN  /\ At(h, "read")
        /\ Goto(h, IF Valid(m) THEN NextStep(m, payments[m.order].status) ELSE "fail")
        /\ UNCHANGED <<rows, checkout, configured, azul, activations, bounds>>

\* activateMembershipFromApprovedPayment, one transaction.
Activate(h) ==
    LET o == O(h)
    IN  /\ At(h, "activate")
        /\ payments' = [payments EXCEPT ![o].status = "APPROVED"]
        /\ settings' = [settings EXCEPT !.tier = payments[o].plan.tier, !.status = "ACTIVE",
                                        !.interval = payments[o].plan.interval,
                                        !.recurring = FALSE]
        /\ activations' = [activations EXCEPT ![o] = @ + 1]
        /\ Goto(h, "audit")
        /\ UNCHANGED <<event, checkout, configured, azul, bounds>>

\* The entry, and a mail that never fails.
AuditActivation(h) ==
    /\ At(h, "audit")
    /\ Goto(h, "done")
    /\ UNCHANGED <<rows, checkout, configured, azul, activations, bounds>>

\* Mutant: the route's word is stored as it is.
RejectedStatus_Outcome(outcome) == outcome

RejectedStatus(outcome) == IF outcome = "cancelled" THEN "CANCELED" ELSE "DECLINED"

\* A decline or a cancellation overwrites whatever status the payment has.
Reject(h) ==
    /\ At(h, "reject")
    /\ payments' = [payments EXCEPT ![O(h)].status = RejectedStatus(handler[h].return.outcome)]
    /\ Goto(h, "done")
    /\ UNCHANGED <<settings, event, checkout, configured, azul, activations, bounds>>

MarkProcessed(h) ==
    /\ At(h, "done")
    /\ MarkEvent(h, "PROCESSED")
    /\ Finish(h)
    /\ UNCHANGED <<payments, settings, checkout, configured, azul, activations, bounds>>

MarkFailed(h) ==
    /\ At(h, "fail")
    /\ MarkEvent(h, "FAILED")
    /\ Finish(h)
    /\ UNCHANGED <<payments, settings, checkout, configured, azul, activations, bounds>>

-----------------------------------------------------------------------------
(* Failures and time                                                       *)

Working == {"read", "activate", "audit", "reject", "done"}

\* Mutant: the error is swallowed.
AfterFault_Swallowed(pc) == "done"

\* An error while processing goes to the catch block; elsewhere it ends the
\* request.
AfterFault(pc) == IF pc \in Working THEN "fail" ELSE "idle"

Fault(h) ==
    LET next == AfterFault(handler[h].pc)
    IN  /\ ~At(h, "idle") /\ faults < MaxFaults /\ MayFail
        /\ faults' = faults + 1
        /\ IF next = "idle" THEN Finish(h) ELSE Goto(h, next)
        /\ UNCHANGED <<rows, checkout, configured, azul, activations, crashes>>

CrashHandler(h) ==
    /\ ~At(h, "idle") /\ crashes < MaxCrashes /\ MayFail
    /\ crashes' = crashes + 1
    /\ Finish(h)
    /\ UNCHANGED <<rows, checkout, configured, azul, activations, faults>>

\* The transaction or the audit entry fails, or the process dies: the browser
\* gets no form.
AbortCheckout ==
    /\ checkout.pc # "idle" /\ crashes < MaxCrashes /\ MayFail
    /\ crashes' = crashes + 1
    /\ checkout' = IdleCheckout
    /\ UNCHANGED <<rows, handler, configured, azul, activations, faults>>

\* Ten minutes pass since the event row was touched.
GoStale(e) ==
    /\ event[e].status = "PROCESSING" /\ ~event[e].stale
    /\ SlowHandlers \/ \A h \in Handlers : handler[h].pc \in Working \cup {"fail"} => E(h) # e
    /\ event' = [event EXCEPT ![e].stale = TRUE]
    /\ UNCHANGED <<payments, settings, handler, checkout, configured, azul, activations, bounds>>

Handle(h) ==
    \/ CreateEvent(h) \/ ReadEvent(h) \/ ClaimEvent(h) \/ ReadPayment(h)
    \/ Activate(h) \/ AuditActivation(h) \/ Reject(h) \/ MarkProcessed(h) \/ MarkFailed(h)

Next ==
    \/ \E plan \in Plans : StartCheckout(plan)
    \/ CommitCheckout \/ AnswerCheckout \/ AbortCheckout
    \/ \E tier \in {"FREE", "NORMAL", "PRO"} : ChoosePlan(tier)
    \/ \E o \in Orders, outcome \in Outcomes : Decide(o, outcome)
    \/ \E m \in returns : LoseParameters(m)
    \/ \E h \in Handlers : \/ Handle(h) \/ Fault(h) \/ CrashHandler(h)
                           \/ \E m \in returns : Deliver(h, m)
    \/ \E e \in Event : GoStale(e)

Spec == Init /\ [][Next]_vars

\* A handler that runs ends, and ten minutes pass.
Fairness ==
    /\ \A h \in Handlers : WF_vars(Handle(h))
    /\ \A e \in Event : WF_vars(GoStale(e))

FairSpec == Spec /\ Fairness

-----------------------------------------------------------------------------
(* Properties                                                              *)

\* The rows, the requests and the returns hold what they can hold.
TypeOK ==
    /\ payments \in [Orders -> [status: {"NONE", "PENDING", "APPROVED", "DECLINED", "CANCELED"},
                                plan: Plans \cup {NoPlan}]]
    /\ settings \in [tier: {"FREE", "NORMAL", "PRO"}, status: BillingStatuses,
                     interval: {"NONE", "MONTHLY", "ANNUAL"}, recurring: {FALSE}]
    /\ event \in [Event -> [status: {"NONE", "PROCESSING", "PROCESSED", "FAILED"},
                            stale: BOOLEAN]]
    /\ \A h \in Handlers : At(h, "idle") \/ handler[h].return \in returns
    /\ checkout.pc \in {"idle", "write", "answer"}
    /\ checkout.pc = "answer" => payments[checkout.order].status = "PENDING"
    /\ gateway \in [Orders -> Outcomes \cup {"unknown", "open"}]
    /\ returns \subseteq Return
    /\ crashes \in 0..MaxCrashes /\ faults \in 0..MaxFaults

\* A payment is confirmed, and the membership activated, only for an order AZUL
\* approved; and an active membership is of the tier of such an order.
Paid(o) == gateway[o] = "approved"
ActiveMeansPaid ==
    /\ \A o \in Orders : payments[o].status = "APPROVED" => Paid(o)
    /\ configured /\ settings.status = "ACTIVE"
         => \E o \in Orders : Paid(o) /\ settings.tier = payments[o].plan.tier

\* However often its return is delivered or retried, an order activates the
\* membership once.
ActivatedOnce == \A o \in Orders : activations[o] <= 1

\* An approved return that is done with has been acted upon: what a later
\* delivery takes for a duplicate was not lost.
ProcessedMeansActivated ==
    \A o \in Orders : event[<<"approved", o, FALSE>>].status = "PROCESSED"
                      /\ [outcome |-> "approved", order |-> o, bare |-> FALSE, ok |-> TRUE] \in returns
                      => activations[o] > 0

\* Whoever paid for a membership, and was activated, has it, whatever other
\* checkouts they begin.
PaidHasAccess ==
    configured /\ (\E o \in Orders : activations[o] > 0) => settings.status = "ACTIVE"

\* What the shop confirmed ceases to be confirmed only by a decline or a cancellation
\* that AZUL did send of that very order, before it approved the order, and that is
\* handled late; it overwrites the status alone, and the membership stays as it is.
Contradicts(m, o) == m.order = o /\ m.outcome # "approved" /\ PayAgain
ConfirmedUntilContradicted ==
    [][\A o \in Orders :
         payments[o].status = "APPROVED" /\ payments'[o].status # "APPROVED"
         => /\ \E m \in returns :
                 /\ Contradicts(m, o)
                 /\ payments' = [payments EXCEPT ![o].status = RejectedStatus(m.outcome)]
            /\ UNCHANGED <<settings, activations>>]_vars

\* A paid order is confirmed as long as its return keeps coming, whatever
\* crash or failure its handlers meet.
Approval(o) == [outcome |-> "approved", order |-> o, bare |-> FALSE, ok |-> TRUE]
KeepsComing(o) == []<><<\E h \in Handlers : Deliver(h, Approval(o))>>_vars
ConfirmedInTheEnd ==
    \A o \in Orders : KeepsComing(o) /\ configured => <>(activations[o] > 0)
=============================================================================
