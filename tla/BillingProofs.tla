---------------------------- MODULE BillingProofs ----------------------------
(***************************************************************************)
(* Only who paid is a member, and what a later delivery takes for a        *)
(* duplicate was acted upon: for any number of orders and handlers, however *)
(* returns and checkouts overlap, crash, fail and go stale.                *)
(***************************************************************************)
EXTENDS Billing, FiniteSetTheorems, TLAPS

Places == {"idle", "begin", "existing", "claim", "fail"} \cup Working
HandlerForm == [pc: Places, return: Return \cup {[outcome |-> "none"]}, seen: {"NONE"}]
CheckoutForm == [pc: {"idle", "write", "answer"}, order: Orders \cup {"none"},
                 plan: Plans \cup {NoPlan}, seen: BillingStatuses]

\* The requests and the counts have their types too.
Forms ==
    /\ handler \in [Handlers -> HandlerForm]
    /\ checkout \in CheckoutForm
    /\ checkout.pc = "answer" => checkout.order \in Orders
    /\ activations \in [Orders -> Nat]

\* AZUL learns of an order when its form is answered, decides it later, and signs an
\* approval of what it approved alone.
KnownToAzul ==
    /\ \A o \in Orders : payments[o].status = "NONE" => gateway[o] = "unknown"
    /\ checkout.pc = "answer" => gateway[checkout.order] = "unknown"
    /\ \A m \in returns : /\ gateway[m.order] # "unknown"
                          /\ m.ok <=> m.outcome = "approved" /\ ~m.bare
                          /\ m.ok => Paid(m.order)

\* A handler stands where its return leads it, and has activated what it says it has.
OnItsWay(h) ==
    /\ handler[h].pc \in {"activate", "audit"} => Approves(handler[h].return)
    /\ handler[h].pc = "reject" => ~Approves(handler[h].return)
    /\ handler[h].pc \in {"audit", "done"} /\ Approves(handler[h].return)
       => activations[O(h)] > 0

Confirmed == \A o \in Orders : payments[o].status = "APPROVED" => Paid(o) /\ activations[o] > 0

\* The tier is that of an order that was paid for, as soon as a checkout has read ACTIVE.
TierIsPaid ==
    /\ configured
    /\ settings.status = "ACTIVE" \/ (checkout.pc = "write" /\ checkout.seen = "ACTIVE")
    => \E o \in Orders : Paid(o) /\ settings.tier = payments[o].plan.tier

ApprovalsActedUpon ==
    \A o \in Orders : event[<<"approved", o, FALSE>>].status = "PROCESSED" => activations[o] > 0

PaidInv ==
    /\ TypeOK /\ Forms
    /\ KnownToAzul /\ Confirmed /\ TierIsPaid
    /\ \A h \in Handlers : OnItsWay(h)
    /\ ApprovalsActedUpon

-----------------------------------------------------------------------------
LEMMA PlansAreTyped ==
    ASSUME NEW plan \in Plans \cup {NoPlan}
    PROVE  /\ plan.tier \in {"FREE", "NORMAL", "PRO"}
           /\ plan.interval \in {"NONE", "MONTHLY", "ANNUAL"}
<1>1. CASE plan \in Plans
  BY <1>1, BillingAssumption DEF BillingAssumption
<1>2. CASE plan = NoPlan
  BY <1>2 DEF NoPlan
<1> QED
  BY <1>1, <1>2

LEMMA BoundsAreNumbers == MaxCrashes \in Nat /\ MaxFaults \in Nat
BY Zenon, BillingAssumption DEF BillingAssumption

LEMMA IdleForms == IdleHandler \in HandlerForm /\ IdleCheckout \in CheckoutForm
BY DEF IdleHandler, HandlerForm, Places, IdleCheckout, CheckoutForm, BillingStatuses

\* A handler that is not idle has a return that was handed out, of an order and an event.
LEMMA AtWork ==
    ASSUME TypeOK, NEW h \in Handlers, ~At(h, "idle")
    PROVE  /\ handler[h].return \in returns /\ handler[h].return \in Return
           /\ O(h) \in Orders /\ E(h) \in Event
BY DEF TypeOK, O, E, EventOf, Return, Event

LEMMA InitPaid == Init => PaidInv
<1> SUFFICES ASSUME Init PROVE PaidInv
  OBVIOUS
<1>1. TypeOK
  <2>1. /\ payments \in [Orders -> [status: {"NONE", "PENDING", "APPROVED", "DECLINED", "CANCELED"},
                                    plan: Plans \cup {NoPlan}]]
        /\ event \in [Event -> [status: {"NONE", "PROCESSING", "PROCESSED", "FAILED"},
                                stale: BOOLEAN]]
    BY DEF Init
  <2>2. settings \in [tier: {"FREE", "NORMAL", "PRO"}, status: BillingStatuses,
                      interval: {"NONE", "MONTHLY", "ANNUAL"}, recurring: {FALSE}]
    BY DEF Init, BillingStatuses
  <2>3. \A h \in Handlers : At(h, "idle")
    BY DEF Init, At, IdleHandler
  <2>4. checkout.pc = "idle"
    BY DEF Init, IdleCheckout
  <2>5. gateway \in [Orders -> Outcomes \cup {"unknown", "open"}] /\ returns \subseteq Return
    BY DEF Init
  <2>6. crashes \in 0..MaxCrashes /\ faults \in 0..MaxFaults
    BY BoundsAreNumbers DEF Init
  <2> QED
    BY Zenon, <2>1, <2>2, <2>3, <2>4, <2>5, <2>6 DEF TypeOK
<1>2. Forms
  BY IdleForms DEF Init, Forms, IdleCheckout
<1>3. KnownToAzul
  BY DEF Init, KnownToAzul, IdleCheckout
<1>4. Confirmed /\ TierIsPaid
  BY DEF Init, Confirmed, TierIsPaid, IdleCheckout
<1>5. \A h \in Handlers : OnItsWay(h)
  BY DEF Init, OnItsWay, IdleHandler
<1>6. ApprovalsActedUpon
  BY DEF Init, ApprovalsActedUpon, Event, Outcomes
<1> QED
  BY <1>1, <1>2, <1>3, <1>4, <1>5, <1>6 DEF PaidInv

-----------------------------------------------------------------------------
(* The checkouts.                                                          *)

LEMMA StartKeeps ==
    ASSUME PaidInv, NEW plan \in Plans, StartCheckout(plan)
    PROVE  PaidInv'
<1> USE DEF PaidInv, StartCheckout, rows, azul, bounds
<1>1. checkout' \in CheckoutForm /\ checkout'.pc = "write" /\ checkout'.seen = settings.status
  BY DEF Forms, CheckoutForm, TypeOK
<1>2. TypeOK'
  BY <1>1 DEF TypeOK, At
<1>3. Forms'
  BY <1>1 DEF Forms
<1>4. KnownToAzul' /\ Confirmed' /\ TierIsPaid'
  BY <1>1 DEF KnownToAzul, Confirmed, TierIsPaid, Paid
<1>5. (\A h \in Handlers : OnItsWay(h))' /\ ApprovalsActedUpon'
  BY DEF OnItsWay, O, Approves, ApprovalsActedUpon
<1> QED
  BY <1>2, <1>3, <1>4, <1>5

LEMMA CommitKeeps ==
    ASSUME PaidInv, CommitCheckout PROVE PaidInv'
<1> USE DEF PaidInv, CommitCheckout, azul, bounds
<1>1. PICK o \in Orders :
        /\ payments[o].status = "NONE"
        /\ payments' = [payments EXCEPT ![o] = [status |-> "PENDING", plan |-> checkout.plan]]
        /\ checkout' = [checkout EXCEPT !.pc = "answer", !.order = o]
  OBVIOUS
<1>2. checkout \in CheckoutForm /\ checkout.plan \in Plans \cup {NoPlan}
  BY DEF Forms, CheckoutForm
<1>3. checkout' \in CheckoutForm /\ checkout'.pc = "answer" /\ checkout'.order = o
  BY <1>1, <1>2 DEF CheckoutForm
<1>4. /\ payments'[o].status = "PENDING" /\ \A p \in Orders \ {o} : payments'[p] = payments[p]
      /\ payments' \in [Orders -> [status: {"NONE", "PENDING", "APPROVED", "DECLINED", "CANCELED"},
                                   plan: Plans \cup {NoPlan}]]
  BY <1>1, <1>2 DEF TypeOK
<1>5. /\ settings' \in [tier: {"FREE", "NORMAL", "PRO"}, status: BillingStatuses,
                         interval: {"NONE", "MONTHLY", "ANNUAL"}, recurring: {FALSE}]
      /\ settings'.tier = settings.tier
      /\ settings'.status = "ACTIVE" => checkout.pc = "write" /\ checkout.seen = "ACTIVE"
  BY <1>2, PlansAreTyped DEF TypeOK, StatusAfterCheckout, BillingStatuses
<1>6. TypeOK'
  BY <1>3, <1>4, <1>5 DEF TypeOK, At
<1>7. Forms'
  BY <1>3 DEF Forms
<1>8. gateway[o] = "unknown"
  BY <1>1 DEF KnownToAzul
<1>9. KnownToAzul' /\ Confirmed'
  BY <1>3, <1>4, <1>8 DEF KnownToAzul, Confirmed, Paid
<1>10. TierIsPaid'
  BY <1>3, <1>4, <1>5, <1>8 DEF TierIsPaid, Paid
<1>11. (\A h \in Handlers : OnItsWay(h))' /\ ApprovalsActedUpon'
  BY DEF OnItsWay, O, Approves, ApprovalsActedUpon
<1> QED
  BY <1>6, <1>7, <1>9, <1>10, <1>11

LEMMA AnswerKeeps ==
    ASSUME PaidInv, AnswerCheckout PROVE PaidInv'
<1> USE DEF PaidInv, AnswerCheckout, rows, bounds
<1>1. checkout.order \in Orders /\ gateway[checkout.order] = "unknown"
      /\ payments[checkout.order].status = "PENDING"
  BY DEF Forms, KnownToAzul, TypeOK
<1>2. /\ gateway' \in [Orders -> Outcomes \cup {"unknown", "open"}]
      /\ gateway'[checkout.order] = "open"
      /\ \A p \in Orders \ {checkout.order} : gateway'[p] = gateway[p]
  BY <1>1 DEF TypeOK
<1>3. checkout'.pc = "idle" /\ checkout' \in CheckoutForm
  BY IdleForms DEF IdleCheckout
<1>4. TypeOK'
  BY <1>2, <1>3 DEF TypeOK, At
<1>5. Forms'
  BY <1>3 DEF Forms
<1>6. \A m \in returns : m.order \in Orders
  BY DEF TypeOK, Return
<1>7. KnownToAzul'
  BY <1>1, <1>2, <1>3, <1>6 DEF KnownToAzul, Paid
<1>8. Confirmed' /\ TierIsPaid'
  BY <1>1, <1>2, <1>3 DEF Confirmed, TierIsPaid, Paid
<1>9. (\A h \in Handlers : OnItsWay(h))' /\ ApprovalsActedUpon'
  BY DEF OnItsWay, O, Approves, ApprovalsActedUpon
<1> QED
  BY <1>4, <1>5, <1>7, <1>8, <1>9

LEMMA AbortKeeps ==
    ASSUME PaidInv, AbortCheckout PROVE PaidInv'
<1> USE DEF PaidInv, AbortCheckout, rows, azul
<1>1. checkout'.pc = "idle" /\ checkout' \in CheckoutForm
  BY IdleForms DEF IdleCheckout
<1>2. crashes' \in 0..MaxCrashes
  BY BoundsAreNumbers DEF TypeOK
<1>3. TypeOK'
  BY <1>1, <1>2 DEF TypeOK, At
<1>4. Forms'
  BY <1>1 DEF Forms
<1>5. KnownToAzul' /\ Confirmed' /\ TierIsPaid'
  BY <1>1 DEF KnownToAzul, Confirmed, TierIsPaid, Paid
<1>6. (\A h \in Handlers : OnItsWay(h))' /\ ApprovalsActedUpon'
  BY DEF OnItsWay, O, Approves, ApprovalsActedUpon
<1> QED
  BY <1>3, <1>4, <1>5, <1>6

LEMMA ChooseKeeps ==
    ASSUME PaidInv, NEW tier \in {"FREE", "NORMAL", "PRO"}, ChoosePlan(tier)
    PROVE  PaidInv'
<1> USE DEF PaidInv, ChoosePlan, azul, bounds
<1>1. settings' \in [tier: {"FREE", "NORMAL", "PRO"}, status: BillingStatuses,
                     interval: {"NONE", "MONTHLY", "ANNUAL"}, recurring: {FALSE}]
  BY DEF TypeOK, BillingStatuses
<1>2. TypeOK' /\ Forms'
  BY <1>1 DEF TypeOK, Forms, At
<1>3. KnownToAzul' /\ Confirmed' /\ TierIsPaid'
  BY DEF KnownToAzul, Confirmed, TierIsPaid, Paid
<1>4. (\A h \in Handlers : OnItsWay(h))' /\ ApprovalsActedUpon'
  BY DEF OnItsWay, O, Approves, ApprovalsActedUpon
<1> QED
  BY <1>2, <1>3, <1>4

-----------------------------------------------------------------------------
(* AZUL and the browser.                                                   *)

LEMMA DecideKeeps ==
    ASSUME PaidInv, NEW o \in Orders, NEW outcome \in Outcomes, Decide(o, outcome)
    PROVE  PaidInv'
<1> USE DEF PaidInv, Decide, rows, bounds
<1> DEFINE new == [outcome |-> outcome, order |-> o, bare |-> outcome = "cancelled",
                   ok |-> outcome = "approved"]
<1>1. new \in Return /\ returns' = returns \cup {new}
  BY DEF Return
<1>2. /\ gateway' \in [Orders -> Outcomes \cup {"unknown", "open"}]
      /\ gateway'[o] # "unknown" /\ (outcome = "approved" => gateway'[o] = "approved")
      /\ \A p \in Orders \ {o} : gateway'[p] = gateway[p]
  BY DEF TypeOK, Outcomes
<1>3. gateway[o] = "open"
  OBVIOUS
<1>4. TypeOK'
  BY <1>1, <1>2 DEF TypeOK, At
<1>5. Forms'
  BY DEF Forms
<1>6. \A m \in returns : m.order \in Orders
  BY DEF TypeOK, Return
<1>7. KnownToAzul'
  <2>1. (\A p \in Orders : payments[p].status = "NONE" => gateway[p] = "unknown")'
    BY <1>2, <1>3 DEF KnownToAzul
  <2>2. (checkout.pc = "answer" => gateway[checkout.order] = "unknown")'
    BY <1>2, <1>3 DEF KnownToAzul, Forms
  <2>3. ASSUME NEW m \in returns
        PROVE  /\ gateway'[m.order] # "unknown" /\ (m.ok <=> m.outcome = "approved" /\ ~m.bare)
               /\ m.ok => gateway'[m.order] = "approved"
    BY <1>2, <1>3, <1>6 DEF KnownToAzul, Paid
  <2>4. /\ gateway'[new.order] # "unknown" /\ (new.ok <=> new.outcome = "approved" /\ ~new.bare)
        /\ new.ok => gateway'[new.order] = "approved"
    BY <1>2
  <2> QED
    BY <1>1, <2>1, <2>2, <2>3, <2>4 DEF KnownToAzul, Paid
<1>8. Confirmed' /\ TierIsPaid'
  BY <1>2, <1>3 DEF Confirmed, TierIsPaid, Paid
<1>9. (\A h \in Handlers : OnItsWay(h))' /\ ApprovalsActedUpon'
  BY DEF OnItsWay, O, Approves, ApprovalsActedUpon
<1> QED
  BY <1>4, <1>5, <1>7, <1>8, <1>9

LEMMA LoseKeeps ==
    ASSUME PaidInv, NEW m \in returns, LoseParameters(m) PROVE PaidInv'
<1> USE DEF PaidInv, LoseParameters, rows, bounds
<1> DEFINE new == [m EXCEPT !.bare = TRUE, !.ok = FALSE]
<1>1. m \in Return
  BY DEF TypeOK
<1>2. new \in Return /\ new.order = m.order /\ new.bare = TRUE /\ new.ok = FALSE
  BY <1>1 DEF Return
<1>3. returns' = returns \cup {new}
  OBVIOUS
<1>4. TypeOK'
  BY <1>2, <1>3 DEF TypeOK, At
<1>5. KnownToAzul'
  BY <1>2, <1>3 DEF KnownToAzul, Paid
<1>6. Forms' /\ Confirmed' /\ TierIsPaid'
  BY DEF Forms, Confirmed, TierIsPaid, Paid
<1>7. (\A h \in Handlers : OnItsWay(h))' /\ ApprovalsActedUpon'
  BY DEF OnItsWay, O, Approves, ApprovalsActedUpon
<1> QED
  BY <1>4, <1>5, <1>6, <1>7

-----------------------------------------------------------------------------
(* The handlers.                                                           *)

\* What a step of a handler leaves in order among the handlers.
HandlersInOrder ==
    /\ Forms
    /\ \A h \in Handlers : OnItsWay(h) /\ (At(h, "idle") \/ handler[h].return \in returns)

\* A handler that moves to a place its return allows.
LEMMA Moves ==
    ASSUME PaidInv, NEW h \in Handlers, ~At(h, "idle"), NEW pc \in Places, Goto(h, pc),
           UNCHANGED <<checkout, returns>>, activations' \in [Orders -> Nat],
           \A o \in Orders : activations[o] > 0 => activations'[o] > 0,
           pc \in {"activate", "audit"} => Approves(handler[h].return),
           pc = "reject" => ~Approves(handler[h].return),
           pc \in {"audit", "done"} /\ Approves(handler[h].return) => activations'[O(h)] > 0
    PROVE  HandlersInOrder'
<1>1. handler \in [Handlers -> HandlerForm]
  BY DEF PaidInv, Forms
<1>2. handler'[h] \in HandlerForm /\ handler'[h].pc = pc /\ handler'[h].return = handler[h].return
  BY <1>1 DEF Goto, HandlerForm
<1>3. \A g \in Handlers \ {h} : handler'[g] = handler[g]
  BY <1>1 DEF Goto
<1>4. handler' \in [Handlers -> HandlerForm]
  BY <1>1, <1>2 DEF Goto
<1>5. Forms'
  BY <1>4 DEF PaidInv, Forms
<1>6. OnItsWay(h)' /\ handler'[h].return \in returns'
  BY <1>2, AtWork DEF PaidInv, OnItsWay, O
<1>7. ASSUME NEW g \in Handlers \ {h}
      PROVE  OnItsWay(g)' /\ (At(g, "idle") \/ handler[g].return \in returns)'
  <2>1. At(g, "idle") \/ handler[g].return \in returns
    BY DEF PaidInv, TypeOK
  <2>2. handler[g].pc \in {"audit", "done"} => O(g) \in Orders
    BY AtWork DEF PaidInv, At
  <2> QED
    BY <1>3, <2>1, <2>2 DEF PaidInv, OnItsWay, O, At
<1> QED
  BY <1>5, <1>6, <1>7 DEF HandlersInOrder

LEMMA Ends ==
    ASSUME PaidInv, NEW h \in Handlers, Finish(h), UNCHANGED <<checkout, returns, activations>>
    PROVE  HandlersInOrder'
<1>1. handler \in [Handlers -> HandlerForm] /\ IdleHandler.pc = "idle"
  BY DEF PaidInv, Forms, IdleHandler
<1>2. handler'[h] = IdleHandler /\ handler' \in [Handlers -> HandlerForm]
  BY <1>1, IdleForms DEF Finish
<1>3. \A g \in Handlers \ {h} : handler'[g] = handler[g]
  BY <1>1 DEF Finish
<1>4. Forms'
  BY <1>2 DEF PaidInv, Forms
<1>5. OnItsWay(h)' /\ At(h, "idle")'
  BY <1>1, <1>2 DEF OnItsWay, At
<1>6. \A g \in Handlers \ {h} : OnItsWay(g)' /\ (At(g, "idle") \/ handler[g].return \in returns)'
  BY <1>3 DEF PaidInv, TypeOK, OnItsWay, O, At
<1> QED
  BY <1>4, <1>5, <1>6 DEF HandlersInOrder

\* A step of a handler that touches no row but an event, and leaves AZUL alone.
LEMMA Aside ==
    ASSUME PaidInv, HandlersInOrder', ApprovalsActedUpon',
           UNCHANGED <<payments, settings, checkout, configured, azul, activations>>,
           event' \in [Event -> [status: {"NONE", "PROCESSING", "PROCESSED", "FAILED"},
                                 stale: BOOLEAN]],
           crashes' \in 0..MaxCrashes, faults' \in 0..MaxFaults
    PROVE  PaidInv'
<1>1. TypeOK'
  BY DEF PaidInv, TypeOK, HandlersInOrder, azul
<1>2. KnownToAzul' /\ Confirmed' /\ TierIsPaid'
  BY DEF PaidInv, KnownToAzul, Confirmed, TierIsPaid, Paid, azul
<1> QED
  BY <1>1, <1>2 DEF PaidInv, HandlersInOrder

LEMMA Unmarked ==
    ASSUME PaidInv, HandlersInOrder', UNCHANGED <<rows, checkout, configured, azul, activations>>,
           crashes' \in 0..MaxCrashes, faults' \in 0..MaxFaults
    PROVE  PaidInv'
<1>1. ApprovalsActedUpon'
  BY DEF PaidInv, ApprovalsActedUpon, rows
<1>2. event' \in [Event -> [status: {"NONE", "PROCESSING", "PROCESSED", "FAILED"},
                            stale: BOOLEAN]]
  BY DEF PaidInv, TypeOK, rows
<1> QED
  BY <1>1, <1>2, Aside DEF rows

\* An event is marked, as processed only when its approval was acted upon.
LEMMA Marked ==
    ASSUME PaidInv, HandlersInOrder', NEW h \in Handlers, ~At(h, "idle"),
           NEW status \in {"PROCESSING", "PROCESSED", "FAILED"}, MarkEvent(h, status),
           status = "PROCESSED" /\ Approves(handler[h].return) => activations[O(h)] > 0,
           UNCHANGED <<payments, settings, checkout, configured, azul, activations, bounds>>
    PROVE  PaidInv'
<1>1. E(h) \in Event /\ handler[h].return \in returns /\ handler[h].return \in Return
  BY AtWork DEF PaidInv
<1>2. event' \in [Event -> [status: {"NONE", "PROCESSING", "PROCESSED", "FAILED"},
                            stale: BOOLEAN]]
  BY <1>1 DEF MarkEvent, PaidInv, TypeOK
<1>3. ASSUME NEW o \in Orders, event'[<<"approved", o, FALSE>>].status = "PROCESSED"
      PROVE  activations[o] > 0
  <2>1. <<"approved", o, FALSE>> \in Event
    BY DEF Event, Outcomes
  <2>2. CASE E(h) = <<"approved", o, FALSE>>
    <3>1. handler[h].return.outcome = "approved" /\ O(h) = o /\ ~handler[h].return.bare
      BY <2>2 DEF E, EventOf, O
    <3>2. Approves(handler[h].return)
      BY <1>1, <3>1 DEF PaidInv, KnownToAzul, Approves
    <3>3. status = "PROCESSED"
      BY <1>3, <2>1, <2>2 DEF MarkEvent, PaidInv, TypeOK
    <3> QED
      BY <3>1, <3>2, <3>3
  <2>3. CASE E(h) # <<"approved", o, FALSE>>
    BY <1>3, <2>1, <2>3 DEF MarkEvent, PaidInv, TypeOK, ApprovalsActedUpon
  <2> QED
    BY <2>2, <2>3
<1>4. ApprovalsActedUpon'
  BY <1>3 DEF ApprovalsActedUpon
<1> QED
  BY <1>2, <1>4, Aside DEF bounds, PaidInv, TypeOK

LEMMA DeliverKeeps ==
    ASSUME PaidInv, NEW h \in Handlers, NEW m \in returns, Deliver(h, m) PROVE PaidInv'
<1>1. handler \in [Handlers -> HandlerForm] /\ m \in Return
  BY DEF PaidInv, Forms, TypeOK
<1>2. handler'[h] = [IdleHandler EXCEPT !.pc = "begin", !.return = m]
  BY <1>1 DEF Deliver
<1>3. handler'[h] \in HandlerForm /\ handler'[h].pc = "begin" /\ handler'[h].return = m
  BY <1>1, <1>2 DEF IdleHandler, HandlerForm, Places
<1>4. handler' \in [Handlers -> HandlerForm]
      /\ \A g \in Handlers \ {h} : handler'[g] = handler[g]
  BY <1>1, <1>3 DEF Deliver
<1>5. Forms'
  BY <1>4 DEF PaidInv, Forms, Deliver
<1>6. OnItsWay(h)' /\ handler'[h].return \in returns'
  BY <1>3 DEF OnItsWay, Deliver, azul
<1>7. \A g \in Handlers \ {h} : OnItsWay(g)' /\ (At(g, "idle") \/ handler[g].return \in returns)'
  BY <1>4 DEF PaidInv, TypeOK, OnItsWay, O, At, Deliver, azul
<1>8. HandlersInOrder'
  BY <1>5, <1>6, <1>7 DEF HandlersInOrder
<1> QED
  BY <1>8, Unmarked DEF Deliver, PaidInv, TypeOK, bounds

LEMMA CreateKeeps ==
    ASSUME PaidInv, NEW h \in Handlers, CreateEvent(h) PROVE PaidInv'
<1>1. ~At(h, "idle") /\ UNCHANGED <<checkout, returns, activations>>
  BY DEF CreateEvent, At, azul
<1>2. activations \in [Orders -> Nat]
  BY DEF PaidInv, Forms
<1>3. CASE MarkEvent(h, "PROCESSING") /\ Goto(h, "read")
  <2>1. HandlersInOrder'
    BY <1>1, <1>2, <1>3, Moves DEF Places, Working
  <2> QED
    BY <1>1, <1>3, <2>1, Marked DEF CreateEvent
<1>4. CASE UNCHANGED event /\ Goto(h, "existing")
  <2>1. HandlersInOrder'
    BY <1>1, <1>2, <1>4, Moves DEF Places
  <2> QED
    BY <1>4, <2>1, Unmarked DEF CreateEvent, rows, bounds, PaidInv, TypeOK
<1> QED
  BY <1>3, <1>4 DEF CreateEvent

LEMMA ReadEventKeeps ==
    ASSUME PaidInv, NEW h \in Handlers, ReadEvent(h) PROVE PaidInv'
<1>1. ~At(h, "idle") /\ UNCHANGED <<checkout, returns, activations>>
  BY DEF ReadEvent, At, azul
<1>2. activations \in [Orders -> Nat]
  BY DEF PaidInv, Forms
<1>3. HandlersInOrder'
  BY <1>1, <1>2, Moves, Ends DEF ReadEvent, Places
<1> QED
  BY <1>3, Unmarked DEF ReadEvent, bounds, PaidInv, TypeOK

LEMMA ClaimKeeps ==
    ASSUME PaidInv, NEW h \in Handlers, ClaimEvent(h) PROVE PaidInv'
<1>1. ~At(h, "idle") /\ UNCHANGED <<checkout, returns, activations>>
  BY DEF ClaimEvent, At, azul
<1>2. activations \in [Orders -> Nat]
  BY DEF PaidInv, Forms
<1>3. HandlersInOrder'
  BY <1>1, <1>2, Moves DEF ClaimEvent, Places, Working
<1> QED
  BY <1>1, <1>3, Marked DEF ClaimEvent

LEMMA ReadPaymentKeeps ==
    ASSUME PaidInv, NEW h \in Handlers, ReadPayment(h) PROVE PaidInv'
<1> DEFINE m == handler[h].return
           pc == IF Valid(m) THEN NextStep(m, payments[m.order].status) ELSE "fail"
<1>1. ~At(h, "idle") /\ UNCHANGED <<checkout, returns, activations>> /\ Goto(h, pc)
  BY DEF ReadPayment, At, azul
<1>2. activations \in [Orders -> Nat] /\ O(h) \in Orders /\ m.order = O(h)
  BY <1>1, AtWork DEF PaidInv, Forms, O
<1>3. pc \in {"activate", "reject", "done", "fail"}
  BY DEF NextStep
<1>4. pc = "activate" => Approves(m)
  BY DEF NextStep
<1>5. pc = "reject" => ~Approves(m)
  BY DEF NextStep
<1>6. pc = "done" => payments[O(h)].status = "APPROVED"
  BY <1>2 DEF NextStep
<1>7. pc = "done" => activations'[O(h)] > 0
  BY <1>1, <1>2, <1>6 DEF PaidInv, Confirmed
<1>8. HandlersInOrder'
  <2> HIDE DEF pc
  <2> QED
    BY <1>1, <1>2, <1>3, <1>4, <1>5, <1>7, Moves DEF Places, Working
<1> QED
  BY <1>8, Unmarked DEF ReadPayment, bounds, PaidInv, TypeOK

\* One transaction: AZUL approved the order, whose plan becomes the membership's.
LEMMA ActivateKeeps ==
    ASSUME PaidInv, NEW h \in Handlers, Activate(h) PROVE PaidInv'
<1> DEFINE o == O(h)
<1>1. ~At(h, "idle") /\ UNCHANGED <<checkout, configured, event, azul, bounds>>
  BY DEF Activate, At
<1>2. o \in Orders /\ handler[h].return \in returns /\ Approves(handler[h].return)
  BY <1>1, AtWork DEF PaidInv, OnItsWay, Activate, At
<1>3. Paid(o) /\ gateway[o] # "unknown"
  BY <1>2 DEF PaidInv, KnownToAzul, Approves, O
<1>4. payments[o].status # "NONE" /\ payments[o].plan \in Plans \cup {NoPlan}
  BY <1>2, <1>3 DEF PaidInv, KnownToAzul, TypeOK
<1>5. /\ payments' \in [Orders -> [status: {"NONE", "PENDING", "APPROVED", "DECLINED", "CANCELED"},
                                   plan: Plans \cup {NoPlan}]]
      /\ payments'[o].status = "APPROVED"
      /\ \A p \in Orders : payments'[p].plan = payments[p].plan
      /\ \A p \in Orders \ {o} : payments'[p] = payments[p]
  BY <1>2 DEF Activate, PaidInv, TypeOK
<1>6. /\ activations' \in [Orders -> Nat] /\ activations'[o] > 0
      /\ \A p \in Orders : activations[p] > 0 => activations'[p] > 0
  <2>1. activations \in [Orders -> Nat] /\ activations' = [activations EXCEPT ![o] = @ + 1]
    BY DEF Activate, PaidInv, Forms
  <2> HIDE DEF o
  <2> QED
    BY <1>2, <2>1
<1>7. /\ settings' \in [tier: {"FREE", "NORMAL", "PRO"}, status: BillingStatuses,
                         interval: {"NONE", "MONTHLY", "ANNUAL"}, recurring: {FALSE}]
      /\ settings'.tier = payments[o].plan.tier
  BY <1>4, PlansAreTyped DEF Activate, PaidInv, TypeOK, BillingStatuses
<1>8. HandlersInOrder'
  BY <1>1, <1>2, <1>6, Moves DEF Activate, Places, Working, azul
<1>9. checkout.pc = "answer" => checkout.order # o /\ checkout.order \in Orders
  BY <1>3 DEF PaidInv, KnownToAzul, Forms
<1>10. TypeOK'
  BY <1>1, <1>5, <1>7, <1>8, <1>9 DEF PaidInv, TypeOK, HandlersInOrder, azul, bounds
<1>11. KnownToAzul' /\ Confirmed'
  BY <1>1, <1>3, <1>5, <1>6 DEF PaidInv, KnownToAzul, Confirmed, Paid, azul
<1>12. TierIsPaid'
  BY <1>1, <1>2, <1>3, <1>5, <1>7 DEF TierIsPaid, Paid, azul
<1>13. ApprovalsActedUpon'
  BY <1>1, <1>6 DEF PaidInv, ApprovalsActedUpon
<1> QED
  BY <1>8, <1>10, <1>11, <1>12, <1>13 DEF PaidInv, HandlersInOrder

LEMMA AuditKeeps ==
    ASSUME PaidInv, NEW h \in Handlers, AuditActivation(h) PROVE PaidInv'
<1>1. ~At(h, "idle") /\ UNCHANGED <<checkout, returns, activations>>
  BY DEF AuditActivation, At, azul
<1>2. activations \in [Orders -> Nat]
  BY DEF PaidInv, Forms
<1>3. Approves(handler[h].return) => activations[O(h)] > 0
  BY DEF PaidInv, OnItsWay, AuditActivation, At
<1>4. HandlersInOrder'
  BY <1>1, <1>2, <1>3, Moves DEF AuditActivation, Places, Working
<1> QED
  BY <1>4, Unmarked DEF AuditActivation, bounds, PaidInv, TypeOK

LEMMA RejectKeeps ==
    ASSUME PaidInv, NEW h \in Handlers, Reject(h) PROVE PaidInv'
<1> DEFINE o == O(h)
<1>1. /\ ~At(h, "idle")
      /\ UNCHANGED <<settings, checkout, configured, event, azul, activations, bounds>>
  BY DEF Reject, At
<1>2. o \in Orders /\ handler[h].return \in returns /\ ~Approves(handler[h].return)
  BY <1>1, AtWork DEF PaidInv, OnItsWay, Reject, At
<1>3. gateway[o] # "unknown"
  BY <1>2 DEF PaidInv, KnownToAzul, O
<1>4. RejectedStatus(handler[h].return.outcome) \in {"CANCELED", "DECLINED"}
  BY DEF RejectedStatus
<1>5. /\ payments' \in [Orders -> [status: {"NONE", "PENDING", "APPROVED", "DECLINED", "CANCELED"},
                                   plan: Plans \cup {NoPlan}]]
      /\ payments'[o].status \notin {"APPROVED", "NONE"}
      /\ \A p \in Orders : payments'[p].plan = payments[p].plan
      /\ \A p \in Orders \ {o} : payments'[p] = payments[p]
  BY <1>2, <1>4 DEF Reject, PaidInv, TypeOK
<1>6. HandlersInOrder'
  BY <1>1, <1>2, Moves DEF Reject, Places, Working, azul, PaidInv, Forms
<1>7. checkout.pc = "answer" => checkout.order # o /\ checkout.order \in Orders
  BY <1>3 DEF PaidInv, KnownToAzul, Forms
<1>8. TypeOK'
  BY <1>1, <1>5, <1>6, <1>7 DEF PaidInv, TypeOK, HandlersInOrder, azul, bounds
<1>9. KnownToAzul' /\ Confirmed' /\ TierIsPaid'
  BY <1>1, <1>5 DEF PaidInv, KnownToAzul, Confirmed, TierIsPaid, Paid, azul
<1>10. ApprovalsActedUpon'
  BY <1>1 DEF PaidInv, ApprovalsActedUpon
<1> QED
  BY <1>6, <1>8, <1>9, <1>10 DEF PaidInv, HandlersInOrder

LEMMA MarkKeeps ==
    ASSUME PaidInv, NEW h \in Handlers, MarkProcessed(h) \/ MarkFailed(h) PROVE PaidInv'
<1>1. ~At(h, "idle") /\ UNCHANGED <<checkout, returns, activations>> /\ Finish(h)
  BY DEF MarkProcessed, MarkFailed, At, azul
<1>2. HandlersInOrder'
  BY <1>1, Ends
<1>3. At(h, "done") /\ Approves(handler[h].return) => activations[O(h)] > 0
  BY DEF PaidInv, OnItsWay, At
<1> QED
  BY <1>1, <1>2, <1>3, Marked DEF MarkProcessed, MarkFailed

LEMMA FailuresKeep ==
    ASSUME PaidInv, NEW h \in Handlers, Fault(h) \/ CrashHandler(h) PROVE PaidInv'
<1>1. ~At(h, "idle") /\ UNCHANGED <<rows, checkout, configured, azul, activations>>
      /\ UNCHANGED returns
  BY DEF Fault, CrashHandler, azul
<1>2. activations \in [Orders -> Nat]
  BY DEF PaidInv, Forms
<1>3. crashes' \in 0..MaxCrashes /\ faults' \in 0..MaxFaults
  BY BoundsAreNumbers DEF PaidInv, TypeOK, Fault, CrashHandler
<1>4. Finish(h) \/ Goto(h, "fail")
  BY DEF Fault, CrashHandler, AfterFault
<1>5. HandlersInOrder'
  BY <1>1, <1>2, <1>4, Moves, Ends DEF Places
<1> QED
  BY <1>1, <1>3, <1>5, Unmarked

LEMMA StaleKeeps ==
    ASSUME PaidInv, NEW e \in Event, GoStale(e) PROVE PaidInv'
<1>1. /\ event' \in [Event -> [status: {"NONE", "PROCESSING", "PROCESSED", "FAILED"},
                               stale: BOOLEAN]]
      /\ \A d \in Event : event'[d].status = event[d].status
  BY DEF GoStale, PaidInv, TypeOK
<1>2. ApprovalsActedUpon'
  BY <1>1 DEF PaidInv, ApprovalsActedUpon, GoStale, Event, Outcomes
<1>3. HandlersInOrder'
  BY DEF GoStale, PaidInv, TypeOK, HandlersInOrder, Forms, OnItsWay, O, At, azul
<1> QED
  BY <1>1, <1>2, <1>3, Aside DEF GoStale, bounds, PaidInv, TypeOK

-----------------------------------------------------------------------------

LEMMA PaidStep == PaidInv /\ [Next]_vars => PaidInv'
<1> SUFFICES ASSUME PaidInv, [Next]_vars PROVE PaidInv'
  OBVIOUS
<1>1. ASSUME NEW plan \in Plans, StartCheckout(plan) PROVE PaidInv'
  BY <1>1, StartKeeps
<1>2. CASE CommitCheckout \/ AnswerCheckout \/ AbortCheckout
  BY <1>2, CommitKeeps, AnswerKeeps, AbortKeeps
<1>3. ASSUME NEW tier \in {"FREE", "NORMAL", "PRO"}, ChoosePlan(tier) PROVE PaidInv'
  BY <1>3, ChooseKeeps
<1>4. ASSUME NEW o \in Orders, NEW outcome \in Outcomes, Decide(o, outcome) PROVE PaidInv'
  BY <1>4, DecideKeeps
<1>5. ASSUME NEW m \in returns, LoseParameters(m) PROVE PaidInv'
  BY <1>5, LoseKeeps
<1>6. ASSUME NEW h \in Handlers, Handle(h) PROVE PaidInv'
  BY <1>6, CreateKeeps, ReadEventKeeps, ClaimKeeps, ReadPaymentKeeps, ActivateKeeps,
     AuditKeeps, RejectKeeps, MarkKeeps DEF Handle
<1>7. ASSUME NEW h \in Handlers, Fault(h) \/ CrashHandler(h) PROVE PaidInv'
  BY <1>7, FailuresKeep
<1>8. ASSUME NEW h \in Handlers, NEW m \in returns, Deliver(h, m) PROVE PaidInv'
  BY <1>8, DeliverKeeps
<1>9. ASSUME NEW e \in Event, GoStale(e) PROVE PaidInv'
  BY <1>9, StaleKeeps
<1>10. CASE UNCHANGED vars
  <2>1. HandlersInOrder' /\ ApprovalsActedUpon'
    BY <1>10 DEF PaidInv, TypeOK, HandlersInOrder, Forms, OnItsWay, O, At, ApprovalsActedUpon,
       vars, rows, azul
  <2> QED
    BY <1>10, <2>1, Unmarked DEF vars, bounds, PaidInv, TypeOK
<1> QED
  BY <1>1, <1>2, <1>3, <1>4, <1>5, <1>6, <1>7, <1>8, <1>9, <1>10 DEF Next

LEMMA PaidAlways == Spec => []PaidInv
BY InitPaid, PaidStep, PTL DEF Spec

\* The rows, the requests and the returns hold what they can hold, for any number of
\* orders and handlers (billing-service.ts).
THEOREM BillingTyped == Spec => []TypeOK
<1>1. PaidInv => TypeOK
  BY DEF PaidInv
<1> QED
  BY <1>1, PaidAlways, PTL

\* A payment is confirmed only for an order AZUL approved, and an active membership is
\* of the tier of such an order, whichever returns and checkouts overlap, come again,
\* crash or go stale (activateMembershipFromApprovedPayment, createMembershipCheckoutSession).
THEOREM OnlyPaidIsActive == Spec => []ActiveMeansPaid
<1>1. PaidInv => ActiveMeansPaid
  BY DEF PaidInv, ActiveMeansPaid, Confirmed, TierIsPaid
<1> QED
  BY <1>1, PaidAlways, PTL

\* An approved return that is marked as processed has activated its order: what a later
\* delivery takes for a duplicate was not lost, even when two handlers claim one event
\* (handleAzulPaymentReturn).
THEOREM ProcessedIsActivated == Spec => []ProcessedMeansActivated
<1>1. PaidInv => ProcessedMeansActivated
  BY DEF PaidInv, ProcessedMeansActivated, ApprovalsActedUpon
<1> QED
  BY <1>1, PaidAlways, PTL

-----------------------------------------------------------------------------
(* What is confirmed stays confirmed until a return of the order contradicts it. *)

\* Every return of an order that AZUL decides once tells how it was decided.
OneOutcome == ~PayAgain => \A m \in returns : m.outcome = gateway[m.order]

\* Only a return of the other routes is about to overwrite a payment: an approved one
\* that lost its parameters is refused before.
RejectsOthers == \A h \in Handlers : At(h, "reject") => handler[h].return.outcome # "approved"

FinalInv == OneOutcome /\ RejectsOthers

\* What a handler that moves, or ends, does to the handlers.
LEMMA Moved ==
    ASSUME PaidInv, NEW h \in Handlers, NEW pc, Goto(h, pc)
    PROVE  /\ handler'[h].pc = pc /\ handler'[h].return = handler[h].return
           /\ \A g \in Handlers \ {h} : handler'[g] = handler[g]
<1>1. handler \in [Handlers -> HandlerForm]
  BY DEF PaidInv, Forms
<1> QED
  BY <1>1 DEF Goto, HandlerForm

LEMMA Ended ==
    ASSUME PaidInv, NEW h \in Handlers, Finish(h)
    PROVE  /\ handler'[h].pc = "idle"
           /\ \A g \in Handlers \ {h} : handler'[g] = handler[g]
<1>1. handler \in [Handlers -> HandlerForm]
  BY DEF PaidInv, Forms
<1> QED
  BY <1>1 DEF Finish, IdleHandler

LEMMA Delivered ==
    ASSUME PaidInv, NEW h \in Handlers, NEW m \in returns, Deliver(h, m)
    PROVE  /\ handler'[h].pc = "begin" /\ handler'[h].return = m
           /\ \A g \in Handlers \ {h} : handler'[g] = handler[g]
<1>1. handler \in [Handlers -> HandlerForm]
  BY DEF PaidInv, Forms
<1> QED
  BY <1>1 DEF Deliver, IdleHandler

\* A valid return that does not approve is of another route.
LEMMA RefusedIsOther ==
    ASSUME PaidInv, NEW m \in returns, Valid(m), ~Approves(m)
    PROVE  m.outcome # "approved"
BY DEF PaidInv, KnownToAzul, Valid, Approves

LEMMA FinalStep ==
    ASSUME PaidInv, FinalInv, [Next]_vars
    PROVE  FinalInv'
<1>1. ASSUME ~PayAgain PROVE OneOutcome'
  <2>1. CASE UNCHANGED azul
    BY <1>1, <2>1 DEF FinalInv, OneOutcome, azul
  <2>2. CASE AnswerCheckout
    <3>1. checkout.order \in Orders /\ gateway[checkout.order] = "unknown"
      BY <2>2 DEF PaidInv, KnownToAzul, Forms, AnswerCheckout
    <3>2. \A m \in returns : m.order # checkout.order
      BY <3>1 DEF PaidInv, KnownToAzul
    <3> QED
      BY <1>1, <2>2, <3>1, <3>2 DEF FinalInv, OneOutcome, AnswerCheckout, PaidInv, TypeOK
  <2>3. ASSUME NEW o \in Orders, NEW outcome \in Outcomes, Decide(o, outcome)
        PROVE  OneOutcome'
    <3>1. /\ gateway'[o] = outcome /\ gateway[o] = "open"
          /\ \A p \in Orders \ {o} : gateway'[p] = gateway[p]
      BY <1>1, <2>3 DEF Decide, PaidInv, TypeOK
    <3>2. \A m \in returns : m.order \in Orders /\ m.order # o
      BY <1>1, <3>1 DEF FinalInv, OneOutcome, PaidInv, TypeOK, Return, Outcomes
    <3>3. \A m \in returns : gateway'[m.order] = gateway[m.order]
      BY <3>1, <3>2
    <3>4. \A m \in returns' \ returns : m.outcome = outcome /\ m.order = o
      BY <2>3 DEF Decide
    <3> QED
      BY <1>1, <3>1, <3>3, <3>4 DEF FinalInv, OneOutcome
  <2>4. ASSUME NEW m \in returns, LoseParameters(m)
        PROVE  OneOutcome'
    <3>1. m \in Return
      BY DEF PaidInv, TypeOK
    <3>2. \A n \in returns' \ returns : n.outcome = m.outcome /\ n.order = m.order
      BY <2>4, <3>1 DEF LoseParameters, Return
    <3> QED
      BY <1>1, <2>4, <3>2 DEF FinalInv, OneOutcome, LoseParameters
  <2> QED
    BY <2>1, <2>2, <2>3, <2>4 DEF Next, Handle, vars, StartCheckout, CommitCheckout,
       AbortCheckout, ChoosePlan, Deliver, CreateEvent, ReadEvent, ClaimEvent, ReadPayment,
       Activate, AuditActivation, Reject, MarkProcessed, MarkFailed, Fault, CrashHandler, GoStale
<1>2. RejectsOthers'
  <2>1. CASE UNCHANGED handler
    BY <2>1 DEF FinalInv, RejectsOthers, At
  <2>2. ASSUME NEW h \in Handlers, NEW pc, Goto(h, pc), pc # "reject"
        PROVE  RejectsOthers'
    BY <2>2, Moved DEF FinalInv, RejectsOthers, At
  <2>3. ASSUME NEW h \in Handlers, Finish(h) PROVE RejectsOthers'
    BY <2>3, Ended DEF FinalInv, RejectsOthers, At
  <2>4. ASSUME NEW h \in Handlers, NEW m \in returns, Deliver(h, m) PROVE RejectsOthers'
    BY <2>4, Delivered DEF FinalInv, RejectsOthers, At
  <2>5. ASSUME NEW h \in Handlers, ReadPayment(h) PROVE RejectsOthers'
    <3> DEFINE m == handler[h].return
               pc == IF Valid(m) THEN NextStep(m, payments[m.order].status) ELSE "fail"
    <3>1. Goto(h, pc) /\ m \in returns
      BY <2>5, AtWork DEF ReadPayment, At, PaidInv
    <3>2. pc = "reject" => m.outcome # "approved"
      BY <3>1, RefusedIsOther DEF NextStep
    <3> HIDE DEF pc
    <3> QED
      BY <3>1, <3>2, Moved DEF FinalInv, RejectsOthers, At
  <2>6. ASSUME NEW h \in Handlers, Handle(h) \/ Fault(h) \/ CrashHandler(h) PROVE RejectsOthers'
    BY <2>2, <2>3, <2>5, <2>6 DEF Handle, CreateEvent, ReadEvent, ClaimEvent, Activate,
       AuditActivation, Reject, MarkProcessed, MarkFailed, Fault, AfterFault, CrashHandler
  <2> QED
    BY <2>1, <2>4, <2>6 DEF Next, vars, StartCheckout, CommitCheckout, AnswerCheckout,
       AbortCheckout, ChoosePlan, Decide, LoseParameters, GoStale
<1>3. PayAgain => OneOutcome'
  BY DEF OneOutcome
<1> QED
  BY <1>1, <1>2, <1>3 DEF FinalInv

\* What one step does to an order that is confirmed.
Stays(o) ==
    payments[o].status = "APPROVED" /\ payments'[o].status # "APPROVED"
    => /\ \E m \in returns :
            /\ Contradicts(m, o)
            /\ payments' = [payments EXCEPT ![o].status = RejectedStatus(m.outcome)]
       /\ UNCHANGED <<settings, activations>>

LEMMA ConfirmedStays ==
    ASSUME PaidInv, FinalInv, [Next]_vars, NEW o \in Orders
    PROVE  Stays(o)
<1>1. CASE UNCHANGED payments
  BY <1>1 DEF Stays
<1>2. CASE CommitCheckout
  BY <1>2 DEF CommitCheckout, PaidInv, TypeOK, Stays
<1>3. ASSUME NEW h \in Handlers, Activate(h) PROVE Stays(o)
  BY <1>3 DEF Activate, PaidInv, TypeOK, Stays
<1>4. ASSUME NEW h \in Handlers, Reject(h) PROVE Stays(o)
  <2> SUFFICES ASSUME payments[o].status = "APPROVED", payments'[o].status # "APPROVED"
               PROVE  /\ \E m \in returns :
                           /\ Contradicts(m, o)
                           /\ payments' = [payments EXCEPT ![o].status = RejectedStatus(m.outcome)]
                      /\ UNCHANGED <<settings, activations>>
    BY DEF Stays
  <2>1. handler[h].return \in returns /\ handler[h].return.outcome # "approved"
    BY <1>4, AtWork DEF Reject, At, PaidInv, FinalInv, RejectsOthers
  <2>2. O(h) = o
    BY <1>4 DEF Reject, PaidInv, TypeOK
  <2>3. gateway[o] = "approved"
    BY DEF PaidInv, Confirmed, Paid
  <2>4. PayAgain
    BY <2>1, <2>2, <2>3, BillingAssumption DEF FinalInv, OneOutcome, O, BillingAssumption
  <2>5. Contradicts(handler[h].return, o)
    BY <2>1, <2>2, <2>4 DEF Contradicts, O
  <2>6. /\ payments' = [payments EXCEPT ![o].status = RejectedStatus(handler[h].return.outcome)]
        /\ UNCHANGED <<settings, activations>>
    BY <1>4, <2>2 DEF Reject
  <2> QED
    BY <2>1, <2>5, <2>6
<1> QED
  BY <1>1, <1>2, <1>3, <1>4 DEF Next, Handle, vars, rows, StartCheckout, AnswerCheckout,
     AbortCheckout, ChoosePlan, Decide, LoseParameters, Deliver, CreateEvent, ReadEvent,
     ClaimEvent, ReadPayment, AuditActivation, MarkProcessed, MarkFailed, Fault, CrashHandler,
     GoStale

LEMMA FinalAlways == Spec => [](PaidInv /\ FinalInv)
<1>1. Init => FinalInv
  BY DEF Init, FinalInv, OneOutcome, RejectsOthers, At, IdleHandler
<1>2. PaidInv /\ FinalInv /\ [Next]_vars => FinalInv'
  BY FinalStep
<1> QED
  BY <1>1, <1>2, PaidAlways, PTL DEF Spec

\* What AZUL approved and the shop confirmed is marked as declined or cancelled only where
\* AZUL decides an order more than once, by an earlier decision of that very order that is
\* handled late (handleAzulPaymentReturn): no lost parameter, repetition, overlap, crash or
\* retry does it, the membership stays, and no other order is touched.
THEOREM ConfirmedUntilTheContrary == Spec => ConfirmedUntilContradicted
<1>1. PaidInv /\ FinalInv /\ [Next]_vars => \A o \in Orders : Stays(o)
  BY ConfirmedStays
<1>2. PaidInv /\ FinalInv /\ [Next]_vars => [\A o \in Orders : Stays(o)]_vars
  BY <1>1
<1>3. Spec => [][\A o \in Orders : Stays(o)]_vars
  BY <1>2, FinalAlways, PTL DEF Spec
<1> QED
  BY <1>3 DEF ConfirmedUntilContradicted, Stays

-----------------------------------------------------------------------------
(* Each order activates once.  Until a request fails, the event row keeps  *)
(* the handlers of one approval apart; from then on requests come one by   *)
(* one, and the payment's status is read by whoever will write it.         *)

Handles(h, o) == ~At(h, "idle") /\ E(h) = <<"approved", o, FALSE>>
WorksOn(h, o) == Handles(h, o) /\ handler[h].pc \in Working
Row(o) == event[<<"approved", o, FALSE>>]

\* The row of an approval is held by the one handler that works on it.
Locked(o) ==
    /\ Row(o).status # "FAILED" /\ ~Row(o).stale
    /\ \A h \in Handlers : Handles(h, o) => handler[h].pc \notin {"claim", "fail"}
    /\ \A h \in Handlers : WorksOn(h, o) => Row(o).status = "PROCESSING"
    /\ \A g, h \in Handlers : WorksOn(g, o) /\ WorksOn(h, o) => g = h
    /\ Row(o).status = "PROCESSING" => \E h \in Handlers : WorksOn(h, o)

Alone ==
    /\ \A g, h \in Busy : g = h
    /\ checkout.pc # "idle" => Busy = {}

OneByOne ==
    /\ IsFiniteSet(Busy)
    /\ crashes + faults = 0 => \A o \in Orders : Locked(o)
    /\ crashes + faults # 0 \/ Overlap = "never" => Alone

\* Nothing is sold without credentials.
Sold == ~configured => checkout.pc = "idle" /\ \A o \in Orders : payments[o].status = "NONE"

\* What was activated is confirmed, and is not about to be activated again.
Once ==
    /\ ActivatedOnce
    /\ \A o \in Orders : activations[o] > 0 => payments[o].status = "APPROVED"
    /\ \A h \in Handlers : At(h, "activate") => activations[O(h)] = 0

LEMMA CountsAreNumbers ==
    ASSUME TypeOK PROVE crashes \in Nat /\ faults \in Nat
BY BoundsAreNumbers DEF TypeOK

\* Requests that are at most one in flight are alone, and none in flight is none at work.
LEMMA FewAreAlone ==
    ASSUME IsFiniteSet(Busy)
    PROVE  /\ InFlight <= 1 => Alone
           /\ InFlight = 0 => Busy = {} /\ checkout.pc = "idle"
<1>1. Cardinality(Busy) \in Nat
  BY FS_CardinalityType
<1>2. Cardinality(Busy) = 0 => Busy = {}
  BY FS_EmptySet
<1>3. Cardinality(Busy) = 1 => \E x : Busy = {x}
  BY FS_Singleton
<1>4. ASSUME InFlight <= 1 PROVE Alone
  <2>1. CASE checkout.pc = "idle"
    <3>1. Cardinality(Busy) = 0 \/ Cardinality(Busy) = 1
      BY <1>1, <1>4, <2>1 DEF InFlight
    <3> QED
      BY <1>2, <1>3, <2>1, <3>1 DEF Alone
  <2>2. CASE checkout.pc # "idle"
    <3>1. Cardinality(Busy) = 0
      BY <1>1, <1>4, <2>2 DEF InFlight
    <3> QED
      BY <1>2, <3>1 DEF Alone
  <2> QED
    BY <2>1, <2>2
<1>5. ASSUME InFlight = 0 PROVE Busy = {} /\ checkout.pc = "idle"
  <2>1. checkout.pc = "idle" /\ Cardinality(Busy) = 0
    BY <1>1, <1>5 DEF InFlight
  <2> QED
    BY <1>2, <2>1
<1> QED
  BY <1>4, <1>5

LEMMA MayStartAlone ==
    ASSUME OneByOne, MayStart, Overlap # "always", crashes + faults # 0 \/ Overlap = "never"
    PROVE  Busy = {} /\ checkout.pc = "idle"
BY FewAreAlone DEF OneByOne, MayStart

LEMMA MayFailAlone ==
    ASSUME OneByOne, MayFail, Overlap # "always"
    PROVE  Alone
<1>1. CASE Overlap = "never"
  BY <1>1 DEF OneByOne
<1>2. CASE Overlap = "until a failure"
  BY <1>2, FewAreAlone DEF OneByOne, MayFail
<1> QED
  BY Zenon, <1>1, <1>2, BillingAssumption DEF BillingAssumption

\* Whom a step leaves alone handles what it handled.
LEMMA OthersHandle ==
    ASSUME NEW g \in Handlers, handler'[g] = handler[g], NEW o \in Orders
    PROVE  (Handles(g, o)' <=> Handles(g, o)) /\ (WorksOn(g, o)' <=> WorksOn(g, o))
BY DEF Handles, WorksOn, At, E, Working

\* The three ways a step of one handler keeps a row locked: it neither takes nor gives
\* the row, it takes a free one, or it is done with its own.
LEMMA StaysLocked ==
    ASSUME NEW h \in Handlers, NEW o \in Orders, Locked(o),
           \A g \in Handlers \ {h} : handler'[g] = handler[g],
           Handles(h, o)' => handler'[h].pc \notin {"claim", "fail"},
           ~Row(o).stale',
           \/ (WorksOn(h, o)' <=> WorksOn(h, o)) /\ Row(o).status' = Row(o).status
           \/ WorksOn(h, o)' /\ Row(o).status = "NONE" /\ Row(o).status' = "PROCESSING"
           \/ WorksOn(h, o) /\ ~WorksOn(h, o)' /\ Row(o).status' = "PROCESSED"
    PROVE  Locked(o)'
<1>1. \A g \in Handlers \ {h} : /\ Handles(g, o)' <=> Handles(g, o)
                                /\ WorksOn(g, o)' <=> WorksOn(g, o)
                                /\ handler'[g].pc = handler[g].pc
  BY OthersHandle
<1>2. CASE (WorksOn(h, o)' <=> WorksOn(h, o)) /\ Row(o).status' = Row(o).status
  BY <1>1, <1>2 DEF Locked
<1>3. CASE WorksOn(h, o)' /\ Row(o).status = "NONE" /\ Row(o).status' = "PROCESSING"
  BY <1>1, <1>3 DEF Locked
<1>4. CASE WorksOn(h, o) /\ ~WorksOn(h, o)' /\ Row(o).status' = "PROCESSED"
  BY <1>1, <1>4 DEF Locked
<1> QED
  BY <1>2, <1>3, <1>4

\* An event that is marked is the handler's own.
LEMMA OwnRow ==
    ASSUME PaidInv, NEW h \in Handlers, ~At(h, "idle"), NEW status, MarkEvent(h, status),
           NEW o \in Orders
    PROVE  /\ Handles(h, o) => Row(o)' = [status |-> status, stale |-> FALSE]
           /\ ~Handles(h, o) => Row(o)' = Row(o)
<1>1. E(h) \in Event /\ <<"approved", o, FALSE>> \in Event
  BY AtWork DEF PaidInv, Event, Outcomes
<1>2. event \in [Event -> [status: {"NONE", "PROCESSING", "PROCESSED", "FAILED"},
                           stale: BOOLEAN]]
  BY DEF PaidInv, TypeOK
<1> HIDE DEF Event
<1> QED
  BY <1>1, <1>2 DEF MarkEvent, Handles, Row

\* A handler that moves handles what it handled; one that ends handles nothing.
LEMMA StillHandles ==
    ASSUME PaidInv, NEW h \in Handlers, ~At(h, "idle"), NEW pc, pc # "idle", Goto(h, pc),
           NEW o \in Orders
    PROVE  /\ Handles(h, o)' <=> Handles(h, o)
           /\ WorksOn(h, o)' <=> Handles(h, o) /\ pc \in Working
BY Moved DEF Handles, WorksOn, At, E, Working

LEMMA HandlesNoMore ==
    ASSUME PaidInv, NEW h \in Handlers, Finish(h), NEW o \in Orders
    PROVE  ~Handles(h, o)' /\ ~WorksOn(h, o)'
BY Ended DEF Handles, WorksOn, At

\* The return of a signed approval approves, and can be acted upon.
LEMMA ApprovalIsValid ==
    ASSUME PaidInv, Sold, NEW h \in Handlers, NEW o \in Orders, Handles(h, o)
    PROVE  Approves(handler[h].return) /\ Valid(handler[h].return)
<1> DEFINE m == handler[h].return
<1>1. m \in returns /\ m \in Return /\ m.outcome = "approved" /\ m.order = o /\ ~m.bare
  BY AtWork DEF PaidInv, Handles, E, EventOf
<1>2. m.ok /\ payments[o].status # "NONE"
  BY <1>1 DEF PaidInv, KnownToAzul
<1>3. configured
  BY <1>2 DEF Sold
<1> QED
  BY <1>1, <1>2, <1>3 DEF Approves, Valid

LEMMA HandlerKeepsLocked ==
    ASSUME PaidInv, Sold, NEW h \in Handlers, NEW o \in Orders, Locked(o), Handle(h)
    PROVE  Locked(o)'
<1>0. ~At(h, "idle")
  BY DEF Handle, CreateEvent, ReadEvent, ClaimEvent, ReadPayment, Activate, AuditActivation,
     Reject, MarkProcessed, MarkFailed, At
<1>1. ASSUME NEW pc, Goto(h, pc)
      PROVE  /\ handler'[h].pc = pc /\ \A g \in Handlers \ {h} : handler'[g] = handler[g]
             /\ pc # "idle" => /\ Handles(h, o)' <=> Handles(h, o)
                               /\ WorksOn(h, o)' <=> Handles(h, o) /\ pc \in Working
  BY <1>0, <1>1, Moved, StillHandles
<1>2. ASSUME Finish(h)
      PROVE  /\ ~Handles(h, o)' /\ ~WorksOn(h, o)'
             /\ \A g \in Handlers \ {h} : handler'[g] = handler[g]
  BY <1>2, Ended, HandlesNoMore
<1>3. ~Handles(h, o) => ~WorksOn(h, o)
  BY DEF WorksOn
<1>4. Handles(h, o) => /\ WorksOn(h, o) <=> handler[h].pc \in Working
                       /\ handler[h].pc \notin {"claim", "fail"}
  BY DEF WorksOn, Locked
<1>5. Row(o) \in [status: {"NONE", "PROCESSING", "PROCESSED", "FAILED"}, stale: BOOLEAN]
  BY DEF PaidInv, TypeOK, Row, Event, Outcomes
<1>6. WorksOn(h, o) => Row(o).status = "PROCESSING"
  BY DEF Locked
<1>7. ~Row(o).stale /\ Row(o).status # "FAILED"
  BY DEF Locked
<1>8. CASE CreateEvent(h)
  <2>1. At(h, "begin") /\ ~WorksOn(h, o)
    BY <1>8 DEF CreateEvent, At, WorksOn, Working
  <2>2. CASE MarkEvent(h, "PROCESSING") /\ Goto(h, "read") /\ event[E(h)].status = "NONE"
    <3>1. Handles(h, o) => Row(o).status = "NONE"
      BY <2>2 DEF Handles, Row
    <3>2. /\ Handles(h, o) => Row(o)'.status = "PROCESSING" /\ ~Row(o)'.stale
          /\ ~Handles(h, o) => Row(o)' = Row(o)
      BY <1>0, <2>2, OwnRow
    <3>3. handler'[h].pc = "read" /\ (WorksOn(h, o)' <=> Handles(h, o))
      BY <1>1, <2>2 DEF Working
    <3> QED
      BY <1>1, <1>7, <2>1, <2>2, <3>1, <3>2, <3>3, StaysLocked
  <2>3. CASE UNCHANGED event /\ Goto(h, "existing")
    <3>1. handler'[h].pc = "existing" /\ ~WorksOn(h, o)'
      BY <1>1, <2>3 DEF Working
    <3>2. ~Row(o).stale' /\ Row(o).status' = Row(o).status
      BY <1>7, <2>3 DEF Row
    <3> QED
      BY <1>1, <2>1, <2>3, <3>1, <3>2, StaysLocked
  <2> QED
    BY <1>8, <2>2, <2>3 DEF CreateEvent
<1>9. CASE ReadEvent(h)
  <2>1. At(h, "existing") /\ ~WorksOn(h, o) /\ UNCHANGED event
    BY <1>9 DEF ReadEvent, At, WorksOn, Working, rows
  <2>2. CASE Finish(h)
    BY <1>2, <1>7, <2>1, <2>2, StaysLocked DEF Row
  <2>3. CASE Goto(h, "claim") /\ ShouldProcess(event[E(h)])
    <3>1. ~Handles(h, o)
      BY <1>7, <2>3 DEF Handles, Row, ShouldProcess
    <3> QED
      BY <1>1, <1>7, <2>1, <2>3, <3>1, StaysLocked DEF Row
  <2> QED
    BY <1>9, <2>2, <2>3 DEF ReadEvent
<1>10. CASE ClaimEvent(h)
  <2>1. ~Handles(h, o) /\ Goto(h, "read") /\ MarkEvent(h, "PROCESSING")
    BY <1>4, <1>10 DEF ClaimEvent, At
  <2>2. Row(o)' = Row(o)
    BY <1>0, <2>1, OwnRow
  <2> QED
    BY <1>1, <1>3, <1>7, <2>1, <2>2, StaysLocked
<1>11. ASSUME NEW pc \in Working \cup {"fail"}, Goto(h, pc), handler[h].pc \in Working,
              UNCHANGED event, Handles(h, o) => pc \in Working
       PROVE  Locked(o)'
  <2>1. WorksOn(h, o) <=> Handles(h, o)
    BY <1>11 DEF WorksOn
  <2> QED
    BY <1>1, <1>7, <1>11, <2>1, StaysLocked DEF Row, Working
<1>12. CASE ReadPayment(h)
  <2> DEFINE m == handler[h].return
             pc == IF Valid(m) THEN NextStep(m, payments[m.order].status) ELSE "fail"
  <2>1. Goto(h, pc) /\ UNCHANGED event /\ handler[h].pc \in Working
    BY <1>12 DEF ReadPayment, rows, At, Working
  <2>2. Handles(h, o) => Valid(m)
    BY ApprovalIsValid
  <2>3. pc \in Working \cup {"fail"} /\ (Handles(h, o) => pc \in Working)
    BY <2>2 DEF NextStep, Working
  <2> HIDE DEF pc
  <2> QED
    BY <1>11, <2>1, <2>3
<1>13. CASE Activate(h) \/ AuditActivation(h) \/ Reject(h)
  BY <1>11, <1>13 DEF Activate, AuditActivation, Reject, At, Working, rows
<1>14. CASE MarkProcessed(h)
  <2>1. MarkEvent(h, "PROCESSED") /\ Finish(h) /\ handler[h].pc \in Working
    BY <1>14 DEF MarkProcessed, At, Working
  <2>2. /\ Handles(h, o) => Row(o)'.status = "PROCESSED" /\ ~Row(o)'.stale
        /\ ~Handles(h, o) => Row(o)' = Row(o)
    BY <1>0, <2>1, OwnRow
  <2>3. WorksOn(h, o) <=> Handles(h, o)
    BY <2>1 DEF WorksOn
  <2> QED
    BY <1>2, <1>7, <2>1, <2>2, <2>3, StaysLocked
<1>15. CASE MarkFailed(h)
  <2>1. ~Handles(h, o) /\ Finish(h) /\ MarkEvent(h, "FAILED")
    BY <1>4, <1>15 DEF MarkFailed, At
  <2>2. Row(o)' = Row(o)
    BY <1>0, <2>1, OwnRow
  <2> QED
    BY <1>2, <1>3, <1>7, <2>1, <2>2, StaysLocked
<1> QED
  BY <1>8, <1>9, <1>10, <1>12, <1>13, <1>14, <1>15 DEF Handle

\* While no request has failed, the row of an approval stays with its handler.
LEMMA LockedStep ==
    ASSUME ~SlowHandlers, PaidInv, Sold, NEW o \in Orders, Locked(o), [Next]_vars,
           crashes' + faults' = 0
    PROVE  Locked(o)'
<1>1. CASE UNCHANGED <<handler, event>>
  BY <1>1 DEF Locked, Row, WorksOn, Handles, At, E, Working
<1>2. ASSUME NEW h \in Handlers, Handle(h) PROVE Locked(o)'
  BY <1>2, HandlerKeepsLocked
<1>3. ASSUME NEW h \in Handlers, Fault(h) \/ CrashHandler(h) PROVE FALSE
  <2>1. crashes' + faults' = crashes + faults + 1
    BY <1>3, CountsAreNumbers DEF PaidInv, Fault, CrashHandler
  <2> QED
    BY <2>1, CountsAreNumbers DEF PaidInv
<1>4. ASSUME NEW h \in Handlers, NEW m \in returns, Deliver(h, m) PROVE Locked(o)'
  <2>1. /\ handler'[h].pc = "begin" /\ UNCHANGED event
        /\ \A g \in Handlers \ {h} : handler'[g] = handler[g]
    BY <1>4, Delivered DEF Deliver, rows
  <2>2. ~WorksOn(h, o) /\ ~WorksOn(h, o)'
    BY <1>4, <2>1 DEF WorksOn, Deliver, At, Working
  <2>3. ~Row(o).stale' /\ Row(o).status' = Row(o).status
    BY <2>1 DEF Row, Locked
  <2> QED
    BY <2>1, <2>2, <2>3, StaysLocked
<1>5. ASSUME NEW e \in Event, GoStale(e) PROVE Locked(o)'
  <2>1. e # <<"approved", o, FALSE>>
    <3>1. SUFFICES ASSUME e = <<"approved", o, FALSE>> PROVE FALSE
      OBVIOUS
    <3>2. PICK h \in Handlers : WorksOn(h, o)
      BY <1>5, <3>1 DEF GoStale, Row, Locked
    <3>3. handler[h].pc \in Working /\ E(h) = e
      BY <3>1, <3>2 DEF WorksOn, Handles
    <3> QED
      BY <1>5, <3>2, <3>3 DEF GoStale
  <2>2. Row(o)' = Row(o) /\ UNCHANGED handler
    <3>1. event' = [event EXCEPT ![e].stale = TRUE] /\ UNCHANGED handler
      BY <1>5 DEF GoStale
    <3>2. event \in [Event -> [status: {"NONE", "PROCESSING", "PROCESSED", "FAILED"},
                               stale: BOOLEAN]] /\ <<"approved", o, FALSE>> \in Event
      BY DEF PaidInv, TypeOK, Event, Outcomes
    <3> QED
      BY Zenon, <2>1, <3>1, <3>2 DEF Row
  <2> QED
    BY <2>2 DEF Locked, WorksOn, Handles, At, E, Working
<1> QED
  BY <1>1, <1>2, <1>3, <1>4, <1>5 DEF Next, vars, rows, StartCheckout, CommitCheckout,
     AnswerCheckout, AbortCheckout, ChoosePlan, Decide, LoseParameters

\* A handler's step changes who is busy by itself alone.
LEMMA BusyOrNot ==
    ASSUME PaidInv, [Next]_vars
    PROVE  \/ Busy' \subseteq Busy
           \/ \E h \in Handlers : /\ Busy' \subseteq Busy \cup {h} /\ MayStart
                                  /\ UNCHANGED <<checkout, crashes, faults>>
<1>1. CASE UNCHANGED handler
  BY <1>1 DEF Busy
<1>2. ASSUME NEW h \in Handlers, NEW pc, Goto(h, pc), ~At(h, "idle") PROVE Busy' \subseteq Busy
  BY <1>2, Moved DEF Busy, At
<1>3. ASSUME NEW h \in Handlers, Finish(h) PROVE Busy' \subseteq Busy
  BY <1>3, Ended DEF Busy
<1>4. ASSUME NEW h \in Handlers, Handle(h) \/ Fault(h) \/ CrashHandler(h)
      PROVE  Busy' \subseteq Busy
  <2>1. ~At(h, "idle")
    BY <1>4 DEF Handle, CreateEvent, ReadEvent, ClaimEvent, ReadPayment, Activate,
       AuditActivation, Reject, MarkProcessed, MarkFailed, Fault, CrashHandler, At
  <2> QED
    BY <1>2, <1>3, <1>4, <2>1 DEF Handle, CreateEvent, ReadEvent, ClaimEvent, ReadPayment,
       Activate, AuditActivation, Reject, MarkProcessed, MarkFailed, Fault, CrashHandler
<1>5. ASSUME NEW h \in Handlers, NEW m \in returns, Deliver(h, m)
      PROVE  /\ Busy' \subseteq Busy \cup {h} /\ MayStart
             /\ UNCHANGED <<checkout, crashes, faults>>
  BY <1>5, Delivered DEF Busy, Deliver, bounds
<1> QED
  BY <1>1, <1>4, <1>5 DEF Next, vars, StartCheckout, CommitCheckout, AnswerCheckout,
     AbortCheckout, ChoosePlan, Decide, LoseParameters, GoStale

LEMMA BusyStaysFinite ==
    ASSUME PaidInv, IsFiniteSet(Busy), [Next]_vars PROVE IsFiniteSet(Busy')
<1>1. CASE Busy' \subseteq Busy
  BY <1>1, FS_Subset
<1>2. ASSUME NEW h, Busy' \subseteq Busy \cup {h} PROVE IsFiniteSet(Busy')
  <2>1. IsFiniteSet(Busy \cup {h})
    BY FS_AddElement
  <2> QED
    BY <1>2, <2>1, FS_Subset
<1> QED
  BY <1>1, <1>2, BusyOrNot

\* A checkout is begun by a request that may start, and nothing but a failure moves the
\* counts of failures.
LEMMA CheckoutOrNot ==
    ASSUME PaidInv, [Next]_vars
    PROVE  /\ checkout'.pc # "idle" => checkout.pc # "idle" \/ (MayStart /\ UNCHANGED handler)
           /\ UNCHANGED <<crashes, faults>> \/ MayFail
<1>1. IdleCheckout.pc = "idle"
  BY DEF IdleCheckout
<1>2. checkout'.pc # "idle" => checkout.pc # "idle" \/ (MayStart /\ UNCHANGED handler)
  BY <1>1 DEF Next, Handle, vars, StartCheckout, CommitCheckout, AnswerCheckout, AbortCheckout,
     ChoosePlan, Decide, LoseParameters, Deliver, CreateEvent, ReadEvent, ClaimEvent,
     ReadPayment, Activate, AuditActivation, Reject, MarkProcessed, MarkFailed, Fault,
     CrashHandler, GoStale
<1>3. UNCHANGED <<crashes, faults>> \/ MayFail
  BY DEF Next, Handle, vars, bounds, StartCheckout, CommitCheckout, AnswerCheckout,
     AbortCheckout, ChoosePlan, Decide, LoseParameters, Deliver, CreateEvent, ReadEvent,
     ClaimEvent, ReadPayment, Activate, AuditActivation, Reject, MarkProcessed, MarkFailed,
     Fault, CrashHandler, GoStale
<1> QED
  BY <1>2, <1>3

LEMMA AloneStep ==
    ASSUME Overlap # "always", PaidInv, OneByOne, [Next]_vars,
           crashes' + faults' # 0 \/ Overlap = "never"
    PROVE  Alone'
<1>1. CASE MayFail /\ ~UNCHANGED <<crashes, faults>>
  <2>1. Alone
    BY <1>1, MayFailAlone
  <2>2. Busy' \subseteq Busy
    BY <1>1, BusyOrNot
  <2>3. checkout'.pc # "idle" => checkout.pc # "idle"
    BY <1>1 DEF Next, Handle, vars, bounds, StartCheckout, CommitCheckout, AnswerCheckout,
       AbortCheckout, IdleCheckout, ChoosePlan, Decide, LoseParameters, Deliver, CreateEvent,
       ReadEvent, ClaimEvent, ReadPayment, Activate, AuditActivation, Reject, MarkProcessed,
       MarkFailed, Fault, CrashHandler, GoStale
  <2> QED
    BY <2>1, <2>2, <2>3 DEF Alone
<1>2. CASE UNCHANGED <<crashes, faults>>
  <2>1. crashes + faults # 0 \/ Overlap = "never"
    BY <1>2
  <2>2. Alone
    BY <2>1 DEF OneByOne
  <2>3. MayStart => Busy = {} /\ checkout.pc = "idle"
    BY <2>1, MayStartAlone
  <2>4. CASE Busy' \subseteq Busy
    <3>1. MayStart /\ UNCHANGED handler => Busy' = {}
      BY <2>3 DEF Busy
    <3> QED
      BY <2>2, <2>4, <3>1, CheckoutOrNot DEF Alone
  <2>5. ASSUME NEW h \in Handlers, Busy' \subseteq Busy \cup {h}, MayStart, UNCHANGED checkout
        PROVE  Alone'
    BY <2>3, <2>5 DEF Alone
  <2> QED
    BY <2>4, <2>5, BusyOrNot
<1> QED
  BY <1>1, <1>2, CheckoutOrNot

LEMMA OneByOneStep ==
    ASSUME ~SlowHandlers, Overlap # "always", PaidInv, Sold, OneByOne, [Next]_vars
    PROVE  OneByOne'
<1>1. crashes' + faults' = 0 => crashes + faults = 0
  <2>1. crashes \in Nat /\ faults \in Nat
    BY CountsAreNumbers DEF PaidInv
  <2>2. \/ UNCHANGED <<crashes, faults>>
        \/ crashes' = crashes + 1 /\ faults' = faults
        \/ faults' = faults + 1 /\ crashes' = crashes
    BY DEF Next, Handle, vars, bounds, StartCheckout, CommitCheckout, AnswerCheckout,
       AbortCheckout, ChoosePlan, Decide, LoseParameters, Deliver, CreateEvent, ReadEvent,
       ClaimEvent, ReadPayment, Activate, AuditActivation, Reject, MarkProcessed, MarkFailed,
       Fault, CrashHandler, GoStale
  <2> QED
    BY <2>1, <2>2
<1>2. crashes' + faults' = 0 => \A o \in Orders : Locked(o)'
  BY <1>1, LockedStep DEF OneByOne
<1>3. crashes' + faults' # 0 \/ Overlap = "never" => Alone'
  BY AloneStep
<1>4. IsFiniteSet(Busy')
  BY BusyStaysFinite DEF OneByOne
<1> QED
  BY <1>2, <1>3, <1>4 DEF OneByOne

LEMMA SoldStep ==
    ASSUME PaidInv, Sold, [Next]_vars PROVE Sold'
<1>1. CASE UNCHANGED <<configured, checkout, payments>>
  BY <1>1 DEF Sold
<1>2. ASSUME NEW plan \in Plans, StartCheckout(plan) PROVE Sold'
  BY <1>2 DEF StartCheckout, Sold
<1>3. CASE CommitCheckout \/ AnswerCheckout \/ AbortCheckout
  BY <1>3 DEF CommitCheckout, AnswerCheckout, AbortCheckout, IdleCheckout, Sold, rows
<1>4. ASSUME NEW h \in Handlers, Activate(h) \/ Reject(h) PROVE Sold'
  <2>1. O(h) \in Orders /\ handler[h].return \in returns /\ ~At(h, "idle")
    BY <1>4, AtWork DEF Activate, Reject, At, PaidInv
  <2>2. payments[O(h)].status # "NONE"
    BY <2>1 DEF PaidInv, KnownToAzul, O
  <2> QED
    BY <1>4, <2>1, <2>2 DEF Activate, Reject, Sold
<1> QED
  BY <1>1, <1>2, <1>3, <1>4 DEF Next, Handle, vars, rows, ChoosePlan, Decide, LoseParameters,
     Deliver, CreateEvent, ReadEvent, ClaimEvent, ReadPayment, AuditActivation, MarkProcessed,
     MarkFailed, Fault, CrashHandler, GoStale

\* No two handlers are about to activate one order.
LEMMA OneActivates ==
    ASSUME PaidInv, OneByOne, NEW g \in Handlers, NEW h \in Handlers,
           At(g, "activate"), At(h, "activate"), O(g) = O(h)
    PROVE  g = h
<1>1. ASSUME NEW k \in Handlers, At(k, "activate")
      PROVE  O(k) \in Orders /\ WorksOn(k, O(k)) /\ k \in Busy
  <2>1. Approves(handler[k].return) /\ ~At(k, "idle") /\ handler[k].pc \in Working
    BY <1>1 DEF PaidInv, OnItsWay, At, Working
  <2>2. handler[k].return \in returns /\ O(k) \in Orders
    BY <2>1, AtWork DEF PaidInv
  <2>3. handler[k].return.outcome = "approved" /\ handler[k].return.bare = FALSE
    BY <2>1, <2>2 DEF PaidInv, KnownToAzul, Approves, TypeOK, Return
  <2> QED
    BY <2>1, <2>2, <2>3 DEF WorksOn, Handles, E, EventOf, O, Busy, At
<1>2. CASE crashes + faults = 0
  BY <1>1, <1>2 DEF OneByOne, Locked
<1>3. CASE crashes + faults # 0
  BY <1>1, <1>3 DEF OneByOne, Alone
<1> QED
  BY <1>2, <1>3

LEMMA OnceStep ==
    ASSUME ~PayAgain, PaidInv, FinalInv, OneByOne, Once, [Next]_vars
    PROVE  Once'
<1>0. /\ \A o \in Orders : activations[o] \in Nat /\ activations[o] <= 1
      /\ \A o \in Orders : activations[o] > 0 => payments[o].status = "APPROVED"
      /\ \A o \in Orders : payments[o].status = "APPROVED" => payments'[o].status = "APPROVED"
      /\ \A h \in Handlers : At(h, "activate") => O(h) \in Orders /\ activations[O(h)] = 0
  <2>1. \A o \in Orders : payments[o].status = "APPROVED" => payments'[o].status = "APPROVED"
    BY ConfirmedStays DEF Stays, Contradicts
  <2> QED
    BY <2>1, AtWork DEF PaidInv, Forms, Once, ActivatedOnce, At
<1>1. ASSUME NEW h \in Handlers, Activate(h) PROVE Once'
  <2>1. At(h, "activate") /\ Goto(h, "audit") /\ O(h) \in Orders /\ activations[O(h)] = 0
    BY <1>0, <1>1 DEF Activate
  <2>2. /\ activations'[O(h)] = 1
        /\ \A o \in Orders : o # O(h) => activations'[o] = activations[o]
    BY <1>1, <2>1 DEF Activate, PaidInv, Forms
  <2>3. payments'[O(h)].status = "APPROVED"
    BY <1>1, <2>1 DEF Activate, PaidInv, TypeOK
  <2>4. ASSUME NEW g \in Handlers, At(g, "activate")' PROVE activations'[O(g)'] = 0
    <3>1. g # h /\ handler'[g] = handler[g]
      BY <2>1, <2>4, Moved DEF At, PaidInv
    <3>2. At(g, "activate") /\ O(g)' = O(g)
      BY <2>4, <3>1 DEF At, O
    <3>3. O(g) # O(h)
      BY <2>1, <3>1, <3>2, OneActivates
    <3> QED
      BY <1>0, <2>2, <3>2, <3>3
  <2>5. \A o \in Orders : activations'[o] <= 1
    BY <1>0, <2>2
  <2>6. \A o \in Orders : activations'[o] > 0 => payments'[o].status = "APPROVED"
    BY <1>0, <2>2, <2>3
  <2> QED
    BY <2>4, <2>5, <2>6 DEF Once, ActivatedOnce
<1>2. ASSUME UNCHANGED activations,
             \A h \in Handlers : At(h, "activate")' => activations[O(h)'] = 0
      PROVE  Once'
  BY <1>0, <1>2 DEF Once, ActivatedOnce
<1>3. ASSUME UNCHANGED <<handler, activations>> PROVE Once'
  BY <1>0, <1>2, <1>3 DEF At, O
<1>4. ASSUME UNCHANGED activations, NEW h \in Handlers, handler'[h].pc # "activate",
             \A g \in Handlers \ {h} : handler'[g] = handler[g]
      PROVE  Once'
  BY <1>0, <1>2, <1>4 DEF At, O
<1>5. ASSUME NEW h \in Handlers, NEW m \in returns, Deliver(h, m) PROVE Once'
  BY <1>4, <1>5, Delivered DEF Deliver
<1>6. ASSUME NEW h \in Handlers, NEW pc, Goto(h, pc), pc # "activate", UNCHANGED activations
      PROVE  Once'
  BY <1>4, <1>6, Moved
<1>7. ASSUME NEW h \in Handlers, Finish(h), UNCHANGED activations PROVE Once'
  BY <1>4, <1>7, Ended
<1>8. ASSUME NEW h \in Handlers, ReadPayment(h) PROVE Once'
  <2> DEFINE m == handler[h].return
             pc == IF Valid(m) THEN NextStep(m, payments[m.order].status) ELSE "fail"
  <2>1. Goto(h, pc) /\ UNCHANGED activations /\ O(h) \in Orders
    BY <1>8, AtWork DEF ReadPayment, At, PaidInv
  <2>2. pc = "activate" => payments[O(h)].status # "APPROVED"
    BY DEF NextStep, O
  <2>3. pc = "activate" => activations[O(h)] = 0
    BY <1>0, <2>1, <2>2
  <2> HIDE DEF pc
  <2>4. /\ handler'[h].pc = pc /\ O(h)' = O(h)
        /\ \A g \in Handlers \ {h} : handler'[g] = handler[g]
    BY <2>1, Moved DEF O
  <2> QED
    BY <1>0, <1>2, <2>1, <2>3, <2>4 DEF At, O
<1>9. ASSUME NEW h \in Handlers, Handle(h) \/ Fault(h) \/ CrashHandler(h) PROVE Once'
  BY <1>1, <1>6, <1>7, <1>8, <1>9 DEF Handle, CreateEvent, ReadEvent, ClaimEvent,
     AuditActivation, Reject, MarkProcessed, MarkFailed, Fault, AfterFault, CrashHandler
<1> QED
  BY <1>3, <1>5, <1>9 DEF Next, vars, StartCheckout, CommitCheckout, AnswerCheckout,
     AbortCheckout, ChoosePlan, Decide, LoseParameters, GoStale

LEMMA InitOnce == Init => OneByOne /\ Sold /\ Once
<1> SUFFICES ASSUME Init PROVE OneByOne /\ Sold /\ Once
  OBVIOUS
<1>1. \A h \in Handlers : handler[h].pc = "idle"
  BY DEF Init, IdleHandler
<1>2. Busy = {} /\ IsFiniteSet(Busy) /\ checkout.pc = "idle"
  BY <1>1, FS_EmptySet DEF Busy, Init, IdleCheckout
<1>3. \A o \in Orders : Row(o) = [status |-> "NONE", stale |-> FALSE]
  BY DEF Init, Row, Event, Outcomes
<1>4. \A o \in Orders : Locked(o)
  <2>1. \A h \in Handlers, o \in Orders : ~Handles(h, o) /\ ~WorksOn(h, o)
    BY <1>1 DEF WorksOn, Handles, At
  <2> QED
    BY <1>3, <2>1 DEF Locked
<1>5. OneByOne
  BY <1>2, <1>4 DEF OneByOne, Alone
<1>6. Sold /\ Once
  BY <1>1, <1>2 DEF Init, Sold, Once, ActivatedOnce, At
<1> QED
  BY <1>5, <1>6

\* However often its return is delivered or retried, and wherever a handler crashed or
\* failed before, an order activates the membership once: as long as AZUL decides it once,
\* no handler at work is taken for a dead one, and deliveries overlap no failed one
\* (beginBillingProviderEvent, handleAzulPaymentReturn).
THEOREM ActivatesOnce ==
    ASSUME ~PayAgain, ~SlowHandlers, Overlap # "always"
    PROVE  Spec => []ActivatedOnce
<1>1. PaidInv /\ FinalInv /\ OneByOne /\ Sold /\ Once /\ [Next]_vars
      => OneByOne' /\ Sold' /\ Once'
  BY OneByOneStep, SoldStep, OnceStep
<1>2. Once => ActivatedOnce
  BY DEF Once
<1> QED
  BY <1>1, <1>2, InitOnce, FinalAlways, PTL DEF Spec
================================================================================
