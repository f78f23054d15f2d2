---------------------------- MODULE PaymentDesk ----------------------------
(* The screen of the payments: the debts and payments it was rendered with,   *)
(* the form a payment is typed into or corrected with, and the requests it    *)
(* has in flight.  The server allocates a payment as PaymentAllocation says;  *)
(* the screen announces what will be left with arithmetic of its own, on rows *)
(* that may be out of date.                                                   *)
EXTENDS PaymentAllocation, FiniteSets

CONSTANTS Debts, NoDebt, NoPayment,
          Payments,    \* numbers, given out in order
          Index,       \* the order in which the debts are listed
          Openings,    \* the debts and payments when the screen is opened
          Asks,        \* the ?debtId of the address, or NoDebt
          Entries,     \* what is typed into the form: amount, interest and late fee
          MaxTyped,    \* bound: entries since the form was last emptied
          MaxRequests  \* bound: requests of this screen and of another device

VARIABLES rows, ledger,   \* what is stored
          page,           \* what the screen was last rendered with
          asked,          \* defaultDebtId
          selected,       \* selectedPayment
          form,           \* the fields that matter to the allocation
          filter,         \* historyDebtFilter
          call, removal,  \* the submit and the deletion in flight
          stale,          \* router.refresh() has not come back
          spent           \* entries and requests so far

vars == <<rows, ledger, page, asked, selected, form, filter, call, removal, stale, spent>>

Row == [owed : Owed, minimum : Nat, last : Nat, archived : BOOLEAN]
Entry == [debt : Debts \cup {NoDebt}, amount : Nat, principal : OptionalMoney,
          interest : OptionalMoney, late : OptionalMoney, extra : OptionalMoney]
Quiet == [op |-> "none"]
InFlight == {"sent", "done", "refused"}

-----------------------------------------------------------------------------
(* What the screen shows.                                                     *)
debtOptions == {d \in Debts : ~page.rows[d].archived}
first == IF debtOptions = {} THEN NoDebt
         ELSE CHOOSE d \in debtOptions : \A e \in debtOptions : Index[d] <= Index[e]
selectedDebt == IF form.debt \in debtOptions THEN form.debt ELSE NoDebt
Listed == {p \in Payments : page.ledger[p].state = "LIVE"}
filteredPayments == {p \in Listed : filter \in {NoDebt, page.ledger[p].debt}}

effectiveBalance(d) == TotalDue(page.rows[d].owed)
splitTotal == Asked(form.principal) + Asked(form.interest) + Asked(form.late) + Asked(form.extra)
estimatedRemaining ==
  LET rest == effectiveBalance(selectedDebt) - form.amount
  IN  IF rest < 0 THEN 0 ELSE rest

emptyPayment(d) == [debt |-> d, amount |-> 0, principal |-> Omitted, interest |-> Omitted,
                    late |-> Omitted, extra |-> Omitted]
paymentToForm(p) ==
  [debt |-> page.ledger[p].debt, amount |-> page.ledger[p].split.amount,
   principal |-> page.ledger[p].split.principal, interest |-> page.ledger[p].split.interest,
   late |-> page.ledger[p].split.late, extra |-> page.ledger[p].split.extra]

\* The amounts the buttons of a debt put into the form, and where the card at
\* the head of the screen leads.
QuickAmounts ==
  IF selectedDebt = NoDebt THEN {}
  ELSE {page.rows[selectedDebt].minimum, effectiveBalance(selectedDebt)}
         \cup ({page.rows[selectedDebt].last} \ {0})
PrimaryAction == IF selectedDebt # NoDebt THEN "amount"
                 ELSE IF debtOptions # {} THEN "debt" ELSE "deudas"
CanSubmit == call = Quiet /\ debtOptions # {}
CanChoose == selected = NoPayment /\ debtOptions # {}
CanClear == TRUE
EmptyHistory == CASE filteredPayments # {} -> "rows"
                  [] filteredPayments = {} /\ Listed # {} -> "clear the filter"
                  [] Listed = {} /\ debtOptions = {} -> "deudas"
                  [] OTHER -> "top"

-----------------------------------------------------------------------------
\* As a slip would have it: the debt of the address is chosen during a correction too.
Picked_Always(options, firstOne, chosen, entry) ==
  IF asked \in options THEN [entry EXCEPT !.debt = asked]
  ELSE IF entry.debt = NoDebt THEN [entry EXCEPT !.debt = firstOne]
  ELSE entry

(* The effect that picks a debt, run whenever the list of debts or the        *)
(* selected payment changes.                                                  *)
Picked(options, firstOne, chosen, entry) ==
  IF chosen # NoPayment THEN entry
  ELSE IF asked \in options THEN [entry EXCEPT !.debt = asked]
  ELSE IF entry.debt = NoDebt THEN [entry EXCEPT !.debt = firstOne]
  ELSE entry

resetForm(default) ==
  /\ selected' = NoPayment
  /\ form' = Picked(debtOptions, first, NoPayment,
                    emptyPayment(IF asked # NoDebt THEN asked ELSE default))

Blank == [state |-> "NONE", debt |-> NoDebt,
          split |-> [amount |-> 0, principal |-> 0, interest |-> 0, late |-> 0, extra |-> 0,
                     remaining |-> 0]]

Init ==
  /\ \E stored \in Openings :
       /\ rows = stored.rows
       /\ ledger = [p \in Payments |-> IF p \in DOMAIN stored.ledger THEN stored.ledger[p] ELSE Blank]
  /\ page = [rows |-> rows, ledger |-> ledger]
  /\ asked \in Asks
  /\ selected = NoPayment
  /\ form = Picked(debtOptions, first, NoPayment,
                   emptyPayment(IF asked # NoDebt THEN asked ELSE first))
  /\ filter = NoDebt
  /\ call = Quiet /\ removal = Quiet /\ stale = FALSE
  /\ spent = [typed |-> 0, sent |-> 0]

Typing == spent.typed < MaxTyped /\ spent' = [spent EXCEPT !.typed = @ + 1]
Emptying == spent' = [spent EXCEPT !.typed = 0]
Sending == spent.sent < MaxRequests /\ spent' = [spent EXCEPT !.sent = @ + 1]
OnScreen == UNCHANGED <<rows, ledger, page, asked, filter, call, removal, stale>>

-----------------------------------------------------------------------------
(* The user.                                                                  *)
Choose == /\ CanChoose
          /\ \E d \in debtOptions \cup {NoDebt} : form' = [form EXCEPT !.debt = d]
          /\ OnScreen /\ UNCHANGED <<selected, spent>>

Type == /\ Typing
        /\ \E e \in Entries :
             form' = [form EXCEPT !.amount = e.amount, !.interest = e.interest, !.late = e.late]
        /\ OnScreen /\ UNCHANGED selected

applyQuickAmount(amount) ==
  form' = IF splitTotal > amount THEN [emptyPayment(form.debt) EXCEPT !.amount = amount]
                                 ELSE [form EXCEPT !.amount = amount]
Quick == /\ Typing /\ \E amount \in QuickAmounts : applyQuickAmount(amount)
         /\ OnScreen /\ UNCHANGED selected

Correct == /\ \E p \in filteredPayments : selected' = p /\ form' = paymentToForm(p)
           /\ Emptying /\ OnScreen

Clear == CanClear /\ resetForm(first) /\ Emptying /\ OnScreen

Filter == /\ Typing
          /\ \E d \in debtOptions \cup {NoDebt} : d # filter /\ filter' = d
          /\ UNCHANGED <<rows, ledger, page, asked, selected, form, call, removal, stale>>

\* Nothing is sent of a form whose parts exceed its amount, or without a debt.
Submit ==
  /\ CanSubmit /\ Sending
  /\ splitTotal <= form.amount /\ selectedDebt # NoDebt
  /\ call' = [op |-> IF selected = NoPayment THEN "create" ELSE "update",
              payment |-> selected, in |-> form, stage |-> "sent",
              default |-> first, base |-> page.rows[selectedDebt].owed,
              preview |-> estimatedRemaining]
  /\ UNCHANGED <<rows, ledger, page, asked, selected, form, filter, removal, stale>>

Delete ==
  /\ removal = Quiet /\ Sending
  /\ \E p \in filteredPayments :
       removal' = [op |-> "delete", payment |-> p, stage |-> "sent", default |-> first,
                   clears |-> selected = p]
  /\ UNCHANGED <<rows, ledger, page, asked, selected, form, filter, call, stale>>

-----------------------------------------------------------------------------
(* The server.                                                                *)
Refuse == call' = [call EXCEPT !.stage = "refused"] /\ UNCHANGED <<rows, ledger>>

Latest(d, book) == LET live == {p \in Payments : book[p].state = "LIVE" /\ book[p].debt = d}
                   IN  IF live = {} THEN 0
                       ELSE book[CHOOSE p \in live : \A q \in live : q <= p].split.amount

Store(d, owed, p, entry) ==
  /\ ledger' = [ledger EXCEPT ![p] = entry]
  /\ rows' = [rows EXCEPT ![d].owed = owed, ![d].last = Latest(d, ledger')]

ServeCreate ==
  /\ call.op = "create" /\ call.stage = "sent"
  /\ LET d == call.in.debt
         fresh == {p \in Payments : ledger[p].state = "NONE"}
     IN  IF Rejection(rows[d].owed, call.in) # "none" THEN Refuse
         ELSE \E p \in fresh :
                /\ \A q \in fresh : p <= q
                /\ Store(d, OwedAfter(rows[d].owed, call.in), p,
                         [state |-> "LIVE", debt |-> d,
                          split |-> BreakdownOf(rows[d].owed, call.in)])
                /\ call' = [call EXCEPT !.stage = "done"]
  /\ UNCHANGED <<page, asked, selected, form, filter, removal, stale, spent>>

ServeUpdate ==
  /\ call.op = "update" /\ call.stage = "sent"
  /\ LET row == ledger[call.payment]
         back == Reverted(rows[call.in.debt].owed, row.split)
     IN  IF row.state # "LIVE" \/ row.debt # call.in.debt THEN Refuse
         ELSE IF Rejection(back, call.in) # "none" THEN Refuse
         ELSE /\ Store(row.debt, OwedAfter(back, call.in), call.payment,
                       [row EXCEPT !.split = BreakdownOf(back, call.in)])
              /\ call' = [call EXCEPT !.stage = "done"]
  /\ UNCHANGED <<page, asked, selected, form, filter, removal, stale, spent>>

\* The demo's answer.  The database refuses the audit entry of a payment that is gone, so
\* there a deletion is answered by an error (Ledger) and takes the way of NotDeleted.
ServeDelete ==
  /\ removal.op = "delete" /\ removal.stage = "sent"
  /\ LET row == ledger[removal.payment]
     IN  IF row.state # "LIVE"
         THEN removal' = [removal EXCEPT !.stage = "refused"] /\ UNCHANGED <<rows, ledger>>
         ELSE /\ Store(row.debt, Reverted(rows[row.debt].owed, row.split), removal.payment,
                       [row EXCEPT !.state = "GONE"])
              /\ removal' = [removal EXCEPT !.stage = "done"]
  /\ UNCHANGED <<page, asked, selected, form, filter, call, stale, spent>>

-----------------------------------------------------------------------------
(* The answers, as the handlers that sent the request take them: the values a *)
(* handler closed over are those of the screen it was called on.              *)
Saved == /\ call # Quiet /\ call.stage = "done"
         /\ resetForm(call.default) /\ Emptying
         /\ call' = Quiet /\ stale' = TRUE
         /\ UNCHANGED <<rows, ledger, page, asked, filter, removal>>

\* Refused, or the answer never came: the form stays as it is.
NotSaved == /\ call # Quiet /\ call' = Quiet
            /\ UNCHANGED <<rows, ledger, page, asked, selected, form, filter, removal, stale, spent>>

Deleted == /\ removal # Quiet /\ removal.stage = "done"
           /\ IF removal.clears THEN resetForm(removal.default) /\ Emptying
                                ELSE UNCHANGED <<selected, form, spent>>
           /\ removal' = Quiet /\ stale' = TRUE
           /\ UNCHANGED <<rows, ledger, page, asked, filter, call>>

NotDeleted == /\ removal # Quiet /\ removal' = Quiet
              /\ UNCHANGED <<rows, ledger, page, asked, selected, form, filter, call, stale, spent>>

Refresh == /\ stale /\ stale' = FALSE
           /\ page' = [rows |-> rows, ledger |-> ledger]
           /\ form' = Picked(debtOptions', first', selected, form)
           /\ UNCHANGED <<rows, ledger, asked, selected, filter, call, removal, spent>>

\* On another device a fee is charged to a debt, or a debt is archived.
Elsewhere == /\ Sending
             /\ \E d \in Debts : \/ rows' = [rows EXCEPT ![d].owed.late = @ + Cent]
                                 \/ rows' = [rows EXCEPT ![d].archived = TRUE]
             /\ UNCHANGED <<ledger, page, asked, selected, form, filter, call, removal, stale>>

Next == \/ Choose \/ Type \/ Quick \/ Correct \/ Clear \/ Filter \/ Submit \/ Delete
        \/ ServeCreate \/ ServeUpdate \/ ServeDelete
        \/ Saved \/ NotSaved \/ Deleted \/ NotDeleted \/ Refresh \/ Elsewhere

Spec == Init /\ [][Next]_vars

-----------------------------------------------------------------------------
TypeOK ==
  /\ \A d \in Debts : rows[d] \in Row /\ page.rows[d] \in Row
  /\ \A p \in Payments : /\ ledger[p].state \in {"NONE", "LIVE", "GONE"}
                         /\ ledger[p].split \in Breakdown /\ ledger[p].debt \in Debts \cup {NoDebt}
  /\ selected \in Payments \cup {NoPayment} /\ form \in Entry
  /\ filter \in Debts \cup {NoDebt} /\ stale \in BOOLEAN
  /\ call = Quiet \/ call.stage \in InFlight
  /\ removal = Quiet \/ removal.stage \in InFlight

\* What the screen said when the button was pressed is what the server does:
\* a payment recorded on a debt that has not changed since leaves what was
\* announced, within the cent of overpayment that is tolerated, and a payment
\* that is corrected is corrected on its own debt, whatever answers and
\* refreshes arrived in between (payment-manager.tsx, payment-service.ts).
PreviewHolds ==
  ServeCreate /\ call'.stage = "done" /\ rows[call.in.debt].owed = call.base =>
    TotalDue(rows'[call.in.debt].owed) - call.preview \in -Cent .. Cent
CorrectionStays == selected' # NoPayment => form'.debt = ledger'[selected'].debt
PreviewsHold == [][PreviewHolds /\ CorrectionStays]_vars

=============================================================================
