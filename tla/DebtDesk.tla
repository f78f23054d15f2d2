------------------------------ MODULE DebtDesk ------------------------------
(* The screen of the debts (debt-manager.tsx): the list it was rendered with, *)
(* the form a debt is typed into or corrected with, and the requests it has   *)
(* in flight, against the service that takes them (debt-service.ts).  The     *)
(* service counts and writes in one step here; Ledger takes it apart.  The    *)
(* search and the filter of the list hide debts and change nothing.           *)
EXTENDS Integers, FiniteSets

CONSTANTS Debts, NoDebt,
          Openings,    \* the debts when the screen is opened
          Limits,      \* maxActiveDebts of the membership, and what it lapses to
          Entries,     \* what is typed, each in Amounts
          Today,
          MaxTyped,    \* bound: entries since the form was last emptied
          MaxRequests  \* bound: requests of this screen and of another device

VARIABLES held, limit,   \* the rows that are stored, the membership's limit
          list,          \* both, as the screen was rendered with them
          editing,       \* selectedDebt
          typed,         \* the form
          saving,        \* the submit in flight
          filing,        \* an archiving in flight
          deleting,      \* a deletion in flight
          outdated,      \* router.refresh() has not come back
          used           \* entries and requests so far

vars == <<held, limit, list, editing, typed, saving, filing, deleting, outdated, used>>

Statuses == {"CURRENT", "LATE", "NEGOTIATING", "PAID", "ARCHIVED"}
Gone == {"NONE", "GONE"}
\* due is 0 without a date; fees are the late fee and the extra charges.
Amounts == [balance : Nat, fees : Nat, minimum : Nat, due : Nat]
\* paidOff is the day the debt was paid off, 0 without one.
Row == [status : Statuses \cup Gone, of : Amounts, paidOff : Nat]
Form == [source : Debts \cup {NoDebt}, named : BOOLEAN, status : Statuses, of : Amounts]
Quiet == [stage |-> "none"]

Nothing == [balance |-> 0, fees |-> 0, minimum |-> 0, due |-> 0]
emptyDebtValues == [source |-> NoDebt, named |-> FALSE, status |-> "CURRENT", of |-> Nothing]

-----------------------------------------------------------------------------
(* The service.                                                              *)

Exists(rows, d) == rows[d].status \notin Gone
deriveDebtStatus(values, preferred) ==
  CASE preferred = "ARCHIVED" -> "ARCHIVED"
    [] preferred # "ARCHIVED" /\ values.balance + values.fees <= 0 -> "PAID"
    [] OTHER -> CASE preferred = "NEGOTIATING" -> "NEGOTIATING"
                  [] preferred # "NEGOTIATING" /\ values.due # 0 /\ values.due < Today -> "LATE"
                  [] OTHER -> "CURRENT"
\* was is the day the stored row has: the day of a debt that stays PAID is kept, and
\* that of one that takes any other status is written over with none.
RowOf(in, was) ==
  LET status == deriveDebtStatus(in.of, in.status)
  IN  [status |-> status, of |-> in.of,
       paidOff |-> IF status # "PAID" THEN 0 ELSE IF was # 0 THEN was ELSE Today]

isActive(row) == row.status \notin Gone \cup {"PAID", "ARCHIVED"}
assertDebtLimit(next, delta) ==
  isActive(next) => Cardinality({d \in Debts : isActive(held[d])}) + delta < limit
\* debtSchema, as far as the list can break it; the rest is the module Forms'.
debtSchema(in) == in.of.minimum <= in.of.balance + in.of.fees

-----------------------------------------------------------------------------
(* The screen.                                                               *)

Listed == {d \in Debts : Exists(list.held, d)}
activeDebts == {d \in Listed : list.held[d].status # "ARCHIVED"}
debtLimitReached == Cardinality(activeDebts) >= list.limit /\ editing = NoDebt

debtToFormValues(d) ==
  [source |-> d, named |-> TRUE, status |-> list.held[d].status, of |-> list.held[d].of]

resetForm == editing' = NoDebt /\ typed' = emptyDebtValues
Typing == used.typed < MaxTyped /\ used' = [used EXCEPT !.typed = @ + 1]
Emptying == used' = [used EXCEPT !.typed = 0]
Sending == used.sent < MaxRequests /\ used' = [used EXCEPT !.sent = @ + 1]
InForm == UNCHANGED <<held, limit, list, saving, filing, deleting, outdated>>

TypeValues == /\ Typing
              /\ \E e \in Entries, s \in Statuses :
                   typed' = [typed EXCEPT !.named = TRUE, !.status = s, !.of = e]
              /\ InForm /\ UNCHANGED editing

\* A preset begins a new debt, on the texts and amounts that were in the form; the
\* presets of an empty list begin on nothing.
applyPreset == /\ \/ typed' = [typed EXCEPT !.source = NoDebt, !.status = "CURRENT",
                                            !.of.fees = 0]
                  \/ Listed = {} /\ typed' = emptyDebtValues
               /\ editing' = NoDebt /\ InForm /\ UNCHANGED used

startEditingDebt == /\ \E d \in Listed : editing' = d /\ typed' = debtToFormValues(d)
                    /\ Emptying /\ InForm
Clear == resetForm /\ Emptying /\ InForm

\* from is what the screen showed when the button was pressed.
submit ==
  /\ saving = Quiet /\ ~debtLimitReached /\ Sending
  /\ typed.named /\ debtSchema(typed)
  /\ saving' = [stage |-> "sent", debt |-> editing, in |-> typed, from |-> list]
  /\ UNCHANGED <<held, limit, list, editing, typed, filing, deleting, outdated>>

\* What is sent is the debt as it was listed, with another status.
handleArchive ==
  /\ filing = Quiet /\ Sending
  /\ \E d \in Listed :
       /\ list.held[d].status # "ARCHIVED"
       /\ filing' = [stage |-> "sent", debt |-> d,
                     in |-> [debtToFormValues(d) EXCEPT !.status = "ARCHIVED"],
                     from |-> list, clears |-> editing = d]
  /\ UNCHANGED <<held, limit, list, editing, typed, saving, deleting, outdated>>

handleDelete ==
  /\ deleting = Quiet /\ Sending
  /\ \E d \in Listed : deleting' = [stage |-> "sent", debt |-> d, clears |-> editing = d]
  /\ UNCHANGED <<held, limit, list, editing, typed, saving, filing, outdated>>

-----------------------------------------------------------------------------
(* What the service makes of a request.                                      *)

Served == UNCHANGED <<limit, list, editing, typed, outdated, used>>
Stores(d, row) == held' = [held EXCEPT ![d] = row]

createDebt ==
  /\ saving.stage = "sent" /\ saving.debt = NoDebt
  /\ \E d \in Debts :
       /\ held[d].status = "NONE"
       /\ IF assertDebtLimit(RowOf(saving.in, 0), 0)
          THEN Stores(d, RowOf(saving.in, 0)) /\ saving' = [saving EXCEPT !.stage = "done"]
          ELSE saving' = [saving EXCEPT !.stage = "over the limit"] /\ UNCHANGED held
  /\ Served /\ UNCHANGED <<filing, deleting>>

Accepts(d, in) ==
  /\ debtSchema(in) /\ Exists(held, d)
  /\ assertDebtLimit(RowOf(in, held[d].paidOff), IF isActive(held[d]) THEN -1 ELSE 0)
Updates(call) ==
  IF Accepts(call.debt, call.in)
  THEN Stores(call.debt, RowOf(call.in, held[call.debt].paidOff)) ELSE UNCHANGED held
After(call) == [call EXCEPT !.stage = IF Accepts(call.debt, call.in) THEN "done" ELSE "refused"]

updateDebt ==
  \/ /\ saving.stage = "sent" /\ saving.debt # NoDebt
     /\ Updates(saving) /\ saving' = After(saving)
     /\ Served /\ UNCHANGED <<filing, deleting>>
  \/ /\ filing.stage = "sent"
     /\ Updates(filing) /\ filing' = After(filing)
     /\ Served /\ UNCHANGED <<saving, deleting>>

deleteDebt ==
  /\ deleting.stage = "sent" /\ Exists(held, deleting.debt)
  /\ Stores(deleting.debt, [held[deleting.debt] EXCEPT !.status = "GONE"])
  /\ deleting' = [deleting EXCEPT !.stage = "done"]
  /\ Served /\ UNCHANGED <<saving, filing>>

-----------------------------------------------------------------------------
(* The answers.  A handler goes by the selection it was called on.           *)

Saved == /\ saving.stage = "done" /\ saving' = Quiet
         /\ resetForm /\ Emptying /\ outdated' = TRUE
         /\ UNCHANGED <<held, limit, list, filing, deleting>>
Archived == /\ filing.stage = "done" /\ filing' = Quiet /\ outdated' = TRUE
            /\ IF filing.clears THEN resetForm /\ Emptying ELSE UNCHANGED <<editing, typed, used>>
            /\ UNCHANGED <<held, limit, list, saving, deleting>>
\* The demo's answer; the database refuses the entry that follows (Ledger), and the
\* screen takes the deletion for one that failed.
Deleted == /\ deleting.stage = "done" /\ deleting' = Quiet /\ outdated' = TRUE
           /\ IF deleting.clears THEN resetForm /\ Emptying ELSE UNCHANGED <<editing, typed, used>>
           /\ UNCHANGED <<held, limit, list, saving, filing>>

\* Refused, failed, or the answer never came.
Failed == /\ \/ saving # Quiet /\ saving' = Quiet /\ UNCHANGED <<filing, deleting>>
             \/ filing # Quiet /\ filing' = Quiet /\ UNCHANGED <<saving, deleting>>
             \/ deleting # Quiet /\ deleting' = Quiet /\ UNCHANGED <<saving, filing>>
          /\ UNCHANGED <<held, limit, list, editing, typed, outdated, used>>

Refresh == /\ outdated /\ outdated' = FALSE /\ list' = [held |-> held, limit |-> limit]
           /\ UNCHANGED <<held, limit, editing, typed, saving, filing, deleting, used>>

\* On another device a debt is paid off, archived or not, or the membership changes.
Owes(d) == Exists(held, d) /\ held[d].of.balance + held[d].of.fees > 0
PaysOff(d) == [held[d] EXCEPT !.of.balance = 0, !.of.fees = 0, !.paidOff = Today,
                              !.status = IF @ = "ARCHIVED" THEN @ ELSE "PAID"]
Elsewhere == /\ Sending
             /\ \/ \E d \in Debts : Owes(d) /\ Stores(d, PaysOff(d)) /\ UNCHANGED limit
                \/ limit' \in Limits \ {limit} /\ UNCHANGED held
             /\ UNCHANGED <<list, editing, typed, saving, filing, deleting, outdated>>

Init == /\ held \in Openings /\ limit \in Limits
        /\ list = [held |-> held, limit |-> limit]
        /\ editing = NoDebt /\ typed = emptyDebtValues
        /\ saving = Quiet /\ filing = Quiet /\ deleting = Quiet /\ outdated = FALSE
        /\ used = [typed |-> 0, sent |-> 0]
Next == \/ TypeValues \/ applyPreset \/ startEditingDebt \/ Clear
        \/ submit \/ handleArchive \/ handleDelete
        \/ createDebt \/ updateDebt \/ deleteDebt
        \/ Saved \/ Archived \/ Deleted \/ Failed \/ Refresh \/ Elsewhere
Spec == Init /\ [][Next]_vars
-----------------------------------------------------------------------------
TypeOK == /\ \A d \in Debts : held[d] \in Row /\ list.held[d] \in Row
          /\ {limit, list.limit} \subseteq Limits
          /\ editing \in Debts \cup {NoDebt} /\ typed \in Form

\* A debt is corrected with its own values: while one is selected the form was filled
\* from it, whatever presets, answers and refreshes came in between.
CorrectsItsOwn == editing # NoDebt => typed.source = editing

\* Archiving a debt that has not changed since the screen was rendered changes its
\* status, though the whole debt is sent back, and loses one value of it: the day a PAID
\* debt was paid off.  What it owes and asks for stays.
ArchivesOnly ==
  filing.stage = "sent" /\ filing'.stage = "done" /\ held[filing.debt] = filing.from.held[filing.debt]
  => held' = [held EXCEPT ![filing.debt].status = "ARCHIVED", ![filing.debt].paidOff = 0]

\* Nobody who was shown the debts and the membership as they are fills in a new debt
\* that is then refused for the limit: the screen says so before.
LimitIsTold ==
  saving.stage = "sent" /\ saving'.stage = "over the limit" =>
    saving.from # [held |-> held, limit |-> limit]
=============================================================================
