-------------------------------- MODULE Ledger --------------------------------
(***************************************************************************)
(* The debts and payments of one user, and the requests that change them.  *)
(*                                                                         *)
(* A request reads outside any transaction, computes, and then commits     *)
(* absolute values; PostgreSQL (READ COMMITTED) makes each commit atomic   *)
(* and nothing makes the request atomic.  After its commit a request still *)
(* writes its audit entry and a balance snapshot, each on its own.         *)
(***************************************************************************)
EXTENDS PaymentAllocation, FiniteSetsExt

CONSTANTS
    Debts, Payments,      \* identifiers; one is never used twice
    Requests,             \* requests that may be in flight together
    Ops,                  \* the operations clients call
    PaymentInputs,        \* the payment forms clients send
    DebtInputs,           \* the debt forms clients send
    Limits,               \* maxActiveDebts of the plans the user may be on
    OpeningBalances,      \* balances typed into the onboarding form
    MaxNow,               \* bound: how far the clock runs
    MaxEdits,             \* bound: payments recorded or edited per debt
    MaxCrashes            \* bound: requests cut short

Operations == {"createPayment", "updatePayment", "deletePayment",
               "createDebt", "updateDebt", "deleteDebt", "onboard"}
PaymentOps == {"createPayment", "updatePayment", "deletePayment"}

OnboardingMaxDebts == 3

NoDate == -1
Dates == 0..MaxNow \cup {NoDate}

Statuses == {"CURRENT", "LATE", "NEGOTIATING", "PAID", "ARCHIVED"}
DebtInput == [status: Statuses, owed: Owed, due: Dates]

ASSUME LedgerAssumption ==
    /\ Ops \subseteq Operations
    /\ PaymentInputs \subseteq {in \in PaymentInput : ValidInput(in)}
    /\ DebtInputs \subseteq DebtInput
    /\ Limits \subseteq Nat /\ Limits # {}
    /\ OpeningBalances \subseteq Nat \ {0}
    /\ MaxNow \in Nat /\ MaxEdits \in Nat /\ MaxCrashes \in Nat
    /\ "none" \notin Debts /\ "none" \notin Payments

VARIABLES
    debts,       \* debts[d]: the row of debt d
    payments,    \* payments[p]: the row of payment p
    onboarded,   \* User.onboardingCompleted
    limit,       \* maxActiveDebts of the plan in force
    audit,       \* AuditLog, as a set of [action, id]
    snapshot,    \* totalBalance of the latest BalanceSnapshot
    req,         \* req[r]: where request r stands and what it has read
    summed,      \* summed[r]: the total r has read for its snapshot
    now, crashes,
    charged,     \* history: what the user has declared owed, payments included
    paid,        \* history: what the live payments of a debt record as parts
    edits        \* history: payments recorded or edited on a debt

stores  == <<debts, payments, onboarded, limit, audit, snapshot>>
history == <<charged, paid, edits>>
env     == <<summed, now, crashes>>
vars    == <<stores, req, env, history>>

-----------------------------------------------------------------------------
(* Rows.  "NONE" has never existed, "GONE" has been deleted.               *)

DebtRow == [status: Statuses \cup {"NONE", "GONE"}, owed: Owed, due: Dates,
            archived: BOOLEAN, paidOff: BOOLEAN]
NoDebt == [status |-> "NONE", owed |-> [balance |-> 0, late |-> 0, extra |-> 0],
           due |-> NoDate, archived |-> FALSE, paidOff |-> FALSE]

PaymentRow == [state: {"NONE", "LIVE", "GONE"}, debt: Debts \cup {"none"},
               split: Breakdown]
NoSplit == [amount |-> 0, principal |-> 0, interest |-> 0, late |-> 0,
            extra |-> 0, remaining |-> 0]
AuditEntry == [action: Operations \cup {"none"},
               id: Debts \cup Payments \cup {"none", "user"}]
NoPayment == [state |-> "NONE", debt |-> "none", split |-> NoSplit]

Exists(d) == d \in Debts /\ debts[d].status \in Statuses
Live(p)   == p \in Payments /\ payments[p].state = "LIVE"
FreshDebts    == {d \in Debts : debts[d].status = "NONE"}
FreshPayments == {p \in Payments : payments[p].state = "NONE"}

IsActive(row)   == row.status \in Statuses \ {"PAID", "ARCHIVED"} /\ ~row.archived
ActiveDebts     == {d \in Debts : IsActive(debts[d])}
ActiveTotal     == MapThenSumSet(LAMBDA d : TotalDue(debts[d].owed), ActiveDebts)

CanAddMoreDebts(count) == count < limit

DeriveStatus(archived, due, total, preferred) ==
    IF archived                           THEN "ARCHIVED"
    ELSE IF total <= 0                    THEN "PAID"
    ELSE IF preferred = "NEGOTIATING"     THEN "NEGOTIATING"
    ELSE IF due # NoDate /\ due < now     THEN "LATE"
    ELSE                                       "CURRENT"

\* The row createDebt and updateDebt write; the status comes from the amounts
\* as typed, the columns keep cents.
RowFrom(in) ==
    LET archived == in.status = "ARCHIVED"
        status   == DeriveStatus(archived, in.due, TotalDue(in.owed), in.status)
    IN  [status |-> status, due |-> in.due, archived |-> archived,
         paidOff |-> status = "PAID",
         owed |-> [balance |-> ToCents(in.owed.balance), late |-> ToCents(in.owed.late),
                   extra |-> ToCents(in.owed.extra)]]

\* Mutant: the status of the amounts that were read.
StatusAfter_Stale(seen, owed) ==
    DeriveStatus(seen.archived, seen.due, TotalDue(seen.owed), seen.status)

\* The status a payment operation writes, from the row it read.
StatusAfter(seen, owed) ==
    DeriveStatus(seen.archived, seen.due, TotalDue(owed),
                 IF seen.status = "NEGOTIATING" THEN "NEGOTIATING" ELSE "CURRENT")

-----------------------------------------------------------------------------
(* Requests                                                                *)

NoPaymentInput == [amount |-> 0, principal |-> Omitted, interest |-> Omitted,
                   late |-> Omitted, extra |-> Omitted]

Stages == {"idle", "debt", "limit", "write", "audit", "sum", "save"}
Request == [op: Operations \cup {"none"}, pc: Stages,
            debt: Debts \cup {"none"}, payment: Payments \cup {"none"},
            in: PaymentInputs \cup {NoPaymentInput},
            seen: DebtRow, next: DebtRow, seenPayment: PaymentRow]
Idle == [op |-> "none", pc |-> "idle", debt |-> "none", payment |-> "none",
         in |-> NoPaymentInput, seen |-> NoDebt, next |-> NoDebt,
         seenPayment |-> NoPayment]

Call(r, op) == req[r].pc = "idle" /\ op \in Ops
At(r, op, pc) == req[r].op = op /\ req[r].pc = pc
Finish(r) == req' = [req EXCEPT ![r] = Idle]
Begin(r, op, pc, fields) ==
    req' = [req EXCEPT ![r] = [fields EXCEPT !.op = op, !.pc = pc]]

Init ==
    /\ debts = [d \in Debts |-> NoDebt]
    /\ payments = [p \in Payments |-> NoPayment]
    /\ onboarded = FALSE
    /\ limit \in Limits
    /\ audit = {}
    /\ snapshot = 0
    /\ req = [r \in Requests |-> Idle]
    /\ summed = [r \in Requests |-> 0]
    /\ now = 0 /\ crashes = 0
    /\ charged = [d \in Debts |-> 0]
    /\ paid = [d \in Debts |-> 0]
    /\ edits = [d \in Debts |-> 0]

-----------------------------------------------------------------------------
(* Reading                                                                 *)

\* createPayment reads the debt and allocates.
ReadForCreatePayment(r, d, in) ==
    /\ Call(r, "createPayment")
    /\ edits[d] < MaxEdits
    /\ IF Exists(d) /\ Rejection(debts[d].owed, in) = "none"
       THEN Begin(r, "createPayment", "write",
                  [Idle EXCEPT !.debt = d, !.in = in, !.seen = debts[d]])
       ELSE Finish(r)
    /\ UNCHANGED <<stores, env, history>>

\* updatePayment and deletePayment read the payment first...
ReadPayment(r, op, p, in) ==
    /\ Call(r, op)
    /\ \/ op = "deletePayment" /\ in = NoPaymentInput
       \/ /\ op = "updatePayment" /\ in \in PaymentInputs
          /\ Live(p) => edits[payments[p].debt] < MaxEdits
    /\ IF Live(p)
       THEN Begin(r, op, "debt", [Idle EXCEPT !.debt = payments[p].debt, !.payment = p,
                                              !.in = in, !.seenPayment = payments[p]])
       ELSE Finish(r)
    /\ UNCHANGED <<stores, env, history>>

\* ... and its debt in a query of its own; an edit allocates the new amount
\* on the debt without the old payment.
WithoutPayment(r) == Reverted(req[r].seen.owed, req[r].seenPayment.split)

ReadPaymentsDebt(r) ==
    LET d     == req[r].debt
        owed  == Reverted(debts[d].owed, req[r].seenPayment.split)
        fits  == req[r].op = "updatePayment" => Rejection(owed, req[r].in) = "none"
    IN  /\ req[r].pc = "debt"
        /\ IF Exists(d) /\ fits
           THEN req' = [req EXCEPT ![r].pc = "write", ![r].seen = debts[d]]
           ELSE Finish(r)
        /\ UNCHANGED <<stores, env, history>>

\* createDebt decides status and dates before anything is read.
PrepareDebt(r, in) ==
    /\ Call(r, "createDebt")
    /\ Begin(r, "createDebt", "limit", [Idle EXCEPT !.next = RowFrom(in)])
    /\ UNCHANGED <<stores, env, history>>

ReadForUpdateDebt(r, d, in) ==
    /\ Call(r, "updateDebt")
    /\ IF Exists(d)
       THEN Begin(r, "updateDebt", "limit",
                  [Idle EXCEPT !.debt = d, !.seen = debts[d], !.next = RowFrom(in)])
       ELSE Finish(r)
    /\ UNCHANGED <<stores, env, history>>

\* assertDebtLimit: an edit does not count the debt it read as active.
CheckLimit(r) ==
    LET others == Cardinality(ActiveDebts) - (IF IsActive(req[r].seen) THEN 1 ELSE 0)
    IN  /\ req[r].pc = "limit"
        /\ IF IsActive(req[r].next) => CanAddMoreDebts(others)
           THEN req' = [req EXCEPT ![r].pc = "write"]
           ELSE Finish(r)
        /\ UNCHANGED <<stores, env, history>>

ReadForDeleteDebt(r, d) ==
    /\ Call(r, "deleteDebt")
    /\ IF Exists(d)
       THEN Begin(r, "deleteDebt", "write", [Idle EXCEPT !.debt = d, !.seen = debts[d]])
       ELSE Finish(r)
    /\ UNCHANGED <<stores, env, history>>

\* The first statement of the onboarding transaction.
ReadOnboarded(r) ==
    /\ Call(r, "onboard")
    /\ IF onboarded THEN Finish(r) ELSE Begin(r, "onboard", "write", Idle)
    /\ UNCHANGED <<stores, env, history>>

-----------------------------------------------------------------------------
(* Committing                                                              *)

\* updateMany on the debt of a payment: these columns, whatever the row holds.
SettleDebt(d, seen, owed, paidOff) ==
    debts' = [debts EXCEPT ![d].owed = owed, ![d].paidOff = paidOff,
                           ![d].status = StatusAfter(seen, owed)]

CommitCreatePayment(r) ==
    LET d     == req[r].debt
        owed  == req[r].seen.owed
        split == BreakdownOf(owed, req[r].in)
    IN  /\ At(r, "createPayment", "write") /\ Exists(d)
        /\ \E p \in FreshPayments :
              /\ payments' = [payments EXCEPT ![p] =
                                 [state |-> "LIVE", debt |-> d, split |-> split]]
              /\ req' = [req EXCEPT ![r].pc = "audit", ![r].payment = p]
        /\ SettleDebt(d, req[r].seen, OwedAfter(owed, req[r].in), split.remaining <= 0)
        /\ paid' = [paid EXCEPT ![d] = @ + PartsOf(split)]
        /\ edits' = [edits EXCEPT ![d] = @ + 1]
        /\ UNCHANGED <<onboarded, limit, audit, snapshot, env, charged>>

CommitUpdatePayment(r) ==
    LET d     == req[r].debt
        p     == req[r].payment
        owed  == WithoutPayment(r)
        split == BreakdownOf(owed, req[r].in)
    IN  /\ At(r, "updatePayment", "write") /\ Exists(d) /\ Live(p)
        /\ SettleDebt(d, req[r].seen, OwedAfter(owed, req[r].in), split.remaining <= 0)
        /\ payments' = [payments EXCEPT ![p].split = split]
        /\ req' = [req EXCEPT ![r].pc = "audit"]
        /\ paid' = [paid EXCEPT ![d] = @ - PartsOf(payments[p].split) + PartsOf(split)]
        /\ edits' = [edits EXCEPT ![d] = @ + 1]
        /\ UNCHANGED <<onboarded, limit, audit, snapshot, env, charged>>

RemovePayment(p) == payments' = [payments EXCEPT ![p] = [NoPayment EXCEPT !.state = "GONE"]]

CommitDeletePayment(r) ==
    LET d      == req[r].debt
        p      == req[r].payment
        owed   == WithoutPayment(r)
        status == StatusAfter(req[r].seen, owed)
    IN  /\ At(r, "deletePayment", "write") /\ Exists(d) /\ Live(p)
        /\ SettleDebt(d, req[r].seen, owed, status = "PAID" /\ req[r].seen.paidOff)
        /\ RemovePayment(p)
        /\ req' = [req EXCEPT ![r].pc = "audit"]
        /\ paid' = [paid EXCEPT ![d] = @ - PartsOf(payments[p].split)]
        /\ UNCHANGED <<onboarded, limit, audit, snapshot, env, charged, edits>>

CommitCreateDebt(r) ==
    /\ At(r, "createDebt", "write")
    /\ \E d \in FreshDebts :
          /\ debts' = [debts EXCEPT ![d] = req[r].next]
          /\ req' = [req EXCEPT ![r].pc = "audit", ![r].debt = d]
          /\ charged' = [charged EXCEPT ![d] = TotalDue(req[r].next.owed)]
    /\ UNCHANGED <<payments, onboarded, limit, audit, snapshot, env, paid, edits>>

CommitUpdateDebt(r) ==
    LET d == req[r].debt
    IN  /\ At(r, "updateDebt", "write") /\ Exists(d)
        /\ debts' = [debts EXCEPT ![d] = req[r].next]
        /\ req' = [req EXCEPT ![r].pc = "audit"]
        /\ charged' = [charged EXCEPT ![d] = TotalDue(req[r].next.owed) + paid[d]]
        /\ UNCHANGED <<payments, onboarded, limit, audit, snapshot, env, paid, edits>>

\* Payments go with their debt (ON DELETE CASCADE).
CommitDeleteDebt(r) ==
    LET d == req[r].debt
    IN  /\ At(r, "deleteDebt", "write") /\ Exists(d)
        /\ debts' = [debts EXCEPT ![d] = [NoDebt EXCEPT !.status = "GONE"]]
        /\ payments' = [p \in Payments |->
                           IF Live(p) /\ payments[p].debt = d
                           THEN [NoPayment EXCEPT !.state = "GONE"] ELSE payments[p]]
        /\ req' = [req EXCEPT ![r].pc = "audit"]
        /\ charged' = [charged EXCEPT ![d] = 0]
        /\ paid' = [paid EXCEPT ![d] = 0]
        /\ UNCHANGED <<onboarded, limit, audit, snapshot, env, edits>>

\* Mutant: the failure is swallowed and the request goes on.
CommitFails_Swallowed(r) ==
    /\ req[r].pc = "write"
    /\ req' = [req EXCEPT ![r].pc = "audit"]
    /\ UNCHANGED <<stores, env, history>>

\* The commit rolls back: its rows are gone, or the database is unreachable.
CommitFails(r) ==
    /\ req[r].pc = "write"
    /\ Finish(r)
    /\ UNCHANGED <<stores, env, history>>

\* The rest of the onboarding transaction; its audit entry and its snapshot
\* are inside it.
CommitOnboarding(r) ==
    /\ At(r, "onboard", "write")
    /\ onboarded' = TRUE
    /\ \E new \in SUBSET FreshDebts, b \in OpeningBalances :
          LET row == [NoDebt EXCEPT !.status = "CURRENT", !.owed.balance = ToCents(b)]
          IN  /\ IsFiniteSet(new) /\ Cardinality(new) \in 1..OnboardingMaxDebts
              /\ debts' = [d \in Debts |-> IF d \in new THEN row ELSE debts[d]]
              /\ charged' = [d \in Debts |-> IF d \in new THEN ToCents(b) ELSE charged[d]]
              /\ snapshot' = ActiveTotal + Cardinality(new) * ToCents(b)
    /\ audit' = audit \cup {[action |-> "onboard", id |-> "user"]}
    /\ Finish(r)
    /\ UNCHANGED <<payments, limit, env, paid, edits>>

-----------------------------------------------------------------------------
(* After the commit                                                        *)

\* The entry names the rows it is about, and the foreign keys want them there.
Audited(r) ==
    LET q == req[r]
    IN  [action |-> q.op, id |-> IF q.op \in PaymentOps THEN q.payment ELSE q.debt]
RowsRemain(r) == Exists(req[r].debt) /\ (req[r].payment \in Payments => Live(req[r].payment))

WriteAudit(r) ==
    /\ req[r].pc = "audit"
    /\ IF RowsRemain(r)
       THEN /\ audit' = audit \cup {Audited(r)}
            /\ req' = [req EXCEPT ![r].pc = "sum"]
       ELSE /\ Finish(r)
            /\ UNCHANGED audit
    /\ UNCHANGED <<debts, payments, onboarded, limit, snapshot, env, history>>

\* Mutant: settled and archived debts are summed too.
SumDebts_All(r) ==
    /\ req[r].pc = "sum"
    /\ req' = [req EXCEPT ![r].pc = "save"]
    /\ summed' = [summed EXCEPT ![r] =
                    MapThenSumSet(LAMBDA d : TotalDue(debts[d].owed), Debts)]
    /\ UNCHANGED <<stores, now, crashes, history>>

\* captureBalanceSnapshot: findMany, then create.
SumDebts(r) ==
    /\ req[r].pc = "sum"
    /\ req' = [req EXCEPT ![r].pc = "save"]
    /\ summed' = [summed EXCEPT ![r] = ActiveTotal]
    /\ UNCHANGED <<stores, now, crashes, history>>

SaveSnapshot(r) ==
    /\ req[r].pc = "save"
    /\ snapshot' = summed[r]
    /\ summed' = [summed EXCEPT ![r] = 0]
    /\ Finish(r)
    /\ UNCHANGED <<debts, payments, onboarded, limit, audit, now, crashes, history>>

-----------------------------------------------------------------------------
(* The environment                                                         *)

\* The process dies or loses the database: what was committed stays.
Crash(r) ==
    /\ req[r].pc # "idle" /\ crashes < MaxCrashes
    /\ crashes' = crashes + 1
    /\ Finish(r)
    /\ summed' = [summed EXCEPT ![r] = 0]
    /\ UNCHANGED <<stores, now, history>>

Tick ==
    /\ now < MaxNow
    /\ now' = now + 1
    /\ UNCHANGED <<stores, req, summed, crashes, history>>

\* Billing moves the user to another plan.
ChangePlan ==
    /\ \E l \in Limits \ {limit} : limit' = l
    /\ UNCHANGED <<debts, payments, onboarded, audit, snapshot, req, env, history>>

Reads(r) ==
    \/ \E d \in Debts, in \in PaymentInputs : ReadForCreatePayment(r, d, in)
    \/ \E p \in Payments, in \in PaymentInputs \cup {NoPaymentInput},
          op \in {"updatePayment", "deletePayment"} : ReadPayment(r, op, p, in)
    \/ ReadPaymentsDebt(r)
    \/ \E in \in DebtInputs : PrepareDebt(r, in)
    \/ \E d \in Debts, in \in DebtInputs : ReadForUpdateDebt(r, d, in)
    \/ CheckLimit(r)
    \/ \E d \in Debts : ReadForDeleteDebt(r, d)
    \/ ReadOnboarded(r)

Commits(r) ==
    \/ CommitCreatePayment(r) \/ CommitUpdatePayment(r) \/ CommitDeletePayment(r)
    \/ CommitCreateDebt(r) \/ CommitUpdateDebt(r) \/ CommitDeleteDebt(r)
    \/ CommitOnboarding(r) \/ CommitFails(r)

Next ==
    \/ \E r \in Requests : \/ Reads(r) \/ Commits(r)
                           \/ WriteAudit(r) \/ SumDebts(r) \/ SaveSnapshot(r)
                           \/ Crash(r)
    \/ Tick
    \/ ChangePlan

Spec == Init /\ [][Next]_vars

-----------------------------------------------------------------------------
(* Properties                                                              *)

\* Every variable holds what its column, or its request, can hold.  (`summed`
\* and `snapshot` are sums over the debts: SnapshotIsCurrent says which.)
TypeOK ==
    /\ debts \in [Debts -> DebtRow]
    /\ payments \in [Payments -> PaymentRow]
    /\ onboarded \in BOOLEAN /\ limit \in Limits
    /\ audit \subseteq AuditEntry
    /\ req \in [Requests -> Request]
    /\ now \in 0..MaxNow /\ crashes \in 0..MaxCrashes
    /\ charged \in [Debts -> Int] /\ paid \in [Debts -> Int] /\ edits \in [Debts -> Nat]

\* Status, settlement date and amounts of a debt agree, whatever interleaving
\* of stale writers produced the row: a PAID or paid-off debt owes nothing, and
\* one that owes nothing is PAID or ARCHIVED.
SettledRow(row) ==
    /\ row.status = "PAID" \/ row.paidOff => TotalDue(row.owed) = 0
    /\ TotalDue(row.owed) = 0 => row.status \in {"PAID", "ARCHIVED"}
PaidMeansSettled == \A d \in Debts : Exists(d) => SettledRow(debts[d])

\* An entry of the audit log tells of something that did happen.
Happened(e) ==
    /\ e.action \in {"createPayment", "updatePayment"} => e.id \in Payments \ FreshPayments
    /\ e.action = "deletePayment" => e.id \in Payments /\ payments[e.id].state = "GONE"
    /\ e.action \in {"createDebt", "updateDebt"} => e.id \in Debts \ FreshDebts
    /\ e.action = "deleteDebt" => e.id \in Debts /\ debts[e.id].status = "GONE"
    /\ e.action = "onboard" => onboarded
AuditTellsTheTruth == \A e \in audit : Happened(e)

\* What the live payments of a debt record: paid, read off the rows.
Recorded(d) == MapThenSumSet(LAMBDA p : PartsOf(payments[p].split),
                             {p \in Payments : Live(p) /\ payments[p].debt = d})

\* What a debt owes and what its payments record add up to what the user has
\* declared, up to the half cents an edit can gain: the recalculation of
\* createPayment, updatePayment and deletePayment loses no payment.
HalfCent == IF Cent % 2 = 0 THEN Cent ELSE 0
BooksClose ==
    \A d \in Debts : Exists(d) =>
        LET booked == TotalDue(debts[d].owed) + Recorded(d)
        IN  charged[d] <= booked /\ booked <= charged[d] + HalfCent * edits[d]

\* A snapshot row holds the total of the active debts at the time it is written.
SnapshotIsCurrent == [][snapshot' # snapshot => snapshot' = ActiveTotal']_vars

\* Once nothing is in flight, and nothing was cut short, every deletion of a debt
\* has its entry in the audit log.
Quiet == crashes = 0 /\ \A r \in Requests : req[r].pc = "idle"
DeletionsAudited ==
    Quiet => \A d \in Debts :
        debts[d].status = "GONE" => [action |-> "deleteDebt", id |-> d] \in audit

\* Requests that do not overlap keep the abstract book: a crash, a failed
\* commit or a failed audit never leaves an entry half made.
Book == INSTANCE DebtBook WITH
    Slack <- HalfCent,
    owes  <- [d \in Debts |-> IF Exists(d) THEN TotalDue(debts[d].owed) ELSE -1],
    entry <- [p \in Payments |-> [debt  |-> payments[p].debt,
                                  parts |-> PartsOf(payments[p].split)]]
KeepsTheBook == Book!Spec
=============================================================================
