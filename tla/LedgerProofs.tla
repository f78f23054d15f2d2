----------------------------- MODULE LedgerProofs -----------------------------
(***************************************************************************)
(* What holds of the ledger for any number of debts, payments and requests *)
(* in flight, whatever the forms, the rate and the interleaving.           *)
(***************************************************************************)
EXTENDS Ledger, TLAPS

-----------------------------------------------------------------------------
(* The split of a payment: what it returns, preserves and bounds, for every   *)
(* debt, every input and every monthly rate.                                  *)

\* Rounding to cents keeps an amount an amount, moves it by half a cent at
\* most, and makes zero of less than half a cent only.
LEMMA RoundingBounds ==
    ASSUME NEW x \in Nat
    PROVE  /\ ToCents(x) \in Nat
           /\ 2 * ToCents(x) <= 2 * x + Cent
           /\ 2 * x - Cent < 2 * ToCents(x)
           /\ ToCents(x) = 0 <=> 2 * x < Cent
<1> DEFINE q == (2 * x + Cent) \div (2 * Cent)
<1>1. Cent \in Nat \ {0}
  BY AllocationAssumption
<1>2. q \in Nat /\ 2 * Cent * q <= 2 * x + Cent /\ 2 * x + Cent < 2 * Cent * q + 2 * Cent
  BY <1>1, Z3
<1>3. Cent * q \in Nat /\ 2 * Cent * q = 2 * (Cent * q)
  BY <1>1, <1>2, Z3
<1>4. ToCents(x) = Cent * q
  BY DEF ToCents
<1>5. Cent * q = 0 <=> q = 0
  BY <1>1, <1>2, Z3
<1>6. q = 0 <=> 2 * x < Cent
  <2>1. q = 0 => 2 * x < Cent
    BY <1>1, <1>2, <1>3, <1>5
  <2>2. q # 0 => Cent * q >= Cent
    BY <1>1, <1>2, Z3
  <2> QED
    BY <1>1, <1>2, <1>3, <2>1, <2>2
<1> QED
  BY <1>1, <1>2, <1>3, <1>4, <1>5, <1>6

\* The interest estimate is an amount.
LEMMA InterestIsMoney ==
    ASSUME NEW o \in Owed
    PROVE  MonthlyInterest(o) \in Nat
<1>1. o.balance \in Nat /\ RateNum \in Nat /\ RateDen \in Nat \ {0}
  BY AllocationAssumption DEF Owed
<1>2. o.balance * RateNum \in Nat
  BY <1>1, Z3
<1> QED
  BY <1>1, <1>2, Z3 DEF MonthlyInterest

\* Every part fits in what is owed, the parts together fit in the amount, and
\* whatever principal the form names, the principal part takes all it can: the
\* field changes nothing.
THEOREM PartsFit ==
    ASSUME NEW o \in Owed, NEW in \in PaymentInput
    PROVE  /\ LatePart(o, in) \in 0..o.late
           /\ ExtraPart(o, in) \in 0..o.extra
           /\ AfterCharges(o, in) \in Nat
           /\ InterestPart(o, in) \in 0..Lesser(o.balance, AfterCharges(o, in))
           /\ PrincipalPart(o, in) = Lesser(o.balance, AfterCharges(o, in)) - InterestPart(o, in)
<1>1. /\ o.balance \in Nat /\ o.late \in Nat /\ o.extra \in Nat /\ in.amount \in Nat
      /\ in.late \in OptionalMoney /\ in.extra \in OptionalMoney
      /\ in.interest \in OptionalMoney /\ in.principal \in OptionalMoney
  BY DEF Owed, PaymentInput
<1>2. LatePart(o, in) \in 0..o.late /\ LatePart(o, in) <= in.amount
  BY <1>1 DEF LatePart, Part, Lesser, OptionalMoney, Omitted
<1>3. ExtraPart(o, in) \in 0..o.extra /\ ExtraPart(o, in) <= in.amount - LatePart(o, in)
  <2>1. in.amount - LatePart(o, in) \in Nat
    BY <1>1, <1>2
  <2> QED
    BY <1>1, <2>1 DEF ExtraPart, Part, Lesser, OptionalMoney, Omitted
<1>4. AfterCharges(o, in) \in Nat
  BY <1>1, <1>2, <1>3 DEF AfterCharges
<1>5. InterestPart(o, in) \in 0..Lesser(o.balance, AfterCharges(o, in))
  BY <1>1, <1>4, InterestIsMoney DEF InterestPart, Lesser, OptionalMoney, Omitted
<1>6. PrincipalPart(o, in) = Lesser(o.balance, AfterCharges(o, in)) - InterestPart(o, in)
  <2> DEFINE most   == o.balance - InterestPart(o, in)
             left   == AfterCharges(o, in) - InterestPart(o, in)
             wanted == Part(in.principal, most, left)
  <2>1. most \in Nat /\ left \in Nat
    BY <1>1, <1>4, <1>5 DEF Lesser
  <2>2. wanted \in Nat /\ wanted <= most /\ wanted <= left
    BY <1>1, <2>1 DEF Part, Lesser, OptionalMoney, Omitted
  <2>3. wanted + Lesser(most - wanted, left - wanted) = Lesser(most, left)
    BY <2>1, <2>2 DEF Lesser
  <2>4. Lesser(most, left) = Lesser(o.balance, AfterCharges(o, in)) - InterestPart(o, in)
    BY <1>1, <1>4, <1>5, <2>1 DEF Lesser
  <2> QED
    BY <2>3, <2>4 DEF PrincipalPart
<1> QED
  BY <1>2, <1>3, <1>4, <1>5, <1>6

\* A payment leaves a debt that owes no less than nothing, before and after
\* rounding, and records amounts.
THEOREM AllocationTypes ==
    ASSUME NEW o \in Owed, NEW in \in PaymentInput
    PROVE  /\ Rest(o, in) \in Owed
           /\ OwedAfter(o, in) \in Owed
           /\ BreakdownOf(o, in) \in Breakdown
<1>1. /\ o.balance \in Nat /\ o.late \in Nat /\ o.extra \in Nat /\ in.amount \in Nat
  BY DEF Owed, PaymentInput
<1>2. /\ LatePart(o, in) \in Nat /\ ExtraPart(o, in) \in Nat
      /\ InterestPart(o, in) \in Nat /\ PrincipalPart(o, in) \in Nat
  BY <1>1, PartsFit DEF Lesser
<1>3. Rest(o, in) \in Owed
  BY <1>1, <1>2, PartsFit DEF Rest, Owed, Lesser
<1>4. OwedAfter(o, in) \in Owed
  BY <1>3, RoundingBounds DEF OwedAfter, Owed
<1>5. RemainingAfter(o, in) \in Nat
  BY <1>3, RoundingBounds DEF RemainingAfter, TotalDue, Owed
<1>6. BreakdownOf(o, in) \in Breakdown
  BY <1>1, <1>2, <1>5, RoundingBounds DEF BreakdownOf, Breakdown
<1> QED
  BY <1>3, <1>4, <1>6

\* When the remainder a payment reports is zero, the debt it leaves owes zero:
\* a debt is never dated as settled while something is still owed.
THEOREM NothingRemains ==
    ASSUME NEW o \in Owed, NEW in \in PaymentInput, RemainingAfter(o, in) <= 0
    PROVE  TotalDue(OwedAfter(o, in)) = 0
<1> DEFINE rest == Rest(o, in)
<1>1. rest \in Owed
  BY AllocationTypes
<1>2. rest.balance \in Nat /\ rest.late \in Nat /\ rest.extra \in Nat /\ TotalDue(rest) \in Nat
  BY <1>1 DEF Owed, TotalDue
<1>3. 2 * TotalDue(rest) < Cent
  BY <1>2, RoundingBounds DEF RemainingAfter
<1>4. 2 * rest.balance < Cent /\ 2 * rest.late < Cent /\ 2 * rest.extra < Cent
  BY <1>2, <1>3, AllocationAssumption DEF TotalDue
<1>5. ToCents(rest.balance) = 0 /\ ToCents(rest.late) = 0 /\ ToCents(rest.extra) = 0
  BY <1>2, <1>4, RoundingBounds
<1> QED
  BY <1>5 DEF OwedAfter, TotalDue

\* Taking a payment back leaves amounts.
LEMMA RevertedTypes ==
    ASSUME NEW o \in Owed, NEW b \in Breakdown
    PROVE  Reverted(o, b) \in Owed
BY DEF Reverted, Owed, Breakdown

-----------------------------------------------------------------------------
(* The ledger.                                                                *)

LEMMA FormsAreTyped ==
    /\ PaymentInputs \subseteq PaymentInput
    /\ \A in \in DebtInputs : RowFrom(in) \in DebtRow
<1>1. PaymentInputs \subseteq PaymentInput
  BY LedgerAssumption
<1>2. ASSUME NEW in \in DebtInputs PROVE RowFrom(in) \in DebtRow
  <2>1. in \in DebtInput /\ in.owed \in Owed /\ in.due \in Dates
    BY LedgerAssumption DEF DebtInput
  <2>2. /\ in.owed.balance \in Nat /\ in.owed.late \in Nat /\ in.owed.extra \in Nat
    BY <2>1 DEF Owed
  <2>3. RowFrom(in).owed \in Owed
    BY <2>2, RoundingBounds DEF RowFrom, Owed
  <2>4. RowFrom(in).status \in Statuses
    BY DEF RowFrom, DeriveStatus, Statuses
  <2> QED
    BY <2>1, <2>3, <2>4 DEF RowFrom, DebtRow
<1> QED
  BY <1>1, <1>2

LEMMA NullRowsAreTyped ==
    NoDebt \in DebtRow /\ NoPayment \in PaymentRow /\ Idle \in Request
<1>1. NoDebt \in DebtRow
  BY DEF NoDebt, DebtRow, Owed, Dates, NoDate
<1>2. NoPayment \in PaymentRow
  BY DEF NoPayment, PaymentRow, NoSplit, Breakdown
<1>3. Idle \in Request
  BY <1>1, <1>2 DEF Idle, Request, Stages
<1> QED
  BY <1>1, <1>2, <1>3

LEMMA StatusIsTyped ==
    ASSUME NEW seen, NEW owed PROVE StatusAfter(seen, owed) \in Statuses
BY DEF StatusAfter, DeriveStatus, Statuses

LEMMA InitTyped == Init => TypeOK
<1> SUFFICES ASSUME Init PROVE TypeOK
  OBVIOUS
<1>1. debts \in [Debts -> DebtRow] /\ payments \in [Payments -> PaymentRow]
  BY NullRowsAreTyped DEF Init
<1>2. req \in [Requests -> Request]
  BY NullRowsAreTyped DEF Init
<1>3. now \in 0..MaxNow /\ crashes \in 0..MaxCrashes
  BY LedgerAssumption DEF Init
<1>4. charged \in [Debts -> Int] /\ paid \in [Debts -> Int] /\ edits \in [Debts -> Nat]
  BY DEF Init
<1>5. onboarded \in BOOLEAN /\ limit \in Limits
  BY Zenon DEF Init
<1>6. audit \subseteq AuditEntry
  BY DEF Init
<1> QED
  BY <1>1, <1>2, <1>3, <1>4, <1>5, <1>6 DEF TypeOK

\* Three shapes of step on `req`, and the step that changes nothing else.
LEMMA FinishTyped ==
    ASSUME TypeOK, NEW r \in Requests, Finish(r) PROVE req' \in [Requests -> Request]
BY NullRowsAreTyped DEF TypeOK, Finish

LEMMA BeginTyped ==
    ASSUME TypeOK, NEW r \in Requests, NEW op \in Operations, NEW pc \in Stages,
           NEW fields \in Request, Begin(r, op, pc, fields)
    PROVE  req' \in [Requests -> Request]
<1>1. [fields EXCEPT !.op = op, !.pc = pc] \in Request
  BY DEF Request
<1> QED
  BY <1>1 DEF TypeOK, Begin

LEMMA StageTyped ==
    ASSUME TypeOK, NEW r \in Requests, NEW pc \in Stages
    PROVE  [req EXCEPT ![r].pc = pc] \in [Requests -> Request]
<1>1. [req[r] EXCEPT !.pc = pc] \in Request
  BY DEF TypeOK, Request
<1> QED
  BY <1>1 DEF TypeOK

LEMMA OnlyRequestsMove ==
    ASSUME TypeOK, req' \in [Requests -> Request], UNCHANGED <<stores, now, crashes, history>>
    PROVE  TypeOK'
BY DEF TypeOK, stores, history

LEMMA ReadsTyped ==
    ASSUME TypeOK, NEW r \in Requests, Reads(r) PROVE TypeOK'
<1>1. req[r] \in Request /\ Idle \in Request
  BY NullRowsAreTyped DEF TypeOK
<1> SUFFICES req' \in [Requests -> Request]
  <2>1. UNCHANGED <<stores, now, crashes, history>>
    BY DEF Reads, ReadForCreatePayment, ReadPayment, ReadPaymentsDebt, PrepareDebt,
           ReadForUpdateDebt, CheckLimit, ReadForDeleteDebt, ReadOnboarded, env
  <2> QED
    BY <2>1, OnlyRequestsMove
<1>2. ASSUME NEW d \in Debts, NEW in \in PaymentInputs, ReadForCreatePayment(r, d, in)
      PROVE  req' \in [Requests -> Request]
  <2>1. [Idle EXCEPT !.debt = d, !.in = in, !.seen = debts[d]] \in Request
    BY <1>1 DEF Request, TypeOK
  <2> QED
    BY <1>2, <2>1, BeginTyped, FinishTyped DEF ReadForCreatePayment, Operations, Stages
<1>3. ASSUME NEW p \in Payments, NEW in \in PaymentInputs \cup {NoPaymentInput},
             NEW op \in {"updatePayment", "deletePayment"}, ReadPayment(r, op, p, in)
      PROVE  req' \in [Requests -> Request]
  <2>1. [Idle EXCEPT !.debt = payments[p].debt, !.payment = p,
                     !.in = in, !.seenPayment = payments[p]] \in Request
    BY <1>1 DEF Request, TypeOK, PaymentRow
  <2> QED
    BY <1>3, <2>1, BeginTyped, FinishTyped DEF ReadPayment, Operations, Stages
<1>4. CASE ReadPaymentsDebt(r)
  <2>1. CASE Finish(r)
    BY <2>1, FinishTyped
  <2>2. CASE /\ Exists(req[r].debt)
             /\ req' = [req EXCEPT ![r].pc = "write", ![r].seen = debts[req[r].debt]]
    <3>1. [req[r] EXCEPT !.pc = "write", !.seen = debts[req[r].debt]] \in Request
      BY <1>1, <2>2 DEF Request, Stages, Exists, TypeOK
    <3> QED
      BY <2>2, <3>1 DEF TypeOK
  <2> QED
    BY <1>4, <2>1, <2>2 DEF ReadPaymentsDebt
<1>5. ASSUME NEW in \in DebtInputs, PrepareDebt(r, in)
      PROVE  req' \in [Requests -> Request]
  <2>1. [Idle EXCEPT !.next = RowFrom(in)] \in Request
    BY <1>1, FormsAreTyped DEF Request
  <2> QED
    BY <1>5, <2>1, BeginTyped DEF PrepareDebt, Operations, Stages
<1>6. ASSUME NEW d \in Debts, NEW in \in DebtInputs, ReadForUpdateDebt(r, d, in)
      PROVE  req' \in [Requests -> Request]
  <2>1. [Idle EXCEPT !.debt = d, !.seen = debts[d], !.next = RowFrom(in)] \in Request
    BY <1>1, FormsAreTyped DEF Request, TypeOK
  <2> QED
    BY <1>6, <2>1, BeginTyped, FinishTyped DEF ReadForUpdateDebt, Operations, Stages
<1>7. CASE CheckLimit(r)
  BY <1>7, StageTyped, FinishTyped DEF CheckLimit, Stages
<1>8. ASSUME NEW d \in Debts, ReadForDeleteDebt(r, d)
      PROVE  req' \in [Requests -> Request]
  <2>1. [Idle EXCEPT !.debt = d, !.seen = debts[d]] \in Request
    BY <1>1 DEF Request, TypeOK
  <2> QED
    BY <1>8, <2>1, BeginTyped, FinishTyped DEF ReadForDeleteDebt, Operations, Stages
<1>9. CASE ReadOnboarded(r)
  BY <1>1, <1>9, BeginTyped, FinishTyped DEF ReadOnboarded, Operations, Stages
<1> QED
  BY <1>2, <1>3, <1>4, <1>5, <1>6, <1>7, <1>8, <1>9 DEF Reads

\* What a payment operation writes: the row of its debt and the row of the
\* payment, from whatever the request has read.
LEMMA SettledRowTyped ==
    ASSUME TypeOK, NEW d \in Debts, NEW seen \in DebtRow, NEW owed \in Owed,
           NEW paidOff \in BOOLEAN, SettleDebt(d, seen, owed, paidOff)
    PROVE  debts' \in [Debts -> DebtRow]
<1>1. [debts[d] EXCEPT !.owed = owed, !.paidOff = paidOff,
                       !.status = StatusAfter(seen, owed)] \in DebtRow
  BY StatusIsTyped DEF DebtRow, TypeOK
<1> QED
  BY <1>1 DEF SettleDebt, TypeOK

LEMMA WithoutPaymentTyped ==
    ASSUME TypeOK, NEW r \in Requests
    PROVE  req[r].seen.owed \in Owed /\ WithoutPayment(r) \in Owed
BY RevertedTypes DEF TypeOK, Request, DebtRow, PaymentRow, WithoutPayment

LEMMA PartsAreTyped ==
    ASSUME NEW b \in Breakdown PROVE PartsOf(b) \in Nat
BY DEF PartsOf, Breakdown

LEMMA PaymentCommitsTyped ==
    ASSUME TypeOK, NEW r \in Requests,
           CommitCreatePayment(r) \/ CommitUpdatePayment(r) \/ CommitDeletePayment(r)
    PROVE  TypeOK'
<1> DEFINE d == req[r].debt
           p == req[r].payment
           in == req[r].in
           seen == req[r].seen
<1>1. req[r] \in Request /\ in \in PaymentInput /\ seen \in DebtRow
  BY FormsAreTyped DEF TypeOK, Request, NoPaymentInput, PaymentInput, OptionalMoney
<1>2. seen.owed \in Owed /\ WithoutPayment(r) \in Owed
  BY WithoutPaymentTyped
<1>3. \A o \in Owed : /\ OwedAfter(o, in) \in Owed
                      /\ BreakdownOf(o, in) \in Breakdown
                      /\ PartsOf(BreakdownOf(o, in)) \in Nat
  BY <1>1, AllocationTypes, PartsAreTyped
<1>4. \A q \in Payments : PartsOf(payments[q].split) \in Nat
  BY PartsAreTyped DEF TypeOK, PaymentRow
<1>5. CASE CommitCreatePayment(r)
  <2> DEFINE split == BreakdownOf(seen.owed, in)
  <2>1. d \in Debts /\ split \in Breakdown /\ split.remaining \in Nat
    BY <1>2, <1>3, <1>5 DEF CommitCreatePayment, Exists, Breakdown
  <2>2. debts' \in [Debts -> DebtRow]
    <3>1. SettleDebt(d, seen, OwedAfter(seen.owed, in), split.remaining <= 0)
      BY <1>5 DEF CommitCreatePayment
    <3>2. OwedAfter(seen.owed, in) \in Owed /\ (split.remaining <= 0) \in BOOLEAN
      BY <1>2, <1>3
    <3> QED
      BY <1>1, <2>1, <3>1, <3>2, SettledRowTyped
  <2>3. payments' \in [Payments -> PaymentRow]
    <3>1. [state |-> "LIVE", debt |-> d, split |-> split] \in PaymentRow
      BY <2>1 DEF PaymentRow
    <3> QED
      BY <1>5, <3>1 DEF CommitCreatePayment, TypeOK
  <2>4. req' \in [Requests -> Request]
    <3>1. \A q \in Payments : [req[r] EXCEPT !.pc = "audit", !.payment = q] \in Request
      BY <1>1 DEF Request, Stages
    <3> QED
      BY <1>5, <3>1 DEF CommitCreatePayment, TypeOK, FreshPayments
  <2>5. paid' \in [Debts -> Int] /\ edits' \in [Debts -> Nat]
    <3>1. PartsOf(split) \in Nat
      BY <1>2, <1>3
    <3>2. /\ paid' = [paid EXCEPT ![d] = @ + PartsOf(split)]
          /\ edits' = [edits EXCEPT ![d] = @ + 1]
      BY <1>5 DEF CommitCreatePayment
    <3> QED
      BY <2>1, <3>1, <3>2 DEF TypeOK
  <2> QED
    BY <1>5, <2>2, <2>3, <2>4, <2>5 DEF CommitCreatePayment, TypeOK, env
<1>6. CASE CommitUpdatePayment(r)
  <2> DEFINE split == BreakdownOf(WithoutPayment(r), in)
  <2>1. d \in Debts /\ p \in Payments /\ split \in Breakdown /\ split.remaining \in Nat
    BY <1>2, <1>3, <1>6 DEF CommitUpdatePayment, Exists, Live, Breakdown
  <2>2. debts' \in [Debts -> DebtRow]
    <3>1. SettleDebt(d, seen, OwedAfter(WithoutPayment(r), in), split.remaining <= 0)
      BY <1>6 DEF CommitUpdatePayment
    <3>2. OwedAfter(WithoutPayment(r), in) \in Owed /\ (split.remaining <= 0) \in BOOLEAN
      BY <1>2, <1>3
    <3> QED
      BY <1>1, <2>1, <3>1, <3>2, SettledRowTyped
  <2>3. payments' \in [Payments -> PaymentRow]
    <3>1. [payments[p] EXCEPT !.split = split] \in PaymentRow
      BY <2>1 DEF PaymentRow, TypeOK
    <3> QED
      BY <1>6, <3>1 DEF CommitUpdatePayment, TypeOK
  <2>4. req' \in [Requests -> Request]
    BY <1>6, StageTyped DEF CommitUpdatePayment, Stages
  <2>5. paid' \in [Debts -> Int] /\ edits' \in [Debts -> Nat]
    BY <1>2, <1>3, <1>4, <1>6, <2>1 DEF CommitUpdatePayment, TypeOK
  <2> QED
    BY <1>6, <2>2, <2>3, <2>4, <2>5 DEF CommitUpdatePayment, TypeOK, env
<1>7. CASE CommitDeletePayment(r)
  <2>1. d \in Debts /\ p \in Payments
    BY <1>7 DEF CommitDeletePayment, Exists, Live
  <2>2. debts' \in [Debts -> DebtRow]
    <3>1. (StatusAfter(seen, WithoutPayment(r)) = "PAID" /\ seen.paidOff) \in BOOLEAN
      OBVIOUS
    <3> QED
      BY <1>1, <1>2, <1>7, <2>1, <3>1, SettledRowTyped DEF CommitDeletePayment
  <2>3. payments' \in [Payments -> PaymentRow]
    <3>1. [NoPayment EXCEPT !.state = "GONE"] \in PaymentRow
      BY NullRowsAreTyped DEF PaymentRow
    <3> QED
      BY <1>7, <3>1 DEF CommitDeletePayment, RemovePayment, TypeOK
  <2>4. req' \in [Requests -> Request]
    BY <1>7, StageTyped DEF CommitDeletePayment, Stages
  <2>5. paid' \in [Debts -> Int]
    BY <1>4, <1>7, <2>1 DEF CommitDeletePayment, TypeOK
  <2> QED
    BY <1>7, <2>2, <2>3, <2>4, <2>5 DEF CommitDeletePayment, TypeOK, env
<1> QED
  BY <1>5, <1>6, <1>7

LEMMA DebtCommitsTyped ==
    ASSUME TypeOK, NEW r \in Requests,
           CommitCreateDebt(r) \/ CommitUpdateDebt(r) \/ CommitDeleteDebt(r)
    PROVE  TypeOK'
<1> DEFINE d == req[r].debt
           next == req[r].next
<1>1. req[r] \in Request /\ next \in DebtRow /\ TotalDue(next.owed) \in Int
  BY DEF TypeOK, Request, DebtRow, Owed, TotalDue
<1>2. CASE CommitCreateDebt(r)
  <2>1. PICK e \in Debts :
           /\ debts' = [debts EXCEPT ![e] = next]
           /\ req' = [req EXCEPT ![r].pc = "audit", ![r].debt = e]
           /\ charged' = [charged EXCEPT ![e] = TotalDue(next.owed)]
    BY <1>2 DEF CommitCreateDebt, FreshDebts
  <2>2. debts' \in [Debts -> DebtRow] /\ charged' \in [Debts -> Int]
    BY <1>1, <2>1 DEF TypeOK
  <2>3. req' \in [Requests -> Request]
    <3>1. [req[r] EXCEPT !.pc = "audit", !.debt = e] \in Request
      BY <1>1 DEF Request, Stages
    <3> QED
      BY <2>1, <3>1 DEF TypeOK
  <2> QED
    BY <1>2, <2>2, <2>3 DEF CommitCreateDebt, TypeOK, env
<1>3. CASE CommitUpdateDebt(r)
  <2>1. d \in Debts
    BY <1>3 DEF CommitUpdateDebt, Exists
  <2>2. debts' \in [Debts -> DebtRow] /\ charged' \in [Debts -> Int]
    BY <1>1, <1>3, <2>1 DEF CommitUpdateDebt, TypeOK
  <2>3. req' \in [Requests -> Request]
    BY <1>3, StageTyped DEF CommitUpdateDebt, Stages
  <2> QED
    BY <1>3, <2>2, <2>3 DEF CommitUpdateDebt, TypeOK, env
<1>4. CASE CommitDeleteDebt(r)
  <2>1. [NoDebt EXCEPT !.status = "GONE"] \in DebtRow
    BY NullRowsAreTyped DEF DebtRow
  <2>2. [NoPayment EXCEPT !.state = "GONE"] \in PaymentRow
    BY NullRowsAreTyped DEF PaymentRow
  <2>3. debts' \in [Debts -> DebtRow] /\ payments' \in [Payments -> PaymentRow]
    BY <1>4, <2>1, <2>2 DEF CommitDeleteDebt, TypeOK
  <2>4. req' \in [Requests -> Request]
    BY <1>4, StageTyped DEF CommitDeleteDebt, Stages
  <2>5. charged' \in [Debts -> Int] /\ paid' \in [Debts -> Int]
    <3>1. /\ charged' = [charged EXCEPT ![d] = 0] /\ paid' = [paid EXCEPT ![d] = 0]
      BY <1>4 DEF CommitDeleteDebt
    <3>2. 0 \in Int
      OBVIOUS
    <3> QED
      BY <3>1, <3>2, Zenon DEF TypeOK
  <2> QED
    BY <1>4, <2>3, <2>4, <2>5 DEF CommitDeleteDebt, TypeOK, env
<1> QED
  BY <1>2, <1>3, <1>4

LEMMA OnboardingTyped ==
    ASSUME TypeOK, NEW r \in Requests, CommitOnboarding(r) PROVE TypeOK'
<1>1. PICK new \in SUBSET FreshDebts, b \in OpeningBalances :
         /\ debts' = [d \in Debts |->
                        IF d \in new
                        THEN [NoDebt EXCEPT !.status = "CURRENT", !.owed.balance = ToCents(b)]
                        ELSE debts[d]]
         /\ charged' = [d \in Debts |-> IF d \in new THEN ToCents(b) ELSE charged[d]]
  BY DEF CommitOnboarding
<1>2. ToCents(b) \in Nat
  BY RoundingBounds, LedgerAssumption
<1>3. [NoDebt EXCEPT !.status = "CURRENT", !.owed.balance = ToCents(b)] \in DebtRow
  BY <1>2, NullRowsAreTyped DEF DebtRow, Owed, Statuses
<1>4. debts' \in [Debts -> DebtRow] /\ charged' \in [Debts -> Int]
  BY <1>1, <1>2, <1>3 DEF TypeOK
<1>5. req' \in [Requests -> Request]
  BY FinishTyped DEF CommitOnboarding
<1>6. audit' \subseteq AuditEntry
  BY DEF CommitOnboarding, TypeOK, AuditEntry, Operations
<1> QED
  BY <1>4, <1>5, <1>6 DEF CommitOnboarding, TypeOK, env

LEMMA AfterCommitTyped ==
    ASSUME TypeOK, NEW r \in Requests, WriteAudit(r) \/ SumDebts(r) \/ SaveSnapshot(r)
    PROVE  TypeOK'
<1>1. CASE WriteAudit(r)
  <2>1. req' \in [Requests -> Request]
    BY <1>1, StageTyped, FinishTyped DEF WriteAudit, Stages
  <2>2. audit' \subseteq AuditEntry
    <3>1. Audited(r) \in AuditEntry
      BY DEF Audited, AuditEntry, TypeOK, Request
    <3> QED
      BY <1>1, <3>1 DEF WriteAudit, TypeOK
  <2> QED
    BY <1>1, <2>1, <2>2 DEF WriteAudit, TypeOK, env, history
<1>2. CASE SumDebts(r)
  BY <1>2, StageTyped, OnlyRequestsMove DEF SumDebts, Stages
<1>3. CASE SaveSnapshot(r)
  BY <1>3, FinishTyped DEF SaveSnapshot, TypeOK, history
<1> QED
  BY <1>1, <1>2, <1>3

\* A step of any of the operations, of the clock, of the plan, or a crash
\* leaves every column and every request well formed.
THEOREM TypeCorrect == Spec => []TypeOK
<1>1. TypeOK /\ [Next]_vars => TypeOK'
  <2> SUFFICES ASSUME TypeOK, [Next]_vars PROVE TypeOK'
    OBVIOUS
  <2>1. ASSUME NEW r \in Requests, Reads(r) PROVE TypeOK'
    BY <2>1, ReadsTyped
  <2>2. ASSUME NEW r \in Requests, Commits(r) PROVE TypeOK'
    <3>1. CASE CommitFails(r)
      BY <3>1, FinishTyped, OnlyRequestsMove DEF CommitFails, env
    <3> QED
      BY <2>2, <3>1, PaymentCommitsTyped, DebtCommitsTyped, OnboardingTyped DEF Commits
  <2>3. ASSUME NEW r \in Requests, WriteAudit(r) \/ SumDebts(r) \/ SaveSnapshot(r)
        PROVE  TypeOK'
    BY <2>3, AfterCommitTyped
  <2>4. ASSUME NEW r \in Requests, Crash(r) PROVE TypeOK'
    BY <2>4, FinishTyped, LedgerAssumption DEF Crash, TypeOK, stores, history
  <2>5. CASE Tick
    BY <2>5, LedgerAssumption DEF Tick, TypeOK, stores, history
  <2>6. CASE ChangePlan
    BY <2>6 DEF ChangePlan, TypeOK, env, history
  <2>7. CASE UNCHANGED vars
    BY <2>7 DEF vars, stores, env, history, TypeOK
  <2> QED
    BY <2>1, <2>2, <2>3, <2>4, <2>5, <2>6, <2>7 DEF Next
<1> QED
  BY InitTyped, <1>1, PTL DEF Spec

-----------------------------------------------------------------------------
(* Debts typed in whole cents.  (With a fraction of a cent the status comes   *)
(* from an amount the columns do not keep, and PaidMeansSettled fails.)       *)

Whole(x) == ToCents(x) = x
WholeForms ==
    /\ \A in \in DebtInputs : Whole(in.owed.balance) /\ Whole(in.owed.late) /\ Whole(in.owed.extra)
    /\ \A b \in OpeningBalances : Whole(b)

\* A debt edit commits a row it made before reading: that row has to agree too.
EditsSettled ==
    \A r \in Requests : req[r].op \in {"createDebt", "updateDebt"} => SettledRow(req[r].next)
SettledInv == TypeOK /\ PaidMeansSettled /\ EditsSettled

LEMMA DueIsMoney ==
    ASSUME NEW o \in Owed
    PROVE  /\ TotalDue(o) \in Nat
           /\ TotalDue(o) = 0 <=> o.balance = 0 /\ o.late = 0 /\ o.extra = 0
BY DEF Owed, TotalDue

\* The row a form makes agrees with itself.
LEMMA FormsSettle ==
    ASSUME WholeForms, NEW in \in DebtInputs PROVE SettledRow(RowFrom(in))
<1> DEFINE row == RowFrom(in)
<1>1. in.owed \in Owed
  BY LedgerAssumption DEF DebtInput
<1>2. TotalDue(row.owed) = TotalDue(in.owed)
  BY DEF WholeForms, Whole, RowFrom, TotalDue
<1>3. row.paidOff <=> row.status = "PAID"
  BY DEF RowFrom
<1>4. row.status = DeriveStatus(in.status = "ARCHIVED", in.due, TotalDue(in.owed), in.status)
  BY DEF RowFrom
<1>5. TotalDue(in.owed) \in Nat
  BY <1>1, DueIsMoney
<1> QED
  BY <1>2, <1>3, <1>4, <1>5 DEF DeriveStatus, SettledRow

\* So does the row a payment operation leaves, whatever the row it read.
LEMMA PaymentsSettle ==
    ASSUME TypeOK, NEW d \in Debts, NEW seen, NEW owed \in Owed, NEW paidOff \in BOOLEAN,
           SettleDebt(d, seen, owed, paidOff), paidOff => TotalDue(owed) = 0
    PROVE  SettledRow(debts'[d])
<1>1. /\ debts'[d].owed = owed /\ debts'[d].status = StatusAfter(seen, owed)
      /\ debts'[d].paidOff = paidOff
  BY DEF SettleDebt, TypeOK, DebtRow
<1>2. TotalDue(owed) \in Nat
  BY DueIsMoney
<1>3. /\ StatusAfter(seen, owed) = "PAID" => TotalDue(owed) = 0
      /\ TotalDue(owed) = 0 => StatusAfter(seen, owed) \in {"PAID", "ARCHIVED"}
  BY <1>2 DEF StatusAfter, DeriveStatus
<1> QED
  BY <1>1, <1>3 DEF SettledRow

\* One debt is rewritten, and agrees with itself: all do.
LEMMA OneRowSettles ==
    ASSUME PaidMeansSettled, TypeOK, NEW d \in Debts,
           \A e \in Debts \ {d} : debts'[e] = debts[e],
           debts'[d].status \in Statuses => SettledRow(debts'[d])
    PROVE  PaidMeansSettled'
BY DEF PaidMeansSettled, Exists, SettledRow, TotalDue

LEMMA CommitsSettle ==
    ASSUME SettledInv, WholeForms, NEW r \in Requests, Commits(r)
    PROVE  PaidMeansSettled'
<1> DEFINE d == req[r].debt
           in == req[r].in
           seen == req[r].seen
<1> USE DEF SettledInv
<1>1. seen.owed \in Owed /\ WithoutPayment(r) \in Owed /\ in \in PaymentInput
  BY WithoutPaymentTyped, FormsAreTyped
     DEF TypeOK, Request, NoPaymentInput, PaymentInput, OptionalMoney
<1>2. \A o \in Owed :
         /\ OwedAfter(o, in) \in Owed
         /\ BreakdownOf(o, in).remaining <= 0 => TotalDue(OwedAfter(o, in)) = 0
  BY <1>1, AllocationTypes, NothingRemains DEF BreakdownOf
<1>3. CASE CommitCreatePayment(r)
  <2>1. /\ d \in Debts
        /\ SettleDebt(d, seen, OwedAfter(seen.owed, in), BreakdownOf(seen.owed, in).remaining <= 0)
    BY <1>3 DEF CommitCreatePayment, Exists
  <2>2. /\ OwedAfter(seen.owed, in) \in Owed
        /\ (BreakdownOf(seen.owed, in).remaining <= 0) \in BOOLEAN
        /\ BreakdownOf(seen.owed, in).remaining <= 0 => TotalDue(OwedAfter(seen.owed, in)) = 0
    BY <1>1, <1>2
  <2>3. SettledRow(debts'[d])
    BY <2>1, <2>2, PaymentsSettle
  <2> QED
    BY <2>1, <2>3, OneRowSettles DEF SettleDebt, TypeOK
<1>4. CASE CommitUpdatePayment(r)
  <2> DEFINE owed == WithoutPayment(r)
  <2>1. /\ d \in Debts
        /\ SettleDebt(d, seen, OwedAfter(owed, in), BreakdownOf(owed, in).remaining <= 0)
    BY <1>4 DEF CommitUpdatePayment, Exists
  <2>2. /\ OwedAfter(owed, in) \in Owed
        /\ (BreakdownOf(owed, in).remaining <= 0) \in BOOLEAN
        /\ BreakdownOf(owed, in).remaining <= 0 => TotalDue(OwedAfter(owed, in)) = 0
    BY <1>1, <1>2
  <2>3. SettledRow(debts'[d])
    BY <2>1, <2>2, PaymentsSettle
  <2> QED
    BY <2>1, <2>3, OneRowSettles DEF SettleDebt, TypeOK
<1>5. CASE CommitDeletePayment(r)
  <2> DEFINE owed == WithoutPayment(r)
             paidOff == StatusAfter(seen, owed) = "PAID" /\ seen.paidOff
  <2>1. d \in Debts /\ SettleDebt(d, seen, owed, paidOff)
    BY <1>5 DEF CommitDeletePayment, Exists
  <2>2. paidOff => TotalDue(owed) = 0
    BY <1>1, DueIsMoney DEF StatusAfter, DeriveStatus
  <2>3. paidOff \in BOOLEAN
    OBVIOUS
  <2>4. SettledRow(debts'[d])
    BY <1>1, <2>1, <2>2, <2>3, PaymentsSettle
  <2> QED
    BY <2>1, <2>4, OneRowSettles DEF SettleDebt, TypeOK
<1>6. CASE CommitCreateDebt(r)
  <2>1. PICK e \in Debts : debts' = [debts EXCEPT ![e] = req[r].next]
    BY <1>6 DEF CommitCreateDebt, FreshDebts
  <2>2. SettledRow(req[r].next)
    BY <1>6 DEF CommitCreateDebt, At, EditsSettled
  <2> QED
    BY <2>1, <2>2, OneRowSettles DEF TypeOK
<1>7. CASE CommitUpdateDebt(r)
  <2>1. d \in Debts /\ debts' = [debts EXCEPT ![d] = req[r].next]
    BY <1>7 DEF CommitUpdateDebt, Exists
  <2>2. SettledRow(req[r].next)
    BY <1>7 DEF CommitUpdateDebt, At, EditsSettled
  <2> QED
    BY <2>1, <2>2, OneRowSettles DEF TypeOK
<1>8. CASE CommitDeleteDebt(r)
  <2>1. d \in Debts /\ debts' = [debts EXCEPT ![d] = [NoDebt EXCEPT !.status = "GONE"]]
    BY <1>8 DEF CommitDeleteDebt, Exists
  <2>2. debts'[d].status \notin Statuses
    <3>1. [NoDebt EXCEPT !.status = "GONE"].status = "GONE"
      BY DEF NoDebt
    <3>2. debts'[d] = [NoDebt EXCEPT !.status = "GONE"]
      BY <2>1 DEF TypeOK
    <3> QED
      BY <3>1, <3>2 DEF Statuses
  <2> QED
    BY <2>1, <2>2, OneRowSettles DEF TypeOK
<1>9. CASE CommitOnboarding(r)
  <2>1. PICK new \in SUBSET FreshDebts, b \in OpeningBalances :
          debts' = [e \in Debts |->
                       IF e \in new
                       THEN [NoDebt EXCEPT !.status = "CURRENT", !.owed.balance = ToCents(b)]
                       ELSE debts[e]]
    BY <1>9 DEF CommitOnboarding
  <2>2. ToCents(b) = b /\ b \in Nat \ {0}
    BY LedgerAssumption DEF WholeForms, Whole
  <2>3. SettledRow([NoDebt EXCEPT !.status = "CURRENT", !.owed.balance = ToCents(b)])
    BY <2>2 DEF SettledRow, NoDebt, TotalDue
  <2> QED
    <3> SUFFICES ASSUME NEW e \in Debts, debts'[e].status \in Statuses
                 PROVE  SettledRow(debts'[e])
      BY DEF PaidMeansSettled, Exists, SettledRow, TotalDue
    <3>1. CASE e \in new
      BY <2>1, <2>3, <3>1
    <3>2. CASE e \notin new
      BY <2>1, <3>2 DEF PaidMeansSettled, Exists
    <3> QED
      BY <3>1, <3>2
<1>10. CASE CommitFails(r)
  BY <1>10 DEF CommitFails, stores, PaidMeansSettled, Exists, SettledRow, TotalDue
<1> QED
  BY <1>3, <1>4, <1>5, <1>6, <1>7, <1>8, <1>9, <1>10 DEF Commits

\* A request takes the row it will commit from a form, and keeps it.
LEMMA RowsComeFromForms ==
    ASSUME TypeOK, [Next]_vars, NEW s \in Requests,
           req'[s].op \in {"createDebt", "updateDebt"}
    PROVE  \/ req'[s].op = req[s].op /\ req'[s].next = req[s].next
           \/ \E in \in DebtInputs : req'[s].next = RowFrom(in)
<1> DEFINE Kept  == req'[s].op = req[s].op /\ req'[s].next = req[s].next
           Typed == \E in \in DebtInputs : req'[s].next = RowFrom(in)
<1>1. req \in [Requests -> Request] /\ Idle \in Request /\ Idle.op = "none"
  BY NullRowsAreTyped DEF TypeOK, Idle
<1>2. ASSUME NEW r \in Requests, Finish(r) PROVE Kept
  BY <1>1, <1>2 DEF Finish
<1>3. ASSUME NEW r \in Requests, NEW op \in Operations \ {"createDebt", "updateDebt"},
             NEW pc, NEW fields \in Request, Begin(r, op, pc, fields)
      PROVE  Kept
  <2>1. [fields EXCEPT !.op = op, !.pc = pc].op = op
    BY DEF Request
  <2> QED
    BY <1>1, <1>3, <2>1 DEF Begin
<1>4. ASSUME NEW r \in Requests, Reads(r) PROVE Kept \/ Typed
  <2>1. ASSUME NEW d \in Debts, NEW in \in PaymentInputs, ReadForCreatePayment(r, d, in)
        PROVE  Kept
    <3>1. [Idle EXCEPT !.debt = d, !.in = in, !.seen = debts[d]] \in Request
      BY <1>1 DEF Request, TypeOK
    <3> QED
      BY <1>2, <1>3, <2>1, <3>1 DEF ReadForCreatePayment, Operations
  <2>2. ASSUME NEW p \in Payments, NEW in \in PaymentInputs \cup {NoPaymentInput},
               NEW op \in {"updatePayment", "deletePayment"}, ReadPayment(r, op, p, in)
        PROVE  Kept
    <3>1. [Idle EXCEPT !.debt = payments[p].debt, !.payment = p,
                       !.in = in, !.seenPayment = payments[p]] \in Request
      BY <1>1 DEF Request, TypeOK, PaymentRow
    <3> QED
      BY <1>2, <1>3, <2>2, <3>1 DEF ReadPayment, Operations
  <2>3. CASE ReadPaymentsDebt(r)
    BY <1>1, <1>2, <2>3 DEF ReadPaymentsDebt, Request
  <2>4. ASSUME NEW in \in DebtInputs, PrepareDebt(r, in) PROVE Kept \/ Typed
    <3>1. [[Idle EXCEPT !.next = RowFrom(in)] EXCEPT !.op = "createDebt", !.pc = "limit"].next
            = RowFrom(in)
      BY DEF Idle
    <3> QED
      BY <1>1, <2>4, <3>1 DEF PrepareDebt, Begin
  <2>5. ASSUME NEW d \in Debts, NEW in \in DebtInputs, ReadForUpdateDebt(r, d, in)
        PROVE  Kept \/ Typed
    <3>1. [[Idle EXCEPT !.debt = d, !.seen = debts[d], !.next = RowFrom(in)]
             EXCEPT !.op = "updateDebt", !.pc = "limit"].next = RowFrom(in)
      BY DEF Idle
    <3> QED
      BY <1>1, <1>2, <2>5, <3>1 DEF ReadForUpdateDebt, Begin
  <2>6. CASE CheckLimit(r)
    BY <1>1, <1>2, <2>6 DEF CheckLimit, Request
  <2>7. ASSUME NEW d \in Debts, ReadForDeleteDebt(r, d) PROVE Kept
    <3>1. [Idle EXCEPT !.debt = d, !.seen = debts[d]] \in Request
      BY <1>1 DEF Request, TypeOK
    <3> QED
      BY <1>2, <1>3, <2>7, <3>1 DEF ReadForDeleteDebt, Operations
  <2>8. CASE ReadOnboarded(r)
    BY <1>1, <1>2, <1>3, <2>8 DEF ReadOnboarded, Operations
  <2> QED
    BY <1>4, <2>1, <2>2, <2>3, <2>4, <2>5, <2>6, <2>7, <2>8 DEF Reads
<1>5. ASSUME NEW r \in Requests, Commits(r) PROVE Kept
  <2>1. CASE CommitCreatePayment(r)
    BY <1>1, <2>1 DEF CommitCreatePayment, Request
  <2>2. CASE CommitUpdatePayment(r) \/ CommitDeletePayment(r)
    BY <1>1, <2>2 DEF CommitUpdatePayment, CommitDeletePayment, Request
  <2>3. CASE CommitCreateDebt(r)
    BY <1>1, <2>3 DEF CommitCreateDebt, Request
  <2>4. CASE CommitUpdateDebt(r) \/ CommitDeleteDebt(r)
    BY <1>1, <2>4 DEF CommitUpdateDebt, CommitDeleteDebt, Request
  <2>5. CASE CommitOnboarding(r) \/ CommitFails(r)
    BY <1>2, <2>5 DEF CommitOnboarding, CommitFails
  <2> QED
    BY <1>5, <2>1, <2>2, <2>3, <2>4, <2>5 DEF Commits
<1>6. ASSUME NEW r \in Requests, WriteAudit(r) \/ SumDebts(r) \/ SaveSnapshot(r) \/ Crash(r)
      PROVE  Kept
  BY <1>1, <1>2, <1>6 DEF WriteAudit, SumDebts, SaveSnapshot, Crash, Request
<1>7. CASE Tick \/ ChangePlan \/ UNCHANGED vars
  BY <1>7 DEF Tick, ChangePlan, vars
<1> QED
  BY <1>4, <1>5, <1>6, <1>7 DEF Next

\* Status, settlement and amounts of a debt agree for any number of requests
\* that read, compute and commit over one another.
THEOREM PaidIsSettled == WholeForms => (Spec => []PaidMeansSettled)
<1> SUFFICES ASSUME WholeForms PROVE Spec => []PaidMeansSettled
  OBVIOUS
<1>1. Init => SettledInv
  <2> SUFFICES ASSUME Init PROVE SettledInv
    OBVIOUS
  <2>1. TypeOK
    BY InitTyped
  <2>2. PaidMeansSettled
    BY DEF Init, PaidMeansSettled, Exists, NoDebt, Statuses
  <2>3. EditsSettled
    BY DEF Init, EditsSettled, Idle
  <2> QED
    BY <2>1, <2>2, <2>3 DEF SettledInv
<1>2. SettledInv /\ TypeOK' /\ [Next]_vars => SettledInv'
  <2> SUFFICES ASSUME SettledInv, TypeOK', [Next]_vars PROVE SettledInv'
    OBVIOUS
  <2>1. EditsSettled'
    BY RowsComeFromForms, FormsSettle DEF SettledInv, EditsSettled
  <2>2. CASE UNCHANGED debts
    BY <2>1, <2>2 DEF SettledInv, PaidMeansSettled, Exists
  <2>3. ASSUME NEW r \in Requests, Commits(r) PROVE PaidMeansSettled'
    BY <2>3, CommitsSettle
  <2>4. (\E r \in Requests : Commits(r)) \/ UNCHANGED debts
    BY DEF Next, Reads, ReadForCreatePayment, ReadPayment, ReadPaymentsDebt, PrepareDebt,
           ReadForUpdateDebt, CheckLimit, ReadForDeleteDebt, ReadOnboarded, WriteAudit,
           SumDebts, SaveSnapshot, Crash, Tick, ChangePlan, stores, vars
  <2> QED
    BY <2>1, <2>2, <2>3, <2>4 DEF SettledInv
<1> QED
  BY TypeCorrect, <1>1, <1>2, PTL DEF Spec, SettledInv

-----------------------------------------------------------------------------
(* No entry of the audit log is false, whatever requests commit over one     *)
(* another between the change an entry is about and the entry.               *)

\* The row a debt request carries is that of a debt.
CarriesARow(r) ==
    req[r].op \in {"createDebt", "updateDebt"} => req[r].next.status \in Statuses

\* A request that is about to write its entry has committed: what it deleted is gone.
\* Onboarding writes its own entry, inside its transaction.
HasCommitted(r) ==
    LET q == req[r]
    IN  /\ q.op = "onboard" => q.pc = "write"
        /\ q.pc = "audit" /\ q.op \in {"createPayment", "updatePayment"} => q.payment \in Payments
        /\ q.pc = "audit" /\ q.op = "deletePayment" => /\ q.payment \in Payments
                                                       /\ payments[q.payment].state = "GONE"
        /\ q.pc = "audit" /\ q.op = "deleteDebt" => /\ q.debt \in Debts
                                                    /\ debts[q.debt].status = "GONE"

AuditInv ==
    /\ TypeOK /\ AuditTellsTheTruth
    /\ \A r \in Requests : CarriesARow(r) /\ HasCommitted(r)

\* What has existed has existed for ever, and what was deleted stays deleted.
NothingComesBack ==
    /\ \A d \in Debts : /\ debts[d].status # "NONE" => debts'[d].status # "NONE"
                        /\ debts[d].status = "GONE" => debts'[d].status = "GONE"
    /\ \A p \in Payments : /\ payments[p].state # "NONE" => payments'[p].state # "NONE"
                           /\ payments[p].state = "GONE" => payments'[p].state = "GONE"
    /\ onboarded => onboarded'

-----------------------------------------------------------------------------
LEMMA RowsOfForms ==
    ASSUME NEW in \in DebtInputs PROVE RowFrom(in).status \in Statuses
BY DEF RowFrom, DeriveStatus, Statuses

LEMMA RowsAreCarried ==
    ASSUME TypeOK, [Next]_vars, \A r \in Requests : CarriesARow(r)
    PROVE  \A r \in Requests : CarriesARow(r)'
BY RowsComeFromForms, RowsOfForms DEF CarriesARow

\* A payment operation rewrites the row of a debt that exists, which goes on existing.
LEMMA SettlingKeepsRows ==
    ASSUME TypeOK, NEW d, Exists(d), NEW seen, NEW owed, NEW paidOff,
           SettleDebt(d, seen, owed, paidOff)
    PROVE  \A e \in Debts : /\ debts[e].status # "NONE" => debts'[e].status # "NONE"
                            /\ debts[e].status = "GONE" => debts'[e].status = "GONE"
<1>1. d \in Debts /\ debts[d].status \in Statuses
  BY DEF Exists
<1>2. debts'[d].status \in Statuses
  BY <1>1, StatusIsTyped DEF SettleDebt, TypeOK, DebtRow
<1>3. \A e \in Debts \ {d} : debts'[e] = debts[e]
  BY DEF SettleDebt, TypeOK
<1> QED
  BY <1>1, <1>2, <1>3 DEF Statuses

LEMMA CommitsBringNothingBack ==
    ASSUME TypeOK, NEW r \in Requests, CarriesARow(r), Commits(r)
    PROVE  NothingComesBack
<1> DEFINE d == req[r].debt
           p == req[r].payment
<1>1. CASE CommitCreatePayment(r)
  <2>1. PICK q \in FreshPayments, b \in {BreakdownOf(req[r].seen.owed, req[r].in)} :
          payments' = [payments EXCEPT ![q] = [state |-> "LIVE", debt |-> d, split |-> b]]
    BY <1>1 DEF CommitCreatePayment
  <2>2. \A s \in Payments : /\ payments[s].state # "NONE" => payments'[s].state # "NONE"
                            /\ payments[s].state = "GONE" => payments'[s].state = "GONE"
    BY <2>1 DEF TypeOK, FreshPayments
  <2> QED
    BY <1>1, <2>2, SettlingKeepsRows DEF CommitCreatePayment, NothingComesBack
<1>2. CASE CommitUpdatePayment(r)
  <2>1. \A s \in Payments : payments'[s].state = payments[s].state
    BY <1>2 DEF CommitUpdatePayment, TypeOK, PaymentRow
  <2> QED
    BY <1>2, <2>1, SettlingKeepsRows DEF CommitUpdatePayment, NothingComesBack
<1>3. CASE CommitDeletePayment(r)
  <2>1. [NoPayment EXCEPT !.state = "GONE"].state = "GONE"
    BY DEF NoPayment
  <2>2. \A s \in Payments : payments'[s] = payments[s] \/ payments'[s].state = "GONE"
    BY <1>3, <2>1 DEF CommitDeletePayment, RemovePayment, TypeOK
  <2> QED
    BY <1>3, <2>2, SettlingKeepsRows DEF CommitDeletePayment, NothingComesBack
<1>4. CASE CommitCreateDebt(r)
  <2>1. PICK e \in FreshDebts : debts' = [debts EXCEPT ![e] = req[r].next]
    BY <1>4 DEF CommitCreateDebt
  <2>2. \A c \in Debts : /\ debts[c].status # "NONE" => debts'[c].status # "NONE"
                         /\ debts[c].status = "GONE" => debts'[c].status = "GONE"
    BY <2>1 DEF TypeOK, FreshDebts
  <2> QED
    BY <1>4, <2>2 DEF CommitCreateDebt, NothingComesBack
<1>5. CASE CommitUpdateDebt(r)
  <2>1. /\ d \in Debts /\ debts[d].status \in Statuses /\ req[r].next.status \in Statuses
        /\ debts' = [debts EXCEPT ![d] = req[r].next]
    BY <1>5 DEF CommitUpdateDebt, Exists, CarriesARow, At
  <2>2. \A c \in Debts : /\ debts[c].status # "NONE" => debts'[c].status # "NONE"
                         /\ debts[c].status = "GONE" => debts'[c].status = "GONE"
    BY <2>1 DEF TypeOK, Statuses
  <2> QED
    BY <1>5, <2>2 DEF CommitUpdateDebt, NothingComesBack
<1>6. CASE CommitDeleteDebt(r)
  <2>1. /\ [NoDebt EXCEPT !.status = "GONE"].status = "GONE"
        /\ [NoPayment EXCEPT !.state = "GONE"].state = "GONE"
    BY DEF NoDebt, NoPayment
  <2>2. \A c \in Debts : debts'[c] = debts[c] \/ debts'[c].status = "GONE"
    BY <1>6, <2>1 DEF CommitDeleteDebt, TypeOK
  <2>3. \A s \in Payments : payments'[s] = payments[s] \/ payments'[s].state = "GONE"
    BY <1>6, <2>1 DEF CommitDeleteDebt, TypeOK
  <2> QED
    BY <1>6, <2>2, <2>3 DEF CommitDeleteDebt, NothingComesBack
<1>7. CASE CommitOnboarding(r)
  <2>1. PICK new \in SUBSET FreshDebts, b \in OpeningBalances :
          debts' = [e \in Debts |->
                       IF e \in new
                       THEN [NoDebt EXCEPT !.status = "CURRENT", !.owed.balance = ToCents(b)]
                       ELSE debts[e]]
    BY <1>7 DEF CommitOnboarding
  <2>2. \A c \in Debts : debts[c].status # "NONE" => debts'[c] = debts[c]
    BY <2>1 DEF FreshDebts
  <2> QED
    BY <1>7, <2>2 DEF CommitOnboarding, NothingComesBack
<1>8. CASE CommitFails(r)
  BY <1>8 DEF CommitFails, stores, NothingComesBack
<1> QED
  BY <1>1, <1>2, <1>3, <1>4, <1>5, <1>6, <1>7, <1>8 DEF Commits

LEMMA StepsBringNothingBack ==
    ASSUME AuditInv, [Next]_vars PROVE NothingComesBack
<1>1. CASE UNCHANGED <<debts, payments, onboarded>>
  BY <1>1 DEF NothingComesBack
<1>2. (\E r \in Requests : Commits(r)) \/ UNCHANGED <<debts, payments, onboarded>>
  BY DEF Next, Reads, ReadForCreatePayment, ReadPayment, ReadPaymentsDebt, PrepareDebt,
         ReadForUpdateDebt, CheckLimit, ReadForDeleteDebt, ReadOnboarded, WriteAudit,
         SumDebts, SaveSnapshot, Crash, Tick, ChangePlan, stores, vars
<1> QED
  BY <1>1, <1>2, CommitsBringNothingBack DEF AuditInv

-----------------------------------------------------------------------------
\* An entry that is true stays true; a new one is true when it is written.
LEMMA EntriesStayTrue ==
    ASSUME NothingComesBack, NEW e, Happened(e) PROVE Happened(e)'
BY DEF Happened, NothingComesBack, FreshDebts, FreshPayments

LEMMA LogStaysTrue ==
    ASSUME AuditInv, [Next]_vars PROVE AuditTellsTheTruth'
<1>1. NothingComesBack
  BY StepsBringNothingBack
<1>2. CASE UNCHANGED audit
  BY <1>1, <1>2, EntriesStayTrue DEF AuditInv, AuditTellsTheTruth
<1>3. ASSUME NEW r \in Requests, WriteAudit(r), RowsRemain(r),
             audit' = audit \cup {Audited(r)}
      PROVE  AuditTellsTheTruth'
  <2>1. UNCHANGED <<debts, payments, onboarded>> /\ req[r].pc = "audit" /\ req[r].op # "onboard"
    BY <1>3 DEF WriteAudit, AuditInv, HasCommitted
  <2>2. Exists(req[r].debt) /\ (req[r].payment \in Payments => Live(req[r].payment))
    BY <1>3 DEF RowsRemain
  <2>3. /\ req[r].op \notin {"deletePayment", "deleteDebt"}
        /\ req[r].op \in {"createPayment", "updatePayment"} => Live(req[r].payment)
    BY <2>1, <2>2 DEF AuditInv, HasCommitted, Live, Exists, Statuses
  <2>4. /\ Audited(r).action = req[r].op
        /\ Audited(r).id = IF req[r].op \in PaymentOps THEN req[r].payment ELSE req[r].debt
    BY DEF Audited
  <2>5. Happened(Audited(r))
    BY <2>1, <2>2, <2>3, <2>4
       DEF Happened, PaymentOps, Live, FreshPayments, Exists, Statuses, FreshDebts
  <2> QED
    BY <1>1, <1>3, <2>5, EntriesStayTrue DEF AuditInv, AuditTellsTheTruth
<1>4. ASSUME NEW r \in Requests, CommitOnboarding(r) PROVE AuditTellsTheTruth'
  <2>1. onboarded' /\ audit' = audit \cup {[action |-> "onboard", id |-> "user"]}
    BY <1>4 DEF CommitOnboarding
  <2>2. Happened([action |-> "onboard", id |-> "user"])'
    BY <2>1 DEF Happened
  <2> QED
    BY <1>1, <2>1, <2>2, EntriesStayTrue DEF AuditInv, AuditTellsTheTruth
<1>5. \/ UNCHANGED audit
      \/ \E r \in Requests : WriteAudit(r) /\ RowsRemain(r) /\ audit' = audit \cup {Audited(r)}
      \/ \E r \in Requests : CommitOnboarding(r)
  BY DEF Next, Reads, ReadForCreatePayment, ReadPayment, ReadPaymentsDebt, PrepareDebt,
         ReadForUpdateDebt, CheckLimit, ReadForDeleteDebt, ReadOnboarded, Commits,
         CommitCreatePayment, CommitUpdatePayment, CommitDeletePayment, CommitCreateDebt,
         CommitUpdateDebt, CommitDeleteDebt, CommitFails, WriteAudit,
         SumDebts, SaveSnapshot, Crash, Tick, ChangePlan, stores, vars
<1> QED
  BY <1>2, <1>3, <1>4, <1>5

-----------------------------------------------------------------------------
\* What a request has committed stays so while others commit.
LEMMA CommittedStays ==
    ASSUME NothingComesBack, NEW r \in Requests, HasCommitted(r),
           \/ UNCHANGED <<req[r].op, req[r].pc, req[r].payment, req[r].debt>>
           \/ req'[r].pc # "audit" /\ req'[r].op # "onboard"
    PROVE  HasCommitted(r)'
BY DEF HasCommitted, NothingComesBack

LEMMA RequestsCommit ==
    ASSUME AuditInv, [Next]_vars, NEW s \in Requests PROVE HasCommitted(s)'
<1>1. /\ req \in [Requests -> Request] /\ Idle \in Request /\ Idle.op = "none" /\ Idle.pc = "idle"
      /\ HasCommitted(s) /\ NothingComesBack
  BY NullRowsAreTyped, StepsBringNothingBack DEF AuditInv, TypeOK, Idle
<1> DEFINE Same == UNCHANGED <<req[s].op, req[s].pc, req[s].payment, req[s].debt>>
           Off  == req'[s].pc # "audit" /\ req'[s].op # "onboard"
<1>2. ASSUME Same \/ Off PROVE HasCommitted(s)'
  BY <1>1, <1>2, CommittedStays
<1>3. ASSUME NEW r \in Requests, Finish(r) PROVE Same \/ Off
  BY <1>1, <1>3 DEF Finish
<1>4. ASSUME NEW r \in Requests, NEW op, NEW pc, NEW fields \in Request, Begin(r, op, pc, fields)
      PROVE  (r # s /\ Same) \/ (req'[s].op = op /\ req'[s].pc = pc)
  <2>1. /\ [fields EXCEPT !.op = op, !.pc = pc].op = op
        /\ [fields EXCEPT !.op = op, !.pc = pc].pc = pc
    BY DEF Request
  <2>2. req'[r] = [fields EXCEPT !.op = op, !.pc = pc] /\ (r # s => req'[s] = req[s])
    BY <1>1, <1>4, Zenon DEF Begin
  <2> QED
    BY <2>1, <2>2
<1>5. ASSUME NEW r \in Requests, Reads(r) PROVE HasCommitted(s)'
  <2>1. ASSUME NEW d \in Debts, NEW in \in PaymentInputs, ReadForCreatePayment(r, d, in)
        PROVE  Same \/ Off
    <3>1. [Idle EXCEPT !.debt = d, !.in = in, !.seen = debts[d]] \in Request
      BY <1>1 DEF Request, AuditInv, TypeOK
    <3> QED
      BY <1>3, <1>4, <2>1, <3>1 DEF ReadForCreatePayment
  <2>2. ASSUME NEW p \in Payments, NEW in \in PaymentInputs \cup {NoPaymentInput},
               NEW op \in {"updatePayment", "deletePayment"}, ReadPayment(r, op, p, in)
        PROVE  Same \/ Off
    <3>1. [Idle EXCEPT !.debt = payments[p].debt, !.payment = p,
                       !.in = in, !.seenPayment = payments[p]] \in Request
      BY <1>1 DEF Request, AuditInv, TypeOK, PaymentRow
    <3> QED
      BY <1>3, <1>4, <2>2, <3>1 DEF ReadPayment
  <2>3. CASE ReadPaymentsDebt(r)
    BY <1>1, <1>2, <1>3, <2>3 DEF ReadPaymentsDebt, HasCommitted, Request
  <2>4. ASSUME NEW in \in DebtInputs, PrepareDebt(r, in) PROVE Same \/ Off
    <3>1. [Idle EXCEPT !.next = RowFrom(in)] \in Request
      BY <1>1, FormsAreTyped DEF Request
    <3> QED
      BY <1>4, <2>4, <3>1 DEF PrepareDebt
  <2>5. ASSUME NEW d \in Debts, NEW in \in DebtInputs, ReadForUpdateDebt(r, d, in)
        PROVE  Same \/ Off
    <3>1. [Idle EXCEPT !.debt = d, !.seen = debts[d], !.next = RowFrom(in)] \in Request
      BY <1>1, FormsAreTyped DEF Request, AuditInv, TypeOK
    <3> QED
      BY <1>3, <1>4, <2>5, <3>1 DEF ReadForUpdateDebt
  <2>6. CASE CheckLimit(r)
    BY <1>1, <1>2, <1>3, <2>6 DEF CheckLimit, HasCommitted, Request
  <2>7. ASSUME NEW d \in Debts, ReadForDeleteDebt(r, d) PROVE Same \/ Off
    <3>1. [Idle EXCEPT !.debt = d, !.seen = debts[d]] \in Request
      BY <1>1 DEF Request, AuditInv, TypeOK
    <3> QED
      BY <1>3, <1>4, <2>7, <3>1 DEF ReadForDeleteDebt
  <2>8. ASSUME ReadOnboarded(r) PROVE HasCommitted(s)'
    <3>1. CASE Finish(r)
      BY <1>2, <1>3, <3>1
    <3>2. CASE Begin(r, "onboard", "write", Idle)
      <4>1. Same \/ (req'[s].op = "onboard" /\ req'[s].pc = "write")
        BY <1>1, <1>4, <3>2
      <4> QED
        BY <1>2, <4>1 DEF HasCommitted
    <3> QED
      BY <2>8, <3>1, <3>2 DEF ReadOnboarded
  <2> QED
    BY <1>2, <1>5, <2>1, <2>2, <2>3, <2>4, <2>5, <2>6, <2>7, <2>8 DEF Reads
<1>6. ASSUME NEW r \in Requests, Commits(r) PROVE HasCommitted(s)'
  <2>1. CASE CommitOnboarding(r) \/ CommitFails(r)
    BY <1>2, <1>3, <2>1 DEF CommitOnboarding, CommitFails
  <2>2. CASE r # s
    <3>1. CASE CommitCreatePayment(r) \/ CommitUpdatePayment(r) \/ CommitDeletePayment(r)
      BY <1>1, <1>2, <2>2, <3>1 DEF CommitCreatePayment, CommitUpdatePayment, CommitDeletePayment
    <3>2. CASE CommitCreateDebt(r) \/ CommitUpdateDebt(r) \/ CommitDeleteDebt(r)
      BY <1>1, <1>2, <2>2, <3>2 DEF CommitCreateDebt, CommitUpdateDebt, CommitDeleteDebt
    <3> QED
      BY <1>6, <2>1, <3>1, <3>2 DEF Commits
  <2>3. CASE r = s
    <3>1. CASE CommitCreatePayment(s)
      BY <1>1, <3>1 DEF CommitCreatePayment, HasCommitted, Request, At, FreshPayments
    <3>2. CASE CommitUpdatePayment(s)
      BY <1>1, <3>2 DEF CommitUpdatePayment, HasCommitted, Request, At, Live
    <3>3. CASE CommitDeletePayment(s)
      <4>1. payments'[req[s].payment].state = "GONE" /\ req[s].payment \in Payments
        BY <3>3 DEF CommitDeletePayment, RemovePayment, Live, NoPayment, AuditInv, TypeOK
      <4> QED
        BY <1>1, <3>3, <4>1 DEF CommitDeletePayment, HasCommitted, Request, At
    <3>4. CASE CommitCreateDebt(s) \/ CommitUpdateDebt(s)
      BY <1>1, <3>4 DEF CommitCreateDebt, CommitUpdateDebt, HasCommitted, Request, At
    <3>5. CASE CommitDeleteDebt(s)
      <4>1. debts'[req[s].debt].status = "GONE" /\ req[s].debt \in Debts
        BY <3>5 DEF CommitDeleteDebt, Exists, NoDebt, AuditInv, TypeOK
      <4> QED
        BY <1>1, <3>5, <4>1 DEF CommitDeleteDebt, HasCommitted, Request, At
    <3> QED
      BY <1>6, <2>1, <2>3, <3>1, <3>2, <3>3, <3>4, <3>5 DEF Commits
  <2> QED
    BY <2>2, <2>3
<1>7. ASSUME NEW r \in Requests, WriteAudit(r) \/ SumDebts(r) \/ SaveSnapshot(r) \/ Crash(r)
      PROVE  HasCommitted(s)'
  <2>1. CASE SaveSnapshot(r) \/ Crash(r)
    BY <1>2, <1>3, <2>1 DEF SaveSnapshot, Crash
  <2>2. ASSUME NEW pc \in {"sum", "save"}, req[r].pc \in {"audit", "sum"},
               req' = [req EXCEPT ![r].pc = pc]
        PROVE  HasCommitted(s)'
    BY <1>1, <1>2, <2>2 DEF HasCommitted, Request
  <2>3. CASE WriteAudit(r)
    BY <1>2, <1>3, <2>2, <2>3 DEF WriteAudit
  <2>4. CASE SumDebts(r)
    BY <2>2, <2>4 DEF SumDebts
  <2> QED
    BY <1>7, <2>1, <2>3, <2>4
<1>8. CASE Tick \/ ChangePlan \/ UNCHANGED vars
  BY <1>2, <1>8 DEF Tick, ChangePlan, vars
<1> QED
  BY <1>5, <1>6, <1>7, <1>8 DEF Next

\* Every entry of the audit log is of something that happened, for any number of
\* requests that commit and delete under one another before they write their entries.
THEOREM LogIsTrue == Spec => []AuditTellsTheTruth
<1>1. Init => AuditInv
  <2> SUFFICES ASSUME Init PROVE AuditInv
    OBVIOUS
  <2>1. AuditTellsTheTruth
    BY DEF Init, AuditTellsTheTruth
  <2>2. \A r \in Requests : CarriesARow(r) /\ HasCommitted(r)
    BY DEF Init, CarriesARow, HasCommitted, Idle
  <2> QED
    BY InitTyped, <2>1, <2>2 DEF AuditInv
<1>2. AuditInv /\ TypeOK' /\ [Next]_vars => AuditInv'
  <2> SUFFICES ASSUME AuditInv, TypeOK', [Next]_vars PROVE AuditInv'
    OBVIOUS
  <2>1. \A r \in Requests : CarriesARow(r)'
    BY RowsAreCarried DEF AuditInv
  <2> QED
    BY LogStaysTrue, RequestsCommit, <2>1 DEF AuditInv
<1> QED
  BY TypeCorrect, <1>1, <1>2, PTL DEF Spec, AuditInv
=============================================================================
