------------------------------- MODULE BookProofs -------------------------------
(***************************************************************************)
(* A request that has the ledger to itself keeps the abstract book: for    *)
(* any debts and payments, any rate, and payment forms in whole cents.     *)
(***************************************************************************)
EXTENDS LedgerProofs, SumProofs

-----------------------------------------------------------------------------
(* Whole cents                                                             *)

LEMMA WholeIsMultiple ==
    ASSUME NEW x \in Nat PROVE Whole(x) <=> \E k \in Nat : x = Cent * k
<1>1. Cent \in Nat \ {0}
  BY AllocationAssumption
<1>2. ASSUME Whole(x) PROVE \E k \in Nat : x = Cent * k
  <2>1. (2 * x + Cent) \div (2 * Cent) \in Nat
    BY <1>1, Z3
  <2> QED
    BY <1>2, <2>1 DEF Whole, ToCents
<1>3. ASSUME NEW k \in Nat, x = Cent * k PROVE Whole(x)
  <2>1. 2 * x + Cent = (2 * Cent) * k + Cent
    BY <1>1, <1>3, Z3
  <2>2. ((2 * Cent) * k + Cent) \div (2 * Cent) = k
    BY <1>1, Z3
  <2> QED
    BY <1>3, <2>1, <2>2 DEF Whole, ToCents
<1> QED
  BY <1>2, <1>3

LEMMA WholeCents ==
    ASSUME NEW x \in Nat PROVE Whole(ToCents(x))
<1>1. Cent \in Nat \ {0}
  BY AllocationAssumption
<1>2. (2 * x + Cent) \div (2 * Cent) \in Nat
  BY <1>1, Z3
<1>3. ToCents(x) \in Nat
  BY RoundingBounds
<1>4. \E k \in Nat : ToCents(x) = Cent * k
  BY <1>2 DEF ToCents
<1> QED
  BY <1>3, <1>4, WholeIsMultiple

LEMMA WholeSums ==
    ASSUME NEW x \in Nat, NEW y \in Nat, Whole(x), Whole(y)
    PROVE  Whole(x + y) /\ (y <= x => Whole(x - y))
<1>1. PICK j \in Nat, k \in Nat : x = Cent * j /\ y = Cent * k
  BY WholeIsMultiple
<1>2. Cent \in Nat \ {0}
  BY AllocationAssumption
<1>3. x + y = Cent * (j + k) /\ j + k \in Nat
  BY <1>1, <1>2, Z3
<1>4. ASSUME y <= x PROVE Whole(x - y)
  <2>1. x - y = Cent * (j - k)
    BY <1>1, <1>2, Z3
  <2>2. j - k \in Nat
    BY <1>1, <1>2, <1>4, Z3
  <2> QED
    BY <1>4, <2>1, <2>2, WholeIsMultiple
<1> QED
  BY <1>3, <1>4, WholeIsMultiple

\* Two parts of a whole are rounded to the whole, or to a cent more when both end in half.
LEMMA PartsOfAWhole ==
    ASSUME NEW x \in Nat, NEW y \in Nat, Whole(x + y)
    PROVE  \E gain \in 0..HalfCent : ToCents(x) + ToCents(y) = x + y + gain
<1> DEFINE gain == ToCents(x) + ToCents(y) - (x + y)
<1>1. Cent \in Nat \ {0} /\ ToCents(x) \in Nat /\ ToCents(y) \in Nat
  BY AllocationAssumption, RoundingBounds
<1>2. PICK i \in Nat, j \in Nat, k \in Nat :
        ToCents(x) = Cent * i /\ ToCents(y) = Cent * j /\ x + y = Cent * k
  <2>1. PICK i \in Nat : ToCents(x) = Cent * i
    BY <1>1, WholeCents, WholeIsMultiple
  <2>2. PICK j \in Nat : ToCents(y) = Cent * j
    BY <1>1, WholeCents, WholeIsMultiple
  <2>3. PICK k \in Nat : x + y = Cent * k
    BY WholeIsMultiple
  <2> QED
    BY <2>1, <2>2, <2>3
<1>3. /\ 2 * ToCents(x) <= 2 * x + Cent /\ 2 * x - Cent < 2 * ToCents(x)
      /\ 2 * ToCents(y) <= 2 * y + Cent /\ 2 * y - Cent < 2 * ToCents(y)
  BY RoundingBounds
<1>4. gain = Cent * (i + j - k) /\ i + j - k \in Int
  <2>1. gain = Cent * i + Cent * j - Cent * k
    BY <1>2
  <2>2. Cent * i + Cent * j - Cent * k = Cent * (i + j - k) /\ i + j - k \in Int
    BY <1>1, Z3
  <2> QED
    BY <2>1, <2>2
<1>5. gain \in Int /\ -Cent < gain /\ gain <= Cent
  BY <1>1, <1>3
<1>6. i + j - k = 0 \/ i + j - k = 1
  <2> DEFINE n == i + j - k
  <2>1. n \in Int /\ -Cent < Cent * n /\ Cent * n <= Cent
    BY <1>4, <1>5
  <2> HIDE DEF n
  <2>2. n > -1 /\ n < 2
    <3>1. CASE n <= -1
      <4>1. Cent * n <= -Cent
        BY <1>1, <2>1, <3>1, Z3
      <4> QED
        BY <1>1, <2>1, <4>1
    <3>2. CASE n >= 2
      <4>1. Cent * n >= 2 * Cent
        BY <1>1, <2>1, <3>2, Z3
      <4> QED
        BY <1>1, <2>1, <4>1
    <3> QED
      BY <2>1, <3>1, <3>2
  <2>3. n = 0 \/ n = 1
    BY <2>1, <2>2
  <2> QED
    BY <2>3 DEF n
<1>7. gain = 0 \/ gain = Cent
  BY <1>1, <1>4, <1>6
<1>8. gain = Cent => Cent % 2 = 0
  <2> SUFFICES ASSUME gain = Cent PROVE Cent % 2 = 0
    OBVIOUS
  <2>1. Cent = 2 * (ToCents(x) - x)
    BY <1>1, <1>3
  <2> QED
    BY <1>1, <2>1, Z3
<1>9. gain \in 0..HalfCent
  BY <1>1, <1>7, <1>8 DEF HalfCent
<1> QED
  BY <1>1, <1>9

WholeOwed(o) == Whole(o.balance) /\ Whole(o.late) /\ Whole(o.extra)
WholeSplit(b) == Whole(b.principal) /\ Whole(b.interest) /\ Whole(b.late) /\ Whole(b.extra)
WholeOrOmitted(x) == x = Omitted \/ Whole(x)
WholeInput(in) ==
    /\ Whole(in.amount) /\ WholeOrOmitted(in.principal) /\ WholeOrOmitted(in.interest)
    /\ WholeOrOmitted(in.late) /\ WholeOrOmitted(in.extra)

LEMMA PartsAreWhole ==
    ASSUME NEW most \in Nat, NEW left \in Nat, NEW asked \in OptionalMoney,
           Whole(most), Whole(left), WholeOrOmitted(asked)
    PROVE  Whole(Part(asked, most, left)) /\ Whole(Lesser(most, left))
BY DEF Part, Lesser, WholeOrOmitted

\* A payment takes off the debt what its row records, but for a cent that the rounding of
\* interest and principal may add to the record.
LEMMA PaymentsMove ==
    ASSUME NEW o \in Owed, NEW in \in PaymentInput, WholeOwed(o), WholeInput(in)
    PROVE  /\ WholeOwed(OwedAfter(o, in)) /\ WholeSplit(BreakdownOf(o, in))
           /\ PartsOf(BreakdownOf(o, in)) \in 0..(TotalDue(o) + HalfCent)
           /\ \E gain \in 0..HalfCent :
                 TotalDue(OwedAfter(o, in)) = TotalDue(o) - PartsOf(BreakdownOf(o, in)) + gain
<1> DEFINE late      == LatePart(o, in)
           extra     == ExtraPart(o, in)
           after     == AfterCharges(o, in)
           interest  == InterestPart(o, in)
           principal == PrincipalPart(o, in)
           most      == Lesser(o.balance, after)
<1>1. /\ o.balance \in Nat /\ o.late \in Nat /\ o.extra \in Nat /\ in.amount \in Nat
      /\ in.late \in OptionalMoney /\ in.extra \in OptionalMoney
  BY DEF Owed, PaymentInput
<1>2. /\ late \in 0..o.late /\ extra \in 0..o.extra /\ after \in Nat
      /\ interest \in 0..most /\ principal = most - interest
  BY PartsFit
<1>3. after = in.amount - late - extra
  BY DEF AfterCharges
<1>4. Whole(late)
  BY <1>1, PartsAreWhole DEF LatePart, WholeOwed, WholeInput
<1>5. in.amount - late \in Nat /\ Whole(in.amount - late)
  <2>1. late \in Nat /\ extra \in Nat /\ late <= in.amount
    BY <1>1, <1>2, <1>3
  <2> QED
    BY <1>1, <1>4, <2>1, WholeSums DEF WholeInput
<1>6. Whole(extra)
  BY <1>1, <1>5, PartsAreWhole DEF ExtraPart, WholeOwed, WholeInput
<1>7. Whole(after)
  <2>1. extra \in Nat /\ extra <= in.amount - late /\ after = (in.amount - late) - extra
    BY <1>1, <1>2, <1>3
  <2> QED
    BY <1>5, <1>6, <2>1, WholeSums
<1>8. most \in Nat /\ most <= o.balance /\ Whole(most)
  BY <1>1, <1>2, <1>7 DEF Lesser, WholeOwed
<1>9. Whole(o.balance - most) /\ Whole(o.late - late) /\ Whole(o.extra - extra)
  <2>1. Whole(o.balance) /\ Whole(o.late) /\ Whole(o.extra)
    BY DEF WholeOwed
  <2>2. late \in Nat /\ late <= o.late /\ extra \in Nat /\ extra <= o.extra
    BY <1>1, <1>2
  <2>3. Whole(o.balance - most)
    BY <1>1, <1>8, <2>1, WholeSums
  <2>4. Whole(o.late - late)
    BY <1>1, <1>4, <2>1, <2>2, WholeSums
  <2>5. Whole(o.extra - extra)
    BY <1>1, <1>6, <2>1, <2>2, WholeSums
  <2> QED
    BY <2>3, <2>4, <2>5
<1>10. /\ OwedAfter(o, in).balance = o.balance - most
       /\ OwedAfter(o, in).late = o.late - late
       /\ OwedAfter(o, in).extra = o.extra - extra
  <2>1. o.balance - principal - interest = o.balance - most
    BY <1>1, <1>2, <1>8
  <2> QED
    BY <1>9, <2>1 DEF OwedAfter, Rest, Whole
<1>11. /\ interest \in Nat /\ principal \in Nat /\ late \in Nat /\ extra \in Nat
       /\ principal + interest = most
  BY <1>1, <1>2, <1>8
<1>12. PICK gain \in 0..HalfCent : ToCents(principal) + ToCents(interest) = most + gain
  BY <1>8, <1>11, PartsOfAWhole
<1>13. PartsOf(BreakdownOf(o, in)) = ToCents(principal) + ToCents(interest) + late + extra
  BY <1>4, <1>6 DEF PartsOf, BreakdownOf, Whole
<1>14. HalfCent \in Nat /\ ToCents(principal) \in Nat /\ ToCents(interest) \in Nat
  BY <1>11, RoundingBounds, AllocationAssumption DEF HalfCent
<1>15. PartsOf(BreakdownOf(o, in)) = most + gain + late + extra
  BY <1>8, <1>11, <1>12, <1>13, <1>14
<1>16. TotalDue(OwedAfter(o, in)) = TotalDue(o) - PartsOf(BreakdownOf(o, in)) + gain
  BY <1>1, <1>2, <1>8, <1>10, <1>11, <1>14, <1>15 DEF TotalDue
<1>17. PartsOf(BreakdownOf(o, in)) \in 0..(TotalDue(o) + HalfCent)
  BY <1>1, <1>2, <1>8, <1>11, <1>14, <1>15 DEF TotalDue
<1>18. WholeSplit(BreakdownOf(o, in))
  BY <1>11, WholeCents DEF WholeSplit, BreakdownOf
<1> QED
  BY <1>9, <1>10, <1>16, <1>17, <1>18 DEF WholeOwed

\* Taking a payment back puts back what its row records.
LEMMA RevertedMoves ==
    ASSUME NEW o \in Owed, NEW b \in Breakdown, WholeOwed(o), WholeSplit(b)
    PROVE  /\ WholeOwed(Reverted(o, b))
           /\ TotalDue(Reverted(o, b)) = TotalDue(o) + PartsOf(b)
<1>1. /\ o.balance \in Nat /\ o.late \in Nat /\ o.extra \in Nat
      /\ b.principal \in Nat /\ b.interest \in Nat /\ b.late \in Nat /\ b.extra \in Nat
  BY DEF Owed, Breakdown
<1>2. /\ Whole(o.balance + b.principal) /\ Whole(o.late + b.late) /\ Whole(o.extra + b.extra)
      /\ o.balance + b.principal \in Nat
  <2>1. /\ Whole(o.balance) /\ Whole(o.late) /\ Whole(o.extra)
        /\ Whole(b.principal) /\ Whole(b.late) /\ Whole(b.extra)
    BY DEF WholeOwed, WholeSplit
  <2>2. Whole(o.balance + b.principal)
    BY <1>1, <2>1, WholeSums
  <2>3. Whole(o.late + b.late)
    BY <1>1, <2>1, WholeSums
  <2>4. Whole(o.extra + b.extra)
    BY <1>1, <2>1, WholeSums
  <2> QED
    BY <1>1, <2>2, <2>3, <2>4
<1>3. Whole(o.balance + b.principal + b.interest)
  <2>1. Whole(b.interest)
    BY DEF WholeSplit
  <2> QED
    BY <1>1, <1>2, <2>1, WholeSums
<1> QED
  BY <1>1, <1>2, <1>3 DEF WholeOwed, Reverted, TotalDue, PartsOf

-----------------------------------------------------------------------------
(* One request at a time                                                   *)

Alone == \A r, s \in Requests : r = s
WholeInputs == \A in \in PaymentInputs : WholeInput(in)

CarriesCents(r) ==
    req[r].op \in {"createDebt", "updateDebt"} => WholeOwed(req[r].next.owed)

\* What a request has read is what the tables hold until it commits.
ReadsTheRows(r) ==
    LET q == req[r]
    IN  /\ q.pc = "debt" => q.op \in {"updatePayment", "deletePayment"}
        /\ q.pc = "limit" => q.op \in {"createDebt", "updateDebt"}
        /\ q.pc \in {"debt", "write"} /\ q.op \in {"updatePayment", "deletePayment"}
           => /\ Live(q.payment) /\ q.seenPayment = payments[q.payment]
              /\ q.debt = payments[q.payment].debt
        /\ q.pc \in {"debt", "write"} /\ q.op \in {"createPayment", "updatePayment"}
           => q.in \in PaymentInputs
        /\ q.pc = "write" /\ q.op \in PaymentOps => q.seen = debts[q.debt]

\* Rows hold whole cents, and a payment that is not there records nothing.
KeptRow(row) ==
    /\ WholeSplit(row.split)
    /\ row.state # "LIVE" => row.debt = "none" /\ PartsOf(row.split) = 0
RowsKept ==
    /\ \A d \in Debts : WholeOwed(debts[d].owed)
    /\ \A p \in Payments : KeptRow(payments[p])

BookInv ==
    /\ TypeOK /\ RowsKept
    /\ \A r \in Requests : CarriesARow(r) /\ CarriesCents(r) /\ ReadsTheRows(r)

LEMMA NullRowsAreWhole ==
    /\ WholeOwed(NoDebt.owed) /\ WholeSplit(NoPayment.split)
    /\ NoPayment.debt = "none" /\ PartsOf(NoPayment.split) = 0
<1>1. Whole(0)
  <2>1. Cent \in Nat \ {0}
    BY AllocationAssumption
  <2>2. 0 \in Nat /\ 2 * 0 < Cent
    BY <2>1
  <2> QED
    BY <2>2, RoundingBounds DEF Whole
<1> QED
  BY <1>1 DEF NoDebt, NoPayment, NoSplit, WholeOwed, WholeSplit, PartsOf

LEMMA CentsAreCarried ==
    ASSUME TypeOK, [Next]_vars, \A r \in Requests : CarriesCents(r)
    PROVE  \A r \in Requests : CarriesCents(r)'
<1>1. ASSUME NEW in \in DebtInputs PROVE WholeOwed(RowFrom(in).owed)
  <2>1. in.owed.balance \in Nat /\ in.owed.late \in Nat /\ in.owed.extra \in Nat
    BY LedgerAssumption DEF DebtInput, Owed
  <2> QED
    BY <2>1, WholeCents DEF RowFrom, WholeOwed
<1> QED
  BY <1>1, RowsComeFromForms DEF CarriesCents

LEMMA ReadingKeeps ==
    ASSUME BookInv, NEW r \in Requests, Reads(r) PROVE ReadsTheRows(r)'
<1>1. /\ req \in [Requests -> Request] /\ Idle \in Request /\ Idle.op = "none"
      /\ Idle.pc = "idle" /\ ReadsTheRows(r)
  BY NullRowsAreTyped DEF BookInv, TypeOK, Idle
<1>2. UNCHANGED <<debts, payments>>
  BY DEF Reads, ReadForCreatePayment, ReadPayment, ReadPaymentsDebt, PrepareDebt,
         ReadForUpdateDebt, CheckLimit, ReadForDeleteDebt, ReadOnboarded, stores
<1>3. ASSUME Finish(r) PROVE ReadsTheRows(r)'
  BY <1>1, <1>3 DEF Finish, ReadsTheRows
<1>4. ASSUME NEW op, NEW pc, NEW fields \in Request, Begin(r, op, pc, fields)
      PROVE  /\ req'[r].op = op /\ req'[r].pc = pc /\ req'[r].debt = fields.debt
             /\ req'[r].payment = fields.payment /\ req'[r].in = fields.in
             /\ req'[r].seen = fields.seen /\ req'[r].seenPayment = fields.seenPayment
  <2>1. req'[r] = [fields EXCEPT !.op = op, !.pc = pc]
    BY <1>1, <1>4, Zenon DEF Begin
  <2> QED
    BY <2>1 DEF Request
<1>5. ASSUME NEW d \in Debts, NEW in \in PaymentInputs, ReadForCreatePayment(r, d, in)
      PROVE  ReadsTheRows(r)'
  <2> DEFINE fields == [Idle EXCEPT !.debt = d, !.in = in, !.seen = debts[d]]
  <2>1. /\ fields \in Request /\ fields.debt = d /\ fields.in = in /\ fields.seen = debts[d]
    BY <1>1 DEF Request, BookInv, TypeOK
  <2>2. CASE Begin(r, "createPayment", "write", fields)
    <3> HIDE DEF fields
    <3> QED
      BY <1>2, <1>4, <2>1, <2>2 DEF ReadsTheRows, PaymentOps
  <2> QED
    BY <1>3, <1>5, <2>2 DEF ReadForCreatePayment
<1>6. ASSUME NEW p \in Payments, NEW in \in PaymentInputs \cup {NoPaymentInput},
             NEW op \in {"updatePayment", "deletePayment"}, ReadPayment(r, op, p, in)
      PROVE  ReadsTheRows(r)'
  <2> DEFINE fields == [Idle EXCEPT !.debt = payments[p].debt, !.payment = p,
                                    !.in = in, !.seenPayment = payments[p]]
  <2>1. /\ fields \in Request /\ fields.debt = payments[p].debt /\ fields.payment = p
        /\ fields.in = in /\ fields.seenPayment = payments[p]
    BY <1>1 DEF Request, BookInv, TypeOK, PaymentRow
  <2>2. CASE Live(p) /\ Begin(r, op, "debt", fields)
    <3>1. op = "updatePayment" => in \in PaymentInputs
      BY <1>6 DEF ReadPayment
    <3> HIDE DEF fields
    <3> QED
      BY <1>2, <1>4, <2>1, <2>2, <3>1 DEF ReadsTheRows, Live
  <2> QED
    BY <1>3, <1>6, <2>2 DEF ReadPayment
<1>7. CASE ReadPaymentsDebt(r)
  <2>1. CASE req' = [req EXCEPT ![r].pc = "write", ![r].seen = debts[req[r].debt]]
    BY <1>1, <1>2, <1>7, <2>1 DEF ReadPaymentsDebt, ReadsTheRows, Request, Live, PaymentOps
  <2> QED
    BY <1>3, <1>7, <2>1 DEF ReadPaymentsDebt
<1>8. ASSUME NEW in \in DebtInputs, PrepareDebt(r, in) PROVE ReadsTheRows(r)'
  <2>1. [Idle EXCEPT !.next = RowFrom(in)] \in Request
    BY <1>1, FormsAreTyped DEF Request
  <2>2. req'[r].op = "createDebt" /\ req'[r].pc = "limit"
    BY <1>4, <1>8, <2>1 DEF PrepareDebt
  <2> QED
    BY <2>2 DEF ReadsTheRows
<1>9. ASSUME NEW d \in Debts, NEW in \in DebtInputs, ReadForUpdateDebt(r, d, in)
      PROVE  ReadsTheRows(r)'
  <2>1. [Idle EXCEPT !.debt = d, !.seen = debts[d], !.next = RowFrom(in)] \in Request
    BY <1>1, FormsAreTyped DEF Request, BookInv, TypeOK
  <2>2. Finish(r) \/ (req'[r].op = "updateDebt" /\ req'[r].pc = "limit")
    BY <1>4, <1>9, <2>1 DEF ReadForUpdateDebt
  <2> QED
    BY <1>3, <2>2 DEF ReadsTheRows
<1>10. CASE CheckLimit(r)
  <2>1. CASE req' = [req EXCEPT ![r].pc = "write"]
    BY <1>1, <1>10, <2>1 DEF CheckLimit, ReadsTheRows, Request, PaymentOps
  <2> QED
    BY <1>3, <1>10, <2>1 DEF CheckLimit
<1>11. ASSUME NEW d \in Debts, ReadForDeleteDebt(r, d) PROVE ReadsTheRows(r)'
  <2>1. [Idle EXCEPT !.debt = d, !.seen = debts[d]] \in Request
    BY <1>1 DEF Request, BookInv, TypeOK
  <2>2. Finish(r) \/ (req'[r].op = "deleteDebt" /\ req'[r].pc = "write")
    BY <1>4, <1>11, <2>1 DEF ReadForDeleteDebt
  <2> QED
    BY <1>3, <2>2 DEF ReadsTheRows, PaymentOps
<1>12. CASE ReadOnboarded(r)
  <2>1. Finish(r) \/ (req'[r].op = "onboard" /\ req'[r].pc = "write")
    BY <1>1, <1>4, <1>12 DEF ReadOnboarded
  <2> QED
    BY <1>3, <2>1 DEF ReadsTheRows, PaymentOps
<1> QED
  BY <1>5, <1>6, <1>7, <1>8, <1>9, <1>10, <1>11, <1>12 DEF Reads

-----------------------------------------------------------------------------
(* What a commit does to the rows, and to the book they stand for          *)

Owes == [d \in Debts |-> IF Exists(d) THEN TotalDue(debts[d].owed) ELSE -1]
Entries == [p \in Payments |-> [debt  |-> payments[p].debt,
                                parts |-> PartsOf(payments[p].split)]]

\* Three kinds of entry in the abstract book.
LEMMA BookEnters ==
    ASSUME NEW p \in Payments, NEW d \in Debts, NEW parts \in Nat, NEW gain \in 0..HalfCent,
           Entries[p] = [debt |-> "none", parts |-> 0], Owes[d] \in Nat,
           parts <= Owes[d] + HalfCent,
           Entries' = [Entries EXCEPT ![p] = [debt |-> d, parts |-> parts]],
           Owes' = [Owes EXCEPT ![d] = @ - parts + gain]
    PROVE  Book!Next
<1>1. HalfCent \in Nat /\ DOMAIN Entries = Payments /\ DOMAIN Owes = Debts
  BY AllocationAssumption DEF HalfCent, Entries, Owes
<1>2. PICK next : next = Entries'
  OBVIOUS
<1>3. /\ Entries'[p].debt = d /\ Entries'[p].parts = parts
      /\ Entries' = [Entries EXCEPT ![p] = Entries'[p]]
  <2>1. next[p] = [debt |-> d, parts |-> parts]
    BY <1>1, <1>2
  <2>2. next[p].debt = d /\ next[p].parts = parts
    BY <2>1
  <2>3. next = [Entries EXCEPT ![p] = next[p]]
    BY <1>2, <2>1, Zenon
  <2> QED
    BY <1>2, <2>2, <2>3
<1>4. Owes' = [Owes EXCEPT ![d] = @ + (-(Entries'[p].parts)) + gain]
  <2>1. Owes[d] - parts + gain = Owes[d] + (-(Entries'[p].parts)) + gain
    BY <1>1, <1>3
  <2> QED
    BY <2>1
<1>5. /\ Entries[p] = [debt |-> "none", parts |-> 0] /\ Owes[d] # -1
      /\ Entries'[p].parts \in 0..(Owes[d] + HalfCent)
      /\ \E g \in 0..HalfCent : Owes' = [Owes EXCEPT ![d] = @ + (-(Entries'[p].parts)) + g]
  <2>1. Owes[d] # -1 /\ Entries'[p].parts \in 0..(Owes[d] + HalfCent)
    BY <1>1, <1>3
  <2> QED
    BY <1>4, <2>1, Zenon
<1>6. Book!Enter(p, d)
  BY <1>3, <1>5 DEF Book!Enter, Book!Moves, Book!Blank, Book!Closed, Owes, Entries
<1> QED
  BY <1>6 DEF Book!Next

LEMMA BookAmends ==
    ASSUME NEW p \in Payments, NEW d \in Debts, NEW parts \in Nat, NEW gain \in 0..HalfCent,
           Entries[p].debt = d, Entries[p].parts \in Nat, Owes[d] \in Nat,
           parts <= Owes[d] + Entries[p].parts + HalfCent,
           Entries' = [Entries EXCEPT ![p] = [debt |-> d, parts |-> parts]],
           Owes' = [Owes EXCEPT ![d] = @ + Entries[p].parts - parts + gain]
    PROVE  Book!Next
<1>1. HalfCent \in Nat /\ DOMAIN Entries = Payments /\ DOMAIN Owes = Debts
  BY AllocationAssumption DEF HalfCent, Entries, Owes
<1>2. PICK next : next = Entries'
  OBVIOUS
<1>3. /\ Entries'[p].debt = d /\ Entries'[p].parts = parts
      /\ Entries' = [Entries EXCEPT ![p] = Entries'[p]]
  <2>1. next[p] = [debt |-> d, parts |-> parts]
    BY <1>1, <1>2
  <2>2. next[p].debt = d /\ next[p].parts = parts
    BY <2>1
  <2>3. next = [Entries EXCEPT ![p] = next[p]]
    BY <1>2, <2>1, Zenon
  <2> QED
    BY <1>2, <2>2, <2>3
<1>4. Owes' = [Owes EXCEPT ![d] = @ + (Entries[p].parts - Entries'[p].parts) + gain]
  <2>1. Owes[d] + Entries[p].parts - parts + gain
          = Owes[d] + (Entries[p].parts - Entries'[p].parts) + gain
    BY <1>1, <1>3
  <2> QED
    BY <2>1
<1>5. /\ Entries'[p].parts \in 0..(Owes[d] + Entries[p].parts + HalfCent)
      /\ \E g \in 0..HalfCent :
            Owes' = [Owes EXCEPT ![d] = @ + (Entries[p].parts - Entries'[p].parts) + g]
  <2>1. Entries'[p].parts \in 0..(Owes[d] + Entries[p].parts + HalfCent)
    BY <1>1, <1>3
  <2> QED
    BY <1>4, <2>1, Zenon
<1>6. Book!Amend(p, d)
  BY <1>3, <1>5 DEF Book!Amend, Book!Moves, Owes, Entries
<1> QED
  BY <1>6 DEF Book!Next

LEMMA BookCancels ==
    ASSUME NEW p \in Payments, NEW d \in Debts, Entries[p].debt = d,
           Entries[p].parts \in Nat, Owes[d] \in Nat,
           Entries' = [Entries EXCEPT ![p] = [debt |-> "none", parts |-> 0]],
           Owes' = [Owes EXCEPT ![d] = @ + Entries[p].parts]
    PROVE  Book!Next
<1>1. 0 \in 0..HalfCent
  BY AllocationAssumption DEF HalfCent
<1>2. Owes' = [Owes EXCEPT ![d] = @ + Entries[p].parts + 0]
  <2>1. Owes[d] + Entries[p].parts = Owes[d] + Entries[p].parts + 0
    OBVIOUS
  <2> QED
    BY <2>1
<1>3. \E g \in 0..HalfCent : Owes' = [Owes EXCEPT ![d] = @ + Entries[p].parts + g]
  BY <1>1, <1>2
<1>4. Book!Cancel(p, d)
  BY <1>3 DEF Book!Cancel, Book!Moves, Book!Blank, Owes, Entries
<1> QED
  BY <1>4 DEF Book!Next

\* A payment operation on a debt: only its row moves, to an amount in whole cents.
LEMMA SettlingMoves ==
    ASSUME TypeOK, RowsKept, NEW d, Exists(d), NEW seen, NEW owed \in Owed, WholeOwed(owed),
           NEW paidOff, SettleDebt(d, seen, owed, paidOff)
    PROVE  /\ \A e \in Debts : WholeOwed(debts'[e].owed)
           /\ Owes' = [Owes EXCEPT ![d] = TotalDue(owed)]
           /\ d \in Debts /\ Owes[d] = TotalDue(debts[d].owed)
<1>1. d \in Debts
  BY DEF Exists
<1>2. debts'[d].owed = owed /\ debts'[d].status \in Statuses
  BY <1>1, StatusIsTyped DEF SettleDebt, TypeOK, DebtRow
<1>3. \A e \in Debts \ {d} : debts'[e] = debts[e]
  BY DEF SettleDebt, TypeOK
<1>4. \A e \in Debts : WholeOwed(debts'[e].owed)
  BY <1>2, <1>3 DEF RowsKept
<1>5. \A e \in Debts : Owes'[e] = IF e = d THEN TotalDue(owed) ELSE Owes[e]
  BY <1>1, <1>2, <1>3 DEF Owes, Exists
<1> QED
  BY <1>1, <1>4, <1>5 DEF Owes

\* A payment's row is written, or struck out.
LEMMA EntryMoves ==
    ASSUME TypeOK, RowsKept, NEW p \in Payments, NEW row \in PaymentRow,
           payments' = [payments EXCEPT ![p] = row], KeptRow(row)
    PROVE  /\ \A q \in Payments : KeptRow(payments'[q])
           /\ Entries' = [Entries EXCEPT ![p] = [debt |-> row.debt, parts |-> PartsOf(row.split)]]
<1>1. payments'[p] = row /\ \A q \in Payments \ {p} : payments'[q] = payments[q]
  BY DEF TypeOK
<1>2. \A q \in Payments :
         Entries'[q] = IF q = p THEN [debt |-> row.debt, parts |-> PartsOf(row.split)]
                       ELSE Entries[q]
  BY <1>1 DEF Entries
<1> QED
  BY <1>1, <1>2 DEF RowsKept, Entries

LEMMA CreateEnters ==
    ASSUME BookInv, WholeInputs, NEW r \in Requests, CommitCreatePayment(r)
    PROVE  RowsKept' /\ Book!Next
<1> PICK d \in Debts, in \in PaymentInputs : d = req[r].debt /\ in = req[r].in
  BY DEF CommitCreatePayment, At, BookInv, ReadsTheRows, Exists
<1>1. Exists(d) /\ req[r].seen = debts[d] /\ TypeOK /\ RowsKept
  BY DEF CommitCreatePayment, At, BookInv, ReadsTheRows, PaymentOps
<1> PICK o \in Owed : o = debts[d].owed
  BY <1>1 DEF TypeOK, DebtRow
<1> DEFINE split == BreakdownOf(o, in)
<1>2. WholeOwed(o) /\ in \in PaymentInput /\ WholeInput(in)
  BY <1>1, FormsAreTyped DEF RowsKept, WholeInputs
<1>3. OwedAfter(o, in) \in Owed /\ split \in Breakdown
  BY <1>2, AllocationTypes
<1>4. /\ PartsOf(split) \in 0..(TotalDue(o) + HalfCent) /\ TotalDue(o) \in Nat
      /\ WholeOwed(OwedAfter(o, in)) /\ WholeSplit(split)
  BY <1>2, PaymentsMove, DueIsMoney
<1>5. PICK gain \in 0..HalfCent :
        TotalDue(OwedAfter(o, in)) = TotalDue(o) - PartsOf(split) + gain
  BY <1>2, PaymentsMove
<1>6. SettleDebt(d, req[r].seen, OwedAfter(o, in), split.remaining <= 0)
  BY <1>1 DEF CommitCreatePayment
<1>7. PICK p \in FreshPayments :
        payments' = [payments EXCEPT ![p] = [state |-> "LIVE", debt |-> d, split |-> split]]
  BY <1>1 DEF CommitCreatePayment
<1> HIDE DEF split
<1>8. /\ \A e \in Debts : WholeOwed(debts'[e].owed)
      /\ Owes' = [Owes EXCEPT ![d] = TotalDue(OwedAfter(o, in))]
      /\ Owes[d] = TotalDue(o)
  <2>1. PICK paidOff : SettleDebt(d, req[r].seen, OwedAfter(o, in), paidOff)
    BY <1>6
  <2>2. WholeOwed(OwedAfter(o, in))
    BY <1>4
  <2>3. /\ \A e \in Debts : WholeOwed(debts'[e].owed)
        /\ Owes' = [Owes EXCEPT ![d] = TotalDue(OwedAfter(o, in))]
        /\ Owes[d] = TotalDue(debts[d].owed)
    BY <1>1, <1>3, <2>1, <2>2, SettlingMoves
  <2> QED
    BY <2>3
<1>9. p \in Payments /\ Entries[p] = [debt |-> "none", parts |-> 0]
  BY <1>1, <1>7 DEF FreshPayments, RowsKept, KeptRow, Entries
<1>10. /\ \A q \in Payments : KeptRow(payments'[q])
       /\ Entries' = [Entries EXCEPT ![p] = [debt |-> d, parts |-> PartsOf(split)]]
  <2> DEFINE row == [state |-> "LIVE", debt |-> d, split |-> split]
  <2>1. row \in PaymentRow /\ KeptRow(row) /\ row.debt = d /\ row.split = split
    BY <1>3, <1>4 DEF PaymentRow, KeptRow
  <2>2. payments' = [payments EXCEPT ![p] = row]
    BY <1>7
  <2> HIDE DEF row
  <2> QED
    BY <1>1, <1>9, <2>1, <2>2, EntryMoves
<1>11. Owes' = [Owes EXCEPT ![d] = @ - PartsOf(split) + gain]
  BY <1>5, <1>8
<1>12. Book!Next
  <2> PICK parts \in Nat : parts = PartsOf(split)
    BY <1>4
  <2>1. parts <= Owes[d] + HalfCent /\ Owes[d] \in Nat
    BY <1>4, <1>8
  <2>2. /\ Entries' = [Entries EXCEPT ![p] = [debt |-> d, parts |-> parts]]
        /\ Owes' = [Owes EXCEPT ![d] = @ - parts + gain]
    BY <1>10, <1>11
  <2> QED
    BY <1>9, <2>1, <2>2, BookEnters
<1> QED
  BY <1>8, <1>10, <1>12 DEF RowsKept

\* An edit and a deletion first put back what the payment's row records.
LEMMA AmendAmends ==
    ASSUME BookInv, WholeInputs, NEW r \in Requests, CommitUpdatePayment(r)
    PROVE  RowsKept' /\ Book!Next
<1> PICK d \in Debts, p \in Payments, in \in PaymentInputs :
       d = req[r].debt /\ p = req[r].payment /\ in = req[r].in
  BY DEF CommitUpdatePayment, At, BookInv, ReadsTheRows, Exists, Live
<1>1. /\ Exists(d) /\ Live(p) /\ req[r].seen = debts[d] /\ req[r].seenPayment = payments[p]
      /\ payments[p].debt = d /\ TypeOK /\ RowsKept
  BY DEF CommitUpdatePayment, At, BookInv, ReadsTheRows, PaymentOps
<1> PICK o \in Owed, old \in Breakdown : o = debts[d].owed /\ old = payments[p].split
  BY <1>1 DEF TypeOK, DebtRow, PaymentRow
<1> PICK base \in Owed : base = Reverted(o, old)
  BY RevertedTypes
<1> DEFINE split == BreakdownOf(base, in)
<1>2. /\ WholeOwed(o) /\ WholeSplit(old) /\ in \in PaymentInput /\ WholeInput(in)
  BY <1>1, FormsAreTyped DEF RowsKept, KeptRow, WholeInputs
<1>3. /\ WholeOwed(base) /\ TotalDue(base) = TotalDue(o) + PartsOf(old)
      /\ TotalDue(o) \in Nat /\ PartsOf(old) \in Nat
  BY <1>2, RevertedMoves, DueIsMoney, PartsAreTyped
<1>4. OwedAfter(base, in) \in Owed /\ split \in Breakdown
  BY <1>2, AllocationTypes
<1>5. /\ PartsOf(split) \in 0..(TotalDue(base) + HalfCent)
      /\ WholeOwed(OwedAfter(base, in)) /\ WholeSplit(split)
  BY <1>2, <1>3, PaymentsMove
<1>6. PICK gain \in 0..HalfCent :
        TotalDue(OwedAfter(base, in)) = TotalDue(base) - PartsOf(split) + gain
  BY <1>2, <1>3, PaymentsMove
<1>7. /\ SettleDebt(d, req[r].seen, OwedAfter(base, in), split.remaining <= 0)
      /\ payments' = [payments EXCEPT ![p].split = split]
  BY <1>1 DEF CommitUpdatePayment, WithoutPayment
<1> HIDE DEF split
<1>8. /\ \A e \in Debts : WholeOwed(debts'[e].owed)
      /\ Owes' = [Owes EXCEPT ![d] = TotalDue(OwedAfter(base, in))]
      /\ Owes[d] = TotalDue(o)
  BY <1>1, <1>4, <1>5, <1>7, SettlingMoves
<1>9. Entries[p] = [debt |-> d, parts |-> PartsOf(old)]
  BY <1>1 DEF Entries
<1>10. /\ \A q \in Payments : KeptRow(payments'[q])
       /\ Entries' = [Entries EXCEPT ![p] = [debt |-> d, parts |-> PartsOf(split)]]
  <2> DEFINE row == [payments[p] EXCEPT !.split = split]
  <2>1. row \in PaymentRow /\ KeptRow(row) /\ row.debt = d /\ row.split = split
    BY <1>1, <1>4, <1>5 DEF TypeOK, PaymentRow, KeptRow, Live
  <2>2. payments' = [payments EXCEPT ![p] = row]
    BY <1>7
  <2> HIDE DEF row
  <2> QED
    BY <1>1, <2>1, <2>2, EntryMoves
<1>11. Book!Next
  <2> PICK parts \in Nat : parts = PartsOf(split)
    BY <1>5
  <2>1. /\ Entries[p].debt = d /\ Entries[p].parts = PartsOf(old)
        /\ Entries[p].parts \in Nat /\ Owes[d] \in Nat
    BY <1>3, <1>8, <1>9
  <2>2. parts <= Owes[d] + Entries[p].parts + HalfCent
    BY <1>3, <1>5, <1>8, <2>1
  <2>3. Entries' = [Entries EXCEPT ![p] = [debt |-> d, parts |-> parts]]
    BY <1>10
  <2>4. TotalDue(OwedAfter(base, in)) = Owes[d] + Entries[p].parts - parts + gain
    BY <1>3, <1>6, <1>8, <2>1
  <2>5. Owes' = [Owes EXCEPT ![d] = @ + Entries[p].parts - parts + gain]
    BY <1>8, <2>4
  <2> QED
    BY <2>1, <2>2, <2>3, <2>5, BookAmends
<1> QED
  BY <1>8, <1>10, <1>11 DEF RowsKept

LEMMA DeleteCancels ==
    ASSUME BookInv, NEW r \in Requests, CommitDeletePayment(r)
    PROVE  RowsKept' /\ Book!Next
<1> PICK d \in Debts, p \in Payments : d = req[r].debt /\ p = req[r].payment
  BY DEF CommitDeletePayment, Exists, Live
<1>1. /\ Exists(d) /\ Live(p) /\ req[r].seen = debts[d] /\ req[r].seenPayment = payments[p]
      /\ payments[p].debt = d /\ TypeOK /\ RowsKept
  BY DEF CommitDeletePayment, At, BookInv, ReadsTheRows, PaymentOps
<1> PICK o \in Owed, old \in Breakdown : o = debts[d].owed /\ old = payments[p].split
  BY <1>1 DEF TypeOK, DebtRow, PaymentRow
<1>0. PICK base \in Owed : base = Reverted(o, old)
  BY RevertedTypes
<1>2. WholeOwed(o) /\ WholeSplit(old)
  BY <1>1 DEF RowsKept, KeptRow
<1>3. /\ WholeOwed(base) /\ TotalDue(base) = TotalDue(o) + PartsOf(old)
      /\ TotalDue(o) \in Nat /\ PartsOf(old) \in Nat
  BY <1>0, <1>2, RevertedMoves, DueIsMoney, PartsAreTyped
<1>4. PICK paidOff : SettleDebt(d, req[r].seen, base, paidOff)
  BY <1>0, <1>1 DEF CommitDeletePayment, WithoutPayment
<1>5. payments' = [payments EXCEPT ![p] = [NoPayment EXCEPT !.state = "GONE"]]
  BY DEF CommitDeletePayment, RemovePayment
<1>6. /\ \A e \in Debts : WholeOwed(debts'[e].owed)
      /\ Owes' = [Owes EXCEPT ![d] = TotalDue(base)]
      /\ Owes[d] = TotalDue(o)
  BY <1>1, <1>3, <1>4, SettlingMoves
<1>7. Entries[p] = [debt |-> d, parts |-> PartsOf(old)]
  BY <1>1 DEF Entries
<1>8. /\ \A q \in Payments : KeptRow(payments'[q])
      /\ Entries' = [Entries EXCEPT ![p] = [debt |-> "none", parts |-> 0]]
  <2> DEFINE row == [NoPayment EXCEPT !.state = "GONE"]
  <2>1. /\ row \in PaymentRow /\ row.debt = NoPayment.debt /\ row.split = NoPayment.split
    BY NullRowsAreTyped DEF PaymentRow
  <2>2. payments' = [payments EXCEPT ![p] = row]
    BY <1>5
  <2> HIDE DEF row
  <2>3. KeptRow(row) /\ row.debt = "none" /\ PartsOf(row.split) = 0
    BY <2>1, NullRowsAreWhole DEF KeptRow
  <2> QED
    BY <1>1, <2>1, <2>2, <2>3, EntryMoves
<1>9. Book!Next
  <2>1. /\ Entries[p].debt = d /\ Entries[p].parts = PartsOf(old)
        /\ Entries[p].parts \in Nat /\ Owes[d] \in Nat
    BY <1>3, <1>6, <1>7
  <2>2. Owes' = [Owes EXCEPT ![d] = @ + Entries[p].parts]
    BY <1>3, <1>6, <2>1
  <2> QED
    BY <1>8, <2>1, <2>2, BookCancels
<1> QED
  BY <1>6, <1>8, <1>9 DEF RowsKept

\* The owner opens debts, or states anew what they owe: no debt leaves the book by it.
LEMMA BookDeclares ==
    ASSUME TypeOK', UNCHANGED payments,
           \A d \in Debts : Exists(d) => debts'[d].status \in Statuses
    PROVE  Book!Next
<1>1. \A d \in Debts : TotalDue(debts'[d].owed) \in Nat
  BY DueIsMoney DEF TypeOK, DebtRow
<1>2. \A d \in Debts : /\ Owes'[d] \in Nat \cup {-1}
                       /\ Owes[d] # -1 => Owes'[d] # -1
  BY <1>1 DEF Owes, Exists
<1>3. Owes' \in [Debts -> Nat \cup {-1}]
  BY <1>2 DEF Owes
<1>4. Book!Declare
  BY <1>2, <1>3 DEF Book!Declare, Book!Closed, Owes
<1> QED
  BY <1>4 DEF Book!Next

LEMMA OwnersDeclare ==
    ASSUME BookInv, TypeOK', NEW r \in Requests,
           CommitCreateDebt(r) \/ CommitUpdateDebt(r) \/ CommitOnboarding(r)
    PROVE  RowsKept' /\ Book!Next
<1>1. TypeOK /\ RowsKept /\ CarriesARow(r) /\ CarriesCents(r) /\ UNCHANGED payments
  BY DEF BookInv, CommitCreateDebt, CommitUpdateDebt, CommitOnboarding
<1> SUFFICES \A d \in Debts : /\ WholeOwed(debts'[d].owed)
                              /\ Exists(d) => debts'[d].status \in Statuses
  <2>1. ASSUME \A d \in Debts : WholeOwed(debts'[d].owed) PROVE RowsKept'
    BY <1>1, <2>1 DEF RowsKept
  <2> QED
    BY <1>1, <2>1, BookDeclares
<1>2. CASE CommitCreateDebt(r) \/ CommitUpdateDebt(r)
  <2>1. WholeOwed(req[r].next.owed) /\ req[r].next.status \in Statuses
    BY <1>1, <1>2 DEF CommitCreateDebt, CommitUpdateDebt, At, CarriesARow, CarriesCents
  <2>2. \A d \in Debts : debts'[d] = debts[d] \/ debts'[d] = req[r].next
    BY <1>1, <1>2 DEF CommitCreateDebt, CommitUpdateDebt, TypeOK, FreshDebts, Exists
  <2> QED
    BY <1>1, <2>1, <2>2 DEF RowsKept, Exists
<1>3. CASE CommitOnboarding(r)
  <2>1. PICK new \in SUBSET FreshDebts, b \in OpeningBalances :
          debts' = [e \in Debts |->
                       IF e \in new
                       THEN [NoDebt EXCEPT !.status = "CURRENT", !.owed.balance = ToCents(b)]
                       ELSE debts[e]]
    BY <1>3 DEF CommitOnboarding
  <2> DEFINE row == [NoDebt EXCEPT !.status = "CURRENT", !.owed.balance = ToCents(b)]
  <2>2. /\ row.status = "CURRENT" /\ row.owed.balance = ToCents(b)
        /\ row.owed.late = NoDebt.owed.late /\ row.owed.extra = NoDebt.owed.extra
    BY DEF NoDebt
  <2>3. WholeOwed(row.owed) /\ row.status \in Statuses
    BY <2>2, NullRowsAreWhole, WholeCents, LedgerAssumption DEF WholeOwed, Statuses
  <2>4. \A d \in Debts : debts'[d] = debts[d] \/ debts'[d] = row
    BY <2>1
  <2> HIDE DEF row
  <2> QED
    BY <1>1, <2>3, <2>4 DEF RowsKept, Exists
<1> QED
  BY <1>2, <1>3

LEMMA DeleteStrikes ==
    ASSUME BookInv, NEW r \in Requests, CommitDeleteDebt(r)
    PROVE  RowsKept' /\ Book!Next
<1> PICK d \in Debts : d = req[r].debt
  BY DEF CommitDeleteDebt, Exists
<1>1. TypeOK /\ RowsKept
  BY DEF BookInv
<1> DEFINE noDebt == [NoDebt EXCEPT !.status = "GONE"]
           noPayment == [NoPayment EXCEPT !.state = "GONE"]
<1>2. /\ debts' = [debts EXCEPT ![d] = noDebt]
      /\ payments' = [p \in Payments |-> IF Live(p) /\ payments[p].debt = d
                                         THEN noPayment ELSE payments[p]]
  BY DEF CommitDeleteDebt
<1>3. noDebt.status \notin Statuses /\ WholeOwed(noDebt.owed)
  BY NullRowsAreWhole DEF NoDebt, Statuses
<1>4. KeptRow(noPayment) /\ noPayment.debt = "none" /\ PartsOf(noPayment.split) = 0
  <2>1. noPayment.debt = NoPayment.debt /\ noPayment.split = NoPayment.split
    BY DEF NoPayment
  <2> QED
    BY <2>1, NullRowsAreWhole DEF KeptRow
<1> HIDE DEF noDebt, noPayment
<1>5. debts'[d] = noDebt /\ \A e \in Debts \ {d} : debts'[e] = debts[e]
  BY <1>1, <1>2 DEF TypeOK
<1>6. RowsKept'
  BY <1>1, <1>2, <1>3, <1>4, <1>5 DEF RowsKept
<1>7. Owes' = [Owes EXCEPT ![d] = -1]
  <2>1. \A e \in Debts : Owes'[e] = IF e = d THEN -1 ELSE Owes[e]
    BY <1>3, <1>5 DEF Owes, Exists
  <2> QED
    BY <2>1 DEF Owes
<1>8. Entries' = [p \in Payments |-> IF Entries[p].debt = d THEN [debt |-> "none", parts |-> 0]
                                     ELSE Entries[p]]
  <2>1. ASSUME NEW p \in Payments
        PROVE  Entries'[p] = IF Entries[p].debt = d THEN [debt |-> "none", parts |-> 0]
                             ELSE Entries[p]
    <3>1. payments[p].debt = d => payments[p].state = "LIVE"
      BY <1>1, LedgerAssumption DEF RowsKept, KeptRow
    <3>2. Entries[p].debt = payments[p].debt
      BY DEF Entries
    <3>3. CASE payments[p].debt = d
      <4>1. payments'[p] = noPayment
        BY <1>2, <3>1, <3>3 DEF Live
      <4> QED
        BY <1>4, <3>2, <3>3, <4>1 DEF Entries
    <3>4. CASE payments[p].debt # d
      <4>1. payments'[p] = payments[p]
        BY <1>2, <3>4
      <4> QED
        BY <3>2, <3>4, <4>1 DEF Entries
    <3> QED
      BY <3>3, <3>4
  <2> QED
    BY <2>1 DEF Entries
<1>9. Book!Strike(d)
  BY <1>7, <1>8 DEF Book!Strike, Book!Blank, Book!Closed, Owes, Entries
<1>10. Book!Next
  BY <1>9 DEF Book!Next
<1> QED
  BY <1>6, <1>10

-----------------------------------------------------------------------------
\* Past its commit a request has nothing left that could be out of date.
LEMMA RequestsRead ==
    ASSUME Alone, BookInv, [Next]_vars, NEW s \in Requests PROVE ReadsTheRows(s)'
<1>1. req \in [Requests -> Request] /\ Idle.pc = "idle" /\ ReadsTheRows(s)
  BY DEF BookInv, TypeOK, Idle
<1>2. ASSUME req'[s].pc \in {"idle", "audit", "sum", "save"} PROVE ReadsTheRows(s)'
  BY <1>2 DEF ReadsTheRows
<1>3. ASSUME Finish(s) PROVE req'[s].pc = "idle"
  BY <1>1, <1>3 DEF Finish
<1>4. CASE Commits(s)
  <2>1. CASE CommitCreatePayment(s) \/ CommitUpdatePayment(s) \/ CommitDeletePayment(s)
    BY <1>1, <1>2, <2>1 DEF CommitCreatePayment, CommitUpdatePayment, CommitDeletePayment, Request
  <2>2. CASE CommitCreateDebt(s) \/ CommitUpdateDebt(s) \/ CommitDeleteDebt(s)
    BY <1>1, <1>2, <2>2 DEF CommitCreateDebt, CommitUpdateDebt, CommitDeleteDebt, Request
  <2>3. CASE CommitOnboarding(s) \/ CommitFails(s)
    BY <1>2, <1>3, <2>3 DEF CommitOnboarding, CommitFails
  <2> QED
    BY <1>4, <2>1, <2>2, <2>3 DEF Commits
<1>5. CASE WriteAudit(s) \/ SumDebts(s) \/ SaveSnapshot(s) \/ Crash(s)
  BY <1>1, <1>2, <1>3, <1>5 DEF WriteAudit, SumDebts, SaveSnapshot, Crash, Request
<1>6. CASE Tick \/ ChangePlan \/ UNCHANGED vars
  <2>1. UNCHANGED <<debts, payments, req>>
    BY <1>6 DEF Tick, ChangePlan, vars, stores
  <2> QED
    BY <1>1, <2>1 DEF ReadsTheRows, Live
<1>7. CASE Reads(s)
  BY <1>7, ReadingKeeps
<1>8. \A r \in Requests : r = s
  BY DEF Alone
<1> QED
  BY <1>4, <1>5, <1>6, <1>7, <1>8 DEF Next

LEMMA StepsKeepTheBook ==
    ASSUME Alone, WholeInputs, BookInv, TypeOK', [Next]_vars
    PROVE  BookInv' /\ [Book!Next]_<<Owes, Entries>>
<1>1. \A r \in Requests : CarriesARow(r)' /\ CarriesCents(r)' /\ ReadsTheRows(r)'
  BY RowsAreCarried, CentsAreCarried, RequestsRead DEF BookInv
<1>2. ASSUME UNCHANGED <<debts, payments>>
      PROVE  RowsKept' /\ UNCHANGED <<Owes, Entries>>
  <2>1. RowsKept'
    BY <1>2 DEF BookInv, RowsKept
  <2>2. Owes' = Owes
    BY <1>2 DEF Owes, Exists
  <2>3. Entries' = Entries
    BY <1>2 DEF Entries
  <2> QED
    BY <2>1, <2>2, <2>3
<1>3. ASSUME NEW r \in Requests, Commits(r)
      PROVE  RowsKept' /\ [Book!Next]_<<Owes, Entries>>
  <2>1. CASE CommitFails(r)
    BY <1>2, <2>1 DEF CommitFails, stores
  <2> QED
    BY <1>3, <2>1, CreateEnters, AmendAmends, DeleteCancels, OwnersDeclare, DeleteStrikes
       DEF Commits
<1>4. (\E r \in Requests : Commits(r)) \/ UNCHANGED <<debts, payments>>
  BY DEF Next, Reads, ReadForCreatePayment, ReadPayment, ReadPaymentsDebt, PrepareDebt,
         ReadForUpdateDebt, CheckLimit, ReadForDeleteDebt, ReadOnboarded, WriteAudit,
         SumDebts, SaveSnapshot, Crash, Tick, ChangePlan, stores, vars
<1>5. RowsKept' /\ [Book!Next]_<<Owes, Entries>>
  BY <1>2, <1>3, <1>4
<1> QED
  BY <1>1, <1>5 DEF BookInv

\* Requests that have the ledger to themselves implement the abstract book: every payment
\* entered, amended or struck out moves what its debt owes by what the payment records, up
\* to the cent two halves are rounded to, wherever a request is cut short.
THEOREM KeepsItsBook == Alone /\ WholeInputs => (Spec => KeepsTheBook)
<1> SUFFICES ASSUME Alone, WholeInputs PROVE Spec => KeepsTheBook
  OBVIOUS
<1>1. Init => BookInv /\ Book!Init
  <2> SUFFICES ASSUME Init PROVE BookInv /\ Book!Init
    OBVIOUS
  <2>1. TypeOK
    BY InitTyped
  <2>2. RowsKept
    BY NullRowsAreWhole DEF Init, RowsKept, KeptRow
  <2>3. \A r \in Requests : CarriesARow(r) /\ CarriesCents(r) /\ ReadsTheRows(r)
    BY DEF Init, Idle, CarriesARow, CarriesCents, ReadsTheRows
  <2>4. Book!Init
    BY NullRowsAreWhole
       DEF Init, Book!Init, Book!Closed, Book!Blank, Exists, NoDebt, Statuses
  <2> QED
    BY <2>1, <2>2, <2>3, <2>4 DEF BookInv
<1>2. BookInv /\ TypeOK' /\ [Next]_vars => BookInv' /\ [Book!Next]_<<Owes, Entries>>
  BY StepsKeepTheBook
<1> QED
  BY TypeCorrect, <1>1, <1>2, PTL DEF Spec, KeepsTheBook, Book!Spec, Owes, Entries

-----------------------------------------------------------------------------
(* The books as sums                                                       *)

Parts == [p \in Payments |-> PartsOf(payments[p].split)]
LivePayments == {p \in Payments : Live(p)}
PaymentsOn(d) == {p \in Payments : Live(p) /\ payments[p].debt = d}
Dues == [d \in Debts |-> TotalDue(debts[d].owed)]

LEMMA RecordedIsTotal ==
    ASSUME NEW d, IsFiniteSet(LivePayments)
    PROVE  Recorded(d) = Total(Parts, PaymentsOn(d))
<1>1. IsFiniteSet(PaymentsOn(d))
  BY FS_Subset DEF PaymentsOn, LivePayments
<1>2. PICK f : IsSummation(Parts, PaymentsOn(d), f)
  BY <1>1, SummationExists
<1>3. ASSUME NEW T \in SUBSET PaymentsOn(d), T # {}
      PROVE  Parts[Pick(T)] = PartsOf(payments[Pick(T)].split)
  BY <1>3, PickIsIn DEF Parts, PaymentsOn
<1> DEFINE Sums(h) == h = [T \in SUBSET PaymentsOn(d) |->
                              IF T = {} THEN 0
                              ELSE PartsOf(payments[Pick(T)].split) + h[T \ {Pick(T)}]]
<1>4. \A h : Sums(h) <=> IsSummation(Parts, PaymentsOn(d), h)
  BY <1>3 DEF IsSummation
<1>5. Sums(f) /\ \A h : Sums(h) => h = f
  BY <1>1, <1>2, <1>4, OneSummation
<1>6. Recorded(d) = f[PaymentsOn(d)]
  BY <1>5 DEF Recorded, MapThenSumSet, MapThenFoldSet, Pick, PaymentsOn
<1> QED
  BY <1>1, <1>2, <1>6, SummationsTotal

LEMMA ActiveIsTotal ==
    ASSUME IsFiniteSet(ActiveDebts)
    PROVE  ActiveTotal = Total(Dues, ActiveDebts)
<1>2. PICK f : IsSummation(Dues, ActiveDebts, f)
  BY SummationExists
<1>3. ASSUME NEW T \in SUBSET ActiveDebts, T # {}
      PROVE  Dues[Pick(T)] = TotalDue(debts[Pick(T)].owed)
  BY <1>3, PickIsIn DEF Dues, ActiveDebts
<1> DEFINE Sums(h) == h = [T \in SUBSET ActiveDebts |->
                              IF T = {} THEN 0
                              ELSE TotalDue(debts[Pick(T)].owed) + h[T \ {Pick(T)}]]
<1>4. \A h : Sums(h) <=> IsSummation(Dues, ActiveDebts, h)
  BY <1>3 DEF IsSummation
<1>5. Sums(f) /\ \A h : Sums(h) => h = f
  BY <1>2, <1>4, OneSummation
<1>6. ActiveTotal = f[ActiveDebts]
  BY <1>5 DEF ActiveTotal, MapThenSumSet, MapThenFoldSet, Pick
<1> QED
  BY <1>2, <1>6, SummationsTotal

-----------------------------------------------------------------------------
(* The balance snapshot                                                    *)

SumInv ==
    /\ DOMAIN summed = Requests
    /\ IsFiniteSet(ActiveDebts)
    /\ \A r \in Requests : req[r].pc = "save" => summed[r] = Total(Dues, ActiveDebts)

LEMMA OneRowMoves ==
    ASSUME NEW d, \A e \in Debts \ {d} : debts'[e] = debts[e], IsFiniteSet(ActiveDebts)
    PROVE  IsFiniteSet(ActiveDebts')
<1>1. ActiveDebts' \subseteq ActiveDebts \cup {d}
  BY DEF ActiveDebts, IsActive
<1> QED
  BY <1>1, FS_AddElement, FS_Subset

\* A request that reads is not yet at its snapshot.
LEMMA ReadingComesFirst ==
    ASSUME TypeOK, NEW r \in Requests, Reads(r) PROVE req'[r].pc # "save"
<1>1. req \in [Requests -> Request] /\ Idle \in Request /\ Idle.pc = "idle"
  BY NullRowsAreTyped DEF TypeOK, Idle
<1>2. ASSUME Finish(r) PROVE req'[r].pc = "idle"
  BY <1>1, <1>2 DEF Finish
<1>3. ASSUME NEW op, NEW pc, NEW fields \in Request, Begin(r, op, pc, fields)
      PROVE  req'[r].pc = pc
  <2>1. req'[r] = [fields EXCEPT !.op = op, !.pc = pc]
    BY <1>1, <1>3, Zenon DEF Begin
  <2> QED
    BY <2>1 DEF Request
<1>4. ASSUME NEW d \in Debts, NEW in \in PaymentInputs, ReadForCreatePayment(r, d, in)
      PROVE  req'[r].pc # "save"
  <2>1. [Idle EXCEPT !.debt = d, !.in = in, !.seen = debts[d]] \in Request
    BY <1>1 DEF Request, TypeOK
  <2> QED
    BY <1>2, <1>3, <1>4, <2>1 DEF ReadForCreatePayment
<1>5. ASSUME NEW p \in Payments, NEW in \in PaymentInputs \cup {NoPaymentInput},
             NEW op \in {"updatePayment", "deletePayment"}, ReadPayment(r, op, p, in)
      PROVE  req'[r].pc # "save"
  <2>1. [Idle EXCEPT !.debt = payments[p].debt, !.payment = p,
                     !.in = in, !.seenPayment = payments[p]] \in Request
    BY <1>1 DEF Request, TypeOK, PaymentRow
  <2> QED
    BY <1>2, <1>3, <1>5, <2>1 DEF ReadPayment
<1>6. CASE ReadPaymentsDebt(r) \/ CheckLimit(r)
  <2>1. CASE req' = [req EXCEPT ![r].pc = "write", ![r].seen = debts[req[r].debt]]
             \/ req' = [req EXCEPT ![r].pc = "write"]
    BY <1>1, <2>1 DEF Request
  <2> QED
    BY <1>2, <1>6, <2>1 DEF ReadPaymentsDebt, CheckLimit
<1>7. ASSUME NEW in \in DebtInputs, PrepareDebt(r, in) PROVE req'[r].pc # "save"
  <2>1. [Idle EXCEPT !.next = RowFrom(in)] \in Request
    BY <1>1, FormsAreTyped DEF Request
  <2> QED
    BY <1>3, <1>7, <2>1 DEF PrepareDebt
<1>8. ASSUME NEW d \in Debts, NEW in \in DebtInputs, ReadForUpdateDebt(r, d, in)
      PROVE  req'[r].pc # "save"
  <2>1. [Idle EXCEPT !.debt = d, !.seen = debts[d], !.next = RowFrom(in)] \in Request
    BY <1>1, FormsAreTyped DEF Request, TypeOK
  <2> QED
    BY <1>2, <1>3, <1>8, <2>1 DEF ReadForUpdateDebt
<1>9. ASSUME NEW d \in Debts, ReadForDeleteDebt(r, d) PROVE req'[r].pc # "save"
  <2>1. [Idle EXCEPT !.debt = d, !.seen = debts[d]] \in Request
    BY <1>1 DEF Request, TypeOK
  <2> QED
    BY <1>2, <1>3, <1>9, <2>1 DEF ReadForDeleteDebt
<1>10. CASE ReadOnboarded(r)
  BY <1>1, <1>2, <1>3, <1>10 DEF ReadOnboarded
<1> QED
  BY <1>4, <1>5, <1>6, <1>7, <1>8, <1>9, <1>10 DEF Reads

\* Every write to the debts is the commit of a request, which leaves the stage of saving
\* to later.
LEMMA CommitsKeepSums ==
    ASSUME Alone, TypeOK, SumInv, NEW r \in Requests, Commits(r)
    PROVE  IsFiniteSet(ActiveDebts') /\ (req'[r].pc # "save" \/ UNCHANGED <<debts, req, summed>>)
<1>1. req \in [Requests -> Request] /\ Idle.pc = "idle"
  BY DEF TypeOK, Idle
<1>2. CASE CommitCreatePayment(r) \/ CommitUpdatePayment(r) \/ CommitDeletePayment(r)
  <2>1. req'[r].pc = "audit"
    BY <1>1, <1>2 DEF CommitCreatePayment, CommitUpdatePayment, CommitDeletePayment, Request
  <2>2. \A e \in Debts \ {req[r].debt} : debts'[e] = debts[e]
    BY <1>2 DEF CommitCreatePayment, CommitUpdatePayment, CommitDeletePayment, SettleDebt, TypeOK
  <2> QED
    BY <2>1, <2>2, OneRowMoves DEF SumInv
<1>3. CASE CommitCreateDebt(r) \/ CommitUpdateDebt(r) \/ CommitDeleteDebt(r)
  <2>1. req'[r].pc = "audit"
    BY <1>1, <1>3 DEF CommitCreateDebt, CommitUpdateDebt, CommitDeleteDebt, Request
  <2>2. PICK d : \A e \in Debts \ {d} : debts'[e] = debts[e]
    BY <1>3 DEF CommitCreateDebt, CommitUpdateDebt, CommitDeleteDebt, TypeOK
  <2> QED
    BY <2>1, <2>2, OneRowMoves DEF SumInv
<1>4. CASE CommitOnboarding(r)
  <2>1. req'[r].pc = "idle"
    BY <1>1, <1>4 DEF CommitOnboarding, Finish
  <2>2. PICK new \in SUBSET FreshDebts : IsFiniteSet(new) /\ \A e \in Debts \ new : debts'[e] = debts[e]
    BY <1>4 DEF CommitOnboarding
  <2>3. ActiveDebts' \subseteq ActiveDebts \cup new
    BY <2>2 DEF ActiveDebts, IsActive
  <2>4. IsFiniteSet(ActiveDebts \cup new)
    BY <2>2, FS_Union DEF SumInv
  <2> QED
    BY <2>1, <2>3, <2>4, FS_Subset
<1>5. CASE CommitFails(r)
  <2>1. req'[r].pc = "idle" /\ UNCHANGED debts
    BY <1>1, <1>5 DEF CommitFails, Finish, stores
  <2> QED
    BY <2>1 DEF SumInv, ActiveDebts
<1> QED
  BY <1>2, <1>3, <1>4, <1>5 DEF Commits

LEMMA SumsStayCurrent ==
    ASSUME Alone, TypeOK, SumInv, [Next]_vars PROVE SumInv'
<1>1. req \in [Requests -> Request] /\ Idle.pc = "idle"
  BY DEF TypeOK, Idle
<1>0. DOMAIN summed' = Requests
  <2>1. UNCHANGED summed \/ \E r \in Requests : \E x : summed' = [summed EXCEPT ![r] = x]
    BY DEF Next, Reads, ReadForCreatePayment, ReadPayment, ReadPaymentsDebt, PrepareDebt,
           ReadForUpdateDebt, CheckLimit, ReadForDeleteDebt, ReadOnboarded,
           Commits, CommitCreatePayment, CommitUpdatePayment, CommitDeletePayment,
           CommitCreateDebt, CommitUpdateDebt, CommitDeleteDebt, CommitOnboarding, CommitFails,
           WriteAudit, SumDebts, SaveSnapshot, Crash, Tick, ChangePlan, env, vars
  <2> QED
    BY <2>1 DEF SumInv
<1>2. ASSUME NEW r \in Requests, Commits(r) PROVE SumInv'
  <2>1. \A s \in Requests : s = r
    BY DEF Alone
  <2>2. IsFiniteSet(ActiveDebts') /\ (req'[r].pc # "save" \/ UNCHANGED <<debts, req, summed>>)
    BY <1>2, CommitsKeepSums
  <2>3. CASE req'[r].pc # "save"
    BY <1>0, <2>1, <2>2, <2>3 DEF SumInv
  <2>4. CASE UNCHANGED <<debts, req, summed>>
    BY <1>0, <2>2, <2>4 DEF SumInv, ActiveDebts, Dues
  <2> QED
    BY <2>2, <2>3, <2>4
<1>3. ASSUME UNCHANGED debts,
             \A r \in Requests : req'[r].pc = "save" =>
                 summed'[r] = Total(Dues, ActiveDebts) \/ (req[r].pc = "save" /\ summed'[r] = summed[r])
      PROVE  SumInv'
  <2>1. ActiveDebts' = ActiveDebts /\ Dues' = Dues
    BY <1>3 DEF ActiveDebts, Dues
  <2> QED
    BY <1>0, <1>3, <2>1 DEF SumInv
<1>4. ASSUME NEW r \in Requests, Reads(r) PROVE SumInv'
  <2>1. UNCHANGED <<debts, summed>>
    BY <1>4 DEF Reads, ReadForCreatePayment, ReadPayment, ReadPaymentsDebt, PrepareDebt,
       ReadForUpdateDebt, CheckLimit, ReadForDeleteDebt, ReadOnboarded, stores, env
  <2>2. \A s \in Requests : s = r
    BY DEF Alone
  <2>3. req'[r].pc # "save"
    BY <1>4, ReadingComesFirst
  <2> QED
    BY <1>3, <2>1, <2>2, <2>3
<1>5. ASSUME NEW r \in Requests, WriteAudit(r) \/ SaveSnapshot(r) \/ Crash(r) PROVE SumInv'
  <2>1. UNCHANGED debts /\ req'[r].pc # "save"
    BY <1>1, <1>5 DEF WriteAudit, SaveSnapshot, Crash, Finish, stores, Request
  <2>2. \A s \in Requests : s = r
    BY DEF Alone
  <2> QED
    BY <1>3, <2>1, <2>2
<1>6. ASSUME NEW r \in Requests, SumDebts(r) PROVE SumInv'
  <2>1. UNCHANGED debts /\ summed' = [summed EXCEPT ![r] = ActiveTotal]
    BY <1>6 DEF SumDebts, stores
  <2>2. ActiveTotal = Total(Dues, ActiveDebts)
    BY ActiveIsTotal DEF SumInv
  <2>3. \A s \in Requests : s = r
    BY DEF Alone
  <2>4. summed'[r] = Total(Dues, ActiveDebts)
    BY <2>1, <2>2 DEF SumInv
  <2> QED
    BY <1>3, <2>1, <2>3, <2>4
<1>7. CASE Tick \/ ChangePlan \/ UNCHANGED vars
  <2>1. UNCHANGED <<debts, req, summed>>
    BY <1>7 DEF Tick, ChangePlan, vars, stores, env
  <2> QED
    BY <1>3, <2>1
<1> QED
  BY <1>2, <1>4, <1>5, <1>6, <1>7 DEF Next

\* Onboarding sums the debts it finds and those it opens.
LEMMA OnboardingTotals ==
    ASSUME TypeOK, SumInv, NEW r \in Requests, CommitOnboarding(r)
    PROVE  snapshot' = Total(Dues', ActiveDebts')
<1>1. PICK new \in SUBSET FreshDebts, b \in OpeningBalances :
        /\ IsFiniteSet(new)
        /\ debts' = [e \in Debts |->
                       IF e \in new
                       THEN [NoDebt EXCEPT !.status = "CURRENT", !.owed.balance = ToCents(b)]
                       ELSE debts[e]]
        /\ snapshot' = ActiveTotal + Cardinality(new) * ToCents(b)
  BY DEF CommitOnboarding
<1> DEFINE row == [NoDebt EXCEPT !.status = "CURRENT", !.owed.balance = ToCents(b)]
<1>2. b \in Nat /\ ToCents(b) \in Nat
  BY LedgerAssumption, RoundingBounds
<1>3. IsActive(row) /\ TotalDue(row.owed) = ToCents(b)
  <2>1. /\ row.status = "CURRENT" /\ row.archived = FALSE /\ row.owed.balance = ToCents(b)
        /\ row.owed.late = 0 /\ row.owed.extra = 0
    BY DEF NoDebt
  <2>2. IsActive(row)
    BY <2>1 DEF IsActive, Statuses
  <2> QED
    BY <1>2, <2>1, <2>2 DEF TotalDue
<1>4. \A e \in Debts : debts'[e] = IF e \in new THEN row ELSE debts[e]
  BY <1>1
<1>5. \A e \in new : e \in Debts /\ ~IsActive(debts[e])
  BY DEF FreshDebts, IsActive, Statuses
<1> HIDE DEF row
<1>6. ActiveDebts' = ActiveDebts \cup new /\ ActiveDebts \cap new = {}
  BY <1>3, <1>4, <1>5 DEF ActiveDebts, IsActive
<1>7. /\ \A e \in ActiveDebts : Dues[e] = Dues'[e] /\ Dues'[e] \in Int
      /\ \A e \in new : Dues'[e] = ToCents(b)
  <2>1. ASSUME NEW e \in ActiveDebts PROVE Dues[e] = Dues'[e] /\ Dues'[e] \in Int
    <3>1. e \in Debts /\ e \notin new /\ debts[e].owed \in Owed
      BY <1>5 DEF ActiveDebts, TypeOK, DebtRow
    <3>2. Dues[e] = TotalDue(debts[e].owed) /\ Dues'[e] = TotalDue(debts[e].owed)
      BY <1>4, <3>1 DEF Dues
    <3> QED
      BY <3>1, <3>2, DueIsMoney
  <2>2. ASSUME NEW e \in new PROVE Dues'[e] = ToCents(b)
    BY <1>3, <1>4, <1>5 DEF Dues
  <2> QED
    BY <2>1, <2>2
<1>8. Total(Dues', ActiveDebts \cup new) = Total(Dues, ActiveDebts) + Cardinality(new) * ToCents(b)
  BY <1>1, <1>2, <1>6, <1>7, TotalGainsMany DEF SumInv
<1> QED
  BY <1>1, <1>6, <1>8, ActiveIsTotal DEF SumInv

\* A request that has the ledger to itself takes its snapshot of the debts as they are: no
\* commit comes between the sum and the row that keeps it, and the transaction of the
\* onboarding adds what it opens.
THEOREM SnapshotsAreCurrent == ASSUME Alone PROVE Spec => SnapshotIsCurrent
<1> DEFINE Bridge == IsFiniteSet(ActiveDebts) => ActiveTotal = Total(Dues, ActiveDebts)
<1>1. Init => SumInv
  <2> SUFFICES ASSUME Init PROVE SumInv
    OBVIOUS
  <2>1. ActiveDebts = {}
    BY DEF Init, ActiveDebts, IsActive, NoDebt, Statuses
  <2>2. IsFiniteSet(ActiveDebts)
    BY <2>1, FS_EmptySet
  <2> QED
    BY <2>2 DEF Init, SumInv, Idle
<1>2. TypeOK /\ SumInv /\ [Next]_vars => SumInv'
  BY SumsStayCurrent
<1>3. Bridge
  BY ActiveIsTotal
<1>4. TypeOK /\ SumInv /\ SumInv' /\ Bridge' /\ [Next]_vars
        => (snapshot' # snapshot => snapshot' = ActiveTotal')
  <2> SUFFICES ASSUME TypeOK, SumInv, SumInv', Bridge', [Next]_vars, snapshot' # snapshot
               PROVE  snapshot' = ActiveTotal'
    OBVIOUS
  <2>1. ActiveTotal' = Total(Dues', ActiveDebts')
    BY DEF SumInv
  <2>2. PICK r \in Requests : CommitOnboarding(r) \/ SaveSnapshot(r)
    BY DEF Next, Reads, ReadForCreatePayment, ReadPayment, ReadPaymentsDebt, PrepareDebt,
           ReadForUpdateDebt, CheckLimit, ReadForDeleteDebt, ReadOnboarded,
           Commits, CommitCreatePayment, CommitUpdatePayment, CommitDeletePayment,
           CommitCreateDebt, CommitUpdateDebt, CommitDeleteDebt, CommitFails,
           WriteAudit, SumDebts, Crash, Tick, ChangePlan, stores, vars
  <2>3. CASE CommitOnboarding(r)
    BY <2>1, <2>3, OnboardingTotals
  <2>4. CASE SaveSnapshot(r)
    <3>1. snapshot' = Total(Dues, ActiveDebts) /\ UNCHANGED debts
      BY <2>4 DEF SaveSnapshot, SumInv
    <3>2. Dues' = Dues /\ ActiveDebts' = ActiveDebts
      BY <3>1 DEF Dues, ActiveDebts
    <3> QED
      BY <2>1, <3>1, <3>2
  <2> QED
    BY <2>2, <2>3, <2>4
<1> QED
  BY TypeCorrect, <1>1, <1>2, <1>3, <1>4, PTL DEF Spec, SnapshotIsCurrent

-----------------------------------------------------------------------------
(* The books of a debt                                                     *)

Balanced(d) ==
    LET booked == TotalDue(debts[d].owed) + paid[d]
    IN  charged[d] <= booked /\ booked <= charged[d] + HalfCent * edits[d]

CloseInv ==
    /\ IsFiniteSet(LivePayments)
    /\ \A p \in Payments : Live(p) => Exists(payments[p].debt)
    /\ \A d \in Debts : paid[d] = Total(Parts, PaymentsOn(d))
    /\ \A d \in Debts : Exists(d) => Balanced(d)

LEMMA PartsAreInts == TypeOK => \A p \in Payments : Parts[p] \in Nat
<1> SUFFICES ASSUME TypeOK, NEW p \in Payments PROVE PartsOf(payments[p].split) \in Nat
  BY DEF Parts
<1>1. payments[p].split \in Breakdown
  BY DEF TypeOK, PaymentRow
<1> QED
  BY <1>1, PartsAreTyped

\* A payment's row is written on a debt: the sum of that debt moves by its parts.
LEMMA PaymentWritten ==
    ASSUME TypeOK, TypeOK', IsFiniteSet(LivePayments), NEW p \in Payments, NEW d \in Debts,
           \A q \in Payments \ {p} : payments'[q] = payments[q],
           payments'[p].state = "LIVE", payments'[p].debt = d,
           Live(p) => payments[p].debt = d
    PROVE  /\ IsFiniteSet(LivePayments')
           /\ \A e \in Debts \ {d} : Total(Parts', PaymentsOn(e)') = Total(Parts, PaymentsOn(e))
           /\ Total(Parts', PaymentsOn(d)')
                = Total(Parts, PaymentsOn(d)) + Parts'[p] - IF Live(p) THEN Parts[p] ELSE 0
<1>1. LivePayments' = LivePayments \cup {p}
  BY DEF LivePayments, Live
<1>2. IsFiniteSet(LivePayments')
  BY <1>1, FS_AddElement
<1>3. \A q \in Payments \ {p} : Parts'[q] = Parts[q]
  BY DEF Parts
<1>4. \A q \in Payments : Parts[q] \in Int /\ Parts'[q] \in Int
  <2>1. \A q \in Payments : payments'[q].split \in Breakdown
    BY DEF TypeOK, PaymentRow
  <2>2. \A q \in Payments : Parts'[q] \in Nat
    BY <2>1, PartsAreTyped DEF Parts
  <2> QED
    BY <2>2, PartsAreInts
<1>5. \A e \in Debts : IsFiniteSet(PaymentsOn(e))
  BY FS_Subset DEF PaymentsOn, LivePayments
<1>6. ASSUME NEW e \in Debts \ {d} PROVE Total(Parts', PaymentsOn(e)') = Total(Parts, PaymentsOn(e))
  <2>1. PaymentsOn(e)' = PaymentsOn(e) /\ p \notin PaymentsOn(e)
    BY DEF PaymentsOn, Live
  <2>2. \A q \in PaymentsOn(e) : Parts[q] = Parts'[q]
    BY <1>3, <2>1 DEF PaymentsOn
  <2>3. Total(Parts, PaymentsOn(e)) = Total(Parts', PaymentsOn(e))
    BY <1>5, <2>2, TotalOfSame
  <2> QED
    BY <2>1, <2>3
<1>7. PaymentsOn(d)' = PaymentsOn(d) \cup {p} /\ (p \in PaymentsOn(d) <=> Live(p))
  BY DEF PaymentsOn, Live
<1>8. /\ \A q \in PaymentsOn(d) \ {p} : Parts[q] = Parts'[q]
      /\ \A q \in PaymentsOn(d) \cup {p} : Parts[q] \in Int /\ Parts'[q] \in Int
  BY <1>3, <1>4 DEF PaymentsOn
<1>9. Total(Parts, PaymentsOn(d)) \in Int
  BY <1>5, <1>8, TotalIsInt
<1>10. CASE Live(p)
  <2>1. PaymentsOn(d)' = PaymentsOn(d) /\ p \in PaymentsOn(d)
    BY <1>7, <1>10
  <2>2. Total(Parts', PaymentsOn(d)) = Total(Parts, PaymentsOn(d)) - Parts[p] + Parts'[p]
    BY <1>5, <1>8, <2>1, TotalMoves
  <2>3. Total(Parts, PaymentsOn(d)) - Parts[p] + Parts'[p]
          = Total(Parts, PaymentsOn(d)) + Parts'[p] - Parts[p]
    BY <1>4, <1>9
  <2> QED
    BY <1>2, <1>6, <1>10, <2>1, <2>2, <2>3
<1>11. CASE ~Live(p)
  <2>1. Total(Parts', PaymentsOn(d) \cup {p}) = Total(Parts, PaymentsOn(d)) + Parts'[p]
    <3>1. p \notin PaymentsOn(d) /\ \A q \in PaymentsOn(d) : Parts[q] = Parts'[q]
      BY <1>7, <1>8, <1>11
    <3>2. Parts'[p] \in Int /\ \A q \in PaymentsOn(d) : Parts'[q] \in Int
      BY <1>8
    <3>3. IsFiniteSet(PaymentsOn(d))
      BY <1>5
    <3> QED
      BY <3>1, <3>2, <3>3, TotalGains
  <2>2. Total(Parts, PaymentsOn(d)) + Parts'[p] = Total(Parts, PaymentsOn(d)) + Parts'[p] - 0
    BY <1>4, <1>9
  <2> QED
    BY <1>2, <1>6, <1>7, <1>11, <2>1, <2>2
<1> QED
  BY <1>10, <1>11

LEMMA PaymentStruck ==
    ASSUME TypeOK, IsFiniteSet(LivePayments), NEW p \in Payments, NEW d \in Debts,
           \A q \in Payments \ {p} : payments'[q] = payments[q],
           payments'[p].state # "LIVE", Live(p), payments[p].debt = d
    PROVE  /\ IsFiniteSet(LivePayments')
           /\ \A e \in Debts \ {d} : Total(Parts', PaymentsOn(e)') = Total(Parts, PaymentsOn(e))
           /\ Total(Parts', PaymentsOn(d)') = Total(Parts, PaymentsOn(d)) - Parts[p]
<1>1. IsFiniteSet(LivePayments')
  <2>1. LivePayments' \subseteq LivePayments
    BY DEF LivePayments, Live
  <2> QED
    BY <2>1, FS_Subset
<1>2. \A q \in Payments \ {p} : Parts'[q] = Parts[q]
  BY DEF Parts
<1>3. \A q \in Payments : Parts[q] \in Int
  BY PartsAreInts
<1>4. \A e \in Debts : IsFiniteSet(PaymentsOn(e))
  BY FS_Subset DEF PaymentsOn, LivePayments
<1>5. \A e \in Debts : PaymentsOn(e)' = PaymentsOn(e) \ {p} /\ PaymentsOn(e) \subseteq Payments
  BY DEF PaymentsOn, Live
<1>6. ASSUME NEW e \in Debts PROVE Total(Parts', PaymentsOn(e)') = Total(Parts, PaymentsOn(e) \ {p})
  <2>1. \A q \in PaymentsOn(e) \ {p} : Parts[q] = Parts'[q]
    BY <1>2, <1>5
  <2>2. IsFiniteSet(PaymentsOn(e) \ {p})
    BY <1>4, FS_Subset
  <2>3. Total(Parts, PaymentsOn(e) \ {p}) = Total(Parts', PaymentsOn(e) \ {p})
    BY <2>1, <2>2, TotalOfSame
  <2> QED
    BY <1>5, <2>3
<1>7. \A e \in Debts \ {d} : PaymentsOn(e) \ {p} = PaymentsOn(e)
  BY DEF PaymentsOn
<1>8. p \in PaymentsOn(d) /\ \A q \in PaymentsOn(d) : Parts[q] \in Int
  BY <1>3, <1>5 DEF PaymentsOn
<1>9. Total(Parts, PaymentsOn(d)) = Parts[p] + Total(Parts, PaymentsOn(d) \ {p})
  BY <1>4, <1>8, TotalTakes
<1>10. Total(Parts, PaymentsOn(d) \ {p}) \in Int /\ Parts[p] \in Int
  BY <1>4, <1>8, FS_Subset, TotalIsInt
<1> QED
  BY <1>1, <1>6, <1>7, <1>9, <1>10

\* A commit on one debt keeps the other debts' books.
LEMMA OthersBalance ==
    ASSUME CloseInv, NEW d \in Debts,
           \A e \in Debts \ {d} : /\ debts'[e] = debts[e] /\ paid'[e] = paid[e]
                                  /\ charged'[e] = charged[e] /\ edits'[e] = edits[e]
    PROVE  \A e \in Debts \ {d} : Exists(e)' => Balanced(e)'
BY DEF CloseInv, Balanced, Exists

\* A payment commit moves what a debt owes and what its payments record by the same amount,
\* but for the cent two halves are rounded to.
LEMMA PaymentsBalance ==
    ASSUME TypeOK, CloseInv, NEW d \in Debts, Exists(d), NEW gain \in 0..HalfCent,
           TotalDue(debts'[d].owed) + paid'[d] = TotalDue(debts[d].owed) + paid[d] + gain,
           TotalDue(debts'[d].owed) + paid'[d] \in Int,
           charged'[d] = charged[d], edits'[d] = edits[d] + 1 \/ (edits'[d] = edits[d] /\ gain = 0)
    PROVE  Balanced(d)'
<1>1. charged[d] \in Int /\ edits[d] \in Nat /\ paid[d] \in Int /\ HalfCent \in Nat
  BY AllocationAssumption DEF TypeOK, HalfCent
<1>2. TotalDue(debts[d].owed) \in Nat
  BY DueIsMoney DEF TypeOK, DebtRow
<1> DEFINE booked == TotalDue(debts[d].owed) + paid[d]
           bookedNext == TotalDue(debts'[d].owed) + paid'[d]
<1>3. booked \in Int /\ charged[d] <= booked /\ booked <= charged[d] + HalfCent * edits[d]
  BY <1>1, <1>2 DEF CloseInv, Balanced
<1>4. bookedNext = booked + gain
  OBVIOUS
<1> HIDE DEF booked, bookedNext
<1>5. charged[d] <= bookedNext
  BY <1>1, <1>3, <1>4
<1>6. bookedNext <= charged[d] + HalfCent * edits'[d]
  <2> PICK h \in Nat, n \in Nat, c \in Int : h = HalfCent /\ n = edits[d] /\ c = charged[d]
    BY <1>1
  <2>1. gain \in Nat /\ gain <= h
    BY <1>1
  <2>2. h * (n + 1) = h * n + h /\ h * n \in Nat
    BY Z3
  <2>3. booked + gain <= c + (h * n + h)
    BY <1>3, <2>1, <2>2
  <2>4. CASE edits'[d] = n + 1
    BY <1>4, <2>2, <2>3, <2>4
  <2>5. CASE edits'[d] = n /\ gain = 0
    <3>1. bookedNext = booked
      BY <1>3, <1>4, <2>5
    <3> QED
      BY <1>3, <2>5, <3>1
  <2> QED
    BY <2>4, <2>5
<1> QED
  BY <1>5, <1>6 DEF Balanced, bookedNext

LEMMA SettlingWrites ==
    ASSUME TypeOK, NEW d, Exists(d), NEW seen, NEW owed, NEW paidOff,
           SettleDebt(d, seen, owed, paidOff)
    PROVE  /\ debts'[d].owed = owed
           /\ \A e \in Debts \ {d} : debts'[e] = debts[e]
           /\ \A e : Exists(e)' <=> Exists(e)
<1>1. d \in Debts
  BY DEF Exists
<1>2. debts'[d].owed = owed /\ debts'[d].status \in Statuses
  BY <1>1, StatusIsTyped DEF SettleDebt, TypeOK, DebtRow
<1>3. \A e \in Debts \ {d} : debts'[e] = debts[e]
  BY DEF SettleDebt, TypeOK
<1> QED
  BY <1>1, <1>2, <1>3 DEF Exists

\* What a commit that writes a payment's row leaves: the sums are kept, and the debt balances.
LEMMA WrittenBalances ==
    ASSUME TypeOK, TypeOK', CloseInv, NEW d \in Debts, NEW p \in Payments, Exists(d),
           \A q \in Payments \ {p} : payments'[q] = payments[q],
           payments'[p].state = "LIVE", payments'[p].debt = d, Live(p) => payments[p].debt = d,
           NEW parts \in Nat, parts = PartsOf(payments'[p].split),
           NEW old \in Nat, IF Live(p) THEN old = PartsOf(payments[p].split) ELSE old = 0,
           \A e : Exists(e)' <=> Exists(e), \A e \in Debts \ {d} : debts'[e] = debts[e],
           NEW gain \in 0..HalfCent,
           TotalDue(debts'[d].owed) = TotalDue(debts[d].owed) + old - parts + gain,
           paid'[d] = paid[d] - old + parts, \A e \in Debts \ {d} : paid'[e] = paid[e],
           charged' = charged, edits' = [edits EXCEPT ![d] = @ + 1]
    PROVE  CloseInv'
<1>1. /\ paid \in [Debts -> Int] /\ edits \in [Debts -> Nat] /\ charged \in [Debts -> Int]
      /\ HalfCent \in Nat
  BY AllocationAssumption DEF TypeOK, HalfCent
<1>2. Parts'[p] = parts /\ (IF Live(p) THEN Parts[p] ELSE 0) = old
  BY DEF Parts
<1>3. /\ IsFiniteSet(LivePayments')
      /\ \A e \in Debts \ {d} : Total(Parts', PaymentsOn(e)') = Total(Parts, PaymentsOn(e))
      /\ Total(Parts', PaymentsOn(d)')
           = Total(Parts, PaymentsOn(d)) + Parts'[p] - IF Live(p) THEN Parts[p] ELSE 0
  BY PaymentWritten DEF CloseInv
<1>4. paid'[d] = paid[d] - old + parts /\ \A e \in Debts \ {d} : paid'[e] = paid[e]
  OBVIOUS
<1>5. \A e \in Debts : paid'[e] = Total(Parts', PaymentsOn(e)')
  <2>1. paid[d] + parts - old = paid[d] - old + parts
    BY <1>1
  <2> QED
    BY <1>2, <1>3, <1>4, <2>1 DEF CloseInv
<1>6. \A q \in Payments : Live(q)' => Exists(payments[q].debt)'
  BY DEF CloseInv, Live
<1>7. \A e \in Debts : Exists(e)' => Balanced(e)'
  <2>1. TotalDue(debts[d].owed) \in Nat
    BY DueIsMoney DEF TypeOK, DebtRow
  <2>2. TotalDue(debts'[d].owed) + paid'[d] = TotalDue(debts[d].owed) + paid[d] + gain
    BY <1>1, <1>4, <2>1
  <2>3. TotalDue(debts'[d].owed) + paid'[d] \in Int
    BY <1>1, <2>1, <2>2
  <2>4. charged'[d] = charged[d] /\ edits'[d] = edits[d] + 1
    BY <1>1
  <2>5. Balanced(d)'
    BY <2>2, <2>3, <2>4, PaymentsBalance
  <2>6. \A e \in Debts \ {d} : charged'[e] = charged[e] /\ edits'[e] = edits[e]
    BY <1>1
  <2>7. \A e \in Debts \ {d} : Exists(e)' => Balanced(e)'
    BY <1>4, <2>6, OthersBalance
  <2> QED
    BY <2>5, <2>7
<1> QED
  BY <1>3, <1>5, <1>6, <1>7 DEF CloseInv

LEMMA CreateBalances ==
    ASSUME BookInv, TypeOK', CloseInv, WholeInputs, NEW r \in Requests, CommitCreatePayment(r)
    PROVE  CloseInv'
<1> PICK d \in Debts, in \in PaymentInputs : d = req[r].debt /\ in = req[r].in
  BY DEF CommitCreatePayment, At, BookInv, ReadsTheRows, Exists
<1>1. Exists(d) /\ req[r].seen = debts[d] /\ TypeOK /\ RowsKept
  BY DEF CommitCreatePayment, At, BookInv, ReadsTheRows, PaymentOps
<1> PICK o \in Owed : o = debts[d].owed
  BY <1>1 DEF TypeOK, DebtRow
<1> DEFINE split == BreakdownOf(o, in)
<1>2. WholeOwed(o) /\ in \in PaymentInput /\ WholeInput(in)
  BY <1>1, FormsAreTyped DEF RowsKept, WholeInputs
<1>3. PICK gain \in 0..HalfCent :
        TotalDue(OwedAfter(o, in)) = TotalDue(o) - PartsOf(split) + gain
  BY <1>2, PaymentsMove
<1>4. PICK paidOff : SettleDebt(d, req[r].seen, OwedAfter(o, in), paidOff)
  BY <1>1 DEF CommitCreatePayment
<1>5. PICK p \in FreshPayments :
        payments' = [payments EXCEPT ![p] = [state |-> "LIVE", debt |-> d, split |-> split]]
  BY <1>1 DEF CommitCreatePayment
<1>6. /\ paid' = [paid EXCEPT ![d] = @ + PartsOf(split)]
      /\ edits' = [edits EXCEPT ![d] = @ + 1] /\ charged' = charged
  BY <1>1 DEF CommitCreatePayment
<1>7. split \in Breakdown /\ PartsOf(split) \in Nat /\ TotalDue(o) \in Nat
  BY <1>2, AllocationTypes, PartsAreTyped, DueIsMoney
<1> HIDE DEF split
<1>8. /\ p \in Payments /\ ~Live(p) /\ \A q \in Payments \ {p} : payments'[q] = payments[q]
      /\ payments'[p].state = "LIVE" /\ payments'[p].debt = d /\ payments'[p].split = split
  BY <1>1, <1>5 DEF FreshPayments, Live, TypeOK
<1>9. /\ debts'[d].owed = OwedAfter(o, in) /\ \A e : Exists(e)' <=> Exists(e)
      /\ \A e \in Debts \ {d} : debts'[e] = debts[e]
  BY <1>1, <1>4, SettlingWrites
<1>10. PICK parts \in Nat, old \in Nat : parts = PartsOf(split) /\ old = 0
  BY <1>7
<1>11. TotalDue(debts'[d].owed) = TotalDue(debts[d].owed) + old - parts + gain
  BY <1>3, <1>7, <1>9, <1>10
<1>12. paid'[d] = paid[d] - old + parts /\ \A e \in Debts \ {d} : paid'[e] = paid[e]
  BY <1>1, <1>6, <1>10 DEF TypeOK
<1>13. parts = PartsOf(payments'[p].split) /\ IF Live(p) THEN old = PartsOf(payments[p].split) ELSE old = 0
  BY <1>8, <1>10
<1> QED
  BY <1>1, <1>6, <1>8, <1>9, <1>11, <1>12, <1>13, WrittenBalances, ZenonT(60)

LEMMA AmendBalances ==
    ASSUME BookInv, TypeOK', CloseInv, WholeInputs, NEW r \in Requests, CommitUpdatePayment(r)
    PROVE  CloseInv'
<1> PICK d \in Debts, p \in Payments, in \in PaymentInputs :
       d = req[r].debt /\ p = req[r].payment /\ in = req[r].in
  BY DEF CommitUpdatePayment, At, BookInv, ReadsTheRows, Exists, Live
<1>1. /\ Exists(d) /\ Live(p) /\ req[r].seen = debts[d] /\ req[r].seenPayment = payments[p]
      /\ payments[p].debt = d /\ TypeOK /\ RowsKept
  BY DEF CommitUpdatePayment, At, BookInv, ReadsTheRows, PaymentOps
<1> PICK o \in Owed, old \in Breakdown : o = debts[d].owed /\ old = payments[p].split
  BY <1>1 DEF TypeOK, DebtRow, PaymentRow
<1> PICK base \in Owed : base = Reverted(o, old)
  BY RevertedTypes
<1> DEFINE split == BreakdownOf(base, in)
<1>2. /\ WholeOwed(o) /\ WholeSplit(old) /\ in \in PaymentInput /\ WholeInput(in)
  BY <1>1, FormsAreTyped DEF RowsKept, KeptRow, WholeInputs
<1>3. /\ WholeOwed(base) /\ TotalDue(base) = TotalDue(o) + PartsOf(old)
      /\ TotalDue(o) \in Nat /\ PartsOf(old) \in Nat
  BY <1>2, RevertedMoves, DueIsMoney, PartsAreTyped
<1>4. PICK gain \in 0..HalfCent :
        TotalDue(OwedAfter(base, in)) = TotalDue(base) - PartsOf(split) + gain
  BY <1>2, <1>3, PaymentsMove
<1>5. split \in Breakdown /\ PartsOf(split) \in Nat
  BY <1>2, AllocationTypes, PartsAreTyped
<1>6. PICK paidOff : SettleDebt(d, req[r].seen, OwedAfter(base, in), paidOff)
  BY <1>1 DEF CommitUpdatePayment, WithoutPayment
<1>7. /\ payments' = [payments EXCEPT ![p].split = split]
      /\ paid' = [paid EXCEPT ![d] = @ - PartsOf(payments[p].split) + PartsOf(split)]
      /\ edits' = [edits EXCEPT ![d] = @ + 1] /\ charged' = charged
  BY <1>1 DEF CommitUpdatePayment, WithoutPayment
<1> HIDE DEF split
<1>8. /\ \A q \in Payments \ {p} : payments'[q] = payments[q]
      /\ payments'[p].state = "LIVE" /\ payments'[p].debt = d /\ payments'[p].split = split
  BY <1>1, <1>7 DEF Live, TypeOK, PaymentRow
<1>9. /\ debts'[d].owed = OwedAfter(base, in) /\ \A e : Exists(e)' <=> Exists(e)
      /\ \A e \in Debts \ {d} : debts'[e] = debts[e]
  BY <1>1, <1>6, SettlingWrites
<1>10. PICK parts \in Nat, was \in Nat : parts = PartsOf(split) /\ was = PartsOf(old)
  BY <1>3, <1>5
<1>11. TotalDue(debts'[d].owed) = TotalDue(debts[d].owed) + was - parts + gain
  BY <1>3, <1>4, <1>9, <1>10
<1>12. paid'[d] = paid[d] - was + parts /\ \A e \in Debts \ {d} : paid'[e] = paid[e]
  BY <1>1, <1>7, <1>10 DEF TypeOK
<1>13. parts = PartsOf(payments'[p].split) /\ IF Live(p) THEN was = PartsOf(payments[p].split) ELSE was = 0
  BY <1>1, <1>8, <1>10
<1>14. /\ p \in Payments /\ d \in Debts /\ Exists(d) /\ TypeOK
       /\ Live(p) => payments[p].debt = d
  BY <1>1
<1>15. edits' = [edits EXCEPT ![d] = @ + 1] /\ charged' = charged
  BY <1>7
<1> QED
  BY <1>8, <1>9, <1>11, <1>12, <1>13, <1>14, <1>15, WrittenBalances, ZenonT(60)

LEMMA CancelBalances ==
    ASSUME BookInv, TypeOK', CloseInv, NEW r \in Requests, CommitDeletePayment(r)
    PROVE  CloseInv'
<1> PICK d \in Debts, p \in Payments : d = req[r].debt /\ p = req[r].payment
  BY DEF CommitDeletePayment, Exists, Live
<1>1. /\ Exists(d) /\ Live(p) /\ req[r].seen = debts[d] /\ req[r].seenPayment = payments[p]
      /\ payments[p].debt = d /\ TypeOK /\ RowsKept
  BY DEF CommitDeletePayment, At, BookInv, ReadsTheRows, PaymentOps
<1> PICK o \in Owed, old \in Breakdown : o = debts[d].owed /\ old = payments[p].split
  BY <1>1 DEF TypeOK, DebtRow, PaymentRow
<1>2. PICK paidOff : SettleDebt(d, req[r].seen, Reverted(o, old), paidOff)
  BY <1>1 DEF CommitDeletePayment, WithoutPayment
<1>3. /\ TotalDue(Reverted(o, old)) = TotalDue(o) + PartsOf(old)
      /\ TotalDue(o) \in Nat /\ PartsOf(old) \in Nat
  BY <1>1, RevertedMoves, DueIsMoney, PartsAreTyped DEF RowsKept, KeptRow
<1>4. /\ payments' = [payments EXCEPT ![p] = [NoPayment EXCEPT !.state = "GONE"]]
      /\ paid' = [paid EXCEPT ![d] = @ - PartsOf(payments[p].split)]
      /\ edits' = edits /\ charged' = charged
  BY DEF CommitDeletePayment, RemovePayment
<1>5. /\ \A q \in Payments \ {p} : payments'[q] = payments[q]
      /\ payments'[p].state # "LIVE"
  BY <1>1, <1>4 DEF TypeOK, NoPayment
<1>6. /\ debts'[d].owed = Reverted(o, old) /\ \A e : Exists(e)' <=> Exists(e)
      /\ \A e \in Debts \ {d} : debts'[e] = debts[e]
  BY <1>1, <1>2, SettlingWrites
<1>7. /\ IsFiniteSet(LivePayments')
      /\ \A e \in Debts \ {d} : Total(Parts', PaymentsOn(e)') = Total(Parts, PaymentsOn(e))
      /\ Total(Parts', PaymentsOn(d)') = Total(Parts, PaymentsOn(d)) - Parts[p]
  BY <1>1, <1>5, PaymentStruck DEF CloseInv
<1>8. paid \in [Debts -> Int]
  BY <1>1 DEF TypeOK
<1>9. paid'[d] = paid[d] - PartsOf(old) /\ \A e \in Debts \ {d} : paid'[e] = paid[e]
  BY <1>4, <1>8
<1>10. \A e \in Debts : paid'[e] = Total(Parts', PaymentsOn(e)')
  <2>1. Parts[p] = PartsOf(old)
    BY DEF Parts
  <2> QED
    BY <1>7, <1>9, <2>1 DEF CloseInv
<1>11. \A q \in Payments : Live(q)' => Exists(payments[q].debt)'
  BY <1>5, <1>6 DEF CloseInv, Live
<1>12. \A e \in Debts : Exists(e)' => Balanced(e)'
  <2>1. 0 \in 0..HalfCent
    BY AllocationAssumption DEF HalfCent
  <2>2. TotalDue(debts'[d].owed) + paid'[d] = TotalDue(debts[d].owed) + paid[d] + 0
    BY <1>3, <1>6, <1>8, <1>9
  <2>3. TotalDue(debts'[d].owed) + paid'[d] \in Int
    BY <1>3, <1>6, <1>8, <1>9
  <2>4. Balanced(d)'
    BY <1>1, <1>4, <2>1, <2>2, <2>3, PaymentsBalance
  <2>5. \A e \in Debts \ {d} : Exists(e)' => Balanced(e)'
    BY <1>4, <1>6, <1>9, OthersBalance
  <2> QED
    BY <2>4, <2>5
<1> QED
  BY <1>7, <1>10, <1>11, <1>12 DEF CloseInv

\* What the owner declares is what the debt then owes, beside what its payments record.
LEMMA DeclaredBalances ==
    ASSUME TypeOK', NEW d \in Debts, charged'[d] = TotalDue(debts'[d].owed) + paid'[d]
    PROVE  Balanced(d)'
<1>1. charged'[d] \in Int /\ edits'[d] \in Nat /\ HalfCent \in Nat
  BY AllocationAssumption DEF TypeOK, HalfCent
<1>2. HalfCent * edits'[d] \in Nat
  <2> PICK h \in Nat, n \in Nat : h = HalfCent /\ n = edits'[d]
    BY <1>1
  <2>1. h * n \in Nat
    BY Z3
  <2> QED
    BY <2>1
<1>3. charged'[d] <= charged'[d] + HalfCent * edits'[d]
  BY <1>1, <1>2
<1> QED
  BY <1>1, <1>3 DEF Balanced

LEMMA FreshDebtsOweNothing ==
    ASSUME CloseInv, NEW d \in Debts, ~Exists(d) PROVE paid[d] = 0
<1>1. PaymentsOn(d) = {}
  BY DEF CloseInv, PaymentsOn
<1> QED
  BY <1>1, TotalOfNone DEF CloseInv

LEMMA DeclaringBalances ==
    ASSUME TypeOK, TypeOK', CloseInv, UNCHANGED <<payments, paid, edits>>,
           \A d \in Debts : Exists(d) => Exists(d)',
           \A d \in Debts : \/ debts'[d] = debts[d] /\ charged'[d] = charged[d]
                            \/ charged'[d] = TotalDue(debts'[d].owed) + paid[d]
    PROVE  CloseInv'
<1>1. LivePayments' = LivePayments /\ Parts' = Parts
  BY DEF LivePayments, Live, Parts
<1>2. \A d \in Debts : PaymentsOn(d)' = PaymentsOn(d)
  BY DEF PaymentsOn, Live
<1>3. \A d \in Debts : paid'[d] = Total(Parts', PaymentsOn(d)')
  BY <1>1, <1>2 DEF CloseInv
<1>4. \A p \in Payments : Live(p)' => Exists(payments[p].debt)'
  <2> SUFFICES ASSUME NEW p \in Payments, Live(p)' PROVE Exists(payments[p].debt)'
    OBVIOUS
  <2>1. Exists(payments[p].debt) /\ payments'[p].debt = payments[p].debt
    BY DEF CloseInv, Live
  <2>2. payments[p].debt \in Debts
    BY <2>1 DEF Exists
  <2> QED
    BY <2>1, <2>2
<1>5. ASSUME NEW d \in Debts, Exists(d)' PROVE Balanced(d)'
  <2>1. CASE debts'[d] = debts[d] /\ charged'[d] = charged[d]
    BY <1>5, <2>1 DEF CloseInv, Balanced, Exists
  <2>2. CASE charged'[d] = TotalDue(debts'[d].owed) + paid[d]
    BY <2>2, DeclaredBalances
  <2> QED
    BY <2>1, <2>2
<1> QED
  BY <1>1, <1>3, <1>4, <1>5 DEF CloseInv

LEMMA OwnersBalance ==
    ASSUME BookInv, TypeOK', CloseInv, NEW r \in Requests,
           CommitCreateDebt(r) \/ CommitUpdateDebt(r) \/ CommitOnboarding(r)
    PROVE  CloseInv'
<1>1. TypeOK /\ CarriesARow(r) /\ UNCHANGED <<payments, paid, edits>>
  BY DEF BookInv, CommitCreateDebt, CommitUpdateDebt, CommitOnboarding
<1>2. charged \in [Debts -> Int] /\ debts \in [Debts -> DebtRow] /\ paid \in [Debts -> Int]
  BY <1>1 DEF TypeOK
<1>3. CASE CommitCreateDebt(r)
  <2>1. PICK d \in FreshDebts : /\ debts' = [debts EXCEPT ![d] = req[r].next]
                                /\ charged' = [charged EXCEPT ![d] = TotalDue(req[r].next.owed)]
    BY <1>3 DEF CommitCreateDebt
  <2>2. d \in Debts /\ ~Exists(d) /\ paid[d] = 0
    BY <2>1, FreshDebtsOweNothing DEF FreshDebts, Exists, Statuses
  <2>3. req[r].next.owed \in Owed
    BY <1>1 DEF TypeOK, Request, DebtRow
  <2>4. charged'[d] = TotalDue(debts'[d].owed) + paid[d]
    BY <1>2, <2>1, <2>2, <2>3, DueIsMoney
  <2>5. \A e \in Debts \ {d} : debts'[e] = debts[e] /\ charged'[e] = charged[e]
    BY <1>2, <2>1
  <2>6. \A e \in Debts : Exists(e) => Exists(e)'
    BY <2>2, <2>5 DEF Exists
  <2> QED
    BY <1>1, <2>4, <2>5, <2>6, DeclaringBalances
<1>4. CASE CommitUpdateDebt(r)
  <2> PICK d \in Debts : d = req[r].debt
    BY <1>4 DEF CommitUpdateDebt, Exists
  <2>1. /\ debts' = [debts EXCEPT ![d] = req[r].next]
        /\ charged' = [charged EXCEPT ![d] = TotalDue(req[r].next.owed) + paid[d]]
    BY <1>4 DEF CommitUpdateDebt
  <2>2. req[r].next.status \in Statuses
    BY <1>1, <1>4 DEF CommitUpdateDebt, At, CarriesARow
  <2>3. charged'[d] = TotalDue(debts'[d].owed) + paid[d]
    BY <1>2, <2>1
  <2>4. \A e \in Debts \ {d} : debts'[e] = debts[e] /\ charged'[e] = charged[e]
    BY <1>2, <2>1
  <2>5. \A e \in Debts : Exists(e) => Exists(e)'
    BY <1>2, <2>1, <2>2, <2>4 DEF Exists
  <2> QED
    BY <1>1, <2>3, <2>4, <2>5, DeclaringBalances
<1>5. CASE CommitOnboarding(r)
  <2>1. PICK new \in SUBSET FreshDebts, b \in OpeningBalances :
          /\ debts' = [e \in Debts |->
                         IF e \in new
                         THEN [NoDebt EXCEPT !.status = "CURRENT", !.owed.balance = ToCents(b)]
                         ELSE debts[e]]
          /\ charged' = [e \in Debts |-> IF e \in new THEN ToCents(b) ELSE charged[e]]
    BY <1>5 DEF CommitOnboarding
  <2> DEFINE row == [NoDebt EXCEPT !.status = "CURRENT", !.owed.balance = ToCents(b)]
  <2>2. TotalDue(row.owed) = ToCents(b) /\ ToCents(b) \in Nat
    <3>1. row.owed.balance = ToCents(b) /\ row.owed.late = 0 /\ row.owed.extra = 0
      BY DEF NoDebt
    <3>2. b \in Nat /\ ToCents(b) \in Nat
      BY LedgerAssumption, RoundingBounds
    <3> QED
      BY <3>1, <3>2 DEF TotalDue
  <2>3. \A e \in Debts : /\ debts'[e] = IF e \in new THEN row ELSE debts[e]
                         /\ charged'[e] = IF e \in new THEN ToCents(b) ELSE charged[e]
    BY <2>1
  <2> HIDE DEF row
  <2>4. \A e \in new : e \in Debts /\ ~Exists(e)
    BY DEF FreshDebts, Exists, Statuses
  <2>5. \A e \in new : paid[e] = 0
    BY <2>4, FreshDebtsOweNothing
  <2>6. \A e \in Debts : \/ debts'[e] = debts[e] /\ charged'[e] = charged[e]
                         \/ charged'[e] = TotalDue(debts'[e].owed) + paid[e]
    BY <2>2, <2>3, <2>5
  <2>7. \A e \in Debts : Exists(e) => Exists(e)'
    BY <2>3, <2>4 DEF Exists
  <2> QED
    BY <1>1, <2>6, <2>7, DeclaringBalances
<1> QED
  BY <1>3, <1>4, <1>5

\* A debt takes its payments with it.
LEMMA StrikeBalances ==
    ASSUME BookInv, TypeOK', CloseInv, NEW r \in Requests, CommitDeleteDebt(r)
    PROVE  CloseInv'
<1> PICK d \in Debts : d = req[r].debt
  BY DEF CommitDeleteDebt, Exists
<1>1. TypeOK
  BY DEF BookInv
<1> DEFINE noDebt == [NoDebt EXCEPT !.status = "GONE"]
           noPayment == [NoPayment EXCEPT !.state = "GONE"]
<1>2. /\ debts' = [debts EXCEPT ![d] = noDebt]
      /\ payments' = [p \in Payments |-> IF Live(p) /\ payments[p].debt = d
                                         THEN noPayment ELSE payments[p]]
      /\ charged' = [charged EXCEPT ![d] = 0] /\ paid' = [paid EXCEPT ![d] = 0]
      /\ edits' = edits
  BY DEF CommitDeleteDebt
<1>3. noDebt.status \notin Statuses /\ noPayment.state # "LIVE"
  BY DEF NoDebt, NoPayment, Statuses
<1> HIDE DEF noDebt, noPayment
<1>4. \A p \in Payments : /\ Live(p)' <=> Live(p) /\ payments[p].debt # d
                          /\ Live(p)' => payments'[p] = payments[p]
  BY <1>2, <1>3 DEF Live
<1>5. /\ ~Exists(d)' /\ paid'[d] = 0
      /\ \A e \in Debts \ {d} : /\ debts'[e] = debts[e] /\ paid'[e] = paid[e]
                                /\ charged'[e] = charged[e] /\ edits'[e] = edits[e]
  BY <1>1, <1>2, <1>3 DEF TypeOK, Exists
<1>6. IsFiniteSet(LivePayments')
  <2>1. LivePayments' \subseteq LivePayments
    BY <1>4 DEF LivePayments, Live
  <2> QED
    BY <2>1, FS_Subset DEF CloseInv
<1>7. PaymentsOn(d)' = {} /\ \A e \in Debts \ {d} : PaymentsOn(e)' = PaymentsOn(e)
  BY <1>4 DEF PaymentsOn, Live
<1>8. ASSUME NEW e \in Debts PROVE paid'[e] = Total(Parts', PaymentsOn(e)')
  <2>1. CASE e = d
    BY <1>5, <1>7, <2>1, TotalOfNone
  <2>2. CASE e # d
    <3>1. IsFiniteSet(PaymentsOn(e))
      BY FS_Subset DEF PaymentsOn, LivePayments, CloseInv
    <3>2. \A p \in PaymentsOn(e) : Parts[p] = Parts'[p]
      BY <1>4, <2>2 DEF PaymentsOn, Parts
    <3>3. Total(Parts, PaymentsOn(e)) = Total(Parts', PaymentsOn(e))
      BY <3>1, <3>2, TotalOfSame
    <3> QED
      BY <1>5, <1>7, <2>2, <3>3 DEF CloseInv
  <2> QED
    BY <2>1, <2>2
<1>9. \A p \in Payments : Live(p)' => Exists(payments[p].debt)'
  <2> SUFFICES ASSUME NEW p \in Payments, Live(p)' PROVE Exists(payments[p].debt)'
    OBVIOUS
  <2>1. Live(p) /\ payments[p].debt # d /\ payments'[p].debt = payments[p].debt
    BY <1>4
  <2>2. Exists(payments[p].debt)
    BY <2>1 DEF CloseInv
  <2> QED
    BY <1>5, <2>1, <2>2 DEF Exists
<1>10. \A e \in Debts : Exists(e)' => Balanced(e)'
  BY <1>5, OthersBalance
<1> QED
  BY <1>6, <1>8, <1>9, <1>10 DEF CloseInv

LEMMA StepsKeepTheBooks ==
    ASSUME WholeInputs, BookInv, TypeOK', CloseInv, [Next]_vars
    PROVE  CloseInv'
<1>1. ASSUME UNCHANGED <<debts, payments, paid, charged, edits>> PROVE CloseInv'
  BY <1>1 DEF CloseInv, LivePayments, PaymentsOn, Parts, Live, Exists, Balanced
<1>2. ASSUME NEW r \in Requests, Commits(r) PROVE CloseInv'
  <2>1. CASE CommitFails(r)
    BY <1>1, <2>1 DEF CommitFails, stores, history
  <2> QED
    BY <1>2, <2>1, CreateBalances, AmendBalances, CancelBalances, OwnersBalance, StrikeBalances
       DEF Commits
<1>3. ASSUME NEW r \in Requests, Reads(r) PROVE UNCHANGED <<debts, payments, paid, charged, edits>>
  BY <1>3 DEF Reads, ReadForCreatePayment, ReadPayment, ReadPaymentsDebt, PrepareDebt,
              ReadForUpdateDebt, CheckLimit, ReadForDeleteDebt, ReadOnboarded, stores, history
<1>4. ASSUME NEW r \in Requests, WriteAudit(r) \/ SumDebts(r) \/ SaveSnapshot(r) \/ Crash(r)
      PROVE  UNCHANGED <<debts, payments, paid, charged, edits>>
  BY <1>4 DEF WriteAudit, SumDebts, SaveSnapshot, Crash, stores, history
<1>5. Tick \/ ChangePlan \/ UNCHANGED vars => UNCHANGED <<debts, payments, paid, charged, edits>>
  BY DEF Tick, ChangePlan, stores, history, vars
<1>6. (\E r \in Requests : Commits(r)) \/ UNCHANGED <<debts, payments, paid, charged, edits>>
  BY <1>3, <1>4, <1>5 DEF Next
<1> QED
  BY <1>1, <1>2, <1>6

\* Requests that have the ledger to themselves close the books: what a debt owes and what
\* its live payments record add up to what the user has declared, up to a cent for each
\* payment recorded or edited, whatever requests are cut short.
THEOREM BooksAreClosed == ASSUME Alone, WholeInputs PROVE Spec => []BooksClose
<1>1. Init => BookInv /\ CloseInv
  <2> SUFFICES ASSUME Init PROVE BookInv /\ CloseInv
    OBVIOUS
  <2>1. TypeOK
    BY InitTyped
  <2>2. RowsKept
    BY NullRowsAreWhole DEF Init, RowsKept, KeptRow
  <2>3. \A r \in Requests : CarriesARow(r) /\ CarriesCents(r) /\ ReadsTheRows(r)
    BY DEF Init, Idle, CarriesARow, CarriesCents, ReadsTheRows
  <2>4. LivePayments = {} /\ \A d \in Debts : PaymentsOn(d) = {} /\ paid[d] = 0 /\ ~Exists(d)
    BY DEF Init, LivePayments, PaymentsOn, Live, NoPayment, Exists, NoDebt, Statuses
  <2>5. CloseInv
    BY <2>4, FS_EmptySet, TotalOfNone DEF CloseInv, LivePayments
  <2> QED
    BY <2>1, <2>2, <2>3, <2>5 DEF BookInv
<1>2. BookInv /\ CloseInv /\ TypeOK' /\ [Next]_vars => BookInv' /\ CloseInv'
  BY StepsKeepTheBook, StepsKeepTheBooks
<1>3. CloseInv => BooksClose
  <2> SUFFICES ASSUME CloseInv, NEW d \in Debts, Exists(d)
               PROVE  LET booked == TotalDue(debts[d].owed) + Recorded(d)
                      IN  charged[d] <= booked /\ booked <= charged[d] + HalfCent * edits[d]
    BY DEF BooksClose
  <2>1. Recorded(d) = paid[d]
    BY RecordedIsTotal DEF CloseInv
  <2> QED
    BY <2>1 DEF CloseInv, Balanced
<1> QED
  BY TypeCorrect, <1>1, <1>2, <1>3, PTL DEF Spec
================================================================================
