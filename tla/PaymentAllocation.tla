-------------------------- MODULE PaymentAllocation --------------------------
(***************************************************************************)
(* How one payment is split over a debt, and how it is taken back.         *)
(*                                                                         *)
(* Money is an integer number of units, Cent of them to a cent: the code   *)
(* computes with exact decimals and rounds to cents when it stores, so the *)
(* fractions of a cent that an interest estimate (or an input) carries     *)
(* need units of their own.  RateNum / RateDen is the debt's monthly rate. *)
(***************************************************************************)
EXTENDS Integers

CONSTANTS Cent, RateNum, RateDen

ASSUME AllocationAssumption ==
    /\ Cent \in Nat \ {0}
    /\ RateNum \in Nat
    /\ RateDen \in Nat \ {0}

\* An optional field of the input that the client left out.
Omitted == -1
OptionalMoney == Nat \cup {Omitted}

\* The three amounts of a debt that payments change.
Owed == [balance: Nat, late: Nat, extra: Nat]

PaymentInput == [amount: Nat, principal: OptionalMoney, interest: OptionalMoney,
                 late: OptionalMoney, extra: OptionalMoney]

Lesser(a, b) == IF a <= b THEN a ELSE b
Asked(field) == IF field = Omitted THEN 0 ELSE field

\* What paymentSchema lets through: the explicit split fits in the amount.
ValidInput(in) ==
    Asked(in.principal) + Asked(in.interest) + Asked(in.late) + Asked(in.extra)
        <= in.amount

\* toDecimalPlaces(2), rounding a half up.
ToCents(x) == Cent * ((2 * x + Cent) \div (2 * Cent))

TotalDue(o) == o.balance + o.late + o.extra

-----------------------------------------------------------------------------
(* Late fees first, then extra charges, then interest, and the rest is     *)
(* principal.  `left` is what the earlier parts leave of the amount.       *)

Part(asked, most, left) ==
    IF asked = Omitted THEN Lesser(most, left) ELSE Lesser(asked, Lesser(most, left))

LatePart(o, in) == Part(in.late, o.late, in.amount)

ExtraPart(o, in) == Part(in.extra, o.extra, in.amount - LatePart(o, in))

AfterCharges(o, in) == in.amount - LatePart(o, in) - ExtraPart(o, in)

MonthlyInterest(o) == (o.balance * RateNum) \div RateDen

InterestPart(o, in) ==
    IF in.interest = Omitted
    THEN Lesser(Lesser(o.balance, MonthlyInterest(o)), AfterCharges(o, in))
    ELSE Lesser(in.interest, Lesser(o.balance, AfterCharges(o, in)))

PrincipalPart(o, in) ==
    LET most   == o.balance - InterestPart(o, in)
        left   == AfterCharges(o, in) - InterestPart(o, in)
        wanted == Part(in.principal, most, left)
    IN  wanted + Lesser(most - wanted, left - wanted)

Unplaced(o, in) == AfterCharges(o, in) - InterestPart(o, in) - PrincipalPart(o, in)

\* A cent of overpayment is tolerated, twice: against the total and at the end.
Rejection(o, in) ==
    CASE in.amount <= 0                  -> "PAYMENT_INVALID"
      [] in.amount > TotalDue(o) + Cent  -> "PAYMENT_EXCEEDS_BALANCE"
      [] OTHER -> IF Unplaced(o, in) > Cent THEN "PAYMENT_ALLOCATION_INVALID" ELSE "none"

\* Mutant: the interest part is not taken off the balance.
Rest_KeepsInterest(o, in) ==
    [balance |-> o.balance - PrincipalPart(o, in), late |-> o.late - LatePart(o, in),
     extra |-> o.extra - ExtraPart(o, in)]

\* What is left of the debt before anything is rounded.
Rest(o, in) ==
    [balance |-> o.balance - PrincipalPart(o, in) - InterestPart(o, in),
     late    |-> o.late - LatePart(o, in),
     extra   |-> o.extra - ExtraPart(o, in)]

\* breakdown.debtState: each amount is rounded on its own.
OwedAfter(o, in) ==
    [balance |-> ToCents(Rest(o, in).balance),
     late    |-> ToCents(Rest(o, in).late),
     extra   |-> ToCents(Rest(o, in).extra)]

\* breakdown.remainingBalanceAfter: the sum is rounded.
RemainingAfter(o, in) == ToCents(TotalDue(Rest(o, in)))

-----------------------------------------------------------------------------
(* The columns of a payment row, and taking a stored payment back.         *)

Breakdown == [amount: Nat, principal: Nat, interest: Nat, late: Nat, extra: Nat,
              remaining: Nat]

BreakdownOf(o, in) ==
    [amount    |-> ToCents(in.amount),
     principal |-> ToCents(PrincipalPart(o, in)),
     interest  |-> ToCents(InterestPart(o, in)),
     late      |-> ToCents(LatePart(o, in)),
     extra     |-> ToCents(ExtraPart(o, in)),
     remaining |-> RemainingAfter(o, in)]

PartsOf(b) == b.principal + b.interest + b.late + b.extra

\* Mutant: only the principal comes back.
Reverted_PrincipalOnly(o, b) ==
    [balance |-> o.balance + b.principal, late |-> o.late + b.late,
     extra |-> o.extra + b.extra]

\* Mutant: the payment is taken off once more.
Reverted_Again(o, b) ==
    [balance |-> o.balance - b.principal - b.interest, late |-> o.late - b.late,
     extra |-> o.extra - b.extra]

Reverted(o, b) ==
    [balance |-> o.balance + b.principal + b.interest,
     late    |-> o.late + b.late,
     extra   |-> o.extra + b.extra]
=============================================================================
