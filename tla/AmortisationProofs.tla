-------------------------- MODULE AmortisationProofs --------------------------
(***************************************************************************)
(* Paying more never hurts, and a schedule loses no cent: for every form,  *)
(* every rate, every horizon and every plan.                               *)
(***************************************************************************)
EXTENDS Amortisation, TLAPS

RunState == [balance : Nat, paid : Nat, interest : Nat, periods : Nat, outcome : Outcomes]

\* A schedule that was opened pays its interest every period.
Sound(s) ==
    /\ run[s].balance <= form.principal
    /\ Payment(s) > HalfUp(form.principal * form.rate, RateDen)
    /\ run[s].outcome = "running" => run[s].balance > 0

\* Ahead, strengthened: t is in force only while s is, at the same period.
Leads(t, s) ==
    /\ run[t].outcome \notin Refused
    /\ run[t].outcome \in {"running", "too_long"} =>
         run[s].outcome = run[t].outcome /\ run[s].periods = run[t].periods
    /\ Ahead(t, s)

Rivals == {<<"BASE", "EXTRA">>, <<"EXTRA", "AGGRESSIVE">>}

IInv == /\ TypeOK
        /\ ScheduleConserves
        /\ \A s \in Scenarios : run[s].outcome \notin Refused => Sound(s)
        /\ \A p \in Rivals : run[p[1]].outcome \notin Refused => Leads(p[2], p[1])
        /\ shown.saved >= 0

LEMMA HalfUpBounds ==
    ASSUME NEW a \in Nat, NEW d \in Nat \ {0}
    PROVE  HalfUp(a, d) \in Nat
BY Z3 DEF HalfUp

LEMMA HalfUpGrows ==
    ASSUME NEW a \in Nat, NEW b \in Nat, a <= b, NEW d \in Nat \ {0}
    PROVE  HalfUp(a, d) <= HalfUp(b, d)
BY Z3 DEF HalfUp

LEMMA ProductGrows ==
    ASSUME NEW a \in Nat, NEW b \in Nat, a <= b, NEW r \in Nat
    PROVE  a * r \in Nat /\ b * r \in Nat /\ a * r <= b * r
BY Z3

\* The interest of a period grows with what is owed.
LEMMA InterestGrows ==
    ASSUME NEW a \in Nat, NEW b \in Nat, a <= b, NEW r \in Nat
    PROVE  /\ HalfUp(a * r, RateDen) \in Nat
           /\ HalfUp(a * r, RateDen) <= HalfUp(b * r, RateDen)
<1>1. a * r \in Nat /\ b * r \in Nat /\ a * r <= b * r
  BY ProductGrows
<1>2. RateDen \in Nat \ {0}
  BY AmortisationAssumption
<1> QED
  BY <1>1, <1>2, HalfUpBounds, HalfUpGrows

\* Each scenario pays at least what the one before it pays.
LEMMA PaymentsGrow ==
    ASSUME form \in Form
    PROVE  /\ \A s \in Scenarios : Payment(s) \in Nat
           /\ Payment("BASE") <= Payment("EXTRA")
           /\ Payment("EXTRA") <= Payment("AGGRESSIVE")
<1>1. form.payment \in Nat /\ form.extra \in Nat
  BY DEF Form
<1>2. HalfUp(form.payment, 2) \in Nat /\ 2 * HalfUp(form.payment, 2) >= form.payment
  BY <1>1, Z3 DEF HalfUp
<1>3. Payment("BASE") = form.payment /\ Payment("EXTRA") = form.payment + form.extra
  BY DEF Payment
<1>4. Payment("AGGRESSIVE") =
        form.payment + (IF 4 * form.extra >= form.payment THEN 2 * form.extra
                        ELSE HalfUp(form.payment, 2))
  BY DEF Payment
<1>5. Payment("AGGRESSIVE") \in Nat /\ Payment("EXTRA") <= Payment("AGGRESSIVE")
  BY <1>1, <1>2, <1>3, <1>4
<1> QED
  BY <1>1, <1>3, <1>5 DEF Scenarios

LEMMA OpeningTyped ==
    ASSUME NEW f \in Form, NEW pay \in Nat PROVE Opening(f, pay) \in RunState
BY DEF Opening, RunState, Form, Outcomes

LEMMA OpeningFields ==
    ASSUME NEW f, NEW pay
    PROVE  LET r == Opening(f, pay) IN
           /\ r.balance = f.principal /\ r.paid = 0 /\ r.interest = 0 /\ r.periods = 0
           /\ r.outcome = IF f.principal = 0 \/ pay = 0 THEN "invalid"
                          ELSE IF f.rate > 0 /\ pay <= HalfUp(f.principal * f.rate, RateDen)
                               THEN "below_interest" ELSE "running"
BY DEF Opening

LEMMA InitHolds == Init => IInv
<1> SUFFICES ASSUME Init PROVE IInv
  OBVIOUS
<1>1. form \in Form /\ form.principal \in Nat /\ form.rate \in Nat
  BY AmortisationAssumption DEF Init, Form
<1>2. \A s \in Scenarios : run[s] = Opening(form, Payment(s)) /\ Payment(s) \in Nat
  BY <1>1, PaymentsGrow DEF Init
<1>3. run \in [Scenarios -> RunState]
  BY <1>1, <1>2, OpeningTyped DEF Init
<1>4. TypeOK
  BY <1>1, <1>3 DEF TypeOK, RunState, Init, Nothing
<1>f. \A s \in Scenarios :
        /\ run[s].balance = form.principal /\ run[s].paid = 0
        /\ run[s].interest = 0 /\ run[s].periods = 0
  BY <1>2, OpeningFields
<1>5. ScheduleConserves
  BY <1>1, <1>f DEF ScheduleConserves
<1> DEFINE first == HalfUp(form.principal * form.rate, RateDen)
<1>6. first \in Nat /\ (form.rate = 0 => first = 0)
  <2>1. RateDen \in Nat \ {0}
    BY AmortisationAssumption
  <2>2. form.rate = 0 => form.principal * form.rate = 0
    BY <1>1
  <2>3. HalfUp(0, RateDen) = 0
    BY <2>1, Z3 DEF HalfUp
  <2> QED
    BY <1>1, <2>2, <2>3, InterestGrows
<1>o. \A s \in Scenarios :
        run[s].outcome = IF form.principal = 0 \/ Payment(s) = 0 THEN "invalid"
                         ELSE IF form.rate > 0 /\ Payment(s) <= first
                              THEN "below_interest" ELSE "running"
  BY <1>2, OpeningFields
<1> HIDE DEF first
<1>7. \A s \in Scenarios : run[s].outcome \notin Refused =>
         run[s].outcome = "running" /\ form.principal > 0 /\ Payment(s) > first
  BY <1>1, <1>2, <1>6, <1>o DEF Refused
<1>8. \A s \in Scenarios : form.principal > 0 /\ Payment(s) > first => run[s].outcome = "running"
  BY <1>1, <1>2, <1>6, <1>o
<1>9. \A s \in Scenarios : run[s].outcome \notin Refused => Sound(s)
  BY <1>1, <1>f, <1>7 DEF Sound, first
<1>10. \A p \in Rivals : run[p[1]].outcome \notin Refused => Leads(p[2], p[1])
  <2> SUFFICES ASSUME NEW p \in Rivals, run[p[1]].outcome \notin Refused
               PROVE  Leads(p[2], p[1])
    OBVIOUS
  <2>1. p[1] \in Scenarios /\ p[2] \in Scenarios /\ Payment(p[1]) <= Payment(p[2])
    BY <1>1, PaymentsGrow DEF Rivals, Scenarios
  <2>2. run[p[1]].outcome = "running" /\ run[p[2]].outcome = "running"
    BY <1>2, <1>6, <1>7, <1>8, <2>1
  <2> QED
    BY <1>1, <1>f, <2>1, <2>2 DEF Leads, Ahead, Refused
<1> QED
  BY <1>4, <1>5, <1>9, <1>10 DEF IInv, Init, Nothing

\* One period of one schedule that was opened: it is paid its interest, its balance
\* falls, and it is done when what is left is dust.
LEMMA PeriodPays ==
    ASSUME form \in Form, NEW r \in RunState, NEW pay \in Nat, r.outcome = "running",
           r.balance > 0, r.balance <= form.principal,
           pay > HalfUp(form.principal * form.rate, RateDen)
    PROVE  LET int == HalfUp(r.balance * form.rate, RateDen)
               due == r.balance + int
               left == IF pay <= due THEN due - pay ELSE 0
           IN  /\ int \in Nat /\ left \in Nat /\ left < r.balance
               /\ Period(r, pay) =
                    IF r.periods >= MaxPeriods THEN [r EXCEPT !.outcome = "too_long"]
                    ELSE [balance |-> left, paid |-> r.paid + due - left,
                          interest |-> r.interest + int, periods |-> r.periods + 1,
                          outcome |-> IF left <= Dust THEN "feasible" ELSE "running"]
<1>1. /\ r.balance \in Nat /\ r.paid \in Nat /\ r.interest \in Nat /\ r.periods \in Nat
      /\ form.principal \in Nat /\ form.rate \in Nat
  BY DEF RunState, Form
<1> DEFINE int == HalfUp(r.balance * form.rate, RateDen)
           due == r.balance + int
           actual == IF pay <= due THEN pay ELSE due
           left == IF pay <= due THEN due - pay ELSE 0
<1>2. int \in Nat /\ int <= HalfUp(form.principal * form.rate, RateDen)
  BY <1>1, InterestGrows
<1>3. HalfUp(form.principal * form.rate, RateDen) \in Nat
  BY <1>1, InterestGrows
<1> HIDE DEF int
<1>4. /\ ~(actual <= int) /\ left \in Nat /\ left < r.balance
      /\ due - actual = left /\ r.paid + actual = r.paid + due - left
  BY <1>1, <1>2, <1>3
<1>5. Period(r, pay) =
        IF r.periods >= MaxPeriods THEN [r EXCEPT !.outcome = "too_long"]
        ELSE IF actual <= int THEN [r EXCEPT !.outcome = "below_interest"]
        ELSE [balance |-> due - actual, paid |-> r.paid + actual,
              interest |-> r.interest + int, periods |-> r.periods + 1,
              outcome |-> IF due - actual <= Dust THEN "feasible" ELSE "running"]
  BY DEF Period, InterestOn, int
<1> HIDE DEF actual, left, due
<1>6. Period(r, pay) =
        IF r.periods >= MaxPeriods THEN [r EXCEPT !.outcome = "too_long"]
        ELSE [balance |-> left, paid |-> r.paid + due - left,
              interest |-> r.interest + int, periods |-> r.periods + 1,
              outcome |-> IF left <= Dust THEN "feasible" ELSE "running"]
  BY <1>4, <1>5
<1> QED
  BY <1>2, <1>4, <1>6 DEF int, due, left

\* What a period does to any schedule, the refused and the decided ones included.
LEMMA PeriodHolds ==
    ASSUME IInv, NextPeriod, NEW s \in Scenarios
    PROVE  /\ run'[s] \in RunState
           /\ form.principal + run'[s].interest = run'[s].paid + run'[s].balance
           /\ run[s].outcome # "running" => run'[s] = run[s]
           /\ run'[s].outcome \notin Refused => run[s].outcome \notin Refused
           /\ run[s].outcome \notin Refused =>
                run'[s].outcome \notin Refused /\ Sound(s)'
<1> DEFINE r == run[s]
           q == run'[s]
<1>1. r \in RunState /\ form \in Form /\ Payment(s) \in Nat /\ form' = form
  BY PaymentsGrow DEF IInv, TypeOK, RunState, NextPeriod
<1>2. q = Period(r, Payment(s))
  BY DEF NextPeriod
<1>3. Payment(s)' = Payment(s)
  BY <1>1 DEF Payment
<1>4. form.principal + r.interest = r.paid + r.balance
  BY DEF IInv, ScheduleConserves
<1>5. CASE r.outcome # "running"
  <2>1. q = r
    BY <1>2, <1>5 DEF Period
  <2>2. r.outcome \notin Refused => Sound(s)
    BY DEF IInv
  <2>3. Sound(s) => Sound(s)'
    BY <1>1, <1>3, <2>1 DEF Sound
  <2> QED
    BY <1>1, <1>4, <1>5, <2>1, <2>2, <2>3
<1>6. CASE r.outcome = "running"
  <2>1. Sound(s)
    BY <1>6 DEF IInv, Refused
  <2>2. /\ r.balance > 0 /\ r.balance <= form.principal
        /\ Payment(s) > HalfUp(form.principal * form.rate, RateDen)
    BY <1>6, <2>1 DEF Sound
  <2> DEFINE int == HalfUp(r.balance * form.rate, RateDen)
             due == r.balance + int
             left == IF Payment(s) <= due THEN due - Payment(s) ELSE 0
             paying == [balance |-> left, paid |-> r.paid + due - left,
                        interest |-> r.interest + int, periods |-> r.periods + 1,
                        outcome |-> IF left <= Dust THEN "feasible" ELSE "running"]
  <2>3. /\ int \in Nat /\ left \in Nat /\ left < r.balance
        /\ q = IF r.periods >= MaxPeriods THEN [r EXCEPT !.outcome = "too_long"] ELSE paying
    BY <1>1, <1>2, <1>6, <2>2, PeriodPays
  <2>4. /\ r.balance \in Nat /\ r.paid \in Nat /\ r.interest \in Nat /\ r.periods \in Nat
        /\ form.principal \in Nat
    BY <1>1 DEF RunState, Form
  <2> HIDE DEF int, left
  <2>5. CASE r.periods >= MaxPeriods
    <3>1. q = [r EXCEPT !.outcome = "too_long"]
      BY <2>3, <2>5
    <3>2. /\ q \in RunState /\ q.balance = r.balance /\ q.interest = r.interest
          /\ q.paid = r.paid /\ q.outcome = "too_long"
      BY <1>1, <3>1 DEF RunState, Outcomes
    <3>3. Sound(s)'
      BY <1>1, <1>3, <2>2, <3>2 DEF Sound
    <3> QED
      BY <1>4, <1>6, <3>2, <3>3 DEF Refused
  <2>6. CASE ~(r.periods >= MaxPeriods)
    <3>1. q = paying
      BY <2>3, <2>6
    <3>2. /\ q.balance = left /\ q.interest = r.interest + int
          /\ q.paid = r.paid + due - left /\ q.outcome \in {"feasible", "running"}
          /\ q.outcome = "running" => left > Dust
      BY <2>3, <2>4, <3>1, AmortisationAssumption
    <3>3. q \in RunState
      <4>1. r.paid + due - left \in Nat /\ r.interest + int \in Nat /\ r.periods + 1 \in Nat
        BY <2>3, <2>4
      <4> QED
        BY <2>3, <3>1, <4>1 DEF RunState, Outcomes
    <3>4. form.principal + q.interest = q.paid + q.balance
      BY <1>4, <2>3, <2>4, <3>2
    <3>5. Sound(s)'
      BY <1>1, <1>3, <2>2, <2>3, <2>4, <3>2, AmortisationAssumption DEF Sound
    <3> QED
      BY <1>6, <3>2, <3>3, <3>4, <3>5 DEF Refused
  <2> QED
    BY <2>5, <2>6
<1> QED
  BY <1>5, <1>6

\* Two schedules of the same form, the second paying no less: the lead is kept.
LEMMA LeadIsKept ==
    ASSUME IInv, NextPeriod, NEW s \in Scenarios, NEW t \in Scenarios,
           Payment(s) <= Payment(t), run[s].outcome \notin Refused, Leads(t, s)
    PROVE  Leads(t, s)'
<1> DEFINE S == run[s]
           T == run[t]
<1>1. /\ S \in RunState /\ T \in RunState /\ run'[s] \in RunState /\ run'[t] \in RunState
      /\ form \in Form /\ Payment(s) \in Nat /\ Payment(t) \in Nat
  BY PaymentsGrow, PeriodHolds DEF IInv, TypeOK, RunState
<1>2. T.outcome \notin Refused /\ run'[t].outcome \notin Refused
  BY PeriodHolds DEF Leads
<1>3. run' = [x \in Scenarios |-> Period(run[x], Payment(x))]
  BY DEF NextPeriod
<1>4. S.outcome # "running" => run'[s] = S
  BY PeriodHolds
<1>5. T.outcome # "running" => run'[t] = T
  BY PeriodHolds
<1>6. Sound(s) /\ Sound(t)
  BY <1>2 DEF IInv
<1> DEFINE int(x) == HalfUp(run[x].balance * form.rate, RateDen)
           due(x) == run[x].balance + int(x)
           left(x) == IF Payment(x) <= due(x) THEN due(x) - Payment(x) ELSE 0
<1>7. \A x \in {s, t} : run[x].outcome = "running" =>
        /\ int(x) \in Nat /\ left(x) \in Nat /\ left(x) < run[x].balance
        /\ run'[x] = IF run[x].periods >= MaxPeriods THEN [run[x] EXCEPT !.outcome = "too_long"]
                     ELSE [balance |-> left(x), paid |-> run[x].paid + due(x) - left(x),
                           interest |-> run[x].interest + int(x), periods |-> run[x].periods + 1,
                           outcome |-> IF left(x) <= Dust THEN "feasible" ELSE "running"]
  BY <1>1, <1>3, <1>6, PeriodPays DEF Sound
<1>8. /\ S.balance \in Nat /\ S.interest \in Nat /\ S.periods \in Nat
      /\ T.balance \in Nat /\ T.interest \in Nat /\ T.periods \in Nat
      /\ form.rate \in Nat
  BY <1>1 DEF RunState, Form
<1>9. /\ T.outcome \in {"running", "too_long"} => S.outcome = T.outcome /\ S.periods = T.periods
      /\ T.outcome = "feasible" \/ T.balance <= S.balance
      /\ T.interest <= S.interest /\ T.periods <= S.periods
  BY DEF Leads, Ahead
<1>10. CASE T.outcome = "running"
  <2>1. S.outcome = "running" /\ S.periods = T.periods /\ T.balance <= S.balance
    BY <1>9, <1>10
  <2>2. int(t) <= int(s) /\ int(s) \in Nat /\ int(t) \in Nat
    BY <1>7, <1>8, <1>10, <2>1, InterestGrows
  <2>3. left(t) <= left(s)
    BY <1>1, <1>8, <2>1, <2>2
  <2> HIDE DEF int, left
  <2>4. CASE T.periods >= MaxPeriods
    <3>1. run'[s] = [S EXCEPT !.outcome = "too_long"] /\ run'[t] = [T EXCEPT !.outcome = "too_long"]
      BY <1>7, <1>10, <2>1, <2>4
    <3> QED
      BY <1>1, <1>2, <1>9, <2>1, <3>1 DEF Leads, Ahead, RunState
  <2>5. CASE ~(T.periods >= MaxPeriods)
    <3>1. /\ run'[s].balance = left(s) /\ run'[t].balance = left(t)
          /\ run'[s].interest = S.interest + int(s) /\ run'[t].interest = T.interest + int(t)
          /\ run'[s].periods = S.periods + 1 /\ run'[t].periods = T.periods + 1
          /\ run'[s].outcome = IF left(s) <= Dust THEN "feasible" ELSE "running"
          /\ run'[t].outcome = IF left(t) <= Dust THEN "feasible" ELSE "running"
      BY <1>7, <1>10, <2>1, <2>5
    <3>2. left(s) \in Nat /\ left(t) \in Nat /\ Dust \in Nat
      BY <1>7, <1>10, <2>1, AmortisationAssumption
    <3> QED
      BY <1>2, <1>8, <1>9, <2>1, <2>2, <2>3, <3>1, <3>2 DEF Leads, Ahead
  <2> QED
    BY <2>4, <2>5
<1>11. CASE T.outcome # "running"
  <2>1. run'[t] = T
    BY <1>5, <1>11
  <2>2. T.outcome \in {"feasible", "too_long"}
    BY <1>1, <1>2, <1>11 DEF RunState, Outcomes, Refused
  <2>3. run'[s] = S \/ (S.outcome = "running" /\ T.outcome = "feasible")
    BY <1>4, <1>9, <2>2
  <2>4. S.outcome = "running" =>
          S.interest <= run'[s].interest /\ S.periods <= run'[s].periods
    <3>1. SUFFICES ASSUME S.outcome = "running"
                   PROVE  S.interest <= run'[s].interest /\ S.periods <= run'[s].periods
      OBVIOUS
    <3>2. int(s) \in Nat
      BY <1>7, <3>1
    <3> HIDE DEF int, left
    <3>3. CASE S.periods >= MaxPeriods
      BY <1>1, <1>7, <1>8, <3>1, <3>3 DEF RunState
    <3>4. CASE ~(S.periods >= MaxPeriods)
      BY <1>7, <1>8, <3>1, <3>2, <3>4
    <3> QED
      BY <3>3, <3>4
  <2>5. run'[s].interest \in Nat /\ run'[s].periods \in Nat
    BY <1>1 DEF RunState
  <2> QED
    BY <1>2, <1>8, <1>9, <2>1, <2>2, <2>3, <2>4, <2>5 DEF Leads, Ahead
<1> QED
  BY <1>10, <1>11

LEMMA StepHolds == IInv /\ [Next]_vars => IInv'
<1> SUFFICES ASSUME IInv, [Next]_vars PROVE IInv'
  OBVIOUS
<1>1. CASE NextPeriod
  <2>1. run' = [s \in Scenarios |-> Period(run[s], Payment(s))]
    BY <1>1 DEF NextPeriod
  <2>2. run' \in [Scenarios -> RunState]
    BY <1>1, <2>1, PeriodHolds
  <2>3. TypeOK'
    BY <1>1, <2>2 DEF IInv, TypeOK, RunState, NextPeriod
  <2>4. ScheduleConserves'
    <3>1. form' = form
      BY <1>1 DEF NextPeriod
    <3> QED
      BY <1>1, <3>1, PeriodHolds DEF ScheduleConserves
  <2>5. \A s \in Scenarios : run'[s].outcome \notin Refused => Sound(s)'
    BY <1>1, PeriodHolds
  <2>6. \A p \in Rivals : run'[p[1]].outcome \notin Refused => Leads(p[2], p[1])'
    <3> SUFFICES ASSUME NEW p \in Rivals, run'[p[1]].outcome \notin Refused
                 PROVE  Leads(p[2], p[1])'
      OBVIOUS
    <3>1. p[1] \in Scenarios /\ p[2] \in Scenarios /\ Payment(p[1]) <= Payment(p[2])
      BY PaymentsGrow DEF IInv, TypeOK, Rivals, Scenarios
    <3>2. run[p[1]].outcome \notin Refused
      BY <1>1, <3>1, PeriodHolds
    <3>3. Leads(p[2], p[1])
      BY <3>2 DEF IInv
    <3> QED
      BY <1>1, <3>1, <3>2, <3>3, LeadIsKept
  <2>7. shown'.saved >= 0
    BY <1>1 DEF IInv, NextPeriod
  <2> QED
    BY <2>3, <2>4, <2>5, <2>6, <2>7 DEF IInv
<1>2. CASE Show
  <2>1. PICK access \in Accesses : shown' = Filtered(access)
    BY <1>2 DEF Show
  <2>2. UNCHANGED <<form, run>>
    BY <1>2 DEF Show
  <2>3. InterestSaved \in Int /\ InterestSaved >= 0
    <3>1. run["BASE"].interest \in Nat /\ run["EXTRA"].interest \in Nat
      BY DEF IInv, TypeOK, Scenarios
    <3>2. Feasible("BASE") => run["EXTRA"].interest <= run["BASE"].interest
      <4>1. <<"BASE", "EXTRA">> \in Rivals
        BY DEF Rivals
      <4>2. Feasible("BASE") => Leads("EXTRA", "BASE")
        BY <4>1 DEF IInv, Feasible, Refused
      <4> QED
        BY <4>2 DEF Leads, Ahead
    <3> QED
      BY <3>1, <3>2 DEF InterestSaved
  <2>4. access \in Access
    BY AmortisationAssumption
  <2>5. shown'.saved \in Int /\ shown'.saved >= 0
    BY <2>1, <2>3, <2>4 DEF Filtered, Access
  <2>6. /\ shown'.recommended \in Scenarios \cup {"none"}
        /\ shown'.extra \in Scenarios \cup {"none"}
        /\ shown' = [recommended |-> shown'.recommended, extra |-> shown'.extra,
                     aggressive |-> shown'.aggressive, saved |-> shown'.saved]
    BY <2>1 DEF Filtered, Recommended, Scenarios
  <2>7. shown'.aggressive \in BOOLEAN
    <3>1. shown'.aggressive = (access.compare /\ access.extra /\ form.payment + form.extra > 0)
      BY <2>1 DEF Filtered
    <3>2. (access.compare /\ access.extra /\ form.payment + form.extra > 0) \in BOOLEAN
      BY Zenon
    <3> QED
      BY <3>1, <3>2, Zenon
  <2>8. TypeOK'
    BY <2>2, <2>5, <2>6, <2>7 DEF IInv, TypeOK
  <2>9. ScheduleConserves'
    BY <2>2 DEF IInv, ScheduleConserves
  <2>10. \A s \in Scenarios : run'[s].outcome \notin Refused => Sound(s)'
    BY <2>2 DEF IInv, Sound, Payment
  <2>11. \A p \in Rivals : run'[p[1]].outcome \notin Refused => Leads(p[2], p[1])'
    BY <2>2 DEF IInv, Leads, Ahead
  <2> QED
    BY <2>5, <2>8, <2>9, <2>10, <2>11 DEF IInv
<1>3. CASE UNCHANGED vars
  BY <1>3 DEF vars, IInv, TypeOK, ScheduleConserves, Sound, Payment, Leads, Ahead
<1> QED
  BY <1>1, <1>2, <1>3 DEF Next

LEMMA IInvImplies == IInv => TypeOK /\ ScheduleConserves /\ PayingMoreNeverHurts
<1> SUFFICES ASSUME IInv PROVE TypeOK /\ ScheduleConserves /\ PayingMoreNeverHurts
  OBVIOUS
<1>1. \A p \in Rivals : run[p[1]].outcome \notin Refused => Ahead(p[2], p[1])
  BY DEF IInv, Leads
<1>2. PayingMoreNeverHurts
  BY <1>1 DEF IInv, PayingMoreNeverHurts, Rivals
<1> QED
  BY <1>2 DEF IInv

\* For every form, rate and horizon, the amounts of every schedule are amounts,
\* the schedules close to the cent, and the saving shown for an extra payment is
\* a saving: a scenario that pays more is never behind (runFullSimulation).
THEOREM PayingMoreIsSafe == Spec => [](TypeOK /\ ScheduleConserves /\ PayingMoreNeverHurts)
<1>1. Init => IInv
  BY InitHolds
<1>2. IInv /\ [Next]_vars => IInv'
  BY StepHolds
<1>3. IInv => TypeOK /\ ScheduleConserves /\ PayingMoreNeverHurts
  BY IInvImplies
<1> QED
  BY <1>1, <1>2, <1>3, PTL DEF Spec
=============================================================================
