------------------------------- MODULE Forms -------------------------------
(* The forms of the program and the schemas that read what they send.  Each   *)
(* rule is written twice in the code, once beside the field of the screen     *)
(* (react-hook-form) and once in src/lib/validations (zod), and nothing keeps *)
(* the two together.  A text is its length once it is trimmed, a sum of money *)
(* is an integer under MoneyCap, a day is a number, and the fields of a form  *)
(* take the values on both sides of every border of either rule.              *)
EXTENDS Integers

CONSTANTS Kinds,     \* the forms that are filled in
          MoneyCap,  \* 999,999,999 in the code
          MaxEdits   \* bound: the fields changed since the form was opened

VARIABLES kind,     \* the form on the screen
          capture,  \* the values of its fields, as the form holds them
          edits,
          answer    \* what became of the last submit

vars == <<kind, capture, edits, answer>>

Blank == -99        \* undefined: the field is left out of the body
NotNumber == -98    \* NaN: what a form makes of an emptied number, null in JSON
NoUrl == -1         \* a text that is not a URL
NoShape == -8       \* a password of eight characters without a digit

Answers == {"editing", "stopped", "refused", "accepted"}

-----------------------------------------------------------------------------
(* What each field may hold.  A field of the same name is the same field.     *)
Money == {0, 2, 3, MoneyCap, MoneyCap + 1}
Sums == Money \cup {-1}
Emptied == Sums \cup {NotNumber}
Lengths(max) == {0, 1, max, max + 1}
Passwords == {NoShape, 7, 8, 72, 73}

Values ==
  [debt |-> [name |-> Lengths(120), creditor |-> Lengths(120), card |-> {0, 1},
             balance |-> Sums, limit |-> {Blank, 0, 1, 2}, rate |-> {-1, 0, 999, 1000},
             minimum |-> Sums, statement |-> {Blank, 0, 1, 31, 32},
             due |-> {Blank, 0, 1, 31, 32}, late |-> {-1, 0, 1}, extra |-> {0, 1, MoneyCap + 1},
             notes |-> {Blank, 4000, 4001}, started |-> {Blank, 5}, ends |-> {Blank, 4, 5}],
   payment |-> [debt |-> {0, 1}, amount |-> Sums, principal |-> {Blank, -1, 0, 2},
                interest |-> {Blank, -1, 0, 1}, late |-> {Blank, 1, MoneyCap + 1},
                extra |-> {Blank, 0, 1}, paidAt |-> {Blank, 5}, notes |-> {Blank, 4000, 4001}],
   register |-> [first |-> {1, 2, 60, 61}, last |-> {1, 2, 60, 61}, email |-> {0, 1, 2},
                 password |-> Passwords, confirm |-> Passwords, legal |-> {0, 1}],
   login |-> [email |-> {0, 1, 2}, password |-> {0, 1}, totp |-> {0, 5, 6},
              recovery |-> {0, 7, 8, 20, 21}],
   reset |-> [token |-> {19, 20}, password |-> Passwords, confirm |-> Passwords],
   password |-> [current |-> {0, 1}, password |-> Passwords, confirm |-> Passwords],
   profile |-> [first |-> Lengths(80), last |-> Lengths(80),
                avatar |-> {Blank, NoUrl, 500, 501}],
   preferences |-> [rate |-> {NotNumber, -1, 0, 70, 100, 101},
                    balance |-> {NotNumber, -1, 0, 30, 100, 101}, budget |-> Emptied,
                    days |-> {0, 1, 3}, hour |-> {6, 22}, upcoming |-> {NotNumber, 0, 1, 30, 31},
                    timezone |-> Lengths(80)],
   onboarding |-> [income |-> Emptied, budget |-> Emptied, name |-> Lengths(80),
                   balance |-> Emptied, minimum |-> Emptied, rate |-> {Blank, -1, 0, 1000, 1001}],
   simulator |-> [fixed |-> {0, 1}, principal |-> Sums, rate |-> {-1, 0, 999, 1000},
                  payment |-> Sums, extra |-> {Blank, -1, 0, MoneyCap + 1}, start |-> {Blank, 5}]]

\* A form opens on nothing, or on what is stored.
Opened ==
  [debt |-> {[name |-> 0, creditor |-> 0, card |-> 1, balance |-> 0, limit |-> Blank, rate |-> 0,
              minimum |-> 0, statement |-> Blank, due |-> Blank, late |-> 0, extra |-> 0,
              notes |-> Blank, started |-> Blank, ends |-> Blank],
             [name |-> 1, creditor |-> 1, card |-> 1, balance |-> 3, limit |-> 2, rate |-> 999,
              minimum |-> 3, statement |-> 31, due |-> 1, late |-> 0, extra |-> 0,
              notes |-> Blank, started |-> 5, ends |-> 5]},
   payment |-> {[debt |-> 1, amount |-> 3, principal |-> 2, interest |-> 1, late |-> Blank,
                 extra |-> Blank, paidAt |-> 5, notes |-> Blank]},
   register |-> {[first |-> 2, last |-> 2, email |-> 2, password |-> 8, confirm |-> 8, legal |-> 1]},
   login |-> {[email |-> 0, password |-> 0, totp |-> 0, recovery |-> 0]},
   reset |-> {[token |-> 20, password |-> 72, confirm |-> 72]},
   password |-> {[current |-> 1, password |-> 8, confirm |-> 8]},
   profile |-> {[first |-> 1, last |-> 1, avatar |-> Blank]},
   preferences |-> {[rate |-> 70, balance |-> 30, budget |-> 0, days |-> 3, hour |-> 22,
                     upcoming |-> 1, timezone |-> 1]},
   onboarding |-> {[income |-> 2, budget |-> 2, name |-> 1, balance |-> 3, minimum |-> 2, rate |-> 0]},
   simulator |-> {[fixed |-> 0, principal |-> 3, rate |-> 0, payment |-> 2, extra |-> Blank,
                   start |-> 5]}]

-----------------------------------------------------------------------------
(* The rules beside the fields.                                               *)
OrZero(v) == IF v = Blank THEN 0 ELSE v

Amount(v) == v # NotNumber /\ v >= 0 /\ v <= MoneyCap
PositiveAmount(v) == Amount(v) /\ v > 0
Optional(ok, v) == v = Blank \/ ok
Written(length, max) == length >= 1 /\ length <= max
Day(v) == v >= 1 /\ v <= 31
Percent(v) == v # NotNumber /\ v >= 0 /\ v <= 100
EmailTyped(e) == e >= 1
PasswordTyped(p) == p # NoShape /\ p >= 8 /\ p <= 72

DebtScreen(c) ==
  /\ Written(c.name, 120) /\ Written(c.creditor, 120)
  /\ Amount(c.balance) /\ ~(c.limit # Blank /\ c.limit > 0 /\ 2 * c.balance > 3 * c.limit)
  /\ Optional(Amount(c.limit) /\ c.card = 1, c.limit)
  /\ c.rate >= 0 /\ c.rate <= 999
  /\ Amount(c.minimum) /\ c.minimum <= c.balance + c.late + c.extra
  /\ Optional(Day(c.statement) /\ c.card = 1, c.statement) /\ Optional(Day(c.due), c.due)
  /\ Amount(c.late) /\ Amount(c.extra) /\ c.notes <= 4000
  /\ c.ends = Blank \/ c.started = Blank \/ c.ends >= c.started

PaymentScreen(c) ==
  /\ c.debt >= 1 /\ Amount(c.amount)
  /\ OrZero(c.principal) + OrZero(c.interest) + OrZero(c.late) + OrZero(c.extra) <= c.amount
  /\ \A part \in {c.principal, c.interest, c.late, c.extra} : Optional(Amount(part), part)
  /\ c.paidAt # Blank /\ c.notes <= 4000

RegisterScreen(c) ==
  /\ \A name \in {c.first, c.last} : name >= 2 /\ name <= 60
  /\ EmailTyped(c.email) /\ PasswordTyped(c.password) /\ c.confirm = c.password /\ c.legal = 1

LoginScreen(c) == /\ EmailTyped(c.email) /\ c.password > 0 /\ c.totp \in {0, 6}
                  /\ c.recovery = 0 \/ (c.recovery >= 8 /\ c.recovery <= 20)

ResetScreen(c) == PasswordTyped(c.password) /\ c.confirm = c.password
PasswordScreen(c) == c.current > 0 /\ PasswordTyped(c.password) /\ c.confirm = c.password

ProfileScreen(c) == /\ Written(c.first, 80) /\ Written(c.last, 80)
                    /\ c.avatar # NoUrl

PreferencesScreen(c) ==
  /\ Percent(c.rate) /\ Percent(c.balance) /\ c.rate + c.balance = 100
  /\ Amount(c.budget) /\ c.hour >= 0 /\ c.hour <= 23
  /\ c.upcoming >= 1 /\ c.upcoming <= 30 /\ Written(c.timezone, 80)

OnboardingScreen(c) ==
  /\ PositiveAmount(c.income) /\ PositiveAmount(c.budget)
  /\ c.name >= 1
  /\ \A sum \in {c.balance, c.minimum} : sum # NotNumber /\ sum > 0
  /\ Optional(c.rate >= 0, c.rate)

SimulatorScreen(c) ==
  /\ PositiveAmount(c.principal) /\ PositiveAmount(c.payment) /\ Optional(Amount(c.extra), c.extra)
  /\ c.rate >= 0 /\ c.rate <= 999 /\ c.start # Blank

Screen(c) == CASE kind = "debt" -> DebtScreen(c)
               [] kind = "payment" -> PaymentScreen(c)
               [] kind = "register" -> RegisterScreen(c)
               [] kind = "login" -> LoginScreen(c)
               [] kind = "reset" -> ResetScreen(c)
               [] kind = "password" -> PasswordScreen(c)
               [] kind = "profile" -> ProfileScreen(c)
               [] kind = "preferences" -> PreferencesScreen(c)
               [] kind = "onboarding" -> OnboardingScreen(c)
               [] OTHER -> SimulatorScreen(c)

-----------------------------------------------------------------------------
(* The rules of the schemas.                                                  *)
moneySchema(v) == v \in 0 .. MoneyCap
moneyField(v) == v \in 1 .. MoneyCap
percentageSchema(v) == v \in 0 .. 999
normalizedText(length, max) == length \in 1 .. max
optionalLongText(length) == length = Blank \/ length \in 1 .. 4000
optionalDay(v) == v = Blank \/ v \in 1 .. 31
optionalMoney(v) == v \in {Blank, NotNumber} \/ moneySchema(v)
emailSchema(e) == e = 2
passwordSchema(p) == p \in 8 .. 72

\* As a slip would have it: the card is held to its limit and not to half more.
WithinLimit_Whole(c) == (c.limit # Blank /\ c.limit > 0) => c.balance <= c.limit
WithinLimit(c) == (c.limit # Blank /\ c.limit > 0) => 2 * c.balance <= 3 * c.limit

debtSchema(c) ==
  /\ normalizedText(c.name, 120) /\ normalizedText(c.creditor, 120)
  /\ \A sum \in {c.balance, c.minimum, c.late, c.extra} : moneySchema(sum)
  /\ optionalMoney(c.limit) /\ percentageSchema(c.rate)
  /\ optionalDay(c.statement) /\ optionalDay(c.due) /\ optionalLongText(c.notes)
  /\ (c.limit # Blank \/ c.statement # Blank) => c.card = 1
  /\ c.minimum <= c.balance + c.late + c.extra
  /\ WithinLimit(c)
  /\ (c.started # Blank /\ c.ends # Blank) => c.ends >= c.started

paymentSchema(c) ==
  /\ normalizedText(c.debt, 255) /\ moneySchema(c.amount)
  /\ \A part \in {c.principal, c.interest, c.late, c.extra} : optionalMoney(part)
  /\ c.paidAt # Blank /\ optionalLongText(c.notes)
  /\ OrZero(c.principal) + OrZero(c.interest) + OrZero(c.late) + OrZero(c.extra) <= c.amount

registerSchema(c) ==
  /\ c.first \in 2 .. 60 /\ c.last \in 2 .. 60 /\ emailSchema(c.email)
  /\ passwordSchema(c.password) /\ c.legal = 1 /\ c.password = c.confirm
loginSchema(c) == /\ emailSchema(c.email) /\ c.password >= 1
                  /\ c.totp \in {0, 6} /\ c.recovery <= 20
resetPasswordSchema(c) == c.token >= 20 /\ passwordSchema(c.password) /\ c.password = c.confirm
changePasswordSchema(c) == c.current >= 1 /\ passwordSchema(c.password) /\ c.password = c.confirm

profileSchema(c) == /\ normalizedText(c.first, 80) /\ normalizedText(c.last, 80)
                    /\ c.avatar = Blank \/ c.avatar \in 1 .. 500
preferencesSchema(c) ==
  /\ c.rate \in 0 .. 100 /\ c.balance \in 0 .. 100 /\ c.rate + c.balance = 100
  /\ moneySchema(c.budget) /\ c.days >= 1 /\ c.hour \in 0 .. 23 /\ c.upcoming \in 1 .. 30
  /\ normalizedText(c.timezone, 80)
onboardingSchema(c) ==
  /\ \A sum \in {c.income, c.budget, c.balance, c.minimum} : moneyField(sum)
  /\ c.name \in 1 .. 80 /\ (c.rate = Blank \/ c.rate \in 0 .. 1000)

\* The simulator answers in the browser: its schema is what the result needs.
parseSimulator(c) ==
  /\ moneyField(c.principal) /\ moneyField(c.payment) /\ optionalMoney(c.extra)
  /\ (IF c.fixed = 1 THEN 0 ELSE c.rate) \in 0 .. 999 /\ c.start # Blank

Schema(c) == CASE kind = "debt" -> debtSchema(c)
               [] kind = "payment" -> paymentSchema(c)
               [] kind = "register" -> registerSchema(c)
               [] kind = "login" -> loginSchema(c)
               [] kind = "reset" -> resetPasswordSchema(c)
               [] kind = "password" -> changePasswordSchema(c)
               [] kind = "profile" -> profileSchema(c)
               [] kind = "preferences" -> preferencesSchema(c)
               [] kind = "onboarding" -> onboardingSchema(c)
               [] OTHER -> parseSimulator(c)

-----------------------------------------------------------------------------
Init == /\ kind \in Kinds
        /\ capture \in Opened[kind]
        /\ edits = 0
        /\ answer = "editing"

\* The two fields of a card are emptied when the debt stops being one.
Settled(c) == IF kind = "debt" /\ c.card = 0
              THEN [c EXCEPT !.limit = Blank, !.statement = Blank] ELSE c

Edit == /\ edits < MaxEdits
        /\ \E field \in DOMAIN capture : \E v \in Values[kind][field] :
             /\ v # capture[field]
             /\ ~(kind = "debt" /\ capture.card = 0 /\ field \in {"limit", "statement"})
             /\ capture' = Settled([capture EXCEPT ![field] = v])
        /\ edits' = edits + 1
        /\ answer' = "editing"
        /\ UNCHANGED kind

Submit == /\ answer = "editing"
          /\ answer' = CASE ~Screen(capture) -> "stopped"
                         [] Screen(capture) /\ ~Schema(capture) -> "refused"
                         [] OTHER -> "accepted"
          /\ UNCHANGED <<kind, capture, edits>>

Next == Edit \/ Submit

Spec == Init /\ [][Next]_vars

-----------------------------------------------------------------------------
TypeOK == /\ kind \in Kinds /\ edits \in 0 .. MaxEdits /\ answer \in Answers
          /\ DOMAIN capture = DOMAIN Values[kind]
          /\ \A field \in DOMAIN capture :
               \/ capture[field] \in Values[kind][field]
               \/ \E c \in Opened[kind] : capture[field] = c[field]

\* What only the server notices: an address whose last part is one letter, an
\* avatar that is too long, no day chosen for the reminders, and, in the wizard,
\* a long name and amounts and rates without a bound.
OnlyTheServer(c) ==
  \/ kind \in {"register", "login"} /\ c.email = 1
  \/ kind = "reset" /\ c.token < 20
  \/ kind = "profile" /\ c.avatar = 501
  \/ kind = "preferences" /\ c.days = 0
  \/ kind = "onboarding" /\ \/ c.name > 80 \/ c.balance > MoneyCap
                            \/ c.minimum > MoneyCap \/ c.rate > 1000

\* What only the screen objects to: a recovery code of the wrong length and the
\* rate of a loan without interest.
OnlyTheScreen(c) == \/ kind = "login" /\ c.recovery = 7
                    \/ kind = "simulator" /\ c.fixed = 1

\* The two rules of a form agree but for the differences listed above: what the
\* screen lets through is accepted (a user is not refused after a form without
\* a message, src/lib/validations), and what it stops would have been refused
\* (no legitimate value is unreachable from the screen).
VerdictsAgree == /\ answer = "refused" => OnlyTheServer(capture)
                 /\ answer = "stopped" => OnlyTheScreen(capture) \/ ~Schema(capture)

=============================================================================
