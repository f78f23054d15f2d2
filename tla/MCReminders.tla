------------------------------ MODULE MCReminders ------------------------------
(* Short months, and a day of three ticks of eight hours.                    *)
EXTENDS Reminders, TLC

\* A month of two days, another that is ahead of it, and the one the calendar ends with.
Calendar == <<0, 2, 4, 5>>

Card(statement, due) ==
    [statementDay |-> statement, dueDay |-> due, nextDueDate |-> NoDate, active |-> TRUE]
Loan(date) == [Card(NoDay, NoDay) EXCEPT !.nextDueDate = date]

Debts == {Card(3, NoDay), Card(NoDay, 1), Loan(2), [Loan(2) EXCEPT !.active = FALSE]}
LastDayCard == {Card(NoDay, 3)}

Told(hour, days) == [hour |-> hour, days |-> days, emails |-> TRUE]

\* In the morning, at noon; some reminders two days ahead.
Preferences == {Told(1, {0}), Told(2, {0, 2})}
SameDay == {Told(1, {0})}

Shuffle == Permutations(Runs)
=============================================================================
