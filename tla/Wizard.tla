------------------------------- MODULE Wizard -------------------------------
(* The onboarding wizard: five steps that gather an income, one to three      *)
(* debts and a budget, a preview computed by the server before the last step, *)
(* and the request that stores the whole.  Only the fields of the step on the *)
(* screen are validated, and only the buttons wait for a request: the fields  *)
(* do not, and a field that is alone on its step sends the form with Enter.   *)
EXTENDS Integers, Sequences, SequencesExt

CONSTANTS Incomes, Balances, Budgets,   \* what is typed, 0 for a field that is refused
          MoneyCap,  \* the sum from which only the server refuses
          MaxDebts,  \* ONBOARDING_MAX_DEBTS
          MaxEdits,  \* bound: fields changed while the wizard is open
          MaxPosts   \* bound: submits in flight together

VARIABLES step,
          draft,      \* the values of the form
          loading,    \* isLoadingPreview
          submitting, \* isSubmitting
          question,   \* the values a preview is asked for
          preview,    \* the values the preview on the screen was computed from
          posts,      \* the submits in flight, oldest first
          thrown,     \* a request has failed without an answer since the last reload
          slipped,    \* the budget was changed while the preview was computed
          stored,     \* what the server has stored, or Nothing
          edits

vars == <<step, draft, loading, submitting, question, preview, posts, thrown, slipped, stored, edits>>

Nothing == [income |-> 0, debts |-> <<>>, budget |-> 0]
Drafts == [income : Incomes \cup {0}, debts : SeqOf(Balances \cup {0}, MaxDebts),
           budget : Budgets \cup {0}]
defaultValues == [income |-> 0, debts |-> <<>>, budget |-> 0]

\* onboardingSchema, and what the fields of a step say: a sum in a debt has no bound.
Accepted(d) == /\ d.income \in 1 .. MoneyCap /\ d.budget \in 1 .. MoneyCap
               /\ Len(d.debts) \in 1 .. MaxDebts
               /\ \A i \in DOMAIN d.debts : d.debts[i] \in 1 .. MoneyCap
IncomeIsValid(d) == d.income \in 1 .. MoneyCap
DebtsAreValid(d) == d.debts # <<>> /\ \A i \in DOMAIN d.debts : d.debts[i] > 0
BudgetIsValid(d) == d.budget \in 1 .. MoneyCap
StepIsValid(d, s) == /\ s = 2 => IncomeIsValid(d)
                     /\ s = 3 => DebtsAreValid(d)
                     /\ s = 4 => BudgetIsValid(d)

Here == stored = Nothing
CanGoBack == step > 1 /\ ~submitting /\ ~loading
CanContinue == step < 5 /\ ~loading
CanSend == step = 5 /\ ~submitting /\ ~loading

-----------------------------------------------------------------------------
Init == /\ step = 1 /\ draft = defaultValues
        /\ loading = FALSE /\ submitting = FALSE
        /\ question = Nothing /\ preview = Nothing /\ posts = <<>>
        /\ thrown = FALSE /\ slipped = FALSE
        /\ stored = Nothing /\ edits = 0

Editing == /\ edits < MaxEdits /\ edits' = edits + 1
           /\ UNCHANGED <<step, loading, submitting, question, preview, posts, thrown, stored>>

TypeIncome == /\ step = 2 /\ \E v \in Incomes \cup {0} : draft' = [draft EXCEPT !.income = v]
              /\ Editing /\ UNCHANGED slipped
AddDebt == /\ step = 3 /\ Len(draft.debts) < MaxDebts
           /\ draft' = [draft EXCEPT !.debts = Append(@, 0)]
           /\ Editing /\ UNCHANGED slipped
TypeDebt == /\ step = 3
            /\ \E i \in DOMAIN draft.debts, v \in Balances \cup {0} :
                 draft' = [draft EXCEPT !.debts[i] = v]
            /\ Editing /\ UNCHANGED slipped
RemoveDebt == /\ step = 3
              /\ \E i \in DOMAIN draft.debts : draft' = [draft EXCEPT !.debts = RemoveAt(@, i)]
              /\ Editing /\ UNCHANGED slipped
TypeBudget == /\ step = 4 /\ \E v \in Budgets \cup {0} : draft' = [draft EXCEPT !.budget = v]
              /\ slipped' = (slipped \/ loading)
              /\ Editing

Continue == /\ CanContinue /\ step < 4 /\ StepIsValid(draft, step)
            /\ step' = step + 1
            /\ UNCHANGED <<draft, loading, submitting, question, preview, posts, thrown, slipped,
                           stored, edits>>

Back == /\ CanGoBack
        /\ step' = step - 1
        /\ UNCHANGED <<draft, loading, submitting, question, preview, posts, thrown, slipped,
                       stored, edits>>

AskPreview == /\ CanContinue /\ step = 4 /\ StepIsValid(draft, 4)
              /\ loading' = TRUE /\ question' = draft /\ slipped' = FALSE
              /\ UNCHANGED <<step, draft, submitting, preview, posts, thrown, stored, edits>>

PreviewArrives ==
  /\ loading /\ question # Nothing
  /\ IF Accepted(question) THEN preview' = question /\ step' = 5
                           ELSE UNCHANGED <<preview, step>>
  /\ loading' = FALSE /\ question' = Nothing
  /\ UNCHANGED <<draft, submitting, posts, thrown, slipped, stored, edits>>

\* loadPreview and onSubmit have no finally: what they set stays set.
PreviewFails == /\ loading /\ question # Nothing
                /\ question' = Nothing /\ thrown' = TRUE
                /\ UNCHANGED <<step, draft, loading, submitting, preview, posts, slipped, stored, edits>>

\* The button of the last step, or Enter in the only field of a step.
Send == /\ \/ CanSend
           \/ step \in {2, 4} /\ StepIsValid(draft, step)
        /\ Len(posts) < MaxPosts
        /\ submitting' = TRUE /\ posts' = Append(posts, draft)
        /\ UNCHANGED <<step, draft, loading, question, preview, thrown, slipped, stored, edits>>

PostArrives ==
  /\ posts # <<>>
  /\ posts' = Tail(posts)
  /\ IF Accepted(Head(posts))
     THEN /\ stored' = Head(posts)
          /\ UNCHANGED submitting
     ELSE submitting' = FALSE /\ UNCHANGED stored
  /\ UNCHANGED <<step, draft, loading, question, preview, thrown, slipped, edits>>

\* The answer of a submit is lost, whether the server took it or not.
PostFails == /\ posts # <<>> /\ posts' = Tail(posts) /\ thrown' = TRUE
             /\ stored' \in {stored} \cup {d \in {Head(posts)} : Accepted(d)}
             /\ UNCHANGED <<step, draft, loading, submitting, question, preview, slipped, edits>>

\* The page is loaded again: what was typed is gone, and what was in flight
\* reaches the server or does not.
Reload == /\ Here /\ thrown
          /\ step' = 1 /\ draft' = defaultValues /\ loading' = FALSE /\ submitting' = FALSE
          /\ question' = Nothing /\ preview' = Nothing /\ posts' = <<>>
          /\ thrown' = FALSE /\ slipped' = FALSE
          /\ stored' \in {stored} \cup {posts[i] : i \in {i \in DOMAIN posts : Accepted(posts[i])}}
          /\ UNCHANGED edits

Next == /\ Here
        /\ \/ TypeIncome \/ AddDebt \/ TypeDebt \/ RemoveDebt \/ TypeBudget
           \/ Continue \/ Back \/ AskPreview \/ PreviewArrives \/ PreviewFails
           \/ Send \/ PostArrives \/ PostFails \/ Reload

Spec == Init /\ [][Next]_vars

-----------------------------------------------------------------------------
TypeOK == /\ step \in 1 .. 5 /\ edits \in 0 .. MaxEdits
          /\ {draft, question, preview, stored} \subseteq Drafts
          /\ \A i \in DOMAIN posts : posts[i] \in Drafts
          /\ {loading, submitting, thrown, slipped} \subseteq BOOLEAN

\* The result on the last step is that of the debts and the income in the form,
\* however the user went back and forth, and of the budget too unless it was
\* changed while the result was computed (onboarding-wizard.tsx).
PreviewIsCurrent ==
  step = 5 => /\ preview.debts = draft.debts /\ preview.income = draft.income
              /\ preview.budget = draft.budget \/ slipped

\* The buttons that wait for a request are freed when it is over, unless it
\* ended without an answer.
FreedAfterRequest == /\ loading => question # Nothing \/ thrown
                     /\ submitting /\ Here => posts # <<>> \/ thrown
=============================================================================
