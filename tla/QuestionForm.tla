---------------------------- MODULE QuestionForm ----------------------------
(***************************************************************************)
(* The forms of ask_user: the tabbed questionnaire and the plain select    *)
(* dialog (src/shared/interactive-questions.ts), and how the tool opens    *)
(* them and reads the outcome (extensions/ui/interactive-agent-questions). *)
(*                                                                         *)
(* Abstractions.  An option is its index, from 1; a typed answer is the    *)
(* index after the last option, which is also where the form offers it.    *)
(* In the plain dialog the tabs are the options.  A question is its index: *)
(* the form keeps selections by the id the agent gave the question, so two *)
(* questions of one id, which no check refuses, are left out.              *)
(***************************************************************************)
EXTENDS Naturals, Sequences, FiniteSets, FiniteSetsExt

CONSTANT Forms   \* the forms the agent may ask: [plain, questions]

\* The plain dialog is for one question that takes no typed answer.
ASSUME FormsAssumption == \A f \in Forms :
    /\ f.questions # <<>>
    /\ f.questions \in Seq([options : Nat, marked : SUBSET Nat,
                            multiple : BOOLEAN, allowOther : BOOLEAN])
    /\ \A q \in DOMAIN f.questions : f.questions[q].marked \subseteq 1..f.questions[q].options
    /\ f.plain => Len(f.questions) = 1 /\ ~f.questions[1].allowOther

VARIABLES
    form,        \* the form that is open, or was last
    tabIndex, optionIndex,
    inputQuestion,   \* the question whose editor is open, 0 for none
    selections,      \* question -> the options selected
    customAnswers,   \* the questions with a typed answer
    outcome          \* "none", "open", "refused", "cancelled" or "answered"

formVars == <<form, tabIndex, optionIndex, inputQuestion, selections, customAnswers,
              outcome>>

Questions == DOMAIN form.questions
Other(q) == form.questions[q].options + 1
OptionCount(q) ==
    form.questions[q].options + IF form.questions[q].allowOther THEN 1 ELSE 0
IsSubmitTab == ~form.plain /\ tabIndex = Len(form.questions) + 1
HasAnswer(q) == selections[q] # {} \/ q \in customAnswers
Answer(q) == selections[q] \cup IF q \in customAnswers THEN {Other(q)} ELSE {}

\* What a form starts with: the options the agent marked; of a single choice
\* the first, and none in the plain dialog.
Marked(f, q) ==
    LET question == f.questions[q] IN
    IF question.multiple THEN question.marked
    ELSE {o \in question.marked : ~f.plain /\ \A p \in question.marked : o <= p}

AskForm(f) ==
    /\ outcome # "open"
    /\ form' = f /\ tabIndex' = 1 /\ optionIndex' = 1 /\ inputQuestion' = 0
    /\ selections' = [q \in DOMAIN f.questions |-> Marked(f, q)]
    /\ customAnswers' = {}
    /\ outcome' = IF \E q \in DOMAIN f.questions :
                        f.questions[q].options = 0 /\ ~f.questions[q].allowOther
                  THEN "refused" ELSE "open"

Escape ==
    /\ outcome = "open"
    /\ IF inputQuestion = 0
       THEN outcome' = "cancelled" /\ UNCHANGED inputQuestion
       ELSE inputQuestion' = 0 /\ UNCHANGED outcome
    /\ UNCHANGED <<form, tabIndex, optionIndex, selections, customAnswers>>

(***************************************************************************)
(* The questionnaire                                                       *)
(***************************************************************************)
Keys == outcome = "open" /\ inputQuestion = 0 /\ ~form.plain

\* Mutant: the tabs do not come round.
MoveTabUnwrapped(back) ==
    /\ Keys
    /\ tabIndex' = IF back THEN tabIndex - 1 ELSE tabIndex + 1
    /\ optionIndex' = 1
    /\ UNCHANGED <<form, inputQuestion, selections, customAnswers, outcome>>

MoveTab(back) ==
    LET total == Len(form.questions) + 1
        delta == IF back THEN total - 1 ELSE 1 IN
    /\ Keys
    /\ tabIndex' = ((tabIndex - 1 + delta) % total) + 1 /\ optionIndex' = 1
    /\ UNCHANGED <<form, inputQuestion, selections, customAnswers, outcome>>

MoveOption(up) ==
    /\ Keys /\ ~IsSubmitTab
    /\ optionIndex' = IF up THEN Max({1, optionIndex - 1})
                      ELSE Min({OptionCount(tabIndex), optionIndex + 1})
    /\ UNCHANGED <<form, tabIndex, inputQuestion, selections, customAnswers, outcome>>

\* Mutant: choosing an option leaves an answer typed before.
ChooseKeepingTyped(q) ==
    /\ selections' = [selections EXCEPT ![q] = {optionIndex}]
    /\ tabIndex' = tabIndex + 1 /\ optionIndex' = 1
    /\ UNCHANGED customAnswers

ChooseOption(q) ==
    /\ selections' = [selections EXCEPT ![q] = {optionIndex}]
    /\ customAnswers' = customAnswers \ {q}
    /\ tabIndex' = tabIndex + 1 /\ optionIndex' = 1

SelectCurrentOption ==
    /\ Keys /\ ~IsSubmitTab
    /\ IF form.questions[tabIndex].allowOther /\ optionIndex = Other(tabIndex)
       THEN /\ inputQuestion' = tabIndex
            /\ UNCHANGED <<selections, customAnswers, tabIndex, optionIndex>>
       ELSE /\ UNCHANGED inputQuestion
            /\ IF form.questions[tabIndex].multiple
               THEN /\ selections' = [selections EXCEPT ![tabIndex] =
                            SymDiff(@, {optionIndex})]
                    /\ UNCHANGED <<customAnswers, tabIndex, optionIndex>>
               ELSE ChooseOption(tabIndex)
    /\ UNCHANGED <<form, outcome>>

\* editor.onSubmit, with a text or a blank one.
SubmitText(text) ==
    LET q == inputQuestion
        single == ~form.questions[q].multiple IN
    /\ outcome = "open" /\ q # 0
    /\ customAnswers' = IF text THEN customAnswers \cup {q} ELSE customAnswers \ {q}
    /\ IF text /\ single
       THEN /\ selections' = [selections EXCEPT ![q] = {}]
            /\ tabIndex' = q + 1 /\ optionIndex' = 1
       ELSE UNCHANGED <<selections, tabIndex, optionIndex>>
    /\ inputQuestion' = 0
    /\ UNCHANGED <<form, outcome>>

FinishQuestionnaire ==
    /\ Keys /\ IsSubmitTab
    /\ \A q \in Questions : HasAnswer(q)
    /\ outcome' = "answered"
    /\ UNCHANGED <<form, tabIndex, optionIndex, inputQuestion, selections, customAnswers>>

(***************************************************************************)
(* The plain dialog                                                        *)
(***************************************************************************)
PlainKeys == outcome = "open" /\ form.plain

MovePlain(back) ==
    /\ PlainKeys
    /\ tabIndex' = IF back THEN Max({1, tabIndex - 1})
                   ELSE Min({form.questions[1].options, tabIndex + 1})
    /\ UNCHANGED <<form, optionIndex, inputQuestion, selections, customAnswers, outcome>>

TogglePlain ==
    /\ PlainKeys /\ form.questions[1].multiple
    /\ selections' = [selections EXCEPT ![1] = SymDiff(@, {tabIndex})]
    /\ UNCHANGED <<form, tabIndex, optionIndex, inputQuestion, customAnswers, outcome>>

\* Nothing selected counts as cancelled.
FinishPlain ==
    LET chosen == IF form.questions[1].multiple THEN selections[1] ELSE {tabIndex} IN
    /\ PlainKeys
    /\ selections' = [selections EXCEPT ![1] = chosen]
    /\ outcome' = IF chosen = {} THEN "cancelled" ELSE "answered"
    /\ UNCHANGED <<form, tabIndex, optionIndex, inputQuestion, customAnswers>>

FormInit ==
    /\ form \in Forms /\ tabIndex = 1 /\ optionIndex = 1 /\ inputQuestion = 0
    /\ selections = [q \in Questions |-> {}] /\ customAnswers = {}
    /\ outcome = "none"

FormNext ==
    \/ \E f \in Forms : AskForm(f)
    \/ Escape \/ SelectCurrentOption \/ FinishQuestionnaire \/ TogglePlain \/ FinishPlain
    \/ \E b \in BOOLEAN : MoveTab(b) \/ MoveOption(b) \/ SubmitText(b) \/ MovePlain(b)

FormSpec == FormInit /\ [][FormNext]_formVars

(***************************************************************************)
(* Properties                                                              *)
(***************************************************************************)
FormTypeOK ==
    /\ form \in Forms /\ inputQuestion \in Questions \cup {0}
    /\ tabIndex \in 1..(Max({Len(form.questions), form.questions[1].options}) + 1)
    /\ \A q \in Questions : selections[q] \subseteq 1..form.questions[q].options
    /\ customAnswers \subseteq Questions
    /\ outcome \in {"none", "open", "refused", "cancelled", "answered"}

\* In whatever order options are chosen, texts typed, cleared or abandoned and
\* tabs visited: an editor belongs to the question on the screen, a single
\* choice never has both an option and a typed answer, and a form that is
\* answered has an answer of an offered kind to every question.
AnswersAreSound ==
    /\ inputQuestion \in {0, tabIndex}
    /\ \A q \in Questions :
        /\ ~form.questions[q].multiple => Cardinality(Answer(q)) <= 1
        /\ outcome = "answered" => Answer(q) # {}
        /\ Answer(q) \subseteq 1..OptionCount(q)

=============================================================================
