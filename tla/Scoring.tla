------------------------------- MODULE Scoring -------------------------------
(***************************************************************************)
(* exams_service: what Finish makes of the answers of an academic exam,      *)
(* while the question bank is edited.                                       *)
(*                                                                         *)
(* The bank is not frozen when an exam is published, and Finish reads the    *)
(* kind and the options of each question by statements of their own.  The    *)
(* score is kept as the grade of each question: its points, wrong or blank   *)
(* ones included, are figures the exam gives to those.  The answers are      *)
(* what ListAnswers read, and Finish looks at them only.  The order of the   *)
(* questions is left out.                                                  *)
(***************************************************************************)
EXTENDS Integers, FiniteSets

CONSTANTS Asked,    \* the questions of the exam
          Choices,  \* the options a question may have
          Graders,  \* the Finish requests
          Editors   \* the requests on the question bank

ASSUME ChoicesAssumption == IsFiniteSet(Choices)

VARIABLES
    kind,    \* table question: what each is
    option,  \* table question_option
    grader,  \* the Finish requests
    editor   \* the requests on the bank

bankVars == <<kind, option, grader, editor>>

\* SINGLE_CHOICE and TRUE_FALSE; MULTIPLE_CHOICE; SCALE and OPEN_TEXT.
Kind == {"choice", "multiple", "unscored"}
Option == {"absent", "wrong", "right", "removed"}
Grade == {"none", "right", "wrong", "blank"}

Key(q) == { c \in Choices : option[q][c] = "right" }

\* `at` is the question it is at, `kind` what it read of it; `kinds` and `keys`
\* are history: what each question was since the request came in.
Grader == [pc: {"idle", "grade", "key", "done", "failed"},
           left: SUBSET Asked, at: SUBSET Asked, kind: Kind,
           marks: [Asked -> SUBSET Choices], grade: [Asked -> Grade],
           kinds: [Asked -> SUBSET Kind], keys: [Asked -> SUBSET (SUBSET Choices)]]

\* `kind` is what an Update is going to write, `named` whether it was asked to.
Editor == [pc: {"idle", "write", "done"}, at: SUBSET Asked, kind: Kind,
           named: BOOLEAN]

\* A request that has read nothing, or has nothing left to do with what it read.
At(pc) == [pc |-> pc, left |-> {}, at |-> {}, kind |-> "choice",
           marks |-> [q \in Asked |-> {}], grade |-> [q \in Asked |-> "none"],
           kinds |-> [q \in Asked |-> {}], keys |-> [q \in Asked |-> {}]]
Editing(pc) == [pc |-> pc, at |-> {}, kind |-> "choice", named |-> FALSE]

BankInit ==
    /\ kind \in [Asked -> Kind]
    /\ option \in [Asked -> [Choices -> Option \ {"removed"}]]
    /\ grader = [g \in Graders |-> At("idle")]
    /\ editor = [e \in Editors |-> Editing("idle")]

Grading(g) == grader[g].pc \in {"grade", "key"}

(***************************************************************************)
(* Finish                                                                  *)
(***************************************************************************)

\* FindByID, the type of the exam, List of its questions and ListAnswers. A
\* question of any kind may have several marks: Answer does not look at the kind.
FinishBegin(g) ==
    /\ grader[g].pc = "idle"
    /\ \E marks \in [Asked -> SUBSET Choices] :
         /\ \A q \in Asked, c \in Choices :
              c \in marks[q] => option[q][c] \in {"wrong", "right"}
         /\ grader' = [grader EXCEPT ![g] =
                         [@ EXCEPT !.pc = "grade", !.left = Asked, !.marks = marks,
                                   !.kinds = [q \in Asked |-> {kind[q]}],
                                   !.keys = [q \in Asked |-> {Key(q)}]]]
    /\ UNCHANGED <<kind, option, editor>>

\* FindByID of the next question: one that is not scored is passed over, one
\* without a mark is blank.
ReadKind(g) ==
    /\ grader[g].pc = "grade"
    /\ \E q \in grader[g].left :
         LET scored == kind[q] # "unscored"
             blank == grader[g].marks[q] = {} IN
         grader' = [grader EXCEPT ![g] =
                      [@ EXCEPT !.left = grader[g].left \ {q}, !.at = {q},
                                !.kind = kind[q],
                                !.grade[q] = IF scored /\ blank THEN "blank" ELSE "none",
                                !.pc = IF scored /\ ~ blank THEN "key" ELSE "grade"]]
    /\ UNCHANGED <<kind, option, editor>>

\* Variant: as many marks as correct options.
AllByCount(marks, key) ==
    Cardinality(key) > 0 /\ Cardinality(key) = Cardinality(marks)

\* The marks of a multiple choice against the correct options.
AllMarked(marks, key) ==
    /\ Cardinality(key) > 0 /\ Cardinality(key) = Cardinality(marks)
    /\ \A c \in key : c \in marks

\* ListByQuestion. The row of a single choice that comes first is any of them,
\* for ListAnswers does not order them.
ReadKey(g) ==
    /\ grader[g].pc = "key"
    /\ \E q \in grader[g].at : \E first \in grader[g].marks[q] :
         LET right == IF grader[g].kind = "multiple"
                      THEN AllMarked(grader[g].marks[q], Key(q))
                      ELSE first \in Key(q) IN
         grader' = [grader EXCEPT ![g] =
                      [@ EXCEPT !.grade[q] = IF right THEN "right" ELSE "wrong",
                                !.pc = "grade"]]
    /\ UNCHANGED <<kind, option, editor>>

\* The UPDATE that stores the score; AttemptService shows who wins it.
StoreScore(g) ==
    /\ grader[g].pc = "grade" /\ grader[g].left = {}
    /\ grader' = [grader EXCEPT ![g].pc = "done"]
    /\ UNCHANGED <<kind, option, editor>>

FinishFails(g) ==
    /\ Grading(g)
    /\ grader' = [grader EXCEPT ![g] = At("failed")]
    /\ UNCHANGED <<kind, option, editor>>

(***************************************************************************)
(* The bank                                                                *)
(***************************************************************************)

\* History: the graders at work see what question `q` has become.
Noted(q) ==
    grader' = [g \in Graders |->
                 IF Grading(g)
                 THEN [grader[g] EXCEPT !.kinds[q] = @ \cup {kind'[q]},
                                        !.keys[q] = @ \cup {Key(q)'}]
                 ELSE grader[g]]

\* Update reads the row, and puts the kind it was given, if any, in it.
ReadQuestion(e) ==
    /\ editor[e].pc = "idle"
    /\ \E q \in Asked, named \in BOOLEAN, k \in Kind :
         /\ ~ named => k = kind[q]
         /\ editor' = [editor EXCEPT ![e] = [pc |-> "write", at |-> {q},
                                             kind |-> k, named |-> named]]
    /\ UNCHANGED <<kind, option, grader>>

WriteQuestion(e) ==
    /\ editor[e].pc = "write"
    /\ \E q \in editor[e].at : /\ kind' = [kind EXCEPT ![q] = editor[e].kind]
                               /\ option' = option
                               /\ Noted(q)
    /\ editor' = [editor EXCEPT ![e] = Editing("done")]

\* AddOption, UpdateOption and RemoveOption: one statement each that decides. An
\* option that answers have is not removed, but the answers of an attempt may
\* have been replaced since ListAnswers read them.
EditOption(e) ==
    /\ editor[e].pc = "idle"
    /\ \E q \in Asked, c \in Choices, o \in Option :
         /\ option[q][c] # "removed" /\ o \notin {option[q][c], "absent"}
         /\ option[q][c] = "absent" => o # "removed"
         /\ option' = [option EXCEPT ![q][c] = o]
         /\ kind' = kind
         /\ Noted(q)
    /\ editor' = [editor EXCEPT ![e] = Editing("done")]

EditFails(e) ==
    /\ editor[e].pc = "write"
    /\ editor' = [editor EXCEPT ![e] = Editing("done")]
    /\ UNCHANGED <<kind, option, grader>>

-----------------------------------------------------------------------------

BankNext ==
    \/ \E g \in Graders : \/ FinishBegin(g) \/ ReadKind(g) \/ ReadKey(g)
                          \/ StoreScore(g) \/ FinishFails(g)
    \/ \E e \in Editors : \/ ReadQuestion(e) \/ WriteQuestion(e)
                          \/ EditOption(e) \/ EditFails(e)

BankSpec == BankInit /\ [][BankNext]_bankVars

-----------------------------------------------------------------------------
(***************************************************************************)
(* Properties                                                              *)
(***************************************************************************)

BankTypeOK == /\ kind \in [Asked -> Kind]
              /\ option \in [Asked -> [Choices -> Option]]
              /\ grader \in [Graders -> Grader]
              /\ editor \in [Editors -> Editor]

\* What domain/exam.go says of the kinds: the grades marks may get by a key. Of
\* several marks on a single choice, any one may count.
Earned(k, marks, key) ==
    CASE k = "unscored" -> {"none"}
      [] k # "unscored" /\ marks = {} -> {"blank"}
      [] k = "multiple" /\ marks # {} -> {IF marks = key THEN "right" ELSE "wrong"}
      [] k = "choice" /\ marks # {} ->
           { IF c \in key THEN "right" ELSE "wrong" : c \in marks }

(* A score is what the exam was worth while it was graded, whatever is      *)
(* edited meanwhile: each question is graded once, by a kind and a key that *)
(* it had after the Finish came in, and exactly as its kind says.           *)
GradedAsItWas ==
    \A g \in Graders : grader[g].pc = "done" =>
        \A q \in Asked :
            \E k \in grader[g].kinds[q], key \in grader[g].keys[q] :
                grader[g].grade[q] \in Earned(k, grader[g].marks[q], key)

(* What Finish says of the maximum, the points of every question: that it   *)
(* is the score of a sheet on which everything is right.                    *)
FlawlessIsMax ==
    \A g \in Graders : grader[g].pc = "done" =>
        \/ \A q \in Asked : grader[g].grade[q] = "right"
        \/ \E q \in Asked : grader[g].grade[q] \in {"wrong", "blank"}

(* What Update says: without a kind it does not change the one there is.    *)
UnnamedKindKept ==
    [][\A e \in Editors : editor[e].pc = "write" /\ ~ editor[e].named
         => kind' = kind]_bankVars
=============================================================================
