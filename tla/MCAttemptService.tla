-------------------------- MODULE MCAttemptService --------------------------
(* Small instances of AttemptService: the exams, keys and inputs of each run. *)
EXTENDS AttemptService, TLC

CONSTANTS e1, e2, k1, k2, q1, q2, o1, o2

Exam(max, timer) == [type |-> 2, nacional |-> FALSE, max |-> max, timer |-> timer]
Key(max, perUser) == [type |-> 2, masivo |-> FALSE, max |-> max,
                      perUser |-> perUser]

\* Starts: an exam for two participants, a key of one seat and one attempt.
StartExams == e1 :> Exam(2, 0)
StartKeys == k1 :> Key(1, 1)

\* Sheets: one exam with a limit of one instant, without a key.
SheetExams == e1 :> Exam(1, 1)
NoKeys == << >>
SheetInputs == { [q |-> q1, rows |-> r] : r \in {{o1}, {o1, o2}} }
               \cup { [q |-> q2, rows |-> {NullOption}] }
SheetOptions == q1 :> {o1, o2} @@ q2 :> {}

\* Disagreements.
TwoExams == e1 :> Exam(0, 0) @@ e2 :> Exam(0, 0)
OneExam == e1 :> Exam(0, 0)
LimitedExam == e1 :> Exam(1, 0)
TwoKeys == k1 :> Key(1, 0) @@ k2 :> Key(1, 0)
OneTryKey == k1 :> Key(0, 1)
PlainInputs == { [q |-> q1, rows |-> {o}] : o \in {o1, o2} }
PlainOptions == q1 :> {o1, o2}
TextInputs == { [q |-> q1, rows |-> {NullOption}] }

StartSymmetry == Permutations(Users) \cup Permutations(Starts)
                 \cup Permutations(Finishes)
SheetSymmetry == Permutations(Writes) \cup Permutations(Finishes)
=============================================================================
