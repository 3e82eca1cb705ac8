SPECIFICATION FairSpec
CONSTANTS
    Users = {u1}
    Questions = {q1, q2}
    Exams = {e1}
    ExamOf <- SheetExams
    Keys = {}
    KeyOf <- NoKeys
    OptionsOf <- SheetOptions
    NullOption = NullOption
    Starts = {s1}
    Writes = {w1, w2}
    Finishes = {f1, f2}
    Inputs <- SheetInputs
    Grace = 0
    MaxTime = 2
    NoOne = NoOne
    e1 = e1
    e2 = e2
    k1 = k1
    k2 = k2
    q1 = q1
    q2 = q2
    o1 = o1
    o2 = o2
INVARIANTS
    GradeKeepsAnswers
PROPERTIES
    GradeFinal
    LateAnswersRefused
    AnswersSettle
CHECK_DEADLOCK FALSE
