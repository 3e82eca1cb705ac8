SPECIFICATION Spec
CONSTANTS
    Users = {u1, u2}
    Questions = {q1}
    Exams = {e1}
    ExamOf <- StartExams
    Keys = {k1}
    KeyOf <- StartKeys
    OptionsOf <- PlainOptions
    NullOption = NullOption
    Starts = {s1, s2, s3}
    Writes = {}
    Finishes = {f1, f2}
    Inputs <- PlainInputs
    Grace = 0
    MaxTime = 0
    NoOne = NoOne
    e1 = e1
    e2 = e2
    k1 = k1
    k2 = k2
    q1 = q1
    q2 = q2
    o1 = o1
    o2 = o2
SYMMETRY StartSymmetry
INVARIANTS
    AttemptsHoldSeats
    SeatsBuyAttempts
    LimitsBind
PROPERTIES
    SeatsLedger
CHECK_DEADLOCK FALSE
