SPECIFICATION Spec
CONSTANTS
    Surveys = {s1, s2}
    Firsts = {s1}
    Questions = {q1, q2}
    Keys = {k1}
    Users = {u1}
    Attempts = {a1}
    Calls = {c1, c2, c3}
    NoOne = NoOne
    MaxInFlight = 2
SYMMETRY CallSymmetry
INVARIANTS
    PublishedAsks
    ResubmissionsRefused
    MetricsComplete
CHECK_DEADLOCK FALSE
