SPECIFICATION Spec
CONSTANTS
    Users = {u1, u2}
    Staff = {u2}
    Schools = {s1, s2}
    Signups = {g1, g2}
    Requests = {q1}
    Verifies = {v1, v2}
    MaxTime = 1
    TTL = 1
    MaxAttempts = 2
    MaxRequests = 3
    NoOne = NoOne
SYMMETRY RequestSymmetry
CONSTRAINT Load
INVARIANTS
    OlderCodesSpent
    SpentCodeRefused
CHECK_DEADLOCK FALSE
