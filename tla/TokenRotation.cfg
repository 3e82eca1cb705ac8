SPECIFICATION Spec
CONSTANTS
    Users = {u1}
    Logins = {l1}
    Refreshes = {r1, r2}
    Logouts = {o1}
    Switches = {d1, d2}
    TTL = 1
    MaxTime = 2
    NoOne = NoOne
INVARIANTS
    RotatedIsDead
PROPERTIES
    RevocationFinal
    InactiveGetsNothing
CHECK_DEADLOCK FALSE
