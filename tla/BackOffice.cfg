CONSTANTS
    Calls = {c1, c2, c3}
    MaxInFlight = 2
    NoOne = NoOne
    Members = {u1}
    Supers = {}
    Groups = {g1, g2}
    Permissions = {p1}
    Schools = {s1}
    Owners = {w1}
    Staff = {x1, x2}
    Olds = {o1}
SPECIFICATION OfficeSpec
SYMMETRY Symmetry
INVARIANTS
    StaleExplained
    MembersSurvive
    RevokedIsDenied
PROPERTIES
    ResetHolds
    RosterSpec
CHECK_DEADLOCK FALSE
