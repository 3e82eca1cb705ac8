SPECIFICATION Spec
CONSTANTS
    KeyIds = {k1, k2}
    Reqs = {r1, r2, r3}
    Calls = {}
    Users = {u1}
    Drafts <- AdminDrafts
    Edits <- AdminEdits
    HubspotOn = TRUE
    MaxTime = 0
    NoId = NoId
SYMMETRY AdminSymmetry
INVARIANTS
    LanExclusive
CHECK_DEADLOCK FALSE
