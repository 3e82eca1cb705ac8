SPECIFICATION Spec
CONSTANTS
    KeyIds = {k1}
    Reqs = {r1}
    Calls = {c1, c2}
    Users = {u1}
    Drafts <- UsageDrafts
    Edits <- UsageEdits
    HubspotOn = FALSE
    MaxTime = 0
    NoId = NoId
INVARIANTS
    OneSeatPerStudent
CHECK_DEADLOCK FALSE
