SPECIFICATION FairSpec
CONSTANTS
    KeyIds = {k1}
    Reqs = {r1, r2}
    Calls = {c1, c2}
    Users = {u1, u2}
    Drafts <- UsageDrafts
    Edits <- UsageEdits
    HubspotOn = FALSE
    MaxTime = 1
    NoId = NoId
PROPERTIES
    SeatsSpec
    RetriesAdmitted
    SeatSettles
CHECK_DEADLOCK FALSE
