SPECIFICATION JobsSpec
CONSTANTS
    Emails = {e1, code}
    Syncs = {o1, t1, s1, l1, u1, y1, y2}
    KindOf <- SyncKinds
    EmailOf <- SyncEmails
    Schools = {"school"}
    Tasks = {r1, r2, k1, k2}
    ObjectOf <- Objects
    Posts = {p1, p2, p3, p4, p5}
    TaskOf <- PostTasks
    MaxRetry = 2
    MaxRestarts = 1
    MaxRuns = 1
    MaxRequests = 2
    e1 = e1
    code = code
    o1 = o1
    t1 = t1
    l1 = l1
    y1 = y1
    y2 = y2
    u1 = u1
    s1 = s1
    r1 = r1
    r2 = r2
    k1 = k1
    k2 = k2
    p1 = p1
    p2 = p2
    p3 = p3
    p4 = p4
    p5 = p5
INVARIANTS
    MailedIsStored
    EmailUpsertRecovers
PROPERTIES
    JobsSettle
    SchoolsGoForward
CHECK_DEADLOCK FALSE
