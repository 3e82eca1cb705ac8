SPECIFICATION PartsSpec
CONSTANTS
    Exams = {e1, e2, e3}
    Drafts = {e1}
    Questions = {q1, q2}
    Reqs = {r1, r2, r3}
    Stems = {s1}
    NoOne = NoOne
    Tokens = {k1, k2}
    RPS = 3
    PerMinute = 3
    Minute = 2
    Ttl = 3
    MaxUnchecked = 2
    Asked = {a1}
    Choices = {c1, c2}
    Graders = {g1}
    Editors = {d1, d2}
    Replicas = {p1, p2}
    Versions = 2
    Checksums = {a, b}
SYMMETRY Symmetry
INVARIANTS
    PublishedHasQuestions
    VersionsGrow
    GradedAsItWas
    RateBounded
    MinuteBounded
    MigratedOnce
PROPERTIES
    PublishedIsFrozen
CHECK_DEADLOCK FALSE
