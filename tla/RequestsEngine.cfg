SPECIFICATION Spec
CONSTANTS
    Tokens = {k1}
    RPS = 2
    Calls = {c1, c2}
    Workers = {w1, w2}
    QueueSize = 1
    MaxRetries = 1
    MaxOthers = 1
    NoCall = NoCall
INVARIANTS
    InOnePlace
PROPERTIES
    BookSpec
    AcceptedIsServed
    CloseReturns
CHECK_DEADLOCK FALSE
