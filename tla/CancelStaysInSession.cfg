SPECIFICATION Spec
CONSTANTS
    Calls = {c1, c2}
    Sessions = {s1, s2}
    ReqIDs = {i1}
    NoCall = NoCall
    QueueCap = 1
    MaxEvents = 1
INVARIANT CancelStaysInSession
CHECK_DEADLOCK FALSE
