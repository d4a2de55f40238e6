SPECIFICATION MCFairSpec
CONSTANTS
    c1 = c1
    s1 = s1
    i1 = i1
    Calls = {c1, c2}
    Sessions = {s1, s2}
    ReqIDs = {i1, i2}
    NoCall = NoCall
    QueueCap = 1
    MaxEvents = 2
    e1 = e1
    u1 = u1
    u2 = u2
    Engines = {e1}
    URIs = {u1, u2}
    SubRequests <- MCRequests
    NoCancel = NoCancel
    MaxFanouts = 2
    MaxDeletes = 1
INVARIANTS RegistryExact RendezVousExact ResponseFindsCaller CancelWasAsked
PROPERTIES QueuedEventEndsWait UnsubscribeStops SubscribeIsAnswered
CHECK_DEADLOCK FALSE
