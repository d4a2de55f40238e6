SPECIFICATION MCSpec
CONSTANTS
    Calls = {c1, c2}
    Publishers = {p1}
    Deleters = {d1}
    MaxMessages = 2
    MaxStreams = 2
    EventPublishers = {e1, e2}
    Subscribers = {s1}
    ChanCap = 1
    MaxPerPub = 3
SYMMETRY Symmetry
INVARIANTS TypeOK ClaimsExact OnceInOrder NoLostWakeup PublisherOrder AccountedFor
PROPERTIES ImplementsQueue
CHECK_DEADLOCK FALSE
