SPECIFICATION BusSpec
CONSTANTS
    EventPublishers = {e1, e2}
    Subscribers = {s1}
    ChanCap = 1
    MaxPerPub = 2
INVARIANT AtLeastOnce
CHECK_DEADLOCK FALSE
