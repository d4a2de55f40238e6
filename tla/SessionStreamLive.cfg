SPECIFICATION FairSpec
CONSTANTS
    Calls = {c1, c2}
    Publishers = {p1}
    Deleters = {d1}
    MaxMessages = 2
    MaxStreams = 1
PROPERTIES DeleteEndsSubscriptions PublishedIsDelivered
CHECK_DEADLOCK FALSE
