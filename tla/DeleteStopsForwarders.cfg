SPECIFICATION SubFairSpec
CONSTANTS
    n1 = n1
    n2 = n2
    u1 = u1
    Engines = {n1, n2}
    URIs = {u1}
    SubRequests <- OneRequest
    NoCancel = NoCancel
    MaxFanouts = 1
    MaxDeletes = 1
PROPERTY DeleteStopsForwarders
CHECK_DEADLOCK FALSE
