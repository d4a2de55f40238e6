SPECIFICATION MCSpec
CONSTANTS
    Users = {alice, bob}
    SessionIDs = {s1}
    Nodes = {n1, n2}
    Requests = {r1, r2}
    NoMeta = NoMeta
    Nobody = Nobody
    MaxEvents = 1
    alice = alice
    k1 = k1
    k2 = k2
    k3 = k3
    e1 = e1
    e2 = e2
    u1 = u1
    u2 = u2
    Engines = {e1, e2}
    URIs = {u1, u2}
    SubRequests <- MCRequests
    NoCancel = NoCancel
    MaxFanouts = 2
    MaxDeletes = 1
SYMMETRY Symmetry
INVARIANTS OwnSessionsOnly ListChangesCounted TrackedIsRunning RunningIsOwned
PROPERTIES RecordsMoveForward
CHECK_DEADLOCK FALSE
