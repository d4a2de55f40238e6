SPECIFICATION MCFairSpec
CONSTANTS
    Consumers = {c1, c2}
    MaxEntries = 2
    MaxDrops = 1
    StreamMaxLen = 1
    ClaimCount = 2
    NoConsumer = NoConsumer
    Callers = {p1, p2}
    HandshakeTTL = 1
    SessionTTL = 2
    MaxLifetime = 3
    FallbackTTL = 3
    MutateTries = 2
    MaxTime = 3
    MaxCalls = 4
    Readers = {r1, r2}
    MaxEvents = 3
    TopicMaxLen = 2
    Writers = {w1, w2}
    Reporters = {w2}
    NoWriter = NoWriter
    MaxGets = 2
    MaxNotes = 2
    Requests = {q1}
    Pumps = {1, 2}
    MaxLines = 3
    MaxMessages = 2
    InboxSize = 1
    Reader = Reader
    Nobody = Nobody
INVARIANTS PendingIsOwned FutureEventsInOrder WholeFrames StdoutExact
PROPERTIES HandledThenFinal RecordsSerial OneFate EveryRequestAnswered
CHECK_DEADLOCK FALSE
