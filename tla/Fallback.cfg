SPECIFICATION HttpSpec
CONSTANTS
    Writers = {w1}
    Reporters = {}
    NoWriter = NoWriter
    MaxGets = 2
    MaxNotes = 3
INVARIANT FallbackIsJSON
CHECK_DEADLOCK FALSE
