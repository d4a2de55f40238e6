SPECIFICATION Spec
CONSTANTS
    Calls = {c1}
    Publishers = {p1}
    Deleters = {d1}
    MaxMessages = 2
    MaxStreams = 1
INVARIANT StartsAtBeginning
CHECK_DEADLOCK FALSE
