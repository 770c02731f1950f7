SPECIFICATION Spec
CONSTANTS
    h1 = h1
    p1 = p1
    p2 = p2
    Hooks = {}
    Polls = {p1}
    Keep = 1
    MaxEvents = 2
    MaxOpen = 1
    Asking = {}
    MaxUpdates = 2
    MaxFaults = 1
    None = None
INVARIANTS
    RecoveredReplyIsTheAnswer
CHECK_DEADLOCK FALSE
