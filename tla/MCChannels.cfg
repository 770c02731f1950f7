SPECIFICATION LiveSpec
CONSTANTS
    h1 = h1
    p1 = p1
    p2 = p2
    Hooks = {h1}
    Polls = {p1}
    Keep = 0
    MaxEvents = 3
    MaxOpen = 1
    Asking = {1}
    MaxUpdates = 2
    MaxFaults = 2
    None = None
INVARIANTS
    TypeOK
    NoSecondReply
    NoMessageSkipped
PROPERTIES
    AcceptedIsSettled
    MessagesArrive
    RetriesAreRecognised
CHECK_DEADLOCK FALSE
