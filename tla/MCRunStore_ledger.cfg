SPECIFICATION Spec
CONSTANTS
    r1 = r1
    r2 = r2
    r3 = r3
    b1 = b1
    b2 = b2
    Runs = {r1, r2, r3}
    Bots = {b1, b2}
    BotOf <- TwoBots
    MaxTerminal = 1
    MaxClaims = 2
    MaxFailovers = 1
SYMMETRY SameBot
INVARIANTS
    TypeOK
    LeaseColumns
PROPERTIES
    OnlyOldOutcomesForgotten
    ImplementsJobQueue
CHECK_DEADLOCK FALSE
