SPECIFICATION Spec
CONSTANTS
    Runs = {r1}
    Bots = {b1}
    r1 = r1
    r2 = r2
    b1 = b1
    BotOf <- MCBotOf
    Requests = {q1, q2}
    MaxTerminal = 2
    MaxClaims = 2
    MaxFailovers = 1
    MaxBoots = 2
    MayCancel = {r1}
    Hazards = {"crash", "close", "stall", "busy"}
    NoRun = NoRun
    NoRequest = NoRequest
INVARIANTS
    TypeOK
    ExecutionHasClaim
    GatesConsistent
    NoLeakedReservation
    CompletedIsDurable
CHECK_DEADLOCK FALSE
