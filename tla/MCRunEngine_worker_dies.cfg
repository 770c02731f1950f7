SPECIFICATION Spec
CONSTANTS
    Runs = {r1, r2}
    Bots = {b1}
    r1 = r1
    r2 = r2
    b1 = b1
    BotOf <- MCBotOf
    Requests = {q1}
    MaxTerminal = 2
    MaxClaims = 1
    MaxFailovers = 1
    MaxBoots = 1
    MayCancel = {r1}
    Hazards = {}
    NoRun = NoRun
    NoRequest = NoRequest
INVARIANTS
    WorkerSurvives
CHECK_DEADLOCK FALSE
