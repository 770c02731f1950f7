SPECIFICATION LiveSpec
CONSTANTS
    Runs = {r1, r2}
    Bots = {b1}
    r1 = r1
    r2 = r2
    b1 = b1
    BotOf <- MCBotOf
    Requests = {q1}
    MaxTerminal = 2
    MaxClaims = 1
    MaxFailovers = 0
    MaxBoots = 1
    MayCancel = {r1}
    Hazards = {"busy"}
    NoRun = NoRun
    NoRequest = NoRequest
PROPERTIES
    TerminalIsFinal
    RunsSettle
CHECK_DEADLOCK FALSE
