\* A room of two members with a budget of three messages.
SPECIFICATION LiveSpec
CONSTANTS
    ann = ann
    ben = ben
    None = None
    Roster <- TwoMembers
    TurnBudget = 3
    MaxRounds = 2
    Callers = {c1}
    MaxStarts = 2
    MaxPosts = 2
    MaxRestarts = 1
CHECK_DEADLOCK FALSE
INVARIANTS
    TypeOK
    BudgetBounds
    StatusTellsTheLoop
PROPERTIES
    MentionAnsweredOnce
    StopReturns
