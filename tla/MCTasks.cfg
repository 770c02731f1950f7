SPECIFICATION LiveSpec
CONSTANTS
    MaxRepairs = 1
    MaxRuns = 4
    MaxEdits = 2
    MaxFaults = 1
INVARIANTS
    TypeOK
    HandoffIsSealed
    MergedIsReviewed
PROPERTIES
    ExecutionSettles
    ImplementsHandoff
    ClosedTaskStaysClosed
CHECK_DEADLOCK FALSE
