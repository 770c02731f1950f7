SPECIFICATION Spec
CONSTANTS
    MaxRepairs = 0
    MaxRuns = 2
    MaxEdits = 1
    MaxFaults = 1
PROPERTIES
    NothingToMergeMeansMerged
CHECK_DEADLOCK FALSE
