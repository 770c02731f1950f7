SPECIFICATION LiveSpec
CONSTANTS
    Routine = {1, 2}
    Delays = {0, 1}
    LeaseSeconds = 2
    BackoffSeconds = 0
    Concurrency = {1, 2}
    MaxLate = 1
    MaxAge = 1
    MaxBoots = 2
    MaxEdits = 1
    Faults = {"crash", "busy", "refuse"}
    NoRow = NoRow
    Deleted = Deleted
    Never = Never
INVARIANTS
    TypeOK
    LeaseTracksSubmission
PROPERTIES
    Spaced
    OperatorWins
    ArmedIsSubmitted
CHECK_DEADLOCK FALSE
