\* An approval asked while the poll waits to reject an older one.
SPECIFICATION Spec
CONSTANTS
    Routines = {daily}
    Once = {}
    Delivered = {}
    MaxConcurrent = 1
    Period = 2
    Grace = 1
    ApprovalTtl = 1
    People = TRUE
    Manual = FALSE
    Faults = {}
    MaxTime = 6
    MaxRuns = 1
    MaxTurns = 4
    MaxChats = 0
    MaxRestarts = 0
PROPERTY RejectsOnlyStale
\* Time and every counter are bounded, so the instance comes to an end.
CHECK_DEADLOCK FALSE
