\* A delivered routine through restarts and faults, and one that people run, switch, delete
\* and answer.
SPECIFICATION RunsSpec
CONSTANTS
    Routines = {daily, review}
    Once = {}
    Delivered = {review}
    MaxConcurrent = 1
    Period = 2
    Grace = 1
    ApprovalTtl = 0
    People = TRUE
    Manual = TRUE
    Faults = {"platform", "revoked", "store", "launch", "stuck"}
    MaxTime = 4
    MaxRuns = 2
    MaxTurns = 3
    MaxChats = 1
    MaxRestarts = 2
    review = review
    daily = daily
INVARIANTS FiresWhenDue RunsAreServed
ACTION_CONSTRAINT Casting
\* Time and every counter are bounded, so the instance comes to an end.
CHECK_DEADLOCK FALSE
