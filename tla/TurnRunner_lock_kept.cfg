\* A third cancellation of the same turn.
SPECIFICATION FairSpec
CONSTANTS
    Clients = {c1, c2}
    Faults = {}
    MaxTurns = 1
    MaxFrames = 0
    MaxCkpts = 1
    MaxCancels = 3
    RunLimit = FALSE
    Branching = FALSE
PROPERTY CancelReleases
\* Time and every counter are bounded, so the instance comes to an end.
CHECK_DEADLOCK FALSE
