\* A command that takes longer than the tool's client waits.
SPECIFICATION ManagerSpec
CONSTANTS
    Sides = {"sessions"}
    MaxCalls = 2
    Patience = 1
    Timeout = 2
    Grace = 0
    IdleLimit = 4
    MaxTime = 9
    MaxEvents = 0
    AppBuildIds = {b1, b2}
    BuildSlots = 1
    MaxDockerFaults = 2
    MaxManagerRestarts = 1
INVARIANT FailedIsOver
\* Time and every counter are bounded, so the instance comes to an end.
CHECK_DEADLOCK FALSE
