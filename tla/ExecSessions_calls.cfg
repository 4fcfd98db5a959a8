\* Two calls at once, and one of: a change of grants, a hang, a DELETE, a restart, a failing call of Docker; two builds
\* over one slot, with two calls of Docker failing and a restart.
SPECIFICATION ManagerSpec
CONSTANTS
    Sides = {"sessions", "builds"}
    MaxCalls = 2
    Patience = 1
    Timeout = 1
    Grace = 0
    IdleLimit = 2
    MaxTime = 6
    MaxEvents = 1
    AppBuildIds = {b1, b2}
    BuildSlots = 1
    MaxDockerFaults = 2
    MaxManagerRestarts = 1
INVARIANTS TypeOK WedgedIsRemoved BuildersAreRemoved
PROPERTIES SparesTheBusy IdleIsReaped PhasesAreAnswered
\* Time and every counter are bounded, so the instance comes to an end.
CHECK_DEADLOCK FALSE
