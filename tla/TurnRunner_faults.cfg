\* Forks, truncations and branch switches, any call failing, one cancellation of each turn;
\* a routine of each kind that two requests save, deliver and use at once.
SPECIFICATION ScenesSpec
CONSTANTS
    Clients = {c1}
    Faults = {"start", "policy", "agent", "stats", "reread", "persist", "record"}
    MaxTurns = 2
    MaxFrames = 1
    MaxCkpts = 3
    MaxCancels = 1
    RunLimit = TRUE
    Branching = TRUE
    Scenes = {"turn", "grants"}
    Kinds = {"recurring", "once", "copy"}
    Savers = {s1, s2}
    MaxSaves = 2
    MaxGrantFaults = 1
INVARIANTS TurnInv GrantsAreHeld
PROPERTIES TurnsLetGo TipIsTheTurns OnIsGranted
\* Time and every counter are bounded, so the instance comes to an end.
CHECK_DEADLOCK FALSE
