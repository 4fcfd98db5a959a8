\* Scheduled and manual runs and stale approvals over one slot, where turns may never end by themselves;
\* or the tool calls of a thread.
SPECIFICATION BothSpec
CONSTANTS
    Routines = {once}
    Once = {once}
    Delivered = {}
    MaxConcurrent = 1
    Period = 2
    Grace = 1
    ApprovalTtl = 1
    People = FALSE
    Manual = TRUE
    Faults = {}
    MaxTime = 4
    MaxRuns = 2
    MaxTurns = 4
    MaxChats = 0
    MaxRestarts = 0
    CardTools = {write, edit}
    OwnTools = {save}
    McpTools = {m}
    NoTool = NoTool
    ToolMixes = {{"settings", write, edit}, {"settings", save}, {"settings", "use_integration"}, {"discovery", "use_integration"}, {"faults", "use_integration"}, {"use_integration"}}
    MaxToolCalls = 3
    MaxMessages = 2
    MaxSettings = 2
    Scenes = {"routines", "tools"}
INVARIANTS KeepsToCap ToolCallsAreAsked
PROPERTIES RejectsOnlyStale SchedulerGoesOn
\* Time and every counter are bounded, so the instance comes to an end.
CHECK_DEADLOCK FALSE
