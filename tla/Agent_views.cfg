\* Two turns on one branch, two clients coming, going and cancelling twice; two tabs on a thread that asks for
\* two approvals; two calls of agents with one credential, two requests of people, a restart;
\* three requests on two files, or two changes while the index is at work.
SPECIFICATION AgentSpec
CONSTANTS
    Clients = {c1, c2}
    Faults = {"start"}
    MaxTurns = 2
    MaxFrames = 1
    MaxCkpts = 2
    MaxCancels = 2
    RunLimit = TRUE
    Branching = FALSE
    Views = {"turns", "chat", "calls", "files"}
    MaxEvents = 4
    Tabs = {c1, c2}
    MaxAsked = 2
    MaxChatTurns = 3
    MaxSent = 3
    MaxDrops = 1
    Person = Person
    Shared = Shared
    AgentCalls = {c1, c2}
    Visits = {v}
    NoCall = NoCall
    MaxSecrets = 2
    MaxRefreshes = 1
    MaxAgentCalls = 2
    MaxVisits = 2
    MaxGatewayRestarts = 1
    FileClients = {c1, c2}
    NoClient = NoClient
    NoPath = NoPath
    Paths = {p, q}
    Texts = {x, y}
    Empty = Empty
    Torn = Torn
    FileMixes = {{"read", "write", "put", "edit"}, {"index", "put", "move", "code", "fault"},
                 {"index", "embed", "rows", "app", "fault"}, {"index", "upload", "copy", "delete"}}
    MaxFileRequests = 3
    MaxIndexed = 2
    Rows = {r}
    Declarations = {d1, d2}
    NoDecl = NoDecl
    MaxSwaps = 1
INVARIANTS EndIsHeard AwaitingIsTrue TabsAreTold SignInsAreKept IndexIsKept SettledIsIndexed
PROPERTIES ImplementsChannel ReadMeansDelivered NeverAdded ReplacesWhatItSaw
SYMMETRY Alike
\* Time and every counter are bounded, so the instance comes to an end.
CHECK_DEADLOCK FALSE
