\* Two tabs show one approval; one answers it, and the thread asks for another.
SPECIFICATION AgentSpec
CONSTANTS
    Clients = {c1, c2}
    Faults = {"start"}
    MaxTurns = 2
    MaxFrames = 1
    MaxCkpts = 2
    MaxCancels = 2
    RunLimit = TRUE
    Branching = FALSE
    Views = {"chat"}
    MaxEvents = 4
    Tabs = {c1, c2}
    MaxAsked = 2
    MaxChatTurns = 3
    MaxSent = 3
    MaxDrops = 0
    Person = Person
    Shared = Shared
    AgentCalls = {c1, c2}
    Visits = {v}
    NoCall = NoCall
    MaxSecrets = 2
    MaxRefreshes = 1
    MaxAgentCalls = 2
    MaxVisits = 2
    MaxGatewayRestarts = 1
    FileClients = {c1, c2}
    NoClient = NoClient
    NoPath = NoPath
    Paths = {p, q}
    Texts = {x, y}
    Empty = Empty
    Torn = Torn
    FileMixes = {{"read", "write", "put", "edit"}, {"index", "put", "move", "code", "fault"},
                 {"index", "embed", "rows", "app", "fault"}, {"index", "upload", "copy", "delete"}}
    MaxFileRequests = 3
    MaxIndexed = 2
    Rows = {r}
    Declarations = {d1, d2}
    NoDecl = NoDecl
    MaxSwaps = 1
INVARIANT AnswersWhatWaits
SYMMETRY Alike
\* Time and every counter are bounded, so the instance comes to an end.
CHECK_DEADLOCK FALSE
