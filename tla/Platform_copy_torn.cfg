\* Two writes, the second during the first one's copy.
SPECIFICATION PlatformSpec
CONSTANTS
    Scenes = {"data"}
    MaxEvents = 4
    Clients = {a, b}
    Contents = {x, y}
    Versions = {1}
    NoOne = NoOne
    MaxRequests = 3
    MaxEdits = 1
    MaxCalls = 1
    MaxRestarts = 1
    Instances = {i}
    DataClients = {a, b}
    Columns = {x, y}
    Schemas = {{x}, {y}, {x, y}}
    Nobody = Nobody
    SlowCopies = TRUE
    MaxMigrations = 2
    MaxDataRequests = 2
    Persons = {u1, u2, u3, u4}
    Alice = u1
    Bob = u2
    Callers = {a, b}
    Pairs = {d}
    NoPerson = NoPerson
    NoPair = NoPair
    Mixes = {{"setup", "accept", "uninvite", "invite", "restart"}, {"patch", "login", "password", "sign_out", "restart"},
             {"totp_enroll", "totp_confirm", "totp_disable", "login"}, {"challenge", "passkey", "register", "step_up"},
             {"challenge", "pair", "unpair", "login"}}
    MaxAccountCalls = 3
    MaxClock = 3
    Members = {u1, u2, u3}
    Shares = {s}
    Asks = {a, b}
    NoAsk = NoAsk
    SpaceMixes = {{"patch", "remove"}, {"add", "cli", "fault"}, {"rename", "archive", "remove"}, {"create", "people"}}
    MaxAsks = 2
    MaxTurnovers = 1
    Pages = {o}
    MaxWrites = 2
    MaxBuilt = 1
    MaxTroubles = 1
INVARIANT CopyIsWhole
SYMMETRY Alike
\* Time and every counter are bounded, so the instance comes to an end.
CHECK_DEADLOCK FALSE
