\* Three builds and reverts, two at once, or fewer with up to two of an edit, a publish or
\* validation and a restart; three requests on one instance, two at once; three requests of people, two at once, of one
\* mix; two requests for spaces, of one mix; two writes and a build with one page and one trouble.
SPECIFICATION PlatformSpec
CONSTANTS
    Scenes = {"builds", "data", "accounts", "spaces", "events"}
    MaxEvents = 4
    Clients = {a, b}
    Contents = {x, y}
    Versions = {1}
    NoOne = NoOne
    MaxRequests = 3
    MaxEdits = 1
    MaxCalls = 1
    MaxRestarts = 1
    Instances = {i}
    DataClients = {a, b}
    Columns = {x, y}
    Schemas = {{x}, {y}, {x, y}}
    Nobody = Nobody
    SlowCopies = FALSE
    MaxMigrations = 2
    MaxDataRequests = 3
    Persons = {u1, u2, u3, u4}
    Alice = u1
    Bob = u2
    Callers = {a, b}
    Pairs = {d}
    NoPerson = NoPerson
    NoPair = NoPair
    Mixes = {{"setup", "accept", "uninvite", "invite", "restart"}, {"patch", "login", "password", "sign_out", "restart"},
             {"totp_enroll", "totp_confirm", "totp_disable", "login"}, {"challenge", "passkey", "register", "step_up"},
             {"challenge", "pair", "unpair", "login"}}
    MaxAccountCalls = 3
    MaxClock = 3
    Members = {u1, u2, u3}
    Shares = {s}
    Asks = {a, b}
    NoAsk = NoAsk
    SpaceMixes = {{"patch", "remove"}, {"add", "cli", "fault"}, {"rename", "archive", "remove"}, {"create", "people"}}
    MaxAsks = 2
    MaxTurnovers = 1
    Pages = {o}
    MaxWrites = 2
    MaxBuilt = 1
    MaxTroubles = 1
INVARIANTS WorkingIsStored BundlesAreKept CommitIsBuilt DataIsKept AccountsAreKept SingleUse SignedInIsCurrent SpacesAreOwned EventsArrive
PROPERTIES CommitMovesForward DropsOnlyApproved RemovedIdle ArchivedIsFrozen
SYMMETRY Alike
\* Time and every counter are bounded, so the instance comes to an end.
CHECK_DEADLOCK FALSE
