------------------------------ MODULE MCPlatform ------------------------------
(* The platform for TLC: each behaviour is one of the scenes, the builds of  *)
(* an app, the databases of an app, people and their sessions, spaces and    *)
(* their members, or the events of an app; the others stay as they started.  *)
EXTENDS AppBuilds, AppData, Accounts, Spaces, EventHub, TLC

CONSTANTS Scenes, MaxEvents  \* bound: builds, reverts, edits, calls and restarts of "builds", together

VARIABLE scene

BuildsAtRest == working = [NoRow EXCEPT !.version = folder.version] /\ folder.content = CHOOSE x \in Contents : TRUE

DataAtRest ==
    /\ installed = [i \in Instances |-> "never"] /\ tracked = [i \in Instances |-> TRUE]
    /\ pinned = [i \in Instances |-> UNION Schemas] /\ asks = TRUE

\* The two columns are alike: an instance starts with either both or one of them; one that is not installed with
\* nothing that matters. The agent's tool is allowed where an instance tracks the working copy and has both columns.
DataStarts ==
    /\ ~asks => \E i \in Instances : Live(i) /\ tracked[i] /\ pinned[i] = UNION Schemas
    /\ \A i \in Instances :
           pinned[i] \in IF installed[i] = "never" THEN {UNION Schemas}
                         ELSE {UNION Schemas, CHOOSE s \in Schemas : Cardinality(s) = 1}

\* The tool's permission changes while a migration is pending.
DataOfInterest == asks' # asks => \E i \in Instances : Pending(i) # {}

AccountsAtRest == bootstrapped = NoPerson /\ mix = CHOOSE x \in Mixes : TRUE

\* What no request of the mix looks at starts in one way.
AccountsStart ==
    /\ mix \intersect {"login", "step_up"} = {} => totp[Alice] = NoTotp
    /\ "pair" \notin mix => \A d \in Pairs : pairs[d] = NoPerson
    /\ mix \intersect {"patch", "invite"} = {} => ~account[Bob].admin

\* Alice is an admin, the third person is disabled or not there yet; but for the mix that creates it, the shared
\* space is Bob's, with Alice as its other owner or a viewer.
SpacesStart ==
    LET here == IF "create" \in errands THEN {Alice} ELSE {Alice} \union Shares IN
    /\ errands \in SpaceMixes
    /\ \E disabled \in BOOLEAN :
          person = [p \in Members |-> [exists |-> p \in {Alice, Bob} \/ disabled, enabled |-> p \in {Alice, Bob}, admin |-> p = Alice]]
    /\ room = [s \in Rooms |-> IF s \in here THEN Made ELSE Unmade]
    /\ \E r \in {"owner", "viewer"} :
          roleIn = [s \in Rooms |-> IF s \notin here THEN NoRole ELSE IF s = Alice THEN OnlyOwner(s)
                                     ELSE [NoRole EXCEPT ![Alice] = r, ![Bob] = "owner"]]

SpacesAtRest ==
    /\ person = [p \in Members |-> [exists |-> FALSE, enabled |-> FALSE, admin |-> FALSE]]
    /\ room = [s \in Rooms |-> Unmade] /\ roleIn = [s \in Rooms |-> NoRole]
    /\ errands = CHOOSE x \in SpaceMixes : TRUE

\* Requests are for the shared space or Alice's own, where she and Bob are enough.
AsksOfInterest ==
    \A c \in Asks : LET q == ask'[c] IN
        q.at = "known" => /\ q.space \in Shares \union {Alice} /\ (q.space = Alice => q.target \in {Alice, Bob})
                          /\ (q.op = "add" => q.role # "editor")

EventsAtRest == belongs = [c \in Pages |-> FALSE]

PlatformInit ==
    /\ scene \in Scenes
    /\ scene # "data" => DataAtRest
    /\ scene # "accounts" => AccountsAtRest
    /\ scene # "events" => EventsAtRest
    /\ IF scene = "spaces" THEN SpacesStart ELSE SpacesAtRest
    /\ Init /\ AppDataInit /\ AccountsInit /\ SpacesInit /\ EventInit
    /\ scene = "accounts" => AccountsStart
    /\ scene = "data" => DataStarts
    /\ scene # "builds" => BuildsAtRest

Events ==
    MaxRequests + MaxEdits + MaxCalls + MaxRestarts
        - (left.requests + left.edits + left.calls + left.restarts)

\* Where every request is used, something else leaves less time.
BuildsOfInterest == Events' <= IF left'.requests = 0 THEN MaxEvents - 1 ELSE MaxEvents

PlatformNext ==
    /\ UNCHANGED scene
    /\ \/ scene = "builds" /\ Next /\ BuildsOfInterest /\ UNCHANGED <<appDataVars, accountVars, spaceVars, eventVars>>
       \/ scene = "data" /\ AppDataNext /\ DataOfInterest /\ UNCHANGED <<vars, accountVars, spaceVars, eventVars>>
       \/ scene = "accounts" /\ AccountsNext /\ UNCHANGED <<vars, appDataVars, spaceVars, eventVars>>
       \/ scene = "spaces" /\ SpacesNext /\ AsksOfInterest /\ UNCHANGED <<vars, appDataVars, accountVars, eventVars>>
       \/ scene = "events" /\ EventNext /\ UNCHANGED <<vars, appDataVars, accountVars, spaceVars>>

PlatformSpec == PlatformInit /\ [][PlatformNext]_<<scene, vars, appDataVars, accountVars, spaceVars, eventVars>>

\* No scene has two of Clients, DataClients, Callers and Asks, nor of Contents and Columns: these
\* are the same model values.
Alike == Permutations(Clients) \union Permutations(Contents)
===============================================================================
