------------------------------- MODULE EventHub -------------------------------
(***************************************************************************)
(* Change events: the hub and its sockets (services/platform/app/core/     *)
(* events.py and api/external/events.py), what AppData and the builder     *)
(* publish, and what an open app makes of it in the browser, whose code is *)
(* modelled from what the events are for (frontend/lib/platformEvents.ts,  *)
(* packages/homeai-sdk).                                                   *)
(*                                                                         *)
(* One instance of one app, in one space.  A step runs up to the next      *)
(* await: whoever writes publishes a moment later, a subscriber reads what *)
(* spaces it has a moment before it knows them.  The host and the sandbox  *)
(* of an app are one page, with one query.                                 *)
(***************************************************************************)
EXTENDS Naturals, Sequences, SequencesExt

CONSTANTS
    Pages,                             \* open apps, each with a socket and a user of its own
    MaxWrites, MaxBuilt, MaxTroubles   \* bounds: writes, builds, and changes of members, sessions and sockets

ASSUME EventsAssumption == MaxWrites \in Nat /\ MaxBuilt \in Nat /\ MaxTroubles \in Nat

VARIABLES
    writes, builds,    \* the instance's data and the app's bundle: how often each has changed
    owed,              \* the changes that are still to be published
    belongs, signedIn, \* is the page's user in the space, does their session last?
    sub,               \* the subscribers
    wire,              \* the frames on the way to each page
    page,
    blind, unbuilt,    \* history: pages that missed a change, a build, for want of a subscriber that knew the space,
                       \* or a build with the socket it was to come by
    troubles           \* what is left of the bound

dataVars  == <<writes, builds, owed>>
userVars  == <<belongs, signedIn>>
eventVars == <<dataVars, userVars, sub, wire, page, blind, unbuilt, troubles>>

Kinds == {"db_changed", "app_built"}
\* `knows`: the space is among its `spaces`; `seen`: it was, when they were last read.
SubRow  == [at : {"off", "opening", "read", "waiting", "refresh", "set", "send"}, knows : BOOLEAN, seen : BOOLEAN,
            wake : BOOLEAN, pending : Seq(Kinds), batch : Seq(Kinds)]
\* `query` and `reload`: what is under way, `again` and `anew`: whether it has to start over.
PageRow == [open : BOOLEAN, query : {"none", "asked", "read"}, got : Nat, again : BOOLEAN, failed : BOOLEAN, shows : Nat,
            reload : {"none", "asked", "read"}, fetched : Nat, anew : BOOLEAN, runs : Nat]

EventTypeOK ==
    /\ writes \in Nat /\ builds \in Nat /\ owed \in [Kinds -> Nat]
    /\ belongs \in [Pages -> BOOLEAN] /\ signedIn \in [Pages -> BOOLEAN]
    /\ sub \in [Pages -> SubRow] /\ wire \in [Pages -> Seq(Kinds \union {"ready"})]
    /\ page \in [Pages -> PageRow]
    /\ blind \in SUBSET Pages /\ unbuilt \in SUBSET Pages /\ troubles \in Nat

SubOff == [at |-> "off", knows |-> FALSE, seen |-> FALSE, wake |-> FALSE, pending |-> << >>, batch |-> << >>]
Shut   == [open |-> FALSE, query |-> "none", got |-> 0, again |-> FALSE, failed |-> FALSE, shows |-> 0,
           reload |-> "none", fetched |-> 0, anew |-> FALSE, runs |-> 0]

EventInit ==
    /\ writes = 0 /\ builds = 0 /\ owed = [k \in Kinds |-> 0]
    /\ belongs \in [Pages -> BOOLEAN] /\ signedIn = [c \in Pages |-> TRUE]
    /\ sub = [c \in Pages |-> SubOff] /\ wire = [c \in Pages |-> << >>] /\ page = [c \in Pages |-> Shut]
    /\ blind = {} /\ unbuilt = {} /\ troubles = MaxTroubles

-----------------------------------------------------------------------------
(* What changes, and who is told.                                          *)

\* A write, an action, an import or a migration changes something.
WriteRows ==
    /\ writes < MaxWrites /\ writes' = writes + 1 /\ owed' = [owed EXCEPT !["db_changed"] = @ + 1]
    /\ UNCHANGED <<builds, userVars, sub, wire, page, blind, unbuilt, troubles>>

\* A build of the source space is recorded.
RecordBuild ==
    /\ builds < MaxBuilt /\ builds' = builds + 1 /\ owed' = [owed EXCEPT !["app_built"] = @ + 1]
    /\ UNCHANGED <<writes, userVars, sub, wire, page, blind, unbuilt, troubles>>

\* Mutant of Coalesced: what was offered before stays.
CoalescedNot(q, k) == Append(q, k)

\* `offer`: an event takes the place of its like, at the end.
Coalesced(q, k) ==
    Append(IF Contains(q, k) THEN RemoveAt(q, CHOOSE i \in DOMAIN q : q[i] = k) ELSE q, k)

\* `hub._subscribers`.
InHub(c) == sub[c].at \in {"waiting", "refresh", "set", "send"}

\* `_changed`, `built` and `publish`, without an await.
PublishEvent(k) ==
    LET told == {c \in Pages : InHub(c) /\ sub[c].knows}
        deaf == {c \in Pages : InHub(c) /\ ~sub[c].knows} IN
    /\ owed[k] > 0 /\ owed' = [owed EXCEPT ![k] = @ - 1]
    /\ sub' = [c \in Pages |-> IF c \in told THEN [sub[c] EXCEPT !.pending = Coalesced(@, k), !.wake = TRUE] ELSE sub[c]]
    /\ blind' = IF k = "db_changed" THEN blind \union deaf ELSE blind
    /\ unbuilt' = IF k = "app_built" THEN unbuilt \union (Pages \ told) ELSE unbuilt
    /\ UNCHANGED <<writes, builds, userVars, wire, page, troubles>>

-----------------------------------------------------------------------------
(* A socket.                                                               *)

SubAt(c, at)    == sub[c].at = at
SubGoes(c, at)  == sub' = [sub EXCEPT ![c].at = at]
\* What a subscriber has not sent yet is gone with it; nothing makes up for a build.
Unsent(c)       == Contains(sub[c].batch, "app_built") \/ Contains(sub[c].pending, "app_built")
\* The frames on their way may still arrive, until the page opens the next socket.
SubCloses(c)    == sub' = [sub EXCEPT ![c] = SubOff] /\ unbuilt' = unbuilt \union {x \in {c} : Unsent(x)}

\* Accepted and authenticated.
Connect(c) ==
    /\ page[c].open /\ SubAt(c, "off") /\ signedIn[c]
    /\ SubGoes(c, "opening") /\ wire' = [wire EXCEPT ![c] = << >>]
    /\ unbuilt' = IF Contains(wire[c], "app_built") THEN unbuilt \union {c} ELSE unbuilt
    /\ UNCHANGED <<dataVars, userVars, page, blind, troubles>>

\* `_refresh`, what it reads: of a session that has ended nothing, which closes a socket unless it is being opened.
ReadSpaces(c) ==
    /\ sub[c].at \in {"opening", "refresh"}
    /\ IF signedIn[c] \/ SubAt(c, "opening")
       THEN sub' = [sub EXCEPT ![c].at = IF @ = "opening" THEN "read" ELSE "set", ![c].seen = signedIn[c] /\ belongs[c]]
            /\ UNCHANGED unbuilt
       ELSE SubCloses(c)
    /\ UNCHANGED <<dataVars, userVars, wire, page, blind, troubles>>

\* Mutant of JoinHub: `ready` is sent before the hub knows the subscriber, which misses what comes in between.
JoinHubLater(c) ==
    \/ /\ SubAt(c, "read") /\ ~sub[c].wake /\ sub' = [sub EXCEPT ![c].wake = TRUE] /\ wire' = [wire EXCEPT ![c] = <<"ready">>]
       /\ UNCHANGED <<dataVars, userVars, page, blind, unbuilt, troubles>>
    \/ /\ SubAt(c, "read") /\ sub[c].wake
       /\ sub' = [sub EXCEPT ![c].at = "waiting", ![c].knows = sub[c].seen, ![c].wake = FALSE]
       /\ UNCHANGED <<dataVars, userVars, wire, page, blind, unbuilt, troubles>>

\* `hub.add`, and then `ready`.
JoinHub(c) ==
    /\ SubAt(c, "read")
    /\ sub' = [sub EXCEPT ![c].at = "waiting", ![c].knows = sub[c].seen]
    /\ wire' = [wire EXCEPT ![c] = <<"ready">>]
    /\ UNCHANGED <<dataVars, userVars, page, blind, unbuilt, troubles>>

\* Mutant of TakeBacklog: the wake-up is cleared only after an await.
TakeBacklogLate(c) ==
    \/ /\ SubAt(c, "waiting") /\ sub[c].wake /\ sub[c].batch = << >>
       /\ sub' = [sub EXCEPT ![c].batch = sub[c].pending, ![c].pending = << >>]
       /\ UNCHANGED <<dataVars, userVars, wire, page, blind, unbuilt, troubles>>
    \/ /\ SubAt(c, "waiting") /\ sub[c].wake /\ sub[c].batch # << >>
       /\ \E due \in BOOLEAN :
             sub' = [sub EXCEPT ![c].at = IF due THEN "refresh" ELSE "send", ![c].wake = FALSE]
       /\ UNCHANGED <<dataVars, userVars, wire, page, blind, unbuilt, troubles>>

\* `next`: awake, it takes all that is pending; the time for a refresh may have come as well.
TakeBacklog(c) ==
    /\ SubAt(c, "waiting") /\ sub[c].wake
    /\ \E due \in BOOLEAN :
          sub' = [sub EXCEPT ![c].at = IF due THEN "refresh" ELSE "send", ![c].wake = FALSE,
                             ![c].batch = sub[c].pending, ![c].pending = << >>]
    /\ UNCHANGED <<dataVars, userVars, wire, page, blind, unbuilt, troubles>>

\* `REFRESH_S` has passed, with nothing taken.
RefreshDue(c) ==
    /\ SubAt(c, "waiting") /\ troubles < MaxTroubles /\ SubGoes(c, "refresh")
    /\ UNCHANGED <<dataVars, userVars, wire, page, blind, unbuilt, troubles>>

\* `sub.spaces` is what was read, changes of the members in the meantime come with the next refresh.
SetSpaces(c) ==
    /\ SubAt(c, "set") /\ sub' = [sub EXCEPT ![c].at = "send", ![c].knows = sub[c].seen]
    /\ UNCHANGED <<dataVars, userVars, wire, page, blind, unbuilt, troubles>>

\* One event after the other, and back to wait.
SendNext(c) ==
    /\ SubAt(c, "send")
    /\ IF sub[c].batch = << >>
       THEN SubGoes(c, "waiting") /\ UNCHANGED wire
       ELSE /\ sub' = [sub EXCEPT ![c].batch = Tail(@)] /\ wire' = [wire EXCEPT ![c] = Append(@, Head(sub[c].batch))]
    /\ UNCHANGED <<dataVars, userVars, page, blind, unbuilt, troubles>>

Trouble == troubles > 0 /\ troubles' = troubles - 1

\* The socket is lost, or a statement or a send fails: the subscriber leaves the hub.
LoseSocket(c) ==
    /\ Trouble /\ sub[c].at # "off" /\ SubCloses(c)
    /\ UNCHANGED <<dataVars, userVars, wire, page, blind>>

\* The user joins the space, leaves it, or their session ends.
UserChanges(c) ==
    /\ Trouble
    /\ \/ belongs' = [belongs EXCEPT ![c] = ~@] /\ UNCHANGED signedIn
       \/ signedIn[c] /\ signedIn' = [signedIn EXCEPT ![c] = FALSE] /\ UNCHANGED belongs
    /\ UNCHANGED <<dataVars, sub, wire, page, blind, unbuilt>>

\* The platform starts again; whoever was writing does not publish any more.
HubRestarts ==
    /\ Trouble /\ sub' = [c \in Pages |-> SubOff] /\ owed' = [k \in Kinds |-> 0]
    /\ unbuilt' = unbuilt \union {c \in Pages : owed["app_built"] > 0 \/ Unsent(c)}
    /\ UNCHANGED <<writes, builds, userVars, wire, page, blind>>

-----------------------------------------------------------------------------
(* A page.                                                                 *)

\* The app is opened: what it shows first is what was there.
OpenPage(c) ==
    /\ ~page[c].open /\ belongs[c] /\ signedIn[c]
    /\ page' = [page EXCEPT ![c] = [Shut EXCEPT !.open = TRUE, !.query = "asked", !.runs = builds]]
    /\ unbuilt' = unbuilt \ {c}
    /\ UNCHANGED <<dataVars, userVars, sub, wire, blind, troubles>>

\* Mutant of Requery: a change while a query is under way is forgotten.
RequeryIdle(p) == IF p.query = "none" THEN [p EXCEPT !.query = "asked"] ELSE p

\* `useQuery`: a change that comes while the query is under way runs it once more.
Requery(p) == IF p.query = "none" THEN [p EXCEPT !.query = "asked"] ELSE [p EXCEPT !.again = TRUE]

\* `hotReload`, likewise.
Reload(p) == IF p.reload = "none" THEN [p EXCEPT !.reload = "asked"] ELSE [p EXCEPT !.anew = TRUE]

\* A frame arrives.
Receive(c) ==
    /\ wire[c] # << >> /\ wire' = [wire EXCEPT ![c] = Tail(@)]
    /\ page' = [page EXCEPT ![c] = IF Head(wire[c]) = "app_built" THEN Reload(@) ELSE Requery(@)]
    /\ UNCHANGED <<dataVars, userVars, sub, blind, unbuilt, troubles>>

MayRead(c) == belongs[c] /\ signedIn[c]

\* The platform answers a query, with what there is by now.
ReadRows(c) ==
    /\ page[c].query = "asked" /\ MayRead(c)
    /\ page' = [page EXCEPT ![c].query = "read", ![c].got = writes]
    /\ blind' = blind \ {c}
    /\ UNCHANGED <<dataVars, userVars, sub, wire, unbuilt, troubles>>

Rerun(again) == IF again THEN "asked" ELSE "none"

\* Its answer is shown, or none comes: what was shown before stays, with an error.
ShowRows(c) ==
    /\ \/ /\ page[c].query = "read"
          /\ page' = [page EXCEPT ![c].query = Rerun(page[c].again), ![c].again = FALSE, ![c].shows = page[c].got, ![c].failed = FALSE]
          /\ UNCHANGED troubles
       \/ /\ page[c].query # "none" /\ (Trouble \/ (~MayRead(c) /\ UNCHANGED troubles))
          /\ page' = [page EXCEPT ![c].query = Rerun(page[c].again), ![c].again = FALSE, ![c].failed = TRUE]
    /\ UNCHANGED <<dataVars, userVars, sub, wire, blind, unbuilt>>

\* The platform hands out the bundle.
ReadBundle(c) ==
    /\ page[c].reload = "asked" /\ MayRead(c)
    /\ page' = [page EXCEPT ![c].reload = "read", ![c].fetched = builds] /\ unbuilt' = unbuilt \ {c}
    /\ UNCHANGED <<dataVars, userVars, sub, wire, blind, troubles>>

\* It is loaded, the app starts anew with its query; or "a failed hot reload leaves the running version".
LoadBundle(c) ==
    /\ \/ /\ page[c].reload = "read"
          /\ page' = [page EXCEPT ![c].reload = Rerun(page[c].anew), ![c].anew = FALSE, ![c].runs = page[c].fetched,
                                  ![c].query = "asked", ![c].again = FALSE]
          /\ UNCHANGED <<unbuilt, troubles>>
       \/ /\ page[c].reload # "none" /\ (Trouble \/ (~MayRead(c) /\ UNCHANGED troubles))
          /\ page' = [page EXCEPT ![c].reload = Rerun(page[c].anew), ![c].anew = FALSE]
          /\ unbuilt' = unbuilt \union {c}
    /\ UNCHANGED <<dataVars, userVars, sub, wire, blind>>

SocketStep(c) ==
    \/ Connect(c) \/ ReadSpaces(c) \/ JoinHub(c) \/ TakeBacklog(c) \/ RefreshDue(c) \/ SetSpaces(c) \/ SendNext(c)
    \/ LoseSocket(c)

PageStep(c) == OpenPage(c) \/ Receive(c) \/ ReadRows(c) \/ ShowRows(c) \/ ReadBundle(c) \/ LoadBundle(c)

EventNext ==
    \/ WriteRows \/ RecordBuild \/ (\E k \in Kinds : PublishEvent(k)) \/ HubRestarts
    \/ \E c \in Pages : SocketStep(c) \/ PageStep(c) \/ UserChanges(c)

EventSpec == EventInit /\ [][EventNext]_eventVars

-----------------------------------------------------------------------------
(* Properties.                                                             *)

\* "A subscriber's backlog never grows past one event per key", and it is awake while there is one.
BacklogIsSmall == \A c \in Pages : IsInjective(sub[c].pending) /\ (sub[c].pending # << >> => sub[c].wake)

\* Nothing is on its way to the page, from the change on.
Quiet(c, k) ==
    /\ page[c].open /\ SubAt(c, "waiting") /\ ~sub[c].wake /\ wire[c] = << >> /\ owed[k] = 0
    /\ page[c].query = "none" /\ page[c].reload = "none"

\* However changes overlap with queries, batches, refreshes and new sockets: a page that comes to rest shows the
\* latest rows and runs the latest bundle, but where its query failed, for what was published while its socket's
\* subscriber did not know of the space, and for builds while there was no socket or which were lost with one.
PagesKeepUp ==
    \A c \in Pages :
        /\ Quiet(c, "db_changed") => page[c].shows = writes \/ page[c].failed \/ c \in blind
        /\ Quiet(c, "app_built") => page[c].runs = builds \/ c \in unbuilt

EventsArrive == EventTypeOK /\ BacklogIsSmall /\ PagesKeepUp
===============================================================================
