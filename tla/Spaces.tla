-------------------------------- MODULE Spaces --------------------------------
(***************************************************************************)
(* Spaces and who belongs to them: services/platform/app/core/spaces.py   *)
(* with its routes in api/external/spaces.py, the principal a request acts *)
(* as (core/principal.py) and the spaces made with users.                  *)
(*                                                                         *)
(* A request loads its principal, is authorized, and only then, in a       *)
(* transaction, locks the space's row, looks again and writes: a statement *)
(* outside a transaction is a step of its own, and so is each of these     *)
(* three.  A personal space has the name of its person; who is an admin    *)
(* and who is enabled is decided elsewhere (`PersonChanges`).  Slugs are   *)
(* not modelled: one that is taken refuses a shared space, and a personal  *)
(* one takes the next that is free.                                        *)
(***************************************************************************)
EXTENDS Naturals, FiniteSets

CONSTANTS
    Members,        \* people, and their personal spaces
    Shares,         \* shared spaces
    Asks,           \* requests under way at once
    NoAsk,
    SpaceMixes,     \* which operations a behaviour asks for
    MaxAsks,        \* bound: requests, in all
    MaxTurnovers    \* bound: changes of people and restarts

ASSUME SpacesAssumption == /\ Members \intersect Shares = {} /\ NoAsk \notin Asks
                           /\ MaxAsks \in Nat /\ MaxTurnovers \in Nat

VARIABLES
    room,       \* the rows of spaces
    roleIn,     \* the rows of memberships: each person's role in each space
    person,     \* what the tables of users say of each person
    holder,     \* whose transaction has locked the row of a space
    ask,        \* the requests
    errands,    \* the mix of this behaviour
    asksLeft    \* what is left of the bounds

roomVars  == <<room, roleIn>>
spaceVars == <<room, roleIn, person, holder, ask, errands, asksLeft>>

Rooms  == Members \union Shares
Roles  == {"owner", "editor", "viewer"}
RoomNames == {"old", "new"}
Manage == {"rename", "archive", "add", "patch", "remove"}
RoomRow   == [made : BOOLEAN, archived : BOOLEAN, name : RoomNames]
PersonRow == [exists : BOOLEAN, enabled : BOOLEAN, admin : BOOLEAN]
\* `via`: in person, in person as an admin who has stepped up, or through an agent.
AskRow    == [at : {"idle", "known", "allowed", "locked", "checked"}, op : Manage,
              via : {"person", "admin", "agent"}, who : Members \union {NoAsk},
              space : Rooms \union {NoAsk}, target : Members \union {NoAsk}, role : Roles]
Asked     == {q \in AskRow : q.at # "idle" => q.space \in Rooms /\ q.target \in Members}

SpacesTypeOK ==
    /\ room \in [Rooms -> RoomRow] /\ roleIn \in [Rooms -> [Members -> Roles \union {"none"}]]
    /\ person \in [Members -> PersonRow] /\ holder \in [Rooms -> Asks \union {NoAsk}]
    /\ ask \in [Asks -> Asked] /\ errands \in SpaceMixes
    /\ asksLeft \in [asks : Nat, turnovers : Nat]

Unmade  == [made |-> FALSE, archived |-> FALSE, name |-> "old"]
Made    == [Unmade EXCEPT !.made = TRUE]
NoRole  == [p \in Members |-> "none"]
AskRest == [at |-> "idle", op |-> "add", via |-> "person", who |-> NoAsk, space |-> NoAsk, target |-> NoAsk,
            role |-> "viewer"]

\* `_add_owner`: who creates a space is its one member.
OnlyOwner(p) == [NoRole EXCEPT ![p] = "owner"]

Owners(s) == {p \in Members : roleIn[s][p] = "owner"}

\* People of whom some are from before there were spaces, and shared spaces as they may have become.
SpacesInit ==
    /\ person \in [Members -> {q \in PersonRow : q.enabled \/ q.admin => q.exists}]
    /\ room \in [Rooms -> {Unmade, Made}] /\ \A p \in Members : room[p].made => person[p].exists
    /\ roleIn \in [Rooms -> [Members -> Roles \union {"none"}]]
    /\ \A p \in Members : roleIn[p] = IF room[p].made THEN OnlyOwner(p) ELSE NoRole
    /\ \A s \in Shares : IF room[s].made THEN Owners(s) # {} ELSE roleIn[s] = NoRole
    /\ holder = [s \in Rooms |-> NoAsk] /\ ask = [c \in Asks |-> AskRest] /\ errands \in SpaceMixes
    /\ asksLeft = [asks |-> MaxAsks, turnovers |-> MaxTurnovers]

-----------------------------------------------------------------------------
(* Creating spaces.                                                        *)

\* `_insert_space`, `_add_owner` and the directories, in one transaction.
Opens(s, p) ==
    /\ room' = [room EXCEPT ![s] = Made]
    /\ roleIn' = [roleIn EXCEPT ![s] = OnlyOwner(p)]

Spend(bound) == asksLeft[bound] > 0 /\ asksLeft' = [asksLeft EXCEPT ![bound] = @ - 1]

\* `_principal`: the session is active and its user enabled.
ActivePerson(p) == person[p].exists /\ person[p].enabled

\* `create_shared_space`, by a person. Refused where the slug is taken, it changes nothing.
CreateSpace(p, s) ==
    /\ "create" \in errands /\ ActivePerson(p) /\ ~room[s].made
    /\ Spend("asks") /\ Opens(s, p)
    /\ UNCHANGED <<person, holder, ask, errands>>

\* `insert_user`: the user and the personal space, or neither.
CreatePerson(p) ==
    /\ "people" \in errands /\ ~person[p].exists /\ Spend("turnovers")
    /\ person' = [person EXCEPT ![p] = [exists |-> TRUE, enabled |-> TRUE, admin |-> FALSE]]
    /\ Opens(p, p)
    /\ UNCHANGED <<holder, ask, errands>>

\* An admin enables, disables, promotes or demotes somebody; spaces do not notice.
PersonChanges(p) ==
    /\ "people" \in errands /\ person[p].exists /\ Spend("turnovers")
    /\ \E q \in {[person[p] EXCEPT !.enabled = ~@], [person[p] EXCEPT !.admin = ~@]} : person' = [person EXCEPT ![p] = q]
    /\ UNCHANGED <<roomVars, holder, ask, errands>>

\* `backfill_personal_spaces`: whoever has no personal space gets one.
Backfilled ==
    LET without == {p \in Members : person[p].exists /\ ~room[p].made} IN
    /\ room' = [s \in Rooms |-> IF s \in without THEN Made ELSE room[s]]
    /\ roleIn' = [s \in Rooms |-> IF s \in without THEN OnlyOwner(s) ELSE roleIn[s]]

\* The platform starts again: what was under way is gone, its transactions are rolled back.
SpacesRestart ==
    /\ Spend("turnovers") /\ Backfilled
    /\ holder' = [s \in Rooms |-> NoAsk] /\ ask' = [c \in Asks |-> AskRest]
    /\ UNCHANGED <<person, errands>>

-----------------------------------------------------------------------------
(* A request.                                                              *)

AskIs(c, at)   == ask[c].at = at
AskGoes(c, at) == ask' = [ask EXCEPT ![c].at = at]
AskEnds(c)     == ask' = [ask EXCEPT ![c] = AskRest]

\* `_principal`: what the request knows of its caller, it knows from now on.
BeginAsk(c) ==
    /\ AskIs(c, "idle") /\ Spend("asks")
    /\ \E q \in [at : {"known"}, op : Manage \intersect errands, via : {"person", "admin", "agent"},
                 who : {p \in Members : ActivePerson(p)}, space : Rooms, target : Members, role : Roles] :
          /\ q.via = "admin" => person[q.who].admin
          /\ q.op \in {"rename", "archive"} => q.target = q.who
          /\ q.op \notin {"add", "patch"} => q.role = "viewer"
          /\ ask' = [ask EXCEPT ![c] = q]
    /\ UNCHANGED <<roomVars, person, holder, errands>>

Open(s) == room[s].made /\ ~room[s].archived

\* `ROLE_RANK` against `NEED_RANK`.
Enough(need) ==
    CASE need = "read" -> Roles [] need = "write" -> {"owner", "editor"} [] need = "manage" -> {"owner"}

\* `authorize_space`: the space is there for the caller, within the `scope` of a routine's agent,
\* and `manage` is granted in person only.
Authorized(p, agent, scope, s, need) ==
    /\ s \in scope /\ Open(s) /\ roleIn[s][p] \in Enough(need)
    /\ need = "manage" => ~agent

\* `authorize_membership`: who was an admin, stepped up, when the request began may change the members of any space.
Overrides(q) ==
    q.op \in {"add", "patch", "remove"} /\ q.via = "admin" /\ Open(q.space)

\* Refused, or for a personal space (`_reject_personal`), the request is over.
Authorize(c) ==
    LET q == ask[c] IN
    /\ AskIs(c, "known")
    /\ IF /\ Authorized(q.who, q.via = "agent", Rooms, q.space, "manage") \/ Overrides(q)
          /\ q.op = "rename" \/ q.space \in Shares
       THEN AskGoes(c, "allowed")
       ELSE AskEnds(c)
    /\ UNCHANGED <<roomVars, person, holder, errands, asksLeft>>

\* The recovery CLI adds members without asking who is calling.
CliAdds(c) ==
    /\ "cli" \in errands /\ AskIs(c, "idle") /\ Spend("asks")
    /\ \E s \in Shares, p \in Members, r \in Roles :
          /\ Open(s)
          /\ ask' = [ask EXCEPT ![c] = [AskRest EXCEPT !.at = "allowed", !.op = "add", !.space = s, !.target = p, !.role = r]]
    /\ UNCHANGED <<roomVars, person, holder, errands>>

\* Mutant of Unlocked: FOR UPDATE does not wait.
UnlockedAlways(s) == TRUE

\* No other transaction has the space's row.
Unlocked(s) == holder[s] = NoAsk

\* Mutant of RenameSpace: an archived space is renamed too.
RenameAnyway(c) ==
    LET s == ask[c].space IN
    /\ AskIs(c, "allowed") /\ ask[c].op = "rename" /\ Unlocked(s)
    /\ room' = [room EXCEPT ![s].name = "new"] /\ AskEnds(c)
    /\ UNCHANGED <<roleIn, person, holder, errands, asksLeft>>

\* `rename_space`: one UPDATE of a space that is not archived.
RenameSpace(c) ==
    LET s == ask[c].space IN
    /\ AskIs(c, "allowed") /\ ask[c].op = "rename" /\ Unlocked(s)
    /\ room' = IF room[s].archived THEN room ELSE [room EXCEPT ![s].name = "new"]
    /\ AskEnds(c)
    /\ UNCHANGED <<roleIn, person, holder, errands, asksLeft>>

\* `archive_space`: rows, members and files are kept.
ArchiveSpace(c) ==
    LET s == ask[c].space IN
    /\ AskIs(c, "allowed") /\ ask[c].op = "archive" /\ Unlocked(s)
    /\ room' = [room EXCEPT ![s].archived = TRUE] /\ AskEnds(c)
    /\ UNCHANGED <<roleIn, person, holder, errands, asksLeft>>

\* `_lock_space`, at the start of the transaction: a space archived meanwhile is not found.
LockSpace(c) ==
    LET s == ask[c].space IN
    /\ AskIs(c, "allowed") /\ ask[c].op \in {"add", "patch", "remove"} /\ Unlocked(s)
    /\ IF room[s].archived
       THEN AskEnds(c) /\ UNCHANGED holder
       ELSE AskGoes(c, "locked") /\ holder' = [holder EXCEPT ![s] = c]
    /\ UNCHANGED <<roomVars, person, errands, asksLeft>>

\* The transaction ends and lets go of the row.
EndsAsk(c) == AskEnds(c) /\ holder' = [holder EXCEPT ![ask[c].space] = NoAsk]

\* `_other_owners`: of those but the one who is about to change.
OtherOwners(s, p) == Owners(s) \ {p}

\* `last_owner`: an owner who goes, or is one no longer, leaves another.
LastOwner(q) ==
    /\ roleIn[q.space][q.target] = "owner"
    /\ q.op = "remove" \/ (q.op = "patch" /\ q.role # "owner")
    /\ OtherOwners(q.space, q.target) = {}

\* `user_disabled`, `already_member`, `not_found` and `last_owner`.
AskRefused(q) ==
    LET member == roleIn[q.space][q.target] # "none" IN
    \/ q.op = "add" /\ (~person[q.target].exists \/ ~person[q.target].enabled \/ member)
    \/ q.op \in {"patch", "remove"} /\ ~member
    \/ LastOwner(q)

\* What `add_member`, `set_member_role` and `remove_member` read before they write.
CheckMember(c) ==
    /\ AskIs(c, "locked")
    /\ IF AskRefused(ask[c]) THEN EndsAsk(c) ELSE AskGoes(c, "checked") /\ UNCHANGED holder
    /\ UNCHANGED <<roomVars, person, errands, asksLeft>>

\* Their INSERT, UPDATE or DELETE, the entry in the audit log, and the commit.
WriteMember(c) ==
    LET q == ask[c] IN
    /\ AskIs(c, "checked")
    /\ roleIn' = [roleIn EXCEPT ![q.space][q.target] = IF q.op = "remove" THEN "none" ELSE q.role]
    /\ EndsAsk(c)
    /\ UNCHANGED <<room, person, errands, asksLeft>>

\* The connection is lost in the middle of the transaction.
AskFails(c) ==
    /\ ask[c].at \in {"locked", "checked"} /\ "fault" \in errands
    /\ EndsAsk(c)
    /\ UNCHANGED <<roomVars, person, errands, asksLeft>>

AskStep(c) ==
    \/ BeginAsk(c) \/ CliAdds(c) \/ Authorize(c) \/ RenameSpace(c) \/ ArchiveSpace(c)
    \/ LockSpace(c) \/ CheckMember(c) \/ WriteMember(c) \/ AskFails(c)

SpacesNext ==
    \/ \E c \in Asks : AskStep(c)
    \/ \E p \in Members : CreatePerson(p) \/ PersonChanges(p) \/ (\E s \in Shares : CreateSpace(p, s))
    \/ SpacesRestart

SpacesSpec == SpacesInit /\ [][SpacesNext]_spaceVars

-----------------------------------------------------------------------------
(* Properties.                                                             *)

\* "Serialize membership changes on one space (last-owner checks)": whatever members do to each other
\* at once, and admins with them, a shared space has an owner.
OwnerRemains == \A s \in Shares : room[s].made => Owners(s) # {}

\* "A personal space's only member is its owner": nobody joins it, and nobody leaves or archives it.
PersonalIsAlone == \A p \in Members : room[p].made => roleIn[p] = OnlyOwner(p) /\ ~room[p].archived

\* Both, with the types.
SpacesAreOwned == SpacesTypeOK /\ OwnerRemains /\ PersonalIsAlone

\* An archived space stays as it was archived: what was allowed before comes too late.
ArchivedIsFrozen ==
    [][\A s \in Rooms : room[s].archived => room'[s] = room[s] /\ roleIn'[s] = roleIn[s]]_spaceVars
===============================================================================
