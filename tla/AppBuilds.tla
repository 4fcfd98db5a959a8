------------------------------ MODULE AppBuilds ------------------------------
(***************************************************************************)
(* One app's working version, its published ones, its history and their   *)
(* bundles on disk, while it is built, reverted, validated, published and  *)
(* served and its source space is archived: `build_app` and `revert_app`   *)
(* of services/platform/app/core/appbuild.py, `validate_app` and           *)
(* `publish_app` of core/apps.py, core/apphistory.py and DELETE of a space *)
(* in api/external/spaces.py.                                              *)
(*                                                                         *)
(* Connections are autocommit, so a statement outside a transaction is a   *)
(* step of its own; a transaction is one step unless it waits or calls git *)
(* while it holds the working version's row.  A package is its app.json's  *)
(* version and the rest of it.  The instances' databases, which a build    *)
(* migrates in the end, are not part of this module.                       *)
(***************************************************************************)
EXTENDS Naturals, Sequences

CONSTANTS
    Clients,      \* requests under way at once
    Contents,     \* what a package can hold besides its version
    Versions,     \* the versions its author writes into app.json
    NoOne,
    MaxRequests,  \* bound: builds and reverts, in all
    MaxEdits,     \* bound: edits of the source folder
    MaxCalls,     \* bound: validations and publishes
    MaxRestarts   \* bound

ASSUME ValuesAssumption == Contents # {} /\ Versions # {} /\ Versions \subseteq Nat
                           /\ NoOne \notin Clients
ASSUME BoundsAssumption == /\ MaxRequests \in Nat /\ MaxEdits \in Nat
                           /\ MaxCalls \in Nat /\ MaxRestarts \in Nat

VARIABLES
    folder,     \* the package in the source folder
    working,    \* the working version's row
    rowLock,    \* whose transaction has locked it
    published,  \* the published versions' rows, oldest first
    history,    \* the packages committed to the app's branch; a commit is its place
    bundles,    \* the bundles on disk
    made,       \* how many bundles were stored so far
    req,        \* each client's request: its step and what it has read and made
    archive,    \* DELETE of the source space: its step, the bundle it unset
    reader,     \* a request for the working version's bundle
    lost,       \* history variable: bundles a restart took from the requests' hands
    left        \* what is left of the bounds

rowVars == <<working, rowLock, published>>
vars == <<folder, rowVars, history, bundles, made, req, archive, reader, lost, left>>

NoBundle == [build |-> 0]
NoPackage == [version |-> 0]
Package  == [content : Contents, version : Nat]
Bundle   == [build : Nat \ {0}, content : Contents]
Maybe    == Bundle \union {NoBundle}
Row      == [version : Nat, bundle : Maybe, commit : Nat]       \* commit 0: none
Release  == [version : Nat, bundle : Maybe, commit : Nat, snapshot : Package]
Steps    == {"idle", "begin", "stage", "build", "record", "commit", "update", "drop",
             "writeBack", "revert", "writeSource", "validate", "publish"}
Early    == {"idle", "begin", "stage", "publish"}                \* has no package yet
Fields   == [at : Steps, doc : Package \union {NoPackage}, was : Nat, tracked : BOOLEAN,
             seen : Seq(Release), own : Maybe, prev : Maybe, commit : Nat, row : Row]
Request  == {r \in Fields : r.at \in Early \/ r.doc \in Package}
Archival == [at : {"open", "marked", "released", "done"}, drop : Maybe]
Reading  == [at : {"idle", "file", "again", "refused"}, path : Maybe, missed : Seq(Maybe)]
Bounds   == [requests : Nat, edits : Nat, calls : Nat, restarts : Nat]

TypeOK ==
    /\ folder \in Package /\ working \in Row /\ rowLock \in Clients \union {NoOne}
    /\ published \in Seq(Release) /\ history \in Seq(Package)
    /\ bundles \in SUBSET Bundle /\ made \in Nat
    /\ req \in [Clients -> Request]
    /\ archive \in Archival /\ reader \in Reading
    /\ lost \in SUBSET Bundle /\ left \in Bounds

NoRow     == [version |-> 0, bundle |-> NoBundle, commit |-> 0]
Idle      == [at |-> "idle", doc |-> NoPackage, was |-> 0, tracked |-> TRUE, seen |-> << >>,
              own |-> NoBundle, prev |-> NoBundle, commit |-> 0, row |-> NoRow]
NoReader  == [at |-> "idle", path |-> NoBundle, missed |-> << >>]

\* Registered, and not built yet.
Init ==
    /\ folder \in [content : Contents, version : Versions]
    /\ working = [NoRow EXCEPT !.version = folder.version]
    /\ rowLock = NoOne /\ published = << >> /\ history = << >>
    /\ bundles = {} /\ made = 0 /\ lost = {}
    /\ req = [c \in Clients |-> Idle]
    /\ archive = [at |-> "open", drop |-> NoBundle] /\ reader = NoReader
    /\ left = [requests |-> MaxRequests, edits |-> MaxEdits,
               calls |-> MaxCalls, restarts |-> MaxRestarts]

-----------------------------------------------------------------------------
(* What the steps share.                                                   *)

At(c, step)   == req[c].at = step
Goto(c, step) == req' = [req EXCEPT ![c].at = step]
End(c)        == req' = [req EXCEPT ![c] = Idle]
Uses(what)    == left[what] > 0 /\ left' = [left EXCEPT ![what] = @ - 1]

\* `authorize_space` finds the source space: its archiving is not committed.
Writable == archive.at \in {"open", "marked"}

\* Mutant of RowFree: the row is read without FOR UPDATE.
RowUnlocked == TRUE

\* A statement that locks the working version's row would not wait.
RowFree == rowLock = NoOne

\* A bundle directory is removed.
Drop(bundle) == bundles' = bundles \ {bundle}

\* Mutant of Rollback: the failed build's bundle is left behind.
LeaveBundle(c) == End(c) /\ UNCHANGED bundles

\* A build that is not recorded takes its bundle away again.
Rollback(c) == End(c) /\ Drop(req[c].own)

\* Mutant of Committed: an app with a history is at its head.
CommittedBefore(tree) == IF history = << >> THEN Append(history, tree) ELSE history

\* `AppHistory.commit`: on top of the head, if the tree differs.
Committed(tree) == IF history # << >> /\ history[Len(history)] = tree
                   THEN history ELSE Append(history, tree)

-----------------------------------------------------------------------------
(* `build_app`.                                                            *)

Build(c) ==
    /\ At(c, "idle") /\ Uses("requests") /\ Goto(c, "begin")
    /\ UNCHANGED <<folder, rowVars, history, bundles, made, archive, reader, lost>>

\* The first connection: the app, the right to write, the published versions.
Begin(c) ==
    /\ At(c, "begin")
    /\ IF Writable THEN req' = [req EXCEPT ![c].at = "stage", ![c].seen = published] ELSE End(c)
    /\ UNCHANGED <<folder, rowVars, history, bundles, made, archive, reader, lost, left>>

\* Mutant of Stage: goes on without a copy.
StageNothing(c) ==
    /\ At(c, "stage") /\ Goto(c, "build")
    /\ UNCHANGED <<folder, rowVars, history, bundles, made, archive, reader, lost, left>>

\* The copy of the folder that is checked and built.
Stage(c) ==
    /\ At(c, "stage")
    /\ req' = [req EXCEPT ![c].at = "build", ![c].doc = folder, ![c].was = folder.version]
    /\ UNCHANGED <<folder, rowVars, history, bundles, made, archive, reader, lost, left>>

Above(version, releases) == \A i \in DOMAIN releases : releases[i].version < version

\* `_bumped_version`: the next one after the highest of the published versions
\* that were read, unless the package is above them or the latest of them.
Bumped(doc, tracked, seen) ==
    LET newest    == seen[Len(seen)]
        unchanged == /\ tracked /\ newest.commit \in DOMAIN history
                     /\ history[newest.commit] = doc
    IN  IF seen = << >> \/ Above(doc.version, seen) \/ unchanged THEN {doc.version}
        ELSE {n \in {seen[i].version + 1 : i \in DOMAIN seen} : Above(n, seen)}

\* Diagnostics at any check or phase, or no builder.
BuildFails(c) ==
    /\ \/ At(c, "stage")
       \/ At(c, "build")
    /\ End(c)
    /\ UNCHANGED <<folder, rowVars, history, bundles, made, archive, reader, lost, left>>

\* The phases, the tree (unless git fails), the bump and `_store_bundle`.
Built(c) ==
    /\ At(c, "build")
    /\ made' = made + 1
    /\ LET doc    == req[c].doc
           bundle == [build |-> made', content |-> doc.content]
       IN  /\ bundles' = bundles \union {bundle}
           /\ \E tracked \in BOOLEAN : \E number \in Bumped(doc, tracked, req[c].seen) :
                req' = [req EXCEPT ![c].at = "record", ![c].own = bundle,
                                   ![c].tracked = tracked, ![c].doc.version = number,
                                   ![c].seen = << >>]
    /\ UNCHANGED <<folder, rowVars, history, archive, reader, lost, left>>

\* Mutant of Lock: the right to write is not looked at again.
LockUnchecked(c) ==
    /\ At(c, "record") /\ RowFree
    /\ rowLock' = c /\ Goto(c, "commit")
    /\ UNCHANGED <<folder, working, published, history, bundles, made, archive, reader, lost,
                   left>>

\* `_lock_working`: the row, then the right to write.
Lock(c) ==
    /\ At(c, "record") /\ RowFree
    /\ IF Writable THEN rowLock' = c /\ Goto(c, "commit") /\ UNCHANGED bundles
                   ELSE Rollback(c) /\ UNCHANGED rowLock
    /\ UNCHANGED <<folder, working, published, history, made, archive, reader, lost, left>>

\* `_commit`; a failing git leaves the build without a commit.
CommitTree(c) ==
    /\ At(c, "commit")
    /\ \/ /\ req[c].tracked
          /\ history' = Committed(req[c].doc)
          /\ req' = [req EXCEPT ![c].at = "update", ![c].commit = Len(history')]
       \/ /\ Goto(c, "update") /\ UNCHANGED history
    /\ UNCHANGED <<folder, rowVars, bundles, made, archive, reader, lost, left>>

\* Mutant of Previous: the bundle just recorded.
PreviousNew(c) == req[c].own

\* The bundle a build replaces, if no other row uses it.
Previous(c) == IF \E i \in DOMAIN published : published[i].bundle = working.bundle
               THEN NoBundle ELSE working.bundle

\* The rest of `_record`, up to its commit.
Record(c) ==
    /\ At(c, "update")
    /\ working' = [version |-> req[c].doc.version, bundle |-> req[c].own,
                   commit |-> req[c].commit]
    /\ rowLock' = NoOne
    /\ req' = [req EXCEPT ![c].at = "drop", ![c].own = NoBundle, ![c].prev = Previous(c)]
    /\ UNCHANGED <<folder, published, history, bundles, made, archive, reader, lost, left>>

\* The transaction fails: the row is as it was, the commit in git stays.
RecordFails(c) ==
    /\ \/ At(c, "commit")
       \/ At(c, "update")
    /\ rowLock' = NoOne /\ Rollback(c)
    /\ UNCHANGED <<folder, working, published, history, made, archive, reader, lost, left>>

DropPrevious(c) ==
    /\ At(c, "drop") /\ Drop(req[c].prev)
    /\ req' = [req EXCEPT ![c].at = "writeBack", ![c].prev = NoBundle]
    /\ UNCHANGED <<folder, rowVars, history, made, archive, reader, lost, left>>

\* `_write_back_version`, if app.json is still as it was staged.
WriteBack(c) ==
    /\ At(c, "writeBack")
    /\ folder' = IF folder.version = req[c].was
                 THEN [folder EXCEPT !.version = req[c].doc.version] ELSE folder
    /\ End(c)
    /\ UNCHANGED <<rowVars, history, bundles, made, archive, reader, lost, left>>

-----------------------------------------------------------------------------
(* `revert_app`: an earlier package again, then a build.                   *)

Revert(c) ==
    /\ At(c, "idle") /\ Writable /\ Uses("requests")
    /\ \E k \in DOMAIN history :
        req' = [req EXCEPT ![c].at = "revert", ![c].doc = history[k]]
    /\ UNCHANGED <<folder, rowVars, history, bundles, made, archive, reader, lost>>

\* `commit_revert` under the row's lock.
CommitRevert(c) ==
    /\ At(c, "revert") /\ RowFree
    /\ IF Writable THEN history' = Committed(req[c].doc) /\ Goto(c, "writeSource")
                   ELSE End(c) /\ UNCHANGED history
    /\ UNCHANGED <<folder, rowVars, bundles, made, archive, reader, lost, left>>

WriteSource(c) ==
    /\ At(c, "writeSource") /\ folder' = req[c].doc
    /\ req' = [req EXCEPT ![c] = [Idle EXCEPT !.at = "begin"]]
    /\ UNCHANGED <<rowVars, history, bundles, made, archive, reader, lost, left>>

-----------------------------------------------------------------------------
(* `validate_app`: the working version takes the folder's version.         *)

Validate(c) ==
    /\ At(c, "idle") /\ Writable /\ Uses("calls")
    /\ req' = [req EXCEPT ![c].at = "validate", ![c].doc = folder]
    /\ UNCHANGED <<folder, rowVars, history, bundles, made, archive, reader, lost>>

Validated(c) ==
    /\ At(c, "validate") /\ RowFree
    /\ working' = [working EXCEPT !.version = req[c].doc.version]
    /\ End(c)
    /\ UNCHANGED <<folder, rowLock, published, history, bundles, made, archive, reader, lost,
                   left>>

-----------------------------------------------------------------------------
(* `publish_app`: the working row as read, the folder as it is later.      *)

ReadWorking(c) ==
    /\ At(c, "idle") /\ Writable /\ working.bundle # NoBundle /\ Uses("calls")
    /\ req' = [req EXCEPT ![c].at = "publish", ![c].row = working]
    /\ UNCHANGED <<folder, rowVars, history, bundles, made, archive, reader, lost>>

VersionExists(row) == \E i \in DOMAIN published : published[i].version = row.version

Publish(c) ==
    /\ At(c, "publish")
    /\ LET row == req[c].row IN
       published' = IF VersionExists(row) THEN published
                    ELSE Append(published, [version |-> row.version, bundle |-> row.bundle,
                                            commit |-> row.commit, snapshot |-> folder])
    /\ End(c)
    /\ UNCHANGED <<folder, working, rowLock, history, bundles, made, archive, reader, lost, left>>

\* The snapshot of the folder is refused.
PublishFails(c) ==
    /\ At(c, "publish") /\ End(c)
    /\ UNCHANGED <<folder, rowVars, history, bundles, made, archive, reader, lost, left>>

-----------------------------------------------------------------------------
(* The source space is archived: marked, its bundles unset, committed, and *)
(* then removed.                                                           *)

Archive ==
    /\ archive.at = "open" /\ archive' = [archive EXCEPT !.at = "marked"]
    /\ UNCHANGED <<folder, rowVars, history, bundles, made, req, reader, lost, left>>

ReleaseBundles ==
    /\ archive.at = "marked" /\ RowFree
    /\ archive' = [at |-> "released", drop |-> working.bundle]
    /\ working' = [working EXCEPT !.bundle = NoBundle]
    /\ UNCHANGED <<folder, rowLock, published, history, bundles, made, req, reader, lost, left>>

DropBundles ==
    /\ archive.at = "released" /\ Drop(archive.drop)
    /\ archive' = [at |-> "done", drop |-> NoBundle]
    /\ UNCHANGED <<folder, rowVars, history, made, req, reader, lost, left>>

-----------------------------------------------------------------------------
(* `instance_bundle` for an instance that tracks the working version.      *)

ReadRow ==
    /\ reader.at \in {"idle", "again"}
    /\ reader' = IF Writable /\ working.bundle # NoBundle
                 THEN [reader EXCEPT !.at = "file", !.path = working.bundle] ELSE NoReader
    /\ reader' # reader
    /\ UNCHANGED <<folder, rowVars, history, bundles, made, req, archive, lost, left>>

LastTry(missed) == Len(missed) = 2

ReadFile ==
    /\ reader.at = "file"
    /\ LET missed == Append(reader.missed, reader.path) IN
       reader' = IF reader.path \in bundles THEN NoReader
                 ELSE [at |-> IF LastTry(missed) THEN "refused" ELSE "again",
                       path |-> NoBundle, missed |-> missed]
    /\ UNCHANGED <<folder, rowVars, history, bundles, made, req, archive, lost, left>>

\* The refusal is sent.
Refuse ==
    /\ reader.at = "refused" /\ reader' = NoReader
    /\ UNCHANGED <<folder, rowVars, history, bundles, made, req, archive, lost, left>>

-----------------------------------------------------------------------------
(* The folder's authors, and restarts.                                     *)

Edit ==
    /\ Uses("edits")
    /\ folder' \in [content : Contents, version : Versions]
    /\ UNCHANGED <<rowVars, history, bundles, made, req, archive, reader, lost>>

InHand == {req[c].own : c \in Clients} \union {req[c].prev : c \in Clients}
              \union {archive.drop}

\* Requests and transactions end where they are; files and commits stay.
Restart ==
    /\ Uses("restarts")
    /\ req' = [c \in Clients |-> Idle] /\ rowLock' = NoOne /\ reader' = NoReader
    /\ archive' = [at |-> CASE archive.at = "marked"   -> "open"
                            [] archive.at = "released" -> "done"
                            [] OTHER                   -> archive.at, drop |-> NoBundle]
    /\ lost' = lost \union (InHand \ {NoBundle})
    /\ UNCHANGED <<folder, working, published, history, bundles, made>>

BuildStep(c) ==
    \/ Begin(c)
    \/ Stage(c)
    \/ BuildFails(c)
    \/ Built(c)
    \/ Lock(c)
    \/ CommitTree(c)
    \/ Record(c)
    \/ RecordFails(c)
    \/ DropPrevious(c)
    \/ WriteBack(c)

OtherStep(c) ==
    \/ CommitRevert(c)
    \/ WriteSource(c)
    \/ Validated(c)
    \/ Publish(c)
    \/ PublishFails(c)

Ask(c) ==
    \/ Build(c)
    \/ Revert(c)
    \/ Validate(c)
    \/ ReadWorking(c)

Next ==
    \/ \E c \in Clients : Ask(c) \/ BuildStep(c) \/ OtherStep(c)
    \/ Archive
    \/ ReleaseBundles
    \/ DropBundles
    \/ ReadRow
    \/ ReadFile
    \/ Refuse
    \/ Edit
    \/ Restart

Spec == Init /\ [][Next]_vars

-----------------------------------------------------------------------------
(* Properties.                                                             *)

\* A bundle the working version points to is on disk: builds remove bundles
\* only after the row has let go of them (`_record`, `_drop_bundle`).
WorkingIsStored == working.bundle # NoBundle => working.bundle \in bundles

\* Once a space is archived, a build of its apps that ends later leaves the
\* working version without a bundle (`_lock_working`'s second look).
ArchivedIsReleased == ~Writable => working.bundle = NoBundle

\* Every bundle on disk is some version's or about to be removed or recorded
\* by a request, unless a restart came in between: nothing else collects them.
NothingLeaks ==
    bundles \subseteq {working.bundle} \union {published[i].bundle : i \in DOMAIN published}
                      \union InHand \union lost

\* The commit a version names is of the source its bundle was built from,
\* whatever builds, reverts and publishes overlap.
CommitIsBuilt ==
    \A row \in {working} \union {published[i] : i \in DOMAIN published} :
        row.bundle # NoBundle /\ row.commit # 0
            => history[row.commit].content = row.bundle.content

\* The working version never goes back to an older commit of its history:
\* the row's lock serializes the builds' commits with their recording.
CommitMovesForward ==
    [][working.commit # 0 /\ working'.commit # 0 => working'.commit >= working.commit]_vars

\* Every bundle is kept by someone, and let go when the space is archived; with the types.
BundlesAreKept == TypeOK /\ NothingLeaks /\ ArchivedIsReleased

\* "Published versions keep theirs" (`release_space_bundles`): a published
\* version's bundle stays on disk.
PublishedIsStored == \A i \in DOMAIN published : published[i].bundle \in bundles
===============================================================================
