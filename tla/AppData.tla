------------------------------- MODULE AppData -------------------------------
(***************************************************************************)
(* The databases of one app's instances: installing, updating and          *)
(* uninstalling them, the writes of their users, the computed migrations   *)
(* with their approvals, and the read-only copies for exec containers.     *)
(* `AppData` of services/platform/app/core/appdata.py with core/appdb.py,  *)
(* core/appschema.py, core/hitl.py and the instances of core/apps.py.      *)
(*                                                                         *)
(* The platform is one process: what runs between two awaits is one step,  *)
(* what a worker thread does on a database is a step of its own, and a     *)
(* Postgres transaction is one step.  A schema is a set of columns; a plan *)
(* is the columns it adds and those it drops (a rebuild that retypes a     *)
(* column drops it and adds another); of the rows only matters which       *)
(* columns hold something a user wrote.                                    *)
(***************************************************************************)
EXTENDS Naturals, FiniteSets, Sequences

CONSTANTS
    Instances,         \* installs of the app, each in a space of its own
    DataClients,       \* requests under way at once
    Columns,
    Schemas,           \* what schema.sql holds, in the working copy or a version
    Nobody,
    SlowCopies,        \* BOOLEAN: a copy may take longer than PUBLISH_INTERVAL_S
    MaxMigrations,     \* bound: migrations with a row
    MaxDataRequests    \* bound: requests, restarts, failing copies and changes of `asks`, in all

ASSUME AppDataAssumption ==
    /\ Schemas \subseteq SUBSET Columns
    /\ Nobody \notin DataClients /\ Nobody \notin Instances
    /\ SlowCopies \in BOOLEAN
    /\ MaxMigrations \in Nat /\ MaxDataRequests \in Nat

VARIABLES
    installed,   \* each instance's row: "never", "live" or "gone"; its folder is with it
    tracked,     \* whether it tracks the working copy, or is pinned to a version
    pinned,      \* the schema of the version it is pinned to
    database,    \* its database: columns, those with data, and how often it changed
    migrations,  \* the rows of app_migrations, oldest first
    dataLock,    \* who holds an instance's lock
    dataReq,     \* each client's request
    markers,     \* the migrations for which an approval marker is outstanding
    asks,        \* whether the user's `approve_migration` tool asks before it applies one
    agreed,      \* history variable: the migrations a person has agreed to in a chat
    unasked,     \* history variable: those a chat's tool went on with while it was allowed to
    readOnly,    \* ro/data.sqlite: whose copy, of which state, whether complete
    scheduled,   \* the instances a copy is scheduled for
    copying,     \* the two latest runs of an instance's copy
    copyTmp,     \* ro/.data.sqlite.tmp, NoCopy if there is none
    uncopied,    \* history variable: a restart, a failing recording or a failing copy came
                 \* after the last change, before it was copied
    dataLeft     \* what is left of MaxDataRequests

lockVars == <<dataLock, dataReq>>
consentVars == <<asks, agreed, unasked>>
copyVars == <<readOnly, scheduled, copying, copyTmp, uncopied>>
appDataVars == <<installed, tracked, pinned, database, migrations, lockVars, markers, consentVars, copyVars,
                 dataLeft>>

DataOps   == {"none", "write", "install", "update", "migrate", "build", "approve", "reject",
              "uninstall"}
DataSteps == {"idle", "pin", "next", "target", "lock", "statement", "commit", "plan", "hold",
              "row", "replan", "apply", "record", "remove"}
Locked    == {"statement", "commit", "plan", "hold", "row", "replan", "apply", "record", "remove"}
Statuses  == {"pending", "superseded", "applied", "failed", "rejected"}
Database  == [cols : SUBSET Columns, filled : SUBSET Columns, rev : Nat]
Migration == [inst : Instances, status : Statuses, schema : SUBSET Columns,
              add : SUBSET Columns, drop : SUBSET Columns, held : BOOLEAN]
DataReq   == [op : DataOps, at : DataSteps, inst : Instances \union {Nobody},
              schema : SUBSET Columns, add : SUBSET Columns, drop : SUBSET Columns,
              mig : Nat, agent : BOOLEAN, ok : BOOLEAN, todo : SUBSET Instances]
CopyRuns  == {1, 2}
CopyAt    == {"idle", "unlink", "vacuum", "copying", "seal"}
NoCopy    == [by |-> 0, rev |-> 0, whole |-> TRUE]
CopyFile  == [by : CopyRuns \union {0}, rev : Nat, whole : BOOLEAN]

\* Every variable keeps to its set, and an instance's lock is held by the request that is
\* past it.
AppDataTypeOK ==
    /\ installed \in [Instances -> {"never", "live", "gone"}]
    /\ tracked \in [Instances -> BOOLEAN] /\ pinned \in [Instances -> SUBSET Columns]
    /\ database \in [Instances -> Database]
    /\ migrations \in Seq(Migration)
    /\ dataLock \in [Instances -> DataClients \union {Nobody}]
    /\ dataReq \in [DataClients -> DataReq]
    /\ \A i \in Instances, c \in DataClients :
         dataLock[i] = c <=> dataReq[c].at \in Locked /\ dataReq[c].inst = i
    /\ markers \in SUBSET Nat
    /\ asks \in BOOLEAN /\ agreed \in SUBSET Nat /\ unasked \in SUBSET Nat
    /\ readOnly \in [Instances -> CopyFile] /\ scheduled \in SUBSET Instances
    /\ copying \in [Instances -> [CopyRuns -> CopyAt]] /\ copyTmp \in [Instances -> CopyFile]
    /\ uncopied \in SUBSET Instances
    /\ dataLeft \in Nat

NoRequest == [op |-> "none", at |-> "idle", inst |-> Nobody, schema |-> {}, add |-> {},
              drop |-> {}, mig |-> 0, agent |-> FALSE, ok |-> FALSE, todo |-> {}]

\* Some instances are installed, used and at rest, the others will be; what an instance
\* tracks is decided when it is installed.
AppDataInit ==
    /\ installed \in [Instances -> {"never", "live"}]
    /\ tracked \in [Instances -> BOOLEAN] /\ pinned \in [Instances -> Schemas]
    /\ database = [i \in Instances |->
           LET cols == IF installed[i] = "live" THEN pinned[i] ELSE {}
           IN [cols |-> cols, filled |-> cols, rev |-> 0]]
    /\ migrations = << >>
    /\ dataLock = [i \in Instances |-> Nobody] /\ dataReq = [c \in DataClients |-> NoRequest]
    /\ markers = {} /\ asks \in BOOLEAN /\ agreed = {} /\ unasked = {}
    /\ readOnly = [i \in Instances |-> NoCopy] /\ scheduled = {}
    /\ copying = [i \in Instances |-> [k \in CopyRuns |-> "idle"]]
    /\ copyTmp = [i \in Instances |-> NoCopy] /\ uncopied = {}
    /\ dataLeft = MaxDataRequests

-----------------------------------------------------------------------------
(* What the requests share.                                                *)

Live(i)       == installed[i] = "live"
DataAt(c, s)  == dataReq[c].at = s
DataGoto(c, s) == dataReq' = [dataReq EXCEPT ![c].at = s]
On(c)         == dataReq[c].inst
Pending(i)    == {m \in DOMAIN migrations : migrations[m].inst = i
                                              /\ migrations[m].status = "pending"}

\* A request that passes its first checks; one that does not changes nothing.
BeginRequest(c, r) ==
    /\ DataAt(c, "idle") /\ dataLeft > 0
    /\ dataReq' = [dataReq EXCEPT ![c] = r]
    /\ dataLeft' = dataLeft - 1

\* A request's end; after an instance that it migrated, a build goes on to its next.
Ended(c) == IF dataReq[c].op = "build" THEN [dataReq[c] EXCEPT !.at = "next"] ELSE NoRequest

\* Leaving `async with self._lock(...)`, be it by an exception.
Leave(c) ==
    /\ dataLock' = [dataLock EXCEPT ![On(c)] = Nobody]
    /\ dataReq' = [dataReq EXCEPT ![c] = Ended(c)]

\* Mutant of LockFree: the instance's lock is not waited for.
LockIgnored(i) == TRUE

LockFree(i) == dataLock[i] = Nobody

\* `async with self._lock(target.id)`.
TakeLock(c) ==
    /\ DataAt(c, "lock") /\ LockFree(On(c))
    /\ dataLock' = [dataLock EXCEPT ![On(c)] = c]
    /\ DataGoto(c, CASE dataReq[c].op = "write" -> "statement"
                     [] dataReq[c].op \in {"approve", "reject"} -> "row"
                     [] dataReq[c].op = "uninstall" -> "remove"
                     [] OTHER -> "plan")
    /\ UNCHANGED <<installed, tracked, pinned, database, migrations, markers, consentVars, copyVars, dataLeft>>

\* Mutant of Changed: a change during a copy is taken to be in it.
ChangedOnce(i) ==
    /\ scheduled' = IF \E k \in CopyRuns : copying[i][k] # "idle" THEN scheduled
                    ELSE scheduled \union {i}
    /\ uncopied' = uncopied \ {i}
    /\ UNCHANGED <<readOnly, copying, copyTmp>>

\* `_changed`: a copy is scheduled unless one is.
Changed(i) ==
    /\ scheduled' = scheduled \union {i} /\ uncopied' = uncopied \ {i}
    /\ UNCHANGED <<readOnly, copying, copyTmp>>

-----------------------------------------------------------------------------
(* `rpc`, `_export_action` and `import_csv`.                               *)

\* One statement, several, an action or a file: what is read before the lock is text.
Write(c, i) ==
    /\ Live(i) /\ BeginRequest(c, [NoRequest EXCEPT !.op = "write", !.at = "lock", !.inst = i])
    /\ UNCHANGED <<installed, tracked, pinned, database, migrations, dataLock, markers, consentVars, copyVars>>

\* The statement fills a column; then the audit's record is written, by `before_commit`.
Statement(c) ==
    /\ DataAt(c, "statement") /\ Live(On(c))
    /\ \E col \in database[On(c)].cols :
           dataReq' = [dataReq EXCEPT ![c].at = "commit", ![c].add = {col}]
    /\ UNCHANGED <<installed, tracked, pinned, database, migrations, dataLock, markers, consentVars, copyVars,
                   dataLeft>>

\* The folder is gone, SQLite refuses the statement, or the audit cannot be written.
StatementFails(c) ==
    /\ DataAt(c, "statement") /\ Leave(c)
    /\ UNCHANGED <<installed, tracked, pinned, database, migrations, markers, consentVars, copyVars, dataLeft>>

\* COMMIT of the database's transaction, still in the worker thread.
CommitWrite(c) ==
    /\ DataAt(c, "commit") /\ ~dataReq[c].ok
    /\ database' = [database EXCEPT ![On(c)].filled = @ \union (dataReq[c].add \intersect database[On(c)].cols),
                                    ![On(c)].rev = @ + 1]
    /\ dataReq' = [dataReq EXCEPT ![c].ok = TRUE]
    /\ UNCHANGED <<installed, tracked, pinned, migrations, dataLock, markers, consentVars, copyVars, dataLeft>>

\* Back in the event loop: the lock is released and a copy scheduled.
Written(c) ==
    /\ DataAt(c, "commit") /\ dataReq[c].ok
    /\ Leave(c) /\ Changed(On(c))
    /\ UNCHANGED <<installed, tracked, pinned, database, migrations, markers, consentVars, dataLeft>>

-----------------------------------------------------------------------------
(* Installs, updates and the requests that migrate.                        *)

\* `install_app`: row and folder; what pins a version is migrated by the request.
Install(c, i) ==
    /\ installed[i] = "never" /\ installed' = [installed EXCEPT ![i] = "live"]
    /\ IF tracked[i]
       THEN /\ DataAt(c, "idle") /\ UNCHANGED <<pinned, dataReq, dataLeft>>
       ELSE /\ \E s \in Schemas : pinned' = [pinned EXCEPT ![i] = s]
            /\ BeginRequest(c, [NoRequest EXCEPT !.op = "install", !.at = "target", !.inst = i])
    /\ UNCHANGED <<tracked, database, migrations, dataLock, markers, consentVars, copyVars>>

\* `update_instance` reads the instance and the version it shall be pinned to.
Update(c, i, s) ==
    /\ Live(i) /\ ~tracked[i] /\ s # pinned[i]
    /\ BeginRequest(c, [NoRequest EXCEPT !.op = "update", !.at = "pin", !.inst = i, !.schema = s])
    /\ UNCHANGED <<installed, tracked, pinned, database, migrations, dataLock, markers, consentVars, copyVars>>

\* Its UPDATE; an instance uninstalled meanwhile is not found.
Pin(c) ==
    /\ DataAt(c, "pin")
    /\ IF Live(On(c))
       THEN pinned' = [pinned EXCEPT ![On(c)] = dataReq[c].schema] /\ DataGoto(c, "target")
       ELSE dataReq' = [dataReq EXCEPT ![c] = NoRequest] /\ UNCHANGED pinned
    /\ UNCHANGED <<installed, tracked, database, migrations, dataLock, markers, consentVars, copyVars, dataLeft>>

\* POST migrate.
Migrate(c, i) ==
    /\ Live(i) /\ BeginRequest(c, [NoRequest EXCEPT !.op = "migrate", !.at = "target", !.inst = i])
    /\ UNCHANGED <<installed, tracked, pinned, database, migrations, dataLock, markers, consentVars, copyVars>>

\* `built`: after a build, the live instances of the working copy, one after the other.
BuildApp(c, s) ==
    /\ BeginRequest(c, [NoRequest EXCEPT !.op = "build", !.at = "next", !.schema = s,
                                  !.todo = {i \in Instances : tracked[i] /\ Live(i)}])
    /\ UNCHANGED <<installed, tracked, pinned, database, migrations, dataLock, markers, consentVars, copyVars>>

NextInstance(c) ==
    /\ DataAt(c, "next")
    /\ \/ /\ dataReq[c].todo = {} /\ dataReq' = [dataReq EXCEPT ![c] = NoRequest]
       \/ \E i \in dataReq[c].todo :
              dataReq' = [dataReq EXCEPT ![c].at = "target", ![c].inst = i,
                                         ![c].todo = @ \ {i}, ![c].ok = FALSE]
    /\ UNCHANGED <<installed, tracked, pinned, database, migrations, dataLock, markers, consentVars, copyVars,
                   dataLeft>>

\* `_target` and `_read_schema`: the build's own schema.sql, the pinned version's, or
\* what the working copy holds by now.
Target(c) ==
    /\ DataAt(c, "target")
    /\ IF ~Live(On(c)) THEN dataReq' = [dataReq EXCEPT ![c] = Ended(c)]
       ELSE \E s \in IF dataReq[c].op = "build" THEN {dataReq[c].schema}
                    ELSE IF tracked[On(c)] THEN Schemas ELSE {pinned[On(c)]} :
                dataReq' = [dataReq EXCEPT ![c].at = "lock", ![c].schema = s]
    /\ UNCHANGED <<installed, tracked, pinned, database, migrations, dataLock, markers, consentVars, copyVars,
                   dataLeft>>

-----------------------------------------------------------------------------
(* `_migrate` and `_apply`.                                                *)

\* `appschema.plan`: what must be added and dropped to get from `cols` to `schema`.
Adds(cols, schema)  == schema \ cols
Drops(cols, schema) == cols \ schema

\* `Plan.needs_approval`.
NeedsApproval(r) == r.drop # {}

Plan(c) ==
    /\ DataAt(c, "plan") /\ Live(On(c))
    /\ LET cols == database[On(c)].cols
           r    == [dataReq[c] EXCEPT !.add  = Adds(cols, dataReq[c].schema),
                                      !.drop = Drops(cols, dataReq[c].schema)]
       IN /\ r.add \union r.drop # {}
          /\ dataReq' = [dataReq EXCEPT ![c] =
                            [r EXCEPT !.at = IF NeedsApproval(r) THEN "hold" ELSE "apply"]]
    /\ UNCHANGED <<installed, tracked, pinned, database, migrations, dataLock, markers, consentVars, copyVars,
                   dataLeft>>

\* Nothing to do, no such folder, or a schema.sql that SQLite refuses.
PlanNothing(c) ==
    /\ DataAt(c, "plan") /\ Leave(c)
    /\ \/ ~Live(On(c))
       \/ database[On(c)].cols = dataReq[c].schema
    /\ UNCHANGED <<installed, tracked, pinned, database, migrations, markers, consentVars, copyVars, dataLeft>>

Superseded(i) == [m \in DOMAIN migrations |-> IF m \in Pending(i)
                                                THEN [migrations[m] EXCEPT !.status = "superseded"]
                                                ELSE migrations[m]]

NewRow(c, status) == [inst |-> On(c), status |-> status, schema |-> dataReq[c].schema,
                      add |-> dataReq[c].add, drop |-> dataReq[c].drop,
                      held |-> status = "pending"]

\* One transaction: what was pending is superseded, the new plan is held for approval.
Hold(c) ==
    /\ DataAt(c, "hold") /\ Len(migrations) < MaxMigrations
    /\ migrations' = Append(Superseded(On(c)), NewRow(c, "pending"))
    /\ Leave(c)
    /\ UNCHANGED <<installed, tracked, pinned, database, markers, consentVars, copyVars, dataLeft>>

\* Postgres does not answer.
HoldFails(c) ==
    /\ DataAt(c, "hold") /\ Leave(c)
    /\ UNCHANGED <<installed, tracked, pinned, database, migrations, markers, consentVars, copyVars, dataLeft>>

\* `appdb.migrate`: every step in one transaction, checked by a second plan.
Apply(c) ==
    /\ DataAt(c, "apply") /\ Live(On(c))
    /\ LET cols == (database[On(c)].cols \union dataReq[c].add) \ dataReq[c].drop
       IN database' = [database EXCEPT ![On(c)].cols = cols,
                                       ![On(c)].filled = @ \intersect cols,
                                       ![On(c)].rev = @ + 1]
    /\ dataReq' = [dataReq EXCEPT ![c].at = "record", ![c].ok = TRUE]
    /\ UNCHANGED <<installed, tracked, pinned, migrations, dataLock, markers, consentVars, copyVars, dataLeft>>

\* A step, `foreign_key_check` or the time limit rolls all of them back.
ApplyFails(c) ==
    /\ DataAt(c, "apply")
    /\ dataReq' = [dataReq EXCEPT ![c].at = "record", ![c].ok = FALSE]
    /\ UNCHANGED <<installed, tracked, pinned, database, migrations, dataLock, markers, consentVars, copyVars,
                   dataLeft>>

\* Mutant of Outcome: a status that the table does not have.
OutcomeBuilt(c) == IF dataReq[c].ok THEN "built" ELSE "failed"

Outcome(c) == IF dataReq[c].ok THEN "applied" ELSE "failed"

\* The row of an approved migration is decided, another one gets a row of its own.
RecordMigration(c) ==
    /\ DataAt(c, "record")
    /\ IF dataReq[c].mig # 0
       THEN migrations' = [migrations EXCEPT ![dataReq[c].mig].status = Outcome(c)]
       ELSE /\ Len(migrations) < MaxMigrations
            /\ migrations' = Append(migrations, NewRow(c, Outcome(c)))
    /\ Leave(c)
    /\ IF dataReq[c].ok THEN Changed(On(c)) ELSE UNCHANGED copyVars
    /\ UNCHANGED <<installed, tracked, pinned, database, markers, consentVars, dataLeft>>

\* Postgres does not answer: the database is migrated, nothing says so, no copy follows.
MigrationUnrecorded(c) ==
    /\ DataAt(c, "record") /\ Leave(c)
    /\ uncopied' = IF dataReq[c].ok THEN uncopied \union {On(c)} ELSE uncopied
    /\ UNCHANGED <<installed, tracked, pinned, database, migrations, markers, consentVars,
                   readOnly, scheduled, copying, copyTmp, dataLeft>>

-----------------------------------------------------------------------------
(* `approve`, `reject`, the agent's tool, and the markers of `HitlApprovals`. *)

\* The user, or the admin for everyone, lets the tool go ahead without asking, or no more.
SetAsks ==
    /\ dataLeft > 0 /\ dataLeft' = dataLeft - 1
    /\ asks' = ~asks
    /\ UNCHANGED <<installed, tracked, pinned, database, migrations, lockVars, markers, agreed, unasked, copyVars>>

\* What `approve_migration` goes on with: it finds the migration pending.
Askable(m) == m \notin agreed \union unasked /\ migrations[m].status = "pending"

\* The user answers the agent's card, which shows a pending migration's steps.
Agree(m) ==
    /\ Askable(m) /\ agreed' = agreed \union {m}
    /\ UNCHANGED <<installed, tracked, pinned, database, migrations, lockVars, markers, asks, unasked, copyVars,
                   dataLeft>>

\* `needs_approval` says no, by the permissions of the chat's turn: nobody is shown a card.
GoUnasked(m) ==
    /\ ~asks /\ Askable(m) /\ unasked' = unasked \union {m}
    /\ UNCHANGED <<installed, tracked, pinned, database, migrations, lockVars, markers, asks, agreed, copyVars,
                   dataLeft>>

\* agent-server gets a marker, if the migration is still pending.
MintMarker(m) ==
    /\ m \in (agreed \union unasked) \ markers /\ migrations[m].status = "pending"
    /\ markers' = markers \union {m}
    /\ UNCHANGED <<installed, tracked, pinned, database, migrations, lockVars, consentVars, copyVars, dataLeft>>

Expire(m) ==
    /\ m \in markers /\ markers' = markers \ {m}
    /\ UNCHANGED <<installed, tracked, pinned, database, migrations, lockVars, consentVars, copyVars, dataLeft>>

Approval(m) == [NoRequest EXCEPT !.op = "approve", !.at = "lock", !.inst = migrations[m].inst,
                                 !.mig = m]

\* A person's approval.
Approve(c, m) ==
    /\ Live(migrations[m].inst) /\ BeginRequest(c, Approval(m))
    /\ UNCHANGED <<installed, tracked, pinned, database, migrations, dataLock, markers, consentVars, copyVars>>

\* Mutant of Spends: a marker is good for any migration.
SpendsAny(marker, m) == TRUE

\* `HitlApprovals.consume`: the marker is spent, matching or not.
Spends(marker, m) == marker = m

\* An agent's approval, with the marker it presents.
ApproveAsAgent(c, marker, m) ==
    /\ marker \in markers /\ markers' = markers \ {marker}
    /\ DataAt(c, "idle")
    /\ IF Spends(marker, m) /\ Live(migrations[m].inst)
       THEN BeginRequest(c, [Approval(m) EXCEPT !.agent = TRUE])
       ELSE UNCHANGED <<dataReq, dataLeft>>
    /\ UNCHANGED <<installed, tracked, pinned, database, migrations, dataLock, consentVars, copyVars>>

Reject(c, m) ==
    /\ Live(migrations[m].inst) /\ BeginRequest(c, [Approval(m) EXCEPT !.op = "reject"])
    /\ UNCHANGED <<installed, tracked, pinned, database, migrations, dataLock, markers, consentVars, copyVars>>

Undecided(m) == migrations[m].status = "pending"

\* Under the lock: a migration decided meanwhile is refused (409).
ReadMigration(c) ==
    /\ DataAt(c, "row")
    /\ LET m == dataReq[c].mig
       IN IF ~Undecided(m) THEN Leave(c) /\ UNCHANGED migrations
          ELSE IF dataReq[c].op = "reject"
          THEN /\ migrations' = [migrations EXCEPT ![m].status = "rejected"]
               /\ Leave(c)
          ELSE DataGoto(c, "replan") /\ UNCHANGED <<migrations, dataLock>>
    /\ UNCHANGED <<installed, tracked, pinned, database, markers, consentVars, copyVars, dataLeft>>

\* Mutant of SamePlan: the steps are planned again and not compared.
AnyPlan(m, cols) == TRUE

\* `plan.as_dicts() != row["steps"]`.
SamePlan(m, cols) ==
    /\ migrations[m].add = Adds(cols, migrations[m].schema)
    /\ migrations[m].drop = Drops(cols, migrations[m].schema)

\* The plan is made again; if it is not the one that was approved, the row is superseded.
Replan(c) ==
    /\ DataAt(c, "replan") /\ Live(On(c))
    /\ LET m    == dataReq[c].mig
           cols == database[On(c)].cols
       IN IF SamePlan(m, cols)
          THEN /\ dataReq' = [dataReq EXCEPT ![c].at = "apply", ![c].schema = migrations[m].schema,
                                             ![c].add = Adds(cols, migrations[m].schema),
                                             ![c].drop = Drops(cols, migrations[m].schema)]
               /\ UNCHANGED <<migrations, dataLock>>
          ELSE /\ migrations' = [migrations EXCEPT ![m].status = "superseded"]
               /\ Leave(c)
    /\ UNCHANGED <<installed, tracked, pinned, database, markers, consentVars, copyVars, dataLeft>>

\* The folder is gone, or Postgres does not answer.
ReplanFails(c) ==
    /\ DataAt(c, "replan") /\ Leave(c)
    /\ UNCHANGED <<installed, tracked, pinned, database, migrations, markers, consentVars, copyVars, dataLeft>>

-----------------------------------------------------------------------------
(* `uninstall`, the copies, and the server.                                *)

Uninstall(c, i) ==
    /\ Live(i) /\ BeginRequest(c, [NoRequest EXCEPT !.op = "uninstall", !.at = "lock", !.inst = i])
    /\ UNCHANGED <<installed, tracked, pinned, database, migrations, dataLock, markers, consentVars, copyVars>>

\* `uninstall_app`, with the lock held: the row, and the folder moved to the trash.
RemoveFolder(c) ==
    /\ DataAt(c, "remove") /\ Leave(c)
    /\ installed' = [installed EXCEPT ![On(c)] = "gone"]
    /\ UNCHANGED <<tracked, pinned, database, migrations, markers, consentVars, copyVars, dataLeft>>

CopyTo(i, k, at) == copying' = [copying EXCEPT ![i][k] = at]

\* `_publish_later` wakes: what changes from now on schedules another copy.
StartCopy(i, k) ==
    /\ i \in scheduled /\ copying[i][k] = "idle"
    /\ k = 2 => SlowCopies /\ copying[i][1] # "idle"
    /\ SlowCopies \/ copying[i][2] = "idle"
    /\ scheduled' = scheduled \ {i}
    /\ IF Live(i) THEN CopyTo(i, k, "unlink") ELSE UNCHANGED copying
    /\ UNCHANGED <<installed, tracked, pinned, database, migrations, lockVars, markers, consentVars, readOnly,
                   copyTmp, uncopied, dataLeft>>

\* `appdb.publish`, in a worker thread and without the instance's lock: a stale file is
\* removed, ...
UnlinkCopy(i, k) ==
    /\ copying[i][k] = "unlink" /\ CopyTo(i, k, "vacuum")
    /\ copyTmp' = [copyTmp EXCEPT ![i] = NoCopy]
    /\ UNCHANGED <<installed, tracked, pinned, database, migrations, lockVars, markers, consentVars, readOnly,
                   scheduled, uncopied, dataLeft>>

\* ... VACUUM INTO makes a new one, unless there is one, ...
VacuumCopy(i, k) ==
    /\ copying[i][k] = "vacuum"
    /\ IF copyTmp[i] = NoCopy
       THEN /\ copyTmp' = [copyTmp EXCEPT ![i] = [by |-> k, rev |-> database[i].rev, whole |-> FALSE]]
            /\ CopyTo(i, k, "copying")
       ELSE CopyTo(i, k, "idle") /\ UNCHANGED copyTmp
    /\ UNCHANGED <<installed, tracked, pinned, database, migrations, lockVars, markers, consentVars, readOnly,
                   scheduled, uncopied, dataLeft>>

\* ... fills it, wherever it has been moved to, ...
FillCopy(i, k) ==
    /\ copying[i][k] = "copying" /\ CopyTo(i, k, "seal")
    /\ copyTmp' = IF copyTmp[i].by = k THEN [copyTmp EXCEPT ![i].whole = TRUE] ELSE copyTmp
    /\ readOnly' = IF copyTmp[i].by # k /\ readOnly[i].by = k
                   THEN [readOnly EXCEPT ![i].whole = TRUE] ELSE readOnly
    /\ UNCHANGED <<installed, tracked, pinned, database, migrations, lockVars, markers, consentVars, scheduled,
                   uncopied, dataLeft>>

\* ... and what has the name is sealed and renamed into place.
RenameCopy(i, k) ==
    /\ copying[i][k] = "seal" /\ CopyTo(i, k, "idle")
    /\ IF copyTmp[i] = NoCopy THEN UNCHANGED <<readOnly, copyTmp>>
       ELSE /\ readOnly' = [readOnly EXCEPT ![i] = copyTmp[i]]
            /\ copyTmp' = [copyTmp EXCEPT ![i] = NoCopy]
    /\ UNCHANGED <<installed, tracked, pinned, database, migrations, lockVars, markers, consentVars, scheduled,
                   uncopied, dataLeft>>

\* The copy fails at any step, which is logged and no more: nothing is scheduled for it, what
\* has been written of the temporary file stays.
CopyFails(i, k) ==
    /\ copying[i][k] # "idle" /\ CopyTo(i, k, "idle")
    /\ dataLeft > 0 /\ dataLeft' = dataLeft - 1
    /\ uncopied' = uncopied \union {i}
    /\ UNCHANGED <<installed, tracked, pinned, database, migrations, lockVars, markers, consentVars, readOnly,
                   scheduled, copyTmp>>

\* The server stops and comes back: open transactions, locks, markers and scheduled copies
\* are gone with its memory.
DataRestart ==
    /\ dataLeft > 0 /\ dataLeft' = dataLeft - 1
    /\ dataLock' = [i \in Instances |-> Nobody] /\ dataReq' = [c \in DataClients |-> NoRequest]
    /\ markers' = {} /\ scheduled' = {}
    /\ copying' = [i \in Instances |-> [k \in CopyRuns |-> "idle"]]
    /\ uncopied' = uncopied \union {i \in Instances : readOnly[i].rev # database[i].rev}
    /\ UNCHANGED <<installed, tracked, pinned, database, migrations, consentVars, readOnly, copyTmp>>

-----------------------------------------------------------------------------
(* The specification.                                                      *)

DataAsk(c) ==
    \/ \E i \in Instances : Write(c, i) \/ Install(c, i) \/ Migrate(c, i) \/ Uninstall(c, i)
    \/ \E i \in Instances, s \in Schemas : Update(c, i, s)
    \/ \E s \in Schemas : BuildApp(c, s)
    \/ \E m \in DOMAIN migrations : Approve(c, m) \/ Reject(c, m)
    \/ \E k \in markers, m \in DOMAIN migrations : ApproveAsAgent(c, k, m)

DataStep(c) ==
    \/ TakeLock(c)
    \/ Statement(c) \/ StatementFails(c) \/ CommitWrite(c) \/ Written(c)
    \/ Pin(c) \/ NextInstance(c) \/ Target(c)
    \/ Plan(c) \/ PlanNothing(c) \/ Hold(c) \/ HoldFails(c)
    \/ Apply(c) \/ ApplyFails(c) \/ RecordMigration(c) \/ MigrationUnrecorded(c)
    \/ ReadMigration(c) \/ Replan(c) \/ ReplanFails(c)
    \/ RemoveFolder(c)

CopyStep(i, k) ==
    \/ StartCopy(i, k) \/ UnlinkCopy(i, k) \/ VacuumCopy(i, k) \/ FillCopy(i, k) \/ RenameCopy(i, k)
    \/ CopyFails(i, k)

AppDataNext ==
    \/ \E c \in DataClients : DataAsk(c) \/ DataStep(c)
    \/ \E m \in DOMAIN migrations : Agree(m) \/ GoUnasked(m) \/ MintMarker(m) \/ Expire(m)
    \/ \E i \in Instances, k \in CopyRuns : CopyStep(i, k)
    \/ SetAsks \/ DataRestart

AppDataSpec == AppDataInit /\ [][AppDataNext]_appDataVars

-----------------------------------------------------------------------------
(* Properties.                                                             *)

\* A column that holds data is dropped only by the migration that lists the drop, while it
\* is pending, and decided by a person's approval or by an agent's, which takes a marker for
\* that migration: somebody agreed to it on the card, or the tool was allowed to go ahead when
\* it was called for it.  Whatever writes, builds, updates, other approvals and other markers
\* came in between (`approve` plans again under the lock).
DropsOnlyApproved ==
    [][\A i \in Instances : database[i].filled \subseteq database'[i].filled
          \/ \E c \in DataClients, m \in Pending(i) :
                 /\ DataAt(c, "apply") /\ dataReq[c].op = "approve" /\ dataReq[c].mig = m
                 /\ dataReq[c].agent => m \in agreed \union unasked
                 /\ database[i].cols \ database'[i].cols = migrations[m].drop
                 /\ database'[i].cols \ database[i].cols = migrations[m].add]_appDataVars

\* An instance's files are moved away only when no write or migration of it is running.
RemovedIdle ==
    [][\A i \in Instances : installed[i] = "live" /\ installed'[i] = "gone" =>
          \A c \in DataClients : On(c) = i =>
              dataReq[c].at \in {"idle", "pin", "next", "target", "lock", "remove"}]_appDataVars

\* The read-only copy is of the last change, or a copy is scheduled or under way that has
\* read it or is about to, unless a restart, a failed recording or a failed copy came in
\* between and nothing has changed since: then ro/ stays behind until the next change.
CopyFollows ==
    \A i \in Instances : Live(i) /\ i \notin uncopied =>
        \/ readOnly[i].rev = database[i].rev
        \/ i \in scheduled
        \/ copyTmp[i].rev = database[i].rev
        \/ \E k \in CopyRuns : copying[i][k] \in {"unlink", "vacuum"}
        \/ \E c \in DataClients : On(c) = i /\ dataReq[c].at \in {"commit", "record"} /\ dataReq[c].ok

\* With the types, and whose an instance's lock is.
DataIsKept == AppDataTypeOK /\ CopyFollows

\* Whoever opens ro/data.sqlite opens a complete copy, "renamed into place atomically".
CopyIsWhole == \A i \in Instances : readOnly[i].whole
===============================================================================
