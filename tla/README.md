# Verification of the home AI server

TLA+ models of the concurrent core of this repository: the agent server's turns, chat sockets,
tool calls and routines, the code execution manager's sessions and builders, and the platform's app builds, app data,
accounts, spaces, change events, credentials, files and search index. They are checked with TLC on small instances, and
every safety invariant that a run checks is proved with TLAPS for every value of the constants.
The models are read from the code under `services/`; `PROJECT.json` gives, for every
definition that stands for code, the file and lines it stands for.

## 1. The system

| component | state it keeps | operations | correct when |
|---|---|---|---|
| turn runner (`agent-server/app/agent/turn_runner.py`) | one `asyncio.Lock` and at most one `ActiveTurn` per thread: frames, subscribers, timer | start, emit, attach, detach, cancel, detached timeout, end | one turn per thread; every follower hears all of it; every turn ends, once, and gives the lock back |
| chat sockets (`api/chat_ws.py`, the frontend's `useChat.ts`) | a delegation, deferred answers, the pending approval of one socket; the card a page shows | user message (append, fork, edit), approval response, cancel, disconnect | answers go to the approval they were given for; a reconnecting client misses nothing |
| tool calls (`agent/approvals.py`, `app_tools.py`, `integration_tools.py`, `tool_catalog.py`; `platform/core/tool_permissions.py`, `hitl.py`; the gateway's `service.py`, `handles.py`) | each user's and the admin's settings, a turn's policy, a thread's bound tools, cards, markers, handles | change settings, discover, call, ask, answer, resume, mint, consume, ask for input | what takes effect was approved or allowed; only the user answers a server |
| thread rows (`db/threads.py`, `api/chat.py`) | owner, title, active tip, `awaiting_approval`, `unread` | create, list, rename, read, switch branch, delete | flags and tip agree with what the thread's turns did |
| routine scheduler (`routines/scheduler.py`, `runs.py`, `db/routines.py`) | routines, run records, an in-memory queue, workers, a start lock | poll (claim, expire), work, launch, follow, run now, recover | a due time runs once, nothing queued is lost, slots are kept to, paused runs are answered or expire |
| saving and delivering routines (`routines/service.py`, `delivered.py`) | routines with their grants; which users have their copies | create, update, delete, ensure, admin switch | an enabled routine holds a live grant and no other does |
| delegations (`agent-server/core/delegation.py`, `platform/core/delegations.py`, `routine_grants.py`) | tokens, sessions | exchange, refresh, issue, revoke | nobody acts on rights that are gone |
| exec sessions (`code-exec-manager/app/sessions.py`, `reaper.py`, `api.py`) | one container per chat, last use in memory | ensure, execute, delete, reap | commands run under current grants; idle containers go, busy ones stay |
| build runner (`code-exec-manager/app/builds.py`) | a semaphore, one container per phase | run, remove stale | slot and container come back after every end |
| accounts (`platform/core/users.py`, `sessions.py`, `invites.py`, `device_pairs.py`, `webauthn.py`, `totp.py`) | rows in Postgres | log in, step up, pair, invite, disable, change role | single use of codes, an admin remains, revoked means revoked |
| spaces (`platform/core/spaces.py`, `api/external/spaces.py`) | spaces and memberships | create, rename, archive, add, change, remove, backfill | an owner remains, a personal space is its person's alone, an archived one stays as it is |
| apps and their builds (`platform/core/apps.py`, `appbuild.py`, `apphistory.py`) | a working version and published ones per app, bundles on disk, a git history | register, build, revert, validate, publish, serve; archiving of the space | a version has its bundle and names the commit it was built from; nothing is left on disk that no version has |
| app data (`platform/core/appdb.py`, `appdata.py`, `appschema.py`) | instances, one SQLite file each, pending migrations | install, update, migrate, approve, write | data goes only by an approved migration; the copy that agents read follows |
| files and search (`platform/core/vfs.py`, `fsops.py`, `fileindex.py`, `appindex.py`) | trees on disk, an index | read, write, move; reconcile | an edit replaces the text it was made on; the index catches up and is never wrong |
| integrations (`platform/core/integrations.py`, `integrations-gateway`) | settings, sealed credentials, sign-in state | install, connect, call, refresh | a refresh token is spent once; no credential comes back after a sign-out |
| events (`platform/core/events.py`, `api/external/events.py`, the SDK and the frontend's `platformEvents.ts`) | a coalescing backlog per socket, what an open app shows | publish, take, send, refresh, query, reload | no change stays unseen |
| egress proxy, web fetch, app builder | none that lasts | filter, fetch, compile | - |

How they interact. A chat socket takes a thread's lock, asks the turn runner to start a
turn and hands it the lock; the turn's task streams the agent's graph (LangGraph, a
library, saves a checkpoint per step) and broadcasts frames to the sockets that follow.
Tools are HTTP calls made with the turn's delegation: to the platform, the code
execution manager, the gateway. The scheduler starts turns too, on its own threads, and
shares with the sockets the count of running turns and the right to answer a paused
run's approval. A routine's grant is a row of the platform and the routine one of agent-server; saving,
delivering and running a routine each change both. The code execution manager fetches the caller's grants
from the platform before each request and drives Docker. A build on the platform copies the source folder,
has it compiled in a container for minutes, and only then locks the version's row,
commits to the app's git history and records the result; then it migrates the databases of the
instances that track the working copy. The gateway asks the platform for the credential of a call, refreshes it under a lock per
owner and stores it back. Every write of a file or of an app's rows wakes the index, and a
write of rows or a build is published to the sockets of the apps that are open. A turn reads its user's tool settings from the
platform before its first step, and so does each turn that resumes it; a call of an integration's tool is judged again
by the gateway, on the settings as they are then.

What is hard. Each Python server is one event loop: a task is interrupted only where it
awaits, but there by everything, including a cancellation. The manager's requests run
in threads with no lock, and so do the platform's calls of the filesystem and of SQLite. The platform's connections are autocommit,
and files and git are changed beside the transactions. State is read before an await and used after it (the pending
approval, the routine row, the container, the credential, the planned migration), timers act on what others use (the
detached timer, the run time limit, the reaper, the scheduled copy), and a restart forgets the queue, the
locks, the last uses and the newest tokens but not the tables and the containers. `PROJECT.json` lists these
hazards at their lines, each with the properties that cover it.

## 2. Modules

| module | what it is | instances | theorems |
|---|---|---|---|
| `TurnChannel` | abstract: what a turn promises those who watch it, a replayed broadcast closed for all | | |
| `TurnRunner` | one thread's turns: the task at each await, its clients, its timer, the thread's row and checkpoints | `MCAgent`, `MCTurnRunner` | `TurnRunner_proofs` |
| `ChatSockets` | the sockets of one thread and the pages behind them | `MCAgent` | `TurnRunner_proofs` |
| `RoutineScheduler` | routines, run records, queue, workers, followers, the poll, people, restarts | `MCRoutineRuns`, `MCRoutineScheduler`, `MCRoutinesAndTools` | `RoutineScheduler_proofs` |
| `RoutineGrants` | one routine and its grant as it is saved, delivered and used | `MCTurnRunner` | `RoutineGrants_proofs` |
| `ToolCalls` | the tool calls of one thread: settings, policies, cards, and the gateway's calls of one integration | `MCRoutinesAndTools` | `RoutineGrants_proofs` |
| `ExecSessions` | one chat's exec session: the tool's calls, the manager's requests, Docker, the reaper | `MCExecSessions` | `ExecSessions_proofs` |
| `BuildRunner` | the manager's slots and containers for builds, and the platform that asks for them | `MCExecSessions` | `ExecSessions_proofs` |
| `AppBuilds` | one app's versions, history and bundles under builds, reverts, publishes and its space's archiving | `MCPlatform` | `Apps_proofs` |
| `AppData` | the databases of one app's instances, their migrations and read-only copies | `MCPlatform` | `Apps_proofs` |
| `Accounts` | people, their credentials and sessions | `MCPlatform` | `Accounts_proofs` |
| `Spaces` | spaces, their members, and requests about them | `MCPlatform` | `Accounts_proofs` |
| `EventHub` | the change events of one instance, from the write to the page that shows it | `MCPlatform` | `Apps_proofs` |
| `Integrations` | the credentials of one integration, on the platform and in the gateway | `MCAgent` | `Integrations_proofs` |
| `SpaceFiles` | the files of a space by their inodes, with the lock of conditional writes | `MCAgent` | `SearchIndex_proofs` |
| `SearchIndex` | the index over them and over an app's rows (extends `SpaceFiles`) | `MCAgent` | `SearchIndex_proofs` |

The instances put components side by side that share no state: a behaviour picks one (`view`, `scene`, `side`) and the others
stay as they started, so that one run checks several. Mutated forms of definitions stand before
them and are used by no run; they are what the mutants in `PROJECT.json` put in a definition's place, to
show that the property notices.

### TurnRunner

`phase` is the await at which `TurnRunner._run` (or `_stream` and `turn_end_frame` under
it) stands; an action is the code from one await to the next. `policy` is the fetch of
the tool policy, `stream` the graph, `read` the read of the final state, `pausedStats`,
`doneStats` and `cancelStats` the turn's statistics inside `turn_end_frame`, `cancelRead` the second read after
a cancellation, `persist` the new tip. `_record_end` is three steps, since sockets come and go while it waits: `Record` looks at the
audience and sends the UPDATE (`recordRead`, or `recordUnread` if nobody watches), `RecordEnd` is the row as the UPDATE leaves it
(`recorded`), and `Finish` sends END to whoever is attached by then; a socket that leaves in between is not sent it any more. `stuck`
is where a `CancelledError` out of the `finally` leaves the turn: in `_active`, lock held.
`Cancelled` throws a cancellation into the task at any of these; clients, the detached
timer and a routine's time limit use it. The faults are the external calls that may
raise. `frames`, `subscribers`, `queue`, `timer` and `ended` are `ActiveTurn`'s fields; frames are named
by type only. Checkpoints are numbers with a parent, so that "chronologically latest"
and "active" differ once a chat is forked. `UNCHANGED` groups follow the code's objects.

### ChatSockets

A turn is here the frames it sends and the interrupt it leaves waiting (`going`, `waits`). Each tab has a
socket on the server (`socket`: where `chat_ws` stands, its copy of the pending approval, the answers it holds until the turn's end,
the queue it follows) and a page (`page`: the card, the busy flag, the frames on its wire). What the server sends arrives at once, what a page
sends may wait. `missed` and `resumed` are history variables: the tabs that were not told how a turn ended since they loaded
the thread, and which interrupt each resume answered while which one waited.

### RoutineScheduler

`routine` and `runs` are the two tables; `queue`, `worker`, `startLock`, `followers`, `claims` and
`stale` are what the process holds between two awaits: `claims` the rest of the list `tick` is going
through, `stale` the same for `expire_stale`. A turn is one step here (`TurnEnds`, any
outcome, an approval asked or not), as TurnRunner shows that it ends in one of them or
sticks. The store's calls are short and are one step with what follows them; calls to
the platform may fail (`"platform"`), find the grant dead (`"revoked"`), and the launch may raise
before or after the turn has started (`"launch"`). The store may fail (`"store"`) in the poll (`TickFails`, `ExpireFails`), in a worker at
each of its steps (`WorkerFails`) and in a follower (`FollowerFails`), before or after what the step wrote. A worker then fails the
run, and if the store fails that too, the error leaves `_worker`: its task is over (`dead`), with the run as it was. Time is a number, a recurring routine is due every
`Period`; routines that are due at the same time are claimed in any order, as `ORDER BY next_run_at` leaves it. `dropped` is a
history variable: the runs whose tick, manual launch or follower raised, or which a worker could not even fail; nobody sees to these before a restart.

### RoutineGrants

One routine of a kind, its row (`saved`) and the platform's active grant for it (`live`, with the space it is for). A request (`saver`) is the
row it read, what it changes, and the call it makes next: check the space, issue, revoke, write, undo. `EnsureLock`, `EnsureCopy` and
`EnsureEnds` are the delivery of a built-in routine's copy; `runner` is the scheduler's claim, read, exchange, refusal and
the retirement of a one-shot. Grants are numbers of which `NewGrant` takes one that nobody holds. `stray` is a history variable: an answer was lost, the server
stopped in between, or a row had changed between a save's read and its write; nothing in the code looks for what those leave.

### ToolCalls

`everyone` and `mine` are the admin's and the user's settings, by a tool's name or an integration's setting key; a tool without a row is
one whose row says the default. `turn.available` and `turn.allowed` are the policy a turn has read, `bound` the thread's
`bound_tools`, `turn.pinned` the calls on the card. The calls of a step are `made`, meet the middleware together
(`CheckCalls`; `CheckResumed` and `ResumeFails` once it was answered) and then run side by side: a tool behind the middleware just runs, one that asks by itself
interrupts (`AskUser`) and runs again from the top once answered, `use_integration` goes to the gateway, before or after the card, with a marker when
it was approved (`MintApproval`). `gate` is where the gateway stands about a call: the grant with the settings of that moment, the operation up to
its first await with the input handle, the server's live tools with the marker, the sending; a refused sign-in starts the operation again. The
middleware and the dispatch of tools are libraries, modelled from how the code uses them: as many decisions as there are calls that ask, given in order.
`let` (calls the settings let run, as they were read for them), `mixed` (calls to which a resume gave decisions while others asked than were on the card), `asked` and `told` are history
variables. Arguments come with a call's number, so that a marker for a call is one for its arguments; that arguments fit the tool's schema is left out.

### Spaces

A request is from its start to its end the principal it was loaded with (`known`), the space it was authorized for (`allowed`), the row's lock (`locked`) and
the look at the other members under it (`checked`); what is done between two statements is a step. An admin acts on the spaces of others once stepped up, the
CLI adds members directly, people come, are disabled and become admins in between (`PersonChanges`), and a restart makes the personal
spaces that are missing. Slugs are left out.

### EventHub

`owed` are the changes made and not yet published; `sub` is a subscriber with its coalescing backlog (`pending`), the batch it is sending and whether it
knows of the space, `wire` what was sent and not yet received, `page` the open app with its query and its reload, each of which starts over when an
event comes while it is under way. `blind` and `unbuilt` are history variables: pages that missed a change because their subscriber did not know the space,
and builds that were published with no socket or were lost with one: a new socket's `ready` runs the queries again but fetches no bundle.

### ExecSessions and BuildRunner

One session has at most one container, `box`, because its name is taken; `boxes` numbers the
containers ever made, so that "this container" and "the container of that name" differ.
A call goes through two requests; `call[c].at` is the Docker call its thread makes
next, and `inner` tells the `_ensure_sync` inside `execute` from the first. Grants are a digest,
compared with the container's label. The reaper and DELETE remove in three steps: stop,
remove, forget. A call of Docker fails with its effect or without (`DockerFails`, `RemovalFails`), and a request that ends so is `cut`. After a hang
`_force_remove` swallows Docker's refusal to kill or to remove and the request is answered as timed out; other errors escape (`ForceRemoveFails`). Either
way the container may stay.

In `BuildRunner` a request is a task of the manager: it waits for a slot in line, creates its container, waits for it in a thread with the two time
limits of the code, kills it, reads its output, removes it and answers. Each call of Docker may be refused or get no answer; `stray` holds the containers such
a call left. The names of containers are those of a build and its phase, so that no two are alike. A restart of the manager forgets the
tasks and, before it serves, removes the containers it finds.

### AppBuilds

`working` and `published` are rows of `app_versions`, `rowLock` is `SELECT ... FOR UPDATE` on the working one, `history`
the commits of the app's branch (a commit is its place in it), `bundles` the directories under `apps/`, `folder` the
package in the source folder: app.json's version and the rest. A request is a record of where it stands (`at`) and of
what `build_app` holds in its local variables: `doc` (the staged package), `seen` (the published versions it read), `own`
(the bundle it wrote), `prev` (the one to remove). What runs with the row locked is split where it calls git (`CommitTree`)
and where it commits (`Record`), and may fail at either (`RecordFails`), with the commit in git staying. `DropBundles` and
`DropPrevious` come after the transaction, as in the code. A restart ends requests and transactions where they are; `lost` is a
history variable of the bundles it took from their hands. Abstracted: the checks and phases of a build are one step with
three outcomes; the copy of a folder is one step; a published version's order is that of its insertion; versions are
numbers, of which `_bumped_version` takes the next. A transaction whose commit takes effect although the connection
reports an error is not modelled; the migrations that `build_app` runs in the end are `AppData`'s.

### AppData

An instance has a database: its columns, those that hold data, and how often it changed (`rev`). A migration is the columns it adds and drops; one
that drops data waits for an approval, by a person in the app's page or by an agent with a marker. A marker is minted for any migration that is pending, once `approve_migration` goes on: because a person
agreed on its card (`agreed`), or because the settings let the tool go on without one (`asks` is FALSE, `unasked`); `agreed` and `unasked` are history variables.
A request takes the instance's lock, plans on the schema that is there, applies in a thread and records in Postgres; `approve` plans again under the lock. `built` is
one request that goes through all instances that track the working copy. A change schedules a read-only copy; `copying` are its two latest runs, each in
four steps (unlink, `VACUUM INTO` begun and filled, seal and rename), each of which may fail (`CopyFails`), and `copyTmp` is the temporary file both use. `uncopied` is a
history variable: a restart, a recording that failed or a copy that failed came between the last change and its copy.

### Accounts

The tables of users, sessions, invites, pairs, passkeys and challenges, and requests that go from one statement to the next. Passwords, secrets and challenges are
numbers in the order they were made; a TOTP code is a secret and a time step. `adminLock` is the advisory lock under
which demotions and disablings count the admins. Of a session `by`, `pw` and `late` are history: which pair and which password it was made
with, and whether these had changed between the sign-in's read and its insertion. `spent` and `respent` are history: what was accepted once and what a second time.

### Integrations

`registry`, `stored` are the platform's rows; `newest`, `refreshing` and `flows` the gateway's memory: the newest credential per owner, the locks, the sign-ins
begun. `issued` is the provider: which generation of each secret it has given out, which refresh tokens it has seen. An agent's call reads its credential with its
grant (`headers`), asks the provider under the owner's lock (`provider`), stores (`keep`), sends, and marks a sign-in that was refused; people connect, sign in and out, change and
uninstall. `unkept` is a history variable: the secrets whose newest generation only the provider has.

### SpaceFiles and SearchIndex

A path names an inode, an inode has a text and a time of change; writing truncates and then fills, so that a reader may see an empty or a torn text.
`write`, `put` and `edit` hold the path's lock of the process, other requests and code in a container do not. The index
is one task: it takes what is queued, or scans, compares times, reads, stores, and then has chunks embedded by a service that may be restarted with another
model. Its reads may fail (`ReadFails`): a file that cannot be opened is taken for gone, a space that cannot be for one with nothing to look at, and an app's
database that cannot be leaves its rows in the index as they are; nobody asks again. Failing statements and the embeddings
service drop what the task had in hand (`IndexFails`, `EmbedFails`). `unseen` is a history variable: what changed with nothing but a scan to find it.


## 3. Runs

| run | bounds | what it shows |
|---|---|---|
| `agent_views`, turns | 2 clients, 2 turns, 1 frame each besides the last ones, 2 checkpoints, 2 cancellations per turn | every turn that is not cancelled twice sends its last frame (`EndIsHeard`) and leaves the row's flag true (`AwaitingIsTrue`), every follower hears all in order (`ImplementsChannel`), read means delivered, whoever leaves while the row is written (`ReadMeansDelivered`) |
| `agent_views`, chat | 2 tabs, 3 turns, 2 approvals asked, 3 messages sent, 1 socket lost | a tab that was told everything shows the card the thread waits on and its answer resumes that one (`TabsAreTold`) |
| `agent_views`, calls | 2 calls, people and 1 restart of the gateway, 4 events together; 2 secrets, 1 refresh | a refresh token is sent once and the newest one kept (`SignInsAreKept`), no credential comes back after a sign-out (`NeverAdded`) |
| `agent_views`, files | 2 paths, 2 texts, 4 mixes of requests, 3 requests, 2 while the index works, 1 row, 1 swap of the model | an edit replaces the text it was made on (`ReplacesWhatItSaw`), the index is never wrong (`IndexIsKept`) and catches up once changes stop (`SettledIsIndexed`) |
| `turn_faults`, turn | 1 client, 2 turns, 3 checkpoints, forks, truncations and branch switches, 7 faults | the inductive invariant (`TurnInv`); the tip moves to the turn's own last checkpoint (`TipIsTheTurns`); an unwatched turn ends and a cancelled one gives the lock back (`TurnsLetGo`) |
| `turn_faults`, grants | a routine of each of 3 kinds, 2 requests at once, 2 saves, 1 fault | a routine that is on holds a live grant, a live grant is its routine's (`GrantsAreHeld`), and turning it on ends with a grant (`OnIsGranted`) |
| `turn_lock_kept` | 1 turn, 3 cancellations of it | finding 1: `CancelReleases` is violated |
| `sched_runs` | 1 slot and either a delivered routine with 2 restarts, 4 ticks and every fault, or a daily one that people run, switch, delete and answer, for 3 ticks and 1 run | a due time runs once and no backlog builds up (`FiresWhenDue`); what is queued is not lost, what is recorded as running has somebody who will record its end, but for the runs the store failed twice (`RunsAreServed`) |
| `sched_slots`, routines | a one-shot and manual runs over 1 slot, 4 ticks, 2 runs, no faults, with fairness | the cap is kept (`KeepsToCap`), only stale approvals are rejected (`RejectsOnlyStale`), queued runs start, running ones end, stale approvals are answered (`SchedulerGoesOn`) |
| `sched_slots`, tools | 3 calls where nothing else happens, else 2, of 6 mixes: two tools of the middleware or one that asks by itself with settings that change, an integration's tool with settings, with discovery, with faults, alone; 2 messages, 2 changes or losses | what takes effect was approved, allowed by the settings read for it, or answers for such a call; a server's question is answered once, by what the user wrote since (`ToolCallsAreAsked`) |
| `sched_fresh_rejected` | 1 routine, people answer, 4 turns | finding 2: `RejectsOnlyStale` is violated |
| `exec_calls`, sessions | 2 calls, 6 ticks, 1 of: a change of grants, a hang with the failing removal after it or not, a DELETE, a restart, another failing call of Docker | a hung command does not keep the name, unless a restart or a failing call ended its request (`WedgedIsRemoved`), the reaper spares the busy (`SparesTheBusy`) and removes the idle (`IdleIsReaped`) |
| `exec_calls`, builds | 2 builds over 1 slot, 2 failing calls of Docker, 1 restart | no builder is left running (`BuildersAreRemoved`), every phase is answered (`PhasesAreAnswered`) |
| `exec_long_job` | 2 calls, a command longer than the client waits | finding 3: `FailedIsOver` is violated |
| `platform_scenes`, builds | 2 clients, 3 builds and reverts, or fewer with up to 2 of an edit, a publish or validation or archiving, and a restart; 2 contents | the working version has its bundle (`WorkingIsStored`), versions name the commit they were built from (`CommitIsBuilt`), in order (`CommitMovesForward`); no bundle stays that nobody has, or after archiving (`BundlesAreKept`) |
| `platform_scenes`, data | 1 instance, 2 columns, 3 schemas, 3 of: requests, 2 at once, failing copies, changes of whether the tool asks, a restart; 2 migrations | data goes only by its own migration, approved or let go ahead (`DropsOnlyApproved`), files only when nothing runs (`RemovedIdle`), the copy follows unless it failed (`DataIsKept`) |
| `platform_scenes`, accounts | 4 people, 1 pair, 3 requests, 2 at once, of one of 5 mixes | an admin is left (`AccountsAreKept`), codes, challenges, invites and the setup count once (`SingleUse`), sessions are of what is in force (`SignedInIsCurrent`) |
| `platform_scenes`, spaces | 3 people, 1 shared space, 2 requests, both at once, of one of 4 mixes, 1 change of people or restart | a space has an owner, a personal one its person alone (`SpacesAreOwned`); an archived one stays as it is (`ArchivedIsFrozen`) |
| `platform_scenes`, events | 1 page, 2 writes, 1 build, 1 of: a lost socket, a change of members or of the session, a restart | a page at rest shows the latest rows and runs the latest bundle (`EventsArrive`) |
| `builds_published` | 1 build, 1 publish, archiving | finding 4: `PublishedIsStored` is violated |
| `platform_copy_torn` | 1 instance, 2 requests, copies that may be slow | finding 5: `CopyIsWhole` is violated |
| `chat_stale_card` | 2 tabs, 2 approvals | finding 6: `AnswersWhatWaits` is violated |

Why these bounds are enough. Two clients are one that stays and one that comes or goes; two cancellations of a turn are one
inside the handler of the other;
two turns in a row let what one leaves (a tip, a timer, a queue) meet the next; three
checkpoints make a fork with a newer sibling. Two tabs and two approvals are the answer that comes late. Two run records of
one routine are a run and its successor, four ticks let two of its times pass while the server is down, and
one slot makes every pair of starters compete. Two calls are enough for one to remove
the container the other uses; what needs three is in section 5. Two requests at a time are the build that is at the
row's lock and the one that overtakes it; three in all let a reader be overtaken twice and a revert meet two builds; two contents
tell a commit from another one's source. Three requests on an instance are a change, the migration it makes
necessary and what comes between; a mix of people's requests holds those that touch the same rows. Two paths are a
move's ends, and two changes while the index works are one that it has taken up and one that overtakes it.
Two requests for a space are two owners who look at each other; two writes and a build are two events of a kind, which
coalesce, and one of the other, which must not. Two calls on a card are what a resume can mix up, and the third is an answer to the first's server. What is on an instance's start and cannot matter to its mix starts in one way (`AccountsStart`,
`SpacesStart`, `ToolsStart`). The theorems of section 4 hold without these bounds.

Every counter and the clock are bounded, so instances stop when they are used up;
that is why the configurations switch the deadlock check off. No liveness property
holds merely because the clock stops: it is either about states in which its goal needs no
more time, or it is checked to fail under a mutant with the same bounds.

Fairness. Of agent-server's code it is assumed that the event loop resumes a task whose await has returned and
that calls to the store return or fail (weak fairness of the task's steps, of workers, the poll and followers), that a
lock or slot that is free again and again goes to each waiter at some time (strong fairness of `Enter` and `ExpireEnter`:
`asyncio.Lock` is first come, first served), that timers fire, and that cancelled turns end. `SchedulerGoesOn` is of a store that answers:
a worker that the store has ended (`sched_runs`) serves nobody, and with the last worker the queue stands still. Nothing is assumed of
the model's stream, of people, or of when chats start. For `OnIsGranted` the calls of a save end, the scheduler goes on, and the
user comes back to the page that delivers the copy. For the manager (`ManagerSpec`): threads run on, GNU `timeout`
ends a command that is not hung, the reaper comes round and time passes, a task that holds a slot goes on and so does a
manager that starts. `platform_scenes` and `agent_views` state safety alone and assume none.

## 4. Proofs

The assumptions are the named ASSUMEs on the constants alone, which TLC evaluates in every run; where a theorem has
hypotheses besides, they are named below. The invariants were checked with TLC before they were proved.

`TurnRunner_proofs` about `TurnRunner`, for all clients, faults and bounds:

- `TypeCorrect`: `Spec => []TypeOK`, one step per action, frames by the lemma `EmitType`.
- `TurnInvCorrect`: `Spec => []TurnInv`. `TurnInv` is inductive together with the types: it
  says at every await which frames cannot have been sent yet, that a turn that is over
  has no audience, and that the lock is the turn's exactly while the turn is active.
  `LockExclusion` draws that last part out.
- `Refinement`: `Spec => ImplementsChannel`. Every step maps to a step of `TurnChannel` or a stutter; that a frame may
  be said (`MaySay`: nothing after a last frame, only a last frame after an approval) is what `TurnInv` is needed for.
- `EndHeard`: `EndIsHeard`, by `EndInv`, which says at each await which frame may be the last. Hypothesis: the statistics of a
  turn's end do not fail; without it the property is false. However often turns may be cancelled, it speaks of those that were not cancelled twice (section 5).
- `ReadIsDelivered`: `ReadMeansDelivered`, if the UPDATE of the row does not fail. `HeardAll` says that a client attached to a turn was sent every
  frame so far, and `ReadHeard` that the UPDATE of a turn that had an audience goes on with one client that was sent them all, though it leave meanwhile.
- `AwaitingTrue`: `AwaitingIsTrue`, on a thread with one branch whose calls do not fail (`OneBranch`, the configuration of `agent_views`), for any
  number of cancellations; it speaks of turns that were not cancelled twice. `Straight` ties the row, the tip and the last checkpoint at each await.
- `TipMovesWithTurn`: `TipIsTheTurns`, without hypotheses: with forks, truncations, switches of the branch, faults and any cancellations. Its invariant
  `OwnIsLatest` says that a turn that has saved a checkpoint has saved the latest, which nobody else can while it has the thread's lock.

`TurnRunner_proofs` about `ChatSockets`, for all tabs and bounds, without hypotheses:

- `ChatTypesCorrect`: `ChatSpec => []ChatTypeOK`.
- `ResumesItsOwn`, `CardIsShown`, together `TabsTold`: the parts `AnswersItsOwn` and `SettledShowsCard` of `TabsAreTold`. Neither is inductive: whether a page will show the approval
  depends on frames still queued for it. `ChatInv` says of each tab that follows a turn, until it hears the turn's end and after (`FollowOK`), that once
  the approval was announced its frame is in the tab's queue, or the page shows it, or has answered it and the answer is on
  the wire or held (`Shows`); that a queue announces no other approval and has nothing after a last frame; and that what the socket takes to wait, or is
  about to start, is what waits (`TabTold`), for tabs told of every end. A busy page that follows no turn has a request on its wire (`BusyOK`).

`RoutineScheduler_proofs`, for all routines, caps, faults and bounds:

- `TypeCorrect`: `TypeInv`, the types and that what `_expire` rejects is still in its list.
- `CapIsKept`: `KeepsToCap`, by `SlotInv`: who is between the wait for a slot and its turn holds the start lock alone, and a slot is still free.
- `NothingFiresTwice`: `FiresWhenDue`, by `DueInv`: a routine's next time is after all that was claimed of it and after the claim.
- `RunsAreSeenTo`: `RunsAreServed`, by `PlacesInv` (a run is in one of the queue, the claims and a worker), `StartedInv`
  (none with a turn of the scheduler's is where it would start another) and `ServedInv` (queued means in line, running seen to), with the store
  failing at any step. The runs in `dropped` are excepted, and only those: each is of a task that raised and whose record of that raised too.

`RoutineGrants_proofs`, for all kinds, requests, saves and faults:

- `GrantsTypeCorrect`: the types, and that there is always a grant to issue that nobody holds, a matter of cardinality (`FreshGrant`).
- `GrantsHeld`: `GrantsAreHeld`. `GrantInv` says that a live grant is held by the row, or will be once the
  request at its write writes, or waits to be dropped with a one-shot's run; and that no request has read
  a state of the row whose grant its own write would lose.

`RoutineGrants_proofs` about `ToolCalls`, for all tools, mixes, numbers of calls, messages and changes, without hypotheses:

- `ToolsAreAsked`: `ToolCallsAreAsked`. That a call was decided is not inductive, since it takes effect long after it was; `ToolInv` follows each call. `StagesFit` says how far the calls of
  a step are while the turn stands at each place, and that calls are numbered as they are made; `CardsFit` which calls a card has, that these alone have
  answers, and that a call past the middleware was approved or allowed; `GatesFit` that whatever the gateway is at was not rejected, that a marker it has is for an approved call, and that it has one, or the
  settings' leave, when it sends; `InputsFit` that a handle is of a call whose server asked, that at most one call takes it, and that the user's latest message is later. What
  the middleware gives a resumed call is that call's own answer if the same calls ask again (`DecisionIsTheirs`): two calls of a card have different places in it, which is a matter of
  cardinalities (`PlaceIsOwn`).

`ExecSessions_proofs`, for all numbers of calls, builds, slots and bounds:

- `TypeCorrect`: `Spec => []TypeOK`. The sets grow with the clock, the grants and the containers, so the proof first names
  them and shows that they grow (`LargerSets`) or stay (`SameSets`).
- `WedgedRemoved`: `Spec => []WedgedIsRemoved`. On its own the property is not inductive: that the outer timeout
  removes the container a command hangs in needs that the request still holds that container. The invariant
  `AttendedInv` says so of every command that runs or hangs, unless a restart or a failing call of Docker ended its request, and each step keeps it.
- `BusyIsSpared`: `SparesTheBusy`, by `BusyInv`: the session counts as used since the oldest command that is waited for
  started, even while an older container of it is being forgotten.
- `BuilderTypeCorrect`, `BuildersRemoved`: the types of `BuildRunner` and `BuildersAreRemoved`, by `BuilderInv`: whose
  a container is at each step of its task, and how many hold a slot.

`Apps_proofs` about `AppBuilds`, for all clients, contents and bounds:

- `TypeCorrect`: `Spec => []TypeOK`; in particular a build past its first steps has its package.
- `WorkingStored`: `Spec => []WorkingIsStored`. Inductive only together with where all the other bundles are
  (`BundleInv`): an unrecorded build's is on disk and nobody else's (`Stored`, `OwnApart`), one that waits to be removed is not
  the working version's (`Apart`), and none has a number yet to come (`Numbered`), so that a new one differs from all. Every step of
  a request but two only lets go of its own (`OnlyDrops`), which is shown once to keep the invariant.
- `LeaksNothing`, `ArchivedReleased`, together `BundlesKept`: the parts `NothingLeaks` and `ArchivedIsReleased` of `BundlesAreKept`,
  from the same invariant and the next.
- `CommitBuilt`, `CommitsForward`: the properties `CommitIsBuilt` and `CommitMovesForward`. Their invariant `CommitInv` says that who commits or records has the row's lock (`RowLocked`), that a build's
  commit is the head of the history until it is recorded (`Latest`), and that what a version or a publish's copy of one names
  is in the history, of the same content (`Names`, `Faithful`); the history only ever grows (`Extends`).

`Apps_proofs` about `AppData`, for all instances, clients, columns, schemas and bounds:

- `AppDataTypeCorrect`: the types, and that an instance's lock is held by the one request that is past taking it.
- `DropsApproved`, `RemovedWhenIdle`: the action properties `DropsOnlyApproved` and `RemovedIdle`, from `RequestInv`: what a
  request planned is planned on the database as it is, because it has the lock since, and that an agent's request is for a migration
  that was agreed to or that its tool was allowed to go on with.
- `CopiesFollow`, with the types `DataKept`: the part `CopyFollows` of `DataIsKept`, by `CopyInv`, which relates each run of the copier to the change that scheduled it; a copy that fails puts its instance into `uncopied`, and
  only the next change takes it out.

`Apps_proofs` about `EventHub`, for all pages and bounds:

- `EventsDoArrive`: `EventsArrive`, by `EventInv`. For each open page and each kind of change (`RowsFollow`, `BundleFollows`) the last one is
  still owed, or in the subscriber's backlog or batch, on the wire or about to be told by `ready`, or the page has it or is under way to it with a
  query or a reload that will start over; `BatchIsSent` that a batch is sent whole before the backlog is taken again. A backlog taken a step late, a
  socket that joins the hub after it said `ready`, or a query that ignores what comes while it runs would break it.

`Accounts_proofs`, for all requests, people, mixes and bounds:

- `AccountsTypeCorrect`: the types.
- `AnAdminIsLeft`, with the types `AccountsKept`: the part `AdminLeft` of `AccountsAreKept`, by `AdminInv`: who has the advisory lock and is about to demote or disable has seen another admin, who still is one.
- `SessionsAreCurrent`: `SignedInIsCurrent`, by `SessionInv`: a session that lets someone in is of what is in force or marked as inserted
  late, and a pair's revocation, between its statements, knows all of the pair's sessions.
- `UsedOnce`: `SingleUse`, by `OnceInv`, with a part each for codes, challenges and invites.

`Accounts_proofs` about `Spaces`, for all people, spaces, requests and mixes:

- `SpacesAreAlwaysOwned`: `SpacesAreOwned`, by `SpacesInv`: who holds a row's lock is the one request past it (`LockIsHeld`), and what such a request has
  looked at still holds, another owner above all, because whoever would change it waits for the lock (`CheckedStillHolds`).
- `ArchivedStaysAsItWas`: the action property `ArchivedIsFrozen`, from the same invariant.

`Integrations_proofs`, for all secrets, calls and bounds:

- `GatewayTypeCorrect`: the types, and that an owner's lock is held by the one call that asks the provider for them.
- `OnlyPeopleAdd`: the action property `NeverAdded`.
- `SignInsLast`, with the types `SignInsKept`: the part `SignInLasts` of `SignInsAreKept`, by `GatewayInv`: where the newest generation of each secret is (in memory, on its way to the platform, stored), and that none
  that was spent is sent again.

`SearchIndex_proofs`, for all clients, paths, texts, rows, declarations, mixes and bounds:

- `SearchTypesCorrect`: the types of files, requests, index and task, and that a path's lock is held by the request that is past
  taking it. `Typed` adds what a request holds of the disk (`Holding`) and that without copies every change has a time of its own (`Timed`).
- `ReplacesOnlyWhatItSaw`: `ReplacesWhatItSaw`, by `SeenInv`. What a client was told of a file is what it has as long as it has that version (`Seen`), and
  a request past the check still finds what it checked (`Found`), because whoever else would write to the path waits for its lock (`LocksApart`).
- `IndexTrue`, with the types `IndexKept`: the part `IndexIsTrue` of `IndexIsKept`. `FilesTrue` says that a text the index has, or is about to store, under a time is that of the file with that time: a
  file that changes while it is read gets another time, so a torn text is never taken for the present one. `RowsTrue` says the same of
  rows and that what is stored is of the declaration it is stored under; `VectorsTrue` that a vector of the served model is of its chunk's text. The assumption that a mix of
  requests with changes of rows has the index at work, which bounds the rows' times, is `SearchAssumption`'s.
- `NothingForgotten`: `SettledIsIndexed`, by `FollowInv`. Each path outside `unseen` has in the index, or in the hand of the task that has just looked
  at it, the time it has on disk, unless something will still look at it (`ToLook`): a request that has not queued it yet, the queue with a task that comes to it
  before it sleeps (`Awake`), or what the task goes through. The rows' part (`RowsFollowed`) follows what is declared and the rows' times in the same way.
  A lost wake-up, a queue cleared late or a path that is looked at before its text is read would break it. What a failing read or statement made the task forget is in `unseen`.

What the attempts to prove these changed in the models. `CopyFollows` was true of too much and is tightened to the
copy's contents. `ConfirmTotp` forgets the codes spent before a new secret is in force, without which `SingleUse` was not inductive,
and a used pair is in use by one session. The reuse of a refresh token is counted where the provider refuses it.
Routines that are due at the same time are claimed in any order, where the model had them in one. Some CASEs had two true arms
with different values, which TLC resolved by their order and TLA+ leaves open; they are IFs now. The proof of `ToolCallsAreAsked` failed at the middleware's
resume, and rightly: decisions are given by place, so that a call that was not on the card can take another's (section 5). `mixed` marks such calls, and for all others the property is stronger than it was, as
a rejected call no longer counts as decided when the settings would have let it run.

Only model-checked. Liveness (`TurnsLetGo`, `OnIsGranted`, `SchedulerGoesOn`, `IdleIsReaped`, `PhasesAreAnswered`) rests on fairness and ENABLED, which
the prover does not do. `RejectsOnlyStale` holds where nobody answers (finding 2 shows it false otherwise), so a theorem would need that as a hypothesis.
Every other property of a passing run is a theorem; where a run checks a part with the types of its module, so does the theorem.

## 5. What was found

With a run:

1. `turn_lock_kept`. `ActiveTurn.cancel` refuses only once a last frame was sent. A turn whose cancellation was itself
   cancelled sends none, so one more lands in `_run`'s `finally`, and the thread's lock is never released.
2. `sched_fresh_rejected`. `_expire` looks at the run before it waits for a slot and the thread's lock. An approval
   asked meanwhile is rejected although nobody had the time to answer it.
3. `exec_long_job`. `execute_code`'s HTTP client has no timeout of its own, so httpx's five seconds apply: longer commands
   are reported as failed while they run on.
4. `builds_published`. `release_space_bundles` hands over the working version's bundle for removal although a published
   version has the same path. The published version, which other spaces may have installed, is left without a bundle.
5. `platform_copy_torn`. `_publish_later` lets go of the instance before it copies, and copies without its lock. Two copies at once share
   `ro/.data.sqlite.tmp`: the second unlinks the first one's file and begins its own, which the first then seals and renames, unfinished.
6. `chat_stale_card`. An answer is checked against the socket's own copy of the pending approval, and resumes the thread
   without naming the interrupt. A tab that was not told that the other one answered resumes the next interrupt with decisions made for the first.

Met while modelling, without a run of their own.

Turns and chats:

- Two cancellations of one turn: it ends with no last frame at all (a third is finding 1), and its row's flag may not tell of an approval it stopped on.
- A socket that leaves while the row of a finished turn is written counts as its audience: the row is marked read, although it is not sent END any more.
- A turn that is cancelled before it has saved anything takes the latest checkpoint of any branch as the tip: a fork that is stopped at once can end up on the branch
  it forked from, or on another. `TipIsTheTurns` excepts it.
- A second tab that follows a turn is not told of its cancellation by another tab after its pause; a turn that pauses between
  a page's `GET /state` and the accepting of its socket leaves the approval pending with no card; a stop that crosses the turn's end leaves a stale card.
- The page can send messages that are read and ignored in the middle of a turn, although `chat_ws.py` says that "a well-behaved
  client never sends another frame before turn_end/error".

Routines:

- An approval is announced before its run is recorded as waiting (`_waiting_routine_run`): a quick answer resumes the turn as an
  ordinary one; the run is left waiting, until the poll finds it answered and records it as succeeded.
- Runs ended by `_expire`, `_resume_rejected` and `recover_interrupted` never retire a one-shot, so its grant stays.
- A manual run whose launch raises stays running until the next restart.
- A store that fails within `tick` leaves the other claims queued in the table and in no queue until the next restart.
- A store that fails in a worker and again in `_finish(run, "failed", ...)` ends the worker's task: the exception leaves `_worker`'s loop, nothing starts another, and
  the run stays queued or running until the next restart. One that fails in a follower leaves its run running. `RunsAreServed` excepts both (`dropped`).
- A refused grant of which only the first half is written when the store fails leaves a routine off, with its run as it was.
- `ensure` turns a built-in routine on again that its user has just turned off; a refusal that comes late turns off a routine whose grant is
  new; a new time computed from a row read before leaves a routine on without a `next_run_at`; turning on and moving at once pairs the row with the
  other space's grant; an update of a row deleted meanwhile leaves a grant with no routine; two issues at once are one error 500; and a
  routine that is claimed between its insertion and its grant is switched off with a live grant. `GrantsAreHeld` excepts these (`stray`).
- `_done.add` may come after the `forget` it should have come before.

Tool calls:

- A resumed card gives its decisions by place to the calls that ask then. The calls on it are pinned to ask again, but whether their tools are on is read anew. If one goes off between the pause and the resume,
  the numbers differ and the resume fails; but if another call of the step, which was allowed, asks by now, they agree, and it takes a decision that was made for another call: with two calls one runs on the other's
  approval, with three even one that was rejected, where `pinned_approvals` in `chat_ws.py` has it that "a mismatch fails the resume rather than running a rejected call". `ToolCallsAreAsked` excepts these (`mixed`).
- "A handle is spent only when the answer goes to the server" (`docs/INTEGRATIONS.md`), but the gateway spends it before it asks the server for its tools. When that request finds the sign-in
  expired, the renewal starts the operation again, whose handle is gone: the user's answer is lost and the call is to be started again.

Code execution:

- `execute` takes the container it finds after `_ensure_sync` without comparing grants again: three racing calls can run a
  command under older grants. Two calls with different grants remove each other's containers; two creations collide.
- The reaper can see a container that is created and not started, or known to no `_last_used` although this process made
  it; the comment in `_reap_container_if_idle` calls that impossible. It is harmless: its start time is long ago
  only until it starts, and a removal in between fails that call.
- `_force_remove` swallows an APIError of `kill` and of `remove`: when Docker is what hangs, the command is answered as timed out while its container keeps running, with the
  session's name. Other errors escape and fail the request. `WedgedIsRemoved` excepts both; the reaper finds the container once it has been idle for long enough.
- A builder's start that is refused after its creation, or a kill or removal that does not reach Docker, leaves a container until the manager starts again.

Builds and app data:

- A rebuild that records itself between `publish_app`'s read of the working row and its insertion removes the bundle that is then published.
- `publish_app` copies the folder as it is then, not the package the bundle was built from, as migration `0006_app_sharing.sql` has it.
- A build that read the published versions before a publish keeps its version, so the next publish collides, against
  `_bumped_version`'s "So a publish never collides".
- A revert after a publish is built under a bumped version and so commits once more, although `revert_app`'s docstring says
  it commits nothing more unless the folder changed meanwhile.
- Bundles in a request's hands at a crash are never collected: `Builds.prepare` empties the staging directory only. A commit that
  took effect but was reported as failed removes the bundle it recorded. After two rebuilds `instance_bundle` gives up.
- A plan that only adds columns does not supersede an older pending migration. Updates and builds that overlap can migrate in the other order.
- `_publish_later` logs a copy that failed and does nothing more: the read-only copy stays behind until the next change. What agents read in their containers is older than the app's page.
- `approve_migration` asks only "unless the user allows this tool": a marker is then minted although nobody was shown the steps. The docstring of `hitl.mint` has it
  "after the user approved it". `DropsOnlyApproved` counts the permission.
- A crash or an error of Postgres between the change of a database and its recording leaves the read-only copy behind, or a migration applied and
  not audited. An error that is no `PlatformError` in `built`'s loop keeps that instance's page from being told.

Accounts:

- `activate_pending_totp` writes whatever secret is pending, with an earlier last step: a second confirmation can undo one, sessions minted late survive,
  and a code counts twice when confirmations race sign-ins.
- A session inserted after the credentials its sign-in had read were changed stays (`late`); so does one minted between the two statements of `revoke_pair`.
  `rehash_if_needed` may overwrite a newer password.

Integrations:

- A refresh of an older sign-in that ends after a new one puts its secret back into `_fresh`, and `freshest` compares generations only (`unkept`).
- A cancellation during the outer `mark_needs_reconnecting` leaves the call unaudited.

Files, search and events:

- Agents' writes carry no `if_version`. Uploads, moves, copies, deletions and code take no lock. An aborted PUT leaves its file truncated and unqueued; a
  move that races a write queues the old name only; a copy keeps the time of change, so the index can take it for what it has; times have milliseconds only.
- A failing read forgets the change it was for: `read_text` and `_walk` take a file they cannot open for one that is gone, and drop it from the index; `reconcile` returns
  silently when an app's database cannot be read. Nothing asks again before the next scan. `SettledIsIndexed` excepts these (`unseen`).
- Vectors of a chunk are reused by the hash of its text although its title may have changed; the label of the model is cached for a minute (the run allows one swap).
- A membership gained is noticed after up to ten seconds, and changes published before that are never told; those taken before
  a membership ended are still sent.
- Rows of `app_catalog` are never deleted; `update_instance` does not check that a version is newer, as its docstring has it; uninstalling renames the
  data directory within the transaction; a fork is three transactions and leaves its folder when one fails.

## 6. Plan

1. `RejectsOnlyStale` for schedulers nobody answers.
2. Installing, updating, forking and uninstalling an app from the catalog, with its grants to read other apps' data.
3. The files tools of the agent (`platform_files.py`, `agentfs.py`) as clients of `SpaceFiles`.

## 7. Not modelled, and why

Prompts, the texts of tools and what their arguments mean: sequential, no shared state. Schedule arithmetic over calendars and time zones: one
function, better served by its unit tests; the scheduler needs only that the next time is strictly later. Path resolution below a directory
descriptor: its correctness is the kernel's. The egress proxy, web fetch and the app builder keep no state. Of the user interface only what a
chat's page and an open app do with their sockets is modelled. Left out of what is modelled: `TurnRunner.shutdown`, with which the process ends; the rate limiter and `require_passkeys` of the accounts, the binding of a pair to WireGuard; the several reads of a grant and
the insertion of a credential that was read as missing are one step; the platform that goes away during a build has given it up.

## 8. Running it

In this directory, `tlc -config Agent_views.cfg MCAgent` (and so on, as `PROJECT.json` lists) checks a run,
`tlapm TurnRunner_proofs.tla` the proofs. The largest runs take three to four minutes with two workers.
