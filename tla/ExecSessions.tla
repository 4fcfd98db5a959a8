------------------------------ MODULE ExecSessions ------------------------------
(***************************************************************************)
(* One exec session: the container a chat thread's `execute_code` calls    *)
(* run their commands in.  services/code-exec-manager/app/sessions.py with *)
(* reaper.py and the two endpoints of api.py, called by the tool of        *)
(* services/agent-server/app/agent/execute_code_tool.py; Docker and the    *)
(* platform, which computes the user's grants, are external.               *)
(*                                                                         *)
(* The manager runs each request in a thread of its own with no lock, so   *)
(* an action is one Docker call and what follows it.  The thread's owner   *)
(* is the only user: session ids are the ids of one user's threads.        *)
(***************************************************************************)
EXTENDS Naturals, FiniteSets

CONSTANTS
    MaxCalls,     \* bound: the model's `execute_code` calls, numbered as they are made
    Patience,     \* how long the tool's HTTP client waits for an answer
    Timeout,      \* `timeout_seconds`, for GNU timeout in the container
    Grace,        \* OUTER_TIMEOUT_GRACE_S
    IdleLimit,    \* exec_idle_minutes
    MaxTime,      \* bound
    MaxEvents     \* bound: changes of grants, hangs, DELETEs, restarts and failures of
                  \* Docker, where a hang and the failing removal after it count as one

ASSUME TimesAssumption == /\ Patience \in Nat \ {0} /\ Timeout \in Nat \ {0} /\ Grace \in Nat
                          /\ IdleLimit \in Nat /\ Timeout + Grace < IdleLimit
ASSUME BoundsAssumption == MaxCalls \in Nat /\ MaxTime \in Nat /\ MaxEvents \in Nat

VARIABLES
    now,
    policy,     \* the grants the platform would answer now, by their digest
    box,        \* the container holding the session's name; id 0: none
    boxes,      \* how many containers were made
    lastUsed,   \* SessionManager._last_used
    call,       \* each call: where its request stands, what it read, when it was
                \* asked and since when its command runs
    tool,       \* what the tool has told the model of each call
    command,    \* each call's command: its container and how it is doing
    remover,    \* the reaper and DELETE: stopping, removing, forgetting
    left        \* of MaxEvents

callVars == <<call, tool, command>>
vars == <<now, policy, box, boxes, lastUsed, callVars, remover, left>>

None     == [id |-> 0, grants |-> 0, status |-> "none", started |-> 0]
Calls    == 1..MaxCalls
Removers == {"reaper", "delete"}
Steps    == {"idle", "look", "removeOld", "create", "start", "ensured", "find", "refind",
             "run", "waiting", "done", "failed", "lost", "cut"}

Containers == [id : 0..boxes, grants : 0..policy, started : 0..now,
               status : {"none", "created", "running", "stopped"}]
Requests   == [at : Steps, grants : 0..policy, box : 0..boxes, inner : BOOLEAN,
               asked : 0..now, since : 0..now]
Commands   == [box : 0..boxes, status : {"none", "running", "hung", "ended", "killed"}]
Removals   == [at : {"off", "stopping", "removing", "forgetting"}, box : 0..boxes]

TypeOK ==
    /\ now \in Nat /\ policy \in Nat /\ boxes \in Nat /\ left \in Nat
    /\ box \in Containers
    /\ lastUsed \in [known : BOOLEAN, at : 0..now]
    /\ call \in [Calls -> Requests] /\ command \in [Calls -> Commands]
    /\ tool \in [Calls -> {"idle", "waiting", "answered", "failed"}]
    /\ remover \in [Removers -> Removals]

Unknown   == [known |-> FALSE, at |-> 0]
Used(t)   == [known |-> TRUE, at |-> t]
Over(how) == [at |-> how, grants |-> 0, box |-> 0, inner |-> FALSE, asked |-> 0, since |-> 0]

\* A request that a restart ("lost") or Docker ("cut") ended, perhaps with its command going on.
Off(c, how) == [Over(how) EXCEPT !.since = call[c].since]

Init ==
    /\ now = IdleLimit + 1          \* so that 0, Docker's "never started", is long ago
    /\ policy = 0 /\ box = None /\ boxes = 0 /\ lastUsed = Unknown
    /\ call = [c \in Calls |-> Over("idle")]
    /\ tool = [c \in Calls |-> "idle"]
    /\ command = [c \in Calls |-> [box |-> 0, status |-> "none"]]
    /\ remover = [p \in Removers |-> [at |-> "off", box |-> 0]]
    /\ left = MaxEvents

-----------------------------------------------------------------------------
(* Docker.                                                                 *)

Open(c) == command[c].status \in {"running", "hung"}

\* Stopping or removing a container kills the commands in it.
Killed(id) == [c \in Calls |-> IF command[c].box = id /\ Open(c)
                               THEN [box |-> 0, status |-> "killed"] ELSE command[c]]

Removed(id) == IF box.id = id THEN None ELSE box

Stopped(id) == IF box.id = id /\ box.status = "running" THEN [box EXCEPT !.status = "stopped"] ELSE box

Running(id) == id # 0 /\ id = box.id /\ box.status = "running"

Made(g)  == [id |-> boxes + 1, grants |-> g, status |-> "created", started |-> 0]
Started  == [box EXCEPT !.status = "running", !.started = now]
Exec(id) == [box |-> id, status |-> "running"]

\* `_matches` (the caller is the owner).
Matches(c) == box.grants = call[c].grants

-----------------------------------------------------------------------------
(* The tool and its two requests.                                          *)

At(c, step) == call' = [call EXCEPT ![c].at = step]
Touch       == lastUsed' = Used(now)
Happens     == left > 0 /\ left' = left - 1

\* The request ends without an answer the tool can use.
Fail(c) ==
    /\ call' = [call EXCEPT ![c] = Over("failed")]
    /\ tool' = [tool EXCEPT ![c] = "failed"]

\* POST ensure; the manager fetches the grants.
Request(c) ==
    /\ call[c].at = "idle" /\ \A d \in 1..(c - 1) : call[d].at # "idle"
    /\ call' = [call EXCEPT ![c].at = "look", ![c].grants = policy, ![c].asked = now]
    /\ tool' = [tool EXCEPT ![c] = "waiting"]
    /\ UNCHANGED <<now, policy, box, boxes, lastUsed, command, remover, left>>

\* POST execute, unless the tool gave up; the grants are fetched again.
Execute(c) ==
    /\ call[c].at = "ensured"
    /\ IF tool[c] = "waiting"
       THEN call' = [call EXCEPT ![c].at = "find", ![c].grants = policy, ![c].asked = now]
       ELSE call' = [call EXCEPT ![c] = Over("failed")]
    /\ UNCHANGED <<now, policy, box, boxes, lastUsed, tool, command, remover, left>>

\* The tool's client stops waiting; the manager's request goes on.
GiveUp(c) ==
    /\ tool[c] = "waiting" /\ now >= call[c].asked + Patience
    /\ tool' = [tool EXCEPT ![c] = "failed"]
    /\ UNCHANGED <<now, policy, box, boxes, lastUsed, call, command, remover, left>>

-----------------------------------------------------------------------------
(* `_ensure_sync`, for ensure and inside execute.                          *)

AfterEnsure(c) == IF call[c].inner THEN "refind" ELSE "ensured"

\* The container is used again only if it runs under these grants.
Look(c) ==
    /\ call[c].at = "look"
    /\ \/ box.id = 0 /\ At(c, "create") /\ UNCHANGED lastUsed
       \/ /\ box.id # 0 /\ box.status = "running" /\ Matches(c)
          /\ Touch /\ At(c, AfterEnsure(c))
       \/ /\ box.id # 0 /\ ~(box.status = "running" /\ Matches(c))
          /\ call' = [call EXCEPT ![c].at = "removeOld", ![c].box = box.id]
          /\ UNCHANGED lastUsed
    /\ UNCHANGED <<now, policy, box, boxes, tool, command, remover, left>>

RemoveOld(c) ==
    /\ call[c].at = "removeOld"
    /\ box' = Removed(call[c].box) /\ command' = Killed(call[c].box)
    /\ IF box.id = call[c].box THEN At(c, "create") /\ UNCHANGED tool ELSE Fail(c)
    /\ UNCHANGED <<now, policy, boxes, lastUsed, remover, left>>

\* `containers.run` creates; the name may be taken by now.
Create(c) ==
    /\ call[c].at = "create"
    /\ IF box.id = 0
       THEN /\ boxes' = boxes + 1 /\ box' = Made(call[c].grants)
            /\ call' = [call EXCEPT ![c].at = "start", ![c].box = boxes']
            /\ UNCHANGED tool
       ELSE Fail(c) /\ UNCHANGED <<box, boxes>>
    /\ UNCHANGED <<now, policy, lastUsed, command, remover, left>>

\* ... and starts; the container may be gone.
Start(c) ==
    /\ call[c].at = "start"
    /\ IF box.id = call[c].box
       THEN /\ box' = Started /\ Touch /\ At(c, AfterEnsure(c)) /\ UNCHANGED tool
       ELSE Fail(c) /\ UNCHANGED <<box, lastUsed>>
    /\ UNCHANGED <<now, policy, boxes, command, remover, left>>

-----------------------------------------------------------------------------
(* `execute`.                                                              *)

Find(c) ==
    /\ call[c].at = "find"
    /\ \/ box.id = 0 /\ Fail(c)
       \/ /\ box.id # 0 /\ Matches(c) /\ UNCHANGED tool
          /\ call' = [call EXCEPT ![c].at = "run", ![c].box = box.id]
       \/ /\ box.id # 0 /\ ~Matches(c) /\ UNCHANGED tool
          /\ call' = [call EXCEPT ![c].at = "look", ![c].inner = TRUE]
    /\ UNCHANGED <<now, policy, box, boxes, lastUsed, command, remover, left>>

\* The container is read again after `_ensure_sync`, and taken as it is.
Refind(c) ==
    /\ call[c].at = "refind"
    /\ call' = [call EXCEPT ![c].at = "run", ![c].box = box.id]
    /\ UNCHANGED <<now, policy, box, boxes, lastUsed, tool, command, remover, left>>

\* The session counts as used when its command starts, or fails to.
Run(c) ==
    /\ call[c].at = "run" /\ Touch
    /\ IF Running(call[c].box)
       THEN /\ command' = [command EXCEPT ![c] = Exec(box.id)]
            /\ call' = [call EXCEPT ![c].at = "waiting", ![c].since = now]
            /\ UNCHANGED tool
       ELSE Fail(c) /\ UNCHANGED command
    /\ UNCHANGED <<now, policy, box, boxes, remover, left>>

\* The exec hangs, and the Docker call with it.
Hang(c) ==
    /\ command[c].status = "running" /\ Happens
    /\ command' = [command EXCEPT ![c].status = "hung"]
    /\ UNCHANGED <<now, policy, box, boxes, lastUsed, call, tool, remover>>

Answered(c) == /\ call' = [call EXCEPT ![c] = Over("done")]
               /\ tool' = [tool EXCEPT ![c] = IF @ = "waiting" THEN "answered" ELSE @]

\* The command ends, by itself or by GNU timeout.
CommandEnds(c) ==
    /\ command[c].status = "running"
    /\ command' = [command EXCEPT ![c] = [box |-> 0, status |-> "ended"]]
    /\ IF call[c].at = "waiting" THEN Answered(c) ELSE UNCHANGED <<call, tool>>
    /\ UNCHANGED <<now, policy, box, boxes, lastUsed, remover, left>>

\* ... or with its container.
Answer(c) ==
    /\ call[c].at = "waiting" /\ ~Open(c)
    /\ Answered(c)
    /\ UNCHANGED <<now, policy, box, boxes, lastUsed, command, remover, left>>

\* Mutant of ForceRemove: the call is given up, and that is all.
LeaveBehind(id) == UNCHANGED <<box, command>>

\* `_force_remove`: kill and remove.
ForceRemove(id) == box' = Removed(id) /\ command' = Killed(id)

\* The outer `wait_for`.
GuardFires(c) == now >= call[c].since + Timeout + Grace

OuterTimeout(c) ==
    /\ call[c].at = "waiting" /\ Open(c) /\ GuardFires(c)
    /\ ForceRemove(call[c].box)
    /\ Answered(c)
    /\ UNCHANGED <<now, policy, boxes, lastUsed, remover, left>>

-----------------------------------------------------------------------------
(* A call of Docker fails, with its effect or without.                     *)

\* The request ends here; the tool is told, unless it has given up.
Cut(c, says) ==
    /\ call' = [call EXCEPT ![c] = Off(c, "cut")]
    /\ tool' = [tool EXCEPT ![c] = IF @ = "waiting" THEN says ELSE @]

\* The error escapes `ensure` or `execute`, whose command may go on.
DockerFails(c) ==
    /\ call[c].at \in {"look", "removeOld", "create", "start", "find", "refind", "run", "waiting"}
    /\ Happens /\ Cut(c, "failed")
    /\ lastUsed' = IF call[c].at = "run" THEN Used(now) ELSE lastUsed
    /\ \/ UNCHANGED <<box, boxes, command>>
       \/ call[c].at = "removeOld" /\ ForceRemove(call[c].box) /\ UNCHANGED boxes
       \/ /\ call[c].at = "create" /\ box.id = 0
          /\ boxes' = boxes + 1 /\ box' = Made(call[c].grants) /\ UNCHANGED command
       \/ /\ call[c].at = "start" /\ box.id = call[c].box
          /\ box' = Started /\ UNCHANGED <<boxes, command>>
    /\ UNCHANGED <<now, policy, remover>>

\* ... and so may what the outer `wait_for` gives up: `_force_remove` swallows Docker's
\* refusal to kill or to remove, and the answer is that of a timeout; other errors escape.
ForceRemoveFails(c) ==
    /\ call[c].at = "waiting" /\ Open(c) /\ GuardFires(c)
    /\ IF command[c].status = "hung" THEN UNCHANGED left ELSE Happens
    /\ \E says \in {"answered", "failed"} : Cut(c, says)
    /\ \/ UNCHANGED <<box, command>>
       \/ box' = Stopped(call[c].box) /\ command' = Killed(call[c].box)
       \/ ForceRemove(call[c].box)
    /\ UNCHANGED <<now, policy, boxes, lastUsed, remover>>

-----------------------------------------------------------------------------
(* `reap_once`, and DELETE.                                                *)

\* Mutant of LastUse: the reaper goes by the age of the container.
LastStarted == box.started

\* A container this process does not know is adopted as of its start.
LastUse == IF lastUsed.known THEN lastUsed.at ELSE box.started

OverIdle == box.id # 0 /\ now - LastUse > IdleLimit

\* Mutant of Adopted: a session is given its idle limit in advance.
AdoptedAhead == Used(LastUse + IdleLimit)

\* `_adopt` keeps what it read.
Adopted == Used(LastUse)

\* Mutant of Listed: without `all=True`.
ListedRunning == box.status = "running"

Listed == box.id # 0

\* The reaper's look at the session.
Reap ==
    /\ remover["reaper"].at = "off" /\ Listed
    /\ lastUsed' = Adopted
    /\ IF now - LastUse > IdleLimit
       THEN remover' = [remover EXCEPT !["reaper"] = [at |-> "stopping", box |-> box.id]]
       ELSE UNCHANGED remover
    /\ UNCHANGED <<now, policy, box, boxes, callVars, left>>

\* DELETE of the session; nothing of it is used up if there is no container.
Delete ==
    /\ remover["delete"].at = "off" /\ Happens
    /\ remover' = [remover EXCEPT !["delete"] =
         [at |-> IF box.id = 0 THEN "forgetting" ELSE "stopping", box |-> box.id]]
    /\ UNCHANGED <<now, policy, box, boxes, lastUsed, callVars>>

\* `stop` waits for five seconds, then kills; its errors are ignored.
Stop(p) ==
    /\ remover[p].at = "stopping"
    /\ remover' = [remover EXCEPT ![p].at = "removing"]
    /\ box' = Stopped(remover[p].box) /\ command' = Killed(remover[p].box)
    /\ UNCHANGED <<now, policy, boxes, lastUsed, call, tool, left>>

\* A container that is gone already raises, and the session is not forgotten.
Remove(p) ==
    /\ remover[p].at = "removing"
    /\ remover' = [remover EXCEPT ![p] =
         [at |-> IF box.id = remover[p].box THEN "forgetting" ELSE "off", box |-> 0]]
    /\ box' = Removed(remover[p].box) /\ command' = Killed(remover[p].box)
    /\ UNCHANGED <<now, policy, boxes, lastUsed, call, tool, left>>

\* Docker fails: a refused stop is ignored; what else goes wrong ends the removal, and the
\* session is not forgotten.
RemovalFails(p) ==
    /\ remover[p].at \in {"stopping", "removing"} /\ Happens
    /\ \/ /\ remover[p].at = "stopping"
          /\ remover' = [remover EXCEPT ![p].at = "removing"] /\ UNCHANGED <<box, command>>
       \/ /\ remover' = [remover EXCEPT ![p] = [at |-> "off", box |-> 0]]
          /\ \/ UNCHANGED <<box, command>>
             \/ /\ remover[p].at = "stopping"
                /\ box' = Stopped(remover[p].box) /\ command' = Killed(remover[p].box)
             \/ remover[p].at = "removing" /\ ForceRemove(remover[p].box)
    /\ UNCHANGED <<now, policy, boxes, lastUsed, call, tool>>

Forget(p) ==
    /\ remover[p].at = "forgetting"
    /\ lastUsed' = Unknown
    /\ remover' = [remover EXCEPT ![p].at = "off"]
    /\ UNCHANGED <<now, policy, box, boxes, callVars, left>>

-----------------------------------------------------------------------------
(* The rest of the world.                                                  *)

\* A membership or a role changes on the platform.
PolicyChanges ==
    /\ Happens /\ policy' = policy + 1
    /\ UNCHANGED <<now, box, boxes, lastUsed, callVars, remover>>

\* The manager restarts: requests and `_last_used` are lost, containers and
\* the commands in them are not.
Restart ==
    /\ Happens
    /\ call' = [c \in Calls |-> IF call[c].at \in {"idle", "done", "failed", "cut"} THEN call[c]
                                ELSE Off(c, "lost")]
    /\ tool' = [c \in Calls |-> IF tool[c] = "waiting" THEN "failed" ELSE tool[c]]
    /\ lastUsed' = Unknown
    /\ remover' = [p \in Removers |-> [at |-> "off", box |-> 0]]
    /\ UNCHANGED <<now, policy, box, boxes, command>>

\* GNU timeout, the client's and the outer one act in time, and so does all
\* that does not wait for Docker to make, start, stop or remove a container.
Tick ==
    /\ now < MaxTime /\ now' = now + 1
    /\ \A p \in Removers : remover[p].at # "forgetting"
    /\ \A c \in Calls :
         /\ call[c].at \notin {"look", "ensured", "find", "refind", "run"}
         /\ tool[c] = "waiting" => now < call[c].asked + Patience
         /\ command[c].status = "running" => now < call[c].since + Timeout
         /\ call[c].at = "waiting" => now < call[c].since + Timeout + Grace
    /\ UNCHANGED <<policy, box, boxes, lastUsed, callVars, remover, left>>

\* What the manager does for a call.
Serve(c) == \/ Look(c) \/ RemoveOld(c) \/ Create(c) \/ Start(c) \/ Find(c) \/ Refind(c)
            \/ Run(c) \/ Answer(c) \/ OuterTimeout(c)

Progress(c) == Serve(c) \/ Execute(c) \/ CommandEnds(c) \/ GiveUp(c)

Removal(p) == Stop(p) \/ Remove(p) \/ Forget(p)

Cleaning == Reap \/ \E p \in Removers : Removal(p)

Next ==
    \/ \E c \in Calls : Request(c) \/ Progress(c) \/ Hang(c) \/ DockerFails(c) \/ ForceRemoveFails(c)
    \/ Cleaning \/ Delete \/ \E p \in Removers : RemovalFails(p)
    \/ PolicyChanges \/ Restart \/ Tick

Spec == Init /\ [][Next]_vars

\* Threads go on, commands end at their timeout, the reaper comes round every
\* minute, and time passes.
FairSpec ==
    /\ Spec
    /\ \A c \in Calls : WF_vars(Progress(c))
    /\ WF_vars(Cleaning) /\ WF_vars(Tick)

-----------------------------------------------------------------------------
(* Properties.                                                             *)

\* The reaper does not turn against a container while a request waits for a
\* command in it: the command started within the idle limit, and its session
\* is not forgotten, although older containers of it may be.
SparesTheBusy ==
    [][\A c \in Calls : call[c].at = "waiting" /\ Open(c) /\ command[c].box = box.id
         => ~(remover["reaper"].at = "off" /\ remover'["reaper"].at = "stopping")]_vars

\* A container nobody uses for longer than the idle limit does not stay,
\* even if the manager restarts and knows nothing of it.
IdleIsReaped == OverIdle ~> ~OverIdle

\* A command that hangs does not keep the session's name: when its request
\* has been answered, its container is gone, unless the manager restarted or
\* Docker failed a call of that request.  IdleIsReaped is about those.
WedgedIsRemoved == \A c \in Calls :
    command[c].status = "hung" => call[c].at \in {"waiting", "lost", "cut"}

\* A command that the tool has reported failed is not running: the model
\* may well try again.  "Long jobs: raise timeout_seconds (max 600)."
FailedIsOver == \A c \in Calls : tool[c] = "failed" => ~Open(c)
=============================================================================
