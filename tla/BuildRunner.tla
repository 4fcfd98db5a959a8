---------------------------- MODULE BuildRunner ----------------------------
(* The code-exec-manager's builders: one container per phase of an app's    *)
(* build (code-exec-manager/app/builds.py), at most BuildSlots at once, as  *)
(* the platform asks for them (ExecManagerBuilder and `_run` of the         *)
(* platform's core/appbuild.py).                                            *)
(*                                                                          *)
(* A request is an asyncio task of the manager: it waits for a slot, makes  *)
(* its container, waits for it in a thread, reads its output and removes    *)
(* it.  Every call of the Docker daemon may fail, as an answer (refused) or *)
(* without one (unreachable), the builder may hang, the platform may give   *)
(* up, and the manager restart.                                             *)
EXTENDS Naturals, FiniteSets, Sequences

CONSTANTS
    AppBuildIds,         \* builds, each with a build_id of its own
    BuildSlots,          \* build_concurrency
    MaxDockerFaults,     \* bound
    MaxManagerRestarts   \* bound

ASSUME BuilderAssumption ==
    BuildSlots \in Nat \ {0} /\ MaxDockerFaults \in Nat /\ MaxManagerRestarts \in Nat

Phases   == 1 .. 2                  \* compile, smoke
Builders == AppBuildIds \X Phases   \* build_container_name

VARIABLES
    appBuild,    \* the platform's builds: idle, asking for a phase, between two, over
    request,     \* the manager's task for a build, with its phase and what it will answer
    waiters,     \* the tasks that wait for a slot, first come first served
    builder,     \* the containers
    serving,     \* the manager has started
    stray,       \* history variable: containers that a failed call of Docker left
    faultsLeft

builderVars == <<appBuild, request, waiters, builder, serving, stray, faultsLeft>>

NoPhase == [at |-> "none", phase |-> 1, how |-> "failed"]

Holding(b) == request[b].at \in {"create", "wait", "kill", "logs", "remove"}

BuilderTypeOK ==
    /\ appBuild \in [AppBuildIds -> [at : {"idle", "asking", "next", "ok", "failed"}, phase : Phases]]
    /\ request \in [AppBuildIds -> [at : {"none", "queued", "create", "wait", "kill", "logs", "remove"},
                                    phase : Phases, how : {"ok", "failed"}]]
    /\ waiters \in Seq(AppBuildIds)
    /\ builder \in [Builders -> {"none", "created", "running", "ok", "failed"}]
    /\ serving \in BOOLEAN /\ stray \subseteq Builders
    /\ faultsLeft \in [docker : 0 .. MaxDockerFaults, restarts : 0 .. MaxManagerRestarts]

BuilderInit ==
    /\ appBuild = [b \in AppBuildIds |-> [at |-> "idle", phase |-> 1]]
    /\ request = [b \in AppBuildIds |-> NoPhase] /\ waiters = <<>>
    /\ builder = [k \in Builders |-> "none"] /\ serving = TRUE /\ stray = {}
    /\ faultsLeft = [docker |-> MaxDockerFaults, restarts |-> MaxManagerRestarts]

Container(b) == <<b, request[b].phase>>
Staged(b)    == appBuild[b].at = "asking"
Fault        == faultsLeft.docker > 0 /\ faultsLeft' = [faultsLeft EXCEPT !.docker = @ - 1]
NoFault      == UNCHANGED faultsLeft
AtStep(b, s) == request[b].at = s /\ UNCHANGED <<waiters, serving>>
Goes(b, s)   == request' = [request EXCEPT ![b].at = s] /\ UNCHANGED appBuild

-----------------------------------------------------------------------------
(* The platform.                                                           *)

\* `_run` and ExecManagerBuilder.run: nobody listens while the manager is down.
AskPhase(b) ==
    LET phase == IF appBuild[b].at = "next" THEN 2 ELSE 1 IN
    /\ appBuild[b].at \in {"idle", "next"}
    /\ appBuild' = [appBuild EXCEPT ![b] = [at |-> IF serving THEN "asking" ELSE "failed", phase |-> phase]]
    /\ request' = IF serving THEN [request EXCEPT ![b] = [NoPhase EXCEPT !.at = "queued", !.phase = phase]]
                             ELSE request
    /\ waiters' = IF serving THEN Append(waiters, b) ELSE waiters
    /\ UNCHANGED <<builder, serving, stray, faultsLeft>>

\* The client's time limit: the staged package is discarded, the request goes on.
PlatformGivesUp(b) ==
    /\ appBuild[b].at = "asking" /\ appBuild' = [appBuild EXCEPT ![b].at = "failed"]
    /\ UNCHANGED <<request, waiters, builder, serving, stray, faultsLeft>>

\* The task ends, and with it its hold of a slot; its answer takes the build to the next phase.
EndPhase(b, how) ==
    /\ request' = [request EXCEPT ![b] = NoPhase]
    /\ appBuild' = IF appBuild[b].at # "asking" THEN appBuild
                   ELSE [appBuild EXCEPT ![b].at = IF how = "ok" /\ @ = "asking" /\ appBuild[b].phase = 1
                                                   THEN "next" ELSE how]

-----------------------------------------------------------------------------
(* The manager.                                                            *)

\* Mutant: a task whose container could not be made keeps its slot.
FreeSlotLost == Cardinality({b \in AppBuildIds : Holding(b)} \union {b \in AppBuildIds : appBuild[b].at = "failed"}) < BuildSlots

FreeSlot == Cardinality({b \in AppBuildIds : Holding(b)}) < BuildSlots

\* `async with self._slots`.
TakeSlot ==
    /\ waiters # <<>> /\ FreeSlot
    /\ Goes(Head(waiters), "create") /\ waiters' = Tail(waiters)
    /\ UNCHANGED <<builder, serving, stray, faultsLeft>>

\* `_create`: made and started; no package staged any more (404), no image (503), refused; or
\* made and not started, which nobody sees to.
CreateBuilder(b) ==
    /\ AtStep(b, "create")
    /\ \/ /\ Staged(b) /\ Goes(b, "wait") /\ NoFault
          /\ builder' = [builder EXCEPT ![Container(b)] = "running"] /\ UNCHANGED stray
       \/ ~Staged(b) /\ EndPhase(b, "failed") /\ NoFault /\ UNCHANGED <<builder, stray>>
       \/ Fault /\ EndPhase(b, "failed") /\ UNCHANGED <<builder, stray>>
       \/ /\ Staged(b) /\ Fault /\ EndPhase(b, "failed")
          /\ builder' = [builder EXCEPT ![Container(b)] = "created"] /\ stray' = stray \union {Container(b)}

\* The builder exits; its result.json says whether the phase went well.
BuilderExits(k) ==
    /\ builder[k] = "running" /\ \E how \in {"ok", "failed"} : builder' = [builder EXCEPT ![k] = how]
    /\ UNCHANGED <<appBuild, request, waiters, serving, stray, faultsLeft>>

\* `container.wait` returns, or its time is up, or Docker answers with an error: both the latter
\* are RequestExceptions.
WaitReturns(b) ==
    /\ AtStep(b, "wait") /\ builder[Container(b)] \in {"ok", "failed"}
    /\ request' = [request EXCEPT ![b].at = "logs", ![b].how = builder[Container(b)]]
    /\ UNCHANGED <<appBuild, builder, stray, faultsLeft>>

WaitTimesOut(b) == AtStep(b, "wait") /\ Goes(b, "kill") /\ UNCHANGED <<builder, stray, faultsLeft>>

\* `_kill`: done, or refused, which is ignored; an unreachable daemon ends the task.
KillBuilder(b) ==
    /\ AtStep(b, "kill")
    /\ \/ /\ Goes(b, "logs") /\ NoFault /\ UNCHANGED stray
          /\ builder' = [builder EXCEPT ![Container(b)] = IF @ = "running" THEN "failed" ELSE @]
       \/ Goes(b, "logs") /\ Fault /\ UNCHANGED <<builder, stray>>
       \/ EndPhase(b, "failed") /\ Fault /\ UNCHANGED builder /\ stray' = stray \union {Container(b)}

\* asyncio.wait_for gives up the thread that waits or kills.
GiveUpThread(b) ==
    /\ AtStep(b, "wait") \/ AtStep(b, "kill")
    /\ Goes(b, "logs") /\ UNCHANGED <<builder, stray, faultsLeft>>

\* Mutant: an error of the logs ends the task before the container is removed.
ReadLogsFirst(b) ==
    /\ AtStep(b, "logs")
    /\ \/ Goes(b, "remove") /\ NoFault
       \/ EndPhase(b, "failed") /\ Fault
    /\ UNCHANGED <<builder, stray>>

\* `_logs`, and whatever they say or fail with, the container is removed (finally).
ReadLogs(b) ==
    /\ AtStep(b, "logs")
    /\ \/ Goes(b, "remove") /\ NoFault
       \/ request' = [request EXCEPT ![b].at = "remove", ![b].how = "failed"] /\ Fault /\ UNCHANGED appBuild
    /\ UNCHANGED <<builder, stray>>

\* `_force_remove`: done; refused, which is ignored; unreachable.
RemoveBuilder(b) ==
    /\ AtStep(b, "remove")
    /\ \/ EndPhase(b, request[b].how) /\ NoFault /\ UNCHANGED stray
          /\ builder' = [builder EXCEPT ![Container(b)] = "none"]
       \/ /\ \E how \in {request[b].how, "failed"} : EndPhase(b, how)
          /\ Fault /\ UNCHANGED builder /\ stray' = stray \union {Container(b)}

\* The manager dies and with it every request; a container that Docker was making may be there.
ManagerRestart ==
    /\ faultsLeft.restarts > 0 /\ faultsLeft' = [faultsLeft EXCEPT !.restarts = @ - 1]
    /\ serving' = FALSE /\ waiters' = <<>> /\ request' = [b \in AppBuildIds |-> NoPhase]
    /\ appBuild' = [b \in AppBuildIds |-> IF appBuild[b].at = "asking" THEN [appBuild[b] EXCEPT !.at = "failed"]
                                                                       ELSE appBuild[b]]
    /\ \E made \in SUBSET {Container(b) : b \in {x \in AppBuildIds : request[x].at = "create" /\ Staged(x)}} :
          builder' = [k \in Builders |-> IF k \in made THEN "running" ELSE builder[k]]
    /\ UNCHANGED stray

\* Mutant: the manager serves at once.
RemoveStaleLater ==
    /\ ~serving /\ serving' = TRUE
    /\ UNCHANGED <<appBuild, request, waiters, builder, stray, faultsLeft>>

\* `remove_stale`, before the manager serves: the list may fail, and each removal.
RemoveStale ==
    /\ ~serving /\ serving' = TRUE /\ UNCHANGED <<appBuild, request, waiters>>
    /\ \/ NoFault /\ builder' = [k \in Builders |-> "none"] /\ stray' = {}
       \/ /\ Fault
          /\ \E kept \in SUBSET {k \in Builders : builder[k] # "none"} :
                /\ builder' = [k \in Builders |-> IF k \in kept THEN builder[k] ELSE "none"]
                /\ stray' = kept

-----------------------------------------------------------------------------
(* The specification.                                                      *)

\* What a task of the manager does by itself: each of its calls comes back or is given up.
PhaseStep(b) ==
    \/ CreateBuilder(b) \/ WaitReturns(b) \/ WaitTimesOut(b) \/ KillBuilder(b) \/ GiveUpThread(b)
    \/ ReadLogs(b) \/ RemoveBuilder(b)

BuilderNext ==
    \/ \E b \in AppBuildIds : AskPhase(b) \/ PlatformGivesUp(b) \/ PhaseStep(b)
    \/ \E k \in Builders : BuilderExits(k)
    \/ TakeSlot \/ ManagerRestart \/ RemoveStale

BuilderSpec == BuilderInit /\ [][BuilderNext]_builderVars

-----------------------------------------------------------------------------
(* Properties.                                                             *)

\* "Remove build containers a previous process left behind": while the manager serves, every
\* builder is in a task's hands, and no more of them run than there are slots, after any
\* restart too; but for those a failed call of Docker left.
BuildersAreRemoved ==
    serving =>
        /\ \A k \in Builders \ stray : builder[k] # "none" =>
              request[k[1]].at \in {"wait", "kill", "logs", "remove"} /\ request[k[1]].phase = k[2]
        /\ Cardinality({k \in Builders \ stray : builder[k] = "running"}) <= BuildSlots

\* Phases the platform asks for are answered, although builders may never end and calls of
\* Docker fail: each build asks for two, so a time comes again when none is unanswered.
PhasesAreAnswered == []<>(\A b \in AppBuildIds : appBuild[b].at # "asking")
=============================================================================
