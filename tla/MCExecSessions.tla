---------------------------- MODULE MCExecSessions ----------------------------
(* The exec manager for TLC: each behaviour is one session with its calls, or *)
(* the builders of apps; the other stays as it started.                       *)
EXTENDS ExecSessions, BuildRunner

CONSTANT Sides

VARIABLE side

ManagerInit == side \in Sides /\ Init /\ BuilderInit

ManagerNext ==
    /\ UNCHANGED side
    /\ \/ side = "sessions" /\ Next /\ UNCHANGED builderVars
       \/ side = "builds" /\ BuilderNext /\ UNCHANGED vars

\* Threads go on, commands end at their timeout, the reaper comes round every minute, and
\* time passes; tasks that hold a slot go on, and so does a manager that starts.
ManagerSpec ==
    /\ ManagerInit /\ [][ManagerNext]_<<side, vars, builderVars>>
    /\ \A c \in Calls : WF_vars(side = "sessions" /\ Progress(c))
    /\ WF_vars(side = "sessions" /\ Cleaning) /\ WF_vars(side = "sessions" /\ Tick)
    /\ WF_builderVars(side = "builds" /\ (TakeSlot \/ RemoveStale \/ \E b \in AppBuildIds : PhaseStep(b)))
===============================================================================
