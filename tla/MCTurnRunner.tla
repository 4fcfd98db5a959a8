---------------------------- MODULE MCTurnRunner ----------------------------
(* Two of the agent-server's tasks that calls may fail under, for TLC: each  *)
(* behaviour is either a turn, or a routine and its grant, as it is saved,   *)
(* delivered and used; the other stays as it started.                        *)
EXTENDS TurnRunner, RoutineGrants

CONSTANT Scenes  \* of "turn", "grants"

VARIABLE scene

ScenesInit ==
    /\ scene \in Scenes /\ Init
    /\ GrantsInit /\ (scene # "grants" => kind = CHOOSE k \in Kinds : TRUE)

ScenesNext ==
    /\ UNCHANGED scene
    /\ \/ scene = "turn" /\ Next /\ UNCHANGED grantVars
       \/ scene = "grants" /\ GrantsNext /\ UNCHANGED vars

\* FairSpec's fairness, and that of GrantsFairness, each in its scene.
ScenesSpec ==
    /\ ScenesInit /\ [][ScenesNext]_<<scene, vars, grantVars>>
    /\ WF_vars(scene = "turn" /\ TaskStep)
    /\ WF_vars(scene = "turn" /\ Elapse) /\ WF_vars(scene = "turn" /\ OnDetachedTimeout)
    /\ \A s \in Savers : WF_grantVars(scene = "grants" /\ SaverStep(s))
    /\ WF_grantVars(scene = "grants" /\ \E s \in Savers : AskEnsure(s))
    /\ WF_grantVars(scene = "grants" /\ RunnerStep)

\* A turn that nobody watches ends by itself and one that is cancelled gives back the
\* thread's lock, whatever fails on the way.
TurnsLetGo == UnwatchedTurnEnds /\ CancelReleases
=============================================================================
