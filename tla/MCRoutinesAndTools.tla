-------------------------- MODULE MCRoutinesAndTools --------------------------
(* RoutineScheduler and ToolCalls for TLC: each behaviour is either routines *)
(* over a slot, or a thread's tool calls; the others stay as they started.   *)
EXTENDS RoutineScheduler, ToolCalls

CONSTANT Scenes  \* of "routines", "tools"

VARIABLE scene

\* What a mix of tool calls looks at: its tools, and with use_integration the server's.
LooksAt == (toolMix \intersect Names) \union (IF UseIt \in toolMix THEN McpTools ELSE {})

\* Everything is on for everyone and allowed; the user's settings decide what asks.
ToolsStart ==
    /\ toolMix \in ToolMixes /\ offered = McpTools
    /\ everyone = [k \in Keys |-> OnAllow]
    /\ \E asks \in SUBSET (IF "faults" \in toolMix THEN McpTools ELSE LooksAt) :
          mine = [k \in Keys |-> IF k \in asks THEN OnAsk ELSE OnAllow]

ToolsAtRest ==
    /\ toolMix = CHOOSE x \in ToolMixes : TRUE
    /\ offered = {} /\ everyone = [k \in Keys |-> OnAllow] /\ mine = everyone

\* Two calls unless nothing but calls happens; one turn where settings change, and with two tools of the middleware two
\* changes of the user's, while a card waits.
ToolsOfInterest ==
    /\ Cardinality(toolMix) > 1 => Unused' # {}
    /\ toolMix \intersect {"settings", "discovery"} # {} => message' <= 1
    /\ \A k \in Keys \ LooksAt : everyone'[k] = everyone[k] /\ mine'[k] = mine[k]
    /\ IF Cardinality(toolMix) > 2
       THEN everyone' = everyone /\ (settingVars' # settingVars => turn.at = "waiting")
       ELSE toolsLeft' > 0

BothInit ==
    /\ scene \in Scenes
    /\ IF scene = "tools" THEN ToolsStart /\ alive = {} ELSE ToolsAtRest
    /\ Init /\ ToolInit

BothNext ==
    /\ UNCHANGED scene
    /\ \/ scene = "routines" /\ Next /\ UNCHANGED toolVars
       \/ scene = "tools" /\ ToolNext /\ ToolsOfInterest /\ UNCHANGED vars

\* FairSpec's fairness, in its scene.
BothSpec ==
    /\ BothInit /\ [][BothNext]_<<scene, vars, toolVars>>
    /\ WF_vars(scene = "routines" /\ Poll) /\ SF_vars(scene = "routines" /\ ExpireEnter)
    /\ \A w \in Workers : /\ WF_vars(scene = "routines" /\ WorkerStep(w))
                          /\ SF_vars(scene = "routines" /\ Enter(w))
    /\ WF_vars(scene = "routines" /\ \E f \in followers : Follow(f) \/ Followed(f))
    /\ WF_vars(scene = "routines" /\ ChatEnds)
    /\ WF_vars(scene = "routines" /\ \E t \in DOMAIN turns : TimeLimit(t))
    /\ WF_vars(scene = "routines" /\ \E t \in DOMAIN turns : turns[t].limit /\ TurnEnds(t))
===============================================================================
