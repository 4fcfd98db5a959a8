------------------------------ MODULE ToolCalls ------------------------------
(***************************************************************************)
(* The agent's tool calls and what lets them run: a turn's tool policy and *)
(* the cards of services/agent-server/app/agent/approvals.py, app_tools.py *)
(* and integration_tools.py, the settings behind it (tool_permissions.py   *)
(* and integrations.py of services/platform/app/core), and the calls the   *)
(* integrations gateway makes (service.py and handles.py).                 *)
(*                                                                         *)
(* One user, one thread, one integration.  A call is known by its number,  *)
(* in the order the model makes calls; its arguments come with it.  A      *)
(* request about settings is one step, and so is whatever the gateway does *)
(* between two awaits.  With the policy a turn reads, the calls of a step  *)
(* first meet the middleware that shows cards, then run side by side.      *)
(***************************************************************************)
EXTENDS Naturals, FiniteSets

CONSTANTS
    CardTools,      \* tools that ask through the middleware
    OwnTools,       \* tools that ask by themselves, but for use_integration
    McpTools,       \* tools the integration's server may offer
    NoTool,
    ToolMixes,      \* which calls are made, and what happens meanwhile
    MaxToolCalls, MaxMessages, MaxSettings   \* bounds: calls, user messages, changes of settings and losses

UseIt == "use_integration"
Names == CardTools \union OwnTools \union {UseIt}
Keys  == Names \union McpTools

ASSUME ToolCallsAssumption ==
    /\ NoTool \notin Keys /\ UseIt \notin CardTools \union OwnTools \union McpTools
    /\ CardTools \intersect OwnTools = {} /\ McpTools \intersect Names = {}
    /\ MaxToolCalls \in Nat /\ MaxMessages \in Nat /\ MaxSettings \in Nat

VARIABLES
    everyone, mine,   \* agent_tool_admin_settings and agent_tool_user_settings
    offered, served,  \* the integration's tools as last discovered, and as the server has them
    turn,             \* the turn under way and its policy
    bound,            \* the thread's bound_tools
    request,          \* what each call is
    stage,            \* how far it is
    answer,           \* what the user answered when a card showed it
    gate,             \* what the gateway is doing about it
    approvals, handles, \* HitlApprovals._grants and InputHandles._pending, by the call they are for
    message,          \* the thread's latest user message
    ran, let, mixed,  \* history: calls that took effect, those settings let run, those a resume mixed up
    asked, told,      \* history: the message after which a call's server asked for input, and was answered
    toolMix, toolsLeft

settingVars == <<everyone, mine, offered, served>>
callVars    == <<request, stage, answer, ran, let, mixed>>
gateVars    == <<gate, approvals, handles, asked, told>>
toolVars    == <<settingVars, turn, bound, callVars, gateVars, message, toolMix, toolsLeft>>

Calls   == 1..MaxToolCalls
Setting == [on : BOOLEAN, allows : BOOLEAN]
CallRow == [tool : Names \union {NoTool}, mcp : McpTools \union {NoTool}, of : Calls \union {0}]
Stages  == {"none", "made", "ready", "ask", "gateway", "done"}
TurnRow == [at : {"idle", "model", "check", "tools", "waiting"}, available : SUBSET Keys, allowed : SUBSET Keys,
            pinned : SUBSET Calls]
GateRow == [at : {"none", "grant", "op", "live", "send"}, marked : BOOLEAN, available : BOOLEAN, allows : BOOLEAN,
            again : BOOLEAN, latest : Nat]

NoCall == [tool |-> NoTool, mcp |-> NoTool, of |-> 0]
GateRest  == [at |-> "none", marked |-> FALSE, available |-> FALSE, allows |-> FALSE, again |-> FALSE,
              latest |-> 0]

ToolTypeOK ==
    /\ everyone \in [Keys -> Setting] /\ mine \in [Keys -> Setting]
    /\ offered \in SUBSET McpTools /\ served \in SUBSET McpTools
    /\ turn \in TurnRow /\ bound \in [fixed : BOOLEAN, tools : SUBSET Names]
    /\ request \in [Calls -> CallRow] /\ stage \in [Calls -> Stages]
    /\ answer \in [Calls -> {"none", "approve", "reject"}] /\ gate \in [Calls -> GateRow]
    /\ approvals \in SUBSET Calls /\ handles \in SUBSET Calls /\ message \in Nat
    /\ ran \in SUBSET Calls /\ let \in SUBSET Calls /\ mixed \in SUBSET Calls
    /\ asked \in [Calls -> Nat] /\ told \in [Calls -> Nat]
    /\ toolMix \in ToolMixes /\ toolsLeft \in Nat

ToolInit ==
    /\ everyone \in [Keys -> Setting] /\ mine \in [Keys -> Setting]
    /\ offered \in SUBSET McpTools /\ served = offered
    /\ turn = [at |-> "idle", available |-> {}, allowed |-> {}, pinned |-> {}]
    /\ bound = [fixed |-> FALSE, tools |-> {}]
    /\ request = [c \in Calls |-> NoCall] /\ stage = [c \in Calls |-> "none"]
    /\ answer = [c \in Calls |-> "none"] /\ gate = [c \in Calls |-> GateRest]
    /\ approvals = {} /\ handles = {} /\ message = 0 /\ ran = {} /\ let = {} /\ mixed = {}
    /\ asked = [c \in Calls |-> 0] /\ told = [c \in Calls |-> 0]
    /\ toolMix \in ToolMixes /\ toolsLeft = MaxSettings

-----------------------------------------------------------------------------
(* Settings.                                                               *)

\* `evaluate`: on for both, and allowed by both.
Available(k) == everyone[k].on /\ mine[k].on
Allowed(k)   == everyone[k].allows /\ mine[k].allows

SpendsOne == toolsLeft > 0 /\ toolsLeft' = toolsLeft - 1

\* `_known` and `_keyed`: the tools whose settings can be changed.
Known == Names \union offered

\* `change_mine`: what the admin has locked cannot be opened.
ChangeMine(k) ==
    /\ "settings" \in toolMix /\ k \in Known /\ SpendsOne
    /\ \E s \in Setting :
          /\ s.on /\ ~mine[k].on => everyone[k].on
          /\ s.allows /\ ~mine[k].allows => everyone[k].allows
          /\ mine' = [mine EXCEPT ![k] = s]
    /\ UNCHANGED <<everyone, offered, served, turn, bound, callVars, gateVars, message, toolMix>>

\* `change_admin`.
ChangeAdmin(k) ==
    /\ "settings" \in toolMix /\ k \in Known /\ SpendsOne
    /\ \E s \in Setting : everyone' = [everyone EXCEPT ![k] = s]
    /\ UNCHANGED <<mine, offered, served, turn, bound, callVars, gateVars, message, toolMix>>

\* The server offers other tools from now on.
ServerChanges ==
    /\ "discovery" \in toolMix /\ SpendsOne /\ served' \in SUBSET McpTools
    /\ UNCHANGED <<everyone, mine, offered, turn, bound, callVars, gateVars, message, toolMix>>

Off     == [on |-> FALSE, allows |-> TRUE]
OnAllow == [on |-> TRUE, allows |-> TRUE]
OnAsk   == [on |-> TRUE, allows |-> FALSE]

\* `store_discovery`: a new tool is off for everyone, one that is gone loses its settings.
StoreDiscovery ==
    /\ "discovery" \in toolMix /\ served # offered
    /\ offered' = served
    /\ everyone' = [k \in Keys |-> IF k \in served \ offered THEN Off ELSE IF k \in offered \ served THEN OnAllow ELSE everyone[k]]
    /\ mine' = [k \in Keys |-> IF k \in offered \ served THEN OnAsk ELSE mine[k]]
    /\ UNCHANGED <<served, turn, bound, callVars, gateVars, message, toolMix, toolsLeft>>

-----------------------------------------------------------------------------
(* Turns and cards.                                                        *)

\* `policy` and `from_platform`: what a turn reads of the settings before it does anything.
Reads(at, pinned) ==
    turn' = [at |-> at, available |-> {k \in Keys : Available(k)},
             allowed |-> {k \in Keys : Available(k) /\ Allowed(k)}, pinned |-> pinned]

\* A user's message starts a turn, the thread's first one binds its tools (`_bind`).
StartTurn ==
    /\ turn.at = "idle" /\ message < MaxMessages
    /\ message' = message + 1 /\ Reads("model", {})
    /\ bound' = IF bound.fixed THEN bound ELSE [fixed |-> TRUE, tools |-> {k \in Names : Available(k)}]
    /\ UNCHANGED <<settingVars, callVars, gateVars, toolMix, toolsLeft>>

Unused == {c \in Calls : stage[c] = "none"}
Moves(cs, to) == stage' = [c \in Calls |-> IF c \in cs THEN to ELSE stage[c]]
Goes(c, to)   == stage' = [stage EXCEPT ![c] = to]
TurnGoes(at)  == turn' = [turn EXCEPT !.at = at]

\* What the model may call: any tool, perhaps one that it may not use, or with an answer to what a server asked.
Calling ==
    {q \in CallRow : /\ q.tool \in Names \intersect toolMix
                     /\ q.mcp \in IF q.tool = UseIt THEN McpTools ELSE {NoTool}
                     /\ q.of # 0 => asked[q.of] # 0 /\ q.mcp = request[q.of].mcp}

\* The model makes one or more calls, the next numbers.
ModelCalls ==
    /\ turn.at = "model"
    /\ \E cs \in SUBSET Unused \ {{}} : \E qs \in [cs -> Calling] :
          /\ \A c \in cs, d \in Unused \ cs : c < d
          /\ request' = [c \in Calls |-> IF c \in cs THEN qs[c] ELSE request[c]]
          /\ Moves(cs, "made")
    /\ TurnGoes("check")
    /\ UNCHANGED <<settingVars, bound, answer, ran, let, mixed, gateVars, message, toolMix, toolsLeft>>

ModelEnds ==
    /\ turn.at = "model" /\ TurnGoes("idle")
    /\ UNCHANGED <<settingVars, bound, callVars, gateVars, message, toolMix, toolsLeft>>

\* Mutant of Needs: a resumed call follows the policy of the resumed turn.
NeedsByPolicy(c) == request[c].tool \notin turn.allowed

\* `needs_approval`: a call that was on the card takes its answer, whatever the policy says by now.
Needs(c) == c \in turn.pinned \/ request[c].tool \notin turn.allowed

MadeNow == {c \in Calls : stage[c] = "made"}

\* The calls of a step for which the middleware asks (`_asks`).
Asking == {c \in MadeNow : request[c].tool \in CardTools \intersect turn.available /\ Needs(c)}

\* The middleware gives the decisions, in the order of the card, to the calls that ask now, in theirs.
Before(c, cs)  == {d \in cs : d < c}
DecisionFor(c) ==
    CHOOSE a \in {"approve", "reject"} :
        \E d \in turn.pinned : answer[d] = a /\ Cardinality(Before(d, turn.pinned)) = Cardinality(Before(c, Asking))

\* A step whose calls need no card goes on to the tools, or pauses the turn for the user.
CheckCalls ==
    /\ turn.at = "check" /\ turn.pinned = {}
    /\ IF Asking = {}
       THEN Moves(MadeNow, "ready") /\ TurnGoes("tools")
       ELSE UNCHANGED stage /\ turn' = [turn EXCEPT !.at = "waiting", !.pinned = Asking]
    /\ UNCHANGED <<settingVars, bound, request, answer, ran, let, mixed, gateVars, message, toolMix, toolsLeft>>

\* Resumed, as many calls must ask as were on the card; if none does, all go on as they are.
CheckResumed ==
    /\ turn.at = "check" /\ turn.pinned # {}
    /\ Asking = {} \/ Cardinality(Asking) = Cardinality(turn.pinned)
    /\ stage' = [c \in Calls |-> IF c \notin MadeNow THEN stage[c]
                                 ELSE IF c \in Asking /\ DecisionFor(c) = "reject" THEN "done" ELSE "ready"]
    /\ mixed' = mixed \union IF Asking = turn.pinned THEN {} ELSE Asking
    /\ turn' = [turn EXCEPT !.at = "tools"]
    /\ UNCHANGED <<settingVars, bound, request, answer, ran, let, gateVars, message, toolMix, toolsLeft>>

\* Otherwise the resume fails, and the card may still be there.
ResumeFails ==
    /\ turn.at = "check" /\ turn.pinned # {}
    /\ Asking # {} /\ Cardinality(Asking) # Cardinality(turn.pinned)
    /\ \/ TurnGoes("waiting") /\ UNCHANGED stage
       \/ TurnGoes("idle") /\ Moves(MadeNow, "done")
    /\ UNCHANGED <<settingVars, bound, request, answer, ran, let, mixed, gateVars, message, toolMix, toolsLeft>>

\* `approval_response`, `cancel` or an answer that comes too late: a decision for every call on the card.
\* The resumed turn reads the policy anew and pins those calls (`pinned_approvals`).
AnswerCard ==
    /\ turn.at = "waiting"
    /\ \E d \in [turn.pinned -> {"approve", "reject"}] :
          answer' = [c \in Calls |-> IF c \in turn.pinned THEN d[c] ELSE answer[c]]
    /\ Reads(IF MadeNow # {} THEN "check" ELSE "tools", turn.pinned)
    /\ Moves({c \in Calls : stage[c] = "ask"}, "ready")
    /\ UNCHANGED <<settingVars, bound, request, ran, let, mixed, gateVars, message, toolMix, toolsLeft>>

\* The turn is stopped, fails or times out: it and its calls are over, but for what the gateway is doing.
TurnFails ==
    /\ "faults" \in toolMix /\ turn.at \in {"check", "tools", "model"} /\ TurnGoes("idle")
    /\ Moves({c \in Calls : stage[c] # "none"}, "done")
    /\ UNCHANGED <<settingVars, bound, request, answer, ran, let, mixed, gateVars, message, toolMix, toolsLeft>>

-----------------------------------------------------------------------------
(* The tools.                                                              *)

IsReady(c) == turn.at = "tools" /\ stage[c] = "ready"

\* `_refusal`.
Usable(c) == request[c].tool \in turn.available \intersect bound.tools

LetBy(c, settings) == let' = IF settings THEN let \union {c} ELSE let

\* Mutant of RunTool: an answer is only waited for, not looked at.
RunAnyway(c) ==
    /\ IsReady(c) /\ Usable(c)
    /\ request[c].tool \in CardTools \/ (request[c].tool \in OwnTools /\ (Needs(c) => answer[c] # "none"))
    /\ ran' = ran \union {c} /\ LetBy(c, request[c].tool \in turn.allowed) /\ Goes(c, "done")
    /\ UNCHANGED <<settingVars, turn, bound, request, answer, mixed, gateVars, message, toolMix, toolsLeft>>

\* A tool behind the middleware runs, and one that asks by itself once it need not or was approved (`_ask_user`).
RunTool(c) ==
    /\ IsReady(c) /\ Usable(c)
    /\ request[c].tool \in CardTools \/ (request[c].tool \in OwnTools /\ (Needs(c) => answer[c] = "approve"))
    /\ ran' = ran \union {c} /\ LetBy(c, request[c].tool \in turn.allowed) /\ Goes(c, "done")
    /\ UNCHANGED <<settingVars, turn, bound, request, answer, mixed, gateVars, message, toolMix, toolsLeft>>

\* A call of a tool that is off is refused; one that asks by itself may also fail at what it reads first.
RefuseTool(c) ==
    /\ IsReady(c) /\ (Usable(c) => request[c].tool \in OwnTools)
    /\ Goes(c, "done")
    /\ UNCHANGED <<settingVars, turn, bound, request, answer, ran, let, mixed, gateVars, message, toolMix, toolsLeft>>

\* `interrupt`: what the call has read was only read, it runs again from the top once answered.
AskUser(c) ==
    /\ IsReady(c) /\ Usable(c) /\ request[c].tool \notin CardTools /\ request[c].of = 0
    /\ Needs(c) /\ answer[c] = "none" /\ Goes(c, "ask")
    /\ UNCHANGED <<settingVars, turn, bound, request, answer, ran, let, mixed, gateVars, message, toolMix, toolsLeft>>

\* "The user rejected": nothing runs.
TakeRejection(c) ==
    /\ IsReady(c) /\ Usable(c) /\ request[c].tool \notin CardTools /\ request[c].of = 0
    /\ Needs(c) /\ answer[c] = "reject" /\ Goes(c, "done")
    /\ UNCHANGED <<settingVars, turn, bound, request, answer, ran, let, mixed, gateVars, message, toolMix, toolsLeft>>

\* `/v1/call`, with the latest user message.
Posts(c, marked) == gate' = [gate EXCEPT ![c] = [GateRest EXCEPT !.at = "grant", !.marked = marked, !.latest = message]]

\* `use_integration`, with an answer for the server or when the turn's policy allows it: the gateway knows the rest.
CallGateway(c) ==
    /\ IsReady(c) /\ Usable(c) /\ request[c].tool = UseIt
    /\ request[c].of # 0 \/ ~Needs(c)
    /\ Posts(c, FALSE) /\ Goes(c, "gateway")
    /\ UNCHANGED <<settingVars, turn, bound, request, answer, ran, let, mixed, approvals, handles, asked, told,
                   message, toolMix, toolsLeft>>

\* `_mint`, after the card was approved: none for a tool that is not there any more.
MintApproval(c) ==
    /\ IsReady(c) /\ Usable(c) /\ request[c].tool = UseIt /\ request[c].of = 0
    /\ Needs(c) /\ answer[c] = "approve"
    /\ approvals' = IF request[c].mcp \in offered THEN approvals \union {c} ELSE approvals
    /\ Posts(c, request[c].mcp \in offered) /\ Goes(c, "gateway")
    /\ UNCHANGED <<settingVars, turn, bound, request, answer, ran, let, mixed, handles, asked, told,
                   message, toolMix, toolsLeft>>

\* All calls of the step have ended or ask: the turn goes on, or pauses for one card with all that ask.
StepEnds ==
    /\ turn.at = "tools" /\ \A c \in Calls : stage[c] \in {"none", "ask", "done"}
    /\ LET asks == {c \in Calls : stage[c] = "ask"} IN
       turn' = IF asks = {} THEN [turn EXCEPT !.at = "model", !.pinned = {}]
               ELSE [turn EXCEPT !.at = "waiting", !.pinned = asks]
    /\ UNCHANGED <<settingVars, bound, callVars, gateVars, message, toolMix, toolsLeft>>

-----------------------------------------------------------------------------
(* The gateway.                                                            *)

GateAt(c, at)   == gate[c].at = at
GateGoes(c, at) == gate' = [gate EXCEPT ![c].at = at]

\* The gateway's reply, an error or not; `approval_required` to a call without a marker makes the tool ask.
Replies(c, required) ==
    /\ GateGoes(c, "none")
    /\ stage' = IF stage[c] # "gateway" THEN stage
                ELSE [stage EXCEPT ![c] = IF required /\ ~gate[c].marked THEN "ask" ELSE "done"]

\* `grant`: what the settings say of the tool now is what this call goes by.
GrantCall(c) ==
    /\ GateAt(c, "grant")
    /\ LET m == request[c].mcp IN
       gate' = [gate EXCEPT ![c].at = "op", ![c].available = m \in offered /\ Available(m), ![c].allows = Allowed(m)]
    /\ UNCHANGED <<settingVars, turn, bound, callVars, approvals, handles, asked, told, message, toolMix, toolsLeft>>

\* Mutant of Answerable: any message will do.
AnswerableBy(c) == request[c].of \in handles

\* `answerable`: the handle is there, and the user has written since.
Answerable(c) == request[c].of \in handles /\ gate[c].latest # asked[request[c].of]

\* Up to its first await the call looks at the policy of its grant, and takes the handle it answers.
BeginOp(c) ==
    /\ GateAt(c, "op")
    /\ IF gate[c].available /\ (request[c].of # 0 => Answerable(c))
       THEN GateGoes(c, "live") /\ handles' = handles \ {request[c].of} /\ UNCHANGED stage
       ELSE Replies(c, FALSE) /\ UNCHANGED handles
    /\ UNCHANGED <<settingVars, turn, bound, request, answer, ran, let, mixed, approvals, asked, told, message, toolMix, toolsLeft>>

\* Mutant of LetThrough: a marker is asked for only by those who have one.
LetThroughUnmarked(c) == request[c].of # 0 \/ gate[c].allows \/ ~gate[c].marked \/ c \in approvals

\* `permission == "allow"`, or `consume_approval`; whoever answers for input was let through before.
LetThrough(c) == request[c].of # 0 \/ gate[c].allows \/ (gate[c].marked /\ c \in approvals)

\* `_live_tools` has the tool, or the call is over; a marker is spent if it is needed.
CheckLive(c) ==
    /\ GateAt(c, "live")
    /\ IF request[c].mcp \in served /\ LetThrough(c)
       THEN GateGoes(c, "send") /\ UNCHANGED stage
       ELSE Replies(c, request[c].mcp \in served)
    /\ approvals' = IF request[c].mcp \in served /\ request[c].of = 0 /\ ~gate[c].allows THEN approvals \ {c} ELSE approvals
    /\ UNCHANGED <<settingVars, turn, bound, request, answer, ran, let, mixed, handles, asked, told, message, toolMix, toolsLeft>>

\* The server refuses the sign-in, at any request to it: an OAuth one is renewed and the operation starts again, once.
SignInRefused(c) ==
    /\ "faults" \in toolMix /\ gate[c].at \in {"op", "live", "send"}
    /\ \/ ~gate[c].again /\ gate' = [gate EXCEPT ![c].at = "op", ![c].again = TRUE] /\ UNCHANGED stage
       \/ Replies(c, FALSE)
    /\ UNCHANGED <<settingVars, turn, bound, request, answer, ran, let, mixed, approvals, handles, asked, told, message, toolMix, toolsLeft>>

\* `call_tool`: the server does it, and ends it or asks the user for input (`_needs_input`).
CallTool(c) ==
    /\ GateAt(c, "send")
    /\ ran' = ran \union {c} /\ LetBy(c, gate[c].allows /\ request[c].of = 0)
    /\ told' = [told EXCEPT ![c] = IF request[c].of # 0 THEN gate[c].latest ELSE 0]
    /\ \/ UNCHANGED <<handles, asked>>
       \/ handles' = handles \union {c} /\ asked' = [asked EXCEPT ![c] = gate[c].latest]
    /\ Replies(c, FALSE)
    /\ UNCHANGED <<settingVars, turn, bound, request, answer, mixed, approvals, message, toolMix, toolsLeft>>

\* What the platform and the gateway keep in memory expires, or goes when they restart.
Forgets ==
    /\ "faults" \in toolMix /\ SpendsOne
    /\ approvals' \in SUBSET approvals /\ handles' \in SUBSET handles
    /\ UNCHANGED <<settingVars, turn, bound, callVars, gate, asked, told, message, toolMix>>

GateFails(c) ==
    /\ "faults" \in toolMix /\ gate[c].at # "none" /\ Replies(c, FALSE)
    /\ UNCHANGED <<settingVars, turn, bound, request, answer, ran, let, mixed, approvals, handles, asked, told, message, toolMix, toolsLeft>>

ToolStep(c) ==
    \/ RunTool(c) \/ RefuseTool(c) \/ AskUser(c) \/ TakeRejection(c) \/ CallGateway(c) \/ MintApproval(c)
    \/ GrantCall(c) \/ BeginOp(c) \/ CheckLive(c) \/ SignInRefused(c) \/ CallTool(c) \/ GateFails(c)

TurnStep ==
    \/ StartTurn \/ ModelCalls \/ ModelEnds \/ CheckCalls \/ CheckResumed \/ ResumeFails \/ AnswerCard \/ TurnFails \/ StepEnds

ToolNext ==
    \/ TurnStep \/ (\E c \in Calls : ToolStep(c))
    \/ (\E k \in Keys : ChangeMine(k) \/ ChangeAdmin(k))
    \/ ServerChanges \/ StoreDiscovery \/ Forgets

ToolSpec == ToolInit /\ [][ToolNext]_toolVars

-----------------------------------------------------------------------------
(* Properties.                                                             *)

\* "A call asks unless the policy allows its tool", and an integration's tool unless both allow: whatever took
\* effect was approved on a card that showed it, or let run by the settings as they were read for it, or is an
\* answer for a call that was; all but those a resume mixed up.
RunsAsDecided ==
    \A c \in ran \ mixed :
        \/ answer[c] = "approve"
        \/ answer[c] = "none" /\ (c \in let \/ (request[c].of \in ran /\ request[c].of < c))

\* "The agent can't answer for the user": what a server asks for is answered once, and after the user wrote again.
InputIsTheUsers ==
    \A c \in Calls : told[c] # 0 =>
        /\ asked[request[c].of] # 0 /\ asked[request[c].of] < told[c]
        /\ \A d \in Calls : told[d] # 0 /\ request[d].of = request[c].of => d = c

\* "A mismatch fails the resume rather than running a rejected call."
RejectedNeverRuns == \A c \in ran : answer[c] # "reject"

ToolCallsAreAsked == ToolTypeOK /\ RunsAsDecided /\ InputIsTheUsers
==============================================================================
