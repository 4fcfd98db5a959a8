------------------------------- MODULE MCAgent -------------------------------
(* What agents and people do at once, for TLC: each behaviour is one of      *)
(* "turns", what the turn runner does with its clients, "chat", what the     *)
(* sockets and the pages behind them make of turns, "calls", what agents'    *)
(* calls and people make of an integration's credential, or "files", the     *)
(* files of a space with their search index; the others stay as they started.*)
EXTENDS TurnRunner, ChatSockets, Integrations, SearchIndex, TLC

CONSTANTS Views, MaxEvents  \* bound: calls, requests and restarts of "calls", together

VARIABLE view

GatewayAtRest == registry.model = "shared" /\ registry.method = "token"

FilesAtRest == tree = [p \in Paths |-> 0] /\ fileMix = CHOOSE x \in FileMixes : TRUE

Declared ==
    IF view = "files" /\ "rows" \in fileMix THEN {NoDecl, CHOOSE d \in Declarations : TRUE} ELSE {NoDecl}

AgentInit ==
    /\ view \in Views
    /\ view # "files" => FilesAtRest
    /\ Init /\ ChatInit /\ IntegrationsInit /\ SearchInit
    /\ install.decl \in Declared
    /\ IF view = "calls" THEN registry.model = "per_user" ELSE GatewayAtRest

Events ==
    MaxAgentCalls + MaxVisits + MaxGatewayRestarts
        - (gatewayLeft.calls + gatewayLeft.visits + gatewayLeft.restarts)

AgentNext ==
    /\ UNCHANGED view
    /\ \/ view = "turns" /\ Next /\ UNCHANGED <<chatVars, gatewayVars, fileVars, searchVars>>
       \/ view = "chat" /\ ChatNext /\ UNCHANGED <<vars, gatewayVars, fileVars, searchVars>>
       \/ view = "calls" /\ IntegrationsNext /\ Events' <= MaxEvents
          /\ UNCHANGED <<vars, chatVars, fileVars, searchVars>>
       \/ view = "files" /\ SearchNext /\ UNCHANGED <<vars, chatVars, gatewayVars>>

AgentSpec == AgentInit /\ [][AgentNext]_<<view, vars, chatVars, gatewayVars, fileVars, searchVars>>

\* Tabs, AgentCalls and FileClients may be the same model values as Clients: no view has two of
\* them.
Alike == Permutations(Clients) \union Permutations(Texts)
==============================================================================
