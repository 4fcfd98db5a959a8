----------------------------- MODULE Integrations -----------------------------
(***************************************************************************)
(* The credentials of one integration: entering a token, signing in with   *)
(* OAuth and signing out, changing and uninstalling the integration, and   *)
(* the agent's calls, which refresh a sign-in that expires or is refused.  *)
(* `Gateway` and `OAuth` of services/integrations-gateway/app/service.py   *)
(* and oauth.py with core/integrations.py and core/integration_oauth.py of *)
(* services/platform/app.                                                  *)
(*                                                                         *)
(* The gateway is one process: what runs between two awaits is one step,   *)
(* and so is a request's use of one Postgres connection.  A secret is      *)
(* known by the sign-in (or token) it comes from and how often it was      *)
(* refreshed since: its generation, which the provider counts too, as its  *)
(* refresh tokens rotate.                                                  *)
(***************************************************************************)
EXTENDS Naturals, FiniteSets, Sequences

CONSTANTS
    Person, Shared,    \* owners of a credential: a user, or NULL for the shared one
    AgentCalls,        \* operations of agents under way at once
    Visits,            \* requests of people to the platform under way at once
    NoCall,
    MaxSecrets, MaxRefreshes, MaxAgentCalls, MaxVisits, MaxGatewayRestarts  \* bounds

ASSUME IntegrationsAssumption ==
    /\ NoCall \notin AgentCalls /\ Person # Shared
    /\ MaxSecrets \in Nat \ {0} /\ MaxRefreshes \in Nat /\ MaxAgentCalls \in Nat
    /\ MaxVisits \in Nat /\ MaxGatewayRestarts \in Nat

VARIABLES
    registry,    \* the integrations row: is it here, its credential model and method
    stored,      \* integration_credentials: each owner's secret and its status
    issued,      \* what the server or its provider knows of each secret ever made
    newest,      \* OAuth._fresh: the newest credential refreshed, per owner
    refreshing,  \* OAuth._locks: which call holds each owner's lock
    flows,       \* OAuth._flows: sign-ins begun
    agentCall, visit,
    unkept,      \* history variable: secrets whose newest generation only the provider has
    reused,      \* history variable: refresh tokens sent after they had been exchanged
    gatewayLeft  \* what is left of the bounds

gateMemory == <<newest, refreshing, flows>>
gateHistory == <<unkept, reused>>
gatewayVars == <<registry, stored, issued, gateMemory, agentCall, visit, gateHistory, gatewayLeft>>

Owners   == {Person, Shared}
Kinds    == {"none", "token", "oauth"}
Models   == {"none", "shared", "per_user"}
Secret   == [kind : Kinds, id : Nat, gen : Nat]
NoSecret == [kind |-> "none", id |-> 0, gen |-> 0]
Credential      == [secret : Secret, status : {"not_connected", "connected", "needs_reconnecting"}]
NoCredential    == [secret |-> NoSecret, status |-> "not_connected"]
Known    == [live : BOOLEAN, gen : Nat, dead : SUBSET Nat, due : SUBSET Nat]
AgentAt  == {"idle", "headers", "provider", "keep", "send", "mark"}
Agent    == [at : AgentAt, owner : Owners, method : Kinds,
             granted : Secret, secret : Secret, stale : BOOLEAN, again : BOOLEAN]
NoAgent  == [at |-> "idle", owner |-> Shared, method |-> "none", granted |-> NoSecret,
             secret |-> NoSecret, stale |-> FALSE, again |-> FALSE]
Visit    == [at : {"idle", "check", "exchange", "store", "revoke", "delete"},
             owner : Owners, secret : Secret]
NoVisit  == [at |-> "idle", owner |-> Shared, secret |-> NoSecret]

\* Every variable keeps to its set, and an owner's lock is held by the call that is asking
\* the provider for them.
GatewayTypeOK ==
    /\ registry \in [here : BOOLEAN, model : Models, method : Kinds]
    /\ stored \in [Owners -> Credential]
    /\ issued \in Seq(Known)
    /\ newest \in [Owners -> Secret]
    /\ refreshing \in [Owners -> AgentCalls \union {NoCall}]
    /\ flows \in SUBSET Owners
    /\ agentCall \in [AgentCalls -> Agent] /\ visit \in [Visits -> Visit]
    /\ \A o \in Owners, c \in AgentCalls :
         refreshing[o] = c <=> agentCall[c].at = "provider" /\ agentCall[c].owner = o
    /\ unkept \in SUBSET Nat /\ reused \in SUBSET Nat
    /\ gatewayLeft \in [calls : Nat, visits : Nat, restarts : Nat]

NewSecret  == [live |-> TRUE, gen |-> 0, dead |-> {}, due |-> {}]
OwnerUnder(model) == IF model = "per_user" THEN Person ELSE Shared

\* An OAuth integration with a sign-in, or one with a token, by a person or for all.
IntegrationsInit ==
    /\ \E model \in {"shared", "per_user"}, method \in {"token", "oauth"} :
         /\ registry = [here |-> TRUE, model |-> model, method |-> method]
         /\ stored = [o \in Owners |->
                IF o = OwnerUnder(model)
                THEN [secret |-> [kind |-> method, id |-> 1, gen |-> 0], status |-> "connected"]
                ELSE NoCredential]
    /\ issued = <<NewSecret>>
    /\ newest = [o \in Owners |-> NoSecret] /\ refreshing = [o \in Owners |-> NoCall] /\ flows = {}
    /\ agentCall = [c \in AgentCalls |-> NoAgent] /\ visit = [v \in Visits |-> NoVisit]
    /\ unkept = {} /\ reused = {}
    /\ gatewayLeft = [calls |-> MaxAgentCalls, visits |-> MaxVisits, restarts |-> MaxGatewayRestarts]

-----------------------------------------------------------------------------
(* What the server and its provider accept.                                *)

\* Does the server take this access token, or token?
Accepted(s) == issued[s.id].live /\ s.gen \notin issued[s.id].dead

\* `expiring`.
Expiring(s) == s.gen \in issued[s.id].due

\* The last access token of a sign-in, or a token, expires or is refused from now on.
Spoil(id, due) ==
    /\ issued[id].gen \notin issued[id].dead
    /\ issued[id].gen < MaxRefreshes
    /\ issued' = [issued EXCEPT ![id].dead = @ \union {issued[id].gen},
                                ![id].due = IF due THEN @ \union {issued[id].gen} ELSE @]
    /\ UNCHANGED <<registry, stored, gateMemory, agentCall, visit, gateHistory, gatewayLeft>>

-----------------------------------------------------------------------------
(* The agent's calls: `Gateway._run`.                                      *)

CallAt(c, step)  == agentCall[c].at = step
CallGoes(c, step) == agentCall' = [agentCall EXCEPT ![c].at = step]
\* Whatever it came to, it is audited.
Ends(c) == agentCall' = [agentCall EXCEPT ![c] = NoAgent]

\* `_granted`: what the platform grants, once (`integrations.grant`); one that is refused is
\* left out but for its bound.
Grant(c) ==
    /\ CallAt(c, "idle") /\ registry.here /\ gatewayLeft.calls > 0
    /\ gatewayLeft' = [gatewayLeft EXCEPT !.calls = @ - 1]
    /\ LET o == OwnerUnder(registry.model)
       IN IF registry.model # "none" /\ stored[o].status # "connected"
          THEN UNCHANGED agentCall
          ELSE agentCall' = [agentCall EXCEPT ![c] =
                   [NoAgent EXCEPT !.owner = o, !.method = registry.method,
                                   !.at = IF stored[o].secret.kind = "oauth" THEN "headers" ELSE "send",
                                   !.granted = stored[o].secret, !.secret = stored[o].secret]]
    /\ UNCHANGED <<registry, stored, issued, gateMemory, visit, gateHistory>>

\* Mutant of Freshest: what another call refreshed is not looked at.
FreshestIgnored(o, s) == s

\* `freshest`.
Freshest(o, s) == IF newest[o].kind = "oauth" /\ newest[o].gen > s.gen THEN newest[o] ELSE s

\* What `refreshed` looks at under the lock: was it refreshed, or is there no need to?
FreshEnough(c, s) ==
    IF agentCall[c].stale THEN s # agentCall[c].secret ELSE ~Expiring(s)

\* A newer credential than the granted one is sent to the platform before it is used.
Use(c, s) ==
    agentCall' = [agentCall EXCEPT ![c].secret = s, ![c].stale = FALSE,
                                   ![c].at = IF s.gen > agentCall[c].granted.gen THEN "keep" ELSE "send"]

\* Mutant of CredentialFree: the refresh goes on without the lock.
CredentialTaken(o) == TRUE

CredentialFree(o) == refreshing[o] = NoCall

\* `refreshed` with its lock: the credential to use, or the provider is asked for it.
Headers(c) ==
    /\ CallAt(c, "headers") /\ CredentialFree(agentCall[c].owner)
    /\ LET o == agentCall[c].owner
           s == Freshest(o, agentCall[c].granted)
       IN IF FreshEnough(c, s)
          THEN Use(c, s) /\ UNCHANGED refreshing
          ELSE /\ agentCall' = [agentCall EXCEPT ![c].secret = s, ![c].at = "provider"]
               /\ refreshing' = [refreshing EXCEPT ![o] = c]
    /\ UNCHANGED <<registry, stored, issued, newest, flows, visit, gateHistory, gatewayLeft>>

Unlock(c) == refreshing' = [refreshing EXCEPT ![agentCall[c].owner] = NoCall]

\* Mutant of Remembered: `_fresh` is not set.
RememberedNot(o, s) == newest

Remembered(o, s) == [newest EXCEPT ![o] = s]

\* Does the provider take this refresh token?
Refreshes(s) == issued[s.id].live /\ s.gen = issued[s.id].gen

Rotated(s) == [issued EXCEPT ![s.id].gen = @ + 1]

\* The provider's answer: the next generation, and the refresh token of this one is spent.
Refresh(c) ==
    /\ CallAt(c, "provider") /\ Refreshes(agentCall[c].secret)
    /\ LET s == [agentCall[c].secret EXCEPT !.gen = @ + 1]
       IN /\ issued' = Rotated(agentCall[c].secret)
          /\ newest' = Remembered(agentCall[c].owner, s) /\ Use(c, s)
          /\ unkept' = unkept \union ({newest[agentCall[c].owner].id} \ {0, s.id})
    /\ Unlock(c)
    /\ UNCHANGED <<registry, stored, flows, visit, reused, gatewayLeft>>

\* It refuses, because the sign-in has ended or this refresh token was exchanged before:
\* `RefreshRefused` becomes auth_expired.
RefreshRefused(c) ==
    /\ CallAt(c, "provider") /\ ~Refreshes(agentCall[c].secret)
    /\ CallGoes(c, "mark") /\ Unlock(c)
    /\ LET s == agentCall[c].secret
       IN reused' = IF s.gen < issued[s.id].gen THEN reused \union {s.id} ELSE reused
    /\ UNCHANGED <<registry, stored, issued, newest, flows, visit, unkept, gatewayLeft>>

\* It cannot be asked, the answer is lost on its way, or the agent has gone: then only the
\* provider may know the next generation.
RefreshLost(c) ==
    /\ CallAt(c, "provider") /\ Ends(c) /\ Unlock(c)
    /\ \/ UNCHANGED <<issued, unkept>>
       \/ /\ Refreshes(agentCall[c].secret) /\ issued' = Rotated(agentCall[c].secret)
          /\ unkept' = unkept \union {agentCall[c].secret.id}
    /\ UNCHANGED <<registry, stored, newest, flows, visit, reused, gatewayLeft>>

\* Mutant of Keeps: the statement is an upsert.
KeepsAny(o) == registry.here

\* The WHERE of `store_refreshed`: "never add one".
Keeps(o) == registry.here /\ stored[o] # NoCredential

\* `store_credential`, best effort: the platform may be unavailable.
Keep(c) ==
    /\ CallAt(c, "keep") /\ CallGoes(c, "send")
    /\ \/ /\ Keeps(agentCall[c].owner)
          /\ stored' = [stored EXCEPT ![agentCall[c].owner] =
                           [secret |-> agentCall[c].secret, status |-> "connected"]]
       \/ UNCHANGED stored
    /\ UNCHANGED <<registry, issued, gateMemory, visit, gateHistory, gatewayLeft>>

\* `_session_op`: the server runs it, or does not take the credential (401); a sign-in's is
\* renewed and tried once more.
Send(c) ==
    /\ CallAt(c, "send")
    /\ LET r     == agentCall[c]
           runs  == r.secret.kind # "none" => Accepted(r.secret)
           again == r.method = "oauth" /\ ~r.again
       IN \/ runs /\ Ends(c)
          \/ /\ ~runs /\ again
             /\ agentCall' = [agentCall EXCEPT
                    ![c].at = IF r.secret.kind = "oauth" THEN "headers" ELSE "send",
                    ![c].stale = r.secret.kind = "oauth", ![c].again = TRUE]
          \/ ~runs /\ ~again /\ CallGoes(c, "mark")
    /\ UNCHANGED <<registry, stored, issued, gateMemory, visit, gateHistory, gatewayLeft>>

\* `mark_needs_reconnecting`, best effort: the owner's credential, whichever it is by now.
MarkRefused(c) ==
    /\ CallAt(c, "mark") /\ Ends(c)
    /\ \/ /\ Keeps(agentCall[c].owner)
          /\ stored' = [stored EXCEPT ![agentCall[c].owner].status = "needs_reconnecting"]
       \/ UNCHANGED stored
    /\ UNCHANGED <<registry, issued, gateMemory, visit, gateHistory, gatewayLeft>>

\* The agent goes away: what is being awaited is cancelled, the call audited.
CancelCall(c) ==
    /\ agentCall[c].at \in {"headers", "keep", "send", "mark"} /\ Ends(c)
    /\ UNCHANGED <<registry, stored, issued, gateMemory, visit, gateHistory, gatewayLeft>>

-----------------------------------------------------------------------------
(* People: entering a token, signing in and out.                           *)

VisitAt(v, step) == visit[v].at = step

Visiting(v, r) ==
    /\ VisitAt(v, "idle") /\ registry.here /\ gatewayLeft.visits > 0
    /\ visit' = [visit EXCEPT ![v] = r]
    /\ gatewayLeft' = [gatewayLeft EXCEPT !.visits = @ - 1]

Leaves(v) == visit' = [visit EXCEPT ![v] = NoVisit]

\* A token is entered; the gateway seals it.
Connect(v) ==
    /\ registry.method = "token" /\ registry.model # "none" /\ Len(issued) < MaxSecrets
    /\ issued' = Append(issued, NewSecret)
    /\ Visiting(v, [NoVisit EXCEPT !.at = "check", !.owner = OwnerUnder(registry.model),
                        !.secret = [kind |-> "token", id |-> Len(issued) + 1, gen |-> 0]])
    /\ UNCHANGED <<registry, stored, gateMemory, agentCall, gateHistory>>

\* `check_credential`: the server is asked whether it takes it.
CheckCredential(v) ==
    /\ VisitAt(v, "check")
    /\ \/ visit' = [visit EXCEPT ![v].at = "store"]
       \/ ~Accepted(visit[v].secret) /\ Leaves(v)
    /\ UNCHANGED <<registry, stored, issued, gateMemory, agentCall, gateHistory, gatewayLeft>>

\* `oauth_start`: the flow waits for the provider to send the browser back.
StartSignIn ==
    /\ registry.here /\ registry.method = "oauth" /\ registry.model # "none"
    /\ flows' = flows \union {OwnerUnder(registry.model)}
    /\ UNCHANGED <<registry, stored, issued, newest, refreshing, agentCall, visit, gateHistory, gatewayLeft>>

\* `oauth_finish`: the flow is taken, the code about to be exchanged.
FinishSignIn(v, o) ==
    /\ o \in flows /\ flows' = flows \ {o}
    /\ Visiting(v, [NoVisit EXCEPT !.at = "exchange", !.owner = o])
    /\ UNCHANGED <<registry, stored, issued, newest, refreshing, agentCall, gateHistory>>

Forgotten(o) ==
    /\ newest' = [newest EXCEPT ![o] = NoSecret]
    /\ unkept' = unkept \union ({newest[o].id} \ {0})

\* The provider makes a new sign-in; what was refreshed before is forgotten.
Exchange(v) ==
    /\ VisitAt(v, "exchange")
    /\ \/ /\ Len(issued) < MaxSecrets /\ issued' = Append(issued, NewSecret)
          /\ visit' = [visit EXCEPT ![v].at = "store",
                          ![v].secret = [kind |-> "oauth", id |-> Len(issued) + 1, gen |-> 0]]
          /\ Forgotten(visit[v].owner)
       \/ Leaves(v) /\ UNCHANGED <<issued, newest, unkept>>
    /\ UNCHANGED <<registry, stored, refreshing, flows, agentCall, reused, gatewayLeft>>

\* `store_credential` of the platform: the model must be the one it was entered under, and
\* for a sign-in the method.
StoreCredential(v) ==
    /\ VisitAt(v, "store") /\ Leaves(v)
    /\ LET r == visit[v]
       IN IF /\ registry.here /\ registry.model # "none" /\ OwnerUnder(registry.model) = r.owner
             /\ r.secret.kind = "oauth" => registry.method = "oauth"
          THEN stored' = [stored EXCEPT ![r.owner] = [secret |-> r.secret, status |-> "connected"]]
          ELSE UNCHANGED stored
    /\ UNCHANGED <<registry, issued, gateMemory, agentCall, gateHistory, gatewayLeft>>

\* `disconnect`: a sign-in is revoked first.
Disconnect(v, o) ==
    /\ stored[o] # NoCredential
    /\ Visiting(v, [NoVisit EXCEPT !.at = IF registry.method = "oauth" THEN "revoke" ELSE "delete",
                                   !.owner = o, !.secret = stored[o].secret])
    /\ UNCHANGED <<registry, stored, issued, gateMemory, agentCall, gateHistory>>

\* `oauth_revoke`: the newest, which is forgotten; the provider may not take it.
Revoke(v) ==
    /\ VisitAt(v, "revoke") /\ visit' = [visit EXCEPT ![v].at = "delete"]
    /\ IF visit[v].secret.kind = "oauth"
       THEN LET s == Freshest(visit[v].owner, visit[v].secret)
            IN /\ Forgotten(visit[v].owner)
               /\ issued' \in {issued, [issued EXCEPT ![s.id].live = FALSE]}
       ELSE UNCHANGED <<newest, unkept, issued>>
    /\ UNCHANGED <<registry, stored, refreshing, flows, agentCall, reused, gatewayLeft>>

DeleteCredential(v) ==
    /\ VisitAt(v, "delete") /\ Leaves(v)
    /\ stored' = [stored EXCEPT ![visit[v].owner] = NoCredential]
    /\ UNCHANGED <<registry, issued, gateMemory, agentCall, gateHistory, gatewayLeft>>

-----------------------------------------------------------------------------
(* Admins, and the gateway's process.                                      *)

\* `edit`: another address, model or method takes every stored credential with it.
EditIntegration ==
    /\ registry.here /\ gatewayLeft.visits > 0
    /\ \E model \in Models, method \in Kinds :
         /\ model = "none" <=> method = "none"
         /\ registry' = [registry EXCEPT !.model = model, !.method = method]
    /\ stored' = [o \in Owners |-> NoCredential]
    /\ gatewayLeft' = [gatewayLeft EXCEPT !.visits = @ - 1]
    /\ UNCHANGED <<issued, gateMemory, agentCall, visit, gateHistory>>

UninstallIntegration ==
    /\ registry.here /\ registry' = [registry EXCEPT !.here = FALSE]
    /\ stored' = [o \in Owners |-> NoCredential]
    /\ UNCHANGED <<issued, gateMemory, agentCall, visit, gateHistory, gatewayLeft>>

\* The gateway restarts: calls, flows and newest credentials are gone.
GatewayRestart ==
    /\ gatewayLeft.restarts > 0 /\ gatewayLeft' = [gatewayLeft EXCEPT !.restarts = @ - 1]
    /\ newest' = [o \in Owners |-> NoSecret] /\ refreshing' = [o \in Owners |-> NoCall] /\ flows' = {}
    /\ agentCall' = [c \in AgentCalls |-> NoAgent]
    /\ visit' = [v \in Visits |-> IF visit[v].at = "exchange" THEN NoVisit ELSE visit[v]]
    /\ unkept' = unkept \union {id \in DOMAIN issued :
                   \A o \in Owners : ~(stored[o].secret.id = id /\ stored[o].secret.gen = issued[id].gen)}
    /\ UNCHANGED <<registry, stored, issued, reused>>

-----------------------------------------------------------------------------
(* The specification.                                                      *)

AgentStep(c) ==
    \/ Grant(c) \/ Headers(c) \/ Refresh(c) \/ RefreshRefused(c) \/ RefreshLost(c)
    \/ Keep(c) \/ Send(c) \/ MarkRefused(c) \/ CancelCall(c)

VisitStep(v) ==
    \/ Connect(v) \/ CheckCredential(v) \/ Exchange(v) \/ StoreCredential(v)
    \/ Revoke(v) \/ DeleteCredential(v)
    \/ \E o \in Owners : FinishSignIn(v, o) \/ Disconnect(v, o)

IntegrationsNext ==
    \/ \E c \in AgentCalls : AgentStep(c)
    \/ \E v \in Visits : VisitStep(v)
    \/ \E id \in DOMAIN issued, due \in BOOLEAN : Spoil(id, due)
    \/ StartSignIn \/ EditIntegration \/ UninstallIntegration \/ GatewayRestart

IntegrationsSpec == IntegrationsInit /\ [][IntegrationsNext]_gatewayVars

-----------------------------------------------------------------------------
(* Properties.                                                             *)

\* However many calls find a sign-in expired or refused at once, its refresh token is sent
\* to the provider once: a second time would end the sign-in.  Not so if the newest token
\* was lost on its way or in a restart, or forgotten for a new sign-in or a sign-out.
RefreshedOnce == reused \subseteq unkept

\* The newest token of a stored sign-in is in the gateway's memory until it is stored,
\* whichever calls store theirs late and whether the platform answers.
NewestKept ==
    \A o \in Owners : stored[o].secret.kind = "oauth" /\ stored[o].secret.id \notin unkept =>
        LET id == stored[o].secret.id
        IN issued[id].gen \in {stored[o].secret.gen} \union {s.gen : s \in {x \in {newest[o]} : x.id = id}}

\* A sign-in is never ended by its own refreshing: no refresh token is sent twice, and none is
\* forgotten before the platform has the one that replaced it.
SignInLasts == RefreshedOnce /\ NewestKept

\* With the types, and one lock for each owner: nobody refreshes beside its holder.
SignInsAreKept == GatewayTypeOK /\ SignInLasts

\* After a disconnect, a change of address or an uninstall there is a credential again only
\* when a person enters one, however late a refresh ends.
NeverAdded ==
    [][\A o \in Owners : stored[o] = NoCredential /\ stored'[o] # NoCredential =>
          \E v \in Visits : VisitAt(v, "store") /\ visit[v].owner = o
                              /\ stored'[o].secret = visit[v].secret]_gatewayVars

===============================================================================
