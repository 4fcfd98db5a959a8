-------------------------- MODULE Integrations_proofs --------------------------
(***************************************************************************)
(* Theorems about the credentials of an integration: their types, that a   *)
(* credential comes only from a person, and that refreshing a sign-in      *)
(* never ends it.                                                          *)
(*                                                                         *)
(* A sign-in's refresh tokens are passed from the platform's row to calls, *)
(* from calls to the provider and the gateway's memory and back to the     *)
(* row.  The argument follows them: each sign-in has one owner (OwnedInv), *)
(* and whoever holds a generation of it that is not the provider's last    *)
(* has the last in the owner's entry of `_fresh` (FreshInv).               *)
(***************************************************************************)
EXTENDS Integrations, FiniteSetTheorems, SequenceTheorems, TLAPS

-----------------------------------------------------------------------------
(* Types.                                                                  *)

\* Which call holds an owner's lock.
Locking ==
    \A o \in Owners, c \in AgentCalls :
        refreshing[o] = c <=> (agentCall[c].at = "provider" /\ agentCall[c].owner = o)

\* The variables' sets, one by one.
GatewayTypes ==
    /\ registry \in [here : BOOLEAN, model : Models, method : Kinds]
    /\ stored \in [Owners -> Credential]
    /\ issued \in Seq(Known)
    /\ newest \in [Owners -> Secret]
    /\ refreshing \in [Owners -> AgentCalls \union {NoCall}]
    /\ flows \in SUBSET Owners
    /\ agentCall \in [AgentCalls -> Agent]
    /\ visit \in [Visits -> Visit]
    /\ unkept \in SUBSET Nat
    /\ reused \in SUBSET Nat
    /\ gatewayLeft \in [calls : Nat, visits : Nat, restarts : Nat]

\* A call has a token or a sign-in throughout, and asks the provider with a sign-in only; what
\* is remembered of an owner is a sign-in.
CallShape(r) ==
    /\ r.granted.kind = r.secret.kind
    /\ r.at \in {"headers", "provider"} => r.secret.kind = "oauth"

Shapes ==
    /\ \A c \in AgentCalls : CallShape(agentCall[c])
    /\ \A o \in Owners : newest[o].id # 0 => newest[o].kind = "oauth"

GatewayInv == GatewayTypes /\ Locking /\ Shapes

LEMMA GatewayTyped == GatewayInv => GatewayTypeOK
BY DEF GatewayInv, GatewayTypes, Locking, GatewayTypeOK

LEMMA Blanks ==
    /\ NoSecret \in Secret /\ NoCredential \in Credential /\ NoAgent \in Agent
    /\ NoVisit \in Visit /\ NewSecret \in Known
    /\ Shared \in Owners /\ Person \in Owners
BY DEF NoSecret, Secret, Kinds, NoCredential, Credential, NoAgent, Agent, AgentAt, Owners,
       NoVisit, Visit, NewSecret, Known

LEMMA UnderIsOwner == \A model : OwnerUnder(model) \in Owners
BY DEF OwnerUnder, Owners

\* The newest of a credential is one.
LEMMA FreshestType ==
    ASSUME newest \in [Owners -> Secret], NEW o \in Owners, NEW s \in Secret
    PROVE  Freshest(o, s) \in {s, newest[o]} /\ Freshest(o, s) \in Secret
BY DEF Freshest

\* A sequence rewritten in its own length.
LEMMA SameLength ==
    ASSUME NEW S, NEW q \in Seq(S), NEW f \in [DOMAIN q -> S]
    PROVE  f \in Seq(S) /\ DOMAIN f = DOMAIN q /\ Len(f) = Len(q)
<1>1. Len(q) \in Nat /\ DOMAIN q = 1 .. Len(q)
  BY LenProperties
<1>2. f \in Seq(S)
  BY <1>1, IsASeq
<1>3. Len(f) = Len(q)
  BY <1>1, <1>2, LenProperties
<1> QED  BY <1>2, <1>3

LEMMA IssuedType ==
    ASSUME issued \in Seq(Known)
    PROVE  /\ issued \in [DOMAIN issued -> Known]
           /\ DOMAIN issued = 1 .. Len(issued) /\ Len(issued) \in Nat
<1>1. DOMAIN issued = 1 .. Len(issued) /\ Len(issued) \in Nat
  BY LenProperties
<1> QED  BY <1>1, ElementOfSeq, IsASeq

\* What is known of one sign-in changes.
LEMMA OneKnown ==
    ASSUME issued \in Seq(Known), NEW k, NEW x, k \in DOMAIN issued => x \in Known
    PROVE  /\ [issued EXCEPT ![k] = x] \in Seq(Known)
           /\ DOMAIN [issued EXCEPT ![k] = x] = DOMAIN issued
           /\ \A id \in DOMAIN issued :
                [issued EXCEPT ![k] = x][id] = IF id = k THEN x ELSE issued[id]
<1>1. issued \in [DOMAIN issued -> Known]
  BY IssuedType
<1>2. [issued EXCEPT ![k] = x] \in [DOMAIN issued -> Known]
  BY <1>1
<1>3. [issued EXCEPT ![k] = x] \in Seq(Known)
  BY <1>2, SameLength
<1> QED  BY <1>1, <1>3

LEMMA OneMore ==
    ASSUME NEW k \in Known
    PROVE  [k EXCEPT !.gen = @ + 1] \in Known /\ [k EXCEPT !.gen = @ + 1].gen = k.gen + 1
BY DEF Known

\* A generation more is counted without touching the other sign-ins.
LEMMA RotatedOnly ==
    ASSUME issued \in Seq(Known), NEW s \in Secret
    PROVE  /\ Rotated(s) \in Seq(Known)
           /\ DOMAIN Rotated(s) = DOMAIN issued
           /\ \A id \in DOMAIN issued :
                Rotated(s)[id].gen = IF id = s.id THEN issued[id].gen + 1 ELSE issued[id].gen
<1> DEFINE x == [issued[s.id] EXCEPT !.gen = @ + 1]
<1>1. ASSUME s.id \in DOMAIN issued
      PROVE  x \in Known /\ x.gen = issued[s.id].gen + 1
  <2>1. issued[s.id] \in Known
    BY <1>1, IssuedType
  <2> QED  BY <2>1, OneMore
<1>2. Rotated(s) = [issued EXCEPT ![s.id] = x]
  BY DEF Rotated
<1> HIDE DEF x
<1>3. /\ [issued EXCEPT ![s.id] = x] \in Seq(Known)
      /\ DOMAIN [issued EXCEPT ![s.id] = x] = DOMAIN issued
      /\ \A id \in DOMAIN issued :
           [issued EXCEPT ![s.id] = x][id] = IF id = s.id THEN x ELSE issued[id]
  BY <1>1, OneKnown
<1>4. \A id \in DOMAIN issued :
          Rotated(s)[id].gen = IF id = s.id THEN issued[id].gen + 1 ELSE issued[id].gen
  BY <1>1, <1>2, <1>3
<1> QED  BY <1>2, <1>3, <1>4

\* A secret more is known.
LEMMA IssuedOne ==
    ASSUME issued \in Seq(Known), issued' = Append(issued, NewSecret)
    PROVE  /\ issued' \in Seq(Known)
           /\ DOMAIN issued' = DOMAIN issued \union {Len(issued) + 1}
           /\ Len(issued) \in Nat /\ Len(issued) + 1 \notin DOMAIN issued
           /\ \A id \in DOMAIN issued : issued'[id] = issued[id]
           /\ issued'[Len(issued) + 1].gen = 0
<1>1. DOMAIN issued = 1 .. Len(issued) /\ Len(issued) \in Nat
  BY IssuedType
<1>2. /\ issued' \in Seq(Known) /\ Len(issued') = Len(issued) + 1
      /\ \A i \in 1 .. Len(issued) : issued'[i] = issued[i]
      /\ issued'[Len(issued) + 1] = NewSecret
  BY AppendProperties, Blanks
<1>3. DOMAIN issued' = 1 .. Len(issued) + 1
  BY <1>2, LenProperties
<1> QED  BY <1>1, <1>2, <1>3 DEF NewSecret

\* A call's step keeps the calls in order: the lock is taken, given up or left alone with it.
LEMMA CallTo ==
    ASSUME GatewayInv, NEW c \in AgentCalls, NEW r \in Agent, CallShape(r),
           agentCall' = [agentCall EXCEPT ![c] = r],
           \/ /\ UNCHANGED refreshing
              /\ r.at # "provider" /\ agentCall[c].at # "provider"
           \/ /\ r.at = "provider" /\ agentCall[c].at # "provider" /\ CredentialFree(r.owner)
              /\ refreshing' = [refreshing EXCEPT ![r.owner] = c]
           \/ /\ agentCall[c].at = "provider" /\ r.at # "provider" /\ Unlock(c)
    PROVE  /\ agentCall' \in [AgentCalls -> Agent]
           /\ refreshing' \in [Owners -> AgentCalls \union {NoCall}]
           /\ Locking' /\ \A d \in AgentCalls : CallShape(agentCall'[d])
           /\ agentCall'[c] = r /\ \A d \in AgentCalls : d # c => agentCall'[d] = agentCall[d]
<1>1. /\ agentCall \in [AgentCalls -> Agent]
      /\ refreshing \in [Owners -> AgentCalls \union {NoCall}]
      /\ Locking /\ \A d \in AgentCalls : CallShape(agentCall[d])
      /\ NoCall \notin AgentCalls
  BY IntegrationsAssumption DEF GatewayInv, GatewayTypes, Shapes
<1>2. agentCall' \in [AgentCalls -> Agent]
  BY <1>1
<1>3. agentCall'[c] = r /\ \A d \in AgentCalls : d # c => agentCall'[d] = agentCall[d]
  BY <1>1
<1>4. \A d \in AgentCalls : CallShape(agentCall'[d])
  BY <1>1, <1>3
<1>5. r.owner \in Owners /\ agentCall[c].owner \in Owners
  BY <1>1 DEF Agent
<1>6. refreshing' \in [Owners -> AgentCalls \union {NoCall}]
  BY <1>1, <1>5 DEF Unlock
<1>7. CASE UNCHANGED refreshing /\ r.at # "provider" /\ agentCall[c].at # "provider"
  <2>1. Locking'
    BY <1>1, <1>3, <1>7 DEF Locking
  <2> QED  BY <1>2, <1>3, <1>4, <1>6, <2>1
<1>8. CASE /\ r.at = "provider" /\ agentCall[c].at # "provider" /\ CredentialFree(r.owner)
           /\ refreshing' = [refreshing EXCEPT ![r.owner] = c]
  <2>1. Locking'
    BY <1>1, <1>3, <1>5, <1>8 DEF Locking, CredentialFree
  <2> QED  BY <1>2, <1>3, <1>4, <1>6, <2>1
<1>9. CASE agentCall[c].at = "provider" /\ r.at # "provider" /\ Unlock(c)
  <2>1. Locking'
    BY <1>1, <1>3, <1>5, <1>9 DEF Locking, Unlock
  <2> QED  BY <1>2, <1>3, <1>4, <1>6, <2>1
<1> QED  BY <1>7, <1>8, <1>9

\* Nothing but the calls moves.
CallsFrame ==
    UNCHANGED <<registry, stored, issued, newest, flows, visit, unkept, reused, gatewayLeft>>

\* What `refreshed` comes back with is used.
LEMMA UseType ==
    ASSUME GatewayInv, NEW c \in AgentCalls, NEW s \in Secret,
           s.kind = agentCall[c].granted.kind, Use(c, s)
    PROVE  \E r \in Agent :
              /\ agentCall' = [agentCall EXCEPT ![c] = r]
              /\ CallShape(r) /\ r.at # "provider"
              /\ r.owner = agentCall[c].owner /\ r.granted = agentCall[c].granted /\ r.secret = s
<1>1. agentCall[c] \in Agent
  BY DEF GatewayInv, GatewayTypes
<1> DEFINE at == IF s.gen > agentCall[c].granted.gen THEN "keep" ELSE "send"
           r == [agentCall[c] EXCEPT !.secret = s, !.stale = FALSE, !.at = at]
<1>2. agentCall' = [agentCall EXCEPT ![c] = r]
  BY DEF Use
<1>3. at \in {"keep", "send"}
  OBVIOUS
<1> HIDE DEF at
<1>4. /\ r \in Agent /\ r.at = at /\ r.secret = s
      /\ r.owner = agentCall[c].owner /\ r.granted = agentCall[c].granted
  BY <1>1, <1>3 DEF Agent, AgentAt
<1> HIDE DEF r
<1>5. CallShape(r) /\ r.at # "provider"
  BY <1>3, <1>4 DEF CallShape
<1> QED  BY <1>2, <1>4, <1>5

LEMMA GrantInv ==
    ASSUME GatewayInv, NEW c \in AgentCalls, Grant(c)
    PROVE  GatewayInv'
<1>1. GatewayTypes /\ Locking /\ Shapes
  BY DEF GatewayInv
<1>2. gatewayLeft' \in [calls : Nat, visits : Nat, restarts : Nat]
  BY <1>1 DEF GatewayTypes, Grant
<1>3. UNCHANGED <<registry, stored, issued, newest, refreshing, flows, visit, unkept, reused>>
  BY DEF Grant, gateMemory, gateHistory
<1>4. CASE UNCHANGED agentCall
  <2>1. GatewayTypes'
    BY <1>1, <1>2, <1>3, <1>4 DEF GatewayTypes
  <2>2. Locking' /\ Shapes'
    BY <1>1, <1>3, <1>4 DEF Locking, Shapes
  <2> QED  BY <2>1, <2>2 DEF GatewayInv
<1> DEFINE o == OwnerUnder(registry.model)
           at == IF stored[o].secret.kind = "oauth" THEN "headers" ELSE "send"
           r == [NoAgent EXCEPT !.owner = o, !.method = registry.method, !.at = at,
                                !.granted = stored[o].secret, !.secret = stored[o].secret]
<1>5. CASE agentCall' = [agentCall EXCEPT ![c] = r]
  <2>1. o \in Owners /\ stored[o].secret \in Secret /\ registry.method \in Kinds
    BY <1>1, UnderIsOwner DEF GatewayTypes, Credential
  <2>2. at \in {"headers", "send"} /\ (at = "headers" => stored[o].secret.kind = "oauth")
    OBVIOUS
  <2> HIDE DEF at, o
  <2>3. /\ r \in Agent /\ r.at = at /\ r.secret = stored[o].secret
        /\ r.granted = stored[o].secret /\ r.owner = o
    BY <2>1, <2>2 DEF NoAgent, Agent, AgentAt
  <2> HIDE DEF r
  <2>4. CallShape(r) /\ r.at # "provider" /\ agentCall[c].at # "provider"
    BY <2>2, <2>3 DEF CallShape, Grant, CallAt
  <2>5. /\ agentCall' \in [AgentCalls -> Agent] /\ Locking'
        /\ \A d \in AgentCalls : CallShape(agentCall'[d])
    BY <1>3, <1>5, <2>3, <2>4, CallTo
  <2>31. GatewayTypes'
    BY <1>1, <1>2, <1>3, <2>5 DEF GatewayTypes
  <2>32. Shapes'
    BY <1>1, <1>2, <1>3, <2>5 DEF Shapes
  <2> QED  BY <1>1, <1>2, <1>3, <2>5, <2>31, <2>32 DEF GatewayInv
<1>6. UNCHANGED agentCall \/ agentCall' = [agentCall EXCEPT ![c] = r]
  BY DEF Grant
<1> QED  BY <1>4, <1>5, <1>6

LEMMA HeadersInv ==
    ASSUME GatewayInv, NEW c \in AgentCalls, Headers(c)
    PROVE  GatewayInv'
<1>1. GatewayTypes /\ Locking /\ Shapes
  BY DEF GatewayInv
<1>2. UNCHANGED <<registry, stored, issued, newest, flows, visit, unkept, reused, gatewayLeft>>
  BY DEF Headers, gateHistory
<1> DEFINE o == agentCall[c].owner
           s == Freshest(o, agentCall[c].granted)
           r == [agentCall[c] EXCEPT !.secret = s, !.at = "provider"]
<1>3. /\ agentCall[c] \in Agent /\ agentCall[c].granted.kind = "oauth" /\ agentCall[c].at = "headers"
      /\ CredentialFree(o)
  BY <1>1 DEF GatewayTypes, Shapes, CallShape, Headers, CallAt
<1>4. o \in Owners /\ agentCall[c].granted \in Secret
  BY <1>3 DEF Agent
<1>5. s \in Secret /\ s.kind = "oauth"
  <2>1. s \in Secret
    BY <1>1, <1>4, FreshestType DEF GatewayTypes
  <2> QED  BY <1>3, <2>1 DEF Freshest
<1>6. \/ Use(c, s) /\ UNCHANGED refreshing
      \/ agentCall' = [agentCall EXCEPT ![c] = r] /\ refreshing' = [refreshing EXCEPT ![o] = c]
  BY DEF Headers
<1> HIDE DEF s
<1>7. CASE Use(c, s) /\ UNCHANGED refreshing
  <2>1. PICK q \in Agent : /\ agentCall' = [agentCall EXCEPT ![c] = q]
                           /\ CallShape(q) /\ q.at # "provider"
    BY <1>3, <1>5, <1>7, UseType
  <2>2. agentCall' \in [AgentCalls -> Agent] /\ Locking' /\ \A d \in AgentCalls : CallShape(agentCall'[d])
    BY <1>3, <1>7, <2>1, CallTo
  <2>31. GatewayTypes'
    BY <1>1, <1>2, <1>7, <2>2 DEF GatewayTypes
  <2>32. Shapes'
    BY <1>1, <1>2, <1>7, <2>2 DEF Shapes
  <2> QED  BY <1>1, <1>2, <1>7, <2>2, <2>31, <2>32 DEF GatewayInv
<1>8. CASE agentCall' = [agentCall EXCEPT ![c] = r] /\ refreshing' = [refreshing EXCEPT ![o] = c]
  <2>1. r \in Agent /\ r.at = "provider" /\ r.owner = o /\ r.secret = s /\ r.granted = agentCall[c].granted
    BY <1>3, <1>5 DEF Agent, AgentAt
  <2> HIDE DEF r
  <2>2. CallShape(r)
    BY <1>3, <1>5, <2>1 DEF CallShape
  <2>3. /\ agentCall' \in [AgentCalls -> Agent] /\ Locking' /\ \A d \in AgentCalls : CallShape(agentCall'[d])
        /\ refreshing' \in [Owners -> AgentCalls \union {NoCall}]
    BY <1>3, <1>8, <2>1, <2>2, CallTo
  <2>31. GatewayTypes'
    BY <1>1, <1>2, <2>3 DEF GatewayTypes
  <2>32. Shapes'
    BY <1>1, <1>2, <2>3 DEF Shapes
  <2> QED  BY <1>1, <1>2, <2>3, <2>31, <2>32 DEF GatewayInv
<1> QED  BY <1>6, <1>7, <1>8

LEMMA RefreshInv ==
    ASSUME GatewayInv, NEW c \in AgentCalls, Refresh(c)
    PROVE  GatewayInv'
<1>1. GatewayTypes /\ Locking /\ Shapes
  BY DEF GatewayInv
<1>2. UNCHANGED <<registry, stored, flows, visit, reused, gatewayLeft>>
  BY DEF Refresh
<1> DEFINE o == agentCall[c].owner
           s == [agentCall[c].secret EXCEPT !.gen = @ + 1]
<1>3. /\ agentCall[c] \in Agent /\ agentCall[c].secret.kind = "oauth" /\ agentCall[c].at = "provider"
      /\ agentCall[c].granted.kind = "oauth" /\ Unlock(c)
  BY <1>1 DEF GatewayTypes, Shapes, CallShape, Refresh, CallAt
<1>4. o \in Owners /\ agentCall[c].secret \in Secret
  BY <1>3 DEF Agent
<1>5. s \in Secret /\ s.kind = "oauth" /\ s.id = agentCall[c].secret.id
  BY <1>3, <1>4 DEF Secret
<1>6. /\ issued' = Rotated(agentCall[c].secret) /\ newest' = Remembered(o, s) /\ Use(c, s)
      /\ unkept' = unkept \union ({newest[o].id} \ {0, s.id})
  BY DEF Refresh
<1> HIDE DEF s
<1>7. issued' \in Seq(Known)
  BY <1>1, <1>4, <1>6, RotatedOnly DEF GatewayTypes
<1>8. newest' \in [Owners -> Secret] /\ \A p \in Owners : newest'[p].id # 0 => newest'[p].kind = "oauth"
  BY <1>1, <1>4, <1>5, <1>6 DEF GatewayTypes, Shapes, Remembered
<1>9. unkept' \in SUBSET Nat
  <2>1. newest[o].id \in Nat
    BY <1>1, <1>4 DEF GatewayTypes, Secret
  <2> QED  BY <1>1, <1>6, <2>1 DEF GatewayTypes
<1>10. PICK q \in Agent : /\ agentCall' = [agentCall EXCEPT ![c] = q]
                          /\ CallShape(q) /\ q.at # "provider"
  BY <1>3, <1>5, <1>6, UseType
<1>11. /\ agentCall' \in [AgentCalls -> Agent] /\ Locking' /\ \A d \in AgentCalls : CallShape(agentCall'[d])
       /\ refreshing' \in [Owners -> AgentCalls \union {NoCall}]
  BY <1>3, <1>10, CallTo
<1>31. GatewayTypes'
  BY <1>1, <1>2, <1>7, <1>8, <1>9, <1>11 DEF GatewayTypes
<1>32. Shapes'
  BY <1>1, <1>2, <1>7, <1>8, <1>9, <1>11 DEF Shapes
<1> QED  BY <1>1, <1>2, <1>7, <1>8, <1>9, <1>11, <1>31, <1>32 DEF GatewayInv

\* A call's steps that only say where it is, or that it has ended.
CallOn(c) ==
    \/ Ends(c)
    \/ \E at \in {"send", "mark"} : CallGoes(c, at)
    \/ /\ agentCall[c].secret.kind = "oauth" /\ agentCall[c].at = "send"
       /\ agentCall' = [agentCall EXCEPT ![c].at = "headers", ![c].stale = TRUE, ![c].again = TRUE]
    \/ agentCall' = [agentCall EXCEPT ![c].at = "send", ![c].stale = FALSE, ![c].again = TRUE]

LEMMA CallOnType ==
    ASSUME GatewayInv, NEW c \in AgentCalls, CallOn(c)
    PROVE  \E r \in Agent :
              /\ agentCall' = [agentCall EXCEPT ![c] = r]
              /\ CallShape(r) /\ r.at # "provider"
              /\ \/ r = NoAgent
                 \/ /\ r.owner = agentCall[c].owner /\ r.granted = agentCall[c].granted
                    /\ r.secret = agentCall[c].secret
<1>1. agentCall[c] \in Agent /\ CallShape(agentCall[c])
  BY DEF GatewayInv, GatewayTypes, Shapes
<1>2. CASE Ends(c)
  <2>1. CallShape(NoAgent) /\ NoAgent.at # "provider"
    BY DEF CallShape, NoAgent
  <2> QED  BY <1>2, <2>1, Blanks DEF Ends
<1>3. ASSUME NEW at \in {"send", "mark"}, CallGoes(c, at)
      PROVE  \E r \in Agent :
              /\ agentCall' = [agentCall EXCEPT ![c] = r]
              /\ CallShape(r) /\ r.at # "provider"
              /\ r.owner = agentCall[c].owner /\ r.granted = agentCall[c].granted
              /\ r.secret = agentCall[c].secret
  <2> DEFINE r == [agentCall[c] EXCEPT !.at = at]
  <2>1. agentCall' = [agentCall EXCEPT ![c] = r]
    BY <1>3 DEF CallGoes
  <2>2. /\ r \in Agent /\ r.at = at /\ r.secret = agentCall[c].secret
        /\ r.owner = agentCall[c].owner /\ r.granted = agentCall[c].granted
    BY <1>1, <1>3 DEF Agent, AgentAt
  <2> HIDE DEF r
  <2>3. CallShape(r) /\ r.at # "provider"
    BY <1>1, <2>2 DEF CallShape
  <2> QED  BY <2>1, <2>2, <2>3
<1>4. ASSUME NEW at \in {"headers", "send"}, NEW stale \in BOOLEAN,
             at = "headers" => agentCall[c].secret.kind = "oauth",
             agentCall' = [agentCall EXCEPT ![c].at = at, ![c].stale = stale, ![c].again = TRUE]
      PROVE  \E r \in Agent :
              /\ agentCall' = [agentCall EXCEPT ![c] = r]
              /\ CallShape(r) /\ r.at # "provider"
              /\ r.owner = agentCall[c].owner /\ r.granted = agentCall[c].granted
              /\ r.secret = agentCall[c].secret
  <2> DEFINE r == [agentCall[c] EXCEPT !.at = at, !.stale = stale, !.again = TRUE]
  <2>1. agentCall' = [agentCall EXCEPT ![c] = r]
    BY <1>4
  <2>2. /\ r \in Agent /\ r.at = at /\ r.secret = agentCall[c].secret
        /\ r.owner = agentCall[c].owner /\ r.granted = agentCall[c].granted
    BY <1>1, <1>4 DEF Agent, AgentAt
  <2> HIDE DEF r
  <2>3. CallShape(r) /\ r.at # "provider"
    BY <1>1, <1>4, <2>2 DEF CallShape
  <2> QED  BY <2>1, <2>2, <2>3
<1> QED  BY <1>2, <1>3, <1>4 DEF CallOn

\* The other steps of a call are of that kind, with the lock given up if it was held.
LEMMA CallOnSteps ==
    ASSUME NEW c \in AgentCalls,
           RefreshRefused(c) \/ RefreshLost(c) \/ Keep(c) \/ Send(c) \/ MarkRefused(c) \/ CancelCall(c)
    PROVE  /\ CallOn(c)
           /\ \/ agentCall[c].at # "provider" /\ UNCHANGED refreshing
              \/ agentCall[c].at = "provider" /\ Unlock(c)
           /\ UNCHANGED <<registry, newest, flows, visit, gatewayLeft>>
<1>1. CASE RefreshRefused(c)
  BY <1>1 DEF RefreshRefused, CallOn, CallAt
<1>2. CASE RefreshLost(c)
  BY <1>2 DEF RefreshLost, CallOn, CallAt
<1>3. CASE Keep(c)
  BY <1>3 DEF Keep, CallOn, CallAt, gateMemory
<1>4. CASE Send(c)
  <2>1. CallOn(c)
    <3> DEFINE at == IF agentCall[c].secret.kind = "oauth" THEN "headers" ELSE "send"
               stale == agentCall[c].secret.kind = "oauth"
    <3>1. \/ Ends(c) \/ CallGoes(c, "mark")
          \/ agentCall' = [agentCall EXCEPT ![c].at = at, ![c].stale = stale, ![c].again = TRUE]
      BY <1>4 DEF Send
    <3>2. agentCall[c].at = "send"
      BY <1>4 DEF Send, CallAt
    <3>3. CASE agentCall' = [agentCall EXCEPT ![c].at = at, ![c].stale = stale, ![c].again = TRUE]
      <4>1. CASE agentCall[c].secret.kind = "oauth"
        <5>1. at = "headers" /\ stale = TRUE
          BY <4>1
        <5> QED  BY <3>2, <3>3, <4>1, <5>1 DEF CallOn
      <4>2. CASE agentCall[c].secret.kind # "oauth"
        <5>1. at = "send" /\ stale = FALSE
          BY <4>2
        <5> QED  BY <3>3, <5>1 DEF CallOn
      <4> QED  BY <4>1, <4>2
    <3> QED  BY <3>1, <3>3 DEF CallOn
  <2> QED  BY <1>4, <2>1 DEF Send, CallAt, gateMemory
<1>5. CASE MarkRefused(c)
  BY <1>5 DEF MarkRefused, CallOn, CallAt, gateMemory
<1>6. CASE CancelCall(c)
  BY <1>6 DEF CancelCall, CallOn, CallAt, gateMemory
<1> QED  BY <1>1, <1>2, <1>3, <1>4, <1>5, <1>6

LEMMA CallOnInv ==
    ASSUME GatewayInv, NEW c \in AgentCalls,
           RefreshRefused(c) \/ RefreshLost(c) \/ Keep(c) \/ Send(c) \/ MarkRefused(c) \/ CancelCall(c)
    PROVE  GatewayInv'
<1>1. GatewayTypes /\ Locking /\ Shapes /\ agentCall[c] \in Agent
  BY DEF GatewayInv, GatewayTypes
<1>2. /\ CallOn(c)
      /\ \/ agentCall[c].at # "provider" /\ UNCHANGED refreshing
         \/ agentCall[c].at = "provider" /\ Unlock(c)
      /\ UNCHANGED <<registry, newest, flows, visit, gatewayLeft>>
  BY CallOnSteps
<1>3. PICK q \in Agent :
        agentCall' = [agentCall EXCEPT ![c] = q] /\ CallShape(q) /\ q.at # "provider"
  BY <1>2, CallOnType
<1>4. /\ agentCall' \in [AgentCalls -> Agent] /\ Locking' /\ \A d \in AgentCalls : CallShape(agentCall'[d])
      /\ refreshing' \in [Owners -> AgentCalls \union {NoCall}]
  BY <1>2, <1>3, CallTo
<1>5. agentCall[c].secret \in Secret /\ agentCall[c].secret.id \in Nat /\ agentCall[c].owner \in Owners
  BY <1>1 DEF Agent, Secret
<1>6. issued' \in Seq(Known) /\ unkept' \in SUBSET Nat /\ reused' \in SUBSET Nat
  <2>1. UNCHANGED <<issued, unkept, reused>> \/ RefreshRefused(c) \/ RefreshLost(c)
    BY DEF Keep, Send, MarkRefused, CancelCall, gateHistory
  <2>2. CASE RefreshRefused(c)
    BY <1>1, <1>5, <2>2 DEF RefreshRefused, GatewayTypes
  <2>3. CASE RefreshLost(c)
    BY <1>1, <1>5, <2>3, RotatedOnly DEF RefreshLost, GatewayTypes
  <2> QED  BY <1>1, <2>1, <2>2, <2>3 DEF GatewayTypes
<1>7. stored' \in [Owners -> Credential]
  <2>1. UNCHANGED stored \/ Keep(c) \/ MarkRefused(c)
    BY DEF RefreshRefused, RefreshLost, Send, CancelCall
  <2>2. [secret |-> agentCall[c].secret, status |-> "connected"] \in Credential
    BY <1>5 DEF Credential
  <2>3. CASE Keep(c)
    BY <1>1, <1>5, <2>2, <2>3 DEF Keep, GatewayTypes
  <2>4. CASE MarkRefused(c)
    <3>1. [stored[agentCall[c].owner] EXCEPT !.status = "needs_reconnecting"] \in Credential
      <4>1. stored[agentCall[c].owner] \in Credential
        BY <1>1, <1>5 DEF GatewayTypes
      <4> QED  BY <4>1 DEF Credential
    <3> QED  BY <1>1, <1>5, <2>4, <3>1 DEF MarkRefused, GatewayTypes
  <2> QED  BY <1>1, <2>1, <2>3, <2>4 DEF GatewayTypes
<1>31. GatewayTypes'
  BY <1>1, <1>2, <1>4, <1>6, <1>7 DEF GatewayTypes
<1>32. Shapes'
  BY <1>1, <1>2, <1>4, <1>6, <1>7 DEF Shapes
<1> QED  BY <1>1, <1>2, <1>4, <1>6, <1>7, <1>31, <1>32 DEF GatewayInv

LEMMA AgentStepInv ==
    ASSUME GatewayInv, NEW c \in AgentCalls, AgentStep(c)
    PROVE  GatewayInv'
BY GrantInv, HeadersInv, RefreshInv, CallOnInv DEF AgentStep

\* People's steps, an admin's, and the provider's own leave the calls and the locks alone.
LEMMA CallsAlone ==
    ASSUME GatewayInv, UNCHANGED <<agentCall, refreshing>>,
           registry' \in [here : BOOLEAN, model : Models, method : Kinds],
           stored' \in [Owners -> Credential], issued' \in Seq(Known),
           UNCHANGED newest \/ \E o \in Owners : newest' = [newest EXCEPT ![o] = NoSecret],
           flows' \in SUBSET Owners, visit' \in [Visits -> Visit],
           unkept' \in SUBSET Nat, UNCHANGED reused,
           gatewayLeft' \in [calls : Nat, visits : Nat, restarts : Nat]
    PROVE  GatewayInv'
<1>1. GatewayTypes /\ Locking /\ Shapes
  BY DEF GatewayInv
<1>2. newest' \in [Owners -> Secret] /\ \A o \in Owners : newest'[o].id # 0 => newest'[o].kind = "oauth"
  <2>1. NoSecret \in Secret /\ NoSecret.id = 0
    BY Blanks DEF NoSecret
  <2>2. newest \in [Owners -> Secret] /\ \A o \in Owners : newest[o].id # 0 => newest[o].kind = "oauth"
    BY <1>1 DEF GatewayTypes, Shapes
  <2>3. UNCHANGED newest \/ \E o \in Owners : newest' = [newest EXCEPT ![o] = NoSecret]
    OBVIOUS
  <2>4. CASE UNCHANGED newest
    BY <2>2, <2>4
  <2>5. ASSUME NEW o \in Owners, newest' = [newest EXCEPT ![o] = NoSecret]
        PROVE  newest' \in [Owners -> Secret] /\ \A p \in Owners : newest'[p].id # 0 => newest'[p].kind = "oauth"
    <3>1. newest' \in [Owners -> Secret]
      BY <2>1, <2>2, <2>5
    <3>2. \A p \in Owners : newest'[p] = IF p = o THEN NoSecret ELSE newest[p]
      BY <2>2, <2>5
    <3> QED  BY <2>1, <2>2, <3>1, <3>2
  <2> QED  BY <2>3, <2>4, <2>5
<1>3. Locking'
  BY <1>1 DEF Locking
<1>31. GatewayTypes'
  BY <1>1, <1>2, <1>3 DEF GatewayTypes
<1>32. Shapes'
  BY <1>1, <1>2, <1>3 DEF Shapes
<1> QED  BY <1>1, <1>2, <1>3, <1>31, <1>32 DEF GatewayInv

LEMMA VisitTypes ==
    ASSUME GatewayInv, NEW v \in Visits
    PROVE  /\ visit[v] \in Visit /\ visit[v].owner \in Owners /\ visit[v].secret \in Secret
           /\ \A o \in Owners : newest[o].id \in Nat /\ stored[o].secret \in Secret
           /\ Len(issued) \in Nat /\ registry.method \in Kinds
           /\ registry.here \in BOOLEAN /\ registry.model \in Models
BY IssuedType DEF GatewayInv, GatewayTypes, Visit, Secret, Credential

\* What a visit becomes.
LEMMA VisitNow ==
    ASSUME NEW at \in {"check", "exchange", "store", "revoke", "delete"}, NEW o \in Owners, NEW s \in Secret
    PROVE  /\ [NoVisit EXCEPT !.at = at, !.owner = o, !.secret = s] \in Visit
           /\ [NoVisit EXCEPT !.at = at, !.owner = o, !.secret = s].at = at
           /\ [NoVisit EXCEPT !.at = at, !.owner = o, !.secret = s].owner = o
           /\ [NoVisit EXCEPT !.at = at, !.owner = o, !.secret = s].secret = s
BY DEF NoVisit, Visit

LEMMA ConnectInv ==
    ASSUME GatewayInv, NEW v \in Visits, Connect(v)
    PROVE  GatewayInv'
<1> DEFINE s == [kind |-> "token", id |-> Len(issued) + 1, gen |-> 0]
<1>1. GatewayTypes /\ s \in Secret
  BY VisitTypes DEF GatewayInv, Secret, Kinds
<1> HIDE DEF s
<1>2. [NoVisit EXCEPT !.at = "check", !.owner = OwnerUnder(registry.model), !.secret = s] \in Visit
  BY <1>1, UnderIsOwner, VisitNow
<1>3. visit' = [visit EXCEPT ![v] =
          [NoVisit EXCEPT !.at = "check", !.owner = OwnerUnder(registry.model), !.secret = s]]
  BY DEF Connect, Visiting, s
<1>4. visit' \in [Visits -> Visit]
  BY <1>1, <1>2, <1>3 DEF GatewayTypes
<1>5. issued' \in Seq(Known)
  BY <1>1, IssuedOne DEF Connect, GatewayTypes
<1>6. gatewayLeft' \in [calls : Nat, visits : Nat, restarts : Nat]
  <2>1. gatewayLeft.visits > 0 /\ gatewayLeft' = [gatewayLeft EXCEPT !.visits = @ - 1]
    BY DEF Connect, Visiting
  <2>2. gatewayLeft \in [calls : Nat, visits : Nat, restarts : Nat]
    BY <1>1 DEF GatewayTypes
  <2> QED  BY <2>1, <2>2
<1>7. UNCHANGED <<registry, stored, newest, refreshing, flows, agentCall, unkept, reused>>
  BY DEF Connect, gateMemory, gateHistory
<1> QED  BY <1>1, <1>4, <1>5, <1>6, <1>7, CallsAlone DEF GatewayTypes

LEMMA LeavesType ==
    ASSUME GatewayInv, NEW v \in Visits, Leaves(v)
    PROVE  visit' \in [Visits -> Visit]
BY Blanks DEF Leaves, GatewayInv, GatewayTypes

LEMMA VisitGoes ==
    ASSUME GatewayInv, NEW v \in Visits, NEW at \in {"store", "delete"},
           visit' = [visit EXCEPT ![v].at = at]
    PROVE  visit' \in [Visits -> Visit]
<1>1. [visit[v] EXCEPT !.at = at] \in Visit
  BY VisitTypes DEF Visit
<1> QED  BY <1>1 DEF GatewayInv, GatewayTypes

LEMMA CheckInv ==
    ASSUME GatewayInv, NEW v \in Visits, CheckCredential(v)
    PROVE  GatewayInv'
<1>1. UNCHANGED <<registry, stored, issued, newest, refreshing, flows, agentCall, unkept, reused, gatewayLeft>>
  BY DEF CheckCredential, gateMemory, gateHistory
<1>2. visit' \in [Visits -> Visit]
  BY LeavesType, VisitGoes DEF CheckCredential
<1> QED  BY <1>1, <1>2, CallsAlone DEF GatewayInv, GatewayTypes

LEMMA ForgottenType ==
    ASSUME GatewayInv, NEW o \in Owners, Forgotten(o)
    PROVE  unkept' \in SUBSET Nat
BY DEF Forgotten, GatewayInv, GatewayTypes, Secret

LEMMA ExchangeInv ==
    ASSUME GatewayInv, NEW v \in Visits, Exchange(v)
    PROVE  GatewayInv'
<1>1. UNCHANGED <<registry, stored, refreshing, flows, agentCall, reused, gatewayLeft>>
  BY DEF Exchange
<1>2. CASE Leaves(v) /\ UNCHANGED <<issued, newest, unkept>>
  BY <1>1, <1>2, LeavesType, CallsAlone DEF GatewayInv, GatewayTypes
<1> DEFINE s == [kind |-> "oauth", id |-> Len(issued) + 1, gen |-> 0]
           r == [visit[v] EXCEPT !.at = "store", !.secret = s]
<1>3. CASE /\ issued' = Append(issued, NewSecret) /\ Forgotten(visit[v].owner)
           /\ visit' = [visit EXCEPT ![v] = r]
  <2>1. s \in Secret
    BY VisitTypes DEF Secret, Kinds
  <2> HIDE DEF s
  <2>2. r \in Visit
    BY <2>1, VisitTypes DEF Visit
  <2> HIDE DEF r
  <2>3. visit' \in [Visits -> Visit]
    BY <1>3, <2>2 DEF GatewayInv, GatewayTypes
  <2>4. issued' \in Seq(Known)
    BY <1>3, IssuedOne DEF GatewayInv, GatewayTypes
  <2>5. unkept' \in SUBSET Nat /\ \E o \in Owners : newest' = [newest EXCEPT ![o] = NoSecret]
    BY <1>3, VisitTypes, ForgottenType DEF Forgotten
  <2> QED  BY <1>1, <2>3, <2>4, <2>5, CallsAlone DEF GatewayInv, GatewayTypes
<1>4. \/ Leaves(v) /\ UNCHANGED <<issued, newest, unkept>>
      \/ /\ issued' = Append(issued, NewSecret) /\ Forgotten(visit[v].owner)
         /\ visit' = [visit EXCEPT ![v] = r]
  BY DEF Exchange
<1> QED  BY <1>2, <1>3, <1>4

LEMMA VisitingType ==
    ASSUME GatewayInv, NEW v \in Visits, NEW r \in Visit, Visiting(v, r)
    PROVE  visit' \in [Visits -> Visit] /\ gatewayLeft' \in [calls : Nat, visits : Nat, restarts : Nat]
<1>1. visit' \in [Visits -> Visit]
  BY DEF Visiting, GatewayInv, GatewayTypes
<1>2. gatewayLeft' \in [calls : Nat, visits : Nat, restarts : Nat]
  BY DEF Visiting, GatewayInv, GatewayTypes
<1> QED  BY <1>1, <1>2

LEMMA StoreInv ==
    ASSUME GatewayInv, NEW v \in Visits, StoreCredential(v)
    PROVE  GatewayInv'
<1>1. UNCHANGED <<registry, issued, newest, refreshing, flows, agentCall, unkept, reused, gatewayLeft>>
  BY DEF StoreCredential, gateMemory, gateHistory
<1>2. visit' \in [Visits -> Visit]
  BY LeavesType DEF StoreCredential
<1>3. [secret |-> visit[v].secret, status |-> "connected"] \in Credential
  BY VisitTypes DEF Credential
<1>4. stored' \in [Owners -> Credential]
  BY <1>3 DEF StoreCredential, GatewayInv, GatewayTypes
<1> QED  BY <1>1, <1>2, <1>4, CallsAlone DEF GatewayInv, GatewayTypes

LEMMA RevokeInv ==
    ASSUME GatewayInv, NEW v \in Visits, Revoke(v)
    PROVE  GatewayInv'
<1>1. UNCHANGED <<registry, stored, refreshing, flows, agentCall, reused, gatewayLeft>>
  BY DEF Revoke
<1>2. visit' \in [Visits -> Visit]
  BY VisitGoes DEF Revoke
<1> DEFINE o == visit[v].owner
           s == Freshest(o, visit[v].secret)
<1>3. s \in Secret /\ o \in Owners
  BY FreshestType, VisitTypes DEF GatewayInv, GatewayTypes
<1>4. \/ UNCHANGED <<newest, unkept, issued>>
      \/ Forgotten(o) /\ issued' \in {issued, [issued EXCEPT ![s.id].live = FALSE]}
  BY DEF Revoke
<1> HIDE DEF s, o
<1>5. CASE UNCHANGED <<newest, unkept, issued>>
  BY <1>1, <1>2, <1>5, CallsAlone DEF GatewayInv, GatewayTypes
<1>6. CASE Forgotten(o) /\ issued' \in {issued, [issued EXCEPT ![s.id].live = FALSE]}
  <2>1. ASSUME s.id \in DOMAIN issued
        PROVE  [issued[s.id] EXCEPT !.live = FALSE] \in Known
    <3>1. issued[s.id] \in Known
      BY <2>1, IssuedType DEF GatewayInv, GatewayTypes
    <3> QED  BY <3>1 DEF Known
  <2>2. issued' \in Seq(Known)
    BY <1>6, <2>1, OneKnown DEF GatewayInv, GatewayTypes
  <2>3. unkept' \in SUBSET Nat /\ \E p \in Owners : newest' = [newest EXCEPT ![p] = NoSecret]
    BY <1>3, <1>6, ForgottenType DEF Forgotten
  <2> QED  BY <1>1, <1>2, <2>2, <2>3, CallsAlone DEF GatewayInv, GatewayTypes
<1> QED  BY <1>4, <1>5, <1>6

LEMMA OtherVisitsInv ==
    ASSUME GatewayInv, NEW v \in Visits,
           DeleteCredential(v) \/ \E o \in Owners : FinishSignIn(v, o) \/ Disconnect(v, o)
    PROVE  GatewayInv'
<1>1. CASE DeleteCredential(v)
  <2>1. UNCHANGED <<registry, issued, newest, refreshing, flows, agentCall, unkept, reused, gatewayLeft>>
    BY <1>1 DEF DeleteCredential, gateMemory, gateHistory
  <2>2. visit' \in [Visits -> Visit]
    BY <1>1, LeavesType DEF DeleteCredential
  <2>3. stored' \in [Owners -> Credential]
    BY <1>1, Blanks DEF DeleteCredential, GatewayInv, GatewayTypes
  <2> QED  BY <2>1, <2>2, <2>3, CallsAlone DEF GatewayInv, GatewayTypes
<1>2. ASSUME NEW o \in Owners, FinishSignIn(v, o)
      PROVE  GatewayInv'
  <2>1. UNCHANGED <<registry, stored, issued, newest, refreshing, agentCall, unkept, reused>>
    BY <1>2 DEF FinishSignIn, gateHistory
  <2>2. [NoVisit EXCEPT !.at = "exchange", !.owner = o] \in Visit
    BY DEF NoVisit, Visit, NoSecret, Secret, Kinds
  <2>3. visit' \in [Visits -> Visit] /\ gatewayLeft' \in [calls : Nat, visits : Nat, restarts : Nat]
    BY <1>2, <2>2, VisitingType DEF FinishSignIn
  <2>4. flows' \in SUBSET Owners
    BY <1>2 DEF FinishSignIn, GatewayInv, GatewayTypes
  <2> QED  BY <2>1, <2>3, <2>4, CallsAlone DEF GatewayInv, GatewayTypes
<1>3. ASSUME NEW o \in Owners, Disconnect(v, o)
      PROVE  GatewayInv'
  <2>1. UNCHANGED <<registry, stored, issued, newest, refreshing, flows, agentCall, unkept, reused>>
    BY <1>3 DEF Disconnect, gateMemory, gateHistory
  <2> DEFINE at == IF registry.method = "oauth" THEN "revoke" ELSE "delete"
  <2>2. at \in {"revoke", "delete"}
    OBVIOUS
  <2>3. Visiting(v, [NoVisit EXCEPT !.at = at, !.owner = o, !.secret = stored[o].secret])
    BY <1>3 DEF Disconnect
  <2>6. stored[o].secret \in Secret
    BY VisitTypes
  <2> HIDE DEF at
  <2>4. [NoVisit EXCEPT !.at = at, !.owner = o, !.secret = stored[o].secret] \in Visit
    <3>1. at \in {"check", "exchange", "store", "revoke", "delete"}
      BY <2>2
    <3> QED  BY <1>3, <2>6, <3>1 DEF NoVisit, Visit
  <2>5. visit' \in [Visits -> Visit] /\ gatewayLeft' \in [calls : Nat, visits : Nat, restarts : Nat]
    BY <2>3, <2>4, VisitingType
  <2> QED  BY <2>1, <2>5, CallsAlone DEF GatewayInv, GatewayTypes
<1> QED  BY <1>1, <1>2, <1>3

LEMMA VisitStepInv ==
    ASSUME GatewayInv, NEW v \in Visits, VisitStep(v)
    PROVE  GatewayInv'
BY ConnectInv, CheckInv, ExchangeInv, StoreInv, RevokeInv, OtherVisitsInv DEF VisitStep

LEMMA SpoilInv ==
    ASSUME GatewayInv, NEW id \in DOMAIN issued, NEW due \in BOOLEAN, Spoil(id, due)
    PROVE  GatewayInv'
<1>1. UNCHANGED <<registry, stored, newest, refreshing, flows, agentCall, visit, unkept, reused, gatewayLeft>>
  BY DEF Spoil, gateMemory, gateHistory
<1> DEFINE k == issued[id]
           d == IF due THEN k.due \union {k.gen} ELSE k.due
           x == [k EXCEPT !.dead = @ \union {k.gen}, !.due = d]
<1>2. k \in Known
  BY IssuedType DEF GatewayInv, GatewayTypes
<1>3. d \in SUBSET Nat
  BY <1>2 DEF Known
<1>4. issued' = [issued EXCEPT ![id] = x]
  BY DEF Spoil
<1> HIDE DEF k, d
<1>5. x \in Known
  BY <1>2, <1>3 DEF Known
<1> HIDE DEF x
<1>6. issued' \in Seq(Known)
  BY <1>4, <1>5, OneKnown DEF GatewayInv, GatewayTypes
<1> QED  BY <1>1, <1>6, CallsAlone DEF GatewayInv, GatewayTypes

LEMMA AdminsInv ==
    ASSUME GatewayInv, StartSignIn \/ EditIntegration \/ UninstallIntegration
    PROVE  GatewayInv'
<1>1. CASE StartSignIn
  <2>1. flows' \in SUBSET Owners
    BY <1>1, UnderIsOwner DEF StartSignIn, GatewayInv, GatewayTypes
  <2> QED  BY <1>1, <2>1, CallsAlone DEF StartSignIn, gateHistory, GatewayInv, GatewayTypes
<1>2. CASE EditIntegration \/ UninstallIntegration
  <2>1. UNCHANGED <<issued, newest, refreshing, flows, agentCall, visit, unkept, reused>>
    BY <1>2 DEF EditIntegration, UninstallIntegration, gateMemory, gateHistory
  <2>2. stored' \in [Owners -> Credential]
    BY <1>2, Blanks DEF EditIntegration, UninstallIntegration
  <2>3. gatewayLeft' \in [calls : Nat, visits : Nat, restarts : Nat]
    <3>1. \/ UNCHANGED gatewayLeft
          \/ gatewayLeft.visits > 0 /\ gatewayLeft' = [gatewayLeft EXCEPT !.visits = @ - 1]
      BY <1>2 DEF EditIntegration, UninstallIntegration
    <3>2. gatewayLeft \in [calls : Nat, visits : Nat, restarts : Nat]
      BY DEF GatewayInv, GatewayTypes
    <3> QED  BY <3>1, <3>2
  <2>4. registry' \in [here : BOOLEAN, model : Models, method : Kinds]
    <3>1. registry \in [here : BOOLEAN, model : Models, method : Kinds]
      BY DEF GatewayInv, GatewayTypes
    <3>2. ASSUME NEW model \in Models, NEW method \in Kinds
          PROVE  [registry EXCEPT !.model = model, !.method = method]
                   \in [here : BOOLEAN, model : Models, method : Kinds]
      BY <3>1
    <3>3. CASE EditIntegration
      BY <3>2, <3>3 DEF EditIntegration
    <3>4. CASE UninstallIntegration
      BY <3>1, <3>4 DEF UninstallIntegration
    <3> QED  BY <1>2, <3>3, <3>4
  <2> QED  BY <2>1, <2>2, <2>3, <2>4, CallsAlone DEF GatewayInv, GatewayTypes
<1> QED  BY <1>1, <1>2

LEMMA RestartInv ==
    ASSUME GatewayInv, GatewayRestart
    PROVE  GatewayInv'
<1>1. GatewayTypes /\ UNCHANGED <<registry, stored, issued, reused>>
  BY DEF GatewayInv, GatewayRestart
<1>2. agentCall' \in [AgentCalls -> Agent] /\ \A c \in AgentCalls : agentCall'[c] = NoAgent
  BY Blanks DEF GatewayRestart
<1>3. newest' \in [Owners -> Secret] /\ \A o \in Owners : newest'[o].id = 0
  BY Blanks DEF GatewayRestart, NoSecret
<1>4. refreshing' \in [Owners -> AgentCalls \union {NoCall}] /\ \A o \in Owners : refreshing'[o] = NoCall
  BY DEF GatewayRestart
<1>5. visit' \in [Visits -> Visit]
  BY <1>1, Blanks DEF GatewayRestart, GatewayTypes
<1>6. unkept' \in SUBSET Nat
  <2>1. DOMAIN issued \subseteq Nat
    BY <1>1, IssuedType DEF GatewayTypes
  <2> QED  BY <1>1, <2>1 DEF GatewayRestart, GatewayTypes
<1>7. flows' \in SUBSET Owners /\ gatewayLeft' \in [calls : Nat, visits : Nat, restarts : Nat]
  BY <1>1 DEF GatewayRestart, GatewayTypes
<1>8. NoAgent.at = "idle" /\ CallShape(NoAgent)
  BY DEF NoAgent, CallShape
<1>9. Locking' /\ Shapes'
  <2>1. \A c \in AgentCalls : agentCall'[c].at # "provider" /\ CallShape(agentCall'[c])
    BY <1>2, <1>8
  <2>2. NoCall \notin AgentCalls
    BY IntegrationsAssumption
  <2> QED  BY <1>3, <1>4, <2>1, <2>2 DEF Locking, Shapes
<1> QED  BY <1>1, <1>2, <1>3, <1>4, <1>5, <1>6, <1>7, <1>9 DEF GatewayInv, GatewayTypes

LEMMA GatewayInvStep ==
    ASSUME GatewayInv, [IntegrationsNext]_gatewayVars
    PROVE  GatewayInv'
<1>1. CASE UNCHANGED gatewayVars
  BY <1>1 DEF gatewayVars, gateMemory, gateHistory, GatewayInv, GatewayTypes, Locking, Shapes
<1> QED  BY <1>1, AgentStepInv, VisitStepInv, SpoilInv, AdminsInv, RestartInv DEF IntegrationsNext

LEMMA GatewayInvInit == IntegrationsInit => GatewayInv
<1> SUFFICES ASSUME IntegrationsInit PROVE GatewayInv
  OBVIOUS
<1>1. PICK model \in {"shared", "per_user"}, method \in {"token", "oauth"} :
         /\ registry = [here |-> TRUE, model |-> model, method |-> method]
         /\ stored = [o \in Owners |->
                IF o = OwnerUnder(model)
                THEN [secret |-> [kind |-> method, id |-> 1, gen |-> 0], status |-> "connected"]
                ELSE NoCredential]
  BY DEF IntegrationsInit
<1>2. registry \in [here : BOOLEAN, model : Models, method : Kinds]
  BY <1>1 DEF Models, Kinds
<1>3. stored \in [Owners -> Credential]
  <2>1. [secret |-> [kind |-> method, id |-> 1, gen |-> 0], status |-> "connected"] \in Credential
    BY DEF Credential, Secret, Kinds
  <2> QED  BY <1>1, <2>1, Blanks
<1>4. issued \in Seq(Known)
  BY Blanks DEF IntegrationsInit
<1>5. /\ newest \in [Owners -> Secret] /\ \A o \in Owners : newest[o].id = 0
      /\ refreshing \in [Owners -> AgentCalls \union {NoCall}] /\ \A o \in Owners : refreshing[o] = NoCall
      /\ agentCall \in [AgentCalls -> Agent] /\ \A c \in AgentCalls : agentCall[c] = NoAgent
      /\ visit \in [Visits -> Visit] /\ flows = {} /\ unkept = {} /\ reused = {}
  BY Blanks DEF IntegrationsInit, NoSecret
<1>6. gatewayLeft \in [calls : Nat, visits : Nat, restarts : Nat]
  BY IntegrationsAssumption DEF IntegrationsInit
<1>7. NoAgent.at = "idle" /\ CallShape(NoAgent) /\ NoCall \notin AgentCalls
  BY IntegrationsAssumption DEF NoAgent, CallShape
<1>8. Locking /\ Shapes
  BY <1>5, <1>7 DEF Locking, Shapes
<1> QED  BY <1>2, <1>3, <1>4, <1>5, <1>6, <1>8 DEF GatewayInv, GatewayTypes

\* Every variable keeps to its set, and an owner's lock is held by the one call that asks the
\* provider for them (`async with self._locks[key]` in `OAuth.refreshed`).
THEOREM GatewayTypeCorrect == IntegrationsSpec => []GatewayTypeOK
<1>1. IntegrationsInit => GatewayInv
  BY GatewayInvInit
<1>2. GatewayInv /\ [IntegrationsNext]_gatewayVars => GatewayInv'
  BY GatewayInvStep
<1>3. GatewayInv => GatewayTypeOK
  BY GatewayTyped
<1> QED  BY <1>1, <1>2, <1>3, PTL DEF IntegrationsSpec

-----------------------------------------------------------------------------
(* Only a person adds a credential.                                        *)

\* Nobody but a person entering one puts a credential where there was none.
Unfilled(o) == stored[o] = NoCredential => stored'[o] = NoCredential

LEMMA AgentUnfilled ==
    ASSUME GatewayInv, NEW c \in AgentCalls, AgentStep(c)
    PROVE  \A o \in Owners : Unfilled(o)
<1>1. stored \in [Owners -> Credential]
  BY DEF GatewayInv, GatewayTypes
<1>2. CASE Keep(c) \/ MarkRefused(c)
  <2>1. \/ UNCHANGED stored
        \/ /\ stored[agentCall[c].owner] # NoCredential
           /\ \E x : stored' = [stored EXCEPT ![agentCall[c].owner] = x]
    BY <1>2 DEF Keep, MarkRefused, Keeps
  <2> QED  BY <1>1, <2>1 DEF Unfilled
<1>3. CASE UNCHANGED stored
  BY <1>3 DEF Unfilled
<1>4. Keep(c) \/ MarkRefused(c) \/ UNCHANGED stored
  BY DEF AgentStep, Grant, Headers, Refresh, RefreshRefused, RefreshLost, Send, CancelCall
<1> QED  BY <1>2, <1>3, <1>4

LEMMA StepUnfilled ==
    ASSUME GatewayInv, [IntegrationsNext]_gatewayVars, NEW o \in Owners,
           stored[o] = NoCredential, stored'[o] # NoCredential
    PROVE  \E v \in Visits : /\ VisitAt(v, "store") /\ visit[v].owner = o
                             /\ stored'[o].secret = visit[v].secret
<1>1. stored \in [Owners -> Credential]
  BY DEF GatewayInv, GatewayTypes
<1>2. CASE \E c \in AgentCalls : AgentStep(c)
  BY <1>2, AgentUnfilled DEF Unfilled
<1>3. CASE EditIntegration \/ UninstallIntegration
  BY <1>3 DEF EditIntegration, UninstallIntegration
<1>4. CASE \E v \in Visits : DeleteCredential(v)
  BY <1>1, <1>4 DEF DeleteCredential
<1>5. ASSUME NEW v \in Visits, StoreCredential(v)
      PROVE  /\ VisitAt(v, "store") /\ visit[v].owner = o
             /\ stored'[o].secret = visit[v].secret
  <2>1. stored' = [stored EXCEPT ![visit[v].owner] = [secret |-> visit[v].secret, status |-> "connected"]]
    BY <1>5 DEF StoreCredential
  <2>2. visit[v].owner = o
    BY <1>1, <2>1
  <2> QED  BY <1>1, <1>5, <2>1, <2>2 DEF StoreCredential
<1>6. CASE UNCHANGED stored
  BY <1>6
<1>7. ASSUME NEW v \in Visits, VisitStep(v)
      PROVE  StoreCredential(v) \/ DeleteCredential(v) \/ UNCHANGED stored
  BY <1>7 DEF VisitStep, Connect, CheckCredential, Exchange, Revoke, FinishSignIn, Disconnect
<1>8. StartSignIn \/ GatewayRestart \/ UNCHANGED gatewayVars => UNCHANGED stored
  BY DEF StartSignIn, GatewayRestart, gatewayVars
<1>9. ASSUME NEW id \in DOMAIN issued, NEW due \in BOOLEAN, Spoil(id, due)
      PROVE  UNCHANGED stored
  BY <1>9 DEF Spoil
<1> QED  BY <1>2, <1>3, <1>4, <1>5, <1>6, <1>7, <1>8, <1>9 DEF IntegrationsNext

\* After a disconnect, a change of the integration or an uninstall there is a credential again
\* only when a person enters one: `store_refreshed` ("never add one") and
\* `mark_needs_reconnecting` update the row they find, however late they come.
THEOREM OnlyPeopleAdd == IntegrationsSpec => NeverAdded
<1>1. IntegrationsInit => GatewayInv
  BY GatewayInvInit
<1>2. GatewayInv /\ [IntegrationsNext]_gatewayVars => GatewayInv'
  BY GatewayInvStep
<1>3. GatewayInv /\ [IntegrationsNext]_gatewayVars =>
        [\A o \in Owners : stored[o] = NoCredential /\ stored'[o] # NoCredential =>
           \E v \in Visits : VisitAt(v, "store") /\ visit[v].owner = o
                               /\ stored'[o].secret = visit[v].secret]_gatewayVars
  BY StepUnfilled
<1> QED  BY <1>1, <1>2, <1>3, PTL DEF IntegrationsSpec, NeverAdded

-----------------------------------------------------------------------------
(* A sign-in has one owner.                                                *)

\* Secrets the platform, the gateway's memory or a call has for an owner.
Holds(o, s) ==
    \/ s = stored[o].secret \/ s = newest[o]
    \/ \E c \in AgentCalls : /\ agentCall[c].owner = o
                             /\ s = agentCall[c].granted \/ s = agentCall[c].secret

\* Secrets a person is entering, which the platform does not have yet.
Brings(v) == visit[v].at \in {"check", "store"}

\* A secret is one that was made, or there is none.
Real(s) == IF s.kind = "none" THEN s.id = 0 ELSE s.id \in DOMAIN issued

\* A secret being entered is untouched.
Untouched(s) ==
    s.kind # "none" /\ s.id \in DOMAIN issued /\ s.gen = 0 /\ issued[s.id].gen = 0

\* What is held is real and of one owner, and what a person is entering nobody else has.
OneOwner ==
    /\ \A o \in Owners, s \in Secret : Holds(o, s) => Real(s)
    /\ \A s, t \in Secret : Holds(Person, s) /\ Holds(Shared, t) /\ s.id = t.id => s.id = 0
    /\ \A v \in Visits : Brings(v) =>
         /\ Untouched(visit[v].secret)
         /\ \A o \in Owners, s \in Secret : Holds(o, s) => s.id # visit[v].secret.id
         /\ \A w \in Visits : Brings(w) /\ visit[w].secret.id = visit[v].secret.id => w = v

\* A generation of a sign-in is the provider's last, or the last is in the owner's memory.
Fresh(o, s) ==
    s.id \in DOMAIN issued /\ s.id \notin unkept =>
        \/ s.gen = issued[s.id].gen
        \/ newest[o].id = s.id /\ newest[o].gen = issued[s.id].gen

\* Whoever holds a generation of a sign-in can come by its last one, and whoever asks the
\* provider does so with the last one: under the owner's lock it stays so.
FreshInv ==
    /\ \A o \in Owners, s \in Secret : Holds(o, s) => Fresh(o, s)
    /\ \A c \in AgentCalls : agentCall[c].at = "provider" =>
         LET s == agentCall[c].secret
         IN s.id \in DOMAIN issued /\ (s.id \in unkept \/ issued[s.id].gen <= s.gen)
    /\ reused \subseteq unkept

-----------------------------------------------------------------------------

LEMMA Owned == \A o \in Owners : o = Person \/ o = Shared
BY DEF Owners

\* Two secrets with a sign-in's number are of the same owner.
LEMMA SameOwner ==
    ASSUME OneOwner, NEW o \in Owners, NEW p \in Owners, NEW s \in Secret, NEW t \in Secret,
           Holds(o, s), Holds(p, t), s.id = t.id, s.id # 0
    PROVE  o = p
BY Owned DEF OneOwner

\* The numbers of what was made are positive.
LEMMA Numbers ==
    ASSUME GatewayInv
    PROVE  0 \notin DOMAIN issued /\ \A id \in DOMAIN issued : issued[id].gen \in Nat
<1>1. issued \in [DOMAIN issued -> Known] /\ DOMAIN issued = 1 .. Len(issued) /\ Len(issued) \in Nat
  BY IssuedType DEF GatewayInv, GatewayTypes
<1> QED  BY <1>1 DEF Known

LEMMA NoZero ==
    ASSUME NEW q \in Seq(Known)
    PROVE  0 \notin DOMAIN q
BY LenProperties

\* Secrets are handed on; those a person brings are new or stay.
LEMMA HandedOn ==
    ASSUME GatewayInv, GatewayInv', OneOwner,
           \A o \in Owners, s \in Secret : Holds(o, s)' =>
             \/ s.kind = "none" /\ s.id = 0
             \/ \E t \in Secret : Holds(o, t) /\ t.id = s.id /\ t.kind = s.kind,
           \A id \in DOMAIN issued :
             /\ id \in DOMAIN issued'
             /\ \/ issued'[id].gen = issued[id].gen
                \/ \E o \in Owners, t \in Secret : Holds(o, t) /\ t.id = id,
           \A v \in Visits : Brings(v)' =>
             \/ Brings(v) /\ visit'[v].secret = visit[v].secret
             \/ /\ Untouched(visit[v].secret)' /\ visit'[v].secret.id \notin DOMAIN issued
                /\ \A w \in Visits : w # v => visit'[w] = visit[w]
    PROVE  OneOwner'
<1>1. 0 \notin DOMAIN issued /\ 0 \notin DOMAIN issued'
  BY NoZero DEF GatewayInv, GatewayTypes
<1>2. \A o \in Owners, s \in Secret : Holds(o, s)' => s.id = 0 \/ s.id \in DOMAIN issued
  BY DEF OneOwner, Real
<1>3. \A o \in Owners, s \in Secret : Holds(o, s)' => Real(s)'
  BY DEF OneOwner, Real
<1>4. ASSUME NEW s \in Secret, NEW t \in Secret, Holds(Person, s)', Holds(Shared, t)', s.id = t.id
      PROVE  s.id = 0
  <2>1. Person \in Owners /\ Shared \in Owners
    BY Blanks
  <2>2. CASE s.id # 0
    <3>1. PICK a \in Secret : Holds(Person, a) /\ a.id = s.id
      BY <1>4, <2>1, <2>2
    <3>2. PICK b \in Secret : Holds(Shared, b) /\ b.id = t.id
      BY <1>4, <2>1, <2>2
    <3> QED  BY <1>4, <3>1, <3>2 DEF OneOwner
  <2> QED  BY <2>2
<1>5. ASSUME NEW v \in Visits, Brings(v)'
      PROVE  /\ Untouched(visit[v].secret)'
             /\ \A o \in Owners, s \in Secret : Holds(o, s)' => s.id # visit'[v].secret.id
             /\ \A w \in Visits : Brings(w)' /\ visit'[w].secret.id = visit'[v].secret.id => w = v
  <2>1. CASE Brings(v) /\ visit'[v].secret = visit[v].secret
    <3> DEFINE x == visit[v].secret
    <3>1. /\ Untouched(x) /\ \A o \in Owners, s \in Secret : Holds(o, s) => s.id # x.id
          /\ \A w \in Visits : Brings(w) /\ visit[w].secret.id = x.id => w = v
      BY <2>1 DEF OneOwner
    <3>2. x.id \in DOMAIN issued' /\ issued'[x.id].gen = issued[x.id].gen
      BY <3>1 DEF Untouched
    <3>3. Untouched(visit[v].secret)'
      BY <2>1, <3>1, <3>2 DEF Untouched
    <3>4. \A o \in Owners, s \in Secret : Holds(o, s)' => s.id # x.id
      BY <1>1, <3>1 DEF Untouched
    <3>5. ASSUME NEW w \in Visits, Brings(w)', visit'[w].secret.id = x.id
          PROVE  w = v
      <4>1. x.id \in DOMAIN issued
        BY <3>1 DEF Untouched
      <4> QED  BY <3>1, <3>5, <4>1
    <3> HIDE DEF x
    <3> QED  BY <2>1, <3>3, <3>4, <3>5 DEF x
  <2>2. CASE /\ Untouched(visit[v].secret)' /\ visit'[v].secret.id \notin DOMAIN issued
             /\ \A w \in Visits : w # v => visit'[w] = visit[w]
    <3>1. \A o \in Owners, s \in Secret : Holds(o, s)' => s.id # visit'[v].secret.id
      BY <1>1, <1>2, <2>2 DEF Untouched
    <3>2. ASSUME NEW w \in Visits, Brings(w)', visit'[w].secret.id = visit'[v].secret.id, w # v
          PROVE  FALSE
      <4>1. Brings(w) /\ visit'[w] = visit[w]
        BY <2>2, <3>2 DEF Brings
      <4>2. visit[w].secret.id \in DOMAIN issued
        BY <4>1 DEF OneOwner, Untouched
      <4> QED  BY <2>2, <3>2, <4>1, <4>2
    <3> QED  BY <2>2, <3>1, <3>2
  <2> QED  BY <1>5, <2>1, <2>2
<1> QED  BY <1>3, <1>4, <1>5 DEF OneOwner

\* Where no generation is made, what could be come by still can.
LEMMA StillFresh ==
    ASSUME GatewayInv, GatewayInv', OneOwner, FreshInv,
           \A o \in Owners, s \in Secret : Holds(o, s)' => s.id = 0 \/ Holds(o, s),
           \A id \in DOMAIN issued : id \in DOMAIN issued' /\ issued'[id].gen = issued[id].gen,
           \A o \in Owners : newest'[o] = newest[o] \/ newest[o].id = 0 \/ newest[o].id \in unkept',
           unkept \subseteq unkept'
    PROVE  \A o \in Owners, s \in Secret : Holds(o, s)' => Fresh(o, s)'
<1> SUFFICES ASSUME NEW o \in Owners, NEW s \in Secret, Holds(o, s)',
                    s.id \in DOMAIN issued', s.id \notin unkept'
             PROVE  \/ s.gen = issued'[s.id].gen
                    \/ newest'[o].id = s.id /\ newest'[o].gen = issued'[s.id].gen
  BY DEF Fresh
<1>1. s.id # 0
  BY NoZero DEF GatewayInv, GatewayTypes
<1>2. Holds(o, s) /\ s.id \in DOMAIN issued
  BY <1>1 DEF OneOwner, Real
<1>3. \/ s.gen = issued[s.id].gen
      \/ newest[o].id = s.id /\ newest[o].gen = issued[s.id].gen
  BY <1>2 DEF FreshInv, Fresh
<1> QED  BY <1>1, <1>2, <1>3

\* Rows, memory and calls that take what is held already.
Taken ==
    /\ \A o \in Owners : Holds(o, stored'[o].secret) \/ stored'[o].secret = NoSecret
    /\ \A o \in Owners : Holds(o, newest'[o]) \/ newest'[o] = NoSecret
    /\ \A c \in AgentCalls : LET r == agentCall'[c]
                             IN r = NoAgent \/ (Holds(r.owner, r.granted) /\ Holds(r.owner, r.secret))

LEMMA HoldsAfter ==
    ASSUME Taken
    PROVE  \A o \in Owners, s \in Secret : Holds(o, s)' => s = NoSecret \/ Holds(o, s)
<1> SUFFICES ASSUME NEW o \in Owners, NEW s \in Secret, Holds(o, s)', s # NoSecret
             PROVE  Holds(o, s)
  OBVIOUS
<1>1. CASE s = stored'[o].secret
  BY <1>1 DEF Taken
<1>2. CASE s = newest'[o]
  BY <1>2 DEF Taken
<1>3. ASSUME NEW c \in AgentCalls, agentCall'[c].owner = o,
             s = agentCall'[c].granted \/ s = agentCall'[c].secret
      PROVE  Holds(o, s)
  <2>1. NoAgent.granted = NoSecret /\ NoAgent.secret = NoSecret
    BY DEF NoAgent
  <2> QED  BY <1>3, <2>1 DEF Taken
<1> QED  BY <1>1, <1>2, <1>3 DEF Holds

\* What is there is held.
LEMMA Held ==
    /\ \A o \in Owners : Holds(o, stored[o].secret) /\ Holds(o, newest[o])
    /\ \A c \in AgentCalls : /\ Holds(agentCall[c].owner, agentCall[c].granted)
                             /\ Holds(agentCall[c].owner, agentCall[c].secret)
BY DEF Holds

\* A step of a call that makes no generation.
LEMMA CallHandsOn ==
    ASSUME GatewayInv, NEW c \in AgentCalls, NEW r \in Agent, agentCall' = [agentCall EXCEPT ![c] = r],
           r = NoAgent \/ (Holds(r.owner, r.granted) /\ Holds(r.owner, r.secret)),
           UNCHANGED newest,
           \/ UNCHANGED stored
           \/ \E x : /\ stored' = [stored EXCEPT ![agentCall[c].owner] = x]
                     /\ x.secret \in {agentCall[c].secret, stored[agentCall[c].owner].secret}
    PROVE  Taken
<1>1. /\ stored \in [Owners -> Credential] /\ agentCall \in [AgentCalls -> Agent]
      /\ agentCall[c].owner \in Owners
  BY DEF GatewayInv, GatewayTypes, Agent
<1>2. \A o \in Owners : Holds(o, stored'[o].secret)
  <2>1. CASE UNCHANGED stored
    BY <2>1, Held
  <2>2. ASSUME NEW x, stored' = [stored EXCEPT ![agentCall[c].owner] = x],
               x.secret \in {agentCall[c].secret, stored[agentCall[c].owner].secret}
        PROVE  \A o \in Owners : Holds(o, stored'[o].secret)
    <3>1. Holds(agentCall[c].owner, x.secret)
      BY <1>1, <2>2, Held
    <3>2. stored'[agentCall[c].owner] = x
      BY <1>1, <2>2
    <3>3. \A o \in Owners : o # agentCall[c].owner => stored'[o] = stored[o]
      BY <1>1, <2>2
    <3> QED  BY <3>1, <3>2, <3>3, Held
  <2> QED  BY <2>1, <2>2
<1>3. \A o \in Owners : Holds(o, newest'[o])
  BY Held
<1>4. \A d \in AgentCalls :
        agentCall'[d] = NoAgent
          \/ (Holds(agentCall'[d].owner, agentCall'[d].granted) /\ Holds(agentCall'[d].owner, agentCall'[d].secret))
  <2>1. agentCall'[c] = r /\ \A d \in AgentCalls : d # c => agentCall'[d] = agentCall[d]
    BY <1>1
  <2> QED  BY <2>1, Held
<1> QED  BY <1>2, <1>3, <1>4 DEF Taken

\* The invariants survive what hands secrets on without a generation or a sign-in more.
LEMMA Carried ==
    ASSUME GatewayInv, GatewayInv', OneOwner, FreshInv, Taken,
           \A id \in DOMAIN issued : id \in DOMAIN issued' /\ issued'[id].gen = issued[id].gen,
           \A o \in Owners : newest'[o] = newest[o] \/ newest[o].id = 0 \/ newest[o].id \in unkept',
           unkept \subseteq unkept',
           \A v \in Visits : Brings(v)' =>
             \/ Brings(v) /\ visit'[v].secret = visit[v].secret
             \/ /\ Untouched(visit[v].secret)' /\ visit'[v].secret.id \notin DOMAIN issued
                /\ \A w \in Visits : w # v => visit'[w] = visit[w]
    PROVE  OneOwner' /\ \A o \in Owners, s \in Secret : Holds(o, s)' => Fresh(o, s)'
<1>1. \A o \in Owners, s \in Secret : Holds(o, s)' => s = NoSecret \/ Holds(o, s)
  BY HoldsAfter
<1>2. NoSecret.kind = "none" /\ NoSecret.id = 0
  BY DEF NoSecret
<1>3. \A o \in Owners, s \in Secret : Holds(o, s)' =>
          \/ s.kind = "none" /\ s.id = 0
          \/ \E t \in Secret : Holds(o, t) /\ t.id = s.id /\ t.kind = s.kind
  BY <1>1, <1>2
<1>4. \A o \in Owners, s \in Secret : Holds(o, s)' => s.id = 0 \/ Holds(o, s)
  BY <1>1, <1>2
<1>5. OneOwner'
  BY <1>3, HandedOn
<1>6. \A o \in Owners, s \in Secret : Holds(o, s)' => Fresh(o, s)'
  BY <1>4, StillFresh
<1> QED  BY <1>5, <1>6

\* Calls at the provider have the last generation.
AsksFresh(c) ==
    agentCall[c].at = "provider" =>
        LET s == agentCall[c].secret
        IN s.id \in DOMAIN issued /\ (s.id \in unkept \/ issued[s.id].gen <= s.gen)

\* The calls that are not at the provider, and those that stay there.
LEMMA StillAsks ==
    ASSUME GatewayInv, FreshInv, NEW c \in AgentCalls,
           agentCall'[c].at # "provider" \/ agentCall'[c] = agentCall[c],
           \A id \in DOMAIN issued : id \in DOMAIN issued' /\ issued'[id].gen = issued[id].gen,
           unkept \subseteq unkept'
    PROVE  AsksFresh(c)'
BY DEF FreshInv, AsksFresh

\* The steps of a call at one generation.
LEMMA CallKeepsFresh ==
    ASSUME GatewayInv, GatewayInv', OneOwner, FreshInv, NEW c \in AgentCalls, NEW r \in Agent,
           agentCall' = [agentCall EXCEPT ![c] = r],
           r = NoAgent \/ (Holds(r.owner, r.granted) /\ Holds(r.owner, r.secret)),
           UNCHANGED <<newest, visit, unkept>>,
           UNCHANGED issued,
           \/ UNCHANGED stored
           \/ \E x : /\ stored' = [stored EXCEPT ![agentCall[c].owner] = x]
                     /\ x.secret \in {agentCall[c].secret, stored[agentCall[c].owner].secret},
           r.at # "provider" \/ AsksFresh(c)',
           reused' \subseteq unkept
    PROVE  OneOwner' /\ FreshInv'
<1>1. Taken
  BY CallHandsOn
<1>2. \A v \in Visits : Brings(v)' => Brings(v) /\ visit'[v].secret = visit[v].secret
  BY DEF Brings
<1>3. OneOwner' /\ \A o \in Owners, s \in Secret : Holds(o, s)' => Fresh(o, s)'
  BY <1>1, <1>2, Carried
<1>4. agentCall'[c] = r /\ \A d \in AgentCalls : d # c => agentCall'[d] = agentCall[d]
  BY DEF GatewayInv, GatewayTypes
<1>5. \A d \in AgentCalls : AsksFresh(d)'
  BY <1>4, StillAsks
<1> QED  BY <1>3, <1>5 DEF FreshInv, AsksFresh

LEMMA GrantFresh ==
    ASSUME GatewayInv, GatewayInv', OneOwner, FreshInv, NEW c \in AgentCalls, Grant(c)
    PROVE  OneOwner' /\ FreshInv'
<1>1. UNCHANGED <<stored, issued, newest, visit, unkept, reused>>
  BY DEF Grant, gateMemory, gateHistory
<1>2. reused' \subseteq unkept
  BY <1>1 DEF FreshInv
<1> DEFINE o == OwnerUnder(registry.model)
           at == IF stored[o].secret.kind = "oauth" THEN "headers" ELSE "send"
           r == [NoAgent EXCEPT !.owner = o, !.method = registry.method, !.at = at,
                                !.granted = stored[o].secret, !.secret = stored[o].secret]
<1>3. ASSUME agentCall' = [agentCall EXCEPT ![c] = r]
      PROVE  OneOwner' /\ FreshInv'
  <2>1. o \in Owners /\ stored[o].secret \in Secret /\ registry.method \in Kinds
    BY UnderIsOwner DEF GatewayInv, GatewayTypes, Credential
  <2>2. at \in {"headers", "send"}
    OBVIOUS
  <2> HIDE DEF at, o
  <2>3. /\ r \in Agent /\ r.at = at /\ r.secret = stored[o].secret
        /\ r.granted = stored[o].secret /\ r.owner = o
    BY <2>1, <2>2 DEF NoAgent, Agent, AgentAt
  <2> HIDE DEF r
  <2>4. Holds(r.owner, r.granted) /\ Holds(r.owner, r.secret) /\ r.at # "provider"
    BY <2>1, <2>2, <2>3, Held
  <2> QED  BY <1>1, <1>2, <1>3, <2>3, <2>4, CallKeepsFresh
<1>4. ASSUME UNCHANGED agentCall
      PROVE  OneOwner' /\ FreshInv'
  <2>1. agentCall' = [agentCall EXCEPT ![c] = agentCall[c]] /\ agentCall[c] \in Agent
    BY <1>4 DEF GatewayInv, GatewayTypes
  <2>2. Holds(agentCall[c].owner, agentCall[c].granted) /\ Holds(agentCall[c].owner, agentCall[c].secret)
    BY Held
  <2>3. agentCall[c].at # "provider"
    BY DEF Grant, CallAt
  <2> QED  BY <1>1, <1>2, <2>1, <2>2, <2>3, CallKeepsFresh
<1>5. UNCHANGED agentCall \/ agentCall' = [agentCall EXCEPT ![c] = r]
  BY DEF Grant
<1> HIDE DEF r
<1> QED  BY <1>3, <1>4, <1>5

\* What `freshest` picks of an owner's sign-in is its last generation.
LEMMA FreshestIsLast ==
    ASSUME GatewayInv, OneOwner, FreshInv, NEW o \in Owners, NEW s \in Secret,
           Holds(o, s), s.kind = "oauth"
    PROVE  LET t == Freshest(o, s)
           IN t.id \in DOMAIN issued /\ (t.id \in unkept \/ issued[t.id].gen <= t.gen)
<1>1. newest[o] \in Secret /\ Holds(o, newest[o]) /\ s.id \in DOMAIN issued
  BY Held DEF GatewayInv, GatewayTypes, OneOwner, Real
<1>2. 0 \notin DOMAIN issued /\ \A id \in DOMAIN issued : issued[id].gen \in Nat
  BY Numbers
<1>3. s.gen \in Nat /\ newest[o].gen \in Nat
  BY <1>1 DEF Secret
<1>4. CASE newest[o].kind = "oauth" /\ newest[o].gen > s.gen
  <2>1. Freshest(o, s) = newest[o] /\ newest[o].id \in DOMAIN issued
    BY <1>1, <1>4 DEF Freshest, OneOwner, Real
  <2>2. newest[o].id \in unkept \/ newest[o].gen = issued[newest[o].id].gen
    BY <1>1, <2>1 DEF FreshInv, Fresh
  <2> QED  BY <1>2, <1>3, <2>1, <2>2
<1>5. CASE ~(newest[o].kind = "oauth" /\ newest[o].gen > s.gen)
  <2>1. Freshest(o, s) = s
    BY <1>5 DEF Freshest
  <2>2. \/ s.id \in unkept \/ s.gen = issued[s.id].gen
        \/ newest[o].id = s.id /\ newest[o].gen = issued[s.id].gen
    BY <1>1 DEF FreshInv, Fresh
  <2>3. newest[o].id = s.id => newest[o].kind = "oauth"
    BY <1>1, <1>2 DEF GatewayInv, Shapes
  <2> QED  BY <1>1, <1>2, <1>3, <1>5, <2>1, <2>2, <2>3
<1> QED  BY <1>4, <1>5

LEMMA HeadersFresh ==
    ASSUME GatewayInv, GatewayInv', OneOwner, FreshInv, NEW c \in AgentCalls, Headers(c)
    PROVE  OneOwner' /\ FreshInv'
<1>1. UNCHANGED <<stored, issued, newest, visit, unkept>> /\ reused' \subseteq unkept
  BY DEF Headers, gateHistory, FreshInv
<1> DEFINE o == agentCall[c].owner
           s == Freshest(o, agentCall[c].granted)
           r == [agentCall[c] EXCEPT !.secret = s, !.at = "provider"]
<1>2. agentCall[c] \in Agent /\ agentCall[c].granted.kind = "oauth"
  BY DEF GatewayInv, GatewayTypes, Shapes, CallShape, Headers, CallAt
<1>3. o \in Owners /\ agentCall[c].granted \in Secret
  BY <1>2 DEF Agent
<1>4. Holds(o, agentCall[c].granted) /\ Holds(o, newest[o])
  BY <1>3, Held
<1>5. s \in Secret /\ Holds(o, s) /\ s.kind = "oauth"
  <2>1. s \in Secret /\ s \in {agentCall[c].granted, newest[o]}
    BY <1>3, FreshestType DEF GatewayInv, GatewayTypes
  <2>2. s.kind = "oauth"
    BY <1>2 DEF Freshest
  <2> QED  BY <1>4, <2>1, <2>2
<1>6. s.id \in DOMAIN issued /\ (s.id \in unkept \/ issued[s.id].gen <= s.gen)
  BY <1>2, <1>3, <1>4, FreshestIsLast
<1>7. Use(c, s) \/ agentCall' = [agentCall EXCEPT ![c] = r]
  BY DEF Headers
<1> HIDE DEF s
<1>8. CASE Use(c, s)
  <2>1. PICK q \in Agent :
          /\ agentCall' = [agentCall EXCEPT ![c] = q]
          /\ CallShape(q) /\ q.at # "provider"
          /\ q.owner = agentCall[c].owner /\ q.granted = agentCall[c].granted /\ q.secret = s
    BY <1>2, <1>5, <1>8, UseType
  <2>2. Holds(q.owner, q.granted) /\ Holds(q.owner, q.secret)
    BY <1>4, <1>5, <2>1
  <2> QED  BY <1>1, <2>1, <2>2, CallKeepsFresh
<1>9. CASE agentCall' = [agentCall EXCEPT ![c] = r]
  <2>1. r \in Agent /\ r.at = "provider" /\ r.owner = o /\ r.secret = s /\ r.granted = agentCall[c].granted
    BY <1>2, <1>5 DEF Agent, AgentAt
  <2> HIDE DEF r
  <2>2. Holds(r.owner, r.granted) /\ Holds(r.owner, r.secret)
    BY <1>4, <1>5, <2>1
  <2>3. agentCall'[c] = r
    BY <1>9 DEF GatewayInv, GatewayTypes
  <2>4. AsksFresh(c)'
    BY <1>1, <1>6, <2>1, <2>3 DEF AsksFresh
  <2> QED  BY <1>1, <1>9, <2>1, <2>2, <2>4, CallKeepsFresh
<1> QED  BY <1>7, <1>8, <1>9

\* A call's other steps make no generation but for an answer lost on its way.
LEMMA CallOnFresh ==
    ASSUME GatewayInv, GatewayInv', OneOwner, FreshInv, NEW c \in AgentCalls,
           RefreshRefused(c) \/ RefreshLost(c) \/ Keep(c) \/ Send(c) \/ MarkRefused(c) \/ CancelCall(c),
           UNCHANGED <<issued, unkept>>
    PROVE  OneOwner' /\ FreshInv'
<1>1. CallOn(c) /\ UNCHANGED <<newest, visit>>
  BY CallOnSteps
<1>2. PICK q \in Agent :
        /\ agentCall' = [agentCall EXCEPT ![c] = q] /\ CallShape(q) /\ q.at # "provider"
        /\ \/ q = NoAgent
           \/ /\ q.owner = agentCall[c].owner /\ q.granted = agentCall[c].granted
              /\ q.secret = agentCall[c].secret
  BY <1>1, CallOnType
<1>3. q = NoAgent \/ (Holds(q.owner, q.granted) /\ Holds(q.owner, q.secret))
  BY <1>2, Held
<1>4. \/ UNCHANGED stored
      \/ \E x : /\ stored' = [stored EXCEPT ![agentCall[c].owner] = x]
                /\ x.secret \in {agentCall[c].secret, stored[agentCall[c].owner].secret}
  <2>1. CASE Keep(c)
    <3> DEFINE x == [secret |-> agentCall[c].secret, status |-> "connected"]
    <3>1. x.secret = agentCall[c].secret
      OBVIOUS
    <3>2. UNCHANGED stored \/ stored' = [stored EXCEPT ![agentCall[c].owner] = x]
      BY <2>1 DEF Keep
    <3> HIDE DEF x
    <3> QED  BY <3>1, <3>2
  <2>2. CASE MarkRefused(c)
    <3> DEFINE x == [stored[agentCall[c].owner] EXCEPT !.status = "needs_reconnecting"]
    <3>1. x.secret = stored[agentCall[c].owner].secret
      <4>1. stored[agentCall[c].owner] \in Credential
        BY DEF GatewayInv, GatewayTypes, Agent
      <4> QED  BY <4>1 DEF Credential
    <3>2. UNCHANGED stored \/ stored' = [stored EXCEPT ![agentCall[c].owner] = x]
      BY <2>2 DEF MarkRefused
    <3> HIDE DEF x
    <3> QED  BY <3>1, <3>2
  <2> QED  BY <2>1, <2>2 DEF RefreshRefused, RefreshLost, Send, CancelCall
<1>5. reused' \subseteq unkept
  <2>1. CASE RefreshRefused(c)
    <3> DEFINE s == agentCall[c].secret
    <3>1. agentCall[c] \in Agent /\ s.gen \in Nat
      BY DEF GatewayInv, GatewayTypes, Agent, Secret
    <3>2. s.id \in DOMAIN issued /\ (s.id \in unkept \/ issued[s.id].gen <= s.gen)
      BY <2>1 DEF RefreshRefused, CallAt, FreshInv
    <3>3. issued[s.id].gen \in Nat
      BY <3>2, Numbers
    <3>4. reused' = reused \/ (reused' = reused \union {s.id} /\ s.gen < issued[s.id].gen)
      BY <2>1 DEF RefreshRefused
    <3> HIDE DEF s
    <3>5. CASE reused' = reused
      BY <3>5 DEF FreshInv
    <3>6. CASE reused' = reused \union {s.id} /\ s.gen < issued[s.id].gen
      <4>1. s.id \in unkept
        BY <3>1, <3>2, <3>3, <3>6
      <4> QED  BY <3>6, <4>1 DEF FreshInv
    <3> QED  BY <3>4, <3>5, <3>6
  <2>2. CASE UNCHANGED reused
    BY <2>2 DEF FreshInv
  <2> QED  BY <2>1, <2>2 DEF RefreshLost, Keep, Send, MarkRefused, CancelCall, gateHistory
<1> QED  BY <1>1, <1>2, <1>3, <1>4, <1>5, CallKeepsFresh

\* A call that a generation is made for: nobody but its sign-in's owner holds that sign-in,
\* and nobody else is asking for them.
LEMMA OnlyAsker ==
    ASSUME GatewayInv, OneOwner, FreshInv, NEW c \in AgentCalls, CallAt(c, "provider")
    PROVE  LET s == agentCall[c].secret
               o == agentCall[c].owner
           IN /\ s \in Secret /\ s.id \in DOMAIN issued /\ s.id # 0 /\ s.kind = "oauth" /\ o \in Owners
              /\ \A p \in Owners, t \in Secret : Holds(p, t) /\ t.id = s.id => p = o
              /\ \A d \in AgentCalls : d # c /\ agentCall[d].at = "provider" =>
                   agentCall[d].owner # o /\ agentCall[d].secret.id # s.id
<1> DEFINE s == agentCall[c].secret
           o == agentCall[c].owner
<1>1. agentCall[c] \in Agent /\ agentCall[c].at = "provider"
  BY DEF GatewayInv, GatewayTypes, CallAt
<1>2. s \in Secret /\ o \in Owners /\ Holds(o, s)
  BY <1>1, Held DEF Agent
<1>3. s.id \in DOMAIN issued /\ s.id # 0 /\ s.kind = "oauth"
  BY <1>1, Numbers DEF FreshInv, GatewayInv, Shapes, CallShape
<1>4. \A p \in Owners, t \in Secret : Holds(p, t) /\ t.id = s.id => p = o
  BY <1>2, <1>3, SameOwner
<1>5. ASSUME NEW d \in AgentCalls, d # c, agentCall[d].at = "provider"
      PROVE  agentCall[d].owner # o /\ agentCall[d].secret.id # s.id
  <2>1. agentCall[d].secret \in Secret /\ agentCall[d].owner \in Owners
    BY DEF GatewayInv, GatewayTypes, Agent
  <2>2. agentCall[d].owner # o
    BY <1>1, <1>2, <1>5, <2>1 DEF GatewayInv, Locking
  <2>3. Holds(agentCall[d].owner, agentCall[d].secret)
    BY Held
  <2> QED  BY <1>4, <2>1, <2>2, <2>3
<1> QED  BY <1>2, <1>3, <1>4, <1>5

LEMMA RefreshFresh ==
    ASSUME GatewayInv, GatewayInv', OneOwner, FreshInv, NEW c \in AgentCalls, Refresh(c)
    PROVE  OneOwner' /\ FreshInv'
<1> DEFINE o == agentCall[c].owner
           s == agentCall[c].secret
           n == [s EXCEPT !.gen = @ + 1]
<1>1. /\ s \in Secret /\ s.id \in DOMAIN issued /\ s.id # 0 /\ s.kind = "oauth" /\ o \in Owners
      /\ \A p \in Owners, t \in Secret : Holds(p, t) /\ t.id = s.id => p = o
      /\ \A d \in AgentCalls : d # c /\ agentCall[d].at = "provider" =>
           agentCall[d].owner # o /\ agentCall[d].secret.id # s.id
  BY OnlyAsker DEF Refresh
<1>2. n \in Secret /\ n.id = s.id /\ n.kind = s.kind /\ n.gen = s.gen + 1
  BY <1>1 DEF Secret
<1>3. /\ issued' = Rotated(s) /\ s.gen = issued[s.id].gen /\ newest' = Remembered(o, n) /\ Use(c, n)
      /\ unkept' = unkept \union ({newest[o].id} \ {0, n.id})
      /\ UNCHANGED <<stored, visit, reused>>
  BY DEF Refresh, Refreshes
<1>4. agentCall[c].granted.kind = "oauth" /\ Holds(o, s) /\ Holds(o, agentCall[c].granted)
  BY Held DEF GatewayInv, Shapes, CallShape, Refresh, CallAt
<1> HIDE DEF n, s
<1>5. PICK q \in Agent : /\ agentCall' = [agentCall EXCEPT ![c] = q] /\ q.at # "provider"
                         /\ q.owner = o /\ q.granted = agentCall[c].granted /\ q.secret = n
  BY <1>1, <1>2, <1>3, <1>4, UseType
<1>6. agentCall'[c] = q /\ \A d \in AgentCalls : d # c => agentCall'[d] = agentCall[d]
  BY <1>5 DEF GatewayInv, GatewayTypes
<1>7. newest'[o] = n /\ \A p \in Owners : p # o => newest'[p] = newest[p]
  BY <1>1, <1>3 DEF Remembered, GatewayInv, GatewayTypes
<1>8. /\ DOMAIN issued' = DOMAIN issued
      /\ \A id \in DOMAIN issued : issued'[id].gen = IF id = s.id THEN issued[id].gen + 1 ELSE issued[id].gen
  BY <1>1, <1>3, RotatedOnly DEF GatewayInv, GatewayTypes
<1>9. ASSUME NEW p \in Owners, NEW t \in Secret, Holds(p, t)'
      PROVE  Holds(p, t) \/ (p = o /\ t = n)
  <2>1. CASE t = stored'[p].secret
    BY <1>3, <2>1 DEF Holds
  <2>2. CASE t = newest'[p]
    BY <1>7, <2>2 DEF Holds
  <2>3. ASSUME NEW d \in AgentCalls, agentCall'[d].owner = p,
               t = agentCall'[d].granted \/ t = agentCall'[d].secret
        PROVE  Holds(p, t) \/ (p = o /\ t = n)
    <3>1. CASE d = c
      BY <1>4, <1>5, <1>6, <2>3, <3>1
    <3>2. CASE d # c
      BY <1>6, <2>3, <3>2 DEF Holds
    <3> QED  BY <3>1, <3>2
  <2> QED  BY <1>9, <2>1, <2>2, <2>3 DEF Holds
<1>10. OneOwner'
  <2>1. \A p \in Owners, t \in Secret : Holds(p, t)' =>
          \/ t.kind = "none" /\ t.id = 0
          \/ \E x \in Secret : Holds(p, x) /\ x.id = t.id /\ x.kind = t.kind
    BY <1>1, <1>2, <1>4, <1>9
  <2>2. \A id \in DOMAIN issued :
          /\ id \in DOMAIN issued'
          /\ \/ issued'[id].gen = issued[id].gen
             \/ \E p \in Owners, t \in Secret : Holds(p, t) /\ t.id = id
    BY <1>1, <1>4, <1>8
  <2>3. \A v \in Visits : Brings(v)' => Brings(v) /\ visit'[v].secret = visit[v].secret
    BY <1>3 DEF Brings
  <2> QED  BY <2>1, <2>2, <2>3, HandedOn
<1>11. ASSUME NEW p \in Owners, NEW t \in Secret, Holds(p, t)', t.id \in DOMAIN issued, t.id \notin unkept'
       PROVE  \/ t.gen = issued'[t.id].gen
              \/ newest'[p].id = t.id /\ newest'[p].gen = issued'[t.id].gen
  <2>1. CASE t.id = s.id
    <3>1. p = o
      BY <1>1, <1>9, <1>11, <2>1
    <3> QED  BY <1>1, <1>2, <1>3, <1>7, <1>8, <2>1, <3>1
  <2>2. CASE t.id # s.id
    <3>1. Holds(p, t) /\ issued'[t.id].gen = issued[t.id].gen /\ t.id \notin unkept
      BY <1>2, <1>3, <1>8, <1>9, <1>11, <2>2
    <3>2. \/ t.gen = issued[t.id].gen
          \/ newest[p].id = t.id /\ newest[p].gen = issued[t.id].gen
      BY <1>11, <3>1 DEF FreshInv, Fresh
    <3>3. t.id # 0
      BY <1>11, Numbers
    <3>4. p = o => newest[p].id # t.id
      BY <1>2, <1>3, <1>11, <2>2, <3>3
    <3> QED  BY <1>7, <3>1, <3>2, <3>4
  <2> QED  BY <2>1, <2>2
<1>12. \A d \in AgentCalls : AsksFresh(d)'
  BY <1>1, <1>3, <1>5, <1>6, <1>8 DEF FreshInv, AsksFresh, s
<1>13. reused' \subseteq unkept'
  BY <1>3 DEF FreshInv
<1>14. \A p \in Owners, t \in Secret : Holds(p, t)' => Fresh(p, t)'
  BY <1>8, <1>11 DEF Fresh
<1> QED  BY <1>10, <1>12, <1>13, <1>14 DEF FreshInv, AsksFresh

LEMMA LostFresh ==
    ASSUME GatewayInv, GatewayInv', OneOwner, FreshInv, NEW c \in AgentCalls, RefreshLost(c)
    PROVE  OneOwner' /\ FreshInv'
<1> DEFINE s == agentCall[c].secret
<1>1. /\ s \in Secret /\ s.id \in DOMAIN issued /\ s.id # 0 /\ s.kind = "oauth"
  BY OnlyAsker DEF RefreshLost
<1>2. UNCHANGED <<issued, unkept>> \/ (issued' = Rotated(s) /\ unkept' = unkept \union {s.id})
  BY DEF RefreshLost
<1>3. CASE UNCHANGED <<issued, unkept>>
  BY <1>3, CallOnFresh
<1>4. CASE issued' = Rotated(s) /\ unkept' = unkept \union {s.id}
  <2>1. /\ UNCHANGED <<stored, newest, visit, reused>>
        /\ agentCall' = [agentCall EXCEPT ![c] = NoAgent]
    BY DEF RefreshLost, Ends
  <2>2. Taken
    BY <2>1, Blanks, CallHandsOn
  <2>3. \A p \in Owners, t \in Secret : Holds(p, t)' => t = NoSecret \/ Holds(p, t)
    BY <2>2, HoldsAfter
  <2>4. NoSecret.kind = "none" /\ NoSecret.id = 0
    BY DEF NoSecret
  <2>5. Holds(agentCall[c].owner, s) /\ agentCall[c].owner \in Owners
    BY Held DEF GatewayInv, GatewayTypes, Agent
  <2>6. /\ DOMAIN issued' = DOMAIN issued
        /\ \A id \in DOMAIN issued : id # s.id => issued'[id].gen = issued[id].gen
    BY <1>1, <1>4, RotatedOnly DEF GatewayInv, GatewayTypes
  <2> HIDE DEF s
  <2>7. OneOwner'
    <3>1. \A p \in Owners, t \in Secret : Holds(p, t)' =>
            \/ t.kind = "none" /\ t.id = 0
            \/ \E x \in Secret : Holds(p, x) /\ x.id = t.id /\ x.kind = t.kind
      BY <2>3, <2>4
    <3>2. \A id \in DOMAIN issued :
            /\ id \in DOMAIN issued'
            /\ \/ issued'[id].gen = issued[id].gen
               \/ \E p \in Owners, t \in Secret : Holds(p, t) /\ t.id = id
      BY <1>1, <2>5, <2>6
    <3>3. \A v \in Visits : Brings(v)' => Brings(v) /\ visit'[v].secret = visit[v].secret
      BY <2>1 DEF Brings
    <3> QED  BY <3>1, <3>2, <3>3, HandedOn
  <2>8. ASSUME NEW p \in Owners, NEW t \in Secret, Holds(p, t)', t.id \in DOMAIN issued, t.id \notin unkept'
        PROVE  \/ t.gen = issued'[t.id].gen
               \/ newest'[p].id = t.id /\ newest'[p].gen = issued'[t.id].gen
    <3>1. t.id # s.id /\ t.id \notin unkept /\ t.id # 0
      BY <1>4, <2>8, Numbers
    <3>2. Holds(p, t)
      BY <2>3, <2>4, <2>8, <3>1
    <3> QED  BY <2>1, <2>6, <2>8, <3>1, <3>2 DEF FreshInv, Fresh
  <2>9. agentCall'[c].at # "provider" /\ \A d \in AgentCalls : d # c => agentCall'[d] = agentCall[d]
    BY <2>1 DEF GatewayInv, GatewayTypes, NoAgent
  <2>10. \A d \in AgentCalls : AsksFresh(d)'
    BY <1>4, <2>6, <2>9 DEF FreshInv, AsksFresh
  <2>11. \A p \in Owners, t \in Secret : Holds(p, t)' => Fresh(p, t)'
    BY <2>6, <2>8 DEF Fresh
  <2> QED  BY <1>4, <2>1, <2>7, <2>10, <2>11 DEF FreshInv, AsksFresh
<1> QED  BY <1>2, <1>3, <1>4

LEMMA AgentStepFresh ==
    ASSUME GatewayInv, GatewayInv', OneOwner, FreshInv, NEW c \in AgentCalls, AgentStep(c)
    PROVE  OneOwner' /\ FreshInv'
<1>1. Keep(c) \/ Send(c) \/ MarkRefused(c) \/ CancelCall(c) \/ RefreshRefused(c) => UNCHANGED <<issued, unkept>>
  BY DEF Keep, Send, MarkRefused, CancelCall, RefreshRefused, gateHistory
<1> QED  BY <1>1, GrantFresh, HeadersFresh, CallOnFresh, RefreshFresh, LostFresh DEF AgentStep

\* Steps that leave the calls alone, or end them.
LEMMA AsideFresh ==
    ASSUME GatewayInv, GatewayInv', OneOwner, FreshInv,
           UNCHANGED agentCall, UNCHANGED reused,
           \A o \in Owners : stored'[o] = stored[o] \/ stored'[o] = NoCredential,
           \A o \in Owners : \/ newest'[o] = newest[o]
                             \/ newest'[o] = NoSecret /\ newest[o].id \in unkept' \union {0},
           \A id \in DOMAIN issued : id \in DOMAIN issued' /\ issued'[id].gen = issued[id].gen,
           unkept \subseteq unkept',
           \A v \in Visits : Brings(v)' =>
             \/ Brings(v) /\ visit'[v].secret = visit[v].secret
             \/ /\ Untouched(visit[v].secret)' /\ visit'[v].secret.id \notin DOMAIN issued
                /\ \A w \in Visits : w # v => visit'[w] = visit[w]
    PROVE  OneOwner' /\ FreshInv'
<1>1. NoCredential.secret = NoSecret
  BY DEF NoCredential
<1>2. Taken
  BY <1>1, Held DEF Taken
<1>3. OneOwner' /\ \A o \in Owners, s \in Secret : Holds(o, s)' => Fresh(o, s)'
  BY <1>2, Carried
<1>4. \A c \in AgentCalls : AsksFresh(c)'
  BY StillAsks
<1> QED  BY <1>3, <1>4 DEF FreshInv, AsksFresh

LEMMA ForgottenAll ==
    ASSUME GatewayInv, NEW p \in Owners, Forgotten(p)
    PROVE  /\ unkept \subseteq unkept'
           /\ \A o \in Owners : \/ newest'[o] = newest[o]
                                \/ newest'[o] = NoSecret /\ newest[o].id \in unkept' \union {0}
BY DEF Forgotten, GatewayInv, GatewayTypes

LEMMA ConnectFresh ==
    ASSUME GatewayInv, GatewayInv', OneOwner, FreshInv, NEW v \in Visits, Connect(v)
    PROVE  OneOwner' /\ FreshInv'
<1> DEFINE s == [kind |-> "token", id |-> Len(issued) + 1, gen |-> 0]
           r == [NoVisit EXCEPT !.at = "check", !.owner = OwnerUnder(registry.model), !.secret = s]
<1>1. UNCHANGED <<stored, newest, agentCall, unkept, reused>> /\ issued' = Append(issued, NewSecret)
  BY DEF Connect, gateMemory, gateHistory
<1>2. /\ DOMAIN issued' = DOMAIN issued \union {Len(issued) + 1} /\ Len(issued) + 1 \notin DOMAIN issued
      /\ \A id \in DOMAIN issued : issued'[id] = issued[id]
      /\ issued'[Len(issued) + 1].gen = 0
  BY <1>1, IssuedOne DEF GatewayInv, GatewayTypes
<1>3. r.secret = s
  BY DEF NoVisit
<1>4. visit'[v] = r /\ \A w \in Visits : w # v => visit'[w] = visit[w]
  BY DEF Connect, Visiting, GatewayInv, GatewayTypes
<1>5. Untouched(visit[v].secret)' /\ visit'[v].secret.id \notin DOMAIN issued
  BY <1>2, <1>3, <1>4 DEF Untouched
<1>6. \A w \in Visits : Brings(w)' =>
             \/ Brings(w) /\ visit'[w].secret = visit[w].secret
             \/ /\ Untouched(visit[w].secret)' /\ visit'[w].secret.id \notin DOMAIN issued
                /\ \A x \in Visits : x # w => visit'[x] = visit[x]
  BY <1>4, <1>5 DEF Brings
<1> QED  BY <1>1, <1>2, <1>6, AsideFresh

LEMMA ExchangeFresh ==
    ASSUME GatewayInv, GatewayInv', OneOwner, FreshInv, NEW v \in Visits, Exchange(v)
    PROVE  OneOwner' /\ FreshInv'
<1>1. UNCHANGED <<stored, agentCall, reused>>
  BY DEF Exchange
<1>2. visit \in [Visits -> Visit] /\ visit[v] \in Visit /\ visit[v].owner \in Owners
  BY DEF GatewayInv, GatewayTypes, Visit
<1> DEFINE s == [kind |-> "oauth", id |-> Len(issued) + 1, gen |-> 0]
           r == [visit[v] EXCEPT !.at = "store", !.secret = s]
<1>3. CASE Leaves(v) /\ UNCHANGED <<issued, newest, unkept>>
  <2>1. \A w \in Visits : Brings(w)' => Brings(w) /\ visit'[w].secret = visit[w].secret
    BY <1>2, <1>3 DEF Leaves, Brings, NoVisit
  <2> QED  BY <1>1, <1>3, <2>1, AsideFresh
<1>4. CASE /\ issued' = Append(issued, NewSecret) /\ Forgotten(visit[v].owner)
           /\ visit' = [visit EXCEPT ![v] = r]
  <2>1. /\ DOMAIN issued' = DOMAIN issued \union {Len(issued) + 1} /\ Len(issued) + 1 \notin DOMAIN issued
        /\ \A id \in DOMAIN issued : issued'[id] = issued[id]
        /\ issued'[Len(issued) + 1].gen = 0
    BY <1>4, IssuedOne DEF GatewayInv, GatewayTypes
  <2>2. r.secret = s
    BY <1>2 DEF Visit
  <2>3. visit'[v] = r /\ \A w \in Visits : w # v => visit'[w] = visit[w]
    BY <1>2, <1>4
  <2>4. Untouched(visit[v].secret)' /\ visit'[v].secret.id \notin DOMAIN issued
    BY <2>1, <2>2, <2>3 DEF Untouched
  <2>5. \A w \in Visits : Brings(w)' =>
             \/ Brings(w) /\ visit'[w].secret = visit[w].secret
             \/ /\ Untouched(visit[w].secret)' /\ visit'[w].secret.id \notin DOMAIN issued
                /\ \A x \in Visits : x # w => visit'[x] = visit[x]
    BY <2>3, <2>4 DEF Brings
  <2>6. /\ unkept \subseteq unkept'
        /\ \A o \in Owners : \/ newest'[o] = newest[o]
                             \/ newest'[o] = NoSecret /\ newest[o].id \in unkept' \union {0}
    BY <1>2, <1>4, ForgottenAll
  <2> QED  BY <1>1, <2>1, <2>5, <2>6, AsideFresh
<1>5. \/ Leaves(v) /\ UNCHANGED <<issued, newest, unkept>>
      \/ /\ issued' = Append(issued, NewSecret) /\ Forgotten(visit[v].owner)
         /\ visit' = [visit EXCEPT ![v] = r]
  BY DEF Exchange
<1> QED  BY <1>3, <1>4, <1>5

\* What a person entered is stored: it was nobody else's.
LEMMA StoreFresh ==
    ASSUME GatewayInv, GatewayInv', OneOwner, FreshInv, NEW v \in Visits, StoreCredential(v)
    PROVE  OneOwner' /\ FreshInv'
<1> DEFINE o == visit[v].owner
           s == visit[v].secret
<1>1. UNCHANGED <<issued, newest, agentCall, unkept, reused>>
  BY DEF StoreCredential, gateMemory, gateHistory
<1>2. visit \in [Visits -> Visit] /\ o \in Owners /\ s \in Secret /\ stored \in [Owners -> Credential]
  BY VisitTypes DEF GatewayInv, GatewayTypes
<1>3. visit'[v] = NoVisit /\ \A w \in Visits : w # v => visit'[w] = visit[w]
  BY <1>2 DEF StoreCredential, Leaves
<1>4. \A w \in Visits : Brings(w)' => w # v /\ Brings(w) /\ visit'[w].secret = visit[w].secret
  BY <1>3 DEF Brings, NoVisit
<1>5. CASE UNCHANGED stored
  BY <1>1, <1>4, <1>5, AsideFresh
<1>6. CASE stored' = [stored EXCEPT ![o] = [secret |-> s, status |-> "connected"]]
  <2>1. /\ Untouched(s) /\ \A p \in Owners, t \in Secret : Holds(p, t) => t.id # s.id
        /\ \A w \in Visits : Brings(w) /\ visit[w].secret.id = s.id => w = v
    BY DEF StoreCredential, VisitAt, Brings, OneOwner
  <2>2. stored'[o].secret = s /\ \A p \in Owners : p # o => stored'[p] = stored[p]
    BY <1>2, <1>6
  <2> HIDE DEF s, o
  <2>3. ASSUME NEW p \in Owners, NEW t \in Secret, Holds(p, t)'
        PROVE  Holds(p, t) \/ (p = o /\ t = s)
    BY <1>1, <2>2, <2>3 DEF Holds
  <2>4. s.id \in DOMAIN issued /\ s.kind # "none" /\ s.id # 0 /\ s.gen = 0 /\ issued[s.id].gen = 0
    BY <2>1, Numbers DEF Untouched
  <2>5. \A p \in Owners, t \in Secret : Holds(p, t)' => Real(t)'
    BY <1>1, <2>3, <2>4 DEF OneOwner, Real
  <2>6. ASSUME NEW x \in Secret, NEW y \in Secret, Holds(Person, x)', Holds(Shared, y)', x.id = y.id
        PROVE  x.id = 0
    <3>1. Person \in Owners /\ Shared \in Owners /\ Person # Shared
      BY Blanks, IntegrationsAssumption
    <3>2. (Holds(Person, x) \/ (Person = o /\ x = s)) /\ (Holds(Shared, y) \/ (Shared = o /\ y = s))
      BY <2>3, <2>6, <3>1
    <3> QED  BY <2>1, <2>6, <3>1, <3>2 DEF OneOwner
  <2>7. ASSUME NEW w \in Visits, Brings(w)'
        PROVE  /\ Untouched(visit[w].secret)'
               /\ \A p \in Owners, t \in Secret : Holds(p, t)' => t.id # visit'[w].secret.id
               /\ \A x \in Visits : Brings(x)' /\ visit'[x].secret.id = visit'[w].secret.id => x = w
    <3>1. w # v /\ Brings(w) /\ visit'[w].secret = visit[w].secret
      BY <1>4, <2>7
    <3>2. Untouched(visit[w].secret)'
      BY <1>1, <3>1 DEF OneOwner, Untouched
    <3>3. visit[w].secret.id # s.id
      BY <2>1, <3>1
    <3>4. \A p \in Owners, t \in Secret : Holds(p, t)' => t.id # visit'[w].secret.id
      BY <2>3, <3>1, <3>3 DEF OneOwner
    <3>5. \A x \in Visits : Brings(x)' /\ visit'[x].secret.id = visit'[w].secret.id => x = w
      BY <1>4, <3>1 DEF OneOwner
    <3> QED  BY <3>2, <3>4, <3>5
  <2>8. OneOwner'
    BY <2>5, <2>6, <2>7 DEF OneOwner
  <2>9. \A p \in Owners, t \in Secret : Holds(p, t)' => Fresh(p, t)'
    BY <1>1, <2>3, <2>4 DEF FreshInv, Fresh
  <2> QED  BY <1>1, <2>8, <2>9 DEF FreshInv
<1>7. UNCHANGED stored \/ stored' = [stored EXCEPT ![o] = [secret |-> s, status |-> "connected"]]
  BY DEF StoreCredential
<1> QED  BY <1>5, <1>6, <1>7

LEMMA RevokeFresh ==
    ASSUME GatewayInv, GatewayInv', OneOwner, FreshInv, NEW v \in Visits, Revoke(v)
    PROVE  OneOwner' /\ FreshInv'
<1>1. UNCHANGED <<stored, agentCall, reused>>
  BY DEF Revoke
<1>2. visit \in [Visits -> Visit] /\ visit[v].owner \in Owners
  BY DEF GatewayInv, GatewayTypes, Visit
<1>3. \A w \in Visits : Brings(w)' => Brings(w) /\ visit'[w].secret = visit[w].secret
  <2>1. visit'[v].at = "delete" /\ \A w \in Visits : w # v => visit'[w] = visit[w]
    BY <1>2 DEF Revoke, Visit
  <2> QED  BY <2>1 DEF Brings
<1> DEFINE s == Freshest(visit[v].owner, visit[v].secret)
<1>4. \/ UNCHANGED <<newest, unkept, issued>>
      \/ Forgotten(visit[v].owner) /\ issued' \in {issued, [issued EXCEPT ![s.id].live = FALSE]}
  BY DEF Revoke
<1> HIDE DEF s
<1>5. CASE UNCHANGED <<newest, unkept, issued>>
  BY <1>1, <1>3, <1>5, AsideFresh
<1>6. CASE Forgotten(visit[v].owner) /\ issued' \in {issued, [issued EXCEPT ![s.id].live = FALSE]}
  <2>1. issued \in [DOMAIN issued -> Known]
    BY IssuedType DEF GatewayInv, GatewayTypes
  <2>2. \A id \in DOMAIN issued : [issued[id] EXCEPT !.live = FALSE].gen = issued[id].gen
    BY <2>1 DEF Known
  <2>3. \A id \in DOMAIN issued : id \in DOMAIN issued' /\ issued'[id].gen = issued[id].gen
    <3>1. CASE issued' = issued
      BY <3>1
    <3> DEFINE x == [issued[s.id] EXCEPT !.live = FALSE]
    <3>2. CASE issued' = [issued EXCEPT ![s.id] = x]
      <4>1. s.id \in DOMAIN issued => x.gen = issued[s.id].gen
        BY <2>2
      <4> HIDE DEF x
      <4> QED  BY <2>1, <3>2, <4>1
    <3> QED  BY <1>6, <3>1, <3>2
  <2>4. /\ unkept \subseteq unkept'
        /\ \A o \in Owners : \/ newest'[o] = newest[o]
                             \/ newest'[o] = NoSecret /\ newest[o].id \in unkept' \union {0}
    BY <1>2, <1>6, ForgottenAll
  <2> QED  BY <1>1, <1>3, <2>3, <2>4, AsideFresh
<1> QED  BY <1>4, <1>5, <1>6

LEMMA OtherVisitsFresh ==
    ASSUME GatewayInv, GatewayInv', OneOwner, FreshInv, NEW v \in Visits,
           \/ CheckCredential(v) \/ DeleteCredential(v)
           \/ \E o \in Owners : FinishSignIn(v, o) \/ Disconnect(v, o)
    PROVE  OneOwner' /\ FreshInv'
<1>1. UNCHANGED <<issued, newest, agentCall, unkept, reused>>
  BY DEF CheckCredential, DeleteCredential, FinishSignIn, Disconnect, gateMemory, gateHistory
<1>2. visit \in [Visits -> Visit] /\ stored \in [Owners -> Credential]
  BY DEF GatewayInv, GatewayTypes
<1>3. \A o \in Owners : stored'[o] = stored[o] \/ stored'[o] = NoCredential
  BY <1>2 DEF CheckCredential, DeleteCredential, FinishSignIn, Disconnect
<1>4. \/ CheckCredential(v) /\ visit' = [visit EXCEPT ![v].at = "store"]
      \/ \E x : visit' = [visit EXCEPT ![v] = x] /\ x.at \notin {"check", "store"}
  <2>1. CASE CheckCredential(v) \/ DeleteCredential(v)
    BY <2>1 DEF CheckCredential, DeleteCredential, Leaves, NoVisit
  <2>2. ASSUME NEW o \in Owners, FinishSignIn(v, o)
        PROVE  \E x : visit' = [visit EXCEPT ![v] = x] /\ x.at \notin {"check", "store"}
    <3> DEFINE r == [NoVisit EXCEPT !.at = "exchange", !.owner = o]
    <3>1. visit' = [visit EXCEPT ![v] = r]
      BY <2>2 DEF FinishSignIn, Visiting
    <3>2. r.at = "exchange"
      BY DEF NoVisit
    <3> HIDE DEF r
    <3> QED  BY <3>1, <3>2
  <2>3. ASSUME NEW o \in Owners, Disconnect(v, o)
        PROVE  \E x : visit' = [visit EXCEPT ![v] = x] /\ x.at \notin {"check", "store"}
    <3> DEFINE at == IF registry.method = "oauth" THEN "revoke" ELSE "delete"
               r == [NoVisit EXCEPT !.at = at, !.owner = o, !.secret = stored[o].secret]
    <3>1. visit' = [visit EXCEPT ![v] = r]
      BY <2>3 DEF Disconnect, Visiting
    <3>2. at \notin {"check", "store"}
      OBVIOUS
    <3> HIDE DEF at
    <3>3. r.at = at
      BY DEF NoVisit
    <3> HIDE DEF r
    <3> QED  BY <3>1, <3>2, <3>3
  <2> QED  BY <2>1, <2>2, <2>3
<1>5. \A w \in Visits : Brings(w)' => Brings(w) /\ visit'[w].secret = visit[w].secret
  <2>1. CASE CheckCredential(v) /\ visit' = [visit EXCEPT ![v].at = "store"]
    <3>1. visit'[v].secret = visit[v].secret /\ \A w \in Visits : w # v => visit'[w] = visit[w]
      BY <1>2, <2>1 DEF Visit
    <3> QED  BY <2>1, <3>1 DEF Brings, CheckCredential, VisitAt
  <2>2. CASE \E x : visit' = [visit EXCEPT ![v] = x] /\ x.at \notin {"check", "store"}
    <3>1. visit'[v].at \notin {"check", "store"} /\ \A w \in Visits : w # v => visit'[w] = visit[w]
      BY <1>2, <2>2
    <3> QED  BY <3>1 DEF Brings
  <2> QED  BY <1>4, <2>1, <2>2
<1> QED  BY <1>1, <1>3, <1>5, AsideFresh

LEMMA VisitStepFresh ==
    ASSUME GatewayInv, GatewayInv', OneOwner, FreshInv, NEW v \in Visits, VisitStep(v)
    PROVE  OneOwner' /\ FreshInv'
BY ConnectFresh, ExchangeFresh, StoreFresh, RevokeFresh, OtherVisitsFresh DEF VisitStep

LEMMA ElseFresh ==
    ASSUME GatewayInv, GatewayInv', OneOwner, FreshInv,
           \/ StartSignIn \/ EditIntegration \/ UninstallIntegration \/ UNCHANGED gatewayVars
           \/ \E id \in DOMAIN issued, due \in BOOLEAN : Spoil(id, due)
    PROVE  OneOwner' /\ FreshInv'
<1>1. UNCHANGED <<newest, agentCall, visit, unkept, reused>>
  BY DEF StartSignIn, EditIntegration, UninstallIntegration, Spoil, gatewayVars, gateMemory, gateHistory
<1>2. \A o \in Owners : stored'[o] = stored[o] \/ stored'[o] = NoCredential
  BY DEF StartSignIn, EditIntegration, UninstallIntegration, Spoil, gatewayVars
<1>3. \A id \in DOMAIN issued : id \in DOMAIN issued' /\ issued'[id].gen = issued[id].gen
  <2>1. CASE UNCHANGED issued
    BY <2>1
  <2>2. ASSUME NEW k \in DOMAIN issued, NEW due \in BOOLEAN, Spoil(k, due)
        PROVE  \A id \in DOMAIN issued : id \in DOMAIN issued' /\ issued'[id].gen = issued[id].gen
    <3> DEFINE d == IF due THEN issued[k].due \union {issued[k].gen} ELSE issued[k].due
               x == [issued[k] EXCEPT !.dead = @ \union {issued[k].gen}, !.due = d]
    <3>1. issued \in [DOMAIN issued -> Known] /\ issued[k] \in Known
      BY <2>2, IssuedType DEF GatewayInv, GatewayTypes
    <3>2. issued' = [issued EXCEPT ![k] = x]
      BY <2>2 DEF Spoil
    <3> HIDE DEF d
    <3>3. x.gen = issued[k].gen
      BY <3>1 DEF Known
    <3> HIDE DEF x
    <3> QED  BY <3>1, <3>2, <3>3
  <2>3. StartSignIn \/ EditIntegration \/ UninstallIntegration \/ UNCHANGED gatewayVars => UNCHANGED issued
    BY DEF StartSignIn, EditIntegration, UninstallIntegration, gatewayVars
  <2> QED  BY <2>1, <2>2, <2>3
<1>4. \A v \in Visits : Brings(v)' => Brings(v) /\ visit'[v].secret = visit[v].secret
  BY <1>1 DEF Brings
<1> QED  BY <1>1, <1>2, <1>3, <1>4, AsideFresh

\* After a restart there is only what is stored: what the provider alone knew is lost.
LEMMA RestartFresh ==
    ASSUME GatewayInv, GatewayInv', OneOwner, FreshInv, GatewayRestart
    PROVE  OneOwner' /\ FreshInv'
<1>1. UNCHANGED <<registry, stored, issued, reused>> /\ unkept \subseteq unkept'
  BY DEF GatewayRestart
<1>2. \A c \in AgentCalls : agentCall'[c] = NoAgent
  BY DEF GatewayRestart
<1>3. \A o \in Owners : newest'[o] = NoSecret
  BY DEF GatewayRestart
<1>4. \A v \in Visits : Brings(v)' => Brings(v) /\ visit'[v].secret = visit[v].secret
  BY DEF GatewayRestart, Brings, NoVisit
<1>5. Taken
  BY <1>1, <1>2, <1>3, Held DEF Taken
<1>6. \A o \in Owners, s \in Secret : Holds(o, s)' => s = NoSecret \/ Holds(o, s)
  BY <1>5, HoldsAfter
<1>7. NoSecret.kind = "none" /\ NoSecret.id = 0 /\ NoAgent.granted = NoSecret /\ NoAgent.secret = NoSecret
      /\ NoAgent.at = "idle"
  BY DEF NoSecret, NoAgent
<1>8. OneOwner'
  <2>1. \A o \in Owners, s \in Secret : Holds(o, s)' =>
          \/ s.kind = "none" /\ s.id = 0
          \/ \E t \in Secret : Holds(o, t) /\ t.id = s.id /\ t.kind = s.kind
    BY <1>6, <1>7
  <2> QED  BY <1>1, <1>4, <2>1, HandedOn
<1>9. ASSUME NEW o \in Owners, NEW s \in Secret, Holds(o, s)', s.id \in DOMAIN issued, s.id \notin unkept'
      PROVE  s.gen = issued[s.id].gen
  <2>1. s.id # 0
    BY <1>9, Numbers
  <2>2. s = stored[o].secret
    BY <1>1, <1>2, <1>3, <1>7, <1>9, <2>1 DEF Holds
  <2>3. PICK p \in Owners : stored[p].secret.id = s.id /\ stored[p].secret.gen = issued[s.id].gen
    BY <1>9 DEF GatewayRestart
  <2>4. stored[p].secret \in Secret
    BY DEF GatewayInv, GatewayTypes, Credential
  <2>5. Holds(p, stored[p].secret) /\ Holds(o, s)
    BY <2>2, Held
  <2>6. p = o
    BY <2>1, <2>3, <2>4, <2>5, SameOwner
  <2> QED  BY <2>2, <2>3, <2>6
<1>10. \A o \in Owners, s \in Secret : Holds(o, s)' => Fresh(o, s)'
  BY <1>1, <1>9 DEF Fresh
<1> QED  BY <1>1, <1>2, <1>7, <1>8, <1>10 DEF FreshInv

LEMMA FreshStep ==
    ASSUME GatewayInv, GatewayInv', OneOwner, FreshInv, [IntegrationsNext]_gatewayVars
    PROVE  OneOwner' /\ FreshInv'
BY AgentStepFresh, VisitStepFresh, ElseFresh, RestartFresh DEF IntegrationsNext

LEMMA FreshInit ==
    ASSUME IntegrationsInit
    PROVE  OneOwner /\ FreshInv
<1>1. PICK model \in {"shared", "per_user"}, method \in {"token", "oauth"} :
         stored = [o \in Owners |->
                IF o = OwnerUnder(model)
                THEN [secret |-> [kind |-> method, id |-> 1, gen |-> 0], status |-> "connected"]
                ELSE NoCredential]
  BY DEF IntegrationsInit
<1> DEFINE first == [kind |-> method, id |-> 1, gen |-> 0]
<1>2. first.kind # "none" /\ first.id = 1 /\ first.gen = 0
  BY <1>1
<1>3. /\ \A o \in Owners : newest[o] = NoSecret
      /\ \A c \in AgentCalls : agentCall[c] = NoAgent
      /\ \A v \in Visits : visit[v] = NoVisit
      /\ unkept = {} /\ reused = {}
  BY DEF IntegrationsInit
<1>4. \A o \in Owners : stored[o].secret = IF o = OwnerUnder(model) THEN first ELSE NoSecret
  BY <1>1 DEF NoCredential
<1> HIDE DEF first
<1>5. /\ NoSecret.kind = "none" /\ NoSecret.id = 0 /\ NoAgent.granted = NoSecret
      /\ NoAgent.secret = NoSecret /\ NoAgent.at = "idle" /\ NoVisit.at = "idle"
  BY DEF NoSecret, NoAgent, NoVisit
<1>6. DOMAIN issued = {1} /\ issued[1].gen = 0
  <2>1. issued = <<NewSecret>>
    BY DEF IntegrationsInit
  <2> QED  BY <2>1 DEF NewSecret
<1>7. \A o \in Owners, s \in Secret : Holds(o, s) => s = NoSecret \/ (s = first /\ o = OwnerUnder(model))
  BY <1>3, <1>4, <1>5 DEF Holds
<1>8. OneOwner
  <2>1. Person \in Owners /\ Shared \in Owners /\ Person # Shared
    BY Blanks, IntegrationsAssumption
  <2>2. \A o \in Owners, s \in Secret : Holds(o, s) => Real(s)
    BY <1>2, <1>5, <1>6, <1>7 DEF Real
  <2>3. \A s, t \in Secret : Holds(Person, s) /\ Holds(Shared, t) /\ s.id = t.id => s.id = 0
    BY <1>2, <1>5, <1>7, <2>1
  <2> QED  BY <1>3, <1>5, <2>2, <2>3 DEF OneOwner, Brings
<1>9. \A o \in Owners, s \in Secret : Holds(o, s) => Fresh(o, s)
  BY <1>2, <1>5, <1>6, <1>7 DEF Fresh
<1> QED  BY <1>3, <1>5, <1>8, <1>9 DEF FreshInv

\* The newest generation of what is stored can be come by.
LEMMA FreshLasts ==
    ASSUME GatewayInv, OneOwner, FreshInv
    PROVE  SignInLasts
<1>1. RefreshedOnce
  BY DEF FreshInv, RefreshedOnce
<1>2. ASSUME NEW o \in Owners, stored[o].secret.kind = "oauth", stored[o].secret.id \notin unkept
      PROVE  LET id == stored[o].secret.id
             IN issued[id].gen \in {stored[o].secret.gen}
                                     \union {s.gen : s \in {x \in {newest[o]} : x.id = id}}
  <2>1. stored[o].secret \in Secret /\ Holds(o, stored[o].secret)
    BY Held DEF GatewayInv, GatewayTypes, Credential
  <2>2. stored[o].secret.id \in DOMAIN issued
    BY <1>2, <2>1 DEF OneOwner, Real
  <2>3. \/ stored[o].secret.gen = issued[stored[o].secret.id].gen
        \/ /\ newest[o].id = stored[o].secret.id
           /\ newest[o].gen = issued[stored[o].secret.id].gen
    BY <1>2, <2>1, <2>2 DEF FreshInv, Fresh
  <2> QED  BY <2>3
<1> QED  BY <1>1, <1>2 DEF SignInLasts, NewestKept

\* A sign-in is never ended by its own refreshing: under the owner's lock a refresh token is
\* sent once, and the newest is in `_fresh` until the platform has it, whatever answers come
\* late or not at all; but for sign-ins whose newest token only the provider has.
THEOREM SignInsLast == IntegrationsSpec => []SignInLasts
<1> DEFINE Inv == GatewayInv /\ OneOwner /\ FreshInv
<1>1. IntegrationsInit => Inv
  BY GatewayInvInit, FreshInit
<1>2. Inv /\ [IntegrationsNext]_gatewayVars => Inv'
  BY GatewayInvStep, FreshStep
<1>3. Inv => SignInLasts
  BY FreshLasts
<1> QED  BY <1>1, <1>2, <1>3, PTL DEF IntegrationsSpec

\* With the types: an owner's lock is the one call's that refreshes, and sign-ins last (`_refresh` of oauth.py).
THEOREM SignInsKept == IntegrationsSpec => []SignInsAreKept
<1>1. GatewayTypeOK /\ SignInLasts => SignInsAreKept
  BY DEF SignInsAreKept
<1> QED  BY <1>1, GatewayTypeCorrect, SignInsLast, PTL

=============================================================================
