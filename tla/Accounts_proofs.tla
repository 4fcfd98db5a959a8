--------------------------- MODULE Accounts_proofs ---------------------------
(***************************************************************************)
(* Proofs about Accounts, for any persons, callers, pairs, mixes and       *)
(* bounds: its type invariant, that an enabled admin is left, that whoever *)
(* is signed in is current, and that codes, challenges, invites and the    *)
(* setup code are used once.  And about Spaces: that a shared space keeps  *)
(* an owner and a personal one its own, and an archived one its members.   *)
(***************************************************************************)
EXTENDS Accounts, Spaces, FiniteSetTheorems, SequenceTheorems, TLAPS

-----------------------------------------------------------------------------
(* The inductive invariant of types, and what a request goes by.           *)

Known(u) == account[u].is # "none"

\* A request is someone's who has an account, or makes one; its session is theirs; the invite,
\* the session or the user it works on is there; the pair it signs in with is theirs or gone.
CallShape(r) ==
    /\ r.op \notin {"none", "setup", "accept"} /\ r.who # NoPerson => Known(r.who)
    /\ r.at \in {"hash", "code", "mint", "read", "take", "write", "count"} => r.who # NoPerson
    /\ r.at \in {"code", "mint"} => r.op = "login"
    /\ r.at = "read" => r.op \in {"totp_enroll", "totp_disable", "totp_confirm"}
    /\ r.at \in {"take", "count"} => r.op \in {"register", "passkey"}
    /\ r.at = "take" => r.to \in {"register", "login", "step_up"}
    /\ r.at = "locked" => r.op = "patch"
    /\ r.at = "remove" => r.op = "unpair"
    /\ r.session # 0 => r.session \in DOMAIN signIns /\ signIns[r.session].user = r.who
    /\ r.op \in {"password", "step_up"} \/ (r.op = "passkey" /\ r.to # "login") => r.session # 0
    /\ r.op = "sign_out" => r.n \in DOMAIN signIns
    /\ r.op \in {"accept", "uninvite"} => r.n \in DOMAIN invites
    /\ r.op = "unpair" => r.pair \in Pairs
    /\ r.op = "challenge" => r.to \in Purposes
    /\ r.op = "patch" => r.target \in Persons /\ Known(r.target)
    /\ r.creds.pair # NoPair => r.who # NoPerson /\ (pairs[r.creds.pair] = r.who \/ r.creds.pair \in unpaired)
    /\ r.op = "totp_confirm" /\ r.at = "write" => r.n > 0

\* Credentials, challenges and sessions are of people with an account; before the setup there
\* is nobody.
PeopleShape ==
    /\ \A u \in Persons : passkey[u].here => Known(u)
    /\ \A p \in Pairs : pairs[p] # NoPerson => Known(pairs[p]) /\ p \notin unpaired
    /\ \A ch \in challenges : ch.user # NoPerson => Known(ch.user)
    /\ \A s \in DOMAIN signIns : Known(signIns[s].user)
    /\ bootstrapped = NoPerson => invites = << >> /\ \A u \in Persons : ~Known(u)

AccountsInv ==
    /\ AccountsTypeOK /\ PeopleShape
    /\ \A c \in Callers : CallShape(call[c])

-----------------------------------------------------------------------------
(* The types.                                                              *)

Totp    == [secret : Nat, pending : Nat, last : Nat]
Passkey == [here : BOOLEAN, count : Nat, device : Nat]
Invite  == {"pending", "used", "revoked"}

\* The types of everything but the requests and the lock.
StateTypes ==
    /\ account \in [Persons -> Account]
    /\ totp \in [Persons -> Totp]
    /\ fresh \in Nat /\ clock \in Nat
    /\ signIns \in Seq(SignIn)
    /\ invites \in Seq(Invite)
    /\ pairs \in [Pairs -> Persons \union {NoPerson}] /\ unpaired \in SUBSET Pairs
    /\ passkey \in [Persons -> Passkey]
    /\ challenges \in SUBSET Challenge
    /\ setupCode \in BOOLEAN /\ bootstrapped \in Persons \union {NoPerson}
    /\ mix \in Mixes /\ callsLeft \in Nat

Locks == \A c \in Callers : adminLock = c <=> call[c].at = "locked"

LEMMA AccountsTypes ==
    AccountsTypeOK <=> StateTypes /\ adminLock \in Callers \union {NoPerson} /\ call \in [Callers -> Call] /\ Locks
BY DEF AccountsTypeOK, StateTypes, Locks, Totp, Passkey, Invite

LEMMA AccountsTypesNext ==
    AccountsTypeOK' <=> StateTypes' /\ adminLock' \in Callers \union {NoPerson} /\ call' \in [Callers -> Call] /\ Locks'
BY DEF AccountsTypeOK, StateTypes, Locks, Totp, Passkey, Invite

LEMMA IdleType ==
    /\ IdleCall \in Call /\ IdleCall.at = "idle" /\ IdleCall.op = "none"
    /\ CallShape(IdleCall)
BY DEF IdleCall, Call, Ops, HandlerAt, NoCreds, Creds, CallShape

LEMMA SessionType ==
    ASSUME signIns \in Seq(SignIn), NEW s \in DOMAIN signIns
    PROVE  /\ signIns[s] \in SignIn /\ signIns[s].user \in Persons /\ s \in Nat /\ s # 0
           /\ Len(signIns) \in Nat /\ DOMAIN signIns = 1 .. Len(signIns)
<1>1. Len(signIns) \in Nat /\ DOMAIN signIns = 1 .. Len(signIns) /\ signIns \in [1 .. Len(signIns) -> SignIn]
  BY LenProperties
<1> QED  BY <1>1 DEF SignIn

LEMMA CredsType ==
    ASSUME NEW u \in Persons, NEW pw \in Nat, NEW p \in Pairs \union {NoPair},
           account \in [Persons -> Account], totp \in [Persons -> Totp]
    PROVE  CredsOf(u, pw, p) \in Creds /\ CredsOf(u, pw, p).pair = p
BY DEF CredsOf, Creds, Totp, Account

-----------------------------------------------------------------------------
(* What requests leave to each other.                                      *)

\* Accounts, sessions and invites are never deleted, a pair's key is never paired again.
Grow ==
    /\ \A u \in Persons : Known(u) => Known(u)'
    /\ \A s \in DOMAIN signIns : s \in DOMAIN signIns' /\ signIns'[s].user = signIns[s].user
    /\ DOMAIN invites \subseteq DOMAIN invites'
    /\ unpaired \subseteq unpaired'
    /\ \A p \in Pairs : pairs[p] # NoPerson => pairs'[p] = pairs[p] \/ p \in unpaired'

LEMMA ShapeGrows ==
    ASSUME Grow, PeopleShape, NEW r \in Call, CallShape(r), NEW d \in Callers, call'[d] = r
    PROVE  CallShape(call[d])'
<1>1. r.who \in Persons \union {NoPerson} /\ r.target \in Persons \union {NoPerson} /\ r.creds.pair \in Pairs \union {NoPair}
  BY DEF Call, Creds
<1>2. r.op \notin {"none", "setup", "accept"} /\ r.who # NoPerson => Known(r.who)'
  BY <1>1 DEF CallShape, Grow
<1>3. r.op = "patch" => r.target \in Persons /\ Known(r.target)'
  BY DEF CallShape, Grow
<1>4. r.session # 0 => r.session \in DOMAIN signIns' /\ signIns'[r.session].user = r.who
  BY DEF CallShape, Grow
<1>5. /\ r.op = "sign_out" => r.n \in DOMAIN signIns'
      /\ r.op \in {"accept", "uninvite"} => r.n \in DOMAIN invites'
  BY DEF CallShape, Grow
<1>6. r.creds.pair # NoPair => pairs'[r.creds.pair] = r.who \/ r.creds.pair \in unpaired'
  <2>1. CASE r.creds.pair # NoPair /\ pairs[r.creds.pair] = r.who /\ r.who # NoPerson
    BY <1>1, <2>1 DEF Grow
  <2>2. CASE r.creds.pair # NoPair /\ r.creds.pair \in unpaired
    BY <2>2 DEF Grow
  <2> QED  BY <2>1, <2>2 DEF CallShape
<1> QED  BY <1>2, <1>3, <1>4, <1>5, <1>6 DEF CallShape, Known

\* One request goes on, or all stay as they are; the shape of the rest is given.
LEMMA Moves ==
    ASSUME AccountsInv, NEW c \in Callers, NEW r \in Call, call' = [call EXCEPT ![c] = r], CallShape(r),
           call[c].at # "locked", r.at # "locked", UNCHANGED adminLock, Grow, StateTypes', PeopleShape'
    PROVE  AccountsInv'
<1>1. adminLock \in Callers \union {NoPerson} /\ call \in [Callers -> Call] /\ Locks
  BY AccountsTypes DEF AccountsInv
<1>2. call' \in [Callers -> Call] /\ call'[c] = r /\ \A d \in Callers \ {c} : call'[d] = call[d]
  BY <1>1
<1>3. Locks'
  BY <1>1, <1>2 DEF Locks
<1>4. ASSUME NEW d \in Callers
      PROVE  CallShape(call[d])'
  <2>1. CASE d = c
    BY <1>2, <2>1, ShapeGrows DEF AccountsInv
  <2>2. CASE d # c
    <3>1. \E q \in Call : q = call[d] /\ CallShape(q)
      BY <1>1 DEF AccountsInv
    <3>2. PICK q \in Call : q = call[d] /\ CallShape(q)
      BY <3>1
    <3>3. call'[d] = q
      BY <1>2, <2>2, <3>2
    <3> QED  BY <3>2, <3>3, ShapeGrows DEF AccountsInv
  <2> QED  BY <2>1, <2>2
<1> QED  BY <1>1, <1>2, <1>3, <1>4, AccountsTypesNext DEF AccountsInv

LEMMA Stays ==
    ASSUME AccountsInv, UNCHANGED <<call, adminLock>>, Grow, StateTypes', PeopleShape'
    PROVE  AccountsInv'
<1>1. adminLock \in Callers \union {NoPerson} /\ call \in [Callers -> Call] /\ Locks
  BY AccountsTypes DEF AccountsInv
<1>2. Locks'
  BY <1>1 DEF Locks
<1>3. ASSUME NEW d \in Callers
      PROVE  CallShape(call[d])'
  <2>1. PICK q \in Call : q = call[d] /\ CallShape(q)
    BY <1>1 DEF AccountsInv
  <2>2. call'[d] = q
    BY <2>1
  <2> QED  BY <2>1, <2>2, ShapeGrows DEF AccountsInv
<1> QED  BY <1>1, <1>2, <1>3, AccountsTypesNext DEF AccountsInv

\* A step that leaves people, their sessions, invites and pairs alone.
AsideKept == UNCHANGED <<account, signIns, invites, pairs, unpaired, bootstrapped>>

LEMMA Aside ==
    ASSUME AccountsInv, AsideKept,
           totp' \in [Persons -> Totp], fresh' \in Nat, clock' \in Nat, passkey' \in [Persons -> Passkey],
           challenges' \in SUBSET Challenge, setupCode' \in BOOLEAN, mix' \in Mixes, callsLeft' \in Nat,
           \A u \in Persons : passkey'[u].here => Known(u),
           \A ch \in challenges' : ch.user # NoPerson => Known(ch.user)
    PROVE  Grow /\ StateTypes' /\ PeopleShape'
<1>1. StateTypes /\ PeopleShape
  BY AccountsTypes DEF AccountsInv
<1>2. StateTypes'
  BY <1>1 DEF StateTypes, AsideKept
<1>3. Grow
  BY DEF Grow, AsideKept, Known
<1>4. PeopleShape'
  BY <1>1 DEF PeopleShape, AsideKept, Known
<1> QED  BY <1>2, <1>3, <1>4

\* A step of a request that changes nothing else.
LEMMA OnlyCall ==
    ASSUME AccountsInv, NEW c \in Callers, NEW r \in Call, call' = [call EXCEPT ![c] = r], CallShape(r),
           call[c].at # "locked", r.at # "locked", callsLeft' \in Nat, UNCHANGED mix,
           UNCHANGED <<people, credentials, fresh, clock, adminLock>>
    PROVE  AccountsInv'
<1>1. StateTypes /\ PeopleShape
  BY AccountsTypes DEF AccountsInv
<1>2. Grow /\ StateTypes' /\ PeopleShape'
  <2>1. AsideKept /\ UNCHANGED <<totp, fresh, clock, passkey, challenges, setupCode>>
    BY DEF AsideKept, people, credentials
  <2> QED  BY <1>1, <2>1, Aside DEF StateTypes, PeopleShape
<1> QED  BY <1>2, Moves

\* Requests and their bounds.
LEMMA AskedFor ==
    ASSUME AccountsInv, NEW c \in Callers, NEW r \in Call, AskFor(c, r)
    PROVE  call' = [call EXCEPT ![c] = r] /\ call[c].at = "idle" /\ callsLeft' \in Nat /\ UNCHANGED mix
<1>1. callsLeft \in Nat
  BY AccountsTypes DEF AccountsInv, StateTypes
<1> QED  BY <1>1 DEF AskFor, Takes

LEMMA NewCalls ==
    ASSUME AccountsInv, NEW c \in Callers, NEW r \in Call, AskFor(c, r), CallShape(r), r.at # "locked",
           UNCHANGED <<people, credentials, fresh, clock, adminLock>>
    PROVE  AccountsInv'
BY AskedFor, OnlyCall

\* What is asked for with a session is asked by its user.
OwnAt == {"hash", "write", "read", "verify", "untag", "delete", "take"}

LEMMA OwnType ==
    ASSUME AccountsInv, NEW s \in DOMAIN signIns, NEW op \in Ops, NEW at \in OwnAt
    PROVE  \E r \in Call :
              /\ r = Own(s, op, at) /\ r.op = op /\ r.at = at /\ r.who = signIns[s].user
              /\ r.session = s /\ r.n = 0 /\ r.creds.pair = NoPair
              /\ signIns[s].user # NoPerson /\ signIns[s].user \in Persons /\ Known(signIns[s].user) /\ s # 0
<1>1. StateTypes /\ PeopleShape
  BY AccountsTypes DEF AccountsInv
<1>2. signIns[s].user \in Persons /\ s \in Nat /\ s # 0
  BY <1>1, SessionType DEF StateTypes
<1>3. account[signIns[s].user].pw \in Nat
  BY <1>1, <1>2 DEF StateTypes, Account
<1> DEFINE r == Own(s, op, at)
<1>4. /\ r \in Call /\ r.op = op /\ r.at = at /\ r.who = signIns[s].user
      /\ r.session = s /\ r.n = 0 /\ r.creds.pair = NoPair
  BY <1>1, <1>2, <1>3, AccountsAssumption DEF Own, IdleCall, NoCreds, Call, Creds, HandlerAt, OwnAt
<1>5. signIns[s].user # NoPerson /\ Known(signIns[s].user)
  BY <1>1, <1>2, AccountsAssumption DEF PeopleShape
<1> HIDE DEF r
<1>6. r = Own(s, op, at)
  BY DEF r
<1> QED  BY <1>2, <1>4, <1>5, <1>6

-----------------------------------------------------------------------------
(* Requests are made.                                                      *)

LEMMA SessionAsks ==
    ASSUME AccountsInv, NEW c \in Callers, NEW s \in DOMAIN signIns,
           \/ AskInvite(c, s) \/ AskPassword(c, s) \/ AskStepUp(c, s)
           \/ \E op \in {"totp_enroll", "totp_confirm", "totp_disable"} : AskTotp(c, s, op)
    PROVE  AccountsInv'
<1>1. PICK op \in {"invite", "password", "step_up", "totp_enroll", "totp_confirm", "totp_disable"},
           at \in {"hash", "write", "read"} :
        /\ AskFor(c, Own(s, op, at))
        /\ op = "totp_confirm" => at = "read"
        /\ at = "read" => op \in {"totp_enroll", "totp_disable", "totp_confirm"}
  BY DEF AskInvite, AskPassword, AskStepUp, AskTotp
<1>2. UNCHANGED <<people, credentials, fresh, clock, adminLock>>
  BY DEF AskInvite, AskPassword, AskStepUp, AskTotp
<1>3. op \in Ops /\ at \in OwnAt
  BY DEF Ops, OwnAt
<1> DEFINE r == Own(s, op, at)
<1>4. /\ r \in Call /\ r.op = op /\ r.at = at /\ r.who = signIns[s].user /\ r.session = s /\ r.creds.pair = NoPair
      /\ Known(signIns[s].user) /\ signIns[s].user # NoPerson /\ s # 0
  BY <1>3, OwnType
<1> HIDE DEF r
<1>5. CallShape(r) /\ r.at # "locked"
  BY <1>1, <1>4 DEF CallShape
<1>6. AskFor(c, r)
  BY <1>1 DEF r
<1> QED  BY <1>2, <1>4, <1>5, <1>6, NewCalls

LEMMA TargetAsks ==
    ASSUME AccountsInv, NEW c \in Callers, NEW s \in DOMAIN signIns,
           \/ \E n \in DOMAIN invites : AskUninvite(c, s, n)
           \/ \E t \in DOMAIN signIns : AskSignOut(c, s, t)
    PROVE  AccountsInv'
<1>0. signIns \in Seq(SignIn) /\ invites \in Seq(Invite)
  BY AccountsTypes DEF AccountsInv, StateTypes
<1>1. PICK op \in {"uninvite", "sign_out"}, n \in DOMAIN signIns \union DOMAIN invites :
        /\ AskFor(c, [Own(s, op, "write") EXCEPT !.n = n])
        /\ op = "uninvite" => n \in DOMAIN invites
        /\ op = "sign_out" => n \in DOMAIN signIns
  BY DEF AskUninvite, AskSignOut
<1>2. UNCHANGED <<people, credentials, fresh, clock, adminLock>>
  BY DEF AskUninvite, AskSignOut
<1>3. op \in Ops /\ "write" \in OwnAt /\ n \in Nat
  BY <1>0, LenProperties DEF Ops, OwnAt
<1> DEFINE q == Own(s, op, "write")
           r == [q EXCEPT !.n = n]
<1>4. /\ q \in Call /\ q.op = op /\ q.at = "write" /\ q.who = signIns[s].user /\ q.session = s /\ q.creds.pair = NoPair
      /\ Known(signIns[s].user) /\ signIns[s].user # NoPerson /\ s # 0
  BY <1>3, OwnType
<1>5. AskFor(c, r)
  BY <1>1
<1> HIDE DEF q
<1>6. /\ r \in Call /\ r.op = op /\ r.at = "write" /\ r.who = signIns[s].user /\ r.session = s
      /\ r.creds.pair = NoPair /\ r.n = n
  BY <1>3, <1>4 DEF Call
<1> HIDE DEF r
<1>7. CallShape(r) /\ r.at # "locked"
  BY <1>1, <1>4, <1>6 DEF CallShape
<1> QED  BY <1>2, <1>5, <1>6, <1>7, NewCalls

LEMMA ChallengeAsks ==
    ASSUME AccountsInv, NEW c \in Callers, NEW s \in DOMAIN signIns,
           \/ \E purpose \in {"register", "step_up", "enroll"} : AskChallenge(c, s, purpose)
           \/ \E ch \in challenges : AskRegister(c, s, ch.id)
    PROVE  AccountsInv'
<1>0. \A ch \in challenges : ch.id \in Nat
  BY AccountsTypes DEF AccountsInv, StateTypes, Challenge
<1>1. PICK op \in {"challenge", "register"}, at \in {"delete", "take"}, to \in {"register", "step_up", "enroll"}, n \in Nat :
        /\ AskFor(c, [Own(s, op, at) EXCEPT !.to = to, !.n = n])
        /\ at = "take" => op = "register" /\ to = "register"
  <2>1. ASSUME NEW purpose \in {"register", "step_up", "enroll"}, AskChallenge(c, s, purpose)
        PROVE  AskFor(c, [Own(s, "challenge", "delete") EXCEPT !.to = purpose, !.n = 0])
    <3>1. Own(s, "challenge", "delete") \in Call /\ Own(s, "challenge", "delete").n = 0
      BY OwnType DEF Ops, OwnAt
    <3>2. [Own(s, "challenge", "delete") EXCEPT !.to = purpose, !.n = 0]
            = [Own(s, "challenge", "delete") EXCEPT !.to = purpose]
      BY <3>1 DEF Call
    <3> QED  BY <2>1, <3>2 DEF AskChallenge
  <2>2. ASSUME NEW ch \in challenges, AskRegister(c, s, ch.id)
        PROVE  AskFor(c, [Own(s, "register", "take") EXCEPT !.to = "register", !.n = ch.id])
    BY <2>2 DEF AskRegister
  <2> QED  BY <1>0, <2>1, <2>2
<1>2. UNCHANGED <<people, credentials, fresh, clock, adminLock>>
  BY DEF AskChallenge, AskRegister
<1>3. op \in Ops /\ at \in OwnAt /\ to \in Purposes
  BY DEF Ops, OwnAt, Purposes
<1> DEFINE q == Own(s, op, at)
           r == [q EXCEPT !.to = to, !.n = n]
<1>4. /\ q \in Call /\ q.op = op /\ q.at = at /\ q.who = signIns[s].user /\ q.session = s /\ q.creds.pair = NoPair
      /\ Known(signIns[s].user) /\ signIns[s].user # NoPerson /\ s # 0
  BY <1>3, OwnType
<1>5. AskFor(c, r)
  BY <1>1
<1> HIDE DEF q
<1>6. /\ r \in Call /\ r.op = op /\ r.at = at /\ r.who = signIns[s].user /\ r.session = s
      /\ r.creds.pair = NoPair /\ r.n = n /\ r.to = to
  BY <1>3, <1>4 DEF Call
<1> HIDE DEF r
<1>7. CallShape(r) /\ r.at # "locked"
  BY <1>1, <1>3, <1>4, <1>6 DEF CallShape
<1> QED  BY <1>2, <1>5, <1>6, <1>7, NewCalls

LEMMA OthersAsks ==
    ASSUME AccountsInv, NEW c \in Callers, NEW s \in DOMAIN signIns,
           \/ \E p \in Pairs : AskUnpair(c, s, p)
           \/ \E u \in Persons, to \in {"admin", "member", "disable", "enable"} : AskPatch(c, s, u, to)
    PROVE  AccountsInv'
<1>1. UNCHANGED <<people, credentials, fresh, clock, adminLock>>
  BY DEF AskUnpair, AskPatch
<1>2. ASSUME NEW p \in Pairs, AskUnpair(c, s, p)
      PROVE  AccountsInv'
  <2> DEFINE q == Own(s, "unpair", "untag")
             r == [q EXCEPT !.pair = p]
  <2>1. /\ q \in Call /\ q.op = "unpair" /\ q.at = "untag" /\ q.who = signIns[s].user /\ q.session = s
        /\ q.creds.pair = NoPair /\ Known(signIns[s].user) /\ signIns[s].user # NoPerson /\ s # 0
    BY OwnType DEF Ops, OwnAt
  <2>2. AskFor(c, r)
    BY <1>2 DEF AskUnpair
  <2> HIDE DEF q
  <2>3. /\ r \in Call /\ r.op = "unpair" /\ r.at = "untag" /\ r.who = signIns[s].user /\ r.session = s
        /\ r.creds.pair = NoPair /\ r.pair = p
    BY <2>1 DEF Call
  <2> HIDE DEF r
  <2>4. CallShape(r) /\ r.at # "locked"
    BY <2>1, <2>3 DEF CallShape
  <2> QED  BY <1>1, <2>2, <2>3, <2>4, NewCalls
<1>3. ASSUME NEW u \in Persons, NEW to \in {"admin", "member", "disable", "enable"}, AskPatch(c, s, u, to)
      PROVE  AccountsInv'
  <2> DEFINE q == Own(s, "patch", "verify")
             r == [q EXCEPT !.target = u, !.to = to]
  <2>1. /\ q \in Call /\ q.op = "patch" /\ q.at = "verify" /\ q.who = signIns[s].user /\ q.session = s
        /\ q.creds.pair = NoPair /\ Known(signIns[s].user) /\ signIns[s].user # NoPerson /\ s # 0
    BY OwnType DEF Ops, OwnAt
  <2>2. AskFor(c, r) /\ Known(u)
    BY <1>3 DEF AskPatch, Known
  <2> HIDE DEF q
  <2>3. /\ r \in Call /\ r.op = "patch" /\ r.at = "verify" /\ r.who = signIns[s].user /\ r.session = s
        /\ r.creds.pair = NoPair /\ r.target = u
    BY <2>1 DEF Call
  <2> HIDE DEF r
  <2>4. CallShape(r) /\ r.at # "locked"
    BY <2>1, <2>2, <2>3 DEF CallShape
  <2> QED  BY <1>1, <2>2, <2>3, <2>4, NewCalls
<1> QED  BY <1>2, <1>3

\* Passkeys: an assertion is made, its authenticator counts.
LEMMA Asserts ==
    ASSUME AccountsInv, NEW c \in Callers, NEW r \in Call, AskAssert(c, r), CallShape(r), r.at # "locked",
           r.who \in Persons
    PROVE  AccountsInv'
<1>1. StateTypes /\ PeopleShape
  BY AccountsTypes DEF AccountsInv
<1>2. /\ call' = [call EXCEPT ![c] = r] /\ call[c].at = "idle" /\ callsLeft' \in Nat /\ UNCHANGED <<mix, adminLock>>
  BY AskedFor DEF AskAssert
<1>3. /\ AsideKept /\ UNCHANGED <<totp, fresh, clock, challenges, setupCode>>
      /\ passkey' = [passkey EXCEPT ![r.who] = [passkey[r.who] EXCEPT !.device = @ + 1]]
  BY DEF AskAssert, AsideKept, people
<1>4. [passkey[r.who] EXCEPT !.device = @ + 1] \in Passkey
      /\ [passkey[r.who] EXCEPT !.device = @ + 1].here = passkey[r.who].here
  <2>1. passkey[r.who] \in Passkey
    BY <1>1 DEF StateTypes
  <2> QED  BY <2>1 DEF Passkey
<1>5. passkey' \in [Persons -> Passkey] /\ \A u \in Persons : passkey'[u].here => passkey[u].here
  BY <1>1, <1>3, <1>4 DEF StateTypes
<1>6. Grow /\ StateTypes' /\ PeopleShape'
  BY <1>1, <1>2, <1>3, <1>5, Aside DEF StateTypes, PeopleShape
<1> QED  BY <1>2, <1>6, Moves

LEMMA PasskeyAsks ==
    ASSUME AccountsInv, NEW c \in Callers, NEW ch \in challenges,
           \/ \E u \in Persons : LoginByPasskey(c, u, ch.id)
           \/ \E s \in DOMAIN signIns : StepUpByPasskey(c, s, ch.id)
    PROVE  AccountsInv'
<1>0. StateTypes /\ PeopleShape /\ ch.id \in Nat
  BY AccountsTypes DEF AccountsInv, StateTypes, Challenge
<1>1. ASSUME NEW u \in Persons, LoginByPasskey(c, u, ch.id)
      PROVE  AccountsInv'
  <2> DEFINE k == passkey[u].device + 1
             creds == CredsOf(u, 0, NoPair)
             r == [IdleCall EXCEPT !.op = "passkey", !.at = "take", !.who = u, !.to = "login", !.n = ch.id,
                                   !.seen = {k}, !.creds = creds]
  <2>1. AskAssert(c, r)
    BY <1>1 DEF LoginByPasskey
  <2>2. Known(u) /\ u # NoPerson
    BY <1>0, <2>1, AccountsAssumption DEF AskAssert, PeopleShape, IdleCall
  <2>3. k \in Nat /\ creds \in Creds /\ creds.pair = NoPair
    BY <1>0, CredsType DEF StateTypes, Passkey
  <2> HIDE DEF k, creds
  <2>4. /\ r \in Call /\ r.op = "passkey" /\ r.at = "take" /\ r.who = u /\ r.to = "login" /\ r.session = 0
        /\ r.creds.pair = NoPair
    BY <1>0, <2>3 DEF IdleCall, Call, Ops, HandlerAt, Purposes
  <2> HIDE DEF r
  <2>5. CallShape(r) /\ r.at # "locked"
    BY <2>2, <2>4 DEF CallShape
  <2> QED  BY <2>1, <2>4, <2>5, Asserts
<1>2. ASSUME NEW s \in DOMAIN signIns, StepUpByPasskey(c, s, ch.id)
      PROVE  AccountsInv'
  <2> DEFINE k == passkey[signIns[s].user].device + 1
             q == Own(s, "passkey", "take")
             r == [q EXCEPT !.to = "step_up", !.n = ch.id, !.creds = NoCreds, !.seen = {k}]
  <2>1. AskAssert(c, r)
    BY <1>2 DEF StepUpByPasskey
  <2>2. /\ q \in Call /\ q.op = "passkey" /\ q.at = "take" /\ q.who = signIns[s].user /\ q.session = s
        /\ Known(signIns[s].user) /\ signIns[s].user # NoPerson /\ signIns[s].user \in Persons /\ s # 0
    BY OwnType DEF Ops, OwnAt
  <2>3. k \in Nat
    BY <1>0, <2>2 DEF StateTypes, Passkey
  <2> HIDE DEF k, q
  <2>4. NoCreds \in Creds /\ NoCreds.pair = NoPair
    BY DEF NoCreds, Creds
  <2>5. /\ r \in Call /\ r.op = "passkey" /\ r.at = "take" /\ r.who = signIns[s].user /\ r.session = s
        /\ r.to = "step_up" /\ r.creds.pair = NoPair
    BY <1>0, <2>2, <2>3, <2>4 DEF Call, Purposes
  <2> HIDE DEF r
  <2>6. CallShape(r) /\ r.at # "locked"
    BY <2>2, <2>5 DEF CallShape
  <2> QED  BY <2>1, <2>2, <2>5, <2>6, Asserts
<1> QED  BY <1>1, <1>2

\* What is asked for without a session.
LEMMA PlainAsks ==
    ASSUME AccountsInv, NEW c \in Callers,
           \/ \E u \in Persons : Setup(c, u) \/ Login(c, u) \/ AskLoginChallenge(c, u)
           \/ \E u \in Persons, n \in DOMAIN invites : AskAccept(c, u, n)
           \/ \E p \in Pairs : AskPairChallenge(c, p)
    PROVE  AccountsInv'
<1>0. StateTypes /\ PeopleShape
  BY AccountsTypes DEF AccountsInv
<1>1. UNCHANGED <<people, credentials, fresh, clock, adminLock>>
  BY DEF Setup, Login, AskLoginChallenge, AskAccept, AskPairChallenge
<1> SUFFICES \E r \in Call : AskFor(c, r) /\ CallShape(r) /\ r.at # "locked"
  BY <1>1, NewCalls
<1>2. ASSUME NEW u \in Persons, Setup(c, u)
      PROVE  \E r \in Call : AskFor(c, r) /\ CallShape(r) /\ r.at # "locked"
  <2> DEFINE r == [IdleCall EXCEPT !.op = "setup", !.at = "hash", !.who = u]
  <2>1. r \in Call /\ CallShape(r) /\ r.at # "locked"
    BY AccountsAssumption DEF IdleCall, NoCreds, Creds, Call, Ops, HandlerAt, CallShape
  <2> QED  BY <1>2, <2>1 DEF Setup
<1>3. ASSUME NEW u \in Persons, NEW n \in DOMAIN invites, AskAccept(c, u, n)
      PROVE  \E r \in Call : AskFor(c, r) /\ CallShape(r) /\ r.at # "locked"
  <2> DEFINE r == [IdleCall EXCEPT !.op = "accept", !.at = "hash", !.who = u, !.n = n]
  <2>1. n \in Nat
    BY <1>0, LenProperties DEF StateTypes
  <2>2. r \in Call /\ CallShape(r) /\ r.at # "locked"
    BY <2>1, AccountsAssumption DEF IdleCall, NoCreds, Creds, Call, Ops, HandlerAt, CallShape
  <2> QED  BY <1>3, <2>2 DEF AskAccept
<1>4. ASSUME NEW u \in Persons, Login(c, u)
      PROVE  \E r \in Call : AskFor(c, r) /\ CallShape(r) /\ r.at # "locked"
  <2> DEFINE creds == CredsOf(u, account[u].pw, NoPair)
             r == [IdleCall EXCEPT !.op = "login", !.at = "code", !.who = u, !.creds = creds]
  <2>1. creds \in Creds /\ creds.pair = NoPair
    BY <1>0, CredsType DEF StateTypes, Account
  <2>2. Known(u) /\ AskFor(c, r)
    BY <1>4 DEF Login, Known
  <2> HIDE DEF creds
  <2>3. r \in Call /\ CallShape(r) /\ r.at # "locked"
    BY <2>1, <2>2, AccountsAssumption DEF IdleCall, Call, Ops, HandlerAt, CallShape
  <2> QED  BY <2>2, <2>3
<1>5. ASSUME NEW u \in Persons, AskLoginChallenge(c, u)
      PROVE  \E r \in Call : AskFor(c, r) /\ CallShape(r) /\ r.at # "locked"
  <2> DEFINE r == [IdleCall EXCEPT !.op = "challenge", !.at = "delete", !.who = u, !.to = "login"]
  <2>1. Known(u) /\ AskFor(c, r)
    BY <1>0, <1>5 DEF AskLoginChallenge, PeopleShape
  <2>2. r \in Call /\ CallShape(r) /\ r.at # "locked"
    BY <2>1, AccountsAssumption DEF IdleCall, NoCreds, Creds, Call, Ops, HandlerAt, CallShape, Purposes
  <2> QED  BY <2>1, <2>2
<1>6. ASSUME NEW p \in Pairs, AskPairChallenge(c, p)
      PROVE  \E r \in Call : AskFor(c, r) /\ CallShape(r) /\ r.at # "locked"
  <2> DEFINE r == [IdleCall EXCEPT !.op = "challenge", !.at = "delete", !.pair = p, !.to = "pair"]
  <2>1. r \in Call /\ CallShape(r) /\ r.at # "locked"
    BY AccountsAssumption DEF IdleCall, NoCreds, Creds, Call, Ops, HandlerAt, CallShape, Purposes
  <2> QED  BY <1>6, <2>1 DEF AskPairChallenge
<1> QED  BY <1>2, <1>3, <1>4, <1>5, <1>6

-----------------------------------------------------------------------------
(* A request goes on, or is over.                                          *)

Fate(c) ==
    /\ call[c].at # "locked" /\ UNCHANGED <<bounds, adminLock>>
    /\ \E r \in Call : call' = [call EXCEPT ![c] = r] /\ CallShape(r) /\ r.at # "locked"

LEMMA CallIs ==
    ASSUME AccountsInv, NEW c \in Callers
    PROVE  call[c] \in Call /\ CallShape(call[c]) /\ call \in [Callers -> Call]
BY AccountsTypes DEF AccountsInv

LEMMA IsOver ==
    ASSUME AccountsInv, NEW c \in Callers, Done(c), call[c].at # "locked", UNCHANGED adminLock
    PROVE  Fate(c)
BY IdleType DEF Fate, Done

\* The places a request goes to without a change of its kind.
LEMMA GoesOn ==
    ASSUME AccountsInv, NEW c \in Callers, NEW at, Step(c, at), call[c].at # "locked", UNCHANGED adminLock,
           \/ at = "close"
           \/ at = "insert"
           \/ at = "mint" /\ call[c].at = "code"
           \/ at = "write" /\ call[c].at = "read" /\ call[c].op # "totp_confirm"
           \/ at = "count" /\ call[c].at = "take"
    PROVE  Fate(c)
<1> DEFINE q == call[c]
           r == [q EXCEPT !.at = at]
<1>1. q \in Call /\ CallShape(q) /\ call \in [Callers -> Call]
  BY CallIs
<1>2. call' = [call EXCEPT ![c] = r] /\ UNCHANGED bounds
  BY DEF Step
<1>3. \/ at = "close"
      \/ at = "insert"
      \/ at = "mint" /\ q.at = "code"
      \/ at = "write" /\ q.at = "read" /\ q.op # "totp_confirm"
      \/ at = "count" /\ q.at = "take"
  OBVIOUS
<1> HIDE DEF q
<1>4. /\ r \in Call /\ r.at = at /\ r.op = q.op /\ r.who = q.who /\ r.session = q.session /\ r.n = q.n
      /\ r.to = q.to /\ r.pair = q.pair /\ r.target = q.target /\ r.creds = q.creds
  BY <1>1, <1>3 DEF Call, HandlerAt
<1> HIDE DEF r
<1>5. CallShape(r) /\ r.at # "locked"
  BY <1>1, <1>3, <1>4 DEF CallShape
<1> QED  BY <1>2, <1>4, <1>5 DEF Fate

LEMMA FateKeeps ==
    ASSUME AccountsInv, NEW c \in Callers, Fate(c), Grow, StateTypes', PeopleShape'
    PROVE  AccountsInv'
BY Moves DEF Fate

LEMMA FateOnly ==
    ASSUME AccountsInv, NEW c \in Callers, Fate(c), UNCHANGED <<people, credentials, fresh, clock>>
    PROVE  AccountsInv'
<1>1. callsLeft \in Nat
  BY AccountsTypes DEF AccountsInv, StateTypes
<1> QED  BY <1>1, OnlyCall DEF Fate, bounds

LEMMA FateAside ==
    ASSUME AccountsInv, NEW c \in Callers, Fate(c), AsideKept,
           totp' \in [Persons -> Totp], fresh' \in Nat, UNCHANGED clock, passkey' \in [Persons -> Passkey],
           challenges' \in SUBSET Challenge, setupCode' \in BOOLEAN,
           \A u \in Persons : passkey'[u].here => Known(u),
           \A ch \in challenges' : ch.user # NoPerson => Known(ch.user)
    PROVE  AccountsInv'
<1>1. StateTypes
  BY AccountsTypes DEF AccountsInv
<1>2. clock' \in Nat /\ mix' \in Mixes /\ callsLeft' \in Nat
  BY <1>1 DEF StateTypes, Fate, bounds
<1> QED  BY <1>2, Aside, FateKeeps

-----------------------------------------------------------------------------
(* Steps that change what only their own request reads.                    *)

LEMMA CodeKeeps ==
    ASSUME AccountsInv, NEW c \in Callers, Code(c)
    PROVE  AccountsInv' /\ Fate(c)
<1>1. StateTypes /\ PeopleShape /\ call[c] \in Call /\ CallShape(call[c])
  BY AccountsTypes, CallIs DEF AccountsInv
<1>2. call[c].at = "code" /\ UNCHANGED <<account, signIns, credentials, fresh, clock, adminLock>>
  BY DEF Code
<1>3. Step(c, "mint") \/ Done(c)
  BY DEF Code
<1>4. Fate(c)
  BY <1>2, <1>3, IsOver, GoesOn
<1>5. totp' \in [Persons -> Totp]
  <2>1. CASE totp' = totp
    BY <1>1, <2>1 DEF StateTypes
  <2>2. ASSUME NEW k \in Window, totp' = [totp EXCEPT ![call[c].who].last = k]
        PROVE  totp' \in [Persons -> Totp]
    <3>1. k \in Nat
      BY <1>1 DEF Window, StateTypes
    <3> QED  BY <1>1, <2>2, <3>1 DEF StateTypes, Totp
  <2> QED  BY <2>1, <2>2 DEF Code
<1>6. AsideKept /\ UNCHANGED <<clock, passkey, challenges, setupCode, fresh>>
  BY <1>2 DEF AsideKept, credentials
<1> QED  BY <1>1, <1>4, <1>5, <1>6, FateAside DEF StateTypes, PeopleShape

LEMMA TotpKeeps ==
    ASSUME AccountsInv, NEW c \in Callers, EnrollTotp(c) \/ ConfirmTotp(c) \/ DisableTotp(c)
    PROVE  AccountsInv' /\ Fate(c)
<1>1. StateTypes /\ PeopleShape /\ call[c] \in Call /\ CallShape(call[c])
  BY AccountsTypes, CallIs DEF AccountsInv
<1>2. call[c].at = "write" /\ Done(c) /\ UNCHANGED <<account, signIns, credentials, clock, adminLock>>
  BY DEF EnrollTotp, ConfirmTotp, DisableTotp, Is
<1>3. Fate(c)
  BY <1>2, IsOver
<1>4. totp' \in [Persons -> Totp] /\ fresh' \in Nat
  <2>1. CASE EnrollTotp(c)
    <3>1. fresh \in Nat /\ fresh' \in Nat
      BY <1>1, <2>1 DEF EnrollTotp, StateTypes
    <3> QED  BY <1>1, <2>1, <3>1 DEF EnrollTotp, StateTypes, Totp
  <2>2. CASE ConfirmTotp(c)
    <3>1. call[c].n \in Nat
      BY <1>1 DEF Call
    <3> QED  BY <1>1, <2>2, <3>1 DEF ConfirmTotp, StateTypes, Totp
  <2>3. CASE DisableTotp(c)
    BY <1>1, <2>3 DEF DisableTotp, StateTypes, Totp
  <2> QED  BY <2>1, <2>2, <2>3
<1>5. AsideKept /\ UNCHANGED <<clock, passkey, challenges, setupCode>>
  BY <1>2 DEF AsideKept, credentials
<1> QED  BY <1>1, <1>3, <1>4, <1>5, FateAside DEF StateTypes, PeopleShape

LEMMA ReadTotpKeeps ==
    ASSUME AccountsInv, NEW c \in Callers, ReadTotp(c)
    PROVE  AccountsInv' /\ Fate(c)
<1> DEFINE q == call[c]
           t == totp[call[c].who]
<1>1. StateTypes /\ q \in Call /\ CallShape(q) /\ call \in [Callers -> Call]
  BY AccountsTypes, CallIs DEF AccountsInv
<1>2. call[c].at = "read" /\ UNCHANGED <<people, credentials, fresh, clock, adminLock>>
  BY DEF ReadTotp
<1>3. call[c].op \in {"totp_enroll", "totp_disable", "totp_confirm"} /\ call[c].who \in Persons
  BY <1>1, <1>2 DEF CallShape, Call
<1>4. CASE Done(c)
  BY <1>2, <1>4, IsOver, FateOnly
<1>5. CASE Step(c, "write") /\ call[c].op # "totp_confirm"
  BY <1>2, <1>5, GoesOn, FateOnly
<1>6. ASSUME NEW k \in Window, call[c].op = "totp_confirm", UNCHANGED bounds,
             call' = [call EXCEPT ![c].at = "write", ![c].n = k, ![c].creds.secret = t.pending]
      PROVE  Fate(c)
  <2> DEFINE pending == t.pending
             r == [q EXCEPT !.at = "write", !.n = k, !.creds.secret = pending]
  <2>1. k \in Nat /\ k > 0 /\ pending \in Nat
    BY <1>1, <1>3 DEF Window, StateTypes, Totp
  <2>2. call' = [call EXCEPT ![c] = r]
    BY <1>1, <1>6
  <2>3. q.creds \in Creds /\ q.op = "totp_confirm" /\ q.at = "read"
    BY <1>1, <1>2, <1>6 DEF Call
  <2> HIDE DEF pending, q
  <2>4. /\ r \in Call /\ r.at = "write" /\ r.op = q.op /\ r.who = q.who /\ r.session = q.session /\ r.n = k
        /\ r.to = q.to /\ r.pair = q.pair /\ r.target = q.target /\ r.creds.pair = q.creds.pair
    BY <1>1, <2>1, <2>3 DEF Call, HandlerAt, Creds
  <2> HIDE DEF r
  <2>5. CallShape(r) /\ r.at # "locked"
    BY <1>1, <2>1, <2>3, <2>4 DEF CallShape
  <2> QED  BY <1>2, <1>6, <2>2, <2>4, <2>5 DEF Fate
<1>7. \/ Done(c)
      \/ Step(c, "write") /\ call[c].op # "totp_confirm"
      \/ /\ call[c].op = "totp_confirm" /\ UNCHANGED bounds
         /\ \E k \in Window : call' = [call EXCEPT ![c].at = "write", ![c].n = k, ![c].creds.secret = t.pending]
  BY <1>3 DEF ReadTotp
<1> HIDE DEF q, t
<1> QED  BY <1>2, <1>4, <1>5, <1>6, <1>7, FateOnly, IsOver, GoesOn

LEMMA SetupCloses ==
    ASSUME AccountsInv, NEW c \in Callers, CloseSetup(c)
    PROVE  AccountsInv' /\ Fate(c)
<1>1. StateTypes /\ PeopleShape
  BY AccountsTypes DEF AccountsInv
<1>2. Fate(c)
  BY IsOver DEF CloseSetup, Is
<1>3. AsideKept /\ setupCode' = FALSE /\ UNCHANGED <<totp, fresh, clock, passkey, challenges>>
  BY DEF CloseSetup, AsideKept, people
<1> QED  BY <1>1, <1>2, <1>3, FateAside DEF StateTypes, PeopleShape

-----------------------------------------------------------------------------
(* Passkeys.                                                               *)

LEMMA ChallengesMove ==
    ASSUME AccountsInv, NEW c \in Callers, Fate(c), AsideKept, fresh' \in Nat, challenges' \in SUBSET Challenge,
           \A ch \in challenges' : ch \in challenges \/ (ch.user # NoPerson => Known(ch.user)),
           UNCHANGED <<totp, clock, passkey, setupCode>>
    PROVE  AccountsInv'
<1>1. StateTypes /\ PeopleShape
  BY AccountsTypes DEF AccountsInv
<1> QED  BY <1>1, FateAside DEF StateTypes, PeopleShape

LEMMA ChallengesKeep ==
    ASSUME AccountsInv, NEW c \in Callers, DropChallenges(c) \/ StoreChallenge(c) \/ TakeChallenge(c)
    PROVE  AccountsInv' /\ Fate(c)
<1>1. StateTypes /\ PeopleShape /\ call[c] \in Call /\ CallShape(call[c])
  BY AccountsTypes, CallIs DEF AccountsInv
<1>2. AsideKept /\ UNCHANGED <<totp, clock, passkey, setupCode, adminLock>>
  BY DEF AsideKept, people, DropChallenges, StoreChallenge, TakeChallenge
<1>3. CASE DropChallenges(c)
  <2>1. Fate(c)
    BY <1>2, <1>3, GoesOn DEF DropChallenges, Is
  <2>2. challenges' \subseteq challenges /\ UNCHANGED fresh
    BY <1>3 DEF DropChallenges
  <2> QED  BY <1>1, <1>2, <2>1, <2>2, ChallengesMove DEF StateTypes
<1>4. CASE StoreChallenge(c)
  <2>1. Fate(c)
    BY <1>2, <1>4, IsOver DEF StoreChallenge, Is
  <2> DEFINE new == [id |-> fresh, purpose |-> call[c].to, user |-> call[c].who,
                     pair |-> call[c].pair, used |-> FALSE]
  <2>2. call[c].op = "challenge"
    BY <1>4 DEF StoreChallenge, Is
  <2>3. call[c].to \in Purposes /\ (call[c].who # NoPerson => Known(call[c].who))
    BY <1>1, <2>2 DEF CallShape
  <2>4. new \in Challenge /\ new.user = call[c].who
    BY <1>1, <2>3 DEF Challenge, Call, StateTypes
  <2>5. \/ UNCHANGED <<challenges, fresh>>
        \/ challenges' = challenges \union {new} /\ fresh' = fresh + 1
    BY <1>4 DEF StoreChallenge
  <2> HIDE DEF new
  <2>6. challenges' \in SUBSET Challenge /\ fresh' \in Nat
    BY <1>1, <2>4, <2>5 DEF StateTypes
  <2>7. \A ch \in challenges' : ch \in challenges \/ (ch.user # NoPerson => Known(ch.user))
    BY <2>3, <2>4, <2>5
  <2> QED  BY <1>2, <2>1, <2>6, <2>7, ChallengesMove
<1>5. CASE TakeChallenge(c)
  <2>1. call[c].at = "take" /\ (Done(c) \/ Step(c, "count"))
    BY <1>5 DEF TakeChallenge
  <2>2. Fate(c)
    BY <1>2, <2>1, IsOver, GoesOn
  <2>3. challenges' \subseteq challenges /\ UNCHANGED fresh
    BY <1>5 DEF TakeChallenge, Taken
  <2> QED  BY <1>1, <1>2, <2>2, <2>3, ChallengesMove DEF StateTypes
<1> QED  BY <1>3, <1>4, <1>5

LEMMA PasskeyMoves ==
    ASSUME AccountsInv, NEW c \in Callers, Fate(c), AsideKept, passkey' \in [Persons -> Passkey],
           \A u \in Persons : passkey'[u].here => passkey[u].here \/ (u = call[c].who /\ Known(u)),
           UNCHANGED <<totp, clock, challenges, fresh, setupCode>>
    PROVE  AccountsInv'
<1>1. StateTypes /\ PeopleShape
  BY AccountsTypes DEF AccountsInv
<1> QED  BY <1>1, FateAside DEF StateTypes, PeopleShape

LEMMA PasskeysKeep ==
    ASSUME AccountsInv, NEW c \in Callers, RegisterPasskey(c) \/ CountAssertion(c)
    PROVE  AccountsInv' /\ Fate(c)
<1> DEFINE q == call[c]
           u == call[c].who
<1>1. StateTypes /\ PeopleShape /\ q \in Call /\ CallShape(q) /\ call \in [Callers -> Call]
  BY AccountsTypes, CallIs DEF AccountsInv
<1>2. AsideKept /\ UNCHANGED <<totp, clock, challenges, fresh, setupCode, adminLock>> /\ q.at = "count"
  BY DEF AsideKept, people, RegisterPasskey, CountAssertion, Is
<1>3. u \in Persons /\ Known(u) /\ q.who = u /\ passkey[u] \in Passkey
  <2>1. q.who # NoPerson /\ q.op \in {"register", "passkey"}
    BY <1>1, <1>2 DEF CallShape
  <2>2. Known(q.who) /\ q.who \in Persons
    BY <1>1, <2>1 DEF CallShape, Call
  <2> QED  BY <1>1, <2>2 DEF StateTypes
<1>4. CASE RegisterPasskey(c)
  <2>1. Fate(c)
    BY <1>2, <1>4, IsOver DEF RegisterPasskey
  <2>2. passkey' = [passkey EXCEPT ![u].here = TRUE]
    BY <1>4 DEF RegisterPasskey
  <2> HIDE DEF u
  <2>3. passkey' \in [Persons -> Passkey] /\ \A v \in Persons : passkey'[v].here => passkey[v].here \/ (v = u /\ Known(v))
    BY <1>1, <1>3, <2>2 DEF StateTypes, Passkey
  <2> QED  BY <1>2, <2>1, <2>3, PasskeyMoves DEF u
<1>5. ASSUME NEW k \in q.seen, CountAssertion(c), UNCHANGED bounds,
             passkey' = [passkey EXCEPT ![u].count = k],
             call' = [call EXCEPT ![c].at = IF call[c].to = "login" THEN "code" ELSE "write",
                                  ![c].op = IF call[c].to = "login" THEN "login" ELSE "step_up"]
      PROVE  AccountsInv' /\ Fate(c)
  <2> DEFINE at == IF q.to = "login" THEN "code" ELSE "write"
             op == IF q.to = "login" THEN "login" ELSE "step_up"
             r == [q EXCEPT !.at = at, !.op = op]
  <2>0. k \in Nat /\ q.op = "passkey"
    BY <1>1, <1>5 DEF Call, CountAssertion, Is
  <2>1. call' = [call EXCEPT ![c] = r]
    BY <1>1, <1>5
  <2>a. at \in HandlerAt /\ op \in Ops
    BY DEF HandlerAt, Ops
  <2> HIDE DEF q, u, at, op
  <2>2. /\ r \in Call /\ r.at = at /\ r.op = op /\ r.who = q.who /\ r.session = q.session /\ r.n = q.n
        /\ r.to = q.to /\ r.pair = q.pair /\ r.target = q.target /\ r.creds = q.creds
    BY <1>1, <2>a DEF Call
  <2> HIDE DEF r
  <2>3. CallShape(r) /\ r.at # "locked"
    BY <1>1, <1>2, <2>0, <2>2 DEF CallShape, at, op
  <2>4. call[c].at # "locked"
    BY <1>2 DEF q
  <2>5. Fate(c)
    BY <1>2, <1>5, <2>1, <2>2, <2>3, <2>4 DEF Fate
  <2>6. passkey' \in [Persons -> Passkey] /\ \A v \in Persons : passkey'[v].here => passkey[v].here
    BY <1>1, <1>3, <1>5, <2>0 DEF StateTypes, Passkey
  <2> QED  BY <1>2, <2>5, <2>6, PasskeyMoves
<1>6. CASE CountAssertion(c) /\ Done(c) /\ UNCHANGED passkey
  <2>1. Fate(c)
    BY <1>2, <1>6, IsOver
  <2> QED  BY <1>1, <1>2, <1>6, <2>1, PasskeyMoves DEF StateTypes
<1> QED  BY <1>4, <1>5, <1>6 DEF CountAssertion

-----------------------------------------------------------------------------
(* Steps that change accounts, sessions and invites.                       *)

LEMMA Appended ==
    ASSUME NEW S, NEW q \in Seq(S), NEW x \in S
    PROVE  /\ Append(q, x) \in Seq(S) /\ DOMAIN q \subseteq DOMAIN Append(q, x)
           /\ \A n \in DOMAIN q : Append(q, x)[n] = q[n]
           /\ Len(q) + 1 \in DOMAIN Append(q, x) /\ Append(q, x)[Len(q) + 1] = x
           /\ \A n \in DOMAIN Append(q, x) : n \in DOMAIN q \/ n = Len(q) + 1
           /\ Len(q) + 1 \notin DOMAIN q /\ Len(q) \in Nat
<1>1. Len(q) \in Nat /\ DOMAIN q = 1 .. Len(q)
  BY LenProperties
<1>2. /\ Append(q, x) \in Seq(S) /\ Len(Append(q, x)) = Len(q) + 1
      /\ \A i \in 1 .. Len(q) : Append(q, x)[i] = q[i]
      /\ Append(q, x)[Len(q) + 1] = x
  BY AppendProperties
<1>3. DOMAIN Append(q, x) = 1 .. Len(q) + 1
  BY <1>2, LenProperties
<1> QED  BY <1>1, <1>2, <1>3

LEMMA SessionAdded ==
    ASSUME signIns \in Seq(SignIn), NEW x \in SignIn, signIns' = Append(signIns, x)
    PROVE  /\ signIns' \in Seq(SignIn)
           /\ \A s \in DOMAIN signIns : s \in DOMAIN signIns' /\ signIns'[s] = signIns[s]
           /\ \A s \in DOMAIN signIns' : s \in DOMAIN signIns \/ signIns'[s] = x
<1>1. /\ Append(signIns, x) \in Seq(SignIn) /\ DOMAIN signIns \subseteq DOMAIN Append(signIns, x)
      /\ \A n \in DOMAIN signIns : Append(signIns, x)[n] = signIns[n]
      /\ Append(signIns, x)[Len(signIns) + 1] = x
      /\ \A n \in DOMAIN Append(signIns, x) : n \in DOMAIN signIns \/ n = Len(signIns) + 1
  BY Appended, Zenon
<1> QED  BY <1>1

LEMMA Rewritten ==
    ASSUME NEW S, NEW q \in Seq(S), NEW f \in [DOMAIN q -> S]
    PROVE  f \in Seq(S) /\ DOMAIN f = DOMAIN q
<1>1. Len(q) \in Nat /\ DOMAIN q = 1 .. Len(q)
  BY LenProperties
<1> QED  BY <1>1, IsASeq

LEMMA PeopleMove ==
    ASSUME AccountsInv, account' \in [Persons -> Account], \A u \in Persons : Known(u) => Known(u)',
           signIns' \in Seq(SignIn),
           \A s \in DOMAIN signIns : s \in DOMAIN signIns' /\ signIns'[s].user = signIns[s].user,
           \A s \in DOMAIN signIns' : s \in DOMAIN signIns \/ Known(signIns[s].user)',
           invites' \in Seq(Invite), DOMAIN invites \subseteq DOMAIN invites',
           bootstrapped' \in Persons \union {NoPerson},
           bootstrapped' = NoPerson => /\ bootstrapped = NoPerson /\ invites' = invites
                                       /\ \A u \in Persons : Known(u)' => Known(u),
           UNCHANGED <<totp, fresh, clock, pairs, unpaired, passkey, challenges, setupCode, mix>>, callsLeft' \in Nat
    PROVE  Grow /\ StateTypes' /\ PeopleShape'
<1>1. StateTypes /\ PeopleShape
  BY AccountsTypes DEF AccountsInv
<1>2. StateTypes'
  BY <1>1 DEF StateTypes
<1>3. Grow
  BY DEF Grow
<1>4. \A u \in Persons : passkey'[u].here => Known(u)'
  BY <1>1 DEF PeopleShape
<1>5. \A p \in Pairs : pairs'[p] # NoPerson => Known(pairs[p])' /\ p \notin unpaired'
  <2>1. \A p \in Pairs : pairs[p] # NoPerson => pairs[p] \in Persons
    BY <1>1 DEF StateTypes
  <2> QED  BY <1>1, <2>1 DEF PeopleShape, Known
<1>6. \A ch \in challenges' : ch.user # NoPerson => Known(ch.user)'
  <2>1. \A ch \in challenges : ch.user # NoPerson => ch.user \in Persons
    BY <1>1 DEF StateTypes, Challenge
  <2> QED  BY <1>1, <2>1 DEF PeopleShape, Known
<1>7. \A s \in DOMAIN signIns' : Known(signIns[s].user)'
  <2>1. \A s \in DOMAIN signIns : signIns[s].user \in Persons /\ Known(signIns[s].user)
    BY <1>1, SessionType DEF StateTypes, PeopleShape
  <2> QED  BY <2>1 DEF Known
<1>8. bootstrapped' = NoPerson => invites' = << >> /\ \A u \in Persons : ~Known(u)'
  BY <1>1 DEF PeopleShape
<1> QED  BY <1>2, <1>3, <1>4, <1>5, <1>6, <1>7, <1>8 DEF PeopleShape, Known

\* The parts of a state that a request on people leaves alone.
PeopleOnly == UNCHANGED <<totp, fresh, clock, pairs, unpaired, passkey, challenges, setupCode>>

LEMMA BoundsType ==
    ASSUME AccountsInv, NEW c \in Callers, Fate(c)
    PROVE  callsLeft' \in Nat /\ UNCHANGED mix
BY AccountsTypes DEF AccountsInv, StateTypes, Fate, bounds

LEMMA NewUserMoves ==
    ASSUME AccountsInv, NEW u \in Persons, NEW admin \in BOOLEAN, NEW n \in Nat, NewUser(u, admin, n)
    PROVE  /\ account' \in [Persons -> Account] /\ \A v \in Persons : Known(v) => Known(v)'
           /\ signIns' \in Seq(SignIn)
           /\ \A s \in DOMAIN signIns : s \in DOMAIN signIns' /\ signIns'[s].user = signIns[s].user
           /\ \A s \in DOMAIN signIns' : s \in DOMAIN signIns \/ Known(signIns[s].user)'
<1>1. StateTypes
  BY AccountsTypes DEF AccountsInv
<1> DEFINE x == NewSignIn(u, NoPair, 1, FALSE)
<1>2. x \in SignIn /\ x.user = u
  BY DEF NewSignIn, SignIn
<1>3. signIns' = Append(signIns, x)
  BY DEF NewUser
<1>4. account' \in [Persons -> Account] /\ (\A v \in Persons : Known(v) => Known(v)') /\ Known(u)'
  BY <1>1 DEF NewUser, StateTypes, Account, Known
<1> HIDE DEF x
<1>5. /\ signIns' \in Seq(SignIn)
      /\ \A s \in DOMAIN signIns : s \in DOMAIN signIns' /\ signIns'[s] = signIns[s]
      /\ \A s \in DOMAIN signIns' : s \in DOMAIN signIns \/ signIns'[s] = x
  BY <1>1, <1>2, <1>3, SessionAdded DEF StateTypes
<1> QED  BY <1>2, <1>4, <1>5 DEF Known

LEMMA SetupKeeps ==
    ASSUME AccountsInv, NEW c \in Callers, CompleteSetup(c)
    PROVE  AccountsInv' /\ Fate(c)
<1>1. StateTypes /\ PeopleShape /\ call[c] \in Call /\ CallShape(call[c])
  BY AccountsTypes, CallIs DEF AccountsInv
<1>2. /\ UNCHANGED <<fresh, clock, invites, pairs, unpaired, passkey, challenges, setupCode, adminLock>>
      /\ call[c].at = "hash"
  BY DEF CompleteSetup, Is
<1>3. call[c].who \in Persons
  BY <1>1, <1>2 DEF CallShape, Call
<1>4. CASE NewUser(call[c].who, TRUE, 0) /\ bootstrapped' = call[c].who /\ Step(c, "close")
  <2>1. Fate(c)
    BY <1>2, <1>4, GoesOn
  <2>2. bootstrapped' # NoPerson /\ bootstrapped' \in Persons \union {NoPerson} /\ totp' = totp
    BY <1>3, <1>4, AccountsAssumption DEF NewUser
  <2>3. Grow /\ StateTypes' /\ PeopleShape'
    BY <1>1, <1>2, <1>3, <1>4, <2>1, <2>2, NewUserMoves, PeopleMove, BoundsType DEF StateTypes
  <2> QED  BY <2>1, <2>3, FateKeeps
<1>5. CASE Done(c) /\ UNCHANGED <<people, bootstrapped>>
  <2>1. Fate(c)
    BY <1>2, <1>5, IsOver
  <2> QED  BY <1>2, <1>5, <2>1, FateOnly DEF credentials
<1> QED  BY <1>4, <1>5 DEF CompleteSetup

LEMMA AcceptKeeps ==
    ASSUME AccountsInv, NEW c \in Callers, AcceptInvite(c)
    PROVE  AccountsInv' /\ Fate(c)
<1>1. StateTypes /\ PeopleShape /\ call[c] \in Call /\ CallShape(call[c])
  BY AccountsTypes, CallIs DEF AccountsInv
<1>2. /\ UNCHANGED <<fresh, clock, pairs, unpaired, passkey, challenges, setupCode, bootstrapped, adminLock>>
      /\ call[c].at = "hash" /\ call[c].op = "accept" /\ Done(c)
  BY DEF AcceptInvite, Is
<1>3. call[c].who \in Persons /\ call[c].n \in DOMAIN invites /\ call[c].n \in Nat /\ Fate(c)
  BY <1>1, <1>2, IsOver DEF CallShape, Call
<1>4. CASE NewUser(call[c].who, FALSE, call[c].n) /\ invites' = [invites EXCEPT ![call[c].n] = "used"]
  <2>1. invites' \in [DOMAIN invites -> Invite]
    <3>1. invites \in [DOMAIN invites -> Invite]
      BY <1>1, LenProperties DEF StateTypes
    <3> QED  BY <1>4, <3>1 DEF Invite
  <2>2. invites' \in Seq(Invite) /\ DOMAIN invites' = DOMAIN invites
    BY <1>1, <2>1, Rewritten DEF StateTypes
  <2>3. bootstrapped # NoPerson /\ totp' = totp
    BY <1>1, <1>3, <1>4, EmptySeq DEF PeopleShape, NewUser
  <2>4. Grow /\ StateTypes' /\ PeopleShape'
    BY <1>1, <1>2, <1>3, <1>4, <2>2, <2>3, NewUserMoves, PeopleMove, BoundsType DEF StateTypes
  <2> QED  BY <1>3, <2>4, FateKeeps
<1>5. CASE UNCHANGED <<people, invites>>
  BY <1>2, <1>3, <1>5, FateOnly DEF credentials
<1> QED  BY <1>4, <1>5 DEF AcceptInvite

LEMMA InvitesKeep ==
    ASSUME AccountsInv, NEW c \in Callers, CreateInvite(c) \/ RevokeInvite(c)
    PROVE  AccountsInv' /\ Fate(c)
<1>1. StateTypes /\ PeopleShape /\ call[c] \in Call /\ CallShape(call[c])
  BY AccountsTypes, CallIs DEF AccountsInv
<1>2. /\ UNCHANGED <<people, fresh, clock, pairs, unpaired, passkey, challenges, setupCode, bootstrapped, adminLock>>
      /\ call[c].at = "write" /\ call[c].op \in {"invite", "uninvite"} /\ Done(c)
  BY DEF CreateInvite, RevokeInvite, Is
<1>3. Fate(c)
  BY <1>2, IsOver
<1>4. bootstrapped # NoPerson
  BY <1>1, <1>2 DEF CallShape, PeopleShape, Call
<1>5. invites' \in Seq(Invite) /\ DOMAIN invites \subseteq DOMAIN invites'
  <2>1. CASE CreateInvite(c)
    BY <1>1, <2>1, Appended DEF CreateInvite, StateTypes, Invite
  <2>2. CASE RevokeInvite(c)
    <3>1. invites \in [DOMAIN invites -> Invite]
      BY <1>1, LenProperties DEF StateTypes
    <3>2. invites' \in [DOMAIN invites -> Invite]
      BY <2>2, <3>1 DEF RevokeInvite, Invite
    <3> QED  BY <1>1, <3>2, Rewritten DEF StateTypes
  <2> QED  BY <2>1, <2>2
<1>6. Grow /\ StateTypes' /\ PeopleShape'
  BY <1>1, <1>2, <1>3, <1>4, <1>5, PeopleMove, BoundsType DEF StateTypes, people, PeopleShape, Known
<1> QED  BY <1>3, <1>6, FateKeeps

\* The sessions change, and passwords.
LEMMA SessionsMove ==
    ASSUME AccountsInv, account' \in [Persons -> Account], \A u \in Persons : Known(u) <=> Known(u)',
           signIns' \in Seq(SignIn),
           \A s \in DOMAIN signIns : s \in DOMAIN signIns' /\ signIns'[s].user = signIns[s].user,
           \A s \in DOMAIN signIns' : s \in DOMAIN signIns \/ Known(signIns[s].user)',
           UNCHANGED <<totp, credentials, fresh, clock, mix>>, callsLeft' \in Nat
    PROVE  Grow /\ StateTypes' /\ PeopleShape'
<1>1. StateTypes
  BY AccountsTypes DEF AccountsInv
<1>2. UNCHANGED <<invites, pairs, unpaired, passkey, challenges, setupCode, bootstrapped>>
  BY DEF credentials
<1> QED  BY <1>1, <1>2, PeopleMove DEF StateTypes

LEMMA MintKeeps ==
    ASSUME AccountsInv, NEW c \in Callers, Mint(c)
    PROVE  AccountsInv' /\ Fate(c)
<1>1. StateTypes /\ PeopleShape /\ call[c] \in Call /\ CallShape(call[c])
  BY AccountsTypes, CallIs DEF AccountsInv
<1>2. UNCHANGED <<account, totp, credentials, fresh, clock, adminLock>> /\ call[c].at = "mint" /\ Done(c)
  BY DEF Mint, Is
<1>3. Fate(c)
  BY <1>2, IsOver
<1>4. call[c].who \in Persons /\ Known(call[c].who)
  BY <1>1, <1>2 DEF CallShape, Call
<1>5. CASE UNCHANGED signIns
  BY <1>2, <1>3, <1>5, FateOnly DEF people
<1>6. ASSUME NEW late \in BOOLEAN,
             signIns' = Append(signIns, NewSignIn(call[c].who, call[c].creds.pair, call[c].creds.pw, late))
      PROVE  AccountsInv'
  <2>1. call[c].creds.pair \in Pairs \union {NoPair} /\ call[c].creds.pw \in Nat
    BY <1>1 DEF Call, Creds
  <2> DEFINE x == NewSignIn(call[c].who, call[c].creds.pair, call[c].creds.pw, late)
  <2>2. x \in SignIn /\ x.user = call[c].who
    BY <1>4, <2>1 DEF NewSignIn, SignIn
  <2>3. signIns' = Append(signIns, x)
    BY <1>6
  <2> HIDE DEF x
  <2>4. /\ signIns' \in Seq(SignIn)
        /\ \A s \in DOMAIN signIns : s \in DOMAIN signIns' /\ signIns'[s] = signIns[s]
        /\ \A s \in DOMAIN signIns' : s \in DOMAIN signIns \/ signIns'[s] = x
    BY <1>1, <2>2, <2>3, SessionAdded DEF StateTypes
  <2>5. \A u \in Persons : Known(u) <=> Known(u)'
    BY <1>2 DEF Known
  <2>6. \A s \in DOMAIN signIns' : s \in DOMAIN signIns \/ Known(signIns[s].user)'
    BY <1>2, <1>4, <2>2, <2>4 DEF Known
  <2>7. Grow /\ StateTypes' /\ PeopleShape'
    BY <1>1, <1>2, <1>3, <2>4, <2>5, <2>6, SessionsMove, BoundsType DEF StateTypes
  <2> QED  BY <1>3, <2>7, FateKeeps
<1>7. \/ UNCHANGED signIns
      \/ \E late \in BOOLEAN :
            signIns' = Append(signIns, NewSignIn(call[c].who, call[c].creds.pair, call[c].creds.pw, late))
  <2> DEFINE late == \/ account[call[c].who].is = "disabled"
                     \/ call[c].creds.pw # 0 /\ call[c].creds.pw # account[call[c].who].pw
                     \/ call[c].creds.pair # NoPair /\ Unpairing(call[c].creds.pair)
  <2>1. late \in BOOLEAN
    BY Zenon
  <2>2. \/ UNCHANGED signIns
        \/ signIns' = Append(signIns, NewSignIn(call[c].who, call[c].creds.pair, call[c].creds.pw, late))
    BY DEF Mint
  <2> HIDE DEF late
  <2> QED  BY <2>1, <2>2
<1> QED  BY <1>3, <1>5, <1>6, <1>7

LEMMA RevokedType ==
    ASSUME signIns \in Seq(SignIn), NEW u, NEW keep
    PROVE  /\ Revoked(u, keep) \in [DOMAIN signIns -> SignIn]
           /\ \A s \in DOMAIN signIns :
                /\ Revoked(u, keep)[s].user = signIns[s].user /\ Revoked(u, keep)[s].pw = signIns[s].pw
                /\ Revoked(u, keep)[s].by = signIns[s].by /\ Revoked(u, keep)[s].late = signIns[s].late
                /\ Revoked(u, keep)[s].pair = signIns[s].pair
                /\ Revoked(u, keep)[s].live => signIns[s].live /\ (signIns[s].user # u \/ s = keep)
<1>1. ASSUME NEW s \in DOMAIN signIns
      PROVE  /\ Revoked(u, keep)[s] \in SignIn
             /\ Revoked(u, keep)[s].user = signIns[s].user /\ Revoked(u, keep)[s].pw = signIns[s].pw
             /\ Revoked(u, keep)[s].by = signIns[s].by /\ Revoked(u, keep)[s].late = signIns[s].late
             /\ Revoked(u, keep)[s].pair = signIns[s].pair
             /\ Revoked(u, keep)[s].live => signIns[s].live /\ (signIns[s].user # u \/ s = keep)
  <2>1. signIns[s] \in SignIn
    BY SessionType
  <2>2. CASE signIns[s].user = u /\ s # keep
    <3>1. Revoked(u, keep)[s] = [signIns[s] EXCEPT !.live = FALSE]
      BY <2>2 DEF Revoked
    <3> QED  BY <2>1, <3>1 DEF SignIn
  <2>3. CASE ~(signIns[s].user = u /\ s # keep)
    <3>1. Revoked(u, keep)[s] = signIns[s]
      BY <2>3 DEF Revoked
    <3> QED  BY <2>1, <2>3, <3>1
  <2> QED  BY <2>2, <2>3
<1>2. Revoked(u, keep) \in [DOMAIN signIns -> SignIn]
  BY <1>1 DEF Revoked
<1> QED  BY <1>1, <1>2

LEMMA SessionsRewritten ==
    ASSUME AccountsInv, signIns' \in [DOMAIN signIns -> SignIn],
           \A s \in DOMAIN signIns : signIns'[s].user = signIns[s].user,
           account' \in [Persons -> Account], \A u \in Persons : Known(u) <=> Known(u)',
           UNCHANGED <<totp, credentials, fresh, clock, mix>>, callsLeft' \in Nat
    PROVE  Grow /\ StateTypes' /\ PeopleShape'
<1>1. StateTypes
  BY AccountsTypes DEF AccountsInv
<1>2. signIns' \in Seq(SignIn) /\ DOMAIN signIns' = DOMAIN signIns
  BY <1>1, Rewritten DEF StateTypes
<1> QED  BY <1>2, SessionsMove

\* One field of one session.
LEMMA SessionsOne ==
    ASSUME signIns \in Seq(SignIn), NEW n \in DOMAIN signIns,
           \/ signIns' = [signIns EXCEPT ![n].live = FALSE]
           \/ \E b \in BOOLEAN : signIns' = [signIns EXCEPT ![n].stepped = b]
    PROVE  /\ signIns' \in [DOMAIN signIns -> SignIn]
           /\ \A s \in DOMAIN signIns :
                /\ signIns'[s].user = signIns[s].user /\ signIns'[s].pw = signIns[s].pw
                /\ signIns'[s].by = signIns[s].by /\ signIns'[s].late = signIns[s].late
                /\ signIns'[s].pair = signIns[s].pair
                /\ signIns'[s].live => signIns[s].live
<1>1. signIns \in [DOMAIN signIns -> SignIn] /\ signIns[n] \in SignIn
  BY SessionType
<1>2. CASE signIns' = [signIns EXCEPT ![n].live = FALSE]
  <2>1. [signIns[n] EXCEPT !.live = FALSE] \in SignIn
    BY <1>1 DEF SignIn
  <2> QED  BY <1>1, <1>2, <2>1 DEF SignIn
<1>3. ASSUME NEW b \in BOOLEAN, signIns' = [signIns EXCEPT ![n].stepped = b]
      PROVE  /\ signIns' \in [DOMAIN signIns -> SignIn]
             /\ \A s \in DOMAIN signIns :
                  /\ signIns'[s].user = signIns[s].user /\ signIns'[s].pw = signIns[s].pw
                  /\ signIns'[s].by = signIns[s].by /\ signIns'[s].late = signIns[s].late
                  /\ signIns'[s].pair = signIns[s].pair
                  /\ signIns'[s].live => signIns[s].live
  <2>1. [signIns[n] EXCEPT !.stepped = b] \in SignIn
    BY <1>1 DEF SignIn
  <2> QED  BY <1>1, <1>3, <2>1 DEF SignIn
<1> QED  BY <1>2, <1>3

LEMMA OwnSessionKeeps ==
    ASSUME AccountsInv, NEW c \in Callers, SignOut(c) \/ StepUp(c)
    PROVE  AccountsInv' /\ Fate(c)
<1>1. StateTypes /\ PeopleShape /\ call[c] \in Call /\ CallShape(call[c])
  BY AccountsTypes, CallIs DEF AccountsInv
<1>2. UNCHANGED <<account, totp, credentials, fresh, clock, adminLock>> /\ call[c].at = "write" /\ Done(c)
  BY DEF SignOut, StepUp, Is
<1>3. Fate(c)
  BY <1>2, IsOver
<1>4. CASE UNCHANGED signIns
  BY <1>2, <1>3, <1>4, FateOnly DEF people
<1>5. ASSUME NEW n \in DOMAIN signIns,
             \/ signIns' = [signIns EXCEPT ![n].live = FALSE]
             \/ signIns' = [signIns EXCEPT ![n].stepped = TRUE]
      PROVE  AccountsInv'
  <2>1. signIns' \in [DOMAIN signIns -> SignIn] /\ \A s \in DOMAIN signIns : signIns'[s].user = signIns[s].user
    BY <1>1, <1>5, SessionsOne DEF StateTypes
  <2>2. Grow /\ StateTypes' /\ PeopleShape'
    BY <1>1, <1>2, <1>3, <2>1, SessionsRewritten, BoundsType DEF StateTypes, Known
  <2> QED  BY <1>3, <2>2, FateKeeps
<1>6. CASE SignOut(c)
  <2>1. call[c].n \in DOMAIN signIns
    BY <1>1, <1>6 DEF CallShape, SignOut, Is
  <2> QED  BY <1>3, <1>4, <1>5, <1>6, <2>1 DEF SignOut
<1>7. CASE StepUp(c)
  <2>1. call[c].session \in DOMAIN signIns
    BY <1>1, <1>7 DEF CallShape, StepUp, Is
  <2> QED  BY <1>3, <1>5, <1>7, <2>1 DEF StepUp
<1> QED  BY <1>6, <1>7

LEMMA StepDownKeeps ==
    ASSUME AccountsInv, NEW s \in DOMAIN signIns, StepDown(s)
    PROVE  AccountsInv'
<1>1. StateTypes
  BY AccountsTypes DEF AccountsInv
<1>2. UNCHANGED <<account, totp, credentials, fresh, clock, adminLock, call, mix>> /\ callsLeft' \in Nat
  BY <1>1 DEF StepDown, Takes, StateTypes
<1>3. signIns' \in [DOMAIN signIns -> SignIn] /\ \A t \in DOMAIN signIns : signIns'[t].user = signIns[t].user
  BY <1>1, SessionsOne DEF StateTypes, StepDown
<1>4. Grow /\ StateTypes' /\ PeopleShape'
  BY <1>1, <1>2, <1>3, SessionsRewritten DEF StateTypes, Known
<1> QED  BY <1>2, <1>4, Stays

\* What a new password does to its user's sessions.
LEMMA PasswordSets ==
    ASSUME AccountsInv, NEW c \in Callers, SetPassword(c)
    PROVE  LET u == call[c].who
               p == account[u].pw + 1
           IN /\ u \in Persons /\ p \in Nat
              /\ account' = [account EXCEPT ![u] = [account[u] EXCEPT !.pw = p]]
              /\ account' \in [Persons -> Account]
              /\ call[c].session \in DOMAIN signIns /\ signIns[call[c].session].user = u
              /\ signIns' \in [DOMAIN signIns -> SignIn]
              /\ signIns'[call[c].session].pw = p
              /\ \A s \in DOMAIN signIns :
                   /\ signIns'[s].user = signIns[s].user /\ signIns'[s].pair = signIns[s].pair
                   /\ signIns'[s].by = signIns[s].by /\ signIns'[s].late = signIns[s].late
                   /\ s # call[c].session => signIns'[s].pw = signIns[s].pw
                   /\ signIns'[s].live => signIns[s].live /\ (signIns[s].user # u \/ s = call[c].session)
<1>1. StateTypes /\ PeopleShape /\ call[c] \in Call /\ CallShape(call[c])
  BY AccountsTypes, CallIs DEF AccountsInv
<1>2. call[c].op = "password" /\ call[c].at = "hash"
  BY DEF SetPassword, Is
<1> DEFINE u == call[c].who
           t == call[c].session
           p == account[u].pw + 1
           o == Revoked(u, t)
<1>3. u \in Persons /\ t \in DOMAIN signIns /\ signIns[t].user = u
  BY <1>1, <1>2 DEF CallShape, Call
<1>4. p \in Nat /\ account[u] \in Account
  BY <1>1, <1>3 DEF StateTypes, Account
<1>5. account' = [account EXCEPT ![u].pw = p] /\ signIns' = [o EXCEPT ![t].pw = p]
  BY DEF SetPassword, Others
<1> HIDE DEF p, o, u, t
<1>6. account' = [account EXCEPT ![u] = [account[u] EXCEPT !.pw = p]] /\ account' \in [Persons -> Account]
  BY <1>1, <1>3, <1>4, <1>5 DEF StateTypes, Account
<1>7. /\ o \in [DOMAIN signIns -> SignIn]
      /\ \A s \in DOMAIN signIns :
           /\ o[s].user = signIns[s].user /\ o[s].pw = signIns[s].pw
           /\ o[s].by = signIns[s].by /\ o[s].late = signIns[s].late
           /\ o[s].pair = signIns[s].pair
           /\ o[s].live => signIns[s].live /\ (signIns[s].user # u \/ s = t)
  BY <1>1, RevokedType DEF StateTypes, o
<1> DEFINE x == [o[t] EXCEPT !.pw = p]
<1>8. /\ x \in SignIn /\ x.user = o[t].user /\ x.by = o[t].by /\ x.late = o[t].late /\ x.pair = o[t].pair
      /\ x.live = o[t].live /\ x.pw = p
  BY <1>3, <1>4, <1>7 DEF SignIn
<1>9. signIns' = [o EXCEPT ![t] = x]
  BY <1>5
<1> HIDE DEF x
<1>10. /\ signIns' \in [DOMAIN signIns -> SignIn] /\ signIns'[t] = x
       /\ \A s \in DOMAIN signIns : s # t => signIns'[s] = o[s]
  BY <1>3, <1>7, <1>8, <1>9
<1>11. \A s \in DOMAIN signIns :
          /\ signIns'[s].user = signIns[s].user /\ signIns'[s].pair = signIns[s].pair
          /\ signIns'[s].by = signIns[s].by /\ signIns'[s].late = signIns[s].late
          /\ s # t => signIns'[s].pw = signIns[s].pw
          /\ signIns'[s].live => signIns[s].live /\ (signIns[s].user # u \/ s = t)
  <2> TAKE s \in DOMAIN signIns
  <2>1. CASE s = t
    BY <1>7, <1>8, <1>10, <2>1
  <2>2. CASE s # t
    BY <1>7, <1>10, <2>2
  <2> QED  BY <2>1, <2>2
<1> QED  BY <1>3, <1>4, <1>6, <1>8, <1>10, <1>11 DEF u, t, p

LEMMA PasswordKeeps ==
    ASSUME AccountsInv, NEW c \in Callers, SetPassword(c)
    PROVE  AccountsInv' /\ Fate(c)
<1>1. StateTypes
  BY AccountsTypes DEF AccountsInv
<1>2. UNCHANGED <<totp, credentials, fresh, clock, adminLock>> /\ call[c].at = "hash" /\ Done(c)
  BY DEF SetPassword, Is
<1>3. Fate(c)
  BY <1>2, IsOver
<1> DEFINE u == call[c].who
           p == account[u].pw + 1
<1>4. /\ u \in Persons /\ account' = [account EXCEPT ![u] = [account[u] EXCEPT !.pw = p]]
      /\ account' \in [Persons -> Account] /\ signIns' \in [DOMAIN signIns -> SignIn]
      /\ \A s \in DOMAIN signIns : signIns'[s].user = signIns[s].user
  BY PasswordSets
<1>5. \A v \in Persons : Known(v) <=> Known(v)'
  BY <1>1, <1>4 DEF Known, StateTypes, Account
<1>6. Grow /\ StateTypes' /\ PeopleShape'
  BY <1>2, <1>3, <1>4, <1>5, SessionsRewritten, BoundsType
<1> QED  BY <1>3, <1>6, FateKeeps

-----------------------------------------------------------------------------
(* Pairs.                                                                  *)

LEMMA PairsMove ==
    ASSUME AccountsInv, signIns' \in [DOMAIN signIns -> SignIn],
           \A s \in DOMAIN signIns : signIns'[s].user = signIns[s].user,
           pairs' \in [Pairs -> Persons \union {NoPerson}], unpaired' \in SUBSET Pairs, unpaired \subseteq unpaired',
           \A p \in Pairs : pairs[p] # NoPerson => pairs'[p] = pairs[p] \/ p \in unpaired',
           \A p \in Pairs : pairs'[p] # NoPerson => Known(pairs'[p]) /\ p \notin unpaired',
           challenges' \in SUBSET Challenge, \A ch \in challenges' : ch.user # NoPerson => Known(ch.user),
           UNCHANGED <<account, totp, invites, passkey, setupCode, bootstrapped, fresh, clock, mix>>, callsLeft' \in Nat
    PROVE  Grow /\ StateTypes' /\ PeopleShape'
<1>1. StateTypes /\ PeopleShape
  BY AccountsTypes DEF AccountsInv
<1>2. signIns' \in Seq(SignIn) /\ DOMAIN signIns' = DOMAIN signIns
  BY <1>1, Rewritten DEF StateTypes
<1>3. StateTypes'
  BY <1>1, <1>2 DEF StateTypes
<1>4. Grow
  BY <1>2 DEF Grow, Known
<1>5. PeopleShape'
  BY <1>1, <1>2 DEF PeopleShape, Known
<1> QED  BY <1>3, <1>4, <1>5

LEMMA UsedType ==
    ASSUME challenges \in SUBSET Challenge, NEW ch \in challenges
    PROVE  /\ Used(ch) \in SUBSET Challenge
           /\ \A x \in Used(ch) : x \in challenges \/ x = [ch EXCEPT !.used = TRUE]
           /\ [ch EXCEPT !.used = TRUE] \in Challenge
           /\ [ch EXCEPT !.used = TRUE].user = ch.user /\ [ch EXCEPT !.used = TRUE].id = ch.id
           /\ [ch EXCEPT !.used = TRUE].used /\ [ch EXCEPT !.used = TRUE].purpose = ch.purpose
<1>1. ch \in Challenge
  OBVIOUS
<1>2. /\ [ch EXCEPT !.used = TRUE] \in Challenge
      /\ [ch EXCEPT !.used = TRUE].user = ch.user /\ [ch EXCEPT !.used = TRUE].id = ch.id
      /\ [ch EXCEPT !.used = TRUE].used /\ [ch EXCEPT !.used = TRUE].purpose = ch.purpose
  BY <1>1 DEF Challenge
<1> QED  BY <1>2 DEF Used

LEMMA SessionsAreFunction ==
    ASSUME signIns \in Seq(SignIn)
    PROVE  signIns \in [DOMAIN signIns -> SignIn]
BY LenProperties

LEMMA PairAppKeeps ==
    ASSUME AccountsInv, NEW p \in Pairs, NEW n, PairApp(p, n)
    PROVE  AccountsInv'
<1>1. StateTypes /\ PeopleShape
  BY AccountsTypes DEF AccountsInv
<1>2. /\ pairs[p] = NoPerson /\ p \notin unpaired
      /\ UNCHANGED <<account, totp, signIns, fresh, clock, invites, unpaired, passkey, setupCode, bootstrapped,
                     adminLock, call>>
  BY DEF PairApp, people
<1>3. callsLeft' \in Nat /\ UNCHANGED mix
  BY <1>1 DEF PairApp, Takes, StateTypes
<1>4. PICK ch \in challenges : pairs' = [pairs EXCEPT ![p] = ch.user] /\ challenges' = Used(ch)
  BY DEF PairApp
<1>5. ch.user \in Persons \union {NoPerson} /\ (ch.user # NoPerson => Known(ch.user))
  BY <1>1 DEF StateTypes, Challenge, PeopleShape
<1>6. challenges' \in SUBSET Challenge /\ \A x \in challenges' : x \in challenges \/ x.user = ch.user
  BY <1>1, <1>4, UsedType DEF StateTypes
<1>7. \A x \in challenges' : x.user # NoPerson => Known(x.user)
  BY <1>1, <1>5, <1>6 DEF PeopleShape
<1>8. /\ pairs' \in [Pairs -> Persons \union {NoPerson}]
      /\ \A q \in Pairs : pairs[q] # NoPerson => pairs'[q] = pairs[q] \/ q \in unpaired'
      /\ \A q \in Pairs : pairs'[q] # NoPerson => Known(pairs'[q]) /\ q \notin unpaired'
  BY <1>1, <1>2, <1>4, <1>5 DEF StateTypes, PeopleShape
<1>9. unpaired' \in SUBSET Pairs /\ unpaired \subseteq unpaired'
  BY <1>1, <1>2 DEF StateTypes
<1>10. signIns' \in [DOMAIN signIns -> SignIn] /\ \A s \in DOMAIN signIns : signIns'[s].user = signIns[s].user
  BY <1>1, <1>2, SessionsAreFunction DEF StateTypes
<1>11. Grow /\ StateTypes' /\ PeopleShape'
  BY <1>2, <1>3, <1>6, <1>7, <1>8, <1>9, <1>10, PairsMove
<1> QED  BY <1>2, <1>11, Stays

LEMMA PairLoginKeeps ==
    ASSUME AccountsInv, NEW c \in Callers, NEW p \in Pairs, NEW n, LoginByPair(c, p, n)
    PROVE  AccountsInv'
<1>1. StateTypes /\ PeopleShape
  BY AccountsTypes DEF AccountsInv
<1>2. AsideKept /\ UNCHANGED <<totp, fresh, clock, passkey, setupCode, adminLock>>
  BY DEF LoginByPair, AsideKept, people
<1>3. pairs[p] \in Persons /\ pairs[p] # NoPerson /\ Known(pairs[p])
  BY <1>1, AccountsAssumption DEF LoginByPair, StateTypes, PeopleShape
<1> DEFINE u == pairs[p]
           creds == CredsOf(u, 0, p)
           r == [IdleCall EXCEPT !.op = "login", !.at = "code", !.who = u, !.creds = creds]
<1>4. AskFor(c, r)
  BY DEF LoginByPair
<1>5. creds \in Creds /\ creds.pair = p
  BY <1>1, <1>3, CredsType DEF StateTypes
<1> HIDE DEF creds, u
<1>6. u \in Persons /\ u # NoPerson /\ Known(u) /\ pairs[p] = u
  BY <1>3 DEF u
<1>7. r \in Call /\ r.op = "login" /\ r.at = "code" /\ r.who = u /\ r.session = 0 /\ r.creds.pair = p
  BY <1>5, <1>6 DEF IdleCall, Call, Ops, HandlerAt
<1> HIDE DEF r
<1>8. CallShape(r) /\ r.at # "locked"
  BY <1>6, <1>7 DEF CallShape
<1>9. call' = [call EXCEPT ![c] = r] /\ call[c].at = "idle" /\ callsLeft' \in Nat /\ UNCHANGED mix
  BY <1>4, <1>7, AskedFor
<1>10. PICK ch \in challenges : challenges' = Used(ch)
  BY DEF LoginByPair, Latest
<1>11. challenges' \in SUBSET Challenge /\ \A x \in challenges' : x \in challenges \/ x.user = ch.user
  BY <1>1, <1>10, UsedType DEF StateTypes
<1>12. \A x \in challenges' : x.user # NoPerson => Known(x.user)
  BY <1>1, <1>11 DEF PeopleShape
<1>13. Grow /\ StateTypes' /\ PeopleShape'
  BY <1>1, <1>2, <1>9, <1>11, <1>12, Aside DEF StateTypes, PeopleShape
<1> QED  BY <1>2, <1>7, <1>8, <1>9, <1>13, Moves

LEMMA FindTaggedKeeps ==
    ASSUME AccountsInv, NEW c \in Callers, FindTagged(c)
    PROVE  AccountsInv' /\ Fate(c)
<1> DEFINE q == call[c]
           seen == Tagged(call[c].pair)
           r == [q EXCEPT !.at = "remove", !.seen = seen]
<1>1. StateTypes /\ q \in Call /\ CallShape(q) /\ call \in [Callers -> Call]
  BY AccountsTypes, CallIs DEF AccountsInv
<1>2. q.op = "unpair" /\ q.at = "untag" /\ UNCHANGED <<people, credentials, fresh, clock, adminLock>>
  BY DEF FindTagged, Is
<1>3. seen \subseteq Nat
  BY <1>1, SessionType DEF Tagged, StateTypes
<1>4. CASE Done(c)
  BY <1>2, <1>4, IsOver, FateOnly
<1>5. CASE call' = [call EXCEPT ![c] = r] /\ UNCHANGED bounds
  <2>0. call[c].at # "locked"
    BY <1>2
  <2> HIDE DEF q, seen
  <2>1. /\ r \in Call /\ r.at = "remove" /\ r.op = q.op /\ r.who = q.who /\ r.session = q.session /\ r.n = q.n
        /\ r.to = q.to /\ r.pair = q.pair /\ r.target = q.target /\ r.creds = q.creds
    BY <1>1, <1>3 DEF Call, HandlerAt
  <2> HIDE DEF r
  <2>2. CallShape(r) /\ r.at # "locked"
    BY <1>1, <1>2, <2>1 DEF CallShape
  <2>3. Fate(c)
    BY <1>2, <1>5, <2>0, <2>1, <2>2 DEF Fate
  <2> QED  BY <1>2, <2>3, FateOnly
<1>6. Done(c) \/ (call' = [call EXCEPT ![c] = r] /\ UNCHANGED bounds)
  BY <1>1 DEF FindTagged
<1> QED  BY <1>4, <1>5, <1>6

\* What the revocation of a pair does to sessions.
LEMMA Untags ==
    ASSUME AccountsInv, NEW c \in Callers, RevokePair(c)
    PROVE  LET p == call[c].pair
           IN /\ p \in Pairs /\ pairs' = [pairs EXCEPT ![p] = NoPerson] /\ unpaired' = unpaired \union {p}
              /\ signIns' \in [DOMAIN signIns -> SignIn]
              /\ \A s \in DOMAIN signIns :
                   /\ signIns'[s].user = signIns[s].user /\ signIns'[s].pw = signIns[s].pw
                   /\ signIns'[s].by = signIns[s].by /\ signIns'[s].late = signIns[s].late
                   /\ signIns'[s].pair = signIns[s].pair \/ signIns[s].pair = p
                   /\ signIns'[s].live => signIns[s].live /\ s \notin call[c].seen
<1>1. StateTypes /\ call[c] \in Call /\ CallShape(call[c])
  BY AccountsTypes, CallIs DEF AccountsInv
<1> DEFINE p == call[c].pair
<1>2. p \in Pairs
  BY <1>1 DEF CallShape, RevokePair, Is
<1>3. /\ pairs' = [pairs EXCEPT ![p] = NoPerson] /\ unpaired' = unpaired \union {p}
      /\ signIns' = [s \in DOMAIN signIns |->
                           [signIns[s] EXCEPT !.live = @ /\ s \notin call[c].seen,
                                              !.pair = IF @ = p THEN NoPair ELSE @]]
  BY DEF RevokePair
<1> HIDE DEF p
<1>4. ASSUME NEW s \in DOMAIN signIns
      PROVE  /\ signIns'[s] \in SignIn
             /\ signIns'[s].user = signIns[s].user /\ signIns'[s].pw = signIns[s].pw
             /\ signIns'[s].by = signIns[s].by /\ signIns'[s].late = signIns[s].late
             /\ signIns'[s].pair = signIns[s].pair \/ signIns[s].pair = p
             /\ signIns'[s].live => signIns[s].live /\ s \notin call[c].seen
  <2> DEFINE live == signIns[s].live /\ s \notin call[c].seen
             pair == IF signIns[s].pair = p THEN NoPair ELSE signIns[s].pair
             x == [signIns[s] EXCEPT !.live = live, !.pair = pair]
  <2>1. signIns[s] \in SignIn
    BY <1>1, SessionType DEF StateTypes
  <2>2. live \in BOOLEAN
    BY Zenon
  <2>3. pair \in Pairs \union {NoPair} /\ (pair = signIns[s].pair \/ signIns[s].pair = p)
    BY <2>1 DEF SignIn
  <2>4. signIns'[s] = x
    BY <1>3
  <2>5. live => signIns[s].live /\ s \notin call[c].seen
    BY Zenon
  <2> HIDE DEF live, pair
  <2>6. /\ x \in SignIn /\ x.user = signIns[s].user /\ x.pw = signIns[s].pw /\ x.by = signIns[s].by
        /\ x.late = signIns[s].late /\ x.pair = pair /\ x.live = live
    BY <2>1, <2>2, <2>3 DEF SignIn
  <2> HIDE DEF x
  <2> QED  BY <2>3, <2>4, <2>5, <2>6
<1>5. signIns' \in [DOMAIN signIns -> SignIn]
  BY <1>3, <1>4
<1> QED  BY <1>2, <1>3, <1>4, <1>5 DEF p

LEMMA RevokePairKeeps ==
    ASSUME AccountsInv, NEW c \in Callers, RevokePair(c)
    PROVE  AccountsInv' /\ Fate(c)
<1>1. StateTypes /\ PeopleShape
  BY AccountsTypes DEF AccountsInv
<1>2. /\ UNCHANGED <<account, totp, invites, passkey, setupCode, bootstrapped, fresh, clock, adminLock>>
      /\ call[c].at = "remove" /\ Done(c)
  BY DEF RevokePair, Is
<1>3. Fate(c)
  BY <1>2, IsOver
<1> DEFINE p == call[c].pair
<1>4. /\ p \in Pairs /\ pairs' = [pairs EXCEPT ![p] = NoPerson] /\ unpaired' = unpaired \union {p}
      /\ signIns' \in [DOMAIN signIns -> SignIn]
      /\ \A s \in DOMAIN signIns : signIns'[s].user = signIns[s].user
  BY Untags
<1>5. challenges' \subseteq challenges
  BY DEF RevokePair
<1> HIDE DEF p
<1>6. /\ pairs' \in [Pairs -> Persons \union {NoPerson}]
      /\ \A q \in Pairs : pairs[q] # NoPerson => pairs'[q] = pairs[q] \/ q \in unpaired'
      /\ \A q \in Pairs : pairs'[q] # NoPerson => Known(pairs'[q]) /\ q \notin unpaired'
  BY <1>1, <1>4 DEF StateTypes, PeopleShape
<1>7. unpaired' \in SUBSET Pairs /\ unpaired \subseteq unpaired'
  BY <1>1, <1>4 DEF StateTypes
<1>8. challenges' \in SUBSET Challenge /\ \A x \in challenges' : x.user # NoPerson => Known(x.user)
  BY <1>1, <1>5 DEF StateTypes, PeopleShape
<1>9. callsLeft' \in Nat /\ UNCHANGED mix
  BY <1>3, BoundsType
<1>10. Grow /\ StateTypes' /\ PeopleShape'
  BY <1>2, <1>4, <1>6, <1>7, <1>8, <1>9, PairsMove
<1> QED  BY <1>3, <1>10, FateKeeps

-----------------------------------------------------------------------------
(* The lock on the admins, and the steps of no request.                    *)

LEMMA LockMoves ==
    ASSUME AccountsInv, NEW c \in Callers, NEW r \in Call, call' = [call EXCEPT ![c] = r], CallShape(r),
           Locks', adminLock' \in Callers \union {NoPerson}, Grow, StateTypes', PeopleShape'
    PROVE  AccountsInv'
<1>1. call \in [Callers -> Call]
  BY AccountsTypes DEF AccountsInv
<1>2. call' \in [Callers -> Call] /\ call'[c] = r /\ \A d \in Callers \ {c} : call'[d] = call[d]
  BY <1>1
<1>3. ASSUME NEW d \in Callers
      PROVE  CallShape(call[d])'
  <2>1. CASE d = c
    BY <1>2, <2>1, ShapeGrows DEF AccountsInv
  <2>2. CASE d # c
    <3>1. PICK q \in Call : q = call[d] /\ CallShape(q)
      BY <1>1 DEF AccountsInv
    <3>2. call'[d] = q
      BY <1>2, <2>2, <3>1
    <3> QED  BY <3>1, <3>2, ShapeGrows DEF AccountsInv
  <2> QED  BY <2>1, <2>2
<1> QED  BY <1>2, <1>3, AccountsTypesNext DEF AccountsInv

LEMMA LockAdminsKeeps ==
    ASSUME AccountsInv, NEW c \in Callers, LockAdmins(c)
    PROVE  AccountsInv'
<1> DEFINE q == call[c]
           r == [q EXCEPT !.at = "locked"]
<1>1. StateTypes /\ PeopleShape /\ Locks /\ q \in Call /\ CallShape(q) /\ call \in [Callers -> Call]
  BY AccountsTypes, CallIs DEF AccountsInv
<1>2. q.op = "patch" /\ q.at = "verify" /\ adminLock = NoPerson /\ UNCHANGED <<people, credentials, fresh, clock>>
  BY DEF LockAdmins, Is, AdminLockFree
<1>3. CASE Done(c) /\ UNCHANGED adminLock
  BY <1>2, <1>3, IsOver, FateOnly
<1>4. CASE adminLock' = c /\ Step(c, "locked")
  <2>0. call' = [call EXCEPT ![c] = r] /\ UNCHANGED bounds
    BY <1>4 DEF Step
  <2> HIDE DEF q
  <2>1. /\ r \in Call /\ r.at = "locked" /\ r.op = q.op /\ r.who = q.who /\ r.session = q.session /\ r.n = q.n
        /\ r.to = q.to /\ r.pair = q.pair /\ r.target = q.target /\ r.creds = q.creds
    BY <1>1 DEF Call, HandlerAt
  <2> HIDE DEF r
  <2>2. CallShape(r)
    BY <1>1, <1>2, <2>1 DEF CallShape
  <2>3. Locks'
    <3>1. \A d \in Callers : call[d].at # "locked"
      BY <1>1, <1>2, AccountsAssumption DEF Locks
    <3>2. call'[c] = r /\ \A d \in Callers \ {c} : call'[d] = call[d]
      BY <1>1, <2>0
    <3> QED  BY <1>4, <2>1, <3>1, <3>2 DEF Locks
  <2>4. AsideKept /\ UNCHANGED <<totp, fresh, clock, passkey, challenges, setupCode, mix, callsLeft>>
    BY <1>2, <2>0 DEF AsideKept, people, credentials, bounds
  <2>5. Grow /\ StateTypes' /\ PeopleShape'
    BY <1>1, <2>4, Aside DEF StateTypes, PeopleShape
  <2> QED  BY <1>4, <2>0, <2>1, <2>2, <2>3, <2>5, LockMoves
<1> QED  BY <1>3, <1>4 DEF LockAdmins

\* What an admin's change does.
LEMMA Patches ==
    ASSUME AccountsInv, NEW c \in Callers, PatchUser(c)
    PROVE  LET u == call[c].target
               to == call[c].to
           IN /\ u \in Persons /\ Known(u) /\ adminLock = c
              /\ account' \in [Persons -> Account]
              /\ \A v \in Persons : v # u => account'[v] = account[v]
              /\ account'[u].pw = account[u].pw /\ account'[u].invite = account[u].invite
              /\ account'[u].is # "none"
              /\ account'[u].admin = IF to \in {"admin", "member"} THEN to = "admin" ELSE account[u].admin
              /\ account'[u].is = CASE to = "disable" -> "disabled"
                                    [] to = "enable" -> "on" [] OTHER -> account[u].is
              /\ signIns' = IF account'[u].is = "disabled" THEN Revoked(u, 0) ELSE signIns
<1>1. StateTypes /\ PeopleShape /\ Locks /\ call[c] \in Call /\ CallShape(call[c])
  BY AccountsTypes, CallIs DEF AccountsInv
<1>2. call[c].op = "patch" /\ call[c].at = "locked"
  BY DEF PatchUser, Is
<1> DEFINE u == call[c].target
           to == call[c].to
           admin == IF to \in {"admin", "member"} THEN to = "admin" ELSE account[u].admin
           is == CASE to = "disable" -> "disabled" [] to = "enable" -> "on" [] OTHER -> account[u].is
           a == [account[u] EXCEPT !.admin = admin, !.is = is]
<1>3. u \in Persons /\ Known(u) /\ adminLock = c
  BY <1>1, <1>2 DEF CallShape, Locks
<1>4. account[u] \in Account
  BY <1>1, <1>3 DEF StateTypes
<1>5. account' = [account EXCEPT ![u] = a] /\ signIns' = IF account'[u].is = "disabled" THEN Revoked(u, 0) ELSE signIns
  BY <1>1, <1>3 DEF PatchUser, StateTypes
<1> HIDE DEF u, to
<1>6. admin \in BOOLEAN
  BY <1>4 DEF Account
<1>7. is \in {"none", "on", "disabled"} /\ is # "none"
  BY <1>3, <1>4 DEF Account, Known
<1> HIDE DEF admin, is
<1>8. a \in Account /\ a.pw = account[u].pw /\ a.invite = account[u].invite /\ a.is = is /\ a.admin = admin
  BY <1>4, <1>6, <1>7 DEF Account
<1> HIDE DEF a
<1>9. account' \in [Persons -> Account] /\ account'[u] = a /\ \A v \in Persons : v # u => account'[v] = account[v]
  BY <1>1, <1>3, <1>5, <1>8 DEF StateTypes
<1> QED  BY <1>3, <1>5, <1>7, <1>8, <1>9 DEF u, to, is, admin

LEMMA PatchKeeps ==
    ASSUME AccountsInv, NEW c \in Callers, PatchUser(c)
    PROVE  AccountsInv'
<1>1. StateTypes /\ PeopleShape /\ Locks /\ call \in [Callers -> Call]
  BY AccountsTypes DEF AccountsInv
<1>2. /\ call[c].at = "locked" /\ adminLock' = NoPerson /\ Done(c)
      /\ UNCHANGED <<totp, credentials, fresh, clock>>
  BY DEF PatchUser, Is
<1> DEFINE u == call[c].target
<1>3. /\ u \in Persons /\ Known(u) /\ adminLock = c
      /\ account' \in [Persons -> Account]
      /\ \A v \in Persons : v # u => account'[v] = account[v]
      /\ account'[u].is # "none"
      /\ signIns' = IF account'[u].is = "disabled" THEN Revoked(u, 0) ELSE signIns
  BY Patches
<1> HIDE DEF u
<1>4. \A v \in Persons : Known(v) <=> Known(v)'
  BY <1>3 DEF Known
<1>5. signIns' \in [DOMAIN signIns -> SignIn] /\ \A s \in DOMAIN signIns : signIns'[s].user = signIns[s].user
  BY <1>1, <1>3, RevokedType, SessionsAreFunction DEF StateTypes
<1>6. callsLeft' \in Nat /\ UNCHANGED mix /\ call' = [call EXCEPT ![c] = IdleCall]
  BY <1>1, <1>2 DEF Done, bounds, StateTypes
<1>7. Grow /\ StateTypes' /\ PeopleShape'
  BY <1>2, <1>3, <1>4, <1>5, <1>6, SessionsRewritten
<1>8. Locks'
  <2>1. \A d \in Callers : call[d].at = "locked" => d = c
    BY <1>1, <1>3 DEF Locks
  <2>2. \A d \in Callers : call'[d].at # "locked"
    BY <1>1, <1>6, <2>1, IdleType
  <2> QED  BY <1>2, <2>2, AccountsAssumption DEF Locks
<1> QED  BY <1>2, <1>6, <1>7, <1>8, IdleType, LockMoves

LEMMA RestartKeeps ==
    ASSUME AccountsInv, AccountsRestart
    PROVE  AccountsInv'
<1>1. StateTypes /\ PeopleShape
  BY AccountsTypes DEF AccountsInv
<1>2. /\ call' = [c \in Callers |-> IdleCall] /\ adminLock' = NoPerson
      /\ setupCode' = (bootstrapped = NoPerson) /\ callsLeft' \in Nat
      /\ AsideKept /\ UNCHANGED <<totp, passkey, challenges, fresh, clock, mix>>
  BY <1>1 DEF AccountsRestart, Takes, AsideKept, people, StateTypes
<1>3. setupCode' \in BOOLEAN
  BY <1>2, Zenon
<1>4. Grow /\ StateTypes' /\ PeopleShape'
  BY <1>1, <1>2, <1>3, Aside DEF StateTypes, PeopleShape
<1>5. call' \in [Callers -> Call] /\ Locks'
  BY <1>2, IdleType, AccountsAssumption DEF Locks
<1>6. ASSUME NEW d \in Callers
      PROVE  CallShape(call[d])'
  BY <1>1, <1>2, <1>4, IdleType, ShapeGrows
<1> QED  BY <1>2, <1>4, <1>5, <1>6, AccountsTypesNext DEF AccountsInv

LEMMA AloneKeeps ==
    ASSUME AccountsInv, Tick \/ (\E s \in DOMAIN signIns : DeletePasskey(s)) \/ UNCHANGED accountVars
    PROVE  AccountsInv'
<1>1. StateTypes /\ PeopleShape
  BY AccountsTypes DEF AccountsInv
<1>2. CASE Tick
  <2>1. AsideKept /\ UNCHANGED <<totp, fresh, passkey, challenges, setupCode, mix, callsLeft, call, adminLock>>
    BY <1>2 DEF Tick, AsideKept, people, credentials, bounds
  <2>2. clock' \in Nat
    BY <1>1, <1>2 DEF Tick, StateTypes
  <2>3. Grow /\ StateTypes' /\ PeopleShape'
    BY <1>1, <2>1, <2>2, Aside DEF StateTypes, PeopleShape
  <2> QED  BY <2>1, <2>3, Stays
<1>3. ASSUME NEW s \in DOMAIN signIns, DeletePasskey(s)
      PROVE  AccountsInv'
  <2>1. AsideKept /\ UNCHANGED <<totp, fresh, clock, challenges, setupCode, mix, call, adminLock>> /\ callsLeft' \in Nat
    BY <1>1, <1>3 DEF DeletePasskey, AsideKept, people, Takes, StateTypes
  <2>2. passkey' \in [Persons -> Passkey] /\ \A u \in Persons : passkey'[u].here => passkey[u].here
    BY <1>1, <1>3 DEF DeletePasskey, StateTypes, Passkey
  <2>3. Grow /\ StateTypes' /\ PeopleShape'
    BY <1>1, <2>1, <2>2, Aside DEF StateTypes, PeopleShape
  <2> QED  BY <2>1, <2>3, Stays
<1>4. CASE UNCHANGED accountVars
  <2>1. AsideKept /\ UNCHANGED <<totp, fresh, clock, passkey, challenges, setupCode, mix, callsLeft, call, adminLock>>
    BY <1>4 DEF accountVars, AsideKept, people, credentials
  <2>2. Grow /\ StateTypes' /\ PeopleShape'
    BY <1>1, <2>1, Aside DEF StateTypes, PeopleShape
  <2> QED  BY <2>1, <2>2, Stays
<1> QED  BY <1>2, <1>3, <1>4

-----------------------------------------------------------------------------
(* Every step.                                                             *)

LEMMA StepsKeep ==
    ASSUME AccountsInv, NEW c \in Callers, AccountStep(c)
    PROVE  AccountsInv'
BY SetupKeeps, SetupCloses, InvitesKeep, AcceptKeeps, CodeKeeps, MintKeeps, PasswordKeeps, OwnSessionKeeps,
   ReadTotpKeeps, TotpKeeps, ChallengesKeep, PasskeysKeep, FindTaggedKeeps, RevokePairKeeps, LockAdminsKeeps,
   PatchKeeps
   DEF AccountStep

LEMMA AsksKeep ==
    ASSUME AccountsInv, NEW c \in Callers,
           \/ \E u \in Persons : NewComer(c, u)
           \/ \E s \in DOMAIN signIns : SignedIn(c, s)
           \/ \E p \in Pairs : AskPairChallenge(c, p) \/ \E ch \in challenges : LoginByPair(c, p, ch.id)
    PROVE  AccountsInv'
<1>1. ASSUME NEW u \in Persons, NewComer(c, u)
      PROVE  AccountsInv'
  BY <1>1, PlainAsks, PasskeyAsks DEF NewComer
<1>2. ASSUME NEW s \in DOMAIN signIns, SignedIn(c, s)
      PROVE  AccountsInv'
  BY <1>2, SessionAsks, TargetAsks, ChallengeAsks, PasskeyAsks, OthersAsks DEF SignedIn
<1>3. ASSUME NEW p \in Pairs, AskPairChallenge(c, p) \/ \E ch \in challenges : LoginByPair(c, p, ch.id)
      PROVE  AccountsInv'
  BY <1>3, PlainAsks, PairLoginKeeps
<1> QED  BY <1>1, <1>2, <1>3

LEMMA AccountsInvStep ==
    ASSUME AccountsInv, [AccountsNext]_accountVars
    PROVE  AccountsInv'
<1>1. ASSUME NEW c \in Callers, AccountStep(c)
      PROVE  AccountsInv'
  BY <1>1, StepsKeep
<1>2. ASSUME NEW c \in Free,
             \/ \E u \in Persons : NewComer(c, u)
             \/ \E s \in {t \in DOMAIN signIns : Active(t)} : SignedIn(c, s)
             \/ \E p \in Pairs : AskPairChallenge(c, p) \/ \E ch \in challenges : LoginByPair(c, p, ch.id)
      PROVE  AccountsInv'
  <2>1. c \in Callers
    BY DEF Free
  <2> QED  BY <1>2, <2>1, AsksKeep
<1>3. ASSUME NEW p \in Pairs, NEW ch \in challenges, PairApp(p, ch.id)
      PROVE  AccountsInv'
  BY <1>3, PairAppKeeps
<1>4. ASSUME NEW s \in DOMAIN signIns, StepDown(s)
      PROVE  AccountsInv'
  BY <1>4, StepDownKeeps
<1> QED  BY <1>1, <1>2, <1>3, <1>4, AloneKeeps, RestartKeeps DEF AccountsNext

-----------------------------------------------------------------------------
(* The initial states.                                                     *)

LEMMA TwoSeq ==
    ASSUME NEW S, NEW x \in S, NEW y \in S
    PROVE  /\ <<x, y>> \in Seq(S) /\ DOMAIN <<x, y>> = {1, 2} /\ Len(<<x, y>>) = 2
           /\ <<x, y>>[1] = x /\ <<x, y>>[2] = y
<1>1. <<x, y>> \in [1 .. 2 -> S]
  OBVIOUS
<1>2. <<x, y>> \in Seq(S)
  BY <1>1, IsASeq
<1> QED  BY <1>2

LEMMA NewServerInit ==
    ASSUME NewServer, unpaired = {}, fresh = 6, clock = 2, mix \in Mixes, callsLeft = MaxAccountCalls
    PROVE  StateTypes /\ PeopleShape /\ \A u \in Persons : account[u] = NoAccount
<1>1. NoAccount \in Account /\ NoAccount.is = "none" /\ NoTotp \in Totp /\ NoPasskey \in Passkey /\ ~NoPasskey.here
  BY DEF NoAccount, Account, NoTotp, Totp, NoPasskey, Passkey
<1>2. << >> \in Seq(SignIn) /\ << >> \in Seq(Invite) /\ DOMAIN << >> = {}
  BY EmptySeq
<1>3. /\ account = [u \in Persons |-> NoAccount] /\ totp = [u \in Persons |-> NoTotp]
      /\ signIns = << >> /\ invites = << >> /\ challenges = {}
      /\ pairs = [p \in Pairs |-> NoPerson] /\ passkey = [u \in Persons |-> NoPasskey]
      /\ setupCode = TRUE /\ bootstrapped = NoPerson
  BY DEF NewServer
<1>4. StateTypes
  BY <1>1, <1>2, <1>3, AccountsAssumption DEF StateTypes
<1>5. PeopleShape
  BY <1>1, <1>2, <1>3 DEF PeopleShape, Known
<1> QED  BY <1>3, <1>4, <1>5

\* The server in use that the behaviours start from, field by field.
Started ==
    /\ StateTypes /\ PeopleShape
    /\ bootstrapped = Alice
    /\ \A u \in Persons : account[u].is = IF u \in {Alice, Bob} THEN "on" ELSE "none"
    /\ account[Alice].admin
    /\ \A u \in {Alice, Bob} : account[u].pw = 1
    /\ \A u \in Persons : account[u].invite = IF u = Bob THEN 1 ELSE 0
    /\ DOMAIN signIns = {1, 2} /\ signIns[1].user = Alice /\ signIns[2].user = Bob
    /\ \A s \in {1, 2} : signIns[s].by = NoPair /\ signIns[s].pair = NoPair /\ signIns[s].pw = 1
    /\ invites = <<"used", "pending">> /\ DOMAIN invites = {1, 2} /\ invites[1] = "used"
    /\ \A ch \in challenges : ch.id \in 2 .. 5 /\ ~ch.used
    /\ \A ch, other \in challenges : ch.id = other.id => ch = other

LEMMA InUseInit ==
    ASSUME InUse, unpaired = {}, fresh = 6, clock = 2, mix \in Mixes, callsLeft = MaxAccountCalls
    PROVE  Started
<1>0. Alice \in Persons /\ Bob \in Persons /\ Alice # Bob /\ NoPerson \notin Persons
  BY AccountsAssumption
<1>1. PICK secret \in {0, 1}, pending \in {0, 1} :
         totp = [u \in Persons |-> IF u = Alice THEN [secret |-> secret, pending |-> pending, last |-> 0] ELSE NoTotp]
  BY DEF InUse
<1>2. totp \in [Persons -> Totp]
  BY <1>1 DEF Totp, NoTotp
<1>3. PICK admin \in BOOLEAN :
         account = [u \in Persons |-> IF u \in {Alice, Bob}
                        THEN [is |-> "on", admin |-> u = Alice \/ admin, pw |-> 1, invite |-> IF u = Bob THEN 1 ELSE 0]
                        ELSE NoAccount]
  BY DEF InUse
<1>4. /\ account \in [Persons -> Account]
      /\ \A u \in Persons : account[u].is = IF u \in {Alice, Bob} THEN "on" ELSE "none"
      /\ \A u \in {Alice, Bob} : account[u].pw = 1
      /\ \A u \in Persons : account[u].invite = IF u = Bob THEN 1 ELSE 0
  <2>1. \A u \in Persons : (u = Alice \/ admin) \in BOOLEAN
    BY Zenon
  <2>2. NoAccount \in Account /\ NoAccount.is = "none" /\ NoAccount.invite = 0
    BY DEF NoAccount, Account
  <2>3. ASSUME NEW u \in Persons
        PROVE  /\ account[u] \in Account /\ account[u].is = IF u \in {Alice, Bob} THEN "on" ELSE "none"
               /\ u \in {Alice, Bob} => account[u].pw = 1
               /\ account[u].invite = IF u = Bob THEN 1 ELSE 0
    <3> DEFINE adm == u = Alice \/ admin
               inv == IF u = Bob THEN 1 ELSE 0
    <3>1. adm \in BOOLEAN /\ inv \in Nat
      BY <2>1
    <3>2. account[u] = IF u \in {Alice, Bob} THEN [is |-> "on", admin |-> adm, pw |-> 1, invite |-> inv] ELSE NoAccount
      BY <1>3
    <3>3. u \notin {Alice, Bob} => inv = 0
      OBVIOUS
    <3> HIDE DEF adm, inv
    <3>4. /\ account[u] \in Account /\ account[u].is = IF u \in {Alice, Bob} THEN "on" ELSE "none"
          /\ u \in {Alice, Bob} => account[u].pw = 1
          /\ account[u].invite = inv
      BY <2>2, <3>1, <3>2, <3>3 DEF Account
    <3> QED  BY <3>4 DEF inv
  <2>4. account = [u \in Persons |-> account[u]]
    BY <1>3
  <2> QED  BY <1>0, <2>3, <2>4
<1>5. account[Alice].admin
  BY <1>0, <1>3, Zenon
<1>6. \E x, y \in SignIn :
        /\ signIns = <<x, y>> /\ x.user = Alice /\ y.user = Bob
        /\ x.by = NoPair /\ x.pair = NoPair /\ x.pw = 1
        /\ y.by = NoPair /\ y.pair = NoPair /\ y.pw = 1
  <2> DEFINE x == [NewSignIn(Alice, NoPair, 1, FALSE) EXCEPT !.stepped = TRUE]
             y == [NewSignIn(Bob, NoPair, 1, FALSE) EXCEPT !.stepped = TRUE]
  <2>1. x \in SignIn /\ x.user = Alice /\ x.by = NoPair /\ x.pair = NoPair /\ x.pw = 1
    BY <1>0 DEF NewSignIn, SignIn
  <2>2. y \in SignIn /\ y.user = Bob /\ y.by = NoPair /\ y.pair = NoPair /\ y.pw = 1
    BY <1>0 DEF NewSignIn, SignIn
  <2>3. signIns = <<x, y>>
    BY DEF InUse
  <2> HIDE DEF x, y
  <2> QED  BY <2>1, <2>2, <2>3
<1>7. /\ signIns \in Seq(SignIn) /\ DOMAIN signIns = {1, 2} /\ signIns[1].user = Alice /\ signIns[2].user = Bob
      /\ \A s \in {1, 2} : signIns[s].by = NoPair /\ signIns[s].pair = NoPair /\ signIns[s].pw = 1
  BY <1>6, TwoSeq
<1>8. invites = <<"used", "pending">> /\ invites \in Seq(Invite) /\ DOMAIN invites = {1, 2} /\ invites[1] = "used"
  <2>1. "used" \in Invite /\ "pending" \in Invite /\ invites = <<"used", "pending">>
    BY DEF Invite, InUse
  <2> QED  BY <2>1, TwoSeq
<1>9. passkey \in [Persons -> Passkey] /\ \A u \in Persons : passkey[u].here => u = Alice
  <2>1. passkey = [u \in Persons |-> [NoPasskey EXCEPT !.here = u = Alice]]
    BY DEF InUse
  <2>2. NoPasskey \in Passkey
    BY DEF NoPasskey, Passkey
  <2>3. ASSUME NEW u \in Persons
        PROVE  passkey[u] \in Passkey /\ (passkey[u].here => u = Alice)
    <3> DEFINE here == u = Alice
    <3>1. here \in BOOLEAN
      BY Zenon
    <3>2. passkey[u] = [NoPasskey EXCEPT !.here = here]
      BY <2>1
    <3>3. here => u = Alice
      OBVIOUS
    <3> HIDE DEF here
    <3> QED  BY <2>2, <3>1, <3>2, <3>3 DEF Passkey
  <2> QED  BY <2>1, <2>3
<1>10. PICK owner \in {NoPerson, Alice}, p \in Pairs :
         /\ pairs = [q \in Pairs |-> IF q = p THEN owner ELSE NoPerson]
         /\ challenges = {Stored(2, "login", Alice, NoPair), Stored(3, "step_up", Alice, NoPair),
                          Stored(4, "enroll", Bob, NoPair)}
                         \union (IF owner = Alice THEN {Stored(5, "pair", NoPerson, p)} ELSE {})
  BY DEF InUse
<1>11. pairs \in [Pairs -> Persons \union {NoPerson}] /\ \A q \in Pairs : pairs[q] # NoPerson => pairs[q] = Alice
  BY <1>0, <1>10
<1>13. ASSUME NEW ch \in challenges
       PROVE  /\ ch \in Challenge /\ ch.user \in {Alice, Bob, NoPerson} /\ ~ch.used
              /\ \/ ch.id = 2 /\ ch = Stored(2, "login", Alice, NoPair)
                 \/ ch.id = 3 /\ ch = Stored(3, "step_up", Alice, NoPair)
                 \/ ch.id = 4 /\ ch = Stored(4, "enroll", Bob, NoPair)
                 \/ ch.id = 5 /\ ch = Stored(5, "pair", NoPerson, p)
  <2>1. CASE ch = Stored(2, "login", Alice, NoPair)
    BY <1>0, <2>1 DEF Stored, Challenge, Purposes
  <2>2. CASE ch = Stored(3, "step_up", Alice, NoPair)
    BY <1>0, <2>2 DEF Stored, Challenge, Purposes
  <2>3. CASE ch = Stored(4, "enroll", Bob, NoPair)
    BY <1>0, <2>3 DEF Stored, Challenge, Purposes
  <2>4. CASE ch = Stored(5, "pair", NoPerson, p)
    BY <1>0, <2>4 DEF Stored, Challenge, Purposes
  <2> QED  BY <1>10, <2>1, <2>2, <2>3, <2>4
<1>14. setupCode = FALSE /\ bootstrapped = Alice
  BY DEF InUse
<1>15. StateTypes
  BY <1>0, <1>2, <1>4, <1>7, <1>8, <1>9, <1>11, <1>13, <1>14, AccountsAssumption DEF StateTypes
<1>16. PeopleShape
  BY <1>0, <1>4, <1>7, <1>9, <1>11, <1>13, <1>14 DEF PeopleShape, Known
<1>17. \A ch \in challenges : ch.id \in 2 .. 5 /\ ~ch.used
  BY <1>13
<1>18. \A ch, other \in challenges : ch.id = other.id => ch = other
  BY <1>13
<1> QED  BY <1>4, <1>5, <1>7, <1>8, <1>14, <1>15, <1>16, <1>17, <1>18 DEF Started

LEMMA AccountsInvInit ==
    ASSUME AccountsInit
    PROVE  AccountsInv
<1>1. /\ unpaired = {} /\ fresh = 6 /\ clock = 2 /\ mix \in Mixes /\ callsLeft = MaxAccountCalls
      /\ adminLock = NoPerson /\ call = [c \in Callers |-> IdleCall]
  BY DEF AccountsInit
<1>2. StateTypes /\ PeopleShape
  BY <1>1, NewServerInit, InUseInit DEF AccountsInit, Started
<1>3. call \in [Callers -> Call] /\ Locks /\ \A c \in Callers : CallShape(call[c])
  BY <1>1, IdleType, AccountsAssumption DEF Locks
<1> QED  BY <1>1, <1>2, <1>3, AccountsTypes DEF AccountsInv

\* Whatever requests come and however their statements interleave, every variable keeps to its
\* set, the advisory lock is held by the one request between its read and its write, and every
\* request works on people, sessions and invites there are.
THEOREM AccountsCorrect == AccountsSpec => []AccountsInv
<1>1. AccountsInit => AccountsInv
  BY AccountsInvInit
<1>2. AccountsInv /\ [AccountsNext]_accountVars => AccountsInv'
  BY AccountsInvStep
<1> QED  BY <1>1, <1>2, PTL DEF AccountsSpec

\* The type invariant of the accounts.
THEOREM AccountsTypeCorrect == AccountsSpec => []AccountsTypeOK
<1>1. AccountsInv => AccountsTypeOK
  BY DEF AccountsInv
<1> QED  BY <1>1, AccountsCorrect, PTL

-----------------------------------------------------------------------------
(* Where requests go, and what most steps leave alone.                     *)

\* A request moves, to neither of the places where it has read something that others must heed.
Goes(c) ==
    /\ call'[c].at \notin {"locked", "remove"}
    /\ \A d \in Callers : d # c => call'[d] = call[d]

LEMMA DoneGoes ==
    ASSUME AccountsInv, NEW c \in Callers, Done(c)
    PROVE  Goes(c)
BY CallIs, IdleType DEF Done, Goes

LEMMA StepGoes ==
    ASSUME AccountsInv, NEW c \in Callers, NEW at \in {"close", "insert", "mint", "write", "count"}, Step(c, at)
    PROVE  Goes(c)
<1> DEFINE q == call[c]
           r == [q EXCEPT !.at = at]
<1>1. q \in Call /\ call \in [Callers -> Call]
  BY CallIs
<1>2. call' = [call EXCEPT ![c] = r]
  BY DEF Step
<1> HIDE DEF q
<1>3. r.at = at
  BY <1>1 DEF Call
<1> HIDE DEF r
<1> QED  BY <1>1, <1>2, <1>3 DEF Goes

\* Requests that are made leave all but the authenticators' counters and, with a pair, the
\* challenges and what is accepted.
AskFrame == UNCHANGED <<people, invites, pairs, unpaired, setupCode, bootstrapped, fresh, clock, adminLock>>

LEMMA AsksFrame ==
    ASSUME AccountsInv, NEW c \in Callers,
           \/ \E u \in Persons : NewComer(c, u)
           \/ \E s \in DOMAIN signIns : SignedIn(c, s)
           \/ \E p \in Pairs : AskPairChallenge(c, p) \/ \E ch \in challenges : LoginByPair(c, p, ch.id)
    PROVE  AskFrame /\ Goes(c)
<1>0. call \in [Callers -> Call]
  BY CallIs
<1>1. ASSUME NEW u \in Persons, NewComer(c, u)
      PROVE  AskFrame /\ Goes(c)
  <2>1. CASE Setup(c, u)
    BY <1>0, <2>1 DEF Setup, AskFrame, credentials, IdleCall, AskFor, Goes
  <2>2. CASE Login(c, u)
    BY <1>0, <2>2 DEF Login, AskFrame, credentials, IdleCall, AskFor, Goes
  <2>3. CASE AskLoginChallenge(c, u)
    BY <1>0, <2>3 DEF AskLoginChallenge, AskFrame, credentials, IdleCall, AskFor, Goes
  <2>4. ASSUME NEW n \in DOMAIN invites, AskAccept(c, u, n)
        PROVE  AskFrame /\ Goes(c)
    BY <1>0, <2>4 DEF AskAccept, AskFrame, credentials, IdleCall, AskFor, Goes
  <2>5. ASSUME NEW n, LoginByPasskey(c, u, n)
        PROVE  AskFrame /\ Goes(c)
    BY <1>0, <2>5 DEF LoginByPasskey, AskAssert, AskFrame, IdleCall, AskFor, Goes
  <2> QED  BY <1>1, <2>1, <2>2, <2>3, <2>4, <2>5 DEF NewComer
<1>2. ASSUME NEW s \in DOMAIN signIns, SignedIn(c, s)
      PROVE  AskFrame /\ Goes(c)
  <2>a. CASE AskPassword(c, s)
    BY <1>0, <2>a DEF AskPassword, AskFrame, credentials, Own, IdleCall, AskFor, Goes
  <2>b. CASE AskStepUp(c, s)
    BY <1>0, <2>b DEF AskStepUp, AskFrame, credentials, Own, IdleCall, AskFor, Goes
  <2>1. CASE AskInvite(c, s)
    BY <1>0, <2>1 DEF AskInvite, AskFrame, credentials, Own, IdleCall, AskFor, Goes
  <2>2. ASSUME NEW t \in DOMAIN signIns, AskSignOut(c, s, t)
        PROVE  AskFrame /\ Goes(c)
    BY <1>0, <2>2 DEF AskSignOut, AskFrame, credentials, Own, IdleCall, AskFor, Goes
  <2>3. ASSUME NEW op \in {"totp_enroll", "totp_confirm", "totp_disable"}, AskTotp(c, s, op)
        PROVE  AskFrame /\ Goes(c)
    BY <1>0, <2>3 DEF AskTotp, AskFrame, credentials, Own, IdleCall, AskFor, Goes
  <2>4. ASSUME NEW purpose \in {"register", "step_up", "enroll"}, AskChallenge(c, s, purpose)
        PROVE  AskFrame /\ Goes(c)
    BY <1>0, <2>4 DEF AskChallenge, AskFrame, credentials, Own, IdleCall, AskFor, Goes
  <2>5. ASSUME NEW ch \in challenges, AskRegister(c, s, ch.id)
        PROVE  AskFrame /\ Goes(c)
    BY <1>0, <2>5 DEF AskRegister, AskFrame, credentials, Own, IdleCall, AskFor, Goes
  <2>6. ASSUME NEW ch \in challenges, StepUpByPasskey(c, s, ch.id)
        PROVE  AskFrame /\ Goes(c)
    BY <1>0, <2>6 DEF StepUpByPasskey, AskAssert, AskFrame, Own, IdleCall, AskFor, Goes
  <2>7. ASSUME NEW p \in Pairs, AskUnpair(c, s, p)
        PROVE  AskFrame /\ Goes(c)
    BY <1>0, <2>7 DEF AskUnpair, AskFrame, credentials, Own, IdleCall, AskFor, Goes
  <2>8. ASSUME NEW n \in DOMAIN invites, AskUninvite(c, s, n)
        PROVE  AskFrame /\ Goes(c)
    BY <1>0, <2>8 DEF AskUninvite, AskFrame, credentials, Own, IdleCall, AskFor, Goes
  <2>9. ASSUME NEW u \in Persons, NEW to, AskPatch(c, s, u, to)
        PROVE  AskFrame /\ Goes(c)
    BY <1>0, <2>9 DEF AskPatch, AskFrame, credentials, Own, IdleCall, AskFor, Goes
  <2> QED  BY <1>2, <2>a, <2>b, <2>1, <2>2, <2>3, <2>4, <2>5, <2>6, <2>7, <2>8, <2>9 DEF SignedIn
<1>3. ASSUME NEW p \in Pairs, AskPairChallenge(c, p)
      PROVE  AskFrame /\ Goes(c)
  BY <1>0, <1>3 DEF AskPairChallenge, AskFrame, credentials, IdleCall, AskFor, Goes
<1>4. ASSUME NEW p \in Pairs, NEW n, LoginByPair(c, p, n)
      PROVE  AskFrame /\ Goes(c)
  BY <1>0, <1>4 DEF LoginByPair, AskFrame, IdleCall, AskFor, Goes
<1> QED  BY <1>1, <1>2, <1>3, <1>4

\* The steps of a request that change no account, session or pair.
AsideStep(c) ==
    \/ CloseSetup(c) \/ CreateInvite(c) \/ RevokeInvite(c) \/ Code(c) \/ ReadTotp(c)
    \/ EnrollTotp(c) \/ ConfirmTotp(c) \/ DisableTotp(c)
    \/ DropChallenges(c) \/ StoreChallenge(c) \/ TakeChallenge(c) \/ RegisterPasskey(c) \/ CountAssertion(c)

LEMMA AsideSteps ==
    ASSUME AccountsInv, NEW c \in Callers, AsideStep(c)
    PROVE  Goes(c) /\ UNCHANGED <<account, signIns, pairs, unpaired, bootstrapped>>
<1>1. call[c] \in Call /\ call \in [Callers -> Call]
  BY CallIs
<1>2. CASE CloseSetup(c) \/ CreateInvite(c) \/ RevokeInvite(c)
  BY <1>2, DoneGoes DEF CloseSetup, CreateInvite, RevokeInvite, people
<1>3. CASE Code(c)
  BY <1>3, DoneGoes, StepGoes DEF Code, credentials
<1>4. CASE EnrollTotp(c) \/ ConfirmTotp(c) \/ DisableTotp(c)
  BY <1>4, DoneGoes DEF EnrollTotp, ConfirmTotp, DisableTotp, credentials
<1>5. CASE ReadTotp(c)
  <2>1. UNCHANGED <<account, signIns, pairs, unpaired, bootstrapped>>
    BY <1>5 DEF ReadTotp, people, credentials
  <2> DEFINE secret == totp[call[c].who].pending
  <2>2. ASSUME NEW k \in Window,
               call' = [call EXCEPT ![c].at = "write", ![c].n = k, ![c].creds.secret = secret]
        PROVE  Goes(c)
    <3>1. call'[c].at = "write" /\ \A d \in Callers : d # c => call'[d] = call[d]
      BY <1>1, <2>2 DEF Call
    <3> QED  BY <3>1 DEF Goes
  <2>3. call[c].op \in {"totp_enroll", "totp_disable", "totp_confirm"}
    BY <1>5, CallIs DEF ReadTotp, CallShape
  <2>4. \/ Done(c)
        \/ Step(c, "write")
        \/ \E k \in Window : call' = [call EXCEPT ![c].at = "write", ![c].n = k, ![c].creds.secret = secret]
    BY <1>5, <2>3 DEF ReadTotp
  <2> HIDE DEF secret
  <2>5. Goes(c)
    BY <2>2, <2>4, DoneGoes, StepGoes
  <2> QED  BY <2>1, <2>5
<1>6. CASE DropChallenges(c) \/ StoreChallenge(c)
  BY <1>6, DoneGoes, StepGoes DEF DropChallenges, StoreChallenge, people
<1>7. CASE TakeChallenge(c)
  <2>1. Done(c) \/ Step(c, "count")
    BY <1>7 DEF TakeChallenge
  <2> QED  BY <1>7, <2>1, DoneGoes, StepGoes DEF TakeChallenge, people
<1>8. CASE RegisterPasskey(c)
  BY <1>8, DoneGoes DEF RegisterPasskey, people
<1>9. CASE CountAssertion(c)
  <2>1. UNCHANGED <<account, signIns, pairs, unpaired, bootstrapped>>
    BY <1>9 DEF CountAssertion, people
  <2>2. ASSUME NEW at \in {"code", "write"}, NEW op, call' = [call EXCEPT ![c].at = at, ![c].op = op]
        PROVE  Goes(c)
    <3>1. call'[c].at = at /\ \A d \in Callers : d # c => call'[d] = call[d]
      BY <1>1, <2>2 DEF Call
    <3> QED  BY <3>1 DEF Goes
  <2>3. \/ Done(c)
        \/ \E at \in {"code", "write"} : \E op : call' = [call EXCEPT ![c].at = at, ![c].op = op]
    BY <1>9 DEF CountAssertion
  <2>4. Goes(c)
    BY <2>2, <2>3, DoneGoes
  <2> QED  BY <2>1, <2>4
<1> QED  BY <1>2, <1>3, <1>4, <1>5, <1>6, <1>7, <1>8, <1>9 DEF AsideStep

\* The steps of no request.
LEMMA AloneFrame ==
    ASSUME AccountsInv,
           \/ Tick
           \/ \E s \in DOMAIN signIns : DeletePasskey(s)
           \/ UNCHANGED accountVars
    PROVE  UNCHANGED <<account, signIns, pairs, unpaired, bootstrapped, call>>
BY DEF Tick, DeletePasskey, accountVars, people, credentials

-----------------------------------------------------------------------------
(* An admin is left.                                                       *)

\* Whoever holds the lock to demote or disable an admin has seen another.
AdminInv ==
    /\ bootstrapped # NoPerson => Admins # {}
    /\ \A c \in Callers : call[c].at = "locked" /\ call[c].to \in {"member", "disable"}
                             => \E u \in Admins : u # call[c].target

\* Admins are only added, and nobody takes the lock.
LEMMA AdminsGrow ==
    ASSUME AdminInv, Admins \subseteq Admins',
           bootstrapped' # NoPerson => bootstrapped # NoPerson \/ Admins' # {},
           \A d \in Callers : call'[d].at = "locked" => call'[d] = call[d]
    PROVE  AdminInv'
<1>1. bootstrapped' # NoPerson => Admins' # {}
  BY DEF AdminInv
<1>2. ASSUME NEW d \in Callers, call'[d].at = "locked", call'[d].to \in {"member", "disable"}
      PROVE  \E u \in Admins' : u # call'[d].target
  <2>1. call'[d] = call[d]
    BY <1>2
  <2> QED  BY <1>2, <2>1 DEF AdminInv
<1> QED  BY <1>1, <1>2 DEF AdminInv

LEMMA AdminsStay ==
    ASSUME AdminInv, NEW c \in Callers, Goes(c), UNCHANGED <<account, bootstrapped>>
    PROVE  AdminInv'
<1>1. Admins' = Admins
  BY DEF Admins
<1> QED  BY <1>1, AdminsGrow DEF Goes

\* A person is a user or they are not, and a new one becomes one.
LEMMA NewUserAdmins ==
    ASSUME AccountsInv, NEW u \in Persons, NEW admin \in BOOLEAN, NEW n \in Nat, NewUser(u, admin, n)
    PROVE  Admins \subseteq Admins' /\ (admin => u \in Admins')
<1>1. account \in [Persons -> Account]
  BY AccountsTypes DEF AccountsInv, StateTypes
<1>2. /\ account[u].is = "none" /\ \A v \in Persons : v # u => account'[v] = account[v]
      /\ account'[u].is = "on" /\ account'[u].admin = admin
  BY <1>1 DEF NewUser
<1> QED  BY <1>2 DEF Admins

LEMMA StepsLeaveAdmins ==
    ASSUME AccountsInv, AdminInv, NEW c \in Callers, AccountStep(c)
    PROVE  AdminInv'
<1>1. /\ StateTypes /\ PeopleShape /\ Locks /\ call[c] \in Call /\ CallShape(call[c]) /\ call \in [Callers -> Call]
  BY AccountsTypes, CallIs DEF AccountsInv
<1>2. CASE AsideStep(c)
  BY <1>2, AsideSteps, AdminsStay
<1>3. CASE Mint(c) \/ SignOut(c) \/ StepUp(c) \/ RevokePair(c)
  <2>1. Done(c) /\ UNCHANGED <<account, bootstrapped>>
    BY <1>3 DEF Mint, SignOut, StepUp, RevokePair, credentials
  <2> QED  BY <2>1, DoneGoes, AdminsStay
<1>4. CASE FindTagged(c)
  <2>1. UNCHANGED <<account, bootstrapped>>
    BY <1>4 DEF FindTagged, people, credentials
  <2>2. /\ call'[c].at # "locked" /\ \A d \in Callers : d # c => call'[d] = call[d]
    <3>1. CASE Done(c)
      BY <3>1, DoneGoes DEF Goes
    <3>2. ASSUME NEW seen, call' = [call EXCEPT ![c].at = "remove", ![c].seen = seen]
          PROVE  call'[c].at # "locked" /\ \A d \in Callers : d # c => call'[d] = call[d]
      BY <1>1, <3>2 DEF Call
    <3> QED  BY <1>4, <3>1, <3>2 DEF FindTagged
  <2>3. Admins' = Admins
    BY <2>1 DEF Admins
  <2> QED  BY <2>1, <2>2, <2>3, AdminsGrow
<1>5. CASE CompleteSetup(c)
  <2>1. call[c].who \in Persons
    BY <1>1, <1>5 DEF CompleteSetup, Is, CallShape, Call
  <2>2. CASE NewUser(call[c].who, TRUE, 0) /\ Step(c, "close")
    <3>1. Admins \subseteq Admins' /\ Admins' # {}
      BY <2>1, <2>2, NewUserAdmins
    <3> QED  BY <2>2, <3>1, StepGoes, AdminsGrow DEF Goes
  <2>3. CASE Done(c) /\ UNCHANGED <<account, bootstrapped>>
    BY <2>3, DoneGoes, AdminsStay
  <2> QED  BY <1>5, <2>2, <2>3 DEF CompleteSetup, people
<1>6. CASE AcceptInvite(c)
  <2>1. call[c].who \in Persons /\ call[c].n \in Nat /\ Done(c) /\ UNCHANGED bootstrapped
    BY <1>1, <1>6 DEF AcceptInvite, Is, CallShape, Call
  <2>2. CASE NewUser(call[c].who, FALSE, call[c].n)
    <3>1. Admins \subseteq Admins'
      BY <2>1, <2>2, NewUserAdmins
    <3> QED  BY <2>1, <3>1, DoneGoes, AdminsGrow DEF Goes
  <2>3. CASE UNCHANGED account
    BY <2>1, <2>3, DoneGoes, AdminsStay
  <2> QED  BY <1>6, <2>2, <2>3 DEF AcceptInvite, people
<1>7. CASE SetPassword(c)
  <2>1. Done(c) /\ UNCHANGED bootstrapped
    BY <1>7 DEF SetPassword, credentials
  <2> DEFINE u == call[c].who
             p == account[u].pw + 1
  <2>2. u \in Persons /\ account' = [account EXCEPT ![u] = [account[u] EXCEPT !.pw = p]]
    BY <1>7, PasswordSets
  <2> HIDE DEF u, p
  <2>3. \A v \in Persons : account'[v].is = account[v].is /\ account'[v].admin = account[v].admin
    BY <1>1, <2>2 DEF StateTypes, Account
  <2>4. Admins' = Admins
    BY <2>3, Zenon DEF Admins
  <2> QED  BY <2>1, <2>4, DoneGoes, AdminsGrow DEF Goes
<1>8. CASE LockAdmins(c)
  <2>1. UNCHANGED <<account, bootstrapped>> /\ call[c].op = "patch"
    BY <1>8 DEF LockAdmins, people, credentials, Is
  <2>2. Admins' = Admins
    BY <2>1 DEF Admins
  <2>3. CASE Done(c)
    BY <2>1, <2>3, DoneGoes, AdminsStay
  <2>4. CASE Step(c, "locked") /\ ~(call[c].to \in {"member", "disable"} /\ Admins = {call[c].target})
    <3> DEFINE q == call[c]
               r == [q EXCEPT !.at = "locked"]
    <3>1. call' = [call EXCEPT ![c] = r] /\ q \in Call
      BY <1>1, <2>4 DEF Step
    <3>2. Known(q.target) /\ q.target \in Persons
      BY <1>1, <2>1 DEF CallShape
    <3>3. q.to \in {"member", "disable"} => Admins # {q.target}
      BY <2>4
    <3> HIDE DEF q
    <3>4. r.to = q.to /\ r.target = q.target
      BY <3>1 DEF Call
    <3> HIDE DEF r
    <3>5. call'[c] = r /\ \A d \in Callers : d # c => call'[d] = call[d]
      BY <1>1, <3>1
    <3>6. Admins # {}
      BY <1>1, <3>2, AccountsAssumption DEF AdminInv, PeopleShape
    <3>7. q.to \in {"member", "disable"} => \E u \in Admins : u # q.target
      BY <3>3, <3>6
    <3> QED  BY <2>1, <2>2, <3>4, <3>5, <3>6, <3>7 DEF AdminInv
  <2> QED  BY <1>8, <2>3, <2>4 DEF LockAdmins
<1>9. CASE PatchUser(c)
  <2> DEFINE u == call[c].target
             to == call[c].to
  <2>1. /\ u \in Persons /\ Known(u) /\ adminLock = c
        /\ \A v \in Persons : v # u => account'[v] = account[v]
        /\ account'[u].admin = IF to \in {"admin", "member"} THEN to = "admin" ELSE account[u].admin
        /\ account'[u].is = CASE to = "disable" -> "disabled"
                              [] to = "enable" -> "on" [] OTHER -> account[u].is
    BY <1>9, Patches
  <2>2. Done(c) /\ call[c].at = "locked" /\ UNCHANGED bootstrapped
    BY <1>9 DEF PatchUser, Is, credentials
  <2>3. bootstrapped # NoPerson
    BY <1>1, <2>1 DEF PeopleShape
  <2>4. Admins' # {}
    <3>1. CASE to \in {"member", "disable"}
      <4>1. PICK v \in Admins : v # u
        BY <2>2, <3>1 DEF AdminInv
      <4>2. v \in Persons /\ account'[v] = account[v]
        BY <2>1, <4>1 DEF Admins
      <4>3. v \in Admins'
        BY <4>1, <4>2 DEF Admins
      <4> QED  BY <4>3
    <3>2. CASE to \notin {"member", "disable"}
      <4>1. PICK v \in Admins : TRUE
        BY <2>3 DEF AdminInv
      <4>2. CASE v # u
        <5>1. v \in Admins'
          BY <2>1, <4>1, <4>2 DEF Admins
        <5> QED  BY <5>1
      <4>3. CASE v = u
        <5>1. account[u].is = "on" /\ account[u].admin
          BY <4>1, <4>3 DEF Admins
        <5> HIDE DEF u, to
        <5>2. account'[u].is = "on"
          BY <2>1, <3>2, <5>1
        <5>3. account'[u].admin
          BY <2>1, <3>2, <5>1
        <5>4. u \in Admins'
          BY <2>1, <5>2, <5>3 DEF Admins
        <5> QED  BY <5>4
      <4> QED  BY <4>2, <4>3
    <3> QED  BY <3>1, <3>2
  <2>5. \A d \in Callers : call'[d].at # "locked"
    <3>1. \A d \in Callers : d # c => call[d].at # "locked"
      BY <1>1, <2>1 DEF Locks
    <3> QED  BY <2>2, <3>1, DoneGoes DEF Goes
  <2> QED  BY <2>4, <2>5 DEF AdminInv
<1> QED  BY <1>2, <1>3, <1>4, <1>5, <1>6, <1>7, <1>8, <1>9 DEF AccountStep, AsideStep

LEMMA AdminInvStep ==
    ASSUME AccountsInv, AdminInv, [AccountsNext]_accountVars
    PROVE  AdminInv'
<1>1. ASSUME NEW c \in Callers, AccountStep(c)
      PROVE  AdminInv'
  BY <1>1, StepsLeaveAdmins
<1>2. ASSUME NEW c \in Free,
             \/ \E u \in Persons : NewComer(c, u)
             \/ \E s \in {t \in DOMAIN signIns : Active(t)} : SignedIn(c, s)
             \/ \E p \in Pairs : AskPairChallenge(c, p) \/ \E ch \in challenges : LoginByPair(c, p, ch.id)
      PROVE  AdminInv'
  <2>1. c \in Callers
    BY DEF Free
  <2>2. Goes(c) /\ UNCHANGED <<account, bootstrapped>>
    BY <1>2, <2>1, AsksFrame DEF AskFrame, people
  <2> QED  BY <2>1, <2>2, AdminsStay
<1>3. ASSUME UNCHANGED <<account, bootstrapped, call>>
      PROVE  AdminInv'
  <2>1. Admins' = Admins
    BY <1>3 DEF Admins
  <2> QED  BY <1>3, <2>1, AdminsGrow
<1>4. CASE AccountsRestart
  <2>1. UNCHANGED <<account, bootstrapped>> /\ \A d \in Callers : call'[d].at # "locked"
    BY <1>4, IdleType DEF AccountsRestart, people
  <2>2. Admins' = Admins
    BY <2>1 DEF Admins
  <2> QED  BY <2>1, <2>2, AdminsGrow
<1>5. ASSUME NEW p, NEW n, PairApp(p, n)
      PROVE  UNCHANGED <<account, bootstrapped, call>>
  BY <1>5 DEF PairApp, people
<1>6. ASSUME NEW s, StepDown(s)
      PROVE  UNCHANGED <<account, bootstrapped, call>>
  BY <1>6 DEF StepDown, credentials
<1> QED  BY <1>1, <1>2, <1>3, <1>4, <1>5, <1>6, AloneFrame DEF AccountsNext

LEMMA AdminInvInit ==
    ASSUME AccountsInit
    PROVE  AdminInv
<1>1. \A c \in Callers : call[c].at # "locked"
  BY IdleType DEF AccountsInit
<1>2. CASE NewServer
  BY <1>1, <1>2 DEF NewServer, AdminInv
<1>3. CASE InUse
  <2>1. Started
    BY <1>3, InUseInit DEF AccountsInit
  <2>2. Alice \in Admins
    BY <2>1, AccountsAssumption DEF Started, Admins
  <2> QED  BY <1>1, <2>2 DEF AdminInv
<1> QED  BY <1>2, <1>3 DEF AccountsInit

\* Once the platform is set up it has an enabled admin, whatever admins do to each other and to
\* themselves at once: `update_user` counts the other admins under the advisory lock, and
\* nobody but the lock's holder takes one away.
THEOREM AnAdminIsLeft == AccountsSpec => []AdminLeft
<1>1. AccountsInit => AdminInv
  BY AdminInvInit
<1>2. AccountsInv /\ AdminInv /\ [AccountsNext]_accountVars => AdminInv'
  BY AdminInvStep
<1>3. AdminInv => AdminLeft
  BY DEF AdminInv, AdminLeft
<1> QED  BY <1>1, <1>2, <1>3, AccountsCorrect, PTL DEF AccountsSpec

\* With the types: whom sessions, invites and pairs are of, and that an admin is left (`_ensure_not_last_enabled_admin`).
THEOREM AccountsKept == AccountsSpec => []AccountsAreKept
<1>1. AccountsTypeOK /\ AdminLeft => AccountsAreKept
  BY DEF AccountsAreKept
<1> QED  BY <1>1, AccountsTypeCorrect, AnAdminIsLeft, PTL

-----------------------------------------------------------------------------
(* Whoever is signed in is current.                                        *)

Fit(s) == signIns[s].live /\ ~signIns[s].late

Current(s) ==
    /\ account[signIns[s].user].is = "on"
    /\ signIns[s].pw \in {0, account[signIns[s].user].pw}
    /\ signIns[s].by # NoPair => pairs[signIns[s].by] = signIns[s].user /\ signIns[s].pair = signIns[s].by

\* A session is current, and tagged with its pair; a revocation of the pair knows it.
SessionInv ==
    /\ \A s \in DOMAIN signIns : Fit(s) => Current(s)
    /\ \A c \in Callers : call[c].at = "remove" =>
          \A s \in DOMAIN signIns : Fit(s) /\ signIns[s].by = call[c].pair => s \in call[c].seen

\* What a step may do to the sessions, for them to stay current.
LEMMA SessionsStay ==
    ASSUME SessionInv,
           \A s \in DOMAIN signIns' : Fit(s)' => Current(s)',
           \A d \in Callers : call'[d].at = "remove" => call'[d] = call[d],
           \A s \in DOMAIN signIns' :
               Fit(s)' => \/ s \in DOMAIN signIns /\ Fit(s) /\ signIns'[s].by = signIns[s].by
                          \/ \A d \in Callers : call[d].at = "remove" => call[d].pair # signIns'[s].by
    PROVE  SessionInv'
<1>1. ASSUME NEW d \in Callers, call'[d].at = "remove", NEW s \in DOMAIN signIns', Fit(s)',
             signIns'[s].by = call'[d].pair
      PROVE  s \in call'[d].seen
  <2>1. call'[d] = call[d]
    BY <1>1
  <2>2. s \in DOMAIN signIns /\ Fit(s) /\ signIns'[s].by = signIns[s].by
    BY <1>1, <2>1
  <2> QED  BY <1>1, <2>1, <2>2 DEF SessionInv
<1> QED  BY <1>1 DEF SessionInv

LEMMA SessionsUntouched ==
    ASSUME SessionInv, UNCHANGED <<account, signIns, pairs>>,
           \A d \in Callers : call'[d].at = "remove" => call'[d] = call[d]
    PROVE  SessionInv'
<1>1. \A s \in DOMAIN signIns' : (Fit(s)' <=> Fit(s)) /\ (Current(s)' <=> Current(s))
  BY DEF Fit, Current
<1> QED  BY <1>1, SessionsStay DEF SessionInv

\* Sessions are the same or over, and what is current of the rest stays so.
LEMMA SessionsEnd ==
    ASSUME SessionInv, signIns' \in [DOMAIN signIns -> SignIn], NEW c \in Callers, Goes(c),
           \A s \in DOMAIN signIns :
               /\ signIns'[s].by = signIns[s].by /\ signIns'[s].late = signIns[s].late
               /\ signIns'[s].live => signIns[s].live,
           \A s \in DOMAIN signIns : Fit(s) /\ signIns'[s].live => Current(s)'
    PROVE  SessionInv'
<1>1. \A s \in DOMAIN signIns' : Fit(s)' => Fit(s) /\ s \in DOMAIN signIns
  BY DEF Fit
<1>2. \A s \in DOMAIN signIns' : Fit(s)' => Current(s)'
  BY <1>1 DEF Fit
<1> QED  BY <1>1, <1>2, SessionsStay DEF Goes

LEMMA NewUserSession ==
    ASSUME AccountsInv, SessionInv, NEW c \in Callers, Goes(c), UNCHANGED pairs,
           NEW u \in Persons, NEW admin \in BOOLEAN, NEW n \in Nat, NewUser(u, admin, n)
    PROVE  SessionInv'
<1>1. StateTypes /\ PeopleShape /\ Locks /\ call \in [Callers -> Call]
  BY AccountsTypes DEF AccountsInv
<1>2. /\ account[u].is = "none" /\ \A v \in Persons : v # u => account'[v] = account[v]
      /\ account'[u].is = "on" /\ account'[u].pw = 1
  BY <1>1 DEF NewUser, StateTypes
<1> DEFINE x == NewSignIn(u, NoPair, 1, FALSE)
<1>3. x \in SignIn /\ x.user = u /\ x.by = NoPair /\ x.pw = 1
  BY DEF NewSignIn, SignIn
<1>4. signIns' = Append(signIns, x)
  BY DEF NewUser
<1> HIDE DEF x
<1>5. /\ \A s \in DOMAIN signIns : s \in DOMAIN signIns' /\ signIns'[s] = signIns[s]
      /\ \A s \in DOMAIN signIns' : s \in DOMAIN signIns \/ signIns'[s] = x
  BY <1>1, <1>3, <1>4, SessionAdded DEF StateTypes
<1>6. ASSUME NEW s \in DOMAIN signIns', Fit(s)'
      PROVE  Current(s)'
  <2>1. CASE signIns'[s] = x
    BY <1>2, <1>3, <2>1 DEF Current
  <2>2. CASE s \in DOMAIN signIns
    <3>1. signIns'[s] = signIns[s] /\ Fit(s)
      BY <1>5, <1>6, <2>2 DEF Fit
    <3>2. Current(s) /\ signIns[s].user \in Persons
      BY <1>1, <2>2, <3>1, SessionType DEF SessionInv, StateTypes
    <3>3. signIns[s].user # u
      BY <1>2, <3>2 DEF Current
    <3> QED  BY <1>2, <3>1, <3>2, <3>3 DEF Current
  <2> QED  BY <1>5, <2>1, <2>2
<1>7. ASSUME NEW s \in DOMAIN signIns', Fit(s)'
      PROVE  \/ s \in DOMAIN signIns /\ Fit(s) /\ signIns'[s].by = signIns[s].by
             \/ \A d \in Callers : call[d].at = "remove" => call[d].pair # signIns'[s].by
  <2>1. CASE s \in DOMAIN signIns
    BY <1>5, <1>7, <2>1 DEF Fit
  <2>2. CASE signIns'[s] = x
    <3>1. \A d \in Callers : call[d].at = "remove" => call[d].pair \in Pairs
      BY CallIs DEF CallShape
    <3> QED  BY <1>3, <2>2, <3>1, AccountsAssumption
  <2> QED  BY <1>5, <2>1, <2>2
<1> QED  BY <1>6, <1>7, SessionsStay DEF Goes

LEMMA MintsCurrent ==
    ASSUME AccountsInv, SessionInv, NEW c \in Callers, Mint(c)
    PROVE  SessionInv'
<1>1. StateTypes /\ PeopleShape /\ call[c] \in Call /\ CallShape(call[c])
  BY AccountsTypes, CallIs DEF AccountsInv
<1>2. UNCHANGED <<account, pairs>> /\ Goes(c) /\ call[c].at = "mint"
  BY DoneGoes DEF Mint, credentials
<1> DEFINE u == call[c].who
           r == call[c].creds
           late == \/ account[u].is = "disabled"
                   \/ r.pw # 0 /\ r.pw # account[u].pw
                   \/ r.pair # NoPair /\ Unpairing(r.pair)
           x == NewSignIn(u, r.pair, r.pw, late)
<1>3. CASE UNCHANGED signIns
  BY <1>2, <1>3, SessionsUntouched DEF Goes
<1>4. CASE ~(r.pair # NoPair /\ pairs[r.pair] = NoPerson) /\ signIns' = Append(signIns, x)
  <2>1. u \in Persons /\ Known(u) /\ r.pair \in Pairs \union {NoPair} /\ r.pw \in Nat
    BY <1>1, <1>2 DEF CallShape, Call, Creds
  <2>2. late \in BOOLEAN
    BY Zenon
  <2>3. ~late => /\ account[u].is # "disabled"
                 /\ r.pw = 0 \/ r.pw = account[u].pw
                 /\ r.pair # NoPair => ~Unpairing(r.pair)
    BY Zenon
  <2> HIDE DEF late
  <2>4. /\ x \in SignIn /\ x.user = u /\ x.by = r.pair /\ x.pair = r.pair /\ x.pw = r.pw /\ x.late = late
    BY <2>1, <2>2 DEF NewSignIn, SignIn
  <2> HIDE DEF x
  <2>5. /\ \A s \in DOMAIN signIns : s \in DOMAIN signIns' /\ signIns'[s] = signIns[s]
        /\ \A s \in DOMAIN signIns' : s \in DOMAIN signIns \/ signIns'[s] = x
    BY <1>1, <1>4, <2>4, SessionAdded DEF StateTypes
  <2>6. r.pair # NoPair => pairs[r.pair] = u
    <3>1. r.pair # NoPair => pairs[r.pair] # NoPerson
      BY <1>4
    <3>2. r.pair # NoPair => pairs[r.pair] = u \/ r.pair \in unpaired
      BY <1>1 DEF CallShape
    <3> QED  BY <1>1, <2>1, <3>1, <3>2 DEF PeopleShape
  <2>7. account[u].is \in {"on", "disabled"}
    BY <1>1, <2>1 DEF StateTypes, Account, Known
  <2>8. ASSUME NEW s \in DOMAIN signIns', Fit(s)'
        PROVE  Current(s)'
    <3>1. CASE s \in DOMAIN signIns
      <4>1. Fit(s) /\ signIns'[s] = signIns[s]
        BY <2>5, <2>8, <3>1 DEF Fit
      <4> QED  BY <1>2, <3>1, <4>1 DEF SessionInv, Current
    <3>2. CASE signIns'[s] = x
      <4>1. ~late
        BY <2>4, <2>8, <3>2 DEF Fit
      <4> QED  BY <1>2, <2>3, <2>4, <2>6, <2>7, <3>2, <4>1 DEF Current
    <3> QED  BY <2>5, <3>1, <3>2
  <2>9. ASSUME NEW s \in DOMAIN signIns', Fit(s)'
        PROVE  \/ s \in DOMAIN signIns /\ Fit(s) /\ signIns'[s].by = signIns[s].by
               \/ \A d \in Callers : call[d].at = "remove" => call[d].pair # signIns'[s].by
    <3>1. CASE s \in DOMAIN signIns
      BY <2>5, <2>9, <3>1 DEF Fit
    <3>2. CASE signIns'[s] = x
      <4>1. ~late
        BY <2>4, <2>9, <3>2 DEF Fit
      <4>2. \A d \in Callers : call[d].at = "remove" => call[d].pair \in Pairs
        BY CallIs DEF CallShape
      <4> QED  BY <2>3, <2>4, <3>2, <4>1, <4>2, AccountsAssumption DEF Unpairing
    <3> QED  BY <2>5, <3>1, <3>2
  <2> QED  BY <1>2, <2>8, <2>9, SessionsStay DEF Goes
<1>5. UNCHANGED signIns \/ (~(r.pair # NoPair /\ pairs[r.pair] = NoPerson) /\ signIns' = Append(signIns, x))
  BY DEF Mint
<1> QED  BY <1>3, <1>4, <1>5

LEMMA PasswordCurrent ==
    ASSUME AccountsInv, SessionInv, NEW c \in Callers, SetPassword(c)
    PROVE  SessionInv'
<1>1. StateTypes
  BY AccountsTypes DEF AccountsInv
<1>2. UNCHANGED pairs /\ Goes(c)
  BY DoneGoes DEF SetPassword, credentials
<1> DEFINE u == call[c].who
           t == call[c].session
           p == account[u].pw + 1
<1>3. /\ u \in Persons /\ account' = [account EXCEPT ![u] = [account[u] EXCEPT !.pw = p]]
      /\ signIns' \in [DOMAIN signIns -> SignIn] /\ signIns'[t].pw = p
      /\ \A s \in DOMAIN signIns :
           /\ signIns'[s].user = signIns[s].user /\ signIns'[s].pair = signIns[s].pair
           /\ signIns'[s].by = signIns[s].by /\ signIns'[s].late = signIns[s].late
           /\ s # t => signIns'[s].pw = signIns[s].pw
           /\ signIns'[s].live => signIns[s].live /\ (signIns[s].user # u \/ s = t)
  BY PasswordSets
<1>4. signIns[t].user = u
  BY PasswordSets
<1> HIDE DEF u, t, p
<1>5. /\ \A v \in Persons : account'[v].is = account[v].is /\ (v # u => account'[v].pw = account[v].pw)
      /\ account'[u].pw = p
  BY <1>1, <1>3 DEF StateTypes, Account
<1>6. ASSUME NEW s \in DOMAIN signIns, Fit(s) /\ signIns'[s].live
      PROVE  Current(s)'
  <2>1. Current(s) /\ signIns[s].user \in Persons
    BY <1>1, <1>6, SessionType DEF SessionInv, StateTypes
  <2>2. CASE s = t
    BY <1>2, <1>3, <1>4, <1>5, <2>1, <2>2 DEF Current
  <2>3. CASE s # t
    <3>1. signIns[s].user # u
      BY <1>3, <1>6, <2>3
    <3> QED  BY <1>2, <1>3, <1>5, <2>1, <2>3, <3>1 DEF Current
  <2> QED  BY <2>2, <2>3
<1> QED  BY <1>2, <1>3, <1>6, SessionsEnd

LEMMA SignOutCurrent ==
    ASSUME AccountsInv, SessionInv, NEW c \in Callers, SignOut(c) \/ StepUp(c)
    PROVE  SessionInv'
<1>1. StateTypes /\ call[c] \in Call /\ CallShape(call[c])
  BY AccountsTypes, CallIs DEF AccountsInv
<1>2. UNCHANGED <<account, pairs>> /\ Goes(c)
  BY DoneGoes DEF SignOut, StepUp, credentials
<1>3. CASE UNCHANGED signIns
  BY <1>2, <1>3, SessionsUntouched DEF Goes
<1>4. ASSUME NEW n \in DOMAIN signIns,
             \/ signIns' = [signIns EXCEPT ![n].live = FALSE]
             \/ signIns' = [signIns EXCEPT ![n].stepped = TRUE]
      PROVE  SessionInv'
  <2>1. /\ signIns' \in [DOMAIN signIns -> SignIn]
        /\ \A s \in DOMAIN signIns :
             /\ signIns'[s].user = signIns[s].user /\ signIns'[s].pw = signIns[s].pw
             /\ signIns'[s].by = signIns[s].by /\ signIns'[s].late = signIns[s].late
             /\ signIns'[s].pair = signIns[s].pair
             /\ signIns'[s].live => signIns[s].live
    BY <1>1, <1>4, SessionsOne DEF StateTypes
  <2>2. \A s \in DOMAIN signIns : Fit(s) /\ signIns'[s].live => Current(s)'
    BY <1>2, <2>1 DEF SessionInv, Current
  <2> QED  BY <1>2, <2>1, <2>2, SessionsEnd
<1>5. CASE SignOut(c)
  <2>1. call[c].n \in DOMAIN signIns
    BY <1>1, <1>5 DEF CallShape, SignOut, Is
  <2> QED  BY <1>3, <1>4, <1>5, <2>1 DEF SignOut
<1>6. CASE StepUp(c)
  <2>1. call[c].session \in DOMAIN signIns
    BY <1>1, <1>6 DEF CallShape, StepUp, Is
  <2> QED  BY <1>4, <1>6, <2>1 DEF StepUp
<1> QED  BY <1>5, <1>6

LEMMA PatchCurrent ==
    ASSUME AccountsInv, SessionInv, NEW c \in Callers, PatchUser(c)
    PROVE  SessionInv'
<1>1. StateTypes
  BY AccountsTypes DEF AccountsInv
<1>2. UNCHANGED pairs /\ Goes(c)
  BY DoneGoes DEF PatchUser, credentials
<1> DEFINE u == call[c].target
           to == call[c].to
<1>3. /\ u \in Persons /\ Known(u) /\ account' \in [Persons -> Account]
      /\ \A v \in Persons : v # u => account'[v] = account[v]
      /\ account'[u].pw = account[u].pw
      /\ account'[u].is = CASE to = "disable" -> "disabled"
                            [] to = "enable" -> "on" [] OTHER -> account[u].is
      /\ signIns' = IF account'[u].is = "disabled" THEN Revoked(u, 0) ELSE signIns
  BY Patches
<1> HIDE DEF u, to
<1>4. account'[u].is # "disabled" => account'[u].is = "on"
  BY <1>1, <1>3 DEF StateTypes, Account, Known
<1>5. /\ signIns' \in [DOMAIN signIns -> SignIn]
      /\ \A s \in DOMAIN signIns :
           /\ signIns'[s].user = signIns[s].user /\ signIns'[s].pw = signIns[s].pw
           /\ signIns'[s].by = signIns[s].by /\ signIns'[s].late = signIns[s].late
           /\ signIns'[s].pair = signIns[s].pair
           /\ signIns'[s].live => signIns[s].live /\ (account'[u].is = "disabled" => signIns[s].user # u)
  <2>1. CASE account'[u].is = "disabled"
    <3>1. \A s \in DOMAIN signIns : s # 0
      BY <1>1, SessionType DEF StateTypes
    <3> QED  BY <1>1, <1>3, <2>1, <3>1, RevokedType DEF StateTypes
  <2>2. CASE account'[u].is # "disabled"
    BY <1>1, <1>3, <2>2, SessionsAreFunction DEF StateTypes
  <2> QED  BY <2>1, <2>2
<1>6. ASSUME NEW s \in DOMAIN signIns, Fit(s) /\ signIns'[s].live
      PROVE  Current(s)'
  <2>1. Current(s) /\ signIns[s].user \in Persons
    BY <1>1, <1>6, SessionType DEF SessionInv, StateTypes
  <2>2. CASE signIns[s].user = u
    <3>1. account'[u].is = "on"
      BY <1>4, <1>5, <1>6, <2>2
    <3> QED  BY <1>2, <1>3, <1>5, <2>1, <2>2, <3>1 DEF Current
  <2>3. CASE signIns[s].user # u
    BY <1>2, <1>3, <1>5, <2>1, <2>3 DEF Current
  <2> QED  BY <2>2, <2>3
<1> QED  BY <1>2, <1>5, <1>6, SessionsEnd

LEMMA UnpairCurrent ==
    ASSUME AccountsInv, SessionInv, NEW c \in Callers, FindTagged(c) \/ RevokePair(c)
    PROVE  SessionInv'
<1>1. StateTypes /\ call[c] \in Call /\ CallShape(call[c]) /\ call \in [Callers -> Call]
  BY AccountsTypes, CallIs DEF AccountsInv
<1>2. CASE FindTagged(c)
  <2>1. UNCHANGED <<account, signIns, pairs>> /\ call[c].op = "unpair"
    BY <1>2 DEF FindTagged, people, credentials, Is
  <2>2. CASE Done(c)
    BY <2>1, <2>2, DoneGoes, SessionsUntouched DEF Goes
  <2>3. CASE call' = [call EXCEPT ![c].at = "remove", ![c].seen = Tagged(call[c].pair)]
    <3> DEFINE p == call[c].pair
    <3>1. call'[c].pair = p /\ call'[c].seen = Tagged(p) /\ \A d \in Callers : d # c => call'[d] = call[d]
      BY <1>1, <2>3 DEF Call
    <3>2. p # NoPair
      BY <1>1, <2>1, AccountsAssumption DEF CallShape
    <3>3. \A s \in DOMAIN signIns : Fit(s) /\ signIns[s].by = p => s \in Tagged(p)
      BY <3>2 DEF SessionInv, Current, Tagged
    <3>4. \A s \in DOMAIN signIns' : (Fit(s)' <=> Fit(s)) /\ (Current(s)' <=> Current(s))
      BY <2>1 DEF Fit, Current
    <3>5. ASSUME NEW d \in Callers, call'[d].at = "remove", NEW s \in DOMAIN signIns, Fit(s),
                 signIns[s].by = call'[d].pair
          PROVE  s \in call'[d].seen
      <4>1. CASE d = c
        BY <3>1, <3>3, <3>5, <4>1
      <4>2. CASE d # c
        BY <3>1, <3>5, <4>2 DEF SessionInv
      <4> QED  BY <4>1, <4>2
    <3> QED  BY <2>1, <3>4, <3>5 DEF SessionInv
  <2> QED  BY <1>2, <2>2, <2>3 DEF FindTagged
<1>3. CASE RevokePair(c)
  <2> DEFINE p == call[c].pair
  <2>1. /\ p \in Pairs /\ pairs' = [pairs EXCEPT ![p] = NoPerson]
        /\ signIns' \in [DOMAIN signIns -> SignIn]
        /\ \A s \in DOMAIN signIns :
             /\ signIns'[s].user = signIns[s].user /\ signIns'[s].pw = signIns[s].pw
             /\ signIns'[s].by = signIns[s].by /\ signIns'[s].late = signIns[s].late
             /\ signIns'[s].pair = signIns[s].pair \/ signIns[s].pair = p
             /\ signIns'[s].live => signIns[s].live /\ s \notin call[c].seen
    BY <1>3, Untags
  <2>2. UNCHANGED account /\ Goes(c) /\ call[c].at = "remove"
    BY <1>3, DoneGoes DEF RevokePair, Is
  <2>3. \A s \in DOMAIN signIns : Fit(s) /\ signIns[s].by = p => s \in call[c].seen
    BY <2>2 DEF SessionInv
  <2> HIDE DEF p
  <2>4. ASSUME NEW s \in DOMAIN signIns, Fit(s) /\ signIns'[s].live
        PROVE  Current(s)'
    <3>1. Current(s) /\ signIns[s].by # p
      BY <2>1, <2>3, <2>4 DEF SessionInv
    <3>2. signIns[s].by # NoPair => pairs'[signIns[s].by] = pairs[signIns[s].by] /\ signIns'[s].pair = signIns[s].pair
      <4>1. signIns[s].by \in Pairs \union {NoPair}
        BY <1>1, SessionType DEF StateTypes, SignIn
      <4> QED  BY <1>1, <2>1, <3>1, <4>1 DEF StateTypes, Current
    <3> QED  BY <2>1, <2>2, <3>1, <3>2 DEF Current
  <2> QED  BY <2>1, <2>2, <2>4, SessionsEnd
<1> QED  BY <1>2, <1>3

LEMMA StepsKeepCurrent ==
    ASSUME AccountsInv, SessionInv, NEW c \in Callers, AccountStep(c)
    PROVE  SessionInv'
<1>1. call[c] \in Call /\ CallShape(call[c]) /\ call \in [Callers -> Call]
  BY CallIs
<1>2. CASE AsideStep(c)
  BY <1>2, AsideSteps, SessionsUntouched DEF Goes
<1>3. CASE CompleteSetup(c)
  <2>1. call[c].who \in Persons /\ UNCHANGED pairs
    BY <1>1, <1>3 DEF CompleteSetup, Is, CallShape, Call
  <2>2. CASE NewUser(call[c].who, TRUE, 0) /\ Step(c, "close")
    BY <2>1, <2>2, StepGoes, NewUserSession
  <2>3. CASE Done(c) /\ UNCHANGED <<account, signIns>>
    BY <2>1, <2>3, DoneGoes, SessionsUntouched DEF Goes
  <2> QED  BY <1>3, <2>2, <2>3 DEF CompleteSetup, people
<1>4. CASE AcceptInvite(c)
  <2>1. call[c].who \in Persons /\ call[c].n \in Nat /\ Done(c) /\ UNCHANGED pairs
    BY <1>1, <1>4 DEF AcceptInvite, Is, CallShape, Call
  <2>2. CASE NewUser(call[c].who, FALSE, call[c].n)
    BY <2>1, <2>2, DoneGoes, NewUserSession
  <2>3. CASE UNCHANGED <<account, signIns>>
    BY <2>1, <2>3, DoneGoes, SessionsUntouched DEF Goes
  <2> QED  BY <1>4, <2>2, <2>3 DEF AcceptInvite, people
<1>5. CASE LockAdmins(c)
  <2>1. UNCHANGED <<account, signIns, pairs>>
    BY <1>5 DEF LockAdmins, people, credentials
  <2>2. CASE Done(c)
    BY <2>1, <2>2, DoneGoes, SessionsUntouched DEF Goes
  <2>3. CASE Step(c, "locked")
    <3>1. call'[c].at = "locked" /\ \A d \in Callers : d # c => call'[d] = call[d]
      BY <1>1, <2>3 DEF Step, Call
    <3> QED  BY <2>1, <3>1, SessionsUntouched
  <2> QED  BY <1>5, <2>2, <2>3 DEF LockAdmins
<1> QED  BY <1>2, <1>3, <1>4, <1>5, MintsCurrent, PasswordCurrent, SignOutCurrent, PatchCurrent, UnpairCurrent
         DEF AccountStep, AsideStep

LEMMA SessionInvStep ==
    ASSUME AccountsInv, SessionInv, [AccountsNext]_accountVars
    PROVE  SessionInv'
<1>0. StateTypes /\ PeopleShape
  BY AccountsTypes DEF AccountsInv
<1>1. ASSUME NEW c \in Callers, AccountStep(c)
      PROVE  SessionInv'
  BY <1>1, StepsKeepCurrent
<1>2. ASSUME NEW c \in Free,
             \/ \E u \in Persons : NewComer(c, u)
             \/ \E s \in {t \in DOMAIN signIns : Active(t)} : SignedIn(c, s)
             \/ \E p \in Pairs : AskPairChallenge(c, p) \/ \E ch \in challenges : LoginByPair(c, p, ch.id)
      PROVE  SessionInv'
  <2>1. c \in Callers
    BY DEF Free
  <2>2. Goes(c) /\ UNCHANGED <<account, signIns, pairs>>
    BY <1>2, <2>1, AsksFrame DEF AskFrame, people
  <2> QED  BY <2>2, SessionsUntouched DEF Goes
<1>3. ASSUME UNCHANGED <<account, signIns, pairs, call>>
      PROVE  SessionInv'
  BY <1>3, SessionsUntouched
<1>4. CASE AccountsRestart
  <2>1. UNCHANGED <<account, signIns, pairs>> /\ \A d \in Callers : call'[d].at # "remove"
    BY <1>4, IdleType DEF AccountsRestart, people
  <2> QED  BY <2>1, SessionsUntouched
<1>5. ASSUME NEW p \in Pairs, NEW n, PairApp(p, n)
      PROVE  SessionInv'
  <2>1. UNCHANGED <<account, signIns, call>> /\ pairs[p] = NoPerson
    BY <1>5 DEF PairApp, people
  <2>2. \A q \in Pairs : q # p => pairs'[q] = pairs[q]
    BY <1>0, <1>5 DEF PairApp, StateTypes
  <2>3. ASSUME NEW s \in DOMAIN signIns', Fit(s)'
        PROVE  Current(s)'
    <3>1. Current(s) /\ signIns[s] \in SignIn
      BY <1>0, <2>1, <2>3, SessionType DEF SessionInv, Fit, StateTypes
    <3>2. signIns[s].by # NoPair => signIns[s].by \in Pairs /\ signIns[s].by # p
      BY <2>1, <3>1, AccountsAssumption DEF SignIn, Current
    <3> QED  BY <2>1, <2>2, <3>1, <3>2 DEF Current
  <2> QED  BY <2>1, <2>3, SessionsStay DEF Fit
<1>6. ASSUME NEW s \in DOMAIN signIns, StepDown(s)
      PROVE  SessionInv'
  <2>1. UNCHANGED <<account, pairs, call>>
    BY <1>6 DEF StepDown, credentials
  <2>2. /\ signIns' \in [DOMAIN signIns -> SignIn]
        /\ \A t \in DOMAIN signIns :
             /\ signIns'[t].user = signIns[t].user /\ signIns'[t].pw = signIns[t].pw
             /\ signIns'[t].by = signIns[t].by /\ signIns'[t].late = signIns[t].late
             /\ signIns'[t].pair = signIns[t].pair
             /\ signIns'[t].live => signIns[t].live
    BY <1>0, <1>6, SessionsOne DEF StepDown, StateTypes
  <2>3. \A t \in DOMAIN signIns' : Fit(t)' => Fit(t) /\ t \in DOMAIN signIns
    BY <2>2 DEF Fit
  <2>4. \A t \in DOMAIN signIns' : Fit(t)' => Current(t)'
    BY <2>1, <2>2, <2>3 DEF SessionInv, Current
  <2> QED  BY <2>1, <2>2, <2>3, <2>4, SessionsStay
<1> QED  BY <1>1, <1>2, <1>3, <1>4, <1>5, <1>6, AloneFrame DEF AccountsNext

LEMMA SessionInvInit ==
    ASSUME AccountsInit
    PROVE  SessionInv
<1>1. \A c \in Callers : call[c].at # "remove"
  BY IdleType DEF AccountsInit
<1>2. CASE NewServer
  <2>1. DOMAIN signIns = {}
    BY <1>2, EmptySeq DEF NewServer
  <2> QED  BY <1>1, <2>1 DEF SessionInv
<1>3. CASE InUse
  <2>1. Started
    BY <1>3, InUseInit DEF AccountsInit
  <2>2. \A s \in DOMAIN signIns : Current(s)
    <3>1. \A s \in {1, 2} : signIns[s].user \in {Alice, Bob} /\ signIns[s].by = NoPair /\ signIns[s].pw = 1
      BY <2>1 DEF Started
    <3>2. \A u \in {Alice, Bob} : account[u].is = "on" /\ account[u].pw = 1
      BY <2>1, AccountsAssumption DEF Started
    <3> QED  BY <2>1, <3>1, <3>2 DEF Started, Current
  <2> QED  BY <1>1, <2>2 DEF SessionInv
<1> QED  BY <1>2, <1>3 DEF AccountsInit

\* Whoever is signed in is enabled, has the password in force or a change of it behind them, or
\* comes through a pair that is still there; but for the sessions inserted after what was read
\* for them had changed.
THEOREM SessionsAreCurrent == AccountsSpec => []SignedInIsCurrent
<1>1. AccountsInit => SessionInv
  BY SessionInvInit
<1>2. AccountsInv /\ SessionInv /\ [AccountsNext]_accountVars => SessionInv'
  BY SessionInvStep
<1>3. SessionInv => SignedInIsCurrent
  BY DEF SessionInv, SignedInIsCurrent, Fit, Current
<1> QED  BY <1>1, <1>2, <1>3, AccountsCorrect, PTL DEF AccountsSpec

-----------------------------------------------------------------------------
(* What is good for one use is used once.                                  *)

\* A code that was accepted is not after the last one of its person; ...
CodesOnce ==
    \A u \in Persons, n, k \in Nat : <<"code", u, n, k>> \in spent => totp[u].last # 0 /\ k <= totp[u].last

\* ... a challenge that was accepted is used or gone, and there is one of each; ...
ChallengesOnce ==
    /\ \A ch \in challenges : ch.id < fresh /\ (ch.used => ch.purpose \in {"enroll", "pair"})
    /\ \A ch, other \in challenges : ch.id = other.id => ch = other
    /\ \A n \in Nat : <<"challenge", n>> \in spent => n < fresh /\ \A ch \in challenges : ch.id = n => ch.used

\* ... an invite that made a user is used and theirs alone, and who came without one is the
\* first admin.
InvitesOnce ==
    /\ \A u \in Persons : account[u].invite # 0 =>
          account[u].invite \in DOMAIN invites /\ invites[account[u].invite] = "used"
    /\ \A u, v \in Persons : account[u].invite # 0 /\ account[u].invite = account[v].invite => u = v
    /\ \A u \in Persons : Known(u) /\ account[u].invite = 0 => u = bootstrapped

OnceInv == respent = {} /\ CodesOnce /\ ChallengesOnce /\ InvitesOnce

LEMMA CodesStay ==
    ASSUME CodesOnce, UNCHANGED totp, \A u \in Persons, n, k \in Nat : <<"code", u, n, k>> \in spent' => <<"code", u, n, k>> \in spent
    PROVE  CodesOnce'
BY DEF CodesOnce

LEMMA ChallengesStay ==
    ASSUME ChallengesOnce, AccountsInv, challenges' \subseteq challenges, fresh' \in {fresh, fresh + 1},
           \A n \in Nat : <<"challenge", n>> \in spent' => <<"challenge", n>> \in spent
    PROVE  ChallengesOnce'
<1>1. fresh \in Nat /\ \A ch \in challenges : ch.id \in Nat
  BY AccountsTypes DEF AccountsInv, StateTypes, Challenge
<1> QED  BY <1>1 DEF ChallengesOnce

LEMMA InvitesStay ==
    ASSUME InvitesOnce, UNCHANGED <<invites, bootstrapped>>,
           \A u \in Persons : account'[u].invite = account[u].invite /\ (account'[u].is # "none" => account[u].is # "none")
    PROVE  InvitesOnce'
BY DEF InvitesOnce, Known

\* Codes and challenges do not meet.
LEMMA Kinds ==
    ASSUME NEW u, NEW n, NEW k, NEW m
    PROVE  <<"code", u, n, k>> # <<"challenge", m>>
OBVIOUS

\* A challenge is accepted: it is there and not used, and then it is used or gone.
LEMMA ChallengeAccepted ==
    ASSUME AccountsInv, OnceInv, NEW ch \in challenges, ~ch.used, Accept(<<"challenge", ch.id>>), UNCHANGED fresh,
           \/ challenges' = Taken(ch)
           \/ challenges' = Used(ch) /\ ch.purpose \in {"enroll", "pair"}
    PROVE  /\ respent' = {} /\ ChallengesOnce'
           /\ \A u \in Persons, n, k \in Nat : <<"code", u, n, k>> \in spent' => <<"code", u, n, k>> \in spent
<1>1. challenges \in SUBSET Challenge /\ fresh \in Nat
  BY AccountsTypes DEF AccountsInv, StateTypes
<1>2. ch.id \in Nat /\ ch.id < fresh /\ \A x \in challenges : x.id \in Nat /\ x.id < fresh
  BY <1>1 DEF OnceInv, ChallengesOnce, Challenge
<1>3. <<"challenge", ch.id>> \notin spent
  BY <1>2 DEF OnceInv, ChallengesOnce
<1>4. respent' = {} /\ spent' = spent \union {<<"challenge", ch.id>>}
  BY <1>3 DEF Accept, OnceInv
<1>5. \A u \in Persons, n, k \in Nat : <<"code", u, n, k>> \in spent' => <<"code", u, n, k>> \in spent
  BY <1>4, Kinds
<1> DEFINE used == [ch EXCEPT !.used = TRUE]
<1>6. used.id = ch.id /\ used.used /\ used.purpose = ch.purpose
  BY <1>1, UsedType
<1>7. \A x \in challenges' : (x \in challenges /\ x # ch) \/ (x = used /\ ch.purpose \in {"enroll", "pair"})
  BY DEF Taken, Used
<1> HIDE DEF used
<1>8. \A x \in challenges' : x.id < fresh /\ (x.used => x.purpose \in {"enroll", "pair"})
  BY <1>2, <1>6, <1>7 DEF OnceInv, ChallengesOnce
<1>9. \A x \in challenges' : x.id = ch.id => x = used
  BY <1>7 DEF OnceInv, ChallengesOnce
<1>10. \A x, y \in challenges' : x.id = y.id => x = y
  BY <1>6, <1>7, <1>9 DEF OnceInv, ChallengesOnce
<1>11. ASSUME NEW n \in Nat, <<"challenge", n>> \in spent'
       PROVE  n < fresh /\ \A x \in challenges' : x.id = n => x.used
  <2>1. CASE n = ch.id
    BY <1>2, <1>6, <1>9, <2>1
  <2>2. CASE n # ch.id
    <3>1. <<"challenge", n>> \in spent
      BY <1>4, <1>11, <2>2
    <3>2. n < fresh /\ \A x \in challenges : x.id = n => x.used
      BY <3>1 DEF OnceInv, ChallengesOnce
    <3> QED  BY <1>6, <1>7, <2>2, <3>2
  <2> QED  BY <2>1, <2>2
<1>12. ChallengesOnce'
  BY <1>8, <1>10, <1>11 DEF ChallengesOnce
<1> QED  BY <1>4, <1>5, <1>12

\* What a step leaves alone, of each kind.
OnceFrame == UNCHANGED <<totp, fresh, challenges, invites, bootstrapped, spent, respent>>

LEMMA OnceStays ==
    ASSUME AccountsInv, OnceInv, OnceFrame,
           \A u \in Persons : account'[u].invite = account[u].invite /\ (account'[u].is # "none" => account[u].is # "none")
    PROVE  OnceInv'
BY CodesStay, ChallengesStay, InvitesStay DEF OnceInv, OnceFrame

LEMMA CodeOnce ==
    ASSUME AccountsInv, OnceInv, NEW c \in Callers, Code(c)
    PROVE  OnceInv'
<1>1. StateTypes /\ call[c] \in Call /\ CallShape(call[c])
  BY AccountsTypes, CallIs DEF AccountsInv
<1>2. UNCHANGED <<account, fresh, challenges, invites, bootstrapped>> /\ call[c].at = "code"
  BY DEF Code, credentials
<1> DEFINE u == call[c].who
           n == call[c].creds.secret
<1>3. u \in Persons /\ n \in Nat
  BY <1>1, <1>2 DEF CallShape, Call, Creds
<1>4. CASE UNCHANGED <<totp, codesUsed>>
  BY <1>2, <1>4, OnceStays DEF OnceFrame, codesUsed
<1>5. ASSUME NEW k \in Window, Consumes(u, k), totp' = [totp EXCEPT ![u].last = k], Accept(<<"code", u, n, k>>)
      PROVE  OnceInv'
  <2>1. k \in Nat /\ k # 0
    BY <1>1 DEF Window, StateTypes
  <2>2. totp[u] \in Totp /\ totp[u].last \in Nat
    BY <1>1, <1>3 DEF StateTypes, Totp
  <2> HIDE DEF u, n
  <2>3. totp'[u].last = k /\ \A v \in Persons : v # u => totp'[v].last = totp[v].last
    BY <1>1, <1>3, <1>5, <2>2 DEF StateTypes, Totp
  <2>4. <<"code", u, n, k>> \notin spent
    BY <1>3, <1>5, <2>1, <2>2 DEF OnceInv, CodesOnce, Consumes
  <2>5. respent' = {} /\ spent' = spent \union {<<"code", u, n, k>>}
    BY <1>5, <2>4 DEF Accept, OnceInv
  <2>6. ASSUME NEW v \in Persons, NEW m \in Nat, NEW j \in Nat, <<"code", v, m, j>> \in spent'
        PROVE  totp'[v].last # 0 /\ j <= totp'[v].last
    <3>1. CASE <<"code", v, m, j>> \in spent
      <4>1. totp[v].last # 0 /\ j <= totp[v].last
        BY <3>1 DEF OnceInv, CodesOnce
      <4>2. CASE v = u
        BY <1>5, <2>1, <2>2, <2>3, <4>1, <4>2 DEF Consumes
      <4>3. CASE v # u
        BY <2>3, <4>1, <4>3
      <4> QED  BY <4>2, <4>3
    <3>2. CASE <<"code", v, m, j>> = <<"code", u, n, k>>
      <4>1. v = u /\ j = k
        BY <3>2
      <4> QED  BY <2>1, <2>3, <4>1
    <3> QED  BY <2>5, <2>6, <3>1, <3>2
  <2>7. CodesOnce'
    BY <2>6 DEF CodesOnce
  <2>8. \A m \in Nat : <<"challenge", m>> \in spent' => <<"challenge", m>> \in spent
    BY <2>5, Kinds
  <2>9. ChallengesOnce'
    BY <1>2, <2>8, ChallengesStay DEF OnceInv
  <2>10. InvitesOnce'
    BY <1>2, InvitesStay DEF OnceInv
  <2> QED  BY <2>5, <2>7, <2>9, <2>10 DEF OnceInv
<1>6. \/ UNCHANGED <<totp, codesUsed>>
      \/ \E k \in Window : Consumes(u, k) /\ totp' = [totp EXCEPT ![u].last = k] /\ Accept(<<"code", u, n, k>>)
  BY DEF Code
<1> HIDE DEF u, n
<1> QED  BY <1>4, <1>5, <1>6

\* TOTP begins anew, without the codes of before.
LEMMA CodesAnew ==
    ASSUME AccountsInv, OnceInv, NEW u \in Persons, NEW t \in Totp, totp' = [totp EXCEPT ![u] = t],
           UNCHANGED <<account, fresh, challenges, invites, bootstrapped, respent>>,
           NEW new, spent' = {x \in spent : ~(x[1] = "code" /\ x[2] = u)} \union new,
           \A x \in new : t.last # 0 /\ \E n : x = <<"code", u, n, t.last>>
    PROVE  OnceInv'
<1>1. totp \in [Persons -> Totp] /\ t.last \in Nat
  BY AccountsTypes DEF AccountsInv, StateTypes, Totp
<1>2. ASSUME NEW v \in Persons, NEW m \in Nat, NEW j \in Nat, <<"code", v, m, j>> \in spent'
      PROVE  totp'[v].last # 0 /\ j <= totp'[v].last
  <2>1. CASE <<"code", v, m, j>> \in new
    <3>1. PICK n : <<"code", v, m, j>> = <<"code", u, n, t.last>>
      BY <2>1
    <3>2. v = u /\ j = t.last /\ t.last # 0
      BY <2>1, <3>1
    <3> QED  BY <1>1, <3>2
  <2>2. CASE <<"code", v, m, j>> \in spent /\ v # u
    <3>1. totp[v].last # 0 /\ j <= totp[v].last
      BY <2>2 DEF OnceInv, CodesOnce
    <3> QED  BY <1>1, <2>2, <3>1
  <2>3. <<"code", v, m, j>>[1] = "code" /\ <<"code", v, m, j>>[2] = v
    OBVIOUS
  <2> QED  BY <1>2, <2>1, <2>2, <2>3
<1>3. CodesOnce'
  BY <1>2 DEF CodesOnce
<1>4. \A m \in Nat : <<"challenge", m>> \in spent' => <<"challenge", m>> \in spent
  BY Kinds
<1>5. ChallengesOnce'
  BY <1>4, ChallengesStay DEF OnceInv
<1>6. InvitesOnce'
  BY InvitesStay DEF OnceInv
<1> QED  BY <1>3, <1>5, <1>6 DEF OnceInv

LEMMA TotpOnce ==
    ASSUME AccountsInv, OnceInv, NEW c \in Callers, EnrollTotp(c) \/ ConfirmTotp(c) \/ DisableTotp(c)
    PROVE  OnceInv'
<1>1. StateTypes /\ call[c] \in Call /\ CallShape(call[c])
  BY AccountsTypes, CallIs DEF AccountsInv
<1>2. UNCHANGED <<account, challenges, invites, bootstrapped, respent>> /\ call[c].at = "write"
  BY DEF EnrollTotp, ConfirmTotp, DisableTotp, credentials, codesUsed, Is
<1> DEFINE u == call[c].who
<1>3. u \in Persons
  BY <1>1, <1>2 DEF CallShape, Call
<1>4. CASE EnrollTotp(c)
  <2>1. UNCHANGED spent /\ fresh' = fresh + 1
    BY <1>4 DEF EnrollTotp, codesUsed
  <2>2. \A v \in Persons : totp'[v].last = totp[v].last
    BY <1>1, <1>4 DEF EnrollTotp, StateTypes, Totp
  <2>3. CodesOnce'
    BY <2>1, <2>2 DEF OnceInv, CodesOnce
  <2>4. ChallengesOnce'
    BY <1>2, <2>1, ChallengesStay DEF OnceInv
  <2>5. InvitesOnce'
    BY <1>2, InvitesStay DEF OnceInv
  <2> QED  BY <1>2, <2>3, <2>4, <2>5 DEF OnceInv
<1>5. CASE ConfirmTotp(c)
  <2> DEFINE k == call[c].n
             n == call[c].creds.secret
             t == [secret |-> totp[u].pending, pending |-> 0, last |-> k]
  <2>1. k \in Nat /\ k # 0
    <3>1. call[c].op = "totp_confirm"
      BY <1>5 DEF ConfirmTotp, Is
    <3>2. k > 0 /\ k \in Nat
      BY <1>1, <1>2, <3>1 DEF CallShape, Call
    <3> QED  BY <3>2
  <2>2. t \in Totp /\ t.last = k
    BY <1>1, <1>3, <2>1 DEF StateTypes, Totp
  <2>3. totp' = [totp EXCEPT ![u] = t] /\ UNCHANGED fresh
    BY <1>5 DEF ConfirmTotp
  <2>4. spent' = {x \in spent : ~(x[1] = "code" /\ x[2] = u)} \union {<<"code", u, n, k>>}
    BY <1>5 DEF ConfirmTotp
  <2> HIDE DEF t, n, k, u
  <2> DEFINE new == {<<"code", u, n, k>>}
  <2>5. \A x \in new : t.last # 0 /\ \E m : x = <<"code", u, m, t.last>>
    BY <2>1, <2>2
  <2>6. spent' = {x \in spent : ~(x[1] = "code" /\ x[2] = u)} \union new
    BY <2>4
  <2> HIDE DEF new
  <2> QED  BY <1>2, <1>3, <2>2, <2>3, <2>5, <2>6, CodesAnew
<1>6. CASE DisableTotp(c)
  <2> DEFINE t == [secret |-> 0, pending |-> 0, last |-> 0]
             new == {}
  <2>1. t \in Totp
    BY DEF Totp
  <2>2. totp' = [totp EXCEPT ![u] = t] /\ UNCHANGED fresh
    BY <1>6 DEF DisableTotp
  <2>3. spent' = {x \in spent : ~(x[1] = "code" /\ x[2] = u)} \union new
    BY <1>6 DEF DisableTotp
  <2>4. \A x \in new : t.last # 0 /\ \E m : x = <<"code", u, m, t.last>>
    OBVIOUS
  <2> HIDE DEF t, u, new
  <2> QED  BY <1>2, <1>3, <2>1, <2>2, <2>3, <2>4, CodesAnew
<1> QED  BY <1>4, <1>5, <1>6

LEMMA ChallengesMoveOnce ==
    ASSUME AccountsInv, OnceInv, NEW c \in Callers, DropChallenges(c) \/ StoreChallenge(c) \/ TakeChallenge(c)
    PROVE  OnceInv'
<1>1. StateTypes /\ call[c] \in Call /\ CallShape(call[c])
  BY AccountsTypes, CallIs DEF AccountsInv
<1>2. UNCHANGED <<account, totp, invites, bootstrapped>>
  BY DEF DropChallenges, StoreChallenge, TakeChallenge, people
<1>3. InvitesOnce'
  BY <1>2, InvitesStay DEF OnceInv
<1>4. CASE UNCHANGED <<fresh, codesUsed>> /\ challenges' \subseteq challenges
  <2>1. CodesOnce'
    BY <1>2, <1>4, CodesStay DEF OnceInv, codesUsed
  <2>2. ChallengesOnce'
    BY <1>4, ChallengesStay DEF OnceInv, codesUsed
  <2> QED  BY <1>3, <1>4, <2>1, <2>2 DEF OnceInv, codesUsed
<1>5. CASE DropChallenges(c)
  BY <1>4, <1>5 DEF DropChallenges
<1>6. CASE StoreChallenge(c)
  <2> DEFINE new == [id |-> fresh, purpose |-> call[c].to, user |-> call[c].who,
                     pair |-> call[c].pair, used |-> FALSE]
  <2>1. UNCHANGED codesUsed
    BY <1>6 DEF StoreChallenge
  <2>2. CASE UNCHANGED <<challenges, fresh>>
    BY <1>4, <2>1, <2>2
  <2>3. CASE challenges' = challenges \union {new} /\ fresh' = fresh + 1
    <3>1. new.id = fresh /\ ~new.used /\ fresh \in Nat /\ \A ch \in challenges : ch.id \in Nat
      BY <1>1 DEF StateTypes, Challenge
    <3> HIDE DEF new
    <3>2. /\ \A ch \in challenges : ch.id < fresh /\ (ch.used => ch.purpose \in {"enroll", "pair"})
          /\ \A ch, other \in challenges : ch.id = other.id => ch = other
          /\ \A n \in Nat : <<"challenge", n>> \in spent => n < fresh /\ \A ch \in challenges : ch.id = n => ch.used
      BY DEF OnceInv, ChallengesOnce
    <3>3. \A ch \in challenges' : ch.id < fresh' /\ (ch.used => ch.purpose \in {"enroll", "pair"})
      BY <2>3, <3>1, <3>2
    <3>4. \A ch, other \in challenges' : ch.id = other.id => ch = other
      BY <2>3, <3>1, <3>2
    <3>5. \A n \in Nat : <<"challenge", n>> \in spent => n < fresh' /\ \A ch \in challenges' : ch.id = n => ch.used
      BY <2>3, <3>1, <3>2
    <3>6. ChallengesOnce'
      BY <2>1, <3>3, <3>4, <3>5 DEF ChallengesOnce, codesUsed
    <3>7. CodesOnce'
      BY <1>2, <2>1, CodesStay DEF OnceInv, codesUsed
    <3> QED  BY <1>3, <2>1, <3>6, <3>7 DEF OnceInv, codesUsed
  <2> HIDE DEF new
  <2>4. UNCHANGED <<challenges, fresh>> \/ (challenges' = challenges \union {new} /\ fresh' = fresh + 1)
    BY <1>6 DEF StoreChallenge, new
  <2> QED  BY <2>2, <2>3, <2>4
<1>7. CASE TakeChallenge(c)
  <2>1. UNCHANGED fresh /\ call[c].at = "take"
    BY <1>7 DEF TakeChallenge
  <2>2. CASE UNCHANGED <<challenges, codesUsed>>
    BY <1>4, <2>1, <2>2
  <2>3. ASSUME NEW ch \in challenges, Same(ch, c), challenges' = Taken(ch),
               Accept(<<"challenge", ch.id>>) \/ UNCHANGED codesUsed
        PROVE  OnceInv'
    <3>1. call[c].to \in {"register", "login", "step_up"}
      BY <1>1, <2>1 DEF CallShape
    <3>2. ~ch.used
      <4>1. ch.used \in BOOLEAN /\ ch.purpose \notin {"enroll", "pair"}
        BY <1>1, <2>3, <3>1 DEF Same, StateTypes, Challenge
      <4> QED  BY <4>1 DEF OnceInv, ChallengesOnce
    <3>3. CASE Accept(<<"challenge", ch.id>>)
      <4>1. /\ respent' = {} /\ ChallengesOnce'
            /\ \A u \in Persons, n, k \in Nat : <<"code", u, n, k>> \in spent' => <<"code", u, n, k>> \in spent
        BY <2>1, <2>3, <3>2, <3>3, ChallengeAccepted
      <4>2. CodesOnce'
        BY <1>2, <4>1, CodesStay DEF OnceInv
      <4> QED  BY <1>3, <4>1, <4>2 DEF OnceInv
    <3>4. CASE UNCHANGED codesUsed
      BY <1>4, <2>1, <2>3, <3>4 DEF Taken
    <3> QED  BY <2>3, <3>3, <3>4
  <2>4. \/ UNCHANGED <<challenges, codesUsed>>
        \/ \E ch \in challenges : /\ Same(ch, c) /\ challenges' = Taken(ch)
                                  /\ Accept(<<"challenge", ch.id>>) \/ UNCHANGED codesUsed
    BY <1>7 DEF TakeChallenge, Latest
  <2> QED  BY <2>2, <2>3, <2>4
<1> QED  BY <1>5, <1>6, <1>7

LEMMA PairsOnce ==
    ASSUME AccountsInv, OnceInv,
           \/ \E p \in Pairs, n \in Nat : PairApp(p, n)
           \/ \E c \in Callers, p \in Pairs, n \in Nat : LoginByPair(c, p, n)
    PROVE  OnceInv'
<1>1. UNCHANGED <<account, totp, invites, bootstrapped, fresh>>
  BY DEF PairApp, LoginByPair, people
<1>2. PICK ch \in challenges : /\ ~ch.used /\ ch.purpose \in {"enroll", "pair"}
                               /\ challenges' = Used(ch) /\ Accept(<<"challenge", ch.id>>)
  BY DEF PairApp, LoginByPair, Latest
<1>3. /\ respent' = {} /\ ChallengesOnce'
      /\ \A u \in Persons, n, k \in Nat : <<"code", u, n, k>> \in spent' => <<"code", u, n, k>> \in spent
  BY <1>1, <1>2, ChallengeAccepted
<1>4. CodesOnce'
  BY <1>1, <1>3, CodesStay DEF OnceInv
<1>5. InvitesOnce'
  BY <1>1, InvitesStay DEF OnceInv
<1> QED  BY <1>3, <1>4, <1>5 DEF OnceInv

LEMMA NewUserOnce ==
    ASSUME AccountsInv, OnceInv, NEW u \in Persons, NEW admin \in BOOLEAN, NEW n \in Nat, NewUser(u, admin, n),
           UNCHANGED <<fresh, challenges, spent, respent>>,
           \/ n = 0 /\ bootstrapped = NoPerson /\ bootstrapped' = u /\ UNCHANGED invites
           \/ /\ n \in DOMAIN invites /\ invites[n] = "pending" /\ invites' = [invites EXCEPT ![n] = "used"]
              /\ UNCHANGED bootstrapped
    PROVE  OnceInv'
<1>1. StateTypes /\ PeopleShape
  BY AccountsTypes DEF AccountsInv
<1>2. /\ account[u].is = "none" /\ \A v \in Persons : v # u => account'[v] = account[v]
      /\ account'[u].invite = n /\ UNCHANGED totp
  BY <1>1 DEF NewUser, StateTypes
<1>3. \A m \in DOMAIN invites : m \in Nat /\ m # 0
  BY <1>1, LenProperties DEF StateTypes
<1>4. CodesOnce' /\ ChallengesOnce'
  BY <1>2, CodesStay, ChallengesStay DEF OnceInv
<1>5. CASE n = 0 /\ bootstrapped = NoPerson /\ bootstrapped' = u /\ UNCHANGED invites
  <2>1. \A v \in Persons : ~Known(v)
    BY <1>1, <1>5 DEF PeopleShape
  <2>2. \A v \in Persons : account'[v].invite # 0 => v # u /\ account'[v].invite = account[v].invite
    BY <1>2, <1>5
  <2>3. \A v \in Persons : account'[v].is # "none" => v = u
    BY <1>2, <2>1 DEF Known
  <2>4. \A v \in Persons : account'[v].invite # 0 =>
           account'[v].invite \in DOMAIN invites' /\ invites'[account'[v].invite] = "used"
    BY <1>5, <2>2 DEF OnceInv, InvitesOnce
  <2>5. \A v, w \in Persons : account'[v].invite # 0 /\ account'[v].invite = account'[w].invite => v = w
    BY <2>2 DEF OnceInv, InvitesOnce
  <2> QED  BY <1>4, <1>5, <2>3, <2>4, <2>5 DEF OnceInv, InvitesOnce, Known
<1>6. CASE /\ n \in DOMAIN invites /\ invites[n] = "pending" /\ invites' = [invites EXCEPT ![n] = "used"]
           /\ UNCHANGED bootstrapped
  <2>1. \A v \in Persons : account[v].invite # 0 => account[v].invite # n
    BY <1>6 DEF OnceInv, InvitesOnce
  <2>2. /\ DOMAIN invites' = DOMAIN invites /\ invites'[n] = "used"
        /\ \A m \in DOMAIN invites : m # n => invites'[m] = invites[m]
    BY <1>1, <1>6, LenProperties DEF StateTypes
  <2>3. \A v \in Persons : account'[v].invite # 0 =>
           account'[v].invite \in DOMAIN invites' /\ invites'[account'[v].invite] = "used"
    BY <1>2, <1>6, <2>1, <2>2 DEF OnceInv, InvitesOnce
  <2>4. n # 0
    BY <1>3, <1>6
  <2>5. \A v, w \in Persons : account'[v].invite # 0 /\ account'[v].invite = account'[w].invite => v = w
    BY <1>2, <2>1, <2>4 DEF OnceInv, InvitesOnce
  <2>6. \A v \in Persons : account'[v].is # "none" /\ account'[v].invite = 0 => v = bootstrapped
    BY <1>2, <2>4 DEF OnceInv, InvitesOnce, Known
  <2> QED  BY <1>4, <1>6, <2>3, <2>5, <2>6 DEF OnceInv, InvitesOnce, Known
<1> QED  BY <1>5, <1>6

LEMMA InvitesMoveOnce ==
    ASSUME AccountsInv, OnceInv, NEW c \in Callers, CreateInvite(c) \/ RevokeInvite(c)
    PROVE  OnceInv'
<1>1. StateTypes /\ call[c] \in Call /\ CallShape(call[c])
  BY AccountsTypes, CallIs DEF AccountsInv
<1>2. UNCHANGED <<account, totp, fresh, challenges, bootstrapped, spent, respent>>
  BY DEF CreateInvite, RevokeInvite, people, codesUsed
<1>3. \A n \in DOMAIN invites : n \in DOMAIN invites' /\ (invites[n] = "used" => invites'[n] = "used")
  <2>1. CASE CreateInvite(c)
    BY <1>1, <2>1, Appended DEF CreateInvite, StateTypes, Invite
  <2>2. CASE RevokeInvite(c)
    <3>1. invites \in [DOMAIN invites -> Invite]
      BY <1>1, LenProperties DEF StateTypes
    <3> QED  BY <2>2, <3>1 DEF RevokeInvite
  <2> QED  BY <2>1, <2>2
<1>4. InvitesOnce'
  BY <1>2, <1>3 DEF OnceInv, InvitesOnce, Known
<1> QED  BY <1>2, <1>4, CodesStay, ChallengesStay DEF OnceInv

LEMMA UnpairOnce ==
    ASSUME AccountsInv, OnceInv, NEW c \in Callers, RevokePair(c)
    PROVE  OnceInv'
<1>1. UNCHANGED <<account, totp, invites, bootstrapped, fresh, spent, respent>> /\ challenges' \subseteq challenges
  BY DEF RevokePair, codesUsed
<1> QED  BY <1>1, CodesStay, ChallengesStay, InvitesStay DEF OnceInv

LEMMA StepsOnce ==
    ASSUME AccountsInv, OnceInv, NEW c \in Callers, AccountStep(c)
    PROVE  OnceInv'
<1>1. StateTypes /\ call[c] \in Call /\ CallShape(call[c])
  BY AccountsTypes, CallIs DEF AccountsInv
<1>2. CASE UNCHANGED account /\ OnceFrame
  BY <1>2, OnceStays
<1>3. CASE CloseSetup(c) \/ ReadTotp(c) \/ RegisterPasskey(c) \/ CountAssertion(c) \/ FindTagged(c) \/ LockAdmins(c)
  <2>1. UNCHANGED account /\ OnceFrame
    BY <1>3 DEF CloseSetup, ReadTotp, RegisterPasskey, CountAssertion, FindTagged, LockAdmins, people, credentials,
                codesUsed, OnceFrame
  <2> QED  BY <1>2, <2>1
<1>4. CASE Mint(c) \/ SignOut(c) \/ StepUp(c)
  <2>1. UNCHANGED account /\ OnceFrame
    BY <1>4 DEF Mint, SignOut, StepUp, credentials, codesUsed, OnceFrame
  <2> QED  BY <1>2, <2>1
<1>5. CASE SetPassword(c)
  <2>1. OnceFrame
    BY <1>5 DEF SetPassword, credentials, codesUsed, OnceFrame
  <2> DEFINE u == call[c].who
             p == account[u].pw + 1
  <2>2. u \in Persons /\ account' = [account EXCEPT ![u] = [account[u] EXCEPT !.pw = p]]
    BY <1>5, PasswordSets
  <2> HIDE DEF u, p
  <2>3. \A v \in Persons : account'[v].invite = account[v].invite /\ account'[v].is = account[v].is
    BY <1>1, <2>2 DEF StateTypes, Account
  <2> QED  BY <2>1, <2>3, OnceStays
<1>6. CASE PatchUser(c)
  <2>1. OnceFrame
    BY <1>6 DEF PatchUser, credentials, codesUsed, OnceFrame
  <2> DEFINE u == call[c].target
  <2>2. /\ u \in Persons /\ Known(u) /\ account'[u].invite = account[u].invite
        /\ \A v \in Persons : v # u => account'[v] = account[v]
    BY <1>6, Patches
  <2> HIDE DEF u
  <2> QED  BY <2>1, <2>2, OnceStays DEF Known
<1>7. CASE CompleteSetup(c)
  <2>1. call[c].who \in Persons /\ UNCHANGED <<fresh, challenges, spent, respent, invites>>
    BY <1>1, <1>7 DEF CompleteSetup, Is, CallShape, Call, codesUsed
  <2>2. CASE NewUser(call[c].who, TRUE, 0) /\ bootstrapped = NoPerson /\ bootstrapped' = call[c].who
    BY <2>1, <2>2, NewUserOnce
  <2>3. CASE UNCHANGED <<people, bootstrapped>>
    <3>1. UNCHANGED account /\ OnceFrame
      BY <2>1, <2>3 DEF OnceFrame, people
    <3> QED  BY <1>2, <3>1
  <2> QED  BY <1>7, <2>2, <2>3 DEF CompleteSetup, SetupOpen
<1>8. CASE AcceptInvite(c)
  <2>1. /\ call[c].who \in Persons /\ call[c].n \in Nat /\ call[c].n \in DOMAIN invites
        /\ UNCHANGED <<fresh, challenges, spent, respent, bootstrapped>>
    BY <1>1, <1>8 DEF AcceptInvite, Is, CallShape, Call, codesUsed
  <2>2. CASE /\ NewUser(call[c].who, FALSE, call[c].n) /\ invites[call[c].n] = "pending"
             /\ invites' = [invites EXCEPT ![call[c].n] = "used"]
    BY <2>1, <2>2, NewUserOnce
  <2>3. CASE UNCHANGED <<people, invites>>
    <3>1. UNCHANGED account /\ OnceFrame
      BY <2>1, <2>3 DEF OnceFrame, people
    <3> QED  BY <1>2, <3>1
  <2> QED  BY <1>8, <2>2, <2>3 DEF AcceptInvite, Claimable
<1> QED  BY <1>3, <1>4, <1>5, <1>6, <1>7, <1>8, CodeOnce, TotpOnce, ChallengesMoveOnce, InvitesMoveOnce, UnpairOnce
         DEF AccountStep

LEMMA AsksOnce ==
    ASSUME AccountsInv, OnceInv, NEW c \in Callers,
           \/ \E u \in Persons : NewComer(c, u)
           \/ \E s \in DOMAIN signIns : SignedIn(c, s)
           \/ \E p \in Pairs : AskPairChallenge(c, p) \/ \E ch \in challenges : LoginByPair(c, p, ch.id)
    PROVE  OnceInv'
<1>1. AskFrame
  BY AsksFrame
<1>2. \A ch \in challenges : ch.id \in Nat
  BY AccountsTypes DEF AccountsInv, StateTypes, Challenge
<1>3. CASE \E p \in Pairs, ch \in challenges : LoginByPair(c, p, ch.id)
  BY <1>2, <1>3, PairsOnce
<1>4. CASE \E u \in Persons : NewComer(c, u)
  <2>1. UNCHANGED <<challenges, codesUsed>>
    BY <1>4 DEF NewComer, Setup, Login, AskLoginChallenge, AskAccept, LoginByPasskey, AskAssert, credentials
  <2> QED  BY <1>1, <2>1, OnceStays DEF AskFrame, OnceFrame, people, codesUsed
<1>5. CASE \E s \in DOMAIN signIns : SignedIn(c, s)
  <2>1. UNCHANGED <<challenges, codesUsed>>
    BY <1>5 DEF SignedIn, AskPassword, AskStepUp, AskInvite, AskSignOut, AskTotp, AskChallenge, AskRegister,
                StepUpByPasskey, AskAssert, AskUnpair, AskUninvite, AskPatch, credentials
  <2> QED  BY <1>1, <2>1, OnceStays DEF AskFrame, OnceFrame, people, codesUsed
<1>6. CASE \E p \in Pairs : AskPairChallenge(c, p)
  <2>1. UNCHANGED <<challenges, codesUsed>>
    BY <1>6 DEF AskPairChallenge, credentials
  <2> QED  BY <1>1, <2>1, OnceStays DEF AskFrame, OnceFrame, people, codesUsed
<1> QED  BY <1>3, <1>4, <1>5, <1>6

LEMMA OnceInvStep ==
    ASSUME AccountsInv, OnceInv, [AccountsNext]_accountVars
    PROVE  OnceInv'
<1>1. ASSUME NEW c \in Callers, AccountStep(c)
      PROVE  OnceInv'
  BY <1>1, StepsOnce
<1>2. ASSUME NEW c \in Free,
             \/ \E u \in Persons : NewComer(c, u)
             \/ \E s \in {t \in DOMAIN signIns : Active(t)} : SignedIn(c, s)
             \/ \E p \in Pairs : AskPairChallenge(c, p) \/ \E ch \in challenges : LoginByPair(c, p, ch.id)
      PROVE  OnceInv'
  <2>1. c \in Callers
    BY DEF Free
  <2> QED  BY <1>2, <2>1, AsksOnce
<1>3. ASSUME NEW p \in Pairs, NEW ch \in challenges, PairApp(p, ch.id)
      PROVE  OnceInv'
  <2>1. ch.id \in Nat
    BY AccountsTypes DEF AccountsInv, StateTypes, Challenge
  <2> QED  BY <1>3, <2>1, PairsOnce
<1>4. ASSUME UNCHANGED account, OnceFrame
      PROVE  OnceInv'
  BY <1>4, OnceStays
<1>5. ASSUME NEW s, StepDown(s) \/ DeletePasskey(s)
      PROVE  UNCHANGED account /\ OnceFrame
  BY <1>5 DEF StepDown, DeletePasskey, OnceFrame, people, credentials, codesUsed
<1>6. ASSUME Tick \/ AccountsRestart \/ UNCHANGED accountVars
      PROVE  UNCHANGED account /\ OnceFrame
  BY <1>6 DEF Tick, AccountsRestart, accountVars, OnceFrame, people, credentials, codesUsed
<1> QED  BY <1>1, <1>2, <1>3, <1>4, <1>5, <1>6 DEF AccountsNext

LEMMA OnceInvInit ==
    ASSUME AccountsInit
    PROVE  OnceInv
<1>1. spent = {} /\ respent = {} /\ fresh = 6
  BY DEF AccountsInit
<1>2. CodesOnce
  BY <1>1 DEF CodesOnce
<1>3. CASE NewServer
  <2>1. challenges = {} /\ \A u \in Persons : account[u].invite = 0 /\ ~Known(u)
    BY <1>3 DEF NewServer, NoAccount, Known
  <2> QED  BY <1>1, <1>2, <2>1 DEF OnceInv, ChallengesOnce, InvitesOnce
<1>4. CASE InUse
  <2>1. Started
    BY <1>4, InUseInit DEF AccountsInit
  <2>2. ChallengesOnce
    BY <1>1, <2>1 DEF Started, ChallengesOnce
  <2>3. InvitesOnce
    BY <2>1, AccountsAssumption DEF Started, InvitesOnce, Known
  <2> QED  BY <1>1, <1>2, <2>2, <2>3 DEF OnceInv
<1> QED  BY <1>3, <1>4 DEF AccountsInit

LEMMA OneWithoutInvite ==
    ASSUME OnceInv
    PROVE  Cardinality({u \in Persons : account[u].invite = 0 /\ account[u].is # "none"}) <= 1
<1> DEFINE S == {u \in Persons : account[u].invite = 0 /\ account[u].is # "none"}
<1>1. S \subseteq {bootstrapped}
  BY DEF OnceInv, InvitesOnce, Known
<1>2. IsFiniteSet({bootstrapped}) /\ Cardinality({bootstrapped}) = 1
  BY FS_Singleton
<1> HIDE DEF S
<1>3. Cardinality(S) <= 1
  BY <1>1, <1>2, FS_Subset
<1> QED  BY <1>3 DEF S

\* However requests overlap, a TOTP code signs in once, the answer to a challenge is accepted
\* once, an invite makes one user and a revoked one none, and one admin comes by the setup.
THEOREM UsedOnce == AccountsSpec => []SingleUse
<1>1. AccountsInit => OnceInv
  BY OnceInvInit
<1>2. AccountsInv /\ OnceInv /\ [AccountsNext]_accountVars => OnceInv'
  BY OnceInvStep
<1>3. OnceInv => SingleUse
  BY OneWithoutInvite DEF OnceInv, InvitesOnce, SingleUse
<1> QED  BY <1>1, <1>2, <1>3, AccountsCorrect, PTL DEF AccountsSpec

-----------------------------------------------------------------------------
(* Spaces and their members.                                               *)

\* A request that was allowed is for a space that was made, and but for renaming for a shared one.
AllowedIsMade ==
    \A c \in Asks : ask[c].at \notin {"idle", "known"} =>
        room[ask[c].space].made /\ (ask[c].op = "rename" \/ ask[c].space \in Shares)

\* Who has locked a row is in the middle of changing the members of that space, which is still open.
LockIsHeld ==
    /\ \A s \in Rooms, c \in Asks : holder[s] = c => ask[c].at \in {"locked", "checked"} /\ ask[c].space = s
    /\ \A c \in Asks : ask[c].at \in {"locked", "checked"} =>
          /\ holder[ask[c].space] = c /\ ~room[ask[c].space].archived
          /\ ask[c].op \in {"add", "patch", "remove"}

\* What the transaction looked at is still so when it writes, but for who is enabled.
CheckedStillHolds ==
    \A c \in Asks : ask[c].at = "checked" =>
        ~LastOwner(ask[c]) /\ (ask[c].op = "add" => roleIn[ask[c].space][ask[c].target] = "none")

ArchivedWasMade == \A s \in Rooms : room[s].archived => room[s].made

SpacesInv == SpacesAreOwned /\ ArchivedWasMade /\ AllowedIsMade /\ LockIsHeld /\ CheckedStillHolds

LEMMA AskRestType == AskRest \in Asked
BY DEF AskRest, Asked, AskRow, Manage, Roles

LEMMA RoomRows == /\ Unmade \in RoomRow /\ Made \in RoomRow /\ Made.made /\ ~Made.archived /\ ~Unmade.made /\ ~Unmade.archived
BY DEF Unmade, Made, RoomRow, RoomNames

LEMMA RolesOfOne ==
    /\ NoRole \in [Members -> Roles \union {"none"}]
    /\ \A p \in Members : OnlyOwner(p) \in [Members -> Roles \union {"none"}] /\ OnlyOwner(p)[p] = "owner"
BY DEF NoRole, OnlyOwner, Roles

LEMMA SpacesInitInv == SpacesInit => SpacesInv
<1> SUFFICES ASSUME SpacesInit PROVE SpacesInv
  OBVIOUS
<1>1. SpacesTypeOK
  BY SpacesAssumption, AskRestType, RoomRows DEF SpacesInit, SpacesTypeOK, PersonRow
<1>2. OwnerRemains
  BY DEF SpacesInit, OwnerRemains
<1>3. PersonalIsAlone
  BY RoomRows DEF SpacesInit, PersonalIsAlone, Rooms
<1>4. ArchivedWasMade
  BY RoomRows DEF SpacesInit, ArchivedWasMade, Rooms
<1>5. \A c \in Asks : ask[c].at = "idle"
  BY DEF SpacesInit, AskRest
<1>6. AllowedIsMade /\ LockIsHeld /\ CheckedStillHolds
  BY <1>5, SpacesAssumption DEF AllowedIsMade, LockIsHeld, CheckedStillHolds, SpacesInit
<1> QED
  BY <1>1, <1>2, <1>3, <1>4, <1>6 DEF SpacesInv, SpacesAreOwned

\* A request that ends leaves the others as they were.
LEMMA AskEndsDoes ==
    ASSUME SpacesInv, NEW c \in Asks, AskEnds(c)
    PROVE  /\ ask' \in [Asks -> Asked] /\ ask'[c].at = "idle"
           /\ \A d \in Asks : d # c => ask'[d] = ask[d]
BY AskRestType DEF SpacesInv, SpacesAreOwned, SpacesTypeOK, AskEnds, AskRest

LEMMA AskGoesDoes ==
    ASSUME SpacesInv, NEW c \in Asks, NEW at \in {"allowed", "locked", "checked"}, AskGoes(c, at), ask[c].at # "idle"
    PROVE  /\ ask' \in [Asks -> Asked] /\ ask'[c].at = at
           /\ ask'[c].op = ask[c].op /\ ask'[c].space = ask[c].space /\ ask'[c].target = ask[c].target
           /\ ask'[c].role = ask[c].role
           /\ \A d \in Asks : d # c => ask'[d] = ask[d]
<1>1. ask \in [Asks -> Asked] /\ ask[c] \in AskRow /\ ask[c].space \in Rooms /\ ask[c].target \in Members
  BY DEF SpacesInv, SpacesAreOwned, SpacesTypeOK, Asked
<1>2. [ask[c] EXCEPT !.at = at] \in AskRow
  BY <1>1 DEF AskRow
<1>3. [ask[c] EXCEPT !.at = at] \in Asked
  BY <1>1, <1>2 DEF Asked, AskRow
<1>4. ask' = [ask EXCEPT ![c] = [ask[c] EXCEPT !.at = at]]
  BY <1>1 DEF AskGoes
<1> QED
  BY <1>1, <1>3, <1>4 DEF AskRow

\* The space of a request under way.
LEMMA AskSpace ==
    ASSUME SpacesInv, NEW c \in Asks, ask[c].at # "idle"
    PROVE  /\ ask[c].space \in Rooms /\ ask[c].target \in Members /\ ask[c].role \in Roles /\ ask[c].op \in Manage
           /\ ask[c] \in Asked
BY DEF SpacesInv, SpacesAreOwned, SpacesTypeOK, Asked, AskRow

\* A step that neither touches rooms, roles, people nor locks.
LEMMA OnlyAsks ==
    ASSUME SpacesInv, NEW c \in Asks, UNCHANGED <<room, roleIn, person, holder, errands>>,
           asksLeft' \in [asks : Nat, turnovers : Nat],
           ask' \in [Asks -> Asked], \A d \in Asks : d # c => ask'[d] = ask[d],
           ask[c].at \notin {"locked", "checked"}, ask'[c].at \in {"idle", "known", "allowed"},
           ask'[c].at = "allowed" => room[ask'[c].space].made /\ (ask'[c].op = "rename" \/ ask'[c].space \in Shares)
    PROVE  SpacesInv'
<1>1. SpacesTypeOK'
  BY DEF SpacesInv, SpacesAreOwned, SpacesTypeOK
<1>2. OwnerRemains' /\ PersonalIsAlone' /\ ArchivedWasMade'
  BY DEF SpacesInv, SpacesAreOwned, OwnerRemains, Owners, PersonalIsAlone, ArchivedWasMade
<1>3. AllowedIsMade'
  BY DEF SpacesInv, AllowedIsMade
<1>4. LockIsHeld'
  BY DEF SpacesInv, LockIsHeld
<1>5. CheckedStillHolds'
  BY DEF SpacesInv, CheckedStillHolds, LastOwner, OtherOwners, Owners
<1> QED
  BY <1>1, <1>2, <1>3, <1>4, <1>5 DEF SpacesInv, SpacesAreOwned

LEMMA SpendDoes ==
    ASSUME SpacesInv, NEW bound \in {"asks", "turnovers"}, Spend(bound)
    PROVE  asksLeft' \in [asks : Nat, turnovers : Nat]
BY DEF SpacesInv, SpacesAreOwned, SpacesTypeOK, Spend

LEMMA BeginAskKeeps == ASSUME SpacesInv, NEW c \in Asks, BeginAsk(c) PROVE SpacesInv'
<1>1. PICK q \in [at : {"known"}, op : Manage \intersect errands, via : {"person", "admin", "agent"},
                 who : {p \in Members : ActivePerson(p)}, space : Rooms, target : Members, role : Roles] : ask' = [ask EXCEPT ![c] = q]
  BY DEF BeginAsk
<1>2. q \in AskRow /\ q.at = "known" /\ q.space \in Rooms /\ q.target \in Members
  BY <1>1 DEF AskRow
<1>3. q \in Asked
  BY <1>2 DEF Asked
<1>4. /\ ask' \in [Asks -> Asked] /\ ask'[c] = q
      /\ \A d \in Asks : d # c => ask'[d] = ask[d]
  BY <1>1, <1>3 DEF SpacesInv, SpacesAreOwned, SpacesTypeOK
<1>5. asksLeft' \in [asks : Nat, turnovers : Nat]
  BY SpendDoes DEF BeginAsk
<1>6. UNCHANGED <<room, roleIn, person, holder, errands>> /\ ask[c].at = "idle"
  BY DEF BeginAsk, roomVars, AskIs
<1> QED
  BY <1>2, <1>4, <1>5, <1>6, OnlyAsks

LEMMA CliAddsKeeps == ASSUME SpacesInv, NEW c \in Asks, CliAdds(c) PROVE SpacesInv'
<1>1. PICK s \in Shares, p \in Members, r \in Roles :
          /\ Open(s)
          /\ ask' = [ask EXCEPT ![c] = [AskRest EXCEPT !.at = "allowed", !.op = "add", !.space = s, !.target = p, !.role = r]]
  BY DEF CliAdds
<1> DEFINE q == [AskRest EXCEPT !.at = "allowed", !.op = "add", !.space = s, !.target = p, !.role = r]
<1>2. q \in AskRow /\ q.at = "allowed" /\ q.space = s /\ q.target \in Members /\ q.op = "add"
  BY DEF AskRest, AskRow, Manage, Rooms
<1>3. q \in Asked
  BY <1>2 DEF Asked, Rooms
<1>4. /\ ask' \in [Asks -> Asked] /\ ask'[c] = q
      /\ \A d \in Asks : d # c => ask'[d] = ask[d]
  BY <1>1, <1>3 DEF SpacesInv, SpacesAreOwned, SpacesTypeOK
<1>5. asksLeft' \in [asks : Nat, turnovers : Nat]
  BY SpendDoes DEF CliAdds
<1>6. UNCHANGED <<room, roleIn, person, holder, errands>> /\ ask[c].at = "idle" /\ room[s].made
  BY <1>1 DEF CliAdds, roomVars, AskIs, Open
<1> HIDE DEF q
<1>7. ask'[c].at = "allowed" /\ ask'[c].space = s /\ s \in Shares
  BY <1>2, <1>4
<1> QED
  BY <1>4, <1>5, <1>6, <1>7, OnlyAsks

LEMMA AuthorizeKeeps == ASSUME SpacesInv, NEW c \in Asks, Authorize(c) PROVE SpacesInv'
<1>1. UNCHANGED <<room, roleIn, person, holder, errands, asksLeft>> /\ ask[c].at = "known"
  BY DEF Authorize, roomVars, AskIs
<1>2. asksLeft' \in [asks : Nat, turnovers : Nat]
  BY <1>1 DEF SpacesInv, SpacesAreOwned, SpacesTypeOK
<1>3. AskEnds(c) \/ (/\ AskGoes(c, "allowed") /\ room[ask[c].space].made
                     /\ (ask[c].op = "rename" \/ ask[c].space \in Shares))
  BY DEF Authorize, Authorized, Overrides, Open
<1>4. CASE AskEnds(c)
  BY <1>1, <1>2, <1>4, AskEndsDoes, OnlyAsks
<1>5. CASE AskGoes(c, "allowed") /\ room[ask[c].space].made /\ (ask[c].op = "rename" \/ ask[c].space \in Shares)
  <2>1. /\ ask' \in [Asks -> Asked] /\ ask'[c].at = "allowed"
        /\ ask'[c].op = ask[c].op /\ ask'[c].space = ask[c].space
        /\ \A d \in Asks : d # c => ask'[d] = ask[d]
    BY <1>1, <1>5, AskGoesDoes
  <2> QED
    BY <1>1, <1>2, <1>5, <2>1, OnlyAsks
<1> QED
  BY <1>3, <1>4, <1>5

\* Renaming or archiving a space whose row nobody has locked.
LEMMA RowKeeps ==
    ASSUME SpacesInv, NEW c \in Asks, ask[c].at = "allowed", NEW s \in Rooms, s = ask[c].space, Unlocked(s), AskEnds(c),
           UNCHANGED <<roleIn, person, holder, errands, asksLeft>>,
           NEW row \in RoomRow, room' = [room EXCEPT ![s] = row], row.made = room[s].made,
           row.archived => room[s].archived \/ s \in Shares
    PROVE  SpacesInv'
<1>1. SpacesTypeOK /\ room[s].made
  BY DEF SpacesInv, SpacesAreOwned, AllowedIsMade
<1>2. /\ ask' \in [Asks -> Asked] /\ ask'[c].at = "idle"
      /\ \A d \in Asks : d # c => ask'[d] = ask[d]
  BY AskEndsDoes
<1>3. SpacesTypeOK'
  BY <1>1, <1>2 DEF SpacesTypeOK
<1>4. /\ \A x \in Rooms : room'[x].made = room[x].made
      /\ \A x \in Rooms : x # s => room'[x] = room[x]
      /\ room'[s] = row
  BY <1>1 DEF SpacesTypeOK
<1>5. OwnerRemains'
  BY <1>4 DEF SpacesInv, SpacesAreOwned, OwnerRemains, Owners, Rooms
<1>6. PersonalIsAlone'
  BY <1>1, <1>4, SpacesAssumption DEF SpacesInv, SpacesAreOwned, PersonalIsAlone, Rooms
<1>7. ArchivedWasMade'
  BY <1>1, <1>4 DEF SpacesInv, ArchivedWasMade
<1>8. AllowedIsMade'
  BY <1>2, <1>4, AskSpace DEF SpacesInv, AllowedIsMade
<1>9. LockIsHeld'
  <2>1. \A d \in Asks : holder[s] # d
    BY SpacesAssumption DEF Unlocked
  <2> QED
    BY <1>2, <1>4, <2>1, AskSpace DEF SpacesInv, LockIsHeld
<1>10. CheckedStillHolds'
  BY <1>2 DEF SpacesInv, CheckedStillHolds, LastOwner, OtherOwners, Owners
<1> QED
  BY <1>3, <1>5, <1>6, <1>7, <1>8, <1>9, <1>10 DEF SpacesInv, SpacesAreOwned

LEMMA RenameSpaceKeeps == ASSUME SpacesInv, NEW c \in Asks, RenameSpace(c) PROVE SpacesInv'
<1> DEFINE s == ask[c].space
           row == IF room[s].archived THEN room[s] ELSE [room[s] EXCEPT !.name = "new"]
<1>1. ask[c].at = "allowed" /\ s \in Rooms /\ Unlocked(s) /\ AskEnds(c) /\ UNCHANGED <<roleIn, person, holder, errands, asksLeft>>
  BY AskSpace DEF RenameSpace, AskIs
<1>2. room \in [Rooms -> RoomRow]
  BY DEF SpacesInv, SpacesAreOwned, SpacesTypeOK
<1>3. room' = [room EXCEPT ![s] = row]
  BY <1>1, <1>2 DEF RenameSpace
<1>4. row \in RoomRow /\ row.made = room[s].made /\ row.archived = room[s].archived
  BY <1>1, <1>2 DEF RoomRow, RoomNames
<1> HIDE DEF row, s
<1>5. s = ask[c].space
  BY DEF s
<1> QED
  BY <1>1, <1>3, <1>4, <1>5, RowKeeps

LEMMA ArchiveSpaceKeeps == ASSUME SpacesInv, NEW c \in Asks, ArchiveSpace(c) PROVE SpacesInv'
<1> DEFINE s == ask[c].space
           row == [room[s] EXCEPT !.archived = TRUE]
<1>1. /\ ask[c].at = "allowed" /\ s \in Rooms /\ Unlocked(s) /\ AskEnds(c) /\ UNCHANGED <<roleIn, person, holder, errands, asksLeft>>
      /\ s \in Shares
  BY AskSpace DEF ArchiveSpace, AskIs, SpacesInv, AllowedIsMade
<1>2. room \in [Rooms -> RoomRow]
  BY DEF SpacesInv, SpacesAreOwned, SpacesTypeOK
<1>3. room' = [room EXCEPT ![s] = row]
  BY <1>1, <1>2 DEF ArchiveSpace
<1>4. row \in RoomRow /\ row.made = room[s].made
  BY <1>1, <1>2 DEF RoomRow
<1> HIDE DEF row, s
<1>5. s = ask[c].space
  BY DEF s
<1> QED
  BY <1>1, <1>3, <1>4, <1>5, RowKeeps

LEMMA LockSpaceKeeps == ASSUME SpacesInv, NEW c \in Asks, LockSpace(c) PROVE SpacesInv'
<1>1. UNCHANGED <<room, roleIn, person, errands, asksLeft>> /\ ask[c].at = "allowed" /\ Unlocked(ask[c].space)
      /\ ask[c].op \in {"add", "patch", "remove"}
  BY DEF LockSpace, roomVars, AskIs
<1>2. SpacesTypeOK /\ ask[c].space \in Rooms
  BY <1>1, AskSpace DEF SpacesInv, SpacesAreOwned
<1>3. CASE room[ask[c].space].archived
  <2>1. AskEnds(c) /\ UNCHANGED holder
    BY <1>3 DEF LockSpace
  <2>2. asksLeft' \in [asks : Nat, turnovers : Nat]
    BY <1>1, <1>2 DEF SpacesTypeOK
  <2> QED
    BY <1>1, <2>1, <2>2, AskEndsDoes, OnlyAsks
<1>4. CASE ~room[ask[c].space].archived
  <2>1. AskGoes(c, "locked") /\ holder' = [holder EXCEPT ![ask[c].space] = c]
    BY <1>4 DEF LockSpace
  <2>2. /\ ask' \in [Asks -> Asked] /\ ask'[c].at = "locked"
        /\ ask'[c].op = ask[c].op /\ ask'[c].space = ask[c].space
        /\ \A d \in Asks : d # c => ask'[d] = ask[d]
    BY <1>1, <2>1, AskGoesDoes
  <2>3. SpacesTypeOK'
    BY <1>1, <1>2, <2>1, <2>2 DEF SpacesTypeOK
  <2>4. OwnerRemains' /\ PersonalIsAlone' /\ ArchivedWasMade'
    BY <1>1 DEF SpacesInv, SpacesAreOwned, OwnerRemains, Owners, PersonalIsAlone, ArchivedWasMade
  <2>5. AllowedIsMade'
    BY <1>1, <2>2 DEF SpacesInv, AllowedIsMade
  <2>6. LockIsHeld'
    <3>1. \A d \in Asks : holder[ask[c].space] # d
      BY <1>1, SpacesAssumption DEF Unlocked
    <3>2. /\ \A x \in Rooms : x # ask[c].space => holder'[x] = holder[x]
          /\ holder'[ask[c].space] = c
      BY <1>2, <2>1 DEF SpacesTypeOK
    <3> QED
      BY <1>1, <1>2, <1>4, <2>2, <3>1, <3>2, AskSpace DEF SpacesInv, LockIsHeld
  <2>7. CheckedStillHolds'
    BY <1>1, <2>2 DEF SpacesInv, CheckedStillHolds, LastOwner, OtherOwners, Owners
  <2> QED
    BY <2>3, <2>4, <2>5, <2>6, <2>7 DEF SpacesInv, SpacesAreOwned
<1> QED
  BY <1>3, <1>4

\* A transaction that ends unlocks the row of its space.
LEMMA EndsAskKeeps ==
    ASSUME SpacesInv, NEW c \in Asks, ask[c].at \in {"locked", "checked"}, EndsAsk(c),
           UNCHANGED <<room, roleIn, person, errands, asksLeft>>
    PROVE  SpacesInv'
<1>1. SpacesTypeOK /\ ask[c].space \in Rooms /\ holder[ask[c].space] = c
  BY AskSpace DEF SpacesInv, SpacesAreOwned, LockIsHeld
<1>2. /\ ask' \in [Asks -> Asked] /\ ask'[c].at = "idle"
      /\ \A d \in Asks : d # c => ask'[d] = ask[d]
  BY AskEndsDoes DEF EndsAsk
<1>3. /\ \A x \in Rooms : x # ask[c].space => holder'[x] = holder[x]
      /\ holder'[ask[c].space] = NoAsk /\ holder' \in [Rooms -> Asks \union {NoAsk}]
  BY <1>1 DEF EndsAsk, SpacesTypeOK
<1>4. SpacesTypeOK'
  BY <1>1, <1>2, <1>3 DEF SpacesTypeOK
<1>5. OwnerRemains' /\ PersonalIsAlone' /\ ArchivedWasMade'
  BY DEF SpacesInv, SpacesAreOwned, OwnerRemains, Owners, PersonalIsAlone, ArchivedWasMade
<1>6. AllowedIsMade'
  BY <1>2 DEF SpacesInv, AllowedIsMade
<1>7. LockIsHeld'
  <2>1. \A d \in Asks : d # NoAsk
    BY SpacesAssumption
  <2>2. \A d \in Asks : d # c /\ ask[d].at \in {"locked", "checked"} => ask[d].space # ask[c].space
    BY <1>1 DEF SpacesInv, LockIsHeld
  <2> QED
    BY <1>1, <1>2, <1>3, <2>1, <2>2, AskSpace DEF SpacesInv, LockIsHeld
<1>8. CheckedStillHolds'
  BY <1>2 DEF SpacesInv, CheckedStillHolds, LastOwner, OtherOwners, Owners
<1> QED
  BY <1>4, <1>5, <1>6, <1>7, <1>8 DEF SpacesInv, SpacesAreOwned

LEMMA CheckMemberKeeps == ASSUME SpacesInv, NEW c \in Asks, CheckMember(c) PROVE SpacesInv'
<1>1. UNCHANGED <<room, roleIn, person, errands, asksLeft>> /\ ask[c].at = "locked"
  BY DEF CheckMember, roomVars, AskIs
<1>2. CASE AskRefused(ask[c])
  BY <1>1, <1>2, EndsAskKeeps DEF CheckMember
<1>3. CASE ~AskRefused(ask[c])
  <2>1. AskGoes(c, "checked") /\ UNCHANGED holder
    BY <1>3 DEF CheckMember
  <2>2. /\ ask' \in [Asks -> Asked] /\ ask'[c].at = "checked"
        /\ ask'[c].op = ask[c].op /\ ask'[c].space = ask[c].space /\ ask'[c].target = ask[c].target
        /\ ask'[c].role = ask[c].role
        /\ \A d \in Asks : d # c => ask'[d] = ask[d]
    BY <1>1, <2>1, AskGoesDoes
  <2>3. SpacesTypeOK'
    BY <1>1, <2>1, <2>2 DEF SpacesInv, SpacesAreOwned, SpacesTypeOK
  <2>4. OwnerRemains' /\ PersonalIsAlone' /\ ArchivedWasMade'
    BY <1>1 DEF SpacesInv, SpacesAreOwned, OwnerRemains, Owners, PersonalIsAlone, ArchivedWasMade
  <2>5. AllowedIsMade'
    BY <1>1, <2>2 DEF SpacesInv, AllowedIsMade
  <2>6. LockIsHeld'
    BY <1>1, <2>1, <2>2 DEF SpacesInv, LockIsHeld
  <2>7. CheckedStillHolds'
    BY <1>1, <1>3, <2>2 DEF SpacesInv, CheckedStillHolds, AskRefused, LastOwner, OtherOwners, Owners
  <2> QED
    BY <2>3, <2>4, <2>5, <2>6, <2>7 DEF SpacesInv, SpacesAreOwned
<1> QED
  BY <1>2, <1>3

LEMMA AskFailsKeeps == ASSUME SpacesInv, NEW c \in Asks, AskFails(c) PROVE SpacesInv'
<1>1. UNCHANGED <<room, roleIn, person, errands, asksLeft>> /\ ask[c].at \in {"locked", "checked"} /\ EndsAsk(c)
  BY DEF AskFails, roomVars
<1> QED
  BY <1>1, EndsAskKeeps

\* The write changes one member of one shared space, whose owners do not all go.
LEMMA WriteMemberDoes ==
    ASSUME SpacesInv, NEW c \in Asks, WriteMember(c)
    PROVE  /\ ask[c].space \in Shares /\ ~room[ask[c].space].archived
           /\ roleIn' \in [Rooms -> [Members -> Roles \union {"none"}]]
           /\ \A s \in Rooms : s # ask[c].space => roleIn'[s] = roleIn[s]
           /\ \E p \in Members : roleIn'[ask[c].space][p] = "owner"
<1> DEFINE s == ask[c].space
           t == ask[c].target
           r == IF ask[c].op = "remove" THEN "none" ELSE ask[c].role
<1>1. /\ ask[c].at = "checked" /\ s \in Rooms /\ t \in Members /\ r \in Roles \union {"none"} /\ ask[c].role \in Roles
      /\ ask[c].op \in {"add", "patch", "remove"} /\ ~room[s].archived /\ room[s].made
      /\ ~LastOwner(ask[c]) /\ (ask[c].op = "add" => roleIn[s][t] = "none") /\ roleIn' = [roleIn EXCEPT ![s][t] = r]
  BY AskSpace DEF WriteMember, AskIs, SpacesInv, LockIsHeld, CheckedStillHolds, AllowedIsMade
<1>2. s \in Shares
  BY <1>1 DEF SpacesInv, AllowedIsMade
<1>3. roleIn \in [Rooms -> [Members -> Roles \union {"none"}]]
  BY DEF SpacesInv, SpacesAreOwned, SpacesTypeOK
<1>4. /\ roleIn' \in [Rooms -> [Members -> Roles \union {"none"}]]
      /\ \A x \in Rooms : x # s => roleIn'[x] = roleIn[x]
      /\ roleIn'[s][t] = r /\ \A p \in Members : p # t => roleIn'[s][p] = roleIn[s][p]
  BY <1>1, <1>3
<1>5. PICK p \in Members : roleIn[s][p] = "owner"
  BY <1>1, <1>2 DEF SpacesInv, SpacesAreOwned, OwnerRemains, Owners
<1>6. \E o \in Members : roleIn'[s][o] = "owner"
  <2>1. CASE p # t
    BY <1>4, <1>5, <2>1
  <2>2. CASE p = t /\ r = "owner"
    BY <1>1, <1>4, <2>2
  <2>3. CASE p = t /\ r # "owner"
    <3>1. OtherOwners(s, t) # {}
      BY <1>1, <1>5, <2>3 DEF LastOwner
    <3>2. PICK o \in Members : o # t /\ roleIn[s][o] = "owner"
      BY <3>1 DEF OtherOwners, Owners
    <3> QED
      BY <1>4, <3>2
  <2> QED
    BY <2>1, <2>2, <2>3
<1> QED
  BY <1>1, <1>2, <1>4, <1>6

LEMMA WriteMemberKeeps == ASSUME SpacesInv, NEW c \in Asks, WriteMember(c) PROVE SpacesInv'
<1>1. UNCHANGED <<room, person, errands, asksLeft>> /\ ask[c].at = "checked" /\ EndsAsk(c)
  BY DEF WriteMember, AskIs
<1>2. SpacesTypeOK /\ ask[c].space \in Rooms /\ holder[ask[c].space] = c
  BY <1>1, AskSpace DEF SpacesInv, SpacesAreOwned, LockIsHeld
<1>3. /\ ask' \in [Asks -> Asked] /\ ask'[c].at = "idle"
      /\ \A d \in Asks : d # c => ask'[d] = ask[d]
  BY <1>1, AskEndsDoes DEF EndsAsk
<1>4. /\ \A x \in Rooms : x # ask[c].space => holder'[x] = holder[x]
      /\ holder'[ask[c].space] = NoAsk /\ holder' \in [Rooms -> Asks \union {NoAsk}]
  BY <1>1, <1>2 DEF EndsAsk, SpacesTypeOK
<1>5. /\ ask[c].space \in Shares /\ ~room[ask[c].space].archived
      /\ roleIn' \in [Rooms -> [Members -> Roles \union {"none"}]]
      /\ \A s \in Rooms : s # ask[c].space => roleIn'[s] = roleIn[s]
      /\ \E p \in Members : roleIn'[ask[c].space][p] = "owner"
  BY WriteMemberDoes
<1>6. SpacesTypeOK'
  BY <1>1, <1>2, <1>3, <1>4, <1>5 DEF SpacesTypeOK
<1>7. OwnerRemains'
  BY <1>1, <1>5 DEF SpacesInv, SpacesAreOwned, OwnerRemains, Owners, Rooms
<1>8. PersonalIsAlone'
  BY <1>1, <1>5, SpacesAssumption DEF SpacesInv, SpacesAreOwned, PersonalIsAlone, Rooms
<1>9. AllowedIsMade' /\ ArchivedWasMade'
  BY <1>1, <1>3 DEF SpacesInv, AllowedIsMade, ArchivedWasMade
<1>10. \A d \in Asks : d # c /\ ask[d].at \in {"locked", "checked"} => ask[d].space # ask[c].space
  BY <1>2 DEF SpacesInv, LockIsHeld
<1>11. LockIsHeld'
  BY <1>1, <1>2, <1>3, <1>4, <1>10, AskSpace, SpacesAssumption DEF SpacesInv, LockIsHeld
<1>12. CheckedStillHolds'
  <2> SUFFICES ASSUME NEW d \in Asks, ask'[d].at = "checked"
               PROVE  ~LastOwner(ask[d])' /\ (ask'[d].op = "add" => roleIn'[ask'[d].space][ask'[d].target] = "none")
    BY DEF CheckedStillHolds
  <2>1. d # c /\ ask'[d] = ask[d] /\ ask[d].at = "checked"
    BY <1>3
  <2>2. /\ ~LastOwner(ask[d]) /\ (ask[d].op = "add" => roleIn[ask[d].space][ask[d].target] = "none")
        /\ ask[d].space \in Rooms /\ ask[d].space # ask[c].space
    BY <1>10, <2>1, AskSpace DEF SpacesInv, CheckedStillHolds
  <2>3. roleIn'[ask[d].space] = roleIn[ask[d].space]
    BY <1>5, <2>2
  <2> QED
    BY <1>1, <2>1, <2>2, <2>3 DEF LastOwner, OtherOwners, Owners
<1> QED
  BY <1>6, <1>7, <1>8, <1>9, <1>11, <1>12 DEF SpacesInv, SpacesAreOwned

\* Spaces that are new: shared ones nobody asked for, and personal ones.
LEMMA NewRooms ==
    ASSUME SpacesInv, NEW N \in SUBSET Rooms, \A s \in N : s \in Members \/ ~room[s].made,
           room' \in [Rooms -> RoomRow], roleIn' \in [Rooms -> [Members -> Roles \union {"none"}]],
           \A s \in Rooms \ N : room'[s] = room[s] /\ roleIn'[s] = roleIn[s],
           \A s \in N : room'[s] = Made /\ \E p \in Members : roleIn'[s] = OnlyOwner(p) /\ (s \in Members => p = s),
           person' \in [Members -> PersonRow], asksLeft' \in [asks : Nat, turnovers : Nat], UNCHANGED errands,
           \/ UNCHANGED <<holder, ask>>
           \/ holder' = [s \in Rooms |-> NoAsk] /\ ask' = [c \in Asks |-> AskRest]
    PROVE  SpacesInv'
<1>1. SpacesTypeOK'
  BY AskRestType DEF SpacesInv, SpacesAreOwned, SpacesTypeOK
<1>2. OwnerRemains'
  <2> SUFFICES ASSUME NEW s \in Shares, room'[s].made PROVE \E p \in Members : roleIn'[s][p] = "owner"
    BY DEF OwnerRemains, Owners
  <2>1. s \in Rooms
    BY DEF Rooms
  <2>2. CASE s \in N
    BY <2>2, RolesOfOne
  <2>3. CASE s \notin N
    BY <2>1, <2>3 DEF SpacesInv, SpacesAreOwned, OwnerRemains, Owners
  <2> QED
    BY <2>2, <2>3
<1>3. PersonalIsAlone'
  BY RoomRows DEF SpacesInv, SpacesAreOwned, PersonalIsAlone, Rooms
<1>4. ArchivedWasMade'
  BY RoomRows DEF SpacesInv, ArchivedWasMade
<1>5. CASE UNCHANGED <<holder, ask>>
  <2>1. AllowedIsMade'
    BY <1>5, RoomRows, AskSpace DEF SpacesInv, AllowedIsMade
  <2>2. \A c \in Asks : ask[c].at \in {"locked", "checked"} =>
            ask[c].space \in Shares /\ room[ask[c].space].made /\ ask[c].space \in Rooms \ N
    BY AskSpace, SpacesAssumption DEF SpacesInv, AllowedIsMade, LockIsHeld
  <2>3. LockIsHeld'
    BY <1>5, <2>2 DEF SpacesInv, LockIsHeld
  <2>4. CheckedStillHolds'
    BY <1>5, <2>2 DEF SpacesInv, CheckedStillHolds, LastOwner, OtherOwners, Owners
  <2> QED
    BY <1>1, <1>2, <1>3, <1>4, <2>1, <2>3, <2>4 DEF SpacesInv, SpacesAreOwned
<1>6. CASE holder' = [s \in Rooms |-> NoAsk] /\ ask' = [c \in Asks |-> AskRest]
  <2>1. \A c \in Asks : ask'[c].at = "idle"
    BY <1>6 DEF AskRest
  <2>2. AllowedIsMade' /\ LockIsHeld' /\ CheckedStillHolds'
    BY <1>6, <2>1, SpacesAssumption DEF AllowedIsMade, LockIsHeld, CheckedStillHolds
  <2> QED
    BY <1>1, <1>2, <1>3, <1>4, <2>2 DEF SpacesInv, SpacesAreOwned
<1> QED
  BY <1>5, <1>6

\* The rows of one new space.
LEMMA OpensDoes ==
    ASSUME SpacesInv, NEW s \in Rooms, NEW p \in Members, Opens(s, p)
    PROVE  /\ room' \in [Rooms -> RoomRow] /\ roleIn' \in [Rooms -> [Members -> Roles \union {"none"}]]
           /\ \A x \in Rooms \ {s} : room'[x] = room[x] /\ roleIn'[x] = roleIn[x]
           /\ room'[s] = Made /\ roleIn'[s] = OnlyOwner(p)
BY RoomRows, RolesOfOne DEF SpacesInv, SpacesAreOwned, SpacesTypeOK, Opens

LEMMA CreateSpaceKeeps == ASSUME SpacesInv, NEW p \in Members, NEW s \in Shares, CreateSpace(p, s) PROVE SpacesInv'
<1>1. ~room[s].made /\ Opens(s, p) /\ UNCHANGED <<person, holder, ask, errands>> /\ s \in Rooms /\ s \notin Members
  BY SpacesAssumption DEF CreateSpace, Rooms
<1>2. asksLeft' \in [asks : Nat, turnovers : Nat] /\ person' \in [Members -> PersonRow]
  BY <1>1, SpendDoes DEF CreateSpace, SpacesInv, SpacesAreOwned, SpacesTypeOK
<1>3. /\ room' \in [Rooms -> RoomRow] /\ roleIn' \in [Rooms -> [Members -> Roles \union {"none"}]]
      /\ \A x \in Rooms \ {s} : room'[x] = room[x] /\ roleIn'[x] = roleIn[x]
      /\ room'[s] = Made /\ roleIn'[s] = OnlyOwner(p)
  BY <1>1, OpensDoes
<1> DEFINE N == {s}
<1>4. /\ N \in SUBSET Rooms /\ \A x \in N : x \in Members \/ ~room[x].made
      /\ \A x \in Rooms \ N : room'[x] = room[x] /\ roleIn'[x] = roleIn[x]
      /\ \A x \in N : room'[x] = Made /\ \E q \in Members : roleIn'[x] = OnlyOwner(q) /\ (x \in Members => q = x)
  BY <1>1, <1>3
<1>5. UNCHANGED <<holder, ask>> /\ UNCHANGED errands
  BY <1>1
<1> HIDE DEF N
<1> QED
  BY <1>2, <1>3, <1>4, <1>5, NewRooms

LEMMA CreatePersonKeeps == ASSUME SpacesInv, NEW p \in Members, CreatePerson(p) PROVE SpacesInv'
<1>1. Opens(p, p) /\ UNCHANGED <<holder, ask, errands>> /\ p \in Rooms
  BY DEF CreatePerson, Rooms
<1>2. asksLeft' \in [asks : Nat, turnovers : Nat] /\ person' \in [Members -> PersonRow]
  BY SpendDoes DEF CreatePerson, SpacesInv, SpacesAreOwned, SpacesTypeOK, PersonRow
<1>3. /\ room' \in [Rooms -> RoomRow] /\ roleIn' \in [Rooms -> [Members -> Roles \union {"none"}]]
      /\ \A x \in Rooms \ {p} : room'[x] = room[x] /\ roleIn'[x] = roleIn[x]
      /\ room'[p] = Made /\ roleIn'[p] = OnlyOwner(p)
  BY <1>1, OpensDoes
<1> DEFINE N == {p}
<1>4. /\ N \in SUBSET Rooms /\ \A x \in N : x \in Members \/ ~room[x].made
      /\ \A x \in Rooms \ N : room'[x] = room[x] /\ roleIn'[x] = roleIn[x]
      /\ \A x \in N : room'[x] = Made /\ \E q \in Members : roleIn'[x] = OnlyOwner(q) /\ (x \in Members => q = x)
  BY <1>1, <1>3
<1>5. UNCHANGED <<holder, ask>> /\ UNCHANGED errands
  BY <1>1
<1> HIDE DEF N
<1> QED
  BY <1>2, <1>3, <1>4, <1>5, NewRooms

LEMMA SpacesRestartKeeps == ASSUME SpacesInv, SpacesRestart PROVE SpacesInv'
<1> DEFINE N == {p \in Members : person[p].exists /\ ~room[p].made}
<1>1. /\ room' = [s \in Rooms |-> IF s \in N THEN Made ELSE room[s]]
      /\ roleIn' = [s \in Rooms |-> IF s \in N THEN OnlyOwner(s) ELSE roleIn[s]]
      /\ holder' = [s \in Rooms |-> NoAsk] /\ ask' = [c \in Asks |-> AskRest] /\ UNCHANGED <<person, errands>>
  BY DEF SpacesRestart, Backfilled
<1>2. asksLeft' \in [asks : Nat, turnovers : Nat] /\ person' \in [Members -> PersonRow]
  BY <1>1, SpendDoes DEF SpacesRestart, SpacesInv, SpacesAreOwned, SpacesTypeOK
<1>3. N \in SUBSET Members /\ N \in SUBSET Rooms
  BY DEF Rooms
<1> HIDE DEF N
<1>4. room \in [Rooms -> RoomRow] /\ roleIn \in [Rooms -> [Members -> Roles \union {"none"}]]
  BY DEF SpacesInv, SpacesAreOwned, SpacesTypeOK
<1>5. room' \in [Rooms -> RoomRow]
  BY <1>1, <1>4, RoomRows
<1>6. roleIn' \in [Rooms -> [Members -> Roles \union {"none"}]]
  BY <1>1, <1>3, <1>4, RolesOfOne
<1>7. /\ \A x \in N : x \in Members \/ ~room[x].made
      /\ \A x \in Rooms \ N : room'[x] = room[x] /\ roleIn'[x] = roleIn[x]
      /\ \A x \in N : room'[x] = Made /\ \E q \in Members : roleIn'[x] = OnlyOwner(q) /\ (x \in Members => q = x)
  BY <1>1, <1>3
<1>8. holder' = [s \in Rooms |-> NoAsk] /\ ask' = [c \in Asks |-> AskRest]
  BY <1>1
<1>9. UNCHANGED errands
  BY <1>1
<1> QED
  BY <1>2, <1>3, <1>5, <1>6, <1>7, <1>8, <1>9, NewRooms

LEMMA PersonChangesKeeps == ASSUME SpacesInv, NEW p \in Members, PersonChanges(p) PROVE SpacesInv'
<1>1. UNCHANGED <<room, roleIn, holder, ask, errands>>
  BY DEF PersonChanges, roomVars
<1>2. asksLeft' \in [asks : Nat, turnovers : Nat]
  BY SpendDoes DEF PersonChanges
<1>3. person' \in [Members -> PersonRow]
  <2>1. person \in [Members -> PersonRow] /\ person[p] \in PersonRow
    BY DEF SpacesInv, SpacesAreOwned, SpacesTypeOK
  <2>2. [person[p] EXCEPT !.enabled = ~@] \in PersonRow /\ [person[p] EXCEPT !.admin = ~@] \in PersonRow
    BY <2>1, Zenon DEF PersonRow
  <2>3. PICK q \in PersonRow : person' = [person EXCEPT ![p] = q]
    BY <2>2 DEF PersonChanges
  <2> QED
    BY <2>1, <2>3
<1>4. SpacesTypeOK'
  BY <1>1, <1>2, <1>3 DEF SpacesInv, SpacesAreOwned, SpacesTypeOK
<1>5. OwnerRemains' /\ PersonalIsAlone' /\ ArchivedWasMade'
  BY <1>1 DEF SpacesInv, SpacesAreOwned, OwnerRemains, Owners, PersonalIsAlone, ArchivedWasMade
<1>6. AllowedIsMade' /\ LockIsHeld'
  BY <1>1 DEF SpacesInv, AllowedIsMade, LockIsHeld
<1>7. CheckedStillHolds'
  BY <1>1 DEF SpacesInv, CheckedStillHolds, LastOwner, OtherOwners, Owners
<1> QED
  BY <1>4, <1>5, <1>6, <1>7 DEF SpacesInv, SpacesAreOwned

LEMMA SpacesIdle == ASSUME SpacesInv, UNCHANGED spaceVars PROVE SpacesInv'
<1>1. UNCHANGED <<room, roleIn, person, holder, ask, errands, asksLeft>>
  BY DEF spaceVars
<1>2. SpacesTypeOK'
  BY <1>1 DEF SpacesInv, SpacesAreOwned, SpacesTypeOK
<1>3. OwnerRemains' /\ PersonalIsAlone' /\ ArchivedWasMade'
  BY <1>1 DEF SpacesInv, SpacesAreOwned, OwnerRemains, Owners, PersonalIsAlone, ArchivedWasMade
<1>4. AllowedIsMade' /\ LockIsHeld'
  BY <1>1 DEF SpacesInv, AllowedIsMade, LockIsHeld
<1>5. CheckedStillHolds'
  BY <1>1 DEF SpacesInv, CheckedStillHolds, LastOwner, OtherOwners, Owners
<1> QED
  BY <1>2, <1>3, <1>4, <1>5 DEF SpacesInv, SpacesAreOwned

LEMMA SpacesStep == ASSUME SpacesInv, SpacesNext PROVE SpacesInv'
<1>1. ASSUME NEW c \in Asks, AskStep(c) PROVE SpacesInv'
  BY <1>1, BeginAskKeeps, CliAddsKeeps, AuthorizeKeeps, RenameSpaceKeeps, ArchiveSpaceKeeps, LockSpaceKeeps,
     CheckMemberKeeps, WriteMemberKeeps, AskFailsKeeps DEF AskStep
<1>2. ASSUME NEW p \in Members, CreatePerson(p) \/ PersonChanges(p) \/ (\E s \in Shares : CreateSpace(p, s))
      PROVE  SpacesInv'
  BY <1>2, CreatePersonKeeps, PersonChangesKeeps, CreateSpaceKeeps
<1> QED
  BY <1>1, <1>2, SpacesRestartKeeps DEF SpacesNext

\* `_lock_space` and the checks of spaces.py: whatever people ask of a shared space at once, of the last owners
\* among them too, it keeps an owner, and a personal space keeps its one member.
THEOREM SpacesAreAlwaysOwned == SpacesSpec => []SpacesAreOwned
<1>1. SpacesInit => SpacesInv
  BY SpacesInitInv
<1>2. SpacesInv /\ [SpacesNext]_spaceVars => SpacesInv'
  BY SpacesStep, SpacesIdle
<1>3. SpacesInv => SpacesAreOwned
  BY DEF SpacesInv
<1> QED
  BY <1>1, <1>2, <1>3, PTL DEF SpacesSpec

\* The rows an archived space has stay: whoever would change it finds it archived once the row is locked.
LEMMA ArchivedStays == ASSUME SpacesInv, SpacesNext, NEW s \in Rooms, room[s].archived PROVE room'[s] = room[s] /\ roleIn'[s] = roleIn[s]
<1> USE DEF roomVars
<1>1. ASSUME NEW c \in Asks, AskStep(c) PROVE room'[s] = room[s] /\ roleIn'[s] = roleIn[s]
  <2>1. CASE BeginAsk(c) \/ CliAdds(c) \/ Authorize(c) \/ LockSpace(c) \/ CheckMember(c) \/ AskFails(c)
    BY <2>1 DEF BeginAsk, CliAdds, Authorize, LockSpace, CheckMember, AskFails
  <2>2. room \in [Rooms -> RoomRow]
    BY DEF SpacesInv, SpacesAreOwned, SpacesTypeOK
  <2>3. CASE RenameSpace(c)
    BY <2>2, <2>3 DEF RenameSpace
  <2>4. CASE ArchiveSpace(c)
    <3>1. room' = [room EXCEPT ![ask[c].space].archived = TRUE] /\ roleIn' = roleIn
      BY <2>4 DEF ArchiveSpace
    <3>2. [room[s] EXCEPT !.archived = TRUE] = room[s]
      BY <2>2 DEF RoomRow
    <3> QED
      BY <2>2, <3>1, <3>2
  <2>5. CASE WriteMember(c)
    <3>1. ~room[ask[c].space].archived /\ \A x \in Rooms : x # ask[c].space => roleIn'[x] = roleIn[x]
      BY <2>5, WriteMemberDoes
    <3> QED
      BY <2>5, <3>1 DEF WriteMember
  <2> QED
    BY <1>1, <2>1, <2>3, <2>4, <2>5 DEF AskStep
<1>2. room[s].made /\ s \notin Members
  BY DEF SpacesInv, SpacesAreOwned, ArchivedWasMade, PersonalIsAlone
<1>3. ASSUME NEW p \in Members, CreatePerson(p) PROVE room'[s] = room[s] /\ roleIn'[s] = roleIn[s]
  <2>1. Opens(p, p) /\ p \in Rooms /\ s \in Rooms \ {p}
    BY <1>2, <1>3 DEF CreatePerson, Rooms
  <2> QED
    BY <2>1, OpensDoes
<1>4. ASSUME NEW p \in Members, PersonChanges(p) PROVE room'[s] = room[s] /\ roleIn'[s] = roleIn[s]
  BY <1>4 DEF PersonChanges
<1>5. ASSUME NEW p \in Members, NEW x \in Shares, CreateSpace(p, x) PROVE room'[s] = room[s] /\ roleIn'[s] = roleIn[s]
  <2>1. Opens(x, p) /\ x \in Rooms /\ s \in Rooms \ {x}
    BY <1>2, <1>5 DEF CreateSpace, Rooms
  <2> QED
    BY <2>1, OpensDoes
<1>6. CASE SpacesRestart
  BY <1>2, <1>6 DEF SpacesRestart, Backfilled
<1> QED
  BY <1>1, <1>3, <1>4, <1>5, <1>6 DEF SpacesNext

\* "archived: members keep their rows": a request that was allowed before the space was archived comes too late.
THEOREM ArchivedStaysAsItWas == SpacesSpec => ArchivedIsFrozen
<1>1. SpacesInit => SpacesInv
  BY SpacesInitInv
<1>2. SpacesInv /\ [SpacesNext]_spaceVars => SpacesInv'
  BY SpacesStep, SpacesIdle
<1>3. SpacesInv /\ [SpacesNext]_spaceVars =>
        [\A s \in Rooms : room[s].archived => room'[s] = room[s] /\ roleIn'[s] = roleIn[s]]_spaceVars
  BY ArchivedStays
<1> QED
  BY <1>1, <1>2, <1>3, PTL DEF SpacesSpec, ArchivedIsFrozen

===============================================================================
