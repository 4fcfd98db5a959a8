------------------------------- MODULE Accounts -------------------------------
(***************************************************************************)
(* The people of the platform and their sessions: the first admin's setup, *)
(* invites, sign-in by password, passkey or paired app with a TOTP code,   *)
(* step-up, password changes, TOTP enrollment, and what admins change.     *)
(* services/platform/app/core/users.py, sessions.py, invites.py, totp.py,  *)
(* bootstrap.py, webauthn.py and device_pairs.py with api/external/auth.py,*)
(* me.py, device_pairs.py and admin.py.                                    *)
(*                                                                         *)
(* A request is a few SQL statements with awaits between them; a statement *)
(* is a step and so is a transaction, but for `revoke_pair`, whose two     *)
(* statements are two steps.  A refused request changes nothing and is     *)
(* left out where the refusal is its first check.  Secrets, codes and      *)
(* signatures are right or not there at all: a password is its number in   *)
(* the order of changes, a code is a secret and a time step.               *)
(***************************************************************************)
EXTENDS Naturals, FiniteSets, Sequences

CONSTANTS
    Persons, Alice, Bob, \* usernames, and two of them
    Callers,             \* requests under way at once
    Pairs,               \* keys of host apps
    NoPerson, NoPair,
    Mixes,               \* bound: the kinds of requests that come together
    MaxAccountCalls, MaxClock  \* bounds: what is left of requests and restarts, and the time

Ops == {"none", "setup", "accept", "login", "password", "totp_enroll", "totp_confirm", "totp_disable",
        "step_up", "sign_out", "patch", "invite", "uninvite", "challenge", "register", "passkey",
        "pair", "unpair", "restart"}

ASSUME AccountsAssumption ==
    /\ {Alice, Bob} \subseteq Persons /\ Alice # Bob
    /\ NoPerson \notin Persons /\ NoPerson \notin Callers /\ NoPair \notin Pairs
    /\ Mixes \subseteq SUBSET Ops
    /\ MaxAccountCalls \in Nat /\ MaxClock \in Nat

VARIABLES
    account,     \* the users table
    totp,        \* its TOTP columns; 0 is NULL
    fresh,       \* the next secret, and the next challenge
    clock,       \* the current TOTP step
    signIns,     \* the sessions table; `by`, `pw` and `late` are history
    invites,
    pairs,       \* device_pairs: whose each pair is
    unpaired,    \* the pairs whose row has been deleted
    passkey,     \* each person's credential, and their authenticator's own counter
    challenges,  \* webauthn_challenges and device_challenges
    setupCode,   \* Bootstrap._code: is there one?
    bootstrapped,\* platform_state: who completed the setup
    adminLock,   \* who holds the advisory lock ADMIN_LOCK_KEY
    call,        \* each caller's request
    spent, respent, \* history: the codes and challenges accepted, and those accepted again
    mix,         \* for the bounds: the kinds of requests of this behaviour
    callsLeft

people      == <<account, totp, signIns>>
credentials == <<invites, pairs, unpaired, passkey, challenges, setupCode, bootstrapped>>
codesUsed   == <<spent, respent>>
accountVars == <<people, credentials, fresh, clock, adminLock, call, codesUsed, mix, callsLeft>>

Purposes == {"register", "login", "step_up", "enroll", "pair"}
HandlerAt == {"idle", "hash", "close", "verify", "code", "mint", "read", "write", "locked",
             "take", "count", "delete", "insert", "untag", "remove"}
Creds    == [pw : Nat, secret : Nat, last : Nat, disabled : BOOLEAN, pair : Pairs \union {NoPair}]
NoCreds  == [pw |-> 0, secret |-> 0, last |-> 0, disabled |-> FALSE, pair |-> NoPair]
Call     == [op : Ops, at : HandlerAt, who : Persons \union {NoPerson}, session : Nat,
             target : Persons \union {NoPerson}, pair : Pairs \union {NoPair}, n : Nat,
             to : Purposes \union {"", "admin", "member", "disable", "enable"},
             seen : SUBSET Nat, creds : Creds]
IdleCall == [op |-> "none", at |-> "idle", who |-> NoPerson, session |-> 0, target |-> NoPerson,
             pair |-> NoPair, n |-> 0, to |-> "", seen |-> {}, creds |-> NoCreds]

Account   == [is : {"none", "on", "disabled"}, admin : BOOLEAN, pw : Nat, invite : Nat]
NoAccount == [is |-> "none", admin |-> FALSE, pw |-> 0, invite |-> 0]
SignIn    == [user : Persons, pair : Pairs \union {NoPair}, live : BOOLEAN, stepped : BOOLEAN,
              by : Pairs \union {NoPair}, pw : Nat, late : BOOLEAN]
Challenge == [id : Nat, purpose : Purposes, user : Persons \union {NoPerson},
              pair : Pairs \union {NoPair}, used : BOOLEAN]

\* Every variable keeps to its set, and the advisory lock is held by the request that has
\* read under it and not yet written.
AccountsTypeOK ==
    /\ account \in [Persons -> Account]
    /\ totp \in [Persons -> [secret : Nat, pending : Nat, last : Nat]]
    /\ fresh \in Nat /\ clock \in Nat
    /\ signIns \in Seq(SignIn)
    /\ invites \in Seq({"pending", "used", "revoked"})
    /\ pairs \in [Pairs -> Persons \union {NoPerson}] /\ unpaired \in SUBSET Pairs
    /\ passkey \in [Persons -> [here : BOOLEAN, count : Nat, device : Nat]]
    /\ challenges \in SUBSET Challenge
    /\ setupCode \in BOOLEAN /\ bootstrapped \in Persons \union {NoPerson}
    /\ adminLock \in Callers \union {NoPerson}
    /\ call \in [Callers -> Call]
    /\ \A c \in Callers : adminLock = c <=> call[c].at = "locked"
    /\ mix \in Mixes /\ callsLeft \in Nat

NewSignIn(u, pair, pw, late) ==
    [user |-> u, pair |-> pair, live |-> TRUE, stepped |-> FALSE, by |-> pair, pw |-> pw, late |-> late]

NoTotp    == [secret |-> 0, pending |-> 0, last |-> 0]
NoPasskey == [here |-> FALSE, count |-> 0, device |-> 0]
Stored(id, purpose, u, p) == [id |-> id, purpose |-> purpose, user |-> u, pair |-> p, used |-> FALSE]

NewServer ==
    /\ account = [u \in Persons |-> NoAccount] /\ totp = [u \in Persons |-> NoTotp]
    /\ signIns = << >> /\ invites = << >> /\ challenges = {}
    /\ pairs = [p \in Pairs |-> NoPerson] /\ passkey = [u \in Persons |-> NoPasskey]
    /\ setupCode = TRUE /\ bootstrapped = NoPerson

\* Alice, an admin, has TOTP off, pending or on, a passkey, perhaps a paired app, and has
\* asked for challenges; Bob, who came by an invite, may be an admin; another invite is out.
InUse ==
    /\ \E secret, pending \in {0, 1} :
         /\ secret + pending <= 1
         /\ totp = [u \in Persons |-> IF u = Alice THEN [secret |-> secret, pending |-> pending, last |-> 0]
                                       ELSE NoTotp]
    /\ \E admin \in BOOLEAN :
         account = [u \in Persons |-> IF u \in {Alice, Bob}
                        THEN [is |-> "on", admin |-> u = Alice \/ admin, pw |-> 1, invite |-> IF u = Bob THEN 1 ELSE 0]
                        ELSE NoAccount]
    /\ signIns = << [NewSignIn(Alice, NoPair, 1, FALSE) EXCEPT !.stepped = TRUE],
                    [NewSignIn(Bob, NoPair, 1, FALSE) EXCEPT !.stepped = TRUE] >>
    /\ passkey = [u \in Persons |-> [NoPasskey EXCEPT !.here = u = Alice]]
    /\ \E owner \in {NoPerson, Alice}, p \in Pairs :
         /\ pairs = [q \in Pairs |-> IF q = p THEN owner ELSE NoPerson]
         /\ challenges = {Stored(2, "login", Alice, NoPair), Stored(3, "step_up", Alice, NoPair),
                          Stored(4, "enroll", Bob, NoPair)}
                         \union (IF owner = Alice THEN {Stored(5, "pair", NoPerson, p)} ELSE {})
    /\ invites = <<"used", "pending">> /\ setupCode = FALSE /\ bootstrapped = Alice

AccountsInit ==
    /\ NewServer \/ InUse
    /\ unpaired = {} /\ fresh = 6 /\ clock = 2 /\ adminLock = NoPerson
    /\ call = [c \in Callers |-> IdleCall] /\ spent = {} /\ respent = {}
    /\ mix \in Mixes
    /\ callsLeft = MaxAccountCalls

-----------------------------------------------------------------------------
(* What the requests share.                                                *)

Is(c, op, at) == call[c].op = op /\ call[c].at = at

\* The bounds on requests, those that are one step too.
Takes(op) ==
    op \in mix /\ callsLeft > 0 /\ callsLeft' = callsLeft - 1 /\ UNCHANGED mix

\* A request that gets past its first checks.
AskFor(c, r) ==
    /\ call[c].at = "idle" /\ Takes(r.op)
    /\ call' = [call EXCEPT ![c] = r]

bounds      == <<mix, callsLeft>>
Step(c, at) == call' = [call EXCEPT ![c].at = at] /\ UNCHANGED bounds
Done(c)     == call' = [call EXCEPT ![c] = IdleCall] /\ UNCHANGED bounds

\* `load_active`: the session and its user, of a request made with it.
Active(s) == s \in DOMAIN signIns /\ signIns[s].live /\ account[signIns[s].user].is = "on"

\* A person's own request, made with session s.
Own(s, op, at) ==
    [IdleCall EXCEPT !.op = op, !.at = at, !.who = signIns[s].user, !.session = s,
                   !.creds.pw = account[signIns[s].user].pw]

\* `require_admin_stepped_up`.
AdminActive(s) == Active(s) /\ account[signIns[s].user].admin /\ signIns[s].stepped

\* `get_credentials`, or what `finish_login` of a pair reads of its user.
CredsOf(u, pw, p) ==
    [pw |-> pw, secret |-> totp[u].secret, last |-> totp[u].last,
     disabled |-> account[u].is = "disabled", pair |-> p]

\* Something that should be accepted once is accepted.
Accept(x) ==
    /\ spent' = spent \union {x}
    /\ respent' = IF x \in spent THEN respent \union {x} ELSE respent

\* `revoke_user_sessions`.
Revoked(u, keep) == [s \in DOMAIN signIns |->
    IF signIns[s].user = u /\ s # keep THEN [signIns[s] EXCEPT !.live = FALSE] ELSE signIns[s]]

-----------------------------------------------------------------------------
(* Setup and invites: a new user and their first session.                  *)

\* `Bootstrap.complete`, the right code given: then the password is hashed.
Setup(c, u) ==
    /\ setupCode /\ AskFor(c, [IdleCall EXCEPT !.op = "setup", !.at = "hash", !.who = u])
    /\ UNCHANGED <<people, credentials, fresh, clock, adminLock, codesUsed>>

NewUser(u, admin, invite) ==
    /\ account[u].is = "none"
    /\ account' = [account EXCEPT ![u] = [is |-> "on", admin |-> admin, pw |-> 1, invite |-> invite]]
    /\ signIns' = Append(signIns, NewSignIn(u, NoPair, 1, FALSE))
    /\ UNCHANGED totp

\* Mutant of SetupOpen: the code's check before the hashing is not repeated.
SetupOpenBefore == TRUE

\* Under SETUP_LOCK_KEY: nobody completed the setup.
SetupOpen == bootstrapped = NoPerson

\* Its transaction; a setup already completed or a username taken rolls it back.
CompleteSetup(c) ==
    /\ Is(c, "setup", "hash")
    /\ \/ /\ SetupOpen /\ NewUser(call[c].who, TRUE, 0)
          /\ bootstrapped' = call[c].who /\ Step(c, "close")
       \/ /\ ~SetupOpen \/ account[call[c].who].is # "none"
          /\ Done(c) /\ UNCHANGED <<people, bootstrapped>>
    /\ UNCHANGED <<fresh, clock, invites, pairs, unpaired, passkey, challenges, setupCode, adminLock, codesUsed>>

CloseSetup(c) ==
    /\ Is(c, "setup", "close") /\ setupCode' = FALSE /\ Done(c)
    /\ UNCHANGED <<people, fresh, clock, invites, pairs, unpaired, passkey, challenges, bootstrapped, adminLock,
                   codesUsed>>

\* An admin's `create_invite` or `revoke_invite`.
AskInvite(c, s) ==
    /\ AdminActive(s) /\ AskFor(c, Own(s, "invite", "write"))
    /\ UNCHANGED <<people, credentials, fresh, clock, adminLock, codesUsed>>

CreateInvite(c) ==
    /\ Is(c, "invite", "write") /\ invites' = Append(invites, "pending") /\ Done(c)
    /\ UNCHANGED <<people, fresh, clock, pairs, unpaired, passkey, challenges, setupCode, bootstrapped, adminLock,
                   codesUsed>>

AskUninvite(c, s, n) ==
    /\ AdminActive(s) /\ AskFor(c, [Own(s, "uninvite", "write") EXCEPT !.n = n])
    /\ UNCHANGED <<people, credentials, fresh, clock, adminLock, codesUsed>>

RevokeInvite(c) ==
    /\ Is(c, "uninvite", "write") /\ Done(c)
    /\ invites' = [invites EXCEPT ![call[c].n] = IF @ = "pending" THEN "revoked" ELSE @]
    /\ UNCHANGED <<people, fresh, clock, pairs, unpaired, passkey, challenges, setupCode, bootstrapped, adminLock,
                   codesUsed>>

\* `accept_invite`: the password is hashed, ...
AskAccept(c, u, n) ==
    /\ AskFor(c, [IdleCall EXCEPT !.op = "accept", !.at = "hash", !.who = u, !.n = n])
    /\ UNCHANGED <<people, credentials, fresh, clock, adminLock, codesUsed>>

\* Mutant of Claimable: the claim's WHERE forgets used_at.
ClaimableUsed(n) == invites[n] # "revoked"

Claimable(n) == invites[n] = "pending"

\* ... then one transaction claims the invite and makes the user and their session.
AcceptInvite(c) ==
    /\ Is(c, "accept", "hash") /\ Done(c)
    /\ LET n == call[c].n
           u == call[c].who
       IN IF Claimable(n) /\ account[u].is = "none"
          THEN NewUser(u, FALSE, n) /\ invites' = [invites EXCEPT ![n] = "used"]
          ELSE UNCHANGED <<people, invites>>
    /\ UNCHANGED <<fresh, clock, pairs, unpaired, passkey, challenges, setupCode, bootstrapped, adminLock, codesUsed>>

-----------------------------------------------------------------------------
(* Signing in.                                                             *)

\* `login` reads the credentials; the password is verified in a thread.
Login(c, u) ==
    /\ account[u].is # "none"
    /\ AskFor(c, [IdleCall EXCEPT !.op = "login", !.at = "code", !.who = u,
                             !.creds = CredsOf(u, account[u].pw, NoPair)])
    /\ UNCHANGED <<people, credentials, fresh, clock, adminLock, codesUsed>>

\* `match_step` takes a code of the last, this or the next step, after the last one accepted.
Window == {k \in clock - 1 .. clock + 1 : k > 0}

\* Mutant of Consumes: what was read before is not looked at again.
ConsumesAny(u, k) == TRUE

\* `consume_totp_step`: an UPDATE that only goes forward.
Consumes(u, k) == totp[u].last = 0 \/ totp[u].last < k

\* The TOTP part of `_finish_login`; without a code, or with a wrong one, it ends here.
Code(c) ==
    /\ call[c].at = "code"
    /\ LET u == call[c].who
           r == call[c].creds
       IN \/ /\ r.secret = 0 /\ Step(c, "mint") /\ UNCHANGED <<totp, codesUsed>>
          \/ /\ r.secret # 0
             /\ \E k \in Window :
                  /\ k > r.last
                  /\ IF Consumes(u, k)
                     THEN /\ totp' = [totp EXCEPT ![u].last = k]
                          /\ Accept(<<"code", u, r.secret, k>>) /\ Step(c, "mint")
                     ELSE Done(c) /\ UNCHANGED <<totp, codesUsed>>
    /\ UNCHANGED <<account, signIns, credentials, fresh, clock, adminLock>>

\* Is a revocation of this pair between its two statements?
Unpairing(p) == \E d \in Callers : call[d].at = "remove" /\ call[d].pair = p

\* A user disabled when the credentials were read is refused; the session's foreign key
\* wants the pair to be there.
Mint(c) ==
    /\ call[c].at = "mint" /\ Done(c)
    /\ LET u == call[c].who
           r == call[c].creds
       IN IF r.disabled \/ (r.pair # NoPair /\ pairs[r.pair] = NoPerson) THEN UNCHANGED signIns
          ELSE signIns' = Append(signIns, NewSignIn(u, r.pair, r.pw,
                   \/ account[u].is = "disabled"
                   \/ r.pw # 0 /\ r.pw # account[u].pw
                   \/ r.pair # NoPair /\ Unpairing(r.pair)))
    /\ UNCHANGED <<account, totp, credentials, fresh, clock, adminLock, codesUsed>>

-----------------------------------------------------------------------------
(* A signed-in person's password, sessions, step-up and TOTP.              *)

\* `patch_me` with the right current password; the new one is hashed, ...
AskPassword(c, s) ==
    /\ Active(s) /\ AskFor(c, Own(s, "password", "hash"))
    /\ UNCHANGED <<people, credentials, fresh, clock, adminLock, codesUsed>>

\* Mutant of Others: the sessions are left as they are.
OthersKept(u, keep) == signIns

Others(u, keep) == Revoked(u, keep)

\* ... then `set_password` sets it and revokes every other session.
SetPassword(c) ==
    /\ Is(c, "password", "hash") /\ Done(c)
    /\ LET u == call[c].who
           p == account[u].pw + 1
           o == Others(u, call[c].session)
       IN /\ account' = [account EXCEPT ![u].pw = p]
          /\ signIns' = [o EXCEPT ![call[c].session].pw = p]
    /\ UNCHANGED <<totp, credentials, fresh, clock, adminLock, codesUsed>>

\* `logout` or `revoke_my_session`, of a session t of the same user.
AskSignOut(c, s, t) ==
    /\ Active(s) /\ AskFor(c, [Own(s, "sign_out", "write") EXCEPT !.n = t])
    /\ UNCHANGED <<people, credentials, fresh, clock, adminLock, codesUsed>>

SignOut(c) ==
    /\ Is(c, "sign_out", "write") /\ Done(c)
    /\ signIns' = IF signIns[call[c].n].user = call[c].who
                  THEN [signIns EXCEPT ![call[c].n].live = FALSE] ELSE signIns
    /\ UNCHANGED <<account, totp, credentials, fresh, clock, adminLock, codesUsed>>

\* `step_up` with the right password.
AskStepUp(c, s) ==
    /\ Active(s) /\ AskFor(c, Own(s, "step_up", "write"))
    /\ UNCHANGED <<people, credentials, fresh, clock, adminLock, codesUsed>>

StepUp(c) ==
    /\ Is(c, "step_up", "write") /\ Done(c)
    /\ signIns' = [signIns EXCEPT ![call[c].session].stepped = TRUE]
    /\ UNCHANGED <<account, totp, credentials, fresh, clock, adminLock, codesUsed>>

\* The step-up window is over.
StepDown(s) ==
    /\ signIns[s].stepped /\ signIns' = [signIns EXCEPT ![s].stepped = FALSE]
    /\ Takes("step_up")
    /\ UNCHANGED <<account, totp, credentials, fresh, clock, adminLock, call, codesUsed>>

\* `totp/enroll` and `totp/disable` with the right password, `totp/confirm`.
AskTotp(c, s, op) ==
    /\ Active(s) /\ AskFor(c, Own(s, op, "read"))
    /\ UNCHANGED <<people, credentials, fresh, clock, adminLock, codesUsed>>

\* `get_totp_state`; a code is matched with the pending secret.
ReadTotp(c) ==
    /\ call[c].at = "read"
    /\ LET t == totp[call[c].who]
       IN CASE call[c].op = "totp_enroll" ->
                 IF t.secret = 0 THEN Step(c, "write") ELSE Done(c)
            [] call[c].op = "totp_disable" ->
                 IF t.secret # 0 THEN Step(c, "write") ELSE Done(c)
            [] call[c].op = "totp_confirm" ->
                 IF t.secret = 0 /\ t.pending # 0
                 THEN /\ \E k \in Window : call' = [call EXCEPT ![c].at = "write", ![c].n = k,
                                                               ![c].creds.secret = t.pending]
                      /\ UNCHANGED bounds
                 ELSE Done(c)
    /\ UNCHANGED <<people, credentials, fresh, clock, adminLock, codesUsed>>

\* Another secret may be pending by now.
EnrollTotp(c) ==
    /\ Is(c, "totp_enroll", "write") /\ Done(c)
    /\ totp' = [totp EXCEPT ![call[c].who].pending = fresh] /\ fresh' = fresh + 1
    /\ UNCHANGED <<account, signIns, credentials, clock, adminLock, codesUsed>>

\* `activate_pending_totp`: whatever is pending now, NULL too, and whatever code was the last;
\* the codes of before count no more.
ConfirmTotp(c) ==
    /\ Is(c, "totp_confirm", "write") /\ Done(c)
    /\ totp' = [totp EXCEPT ![call[c].who] = [secret |-> @.pending, pending |-> 0, last |-> call[c].n]]
    /\ spent' = {x \in spent : ~(x[1] = "code" /\ x[2] = call[c].who)}
                 \union {<<"code", call[c].who, call[c].creds.secret, call[c].n>>}
    /\ UNCHANGED <<account, signIns, credentials, fresh, clock, adminLock, respent>>

\* `clear_totp`; its codes count no more.
DisableTotp(c) ==
    /\ Is(c, "totp_disable", "write") /\ Done(c)
    /\ totp' = [totp EXCEPT ![call[c].who] = [secret |-> 0, pending |-> 0, last |-> 0]]
    /\ spent' = {x \in spent : ~(x[1] = "code" /\ x[2] = call[c].who)}
    /\ UNCHANGED <<account, signIns, credentials, fresh, clock, adminLock, respent>>

\* Time goes on, where it matters.
Tick ==
    /\ "totp_confirm" \in mix /\ clock < MaxClock /\ clock' = clock + 1
    /\ UNCHANGED <<people, credentials, fresh, adminLock, call, codesUsed, bounds>>

-----------------------------------------------------------------------------
(* Passkeys: a challenge is stored, and taken by the answer to it.         *)

\* `begin_register` and `begin_step_up`, with a session; `begin_enroll` of a pair.
AskChallenge(c, s, purpose) ==
    /\ Active(s) /\ purpose = "step_up" => passkey[signIns[s].user].here
    /\ AskFor(c, [Own(s, "challenge", "delete") EXCEPT !.to = purpose])
    /\ UNCHANGED <<people, credentials, fresh, clock, adminLock, codesUsed>>

\* `begin_login` with a passkey.
AskLoginChallenge(c, u) ==
    /\ passkey[u].here
    /\ AskFor(c, [IdleCall EXCEPT !.op = "challenge", !.at = "delete", !.who = u, !.to = "login"])
    /\ UNCHANGED <<people, credentials, fresh, clock, adminLock, codesUsed>>

\* `begin_login` with a pair.
AskPairChallenge(c, p) ==
    /\ pairs[p] # NoPerson
    /\ AskFor(c, [IdleCall EXCEPT !.op = "challenge", !.at = "delete", !.pair = p, !.to = "pair"])
    /\ UNCHANGED <<people, credentials, fresh, clock, adminLock, codesUsed>>

Same(ch, c) == ch.purpose = call[c].to /\ ch.user = call[c].who /\ ch.pair = call[c].pair

\* What was stored before and not used is deleted, ...
DropChallenges(c) ==
    /\ Is(c, "challenge", "delete") /\ Step(c, "insert")
    /\ challenges' = {ch \in challenges : ~(Same(ch, c) /\ ~ch.used)}
    /\ UNCHANGED <<people, fresh, clock, invites, pairs, unpaired, passkey, setupCode, bootstrapped, adminLock, codesUsed>>

\* ... and the new one inserted, unless its pair is gone.
StoreChallenge(c) ==
    /\ Is(c, "challenge", "insert") /\ Done(c)
    /\ IF call[c].pair # NoPair /\ pairs[call[c].pair] = NoPerson THEN UNCHANGED <<challenges, fresh>>
       ELSE /\ challenges' = challenges \union {[id |-> fresh, purpose |-> call[c].to, user |-> call[c].who,
                                                 pair |-> call[c].pair, used |-> FALSE]}
            /\ fresh' = fresh + 1
    /\ UNCHANGED <<people, clock, invites, pairs, unpaired, passkey, setupCode, bootstrapped, adminLock, codesUsed>>

\* The latest challenge of a kind.
Latest(S) == {ch \in S : \A other \in S : other.id <= ch.id}

\* Mutant of Taken: the challenge is read and stays.
TakenStays(ch) == challenges

Taken(ch) == challenges \ {ch}

\* `finish_register`, `finish_assertion` for a sign-in or a step-up: the answer is to
\* challenge n; an assertion carries the authenticator's counter.
AskRegister(c, s, n) ==
    /\ Active(s) /\ AskFor(c, [Own(s, "register", "take") EXCEPT !.to = "register", !.n = n])
    /\ UNCHANGED <<people, credentials, fresh, clock, adminLock, codesUsed>>

AskAssert(c, r) ==
    /\ passkey[r.who].here /\ AskFor(c, r)
    /\ passkey' = [passkey EXCEPT ![r.who].device = @ + 1]
    /\ UNCHANGED <<people, invites, pairs, unpaired, challenges, setupCode, bootstrapped, fresh, clock, adminLock,
                   codesUsed>>

LoginByPasskey(c, u, n) ==
    AskAssert(c, [IdleCall EXCEPT !.op = "passkey", !.at = "take", !.who = u, !.to = "login", !.n = n,
                                !.seen = {passkey[u].device + 1}, !.creds = CredsOf(u, 0, NoPair)])

StepUpByPasskey(c, s, n) ==
    /\ Active(s)
    /\ AskAssert(c, [Own(s, "passkey", "take") EXCEPT !.to = "step_up", !.n = n, !.creds = NoCreds,
                         !.seen = {passkey[signIns[s].user].device + 1}])

\* `_take_challenge` takes the latest whatever the answer is to; then the answer is verified
\* against the credential's row.
TakeChallenge(c) ==
    /\ call[c].at = "take"
    /\ LET u    == call[c].who
           mine == {ch \in challenges : Same(ch, c)}
       IN \/ /\ mine = {} /\ Done(c) /\ UNCHANGED <<challenges, codesUsed>>
          \/ \E ch \in Latest(mine) :
                /\ challenges' = Taken(ch)
                /\ IF /\ ch.id = call[c].n
                      /\ call[c].op = "passkey" => /\ passkey[u].here
                                                   /\ \A k \in call[c].seen : k > passkey[u].count
                   THEN Accept(<<"challenge", ch.id>>) /\ Step(c, "count")
                   ELSE Done(c) /\ UNCHANGED codesUsed
    /\ UNCHANGED <<people, fresh, clock, invites, pairs, unpaired, passkey, setupCode, bootstrapped, adminLock>>

RegisterPasskey(c) ==
    /\ Is(c, "register", "count") /\ Done(c)
    /\ passkey' = [passkey EXCEPT ![call[c].who].here = TRUE]
    /\ UNCHANGED <<people, fresh, clock, invites, pairs, unpaired, challenges, setupCode, bootstrapped, adminLock,
                   codesUsed>>

\* `sign_count <= %s` of the UPDATE.
NotBehind(u, k) == passkey[u].count <= k

\* The counter is recorded, unless a later one is or the passkey was deleted.
CountAssertion(c) ==
    /\ Is(c, "passkey", "count")
    /\ LET u == call[c].who
       IN \E k \in call[c].seen :
            IF passkey[u].here /\ NotBehind(u, k)
            THEN /\ passkey' = [passkey EXCEPT ![u].count = k]
                 /\ call' = [call EXCEPT ![c].at = IF call[c].to = "login" THEN "code" ELSE "write",
                                         ![c].op = IF call[c].to = "login" THEN "login" ELSE "step_up"]
                 /\ UNCHANGED bounds
            ELSE Done(c) /\ UNCHANGED passkey
    /\ UNCHANGED <<people, fresh, clock, invites, pairs, unpaired, challenges, setupCode, bootstrapped, adminLock,
                   codesUsed>>

DeletePasskey(s) ==
    /\ Active(s) /\ passkey[signIns[s].user].here
    /\ passkey' = [passkey EXCEPT ![signIns[s].user].here = FALSE]
    /\ Takes("passkey")
    /\ UNCHANGED <<people, fresh, clock, invites, pairs, unpaired, challenges, setupCode, bootstrapped, adminLock,
                   call, codesUsed>>

-----------------------------------------------------------------------------
(* Host apps: pairing, signing in with a pair, revoking it.                *)

Used(ch) == (challenges \ {ch}) \union {[ch EXCEPT !.used = TRUE]}

\* `finish_enroll`, one transaction on the enroll token's row.
PairApp(p, n) ==
    /\ pairs[p] = NoPerson /\ p \notin unpaired
    /\ \E ch \in challenges :
         /\ ch.id = n /\ ch.purpose = "enroll" /\ ~ch.used
         /\ pairs' = [pairs EXCEPT ![p] = ch.user]
         /\ challenges' = Used(ch) /\ Accept(<<"challenge", n>>)
    /\ Takes("pair")
    /\ UNCHANGED <<people, fresh, clock, invites, unpaired, passkey, setupCode, bootstrapped, adminLock, call>>

\* `finish_login`, one transaction on the pair's row and its latest challenge's.
LoginByPair(c, p, n) ==
    /\ pairs[p] # NoPerson /\ "pair" \in mix
    /\ \E ch \in Latest({x \in challenges : x.purpose = "pair" /\ x.pair = p}) :
         /\ ch.id = n /\ ~ch.used
         /\ challenges' = Used(ch) /\ Accept(<<"challenge", n>>)
    /\ AskFor(c, [IdleCall EXCEPT !.op = "login", !.at = "code", !.who = pairs[p],
                             !.creds = CredsOf(pairs[p], 0, p)])
    /\ UNCHANGED <<people, fresh, clock, invites, pairs, unpaired, passkey, setupCode, bootstrapped, adminLock>>

AskUnpair(c, s, p) ==
    /\ Active(s) /\ AskFor(c, [Own(s, "unpair", "untag") EXCEPT !.pair = p])
    /\ UNCHANGED <<people, credentials, fresh, clock, adminLock, codesUsed>>

Tagged(p) == {s \in DOMAIN signIns : signIns[s].pair = p}

\* `revoke_pair`: the UPDATE finds the sessions there are, ...
FindTagged(c) ==
    /\ Is(c, "unpair", "untag")
    /\ IF pairs[call[c].pair] = call[c].who
       THEN /\ call' = [call EXCEPT ![c].at = "remove", ![c].seen = Tagged(call[c].pair)]
            /\ UNCHANGED bounds
       ELSE Done(c)
    /\ UNCHANGED <<people, credentials, fresh, clock, adminLock, codesUsed>>

\* ... the DELETE removes the pair and its challenges and untags what has been inserted
\* since; then both are committed.
RevokePair(c) ==
    /\ Is(c, "unpair", "remove") /\ Done(c)
    /\ LET p == call[c].pair
       IN /\ signIns' = [s \in DOMAIN signIns |->
                           [signIns[s] EXCEPT !.live = @ /\ s \notin call[c].seen,
                                              !.pair = IF @ = p THEN NoPair ELSE @]]
          /\ pairs' = [pairs EXCEPT ![p] = NoPerson] /\ unpaired' = unpaired \union {p}
          /\ challenges' = {ch \in challenges : ch.pair # p}
    /\ UNCHANGED <<account, totp, invites, passkey, setupCode, bootstrapped, fresh, clock, adminLock, codesUsed>>

-----------------------------------------------------------------------------
(* What admins change, and the server.                                     *)

AskPatch(c, s, u, to) ==
    /\ AdminActive(s) /\ account[u].is # "none"
    /\ AskFor(c, [Own(s, "patch", "verify") EXCEPT !.target = u, !.to = to])
    /\ UNCHANGED <<people, credentials, fresh, clock, adminLock, codesUsed>>

\* Mutant of AdminLockFree: the rows are read without the advisory lock.
AdminLockIgnored == TRUE

AdminLockFree == adminLock = NoPerson

Admins == {u \in Persons : account[u].is = "on" /\ account[u].admin}

\* `update_user`: under the lock, the user's row is read and the other admins counted.
LockAdmins(c) ==
    /\ Is(c, "patch", "verify") /\ AdminLockFree
    /\ IF call[c].to \in {"member", "disable"} /\ Admins = {call[c].target}
       THEN Done(c) /\ UNCHANGED adminLock
       ELSE adminLock' = c /\ Step(c, "locked")
    /\ UNCHANGED <<people, credentials, fresh, clock, codesUsed>>

\* The row is written; disabling revokes the user's sessions.
PatchUser(c) ==
    /\ Is(c, "patch", "locked") /\ adminLock' = NoPerson /\ Done(c)
    /\ LET u  == call[c].target
           to == call[c].to
       IN /\ account' = [account EXCEPT ![u].admin = IF to \in {"admin", "member"} THEN to = "admin" ELSE @,
                                        ![u].is = CASE to = "disable" -> "disabled"
                                                    [] to = "enable" -> "on" [] OTHER -> @]
          /\ signIns' = IF account'[u].is = "disabled" THEN Revoked(u, 0) ELSE signIns
    /\ UNCHANGED <<totp, credentials, fresh, clock, codesUsed>>

\* The server restarts: requests are gone, the setup code is there unless setup is complete.
AccountsRestart ==
    /\ Takes("restart") /\ \E c \in Callers : call[c].at # "idle"
    /\ call' = [c \in Callers |-> IdleCall] /\ adminLock' = NoPerson
    /\ setupCode' = (bootstrapped = NoPerson)
    /\ UNCHANGED <<people, invites, pairs, unpaired, passkey, challenges, bootstrapped, fresh, clock, codesUsed>>

-----------------------------------------------------------------------------
(* The specification.                                                      *)

NewComer(c, u) ==
    \/ Setup(c, u) \/ Login(c, u) \/ AskLoginChallenge(c, u)
    \/ \E n \in DOMAIN invites : AskAccept(c, u, n)
    \/ \E ch \in challenges : LoginByPasskey(c, u, ch.id)

SignedIn(c, s) ==
    \/ AskPassword(c, s) \/ AskStepUp(c, s) \/ AskInvite(c, s)
    \/ \E t \in DOMAIN signIns : AskSignOut(c, s, t)
    \/ \E op \in {"totp_enroll", "totp_confirm", "totp_disable"} : AskTotp(c, s, op)
    \/ \E purpose \in {"register", "step_up", "enroll"} : AskChallenge(c, s, purpose)
    \/ \E ch \in challenges : AskRegister(c, s, ch.id) \/ StepUpByPasskey(c, s, ch.id)
    \/ \E p \in Pairs : AskUnpair(c, s, p)
    \/ \E n \in DOMAIN invites : AskUninvite(c, s, n)
    \/ \E u \in Persons, to \in {"admin", "member", "disable", "enable"} : AskPatch(c, s, u, to)

AccountStep(c) ==
    \/ CompleteSetup(c) \/ CloseSetup(c) \/ CreateInvite(c) \/ RevokeInvite(c) \/ AcceptInvite(c)
    \/ Code(c) \/ Mint(c) \/ SetPassword(c) \/ SignOut(c) \/ StepUp(c)
    \/ ReadTotp(c) \/ EnrollTotp(c) \/ ConfirmTotp(c) \/ DisableTotp(c)
    \/ DropChallenges(c) \/ StoreChallenge(c) \/ TakeChallenge(c) \/ RegisterPasskey(c)
    \/ CountAssertion(c) \/ FindTagged(c) \/ RevokePair(c) \/ LockAdmins(c) \/ PatchUser(c)

Free == {c \in Callers : call[c].at = "idle" /\ callsLeft > 0}

AccountsNext ==
    \/ \E c \in Callers : AccountStep(c)
    \/ \E c \in Free, u \in Persons : NewComer(c, u)
    \/ \E c \in Free, s \in {t \in DOMAIN signIns : Active(t)} : SignedIn(c, s)
    \/ \E c \in Free, p \in Pairs : AskPairChallenge(c, p) \/ \E ch \in challenges : LoginByPair(c, p, ch.id)
    \/ \E p \in Pairs, ch \in challenges : PairApp(p, ch.id)
    \/ \E s \in DOMAIN signIns : StepDown(s) \/ DeletePasskey(s)
    \/ Tick \/ AccountsRestart

AccountsSpec == AccountsInit /\ [][AccountsNext]_accountVars

-----------------------------------------------------------------------------
(* Properties.                                                             *)

\* "Never leaves zero enabled admins": once the platform is set up there is one, however
\* admins demote and disable each other.
AdminLeft == bootstrapped # NoPerson => Admins # {}

\* With the types: whom sessions, invites and pairs are of.
AccountsAreKept == AccountsTypeOK /\ AdminLeft

\* What is good for one use is used once, however requests overlap: a TOTP code for one
\* sign-in (and the code that confirmed the enrollment for none), as long as TOTP is not turned
\* off or confirmed anew, a challenge for one passkey, pair or enrollment, an invite for one
\* user and for none once it is revoked, the setup code for one admin.
SingleUse ==
    /\ respent = {}
    /\ \A u, v \in Persons : account[u].invite # 0 /\ account[u].invite = account[v].invite => u = v
    /\ \A u \in Persons : account[u].invite # 0 => invites[account[u].invite] = "used"
    /\ Cardinality({u \in Persons : account[u].invite = 0 /\ account[u].is # "none"}) <= 1

\* Whoever is signed in is enabled, with the password in force or a change of it behind them,
\* or through a pair that is still there; but for a sign-in that had read the credentials
\* before they changed and inserted its session after.
SignedInIsCurrent ==
    \A s \in DOMAIN signIns : signIns[s].live /\ ~signIns[s].late =>
        /\ account[signIns[s].user].is = "on"
        /\ signIns[s].pw \in {0, account[signIns[s].user].pw}
        /\ signIns[s].by # NoPair => pairs[signIns[s].by] = signIns[s].user
===============================================================================
