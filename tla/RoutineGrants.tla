--------------------------- MODULE RoutineGrants ---------------------------
(* How a routine and its grant are kept together: the grant is a row of the *)
(* platform (core/routine_grants.py), the routine a row of agent-server that *)
(* holds its secret.  Saving (routines/service.py, from the app's pages and *)
(* the agent's tools), the lazy delivery of built-in routines               *)
(* (routines/delivered.py) and the scheduler's use of the grant each change *)
(* both, in several calls, with nothing in common but the rows.             *)
(*                                                                          *)
(* Routines do not touch each other's rows: a behaviour is about one        *)
(* routine, whose kind is "recurring", "once" or "copy" (a delivered one).  *)
EXTENDS Naturals, FiniteSets

CONSTANTS
    Kinds,           \* of "recurring", "once", "copy"
    Savers,          \* requests and agents' calls that save, at once
    MaxSaves,        \* bound: creations, updates and deletions
    MaxGrantFaults   \* bound: calls that fail, grants that die, rights lost, restarts

ASSUME GrantsAssumption ==
    /\ Kinds \subseteq {"recurring", "once", "copy"} /\ IsFiniteSet(Savers)
    /\ {MaxSaves, MaxGrantFaults} \subseteq Nat

Places == {"personal", "shared"}

VARIABLES
    kind,
    saved,      \* the row of `routines`; grant 0: none; due: next_run_at is set
    live,       \* the platform's active grant for the routine, its space; id 0: none
    mayEdit,    \* the owner may edit the shared space
    saver,      \* what each request has read and is about to do
    copiesDone, \* DeliveredRoutines._done
    runner,     \* the scheduler's worker and its run
    stray,      \* history variable: something was lost that nothing looks for
    grantsLeft  \* the bounds

grantVars == <<kind, saved, live, mayEdit, saver, copiesDone, runner, stray, grantsLeft>>

NotSaved == [there |-> FALSE, on |-> FALSE, space |-> "personal", grant |-> 0, due |-> FALSE]
NoGrant  == [id |-> 0, space |-> "personal"]
Keep     == [on |-> "keep", space |-> "keep", time |-> FALSE]
NoSave   == [at |-> "idle", op |-> "none", ch |-> Keep, cur |-> NotSaved, grant |-> 0, made |-> FALSE]
NoJob    == [at |-> "idle", cur |-> NotSaved]

\* Enough for a new grant to differ from every one that a row or a task still holds.
GrantIds == 0 .. 2 * Cardinality(Savers) + 4
Row      == [there : BOOLEAN, on : BOOLEAN, space : Places, grant : GrantIds, due : BOOLEAN]

GrantsTypeOK ==
    /\ kind \in Kinds /\ saved \in Row /\ live \in [id : GrantIds, space : Places]
    /\ mayEdit \in BOOLEAN /\ copiesDone \in BOOLEAN /\ stray \in BOOLEAN
    /\ saver \in [Savers -> [at : {"idle", "space", "insert", "issue", "revoke", "write", "undo", "delete", "lock", "list", "done"},
                             op : {"none", "create", "update", "delete", "ensure"},
                             ch : [on : {"keep", "on", "off"}, space : Places \union {"keep"}, time : BOOLEAN],
                             cur : Row, grant : GrantIds, made : BOOLEAN]]
    /\ runner \in [at : {"idle", "read", "exchange", "refuse", "forget", "run", "retire", "drop", "clear"}, cur : Row]
    /\ grantsLeft \in [saves : 0 .. MaxSaves, faults : 0 .. MaxGrantFaults]

GrantsInit ==
    /\ kind \in Kinds /\ saved = NotSaved /\ live = NoGrant /\ mayEdit = TRUE
    /\ saver = [s \in Savers |-> NoSave] /\ copiesDone = FALSE /\ runner = NoJob /\ stray = FALSE
    /\ grantsLeft = [saves |-> MaxSaves, faults |-> MaxGrantFaults]

At(s, step)  == saver[s].at = step /\ UNCHANGED <<kind, mayEdit, runner>>
To(s, step)  == saver' = [saver EXCEPT ![s].at = step]
Editable(p)  == p = "personal" \/ mayEdit
Spend(bound) == grantsLeft[bound] > 0 /\ grantsLeft' = [grantsLeft EXCEPT ![bound] = @ - 1]

\* A save's end; an `ensure` that failed is tried again on the user's next request.
Over(s)      == saver' = [saver EXCEPT ![s] = NoSave]

\* The row is not as it was read: what is written now may undo another's work.
Overtaken(cur) == saved # cur

-----------------------------------------------------------------------------
(* Requests.                                                               *)

Ask(s, op, ch, step) ==
    /\ saver[s].at = "idle" /\ Spend("saves")
    /\ saver' = [saver EXCEPT ![s] = [NoSave EXCEPT !.at = step, !.op = op, !.ch = ch, !.cur = saved]]
    /\ UNCHANGED <<kind, saved, live, mayEdit, copiesDone, runner, stray>>

\* create_routine: one request makes it.
AskCreate(s, p, on) ==
    /\ kind # "copy" /\ ~saved.there /\ \A x \in Savers : saver[x].op # "create"
    /\ grantsLeft.saves = MaxSaves
    /\ Ask(s, "create", [on |-> on, space |-> p, time |-> TRUE], "space")

\* check_changes: a delivered routine stays where it is.  A one-shot whose time is over is
\* switched on with a new one.
Changes ==
    {c \in [on : {"keep", "on", "off"}, space : Places \union {"keep"}, time : BOOLEAN] :
        /\ c # Keep /\ ~(c.time /\ c.space # "keep")
        /\ kind = "copy" => c.space = "keep"
        /\ kind = "once" /\ c.on = "on" /\ ~saved.due => c.time
        /\ c.on = "off" => ~c.time /\ c.space = "keep"}

Enabled(s) == IF saver[s].ch.on = "keep" THEN saver[s].cur.on ELSE saver[s].ch.on = "on"
Space(s)   == IF saver[s].ch.space = "keep" THEN saver[s].cur.space ELSE saver[s].ch.space

\* Mutant: a routine that moves keeps its grant.
GrantStepMoved(ch, cur) ==
    LET on    == IF ch.on = "keep" THEN cur.on ELSE ch.on = "on"
    IN IF on /\ (~cur.on \/ cur.grant = 0) THEN "issue"
       ELSE IF ~on /\ cur.grant # 0 THEN "revoke" ELSE "write"

\* `update`: the next step once the space has been checked.
GrantStep(ch, cur) ==
    LET on    == IF ch.on = "keep" THEN cur.on ELSE ch.on = "on"
        moves == ch.space \notin {"keep", cur.space}
    IN IF on /\ (~cur.on \/ moves \/ cur.grant = 0) THEN "issue"
       ELSE IF ~on /\ cur.grant # 0 THEN "revoke" ELSE "write"

\* update_routine, the page's or the agent's, which works on the row it reads now.
AskUpdate(s) ==
    /\ saved.there
    /\ \E ch \in Changes :
          Ask(s, "update", ch, IF ch.space = "keep" THEN GrantStep(ch, saved) ELSE "space")

AskDelete(s) ==
    /\ saved.there /\ kind # "copy"
    /\ Ask(s, "delete", Keep, IF saved.grant # 0 THEN "revoke" ELSE "delete")

\* editable_space; it may be refused, or the platform not be reached.
CheckSpace(s) ==
    /\ At(s, "space") /\ UNCHANGED <<saved, live, copiesDone, stray>>
    /\ \/ /\ Editable(saver[s].ch.space) /\ UNCHANGED grantsLeft
          /\ To(s, IF saver[s].op # "update" THEN "insert" ELSE GrantStep(saver[s].ch, saver[s].cur))
       \/ ~Editable(saver[s].ch.space) /\ UNCHANGED grantsLeft /\ Over(s)
       \/ Spend("faults") /\ Over(s)

\* `store.create`; a routine that is on goes on to its grant.
InsertRoutine(s) ==
    LET on  == Enabled(s)
        new == [there |-> TRUE, on |-> on, space |-> Space(s), grant |-> 0, due |-> on]
    IN
    /\ At(s, "insert") /\ saved' = new /\ UNCHANGED <<live, copiesDone, stray, grantsLeft>>
    /\ IF on
       THEN saver' = [saver EXCEPT ![s].at = "issue", ![s].cur = new, ![s].ch = Keep, ![s].made = TRUE]
       ELSE Over(s)

IssueFails(s) == IF saver[s].made THEN To(s, "undo") ELSE Over(s)

\* A fresh grant's id.
NewGrant ==
    CHOOSE id \in GrantIds \ {0} :
        /\ id \notin {saved.grant, live.id, runner.cur.grant}
        /\ \A x \in Savers : id \notin {saver[x].grant, saver[x].cur.grant}

\* `issue`: the routine's earlier grant goes for the new one, if the owner may edit the space;
\* or the platform is not reached, or its answer is lost.
IssueGrant(s) ==
    LET new == [id |-> NewGrant, space |-> Space(s)] IN
    /\ At(s, "issue") /\ UNCHANGED <<saved, copiesDone>>
    /\ \/ /\ Editable(Space(s)) /\ live' = new /\ UNCHANGED <<grantsLeft, stray>>
          /\ saver' = [saver EXCEPT ![s].at = "write", ![s].grant = new.id]
       \/ ~Editable(Space(s)) /\ IssueFails(s) /\ UNCHANGED <<live, grantsLeft, stray>>
       \/ Spend("faults") /\ IssueFails(s) /\ UNCHANGED <<live, stray>>
       \/ /\ Editable(Space(s)) /\ live' = new /\ Spend("faults")
          /\ IssueFails(s) /\ stray' = TRUE

\* Mutant: a routine whose grant was refused stays.
UndoNothing(s) ==
    /\ At(s, "undo") /\ Over(s) /\ UNCHANGED <<saved, live, copiesDone, stray, grantsLeft>>

\* `create` takes the routine back.
UndoCreate(s) ==
    /\ At(s, "undo") /\ saved' = NotSaved /\ Over(s)
    /\ stray' = (stray \/ Overtaken(saver[s].cur))
    /\ UNCHANGED <<live, copiesDone, grantsLeft>>

\* `revoke`, idempotent; the row is left as it was if there is no answer.
RevokeGrant(s) ==
    LET gone == IF live.id = saver[s].cur.grant THEN NoGrant ELSE live IN
    /\ At(s, "revoke") /\ UNCHANGED <<saved, copiesDone, stray>>
    /\ \/ /\ live' = gone /\ UNCHANGED grantsLeft
          /\ To(s, IF saver[s].op = "delete" THEN "delete" ELSE "write")
       \/ Spend("faults") /\ live' \in {live, gone} /\ Over(s)

\* Mutant: a routine that is switched off keeps the secret of its grant and its next time.
NewRowKept(s) == [saved EXCEPT !.on = IF saver[s].ch.on = "keep" THEN @ ELSE Enabled(s)]

\* The columns `update` names, the others as they are now.
NewRow(s) ==
    LET ch == saver[s].ch IN
    [saved EXCEPT !.on    = IF ch.on = "keep" THEN @ ELSE Enabled(s),
                  !.space = IF ch.space = "keep" THEN @ ELSE ch.space,
                  !.due   = IF ch.on # "keep" \/ ch.time THEN Enabled(s) ELSE @,
                  !.grant = IF saver[s].grant # 0 THEN saver[s].grant
                            ELSE IF ~Enabled(s) /\ saver[s].cur.grant # 0 THEN 0 ELSE @]

\* `store.update`; a row deleted meanwhile is not found (404).
WriteRow(s) ==
    /\ At(s, "write") /\ saved' = (IF saved.there THEN NewRow(s) ELSE saved)
    /\ stray' = (stray \/ Overtaken(saver[s].cur))
    /\ IF saver[s].op = "ensure" THEN To(s, "done") ELSE Over(s)
    /\ UNCHANGED <<live, copiesDone, grantsLeft>>

DeleteRow(s) ==
    /\ At(s, "delete") /\ saved' = NotSaved /\ Over(s)
    /\ stray' = (stray \/ Overtaken(saver[s].cur))
    /\ UNCHANGED <<live, copiesDone, grantsLeft>>

-----------------------------------------------------------------------------
(* Delivery: DeliveredRoutines.ensure, on a user's request.                *)

AskEnsure(s) ==
    /\ kind = "copy" /\ ~copiesDone /\ saver[s].at = "idle"
    /\ saver' = [saver EXCEPT ![s] = [NoSave EXCEPT !.at = "lock", !.op = "ensure"]]
    /\ UNCHANGED <<kind, saved, live, mayEdit, copiesDone, runner, stray, grantsLeft>>

\* Mutant: requests do not wait for each other.
EnsureFreeAlways(s) == TRUE

\* The user's lock.
EnsureFree(s) == \A x \in Savers \ {s} : saver[x].op = "ensure" => saver[x].at = "lock"

EnsureLock(s) ==
    /\ At(s, "lock") /\ EnsureFree(s)
    /\ IF copiesDone THEN Over(s) ELSE To(s, "list")
    /\ UNCHANGED <<saved, live, copiesDone, stray, grantsLeft>>

\* `_ensure`: a missing copy is created, one that is on without a grant gets one.
EnsureCopy(s) ==
    LET change == [Keep EXCEPT !.on = "on"] IN
    /\ At(s, "list") /\ UNCHANGED <<saved, live, copiesDone, stray>>
    /\ \/ /\ UNCHANGED grantsLeft
          /\ saver' = [saver EXCEPT
                ![s].cur = saved,
                ![s].ch  = IF saved.there THEN change ELSE [change EXCEPT !.space = "personal"],
                ![s].at  = IF ~saved.there THEN "space"
                           ELSE IF saved.on /\ saved.grant = 0 THEN "issue" ELSE "done"]
       \/ Spend("faults") /\ Over(s)

\* Every copy is there, and holds a grant if it was on.
EnsureEnds(s) ==
    /\ At(s, "done") /\ copiesDone' = TRUE /\ Over(s)
    /\ UNCHANGED <<saved, live, stray, grantsLeft>>

-----------------------------------------------------------------------------
(* The scheduler.                                                          *)

RunnerAt(step) == runner.at = step /\ UNCHANGED <<kind, mayEdit, saver>>
Job(step, cur) == runner' = [at |-> step, cur |-> cur]

\* claim_due: a one-shot is off from then on.
ClaimSaved ==
    /\ runner.at = "idle" /\ saved.there /\ saved.on /\ saved.due
    /\ saved' = (IF kind = "once" THEN [saved EXCEPT !.on = FALSE, !.due = FALSE] ELSE saved)
    /\ Job("read", saved) /\ UNCHANGED <<kind, live, mayEdit, saver, copiesDone, stray, grantsLeft>>

Ends == IF kind = "once" THEN "retire" ELSE "idle"

\* `_execute` reads the routine when its run's turn has come; it may be too late by then, and
\* a delivered routine off for everyone.
ReadSaved ==
    /\ RunnerAt("read") /\ UNCHANGED <<saved, live, copiesDone, stray, grantsLeft>>
    /\ \/ saved.there /\ (saved.on \/ kind = "once") /\ Job("exchange", saved)
       \/ saved.there /\ ~saved.on /\ kind # "once" /\ runner' = NoJob
       \/ ~saved.there /\ runner' = NoJob
       \/ saved.there /\ Spend("faults") /\ runner' = [NoJob EXCEPT !.at = Ends]

\* `exchange`, with the secret that was read: a grant that may no longer edit its space is
\* revoked for good.
ExchangeGrant ==
    LET grant == runner.cur.grant IN
    /\ RunnerAt("exchange") /\ UNCHANGED <<saved, copiesDone, stray>>
    /\ \/ grant # 0 /\ grant = live.id /\ Editable(live.space) /\ Job("run", runner.cur) /\ UNCHANGED <<live, grantsLeft>>
       \/ /\ grant # 0 /\ grant = live.id /\ ~Editable(live.space)
          /\ live' = NoGrant /\ Job("refuse", runner.cur) /\ UNCHANGED grantsLeft
       \/ (grant = 0 \/ grant # live.id) /\ Job("refuse", runner.cur) /\ UNCHANGED <<live, grantsLeft>>
       \/ grant # 0 /\ Spend("faults") /\ runner' = [NoJob EXCEPT !.at = Ends] /\ UNCHANGED live

\* grant_delegation: switched off; a delivered one stays on, without a grant.
RefuseRun ==
    /\ RunnerAt("refuse") /\ UNCHANGED <<live, copiesDone, grantsLeft>>
    /\ saved' = IF ~saved.there \/ (kind = "copy" /\ runner.cur.grant = 0) THEN saved
                ELSE IF kind = "copy" THEN [saved EXCEPT !.grant = 0]
                ELSE [saved EXCEPT !.on = FALSE, !.due = FALSE, !.grant = 0]
    /\ stray' = (stray \/ (saved # saved' /\ Overtaken(runner.cur)))
    /\ runner' = [NoJob EXCEPT !.at = IF kind = "copy" THEN "forget" ELSE Ends]

\* Mutant: the user is not checked again.
RememberUser == RunnerAt("forget") /\ runner' = NoJob /\ UNCHANGED <<saved, live, copiesDone, stray, grantsLeft>>

\* DeliveredRoutines.forget.
ForgetUser ==
    /\ RunnerAt("forget") /\ copiesDone' = FALSE /\ runner' = NoJob
    /\ UNCHANGED <<saved, live, stray, grantsLeft>>

\* The run is over.
RunEnds == RunnerAt("run") /\ runner' = [NoJob EXCEPT !.at = Ends] /\ UNCHANGED <<saved, live, copiesDone, stray, grantsLeft>>

\* `_retire_if_once`: a read, a call, which may fail, and a write.
RetireReads ==
    /\ RunnerAt("retire") /\ UNCHANGED <<saved, live, copiesDone, stray, grantsLeft>>
    /\ IF saved.there /\ ~saved.on /\ saved.grant # 0 THEN Job("drop", saved) ELSE runner' = NoJob

RetireRevokes ==
    LET gone == IF live.id = runner.cur.grant THEN NoGrant ELSE live IN
    /\ RunnerAt("drop") /\ UNCHANGED <<saved, copiesDone>>
    /\ \/ live' = gone /\ Job("clear", runner.cur) /\ UNCHANGED <<grantsLeft, stray>>
       \/ Spend("faults") /\ live' \in {live, gone} /\ runner' = NoJob /\ stray' = TRUE

RetireWrites ==
    /\ RunnerAt("clear") /\ saved' = (IF saved.there THEN [saved EXCEPT !.grant = 0] ELSE saved)
    /\ stray' = (stray \/ Overtaken(runner.cur)) /\ runner' = NoJob
    /\ UNCHANGED <<live, copiesDone, grantsLeft>>

-----------------------------------------------------------------------------
(* The rest of the world.                                                  *)

\* A role on the shared space is taken or given back.
RightsChange ==
    /\ Spend("faults") /\ mayEdit' = ~mayEdit
    /\ UNCHANGED <<kind, saved, live, saver, copiesDone, runner, stray>>

\* A password change, sign-out everywhere, or a revocation in Settings.
GrantEnds ==
    /\ live.id # 0 /\ Spend("faults") /\ live' = NoGrant
    /\ UNCHANGED <<kind, saved, mayEdit, saver, copiesDone, runner, stray>>

\* agent-server restarts: what was half done stays so.
GrantsRestart ==
    /\ Spend("faults") /\ saver' = [s \in Savers |-> NoSave] /\ runner' = NoJob /\ copiesDone' = FALSE
    /\ stray' = (\/ stray
                 \/ kind = "once" /\ runner.at # "idle"
                 \/ \E s \in Savers : saver[s].at \in {"issue", "undo", "write"})
    /\ UNCHANGED <<kind, saved, live, mayEdit>>

-----------------------------------------------------------------------------
(* The specification.                                                      *)

SaverAsks(s) == AskUpdate(s) \/ AskDelete(s) \/ \E p \in Places, on \in {"on", "off"} : AskCreate(s, p, on)

SaverStep(s) ==
    \/ CheckSpace(s) \/ InsertRoutine(s) \/ IssueGrant(s) \/ UndoCreate(s) \/ RevokeGrant(s)
    \/ WriteRow(s) \/ DeleteRow(s) \/ EnsureLock(s) \/ EnsureCopy(s) \/ EnsureEnds(s)

RunnerStep ==
    \/ ClaimSaved \/ ReadSaved \/ ExchangeGrant \/ RefuseRun \/ ForgetUser \/ RunEnds
    \/ RetireReads \/ RetireRevokes \/ RetireWrites

GrantsNext ==
    \/ \E s \in Savers : SaverAsks(s) \/ SaverStep(s) \/ AskEnsure(s)
    \/ RunnerStep
    \/ RightsChange \/ GrantEnds \/ GrantsRestart

GrantsSpec == GrantsInit /\ [][GrantsNext]_grantVars

(* Calls end, the scheduler goes on, and the user comes back.              *)
GrantsFairness ==
    /\ \A s \in Savers : WF_grantVars(SaverStep(s))
    /\ WF_grantVars(\E s \in Savers : AskEnsure(s))
    /\ WF_grantVars(RunnerStep)

-----------------------------------------------------------------------------
(* Properties.                                                             *)

\* "An enabled routine holds a platform routine grant, revoked when it's disabled or deleted":
\* with nothing under way, a live grant is the one its routine holds, for the space it is in,
\* and the routine is on; one that is on holds a grant, live or not.  Unless an answer of the
\* platform was lost, agent-server stopped in between, or a row had changed between a save's
\* read and its write: nothing looks for what those leave.
GrantsAreHeld ==
    (\A s \in Savers : saver[s].at = "idle") /\ runner.at = "idle" /\ ~stray =>
        /\ live.id # 0 => saved.there /\ saved.on /\ saved.grant = live.id /\ saved.space = live.space
        /\ saved.there /\ saved.on /\ saved.grant = 0 => kind = "copy"

\* A routine that is on and cannot run, whatever led to that, does not stay so: its next run
\* switches it off, or gets a delivered one a new grant when its user is there next.
Powerless == saved.there /\ saved.on /\ saved.due /\ (saved.grant = 0 \/ saved.grant # live.id)

OnIsGranted == Powerless ~> ~Powerless
=============================================================================
