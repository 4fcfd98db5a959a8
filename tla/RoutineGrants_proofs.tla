-------------------------- MODULE RoutineGrants_proofs --------------------------
(***************************************************************************)
(* Proofs about RoutineGrants and ToolCalls, for any number of requests    *)
(* and calls at once and any bounds: their type invariants, that with      *)
(* nothing under way a live grant is its routine's and a routine that is   *)
(* on has one, and that a tool call runs only as the user or the settings  *)
(* decided.                                                                *)
(***************************************************************************)
EXTENDS RoutineGrants, ToolCalls, FiniteSetTheorems, TLAPS

Making(s) == saver[s].op \in {"create", "ensure"} /\ saver[s].at # "lock"

\* What a request has read of the routine has no live grant, or none that stays.
Replaced(cur) == cur.grant = 0 \/ live.id # cur.grant

\* The creation of a routine, and the delivery of a copy, go on alone.
OneMaker ==
    /\ \A s, x \in Savers : Making(s) /\ Making(x) => s = x
    /\ \A s \in Savers : /\ saver[s].op = "create" => kind # "copy"
                         /\ saver[s].op = "ensure" => kind = "copy"

\* What a request knows at each of its calls.
Saving(s) ==
    LET r == saver[s] IN
    /\ r.grant # 0 => r.at \in {"write", "done"}
    /\ r.made => r.at \in {"issue", "write", "undo", "done"} /\ r.cur.there /\ r.cur.grant = 0
    /\ r.at = "idle" => r.op = "none"
    /\ r.at = "space" => r.op \in {"create", "update", "ensure"} /\ (r.op = "update" => r.cur.there)
    /\ r.at \in {"lock", "list"} => r.op = "ensure"
    /\ r.at = "insert" => r.op \in {"create", "ensure"}
    /\ r.at \in {"space", "insert"} /\ Making(s) => ~saved.there
    /\ r.at = "issue" => Enabled(s) /\ r.cur.there
    /\ r.at = "revoke" => r.op = "delete" \/ (r.op = "update" /\ ~Enabled(s))
    /\ r.at = "undo" => r.made
    /\ r.at = "delete" => Replaced(r.cur)
    /\ r.at = "write" =>
         \/ r.grant # 0 /\ r.cur.there /\ Enabled(s) /\ Replaced(r.cur)
              /\ (live.id = r.grant => live.space = Space(s))
         \/ r.grant = 0 /\ Enabled(s) /\ r.cur.on /\ r.cur.grant # 0 /\ Space(s) = r.cur.space
         \/ r.grant = 0 /\ ~Enabled(s) /\ Replaced(r.cur)

\* What the scheduler knows at each of its.
Using ==
    /\ runner.at \in {"refuse", "clear"} => Replaced(runner.cur)
    /\ runner.at \in {"drop", "clear"} => ~runner.cur.on
    /\ runner.at = "forget" => kind = "copy"

\* A live grant is its routine's, or will be when a request writes, or waits to be dropped
\* with the run of a one-shot.
Held == saved.there /\ saved.on /\ saved.grant = live.id /\ saved.space = live.space
ToHold == \E s \in Savers : saver[s].at = "write" /\ saver[s].grant = live.id
ToDrop ==
    /\ kind = "once" /\ saved.there /\ ~saved.on /\ saved.grant = live.id
    /\ runner.at \notin {"idle", "clear"} /\ (runner.at = "drop" => runner.cur = saved)

HeldInv == ~stray /\ live.id # 0 => Held \/ ToHold \/ ToDrop

\* A routine that is on without a grant is a copy, or being created.
GrantedInv ==
    ~stray /\ saved.there /\ saved.on /\ saved.grant = 0 /\ kind # "copy" =>
        \E s \in Savers : saver[s].made /\ saver[s].at \in {"issue", "write", "undo"}

GrantInv == /\ GrantsTypeOK /\ OneMaker /\ Using /\ HeldInv /\ GrantedInv
            /\ \A s \in Savers : Saving(s)
SaveSteps == {"idle", "space", "insert", "issue", "revoke", "write", "undo", "delete", "lock", "list", "done"}
JobSteps  == {"idle", "read", "exchange", "refuse", "forget", "run", "retire", "drop", "clear"}
SaveOps   == {"none", "create", "update", "delete", "ensure"}
Asked     == [on : {"keep", "on", "off"}, space : Places \union {"keep"}, time : BOOLEAN]
Saves     == [at : SaveSteps, op : SaveOps, ch : Asked, cur : Row, grant : GrantIds, made : BOOLEAN]
Jobs      == [at : JobSteps, cur : Row]
Grants    == [id : GrantIds, space : Places]
Bounds    == [saves : 0 .. MaxSaves, faults : 0 .. MaxGrantFaults]

-----------------------------------------------------------------------------
(* The type invariant.                                                     *)

\* GrantsTypeOK by its named sets.
LEMMA GrantsTypes ==
    GrantsTypeOK <=> /\ kind \in Kinds /\ saved \in Row /\ live \in Grants
                     /\ mayEdit \in BOOLEAN /\ copiesDone \in BOOLEAN /\ stray \in BOOLEAN
                     /\ saver \in [Savers -> Saves] /\ runner \in Jobs /\ grantsLeft \in Bounds
BY DEF GrantsTypeOK, Grants, Saves, SaveSteps, SaveOps, Asked, Jobs, JobSteps, Bounds

LEMMA GrantsTypesNext ==
    GrantsTypeOK' <=> /\ kind' \in Kinds /\ saved' \in Row /\ live' \in Grants
                      /\ mayEdit' \in BOOLEAN /\ copiesDone' \in BOOLEAN /\ stray' \in BOOLEAN
                      /\ saver' \in [Savers -> Saves] /\ runner' \in Jobs /\ grantsLeft' \in Bounds
BY DEF GrantsTypeOK, Grants, Saves, SaveSteps, SaveOps, Asked, Jobs, JobSteps, Bounds

LEMMA SaversCount == Cardinality(Savers) \in Nat /\ 0 \in GrantIds
<1>1. Cardinality(Savers) \in Nat
  BY FS_CardinalityType, GrantsAssumption
<1> QED  BY <1>1 DEF GrantIds

LEMMA RestingTypes ==
    /\ NotSaved \in Row /\ NoGrant \in Grants /\ Keep \in Asked /\ NoSave \in Saves /\ NoJob \in Jobs
<1>1. NotSaved \in Row /\ NoGrant \in Grants /\ Keep \in Asked
  BY SaversCount DEF NotSaved, Row, NoGrant, Grants, Keep, Asked, Places
<1>2. NoSave \in Saves
  BY <1>1, SaversCount DEF NoSave, Saves, SaveSteps, SaveOps
<1> QED  BY <1>1, <1>2 DEF NoJob, Jobs, JobSteps

\* There are more grants than rows and requests hold, so that a new one is one of its own.
LEMMA FreshGrant ==
    ASSUME GrantsTypeOK
    PROVE  /\ NewGrant \in GrantIds \ {0}
           /\ NewGrant \notin {saved.grant, live.id, runner.cur.grant}
           /\ \A x \in Savers : NewGrant \notin {saver[x].grant, saver[x].cur.grant}
<1> DEFINE Held1 == {saver[x].grant : x \in Savers}
           Held2 == {saver[x].cur.grant : x \in Savers}
           Few   == {saved.grant, live.id, runner.cur.grant}
           n     == Cardinality(Savers)
           All   == 1 .. 2 * n + 4
<1>1. n \in Nat /\ IsFiniteSet(Savers)
  BY SaversCount, GrantsAssumption
<1>2. IsFiniteSet(Held1) /\ Cardinality(Held1) <= n /\ Cardinality(Held1) \in Nat
  <2> DEFINE f == [x \in Savers |-> saver[x].grant]
  <2>1. f \in Surjection(Savers, Held1)
    BY DEF Surjection
  <2> HIDE DEF f, Held1
  <2>2. IsFiniteSet(Held1) /\ Cardinality(Held1) <= n
    BY <1>1, <2>1, FS_Surjection
  <2> QED  BY <2>2, FS_CardinalityType
<1>3. IsFiniteSet(Held2) /\ Cardinality(Held2) <= n /\ Cardinality(Held2) \in Nat
  <2> DEFINE f == [x \in Savers |-> saver[x].cur.grant]
  <2>1. f \in Surjection(Savers, Held2)
    BY DEF Surjection
  <2> HIDE DEF f, Held2
  <2>2. IsFiniteSet(Held2) /\ Cardinality(Held2) <= n
    BY <1>1, <2>1, FS_Surjection
  <2> QED  BY <2>2, FS_CardinalityType
<1>4. IsFiniteSet(Few) /\ Cardinality(Few) <= 3 /\ Cardinality(Few) \in Nat
  <2>1. IsFiniteSet({}) /\ Cardinality({}) = 0
    BY FS_EmptySet
  <2>2. IsFiniteSet({saved.grant}) /\ Cardinality({saved.grant}) = 1
    BY FS_Singleton
  <2>3. IsFiniteSet({saved.grant} \union {live.id}) /\ Cardinality({saved.grant} \union {live.id}) <= 2
    <3>1. Cardinality({saved.grant} \union {live.id})
            = IF live.id \in {saved.grant} THEN Cardinality({saved.grant}) ELSE Cardinality({saved.grant}) + 1
      BY <2>2, FS_AddElement
    <3>2. IsFiniteSet({saved.grant} \union {live.id})
      BY <2>2, FS_AddElement
    <3> QED  BY <2>2, <3>1, <3>2
  <2>4. /\ IsFiniteSet(({saved.grant} \union {live.id}) \union {runner.cur.grant})
        /\ Cardinality(({saved.grant} \union {live.id}) \union {runner.cur.grant}) <= 3
    <3> DEFINE two == {saved.grant} \union {live.id}
    <3> HIDE DEF two
    <3>1. IsFiniteSet(two) /\ Cardinality(two) \in Nat /\ Cardinality(two) <= 2
      BY <2>3, FS_CardinalityType DEF two
    <3>2. /\ IsFiniteSet(two \union {runner.cur.grant})
          /\ Cardinality(two \union {runner.cur.grant})
               = IF runner.cur.grant \in two THEN Cardinality(two) ELSE Cardinality(two) + 1
      BY <3>1, FS_AddElement
    <3> QED  BY <3>1, <3>2 DEF two
  <2>5. ({saved.grant} \union {live.id}) \union {runner.cur.grant} = Few
    OBVIOUS
  <2> QED  BY <2>4, <2>5, FS_CardinalityType
<1>5. IsFiniteSet(All) /\ Cardinality(All) = 2 * n + 4
  <2>1. 2 * n + 4 \in Int /\ 1 \in Int /\ 1 <= 2 * n + 4
    BY <1>1
  <2> QED  BY <1>1, <2>1, FS_Interval
<1>6. PICK id \in All : id \notin Held1 /\ id \notin Held2 /\ id \notin Few
  <2> HIDE DEF Held1, Held2, Few, All, n
  <2>1. /\ IsFiniteSet(Held1 \union Held2)
        /\ Cardinality(Held1 \union Held2) \in Nat
        /\ Cardinality(Held1 \union Held2) <= 2 * n
    <3>1. /\ IsFiniteSet(Held1 \union Held2) /\ IsFiniteSet(Held1 \intersect Held2)
          /\ Cardinality(Held1 \union Held2)
               = Cardinality(Held1) + Cardinality(Held2) - Cardinality(Held1 \intersect Held2)
      BY <1>2, <1>3, FS_Union, FS_Intersection
    <3>2. Cardinality(Held1 \intersect Held2) \in Nat
      BY <3>1, FS_CardinalityType
    <3> QED  BY <1>1, <1>2, <1>3, <3>1, <3>2, FS_CardinalityType
  <2>2. /\ IsFiniteSet((Held1 \union Held2) \union Few)
        /\ Cardinality((Held1 \union Held2) \union Few) \in Nat
        /\ Cardinality((Held1 \union Held2) \union Few) <= 2 * n + 3
    <3>1. /\ IsFiniteSet((Held1 \union Held2) \union Few) /\ IsFiniteSet((Held1 \union Held2) \intersect Few)
          /\ Cardinality((Held1 \union Held2) \union Few)
               = Cardinality(Held1 \union Held2) + Cardinality(Few)
                   - Cardinality((Held1 \union Held2) \intersect Few)
      BY <1>4, <2>1, FS_Union, FS_Intersection
    <3>2. Cardinality((Held1 \union Held2) \intersect Few) \in Nat
      BY <3>1, FS_CardinalityType
    <3> QED  BY <1>1, <1>4, <2>1, <3>1, <3>2, FS_CardinalityType
  <2>3. SUFFICES ASSUME All \subseteq (Held1 \union Held2) \union Few
                 PROVE  FALSE
    OBVIOUS
  <2>4. Cardinality(All) <= Cardinality((Held1 \union Held2) \union Few)
    <3> DEFINE every == (Held1 \union Held2) \union Few
    <3> HIDE DEF every
    <3>1. IsFiniteSet(every) /\ All \in SUBSET every
      BY <2>2, <2>3 DEF every
    <3>2. Cardinality(All) <= Cardinality(every)
      BY <3>1, FS_Subset
    <3> QED  BY <3>2 DEF every
  <2> QED  BY <1>1, <1>5, <2>2, <2>4
<1>7. id \in GrantIds \ {0}
  BY <1>1, <1>6 DEF GrantIds
<1>8. /\ id \notin {saved.grant, live.id, runner.cur.grant}
      /\ \A x \in Savers : id \notin {saver[x].grant, saver[x].cur.grant}
  BY <1>6
<1> QED  BY <1>7, <1>8 DEF NewGrant

LEMMA SpendType ==
    ASSUME GrantsTypeOK, NEW b \in {"saves", "faults"}, Spend(b)
    PROVE  grantsLeft' \in Bounds
<1>1. grantsLeft \in Bounds /\ grantsLeft[b] > 0
  BY GrantsTypes DEF Spend
<1>2. MaxSaves \in Nat /\ MaxGrantFaults \in Nat
  BY GrantsAssumption
<1>3. grantsLeft[b] - 1 \in 0 .. (IF b = "saves" THEN MaxSaves ELSE MaxGrantFaults)
  BY <1>1, <1>2 DEF Bounds
<1> QED  BY <1>1, <1>3 DEF Bounds, Spend

\* One request goes on, or is over.
LEMMA SaverType ==
    ASSUME GrantsTypeOK, NEW s \in Savers
    PROVE  /\ \A y \in Saves : saver' = [saver EXCEPT ![s] = y] => saver' \in [Savers -> Saves]
           /\ \A step \in SaveSteps : To(s, step) => saver' \in [Savers -> Saves]
           /\ Over(s) => saver' \in [Savers -> Saves]
<1>1. saver \in [Savers -> Saves] /\ saver[s] \in Saves
  BY GrantsTypes
<1>2. \A step \in SaveSteps : [saver[s] EXCEPT !.at = step] \in Saves
  BY <1>1 DEF Saves
<1> QED  BY <1>1, <1>2, RestingTypes DEF To, Over

LEMMA JobType ==
    ASSUME GrantsTypeOK
    PROVE  /\ \A step \in JobSteps, cur \in Row : Job(step, cur) => runner' \in Jobs
           /\ \A step \in JobSteps : [NoJob EXCEPT !.at = step] \in Jobs
           /\ runner.cur \in Row /\ saved \in Row /\ Ends \in JobSteps
<1>1. runner.cur \in Row /\ saved \in Row
  BY GrantsTypes DEF Jobs
<1>2. \A step \in JobSteps : [NoJob EXCEPT !.at = step] \in Jobs
  BY RestingTypes DEF NoJob, Jobs
<1> QED  BY <1>1, <1>2 DEF Job, Jobs, JobSteps, Ends

\* What a request holds keeps to its sets.
LEMMA SaveTypes ==
    ASSUME GrantsTypeOK, NEW s \in Savers
    PROVE  /\ saver[s] \in Saves /\ saver[s].cur \in Row /\ saver[s].grant \in GrantIds
           /\ saver[s].ch \in Asked /\ Enabled(s) \in BOOLEAN
           /\ saver[s].at \in SaveSteps /\ saver[s].made \in BOOLEAN /\ saver[s].op \in SaveOps
<1>1. saver[s] \in Saves
  BY GrantsTypes
<1>2. saver[s].cur \in Row /\ saver[s].grant \in GrantIds /\ saver[s].ch \in Asked
  BY <1>1 DEF Saves
<1>3. saver[s].at \in SaveSteps /\ saver[s].made \in BOOLEAN /\ saver[s].op \in SaveOps
  BY <1>1 DEF Saves
<1>4. saver[s].cur.on \in BOOLEAN
  BY <1>2 DEF Row
<1> QED  BY <1>1, <1>2, <1>3, <1>4 DEF Enabled

\* The space a request works on is one, unless it is an `ensure` that has not read yet.
LEMMA SpaceType ==
    ASSUME GrantsTypeOK, NEW s \in Savers
    PROVE  Space(s) \in Places
<1>1. saver[s].cur \in Row /\ saver[s].ch \in Asked
  BY SaveTypes
<1>2. saver[s].cur.space \in Places /\ saver[s].ch.space \in Places \union {"keep"}
  BY <1>1 DEF Row, Asked
<1> QED  BY <1>2 DEF Space

LEMMA GrantStepType ==
    ASSUME NEW ch, NEW cur
    PROVE  GrantStep(ch, cur) \in {"issue", "revoke", "write"}
BY DEF GrantStep

\* A row that is written is a row.
LEMMA NewRowType ==
    ASSUME GrantsTypeOK, NEW s \in Savers
    PROVE  NewRow(s) \in Row
<1>1. /\ saved \in Row /\ saver[s].grant \in GrantIds /\ saver[s].ch \in Asked /\ Enabled(s) \in BOOLEAN
      /\ saver[s].cur \in Row
  BY SaveTypes, GrantsTypes
<1>2. saver[s].ch.space \in Places \union {"keep"} /\ 0 \in GrantIds
  BY <1>1, SaversCount DEF Asked
<1> DEFINE on    == IF saver[s].ch.on = "keep" THEN saved.on ELSE Enabled(s)
           space == IF saver[s].ch.space = "keep" THEN saved.space ELSE saver[s].ch.space
           due   == IF saver[s].ch.on # "keep" \/ saver[s].ch.time THEN Enabled(s) ELSE saved.due
           grant == IF saver[s].grant # 0 THEN saver[s].grant
                    ELSE IF ~Enabled(s) /\ saver[s].cur.grant # 0 THEN 0 ELSE saved.grant
<1>3. on \in BOOLEAN /\ space \in Places /\ due \in BOOLEAN /\ grant \in GrantIds
  BY <1>1, <1>2 DEF Row
<1>4. NewRow(s) = [saved EXCEPT !.on = on, !.space = space, !.due = due, !.grant = grant]
  BY <1>1 DEF NewRow, Row
<1> HIDE DEF on, space, due, grant
<1> QED  BY <1>1, <1>3, <1>4 DEF Row

LEMMA SaverKeepsTypes ==
    ASSUME GrantsTypeOK, NEW s \in Savers, SaverAsks(s) \/ SaverStep(s) \/ AskEnsure(s)
    PROVE  GrantsTypeOK'
<1>1. /\ kind \in Kinds /\ saved \in Row /\ live \in Grants
      /\ mayEdit \in BOOLEAN /\ copiesDone \in BOOLEAN /\ stray \in BOOLEAN
      /\ saver \in [Savers -> Saves] /\ runner \in Jobs /\ grantsLeft \in Bounds
  BY GrantsTypes
<1>2. /\ saver[s] \in Saves /\ saver[s].cur \in Row /\ saver[s].ch \in Asked /\ Enabled(s) \in BOOLEAN
      /\ Space(s) \in Places
  BY SaveTypes, SpaceType
<1>3. ASSUME NEW op \in SaveOps, NEW ch \in Asked, NEW step \in SaveSteps, Ask(s, op, ch, step)
      PROVE  GrantsTypeOK'
  <2>1. [NoSave EXCEPT !.at = step, !.op = op, !.ch = ch, !.cur = saved] \in Saves
    BY <1>1, <1>3, RestingTypes DEF Saves
  <2>2. saver' \in [Savers -> Saves]
    BY <1>1, <1>3, <2>1 DEF Ask
  <2>3. grantsLeft' \in Bounds
    BY <1>3, SpendType DEF Ask
  <2> QED  BY <1>1, <1>3, <2>2, <2>3, GrantsTypesNext DEF Ask
<1>4. CASE \E p \in Places, on \in {"on", "off"} : AskCreate(s, p, on)
  <2>1. PICK p \in Places, on \in {"on", "off"} : AskCreate(s, p, on)
    BY <1>4
  <2>2. [on |-> on, space |-> p, time |-> TRUE] \in Asked
    BY DEF Asked
  <2> QED  BY <1>3, <2>1, <2>2 DEF AskCreate, SaveOps, SaveSteps
<1>5. CASE AskUpdate(s)
  <2>1. PICK ch \in Changes : Ask(s, "update", ch, IF ch.space = "keep" THEN GrantStep(ch, saved) ELSE "space")
    BY <1>5 DEF AskUpdate
  <2>2. ch \in Asked
    BY DEF Changes, Asked
  <2>3. (IF ch.space = "keep" THEN GrantStep(ch, saved) ELSE "space") \in SaveSteps
    BY GrantStepType DEF SaveSteps
  <2> QED  BY <1>3, <2>1, <2>2, <2>3 DEF SaveOps
<1>6. CASE AskDelete(s)
  BY <1>3, <1>6, RestingTypes DEF AskDelete, SaveOps, SaveSteps
<1>7. CASE AskEnsure(s)
  <2>1. [NoSave EXCEPT !.at = "lock", !.op = "ensure"] \in Saves
    BY RestingTypes DEF Saves, SaveSteps, SaveOps
  <2> QED  BY <1>1, <1>7, <2>1, GrantsTypesNext DEF AskEnsure
<1>8. CASE CheckSpace(s)
  <2>1. saver' \in [Savers -> Saves]
    <3>1. (IF saver[s].op # "update" THEN "insert" ELSE GrantStep(saver[s].ch, saver[s].cur)) \in SaveSteps
      BY GrantStepType DEF SaveSteps
    <3> QED  BY <1>8, <3>1, SaverType DEF CheckSpace
  <2>2. grantsLeft' \in Bounds
    BY <1>1, <1>8, SpendType DEF CheckSpace
  <2> QED  BY <1>1, <1>8, <2>1, <2>2, GrantsTypesNext DEF CheckSpace, At
<1>9. CASE InsertRoutine(s)
  <2> DEFINE new == [there |-> TRUE, on |-> Enabled(s), space |-> Space(s), grant |-> 0, due |-> Enabled(s)]
  <2>1. new \in Row
    BY <1>2, SaversCount DEF Row
  <2>2. [saver[s] EXCEPT !.at = "issue", !.cur = new, !.ch = Keep, !.made = TRUE] \in Saves
    BY <1>2, <2>1, RestingTypes DEF Saves, SaveSteps
  <2>3. saved' = new /\ UNCHANGED <<live, copiesDone, stray, grantsLeft, kind, mayEdit, runner>>
    BY <1>9 DEF InsertRoutine, At
  <2>4. \/ saver' = [saver EXCEPT ![s].at = "issue", ![s].cur = new, ![s].ch = Keep, ![s].made = TRUE]
        \/ Over(s)
    BY <1>9 DEF InsertRoutine
  <2> HIDE DEF new
  <2>5. saver' \in [Savers -> Saves]
    <3>1. CASE Over(s)
      BY <3>1, SaverType
    <3>2. CASE saver' = [saver EXCEPT ![s].at = "issue", ![s].cur = new, ![s].ch = Keep, ![s].made = TRUE]
      <4> DEFINE y == [saver[s] EXCEPT !.at = "issue", !.cur = new, !.ch = Keep, !.made = TRUE]
      <4>1. saver' = [saver EXCEPT ![s] = y]
        BY <3>2
      <4>2. y \in Saves
        BY <2>2
      <4> HIDE DEF y
      <4> QED  BY <4>1, <4>2, SaverType
    <3> QED  BY <2>4, <3>1, <3>2
  <2> QED  BY <1>1, <2>1, <2>3, <2>5, GrantsTypesNext
<1>10. CASE IssueGrant(s)
  <2> DEFINE new == [id |-> NewGrant, space |-> Space(s)]
  <2>1. new \in Grants /\ NewGrant \in GrantIds
    BY <1>2, FreshGrant DEF Grants
  <2>2. live' \in {live, new} /\ UNCHANGED <<saved, copiesDone, kind, mayEdit, runner>>
    BY <1>10 DEF IssueGrant, At
  <2>3. grantsLeft' \in Bounds /\ stray' \in BOOLEAN
    BY <1>1, <1>10, SpendType DEF IssueGrant
  <2>4. saver' \in [Savers -> Saves]
    <3>1. CASE IssueFails(s)
      BY <3>1, SaverType DEF IssueFails, SaveSteps
    <3>2. CASE saver' = [saver EXCEPT ![s].at = "write", ![s].grant = new.id]
      <4>1. [saver[s] EXCEPT !.at = "write", !.grant = NewGrant] \in Saves
        BY <1>2, <2>1 DEF Saves, SaveSteps
      <4> QED  BY <1>1, <3>2, <4>1
    <3> QED  BY <1>10, <3>1, <3>2 DEF IssueGrant
  <2> HIDE DEF new
  <2> QED  BY <1>1, <2>1, <2>2, <2>3, <2>4, GrantsTypesNext
<1>11. CASE UndoCreate(s)
  BY <1>1, <1>11, SaverType, RestingTypes, GrantsTypesNext DEF UndoCreate, At, Overtaken
<1>12. CASE RevokeGrant(s)
  <2>1. live' \in {live, NoGrant} /\ UNCHANGED <<saved, copiesDone, kind, mayEdit, runner, stray>>
    BY <1>12 DEF RevokeGrant, At
  <2>2. grantsLeft' \in Bounds
    BY <1>1, <1>12, SpendType DEF RevokeGrant
  <2>3. saver' \in [Savers -> Saves]
    BY <1>12, SaverType DEF RevokeGrant, SaveSteps
  <2> QED  BY <1>1, <2>1, <2>2, <2>3, RestingTypes, GrantsTypesNext
<1>13. CASE WriteRow(s)
  <2>1. saved' \in Row /\ stray' \in BOOLEAN
    BY <1>1, <1>13, NewRowType DEF WriteRow, Overtaken
  <2>2. saver' \in [Savers -> Saves]
    BY <1>13, SaverType DEF WriteRow, SaveSteps
  <2> QED  BY <1>1, <1>13, <2>1, <2>2, GrantsTypesNext DEF WriteRow, At
<1>14. CASE DeleteRow(s)
  BY <1>1, <1>14, SaverType, RestingTypes, GrantsTypesNext DEF DeleteRow, At, Overtaken
<1>15. CASE EnsureLock(s)
  <2>1. saver' \in [Savers -> Saves]
    BY <1>15, SaverType DEF EnsureLock, SaveSteps
  <2> QED  BY <1>1, <1>15, <2>1, GrantsTypesNext DEF EnsureLock, At
<1>16. CASE EnsureCopy(s)
  <2> DEFINE change == [Keep EXCEPT !.on = "on"]
             ch     == IF saved.there THEN change ELSE [change EXCEPT !.space = "personal"]
             step   == IF ~saved.there THEN "space"
                       ELSE IF saved.on /\ saved.grant = 0 THEN "issue" ELSE "done"
  <2>1. ch \in Asked
    BY RestingTypes DEF Asked, Places
  <2>2. step \in SaveSteps
    BY DEF SaveSteps
  <2>3. \/ saver' = [saver EXCEPT ![s].cur = saved, ![s].ch = ch, ![s].at = step]
        \/ Over(s)
    BY <1>16 DEF EnsureCopy
  <2> HIDE DEF ch, step
  <2>4. [saver[s] EXCEPT !.cur = saved, !.ch = ch, !.at = step] \in Saves
    BY <1>1, <1>2, <2>1, <2>2 DEF Saves
  <2>5. saver' \in [Savers -> Saves]
    BY <1>1, <2>3, <2>4, SaverType
  <2>6. grantsLeft' \in Bounds
    BY <1>1, <1>16, SpendType DEF EnsureCopy
  <2> QED  BY <1>1, <1>16, <2>5, <2>6, GrantsTypesNext DEF EnsureCopy, At
<1>17. CASE EnsureEnds(s)
  BY <1>1, <1>17, SaverType, GrantsTypesNext DEF EnsureEnds, At
<1> QED
  BY <1>4, <1>5, <1>6, <1>7, <1>8, <1>9, <1>10, <1>11, <1>12, <1>13, <1>14, <1>15, <1>16, <1>17
     DEF SaverAsks, SaverStep

LEMMA RunnerKeepsTypes ==
    ASSUME GrantsTypeOK, RunnerStep
    PROVE  GrantsTypeOK'
<1>1. /\ kind \in Kinds /\ saved \in Row /\ live \in Grants
      /\ mayEdit \in BOOLEAN /\ copiesDone \in BOOLEAN /\ stray \in BOOLEAN
      /\ saver \in [Savers -> Saves] /\ runner \in Jobs /\ grantsLeft \in Bounds
  BY GrantsTypes
<1>2. \A step \in JobSteps, cur \in Row : Job(step, cur) => runner' \in Jobs
  BY JobType
<1>3. runner.cur \in Row /\ NoJob \in Jobs /\ [NoJob EXCEPT !.at = Ends] \in Jobs
  BY JobType, RestingTypes
<1>4. 0 \in GrantIds /\ NoGrant \in Grants
  BY RestingTypes, SaversCount
<1>5. CASE ClaimSaved
  <2>1. [saved EXCEPT !.on = FALSE, !.due = FALSE] \in Row
    BY <1>1 DEF Row
  <2> QED  BY <1>1, <1>2, <1>5, <2>1, GrantsTypesNext DEF ClaimSaved, JobSteps
<1>6. CASE ReadSaved
  <2>1. runner' \in Jobs
    BY <1>1, <1>2, <1>3, <1>6 DEF ReadSaved, JobSteps
  <2>2. grantsLeft' \in Bounds
    BY <1>1, <1>6, SpendType DEF ReadSaved
  <2> QED  BY <1>1, <1>6, <2>1, <2>2, GrantsTypesNext DEF ReadSaved, RunnerAt
<1>7. CASE ExchangeGrant
  <2>1. runner' \in Jobs /\ live' \in Grants
    BY <1>1, <1>2, <1>3, <1>4, <1>7 DEF ExchangeGrant, JobSteps
  <2>2. grantsLeft' \in Bounds
    BY <1>1, <1>7, SpendType DEF ExchangeGrant
  <2> QED  BY <1>1, <1>7, <2>1, <2>2, GrantsTypesNext DEF ExchangeGrant, RunnerAt
<1>8. CASE RefuseRun
  <2>1. /\ [saved EXCEPT !.grant = 0] \in Row
        /\ [saved EXCEPT !.on = FALSE, !.due = FALSE, !.grant = 0] \in Row
    BY <1>1, <1>4 DEF Row
  <2>2. saved' \in {saved, [saved EXCEPT !.grant = 0], [saved EXCEPT !.on = FALSE, !.due = FALSE, !.grant = 0]}
    BY <1>8 DEF RefuseRun
  <2>3. [NoJob EXCEPT !.at = "forget"] \in Jobs
    BY JobType DEF JobSteps
  <2>4. runner' \in Jobs /\ stray' \in BOOLEAN
    BY <1>1, <1>3, <1>8, <2>3 DEF RefuseRun, Overtaken
  <2> QED  BY <1>1, <1>8, <2>1, <2>2, <2>4, GrantsTypesNext DEF RefuseRun, RunnerAt
<1>9. CASE ForgetUser
  BY <1>1, <1>3, <1>9, GrantsTypesNext DEF ForgetUser, RunnerAt
<1>10. CASE RunEnds
  BY <1>1, <1>3, <1>10, GrantsTypesNext DEF RunEnds, RunnerAt
<1>11. CASE RetireReads
  BY <1>1, <1>2, <1>3, <1>11, GrantsTypesNext DEF RetireReads, RunnerAt, JobSteps
<1>12. CASE RetireRevokes
  <2>1. live' \in {live, NoGrant} /\ stray' \in BOOLEAN
    BY <1>1, <1>12 DEF RetireRevokes
  <2>2. runner' \in Jobs
    BY <1>2, <1>3, <1>12 DEF RetireRevokes, JobSteps
  <2>3. grantsLeft' \in Bounds
    BY <1>1, <1>12, SpendType DEF RetireRevokes
  <2> QED  BY <1>1, <1>4, <1>12, <2>1, <2>2, <2>3, GrantsTypesNext DEF RetireRevokes, RunnerAt
<1>13. CASE RetireWrites
  <2>1. [saved EXCEPT !.grant = 0] \in Row
    BY <1>1, <1>4 DEF Row
  <2> QED  BY <1>1, <1>3, <1>13, <2>1, GrantsTypesNext DEF RetireWrites, RunnerAt, Overtaken
<1> QED
  BY <1>5, <1>6, <1>7, <1>8, <1>9, <1>10, <1>11, <1>12, <1>13 DEF RunnerStep

LEMMA WorldKeepsTypes ==
    ASSUME GrantsTypeOK, RightsChange \/ GrantEnds \/ GrantsRestart
    PROVE  GrantsTypeOK'
<1>1. grantsLeft' \in Bounds
  BY SpendType DEF RightsChange, GrantEnds, GrantsRestart
<1>2. CASE RightsChange
  BY <1>1, <1>2, GrantsTypes, GrantsTypesNext DEF RightsChange
<1>3. CASE GrantEnds
  BY <1>1, <1>3, GrantsTypes, GrantsTypesNext, RestingTypes DEF GrantEnds
<1>4. CASE GrantsRestart
  <2>1. stray' \in BOOLEAN
    BY <1>4, GrantsTypes DEF GrantsRestart
  <2>2. saver' \in [Savers -> Saves] /\ runner' \in Jobs
    BY <1>4, RestingTypes DEF GrantsRestart
  <2> QED  BY <1>1, <1>4, <2>1, <2>2, GrantsTypes, GrantsTypesNext DEF GrantsRestart
<1> QED  BY <1>2, <1>3, <1>4

LEMMA GrantsTypesInit ==
    ASSUME GrantsInit
    PROVE  GrantsTypeOK
<1>1. MaxSaves \in Nat /\ MaxGrantFaults \in Nat
  BY GrantsAssumption
<1>2. [saves |-> MaxSaves, faults |-> MaxGrantFaults] \in Bounds
  BY <1>1 DEF Bounds
<1>3. saver \in [Savers -> Saves] /\ runner \in Jobs /\ saved \in Row /\ live \in Grants
  BY RestingTypes DEF GrantsInit
<1> QED  BY <1>2, <1>3, GrantsTypes DEF GrantsInit

\* Every row, grant, request and task keeps to its set, for any kinds, requests and bounds: in
\* particular there is always a grant left to issue.
THEOREM GrantsTypeCorrect == GrantsSpec => []GrantsTypeOK
<1>1. GrantsInit => GrantsTypeOK
  BY GrantsTypesInit
<1>2. GrantsTypeOK /\ [GrantsNext]_grantVars => GrantsTypeOK'
  <2> SUFFICES ASSUME GrantsTypeOK, [GrantsNext]_grantVars
               PROVE  GrantsTypeOK'
    OBVIOUS
  <2>1. CASE UNCHANGED grantVars
    BY <2>1, GrantsTypes, GrantsTypesNext DEF grantVars
  <2>2. CASE GrantsNext
    BY <2>2, SaverKeepsTypes, RunnerKeepsTypes, WorldKeepsTypes DEF GrantsNext
  <2> QED  BY <2>1, <2>2
<1> QED  BY <1>1, <1>2, PTL DEF GrantsSpec

-----------------------------------------------------------------------------
(* What a step leaves as it was.                                           *)

\* The platform's grant stays, goes, or is a new one.
Reissued == live' = live \/ live' = NoGrant \/ live'.id = NewGrant

LEMMA StaysReplaced ==
    ASSUME GrantsTypeOK, Reissued
    PROVE  /\ Replaced(runner.cur) => (runner.cur.grant = 0 \/ live'.id # runner.cur.grant)
           /\ \A x \in Savers : Replaced(saver[x].cur) =>
                saver[x].cur.grant = 0 \/ live'.id # saver[x].cur.grant
<1>1. /\ NewGrant # runner.cur.grant
      /\ \A x \in Savers : NewGrant # saver[x].cur.grant
  BY FreshGrant
<1> QED  BY <1>1 DEF Reissued, Replaced, NoGrant

\* What a request knows stays true while others go on.
LEMMA StaysSaving ==
    ASSUME GrantsTypeOK, NEW x \in Savers, Saving(x), saver'[x] = saver[x], Reissued,
           saved'.there => saved.there \/ ~Making(x)
    PROVE  Saving(x)'
<1>1. Replaced(saver[x].cur) => (saver[x].cur.grant = 0 \/ live'.id # saver[x].cur.grant)
  BY StaysReplaced
<1>2. NewGrant # saver[x].grant
  BY FreshGrant
<1>3. saver[x].grant # 0 /\ live'.id = saver[x].grant => live' = live
  BY <1>2 DEF Reissued, NoGrant
<1>4. Enabled(x)' = Enabled(x) /\ Space(x)' = Space(x) /\ Making(x)' = Making(x)
  BY DEF Enabled, Space, Making
<1>5. Replaced(saver[x].cur) => Replaced(saver[x].cur)'
  BY <1>1 DEF Replaced
<1> QED  BY <1>3, <1>4, <1>5 DEF Saving

LEMMA StaysUsing ==
    ASSUME GrantsTypeOK, Using, Reissued, UNCHANGED <<kind, runner>>
    PROVE  Using'
BY StaysReplaced DEF Using, Replaced

\* Nobody begins to make a routine.
LEMMA StaysOneMaker ==
    ASSUME OneMaker, NEW s \in Savers, kind' = kind,
           \A x \in Savers \ {s} : saver'[x] = saver[x],
           Making(s)' => Making(s),
           saver'[s].op \in {saver[s].op, "none", "update", "delete"}
    PROVE  OneMaker'
<1>1. \A x \in Savers : Making(x)' => Making(x)
  BY DEF Making
<1>2. \A x \in Savers : saver'[x].op \in {saver[x].op, "none", "update", "delete"}
  OBVIOUS
<1> QED  BY <1>1, <1>2 DEF OneMaker

\* A request that is not about to write goes on, and the rows stay.
LEMMA StaysHeld ==
    ASSUME HeldInv, NEW s \in Savers, UNCHANGED <<saved, kind, runner>>, stray => stray',
           \A x \in Savers \ {s} : saver'[x] = saver[x],
           live' \in {live, NoGrant},
           saver[s].at # "write" \/ (saver[s].grant # live.id /\ saver'[s].at # "write")
    PROVE  HeldInv'
<1> SUFFICES ASSUME ~stray', live'.id # 0
             PROVE  Held' \/ ToHold' \/ ToDrop'
  BY DEF HeldInv
<1>1. live' = live /\ ~stray /\ live.id # 0
  BY DEF NoGrant
<1>2. ToHold => ToHold'
  BY <1>1 DEF ToHold
<1> QED  BY <1>1, <1>2 DEF HeldInv, Held, ToDrop

LEMMA StaysGranted ==
    ASSUME GrantedInv, NEW s \in Savers, UNCHANGED <<saved, kind>>, stray => stray',
           \A x \in Savers \ {s} : saver'[x] = saver[x],
           saver[s].made /\ saver[s].at \in {"issue", "write", "undo"} =>
               saver'[s].made /\ saver'[s].at \in {"issue", "write", "undo"}
    PROVE  GrantedInv'
BY DEF GrantedInv

\* NoSave is known nothing of.
LEMMA NoSaveSaving ==
    ASSUME NEW s \in Savers, saver'[s] = NoSave
    PROVE  Saving(s)' /\ ~Making(s)' /\ saver'[s].op = "none"
BY DEF Saving, NoSave, Making, NotSaved

\* One request goes on alone.
LEMMA Alone ==
    ASSUME GrantsTypeOK, NEW s \in Savers
    PROVE  /\ \A step : To(s, step) =>
                /\ \A x \in Savers \ {s} : saver'[x] = saver[x]
                /\ saver'[s] = [saver[s] EXCEPT !.at = step]
           /\ Over(s) => /\ \A x \in Savers \ {s} : saver'[x] = saver[x]
                         /\ saver'[s] = NoSave
BY GrantsTypes DEF To, Over

-----------------------------------------------------------------------------
(* The invariant.                                                          *)

\* What is left to show of one request's step.
LEMMA SaverInv ==
    ASSUME GrantInv, GrantsTypeOK', NEW s \in Savers, UNCHANGED <<kind, runner>>, Reissued,
           \A x \in Savers \ {s} : saver'[x] = saver[x],
           saved'.there => saved.there \/ Making(s),
           OneMaker', Saving(s)', HeldInv', GrantedInv'
    PROVE  GrantInv'
<1>1. Using'
  BY StaysUsing DEF GrantInv
<1>2. \A x \in Savers \ {s} : Saving(x)'
  <2> SUFFICES ASSUME NEW x \in Savers \ {s}
               PROVE  Saving(x)'
    OBVIOUS
  <2>1. saved'.there => saved.there \/ ~Making(x)
    BY DEF GrantInv, OneMaker
  <2> QED  BY <2>1, StaysSaving DEF GrantInv
<1> QED  BY <1>1, <1>2 DEF GrantInv

LEMMA AskInv ==
    ASSUME GrantInv, NEW s \in Savers, SaverAsks(s) \/ AskEnsure(s)
    PROVE  GrantInv'
<1>1. GrantsTypeOK /\ GrantsTypeOK' /\ saver \in [Savers -> Saves]
  BY SaverKeepsTypes, GrantsTypes DEF GrantInv
<1>2. /\ UNCHANGED <<kind, runner, saved, live, stray>> /\ saver[s].at = "idle"
      /\ \A x \in Savers \ {s} : saver'[x] = saver[x]
  BY <1>1 DEF SaverAsks, AskCreate, AskUpdate, AskDelete, AskEnsure, Ask
<1>3. HeldInv' /\ GrantedInv' /\ Reissued
  BY <1>2, StaysHeld, StaysGranted DEF GrantInv, Reissued
<1>4. ~Making(s)
  BY <1>2 DEF Making, GrantInv, Saving
<1>5. ASSUME NEW op, NEW ch, NEW step, Ask(s, op, ch, step)
      PROVE  saver'[s] = [NoSave EXCEPT !.at = step, !.op = op, !.ch = ch, !.cur = saved]
  BY <1>1, <1>5 DEF Ask
<1>6. CASE \E p \in Places, on \in {"on", "off"} : AskCreate(s, p, on)
  <2>1. PICK p \in Places, on \in {"on", "off"} : AskCreate(s, p, on)
    BY <1>6
  <2>2. /\ saver'[s].at = "space" /\ saver'[s].op = "create" /\ saver'[s].grant = 0 /\ ~saver'[s].made
        /\ kind # "copy" /\ ~saved.there /\ \A x \in Savers : saver[x].op # "create"
    <3> DEFINE ch == [on |-> on, space |-> p, time |-> TRUE]
    <3>1. Ask(s, "create", ch, "space")
      BY <2>1 DEF AskCreate
    <3> HIDE DEF ch
    <3>2. saver'[s] = [NoSave EXCEPT !.at = "space", !.op = "create", !.ch = ch, !.cur = saved]
      BY <1>5, <3>1
    <3> QED  BY <2>1, <3>2 DEF AskCreate, NoSave
  <2>3. Saving(s)'
    BY <1>2, <2>2 DEF Saving
  <2>4. OneMaker'
    <3>1. \A x \in Savers \ {s} : ~Making(x)
      BY <2>2 DEF GrantInv, OneMaker, Making
    <3>2. \A x \in Savers \ {s} : ~Making(x)'
      BY <1>2, <3>1 DEF Making
    <3>3. \A x \in Savers : /\ saver'[x].op = "create" => kind # "copy"
                            /\ saver'[x].op = "ensure" => kind = "copy"
      BY <1>2, <2>2 DEF GrantInv, OneMaker
    <3> QED  BY <1>2, <3>2, <3>3 DEF OneMaker
  <2> QED  BY <1>1, <1>2, <1>3, <2>3, <2>4, SaverInv
<1>7. CASE AskUpdate(s)
  <2>1. PICK ch \in Changes : Ask(s, "update", ch, IF ch.space = "keep" THEN GrantStep(ch, saved) ELSE "space")
    BY <1>7 DEF AskUpdate
  <2> DEFINE step == IF ch.space = "keep" THEN GrantStep(ch, saved) ELSE "space"
  <2>2. /\ saver'[s] = [NoSave EXCEPT !.at = step, !.op = "update", !.ch = ch, !.cur = saved]
        /\ saved.there
    BY <1>5, <1>7, <2>1 DEF AskUpdate
  <2>3. /\ saver'[s].at = step /\ saver'[s].op = "update" /\ saver'[s].ch = ch /\ saver'[s].cur = saved
        /\ saver'[s].grant = 0 /\ ~saver'[s].made
    BY <2>2 DEF NoSave
  <2>4. /\ Enabled(s)' = (IF ch.on = "keep" THEN saved.on ELSE ch.on = "on")
        /\ Space(s)' = (IF ch.space = "keep" THEN saved.space ELSE ch.space)
    BY <2>3 DEF Enabled, Space
  <2>5. step = "space" \/ (step \in {"issue", "revoke", "write"} /\ step = GrantStep(ch, saved) /\ ch.space = "keep")
    BY GrantStepType
  <2>6. step = "issue" => Enabled(s)'
    BY <2>4, <2>5 DEF GrantStep
  <2>7. step = "revoke" => ~Enabled(s)'
    BY <2>4, <2>5 DEF GrantStep
  <2>8. step = "write" => \/ Enabled(s)' /\ saved.on /\ saved.grant # 0 /\ Space(s)' = saved.space
                          \/ ~Enabled(s)' /\ saved.grant = 0
    BY <2>4, <2>5 DEF GrantStep
  <2> HIDE DEF step
  <2>9. ~Making(s)'
    BY <2>3 DEF Making
  <2>10. Saving(s)'
    BY <1>2, <2>2, <2>3, <2>5, <2>6, <2>7, <2>8, <2>9 DEF Saving, Replaced
  <2>11. OneMaker'
    BY <1>2, <2>3, <2>9, StaysOneMaker DEF GrantInv
  <2> QED  BY <1>1, <1>2, <1>3, <2>10, <2>11, SaverInv
<1>8. CASE AskDelete(s)
  <2>1. /\ saver'[s].at = (IF saved.grant # 0 THEN "revoke" ELSE "delete") /\ saver'[s].op = "delete"
        /\ saver'[s].cur = saved /\ saver'[s].grant = 0 /\ ~saver'[s].made
    <3> DEFINE step == IF saved.grant # 0 THEN "revoke" ELSE "delete"
    <3>1. Ask(s, "delete", Keep, step)
      BY <1>8 DEF AskDelete
    <3> HIDE DEF step
    <3>2. saver'[s] = [NoSave EXCEPT !.at = step, !.op = "delete", !.ch = Keep, !.cur = saved]
      BY <1>5, <3>1
    <3> QED  BY <3>2 DEF NoSave, step
  <2>2. Saving(s)' /\ ~Making(s)'
    BY <1>2, <2>1 DEF Saving, Replaced, Making
  <2>3. OneMaker'
    BY <1>2, <2>1, <2>2, StaysOneMaker DEF GrantInv
  <2> QED  BY <1>1, <1>2, <1>3, <2>2, <2>3, SaverInv
<1>9. CASE AskEnsure(s)
  <2>1. saver'[s] = [NoSave EXCEPT !.at = "lock", !.op = "ensure"] /\ kind = "copy"
    BY <1>1, <1>9 DEF AskEnsure
  <2>2. saver'[s].at = "lock" /\ saver'[s].op = "ensure" /\ saver'[s].grant = 0 /\ ~saver'[s].made
    BY <2>1 DEF NoSave
  <2>3. Saving(s)' /\ ~Making(s)'
    BY <2>2 DEF Saving, Making
  <2>4. OneMaker'
    <3>1. \A x \in Savers : Making(x)' => Making(x)
      BY <1>2, <2>3 DEF Making
    <3>2. \A x \in Savers : /\ saver'[x].op = "create" => kind # "copy"
                            /\ saver'[x].op = "ensure" => kind = "copy"
      BY <1>2, <2>1, <2>2 DEF GrantInv, OneMaker
    <3> QED  BY <1>2, <3>1, <3>2 DEF OneMaker, GrantInv
  <2> QED  BY <1>1, <1>2, <1>3, <2>3, <2>4, SaverInv
<1> QED  BY <1>6, <1>7, <1>8, <1>9 DEF SaverAsks

LEMMA CheckSpaceInv ==
    ASSUME GrantInv, NEW s \in Savers, CheckSpace(s)
    PROVE  GrantInv'
<1>1. GrantsTypeOK /\ GrantsTypeOK' /\ Saving(s) /\ saver[s] \in Saves
  BY SaverKeepsTypes, SaveTypes DEF GrantInv, SaverStep
<1> DEFINE step == IF saver[s].op # "update" THEN "insert" ELSE GrantStep(saver[s].ch, saver[s].cur)
<1>2. /\ UNCHANGED <<kind, runner, saved, live, stray>> /\ saver[s].at = "space"
      /\ To(s, step) \/ Over(s)
  BY <1>1 DEF CheckSpace, At
<1>3. /\ \A x \in Savers \ {s} : saver'[x] = saver[x]
      /\ saver'[s] = [saver[s] EXCEPT !.at = step] \/ saver'[s] = NoSave
  BY <1>1, <1>2, Alone
<1>4. step \in {"insert", "issue", "revoke", "write"}
  BY GrantStepType
<1>5. ~saver[s].made /\ saver[s].grant = 0 /\ saver[s].op \in {"create", "update", "ensure"}
  BY <1>1, <1>2 DEF Saving
<1>6. HeldInv' /\ GrantedInv' /\ Reissued
  BY <1>2, <1>3, <1>5, StaysHeld, StaysGranted DEF GrantInv, Reissued
<1>7. CASE saver'[s] = NoSave
  <2>1. Saving(s)' /\ ~Making(s)' /\ saver'[s].op = "none"
    BY <1>7, NoSaveSaving
  <2>2. OneMaker'
    BY <1>2, <1>3, <2>1, StaysOneMaker DEF GrantInv
  <2> QED  BY <1>1, <1>2, <1>3, <1>6, <2>1, <2>2, SaverInv
<1>8. CASE saver'[s] = [saver[s] EXCEPT !.at = step]
  <2>1. /\ saver'[s].at = step /\ saver'[s].op = saver[s].op /\ saver'[s].ch = saver[s].ch
        /\ saver'[s].cur = saver[s].cur /\ saver'[s].grant = 0 /\ ~saver'[s].made
    BY <1>1, <1>5, <1>8 DEF Saves
  <2>2. Enabled(s)' = Enabled(s) /\ Space(s)' = Space(s) /\ (Making(s)' => Making(s))
    BY <1>2, <2>1 DEF Enabled, Space, Making
  <2>3. /\ step = "insert" => saver[s].op # "update"
        /\ step # "insert" => saver[s].op = "update"
    BY GrantStepType
  <2>4. step = "issue" => Enabled(s)
    BY DEF GrantStep, Enabled
  <2>5. step = "revoke" => ~Enabled(s)
    BY DEF GrantStep, Enabled
  <2>6. step = "write" => \/ Enabled(s) /\ saver[s].cur.on /\ saver[s].cur.grant # 0 /\ Space(s) = saver[s].cur.space
                          \/ ~Enabled(s) /\ saver[s].cur.grant = 0
    BY DEF GrantStep, Enabled, Space
  <2> HIDE DEF step
  <2>7. Saving(s)'
    BY <1>1, <1>2, <1>4, <1>5, <2>1, <2>2, <2>3, <2>4, <2>5, <2>6 DEF Saving, Replaced
  <2>8. OneMaker'
    BY <1>2, <1>3, <2>1, <2>2, StaysOneMaker DEF GrantInv
  <2> QED  BY <1>1, <1>2, <1>3, <1>6, <2>7, <2>8, SaverInv
<1> QED  BY <1>3, <1>7, <1>8

LEMMA InsertRoutineInv ==
    ASSUME GrantInv, NEW s \in Savers, InsertRoutine(s)
    PROVE  GrantInv'
<1> DEFINE new == [there |-> TRUE, on |-> Enabled(s), space |-> Space(s), grant |-> 0, due |-> Enabled(s)]
<1>1. GrantsTypeOK /\ GrantsTypeOK' /\ Saving(s) /\ saver[s] \in Saves /\ saver \in [Savers -> Saves]
  BY SaverKeepsTypes, SaveTypes, GrantsTypes DEF GrantInv, SaverStep
<1>2. /\ UNCHANGED <<kind, runner, live, stray>> /\ saver[s].at = "insert" /\ saved' = new
      /\ IF Enabled(s)
         THEN saver' = [saver EXCEPT ![s].at = "issue", ![s].cur = new, ![s].ch = Keep, ![s].made = TRUE]
         ELSE Over(s)
  BY DEF InsertRoutine, At
<1>3. /\ new.there /\ new.grant = 0 /\ new.on = Enabled(s) /\ new.space = Space(s)
      /\ Enabled(s) \in BOOLEAN
  BY <1>1, SaveTypes
<1> HIDE DEF new
<1>4. /\ ~saver[s].made /\ saver[s].grant = 0 /\ saver[s].op \in {"create", "ensure"} /\ Making(s)
      /\ ~saved.there
  BY <1>1, <1>2 DEF Saving, Making
<1>5. \A x \in Savers \ {s} : saver'[x] = saver[x]
  BY <1>1, <1>2, Alone
<1>6. HeldInv'
  <2> SUFFICES ASSUME ~stray, live.id # 0
               PROVE  Held' \/ ToHold' \/ ToDrop'
    BY <1>2 DEF HeldInv
  <2>1. PICK x \in Savers : saver[x].at = "write" /\ saver[x].grant = live.id
    BY <1>4 DEF GrantInv, HeldInv, Held, ToDrop, ToHold
  <2>2. x # s
    BY <1>2, <2>1
  <2> QED  BY <1>2, <1>5, <2>1, <2>2 DEF ToHold
<1>7. CASE ~Enabled(s)
  <2>1. saver'[s] = NoSave
    BY <1>1, <1>2, <1>7, Alone
  <2>2. Saving(s)' /\ ~Making(s)' /\ saver'[s].op = "none"
    BY <2>1, NoSaveSaving
  <2>3. OneMaker'
    BY <1>2, <1>5, <2>2, StaysOneMaker DEF GrantInv
  <2>4. GrantedInv'
    BY <1>2, <1>3, <1>7 DEF GrantedInv
  <2> QED  BY <1>1, <1>2, <1>4, <1>5, <1>6, <2>2, <2>3, <2>4, SaverInv DEF Reissued
<1>8. CASE Enabled(s)
  <2>1. saver'[s] = [saver[s] EXCEPT !.at = "issue", !.cur = new, !.ch = Keep, !.made = TRUE]
    BY <1>1, <1>2, <1>8
  <2>2. /\ saver'[s].at = "issue" /\ saver'[s].op = saver[s].op /\ saver'[s].ch = Keep
        /\ saver'[s].cur = new /\ saver'[s].grant = 0 /\ saver'[s].made
    BY <1>1, <1>4, <2>1 DEF Saves
  <2>3. Enabled(s)' /\ Making(s)'
    BY <1>3, <1>4, <1>8, <2>2 DEF Enabled, Keep, Making
  <2>4. Saving(s)'
    BY <1>3, <2>2, <2>3 DEF Saving
  <2>5. OneMaker'
    BY <1>2, <1>4, <1>5, <2>2, <2>3, StaysOneMaker DEF GrantInv
  <2>6. GrantedInv'
    BY <2>2 DEF GrantedInv
  <2> QED  BY <1>1, <1>2, <1>4, <1>5, <1>6, <2>4, <2>5, <2>6, SaverInv DEF Reissued
<1> QED  BY <1>3, <1>7, <1>8

LEMMA IssueGrantInv ==
    ASSUME GrantInv, NEW s \in Savers, IssueGrant(s)
    PROVE  GrantInv'
<1> DEFINE new == [id |-> NewGrant, space |-> Space(s)]
<1>1. GrantsTypeOK /\ GrantsTypeOK' /\ Saving(s) /\ saver[s] \in Saves /\ saver \in [Savers -> Saves]
  BY SaverKeepsTypes, SaveTypes, GrantsTypes DEF GrantInv, SaverStep
<1>2. /\ UNCHANGED <<kind, runner, saved>> /\ saver[s].at = "issue"
      /\ \/ /\ live' = new /\ stray' = stray
            /\ saver' = [saver EXCEPT ![s].at = "write", ![s].grant = new.id]
         \/ IssueFails(s) /\ live' = live /\ stray' = stray
         \/ IssueFails(s) /\ live' = new /\ stray'
  BY DEF IssueGrant, At
<1>3. new.id = NewGrant /\ new.space = Space(s) /\ NewGrant # 0 /\ NewGrant # saver[s].cur.grant
  BY <1>1, FreshGrant
<1> HIDE DEF new
<1>4. Reissued
  BY <1>2, <1>3 DEF Reissued
<1>5. /\ saver[s].grant = 0 /\ Enabled(s) /\ saver[s].cur.there
      /\ saver[s].made => saver[s].cur.grant = 0
  BY <1>1, <1>2 DEF Saving
<1>6. ASSUME IssueFails(s)
      PROVE  /\ \A x \in Savers \ {s} : saver'[x] = saver[x]
             /\ Saving(s)' /\ OneMaker' /\ GrantedInv'
  <2>0. /\ \A x \in Savers \ {s} : saver'[x] = saver[x]
        /\ saver'[s] = IF saver[s].made THEN [saver[s] EXCEPT !.at = "undo"] ELSE NoSave
    BY <1>1, <1>6, Alone DEF IssueFails
  <2>1. CASE saver[s].made
    <3>1. saver'[s] = [saver[s] EXCEPT !.at = "undo"]
      BY <2>0, <2>1
    <3>2. /\ saver'[s].at = "undo" /\ saver'[s].op = saver[s].op /\ saver'[s].cur = saver[s].cur
          /\ saver'[s].grant = 0 /\ saver'[s].made
      BY <1>1, <1>5, <2>1, <3>1 DEF Saves
    <3>3. Saving(s)' /\ (Making(s)' => Making(s))
      BY <1>2, <1>5, <2>1, <3>2 DEF Saving, Making
    <3>4. OneMaker'
      BY <1>2, <2>0, <3>2, <3>3, StaysOneMaker DEF GrantInv
    <3>5. GrantedInv'
      <4>1. stray => stray'
        BY <1>2
      <4> QED  BY <1>2, <2>0, <3>2, <4>1, StaysGranted DEF GrantInv
    <3> QED  BY <2>0, <3>3, <3>4, <3>5
  <2>2. CASE ~saver[s].made
    <3>1. Saving(s)' /\ ~Making(s)' /\ saver'[s].op = "none"
      BY <2>0, <2>2, NoSaveSaving
    <3>2. OneMaker' /\ GrantedInv'
      BY <1>2, <2>0, <2>2, <3>1, StaysOneMaker, StaysGranted DEF GrantInv
    <3> QED  BY <2>0, <3>1, <3>2
  <2> QED  BY <2>1, <2>2
<1>7. CASE IssueFails(s) /\ live' = live /\ stray' = stray
  <2>1. HeldInv'
    BY <1>2, <1>6, <1>7, StaysHeld DEF GrantInv
  <2> QED  BY <1>1, <1>2, <1>4, <1>6, <1>7, <2>1, SaverInv
<1>8. CASE IssueFails(s) /\ live' = new /\ stray'
  <2>1. HeldInv'
    BY <1>8 DEF HeldInv
  <2> QED  BY <1>1, <1>2, <1>4, <1>6, <1>8, <2>1, SaverInv
<1>9. CASE /\ live' = new /\ stray' = stray
           /\ saver' = [saver EXCEPT ![s].at = "write", ![s].grant = new.id]
  <2>1. /\ \A x \in Savers \ {s} : saver'[x] = saver[x]
        /\ saver'[s] = [saver[s] EXCEPT !.at = "write", !.grant = new.id]
    BY <1>1, <1>9
  <2>2. /\ saver'[s].at = "write" /\ saver'[s].op = saver[s].op /\ saver'[s].cur = saver[s].cur
        /\ saver'[s].ch = saver[s].ch /\ saver'[s].grant = new.id /\ saver'[s].made = saver[s].made
    BY <1>1, <2>1 DEF Saves
  <2>3. Enabled(s)' = Enabled(s) /\ Space(s)' = Space(s) /\ (Making(s)' => Making(s))
    BY <1>2, <2>2 DEF Enabled, Space, Making
  <2>4. Saving(s)'
    BY <1>1, <1>2, <1>3, <1>5, <1>9, <2>2, <2>3 DEF Saving, Replaced
  <2>5. HeldInv'
    BY <1>9, <2>2 DEF HeldInv, ToHold
  <2>6. OneMaker' /\ GrantedInv'
    BY <1>2, <1>9, <2>1, <2>2, <2>3, StaysOneMaker, StaysGranted DEF GrantInv
  <2> QED  BY <1>1, <1>2, <1>4, <2>1, <2>4, <2>5, <2>6, SaverInv
<1> QED  BY <1>2, <1>7, <1>8, <1>9

LEMMA UndoCreateInv ==
    ASSUME GrantInv, NEW s \in Savers, UndoCreate(s)
    PROVE  GrantInv'
<1>1. GrantsTypeOK /\ GrantsTypeOK' /\ Saving(s) /\ saver[s] \in Saves
  BY SaverKeepsTypes, SaveTypes DEF GrantInv, SaverStep
<1>2. /\ UNCHANGED <<kind, runner, live>> /\ saver[s].at = "undo" /\ saved' = NotSaved
      /\ stray' = (stray \/ saved # saver[s].cur)
      /\ \A x \in Savers \ {s} : saver'[x] = saver[x]
      /\ saver'[s] = NoSave
  BY <1>1, Alone DEF UndoCreate, At, Overtaken
<1>3. saver[s].cur.grant = 0
  BY <1>1, <1>2 DEF Saving
<1>4. Saving(s)' /\ ~Making(s)' /\ saver'[s].op = "none"
  BY <1>2, NoSaveSaving
<1>5. OneMaker'
  BY <1>2, <1>4, StaysOneMaker DEF GrantInv
<1>6. HeldInv'
  <2> SUFFICES ASSUME ~stray', live.id # 0
               PROVE  ToHold'
    BY <1>2 DEF HeldInv
  <2>1. ~stray /\ saved.grant = 0
    BY <1>2, <1>3
  <2>2. PICK x \in Savers : saver[x].at = "write" /\ saver[x].grant = live.id
    BY <2>1 DEF GrantInv, HeldInv, Held, ToDrop, ToHold
  <2>3. x # s
    BY <1>2, <2>2
  <2> QED  BY <1>2, <2>2, <2>3 DEF ToHold
<1>7. GrantedInv'
  BY <1>2 DEF GrantedInv, NotSaved
<1>8. ~saved'.there
  BY <1>2 DEF NotSaved
<1> QED  BY <1>1, <1>2, <1>4, <1>5, <1>6, <1>7, <1>8, SaverInv DEF Reissued

LEMMA RevokeGrantInv ==
    ASSUME GrantInv, NEW s \in Savers, RevokeGrant(s)
    PROVE  GrantInv'
<1> DEFINE gone == IF live.id = saver[s].cur.grant THEN NoGrant ELSE live
           step == IF saver[s].op = "delete" THEN "delete" ELSE "write"
<1>1. GrantsTypeOK /\ GrantsTypeOK' /\ Saving(s) /\ saver[s] \in Saves
  BY SaverKeepsTypes, SaveTypes DEF GrantInv, SaverStep
<1>2. /\ UNCHANGED <<kind, runner, saved, stray>> /\ saver[s].at = "revoke" /\ live' \in {live, gone}
      /\ \/ live' = gone /\ To(s, step)
         \/ Over(s)
  BY DEF RevokeGrant, At
<1>3. /\ gone \in {live, NoGrant} /\ step \in {"delete", "write"}
      /\ saver[s].cur.grant = 0 \/ gone.id # saver[s].cur.grant
      /\ step = "delete" <=> saver[s].op = "delete"
  BY DEF NoGrant
<1> HIDE DEF gone, step
<1>4. /\ \A x \in Savers \ {s} : saver'[x] = saver[x]
      /\ (live' = gone /\ saver'[s] = [saver[s] EXCEPT !.at = step]) \/ saver'[s] = NoSave
  BY <1>1, <1>2, Alone
<1>5. ~saver[s].made /\ saver[s].grant = 0 /\ (saver[s].op = "delete" \/ (saver[s].op = "update" /\ ~Enabled(s)))
  BY <1>1, <1>2 DEF Saving
<1>6. HeldInv' /\ GrantedInv' /\ Reissued
  BY <1>2, <1>3, <1>4, <1>5, StaysHeld, StaysGranted DEF GrantInv, Reissued
<1>7. CASE saver'[s] = NoSave
  <2>1. Saving(s)' /\ ~Making(s)' /\ saver'[s].op = "none"
    BY <1>7, NoSaveSaving
  <2>2. OneMaker'
    BY <1>2, <1>4, <2>1, StaysOneMaker DEF GrantInv
  <2> QED  BY <1>1, <1>2, <1>4, <1>6, <2>1, <2>2, SaverInv
<1>8. CASE live' = gone /\ saver'[s] = [saver[s] EXCEPT !.at = step]
  <2>1. /\ saver'[s].at = step /\ saver'[s].op = saver[s].op /\ saver'[s].ch = saver[s].ch
        /\ saver'[s].cur = saver[s].cur /\ saver'[s].grant = 0 /\ ~saver'[s].made
    BY <1>1, <1>5, <1>8 DEF Saves
  <2>2. Enabled(s)' = Enabled(s) /\ Replaced(saver[s].cur)' /\ ~Making(s)'
    BY <1>2, <1>3, <1>5, <1>8, <2>1 DEF Enabled, Replaced, Making
  <2>3. Saving(s)'
    BY <1>3, <1>5, <2>1, <2>2 DEF Saving, Replaced
  <2>4. OneMaker'
    BY <1>2, <1>4, <2>1, <2>2, StaysOneMaker DEF GrantInv
  <2> QED  BY <1>1, <1>2, <1>4, <1>6, <2>3, <2>4, SaverInv
<1> QED  BY <1>4, <1>7, <1>8

\* A request that writes to the row it has read leaves a grant that stays held, or goes.
LEMMA WriteRowInv ==
    ASSUME GrantInv, NEW s \in Savers, WriteRow(s)
    PROVE  GrantInv'
<1>1. /\ GrantsTypeOK /\ GrantsTypeOK' /\ Saving(s) /\ saver[s] \in Saves /\ saver[s].cur \in Row
      /\ saved \in Row /\ Enabled(s) \in BOOLEAN
  BY SaverKeepsTypes, SaveTypes, GrantsTypes DEF GrantInv, SaverStep
<1>2. /\ UNCHANGED <<kind, runner, live>> /\ saver[s].at = "write"
      /\ saved' = (IF saved.there THEN NewRow(s) ELSE saved)
      /\ stray' = (stray \/ saved # saver[s].cur)
      /\ To(s, "done") \/ Over(s)
  BY DEF WriteRow, At, Overtaken
<1>3. /\ \A x \in Savers \ {s} : saver'[x] = saver[x]
      /\ saver'[s] = [saver[s] EXCEPT !.at = "done"] \/ saver'[s] = NoSave
  BY <1>1, <1>2, Alone
<1>4. Saving(s)' /\ OneMaker'
  <2>1. CASE saver'[s] = NoSave
    <3>1. Saving(s)' /\ ~Making(s)' /\ saver'[s].op = "none"
      BY <2>1, NoSaveSaving
    <3> QED  BY <1>2, <1>3, <3>1, StaysOneMaker DEF GrantInv
  <2>2. CASE saver'[s] = [saver[s] EXCEPT !.at = "done"]
    <3>1. /\ saver'[s].at = "done" /\ saver'[s].op = saver[s].op /\ saver'[s].cur = saver[s].cur
          /\ saver'[s].grant = saver[s].grant /\ saver'[s].made = saver[s].made
      BY <1>1, <2>2 DEF Saves
    <3>2. Saving(s)' /\ (Making(s)' => Making(s))
      BY <1>1, <1>2, <3>1 DEF Saving, Making
    <3> QED  BY <1>2, <1>3, <3>1, <3>2, StaysOneMaker DEF GrantInv
  <2> QED  BY <1>3, <2>1, <2>2
<1>5. saved'.there => saved.there
  BY <1>1, <1>2
<1>6. saved.there =>
        /\ saved'.there
        /\ saved'.on = IF saver[s].ch.on = "keep" THEN saved.on ELSE Enabled(s)
        /\ saved'.space = IF saver[s].ch.space = "keep" THEN saved.space ELSE saver[s].ch.space
        /\ saved'.grant = IF saver[s].grant # 0 THEN saver[s].grant
                          ELSE IF ~Enabled(s) /\ saver[s].cur.grant # 0 THEN 0 ELSE saved.grant
  BY <1>1, <1>2 DEF NewRow, Row
<1>7. ASSUME saved = saver[s].cur, saved.there
      PROVE  /\ saved'.there /\ saved'.on = Enabled(s) /\ saved'.space = Space(s)
             /\ saved'.grant = IF saver[s].grant # 0 THEN saver[s].grant
                               ELSE IF ~Enabled(s) THEN 0 ELSE saved.grant
  BY <1>1, <1>6, <1>7 DEF Enabled, Space
<1>8. \/ /\ saver[s].grant # 0 /\ saver[s].cur.there /\ Enabled(s) /\ Replaced(saver[s].cur)
         /\ live.id = saver[s].grant => live.space = Space(s)
      \/ /\ saver[s].grant = 0 /\ Enabled(s) /\ saver[s].cur.on /\ saver[s].cur.grant # 0
         /\ Space(s) = saver[s].cur.space
      \/ saver[s].grant = 0 /\ ~Enabled(s) /\ Replaced(saver[s].cur)
  BY <1>1, <1>2 DEF Saving
<1>9. HeldInv'
  <2> SUFFICES ASSUME ~stray', live.id # 0
               PROVE  Held' \/ ToHold' \/ ToDrop'
    BY <1>2 DEF HeldInv
  <2>1. ~stray /\ saved = saver[s].cur
    BY <1>2
  <2>2. CASE ToHold /\ saver[s].grant # live.id
    <3>1. PICK x \in Savers : saver[x].at = "write" /\ saver[x].grant = live.id
      BY <2>2 DEF ToHold
    <3>2. x # s
      BY <2>2, <3>1
    <3> QED  BY <1>2, <1>3, <3>1, <3>2 DEF ToHold
  <2>3. CASE saver[s].grant = live.id
    <3>1. saver[s].cur.there /\ Enabled(s) /\ live.space = Space(s)
      BY <1>8, <2>3
    <3>2. saved'.there /\ saved'.on /\ saved'.space = Space(s) /\ saved'.grant = live.id
      BY <1>7, <2>1, <2>3, <3>1
    <3> QED  BY <1>2, <3>1, <3>2 DEF Held
  <2>4. CASE saver[s].grant # live.id /\ (Held \/ ToDrop)
    <3>1. saved.there /\ saved.grant = live.id /\ ~Replaced(saver[s].cur)
      BY <2>1, <2>4 DEF Held, ToDrop, Replaced
    <3>2. /\ saver[s].grant = 0 /\ Enabled(s) /\ saver[s].cur.on
          /\ Space(s) = saver[s].cur.space
      BY <1>8, <3>1
    <3>3. Held
      BY <2>1, <2>4, <3>2 DEF ToDrop
    <3>4. saved'.there /\ saved'.on /\ saved'.space = saved.space /\ saved'.grant = saved.grant
      BY <1>7, <2>1, <3>1, <3>2
    <3> QED  BY <1>2, <3>3, <3>4 DEF Held
  <2> QED  BY <2>1, <2>2, <2>3, <2>4 DEF GrantInv, HeldInv
<1>10. GrantedInv'
  <2> SUFFICES ASSUME ~stray', saved'.there, saved'.on, saved'.grant = 0
               PROVE  FALSE
    BY DEF GrantedInv
  <2>1. saved = saver[s].cur /\ saved.there
    BY <1>2, <1>5
  <2>2. Enabled(s)
    BY <1>7, <2>1
  <2> QED  BY <1>7, <1>8, <2>1, <2>2
<1> QED  BY <1>1, <1>2, <1>3, <1>4, <1>5, <1>9, <1>10, SaverInv DEF Reissued

LEMMA DeleteRowInv ==
    ASSUME GrantInv, NEW s \in Savers, DeleteRow(s)
    PROVE  GrantInv'
<1>1. GrantsTypeOK /\ GrantsTypeOK' /\ Saving(s) /\ saver[s] \in Saves
  BY SaverKeepsTypes, SaveTypes DEF GrantInv, SaverStep
<1>2. /\ UNCHANGED <<kind, runner, live>> /\ saver[s].at = "delete" /\ saved' = NotSaved
      /\ stray' = (stray \/ saved # saver[s].cur)
      /\ \A x \in Savers \ {s} : saver'[x] = saver[x]
      /\ saver'[s] = NoSave
  BY <1>1, Alone DEF DeleteRow, At, Overtaken
<1>3. Replaced(saver[s].cur)
  BY <1>1, <1>2 DEF Saving
<1>4. Saving(s)' /\ ~Making(s)' /\ saver'[s].op = "none"
  BY <1>2, NoSaveSaving
<1>5. OneMaker'
  BY <1>2, <1>4, StaysOneMaker DEF GrantInv
<1>6. HeldInv'
  <2> SUFFICES ASSUME ~stray', live.id # 0
               PROVE  ToHold'
    BY <1>2 DEF HeldInv
  <2>1. ~stray /\ saved.grant # live.id
    BY <1>2, <1>3 DEF Replaced
  <2>2. PICK x \in Savers : saver[x].at = "write" /\ saver[x].grant = live.id
    BY <2>1 DEF GrantInv, HeldInv, Held, ToDrop, ToHold
  <2>3. x # s
    BY <1>2, <2>2
  <2> QED  BY <1>2, <2>2, <2>3 DEF ToHold
<1>7. GrantedInv' /\ ~saved'.there
  BY <1>2 DEF GrantedInv, NotSaved
<1> QED  BY <1>1, <1>2, <1>4, <1>5, <1>6, <1>7, SaverInv DEF Reissued

LEMMA EnsureInv ==
    ASSUME GrantInv, NEW s \in Savers, EnsureLock(s) \/ EnsureCopy(s) \/ EnsureEnds(s)
    PROVE  GrantInv'
<1>1. GrantsTypeOK /\ GrantsTypeOK' /\ Saving(s) /\ saver[s] \in Saves /\ saver \in [Savers -> Saves]
  BY SaverKeepsTypes, SaveTypes, GrantsTypes DEF GrantInv, SaverStep
<1>2. UNCHANGED <<kind, runner, saved, live, stray>> /\ saver[s].at \in {"lock", "list", "done"}
  BY DEF EnsureLock, EnsureCopy, EnsureEnds, At
<1>3. ASSUME saver'[s] = NoSave, \A x \in Savers \ {s} : saver'[x] = saver[x]
      PROVE  GrantInv'
  <2>1. Saving(s)' /\ ~Making(s)' /\ saver'[s].op = "none"
    BY <1>3, NoSaveSaving
  <2>2. OneMaker'
    BY <1>2, <1>3, <2>1, StaysOneMaker DEF GrantInv
  <2>3. HeldInv' /\ GrantedInv'
    BY <1>2, <1>3, StaysHeld, StaysGranted DEF GrantInv
  <2> QED  BY <1>1, <1>2, <1>3, <2>1, <2>2, <2>3, SaverInv DEF Reissued
<1>4. CASE EnsureLock(s) /\ To(s, "list")
  <2>1. /\ saver[s].at = "lock" /\ EnsureFree(s)
        /\ \A x \in Savers \ {s} : saver'[x] = saver[x]
        /\ saver'[s] = [saver[s] EXCEPT !.at = "list"]
    BY <1>1, <1>4, Alone DEF EnsureLock, At
  <2>2. /\ saver'[s].at = "list" /\ saver'[s].op = saver[s].op /\ saver'[s].grant = saver[s].grant
        /\ saver'[s].made = saver[s].made
    BY <1>1, <2>1 DEF Saves
  <2>3. saver[s].grant = 0 /\ ~saver[s].made
    BY <1>1, <2>1 DEF Saving
  <2>4. Saving(s)'
    BY <1>1, <2>1, <2>2, <2>3 DEF Saving
  <2>5. OneMaker'
    <3>1. \A x \in Savers : /\ saver'[x].op = "create" => kind # "copy"
                            /\ saver'[x].op = "ensure" => kind = "copy"
      BY <2>1, <2>2 DEF GrantInv, OneMaker
    <3>2. \A x \in Savers \ {s} : Making(x)' => Making(x)
      BY <2>1 DEF Making
    <3>3. ASSUME Making(s)'
          PROVE  \A x \in Savers \ {s} : ~Making(x)
      <4>1. saver[s].op = "ensure"
        BY <1>1, <2>1 DEF Saving
      <4>2. kind = "copy"
        BY <4>1 DEF GrantInv, OneMaker
      <4>3. \A x \in Savers \ {s} : saver[x].op # "create"
        BY <4>2 DEF GrantInv, OneMaker
      <4> QED  BY <2>1, <4>3 DEF EnsureFree, Making
    <3> QED  BY <1>2, <3>1, <3>2, <3>3 DEF GrantInv, OneMaker
  <2>6. HeldInv' /\ GrantedInv'
    BY <1>2, <2>1, StaysHeld, StaysGranted DEF GrantInv
  <2> QED  BY <1>1, <1>2, <2>1, <2>4, <2>5, <2>6, SaverInv DEF Reissued
<1>5. CASE EnsureCopy(s) /\ ~Over(s)
  <2> DEFINE change == [Keep EXCEPT !.on = "on"]
             ch     == IF saved.there THEN change ELSE [change EXCEPT !.space = "personal"]
             step   == IF ~saved.there THEN "space"
                       ELSE IF saved.on /\ saved.grant = 0 THEN "issue" ELSE "done"
  <2>1. saver[s].at = "list" /\ saver' = [saver EXCEPT ![s].cur = saved, ![s].ch = ch, ![s].at = step]
    BY <1>5 DEF EnsureCopy, At
  <2>2. /\ ch.on = "on" /\ step \in {"space", "issue", "done"}
        /\ step = "space" => ~saved.there
        /\ step = "issue" => saved.there
    <3>1. ch.on = "on"
      BY DEF Keep
    <3>2. /\ step \in {"space", "issue", "done"} /\ (step = "space" => ~saved.there)
          /\ step = "issue" => saved.there
      OBVIOUS
    <3> HIDE DEF ch, step
    <3> QED  BY <3>1, <3>2
  <2> HIDE DEF ch, step
  <2>3. /\ \A x \in Savers \ {s} : saver'[x] = saver[x]
        /\ saver'[s] = [saver[s] EXCEPT !.cur = saved, !.ch = ch, !.at = step]
    BY <1>1, <2>1
  <2>4. /\ saver'[s].at = step /\ saver'[s].op = saver[s].op /\ saver'[s].cur = saved
        /\ saver'[s].ch = ch /\ saver'[s].grant = saver[s].grant /\ saver'[s].made = saver[s].made
    BY <1>1, <2>3 DEF Saves
  <2>5. saver[s].grant = 0 /\ ~saver[s].made /\ saver[s].op = "ensure"
    BY <1>1, <2>1 DEF Saving
  <2>6. Enabled(s)'
    BY <2>2, <2>4 DEF Enabled
  <2>7. Saving(s)' /\ (Making(s)' => Making(s))
    BY <1>2, <2>1, <2>2, <2>4, <2>5, <2>6 DEF Saving, Making
  <2>8. OneMaker'
    BY <1>2, <2>3, <2>4, <2>7, StaysOneMaker DEF GrantInv
  <2>9. HeldInv' /\ GrantedInv'
    BY <1>2, <2>1, <2>3, <2>5, StaysHeld, StaysGranted DEF GrantInv
  <2> QED  BY <1>1, <1>2, <2>3, <2>7, <2>8, <2>9, SaverInv DEF Reissued
<1>6. CASE Over(s)
  BY <1>1, <1>3, <1>6, Alone
<1> QED  BY <1>4, <1>5, <1>6 DEF EnsureLock, EnsureEnds

\* What is left to show of a step of the scheduler's.
LEMMA RunnerInv ==
    ASSUME GrantInv, GrantsTypeOK', UNCHANGED <<kind, saver>>, Reissued,
           saved'.there => saved.there, Using', HeldInv', GrantedInv'
    PROVE  GrantInv'
<1>1. \A x \in Savers : Saving(x)'
  BY StaysSaving DEF GrantInv
<1>2. OneMaker'
  BY DEF GrantInv, OneMaker, Making
<1> QED  BY <1>1, <1>2 DEF GrantInv

\* A run that does not change the routine keeps what holds its grant, if it goes on after
\* a one-shot's.
LEMMA RunKeepsHeld ==
    ASSUME HeldInv, UNCHANGED <<kind, saver, saved, live, stray>>,
           ToDrop => runner'.at \notin {"idle", "clear"} /\ (runner'.at = "drop" => runner'.cur = saved)
    PROVE  HeldInv'
BY DEF HeldInv, Held, ToHold, ToDrop

LEMMA RunKeepsGranted ==
    ASSUME GrantedInv, UNCHANGED <<kind, saver, saved>>, stray => stray'
    PROVE  GrantedInv'
BY DEF GrantedInv

LEMMA RunnerStepInv ==
    ASSUME GrantInv, RunnerStep
    PROVE  GrantInv'
<1>1. GrantsTypeOK /\ GrantsTypeOK' /\ Using /\ HeldInv /\ GrantedInv /\ saved \in Row
  BY RunnerKeepsTypes, GrantsTypes DEF GrantInv
<1>2. \A step, cur : Job(step, cur) => runner'.at = step /\ runner'.cur = cur
  BY DEF Job
<1>3. NoJob.at = "idle" /\ [NoJob EXCEPT !.at = Ends].at = Ends /\ Ends \in {"retire", "idle"}
  BY DEF NoJob, Ends
<1>4. kind = "once" => Ends = "retire"
  BY DEF Ends
<1>5. CASE ClaimSaved
  <2>1. /\ UNCHANGED <<kind, saver, live, stray>> /\ runner.at = "idle" /\ runner'.at = "read"
        /\ saved.there /\ saved.on
        /\ saved' = (IF kind = "once" THEN [saved EXCEPT !.on = FALSE, !.due = FALSE] ELSE saved)
    BY <1>2, <1>5 DEF ClaimSaved
  <2>2. kind = "once" => /\ saved'.there = saved.there /\ ~saved'.on /\ saved'.grant = saved.grant
    BY <1>1, <2>1 DEF Row
  <2>3. HeldInv'
    <3> SUFFICES ASSUME ~stray, live.id # 0
                 PROVE  Held' \/ ToHold' \/ ToDrop'
      BY <2>1 DEF HeldInv
    <3>1. CASE ToHold
      BY <2>1, <3>1 DEF ToHold
    <3>2. CASE Held /\ kind = "once"
      BY <2>1, <2>2, <3>2 DEF Held, ToDrop
    <3>3. CASE Held /\ kind # "once"
      BY <2>1, <3>3 DEF Held
    <3> QED  BY <1>1, <2>1, <3>1, <3>2, <3>3 DEF HeldInv, ToDrop
  <2>4. GrantedInv'
    BY <1>1, <2>1, <2>2 DEF GrantedInv
  <2>5. Using'
    BY <2>1 DEF Using
  <2> QED  BY <1>1, <2>1, <2>3, <2>4, <2>5, RunnerInv DEF Reissued
<1>6. CASE ReadSaved
  <2>1. /\ UNCHANGED <<kind, saver, saved, live, stray>>
        /\ \/ runner'.at = "exchange"
           \/ runner'.at = "idle" /\ ~(saved.there /\ kind = "once" /\ ~saved.on)
           \/ runner'.at = Ends
    BY <1>2, <1>3, <1>6 DEF ReadSaved, RunnerAt
  <2>2. HeldInv'
    BY <1>1, <1>3, <1>4, <2>1, RunKeepsHeld DEF ToDrop
  <2>3. Using' /\ GrantedInv'
    BY <1>1, <1>3, <2>1, RunKeepsGranted DEF Using
  <2> QED  BY <1>1, <2>1, <2>2, <2>3, RunnerInv DEF Reissued
<1>7. CASE ExchangeGrant
  <2>1. /\ UNCHANGED <<kind, saver, saved, stray>> /\ live' \in {live, NoGrant}
        /\ \/ runner'.at = "run"
           \/ runner'.at = "refuse" /\ runner'.cur = runner.cur
              /\ (live' = NoGrant \/ runner.cur.grant = 0 \/ runner.cur.grant # live.id)
           \/ runner'.at = Ends
    <3>1. /\ UNCHANGED <<kind, saver, saved, stray>> /\ live' \in {live, NoGrant}
      BY <1>7 DEF ExchangeGrant, RunnerAt
    <3>2. \/ Job("run", runner.cur)
          \/ Job("refuse", runner.cur) /\ (live' = NoGrant \/ runner.cur.grant = 0 \/ runner.cur.grant # live.id)
          \/ runner' = [NoJob EXCEPT !.at = Ends]
      BY <1>7 DEF ExchangeGrant
    <3>3. CASE Job("run", runner.cur)
      BY <1>2, <3>1, <3>3
    <3>4. CASE Job("refuse", runner.cur) /\ (live' = NoGrant \/ runner.cur.grant = 0 \/ runner.cur.grant # live.id)
      BY <1>2, <3>1, <3>4
    <3>5. CASE runner' = [NoJob EXCEPT !.at = Ends]
      BY <1>3, <3>1, <3>5
    <3> QED  BY <3>2, <3>3, <3>4, <3>5
  <2>2. HeldInv'
    <3>1. CASE live' = NoGrant
      BY <3>1 DEF HeldInv, NoGrant
    <3>2. CASE live' = live
      BY <1>1, <1>3, <1>4, <2>1, <3>2, RunKeepsHeld DEF ToDrop
    <3> QED  BY <2>1, <3>1, <3>2
  <2>3. Using'
    BY <1>3, <2>1 DEF Using, Replaced, NoGrant
  <2>4. GrantedInv'
    BY <1>1, <2>1, RunKeepsGranted
  <2> QED  BY <1>1, <2>1, <2>2, <2>3, <2>4, RunnerInv DEF Reissued
<1>8. CASE RefuseRun
  <2>1. /\ UNCHANGED <<kind, saver, live>> /\ runner.at = "refuse"
        /\ stray' = (stray \/ (saved # saved' /\ saved # runner.cur))
        /\ runner'.at = IF kind = "copy" THEN "forget" ELSE Ends
    BY <1>3, <1>8 DEF RefuseRun, RunnerAt, Overtaken, NoJob
  <2>2. \/ saved' = saved
        \/ kind = "copy" /\ saved.there /\ saved' = [saved EXCEPT !.grant = 0]
        \/ saved.there /\ saved' = [saved EXCEPT !.on = FALSE, !.due = FALSE, !.grant = 0]
      BY <1>8 DEF RefuseRun
  <2>3. Replaced(runner.cur)
    BY <1>1, <2>1 DEF Using
  <2>4. HeldInv'
    <3> SUFFICES ASSUME ~stray', live.id # 0
                 PROVE  Held' \/ ToHold' \/ ToDrop'
      BY <2>1 DEF HeldInv
    <3>1. CASE saved' = saved
      BY <1>1, <1>3, <1>4, <2>1, <3>1 DEF HeldInv, Held, ToHold, ToDrop
    <3>2. CASE saved' # saved
      <4>1. saved = runner.cur /\ saved.grant # live.id
        BY <2>1, <2>3, <3>2 DEF Replaced
      <4> QED  BY <1>1, <2>1, <4>1 DEF HeldInv, Held, ToHold, ToDrop
    <3> QED  BY <3>1, <3>2
  <2>5. GrantedInv'
    <3>1. CASE saved' = saved
      BY <1>1, <2>1, <3>1, RunKeepsGranted
    <3>2. CASE kind = "copy"
      BY <2>1, <3>2 DEF GrantedInv
    <3>3. CASE saved' = [saved EXCEPT !.on = FALSE, !.due = FALSE, !.grant = 0]
      <4>1. ~saved'.on
        BY <1>1, <3>3 DEF Row
      <4> QED  BY <4>1 DEF GrantedInv
    <3> QED  BY <2>2, <3>1, <3>2, <3>3
  <2>6. Using'
    BY <1>3, <2>1 DEF Using
  <2> QED  BY <1>1, <2>1, <2>2, <2>4, <2>5, <2>6, RunnerInv DEF Reissued
<1>9. CASE ForgetUser \/ RunEnds
  <2>1. /\ UNCHANGED <<kind, saver, saved, live, stray>>
        /\ runner.at \in {"forget", "run"} /\ runner'.at \in {"idle", Ends}
        /\ runner'.at = "idle" => runner.at = "forget" \/ kind # "once"
    BY <1>3, <1>4, <1>9 DEF ForgetUser, RunEnds, RunnerAt
  <2>2. runner.at = "forget" => kind = "copy"
    BY <1>1, <2>1 DEF Using
  <2>3. HeldInv'
    BY <1>1, <1>3, <1>4, <2>1, <2>2, RunKeepsHeld DEF ToDrop
  <2>4. Using' /\ GrantedInv'
    BY <1>1, <1>3, <2>1, RunKeepsGranted DEF Using
  <2> QED  BY <1>1, <2>1, <2>3, <2>4, RunnerInv DEF Reissued
<1>10. CASE RetireReads
  <2>1. /\ UNCHANGED <<kind, saver, saved, live, stray>>
        /\ IF saved.there /\ ~saved.on /\ saved.grant # 0
           THEN runner'.at = "drop" /\ runner'.cur = saved
           ELSE runner'.at = "idle"
    BY <1>2, <1>3, <1>10 DEF RetireReads, RunnerAt
  <2>2. HeldInv'
    <3>1. CASE live.id = 0
      BY <2>1, <3>1 DEF HeldInv
    <3>2. CASE live.id # 0
      BY <1>1, <2>1, <3>2, RunKeepsHeld DEF ToDrop
    <3> QED  BY <3>1, <3>2
  <2>3. Using' /\ GrantedInv'
    BY <1>1, <2>1, RunKeepsGranted DEF Using
  <2> QED  BY <1>1, <2>1, <2>2, <2>3, RunnerInv DEF Reissued
<1>11. CASE RetireRevokes
  <2> DEFINE gone == IF live.id = runner.cur.grant THEN NoGrant ELSE live
  <2>1. /\ UNCHANGED <<kind, saver, saved>> /\ live' \in {live, gone} /\ runner.at = "drop"
        /\ \/ live' = gone /\ runner'.at = "clear" /\ runner'.cur = runner.cur /\ stray' = stray
           \/ runner'.at = "idle" /\ stray'
    BY <1>2, <1>3, <1>11 DEF RetireRevokes, RunnerAt
  <2>2. HeldInv'
    <3> SUFFICES ASSUME ~stray', live'.id # 0
                 PROVE  Held' \/ ToHold' \/ ToDrop'
      BY DEF HeldInv
    <3>1. live' = live /\ ~stray /\ live.id # runner.cur.grant
      BY <2>1 DEF NoGrant
    <3> QED  BY <1>1, <2>1, <3>1 DEF HeldInv, Held, ToHold, ToDrop
  <2>3. Using'
    BY <1>1, <2>1 DEF Using, Replaced, NoGrant
  <2>4. GrantedInv'
    BY <1>1, <2>1, RunKeepsGranted
  <2> QED  BY <1>1, <2>1, <2>2, <2>3, <2>4, RunnerInv DEF Reissued
<1>12. CASE RetireWrites
  <2>1. /\ UNCHANGED <<kind, saver, live>> /\ runner.at = "clear" /\ runner'.at = "idle"
        /\ saved' = (IF saved.there THEN [saved EXCEPT !.grant = 0] ELSE saved)
        /\ stray' = (stray \/ saved # runner.cur)
    BY <1>3, <1>12 DEF RetireWrites, RunnerAt, Overtaken
  <2>2. Replaced(runner.cur) /\ ~runner.cur.on
    BY <1>1, <2>1 DEF Using
  <2>3. HeldInv'
    <3> SUFFICES ASSUME ~stray', live.id # 0
                 PROVE  ToHold'
      BY <2>1 DEF HeldInv
    <3>1. ~stray /\ saved.grant # live.id
      BY <2>1, <2>2 DEF Replaced
    <3> QED  BY <1>1, <2>1, <3>1 DEF HeldInv, Held, ToHold, ToDrop
  <2>4. GrantedInv'
    <3> SUFFICES ASSUME ~stray', saved'.on
                 PROVE  FALSE
      BY DEF GrantedInv
    <3>1. saved = runner.cur /\ saved'.on = saved.on
      BY <1>1, <2>1 DEF Row
    <3> QED  BY <2>2, <3>1
  <2>5. Using'
    BY <2>1 DEF Using
  <2> QED  BY <1>1, <2>1, <2>3, <2>4, <2>5, RunnerInv DEF Reissued
<1> QED
  BY <1>5, <1>6, <1>7, <1>8, <1>9, <1>10, <1>11, <1>12 DEF RunnerStep


\* The rights of the owner, the grant's end, a restart of agent-server.
LEMMA WorldInv ==
    ASSUME GrantInv, RightsChange \/ GrantEnds \/ GrantsRestart
    PROVE  GrantInv'
<1>1. GrantsTypeOK /\ GrantsTypeOK' /\ live \in [id : GrantIds, space : Places]
  BY WorldKeepsTypes DEF GrantInv, GrantsTypeOK
<1>2. CASE RightsChange
  BY <1>1, <1>2 DEF RightsChange, GrantInv, OneMaker, Making, Using, Replaced, HeldInv, Held, ToHold,
     ToDrop, GrantedInv, Saving, Enabled, Space
<1>3. CASE GrantEnds
  <2>1. UNCHANGED <<kind, saved, saver, runner, stray>> /\ live' = NoGrant /\ live'.id = 0
    BY <1>3 DEF GrantEnds, NoGrant
  <2>2. Using'
    BY <1>1, <2>1 DEF GrantInv, Using, Replaced
  <2>3. HeldInv' /\ GrantedInv' /\ OneMaker'
    BY <2>1 DEF GrantInv, HeldInv, GrantedInv, OneMaker, Making
  <2>4. \A s \in Savers : Saving(s)'
    BY <1>1, <2>1, StaysSaving DEF GrantInv, Reissued
  <2> QED  BY <1>1, <2>2, <2>3, <2>4 DEF GrantInv
<1>4. CASE GrantsRestart
  <2>1. /\ UNCHANGED <<kind, saved, live>> /\ runner'.at = "idle"
        /\ \A s \in Savers : saver'[s] = NoSave
        /\ ~stray' => /\ ~stray /\ (kind = "once" => runner.at = "idle")
                      /\ \A s \in Savers : saver[s].at \notin {"issue", "undo", "write"}
    BY <1>4 DEF GrantsRestart, NoJob
  <2>2. Using' /\ HeldInv' /\ GrantedInv'
    BY <2>1 DEF GrantInv, Using, HeldInv, GrantedInv, Held, ToHold, ToDrop
  <2>3. \A s \in Savers : Saving(s)' /\ ~Making(s)' /\ saver'[s].op = "none"
    BY <2>1, NoSaveSaving
  <2>4. OneMaker'
    BY <2>3 DEF OneMaker
  <2> QED  BY <1>1, <2>2, <2>3, <2>4 DEF GrantInv
<1> QED  BY <1>2, <1>3, <1>4

LEMMA GrantInvInit ==
    ASSUME GrantsInit
    PROVE  GrantInv
<1>1. GrantsTypeOK
  BY GrantsTypesInit
<1>2. \A s \in Savers : saver[s] = NoSave
  BY DEF GrantsInit
<1>3. \A s \in Savers : saver[s].at = "idle" /\ saver[s].op = "none" /\ saver[s].grant = 0 /\ ~saver[s].made
  BY <1>2 DEF NoSave
<1>4. \A s \in Savers : Saving(s) /\ ~Making(s)
  BY <1>3 DEF Saving, Making
<1> QED
  BY <1>1, <1>3, <1>4 DEF GrantsInit, GrantInv, OneMaker, Using, HeldInv, GrantedInv, NoGrant, NotSaved, NoJob

LEMMA GrantInvStep ==
    ASSUME GrantInv, [GrantsNext]_grantVars
    PROVE  GrantInv'
<1>1. CASE UNCHANGED grantVars
  BY <1>1 DEF grantVars, GrantInv, GrantsTypeOK, OneMaker, Making, Using, Replaced, HeldInv, Held, ToHold,
     ToDrop, GrantedInv, Saving, Enabled, Space
<1>2. ASSUME NEW s \in Savers, SaverAsks(s) \/ AskEnsure(s)
      PROVE  GrantInv'
  BY <1>2, AskInv
<1>3. ASSUME NEW s \in Savers, SaverStep(s)
      PROVE  GrantInv'
  <2>1. CASE CheckSpace(s)
    BY <2>1, CheckSpaceInv
  <2>2. CASE InsertRoutine(s)
    BY <2>2, InsertRoutineInv
  <2>3. CASE IssueGrant(s)
    BY <2>3, IssueGrantInv
  <2>4. CASE UndoCreate(s)
    BY <2>4, UndoCreateInv
  <2>5. CASE RevokeGrant(s)
    BY <2>5, RevokeGrantInv
  <2>6. CASE WriteRow(s)
    BY <2>6, WriteRowInv
  <2>7. CASE DeleteRow(s)
    BY <2>7, DeleteRowInv
  <2>8. CASE EnsureLock(s) \/ EnsureCopy(s) \/ EnsureEnds(s)
    BY <2>8, EnsureInv
  <2> QED
    BY <1>3, <2>1, <2>2, <2>3, <2>4, <2>5, <2>6, <2>7, <2>8 DEF SaverStep
<1>4. CASE RunnerStep
  BY <1>4, RunnerStepInv
<1>5. CASE RightsChange \/ GrantEnds \/ GrantsRestart
  BY <1>5, WorldInv
<1> QED
  BY <1>1, <1>2, <1>3, <1>4, <1>5 DEF GrantsNext

\* With nothing under way nothing is about to write a grant, and no one-shot's run has one
\* left to drop.
LEMMA GrantInvHeld == GrantInv => GrantsAreHeld
<1> SUFFICES ASSUME GrantInv, \A s \in Savers : saver[s].at = "idle", runner.at = "idle", ~stray
             PROVE  /\ live.id # 0 => saved.there /\ saved.on /\ saved.grant = live.id /\ saved.space = live.space
                    /\ saved.there /\ saved.on /\ saved.grant = 0 => kind = "copy"
  BY DEF GrantsAreHeld
<1>1. ~ToHold /\ ~ToDrop
  BY DEF ToHold, ToDrop
<1> QED  BY <1>1 DEF GrantInv, HeldInv, Held, GrantedInv

\* An enabled routine holds the grant the platform has for it, in the space it is in, and one
\* that is off or gone leaves none behind: through every order of saves, deliveries and runs,
\* faults of the platform, rights lost and restarts, when no answer was lost, nothing was cut
\* off between its two halves, and no row changed between a save's read and its write
\* (routines/service.py, delivered.py, scheduler.py's `_retire_if_once` and `grant_delegation`).
THEOREM GrantsHeld == GrantsSpec => []GrantsAreHeld
<1>1. GrantsInit => GrantInv
  BY GrantInvInit
<1>2. GrantInv /\ [GrantsNext]_grantVars => GrantInv'
  BY GrantInvStep
<1>3. GrantInv => GrantsAreHeld
  BY GrantInvHeld
<1> QED  BY <1>1, <1>2, <1>3, PTL DEF GrantsSpec

-----------------------------------------------------------------------------
(* Tool calls.                                                             *)


\* How far calls are while the turn stands at one of its steps; they are numbered as they are made.
StagesFit ==
    /\ \A c \in Calls : turn.at \in {"idle", "model"} => stage[c] \in {"none", "done"}
    /\ \A c \in Calls : turn.at = "check" => stage[c] \in {"none", "made", "done"}
    /\ \A c \in Calls : turn.at = "tools" => stage[c] \in {"none", "ready", "ask", "gateway", "done"}
    /\ turn.at = "waiting" => \/ \A c \in Calls : stage[c] \in {"none", "made", "done"}
                              \/ \A c \in Calls : stage[c] \in {"none", "ask", "done"}
    /\ \A c, d \in Calls : stage[c] # "none" /\ stage[d] = "none" => c < d

\* What is on the card, and who has an answer.
CardsFit ==
    /\ turn.at = "model" => turn.pinned = {}
    /\ turn.at \in {"check", "waiting"} =>
          \A c \in turn.pinned : \/ stage[c] = "made" /\ request[c].tool \in CardTools
                                 \/ stage[c] = "ask"
    /\ turn.at = "waiting" => \A c \in Calls : stage[c] = "ask" => c \in turn.pinned
    /\ turn.at \in {"check", "tools"} => \A c \in turn.pinned : answer[c] # "none"
    /\ \A c \in Calls : stage[c] = "ask" => request[c].tool \notin CardTools /\ request[c].of = 0
    /\ \A c \in Calls : answer[c] # "none" => stage[c] # "none" /\ request[c].of = 0
    /\ \A c \in Calls : answer[c] # "none" /\ stage[c] \in {"made", "ready"} => c \in turn.pinned
    /\ \A c \in Calls \ mixed : stage[c] = "ready" /\ request[c].tool \in CardTools \intersect turn.available =>
          answer[c] = "approve" \/ (answer[c] = "none" /\ request[c].tool \in turn.allowed)

\* What the gateway does is done for a call that is not over otherwise, and asks no more.
GatesFit ==
    /\ \A c \in ran : stage[c] = "done" /\ gate[c].at = "none"
    /\ \A c \in Calls : gate[c].at # "none" =>
          /\ stage[c] \in {"gateway", "done"} /\ request[c].tool = UseIt /\ answer[c] # "reject" /\ c \notin ran
          /\ gate[c].marked => answer[c] = "approve"
          /\ request[c].of # 0 => asked[request[c].of] <= gate[c].latest
    /\ \A c \in Calls : gate[c].at = "send" => request[c].of # 0 \/ gate[c].allows \/ gate[c].marked

Taken(c) == told[c] # 0 \/ (request[c].of # 0 /\ gate[c].at \in {"live", "send"})

InputsFit ==
    /\ \A c \in Calls : asked[c] # 0 => c \in ran /\ asked[c] <= message /\ request[c].mcp \in McpTools
    /\ \A c \in Calls : gate[c].latest <= message
    /\ \A c \in Calls : request[c].tool = UseIt => request[c].mcp \in McpTools
    /\ \A c \in Calls : request[c].of # 0 => request[c].tool = UseIt /\ asked[request[c].of] # 0 /\ request[c].of < c
    /\ \A c \in Calls : told[c] # 0 => c \in ran /\ request[c].of # 0 /\ asked[request[c].of] < told[c]
    /\ \A c \in Calls : request[c].of # 0 /\ gate[c].at \in {"live", "send"} => asked[request[c].of] < gate[c].latest
    /\ \A c \in Calls : Taken(c) => request[c].of \notin handles
    /\ \A c, d \in Calls : Taken(c) /\ Taken(d) /\ request[c].of = request[d].of => c = d


-----------------------------------------------------------------------------
(* ToolCalls: types.                                                       *)

SettingsTyped ==
    /\ everyone \in [Keys -> Setting] /\ mine \in [Keys -> Setting]
    /\ offered \in SUBSET McpTools /\ served \in SUBSET McpTools /\ toolMix \in ToolMixes /\ toolsLeft \in Nat

TurnTyped == turn \in TurnRow /\ bound \in [fixed : BOOLEAN, tools : SUBSET Names] /\ message \in Nat

CallsTyped ==
    /\ request \in [Calls -> CallRow] /\ stage \in [Calls -> Stages]
    /\ answer \in [Calls -> {"none", "approve", "reject"}]
    /\ ran \in SUBSET Calls /\ let \in SUBSET Calls /\ mixed \in SUBSET Calls

GateTyped ==
    /\ gate \in [Calls -> GateRow] /\ approvals \in SUBSET Calls /\ handles \in SUBSET Calls
    /\ asked \in [Calls -> Nat] /\ told \in [Calls -> Nat]

ToolTyped == SettingsTyped /\ TurnTyped /\ CallsTyped /\ GateTyped

ToolInv == ToolTyped /\ StagesFit /\ CardsFit /\ GatesFit /\ InputsFit /\ RunsAsDecided

LEMMA ToolTypes == ToolTyped <=> ToolTypeOK
BY DEF ToolTyped, SettingsTyped, TurnTyped, CallsTyped, GateTyped, ToolTypeOK

GateAts == {"none", "grant", "op", "live", "send"}

LEMMA ToolBlanks ==
    /\ NoCall \in CallRow /\ GateRest \in GateRow
    /\ Off \in Setting /\ OnAllow \in Setting /\ OnAsk \in Setting
    /\ \A c \in Calls : c \in Nat /\ c # 0
    /\ Names \subseteq Keys /\ McpTools \subseteq Keys /\ NoTool \notin Keys
<1>1. NoCall \in CallRow
  BY DEF NoCall, CallRow
<1>2. GateRest \in GateRow
  BY DEF GateRest, GateRow
<1>3. Off \in Setting /\ OnAllow \in Setting /\ OnAsk \in Setting
  BY DEF Off, OnAllow, OnAsk, Setting
<1>4. \A c \in Calls : c \in Nat /\ c # 0
  BY ToolCallsAssumption DEF Calls
<1> QED  BY <1>1, <1>2, <1>3, <1>4, ToolCallsAssumption DEF Keys

\* A call of the gateway that goes on, one that begins, and a reply.
LEMMA GateMoves ==
    ASSUME gate \in [Calls -> GateRow], NEW c \in Calls, NEW at \in GateAts, GateGoes(c, at)
    PROVE  /\ gate' \in [Calls -> GateRow] /\ gate'[c] = [gate[c] EXCEPT !.at = at]
           /\ gate'[c].at = at /\ gate'[c].marked = gate[c].marked /\ gate'[c].allows = gate[c].allows
           /\ gate'[c].latest = gate[c].latest
           /\ \A d \in Calls : d # c => gate'[d] = gate[d]
<1>1. gate[c] \in GateRow
  OBVIOUS
<1> DEFINE r == [gate[c] EXCEPT !.at = at]
<1>2. /\ r \in GateRow /\ r.at = at /\ r.marked = gate[c].marked /\ r.allows = gate[c].allows
      /\ r.latest = gate[c].latest
  BY <1>1 DEF GateRow, GateAts
<1>3. gate' = [gate EXCEPT ![c] = r]
  BY DEF GateGoes
<1> HIDE DEF r
<1>4. gate' \in [Calls -> GateRow] /\ gate'[c] = r /\ \A d \in Calls : d # c => gate'[d] = gate[d]
  BY <1>2, <1>3
<1> QED  BY <1>2, <1>4 DEF r

LEMMA GateBegins ==
    ASSUME gate \in [Calls -> GateRow], message \in Nat, NEW c \in Calls, NEW b \in BOOLEAN, Posts(c, b)
    PROVE  /\ gate' \in [Calls -> GateRow]
           /\ gate'[c].at = "grant" /\ gate'[c].marked = b /\ gate'[c].latest = message
           /\ \A d \in Calls : d # c => gate'[d] = gate[d]
<1> DEFINE r == [GateRest EXCEPT !.at = "grant", !.marked = b, !.latest = message]
<1>1. r \in GateRow /\ r.at = "grant" /\ r.marked = b /\ r.latest = message
  BY ToolBlanks DEF GateRow, GateRest
<1>2. gate' = [gate EXCEPT ![c] = r]
  BY DEF Posts
<1> HIDE DEF r
<1> QED  BY <1>1, <1>2

LEMMA ReplyMoves ==
    ASSUME gate \in [Calls -> GateRow], stage \in [Calls -> Stages], NEW c \in Calls, NEW b \in BOOLEAN, Replies(c, b)
    PROVE  /\ gate' \in [Calls -> GateRow] /\ gate'[c].at = "none" /\ gate'[c].latest = gate[c].latest
           /\ \A d \in Calls : d # c => gate'[d] = gate[d] /\ stage'[d] = stage[d]
           /\ stage' \in [Calls -> Stages]
           /\ stage[c] # "gateway" => stage'[c] = stage[c]
           /\ stage[c] = "gateway" => stage'[c] \in {"ask", "done"} /\ (~b => stage'[c] = "done")
<1>1. GateGoes(c, "none")
  BY DEF Replies
<1>2. /\ gate' \in [Calls -> GateRow] /\ gate'[c].at = "none" /\ gate'[c].latest = gate[c].latest
      /\ \A d \in Calls : d # c => gate'[d] = gate[d]
  BY <1>1, GateMoves DEF GateAts
<1> DEFINE to == IF b /\ ~gate[c].marked THEN "ask" ELSE "done"
<1>3. to \in {"ask", "done"} /\ (~b => to = "done")
  OBVIOUS
<1>4. stage' = IF stage[c] # "gateway" THEN stage ELSE [stage EXCEPT ![c] = to]
  BY DEF Replies
<1> HIDE DEF to
<1> QED  BY <1>2, <1>3, <1>4 DEF Stages

LEMMA ReadsType ==
    ASSUME NEW at \in {"idle", "model", "check", "tools", "waiting"}, NEW cs \in SUBSET Calls, Reads(at, cs)
    PROVE  turn' \in TurnRow /\ turn'.at = at /\ turn'.pinned = cs
<1> DEFINE a == {k \in Keys : Available(k)}
           b == {k \in Keys : Available(k) /\ Allowed(k)}
<1>1. a \in SUBSET Keys /\ b \in SUBSET Keys
  OBVIOUS
<1>2. turn' = [at |-> at, available |-> a, allowed |-> b, pinned |-> cs]
  BY DEF Reads
<1> HIDE DEF a, b
<1> QED  BY <1>1, <1>2 DEF TurnRow

LEMMA TurnMoves ==
    ASSUME turn \in TurnRow, NEW at \in {"idle", "model", "check", "tools", "waiting"}, TurnGoes(at)
    PROVE  /\ turn' \in TurnRow /\ turn'.at = at /\ turn'.pinned = turn.pinned
           /\ turn'.available = turn.available /\ turn'.allowed = turn.allowed
BY DEF TurnGoes, TurnRow

\* A pause, or a step's end.
LEMMA TurnPins ==
    ASSUME turn \in TurnRow, NEW at \in {"idle", "model", "check", "tools", "waiting"}, NEW cs \in SUBSET Calls,
           turn' = [turn EXCEPT !.at = at, !.pinned = cs]
    PROVE  /\ turn' \in TurnRow /\ turn'.at = at /\ turn'.pinned = cs
           /\ turn'.available = turn.available /\ turn'.allowed = turn.allowed
BY DEF TurnRow

LEMMA SomeMove ==
    ASSUME stage \in [Calls -> Stages], NEW cs \in SUBSET Calls, NEW to \in Stages, Moves(cs, to)
    PROVE  /\ stage' \in [Calls -> Stages]
           /\ \A c \in Calls : stage'[c] = IF c \in cs THEN to ELSE stage[c]
BY DEF Moves

LEMMA OneMoves ==
    ASSUME stage \in [Calls -> Stages], NEW c \in Calls, NEW to \in Stages, Goes(c, to)
    PROVE  /\ stage' \in [Calls -> Stages] /\ stage'[c] = to
           /\ \A d \in Calls : d # c => stage'[d] = stage[d]
BY DEF Goes


-----------------------------------------------------------------------------
(* What a step that leaves a part's variables alone keeps.                  *)

\* People's and the server's changes of settings are no part of the invariant but for the types.
LEMMA SettingSteps ==
    ASSUME ToolInv,
           \/ \E k \in Keys : ChangeMine(k) \/ ChangeAdmin(k)
           \/ ServerChanges \/ StoreDiscovery
    PROVE  ToolInv'
<1>1. SettingsTyped
  BY DEF ToolInv, ToolTyped
<1>2. UNCHANGED <<turn, bound, callVars, gateVars, message, toolMix>>
  BY DEF ChangeMine, ChangeAdmin, ServerChanges, StoreDiscovery
<1>3. SettingsTyped'
  <2>1. ASSUME NEW k \in Keys, ChangeMine(k) PROVE SettingsTyped'
    BY <1>1, <2>1 DEF ChangeMine, SpendsOne, SettingsTyped
  <2>2. ASSUME NEW k \in Keys, ChangeAdmin(k) PROVE SettingsTyped'
    BY <1>1, <2>2 DEF ChangeAdmin, SpendsOne, SettingsTyped
  <2>3. CASE ServerChanges
    BY <1>1, <2>3 DEF ServerChanges, SpendsOne, SettingsTyped
  <2>4. CASE StoreDiscovery
    BY <1>1, <2>4, ToolBlanks DEF StoreDiscovery, SettingsTyped
  <2> QED  BY <2>1, <2>2, <2>3, <2>4
<1>4. TurnTyped' /\ CallsTyped' /\ GateTyped'
  BY <1>2 DEF ToolInv, ToolTyped, TurnTyped, CallsTyped, GateTyped, callVars, gateVars
<1>5. StagesFit' /\ CardsFit' /\ GatesFit'
  BY <1>2 DEF ToolInv, StagesFit, CardsFit, GatesFit, callVars, gateVars
<1>6. InputsFit' /\ RunsAsDecided'
  BY <1>2 DEF ToolInv, InputsFit, Taken, RunsAsDecided, callVars, gateVars
<1> QED  BY <1>3, <1>4, <1>5, <1>6 DEF ToolInv, ToolTyped

LEMMA SettingsKept ==
    ASSUME ToolInv, UNCHANGED <<settingVars, toolMix, toolsLeft>>
    PROVE  SettingsTyped'
BY DEF ToolInv, ToolTyped, SettingsTyped, settingVars

\* The turn and the middleware leave what the gateway does alone, and the calls it is at.
LEMMA GatesKept ==
    ASSUME ToolInv, UNCHANGED <<gateVars, ran>>,
           \A c \in ran : stage'[c] = "done",
           \A c \in Calls : gate[c].at # "none" =>
               request'[c] = request[c] /\ answer'[c] = answer[c] /\ stage'[c] \in {"gateway", "done"}
    PROVE  GateTyped' /\ GatesFit'
<1>1. GateTyped'
  BY DEF ToolInv, ToolTyped, GateTyped, gateVars
<1>2. GatesFit'
  BY DEF ToolInv, GatesFit, gateVars
<1> QED  BY <1>1, <1>2

LEMMA InputsKept ==
    ASSUME ToolInv, UNCHANGED <<gate, asked, told, request>>, handles' \subseteq handles, ran \subseteq ran',
           message' \in Nat, message <= message'
    PROVE  InputsFit'
<1>1. message \in Nat /\ asked \in [Calls -> Nat] /\ \A c \in Calls : gate[c].latest \in Nat
  BY DEF ToolInv, ToolTyped, TurnTyped, GateTyped, GateRow
<1>2. \A c \in Calls : Taken(c)' <=> Taken(c)
  BY DEF Taken
<1>3. InputsFit
  BY DEF ToolInv
<1>4. \A c \in Calls : asked'[c] # 0 => c \in ran' /\ asked'[c] <= message' /\ request'[c].mcp \in McpTools
  BY <1>1, <1>3 DEF InputsFit
<1>5. \A c \in Calls : gate'[c].latest <= message'
  BY <1>1, <1>3 DEF InputsFit
<1>6. \A c \in Calls : told'[c] # 0 => c \in ran' /\ request'[c].of # 0 /\ asked'[request'[c].of] < told'[c]
  BY <1>3 DEF InputsFit
<1>7. /\ \A c \in Calls : request'[c].tool = UseIt => request'[c].mcp \in McpTools
      /\ \A c \in Calls : request'[c].of # 0 => request'[c].tool = UseIt /\ asked'[request'[c].of] # 0 /\ request'[c].of < c
      /\ \A c \in Calls : request'[c].of # 0 /\ gate'[c].at \in {"live", "send"} => asked'[request'[c].of] < gate'[c].latest
  BY <1>3 DEF InputsFit
<1>8. /\ \A c \in Calls : Taken(c)' => request'[c].of \notin handles'
      /\ \A c, d \in Calls : Taken(c)' /\ Taken(d)' /\ request'[c].of = request'[d].of => c = d
  BY <1>2, <1>3 DEF InputsFit
<1> QED  BY <1>4, <1>5, <1>6, <1>7, <1>8 DEF InputsFit

LEMMA DecidedKept ==
    ASSUME ToolInv, UNCHANGED <<ran, let, request>>, mixed \subseteq mixed', \A c \in ran : answer'[c] = answer[c]
    PROVE  RunsAsDecided'
BY DEF ToolInv, RunsAsDecided

-----------------------------------------------------------------------------
(* The turn and the card.                                                   *)

LEMMA TurnFacts ==
    ASSUME ToolInv
    PROVE  /\ turn \in TurnRow /\ message \in Nat /\ turn.pinned \in SUBSET Calls
           /\ request \in [Calls -> CallRow] /\ stage \in [Calls -> Stages]
           /\ answer \in [Calls -> {"none", "approve", "reject"}]
           /\ MadeNow \in SUBSET Calls /\ Asking \in SUBSET MadeNow
           /\ \A c \in MadeNow : stage[c] = "made"
           /\ \A c \in Calls : stage[c] = "made" => c \in MadeNow
           /\ \A c \in ran : c \in Calls /\ stage[c] = "done"
           /\ \A c \in Calls : gate[c].at # "none" => stage[c] \in {"gateway", "done"}
<1>1. /\ turn \in TurnRow /\ message \in Nat /\ turn.pinned \in SUBSET Calls
      /\ request \in [Calls -> CallRow] /\ stage \in [Calls -> Stages]
      /\ answer \in [Calls -> {"none", "approve", "reject"}] /\ ran \in SUBSET Calls
  BY DEF ToolInv, ToolTyped, TurnTyped, CallsTyped, TurnRow
<1>2. MadeNow \in SUBSET Calls /\ Asking \in SUBSET MadeNow
  BY DEF MadeNow, Asking
<1>3. /\ \A c \in ran : stage[c] = "done"
      /\ \A c \in Calls : gate[c].at # "none" => stage[c] \in {"gateway", "done"}
  BY DEF ToolInv, GatesFit
<1> QED  BY <1>1, <1>2, <1>3 DEF MadeNow

\* A turn's start and the end of what the model says move no call.
LEMMA StartTurnInv ==
    ASSUME ToolInv, StartTurn \/ ModelEnds
    PROVE  ToolInv'
<1>1. UNCHANGED <<settingVars, callVars, gateVars, toolMix, toolsLeft>>
  BY DEF StartTurn, ModelEnds
<1>2. SettingsTyped'
  BY <1>1, SettingsKept
<1>3. /\ turn' \in TurnRow /\ turn.at \in {"idle", "model"} /\ turn'.at \in {"idle", "model"}
      /\ turn'.at = "model" => turn'.pinned = {}
      /\ bound' \in [fixed : BOOLEAN, tools : SUBSET Names] /\ message' \in Nat /\ message <= message'
  <2>1. TurnTyped /\ turn \in TurnRow /\ message \in Nat
    BY DEF ToolInv, ToolTyped, TurnTyped
  <2>2. CASE StartTurn
    <3>1. turn' \in TurnRow /\ turn'.at = "model" /\ turn'.pinned = {}
      BY <2>2, ReadsType DEF StartTurn
    <3>2. {k \in Names : Available(k)} \in SUBSET Names
      OBVIOUS
    <3>3. bound' \in [fixed : BOOLEAN, tools : SUBSET Names]
      BY <2>1, <2>2, <3>2 DEF StartTurn, TurnTyped
    <3> QED  BY <2>1, <2>2, <3>1, <3>3 DEF StartTurn
  <2>3. CASE ModelEnds
    BY <2>1, <2>3, TurnMoves DEF ModelEnds, TurnTyped
  <2> QED  BY <2>2, <2>3
<1>4. TurnTyped' /\ CallsTyped'
  BY <1>1, <1>3 DEF TurnTyped, CallsTyped, ToolInv, ToolTyped, callVars
<1>5. StagesFit'
  BY <1>1, <1>3 DEF ToolInv, StagesFit, callVars
<1>6. CardsFit'
  BY <1>1, <1>3 DEF ToolInv, CardsFit, StagesFit, callVars
<1>7. GateTyped' /\ GatesFit'
  <2>1. /\ UNCHANGED <<gateVars, ran, request, answer, stage>> /\ \A c \in ran : stage'[c] = "done"
        /\ \A c \in Calls : gate[c].at # "none" => stage'[c] \in {"gateway", "done"}
    BY <1>1, TurnFacts DEF callVars
  <2> QED  BY <2>1, GatesKept
<1>8. InputsFit'
  BY <1>1, <1>3, InputsKept DEF callVars, gateVars
<1>9. RunsAsDecided'
  BY <1>1, DecidedKept DEF callVars
<1> QED  BY <1>2, <1>4, <1>5, <1>6, <1>7, <1>8, <1>9 DEF ToolInv, ToolTyped

\* What moves calls that wait and gives answers to those on the card keeps all but where the calls are.
LEMMA CardStep ==
    ASSUME ToolInv, UNCHANGED <<settingVars, bound, request, ran, let, gateVars, message, toolMix, toolsLeft>>,
           turn' \in TurnRow, stage' \in [Calls -> Stages], answer' \in [Calls -> {"none", "approve", "reject"}],
           mixed' \in SUBSET Calls, mixed \subseteq mixed',
           \A c \in Calls : stage[c] \notin {"made", "ask"} => stage'[c] \in {stage[c], "done"} /\ answer'[c] = answer[c]
    PROVE  /\ ToolTyped' /\ GatesFit' /\ InputsFit' /\ RunsAsDecided'
<1>1. SettingsTyped' /\ TurnTyped' /\ CallsTyped'
  BY SettingsKept DEF ToolInv, ToolTyped, TurnTyped, CallsTyped
<1>2. /\ \A c \in ran : stage'[c] = "done" /\ answer'[c] = answer[c]
      /\ \A c \in Calls : gate[c].at # "none" => answer'[c] = answer[c] /\ stage'[c] \in {"gateway", "done"}
  BY TurnFacts
<1>3. GateTyped' /\ GatesFit'
  BY <1>2, GatesKept
<1>4. InputsFit'
  BY TurnFacts, InputsKept DEF gateVars
<1>5. RunsAsDecided'
  BY <1>2, DecidedKept
<1> QED  BY <1>1, <1>3, <1>4, <1>5 DEF ToolTyped

LEMMA CheckCallsInv ==
    ASSUME ToolInv, CheckCalls
    PROVE  ToolInv'
<1>1. /\ UNCHANGED <<settingVars, bound, request, ran, let, gateVars, message, toolMix, toolsLeft>>
      /\ UNCHANGED <<answer, mixed>> /\ turn.at = "check" /\ turn.pinned = {}
  BY DEF CheckCalls
<1>2. CASE Asking = {}
  <2>1. Moves(MadeNow, "ready") /\ TurnGoes("tools")
    BY <1>2 DEF CheckCalls
  <2>2. /\ stage' \in [Calls -> Stages]
        /\ \A c \in Calls : stage'[c] = IF stage[c] = "made" THEN "ready" ELSE stage[c]
    BY <2>1, TurnFacts, SomeMove DEF Stages
  <2>3. /\ turn' \in TurnRow /\ turn'.at = "tools" /\ turn'.pinned = {}
        /\ turn'.available = turn.available /\ turn'.allowed = turn.allowed
    BY <1>1, <2>1, TurnFacts, TurnMoves
  <2>4. ToolTyped' /\ GatesFit' /\ InputsFit' /\ RunsAsDecided'
    BY <1>1, <2>2, <2>3, TurnFacts, CardStep DEF ToolInv, ToolTyped, CallsTyped
  <2>5. StagesFit'
    BY <1>1, <2>2, <2>3 DEF ToolInv, StagesFit
  <2>6. \A c \in Calls : stage[c] = "made" /\ request[c].tool \in CardTools \intersect turn.available
                            => request[c].tool \in turn.allowed
    BY <1>2 DEF Asking, MadeNow, Needs
  <2>7. CardsFit'
    BY <1>1, <2>2, <2>3, <2>6 DEF ToolInv, CardsFit, StagesFit
  <2> QED  BY <2>4, <2>5, <2>7 DEF ToolInv
<1>3. CASE Asking # {}
  <2>1. UNCHANGED stage /\ turn' = [turn EXCEPT !.at = "waiting", !.pinned = Asking]
    BY <1>3 DEF CheckCalls
  <2>2. Asking \in SUBSET Calls
    BY TurnFacts
  <2>3. /\ turn' \in TurnRow /\ turn'.at = "waiting" /\ turn'.pinned = Asking
        /\ turn'.available = turn.available /\ turn'.allowed = turn.allowed
    BY <2>1, <2>2, TurnFacts, TurnPins
  <2>4. ToolTyped' /\ GatesFit' /\ InputsFit' /\ RunsAsDecided'
    BY <1>1, <2>1, <2>3, TurnFacts, CardStep DEF ToolInv, ToolTyped, CallsTyped
  <2>5. StagesFit'
    BY <1>1, <2>1, <2>3 DEF ToolInv, StagesFit
  <2>6. \A c \in Asking : stage[c] = "made" /\ request[c].tool \in CardTools
    BY DEF Asking, MadeNow
  <2>7. CardsFit'
    BY <1>1, <2>1, <2>3, <2>6 DEF ToolInv, CardsFit, StagesFit
  <2> QED  BY <2>4, <2>5, <2>7 DEF ToolInv
<1> QED  BY <1>2, <1>3

\* Whoever asks again as it was on the card takes the decision that the user made for it: no two calls of a card have
\* the same place on it.
LEMMA PlaceIsOwn ==
    ASSUME NEW P \in SUBSET Calls, NEW c \in P, NEW d \in P,
           Cardinality(Before(c, P)) = Cardinality(Before(d, P))
    PROVE  c = d
<1>1. IsFiniteSet(P)
  <2>1. IsFiniteSet(Calls)
    BY ToolCallsAssumption, FS_Interval DEF Calls
  <2> QED  BY <2>1, FS_Subset
<1>2. \A x \in P : x \in Nat
  BY ToolBlanks
<1>3. ASSUME NEW x \in P, NEW y \in P, x < y
      PROVE  Cardinality(Before(x, P)) # Cardinality(Before(y, P))
  <2>1. Before(x, P) \in SUBSET Before(y, P) /\ x \in Before(y, P) /\ x \notin Before(x, P)
    BY <1>2, <1>3 DEF Before
  <2>2. IsFiniteSet(Before(y, P))
    <3>1. Before(y, P) \in SUBSET P
      BY DEF Before
    <3> QED  BY <1>1, <3>1, FS_Subset
  <2>3. Cardinality(Before(x, P)) = Cardinality(Before(y, P)) => Before(x, P) = Before(y, P)
    BY <2>1, <2>2, FS_Subset
  <2> QED  BY <2>1, <2>3
<1>4. c \in Nat /\ d \in Nat /\ (c < d \/ d < c \/ c = d)
  BY <1>2
<1> QED  BY <1>3, <1>4

LEMMA DecisionIsTheirs ==
    ASSUME ToolInv, turn.at = "check", NEW c \in Asking, Asking = turn.pinned, DecisionFor(c) # "reject"
    PROVE  answer[c] = "approve"
<1>1. turn.pinned \in SUBSET Calls /\ c \in turn.pinned /\ answer \in [Calls -> {"none", "approve", "reject"}]
  BY TurnFacts
<1>2. answer[c] \in {"approve", "reject"}
  <2>1. answer[c] # "none"
    BY <1>1 DEF ToolInv, CardsFit
  <2> QED  BY <1>1, <2>1
<1> DEFINE On(a) == \E d \in turn.pinned : answer[d] = a /\ Cardinality(Before(d, turn.pinned)) = Cardinality(Before(c, Asking))
<1>3. On(answer[c])
  BY <1>1
<1>4. DecisionFor(c) \in {"approve", "reject"} /\ On(DecisionFor(c))
  BY <1>2, <1>3 DEF DecisionFor
<1>5. PICK d \in turn.pinned : /\ answer[d] = DecisionFor(c)
                               /\ Cardinality(Before(d, turn.pinned)) = Cardinality(Before(c, turn.pinned))
  BY <1>4
<1>6. d = c
  BY <1>1, <1>5, PlaceIsOwn
<1> QED  BY <1>2, <1>4, <1>5, <1>6

LEMMA CheckResumedInv ==
    ASSUME ToolInv, CheckResumed
    PROVE  ToolInv'
<1>1. /\ UNCHANGED <<settingVars, bound, request, answer, ran, let, gateVars, message, toolMix, toolsLeft>>
      /\ turn.at = "check" /\ mixed' = mixed \union IF Asking = turn.pinned THEN {} ELSE Asking
  BY DEF CheckResumed
<1>2. /\ turn' \in TurnRow /\ turn'.at = "tools" /\ turn'.pinned = turn.pinned
      /\ turn'.available = turn.available /\ turn'.allowed = turn.allowed
  <2>1. TurnGoes("tools")
    BY DEF CheckResumed, TurnGoes
  <2> QED  BY <2>1, TurnFacts, TurnMoves
<1>3. /\ stage' \in [Calls -> Stages]
      /\ \A c \in Calls : stage[c] # "made" => stage'[c] = stage[c]
      /\ \A c \in Calls : stage[c] = "made" => stage'[c] \in {"ready", "done"}
      /\ \A c \in Asking : stage'[c] = "ready" => DecisionFor(c) # "reject"
  <2>1. stage' = [c \in Calls |-> IF c \notin MadeNow THEN stage[c]
                                  ELSE IF c \in Asking /\ DecisionFor(c) = "reject" THEN "done" ELSE "ready"]
    BY DEF CheckResumed
  <2>2. \A c \in Calls : stage'[c] = IF c \notin MadeNow THEN stage[c]
                                  ELSE IF c \in Asking /\ DecisionFor(c) = "reject" THEN "done" ELSE "ready"
    BY <2>1
  <2>3. stage' \in [Calls -> Stages]
    BY <2>1, TurnFacts DEF Stages
  <2>4. \A c \in Asking : c \in MadeNow /\ c \in Calls
    BY TurnFacts
  <2> QED  BY <2>2, <2>3, <2>4, TurnFacts
<1>4. mixed' \in SUBSET Calls /\ mixed \subseteq mixed'
  <2>1. Asking \in SUBSET Calls /\ mixed \in SUBSET Calls
    BY TurnFacts DEF ToolInv, ToolTyped, CallsTyped
  <2> QED  BY <1>1, <2>1
<1>5. ToolTyped' /\ GatesFit' /\ InputsFit' /\ RunsAsDecided'
  BY <1>1, <1>2, <1>3, <1>4, TurnFacts, CardStep
<1>6. StagesFit'
  BY <1>1, <1>2, <1>3 DEF ToolInv, StagesFit
<1>7. ASSUME NEW c \in Calls \ mixed', stage'[c] = "ready", request[c].tool \in CardTools \intersect turn.available
      PROVE  answer[c] = "approve" \/ (answer[c] = "none" /\ request[c].tool \in turn.allowed)
  <2>1. stage[c] = "made" /\ c \in MadeNow
    <3>1. stage[c] # "ready"
      BY <1>1, <1>7 DEF ToolInv, StagesFit
    <3> QED  BY <1>3, <1>7, <3>1, TurnFacts
  <2>2. CASE c \in Asking
    <3>1. Asking = turn.pinned
      BY <1>1, <1>7, <2>2
    <3> QED  BY <1>1, <1>3, <1>7, <2>2, <3>1, DecisionIsTheirs
  <2>3. CASE c \notin Asking
    <3>1. c \notin turn.pinned /\ request[c].tool \in turn.allowed
      BY <1>7, <2>1, <2>3 DEF Asking, Needs
    <3>2. answer[c] = "none"
      BY <1>7, <2>1, <3>1 DEF ToolInv, CardsFit
    <3> QED  BY <3>1, <3>2
  <2> QED  BY <2>2, <2>3
<1>8. CardsFit'
  <2>1. \A c \in turn.pinned : answer[c] # "none"
    BY <1>1 DEF ToolInv, CardsFit
  <2>2. /\ \A c \in Calls : stage'[c] = "ask" => request[c].tool \notin CardTools /\ request[c].of = 0
        /\ \A c \in Calls : answer[c] # "none" => stage'[c] # "none" /\ request[c].of = 0
    BY <1>3 DEF ToolInv, CardsFit
  <2>3. \A c \in Calls : answer[c] # "none" /\ stage'[c] \in {"made", "ready"} => c \in turn.pinned
    BY <1>1, <1>3 DEF ToolInv, CardsFit, StagesFit
  <2> QED  BY <1>1, <1>2, <1>7, <2>1, <2>2, <2>3 DEF CardsFit
<1> QED  BY <1>5, <1>6, <1>8 DEF ToolInv

LEMMA ResumeFailsInv ==
    ASSUME ToolInv, ResumeFails
    PROVE  ToolInv'
<1>1. /\ UNCHANGED <<settingVars, bound, request, ran, let, gateVars, message, toolMix, toolsLeft>>
      /\ UNCHANGED <<answer, mixed>> /\ turn.at = "check"
  BY DEF ResumeFails
<1>2. CASE TurnGoes("waiting") /\ UNCHANGED stage
  <2>1. /\ turn' \in TurnRow /\ turn'.at = "waiting" /\ turn'.pinned = turn.pinned
        /\ turn'.available = turn.available /\ turn'.allowed = turn.allowed
    BY <1>2, TurnFacts, TurnMoves
  <2>2. ToolTyped' /\ GatesFit' /\ InputsFit' /\ RunsAsDecided'
    BY <1>1, <1>2, <2>1, TurnFacts, CardStep DEF ToolInv, ToolTyped, CallsTyped
  <2>3. StagesFit'
    BY <1>1, <1>2, <2>1 DEF ToolInv, StagesFit
  <2>4. CardsFit'
    BY <1>1, <1>2, <2>1 DEF ToolInv, CardsFit, StagesFit
  <2> QED  BY <2>2, <2>3, <2>4 DEF ToolInv
<1>3. CASE TurnGoes("idle") /\ Moves(MadeNow, "done")
  <2>1. turn' \in TurnRow /\ turn'.at = "idle"
    BY <1>3, TurnFacts, TurnMoves
  <2>2. stage' \in [Calls -> Stages] /\ \A c \in Calls : stage'[c] = IF stage[c] = "made" THEN "done" ELSE stage[c]
    BY <1>3, TurnFacts, SomeMove DEF Stages
  <2>3. ToolTyped' /\ GatesFit' /\ InputsFit' /\ RunsAsDecided'
    BY <1>1, <2>1, <2>2, TurnFacts, CardStep DEF ToolInv, ToolTyped, CallsTyped
  <2>4. StagesFit'
    BY <1>1, <2>1, <2>2 DEF ToolInv, StagesFit
  <2>5. CardsFit'
    BY <1>1, <2>1, <2>2 DEF ToolInv, CardsFit, StagesFit
  <2> QED  BY <2>3, <2>4, <2>5 DEF ToolInv
<1> QED  BY <1>2, <1>3 DEF ResumeFails

LEMMA TurnFailsInv ==
    ASSUME ToolInv, TurnFails
    PROVE  ToolInv'
<1>1. /\ UNCHANGED <<settingVars, bound, request, ran, let, gateVars, message, toolMix, toolsLeft>>
      /\ UNCHANGED <<answer, mixed>> /\ TurnGoes("idle")
      /\ Moves({c \in Calls : stage[c] # "none"}, "done")
  BY DEF TurnFails
<1>2. turn' \in TurnRow /\ turn'.at = "idle"
  BY <1>1, TurnFacts, TurnMoves
<1>3. stage' \in [Calls -> Stages] /\ \A c \in Calls : stage'[c] = IF stage[c] # "none" THEN "done" ELSE stage[c]
  <2> DEFINE cs == {c \in Calls : stage[c] # "none"}
  <2>1. cs \in SUBSET Calls /\ Moves(cs, "done") /\ "done" \in Stages
    BY <1>1 DEF Stages
  <2>2. \A c \in Calls : c \in cs <=> stage[c] # "none"
    OBVIOUS
  <2> HIDE DEF cs
  <2> QED  BY <2>1, <2>2, TurnFacts, SomeMove
<1>4. ToolTyped' /\ GatesFit' /\ InputsFit' /\ RunsAsDecided'
  BY <1>1, <1>2, <1>3, TurnFacts, CardStep DEF ToolInv, ToolTyped, CallsTyped
<1>5. StagesFit'
  BY <1>2, <1>3 DEF ToolInv, StagesFit
<1>6. CardsFit'
  BY <1>1, <1>2, <1>3 DEF ToolInv, CardsFit, StagesFit
<1> QED  BY <1>4, <1>5, <1>6 DEF ToolInv

LEMMA AnswerCardInv ==
    ASSUME ToolInv, AnswerCard
    PROVE  ToolInv'
<1>1. /\ UNCHANGED <<settingVars, bound, request, ran, let, mixed, gateVars, message, toolMix, toolsLeft>>
      /\ turn.at = "waiting"
  BY DEF AnswerCard
<1>2. PICK decisions \in [turn.pinned -> {"approve", "reject"}] :
        answer' = [c \in Calls |-> IF c \in turn.pinned THEN decisions[c] ELSE answer[c]]
  BY DEF AnswerCard
<1>3. /\ answer' \in [Calls -> {"none", "approve", "reject"}]
      /\ \A c \in Calls : c \in turn.pinned => answer'[c] \in {"approve", "reject"}
      /\ \A c \in Calls : c \notin turn.pinned => answer'[c] = answer[c]
  BY <1>2, TurnFacts
<1> DEFINE at == IF MadeNow # {} THEN "check" ELSE "tools"
<1>4. turn' \in TurnRow /\ turn'.at = at /\ turn'.pinned = turn.pinned
  <2>1. Reads(at, turn.pinned) /\ at \in {"idle", "model", "check", "tools", "waiting"}
    BY DEF AnswerCard
  <2> HIDE DEF at
  <2> QED  BY <2>1, TurnFacts, ReadsType
<1>5. stage' \in [Calls -> Stages] /\ \A c \in Calls : stage'[c] = IF stage[c] = "ask" THEN "ready" ELSE stage[c]
  <2> DEFINE cs == {c \in Calls : stage[c] = "ask"}
  <2>1. cs \in SUBSET Calls /\ Moves(cs, "ready") /\ "ready" \in Stages
    BY DEF AnswerCard, Stages
  <2>2. \A c \in Calls : c \in cs <=> stage[c] = "ask"
    OBVIOUS
  <2> HIDE DEF cs
  <2>3. stage' \in [Calls -> Stages] /\ \A c \in Calls : stage'[c] = IF c \in cs THEN "ready" ELSE stage[c]
    BY <2>1, TurnFacts, SomeMove
  <2> QED  BY <2>2, <2>3
<1>6. \A c \in turn.pinned : (stage[c] = "made" /\ request[c].tool \in CardTools) \/ stage[c] = "ask"
  BY <1>1 DEF ToolInv, CardsFit
<1>7. ToolTyped' /\ GatesFit' /\ InputsFit' /\ RunsAsDecided'
  <2>1. \A c \in Calls : stage[c] \notin {"made", "ask"} => stage'[c] \in {stage[c], "done"} /\ answer'[c] = answer[c]
    BY <1>3, <1>5, <1>6
  <2>2. mixed' \in SUBSET Calls /\ mixed \subseteq mixed'
    BY <1>1 DEF ToolInv, ToolTyped, CallsTyped
  <2> QED  BY <1>1, <1>3, <1>4, <1>5, <2>1, <2>2, CardStep
\* A card is either the middleware's, with calls that it will look at again, or of calls that run on.
<1>8. \/ at = "check" /\ \A c \in Calls : stage[c] \in {"none", "made", "done"}
      \/ at = "tools" /\ \A c \in Calls : stage[c] \in {"none", "ask", "done"}
  <2>1. \/ \A c \in Calls : stage[c] \in {"none", "made", "done"}
        \/ \A c \in Calls : stage[c] \in {"none", "ask", "done"}
    BY <1>1 DEF ToolInv, StagesFit
  <2>2. CASE MadeNow # {}
    BY <2>1, <2>2 DEF MadeNow
  <2>3. CASE MadeNow = {}
    BY <2>1, <2>3 DEF MadeNow
  <2> QED  BY <2>2, <2>3
<1> HIDE DEF at
<1>9. StagesFit'
  <2>1. \A c, d \in Calls : stage'[c] # "none" /\ stage'[d] = "none" => c < d
    BY <1>5 DEF ToolInv, StagesFit
  <2>2. \A c \in Calls : \/ at = "check" /\ stage'[c] \in {"none", "made", "done"}
                         \/ at = "tools" /\ stage'[c] \in {"none", "ready", "done"}
    BY <1>5, <1>8
  <2> QED  BY <1>4, <1>8, <2>1, <2>2 DEF StagesFit
<1>10. CardsFit'
  <2>1. /\ \A c \in Calls : answer[c] # "none" => stage[c] # "none" /\ request[c].of = 0
        /\ \A c \in Calls : answer[c] # "none" /\ stage[c] \in {"made", "ready"} => c \in turn.pinned
        /\ \A c \in Calls : stage[c] = "ask" => request[c].tool \notin CardTools /\ request[c].of = 0
        /\ \A c \in Calls : request[c].of # 0 => request[c].tool = UseIt
    BY DEF ToolInv, CardsFit, InputsFit
  <2>2. at = "check" => \A c \in turn.pinned : stage'[c] = "made" /\ request[c].tool \in CardTools
    BY <1>5, <1>6, <1>8, TurnFacts
  <2>3. \A c \in turn.pinned : answer'[c] # "none" /\ stage'[c] # "none"
    BY <1>3, <1>5, <1>6, TurnFacts
  <2>4. \A c \in Calls : stage'[c] # "ask"
    BY <1>5
  <2>5. \A c \in Calls : answer'[c] # "none" => stage'[c] # "none" /\ request[c].of = 0
    BY <1>3, <1>5, <1>6, <2>1, ToolCallsAssumption
  <2>6. \A c \in Calls : answer'[c] # "none" /\ stage'[c] \in {"made", "ready"} => c \in turn.pinned
    <3>1. ASSUME NEW c \in Calls, c \notin turn.pinned, answer[c] # "none" PROVE stage'[c] \notin {"made", "ready"}
      <4>1. stage[c] # "ask"
        <5>1. \A x \in Calls : stage[x] = "ask" => x \in turn.pinned
          BY <1>1 DEF ToolInv, CardsFit
        <5> QED  BY <3>1, <5>1
      <4> QED  BY <1>5, <2>1, <3>1, <4>1
    <3> QED  BY <1>3, <3>1
  <2>7. \A c \in Calls : stage'[c] = "ready" => request[c].tool \notin CardTools
    BY <1>5, <1>8, <2>1
  <2> QED  BY <1>1, <1>4, <1>8, <2>2, <2>3, <2>4, <2>5, <2>6, <2>7 DEF CardsFit
<1> QED  BY <1>7, <1>9, <1>10 DEF ToolInv

LEMMA StepEndsInv ==
    ASSUME ToolInv, StepEnds
    PROVE  ToolInv'
<1> DEFINE asks == {c \in Calls : stage[c] = "ask"}
<1>1. /\ UNCHANGED <<settingVars, bound, callVars, gateVars, message, toolMix, toolsLeft>>
      /\ \A c \in Calls : stage[c] \in {"none", "ask", "done"} /\ turn.at = "tools"
  BY DEF StepEnds
<1>2. /\ turn' \in TurnRow /\ turn'.pinned = asks /\ turn'.at = IF asks = {} THEN "model" ELSE "waiting"
  <2>1. \/ asks = {} /\ turn' = [turn EXCEPT !.at = "model", !.pinned = {}]
        \/ asks # {} /\ turn' = [turn EXCEPT !.at = "waiting", !.pinned = asks]
    BY DEF StepEnds
  <2>2. asks \in SUBSET Calls /\ {} \in SUBSET Calls
    OBVIOUS
  <2> HIDE DEF asks
  <2>3. CASE asks = {}
    BY <2>1, <2>2, <2>3, TurnFacts, TurnPins
  <2>4. CASE asks # {}
    BY <2>1, <2>2, <2>4, TurnFacts, TurnPins
  <2> QED  BY <2>3, <2>4
<1>3. \A c \in Calls : c \in asks <=> stage[c] = "ask"
  OBVIOUS
<1>4. \A c \in asks : c \in Calls /\ stage[c] = "ask"
  OBVIOUS
<1> HIDE DEF asks
<1>5. ToolTyped' /\ GatesFit' /\ InputsFit' /\ RunsAsDecided'
  BY <1>1, <1>2, TurnFacts, CardStep DEF ToolInv, ToolTyped, CallsTyped, callVars
<1>6. UNCHANGED <<stage, request, answer, mixed>>
  BY <1>1 DEF callVars
<1>7. StagesFit'
  <2>1. asks = {} => \A c \in Calls : stage[c] \in {"none", "done"}
    BY <1>1, <1>3
  <2>2. \A c, d \in Calls : stage[c] # "none" /\ stage[d] = "none" => c < d
    BY DEF ToolInv, StagesFit
  <2> QED  BY <1>1, <1>2, <1>6, <2>1, <2>2 DEF StagesFit
<1>8. CardsFit'
  <2>1. \A c \in Calls : stage[c] \notin {"made", "ready"}
    BY <1>1
  <2> QED  BY <1>2, <1>3, <1>4, <1>6, <2>1 DEF ToolInv, CardsFit
<1> QED  BY <1>5, <1>7, <1>8 DEF ToolInv

\* The model's calls are new ones, with numbers after all that were used; an answer for a server is for a call it asked in.
LEMMA ModelCallsInv ==
    ASSUME ToolInv, ModelCalls
    PROVE  ToolInv'
<1>1. /\ UNCHANGED <<settingVars, bound, answer, ran, let, mixed, gateVars, message, toolMix, toolsLeft>>
      /\ turn.at = "model" /\ TurnGoes("check")
  BY DEF ModelCalls
<1>20. PICK cs \in SUBSET Unused \ {{}} : \E qs \in [cs -> Calling] :
          /\ \A c \in cs, d \in Unused \ cs : c < d
          /\ request' = [c \in Calls |-> IF c \in cs THEN qs[c] ELSE request[c]]
          /\ Moves(cs, "made")
  BY DEF ModelCalls
<1>2. PICK qs \in [cs -> Calling] :
          /\ \A c \in cs, d \in Unused \ cs : c < d
          /\ request' = [c \in Calls |-> IF c \in cs THEN qs[c] ELSE request[c]]
          /\ Moves(cs, "made")
  BY <1>20
<1>3. cs \in SUBSET Calls /\ \A c \in cs : stage[c] = "none"
  BY <1>2 DEF Unused
<1>4. /\ turn' \in TurnRow /\ turn'.at = "check" /\ turn'.pinned = {}
      /\ turn'.available = turn.available /\ turn'.allowed = turn.allowed
  <2>1. turn.pinned = {}
    BY <1>1 DEF ToolInv, CardsFit
  <2> QED  BY <1>1, <2>1, TurnFacts, TurnMoves
<1>5. stage' \in [Calls -> Stages] /\ \A c \in Calls : stage'[c] = IF c \in cs THEN "made" ELSE stage[c]
  <2>1. "made" \in Stages /\ Moves(cs, "made")
    BY <1>2 DEF Stages
  <2> QED  BY <1>3, <2>1, TurnFacts, SomeMove
<1>6. \A c \in cs : qs[c] \in Calling /\ qs[c] \in CallRow
  BY <1>2 DEF Calling
<1>7. /\ request' \in [Calls -> CallRow]
      /\ \A c \in Calls : request'[c] = IF c \in cs THEN qs[c] ELSE request[c]
  BY <1>2, <1>3, <1>6, TurnFacts
<1>8. SettingsTyped' /\ TurnTyped' /\ CallsTyped'
  BY <1>1, <1>4, <1>5, <1>7, SettingsKept DEF ToolInv, ToolTyped, TurnTyped, CallsTyped
<1>9. \A c \in Calls : stage[c] # "none" => c \notin cs /\ request'[c] = request[c] /\ stage'[c] = stage[c]
  BY <1>3, <1>5, <1>7
<1>10. GateTyped' /\ GatesFit'
  <2>1. /\ \A c \in ran : stage'[c] = "done"
        /\ \A c \in Calls : gate[c].at # "none" =>
               request'[c] = request[c] /\ answer'[c] = answer[c] /\ stage'[c] \in {"gateway", "done"}
    BY <1>1, <1>9, TurnFacts
  <2>2. UNCHANGED <<gateVars, ran>>
    BY <1>1
  <2> QED  BY <2>1, <2>2, GatesKept
<1>11. StagesFit'
  <2>1. ASSUME NEW c \in Calls, NEW d \in Calls, stage'[c] # "none", stage'[d] = "none" PROVE c < d
    <3>1. stage[d] = "none" /\ d \notin cs
      BY <1>5, <2>1
    <3>2. CASE c \in cs
      BY <1>2, <3>1, <3>2 DEF Unused
    <3>3. CASE c \notin cs
      BY <1>5, <2>1, <3>1, <3>3 DEF ToolInv, StagesFit
    <3> QED  BY <3>2, <3>3
  <2>2. \A c \in Calls : stage'[c] \in {"none", "made", "done"}
    BY <1>1, <1>5 DEF ToolInv, StagesFit
  <2> QED  BY <1>4, <2>1, <2>2 DEF StagesFit
<1>12. CardsFit'
  <2>1. \A c \in Calls : answer[c] # "none" => stage[c] = "done"
    BY <1>1 DEF ToolInv, CardsFit, StagesFit
  <2>2. \A c \in Calls : answer[c] # "none" => stage'[c] = "done" /\ request'[c].of = 0
    BY <1>9, <2>1 DEF ToolInv, CardsFit
  <2>3. \A c \in Calls : stage'[c] \notin {"ask", "ready"}
    BY <1>1, <1>5 DEF ToolInv, StagesFit
  <2> QED  BY <1>1, <1>4, <2>2, <2>3 DEF CardsFit
<1>13. InputsFit'
  <2>1. InputsFit
    BY DEF ToolInv
  <2>2. \A c \in Calls : asked[c] # 0 => stage[c] = "done"
    BY <2>1, TurnFacts DEF InputsFit
  <2>3. ASSUME NEW c \in cs
        PROVE  /\ request'[c].of # 0 => request'[c].tool = UseIt /\ asked[request'[c].of] # 0 /\ request'[c].of < c
               /\ request'[c].tool = UseIt => request'[c].mcp \in McpTools
    <3> DEFINE q == qs[c]
    <3>1. /\ q \in CallRow /\ q.tool \in Names /\ request'[c] = q /\ c \in Calls
          /\ q.mcp \in IF q.tool = UseIt THEN McpTools ELSE {NoTool}
          /\ q.of # 0 => asked[q.of] # 0 /\ q.mcp = request[q.of].mcp
      BY <1>3, <1>6, <1>7, <2>3 DEF Calling
    <3> HIDE DEF q
    <3>2. q.of \in Calls \union {0}
      BY <3>1 DEF CallRow
    <3>3. ASSUME q.of # 0 PROVE q.tool = UseIt /\ asked[q.of] # 0 /\ q.of < c
      <4>1. asked[q.of] # 0 /\ q.mcp = request[q.of].mcp /\ q.of \in Calls
        BY <3>1, <3>2, <3>3
      <4>2. q.mcp \in McpTools
        BY <2>1, <4>1 DEF InputsFit
      <4>3. q.mcp # NoTool
        BY <4>2, ToolBlanks
      <4>4. stage[q.of] = "done" /\ stage[c] = "none"
        BY <1>3, <2>2, <2>3, <4>1
      <4>5. q.of < c
        BY <3>1, <4>1, <4>4 DEF ToolInv, StagesFit
      <4> QED  BY <3>1, <4>1, <4>3, <4>5
    <3> QED  BY <3>1, <3>3
  <2>4. \A c \in Calls : Taken(c)' => c \notin cs /\ Taken(c) /\ request'[c] = request[c]
    <3>1. \A c \in cs : told[c] = 0 /\ gate[c].at = "none"
      BY <1>3, <2>1, TurnFacts DEF InputsFit
    <3>2. \A c \in Calls : c \notin cs => request'[c] = request[c]
      BY <1>7
    <3> QED  BY <1>1, <3>1, <3>2 DEF Taken, gateVars
  <2>5. \A c \in Calls : asked[c] # 0 \/ told[c] # 0 \/ gate[c].at # "none" => c \notin cs /\ request'[c] = request[c]
    <3>1. \A c \in Calls : told[c] # 0 => c \in ran
      BY <2>1 DEF InputsFit
    <3>2. \A c \in Calls : asked[c] # 0 \/ told[c] # 0 \/ gate[c].at # "none" => stage[c] # "none"
      BY <2>2, <3>1, TurnFacts
    <3> QED  BY <1>9, <3>2
  <2>6. UNCHANGED <<gate, handles, asked, told, ran, message>>
    BY <1>1 DEF gateVars
  <2>7. \A c \in Calls : request'[c].of # 0 => request'[c].tool = UseIt /\ asked[request'[c].of] # 0 /\ request'[c].of < c
    <3>1. \A c \in Calls : c \notin cs => request'[c] = request[c]
      BY <1>7
    <3> QED  BY <2>1, <2>3, <3>1 DEF InputsFit
  <2>8. \A c \in Calls : request'[c].tool = UseIt => request'[c].mcp \in McpTools
    <3>1. \A c \in Calls : c \notin cs => request'[c] = request[c]
      BY <1>7
    <3> QED  BY <2>1, <2>3, <3>1 DEF InputsFit
  <2>9. /\ \A c \in Calls : asked[c] # 0 => c \in ran /\ asked[c] <= message /\ request'[c].mcp \in McpTools
        /\ \A c \in Calls : gate[c].latest <= message
        /\ \A c \in Calls : told[c] # 0 => c \in ran /\ request'[c].of # 0 /\ asked[request'[c].of] < told[c]
        /\ \A c \in Calls : request'[c].of # 0 /\ gate[c].at \in {"live", "send"} => asked[request'[c].of] < gate[c].latest
    BY <2>1, <2>5 DEF InputsFit
  <2>10. /\ \A c \in Calls : Taken(c)' => request'[c].of \notin handles
         /\ \A c, d \in Calls : Taken(c)' /\ Taken(d)' /\ request'[c].of = request'[d].of => c = d
    BY <2>1, <2>4 DEF InputsFit
  <2> QED  BY <2>6, <2>7, <2>8, <2>9, <2>10 DEF InputsFit
<1>14. RunsAsDecided'
  <2>1. \A c \in ran : request'[c] = request[c]
    BY <1>9, TurnFacts
  <2> QED  BY <1>1, <2>1 DEF ToolInv, RunsAsDecided
<1> QED  BY <1>8, <1>10, <1>11, <1>12, <1>13, <1>14 DEF ToolInv, ToolTyped

-----------------------------------------------------------------------------
(* The tools.                                                               *)

LEMMA ReadyFacts ==
    ASSUME ToolInv, NEW c \in Calls, IsReady(c)
    PROVE  /\ turn.at = "tools" /\ stage[c] = "ready" /\ c \notin ran /\ gate[c].at = "none"
           /\ answer[c] # "none" => c \in turn.pinned /\ request[c].of = 0
           /\ asked[c] = 0 /\ told[c] = 0 /\ ~Taken(c)
<1>1. turn.at = "tools" /\ stage[c] = "ready"
  BY DEF IsReady
<1>2. c \notin ran /\ gate[c].at = "none"
  BY <1>1 DEF ToolInv, GatesFit
<1>3. answer[c] # "none" => c \in turn.pinned /\ request[c].of = 0
  BY <1>1 DEF ToolInv, CardsFit
<1>4. asked[c] = 0 /\ told[c] = 0
  BY <1>2 DEF ToolInv, InputsFit
<1> QED  BY <1>1, <1>2, <1>3, <1>4 DEF Taken

\* A ready call that moves on keeps where the others are.
LEMMA ReadyMoves ==
    ASSUME ToolInv, NEW c \in Calls, IsReady(c), NEW to \in {"ask", "gateway", "done"}, Goes(c, to),
           to = "ask" => request[c].tool \notin CardTools /\ request[c].of = 0,
           UNCHANGED <<turn, request, answer, mixed>>
    PROVE  /\ stage' \in [Calls -> Stages] /\ stage'[c] = to /\ \A d \in Calls : d # c => stage'[d] = stage[d]
           /\ StagesFit' /\ CardsFit'
<1>1. stage \in [Calls -> Stages] /\ to \in Stages
  BY TurnFacts DEF Stages
<1>2. stage' \in [Calls -> Stages] /\ stage'[c] = to /\ \A d \in Calls : d # c => stage'[d] = stage[d]
  BY <1>1, OneMoves
<1>3. turn.at = "tools" /\ stage[c] = "ready"
  BY DEF IsReady
<1>4. StagesFit'
  BY <1>2, <1>3 DEF ToolInv, StagesFit
<1>5. CardsFit'
  BY <1>2, <1>3 DEF ToolInv, CardsFit
<1> QED  BY <1>2, <1>4, <1>5

\* A tool that runs in the turn was approved, or the policy that the turn reads lets it run.
LEMMA RunToolInv ==
    ASSUME ToolInv, NEW c \in Calls, RunTool(c)
    PROVE  ToolInv'
<1>1. /\ UNCHANGED <<settingVars, turn, bound, request, answer, mixed, gateVars, message, toolMix, toolsLeft>>
      /\ IsReady(c) /\ Usable(c) /\ ran' = ran \union {c} /\ Goes(c, "done")
      /\ LetBy(c, request[c].tool \in turn.allowed)
  BY DEF RunTool
<1>2. /\ stage' \in [Calls -> Stages] /\ stage'[c] = "done" /\ \A d \in Calls : d # c => stage'[d] = stage[d]
      /\ StagesFit' /\ CardsFit'
  BY <1>1, ReadyMoves
<1>3. /\ let \subseteq let' /\ let' \subseteq let \union {c} /\ (request[c].tool \in turn.allowed => c \in let')
  BY <1>1 DEF LetBy
<1>4. SettingsTyped' /\ TurnTyped' /\ CallsTyped'
  BY <1>1, <1>2, <1>3, SettingsKept DEF ToolInv, ToolTyped, TurnTyped, CallsTyped
<1>5. GateTyped' /\ UNCHANGED <<gate, asked, told, handles>>
  BY <1>1 DEF ToolInv, ToolTyped, GateTyped, gateVars
<1>6. GatesFit'
  <2>1. gate[c].at = "none"
    BY <1>1, ReadyFacts
  <2>2. \A d \in ran' : stage'[d] = "done" /\ gate[d].at = "none"
    <3>1. \A d \in ran : d \in Calls /\ stage[d] = "done" /\ gate[d].at = "none"
      BY TurnFacts DEF ToolInv, GatesFit
    <3> QED  BY <1>1, <1>2, <2>1, <3>1
  <2>3. \A d \in Calls : gate[d].at # "none" =>
          /\ stage'[d] \in {"gateway", "done"} /\ request[d].tool = UseIt /\ answer[d] # "reject" /\ d \notin ran'
          /\ gate[d].marked => answer[d] = "approve"
          /\ request[d].of # 0 => asked[request[d].of] <= gate[d].latest
    BY <1>1, <1>2, <2>1 DEF ToolInv, GatesFit
  <2>4. \A d \in Calls : gate[d].at = "send" => request[d].of # 0 \/ gate[d].allows \/ gate[d].marked
    BY DEF ToolInv, GatesFit
  <2> QED  BY <1>1, <1>5, <2>2, <2>3, <2>4 DEF GatesFit
<1>7. InputsFit'
  BY <1>1, <1>5, TurnFacts, InputsKept
<1>8. c \in mixed \/ answer[c] = "approve" \/ (answer[c] = "none" /\ c \in let')
  <2>1. request[c].tool \in turn.available
    BY <1>1 DEF Usable
  <2>2. CASE request[c].tool \in CardTools
    BY <1>1, <1>3, <2>1, <2>2 DEF ToolInv, CardsFit, IsReady
  <2>3. CASE Needs(c) => answer[c] = "approve"
    BY <1>1, <1>3, <2>3, ReadyFacts DEF Needs
  <2> QED  BY <2>2, <2>3 DEF RunTool
<1>9. RunsAsDecided'
  <2>1. \A d \in ran \ mixed : \/ answer[d] = "approve"
                               \/ answer[d] = "none" /\ (d \in let \/ (request[d].of \in ran /\ request[d].of < d))
    BY DEF ToolInv, RunsAsDecided
  <2> QED  BY <1>1, <1>3, <1>8, <2>1 DEF RunsAsDecided
<1> QED  BY <1>2, <1>4, <1>5, <1>6, <1>7, <1>9 DEF ToolInv, ToolTyped

\* A call that is refused, rejected or begins to ask takes no effect.
LEMMA IdleToolInv ==
    ASSUME ToolInv, NEW c \in Calls, RefuseTool(c) \/ TakeRejection(c) \/ AskUser(c)
    PROVE  ToolInv'
<1>1. /\ UNCHANGED <<settingVars, turn, bound, request, answer, ran, let, mixed, gateVars, message, toolMix, toolsLeft>>
      /\ IsReady(c)
  BY DEF RefuseTool, TakeRejection, AskUser
<1>2. PICK to \in {"ask", "done"} :
        Goes(c, to) /\ (to = "ask" => request[c].tool \notin CardTools /\ request[c].of = 0)
  BY DEF RefuseTool, TakeRejection, AskUser
<1>3. /\ stage' \in [Calls -> Stages] /\ stage'[c] = to /\ \A d \in Calls : d # c => stage'[d] = stage[d]
      /\ StagesFit' /\ CardsFit'
  <2>1. UNCHANGED <<turn, request, answer, mixed>> /\ to \in {"ask", "gateway", "done"}
    BY <1>1
  <2> QED  BY <1>1, <1>2, <2>1, ReadyMoves
<1>4. SettingsTyped' /\ TurnTyped' /\ CallsTyped'
  BY <1>1, <1>3, SettingsKept DEF ToolInv, ToolTyped, TurnTyped, CallsTyped
<1>5. GateTyped' /\ GatesFit'
  <2>1. /\ \A d \in ran : stage'[d] = "done"
        /\ \A d \in Calls : gate[d].at # "none" =>
               request'[d] = request[d] /\ answer'[d] = answer[d] /\ stage'[d] \in {"gateway", "done"}
    BY <1>1, <1>3, ReadyFacts, TurnFacts
  <2>2. UNCHANGED <<gateVars, ran>>
    BY <1>1
  <2> QED  BY <2>1, <2>2, GatesKept
<1>6. InputsFit'
  BY <1>1, TurnFacts, InputsKept DEF gateVars
<1>7. RunsAsDecided'
  BY <1>1, DecidedKept
<1> QED  BY <1>3, <1>4, <1>5, <1>6, <1>7 DEF ToolInv, ToolTyped

\* A call that goes to the gateway has its marker only once it was approved, and is not one that was rejected.
LEMMA PostInv ==
    ASSUME ToolInv, NEW c \in Calls, CallGateway(c) \/ MintApproval(c)
    PROVE  ToolInv'
<1>1. /\ UNCHANGED <<settingVars, turn, bound, request, answer, ran, let, mixed, handles, asked, told,
                     message, toolMix, toolsLeft>>
      /\ IsReady(c) /\ request[c].tool = UseIt /\ Goes(c, "gateway")
  BY DEF CallGateway, MintApproval
<1>2. PICK b \in BOOLEAN : Posts(c, b) /\ (b => answer[c] = "approve")
  <2>1. CASE CallGateway(c)
    BY <2>1 DEF CallGateway
  <2>2. CASE MintApproval(c)
    <3> DEFINE k == request[c].mcp \in offered
    <3>1. k \in BOOLEAN /\ Posts(c, k) /\ answer[c] = "approve"
      BY <2>2 DEF MintApproval
    <3> HIDE DEF k
    <3> QED  BY <3>1
  <2> QED  BY <2>1, <2>2
<1>3. answer[c] # "reject"
  <2>1. CASE CallGateway(c)
    BY <1>1, <2>1, ReadyFacts DEF CallGateway, Needs
  <2>2. CASE MintApproval(c)
    BY <2>2 DEF MintApproval
  <2> QED  BY <2>1, <2>2
<1>4. approvals' \in SUBSET Calls
  <2>1. approvals \in SUBSET Calls
    BY DEF ToolInv, ToolTyped, GateTyped
  <2> QED  BY <2>1 DEF CallGateway, MintApproval
<1>5. /\ stage' \in [Calls -> Stages] /\ stage'[c] = "gateway" /\ \A d \in Calls : d # c => stage'[d] = stage[d]
      /\ StagesFit' /\ CardsFit'
  BY <1>1, ReadyMoves
<1>6. /\ gate' \in [Calls -> GateRow]
      /\ gate'[c].at = "grant" /\ gate'[c].marked = b /\ gate'[c].latest = message
      /\ \A d \in Calls : d # c => gate'[d] = gate[d]
  <2>1. gate \in [Calls -> GateRow] /\ message \in Nat
    BY DEF ToolInv, ToolTyped, GateTyped, TurnTyped
  <2> QED  BY <1>2, <2>1, GateBegins
<1>7. SettingsTyped' /\ TurnTyped' /\ CallsTyped' /\ GateTyped'
  BY <1>1, <1>4, <1>5, <1>6, SettingsKept DEF ToolInv, ToolTyped, TurnTyped, CallsTyped, GateTyped
<1>8. GatesFit'
  <2>1. request[c].of # 0 => asked[request[c].of] <= message
    <3>1. request[c].of # 0 => request[c].of \in Calls /\ asked[request[c].of] # 0
      BY TurnFacts DEF ToolInv, InputsFit, CallRow
    <3> QED  BY <3>1 DEF ToolInv, InputsFit
  <2>2. c \notin ran /\ \A d \in ran : stage[d] = "done" /\ gate[d].at = "none" /\ d \in Calls
    BY <1>1, ReadyFacts, TurnFacts DEF ToolInv, GatesFit
  <2>3. \A d \in ran : stage'[d] = "done" /\ gate'[d].at = "none"
    BY <1>5, <1>6, <2>2
  <2>4. /\ stage'[c] \in {"gateway", "done"} /\ request[c].tool = UseIt /\ answer[c] # "reject" /\ c \notin ran
        /\ gate'[c].marked => answer[c] = "approve"
        /\ request[c].of # 0 => asked[request[c].of] <= gate'[c].latest
        /\ gate'[c].at # "send"
    BY <1>1, <1>2, <1>3, <1>5, <1>6, <2>1, <2>2
  <2>5. \A d \in Calls : d # c /\ gate'[d].at # "none" =>
          /\ stage'[d] \in {"gateway", "done"} /\ request[d].tool = UseIt /\ answer[d] # "reject" /\ d \notin ran
          /\ gate'[d].marked => answer[d] = "approve"
          /\ request[d].of # 0 => asked[request[d].of] <= gate'[d].latest
    BY <1>5, <1>6 DEF ToolInv, GatesFit
  <2>6. \A d \in Calls : d # c /\ gate'[d].at = "send" => request[d].of # 0 \/ gate'[d].allows \/ gate'[d].marked
    BY <1>6 DEF ToolInv, GatesFit
  <2> QED  BY <1>1, <2>3, <2>4, <2>5, <2>6 DEF GatesFit
<1>9. InputsFit'
  <2>1. InputsFit /\ ~Taken(c) /\ told[c] = 0 /\ message \in Nat
    BY <1>1, ReadyFacts, TurnFacts DEF ToolInv
  <2>2. \A d \in Calls : Taken(d)' <=> Taken(d)
    BY <1>1, <1>6, <2>1 DEF Taken
  <2>3. \A d \in Calls : gate'[d].latest <= message
    BY <1>6, <2>1 DEF InputsFit
  <2>4. \A d \in Calls : request[d].of # 0 /\ gate'[d].at \in {"live", "send"} => asked[request[d].of] < gate'[d].latest
    BY <1>6, <2>1 DEF InputsFit
  <2>5. /\ \A d \in Calls : Taken(d)' => request[d].of \notin handles
        /\ \A d, e \in Calls : Taken(d)' /\ Taken(e)' /\ request[d].of = request[e].of => d = e
    BY <2>1, <2>2 DEF InputsFit
  <2> QED  BY <1>1, <2>1, <2>3, <2>4, <2>5 DEF InputsFit
<1>10. RunsAsDecided'
  BY <1>1, DecidedKept
<1> QED  BY <1>5, <1>7, <1>8, <1>9, <1>10 DEF ToolInv, ToolTyped

-----------------------------------------------------------------------------
(* The gateway.                                                             *)

LEMMA GateFacts ==
    ASSUME ToolInv, NEW c \in Calls, gate[c].at # "none"
    PROVE  /\ gate \in [Calls -> GateRow] /\ gate[c] \in GateRow /\ stage \in [Calls -> Stages]
           /\ stage[c] \in {"gateway", "done"} /\ request[c].tool = UseIt /\ request[c].tool \notin CardTools
           /\ answer[c] # "reject" /\ c \notin ran /\ told[c] = 0 /\ asked[c] = 0
           /\ request[c].of \in Calls \union {0} /\ approvals \in SUBSET Calls /\ handles \in SUBSET Calls
           /\ asked \in [Calls -> Nat] /\ gate[c].latest \in Nat
<1>1. /\ gate \in [Calls -> GateRow] /\ stage \in [Calls -> Stages] /\ request \in [Calls -> CallRow]
      /\ asked \in [Calls -> Nat] /\ approvals \in SUBSET Calls /\ handles \in SUBSET Calls
  BY DEF ToolInv, ToolTyped, GateTyped, CallsTyped
<1>2. gate[c] \in GateRow /\ gate[c].latest \in Nat /\ request[c].of \in Calls \union {0}
  BY <1>1 DEF GateRow, CallRow
<1>3. stage[c] \in {"gateway", "done"} /\ request[c].tool = UseIt /\ answer[c] # "reject" /\ c \notin ran
  BY DEF ToolInv, GatesFit
<1>4. told[c] = 0 /\ asked[c] = 0
  BY <1>3 DEF ToolInv, InputsFit
<1> QED  BY <1>1, <1>2, <1>3, <1>4, ToolCallsAssumption

LEMMA GateStages ==
    ASSUME ToolInv, NEW c \in Calls, gate[c].at # "none", UNCHANGED <<turn, request, answer, mixed>>,
           \A d \in Calls : d # c => stage'[d] = stage[d],
           stage'[c] = stage[c] \/ (stage[c] = "gateway" /\ stage'[c] = "done")
              \/ (stage[c] = "gateway" /\ stage'[c] = "ask" /\ request[c].of = 0)
    PROVE  StagesFit' /\ CardsFit'
<1>1. stage[c] \in {"gateway", "done"} /\ request[c].tool \notin CardTools
  BY GateFacts
<1>2. StagesFit'
  <2>1. stage[c] = "gateway" => turn.at = "tools"
    BY DEF ToolInv, StagesFit, ToolTyped, TurnTyped, TurnRow
  <2>2. CASE stage'[c] = stage[c]
    <3>1. \A d \in Calls : stage'[d] = stage[d]
      BY <2>2
    <3> QED  BY <3>1 DEF ToolInv, StagesFit
  <2>3. CASE stage[c] = "gateway" /\ stage'[c] \in {"ask", "done"}
    <3>1. \A d \in Calls : stage'[d] \in {"none", "ready", "ask", "gateway", "done"}
      BY <2>1, <2>3 DEF ToolInv, StagesFit
    <3>2. \A d, e \in Calls : stage'[d] # "none" /\ stage'[e] = "none" => d < e
      BY <2>3 DEF ToolInv, StagesFit
    <3> QED  BY <2>1, <2>3, <3>1, <3>2 DEF StagesFit
  <2> QED  BY <2>2, <2>3
<1>3. CardsFit'
  <2>1. CASE stage'[c] = stage[c]
    <3>1. \A d \in Calls : stage'[d] = stage[d]
      BY <2>1
    <3> QED  BY <3>1, TurnFacts DEF ToolInv, CardsFit
  <2>2. CASE stage[c] = "gateway" /\ stage'[c] \in {"ask", "done"}
    <3>1. turn.at = "tools"
      BY <2>2 DEF ToolInv, StagesFit, ToolTyped, TurnTyped, TurnRow
    <3>2. stage'[c] = "ask" => request[c].of = 0
      BY <2>2
    <3> QED  BY <1>1, <2>2, <3>1, <3>2 DEF ToolInv, CardsFit
  <2> QED  BY <2>1, <2>2
<1> QED  BY <1>2, <1>3

\* A call that goes on: to be sent to the server it must be let through, and with an answer for it have taken the handle.
LEMMA GoesOnInv ==
    ASSUME ToolInv, NEW c \in Calls, gate[c].at # "none",
           UNCHANGED <<settingVars, turn, bound, request, answer, ran, let, mixed, stage, asked, told,
                       message, toolMix, toolsLeft>>,
           gate' \in [Calls -> GateRow], \A d \in Calls : d # c => gate'[d] = gate[d],
           gate'[c].at # "none", gate'[c].marked = gate[c].marked, gate'[c].latest = gate[c].latest,
           gate'[c].at = "send" => request[c].of # 0 \/ gate'[c].allows \/ gate'[c].marked,
           approvals' \in SUBSET Calls, handles' \subseteq handles,
           request[c].of # 0 /\ gate'[c].at \in {"live", "send"} =>
               /\ asked[request[c].of] < gate[c].latest /\ request[c].of \notin handles'
               /\ \A d \in Calls : d # c /\ Taken(d) => request[d].of # request[c].of
    PROVE  ToolInv'
<1>1. StagesFit' /\ CardsFit'
  BY GateStages
<1>2. SettingsTyped' /\ TurnTyped' /\ CallsTyped' /\ GateTyped'
  BY SettingsKept DEF ToolInv, ToolTyped, TurnTyped, CallsTyped, GateTyped
<1>3. GatesFit'
  <2>1. \A d \in ran : stage[d] = "done" /\ gate'[d].at = "none"
    BY GateFacts, TurnFacts DEF ToolInv, GatesFit
  <2>2. \A d \in Calls : gate'[d].at # "none" =>
          /\ stage[d] \in {"gateway", "done"} /\ request[d].tool = UseIt /\ answer[d] # "reject" /\ d \notin ran
          /\ gate'[d].marked => answer[d] = "approve"
          /\ request[d].of # 0 => asked[request[d].of] <= gate'[d].latest
    BY DEF ToolInv, GatesFit
  <2>3. \A d \in Calls : gate'[d].at = "send" => request[d].of # 0 \/ gate'[d].allows \/ gate'[d].marked
    BY DEF ToolInv, GatesFit
  <2> QED  BY <2>1, <2>2, <2>3 DEF GatesFit
<1>4. InputsFit'
  <2>1. InputsFit
    BY DEF ToolInv
  <2>2. \A d \in Calls : d # c => (Taken(d)' <=> Taken(d))
    BY DEF Taken
  <2>3. Taken(c)' => request[c].of # 0 /\ gate'[c].at \in {"live", "send"}
    BY GateFacts DEF Taken
  <2>4. \A d \in Calls : gate'[d].latest <= message
    BY <2>1 DEF InputsFit
  <2>5. \A d \in Calls : request[d].of # 0 /\ gate'[d].at \in {"live", "send"} => asked[request[d].of] < gate'[d].latest
    BY <2>1 DEF InputsFit
  <2>6. \A d \in Calls : Taken(d)' => request[d].of \notin handles'
    BY <2>1, <2>2, <2>3 DEF InputsFit
  <2>7. \A d, e \in Calls : Taken(d)' /\ Taken(e)' /\ request[d].of = request[e].of => d = e
    <3>1. \A d, e \in Calls : d # c /\ e # c /\ Taken(d)' /\ Taken(e)' /\ request[d].of = request[e].of => d = e
      BY <2>1, <2>2 DEF InputsFit
    <3>2. \A d \in Calls : d # c /\ Taken(d)' /\ Taken(c)' => request[d].of # request[c].of
      BY <2>2, <2>3
    <3> QED  BY <3>1, <3>2
  <2> QED  BY <2>1, <2>4, <2>5, <2>6, <2>7 DEF InputsFit
<1>5. RunsAsDecided'
  BY DecidedKept
<1> QED  BY <1>1, <1>2, <1>3, <1>4, <1>5 DEF ToolInv, ToolTyped

\* A call that is over without an effect.
LEMMA EndsInv ==
    ASSUME ToolInv, NEW c \in Calls, gate[c].at # "none", NEW b \in BOOLEAN, Replies(c, b), b => request[c].of = 0,
           UNCHANGED <<settingVars, turn, bound, request, answer, ran, let, mixed, asked, told,
                       message, toolMix, toolsLeft>>,
           approvals' \in SUBSET Calls, handles' \subseteq handles
    PROVE  ToolInv'
<1>1. /\ gate' \in [Calls -> GateRow] /\ gate'[c].at = "none" /\ gate'[c].latest = gate[c].latest
      /\ \A d \in Calls : d # c => gate'[d] = gate[d] /\ stage'[d] = stage[d]
      /\ stage' \in [Calls -> Stages]
      /\ stage[c] # "gateway" => stage'[c] = stage[c]
      /\ stage[c] = "gateway" => stage'[c] \in {"ask", "done"} /\ (~b => stage'[c] = "done")
  BY GateFacts, ReplyMoves
<1>2. /\ stage'[c] = stage[c] \/ (stage[c] = "gateway" /\ stage'[c] = "done")
            \/ (stage[c] = "gateway" /\ stage'[c] = "ask" /\ request[c].of = 0)
  BY <1>1
<1>3. StagesFit' /\ CardsFit'
  BY <1>1, <1>2, GateStages
<1>4. SettingsTyped' /\ TurnTyped' /\ CallsTyped' /\ GateTyped'
  BY <1>1, SettingsKept, GateFacts DEF ToolInv, ToolTyped, TurnTyped, CallsTyped, GateTyped
<1>5. GatesFit'
  <2>1. \A d \in ran : stage'[d] = "done" /\ gate'[d].at = "none"
    BY <1>1, GateFacts, TurnFacts DEF ToolInv, GatesFit
  <2>2. \A d \in Calls : gate'[d].at # "none" =>
          /\ stage'[d] \in {"gateway", "done"} /\ request[d].tool = UseIt /\ answer[d] # "reject" /\ d \notin ran
          /\ gate'[d].marked => answer[d] = "approve"
          /\ request[d].of # 0 => asked[request[d].of] <= gate'[d].latest
    BY <1>1 DEF ToolInv, GatesFit
  <2>3. \A d \in Calls : gate'[d].at = "send" => request[d].of # 0 \/ gate'[d].allows \/ gate'[d].marked
    BY <1>1 DEF ToolInv, GatesFit
  <2> QED  BY <2>1, <2>2, <2>3 DEF GatesFit
<1>6. InputsFit'
  <2>1. InputsFit /\ told[c] = 0
    BY GateFacts DEF ToolInv
  <2>2. \A d \in Calls : Taken(d)' => d # c /\ Taken(d)
    BY <1>1, <2>1 DEF Taken
  <2>3. \A d \in Calls : gate'[d].latest <= message
    BY <1>1, <2>1 DEF InputsFit
  <2>4. \A d \in Calls : request[d].of # 0 /\ gate'[d].at \in {"live", "send"} => asked[request[d].of] < gate'[d].latest
    BY <1>1, <2>1 DEF InputsFit
  <2>5. /\ \A d \in Calls : Taken(d)' => request[d].of \notin handles'
        /\ \A d, e \in Calls : Taken(d)' /\ Taken(e)' /\ request[d].of = request[e].of => d = e
    BY <2>1, <2>2 DEF InputsFit
  <2> QED  BY <2>1, <2>3, <2>4, <2>5 DEF InputsFit
<1>7. RunsAsDecided'
  BY DecidedKept
<1> QED  BY <1>3, <1>4, <1>5, <1>6, <1>7 DEF ToolInv, ToolTyped

LEMMA GrantCallInv ==
    ASSUME ToolInv, NEW c \in Calls, GrantCall(c)
    PROVE  ToolInv'
<1>1. /\ UNCHANGED <<settingVars, turn, bound, callVars, approvals, handles, asked, told, message, toolMix, toolsLeft>>
      /\ gate[c].at = "grant"
  BY DEF GrantCall, GateAt
<1> DEFINE a == request[c].mcp \in offered /\ Available(request[c].mcp)
           b == Allowed(request[c].mcp)
           r == [gate[c] EXCEPT !.at = "op", !.available = a, !.allows = b]
<1>2. gate' = [gate EXCEPT ![c] = r]
  BY DEF GrantCall
<1>3. a \in BOOLEAN /\ b \in BOOLEAN
  BY DEF Allowed
<1> HIDE DEF a, b
<1>4. gate[c] \in GateRow /\ gate \in [Calls -> GateRow] /\ approvals \in SUBSET Calls
  BY <1>1, GateFacts
<1>5. r \in GateRow /\ r.at = "op" /\ r.marked = gate[c].marked /\ r.latest = gate[c].latest
  BY <1>3, <1>4 DEF GateRow
<1> HIDE DEF r
<1>6. gate' \in [Calls -> GateRow] /\ gate'[c] = r /\ \A d \in Calls : d # c => gate'[d] = gate[d]
  BY <1>2, <1>4, <1>5
<1>7. gate'[c].at = "op" /\ gate'[c].marked = gate[c].marked /\ gate'[c].latest = gate[c].latest
  BY <1>5, <1>6
<1>8. UNCHANGED <<request, answer, ran, let, mixed, stage>> /\ approvals' \in SUBSET Calls /\ handles' \subseteq handles
  BY <1>1, <1>4 DEF callVars
<1> QED  BY <1>1, <1>6, <1>7, <1>8, GoesOnInv

\* Who takes a handle takes it from all others.
LEMMA BeginOpInv ==
    ASSUME ToolInv, NEW c \in Calls, BeginOp(c)
    PROVE  ToolInv'
<1>1. /\ UNCHANGED <<settingVars, turn, bound, request, answer, ran, let, mixed, approvals, asked, told,
                     message, toolMix, toolsLeft>>
      /\ gate[c].at = "op"
  BY DEF BeginOp, GateAt
<1>2. /\ gate \in [Calls -> GateRow] /\ approvals \in SUBSET Calls /\ handles \in SUBSET Calls
      /\ request[c].of \in Calls \union {0} /\ told[c] = 0 /\ asked \in [Calls -> Nat] /\ gate[c].latest \in Nat
  BY <1>1, GateFacts
<1>3. CASE gate[c].available /\ (request[c].of # 0 => Answerable(c))
  <2>1. GateGoes(c, "live") /\ handles' = handles \ {request[c].of} /\ UNCHANGED stage
    BY <1>3 DEF BeginOp
  <2>2. /\ gate' \in [Calls -> GateRow] /\ gate'[c].at = "live" /\ gate'[c].marked = gate[c].marked
        /\ gate'[c].latest = gate[c].latest /\ \A d \in Calls : d # c => gate'[d] = gate[d]
    BY <1>2, <2>1, GateMoves DEF GateAts
  <2>3. ASSUME request[c].of # 0
        PROVE  /\ asked[request[c].of] < gate[c].latest /\ request[c].of \notin handles'
               /\ \A d \in Calls : d # c /\ Taken(d) => request[d].of # request[c].of
    <3>1. request[c].of \in handles /\ gate[c].latest # asked[request[c].of] /\ request[c].of \in Calls
      BY <1>2, <1>3, <2>3 DEF Answerable
    <3>2. asked[request[c].of] <= gate[c].latest
      BY <1>1, <2>3 DEF ToolInv, GatesFit
    <3>3. \A d \in Calls : Taken(d) => request[d].of \notin handles
      BY DEF ToolInv, InputsFit
    <3>4. asked[request[c].of] \in Nat
      BY <1>2, <3>1
    <3>5. asked[request[c].of] < gate[c].latest
      BY <1>2, <3>1, <3>2, <3>4
    <3> QED  BY <2>1, <3>1, <3>3, <3>5
  <2>4. approvals' \in SUBSET Calls /\ handles' \subseteq handles
    BY <1>1, <1>2, <2>1
  <2> QED  BY <1>1, <2>1, <2>2, <2>3, <2>4, GoesOnInv
<1>4. CASE ~(gate[c].available /\ (request[c].of # 0 => Answerable(c)))
  <2>1. Replies(c, FALSE) /\ UNCHANGED handles
    BY <1>4 DEF BeginOp
  <2>2. approvals' \in SUBSET Calls /\ handles' \subseteq handles /\ gate[c].at # "none"
    BY <1>1, <1>2, <2>1
  <2> QED  BY <1>1, <2>1, <2>2, EndsInv
<1> QED  BY <1>3, <1>4

LEMMA CheckLiveInv ==
    ASSUME ToolInv, NEW c \in Calls, CheckLive(c)
    PROVE  ToolInv'
<1>1. /\ UNCHANGED <<settingVars, turn, bound, request, answer, ran, let, mixed, handles, asked, told,
                     message, toolMix, toolsLeft>>
      /\ gate[c].at = "live" /\ gate[c].at # "none"
  BY DEF CheckLive, GateAt
<1>2. gate \in [Calls -> GateRow] /\ approvals \in SUBSET Calls /\ told[c] = 0
  BY <1>1, GateFacts
<1>3. approvals' \in SUBSET Calls /\ handles' \subseteq handles
  BY <1>1, <1>2 DEF CheckLive
<1>4. CASE request[c].mcp \in served /\ LetThrough(c)
  <2>1. GateGoes(c, "send") /\ UNCHANGED stage
    BY <1>4 DEF CheckLive
  <2>2. /\ gate' \in [Calls -> GateRow] /\ gate'[c].at = "send" /\ gate'[c].marked = gate[c].marked
        /\ gate'[c].allows = gate[c].allows
        /\ gate'[c].latest = gate[c].latest /\ \A d \in Calls : d # c => gate'[d] = gate[d]
    BY <1>2, <2>1, GateMoves DEF GateAts
  <2>3. request[c].of # 0 \/ gate'[c].allows \/ gate'[c].marked
    BY <1>4, <2>2 DEF LetThrough
  <2>4. ASSUME request[c].of # 0
        PROVE  /\ asked[request[c].of] < gate[c].latest /\ request[c].of \notin handles'
               /\ \A d \in Calls : d # c /\ Taken(d) => request[d].of # request[c].of
    <3>1. Taken(c)
      BY <1>1, <2>4 DEF Taken
    <3> QED  BY <1>1, <2>4, <3>1 DEF ToolInv, InputsFit
  <2>5. gate'[c].at # "none"
    BY <2>2
  <2> QED  BY <1>1, <1>3, <2>1, <2>2, <2>3, <2>4, <2>5, GoesOnInv
<1>5. CASE ~(request[c].mcp \in served /\ LetThrough(c))
  <2> DEFINE b == request[c].mcp \in served
  <2>1. Replies(c, b) /\ b \in BOOLEAN
    BY <1>5 DEF CheckLive
  <2>2. b => request[c].of = 0
    BY <1>5 DEF LetThrough
  <2> HIDE DEF b
  <2> QED  BY <1>1, <1>3, <2>1, <2>2, EndsInv
<1> QED  BY <1>4, <1>5

LEMMA SignInRefusedInv ==
    ASSUME ToolInv, NEW c \in Calls, SignInRefused(c) \/ GateFails(c)
    PROVE  ToolInv'
<1>1. /\ UNCHANGED <<settingVars, turn, bound, request, answer, ran, let, mixed, approvals, handles, asked, told,
                     message, toolMix, toolsLeft>>
      /\ gate[c].at # "none"
  BY DEF SignInRefused, GateFails
<1>2. gate \in [Calls -> GateRow] /\ gate[c] \in GateRow /\ approvals \in SUBSET Calls
  BY <1>1, GateFacts
<1>3. approvals' \in SUBSET Calls /\ handles' \subseteq handles
  BY <1>1, <1>2
<1>4. CASE Replies(c, FALSE)
  BY <1>1, <1>3, <1>4, EndsInv
<1> DEFINE r == [gate[c] EXCEPT !.at = "op", !.again = TRUE]
<1>5. CASE gate' = [gate EXCEPT ![c] = r] /\ UNCHANGED stage
  <2>1. r \in GateRow /\ r.at = "op" /\ r.marked = gate[c].marked /\ r.latest = gate[c].latest
    BY <1>2 DEF GateRow
  <2> HIDE DEF r
  <2>2. gate' \in [Calls -> GateRow] /\ gate'[c] = r /\ \A d \in Calls : d # c => gate'[d] = gate[d]
    BY <1>2, <1>5, <2>1
  <2>3. gate'[c].at = "op" /\ gate'[c].marked = gate[c].marked /\ gate'[c].latest = gate[c].latest
    BY <2>1, <2>2
  <2> QED  BY <1>1, <1>3, <1>5, <2>2, <2>3, GoesOnInv
<1>6. Replies(c, FALSE) \/ (gate' = [gate EXCEPT ![c] = r] /\ UNCHANGED stage)
  BY DEF SignInRefused, GateFails
<1> QED  BY <1>4, <1>5, <1>6

\* The server's turn: the call was let through, and whoever answers is the only one.
LEMMA CallToolInv ==
    ASSUME ToolInv, NEW c \in Calls, CallTool(c)
    PROVE  ToolInv'
<1>1. /\ UNCHANGED <<settingVars, turn, bound, request, answer, mixed, approvals, message, toolMix, toolsLeft>>
      /\ gate[c].at = "send" /\ gate[c].at # "none" /\ ran' = ran \union {c} /\ Replies(c, FALSE)
      /\ told' = [told EXCEPT ![c] = IF request[c].of # 0 THEN gate[c].latest ELSE 0]
  BY DEF CallTool, GateAt
<1>2. /\ gate \in [Calls -> GateRow] /\ stage \in [Calls -> Stages] /\ stage[c] \in {"gateway", "done"}
      /\ request[c].tool = UseIt /\ answer[c] # "reject" /\ c \notin ran /\ told[c] = 0 /\ asked[c] = 0
      /\ request[c].of \in Calls \union {0} /\ handles \in SUBSET Calls
      /\ asked \in [Calls -> Nat] /\ gate[c].latest \in Nat
  BY <1>1, GateFacts
<1>3. /\ gate' \in [Calls -> GateRow] /\ gate'[c].at = "none" /\ gate'[c].latest = gate[c].latest
      /\ \A d \in Calls : d # c => gate'[d] = gate[d] /\ stage'[d] = stage[d]
      /\ stage' \in [Calls -> Stages] /\ stage'[c] = "done"
  BY <1>1, <1>2, ReplyMoves
<1>4. StagesFit' /\ CardsFit'
  <2>1. stage'[c] = stage[c] \/ (stage[c] = "gateway" /\ stage'[c] = "done")
    BY <1>2, <1>3
  <2> QED  BY <1>1, <1>3, <2>1, GateStages
<1>5. /\ told' \in [Calls -> Nat] /\ told'[c] = IF request[c].of # 0 THEN gate[c].latest ELSE 0
      /\ \A d \in Calls : d # c => told'[d] = told[d]
  <2>1. told \in [Calls -> Nat]
    BY DEF ToolInv, ToolTyped, GateTyped
  <2> QED  BY <1>1, <1>2, <2>1
<1>6. /\ asked' \in [Calls -> Nat] /\ asked'[c] \in {0, gate[c].latest}
      /\ \A d \in Calls : d # c => asked'[d] = asked[d]
      /\ handles' \subseteq handles \union {c}
  BY <1>2 DEF CallTool
<1>7. let \subseteq let' /\ let' \subseteq let \union {c} /\ (gate[c].allows /\ request[c].of = 0 => c \in let')
  BY DEF CallTool, LetBy
<1>8. SettingsTyped' /\ TurnTyped' /\ CallsTyped' /\ GateTyped'
  <2>1. let' \in SUBSET Calls /\ ran' \in SUBSET Calls /\ handles' \in SUBSET Calls
    BY <1>1, <1>2, <1>6, <1>7 DEF ToolInv, ToolTyped, CallsTyped
  <2>2. SettingsTyped' /\ TurnTyped'
    BY <1>1, SettingsKept DEF ToolInv, ToolTyped, TurnTyped
  <2>3. CallsTyped'
    BY <1>1, <1>3, <2>1 DEF ToolInv, ToolTyped, CallsTyped
  <2>4. GateTyped'
    BY <1>1, <1>3, <1>5, <1>6, <2>1 DEF ToolInv, ToolTyped, GateTyped
  <2> QED  BY <2>2, <2>3, <2>4
\* Nobody answers what this call's server may ask, for it has asked nothing before.
<1>9. \A d \in Calls : request[d].of # c
  BY <1>2, ToolBlanks DEF ToolInv, InputsFit
<1>10. GatesFit'
  <2>1. \A d \in ran' : stage'[d] = "done" /\ gate'[d].at = "none"
    <3>1. \A d \in ran : d # c /\ d \in Calls /\ stage[d] = "done" /\ gate[d].at = "none"
      BY <1>2, TurnFacts DEF ToolInv, GatesFit
    <3> QED  BY <1>1, <1>3, <3>1
  <2>2. \A d \in Calls : request[d].of \in Calls \union {0}
    BY TurnFacts DEF CallRow
  <2>3. \A d \in Calls : request[d].of # 0 => asked'[request[d].of] = asked[request[d].of]
    BY <1>6, <1>9, <2>2
  <2>4. \A d \in Calls : gate'[d].at # "none" => d # c /\ gate'[d] = gate[d] /\ stage'[d] = stage[d]
    BY <1>3
  <2>5. \A d \in Calls : gate'[d].at # "none" =>
          /\ stage'[d] \in {"gateway", "done"} /\ request[d].tool = UseIt /\ answer[d] # "reject" /\ d \notin ran'
          /\ gate'[d].marked => answer[d] = "approve"
          /\ request[d].of # 0 => asked'[request[d].of] <= gate'[d].latest
    BY <1>1, <2>3, <2>4 DEF ToolInv, GatesFit
  <2>6. \A d \in Calls : gate'[d].at = "send" => request[d].of # 0 \/ gate'[d].allows \/ gate'[d].marked
    BY <1>3, <2>4 DEF ToolInv, GatesFit
  <2> QED  BY <1>1, <2>1, <2>5, <2>6 DEF GatesFit
<1>11. InputsFit'
  <2>1. InputsFit
    BY DEF ToolInv
  <2>2. \A d \in Calls : request[d].of \in Calls \union {0}
    BY TurnFacts DEF CallRow
  <2>3. \A d \in Calls : request[d].of # 0 => request[d].of # c /\ asked'[request[d].of] = asked[request[d].of]
    BY <1>6, <1>9, <2>2
  <2>4. \A d \in Calls : asked'[d] # 0 => d \in ran' /\ asked'[d] <= message /\ request[d].mcp \in McpTools
    BY <1>1, <1>2, <1>6, <2>1 DEF InputsFit
  <2>5. \A d \in Calls : gate'[d].latest <= message
    BY <1>3, <2>1 DEF InputsFit
  <2>6. \A d \in Calls : request[d].of # 0 => request[d].tool = UseIt /\ asked'[request[d].of] # 0 /\ request[d].of < d
    BY <2>1, <2>3 DEF InputsFit
  <2>7. \A d \in Calls : told'[d] # 0 => d \in ran' /\ request[d].of # 0 /\ asked'[request[d].of] < told'[d]
    <3>1. told'[c] # 0 => request[c].of # 0 /\ asked[request[c].of] < told'[c]
      BY <1>1, <1>5, <2>1 DEF InputsFit
    <3>2. \A d \in Calls : d # c /\ told'[d] # 0 => d \in ran /\ request[d].of # 0 /\ asked[request[d].of] < told'[d]
      BY <1>5, <2>1 DEF InputsFit
    <3> QED  BY <1>1, <2>3, <3>1, <3>2
  <2>8. \A d \in Calls : request[d].of # 0 /\ gate'[d].at \in {"live", "send"} => asked'[request[d].of] < gate'[d].latest
    <3>1. \A d \in Calls : gate'[d].at \in {"live", "send"} => gate'[d] = gate[d]
      BY <1>3
    <3> QED  BY <2>1, <2>3, <3>1 DEF InputsFit
  <2>9. \A d \in Calls : Taken(d)' => Taken(d)
    <3>1. Taken(c)' => Taken(c)
      BY <1>1, <1>3, <1>5 DEF Taken
    <3>2. \A d \in Calls : d # c => (Taken(d)' <=> Taken(d))
      BY <1>1, <1>3, <1>5 DEF Taken
    <3> QED  BY <3>1, <3>2
  <2>10. \A d \in Calls : Taken(d)' => request[d].of \notin handles'
    BY <1>6, <1>9, <2>1, <2>9 DEF InputsFit
  <2>11. \A d, e \in Calls : Taken(d)' /\ Taken(e)' /\ request[d].of = request[e].of => d = e
    BY <2>1, <2>9 DEF InputsFit
  <2>12. \A d \in Calls : request[d].tool = UseIt => request[d].mcp \in McpTools
    BY <2>1 DEF InputsFit
  <2> QED  BY <1>1, <2>4, <2>5, <2>6, <2>7, <2>8, <2>10, <2>11, <2>12 DEF InputsFit
<1>12. RunsAsDecided'
  <2>1. \A d \in ran \ mixed : \/ answer[d] = "approve"
                               \/ answer[d] = "none" /\ (d \in let \/ (request[d].of \in ran /\ request[d].of < d))
    BY DEF ToolInv, RunsAsDecided
  <2>2. \/ answer[c] = "approve"
        \/ answer[c] = "none" /\ (c \in let' \/ (request[c].of \in ran /\ request[c].of < c))
    <3>1. answer[c] \in {"none", "approve"}
      BY <1>2, TurnFacts
    <3>2. request[c].of # 0 => request[c].of \in ran /\ request[c].of < c
      BY <1>2 DEF ToolInv, InputsFit
    <3>3. request[c].of # 0 \/ gate[c].allows \/ answer[c] = "approve"
      BY <1>1 DEF ToolInv, GatesFit
    <3> QED  BY <1>7, <3>1, <3>2, <3>3
  <2> QED  BY <1>1, <1>7, <2>1, <2>2 DEF RunsAsDecided
<1> QED  BY <1>4, <1>8, <1>10, <1>11, <1>12 DEF ToolInv, ToolTyped

LEMMA ForgetsInv ==
    ASSUME ToolInv, Forgets
    PROVE  ToolInv'
<1>1. /\ UNCHANGED <<settingVars, turn, bound, callVars, gate, asked, told, message, toolMix>>
      /\ toolsLeft' \in Nat /\ approvals' \in SUBSET approvals /\ handles' \subseteq handles
  BY DEF Forgets, SpendsOne, ToolInv, ToolTyped, SettingsTyped
<1>2. SettingsTyped' /\ TurnTyped' /\ CallsTyped' /\ GateTyped'
  BY <1>1 DEF ToolInv, ToolTyped, SettingsTyped, TurnTyped, CallsTyped, GateTyped, settingVars, callVars
<1>3. StagesFit' /\ CardsFit' /\ GatesFit'
  BY <1>1 DEF ToolInv, StagesFit, CardsFit, GatesFit, callVars
<1>4. InputsFit'
  BY <1>1, TurnFacts, InputsKept DEF callVars
<1>5. RunsAsDecided'
  BY <1>1, DecidedKept DEF callVars
<1> QED  BY <1>2, <1>3, <1>4, <1>5 DEF ToolInv, ToolTyped

-----------------------------------------------------------------------------

LEMMA ToolInvInit == ToolInit => ToolInv
<1> SUFFICES ASSUME ToolInit PROVE ToolInv
  OBVIOUS
<1>1. ToolTyped
  <2>1. SettingsTyped
    BY ToolCallsAssumption DEF ToolInit, SettingsTyped
  <2>2. TurnTyped
    BY DEF ToolInit, TurnTyped, TurnRow
  <2>3. CallsTyped
    BY ToolBlanks DEF ToolInit, CallsTyped, Stages
  <2>4. GateTyped
    BY ToolBlanks DEF ToolInit, GateTyped
  <2> QED  BY <2>1, <2>2, <2>3, <2>4 DEF ToolTyped
<1>2. StagesFit
  BY DEF ToolInit, StagesFit
<1>3. CardsFit
  BY DEF ToolInit, CardsFit
<1>4. GatesFit
  BY DEF ToolInit, GatesFit, GateRest
<1>5. InputsFit
  <2>1. NoTool # UseIt
    BY ToolCallsAssumption DEF Keys, Names
  <2> QED  BY <2>1 DEF ToolInit, InputsFit, Taken, GateRest, NoCall
<1>6. RunsAsDecided
  BY DEF ToolInit, RunsAsDecided
<1> QED  BY <1>1, <1>2, <1>3, <1>4, <1>5, <1>6 DEF ToolInv

LEMMA ToolInvStep == ToolInv /\ [ToolNext]_toolVars => ToolInv'
<1> SUFFICES ASSUME ToolInv, [ToolNext]_toolVars PROVE ToolInv'
  OBVIOUS
<1>1. CASE TurnStep
  BY <1>1, StartTurnInv, ModelCallsInv, CheckCallsInv, CheckResumedInv, ResumeFailsInv, AnswerCardInv,
     TurnFailsInv, StepEndsInv DEF TurnStep
<1>2. ASSUME NEW c \in Calls, ToolStep(c) PROVE ToolInv'
  BY <1>2, RunToolInv, IdleToolInv, PostInv, GrantCallInv, BeginOpInv, CheckLiveInv, SignInRefusedInv, CallToolInv
     DEF ToolStep
<1>3. CASE (\E k \in Keys : ChangeMine(k) \/ ChangeAdmin(k)) \/ ServerChanges \/ StoreDiscovery
  BY <1>3, SettingSteps
<1>4. CASE Forgets
  BY <1>4, ForgetsInv
<1>5. CASE UNCHANGED toolVars
  <2>1. UNCHANGED <<settingVars, turn, bound, callVars, gateVars, message, toolMix, toolsLeft>>
    BY <1>5 DEF toolVars
  <2>2. SettingsTyped' /\ TurnTyped' /\ CallsTyped' /\ GateTyped'
    BY <2>1 DEF ToolInv, ToolTyped, SettingsTyped, TurnTyped, CallsTyped, GateTyped, settingVars, callVars, gateVars
  <2>3. StagesFit' /\ CardsFit' /\ GatesFit'
    BY <2>1 DEF ToolInv, StagesFit, CardsFit, GatesFit, callVars, gateVars
  <2>4. InputsFit' /\ RunsAsDecided'
    BY <2>1 DEF ToolInv, InputsFit, Taken, RunsAsDecided, callVars, gateVars
  <2> QED  BY <2>2, <2>3, <2>4 DEF ToolInv, ToolTyped
<1> QED  BY <1>1, <1>2, <1>3, <1>4, <1>5 DEF ToolNext

LEMMA ToolInvAsks == ToolInv => ToolCallsAreAsked
<1> SUFFICES ASSUME ToolInv PROVE ToolCallsAreAsked
  OBVIOUS
<1>1. ToolTypeOK /\ RunsAsDecided
  BY ToolTypes DEF ToolInv
<1>2. InputIsTheUsers
  <2>1. ASSUME NEW c \in Calls, told[c] # 0
        PROVE  /\ asked[request[c].of] # 0 /\ asked[request[c].of] < told[c]
               /\ \A d \in Calls : told[d] # 0 /\ request[d].of = request[c].of => d = c
    <3>1. request[c].of # 0 /\ asked[request[c].of] < told[c] /\ asked[request[c].of] # 0
      BY <2>1 DEF ToolInv, InputsFit
    <3>2. \A d \in Calls : told[d] # 0 => Taken(d)
      BY DEF Taken
    <3>3. \A d \in Calls : told[d] # 0 /\ request[d].of = request[c].of => d = c
      BY <2>1, <3>2 DEF ToolInv, InputsFit
    <3> QED  BY <3>1, <3>3
  <2> QED  BY <2>1 DEF InputIsTheUsers
<1> QED  BY <1>1, <1>2 DEF ToolCallsAreAsked

\* Whatever a tool call does was approved on a card that showed it, let run by the settings as they were read for it, or is
\* an answer for a call that was, which the user wrote after they were asked (approvals.py, app_tools.py,
\* integration_tools.py, the gateway's service.py), for any number of calls, messages and changes of settings.
THEOREM ToolsAreAsked == ToolSpec => []ToolCallsAreAsked
<1>1. ToolInit => ToolInv
  BY ToolInvInit
<1>2. ToolInv /\ [ToolNext]_toolVars => ToolInv'
  BY ToolInvStep
<1>3. ToolInv => ToolCallsAreAsked
  BY ToolInvAsks
<1> QED  BY <1>1, <1>2, <1>3, PTL DEF ToolSpec
==============================================================================
