------------------------ MODULE RoutineScheduler_proofs ------------------------
(***************************************************************************)
(* Proofs about RoutineScheduler, for any routines, cap and faults: the    *)
(* turns the scheduler starts keep to the cap, nothing fires twice, no     *)
(* backlog piles up, and a run that is queued or running is seen to.       *)
(***************************************************************************)
EXTENDS MCRoutineRuns, FiniteSetTheorems, SequenceTheorems, TLAPS

-----------------------------------------------------------------------------
(* The inductive invariants.                                               *)

Distinct(s) == \A j, k \in DOMAIN s : s[j] = s[k] => j = k

\* Who holds the start lock, or has it yet to release.
Holding == {"checking", "granting", "marking", "launching"}
\* A worker's run has no turn yet.
Before  == {"waiting", "checking", "granting", "marking"}

Busy(w)   == worker[w].at # "idle"
Scheduled == {t \in DOMAIN turns : InActive(t) /\ turns[t].by \in {"queue", "expiry"}}

\* Between the wait for a slot and the turn nobody else gets in: the start lock is one's own.
SlotInv ==
    /\ KeepsToCap
    /\ \A w \in Workers : worker[w].at \in Holding =>
          startLock /\ ~rejecting /\ Cardinality(Scheduled) < MaxConcurrent
    /\ rejecting => startLock /\ Cardinality(Scheduled) < MaxConcurrent
    /\ \A v, w \in Workers : worker[v].at \in Holding /\ worker[w].at \in Holding => v = w

\* A routine is next due after what was claimed of it, and after it was claimed.
DueInv ==
    /\ \A i \in DOMAIN runs : runs[i].due # 0 =>
          /\ runs[i].due <= runs[i].made /\ runs[i].made <= now
          /\ routine[runs[i].routine].next # 0 => routine[runs[i].routine].next > runs[i].made
    /\ NoBacklog

\* A run is in one place at most.
PlacesInv ==
    /\ Distinct(queue) /\ Distinct(claims)
    /\ Range(queue) \subseteq DOMAIN runs /\ Range(claims) \subseteq DOMAIN runs
    /\ Range(queue) \cap Range(claims) = {}
    /\ \A w \in Workers : Busy(w) => worker[w].run \in DOMAIN runs \ (Range(queue) \cup Range(claims))
    /\ \A v, w \in Workers : Busy(v) /\ Busy(w) /\ worker[v].run = worker[w].run => v = w

\* A run the scheduler started a turn of is in no place from which it would start another.
StartedInv ==
    /\ \A t \in DOMAIN turns : turns[t].by = "queue" =>
          /\ turns[t].run \in DOMAIN runs \ (Range(queue) \cup Range(claims))
          /\ runs[turns[t].run].status # "queued"
          /\ \A w \in Workers : worker[w].at \in Before \cup {"launching"} => worker[w].run # turns[t].run
    /\ \A t, u \in DOMAIN turns : turns[t].by = "queue" /\ turns[u].by = "queue"
                                  /\ turns[t].run = turns[u].run => t = u
    /\ \A w \in Workers : worker[w].at \in {"launching", "following"} =>
          runs[worker[w].run].status # "queued"

\* Where a worker will get to run i, and who will record how it ends.
InLine(i) == i \in Range(queue) \cup Range(claims) \/ \E w \in Workers : worker[w].at \in Before /\ worker[w].run = i
Seen(i)   == \/ \E w \in Workers : worker[w].at \in {"launching", "following"} /\ worker[w].run = i
             \/ \E f \in followers : f.run = i

\* A run is queued or running only where someone will see to it.
ServedInv ==
    /\ \A i \in DOMAIN runs : runs[i].status = "queued" => ~Late(runs[i].due, runs[i].made)
    /\ \A i \in DOMAIN runs : ~routine[runs[i].routine].here => runs[i].status = "gone"
    /\ \A i \in DOMAIN runs : runs[i].status = "queued" /\ i \notin dropped => InLine(i)
    /\ \A i \in DOMAIN runs : runs[i].status = "running" /\ i \notin dropped => Seen(i)

-----------------------------------------------------------------------------
(* Sequences.                                                              *)

LEMMA ExceptAt ==
    ASSUME NEW S, NEW s \in Seq(S), NEW i, NEW x, i \in DOMAIN s => x \in S
    PROVE  LET e == [s EXCEPT ![i] = x] IN
           /\ e \in Seq(S) /\ Len(e) = Len(s) /\ DOMAIN e = DOMAIN s
           /\ \A j \in DOMAIN s : e[j] = IF j = i THEN x ELSE s[j]
<1>1. s \in [1..Len(s) -> S] /\ DOMAIN s = 1..Len(s) /\ Len(s) \in Nat
  BY LenProperties
<1>2. [s EXCEPT ![i] = x] \in [1..Len(s) -> S]
  BY <1>1
<1> QED  BY <1>1, <1>2, IsASeq, LenProperties

LEMMA AppendAt ==
    ASSUME NEW S, NEW s \in Seq(S), NEW x \in S
    PROVE  LET e == Append(s, x) IN
           /\ e \in Seq(S) /\ Len(e) = Len(s) + 1 /\ DOMAIN e = DOMAIN s \cup {Len(s) + 1}
           /\ Len(s) + 1 \notin DOMAIN s /\ Len(s) \in Nat
           /\ e[Len(s) + 1] = x /\ \A j \in DOMAIN s : e[j] = s[j]
<1>1. Append(s, x) \in Seq(S) /\ Len(Append(s, x)) = Len(s) + 1
  BY AppendProperties
<1>2. DOMAIN s = 1..Len(s) /\ Len(s) \in Nat /\ DOMAIN Append(s, x) = 1..(Len(s) + 1)
  BY <1>1, LenProperties
<1>3. Append(s, x)[Len(s) + 1] = x /\ \A j \in 1..Len(s) : Append(s, x)[j] = s[j]
  BY <1>2, AppendProperties
<1> QED  BY <1>1, <1>2, <1>3

\* A queue that loses its head.
LEMMA TailRange ==
    ASSUME NEW S, NEW s \in Seq(S), s # << >>, Distinct(s)
    PROVE  /\ Head(s) \in S /\ Head(s) \in Range(s) /\ Tail(s) \in Seq(S)
           /\ Distinct(Tail(s)) /\ Range(Tail(s)) = Range(s) \ {Head(s)}
<1>1. /\ s \in [1..Len(s) -> S] /\ DOMAIN s = 1..Len(s) /\ Len(s) \in Nat \ {0}
  BY LenProperties, EmptySeq
<1>2. /\ Head(s) = s[1] /\ Tail(s) \in Seq(S) /\ Len(Tail(s)) = Len(s) - 1
      /\ \A i \in 1 .. Len(Tail(s)) : Tail(s)[i] = s[i+1]
  BY HeadTailProperties
<1>3. DOMAIN Tail(s) = 1..(Len(s) - 1)
  BY <1>2, LenProperties
<1>4. Distinct(Tail(s))
  BY <1>1, <1>2, <1>3 DEF Distinct
<1>5. ASSUME NEW x \in Range(Tail(s)) PROVE x \in Range(s) \ {Head(s)}
  <2>1. PICK i \in 1..(Len(s) - 1) : x = s[i + 1]
    BY <1>2, <1>3 DEF Range
  <2> QED  BY <1>1, <1>2, <2>1 DEF Range, Distinct
<1>6. ASSUME NEW x \in Range(s) \ {Head(s)} PROVE x \in Range(Tail(s))
  <2>1. PICK i \in 2..Len(s) : x = s[i]
    BY <1>1, <1>2 DEF Range
  <2>2. i - 1 \in 1..(Len(s) - 1) /\ Tail(s)[i - 1] = x
    BY <1>1, <1>2, <2>1
  <2> QED  BY <1>3, <2>2 DEF Range
<1>7. Head(s) \in S /\ Head(s) \in Range(s)
  BY <1>1, <1>2 DEF Range
<1> QED  BY <1>2, <1>4, <1>5, <1>6, <1>7

\* ... and one that gets a new element.
LEMMA AppendRange ==
    ASSUME NEW S, NEW s \in Seq(S), Distinct(s), NEW x \in S, x \notin Range(s)
    PROVE  Distinct(Append(s, x)) /\ Range(Append(s, x)) = Range(s) \cup {x}
BY AppendAt DEF Distinct, Range

LEMMA EmptyRange == Distinct(<< >>) /\ Range(<< >>) = {}
BY DEF Distinct, Range

\* The rows of a query with ORDER BY: each of the set once.
LEMMA InOrderFacts ==
    ASSUME NEW S, IsFiniteSet(S), NEW key, NEW s \in InOrder(S, key)
    PROVE  /\ s \in Seq(S) /\ Distinct(s) /\ Range(s) = S
           /\ DOMAIN s = 1..Cardinality(S) /\ Len(s) = Cardinality(S) /\ Cardinality(S) \in Nat
<1>1. s \in [1..Cardinality(S) -> S] /\ Cardinality(S) \in Nat
  BY FS_CardinalityType DEF InOrder, SetToSeqs
<1>2. Distinct(s)
  BY <1>1 DEF InOrder, SetToSeqs, Distinct
<1>3. s \in Seq(S) /\ Len(s) = Cardinality(S)
  BY <1>1, IsASeq, LenProperties
<1>4. Range(s) = S
  <2>1. IsFiniteSet(1..Cardinality(S)) /\ Cardinality(1..Cardinality(S)) = Cardinality(S)
    BY <1>1, FS_Interval
  <2>2. s \in Injection(1..Cardinality(S), S)
    BY <1>1, <1>2 DEF Injection, IsInjective, Distinct
  <2> QED  BY <1>1, <1>2, <2>1, <2>2, FS_Injection DEF Range, Surjection
<1> QED  BY <1>1, <1>2, <1>3, <1>4

-----------------------------------------------------------------------------
(* What the model's helpers do.                                            *)

\* The first time of a schedule after t is after t.
LEMMA NextTimeLater ==
    ASSUME NEW t \in Nat
    PROVE  NextTime(t) \in Nat /\ NextTime(t) > t
BY TimesAssumption DEF NextTime

LEMMA RunsAt ==
    ASSUME TypeOK
    PROVE  /\ runs \in Seq(Run) /\ Len(runs) \in Nat /\ DOMAIN runs = 1..Len(runs)
           /\ \A i \in DOMAIN runs : runs[i] \in Run
BY LenProperties, ElementOfSeq DEF TypeOK

LEMMA TurnsAt ==
    ASSUME TypeOK
    PROVE  /\ turns \in Seq(Turn) /\ Len(turns) \in Nat /\ DOMAIN turns = 1..Len(turns)
           /\ \A t \in DOMAIN turns : turns[t] \in Turn
BY LenProperties, ElementOfSeq DEF TypeOK

\* `rs` has the runs that were there, some with another status or another question.
SameRuns(rs) ==
    /\ rs \in Seq(Run) /\ Len(rs) = Len(runs) /\ DOMAIN rs = DOMAIN runs
    /\ \A i \in DOMAIN runs : /\ rs[i].routine = runs[i].routine
                              /\ rs[i].due = runs[i].due /\ rs[i].made = runs[i].made

\* `update_run` leaves every other run as it is, and a deleted one.
LEMMA PutFacts ==
    ASSUME TypeOK, NEW i, NEW s \in Statuses
    PROVE  /\ SameRuns(Put(i, s))
           /\ \A j \in DOMAIN runs : j # i => Put(i, s)[j] = runs[j]
           /\ i \in DOMAIN runs => Put(i, s)[i].status = IF runs[i].status = "gone" THEN "gone" ELSE s
<1>1. CASE runs[i].status = "gone"
  BY <1>1, RunsAt DEF Put, SameRuns
<1>2. CASE runs[i].status # "gone"
  <2> DEFINE x == [runs[i] EXCEPT !.status = s, !.at = now]
  <2>1. i \in DOMAIN runs =>
          /\ x \in Run /\ x.status = s /\ x.routine = runs[i].routine
          /\ x.due = runs[i].due /\ x.made = runs[i].made
    BY RunsAt DEF Run, TypeOK
  <2>2. Put(i, s) = [runs EXCEPT ![i] = x]
    BY <1>2 DEF Put
  <2> HIDE DEF x
  <2> QED  BY <1>2, <2>1, <2>2, ExceptAt, RunsAt DEF SameRuns
<1> QED  BY <1>1, <1>2

\* So does what changes no more than one field of a run that nothing is keyed by.
LEMMA AskedFacts ==
    ASSUME NEW rs \in Seq(Run), NEW i, NEW a \in Nat
    PROVE  LET e == [rs EXCEPT ![i].asked = a] IN
           /\ e \in Seq(Run) /\ Len(e) = Len(rs) /\ DOMAIN e = DOMAIN rs
           /\ \A j \in DOMAIN rs : /\ e[j].routine = rs[j].routine /\ e[j].status = rs[j].status
                                   /\ e[j].due = rs[j].due /\ e[j].made = rs[j].made
<1> DEFINE x == [rs[i] EXCEPT !.asked = a]
<1>1. i \in DOMAIN rs =>
        /\ x \in Run /\ x.status = rs[i].status /\ x.routine = rs[i].routine
        /\ x.due = rs[i].due /\ x.made = rs[i].made
  <2>1. i \in DOMAIN rs => rs[i] \in Run
    BY LenProperties, ElementOfSeq
  <2> QED  BY <2>1 DEF Run
<1>2. [rs EXCEPT ![i].asked = a] = [rs EXCEPT ![i] = x]
  OBVIOUS
<1> HIDE DEF x
<1> QED  BY <1>1, <1>2, ExceptAt

LEMMA OneRun ==
    ASSUME TypeOK, NEW i, NEW x,
           i \in DOMAIN runs => /\ x \in Run /\ x.routine = runs[i].routine
                               /\ x.due = runs[i].due /\ x.made = runs[i].made
    PROVE  LET e == [runs EXCEPT ![i] = x] IN
           SameRuns(e) /\ \A j \in DOMAIN runs : e[j] = IF j = i THEN x ELSE runs[j]
BY ExceptAt, RunsAt DEF SameRuns

LEMMA FieldFacts ==
    ASSUME TypeOK, NEW i
    PROVE  /\ \A s \in Statuses : LET e == [runs EXCEPT ![i].status = s] IN
                /\ SameRuns(e) /\ \A j \in DOMAIN runs : j # i => e[j] = runs[j]
                /\ i \in DOMAIN runs => e[i].status = s
           /\ LET e == [runs EXCEPT ![i].thread = TRUE] IN
                SameRuns(e) /\ \A j \in DOMAIN runs : e[j].status = runs[j].status
           /\ LET e == [runs EXCEPT ![i].thread = FALSE, ![i].asked = 0] IN
                SameRuns(e) /\ \A j \in DOMAIN runs : e[j].status = runs[j].status
<1>1. i \in DOMAIN runs => runs[i] \in Run
  BY RunsAt
<1>2. ASSUME NEW s \in Statuses
      PROVE  LET e == [runs EXCEPT ![i].status = s] IN
                /\ SameRuns(e) /\ \A j \in DOMAIN runs : j # i => e[j] = runs[j]
                /\ i \in DOMAIN runs => e[i].status = s
  <2> DEFINE x == [runs[i] EXCEPT !.status = s]
  <2>1. i \in DOMAIN runs =>
          /\ x \in Run /\ x.status = s /\ x.routine = runs[i].routine
          /\ x.due = runs[i].due /\ x.made = runs[i].made
    BY <1>1 DEF Run
  <2>2. [runs EXCEPT ![i].status = s] = [runs EXCEPT ![i] = x]
    OBVIOUS
  <2> HIDE DEF x
  <2> QED  BY <2>1, <2>2, OneRun
<1>3. LET e == [runs EXCEPT ![i].thread = TRUE] IN
         SameRuns(e) /\ \A j \in DOMAIN runs : e[j].status = runs[j].status
  <2> DEFINE x == [runs[i] EXCEPT !.thread = TRUE]
  <2>1. i \in DOMAIN runs =>
          /\ x \in Run /\ x.status = runs[i].status /\ x.routine = runs[i].routine
          /\ x.due = runs[i].due /\ x.made = runs[i].made
    BY <1>1 DEF Run
  <2>2. [runs EXCEPT ![i].thread = TRUE] = [runs EXCEPT ![i] = x]
    OBVIOUS
  <2> HIDE DEF x
  <2> QED  BY <2>1, <2>2, OneRun
<1>4. LET e == [runs EXCEPT ![i].thread = FALSE, ![i].asked = 0] IN
         SameRuns(e) /\ \A j \in DOMAIN runs : e[j].status = runs[j].status
  <2> DEFINE x == [runs[i] EXCEPT !.thread = FALSE, !.asked = 0]
  <2>1. i \in DOMAIN runs =>
          /\ x \in Run /\ x.status = runs[i].status /\ x.routine = runs[i].routine
          /\ x.due = runs[i].due /\ x.made = runs[i].made
    BY <1>1 DEF Run
  <2>2. [runs EXCEPT ![i].thread = FALSE, ![i].asked = 0] = [runs EXCEPT ![i] = x]
    OBVIOUS
  <2> HIDE DEF x
  <2> QED  BY <2>1, <2>2, OneRun
<1> QED  BY <1>2, <1>3, <1>4

\* Retiring a one-shot changes its routine's row, and nothing of when it is due.
LEMMA RetireFacts ==
    ASSUME TypeOK, NEW r, NEW row, r \in Routines => row \in Routine, Retire(r, row)
    PROVE  /\ routine' \in [Routines -> Routine] /\ alive' \subseteq Routines
           /\ \A q \in Routines : q # r => routine'[q] = routine[q]
           /\ r \in Routines => routine'[r].here = row.here /\ routine'[r].next = row.next
<1>1. routine \in [Routines -> Routine] /\ alive \subseteq Routines
  BY DEF TypeOK
<1>2. r \in Routines => [row EXCEPT !.grant = FALSE] \in Routine
  BY DEF Routine
<1>3. CASE routine' = [routine EXCEPT ![r] = row]
  BY <1>1, <1>3 DEF Retire
<1>4. CASE routine' = [routine EXCEPT ![r] = [row EXCEPT !.grant = FALSE]]
  BY <1>1, <1>2, <1>4 DEF Retire, Routine
<1> QED  BY <1>3, <1>4 DEF Retire

\* A grant that is refused takes the routine's next time, if anything.
LEMMA RefusedFacts ==
    ASSUME TypeOK, NEW r \in Routines
    PROVE  /\ Refused(r) \in Routine /\ Refused(r).here = routine[r].here
           /\ Refused(r).next \in {0, routine[r].next}
<1>1. routine[r] \in Routine
  BY DEF TypeOK
<1> QED  BY <1>1 DEF Refused, Routine

\* A turn that starts is one.
LEMMA NewTurnType ==
    ASSUME NEW i \in Nat, NEW by \in {"queue", "hand", "expiry", "answer"}
    PROVE  NewTurn(i, by) \in Turn /\ NewTurn(i, by).run = i /\ NewTurn(i, by).by = by
BY DEF NewTurn, Turn

LEMMA EndedStatus ==
    ASSUME NEW t, NEW e
    PROVE  Ended(t, e) \in Statuses \ {"queued", "running", "gone"}
BY DEF Ended, Statuses, Final

-----------------------------------------------------------------------------
(* What the steps do to the tables.                                        *)

SameTurns(ts) ==
    /\ ts \in Seq(Turn) /\ Len(ts) = Len(turns) /\ DOMAIN ts = DOMAIN turns
    /\ \A t \in DOMAIN turns : ts[t].run = turns[t].run /\ ts[t].by = turns[t].by

\* The records stay, with their statuses; or the one of run i gets the status s.
Still       == SameRuns(runs') /\ \A j \in DOMAIN runs : runs'[j].status = runs[j].status
Moves(i, s) ==
    /\ SameRuns(runs')
    /\ \A j \in DOMAIN runs : j # i => runs'[j].status = runs[j].status
    /\ i \in DOMAIN runs => runs'[i].status = IF runs[i].status = "gone" THEN "gone" ELSE s

\* One turn more, of run i.
Starts(i, by) ==
    /\ turns' \in Seq(Turn) /\ Len(turns') = Len(turns) + 1
    /\ DOMAIN turns' = DOMAIN turns \cup {Len(turns) + 1} /\ Len(turns) + 1 \notin DOMAIN turns
    /\ \A t \in DOMAIN turns : turns'[t] = turns[t]
    /\ turns'[Len(turns) + 1] = NewTurn(i, by)

LEMMA PutMoves ==
    ASSUME TypeOK, NEW i, NEW s \in Statuses, runs' = Put(i, s)
    PROVE  Moves(i, s)
BY PutFacts DEF Moves

LEMMA SameStill ==
    ASSUME TypeOK, runs' = runs
    PROVE  Still
BY RunsAt DEF Still, SameRuns

LEMMA SameTurnsAt ==
    ASSUME TypeOK, turns' = turns
    PROVE  SameTurns(turns')
BY TurnsAt DEF SameTurns

LEMMA AppendStarts ==
    ASSUME TypeOK, NEW i \in Nat, NEW by \in {"queue", "hand", "expiry", "answer"},
           turns' = Append(turns, NewTurn(i, by))
    PROVE  Starts(i, by)
BY TurnsAt, NewTurnType, AppendAt DEF Starts

\* A turn that changes keeps its run.
LEMMA OneTurn ==
    ASSUME TypeOK, NEW t \in DOMAIN turns, NEW x \in Turn, x.run = turns[t].run, x.by = turns[t].by
    PROVE  LET e == [turns EXCEPT ![t] = x] IN
           SameTurns(e) /\ \A u \in DOMAIN turns : e[u] = IF u = t THEN x ELSE turns[u]
BY ExceptAt, TurnsAt DEF SameTurns

LEMMA TurnChanges ==
    ASSUME TypeOK, NEW t \in DOMAIN turns, TurnEnds(t) \/ TurnSticks(t) \/ TimeLimit(t)
    PROVE  /\ SameTurns(turns') /\ Still
           /\ \A u \in DOMAIN turns : InActive(u)' => InActive(u)
<1>1. turns[t] \in Turn
  BY TurnsAt
<1>2. CASE TurnEnds(t)
  <2>1. PICK s \in Outcomes, ask \in BOOLEAN :
          /\ turns' = [turns EXCEPT ![t].status = s]
          /\ runs' = [runs EXCEPT ![turns[t].run].asked = IF ask THEN now ELSE 0]
    BY <1>2 DEF TurnEnds
  <2> DEFINE x == [turns[t] EXCEPT !.status = s]
  <2>2. x \in Turn /\ x.run = turns[t].run /\ x.by = turns[t].by /\ x.status = s
    BY <1>1 DEF Turn
  <2>3. turns' = [turns EXCEPT ![t] = x]
    BY <2>1
  <2> HIDE DEF x
  <2>4. SameTurns(turns') /\ \A u \in DOMAIN turns : turns'[u] = IF u = t THEN x ELSE turns[u]
    BY <2>2, <2>3, OneTurn
  <2>5. \A u \in DOMAIN turns : InActive(u)' => InActive(u)
    BY <2>2, <2>4 DEF InActive, Outcomes
  <2>6. (IF ask THEN now ELSE 0) \in Nat
    BY DEF TypeOK
  <2>7. Still
    <3> DEFINE a == IF ask THEN now ELSE 0
    <3>1. a \in Nat /\ runs' = [runs EXCEPT ![turns[t].run].asked = a] /\ runs \in Seq(Run)
      BY <2>1, <2>6, RunsAt
    <3> HIDE DEF a
    <3> QED  BY <3>1, AskedFacts DEF Still, SameRuns
  <2> QED  BY <2>4, <2>5, <2>7
<1>3. CASE TurnSticks(t) \/ TimeLimit(t)
  <2> DEFINE x == IF TurnSticks(t) THEN [turns[t] EXCEPT !.status = "stuck"] ELSE [turns[t] EXCEPT !.limit = TRUE]
  <2>1. x \in Turn /\ x.run = turns[t].run /\ x.by = turns[t].by
    BY <1>1 DEF Turn
  <2>2. turns' = [turns EXCEPT ![t] = x] /\ turns[t].status = "running" /\ runs' = runs
    BY <1>3 DEF TurnSticks, TimeLimit, tables
  <2> HIDE DEF x
  <2>3. SameTurns(turns') /\ \A u \in DOMAIN turns : turns'[u] = IF u = t THEN x ELSE turns[u]
    BY <2>1, <2>2, OneTurn
  <2>4. \A u \in DOMAIN turns : InActive(u)' => InActive(u)
    BY <2>2, <2>3 DEF InActive
  <2> QED  BY <2>2, <2>3, <2>4, SameStill
<1> QED  BY <1>2, <1>3

\* The rows `claim_due` takes, each with a new run record.
LEMMA DueFacts ==
    ASSUME TypeOK
    PROVE  /\ IsFiniteSet(Due) /\ Due \subseteq Routines
           /\ \A r \in Due : Claimed(r) \in Run /\ routine[r].next \in Nat \ {0} /\ routine[r].next <= now
           /\ \A r \in Routines : Advance(r) \in Nat /\ (Advance(r) # 0 => Advance(r) > now)
<1>1. Due \subseteq Routines /\ IsFiniteSet(Due)
  BY KindsAssumption, FS_Subset DEF Due
<1>2. ASSUME NEW r \in Due
      PROVE  Claimed(r) \in Run /\ routine[r].next \in Nat \ {0} /\ routine[r].next <= now
  <2>1. routine[r] \in Routine /\ now \in Nat
    BY <1>1, <1>2 DEF TypeOK
  <2> QED  BY <1>1, <1>2, <2>1 DEF Due, Routine, Claimed, Run, Statuses, Final
<1>3. ASSUME NEW r \in Routines PROVE Advance(r) \in Nat /\ (Advance(r) # 0 => Advance(r) > now)
  BY NextTimeLater DEF Advance, TypeOK
<1> QED  BY <1>1, <1>2, <1>3

LEMMA ClaimDoes ==
    ASSUME TypeOK, Claim
    PROVE  \E due \in [1..Cardinality(Due) -> Due] :
             LET n == Cardinality(Due) IN
             /\ n \in Nat /\ Distinct(due)
             /\ runs' \in Seq(Run) /\ Len(runs') = Len(runs) + n /\ DOMAIN runs' = 1..(Len(runs) + n)
             /\ \A i \in DOMAIN runs : runs'[i] = runs[i]
             /\ \A k \in 1..n : runs'[Len(runs) + k] = Claimed(due[k])
             /\ claims' \in Seq(Nat) /\ Distinct(claims')
             /\ Range(claims') = {Len(runs) + k : k \in 1..n}
             /\ routine' \in [Routines -> Routine]
             /\ \A r \in Routines :
                   /\ routine'[r].here = routine[r].here
                   /\ routine'[r].next = IF r \in Due THEN Advance(r) ELSE routine[r].next
<1> DEFINE n == Cardinality(Due)
<1>1. PICK due \in InOrder(Due, [r \in Due |-> routine[r].next]) :
        /\ runs' = runs \o [k \in DOMAIN due |-> Claimed(due[k])]
        /\ claims' = [k \in DOMAIN due |-> Len(runs) + k]
  BY DEF Claim
<1>2. n \in Nat /\ due \in Seq(Due) /\ DOMAIN due = 1..n /\ Len(due) = n /\ Distinct(due)
  BY <1>1, DueFacts, InOrderFacts
<1>3. due \in [1..n -> Due]
  BY <1>2, LenProperties
<1> DEFINE new == [k \in 1..n |-> Claimed(due[k])]
<1>4. new \in Seq(Run) /\ Len(new) = n
  <2>1. new \in [1..n -> Run]
    BY <1>3, DueFacts
  <2> HIDE DEF new, n
  <2> QED  BY <1>2, <2>1, IsASeq, LenProperties
<1>5. runs' = runs \o new
  BY <1>1, <1>2
<1>6. \A k \in 1..n : new[k] = Claimed(due[k])
  OBVIOUS
<1> HIDE DEF new, n
<1>7. /\ runs' \in Seq(Run) /\ Len(runs') = Len(runs) + n
      /\ \A k \in 1..(Len(runs) + n) : runs'[k] = IF k <= Len(runs) THEN runs[k] ELSE new[k - Len(runs)]
  BY <1>4, <1>5, RunsAt, ConcatProperties
<1>8. DOMAIN runs' = 1..(Len(runs) + n)
  BY <1>7, LenProperties
<1>9. \A i \in DOMAIN runs : runs'[i] = runs[i]
  BY <1>2, <1>7, RunsAt
<1>10. \A k \in 1..n : runs'[Len(runs) + k] = Claimed(due[k])
  <2> SUFFICES ASSUME NEW k \in 1..n PROVE runs'[Len(runs) + k] = Claimed(due[k])
    OBVIOUS
  <2>1. Len(runs) + k \in 1..(Len(runs) + n) /\ ~(Len(runs) + k <= Len(runs)) /\ (Len(runs) + k) - Len(runs) = k
    BY <1>2, RunsAt
  <2> QED  BY <1>6, <1>7, <2>1
<1>11. claims' = [k \in 1..n |-> Len(runs) + k]
  BY <1>1, <1>2
<1>12. /\ claims' \in Seq(Nat) /\ Distinct(claims') /\ Range(claims') = {Len(runs) + k : k \in 1..n}
  <2>1. claims' \in [1..n -> Nat]
    BY <1>2, <1>11, RunsAt
  <2>2. Distinct(claims') /\ Range(claims') = {Len(runs) + k : k \in 1..n}
    <3>1. DOMAIN claims' = 1..n /\ \A k \in 1..n : claims'[k] = Len(runs) + k
      BY <1>11
    <3>2. Distinct(claims')
      BY <1>2, <3>1, RunsAt DEF Distinct
    <3>3. Range(claims') = {claims'[k] : k \in 1..n}
      BY <3>1 DEF Range
    <3> QED  BY <3>1, <3>2, <3>3
  <2> QED  BY <1>2, <2>1, <2>2, IsASeq
<1>13. /\ routine' \in [Routines -> Routine]
       /\ \A r \in Routines :
             /\ routine'[r].here = routine[r].here
             /\ routine'[r].next = IF r \in Due THEN Advance(r) ELSE routine[r].next
  <2>1. \A r \in Routines : routine[r] \in Routine /\ Advance(r) \in Nat
    BY DueFacts DEF TypeOK
  <2>2. routine' = [r \in Routines |->
         IF r \in Due THEN [routine[r] EXCEPT !.next = Advance(r), !.enabled = Advance(r) # 0]
         ELSE routine[r]]
    BY DEF Claim
  <2>3. ASSUME NEW r \in Routines
        PROVE  /\ routine'[r] \in Routine /\ routine'[r].here = routine[r].here
               /\ routine'[r].next = IF r \in Due THEN Advance(r) ELSE routine[r].next
    <3>1. CASE r \in Due
      <4>1. routine'[r] = [routine[r] EXCEPT !.next = Advance(r), !.enabled = Advance(r) # 0]
        BY <2>2, <2>3, <3>1
      <4> QED  BY <2>1, <2>3, <3>1, <4>1 DEF Routine
    <3>2. CASE r \notin Due
      BY <2>1, <2>2, <2>3, <3>2
    <3> QED  BY <3>1, <3>2
  <2> QED  BY <2>2, <2>3
<1> QED  BY <1>2, <1>3, <1>7, <1>8, <1>9, <1>10, <1>12, <1>13 DEF n

\* The routines' rows stay, though one may lose its next time.
RowsKeep ==
    /\ routine' \in [Routines -> Routine] /\ alive' \subseteq Routines
    /\ \A q \in Routines : routine'[q].here = routine[q].here /\ routine'[q].next \in {0, routine[q].next}

LEMMA SameRows ==
    ASSUME TypeOK, routine' = routine, alive' = alive
    PROVE  RowsKeep
BY DEF TypeOK, RowsKeep

LEMMA RetireKeeps ==
    ASSUME TypeOK, NEW r, Retire(r, routine[r]) \/ Retire(r, Refused(r))
    PROVE  RowsKeep
<1>1. \A q \in Routines : routine[q] \in Routine
  BY DEF TypeOK
<1>2. CASE Retire(r, routine[r])
  BY <1>1, <1>2, RetireFacts DEF RowsKeep
<1>3. CASE Retire(r, Refused(r))
  BY <1>1, <1>3, RefusedFacts, RetireFacts DEF RowsKeep
<1> QED  BY <1>2, <1>3

\* The workers.
AWorker == [at : WorkerAt, run : Nat, turn : Nat]

LEMMA WorkersAt ==
    ASSUME TypeOK
    PROVE  worker \in [Workers -> AWorker] /\ \A w \in Workers : worker[w] \in AWorker
BY DEF TypeOK, AWorker

LEMMA MoveDoes ==
    ASSUME TypeOK, NEW w \in Workers, NEW a \in WorkerAt, Move(w, a)
    PROVE  /\ worker' \in [Workers -> AWorker]
           /\ \A v \in Workers : v # w => worker'[v] = worker[v]
           /\ worker'[w].at = a /\ worker'[w].run = worker[w].run /\ worker'[w].turn = worker[w].turn
<1>1. worker[w] \in AWorker /\ worker \in [Workers -> AWorker]
  BY WorkersAt
<1>2. /\ [worker[w] EXCEPT !.at = a] \in AWorker
      /\ [worker[w] EXCEPT !.at = a].at = a /\ [worker[w] EXCEPT !.at = a].run = worker[w].run
      /\ [worker[w] EXCEPT !.at = a].turn = worker[w].turn
  BY <1>1 DEF AWorker
<1> QED  BY <1>1, <1>2 DEF Move

LEMMA LeaveDoes ==
    ASSUME TypeOK, NEW w \in Workers, worker' = [worker EXCEPT ![w] = Idle]
    PROVE  /\ worker' \in [Workers -> AWorker] /\ Idle \in AWorker
           /\ \A v \in Workers : worker'[v] = IF v = w THEN Idle ELSE worker[v]
BY WorkersAt DEF Idle, AWorker, WorkerAt

\* What `tick` makes of a claim.
LEMMA HandOutDoes ==
    ASSUME TypeOK, HandOut
    PROVE  /\ claims # << >> /\ claims' = Tail(claims) /\ RowsKeep
           /\ \/ /\ Moves(Head(claims), "gone") /\ queue' = queue
                 /\ (Head(claims) \in DOMAIN runs => runs'[Head(claims)].status = "gone")
              \/ Still /\ runs' = runs /\ Late(runs[Head(claims)].due, runs[Head(claims)].made) /\ queue' = queue
              \/ Still /\ runs' = runs /\ queue' = Append(queue, Head(claims))
<1> DEFINE i == Head(claims)
           r == runs[i].routine
<1>1. claims # << >> /\ claims' = Tail(claims)
  BY DEF HandOut
<1>2. CASE r \in off /\ runs' = [runs EXCEPT ![i].status = "gone"] /\ UNCHANGED <<alive, routine, queue>>
  <2>1. /\ SameRuns(runs') /\ \A j \in DOMAIN runs : j # i => runs'[j] = runs[j]
        /\ i \in DOMAIN runs => runs'[i].status = "gone"
    <3>1. "gone" \in Statuses
      BY DEF Statuses
    <3> HIDE DEF i
    <3> QED  BY <1>2, <3>1, FieldFacts
  <2>2. Moves(i, "gone") /\ (i \in DOMAIN runs => runs'[i].status = "gone")
    BY <2>1 DEF Moves
  <2> QED  BY <1>1, <1>2, <2>2, SameRows
<1>3. CASE runs' = runs /\ Late(runs[i].due, runs[i].made) /\ Retire(r, routine[r]) /\ UNCHANGED queue
  BY <1>1, <1>3, RetireKeeps, SameStill
<1>4. CASE runs' = runs /\ queue' = Append(queue, i) /\ UNCHANGED <<alive, routine>>
  BY <1>1, <1>4, SameRows, SameStill
<1> QED  BY <1>2, <1>3, <1>4 DEF HandOut

\* How a worker's run is refused, granted, marked and launched.
LEMMA CheckDoes ==
    ASSUME TypeOK, NEW w \in Workers, Check(w)
    PROVE  /\ worker[w].at = "checking" /\ RowsKeep
           /\ \/ /\ Leave(w) /\ Still
                 /\ ~routine[runs[worker[w].run].routine].here
              \/ /\ Leave(w)
                 /\ \E s \in {"missed", "gone", "failed"} : Moves(worker[w].run, s)
              \/ Move(w, "granting") /\ Still /\ startLock' = startLock
<1> USE DEF tables
<1>1. CASE Leave(w) /\ ~routine[runs[worker[w].run].routine].here /\ UNCHANGED <<alive, tables>>
  BY <1>1, SameRows, SameStill DEF Check
<1>2. CASE /\ \E s \in Refusals(worker[w].run) : runs' = Put(worker[w].run, s)
           /\ Leave(w) /\ Retire(runs[worker[w].run].routine, routine[runs[worker[w].run].routine])
  <2>1. PICK s \in Refusals(worker[w].run) : runs' = Put(worker[w].run, s)
    BY <1>2
  <2>2. s \in {"missed", "gone", "failed"} /\ s \in Statuses
    BY <2>1 DEF Refusals, Statuses, Final
  <2>3. Moves(worker[w].run, s)
    BY <2>1, <2>2, PutMoves
  <2> QED  BY <1>2, <2>2, <2>3, RetireKeeps DEF Check
<1>3. CASE Move(w, "granting") /\ UNCHANGED <<alive, tables, startLock>>
  BY <1>3, SameRows, SameStill DEF Check
<1> QED  BY <1>1, <1>2, <1>3 DEF Check

LEMMA GrantDoes ==
    ASSUME TypeOK, NEW w \in Workers, Grant(w)
    PROVE  /\ worker[w].at = "granting" /\ RowsKeep
           /\ \/ Leave(w) /\ \E s \in {"missed", "failed"} : Moves(worker[w].run, s)
              \/ Move(w, "marking") /\ Still /\ startLock' = startLock
<1>1. CASE runs' = [runs EXCEPT ![worker[w].run].thread = TRUE] /\ Move(w, "marking") /\ UNCHANGED <<alive, routine, startLock>>
  <2>1. Still
    BY <1>1, FieldFacts DEF Still
  <2> QED  BY <1>1, <2>1, SameRows DEF Grant
<1>2. CASE /\ \E s \in {"missed", "failed"} : runs' = Put(worker[w].run, s)
           /\ Leave(w)
           /\ \/ Retire(runs[worker[w].run].routine, Refused(runs[worker[w].run].routine))
              \/ Retire(runs[worker[w].run].routine, routine[runs[worker[w].run].routine])
  <2>1. PICK s \in {"missed", "failed"} : runs' = Put(worker[w].run, s)
    BY <1>2
  <2>2. Moves(worker[w].run, s)
    BY <2>1, PutMoves DEF Statuses, Final
  <2> QED  BY <1>2, <2>2, RetireKeeps DEF Grant
<1> QED  BY <1>1, <1>2 DEF Grant

LEMMA LaunchDoes ==
    ASSUME TypeOK, NEW w \in Workers, Launch(w)
    PROVE  /\ worker[w].at = "launching" /\ startLock' = FALSE /\ UNCHANGED <<routine, alive>>
           /\ \/ /\ Starts(worker[w].run, "queue") /\ Still
                 /\ worker' \in [Workers -> AWorker]
                 /\ \A v \in Workers : v # w => worker'[v] = worker[v]
                 /\ worker'[w].at = "following" /\ worker'[w].run = worker[w].run
              \/ /\ worker' = [worker EXCEPT ![w] = Idle]
                 /\ (turns' = turns \/ Starts(worker[w].run, "queue"))
                 /\ Moves(worker[w].run, "failed")
<1> DEFINE i == worker[w].run
<1>1. i \in Nat /\ worker[w] \in AWorker /\ worker \in [Workers -> AWorker] /\ Len(turns) \in Nat
  BY WorkersAt, TurnsAt DEF AWorker
<1>2. CASE /\ turns' = Append(turns, NewTurn(i, "queue"))
           /\ worker' = [worker EXCEPT ![w].at = "following", ![w].turn = Len(turns) + 1]
           /\ UNCHANGED runs
  <2> DEFINE x == [worker[w] EXCEPT !.at = "following", !.turn = Len(turns) + 1]
  <2>1. x \in AWorker /\ x.at = "following" /\ x.run = i
    <3>1. "following" \in WorkerAt /\ Len(turns) + 1 \in Nat
      BY <1>1 DEF WorkerAt
    <3> QED  BY <1>1, <3>1 DEF AWorker
  <2>2. worker' = [worker EXCEPT ![w] = x]
    BY <1>2
  <2> HIDE DEF x
  <2>3. /\ worker' \in [Workers -> AWorker] /\ worker'[w] = x
        /\ \A v \in Workers : v # w => worker'[v] = worker[v]
    BY <1>1, <2>1, <2>2
  <2> QED  BY <1>1, <1>2, <2>1, <2>3, AppendStarts, SameStill DEF Launch
<1>3. CASE /\ turns' \in {turns, Append(turns, NewTurn(i, "queue"))}
           /\ worker' = [worker EXCEPT ![w] = Idle]
           /\ runs' = Put(i, "failed")
  <2>1. Moves(i, "failed")
    BY <1>3, PutMoves DEF Statuses, Final
  <2> QED  BY <1>1, <1>3, <2>1, AppendStarts, SameTurnsAt DEF Launch
<1> QED  BY <1>2, <1>3 DEF Launch

\* Recording how a turn ended.
LEMMA RecordDoes ==
    ASSUME TypeOK, NEW i, NEW t, NEW e, RecordTurn(i, t, e)
    PROVE  RowsKeep /\ \E s \in Statuses \ {"queued", "running", "gone"} : Moves(i, s)
<1>1. Ended(t, e) \in Statuses \ {"queued", "running", "gone"}
  BY EndedStatus
<1>2. Moves(i, Ended(t, e))
  BY <1>1, PutMoves DEF RecordTurn
<1>3. RowsKeep
  BY RetireKeeps, SameRows DEF RecordTurn
<1> QED  BY <1>1, <1>2, <1>3

LEMMA RejectDoes ==
    ASSUME TypeOK, ExpireResume, Head(stale) \in Nat
    PROVE  /\ rejecting /\ startLock' = FALSE /\ rejecting' = FALSE /\ stale' = Tail(stale) /\ RowsKeep
           /\ \/ /\ UNCHANGED <<turns, followers>>
                 /\ Still \/ \E s \in {"succeeded", "expired"} : Moves(Head(stale), s)
              \/ /\ Starts(Head(stale), "expiry") /\ Moves(Head(stale), "running")
                 /\ followers' = followers \cup
                      {[run |-> Head(stale), turn |-> Len(turns) + 1, expiring |-> TRUE, at |-> "wait"]}
<1> USE DEF tables
<1> DEFINE i == Head(stale)
           r == runs[i].routine
<1>1. CASE runs' = Put(i, "succeeded") /\ UNCHANGED <<alive, routine, turns, followers>>
  <2>1. Moves(i, "succeeded")
    BY <1>1, PutMoves DEF Statuses, Final
  <2> QED  BY <1>1, <2>1, SameRows DEF ExpireResume
<1>2. CASE /\ runs' = [Put(i, "running") EXCEPT ![i].asked = 0]
           /\ turns' = Append(turns, NewTurn(i, "expiry"))
           /\ followers' = followers \cup
                {[run |-> i, turn |-> Len(turns) + 1, expiring |-> TRUE, at |-> "wait"]}
           /\ UNCHANGED <<alive, routine>>
  <2> DEFINE rs == Put(i, "running")
  <2>1. /\ SameRuns(rs)
        /\ \A j \in DOMAIN runs : j # i => rs[j] = runs[j]
        /\ i \in DOMAIN runs => rs[i].status = IF runs[i].status = "gone" THEN "gone" ELSE "running"
    BY PutFacts DEF Statuses
  <2>2. runs' = [rs EXCEPT ![i].asked = 0]
    BY <1>2
  <2> HIDE DEF rs
  <2>3. Moves(i, "running")
    <3>1. rs \in Seq(Run) /\ DOMAIN rs = DOMAIN runs
      BY <2>1 DEF SameRuns
    <3> HIDE DEF i
    <3>a. \A a \in Nat : LET e == [rs EXCEPT ![i].asked = a] IN
            /\ e \in Seq(Run) /\ Len(e) = Len(rs) /\ DOMAIN e = DOMAIN rs
            /\ \A j \in DOMAIN rs : /\ e[j].routine = rs[j].routine /\ e[j].status = rs[j].status
                                    /\ e[j].due = rs[j].due /\ e[j].made = rs[j].made
      BY <3>1, AskedFacts
    <3>2. /\ runs' \in Seq(Run) /\ Len(runs') = Len(rs) /\ DOMAIN runs' = DOMAIN rs
          /\ \A j \in DOMAIN rs : /\ runs'[j].routine = rs[j].routine /\ runs'[j].status = rs[j].status
                                   /\ runs'[j].due = rs[j].due /\ runs'[j].made = rs[j].made
      BY <2>2, <3>a
    <3> QED  BY <2>1, <3>1, <3>2 DEF Moves, SameRuns
  <2>4. Starts(i, "expiry")
    BY <1>2, AppendStarts
  <2> QED  BY <1>2, <2>3, <2>4, SameRows DEF ExpireResume
<1>3. CASE /\ runs' = Put(i, "expired") /\ routine' = [routine EXCEPT ![r] = Refused(r)]
           /\ UNCHANGED <<alive, turns, followers>>
  <2>1. Moves(i, "expired")
    BY <1>3, PutMoves DEF Statuses, Final
  <2>2. RowsKeep
    <3>1. routine \in [Routines -> Routine] /\ alive \subseteq Routines
      BY DEF TypeOK
    <3>2. CASE r \in Routines
      BY <1>3, <3>1, <3>2, RefusedFacts DEF RowsKeep
    <3>3. CASE r \notin Routines
      BY <1>3, <3>1, <3>3 DEF RowsKeep
    <3> QED  BY <3>2, <3>3
  <2> QED  BY <1>3, <2>1, <2>2 DEF ExpireResume
<1>4. CASE UNCHANGED <<alive, tables, turns, followers>>
  BY <1>4, SameRows, SameStill DEF ExpireResume
<1> QED  BY <1>1, <1>2, <1>3, <1>4 DEF ExpireResume


\* The tasks that follow a turn nobody queued.
LEMMA FollowDoes ==
    ASSUME TypeOK, NEW f \in followers, Follow(f)
    PROVE  /\ f.at = "mark" /\ Moves(f.run, "running") /\ UNCHANGED <<routine, alive>>
           /\ [f EXCEPT !.at = "wait"] \in Follower /\ [f EXCEPT !.at = "wait"].run = f.run
           /\ followers' = (followers \ {f}) \cup {[f EXCEPT !.at = "wait"]}
<1>1. Moves(f.run, "running")
  BY PutMoves DEF Follow, Statuses
<1>2. f \in Follower
  BY DEF TypeOK
<1> QED  BY <1>1, <1>2 DEF Follow, Follower

\* How a turn that was followed ends: with its record, unless its task was killed.
LEMMA FollowedDoes ==
    ASSUME TypeOK, NEW f \in followers, Followed(f)
    PROVE  /\ followers' = followers \ {f} /\ RowsKeep
           /\ \/ Still /\ dropped' = dropped \cup {f.run}
              \/ dropped' = dropped /\ \E s \in Statuses \ {"queued", "running", "gone"} : Moves(f.run, s)
<1>1. CASE turns[f.turn].status = "stuck"
  BY <1>1, SameRows, SameStill DEF Followed, tables
<1>2. CASE turns[f.turn].status # "stuck"
  BY <1>2, RecordDoes DEF Followed
<1> QED  BY <1>1, <1>2 DEF Followed

LEMMA FinishDoes ==
    ASSUME TypeOK, NEW w \in Workers, FinishRun(w)
    PROVE  /\ worker[w].at = "following" /\ RowsKeep
           /\ \/ Move(w, "dead") /\ Still /\ dropped' = dropped \cup {worker[w].run}
              \/ /\ worker' = [worker EXCEPT ![w] = Idle] /\ dropped' = dropped
                 /\ \E s \in Statuses \ {"queued", "running", "gone"} : Moves(worker[w].run, s)
<1>1. CASE turns[worker[w].turn].status = "stuck"
  BY <1>1, SameRows, SameStill DEF FinishRun, tables
<1>2. CASE turns[worker[w].turn].status # "stuck"
  BY <1>2, RecordDoes DEF FinishRun
<1> QED  BY <1>1, <1>2 DEF FinishRun

\* What a failing store leaves: rows that keep their routine's time or lose it, ...
LEMMA HalfKeeps ==
    ASSUME TypeOK, NEW r, NEW b, NEW S, HalfWritten(r, b, S)
    PROVE  RowsKeep
<1>1. routine \in [Routines -> Routine] /\ alive \subseteq Routines
  BY DEF TypeOK
<1>2. CASE UNCHANGED <<alive, routine>>
  BY <1>2, SameRows
<1>3. CASE routine' = [routine EXCEPT ![r] = Refused(r)] /\ UNCHANGED alive
  <2>1. CASE r \in Routines
    BY <1>1, <1>3, <2>1, RefusedFacts DEF RowsKeep
  <2>2. CASE r \notin Routines
    BY <1>1, <1>3, <2>2 DEF RowsKeep
  <2> QED  BY <2>1, <2>2
<1>4. CASE alive' = alive \ {r} /\ UNCHANGED routine
  BY <1>1, <1>4 DEF RowsKeep
<1> QED  BY <1>2, <1>3, <1>4 DEF HalfWritten

\* ... and a run that is failed, or with its worker gone.
LEMMA WorkerFailsDoes ==
    ASSUME TypeOK, NEW w \in Workers, WorkerFails(w)
    PROVE  /\ worker[w].at \in {"checking", "granting", "marking", "launching", "following"}
           /\ RowsKeep /\ startLock' \in BOOLEAN
           /\ startLock' = FALSE \/ (worker[w].at = "following" /\ startLock' = startLock)
           /\ turns' = turns \/ (worker[w].at = "launching" /\ Starts(worker[w].run, "queue"))
           /\ \/ /\ worker' = [worker EXCEPT ![w] = Idle] /\ dropped' = dropped
                 /\ Moves(worker[w].run, "failed")
              \/ /\ Move(w, "dead") /\ dropped' = dropped \cup {worker[w].run}
                 /\ Still \/ \E s \in Statuses \ {"queued", "running", "gone"} : Moves(worker[w].run, s)
<1> DEFINE i == worker[w].run
<1>0. i \in Nat
  BY WorkersAt DEF AWorker
<1>1. RowsKeep
  BY HalfKeeps DEF WorkerFails
<1>2. turns' = turns \/ (worker[w].at = "launching" /\ Starts(i, "queue"))
  BY <1>0, AppendStarts DEF WorkerFails
<1>3. CASE runs' = Put(i, "failed") /\ UNCHANGED dropped /\ worker' = [worker EXCEPT ![w] = Idle]
  <2>1. Moves(i, "failed")
    BY <1>3, PutMoves DEF Statuses, Final
  <2> QED  BY <1>1, <1>2, <1>3, <2>1 DEF WorkerFails, TypeOK
<1>4. CASE /\ runs' \in {runs} \cup {Put(i, s) : s \in Recorded(w)}
           /\ dropped' = dropped \cup {i} /\ Move(w, "dead")
  <2>1. Recorded(w) \subseteq Statuses \ {"queued", "running", "gone"}
    <3>1. Ended(worker[w].turn, FALSE) \in Statuses \ {"queued", "running", "gone"}
      BY EndedStatus
    <3>2. Refusals(worker[w].run) \subseteq {"missed", "gone", "failed"}
      BY DEF Refusals
    <3> QED  BY <3>1, <3>2 DEF Recorded, Statuses, Final
  <2>2. Still \/ \E s \in Statuses \ {"queued", "running", "gone"} : Moves(i, s)
    <3>1. CASE runs' = runs
      BY <3>1, SameStill
    <3>2. ASSUME NEW s \in Recorded(w), runs' = Put(i, s)
          PROVE  \E x \in Statuses \ {"queued", "running", "gone"} : Moves(i, x)
      BY <2>1, <3>2, PutMoves
    <3> QED  BY <1>4, <3>1, <3>2
  <2> QED  BY <1>1, <1>2, <1>4, <2>2 DEF WorkerFails, TypeOK
<1> QED  BY <1>3, <1>4 DEF WorkerFails

LEMMA FollowerFailsDoes ==
    ASSUME TypeOK, NEW f \in followers, FollowerFails(f)
    PROVE  /\ followers' = followers \ {f} /\ RowsKeep /\ dropped' = dropped \cup {f.run}
           /\ Still \/ \E s \in Statuses \ {"queued", "running", "gone"} : Moves(f.run, s)
<1>1. RowsKeep
  BY HalfKeeps DEF FollowerFails
<1>2. runs' = runs \/ \E e : runs' = Put(f.run, Ended(f.turn, e))
  BY DEF FollowerFails
<1>3. Still \/ \E s \in Statuses \ {"queued", "running", "gone"} : Moves(f.run, s)
  BY <1>2, SameStill, EndedStatus, PutMoves
<1> QED  BY <1>1, <1>3 DEF FollowerFails

LEMMA ExpireFailsDoes ==
    ASSUME TypeOK, ExpireFails, Head(stale) \in Nat
    PROVE  /\ RowsKeep /\ Still /\ rejecting' = FALSE /\ startLock' \in BOOLEAN
           /\ \/ rejecting /\ startLock' = FALSE
              \/ startLock' = startLock /\ turns' = turns
           /\ turns' = turns \/ Starts(Head(stale), "expiry")
<1> USE DEF tables
<1> DEFINE i == Head(stale)
           r == runs[i].routine
<1>1. CASE UNCHANGED <<tables, turns>>
  BY <1>1, SameRows, SameStill DEF ExpireFails, TypeOK
<1>2. CASE rejecting /\ routine' = [routine EXCEPT ![r] = Refused(r)] /\ UNCHANGED <<runs, turns>>
  <2>1. routine \in [Routines -> Routine] /\ alive' \subseteq Routines
    BY DEF TypeOK, ExpireFails
  <2>2. RowsKeep
    <3>1. CASE r \in Routines
      BY <1>2, <2>1, <3>1, RefusedFacts DEF RowsKeep
    <3>2. CASE r \notin Routines
      BY <1>2, <2>1, <3>2 DEF RowsKeep
    <3> QED  BY <3>1, <3>2
  <2> QED  BY <1>2, <2>2, SameStill DEF ExpireFails, TypeOK
<1>3. CASE /\ rejecting /\ runs' = [runs EXCEPT ![i].asked = 0]
           /\ turns' = Append(turns, NewTurn(i, "expiry")) /\ UNCHANGED routine
  <2>1. Still
    <3>1. runs' = [runs EXCEPT ![i].asked = 0]
      BY <1>3
    <3> HIDE DEF i, r
    <3>2. \A a \in Nat : LET e == [runs EXCEPT ![i].asked = a] IN
            /\ e \in Seq(Run) /\ Len(e) = Len(runs) /\ DOMAIN e = DOMAIN runs
            /\ \A j \in DOMAIN runs : /\ e[j].routine = runs[j].routine /\ e[j].status = runs[j].status
                                      /\ e[j].due = runs[j].due /\ e[j].made = runs[j].made
      BY AskedFacts, RunsAt
    <3> QED  BY <3>1, <3>2 DEF Still, SameRuns
  <2>2. Starts(i, "expiry")
    BY <1>3, AppendStarts
  <2> QED  BY <1>3, <2>1, <2>2, SameRows DEF ExpireFails, TypeOK
<1> QED  BY <1>1, <1>2, <1>3 DEF ExpireFails

\* One run more, of routine r, made by hand.
Adds(r) ==
    /\ runs' \in Seq(Run) /\ Len(runs') = Len(runs) + 1
    /\ DOMAIN runs' = DOMAIN runs \cup {Len(runs) + 1} /\ Len(runs) + 1 \notin DOMAIN runs
    /\ \A i \in DOMAIN runs : runs'[i] = runs[i]
    /\ runs'[Len(runs) + 1].routine = r /\ runs'[Len(runs) + 1].due = 0
    /\ runs'[Len(runs) + 1].status = "running"

LEMMA RunNowDoes ==
    ASSUME TypeOK, NEW r \in Routines, RunNow(r)
    PROVE  /\ Adds(r) /\ routine[r].here /\ UNCHANGED <<routine, alive>>
           /\ \/ /\ Starts(Len(runs) + 1, "hand") /\ dropped' = dropped
                 /\ followers' = followers \cup
                    {[run |-> Len(runs) + 1, turn |-> Len(turns) + 1, expiring |-> FALSE, at |-> "wait"]}
              \/ /\ (turns' = turns \/ Starts(Len(runs) + 1, "hand"))
                 /\ dropped' = dropped \cup {Len(runs) + 1} /\ followers' = followers
<1> DEFINE i == Len(runs) + 1
           x == [routine |-> r, status |-> "running", due |-> 0, made |-> now,
                 at |-> 0, thread |-> TRUE, asked |-> 0]
<1>1. i \in Nat /\ x \in Run /\ x.routine = r /\ x.due = 0 /\ x.status = "running"
  BY RunsAt DEF TypeOK, Run, Statuses
<1>2. runs' = Append(runs, x)
  BY DEF RunNow
<1> HIDE DEF x
<1>3. Adds(r)
  BY <1>1, <1>2, RunsAt, AppendAt DEF Adds
<1>4. \/ turns' = Append(turns, NewTurn(i, "hand")) /\ dropped' = dropped /\ followers' = followers \cup
                    {[run |-> i, turn |-> Len(turns) + 1, expiring |-> FALSE, at |-> "wait"]}
      \/ turns' \in {turns, Append(turns, NewTurn(i, "hand"))}
         /\ dropped' = dropped \cup {i} /\ followers' = followers
  BY DEF RunNow
<1> HIDE DEF i
<1>5. turns' = Append(turns, NewTurn(i, "hand")) => Starts(i, "hand")
  BY <1>1, AppendStarts
<1>6. routine[r].here /\ UNCHANGED <<routine, alive>>
  BY DEF RunNow
<1>7. \/ Starts(i, "hand") /\ dropped' = dropped /\ followers' = followers \cup
                    {[run |-> i, turn |-> Len(turns) + 1, expiring |-> FALSE, at |-> "wait"]}
      \/ (turns' = turns \/ Starts(i, "hand"))
         /\ dropped' = dropped \cup {i} /\ followers' = followers
  BY <1>4, <1>5
<1> QED  BY <1>3, <1>6, <1>7 DEF i

\* The resumed turn of a person's answer.
LEMMA AnswerDoes ==
    ASSUME TypeOK, NEW a \in answers, AnswerStarts(a)
    PROVE  /\ Still /\ UNCHANGED <<routine, alive>> /\ answers' \subseteq answers
           /\ \/ UNCHANGED <<turns, followers>>
              \/ /\ Starts(a.run, "answer") /\ a.run \in Nat
                 /\ followers' \in {followers, followers \cup
                    {[run |-> a.run, turn |-> Len(turns) + 1, expiring |-> FALSE, at |-> "mark"]}}
<1>1. a.run \in Nat
  BY DEF TypeOK
<1>2. CASE UNCHANGED <<runs, turns, followers>>
  BY <1>2, SameStill DEF AnswerStarts
<1>3. CASE /\ runs' = [runs EXCEPT ![a.run].asked = 0]
           /\ turns' = Append(turns, NewTurn(a.run, "answer"))
           /\ followers' = IF ~a.tracked THEN followers ELSE followers \cup
                {[run |-> a.run, turn |-> Len(turns) + 1, expiring |-> FALSE, at |-> "mark"]}
  <2>1. Still
    <3> DEFINE i == a.run
               n == 0
    <3>1. n \in Nat /\ runs' = [runs EXCEPT ![i].asked = n] /\ runs \in Seq(Run)
      BY <1>3, RunsAt
    <3> HIDE DEF i, n
    <3> QED  BY <3>1, AskedFacts DEF Still, SameRuns
  <2>2. Starts(a.run, "answer")
    BY <1>1, <1>3, AppendStarts
  <2> QED  BY <1>1, <1>3, <2>1, <2>2 DEF AnswerStarts
<1> QED  BY <1>2, <1>3 DEF AnswerStarts

LEMMA WithoutDoes ==
    ASSUME TypeOK, ExpireWithout
    PROVE  /\ ~rejecting /\ stale' = Tail(stale) /\ UNCHANGED <<routine, alive>>
           /\ Still \/ Moves(Head(stale), "expired")
<1>1. runs' = Put(Head(stale), "expired") => Moves(Head(stale), "expired")
  BY PutMoves DEF Statuses, Final
<1> QED  BY <1>1, SameStill DEF ExpireWithout

\* What people do to a routine.
LEMMA SwitchDoes ==
    ASSUME TypeOK, NEW r \in Routines, Switch(r)
    PROVE  /\ routine' \in [Routines -> Routine] /\ alive' \subseteq Routines /\ Still
           /\ \A q \in Routines : q # r => routine'[q] = routine[q]
           /\ routine[r].here /\ routine'[r].here
           /\ routine'[r].next # 0 => routine'[r].next > now
<1> DEFINE on == ~routine[r].enabled
           x == [here |-> TRUE, enabled |-> on, next |-> IF on THEN NextTime(now) ELSE 0, grant |-> on]
<1>1. routine \in [Routines -> Routine] /\ alive \subseteq Routines /\ now \in Nat
  BY DEF TypeOK
<1>2. NextTime(now) \in Nat /\ NextTime(now) > now
  BY <1>1, NextTimeLater
<1>3. on \in BOOLEAN
  BY <1>1 DEF Routine
<1>4. x \in Routine /\ x.here /\ (x.next # 0 => x.next > now)
  BY <1>2, <1>3 DEF Routine
<1>5. routine' = [routine EXCEPT ![r] = x] /\ (alive' = alive \cup {r} \/ alive' = alive \ {r})
  BY DEF Switch
<1>6. runs' = runs /\ routine[r].here
  BY DEF Switch
<1> HIDE DEF x, on
<1> QED  BY <1>1, <1>4, <1>5, <1>6, SameStill

LEMMA DeleteDoes ==
    ASSUME TypeOK, NEW r \in Routines, Delete(r)
    PROVE  /\ routine' \in [Routines -> Routine] /\ alive' \subseteq Routines /\ SameRuns(runs')
           /\ \A q \in Routines : q # r => routine'[q] = routine[q]
           /\ routine'[r] = NoRoutine /\ routine'[r].next = 0 /\ ~routine'[r].here
           /\ \A i \in DOMAIN runs :
                runs'[i].status = IF runs[i].routine = r THEN "gone" ELSE runs[i].status
<1>1. routine \in [Routines -> Routine] /\ alive \subseteq Routines
  BY DEF TypeOK
<1>2. NoRoutine \in Routine
  BY DEF NoRoutine, Routine
<1>3. routine' = [routine EXCEPT ![r] = NoRoutine] /\ alive' = alive \ {r}
  BY DEF Delete
<1>4. runs' = [i \in DOMAIN runs |->
                 IF runs[i].routine = r THEN [runs[i] EXCEPT !.status = "gone"] ELSE runs[i]]
  BY DEF Delete
<1>5. ASSUME NEW i \in DOMAIN runs
      PROVE  /\ runs'[i] \in Run /\ runs'[i].routine = runs[i].routine
             /\ runs'[i].due = runs[i].due /\ runs'[i].made = runs[i].made
             /\ runs'[i].status = IF runs[i].routine = r THEN "gone" ELSE runs[i].status
  <2>1. runs[i] \in Run /\ "gone" \in Statuses
    BY <1>5, RunsAt DEF Statuses
  <2> QED  BY <1>4, <1>5, <2>1 DEF Run
<1>6. runs' \in [1..Len(runs) -> Run] /\ Len(runs) \in Nat
  BY <1>4, <1>5, RunsAt
<1>7. runs' \in Seq(Run) /\ Len(runs') = Len(runs) /\ DOMAIN runs' = DOMAIN runs
  BY <1>6, IsASeq, LenProperties, RunsAt
<1>8. SameRuns(runs')
  BY <1>5, <1>7 DEF SameRuns
<1> QED  BY <1>1, <1>2, <1>3, <1>5, <1>8 DEF NoRoutine

\* `recover_interrupted`: what ran has failed, what was queued is queued.
LEMMA RestartDoes ==
    ASSUME TypeOK, Restart
    PROVE  /\ SameRuns(runs') /\ SameTurns(turns') /\ now' \in Nat /\ now' >= now
           /\ \A i \in DOMAIN runs :
                runs'[i].status = IF runs[i].status = "running" THEN "failed" ELSE runs[i].status
           /\ \A t \in DOMAIN turns : ~InActive(t)'
           /\ queue' \in Seq(Nat) /\ Distinct(queue')
           /\ Range(queue') = {i \in DOMAIN runs : runs[i].status = "queued"}
           /\ worker' \in [Workers -> AWorker] /\ \A w \in Workers : worker'[w] = Idle
<1>1. now' \in Nat /\ now' >= now
  <2>1. now \in Nat /\ MaxTime \in Nat /\ now' \in now..MaxTime
    BY BoundsAssumption DEF Restart, TypeOK
  <2> QED  BY <2>1
<1>2. runs' = [i \in DOMAIN runs |-> IF runs[i].status = "running"
                 THEN [runs[i] EXCEPT !.status = "failed", !.at = now'] ELSE runs[i]]
  BY DEF Restart
<1>3. ASSUME NEW i \in DOMAIN runs
      PROVE  /\ runs'[i] \in Run /\ runs'[i].routine = runs[i].routine
             /\ runs'[i].due = runs[i].due /\ runs'[i].made = runs[i].made
             /\ runs'[i].status = IF runs[i].status = "running" THEN "failed" ELSE runs[i].status
  <2>1. runs[i] \in Run /\ "failed" \in Statuses
    BY <1>3, RunsAt DEF Statuses, Final
  <2> QED  BY <1>1, <1>2, <1>3, <2>1 DEF Run
<1>4. runs' \in Seq(Run) /\ Len(runs') = Len(runs) /\ DOMAIN runs' = DOMAIN runs
  <2>1. runs' \in [1..Len(runs) -> Run] /\ Len(runs) \in Nat
    BY <1>2, <1>3, RunsAt
  <2> QED  BY <2>1, IsASeq, LenProperties, RunsAt
<1>5. SameRuns(runs')
  BY <1>3, <1>4 DEF SameRuns
<1>6. turns' = [t \in DOMAIN turns |-> IF InActive(t)
                  THEN [turns[t] EXCEPT !.status = "lost"] ELSE turns[t]]
  BY DEF Restart
<1>7. ASSUME NEW t \in DOMAIN turns
      PROVE  /\ turns'[t] \in Turn /\ turns'[t].run = turns[t].run /\ turns'[t].by = turns[t].by
             /\ turns'[t].status \notin {"running", "stuck"}
  <2>1. turns[t] \in Turn
    BY <1>7, TurnsAt
  <2> QED  BY <1>6, <1>7, <2>1 DEF Turn, InActive
<1>8. turns' \in Seq(Turn) /\ Len(turns') = Len(turns) /\ DOMAIN turns' = DOMAIN turns
  <2>1. turns' \in [1..Len(turns) -> Turn] /\ Len(turns) \in Nat
    BY <1>6, <1>7, TurnsAt
  <2> QED  BY <2>1, IsASeq, LenProperties, TurnsAt
<1>9. SameTurns(turns') /\ \A t \in DOMAIN turns : ~InActive(t)'
  BY <1>7, <1>8 DEF SameTurns, InActive
<1>10. queue' \in Seq(Nat) /\ Distinct(queue') /\ Range(queue') = {i \in DOMAIN runs : runs[i].status = "queued"}
  <2> DEFINE Q == {i \in DOMAIN runs : runs[i].status = "queued"}
             key == [i \in DOMAIN runs |-> runs[i].due]
  <2>1. queue' \in InOrder(Q, key)
    BY DEF Restart, Recovered
  <2>2. IsFiniteSet(Q) /\ Q \subseteq Nat
    <3>1. Q \subseteq 1..Len(runs) /\ Len(runs) \in Nat
      BY RunsAt
    <3>2. IsFiniteSet(1..Len(runs))
      BY <3>1, FS_Interval
    <3> HIDE DEF Q
    <3>3. IsFiniteSet(Q)
      BY <3>1, <3>2, FS_Subset
    <3> QED  BY <3>1, <3>3
  <2> HIDE DEF Q, key
  <2>3. queue' \in Seq(Q) /\ Distinct(queue') /\ Range(queue') = Q
    BY <2>1, <2>2, InOrderFacts
  <2>4. queue' \in Seq(Nat)
    <3>1. queue' \in [1..Len(queue') -> Q] /\ Len(queue') \in Nat
      BY <2>3, LenProperties
    <3>2. queue' \in [1..Len(queue') -> Nat]
      BY <2>2, <3>1
    <3> QED  BY <3>1, <3>2, IsASeq
  <2> QED  BY <2>3, <2>4 DEF Q
<1>11. worker' \in [Workers -> AWorker] /\ \A w \in Workers : worker'[w] = Idle
  BY DEF Restart, Idle, AWorker, WorkerAt
<1> QED  BY <1>1, <1>3, <1>5, <1>9, <1>10, <1>11
-----------------------------------------------------------------------------
(* Types.                                                                  *)

\* While `_expire` rejects, the run it looks at is the first of those it has yet to see to.
TypeInv == TypeOK /\ (rejecting => stale # << >>)

LEMMA HeadTail ==
    ASSUME NEW S, NEW s \in Seq(S)
    PROVE  s # << >> => Head(s) \in S /\ Tail(s) \in Seq(S)
BY HeadTailProperties

LEMMA AFollower ==
    ASSUME NEW i \in Nat, NEW t \in Nat, NEW e \in BOOLEAN, NEW at \in {"mark", "wait"}
    PROVE  [run |-> i, turn |-> t, expiring |-> e, at |-> at] \in Follower
BY DEF Follower

\* Adds and Starts keep the types of the tables.
LEMMA TablesTyped ==
    ASSUME TypeOK
    PROVE  /\ Still => runs' \in Seq(Run)
           /\ \A i, s : Moves(i, s) => runs' \in Seq(Run)
           /\ \A i, by : Starts(i, by) => turns' \in Seq(Turn)
           /\ \A r : Adds(r) => runs' \in Seq(Run)
           /\ SameTurns(turns') => turns' \in Seq(Turn)
           /\ SameRuns(runs') => runs' \in Seq(Run)
           /\ RowsKeep => routine' \in [Routines -> Routine] /\ alive' \subseteq Routines
BY DEF Still, SameRuns, Moves, Starts, Adds, SameTurns, RowsKeep

\* The steps of the scheduler's poll keep the types.
LEMMA PollTyped ==
    ASSUME TypeInv, Poll \/ TickFails \/ ExpireEnter \/ ExpireFails
    PROVE  TypeInv'
<1> USE DEF TypeInv, outside, process, polling, tables
<1>0. (stale # << >> => Head(stale) \in Nat /\ Tail(stale) \in Seq(Nat))
      /\ (claims # << >> => Head(claims) \in Nat /\ Tail(claims) \in Seq(Nat))
  BY HeadTail DEF TypeOK
<1>1. CASE Claim
  <2>1. /\ runs' \in Seq(Run) /\ claims' \in Seq(Nat) /\ routine' \in [Routines -> Routine]
    BY <1>1, ClaimDoes
  <2> QED  BY <1>1, <2>1 DEF Claim, TypeOK
<1>2. CASE HandOut
  <2>1. /\ runs' \in Seq(Run) /\ routine' \in [Routines -> Routine] /\ alive' \subseteq Routines
        /\ claims' \in Seq(Nat) /\ queue' \in {queue, Append(queue, Head(claims))}
    BY <1>0, <1>2, HandOutDoes, TablesTyped
  <2>2. Append(queue, Head(claims)) \in Seq(Nat)
    BY <1>0, <1>2, AppendProperties DEF HandOut, TypeOK
  <2> QED  BY <1>2, <2>1, <2>2 DEF HandOut, TypeOK
<1>3. CASE ReadStale
  <2> DEFINE key == [i \in Stale |-> runs[i].at]
  <2>1. stale' \in InOrder(Stale, key)
    BY <1>3 DEF ReadStale
  <2>2. Stale \subseteq 1..Len(runs) /\ Len(runs) \in Nat
    BY RunsAt DEF Stale
  <2>3. IsFiniteSet(Stale)
    <3>1. IsFiniteSet(1..Len(runs))
      BY <2>2, FS_Interval
    <3> QED  BY <2>2, <3>1, FS_Subset
  <2> HIDE DEF key
  <2>4. stale' \in Seq(Stale) /\ Range(stale') = Stale
    BY <2>1, <2>3, InOrderFacts
  <2>5. stale' \in Seq(Nat)
    <3>1. stale' \in [1..Len(stale') -> Stale] /\ Len(stale') \in Nat
      BY <2>4, LenProperties
    <3>2. stale' \in [1..Len(stale') -> Nat]
      <4>1. Stale \subseteq Nat
        BY <2>2
      <4> QED  BY <3>1, <4>1
    <3> QED  BY <3>1, <3>2, IsASeq
  <2>6. stale' # << >>
    BY <1>3, <2>4, EmptyRange DEF ReadStale
  <2> QED  BY <1>3, <2>5, <2>6 DEF ReadStale, TypeOK
<1>4. CASE ExpireWithout
  <2>1. runs' \in Seq(Run) /\ stale' \in Seq(Nat) /\ ~rejecting
    BY <1>0, <1>4, WithoutDoes, TablesTyped DEF ExpireWithout
  <2> QED  BY <1>4, <2>1 DEF ExpireWithout, TypeOK
<1>5. CASE ExpireResume
  <2>1. Head(stale) \in Nat /\ Tail(stale) \in Seq(Nat)
    BY <1>0, <1>5 DEF ExpireResume
  <2>2. /\ runs' \in Seq(Run) /\ turns' \in Seq(Turn) /\ routine' \in [Routines -> Routine] /\ alive' \subseteq Routines
    <3>1. turns' = turns => turns' \in Seq(Turn)
      BY DEF TypeOK
    <3> QED  BY <1>5, <2>1, <3>1, RejectDoes, TablesTyped
  <2>3. followers' \subseteq Follower
    <3>1. [run |-> Head(stale), turn |-> Len(turns) + 1, expiring |-> TRUE, at |-> "wait"] \in Follower
      <4>1. Len(turns) + 1 \in Nat
        BY TurnsAt
      <4> QED  BY <2>1, <4>1, AFollower
    <3>2. followers' \in {followers, followers \cup
             {[run |-> Head(stale), turn |-> Len(turns) + 1, expiring |-> TRUE, at |-> "wait"]}}
      BY <1>5, <2>1, RejectDoes
    <3> QED  BY <3>1, <3>2 DEF TypeOK
  <2> QED  BY <1>5, <2>1, <2>2, <2>3 DEF ExpireResume, TypeOK
<1>6. CASE TickFails
  <2>1. Range(claims) \subseteq Nat /\ << >> \in Seq(Nat)
    BY EmptySeq, LenProperties DEF Range, TypeOK
  <2> QED  BY <1>6, <2>1 DEF TickFails, TypeOK
<1>7. CASE ExpireEnter
  BY <1>7 DEF ExpireEnter, StartLock, TypeOK
<1>8. CASE ExpireFails
  <2>1. Head(stale) \in Nat /\ Tail(stale) \in Seq(Nat)
    BY <1>0, <1>8 DEF ExpireFails
  <2>2. /\ runs' \in Seq(Run) /\ turns' \in Seq(Turn) /\ routine' \in [Routines -> Routine] /\ alive' \subseteq Routines
        /\ startLock' \in BOOLEAN /\ rejecting' = FALSE
    <3>1. turns' = turns => turns' \in Seq(Turn)
      BY DEF TypeOK
    <3> QED  BY <1>8, <2>1, <3>1, ExpireFailsDoes, TablesTyped
  <2> QED  BY <1>8, <2>1, <2>2 DEF ExpireFails, TypeOK
<1> QED  BY <1>1, <1>2, <1>3, <1>4, <1>5, <1>6, <1>7, <1>8 DEF Poll

\* So do a worker's.
LEMMA WorkerTyped ==
    ASSUME TypeInv, NEW w \in Workers, WorkerStep(w) \/ Enter(w) \/ WorkerFails(w)
    PROVE  TypeInv'
<1> USE DEF TypeInv, outside, process, polling, tables
<1>a. worker \in [Workers -> AWorker] /\ worker[w] \in AWorker /\ worker[w].run \in Nat
  BY WorkersAt DEF AWorker
<1>b. worker' \in [Workers -> AWorker] => worker' \in [Workers -> [at : WorkerAt, run : Nat, turn : Nat]]
  BY DEF AWorker
<1>c. (Leave(w) => worker' \in [Workers -> AWorker] /\ startLock' \in BOOLEAN)
      /\ \A at \in WorkerAt : Move(w, at) => worker' \in [Workers -> AWorker]
  BY LeaveDoes, MoveDoes DEF Leave
<1>d. {"idle", "waiting", "checking", "granting", "marking", "launching", "following", "dead"} = WorkerAt
  BY DEF WorkerAt
<1>1. CASE Take(w)
  <2>1. Head(queue) \in Nat /\ Tail(queue) \in Seq(Nat)
    BY <1>1, HeadTail DEF Take, TypeOK
  <2>2. [at |-> "waiting", run |-> Head(queue), turn |-> 0] \in AWorker
    BY <2>1, <1>d DEF AWorker
  <2>3. worker' \in [Workers -> AWorker]
    BY <1>1, <1>a, <2>2 DEF Take
  <2> QED  BY <1>1, <1>b, <2>1, <2>3 DEF Take, TypeOK
<1>2. CASE Enter(w)
  BY <1>2, <1>b, <1>c, <1>d DEF Enter, StartLock, TypeOK
<1>3. CASE Check(w)
  <2>1. /\ runs' \in Seq(Run) /\ routine' \in [Routines -> Routine] /\ alive' \subseteq Routines
        /\ worker' \in [Workers -> AWorker] /\ startLock' \in BOOLEAN
    BY <1>3, <1>c, <1>d, CheckDoes, TablesTyped DEF TypeOK
  <2> QED  BY <1>3, <1>b, <2>1 DEF Check, TypeOK
<1>4. CASE Grant(w)
  <2>1. /\ runs' \in Seq(Run) /\ routine' \in [Routines -> Routine] /\ alive' \subseteq Routines
        /\ worker' \in [Workers -> AWorker] /\ startLock' \in BOOLEAN
    BY <1>4, <1>c, <1>d, GrantDoes, TablesTyped DEF TypeOK
  <2> QED  BY <1>4, <1>b, <2>1 DEF Grant, TypeOK
<1>5. CASE MarkRunning(w)
  <2>1. runs' \in Seq(Run)
    BY <1>5, PutMoves, TablesTyped DEF MarkRunning, Statuses
  <2> QED  BY <1>5, <1>b, <1>c, <1>d, <2>1 DEF MarkRunning, TypeOK
<1>6. CASE Launch(w)
  <2>1. /\ runs' \in Seq(Run) /\ turns' \in Seq(Turn) /\ worker' \in [Workers -> AWorker] /\ startLock' \in BOOLEAN
        /\ UNCHANGED <<routine, alive>>
    <3>1. turns' = turns => turns' \in Seq(Turn)
      BY DEF TypeOK
    <3> QED  BY <1>6, <3>1, LaunchDoes, LeaveDoes, TablesTyped
  <2> QED  BY <1>6, <1>b, <2>1 DEF Launch, TypeOK
<1>7. CASE FinishRun(w)
  <2>1. /\ runs' \in Seq(Run) /\ routine' \in [Routines -> Routine] /\ alive' \subseteq Routines
        /\ worker' \in [Workers -> AWorker] /\ dropped' \subseteq Nat
    <3>1. RowsKeep /\ runs' \in Seq(Run)
      BY <1>7, FinishDoes, TablesTyped
    <3>2. worker' \in [Workers -> AWorker]
      BY <1>7, <1>c, <1>d, LeaveDoes, FinishDoes
    <3>3. dropped' \subseteq Nat
      BY <1>7, <1>a, FinishDoes DEF TypeOK
    <3> QED  BY <3>1, <3>2, <3>3, TablesTyped
  <2> QED  BY <1>7, <1>b, <2>1 DEF FinishRun, TypeOK
<1>8. CASE WorkerFails(w)
  <2>1. /\ runs' \in Seq(Run) /\ turns' \in Seq(Turn) /\ routine' \in [Routines -> Routine] /\ alive' \subseteq Routines
        /\ worker' \in [Workers -> AWorker] /\ dropped' \subseteq Nat /\ startLock' \in BOOLEAN
    <3>1. RowsKeep /\ runs' \in Seq(Run) /\ startLock' \in BOOLEAN
      BY <1>8, WorkerFailsDoes, TablesTyped
    <3>2. worker' \in [Workers -> AWorker]
      BY <1>8, <1>c, <1>d, LeaveDoes, WorkerFailsDoes
    <3>3. dropped' \subseteq Nat
      BY <1>8, <1>a, WorkerFailsDoes DEF TypeOK
    <3>4. turns' \in Seq(Turn)
      <4>1. turns' = turns => turns' \in Seq(Turn)
        BY DEF TypeOK
      <4> QED  BY <1>8, <4>1, WorkerFailsDoes, TablesTyped
    <3> QED  BY <3>1, <3>2, <3>3, <3>4, TablesTyped
  <2> QED  BY <1>8, <1>b, <2>1 DEF WorkerFails, TypeOK
<1> QED  BY <1>1, <1>2, <1>3, <1>4, <1>5, <1>6, <1>7, <1>8 DEF WorkerStep

\* So do the turns, the followers and the answers.
LEMMA TurnTyped ==
    ASSUME TypeInv, \/ ChatStarts \/ ChatEnds
                    \/ \E t \in DOMAIN turns : TurnEnds(t) \/ TurnSticks(t) \/ TimeLimit(t)
                    \/ \E f \in followers : Follow(f) \/ Followed(f) \/ FollowerFails(f)
                    \/ \E a \in answers : AnswerStarts(a)
    PROVE  TypeInv'
<1> USE DEF TypeInv, outside, process, polling, tables
<1>1. CASE ChatStarts
  BY <1>1 DEF ChatStarts, TypeOK
<1>2. CASE ChatEnds
  BY <1>2 DEF ChatEnds, TypeOK
<1>3. ASSUME NEW t \in DOMAIN turns, TurnEnds(t) \/ TurnSticks(t) \/ TimeLimit(t) PROVE TypeInv'
  <2>1. runs' \in Seq(Run) /\ turns' \in Seq(Turn)
    BY <1>3, TurnChanges, TablesTyped
  <2>2. CASE TurnEnds(t)
    BY <2>1, <2>2 DEF TurnEnds, TypeOK
  <2>3. CASE TurnSticks(t)
    BY <2>1, <2>3 DEF TurnSticks, TypeOK
  <2>4. CASE TimeLimit(t)
    BY <2>1, <2>4 DEF TimeLimit, TypeOK
  <2> QED  BY <1>3, <2>2, <2>3, <2>4
<1>4. ASSUME NEW f \in followers, Follow(f) PROVE TypeInv'
  <2>1. runs' \in Seq(Run) /\ followers' \subseteq Follower /\ UNCHANGED <<routine, alive>>
    BY <1>4, FollowDoes, TablesTyped DEF TypeOK
  <2> QED  BY <1>4, <2>1 DEF Follow, TypeOK
<1>5. ASSUME NEW f \in followers, Followed(f) PROVE TypeInv'
  <2>1. /\ runs' \in Seq(Run) /\ routine' \in [Routines -> Routine] /\ alive' \subseteq Routines
        /\ followers' \subseteq Follower
    BY <1>5, FollowedDoes, TablesTyped DEF TypeOK
  <2>2. f.run \in Nat
    BY DEF TypeOK, Follower
  <2>3. dropped' \subseteq Nat
    BY <1>5, <2>2, FollowedDoes DEF TypeOK
  <2> QED  BY <1>5, <2>1, <2>3 DEF Followed, TypeOK
<1>6. ASSUME NEW a \in answers, AnswerStarts(a) PROVE TypeInv'
  <2>1. /\ runs' \in Seq(Run) /\ UNCHANGED <<routine, alive>> /\ answers' \subseteq answers
    BY <1>6, AnswerDoes, TablesTyped
  <2>2. turns' \in Seq(Turn) /\ followers' \subseteq Follower
    <3>1. CASE UNCHANGED <<turns, followers>>
      BY <3>1 DEF TypeOK
    <3>2. CASE /\ Starts(a.run, "answer") /\ a.run \in Nat
               /\ followers' \in {followers, followers \cup
                    {[run |-> a.run, turn |-> Len(turns) + 1, expiring |-> FALSE, at |-> "mark"]}}
      <4>1. [run |-> a.run, turn |-> Len(turns) + 1, expiring |-> FALSE, at |-> "mark"] \in Follower
        <5>1. Len(turns) + 1 \in Nat
          BY TurnsAt
        <5> QED  BY <3>2, <5>1, AFollower
      <4> QED  BY <3>2, <4>1, TablesTyped DEF TypeOK
    <3> QED  BY <1>6, <3>1, <3>2, AnswerDoes
  <2> QED  BY <1>6, <2>1, <2>2 DEF AnswerStarts, TypeOK
<1>7. ASSUME NEW f \in followers, FollowerFails(f) PROVE TypeInv'
  <2>1. /\ runs' \in Seq(Run) /\ routine' \in [Routines -> Routine] /\ alive' \subseteq Routines
        /\ followers' \subseteq Follower
    BY <1>7, FollowerFailsDoes, TablesTyped DEF TypeOK
  <2>2. f.run \in Nat
    BY DEF TypeOK, Follower
  <2>3. dropped' \subseteq Nat
    BY <1>7, <2>2, FollowerFailsDoes DEF TypeOK
  <2> QED  BY <1>7, <2>1, <2>3 DEF FollowerFails, TypeOK
<1> QED  BY <1>1, <1>2, <1>3, <1>4, <1>5, <1>6, <1>7

\* So does what people, the admin, time and the server do.
LEMMA OutsideTyped ==
    ASSUME TypeInv, \/ \E r \in Routines : RunNow(r) \/ Switch(r) \/ Delete(r) \/ AdminSwitches(r) \/ GrantDies(r)
                    \/ \E i \in DOMAIN runs : Answer(i) \/ DeleteThread(i)
                    \/ Tick \/ Restart
    PROVE  TypeInv'
<1> USE DEF TypeInv, outside, process, polling, tables
<1>1. ASSUME NEW r \in Routines, RunNow(r) PROVE TypeInv'
  <2>1. Len(runs) + 1 \in Nat /\ Len(turns) + 1 \in Nat
    BY RunsAt, TurnsAt
  <2>2. runs' \in Seq(Run) /\ turns' \in Seq(Turn) /\ dropped' \subseteq Nat
    BY <1>1, <2>1, RunNowDoes, TablesTyped DEF TypeOK
  <2>3. followers' \subseteq Follower
    <3>1. [run |-> Len(runs) + 1, turn |-> Len(turns) + 1, expiring |-> FALSE, at |-> "wait"] \in Follower
      BY <2>1, AFollower
    <3> QED  BY <1>1, <3>1, RunNowDoes DEF TypeOK
  <2> QED  BY <1>1, <2>2, <2>3 DEF RunNow, TypeOK
<1>2. ASSUME NEW r \in Routines, Switch(r) PROVE TypeInv'
  <2>1. runs' \in Seq(Run) /\ routine' \in [Routines -> Routine] /\ alive' \subseteq Routines
    BY <1>2, SwitchDoes, TablesTyped
  <2> QED  BY <1>2, <2>1 DEF Switch, TypeOK
<1>3. ASSUME NEW r \in Routines, Delete(r) PROVE TypeInv'
  <2>1. runs' \in Seq(Run) /\ routine' \in [Routines -> Routine] /\ alive' \subseteq Routines
    BY <1>3, DeleteDoes, TablesTyped
  <2> QED  BY <1>3, <2>1 DEF Delete, TypeOK
<1>4. ASSUME NEW r \in Routines, AdminSwitches(r) PROVE TypeInv'
  BY <1>4 DEF AdminSwitches, TypeOK
<1>5. ASSUME NEW r \in Routines, GrantDies(r) PROVE TypeInv'
  BY <1>5 DEF GrantDies, TypeOK
<1>6. ASSUME NEW i \in DOMAIN runs, Answer(i) PROVE TypeInv'
  <2> DEFINE b == runs[i].status = "waiting_approval"
  <2>1. i \in Nat /\ b \in BOOLEAN
    BY RunsAt
  <2>2. answers' = answers \cup {[run |-> i, tracked |-> b]}
    BY <1>6 DEF Answer
  <2> HIDE DEF b
  <2>3. answers' \subseteq [run : Nat, tracked : BOOLEAN]
    BY <2>1, <2>2 DEF TypeOK
  <2> QED  BY <1>6, <2>3 DEF Answer, TypeOK
<1>7. ASSUME NEW i \in DOMAIN runs, DeleteThread(i) PROVE TypeInv'
  <2>1. runs' \in Seq(Run)
    <3>1. runs' = [runs EXCEPT ![i].thread = FALSE, ![i].asked = 0]
      BY <1>7 DEF DeleteThread
    <3> QED  BY <3>1, FieldFacts, TablesTyped
  <2> QED  BY <1>7, <2>1 DEF DeleteThread, TypeOK
<1>8. CASE Tick
  BY <1>8 DEF Tick, TypeOK
<1>9. CASE Restart
  <2>1. runs' \in Seq(Run) /\ turns' \in Seq(Turn) /\ now' \in Nat /\ queue' \in Seq(Nat)
        /\ worker' \in [Workers -> AWorker]
    BY <1>9, RestartDoes, TablesTyped
  <2>2. << >> \in Seq(Nat)
    BY EmptySeq
  <2>3. restartsLeft' \in Nat
    <3>1. restartsLeft \in Nat /\ restartsLeft > 0 /\ restartsLeft' = restartsLeft - 1
      BY <1>9 DEF Restart, TypeOK
    <3> QED  BY <3>1
  <2> QED  BY <1>9, <2>1, <2>2, <2>3 DEF Restart, TypeOK, AWorker
<1> QED  BY <1>1, <1>2, <1>3, <1>4, <1>5, <1>6, <1>7, <1>8, <1>9

LEMMA InitTyped == Init => TypeInv
<1> SUFFICES ASSUME Init PROVE TypeInv
  OBVIOUS
<1>1. << >> \in Seq(Nat) /\ << >> \in Seq(Run) /\ << >> \in Seq(Turn)
  BY EmptySeq
<1>2. NextTime(1) \in Nat
  BY NextTimeLater
<1>3. routine \in [Routines -> Routine]
  <2>1. NoRoutine \in Routine /\ [here |-> TRUE, enabled |-> TRUE, next |-> NextTime(1), grant |-> TRUE] \in Routine
    BY <1>2 DEF NoRoutine, Routine
  <2> QED  BY <2>1 DEF Init
<1>4. worker \in [Workers -> [at : WorkerAt, run : Nat, turn : Nat]]
  BY DEF Init, Idle, WorkerAt
<1> QED  BY <1>1, <1>3, <1>4, BoundsAssumption DEF Init, TypeInv, TypeOK

\* Every table, queue and task of the scheduler keeps its type.
THEOREM TypeCorrect == Spec => []TypeInv
<1>1. TypeInv /\ [Next]_vars => TypeInv'
  <2> SUFFICES ASSUME TypeInv, [Next]_vars PROVE TypeInv'
    OBVIOUS
  <2>1. CASE Next
    BY <2>1, PollTyped, WorkerTyped, TurnTyped, OutsideTyped DEF Next
  <2>2. CASE UNCHANGED vars
    BY <2>2 DEF vars, outside, process, polling, tables, TypeInv, TypeOK
  <2> QED  BY <2>1, <2>2
<1> QED  BY <1>1, InitTyped, PTL DEF Spec
-----------------------------------------------------------------------------
(* The cap.                                                                *)

LEMMA ScheduledFinite ==
    ASSUME TypeOK
    PROVE  IsFiniteSet(Scheduled) /\ Cardinality(Scheduled) \in Nat
<1>1. Scheduled \subseteq 1..Len(turns) /\ Len(turns) \in Nat
  BY TurnsAt DEF Scheduled
<1>2. IsFiniteSet(1..Len(turns))
  BY <1>1, FS_Interval
<1> QED  BY <1>1, <1>2, FS_Subset, FS_CardinalityType

\* `wait_below` lets a run in only where the turns running leave a slot.
LEMMA SlotIsFree ==
    ASSUME TypeOK, HasSlot
    PROVE  Cardinality(Scheduled) < MaxConcurrent
<1> DEFINE A == {t \in DOMAIN turns : InActive(t)}
<1>1. A \subseteq 1..Len(turns) /\ Len(turns) \in Nat
  BY TurnsAt
<1>2. IsFiniteSet(1..Len(turns))
  BY <1>1, FS_Interval
<1>3. IsFiniteSet(A) /\ Cardinality(A) \in Nat
  BY <1>1, <1>2, FS_Subset, FS_CardinalityType
<1>4. Scheduled \subseteq A
  BY DEF Scheduled
<1>5. Cardinality(A) + chats < MaxConcurrent /\ chats \in Nat /\ MaxConcurrent \in Nat
  BY BoundsAssumption DEF HasSlot, BelowCap, Running, TypeOK
<1> HIDE DEF A
<1>6. Cardinality(Scheduled) <= Cardinality(A) /\ Cardinality(Scheduled) \in Nat
  BY <1>3, <1>4, FS_Subset, ScheduledFinite
<1> QED  BY <1>3, <1>5, <1>6

LEMMA TurnsKept ==
    ASSUME TypeOK
    PROVE  /\ turns' = turns => Scheduled' = Scheduled
           /\ \A i, by : Starts(i, by) /\ by \notin {"queue", "expiry"} => Scheduled' = Scheduled
           /\ \A i, by : Starts(i, by) => Scheduled' \in {Scheduled, Scheduled \cup {Len(turns) + 1}}
<1>1. turns' = turns => Scheduled' = Scheduled
  BY DEF Scheduled, InActive
<1>2. ASSUME NEW i, NEW by, Starts(i, by)
      PROVE  /\ Scheduled' \in {Scheduled, Scheduled \cup {Len(turns) + 1}}
             /\ by \notin {"queue", "expiry"} => Scheduled' = Scheduled
  <2>1. \A t \in DOMAIN turns : t \in Scheduled' <=> t \in Scheduled
    BY <1>2 DEF Starts, Scheduled, InActive
  <2>2. Scheduled' \subseteq DOMAIN turns \cup {Len(turns) + 1} /\ Scheduled \subseteq DOMAIN turns
    BY <1>2 DEF Starts, Scheduled
  <2>3. Len(turns) + 1 \in Scheduled' => by \in {"queue", "expiry"}
    BY <1>2 DEF Starts, Scheduled, NewTurn
  <2> QED  BY <2>1, <2>2, <2>3
<1> QED  BY <1>1, <1>2

\* Nobody gets in, and no turn of the scheduler's starts.
LEMMA SlotKept ==
    ASSUME TypeInv, SlotInv, Scheduled' \subseteq Scheduled,
           \A w \in Workers : worker'[w].at \in Holding => worker[w].at \in Holding,
           rejecting' => rejecting,
           startLock' = startLock \/ (~rejecting' /\ \A w \in Workers : worker'[w].at \notin Holding)
    PROVE  SlotInv'
<1>1. Cardinality(Scheduled') <= Cardinality(Scheduled)
      /\ Cardinality(Scheduled') \in Nat /\ Cardinality(Scheduled) \in Nat
  BY ScheduledFinite, FS_Subset, FS_CardinalityType DEF TypeInv
<1>2. MaxConcurrent \in Nat
  BY BoundsAssumption
<1>3. KeepsToCap'
  BY <1>1, <1>2 DEF SlotInv, KeepsToCap, Scheduled
<1>4. Cardinality(Scheduled) < MaxConcurrent => Cardinality(Scheduled)' < MaxConcurrent
  BY <1>1, <1>2
<1>5. \A w \in Workers : worker'[w].at \in Holding =>
          startLock' /\ ~rejecting' /\ Cardinality(Scheduled)' < MaxConcurrent
  BY <1>4 DEF SlotInv
<1>6. rejecting' => startLock' /\ Cardinality(Scheduled)' < MaxConcurrent
  BY <1>4 DEF SlotInv
<1>7. \A v, w \in Workers : worker'[v].at \in Holding /\ worker'[w].at \in Holding => v = w
  BY DEF SlotInv
<1> QED  BY <1>3, <1>5, <1>6, <1>7 DEF SlotInv

\* A turn that starts fills the slot found free, and its starter lets go of the lock.
LEMMA SlotTaken ==
    ASSUME TypeInv, SlotInv, NEW i, NEW by, Starts(i, by), Cardinality(Scheduled) < MaxConcurrent,
           ~startLock', ~rejecting', \A w \in Workers : worker'[w].at \notin Holding
    PROVE  SlotInv'
<1>1. IsFiniteSet(Scheduled) /\ Cardinality(Scheduled) \in Nat /\ MaxConcurrent \in Nat
  BY ScheduledFinite, BoundsAssumption DEF TypeInv
<1>2. Len(turns) + 1 \notin Scheduled
  BY DEF Scheduled, Starts
<1>3. Cardinality(Scheduled') <= MaxConcurrent
  <2>1. Cardinality(Scheduled \cup {Len(turns) + 1}) = Cardinality(Scheduled) + 1
    BY <1>1, <1>2, FS_AddElement
  <2>2. Scheduled' \in {Scheduled, Scheduled \cup {Len(turns) + 1}}
    BY TurnsKept DEF TypeInv
  <2>3. CASE Scheduled' = Scheduled
    BY <1>1, <2>3
  <2>4. CASE Scheduled' = Scheduled \cup {Len(turns) + 1}
    <3> DEFINE n == Cardinality(Scheduled)
               m == Cardinality(Scheduled')
    <3>1. n \in Nat /\ MaxConcurrent \in Nat /\ n < MaxConcurrent /\ m = n + 1
      BY <1>1, <2>1, <2>4
    <3> HIDE DEF n, m
    <3>2. m <= MaxConcurrent
      BY <3>1
    <3> QED  BY <3>2 DEF m
  <2> QED  BY <2>2, <2>3, <2>4
<1>4. KeepsToCap'
  BY <1>3 DEF KeepsToCap, Scheduled
<1> QED  BY <1>4 DEF SlotInv

LEMMA WorkerKeepsSlot ==
    ASSUME TypeInv, SlotInv, NEW w \in Workers, WorkerStep(w) \/ Enter(w) \/ WorkerFails(w)
    PROVE  SlotInv'
<1> USE DEF TypeInv, polling
<1>1. CASE Take(w)
  <2>1. /\ \A v \in Workers : worker'[v].at \in Holding => worker[v].at \in Holding
        /\ UNCHANGED <<turns, startLock, rejecting>>
    BY <1>1, WorkersAt DEF Take, Holding
  <2> QED  BY <2>1, SlotKept, TurnsKept
<1>2. CASE Enter(w)
  <2>1. ~startLock /\ startLock' /\ HasSlot /\ UNCHANGED <<turns, rejecting>> /\ Move(w, "checking")
    BY <1>2 DEF Enter, StartLock
  <2>2. Cardinality(Scheduled) < MaxConcurrent /\ Scheduled' = Scheduled
    BY <2>1, SlotIsFree, TurnsKept
  <2>3. \A v \in Workers : v # w => worker'[v].at \notin Holding
    BY <2>1, MoveDoes DEF SlotInv, WorkerAt
  <2>4. ~rejecting /\ KeepsToCap'
    BY <2>1, <2>2 DEF SlotInv, KeepsToCap, Scheduled
  <2> QED  BY <2>1, <2>2, <2>3, <2>4 DEF SlotInv
<1>3. CASE Check(w) \/ Grant(w) \/ MarkRunning(w)
  <2>1. UNCHANGED <<turns, rejecting>> /\ worker[w].at \in Holding
    BY <1>3 DEF Check, Grant, MarkRunning, Holding
  <2>2. ~rejecting /\ \A v \in Workers : v # w => worker[v].at \notin Holding
    BY <2>1 DEF SlotInv
  <2>3. \/ Leave(w)
        \/ \E at \in Holding : Move(w, at) /\ startLock' = startLock
    BY <1>3, CheckDoes, GrantDoes DEF MarkRunning, Holding
  <2>4. CASE Leave(w)
    <3>1. \A v \in Workers : worker'[v].at \notin Holding
      BY <2>2, <2>4, LeaveDoes DEF Leave, Idle, Holding
    <3> QED  BY <2>1, <2>2, <3>1, SlotKept, TurnsKept
  <2>5. CASE \E at \in Holding : Move(w, at) /\ startLock' = startLock
    <3>1. \A v \in Workers : v # w => worker'[v] = worker[v]
      BY <2>5, MoveDoes DEF Holding, WorkerAt
    <3> QED  BY <2>1, <2>2, <2>5, <3>1, SlotKept, TurnsKept
  <2> QED  BY <2>3, <2>4, <2>5
<1>4. CASE Launch(w)
  <2>1. worker[w].at \in Holding /\ rejecting' = rejecting /\ startLock' = FALSE
    BY <1>4 DEF Launch, Holding
  <2>2. /\ ~rejecting /\ \A v \in Workers : v # w => worker[v].at \notin Holding
        /\ Cardinality(Scheduled) < MaxConcurrent
    BY <2>1 DEF SlotInv
  <2>3. \A v \in Workers : worker'[v].at \notin Holding
    <3>1. CASE worker' = [worker EXCEPT ![w] = Idle]
      BY <2>2, <3>1, LeaveDoes DEF Idle, Holding
    <3>2. CASE worker'[w].at = "following" /\ \A v \in Workers : v # w => worker'[v] = worker[v]
      BY <2>2, <3>2 DEF Holding
    <3> QED  BY <1>4, <3>1, <3>2, LaunchDoes
  <2>4. turns' = turns \/ Starts(worker[w].run, "queue")
    BY <1>4, LaunchDoes
  <2>5. CASE turns' = turns
    BY <2>1, <2>2, <2>3, <2>5, SlotKept, TurnsKept
  <2>6. CASE Starts(worker[w].run, "queue")
    BY <2>1, <2>2, <2>3, <2>6, SlotTaken
  <2> QED  BY <2>4, <2>5, <2>6
<1>5. CASE FinishRun(w)
  <2>1. UNCHANGED <<turns, startLock, rejecting>>
    BY <1>5 DEF FinishRun
  <2>2. \A v \in Workers : worker'[v].at \in Holding => worker[v].at \in Holding
    BY <1>5, FinishDoes, MoveDoes, LeaveDoes DEF Idle, Holding, WorkerAt
  <2> QED  BY <2>1, <2>2, SlotKept, TurnsKept
<1>6. CASE WorkerFails(w)
  <2>1. rejecting' = rejecting
    BY <1>6 DEF WorkerFails
  <2>2. /\ worker[w].at \in Holding \cup {"following"}
        /\ startLock' = FALSE \/ (worker[w].at = "following" /\ startLock' = startLock)
        /\ turns' = turns \/ (worker[w].at = "launching" /\ Starts(worker[w].run, "queue"))
    BY <1>6, WorkerFailsDoes DEF Holding
  <2>3. /\ \A v \in Workers : v # w => worker'[v] = worker[v]
        /\ worker'[w].at \notin Holding
    <3>1. worker' = [worker EXCEPT ![w] = Idle] \/ Move(w, "dead")
      BY <1>6, WorkerFailsDoes
    <3> QED  BY <3>1, MoveDoes, LeaveDoes DEF Idle, Holding, WorkerAt
  <2>4. CASE worker[w].at = "following" /\ startLock' = startLock
    <3>1. turns' = turns
      BY <2>2, <2>4
    <3> QED  BY <2>1, <2>3, <2>4, <3>1, SlotKept, TurnsKept
  <2>5. CASE worker[w].at \in Holding /\ startLock' = FALSE
    <3>1. /\ ~rejecting /\ \A v \in Workers : worker'[v].at \notin Holding
          /\ Cardinality(Scheduled) < MaxConcurrent
      BY <2>3, <2>5 DEF SlotInv
    <3>2. CASE turns' = turns
      BY <2>1, <2>5, <3>1, <3>2, SlotKept, TurnsKept
    <3>3. CASE Starts(worker[w].run, "queue")
      BY <2>1, <2>5, <3>1, <3>3, SlotTaken
    <3> QED  BY <2>2, <3>2, <3>3
  <2>6. CASE worker[w].at = "following" /\ startLock' = FALSE
    <3>1. worker[w].at # "launching" /\ turns' = turns /\ startLock' = startLock
      BY <1>6, <2>2, <2>6 DEF WorkerFails
    <3> QED  BY <2>1, <2>3, <3>1, SlotKept, TurnsKept
  <2> QED  BY <2>2, <2>4, <2>5, <2>6
<1> QED  BY <1>1, <1>2, <1>3, <1>4, <1>5, <1>6 DEF WorkerStep

LEMMA PollKeepsSlot ==
    ASSUME TypeInv, SlotInv, Poll \/ TickFails \/ ExpireEnter \/ ExpireFails
    PROVE  SlotInv'
<1> USE DEF TypeInv, polling
<1>1. CASE ExpireEnter
  <2>1. ~startLock /\ startLock' /\ rejecting' /\ HasSlot /\ UNCHANGED <<turns, worker>>
    BY <1>1 DEF ExpireEnter, StartLock
  <2>2. Cardinality(Scheduled) < MaxConcurrent /\ Scheduled' = Scheduled
    BY <2>1, SlotIsFree, TurnsKept
  <2>3. \A v \in Workers : worker'[v].at \notin Holding
    BY <2>1 DEF SlotInv
  <2>4. KeepsToCap'
    BY <2>1, <2>2 DEF SlotInv, KeepsToCap, Scheduled
  <2> QED  BY <2>1, <2>2, <2>3, <2>4 DEF SlotInv
<1>2. CASE ExpireResume
  <2>1. Head(stale) \in Nat
    BY <1>2, HeadTail DEF ExpireResume, TypeOK
  <2>2. rejecting /\ ~startLock' /\ ~rejecting' /\ worker' = worker
    BY <1>2 DEF ExpireResume
  <2>3. Cardinality(Scheduled) < MaxConcurrent /\ \A w \in Workers : worker'[w].at \notin Holding
    BY <2>2 DEF SlotInv
  <2>4. CASE turns' = turns
    BY <2>2, <2>3, <2>4, SlotKept, TurnsKept
  <2>5. CASE Starts(Head(stale), "expiry")
    BY <2>2, <2>3, <2>5, SlotTaken
  <2> QED  BY <1>2, <2>1, <2>4, <2>5, RejectDoes
<1>3. CASE Claim \/ HandOut \/ ReadStale \/ ExpireWithout \/ TickFails
  <2>1. UNCHANGED <<turns, worker, startLock, rejecting>>
    BY <1>3 DEF Claim, HandOut, ReadStale, ExpireWithout, TickFails
  <2> QED  BY <2>1, SlotKept, TurnsKept
<1>4. CASE ExpireFails
  <2>1. Head(stale) \in Nat
    BY <1>4, HeadTail DEF ExpireFails, TypeOK
  <2>2. /\ ~rejecting' /\ worker' = worker
        /\ \/ rejecting /\ startLock' = FALSE
           \/ startLock' = startLock /\ turns' = turns
        /\ turns' = turns \/ Starts(Head(stale), "expiry")
    BY <1>4, <2>1, ExpireFailsDoes DEF ExpireFails
  <2>3. CASE startLock' = startLock /\ turns' = turns
    BY <2>2, <2>3, SlotKept, TurnsKept
  <2>4. CASE rejecting /\ startLock' = FALSE
    <3>1. Cardinality(Scheduled) < MaxConcurrent /\ \A w \in Workers : worker'[w].at \notin Holding
      BY <2>2, <2>4 DEF SlotInv
    <3>2. CASE turns' = turns
      BY <2>2, <3>1, <3>2, SlotKept, TurnsKept
    <3>3. CASE Starts(Head(stale), "expiry")
      BY <2>2, <2>4, <3>1, <3>3, SlotTaken
    <3> QED  BY <2>2, <3>2, <3>3
  <2> QED  BY <2>2, <2>3, <2>4
<1> QED  BY <1>1, <1>2, <1>3, <1>4 DEF Poll

LEMMA OthersKeepSlot ==
    ASSUME TypeInv, SlotInv,
           \/ ChatStarts \/ ChatEnds
           \/ \E t \in DOMAIN turns : TurnEnds(t) \/ TurnSticks(t) \/ TimeLimit(t)
           \/ \E f \in followers : Follow(f) \/ Followed(f) \/ FollowerFails(f)
           \/ \E r \in Routines : RunNow(r) \/ Switch(r) \/ Delete(r) \/ AdminSwitches(r) \/ GrantDies(r)
           \/ \E i \in DOMAIN runs : Answer(i) \/ DeleteThread(i)
           \/ \E a \in answers : AnswerStarts(a)
           \/ Tick \/ Restart
    PROVE  SlotInv'
<1> USE DEF TypeInv, process, polling
<1>1. CASE Restart
  <2>1. Scheduled' = {} /\ \A w \in Workers : worker'[w].at \notin Holding
    BY <1>1, RestartDoes DEF Scheduled, SameTurns, Idle, Holding
  <2>2. ~rejecting'
    BY <1>1 DEF Restart
  <2> QED  BY <2>1, <2>2, SlotKept
<1>2. ASSUME NEW t \in DOMAIN turns, TurnEnds(t) \/ TurnSticks(t) \/ TimeLimit(t) PROVE SlotInv'
  <2>1. UNCHANGED <<worker, startLock, rejecting>>
    BY <1>2 DEF TurnEnds, TurnSticks, TimeLimit
  <2>2. Scheduled' \subseteq Scheduled
    BY <1>2, TurnChanges DEF Scheduled, SameTurns
  <2> QED  BY <2>1, <2>2, SlotKept
<1>3. ASSUME NEW r \in Routines, RunNow(r) PROVE SlotInv'
  <2>1. UNCHANGED <<worker, startLock, rejecting>>
    BY <1>3 DEF RunNow
  <2>2. Scheduled' = Scheduled
    BY <1>3, RunNowDoes, TurnsKept
  <2> QED  BY <2>1, <2>2, SlotKept
<1>4. ASSUME NEW a \in answers, AnswerStarts(a) PROVE SlotInv'
  <2>1. UNCHANGED <<worker, startLock, rejecting>>
    BY <1>4 DEF AnswerStarts
  <2>2. Scheduled' = Scheduled
    BY <1>4, AnswerDoes, TurnsKept
  <2> QED  BY <2>1, <2>2, SlotKept
<1>5. CASE UNCHANGED <<turns, worker, startLock, rejecting>>
  BY <1>5, SlotKept, TurnsKept
<1>6. ASSUME NEW f \in followers, Follow(f) \/ Followed(f) \/ FollowerFails(f) PROVE UNCHANGED <<turns, worker, startLock, rejecting>>
  BY <1>6 DEF Follow, Followed, FollowerFails
<1>7. ASSUME NEW r \in Routines, Switch(r) \/ Delete(r) \/ AdminSwitches(r) \/ GrantDies(r)
      PROVE  UNCHANGED <<turns, worker, startLock, rejecting>>
  BY <1>7 DEF Switch, Delete, AdminSwitches, GrantDies
<1>8. ASSUME NEW i \in DOMAIN runs, Answer(i) \/ DeleteThread(i) PROVE UNCHANGED <<turns, worker, startLock, rejecting>>
  BY <1>8 DEF Answer, DeleteThread
<1>9. CASE ChatStarts \/ ChatEnds \/ Tick
  BY <1>5, <1>9 DEF ChatStarts, ChatEnds, Tick
<1> QED  BY <1>1, <1>2, <1>3, <1>4, <1>5, <1>6, <1>7, <1>8, <1>9

\* The turns the scheduler starts, of runs and of stale approvals, never fill more than the cap.
THEOREM CapIsKept == Spec => []KeepsToCap
<1>1. Init => SlotInv
  <2> SUFFICES ASSUME Init PROVE SlotInv
    OBVIOUS
  <2>1. Scheduled = {} /\ \A w \in Workers : worker[w].at \notin Holding
    BY DEF Init, Scheduled, Idle, Holding
  <2>2. KeepsToCap
    BY <2>1, FS_EmptySet, BoundsAssumption DEF KeepsToCap, Scheduled
  <2> QED  BY <2>1, <2>2 DEF SlotInv, Init
<1>2. TypeInv /\ SlotInv /\ [Next]_vars => SlotInv'
  <2> SUFFICES ASSUME TypeInv, SlotInv, [Next]_vars PROVE SlotInv'
    OBVIOUS
  <2>1. CASE Next
    BY <2>1, PollKeepsSlot, WorkerKeepsSlot, OthersKeepSlot DEF Next
  <2>2. CASE UNCHANGED vars
    BY <2>2, SlotKept, TurnsKept DEF vars, process, polling, TypeInv
  <2> QED  BY <2>1, <2>2
<1>3. SlotInv => KeepsToCap
  BY DEF SlotInv
<1> QED  BY <1>1, <1>2, <1>3, TypeCorrect, PTL DEF Spec
-----------------------------------------------------------------------------
(* The times at which routines fire.                                       *)

LEMMA RunTypes ==
    ASSUME TypeOK, NEW i \in DOMAIN runs
    PROVE  /\ runs[i].routine \in Routines /\ runs[i].due \in Nat /\ runs[i].made \in Nat
           /\ runs[i].status \in Statuses
           /\ routine[runs[i].routine].next \in Nat /\ routine[runs[i].routine].here \in BOOLEAN
<1>1. runs[i] \in Run
  BY RunsAt
<1>2. runs[i].routine \in Routines /\ runs[i].due \in Nat /\ runs[i].made \in Nat /\ runs[i].status \in Statuses
  BY <1>1 DEF Run
<1>3. routine[runs[i].routine] \in Routine
  BY <1>2 DEF TypeOK
<1> QED  BY <1>2, <1>3 DEF Routine

\* No claim is made: a routine keeps its next time, has none, or has one yet to come.
LEMMA DueKept ==
    ASSUME TypeInv, DueInv, SameRuns(runs'), now' \in Nat, now' >= now,
           routine' \in [Routines -> Routine],
           \A q \in Routines : \/ routine'[q].next \in {0, routine[q].next}
                               \/ routine'[q].next # 0 => routine'[q].next > now
    PROVE  DueInv'
<1> USE DEF TypeInv
<1>1. DOMAIN runs' = DOMAIN runs
  BY DEF SameRuns
<1>2. NoBacklog'
  BY <1>1 DEF DueInv, NoBacklog, SameRuns
<1>3. ASSUME NEW i \in DOMAIN runs, runs[i].due # 0
      PROVE  /\ runs[i].due <= runs[i].made /\ runs[i].made <= now'
             /\ routine'[runs[i].routine].next # 0 => routine'[runs[i].routine].next > runs[i].made
  <2>1. /\ runs[i].due <= runs[i].made /\ runs[i].made <= now
        /\ routine[runs[i].routine].next # 0 => routine[runs[i].routine].next > runs[i].made
    BY <1>3 DEF DueInv
  <2> DEFINE r == runs[i].routine
             m == runs[i].made
             d == runs[i].due
             n == routine[r].next
             k == routine'[r].next
  <2>2. r \in Routines /\ d \in Nat /\ m \in Nat /\ now \in Nat /\ n \in Nat
    BY <1>3, RunTypes DEF TypeOK
  <2>3. d <= m /\ m <= now /\ (n # 0 => n > m)
    BY <2>1
  <2>4. (k \in {0, n} \/ (k # 0 => k > now)) /\ k \in Nat
    <3>1. routine'[r] \in Routine
      BY <2>2
    <3> QED  BY <2>2, <3>1 DEF Routine
  <2> HIDE DEF r, m, d, n, k
  <2>5. d <= m /\ m <= now' /\ (k # 0 => k > m)
    BY <2>2, <2>3, <2>4
  <2> QED  BY <2>5 DEF r, m, d, k
<1> QED  BY <1>1, <1>2, <1>3 DEF DueInv, SameRuns

\* A claim takes the time the routine was due, and leaves it one after now, if any.
LEMMA ClaimKeepsDue ==
    ASSUME TypeInv, DueInv, Claim
    PROVE  DueInv'
<1> USE DEF TypeInv
<1> DEFINE n == Cardinality(Due)
<1>1. PICK due \in [1..n -> Due] :
        /\ n \in Nat /\ Distinct(due)
        /\ Len(runs') = Len(runs) + n /\ DOMAIN runs' = 1..(Len(runs) + n)
        /\ \A i \in DOMAIN runs : runs'[i] = runs[i]
        /\ \A k \in 1..n : runs'[Len(runs) + k] = Claimed(due[k])
        /\ \A r \in Routines : routine'[r].next = IF r \in Due THEN Advance(r) ELSE routine[r].next
  BY ClaimDoes
<1> HIDE DEF n
<1>2. now' = now /\ now \in Nat
  BY DEF Claim, TypeOK, outside
<1>3. DOMAIN runs = 1..Len(runs) /\ Len(runs) \in Nat
  BY RunsAt
\* What a record says, old or new.
<1>4. ASSUME NEW i \in DOMAIN runs, runs[i].due # 0
      PROVE  /\ runs'[i].due <= runs'[i].made /\ runs'[i].made <= now
             /\ routine'[runs'[i].routine].next # 0 => routine'[runs'[i].routine].next > runs'[i].made
  <2>1. /\ runs[i].due <= runs[i].made /\ runs[i].made <= now /\ runs'[i] = runs[i]
        /\ routine[runs[i].routine].next # 0 => routine[runs[i].routine].next > runs[i].made
    BY <1>1, <1>4 DEF DueInv
  <2>2. runs[i].routine \in Routines /\ runs[i].made \in Nat
    BY <1>4, RunTypes
  <2>3. CASE runs[i].routine \in Due
    <3> DEFINE a == Advance(runs[i].routine)
               m == runs[i].made
    <3>1. a \in Nat /\ (a # 0 => a > now) /\ m \in Nat /\ m <= now /\ routine'[runs[i].routine].next = a
      BY <1>1, <2>1, <2>2, <2>3, DueFacts
    <3> HIDE DEF a, m
    <3>2. a # 0 => a > m
      BY <1>2, <3>1
    <3> QED  BY <2>1, <3>1, <3>2 DEF m
  <2>4. CASE runs[i].routine \notin Due
    BY <1>1, <2>1, <2>2, <2>4
  <2> QED  BY <2>3, <2>4
<1>5. ASSUME NEW k \in 1..n
      PROVE  /\ due[k] \in Due /\ due[k] \in Routines
             /\ runs'[Len(runs) + k].routine = due[k] /\ runs'[Len(runs) + k].due = routine[due[k]].next
             /\ runs'[Len(runs) + k].made = now
             /\ routine[due[k]].next <= now /\ routine[due[k]].next # 0
             /\ routine'[due[k]].next # 0 => routine'[due[k]].next > now
  <2>1. due[k] \in Due /\ due[k] \in Routines
    BY <1>1, <1>5, DueFacts
  <2>2. runs'[Len(runs) + k] = Claimed(due[k])
    BY <1>1, <1>5
  <2>3. routine[due[k]].next <= now /\ routine[due[k]].next # 0
    BY <2>1, DueFacts
  <2>4. routine'[due[k]].next # 0 => routine'[due[k]].next > now
    BY <1>1, <2>1, DueFacts
  <2> QED  BY <2>1, <2>2, <2>3, <2>4 DEF Claimed
<1>6. ASSUME NEW i \in DOMAIN runs' PROVE i \in DOMAIN runs \/ \E k \in 1..n : i = Len(runs) + k
  <2>1. i \in 1..(Len(runs) + n) /\ n \in Nat
    BY <1>1, <1>6
  <2>2. i \notin 1..Len(runs) => i - Len(runs) \in 1..n /\ i = Len(runs) + (i - Len(runs))
    BY <1>3, <2>1
  <2> QED  BY <1>3, <2>2
<1>7. ASSUME NEW i \in DOMAIN runs', runs'[i].due # 0
      PROVE  /\ runs'[i].due <= runs'[i].made /\ runs'[i].made <= now'
             /\ routine'[runs'[i].routine].next # 0 => routine'[runs'[i].routine].next > runs'[i].made
  <2>1. CASE i \in DOMAIN runs
    BY <1>1, <1>2, <1>4, <1>7, <2>1
  <2>2. CASE i \notin DOMAIN runs
    <3>1. PICK k \in 1..n : i = Len(runs) + k
      BY <1>6, <1>7, <2>2
    <3> QED  BY <1>2, <1>5, <3>1
  <2> QED  BY <2>1, <2>2
<1>8. ASSUME NEW i \in DOMAIN runs', NEW j \in DOMAIN runs', runs'[i].routine = runs'[j].routine,
             i < j, runs'[j].due # 0, runs'[i].due # 0
      PROVE  runs'[j].due > runs'[i].made
  <2>1. CASE j \in DOMAIN runs
    <3>1. i \in DOMAIN runs
      BY <1>1, <1>3, <1>8, <2>1
    <3>2. runs[j].due > runs[i].made
      BY <1>1, <1>8, <2>1, <3>1 DEF DueInv, NoBacklog
    <3> QED  BY <1>1, <2>1, <3>1, <3>2
  <2>2. CASE j \notin DOMAIN runs
    <3>1. PICK k \in 1..n : j = Len(runs) + k
      BY <1>6, <1>8, <2>2
    <3>2. runs'[j].routine = due[k] /\ runs'[j].due = routine[due[k]].next
      BY <1>5, <3>1
    <3>3. CASE i \in DOMAIN runs
      <4>1. runs'[i] = runs[i] /\ runs[i].due # 0 /\ runs[i].routine = due[k]
        BY <1>1, <1>8, <3>2, <3>3
      <4>2. routine[due[k]].next # 0
        BY <1>5, <3>1
      <4> QED  BY <3>2, <3>3, <4>1, <4>2 DEF DueInv
    <3>4. CASE i \notin DOMAIN runs
      <4>1. PICK l \in 1..n : i = Len(runs) + l
        BY <1>6, <1>8, <3>4
      <4>2. due[l] = due[k]
        BY <1>5, <1>8, <3>2, <4>1
      <4>3. l = k
        BY <1>1, <4>2 DEF Distinct
      <4> QED  BY <1>3, <1>8, <3>1, <4>1, <4>3
    <3> QED  BY <3>3, <3>4
  <2> QED  BY <2>1, <2>2
<1> QED  BY <1>7, <1>8 DEF DueInv, NoBacklog

\* A run made by hand was never due.
LEMMA RunNowKeepsDue ==
    ASSUME TypeInv, DueInv, NEW r \in Routines, RunNow(r)
    PROVE  DueInv'
<1>1. Adds(r) /\ UNCHANGED <<routine, now>> /\ DOMAIN runs = 1..Len(runs) /\ Len(runs) \in Nat
  BY RunNowDoes, RunsAt DEF TypeInv, RunNow, outside
<1>2. \A i \in DOMAIN runs' : runs'[i].due # 0 => i \in DOMAIN runs /\ runs'[i] = runs[i]
  BY <1>1 DEF Adds
<1> QED  BY <1>1, <1>2 DEF DueInv, NoBacklog

\* Rows that stay, or lose their next time.
LEMMA RowsKeepDue ==
    ASSUME TypeInv, DueInv, SameRuns(runs'), RowsKeep, now' = now
    PROVE  DueInv'
BY DueKept DEF RowsKeep, TypeInv, TypeOK

LEMMA MovedRuns ==
    ASSUME TypeOK
    PROVE  /\ Still => SameRuns(runs')
           /\ \A i, s : Moves(i, s) => SameRuns(runs')
           /\ runs' = runs => SameRuns(runs')
BY SameStill DEF Still, Moves

LEMMA WorkerKeepsDue ==
    ASSUME TypeInv, DueInv, NEW w \in Workers, WorkerStep(w) \/ Enter(w) \/ WorkerFails(w)
    PROVE  DueInv'
<1> USE DEF TypeInv, outside, tables
<1>1. CASE Take(w) \/ Enter(w)
  BY <1>1, RowsKeepDue, MovedRuns, SameRows DEF Take, Enter
<1>2. CASE Check(w)
  <2>1. SameRuns(runs') /\ RowsKeep
    BY <1>2, CheckDoes, MovedRuns
  <2> QED  BY <1>2, <2>1, RowsKeepDue DEF Check
<1>3. CASE Grant(w)
  <2>1. SameRuns(runs') /\ RowsKeep
    BY <1>3, GrantDoes, MovedRuns
  <2> QED  BY <1>3, <2>1, RowsKeepDue DEF Grant
<1>4. CASE MarkRunning(w)
  <2>1. SameRuns(runs')
    BY <1>4, PutMoves, MovedRuns DEF MarkRunning, Statuses
  <2> QED  BY <1>4, <2>1, RowsKeepDue, SameRows DEF MarkRunning
<1>5. CASE Launch(w)
  <2>1. SameRuns(runs') /\ RowsKeep
    BY <1>5, LaunchDoes, MovedRuns, SameRows
  <2> QED  BY <1>5, <2>1, RowsKeepDue DEF Launch
<1>6. CASE FinishRun(w)
  <2>1. SameRuns(runs') /\ RowsKeep
    BY <1>6, FinishDoes, MovedRuns
  <2> QED  BY <1>6, <2>1, RowsKeepDue DEF FinishRun
<1>7. CASE WorkerFails(w)
  <2>1. SameRuns(runs') /\ RowsKeep
    BY <1>7, WorkerFailsDoes, MovedRuns
  <2> QED  BY <1>7, <2>1, RowsKeepDue DEF WorkerFails
<1> QED  BY <1>1, <1>2, <1>3, <1>4, <1>5, <1>6, <1>7 DEF WorkerStep

LEMMA PollKeepsDue ==
    ASSUME TypeInv, DueInv, Poll \/ TickFails \/ ExpireEnter \/ ExpireFails
    PROVE  DueInv'
<1> USE DEF TypeInv, outside, tables
<1>1. CASE Claim
  BY <1>1, ClaimKeepsDue
<1>2. CASE HandOut
  <2>1. SameRuns(runs') /\ RowsKeep
    BY <1>2, HandOutDoes, MovedRuns
  <2> QED  BY <1>2, <2>1, RowsKeepDue DEF HandOut
<1>3. CASE ReadStale \/ TickFails \/ ExpireEnter
  BY <1>3, RowsKeepDue, MovedRuns, SameRows DEF ReadStale, TickFails, ExpireEnter
<1>4. CASE ExpireWithout
  <2>1. SameRuns(runs') /\ RowsKeep
    BY <1>4, WithoutDoes, MovedRuns, SameRows
  <2> QED  BY <1>4, <2>1, RowsKeepDue DEF ExpireWithout
<1>5. CASE ExpireResume
  <2>1. Head(stale) \in Nat
    BY <1>5, HeadTail DEF ExpireResume, TypeOK
  <2>2. SameRuns(runs') /\ RowsKeep
    BY <1>5, <2>1, RejectDoes, MovedRuns
  <2> QED  BY <1>5, <2>2, RowsKeepDue DEF ExpireResume
<1>6. CASE ExpireFails
  <2>1. Head(stale) \in Nat
    BY <1>6, HeadTail DEF ExpireFails, TypeOK
  <2>2. SameRuns(runs') /\ RowsKeep
    BY <1>6, <2>1, ExpireFailsDoes, MovedRuns
  <2> QED  BY <1>6, <2>2, RowsKeepDue DEF ExpireFails
<1> QED  BY <1>1, <1>2, <1>3, <1>4, <1>5, <1>6 DEF Poll

LEMMA OthersKeepDue ==
    ASSUME TypeInv, DueInv,
           \/ ChatStarts \/ ChatEnds
           \/ \E t \in DOMAIN turns : TurnEnds(t) \/ TurnSticks(t) \/ TimeLimit(t)
           \/ \E f \in followers : Follow(f) \/ Followed(f) \/ FollowerFails(f)
           \/ \E r \in Routines : RunNow(r) \/ Switch(r) \/ Delete(r) \/ AdminSwitches(r) \/ GrantDies(r)
           \/ \E i \in DOMAIN runs : Answer(i) \/ DeleteThread(i)
           \/ \E a \in answers : AnswerStarts(a)
           \/ Tick \/ Restart
    PROVE  DueInv'
<1> USE DEF TypeInv, outside, tables
<1>0. now \in Nat /\ routine \in [Routines -> Routine]
  BY DEF TypeOK
<1>1. CASE ChatStarts \/ ChatEnds
  BY <1>0, <1>1, DueKept, MovedRuns DEF ChatStarts, ChatEnds
<1>2. ASSUME NEW t \in DOMAIN turns, TurnEnds(t) \/ TurnSticks(t) \/ TimeLimit(t) PROVE DueInv'
  <2>1. SameRuns(runs')
    BY <1>2, TurnChanges, MovedRuns
  <2>2. UNCHANGED <<now, routine>>
    BY <1>2 DEF TurnEnds, TurnSticks, TimeLimit
  <2> QED  BY <1>0, <2>1, <2>2, DueKept
<1>3. ASSUME NEW f \in followers, Follow(f) PROVE DueInv'
  <2>1. SameRuns(runs') /\ UNCHANGED <<now, routine>>
    BY <1>3, FollowDoes, MovedRuns DEF Follow
  <2> QED  BY <1>0, <2>1, DueKept
<1>4. ASSUME NEW f \in followers, Followed(f) PROVE DueInv'
  <2>1. SameRuns(runs') /\ RowsKeep /\ now' = now
    BY <1>4, FollowedDoes, MovedRuns DEF Followed
  <2> QED  BY <2>1, RowsKeepDue
<1>5. ASSUME NEW r \in Routines, Switch(r) PROVE DueInv'
  <2>1. SameRuns(runs') /\ now' = now /\ routine' \in [Routines -> Routine]
    BY <1>5, SwitchDoes, MovedRuns DEF Switch
  <2>2. \A q \in Routines : \/ routine'[q].next \in {0, routine[q].next}
                            \/ routine'[q].next # 0 => routine'[q].next > now
    BY <1>5, SwitchDoes
  <2> QED  BY <1>0, <2>1, <2>2, DueKept
<1>6. ASSUME NEW r \in Routines, Delete(r) PROVE DueInv'
  <2>1. SameRuns(runs') /\ now' = now /\ routine' \in [Routines -> Routine]
    BY <1>6, DeleteDoes DEF Delete
  <2>2. \A q \in Routines : routine'[q].next \in {0, routine[q].next}
    BY <1>6, DeleteDoes
  <2> QED  BY <1>0, <2>1, <2>2, DueKept
<1>7. ASSUME NEW r \in Routines, AdminSwitches(r) \/ GrantDies(r) PROVE DueInv'
  BY <1>0, <1>7, DueKept, MovedRuns DEF AdminSwitches, GrantDies
<1>8. ASSUME NEW i \in DOMAIN runs, Answer(i) PROVE DueInv'
  BY <1>0, <1>8, DueKept, MovedRuns DEF Answer
<1>9. ASSUME NEW i \in DOMAIN runs, DeleteThread(i) PROVE DueInv'
  <2>1. runs' = [runs EXCEPT ![i].thread = FALSE, ![i].asked = 0] /\ UNCHANGED <<now, routine>>
    BY <1>9 DEF DeleteThread
  <2>2. SameRuns(runs')
    BY <2>1, FieldFacts
  <2> QED  BY <1>0, <2>1, <2>2, DueKept
<1>10. ASSUME NEW a \in answers, AnswerStarts(a) PROVE DueInv'
  <2>1. SameRuns(runs') /\ UNCHANGED <<now, routine>>
    BY <1>10, AnswerDoes, MovedRuns DEF AnswerStarts
  <2> QED  BY <1>0, <2>1, DueKept
<1>11. CASE Tick
  <2>1. now' \in Nat /\ now' >= now /\ UNCHANGED <<runs, routine>>
    BY <1>0, <1>11 DEF Tick
  <2> QED  BY <1>0, <2>1, DueKept, MovedRuns
<1>12. CASE Restart
  <2>1. now' \in Nat /\ now' >= now /\ SameRuns(runs') /\ routine' = routine
    BY <1>12, RestartDoes DEF Restart
  <2> QED  BY <1>0, <2>1, DueKept
<1>13. ASSUME NEW f \in followers, FollowerFails(f) PROVE DueInv'
  <2>1. SameRuns(runs') /\ RowsKeep /\ now' = now
    BY <1>13, FollowerFailsDoes, MovedRuns DEF FollowerFails
  <2> QED  BY <2>1, RowsKeepDue
<1> QED  BY <1>1, <1>2, <1>3, <1>4, <1>5, <1>6, <1>7, <1>8, <1>9, <1>10, <1>11, <1>12, <1>13, RunNowKeepsDue
-----------------------------------------------------------------------------
(* Where runs are, and what turns the scheduler started of them.           *)

\* Places from which no run goes to another.
LEMMA PlacesKept ==
    ASSUME PlacesInv, Distinct(queue'), Distinct(claims'),
           Range(queue') \subseteq Range(queue), Range(claims') \subseteq Range(claims),
           DOMAIN runs \subseteq DOMAIN runs',
           \A w \in Workers : Busy(w)' => Busy(w) /\ worker'[w].run = worker[w].run
    PROVE  PlacesInv'
BY DEF PlacesInv

SamePlaces == UNCHANGED <<queue, claims>>

LEMMA PlacesSame ==
    ASSUME PlacesInv, SamePlaces, DOMAIN runs \subseteq DOMAIN runs',
           \A w \in Workers : Busy(w)' => Busy(w) /\ worker'[w].run = worker[w].run
    PROVE  PlacesInv'
BY PlacesKept DEF PlacesInv, SamePlaces

Ahead(w) == worker[w].at \in Before \cup {"launching"}
Past(w)  == worker[w].at \in {"launching", "following"}

\* No turn of the scheduler's starts, and no run goes back in line.
LEMMA StartedKept ==
    ASSUME StartedInv, DOMAIN runs \subseteq DOMAIN runs',
           Range(queue') \cup Range(claims') \subseteq (Range(queue) \cup Range(claims)) \cup (DOMAIN runs' \ DOMAIN runs),
           \A t \in DOMAIN turns' : turns'[t].by = "queue" =>
              t \in DOMAIN turns /\ turns[t].by = "queue" /\ turns'[t].run = turns[t].run,
           \A i \in DOMAIN runs : runs'[i].status = "queued" => runs[i].status = "queued",
           \A w \in Workers : Ahead(w)' =>
              \/ Ahead(w) /\ worker'[w].run = worker[w].run
              \/ worker'[w].run \in Range(queue),
           \A w \in Workers : Past(w)' => 
              /\ worker'[w].run \in DOMAIN runs'
              /\ \/ Past(w) /\ worker'[w].run = worker[w].run /\ worker[w].run \in DOMAIN runs
                 \/ runs'[worker'[w].run].status # "queued"
    PROVE  StartedInv'
<1>1. ASSUME NEW t \in DOMAIN turns', turns'[t].by = "queue"
      PROVE  /\ turns'[t].run \in DOMAIN runs' \ (Range(queue') \cup Range(claims'))
             /\ runs'[turns'[t].run].status # "queued"
             /\ \A w \in Workers : Ahead(w)' => worker'[w].run # turns'[t].run
  <2>1. t \in DOMAIN turns /\ turns[t].by = "queue" /\ turns'[t].run = turns[t].run
    BY <1>1
  <2>2. /\ turns[t].run \in DOMAIN runs \ (Range(queue) \cup Range(claims))
        /\ runs[turns[t].run].status # "queued"
        /\ \A w \in Workers : Ahead(w) => worker[w].run # turns[t].run
    BY <2>1 DEF StartedInv, Ahead
  <2>3. \A w \in Workers : Ahead(w)' => worker'[w].run # turns'[t].run
    BY <2>1, <2>2
  <2> QED  BY <2>1, <2>2, <2>3
<1>2. \A t, u \in DOMAIN turns' : turns'[t].by = "queue" /\ turns'[u].by = "queue"
                                  /\ turns'[t].run = turns'[u].run => t = u
  BY DEF StartedInv
<1>3. \A w \in Workers : Past(w)' => runs'[worker'[w].run].status # "queued"
  BY DEF StartedInv, Past
<1> QED  BY <1>1, <1>2, <1>3 DEF StartedInv, Ahead, Past

\* A worker whose run does not change, and one that leaves.
LEMMA WorkersKept ==
    ASSUME TypeOK, PlacesInv, worker' = worker
    PROVE  /\ \A w \in Workers : Busy(w)' => Busy(w) /\ worker'[w].run = worker[w].run
           /\ \A w \in Workers : Ahead(w)' => Ahead(w) /\ worker'[w].run = worker[w].run
           /\ \A w \in Workers : Past(w)' => /\ Past(w) /\ worker'[w].run = worker[w].run
                                             /\ worker[w].run \in DOMAIN runs
BY DEF PlacesInv, Busy, Ahead, Past

LEMMA WorkerLeaves ==
    ASSUME TypeOK, PlacesInv, NEW w \in Workers, worker' = [worker EXCEPT ![w] = Idle]
    PROVE  /\ \A v \in Workers : Busy(v)' => v # w /\ Busy(v) /\ worker'[v].run = worker[v].run
           /\ \A v \in Workers : Ahead(v)' => v # w /\ Ahead(v) /\ worker'[v].run = worker[v].run
           /\ \A v \in Workers : Past(v)' => /\ v # w /\ Past(v) /\ worker'[v].run = worker[v].run
                                             /\ worker[v].run \in DOMAIN runs
BY LeaveDoes DEF PlacesInv, Idle, Busy, Ahead, Past, Before

\* The turns the scheduler started of runs in the queue stay the ones they are.
LEMMA QueueTurns ==
    ASSUME TypeOK
    PROVE  (turns' = turns \/ SameTurns(turns') \/ (\E i, by : Starts(i, by) /\ by # "queue")) =>
              \A t \in DOMAIN turns' : turns'[t].by = "queue" =>
                t \in DOMAIN turns /\ turns[t].by = "queue" /\ turns'[t].run = turns[t].run
<1>1. CASE turns' = turns \/ SameTurns(turns')
  BY <1>1 DEF SameTurns
<1>2. ASSUME NEW i, NEW by, Starts(i, by), by # "queue"
      PROVE  \A t \in DOMAIN turns' : turns'[t].by = "queue" =>
                t \in DOMAIN turns /\ turns[t].by = "queue" /\ turns'[t].run = turns[t].run
  BY <1>2 DEF Starts, NewTurn
<1> QED  BY <1>1, <1>2

\* No record becomes queued that was not.
LEMMA NoneQueued ==
    ASSUME TypeOK
    PROVE  /\ Still => \A i \in DOMAIN runs : runs'[i].status = "queued" => runs[i].status = "queued"
           /\ \A j, s : Moves(j, s) /\ s # "queued" =>
                \A i \in DOMAIN runs : runs'[i].status = "queued" => runs[i].status = "queued"
           /\ (Still \/ \E j, s : Moves(j, s)) => DOMAIN runs' = DOMAIN runs
<1>1. ASSUME NEW j, NEW s, Moves(j, s), s # "queued", NEW i \in DOMAIN runs, runs'[i].status = "queued"
      PROVE  runs[i].status = "queued"
  BY <1>1 DEF Moves
<1> QED  BY <1>1 DEF Still, Moves, SameRuns

Places == PlacesInv /\ StartedInv

\* The places and the scheduler's turns stay, and so does what the workers do.
LEMMA PlacesStay ==
    ASSUME TypeInv, Places, SamePlaces, worker' = worker,
           DOMAIN runs \subseteq DOMAIN runs',
           \A i \in DOMAIN runs : runs'[i].status = "queued" => runs[i].status = "queued",
           turns' = turns \/ SameTurns(turns') \/ (\E i, by : Starts(i, by) /\ by # "queue")
    PROVE  Places'
<1>1. PlacesInv'
  BY PlacesSame, WorkersKept DEF Places, TypeInv
<1>2. StartedInv'
  <2>1. \A w \in Workers : Ahead(w)' => Ahead(w) /\ worker'[w].run = worker[w].run
    BY WorkersKept DEF Places, TypeInv
  <2>2. \A w \in Workers : Past(w)' => /\ Past(w) /\ worker'[w].run = worker[w].run
                                       /\ worker[w].run \in DOMAIN runs
    BY WorkersKept DEF Places, TypeInv
  <2>3. Range(queue') \cup Range(claims') \subseteq Range(queue) \cup Range(claims)
    BY DEF SamePlaces
  <2>4. \A t \in DOMAIN turns' : turns'[t].by = "queue" =>
           t \in DOMAIN turns /\ turns[t].by = "queue" /\ turns'[t].run = turns[t].run
    BY QueueTurns DEF TypeInv
  <2> QED  BY <2>1, <2>2, <2>3, <2>4, StartedKept DEF Places
<1> QED  BY <1>1, <1>2 DEF Places

\* A worker leaves the run it had.
LEMMA PlacesLeft ==
    ASSUME TypeInv, Places, SamePlaces, NEW w \in Workers, worker' = [worker EXCEPT ![w] = Idle],
           DOMAIN runs \subseteq DOMAIN runs',
           \A i \in DOMAIN runs : runs'[i].status = "queued" => runs[i].status = "queued",
           turns' = turns
    PROVE  Places'
<1>1. PlacesInv'
  BY PlacesSame, WorkerLeaves DEF Places, TypeInv
<1>2. StartedInv'
  <2>1. \A v \in Workers : Ahead(v)' => Ahead(v) /\ worker'[v].run = worker[v].run
    BY WorkerLeaves DEF Places, TypeInv
  <2>2. \A v \in Workers : Past(v)' => /\ Past(v) /\ worker'[v].run = worker[v].run
                                       /\ worker[v].run \in DOMAIN runs
    BY WorkerLeaves DEF Places, TypeInv
  <2>3. Range(queue') \cup Range(claims') \subseteq Range(queue) \cup Range(claims)
    BY DEF SamePlaces
  <2>4. \A t \in DOMAIN turns' : turns'[t].by = "queue" =>
           t \in DOMAIN turns /\ turns[t].by = "queue" /\ turns'[t].run = turns[t].run
    BY QueueTurns DEF TypeInv
  <2> QED  BY <2>1, <2>2, <2>3, <2>4, StartedKept DEF Places
<1> QED  BY <1>1, <1>2 DEF Places

\* A worker goes on with its run; past the mark only when that is no longer queued.
LEMMA PlacesMoved ==
    ASSUME TypeInv, Places, SamePlaces, NEW w \in Workers, NEW a \in WorkerAt \ {"idle"}, Move(w, a), Busy(w),
           DOMAIN runs \subseteq DOMAIN runs',
           \A i \in DOMAIN runs : runs'[i].status = "queued" => runs[i].status = "queued",
           a \in Before \cup {"launching"} => Ahead(w),
           a \in {"launching", "following"} => Past(w) \/ runs'[worker[w].run].status # "queued",
           turns' = turns
    PROVE  Places'
<1>0. /\ \A v \in Workers : v # w => worker'[v] = worker[v]
      /\ worker'[w].at = a /\ worker'[w].run = worker[w].run
  BY MoveDoes DEF TypeInv
<1>1. PlacesInv'
  <2>1. \A v \in Workers : Busy(v)' => Busy(v) /\ worker'[v].run = worker[v].run
    BY <1>0 DEF Busy
  <2> QED  BY <2>1, PlacesSame DEF Places
<1>2. StartedInv'
  <2>1. \A v \in Workers : Ahead(v)' => Ahead(v) /\ worker'[v].run = worker[v].run
    BY <1>0 DEF Ahead
  <2>2. ASSUME NEW v \in Workers, Past(v)'
        PROVE  /\ worker'[v].run \in DOMAIN runs'
               /\ \/ Past(v) /\ worker'[v].run = worker[v].run /\ worker[v].run \in DOMAIN runs
                  \/ runs'[worker'[v].run].status # "queued"
    <3>1. Busy(v)
      BY <1>0, <2>2 DEF Busy, Past
    <3>2. worker[v].run \in DOMAIN runs /\ worker'[v].run = worker[v].run
      BY <1>0, <3>1 DEF Places, PlacesInv
    <3>3. CASE v = w
      BY <1>0, <2>2, <3>2, <3>3 DEF Past
    <3>4. CASE v # w
      BY <1>0, <2>2, <3>2, <3>4 DEF Past
    <3> QED  BY <3>3, <3>4
  <2>3. Range(queue') \cup Range(claims') \subseteq Range(queue) \cup Range(claims)
    BY DEF SamePlaces
  <2>4. \A t \in DOMAIN turns' : turns'[t].by = "queue" =>
           t \in DOMAIN turns /\ turns[t].by = "queue" /\ turns'[t].run = turns[t].run
    BY QueueTurns DEF TypeInv
  <2> QED  BY <2>1, <2>2, <2>3, <2>4, StartedKept DEF Places
<1> QED  BY <1>1, <1>2 DEF Places

\* A worker that starts a turn for its run, and follows it, fails the run or is gone.
LEMMA PlacesLaunched ==
    ASSUME TypeInv, Places, SamePlaces, NEW w \in Workers, worker[w].at = "launching",
           DOMAIN runs' = DOMAIN runs,
           \A j \in DOMAIN runs : runs'[j].status = "queued" => runs[j].status = "queued",
           Starts(worker[w].run, "queue"),
           \A v \in Workers : v # w => worker'[v] = worker[v],
           worker'[w].at \in {"idle", "following", "dead"},
           worker'[w].at # "idle" => worker'[w].run = worker[w].run
    PROVE  Places'
<1> DEFINE i == worker[w].run
           n == Len(turns) + 1
<1>a. Busy(w) /\ Past(w) /\ Ahead(w) /\ SamePlaces
  BY DEF Busy, Past, Ahead
<1>b. /\ DOMAIN runs' = DOMAIN runs
      /\ \A j \in DOMAIN runs : runs'[j].status = "queued" => runs[j].status = "queued"
  OBVIOUS
<1>c. /\ i \in DOMAIN runs \ (Range(queue) \cup Range(claims)) /\ runs[i].status # "queued"
      /\ \A v \in Workers : Busy(v) /\ worker[v].run = i => v = w
      /\ \A t \in DOMAIN turns : turns[t].by = "queue" => turns[t].run # i
  BY <1>a DEF Places, PlacesInv, StartedInv, Past, Ahead
<1>d. Starts(i, "queue")
  OBVIOUS
<1>1. /\ \A v \in Workers : v # w => worker'[v] = worker[v]
      /\ worker'[w].at \in {"idle", "following", "dead"} /\ (worker'[w].at # "idle" => worker'[w].run = i)
  OBVIOUS
<1>2. PlacesInv'
  <2>1. \A v \in Workers : Busy(v)' => Busy(v) /\ worker'[v].run = worker[v].run
    BY <1>a, <1>1 DEF Busy
  <2> QED  BY <1>a, <1>b, <2>1, PlacesSame DEF Places
<1>3. /\ DOMAIN turns' = DOMAIN turns \cup {n} /\ n \notin DOMAIN turns
      /\ \A t \in DOMAIN turns : turns'[t] = turns[t]
      /\ turns'[n].run = i /\ turns'[n].by = "queue"
  BY <1>d, TurnsAt DEF Starts, NewTurn, TypeInv
<1> HIDE DEF n
<1>4. ASSUME NEW t \in DOMAIN turns', turns'[t].by = "queue"
      PROVE  /\ turns'[t].run \in DOMAIN runs' \ (Range(queue') \cup Range(claims'))
             /\ runs'[turns'[t].run].status # "queued"
             /\ \A v \in Workers : Ahead(v)' => worker'[v].run # turns'[t].run
  <2>1. CASE t = n
    <3>1. \A v \in Workers : Ahead(v)' => worker'[v].run # i
      BY <1>c, <1>1 DEF Ahead, Busy, Before
    <3> QED  BY <1>a, <1>b, <1>c, <1>3, <2>1, <3>1 DEF SamePlaces
  <2>2. CASE t \in DOMAIN turns
    <3>1. /\ turns[t].run \in DOMAIN runs \ (Range(queue) \cup Range(claims))
          /\ runs[turns[t].run].status # "queued"
          /\ \A v \in Workers : Ahead(v) => worker[v].run # turns[t].run
      BY <1>3, <1>4, <2>2 DEF Places, StartedInv, Ahead
    <3>2. \A v \in Workers : Ahead(v)' => worker'[v].run # turns[t].run
      BY <1>1, <3>1 DEF Ahead, Before
    <3> QED  BY <1>a, <1>b, <1>3, <2>2, <3>1, <3>2 DEF SamePlaces
  <2> QED  BY <1>3, <1>4, <2>1, <2>2
<1>5. \A t, u \in DOMAIN turns' : turns'[t].by = "queue" /\ turns'[u].by = "queue"
                                  /\ turns'[t].run = turns'[u].run => t = u
  BY <1>c, <1>3 DEF Places, StartedInv
<1>6. \A v \in Workers : Past(v)' => runs'[worker'[v].run].status # "queued"
  <2>1. \A v \in Workers : v # w /\ Past(v) => worker[v].run \in DOMAIN runs /\ runs[worker[v].run].status # "queued"
    BY DEF Places, PlacesInv, StartedInv, Past, Busy
  <2> QED  BY <1>b, <1>c, <1>1, <2>1 DEF Past
<1>7. StartedInv'
  BY <1>4, <1>5, <1>6 DEF StartedInv, Ahead, Past
<1> QED  BY <1>2, <1>7 DEF Places

LEMMA WorkerKeepsPlaces ==
    ASSUME TypeInv, Places, NEW w \in Workers, WorkerStep(w) \/ Enter(w) \/ WorkerFails(w)
    PROVE  Places'
<1> USE DEF TypeInv, tables, polling, process
<1>1. CASE Take(w)
  <2> DEFINE i == Head(queue)
  <2>1. /\ worker[w].at = "idle" /\ queue # << >> /\ queue' = Tail(queue)
        /\ worker' = [worker EXCEPT ![w] = [at |-> "waiting", run |-> i, turn |-> 0]]
        /\ UNCHANGED <<runs, turns, claims>>
    BY <1>1 DEF Take
  <2>2. i \in Range(queue) /\ Distinct(Tail(queue)) /\ Range(Tail(queue)) = Range(queue) \ {i}
    BY <2>1, TailRange DEF Places, PlacesInv, TypeOK
  <2>3. /\ worker'[w].at = "waiting" /\ worker'[w].run = i
        /\ \A v \in Workers : v # w => worker'[v] = worker[v]
    BY <2>1, WorkersAt
  <2> HIDE DEF i
  <2>4. PlacesInv'
    <3>1. \A v \in Workers : Busy(v) => worker[v].run \in DOMAIN runs \ (Range(queue) \cup Range(claims))
      BY DEF Places, PlacesInv
    <3>2. i \in DOMAIN runs /\ i \notin Range(claims)
      BY <2>2 DEF Places, PlacesInv
    <3>3. \A v \in Workers : v # w => (Busy(v)' <=> Busy(v)) /\ worker'[v].run = worker[v].run
      BY <2>3 DEF Busy
    <3>4. \A v \in Workers : Busy(v)' => worker'[v].run \in DOMAIN runs' \ (Range(queue') \cup Range(claims'))
      BY <2>1, <2>2, <2>3, <3>1, <3>2, <3>3
    <3>5. \A v, u \in Workers : Busy(v)' /\ Busy(u)' /\ worker'[v].run = worker'[u].run => v = u
      BY <2>2, <2>3, <3>1, <3>3 DEF Places, PlacesInv
    <3>6. /\ Distinct(queue') /\ Distinct(claims') /\ Range(queue') \subseteq DOMAIN runs'
          /\ Range(claims') \subseteq DOMAIN runs' /\ Range(queue') \cap Range(claims') = {}
      BY <2>1, <2>2 DEF Places, PlacesInv
    <3> QED  BY <3>4, <3>5, <3>6 DEF PlacesInv
  <2>5. StartedInv'
    <3>1. \A v \in Workers : Ahead(v)' =>
             \/ Ahead(v) /\ worker'[v].run = worker[v].run
             \/ worker'[v].run \in Range(queue)
      BY <2>2, <2>3 DEF Ahead
    <3>2. \A v \in Workers : Past(v)' => Past(v) /\ worker'[v] = worker[v] /\ worker[v].run \in DOMAIN runs
      BY <2>3 DEF Past, Places, PlacesInv, Busy
    <3> QED  BY <2>1, <2>2, <3>1, <3>2, StartedKept DEF Places
  <2> QED  BY <2>4, <2>5 DEF Places
<1>2. CASE Enter(w)
  <2>1. Move(w, "checking") /\ Busy(w) /\ Ahead(w) /\ SamePlaces /\ UNCHANGED <<runs, turns>>
    BY <1>2 DEF Enter, Busy, Ahead, Before, SamePlaces
  <2> QED  BY <2>1, PlacesMoved DEF WorkerAt, Before
<1>3. CASE Check(w)
  <2>1. worker[w].at = "checking" /\ Busy(w) /\ Ahead(w) /\ SamePlaces /\ turns' = turns
    BY <1>3 DEF Check, Busy, Ahead, Before, SamePlaces
  <2>2. /\ DOMAIN runs' = DOMAIN runs
        /\ \A i \in DOMAIN runs : runs'[i].status = "queued" => runs[i].status = "queued"
    BY <1>3, CheckDoes, NoneQueued
  <2>3. CASE Leave(w)
    BY <2>1, <2>2, <2>3, PlacesLeft DEF Leave
  <2>4. CASE Move(w, "granting")
    BY <2>1, <2>2, <2>4, PlacesMoved DEF WorkerAt, Before
  <2> QED  BY <1>3, <2>3, <2>4, CheckDoes
<1>4. CASE Grant(w)
  <2>1. worker[w].at = "granting" /\ Busy(w) /\ Ahead(w) /\ SamePlaces /\ turns' = turns
    BY <1>4 DEF Grant, Busy, Ahead, Before, SamePlaces
  <2>2. /\ DOMAIN runs' = DOMAIN runs
        /\ \A i \in DOMAIN runs : runs'[i].status = "queued" => runs[i].status = "queued"
    BY <1>4, GrantDoes, NoneQueued
  <2>3. CASE Leave(w)
    BY <2>1, <2>2, <2>3, PlacesLeft DEF Leave
  <2>4. CASE Move(w, "marking")
    BY <2>1, <2>2, <2>4, PlacesMoved DEF WorkerAt, Before
  <2> QED  BY <1>4, <2>3, <2>4, GrantDoes
<1>5. CASE MarkRunning(w)
  <2>1. /\ worker[w].at = "marking" /\ Busy(w) /\ Ahead(w) /\ SamePlaces /\ turns' = turns
        /\ Move(w, "launching") /\ runs' = Put(worker[w].run, "running")
    BY <1>5 DEF MarkRunning, Busy, Ahead, Before, SamePlaces
  <2>2. Moves(worker[w].run, "running")
    BY <2>1, PutMoves DEF Statuses
  <2>3. /\ DOMAIN runs' = DOMAIN runs
        /\ \A i \in DOMAIN runs : runs'[i].status = "queued" => runs[i].status = "queued"
    BY <2>2, NoneQueued
  <2>4. runs'[worker[w].run].status # "queued"
    BY <2>1, <2>2 DEF Moves, Places, PlacesInv
  <2> QED  BY <2>1, <2>3, <2>4, PlacesMoved DEF WorkerAt, Before
<1>6. CASE Launch(w)
  <2> DEFINE i == worker[w].run
             n == Len(turns) + 1
  <2>1. worker[w].at = "launching" /\ Busy(w) /\ Past(w) /\ Ahead(w) /\ SamePlaces
    BY <1>6 DEF Launch, Busy, Past, Ahead, SamePlaces
  <2>2. /\ DOMAIN runs' = DOMAIN runs
        /\ \A j \in DOMAIN runs : runs'[j].status = "queued" => runs[j].status = "queued"
    BY <1>6, LaunchDoes, NoneQueued
  <2>3. /\ i \in DOMAIN runs \ (Range(queue) \cup Range(claims)) /\ runs[i].status # "queued"
        /\ \A v \in Workers : Busy(v) /\ worker[v].run = i => v = w
        /\ \A t \in DOMAIN turns : turns[t].by = "queue" => turns[t].run # i
    BY <2>1 DEF Places, PlacesInv, StartedInv, Past, Ahead
  <2>4. CASE worker' = [worker EXCEPT ![w] = Idle] /\ turns' = turns
    BY <2>1, <2>2, <2>4, PlacesLeft
  <2>5. CASE /\ Starts(i, "queue")
             /\ \/ worker' = [worker EXCEPT ![w] = Idle]
                \/ /\ \A v \in Workers : v # w => worker'[v] = worker[v]
                   /\ worker'[w].at = "following" /\ worker'[w].run = i
    <3>1. /\ \A v \in Workers : v # w => worker'[v] = worker[v]
          /\ worker'[w].at \in {"idle", "following"} /\ (worker'[w].at = "following" => worker'[w].run = i)
      BY <2>5, LeaveDoes DEF Idle
    <3> QED  BY <2>1, <2>2, <2>5, <3>1, PlacesLaunched
  <2> QED  BY <1>6, <2>4, <2>5, LaunchDoes
<1>7. CASE FinishRun(w)
  <2>1. worker[w].at = "following" /\ Busy(w) /\ Past(w) /\ SamePlaces /\ turns' = turns
    BY <1>7 DEF FinishRun, Busy, Past, SamePlaces
  <2>2. /\ DOMAIN runs' = DOMAIN runs
        /\ \A i \in DOMAIN runs : runs'[i].status = "queued" => runs[i].status = "queued"
    BY <1>7, FinishDoes, NoneQueued
  <2>3. CASE worker' = [worker EXCEPT ![w] = Idle]
    BY <2>1, <2>2, <2>3, PlacesLeft
  <2>4. CASE Move(w, "dead")
    BY <2>1, <2>2, <2>4, PlacesMoved DEF WorkerAt, Before
  <2> QED  BY <1>7, <2>3, <2>4, FinishDoes
<1>8. CASE WorkerFails(w)
  <2>1. /\ worker[w].at \in {"checking", "granting", "marking", "launching", "following"}
        /\ turns' = turns \/ (worker[w].at = "launching" /\ Starts(worker[w].run, "queue"))
        /\ worker' = [worker EXCEPT ![w] = Idle] \/ Move(w, "dead")
        /\ Still \/ \E s \in Statuses \ {"queued", "running", "gone"} : Moves(worker[w].run, s)
    BY <1>8, WorkerFailsDoes DEF Statuses, Final
  <2>2. SamePlaces /\ Busy(w)
    BY <1>8, <2>1 DEF WorkerFails, Busy, SamePlaces
  <2>3. /\ DOMAIN runs' = DOMAIN runs
        /\ \A i \in DOMAIN runs : runs'[i].status = "queued" => runs[i].status = "queued"
    BY <2>1, NoneQueued
  <2>4. CASE turns' = turns /\ worker' = [worker EXCEPT ![w] = Idle]
    BY <2>2, <2>3, <2>4, PlacesLeft
  <2>5. CASE turns' = turns /\ Move(w, "dead")
    BY <2>2, <2>3, <2>5, PlacesMoved DEF WorkerAt, Before
  <2>6. CASE worker[w].at = "launching" /\ Starts(worker[w].run, "queue")
    <3>1. /\ \A v \in Workers : v # w => worker'[v] = worker[v]
          /\ worker'[w].at \in {"idle", "dead"} /\ (worker'[w].at = "dead" => worker'[w].run = worker[w].run)
      BY <2>1, LeaveDoes, MoveDoes DEF Idle, WorkerAt
    <3> QED  BY <2>2, <2>3, <2>6, <3>1, PlacesLaunched
  <2> QED  BY <2>1, <2>4, <2>5, <2>6
<1> QED  BY <1>1, <1>2, <1>3, <1>4, <1>5, <1>6, <1>7, <1>8 DEF WorkerStep

LEMMA PollKeepsPlaces ==
    ASSUME TypeInv, Places, Poll \/ TickFails \/ ExpireEnter \/ ExpireFails
    PROVE  Places'
<1> USE DEF TypeInv, tables, polling, process
<1>1. CASE Claim
  <2> DEFINE n == Cardinality(Due)
  <2>1. /\ n \in Nat /\ DOMAIN runs' = 1..(Len(runs) + n)
        /\ \A i \in DOMAIN runs : runs'[i] = runs[i]
        /\ Distinct(claims') /\ Range(claims') = {Len(runs) + k : k \in 1..n}
    BY <1>1, ClaimDoes
  <2> HIDE DEF n
  <2>2. DOMAIN runs = 1..Len(runs) /\ Len(runs) \in Nat
    BY RunsAt
  <2>3. claims = << >> /\ UNCHANGED <<queue, worker, turns>>
    BY <1>1 DEF Claim
  <2>4. /\ DOMAIN runs \subseteq DOMAIN runs' /\ Range(claims') \subseteq DOMAIN runs'
        /\ Range(claims') \cap DOMAIN runs = {} /\ Range(claims) = {}
    BY <2>1, <2>2, <2>3, EmptyRange
  <2>5. PlacesInv'
    <3>1. \A w \in Workers : Busy(w)' => worker'[w].run \in DOMAIN runs' \ (Range(queue') \cup Range(claims'))
      BY <2>3, <2>4 DEF Places, PlacesInv, Busy
    <3>2. \A v, w \in Workers : Busy(v)' /\ Busy(w)' /\ worker'[v].run = worker'[w].run => v = w
      BY <2>3 DEF Places, PlacesInv, Busy
    <3>3. /\ Distinct(queue') /\ Range(queue') \subseteq DOMAIN runs' /\ Range(queue') \cap Range(claims') = {}
      BY <2>3, <2>4 DEF Places, PlacesInv
    <3> QED  BY <2>1, <2>4, <3>1, <3>2, <3>3 DEF PlacesInv
  <2>6. StartedInv'
    <3>1. \A w \in Workers : Ahead(w)' => Ahead(w) /\ worker'[w].run = worker[w].run
      BY <2>3, WorkersKept DEF Places
    <3>2. \A w \in Workers : Past(w)' => /\ Past(w) /\ worker'[w].run = worker[w].run
                                         /\ worker[w].run \in DOMAIN runs
      BY <2>3, WorkersKept DEF Places
    <3>3. \A t \in DOMAIN turns' : turns'[t].by = "queue" =>
             t \in DOMAIN turns /\ turns[t].by = "queue" /\ turns'[t].run = turns[t].run
      BY <2>3
    <3> QED  BY <2>1, <2>3, <2>4, <3>1, <3>2, <3>3, StartedKept DEF Places
  <2> QED  BY <2>5, <2>6 DEF Places
<1>2. CASE HandOut
  <2> DEFINE i == Head(claims)
  <2>1. claims # << >> /\ claims' = Tail(claims) /\ UNCHANGED <<worker, turns>> /\ queue' \in {queue, Append(queue, i)}
    BY <1>2, HandOutDoes DEF HandOut
  <2>2. /\ i \in Nat /\ i \in Range(claims) /\ Distinct(claims') /\ Range(claims') = Range(claims) \ {i}
    BY <2>1, TailRange DEF Places, PlacesInv, TypeOK
  <2>3. /\ DOMAIN runs' = DOMAIN runs
        /\ \A j \in DOMAIN runs : runs'[j].status = "queued" => runs[j].status = "queued"
    BY <1>2, HandOutDoes, NoneQueued
  <2> HIDE DEF i
  <2>4. Distinct(queue') /\ Range(queue') \subseteq Range(queue) \cup {i}
    <3>1. queue \in Seq(Nat) /\ Distinct(queue) /\ i \notin Range(queue)
      BY <2>2 DEF TypeOK, Places, PlacesInv
    <3>2. Distinct(Append(queue, i)) /\ Range(Append(queue, i)) = Range(queue) \cup {i}
      BY <2>2, <3>1, AppendRange
    <3> QED  BY <2>1, <3>1, <3>2
  <2>5. PlacesInv'
    <3>1. Range(queue') \cup Range(claims') \subseteq Range(queue) \cup Range(claims)
      BY <2>2, <2>4
    <3>2. Range(queue') \cap Range(claims') = {}
      BY <2>2, <2>4 DEF Places, PlacesInv
    <3>3. \A w \in Workers : Busy(w)' => worker'[w].run \in DOMAIN runs' \ (Range(queue') \cup Range(claims'))
      BY <2>1, <2>3, <3>1 DEF Places, PlacesInv, Busy
    <3>4. \A v, w \in Workers : Busy(v)' /\ Busy(w)' /\ worker'[v].run = worker'[w].run => v = w
      BY <2>1 DEF Places, PlacesInv, Busy
    <3>5. Range(queue') \subseteq DOMAIN runs' /\ Range(claims') \subseteq DOMAIN runs'
      BY <2>3, <3>1 DEF Places, PlacesInv
    <3> QED  BY <2>2, <2>4, <3>2, <3>3, <3>4, <3>5 DEF PlacesInv
  <2>6. StartedInv'
    <3>1. \A w \in Workers : Ahead(w)' => Ahead(w) /\ worker'[w].run = worker[w].run
      BY <2>1, WorkersKept DEF Places
    <3>2. \A w \in Workers : Past(w)' => /\ Past(w) /\ worker'[w].run = worker[w].run
                                         /\ worker[w].run \in DOMAIN runs
      BY <2>1, WorkersKept DEF Places
    <3>3. \A t \in DOMAIN turns' : turns'[t].by = "queue" =>
             t \in DOMAIN turns /\ turns[t].by = "queue" /\ turns'[t].run = turns[t].run
      BY <2>1
    <3> QED  BY <2>2, <2>3, <2>4, <3>1, <3>2, <3>3, StartedKept DEF Places
  <2> QED  BY <2>5, <2>6 DEF Places
<1>3. CASE ReadStale \/ ExpireEnter
  <2>1. SamePlaces /\ UNCHANGED <<worker, runs, turns>>
    BY <1>3 DEF ReadStale, ExpireEnter, SamePlaces
  <2> QED  BY <2>1, PlacesStay
<1>4. CASE ExpireWithout
  <2>1. SamePlaces /\ UNCHANGED <<worker, turns>>
    BY <1>4 DEF ExpireWithout, SamePlaces
  <2>2. /\ DOMAIN runs' = DOMAIN runs
        /\ \A j \in DOMAIN runs : runs'[j].status = "queued" => runs[j].status = "queued"
    BY <1>4, WithoutDoes, NoneQueued
  <2> QED  BY <2>1, <2>2, PlacesStay
<1>5. CASE ExpireResume
  <2>1. SamePlaces /\ worker' = worker /\ Head(stale) \in Nat
    BY <1>5, HeadTail DEF ExpireResume, SamePlaces, TypeOK
  <2>2. /\ DOMAIN runs' = DOMAIN runs
        /\ \A j \in DOMAIN runs : runs'[j].status = "queued" => runs[j].status = "queued"
    BY <1>5, <2>1, RejectDoes, NoneQueued
  <2>3. turns' = turns \/ Starts(Head(stale), "expiry")
    BY <1>5, <2>1, RejectDoes
  <2> QED  BY <2>1, <2>2, <2>3, PlacesStay
<1>6. CASE TickFails
  <2>1. claims' = << >> /\ UNCHANGED <<queue, worker, runs, turns>>
    BY <1>6 DEF TickFails
  <2>2. Distinct(claims') /\ Range(claims') = {}
    BY <2>1, EmptyRange
  <2>3. PlacesInv'
    BY <2>1, <2>2, PlacesKept, WorkersKept DEF Places, PlacesInv
  <2>4. StartedInv'
    <3>1. \A w \in Workers : Ahead(w)' => Ahead(w) /\ worker'[w].run = worker[w].run
      BY <2>1, WorkersKept DEF Places
    <3>2. \A w \in Workers : Past(w)' => /\ Past(w) /\ worker'[w].run = worker[w].run
                                         /\ worker[w].run \in DOMAIN runs
      BY <2>1, WorkersKept DEF Places
    <3>3. \A t \in DOMAIN turns' : turns'[t].by = "queue" =>
             t \in DOMAIN turns /\ turns[t].by = "queue" /\ turns'[t].run = turns[t].run
      BY <2>1
    <3> QED  BY <2>1, <2>2, <3>1, <3>2, <3>3, StartedKept DEF Places
  <2> QED  BY <2>3, <2>4 DEF Places
<1>7. CASE ExpireFails
  <2>1. SamePlaces /\ worker' = worker /\ Head(stale) \in Nat
    BY <1>7, HeadTail DEF ExpireFails, SamePlaces, TypeOK
  <2>2. Still /\ (turns' = turns \/ Starts(Head(stale), "expiry"))
    BY <1>7, <2>1, ExpireFailsDoes
  <2> QED  BY <2>1, <2>2, NoneQueued, PlacesStay
<1> QED  BY <1>1, <1>2, <1>3, <1>4, <1>5, <1>6, <1>7 DEF Poll

LEMMA OthersKeepPlaces ==
    ASSUME TypeInv, Places,
           \/ ChatStarts \/ ChatEnds
           \/ \E t \in DOMAIN turns : TurnEnds(t) \/ TurnSticks(t) \/ TimeLimit(t)
           \/ \E f \in followers : Follow(f) \/ Followed(f) \/ FollowerFails(f)
           \/ \E r \in Routines : RunNow(r) \/ Switch(r) \/ Delete(r) \/ AdminSwitches(r) \/ GrantDies(r)
           \/ \E i \in DOMAIN runs : Answer(i) \/ DeleteThread(i)
           \/ \E a \in answers : AnswerStarts(a)
           \/ Tick \/ Restart
    PROVE  Places'
<1> USE DEF TypeInv, tables, polling, process
<1>1. CASE ChatStarts \/ ChatEnds \/ Tick
  <2>1. SamePlaces /\ UNCHANGED <<worker, runs, turns>>
    BY <1>1 DEF ChatStarts, ChatEnds, Tick, SamePlaces
  <2> QED  BY <2>1, PlacesStay
<1>2. ASSUME NEW t \in DOMAIN turns, TurnEnds(t) \/ TurnSticks(t) \/ TimeLimit(t) PROVE Places'
  <2>1. SamePlaces /\ worker' = worker
    BY <1>2 DEF TurnEnds, TurnSticks, TimeLimit, SamePlaces
  <2>2. Still /\ SameTurns(turns')
    BY <1>2, TurnChanges
  <2> QED  BY <2>1, <2>2, NoneQueued, PlacesStay
<1>3. ASSUME NEW f \in followers, Follow(f) \/ Followed(f) \/ FollowerFails(f) PROVE Places'
  <2>1. SamePlaces /\ UNCHANGED <<worker, turns>>
    BY <1>3 DEF Follow, Followed, FollowerFails, SamePlaces
  <2>2. /\ DOMAIN runs' = DOMAIN runs
        /\ \A j \in DOMAIN runs : runs'[j].status = "queued" => runs[j].status = "queued"
    <3>1. CASE Follow(f)
      BY <3>1, FollowDoes, NoneQueued
    <3>2. CASE Followed(f)
      BY <3>2, FollowedDoes, NoneQueued
    <3>3. CASE FollowerFails(f)
      BY <3>3, FollowerFailsDoes, NoneQueued
    <3> QED  BY <1>3, <3>1, <3>2, <3>3
  <2> QED  BY <2>1, <2>2, PlacesStay
<1>4. ASSUME NEW r \in Routines, RunNow(r) PROVE Places'
  <2>1. SamePlaces /\ worker' = worker
    BY <1>4 DEF RunNow, SamePlaces
  <2>2. Adds(r) /\ (turns' = turns \/ Starts(Len(runs) + 1, "hand"))
    BY <1>4, RunNowDoes
  <2>3. DOMAIN runs \subseteq DOMAIN runs' /\ \A i \in DOMAIN runs : runs'[i] = runs[i]
    BY <2>2 DEF Adds
  <2> QED  BY <2>1, <2>2, <2>3, PlacesStay
<1>5. ASSUME NEW r \in Routines, Switch(r) \/ AdminSwitches(r) \/ GrantDies(r) PROVE Places'
  <2>1. SamePlaces /\ UNCHANGED <<worker, runs, turns>>
    BY <1>5 DEF Switch, AdminSwitches, GrantDies, SamePlaces
  <2> QED  BY <2>1, PlacesStay
<1>6. ASSUME NEW r \in Routines, Delete(r) PROVE Places'
  <2>1. SamePlaces /\ UNCHANGED <<worker, turns>>
    BY <1>6 DEF Delete, SamePlaces
  <2>2. /\ DOMAIN runs' = DOMAIN runs
        /\ \A j \in DOMAIN runs : runs'[j].status = "queued" => runs[j].status = "queued"
    BY <1>6, DeleteDoes DEF SameRuns
  <2> QED  BY <2>1, <2>2, PlacesStay
<1>7. ASSUME NEW i \in DOMAIN runs, Answer(i) PROVE Places'
  <2>1. SamePlaces /\ UNCHANGED <<worker, runs, turns>>
    BY <1>7 DEF Answer, SamePlaces
  <2> QED  BY <2>1, PlacesStay
<1>8. ASSUME NEW i \in DOMAIN runs, DeleteThread(i) PROVE Places'
  <2>1. SamePlaces /\ UNCHANGED <<worker, turns>> /\ runs' = [runs EXCEPT ![i].thread = FALSE, ![i].asked = 0]
    BY <1>8 DEF DeleteThread, SamePlaces
  <2>2. Still
    BY <2>1, FieldFacts DEF Still
  <2> QED  BY <2>1, <2>2, NoneQueued, PlacesStay
<1>9. ASSUME NEW a \in answers, AnswerStarts(a) PROVE Places'
  <2>1. SamePlaces /\ worker' = worker
    BY <1>9 DEF AnswerStarts, SamePlaces
  <2>2. Still /\ (turns' = turns \/ Starts(a.run, "answer"))
    BY <1>9, AnswerDoes
  <2> QED  BY <2>1, <2>2, NoneQueued, PlacesStay
<1>10. CASE Restart
  <2>1. /\ SameRuns(runs') /\ SameTurns(turns') /\ \A w \in Workers : worker'[w].at = "idle"
        /\ \A i \in DOMAIN runs : runs'[i].status = "queued" <=> runs[i].status = "queued"
        /\ Distinct(queue') /\ Range(queue') = {i \in DOMAIN runs : runs[i].status = "queued"}
    BY <1>10, RestartDoes DEF Idle
  <2>2. Distinct(claims') /\ Range(claims') = {}
    BY <1>10, EmptyRange DEF Restart
  <2>3. \A w \in Workers : ~Busy(w)' /\ ~Ahead(w)' /\ ~Past(w)'
    BY <2>1 DEF Busy, Ahead, Past, Before
  <2>4. PlacesInv'
    BY <2>1, <2>2, <2>3 DEF PlacesInv, SameRuns
  <2>5. ASSUME NEW t \in DOMAIN turns', turns'[t].by = "queue"
        PROVE  /\ turns'[t].run \in DOMAIN runs' \ (Range(queue') \cup Range(claims'))
               /\ runs'[turns'[t].run].status # "queued"
    <3>1. t \in DOMAIN turns /\ turns[t].by = "queue" /\ turns'[t].run = turns[t].run
      BY <2>1, <2>5 DEF SameTurns
    <3>2. turns[t].run \in DOMAIN runs /\ runs[turns[t].run].status # "queued"
      BY <3>1 DEF Places, StartedInv
    <3> QED  BY <2>1, <2>2, <3>1, <3>2 DEF SameRuns
  <2>6. \A t, u \in DOMAIN turns' : turns'[t].by = "queue" /\ turns'[u].by = "queue"
                                    /\ turns'[t].run = turns'[u].run => t = u
    BY <2>1 DEF Places, StartedInv, SameTurns
  <2>7. StartedInv'
    BY <2>3, <2>5, <2>6 DEF StartedInv, Ahead, Past
  <2> QED  BY <2>4, <2>7 DEF Places
<1> QED  BY <1>1, <1>2, <1>3, <1>4, <1>5, <1>6, <1>7, <1>8, <1>9, <1>10

\* "Nothing fires twice" and "a backlog never piles up": each time a routine was due has one
\* record and one turn of the scheduler's, and no time that passed before a claim is claimed later.
THEOREM NothingFiresTwice == Spec => []FiresWhenDue
<1>1. Init => DueInv /\ Places
  <2> SUFFICES ASSUME Init PROVE DueInv /\ Places
    OBVIOUS
  <2>1. DOMAIN runs = {} /\ DOMAIN turns = {} /\ queue = << >> /\ claims = << >>
        /\ \A w \in Workers : worker[w].at = "idle"
    BY DEF Init, Idle
  <2> QED  BY <2>1, EmptyRange DEF DueInv, NoBacklog, Places, PlacesInv, StartedInv, Busy, Before
<1>2. TypeInv /\ DueInv /\ Places /\ [Next]_vars => (DueInv /\ Places)'
  <2> SUFFICES ASSUME TypeInv, DueInv, Places, [Next]_vars PROVE DueInv' /\ Places'
    OBVIOUS
  <2>1. CASE Next
    <3>1. DueInv'
      BY <2>1, PollKeepsDue, WorkerKeepsDue, OthersKeepDue DEF Next
    <3>2. Places'
      BY <2>1, PollKeepsPlaces, WorkerKeepsPlaces, OthersKeepPlaces DEF Next
    <3> QED  BY <3>1, <3>2
  <2>2. CASE UNCHANGED vars
    <3>1. UNCHANGED <<now, runs, routine, turns, worker, queue, claims>>
      BY <2>2 DEF vars, outside, tables, process, polling
    <3>2. DueInv'
      BY <3>1 DEF DueInv, NoBacklog
    <3>3. Places'
      BY <3>1, PlacesStay DEF SamePlaces
    <3> QED  BY <3>2, <3>3
  <2> QED  BY <2>1, <2>2
<1>3. TypeInv /\ DueInv /\ Places => FiresWhenDue
  <2> SUFFICES ASSUME TypeInv, DueInv, Places PROVE FiresWhenDue
    OBVIOUS
  <2>1. NoBacklog
    BY DEF DueInv
  <2>2. ASSUME NEW i \in DOMAIN runs, NEW j \in DOMAIN runs, runs[i].due # 0, runs[i].due = runs[j].due,
               runs[i].routine = runs[j].routine, i < j
        PROVE  FALSE
    <3>1. runs[j].due > runs[i].made /\ runs[i].due <= runs[i].made
      BY <2>2 DEF DueInv, NoBacklog
    <3>2. runs[i].due \in Nat /\ runs[i].made \in Nat
      BY RunTypes DEF TypeInv
    <3> QED  BY <2>2, <3>1, <3>2
  <2>3. \A i, j \in DOMAIN runs : runs[i].due # 0 /\ runs[i].due = runs[j].due
                                  /\ runs[i].routine = runs[j].routine => i = j
    <3>1. \A i, j \in DOMAIN runs : i = j \/ i < j \/ j < i
      BY RunsAt DEF TypeInv
    <3> QED  BY <2>2, <3>1
  <2>4. \A t, u \in DOMAIN turns : turns[t].run = turns[u].run /\ turns[t].by = "queue"
                                   /\ turns[u].by = "queue" => t = u
    BY DEF Places, StartedInv
  <2> QED  BY <2>1, <2>3, <2>4 DEF FiresWhenDue, FiresOnce
<1> QED  BY <1>1, <1>2, <1>3, TypeCorrect, PTL DEF Spec
-----------------------------------------------------------------------------
(* Who sees to a run.                                                      *)

\* No record is made, none that had its end gets another life, and whoever would take or
\* end one either does not leave it or says so.
LEMMA ServedKept ==
    ASSUME TypeOK, ServedInv, SameRuns(runs'),
           \A q \in Routines : routine'[q].here = routine[q].here,
           \A i \in DOMAIN runs : runs[i].status = "gone" => runs'[i].status = "gone",
           \A i \in DOMAIN runs : runs'[i].status = "queued" => runs[i].status = "queued",
           \A i \in DOMAIN runs : runs'[i].status = "queued" /\ i \notin dropped' =>
              i \notin dropped /\ (InLine(i) => InLine(i)'),
           \A i \in DOMAIN runs : runs'[i].status = "running" /\ i \notin dropped' =>
              \/ Seen(i)'
              \/ runs[i].status = "running" /\ i \notin dropped /\ (Seen(i) => Seen(i)')
    PROVE  ServedInv'
<1>1. DOMAIN runs' = DOMAIN runs
  BY DEF SameRuns
<1>2. ASSUME NEW i \in DOMAIN runs, runs'[i].status = "queued"
      PROVE  ~Late(runs'[i].due, runs'[i].made)
  BY <1>2 DEF ServedInv, SameRuns
<1>3. ASSUME NEW i \in DOMAIN runs, ~routine'[runs'[i].routine].here
      PROVE  runs'[i].status = "gone"
  BY <1>3, RunTypes DEF ServedInv, SameRuns
<1>4. \A i \in DOMAIN runs : runs'[i].status = "queued" /\ i \notin dropped' => InLine(i)'
  BY DEF ServedInv
<1>5. \A i \in DOMAIN runs : runs'[i].status = "running" /\ i \notin dropped' => Seen(i)'
  BY DEF ServedInv
<1> QED  BY <1>1, <1>2, <1>3, <1>4, <1>5 DEF ServedInv, Late

\* What stays as it is, to those who see to runs.
LEMMA LineSame ==
    ASSUME SamePlaces, worker' = worker
    PROVE  \A i : (InLine(i) => InLine(i)')
                  /\ (Seen(i) /\ (\A f \in followers : \E g \in followers' : g.run = f.run) => Seen(i)')
BY DEF SamePlaces, InLine, Seen

LEMMA StatusFacts ==
    ASSUME TypeOK
    PROVE  /\ Still \/ (\E j, s : Moves(j, s)) =>
                \A i \in DOMAIN runs : runs[i].status = "gone" => runs'[i].status = "gone"
           /\ Still => \A i \in DOMAIN runs : runs'[i].status = runs[i].status
           /\ \A j, s : Moves(j, s) => \A i \in DOMAIN runs :
                runs'[i].status = runs[i].status \/ (i = j /\ runs'[i].status = s)
           /\ \A j, s : Moves(j, s) /\ s \notin {"queued", "running"} /\ j \in DOMAIN runs =>
                runs'[j].status \notin {"queued", "running"}
<1>1. ASSUME NEW j, NEW s, Moves(j, s), NEW i \in DOMAIN runs
      PROVE  /\ runs[i].status = "gone" => runs'[i].status = "gone"
             /\ runs'[i].status = runs[i].status \/ (i = j /\ runs'[i].status = s)
             /\ i = j => runs'[i].status \in {"gone", s}
  BY <1>1 DEF Moves
<1> QED  BY <1>1 DEF Still

LEMMA HereKept ==
    ASSUME RowsKeep \/ routine' = routine
    PROVE  \A q \in Routines : routine'[q].here = routine[q].here
BY DEF RowsKeep

\* Steps of the poll, the people and time that touch none of the places.
LEMMA ServedStays ==
    ASSUME TypeOK, ServedInv, SamePlaces, worker' = worker, dropped' = dropped,
           RowsKeep \/ routine' = routine,
           Still \/ \E j, s : Moves(j, s) /\ s \notin {"queued", "running"},
           \A f \in followers : \E g \in followers' : g.run = f.run
    PROVE  ServedInv'
<1>1. SameRuns(runs')
  BY MovedRuns
<1>2. \A i \in DOMAIN runs : runs[i].status = "gone" => runs'[i].status = "gone"
  BY StatusFacts
<1>3. \A i \in DOMAIN runs : runs'[i].status \in {"queued", "running"} => runs'[i].status = runs[i].status
  BY StatusFacts
<1> QED  BY <1>1, <1>2, <1>3, LineSame, HereKept, ServedKept

\* A worker that leaves its run, which is neither queued nor running any more or is dropped.
LEMMA ServedLeft ==
    ASSUME TypeOK, ServedInv, SamePlaces, NEW w \in Workers, followers' = followers,
           \A v \in Workers : v # w => worker'[v] = worker[v],
           dropped' \in {dropped, dropped \cup {worker[w].run}},
           RowsKeep \/ routine' = routine,
           Still \/ \E j, s : Moves(j, s) /\ s \notin {"queued", "running"},
           worker[w].run \in DOMAIN runs,
           worker[w].run \in dropped' \/ runs'[worker[w].run].status \notin {"queued", "running"}
    PROVE  ServedInv'
<1>1. SameRuns(runs')
  BY MovedRuns
<1>2. \A i \in DOMAIN runs : runs[i].status = "gone" => runs'[i].status = "gone"
  BY StatusFacts
<1>3. \A i \in DOMAIN runs : runs'[i].status \in {"queued", "running"} => runs'[i].status = runs[i].status
  BY StatusFacts
<1>4. \A i \in DOMAIN runs : i # worker[w].run => (InLine(i) => InLine(i)') /\ (Seen(i) => Seen(i)')
  BY DEF InLine, Seen, SamePlaces
<1>5. \A i \in DOMAIN runs : i \notin dropped' => i \notin dropped
  OBVIOUS
<1>6. \A i \in DOMAIN runs : runs'[i].status \in {"queued", "running"} /\ i \notin dropped' => i # worker[w].run
  OBVIOUS
<1> QED  BY <1>1, <1>2, <1>3, <1>4, <1>5, <1>6, HereKept, ServedKept

\* ... and one that goes on with it.
LEMMA ServedMoved ==
    ASSUME TypeOK, ServedInv, SamePlaces, NEW w \in Workers, NEW a \in Before, Move(w, a),
           worker[w].at \in Before,
           followers' = followers, dropped' = dropped, RowsKeep \/ routine' = routine, Still
    PROVE  ServedInv'
<1>0. /\ \A v \in Workers : v # w => worker'[v] = worker[v]
      /\ worker'[w].at = a /\ worker'[w].run = worker[w].run
  BY MoveDoes DEF Before, WorkerAt
<1>1. SameRuns(runs')
  BY MovedRuns
<1>2. \A i \in DOMAIN runs : runs'[i].status = runs[i].status
  BY StatusFacts
<1>3. \A i \in DOMAIN runs : (InLine(i) => InLine(i)') /\ (Seen(i) => Seen(i)')
  BY <1>0 DEF InLine, Seen, SamePlaces, Before
<1> QED  BY <1>1, <1>2, <1>3, HereKept, ServedKept

LEMMA WorkerServes ==
    ASSUME TypeInv, Places, ServedInv, NEW w \in Workers, WorkerStep(w) \/ Enter(w) \/ WorkerFails(w)
    PROVE  ServedInv'
<1> USE DEF TypeInv, tables, polling, process
<1>1. CASE Take(w)
  <2> DEFINE i == Head(queue)
  <2>1. /\ worker[w].at = "idle" /\ queue # << >> /\ queue' = Tail(queue)
        /\ worker' = [worker EXCEPT ![w] = [at |-> "waiting", run |-> i, turn |-> 0]]
        /\ UNCHANGED <<runs, routine, claims, followers, dropped>>
    BY <1>1 DEF Take
  <2>2. Range(Tail(queue)) = Range(queue) \ {i}
    BY <2>1, TailRange DEF Places, PlacesInv, TypeOK
  <2>3. /\ worker'[w].at = "waiting" /\ worker'[w].run = i
        /\ \A v \in Workers : v # w => worker'[v] = worker[v]
    BY <2>1, WorkersAt
  <2> HIDE DEF i
  <2>4. \A j \in DOMAIN runs : (InLine(j) => InLine(j)') /\ (Seen(j) => Seen(j)')
    BY <2>1, <2>2, <2>3 DEF InLine, Seen, Before
  <2> QED  BY <2>1, <2>4, MovedRuns, ServedKept
<1>2. CASE Enter(w)
  <2>1. /\ Move(w, "checking") /\ worker[w].at \in Before /\ "checking" \in Before /\ SamePlaces
        /\ UNCHANGED <<runs, routine, followers, dropped>>
    BY <1>2 DEF Enter, Before, SamePlaces
  <2> QED  BY <2>1, ServedMoved, SameStill
<1>3. CASE Check(w)
  <2>1. /\ worker[w].at = "checking" /\ SamePlaces /\ UNCHANGED <<followers, dropped>>
    BY <1>3 DEF Check, SamePlaces
  <2>2. worker[w].run \in DOMAIN runs /\ worker[w].at \in Before /\ "granting" \in Before
    BY <2>1 DEF Places, PlacesInv, Busy, Before
  <2>3. RowsKeep
    BY <1>3, CheckDoes
  <2>4. CASE Leave(w) /\ Still /\ ~routine[runs[worker[w].run].routine].here
    <3>1. runs'[worker[w].run].status \notin {"queued", "running"}
      BY <2>2, <2>4 DEF ServedInv, Still
    <3>2. \A v \in Workers : v # w => worker'[v] = worker[v]
      BY <2>4, LeaveDoes DEF Leave
    <3> QED  BY <2>1, <2>2, <2>3, <2>4, <3>1, <3>2, ServedLeft
  <2>5. CASE Leave(w) /\ \E s \in {"missed", "gone", "failed"} : Moves(worker[w].run, s)
    <3>1. PICK s \in {"missed", "gone", "failed"} : Moves(worker[w].run, s)
      BY <2>5
    <3>2. runs'[worker[w].run].status \notin {"queued", "running"}
      BY <2>2, <3>1, StatusFacts
    <3>3. \A v \in Workers : v # w => worker'[v] = worker[v]
      BY <2>5, LeaveDoes DEF Leave
    <3> QED  BY <2>1, <2>2, <2>3, <3>1, <3>2, <3>3, ServedLeft
  <2>6. CASE Move(w, "granting") /\ Still
    BY <2>1, <2>2, <2>3, <2>6, ServedMoved
  <2> QED  BY <1>3, <2>4, <2>5, <2>6, CheckDoes
<1>4. CASE Grant(w)
  <2>1. /\ worker[w].at = "granting" /\ SamePlaces /\ UNCHANGED <<followers, dropped>>
    BY <1>4 DEF Grant, SamePlaces
  <2>2. worker[w].run \in DOMAIN runs /\ worker[w].at \in Before /\ "marking" \in Before
    BY <2>1 DEF Places, PlacesInv, Busy, Before
  <2>3. RowsKeep
    BY <1>4, GrantDoes
  <2>4. CASE Leave(w) /\ \E s \in {"missed", "failed"} : Moves(worker[w].run, s)
    <3>1. PICK s \in {"missed", "failed"} : Moves(worker[w].run, s)
      BY <2>4
    <3>2. runs'[worker[w].run].status \notin {"queued", "running"}
      BY <2>2, <3>1, StatusFacts
    <3>3. \A v \in Workers : v # w => worker'[v] = worker[v]
      BY <2>4, LeaveDoes DEF Leave
    <3> QED  BY <2>1, <2>2, <2>3, <3>1, <3>2, <3>3, ServedLeft
  <2>5. CASE Move(w, "marking") /\ Still
    BY <2>1, <2>2, <2>3, <2>5, ServedMoved
  <2> QED  BY <1>4, <2>4, <2>5, GrantDoes
<1>5. CASE MarkRunning(w)
  <2>0. PICK i : i = worker[w].run
    OBVIOUS
  <2>1. /\ worker[w].at = "marking" /\ SamePlaces /\ Move(w, "launching") /\ runs' = Put(i, "running")
        /\ UNCHANGED <<routine, followers, dropped>>
    BY <1>5, <2>0 DEF MarkRunning, SamePlaces
  <2>2. Moves(i, "running")
    BY <2>1, PutMoves DEF Statuses
  <2>3. /\ \A v \in Workers : v # w => worker'[v] = worker[v]
        /\ worker'[w].at = "launching" /\ worker'[w].run = i
    BY <2>0, <2>1, MoveDoes DEF WorkerAt
  <2>4. i \in DOMAIN runs
    BY <2>0, <2>1 DEF Places, PlacesInv, Busy
  <2>5. Seen(i)' /\ runs'[i].status # "queued"
    BY <2>2, <2>3, <2>4 DEF Seen, Moves
  <2>6. \A j \in DOMAIN runs : j # i => (InLine(j) => InLine(j)') /\ (Seen(j) => Seen(j)') /\ runs'[j].status = runs[j].status
    BY <2>0, <2>1, <2>2, <2>3 DEF InLine, Seen, SamePlaces, Moves
  <2>7. SameRuns(runs') /\ \A j \in DOMAIN runs : runs[j].status = "gone" => runs'[j].status = "gone"
    BY <2>2, MovedRuns, StatusFacts
  <2>8. /\ \A j \in DOMAIN runs : runs'[j].status = "queued" => runs[j].status = "queued" /\ j # i
        /\ \A j \in DOMAIN runs : runs'[j].status = "running" => Seen(j)' \/ (runs[j].status = "running" /\ j # i)
    BY <2>5, <2>6
  <2> QED  BY <2>1, <2>6, <2>7, <2>8, HereKept, ServedKept
<1>6. CASE Launch(w)
  <2> DEFINE i == worker[w].run
  <2>1. /\ worker[w].at = "launching" /\ SamePlaces /\ UNCHANGED <<routine, followers, dropped>>
    BY <1>6 DEF Launch, SamePlaces
  <2>2. i \in DOMAIN runs
    BY <2>1 DEF Places, PlacesInv, Busy
  <2>3. CASE /\ Still /\ worker'[w].at = "following" /\ worker'[w].run = i
             /\ \A v \in Workers : v # w => worker'[v] = worker[v]
    <3>1. \A j \in DOMAIN runs : (InLine(j) => InLine(j)') /\ (Seen(j) => Seen(j)')
      BY <2>1, <2>3 DEF InLine, Seen, SamePlaces, Before
    <3> QED  BY <2>1, <2>3, <3>1, MovedRuns, StatusFacts, ServedKept
  <2>4. CASE worker' = [worker EXCEPT ![w] = Idle] /\ Moves(i, "failed")
    <3>1. runs'[i].status \notin {"queued", "running"}
      BY <2>2, <2>4, StatusFacts
    <3>2. \A v \in Workers : v # w => worker'[v] = worker[v]
      BY <2>4, LeaveDoes
    <3> QED  BY <2>1, <2>2, <2>4, <3>1, <3>2, ServedLeft
  <2> QED  BY <1>6, <2>3, <2>4, LaunchDoes
<1>7. CASE FinishRun(w)
  <2>1. /\ worker[w].at = "following" /\ SamePlaces /\ followers' = followers /\ RowsKeep
    BY <1>7, FinishDoes DEF FinishRun, SamePlaces
  <2>2. worker[w].run \in DOMAIN runs
    BY <2>1 DEF Places, PlacesInv, Busy
  <2>3. CASE Move(w, "dead") /\ Still /\ dropped' = dropped \cup {worker[w].run}
    <3>1. \A v \in Workers : v # w => worker'[v] = worker[v]
      BY <2>3, MoveDoes DEF WorkerAt
    <3> QED  BY <2>1, <2>2, <2>3, <3>1, ServedLeft
  <2>4. CASE /\ worker' = [worker EXCEPT ![w] = Idle] /\ dropped' = dropped
             /\ \E s \in Statuses \ {"queued", "running", "gone"} : Moves(worker[w].run, s)
    <3>1. PICK s \in Statuses \ {"queued", "running", "gone"} : Moves(worker[w].run, s)
      BY <2>4
    <3>2. runs'[worker[w].run].status \notin {"queued", "running"}
      BY <2>2, <3>1, StatusFacts
    <3>3. \A v \in Workers : v # w => worker'[v] = worker[v]
      BY <2>4, LeaveDoes
    <3> QED  BY <2>1, <2>2, <2>4, <3>1, <3>2, <3>3, ServedLeft
  <2> QED  BY <1>7, <2>3, <2>4, FinishDoes
<1>8. CASE WorkerFails(w)
  <2>1. /\ SamePlaces /\ followers' = followers /\ RowsKeep
        /\ worker[w].at \in {"checking", "granting", "marking", "launching", "following"}
        /\ \/ /\ worker' = [worker EXCEPT ![w] = Idle] /\ dropped' = dropped
              /\ Moves(worker[w].run, "failed")
           \/ /\ Move(w, "dead") /\ dropped' = dropped \cup {worker[w].run}
              /\ Still \/ \E s \in Statuses \ {"queued", "running", "gone"} : Moves(worker[w].run, s)
    BY <1>8, WorkerFailsDoes DEF WorkerFails, SamePlaces
  <2>2. worker[w].run \in DOMAIN runs
    BY <2>1 DEF Places, PlacesInv, Busy
  <2>3. \A v \in Workers : v # w => worker'[v] = worker[v]
    BY <2>1, LeaveDoes, MoveDoes DEF WorkerAt
  <2>4. CASE dropped' = dropped /\ Moves(worker[w].run, "failed")
    <3>1. runs'[worker[w].run].status \notin {"queued", "running"}
      BY <2>2, <2>4, StatusFacts
    <3> QED  BY <2>1, <2>2, <2>3, <2>4, <3>1, ServedLeft
  <2>5. CASE /\ dropped' = dropped \cup {worker[w].run}
             /\ Still \/ \E s \in Statuses \ {"queued", "running", "gone"} : Moves(worker[w].run, s)
    BY <2>1, <2>2, <2>3, <2>5, ServedLeft
  <2> QED  BY <2>1, <2>4, <2>5
<1> QED  BY <1>1, <1>2, <1>3, <1>4, <1>5, <1>6, <1>7, <1>8 DEF WorkerStep

LEMMA PollServes ==
    ASSUME TypeInv, Places, ServedInv, Poll \/ TickFails \/ ExpireEnter \/ ExpireFails
    PROVE  ServedInv'
<1> USE DEF TypeInv, tables, polling, process
<1>1. CASE Claim
  <2> DEFINE n == Cardinality(Due)
  <2>1. PICK due \in [1..n -> Due] :
          /\ n \in Nat /\ DOMAIN runs' = 1..(Len(runs) + n)
          /\ \A i \in DOMAIN runs : runs'[i] = runs[i]
          /\ \A k \in 1..n : runs'[Len(runs) + k] = Claimed(due[k])
          /\ Range(claims') = {Len(runs) + k : k \in 1..n}
          /\ \A r \in Routines : routine'[r].here = routine[r].here
    BY <1>1, ClaimDoes
  <2> HIDE DEF n
  <2>2. DOMAIN runs = 1..Len(runs) /\ Len(runs) \in Nat
    BY RunsAt
  <2>3. claims = << >> /\ UNCHANGED <<queue, worker, followers, dropped>>
    BY <1>1 DEF Claim
  <2>4. \A i \in DOMAIN runs : (InLine(i) => InLine(i)') /\ (Seen(i) => Seen(i)')
    BY <2>3, EmptyRange DEF InLine, Seen
  <2>5. ASSUME NEW i \in DOMAIN runs', i \notin DOMAIN runs
        PROVE  \E k \in 1..n : i = Len(runs) + k
    <3>1. i \in 1..(Len(runs) + n) /\ n \in Nat /\ i \notin 1..Len(runs)
      BY <2>1, <2>2, <2>5
    <3>2. i - Len(runs) \in 1..n /\ i = Len(runs) + (i - Len(runs))
      BY <2>2, <3>1
    <3> QED  BY <3>2
  <2>6. ASSUME NEW i \in DOMAIN runs', i \notin DOMAIN runs
        PROVE  /\ runs'[i].status = "queued" => ~Late(runs'[i].due, runs'[i].made)
               /\ runs'[i].status # "running" /\ InLine(i)' /\ routine'[runs'[i].routine].here
    <3>1. PICK k \in 1..n : i = Len(runs) + k
      BY <2>5, <2>6
    <3>2. runs'[i] = Claimed(due[k]) /\ due[k] \in Due
      BY <2>1, <3>1
    <3>3. i \in Range(claims')
      BY <2>1, <3>1
    <3>4. routine'[runs'[i].routine].here
      BY <2>1, <3>2 DEF Claimed, Due
    <3>5. runs'[i].status # "running" /\ (runs'[i].status = "queued" => ~Late(runs'[i].due, runs'[i].made))
      BY <3>2 DEF Claimed
    <3> QED  BY <3>3, <3>4, <3>5 DEF InLine
  <2>7. ASSUME NEW i \in DOMAIN runs
        PROVE  /\ runs'[i].status = "queued" => ~Late(runs'[i].due, runs'[i].made)
               /\ ~routine'[runs'[i].routine].here => runs'[i].status = "gone"
               /\ runs'[i].status = "queued" /\ i \notin dropped' => InLine(i)'
               /\ runs'[i].status = "running" /\ i \notin dropped' => Seen(i)'
    <3>1. runs'[i] = runs[i] /\ runs[i].routine \in Routines
      BY <2>1, RunTypes
    <3> QED  BY <2>1, <2>3, <2>4, <3>1 DEF ServedInv
  <2> QED  BY <2>6, <2>7 DEF ServedInv, Late
<1>2. CASE HandOut
  <2>0. PICK i : i = Head(claims)
    OBVIOUS
  <2>1. /\ claims # << >> /\ claims' = Tail(claims) /\ RowsKeep
        /\ \/ Moves(i, "gone") /\ queue' = queue /\ (i \in DOMAIN runs => runs'[i].status = "gone")
           \/ Still /\ runs' = runs /\ Late(runs[i].due, runs[i].made) /\ queue' = queue
           \/ Still /\ runs' = runs /\ queue' = Append(queue, i)
    BY <1>2, <2>0, HandOutDoes
  <2>2. UNCHANGED <<worker, followers, dropped>>
    BY <1>2 DEF HandOut
  <2>3. /\ i \in Nat /\ i \in Range(claims) /\ Range(claims') = Range(claims) \ {i}
    BY <2>0, <2>1, TailRange DEF Places, PlacesInv, TypeOK
  <2>4. i \in DOMAIN runs
    BY <2>3 DEF Places, PlacesInv
  <2>5. SameRuns(runs') /\ \A j \in DOMAIN runs : runs[j].status = "gone" => runs'[j].status = "gone"
    BY <2>1, MovedRuns, StatusFacts
  <2>6. \A j \in DOMAIN runs : runs'[j].status \in {"queued", "running"} => runs'[j].status = runs[j].status
    BY <2>1, StatusFacts
  <2>7. \A j \in DOMAIN runs : Seen(j) => Seen(j)'
    BY <2>2 DEF Seen
  <2>8. Range(queue) \subseteq Range(queue')
    <3>1. queue \in Seq(Nat) /\ Distinct(queue) /\ i \notin Range(queue)
      BY <2>3 DEF TypeOK, Places, PlacesInv
    <3>2. Range(Append(queue, i)) = Range(queue) \cup {i}
      BY <2>3, <3>1, AppendRange
    <3> QED  BY <2>1, <3>2
  <2>9. \A j \in DOMAIN runs : j # i => (InLine(j) => InLine(j)')
    BY <2>2, <2>3, <2>8 DEF InLine
  <2>10. runs'[i].status = "queued" => InLine(i)'
    <3>1. CASE Moves(i, "gone") /\ (i \in DOMAIN runs => runs'[i].status = "gone")
      BY <2>4, <3>1
    <3>2. CASE runs' = runs /\ Late(runs[i].due, runs[i].made)
      BY <2>4, <3>2 DEF ServedInv
    <3>3. CASE queue' = Append(queue, i)
      <4>1. Range(Append(queue, i)) = Range(queue) \cup {i}
        <5>1. queue \in Seq(Nat) /\ Distinct(queue) /\ i \notin Range(queue)
          BY <2>3 DEF TypeOK, Places, PlacesInv
        <5> QED  BY <2>3, <5>1, AppendRange
      <4> QED  BY <3>3, <4>1 DEF InLine
    <3> QED  BY <2>1, <3>1, <3>2, <3>3
  <2> QED  BY <2>1, <2>2, <2>5, <2>6, <2>7, <2>9, <2>10, HereKept, ServedKept
<1>3. CASE ReadStale \/ ExpireEnter
  <2>1. SamePlaces /\ UNCHANGED <<worker, runs, routine, followers, dropped>>
    BY <1>3 DEF ReadStale, ExpireEnter, SamePlaces
  <2> QED  BY <2>1, SameStill, ServedStays
<1>4. CASE ExpireWithout
  <2>1. SamePlaces /\ UNCHANGED <<worker, routine, followers, dropped>>
    BY <1>4 DEF ExpireWithout, SamePlaces
  <2>2. Still \/ \E j, s : Moves(j, s) /\ s \notin {"queued", "running"}
    BY <1>4, WithoutDoes
  <2> QED  BY <2>1, <2>2, ServedStays
<1>5. CASE ExpireResume
  <2>0. PICK i : i = Head(stale)
    OBVIOUS
  <2>1. SamePlaces /\ UNCHANGED <<worker, dropped>> /\ i \in Nat
    BY <1>5, <2>0, HeadTail DEF ExpireResume, SamePlaces, TypeOK
  <2>2. /\ RowsKeep
        /\ \/ /\ followers' = followers
              /\ Still \/ \E s \in {"succeeded", "expired"} : Moves(i, s)
           \/ /\ Moves(i, "running")
              /\ followers' = followers \cup
                   {[run |-> i, turn |-> Len(turns) + 1, expiring |-> TRUE, at |-> "wait"]}
    BY <1>5, <2>0, <2>1, RejectDoes
  <2>3. CASE followers' = followers /\ (Still \/ \E s \in {"succeeded", "expired"} : Moves(i, s))
    BY <2>1, <2>2, <2>3, ServedStays
  <2>4. CASE /\ Moves(i, "running")
             /\ followers' = followers \cup
                  {[run |-> i, turn |-> Len(turns) + 1, expiring |-> TRUE, at |-> "wait"]}
    <3>1. Seen(i)' /\ \A j \in DOMAIN runs : (InLine(j) => InLine(j)') /\ (Seen(j) => Seen(j)')
      <4>1. \A f \in followers : \E g \in followers' : g.run = f.run
        BY <2>4
      <4>2. \E g \in followers' : g.run = i
        <5> DEFINE x == [run |-> i, turn |-> Len(turns) + 1, expiring |-> TRUE, at |-> "wait"]
        <5>1. x \in followers' /\ x.run = i
          BY <2>4
        <5> QED  BY <5>1
      <4> QED  BY <2>1, <4>1, <4>2, LineSame DEF Seen
    <3>2. SameRuns(runs') /\ \A j \in DOMAIN runs : runs[j].status = "gone" => runs'[j].status = "gone"
      BY <2>4, MovedRuns, StatusFacts
    <3>3. /\ \A j \in DOMAIN runs : runs'[j].status = "queued" => runs[j].status = "queued"
          /\ \A j \in DOMAIN runs : runs'[j].status = "running" => j = i \/ runs[j].status = "running"
      BY <2>4, StatusFacts
    <3> QED  BY <2>1, <2>2, <3>1, <3>2, <3>3, HereKept, ServedKept
  <2> QED  BY <2>2, <2>3, <2>4
<1>6. CASE TickFails
  <2>1. /\ claims' = << >> /\ dropped' = dropped \cup Range(claims)
        /\ UNCHANGED <<queue, worker, runs, routine, followers>>
    BY <1>6 DEF TickFails
  <2>2. \A j \in DOMAIN runs : j \notin dropped' => (InLine(j) => InLine(j)') /\ (Seen(j) => Seen(j)')
    BY <2>1 DEF InLine, Seen
  <2>3. \A j \in DOMAIN runs : j \notin dropped' => j \notin dropped
    BY <2>1
  <2> QED  BY <2>1, <2>2, <2>3, MovedRuns, ServedKept
<1>7. CASE ExpireFails
  <2>1. SamePlaces /\ UNCHANGED <<worker, followers, dropped>> /\ Head(stale) \in Nat
    BY <1>7, HeadTail DEF ExpireFails, SamePlaces, TypeOK
  <2>2. RowsKeep /\ Still
    BY <1>7, <2>1, ExpireFailsDoes
  <2> QED  BY <2>1, <2>2, ServedStays
<1> QED  BY <1>1, <1>2, <1>3, <1>4, <1>5, <1>6, <1>7 DEF Poll

LEMMA FollowersServe ==
    ASSUME TypeInv, Places, ServedInv, \E f \in followers : Follow(f) \/ Followed(f) \/ FollowerFails(f)
    PROVE  ServedInv'
<1> USE DEF TypeInv, tables, polling, process
<1>1. ASSUME NEW f \in followers, Follow(f) PROVE ServedInv'
  <2>1. /\ Moves(f.run, "running") /\ UNCHANGED <<routine, alive>>
        /\ [f EXCEPT !.at = "wait"].run = f.run
        /\ followers' = (followers \ {f}) \cup {[f EXCEPT !.at = "wait"]}
    BY <1>1, FollowDoes
  <2>2. SamePlaces /\ UNCHANGED <<worker, dropped>>
    BY <1>1 DEF Follow, SamePlaces
  <2>3. /\ \A g \in followers : \E h \in followers' : h.run = g.run
        /\ \E h \in followers' : h.run = f.run
    BY <2>1
  <2>4. Seen(f.run)' /\ \A j \in DOMAIN runs : (InLine(j) => InLine(j)') /\ (Seen(j) => Seen(j)')
    BY <2>2, <2>3, LineSame DEF Seen
  <2>5. SameRuns(runs') /\ \A j \in DOMAIN runs : runs[j].status = "gone" => runs'[j].status = "gone"
    BY <2>1, MovedRuns, StatusFacts
  <2>6. /\ \A j \in DOMAIN runs : runs'[j].status = "queued" => runs[j].status = "queued"
        /\ \A j \in DOMAIN runs : runs'[j].status = "running" => j = f.run \/ runs[j].status = "running"
    BY <2>1, StatusFacts
  <2> QED  BY <2>1, <2>2, <2>4, <2>5, <2>6, HereKept, ServedKept
<1>2. ASSUME NEW f \in followers, Followed(f) PROVE ServedInv'
  <2>1. /\ followers' = followers \ {f} /\ RowsKeep
        /\ \/ Still /\ dropped' = dropped \cup {f.run}
           \/ dropped' = dropped /\ \E s \in Statuses \ {"queued", "running", "gone"} : Moves(f.run, s)
    BY <1>2, FollowedDoes
  <2>2. SamePlaces /\ UNCHANGED worker
    BY <1>2 DEF Followed, SamePlaces
  <2>3. \A j \in DOMAIN runs : (InLine(j) => InLine(j)') /\ (j # f.run => (Seen(j) => Seen(j)'))
    BY <2>1, <2>2, LineSame DEF Seen
  <2>4. SameRuns(runs') /\ \A j \in DOMAIN runs : runs[j].status = "gone" => runs'[j].status = "gone"
    BY <2>1, MovedRuns, StatusFacts
  <2>5. \A j \in DOMAIN runs : runs'[j].status \in {"queued", "running"} => runs'[j].status = runs[j].status
    BY <2>1, StatusFacts
  <2>6. f.run \in DOMAIN runs /\ f.run \notin dropped' => runs'[f.run].status \notin {"queued", "running"}
    BY <2>1, StatusFacts
  <2>7. \A j \in DOMAIN runs : j \notin dropped' => j \notin dropped
    BY <2>1
  <2> QED  BY <2>1, <2>3, <2>4, <2>5, <2>6, <2>7, HereKept, ServedKept
<1>3. ASSUME NEW f \in followers, FollowerFails(f) PROVE ServedInv'
  <2>1. /\ followers' = followers \ {f} /\ RowsKeep /\ dropped' = dropped \cup {f.run}
        /\ Still \/ \E s \in Statuses \ {"queued", "running", "gone"} : Moves(f.run, s)
    BY <1>3, FollowerFailsDoes
  <2>2. SamePlaces /\ UNCHANGED worker
    BY <1>3 DEF FollowerFails, SamePlaces
  <2>3. \A j \in DOMAIN runs : (InLine(j) => InLine(j)') /\ (j # f.run => (Seen(j) => Seen(j)'))
    BY <2>1, <2>2, LineSame DEF Seen
  <2>4. SameRuns(runs') /\ \A j \in DOMAIN runs : runs[j].status = "gone" => runs'[j].status = "gone"
    BY <2>1, MovedRuns, StatusFacts
  <2>5. \A j \in DOMAIN runs : runs'[j].status \in {"queued", "running"} => runs'[j].status = runs[j].status
    BY <2>1, StatusFacts
  <2> QED  BY <2>1, <2>3, <2>4, <2>5, HereKept, ServedKept
<1> QED  BY <1>1, <1>2, <1>3

LEMMA RunNowServes ==
    ASSUME TypeInv, Places, ServedInv, NEW r \in Routines, RunNow(r)
    PROVE  ServedInv'
<1> USE DEF TypeInv, tables, polling, process
<1>0. PICK n : n = Len(runs) + 1
  OBVIOUS
<1>1. /\ DOMAIN runs' = DOMAIN runs \cup {n} /\ n \notin DOMAIN runs
      /\ \A i \in DOMAIN runs : runs'[i] = runs[i]
      /\ runs'[n].routine = r /\ runs'[n].status = "running"
  BY <1>0, RunNowDoes DEF Adds
<1>2. /\ routine' = routine /\ routine[r].here
      /\ \/ /\ dropped' = dropped
            /\ followers' = followers \cup
                 {[run |-> n, turn |-> Len(turns) + 1, expiring |-> FALSE, at |-> "wait"]}
         \/ dropped' = dropped \cup {n} /\ followers' = followers
  BY <1>0, RunNowDoes
<1>3. SamePlaces /\ worker' = worker
  BY DEF RunNow, SamePlaces
<1>4. /\ \A f \in followers : \E g \in followers' : g.run = f.run
      /\ n \notin dropped' => \E g \in followers' : g.run = n
      /\ \A i : i \notin dropped' => i \notin dropped
  <2> DEFINE x == [run |-> n, turn |-> Len(turns) + 1, expiring |-> FALSE, at |-> "wait"]
  <2>1. x.run = n
    OBVIOUS
  <2>2. (dropped' = dropped /\ followers' = followers \cup {x}) \/ (dropped' = dropped \cup {n} /\ followers' = followers)
    BY <1>2
  <2> HIDE DEF x
  <2> QED  BY <2>1, <2>2
<1>5. /\ \A i \in DOMAIN runs : (InLine(i) => InLine(i)') /\ (Seen(i) => Seen(i)')
      /\ n \notin dropped' => Seen(n)'
  BY <1>3, <1>4, LineSame DEF Seen
<1>6. ASSUME NEW i \in DOMAIN runs
      PROVE  /\ runs'[i].status = "queued" => ~Late(runs'[i].due, runs'[i].made)
             /\ ~routine'[runs'[i].routine].here => runs'[i].status = "gone"
             /\ runs'[i].status = "queued" /\ i \notin dropped' => InLine(i)'
             /\ runs'[i].status = "running" /\ i \notin dropped' => Seen(i)'
  BY <1>1, <1>2, <1>4, <1>5 DEF ServedInv
<1> QED  BY <1>1, <1>2, <1>5, <1>6 DEF ServedInv, Late

LEMMA OthersServe ==
    ASSUME TypeInv, Places, ServedInv,
           \/ ChatStarts \/ ChatEnds
           \/ \E t \in DOMAIN turns : TurnEnds(t) \/ TurnSticks(t) \/ TimeLimit(t)
           \/ \E r \in Routines : RunNow(r) \/ Switch(r) \/ Delete(r) \/ AdminSwitches(r) \/ GrantDies(r)
           \/ \E i \in DOMAIN runs : Answer(i) \/ DeleteThread(i)
           \/ \E a \in answers : AnswerStarts(a)
           \/ Tick \/ Restart
    PROVE  ServedInv'
<1> USE DEF TypeInv, tables, polling, process
<1>1. CASE ChatStarts \/ ChatEnds \/ Tick
  <2>1. SamePlaces /\ UNCHANGED <<worker, runs, routine, followers, dropped>>
    BY <1>1 DEF ChatStarts, ChatEnds, Tick, SamePlaces
  <2> QED  BY <2>1, SameStill, ServedStays
<1>2. ASSUME NEW t \in DOMAIN turns, TurnEnds(t) \/ TurnSticks(t) \/ TimeLimit(t) PROVE ServedInv'
  <2>1. SamePlaces /\ UNCHANGED <<worker, routine, followers, dropped>>
    BY <1>2 DEF TurnEnds, TurnSticks, TimeLimit, SamePlaces
  <2>2. Still
    BY <1>2, TurnChanges
  <2> QED  BY <2>1, <2>2, ServedStays
<1>3. ASSUME NEW r \in Routines, RunNow(r) PROVE ServedInv'
  BY <1>3, RunNowServes
<1>4. ASSUME NEW r \in Routines, Switch(r) PROVE ServedInv'
  <2>1. SamePlaces /\ UNCHANGED <<worker, followers, dropped>>
    BY <1>4 DEF Switch, SamePlaces
  <2>2. Still /\ \A q \in Routines : routine'[q].here = routine[q].here
    <3>1. routine[r] \in Routine /\ routine'[r] \in Routine
      BY <1>4, SwitchDoes DEF TypeOK
    <3>2. routine[r].here = routine'[r].here
      BY <1>4, <3>1, SwitchDoes DEF Routine
    <3> QED  BY <1>4, <3>2, SwitchDoes
  <2>3. \A i \in DOMAIN runs : (InLine(i) => InLine(i)') /\ (Seen(i) => Seen(i)')
    BY <2>1, LineSame
  <2> QED  BY <2>1, <2>2, <2>3, MovedRuns, StatusFacts, ServedKept
<1>5. ASSUME NEW r \in Routines, Delete(r) PROVE ServedInv'
  <2>1. SamePlaces /\ UNCHANGED <<worker, followers, dropped>>
    BY <1>5 DEF Delete, SamePlaces
  <2>2. /\ SameRuns(runs') /\ ~routine'[r].here
        /\ \A q \in Routines : q # r => routine'[q] = routine[q]
        /\ \A i \in DOMAIN runs : runs'[i].status = IF runs[i].routine = r THEN "gone" ELSE runs[i].status
    BY <1>5, DeleteDoes
  <2>3. \A i \in DOMAIN runs : (InLine(i) => InLine(i)') /\ (Seen(i) => Seen(i)')
    BY <2>1, LineSame
  <2>4. ASSUME NEW i \in DOMAIN runs
        PROVE  /\ runs'[i].status = "queued" => ~Late(runs'[i].due, runs'[i].made)
               /\ ~routine'[runs'[i].routine].here => runs'[i].status = "gone"
               /\ runs'[i].status = "queued" /\ i \notin dropped' => InLine(i)'
               /\ runs'[i].status = "running" /\ i \notin dropped' => Seen(i)'
    <3>1. runs'[i].routine = runs[i].routine /\ runs'[i].due = runs[i].due /\ runs'[i].made = runs[i].made
      BY <2>2 DEF SameRuns
    <3>2. runs[i].routine \in Routines
      BY RunTypes
    <3> QED  BY <2>1, <2>2, <2>3, <3>1, <3>2 DEF ServedInv
  <2> QED  BY <2>2, <2>4 DEF ServedInv, Late, SameRuns
<1>6. ASSUME NEW r \in Routines, AdminSwitches(r) \/ GrantDies(r) PROVE ServedInv'
  <2>1. SamePlaces /\ UNCHANGED <<worker, runs, routine, followers, dropped>>
    BY <1>6 DEF AdminSwitches, GrantDies, SamePlaces
  <2> QED  BY <2>1, SameStill, ServedStays
<1>7. ASSUME NEW i \in DOMAIN runs, Answer(i) PROVE ServedInv'
  <2>1. SamePlaces /\ UNCHANGED <<worker, runs, routine, followers, dropped>>
    BY <1>7 DEF Answer, SamePlaces
  <2> QED  BY <2>1, SameStill, ServedStays
<1>8. ASSUME NEW i \in DOMAIN runs, DeleteThread(i) PROVE ServedInv'
  <2>1. /\ SamePlaces /\ UNCHANGED <<worker, routine, followers, dropped>>
        /\ runs' = [runs EXCEPT ![i].thread = FALSE, ![i].asked = 0]
    BY <1>8 DEF DeleteThread, SamePlaces
  <2>2. Still
    BY <2>1, FieldFacts DEF Still
  <2> QED  BY <2>1, <2>2, ServedStays
<1>9. ASSUME NEW a \in answers, AnswerStarts(a) PROVE ServedInv'
  <2>1. SamePlaces /\ UNCHANGED <<worker, routine, dropped>>
    BY <1>9 DEF AnswerStarts, SamePlaces
  <2>2. Still /\ followers \subseteq followers'
    BY <1>9, AnswerDoes
  <2> QED  BY <2>1, <2>2, ServedStays
<1>10. CASE Restart
  <2>1. /\ SameRuns(runs')
        /\ \A i \in DOMAIN runs :
             runs'[i].status = IF runs[i].status = "running" THEN "failed" ELSE runs[i].status
        /\ Range(queue') = {i \in DOMAIN runs : runs[i].status = "queued"}
    BY <1>10, RestartDoes
  <2>2. routine' = routine
    BY <1>10 DEF Restart
  <2>3. ASSUME NEW i \in DOMAIN runs
        PROVE  /\ runs'[i].status = "queued" => ~Late(runs'[i].due, runs'[i].made)
               /\ ~routine'[runs'[i].routine].here => runs'[i].status = "gone"
               /\ runs'[i].status = "queued" => InLine(i)'
               /\ runs'[i].status # "running"
    <3>1. runs'[i].status = "queued" => InLine(i)'
      BY <2>1 DEF InLine
    <3> QED  BY <2>1, <2>2, <3>1 DEF ServedInv, SameRuns
  <2> QED  BY <2>1, <2>3 DEF ServedInv, Late, SameRuns
<1> QED  BY <1>1, <1>2, <1>3, <1>4, <1>5, <1>6, <1>7, <1>8, <1>9, <1>10

\* A run in line is in one place.
LEMMA InOnePlace ==
    ASSUME TypeInv, Places, NEW i \in DOMAIN runs, InLine(i)
    PROVE  Cardinality({k \in DOMAIN queue : queue[k] = i})
             + Cardinality({k \in DOMAIN claims : claims[k] = i})
             + Cardinality({w \in Workers : worker[w].at # "idle" /\ worker[w].run = i})
             = 1
<1> DEFINE Q == {k \in DOMAIN queue : queue[k] = i}
           C == {k \in DOMAIN claims : claims[k] = i}
           W == {w \in Workers : worker[w].at # "idle" /\ worker[w].run = i}
<1>1. i \in Range(queue) => i \notin Range(claims) /\ W = {}
  BY DEF Places, PlacesInv, Busy
<1>2. i \in Range(claims) => i \notin Range(queue) /\ W = {}
  BY DEF Places, PlacesInv, Busy
<1>3. (i \notin Range(queue) => Q = {}) /\ (i \notin Range(claims) => C = {})
  BY DEF Range
<1>4. i \in Range(queue) => \E k : Q = {k}
  BY DEF Range, Places, PlacesInv, Distinct
<1>5. i \in Range(claims) => \E k : C = {k}
  BY DEF Range, Places, PlacesInv, Distinct
<1>6. (\E w \in Workers : worker[w].at \in Before /\ worker[w].run = i) =>
         i \notin Range(queue) /\ i \notin Range(claims) /\ \E w : W = {w}
  <2> SUFFICES ASSUME NEW w \in Workers, worker[w].at \in Before, worker[w].run = i
               PROVE  i \notin Range(queue) /\ i \notin Range(claims) /\ W = {w}
    OBVIOUS
  <2>1. Busy(w)
    BY DEF Busy, Before
  <2>2. i \notin Range(queue) /\ i \notin Range(claims)
    BY <2>1 DEF Places, PlacesInv
  <2>3. \A v \in W : v = w
    BY <2>1 DEF Places, PlacesInv, Busy
  <2> QED  BY <2>1, <2>2, <2>3 DEF Busy
<1>7. \/ (\E k : Q = {k}) /\ C = {} /\ W = {}
      \/ (\E k : C = {k}) /\ Q = {} /\ W = {}
      \/ (\E k : W = {k}) /\ Q = {} /\ C = {}
  BY <1>1, <1>2, <1>3, <1>4, <1>5, <1>6 DEF InLine
<1>8. Cardinality({}) = 0 /\ \A k : Cardinality({k}) = 1
  BY FS_EmptySet, FS_Singleton
<1> HIDE DEF Q, C, W
<1>9. Cardinality(Q) + Cardinality(C) + Cardinality(W) = 1
  <2>1. \/ Cardinality(Q) = 1 /\ Cardinality(C) = 0 /\ Cardinality(W) = 0
        \/ Cardinality(Q) = 0 /\ Cardinality(C) = 1 /\ Cardinality(W) = 0
        \/ Cardinality(Q) = 0 /\ Cardinality(C) = 0 /\ Cardinality(W) = 1
    BY <1>7, <1>8
  <2> QED  BY <2>1
<1> QED  BY <1>9 DEF Q, C, W

\* Through restarts and faults a queued run is in exactly one place from which a worker takes
\* it, and a run recorded as running has a task that will record how it ends.
THEOREM RunsAreSeenTo == Spec => []RunsAreServed
<1>1. Init => Places /\ ServedInv
  <2> SUFFICES ASSUME Init PROVE Places /\ ServedInv
    OBVIOUS
  <2>1. DOMAIN runs = {} /\ DOMAIN turns = {} /\ queue = << >> /\ claims = << >>
        /\ \A w \in Workers : worker[w].at = "idle"
    BY DEF Init, Idle
  <2> QED  BY <2>1, EmptyRange DEF Places, PlacesInv, StartedInv, ServedInv, Busy, Before
<1>2. TypeInv /\ Places /\ ServedInv /\ [Next]_vars => (Places /\ ServedInv)'
  <2> SUFFICES ASSUME TypeInv, Places, ServedInv, [Next]_vars PROVE Places' /\ ServedInv'
    OBVIOUS
  <2>1. CASE Next
    <3>1. Places'
      BY <2>1, PollKeepsPlaces, WorkerKeepsPlaces, OthersKeepPlaces DEF Next
    <3>2. ServedInv'
      BY <2>1, PollServes, WorkerServes, FollowersServe, OthersServe DEF Next
    <3> QED  BY <3>1, <3>2
  <2>2. CASE UNCHANGED vars
    <3>1. UNCHANGED <<runs, routine, turns, worker, queue, claims, followers, dropped>>
      BY <2>2 DEF vars, outside, tables, process, polling
    <3>2. SamePlaces
      BY <3>1 DEF SamePlaces
    <3>3. Places'
      BY <3>1, <3>2, PlacesStay
    <3>4. ServedInv'
      BY <3>1, <3>2, SameStill, ServedStays DEF TypeInv
    <3> QED  BY <3>3, <3>4
  <2> QED  BY <2>1, <2>2
<1>3. TypeInv /\ Places /\ ServedInv => RunsAreServed
  <2> SUFFICES ASSUME TypeInv, Places, ServedInv PROVE RunsAreServed
    OBVIOUS
  <2>1. QueuedIsServed
    BY InOnePlace DEF QueuedIsServed, ServedInv
  <2>2. RunningIsFollowed
    BY DEF RunningIsFollowed, ServedInv, Seen
  <2> QED  BY <2>1, <2>2 DEF RunsAreServed
<1> QED  BY <1>1, <1>2, <1>3, TypeCorrect, PTL DEF Spec
=============================================================================
