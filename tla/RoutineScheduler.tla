--------------------------- MODULE RoutineScheduler ---------------------------
(***************************************************************************)
(* services/agent-server/app/routines/scheduler.py with runs.py and the    *)
(* run records of db/routines.py: routines fall due, are claimed, wait for *)
(* a free model slot, run as a turn in a thread of their own, perhaps stop *)
(* on an approval, and are recorded.  A person may run, switch, delete and *)
(* answer them meanwhile, and the server may restart.                      *)
(*                                                                         *)
(* An action is what one task does between two awaits at which another     *)
(* task could change what it goes on to use.                               *)
(***************************************************************************)
EXTENDS Naturals, FiniteSets, Sequences, SequencesExt

CONSTANTS
    Routines,       \* the saved routines
    Once,           \* those with a one-shot schedule; the others recur
    Delivered,      \* those an admin may turn off for everyone
    MaxConcurrent,  \* the cap on running turns that routines keep to
    Period, Grace, ApprovalTtl,
    People,         \* TRUE: people answer approvals, switch and delete routines
    Manual,         \* TRUE: people run routines now
    Faults,         \* what may go wrong, a subset of FaultKinds
    MaxTime, MaxRuns, MaxTurns, MaxChats, MaxRestarts   \* bounds

FaultKinds == {"platform", "revoked", "store", "launch", "stuck"}

ASSUME KindsAssumption == IsFiniteSet(Routines) /\ Once \subseteq Routines /\ Delivered \subseteq Routines \ Once
ASSUME TimesAssumption == Period \in Nat \ {0} /\ Grace \in Nat /\ ApprovalTtl \in Nat
ASSUME FaultsAssumption == Faults \subseteq FaultKinds
ASSUME SwitchesAssumption == People \in BOOLEAN /\ Manual \in BOOLEAN
ASSUME BoundsAssumption == /\ MaxConcurrent \in Nat \ {0} /\ MaxTime \in Nat
                           /\ MaxRuns \in Nat /\ MaxTurns \in Nat
                           /\ MaxChats \in Nat /\ MaxRestarts \in Nat

VARIABLES
    now,
    routine,    \* the routines table
    off,        \* the delivered routines the admin turned off
    alive,      \* the routines whose grant the platform honours
    runs,       \* the routine_runs table, in order; a deleted one is "gone"
    turns,      \* every turn started in a run's thread
    chats,      \* chat turns running elsewhere
    queue,      \* RoutineScheduler._queue
    claims,     \* the claimed runs `tick` has still to hand out
    stale,      \* the paused runs `expire_stale` has still to look at
    startLock,  \* RoutineScheduler._start_lock: held?
    rejecting,   \* is `_expire` past the start lock, with the head of `stale`?
    worker,     \* where each `_worker` stands, and its run
    followers,  \* the tasks that wait for a turn to record its run
    answers,    \* a person's answer on its way: run -> is it taken as that run's
    dropped,    \* history: the runs whose tick, launch or follower raised, or
                \* that a worker could not fail after the store had failed it,
                \* so that nobody takes or ends them before the next restart
    chatsLeft, restartsLeft   \* for the bounds

tables  == <<routine, runs>>
polling == <<claims, stale, rejecting>>
process == <<queue, polling, startLock, worker, followers>>
outside == <<now, off, chats, chatsLeft, restartsLeft>>
vars == <<outside, alive, tables, turns, process, answers, dropped>>

Workers  == 1..MaxConcurrent
Final    == {"succeeded", "failed", "timed_out", "missed", "expired"}
Statuses == Final \cup {"queued", "running", "waiting_approval", "gone"}
Outcomes == {"completed", "awaiting_approval", "cancelled", "error"}
WorkerAt == {"idle", "waiting", "checking", "granting", "marking", "launching", "following", "dead"}

Routine == [here : BOOLEAN, enabled : BOOLEAN, next : Nat, grant : BOOLEAN]
\* `due` is 0 for a run made by hand; `made` is created_at and `at` finished_at;
\* `asked` is when the approval its thread now waits on was asked (0: none).
Run  == [routine : Routines, status : Statuses, due : Nat, made : Nat, at : Nat,
         thread : BOOLEAN, asked : Nat]
\* `by`: the scheduler starts a run or rejects its stale approval, a person
\* runs it by hand or answers it; `limit`: cancelled at the run's time limit.
Turn == [run : Nat, by : {"queue", "hand", "expiry", "answer"}, limit : BOOLEAN,
         status : Outcomes \cup {"running", "stuck", "lost"}]
\* `at`: `_running_again` first, then `finish_run`.
Follower == [run : Nat, turn : Nat, expiring : BOOLEAN, at : {"mark", "wait"}]

TypeOK ==
    /\ now \in Nat /\ off \subseteq Delivered /\ alive \subseteq Routines
    /\ routine \in [Routines -> Routine]
    /\ runs \in Seq(Run) /\ turns \in Seq(Turn)
    /\ chats \in Nat /\ chatsLeft \in Nat /\ restartsLeft \in Nat
    /\ queue \in Seq(Nat) /\ claims \in Seq(Nat) /\ stale \in Seq(Nat)
    /\ startLock \in BOOLEAN /\ rejecting \in BOOLEAN
    /\ worker \in [Workers -> [at : WorkerAt, run : Nat, turn : Nat]]
    /\ followers \subseteq Follower
    /\ answers \subseteq [run : Nat, tracked : BOOLEAN]
    /\ dropped \subseteq Nat

\* Mutant of NextTime: the wrong neighbour of t.
TimeBefore(t) == (t \div Period - 1) * Period

\* The recurring schedule's first time after t.
NextTime(t) == (t \div Period + 1) * Period

Idle == [at |-> "idle", run |-> 0, turn |-> 0]
NoRoutine == [here |-> FALSE, enabled |-> FALSE, next |-> 0, grant |-> FALSE]

Init ==
    /\ now = 1 /\ off = {} /\ alive \in SUBSET Routines
    /\ routine = [r \in Routines |-> IF r \in alive
         THEN [here |-> TRUE, enabled |-> TRUE, next |-> NextTime(1), grant |-> TRUE] ELSE NoRoutine]
    /\ runs = << >> /\ turns = << >> /\ chats = 0
    /\ queue = << >> /\ claims = << >> /\ stale = << >> /\ startLock = FALSE /\ rejecting = FALSE
    /\ worker = [w \in Workers |-> Idle]
    /\ followers = {} /\ answers = {} /\ dropped = {}
    /\ chatsLeft = MaxChats /\ restartsLeft = MaxRestarts

-----------------------------------------------------------------------------
(* The turn runner as the scheduler sees it.                               *)

InActive(t) == turns[t].status \in {"running", "stuck"}
Active(i)   == \E t \in DOMAIN turns : turns[t].run = i /\ InActive(t)
Running     == Cardinality({t \in DOMAIN turns : InActive(t)}) + chats
BelowCap    == Running < MaxConcurrent

NewTurn(i, by) == [run |-> i, by |-> by, limit |-> FALSE, status |-> "running"]

ChatStarts ==
    /\ chatsLeft > 0
    /\ chats' = chats + 1 /\ chatsLeft' = chatsLeft - 1
    /\ UNCHANGED <<now, off, restartsLeft, alive, tables, turns, process, answers, dropped>>

ChatEnds ==
    /\ chats > 0 /\ chats' = chats - 1
    /\ UNCHANGED <<now, off, chatsLeft, restartsLeft, alive, tables, turns, process,
                   answers, dropped>>

\* A turn ends by itself, stopping on an approval or not, or is cancelled
\* (by a person, or at its limit), perhaps just after it asked for one.
TurnEnds(t) ==
    /\ turns[t].status = "running"
    /\ \E s \in Outcomes, ask \in BOOLEAN :
         /\ s = "awaiting_approval" => ask
         /\ s \in {"completed", "error"} => ~ask
         /\ s = "cancelled" => turns[t].limit \/ People
         /\ turns' = [turns EXCEPT ![t].status = s]
         /\ runs' = [runs EXCEPT ![turns[t].run].asked = IF ask THEN now ELSE 0]
    /\ UNCHANGED <<outside, alive, routine, process, answers, dropped>>

\* TurnRunner's phase "stuck": its task raised CancelledError.
TurnSticks(t) ==
    /\ "stuck" \in Faults /\ turns[t].status = "running"
    /\ turns' = [turns EXCEPT ![t].status = "stuck"]
    /\ UNCHANGED <<outside, alive, tables, process, answers, dropped>>

-----------------------------------------------------------------------------
(* Records.                                                                *)

\* `update_run`: nothing happens to a run deleted with its routine.
Put(i, s) == IF runs[i].status = "gone" THEN runs
             ELSE [runs EXCEPT ![i].status = s, ![i].at = now]

\* `_retire_if_once`, after the routine row became `row`: a one-shot that is
\* off loses its grant, unless the platform does not answer.
Retire(r, row) ==
    LET retired == r \in Once /\ row.here /\ ~row.enabled /\ row.grant IN
    \/ /\ retired
       /\ routine' = [routine EXCEPT ![r] = [row EXCEPT !.grant = FALSE]]
       /\ alive' = alive \ {r}
    \/ /\ ~retired \/ "platform" \in Faults
       /\ routine' = [routine EXCEPT ![r] = row]
       /\ UNCHANGED alive

\* Mutant of Ended: a paused run is not told from one that goes on.
EndedStillRunning(t, expiring) == IF turns[t].status = "awaiting_approval" THEN "running" ELSE "failed"

\* How `_ended` and `_finish_turn` name the outcome of a turn.
Ended(t, expiring) ==
    CASE turns[t].status = "completed"         -> IF expiring THEN "expired" ELSE "succeeded"
      [] turns[t].status = "awaiting_approval" -> "waiting_approval"
      [] turns[t].status = "cancelled"         -> IF turns[t].limit THEN "timed_out" ELSE "failed"
      [] OTHER                                 -> "failed"

\* The rest of `_finish_turn`, once the turn is over.
RecordTurn(i, t, expiring) ==
    LET s == Ended(t, expiring)
        r == runs[i].routine
    IN /\ runs' = Put(i, s)
       /\ IF s = "waiting_approval" THEN UNCHANGED <<alive, routine>>
          ELSE Retire(r, routine[r])

-----------------------------------------------------------------------------
(* `tick`: claim what is due, then hand the claims out.                    *)

Due == {r \in Routines : LET row == routine[r] IN
          row.here /\ row.enabled /\ row.next # 0 /\ row.next <= now}

\* Mutant of Advance: the next time after the one due, not after now.
AdvanceFromDue(r) == IF r \in Once THEN 0 ELSE NextTime(routine[r].next)

Advance(r) == IF r \in Once THEN 0 ELSE NextTime(now)

Late(due, at) == at - due > Grace

\* `ORDER BY key`: those of equal keys come in any order.
InOrder(S, key) == {s \in SetToSeqs(S) : \A j, k \in DOMAIN s : j < k => key[s[j]] <= key[s[k]]}

Claimed(r) == [routine |-> r, due |-> routine[r].next, made |-> now, at |-> now,
               thread |-> FALSE, asked |-> 0,
               status |-> IF Late(routine[r].next, now) THEN "missed" ELSE "queued"]

Claim ==
    /\ claims = << >> /\ stale = << >>
    /\ Due # {} /\ Len(runs) + Cardinality(Due) <= MaxRuns
    /\ \E due \in InOrder(Due, [r \in Due |-> routine[r].next]) :
         /\ runs' = runs \o [k \in DOMAIN due |-> Claimed(due[k])]
         /\ claims' = [k \in DOMAIN due |-> Len(runs) + k]
    /\ routine' = [r \in Routines |->
         IF r \in Due THEN [routine[r] EXCEPT !.next = Advance(r), !.enabled = Advance(r) # 0]
         ELSE routine[r]]
    /\ UNCHANGED <<outside, alive, turns, queue, stale, rejecting, startLock, worker,
                   followers, answers, dropped>>

\* A claim of a routine that is off for everyone is deleted, a missed
\* one-shot is retired, and any other run is queued.
HandOut ==
    /\ claims # << >> /\ claims' = Tail(claims)
    /\ LET i == Head(claims)
           r == runs[i].routine
       IN \/ /\ r \in off
             /\ runs' = [runs EXCEPT ![i].status = "gone"]
             /\ UNCHANGED <<alive, routine, queue>>
          \/ /\ r \notin off \/ "platform" \in Faults
             /\ UNCHANGED runs
             /\ IF Late(runs[i].due, runs[i].made)
                THEN Retire(r, routine[r]) /\ UNCHANGED queue
                ELSE queue' = Append(queue, i) /\ UNCHANGED <<alive, routine>>
    /\ UNCHANGED <<outside, turns, stale, rejecting, startLock, worker, followers, answers,
                   dropped>>

\* The store fails meanwhile: `_poll` logs it, and the claims left are nobody's.
TickFails ==
    /\ "store" \in Faults /\ claims # << >>
    /\ claims' = << >> /\ dropped' = dropped \cup Range(claims)
    /\ UNCHANGED <<outside, alive, tables, turns, queue, stale, rejecting, startLock,
                   worker, followers, answers>>

-----------------------------------------------------------------------------
(* A worker: `_worker` and `_execute`.                                     *)

Move(w, at) == worker' = [worker EXCEPT ![w].at = at]
Leave(w)    == worker' = [worker EXCEPT ![w] = Idle] /\ startLock' = FALSE

Take(w) ==
    /\ worker[w].at = "idle" /\ queue # << >>
    /\ queue' = Tail(queue)
    /\ worker' = [worker EXCEPT ![w] = [at |-> "waiting", run |-> Head(queue), turn |-> 0]]
    /\ UNCHANGED <<outside, alive, tables, turns, polling, startLock, followers, answers,
                   dropped>>

StartLock == ~startLock /\ startLock' = TRUE

\* Mutants of HasSlot: off by one, either way.
HasSlotAtCap == Running <= MaxConcurrent
HasSlotTwice == Running + 1 < MaxConcurrent

HasSlot == BelowCap

\* `_start_lock` and `wait_below`.
Enter(w) ==
    /\ worker[w].at = "waiting" /\ StartLock /\ HasSlot
    /\ Move(w, "checking")
    /\ UNCHANGED <<outside, alive, tables, turns, queue, polling, followers, answers,
                   dropped>>

\* What makes a run end before it starts ("gone": its record is deleted).
Refusals(i) ==
    LET r   == runs[i].routine
        row == routine[r]
    IN IF Late(runs[i].due, now) \/ (~row.enabled /\ r \notin Once) THEN {"missed"}
       ELSE (IF r \in off THEN {"gone"} ELSE {})
            \cup (IF r \in Delivered /\ "platform" \in Faults THEN {"failed"} ELSE {})

Check(w) ==
    LET i == worker[w].run
        r == runs[i].routine
    IN
    /\ worker[w].at = "checking"
    /\ \/ /\ ~routine[r].here
          /\ Leave(w) /\ UNCHANGED <<alive, tables>>
       \/ /\ routine[r].here
          /\ \E s \in Refusals(i) : runs' = Put(i, s)
          /\ Leave(w) /\ Retire(r, routine[r])
       \/ /\ routine[r].here /\ r \notin off /\ Refusals(i) \subseteq {"failed"}
          /\ Move(w, "granting") /\ UNCHANGED <<alive, tables, startLock>>
    /\ UNCHANGED <<outside, turns, queue, polling, followers, answers, dropped>>

Granted(r) == routine[r].grant /\ r \in alive

\* A refused grant: a delivered routine loses it, any other is turned off.
Refused(r) == IF r \in Delivered THEN [routine[r] EXCEPT !.grant = FALSE]
              ELSE [routine[r] EXCEPT !.enabled = FALSE, !.next = 0, !.grant = FALSE]

\* `create_run_thread` and `_delegation`.
Grant(w) ==
    LET i == worker[w].run
        r == runs[i].routine
    IN
    /\ worker[w].at = "granting"
    /\ \/ /\ Granted(r)
          /\ runs' = [runs EXCEPT ![i].thread = TRUE]
          /\ Move(w, "marking") /\ UNCHANGED <<alive, routine, startLock>>
       \/ /\ ~Granted(r)
          /\ runs' = Put(i, IF r \in Delivered THEN "missed" ELSE "failed")
          /\ Leave(w) /\ Retire(r, Refused(r))
       \/ /\ "platform" \in Faults /\ runs' = Put(i, "failed")
          /\ Leave(w) /\ Retire(r, routine[r])
    /\ UNCHANGED <<outside, turns, queue, polling, followers, answers, dropped>>

MarkRunning(w) ==
    /\ worker[w].at = "marking"
    /\ runs' = Put(worker[w].run, "running")
    /\ Move(w, "launching")
    /\ UNCHANGED <<outside, alive, routine, turns, queue, polling, startLock, followers,
                   answers, dropped>>

\* `launch_run`; an exception before or after its turn started reaches
\* `_worker`, which fails the run.
Launch(w) ==
    LET i == worker[w].run IN
    /\ worker[w].at = "launching" /\ Len(turns) < MaxTurns
    /\ startLock' = FALSE
    /\ \/ /\ turns' = Append(turns, NewTurn(i, "queue"))
          /\ worker' = [worker EXCEPT ![w].at = "following", ![w].turn = Len(turns) + 1]
          /\ UNCHANGED runs
       \/ /\ "launch" \in Faults
          /\ turns' \in {turns, Append(turns, NewTurn(i, "queue"))}
          /\ worker' = [worker EXCEPT ![w] = Idle]
          /\ runs' = Put(i, "failed")
    /\ UNCHANGED <<outside, alive, routine, queue, polling, followers, answers, dropped>>

\* Mutant of WhoFollows: a manual run has no time limit.
OnlyWorkersFollow(t) == \E w \in Workers : worker[w].at = "following" /\ worker[w].turn = t

\* The tasks in `finish_run` for a turn.
WhoFollows(t) == \/ \E w \in Workers : worker[w].at = "following" /\ worker[w].turn = t
                 \/ \E f \in followers : f.at = "wait" /\ f.turn = t

\* `finish_run` cancels a turn at the run time limit.
TimeLimit(t) ==
    /\ turns[t].status = "running" /\ ~turns[t].limit /\ WhoFollows(t)
    /\ turns' = [turns EXCEPT ![t].limit = TRUE]
    /\ UNCHANGED <<outside, alive, tables, process, answers, dropped>>

\* The turn is over; the CancelledError of a stuck one ends the worker too.
FinishRun(w) ==
    LET t == worker[w].turn IN
    /\ worker[w].at = "following" /\ turns[t].status # "running"
    /\ IF turns[t].status = "stuck"
       THEN /\ Move(w, "dead") /\ dropped' = dropped \cup {worker[w].run}
            /\ UNCHANGED <<alive, tables>>
       ELSE /\ UNCHANGED dropped
            /\ RecordTurn(worker[w].run, t, FALSE)
            /\ worker' = [worker EXCEPT ![w] = Idle]
    /\ UNCHANGED <<outside, turns, queue, polling, startLock, followers, answers>>

\* What a worker may have recorded of its run in the step the store fails, ...
Recorded(w) ==
    CASE worker[w].at = "checking"  -> Refusals(worker[w].run) \ {"gone"}
      [] worker[w].at = "granting"  -> {"missed", "failed"}
      [] worker[w].at = "following" -> {Ended(worker[w].turn, FALSE)}
      [] OTHER                      -> {}

\* ... and of its routine: a refused grant, or, with the run ended as one of S, the first
\* half of retiring a one-shot.
HalfWritten(r, refusing, S) ==
    \/ UNCHANGED <<alive, routine>>
    \/ /\ refusing /\ ~Granted(r) /\ routine[r].here
       /\ routine' = [routine EXCEPT ![r] = Refused(r)] /\ UNCHANGED alive
    \/ /\ S \ {"waiting_approval"} # {} /\ r \in Once /\ ~routine[r].enabled
       /\ alive' = alive \ {r} /\ UNCHANGED routine

\* A call to the store raises in a worker, which fails the run; if that raises too, the
\* worker's task ends for good, with the run recorded as it was.
WorkerFails(w) ==
    LET i == worker[w].run IN
    /\ "store" \in Faults
    /\ \/ worker[w].at \in {"checking", "granting", "marking", "launching"} /\ startLock' = FALSE
       \/ /\ worker[w].at = "following" /\ turns[worker[w].turn].status \notin {"running", "stuck"}
          /\ UNCHANGED startLock
    /\ turns' \in {turns} \cup (IF worker[w].at = "launching" /\ Len(turns) < MaxTurns
                               THEN {Append(turns, NewTurn(i, "queue"))} ELSE {})
    /\ HalfWritten(runs[i].routine, worker[w].at = "granting", Recorded(w))
    /\ \/ /\ runs' = Put(i, "failed") /\ UNCHANGED dropped
          /\ worker' = [worker EXCEPT ![w] = Idle]
       \/ /\ runs' \in {runs} \cup {Put(i, s) : s \in Recorded(w)}
          /\ dropped' = dropped \cup {i}
          /\ Move(w, "dead")
    /\ UNCHANGED <<outside, queue, polling, followers, answers>>

WorkerStep(w) == Take(w) \/ Check(w) \/ Grant(w) \/ MarkRunning(w) \/ Launch(w) \/ FinishRun(w)

-----------------------------------------------------------------------------
(* The tasks that follow a turn nobody queued.                             *)

Follow(f) ==
    /\ f.at = "mark"
    /\ runs' = Put(f.run, "running")
    /\ followers' = (followers \ {f}) \cup {[f EXCEPT !.at = "wait"]}
    /\ UNCHANGED <<outside, alive, routine, turns, queue, polling, startLock, worker,
                   answers, dropped>>

Followed(f) ==
    /\ f.at = "wait" /\ turns[f.turn].status # "running"
    /\ followers' = followers \ {f}
    /\ IF turns[f.turn].status = "stuck"
       THEN dropped' = dropped \cup {f.run} /\ UNCHANGED <<alive, tables>>
       ELSE RecordTurn(f.run, f.turn, f.expiring) /\ UNCHANGED dropped
    /\ UNCHANGED <<outside, turns, queue, polling, startLock, worker, answers>>

\* The store raises in such a task, which ends; nobody records the run any more.
FollowerFails(f) ==
    LET recorded == IF f.at = "wait" THEN {Ended(f.turn, e) : e \in {FALSE, f.expiring}} ELSE {} IN
    /\ "store" \in Faults
    /\ f.at = "wait" => turns[f.turn].status \notin {"running", "stuck"}
    /\ followers' = followers \ {f} /\ dropped' = dropped \cup {f.run}
    /\ runs' \in {runs} \cup {Put(f.run, s) : s \in recorded}
    /\ HalfWritten(runs[f.run].routine, FALSE, recorded)
    /\ UNCHANGED <<outside, turns, queue, polling, startLock, worker, answers>>

\* `start_manual`: recorded as running, then launched.
RunNow(r) ==
    /\ Manual /\ routine[r].here /\ r \notin off
    /\ Len(runs) < MaxRuns /\ Len(turns) < MaxTurns
    /\ LET i == Len(runs) + 1 IN
         /\ runs' = Append(runs, [routine |-> r, status |-> "running", due |-> 0, made |-> now,
                                  at |-> 0, thread |-> TRUE, asked |-> 0])
         /\ \/ /\ turns' = Append(turns, NewTurn(i, "hand"))
               /\ followers' = followers \cup
                    {[run |-> i, turn |-> Len(turns) + 1, expiring |-> FALSE, at |-> "wait"]}
               /\ UNCHANGED dropped
            \/ /\ "launch" \in Faults
               /\ turns' \in {turns, Append(turns, NewTurn(i, "hand"))}
               /\ dropped' = dropped \cup {i} /\ UNCHANGED followers
    /\ UNCHANGED <<outside, alive, routine, queue, polling, startLock, worker, answers>>

-----------------------------------------------------------------------------
(* Paused runs: answered by a person in the run's chat, or by the poll.    *)

\* `_waiting_routine_run`: the socket looks up the run before it waits for
\* the thread's lock; the approval was announced before its turn was over.
Answer(i) ==
    /\ People /\ runs[i].asked # 0 /\ runs[i].thread
    /\ \A a \in answers : a.run # i
    /\ answers' = answers \cup {[run |-> i, tracked |-> runs[i].status = "waiting_approval"]}
    /\ UNCHANGED <<outside, alive, tables, turns, process, dropped>>

\* With the lock: the resumed turn, tracked as the run's if it was one.
AnswerStarts(a) ==
    /\ ~Active(a.run)
    /\ answers' = answers \ {a}
    /\ IF runs[a.run].asked = 0 \/ ~runs[a.run].thread
       THEN UNCHANGED <<runs, turns, followers>>
       ELSE /\ Len(turns) < MaxTurns
            /\ runs' = [runs EXCEPT ![a.run].asked = 0]
            /\ turns' = Append(turns, NewTurn(a.run, "answer"))
            /\ followers' = IF ~a.tracked THEN followers ELSE followers \cup
                 {[run |-> a.run, turn |-> Len(turns) + 1, expiring |-> FALSE, at |-> "mark"]}
    /\ UNCHANGED <<outside, alive, routine, queue, polling, startLock, worker, dropped>>

\* Mutant of Stale: every paused run.
StalePaused == {i \in DOMAIN runs : runs[i].status = "waiting_approval"}

Stale == {i \in DOMAIN runs : runs[i].status = "waiting_approval"
                              /\ runs[i].at < now - ApprovalTtl /\ now > ApprovalTtl}

\* `expire_stale` reads the runs it will go through.
ReadStale ==
    /\ claims = << >> /\ stale = << >> /\ Stale # {}
    /\ stale' \in InOrder(Stale, [i \in Stale |-> runs[i].at])
    /\ UNCHANGED <<outside, alive, tables, turns, queue, claims, rejecting, startLock,
                   worker, followers, answers, dropped>>

\* `_expire`: no thread left, or being answered right now.
ExpireWithout ==
    /\ stale # << >> /\ ~rejecting
    /\ LET i == Head(stale) IN
         \/ ~runs[i].thread /\ runs' = Put(i, "expired")
         \/ runs[i].thread /\ Active(i) /\ UNCHANGED runs
    /\ stale' = Tail(stale)
    /\ UNCHANGED <<outside, alive, routine, turns, queue, claims, rejecting, startLock,
                   worker, followers, answers, dropped>>

ExpireEnter ==
    /\ stale # << >> /\ runs[Head(stale)].thread
    /\ ~rejecting /\ rejecting' = TRUE
    /\ StartLock /\ HasSlot
    /\ UNCHANGED <<outside, alive, tables, turns, queue, claims, stale, worker, followers,
                   answers, dropped>>

\* The approval `_resume_rejected` finds pending.
ToReject(i) == runs[i].thread /\ runs[i].asked # 0

\* `_resume_rejected` with the thread's lock, then `_running_again`.
ExpireResume ==
    LET i == Head(stale)
        r == runs[i].routine
    IN
    /\ rejecting /\ ~Active(i)
    /\ startLock' = FALSE /\ rejecting' = FALSE /\ stale' = Tail(stale)
    /\ \/ /\ ~ToReject(i)
          /\ runs' = Put(i, "succeeded")
          /\ UNCHANGED <<alive, routine, turns, followers>>
       \/ /\ ToReject(i) /\ Granted(r) /\ Len(turns) < MaxTurns
          /\ runs' = [Put(i, "running") EXCEPT ![i].asked = 0]
          /\ turns' = Append(turns, NewTurn(i, "expiry"))
          /\ followers' = followers \cup
               {[run |-> i, turn |-> Len(turns) + 1, expiring |-> TRUE, at |-> "wait"]}
          /\ UNCHANGED <<alive, routine>>
       \/ /\ ToReject(i) /\ ~Granted(r)
          /\ runs' = Put(i, "expired")
          /\ routine' = [routine EXCEPT ![r] = Refused(r)]
          /\ UNCHANGED <<alive, turns, followers>>
       \/ /\ ToReject(i) /\ "platform" \in Faults
          /\ UNCHANGED <<alive, tables, turns, followers>>
    /\ UNCHANGED <<outside, queue, claims, worker, answers, dropped>>

\* The store raises in `_expire`, which is logged: before anything is written, after the
\* refused grant is, or once the approval is rejected, by a turn nobody follows.
ExpireFails ==
    LET i == Head(stale)
        r == runs[i].routine
    IN
    /\ "store" \in Faults /\ stale # << >> /\ stale' = Tail(stale)
    /\ IF rejecting THEN ~Active(i) /\ startLock' = FALSE ELSE ~runs[i].thread /\ UNCHANGED startLock
    /\ rejecting' = FALSE
    /\ \/ UNCHANGED <<tables, turns>>
       \/ /\ rejecting /\ ToReject(i) /\ ~Granted(r)
          /\ routine' = [routine EXCEPT ![r] = Refused(r)] /\ UNCHANGED <<runs, turns>>
       \/ /\ rejecting /\ ToReject(i) /\ Granted(r) /\ Len(turns) < MaxTurns
          /\ runs' = [runs EXCEPT ![i].asked = 0]
          /\ turns' = Append(turns, NewTurn(i, "expiry")) /\ UNCHANGED routine
    /\ UNCHANGED <<outside, alive, queue, claims, worker, followers, answers, dropped>>

-----------------------------------------------------------------------------
(* What people and the admin do to routines, time, and the server.         *)

Switch(r) ==
    /\ People /\ routine[r].here
    /\ LET on == ~routine[r].enabled IN
         /\ routine' = [routine EXCEPT ![r] =
              [here |-> TRUE, enabled |-> on, next |-> IF on THEN NextTime(now) ELSE 0, grant |-> on]]
         /\ alive' = IF on THEN alive \cup {r} ELSE alive \ {r}
    /\ UNCHANGED <<outside, runs, turns, process, answers, dropped>>

\* The routine and its run records go; its threads stay as ordinary chats.
Delete(r) ==
    /\ People /\ routine[r].here /\ r \notin Delivered
    /\ routine' = [routine EXCEPT ![r] = NoRoutine]
    /\ alive' = alive \ {r}
    /\ runs' = [i \in DOMAIN runs |->
                 IF runs[i].routine = r THEN [runs[i] EXCEPT !.status = "gone"] ELSE runs[i]]
    /\ UNCHANGED <<outside, turns, process, answers, dropped>>

\* The run's chat is deleted while it is idle.
DeleteThread(i) ==
    /\ People /\ runs[i].thread /\ runs[i].status = "waiting_approval" /\ ~Active(i)
    /\ runs' = [runs EXCEPT ![i].thread = FALSE, ![i].asked = 0]
    /\ UNCHANGED <<outside, alive, routine, turns, process, answers, dropped>>

AdminSwitches(r) ==
    /\ r \in Delivered
    /\ off' = IF r \in off THEN off \ {r} ELSE off \cup {r}
    /\ UNCHANGED <<now, chats, chatsLeft, restartsLeft, alive, tables, turns, process,
                   answers, dropped>>

\* The platform drops a grant: revoked in Sessions, edit rights lost, ...
GrantDies(r) ==
    /\ "revoked" \in Faults /\ r \in alive
    /\ alive' = alive \ {r}
    /\ UNCHANGED <<outside, tables, turns, process, answers, dropped>>

\* A task that has yet to make its first short call makes it in no time.
Tick ==
    /\ now < MaxTime /\ now' = now + 1
    /\ \A f \in followers : f.at = "wait"
    /\ UNCHANGED <<off, chats, chatsLeft, restartsLeft, alive, tables, turns, process,
                   answers, dropped>>

\* Mutants of Recovered: nothing is; or runs that had started, too.
RecoveredNone(i) == FALSE
RecoveredOpen(i) == runs[i].status \in {"queued", "running"}

\* The runs `recover_interrupted` queues again.
Recovered(i) == runs[i].status = "queued"

\* The server is killed and comes back, perhaps later: `recover_interrupted`.
Restart ==
    /\ restartsLeft > 0 /\ restartsLeft' = restartsLeft - 1
    /\ now' \in now..MaxTime
    /\ runs' = [i \in DOMAIN runs |-> IF runs[i].status = "running"
                 THEN [runs[i] EXCEPT !.status = "failed", !.at = now'] ELSE runs[i]]
    /\ queue' \in InOrder({i \in DOMAIN runs : Recovered(i)}, [i \in DOMAIN runs |-> runs[i].due])
    /\ turns' = [t \in DOMAIN turns |-> IF InActive(t)
                  THEN [turns[t] EXCEPT !.status = "lost"] ELSE turns[t]]
    /\ chats' = 0 /\ claims' = << >> /\ stale' = << >> /\ startLock' = FALSE /\ rejecting' = FALSE
    /\ worker' = [w \in Workers |-> Idle] /\ followers' = {}
    /\ answers' = {} /\ dropped' = {}
    /\ UNCHANGED <<off, chatsLeft, alive, routine>>

Poll == Claim \/ HandOut \/ ReadStale \/ ExpireWithout \/ ExpireResume

Next ==
    \/ ChatStarts \/ ChatEnds
    \/ \E t \in DOMAIN turns : TurnEnds(t) \/ TurnSticks(t) \/ TimeLimit(t)
    \/ Poll \/ TickFails \/ ExpireEnter \/ ExpireFails
    \/ \E w \in Workers : WorkerStep(w) \/ Enter(w) \/ WorkerFails(w)
    \/ \E f \in followers : Follow(f) \/ Followed(f) \/ FollowerFails(f)
    \/ \E r \in Routines : RunNow(r) \/ Switch(r) \/ Delete(r) \/ AdminSwitches(r) \/ GrantDies(r)
    \/ \E i \in DOMAIN runs : Answer(i) \/ DeleteThread(i)
    \/ \E a \in answers : AnswerStarts(a)
    \/ Tick \/ Restart

Spec == Init /\ [][Next]_vars

-----------------------------------------------------------------------------
(* Fairness: the poll, the workers and the followers go on; the start lock *)
(* is handed to whoever waits for it; a turn cancelled at its limit ends,  *)
(* and so do chats.  Time need not pass and nobody need answer.            *)

FairSpec ==
    /\ Spec
    /\ WF_vars(Poll) /\ SF_vars(ExpireEnter)
    /\ \A w \in Workers : WF_vars(WorkerStep(w)) /\ SF_vars(Enter(w))
    /\ WF_vars(\E f \in followers : Follow(f) \/ Followed(f))
    /\ WF_vars(ChatEnds)
    /\ WF_vars(\E t \in DOMAIN turns : TimeLimit(t))
    /\ WF_vars(\E t \in DOMAIN turns : turns[t].limit /\ TurnEnds(t))

-----------------------------------------------------------------------------
(* Properties.                                                             *)

\* "Nothing fires twice": a time a routine was due has one run record, and a
\* record one turn of its own, however often the server restarts.
FiresOnce ==
    /\ \A i, j \in DOMAIN runs : runs[i].due # 0 /\ runs[i].due = runs[j].due
                                 /\ runs[i].routine = runs[j].routine => i = j
    /\ \A t, u \in DOMAIN turns : turns[t].run = turns[u].run /\ turns[t].by = "queue"
                                  /\ turns[u].by = "queue" => t = u

\* "A backlog never piles up": whatever times went by before a routine was
\* claimed, late or after a restart, are not claimed later.
NoBacklog ==
    \A i, j \in DOMAIN runs :
        runs[i].routine = runs[j].routine /\ i < j /\ runs[j].due # 0 /\ runs[i].due # 0
            => runs[j].due > runs[i].made

\* The turns the scheduler started never fill more than the cap by themselves.
KeepsToCap ==
    Cardinality({t \in DOMAIN turns : InActive(t) /\ turns[t].by \in {"queue", "expiry"}})
        <= MaxConcurrent

\* A queued run is somewhere a worker will get to it, and only once, after
\* any restart too; unless the store failed in the tick that claimed it, or
\* failed its worker and then the record of that.
QueuedIsServed ==
    \A i \in DOMAIN runs : runs[i].status = "queued" /\ i \notin dropped =>
        Cardinality({k \in DOMAIN queue : queue[k] = i})
          + Cardinality({k \in DOMAIN claims : claims[k] = i})
          + Cardinality({w \in Workers : worker[w].at # "idle" /\ worker[w].run = i})
          = 1

\* A run recorded as running has a task that will record how it ends; unless
\* a manual run's launch raised, its turn's task was killed, or the store
\* failed that task and then the record of that.
RunningIsFollowed ==
    \A i \in DOMAIN runs : runs[i].status = "running" /\ i \notin dropped =>
        \/ \E w \in Workers : worker[w].at \in {"launching", "following"} /\ worker[w].run = i
        \/ \E f \in followers : f.run = i

\* Only an approval that waited for longer than `approval_ttl` is rejected.
RejectsOnlyStale ==
    [][\A t \in DOMAIN turns' \ DOMAIN turns : turns'[t].by = "expiry"
         => LET asked == runs[turns'[t].run].asked IN asked # 0 /\ now - asked > ApprovalTtl]_vars

\* A run that was queued does not stay so, nor does a running one: the time limit sees to it.
RunsGoOn == \A i \in 1..MaxRuns, status \in {"queued", "running"} :
    (i \in DOMAIN runs /\ runs[i].status = status) ~> (i \in DOMAIN runs /\ runs[i].status # status)

\* An approval nobody answers for `approval_ttl` does not wait for ever.
StaleIsAnswered == \A i \in 1..MaxRuns :
    (i \in DOMAIN runs /\ i \in Stale) ~> (i \in DOMAIN runs /\ i \notin Stale)

\* Nothing the scheduler has to see to waits for ever, although turns may never end by themselves.
SchedulerGoesOn == RunsGoOn /\ StaleIsAnswered
=============================================================================
