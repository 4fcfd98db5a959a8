----------------------------- MODULE TurnRunner -----------------------------
(***************************************************************************)
(* One thread's turns in agent-server: services/agent-server/app/agent/    *)
(* turn_runner.py, with the lock and start-point handling of api/chat_ws.py*)
(* and the thread row's flags of db/threads.py.                            *)
(*                                                                         *)
(* A turn is one asyncio task.  It gives up the event loop only where it   *)
(* awaits, and a cancellation is thrown into it only there, so `phase`     *)
(* names the await the task stands at and each action is the code between  *)
(* two awaits.  Threads share nothing here but the count of running turns. *)
(***************************************************************************)
EXTENDS Naturals, FiniteSets, Sequences

CONSTANTS
    Clients,        \* who may subscribe to a turn: sockets, a routine's worker
    Faults,         \* which external calls may fail, a subset of FaultKinds
    MaxTurns,       \* bound: turns started on the thread
    MaxFrames,      \* bound: frames a turn streams before its last ones
    MaxCkpts,       \* bound: checkpoints of the thread
    MaxCancels,     \* bound: cancellations that reach one turn
    RunLimit,       \* TRUE: a routine run's time limit may cancel the turn
    Branching       \* TRUE: forks, and PUT .../active_branch, are used

FaultKinds == {"start", "policy", "agent", "stats", "reread", "persist", "record"}

ASSUME FaultsAssumption == Faults \subseteq FaultKinds
ASSUME BoundsAssumption == /\ MaxTurns \in Nat /\ MaxFrames \in Nat
                           /\ MaxCkpts \in Nat /\ MaxCancels \in Nat
ASSUME SwitchesAssumption == Branching \in BOOLEAN /\ RunLimit \in BOOLEAN

TurnEnds == {"completed", "awaiting_approval", "cancelled"}
Finals   == TurnEnds \cup {"error"}
\* A turn_end frame is named by its status; "delta" stands for the token,
\* reasoning, tool_start and tool_end frames of the stream.  turn_start is
\* left out: it is never kept for replay.
Frame    == Finals \cup {"delta", "approval_request", "END"}

VARIABLES
    lock,           \* the thread's asyncio.Lock: whose hands it is in
    phase,          \* the await the turn's task stands at ("none": no turn)
    frames,         \* ActiveTurn.frames
    ended,          \* ActiveTurn._ended
    subscribers,    \* ActiveTurn.subscribers
    timer,          \* ActiveTurn._timer: off, armed, or old enough to fire
    quiet,          \* ActiveTurn.quiet
    detachable,     \* TurnRequest.detached_timeout_s is not None
    outcome,        \* the TurnOutcome `_run` holds
    queue,          \* all that was put in each client's latest queue
    base,           \* the checkpoint the turn starts from (0: none)
    head,           \* the last checkpoint the turn is built on
    parent,         \* the parent (0: none) of each checkpoint, oldest first
    interrupted,    \* the checkpoints that carry an interrupt
    tip,            \* the row's active_checkpoint_id (0: NULL)
    awaiting,       \* the row's awaiting_approval
    unread,         \* the row's unread
    turns, cancels  \* counters for the bounds

turnVars == <<frames, ended, outcome, quiet, detachable, base>>
clientVars == <<subscribers, timer, queue>>
ckptVars == <<head, parent, interrupted>>
rowVars  == <<tip, awaiting, unread>>
vars == <<lock, phase, turnVars, clientVars, ckptVars, rowVars, turns, cancels>>

Locks  == {"free", "caller", "turn"}
Phases == {"none", "policy", "stream", "read", "pausedStats", "doneStats",
           "cancelStats", "cancelRead", "persist", "recordRead", "recordUnread",
           "recorded", "stuck"}
\* The call of `turn_ended`, by what it says of `unread`.
Recording == {"recordRead", "recordUnread"}
Timers == {"off", "armed", "old"}
Outcome == [status : Finals, pending : BOOLEAN]
NoOutcome == [status |-> "error", pending |-> FALSE]

TypeOK ==
    /\ lock \in Locks
    /\ phase \in Phases
    /\ frames \in Seq(Frame)
    /\ ended \in BOOLEAN /\ timer \in Timers /\ quiet \in BOOLEAN
    /\ detachable \in BOOLEAN /\ awaiting \in BOOLEAN /\ unread \in BOOLEAN
    /\ subscribers \in SUBSET Clients
    /\ outcome \in Outcome
    /\ queue \in [Clients -> Seq(Frame)]
    /\ base \in Nat /\ head \in Nat /\ tip \in Nat
    /\ parent \in Seq(Nat)
    /\ interrupted \in SUBSET Nat
    /\ turns \in Nat /\ cancels \in Nat

Init ==
    /\ lock = "free" /\ phase = "none"
    /\ frames = << >> /\ ended = FALSE /\ outcome = NoOutcome
    /\ quiet = FALSE /\ detachable = TRUE /\ base = 0
    /\ subscribers = {} /\ timer = "off" /\ queue = [c \in Clients |-> << >>]
    /\ head = 0 /\ parent = << >> /\ interrupted = {}
    /\ tip = 0 /\ awaiting = FALSE /\ unread = FALSE
    /\ turns = 0 /\ cancels = 0

Running == phase # "none"

\* The chronologically latest checkpoint (0: none).
latest == Len(parent)

-----------------------------------------------------------------------------
(* ActiveTurn: what emit, attach, detach and cancel do.                    *)

\* A frame kept for replay and put in every subscriber's queue.
Emit(f) ==
    /\ frames' = Append(frames, f)
    /\ ended' = (ended \/ f \in Finals)
    /\ queue' = [c \in Clients |-> IF c \in subscribers THEN Append(queue[c], f) ELSE queue[c]]

Quiesce == UNCHANGED <<frames, ended, queue>>

\* Mutant of Unseen: a quiet routine's chat is never marked unread.
UnseenQuiet == subscribers = {} /\ ~quiet

\* Nobody follows the turn, nor is it a quiet routine's that completed.
Unseen == subscribers = {} /\ ~(quiet /\ outcome.status = "completed")

\* `finally`: `_record_end` looks at the audience before it awaits `turn_ended`.
Record == IF Unseen THEN "recordUnread" ELSE "recordRead"

\* What is thrown into the task at the await it stands at; `cancel` itself
\* does nothing once the turn has sent its last frame.
Cancelled ==
    /\ ~ended
    /\ cancels < MaxCancels /\ cancels' = cancels + 1
    /\ \/ /\ phase \in {"policy", "stream", "read", "pausedStats", "doneStats"}
          /\ phase' = "cancelStats"
       \/ \* thrown inside the `except CancelledError` handler
          /\ phase = "cancelStats"
          /\ phase' = Record
       \/ \* thrown inside `finally`: what follows `_record_end` never runs
          /\ phase \in Recording \cup {"recorded"}
          /\ phase' = "stuck"

\* Mutant of Replay: a late subscriber is not sent what it missed.
NoReplay == << >>

\* What a late subscriber is sent first.
Replay == frames

Attach(c) ==
    /\ Running /\ c \notin subscribers
    /\ queue' = [queue EXCEPT ![c] = Replay]
    /\ subscribers' = subscribers \cup {c}
    /\ timer' = "off"
    /\ UNCHANGED <<lock, phase, turnVars, ckptVars, rowVars, turns, cancels>>

\* Mutant of TimerAfter: the last client to leave starts no timer.
NoTimerAfter(c) == timer

\* `_arm`, once the last subscriber is gone.
TimerAfter(c) ==
    IF subscribers = {c} /\ detachable /\ timer = "off" THEN "armed" ELSE timer

Detach(c) ==
    /\ Running /\ c \in subscribers
    /\ subscribers' = subscribers \ {c}
    /\ timer' = TimerAfter(c)
    /\ UNCHANGED <<lock, phase, turnVars, queue, ckptVars, rowVars, turns, cancels>>

\* A client's cancel frame, or the time limit of the routine run.
Cancel ==
    /\ subscribers # {} \/ RunLimit
    /\ Cancelled
    /\ UNCHANGED <<lock, turnVars, clientVars, ckptVars, rowVars, turns>>

\* Only the stream can last as long as the detached timeout; every other
\* await of the task is one short call.
Elapse ==
    /\ phase = "stream" /\ timer = "armed"
    /\ timer' = "old"
    /\ UNCHANGED <<lock, phase, turnVars, subscribers, queue, ckptVars, rowVars, turns, cancels>>

OnDetachedTimeout ==
    /\ timer = "old"
    /\ timer' = "off"
    /\ \/ Cancelled /\ subscribers = {}
       \/ (subscribers # {} \/ ended \/ phase = "stuck") /\ UNCHANGED <<phase, cancels>>
    /\ UNCHANGED <<lock, turnVars, subscribers, queue, ckptVars, rowVars, turns>>

-----------------------------------------------------------------------------
(* Starting a turn: the caller takes the lock, decides where the turn      *)
(* starts, and hands the lock to the task.                                 *)

Acquire ==
    /\ lock = "free" /\ turns < MaxTurns /\ latest < MaxCkpts
    /\ lock' = "caller"
    /\ UNCHANGED <<phase, turnVars, clientVars, ckptVars, rowVars, turns, cancels>>

\* No active tip: the run starts from the thread's latest checkpoint.
ActiveTip == IF tip = 0 THEN latest ELSE tip

\* The checkpoints strictly before k on its branch.
Before[k \in Nat] == IF k \in 1..latest /\ parent[k] \in 1..(k - 1)
                     THEN {parent[k]} \cup Before[parent[k]] ELSE {}

\* `_truncate_from_message`: the messages removed, as a new checkpoint.
Truncate ==
    /\ latest \in 1..(MaxCkpts - 2)
    /\ parent' = Append(parent, ActiveTip)

\* Where `start_from` lets the turn start: the active tip; for an edit in
\* `fork` mode a completed checkpoint before it; in `truncate` mode a new
\* checkpoint after it.
StartFrom(k) ==
    \/ k = ActiveTip /\ UNCHANGED parent
    \/ Branching /\ k \in Before[ActiveTip] \ interrupted /\ UNCHANGED parent
    \/ Branching /\ Truncate /\ k = latest + 1

Start(c) ==
    /\ lock = "caller"
    /\ \E k \in 0..MaxCkpts : StartFrom(k) /\ base' = k /\ head' = k
    /\ lock' = "turn" /\ phase' = "policy"
    /\ frames' = << >> /\ ended' = FALSE /\ outcome' = NoOutcome /\ quiet' = FALSE
    /\ detachable' \in BOOLEAN
    /\ subscribers' = {c} /\ timer' = "off"
    /\ queue' = [queue EXCEPT ![c] = << >>]
    /\ turns' = turns + 1 /\ cancels' = 0
    /\ UNCHANGED <<interrupted, rowVars>>

\* start_from found no such message, the delegation was refused, or the
\* starting state could not be read: the lock is still the caller's, and
\* a truncation already made stays.
StartFails ==
    /\ lock = "caller" /\ "start" \in Faults
    /\ lock' = "free"
    /\ UNCHANGED parent \/ (Branching /\ Truncate)
    /\ UNCHANGED <<phase, turnVars, clientVars, head, interrupted, rowVars, turns, cancels>>

-----------------------------------------------------------------------------
(* The task: `_run`, `_stream` and `_turn_end`.                            *)

\* Policy, delivered definition and row update are awaited in one go; then
\* turn_start is sent.
TurnStart ==
    /\ phase = "policy"
    /\ phase' = "stream"
    /\ quiet' \in BOOLEAN
    /\ awaiting' = FALSE
    /\ Quiesce
    /\ UNCHANGED <<lock, outcome, detachable, base, subscribers, timer, ckptVars,
                   tip, unread, turns, cancels>>

StreamFrame ==
    /\ phase = "stream" /\ Len(frames) < MaxFrames
    /\ Emit("delta")
    /\ UNCHANGED <<lock, phase, outcome, quiet, detachable, base, subscribers, timer,
                   ckptVars, rowVars, turns, cancels>>

\* The graph commits a step: a new checkpoint on the turn's branch.
Commit ==
    /\ phase = "stream" /\ latest < MaxCkpts
    /\ parent' = Append(parent, head) /\ head' = latest + 1
    /\ UNCHANGED <<lock, phase, turnVars, clientVars, interrupted, rowVars, turns, cancels>>

\* The graph stops on one or more interrupts, saved with its checkpoint.
Interrupt ==
    /\ phase = "stream" /\ head # base
    /\ interrupted' = interrupted \cup {head}
    /\ phase' = "read"
    /\ UNCHANGED <<lock, turnVars, clientVars, head, parent, rowVars, turns, cancels>>

StreamEnds ==
    /\ phase = "stream" /\ head # base
    /\ phase' = "read"
    /\ UNCHANGED <<lock, turnVars, clientVars, ckptVars, rowVars, turns, cancels>>

Pending == latest \in interrupted

\* After the stream the thread's latest state is read; an approval is sent
\* at once, its turn_end only after the turn's stats are stored.
ReadState ==
    /\ phase = "read"
    /\ phase' = IF Pending THEN "pausedStats" ELSE "doneStats"
    /\ IF Pending THEN Emit("approval_request") ELSE Quiesce
    /\ UNCHANGED <<lock, outcome, quiet, detachable, base, subscribers, timer, ckptVars,
                   rowVars, turns, cancels>>

TurnEnd ==
    /\ phase \in {"pausedStats", "doneStats"}
    /\ phase' = "persist"
    /\ outcome' = IF phase = "pausedStats"
                  THEN [status |-> "awaiting_approval", pending |-> TRUE]
                  ELSE [status |-> "completed", pending |-> FALSE]
    /\ Emit(outcome'.status)
    /\ UNCHANGED <<lock, quiet, detachable, base, subscribers, timer, ckptVars, rowVars,
                   turns, cancels>>

\* Mutant of CancelledTurnEnd: its stats are stored, its frame is not sent.
CancelledUnheard ==
    /\ phase = "cancelStats"
    /\ phase' = "cancelRead"
    /\ Quiesce
    /\ UNCHANGED <<lock, outcome, quiet, detachable, base, subscribers, timer, ckptVars, rowVars,
                   turns, cancels>>

\* `except CancelledError`: turn_end, then the pending approval is re-read.
CancelledTurnEnd ==
    /\ phase = "cancelStats"
    /\ phase' = "cancelRead"
    /\ Emit("cancelled")
    /\ UNCHANGED <<lock, outcome, quiet, detachable, base, subscribers, timer, ckptVars, rowVars,
                   turns, cancels>>

\* Mutant of CancelledOutcome: nothing is taken to be pending (before #189).
CancelledClean == [status |-> "cancelled", pending |-> FALSE]

CancelledOutcome == [status |-> "cancelled", pending |-> Pending]

CancelledReread ==
    /\ phase = "cancelRead"
    /\ phase' = "persist"
    /\ outcome' = CancelledOutcome
    /\ UNCHANGED <<lock, frames, ended, quiet, detachable, base, clientVars, ckptVars,
                   rowVars, turns, cancels>>

\* Mutant of NewTip: the latest state's parent_config is stored.
ParentTip == IF latest = 0 THEN tip ELSE parent[latest]

NewTip == IF latest = 0 THEN tip ELSE latest

\* `persist_active_tip` and `touch`.
PersistActiveTip ==
    /\ phase = "persist"
    /\ phase' = Record
    /\ tip' = NewTip
    /\ UNCHANGED <<lock, turnVars, clientVars, ckptVars, awaiting, unread, turns, cancels>>

\* An exception in the stream, or while the last frame's stats are stored:
\* an `error` frame, and nothing is persisted.  (`_run` also has a branch for
\* DelegationDenied, which nothing `_stream` calls raises.)
StreamFails ==
    /\ \/ phase = "policy" /\ "policy" \in Faults
       \/ phase \in {"stream", "read"} /\ "agent" \in Faults
       \/ phase \in {"pausedStats", "doneStats"} /\ "stats" \in Faults
    /\ phase' = Record
    /\ Emit("error")
    /\ UNCHANGED <<lock, outcome, quiet, detachable, base, subscribers, timer, ckptVars, rowVars,
                   turns, cancels>>

\* Mutant of AfterFailure: the tip is persisted outside the try/finally.
EscapesFinally == IF phase = "persist" THEN "stuck" ELSE Record

AfterFailure == Record

\* An exception inside the cancellation handler, or after it.
LateFailure ==
    /\ \/ phase = "cancelStats" /\ "stats" \in Faults
       \/ phase = "cancelRead" /\ "reread" \in Faults
       \/ phase = "persist" /\ "persist" \in Faults
    /\ phase' = AfterFailure
    /\ UNCHANGED <<lock, turnVars, clientVars, ckptVars, rowVars, turns, cancels>>

\* `turn_ended`'s UPDATE: `unread` may have been set before, and read since.
RowFlags ==
    /\ awaiting' = outcome.pending
    /\ unread' = (unread \/ phase = "recordUnread")

\* The row is written, or the call fails, which is logged and no more.
RecordEnd ==
    /\ phase \in Recording
    /\ RowFlags \/ ("record" \in Faults /\ UNCHANGED <<awaiting, unread>>)
    /\ phase' = "recorded"
    /\ UNCHANGED <<lock, turnVars, clientVars, ckptVars, tip, turns, cancels>>

\* Mutant of ReleaseLock: it is released on the normal path only.
ReleaseIfEnded == lock' = IF outcome.status = "error" THEN lock ELSE "free"

ReleaseLock == lock' = "free"

\* `turn_ended` has returned: the turn leaves `_active`, ends the queues of those who are
\* subscribed by now and releases the lock, without another await.
Finish ==
    /\ phase = "recorded"
    /\ phase' = "none" /\ ReleaseLock
    /\ queue' = [c \in Clients |-> IF c \in subscribers THEN Append(queue[c], "END")
                                   ELSE queue[c]]
    /\ subscribers' = {} /\ timer' = "off"
    /\ UNCHANGED <<turnVars, ckptVars, rowVars, turns, cancels>>

-----------------------------------------------------------------------------
(* The REST calls that write the thread's row beside its turns.            *)

MarkRead ==
    /\ unread /\ unread' = FALSE
    /\ UNCHANGED <<lock, phase, turnVars, clientVars, ckptVars, tip, awaiting, turns, cancels>>

\* PUT .../active_branch takes no lock and may name any branch's tip.
SetActiveBranch ==
    /\ Branching
    /\ tip' \in {k \in 1..latest : k \notin {parent[j] : j \in 1..latest}} \ {tip}
    /\ UNCHANGED <<lock, phase, turnVars, clientVars, ckptVars, awaiting, unread, turns, cancels>>

TaskStep ==
    \/ TurnStart \/ ReadState \/ TurnEnd \/ CancelledTurnEnd \/ CancelledReread
    \/ PersistActiveTip \/ RecordEnd \/ Finish

Next ==
    \/ Acquire \/ (\E c \in Clients : Start(c)) \/ StartFails
    \/ \E c \in Clients : Attach(c) \/ Detach(c)
    \/ Cancel \/ Elapse \/ OnDetachedTimeout
    \/ StreamFrame \/ Commit \/ Interrupt \/ StreamEnds
    \/ TaskStep \/ StreamFails \/ LateFailure
    \/ MarkRead \/ SetActiveBranch

Spec == Init /\ [][Next]_vars
-----------------------------------------------------------------------------
(* Fairness: the event loop resumes a task whose await has returned, store *)
(* calls return or fail, and timers fire.  Nothing is assumed of the       *)
(* model's stream, of clients or of callers.                               *)

FairSpec == Spec /\ WF_vars(TaskStep) /\ WF_vars(Elapse) /\ WF_vars(OnDetachedTimeout)

-----------------------------------------------------------------------------
(* Properties.                                                             *)

\* The thread's lock is the turn's for exactly as long as the turn is in
\* `_active`: handed over by `_start_turn`, released by `_run`'s finally.
LockIsTheTurns == (lock = "turn") <=> Running

NoFinal == \A i \in 1..Len(frames) : frames[i] \notin Finals
NoApproval == \A i \in 1..Len(frames) : frames[i] # "approval_request"

\* What the task's await says of the frames sent so far and of its audience:
\* an approval only after the stream, a last frame only as the last thing
\* `_run` and `_stream` send, nobody subscribed to a turn that is over.
TurnInv ==
    /\ LockIsTheTurns
    /\ ~Running => subscribers = {}
    /\ phase \in {"policy", "stream", "read"} => NoFinal /\ NoApproval
    /\ phase \in {"pausedStats", "doneStats", "cancelStats"} => NoFinal

\* The implementation of the channel: every subscriber, whenever it
\* attached, hears all frames in order, none after the last, and the end.
Channel == INSTANCE TurnChannel WITH
    open <- Running, log <- frames, following <- subscribers, heard <- queue
ImplementsChannel == Channel!Spec

\* A turn that is over sent a turn_end or an error, as `_follow_turn` relies on ("its turn_end
\* {"status": "cancelled"} still arrives through queue"), unless a second cancellation was
\* thrown into the handler of the first, before its turn_end.
EndIsHeard == (~Running /\ turns > 0 /\ cancels <= 1) => ended

\* A row that a turn's end leaves read: somebody was sent every frame of the turn, the last
\* included, whoever comes and leaves while the row is being written (or it was a quiet
\* routine's that completed).  Who leaves meanwhile is not sent END any more.
ReadMeansDelivered ==
    [][(/\ phase \in Recording /\ phase' = "recorded"
        /\ ~unread' /\ ~(quiet /\ outcome.status = "completed"))
         => \E c \in Clients : queue[c] = frames]_vars

\* Idle, the row's awaiting_approval says whether the branch the thread is on waits for an
\* answer, cancelled or not in between (#189), but after a second cancellation.
AwaitingIsTrue == (~Running /\ cancels <= 1) => (awaiting <=> ActiveTip \in interrupted)

\* A turn that has saved anything moves the thread's active tip to its own last checkpoint,
\* wherever it forked off, whatever a failed start truncated before it and wherever the user
\* moved the tip meanwhile: "chronological latest is this run's tip (per-thread lock)".  One
\* that is cancelled before it saves anything moves it to the latest of any branch.
TipIsTheTurns == [][(phase = "persist" /\ phase' \in Recording /\ tip' # tip /\ head # base)
                      => tip' = head]_vars

\* A turn nobody watches ends, even if the model never answers.
UnwatchedTurnEnds == []<>(~Running \/ subscribers # {} \/ ~detachable)

\* Cancelling ends the turn and gives the thread's lock back.
CancelReleases == (phase = "cancelStats") ~> (lock = "free")
=============================================================================
