------------------------- MODULE TurnRunner_proofs -------------------------
(***************************************************************************)
(* Proofs about TurnRunner, for any clients, faults and bounds: its type   *)
(* invariant, that the thread's lock is the turn's exactly while it runs,  *)
(* that it implements TurnChannel, and that what it says of a turn's end,  *)
(* of the approval that waits and of the active tip is so.  Then proofs    *)
(* about ChatSockets, for any tabs and bounds: what a tab shows and what   *)
(* it answers.                                                             *)
(***************************************************************************)
EXTENDS TurnRunner, ChatSockets, SequenceTheorems, TLAPS

\* Truncating or picking a start point leaves a sequence of parents.
LEMMA StartFromType ==
    ASSUME TypeOK, NEW k \in 0..MaxCkpts, StartFrom(k)
    PROVE  parent' \in Seq(Nat)
<1>1. latest \in Nat /\ ActiveTip \in Nat
  BY DEF TypeOK, latest, ActiveTip
<1>2. CASE UNCHANGED parent
  BY <1>2 DEF TypeOK
<1>3. CASE Truncate
  BY <1>1, <1>3 DEF TypeOK, Truncate
<1> QED  BY <1>2, <1>3 DEF StartFrom

\* Emitting a frame keeps the frames, the flag and the queues well typed.
LEMMA EmitType ==
    ASSUME TypeOK, NEW f \in Frame, Emit(f)
    PROVE  /\ frames' \in Seq(Frame) /\ ended' \in BOOLEAN
           /\ queue' \in [Clients -> Seq(Frame)]
BY DEF TypeOK, Emit

\* What `finally` awaits first.
LEMMA RecordPhase == Record \in Recording /\ Recording \subseteq Phases
BY DEF Record, Recording, Phases

\* Every variable keeps to its set, whatever interleaves (turn_runner.py).
THEOREM TypeCorrect == Spec => []TypeOK
<1>0. << >> \in Seq(Frame) /\ << >> \in Seq(Nat) /\ NoOutcome \in Outcome
  BY DEF NoOutcome, Outcome, Finals
<1>1. ASSUME Init PROVE TypeOK
  <2>1. queue \in [Clients -> Seq(Frame)]
    BY <1>0, <1>1 DEF Init
  <2>2. frames \in Seq(Frame) /\ parent \in Seq(Nat) /\ outcome \in Outcome
    BY <1>0, <1>1 DEF Init
  <2> QED  BY <1>1, <2>1, <2>2 DEF Init, TypeOK, Locks, Phases, Timers
<1>2. TypeOK /\ [Next]_vars => TypeOK'
  <2> SUFFICES ASSUME TypeOK, [Next]_vars PROVE TypeOK'
    OBVIOUS
  <2> USE DEF vars, turnVars, clientVars, ckptVars, rowVars
  <2>1. CASE Acquire
    BY <2>1 DEF Acquire, TypeOK, Locks
  <2>2. ASSUME NEW c \in Clients, Start(c) PROVE TypeOK'
    <3>1. PICK k \in 0..MaxCkpts : StartFrom(k) /\ base' = k /\ head' = k
      BY <2>2 DEF Start
    <3>2. k \in Nat
      BY <3>1, BoundsAssumption
    <3>3. parent' \in Seq(Nat)
      BY <3>1, StartFromType
    <3>4. queue' \in [Clients -> Seq(Frame)]
      BY <1>0, <2>2 DEF Start, TypeOK
    <3>5. frames' \in Seq(Frame) /\ outcome' \in Outcome
      BY <1>0, <2>2 DEF Start
    <3>6. /\ subscribers' \in SUBSET Clients /\ ended' \in BOOLEAN /\ quiet' \in BOOLEAN
          /\ detachable' \in BOOLEAN /\ awaiting' \in BOOLEAN /\ unread' \in BOOLEAN
          /\ lock' \in Locks /\ phase' \in Phases /\ timer' \in Timers
      BY <2>2 DEF Start, TypeOK, Locks, Phases, Timers
    <3>7. /\ base' \in Nat /\ head' \in Nat /\ tip' \in Nat
          /\ interrupted' \in SUBSET Nat /\ turns' \in Nat /\ cancels' \in Nat
      BY <2>2, <3>1, <3>2 DEF Start, TypeOK
    <3> QED  BY <3>3, <3>4, <3>5, <3>6, <3>7 DEF TypeOK
  <2>3. CASE StartFails
    <3>1. latest \in Nat /\ ActiveTip \in Nat
      BY DEF TypeOK, latest, ActiveTip
    <3>2. Append(parent, ActiveTip) \in Seq(Nat)
      BY <3>1 DEF TypeOK
    <3>3. parent' = parent \/ parent' = Append(parent, ActiveTip)
      BY <2>3 DEF StartFails, Truncate
    <3>4. parent' \in Seq(Nat)
      BY <3>2, <3>3 DEF TypeOK
    <3> QED  BY <2>3, <3>4 DEF StartFails, TypeOK, Locks
  <2>4. ASSUME NEW c \in Clients, Attach(c) PROVE TypeOK'
    BY <2>4 DEF Attach, Replay, TypeOK, Timers
  <2>5. ASSUME NEW c \in Clients, Detach(c) PROVE TypeOK'
    BY <2>5 DEF Detach, TimerAfter, TypeOK, Timers
  <2>6. CASE Cancel
    BY <2>6, RecordPhase DEF Cancel, Cancelled, TypeOK, Phases
  <2>7. CASE Elapse
    BY <2>7 DEF Elapse, TypeOK, Timers
  <2>8. CASE OnDetachedTimeout
    <3>1. Cancelled \/ UNCHANGED <<phase, cancels>>
      BY <2>8 DEF OnDetachedTimeout
    <3>2. Cancelled => phase' \in Phases /\ cancels' \in Nat
      BY RecordPhase DEF Cancelled, TypeOK, Phases
    <3>3. phase' \in Phases /\ cancels' \in Nat
      BY <3>1, <3>2 DEF TypeOK
    <3> QED  BY <2>8, <3>3 DEF OnDetachedTimeout, TypeOK, Timers
  <2>9. CASE StreamFrame
    BY <2>9, EmitType DEF StreamFrame, TypeOK, Frame
  <2>10. CASE Commit
    BY <2>10 DEF Commit, TypeOK, latest
  <2>11. CASE Interrupt
    BY <2>11 DEF Interrupt, TypeOK, Phases
  <2>12. CASE StreamEnds
    BY <2>12 DEF StreamEnds, TypeOK, Phases
  <2>13. CASE TurnStart
    BY <2>13 DEF TurnStart, Quiesce, TypeOK, Phases
  <2>14. CASE ReadState
    <3>1. frames' \in Seq(Frame) /\ ended' \in BOOLEAN /\ queue' \in [Clients -> Seq(Frame)]
      BY <2>14, EmitType DEF ReadState, Quiesce, TypeOK, Frame
    <3> QED  BY <2>14, <3>1 DEF ReadState, TypeOK, Phases
  <2>15. CASE TurnEnd
    <3>1. outcome' \in Outcome /\ outcome'.status \in Frame
      BY <2>15 DEF TurnEnd, Outcome, Frame, Finals, TurnEnds
    <3>2. frames' \in Seq(Frame) /\ ended' \in BOOLEAN /\ queue' \in [Clients -> Seq(Frame)]
      BY <2>15, <3>1, EmitType DEF TurnEnd
    <3> QED  BY <2>15, <3>1, <3>2 DEF TurnEnd, TypeOK, Phases
  <2>16. CASE CancelledTurnEnd
    BY <2>16, EmitType DEF CancelledTurnEnd, TypeOK, Phases, Frame, Finals, TurnEnds
  <2>17. CASE CancelledReread
    BY <2>17 DEF CancelledReread, CancelledOutcome, Pending, TypeOK, Phases, Outcome,
                 Finals, TurnEnds
  <2>18. CASE PersistActiveTip
    BY <2>18, RecordPhase DEF PersistActiveTip, NewTip, TypeOK, Phases, latest
  <2>19. CASE RecordEnd
    <3>1. awaiting' \in BOOLEAN /\ unread' \in BOOLEAN
      BY <2>19 DEF RecordEnd, RowFlags, TypeOK, Outcome
    <3> QED  BY <2>19, <3>1 DEF RecordEnd, TypeOK, Phases
  <2>20. CASE StreamFails
    BY <2>20, EmitType, RecordPhase DEF StreamFails, TypeOK, Phases, Frame, Finals
  <2>21. CASE Finish
    <3>1. queue' \in [Clients -> Seq(Frame)]
      BY <2>21 DEF Finish, TypeOK, Frame
    <3> QED  BY <2>21, <3>1 DEF Finish, ReleaseLock, TypeOK, Phases, Locks, Timers
  <2>22. CASE LateFailure
    BY <2>22, RecordPhase DEF LateFailure, AfterFailure, TypeOK, Phases
  <2>23. CASE MarkRead
    BY <2>23 DEF MarkRead, TypeOK
  <2>24. CASE SetActiveBranch
    BY <2>24 DEF SetActiveBranch, TypeOK, latest
  <2>25. CASE UNCHANGED vars
    BY <2>25 DEF TypeOK
  <2> QED
    BY <2>1, <2>2, <2>3, <2>4, <2>5, <2>6, <2>7, <2>8, <2>9, <2>10, <2>11, <2>12, <2>13,
       <2>14, <2>15, <2>16, <2>17, <2>18, <2>19, <2>20, <2>21, <2>22, <2>23, <2>24, <2>25
    DEF Next, TaskStep
<1> QED  BY <1>1, <1>2, PTL DEF Spec

-----------------------------------------------------------------------------

\* A frame that is not a last one leaves the turn without a last one.
LEMMA NoFinalAfter ==
    ASSUME TypeOK, NoFinal, NEW f \in Frame \ Finals, frames' = Append(frames, f)
    PROVE  NoFinal'
BY DEF TypeOK, NoFinal

LEMMA NoApprovalAfter ==
    ASSUME TypeOK, NoApproval, NEW f \in Frame \ {"approval_request"},
           frames' = Append(frames, f)
    PROVE  NoApproval'
BY DEF TypeOK, NoApproval

\* At every await the frames sent, the audience and the lock are as TurnInv
\* says (the lock handed over by start, released in _run's finally).
THEOREM TurnInvCorrect == Spec => []TurnInv
<1>1. Init => TurnInv
  BY DEF Init, TurnInv, LockIsTheTurns, Running
<1>2. TypeOK /\ TurnInv /\ [Next]_vars => TurnInv'
  <2> SUFFICES ASSUME TypeOK, TurnInv, [Next]_vars PROVE TurnInv'
    OBVIOUS
  <2> USE DEF vars, turnVars, clientVars, ckptVars, rowVars, TurnInv, LockIsTheTurns, Running
  <2>a. ASSUME UNCHANGED frames PROVE (NoFinal <=> NoFinal') /\ (NoApproval <=> NoApproval')
    BY <2>a DEF NoFinal, NoApproval
  <2>1. CASE Acquire
    BY <2>1, <2>a DEF Acquire
  <2>2. ASSUME NEW c \in Clients, Start(c) PROVE TurnInv'
    <3>1. NoFinal' /\ NoApproval'
      BY <2>2 DEF Start, NoFinal, NoApproval
    <3> QED  BY <2>2, <3>1 DEF Start
  <2>3. CASE StartFails
    BY <2>3, <2>a DEF StartFails
  <2>4. ASSUME NEW c \in Clients, Attach(c) PROVE TurnInv'
    BY <2>4, <2>a DEF Attach
  <2>5. ASSUME NEW c \in Clients, Detach(c) PROVE TurnInv'
    BY <2>5, <2>a DEF Detach
  <2>6. CASE Cancel
    BY <2>6, <2>a, RecordPhase DEF Cancel, Cancelled, Recording
  <2>7. CASE Elapse
    BY <2>7, <2>a DEF Elapse
  <2>8. CASE OnDetachedTimeout
    BY <2>8, <2>a, RecordPhase DEF OnDetachedTimeout, Cancelled, Recording
  <2>9. CASE StreamFrame
    BY <2>9, NoFinalAfter, NoApprovalAfter
    DEF StreamFrame, Emit, Frame, Finals, TurnEnds
  <2>10. CASE Commit
    BY <2>10, <2>a DEF Commit
  <2>11. CASE Interrupt
    BY <2>11, <2>a DEF Interrupt
  <2>12. CASE StreamEnds
    BY <2>12, <2>a DEF StreamEnds
  <2>13. CASE TurnStart
    BY <2>13, <2>a DEF TurnStart, Quiesce
  <2>14. CASE ReadState
    <3>1. CASE Pending
      BY <2>14, <3>1, NoFinalAfter DEF ReadState, Emit, Frame, Finals, TurnEnds
    <3>2. CASE ~Pending
      BY <2>14, <3>2, <2>a DEF ReadState, Quiesce
    <3> QED  BY <3>1, <3>2
  <2>15. CASE TurnEnd
    BY <2>15 DEF TurnEnd
  <2>16. CASE CancelledTurnEnd
    BY <2>16 DEF CancelledTurnEnd
  <2>17. CASE CancelledReread
    BY <2>17 DEF CancelledReread
  <2>18. CASE PersistActiveTip
    BY <2>18, RecordPhase DEF PersistActiveTip, Recording
  <2>19. CASE RecordEnd
    BY <2>19 DEF RecordEnd, Recording
  <2>20. CASE StreamFails
    BY <2>20, RecordPhase DEF StreamFails, Recording
  <2>21. CASE Finish
    BY <2>21 DEF Finish, ReleaseLock
  <2>22. CASE LateFailure
    BY <2>22, RecordPhase DEF LateFailure, AfterFailure, Recording
  <2>23. CASE MarkRead
    BY <2>23, <2>a DEF MarkRead
  <2>24. CASE SetActiveBranch
    BY <2>24, <2>a DEF SetActiveBranch
  <2>25. CASE UNCHANGED vars
    BY <2>25, <2>a
  <2> QED
    BY <2>1, <2>2, <2>3, <2>4, <2>5, <2>6, <2>7, <2>8, <2>9, <2>10, <2>11, <2>12, <2>13,
       <2>14, <2>15, <2>16, <2>17, <2>18, <2>19, <2>20, <2>21, <2>22, <2>23, <2>24, <2>25
    DEF Next, TaskStep
<1> QED  BY <1>1, <1>2, TypeCorrect, PTL DEF Spec

\* One turn at a time: the thread's lock is the turn's from the moment it is
\* in `_active` to the moment it leaves it.
COROLLARY LockExclusion == Spec => []LockIsTheTurns
<1>1. TurnInv => LockIsTheTurns
  BY DEF TurnInv
<1> QED  BY <1>1, TurnInvCorrect, PTL

-----------------------------------------------------------------------------

\* A frame sent by the task is said in the channel.
LEMMA EmitIsSay ==
    ASSUME TypeOK, Running, Running', NEW f \in Finals \cup {"delta", "approval_request"},
           NoFinal, NoApproval \/ f \in Finals, Emit(f), UNCHANGED subscribers
    PROVE  Channel!Next
<1>1. Channel!MaySay(f)
  BY DEF Channel!MaySay, NoFinal, NoApproval
<1>2. Channel!Say(f)
  BY <1>1 DEF Channel!Say, Emit
<1> QED  BY <1>2 DEF Channel!Next

\* A turn, whatever its task, its clients and the calls it makes do, is a
\* TurnChannel to those who follow it (attach, detach, emit, _finish).
THEOREM Refinement == Spec => ImplementsChannel
<1>1. Init => Channel!Init
  BY DEF Init, Channel!Init, Running
<1>2. TypeOK /\ TurnInv /\ TurnInv' /\ [Next]_vars => [Channel!Next]_(Channel!vars)
  <2> SUFFICES ASSUME TypeOK, TurnInv, TurnInv', [Next]_vars
               PROVE  Channel!Next \/ UNCHANGED Channel!vars
    OBVIOUS
  <2> USE DEF vars, turnVars, clientVars, ckptVars, rowVars, Running
  <2>a. ASSUME UNCHANGED <<frames, subscribers, queue>>, Running <=> Running'
        PROVE  UNCHANGED Channel!vars
    BY <2>a DEF Channel!vars
  <2>1. CASE Acquire
    BY <2>1, <2>a DEF Acquire
  <2>2. ASSUME NEW c \in Clients, Start(c) PROVE Channel!Next
    <3>1. Channel!Open(c)
      BY <2>2 DEF Start, Channel!Open, TurnInv, LockIsTheTurns
    <3> QED  BY <3>1 DEF Channel!Next
  <2>3. CASE StartFails
    BY <2>3, <2>a DEF StartFails
  <2>4. ASSUME NEW c \in Clients, Attach(c) PROVE Channel!Next
    <3>1. Channel!Join(c)
      BY <2>4 DEF Attach, Replay, Channel!Join
    <3> QED  BY <3>1 DEF Channel!Next
  <2>5. ASSUME NEW c \in Clients, Detach(c) PROVE Channel!Next
    <3>1. Channel!Leave(c)
      BY <2>5 DEF Detach, Channel!Leave
    <3> QED  BY <3>1 DEF Channel!Next
  <2>6. CASE Cancel
    BY <2>6, <2>a, RecordPhase DEF Cancel, Cancelled, Recording
  <2>7. CASE Elapse
    BY <2>7, <2>a DEF Elapse
  <2>8. CASE OnDetachedTimeout
    BY <2>8, <2>a, RecordPhase DEF OnDetachedTimeout, Cancelled, Recording
  <2>9. CASE StreamFrame
    BY <2>9, EmitIsSay DEF StreamFrame, TurnInv
  <2>10. CASE Commit
    BY <2>10, <2>a DEF Commit
  <2>11. CASE Interrupt
    BY <2>11, <2>a DEF Interrupt
  <2>12. CASE StreamEnds
    BY <2>12, <2>a DEF StreamEnds
  <2>13. CASE TurnStart
    BY <2>13, <2>a DEF TurnStart, Quiesce
  <2>14. CASE ReadState
    <3>1. CASE Pending
      BY <2>14, <3>1, EmitIsSay DEF ReadState, TurnInv
    <3>2. CASE ~Pending
      BY <2>14, <3>2, <2>a DEF ReadState, Quiesce
    <3> QED  BY <3>1, <3>2
  <2>15. CASE TurnEnd
    <3>1. outcome'.status \in Finals
      BY <2>15 DEF TurnEnd, Finals, TurnEnds
    <3> QED  BY <2>15, <3>1, EmitIsSay DEF TurnEnd, TurnInv
  <2>16. CASE CancelledTurnEnd
    BY <2>16, EmitIsSay DEF CancelledTurnEnd, TurnInv, Finals, TurnEnds
  <2>17. CASE CancelledReread
    BY <2>17, <2>a DEF CancelledReread
  <2>18. CASE PersistActiveTip
    BY <2>18, <2>a, RecordPhase DEF PersistActiveTip, Recording
  <2>19. CASE RecordEnd
    BY <2>19, <2>a DEF RecordEnd, Recording
  <2>20. CASE StreamFails
    <3>1. NoFinal
      BY <2>20 DEF StreamFails, TurnInv
    <3> QED  BY <2>20, <3>1, EmitIsSay, RecordPhase DEF StreamFails, Finals, Recording
  <2>21. CASE Finish
    <3>1. Channel!Close
      BY <2>21 DEF Finish, Channel!Close
    <3> QED  BY <3>1 DEF Channel!Next
  <2>22. CASE LateFailure
    BY <2>22, <2>a, RecordPhase DEF LateFailure, AfterFailure, Recording
  <2>23. CASE MarkRead
    BY <2>23, <2>a DEF MarkRead
  <2>24. CASE SetActiveBranch
    BY <2>24, <2>a DEF SetActiveBranch
  <2>25. CASE UNCHANGED vars
    BY <2>25, <2>a
  <2> QED
    BY <2>1, <2>2, <2>3, <2>4, <2>5, <2>6, <2>7, <2>8, <2>9, <2>10, <2>11, <2>12, <2>13,
       <2>14, <2>15, <2>16, <2>17, <2>18, <2>19, <2>20, <2>21, <2>22, <2>23, <2>24, <2>25
    DEF Next, TaskStep
<1> QED
  BY <1>1, <1>2, TypeCorrect, TurnInvCorrect, PTL DEF Spec, ImplementsChannel, Channel!Spec

-----------------------------------------------------------------------------
(* How a turn ends.                                                        *)

\* Past `_stream` and its handlers a last frame has been sent, or the first handler was
\* cancelled.
EndInv ==
    /\ phase \in Recording \cup {"cancelRead", "persist", "recorded", "stuck"} => ended \/ cancels > 1
    /\ phase = "cancelStats" => cancels > 0
    /\ EndIsHeard

LEMMA EndInit == Init => EndInv
BY DEF Init, EndInv, EndIsHeard, Running, Recording

LEMMA EndStep ==
    ASSUME "stats" \notin Faults, TypeOK, EndInv, [Next]_vars
    PROVE  EndInv'
<1> USE RecordPhase DEF vars, turnVars, clientVars, ckptVars, rowVars, EndInv, EndIsHeard, Running,
                       Recording
<1>a. cancels \in Nat /\ turns \in Nat /\ ended \in BOOLEAN
  BY DEF TypeOK
<1>1. CASE Acquire
  BY <1>1 DEF Acquire
<1>2. ASSUME NEW c \in Clients, Start(c) PROVE EndInv'
  BY <1>2 DEF Start
<1>3. CASE StartFails
  BY <1>3 DEF StartFails
<1>4. ASSUME NEW c \in Clients, Attach(c) PROVE EndInv'
  BY <1>4 DEF Attach
<1>5. ASSUME NEW c \in Clients, Detach(c) PROVE EndInv'
  BY <1>5 DEF Detach
<1>6. CASE Cancel
  BY <1>6, <1>a DEF Cancel, Cancelled
<1>7. CASE Elapse
  BY <1>7 DEF Elapse
<1>8. CASE OnDetachedTimeout
  BY <1>8, <1>a DEF OnDetachedTimeout, Cancelled
<1>9. CASE StreamFrame
  BY <1>9 DEF StreamFrame
<1>10. CASE Commit \/ Interrupt \/ StreamEnds
  BY <1>10 DEF Commit, Interrupt, StreamEnds
<1>11. CASE TurnStart \/ ReadState
  BY <1>11 DEF TurnStart, ReadState
<1>12. CASE TurnEnd
  BY <1>12 DEF TurnEnd, Emit, Finals, TurnEnds
<1>13. CASE CancelledTurnEnd
  BY <1>13 DEF CancelledTurnEnd, Emit, Finals, TurnEnds
<1>14. CASE CancelledReread \/ PersistActiveTip
  BY <1>14 DEF CancelledReread, PersistActiveTip
<1>15. CASE RecordEnd
  BY <1>15 DEF RecordEnd
<1>20. CASE Finish
  BY <1>20, <1>a DEF Finish
<1>16. CASE StreamFails
  BY <1>16 DEF StreamFails, Emit, Finals
<1>17. CASE LateFailure
  BY <1>17 DEF LateFailure, AfterFailure
<1>18. CASE MarkRead \/ SetActiveBranch
  BY <1>18 DEF MarkRead, SetActiveBranch
<1>19. CASE UNCHANGED vars
  BY <1>19
<1> QED
  BY <1>1, <1>2, <1>3, <1>4, <1>5, <1>6, <1>7, <1>8, <1>9, <1>10, <1>11, <1>12, <1>13,
     <1>14, <1>15, <1>16, <1>17, <1>18, <1>19, <1>20 DEF Next, TaskStep

\* A turn that is over has sent its turn_end or an error, unless it was cancelled twice, as long
\* as the stats of a cancelled turn can be stored: a second cancellation, or a failure, in the
\* `except CancelledError` handler skips the frame.
THEOREM EndHeard ==
    ASSUME "stats" \notin Faults
    PROVE  Spec => []EndIsHeard
<1>1. TypeOK /\ EndInv /\ [Next]_vars => EndInv'
  BY EndStep
<1>2. EndInv => EndIsHeard
  BY DEF EndInv
<1> QED  BY <1>1, <1>2, EndInit, TypeCorrect, PTL DEF Spec

-----------------------------------------------------------------------------
(* What a subscriber has heard.                                            *)

\* A subscriber's queue has every frame of the turn.
HeardAll == \A c \in subscribers : queue[c] = frames

LEMMA EmitHeard ==
    ASSUME TypeOK, HeardAll, NEW f \in Frame, Emit(f), UNCHANGED subscribers
    PROVE  HeardAll'
BY DEF TypeOK, HeardAll, Emit

LEMMA HeardStep ==
    ASSUME TypeOK, HeardAll, [Next]_vars
    PROVE  HeardAll'
<1> USE DEF vars, turnVars, clientVars, ckptVars, rowVars
<1>a. ASSUME UNCHANGED <<frames, queue, subscribers>>
      PROVE  HeardAll'
  BY <1>a DEF HeardAll
<1>1. ASSUME NEW c \in Clients, Start(c) PROVE HeardAll'
  BY <1>1 DEF Start, HeardAll, TypeOK
<1>2. ASSUME NEW c \in Clients, Attach(c) PROVE HeardAll'
  BY <1>2 DEF Attach, Replay, HeardAll, TypeOK
<1>3. ASSUME NEW c \in Clients, Detach(c) PROVE HeardAll'
  BY <1>3 DEF Detach, HeardAll
<1>4. CASE StreamFrame
  BY <1>4, EmitHeard DEF StreamFrame, Frame
<1>5. CASE ReadState
  BY <1>5, <1>a, EmitHeard DEF ReadState, Quiesce, Frame
<1>6. CASE TurnEnd
  <2>1. outcome'.status \in Frame
    BY <1>6 DEF TurnEnd, Frame, Finals, TurnEnds
  <2> QED  BY <1>6, <2>1, EmitHeard DEF TurnEnd
<1>7. CASE CancelledTurnEnd
  BY <1>7, EmitHeard DEF CancelledTurnEnd, Frame, Finals, TurnEnds
<1>8. CASE StreamFails
  BY <1>8, EmitHeard DEF StreamFails, Frame, Finals
<1>9. CASE Finish
  BY <1>9 DEF Finish, HeardAll
<1>10. CASE \/ Acquire \/ StartFails \/ Cancel \/ Elapse \/ OnDetachedTimeout
            \/ Commit \/ Interrupt \/ StreamEnds
  BY <1>10, <1>a DEF Acquire, StartFails, Cancel, Elapse, OnDetachedTimeout, Commit, Interrupt, StreamEnds
<1>11. CASE \/ TurnStart \/ CancelledReread \/ PersistActiveTip \/ LateFailure
            \/ RecordEnd \/ MarkRead \/ SetActiveBranch \/ UNCHANGED vars
  BY <1>11, <1>a DEF TurnStart, Quiesce, CancelledReread, PersistActiveTip, LateFailure, RecordEnd,
                     MarkRead, SetActiveBranch
<1> QED
  BY <1>1, <1>2, <1>3, <1>4, <1>5, <1>6, <1>7, <1>8, <1>9, <1>10, <1>11 DEF Next, TaskStep

\* Only the return of `turn_ended` takes the task past it.
LEMMA InRecording ==
    ASSUME phase \in Recording, phase' = "recorded", [Next]_vars
    PROVE  RecordEnd
<1> USE RecordPhase DEF vars, turnVars, clientVars, ckptVars, rowVars, Recording
<1>1. ~(\/ Acquire \/ StartFails \/ Elapse \/ \E c \in Clients : Attach(c) \/ Detach(c))
  BY DEF Acquire, StartFails, Elapse, Attach, Detach
<1>2. ~(\/ StreamFrame \/ Commit \/ Interrupt \/ StreamEnds \/ StreamFails \/ LateFailure)
  BY DEF StreamFrame, Commit, Interrupt, StreamEnds, StreamFails, LateFailure
<1>3. ~(\/ TurnStart \/ ReadState \/ TurnEnd \/ CancelledTurnEnd \/ CancelledReread \/ PersistActiveTip
        \/ Finish)
  BY DEF TurnStart, ReadState, TurnEnd, CancelledTurnEnd, CancelledReread, PersistActiveTip, Finish
<1>4. ~(MarkRead \/ SetActiveBranch \/ UNCHANGED vars)
  BY DEF MarkRead, SetActiveBranch
<1>5. ~(Cancel \/ OnDetachedTimeout)
  BY DEF Cancel, OnDetachedTimeout, Cancelled
<1>6. ~\E c \in Clients : Start(c)
  BY DEF Start
<1> QED  BY <1>1, <1>2, <1>3, <1>4, <1>5, <1>6 DEF Next, TaskStep

\* While a row is written that is not to be marked unread, somebody has all that was sent: who
\* leaves meanwhile keeps what it got, and nothing more is sent.
ReadHeard ==
    phase = "recordRead" =>
        (quiet /\ outcome.status = "completed") \/ \E c \in Clients : queue[c] = frames

LEMMA RecordHeard ==
    ASSUME TypeOK, HeardAll, phase' = Record, UNCHANGED <<subscribers, quiet, outcome>>, HeardAll',
           \A c \in Clients \ subscribers : queue'[c] = queue[c]
    PROVE  ReadHeard'
<1>1. CASE Unseen
  BY <1>1 DEF Record, ReadHeard
<1>2. CASE ~Unseen /\ subscribers # {}
  <2>1. PICK c \in subscribers : queue'[c] = frames'
    BY <1>2 DEF HeardAll
  <2> QED  BY <2>1 DEF ReadHeard, TypeOK
<1>3. CASE ~Unseen /\ subscribers = {}
  BY <1>3 DEF Unseen, ReadHeard
<1> QED  BY <1>1, <1>2, <1>3

LEMMA ReadHeardStep ==
    ASSUME TypeOK, HeardAll, HeardAll', ReadHeard, [Next]_vars
    PROVE  ReadHeard'
<1> USE DEF vars, turnVars, clientVars, ckptVars, rowVars
<1>a. ASSUME UNCHANGED <<frames, queue, quiet, outcome>>, phase' = phase \/ phase' # "recordRead"
      PROVE  ReadHeard'
  BY <1>a DEF ReadHeard
<1>1. ASSUME NEW c \in Clients, Start(c) PROVE ReadHeard'
  BY <1>1 DEF Start, ReadHeard
<1>2. ASSUME NEW c \in Clients, Attach(c) PROVE ReadHeard'
  BY <1>2 DEF Attach, Replay, ReadHeard, TypeOK
<1>3. CASE Cancel \/ OnDetachedTimeout
  <2>1. UNCHANGED <<frames, queue, quiet, outcome>>
    BY <1>3 DEF Cancel, OnDetachedTimeout
  <2>2. CASE phase' = Record /\ UNCHANGED subscribers
    BY <2>1, <2>2, RecordHeard
  <2>3. CASE ~(phase' = Record /\ UNCHANGED subscribers)
    <3>1. phase' = phase \/ phase' # "recordRead"
      BY <1>3, <2>3 DEF Cancel, OnDetachedTimeout, Cancelled
    <3> QED  BY <1>a, <2>1, <3>1
  <2> QED  BY <2>2, <2>3
<1>4. CASE StreamFrame \/ ReadState \/ TurnEnd \/ CancelledTurnEnd
  BY <1>4 DEF StreamFrame, ReadState, TurnEnd, CancelledTurnEnd, ReadHeard
<1>5. CASE PersistActiveTip
  BY <1>5, RecordHeard DEF PersistActiveTip
<1>6. CASE StreamFails
  <2>1. \A c \in Clients \ subscribers : queue'[c] = queue[c]
    BY <1>6 DEF StreamFails, Emit
  <2> QED  BY <1>6, <2>1, RecordHeard DEF StreamFails
<1>7. CASE LateFailure
  BY <1>7, RecordHeard DEF LateFailure, AfterFailure
<1>8. CASE \/ Acquire \/ StartFails \/ Elapse \/ Commit \/ Interrupt \/ StreamEnds
           \/ RecordEnd \/ MarkRead \/ SetActiveBranch \/ UNCHANGED vars
           \/ \E c \in Clients : Detach(c)
  BY <1>8, <1>a DEF Acquire, StartFails, Elapse, Commit, Interrupt, StreamEnds, RecordEnd, MarkRead,
                    SetActiveBranch, Detach
<1>9. CASE TurnStart \/ CancelledReread \/ Finish
  BY <1>9 DEF TurnStart, CancelledReread, Finish, ReadHeard
<1> QED
  BY <1>1, <1>2, <1>3, <1>4, <1>5, <1>6, <1>7, <1>8, <1>9 DEF Next, TaskStep

\* A turn whose end leaves its chat read was sent in full to somebody, or was a quiet routine's,
\* unless the row could not be written: `_record_end` looks at the audience before it awaits the
\* UPDATE, after the last frame was sent, and whoever comes or leaves meanwhile changes neither.
THEOREM ReadIsDelivered ==
    ASSUME "record" \notin Faults
    PROVE  Spec => ReadMeansDelivered
<1>1. Init => HeardAll /\ ReadHeard
  BY DEF Init, HeardAll, ReadHeard
<1>2. TypeOK /\ HeardAll /\ ReadHeard /\ [Next]_vars => (HeardAll /\ ReadHeard)'
  BY HeardStep, ReadHeardStep
<1>3. TypeOK /\ ReadHeard /\ [Next]_vars =>
        [(/\ phase \in Recording /\ phase' = "recorded"
          /\ ~unread' /\ ~(quiet /\ outcome.status = "completed"))
         => \E c \in Clients : queue[c] = frames]_vars
  <2> SUFFICES ASSUME TypeOK, ReadHeard, [Next]_vars, phase \in Recording, phase' = "recorded",
                      ~unread', ~(quiet /\ outcome.status = "completed")
               PROVE  \E c \in Clients : queue[c] = frames
    OBVIOUS
  <2>1. RecordEnd
    BY InRecording DEF Recording
  <2>2. unread' = (unread \/ phase = "recordUnread")
    BY <2>1 DEF RecordEnd, RowFlags
  <2> QED  BY <2>2 DEF Recording, ReadHeard
<1> QED  BY <1>1, <1>2, <1>3, TypeCorrect, PTL DEF Spec, ReadMeansDelivered

-----------------------------------------------------------------------------
(* Where a thread is between its turns.                                    *)

\* One branch, and turns whose calls do not fail, once they are started.
OneBranch == ~Branching /\ Faults \subseteq {"start"}

\* What a turn holds pending is what the latest checkpoint has, and once the row is written it
\* says so too and its tip is that checkpoint, unless the turn was cancelled twice.
Straight ==
    /\ tip <= latest
    /\ phase = "pausedStats" => Pending
    /\ phase = "doneStats" => ~Pending
    /\ phase = "persist" => (outcome.pending <=> Pending)
    /\ phase \in Recording \union {"recorded"} /\ cancels <= 1 =>
          tip \in {0, latest} /\ (outcome.pending <=> Pending)
    /\ phase \in {"recorded", "none"} /\ cancels <= 1 =>
          tip \in {0, latest} /\ (awaiting <=> Pending)

LEMMA StraightInit == Init => Straight
<1> SUFFICES ASSUME Init PROVE Straight
  OBVIOUS
<1>1. latest = 0
  BY DEF Init, latest
<1> QED  BY <1>1 DEF Init, Straight, Pending, Recording

\* The row, the checkpoints and what the task holds stay.
LEMMA StraightFrame ==
    ASSUME Straight, UNCHANGED <<tip, awaiting, parent, interrupted, outcome>>,
           \/ phase' = phase /\ cancels' = cancels
           \/ phase' \in {"policy", "stream", "read", "cancelStats", "cancelRead", "stuck"}
    PROVE  Straight'
BY DEF Straight, Pending, latest, Recording

LEMMA StraightStep ==
    ASSUME OneBranch, TypeOK, TurnInv, EndInv, Straight, [Next]_vars
    PROVE  Straight'
<1> USE DEF vars, turnVars, clientVars, ckptVars, rowVars
<1>1. latest \in Nat /\ tip \in Nat /\ outcome \in Outcome /\ awaiting \in BOOLEAN /\ cancels \in Nat
  BY DEF TypeOK, latest
<1>2. ~Branching /\ \A f \in FaultKinds : f # "start" => f \notin Faults
  BY DEF OneBranch
<1>3. ASSUME NEW c \in Clients, Start(c) PROVE Straight'
  <2>1. UNCHANGED <<parent, interrupted, tip, awaiting>> /\ phase' = "policy"
    BY <1>2, <1>3 DEF Start, StartFrom
  <2> QED  BY <2>1 DEF Straight, Pending, latest, Recording
<1>4. CASE Acquire \/ StartFails \/ Elapse \/ StreamFrame \/ StreamEnds \/ MarkRead \/ UNCHANGED vars
  BY <1>2, <1>4, StraightFrame
  DEF Acquire, StartFails, Elapse, StreamFrame, StreamEnds, MarkRead
<1>5. ASSUME NEW c \in Clients, Attach(c) \/ Detach(c) PROVE Straight'
  BY <1>5, StraightFrame DEF Attach, Detach
<1>6. CASE Cancel \/ OnDetachedTimeout
  <2>1. UNCHANGED <<tip, awaiting, parent, interrupted, outcome>>
    BY <1>6 DEF Cancel, OnDetachedTimeout
  <2>2. (phase' = phase /\ cancels' = cancels) \/ Cancelled
    BY <1>6 DEF Cancel, OnDetachedTimeout
  <2>3. CASE Cancelled /\ phase # "cancelStats"
    BY <2>1, <2>3, StraightFrame DEF Cancelled
  <2>4. CASE Cancelled /\ phase = "cancelStats"
    <3>1. cancels' = cancels + 1 /\ phase' = Record
      BY <2>4 DEF Cancelled, Recording
    <3>2. ~(cancels' <= 1) /\ phase' \in Recording
      BY <1>1, <2>4, <3>1, RecordPhase DEF EndInv
    <3> QED  BY <1>1, <2>1, <3>2 DEF Straight, Pending, latest, Recording
  <2>5. CASE phase' = phase /\ cancels' = cancels
    BY <2>1, <2>5, StraightFrame
  <2> QED  BY <2>2, <2>3, <2>4, <2>5
<1>7. CASE Commit
  <2>1. /\ parent' = Append(parent, head) /\ phase = "stream"
        /\ UNCHANGED <<phase, outcome, tip, awaiting, interrupted>>
    BY <1>7 DEF Commit
  <2>2. latest' = latest + 1
    BY <2>1 DEF TypeOK, latest
  <2> QED  BY <1>1, <2>1, <2>2 DEF Straight, Recording
<1>8. CASE Interrupt
  <2>1. /\ phase' = "read" /\ UNCHANGED <<outcome, tip, awaiting, parent>>
    BY <1>8 DEF Interrupt
  <2> QED  BY <2>1 DEF Straight, latest, Recording
<1>9. CASE TurnStart
  <2>1. phase' = "stream" /\ UNCHANGED <<outcome, tip, parent, interrupted>>
    BY <1>9 DEF TurnStart
  <2> QED  BY <2>1 DEF Straight, latest, Recording
<1>10. CASE ReadState
  <2>1. /\ UNCHANGED <<outcome, tip, awaiting, parent, interrupted>>
        /\ phase' = IF Pending THEN "pausedStats" ELSE "doneStats"
    BY <1>10 DEF ReadState
  <2> QED  BY <2>1 DEF Straight, Pending, latest, Recording
<1>11. CASE TurnEnd
  <2>1. /\ phase' = "persist" /\ UNCHANGED <<tip, awaiting, parent, interrupted>>
        /\ \/ phase = "pausedStats" /\ outcome'.pending = TRUE
           \/ phase = "doneStats" /\ outcome'.pending = FALSE
    BY <1>11 DEF TurnEnd
  <2> QED  BY <2>1 DEF Straight, Pending, latest, Recording
<1>12. CASE CancelledTurnEnd
  BY <1>12, StraightFrame DEF CancelledTurnEnd
<1>13. CASE CancelledReread
  <2>1. /\ phase' = "persist" /\ UNCHANGED <<tip, awaiting, parent, interrupted>>
        /\ outcome'.pending = Pending
    BY <1>13 DEF CancelledReread, CancelledOutcome
  <2> QED  BY <2>1 DEF Straight, Pending, latest, Recording
<1>14. CASE PersistActiveTip
  <2>1. /\ phase = "persist" /\ phase' \in Recording /\ tip' = NewTip
        /\ UNCHANGED <<outcome, awaiting, parent, interrupted>>
    BY <1>14, RecordPhase DEF PersistActiveTip
  <2>2. tip' \in {0, latest} /\ tip' <= latest
    BY <1>1, <2>1 DEF NewTip, Straight
  <2> QED  BY <2>1, <2>2 DEF Straight, Pending, latest, Recording
<1>15. CASE RecordEnd
  <2>1. "record" \notin Faults
    BY <1>2 DEF FaultKinds
  <2>2. /\ phase \in Recording /\ phase' = "recorded" /\ awaiting' = outcome.pending
        /\ UNCHANGED <<outcome, tip, parent, interrupted, cancels>>
    BY <1>15, <2>1 DEF RecordEnd, RowFlags
  <2> QED  BY <2>2 DEF Straight, Pending, latest, Recording
<1>16. CASE Finish
  <2>1. /\ phase = "recorded" /\ phase' = "none"
        /\ UNCHANGED <<tip, awaiting, parent, interrupted, outcome, cancels>>
    BY <1>16 DEF Finish
  <2> QED  BY <2>1 DEF Straight, Pending, latest, Recording
<1>17. ~StreamFails /\ ~LateFailure /\ ~SetActiveBranch
  BY <1>2 DEF StreamFails, LateFailure, SetActiveBranch, FaultKinds
<1> QED
  BY <1>3, <1>4, <1>5, <1>6, <1>7, <1>8, <1>9, <1>10, <1>11, <1>12, <1>13, <1>14, <1>15, <1>16, <1>17
  DEF Next, TaskStep

LEMMA StraightAlways ==
    ASSUME OneBranch
    PROVE  Spec => [](TypeOK /\ TurnInv /\ EndInv /\ Straight)
<1>1. "stats" \notin Faults
  BY DEF OneBranch
<1>2. TypeOK /\ EndInv /\ [Next]_vars => EndInv'
  BY <1>1, EndStep
<1>3. TypeOK /\ TurnInv /\ EndInv /\ Straight /\ [Next]_vars => Straight'
  BY StraightStep
<1> QED  BY <1>2, <1>3, EndInit, StraightInit, TypeCorrect, TurnInvCorrect, PTL DEF Spec

\* Between turns the row says whether the branch the thread is on waits for an answer, on a
\* thread of one branch whose turns' calls do not fail, unless the last turn was cancelled twice:
\* a cancelled turn reads what is pending again (`_turn_end`), as a turn may be cancelled after
\* its interrupt was saved.
THEOREM AwaitingTrue ==
    ASSUME OneBranch
    PROVE  Spec => []AwaitingIsTrue
<1>1. ASSUME TypeOK, Straight
      PROVE  AwaitingIsTrue
  <2>1. ASSUME ~Running, cancels <= 1
        PROVE  ActiveTip = latest /\ (awaiting <=> Pending)
    <3>1. latest \in Nat /\ tip \in Nat
      BY <1>1 DEF TypeOK, latest
    <3>2. phase = "none"
      BY <2>1 DEF Running
    <3> QED  BY <1>1, <2>1, <3>1, <3>2 DEF Straight, ActiveTip
  <2> QED  BY <1>1, <2>1 DEF AwaitingIsTrue, Pending
<1> QED  BY <1>1, StraightAlways, PTL

\* A turn that has saved a checkpoint of its own saved the thread's latest one: the lock keeps
\* others from adding to the thread, a start that fails after its truncation included.
OwnIsLatest == Running /\ head # base => head = latest

LEMMA OwnStep ==
    ASSUME TypeOK, TurnInv, OwnIsLatest, [Next]_vars
    PROVE  OwnIsLatest'
<1> USE DEF vars, turnVars, clientVars, ckptVars, rowVars
<1>1. ASSUME NEW c \in Clients, Start(c) PROVE OwnIsLatest'
  BY <1>1 DEF Start, OwnIsLatest
<1>2. CASE Commit
  <2>1. parent' = Append(parent, head) /\ head' = latest + 1
    BY <1>2 DEF Commit
  <2>2. latest' = latest + 1
    BY <2>1 DEF TypeOK, latest
  <2> QED  BY <2>1, <2>2 DEF OwnIsLatest
<1>3. CASE StartFails
  <2>1. ~Running /\ phase' = phase
    BY <1>3 DEF StartFails, TurnInv, LockIsTheTurns
  <2> QED  BY <2>1 DEF OwnIsLatest, Running
<1>4. ASSUME UNCHANGED <<head, base, parent>>, Running' => Running
      PROVE  OwnIsLatest'
  BY <1>4 DEF OwnIsLatest, latest
<1>5. ASSUME NEW c \in Clients, Attach(c) \/ Detach(c) PROVE OwnIsLatest'
  BY <1>4, <1>5 DEF Attach, Detach, Running
<1>6. CASE Acquire \/ Elapse \/ StreamFrame \/ Interrupt \/ StreamEnds \/ MarkRead \/ SetActiveBranch \/ UNCHANGED vars
  BY <1>4, <1>6 DEF Acquire, Elapse, StreamFrame, Interrupt, StreamEnds, MarkRead, SetActiveBranch, Running
<1>7. CASE Cancel \/ OnDetachedTimeout
  BY <1>4, <1>7 DEF Cancel, OnDetachedTimeout, Cancelled, Running, Recording
<1>8. CASE TurnStart \/ ReadState \/ TurnEnd \/ CancelledTurnEnd \/ CancelledReread
  BY <1>4, <1>8 DEF TurnStart, ReadState, TurnEnd, CancelledTurnEnd, CancelledReread, Running
<1>9. CASE PersistActiveTip \/ RecordEnd \/ Finish \/ StreamFails \/ LateFailure
  BY <1>4, <1>9 DEF PersistActiveTip, RecordEnd, Finish, StreamFails, LateFailure, Running, Recording
<1> QED  BY <1>1, <1>2, <1>3, <1>5, <1>6, <1>7, <1>8, <1>9 DEF Next, TaskStep

\* Whatever forks, edits and switches of the branch there are, and whatever fails: a turn that
\* has saved anything moves the active tip only to where that turn itself got, as the latest
\* checkpoint `persist_active_tip` reads is then the run's own.
THEOREM TipMovesWithTurn == Spec => TipIsTheTurns
<1>1. Init => OwnIsLatest
  BY DEF Init, OwnIsLatest, Running
<1>2. TypeOK /\ TurnInv /\ OwnIsLatest /\ [Next]_vars => OwnIsLatest'
  BY OwnStep
<1>3. ASSUME TypeOK, OwnIsLatest, [Next]_vars
      PROVE  [(phase = "persist" /\ phase' \in Recording /\ tip' # tip /\ head # base) => tip' = head]_vars
  <2> SUFFICES ASSUME phase = "persist", phase' \in Recording, tip' # tip, head # base
               PROVE  tip' = head
    OBVIOUS
  <2> USE DEF vars, turnVars, clientVars, ckptVars, rowVars
  <2>1. head = latest
    BY <1>3 DEF OwnIsLatest, Running
  <2>2. PersistActiveTip
    <3>1. ~(\/ Acquire \/ StartFails \/ Elapse \/ \E c \in Clients : Start(c) \/ Attach(c) \/ Detach(c))
      BY DEF Acquire, StartFails, Elapse, Start, Attach, Detach
    <3>2. ~(\/ StreamFrame \/ Commit \/ Interrupt \/ StreamEnds \/ StreamFails \/ LateFailure)
      BY DEF StreamFrame, Commit, Interrupt, StreamEnds, StreamFails, LateFailure
    <3>3. ~(\/ TurnStart \/ ReadState \/ TurnEnd \/ CancelledTurnEnd \/ CancelledReread \/ RecordEnd \/ Finish)
      BY DEF TurnStart, ReadState, TurnEnd, CancelledTurnEnd, CancelledReread, RecordEnd, Finish
    <3>4. ~(MarkRead \/ SetActiveBranch \/ UNCHANGED vars)
      BY DEF MarkRead, SetActiveBranch, Recording
    <3>5. ~(Cancel \/ OnDetachedTimeout)
      BY DEF Cancel, OnDetachedTimeout
    <3> QED  BY <1>3, <3>1, <3>2, <3>3, <3>4, <3>5 DEF Next, TaskStep
  <2>3. tip' = IF latest = 0 THEN tip ELSE latest
    BY <2>2 DEF PersistActiveTip, NewTip
  <2> QED  BY <2>1, <2>3
<1> QED  BY <1>1, <1>2, <1>3, TypeCorrect, TurnInvCorrect, PTL DEF Spec, TipIsTheTurns

-----------------------------------------------------------------------------
(* ChatSockets: the parts of the invariant.  A tab shows what waits once   *)
(* its turn's frames are read, because an approval is in the queue of      *)
(* frames, on the page or answered, and nothing follows the last frame.    *)

Items(q) == {q[i] : i \in 1 .. Len(q)}

\* Nothing follows a last frame.
LastLast(q) == \A i \in 1 .. Len(q) : q[i].is \in ChatEnds => i = Len(q)

Approval(p) == [is |-> "approval", of |-> p]
Answer(p)   == [is |-> "answer", of |-> p]

\* A frame that announces an approval announces this one.
Announces(q, p) == \A f \in Items(q) : f.is = "approval" => f.of = p

\* The turn's approval has been announced, and its end leaves it waiting.
Announced(g) == g.at = "asked" \/ (g.at = "ended" /\ g.status = "awaiting")

\* Of a turn: what it has sent.
GoingOK(g) ==
    /\ g.at \in {"running", "paused"} => \A f \in Items(g.sent) : f.is # "approval"
    /\ Announces(g.sent, g.pending) /\ LastLast(g.sent)
    /\ Announced(g) => Approval(g.pending) \in Items(g.sent)
    /\ g.at = "ended" => g.status \in ChatEnds /\ (g.status = "completed" => g.pending = 0)
    /\ g.at # "ended" => \A f \in Items(g.sent) : f.is \notin ChatEnds

Follows(s) == s.at \in {"following", "stopping", "over", "stopped"}

\* A page shows an approval, or has answered it and the answer is on its way or held.
Shows(s, pg, p) == p # 0 => pg.card = p \/ p \in s.deferred \/ Answer(p) \in Items(pg.wire)

\* Of a socket that follows a turn, and while it is not told how that turn ended, of the turn.
FollowOK(s, pg, g) ==
    LET p == IF s.outcome = "none" THEN g.pending ELSE s.left IN
    /\ LastLast(s.queue) /\ Announces(s.queue, p)
    /\ s.at \in {"over", "stopped"} => s.queue = << >>
    /\ s.outcome = "none" => /\ g.at # "none"
                             /\ g.at \in {"running", "paused"} => \A f \in Items(s.queue) : f.is # "approval"
                             /\ g.at # "ended" => /\ s.at \notin {"over", "stopped"}
                                                  /\ \A f \in Items(s.queue) : f.is \notin ChatEnds
    /\ (s.outcome = "none" /\ Announced(g)) \/ s.outcome = "awaiting"
       => Approval(p) \in Items(s.queue) \/ Shows(s, pg, p)
    /\ s.outcome = "completed" => s.left = 0

\* Of a tab that was told of every turn's end: what it knows to wait is what waits.
TabTold(s, pg, w, g) ==
    /\ s.at \in {"accepted", "idle"} => s.pending = w
    /\ s.at = "starting" => s.starts \in {0, w}
    /\ s.at \in {"loaded", "accepted"} /\ g.at = "none" => Shows(s, pg, w)
    /\ s.at = "idle" => Shows(s, pg, w)
    /\ Follows(s) /\ s.outcome \notin {"none", "error"} =>
          /\ s.left = w
          /\ s.outcome = "cancelled" /\ s.left # 0 => s.at \in {"stopping", "stopped"}

\* A page is busy with what it has asked, once no turn is followed.
BusyOK(s, pg) ==
    s.at \in {"loaded", "accepted", "idle", "over", "stopped"} /\ pg.busy =>
        \E f \in Items(pg.wire) : f.is \in {"message", "answer"}

TabOK(s, pg, told, w, g) ==
    /\ IF Follows(s) THEN FollowOK(s, pg, g) ELSE s.outcome = "none"
    /\ BusyOK(s, pg)
    /\ told => TabTold(s, pg, w, g)

ChatInv ==
    /\ ChatTypeOK /\ GoingOK(going)
    /\ \A t \in Tabs : TabOK(socket[t], page[t], t \notin missed, waits, going)
    /\ AnswersItsOwn

-----------------------------------------------------------------------------
(* Sequences of frames.                                                    *)

LEMMA NoItems == Items(<< >>) = {} /\ LastLast(<< >>) /\ \A p : Announces(<< >>, p)
<1>1. Len(<< >>) = 0
  OBVIOUS
<1>2. 1 .. 0 = {}
  OBVIOUS
<1> QED  BY <1>1, <1>2 DEF Items, LastLast, Announces

LEMMA OneMore ==
    ASSUME NEW S, NEW q \in Seq(S), NEW f \in S
    PROVE  /\ Append(q, f) \in Seq(S) /\ Items(Append(q, f)) = Items(q) \union {f}
           /\ (\A x \in Items(q) : x.is \notin ChatEnds) => LastLast(Append(q, f))
<1>1. /\ Append(q, f) \in Seq(S) /\ Len(Append(q, f)) = Len(q) + 1 /\ Append(q, f)[Len(q) + 1] = f
      /\ \A i \in 1 .. Len(q) : Append(q, f)[i] = q[i]
      /\ Len(q) \in Nat
  BY AppendProperties
<1>2. 1 .. Len(Append(q, f)) = 1 .. Len(q) \union {Len(q) + 1}
  BY <1>1
<1>3. Items(Append(q, f)) = Items(q) \union {f}
  <2>1. \A i \in 1 .. Len(Append(q, f)) : Append(q, f)[i] \in Items(q) \union {f}
    BY <1>1, <1>2 DEF Items
  <2>2. \A x \in Items(q) \union {f} : \E i \in 1 .. Len(Append(q, f)) : x = Append(q, f)[i]
    BY <1>1, <1>2 DEF Items
  <2> QED  BY <2>1, <2>2 DEF Items
<1>4. (\A x \in Items(q) : x.is \notin ChatEnds) => LastLast(Append(q, f))
  BY <1>1, <1>2 DEF Items, LastLast
<1> QED  BY <1>1, <1>3, <1>4

LEMMA OneLess ==
    ASSUME NEW S, NEW q \in Seq(S), q # << >>
    PROVE  /\ Head(q) \in S /\ Tail(q) \in Seq(S) /\ Items(q) = Items(Tail(q)) \union {Head(q)}
           /\ LastLast(q) => LastLast(Tail(q)) /\ (Head(q).is \in ChatEnds => Tail(q) = << >>)
<1>1. /\ Len(q) \in Nat \ {0} /\ Head(q) = q[1] /\ Head(q) \in S /\ Tail(q) \in Seq(S) /\ Len(Tail(q)) = Len(q) - 1
      /\ \A i \in 1 .. Len(Tail(q)) : Tail(q)[i] = q[i + 1]
  <2>1. Len(q) \in Nat \ {0}
    BY EmptySeq, LenProperties
  <2> QED  BY <2>1, HeadTailProperties
<1>0. Len(Tail(q)) = Len(q) - 1 /\ Len(q) \in Nat
  BY <1>1
<1>2. Items(q) = Items(Tail(q)) \union {Head(q)}
  <2>1. \A i \in 1 .. Len(q) : i = 1 \/ (i - 1 \in 1 .. Len(Tail(q)) /\ Tail(q)[i - 1] = q[i])
    BY <1>1
  <2>2. \A i \in 1 .. Len(Tail(q)) : i + 1 \in 1 .. Len(q) /\ Tail(q)[i] = q[i + 1]
    BY <1>1
  <2>3. 1 \in 1 .. Len(q)
    BY <1>1
  <2>4. Items(q) \subseteq Items(Tail(q)) \union {Head(q)}
    BY <1>1, <2>1 DEF Items
  <2>5. Items(Tail(q)) \union {Head(q)} \subseteq Items(q)
    BY <1>1, <2>2, <2>3 DEF Items
  <2> QED  BY <2>4, <2>5
<1>3. ASSUME LastLast(q)
      PROVE  LastLast(Tail(q)) /\ (Head(q).is \in ChatEnds => Tail(q) = << >>)
  <2>1. \A i \in 1 .. Len(Tail(q)) : i + 1 \in 1 .. Len(q) /\ Tail(q)[i] = q[i + 1]
    BY <1>1
  <2>2. ASSUME NEW i \in 1 .. Len(Tail(q)), Tail(q)[i].is \in ChatEnds
        PROVE  i = Len(Tail(q))
    <3>1. i + 1 \in 1 .. Len(q) /\ q[i + 1].is \in ChatEnds
      BY <2>1, <2>2
    <3>2. i + 1 = Len(q)
      BY <1>3, <3>1 DEF LastLast
    <3> DEFINE n == Len(q)
               m == Len(Tail(q))
    <3>3. i \in 1 .. m /\ m = n - 1 /\ n \in Nat /\ i + 1 = n
      BY <1>0, <2>2, <3>2
    <3> HIDE DEF n, m
    <3>4. i = m
      BY <3>3
    <3> QED  BY <3>4 DEF m
  <2>3. ASSUME Head(q).is \in ChatEnds
        PROVE  Len(Tail(q)) = 0
    <3>1. 1 \in 1 .. Len(q) /\ q[1].is \in ChatEnds
      BY <1>1, <2>3
    <3> DEFINE n == Len(q)
               m == Len(Tail(q))
    <3>2. 1 = n /\ m = n - 1
      BY <1>0, <1>3, <3>1 DEF LastLast
    <3> HIDE DEF n, m
    <3>3. m = 0
      BY <3>2
    <3> QED  BY <3>3 DEF m
  <2>4. LastLast(Tail(q))
    BY <2>2 DEF LastLast
  <2> QED  BY <1>1, <2>4, <2>3, EmptySeq
<1> QED  BY <1>1, <1>2, <1>3

LEMMA OneBefore ==
    ASSUME NEW S, NEW q \in Seq(S), NEW f \in S
    PROVE  /\ <<f>> \o q \in Seq(S) /\ Items(<<f>> \o q) = Items(q) \union {f}
           /\ LastLast(q) /\ f.is \notin ChatEnds => LastLast(<<f>> \o q)
<1> DEFINE r == <<f>> \o q
<1>1. <<f>> \in Seq(S) /\ Len(<<f>>) = 1 /\ <<f>>[1] = f /\ Len(q) \in Nat
  OBVIOUS
<1>2. /\ r \in Seq(S) /\ Len(r) = Len(q) + 1 /\ r[1] = f
      /\ \A i \in 1 .. Len(q) : r[i + 1] = q[i]
  BY <1>1, ConcatProperties
<1> HIDE DEF r
<1>3. \A i \in 1 .. Len(r) : i = 1 \/ (i - 1 \in 1 .. Len(q) /\ q[i - 1] = r[i])
  BY <1>1, <1>2
<1>4. \A i \in 1 .. Len(q) : i + 1 \in 1 .. Len(r)
  BY <1>1, <1>2
<1>5. 1 \in 1 .. Len(r)
  BY <1>1, <1>2
<1>6. ASSUME NEW x \in Items(r)
      PROVE  x \in Items(q) \union {f}
  <2>1. PICK i \in 1 .. Len(r) : x = r[i]
    BY DEF Items
  <2> QED  BY <1>2, <1>3, <2>1 DEF Items
<1>7. Items(q) \union {f} \subseteq Items(r)
  BY <1>2, <1>4, <1>5 DEF Items
<1>8. ASSUME LastLast(q), f.is \notin ChatEnds, NEW i \in 1 .. Len(r), r[i].is \in ChatEnds
      PROVE  i = Len(r)
  <2>1. i - 1 \in 1 .. Len(q) /\ q[i - 1].is \in ChatEnds
    BY <1>2, <1>3, <1>8
  <2>2. i - 1 = Len(q)
    BY <1>8, <2>1 DEF LastLast
  <2> QED  BY <1>2, <2>2
<1>9. LastLast(q) /\ f.is \notin ChatEnds => LastLast(r)
  BY <1>8 DEF LastLast
<1> QED  BY <1>2, <1>6, <1>7, <1>9 DEF r

-----------------------------------------------------------------------------
(* One tab's steps.                                                        *)

LEMMA ChatTypes ==
    ASSUME ChatTypeOK
    PROVE  /\ going \in Going /\ going.pending \in Nat /\ going.sent \in Seq(ServerFrame)
           /\ going.at \in {"none", "running", "paused", "asked", "cancelled", "ended"}
           /\ going.status \in {"none"} \union ChatEnds
           /\ waits \in Nat /\ asked \in Nat
           /\ \A t \in Tabs : /\ socket[t] \in Socket /\ page[t] \in Page
                              /\ socket[t].at \in SocketAt /\ socket[t].pending \in Nat /\ socket[t].deferred \in SUBSET Nat
                              /\ socket[t].starts \in Nat /\ socket[t].queue \in Seq(ServerFrame)
                              /\ socket[t].outcome \in {"none"} \union ChatEnds /\ socket[t].left \in Nat
                              /\ page[t].card \in Nat /\ page[t].busy \in BOOLEAN /\ page[t].wire \in Seq(PageFrame)
           /\ chatLeft.turns \in Nat /\ chatLeft.sent \in Nat /\ chatLeft.drops \in Nat
           /\ chatLeft \in [turns : Nat, sent : Nat, drops : Nat]
<1>1. \A t \in Tabs : socket[t] \in Socket /\ page[t] \in Page
  BY DEF ChatTypeOK
<1> QED  BY <1>1 DEF ChatTypeOK, Going, Socket, Page

\* A turn that is cancelled has sent what it had, and is not taken for one that waits.
LEMMA CancelledTurn ==
    ASSUME NEW g \in Going, GoingOK(g)
    PROVE  /\ Cancelling(g) \in Going /\ GoingOK(Cancelling(g))
           /\ \A s \in Socket, pg \in Page, told \in BOOLEAN, w \in Nat :
                 TabOK(s, pg, told, w, g) => TabOK(s, pg, told, w, Cancelling(g))
<1> DEFINE h == Cancelling(g)
<1>1. CASE g.at \in {"running", "paused", "asked"}
  <2>1. /\ h \in Going /\ h.at = "cancelled" /\ h.sent = g.sent /\ h.pending = g.pending /\ h.status = g.status
    BY <1>1 DEF Cancelling, Going
  <2> HIDE DEF h
  <2>2. GoingOK(h)
    BY <1>1, <2>1 DEF GoingOK, Announced
  <2>3. ASSUME NEW s \in Socket, NEW pg \in Page, NEW told \in BOOLEAN, NEW w \in Nat, TabOK(s, pg, told, w, g)
        PROVE  TabOK(s, pg, told, w, h)
    <3>1. FollowOK(s, pg, g) => FollowOK(s, pg, h)
      BY <1>1, <2>1 DEF FollowOK, Announced
    <3>2. TabTold(s, pg, w, g) => TabTold(s, pg, w, h)
      BY <1>1, <2>1 DEF TabTold
    <3> QED  BY <2>3, <3>1, <3>2 DEF TabOK
  <2> QED  BY <2>1, <2>2, <2>3 DEF h
<1>2. CASE g.at \notin {"running", "paused", "asked"}
  BY <1>2 DEF Cancelling
<1> QED  BY <1>1, <1>2

\* One tab goes on, and may cancel the turn.
LEMMA OneTab ==
    ASSUME ChatInv, NEW t \in Tabs, NEW s \in Socket, NEW pg \in Page,
           socket' = [socket EXCEPT ![t] = s], page' = [page EXCEPT ![t] = pg],
           going' \in {going, Cancelling(going)}, UNCHANGED <<waits, resumed, asked>>,
           missed' = missed \/ missed' = missed \ {t}, chatLeft' \in [turns : Nat, sent : Nat, drops : Nat],
           TabOK(s, pg, t \notin missed', waits, going)
    PROVE  ChatInv'
<1>1. ChatTypeOK /\ GoingOK(going) /\ going \in Going /\ AnswersItsOwn
  BY ChatTypes DEF ChatInv
<1>2. /\ socket'[t] = s /\ page'[t] = pg
      /\ \A x \in Tabs \ {t} : socket'[x] = socket[x] /\ page'[x] = page[x] /\ (x \notin missed' <=> x \notin missed)
  BY <1>1 DEF ChatTypeOK
<1>3. \A x \in Tabs : socket'[x] \in Socket /\ page'[x] \in Page
  BY <1>1, <1>2, ChatTypes
<1>4. \A x \in Tabs : TabOK(socket'[x], page'[x], x \notin missed', waits', going)
  BY <1>2 DEF ChatInv
<1>5. ASSUME NEW x \in Tabs
      PROVE  TabOK(socket'[x], page'[x], x \notin missed', waits', going')
  <2> DEFINE told == x \notin missed'
  <2>1. told \in BOOLEAN /\ waits' \in Nat
    BY <1>1, ChatTypes
  <2>2. TabOK(socket'[x], page'[x], told, waits', going)
    BY <1>4
  <2> HIDE DEF told
  <2>3. TabOK(socket'[x], page'[x], told, waits', Cancelling(going))
    BY <1>1, <1>3, <2>1, <2>2, CancelledTurn
  <2>4. TabOK(socket'[x], page'[x], told, waits', going')
    BY <2>2, <2>3
  <2> QED  BY <2>4 DEF told
<1>6. GoingOK(going') /\ going' \in Going
  BY <1>1, CancelledTurn
<1>7. ChatTypeOK'
  BY <1>1, <1>2, <1>6 DEF ChatTypeOK
<1> QED  BY <1>1, <1>5, <1>6, <1>7 DEF ChatInv, AnswersItsOwn

\* What the page sends.
LEMMA SendsInv ==
    ASSUME ChatInv, NEW t \in Tabs, NEW f \in PageFrame, NEW shown \in Page, Sends(t, f, shown),
           shown.wire = page[t].wire,
           f.is \in {"message", "answer"} \/ shown.busy = page[t].busy,
           shown.card = page[t].card \/ (f = Answer(page[t].card))
    PROVE  ChatInv'
<1> DEFINE pg == [shown EXCEPT !.wire = Append(@, f)]
           s == socket[t]
           q == page[t].wire
<1>1. /\ page' = [page EXCEPT ![t] = pg] /\ UNCHANGED <<waits, asked, going, socket, missed, resumed>>
      /\ chatLeft' = [chatLeft EXCEPT !.sent = @ - 1] /\ chatLeft.sent > 0
  BY DEF Sends, chatHistory
<1>2. /\ ChatTypeOK /\ s \in Socket /\ q \in Seq(PageFrame) /\ chatLeft.sent \in Nat
      /\ chatLeft \in [turns : Nat, sent : Nat, drops : Nat] /\ socket \in [Tabs -> Socket]
      /\ TabOK(s, page[t], t \notin missed, waits, going)
  BY ChatTypes DEF ChatInv, ChatTypeOK
<1>3. Append(q, f) \in Seq(PageFrame) /\ Items(Append(q, f)) = Items(q) \union {f}
  BY <1>2, OneMore
<1>4. /\ pg \in Page /\ pg.wire = Append(q, f) /\ pg.card = shown.card /\ pg.busy = shown.busy
  BY <1>3 DEF Page
<1>5. chatLeft' \in [turns : Nat, sent : Nat, drops : Nat]
  BY <1>1, <1>2
<1> HIDE DEF pg, s, q
<1>6. \A p : Shows(s, page[t], p) => Shows(s, pg, p)
  BY <1>3, <1>4 DEF Shows, q
<1>7. TabOK(s, pg, t \notin missed', waits, going)
  <2>1. FollowOK(s, page[t], going) => FollowOK(s, pg, going)
    BY <1>6 DEF FollowOK
  <2>2. BusyOK(s, page[t]) => BusyOK(s, pg)
    BY <1>3, <1>4 DEF BusyOK, q
  <2>3. TabTold(s, page[t], waits, going) => TabTold(s, pg, waits, going)
    BY <1>6 DEF TabTold
  <2> QED  BY <1>1, <1>2, <2>1, <2>2, <2>3 DEF TabOK
<1>8. socket' = [socket EXCEPT ![t] = s]
  BY <1>1, <1>2 DEF s
<1> QED  BY <1>1, <1>2, <1>4, <1>5, <1>7, <1>8, OneTab

LEMMA PageInv ==
    ASSUME ChatInv, NEW t \in Tabs, RespondToApproval(t) \/ SendMessage(t) \/ StopTurn(t)
    PROVE  ChatInv'
<1> DEFINE g == page[t]
<1>1. g \in Page /\ g.card \in Nat /\ g.busy \in BOOLEAN
  BY ChatTypes DEF ChatInv
<1>2. CASE RespondToApproval(t)
  <2> DEFINE shown == [g EXCEPT !.card = 0, !.busy = TRUE]
             f == [is |-> "answer", of |-> g.card]
  <2>1. /\ shown \in Page /\ shown.wire = g.wire /\ f \in PageFrame /\ f.is \in {"message", "answer"}
        /\ f = Answer(g.card)
    BY <1>1 DEF Page, PageFrame, Answer
  <2>2. Sends(t, f, shown)
    BY <1>2 DEF RespondToApproval
  <2> HIDE DEF f, shown
  <2> QED  BY <2>1, <2>2, SendsInv
<1>3. CASE SendMessage(t)
  <2> DEFINE shown == [g EXCEPT !.busy = TRUE]
             f == [is |-> "message", of |-> 0]
  <2>1. /\ shown \in Page /\ shown.wire = g.wire /\ shown.card = g.card
        /\ f \in PageFrame /\ f.is \in {"message", "answer"}
    BY <1>1 DEF Page, PageFrame
  <2>2. Sends(t, f, shown)
    BY <1>3 DEF SendMessage
  <2> HIDE DEF f, shown
  <2> QED  BY <2>1, <2>2, SendsInv
<1>4. CASE StopTurn(t)
  <2> DEFINE f == [is |-> "cancel", of |-> 0]
  <2>1. f \in PageFrame
    BY DEF PageFrame
  <2>2. Sends(t, f, g)
    BY <1>4 DEF StopTurn
  <2> HIDE DEF f
  <2> QED  BY <1>1, <2>1, <2>2, SendsInv
<1> QED  BY <1>2, <1>3, <1>4

\* No request, no turn, nothing heard.
LEMMA NoSocketOK ==
    /\ NoSocket \in Socket /\ NoSocket.at = "away" /\ NoSocket.outcome = "none" /\ NoSocket.queue = << >>
    /\ NoSocket.deferred = {} /\ NoSocket.left = 0 /\ NoSocket.pending = 0 /\ NoSocket.starts = 0
    /\ \A pg, told, w, g : TabOK(NoSocket, pg, told, w, g)
<1>1. /\ NoSocket.at = "away" /\ NoSocket.outcome = "none" /\ NoSocket.queue = << >>
      /\ NoSocket.deferred = {} /\ NoSocket.left = 0 /\ NoSocket.pending = 0 /\ NoSocket.starts = 0
  BY DEF NoSocket
<1>2. NoSocket \in Socket
  <2>1. << >> \in Seq(ServerFrame)
    OBVIOUS
  <2> QED  BY <2>1 DEF NoSocket, Socket, SocketAt
<1> QED  BY <1>1, <1>2 DEF TabOK, Follows, BusyOK, TabTold

\* A connection ends.
LEMMA AwayInv ==
    ASSUME ChatInv, NEW t \in Tabs, NEW busy \in BOOLEAN, Away(t, busy),
           UNCHANGED <<waits, asked, going, missed, resumed>>, chatLeft' \in [turns : Nat, sent : Nat, drops : Nat]
    PROVE  ChatInv'
<1> DEFINE pg == [page[t] EXCEPT !.busy = busy, !.wire = << >>]
<1>1. socket' = [socket EXCEPT ![t] = NoSocket] /\ page' = [page EXCEPT ![t].busy = busy, ![t].wire = << >>]
  BY DEF Away
<1>2. page \in [Tabs -> Page] /\ page[t] \in Page
  BY ChatTypes DEF ChatInv, ChatTypeOK
<1>3. page' = [page EXCEPT ![t] = pg]
  BY <1>1, <1>2
<1>4. pg \in Page
  <2>1. << >> \in Seq(PageFrame)
    OBVIOUS
  <2> QED  BY <1>2, <2>1 DEF Page
<1> HIDE DEF pg
<1> QED  BY <1>1, <1>3, <1>4, NoSocketOK, OneTab

LEMMA ConnectInv ==
    ASSUME ChatInv, NEW t \in Tabs, LoadThread(t) \/ AcceptSocket(t) \/ Serve(t) \/ Drop(t)
    PROVE  ChatInv'
<1> DEFINE s == socket[t]
           g == page[t]
<1>1. /\ ChatTypeOK /\ GoingOK(going) /\ s \in Socket /\ g \in Page /\ waits \in Nat /\ going \in Going
      /\ socket \in [Tabs -> Socket] /\ page \in [Tabs -> Page] /\ g.busy \in BOOLEAN
      /\ chatLeft \in [turns : Nat, sent : Nat, drops : Nat] /\ chatLeft.drops \in Nat
      /\ TabOK(s, g, t \notin missed, waits, going)
  BY ChatTypes DEF ChatInv, ChatTypeOK
<1>2. CASE LoadThread(t)
  <2> DEFINE z == [s EXCEPT !.at = "loaded"]
             y == [g EXCEPT !.card = IF TurnGoes THEN 0 ELSE waits, !.busy = FALSE]
  <2>1. /\ s.at = "away" /\ socket' = [socket EXCEPT ![t].at = "loaded"]
        /\ page' = [page EXCEPT ![t].card = IF TurnGoes THEN 0 ELSE waits, ![t].busy = FALSE]
        /\ missed' = missed \ {t} /\ UNCHANGED <<waits, asked, going, resumed, chatLeft>>
    BY <1>2 DEF LoadThread
  <2>2. socket' = [socket EXCEPT ![t] = z] /\ page' = [page EXCEPT ![t] = y]
    BY <1>1, <2>1
  <2>3. z \in Socket /\ z.at = "loaded" /\ z.outcome = s.outcome
    BY <1>1 DEF Socket, SocketAt
  <2>4. y \in Page /\ y.busy = FALSE /\ (~TurnGoes => y.card = waits)
    BY <1>1 DEF Page
  <2> HIDE DEF z, y
  <2>5. s.outcome = "none"
    BY <1>1, <2>1 DEF TabOK, Follows
  <2>6. TabOK(z, y, t \notin missed', waits, going)
    BY <2>3, <2>4, <2>5 DEF TabOK, Follows, BusyOK, TabTold, Shows, TurnGoes
  <2>7. /\ going' \in {going, Cancelling(going)} /\ UNCHANGED <<waits, resumed, asked>>
        /\ (missed' = missed \/ missed' = missed \ {t})
        /\ chatLeft' \in [turns : Nat, sent : Nat, drops : Nat]
    BY <1>1, <2>1
  <2>8. TabOK(z, y, t \notin missed', waits, going)
    BY <2>6
  <2> QED  BY <2>2, <2>3, <2>4, <2>7, <2>8, OneTab
<1>3. CASE AcceptSocket(t)
  <2> DEFINE z == [s EXCEPT !.at = "accepted", !.pending = waits]
  <2>1. /\ s.at = "loaded" /\ socket' = [socket EXCEPT ![t].at = "accepted", ![t].pending = waits]
        /\ UNCHANGED <<waits, asked, going, page, missed, resumed, chatLeft>>
    BY <1>3 DEF AcceptSocket, chatHistory
  <2>2. socket' = [socket EXCEPT ![t] = z] /\ page' = [page EXCEPT ![t] = g]
    BY <1>1, <2>1
  <2>3. z \in Socket /\ z.at = "accepted" /\ z.outcome = s.outcome /\ z.pending = waits /\ z.deferred = s.deferred
    BY <1>1 DEF Socket, SocketAt
  <2> HIDE DEF z
  <2>4. TabOK(z, g, t \notin missed', waits, going)
    <3>1. s.outcome = "none" /\ BusyOK(z, g)
      BY <1>1, <2>1, <2>3 DEF TabOK, Follows, BusyOK
    <3>2. t \notin missed' => TabTold(z, g, waits, going)
      BY <1>1, <2>1, <2>3 DEF TabOK, TabTold, Shows, Follows
    <3> QED  BY <2>3, <3>1, <3>2 DEF TabOK, Follows
  <2>5. /\ going' \in {going, Cancelling(going)} /\ UNCHANGED <<waits, resumed, asked>>
        /\ (missed' = missed \/ missed' = missed \ {t})
        /\ chatLeft' \in [turns : Nat, sent : Nat, drops : Nat]
    BY <1>1, <2>1
  <2> QED  BY <1>1, <2>2, <2>3, <2>4, <2>5, OneTab
<1>4. CASE Serve(t)
  <2>1. /\ s.at = "accepted" /\ UNCHANGED <<waits, asked, going, page, missed, resumed, chatLeft>>
        /\ page' = [page EXCEPT ![t] = g]
    BY <1>1, <1>4 DEF Serve, chatHistory
  <2>2. s.outcome = "none" /\ BusyOK(s, g) /\ (t \notin missed => TabTold(s, g, waits, going))
    BY <1>1, <2>1 DEF TabOK, Follows
  <2>3. CASE TurnGoes
    <3> DEFINE f == [is |-> "start", of |-> 0]
               q == <<f>> \o going.sent
               z == [s EXCEPT !.at = "following", !.queue = q]
    <3>1. socket' = [socket EXCEPT ![t] = z]
      BY <1>1, <1>4, <2>3 DEF Serve
    <3>2. f \in ServerFrame /\ f.is = "start" /\ f.is \notin ChatEnds /\ going.sent \in Seq(ServerFrame)
      BY <1>1 DEF ServerFrame, ChatEnds, Going
    <3> HIDE DEF f
    <3>3. /\ q \in Seq(ServerFrame) /\ Items(q) = Items(going.sent) \union {f}
          /\ LastLast(going.sent) => LastLast(q)
      BY <3>2, OneBefore
    <3> HIDE DEF q
    <3>4. z \in Socket /\ z.at = "following" /\ z.outcome = s.outcome /\ z.queue = q
      BY <1>1, <3>3 DEF Socket, SocketAt
    <3> HIDE DEF z
    <3>5. FollowOK(z, g, going)
      BY <1>1, <2>2, <2>3, <3>2, <3>3, <3>4 DEF FollowOK, GoingOK, Announces, TurnGoes
    <3>6. TabOK(z, g, t \notin missed', waits, going)
      BY <2>2, <3>4, <3>5 DEF TabOK, Follows, BusyOK, TabTold
    <3> QED  BY <1>1, <2>1, <3>1, <3>4, <3>6, OneTab
  <2>4. CASE ~TurnGoes
    <3> DEFINE z == [s EXCEPT !.at = "idle"]
    <3>1. socket' = [socket EXCEPT ![t] = z]
      BY <1>1, <1>4, <2>4 DEF Serve
    <3>2. /\ z \in Socket /\ z.at = "idle" /\ z.outcome = s.outcome /\ z.pending = s.pending
          /\ z.deferred = s.deferred
      BY <1>1 DEF Socket, SocketAt
    <3> HIDE DEF z
    <3>3. t \notin missed => TabTold(z, g, waits, going)
      BY <2>1, <2>2, <2>4, <3>2 DEF TabTold, Shows, TurnGoes, Follows
    <3>4. TabOK(z, g, t \notin missed', waits, going)
      BY <2>1, <2>2, <3>2, <3>3 DEF TabOK, Follows, BusyOK
    <3> QED  BY <1>1, <2>1, <3>1, <3>2, <3>4, OneTab
  <2> QED  BY <2>3, <2>4
<1>5. CASE Drop(t)
  <2>1. /\ Away(t, g.busy) /\ UNCHANGED <<waits, asked, going, missed, resumed>> /\ chatLeft.drops > 0
        /\ chatLeft' = [chatLeft EXCEPT !.drops = @ - 1]
    BY <1>5 DEF Drop, chatHistory
  <2>2. chatLeft' \in [turns : Nat, sent : Nat, drops : Nat]
    BY <1>1, <2>1
  <2> QED  BY <1>1, <2>1, <2>2, AwayInv
<1> QED  BY <1>2, <1>3, <1>4, <1>5

\* What a page is shown of the turn it follows.
LEMMA ForwardInv ==
    ASSUME ChatInv, NEW t \in Tabs, Forward(t)
    PROVE  ChatInv'
<1> DEFINE s == socket[t]
           g == page[t]
           q == s.queue
           f == Head(q)
           at == IF f.is \notin ChatEnds THEN s.at ELSE IF s.at = "following" THEN "over" ELSE "stopped"
           y == CASE f.is = "start" -> [g EXCEPT !.busy = TRUE]
                  [] f.is = "approval" -> [g EXCEPT !.card = f.of]
                  [] OTHER -> [g EXCEPT !.busy = FALSE]
           z == [s EXCEPT !.queue = Tail(q), !.at = at]
<1>1. /\ GoingOK(going) /\ s \in Socket /\ g \in Page /\ q \in Seq(ServerFrame)
      /\ socket \in [Tabs -> Socket] /\ page \in [Tabs -> Page]
      /\ chatLeft \in [turns : Nat, sent : Nat, drops : Nat]
      /\ TabOK(s, g, t \notin missed, waits, going)
  BY ChatTypes DEF ChatInv, ChatTypeOK
<1>2. /\ s.at \in {"following", "stopping"} /\ q # << >>
      /\ page' = [page EXCEPT ![t] = CASE f.is = "start" -> [@ EXCEPT !.busy = TRUE]
                                       [] f.is = "approval" -> [@ EXCEPT !.card = f.of]
                                       [] OTHER -> [@ EXCEPT !.busy = FALSE]]
      /\ socket' = [socket EXCEPT ![t].queue = Tail(@),
              ![t].at = IF f.is \notin ChatEnds THEN @ ELSE IF @ = "following" THEN "over" ELSE "stopped"]
      /\ UNCHANGED <<waits, asked, going, missed, resumed, chatLeft>>
  BY DEF Forward, chatHistory
<1>3. page' = [page EXCEPT ![t] = y]
  BY <1>1, <1>2
<1>4. socket' = [socket EXCEPT ![t] = z]
  BY <1>1, <1>2
<1>5. /\ f \in ServerFrame /\ Tail(q) \in Seq(ServerFrame) /\ Items(q) = Items(Tail(q)) \union {f}
      /\ LastLast(q) => LastLast(Tail(q)) /\ (f.is \in ChatEnds => Tail(q) = << >>)
  BY <1>1, <1>2, OneLess
<1>6. f.is \in {"start", "approval"} \union ChatEnds /\ f.of \in Nat /\ f = [is |-> f.is, of |-> f.of]
  BY <1>5 DEF ServerFrame
<1> HIDE DEF f
<1>7. at \in SocketAt /\ (f.is \notin ChatEnds => at = s.at) /\ (f.is \in ChatEnds => at \in {"over", "stopped"})
      /\ (s.at = "stopping" => at \in {"stopping", "stopped"}) /\ at \in {"following", "stopping", "over", "stopped"}
  BY <1>2 DEF SocketAt
<1>8. /\ y \in Page /\ y.wire = g.wire
      /\ f.is = "approval" => y.card = f.of
      /\ f.is # "approval" => y.card = g.card
      /\ f.is \in ChatEnds => y.busy = FALSE
  <2>1. CASE f.is = "start"
    BY <1>1, <2>1 DEF Page, ChatEnds
  <2>2. CASE f.is = "approval"
    BY <1>1, <1>6, <2>2 DEF Page, ChatEnds
  <2>3. CASE f.is \in ChatEnds
    BY <1>1, <2>3 DEF Page, ChatEnds
  <2> QED  BY <1>6, <2>1, <2>2, <2>3
<1> HIDE DEF y, at
<1>9. /\ z \in Socket /\ z.at = at /\ z.queue = Tail(q) /\ z.outcome = s.outcome /\ z.left = s.left
      /\ z.deferred = s.deferred
  BY <1>1, <1>5, <1>7 DEF Socket
<1> HIDE DEF z
<1>10. FollowOK(s, g, going)
  BY <1>1, <1>2 DEF TabOK, Follows
<1>11. FollowOK(z, y, going)
  <2> DEFINE p == IF s.outcome = "none" THEN going.pending ELSE s.left
  <2>1. LastLast(q) /\ Announces(q, p)
    BY <1>10 DEF FollowOK
  <2>2. LastLast(Tail(q)) /\ Announces(Tail(q), p) /\ (f.is = "approval" => f.of = p)
    BY <1>5, <2>1 DEF Announces
  <2>3. z.at \in {"over", "stopped"} => z.queue = << >>
    BY <1>2, <1>5, <1>7, <1>9, <2>1
  <2>4. z.outcome = "none" => /\ going.at # "none"
                              /\ going.at \in {"running", "paused"} => \A x \in Items(z.queue) : x.is # "approval"
                              /\ going.at # "ended" => /\ z.at \notin {"over", "stopped"}
                                                       /\ \A x \in Items(z.queue) : x.is \notin ChatEnds
    BY <1>2, <1>5, <1>7, <1>9, <1>10 DEF FollowOK
  <2>5. Shows(s, g, p) => Shows(z, y, p)
    BY <1>8, <1>9, <2>2 DEF Shows
  <2>6. Approval(p) = f => Shows(z, y, p)
    BY <1>8 DEF Approval, Shows
  <2>7. (s.outcome = "none" /\ Announced(going)) \/ s.outcome = "awaiting"
        => Approval(p) \in Items(q) \/ Shows(s, g, p)
    BY <1>10 DEF FollowOK
  <2>8. (z.outcome = "none" /\ Announced(going)) \/ z.outcome = "awaiting"
        => Approval(p) \in Items(z.queue) \/ Shows(z, y, p)
    BY <1>5, <1>9, <2>5, <2>6, <2>7
  <2>9. z.outcome = "completed" => z.left = 0
    BY <1>9, <1>10 DEF FollowOK
  <2> QED  BY <1>9, <2>2, <2>3, <2>4, <2>8, <2>9 DEF FollowOK
<1>12. BusyOK(z, y)
  BY <1>2, <1>7, <1>8, <1>9 DEF BusyOK
<1>13. t \notin missed => TabTold(z, y, waits, going)
  BY <1>1, <1>2, <1>7, <1>9 DEF TabOK, TabTold, Follows
<1>14. TabOK(z, y, t \notin missed', waits, going)
  BY <1>2, <1>7, <1>9, <1>11, <1>12, <1>13 DEF TabOK, Follows
<1>15. /\ going' \in {going, Cancelling(going)} /\ UNCHANGED <<waits, resumed, asked>>
       /\ (missed' = missed \/ missed' = missed \ {t})
       /\ chatLeft' \in [turns : Nat, sent : Nat, drops : Nat]
  BY <1>1, <1>2
<1> QED  BY <1>3, <1>4, <1>8, <1>9, <1>14, <1>15, OneTab

LEMMA WatchInv ==
    ASSUME ChatInv, NEW t \in Tabs, WatchInbound(t)
    PROVE  ChatInv'
<1> DEFINE s == socket[t]
           g == page[t]
           q == g.wire
           f == Head(q)
           at == IF f.is = "cancel" THEN "stopping" ELSE s.at
           held == s.deferred \union Held(f)
           y == [g EXCEPT !.wire = Tail(q)]
           z == [s EXCEPT !.deferred = held, !.at = at]
<1>1. /\ s \in Socket /\ g \in Page /\ q \in Seq(PageFrame)
      /\ socket \in [Tabs -> Socket] /\ page \in [Tabs -> Page] /\ s.deferred \in SUBSET Nat
      /\ chatLeft \in [turns : Nat, sent : Nat, drops : Nat]
      /\ TabOK(s, g, t \notin missed, waits, going)
  BY ChatTypes DEF ChatInv, ChatTypeOK
<1>2. /\ s.at = "following" /\ q # << >>
      /\ page' = [page EXCEPT ![t].wire = Tail(@)]
      /\ socket' = [socket EXCEPT ![t].deferred = @ \union Held(f),
                                  ![t].at = IF f.is = "cancel" THEN "stopping" ELSE @]
      /\ going' \in {going, Cancelling(going)}
      /\ UNCHANGED <<waits, asked, missed, resumed, chatLeft>>
  BY DEF WatchInbound
<1>3. page' = [page EXCEPT ![t] = y] /\ socket' = [socket EXCEPT ![t] = z]
  BY <1>1, <1>2
<1>4. f \in PageFrame /\ Tail(q) \in Seq(PageFrame) /\ Items(q) = Items(Tail(q)) \union {f}
  BY <1>1, <1>2, OneLess
<1>5. f.is \in {"message", "cancel", "answer"} /\ f.of \in Nat
  BY <1>4 DEF PageFrame
<1> HIDE DEF f
<1>6. held \in SUBSET Nat /\ s.deferred \subseteq held /\ \A p : f = Answer(p) => p \in held
  BY <1>1, <1>5 DEF Held, Answer
<1>7. at \in {"following", "stopping"} /\ at \in SocketAt
  BY <1>2 DEF SocketAt
<1> HIDE DEF held, at
<1>8. y \in Page /\ y.wire = Tail(q) /\ y.card = g.card
  BY <1>1, <1>4 DEF Page
<1>9. /\ z \in Socket /\ z.at = at /\ z.deferred = held /\ z.queue = s.queue /\ z.outcome = s.outcome
      /\ z.left = s.left
  BY <1>1, <1>6, <1>7 DEF Socket
<1> HIDE DEF y, z
<1>10. \A p : Shows(s, g, p) => Shows(z, y, p)
  BY <1>4, <1>6, <1>8, <1>9 DEF Shows
<1>11. FollowOK(s, g, going)
  BY <1>1, <1>2 DEF TabOK, Follows
<1>12. FollowOK(z, y, going)
  BY <1>2, <1>7, <1>9, <1>10, <1>11 DEF FollowOK
<1>13. t \notin missed => TabTold(z, y, waits, going)
  BY <1>1, <1>2, <1>7, <1>9 DEF TabOK, TabTold, Follows
<1>14. TabOK(z, y, t \notin missed', waits, going)
  BY <1>2, <1>7, <1>9, <1>12, <1>13 DEF TabOK, Follows, BusyOK
<1>15. /\ going' \in {going, Cancelling(going)} /\ UNCHANGED <<waits, resumed, asked>>
       /\ (missed' = missed \/ missed' = missed \ {t})
       /\ chatLeft' \in [turns : Nat, sent : Nat, drops : Nat]
  BY <1>1, <1>2
<1> QED  BY <1>3, <1>8, <1>9, <1>14, <1>15, OneTab

\* A socket that hears how its turn ended shows what that turn left.
LEMMA HearInv ==
    ASSUME ChatInv, NEW t \in Tabs, HearOutcome(t)
    PROVE  ChatInv'
<1> DEFINE s == socket[t]
           g == page[t]
           z == [NoSocket EXCEPT !.at = "idle", !.pending = s.left, !.deferred = s.deferred]
           y == IF Reannounces(t) THEN [g EXCEPT !.card = s.left, !.busy = FALSE] ELSE g
<1>1. /\ s \in Socket /\ g \in Page /\ socket \in [Tabs -> Socket] /\ page \in [Tabs -> Page]
      /\ s.deferred \in SUBSET Nat /\ s.left \in Nat /\ g.busy \in BOOLEAN
      /\ s.outcome \in {"none"} \union ChatEnds
      /\ chatLeft \in [turns : Nat, sent : Nat, drops : Nat]
      /\ TabOK(s, g, t \notin missed, waits, going)
  BY ChatTypes DEF ChatInv, ChatTypeOK
<1>2. /\ s.at \in {"over", "stopped"} /\ s.outcome # "none"
      /\ UNCHANGED <<waits, asked, going, missed, resumed, chatLeft>>
  BY DEF HearOutcome, chatHistory
<1>3. CASE s.outcome = "error"
  <2>1. Away(t, g.busy)
    BY <1>3 DEF HearOutcome
  <2> QED  BY <1>1, <1>2, <2>1, AwayInv
<1>4. CASE s.outcome # "error"
  <2>1. /\ socket' = [socket EXCEPT ![t] = z]
        /\ page' = IF Reannounces(t) THEN [page EXCEPT ![t].card = s.left, ![t].busy = FALSE] ELSE page
    BY <1>4 DEF HearOutcome
  <2>2. page' = [page EXCEPT ![t] = y]
    BY <1>1, <2>1
  <2>3. /\ z \in Socket /\ z.at = "idle" /\ z.outcome = "none" /\ z.pending = s.left
        /\ z.deferred = s.deferred
    <3>1. NoSocket \in Socket /\ NoSocket.outcome = "none"
      BY NoSocketOK
    <3> QED  BY <1>1, <3>1 DEF Socket, SocketAt
  <2>4. /\ y \in Page /\ y.wire = g.wire /\ (y.busy => g.busy)
        /\ Reannounces(t) => y.card = s.left
        /\ ~Reannounces(t) => y.card = g.card
    BY <1>1 DEF Page
  <2> HIDE DEF z, y
  <2>5. FollowOK(s, g, going) /\ BusyOK(s, g)
    BY <1>1, <1>2 DEF TabOK, Follows
  <2>6. BusyOK(z, y)
    BY <1>2, <2>4, <2>5 DEF BusyOK
  <2>7. ASSUME t \notin missed
        PROVE  TabTold(z, y, waits, going)
    <3>1. /\ s.left = waits
          /\ s.outcome = "cancelled" /\ s.left # 0 => s.at = "stopped"
      BY <1>1, <1>2, <1>4, <2>7 DEF TabOK, TabTold, Follows
    <3>2. Shows(z, y, s.left)
      <4>1. CASE s.outcome = "completed"
        BY <2>5, <4>1 DEF FollowOK, Shows
      <4>2. CASE s.outcome = "cancelled"
        BY <2>3, <2>4, <3>1, <4>2 DEF Shows, Reannounces
      <4>3. CASE s.outcome = "awaiting"
        <5>1. s.queue = << >> /\ (Approval(s.left) \in Items(s.queue) \/ Shows(s, g, s.left))
          BY <1>2, <2>5, <4>3 DEF FollowOK
        <5>2. Shows(s, g, s.left) /\ ~Reannounces(t)
          BY <4>3, <5>1, NoItems DEF Reannounces
        <5> QED  BY <2>3, <2>4, <5>2 DEF Shows
      <4> QED  BY <1>1, <1>2, <1>4, <4>1, <4>2, <4>3 DEF ChatEnds
    <3> QED  BY <2>3, <3>1, <3>2 DEF TabTold, Follows
  <2>8. TabOK(z, y, t \notin missed', waits, going)
    BY <1>2, <2>3, <2>6, <2>7 DEF TabOK, Follows
  <2>9. /\ going' \in {going, Cancelling(going)} /\ UNCHANGED <<waits, resumed, asked>>
        /\ (missed' = missed \/ missed' = missed \ {t})
        /\ chatLeft' \in [turns : Nat, sent : Nat, drops : Nat]
    BY <1>1, <1>2
  <2> QED  BY <2>1, <2>2, <2>3, <2>4, <2>8, <2>9, OneTab
<1> QED  BY <1>3, <1>4

\* A tab on its way to start a turn, with what it knew to wait, or a message.
LEMMA StartingInv ==
    ASSUME ChatInv, NEW t \in Tabs, NEW of \in {0, socket[t].pending}, NEW y \in Page,
           socket[t].at = "idle", Starting(t, of), page' = [page EXCEPT ![t] = y],
           UNCHANGED <<waits, asked, going, missed, resumed, chatLeft>>
    PROVE  ChatInv'
<1> DEFINE s == socket[t]
           z == [s EXCEPT !.at = "starting", !.starts = of, !.deferred = {}]
<1>1. /\ s \in Socket /\ socket \in [Tabs -> Socket] /\ s.pending \in Nat
      /\ chatLeft \in [turns : Nat, sent : Nat, drops : Nat]
      /\ TabOK(s, page[t], t \notin missed, waits, going)
  BY ChatTypes DEF ChatInv, ChatTypeOK
<1>2. socket' = [socket EXCEPT ![t] = z]
  BY <1>1 DEF Starting
<1>3. of \in Nat
  BY <1>1
<1>4. /\ z \in Socket /\ z.at = "starting" /\ z.starts = of /\ z.outcome = s.outcome
  BY <1>1, <1>3 DEF Socket, SocketAt
<1> HIDE DEF z
<1>5. s.outcome = "none" /\ (t \notin missed => s.pending = waits)
  BY <1>1 DEF TabOK, Follows, TabTold
<1>6. TabOK(z, y, t \notin missed', waits, going)
  BY <1>4, <1>5 DEF TabOK, Follows, BusyOK, TabTold
<1>7. /\ going' \in {going, Cancelling(going)} /\ UNCHANGED <<waits, resumed, asked>>
      /\ (missed' = missed \/ missed' = missed \ {t})
      /\ chatLeft' \in [turns : Nat, sent : Nat, drops : Nat]
  BY <1>1
<1> QED  BY <1>2, <1>4, <1>6, <1>7, OneTab

LEMMA BetweenInv ==
    ASSUME ChatInv, NEW t \in Tabs, TakeDeferred(t) \/ Receive(t)
    PROVE  ChatInv'
<1> DEFINE s == socket[t]
           g == page[t]
           q == g.wire
           f == Head(q)
           y == [g EXCEPT !.wire = Tail(q)]
<1>1. /\ s \in Socket /\ g \in Page /\ q \in Seq(PageFrame)
      /\ socket \in [Tabs -> Socket] /\ page \in [Tabs -> Page] /\ s.deferred \in SUBSET Nat
      /\ chatLeft \in [turns : Nat, sent : Nat, drops : Nat]
      /\ TabOK(s, g, t \notin missed, waits, going)
  BY ChatTypes DEF ChatInv, ChatTypeOK
<1>2. s.at = "idle" /\ UNCHANGED <<waits, asked, going, missed, resumed, chatLeft>>
  BY DEF TakeDeferred, Receive, chatHistory
<1>3. CASE TakeDeferred(t)
  <2>1. PICK of \in Matching(t) : Starting(t, of)
    BY <1>3 DEF TakeDeferred
  <2>2. of \in {0, socket[t].pending}
    BY <2>1 DEF Matching
  <2>3. page' = [page EXCEPT ![t] = g]
    BY <1>1, <1>3 DEF TakeDeferred
  <2> QED  BY <1>1, <1>2, <2>1, <2>2, <2>3, StartingInv
<1>4. CASE Receive(t)
  <2>1. q # << >>
    BY <1>4 DEF Receive
  <2>2. f \in PageFrame /\ Tail(q) \in Seq(PageFrame) /\ Items(q) = Items(Tail(q)) \union {f}
    BY <1>1, <2>1, OneLess
  <2>3. y \in Page /\ y.wire = Tail(q) /\ y.card = g.card /\ y.busy = g.busy
    BY <1>1, <2>2 DEF Page
  <2>4. ASSUME page' = [page EXCEPT ![t].wire = Tail(@)]
        PROVE  page' = [page EXCEPT ![t] = y]
    BY <1>1, <2>4
  <2>5. \/ \E of \in {0, socket[t].pending} : Starting(t, of) /\ page' = [page EXCEPT ![t].wire = Tail(@)]
        \/ /\ s.pending = 0 /\ f.is = "cancel" /\ socket' = [socket EXCEPT ![t].deferred = {}]
           /\ page' = [page EXCEPT ![t].wire = Tail(@)]
        \/ Away(t, FALSE)
    BY <1>4 DEF Receive
  <2> HIDE DEF f, y
  <2>6. CASE \E of \in {0, socket[t].pending} : Starting(t, of) /\ page' = [page EXCEPT ![t].wire = Tail(@)]
    <3>1. PICK of \in {0, socket[t].pending} : Starting(t, of) /\ page' = [page EXCEPT ![t].wire = Tail(@)]
      BY <2>6
    <3> QED  BY <1>2, <2>3, <2>4, <3>1, StartingInv
  <2>7. CASE /\ s.pending = 0 /\ f.is = "cancel" /\ socket' = [socket EXCEPT ![t].deferred = {}]
             /\ page' = [page EXCEPT ![t].wire = Tail(@)]
    <3> DEFINE z == [s EXCEPT !.deferred = {}]
    <3>1. socket' = [socket EXCEPT ![t] = z] /\ page' = [page EXCEPT ![t] = y]
      BY <1>1, <2>4, <2>7
    <3>2. z \in Socket /\ z.at = "idle" /\ z.outcome = s.outcome /\ z.pending = 0
      BY <1>1, <1>2, <2>7 DEF Socket
    <3> HIDE DEF z
    <3>3. s.outcome = "none" /\ BusyOK(s, g) /\ (t \notin missed => waits = 0)
      BY <1>1, <1>2, <2>7 DEF TabOK, Follows, TabTold
    <3>4. BusyOK(z, y)
      BY <1>2, <2>2, <2>3, <2>7, <3>3 DEF BusyOK
    <3>5. TabOK(z, y, t \notin missed', waits, going)
      BY <1>2, <3>2, <3>3, <3>4 DEF TabOK, Follows, TabTold, Shows
    <3>6. /\ going' \in {going, Cancelling(going)} /\ UNCHANGED <<waits, resumed, asked>>
          /\ (missed' = missed \/ missed' = missed \ {t})
          /\ chatLeft' \in [turns : Nat, sent : Nat, drops : Nat]
      BY <1>1, <1>2
    <3> QED  BY <2>3, <3>1, <3>2, <3>5, <3>6, OneTab
  <2>8. CASE Away(t, FALSE)
    BY <1>1, <1>2, <2>8, AwayInv
  <2> QED  BY <2>5, <2>6, <2>7, <2>8
<1> QED  BY <1>3, <1>4

\* A tab that follows no turn, or one it heard the end of, is as it was whatever turn goes.
LEMMA OtherTurn ==
    ASSUME NEW s \in Socket, NEW pg \in Page, NEW told \in BOOLEAN, NEW w, NEW g, NEW h,
           TabOK(s, pg, told, w, g), Follows(s) => s.outcome # "none", h.at # "none"
    PROVE  TabOK(s, pg, told, w, h)
<1>1. Follows(s) => FollowOK(s, pg, h)
  BY DEF TabOK, FollowOK
<1>2. told => TabTold(s, pg, w, h)
  BY DEF TabOK, TabTold
<1> QED  BY <1>1, <1>2 DEF TabOK

LEMMA StartInv ==
    ASSUME ChatInv, NEW t \in Tabs, StartTurn(t)
    PROVE  ChatInv'
<1> DEFINE s == socket[t]
           g == page[t]
           begun == [NoTurn EXCEPT !.at = "running", !.pending = waits]
           z == [s EXCEPT !.at = "following", !.queue = << >>]
<1>1. /\ ChatTypeOK /\ s \in Socket /\ g \in Page /\ g.busy \in BOOLEAN /\ waits \in Nat
      /\ socket \in [Tabs -> Socket] /\ page \in [Tabs -> Page] /\ AnswersItsOwn
      /\ chatLeft \in [turns : Nat, sent : Nat, drops : Nat] /\ chatLeft.turns \in Nat
      /\ TabOK(s, g, t \notin missed, waits, going) /\ s.starts \in Nat
  BY ChatTypes DEF ChatInv, ChatTypeOK
<1>2. s.at = "starting" /\ going.at = "none" /\ UNCHANGED <<waits, asked, missed>>
  BY DEF StartTurn, TurnGoes
<1>3. ASSUME NEW busy \in {g.busy, FALSE}, Away(t, busy), UNCHANGED <<going, resumed, chatLeft>>
      PROVE  ChatInv'
  <2>1. busy \in BOOLEAN /\ chatLeft' \in [turns : Nat, sent : Nat, drops : Nat]
    BY <1>1, <1>3
  <2> QED  BY <1>2, <1>3, <2>1, AwayInv
<1>4. ASSUME chatLeft.turns > 0, chatLeft' = [chatLeft EXCEPT !.turns = @ - 1], going' = begun,
             socket' = [socket EXCEPT ![t].at = "following", ![t].queue = << >>],
             resumed' = IF s.starts = 0 THEN resumed
                        ELSE resumed \union {[by |-> t, answered |-> s.starts,
                                              waited |-> waits, missed |-> t \in missed]},
             UNCHANGED page
      PROVE  ChatInv'
  <2>1. chatLeft' \in [turns : Nat, sent : Nat, drops : Nat]
    BY <1>1, <1>4
  <2>2. /\ begun.at = "running" /\ begun.pending = waits /\ begun.sent = << >> /\ begun.status = "none"
        /\ begun \in Going
    <3>1. << >> \in Seq(ServerFrame)
      OBVIOUS
    <3> QED  BY <1>1, <3>1 DEF NoTurn, Going
  <2>3. socket' = [socket EXCEPT ![t] = z]
    BY <1>1, <1>4
  <2>4. /\ z \in Socket /\ z.at = "following" /\ z.queue = << >> /\ z.outcome = s.outcome
        /\ z.left = s.left
    <3>1. << >> \in Seq(ServerFrame)
      OBVIOUS
    <3> QED  BY <1>1, <3>1 DEF Socket, SocketAt
  <2> HIDE DEF begun, z
  <2>5. socket'[t] = z /\ \A x \in Tabs \ {t} : socket'[x] = socket[x]
    BY <1>1, <2>3
  <2>6. GoingOK(begun)
    BY <2>2, NoItems DEF GoingOK, Announced
  <2>7. ASSUME NEW x \in Tabs
        PROVE  TabOK(socket'[x], page'[x], x \notin missed', waits', begun)
    <3>1. CASE x = t
      <4>1. s.outcome = "none"
        BY <1>1, <1>2 DEF TabOK, Follows
      <4>2. FollowOK(z, g, begun)
        BY <2>2, <2>4, <4>1, NoItems DEF FollowOK, Announced
      <4>3. TabOK(z, g, x \notin missed, waits, begun)
        BY <2>4, <4>1, <4>2 DEF TabOK, Follows, BusyOK, TabTold
      <4> QED  BY <1>2, <1>4, <2>5, <3>1, <4>3
    <3>2. CASE x # t
      <4> DEFINE told == x \notin missed
                 o == socket[x]
                 pg == page[x]
      <4>1. o \in Socket /\ pg \in Page /\ told \in BOOLEAN /\ TabOK(o, pg, told, waits, going)
        BY <1>1 DEF ChatInv
      <4>2. begun.at # "none"
        BY <2>2
      <4> HIDE DEF told, o, pg
      <4>3. Follows(o) => o.outcome # "none"
        BY <1>2, <4>1 DEF TabOK, FollowOK
      <4>4. TabOK(o, pg, told, waits, begun)
        BY <4>1, <4>2, <4>3, OtherTurn
      <4> QED  BY <1>2, <1>4, <2>5, <3>2, <4>4 DEF told, o, pg
    <3> QED  BY <3>1, <3>2
  <2> DEFINE e == [by |-> t, answered |-> s.starts, waited |-> waits, missed |-> t \in missed]
             unheard == t \in missed
  <2>8. /\ resumed' \in SUBSET [by : Tabs, answered : Nat, waited : Nat, missed : BOOLEAN]
        /\ \A r \in resumed' : ~r.missed => r.answered = r.waited
    <3>1. /\ resumed \in SUBSET [by : Tabs, answered : Nat, waited : Nat, missed : BOOLEAN]
          /\ \A r \in resumed : ~r.missed => r.answered = r.waited
      BY <1>1 DEF ChatTypeOK, AnswersItsOwn
    <3>2. t \notin missed => s.starts \in {0, waits}
      BY <1>1, <1>2 DEF TabOK, TabTold
    <3>3. unheard \in BOOLEAN
      OBVIOUS
    <3>4. /\ e = [by |-> t, answered |-> s.starts, waited |-> waits, missed |-> unheard]
          /\ ~unheard => s.starts \in {0, waits}
      BY <3>2
    <3>5. resumed' = resumed \/ (s.starts # 0 /\ resumed' = resumed \union {e})
      BY <1>4
    <3> HIDE DEF unheard, e
    <3>6. /\ e \in [by : Tabs, answered : Nat, waited : Nat, missed : BOOLEAN]
          /\ e.missed = unheard /\ e.answered = s.starts /\ e.waited = waits
      BY <1>1, <3>3, <3>4
    <3>7. s.starts # 0 => (~e.missed => e.answered = e.waited)
      BY <3>4, <3>6
    <3> QED  BY <3>1, <3>5, <3>6, <3>7
  <2>10. ChatTypeOK'
    <3>1. \A x \in Tabs : socket'[x] \in Socket
      BY <1>1, <2>4, <2>5
    <3>2. socket' \in [Tabs -> Socket]
      BY <1>1, <2>3, <2>4
    <3> QED  BY <1>1, <1>2, <1>4, <2>1, <2>2, <2>8, <3>2 DEF ChatTypeOK
  <2> QED  BY <1>4, <2>6, <2>7, <2>8, <2>10 DEF ChatInv, AnswersItsOwn
<1> QED  BY <1>3, <1>4 DEF StartTurn

-----------------------------------------------------------------------------
(* The turn's steps.                                                       *)

\* A frame of the running turn, to all that follow it: an approval, or the last one.
LEMMA EmitInv ==
    ASSUME ChatInv, NEW f \in ServerFrame, NEW h \in Going, EmitFrame(f, h), asked' = asked,
           going.at \in {"running", "paused", "asked", "cancelled"}, h.pending = going.pending,
           \/ /\ f = Approval(going.pending) /\ going.at = "paused" /\ h.at = "asked"
           \/ /\ f.is = h.status /\ h.status \in ChatEnds /\ h.at = "ended"
              /\ h.status = "completed" => going.pending = 0
              /\ h.status = "awaiting" => going.at = "asked"
    PROVE  ChatInv'
<1> DEFINE k == [h EXCEPT !.sent = Append(going.sent, f)]
<1>1. /\ ChatTypeOK /\ GoingOK(going) /\ going \in Going /\ going.sent \in Seq(ServerFrame) /\ AnswersItsOwn
      /\ socket \in [Tabs -> Socket]
  BY ChatTypes DEF ChatInv, ChatTypeOK
<1>2. /\ going' = k /\ socket' = Told(f, Followers) /\ UNCHANGED <<waits, page, missed, resumed, chatLeft>>
  BY DEF EmitFrame, chatHistory
<1>3. Append(going.sent, f) \in Seq(ServerFrame) /\ Items(Append(going.sent, f)) = Items(going.sent) \union {f}
      /\ ((\A x \in Items(going.sent) : x.is \notin ChatEnds) => LastLast(Append(going.sent, f)))
  BY <1>1, OneMore
<1>4. /\ k \in Going /\ k.at = h.at /\ k.pending = going.pending /\ k.status = h.status
      /\ k.sent = Append(going.sent, f)
  BY <1>1, <1>3 DEF Going
<1> HIDE DEF k
<1>5. /\ f.is = "approval" => f = Approval(going.pending) /\ f.of = going.pending
      /\ f.is \in ChatEnds => k.at = "ended"
      /\ k.at = "ended" => f.is # "approval" /\ f.is = k.status /\ k.status \in ChatEnds
      /\ k.at # "ended" => f = Approval(going.pending) /\ k.at = "asked"
      /\ k.at \in {"asked", "ended"}
  BY <1>4 DEF Approval, ChatEnds
<1>6. Announced(k) => Announced(going) \/ f = Approval(going.pending)
  BY <1>4, <1>5 DEF Announced
<1>7. GoingOK(k)
  <2>1. /\ Announces(going.sent, going.pending) /\ (\A x \in Items(going.sent) : x.is \notin ChatEnds)
        /\ Announced(going) => Approval(going.pending) \in Items(going.sent)
    BY <1>1 DEF GoingOK
  <2>2. Announces(k.sent, k.pending) /\ LastLast(k.sent)
    BY <1>3, <1>4, <1>5, <2>1 DEF Announces
  <2>3. Announced(k) => Approval(k.pending) \in Items(k.sent)
    BY <1>3, <1>4, <1>6, <2>1
  <2>4. k.at = "ended" => k.status \in ChatEnds /\ (k.status = "completed" => k.pending = 0)
    BY <1>4, <1>5
  <2>5. k.at # "ended" => \A x \in Items(k.sent) : x.is \notin ChatEnds
    BY <1>3, <1>4, <1>5, <2>1
  <2> QED  BY <1>5, <2>2, <2>3, <2>4, <2>5 DEF GoingOK
<1>8. ASSUME NEW x \in Tabs
      PROVE  socket'[x] \in Socket /\ TabOK(socket'[x], page'[x], x \notin missed', waits', k)
  <2> DEFINE s == socket[x]
             pg == page[x]
             told == x \notin missed
             z == [s EXCEPT !.queue = Append(@, f)]
  <2>1. s \in Socket /\ pg \in Page /\ told \in BOOLEAN /\ TabOK(s, pg, told, waits, going)
        /\ s.queue \in Seq(ServerFrame)
    BY <1>1, ChatTypes DEF ChatInv
  <2>2. CASE x \in Followers
    <3>1. socket'[x] = z
      BY <1>2, <2>2 DEF Told
    <3>2. Follows(s) /\ s.outcome = "none"
      BY <2>2 DEF Followers, Follows
    <3>3. /\ Append(s.queue, f) \in Seq(ServerFrame) /\ Items(Append(s.queue, f)) = Items(s.queue) \union {f}
          /\ ((\A y \in Items(s.queue) : y.is \notin ChatEnds) => LastLast(Append(s.queue, f)))
      BY <2>1, OneMore
    <3>4. /\ z \in Socket /\ z.queue = Append(s.queue, f) /\ z.at = s.at /\ z.outcome = "none" /\ z.left = s.left
          /\ z.deferred = s.deferred
      BY <2>1, <3>2, <3>3 DEF Socket
    <3> HIDE DEF z
    <3>5. FollowOK(s, pg, going) /\ BusyOK(s, pg)
      BY <2>1, <3>2 DEF TabOK
    <3>6. /\ s.at \notin {"over", "stopped"} /\ (\A y \in Items(s.queue) : y.is \notin ChatEnds)
          /\ Announces(s.queue, going.pending)
          /\ Announced(going) => Approval(going.pending) \in Items(s.queue) \/ Shows(s, pg, going.pending)
      BY <3>2, <3>5 DEF FollowOK
    <3>7. LastLast(z.queue) /\ Announces(z.queue, k.pending)
      BY <1>4, <1>5, <3>3, <3>4, <3>6 DEF Announces
    <3>8. Announced(k) => Approval(k.pending) \in Items(z.queue) \/ Shows(z, pg, k.pending)
      BY <1>4, <1>6, <3>3, <3>4, <3>6 DEF Shows
    <3>9. k.at # "ended" => \A y \in Items(z.queue) : y.is \notin ChatEnds
      BY <1>5, <3>3, <3>4, <3>6
    <3>10. FollowOK(z, pg, k)
      BY <1>5, <3>4, <3>6, <3>7, <3>8, <3>9 DEF FollowOK
    <3>11. BusyOK(z, pg)
      BY <3>4, <3>5 DEF BusyOK
    <3>12. Follows(z) /\ (told => TabTold(z, pg, waits, k))
      BY <3>2, <3>4 DEF Follows, TabTold
    <3>13. TabOK(z, pg, told, waits, k)
      BY <3>10, <3>11, <3>12 DEF TabOK
    <3> QED  BY <1>2, <3>1, <3>4, <3>13
  <2>3. CASE x \notin Followers
    <3>1. socket'[x] = s
      BY <1>2, <2>3 DEF Told
    <3>2. Follows(s) => s.outcome # "none"
      BY <2>3 DEF Followers, Follows
    <3>3. k.at # "none"
      BY <1>5
    <3> HIDE DEF s, pg, told
    <3>4. TabOK(s, pg, told, waits, k)
      BY <2>1, <3>2, <3>3, OtherTurn
    <3> QED  BY <1>2, <2>1, <3>1, <3>4 DEF pg, told
  <2> QED  BY <2>2, <2>3
<1>9. socket' \in [Tabs -> Socket]
  <2>1. socket' = [x \in Tabs |-> socket'[x]]
    BY <1>2 DEF Told
  <2> QED  BY <1>8, <2>1
<1>10. ChatTypeOK'
  BY <1>1, <1>2, <1>4, <1>9 DEF ChatTypeOK
<1> QED  BY <1>1, <1>2, <1>7, <1>8, <1>10 DEF ChatInv, AnswersItsOwn

\* The running turn goes on and sends nothing: none of its followers notices.
LEMMA SilentInv ==
    ASSUME ChatInv, NEW h \in Going, going' = h, asked' \in Nat,
           UNCHANGED <<waits, socket, page, missed, resumed, chatLeft>>,
           going.at = "running", h.at \in {"running", "paused"}, h.sent = going.sent
    PROVE  ChatInv'
<1>1. ChatTypeOK /\ GoingOK(going) /\ AnswersItsOwn
  BY DEF ChatInv
<1>2. GoingOK(h)
  BY <1>1 DEF GoingOK, Announces, Announced
<1>3. ASSUME NEW x \in Tabs
      PROVE  TabOK(socket[x], page[x], x \notin missed, waits, h)
  <2> DEFINE s == socket[x]
             pg == page[x]
             told == x \notin missed
  <2>1. s \in Socket /\ pg \in Page /\ told \in BOOLEAN /\ TabOK(s, pg, told, waits, going)
    BY <1>1, ChatTypes DEF ChatInv
  <2> HIDE DEF s, pg, told
  <2>2. FollowOK(s, pg, going) => FollowOK(s, pg, h)
    BY DEF FollowOK, Announces, Announced
  <2>3. TabTold(s, pg, waits, going) => TabTold(s, pg, waits, h)
    BY DEF TabTold
  <2>4. TabOK(s, pg, told, waits, h)
    BY <2>1, <2>2, <2>3 DEF TabOK
  <2> QED  BY <2>4 DEF s, pg, told
<1>4. ChatTypeOK'
  BY <1>1 DEF ChatTypeOK
<1> QED  BY <1>1, <1>2, <1>3, <1>4 DEF ChatInv, AnswersItsOwn

LEMMA TurnSaysInv ==
    ASSUME ChatInv, Proceed \/ PauseTurn \/ AskApproval \/ EndTurn
    PROVE  ChatInv'
<1>1. /\ going \in Going /\ asked \in Nat /\ going.pending \in Nat /\ GoingOK(going)
  BY ChatTypes DEF ChatInv
<1>2. CASE Proceed
  <2> DEFINE h == [going EXCEPT !.pending = 0]
  <2>1. h \in Going /\ h.at = going.at /\ h.sent = going.sent
    BY <1>1 DEF Going
  <2>2. /\ going' = h /\ going.at = "running"
        /\ UNCHANGED <<waits, asked, socket, page, missed, resumed, chatLeft>>
    BY <1>2 DEF Proceed, chatHistory
  <2> HIDE DEF h
  <2>3. h.at \in {"running", "paused"} /\ asked' \in Nat
    BY <1>1, <2>1, <2>2
  <2> QED  BY <2>1, <2>2, <2>3, SilentInv
<1>3. CASE PauseTurn
  <2> DEFINE h == [going EXCEPT !.at = "paused", !.pending = asked + 1]
  <2>1. h \in Going /\ h.at = "paused" /\ h.sent = going.sent
    <3>1. asked + 1 \in Nat
      BY <1>1
    <3> DEFINE n == asked + 1
    <3> HIDE DEF n
    <3>2. [going EXCEPT !.at = "paused", !.pending = n] \in Going
      BY <1>1, <3>1 DEF Going, n
    <3> QED  BY <1>1, <3>2 DEF Going, n
  <2>2. /\ going' = h /\ going.at = "running" /\ asked' = asked + 1
        /\ UNCHANGED <<waits, socket, page, missed, resumed, chatLeft>>
    BY <1>3 DEF PauseTurn, chatHistory
  <2> HIDE DEF h
  <2>3. h.at \in {"running", "paused"} /\ asked' \in Nat
    BY <1>1, <2>1, <2>2
  <2> QED  BY <2>1, <2>2, <2>3, SilentInv
<1>4. CASE AskApproval
  <2> DEFINE f == [is |-> "approval", of |-> going.pending]
             h == [going EXCEPT !.at = "asked"]
  <2>1. f \in ServerFrame /\ f = Approval(going.pending)
    BY <1>1 DEF ServerFrame, Approval
  <2>2. h \in Going /\ h.at = "asked" /\ h.pending = going.pending
    BY <1>1 DEF Going
  <2>3. EmitFrame(f, h) /\ going.at = "paused" /\ asked' = asked
    BY <1>4 DEF AskApproval
  <2> HIDE DEF f, h
  <2> QED  BY <2>1, <2>2, <2>3, EmitInv
<1>5. CASE EndTurn
  <2>1. PICK status \in ChatEnds :
           /\ \/ going.at = "running" /\ going.pending = 0 /\ status = "completed"
              \/ going.at = "running" /\ status = "error"
              \/ going.at = "asked" /\ status = "awaiting"
              \/ going.at = "cancelled" /\ status = "cancelled"
           /\ EmitFrame([is |-> status, of |-> 0], [going EXCEPT !.at = "ended", !.status = status])
    BY <1>5 DEF EndTurn
  <2> DEFINE f == [is |-> status, of |-> 0]
             h == [going EXCEPT !.at = "ended", !.status = status]
  <2>2. f \in ServerFrame /\ f.is = status
    BY DEF ServerFrame
  <2>3. h \in Going /\ h.at = "ended" /\ h.pending = going.pending /\ h.status = status
    BY <1>1 DEF Going
  <2>4. EmitFrame(f, h) /\ asked' = asked
    BY <1>5, <2>1 DEF EndTurn
  <2>5. /\ going.at \in {"running", "paused", "asked", "cancelled"}
        /\ status = "completed" => going.pending = 0
        /\ status = "awaiting" => going.at = "asked"
    BY <2>1
  <2> HIDE DEF f, h
  <2> QED  BY <2>2, <2>3, <2>4, <2>5, EmitInv
<1> QED  BY <1>2, <1>3, <1>4, <1>5

LEMMA TimeOutInv ==
    ASSUME ChatInv, TimeOutDetached
    PROVE  ChatInv'
<1>1. ChatTypeOK /\ GoingOK(going) /\ going \in Going /\ AnswersItsOwn /\ waits \in Nat
  BY ChatTypes DEF ChatInv
<1>2. going' = Cancelling(going) /\ UNCHANGED <<waits, asked, socket, page, missed, resumed, chatLeft>>
  BY DEF TimeOutDetached, chatHistory
<1>3. going' \in Going /\ GoingOK(going')
  BY <1>1, <1>2, CancelledTurn
<1>4. ASSUME NEW x \in Tabs
      PROVE  TabOK(socket[x], page[x], x \notin missed, waits, Cancelling(going))
  <2> DEFINE told == x \notin missed
             s == socket[x]
             pg == page[x]
  <2>1. s \in Socket /\ pg \in Page /\ told \in BOOLEAN /\ TabOK(s, pg, told, waits, going)
    BY <1>1, ChatTypes DEF ChatInv
  <2> HIDE DEF told, s, pg
  <2>2. TabOK(s, pg, told, waits, Cancelling(going))
    BY <1>1, <2>1, CancelledTurn
  <2> QED  BY <2>2 DEF told, s, pg
<1>5. ChatTypeOK'
  BY <1>1, <1>2, <1>3 DEF ChatTypeOK
<1> QED  BY <1>1, <1>2, <1>3, <1>4, <1>5 DEF ChatInv, AnswersItsOwn

\* The turn's outcome: who follows it hears what it left, and nobody else was told.
LEMMA FinishInv ==
    ASSUME ChatInv, FinishTurn
    PROVE  ChatInv'
<1> DEFINE w == IF going.status = "error" THEN waits ELSE going.pending
<1>1. /\ ChatTypeOK /\ GoingOK(going) /\ going \in Going /\ AnswersItsOwn /\ waits \in Nat /\ going.pending \in Nat
      /\ going.status \in {"none"} \union ChatEnds
  BY ChatTypes DEF ChatInv
<1>2. /\ going.at = "ended" /\ waits' = w /\ going' = NoTurn /\ UNCHANGED <<asked, page, resumed, chatLeft>>
      /\ socket' = [t \in Tabs |-> IF t \in Followers
                     THEN [socket[t] EXCEPT !.outcome = going.status, !.left = going.pending]
                     ELSE socket[t]]
      /\ missed' = missed \union
           {t \in Tabs : socket[t].at # "away" /\ (t \in Followers => LeftUntold(t))}
  BY DEF FinishTurn
<1>3. w \in Nat /\ going.status \in ChatEnds /\ (going.status = "completed" => going.pending = 0)
      /\ (going.status # "error" => w = going.pending)
  BY <1>1, <1>2 DEF GoingOK
<1> HIDE DEF w
<1>4. NoTurn \in Going /\ GoingOK(NoTurn) /\ NoTurn.at = "none" /\ NoTurn.pending = 0
  <2>1. /\ NoTurn.at = "none" /\ NoTurn.sent = << >> /\ NoTurn.status = "none" /\ NoTurn.pending = 0
    BY DEF NoTurn
  <2>2. NoTurn \in Going
    <3>1. << >> \in Seq(ServerFrame)
      OBVIOUS
    <3> QED  BY <3>1 DEF NoTurn, Going
  <2>3. GoingOK(NoTurn)
    BY <2>1, NoItems DEF GoingOK, Announced
  <2> QED  BY <2>1, <2>2, <2>3
<1>5. ASSUME NEW x \in Tabs
      PROVE  socket'[x] \in Socket /\ TabOK(socket'[x], page'[x], x \notin missed', waits', NoTurn)
  <2> DEFINE s == socket[x]
             pg == page[x]
             z == [s EXCEPT !.outcome = going.status, !.left = going.pending]
  <2>1. s \in Socket /\ pg \in Page /\ TabOK(s, pg, x \notin missed, waits, going)
    BY <1>1, ChatTypes DEF ChatInv
  <2>2. CASE x \in Followers
    <3>1. socket'[x] = z
      BY <1>2, <2>2
    <3>2. Follows(s) /\ s.outcome = "none"
      BY <2>2 DEF Followers, Follows
    <3>3. /\ z \in Socket /\ z.at = s.at /\ z.queue = s.queue /\ z.deferred = s.deferred
          /\ z.outcome = going.status /\ z.left = going.pending
      BY <1>1, <2>1 DEF Socket
    <3> HIDE DEF z
    <3>4. FollowOK(s, pg, going) /\ BusyOK(s, pg)
      BY <2>1, <3>2 DEF TabOK
    <3>5. /\ LastLast(s.queue) /\ Announces(s.queue, going.pending)
          /\ s.at \in {"over", "stopped"} => s.queue = << >>
          /\ Announced(going) => Approval(going.pending) \in Items(s.queue) \/ Shows(s, pg, going.pending)
      BY <3>2, <3>4 DEF FollowOK
    <3>6. Shows(s, pg, going.pending) => Shows(z, pg, going.pending)
      BY <3>3 DEF Shows
    <3>7. z.outcome = "awaiting" => Approval(z.left) \in Items(z.queue) \/ Shows(z, pg, z.left)
      BY <1>2, <3>3, <3>5, <3>6 DEF Announced
    <3>8. FollowOK(z, pg, NoTurn)
      BY <1>3, <3>3, <3>5, <3>7 DEF FollowOK, ChatEnds
    <3>9. BusyOK(z, pg)
      BY <3>3, <3>4 DEF BusyOK
    <3>10. x \notin missed' => TabTold(z, pg, w, NoTurn)
      <4>1. x \notin missed' => ~LeftUntold(x)
        BY <1>2, <2>2, <3>2 DEF Follows
      <4> QED  BY <1>3, <3>2, <3>3, <4>1 DEF TabTold, Follows, LeftUntold
    <3>11. Follows(z)
      BY <3>2, <3>3 DEF Follows
    <3>12. TabOK(z, pg, x \notin missed', w, NoTurn)
      BY <3>8, <3>9, <3>10, <3>11 DEF TabOK
    <3> QED  BY <1>2, <3>1, <3>3, <3>12
  <2>3. CASE x \notin Followers
    <3>1. socket'[x] = s
      BY <1>2, <2>3
    <3>2. Follows(s) => s.outcome # "none"
      BY <2>3 DEF Followers, Follows
    <3>3. x \notin missed' => s.at = "away"
      BY <1>2, <2>3
    <3>4. Follows(s) => FollowOK(s, pg, NoTurn)
      BY <2>1, <3>2 DEF TabOK, FollowOK
    <3>5. TabOK(s, pg, x \notin missed', w, NoTurn)
      BY <2>1, <3>3, <3>4 DEF TabOK, TabTold, Follows
    <3> QED  BY <1>2, <2>1, <3>1, <3>5
  <2> QED  BY <2>2, <2>3
<1>6. socket' \in [Tabs -> Socket]
  <2>1. socket' = [x \in Tabs |-> socket'[x]]
    BY <1>2
  <2> QED  BY <1>5, <2>1
<1>7. missed' \in SUBSET Tabs
  BY <1>1, <1>2 DEF ChatTypeOK
<1>8. ChatTypeOK'
  BY <1>1, <1>2, <1>3, <1>4, <1>6, <1>7 DEF ChatTypeOK
<1> QED  BY <1>1, <1>2, <1>4, <1>5, <1>8 DEF ChatInv, AnswersItsOwn

-----------------------------------------------------------------------------
(* The theorems.                                                           *)

LEMMA ChatInitInv == ChatInit => ChatInv
<1> SUFFICES ASSUME ChatInit PROVE ChatInv
  OBVIOUS
<1> DEFINE s == [NoSocket EXCEPT !.at = "loaded"]
           pg == [card |-> 0, busy |-> FALSE, wire |-> << >>]
<1>1. /\ waits = 0 /\ asked = 0 /\ going = NoTurn /\ missed = {} /\ resumed = {}
      /\ socket = [t \in Tabs |-> s] /\ page = [t \in Tabs |-> pg]
      /\ chatLeft = [turns |-> MaxChatTurns, sent |-> MaxSent, drops |-> MaxDrops]
  BY DEF ChatInit
<1>2. s \in Socket /\ s.at = "loaded" /\ s.outcome = "none"
  BY NoSocketOK DEF Socket, SocketAt
<1>3. pg \in Page /\ pg.busy = FALSE
  <2>1. << >> \in Seq(PageFrame)
    OBVIOUS
  <2> QED  BY <2>1 DEF Page
<1>4. /\ NoTurn.at = "none" /\ NoTurn.sent = << >> /\ NoTurn.status = "none" /\ NoTurn.pending = 0
      /\ NoTurn \in Going
  <2>1. << >> \in Seq(ServerFrame)
    OBVIOUS
  <2> QED  BY <2>1 DEF NoTurn, Going
<1> HIDE DEF s, pg
<1>5. GoingOK(going)
  BY <1>1, <1>4, NoItems DEF GoingOK, Announced
<1>6. \A t \in Tabs : TabOK(socket[t], page[t], t \notin missed, waits, going)
  BY <1>1, <1>2, <1>3 DEF TabOK, Follows, BusyOK, TabTold, Shows
<1>7. ChatTypeOK
  BY <1>1, <1>2, <1>3, <1>4, ChatAssumption DEF ChatTypeOK
<1>8. AnswersItsOwn
  BY <1>1 DEF AnswersItsOwn
<1> QED  BY <1>5, <1>6, <1>7, <1>8 DEF ChatInv

LEMMA ChatNextInv == ChatInv /\ [ChatNext]_chatVars => ChatInv'
<1> SUFFICES ASSUME ChatInv, [ChatNext]_chatVars PROVE ChatInv'
  OBVIOUS
<1>1. ASSUME NEW t \in Tabs,
             \/ RespondToApproval(t) \/ SendMessage(t) \/ StopTurn(t) \/ LoadThread(t)
             \/ AcceptSocket(t) \/ Serve(t) \/ Drop(t)
             \/ Forward(t) \/ WatchInbound(t) \/ HearOutcome(t)
             \/ TakeDeferred(t) \/ Receive(t) \/ StartTurn(t)
      PROVE  ChatInv'
  BY <1>1, PageInv, ConnectInv, ForwardInv, WatchInv, HearInv, BetweenInv, StartInv
<1>2. CASE Proceed \/ PauseTurn \/ AskApproval \/ EndTurn \/ TimeOutDetached \/ FinishTurn
  BY <1>2, TurnSaysInv, TimeOutInv, FinishInv
<1>3. CASE UNCHANGED chatVars
  <2>1. UNCHANGED <<waits, asked, going, socket, page, missed, resumed, chatLeft>>
    BY <1>3 DEF chatVars, chatHistory
  <2> QED  BY <2>1 DEF ChatInv, ChatTypeOK, AnswersItsOwn
<1> QED  BY <1>1, <1>2, <1>3 DEF ChatNext

LEMMA Settled == ChatInv => SettledShowsCard
<1> SUFFICES ASSUME ChatInv, NEW t \in Tabs \ missed, socket[t].at = "idle", Matching(t) = {},
                    page[t].wire = << >>, ~TurnGoes
             PROVE  /\ socket[t].pending = waits
                    /\ waits # 0 => page[t].card = waits
                    /\ ~page[t].busy
  BY DEF SettledShowsCard
<1>1. TabOK(socket[t], page[t], t \notin missed, waits, going)
  BY DEF ChatInv
<1>2. socket[t].pending = waits /\ Shows(socket[t], page[t], waits) /\ BusyOK(socket[t], page[t])
  BY <1>1 DEF TabOK, TabTold
<1>3. waits # 0 => waits \notin socket[t].deferred
  BY <1>2 DEF Matching
<1>4. Items(page[t].wire) = {}
  BY NoItems
<1> QED  BY <1>2, <1>3, <1>4 DEF Shows, BusyOK

LEMMA ChatInvariant == ChatSpec => []ChatInv
BY ChatInitInv, ChatNextInv, PTL DEF ChatSpec

\* The sockets, the pages, what a turn has sent and what each resume answered are of their types.
THEOREM ChatTypesCorrect == ChatSpec => []ChatTypeOK
<1>1. ChatInv => ChatTypeOK
  BY DEF ChatInv
<1> QED  BY <1>1, ChatInvariant, PTL

\* A tab that was told of every turn's end resumes only the approval it was shown: the decisions
\* go to the calls they were made for (`_start_turn` of chat_ws.py, `respondToApproval` of useChat.ts).
THEOREM ResumesItsOwn == ChatSpec => []AnswersItsOwn
<1>1. ChatInv => AnswersItsOwn
  BY DEF ChatInv
<1> QED  BY <1>1, ChatInvariant, PTL

\* Once nothing is on its way such a tab shows the approval the thread waits on, and is not busy,
\* whatever was answered or cancelled while it was announced (`_follow_turn`, #181, #189).
THEOREM CardIsShown == ChatSpec => []SettledShowsCard
BY Settled, ChatInvariant, PTL

\* With the types: a tab that was told of every end shows what waits, and answers only that.
THEOREM TabsTold == ChatSpec => []TabsAreTold
<1>1. ChatTypeOK /\ SettledShowsCard /\ AnswersItsOwn => TabsAreTold
  BY DEF TabsAreTold
<1> QED  BY <1>1, ChatTypesCorrect, CardIsShown, ResumesItsOwn, PTL
==============================================================================
