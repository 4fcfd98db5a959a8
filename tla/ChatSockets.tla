----------------------------- MODULE ChatSockets -----------------------------
(***************************************************************************)
(* The chat sockets of one thread and the pages behind them: `chat_ws` of  *)
(* services/agent-server/app/api/chat_ws.py, GET .../state of api/chat.py, *)
(* and lib/useChat.ts with lib/chatSocket.ts of services/frontend.         *)
(*                                                                         *)
(* Each socket is one asyncio task; an action is what it does between two  *)
(* awaits at which something else could change what it goes on to use.     *)
(* Turns are TurnRunner's, told here by the frames they send and by what   *)
(* they leave waiting.  What the server sends reaches the page at once;    *)
(* what the page sends may wait on its wire.                               *)
(***************************************************************************)
EXTENDS Naturals, FiniteSets, Sequences

CONSTANTS
    Tabs,           \* pages open on the thread, each with a socket
    MaxAsked,       \* bound: approvals asked on the thread
    MaxChatTurns,   \* bound: turns started
    MaxSent,        \* bound: frames the pages send
    MaxDrops        \* bound: connections that break

ASSUME ChatAssumption ==
    /\ MaxAsked \in Nat /\ MaxChatTurns \in Nat /\ MaxSent \in Nat /\ MaxDrops \in Nat

VARIABLES
    waits,     \* the interrupt the thread's active tip waits on (0: none)
    asked,     \* how many interrupts the thread has had
    going,     \* the running turn
    socket,    \* each tab's connection, on the server
    page,      \* what the tab shows, and its frames on their way
    missed,    \* history: tabs that were not told how a turn ended since they loaded the thread
    resumed,   \* history: which interrupt each resume answered, and which one waited
    chatLeft   \* what is left of the bounds

chatHistory == <<missed, resumed>>
chatVars == <<waits, asked, going, socket, page, chatHistory, chatLeft>>

ChatEnds    == {"completed", "awaiting", "cancelled", "error"}
ServerFrame == [is : {"start", "approval"} \union ChatEnds, of : Nat]
PageFrame   == [is : {"message", "cancel", "answer"}, of : Nat]

\* `pending` is what the turn's latest checkpoint waits on; `status` its last frame's.
Going   == [at : {"none", "running", "paused", "asked", "cancelled", "ended"},
            pending : Nat, sent : Seq(ServerFrame), status : {"none"} \union ChatEnds]
NoTurn  == [at |-> "none", pending |-> 0, sent |-> << >>, status |-> "none"]
\* `stopping`: following, after a cancel frame; `over`: the turn's last frame is forwarded.
SocketAt == {"away", "loaded", "accepted", "idle", "starting", "following", "stopping",
             "over", "stopped"}
Socket  == [at : SocketAt, pending : Nat, deferred : SUBSET Nat, starts : Nat,
            queue : Seq(ServerFrame), outcome : {"none"} \union ChatEnds, left : Nat]
NoSocket == [at |-> "away", pending |-> 0, deferred |-> {}, starts |-> 0,
             queue |-> << >>, outcome |-> "none", left |-> 0]
Page    == [card : Nat, busy : BOOLEAN, wire : Seq(PageFrame)]

ChatTypeOK ==
    /\ waits \in Nat /\ asked \in Nat /\ going \in Going
    /\ socket \in [Tabs -> Socket] /\ page \in [Tabs -> Page]
    /\ missed \in SUBSET Tabs
    /\ resumed \in SUBSET [by : Tabs, answered : Nat, waited : Nat, missed : BOOLEAN]
    /\ chatLeft \in [turns : Nat, sent : Nat, drops : Nat]

ChatInit ==
    /\ waits = 0 /\ asked = 0 /\ going = NoTurn
    /\ socket = [t \in Tabs |-> [NoSocket EXCEPT !.at = "loaded"]]
    /\ page = [t \in Tabs |-> [card |-> 0, busy |-> FALSE, wire |-> << >>]]
    /\ missed = {} /\ resumed = {}
    /\ chatLeft = [turns |-> MaxChatTurns, sent |-> MaxSent, drops |-> MaxDrops]

TurnGoes == going.at # "none"

\* Whose `_follow_turn` is still about the running turn.
Followers == {t \in Tabs : socket[t].at \in {"following", "stopping", "over", "stopped"}
                           /\ socket[t].outcome = "none"}

Told(frame, tabs) ==
    [t \in Tabs |-> IF t \in tabs THEN [socket[t] EXCEPT !.queue = Append(@, frame)] ELSE socket[t]]

-----------------------------------------------------------------------------
(* The page: answering its card, sending a message, stopping.              *)

Sends(t, frame, shown) ==
    /\ chatLeft.sent > 0 /\ chatLeft' = [chatLeft EXCEPT !.sent = @ - 1]
    /\ page' = [page EXCEPT ![t] = [shown EXCEPT !.wire = Append(@, frame)]]
    /\ UNCHANGED <<waits, asked, going, socket, chatHistory>>

RespondToApproval(t) ==
    /\ page[t].card # 0
    /\ Sends(t, [is |-> "answer", of |-> page[t].card],
             [page[t] EXCEPT !.card = 0, !.busy = TRUE])

SendMessage(t) ==
    /\ page[t].card = 0 /\ ~page[t].busy
    /\ Sends(t, [is |-> "message", of |-> 0], [page[t] EXCEPT !.busy = TRUE])

StopTurn(t) ==
    /\ page[t].busy
    /\ Sends(t, [is |-> "cancel", of |-> 0], page[t])

\* `loadThread`, at first and before each reconnect; a running turn's replay
\* will announce any approval it reaches.
LoadThread(t) ==
    /\ socket[t].at = "away"
    /\ socket' = [socket EXCEPT ![t].at = "loaded"]
    /\ page' = [page EXCEPT ![t].card = IF TurnGoes THEN 0 ELSE waits, ![t].busy = FALSE]
    /\ missed' = missed \ {t}
    /\ UNCHANGED <<waits, asked, going, resumed, chatLeft>>

-----------------------------------------------------------------------------
(* Connecting, and losing the connection.                                  *)

\* The connection ends, from either side: frames not read yet are lost.  An error frame
\* before it makes the page idle.
Away(t, busy) ==
    /\ socket' = [socket EXCEPT ![t] = NoSocket]
    /\ page' = [page EXCEPT ![t].busy = busy, ![t].wire = << >>]

\* The thread's row is read, and with its tip what waits there.
AcceptSocket(t) ==
    /\ socket[t].at = "loaded"
    /\ socket' = [socket EXCEPT ![t].at = "accepted", ![t].pending = waits]
    /\ UNCHANGED <<waits, asked, going, page, chatHistory, chatLeft>>

\* Once a delegation is obtained: follow the running turn, if any, from its start.
Serve(t) ==
    /\ socket[t].at = "accepted"
    /\ socket' = [socket EXCEPT ![t] =
         IF TurnGoes
         THEN [@ EXCEPT !.at = "following", !.queue = <<[is |-> "start", of |-> 0]>> \o going.sent]
         ELSE [@ EXCEPT !.at = "idle"]]
    /\ UNCHANGED <<waits, asked, going, page, chatHistory, chatLeft>>

\* Not while the socket starts a turn: it finds out once it follows that turn.
Drop(t) ==
    /\ socket[t].at \notin {"away", "starting"}
    /\ chatLeft.drops > 0 /\ chatLeft' = [chatLeft EXCEPT !.drops = @ - 1]
    /\ Away(t, page[t].busy)
    /\ UNCHANGED <<waits, asked, going, chatHistory>>

-----------------------------------------------------------------------------
(* The running turn.                                                       *)

EmitFrame(frame, turn) ==
    /\ going' = [turn EXCEPT !.sent = Append(going.sent, frame)]
    /\ socket' = Told(frame, Followers)
    /\ UNCHANGED <<waits, page, chatHistory, chatLeft>>

\* Its first checkpoint is past the interrupt it started from.
Proceed ==
    /\ going.at = "running" /\ going.pending # 0
    /\ going' = [going EXCEPT !.pending = 0]
    /\ UNCHANGED <<waits, asked, socket, page, chatHistory, chatLeft>>

\* A tool call has to be approved: the interrupt is in the checkpoint.
PauseTurn ==
    /\ going.at = "running" /\ going.pending = 0 /\ asked < MaxAsked
    /\ asked' = asked + 1
    /\ going' = [going EXCEPT !.at = "paused", !.pending = asked + 1]
    /\ UNCHANGED <<waits, socket, page, chatHistory, chatLeft>>

AskApproval ==
    /\ going.at = "paused"
    /\ EmitFrame([is |-> "approval", of |-> going.pending], [going EXCEPT !.at = "asked"])
    /\ UNCHANGED asked

EndTurn ==
    /\ \E status \in ChatEnds :
         /\ \/ going.at = "running" /\ going.pending = 0 /\ status = "completed"
            \/ going.at = "running" /\ status = "error"
            \/ going.at = "asked" /\ status = "awaiting"
            \/ going.at = "cancelled" /\ status = "cancelled"
         /\ EmitFrame([is |-> status, of |-> 0], [going EXCEPT !.at = "ended", !.status = status])
    /\ UNCHANGED asked

\* `turn.cancel()`: nothing once the last frame is sent.
Cancelling(turn) ==
    IF turn.at \in {"running", "paused", "asked"} THEN [turn EXCEPT !.at = "cancelled"] ELSE turn

\* Nobody has followed it for `agent_detached_turn_timeout_s`.
TimeOutDetached ==
    /\ going.at \in {"running", "paused", "asked"} /\ Followers = {}
    /\ going' = Cancelling(going)
    /\ UNCHANGED <<waits, asked, socket, page, chatHistory, chatLeft>>

\* Another tab cancelled the turn after it paused; only that one will show the approval again.
LeftUntold(t) ==
    going.status = "cancelled" /\ going.pending # 0 /\ socket[t].at \notin {"stopping", "stopped"}

\* The tip and the outcome are there, the lock is free; a turn that failed moves no tip.
FinishTurn ==
    /\ going.at = "ended"
    /\ waits' = IF going.status = "error" THEN waits ELSE going.pending
    /\ socket' = [t \in Tabs |-> IF t \in Followers
                   THEN [socket[t] EXCEPT !.outcome = going.status, !.left = going.pending]
                   ELSE socket[t]]
    /\ missed' = missed \union
         {t \in Tabs : socket[t].at # "away" /\ (t \in Followers => LeftUntold(t))}
    /\ going' = NoTurn
    /\ UNCHANGED <<asked, page, resumed, chatLeft>>

-----------------------------------------------------------------------------
(* Following a turn.                                                       *)

\* `_forward_frames`, and what the page makes of each frame; only a replayed
\* turn_start makes it busy.
Forward(t) ==
    /\ socket[t].at \in {"following", "stopping"} /\ socket[t].queue # << >>
    /\ LET frame == Head(socket[t].queue) IN
         /\ page' = [page EXCEPT ![t] =
              CASE frame.is = "start" -> [@ EXCEPT !.busy = TRUE]
                [] frame.is = "approval" -> [@ EXCEPT !.card = frame.of]
                [] OTHER -> [@ EXCEPT !.busy = FALSE]]
         /\ socket' = [socket EXCEPT ![t].queue = Tail(@),
              ![t].at = IF frame.is \notin ChatEnds THEN @
                        ELSE IF @ = "following" THEN "over" ELSE "stopped"]
    /\ UNCHANGED <<waits, asked, going, chatHistory, chatLeft>>

\* Mutant of Held: an answer that comes while the turn still runs is ignored, too.
HeldNot(frame) == {}

\* What `_watch_inbound` keeps of a frame for when the turn has ended.
Held(frame) == IF frame.is = "answer" THEN {frame.of} ELSE {}

WatchInbound(t) ==
    /\ socket[t].at = "following" /\ page[t].wire # << >>
    /\ LET frame == Head(page[t].wire) IN
         /\ page' = [page EXCEPT ![t].wire = Tail(@)]
         /\ socket' = [socket EXCEPT ![t].deferred = @ \union Held(frame),
                                     ![t].at = IF frame.is = "cancel" THEN "stopping" ELSE @]
         /\ going' = IF frame.is = "cancel" /\ t \in Followers THEN Cancelling(going) ELSE going
    /\ UNCHANGED <<waits, asked, missed, resumed, chatLeft>>

\* Mutant of Reannounces: the card a cancelled turn left is not shown again.
ReannouncesNot(t) == FALSE

\* A cancel came too late for the pause, and the page has not answered it yet (#189).
Reannounces(t) ==
    /\ socket[t].at = "stopped" /\ socket[t].outcome = "cancelled"
    /\ socket[t].left # 0 /\ socket[t].left \notin socket[t].deferred

HearOutcome(t) ==
    /\ socket[t].at \in {"over", "stopped"} /\ socket[t].outcome # "none"
    /\ IF socket[t].outcome = "error"
       THEN Away(t, page[t].busy)
       ELSE /\ socket' = [socket EXCEPT ![t] = [NoSocket EXCEPT !.at = "idle",
                            !.pending = socket[t].left, !.deferred = socket[t].deferred]]
            /\ page' = IF Reannounces(t)
                       THEN [page EXCEPT ![t].card = socket[t].left, ![t].busy = FALSE] ELSE page
    /\ UNCHANGED <<waits, asked, going, chatHistory, chatLeft>>

-----------------------------------------------------------------------------
(* Between turns.                                                          *)

\* Mutant of Matching: any answer held is taken for one to what waits.
MatchingAny(t) == IF socket[t].pending = 0 THEN {} ELSE socket[t].deferred

\* The answers `_take_deferred_approval` finds to what waits.
Matching(t) == socket[t].deferred \intersect ({socket[t].pending} \ {0})

\* On its way to `_start_turn`, to resume `of` (0: with a message).
Starting(t, of) ==
    socket' = [socket EXCEPT ![t].at = "starting", ![t].starts = of, ![t].deferred = {}]

TakeDeferred(t) ==
    /\ socket[t].at = "idle"
    /\ \E of \in Matching(t) : Starting(t, of)
    /\ UNCHANGED <<waits, asked, going, page, chatHistory, chatLeft>>

Receive(t) ==
    /\ socket[t].at = "idle" /\ Matching(t) = {} /\ page[t].wire # << >>
    /\ LET frame == Head(page[t].wire)
           pending == socket[t].pending
           read == page' = [page EXCEPT ![t].wire = Tail(@)]
       IN
         \/ /\ pending # 0 /\ (frame.is = "cancel" \/ frame = [is |-> "answer", of |-> pending])
            /\ Starting(t, pending) /\ read
         \/ /\ pending = 0 /\ frame.is = "message"
            /\ Starting(t, 0) /\ read
         \/ /\ pending = 0 /\ frame.is = "cancel"
            /\ socket' = [socket EXCEPT ![t].deferred = {}] /\ read
         \/ \* an error and code 1008
            /\ IF pending = 0 THEN frame.is = "answer"
                              ELSE frame.is # "cancel" /\ frame # [is |-> "answer", of |-> pending]
            /\ Away(t, FALSE)
    /\ UNCHANGED <<waits, asked, going, chatHistory, chatLeft>>

\* `_start_turn` has the thread's lock: the delegation is refused or a call
\* raises; or the turn starts from the active tip, followed by who started it.
StartTurn(t) ==
    /\ socket[t].at = "starting" /\ ~TurnGoes
    /\ \/ /\ \E busy \in {page[t].busy, FALSE} : Away(t, busy)
          /\ UNCHANGED <<going, resumed, chatLeft>>
       \/ /\ chatLeft.turns > 0 /\ chatLeft' = [chatLeft EXCEPT !.turns = @ - 1]
          /\ going' = [NoTurn EXCEPT !.at = "running", !.pending = waits]
          /\ socket' = [socket EXCEPT ![t].at = "following", ![t].queue = << >>]
          /\ resumed' = IF socket[t].starts = 0 THEN resumed
                        ELSE resumed \union {[by |-> t, answered |-> socket[t].starts,
                                              waited |-> waits, missed |-> t \in missed]}
          /\ UNCHANGED page
    /\ UNCHANGED <<waits, asked, missed>>

ChatNext ==
    \/ \E t \in Tabs :
         \/ RespondToApproval(t) \/ SendMessage(t) \/ StopTurn(t) \/ LoadThread(t)
         \/ AcceptSocket(t) \/ Serve(t) \/ Drop(t)
         \/ Forward(t) \/ WatchInbound(t) \/ HearOutcome(t)
         \/ TakeDeferred(t) \/ Receive(t) \/ StartTurn(t)
    \/ Proceed \/ PauseTurn \/ AskApproval \/ EndTurn \/ TimeOutDetached \/ FinishTurn

ChatSpec == ChatInit /\ [][ChatNext]_chatVars

-----------------------------------------------------------------------------
(* Properties.                                                             *)

\* Between turns, with nothing on its way, a tab that was told of every turn's end since it
\* loaded the thread shows the approval the thread waits on, and is not busy: whatever was answered
\* or cancelled while the approval was being announced (#181, #189).
SettledShowsCard ==
    \A t \in Tabs \ missed :
        /\ socket[t].at = "idle" /\ Matching(t) = {} /\ page[t].wire = << >> /\ ~TurnGoes
        => /\ socket[t].pending = waits
           /\ waits # 0 => page[t].card = waits
           /\ ~page[t].busy

\* Such a tab resumes what it was shown: the decisions go to the calls they were made for.
AnswersItsOwn == \A r \in resumed : ~r.missed => r.answered = r.waited

\* Both, with the types.
TabsAreTold == ChatTypeOK /\ SettledShowsCard /\ AnswersItsOwn

\* "approval_response (matching the pending interrupt_id, with one decision per pending
\* tool_call_id)": decisions never go to another interrupt than the one they answer.
AnswersWhatWaits == \A r \in resumed : r.waited \in {0, r.answered}
=============================================================================
