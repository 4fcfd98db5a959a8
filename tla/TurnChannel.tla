---------------------------- MODULE TurnChannel ----------------------------
(***************************************************************************)
(* What a turn promises those who watch it, whatever its task does: one    *)
(* turn at a time on the thread, each a log of frames that is heard in     *)
(* full and in order by everybody who follows it, however late they join,  *)
(* closed by telling every follower so.  TurnRunner implements it.         *)
(***************************************************************************)
EXTENDS Naturals, Sequences

CONSTANTS Clients, Finals

VARIABLES
    open,       \* a turn runs
    log,        \* the frames it has sent so far
    following,  \* who follows it
    heard       \* what each client heard of the turn it last followed

vars == <<open, log, following, heard>>

Init ==
    /\ open = FALSE /\ log = << >> /\ following = {}
    /\ heard = [c \in Clients |-> << >>]

Open(c) ==
    /\ ~open /\ open' = TRUE
    /\ log' = << >> /\ following' = {c}
    /\ heard' = [heard EXCEPT ![c] = << >>]

\* An approval is followed by nothing but a last frame, that by nothing.
MaySay(f) ==
    /\ \A i \in 1..Len(log) : log[i] \notin Finals
    /\ (\E i \in 1..Len(log) : log[i] = "approval_request") => f \in Finals

Say(f) ==
    /\ open /\ MaySay(f)
    /\ log' = Append(log, f)
    /\ heard' = [c \in Clients |-> IF c \in following THEN Append(heard[c], f) ELSE heard[c]]
    /\ UNCHANGED <<open, following>>

Join(c) ==
    /\ open /\ c \notin following
    /\ following' = following \cup {c}
    /\ heard' = [heard EXCEPT ![c] = log]
    /\ UNCHANGED <<open, log>>

Leave(c) ==
    /\ open /\ c \in following
    /\ following' = following \ {c}
    /\ UNCHANGED <<open, log, heard>>

Close ==
    /\ open /\ open' = FALSE
    /\ following' = {}
    /\ heard' = [c \in Clients |-> IF c \in following THEN Append(heard[c], "END") ELSE heard[c]]
    /\ UNCHANGED log

Next ==
    \/ \E c \in Clients : Open(c) \/ Join(c) \/ Leave(c)
    \/ \E f \in Finals \cup {"delta", "approval_request"} : Say(f)
    \/ Close

Spec == Init /\ [][Next]_vars
=============================================================================
