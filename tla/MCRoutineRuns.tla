---------------------------- MODULE MCRoutineRuns ----------------------------
(* RoutineScheduler for TLC with one routine at a time: a delivered one is  *)
(* claimed through restarts and faults; one of their own people run,        *)
(* answer, switch and delete, for a shorter time and one run.               *)
EXTENDS RoutineScheduler

CONSTANTS daily, review

RunsInit == Init /\ Cardinality(alive) = 1

RunsSpec == RunsInit /\ [][Next]_vars

PeopleAct ==
    \/ \E r \in Routines : RunNow(r) \/ Switch(r) \/ Delete(r)
    \/ \E i \in DOMAIN runs : Answer(i) \/ DeleteThread(i)

\* Who acts on which routine, and for how long: people without chats, and until their one
\* run is dropped.
Casting ==
    IF routine[review].here
    THEN ~PeopleAct /\ stale' = << >>
    ELSE /\ now' <= 3 /\ Len(runs') <= 1 /\ dropped = {} /\ ~ChatStarts
         /\ ~TickFails /\ ~Restart /\ \A r \in Routines : ~GrantDies(r) /\ ~AdminSwitches(r)

\* "Nothing fires twice", "a backlog never piles up": each time a routine was due has one
\* run and one turn of the scheduler's, and what was due before a claim is not claimed after.
FiresWhenDue == FiresOnce /\ NoBacklog

\* Through restarts and faults a queued run is in exactly one place from which a worker
\* takes it; a run recorded as running has a task that will record how it ends.
RunsAreServed == QueuedIsServed /\ RunningIsFollowed
===============================================================================
