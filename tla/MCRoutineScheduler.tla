------------------------- MODULE MCRoutineScheduler -------------------------
(* Instances of RoutineScheduler for TLC: a daily routine (and a delivered *)
(* one) with a period of two ticks, and a one-shot.                        *)
EXTENDS RoutineScheduler
=============================================================================
