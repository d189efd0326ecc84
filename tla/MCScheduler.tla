---------------------------- MODULE MCScheduler ----------------------------
(* The instance of Scheduler for TLC.                                      *)
EXTENDS Scheduler

\* A short interval that backs off twice, one close to the cap, one beyond it.
Intervals == [j \in Job |-> CASE j = "queue" -> 1 [] j = "sweep" -> 3 [] OTHER -> 5]
=============================================================================
