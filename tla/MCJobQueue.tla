---------------------------- MODULE MCJobQueue ------------------------------
(* Instances of JobQueue for TLC.                                          *)
EXTENDS JobQueue, TLC

CONSTANTS r1, r2, s1, p1, p2, b1

OneHome == [w \in Worker |-> p1]
TwoHomes == [w \in Worker |-> IF w = r2 THEN p2 ELSE p1]

TwoKeys == [k \in Keyed |-> IF k = b1 THEN "audit" ELSE "synthesis"]
=============================================================================
