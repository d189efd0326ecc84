----------------------------- MODULE MCDispatch -----------------------------
(* Instances of Dispatch for TLC.                                          *)
EXTENDS Dispatch, TLC

CONSTANTS c1, c2, c3, p1, p2

OneProcess == [c \in Call |-> p1]
TwoProcesses == [c \in Call |-> IF c = c1 THEN p1 ELSE p2]

Symmetry == Permutations(Call)

\* The calls of one process.
SamePlace == Permutations({c2, c3})
=============================================================================
