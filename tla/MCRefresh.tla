------------------------------ MODULE MCRefresh ------------------------------
(* The instance of Refresh for TLC.                                        *)
EXTENDS Refresh, TLC

CONSTANTS r1, r2

Symmetry == Permutations(Req)
=============================================================================
