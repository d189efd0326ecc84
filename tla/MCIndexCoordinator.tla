------------------------- MODULE MCIndexCoordinator -------------------------
(* The instance of IndexCoordinator for TLC: three keys of one vault.      *)
EXTENDS IndexCoordinator

CONSTANTS a, b, c, v

VaultOfKey == [k \in Key |-> v]

\* Two submissions of one key beside one of each other.
BurstOfMany == [k \in Key |-> IF k = a THEN 2 ELSE 1]
=============================================================================
