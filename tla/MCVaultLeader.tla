--------------------------- MODULE MCVaultLeader ----------------------------
(* The instance of VaultLeader for TLC.                                    *)
EXTENDS VaultLeader

CONSTANTS q1, q2
=============================================================================
