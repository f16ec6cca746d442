--------------------------- MODULE MCMasterLocks ---------------------------
(* Instances of MasterLocks for TLC. *)
EXTENDS MasterLocks, TLC

CONSTANTS h1, p1, s1

=============================================================================
