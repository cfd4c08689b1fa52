-------------------------- MODULE MCBatchStateLock --------------------------
(* Instances of BatchStateLock for TLC.                                      *)
EXTENDS BatchStateLock

CONSTANTS p1, p2, p3
=============================================================================
