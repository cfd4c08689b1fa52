---------------------------- MODULE MCBatchState ----------------------------
(* Small instances of BatchState: which commands run, one process each.      *)
EXTENDS BatchState

CONSTANTS s1, s2, r1, r2, p1, p2, a1, c1, c2
=============================================================================
