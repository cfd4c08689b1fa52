---------------------------- MODULE MCMatrixTask ----------------------------
(* Small instances of MatrixTask.                                            *)
EXTENDS MatrixTask

CONSTANTS r1, r2, p1

TwoRows == <<r1, r2>>
=============================================================================
