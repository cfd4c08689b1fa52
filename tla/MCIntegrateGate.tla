-------------------------- MODULE MCIntegrateGate --------------------------
(* Small instances of IntegrateGate: an engine and two commands at a time.   *)
EXTENDS IntegrateGate, TLC

CONSTANTS c1, c2

Interchangeable == Permutations(Operator)
=============================================================================
