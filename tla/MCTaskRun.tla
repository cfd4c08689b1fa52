----------------------------- MODULE MCTaskRun -----------------------------
(* Small instances of TaskRun.                                               *)
EXTENDS TaskRun

(* One attempt for the plan, two for code and the final review. *)
OneTwoTwo == [t \in Type |-> IF t = "plan" THEN 1 ELSE 2]
=============================================================================
