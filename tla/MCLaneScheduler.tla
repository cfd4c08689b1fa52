-------------------------- MODULE MCLaneScheduler --------------------------
(* Small instances of LaneScheduler: three tasks in two waves on two lanes.  *)
EXTENDS LaneScheduler

CONSTANTS t1, t2, t3

(* Wave 1 runs t1 and t2 side by side, wave 2 runs t3 on the first lane. *)
ThreeTasks == << << << <<t1>>, <<t2>> >> >>, << << <<t3>>, <<>> >> >> >>

(* Wave 1 has two ticks for the first lane: a resume takes t1 and t2 in one  *)
(* queue, the engine of a start one after the other.                         *)
TwoTicks == << << << <<t1>>, <<>> >>, << <<t2>>, <<>> >> >>,
               << << <<>>, <<t3>> >> >> >>

(* t3 shares files with the task that ran on the other lane. *)
NeedsT2 == [t \in Task |-> IF t = t3 THEN {t2} ELSE {}]
NeedsT1 == [t \in Task |-> IF t = t3 THEN {t1} ELSE {}]
=============================================================================
