------------------------------ MODULE SlotPool ------------------------------
(* What acquireLaneSlot and releaseLaneSlot promise to the tasks of a batch  *)
(* (src/src/batch/engine-lanes/matrix.mjs): each slot has one holder at most *)
(* and nobody holds two.  A slot may pass from one holder to another in one  *)
(* step, and all are free again when the engine is gone.                     *)
EXTENDS Naturals

CONSTANTS Actor, Slots

VARIABLE slot   \* the slot each actor holds, 0 for none

Init == slot = [a \in Actor |-> 0]

Acquire(a, s) ==
  /\ slot[a] = 0 /\ \A b \in Actor : slot[b] # s
  /\ slot' = [slot EXCEPT ![a] = s]

Release(a) == slot[a] # 0 /\ slot' = [slot EXCEPT ![a] = 0]

HandOver(a, b) ==
  /\ slot[a] # 0 /\ slot[b] = 0
  /\ slot' = [slot EXCEPT ![a] = 0, ![b] = slot[a]]

Reset == slot' = [a \in Actor |-> 0]

Next ==
  \/ \E a \in Actor : Release(a) \/ (\E s \in Slots : Acquire(a, s))
  \/ \E a, b \in Actor : HandOver(a, b)
  \/ Reset

Spec == Init /\ [][Next]_slot

(* No slot has two holders. *)
Exclusive == \A a, b \in Actor : a # b /\ slot[a] # 0 => slot[a] # slot[b]
=============================================================================
