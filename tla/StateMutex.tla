----------------------------- MODULE StateMutex -----------------------------
(* What the writers of .spine/batch-state.json expect of withBatchStateLock: *)
(* at most one process at a time is inside a critical section.               *)
CONSTANT Proc
VARIABLE inside        \* the processes that are running their section

Init == inside = {}

Enter(p) == inside = {} /\ inside' = {p}
Leave(p) == p \in inside /\ inside' = inside \ {p}

Next == \E p \in Proc : Enter(p) \/ Leave(p)

Spec == Init /\ [][Next]_inside
=============================================================================
