----------------------------- MODULE MatrixTask -----------------------------
(* A matrix task: src/src/batch/engine-lanes/{matrix,matrix-run}.mjs, the    *)
(* row commands of src/src/batch/retry-row.mjs and retry.mjs.                *)
(*                                                                           *)
(* Each row of the task runs in a sub-lane worktree of its own, made off the *)
(* lane's branch.  The rows compete with the plain tasks of the other lanes  *)
(* for the slots of one pool; the parent task holds none.  When all rows     *)
(* have gone well they are merged into the lane one by one.  The engine is   *)
(* one thread: only its awaits let others in, a kill comes at any step.      *)
EXTENDS Naturals, Sequences, FiniteSets

CONSTANTS
  RowSeq,       \* the rows of the matrix, in their order
  Plain,        \* the plain tasks of the other lanes of the tick
  MaxParallel,  \* lanes.maxParallel
  RowLimit,     \* what resolveMatrixRowConcurrency returns
  Faults        \* of "kill", "save", "crash", "conflict"

Rows == {RowSeq[i] : i \in DOMAIN RowSeq}

ASSUME MatrixAssumption ==
  /\ RowSeq \in Seq(Rows) /\ \A i, j \in DOMAIN RowSeq : RowSeq[i] = RowSeq[j] => i = j
  /\ IsFiniteSet(Plain) /\ Rows \cap Plain = {}
  /\ MaxParallel \in Nat \ {0} /\ RowLimit \in 1..MaxParallel

Slots == 1..MaxParallel
Actor == Rows \cup Plain

RowStatus == {"pending", "running", "succeeded", "failed", "canceled"}
TaskStatus == {"pending", "running", "succeeded", "failed"}
Stage == {"none", "begin", "sweep", "merge", "commit", "record", "over"}
Job == {"idle", "waiting", "holding", "ready", "working", "over"}
Result == {"none", "ok", "failed", "noPlace", "crash", "thrown"}

(* The task and its rows in a state object: place is the slot in the path of *)
(* the worktree that is recorded for the row, 0 when none is.                *)
State == [task : TaskStatus, row : [Rows -> RowStatus], place : [Rows -> 0..MaxParallel]]

VARIABLES
  mem, disk,   \* the state object of the engine, and as last saved
  subLanes,    \* the sub-lane worktrees, named by row and slot
  landed,      \* rows whose work the lane's branch holds
  doneFile,    \* .DONE of the task: "none", "file" or "committed"
  stage,       \* what the engine does with the task
  resumed,     \* it is the engine of a resume
  todo,        \* rows no runner has taken yet
  job,         \* what each row and each plain task is doing
  slot,        \* the slot each of them holds
  inUse,       \* the pool's own record of the slots that are taken
  waiters,     \* those who wait for one
  result,      \* what runMatrixSubLane returned for the row in this sweep
  made,        \* the slot in the path of the worktree it made for the row
  carried      \* rows whose worktree is carried over from an earlier sweep

PoolVars == <<slot, inUse, waiters>>
DiskVars == <<disk, subLanes, landed, doneFile>>
SweepVars == <<todo, result, made, carried>>
vars == <<mem, disk, subLanes, landed, doneFile, stage, resumed, todo, job, slot,
          inUse, waiters, result, made, carried>>

Nowhere == [r \in Rows |-> 0]
NoSlots == [a \in Actor |-> 0]
NoResults == [r \in Rows |-> "none"]

Init ==
  /\ mem = [task |-> "pending", row |-> [r \in Rows |-> "pending"], place |-> Nowhere]
  /\ disk = mem /\ subLanes = {} /\ landed = {} /\ doneFile = "none"
  /\ stage = "begin" /\ resumed = FALSE
  /\ job = [a \in Actor |-> "idle"] /\ slot = NoSlots /\ inUse = {} /\ waiters = <<>>
  /\ todo = {} /\ result = NoResults /\ made = Nowhere /\ carried = {}
-----------------------------------------------------------------------------
(* The pool of slots.                                                        *)

(* Mutant: the first slot is given whether it is taken or not. *)
AnySlot == Slots

FreeSlots == Slots \ inUse
Lowest(S) == CHOOSE s \in S : \A t \in S : s <= t

(* What an actor does when it has its slot, and when it has given it back. *)
OnSlot(a) == IF a \in Rows THEN "holding" ELSE "working"
After(a) == IF a \in Rows THEN "idle" ELSE "over"

acquireLaneSlot(a) ==
  IF FreeSlots # {}
  THEN /\ slot' = [slot EXCEPT ![a] = Lowest(FreeSlots)]
       /\ inUse' = inUse \cup {Lowest(FreeSlots)}
       /\ job' = [job EXCEPT ![a] = OnSlot(a)]
       /\ UNCHANGED waiters
  ELSE /\ waiters' = Append(waiters, a)
       /\ job' = [job EXCEPT ![a] = "waiting"]
       /\ UNCHANGED <<slot, inUse>>

(* Mutant: the slot is freed and nobody is woken. *)
releaseWakesNobody(a) ==
  /\ slot' = [slot EXCEPT ![a] = 0] /\ inUse' = inUse \ {slot[a]}
  /\ job' = [job EXCEPT ![a] = After(a)] /\ UNCHANGED waiters

(* releaseLaneSlot: the oldest waiter gets the slot. *)
releaseLaneSlot(a) ==
  IF waiters = <<>>
  THEN /\ slot' = [slot EXCEPT ![a] = 0] /\ inUse' = inUse \ {slot[a]}
       /\ job' = [job EXCEPT ![a] = After(a)] /\ UNCHANGED waiters
  ELSE LET next == Head(waiters)
       IN /\ slot' = [slot EXCEPT ![a] = 0, ![next] = slot[a]]
          /\ job' = [job EXCEPT ![a] = After(a), ![next] = OnSlot(next)]
          /\ waiters' = Tail(waiters) /\ UNCHANGED inUse
-----------------------------------------------------------------------------
(* The plain tasks: those of a start hold a slot for the whole task, those   *)
(* of a resume hold none.                                                    *)

(* The engine is at an await of the sweep, or has not come to the task yet.  *)
MayInterleave == stage \in {"begin", "sweep", "over"}

StartPlain(p) ==
  /\ MayInterleave /\ job[p] = "idle"
  /\ IF resumed THEN job' = [job EXCEPT ![p] = "working"] /\ UNCHANGED PoolVars
                ELSE acquireLaneSlot(p)
  /\ UNCHANGED <<mem, DiskVars, stage, resumed, SweepVars>>

EndPlain(p) ==
  /\ MayInterleave /\ job[p] = "working"
  /\ IF slot[p] = 0 THEN job' = [job EXCEPT ![p] = "over"] /\ UNCHANGED PoolVars
                    ELSE releaseLaneSlot(p)
  /\ UNCHANGED <<mem, DiskVars, stage, resumed, SweepVars>>
-----------------------------------------------------------------------------
(* The sweep: runMatrixTaskOnLane and runMatrixSubLane.                      *)

CarriedOver(r) == mem.row[r] = "succeeded" /\ <<r, mem.place[r]>> \in subLanes

Runnable(r) == mem.row[r] = "pending" \/ (mem.row[r] = "succeeded" /\ ~CarriedOver(r))

(* A row that was left running by a killed engine, and one that failed and   *)
(* was not retried, are passed over.                                         *)
Begin ==
  /\ stage = "begin" /\ stage' = "sweep"
  /\ mem' = [mem EXCEPT !.task = "running",
               !.row = [r \in Rows |-> IF Runnable(r) THEN "pending" ELSE mem.row[r]]]
  /\ disk' = mem'
  /\ todo' = {r \in Rows : Runnable(r)}
  /\ carried' = {r \in Rows : CarriedOver(r)}
  /\ result' = NoResults /\ made' = Nowhere
  /\ UNCHANGED <<subLanes, landed, doneFile, resumed, job, PoolVars>>

(* The first of some rows in the order of the matrix. *)
First(S) ==
  RowSeq[CHOOSE i \in DOMAIN RowSeq : RowSeq[i] \in S /\ \A j \in 1..i-1 : RowSeq[j] \notin S]

AtWork == {r \in Rows : job[r] # "idle"}

(* runConcurrent: a runner takes the next row and asks for a slot. *)
TakeRow ==
  /\ stage = "sweep" /\ todo # {} /\ Cardinality(AtWork) < RowLimit
  /\ acquireLaneSlot(First(todo)) /\ todo' = todo \ {First(todo)}
  /\ UNCHANGED <<mem, DiskVars, stage, resumed, result, made, carried>>

MarkRunning(r) ==
  /\ stage = "sweep" /\ job[r] = "holding"
  /\ mem' = [mem EXCEPT !.row[r] = "running"] /\ disk' = mem'
  /\ job' = [job EXCEPT ![r] = "ready"]
  /\ UNCHANGED <<subLanes, landed, doneFile, stage, resumed, PoolVars, SweepVars>>

(* The save throws (the lock of the state timed out) before the try block    *)
(* whose finally would give the slot back: the pool never sees it again.     *)
MarkRunningThrows(r) ==
  /\ "save" \in Faults /\ stage = "sweep" /\ job[r] = "holding"
  /\ mem' = [mem EXCEPT !.row[r] = "running"]
  /\ job' = [job EXCEPT ![r] = "idle"] /\ slot' = [slot EXCEPT ![r] = 0]
  /\ result' = [result EXCEPT ![r] = "thrown"]
  /\ UNCHANGED <<DiskVars, stage, resumed, todo, inUse, waiters, made, carried>>

(* provisionMatrixSubLaneWorktree; the setup hook follows. *)
Provision(r) ==
  /\ stage = "sweep" /\ job[r] = "ready"
  /\ IF <<r, slot[r]>> \in subLanes
     THEN /\ result' = [result EXCEPT ![r] = "noPlace"]
          /\ releaseLaneSlot(r) /\ UNCHANGED <<subLanes, made>>
     ELSE /\ subLanes' = subLanes \cup {<<r, slot[r]>>}
          /\ made' = [made EXCEPT ![r] = slot[r]]
          /\ job' = [job EXCEPT ![r] = "working"] /\ UNCHANGED <<result, PoolVars>>
  /\ UNCHANGED <<mem, disk, landed, doneFile, stage, resumed, todo, carried>>

(* The hook, the command or the worker, the contract and the commit of the   *)
(* row's branch: all is well, one of them fails, or one of them throws.      *)
FinishRow(r) ==
  /\ stage = "sweep" /\ job[r] = "working"
  /\ \E x \in {"ok", "failed"} \cup ({"crash"} \cap Faults) :
       result' = [result EXCEPT ![r] = x]
  /\ releaseLaneSlot(r)
  /\ UNCHANGED <<mem, DiskVars, stage, resumed, todo, made, carried>>

SweepDone == stage = "sweep" /\ todo = {} /\ AtWork = {}
Swept == {r \in Rows : result[r] \notin {"none", "thrown"}}

RowsAfterSweep ==
  [r \in Rows |-> IF r \notin Swept THEN mem.row[r]
                  ELSE IF result[r] = "ok" THEN "succeeded" ELSE "failed"]

(* Mutant: a row that is neither failed nor succeeded does not count. *)
NoneFailed(row) == \A r \in Rows : row[r] # "failed"

(* aggregateMatrixOutcomes over the rows that are not canceled. *)
AllSucceeded(row) == \A r \in Rows : row[r] \in {"succeeded", "canceled"}

(* The worktree recorded for the row once the sweep is over. *)
PlaceAfterSweep ==
  [r \in Rows |-> CASE result[r] = "ok" -> made[r]
                    [] result[r] = "failed" -> 0
                    [] OTHER -> mem.place[r]]

(* Mutant: the clean-up takes every row of the sweep. *)
EveryPlace == {<<r, made[r]>> : r \in Swept}

(* Only the worktrees of rows that failed are removed; one that crashed did  *)
(* not say where its worktree is.                                            *)
FailedPlaces == {<<r, made[r]>> : r \in {q \in Rows : result[q] = "failed"}}

SweepFails ==
  /\ SweepDone /\ ~AllSucceeded(RowsAfterSweep)
  /\ mem' = [task |-> "failed", row |-> RowsAfterSweep, place |-> PlaceAfterSweep]
  /\ disk' = mem' /\ subLanes' = subLanes \ FailedPlaces
  /\ stage' = "over"
  /\ UNCHANGED <<landed, doneFile, resumed, job, PoolVars, SweepVars>>

SweepSucceeds ==
  /\ SweepDone /\ AllSucceeded(RowsAfterSweep)
  /\ mem' = [mem EXCEPT !.row = RowsAfterSweep, !.place = PlaceAfterSweep]
  /\ stage' = "merge"
  /\ UNCHANGED <<DiskVars, resumed, job, PoolVars, SweepVars>>

(* Rows left to be merged: those of the sweep and those carried over. *)
ToMerge == {r \in Rows : (r \in carried \/ result[r] = "ok") /\ <<r, mem.place[r]>> \in subLanes}

(* Those carried over come first, each kind in the order of the matrix. *)
NextToMerge == First(IF ToMerge \cap carried # {} THEN ToMerge \cap carried ELSE ToMerge)

MergeRow(r) ==
  /\ stage = "merge" /\ ToMerge # {} /\ r = NextToMerge
  /\ landed' = landed \cup {r}
  /\ subLanes' = subLanes \ {<<r, mem.place[r]>>}
  /\ UNCHANGED <<mem, disk, doneFile, stage, resumed, job, PoolVars, SweepVars>>

(* A conflict: all the worktrees go, what was merged before it stays. *)
MergeRowFails ==
  /\ "conflict" \in Faults /\ stage = "merge" /\ ToMerge # {}
  /\ subLanes' = subLanes \ {<<r, mem.place[r]>> : r \in ToMerge}
  /\ mem' = [mem EXCEPT !.task = "failed"] /\ disk' = mem' /\ stage' = "over"
  /\ UNCHANGED <<landed, doneFile, resumed, job, PoolVars, SweepVars>>

WriteDone ==
  /\ stage = "merge" /\ ToMerge = {} /\ doneFile' = "file" /\ stage' = "commit"
  /\ UNCHANGED <<mem, disk, subLanes, landed, resumed, job, PoolVars, SweepVars>>

(* commitLaneAndValidateWorktree. *)
Commit ==
  /\ stage = "commit" /\ doneFile' = "committed" /\ stage' = "record"
  /\ UNCHANGED <<mem, disk, subLanes, landed, resumed, job, PoolVars, SweepVars>>

CommitFails ==
  /\ stage = "commit"
  /\ mem' = [mem EXCEPT !.task = "failed"] /\ disk' = mem' /\ stage' = "over"
  /\ UNCHANGED <<subLanes, landed, doneFile, resumed, job, PoolVars, SweepVars>>

(* recordTaskSucceeded, recordTaskTransition. *)
Succeed ==
  /\ stage = "record"
  /\ mem' = [mem EXCEPT !.task = "succeeded"] /\ disk' = mem' /\ stage' = "over"
  /\ UNCHANGED <<subLanes, landed, doneFile, resumed, job, PoolVars, SweepVars>>

NoEngine ==
  /\ stage' = "none" /\ resumed' = FALSE
  /\ job' = [a \in Actor |-> IF a \in Plain /\ job[a] = "over" THEN "over" ELSE "idle"]
  /\ slot' = NoSlots /\ inUse' = {} /\ waiters' = <<>>
  /\ todo' = {} /\ result' = NoResults /\ made' = Nowhere /\ carried' = {}

EngineEnds ==
  /\ stage = "over" /\ \A p \in Plain : job[p] = "over"
  /\ NoEngine /\ UNCHANGED <<mem, DiskVars>>

Kill ==
  /\ "kill" \in Faults /\ stage # "none"
  /\ NoEngine /\ mem' = disk /\ UNCHANGED DiskVars
-----------------------------------------------------------------------------
(* The operator, when there is no engine.  The commands begin with           *)
(* reconcileOrphanRunningState, which settles a task that was left running.  *)

Engineless == <<subLanes, landed, doneFile, stage, resumed, job, PoolVars, SweepVars>>

ReconciledTask ==
  IF disk.task # "running" THEN disk.task
  ELSE IF doneFile = "committed" THEN "succeeded" ELSE "failed"

SaveDisk(d) == disk' = d /\ mem' = d

(* retryTask with resetMatrixRowsForRetry: the rows that failed. *)
retryTask ==
  /\ stage = "none" /\ ReconciledTask = "failed"
  /\ SaveDisk([disk EXCEPT !.task = "pending",
                 !.row = [r \in Rows |-> IF @[r] = "failed" THEN "pending" ELSE @[r]]])
  /\ UNCHANGED Engineless

retryTaskRow(r) ==
  /\ stage = "none" /\ disk.row[r] = "failed"
  /\ SaveDisk([disk EXCEPT !.task = "pending", !.row[r] = "pending"])
  /\ UNCHANGED Engineless

Cancellable(r) == disk.row[r] \notin {"succeeded", "canceled"}

skipTaskRow(r) ==
  /\ stage = "none" /\ Cancellable(r)
  /\ SaveDisk([disk EXCEPT !.task = ReconciledTask, !.row[r] = "canceled"])
  /\ UNCHANGED Engineless

(* runMatrixTaskForResume; a .DONE in the lane's worktree completes the task *)
(* without it (resumeCompleteTask and its commit).                           *)
Resume ==
  /\ stage = "none" /\ disk.task \in {"pending", "running"}
  /\ stage' = IF doneFile = "none" THEN "begin" ELSE "commit"
  /\ resumed' = TRUE
  /\ UNCHANGED <<mem, DiskVars, job, PoolVars, SweepVars>>

RowStep(r) == MarkRunning(r) \/ MarkRunningThrows(r) \/ Provision(r) \/ FinishRow(r)
TaskStep ==
  \/ Begin \/ TakeRow \/ SweepFails \/ SweepSucceeds
  \/ (\E r \in Rows : MergeRow(r)) \/ MergeRowFails
  \/ WriteDone \/ Commit \/ CommitFails \/ Succeed \/ EngineEnds
PlainStep(p) == StartPlain(p) \/ EndPlain(p)
Operator == retryTask \/ (\E r \in Rows : retryTaskRow(r) \/ skipTaskRow(r)) \/ Resume

Next ==
  \/ TaskStep \/ (\E r \in Rows : RowStep(r)) \/ (\E p \in Plain : PlainStep(p))
  \/ Kill \/ Operator

(* The engine's loop runs on; a command ends, by its timeout at the latest   *)
(* (runShellInDir), and so does a worker.                                    *)
Fairness ==
  /\ WF_vars(TaskStep)
  /\ \A r \in Rows : WF_vars(RowStep(r))
  /\ \A p \in Plain : WF_vars(PlainStep(p))

Spec == Init /\ [][Next]_vars /\ Fairness
-----------------------------------------------------------------------------
(* Properties.                                                               *)

Held == {slot[a] : a \in Actor} \ {0}

(* Every variable has its type; the slots of the holders are in the pool.    *)
TypeOK ==
  /\ mem \in State /\ disk \in State
  /\ subLanes \subseteq Rows \X Slots /\ landed \subseteq Rows
  /\ doneFile \in {"none", "file", "committed"}
  /\ stage \in Stage /\ resumed \in BOOLEAN
  /\ todo \subseteq Rows /\ job \in [Actor -> Job]
  /\ slot \in [Actor -> 0..MaxParallel] /\ inUse \subseteq Slots
  /\ waiters \in Seq(Actor) /\ result \in [Rows -> Result]
  /\ made \in [Rows -> 0..MaxParallel] /\ carried \subseteq Rows
  /\ Held \subseteq inUse

(* The pool is the abstract one: no slot has two holders at any time.        *)
Pool == INSTANCE SlotPool
ImplementsPool == Pool!Spec

(* "global in-flight workers can never exceed lanes.maxParallel": true of    *)
(* the engine that starts the batch.  And the slots are put to use: nobody   *)
(* waits while one is free, and a waiter waits once.                         *)
CapKept ==
  /\ ~resumed => Cardinality({a \in Actor : job[a] \in {"holding", "ready", "working"}}) <= MaxParallel
  /\ waiters # <<>> => inUse = Slots
  /\ \A a \in Actor : job[a] = "waiting" <=> a \in {waiters[i] : i \in DOMAIN waiters}

(* The task succeeds only with the work of every row that was not canceled   *)
(* in the lane, however often rows were retried, carried over or lost.       *)
SucceededIsWhole ==
  disk.task = "succeeded" => \A r \in Rows : disk.row[r] = "canceled" \/ r \in landed

(* A sweep in which some rows fail does not cost the work of the others: the *)
(* worktree of a row that went well stays until it is merged, or a conflict  *)
(* of the merge removes them all.                                            *)
KeepsFinishedRows ==
  [][stage = "sweep" =>
       \A r \in Rows : (r \in carried \/ result[r] = "ok") => 
          \A p \in Slots : <<r, p>> \in subLanes => <<r, p>> \in subLanes']_vars

(* A row that waits for a slot gets one, unless the engine dies or a slot    *)
(* was lost by a save that threw.                                            *)
WaiterServed ==
  \A a \in Actor : job[a] = "waiting" ~> (job[a] # "waiting" \/ inUse # Held)
=============================================================================
