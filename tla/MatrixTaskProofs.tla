-------------------------- MODULE MatrixTaskProofs --------------------------
(* What holds of a matrix task for any rows, any plain tasks and any number  *)
(* of slots: proofs about MatrixTask.                                        *)
EXTENDS MatrixTask, TLAPS, FiniteSetTheorems, WellFoundedInduction

Waiting == {waiters[i] : i \in DOMAIN waiters}
Active == {"holding", "ready", "working"}

(* A slot has one holder, who is in the pool's record; who waits is in line  *)
(* once, and only while every slot is taken.                                 *)
PoolFits ==
  /\ \A a, b \in Actor : slot[a] # 0 /\ slot[a] = slot[b] => a = b
  /\ \A a \in Actor : slot[a] # 0 => slot[a] \in inUse
  /\ \A i, j \in DOMAIN waiters : waiters[i] = waiters[j] => i = j
  /\ waiters # <<>> => inUse = Slots
  /\ \A a \in Actor : job[a] = "waiting" <=> a \in Waiting

(* Whose work is on has a slot, but for the plain tasks of a resume, and     *)
(* nobody else has one.                                                      *)
JobsFit ==
  /\ \A a \in Actor : job[a] \in {"idle", "waiting", "over"} => slot[a] = 0
  /\ \A r \in Rows : job[r] # "over" /\ (job[r] \in Active => slot[r] # 0)
  /\ \A p \in Plain : job[p] \notin {"holding", "ready"}
                     /\ (job[p] = "working" /\ ~resumed => slot[p] # 0)

(* Rows are at work during the sweep only, those that are left are idle.     *)
SweepFits ==
  /\ stage # "sweep" => todo = {} /\ \A r \in Rows : job[r] = "idle"
  /\ \A r \in todo : job[r] = "idle"

(* A row that this sweep has not left alone. *)
InSweep(r) == r \in todo \/ job[r] # "idle" \/ result[r] # "none"

(* During the sweep: a row that has succeeded before is carried over with    *)
(* its worktree, no other row is what it was, and one that went well has a   *)
(* worktree.                                                                 *)
RowFits(r) ==
  /\ mem.row[r] = "succeeded" => r \in carried
  /\ r \in carried => ~InSweep(r) /\ <<r, mem.place[r]>> \in subLanes
  /\ InSweep(r) => mem.row[r] \in {"pending", "running"}
  /\ r \in todo \/ job[r] # "idle" => result[r] = "none"
  /\ result[r] = "ok" \/ job[r] = "working" => <<r, made[r]>> \in subLanes

SweepRows == stage = "sweep" => \A r \in Rows : RowFits(r)

(* During the merge: every row is canceled, merged or still to be merged.    *)
MergeRows ==
  stage = "merge" =>
    \A r \in Rows : mem.row[r] = "canceled" \/ r \in landed \/ r \in ToMerge

(* All the rows that count in a state object are in the lane's branch.       *)
Whole(s) == \A r \in Rows : s.row[r] = "canceled" \/ r \in landed

(* .DONE is written when all is merged, and a task that succeeded has it;    *)
(* the operator's cancellations are known to the engine.                     *)
DoneIsWhole ==
  /\ doneFile # "none" => Whole(mem) /\ Whole(disk)
  /\ stage \in {"commit", "record"} => doneFile # "none"
  /\ stage \in {"begin", "sweep", "merge"} => doneFile = "none"
  /\ mem.task = "succeeded" \/ disk.task = "succeeded" => doneFile # "none"
  /\ \A r \in Rows : mem.row[r] = "canceled" <=> disk.row[r] = "canceled"

RowsInv == SweepRows /\ MergeRows /\ DoneIsWhole

(* The types of all but the pool. *)
DataTyped ==
  /\ mem \in State /\ disk \in State
  /\ subLanes \subseteq Rows \X Slots /\ landed \subseteq Rows
  /\ doneFile \in {"none", "file", "committed"}
  /\ stage \in Stage /\ resumed \in BOOLEAN
  /\ todo \subseteq Rows /\ result \in [Rows -> Result]
  /\ made \in [Rows -> 0..MaxParallel] /\ carried \subseteq Rows

(* The types of the pool.                                                    *)
PoolTyped ==
  /\ job \in [Actor -> Job] /\ slot \in [Actor -> 0..MaxParallel]
  /\ inUse \subseteq Slots /\ waiters \in Seq(Actor)

(* A set of numbers has a least one.                                         *)
LEMMA Least ==
  ASSUME NEW S \in SUBSET Nat, S # {}
  PROVE  \E m \in S : \A s \in S : m <= s
<1>1. PICK m \in S : \A s \in S : <<s, m>> \notin OpToRel(<, Nat)
  BY WFMin, NatLessThanWellFounded, Zenon
<1>2. \A s \in S : ~(s < m)
  BY <1>1, Zenon DEF OpToRel
<1> QED BY <1>2
(* The lowest free slot is a free slot.                                      *)
LEMMA LowestIsFree ==
  ASSUME FreeSlots # {}
  PROVE  Lowest(FreeSlots) \in Slots /\ Lowest(FreeSlots) \notin inUse /\ Lowest(FreeSlots) # 0
<1>1. FreeSlots \in SUBSET Nat
  BY MatrixAssumption DEF FreeSlots, Slots
<1>2. \E s \in FreeSlots : \A t \in FreeSlots : s <= t
  BY <1>1, Least
<1>3. Lowest(FreeSlots) \in FreeSlots
  BY <1>2 DEF Lowest
<1> QED BY <1>3, MatrixAssumption DEF FreeSlots, Slots

(* The first of some rows is one of them.                                    *)
LEMMA FirstIsIn ==
  ASSUME NEW S \in SUBSET Rows, S # {}
  PROVE  First(S) \in S
<1> DEFINE I == {i \in DOMAIN RowSeq : RowSeq[i] \in S}
<1>1. DOMAIN RowSeq = 1..Len(RowSeq) /\ Len(RowSeq) \in Nat
  BY MatrixAssumption
<1>2. I \in SUBSET Nat /\ I # {}
  BY <1>1 DEF Rows
<1>3. PICK m \in I : \A i \in I : m <= i
  BY <1>2, Least
<1>4. m \in DOMAIN RowSeq /\ RowSeq[m] \in S /\ \A j \in 1..m-1 : RowSeq[j] \notin S
  BY <1>1, <1>3
<1> QED BY <1>4 DEF First

(* Asking for a slot keeps the pool, and is a step of the abstract one.      *)
LEMMA AcquireFits ==
  ASSUME TypeOK, PoolFits, JobsFit, NEW a \in Actor, job[a] = "idle", acquireLaneSlot(a)
  PROVE  /\ slot' \in [Actor -> 0..MaxParallel] /\ inUse' \subseteq Slots
         /\ waiters' \in Seq(Actor) /\ job' \in [Actor -> Job]
         /\ \A b \in Actor \ {a} : job'[b] = job[b] /\ slot'[b] = slot[b]
         /\ \/ job'[a] = "waiting" /\ slot'[a] = 0
            \/ job'[a] = OnSlot(a) /\ slot'[a] # 0
         /\ PoolFits'
         /\ (Pool!Next \/ UNCHANGED slot)
<1> USE DEF TypeOK, PoolFits, JobsFit
<1>0. slot[a] = 0 /\ OnSlot(a) \in {"holding", "working"}
  BY DEF OnSlot
<1>1. CASE FreeSlots # {}
  <2> DEFINE s == Lowest(FreeSlots)
  <2>1. /\ slot' = [slot EXCEPT ![a] = s] /\ inUse' = inUse \cup {s}
        /\ job' = [job EXCEPT ![a] = OnSlot(a)] /\ waiters' = waiters
    BY <1>1 DEF acquireLaneSlot
  <2>2. s \in Slots /\ s \notin inUse /\ s # 0 /\ s \in 0..MaxParallel
    BY <1>1, LowestIsFree, MatrixAssumption DEF Slots
  <2> HIDE DEF s
  <2>3. \A b \in Actor : slot[b] # s
    BY <2>2
  <2>4. Pool!Acquire(a, s)
    BY <1>0, <2>1, <2>3 DEF Pool!Acquire
  <2>5. Pool!Next
    BY <2>2, <2>4 DEF Pool!Next
  <2>6. \A b \in Actor : slot'[b] = (IF b = a THEN s ELSE slot[b])
                       /\ job'[b] = (IF b = a THEN OnSlot(a) ELSE job[b])
    BY <2>1
  <2>7. waiters = <<>> /\ Waiting = {} /\ Waiting' = {}
    BY <1>1, <2>1 DEF FreeSlots, Waiting
  <2>8. PoolFits'
    BY <1>0, <2>1, <2>2, <2>3, <2>6, <2>7
  <2>9. slot' \in [Actor -> 0..MaxParallel] /\ inUse' \subseteq Slots /\ job' \in [Actor -> Job]
    BY <1>0, <2>1, <2>2 DEF Job
  <2> QED BY <2>1, <2>2, <2>5, <2>6, <2>8, <2>9
<1>2. CASE FreeSlots = {}
  <2>1. /\ waiters' = Append(waiters, a) /\ job' = [job EXCEPT ![a] = "waiting"]
        /\ slot' = slot /\ inUse' = inUse
    BY <1>2 DEF acquireLaneSlot
  <2>2. inUse = Slots
    BY <1>2 DEF FreeSlots
  <2>3. /\ waiters' \in Seq(Actor) /\ Len(waiters') = Len(waiters) + 1 /\ Len(waiters) \in Nat
        /\ DOMAIN waiters' = 1..(Len(waiters) + 1) /\ DOMAIN waiters = 1..Len(waiters)
        /\ \A i \in 1..Len(waiters) : waiters'[i] = waiters[i]
        /\ waiters'[Len(waiters) + 1] = a
    BY <2>1
  <2>4. a \notin Waiting
    OBVIOUS
  <2>5. Waiting' = Waiting \cup {a}
    <3>1. Waiting' = {waiters'[i] : i \in 1..(Len(waiters) + 1)}
      BY <2>3 DEF Waiting
    <3>2. \A i \in 1..(Len(waiters) + 1) : i \in 1..Len(waiters) \/ i = Len(waiters) + 1
      BY <2>3
    <3>3. \A i \in 1..Len(waiters) : i \in 1..(Len(waiters) + 1)
      BY <2>3
    <3>4. Len(waiters) + 1 \in 1..(Len(waiters) + 1)
      BY <2>3
    <3>5. Waiting = {waiters[i] : i \in 1..Len(waiters)}
      BY <2>3 DEF Waiting
    <3>6. ASSUME NEW x \in Waiting' PROVE x \in Waiting \cup {a}
      BY <2>3, <3>1, <3>2, <3>5
    <3>7. ASSUME NEW x \in Waiting \cup {a} PROVE x \in Waiting'
      <4>1. CASE x = a
        BY <2>3, <3>1, <3>4, <4>1
      <4>2. CASE x \in Waiting
        <5>1. PICK i \in 1..Len(waiters) : x = waiters[i]
          BY <3>5, <4>2
        <5> QED BY <2>3, <3>1, <3>3, <5>1
      <4> QED BY <4>1, <4>2
    <3> QED BY <3>6, <3>7
  <2>6. \A b \in Actor : job'[b] = IF b = a THEN "waiting" ELSE job[b]
    BY <2>1
  <2>7. \A i, j \in DOMAIN waiters' : waiters'[i] = waiters'[j] => i = j
    <3>1. \A i \in 1..Len(waiters) : waiters[i] # a
      BY <2>3, <2>4 DEF Waiting
    <3>2. \A i \in DOMAIN waiters' : i \in 1..Len(waiters) \/ i = Len(waiters) + 1
      BY <2>3
    <3>3. \A i \in 1..Len(waiters) : waiters'[i] = waiters[i] /\ waiters'[i] # a
      BY <2>3, <3>1
    <3> QED BY <2>3, <3>2, <3>3
  <2>8. PoolFits'
    BY <2>1, <2>2, <2>5, <2>6, <2>7
  <2>9. job' \in [Actor -> Job]
    BY <2>1 DEF Job
  <2>10. /\ \A b \in Actor \ {a} : job'[b] = job[b] /\ slot'[b] = slot[b]
         /\ job'[a] = "waiting" /\ slot'[a] = 0
    BY <1>0, <2>1, <2>6
  <2>11. slot' \in [Actor -> 0..MaxParallel] /\ inUse' \subseteq Slots /\ waiters' \in Seq(Actor)
    BY <2>1, <2>3
  <2> HIDE DEF TypeOK, PoolFits, JobsFit
  <2> QED BY <2>1, <2>8, <2>9, <2>10, <2>11
<1> QED BY <1>1, <1>2

(* Giving a slot back keeps the pool, and is a step of the abstract one.     *)
LEMMA ReleaseFits ==
  ASSUME TypeOK, PoolFits, JobsFit, NEW a \in Actor, slot[a] # 0, releaseLaneSlot(a)
  PROVE  /\ slot' \in [Actor -> 0..MaxParallel] /\ inUse' \subseteq Slots
         /\ waiters' \in Seq(Actor) /\ job' \in [Actor -> Job]
         /\ job'[a] = After(a) /\ slot'[a] = 0
         /\ \A b \in Actor \ {a} :
              \/ job'[b] = job[b] /\ slot'[b] = slot[b]
              \/ job[b] = "waiting" /\ job'[b] = OnSlot(b) /\ slot'[b] # 0
         /\ PoolFits'
         /\ Pool!Next
<1> USE DEF TypeOK, PoolFits, JobsFit
<1>0. After(a) \in {"idle", "over"} /\ job[a] # "waiting"
  BY DEF After
<1>1. CASE waiters = <<>>
  <2>1. /\ slot' = [slot EXCEPT ![a] = 0] /\ inUse' = inUse \ {slot[a]}
        /\ job' = [job EXCEPT ![a] = After(a)] /\ waiters' = waiters
    BY <1>1 DEF releaseLaneSlot
  <2>2. \A b \in Actor : slot'[b] = (IF b = a THEN 0 ELSE slot[b])
                       /\ job'[b] = (IF b = a THEN After(a) ELSE job[b])
    BY <2>1
  <2>3. Waiting = {} /\ Waiting' = {}
    BY <1>1, <2>1 DEF Waiting
  <2>4. PoolFits'
    BY <1>0, <1>1, <2>1, <2>2, <2>3
  <2>5. Pool!Next
    BY <2>1 DEF Pool!Next, Pool!Release
  <2> QED BY <1>0, <2>1, <2>2, <2>4, <2>5, MatrixAssumption DEF Job
<1>2. CASE waiters # <<>>
  <2> DEFINE next == Head(waiters)
  <2>1. /\ slot' = [slot EXCEPT ![a] = 0, ![next] = slot[a]] /\ inUse' = inUse
        /\ job' = [job EXCEPT ![a] = After(a), ![next] = OnSlot(next)]
        /\ waiters' = Tail(waiters)
    BY <1>2 DEF releaseLaneSlot
  <2>2. /\ Len(waiters) \in Nat /\ Len(waiters) >= 1 /\ DOMAIN waiters = 1..Len(waiters)
        /\ waiters' \in Seq(Actor) /\ DOMAIN waiters' = 1..(Len(waiters) - 1)
        /\ next = waiters[1] /\ \A i \in 1..(Len(waiters) - 1) : waiters'[i] = waiters[i + 1]
    BY <1>2, <2>1
  <2>3. next \in Actor /\ next \in Waiting
    <3>1. 1 \in DOMAIN waiters
      BY <2>2
    <3>2. waiters[1] \in Actor
      BY <3>1
    <3>3. waiters[1] \in Waiting
      BY <3>1 DEF Waiting
    <3> QED BY <2>2, <3>2, <3>3
  <2>4. job[next] = "waiting" /\ slot[next] = 0 /\ next # a
    BY <1>0, <2>3
  <2>5. Waiting' = Waiting \ {next}
    <3> HIDE DEF TypeOK, JobsFit
    <3>1. \A i \in 1..Len(waiters) : i # 1 => i - 1 \in 1..(Len(waiters) - 1) /\ (i - 1) + 1 = i
      BY <2>2
    <3>2. ASSUME NEW b \in Waiting, b # next PROVE b \in Waiting'
      <4>1. PICK i \in DOMAIN waiters : b = waiters[i]
        BY <3>2 DEF Waiting
      <4>2. i - 1 \in DOMAIN waiters' /\ waiters'[i - 1] = b
        BY <2>2, <3>1, <3>2, <4>1
      <4> QED BY <4>2 DEF Waiting
    <3>3. ASSUME NEW b \in Waiting' PROVE b \in Waiting /\ b # next
      <4>1. PICK i \in DOMAIN waiters' : b = waiters'[i]
        BY <3>3 DEF Waiting
      <4>2. i + 1 \in DOMAIN waiters /\ b = waiters[i + 1] /\ i + 1 # 1 /\ 1 \in DOMAIN waiters
        BY <2>2, <4>1
      <4> QED BY <2>2, <4>2 DEF Waiting
    <3> QED BY <3>2, <3>3
  <2> HIDE DEF next
  <2>6. \A b \in Actor :
          /\ slot'[b] = IF b = a THEN 0 ELSE IF b = next THEN slot[a] ELSE slot[b]
          /\ job'[b] = IF b = a THEN After(a) ELSE IF b = next THEN OnSlot(next) ELSE job[b]
    BY <2>1, <2>3, <2>4
  <2>7. \A i, j \in DOMAIN waiters' : waiters'[i] = waiters'[j] => i = j
    <3> SUFFICES ASSUME NEW i \in DOMAIN waiters', NEW j \in DOMAIN waiters', waiters'[i] = waiters'[j]
                 PROVE  i = j
      OBVIOUS
    <3> HIDE DEF TypeOK, PoolFits, JobsFit
    <3>1. i \in Int /\ j \in Int /\ i + 1 \in DOMAIN waiters /\ j + 1 \in DOMAIN waiters
      BY <2>2
    <3>2. waiters[i + 1] = waiters[j + 1]
      BY <2>2
    <3>3. i + 1 = j + 1
      BY <3>1, <3>2 DEF PoolFits
    <3> QED BY <3>1, <3>3
  <2>8. OnSlot(next) \in {"holding", "working"}
    BY DEF OnSlot
  <2>9. PoolFits'
    <3>1. \A b, c \in Actor : slot'[b] # 0 /\ slot'[b] = slot'[c] => b = c
      BY <2>4, <2>6
    <3>2. \A b \in Actor : slot'[b] # 0 => slot'[b] \in inUse'
      BY <2>1, <2>6
    <3>3. waiters' # <<>> => inUse' = Slots
      BY <1>2, <2>1
    <3>4. \A b \in Actor : job'[b] = "waiting" <=> b \in Waiting'
      BY <1>0, <2>5, <2>6, <2>8
    <3> QED BY <2>7, <3>1, <3>2, <3>3, <3>4
  <2>10. Pool!HandOver(a, next)
    BY <2>1, <2>4 DEF Pool!HandOver
  <2>11. Pool!Next
    BY <2>3, <2>10 DEF Pool!Next
  <2>12. slot' \in [Actor -> 0..MaxParallel] /\ job' \in [Actor -> Job]
    BY <1>0, <2>1, <2>3, <2>8, MatrixAssumption DEF Job
  <2> QED BY <2>1, <2>2, <2>4, <2>6, <2>9, <2>11, <2>12
<1> QED BY <1>1, <1>2

(* What a state object is made of.                                           *)
LEMMA States ==
  ASSUME NEW t \in TaskStatus, NEW w \in [Rows -> RowStatus], NEW p \in [Rows -> 0..MaxParallel]
  PROVE  [task |-> t, row |-> w, place |-> p] \in State
BY DEF State

(* What a state object holds, and what is put in it.                         *)
LEMMA StateFields ==
  \A s \in State :
    /\ s.task \in TaskStatus /\ s.row \in [Rows -> RowStatus]
    /\ s.place \in [Rows -> 0..MaxParallel]
    /\ \A t \in TaskStatus : [s EXCEPT !.task = t] \in State
    /\ \A w \in [Rows -> RowStatus] : [s EXCEPT !.row = w] \in State
    /\ \A r \in Rows, x \in RowStatus : [s EXCEPT !.row[r] = x] \in State
BY DEF State

(* Types of the data are kept by the steps of the plain tasks and the sweep. *)
LEMMA SweepTyped ==
  ASSUME TypeOK, JobsFit,
                 \/ (\E p \in Plain : PlainStep(p)) \/ Begin \/ TakeRow
                 \/ (\E r \in Rows : RowStep(r)) \/ SweepFails \/ SweepSucceeds
  PROVE  DataTyped'
<1> USE MatrixAssumption DEF TypeOK, DataTyped, DiskVars, SweepVars, PoolVars
<1>1. ASSUME NEW p \in Plain, PlainStep(p) PROVE DataTyped'
  BY <1>1 DEF PlainStep, StartPlain, EndPlain
<1>2. CASE Begin
  <2>1. [r \in Rows |-> IF Runnable(r) THEN "pending" ELSE mem.row[r]] \in [Rows -> RowStatus]
    BY StateFields DEF RowStatus
  <2> DEFINE w == [r \in Rows |-> IF Runnable(r) THEN "pending" ELSE mem.row[r]]
  <2>2. mem' = [[mem EXCEPT !.task = "running"] EXCEPT !.row = w] /\ disk' = mem'
    BY <1>2 DEF Begin, State
  <2> HIDE DEF w
  <2>3. "running" \in TaskStatus
    BY DEF TaskStatus
  <2>4. mem' \in State
    BY <2>1, <2>2, <2>3, StateFields DEF w
  <2>5. result' \in [Rows -> Result] /\ made' \in [Rows -> 0..MaxParallel]
    BY <1>2 DEF Begin, NoResults, Nowhere, Result
  <2> QED BY <1>2, <2>2, <2>4, <2>5 DEF Begin, Stage
<1>3. CASE TakeRow
  BY <1>3 DEF TakeRow
<1>4. ASSUME NEW r \in Rows, RowStep(r) PROVE DataTyped'
  <2>0. "running" \in RowStatus /\ \A x \in {"thrown", "noPlace", "ok", "failed", "crash"} : x \in Result
    BY DEF RowStatus, Result
  <2>1. CASE MarkRunning(r) \/ MarkRunningThrows(r)
    <3>1. mem' = [mem EXCEPT !.row[r] = "running"]
      BY <2>1 DEF MarkRunning, MarkRunningThrows
    <3>2. mem' \in State
      BY <2>0, <3>1, StateFields
    <3>3. result' \in [Rows -> Result]
      BY <2>0, <2>1 DEF MarkRunning, MarkRunningThrows
    <3>4. disk' \in State
      BY <2>1, <3>2 DEF MarkRunning, MarkRunningThrows
    <3>5. UNCHANGED <<subLanes, landed, doneFile, stage, resumed, todo, made, carried>>
      BY <2>1 DEF MarkRunning, MarkRunningThrows
    <3> QED BY <3>2, <3>3, <3>4, <3>5
  <2>2. CASE Provision(r)
    <3>1. CASE <<r, slot[r]>> \in subLanes
      <4>1. result' \in [Rows -> Result]
        BY <2>0, <2>2, <3>1 DEF Provision
      <4> QED BY <2>2, <3>1, <4>1 DEF Provision
    <3>2. CASE <<r, slot[r]>> \notin subLanes
      <4>1. slot[r] \in 0..MaxParallel /\ slot[r] \in Slots
        BY <2>2 DEF Actor, Slots, Provision, JobsFit, Active
      <4>2. made' \in [Rows -> 0..MaxParallel] /\ subLanes' \subseteq Rows \X Slots
        <5>1. subLanes' = subLanes \cup {<<r, slot[r]>>} /\ made' = [made EXCEPT ![r] = slot[r]]
          BY <2>2, <3>2 DEF Provision
        <5>2. <<r, slot[r]>> \in Rows \X Slots
          BY <4>1
        <5>3. made' \in [Rows -> 0..MaxParallel]
          BY <4>1, <5>1
        <5> QED BY <5>1, <5>2, <5>3
      <4> QED BY <2>2, <3>2, <4>2 DEF Provision
    <3> QED BY <3>1, <3>2
  <2>3. CASE FinishRow(r)
    BY <2>0, <2>3 DEF FinishRow
  <2> QED BY <1>4, <2>1, <2>2, <2>3 DEF RowStep
<1>5. RowsAfterSweep \in [Rows -> RowStatus] /\ PlaceAfterSweep \in [Rows -> 0..MaxParallel]
  BY StateFields DEF RowsAfterSweep, PlaceAfterSweep, RowStatus
<1>6. CASE SweepFails
  <2>1. mem' \in State
    BY <1>5, <1>6, States DEF SweepFails, TaskStatus
  <2> QED BY <1>6, <2>1 DEF SweepFails, Stage
<1>7. CASE SweepSucceeds
  <2>1. mem' \in State
    BY <1>5, <1>7 DEF SweepSucceeds, State
  <2> QED BY <1>7, <2>1 DEF SweepSucceeds, Stage
<1> QED BY <1>1, <1>2, <1>3, <1>4, <1>6, <1>7

(* Types of the data are kept by the merge, the end and the operator.        *)
LEMMA RestTyped ==
  ASSUME TypeOK,
         \/ (\E r \in Rows : MergeRow(r)) \/ MergeRowFails \/ WriteDone \/ Commit \/ CommitFails
         \/ Succeed \/ EngineEnds \/ Kill \/ Operator \/ UNCHANGED vars
  PROVE  DataTyped'
<1> USE MatrixAssumption DEF TypeOK, DataTyped, DiskVars, SweepVars, PoolVars
<1>0. "failed" \in TaskStatus /\ "succeeded" \in TaskStatus /\ "pending" \in TaskStatus
  BY DEF TaskStatus
<1>1. CASE (\E r \in Rows : MergeRow(r)) \/ WriteDone \/ Commit \/ UNCHANGED vars
  BY <1>1 DEF MergeRow, WriteDone, Commit, Stage, vars
<1>2. CASE MergeRowFails \/ CommitFails \/ Succeed
  <2>1. mem' \in State
    BY <1>0, <1>2, StateFields DEF MergeRowFails, CommitFails, Succeed
  <2> QED BY <1>2, <2>1 DEF MergeRowFails, CommitFails, Succeed, Stage
<1>3. CASE EngineEnds \/ Kill
  <2>1. NoEngine /\ UNCHANGED DiskVars /\ mem' \in {mem, disk}
    BY <1>3 DEF EngineEnds, Kill
  <2>2. result' \in [Rows -> Result] /\ made' \in [Rows -> 0..MaxParallel]
    BY <2>1 DEF NoEngine, NoResults, Nowhere, Result
  <2> QED BY <2>1, <2>2 DEF NoEngine, Stage
<1>4. ReconciledTask \in TaskStatus
  BY <1>0, StateFields DEF ReconciledTask
<1>5. CASE retryTask
  <2> DEFINE w == [r \in Rows |-> IF disk.row[r] = "failed" THEN "pending" ELSE disk.row[r]]
  <2>1. w \in [Rows -> RowStatus]
    BY StateFields DEF RowStatus
  <2>2. disk' = [[disk EXCEPT !.task = "pending"] EXCEPT !.row = w] /\ mem' = disk'
    BY <1>5 DEF retryTask, SaveDisk, State
  <2> HIDE DEF w
  <2>3. disk' \in State
    BY <1>0, <2>1, <2>2, StateFields
  <2> QED BY <1>5, <2>2, <2>3 DEF retryTask, Engineless
<1>6. ASSUME NEW r \in Rows, retryTaskRow(r) PROVE DataTyped'
  <2>1. disk' = [[disk EXCEPT !.task = "pending"] EXCEPT !.row[r] = "pending"] /\ mem' = disk'
    BY <1>6 DEF retryTaskRow, SaveDisk
  <2>2. "pending" \in RowStatus
    BY DEF RowStatus
  <2>3. disk' \in State
    BY <1>0, <2>1, <2>2, StateFields
  <2> QED BY <1>6, <2>1, <2>3 DEF retryTaskRow, Engineless
<1>7. ASSUME NEW r \in Rows, skipTaskRow(r) PROVE DataTyped'
  <2>1. disk' = [[disk EXCEPT !.task = ReconciledTask] EXCEPT !.row[r] = "canceled"] /\ mem' = disk'
    BY <1>7 DEF skipTaskRow, SaveDisk
  <2>2. "canceled" \in RowStatus
    BY DEF RowStatus
  <2>3. disk' \in State
    BY <1>4, <2>1, <2>2, StateFields
  <2> QED BY <1>7, <2>1, <2>3 DEF skipTaskRow, Engineless
<1>8. CASE Resume
  BY <1>8 DEF Resume, Stage
<1> QED BY <1>1, <1>2, <1>3, <1>5, <1>6, <1>7, <1>8 DEF Operator

(* What an actor does may change while its slot and the line stay.           *)
LEMMA JobMoves ==
  ASSUME TypeOK, PoolFits, NEW a \in Actor, NEW x \in Job, UNCHANGED PoolVars,
         job[a] # "waiting", x # "waiting", job' = [job EXCEPT ![a] = x]
  PROVE  PoolTyped' /\ PoolFits'
<1> USE DEF TypeOK, PoolFits, PoolTyped, PoolVars
<1>1. Waiting' = Waiting
  BY DEF Waiting
<1>2. \A b \in Actor : job'[b] = IF b = a THEN x ELSE job[b]
  OBVIOUS
<1> QED BY <1>1, <1>2

(* Every step keeps the pool, and is one of the abstract pool or none.       *)
LEMMA PoolStep ==
  ASSUME TypeOK, PoolFits, JobsFit, SweepFits, [Next]_vars
  PROVE  /\ PoolTyped' /\ PoolFits' /\ JobsFit' /\ SweepFits'
         /\ (Pool!Next \/ UNCHANGED slot)
<1> DEFINE Goal == /\ PoolTyped' /\ PoolFits' /\ JobsFit' /\ SweepFits'
                   /\ (Pool!Next \/ UNCHANGED slot)
<1>p. Rows \subseteq Actor /\ Plain \subseteq Actor /\ Rows \cap Plain = {}
  BY MatrixAssumption DEF Actor
<1>1. ASSUME NEW p \in Plain, StartPlain(p) PROVE Goal
  <2>1. job[p] = "idle" /\ UNCHANGED <<stage, resumed, todo>> /\ OnSlot(p) = "working"
    BY <1>1, <1>p DEF StartPlain, SweepVars, OnSlot
  <2>2. CASE resumed
    <3>1. UNCHANGED PoolVars /\ job' = [job EXCEPT ![p] = "working"]
      BY <1>1, <2>2 DEF StartPlain
    <3>2. PoolTyped' /\ PoolFits'
      BY <1>p, <2>1, <3>1, JobMoves DEF Job
    <3>3. \A b \in Actor : job'[b] = (IF b = p THEN "working" ELSE job[b]) /\ slot'[b] = slot[b]
      BY <3>1 DEF TypeOK, PoolVars
    <3>4. JobsFit' /\ SweepFits'
      BY <1>p, <2>1, <2>2, <3>3 DEF JobsFit, SweepFits, Active, TypeOK
    <3> QED BY <3>1, <3>2, <3>4 DEF PoolVars
  <2>3. CASE ~resumed
    <3>1. acquireLaneSlot(p)
      BY <1>1, <2>3 DEF StartPlain
    <3>2. /\ PoolTyped' /\ PoolFits' /\ (Pool!Next \/ UNCHANGED slot)
          /\ \A b \in Actor \ {p} : job'[b] = job[b] /\ slot'[b] = slot[b]
          /\ \/ job'[p] = "waiting" /\ slot'[p] = 0
             \/ job'[p] = "working" /\ slot'[p] # 0
      BY <1>p, <2>1, <3>1, AcquireFits DEF PoolTyped
    <3>3. JobsFit' /\ SweepFits'
      BY <1>p, <2>1, <3>2 DEF JobsFit, SweepFits, Active, TypeOK
    <3> QED BY <3>2, <3>3
  <2> QED BY <2>2, <2>3
<1>2. ASSUME NEW p \in Plain, EndPlain(p) PROVE Goal
  <2>1. job[p] = "working" /\ UNCHANGED <<stage, resumed, todo>>
    BY <1>2 DEF EndPlain, SweepVars
  <2>2. CASE slot[p] = 0
    <3>1. UNCHANGED PoolVars /\ job' = [job EXCEPT ![p] = "over"]
      BY <1>2, <2>2 DEF EndPlain
    <3>2. PoolTyped' /\ PoolFits'
      BY <1>p, <2>1, <3>1, JobMoves DEF Job
    <3>3. \A b \in Actor : job'[b] = (IF b = p THEN "over" ELSE job[b]) /\ slot'[b] = slot[b]
      BY <3>1 DEF TypeOK, PoolVars
    <3>4. JobsFit' /\ SweepFits'
      BY <1>p, <2>1, <2>2, <3>3 DEF JobsFit, SweepFits, Active, TypeOK
    <3> QED BY <3>1, <3>2, <3>4 DEF PoolVars
  <2>3. CASE slot[p] # 0
    <3>1. releaseLaneSlot(p)
      BY <1>2, <2>3 DEF EndPlain
    <3>2. /\ PoolTyped' /\ PoolFits' /\ Pool!Next
          /\ job'[p] = After(p) /\ slot'[p] = 0
          /\ \A b \in Actor \ {p} :
               \/ job'[b] = job[b] /\ slot'[b] = slot[b]
               \/ job[b] = "waiting" /\ job'[b] = OnSlot(b) /\ slot'[b] # 0
      BY <1>p, <2>3, <3>1, ReleaseFits DEF PoolTyped
    <3>3. /\ job'[p] \in {"idle", "over"} /\ slot'[p] = 0
          /\ \A b \in Actor \ {p} :
               \/ job'[b] = job[b] /\ slot'[b] = slot[b]
               \/ job[b] = "waiting" /\ job'[b] \in {"holding", "working"} /\ slot'[b] # 0
                  /\ (b \in Plain => job'[b] = "working")
      BY <1>p, <3>2, MatrixAssumption DEF After, OnSlot
    <3>4. JobsFit'
      BY <1>p, <2>1, <3>3 DEF JobsFit, Active
    <3>5. \A r \in Rows : job[r] = "idle" => job'[r] = "idle"
      <4> SUFFICES ASSUME NEW r \in Rows, job[r] = "idle" PROVE job'[r] = "idle"
        OBVIOUS
      <4>1. r \in Actor \ {p}
        BY <1>p
      <4> QED BY <3>3, <4>1
    <3>6. todo \subseteq Rows
      BY DEF TypeOK
    <3>7. SweepFits'
      BY <2>1, <3>5, <3>6 DEF SweepFits
    <3> QED BY <3>2, <3>4, <3>7
  <2> QED BY <2>2, <2>3
<1>3. CASE TakeRow
  <2> DEFINE r == First(todo)
  <2>1. /\ stage = "sweep" /\ todo # {} /\ acquireLaneSlot(r) /\ todo' = todo \ {r}
        /\ UNCHANGED <<stage, resumed>>
    BY <1>3 DEF TakeRow
  <2>2. r \in todo /\ r \in Rows
    BY <2>1, FirstIsIn DEF TypeOK
  <2> HIDE DEF r
  <2>3. job[r] = "idle" /\ OnSlot(r) = "holding"
    BY <2>2 DEF SweepFits, OnSlot
  <2>4. /\ PoolTyped' /\ PoolFits' /\ (Pool!Next \/ UNCHANGED slot)
        /\ \A b \in Actor \ {r} : job'[b] = job[b] /\ slot'[b] = slot[b]
        /\ \/ job'[r] = "waiting" /\ slot'[r] = 0
           \/ job'[r] = "holding" /\ slot'[r] # 0
    BY <1>p, <2>1, <2>2, <2>3, AcquireFits DEF PoolTyped
  <2>5. JobsFit' /\ SweepFits'
    BY <1>p, <2>1, <2>2, <2>4 DEF JobsFit, SweepFits, Active, TypeOK
  <2> QED BY <2>4, <2>5
<1>4. ASSUME NEW r \in Rows, MarkRunning(r) \/ (Provision(r) /\ <<r, slot[r]>> \notin subLanes)
      PROVE  Goal
  <2>1. PICK x \in {"ready", "working"} : job' = [job EXCEPT ![r] = x]
    BY <1>4 DEF MarkRunning, Provision
  <2>2. /\ UNCHANGED PoolVars /\ job[r] \in {"holding", "ready"}
        /\ stage = "sweep" /\ UNCHANGED <<stage, resumed, todo>>
    BY <1>4 DEF MarkRunning, Provision, SweepVars
  <2>3. PoolTyped' /\ PoolFits'
    BY <1>p, <2>1, <2>2, JobMoves DEF Job
  <2>4. \A b \in Actor : job'[b] = (IF b = r THEN x ELSE job[b]) /\ slot'[b] = slot[b]
    BY <2>1, <2>2 DEF TypeOK, PoolVars
  <2>5. JobsFit' /\ SweepFits'
    BY <1>p, <2>2, <2>4 DEF JobsFit, SweepFits, Active, TypeOK
  <2> QED BY <2>2, <2>3, <2>5 DEF PoolVars
<1>5. ASSUME NEW r \in Rows, MarkRunningThrows(r) PROVE Goal
  <2>1. /\ job[r] = "holding" /\ job' = [job EXCEPT ![r] = "idle"] /\ slot' = [slot EXCEPT ![r] = 0]
        /\ stage = "sweep" /\ UNCHANGED <<inUse, waiters, stage, resumed, todo>>
    BY <1>5 DEF MarkRunningThrows
  <2>2. slot[r] # 0
    BY <2>1 DEF JobsFit, Active
  <2>3. Pool!Next
    BY <1>p, <2>1, <2>2 DEF Pool!Next, Pool!Release
  <2>4. \A b \in Actor : /\ job'[b] = (IF b = r THEN "idle" ELSE job[b])
                        /\ slot'[b] = (IF b = r THEN 0 ELSE slot[b])
    BY <2>1 DEF TypeOK
  <2>5. PoolTyped' /\ Waiting' = Waiting
    <3>1. job' \in [Actor -> Job]
      BY <2>1 DEF TypeOK, Job
    <3>2. slot' \in [Actor -> 0..MaxParallel]
      <4>1. slot \in [Actor -> 0..MaxParallel] /\ 0 \in 0..MaxParallel
        BY MatrixAssumption DEF TypeOK
      <4> QED BY <2>1, <4>1
    <3> QED BY <2>1, <3>1, <3>2 DEF TypeOK, PoolTyped, Waiting
  <2>6. PoolFits'
    BY <1>p, <2>1, <2>4, <2>5 DEF PoolFits
  <2>7. JobsFit' /\ SweepFits'
    BY <1>p, <2>1, <2>4 DEF JobsFit, SweepFits, Active, TypeOK
  <2> QED BY <2>3, <2>5, <2>6, <2>7
<1>6. ASSUME NEW r \in Rows, FinishRow(r) \/ (Provision(r) /\ <<r, slot[r]>> \in subLanes)
      PROVE  Goal
  <2>1. /\ job[r] \in {"ready", "working"} /\ releaseLaneSlot(r)
        /\ stage = "sweep" /\ UNCHANGED <<stage, resumed, todo>>
    BY <1>6 DEF FinishRow, Provision
  <2>2. slot[r] # 0
    BY <2>1 DEF JobsFit, Active
  <2>3. /\ PoolTyped' /\ PoolFits' /\ Pool!Next
        /\ job'[r] = "idle" /\ slot'[r] = 0
        /\ \A b \in Actor \ {r} :
             \/ job'[b] = job[b] /\ slot'[b] = slot[b]
             \/ job[b] = "waiting" /\ job'[b] = OnSlot(b) /\ slot'[b] # 0
    BY <1>p, <2>1, <2>2, ReleaseFits DEF PoolTyped, After
  <2>4. JobsFit' /\ SweepFits'
    BY <1>p, <2>1, <2>3 DEF JobsFit, SweepFits, Active, TypeOK, OnSlot
  <2> QED BY <2>3, <2>4
<1>7. CASE EngineEnds \/ Kill
  <2>1. NoEngine
    BY <1>7 DEF EngineEnds, Kill
  <2>2. /\ job' = [a \in Actor |-> IF a \in Plain /\ job[a] = "over" THEN "over" ELSE "idle"]
        /\ slot' = [a \in Actor |-> 0] /\ inUse' = {} /\ waiters' = <<>>
        /\ todo' = {} /\ stage' = "none"
    BY <2>1 DEF NoEngine, NoSlots
  <2>3. Pool!Next
    BY <2>2 DEF Pool!Next, Pool!Reset
  <2>4. PoolTyped'
    BY <2>2, MatrixAssumption DEF PoolTyped, Job
  <2>5. Waiting' = {} /\ PoolFits'
    BY <2>2 DEF Waiting, PoolFits
  <2>6. JobsFit' /\ SweepFits'
    BY <1>p, <2>2 DEF JobsFit, SweepFits, Active
  <2> QED BY <2>3, <2>4, <2>5, <2>6
<1>8. CASE Begin
  <2>1. stage' = "sweep" /\ stage = "begin" /\ UNCHANGED <<job, PoolVars, resumed>>
    BY <1>8 DEF Begin
  <2>2. PoolTyped' /\ PoolFits'
    BY <2>1 DEF PoolVars, TypeOK, PoolTyped, PoolFits, Waiting
  <2>3. todo' \subseteq Rows
    BY <1>8 DEF Begin
  <2>4. JobsFit' /\ SweepFits'
    BY <2>1, <2>3 DEF JobsFit, SweepFits, PoolVars
  <2> QED BY <2>1, <2>2, <2>4 DEF PoolVars
<1>9. CASE SweepFails \/ SweepSucceeds
  <2>1. /\ todo = {} /\ AtWork = {} /\ UNCHANGED <<job, PoolVars, resumed, todo>>
    BY <1>9 DEF SweepFails, SweepSucceeds, SweepDone, SweepVars
  <2>2. PoolTyped' /\ PoolFits' /\ JobsFit'
    BY <2>1 DEF PoolVars, TypeOK, PoolTyped, PoolFits, Waiting, JobsFit
  <2>3. SweepFits'
    BY <2>1 DEF SweepFits, AtWork
  <2> QED BY <2>1, <2>2, <2>3 DEF PoolVars
<1>10. CASE \/ (\E r \in Rows : MergeRow(r)) \/ MergeRowFails \/ WriteDone \/ Commit \/ CommitFails
            \/ Succeed \/ Operator \/ UNCHANGED vars
  <2>1. /\ UNCHANGED <<job, PoolVars, todo>>
        /\ stage' # "sweep" \/ UNCHANGED <<stage, resumed>>
        /\ stage # "sweep" \/ stage' = stage
        /\ resumed' = resumed \/ resumed'
    BY <1>10 DEF MergeRow, MergeRowFails, WriteDone, Commit, CommitFails, Succeed, Operator,
       retryTask, retryTaskRow, skipTaskRow, Resume, Engineless, SweepVars, PoolVars, vars
  <2>2. PoolTyped' /\ PoolFits' /\ JobsFit'
    BY <2>1 DEF PoolVars, TypeOK, PoolTyped, PoolFits, Waiting, JobsFit
  <2>3. SweepFits'
    BY <2>1 DEF SweepFits
  <2> QED BY <2>1, <2>2, <2>3 DEF PoolVars
<1> QED BY <1>1, <1>2, <1>3, <1>4, <1>5, <1>6, <1>7, <1>8, <1>9, <1>10
        DEF Next, TaskStep, RowStep, PlainStep

PoolInv == TypeOK /\ PoolFits /\ JobsFit /\ SweepFits

(* The pool's invariant holds at first and is kept by every step. *)
LEMMA PoolInductive ==
  /\ Init => PoolInv
  /\ PoolInv /\ [Next]_vars => PoolInv' /\ (Pool!Next \/ UNCHANGED slot)
<1>1. ASSUME Init PROVE PoolInv
  <2> USE <1>1, MatrixAssumption DEF Init, NoSlots, NoResults, Nowhere
  <2>1. mem \in State /\ disk \in State
    BY DEF State, TaskStatus, RowStatus
  <2>2. result \in [Rows -> Result] /\ made \in [Rows -> 0..MaxParallel]
    BY DEF Result
  <2>5. DataTyped
    BY <2>1, <2>2 DEF DataTyped, Stage
  <2>3. PoolTyped
    BY DEF PoolTyped, Job
  <2>4. PoolFits /\ JobsFit /\ SweepFits
    BY DEF PoolFits, JobsFit, SweepFits, Waiting, Active, Actor
  <2>6. Held \subseteq inUse
    BY DEF Held
  <2> QED BY <2>3, <2>4, <2>5, <2>6 DEF PoolInv, TypeOK, DataTyped, PoolTyped
<1>2. ASSUME PoolInv, [Next]_vars PROVE PoolInv' /\ (Pool!Next \/ UNCHANGED slot)
  <2>1. /\ PoolTyped' /\ PoolFits' /\ JobsFit' /\ SweepFits'
        /\ (Pool!Next \/ UNCHANGED slot)
    BY <1>2, PoolStep DEF PoolInv
  <2>2. DataTyped'
    BY <1>2, SweepTyped, RestTyped DEF PoolInv, Next, TaskStep
  <2>3. (Held \subseteq inUse)'
    BY <2>1 DEF PoolTyped, PoolFits, Held
  <2>4. TypeOK'
    BY <2>1, <2>2, <2>3 DEF TypeOK, DataTyped, PoolTyped
  <2> QED BY <2>1, <2>4 DEF PoolInv
<1> QED BY <1>1, <1>2

(* The inductive invariant of the pool: one holder for a slot, waiters in    *)
(* line once and only while all slots are taken, rows at work in the sweep.  *)
THEOREM PoolInvariant == Spec => []PoolInv
BY PoolInductive, PTL DEF Spec

(* Every variable keeps its type and holders are in the pool's record, for   *)
(* any rows, plain tasks, slots and faults.                                  *)
THEOREM TypeCorrect == Spec => []TypeOK
<1>1. PoolInv => TypeOK
  BY DEF PoolInv
<1> QED BY <1>1, PoolInvariant, PTL

(* acquireLaneSlot and releaseLaneSlot implement the abstract pool: no slot  *)
(* has two holders and nobody holds two, in any interleaving of rows, plain  *)
(* tasks, kills and saves that throw.                                        *)
THEOREM PoolRefinement == Spec => ImplementsPool
<1>1. Init => Pool!Init
  BY DEF Init, NoSlots, Pool!Init
<1>2. PoolInv /\ [Next]_vars => [Pool!Next]_slot
  BY PoolInductive
<1> QED BY <1>1, <1>2, PoolInvariant, PTL DEF Spec, ImplementsPool, Pool!Spec

(* Who is at work for an engine that started the batch has a slot, so there  *)
(* are no more of them than slots; nobody waits while a slot is free.        *)
LEMMA CapFits == PoolInv => CapKept
<1> SUFFICES ASSUME PoolInv PROVE CapKept
  OBVIOUS
<1> USE DEF PoolInv, TypeOK, PoolFits, JobsFit
<1>1. ASSUME ~resumed
      PROVE  Cardinality({a \in Actor : job[a] \in Active}) <= MaxParallel
  <2> DEFINE W == {a \in Actor : job[a] \in Active}
             f == [a \in W |-> slot[a]]
  <2>1. \A a \in W : slot[a] \in Slots
    BY <1>1, MatrixAssumption DEF Actor, Active, Slots
  <2>2. f \in Injection(W, Slots)
    BY <2>1, MatrixAssumption DEF Injection, IsInjective, Slots
  <2>3. IsFiniteSet(Slots) /\ Cardinality(Slots) = MaxParallel
    <3>1. 1 \in Int /\ MaxParallel \in Int /\ MaxParallel >= 1
      BY MatrixAssumption
    <3>2. /\ IsFiniteSet(1..MaxParallel)
          /\ Cardinality(1..MaxParallel) = IF 1 > MaxParallel THEN 0 ELSE MaxParallel - 1 + 1
      BY <3>1, FS_Interval, Zenon
    <3> QED BY <3>1, <3>2 DEF Slots
  <2>4. Cardinality(W) <= Cardinality(Slots)
    <3> HIDE DEF f, W
    <3> QED BY <2>2, <2>3, FS_Injection
  <2> QED BY <2>3, <2>4
<1>2. waiters # <<>> => inUse = Slots
  OBVIOUS
<1>3. \A a \in Actor : job[a] = "waiting" <=> a \in {waiters[i] : i \in DOMAIN waiters}
  BY DEF Waiting
<1> QED BY <1>1, <1>2, <1>3 DEF CapKept, Active

(* An engine that started the batch never has more workers than              *)
(* lanes.maxParallel, and no slot is idle while somebody waits for one.      *)
THEOREM CapIsKept == Spec => []CapKept
BY CapFits, PoolInvariant, PTL

(* A row that a step leaves alone fits as before.                            *)
LEMMA RowKept ==
  ASSUME NEW r \in Rows, RowFits(r), carried' = carried, subLanes \subseteq subLanes',
         mem'.row[r] = mem.row[r], mem'.place[r] = mem.place[r],
         r \in todo' <=> r \in todo, result'[r] = result[r], made'[r] = made[r],
         job'[r] = "idle" <=> job[r] = "idle",
         job'[r] = "working" <=> job[r] = "working"
  PROVE  RowFits(r)'
<1>1. InSweep(r)' <=> InSweep(r)
  BY DEF InSweep
<1> QED BY <1>1 DEF RowFits

(* A step that only moves slots and jobs leaves the rows as they are.        *)
LEMMA QuietRows ==
  ASSUME RowsInv, UNCHANGED <<mem, DiskVars, stage, SweepVars>>,
         \A r \in Rows : job'[r] = "idle" <=> job[r] = "idle",
         \A r \in Rows : job'[r] = "working" <=> job[r] = "working"
  PROVE  RowsInv'
<1>1. /\ mem' = mem /\ disk' = disk /\ subLanes' = subLanes /\ landed' = landed
      /\ doneFile' = doneFile /\ stage' = stage /\ todo' = todo /\ result' = result
      /\ made' = made /\ carried' = carried
  BY DEF DiskVars, SweepVars
<1>2. SweepRows'
  <2> SUFFICES ASSUME stage = "sweep", NEW r \in Rows PROVE RowFits(r)'
    BY <1>1 DEF SweepRows
  <2>1. RowFits(r)
    BY DEF RowsInv, SweepRows
  <2> QED BY <1>1, <2>1, RowKept
<1>3. ToMerge' = ToMerge
  BY <1>1 DEF ToMerge
<1>4. MergeRows'
  BY <1>1, <1>3 DEF RowsInv, MergeRows
<1>5. DoneIsWhole'
  BY <1>1 DEF RowsInv, DoneIsWhole, Whole
<1> QED BY <1>2, <1>4, <1>5 DEF RowsInv

(* The plain tasks leave the rows as they are.                               *)
LEMMA PlainRows ==
  ASSUME PoolInv, RowsInv, NEW p \in Plain, PlainStep(p)
  PROVE  RowsInv'
<1>p. Rows \subseteq Actor /\ p \in Actor /\ p \notin Rows
  BY MatrixAssumption DEF Actor
<1>1. UNCHANGED <<mem, DiskVars, stage, SweepVars>>
  BY DEF PlainStep, StartPlain, EndPlain
<1>2. CASE job' = [job EXCEPT ![p] = "working"] \/ job' = [job EXCEPT ![p] = "over"]
  BY <1>p, <1>1, <1>2, QuietRows DEF PoolInv, TypeOK
<1>3. CASE job[p] = "idle" /\ acquireLaneSlot(p)
  <2>1. \A b \in Actor \ {p} : job'[b] = job[b]
    BY <1>p, <1>3, AcquireFits DEF PoolInv
  <2> QED BY <1>p, <1>1, <2>1, QuietRows
<1>4. CASE slot[p] # 0 /\ releaseLaneSlot(p)
  <2>1. \A b \in Actor \ {p} : job'[b] = job[b] \/ (job[b] = "waiting" /\ job'[b] = OnSlot(b))
    BY <1>p, <1>4, ReleaseFits DEF PoolInv
  <2>2. \A r \in Rows : OnSlot(r) = "holding"
    BY DEF OnSlot
  <2> QED BY <1>p, <1>1, <2>1, <2>2, QuietRows
<1> QED BY <1>2, <1>3, <1>4 DEF PlainStep, StartPlain, EndPlain

(* The sweep begins with the rows that are carried over and the others.      *)
LEMMA BeginRows ==
  ASSUME PoolInv, RowsInv, Begin
  PROVE  RowsInv'
<1>1. /\ stage = "begin" /\ stage' = "sweep" /\ disk' = mem'
      /\ subLanes' = subLanes /\ landed' = landed /\ doneFile' = doneFile /\ job' = job
      /\ todo' = {r \in Rows : Runnable(r)} /\ carried' = {r \in Rows : CarriedOver(r)}
      /\ \A r \in Rows : result'[r] = "none" /\ job[r] = "idle"
  BY DEF Begin, NoResults, PoolInv, SweepFits
<1>2. /\ mem'.task = "running" /\ mem'.place = mem.place
      /\ \A r \in Rows : mem'.row[r] = IF Runnable(r) THEN "pending" ELSE mem.row[r]
  BY DEF Begin, PoolInv, TypeOK, State
<1>3. ASSUME NEW r \in Rows PROVE RowFits(r)'
  <2>1. InSweep(r)' <=> Runnable(r)
    BY <1>1 DEF InSweep
  <2>2. CarriedOver(r) => mem.row[r] = "succeeded" /\ ~Runnable(r)
    BY DEF CarriedOver, Runnable
  <2> QED BY <1>1, <1>2, <2>1, <2>2 DEF RowFits, Runnable, CarriedOver
<1>4. SweepRows' /\ MergeRows'
  BY <1>1, <1>3 DEF SweepRows, MergeRows
<1>5. DoneIsWhole'
  BY <1>1, <1>2 DEF RowsInv, DoneIsWhole
<1> QED BY <1>4, <1>5 DEF RowsInv

(* A runner takes the next row of the sweep.                                 *)
LEMMA TakeRowRows ==
  ASSUME PoolInv, RowsInv, TakeRow
  PROVE  RowsInv'
<1>p. Rows \subseteq Actor
  BY DEF Actor
<1> DEFINE r == First(todo)
<1>1. /\ todo # {} /\ acquireLaneSlot(r) /\ todo' = todo \ {r} /\ stage = "sweep"
      /\ mem' = mem /\ disk' = disk /\ subLanes' = subLanes /\ landed' = landed
      /\ doneFile' = doneFile /\ stage' = stage /\ result' = result /\ made' = made
      /\ carried' = carried
  BY DEF TakeRow, DiskVars
<1>2. r \in todo /\ r \in Rows
  BY <1>1, FirstIsIn DEF PoolInv, TypeOK
<1> HIDE DEF r
<1>3. job[r] = "idle" /\ OnSlot(r) = "holding"
  BY <1>2 DEF PoolInv, SweepFits, OnSlot
<1>4. /\ \A b \in Actor \ {r} : job'[b] = job[b]
      /\ job'[r] \in {"waiting", "holding"}
  BY <1>p, <1>1, <1>2, <1>3, AcquireFits DEF PoolInv
<1>5. ASSUME NEW b \in Rows PROVE RowFits(b)'
  <2>1. RowFits(b)
    BY <1>1 DEF RowsInv, SweepRows
  <2>2. CASE b = r
    <3>1. InSweep(b) /\ InSweep(b)'
      BY <1>2, <1>4, <2>2 DEF InSweep
    <3> QED BY <1>1, <1>2, <1>3, <1>4, <2>1, <2>2, <3>1 DEF RowFits
  <2>3. CASE b # r
    BY <1>p, <1>1, <1>4, <2>1, <2>3, RowKept
  <2> QED BY <2>2, <2>3
<1>6. DoneIsWhole'
  BY <1>1 DEF RowsInv, DoneIsWhole, Whole
<1> QED BY <1>1, <1>5, <1>6 DEF RowsInv, SweepRows, MergeRows

(* A row that has its slot is marked running, or the save of that throws.    *)
LEMMA MarkRows ==
  ASSUME PoolInv, RowsInv, NEW r \in Rows, MarkRunning(r) \/ MarkRunningThrows(r)
  PROVE  RowsInv'
<1>p. Rows \subseteq Actor
  BY DEF Actor
<1>1. /\ job[r] = "holding" /\ stage = "sweep" /\ stage' = stage /\ subLanes' = subLanes
      /\ todo' = todo /\ made' = made /\ carried' = carried /\ landed' = landed
      /\ doneFile' = doneFile
      /\ mem' = [mem EXCEPT !.row[r] = "running"] /\ disk' \in {disk, mem'}
  BY DEF MarkRunning, MarkRunningThrows, DiskVars, SweepVars
<1>2. \/ /\ result' = result
         /\ job' = [job EXCEPT ![r] = "ready"]
      \/ /\ result' = [result EXCEPT ![r] = "thrown"]
         /\ job' = [job EXCEPT ![r] = "idle"]
  BY DEF MarkRunning, MarkRunningThrows, SweepVars
<1>3. /\ mem'.place = mem.place /\ mem'.task = mem.task /\ mem'.row[r] = "running"
      /\ \A b \in Rows : b # r => mem'.row[b] = mem.row[b]
  BY <1>1 DEF PoolInv, TypeOK, State
<1>4. \A b \in Rows : b # r => job'[b] = job[b] /\ result'[b] = result[b]
  BY <1>p, <1>2 DEF PoolInv, TypeOK
<1>5. \/ /\ job'[r] = "ready"
         /\ result'[r] = result[r]
      \/ /\ job'[r] = "idle"
         /\ result'[r] = "thrown"
  BY <1>p, <1>2 DEF PoolInv, TypeOK
<1>6. RowFits(r) /\ InSweep(r)
  BY <1>1 DEF RowsInv, SweepRows, InSweep
<1>7. ASSUME NEW b \in Rows PROVE RowFits(b)'
  <2>1. RowFits(b)
    BY <1>1 DEF RowsInv, SweepRows
  <2>2. CASE b = r
    <3>1. InSweep(r)' /\ r \notin todo
      BY <1>1, <1>5 DEF InSweep, PoolInv, SweepFits
    <3> QED BY <1>1, <1>3, <1>5, <1>6, <2>2, <3>1 DEF RowFits
  <2>3. CASE b # r
    BY <1>1, <1>3, <1>4, <2>1, <2>3, RowKept
  <2> QED BY <2>2, <2>3
<1>8. mem.row[r] # "canceled"
  BY <1>6 DEF RowFits
<1>9. \A b \in Rows : mem'.row[b] = "canceled" <=> mem.row[b] = "canceled"
  BY <1>3, <1>8
<1>10. DoneIsWhole'
  <2>1. doneFile = "none" /\ disk.task # "succeeded" /\ mem.task # "succeeded"
    BY <1>1 DEF RowsInv, DoneIsWhole
  <2>2. CASE disk' = disk
    BY <1>1, <1>9, <2>1, <2>2 DEF RowsInv, DoneIsWhole
  <2>3. CASE disk' = mem'
    BY <1>1, <1>3, <1>9, <2>1, <2>3 DEF RowsInv, DoneIsWhole
  <2> QED BY <1>1, <2>2, <2>3
<1> QED BY <1>1, <1>7, <1>10 DEF RowsInv, SweepRows, MergeRows

(* The worktree of the row is made, unless something is in its way.          *)
LEMMA ProvisionRows ==
  ASSUME PoolInv, RowsInv, NEW r \in Rows, Provision(r), <<r, slot[r]>> \notin subLanes
  PROVE  RowsInv'
<1>p. Rows \subseteq Actor
  BY DEF Actor
<1>1. /\ job[r] = "ready" /\ stage = "sweep" /\ stage' = stage /\ mem' = mem /\ disk' = disk
      /\ todo' = todo /\ result' = result /\ carried' = carried /\ landed' = landed
      /\ doneFile' = doneFile /\ subLanes' = subLanes \cup {<<r, slot[r]>>}
      /\ made' = [made EXCEPT ![r] = slot[r]] /\ job' = [job EXCEPT ![r] = "working"]
  BY DEF Provision
<1>2. /\ job'[r] = "working" /\ made'[r] = slot[r]
      /\ \A b \in Rows : b # r => job'[b] = job[b] /\ made'[b] = made[b]
  BY <1>p, <1>1 DEF PoolInv, TypeOK
<1>3. ASSUME NEW b \in Rows PROVE RowFits(b)'
  <2>1. RowFits(b)
    BY <1>1 DEF RowsInv, SweepRows
  <2>2. CASE b = r
    <3>1. InSweep(r) /\ InSweep(r)'
      BY <1>1, <1>2 DEF InSweep
    <3> QED BY <1>1, <1>2, <2>1, <2>2, <3>1 DEF RowFits
  <2>3. CASE b # r
    BY <1>1, <1>2, <2>1, <2>3, RowKept
  <2> QED BY <2>2, <2>3
<1>4. DoneIsWhole'
  BY <1>1 DEF RowsInv, DoneIsWhole, Whole
<1> QED BY <1>1, <1>3, <1>4 DEF RowsInv, SweepRows, MergeRows

(* The row ends, well or not, and gives its slot back.                       *)
LEMMA FinishRows ==
  ASSUME PoolInv, RowsInv, NEW r \in Rows,
         FinishRow(r) \/ (Provision(r) /\ <<r, slot[r]>> \in subLanes)
  PROVE  RowsInv'
<1>p. Rows \subseteq Actor
  BY DEF Actor
<1>1. PICK x \in Result : /\ result' = [result EXCEPT ![r] = x]
                          /\ x # "none" /\ (x = "ok" => job[r] = "working")
  BY DEF FinishRow, Provision, Result
<1>2. /\ job[r] \in {"ready", "working"} /\ releaseLaneSlot(r) /\ stage = "sweep"
      /\ stage' = stage /\ mem' = mem /\ disk' = disk /\ subLanes' = subLanes
      /\ landed' = landed /\ doneFile' = doneFile /\ todo' = todo /\ made' = made
      /\ carried' = carried
  BY DEF FinishRow, Provision, DiskVars
<1>3. slot[r] # 0
  BY <1>2 DEF PoolInv, JobsFit, Active
<1>4. /\ job'[r] = "idle"
      /\ \A b \in Actor \ {r} :
           job'[b] = job[b] \/ (job[b] = "waiting" /\ job'[b] = OnSlot(b))
  BY <1>p, <1>2, <1>3, ReleaseFits DEF PoolInv, After
<1>5. ASSUME NEW b \in Rows, b # r
      PROVE  /\ result'[b] = result[b]
             /\ job'[b] = "idle" <=> job[b] = "idle"
             /\ job'[b] = "working" <=> job[b] = "working"
  <2>1. OnSlot(b) = "holding"
    BY DEF OnSlot
  <2>2. job'[b] = job[b] \/ (job[b] = "waiting" /\ job'[b] = "holding")
    BY <1>p, <1>4, <1>5, <2>1
  <2> QED BY <1>1, <1>5, <2>2 DEF PoolInv, TypeOK
<1>6. result'[r] = x
  BY <1>1 DEF PoolInv, TypeOK
<1>7. r \notin todo
  BY <1>2 DEF PoolInv, SweepFits
<1>8. ASSUME NEW b \in Rows PROVE RowFits(b)'
  <2>1. RowFits(b)
    BY <1>2 DEF RowsInv, SweepRows
  <2>2. CASE b = r
    <3>1. InSweep(r) /\ InSweep(r)'
      BY <1>1, <1>2, <1>6 DEF InSweep
    <3> QED BY <1>1, <1>2, <1>4, <1>6, <1>7, <2>1, <2>2, <3>1 DEF RowFits
  <2>3. CASE b # r
    BY <1>2, <1>5, <2>1, <2>3, RowKept
  <2> QED BY <2>2, <2>3
<1>9. DoneIsWhole'
  BY <1>2 DEF RowsInv, DoneIsWhole, Whole
<1> QED BY <1>2, <1>8, <1>9 DEF RowsInv, SweepRows, MergeRows

(* The sweep is over and all rows have gone well: each of them can be merged. *)
LEMMA SweepSucceedsRows ==
  ASSUME PoolInv, RowsInv, SweepSucceeds
  PROVE  RowsInv'
<1>1. /\ SweepDone /\ AllSucceeded(RowsAfterSweep) /\ stage' = "merge"
      /\ mem' = [mem EXCEPT !.row = RowsAfterSweep, !.place = PlaceAfterSweep]
      /\ disk' = disk /\ subLanes' = subLanes /\ landed' = landed /\ doneFile' = doneFile
      /\ result' = result /\ carried' = carried
  BY DEF SweepSucceeds, DiskVars, SweepVars
<1>2. stage = "sweep" /\ doneFile = "none" /\ disk.task # "succeeded" /\ mem.task # "succeeded"
  BY <1>1 DEF SweepDone, RowsInv, DoneIsWhole
<1>3. mem'.row = RowsAfterSweep /\ mem'.place = PlaceAfterSweep /\ mem'.task = mem.task
  BY <1>1 DEF PoolInv, TypeOK, State
<1>4. ASSUME NEW r \in Rows
      PROVE  /\ mem'.row[r] = "canceled" \/ r \in ToMerge'
             /\ mem'.row[r] = "canceled" <=> mem.row[r] = "canceled"
  <2>1. RowFits(r)
    BY <1>2 DEF RowsInv, SweepRows
  <2>2. /\ mem'.row[r] \in {"succeeded", "canceled"}
        /\ mem'.row[r] = IF r \notin Swept THEN mem.row[r]
                         ELSE IF result[r] = "ok" THEN "succeeded" ELSE "failed"
        /\ mem'.place[r] = CASE result[r] = "ok" -> made[r]
                             [] result[r] = "failed" -> 0
                             [] OTHER -> mem.place[r]
    BY <1>1, <1>3 DEF AllSucceeded, RowsAfterSweep, PlaceAfterSweep
  <2>3. r \in ToMerge' <=> (r \in carried \/ result[r] = "ok") /\ <<r, mem'.place[r]>> \in subLanes
    BY <1>1 DEF ToMerge
  <2>4. CASE result[r] = "none"
    <3>1. mem'.row[r] = mem.row[r] /\ mem'.place[r] = mem.place[r]
      BY <2>2, <2>4 DEF Swept
    <3> QED BY <2>1, <2>2, <2>3, <3>1 DEF RowFits
  <2>5. CASE result[r] = "thrown"
    <3>1. mem'.row[r] = mem.row[r] /\ mem.row[r] \in {"pending", "running"}
      BY <2>1, <2>2, <2>5 DEF Swept, RowFits, InSweep
    <3> QED BY <2>2, <3>1
  <2>6. CASE result[r] \notin {"none", "thrown"}
    <3>1. r \in Swept /\ mem.row[r] \in {"pending", "running"}
      BY <2>1, <2>6 DEF Swept, RowFits, InSweep
    <3>2. result[r] = "ok" /\ mem'.row[r] = "succeeded" /\ mem'.place[r] = made[r]
      BY <2>2, <3>1
    <3> QED BY <2>1, <2>3, <3>1, <3>2 DEF RowFits
  <2> QED BY <2>4, <2>5, <2>6
<1>5. DoneIsWhole'
  BY <1>1, <1>2, <1>3, <1>4 DEF RowsInv, DoneIsWhole
<1> QED BY <1>1, <1>4, <1>5 DEF RowsInv, SweepRows, MergeRows

(* The sweep is over and some row has not gone well.                         *)
LEMMA SweepFailsRows ==
  ASSUME PoolInv, RowsInv, SweepFails
  PROVE  RowsInv'
<1>1. /\ SweepDone /\ stage' = "over" /\ disk' = mem'
      /\ mem'.task = "failed" /\ mem'.row = RowsAfterSweep
      /\ landed' = landed /\ doneFile' = doneFile
  BY DEF SweepFails
<1>2. stage = "sweep" /\ doneFile = "none"
  BY <1>1 DEF SweepDone, RowsInv, DoneIsWhole
<1>3. DoneIsWhole'
  BY <1>1, <1>2 DEF DoneIsWhole
<1> QED BY <1>1, <1>3 DEF RowsInv, SweepRows, MergeRows

(* A row is merged: it is no longer to be merged, the others still are.      *)
LEMMA MergeRowRows ==
  ASSUME PoolInv, RowsInv, NEW r \in Rows, MergeRow(r)
  PROVE  RowsInv'
<1>1. /\ stage = "merge" /\ stage' = stage /\ landed' = landed \cup {r}
      /\ subLanes' = subLanes \ {<<r, mem.place[r]>>}
      /\ mem' = mem /\ disk' = disk /\ doneFile' = doneFile
      /\ result' = result /\ carried' = carried
  BY DEF MergeRow, SweepVars
<1>2. ASSUME NEW b \in Rows
      PROVE  mem'.row[b] = "canceled" \/ b \in landed' \/ b \in ToMerge'
  <2>1. mem.row[b] = "canceled" \/ b \in landed \/ b \in ToMerge
    BY <1>1 DEF RowsInv, MergeRows
  <2>2. b \in ToMerge /\ b # r => b \in ToMerge'
    BY <1>1 DEF ToMerge
  <2> QED BY <1>1, <2>1, <2>2
<1>3. DoneIsWhole'
  BY <1>1 DEF RowsInv, DoneIsWhole
<1> QED BY <1>1, <1>2, <1>3 DEF RowsInv, SweepRows, MergeRows

(* The task is finished: .DONE is written when no row is left to be merged,  *)
(* committed and recorded; or the merge or the commit fails.                 *)
LEMMA EndRows ==
  ASSUME PoolInv, RowsInv, MergeRowFails \/ WriteDone \/ Commit \/ CommitFails \/ Succeed
  PROVE  RowsInv'
<1>1. CASE MergeRowFails
  <2>1. /\ stage = "merge" /\ stage' = "over" /\ doneFile' = doneFile /\ disk' = mem'
        /\ mem' = [mem EXCEPT !.task = "failed"]
    BY <1>1 DEF MergeRowFails
  <2>2. mem'.task = "failed"
    BY <2>1 DEF PoolInv, TypeOK, State
  <2>3. DoneIsWhole'
    BY <2>1, <2>2 DEF RowsInv, DoneIsWhole
  <2> QED BY <2>1, <2>3 DEF RowsInv, SweepRows, MergeRows
<1>2. CASE WriteDone
  <2>1. /\ stage = "merge" /\ stage' = "commit" /\ doneFile' = "file" /\ ToMerge = {}
        /\ mem' = mem /\ disk' = disk /\ landed' = landed
    BY <1>2 DEF WriteDone
  <2>2. Whole(mem)
    BY <2>1 DEF RowsInv, MergeRows, Whole
  <2>3. Whole(mem)' /\ Whole(disk)'
    BY <2>1, <2>2 DEF RowsInv, DoneIsWhole, Whole
  <2>4. DoneIsWhole'
    BY <2>1, <2>3 DEF RowsInv, DoneIsWhole
  <2> QED BY <2>1, <2>4 DEF RowsInv, SweepRows, MergeRows
<1>3. CASE Commit
  <2>1. /\ stage = "commit" /\ stage' = "record" /\ doneFile' = "committed"
        /\ mem' = mem /\ disk' = disk /\ landed' = landed
    BY <1>3 DEF Commit
  <2>2. DoneIsWhole'
    BY <2>1 DEF RowsInv, DoneIsWhole, Whole
  <2> QED BY <2>1, <2>2 DEF RowsInv, SweepRows, MergeRows
<1>4. CASE CommitFails \/ Succeed
  <2>1. /\ stage \in {"commit", "record"} /\ stage' = "over" /\ doneFile' = doneFile
        /\ disk' = mem' /\ landed' = landed
        /\ \E t \in TaskStatus : mem' = [mem EXCEPT !.task = t]
    BY <1>4 DEF CommitFails, Succeed, TaskStatus
  <2>2. mem'.row = mem.row
    BY <2>1 DEF PoolInv, TypeOK, State
  <2>3. DoneIsWhole'
    BY <2>1, <2>2 DEF RowsInv, DoneIsWhole, Whole
  <2> QED BY <2>1, <2>3 DEF RowsInv, SweepRows, MergeRows
<1> QED BY <1>1, <1>2, <1>3, <1>4

(* The engine ends or is killed; what it had not saved is lost.              *)
LEMMA GoneRows ==
  ASSUME PoolInv, RowsInv, EngineEnds \/ Kill
  PROVE  RowsInv'
<1>1. /\ stage' = "none" /\ disk' = disk /\ doneFile' = doneFile /\ landed' = landed
      /\ mem' = mem \/ mem' = disk
  BY DEF EngineEnds, Kill, NoEngine, DiskVars
<1>2. DoneIsWhole'
  BY <1>1 DEF RowsInv, DoneIsWhole, Whole
<1> QED BY <1>1, <1>2 DEF RowsInv, SweepRows, MergeRows

(* The operator retries the task or a row, skips a row, resumes the batch:   *)
(* what is retried and was in the branch is still there.                     *)
LEMMA OperatorRows ==
  ASSUME PoolInv, RowsInv, Operator
  PROVE  RowsInv'
<1> USE DEF PoolInv, TypeOK, State
<1>1. stage = "none" /\ landed' = landed /\ doneFile' = doneFile
  BY DEF Operator, retryTask, retryTaskRow, skipTaskRow, Resume, Engineless, DiskVars
<1>2. CASE Resume
  <2>1. mem' = mem /\ disk' = disk /\ stage' = IF doneFile = "none" THEN "begin" ELSE "commit"
    BY <1>2 DEF Resume, DiskVars
  <2>2. DoneIsWhole'
    BY <1>1, <2>1 DEF RowsInv, DoneIsWhole, Whole
  <2> QED BY <2>1, <2>2 DEF RowsInv, SweepRows, MergeRows
<1>3. ASSUME stage' = "none", mem' = disk', disk'.task = "succeeded" => doneFile # "none",
             \A b \in Rows : disk.row[b] = "canceled" => disk'.row[b] = "canceled"
      PROVE  RowsInv'
  <2>1. DoneIsWhole'
    BY <1>1, <1>3 DEF RowsInv, DoneIsWhole, Whole
  <2> QED BY <1>3, <2>1 DEF RowsInv, SweepRows, MergeRows
<1>4. CASE retryTask
  <2>1. /\ mem' = disk' /\ stage' = stage
        /\ disk' = [disk EXCEPT !.task = "pending",
                      !.row = [b \in Rows |-> IF @[b] = "failed" THEN "pending" ELSE @[b]]]
    BY <1>4 DEF retryTask, SaveDisk, Engineless
  <2>2. /\ disk'.task = "pending"
        /\ \A b \in Rows : disk.row[b] = "canceled" => disk'.row[b] = "canceled"
    BY <2>1
  <2> QED BY <1>1, <1>3, <2>1, <2>2
<1>5. ASSUME NEW r \in Rows, retryTaskRow(r) PROVE RowsInv'
  <2>1. /\ mem' = disk' /\ stage' = stage /\ disk.row[r] = "failed"
        /\ disk' = [disk EXCEPT !.task = "pending", !.row[r] = "pending"]
    BY <1>5 DEF retryTaskRow, SaveDisk, Engineless
  <2>2. /\ disk'.task = "pending"
        /\ \A b \in Rows : disk.row[b] = "canceled" => disk'.row[b] = "canceled"
    BY <2>1
  <2> QED BY <1>1, <1>3, <2>1, <2>2
<1>6. ASSUME NEW r \in Rows, skipTaskRow(r) PROVE RowsInv'
  <2>1. /\ mem' = disk' /\ stage' = stage
        /\ disk' = [disk EXCEPT !.task = ReconciledTask, !.row[r] = "canceled"]
    BY <1>6 DEF skipTaskRow, SaveDisk, Engineless
  <2>2. /\ disk'.task = ReconciledTask
        /\ \A b \in Rows : disk.row[b] = "canceled" => disk'.row[b] = "canceled"
    BY <2>1
  <2>3. ReconciledTask = "succeeded" => doneFile # "none"
    BY DEF ReconciledTask, RowsInv, DoneIsWhole
  <2> QED BY <1>1, <1>3, <2>1, <2>2, <2>3
<1> QED BY <1>2, <1>4, <1>5, <1>6 DEF Operator

(* The invariant of the rows holds at first and is kept by every step.       *)
LEMMA RowsInductive ==
  /\ Init => RowsInv
  /\ PoolInv /\ RowsInv /\ [Next]_vars => RowsInv'
<1>1. Init => RowsInv
  BY DEF Init, RowsInv, SweepRows, MergeRows, DoneIsWhole
<1>2. ASSUME PoolInv, RowsInv, [Next]_vars PROVE RowsInv'
  <2>1. CASE UNCHANGED vars
    BY <1>2, <2>1, QuietRows DEF vars, DiskVars, SweepVars
  <2>2. ASSUME NEW r \in Rows, RowStep(r) PROVE RowsInv'
    BY <1>2, <2>2, MarkRows, ProvisionRows, FinishRows DEF RowStep
  <2>3. ASSUME NEW p \in Plain, PlainStep(p) PROVE RowsInv'
    BY <1>2, <2>3, PlainRows
  <2>4. ASSUME NEW r \in Rows, MergeRow(r) PROVE RowsInv'
    BY <1>2, <2>4, MergeRowRows
  <2>5. CASE Begin \/ TakeRow \/ SweepFails \/ SweepSucceeds
    BY <1>2, <2>5, BeginRows, TakeRowRows, SweepFailsRows, SweepSucceedsRows
  <2>6. CASE MergeRowFails \/ WriteDone \/ Commit \/ CommitFails \/ Succeed
    BY <1>2, <2>6, EndRows
  <2>7. CASE EngineEnds \/ Kill \/ Operator
    BY <1>2, <2>7, GoneRows, OperatorRows
  <2> QED BY <1>2, <2>1, <2>2, <2>3, <2>4, <2>5, <2>6, <2>7 DEF Next, TaskStep
<1> QED BY <1>1, <1>2

(* The inductive invariant of the rows, which the two results below rest on. *)
THEOREM RowsInvariant == Spec => []RowsInv
BY RowsInductive, PoolInvariant, PTL DEF Spec

(* A matrix task is recorded as succeeded only with the work of every row    *)
(* that was not canceled in the lane's branch: for any number of rows and    *)
(* slots, any kills, crashes, conflicts, saves that throw, retries and skips. *)
THEOREM SuccessIsWhole == Spec => []SucceededIsWhole
<1>1. RowsInv => SucceededIsWhole
  BY DEF RowsInv, DoneIsWhole, Whole, SucceededIsWhole
<1> QED BY <1>1, RowsInvariant, PTL

(* A step of the sweep removes no worktree of a row that went well or was    *)
(* carried over: only failed rows lose theirs.                               *)
LEMMA SweepKeeps ==
  ASSUME PoolInv, RowsInv, [Next]_vars, stage = "sweep",
         NEW r \in Rows, r \in carried \/ result[r] = "ok",
         NEW p \in Slots, <<r, p>> \in subLanes
  PROVE  <<r, p>> \in subLanes'
<1>1. CASE SweepFails
  <2>1. result[r] # "failed"
    BY DEF RowsInv, SweepRows, RowFits, InSweep
  <2>2. <<r, p>> \notin FailedPlaces
    BY <2>1 DEF FailedPlaces
  <2> QED BY <1>1, <2>2 DEF SweepFails
<1>2. CASE ~SweepFails
  <2>1. subLanes \subseteq subLanes'
    BY <1>2 DEF Next, TaskStep, RowStep, PlainStep, Operator, vars, Begin, TakeRow, SweepSucceeds,
       MergeRow, MergeRowFails, WriteDone, Commit, CommitFails, Succeed, EngineEnds, NoEngine, Kill,
       MarkRunning, MarkRunningThrows, Provision, FinishRow, StartPlain, EndPlain, retryTask,
       retryTaskRow, skipTaskRow, Resume, Engineless, DiskVars
  <2> QED BY <2>1
<1> QED BY <1>1, <1>2

(* Failed rows do not cost the work of the others, for any rows and slots.   *)
THEOREM FinishedRowsStay == Spec => KeepsFinishedRows
<1>1. PoolInv /\ RowsInv /\ [Next]_vars =>
        [stage = "sweep" =>
           \A r \in Rows : (r \in carried \/ result[r] = "ok") =>
             \A p \in Slots : <<r, p>> \in subLanes => <<r, p>> \in subLanes']_vars
  BY SweepKeeps
<1> QED BY <1>1, PoolInvariant, RowsInvariant, PTL DEF Spec, KeepsFinishedRows
=============================================================================
