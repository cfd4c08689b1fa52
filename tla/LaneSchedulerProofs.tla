------------------------ MODULE LaneSchedulerProofs ------------------------
(* What holds of the lanes of a batch for any plan, any lanes, any shared    *)
(* dependencies and all faults: proofs about LaneScheduler.                  *)
EXTENDS LaneScheduler, TLAPS, FiniteSetTheorems, WellFoundedInduction

---------------------------------------------------------------------------
(* The inductive invariant.                                                  *)

Fresh == stage # "none" /\ ~resumed
InQueue(t) == \E l \in Lane : \E i \in DOMAIN queue[l] : queue[l][i].task = t

(* Where the engine is: a resume has its own loop, and the lanes are at rest *)
(* but in the stage that runs them.                                          *)
PlaceFits ==
  /\ stage = "none" => ~resumed
  /\ stage = "tick" => ~resumed
  /\ stage = "wave" => resumed
  /\ stage \in {"tick", "lanes"} /\ ~resumed => tick \in DOMAIN Plan[wave]
  /\ stage # "lanes" => queue = NoQueue /\ ~aborting

(* A lane has tasks of the wave, and of the tick, each of them once; a fresh *)
(* engine takes none for done but what is done on the host.                  *)
QueueFits ==
  \A l \in Lane : \A i \in DOMAIN queue[l] :
    /\ queue[l][i].task \in TasksOf(wave, l)
    /\ ~resumed => queue[l][i].task \in Elements(Plan[wave][tick][l])
    /\ \A j \in DOMAIN queue[l] : queue[l][i].task = queue[l][j].task => i = j
    /\ queue[l][i].how = "host" => ~resumed /\ queue[l][i].task \in hostDone
    /\ queue[l][i].how = "mark" => queue[l][i].task \in done \cup hostDone

(* Nothing that the journal has as completed is taken again, nor what was    *)
(* skipped or aborted without a .DONE; what succeeded is in the journal, or  *)
(* was done on the host.                                                     *)
Quiet(t) == task[t] \in {"skipped", "aborted"} /\ t \notin done
JournalFits ==
  /\ \A t \in completed : task[t] = "succeeded"
  /\ \A t \in Task : task[t] = "succeeded" => t \in completed \cup hostDone
  /\ \A l \in Lane : \A i \in DOMAIN queue[l] :
       queue[l][i].task \notin completed /\ ~Quiet(queue[l][i].task)

(* A task gets from its .DONE to the commit of it; a lane with no task is    *)
(* ready for the next one.                                                   *)
CommitFits ==
  \A l \in Lane :
    /\ queue[l] = <<>> => at[l] = "next"
    /\ queue[l] # <<>> /\ at[l] \in {"review", "commit"}
         => Current(l).task \in done \cup hostDone
    /\ queue[l] # <<>> /\ at[l] = "committed"
         => Current(l).task \in branch[l] \cup hostDone

(* A fresh engine has merged what is behind it and not touched what is ahead.*)
Ahead(w, k) == w > wave \/ (w = wave /\ stage = "lanes" /\ k > tick)
                        \/ (w = wave /\ stage = "tick" /\ k >= tick)
FreshFits ==
  Fresh =>
    /\ forced = {}
    /\ \A w \in Wave : w < wave => row[w] = "succeeded"
    /\ \A w \in Wave : w > wave \/ (w = wave /\ stage # "finalize")
                       => row[w] # "succeeded"
    /\ \A w \in Wave : \A k \in DOMAIN Plan[w] : \A l \in Lane :
         Ahead(w, k) => \A t \in Elements(Plan[w][k][l]) : task[t] = "pending"
    /\ \A t \in Task : task[t] # "skipped" /\ (task[t] = "aborted" => aborting)
    /\ \A w \in Wave : left[w] = {}
    /\ \A w \in merges : w < wave \/ (w = wave /\ stage \in {"merge", "finalize"})

(* A resumed engine has taken every task of the wave that is not settled.    *)
Settled(t) == t \in completed \/ Quiet(t) \/ task[t] \in Failed
ResumedFits ==
  stage = "lanes" /\ resumed /\ ~bad /\ ~aborting =>
    \A t \in WaveTasks(wave) : InQueue(t) \/ Settled(t)

(* A wave that the row or the journal has as merged, or that is being merged:*)
(* no task of it is left to run but what was done on the host, and each lane *)
(* is in the orch branch, or was left by a merge that broke off, or is still *)
(* to be merged, or has nothing to merge.                                    *)
Recorded(w) == row[w] = "succeeded" \/ w \in merges \/ (stage = "merge" /\ w = wave)
Over(w) == \A t \in WaveTasks(w) : task[t] = "succeeded" \/ Quiet(t) \/ t \in hostDone
Taking(w, l) == stage = "merge" /\ w = wave /\ l \in toMerge
LaneIsIn(w, l) ==
  \/ TasksOf(w, l) \subseteq orch
  \/ l \in left[w]
  \/ Taking(w, l)
  \/ \A t \in TasksOf(w, l) : Quiet(t)
RowsFit ==
  \A w \in Wave \ forced : Recorded(w) => Over(w) /\ \A l \in Lane : LaneIsIn(w, l)
MergeFits == stage = "merge" => row[wave] # "succeeded"

LaneInv ==
  /\ TypeOK /\ PlaceFits /\ QueueFits /\ JournalFits /\ CommitFits
  /\ SucceededIsCommitted /\ FreshFits /\ ResumedFits /\ MergeFits /\ RowsFit
---------------------------------------------------------------------------
(* The plan.                                                                 *)

(* A set of numbers has a least one.                                         *)
LEMMA Least ==
  ASSUME NEW S \in SUBSET Nat, S # {}
  PROVE  \E m \in S : \A s \in S : m <= s
<1>1. PICK m \in S : \A s \in S : <<s, m>> \notin OpToRel(<, Nat)
  BY WFMin, NatLessThanWellFounded, Zenon
<1>2. \A s \in S : ~(s < m)
  BY <1>1, Zenon DEF OpToRel
<1> QED BY <1>2

(* A task of a lane in a wave is a task of that wave, and its lane is that   *)
(* lane.                                                                     *)
LEMMA InLane ==
  ASSUME NEW w \in Wave, NEW l \in Lane, NEW t \in TasksOf(w, l)
  PROVE  t \in WaveTasks(w) /\ t \in Task /\ LaneOf[t] = l
<1>1. t \in WaveTasks(w)
  BY DEF WaveTasks
<1>2. t \in Task
  BY <1>1 DEF Task
<1>3. \A m \in Lane : (\E v \in Wave : t \in TasksOf(v, m)) => m = l
  BY OnceAssumption
<1>4. LaneOf[t] = CHOOSE m \in Lane : \E v \in Wave : t \in TasksOf(v, m)
  BY <1>2 DEF LaneOf
<1> QED
  BY <1>1, <1>2, <1>3, <1>4

(* Every task is in one lane of one wave.                                    *)
LEMMA HasLane ==
  ASSUME NEW w \in Wave, NEW t \in WaveTasks(w)
  PROVE  t \in Task /\ LaneOf[t] \in Lane /\ t \in TasksOf(w, LaneOf[t])
<1>1. PICK l \in Lane : t \in TasksOf(w, l)
  BY DEF WaveTasks
<1> QED
  BY <1>1, InLane

LEMMA OneWave ==
  ASSUME NEW w \in Wave, NEW v \in Wave, NEW t \in WaveTasks(w), t \in WaveTasks(v)
  PROVE  w = v
  BY OnceAssumption DEF WaveTasks

LEMMA TaskHasWave ==
  ASSUME NEW t \in Task
  PROVE  \E w \in Wave : t \in WaveTasks(w)
  BY DEF Task

(* The tasks of one lane in one tick are of that lane.                       *)
LEMMA InTick ==
  ASSUME NEW w \in Wave, NEW k \in DOMAIN Plan[w], NEW l \in Lane,
         NEW t \in Elements(Plan[w][k][l])
  PROVE  t \in TasksOf(w, l)
  BY DEF TasksOf
---------------------------------------------------------------------------
(* Types.                                                                    *)

Entries == [task : Task, how : How]

LEMMA TypeInit == Init => TypeOK
<1> SUFFICES ASSUME Init PROVE TypeOK
  OBVIOUS
<1>1. 1 \in Wave
  BY PlanAssumption
<1>2. NoQueue \in [Lane -> Seq(Entries)] /\ AllNext \in [Lane -> At]
  BY DEF NoQueue, AllNext, At
<1>3. PICK onBase \in SUBSET hostDone :
        done = onBase /\ orch = onBase /\ branch = [l \in Lane |-> onBase]
  BY DEF Init
<1>4. hostDone \subseteq Task /\ onBase \subseteq Task
  BY DepsAssumption DEF Init
<1>5. /\ done \subseteq Task /\ orch \subseteq Task /\ branch \in [Lane -> SUBSET Task]
  BY <1>3, <1>4
<1>6. task \in [Task -> Status] /\ row \in [Wave -> Row]
  BY DEF Init, Status, Row
<1>7. queue \in [Lane -> Seq(Entries)] /\ at \in [Lane -> At]
  BY <1>2 DEF Init
<1>8. /\ pausing \in BOOLEAN /\ signal \in BOOLEAN /\ worktrees \in BOOLEAN
      /\ resumed \in BOOLEAN /\ bad \in BOOLEAN /\ aborting \in BOOLEAN
  BY Zenon DEF Init
<1>9. /\ phase \in Phase /\ stage \in Stage /\ wave \in Wave /\ tick \in Nat \ {0}
      /\ forced \subseteq Wave /\ completed \subseteq Task /\ merges \subseteq Wave
      /\ toMerge \subseteq Lane /\ left \in [Wave -> SUBSET Lane]
  BY <1>1 DEF Init, Phase, Stage
<1> QED
  BY <1>4, <1>5, <1>6, <1>7, <1>8, <1>9 DEF TypeOK, Entries

LEMMA CurrentIsEntry ==
  ASSUME TypeOK, NEW l \in Lane, queue[l] # <<>>
  PROVE  /\ Current(l) \in Entries /\ Current(l).task \in Task
         /\ Current(l) = queue[l][1] /\ 1 \in DOMAIN queue[l]
         /\ Tail(queue[l]) \in Seq(Entries)
         /\ DOMAIN Tail(queue[l]) = 1..(Len(queue[l]) - 1)
         /\ \A i \in DOMAIN Tail(queue[l]) :
              i + 1 \in DOMAIN queue[l] /\ Tail(queue[l])[i] = queue[l][i + 1]
<1>1. queue[l] \in Seq(Entries)
  BY DEF TypeOK, Entries
<1>2. Current(l) = queue[l][1] /\ Current(l) \in Entries
  BY <1>1 DEF Current
<1> QED
  BY <1>1, <1>2 DEF Entries

LEMMA TypeLane ==
  ASSUME TypeOK, NEW l \in Lane, LaneStep(l)
  PROVE  TypeOK'
<1> DEFINE t == Current(l).task
<1>1. queue[l] # <<>>
  BY DEF LaneStep, SkipDoneOnDisk, CannotBegin, Begin, MarkComplete, WorkerSucceeds,
     WorkerFails, WorkerAborted, ReviewPasses, ReviewFails, Commit, CommitFails,
     Succeed, Busy
<1>2. t \in Task /\ Tail(queue[l]) \in Seq(Entries) /\ <<>> \in Seq(Entries)
  BY <1>1, CurrentIsEntry
<1>3. /\ queue \in [Lane -> Seq(Entries)] /\ at \in [Lane -> At]
      /\ task \in [Task -> Status] /\ branch \in [Lane -> SUBSET Task]
      /\ done \subseteq Task /\ completed \subseteq Task /\ orch \subseteq Task
  BY DEF TypeOK, Entries
<1> HIDE DEF t
<1>4. queue' \in [Lane -> Seq(Entries)] /\ at' \in [Lane -> At]
  BY <1>2, <1>3 DEF LaneStep, SkipDoneOnDisk, CannotBegin, Begin, MarkComplete,
     WorkerSucceeds, WorkerFails, WorkerAborted, ReviewPasses, ReviewFails, Commit,
     CommitFails, Succeed, FailTask, Pop, MoveTo, At
<1>5. task' \in [Task -> Status]
  BY <1>2, <1>3 DEF LaneStep, SkipDoneOnDisk, CannotBegin, Begin, MarkComplete,
     WorkerSucceeds, WorkerFails, WorkerAborted, ReviewPasses, ReviewFails, Commit,
     CommitFails, Succeed, FailTask, SetTask, Status, Failed, t
<1>6. done' \subseteq Task /\ completed' \subseteq Task
  BY <1>2, <1>3 DEF LaneStep, SkipDoneOnDisk, CannotBegin, Begin, MarkComplete,
     WorkerSucceeds, WorkerFails, WorkerAborted, ReviewPasses, ReviewFails, Commit,
     CommitFails, Succeed, t
<1>7. branch' \in [Lane -> SUBSET Task]
  BY <1>2, <1>3 DEF LaneStep, SkipDoneOnDisk, CannotBegin, Begin, MarkComplete,
     WorkerSucceeds, WorkerFails, WorkerAborted, ReviewPasses, ReviewFails, Commit,
     CommitFails, Succeed, Committed, t
<1>8. bad' \in BOOLEAN /\ aborting' \in BOOLEAN /\ orch' = orch
  BY DEF TypeOK, LaneStep, SkipDoneOnDisk, CannotBegin, Begin, MarkComplete,
     WorkerSucceeds, WorkerFails, WorkerAborted, ReviewPasses, ReviewFails, Commit,
     CommitFails, Succeed, FailTask
<1>9. UNCHANGED Rest
  BY DEF LaneStep, SkipDoneOnDisk, CannotBegin, Begin, MarkComplete, WorkerSucceeds,
     WorkerFails, WorkerAborted, ReviewPasses, ReviewFails, Commit, CommitFails, Succeed
<1> QED
  BY <1>4, <1>5, <1>6, <1>7, <1>8, <1>9
     DEF TypeOK, Rest, OperatorVars, PlaceVars, Entries

LEMMA FiniteRange ==
  ASSUME NEW n \in Nat, NEW f, f = [i \in 1..n |-> f[i]]
  PROVE  IsFiniteSet({f[i] : i \in 1..n})
<1> DEFINE T == {f[i] : i \in 1..n}
<1>1. f \in Surjection(1..n, T)
  <2>1. f \in [1..n -> T]
    OBVIOUS
  <2> QED
    BY <2>1 DEF Surjection
<1>2. IsFiniteSet(1..n)
  BY FS_Interval
<1> HIDE DEF T
<1>3. IsFiniteSet(T)
  BY <1>1, <1>2, FS_Surjection, Zenon
<1> QED
  BY <1>3 DEF T

LEMMA FiniteTasks ==
  ASSUME NEW w \in Wave, NEW l \in Lane
  PROVE  IsFiniteSet(TasksOf(w, l))
<1>1. ASSUME NEW k \in DOMAIN Plan[w]
      PROVE  IsFiniteSet(Elements(Plan[w][k][l]))
  <2> DEFINE s == Plan[w][k][l]
  <2>1. s \in Seq(Task)
    BY PlanAssumption
  <2>2. Len(s) \in Nat /\ DOMAIN s = 1..Len(s) /\ s = [i \in 1..Len(s) |-> s[i]]
    BY <2>1
  <2> HIDE DEF s
  <2>3. IsFiniteSet({s[i] : i \in 1..Len(s)})
    BY <2>2, FiniteRange
  <2> QED
    BY <2>2, <2>3 DEF Elements, s
<1> DEFINE n == Len(Plan[w])
           f == [k \in 1..n |-> Elements(Plan[w][k][l])]
<1>2. DOMAIN Plan[w] = 1..n /\ n \in Nat
  BY PlanAssumption
<1>3. f = [k \in 1..n |-> f[k]]
  OBVIOUS
<1> HIDE DEF n
<1>4. \A k \in 1..n : IsFiniteSet(f[k])
  BY <1>1, <1>2
<1>5. TasksOf(w, l) = UNION {f[k] : k \in 1..n}
  BY <1>2 DEF TasksOf
<1> HIDE DEF f
<1>6. IsFiniteSet({f[k] : k \in 1..n})
  BY <1>2, <1>3, FiniteRange
<1> QED
  BY <1>4, <1>5, <1>6, FS_UNION

(* What a resumed lane takes is a sequence of tasks of the lane, each once.  *)
LEMMA OrderFits ==
  ASSUME NEW w \in Wave, NEW l \in Lane, NEW q \in ResumeOrders(w, l)
  PROVE  /\ q \in Seq(Task)
         /\ Elements(q) = {t \in TasksOf(w, l) : Taken(t)}
         /\ \A i, j \in DOMAIN q : q[i] = q[j] => i = j
<1> DEFINE todo == {t \in TasksOf(w, l) : Taken(t)}
<1>1. Cardinality(todo) \in Nat
  BY FiniteTasks, FS_Subset, FS_CardinalityType, Zenon
<1>2. todo \subseteq Task
  BY InLane
<1>3. /\ q \in [1..Cardinality(todo) -> todo] /\ Elements(q) = todo
      /\ \A i, j \in DOMAIN q : i < j => Precedes(w, l, q[i], q[j])
  BY DEF ResumeOrders
<1>4. q \in Seq(Task)
  BY <1>1, <1>2, <1>3
<1>5. ASSUME NEW i \in DOMAIN q, NEW j \in DOMAIN q, q[i] = q[j], i < j
      PROVE  FALSE
  <2>1. PICK m \in DOMAIN Plan[w], n \in DOMAIN Plan[w] :
          \E a \in DOMAIN Plan[w][m][l], b \in DOMAIN Plan[w][n][l] :
            /\ Plan[w][m][l][a] = q[i] /\ Plan[w][n][l][b] = q[i]
            /\ m < n \/ (m = n /\ a < b)
    BY <1>3, <1>5 DEF Precedes
  <2>2. PICK a \in DOMAIN Plan[w][m][l], b \in DOMAIN Plan[w][n][l] :
          /\ Plan[w][m][l][a] = q[i] /\ Plan[w][n][l][b] = q[i]
          /\ m < n \/ (m = n /\ a < b)
    BY <2>1
  <2>3. m = n
    <3>1. q[i] \in Elements(Plan[w][m][l]) \cap Elements(Plan[w][n][l])
      BY <2>2 DEF Elements
    <3> QED
      BY <3>1, OnceAssumption
  <2>4. a = b
    BY <2>2, <2>3, OnceAssumption
  <2>5. m \in Int /\ a \in Int
    BY PlanAssumption
  <2> QED
    BY <2>2, <2>3, <2>4, <2>5
<1>6. DOMAIN q \subseteq Int
  BY <1>1, <1>3
<1> QED
  BY <1>3, <1>4, <1>5, <1>6

LEMMA FirstIsFirst ==
  ASSUME NEW W \in SUBSET Wave, W # {}
  PROVE  First(W) \in W /\ \A v \in W : First(W) <= v
<1>1. W \in SUBSET Nat
  BY PlanAssumption
<1>2. \E w \in W : \A v \in W : w <= v
  BY <1>1, Least
<1> QED
  BY <1>2 DEF First

LEMMA StopTypes ==
  ASSUME NEW p \in Phase, Stop(p)
  PROVE  /\ phase' \in Phase /\ stage' \in Stage /\ resumed' \in BOOLEAN
         /\ tick' \in Nat \ {0} /\ queue' \in [Lane -> Seq(Entries)]
         /\ at' \in [Lane -> At] /\ bad' \in BOOLEAN /\ aborting' \in BOOLEAN
         /\ toMerge' \subseteq Lane
<1>1. NoQueue \in [Lane -> Seq(Entries)] /\ AllNext \in [Lane -> At]
  BY DEF NoQueue, AllNext, At
<1>2. resumed' \in BOOLEAN /\ bad' \in BOOLEAN /\ aborting' \in BOOLEAN
  BY Zenon DEF Stop
<1> QED
  BY <1>1, <1>2 DEF Stop, Stage

LEMMA QueueTypes ==
  ASSUME TypeOK, PlaceFits, StartTick \/ StartResumedWave
  PROVE  queue' \in [Lane -> Seq(Entries)]
<1>1. CASE StartTick
  <2>1. wave \in Wave /\ tick \in DOMAIN Plan[wave]
    BY <1>1 DEF StartTick, PlaceFits, TypeOK
  <2>2. ASSUME NEW l \in Lane
        PROVE  [i \in DOMAIN Plan[wave][tick][l] |-> Entry(Plan[wave][tick][l][i])]
               \in Seq(Entries)
    <3>1. Plan[wave][tick][l] \in Seq(Task)
      BY <2>1, PlanAssumption
    <3>2. \A t \in Task : Entry(t) \in Entries
      BY DEF Entry, Entries, How
    <3>3. /\ DOMAIN Plan[wave][tick][l] = 1..Len(Plan[wave][tick][l])
          /\ Len(Plan[wave][tick][l]) \in Nat
          /\ \A i \in DOMAIN Plan[wave][tick][l] : Plan[wave][tick][l][i] \in Task
      BY <3>1
    <3> QED
      BY <3>2, <3>3
  <2> QED
    BY <1>1, <2>2 DEF StartTick
<1>2. CASE StartResumedWave
  <2>1. PICK order \in [Lane -> UNION {ResumeOrders(wave, l) : l \in Lane}] :
          /\ \A l \in Lane : order[l] \in ResumeOrders(wave, l)
          /\ queue' = [l \in Lane |-> ResumeQueue(order[l])]
    BY <1>2 DEF StartResumedWave
  <2>2. ASSUME NEW l \in Lane
        PROVE  ResumeQueue(order[l]) \in Seq(Entries)
    <3>1. order[l] \in Seq(Task)
      BY <2>1, OrderFits DEF TypeOK
    <3>2. \A t \in Task : ResumeEntry(t) \in Entries
      BY DEF ResumeEntry, Entries, How
    <3>3. /\ DOMAIN order[l] = 1..Len(order[l]) /\ Len(order[l]) \in Nat
          /\ \A i \in DOMAIN order[l] : order[l][i] \in Task
      BY <3>1
    <3> QED
      BY <3>2, <3>3 DEF ResumeQueue
  <2> QED
    BY <2>1, <2>2
<1> QED
  BY <1>1, <1>2

LEMMA TypeEngine ==
  ASSUME TypeOK, PlaceFits, EngineStep
  PROVE  TypeOK'
<1> USE DEF TypeOK, Outside, PlaceVars, LaneVars, OperatorVars, GitVars, Entries
<1>0. wave < LastWave => wave + 1 \in Wave
  BY PlanAssumption DEF LastWave
<1>1. CASE AdoptPause
  BY <1>1, StopTypes DEF AdoptPause, Phase
<1>2. CASE StartTick
  BY <1>2, QueueTypes DEF StartTick, Stage
<1>3. CASE StopAfterTick
  <2>1. Stop("aborted") \/ Stop("paused")
    BY <1>3, Zenon DEF StopAfterTick
  <2> QED
    BY <1>3, <2>1, StopTypes DEF StopAfterTick, Phase
<1>4. CASE NextTick
  <2>1. tick' \in Nat \ {0} /\ stage' \in Stage
    BY <1>4 DEF NextTick, Stage
  <2>2. UNCHANGED <<Outside, phase, resumed, wave, LaneVars, toMerge>>
    BY <1>4, Zenon DEF NextTick
  <2> QED
    BY <2>1, <2>2
<1>5. CASE PassMergedWave
  BY <1>5, <1>0 DEF PassMergedWave, Advance, Stage
<1>6. CASE StartResumedWave
  BY <1>6, QueueTypes DEF StartResumedWave, Stage
<1>7. CASE StopAfterResumedWave
  BY <1>7, StopTypes DEF StopAfterResumedWave, Phase
<1>8. CASE AlreadyMerged
  BY <1>8, <1>0 DEF AlreadyMerged, Advance, Stage
<1>9. CASE MergeBlocked
  BY <1>9, StopTypes DEF MergeBlocked, Phase
<1>10. CASE NeedsReplan
  BY <1>10, StopTypes DEF NeedsReplan
<1>11. CASE StartMerge
  BY <1>11 DEF StartMerge, Stage
<1>12. ASSUME NEW l \in Lane, MergeLane(l)
       PROVE  TypeOK'
  <2>1. orch' \subseteq Task /\ merges' \subseteq Wave /\ toMerge' \subseteq Lane
    BY <1>12 DEF MergeLane
  <2>2. left' \in [Wave -> SUBSET Lane]
    BY <1>12 DEF MergeLane
  <2>3. UNCHANGED <<phase, task, row, OperatorVars, completed, hostDone, done, branch,
                    worktrees, stage, PlaceVars, LaneVars>>
    BY <1>12, Zenon DEF MergeLane
  <2> QED
    BY <2>1, <2>2, <2>3
<1>13. ASSUME NEW l \in Lane, MergeLaneFails(l)
       PROVE  TypeOK'
  <2>1. row' \in [Wave -> Row]
    BY <1>13 DEF MergeLaneFails, Row
  <2>2. left' \in [Wave -> SUBSET Lane]
    BY <1>13 DEF MergeLaneFails, BreakOff
  <2> QED
    BY <1>13, <2>1, <2>2, StopTypes DEF MergeLaneFails, Phase
<1>14. CASE MergeDone
  <2>1. row' \in [Wave -> Row]
    BY <1>14 DEF MergeDone, Hydrated, Row
  <2>2. wave' \in Wave /\ stage' \in Stage
    <3>1. (IF resumed THEN "wave" ELSE "tick") \in Stage /\ "finalize" \in Stage
      BY DEF Stage
    <3> QED
      BY <1>14, <1>0, <3>1 DEF MergeDone, Advance
  <2>3. tick' \in Nat \ {0}
    BY <1>14 DEF MergeDone
  <2>4. UNCHANGED <<phase, task, OperatorVars, JournalVars, hostDone, GitVars,
                    resumed, LaneVars, toMerge>>
    BY <1>14, Zenon DEF MergeDone
  <2> QED
    BY <2>1, <2>2, <2>3, <2>4 DEF JournalVars
<1>15. CASE Finalize
  BY <1>15, StopTypes DEF Finalize, Phase
<1> QED
  BY <1>1, <1>2, <1>3, <1>4, <1>5, <1>6, <1>7, <1>8, <1>9, <1>10, <1>11, <1>12, <1>13,
     <1>14, <1>15 DEF EngineStep

(* What a command of the operator loads: the state as it is, or reconciled.  *)
LEMMA LoadedFits ==
  ASSUME TypeOK, NEW s \in Loaded
  PROVE  /\ s.task \in [Task -> Status] /\ s.phase \in Phase /\ s.healed \subseteq Task
         /\ \A u \in Task :
              \/ s.task[u] = task[u] /\ u \notin s.healed
              \/ task[u] = "running" /\ s.task[u] = "failed" /\ u \notin s.healed
              \/ task[u] = "running" /\ s.task[u] = "succeeded" /\ Heals(u)
                 /\ u \in s.healed
<1>1. CASE s = [task |-> task, phase |-> phase, healed |-> {}]
  BY <1>1 DEF TypeOK
<1>2. CASE s = [task |-> Reconciled, phase |-> ReconciledPhase, healed |-> Healed]
  <2>1. s.task = Reconciled /\ s.phase = ReconciledPhase /\ s.healed = Healed
    BY <1>2
  <2>2. Reconciled \in [Task -> Status] /\ ReconciledPhase \in Phase /\ Healed \subseteq Task
    BY DEF Reconciled, ReconciledPhase, Healed, TypeOK, Status, Failed, Phase
  <2>3. \A u \in Task : Reconciled[u] = IF task[u] # "running" THEN task[u]
                                       ELSE IF Heals(u) THEN "succeeded" ELSE "failed"
    BY DEF Reconciled
  <2>4. \A u \in Task : u \in Healed <=> task[u] = "running" /\ Heals(u)
    BY DEF Healed
  <2> QED
    BY <2>1, <2>2, <2>3, <2>4
<1> QED
  BY <1>1, <1>2 DEF Loaded

(* The commands that change tasks, and how: they heal or fail what was left  *)
(* running, make a failed task pending or skip one that is not over.         *)
Commanded(t) == Reconcile \/ retryTask(t) \/ skipTask(t)
Treated(u, H) ==
  \/ u \notin H /\ task'[u] = task[u]
  \/ u \in H /\ task[u] = "running" /\ Heals(u) /\ task'[u] = "succeeded"
  \/ u \notin H /\ task[u] \in Failed \cup {"running"} /\ task'[u] \in {"failed", "pending"}
  \/ u \notin H /\ task[u] \notin {"succeeded", "skipped"} /\ task'[u] = "skipped"

LEMMA CommandTreats ==
  ASSUME TypeOK, NEW t \in Task, Commanded(t)
  PROVE  /\ task' \in [Task -> Status] /\ phase' \in Phase /\ stage = "none"
         /\ \E H \in SUBSET Task :
              completed' = completed \cup H /\ \A u \in Task : Treated(u, H)
<1>1. task \in [Task -> Status] /\ phase \in Phase
  BY DEF TypeOK
<1>2. CASE Reconcile
  <2> DEFINE s == [task |-> Reconciled, phase |-> ReconciledPhase, healed |-> Healed]
  <2>1. s \in Loaded
    BY DEF Loaded
  <2>2. task' = s.task /\ phase' = s.phase /\ completed' = completed \cup s.healed
    BY <1>2 DEF Reconcile
  <2>3. stage = "none"
    BY <1>2 DEF Reconcile
  <2> HIDE DEF s
  <2> QED
    BY <2>1, <2>2, <2>3, LoadedFits DEF Treated
<1>3. CASE retryTask(t)
  <2>1. PICK s \in Loaded :
          /\ s.phase \in {"paused", "failed"} /\ s.task[t] \in Failed
          /\ task' = [s.task EXCEPT ![t] = "pending"]
          /\ phase' = PhaseAfterRetry(task')
          /\ completed' = completed \cup s.healed
    BY <1>3 DEF retryTask
  <2>2. task' \in [Task -> Status] /\ phase' \in Phase /\ stage = "none"
    BY <1>3, <2>1, LoadedFits DEF retryTask, PhaseAfterRetry, Phase, Status
  <2>3. \A u \in Task : Treated(u, s.healed)
    BY <2>1, LoadedFits DEF Treated, Failed
  <2> QED
    BY <2>1, <2>2, <2>3, LoadedFits
<1>4. CASE skipTask(t)
  <2>1. PICK s \in Loaded :
          /\ s.phase # "running" /\ s.task[t] \notin {"succeeded", "skipped"}
          /\ task' = [s.task EXCEPT ![t] = "skipped"]
          /\ phase' = PhaseAfterSkip(task', s.phase)
          /\ completed' = completed \cup s.healed
    BY <1>4 DEF skipTask
  <2>2. task' \in [Task -> Status] /\ phase' \in Phase /\ stage = "none"
    BY <1>4, <2>1, LoadedFits DEF skipTask, PhaseAfterSkip, Phase, Status
  <2>3. \A u \in Task : Treated(u, s.healed)
    BY <2>1, LoadedFits DEF Treated, Failed
  <2> QED
    BY <2>1, <2>2, <2>3, LoadedFits
<1> QED
  BY <1>2, <1>3, <1>4 DEF Commanded

LEMMA TypeOther ==
  ASSUME TypeOK, Kill \/ Exception \/ Operator
  PROVE  TypeOK'
<1> USE DEF TypeOK, PlaceVars, LaneVars, OperatorVars, GitVars, JournalVars, Engineless,
        Entries
<1>1. CASE Kill
  <2>1. PICK p \in {phase} \cup (IF pausing THEN {"paused"} ELSE {}) : Stop(p)
    BY <1>1, Zenon DEF Kill
  <2>2. p \in Phase
    BY DEF Phase
  <2>3. left' \in [Wave -> SUBSET Lane]
    BY <1>1 DEF Kill, BreakOff
  <2> QED
    BY <1>1, <2>1, <2>2, <2>3, StopTypes DEF Kill
<1>2. CASE Exception
  <2>1. task' \in [Task -> Status]
    BY <1>2 DEF Exception, Status, Failed
  <2>2. worktrees' \in BOOLEAN
    BY <1>2, Zenon DEF Exception
  <2>3. left' \in [Wave -> SUBSET Lane]
    BY <1>2 DEF Exception, BreakOff
  <2> QED
    BY <1>2, <2>1, <2>2, <2>3, StopTypes DEF Exception, Phase
<1>3. ASSUME Pause \/ Abort
      PROVE  TypeOK'
  <2>1. pausing' \in BOOLEAN /\ signal' \in BOOLEAN
    BY <1>3, Zenon DEF Pause, Abort
  <2>2. UNCHANGED <<phase, task, row, forced, JournalVars, Engineless>>
    BY <1>3, Zenon DEF Pause, Abort
  <2> QED
    BY <2>1, <2>2
<1>4. ASSUME NEW t \in Task, Commanded(t)
      PROVE  TypeOK'
  <2>1. UNCHANGED <<row, OperatorVars, merges, left, Engineless>>
    BY <1>4, Zenon DEF Commanded, Reconcile, retryTask, skipTask
  <2>2. completed' \subseteq Task
    BY <1>4, CommandTreats
  <2> QED
    BY <1>4, <2>1, <2>2, CommandTreats
<1>5. ASSUME NEW w \in Wave, forceMergeWave(w)
      PROVE  TypeOK'
  BY <1>5 DEF forceMergeWave
<1>6. CASE Resume
  <2>1. findResumableWave \in Wave
    BY FirstIsFirst DEF findResumableWave
  <2>2. wave' \in Wave /\ stage' \in Stage /\ phase' \in Phase
    BY <1>6, <2>1 DEF Resume, Stage, Phase
  <2>3. pausing' \in BOOLEAN /\ resumed' \in BOOLEAN
    BY <1>6, Zenon DEF Resume
  <2>4. UNCHANGED <<task, row, forced, signal, JournalVars, hostDone, GitVars, tick,
                    LaneVars, toMerge>>
    BY <1>6, Zenon DEF Resume
  <2> QED
    BY <2>2, <2>3, <2>4
<1>7. CASE Reconcile
  <2>1. PICK t \in Task : task[t] = "running"
    BY <1>7 DEF Reconcile
  <2> QED
    BY <1>4, <1>7, <2>1 DEF Commanded
<1> QED
  BY <1>1, <1>2, <1>3, <1>4, <1>5, <1>6, <1>7 DEF Operator, Commanded

---------------------------------------------------------------------------
(* The engine stops: what the invariant says of the files is all that is     *)
(* left of it.                                                               *)

(* What a stop leaves of the tasks, the rows and the merge of a wave.        *)
Stopped ==
  /\ UNCHANGED <<forced, completed, merges, hostDone, done, branch, orch>>
  /\ \A t \in Task : task'[t] = task[t] \/ (task[t] = "running" /\ task'[t] = "failed")
  /\ \A w \in Wave : row'[w] = row[w] \/ row'[w] = "failed"
  /\ \A w \in Wave, l \in Lane : l \in left[w] \/ Taking(w, l) => l \in left'[w]

LEMMA StopsLeave ==
  ASSUME TypeOK,
         \/ AdoptPause \/ StopAfterTick \/ StopAfterResumedWave \/ MergeBlocked
         \/ NeedsReplan \/ Finalize \/ Kill \/ Exception
         \/ \E l \in Lane : MergeLaneFails(l)
  PROVE  Stopped /\ \E p \in Phase : Stop(p)
<1>1. phase \in Phase
  BY DEF TypeOK
<1>2. {"paused", "failed", "merge_blocked", "aborted", "completed"} \subseteq Phase
  BY DEF Phase
<1>3. CASE AdoptPause \/ StopAfterTick \/ StopAfterResumedWave \/ MergeBlocked
           \/ NeedsReplan \/ Finalize
  <2>1. UNCHANGED Outside
    BY <1>3, Zenon DEF AdoptPause, StopAfterTick, StopAfterResumedWave, MergeBlocked,
       NeedsReplan, Finalize
  <2>2. Stopped
    <3>1. stage # "merge"
      BY <1>3 DEF AdoptPause, StopAfterTick, StopAfterResumedWave, MergeBlocked,
         NeedsReplan, Finalize, WaveIsOver, WaveIsRun, ResumedWaveIsRun, LanesDone
    <3> QED
      BY <2>1, <3>1 DEF Stopped, Outside, Taking
  <2>3. \/ Stop("paused") \/ Stop("aborted") \/ Stop("failed") \/ Stop("completed")
        \/ Stop(phase)
        \/ Stop(IF aborting THEN "aborted" ELSE "failed")
    BY <1>3, Zenon DEF AdoptPause, StopAfterTick, StopAfterResumedWave, MergeBlocked,
       NeedsReplan, Finalize
  <2>4. (IF aborting THEN "aborted" ELSE "failed") \in Phase
    BY <1>2
  <2> QED
    BY <1>1, <1>2, <2>2, <2>3, <2>4, Zenon
<1>4. CASE Kill
  <2>1. PICK p \in {phase} \cup (IF pausing THEN {"paused"} ELSE {}) : Stop(p)
    BY <1>4, Zenon DEF Kill
  <2>2. p \in Phase
    BY <1>1, <1>2
  <2>3. Stopped
    BY <1>4 DEF Kill, Stopped, Taking, BreakOff, OperatorVars, GitVars, TypeOK
  <2> QED
    BY <2>1, <2>2, <2>3
<1>5. CASE Exception
  <2>1. Stopped
    BY <1>5 DEF Exception, Stopped, Taking, BreakOff, OperatorVars, TypeOK
  <2> QED
    BY <1>2, <1>5, <2>1, Zenon DEF Exception
<1>6. ASSUME NEW l \in Lane, MergeLaneFails(l)
      PROVE  Stopped /\ Stop("merge_blocked")
  BY <1>6 DEF MergeLaneFails, Stopped, Taking, BreakOff, OperatorVars, GitVars, TypeOK
<1> QED
  BY <1>2, <1>3, <1>4, <1>5, <1>6, Zenon

(* A wave stays recorded as it was when no task of it is taken up again and  *)
(* every lane still to be merged is merged, or left.                         *)
LEMMA RowsKept ==
  ASSUME LaneInv, forced \subseteq forced', orch \subseteq orch', UNCHANGED hostDone,
         \A t \in Task : task[t] = "succeeded" => task'[t] = "succeeded" \/ t \in hostDone,
         \A t \in Task : Quiet(t) => Quiet(t)',
         \A w \in Wave \ forced' : Recorded(w)' /\ ~Recorded(w)
           => Over(w)' /\ \A l \in Lane : LaneIsIn(w, l)',
         \A w \in Wave, l \in Lane : l \in left[w] \/ Taking(w, l)
           => l \in left'[w] \/ Taking(w, l)' \/ TasksOf(w, l) \subseteq orch'
  PROVE  RowsFit'
<1> SUFFICES ASSUME NEW w \in Wave \ forced', Recorded(w)'
             PROVE  Over(w)' /\ \A l \in Lane : LaneIsIn(w, l)'
  BY Zenon DEF RowsFit
<1>1. CASE ~Recorded(w)
  BY <1>1
<1>2. CASE Recorded(w)
  <2>1. Over(w) /\ \A l \in Lane : LaneIsIn(w, l)
    BY <1>2 DEF LaneInv, RowsFit
  <2>2. \A t \in WaveTasks(w) : t \in Task
    BY HasLane
  <2>3. Over(w)'
    <3> SUFFICES ASSUME NEW t \in WaveTasks(w)
                 PROVE  task'[t] = "succeeded" \/ Quiet(t)' \/ t \in hostDone
      BY DEF Over
    <3>1. task[t] = "succeeded" \/ Quiet(t) \/ t \in hostDone
      BY <2>1 DEF Over
    <3>2. task[t] = "succeeded" => task'[t] = "succeeded" \/ t \in hostDone
      BY <2>2
    <3>3. Quiet(t) => Quiet(t)'
      BY <2>2
    <3> QED
      BY <3>1, <3>2, <3>3
  <2>4. ASSUME NEW l \in Lane
        PROVE  LaneIsIn(w, l)'
    <3>1. LaneIsIn(w, l)
      BY <2>1
    <3>2. \A t \in TasksOf(w, l) : t \in Task
      BY InLane
    <3>3. CASE TasksOf(w, l) \subseteq orch
      BY <3>3 DEF LaneIsIn
    <3>4. CASE l \in left[w] \/ Taking(w, l)
      BY <3>4 DEF LaneIsIn
    <3>5. CASE \A t \in TasksOf(w, l) : Quiet(t)
      <4>1. \A t \in TasksOf(w, l) : Quiet(t)'
        BY <3>2, <3>5
      <4> QED
        BY <4>1 DEF LaneIsIn
    <3> QED
      BY <3>1, <3>3, <3>4, <3>5 DEF LaneIsIn
  <2> QED
    BY <2>3, <2>4
<1> QED
  BY <1>1, <1>2

LEMMA RowsStay ==
  ASSUME LaneInv, forced \subseteq forced', stage # "merge", stage' # "merge",
         UNCHANGED <<row, task, merges, left, hostDone, done, orch>>
  PROVE  RowsFit'
<1>1. \A t \in Task : (task[t] = "succeeded" => task'[t] = "succeeded") /\ (Quiet(t) => Quiet(t)')
  BY DEF Quiet
<1>2. \A w \in Wave : Recorded(w)' => Recorded(w)
  BY DEF Recorded
<1>3. \A w \in Wave, l \in Lane : l \in left[w] \/ Taking(w, l) => l \in left'[w]
  BY DEF Taking
<1> QED
  BY <1>1, <1>2, <1>3, RowsKept

LEMMA StopKeeps ==
  ASSUME LaneInv, TypeOK', Stopped, NEW p \in Phase, Stop(p)
  PROVE  LaneInv'
<1>1. stage' = "none" /\ queue' = NoQueue /\ at' = AllNext
  BY DEF Stop
<1>2. ~resumed' /\ ~aborting'
  BY Zenon DEF Stop
<1>3. \A l \in Lane : queue'[l] = <<>> /\ at'[l] = "next"
  BY <1>1 DEF NoQueue, AllNext
<1>4. PlaceFits' /\ FreshFits' /\ ResumedFits' /\ MergeFits'
  BY <1>1, <1>2 DEF PlaceFits, FreshFits, Fresh, ResumedFits, MergeFits
<1>5. QueueFits' /\ CommitFits'
  BY <1>3 DEF QueueFits, CommitFits
<1>6. JournalFits'
  <2>1. \A t \in completed' : t \in Task /\ task'[t] = "succeeded"
    BY DEF LaneInv, TypeOK, JournalFits, Stopped
  <2>2. \A t \in Task : task'[t] = "succeeded" => t \in completed' \cup hostDone'
    BY DEF LaneInv, JournalFits, Stopped
  <2> QED
    BY <1>3, <2>1, <2>2 DEF JournalFits
<1>7. SucceededIsCommitted'
  BY DEF LaneInv, SucceededIsCommitted, Stopped
<1>8. RowsFit'
  <2>1. \A w \in Wave : Recorded(w)' => Recorded(w)
    BY <1>1 DEF Recorded, Stopped
  <2>2. \A t \in Task : /\ task[t] = "succeeded" => task'[t] = "succeeded"
                        /\ Quiet(t) => Quiet(t)'
    BY DEF Stopped, Quiet
  <2>3. /\ forced \subseteq forced' /\ orch \subseteq orch' /\ UNCHANGED hostDone
        /\ \A w \in Wave, l \in Lane : l \in left[w] \/ Taking(w, l) => l \in left'[w]
    BY DEF Stopped
  <2> QED
    BY <2>1, <2>2, <2>3, RowsKept
<1> QED
  BY <1>4, <1>5, <1>6, <1>7, <1>8 DEF LaneInv

---------------------------------------------------------------------------
(* The operator, with no engine alive.                                       *)

LEMMA AtRest ==
  ASSUME LaneInv, stage' # "lanes", queue' = NoQueue, UNCHANGED at, queue = NoQueue
  PROVE  QueueFits' /\ CommitFits' /\ ResumedFits'
<1>1. \A l \in Lane : queue'[l] = <<>> /\ queue[l] = <<>>
  BY DEF NoQueue
<1> QED
  BY <1>1 DEF QueueFits, CommitFits, ResumedFits, LaneInv

LEMMA CommandKeeps ==
  ASSUME LaneInv, TypeOK', NEW t \in Task, Commanded(t)
  PROVE  LaneInv'
<1>0. TypeOK
  BY DEF LaneInv
<1>1. UNCHANGED <<row, forced, merges, left, hostDone, done, branch, orch, stage, queue, at>>
  BY DEF Commanded, Reconcile, retryTask, skipTask, Engineless, OperatorVars, GitVars, LaneVars
<1>2. UNCHANGED <<resumed, wave, tick, bad, aborting>>
  BY Zenon DEF Commanded, Reconcile, retryTask, skipTask, Engineless, PlaceVars, LaneVars
<1>3. stage = "none"
  BY <1>0, CommandTreats
<1>4. PICK H \in SUBSET Task : completed' = completed \cup H /\ \A u \in Task : Treated(u, H)
  BY <1>0, CommandTreats
<1>5. queue = NoQueue
  BY <1>3 DEF LaneInv, PlaceFits
<1>6. QueueFits' /\ CommitFits' /\ ResumedFits'
  BY <1>1, <1>3, <1>5, AtRest
<1>7. PlaceFits'
  BY <1>1, <1>2, Zenon DEF LaneInv, PlaceFits
<1>8. FreshFits' /\ MergeFits'
  BY <1>1, <1>3 DEF FreshFits, Fresh, MergeFits
<1>9. JournalFits'
  <2>1. \A u \in completed' : task'[u] = "succeeded"
    BY <1>0, <1>4 DEF LaneInv, TypeOK, JournalFits, Treated, Failed
  <2>2. \A u \in Task : task'[u] = "succeeded" => u \in completed' \cup hostDone'
    BY <1>1, <1>4 DEF LaneInv, JournalFits, Treated
  <2>3. \A l \in Lane : queue'[l] = <<>>
    BY <1>1, <1>5 DEF NoQueue
  <2> QED
    BY <2>1, <2>2, <2>3 DEF JournalFits
<1>10. SucceededIsCommitted'
  BY <1>1, <1>4 DEF LaneInv, SucceededIsCommitted, Treated, Heals
<1>11. RowsFit'
  <2>1. \A u \in Task : /\ task[u] = "succeeded" => task'[u] = "succeeded"
                        /\ Quiet(u) => Quiet(u)'
    BY <1>1, <1>4 DEF Treated, Quiet, Failed
  <2>2. \A w \in Wave : Recorded(w)' => Recorded(w)
    BY <1>1, <1>3 DEF Recorded
  <2>3. \A w \in Wave, l \in Lane : l \in left[w] \/ Taking(w, l) => l \in left'[w]
    BY <1>1, <1>3 DEF Taking
  <2>4. forced \subseteq forced' /\ orch \subseteq orch' /\ UNCHANGED hostDone
    BY <1>1
  <2> QED
    BY <2>1, <2>2, <2>3, <2>4, RowsKept
<1> QED
  BY <1>6, <1>7, <1>8, <1>9, <1>10, <1>11 DEF LaneInv

LEMMA ForceKeeps ==
  ASSUME LaneInv, TypeOK', NEW w \in Wave, forceMergeWave(w)
  PROVE  LaneInv'
<1>1. /\ stage = "none" /\ forced \subseteq forced'
      /\ UNCHANGED <<row, task, completed, merges, left, hostDone, done, branch, orch,
                     stage, queue, at>>
  BY DEF forceMergeWave, Engineless, GitVars, LaneVars, JournalVars
<1>2. UNCHANGED <<resumed, wave, tick, bad, aborting>>
  BY Zenon DEF forceMergeWave, Engineless, PlaceVars, LaneVars
<1>3. queue = NoQueue
  BY <1>1 DEF LaneInv, PlaceFits
<1>4. QueueFits' /\ CommitFits' /\ ResumedFits'
  BY <1>1, <1>3, AtRest
<1>5. PlaceFits'
  BY <1>1, <1>2, Zenon DEF LaneInv, PlaceFits
<1>6. FreshFits' /\ MergeFits'
  BY <1>1 DEF FreshFits, Fresh, MergeFits
<1>7. JournalFits' /\ SucceededIsCommitted'
  BY <1>1 DEF LaneInv, JournalFits, Quiet, SucceededIsCommitted
<1>8. RowsFit'
  BY <1>1, RowsStay
<1> QED
  BY <1>4, <1>5, <1>6, <1>7, <1>8 DEF LaneInv

LEMMA ResumeKeeps ==
  ASSUME LaneInv, TypeOK', Resume
  PROVE  LaneInv'
<1>1. /\ stage = "none" /\ stage' \in {"wave", "finalize"}
      /\ UNCHANGED <<row, task, forced, completed, merges, left, hostDone, done, branch,
                     orch, queue, at>>
  BY DEF Resume, GitVars, LaneVars, JournalVars
<1>2. resumed' = TRUE /\ UNCHANGED aborting
  BY Zenon DEF Resume, LaneVars
<1>3. queue = NoQueue /\ ~aborting
  BY <1>1 DEF LaneInv, PlaceFits
<1>4. QueueFits' /\ CommitFits' /\ ResumedFits'
  BY <1>1, <1>3, AtRest
<1>5. PlaceFits'
  BY <1>1, <1>2, <1>3 DEF PlaceFits
<1>6. FreshFits' /\ MergeFits'
  BY <1>1, <1>2 DEF FreshFits, Fresh, MergeFits
<1>7. JournalFits' /\ SucceededIsCommitted'
  BY <1>1 DEF LaneInv, JournalFits, Quiet, SucceededIsCommitted
<1>8. RowsFit'
  BY <1>1, RowsStay
<1> QED
  BY <1>4, <1>5, <1>6, <1>7, <1>8 DEF LaneInv

(* A request of the operator changes nothing of this, nor does a stutter.    *)
LEMMA RequestKeeps ==
  ASSUME LaneInv, TypeOK', Pause \/ Abort \/ UNCHANGED vars
  PROVE  LaneInv'
<1>1. UNCHANGED <<task, row, forced, completed, merges, left, hostDone, done, branch, orch,
                  stage, resumed, wave, tick, queue, at, bad, aborting, toMerge>>
  BY Zenon DEF Pause, Abort, vars, Engineless, PlaceVars, LaneVars, JournalVars, GitVars
<1>2. PlaceFits' /\ FreshFits' /\ ResumedFits'
  BY <1>1, Zenon DEF LaneInv, PlaceFits, FreshFits, Fresh, Ahead, ResumedFits, InQueue,
     Settled, Quiet
<1>3. QueueFits'
  BY <1>1, Zenon DEF LaneInv, QueueFits
<1>4. JournalFits' /\ CommitFits' /\ SucceededIsCommitted'
  BY <1>1, Zenon DEF LaneInv, JournalFits, Quiet, CommitFits, Current,
     SucceededIsCommitted
<1>5. MergeFits' /\ RowsFit'
  BY <1>1, Zenon DEF LaneInv, MergeFits, RowsFit, Recorded, Over, LaneIsIn, Taking, Quiet
<1> QED
  BY <1>2, <1>3, <1>4, <1>5 DEF LaneInv

---------------------------------------------------------------------------
(* The lanes.                                                                *)

(* A step of lane l touches its first task, t, and nothing else: the other   *)
(* tasks keep their status, their .DONE and their place in the branches.     *)
LaneFrame(l, t) ==
  /\ \A u \in Task \ {t} : task'[u] = task[u] /\ (u \in done' <=> u \in done)
  /\ \A m \in Lane \ {l} : queue'[m] = queue[m] /\ at'[m] = at[m] /\ branch'[m] = branch[m]
  /\ \A m \in Lane : \A u \in branch[m] : u # t => u \in branch'[m]
  /\ completed \subseteq completed' /\ UNCHANGED orch

(* ... and t stays where it is, or leaves the queue.                         *)
Moves(l, t) ==
  /\ queue'[l] = queue[l] /\ done \subseteq done' /\ completed' = completed
  /\ task'[t] = "running" \/ task'[t] = task[t]
Leaves(l, t) ==
  /\ queue'[l] = Tail(queue[l]) /\ at'[l] = "next"
  /\ \/ completed' = completed /\ task'[t] # "succeeded" /\ bad'
     \/ completed' = completed /\ task'[t] = "succeeded" /\ Current(l).how = "host"
     \/ completed' = completed \cup {t} /\ task'[t] = "succeeded" /\ at[l] = "committed"
          /\ branch'[l] = branch[l]
Gives(l, t) ==
  /\ queue'[l] = <<>> /\ at'[l] = "next" /\ aborting' /\ completed' = completed
  /\ task'[t] = "aborted"

LEMMA LaneMoves ==
  ASSUME LaneInv, NEW l \in Lane, LaneStep(l)
  PROVE  /\ stage = "lanes" /\ queue[l] # <<>>
         /\ LaneFrame(l, Current(l).task)
         /\ \/ Moves(l, Current(l).task) \/ Leaves(l, Current(l).task)
            \/ Gives(l, Current(l).task)
<1> DEFINE t == Current(l).task
<1>1. stage = "lanes" /\ queue[l] # <<>>
  BY DEF LaneStep, SkipDoneOnDisk, CannotBegin, Begin, MarkComplete, WorkerSucceeds,
     WorkerFails, WorkerAborted, ReviewPasses, ReviewFails, Commit, CommitFails,
     Succeed, Busy
<1>2. t \in Task /\ TypeOK
  BY <1>1, CurrentIsEntry DEF LaneInv
<1>3. /\ DOMAIN queue = Lane /\ DOMAIN at = Lane /\ DOMAIN task = Task /\ DOMAIN branch = Lane
  BY <1>2 DEF TypeOK
<1> HIDE DEF t
<1>4. \A u \in Task \ {t} : task'[u] = task[u] /\ (u \in done' <=> u \in done)
  BY <1>2, <1>3 DEF LaneStep, SkipDoneOnDisk, CannotBegin, Begin, MarkComplete,
     WorkerSucceeds, WorkerFails, WorkerAborted, ReviewPasses, ReviewFails, Commit,
     CommitFails, Succeed, FailTask, SetTask, t
<1>5. \A m \in Lane \ {l} : queue'[m] = queue[m] /\ at'[m] = at[m]
  BY <1>3 DEF LaneStep, SkipDoneOnDisk, CannotBegin, Begin, MarkComplete,
     WorkerSucceeds, WorkerFails, WorkerAborted, ReviewPasses, ReviewFails, Commit,
     CommitFails, Succeed, FailTask, Pop, MoveTo
<1>6. /\ \A m \in Lane \ {l} : branch'[m] = branch[m]
      /\ \A m \in Lane : \A u \in branch[m] : u # t => u \in branch'[m]
  BY <1>3 DEF LaneStep, SkipDoneOnDisk, CannotBegin, Begin, MarkComplete,
     WorkerSucceeds, WorkerFails, WorkerAborted, ReviewPasses, ReviewFails, Commit,
     CommitFails, Succeed, Committed, t
<1>7. completed \subseteq completed' /\ UNCHANGED orch
  BY DEF LaneStep, SkipDoneOnDisk, CannotBegin, Begin, MarkComplete, WorkerSucceeds,
     WorkerFails, WorkerAborted, ReviewPasses, ReviewFails, Commit, CommitFails, Succeed
<1>8. LaneFrame(l, t)
  BY <1>4, <1>5, <1>6, <1>7 DEF LaneFrame
<1>9. CASE Begin(l) \/ MarkComplete(l) \/ WorkerSucceeds(l) \/ ReviewPasses(l) \/ Commit(l)
  <2>1. Moves(l, t)
    BY <1>2, <1>3, <1>9 DEF Begin, MarkComplete, WorkerSucceeds, ReviewPasses, Commit,
       SetTask, MoveTo, Moves, t
  <2> QED
    BY <1>1, <1>8, <2>1 DEF t
<1>10. CASE CannotBegin(l) \/ WorkerFails(l) \/ ReviewFails(l) \/ CommitFails(l)
  <2>1. PICK s \in Failed : FailTask(l, s)
    BY <1>10 DEF CannotBegin, WorkerFails, ReviewFails, CommitFails, Failed
  <2>2. completed' = completed
    BY <1>10 DEF CannotBegin, WorkerFails, ReviewFails, CommitFails
  <2>3. bad'
    BY <2>1, Zenon DEF FailTask
  <2>4. task'[t] # "succeeded" /\ queue'[l] = Tail(queue[l]) /\ at'[l] = "next"
    BY <1>2, <1>3, <2>1 DEF FailTask, Pop, SetTask, Failed, t
  <2> QED
    BY <1>1, <1>8, <2>2, <2>3, <2>4 DEF Leaves, t
<1>11. CASE SkipDoneOnDisk(l)
  <2>1. Leaves(l, t)
    BY <1>2, <1>3, <1>11 DEF SkipDoneOnDisk, Leaves, Pop, SetTask, t
  <2> QED
    BY <1>1, <1>8, <2>1 DEF t
<1>12. CASE Succeed(l)
  <2>1. Leaves(l, t)
    BY <1>2, <1>3, <1>12 DEF Succeed, Busy, Leaves, Pop, SetTask, t
  <2> QED
    BY <1>1, <1>8, <2>1 DEF t
<1>13. CASE WorkerAborted(l)
  <2>1. aborting'
    BY <1>13, Zenon DEF WorkerAborted
  <2>2. Gives(l, t)
    BY <1>2, <1>3, <1>13, <2>1 DEF WorkerAborted, Gives, SetTask, t
  <2> QED
    BY <1>1, <1>8, <2>2 DEF t
<1> QED
  BY <1>9, <1>10, <1>11, <1>12, <1>13 DEF LaneStep

(* The tasks that are queued are each queued once, in their lane.            *)
LEMMA QueuedOnce ==
  ASSUME LaneInv, NEW l \in Lane, queue[l] # <<>>
  PROVE  /\ Current(l).task \in TasksOf(wave, l) /\ Current(l).task \notin completed
         /\ LaneOf[Current(l).task] = l
         /\ \A i \in DOMAIN queue[l] : i # 1 => queue[l][i].task # Current(l).task
         /\ \A m \in Lane \ {l} : \A i \in DOMAIN queue[m] :
              queue[m][i].task # Current(l).task
<1>1. TypeOK /\ wave \in Wave
  BY DEF LaneInv, TypeOK
<1>2. Current(l) = queue[l][1] /\ 1 \in DOMAIN queue[l]
  BY <1>1, CurrentIsEntry
<1>3. /\ Current(l).task \in TasksOf(wave, l) /\ Current(l).task \notin completed
      /\ \A i \in DOMAIN queue[l] : i # 1 => queue[l][i].task # Current(l).task
  BY <1>2 DEF LaneInv, QueueFits, JournalFits
<1>4. LaneOf[Current(l).task] = l
  BY <1>1, <1>3, InLane
<1>5. ASSUME NEW m \in Lane \ {l}, NEW i \in DOMAIN queue[m]
      PROVE  queue[m][i].task # Current(l).task
  <2>1. queue[m][i].task \in TasksOf(wave, m)
    BY DEF LaneInv, QueueFits
  <2>2. LaneOf[queue[m][i].task] = m
    BY <1>1, <2>1, InLane
  <2> QED
    BY <1>4, <2>2
<1> QED
  BY <1>3, <1>4, <1>5

(* What a lane has queued after a step it had queued before: the same entry, *)
(* of another task unless the step left it at the head.                      *)
LEMMA StillQueued ==
  ASSUME LaneInv, NEW l \in Lane, LaneStep(l), NEW m \in Lane, NEW i \in DOMAIN queue'[m]
  PROVE  /\ \E j \in DOMAIN queue[m] : queue'[m][i] = queue[m][j]
         /\ queue'[m][i].task # Current(l).task \/ Moves(l, Current(l).task)
         /\ \A k \in DOMAIN queue'[m] : queue'[m][i].task = queue'[m][k].task => i = k
<1> DEFINE t == Current(l).task
<1>1. /\ queue[l] # <<>> /\ LaneFrame(l, t)
      /\ Moves(l, t) \/ Leaves(l, t) \/ Gives(l, t)
  BY LaneMoves
<1>2. /\ \A k \in DOMAIN queue[l] : k # 1 => queue[l][k].task # t
      /\ \A n \in Lane \ {l} : \A k \in DOMAIN queue[n] : queue[n][k].task # t
  BY <1>1, QueuedOnce
<1>3. \A n \in Lane : \A j, k \in DOMAIN queue[n] : queue[n][j].task = queue[n][k].task => j = k
  BY DEF LaneInv, QueueFits
<1>4. /\ DOMAIN Tail(queue[l]) = 1..(Len(queue[l]) - 1)
      /\ \A k \in DOMAIN Tail(queue[l]) :
           k + 1 \in DOMAIN queue[l] /\ Tail(queue[l])[k] = queue[l][k + 1]
  BY <1>1, CurrentIsEntry DEF LaneInv
<1> HIDE DEF t
<1>5. CASE m # l
  BY <1>1, <1>2, <1>3, <1>5 DEF LaneFrame, t
<1>6. CASE m = l /\ Moves(l, t)
  BY <1>3, <1>6 DEF Moves, t
<1>7. CASE m = l /\ Leaves(l, t)
  <2>1. queue'[m] = Tail(queue[l])
    BY <1>7 DEF Leaves
  <2>2. /\ i + 1 \in DOMAIN queue[l] /\ queue'[m][i] = queue[l][i + 1]
        /\ i \in Int /\ i + 1 # 1
    BY <1>4, <2>1
  <2>3. ASSUME NEW k \in DOMAIN queue'[m], queue'[m][i].task = queue'[m][k].task
        PROVE  i = k
    <3>1. k + 1 \in DOMAIN queue[l] /\ queue'[m][k] = queue[l][k + 1] /\ k \in Int
      BY <1>4, <2>1
    <3>2. i + 1 = k + 1
      BY <1>3, <2>2, <2>3, <3>1
    <3> QED
      BY <2>2, <3>1, <3>2
  <2> QED
    BY <1>2, <1>7, <2>2, <2>3 DEF t
<1>8. CASE m = l /\ Gives(l, t)
  BY <1>8 DEF Gives
<1> QED
  BY <1>1, <1>5, <1>6, <1>7, <1>8

LEMMA LaneQueueKept ==
  ASSUME LaneInv, TypeOK', NEW l \in Lane, LaneStep(l)
  PROVE  PlaceFits' /\ QueueFits' /\ JournalFits'
<1> DEFINE t == Current(l).task
<1>1. /\ stage = "lanes" /\ queue[l] # <<>> /\ LaneFrame(l, t)
      /\ Moves(l, t) \/ Leaves(l, t) \/ Gives(l, t)
  BY LaneMoves
<1>2. t \in Task /\ Current(l) = queue[l][1] /\ 1 \in DOMAIN queue[l]
  BY <1>1, CurrentIsEntry DEF LaneInv
<1>3. UNCHANGED Rest
  BY Zenon DEF LaneStep, SkipDoneOnDisk, CannotBegin, Begin, MarkComplete, WorkerSucceeds,
     WorkerFails, WorkerAborted, ReviewPasses, ReviewFails, Commit, CommitFails, Succeed
<1>4. UNCHANGED <<stage, wave, tick, resumed, hostDone>>
  BY <1>3, Zenon DEF Rest, PlaceVars
<1>5. t \notin completed
  BY <1>1, QueuedOnce
<1> HIDE DEF t
<1>6. PlaceFits'
  <2>1. stage' = "lanes"
    BY <1>1, <1>4
  <2>2. ~resumed' => tick' \in DOMAIN Plan[wave']
    BY <1>1, <1>4 DEF LaneInv, PlaceFits
  <2> QED
    BY <2>1, <2>2 DEF PlaceFits
<1>7. QueueFits'
  <2> SUFFICES ASSUME NEW m \in Lane, NEW i \in DOMAIN queue'[m]
               PROVE  /\ queue'[m][i].task \in TasksOf(wave, m)
                      /\ ~resumed => queue'[m][i].task \in Elements(Plan[wave][tick][m])
                      /\ \A k \in DOMAIN queue'[m] : queue'[m][i].task = queue'[m][k].task => i = k
                      /\ queue'[m][i].how = "host" => ~resumed /\ queue'[m][i].task \in hostDone
                      /\ queue'[m][i].how = "mark" => queue'[m][i].task \in done' \cup hostDone
    BY <1>4 DEF QueueFits
  <2>1. PICK j \in DOMAIN queue[m] : queue'[m][i] = queue[m][j]
    BY StillQueued
  <2>2. /\ queue[m][j].task \in TasksOf(wave, m)
        /\ ~resumed => queue[m][j].task \in Elements(Plan[wave][tick][m])
        /\ queue[m][j].how = "host" => ~resumed /\ queue[m][j].task \in hostDone
        /\ queue[m][j].how = "mark" => queue[m][j].task \in done \cup hostDone
    BY DEF LaneInv, QueueFits
  <2>3. queue[m][j].task \in Task
    BY <2>2, InLane DEF LaneInv, TypeOK
  <2>4. queue[m][j].task \in done => queue[m][j].task \in done'
    BY <1>1, <2>1, <2>3, StillQueued DEF LaneFrame, Moves, t
  <2>5. \A k \in DOMAIN queue'[m] : queue'[m][i].task = queue'[m][k].task => i = k
    BY StillQueued
  <2> QED
    BY <2>1, <2>2, <2>4, <2>5
<1>8. \A u \in completed' : task'[u] = "succeeded"
  <2>1. \A u \in completed : u \in Task /\ u # t /\ task[u] = "succeeded"
    BY <1>5 DEF LaneInv, TypeOK, JournalFits
  <2>2. completed' = completed \/ (completed' = completed \cup {t} /\ task'[t] = "succeeded")
    BY <1>1 DEF Moves, Leaves, Gives
  <2> QED
    BY <1>1, <2>1, <2>2 DEF LaneFrame
<1>9. ASSUME NEW u \in Task, task'[u] = "succeeded"
      PROVE  u \in completed' \cup hostDone
  <2>1. CASE task[u] = "succeeded"
    BY <1>1, <2>1 DEF LaneInv, JournalFits, LaneFrame
  <2>2. CASE task[u] # "succeeded"
    <3>1. u = t
      BY <1>1, <1>9, <2>2 DEF LaneFrame
    <3>2. Leaves(l, t) /\ (t \in completed' \/ Current(l).how = "host")
      BY <1>1, <1>9, <2>2, <3>1 DEF Moves, Leaves, Gives
    <3>3. Current(l).how = "host" => t \in hostDone
      BY <1>2 DEF LaneInv, QueueFits, t
    <3> QED
      BY <3>1, <3>2, <3>3
  <2> QED
    BY <2>1, <2>2
<1>10. ASSUME NEW m \in Lane, NEW i \in DOMAIN queue'[m]
       PROVE  /\ queue'[m][i].task \notin completed'
              /\ ~(task'[queue'[m][i].task] \in {"skipped", "aborted"}
                    /\ queue'[m][i].task \notin done')
  <2>0. PICK u : u = queue'[m][i].task
    OBVIOUS
  <2>1. PICK j \in DOMAIN queue[m] : queue'[m][i] = queue[m][j]
    BY StillQueued
  <2>2. u \notin completed /\ ~Quiet(u)
    BY <2>0, <2>1 DEF LaneInv, JournalFits
  <2>3. u # t \/ Moves(l, t)
    BY <2>0, StillQueued DEF t
  <2>4. u \in Task
    BY <2>0, <2>1, InLane DEF LaneInv, QueueFits, TypeOK
  <2>5. u \notin completed'
    BY <1>1, <2>2, <2>3 DEF Moves, Leaves, Gives
  <2>6. CASE u # t
    BY <1>1, <2>0, <2>2, <2>4, <2>5, <2>6 DEF LaneFrame, Quiet
  <2>7. CASE u = t /\ Moves(l, t)
    BY <2>0, <2>2, <2>5, <2>7 DEF Moves, Quiet
  <2> QED
    BY <2>3, <2>6, <2>7
<1> QED
  BY <1>4, <1>6, <1>7, <1>8, <1>9, <1>10 DEF JournalFits, Quiet

LEMMA LaneCommitKept ==
  ASSUME LaneInv, TypeOK', NEW l \in Lane, LaneStep(l)
  PROVE  CommitFits' /\ SucceededIsCommitted'
<1> DEFINE t == Current(l).task
<1>1. /\ stage = "lanes" /\ queue[l] # <<>> /\ LaneFrame(l, t)
      /\ Moves(l, t) \/ Leaves(l, t) \/ Gives(l, t)
  BY LaneMoves
<1>2. /\ t \in Task /\ Current(l) = queue[l][1] /\ 1 \in DOMAIN queue[l]
      /\ DOMAIN at = Lane /\ DOMAIN branch = Lane
  BY <1>1, CurrentIsEntry DEF LaneInv, TypeOK
<1>3. UNCHANGED hostDone
  BY Zenon DEF LaneStep, SkipDoneOnDisk, CannotBegin, Begin, MarkComplete, WorkerSucceeds,
     WorkerFails, WorkerAborted, ReviewPasses, ReviewFails, Commit, CommitFails, Succeed, Rest
<1>4. t \notin completed /\ LaneOf[t] = l
  BY <1>1, QueuedOnce
<1>5. /\ at[l] \in {"review", "commit"} => t \in done \cup hostDone
      /\ at[l] = "committed" => t \in branch[l] \cup hostDone
  BY <1>1 DEF LaneInv, CommitFits
<1>6. ASSUME NEW m \in Lane \ {l}
      PROVE  /\ queue'[m] = <<>> => at'[m] = "next"
             /\ queue'[m] # <<>> /\ at'[m] \in {"review", "commit"}
                  => Head(queue'[m]).task \in done' \cup hostDone
             /\ queue'[m] # <<>> /\ at'[m] = "committed"
                  => Head(queue'[m]).task \in branch'[m] \cup hostDone
  <2>1. queue'[m] = queue[m] /\ at'[m] = at[m] /\ branch'[m] = branch[m]
    BY <1>1 DEF LaneFrame
  <2>2. CASE queue[m] = <<>>
    BY <2>1, <2>2 DEF LaneInv, CommitFits
  <2>3. CASE queue[m] # <<>>
    <3>1. Current(m).task \in Task /\ Current(m) = queue[m][1] /\ 1 \in DOMAIN queue[m]
      BY <2>3, CurrentIsEntry DEF LaneInv
    <3>2. Current(m).task # t
      BY <1>1, <3>1, QueuedOnce
    <3>3. Current(m).task \in done => Current(m).task \in done'
      BY <1>1, <3>1, <3>2 DEF LaneFrame
    <3> QED
      BY <2>1, <2>3, <3>3 DEF LaneInv, CommitFits, Current
  <2> QED
    BY <2>2, <2>3
<1>7. ASSUME Leaves(l, t) \/ Gives(l, t)
      PROVE  /\ queue'[l] = <<>> => at'[l] = "next"
             /\ queue'[l] # <<>> /\ at'[l] \in {"review", "commit"}
                  => Head(queue'[l]).task \in done' \cup hostDone
             /\ queue'[l] # <<>> /\ at'[l] = "committed"
                  => Head(queue'[l]).task \in branch'[l] \cup hostDone
  <2>1. at'[l] = "next"
    BY <1>7 DEF Leaves, Gives
  <2> QED
    BY <2>1
<1>8. ASSUME Moves(l, t)
      PROVE  /\ queue'[l] = <<>> => at'[l] = "next"
             /\ queue'[l] # <<>> /\ at'[l] \in {"review", "commit"}
                  => Head(queue'[l]).task \in done' \cup hostDone
             /\ queue'[l] # <<>> /\ at'[l] = "committed"
                  => Head(queue'[l]).task \in branch'[l] \cup hostDone
  <2>1. queue'[l] = queue[l] /\ Head(queue'[l]).task = t
    BY <1>8 DEF Moves, Current
  <2> HIDE DEF t
  <2>2. CASE MarkComplete(l) \/ WorkerSucceeds(l)
    <3>1. t \in done' \cup hostDone
      BY <1>2, <2>2 DEF MarkComplete, WorkerSucceeds, LaneInv, QueueFits, t
    <3>2. at'[l] = "review"
      BY <1>2, <2>2 DEF MarkComplete, WorkerSucceeds, MoveTo
    <3> QED
      BY <1>1, <2>1, <3>1, <3>2
  <2>3. CASE Begin(l)
    BY <1>1, <1>2, <2>1, <2>3 DEF Begin, MoveTo
  <2>4. CASE ReviewPasses(l)
    BY <1>1, <1>2, <1>5, <2>1, <2>4 DEF ReviewPasses, Busy, MoveTo
  <2>5. CASE Commit(l)
    <3>1. t \in branch'[l] \cup hostDone
      BY <1>2, <1>5, <2>5 DEF Commit, Busy, Committed, t
    <3>2. at'[l] = "committed"
      BY <1>2, <2>5 DEF Commit, MoveTo
    <3> QED
      BY <1>1, <2>1, <3>1, <3>2
  <2>6. CASE \/ SkipDoneOnDisk(l) \/ CannotBegin(l) \/ WorkerFails(l) \/ ReviewFails(l)
             \/ CommitFails(l) \/ Succeed(l) \/ WorkerAborted(l)
    BY <1>1, <1>2, <2>1, <2>6 DEF SkipDoneOnDisk, CannotBegin, WorkerFails, ReviewFails,
       CommitFails, Succeed, WorkerAborted, FailTask, Pop
  <2> QED
    BY <2>2, <2>3, <2>4, <2>5, <2>6 DEF LaneStep
<1>9. CommitFits'
  <2> SUFFICES ASSUME NEW m \in Lane
               PROVE  /\ queue'[m] = <<>> => at'[m] = "next"
                      /\ queue'[m] # <<>> /\ at'[m] \in {"review", "commit"}
                           => Head(queue'[m]).task \in done' \cup hostDone
                      /\ queue'[m] # <<>> /\ at'[m] = "committed"
                           => Head(queue'[m]).task \in branch'[m] \cup hostDone
    BY <1>3 DEF CommitFits, Current
  <2> QED
    BY <1>1, <1>6, <1>7, <1>8
<1>10. SucceededIsCommitted'
  <2> SUFFICES ASSUME NEW u \in Task \ hostDone, task'[u] = "succeeded"
               PROVE  u \in branch'[LaneOf[u]]
    BY <1>3 DEF SucceededIsCommitted
  <2>1. LaneOf[u] \in Lane
    BY TaskHasWave, HasLane
  <2>2. CASE u # t
    BY <1>1, <2>1, <2>2 DEF LaneFrame, LaneInv, SucceededIsCommitted
  <2>3. CASE u = t
    <3>1. task[t] # "succeeded"
      BY <1>4, <2>3 DEF LaneInv, JournalFits
    <3>2. Leaves(l, t)
      BY <1>1, <2>3, <3>1 DEF Moves, Gives
    <3>3. Current(l).how = "host" => t \in hostDone
      BY <1>2 DEF LaneInv, QueueFits
    <3>4. at[l] = "committed" /\ branch'[l] = branch[l]
      BY <2>3, <3>2, <3>3 DEF Leaves
    <3> QED
      BY <1>4, <1>5, <2>3, <3>4
  <2> QED
    BY <2>2, <2>3
<1> QED
  BY <1>9, <1>10

LEMMA LaneWaveKept ==
  ASSUME LaneInv, TypeOK', NEW l \in Lane, LaneStep(l)
  PROVE  FreshFits' /\ ResumedFits' /\ MergeFits' /\ RowsFit'
<1> DEFINE t == Current(l).task
<1>1. /\ stage = "lanes" /\ queue[l] # <<>> /\ LaneFrame(l, t)
      /\ Moves(l, t) \/ Leaves(l, t) \/ Gives(l, t)
  BY LaneMoves
<1>2. /\ t \in Task /\ Current(l) = queue[l][1] /\ 1 \in DOMAIN queue[l]
      /\ wave \in Wave /\ DOMAIN task = Task
  BY <1>1, CurrentIsEntry DEF LaneInv, TypeOK
<1>3. UNCHANGED Rest
  BY Zenon DEF LaneStep, SkipDoneOnDisk, CannotBegin, Begin, MarkComplete, WorkerSucceeds,
     WorkerFails, WorkerAborted, ReviewPasses, ReviewFails, Commit, CommitFails, Succeed
<1>4. UNCHANGED <<stage, wave, tick, resumed, hostDone, row, forced, toMerge, merges, left>>
  BY <1>3, Zenon DEF Rest, PlaceVars, OperatorVars
<1>5. t \in TasksOf(wave, l) /\ LaneOf[t] = l /\ t \in WaveTasks(wave)
  BY <1>1, <1>2, QueuedOnce, InLane
<1>6. (bad => bad') /\ (aborting => aborting')
  <2>1. CASE \/ SkipDoneOnDisk(l) \/ Begin(l) \/ MarkComplete(l) \/ WorkerSucceeds(l)
             \/ ReviewPasses(l) \/ Commit(l) \/ Succeed(l)
    <3>1. UNCHANGED <<bad, aborting>>
      BY <2>1, Zenon DEF SkipDoneOnDisk, Begin, MarkComplete, WorkerSucceeds, ReviewPasses,
         Commit, Succeed
    <3> QED
      BY <3>1, Zenon
  <2>2. CASE CannotBegin(l) \/ WorkerFails(l) \/ ReviewFails(l) \/ CommitFails(l)
    <3>1. PICK s \in Failed : FailTask(l, s)
      BY <2>2 DEF CannotBegin, WorkerFails, ReviewFails, CommitFails, Failed
    <3> QED
      BY <3>1, Zenon DEF FailTask
  <2>3. CASE WorkerAborted(l)
    BY <2>3, Zenon DEF WorkerAborted
  <2> QED
    BY <2>1, <2>2, <2>3, Zenon DEF LaneStep
<1>7. task'[t] # "skipped" \/ task'[t] = task[t]
  BY <1>2 DEF LaneStep, SkipDoneOnDisk, CannotBegin, Begin, MarkComplete, WorkerSucceeds,
     WorkerFails, WorkerAborted, ReviewPasses, ReviewFails, Commit, CommitFails, Succeed,
     FailTask, SetTask, Failed
<1>8. task'[t] = "aborted" => aborting' \/ task[t] = "aborted"
  <2>1. CASE WorkerAborted(l)
    BY <2>1, Zenon DEF WorkerAborted
  <2>2. CASE ~WorkerAborted(l)
    BY <1>2, <2>2 DEF LaneStep, SkipDoneOnDisk, CannotBegin, Begin, MarkComplete,
       WorkerSucceeds, WorkerFails, ReviewPasses, ReviewFails, Commit, CommitFails, Succeed,
       FailTask, SetTask, Failed
  <2> QED
    BY <2>1, <2>2
<1> HIDE DEF t
<1>9. FreshFits'
  <2> SUFFICES ASSUME ~resumed
               PROVE  FreshFits'
    BY <1>4 DEF FreshFits, Fresh
  <2>1. Fresh
    BY <1>1 DEF Fresh
  <2>2. /\ forced' = {}
        /\ \A w \in Wave : w < wave' => row'[w] = "succeeded"
        /\ \A w \in Wave : w > wave' \/ (w = wave' /\ stage' # "finalize")
                           => row'[w] # "succeeded"
        /\ \A w \in Wave : left'[w] = {}
        /\ \A w \in merges' : w < wave' \/ (w = wave' /\ stage' \in {"merge", "finalize"})
    BY <1>4, <2>1 DEF LaneInv, FreshFits
  <2>3. \A u \in Task : task'[u] # "skipped" /\ (task'[u] = "aborted" => aborting')
    BY <1>1, <1>6, <1>7, <1>8, <2>1 DEF LaneInv, FreshFits, LaneFrame
  <2>4. ASSUME NEW w \in Wave, NEW k \in DOMAIN Plan[w], NEW m \in Lane, Ahead(w, k)',
               NEW u \in Elements(Plan[w][k][m])
        PROVE  task'[u] = "pending"
    <3>1. Ahead(w, k)
      BY <1>4, <2>4, Zenon DEF Ahead
    <3>2. u \in TasksOf(w, m) /\ u \in Task /\ u \in WaveTasks(w)
      BY InTick, InLane
    <3>3. task[u] = "pending"
      BY <2>1, <3>1 DEF LaneInv, FreshFits
    <3>4. tick \in DOMAIN Plan[wave] /\ t \in Elements(Plan[wave][tick][l])
      BY <1>1, <1>2 DEF LaneInv, QueueFits, PlaceFits, t
    <3>5. u # t
      <4>1. CASE w = wave
        <5>1. k > tick /\ k \in Nat /\ tick \in Nat
          BY <1>1, <1>2, <3>1, <3>4, <4>1, PlanAssumption DEF Ahead
        <5>2. CASE u = t
          <6>1. m = l
            BY <1>5, <3>2, <5>2, InLane
          <6>2. Elements(Plan[wave][k][l]) \cap Elements(Plan[wave][tick][l]) # {}
            BY <3>4, <4>1, <5>2, <6>1
          <6>3. k = tick
            BY <1>2, <3>4, <4>1, <6>2, OnceAssumption
          <6> QED
            BY <5>1, <6>3
        <5> QED
          BY <5>2
      <4>2. CASE w # wave
        BY <1>2, <1>5, <3>2, <4>2, OneWave
      <4> QED
        BY <4>1, <4>2
    <3> QED
      BY <1>1, <3>2, <3>3, <3>5 DEF LaneFrame
  <2> QED
    BY <2>2, <2>3, <2>4 DEF FreshFits
<1>10. ResumedFits'
  <2> SUFFICES ASSUME resumed, ~bad', ~aborting', NEW u \in WaveTasks(wave)
               PROVE  InQueue(u)' \/ Settled(u)'
    BY <1>4, Zenon DEF ResumedFits
  <2>1. ~bad /\ ~aborting
    BY <1>6
  <2>2. InQueue(u) \/ Settled(u)
    BY <1>1, <2>1 DEF LaneInv, ResumedFits
  <2>3. u \in Task
    BY <1>2, HasLane
  <2>4. ~Gives(l, t) /\ (Leaves(l, t) => t \in completed' \/ Current(l).how = "host")
    BY Zenon DEF Gives, Leaves
  <2>5. Current(l).how # "host"
    BY <1>2 DEF LaneInv, QueueFits
  <2>6. CASE Moves(l, t) /\ InQueue(u)
    <3>1. \A m \in Lane : queue'[m] = queue[m]
      BY <1>1, <2>6 DEF LaneFrame, Moves
    <3> QED
      BY <2>6, <3>1 DEF InQueue
  <2>7. CASE Moves(l, t) /\ u = t
    <3>1. queue'[l] = queue[l]
      BY <2>7 DEF Moves
    <3> QED
      BY <1>2, <2>7, <3>1 DEF InQueue, t
  <2>8. CASE u # t /\ Settled(u)
    BY <1>1, <2>3, <2>8 DEF LaneFrame, Settled, Quiet
  <2>9. CASE Leaves(l, t) /\ u = t
    BY <2>4, <2>5, <2>9 DEF Settled
  <2>10. CASE Leaves(l, t) /\ u # t /\ InQueue(u)
    <3>1. PICK m \in Lane : \E i \in DOMAIN queue[m] : queue[m][i].task = u
      BY <2>10 DEF InQueue
    <3>2. PICK i \in DOMAIN queue[m] : queue[m][i].task = u
      BY <3>1
    <3>3. CASE m # l
      BY <1>1, <3>2, <3>3 DEF LaneFrame, InQueue
    <3>4. CASE m = l
      <4>0. queue[l] \in Seq(Entries)
        BY DEF LaneInv, TypeOK, Entries
      <4>1. i \in 1..Len(queue[l]) /\ i # 1
        BY <1>2, <2>10, <3>2, <3>4, <4>0 DEF t
      <4>2. queue'[l] = Tail(queue[l])
        BY <2>10 DEF Leaves
      <4>3. i - 1 \in DOMAIN queue'[l] /\ queue'[l][i - 1] = queue[l][i]
        BY <4>0, <4>1, <4>2
      <4> QED
        BY <3>2, <3>4, <4>3 DEF InQueue
    <3> QED
      BY <3>3, <3>4
  <2> QED
    BY <1>1, <2>2, <2>4, <2>6, <2>7, <2>8, <2>9, <2>10
<1>11. MergeFits'
  BY <1>1, <1>4 DEF MergeFits
<1>12. RowsFit'
  <2>1. ~Quiet(t) /\ (task[t] = "succeeded" => t \in hostDone)
    BY <1>1, <1>2 DEF LaneInv, JournalFits, t
  <2>2. \A u \in Task : /\ task[u] = "succeeded" => task'[u] = "succeeded" \/ u \in hostDone
                        /\ Quiet(u) => Quiet(u)'
    BY <1>1, <2>1 DEF LaneFrame, Quiet
  <2>3. \A w \in Wave : Recorded(w)' => Recorded(w)
    BY <1>4 DEF Recorded
  <2>4. \A w \in Wave, m \in Lane : m \in left[w] \/ Taking(w, m) => m \in left'[w]
    BY <1>1, <1>4 DEF Taking
  <2>5. forced \subseteq forced' /\ orch \subseteq orch' /\ UNCHANGED hostDone
    BY <1>1, <1>4 DEF LaneFrame
  <2> QED
    BY <2>2, <2>3, <2>4, <2>5, RowsKept
<1> QED
  BY <1>9, <1>10, <1>11, <1>12

---------------------------------------------------------------------------
(* The loops of the engine.                                                  *)

LEMMA EmptyQueues ==
  ASSUME queue = NoQueue
  PROVE  \A l \in Lane : queue[l] = <<>> /\ \A i \in DOMAIN queue[l] : FALSE
BY DEF NoQueue

LEMMA StartTickKeeps ==
  ASSUME LaneInv, TypeOK', StartTick
  PROVE  LaneInv'
<1>1. /\ stage = "tick" /\ stage' = "lanes"
      /\ queue' = [l \in Lane |-> [i \in DOMAIN Plan[wave][tick][l] |->
                                     Entry(Plan[wave][tick][l][i])]]
      /\ UNCHANGED <<task, row, forced, completed, merges, left, hostDone, done, branch, orch,
                     wave, tick, at>>
  BY DEF StartTick, Outside, PlaceVars
<1>2. UNCHANGED <<resumed, bad, aborting>>
  BY Zenon DEF StartTick, PlaceVars
<1>3. /\ ~resumed /\ wave \in Wave /\ tick \in DOMAIN Plan[wave] /\ queue = NoQueue /\ ~aborting
  BY <1>1 DEF LaneInv, PlaceFits, TypeOK
<1>4. Fresh
  BY <1>1, <1>3 DEF Fresh
<1>5. ASSUME NEW l \in Lane, NEW i \in DOMAIN queue'[l]
      PROVE  /\ i \in DOMAIN Plan[wave][tick][l] /\ queue'[l][i] = Entry(Plan[wave][tick][l][i])
             /\ queue'[l][i].task = Plan[wave][tick][l][i]
             /\ queue'[l][i].task \in Elements(Plan[wave][tick][l])
             /\ queue'[l][i].task \in TasksOf(wave, l) /\ queue'[l][i].task \in Task
  <2>1. i \in DOMAIN Plan[wave][tick][l] /\ queue'[l][i] = Entry(Plan[wave][tick][l][i])
    BY <1>1
  <2>2. queue'[l][i].task = Plan[wave][tick][l][i]
    BY <2>1 DEF Entry
  <2>3. queue'[l][i].task \in Elements(Plan[wave][tick][l])
    BY <2>1, <2>2 DEF Elements
  <2> QED
    BY <1>3, <2>1, <2>2, <2>3, InTick, InLane
<1>6. PlaceFits'
  BY <1>1, <1>2, <1>3 DEF PlaceFits
<1>7. QueueFits'
  <2>1. ASSUME NEW l \in Lane, NEW i \in DOMAIN queue'[l], NEW k \in DOMAIN queue'[l],
               queue'[l][i].task = queue'[l][k].task
        PROVE  i = k
    <3>1. /\ i \in DOMAIN Plan[wave][tick][l] /\ k \in DOMAIN Plan[wave][tick][l]
          /\ Plan[wave][tick][l][i] = Plan[wave][tick][l][k]
      BY <1>5, <2>1
    <3> QED
      BY <1>3, <3>1, OnceAssumption
  <2>2. ASSUME NEW l \in Lane, NEW i \in DOMAIN queue'[l]
        PROVE  /\ queue'[l][i].how = "host" => queue'[l][i].task \in hostDone
               /\ queue'[l][i].how # "mark"
    <3>1. \A u \in Task : Entry(u).task = u /\ Entry(u).how = IF u \in hostDone THEN "host" ELSE "run"
      BY DEF Entry
    <3>2. queue'[l][i] = Entry(queue'[l][i].task) /\ queue'[l][i].task \in Task
      BY <1>5
    <3>3. queue'[l][i].how = IF queue'[l][i].task \in hostDone THEN "host" ELSE "run"
      BY <3>1, <3>2
    <3> QED
      BY <3>3
  <2>3. ~resumed' /\ UNCHANGED <<wave, tick, hostDone>>
    BY <1>1, <1>2, <1>3
  <2> SUFFICES ASSUME NEW l \in Lane, NEW i \in DOMAIN queue'[l]
               PROVE  /\ queue'[l][i].task \in TasksOf(wave, l)
                      /\ queue'[l][i].task \in Elements(Plan[wave][tick][l])
                      /\ \A k \in DOMAIN queue'[l] : queue'[l][i].task = queue'[l][k].task => i = k
                      /\ queue'[l][i].how = "host" => queue'[l][i].task \in hostDone
                      /\ queue'[l][i].how # "mark"
    BY <2>3, Zenon DEF QueueFits
  <2> QED
    BY <1>5, <2>1, <2>2
<1>8. JournalFits'
  <2>1. ASSUME NEW l \in Lane, NEW i \in DOMAIN queue'[l]
        PROVE  queue'[l][i].task \notin completed /\ ~Quiet(queue'[l][i].task)
    <3>1. Ahead(wave, tick)
      BY <1>1, <1>3 DEF Ahead, TypeOK, LaneInv
    <3>2. task[queue'[l][i].task] = "pending"
      BY <1>3, <1>4, <1>5, <3>1 DEF LaneInv, FreshFits
    <3> QED
      BY <3>2 DEF LaneInv, JournalFits, Quiet
  <2> QED
    BY <1>1, <2>1 DEF LaneInv, JournalFits, Quiet
<1>9. CommitFits'
  <2>1. \A l \in Lane : at'[l] = "next"
    BY <1>1, <1>3, EmptyQueues DEF LaneInv, CommitFits
  <2> QED
    BY <2>1 DEF CommitFits
<1>10. SucceededIsCommitted'
  BY <1>1 DEF LaneInv, SucceededIsCommitted
<1>11. FreshFits'
  <2>1. /\ forced' = {}
        /\ \A w \in Wave : w < wave' => row'[w] = "succeeded"
        /\ \A w \in Wave : w > wave' \/ w = wave' => row'[w] # "succeeded"
        /\ \A w \in Wave : left'[w] = {}
        /\ \A w \in merges' : w < wave' \/ (w = wave' /\ stage' \in {"merge", "finalize"})
    BY <1>1, <1>4 DEF LaneInv, FreshFits
  <2>2. \A u \in Task : task'[u] # "skipped" /\ (task'[u] = "aborted" => aborting')
    BY <1>1, <1>2, <1>4, Zenon DEF LaneInv, FreshFits
  <2>3. \A w \in Wave : \A k \in DOMAIN Plan[w] : Ahead(w, k)' => Ahead(w, k)
    <3> SUFFICES ASSUME NEW w \in Wave, NEW k \in DOMAIN Plan[w], Ahead(w, k)'
                 PROVE  Ahead(w, k)
      OBVIOUS
    <3>1. k \in Nat /\ tick \in Nat
      BY <1>3, PlanAssumption
    <3> QED
      BY <1>1, <3>1 DEF Ahead
  <2>4. \A w \in Wave : \A k \in DOMAIN Plan[w] : \A l \in Lane :
          Ahead(w, k)' => \A u \in Elements(Plan[w][k][l]) : task'[u] = "pending"
    BY <1>1, <1>4, <2>3 DEF LaneInv, FreshFits
  <2> QED
    BY <2>1, <2>2, <2>4 DEF FreshFits
<1>12. ResumedFits' /\ MergeFits'
  BY <1>1, <1>2, <1>3 DEF ResumedFits, MergeFits
<1>13. RowsFit'
  BY <1>1, RowsStay
<1> QED
  BY <1>6, <1>7, <1>8, <1>9, <1>10, <1>11, <1>12, <1>13 DEF LaneInv

LEMMA NextTickKeeps ==
  ASSUME LaneInv, TypeOK', NextTick
  PROVE  LaneInv'
<1>1. /\ stage = "lanes" /\ stage' = "tick" /\ queue = NoQueue /\ queue' = NoQueue
      /\ tick < Len(Plan[wave]) /\ tick' = tick + 1
      /\ UNCHANGED <<task, row, forced, completed, merges, left, hostDone, done, branch, orch,
                     wave, at>>
  BY DEF NextTick, LanesDone, Outside, LaneVars
<1>2. ~resumed /\ ~aborting /\ UNCHANGED <<resumed, bad, aborting>>
  BY Zenon DEF NextTick, LaneVars
<1>3. wave \in Wave /\ tick \in Nat \ {0} /\ DOMAIN Plan[wave] = 1..Len(Plan[wave])
  BY PlanAssumption DEF LaneInv, TypeOK
<1>4. Fresh
  BY <1>1, <1>2 DEF Fresh
<1>5. QueueFits' /\ CommitFits' /\ ResumedFits'
  BY <1>1, AtRest
<1>6. PlaceFits'
  <2>1. tick' \in DOMAIN Plan[wave']
    BY <1>1, <1>3, PlanAssumption
  <2> QED
    BY <1>1, <1>2, <2>1 DEF PlaceFits
<1>7. JournalFits' /\ SucceededIsCommitted' /\ MergeFits'
  BY <1>1 DEF LaneInv, JournalFits, Quiet, SucceededIsCommitted, MergeFits
<1>8. RowsFit'
  BY <1>1, RowsStay
<1>9. FreshFits'
  <2>1. /\ forced' = {}
        /\ \A w \in Wave : w < wave' => row'[w] = "succeeded"
        /\ \A w \in Wave : w > wave' \/ w = wave' => row'[w] # "succeeded"
        /\ \A w \in Wave : left'[w] = {}
        /\ \A w \in merges' : w < wave' \/ (w = wave' /\ stage' \in {"merge", "finalize"})
    BY <1>1, <1>4 DEF LaneInv, FreshFits
  <2>2. \A u \in Task : task'[u] # "skipped" /\ (task'[u] = "aborted" => aborting')
    BY <1>1, <1>2, <1>4, Zenon DEF LaneInv, FreshFits
  <2>3. \A w \in Wave : \A k \in DOMAIN Plan[w] : Ahead(w, k)' => Ahead(w, k)
    <3> SUFFICES ASSUME NEW w \in Wave, NEW k \in DOMAIN Plan[w], Ahead(w, k)'
                 PROVE  Ahead(w, k)
      OBVIOUS
    <3>1. k \in Nat
      BY PlanAssumption
    <3> QED
      BY <1>1, <1>3, <3>1 DEF Ahead
  <2>4. \A w \in Wave : \A k \in DOMAIN Plan[w] : \A l \in Lane :
          Ahead(w, k)' => \A u \in Elements(Plan[w][k][l]) : task'[u] = "pending"
    BY <1>1, <1>4, <2>3 DEF LaneInv, FreshFits
  <2> QED
    BY <2>1, <2>2, <2>4 DEF FreshFits
<1> QED
  BY <1>5, <1>6, <1>7, <1>8, <1>9 DEF LaneInv

(* A resumed engine passes over a wave, or goes on behind it.                *)
LEMMA PassKeeps ==
  ASSUME LaneInv, TypeOK', PassMergedWave \/ AlreadyMerged
  PROVE  LaneInv'
<1>1. /\ stage' \in {"wave", "finalize"}
      /\ UNCHANGED <<task, row, forced, completed, merges, left, hostDone, done, branch, orch,
                     queue, at>>
  BY DEF PassMergedWave, AlreadyMerged, Outside, LaneVars, Advance
<1>2. UNCHANGED <<resumed, bad, aborting>>
  BY Zenon DEF PassMergedWave, AlreadyMerged, LaneVars
<1>3. resumed
  BY DEF PassMergedWave, AlreadyMerged, LaneInv, PlaceFits
<1>4. queue = NoQueue /\ ~aborting
  BY DEF PassMergedWave, AlreadyMerged, LanesDone, LaneInv, PlaceFits
<1>5. QueueFits' /\ CommitFits' /\ ResumedFits'
  BY <1>1, <1>4, AtRest
<1>6. PlaceFits'
  BY <1>1, <1>2, <1>3, <1>4 DEF PlaceFits
<1>7. JournalFits' /\ SucceededIsCommitted' /\ MergeFits'
  BY <1>1, <1>4, EmptyQueues DEF LaneInv, JournalFits, SucceededIsCommitted, MergeFits
<1>8. RowsFit'
  <2>1. stage # "merge"
    BY DEF PassMergedWave, AlreadyMerged, LanesDone
  <2> QED
    BY <1>1, <2>1, RowsStay
<1>9. FreshFits'
  BY <1>2, <1>3 DEF FreshFits, Fresh
<1> QED
  BY <1>5, <1>6, <1>7, <1>8, <1>9 DEF LaneInv

(* What a resumed engine takes is not in the journal, and it has everything  *)
(* that is not settled; of a wave that was merged nothing is left to take.   *)
LEMMA TakenFits ==
  ASSUME LaneInv, NEW t \in Task
  PROVE  /\ Taken(t) => t \notin completed
         /\ Taken(t) /\ CompleteFromDisk(t) => t \in done \cup hostDone
         /\ ~Taken(t) => Settled(t)
         /\ Quiet(t) => ~Taken(t)
<1>1. task[t] \in Status
  BY DEF LaneInv, TypeOK
<1>2. /\ t \in completed => task[t] = "succeeded"
      /\ task[t] = "succeeded" => t \in completed \cup hostDone
  BY DEF LaneInv, JournalFits
<1> QED
  BY <1>1, <1>2 DEF Taken, AlreadyDone, CompleteFromDisk, Resumable, Terminal, Settled,
     Quiet, Status

LEMMA StartResumedWaveKeeps ==
  ASSUME LaneInv, TypeOK', StartResumedWave
  PROVE  LaneInv'
<1>1. /\ stage = "wave" /\ stage' = "lanes"
      /\ UNCHANGED <<task, row, forced, completed, merges, left, hostDone, done, branch, orch,
                     wave, tick, at>>
  BY DEF StartResumedWave, Outside, PlaceVars
<1>2. UNCHANGED <<resumed, bad, aborting>>
  BY Zenon DEF StartResumedWave, PlaceVars
<1>3. /\ resumed /\ wave \in Wave /\ queue = NoQueue /\ ~aborting
  BY <1>1 DEF LaneInv, PlaceFits, TypeOK
<1>4. PICK order \in [Lane -> UNION {ResumeOrders(wave, l) : l \in Lane}] :
        /\ \A l \in Lane : order[l] \in ResumeOrders(wave, l)
        /\ queue' = [l \in Lane |-> ResumeQueue(order[l])]
  BY DEF StartResumedWave
<1>5. ASSUME NEW l \in Lane
      PROVE  /\ DOMAIN queue'[l] = DOMAIN order[l]
             /\ \A i \in DOMAIN order[l] :
                  /\ queue'[l][i] = ResumeEntry(order[l][i])
                  /\ queue'[l][i].task = order[l][i]
                  /\ queue'[l][i].how = IF CompleteFromDisk(order[l][i]) THEN "mark" ELSE "run"
                  /\ order[l][i] \in TasksOf(wave, l) /\ order[l][i] \in Task
                  /\ Taken(order[l][i])
             /\ \A t \in TasksOf(wave, l) : Taken(t) => \E i \in DOMAIN order[l] : order[l][i] = t
             /\ \A i, j \in DOMAIN order[l] : order[l][i] = order[l][j] => i = j
  <2>1. queue'[l] = [i \in DOMAIN order[l] |-> ResumeEntry(order[l][i])]
    BY <1>4 DEF ResumeQueue
  <2>2. /\ Elements(order[l]) = {t \in TasksOf(wave, l) : Taken(t)}
        /\ \A i, j \in DOMAIN order[l] : order[l][i] = order[l][j] => i = j
    BY <1>3, <1>4, OrderFits
  <2>3. \A u : ResumeEntry(u).task = u
                /\ ResumeEntry(u).how = IF CompleteFromDisk(u) THEN "mark" ELSE "run"
    BY DEF ResumeEntry
  <2>4. \A i \in DOMAIN order[l] : order[l][i] \in Elements(order[l])
    BY DEF Elements
  <2>5. \A t \in Elements(order[l]) : \E i \in DOMAIN order[l] : order[l][i] = t
    BY DEF Elements
  <2>6. \A t \in TasksOf(wave, l) : t \in Task
    BY <1>3, InLane
  <2>7. \A i \in DOMAIN order[l] : order[l][i] \in TasksOf(wave, l) /\ Taken(order[l][i])
    BY <2>2, <2>4
  <2>8. \A t \in TasksOf(wave, l) : Taken(t) => \E i \in DOMAIN order[l] : order[l][i] = t
    BY <2>2, <2>5
  <2>9. DOMAIN queue'[l] = DOMAIN order[l] /\ \A i \in DOMAIN order[l] :
          queue'[l][i] = ResumeEntry(order[l][i])
    BY <2>1
  <2> QED
    BY <2>2, <2>3, <2>6, <2>7, <2>8, <2>9
<1>6. PlaceFits'
  BY <1>1, <1>2, <1>3 DEF PlaceFits
<1>7. QueueFits'
  <2>1. resumed' /\ UNCHANGED <<wave, hostDone, done>>
    BY <1>1, <1>2, <1>3
  <2> SUFFICES ASSUME NEW l \in Lane, NEW i \in DOMAIN queue'[l]
               PROVE  /\ queue'[l][i].task \in TasksOf(wave, l)
                      /\ \A k \in DOMAIN queue'[l] : queue'[l][i].task = queue'[l][k].task => i = k
                      /\ queue'[l][i].how # "host"
                      /\ queue'[l][i].how = "mark" => queue'[l][i].task \in done \cup hostDone
    BY <2>1, Zenon DEF QueueFits
  <2> QED
    BY <1>5, TakenFits
<1>8. JournalFits'
  <2>1. ASSUME NEW l \in Lane, NEW i \in DOMAIN queue'[l]
        PROVE  queue'[l][i].task \notin completed /\ ~Quiet(queue'[l][i].task)
    BY <1>5, TakenFits
  <2> QED
    BY <1>1, <2>1 DEF LaneInv, JournalFits, Quiet
<1>9. CommitFits'
  <2>1. \A l \in Lane : at'[l] = "next"
    BY <1>1, <1>3, EmptyQueues DEF LaneInv, CommitFits
  <2> QED
    BY <2>1 DEF CommitFits
<1>10. SucceededIsCommitted'
  BY <1>1 DEF LaneInv, SucceededIsCommitted
<1>11. FreshFits'
  BY <1>2, <1>3 DEF FreshFits, Fresh
<1>12. MergeFits'
  BY <1>1 DEF MergeFits
<1>13. ResumedFits'
  <2> SUFFICES ASSUME NEW t \in WaveTasks(wave)
               PROVE  InQueue(t)' \/ Settled(t)'
    BY <1>1, Zenon DEF ResumedFits
  <2>1. t \in Task /\ LaneOf[t] \in Lane /\ t \in TasksOf(wave, LaneOf[t])
    BY <1>3, HasLane
  <2>2. CASE Taken(t)
    <3>1. \E i \in DOMAIN queue'[LaneOf[t]] : queue'[LaneOf[t]][i].task = t
      BY <1>5, <2>1, <2>2
    <3> QED
      BY <2>1, <3>1 DEF InQueue
  <2>3. CASE ~Taken(t)
    BY <1>1, <2>1, <2>3, TakenFits DEF Settled, Quiet
  <2> QED
    BY <2>2, <2>3
<1>14. RowsFit'
  BY <1>1, RowsStay
<1> QED
  BY <1>6, <1>7, <1>8, <1>9, <1>10, <1>11, <1>12, <1>13, <1>14 DEF LaneInv

(* In a wave that may be merged every task has succeeded, or has nothing to  *)
(* merge.                                                                    *)
LEMMA EligibleEnded ==
  ASSUME LaneInv, WaveIsOver, Eligible(wave), wave \notin forced, NEW t \in WaveTasks(wave)
  PROVE  task[t] = "succeeded" \/ Quiet(t)
<1>1. /\ stage = "lanes" /\ queue = NoQueue /\ ~aborting /\ wave \in Wave
      /\ ~resumed \/ ~bad
  BY DEF WaveIsOver, WaveIsRun, ResumedWaveIsRun, LanesDone, LaneInv, TypeOK
<1>2. task[t] \in {"succeeded", "skipped", "aborted"} /\ t \in Task
  <2>1. t \in Task /\ task[t] \in Status
    BY <1>1, HasLane DEF LaneInv, TypeOK
  <2> QED
    BY <2>1 DEF Eligible, Status
<1>3. CASE ~resumed
  BY <1>1, <1>2, <1>3 DEF LaneInv, FreshFits, Fresh
<1>4. CASE resumed
  <2>1. InQueue(t) \/ Settled(t)
    BY <1>1, <1>4 DEF LaneInv, ResumedFits
  <2>2. t \in completed \/ Quiet(t)
    BY <1>1, <1>2, <2>1, EmptyQueues DEF InQueue, Settled, Failed
  <2> QED
    BY <2>2 DEF LaneInv, JournalFits
<1> QED
  BY <1>3, <1>4

LEMMA StartMergeKeeps ==
  ASSUME LaneInv, TypeOK', StartMerge
  PROVE  LaneInv'
<1>1. /\ stage = "lanes" /\ stage' = "merge" /\ queue = NoQueue /\ ~aborting
      /\ toMerge' = {l \in Lane : LaneSucceeded(wave, l)} /\ WaveIsOver /\ Eligible(wave)
      /\ UNCHANGED <<task, row, forced, completed, merges, left, hostDone, done, branch,
                     orch, wave, tick, queue, at>>
  BY DEF StartMerge, WaveIsOver, WaveIsRun, ResumedWaveIsRun, LanesDone, Outside, PlaceVars,
     LaneVars
<1>2. UNCHANGED <<resumed, bad, aborting>>
  BY Zenon DEF StartMerge, PlaceVars, LaneVars
<1>3. wave \in Wave
  BY DEF LaneInv, TypeOK
<1>4. QueueFits' /\ CommitFits' /\ ResumedFits'
  BY <1>1, AtRest
<1>5. PlaceFits'
  BY <1>1, <1>2 DEF PlaceFits
<1>6. JournalFits' /\ SucceededIsCommitted'
  BY <1>1 DEF LaneInv, JournalFits, Quiet, SucceededIsCommitted
<1>7. RowsFit'
  <2>1. ASSUME NEW w \in Wave \ forced, Recorded(w)', ~Recorded(w)
        PROVE  Over(w)' /\ \A l \in Lane : LaneIsIn(w, l)'
    <3>1. w = wave
      BY <1>1, <2>1 DEF Recorded
    <3>2. \A t \in WaveTasks(w) : task[t] = "succeeded" \/ Quiet(t)
      BY <1>1, <3>1, EligibleEnded
    <3>3. \A t \in WaveTasks(w) : task'[t] = "succeeded" \/ Quiet(t)'
      BY <1>1, <3>2 DEF Quiet
    <3>4. \A l \in Lane : Taking(w, l)' \/ \A t \in TasksOf(w, l) : Quiet(t)'
      <4> SUFFICES ASSUME NEW l \in Lane, NEW t \in TasksOf(w, l), task'[t] = "succeeded"
                   PROVE  Taking(w, l)'
        BY <3>3, InLane
      <4>1. LaneSucceeded(wave, l)
        BY <1>1, <3>1 DEF LaneSucceeded
      <4> QED
        BY <1>1, <3>1, <4>1 DEF Taking
    <3> QED
      BY <3>3, <3>4, Zenon DEF Over, LaneIsIn
  <2>2. \A t \in Task : (task[t] = "succeeded" => task'[t] = "succeeded") /\ (Quiet(t) => Quiet(t)')
    BY <1>1 DEF Quiet
  <2>3. /\ forced \subseteq forced' /\ orch \subseteq orch' /\ UNCHANGED hostDone
        /\ \A w \in Wave, l \in Lane : l \in left[w] \/ Taking(w, l) => l \in left'[w]
    BY <1>1 DEF Taking
  <2> QED
    BY <1>1, <2>1, <2>2, <2>3, RowsKept
<1>8. MergeFits'
  <2>1. CASE resumed
    BY <1>1, <2>1 DEF MergeFits, WaveIsOver, WaveIsRun, ResumedWaveIsRun
  <2>2. CASE ~resumed
    BY <1>1, <1>3, <2>2 DEF MergeFits, LaneInv, FreshFits, Fresh
  <2> QED
    BY <2>1, <2>2
<1>9. FreshFits'
  <2> SUFFICES ASSUME ~resumed
               PROVE  FreshFits'
    BY <1>2 DEF FreshFits, Fresh
  <2>0. Fresh
    BY <1>1 DEF Fresh
  <2>1. /\ forced' = {}
        /\ \A w \in Wave : w < wave' => row'[w] = "succeeded"
        /\ \A w \in Wave : w > wave' \/ w = wave' => row'[w] # "succeeded"
        /\ \A w \in Wave : left'[w] = {}
        /\ \A w \in merges' : w < wave' \/ (w = wave' /\ stage' \in {"merge", "finalize"})
    BY <1>1, <2>0 DEF LaneInv, FreshFits
  <2>2. \A u \in Task : task'[u] # "skipped" /\ (task'[u] = "aborted" => aborting')
    BY <1>1, <1>2, <2>0, Zenon DEF LaneInv, FreshFits
  <2>3. \A w \in Wave : \A k \in DOMAIN Plan[w] : Ahead(w, k)' => Ahead(w, k)
    BY <1>1 DEF Ahead
  <2>4. \A w \in Wave : \A k \in DOMAIN Plan[w] : \A l \in Lane :
          Ahead(w, k)' => \A u \in Elements(Plan[w][k][l]) : task'[u] = "pending"
    BY <1>1, <2>0, <2>3 DEF LaneInv, FreshFits
  <2> QED
    BY <2>1, <2>2, <2>4 DEF FreshFits
<1> QED
  BY <1>4, <1>5, <1>6, <1>7, <1>8, <1>9 DEF LaneInv

LEMMA MergeLaneKeeps ==
  ASSUME LaneInv, TypeOK', NEW l \in Lane, MergeLane(l)
  PROVE  LaneInv'
<1>1. /\ stage = "merge" /\ stage' = "merge"
      /\ orch' = orch \cup branch[l] /\ toMerge' = toMerge \ {l}
      /\ TasksOf(wave, l) \subseteq branch[l]
      /\ merges' = merges \cup {wave} /\ left' = [left EXCEPT ![wave] = @ \ {l}]
      /\ UNCHANGED <<task, row, forced, completed, hostDone, done, branch, wave, tick,
                     queue, at>>
  BY DEF MergeLane, NextToMerge, DoneMarkersCommitted, OperatorVars, PlaceVars, LaneVars
<1>2. UNCHANGED <<resumed, bad, aborting>>
  BY Zenon DEF MergeLane, PlaceVars, LaneVars
<1>3. wave \in Wave /\ queue = NoQueue /\ ~aborting
  BY <1>1 DEF LaneInv, TypeOK, PlaceFits
<1>4. QueueFits' /\ CommitFits' /\ ResumedFits'
  BY <1>1, <1>3, AtRest
<1>5. PlaceFits'
  BY <1>1, <1>2, <1>3 DEF PlaceFits
<1>6. JournalFits' /\ SucceededIsCommitted'
  BY <1>1 DEF LaneInv, JournalFits, Quiet, SucceededIsCommitted
<1>7. RowsFit'
  <2>1. \A w \in Wave : Recorded(w)' => Recorded(w)
    BY <1>1 DEF Recorded
  <2>2. \A t \in Task : (task[t] = "succeeded" => task'[t] = "succeeded") /\ (Quiet(t) => Quiet(t)')
    BY <1>1 DEF Quiet
  <2>3. ASSUME NEW w \in Wave, NEW m \in Lane, m \in left[w] \/ Taking(w, m)
        PROVE  m \in left'[w] \/ Taking(w, m)' \/ TasksOf(w, m) \subseteq orch'
    <3>1. DOMAIN left = Wave
      BY DEF LaneInv, TypeOK
    <3> QED
      BY <1>1, <2>3, <3>1 DEF Taking
  <2>4. forced \subseteq forced' /\ orch \subseteq orch' /\ UNCHANGED hostDone
    BY <1>1
  <2> QED
    BY <2>1, <2>2, <2>3, <2>4, RowsKept
<1>8. MergeFits'
  BY <1>1 DEF LaneInv, MergeFits
<1>9. FreshFits'
  <2> SUFFICES ASSUME Fresh
               PROVE  FreshFits'
    BY <1>1, <1>2, Zenon DEF FreshFits, Fresh
  <2>1. \A w \in Wave : left'[w] = {}
    BY <1>1 DEF LaneInv, FreshFits, TypeOK
  <2>2. \A w \in merges' : w < wave \/ w = wave
    BY <1>1 DEF LaneInv, FreshFits
  <2>3. \A w \in Wave : \A k \in DOMAIN Plan[w] : \A m \in Lane :
          Ahead(w, k)' => \A t \in Elements(Plan[w][k][m]) : task'[t] = "pending"
    <3>1. \A w \in Wave : \A k \in DOMAIN Plan[w] : Ahead(w, k)' => Ahead(w, k)
      BY <1>1 DEF Ahead
    <3> QED
      BY <1>1, <3>1 DEF LaneInv, FreshFits
  <2>4. /\ forced' = {}
        /\ \A w \in Wave : w < wave => row'[w] = "succeeded"
        /\ \A w \in Wave : w > wave \/ w = wave => row'[w] # "succeeded"
    BY <1>1 DEF LaneInv, FreshFits
  <2>5. \A t \in Task : task'[t] # "skipped" /\ (task'[t] = "aborted" => aborting')
    BY <1>1, <1>2, Zenon DEF LaneInv, FreshFits
  <2> QED
    BY <1>1, <2>1, <2>2, <2>3, <2>4, <2>5 DEF FreshFits
<1> QED
  BY <1>4, <1>5, <1>6, <1>7, <1>8, <1>9 DEF LaneInv

LEMMA MergeDoneKeeps ==
  ASSUME LaneInv, TypeOK', MergeDone
  PROVE  LaneInv'
<1>1. /\ stage = "merge" /\ toMerge = {} /\ tick' = 1
      /\ row' = Hydrated([row EXCEPT ![wave] = "succeeded"])
      /\ UNCHANGED <<task, forced, completed, merges, left, hostDone, done, branch, orch,
                     queue, at>>
  BY DEF MergeDone, OperatorVars, JournalVars, GitVars, LaneVars
<1>2. UNCHANGED <<resumed, bad, aborting>>
  BY Zenon DEF MergeDone, LaneVars
<1>3. \/ wave < LastWave /\ wave' = wave + 1 /\ stage' = (IF resumed THEN "wave" ELSE "tick")
      \/ wave' = wave /\ stage' = "finalize"
  BY DEF MergeDone, Advance
<1>4. wave \in Wave /\ queue = NoQueue /\ ~aborting /\ DOMAIN row = Wave
  BY <1>1 DEF LaneInv, TypeOK, PlaceFits
<1>5. stage' # "lanes" /\ stage' # "merge" /\ stage' # "none"
  BY <1>3
<1>6. wave' \in Wave /\ wave \in Nat /\ \A w \in Wave : w \in Nat
  BY <1>3, <1>4, PlanAssumption DEF LastWave
<1>7. /\ row'[wave] = "succeeded"
      /\ \A w \in Wave : w # wave =>
           (row'[w] = "succeeded" <=> row[w] = "succeeded" \/ w \in merges)
  BY <1>1, <1>4 DEF Hydrated
<1>8. QueueFits' /\ CommitFits' /\ ResumedFits'
  BY <1>1, <1>4, <1>5, AtRest
<1>9. PlaceFits'
  <2>1. 1 \in DOMAIN Plan[wave']
    BY <1>6, PlanAssumption
  <2>2. stage' = "tick" => ~resumed
    BY <1>3
  <2>3. stage' = "wave" => resumed
    BY <1>3
  <2> QED
    BY <1>1, <1>2, <1>4, <1>5, <2>1, <2>2, <2>3 DEF PlaceFits
<1>10. JournalFits' /\ SucceededIsCommitted' /\ MergeFits'
  BY <1>1, <1>5 DEF LaneInv, JournalFits, Quiet, SucceededIsCommitted, MergeFits
<1>11. RowsFit'
  <2>1. \A w \in Wave : Recorded(w)' => Recorded(w)
    BY <1>1, <1>5, <1>7 DEF Recorded
  <2>2. \A t \in Task : (task[t] = "succeeded" => task'[t] = "succeeded") /\ (Quiet(t) => Quiet(t)')
    BY <1>1 DEF Quiet
  <2>3. \A w \in Wave, l \in Lane : l \in left[w] \/ Taking(w, l) => l \in left'[w]
    BY <1>1 DEF Taking
  <2>4. forced \subseteq forced' /\ orch \subseteq orch' /\ UNCHANGED hostDone
    BY <1>1
  <2> QED
    BY <2>1, <2>2, <2>3, <2>4, RowsKept
<1>12. FreshFits'
  <2> SUFFICES ASSUME ~resumed
               PROVE  FreshFits'
    BY <1>2 DEF FreshFits, Fresh
  <2>1. Fresh
    BY <1>1 DEF Fresh
  <2>2. forced' = {} /\ (\A w \in Wave : w < wave' => row'[w] = "succeeded")
    <3>1. forced' = {} /\ \A w \in Wave : w < wave => row[w] = "succeeded"
      BY <1>1, <2>1 DEF LaneInv, FreshFits
    <3>2. \A w \in Wave : w < wave' => w < wave \/ w = wave
      BY <1>3, <1>6
    <3> QED
      BY <1>4, <1>6, <1>7, <3>1, <3>2
  <2>3. \A w \in Wave : w > wave' \/ (w = wave' /\ stage' # "finalize")
                         => row'[w] # "succeeded"
    <3>1. ASSUME NEW w \in Wave, w > wave
          PROVE  row'[w] # "succeeded"
      <4>1. row[w] # "succeeded"
        BY <2>1, <3>1 DEF LaneInv, FreshFits
      <4>2. w \notin merges
        BY <1>6, <2>1, <3>1 DEF LaneInv, FreshFits
      <4> QED
        BY <1>6, <1>7, <3>1, <4>1, <4>2
    <3>2. \A w \in Wave : w > wave' \/ (w = wave' /\ stage' # "finalize") => w > wave
      BY <1>3, <1>6
    <3> QED
      BY <3>1, <3>2
  <2>7. /\ \A w \in Wave : left'[w] = {}
        /\ \A w \in merges' : w < wave' \/ (w = wave' /\ stage' = "finalize")
    <3>1. /\ \A w \in Wave : left[w] = {}
          /\ \A w \in merges : w \in Wave /\ (w < wave \/ w = wave)
      BY <1>1, <2>1 DEF LaneInv, FreshFits, TypeOK
    <3> QED
      BY <1>1, <1>3, <1>6, <3>1
  <2>4. \A u \in Task : task'[u] # "skipped" /\ (task'[u] = "aborted" => aborting')
    BY <1>1, <1>2, <2>1, Zenon DEF LaneInv, FreshFits
  <2>5. \A w \in Wave : \A k \in DOMAIN Plan[w] : Ahead(w, k)' => Ahead(w, k)
    <3>1. \A w \in Wave : w > wave' => w > wave
      BY <1>3, <1>6
    <3>2. stage' = "tick" => wave' > wave
      BY <1>3, <1>6
    <3> QED
      BY <1>5, <3>1, <3>2 DEF Ahead
  <2>6. \A w \in Wave : \A k \in DOMAIN Plan[w] : \A l \in Lane :
          Ahead(w, k)' => \A u \in Elements(Plan[w][k][l]) : task'[u] = "pending"
    BY <1>1, <2>1, <2>5 DEF LaneInv, FreshFits
  <2> QED
    BY <2>2, <2>3, <2>4, <2>6, <2>7 DEF FreshFits
<1> QED
  BY <1>8, <1>9, <1>10, <1>11, <1>12 DEF LaneInv

---------------------------------------------------------------------------
(* What holds of every behaviour.                                            *)

LEMMA InitFits == Init => LaneInv
<1> SUFFICES ASSUME Init PROVE LaneInv
  OBVIOUS
<1>1. TypeOK
  BY TypeInit
<1>2. /\ stage = "tick" /\ wave = 1 /\ tick = 1 /\ queue = NoQueue /\ at = AllNext
      /\ task = [t \in Task |-> "pending"] /\ row = [w \in Wave |-> "none"]
      /\ forced = {} /\ completed = {} /\ merges = {} /\ left = [w \in Wave |-> {}]
  BY DEF Init
<1>3. ~resumed /\ ~aborting
  BY Zenon DEF Init
<1>4. 1 \in Wave /\ 1 \in DOMAIN Plan[1]
  BY PlanAssumption
<1>5. PlaceFits
  BY <1>2, <1>3, <1>4 DEF PlaceFits
<1>6. QueueFits /\ JournalFits /\ CommitFits
  BY <1>2 DEF QueueFits, JournalFits, CommitFits, NoQueue, AllNext
<1>7. SucceededIsCommitted
  BY <1>2 DEF SucceededIsCommitted
<1>8. \A w \in Wave : ~(w < 1)
  BY PlanAssumption
<1>9. FreshFits
  <2>1. \A w \in Wave : \A k \in DOMAIN Plan[w] : \A l \in Lane :
          \A t \in Elements(Plan[w][k][l]) : task[t] = "pending"
    BY <1>2, InTick, InLane
  <2> QED
    BY <1>2, <1>8, <2>1 DEF FreshFits
<1>10. ResumedFits /\ MergeFits /\ RowsFit
  BY <1>2 DEF ResumedFits, MergeFits, RowsFit, Recorded
<1> QED
  BY <1>1, <1>5, <1>6, <1>7, <1>9, <1>10 DEF LaneInv

LEMMA StepKeepsTypes ==
  ASSUME LaneInv, [Next]_vars
  PROVE  TypeOK'
<1>1. TypeOK /\ PlaceFits
  BY DEF LaneInv
<1>2. CASE EngineStep
  BY <1>1, <1>2, TypeEngine
<1>3. ASSUME NEW l \in Lane, LaneStep(l)
      PROVE  TypeOK'
  BY <1>1, <1>3, TypeLane
<1>4. CASE Kill \/ Exception \/ Operator
  BY <1>1, <1>4, TypeOther
<1>5. CASE UNCHANGED vars
  BY <1>1, <1>5, Zenon DEF TypeOK, vars
<1> QED
  BY <1>2, <1>3, <1>4, <1>5 DEF Next

LEMMA StepKeepsLanes ==
  ASSUME LaneInv, [Next]_vars
  PROVE  LaneInv'
<1>1. TypeOK'
  BY StepKeepsTypes
<1>2. TypeOK
  BY DEF LaneInv
<1>3. CASE \/ AdoptPause \/ StopAfterTick \/ StopAfterResumedWave \/ MergeBlocked
           \/ NeedsReplan \/ Finalize \/ Kill \/ Exception
           \/ \E l \in Lane : MergeLaneFails(l)
  <2>1. Stopped /\ \E p \in Phase : Stop(p)
    BY <1>2, <1>3, StopsLeave
  <2> QED
    BY <1>1, <2>1, StopKeeps
<1>4. CASE StartTick
  BY <1>1, <1>4, StartTickKeeps
<1>5. CASE NextTick
  BY <1>1, <1>5, NextTickKeeps
<1>6. CASE PassMergedWave \/ AlreadyMerged
  BY <1>1, <1>6, PassKeeps
<1>7. CASE StartResumedWave
  BY <1>1, <1>7, StartResumedWaveKeeps
<1>8. CASE StartMerge
  BY <1>1, <1>8, StartMergeKeeps
<1>9. ASSUME NEW l \in Lane, MergeLane(l)
      PROVE  LaneInv'
  BY <1>1, <1>9, MergeLaneKeeps
<1>10. CASE MergeDone
  BY <1>1, <1>10, MergeDoneKeeps
<1>11. ASSUME NEW l \in Lane, LaneStep(l)
       PROVE  LaneInv'
  <2>1. PlaceFits' /\ QueueFits' /\ JournalFits'
    BY <1>1, <1>11, LaneQueueKept
  <2>2. CommitFits' /\ SucceededIsCommitted'
    BY <1>1, <1>11, LaneCommitKept
  <2>3. FreshFits' /\ ResumedFits' /\ MergeFits' /\ RowsFit'
    BY <1>1, <1>11, LaneWaveKept
  <2> QED
    BY <1>1, <2>1, <2>2, <2>3 DEF LaneInv
<1>12. ASSUME NEW t \in Task, Commanded(t)
       PROVE  LaneInv'
  BY <1>1, <1>12, CommandKeeps
<1>13. CASE Reconcile
  <2>1. PICK t \in Task : task[t] = "running"
    BY <1>13 DEF Reconcile
  <2> QED
    BY <1>12, <1>13, <2>1 DEF Commanded
<1>14. ASSUME NEW w \in Wave, forceMergeWave(w)
       PROVE  LaneInv'
  BY <1>1, <1>14, ForceKeeps
<1>15. CASE Resume
  BY <1>1, <1>15, ResumeKeeps
<1>16. CASE Pause \/ Abort \/ UNCHANGED vars
  BY <1>1, <1>16, RequestKeeps
<1> QED
  BY <1>3, <1>4, <1>5, <1>6, <1>7, <1>8, <1>9, <1>10, <1>11, <1>12, <1>13, <1>14, <1>15,
     <1>16 DEF Next, EngineStep, Operator, Commanded

(* LaneInv is inductive: it holds of every state that a fresh engine, the    *)
(* crashes, the operator and the resumed engines lead to.                    *)
THEOREM LanesFit == Spec => []LaneInv
<1>1. Init => LaneInv
  BY InitFits
<1>2. LaneInv /\ [Next]_vars => LaneInv'
  BY StepKeepsLanes
<1> QED
  BY <1>1, <1>2, PTL DEF Spec

(* Every variable has its type, for any plan: the wave and the tick of the   *)
(* engine are those of the plan, and a lane has entries of the plan's tasks. *)
THEOREM TypeCorrect == Spec => []TypeOK
<1>1. LaneInv => TypeOK
  BY DEF LaneInv
<1> QED
  BY <1>1, LanesFit, PTL

(* What succeeded is on the branch of its lane, so that the merge can take   *)
(* it (recordTaskSucceeded follows commitLaneAndValidateWorktree).           *)
THEOREM SuccessIsCommitted == Spec => []SucceededIsCommitted
<1>1. LaneInv => SucceededIsCommitted
  BY DEF LaneInv
<1> QED
  BY <1>1, LanesFit, PTL

(* A wave whose row says succeeded, by its own merge or from the journal,    *)
(* has the work of its succeeded tasks in the orch branch, but for the lanes *)
(* that a merge of it left, whatever was killed, retried, skipped, resumed   *)
(* or merged again in between (mergeWaveLanesToOrch,                         *)
(* hydrateMergeResultsFromJournal).                                          *)
THEOREM MergedRowsAreInOrch == Spec => []MergedRowIsInOrch
<1>1. ASSUME LaneInv, NEW w \in Wave \ forced, row[w] = "succeeded",
             NEW t \in WaveTasks(w), task[t] = "succeeded", LaneOf[t] \notin left[w]
      PROVE  t \in orch
  <2>1. LaneOf[t] \in Lane /\ t \in TasksOf(w, LaneOf[t])
    BY HasLane
  <2>2. LaneIsIn(w, LaneOf[t])
    BY <1>1, <2>1 DEF LaneInv, RowsFit, Recorded
  <2>3. ~Taking(w, LaneOf[t])
    BY <1>1 DEF LaneInv, MergeFits, Taking
  <2>4. ~Quiet(t)
    BY <1>1 DEF Quiet
  <2> QED
    BY <1>1, <2>1, <2>2, <2>3, <2>4 DEF LaneIsIn
<1>2. LaneInv => MergedRowIsInOrch
  BY <1>1 DEF MergedRowIsInOrch
<1> QED
  BY <1>2, LanesFit, PTL

(* A wave whose row says succeeded is over: no task of it is pending,        *)
(* running or failed again (assessWaveMergeEligibility, executeResumeWave).  *)
THEOREM MergedWavesAreOver == Spec => []MergedIsOver
<1>1. LaneInv => MergedIsOver
  BY DEF LaneInv, RowsFit, Recorded, Over, Quiet, Terminal, MergedIsOver
<1> QED
  BY <1>1, LanesFit, PTL

(* Only the start of its worker makes a pending task a running one.          *)
LEMMA OnlyBeginRuns ==
  ASSUME LaneInv, [Next]_vars, NEW t \in Task, task[t] = "pending", task'[t] = "running"
  PROVE  \E l \in Lane : Begin(l) /\ Current(l).task = t
<1>1. TypeOK
  BY DEF LaneInv
<1>2. task' # task
  OBVIOUS
<1>3. CASE EngineStep
  BY <1>2, <1>3 DEF EngineStep, AdoptPause, StartTick, StopAfterTick, NextTick,
     PassMergedWave, StartResumedWave, StopAfterResumedWave, AlreadyMerged, MergeBlocked,
     NeedsReplan, StartMerge, MergeLane, MergeLaneFails, MergeDone, Finalize, Outside
<1>4. CASE Kill \/ Exception
  <2>1. Stopped
    BY <1>1, <1>4, StopsLeave
  <2> QED
    BY <2>1 DEF Stopped
<1>5. ASSUME NEW u \in Task, Commanded(u)
      PROVE  FALSE
  <2>1. PICK H \in SUBSET Task : \A v \in Task : Treated(v, H)
    BY <1>1, <1>5, CommandTreats
  <2> QED
    BY <2>1 DEF Treated
<1>6. CASE Operator
  <2>1. \/ task' = task \/ Reconcile \/ \E u \in Task : Commanded(u)
    BY <1>6 DEF Operator, Pause, Abort, Resume, forceMergeWave, Commanded
  <2>2. Reconcile => \E u \in Task : Commanded(u)
    BY DEF Reconcile, Commanded
  <2> QED
    BY <1>2, <1>5, <2>1, <2>2
<1>7. ASSUME NEW l \in Lane, LaneStep(l)
      PROVE  Begin(l) /\ Current(l).task = t
  <2>1. queue[l] # <<>> /\ LaneFrame(l, Current(l).task)
    BY <1>7, LaneMoves
  <2>2. Current(l).task = t
    BY <2>1 DEF LaneFrame
  <2>3. DOMAIN task = Task
    BY <1>1 DEF TypeOK
  <2> QED
    BY <1>7, <2>2, <2>3 DEF LaneStep, SkipDoneOnDisk, CannotBegin, MarkComplete,
       WorkerSucceeds, WorkerFails, WorkerAborted, ReviewPasses, ReviewFails, Commit,
       CommitFails, Succeed, FailTask, SetTask, Failed
<1> QED
  BY <1>2, <1>3, <1>4, <1>6, <1>7 DEF Next, vars

(* A fresh engine starts a worker only in a lane that has the merged work of *)
(* every dependency in shared files (ensureLaneSyncedForSharedScopeDeps):    *)
(* the waves behind it are all recorded as merged, so that the orch branch,  *)
(* which the lane takes in, holds what succeeded there.                      *)
THEOREM StartsAreOnMergedWork == Spec => StartsOnMergedWork
<1>1. ASSUME LaneInv, [Next]_vars, NEW t \in Task, task[t] = "pending",
             task'[t] = "running", ~resumed, NEW d \in SharedDeps[t], task[d] = "succeeded"
      PROVE  d \in branch'[LaneOf[t]]
  <2>1. PICK l \in Lane : Begin(l) /\ Current(l).task = t
    BY <1>1, OnlyBeginRuns
  <2>2. stage = "lanes" /\ queue[l] # <<>>
    BY <2>1 DEF Begin, Busy
  <2>3. Fresh /\ wave \in Wave /\ DOMAIN branch = Lane
    BY <1>1, <2>2 DEF Fresh, LaneInv, TypeOK
  <2>4. t \in TasksOf(wave, l) /\ LaneOf[t] = l
    BY <1>1, <2>1, <2>2, QueuedOnce
  <2>5. t \in WaveTasks(wave) /\ d \in Task
    BY <2>3, <2>4, InLane, DepsAssumption
  <2>6. PICK v \in Wave : d \in WaveTasks(v)
    BY <2>5, TaskHasWave
  <2>7. v < wave
    BY <2>3, <2>5, <2>6, DepsAssumption
  <2>8. d \in orch
    <3>1. /\ v \notin forced /\ row[v] = "succeeded" /\ left[v] = {}
          /\ ~(stage = "merge" /\ v = wave)
      BY <1>1, <2>2, <2>3, <2>6, <2>7 DEF LaneInv, FreshFits
    <3>2. LaneOf[d] \in Lane /\ d \in TasksOf(v, LaneOf[d])
      BY <2>6, HasLane
    <3>3. LaneIsIn(v, LaneOf[d])
      BY <1>1, <3>1, <3>2 DEF LaneInv, RowsFit, Recorded
    <3> QED
      BY <1>1, <3>1, <3>2, <3>3 DEF LaneIsIn, Taking, Quiet
  <2>9. branch'[l] = branch[l] \cup orch
    BY <1>1, <2>1, <2>3 DEF Begin, Synced
  <2> QED
    BY <2>4, <2>8, <2>9
<1>2. LaneInv /\ [Next]_vars =>
        [\A t \in Task : task[t] = "pending" /\ task'[t] = "running" /\ ~resumed
           => \A d \in SharedDeps[t] :
                task[d] = "succeeded" /\ d \notin hostDone => d \in branch'[LaneOf[t]]]_vars
  BY <1>1
<1> QED
  BY <1>2, LanesFit, PTL DEF Spec, StartsOnMergedWork
=============================================================================
