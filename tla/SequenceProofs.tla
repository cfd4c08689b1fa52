--------------------------- MODULE SequenceProofs ---------------------------
(* What `spine run sequence` guarantees for any tasks, dependencies, command *)
(* lines and number of commands: proofs about Sequence.                      *)
EXTENDS Sequence, TLAPS, FiniteSetTheorems, WellFoundedInduction

Covered == landed \cup waived

(* A batch that is completed has nothing left but what succeeded or was      *)
(* skipped; the one the supervisor waits for or lands is of its wave.        *)
CompletedIsWhole ==
  phase = "completed" => \A t \in DOMAIN tasks : tasks[t] \in {"succeeded", "skipped"}
BatchIsOfWave ==
  pc \in {"wait", "land", "complete"} /\ phase # "none" => DOMAIN tasks = runnable

EngineHasBatch == engine => phase # "none"

(* While the supervisor lands a batch, nobody works on it, and nobody puts   *)
(* another one in its place; once it is integrated its work is on base.      *)
LandingIsQuiet ==
  pc \in {"land", "complete"} => phase \in {"completed", "none"} /\ ~engine
IntegratedIsLanded ==
  pc = "complete" /\ phase = "completed" =>
    \A t \in DOMAIN tasks : tasks[t] = "succeeded" => t \in landed

(* What is about to be recorded, and what is in memory, has landed. *)
RecordingIsLanded ==
  /\ pc = "record" => runnable \subseteq Covered
  /\ \A c \in completed : c.tasks \subseteq Covered

LandInv ==
  /\ CompletedIsWhole /\ BatchIsOfWave /\ EngineHasBatch
  /\ LandingIsQuiet /\ IntegratedIsLanded
  /\ RecordingIsLanded /\ RecordedIsLanded

(* What leaves the batch and the base branch alone, and the supervisor out   *)
(* of the landing, keeps what landing is about.                              *)
Quiet ==
  /\ phase' = phase /\ tasks' = tasks /\ engine' = engine
  /\ landed' = landed /\ waived' = waived
  /\ pc' \in {"idle", "begin", "wave", "start"}
  /\ \/ completed' \in {completed, {}}
     \/ file # NoFile /\ completed' = file.completed
  /\ file' = file \/ file' = NoFile \/ file'.completed = completed

LEMMA QuietStep == LandInv /\ Quiet => LandInv'
  BY DEF Quiet, LandInv, CompletedIsWhole, BatchIsOfWave, EngineHasBatch,
     LandingIsQuiet, IntegratedIsLanded, RecordingIsLanded, RecordedIsLanded,
     Covered

(* A failure keeps it, too, whatever became of the batch. *)
LEMMA FailStep ==
  ASSUME LandInv, Fail, CompletedIsWhole', EngineHasBatch'
  PROVE  LandInv'
<1>1. /\ UNCHANGED BaseVars /\ completed' = completed
      /\ pc' \in {"idle", "wave"}
      /\ file' = file \/ file' = Saved(completed)
  BY DEF Fail
<1>2. file' = file \/ file'.completed = completed
  BY <1>1 DEF Saved
<1> QED
  BY <1>1, <1>2 DEF LandInv, CompletedIsWhole, BatchIsOfWave, EngineHasBatch,
     LandingIsQuiet, IntegratedIsLanded, RecordingIsLanded, RecordedIsLanded,
     Covered, BaseVars

LEMMA LandInit == Init => LandInv
  BY DEF Init, LandInv, CompletedIsWhole, BatchIsOfWave, EngineHasBatch,
     LandingIsQuiet, IntegratedIsLanded, RecordingIsLanded, RecordedIsLanded,
     Covered, NoTasks

(* The supervisor keeps it: a wave is recorded after its batch has landed.   *)
LEMMA LandSupervisor ==
  ASSUME LandInv, Supervisor
  PROVE  LandInv'
<1> USE DEF LandInv
<1>1. CASE \E o \in Options : Invoke(o)
  <2>1. PICK o \in Options : Invoke(o)  BY <1>1
  <2>2. completed' = {} \/ (file # NoFile /\ completed' = file.completed)
    BY <2>1 DEF Invoke, MayResume
  <2>3. Quiet  BY <2>1, <2>2 DEF Invoke, Quiet, BatchVars, BaseVars
  <2> QED  BY <2>3, QuietStep
<1>2. CASE Begin
  <2>1. Quiet  BY <1>2 DEF Begin, Saved, Quiet, BatchVars, BaseVars
  <2> QED  BY <2>1, QuietStep
<1>3. CASE PreflightFails
  <2>1. Quiet  BY <1>3 DEF PreflightFails, Quiet, BatchVars, BaseVars
  <2> QED  BY <2>1, QuietStep
<1>4. CASE PlanWave
  <2>1. Quiet  BY <1>4 DEF PlanWave, Quiet, BatchVars, BaseVars
  <2> QED  BY <2>1, QuietStep
<1>5. CASE StartWave
  BY <1>5 DEF StartWave, NewBatch, CompletedIsWhole, BatchIsOfWave, EngineHasBatch,
     LandingIsQuiet, IntegratedIsLanded, RecordingIsLanded, RecordedIsLanded,
     Covered, BaseVars
<1>6. CASE StartThrows
  <2>1. Quiet  BY <1>6 DEF StartThrows, Quiet, BatchVars, BaseVars
  <2> QED  BY <2>1, QuietStep
<1>7. CASE StartFails
  <2>1. CompletedIsWhole' /\ EngineHasBatch'
    BY <1>7 DEF StartFails, NewBatch, CompletedIsWhole, EngineHasBatch, BatchVars
  <2> QED  BY <1>7, <2>1, FailStep DEF StartFails
<1>8. CASE Absorb
  <2>1. Quiet  BY <1>8 DEF Absorb, Quiet, BatchVars, BaseVars
  <2> QED  BY <2>1, QuietStep
<1>9. CASE Wait
  BY <1>9 DEF Wait, Settled, CompletedIsWhole, BatchIsOfWave, EngineHasBatch,
     LandingIsQuiet, IntegratedIsLanded, RecordingIsLanded, RecordedIsLanded,
     Covered, BatchVars, BaseVars
<1>10. CASE GiveUp
  BY <1>10, FailStep DEF GiveUp, CompletedIsWhole, EngineHasBatch, BatchVars
<1>11. CASE Integrate
  BY <1>11 DEF Integrate, Settled, In, CompletedIsWhole, BatchIsOfWave,
     EngineHasBatch, LandingIsQuiet, IntegratedIsLanded, RecordingIsLanded,
     RecordedIsLanded, Covered, BatchVars
<1>12. CASE CompleteBatch
  <2>1. runnable' \subseteq Covered'
    <3>1. DOMAIN tasks = runnable /\ phase = "completed"
      BY <1>12 DEF CompleteBatch, Settled, BatchIsOfWave
    <3>2. \A t \in runnable : t \in landed \/ t \in In({"skipped"})
      BY <1>12, <3>1 DEF CompleteBatch, CompletedIsWhole, IntegratedIsLanded, In
    <3> QED  BY <1>12, <3>2 DEF CompleteBatch, Archive, Covered
  <2>2. pc' = "record" /\ phase' = "none" /\ ~engine' /\ Covered \subseteq Covered'
        /\ UNCHANGED <<completed, file>>
    BY <1>12 DEF CompleteBatch, Archive, Covered
  <2> QED
    BY <2>1, <2>2 DEF CompletedIsWhole, BatchIsOfWave, EngineHasBatch, LandingIsQuiet,
       IntegratedIsLanded, RecordingIsLanded, RecordedIsLanded, Covered
<1>13. CASE LandFails
  BY <1>13, FailStep DEF LandFails, CompletedIsWhole, EngineHasBatch, BatchVars
<1>14. CASE RecordWave
  <2>1. \A c \in Recorded : c.tasks \subseteq Covered
    BY <1>14 DEF RecordWave, Recorded, RecordingIsLanded
  <2>2. file'.completed = Recorded /\ completed' = Recorded /\ pc' = "wave"
        /\ UNCHANGED <<BaseVars, BatchVars>>
    BY <1>14 DEF RecordWave, Saved
  <2> QED
    BY <2>1, <2>2 DEF CompletedIsWhole, BatchIsOfWave, EngineHasBatch, LandingIsQuiet,
       IntegratedIsLanded, RecordingIsLanded, RecordedIsLanded, Covered, BatchVars,
       BaseVars
<1>15. CASE Finish
  <2>1. Quiet  BY <1>15 DEF Finish, Saved, Quiet, BatchVars, BaseVars
  <2> QED  BY <2>1, QuietStep
<1> QED
  BY <1>1, <1>2, <1>3, <1>4, <1>5, <1>6, <1>7, <1>8, <1>9, <1>10, <1>11, <1>12,
     <1>13, <1>14, <1>15 DEF Supervisor

(* So do the kill, the engine, the operator and a step of nobody. *)
LEMMA LandEnvironment ==
  ASSUME LandInv, Kill \/ EngineEnds \/ Recover \/ LandByHand \/ Dismiss \/ UNCHANGED vars
  PROVE  LandInv'
<1> USE DEF LandInv, Outside
<1>1. CASE Kill
  BY <1>1 DEF Kill, CompletedIsWhole, BatchIsOfWave, EngineHasBatch, LandingIsQuiet,
     IntegratedIsLanded, RecordingIsLanded, RecordedIsLanded, Covered, BaseVars
<1>2. CASE EngineEnds
  <2>1. CompletedIsWhole'
    BY <1>2 DEF EngineEnds, CompletedIsWhole
  <2>2. DOMAIN tasks' = DOMAIN tasks /\ phase # "none"
    BY <1>2 DEF EngineEnds, EngineHasBatch
  <2>3. pc \notin {"land", "complete"}
    BY <1>2 DEF EngineEnds, LandingIsQuiet
  <2> QED
    BY <1>2, <2>1, <2>2, <2>3 DEF EngineEnds, BatchIsOfWave, EngineHasBatch,
       LandingIsQuiet, IntegratedIsLanded, RecordingIsLanded, RecordedIsLanded,
       Covered, BaseVars
<1>3. CASE Recover
  <2>1. PICK again \in [DOMAIN tasks -> {"succeeded", "skipped"}] :
          tasks' = [t \in DOMAIN tasks |->
                      IF tasks[t] \in {"succeeded", "skipped"} THEN tasks[t] ELSE again[t]]
    BY <1>3 DEF Recover
  <2>2. DOMAIN tasks' = DOMAIN tasks /\ CompletedIsWhole'
    BY <2>1 DEF CompletedIsWhole
  <2>3. pc \notin {"land", "complete"}
    BY <1>3 DEF Recover, LandingIsQuiet
  <2> QED
    BY <1>3, <2>2, <2>3 DEF Recover, BatchIsOfWave, EngineHasBatch, LandingIsQuiet,
       IntegratedIsLanded, RecordingIsLanded, RecordedIsLanded, Covered, BaseVars
<1>4. CASE LandByHand
  <2>1. phase' = "none" /\ ~engine'
    BY <1>4 DEF LandByHand, Archive
  <2>2. Covered \subseteq Covered'
    BY <1>4 DEF LandByHand, Archive, Covered
  <2>3. pc' = pc /\ completed' = completed /\ file' = file /\ runnable' = runnable
    BY <1>4 DEF LandByHand
  <2> QED
    BY <2>1, <2>2, <2>3 DEF CompletedIsWhole, BatchIsOfWave, EngineHasBatch,
       LandingIsQuiet, IntegratedIsLanded, RecordingIsLanded, RecordedIsLanded,
       Covered
<1>5. CASE Dismiss
  BY <1>5 DEF Dismiss, CompletedIsWhole, BatchIsOfWave, EngineHasBatch,
     LandingIsQuiet, IntegratedIsLanded, RecordingIsLanded, RecordedIsLanded,
     Covered, BaseVars
<1>6. CASE UNCHANGED vars
  BY <1>6 DEF vars, CompletedIsWhole, BatchIsOfWave, EngineHasBatch, LandingIsQuiet,
     IntegratedIsLanded, RecordingIsLanded, RecordedIsLanded, Covered
<1> QED
  BY <1>1, <1>2, <1>3, <1>4, <1>5, <1>6

(* A wave that the sequence state counts as done has landed (RecordWave      *)
(* comes after Integrate and CompleteBatch of the batch of that wave).       *)
THEOREM RecordedLanded == Spec => []RecordedIsLanded
<1>1. Init => LandInv
  BY LandInit
<1>2. LandInv /\ [Next]_vars => LandInv'
  BY LandSupervisor, LandEnvironment DEF Next
<1>3. LandInv => RecordedIsLanded
  BY DEF LandInv
<1> QED
  BY <1>1, <1>2, <1>3, PTL DEF Spec

---------------------------------------------------------------------------
(* Dependencies first.                                                       *)

Base == landed \cup waived \cup credited

(* Whatever the supervisor counts as satisfied, now or when it makes the set *)
(* anew, is on base, skipped or credited.                                    *)
SatisfiedIsBased ==
  satisfied \subseteq Base /\ doneOnMain \subseteq Base /\ outcomes \subseteq Base

(* It starts tasks with satisfied dependencies only. *)
StartIsReady == pc = "start" => \A t \in runnable : deps[t] \subseteq Base

DepsInv == LandInv /\ SatisfiedIsBased /\ StartIsReady /\ DepsFirst

LEMMA DepsInit == Init => DepsInv
  BY LandInit DEF Init, DepsInv, SatisfiedIsBased, StartIsReady, DepsFirst, NoTasks

(* Nothing leaves the base, and the dependencies stay. *)
LEMMA BaseGrows ==
  ASSUME Next \/ UNCHANGED vars
  PROVE  Base \subseteq Base' /\ deps' = deps
<1> USE DEF Base, BaseVars, History, PlanVars, Outside
<1>1. CASE Supervisor
  BY <1>1 DEF Supervisor, Invoke, Begin, PreflightFails, PlanWave, StartWave,
     StartThrows, StartFails, Fail, Absorb, Wait, GiveUp, Integrate, CompleteBatch,
     Archive, LandFails, RecordWave, Finish
<1>2. CASE Kill \/ EngineEnds \/ Recover \/ LandByHand \/ Dismiss
  BY <1>2 DEF Kill, EngineEnds, Recover, LandByHand, Archive, Dismiss
<1>3. CASE UNCHANGED vars
  BY <1>3 DEF vars
<1> QED
  BY <1>1, <1>2, <1>3 DEF Next

(* The sets of satisfied tasks grow by what is on base, by what a blocked    *)
(* wave is credited with at the same time, or by a recorded wave.            *)
LEMMA SatisfiedStep ==
  ASSUME DepsInv, Next \/ UNCHANGED vars
  PROVE  SatisfiedIsBased'
<1>1. Base \subseteq Base'
  BY BaseGrows
<1> USE DEF SatisfiedIsBased, CreditVars, Outside
<1>2. CASE UNCHANGED CreditVars
  BY <1>1, <1>2 DEF DepsInv
<1>3. CASE \E o \in Options : Invoke(o)
  BY <1>3 DEF Invoke
<1>4. CASE Begin
  BY <1>1, <1>4 DEF Begin, DepsInv, Base
<1>5. CASE Absorb
  BY <1>1, <1>5 DEF Absorb, DepsInv, Base
<1>6. CASE RecordWave
  BY <1>1, <1>6 DEF RecordWave, DepsInv, LandInv, RecordingIsLanded, Covered, Base
<1>7. CASE PreflightFails \/ PlanWave \/ StartWave \/ StartThrows \/ StartFails \/ Wait
           \/ GiveUp \/ Integrate \/ CompleteBatch \/ LandFails \/ Finish
  BY <1>2, <1>7 DEF PreflightFails, PlanWave, StartWave, StartThrows, StartFails,
     Fail, Wait, GiveUp, Integrate, CompleteBatch, LandFails, Finish
<1>8. CASE Kill \/ EngineEnds \/ Recover \/ LandByHand \/ Dismiss \/ UNCHANGED vars
  BY <1>2, <1>8 DEF Kill, EngineEnds, Recover, LandByHand, Dismiss, vars
<1> QED
  BY <1>3, <1>4, <1>5, <1>6, <1>7, <1>8 DEF Next, Supervisor

(* The tasks it starts next were checked against those sets (PlanWave). *)
LEMMA StartStep ==
  ASSUME DepsInv, Next \/ UNCHANGED vars
  PROVE  StartIsReady'
<1>1. Base \subseteq Base' /\ deps' = deps
  BY BaseGrows
<1> USE DEF StartIsReady, Outside
<1>2. CASE PlanWave
  <2>1. \A t \in Runnable(plan[next]) : deps[t] \subseteq Base
    BY DEF DepsInv, SatisfiedIsBased, Runnable
  <2> QED
    BY <1>1, <1>2, <2>1 DEF PlanWave
<1>3. CASE pc' # "start" \/ (pc' = pc /\ runnable' = runnable)
  BY <1>1, <1>3 DEF DepsInv
<1>4. CASE \E o \in Options : Invoke(o)
  BY <1>4 DEF Invoke
<1>5. CASE Begin \/ PreflightFails \/ StartWave \/ StartThrows \/ StartFails \/ Absorb \/ Wait
           \/ GiveUp \/ Integrate \/ CompleteBatch \/ LandFails \/ RecordWave \/ Finish
  BY <1>3, <1>5 DEF Begin, PreflightFails, StartWave, StartThrows, StartFails, Fail,
     Absorb, Wait, GiveUp, Integrate, CompleteBatch, LandFails, RecordWave, Finish
<1>6. CASE Kill \/ EngineEnds \/ Recover \/ LandByHand \/ Dismiss \/ UNCHANGED vars
  BY <1>3, <1>6 DEF Kill, EngineEnds, Recover, LandByHand, Dismiss, vars
<1> QED
  BY <1>2, <1>4, <1>5, <1>6 DEF Next, Supervisor

(* A batch gets its tasks when it is started, and from nowhere else. *)
LEMMA TasksStep ==
  ASSUME DepsInv, Next \/ UNCHANGED vars
  PROVE  DepsFirst'
<1>1. Base \subseteq Base' /\ deps' = deps
  BY BaseGrows
<1>2. CASE DOMAIN tasks' \subseteq DOMAIN tasks
  BY <1>1, <1>2 DEF DepsInv, DepsFirst, Base
<1>3. CASE pc = "start" /\ DOMAIN tasks' = runnable
  BY <1>1, <1>3 DEF DepsInv, DepsFirst, StartIsReady, Base
<1> USE DEF BatchVars, Outside
<1>4. CASE StartWave \/ StartFails
  BY <1>2, <1>3, <1>4 DEF StartWave, StartFails, NewBatch, NoTasks
<1>5. CASE \E o \in Options : Invoke(o)
  BY <1>2, <1>5 DEF Invoke
<1>6. CASE Begin \/ PreflightFails \/ PlanWave \/ StartThrows \/ Absorb \/ Wait \/ GiveUp
           \/ Integrate \/ LandFails \/ RecordWave \/ Finish
  BY <1>2, <1>6 DEF Begin, PreflightFails, PlanWave, StartThrows, Absorb, Wait, GiveUp,
     Integrate, LandFails, RecordWave, Finish
<1>7. CASE CompleteBatch \/ LandByHand \/ Dismiss
  BY <1>2, <1>7 DEF CompleteBatch, LandByHand, Archive, Dismiss, NoTasks
<1>8. CASE EngineEnds \/ Recover
  BY <1>2, <1>8 DEF EngineEnds, Recover
<1>9. CASE Kill \/ UNCHANGED vars
  BY <1>2, <1>9 DEF Kill, vars
<1> QED
  BY <1>4, <1>5, <1>6, <1>7, <1>8, <1>9 DEF Next, Supervisor

(* No task is started before each of its dependencies is on the base branch, *)
(* was skipped, or is one a merge-blocked wave was credited with             *)
(* (evaluateWaveTaskDependencies, absorbMergeBlockedWave).                   *)
THEOREM DependenciesFirst == Spec => []DepsFirst
<1>1. Init => DepsInv
  BY DepsInit
<1>2. DepsInv /\ [Next]_vars => DepsInv'
  <2>1. DepsInv /\ [Next]_vars => LandInv'
    BY LandSupervisor, LandEnvironment DEF DepsInv, Next
  <2> QED
    BY <2>1, SatisfiedStep, StartStep, TasksStep DEF DepsInv
<1>3. DepsInv => DepsFirst
  BY DEF DepsInv
<1> QED
  BY <1>1, <1>2, <1>3, PTL DEF Spec
-----------------------------------------------------------------------------
(* What the exit of `spine run sequence` with "ok" says.  A resumed command  *)
(* goes on from the waves the file counts, and the proof is that those, and  *)
(* the waves it went past, are accounted for.                                *)

(* A set of numbers below a bound has a greatest one. *)
LEMMA Greatest ==
  ASSUME NEW S \in SUBSET Nat, S # {}, NEW b \in Nat, \A s \in S : s < b
  PROVE  \E m \in S : \A s \in S : s <= m
<1> DEFINE T == {n \in Nat : \E s \in S : n + s = b}
<1>1. \A s \in S : s \in Nat /\ b - s \in Nat /\ (b - s) + s = b
  OBVIOUS
<1>2. PICK x \in T : \A y \in T : <<y, x>> \notin OpToRel(<, Nat)
  <2>1. PICK s \in S : TRUE
    OBVIOUS
  <2>2. b - s \in T
    BY <1>1
  <2>3. T # {} /\ T \subseteq Nat
    BY <2>2, Zenon
  <2> HIDE DEF T
  <2> QED
    BY <2>3, WFMin, NatLessThanWellFounded, Zenon
<1>3. x \in Nat /\ (\E s \in S : x + s = b) /\ \A y \in T : ~(y < x)
  BY <1>2, Zenon DEF OpToRel
<1>4. PICK m \in S : x + m = b
  BY <1>3
<1>5. ASSUME NEW s \in S
      PROVE  s <= m
  <2>1. b - s \in T
    BY <1>1, <1>5
  <2>2. ~(b - s < x) /\ x \in Nat
    BY <1>3, <2>1
  <2> QED
    BY <2>2, <1>4, SMT
<1> QED
  BY <1>5

(* The wave a resume begins with.                                            *)

(* A sequence state as it is saved: its waves are numbers, none before the   *)
(* first, and they end somewhere.                                            *)
KeptBelow(f, b) ==
  \A c \in f.completed : c.wave \in Nat /\ f.from <= c.wave /\ c.wave < b
WellKept(f) == f.from \in Nat /\ \E b \in Nat : KeptBelow(f, b)

(* resolveResumeFromWave returns the first wave after all that are counted.  *)
LEMMA ResumeFromIsNext ==
  ASSUME NEW f, WellKept(f)
  PROVE  /\ ResumeFrom(f) \in Nat /\ f.from <= ResumeFrom(f)
         /\ KeptBelow(f, ResumeFrom(f))
         /\ \A b \in Nat : f.from <= b /\ KeptBelow(f, b) => ResumeFrom(f) <= b
<1>1. CASE f.completed = {}
  BY <1>1 DEF ResumeFrom, WellKept, KeptBelow
<1>2. CASE f.completed # {}
  <2> DEFINE S == {c.wave : c \in f.completed}
  <2>1. PICK b \in Nat : KeptBelow(f, b)
    BY DEF WellKept
  <2>2. S \in SUBSET Nat /\ S # {} /\ \A s \in S : s < b
    BY <1>2, <2>1 DEF KeptBelow
  <2>3. \E m \in S : \A s \in S : s <= m
    BY <2>2, Greatest
  <2>4. \E m \in S : \A c \in f.completed : c.wave <= m
    BY <2>3
  <2> DEFINE max == CHOOSE w \in S : \A c \in f.completed : c.wave <= w
  <2>5. max \in S /\ \A c \in f.completed : c.wave <= max
    BY <2>4
  <2>6. ResumeFrom(f) = max + 1
    BY <1>2 DEF ResumeFrom
  <2> HIDE DEF max
  <2>7. PICK d \in f.completed : d.wave = max
    BY <2>5
  <2> QED
    BY <2>1, <2>5, <2>6, <2>7 DEF KeptBelow, WellKept
<1> QED
  BY <1>1, <1>2

---------------------------------------------------------------------------
(* The invariant.                                                            *)

Gone == landed \cup waived \cup left
Plain == ~(opts.resume /\ opts.scope = PendingScope)
Started == {"start", "wait", "land", "complete", "record"}

(* While a command runs it has no result yet, its waves are in range and the *)
(* ones it counts lie behind it.                                             *)
Supervised ==
  pc # "idle" =>
    /\ result = "none" /\ opts \in Option
    /\ from \in Nat /\ next \in Nat /\ from <= next /\ LastPlanned \in Nat
    /\ KeptBelow(Saved(completed), next)
    /\ opts.scope # PendingScope => plan = Waves(deps, opts.scope)

(* A fresh command begins with the first wave and counts none. *)
Fresh == pc = "begin" /\ ~opts.resume => next = from /\ completed = {}

(* Each wave behind it has landed or was passed over, and of the wave it     *)
(* works on what it did not start.                                           *)
PassedIsGone ==
  pc # "idle" /\ Plain => \A w \in from..(next - 1) : plan[w] \subseteq Gone
StartedIsPlanned == pc \in Started => plan[next] \ runnable \subseteq left

(* The same of the waves that a resume will not look at again. *)
FileKept == file # NoFile => WellKept(file)
FileCovered ==
  file # NoFile /\ file.scope # PendingScope =>
    \A w \in file.from..(ResumeFrom(file) - 1) :
      Waves(deps, file.scope)[w] \subseteq Gone

OkInv ==
  /\ LandInv /\ Supervised /\ Fresh /\ PassedIsGone /\ StartedIsPlanned
  /\ FileKept /\ FileCovered /\ OkMeansLanded

LEMMA OkInit == Init => OkInv
  BY LandInit DEF Init, OkInv, Supervised, Fresh, PassedIsGone, StartedIsPlanned,
     Started, FileKept, FileCovered, OkMeansLanded

(* What the supervisor saves can be resumed from. *)
LEMMA SavedIsKept ==
  ASSUME OkInv, pc # "idle"
  PROVE  /\ WellKept(Saved(completed))
         /\ opts.scope # PendingScope =>
              \A w \in from..(ResumeFrom(Saved(completed)) - 1) :
                Waves(deps, opts.scope)[w] \subseteq Gone
<1>1. from \in Nat /\ next \in Nat /\ from <= next /\ KeptBelow(Saved(completed), next)
  BY DEF OkInv, Supervised
<1>2. Saved(completed).from = from
  BY DEF Saved
<1>3. WellKept(Saved(completed))
  BY <1>1, <1>2 DEF WellKept
<1>4. ResumeFrom(Saved(completed)) \in Nat /\ ResumeFrom(Saved(completed)) <= next
  BY <1>1, <1>2, <1>3, ResumeFromIsNext
<1>5. ASSUME opts.scope # PendingScope,
             NEW w \in from..(ResumeFrom(Saved(completed)) - 1)
      PROVE  Waves(deps, opts.scope)[w] \subseteq Gone
  <2>1. w \in from..(next - 1)
    BY <1>1, <1>4, <1>5
  <2>2. plan = Waves(deps, opts.scope) /\ Plain
    BY <1>5 DEF OkInv, Supervised, Plain
  <2> QED
    BY <2>1, <2>2 DEF OkInv, PassedIsGone
<1> QED
  BY <1>3, <1>5

---------------------------------------------------------------------------
(* The steps.                                                                *)

(* A step that leaves the command, its plan and the file alone, and that     *)
(* ends the command, if it does, with anything but "ok".                     *)
Steady ==
  /\ deps' = deps /\ opts' = opts /\ plan' = plan /\ from' = from /\ next' = next
  /\ completed' = completed /\ file' = file /\ runnable' = runnable
  /\ Gone \subseteq Gone' /\ left' = left
  /\ \/ pc' = "idle" /\ result' # "ok"
     \/ result' = result /\ (pc' = pc \/ (pc \in Started /\ pc' \in Started))

(* It keeps what the exit is about. *)
LEMMA SteadyStep ==
  ASSUME OkInv, Steady, LandInv'
  PROVE  OkInv'
<1>1. Saved(completed)' = Saved(completed) /\ LastPlanned' = LastPlanned
  BY DEF Steady, Saved, LastPlanned
<1>2. Supervised' /\ Fresh'
  BY <1>1 DEF OkInv, Steady, Supervised, Fresh, Started
<1>3. PassedIsGone' /\ StartedIsPlanned'
  BY DEF OkInv, Steady, PassedIsGone, StartedIsPlanned, Started, Plain
<1>4. FileKept' /\ FileCovered'
  BY DEF OkInv, Steady, FileKept, FileCovered
<1>5. OkMeansLanded'
  <2>1. SUFFICES ASSUME result' = "ok", ~(opts.resume /\ opts.scope = PendingScope)
                 PROVE  Promised' \subseteq landed' \cup waived' \cup left'
    BY DEF OkMeansLanded, Steady
  <2>2. Promised' = Promised
    BY <1>1 DEF Promised, Steady
  <2>3. result = "ok"
    BY <2>1 DEF Steady
  <2> QED
    BY <2>1, <2>2, <2>3 DEF OkInv, OkMeansLanded, Steady, Gone
<1> QED
  BY <1>2, <1>3, <1>4, <1>5 DEF OkInv

(* A step to the next wave that leaves this one behind. *)
PassOver ==
  /\ pc \notin {"idle", "begin"} /\ pc' = "wave" /\ next' = next + 1
  /\ deps' = deps /\ opts' = opts /\ plan' = plan /\ from' = from
  /\ completed' = completed /\ file' = file /\ result' = result
  /\ Gone \subseteq Gone' /\ plan[next] \subseteq Gone'

(* It adds one wave to those behind, which is gone. *)
LEMMA PassedGrows ==
  ASSUME OkInv, pc \notin {"idle", "begin"}, next' = next + 1,
         opts' = opts, plan' = plan, from' = from,
         Gone \subseteq Gone', plan[next] \subseteq Gone'
  PROVE  PassedIsGone'
<1>1. SUFFICES ASSUME Plain, NEW w \in from..next
               PROVE  plan[w] \subseteq Gone'
  BY DEF PassedIsGone, Plain, OkInv, Supervised
<1>2. from \in Nat /\ next \in Nat
  BY DEF OkInv, Supervised
<1>3. CASE w = next
  BY <1>3
<1>4. CASE w \in from..(next - 1)
  BY <1>1, <1>4 DEF OkInv, PassedIsGone
<1> QED
  BY <1>2, <1>3, <1>4

(* So it keeps what the exit is about. *)
LEMMA PassOverStep ==
  ASSUME OkInv, PassOver, LandInv'
  PROVE  OkInv'
<1>1. /\ from \in Nat /\ next \in Nat /\ from <= next
      /\ KeptBelow(Saved(completed), next) /\ result = "none"
  BY DEF OkInv, Supervised, PassOver
<1>2. Saved(completed)' = Saved(completed) /\ LastPlanned' = LastPlanned
  BY DEF PassOver, Saved, LastPlanned
<1>3. KeptBelow(Saved(completed), next + 1)
  BY <1>1 DEF KeptBelow
<1>4. Supervised' /\ Fresh'
  BY <1>1, <1>2, <1>3 DEF OkInv, PassOver, Supervised, Fresh
<1>5. PassedIsGone' /\ StartedIsPlanned'
  BY PassedGrows DEF PassOver, StartedIsPlanned, Started
<1>6. FileKept' /\ FileCovered'
  BY DEF OkInv, PassOver, FileKept, FileCovered
<1>7. OkMeansLanded'
  BY <1>1 DEF PassOver, OkMeansLanded
<1> QED
  BY <1>4, <1>5, <1>6, <1>7 DEF OkInv

(* A command that ends and saves what it counts. *)
SaveAndEnd ==
  /\ pc # "idle" /\ pc' = "idle" /\ file' = Saved(completed)
  /\ deps' = deps /\ opts' = opts /\ plan' = plan /\ from' = from /\ left' = left
  /\ Gone \subseteq Gone'

(* What it saves is covered by what is gone. *)
LEMMA SaveStep ==
  ASSUME OkInv, SaveAndEnd, LandInv', OkMeansLanded'
  PROVE  OkInv'
<1>1. WellKept(file')
  BY SavedIsKept DEF SaveAndEnd
<1>2. file'.scope = opts.scope /\ file'.from = from
  BY DEF SaveAndEnd, Saved
<1>3. FileCovered'
  BY <1>2, SavedIsKept DEF SaveAndEnd, FileCovered
<1>4. Supervised' /\ Fresh' /\ PassedIsGone' /\ StartedIsPlanned' /\ FileKept'
  BY <1>1 DEF SaveAndEnd, Supervised, Fresh, PassedIsGone, StartedIsPlanned, Started,
     FileKept
<1> QED
  BY <1>3, <1>4 DEF OkInv

(* A wave that fails is passed over, or ends the command (Fail). *)
LEMMA FailOk ==
  ASSUME OkInv, Fail, pc \notin {"idle", "begin"}, LandInv'
  PROVE  OkInv'
<1> USE DEF Fail, PlanVars, BaseVars
<1>1. CASE opts.stop
  <2>1. SaveAndEnd /\ OkMeansLanded'
    BY <1>1 DEF SaveAndEnd, Gone, OkMeansLanded
  <2> QED
    BY <2>1, SaveStep
<1>2. CASE ~opts.stop
  <2>1. PassOver
    BY <1>2 DEF PassOver, Gone
  <2> QED
    BY <2>1, PassOverStep
<1> QED
  BY <1>1, <1>2

(* A wave is planned: what is not started is passed over (PlanWave). *)
LEMMA PlanWaveOk ==
  ASSUME OkInv, PlanWave, LandInv'
  PROVE  OkInv'
<1>1. /\ deps' = deps /\ opts' = opts /\ plan' = plan /\ from' = from
      /\ completed' = completed /\ file' = file /\ result' = result
      /\ landed' = landed /\ waived' = waived /\ pc = "wave"
      /\ left' = left \cup (plan[next] \ runnable')
  BY DEF PlanWave, PlanVars, BaseVars
<1>2. CASE runnable' = {}
  <2>1. next' = next + 1 /\ pc' = "wave"
    BY <1>2 DEF PlanWave
  <2>2. PassOver
    BY <1>1, <1>2, <2>1 DEF PassOver, Gone
  <2> QED
    BY <2>2, PassOverStep
<1>3. CASE runnable' # {}
  <2>1. next' = next /\ pc' = "start"
    BY <1>3 DEF PlanWave
  <2>2. Saved(completed)' = Saved(completed) /\ LastPlanned' = LastPlanned
    BY <1>1 DEF Saved, LastPlanned
  <2>3. Supervised' /\ Fresh'
    BY <1>1, <2>1, <2>2 DEF OkInv, Supervised, Fresh
  <2>4. PassedIsGone' /\ StartedIsPlanned'
    BY <1>1, <2>1 DEF OkInv, PassedIsGone, StartedIsPlanned, Plain, Gone
  <2>5. FileKept' /\ FileCovered'
    BY <1>1 DEF OkInv, FileKept, FileCovered, Gone
  <2>6. OkMeansLanded'
    BY <1>1 DEF OkInv, Supervised, OkMeansLanded
  <2> QED
    BY <2>3, <2>4, <2>5, <2>6 DEF OkInv
<1> QED
  BY <1>2, <1>3

(* A wave is recorded: what it started has landed (RecordWave). *)
LEMMA RecordOk ==
  ASSUME OkInv, RecordWave, LandInv'
  PROVE  OkInv'
<1>1. /\ deps' = deps /\ opts' = opts /\ plan' = plan /\ from' = from
      /\ landed' = landed /\ waived' = waived /\ left' = left /\ result' = result
      /\ pc = "record" /\ pc' = "wave" /\ next' = next + 1
      /\ completed' = Recorded /\ file' = Saved(Recorded)
  BY DEF RecordWave, PlanVars, BaseVars, History
<1>2. /\ from \in Nat /\ next \in Nat /\ from <= next /\ result = "none"
      /\ KeptBelow(Saved(completed), next)
  BY <1>1 DEF OkInv, Supervised
<1>3. KeptBelow(Saved(Recorded), next + 1)
  BY <1>2 DEF KeptBelow, Saved, Recorded
<1>4. Saved(completed)' = Saved(Recorded) /\ LastPlanned' = LastPlanned
  BY <1>1 DEF Saved, LastPlanned
<1>5. Supervised' /\ Fresh'
  BY <1>1, <1>2, <1>3, <1>4 DEF OkInv, Supervised, Fresh
<1>6. plan[next] \subseteq Gone
  BY <1>1 DEF OkInv, LandInv, RecordingIsLanded, StartedIsPlanned, Started, Covered, Gone
<1>7. PassedIsGone'
  BY <1>1, <1>6, PassedGrows DEF Gone
<1>8. StartedIsPlanned'
  BY <1>1 DEF StartedIsPlanned, Started
<1>9. OkMeansLanded'
  BY <1>1, <1>2 DEF OkMeansLanded
<1>10. file'.from = from /\ file'.scope = opts.scope
  BY <1>1 DEF Saved
<1>11. WellKept(file') /\ ResumeFrom(file') \in Nat /\ ResumeFrom(file') <= next + 1
  <2>1. WellKept(file')
    BY <1>1, <1>2, <1>3, <1>10 DEF WellKept
  <2>2. KeptBelow(file', next + 1) /\ next + 1 \in Nat /\ from <= next + 1
    BY <1>1, <1>2, <1>3
  <2> QED
    BY <1>10, <2>1, <2>2, ResumeFromIsNext
<1>12. FileCovered'
  <2>1. SUFFICES ASSUME opts.scope # PendingScope,
                        NEW w \in from..(ResumeFrom(file') - 1)
                 PROVE  Waves(deps, opts.scope)[w] \subseteq Gone'
    BY <1>1, <1>10 DEF FileCovered
  <2>2. w \in from..((next + 1) - 1)
    BY <1>2, <1>11, <2>1
  <2>3. plan = Waves(deps, opts.scope) /\ Plain
    BY <1>1, <2>1 DEF OkInv, Supervised, Plain
  <2> QED
    BY <1>1, <1>7, <2>2, <2>3 DEF PassedIsGone, Plain
<1> QED
  BY <1>5, <1>7, <1>8, <1>9, <1>11, <1>12 DEF OkInv, FileKept

(* The command ends behind its last wave (Finish). *)
LEMMA FinishOk ==
  ASSUME OkInv, Finish, LandInv'
  PROVE  OkInv'
<1>1. /\ deps' = deps /\ opts' = opts /\ plan' = plan /\ from' = from
      /\ landed' = landed /\ waived' = waived /\ left' = left
      /\ pc = "wave" /\ pc' = "idle" /\ next > LastPlanned
  BY DEF Finish, PlanVars, BaseVars, History
<1>2. OkMeansLanded'
  <2>1. SUFFICES ASSUME Plain PROVE Promised' \subseteq Gone
    BY <1>1 DEF OkMeansLanded, Plain, Gone
  <2>2. from \in Nat /\ next \in Nat /\ LastPlanned \in Nat /\ LastPlanned' = LastPlanned
    BY <1>1 DEF OkInv, Supervised, LastPlanned
  <2>3. \A w \in from..LastPlanned : w \in from..(next - 1)
    BY <1>1, <2>2
  <2>4. \A w \in from..LastPlanned : plan[w] \subseteq Gone
    BY <1>1, <2>1, <2>3 DEF OkInv, PassedIsGone
  <2> QED
    BY <1>1, <2>2, <2>4 DEF Promised
<1>3. CASE AllComplete
  <2>1. file' = NoFile
    BY <1>3 DEF Finish
  <2> QED
    BY <1>1, <1>2, <2>1 DEF OkInv, Supervised, Fresh, PassedIsGone, StartedIsPlanned,
       Started, FileKept, FileCovered
<1>4. CASE ~AllComplete
  <2>1. SaveAndEnd
    BY <1>1, <1>4 DEF Finish, SaveAndEnd, Gone
  <2> QED
    BY <1>2, <2>1, SaveStep
<1> QED
  BY <1>3, <1>4

---------------------------------------------------------------------------
(* The start of a command.                                                   *)

(* The waves of a plan are numbered, by numbers. *)
LEMMA WaveNumbers ==
  ASSUME NEW g, NEW scope, IsFiniteSet(scope), NEW w \in DOMAIN Waves(g, scope)
  PROVE  w \in Nat
<1> DEFINE graph == Graph(g, scope)
           n == Cardinality(DOMAIN graph)
<1>1. DOMAIN graph = scope
  BY DEF Graph
<1>2. n \in Nat
  BY <1>1, FS_CardinalityType
<1>3. IsFiniteSet(0..n)
  BY <1>2, FS_Interval
<1> DEFINE turn[i \in 0..n] ==
             IF i = 0
             THEN [indegree |-> [t \in DOMAIN graph |-> Cardinality(graph[t])],
                   current |-> {t \in DOMAIN graph : graph[t] = {}}]
             ELSE Turn(graph, turn[i - 1])
           nonempty == {i \in 0..n : turn[i].current # {}}
<1>4. nonempty \in SUBSET (0..n)
  OBVIOUS
<1>5. Cardinality(nonempty) \in Nat
  <2> HIDE DEF nonempty
  <2> QED  BY <1>3, <1>4, FS_Subset, FS_CardinalityType
<1>6. DOMAIN Waves(g, scope) = 1..Cardinality(nonempty)
  BY DEF Waves, TopoWaves
<1> QED
  BY <1>5, <1>6

(* A command starts with the waves of its scope (Invoke).  A resume starts   *)
(* behind the waves of the file, which are covered.                          *)
LEMMA InvokeOk ==
  ASSUME OkInv, NEW o \in Options, Invoke(o), LandInv'
  PROVE  OkInv'
<1>1. o \in Option /\ opts' = o /\ pc' = "begin" /\ result' = "none"
  BY SequenceAssumption DEF Invoke
<1>2. /\ deps' = deps /\ file' = file /\ Gone' = Gone
      /\ plan' = Waves(deps, Selected(o.scope))
  BY DEF Invoke, Gone, BaseVars, History
<1>3. LastPlanned' \in Nat
  <2>1. IsFiniteSet(Selected(o.scope))
    <3>1. Selected(o.scope) \in SUBSET Task
      BY <1>1 DEF Selected, Option
    <3> QED
      BY <3>1, SequenceAssumption, FS_Subset
  <2>2. LastPlanned' \in DOMAIN plan'
    BY <1>1 DEF Invoke, InRange, LastPlanned
  <2> QED
    BY <1>2, <2>1, <2>2, WaveNumbers
<1>4. o.scope # PendingScope => plan' = Waves(deps, o.scope)
  BY <1>2 DEF Selected
<1>5. CASE ~o.resume
  <2>1. next' = o.from /\ from' = o.from /\ completed' = {} /\ o.from \in Nat
    BY <1>1, <1>5 DEF Invoke, Option
  <2>2. KeptBelow(Saved(completed)', next')
    BY <2>1 DEF KeptBelow, Saved
  <2>3. Supervised' /\ Fresh'
    BY <1>1, <1>2, <1>3, <1>4, <2>1, <2>2 DEF Supervised, Fresh
  <2>4. PassedIsGone'
    BY <2>1 DEF PassedIsGone
  <2> QED
    BY <1>1, <1>2, <2>3, <2>4 DEF OkInv, StartedIsPlanned, Started, FileKept,
       FileCovered, OkMeansLanded
<1>6. CASE o.resume
  <2>1. /\ file # NoFile /\ file.scope = o.scope
        /\ next' = ResumeFrom(file) /\ from' = file.from
        /\ completed' = file.completed
    BY <1>6 DEF Invoke, MayResume
  <2>2. /\ WellKept(file) /\ from' \in Nat /\ next' \in Nat /\ from' <= next'
        /\ KeptBelow(file, next')
    <3>1. WellKept(file)
      BY <2>1 DEF OkInv, FileKept
    <3> QED
      BY <2>1, <3>1, ResumeFromIsNext DEF WellKept
  <2>3. KeptBelow(Saved(completed)', next')
    BY <2>1, <2>2 DEF KeptBelow, Saved
  <2>4. Supervised' /\ Fresh'
    BY <1>1, <1>2, <1>3, <1>4, <1>6, <2>2, <2>3 DEF Supervised, Fresh
  <2>5. PassedIsGone'
    BY <1>1, <1>2, <1>4, <1>6, <2>1 DEF OkInv, PassedIsGone, FileCovered, Plain
  <2> QED
    BY <1>1, <1>2, <2>4, <2>5 DEF OkInv, StartedIsPlanned, Started, FileKept,
       FileCovered, OkMeansLanded
<1> QED
  BY <1>5, <1>6

(* A fresh command forgets what older ones passed over, and the file counts  *)
(* nothing yet; a resumed one writes back what it read (Begin).              *)
LEMMA BeginOk ==
  ASSUME OkInv, Begin, LandInv'
  PROVE  OkInv'
<1>1. /\ deps' = deps /\ opts' = opts /\ plan' = plan /\ from' = from /\ next' = next
      /\ landed' = landed /\ waived' = waived /\ completed' = completed
      /\ result' = result /\ pc = "begin" /\ pc' = "wave" /\ file' = Saved(completed)
      /\ left' = IF opts.resume THEN left ELSE {}
  BY DEF Begin, PlanVars, BaseVars
<1>2. Saved(completed)' = Saved(completed) /\ LastPlanned' = LastPlanned
  BY <1>1 DEF Saved, LastPlanned
<1>3. Supervised' /\ Fresh'
  BY <1>1, <1>2 DEF OkInv, Supervised, Fresh
<1>4. file'.from = from /\ file'.scope = opts.scope /\ file'.completed = completed
  BY <1>1 DEF Saved
<1>5. FileKept' /\ StartedIsPlanned' /\ OkMeansLanded'
  BY <1>1, SavedIsKept DEF OkInv, Supervised, FileKept, StartedIsPlanned, Started,
     OkMeansLanded
<1>6. CASE opts.resume
  <2>1. Gone' = Gone
    BY <1>1, <1>6 DEF Gone
  <2>2. PassedIsGone'
    BY <1>1, <2>1 DEF OkInv, PassedIsGone, Plain
  <2>3. FileCovered'
    BY <1>1, <1>4, <2>1, SavedIsKept DEF FileCovered
  <2> QED
    BY <1>3, <1>5, <2>2, <2>3 DEF OkInv
<1>7. CASE ~opts.resume
  <2>1. next = from /\ completed = {} /\ from \in Nat
    BY <1>1, <1>7 DEF OkInv, Supervised, Fresh
  <2>2. ResumeFrom(file') = from
    BY <1>4, <2>1 DEF ResumeFrom
  <2>3. PassedIsGone' /\ FileCovered'
    BY <1>1, <1>4, <2>1, <2>2 DEF PassedIsGone, FileCovered
  <2> QED
    BY <1>3, <1>5, <2>3 DEF OkInv
<1> QED
  BY <1>6, <1>7

---------------------------------------------------------------------------
(* All steps.                                                                *)

(* The steps of the supervisor that only move on, and those of the others.   *)
LEMMA SteadySteps ==
  ASSUME OkInv,
         \/ PreflightFails \/ StartWave \/ StartThrows \/ Wait \/ Integrate
         \/ CompleteBatch \/ Kill \/ EngineEnds \/ Recover \/ LandByHand \/ Dismiss
         \/ UNCHANGED vars
  PROVE  Steady
<1> USE DEF Steady, Gone, Started, PlanVars, BaseVars, History, Outside
<1>1. CASE PreflightFails \/ StartWave \/ StartThrows \/ Wait
  BY <1>1 DEF PreflightFails, StartWave, StartThrows, Wait
<1>2. CASE Integrate \/ CompleteBatch
  BY <1>2 DEF Integrate, CompleteBatch, Archive
<1>3. CASE Kill \/ EngineEnds \/ Recover \/ LandByHand \/ Dismiss
  BY <1>3 DEF Kill, EngineEnds, Recover, LandByHand, Archive, Dismiss
<1>4. CASE UNCHANGED vars
  BY <1>4 DEF vars
<1> QED
  BY <1>1, <1>2, <1>3, <1>4

(* Every step keeps the invariant. *)
LEMMA OkStep ==
  ASSUME OkInv, [Next]_vars
  PROVE  OkInv'
<1>1. LandInv'
  BY LandSupervisor, LandEnvironment DEF OkInv, Next
<1>2. CASE \E o \in Options : Invoke(o)
  BY <1>1, <1>2, InvokeOk
<1>3. CASE Begin
  BY <1>1, <1>3, BeginOk
<1>4. CASE PlanWave
  BY <1>1, <1>4, PlanWaveOk
<1>5. CASE StartFails \/ GiveUp \/ LandFails
  BY <1>1, <1>5, FailOk DEF StartFails, GiveUp, LandFails
<1>6. CASE Absorb
  <2>1. PassOver
    BY <1>6 DEF Absorb, PassOver, Gone, PlanVars, BaseVars
  <2> QED
    BY <1>1, <2>1, PassOverStep
<1>7. CASE RecordWave
  BY <1>1, <1>7, RecordOk
<1>8. CASE Finish
  BY <1>1, <1>8, FinishOk
<1>9. CASE \/ PreflightFails \/ StartWave \/ StartThrows \/ Wait \/ Integrate
           \/ CompleteBatch \/ Kill \/ EngineEnds \/ Recover \/ LandByHand \/ Dismiss
           \/ UNCHANGED vars
  BY <1>1, <1>9, SteadySteps, SteadyStep
<1> QED
  BY <1>2, <1>3, <1>4, <1>5, <1>6, <1>7, <1>8, <1>9 DEF Next, Supervisor

(* A command that ends well, resumed or not, has landed every task of the    *)
(* waves it was asked for, but for those it went past or printed as skipped  *)
(* (resolveResumeFromWave, runSequence, finalizeSequenceState).              *)
THEOREM OkLanded == Spec => []OkMeansLanded
<1>1. Init => OkInv
  BY OkInit
<1>2. OkInv /\ [Next]_vars => OkInv'
  BY OkStep
<1>3. OkInv => OkMeansLanded
  BY DEF OkInv
<1> QED
  BY <1>1, <1>2, <1>3, PTL DEF Spec
=============================================================================
