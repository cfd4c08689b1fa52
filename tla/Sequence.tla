----------------------------- MODULE Sequence -----------------------------
(* `spine run sequence`: src/src/cli/sequence.mjs,                           *)
(* src/src/batch/sequence-{run,state,waves,wait,plan}.mjs.                   *)
(*                                                                           *)
(* A supervisor plans the scope and takes its waves in turn: it drops the    *)
(* tasks whose dependencies are not satisfied, starts a batch for the rest   *)
(* in its own process or detached, waits for it, lands it on the base        *)
(* branch, and records the wave in the sequence state, from which a later    *)
(* --resume goes on.  It may be killed between any two steps; the engine of  *)
(* a detached batch lives on.  An operator recovers, lands and dismisses     *)
(* batches meanwhile.  The batch is abstract here: modules BatchState,       *)
(* LaneScheduler and IntegrateGate have its steps.  Waves count from 1.      *)
EXTENDS Planner

CONSTANTS
  Task,         \* numbers
  Graphs,       \* the dependencies that are tried: functions on Task
  Options,      \* command lines of `spine run sequence`
  PendingScope, \* the scope "pending"
  NoFile,       \* no sequence state is on disk
  MaxStarts     \* bound on the commands

Phase == {"none", "running", "merge_blocked", "failed", "completed"}
Outcome == {"open", "succeeded", "skipped", "failed"}
PC == {"idle", "begin", "wave", "start", "wait", "land", "complete", "record"}
Result == {"none", "ok", "blocked", "halted", "refused", "crashed", "killed"}

Option == [scope : (SUBSET Task) \cup {PendingScope}, from : Nat, through : Nat,
           resume : BOOLEAN, attached : BOOLEAN, stop : BOOLEAN, force : BOOLEAN]

ASSUME SequenceAssumption ==
  /\ Task \subseteq Nat /\ IsFiniteSet(Task)
  /\ Graphs \subseteq [Task -> SUBSET Task]
  /\ Options \subseteq Option /\ Options # {}
  /\ MaxStarts \in Nat

VARIABLES
  deps,        \* the dependencies in the packets and in dependencies.json
  landed,      \* tasks whose work and .DONE are on the base branch
  waived,      \* tasks skipped in a batch that was landed
  phase,       \* the phase in batch-state.json, "none" without the file
  tasks,       \* the status of each task there
  engine,      \* a process works on that batch
  file,        \* the sequence state: its scope, fromWave and completedWaves
  starts,      \* commands so far
  pc, opts,    \* the supervisor, its command line
  plan,        \* its waves
  from,        \* sequenceState.fromWave
  next,        \* the wave it looks at
  doneOnMain,  \* doneOnMainTaskIds, read when it began
  outcomes,    \* what priorMergeOutcomes credits it with
  satisfied,   \* satisfiedTaskIds
  hadBlocked,  \* sequenceHadMergeBlocked
  completed,   \* completedWaves: the wave and the tasks of its batch
  runnable,    \* the tasks of the wave that it starts
  result,      \* how the last command ended
  credited,    \* tasks a merge-blocked wave was credited with
  left         \* tasks of waves that were passed over since a fresh start

BatchVars == <<phase, tasks, engine>>
BaseVars == <<landed, waived>>
PlanVars == <<deps, opts, plan, from, starts>>
CreditVars == <<doneOnMain, outcomes, satisfied, hadBlocked>>
History == <<credited, left>>
vars == <<deps, landed, waived, phase, tasks, engine, file, starts, pc, opts, plan,
          from, next, doneOnMain, outcomes, satisfied, hadBlocked, completed, runnable,
          result, credited, left>>

NoTasks == [t \in {} |-> "open"]
In(status) == {t \in DOMAIN tasks : tasks[t] \in status}
LastPlanned == LastWave(plan, opts.through)

Init ==
  /\ deps \in Graphs /\ landed = {} /\ waived = {}
  /\ phase = "none" /\ tasks = NoTasks /\ engine = FALSE
  /\ file = NoFile /\ starts = 0
  /\ pc = "idle" /\ opts = (CHOOSE o \in Options : TRUE)
  /\ plan = <<>> /\ from = 1 /\ next = 1
  /\ doneOnMain = {} /\ outcomes = {} /\ satisfied = {} /\ hadBlocked = FALSE
  /\ completed = {} /\ runnable = {}
  /\ result = "none" /\ credited = {} /\ left = {}

---------------------------------------------------------------------------
(* The start of the command.                                                 *)

(* parseScope: "pending" leaves out what is done on the base branch. *)
Selected(scope) == IF scope = PendingScope THEN Task \ landed ELSE scope

(* Mutant: the wave after the one that is to be run. *)
ResumeFromTooFar(f) ==
  IF f.completed = {} THEN f.from + 1
  ELSE (CHOOSE w \in {c.wave : c \in f.completed} :
          \A c \in f.completed : c.wave <= w) + 2

(* resolveResumeFromWave *)
ResumeFrom(f) ==
  IF f.completed = {} THEN f.from
  ELSE (CHOOSE w \in {c.wave : c \in f.completed} :
          \A c \in f.completed : c.wave <= w) + 1

(* prepareSequenceRunState, validateSequenceStateForResume *)
MayResume(o) == file # NoFile /\ file.scope = o.scope

(* runSpineSequence, runSequence up to the preflight.  A command that is     *)
(* refused here changes nothing and is left out.                             *)
Invoke(o) ==
  /\ pc = "idle" /\ starts < MaxStarts
  /\ o.resume => MayResume(o)
  /\ ~HasCycle(Graph(deps, Selected(o.scope)))
  /\ plan' = Waves(deps, Selected(o.scope))
  /\ next' = IF o.resume THEN ResumeFrom(file) ELSE o.from
  /\ InRange(plan', next', o.through)
  /\ from' = IF o.resume THEN file.from ELSE o.from
  /\ completed' = IF o.resume THEN file.completed ELSE {}
  /\ opts' = o /\ pc' = "begin" /\ starts' = starts + 1
  /\ doneOnMain' = {} /\ outcomes' = {} /\ satisfied' = {} /\ hadBlocked' = FALSE
  /\ runnable' = {} /\ result' = "none"
  /\ UNCHANGED <<deps, BaseVars, BatchVars, file, History>>

Saved(done) == [scope |-> opts.scope, from |-> from, completed |-> done]

(* runBatchPreflight refuses over any batch, unless --skip-preflight (force  *)
(* here); persistSequenceState; the tasks that are done on main.             *)
Begin ==
  /\ pc = "begin" /\ (opts.force \/ phase = "none")
  /\ file' = Saved(completed) /\ doneOnMain' = landed /\ satisfied' = landed
  /\ pc' = "wave"
  /\ left' = IF opts.resume THEN left ELSE {}
  /\ UNCHANGED <<PlanVars, BaseVars, BatchVars, next, outcomes, hadBlocked,
                 completed, runnable, result, credited>>
PreflightFails ==
  /\ pc = "begin" /\ ~opts.force /\ phase # "none"
  /\ pc' = "idle" /\ result' = "refused"
  /\ UNCHANGED <<PlanVars, BaseVars, BatchVars, file, next, CreditVars,
                 completed, runnable, History>>

---------------------------------------------------------------------------
(* One wave.                                                                 *)

(* Mutant: only the dependencies in the scope count. *)
RunnableInPlan(wave) ==
  {t \in wave : deps[t] \cap UNION {plan[w] : w \in DOMAIN plan} \subseteq satisfied}

(* evaluateWaveTaskDependencies.  The plan keeps every dependency of a task, *)
(* those outside the scope too.                                              *)
Runnable(wave) == {t \in wave : deps[t] \subseteq satisfied}

(* planSequenceWaveTasks and resolveWaveAfterMergeBlocked, which differ in   *)
(* what they print only.                                                     *)
PlanWave ==
  /\ pc = "wave" /\ next <= LastPlanned
  /\ runnable' = Runnable(plan[next])
  /\ left' = left \cup (plan[next] \ runnable')
  /\ IF runnable' = {} THEN next' = next + 1 /\ pc' = "wave"
                       ELSE next' = next /\ pc' = "start"
  /\ UNCHANGED <<PlanVars, BaseVars, BatchVars, file, CreditVars,
                 completed, result, credited>>

(* haltSequenceAndPersist, or on to the next wave with --no-stop-on-failure. *)
Fail ==
  /\ IF opts.stop
     THEN /\ pc' = "idle" /\ result' = "halted" /\ file' = Saved(completed)
          /\ UNCHANGED <<next, left>>
     ELSE /\ pc' = "wave" /\ next' = next + 1 /\ left' = left \cup plan[next]
          /\ UNCHANGED <<result, file>>
  /\ UNCHANGED <<PlanVars, BaseVars, CreditVars, completed, runnable,
                 credited>>

(* startBatch: assertNoActiveBatch unlinks the file of a batch that is over. *)
NewBatch ==
  /\ phase # "running"
  /\ phase' = "running" /\ engine' = TRUE /\ tasks' = [t \in runnable |-> "open"]

StartWave ==
  /\ pc = "start" /\ NewBatch /\ pc' = "wait"
  /\ UNCHANGED <<PlanVars, BaseVars, file, next, CreditVars, completed,
                 runnable, result, History>>

(* An attached start over an active batch throws, and nothing catches it. *)
StartThrows ==
  /\ pc = "start" /\ opts.attached /\ phase = "running"
  /\ pc' = "idle" /\ result' = "crashed"
  /\ UNCHANGED <<PlanVars, BaseVars, BatchVars, file, next, CreditVars,
                 completed, runnable, History>>

(* startBatch fails early, its batch-state.json cleared or not; or           *)
(* startBatchDetached refuses, times out while the engine is still starting, *)
(* or its own pid in the old file makes the engine refuse.                   *)
StartFails ==
  /\ pc = "start"
  /\ \/ UNCHANGED BatchVars /\ (opts.attached => phase = "none")
     \/ phase # "running" /\ phase' = "none" /\ tasks' = NoTasks /\ engine' = FALSE
     \/ ~opts.attached /\ NewBatch
  /\ Fail

(* absorbMergeBlockedWave: satisfiedTaskIds is made anew, from the tasks     *)
(* done when the command began and the outcomes of the blocked waves.        *)
Credit == In({"succeeded", "skipped"})
Absorb ==
  /\ pc = "wait" /\ phase = "merge_blocked"
  /\ credited' = credited \cup Credit
  /\ outcomes' = outcomes \cup Credit /\ satisfied' = doneOnMain \cup outcomes'
  /\ hadBlocked' = TRUE /\ left' = left \cup plan[next]
  /\ next' = next + 1 /\ pc' = "wave"
  /\ UNCHANGED <<PlanVars, BaseVars, BatchVars, file, doneOnMain, completed, runnable,
                 result>>

(* Mutant: a batch that has stopped counts as settled. *)
SettledOnceStopped == ~engine /\ phase # "none"

(* isSequenceBatchSettled; waitForSequenceBatchTerminal ends with it. *)
Settled == ~engine /\ phase = "completed"
Wait ==
  /\ pc = "wait" /\ Settled /\ pc' = "land"
  /\ UNCHANGED <<PlanVars, BaseVars, BatchVars, file, next, CreditVars,
                 completed, runnable, result, History>>

(* It gives up on a batch that is gone, has failed or has no engine, and, in *)
(* the end, on a detached engine that hangs.                                 *)
GiveUp ==
  /\ pc = "wait" /\ phase \notin {"completed", "merge_blocked"}
  /\ engine => ~opts.attached
  /\ Fail /\ UNCHANGED BatchVars

---------------------------------------------------------------------------
(* runSequenceWaveLandLoop.                                                  *)

(* The gate is approved and the orch branch merged into base. *)
Integrate ==
  /\ pc = "land" /\ Settled
  /\ landed' = landed \cup In({"succeeded"}) /\ pc' = "complete"
  /\ UNCHANGED <<PlanVars, waived, BatchVars, file, next, CreditVars,
                 completed, runnable, result, History>>

(* completeBatch archives the batch. *)
Archive ==
  /\ phase' = "none" /\ tasks' = NoTasks /\ engine' = FALSE
  /\ waived' = waived \cup In({"skipped"})
CompleteBatch ==
  /\ pc = "complete" /\ Settled /\ Archive /\ pc' = "record"
  /\ UNCHANGED <<PlanVars, landed, file, next, CreditVars, completed,
                 runnable, result, History>>

(* The gate waits for an operator, the merge or the completion fails, or the *)
(* batch has been landed or dismissed meanwhile.                             *)
LandFails == pc \in {"land", "complete"} /\ Fail /\ UNCHANGED BatchVars

Recorded == completed \cup {[wave |-> next, tasks |-> runnable]}
RecordWave ==
  /\ pc = "record"
  /\ completed' = Recorded
  /\ satisfied' = satisfied \cup runnable
  /\ file' = Saved(Recorded)
  /\ next' = next + 1 /\ pc' = "wave"
  /\ UNCHANGED <<PlanVars, BaseVars, BatchVars, doneOnMain, outcomes, hadBlocked,
                 runnable, result, History>>

(* finalizeSequenceState *)
AllComplete == \E c \in completed : c.wave >= Len(plan)
Finish ==
  /\ pc = "wave" /\ next > LastPlanned
  /\ file' = IF AllComplete THEN NoFile ELSE Saved(completed)
  /\ result' = IF hadBlocked THEN "blocked" ELSE "ok"
  /\ pc' = "idle"
  /\ UNCHANGED <<PlanVars, BaseVars, BatchVars, next, CreditVars,
                 completed, runnable, History>>

Supervisor ==
  \/ \E o \in Options : Invoke(o)
  \/ Begin \/ PreflightFails \/ PlanWave
  \/ StartWave \/ StartThrows \/ StartFails
  \/ Absorb \/ Wait \/ GiveUp
  \/ Integrate \/ CompleteBatch \/ LandFails \/ RecordWave \/ Finish

---------------------------------------------------------------------------
(* The engine of the batch, the operator and the operating system.           *)

Outside == <<PlanVars, file, next, CreditVars, completed, runnable, History>>

(* SIGKILL of the supervisor, which is the engine of an attached batch. *)
Kill ==
  /\ pc # "idle" /\ pc' = "idle" /\ result' = "killed"
  /\ engine' = (engine /\ ~(opts.attached /\ pc = "wait"))
  /\ UNCHANGED <<BaseVars, phase, tasks, Outside>>

(* completed: every task is succeeded or skipped and merged into orch.       *)
(* merge_blocked: a mixed outcome, or a merge that fails.                    *)
EngineEnds ==
  /\ engine /\ engine' = FALSE
  /\ \/ /\ phase' = "completed"
        /\ tasks' \in [DOMAIN tasks -> {"succeeded", "skipped"}]
     \/ /\ phase' = "merge_blocked"
        /\ tasks' \in [DOMAIN tasks -> {"succeeded", "skipped", "failed"}]
     \/ phase' = "failed" /\ UNCHANGED tasks
     \/ UNCHANGED <<phase, tasks>>
  /\ UNCHANGED <<BaseVars, pc, result, Outside>>

(* The operator retries or skips what is left and resumes the batch.  *)
Recover ==
  /\ ~engine /\ phase \in {"running", "merge_blocked", "failed"}
  /\ phase' = "completed"
  /\ \E again \in [DOMAIN tasks -> {"succeeded", "skipped"}] :
       tasks' = [t \in DOMAIN tasks |->
                   IF tasks[t] \in {"succeeded", "skipped"} THEN tasks[t] ELSE again[t]]
  /\ UNCHANGED <<BaseVars, engine, pc, result, Outside>>

(* spine integrate, spine batch complete *)
LandByHand ==
  /\ Settled /\ Archive
  /\ landed' = landed \cup In({"succeeded"})
  /\ UNCHANGED <<pc, result, Outside>>

(* spine batch dismiss *)
Dismiss ==
  /\ ~engine /\ phase # "none"
  /\ phase' = "none" /\ tasks' = NoTasks
  /\ UNCHANGED <<BaseVars, engine, pc, result, Outside>>

Next == Supervisor \/ Kill \/ EngineEnds \/ Recover \/ LandByHand \/ Dismiss
Spec == Init /\ [][Next]_vars

---------------------------------------------------------------------------
(* A wave that the sequence state counts as done has landed: a resume that   *)
(* starts after it skips no work, whatever was killed, failed or landed by   *)
(* hand in between.                                                          *)
RecordedIsLanded ==
  file # NoFile => \A c \in file.completed : c.tasks \subseteq landed \cup waived

(* No task is started before each of its dependencies, in the scope or not,  *)
(* is on the base branch, was skipped, or is one that a merge-blocked wave   *)
(* was credited with.                                                        *)
DepsFirst ==
  \A t \in DOMAIN tasks : deps[t] \subseteq landed \cup waived \cup credited

(* The waves the sequence was asked for when it was first started. *)
Promised == UNION {plan[w] : w \in from..LastPlanned}

(* A command that ends well, resumed or not, has landed every task of the    *)
(* waves it was asked for, but for those it was told to go past or printed   *)
(* that it skipped.  Left out: the resume of the scope "pending", whose plan *)
(* is another one each time.                                                 *)
OkMeansLanded ==
  result = "ok" /\ ~(opts.resume /\ opts.scope = PendingScope)
    => Promised \subseteq landed \cup waived \cup left
=============================================================================
