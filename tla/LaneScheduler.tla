--------------------------- MODULE LaneScheduler ---------------------------
(* The task lanes of one batch: src/src/batch/{engine,engine-lanes,          *)
(* engine-scope,resume-multi*,resume-validation,retry,reconcile-orphan,      *)
(* post-merge-finalize}.mjs, engine-lanes/{queue,merge,commit,orch-sync}.mjs *)
(*                                                                           *)
(* One engine at a time (module BatchState says how far that is true) takes  *)
(* the waves of the plan in turn: the lanes of a tick work side by side, the *)
(* tasks of a lane one after the other; when no task of a wave is left or    *)
(* failed, the lane branches are merged into the orch branch one by one.     *)
(* The engine may be killed, or stop on an exception, between any two steps; *)
(* the operator then retries, skips, force-merges and resumes.  Segments are *)
(* left out: every assignment of a task's status assigns its segment's too.  *)
EXTENDS Naturals, Sequences, FiniteSets

CONSTANTS
  Lane,        \* lane numbers
  Plan,        \* Plan[w][k][l]: the tasks of lane l in tick k of wave w
  SharedDeps,  \* SharedDeps[t]: the dependencies of t that share file scope
  MayBeDone,   \* tasks whose folder on the host may hold a .DONE at the start
  Faults       \* of "kill", "exception", "conflict", "force", "abort"

Elements(s) == {s[i] : i \in DOMAIN s}

Wave == DOMAIN Plan
LastWave == Len(Plan)
TasksOf(w, l) == UNION {Elements(Plan[w][k][l]) : k \in DOMAIN Plan[w]}
WaveTasks(w) == UNION {TasksOf(w, l) : l \in Lane}
Task == UNION {WaveTasks(w) : w \in Wave}

(* buildTaskLaneAssignments *)
LaneOf == [t \in Task |-> CHOOSE l \in Lane : \E w \in Wave : t \in TasksOf(w, l)]

Phase == {"running", "paused", "failed", "merge_blocked", "aborted", "completed"}

(* "replan" is failed with the exit reason needs_replan. *)
Failed == {"failed", "replan"}
Status == {"pending", "running", "succeeded", "skipped", "aborted"} \cup Failed

(* The row of mergeResults. *)
Row == {"none", "failed", "succeeded"}

How == {"run", "mark", "host"}
At == {"next", "worker", "review", "commit", "committed"}
Stage == {"none", "tick", "lanes", "wave", "merge", "finalize"}

ASSUME LaneAssumption == Lane \subseteq Nat /\ IsFiniteSet(Lane)
ASSUME PlanAssumption ==
  /\ Wave = 1..Len(Plan) /\ Len(Plan) > 0
  /\ \A w \in Wave :
       /\ DOMAIN Plan[w] = 1..Len(Plan[w]) /\ Len(Plan[w]) > 0
       /\ \A k \in DOMAIN Plan[w] : Plan[w][k] \in [Lane -> Seq(Task)]
(* A task is planned once. *)
ASSUME OnceAssumption ==
  /\ \A w, v \in Wave, l, m \in Lane :
       TasksOf(w, l) \cap TasksOf(v, m) # {} => w = v /\ l = m
  /\ \A w \in Wave, l \in Lane : \A j, k \in DOMAIN Plan[w] :
       Elements(Plan[w][j][l]) \cap Elements(Plan[w][k][l]) # {} => j = k
  /\ \A w \in Wave, l \in Lane : \A k \in DOMAIN Plan[w] :
       LET s == Plan[w][k][l]
       IN \A a, b \in DOMAIN s : s[a] = s[b] => a = b
(* topoWaves puts a task behind its dependencies. *)
ASSUME DepsAssumption ==
  /\ SharedDeps \in [Task -> SUBSET Task] /\ MayBeDone \subseteq Task
  /\ \A w, v \in Wave : \A t \in WaveTasks(w), d \in WaveTasks(v) :
       d \in SharedDeps[t] => v < w

VARIABLES
  phase,       \* the phase in batch-state.json
  task,        \* the status of each task there
  row,         \* its mergeResults
  forced,      \* its resilience.forceMergedWaves
  pausing,     \* the operator's pause is in the journal and not resumed
  signal,      \* abort-signal.json is there
  completed,   \* tasks with a task.completed in the journal
  merges,      \* waves with a batch.merge_completed in the journal
  hostDone,    \* tasks with a .DONE in the host's task folder
  done,        \* tasks with a .DONE in their folder of the lane's worktree
  branch,      \* tasks whose work and .DONE each lane's branch holds
  orch,        \* tasks whose work and .DONE the orch branch holds
  worktrees,   \* the lane worktrees exist
  stage,       \* what the engine does, "none" when there is no engine
  resumed,     \* it is that of a resume
  wave, tick,  \* the wave and the tick it works on
  queue,       \* the tasks each lane has still to take in this tick or wave
  at,          \* where each lane is with the first of them
  bad,         \* a task of this resumed wave has not gone well
  aborting,    \* a worker of this tick was aborted
  toMerge,     \* lanes still to be merged
  left         \* history: the lanes of each wave at which a merge of it broke
               \* off and that no later one has taken

FileVars == <<phase, task, row, forced>>
JournalVars == <<completed, merges, left>>
OperatorVars == <<pausing, signal, forced>>
GitVars == <<done, branch, orch, worktrees>>
LaneVars == <<queue, at, bad, aborting>>
PlaceVars == <<resumed, wave, tick>>
vars == <<phase, task, row, forced, pausing, signal, completed, merges, hostDone,
          done, branch, orch, worktrees, stage, resumed, wave, tick, queue, at,
          bad, aborting, toMerge, left>>

NoQueue == [l \in Lane |-> <<>>]
AllNext == [l \in Lane |-> "next"]

(* The lanes have been provisioned from the orch branch, which starts at the *)
(* base branch: it holds the .DONE files that are committed there.           *)
Init ==
  /\ phase = "running"
  /\ task = [t \in Task |-> "pending"]
  /\ row = [w \in Wave |-> "none"]
  /\ forced = {} /\ pausing = FALSE /\ signal = FALSE
  /\ completed = {} /\ merges = {}
  /\ hostDone \in SUBSET MayBeDone
  /\ \E onBase \in SUBSET hostDone :
       /\ done = onBase /\ orch = onBase
       /\ branch = [l \in Lane |-> onBase]
  /\ worktrees = TRUE
  /\ stage = "tick" /\ resumed = FALSE /\ wave = 1 /\ tick = 1
  /\ queue = NoQueue /\ at = AllNext /\ bad = FALSE /\ aborting = FALSE
  /\ toMerge = {} /\ left = [w \in Wave |-> {}]
-----------------------------------------------------------------------------
(* Questions the engine asks of the state.                                   *)

Terminal(t) == task[t] \in {"succeeded", "skipped"}
waveTasksAllTerminal(w) == \A t \in WaveTasks(w) : Terminal(t)
AllSucceeded == \A t \in Task : task[t] = "succeeded"

(* Mutant: a wave may be merged while a task of it has failed. *)
EligibleDespiteFailure(w) ==
  w \in forced \/ \A t \in WaveTasks(w) : task[t] \notin {"pending", "running"}

(* assessWaveMergeEligibility *)
Eligible(w) ==
  \/ w \in forced
  \/ \A t \in WaveTasks(w) : task[t] \notin Failed \cup {"pending", "running"}

(* findFirstWaveNeedingMerge *)
NeedsMerge(w) == row[w] # "succeeded" /\ waveTasksAllTerminal(w)

(* detectPostMergeLimboFromResumeSignals: what says that only the gate is    *)
(* left to open.  One recorded merge is enough when none is recorded failed, *)
(* one journalled merge of the last wave is enough in any case.              *)
PostMergeLimbo ==
  /\ phase = "running" /\ AllSucceeded
  /\ \/ /\ \E w \in Wave : row[w] # "none"
        /\ \A w \in Wave : row[w] # "failed"
     \/ LastWave \in merges

(* Mutant: a journalled merge is taken for one of the waves before it too. *)
HydratedUpTo(r) ==
  [w \in Wave |-> IF \E v \in merges : w <= v THEN "succeeded" ELSE r[w]]

(* hydrateMergeResultsFromJournal: one merged lane proves the wave merged. *)
Hydrated(r) == [w \in Wave |-> IF w \in merges THEN "succeeded" ELSE r[w]]
-----------------------------------------------------------------------------
(* The lanes.                                                                *)

Current(l) == Head(queue[l])
Pop(l) == queue' = [queue EXCEPT ![l] = Tail(@)] /\ at' = [at EXCEPT ![l] = "next"]
MoveTo(l, where) == at' = [at EXCEPT ![l] = where] /\ UNCHANGED queue

(* Lane l is at the given place with its first task. *)
Busy(l, where) ==
  /\ stage = "lanes" /\ queue[l] # <<>> /\ at[l] = where

SetTask(t, s) == task' = [task EXCEPT ![t] = s]

Rest == <<phase, row, OperatorVars, merges, left, hostDone, worktrees, stage,
          PlaceVars, toMerge>>

(* The task fails and the lane goes on with its next one. *)
FailTask(l, s) ==
  SetTask(Current(l).task, s) /\ Pop(l) /\ bad' = TRUE /\ UNCHANGED aborting

(* skipTaskDoneOnDisk: a folder on the host that holds .DONE. *)
SkipDoneOnDisk(l) ==
  /\ Busy(l, "next") /\ Current(l).how = "host"
  /\ SetTask(Current(l).task, "succeeded") /\ Pop(l)
  /\ UNCHANGED <<Rest, completed, done, branch, orch, bad, aborting>>

(* recordPromptParseFailure, and ensureLaneSyncedForSharedScopeDeps failing: *)
(* a fresh engine fails the task before its worker starts.                   *)
CannotBegin(l) ==
  /\ Busy(l, "next") /\ Current(l).how = "run" /\ ~resumed
  /\ FailTask(l, "failed")
  /\ UNCHANGED <<Rest, completed, done, branch, orch>>

(* Mutant: the lane is not brought up to date with the orch branch. *)
NeverSynced(t) == FALSE

(* collectSharedScopeSatisfiedDeps: some dependency that shares files with t *)
(* has succeeded in this batch.                                              *)
Synced(t) == \E d \in SharedDeps[t] : task[d] = "succeeded"

(* runNonMatrixTaskOnLane up to the worker, and runResumedTaskOnLane, which  *)
(* does not sync the lane.                                                   *)
Begin(l) ==
  LET t == Current(l).task
  IN /\ Busy(l, "next") /\ Current(l).how = "run"
     /\ branch' = IF ~resumed /\ Synced(t)
                  THEN [branch EXCEPT ![l] = @ \cup orch] ELSE branch
     /\ SetTask(t, "running") /\ MoveTo(l, "worker")
     /\ UNCHANGED <<Rest, completed, done, orch, bad, aborting>>

(* markTaskCompleteFromDisk: the worker is not started again. *)
MarkComplete(l) ==
  /\ Busy(l, "next") /\ Current(l).how = "mark"
  /\ MoveTo(l, "review")
  /\ UNCHANGED <<Rest, task, completed, done, branch, orch, bad, aborting>>

(* The worker is done, or stalled after it had written .DONE. *)
WorkerSucceeds(l) ==
  /\ Busy(l, "worker")
  /\ done' = done \cup {Current(l).task} /\ MoveTo(l, "review")
  /\ UNCHANGED <<Rest, task, completed, branch, orch, bad, aborting>>

(* It dies, stalls or breaks its contract, with a .DONE left behind or not. *)
WorkerFails(l) ==
  /\ Busy(l, "worker")
  /\ FailTask(l, "failed")
  /\ done' \in {done, done \cup {Current(l).task}}
  /\ UNCHANGED <<Rest, completed, branch, orch>>

(* It is stopped by the abort signal: the rest of the lane is not taken. *)
WorkerAborted(l) ==
  /\ Busy(l, "worker") /\ signal
  /\ SetTask(Current(l).task, "aborted")
  /\ queue' = [queue EXCEPT ![l] = <<>>] /\ at' = [at EXCEPT ![l] = "next"]
  /\ aborting' = TRUE
  /\ UNCHANGED <<Rest, completed, done, branch, orch, bad>>

ReviewPasses(l) ==
  /\ Busy(l, "review")
  /\ MoveTo(l, "commit")
  /\ UNCHANGED <<Rest, task, completed, done, branch, orch, bad, aborting>>

(* A reviewer that dies leaves .DONE for the retry; a verdict that is final  *)
(* removes it, and REPLAN says so in the exit reason.                        *)
ReviewFails(l) ==
  LET t == Current(l).task
  IN /\ Busy(l, "review")
     /\ \E s \in Failed :
          /\ FailTask(l, s)
          /\ done' \in IF s = "replan" THEN {done \ {t}} ELSE {done, done \ {t}}
     /\ UNCHANGED <<Rest, completed, branch, orch>>

(* Mutant: the commit of the lane is skipped. *)
NotCommitted(l) == [branch EXCEPT ![l] = @ \ {Current(l).task}]

(* The commit records the worktree: .DONE if it is there, or its removal. *)
Committed(l) ==
  LET t == Current(l).task
  IN [branch EXCEPT ![l] = IF t \in done THEN @ \cup {t} ELSE @ \ {t}]

(* commitLaneAndValidateWorktree *)
Commit(l) ==
  /\ Busy(l, "commit")
  /\ branch' = Committed(l) /\ MoveTo(l, "committed")
  /\ UNCHANGED <<Rest, task, completed, done, orch, bad, aborting>>

(* The commit is refused, or leaves the worktree dirty. *)
CommitFails(l) ==
  /\ Busy(l, "commit")
  /\ FailTask(l, "failed")
  /\ branch' \in {branch, Committed(l)}
  /\ UNCHANGED <<Rest, completed, done, orch>>

(* recordTaskSucceeded, then recordTaskTransition(task.completed). *)
Succeed(l) ==
  LET t == Current(l).task
  IN /\ Busy(l, "committed")
     /\ SetTask(t, "succeeded") /\ completed' = completed \cup {t} /\ Pop(l)
     /\ UNCHANGED <<Rest, done, branch, orch, bad, aborting>>

LaneStep(l) ==
  \/ SkipDoneOnDisk(l) \/ CannotBegin(l) \/ Begin(l) \/ MarkComplete(l)
  \/ WorkerSucceeds(l) \/ WorkerFails(l) \/ WorkerAborted(l)
  \/ ReviewPasses(l) \/ ReviewFails(l)
  \/ Commit(l) \/ CommitFails(l) \/ Succeed(l)

LanesDone == stage = "lanes" /\ queue = NoQueue
-----------------------------------------------------------------------------
(* The engine of `batch start`: startBatch's loops over waves and ticks.     *)

Stop(p) ==
  /\ phase' = p /\ stage' = "none" /\ resumed' = FALSE /\ tick' = 1
  /\ queue' = NoQueue /\ at' = AllNext /\ bad' = FALSE /\ aborting' = FALSE
  /\ toMerge' = {}

(* Mutants: the loop over the waves runs on past the last one, or does not   *)
(* step on.                                                                  *)
AdvancePast(next) == wave' = wave + 1 /\ stage' = next
StaysAtWave(next) == wave' = wave /\ stage' = next

(* The loop over the waves. *)
Advance(next) ==
  IF wave < LastWave THEN wave' = wave + 1 /\ stage' = next
                     ELSE wave' = wave /\ stage' = "finalize"

Outside == <<task, row, forced, pausing, signal, completed, merges, hostDone,
             done, branch, orch, worktrees, left>>

(* adoptPauseIfRequested at a boundary. *)
AdoptPause ==
  /\ stage = "tick" /\ pausing
  /\ Stop("paused") /\ UNCHANGED <<Outside, wave>>

Entry(t) == [task |-> t, how |-> IF t \in hostDone THEN "host" ELSE "run"]

StartTick ==
  /\ stage = "tick" /\ ~pausing
  /\ queue' = [l \in Lane |-> [i \in DOMAIN Plan[wave][tick][l] |->
                                 Entry(Plan[wave][tick][l][i])]]
  /\ stage' = "lanes"
  /\ UNCHANGED <<Outside, phase, PlaceVars, at, bad, aborting, toMerge>>

(* The engine stops after a tick: a worker was aborted, or a pause is        *)
(* requested - before anything is said of tasks that failed.                 *)
StopAfterTick ==
  /\ LanesDone /\ ~resumed
  /\ \/ aborting /\ Stop("aborted")
     \/ ~aborting /\ pausing /\ Stop("paused")
  /\ UNCHANGED <<Outside, wave>>

NextTick ==
  /\ LanesDone /\ ~resumed /\ ~aborting /\ ~pausing /\ tick < Len(Plan[wave])
  /\ tick' = tick + 1 /\ stage' = "tick"
  /\ UNCHANGED <<Outside, phase, resumed, wave, LaneVars, toMerge>>

WaveIsRun == LanesDone /\ ~resumed /\ ~aborting /\ ~pausing /\ tick = Len(Plan[wave])
-----------------------------------------------------------------------------
(* The engine of `batch resume`: resumeMultiTaskBatch and executeResumeWave. *)

(* taskTerminalSuccessInBatch, taskAlreadyComplete, isTaskResumable. *)
AlreadyDone(t) == Terminal(t) /\ t \in completed
CompleteFromDisk(t) ==
  \/ task[t] \in {"pending", "running", "aborted", "skipped"} /\ t \in done
  \/ task[t] \in {"aborted", "skipped"} /\ t \in completed
  \/ task[t] = "succeeded"

Resumable(t) == task[t] \in {"pending", "running"}

ResumeEntry(t) == [task |-> t, how |-> IF CompleteFromDisk(t) THEN "mark" ELSE "run"]
Taken(t) == ~AlreadyDone(t) /\ (CompleteFromDisk(t) \/ Resumable(t))

(* t comes before u in the plan of lane l for wave w. *)
Precedes(w, l, t, u) ==
  \E j, k \in DOMAIN Plan[w] :
    \E a \in DOMAIN Plan[w][j][l], b \in DOMAIN Plan[w][k][l] :
      /\ Plan[w][j][l][a] = t /\ Plan[w][k][l][b] = u
      /\ j < k \/ (j = k /\ a < b)

(* The tasks that lane l takes in wave w, in the order of the plan: there is *)
(* one such sequence.                                                        *)
ResumeOrders(w, l) ==
  LET todo == {t \in TasksOf(w, l) : Taken(t)}
  IN {q \in [1..Cardinality(todo) -> todo] :
        /\ Elements(q) = todo
        /\ \A i, j \in DOMAIN q : i < j => Precedes(w, l, q[i], q[j])}

ResumeQueue(q) == [i \in DOMAIN q |-> ResumeEntry(q[i])]

(* A wave that is merged and terminal is passed over. *)
PassMergedWave ==
  /\ stage = "wave" /\ row[wave] = "succeeded" /\ waveTasksAllTerminal(wave)
  /\ Advance("wave")
  /\ UNCHANGED <<Outside, phase, resumed, tick, LaneVars, toMerge>>

StartResumedWave ==
  /\ stage = "wave" /\ ~(row[wave] = "succeeded" /\ waveTasksAllTerminal(wave))
  /\ \E order \in [Lane -> UNION {ResumeOrders(wave, l) : l \in Lane}] :
       /\ \A l \in Lane : order[l] \in ResumeOrders(wave, l)
       /\ queue' = [l \in Lane |-> ResumeQueue(order[l])]
  /\ stage' = "lanes"
  /\ UNCHANGED <<Outside, phase, PlaceVars, at, bad, aborting, toMerge>>

StopAfterResumedWave ==
  /\ LanesDone /\ resumed /\ (aborting \/ bad)
  /\ Stop(IF aborting THEN "aborted" ELSE "failed")
  /\ UNCHANGED <<Outside, wave>>

(* A wave that was merged before is not merged again, whatever ran in it. *)
AlreadyMerged ==
  /\ LanesDone /\ resumed /\ ~aborting /\ ~bad /\ row[wave] = "succeeded"
  /\ Advance("wave")
  /\ UNCHANGED <<Outside, phase, resumed, tick, LaneVars, toMerge>>

ResumedWaveIsRun ==
  LanesDone /\ resumed /\ ~aborting /\ ~bad /\ row[wave] # "succeeded"
-----------------------------------------------------------------------------
(* The merge of a wave: mergeWaveLanesToOrch.                                *)

WaveIsOver == WaveIsRun \/ ResumedWaveIsRun

MergeBlocked ==
  /\ WaveIsOver /\ ~Eligible(wave)
  /\ Stop("failed") /\ UNCHANGED <<Outside, wave>>

(* Refused without a change of state: the batch stays running. *)
NeedsReplan ==
  /\ WaveIsOver /\ Eligible(wave)
  /\ \E t \in WaveTasks(wave) : task[t] = "replan"
  /\ Stop(phase) /\ UNCHANGED <<Outside, wave>>

LaneSucceeded(w, l) == \E t \in TasksOf(w, l) : task[t] = "succeeded"

StartMerge ==
  /\ WaveIsOver /\ Eligible(wave)
  /\ \A t \in WaveTasks(wave) : task[t] # "replan"
  /\ toMerge' = {l \in Lane : LaneSucceeded(wave, l)}
  /\ stage' = "merge"
  /\ UNCHANGED <<Outside, phase, PlaceVars, LaneVars>>

NextToMerge(l) == stage = "merge" /\ l \in toMerge /\ \A m \in toMerge : l <= m

(* laneDoneMarkerCommittedOnBranch, for every task of the lane in the wave. *)
DoneMarkersCommitted(l) == TasksOf(wave, l) \subseteq branch[l]

MergeLane(l) ==
  /\ NextToMerge(l) /\ DoneMarkersCommitted(l)
  /\ orch' = orch \cup branch[l]
  /\ merges' = merges \cup {wave}
  /\ toMerge' = toMerge \ {l}
  /\ left' = [left EXCEPT ![wave] = @ \ {l}]
  /\ UNCHANGED <<phase, task, row, OperatorVars, completed, hostDone, done, branch,
                 worktrees, stage, PlaceVars, LaneVars>>

(* A merge that has begun leaves the lanes that it has not come to. *)
BreakOff == left' = [left EXCEPT ![wave] = @ \cup toMerge]

(* DoneMarkerMissing or a conflict: recordWaveMergeResult(failed) and        *)
(* recordMergeBlocked.                                                       *)
MergeLaneFails(l) ==
  /\ NextToMerge(l) /\ (~DoneMarkersCommitted(l) \/ "conflict" \in Faults)
  /\ row' = [row EXCEPT ![wave] = "failed"] /\ BreakOff
  /\ Stop("merge_blocked")
  /\ UNCHANGED <<task, OperatorVars, completed, merges, hostDone, GitVars,
                 wave>>

(* recordWaveMergeResult(succeeded), maybeFinalizeAfterWaveMerge. *)
MergeDone ==
  /\ stage = "merge" /\ toMerge = {}
  /\ row' = Hydrated([row EXCEPT ![wave] = "succeeded"])
  /\ Advance(IF resumed THEN "wave" ELSE "tick") /\ tick' = 1
  /\ UNCHANGED <<phase, task, OperatorVars, JournalVars, hostDone, GitVars,
                 resumed, LaneVars, toMerge>>

(* finalizeBatchForIntegrate (module BatchState has its steps). *)
Finalize ==
  /\ stage = "finalize"
  /\ Stop("completed") /\ UNCHANGED <<Outside, wave>>

EngineStep ==
  \/ AdoptPause \/ StartTick \/ StopAfterTick \/ NextTick
  \/ PassMergedWave \/ StartResumedWave \/ StopAfterResumedWave \/ AlreadyMerged
  \/ MergeBlocked \/ NeedsReplan \/ StartMerge
  \/ (\E l \in Lane : MergeLane(l) \/ MergeLaneFails(l)) \/ MergeDone \/ Finalize
-----------------------------------------------------------------------------
(* Crashes and the operator.                                                 *)

(* SIGKILL: a pause that is requested may have reached the disk. *)
Kill ==
  /\ "kill" \in Faults /\ stage # "none"
  /\ \E p \in {phase} \cup (IF pausing THEN {"paused"} ELSE {}) : Stop(p)
  /\ BreakOff
  /\ UNCHANGED <<task, row, OperatorVars, completed, merges, hostDone, GitVars, wave>>

(* The catch blocks: startBatch removes the worktrees, resumeMultiTaskBatch  *)
(* calls failBatchFromEngineError, which fails the running tasks.            *)
Exception ==
  /\ "exception" \in Faults /\ stage \in {"lanes", "merge"}
  /\ Stop("failed") /\ BreakOff
  /\ worktrees' = resumed
  /\ task' = IF resumed
             THEN [t \in Task |-> IF task[t] = "running" THEN "failed" ELSE task[t]]
             ELSE task
  /\ UNCHANGED <<row, OperatorVars, completed, merges, hostDone, done, branch, orch,
                 wave>>

Engineless == <<hostDone, GitVars, stage, PlaceVars, LaneVars, toMerge>>

Pause ==
  /\ phase = "running" /\ stage # "none" /\ ~pausing /\ pausing' = TRUE
  /\ UNCHANGED <<phase, task, row, forced, signal, JournalVars, Engineless>>

Abort ==
  /\ "abort" \in Faults /\ phase = "running" /\ stage # "none" /\ ~signal
  /\ signal' = TRUE
  /\ UNCHANGED <<phase, task, row, forced, pausing, JournalVars, Engineless>>

(* reconcileOrphanRunningState, which every retry and skip begins with: the  *)
(* running tasks of a dead engine become succeeded if their .DONE is         *)
(* committed, else failed.  Whether it sees the orphan depends on pids and   *)
(* the journal (detectOrphanRunning).                                        *)
Heals(t) == t \in done /\ t \in branch[LaneOf[t]]

Reconciled ==
  [t \in Task |-> IF task[t] # "running" THEN task[t]
                  ELSE IF Heals(t) THEN "succeeded" ELSE "failed"]
ReconciledPhase ==
  IF phase = "running" /\ \E t \in Task : task[t] = "running" /\ ~Heals(t)
  THEN "failed" ELSE phase
Healed == {t \in Task : task[t] = "running" /\ Heals(t)}

(* What loadMutableBatch hands to the command: the state, phase and journal. *)
Loaded ==
  {[task |-> task, phase |-> phase, healed |-> {}],
   [task |-> Reconciled, phase |-> ReconciledPhase, healed |-> Healed]}

NobodyFailed(s) == \A t \in Task : s[t] \notin Failed

(* unblockBatchAfterRetry *)
PhaseAfterRetry(s) == IF NobodyFailed(s) THEN "paused" ELSE "failed"

(* unblockBatchAfterSkip *)
PhaseAfterSkip(s, p) ==
  IF ~NobodyFailed(s) THEN p
  ELSE IF \A t \in Task : s[t] \in {"succeeded", "skipped"}
  THEN IF \A w \in Wave : row[w] = "none" THEN "paused" ELSE "completed"
  ELSE IF p = "failed" THEN "paused" ELSE p

(* A command that is refused after the reconciliation. *)
Reconcile ==
  /\ stage = "none" /\ \E t \in Task : task[t] = "running"
  /\ task' = Reconciled /\ phase' = ReconciledPhase
  /\ completed' = completed \cup Healed
  /\ UNCHANGED <<row, OperatorVars, merges, left, Engineless>>

retryTask(t) ==
  /\ stage = "none"
  /\ \E s \in Loaded :
       /\ s.phase \in {"paused", "failed"} /\ s.task[t] \in Failed
       /\ task' = [s.task EXCEPT ![t] = "pending"]
       /\ phase' = PhaseAfterRetry(task')
       /\ completed' = completed \cup s.healed
  /\ UNCHANGED <<row, OperatorVars, merges, left, Engineless>>

skipTask(t) ==
  /\ stage = "none"
  /\ \E s \in Loaded :
       /\ s.phase # "running" /\ s.task[t] \notin {"succeeded", "skipped"}
       /\ task' = [s.task EXCEPT ![t] = "skipped"]
       /\ phase' = PhaseAfterSkip(task', s.phase)
       /\ completed' = completed \cup s.healed
  /\ UNCHANGED <<row, OperatorVars, merges, left, Engineless>>

forceMergeWave(w) ==
  /\ "force" \in Faults
  /\ stage = "none" /\ phase \in {"failed", "paused"} /\ w \notin forced
  /\ forced' = forced \cup {w}
  /\ UNCHANGED <<phase, task, row, pausing, signal, JournalVars, Engineless>>

(* validateMultiTaskResume, with --force or without.  With no engine alive a *)
(* running batch may always be resumed by force.                             *)
ResumeAllowed(force) ==
  /\ worktrees
  /\ \/ phase = "paused"
     \/ phase = "failed" /\ (force \/ (NobodyFailed(task) /\ \E t \in Task : Resumable(t)))
     \/ phase = "merge_blocked" /\ force
     \/ phase = "running"
  /\ \/ \E t \in Task : Resumable(t)
     \/ PostMergeLimbo
     \/ force /\ (phase = "merge_blocked" \/ \E w \in Wave : NeedsMerge(w))

HasPending(w) == \E t \in WaveTasks(w) : Resumable(t)
First(W) == CHOOSE w \in W : \A v \in W : w <= v

(* findResumableWave: the first wave with something to run comes before any  *)
(* wave that is left to merge, or whose tasks have failed.                   *)
findResumableWave ==
  LET pending == {w \in Wave : HasPending(w)}
      toBeMerged == {w \in Wave : NeedsMerge(w)}
  IN IF pending # {} THEN First(pending)
     ELSE IF toBeMerged # {} THEN First(toBeMerged) ELSE wave

(* resumeMultiTaskBatch up to its loop; the journal records the resume only  *)
(* of a paused batch, or by force of a failed one.                           *)
Resume ==
  /\ stage = "none"
  /\ \E force \in BOOLEAN :
       /\ ResumeAllowed(force)
       /\ pausing' = (pausing /\ phase # "paused" /\ ~(phase = "failed" /\ force))
  /\ phase' = "running" /\ resumed' = TRUE
  /\ IF PostMergeLimbo
     THEN stage' = "finalize" /\ UNCHANGED wave
     ELSE stage' = "wave" /\ wave' = findResumableWave
  /\ UNCHANGED <<task, row, forced, signal, JournalVars, hostDone, GitVars, tick,
                 LaneVars, toMerge>>

Operator ==
  \/ Pause \/ Abort \/ Reconcile \/ Resume
  \/ \E t \in Task : retryTask(t) \/ skipTask(t)
  \/ \E w \in Wave : forceMergeWave(w)

Next ==
  \/ EngineStep \/ (\E l \in Lane : LaneStep(l))
  \/ Kill \/ Exception
  \/ Operator

(* An engine that runs keeps running: its loops have no condition to wait    *)
(* for but the workers, and the poll loop of a worker ends by its stall      *)
(* timeout at the latest.                                                    *)
Fairness == WF_vars(EngineStep) /\ \A l \in Lane : WF_vars(LaneStep(l))

Spec == Init /\ [][Next]_vars /\ Fairness
-----------------------------------------------------------------------------
(* Properties.                                                               *)

(* Every variable has its type; the waves and ticks are those of the plan,   *)
(* and a lane that is past "next" has a task.                                *)
TypeOK ==
  /\ phase \in Phase /\ task \in [Task -> Status] /\ row \in [Wave -> Row]
  /\ forced \subseteq Wave /\ pausing \in BOOLEAN /\ signal \in BOOLEAN
  /\ completed \subseteq Task /\ merges \subseteq Wave
  /\ hostDone \subseteq Task /\ done \subseteq Task /\ orch \subseteq Task
  /\ branch \in [Lane -> SUBSET Task] /\ worktrees \in BOOLEAN
  /\ stage \in Stage /\ resumed \in BOOLEAN
  /\ wave \in Wave /\ tick \in Nat \ {0}
  /\ queue \in [Lane -> Seq([task : Task, how : How])] /\ at \in [Lane -> At]
  /\ bad \in BOOLEAN /\ aborting \in BOOLEAN /\ toMerge \subseteq Lane
  /\ left \in [Wave -> SUBSET Lane]

(* mergeResults: when the row of a wave says succeeded, because a merge has   *)
(* come to its end or because the journal has a merge of one of its lanes,   *)
(* the work of every task of it that succeeded is in the orch branch -       *)
(* whatever was killed, retried, skipped or merged again on the way there.   *)
(* All that can be missing are lanes at which a merge of that wave broke off *)
(* and that none has taken since (FinalizedIsMerged is violated by those),   *)
(* and what lacks in a wave that the operator has forced.                    *)
MergedRowIsInOrch ==
  \A w \in Wave \ forced : row[w] = "succeeded" =>
    \A t \in WaveTasks(w) :
      task[t] = "succeeded" /\ LaneOf[t] \notin left[w] => t \in orch

(* A task that succeeded has its work and its .DONE on the branch of its     *)
(* lane, so that the merge can take it; a task whose folder on the host held *)
(* .DONE from the start is taken as it is.                                   *)
SucceededIsCommitted ==
  \A t \in Task \ hostDone : task[t] = "succeeded" => t \in branch[LaneOf[t]]

(* A wave whose row says succeeded is over, even if only the journal says so *)
(* and a lane of it was left: no command makes one of its tasks pending      *)
(* again, none is run a second time and none is failed; a task that was      *)
(* aborted does not hold the merge up.  Left out: a forced wave, and a task  *)
(* that was found done on the host, which a resume reviews once more.        *)
MergedIsOver ==
  \A w \in Wave \ forced : row[w] = "succeeded" =>
    \A t \in WaveTasks(w) \ hostDone : Terminal(t) \/ task[t] = "aborted"

(* A fresh engine starts a worker only in a lane that holds the merged work  *)
(* of every dependency the task shares files with.                           *)
StartsOnMergedWork ==
  [][\A t \in Task : task[t] = "pending" /\ task'[t] = "running" /\ ~resumed
       => \A d \in SharedDeps[t] :
            task[d] = "succeeded" /\ d \notin hostDone => d \in branch'[LaneOf[t]]]_vars

(* An engine does not run for ever. *)
EngineStops == stage # "none" ~> stage = "none"

(* PRD 17.3, steps 6 to 8, and the runbook on merge_blocked: the engine goes *)
(* on to open the gate when all the waves are merged, so that all the work   *)
(* that succeeded is in the orch branch.                                     *)
FinalizedIsMerged ==
  stage = "finalize" => \A t \in Task : task[t] = "succeeded" => t \in orch
=============================================================================
