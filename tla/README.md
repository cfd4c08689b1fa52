# pi-spine: a TLA+ verification project

pi-spine plans, runs, merges and integrates batches of coding tasks. A batch is
driven by one long-lived *engine* process; every other command (`pause`,
`resume`, `abort`, `complete`, `dismiss`, `retry`, `gate`, `integrate`, ...) is a
short-lived process of its own. They share files under `.spine/`, git branches and
worktrees, and nothing else: the batch state (`.spine/batch-state.json`), a lock
file on it, an append-only journal per batch, abort signals, the gate record,
archives. There is no server that orders their steps. The correctness of the
system is the correctness of those file protocols, under processes that are
killed, stalled, resumed or started twice.

These modules model that core. Paths below are relative to the repository root,
`batch/x.mjs` is short for `src/batch/x.mjs`.

Contents: 1 inventory, 2 modules, 3 runs, 4 theorems, 5 what the models show of
the code, 6 what is left, 7 not modelled.

## 1. Inventory

### Components and their state

| Component | Code | State | Operations | Module |
|---|---|---|---|---|
| Batch-state lock | `batch/batch-state-lock.mjs` | `.spine/runtime/batch-state.lock`, one private `.break` file per breaker | `withBatchStateLock`, `withBatchStateLockAsync` | `BatchStateLock` |
| Batch state, its guards and its commands | `batch/state*.mjs`, `batch-state-io.mjs`, `pause.mjs`, `abort.mjs`, `lifecycle*.mjs`, `engine.mjs`, `resume*.mjs` | `batch-state.json`, archives, the engine's copy in memory | load, guarded save, pause, abort, complete, dismiss, start, resume | `BatchState` |
| Lane scheduler | `batch/engine.mjs`, `engine-lanes.mjs`, `engine-scope.mjs`, `resume-multi*.mjs`, `resume-validation.mjs` | task and wave rows, lane branches, orch branch | waves, ticks, serial queues, retry, skip, resume | `LaneScheduler` |
| Wave merge | `batch/engine-lanes/merge.mjs` | `mergeResults` | merge lane by lane, force merge | `LaneScheduler` |
| Matrix tasks | `batch/engine-lanes/matrix*.mjs`, `retry-row.mjs` | rows, sub-lane worktrees, slot pool | sweep, merge of the rows, row retry and skip | `MatrixTask`, `SlotPool` |
| Task run | `batch/worker-*.mjs`, `heartbeat*.mjs`, `review*.mjs`, `engine-lanes/review-*.mjs` | `.DONE`, review files, attempt counters, worker process | worker, poll loop, reviews, rework, commit | `TaskRun` |
| Integrate gate | `batch/gate*.mjs`, `integrate*.mjs`, `salvage*.mjs` | gate record, approval streak, refs | open, approve, reject, integrate, salvage | `IntegrateGate` |
| Planner | `src/planner/*`, `batch/engine-scope.mjs` | none (pure) | waves, lanes, ticks | `Planner` |
| Sequence supervisor | `batch/sequence*.mjs` | sequence state file | run the waves of a scope as batches, one after another | `Sequence` |
| Resume handoff | `batch/attached-runner-reconcile.mjs`, `detached-*.mjs`, `resume-engine.mjs`, `batch-meta-reconstruct.mjs` | `resume-handoff.lock`, the engine's pid in `batch-state.json`, child processes | forced resume, detached and attached; termination of the engine before; reconstruction of a lost state; the launcher's wait | `ResumeHandoff` |
| Journal rebuild, diagnosis, worktrees, CLI, configuration and the rest | see section 7 | | | - |

### How they interact, and what is hard

* Every read-modify-write of `batch-state.json` runs under the lock, but most
  commands *decide* on a read made before they take it: single-owner checks,
  the active-batch check, the phase to roll a pause back to.
* An engine keeps the state in memory and saves it often. It does not read it
  back, so each save can overwrite what another process wrote. Three mechanisms
  answer that: the write guard (a live owner's state is not overwritten, an
  archived batch is not recreated), the pause merge (the phase on disk or in the
  journal overrides the one in memory), and re-reading under the lock in the
  commands that close a batch. A save that the guard refuses is silent.
* Engines are killed (their pid, lock, worktrees, worker and half-written rows
  stay behind), go on for a while after an abort, and can be resumed while the
  previous one still exits. A worker may outlive its engine.
* The lanes of a tick are concurrent inside one engine; rows of a matrix task
  compete with plain tasks for the slots of one pool.
* A resume infers what was done from several records that a kill may leave
  apart: task rows, `mergeResults`, the journal, `.DONE` files, branches, review
  files. The sequence supervisor has a second such record above the batch's.
* The gate record and the streak are read and written by the engine and by
  commands without a lock; the refs move under both.

### What makes each component correct

* Lock: at most one process in its section; a stale file is broken, a live one
  never; nothing is leaked; a dead holder does not block the others.
* Batch state: an archived batch does not come back; an ended batch does not
  become active; a running batch names its engine; no engine leaves an active
  batch behind; a journaled pause stops the scheduling of tasks.
* Lanes and merge: what is recorded as merged is in the orch branch; what
  succeeded is committed; what was skipped is not run; a merged wave is over; an
  engine always stops.
* Matrix: a slot has one holder and no waiter starves; the task succeeds only
  with the work of all its rows.
* Task run: no success without its reviews; the final pass is of the work that is
  committed; every review loop ends.
* Gate: nothing lands unless the revision that its check was made at had been
  approved; a rejection is final; an automatic approval rests on approvals in a
  row; base loses no commit.
* Resume handoff: one engine works; no engine with task work is ended; the lock
  is given back; a completed batch is not set back.
* Sequence: a wave that counts as done has landed; no task starts before its
  dependencies; a command that ends well has landed what it was asked for.
* Planner: waves are longest chains, lanes partition a wave.

`PROJECT.json` lists the hazards one by one, at their lines.

## 2. Modules

| Module | Role |
|---|---|
| `StateMutex`, `SlotPool` | abstract specifications: the mutual exclusion that callers expect of `withBatchStateLock`; a pool of slots with one holder each |
| `BatchStateLock` | the lock file protocol, one step per file system call; implements `StateMutex` |
| `BatchState` | the commands that share `batch-state.json` |
| `LaneScheduler` | waves, lanes, tasks and merges of one batch |
| `MatrixTask` | one matrix task in its lane; its pool implements `SlotPool` |
| `TaskRun` | one task: its worker, reviews and commit |
| `ResumeHandoff` | forced resumes of one batch: who becomes its engine |
| `IntegrateGate` | gate, streak, integration and salvage over moving branches |
| `Planner` | the planner as operators |
| `Sequence` | the supervisor, over the planner and an abstract batch |
| `MC...` | the instances for TLC; `MCSequence` also checks the planner against reference definitions |
| `BatchStateLockProofs`, `BatchStateProofs`, `LaneSchedulerProofs`, `MatrixTaskProofs`, `TaskRunProofs`, `ResumeHandoffProofs`, `IntegrateGateProofs`, `SequenceProofs` | the theorems, one module for each module they are about |

How they compose: `Sequence` EXTENDS `Planner` and takes its waves from it;
`MCSequence` checks (`PlansAreSchedulable`) that what the planner makes is a
plan as `LaneScheduler` takes it. A task of `LaneScheduler` is one step from
start to outcome that `TaskRun` or `MatrixTask` take apart; the engine that
`LaneScheduler` has only one of is what `BatchState` is about; a hold of the
batch-state lock, one step in `BatchState`, is what `BatchStateLock` takes apart;
the merged orch branch is where `IntegrateGate` begins. In `Sequence` all of them
are one abstract batch with the outcomes they allow.

Definitions named `Mutant: ...` in a comment are single-bug variants of the
definition that follows or precedes them. Nothing uses them; putting one in the
place of its original makes the property named in `PROJECT.json` fail, which
shows that the property depends on that line of code.

### BatchStateLock

`lock` is the content of `lockPath`, `copy[p]` that of p's private `.break` file,
`seen[p]` the `rawContent` p judged. The random ownership token is unique per
call, so it is modelled as the pair (process, number of its call). A process is
one incarnation: when it is killed it is `gone`, and its pid may later be
`reused` by some other program. `pc` follows the code: `create` (linkSync),
`read`, `judge`, `rename`, `settle` (compare and discard, or put back), `wait`
(deadline or poll), `section` (fn), `unlink` (release). Reading the token and
unlinking in `releaseLockFile` are two steps, because a breaker can come between
them. Nested calls run `fn` directly and have no step. The asynchronous twin is
the same protocol with a different sleep. `Faults` selects what may go wrong:
`crash`, `stall` (a reader is suspended for the two seconds after which an
unreadable file counts as old) and `junk` (an unparseable file). `Unprobed` are
the processes whose start time could not be recorded.

### BatchState

Each process runs one command and ends. `disk` is `batch-state.json` with the
fields that guards look at: batch id, phase, engine pid, whether `endedAt` is
set, and whether the last wave is merged. `archived`, `signalled`,
`provisioned` and `paused` stand for the archive file, the abort signal, the lane
worktrees and the journal's last pause/resume event. `mem[p]` is the state object
that p loaded or created. A hold of the batch-state lock is one step here; what
that rests on is `BatchStateLock`: it is exact except after the displaced-file
window of section 5. Everything a command decides on a read outside the lock is
a step of its own (`CheckActive`, `EnforceSingleOwner`, `ValidateResume`,
`LoadForPause`, `LoadToClose`, `LateFinalize`). The engines of `Attached` run with
`--attached`, as `detached-spawn.mjs:36` spawns every detached one, and so with
the milestone reporter, whose poll (`EnforcePause`) reads and writes the
state in one hold of the lock (`pause.mjs:102`).

Tasks are abstracted: an engine works through any number of ticks (`tick`) and
wave merges (`merge`). Its saves in between are `SaveMergedProgress`
(saveEngineBatchState, which merges the pause) and `SaveDirectProgress`
(recordTaskTransition and the resumed lanes, which do not). Every save goes
through `SaveAs`, which is the write guard plus the dropping of the pid of a
terminal state; a refused save changes nothing and its caller goes on. Alive is
a process that has begun and not ended; a pid is never reused in this module.

### LaneScheduler

`Plan[w][k][l]` is the queue of lane `l` in tick `k` of wave `w`. The variables
are the records a resume reads - `phase`, `task`, `row` (mergeResults), `forced`,
the journal's `completed`, `merges` and `pausing` -, the files and branches they
stand for - `done` and `hostDone` (.DONE in the worktree, on the host), `branch`,
`orch` -, and the engine: `stage`, `wave`, `tick`, and per lane the `queue` and
where the lane is (`at`). `left` is history: the lanes of each wave at which a
merge of it broke off and that none has taken since; the code has no record of
them. A row that is rebuilt from the journal after a merge (`Hydrated`) is a
succeeded row like any other, as in the code. The actions follow `startBatch` and
`resumeMultiTaskBatch`: load and enter a wave, start a tick, take the next task
of a queue (with the orch sync and the checks before it), worker, review, commit,
end of the lane, end of the tick, merge lane by lane with its refusals, finalize.
A fresh engine takes the ticks of a wave one after the other, a resumed one puts
what is left of a wave in one queue per lane. `Kill` and `Exception` stop the
engine between any two steps; the operator's `pauseBatch`, `retryTask`,
`skipTask`, `forceMergeWave`, `resumeBatch` follow, with the reconciliation that
they begin with.

Left out: segments (each assignment of a task's status assigns its segment's
too), the single-task path of `resume.mjs`, reopening of a gate,
`resetFailedTasksForForceResume`. Which engine is seen as dead when is
nondeterministic here.

### MatrixTask

`mem` and `disk` are the task's part of the engine's state object and of the
saved one: the task's status, its rows' statuses and the slot in the path of the
worktree recorded for each row (`place`). `subLanes` are the worktrees that exist,
`landed` the rows merged into the lane's branch. The engine's stage goes from
`begin` (which rows are run, which carried over) through the `sweep` (rows take
slots, are marked running, get a worktree, finish) to the `merge` of the rows,
the `commit` of .DONE and the record of the success. `waiters`, `inUse` and
`slot` are the pool: `acquireLaneSlot` gives the lowest free slot or queues the
caller, `releaseLaneSlot` hands the slot to the oldest waiter. Carried rows are
merged first, each kind in matrix order. Left out: the rows' environment; the
phases of the batch are `LaneScheduler`'s.

### TaskRun

The engine's poll loop is taken apart as in `worker-heartbeat.mjs`: the head of
the loop (`top`: .DONE, abort signal, exit), its tail (stall), the grace period
after .DONE, the abort, the settling of the worker. After it comes the judgement
of what `runWorker` returned, the rerun on the fallback profile after a quota
failure, and the reviews: the plan review before the work, the code review, the
final one, each with its attempts, its rework by the worker and its verdict. The
three places a verdict is kept - the journal (`journal`), the newest file of a
step under `reviews/` (`artifact`) and the engine - are set in the order of the
code, so that a kill can come in between; a resume honours what is there.
`orphan` is a worker whose engine was killed: it may write and withdraw .DONE
while another engine works on the task.

Time is abstracted: a deadline may have passed whenever it is looked at. Left
out: retries inside the reviewer, the profile's environment, the worker's own
calls of review tools. The second check of a final PASS in `runStepReview` sees
the same data and is one step with the first. A reviewer that survives the kill
of its engine writes its file at the kill or never.

### ResumeHandoff

A detached resume is two processes, a shell `s` and its child `<<s>>`; an attached
one works itself. Both go through the same checks (`Runner` are those that then
work): the state is read (`Load`), judged (`CheckOwner`), the lock file is created
and filled by two system calls (`CreateLock`, `FillLock`), or its holder is read
and its file removed (`ReadHolder`, `DropLock`), the engine before is terminated
and what was read is saved (`TakeOver`, `SaveHandoff`), a lost state is
reconstructed, the batch is validated, its limbo landed or its gate reopened, or
the resume is prepared. The launcher then saves, spawns, records the child's pid
and polls; a runner claims the batch (`Claim`) and works. `mem[p]` is what p has
read, `newer` are the launchers for which `updatedAt` has moved since they
validated. The pid of an engine is the process itself. `left` is all that is known
of the tasks: some to do, the last merge to do, nothing. A hold of the batch-state
lock is one step.

`slips` is history: it records the four things that go wrong in the code (section
5, 49 to 52), and the properties are stated of behaviours without them. `Timely`
says that a child, which starts node first, reads the state after its launcher has
recorded its pid, and that a launcher's deadline does not pass before the child has
claimed the batch; launchers are not in `Mortal`. Left out: a resume without
`--force` (`BatchState`), the operator's pause, the handler that lands a limbo on
SIGTERM, reuse of pids, the wait for a required gate in the launcher's answer.

### IntegrateGate

`gate` is gate.json with the revision it pins (`pin`), `streak` the approval
streak, `tip` and `base` the two branches; refs stand for the commits that can be
reached. `archived` says that the state file is no longer the batch's: from then
on it is absent or another batch's (`Found`), and `Target` is what
`resolveGateTargetRevision` makes of that: this batch's orch tip, another's, or
HEAD, which may be any of the branches. `integrate` passes its batch's state, a
salvage passes none, and `gate reopen` takes what it finds (`seed`).

Every process has a `pc`: load, evidence and second save of an opening; check and
removal of a reopening; look, search of the journals, streak and approval of an
automatic decision; load and save of a decision; load and save of the streak file,
for the category and then for the kind (`count` is what is loaded); check, read of
the refs and compare-and-swap of an integration. `Approver`, `Rejecter`, `Opener`
and `Lander` say which command does what; the engine opens the gate, and is a
`Lander` if the posture has it integrate between waves. `Archive` stands for
complete, abort and dismiss.

`approvedPins`, `final`, `earned` and `fresh` are history. `earned` counts the
approvals since the last finished rejection, `fresh` are the processes whose loaded
streak no reset has overtaken. The code can lose a reset in three ways (section 5,
33); `earned` then takes that rejection for undone and jumps to its maximum, until
the next rejection. Left out: the
synchronisation of the working tree after a landing; a salvage's opening of its
gate and its automatic approval are two commands; the count of the kind itself,
which decides nothing.

### Planner and Sequence

`Planner` has `buildPlan`'s graph, cycle test, `topoWaves` (a recursive function,
one turn of its loop per level), overlaps, first-fit lane packing and ticks.

`Sequence` has one supervisor: its plan, where it is in the waves, its credits
(`doneOnMain`, `outcomes`, `satisfied`), the sequence state `file`, and an
abstract batch (`phase`, `tasks`, `engine`) whose engine ends with any outcome
its waves allow. The operator may recover a batch (retry, skip and resume in one
step), land it by hand, dismiss it, and start the command again, resumed or not.
A kill comes between any two steps of the supervisor; the engine of a detached
batch lives on. Left out: two supervisors at once, batches the operator starts,
the nested worker context; a refused command changes nothing; the working tree
is in sync after a landing; the field `status` of the file is never read.

The abstract batch completes only with every task succeeded or skipped and merged
(`EngineEnds`, `Recover`). The code has three ways to complete one with work that
has not landed, and none of them is in `Sequence`: a wave the operator forced
(`engine-scope.mjs:256`), a row rebuilt from a journal that has a merge of only one
lane (behaviour 57), and a forced resume that finalizes over failed tasks
(`post-merge-limbo.mjs:359`, `lifecycle.mjs:344`). After one of these a wave may be
recorded whose work is missing: `RecordedIsLanded` and `OkMeansLanded` promise
nothing there. `Settled` waits for the engine to be gone; the code also settles
while a live engine is in post-merge limbo and needs an integration
(`reconcile-diagnosis.mjs:252`, `:313`), whose outcomes are those of `GiveUp` and
`LandByHand`.

## 3. Runs

| Run | Instance | What it checks | Distinct states |
|---|---|---|---|
| `lock` | 3 processes (one unprobed), one call each, all faults | `TypeOK`, `HolderOwnsFile`, `StealsOnlyStale`, `NoLeakedLock`, `DeadHolderBroken` (liveness); the lock implements `StateMutex` until a live holder's file is displaced | 14 thousand |
| `batch_safety` | attached start with its reporter, pause, abort, complete, dismiss --force; start and pause may be killed | `TypeOK`, `ArchivedStaysGone`, `NoAbandonedBatch`, `TerminalStays` | 1.9 million |
| `batch_resume` | attached start (may be killed), attached resume, pause, abort | `RunningIsOwned`, `PauseStops` (liveness) | 270 thousand |
| `lanes` | two waves on two lanes, three tasks, a shared dependency; kills, exceptions, conflicts, forced merges, every operator command in any order | `TypeOK`, `MergedRowIsInOrch`, `SucceededIsCommitted`, `MergedIsOver`, `StartsOnMergedWork` | 1.2 million |
| `lanes_progress` | two ticks in the first wave, a task that may be done on the host, pause, abort, retries, resumes | `EngineStops` (liveness) | 260 thousand |
| `lanes_lost_merge` | the same plan, conflicts only | `FinalizedIsMerged` is violated | - |
| `matrix` | two rows and a plain task, two slots, all faults, row retry, row skip, resume | `CapKept`, `SucceededIsWhole`, `KeepsFinishedRows`, `WaiterServed` (liveness); the pool implements `SlotPool` | 250 thousand |
| `taskrun` | three reviews with 1, 2 and 2 attempts, two retries or resumes, all faults | `ReviewedBeforeSuccess`, `PassIsOfThisWork`, `ReworksBounded`, `RunEnds` (liveness) | 460 thousand |
| `handoff` | a detached and an attached forced resume (the latter may die), any phase or a lost state, the engine before alive or dead | `TypeOK`, `OneEngine`, `LockIsGivenBack`, `WorkGoesOn`, `CompletedStays` | 1.7 million |
| `gate` | engine (may be killed), one command that approves, by hand or automatically, one that rejects, reopens, integrates and salvages; two commits on orch, one of others on base, two gates, a threshold of two, an archive | `TypeOK`, `LandedWasApproved`, `RejectionIsFinal`, `AutoNeedsStreak`, `KeepsBase` | 2.2 million |
| `gate_orphan` | one command, one commit of each kind | `BaseOnlyGrows` is violated | - |
| `sequence` | three tasks with every dependency graph of two waves or more, attached and detached, fresh and resumed, two starts; and the planner against its references | `RecordedIsLanded`, `DepsFirst`, `OkMeansLanded` | 4.7 million |

The two runs that expect a violation are the two findings of `PROJECT.json`,
each quoting the line of the repository that it contradicts. Section 5 has the
other disagreements.

`MCSequence` checks the planner in its ASSUMEs: on every acyclic graph of four
tasks the wave of a task is the length of the longest chain that ends in it
(`WavesByLongestChain`); on every graph of three tasks a cycle is exactly what
topoWaves would leave over (`CycleIsAllThatRemains`); for every overlap of three
tasks and every number of lanes up to three, lanes and ticks partition the wave
and keep the task order (`LanesPartition`); every plan is one that
`LaneScheduler` takes (`PlansAreSchedulable`); no plan of several waves starts
without an explicit scope (`ImplicitIsOneWave`).

**Bounds.** *Lock:* a holder, a breaker and a third process, one call each. That
a process meets a token of its own earlier call (the `leakedSelf` case) takes two
calls and is covered by the proofs, which are for any number of calls.
*BatchState:* the only bound is the set of processes. Each command is one pass,
but an engine goes through ticks, merges and saves as often as it likes. The two
runs hold one batch each, with an attached engine; section 5 says what a second
start or a second pause adds, which is why those are not in them. *LaneScheduler:*
two waves are what going past a wave needs, two lanes what a merge that stops half way
needs, two ticks what tells a start from a resume. Nothing is counted: the
operator retries and resumes without limit. *MatrixTask:* three actors on two
slots make one wait; two rows make one succeed while the other fails. No counter.
*TaskRun:* `MaxStarts = 2` (a resume of a resume or of a retry); a plan review
with one attempt fails at once, the others rework once. *IntegrateGate:* `MaxTip`,
`MaxGates`, `MaxOther`: a second revision to leave the approved one, a second gate
after a rejection, one commit of others, which comes while somebody integrates (an
earlier one looks to an integration like one right after its gate check). The streak
is counted up to its threshold, and that is two: with one, a count that was loaded
before a
rejection and written after it could not be told from a new approval.
`EarlierApprovals` is one, so that one approval suffices. One command approves
while the other rejects; the engine does not integrate in this run (`Lander`),
whose steps would be the command's. *Sequence:* `MaxStarts = 2`, three tasks: a
diamond's half, a chain,
and a wave of two. *ResumeHandoff:* two forced resumes of one batch, one of each
kind, beside the engine that ran it before: a handoff is between two, and the lock
is for the second. No counter.

The types of `TaskRun` and `MatrixTask`, and `ReviewsFinishedWork` of the former,
have proofs and no run.

**Deadlock** is not checked: in every module all processes may have ended, or
the operator may do nothing more.

**Fairness.** *Lock:* weak fairness of each process's own steps; the code polls
in a bounded loop and every iteration makes a file system call that returns. No
fairness for `Call`, `Crash` or `ReusePid`. *BatchState:* weak fairness of an
engine's loop and of its landing; a tick ends because every worker is bounded by
its stall budget and its task timeout, a merge because it is a sequence of
synchronous git calls. `PauseStops` starts from a journaled pause. *LaneScheduler:*
weak fairness of the engine and of each lane, for the same reason. *MatrixTask:*
the engine's loop, and each row and plain task (`runShellInDir` has a timeout).
*TaskRun:* the engine's step, and the worker's exit: a worker has the timeout it
is spawned with. Nothing is ever assumed of operators' commands. *IntegrateGate*,
*Sequence* and *ResumeHandoff* state no fairness and have no liveness property.

**What holds by exclusion.** `NoAbandonedBatch` is checked without a throw of
`persistBatchMetaFromStartState` (outside the `try` of `startBatch`) and without
a lock timeout in the `catch` block's save; either leaves an active batch without
an engine. `ArchivedStaysGone` is checked, and proved, for one batch, and
`RunningIsOwned` for one resume. `TerminalStays` lets a milestone reporter put an
ended batch to paused while its journal ends in a pause. `MergedRowIsInOrch` lets
a row lack the lanes at which a merge of its wave broke off, whether the row is of
a merge or of the journal; it and `MergedIsOver` leave out waves forced by the
operator, the latter also tasks found done on the host. `StartsOnMergedWork` is of
fresh engines. `LandedWasApproved` says of a salvage only that some revision was
approved that HEAD or the batch in the state file led to; `RejectionIsFinal` is of
decisions that do not overlap; `AutoNeedsStreak` takes a rejection whose reset was
lost in one of three ways (behaviour 33) for undone. `CapKept` is of an engine
that started its batch, `WaiterServed` up to a slot lost by a save that threw.
`PassIsOfThisWork` leaves out retried and haunted tasks. `OkMeansLanded` leaves
out the resume of the scope `pending`. `OneEngine`, `WorkGoesOn` and
`CompletedStays` hold up to the four slips that `ResumeHandoff` records, for
launchers that live and for hand-overs that end before their deadline (`Timely`).
Each of these exclusions is a behaviour of the code that section 5 describes.

## 4. Theorems

Proved by TLAPS for every value of the constants that satisfies the named
assumptions of the modules; TLC evaluates those on each run.

*Lock* (`BatchStateLockProofs`). The inductive invariant is
`LockInv == TypeOK /\ DeadIsIdle /\ JudgedStale /\ HolderOwnsFile`. `HolderOwnsFile`
alone is not inductive: a breaker that is about to rename could have judged
anything. `JudgedStale` says that what it judged is the token of a process that
is not up, or its own earlier one, and that stays so because processes do not
come back; `DeadIsIdle` says that such a process holds nothing. From it
`HolderOwns`, `MutexUnlessDisplaced`, `StealsStale`; `NoLockLeaks` with `LeakInv`
(a renamed file is that of a process not up, unless one has been displaced);
`DisplacedNeedsFault` with `QuietInv` (without faults no waiter gets to rename
one). `LockImplementsMutex`: under all faults the lock implements `StateMutex`,
with `inside` empty once a live holder's file has been displaced: `Create` maps to
`Enter`; `ReadOwn`, a kill and the rename that displaces the file map to `Leave`;
everything else stutters.

*Batch state* (`BatchStateProofs`). `TypeCorrect` rests on
`BatchTyped == TypeOK /\ MemLoaded`: a process that is going to save its memory
has loaded it. `ArchivedGone` proves `ArchivedStaysGone` when there is one batch,
for any number of resumes, pauses, aborts and closers: every step that writes
the state does it over a state that is there, or through the guard, which checks
the archive; and every step that archives also clears the file.

The other three rest on `MemFits`: what each process holds in memory fits where it
is in its command. An engine has its own pid in the state it works with, the state
stays active until the save that ends it, a pause holds the phase it would put
back. `Advance` says once what any step of an engine does (it leaves the disk alone,
clears a stale state, or saves a state of its own batch that fits where it goes);
each action is shown to be one, and the proofs below use nothing else of them.
* `EndedStays` (`TerminalStays`), for any batches, commands and reporters: until a
  resume begins, the batch that ended on disk is that of an engine past its last
  save (`EndedIsOver`), and everybody else writes a phase only over an active one -
  but the milestone reporter, which may put it to paused, and nothing else, while
  the journal of the batch ends in a pause (behaviour 7).
* `RunningHasOwner` (`RunningIsOwned`): a batch without a pid has either never run,
  and then nobody could resume it or put back that it was running (`Unrun`,
  `NotRun`), or has landed or ended. A resume of a batch that has landed claims it
  without a pid; `LimboParts` says that it has landed still when it is claimed. One
  batch and one resume are assumed. With two batches and two pauses the property is
  false: the rollback of a pause of the first puts "running" over a pause of the
  second, which was only planned (behaviour 9). That there is one resume is for the
  proof: TLC finds nothing wrong with two.
* `NothingAbandoned` (`NoAbandonedBatch`): `Kept` says that the batch on disk is one
  its engine may save, and is not running once the engine is past its last save;
  `PauseSees` that a pause finds the batch either paused by itself or untouched by
  any pause, so that its rollback never undoes what an engine adopted. It assumes
  one batch, one pause and no resume. With two pauses the property is false
  (behaviour 9); with a resume TLC finds it true, but the invariant would have to
  tell the batch's two engines apart.

*Lanes* (`LaneSchedulerProofs`), for any plan, lanes, shared dependencies and all
faults. `LaneInv` relates the places where an engine keeps what it did: the queues
hold only tasks of the wave, each once and none that the journal has as completed
(`QueueFits`, `JournalFits`); a task past its review has .DONE, past its commit it
is in its lane's branch (`CommitFits`); a fresh engine has merged what is behind it
and not touched what is ahead (`FreshFits`), a resumed one has taken every task of
the wave that is not settled (`ResumedFits`). `RowsFit` is about every wave that is
`Recorded` - its row says succeeded, the journal has a merge of one of its lanes, or
it is being merged now: it is `Over`, and each of its lanes is in orch, or was left
by a merge that broke off, or is still to be merged, or has nothing to merge
(`LaneIsIn`). It has to speak of the journal because the next merge makes rows of it.
`MergeFits` says that a wave is not merged under a row that says succeeded.
None of the safety invariants that the run checks
is inductive without these. From it `SuccessIsCommitted`,
`MergedRowsAreInOrch`, `MergedWavesAreOver`, and the action property
`StartsAreOnMergedWork`. Assumed of the plan: a task is planned once and in one lane
(`OnceAssumption`), what it depends on is in an earlier wave (`DepsAssumption`);
`MCSequence` checks on the planner's own plans that it makes such ones
(`PlansAreSchedulable`).

*Resume handoff* (`ResumeHandoffProofs`), for any number of resumes of either kind.
`BaseInv` (types, which places each kind of process can be in, which pids are
recorded, what the lock file can hold, who may be at work) holds through every
fault and gives `HandoffTypes`, `LockComesBack` (`LockIsGivenBack`) and
`ResumesEndNoWork` (`WorkGoesOn`). `OneEngineWorks` and `CompletedIsKept` need
`Held`, which holds as long as nothing has slipped: who is past the lock holds the
lock file (`LockHeld`); who works is the recorded owner, of the state it has in
memory (`WorkerOwns`); a child knows whether its pid is the recorded one
(`ChildFits`); while the engine before lives and is recorded, every resume has seen
it and none is past the lock (`OldSeen`); and past a point the holder goes on only
when no live engine is recorded, so that nobody else writes and what it read is
what is there (`HeldQuiet`). They assume
`Calm == Timely /\ Mortal \cap Detached = {}`: the deadline of a hand-over does not
pass before the child claims the batch, and launchers live. Without either, the
child loses its protection and a second engine can be made (behaviour 55). The
other assumptions of the module only name things apart: a child is no shell, the
marks are not values.

*Matrix task* (`MatrixTaskProofs`), for any rows, plain tasks, slots and faults.
`PoolInv` joins the types with three facts: a slot has one holder and is in the
pool's record, and a waiter is in line once and only while all slots are taken
(`PoolFits`); whose work is on has a slot (`JobsFit`); rows are at work in the
sweep only (`SweepFits`). The lemmas `AcquireFits` and `ReleaseFits` do the work;
`PoolRefinement` reads the refinement of `SlotPool` off them, `CapIsKept` counts
holders through an injection into the slots. `SuccessIsWhole` proves
`SucceededIsWhole`: .DONE exists only when every row that counts is in the branch
(`DoneIsWhole`), because after a sweep that went well every row is canceled,
merged or still to be merged (`MergeRows`), because during the sweep a row that
had succeeded is carried over with its worktree and one that goes well has one
(`SweepRows`). `FinishedRowsStay` is an action property from the same invariant.

*Task run* (`TaskRunProofs`), for any required reviews, attempts, restarts and
faults. `ReworksAreBounded` and `FinishedIsReviewed` have small invariants of
their own. `SuccessWasReviewed` and `FinalPassedThisWork` rest on `ReviewInv`:
reviews pass in their order; what a resume can honour - the journal's verdict, or
the newest file of the step - is the last thing its reviewer said; a final pass
is the last thing that happens to the work. They assume `~SharedStep`: with plan
and code in one step the two reviews share a file, and the property is false
(section 5).

*Gate* (`IntegrateGateProofs`). `GateInvariant`: what processes hold in memory are
records that were opened (`RecordInv`), a gate whose rejection is final is in no
hand that could save it otherwise (`FinalIsOver`), an integration under way was let
pass by an approval of the revision it was checked at (`PassedIsApproved`), and what
base has of the batch came from its orch branch, so that an integration puts there
what it checked (`LandingIsOrch`). `LandedApproved` (`LandedWasApproved`) and
`RejectedStays` (`RejectionIsFinal`) follow. `AutoIsEarned` (`AutoNeedsStreak`)
follows from `StreakIsEarned`: unless the journal says that the streak could not be
reset, and even then while somebody who has searched the journals before is about to
read it, neither the streak nor any count loaded since the last reset exceeds the
approvals that earned it. `BaseIsKept`
(`KeepsBase`) is about the one step that moves base: it does so only from the base
that its process saw, so that nothing but the stale fast-forward (behaviour 2) can
lose a commit.

*Sequence* (`SequenceProofs`), for any graphs and
command lines. `RecordedLanded`: a recorded wave has landed. `DependenciesFirst`:
no task is started before its dependencies. `OkLanded` (`OkMeansLanded`): a command
that ends well has landed what it promised, because the sequence file covers all
the waves behind the point from which a resume goes on; the waves it goes past
are credited, announced or landed.

Every safety property that a passing run checks has a theorem, under the
assumptions named above. Only model-checked: liveness (`DeadHolderBroken`,
`PauseStops`, `EngineStops`, `WaiterServed`, `RunEnds`), which the prover does not
reach; and the planner, whose waves are computed by a recursive function and would
need induction. The instance of each run satisfies the assumptions of the theorems
about its properties.

## 5. What the models show of the code

Behaviours that a model reaches and that a document, a comment or a test rules
out, or that an operator would not expect. The first two have a run.

*Lost work.* (1) `lanes_lost_merge`: a resume that begins with a later wave never
goes back to one that was not merged, and finalizes without its work
(`resume-validation.mjs:84`). (2) `gate_orphan`: base is read again after the
fast-forward test; a commit in between is overwritten (`integrate.mjs:50`).
(3) The single-task `resume --force` of a reconstructed state finalizes without
merging (`resume.mjs:441`); the integration's own assertion then refuses.

*Lock and batch state.* (4) Between the rename of a live holder's lock file and
its put-back a fourth process can enter: two processes inside
(`batch-state-lock.mjs:246`); the header says the lock serializes. (5) The archive
check of the write guard is made only without a state file: an aborted batch's
engine may overwrite a new batch that is still planning
(`state-guards.mjs:102`; `state-io.mjs:152` says the check always runs). (6) A
resumed engine never looks for a pause: pause is journaled and confirmed, tasks go
on starting (`resume-multi.mjs:120`; docs/PRD.md:463). (7) The milestone reporter
turns an ended batch to paused when its journal ends in a pause
(`attached-runner-promote.mjs:223`; `pause.mjs:254`); it never makes one planning
or running. (8) Two plain resumes of a paused batch run the same tasks
(`resume-multi.mjs:104`). (9) The rollback of one unconfirmed pause undoes another
pause that was adopted (`pause.mjs:264`). (10) Two concurrent starts both pass the
active-batch check (`state.mjs:148`; docs/PRD.md:462). (11)
`reconcileOrphanedReviewEvents` has no caller, and `spine status` heals a state
by saving what it read earlier without the lock.

*Lanes and merge.* (12) A merge refused with needs_replan leaves the phase running
(`merge.mjs:737`). (13) A lane with one succeeded and one skipped or failed task
meets DoneMarkerMissing at its merge (`merge.mjs:764`). (14) A skipped task with
.DONE becomes succeeded on resume. (15) Tasks of a resume are not synced with the
orch branch. (16) A fresh engine's catch block removes worktrees while other lanes
run. (17) A skip in an aborted batch can turn it paused or completed. (18) A
failed commit leaves .DONE work on the lane branch. (57) When the
rows are rebuilt from the journal, after a merge or for a landing, one merged lane
is taken for the whole wave (`post-merge-finalize.mjs:34`): a lane at which that
merge broke off is then passed over.

*Matrix.* (19) Rows left running by a kill are neither run nor retried until they
are skipped (`matrix-run.mjs:645`). (20) A save that throws between the slot's
acquisition and its try block loses the slot (`matrix-run.mjs:713`). (21) The plain
tasks of a resume take no slot, so that more than `lanes.maxParallel` workers may
run (`matrix.mjs:464` says never). (22) `rowIndex` counts runnable rows in one
place and all rows in another (`matrix.mjs:274`, `matrix-run.mjs:702`); a crashed
sub-lane leaves its worktree; a failing `runMatrixTaskForResume` fails the whole
batch.

*Task run.* (23) With plan and code checkpoints in one step, a kill lets the plan's
approval pass for the code review (`review-artifacts.mjs:37`, `review-plan.mjs:40`);
`TaskRun` with `SharedStep = TRUE` violates `ReviewedBeforeSuccess`. (24) A retried
task's old PASS is honoured for its new work. (25) The resume path and every rework
drop the orphan salvage. (26) A hung worker with non-null static progress never
stalls (`heartbeat.mjs:354`, against `heartbeat.test.mjs:342`). (27) The session's
pid is the engine's. (28) Healing marks a worker's own .DONE succeeded without a
review. (29) A worker that outlives its engine writes in the retried task's
worktree. (30) Resume does not call `applyTaskReviewProfile`. (31) After a retry
with the attempts at their maximum there is exactly one more review.

*Gate.* (32) The second save of `openIntegrateGate` (`gate.mjs:166`) overwrites an
approval or rejection made while evidence is collected. (33) Approve and reject
load, check and save without a lock, and so does each count of the streak
(`gate-posture-streak.mjs:189`, `:205`): an approval that loaded it before a
rejection writes it back and the reset is lost. So is one that fails after an
automatic approval has searched the journals, and one that fails together with
its own journal event (`gate-posture-approve.mjs:62`); and a rejecter killed before
the reset leaves the streak. (34) The orch tip may move between the gate check and
the merge. (35) Salvage merges a lane branch nobody pinned, and calls the gate
without a batch state (`salvage-batch-integrate.mjs:159`, `:203`): once its batch is
archived the pin is compared with HEAD or with the tip of another batch
(`gate-revision.mjs:31`), where the comment at `gate-revision.mjs:49` says "the
current orch tip (same resolver as open)". Mostly that blocks a good gate; with the
approved revision checked out it lets the lane land although the orch branch has
moved on. `gate reopen` of one batch pins the tip of whichever batch is in the
state file (`gate.mjs:241`). A worktree salvage reports BaseMoved after it has
landed. (36) A
failed sync after a landed merge is never repeated. (37)
`gates.requireBeforeIntegrate` is read with `=== true` in one place and
`!== false` in another (`gate.mjs:390`, `sequence-wait.mjs:207`).

*Planner.* (38) First-fit packing puts a task that overlaps two lanes behind the
first only, so that it runs beside the second (`OverlapMayRunInParallel`);
docs/EXECUTION-FLOW.md:52 and `waves.mjs:132` say it is serialized, docs/PRD.md:378
the opposite.

*Sequence.* (39) `--resume` of the scope `pending` plans again without the landed
tasks: indexes shift, waves are skipped with ok, or from_wave_out_of_range for
ever; the operator runbook recommends it. (40) A resume forgets an absorbed
merge-blocked wave and exits 0 (runbook:1145). (41) The next wave's start clears
the blocked batch's state, so that the advised retry is impossible. (42)
`absorbMergeBlockedWave` forgets the waves landed in this run
(`sequence-run.mjs:236`): later waves are skipped though their dependencies are on
main (runbook:1143). (43) A detached start over an ended batch is refused by its
own pid (`detached-run.mjs:95`). (44) `--no-stop-on-failure` ends ok with failed
waves; partially skipped tasks are not in skippedWaves. (45) A kill between
completeBatch and the save of the sequence file runs a landed wave again
(idempotent). (46) A start with --skip-preflight unlinks a completed, unlanded
batch's state. (47) A detached start that times out halts although its engine may
still create the batch; two supervisors at once have no lock (neither is in the
model). (48) "Unexpected remaining nodes" in buildPlan and the matrix branch of
`assignLanesToWaves` cannot be reached.

*Resume handoff.* The definitions named here are in `ResumeHandoff`, where
instances of it violate them; they have no run of their own. (49) The lock file is
created empty and written after: a second forced resume that reads it in between
takes it for corrupt and unlinks it, and both hold the lock
(`attached-runner-reconcile.mjs:78`; the comment at `:53` says exclusive;
`LockIsExclusive`, two attached resumes). (50) The state is read before the lock is
taken (`attached-runner-reconcile.mjs:157`) and that reading decides whom to
terminate and what to save (`:225`, `:232`): an owner that took over in between and
has task work is killed, against the comment at `:175` (`LiveOwnerIsKept`). (51)
Without a state no lock is taken (`attached-runner-reconcile.mjs:159`): two forced
resumes of a lost batch both reconstruct it and work, the second one's claim being
refused without notice (`resume.mjs:179`); docs/adoption/operator-runbook.md:1849
says no dual engines (`OneLiveEngine`, with "lost" among `StartPhases`). (52) A
batch completed by another under a resume that was about to land it is gone on
with (`attached-runner-promote.mjs:446` answers null). (53) The launcher's own saves
move `updatedAt`, so that a forced detached resume of a failed batch reports
batch_engine_failed at once (`detached-wait.mjs:151`, `:182`, `:316`;
`FailureIsTheEngines`). (54) The launcher records the child's pid in a running
orphan batch (`detached-run.mjs:273`); the child's validation
(`resume-multi-validate.mjs:252`) takes itself for the live engine and answers
cannot_resume, while the launcher reports engine_started; the comment at
`resume-multi-validate.mjs:121` and runbook:1663 say that this does not dead-end
(`NoDeadEnd`). (55) A launcher that is killed, or whose deadline passes, leaves its
child without the lock: another forced resume makes a second engine. (56) A pause
saved during a hand-over makes a live engine terminable. The lock of a dead holder
whose pid was given to another process is kept for ever, as only the pid is looked
at (`attached-runner-reconcile.mjs:94`); a `process.exit` leaves the file to be
found stale.

## 6. What is left

1. Proofs: `NothingAbandoned` with a resume, `RunningHasOwner` with several. Where
   several commands of a kind falsify a property (`RunningIsOwned`,
   `NoAbandonedBatch`), history variables for the
   behaviours of section 5 that do it, as `slips` in `ResumeHandoff`, would let the
   theorems drop "one batch, one pause".
2. The shutdown handlers that land a limbo on SIGTERM, plain resumes and pauses
   beside a forced one in `ResumeHandoff`, liveness of the handoff under its
   deadline, lock timeouts in the commands of `BatchState`.
3. Two supervisors in `Sequence`, and the detached start that outlives its
   supervisor's timeout.

## 7. Not modelled

The models cover the parts with a protocol or a state machine of their own; they
map less than a third of the repository's implementation lines, because most of
those parse, validate, report or generate:

* Command line, configuration, doctor, dashboard, metrics, migration, packet
  discovery and parsing, the scripts and the editor extension transform or report
  data and keep no shared state.
* Journal and rebuild: a single fold over forty event types. `BatchState` has the
  last pause event, `LaneScheduler` the completed tasks and merges, `TaskRun` the
  last verdicts.
* Detached start and the spawn of a supervisor: child processes, signals and exit
  handlers; `Sequence` has their outcomes as steps. The detached resume is in
  `ResumeHandoff`.
* Reconciliation for display and diagnosis only read. What reconciliation changes
  is in `LaneScheduler`, `TaskRun` and `MatrixTask`.
* Git, worktrees, the file system and process liveness are taken from their use: a
  git call succeeds or fails, a rename is atomic, a live process is seen alive.
* Classification of a provider's quota messages, the text of reviews and of git's
  conflicts: one failure each. The `.pi/batch-state.json` of another tool and
  quarantined corrupt files are left out.
