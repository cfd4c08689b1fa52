----------------------------- MODULE BatchState -----------------------------
(* The life of .spine/batch-state.json: src/src/batch/{state-io,state-guards,*)
(* engine,pause,resume,abort,lifecycle,post-merge-limbo}.mjs                 *)
(*                                                                           *)
(* Every process runs one command and ends: `batch start` and `batch resume` *)
(* become engines that drive the batch, the others act on its state.  All of *)
(* them share the one state file; each hold of the batch-state lock is one   *)
(* step (module BatchStateLock says when it is exclusive), and so is each    *)
(* read outside it.  Tasks are left out: an engine works through ticks and   *)
(* wave merges, as many as it likes.                                         *)
EXTENDS Naturals

CONSTANTS
  Starter,     \* `batch start`: the batch it creates bears its name
  Resumer,     \* `batch resume` without --force
  Pauser,      \* `batch pause`
  Aborter,     \* `batch abort`
  Closer,      \* `batch complete` and `batch dismiss`
  Forced,      \* the closers that run `dismiss --force`
  Attached,    \* the engines that run under an attached milestone reporter
  Mortal,      \* the processes that may be killed
  NoState,     \* no batch-state.json
  NoOne        \* no resilience.enginePid

Engine == Starter \cup Resumer
Proc == Engine \cup Pauser \cup Aborter \cup Closer

ACTIVE_PHASES == {"planning", "running", "paused"}
TERMINAL_BATCH_PHASES == {"completed", "failed", "aborted", "merge_blocked"}
Phase == ACTIVE_PHASES \cup TERMINAL_BATCH_PHASES

(* owner is resilience.enginePid, ended says that endedAt is set, landed     *)
(* that the last wave is merged and no task is left.                         *)
State == [id : Starter, phase : Phase, owner : Engine \cup {NoOne},
          ended : BOOLEAN, landed : BOOLEAN]

ASSUME StateAssumption ==
  /\ NoState \notin State /\ NoOne \notin Engine
  /\ \A p \in Starter : p \notin Resumer
  /\ \A p \in Engine : p \notin Pauser \cup Aborter \cup Closer
  /\ Forced \subseteq Closer /\ Attached \subseteq Engine
  /\ Mortal \subseteq Proc

VARIABLES
  disk,        \* batch-state.json
  archived,    \* batches with an archive/batch-state.json
  paused,      \* batches whose last batch.paused has no later batch.resumed
  signalled,   \* batches with an abort-signal.json
  provisioned, \* batches whose lane worktrees exist
  mem,         \* the state object each process holds in memory
  pc           \* where each process is in its command

vars == <<disk, archived, paused, signalled, provisioned, mem, pc>>

PC == {"new", "check", "plan", "planned", "provision", "boundary", "adopt",
       "tick", "merge", "finalize", "gate", "final", "exiting",
       "validate", "load", "limbo", "claim", "save", "resumed",
       "write", "waiting", "saw", "clobbered", "rollback", "journal",
       "lock", "done", "dead"}

Init ==
  /\ disk = NoState
  /\ archived = {} /\ paused = {} /\ signalled = {} /\ provisioned = {}
  /\ mem = [p \in Proc |-> NoState]
  /\ pc = [p \in Proc |-> "new"]
-----------------------------------------------------------------------------
(* Reading and writing the state file.                                       *)

Goto(p, from, to) == pc[p] = from /\ pc' = [pc EXCEPT ![p] = to]
Keep(p, m) == mem' = [mem EXCEPT ![p] = m]

DiskIn(phases) == disk # NoState /\ disk.phase \in phases

Alive(p) == pc[p] \notin {"new", "done", "dead"}
OwnerAlive(d) == d.owner # NoOne /\ Alive(d.owner)

(* evaluateBatchStateWriteGuard, for a state m that process p wants to save. *)
OtherBatchIsOver(m) ==
  disk.id # m.id /\ disk.phase \in TERMINAL_BATCH_PHASES /\ ~OwnerAlive(disk)

(* Mutant: a bypass skips the archive check as well (before SP-790). *)
MayWriteBypassesAll(p, m, bypassOwnerCheck) ==
  \/ bypassOwnerCheck
  \/ disk = NoState /\ m.id \notin archived
  \/ /\ disk # NoState
     /\ OtherBatchIsOver(m) \/ disk.owner = p \/ ~OwnerAlive(disk)

MayWrite(p, m, bypassOwnerCheck) ==
  IF disk = NoState
  THEN m.id \notin archived
  ELSE \/ OtherBatchIsOver(m)
       \/ bypassOwnerCheck
       \/ disk.owner = p
       \/ ~OwnerAlive(disk)

(* persistSpineBatchStateGuarded: a terminal phase drops the engine pid; a   *)
(* refused write is a no-op that the caller does not notice.                 *)
Persisted(m) ==
  IF m.phase \in TERMINAL_BATCH_PHASES THEN [m EXCEPT !.owner = NoOne] ELSE m

SaveAs(p, m, bypassOwnerCheck) ==
  IF MayWrite(p, m, bypassOwnerCheck)
  THEN disk' = Persisted(m) /\ Keep(p, Persisted(m))
  ELSE Keep(p, m) /\ UNCHANGED disk

saveSpineBatchState(p, m) == SaveAs(p, m, FALSE)

(* Mutant: only the phase on disk says that the operator paused. *)
PauseOnDisk(m) == DiskIn({"paused"})

(* mergeEngineStateWithDiskPause: the pause of whatever batch is on disk, or *)
(* the one in this batch's journal, overrides the phase in memory.           *)
PauseRequested(m) ==
  m.id \in paused \/ DiskIn({"paused"})

Merged(m) == IF PauseRequested(m) THEN [m EXCEPT !.phase = "paused"] ELSE m

saveEngineBatchState(p, m) == SaveAs(p, Merged(m), FALSE)

Marks == <<archived, paused, signalled, provisioned>>
-----------------------------------------------------------------------------
(* `batch start`: startBatch.                                                *)

(* clearStaleTerminalBatchStateForStart, one lock hold: a state that ended   *)
(* is unlinked, unless its engine is alive.                                  *)
ClearStale(s) ==
  LET ended == disk.phase \in TERMINAL_BATCH_PHASES \/ disk.ended
  IN /\ IF disk = NoState
        THEN Goto(s, "new", "check") /\ UNCHANGED disk
        ELSE IF ended /\ OwnerAlive(disk)
        THEN Goto(s, "new", "done") /\ UNCHANGED disk
        ELSE Goto(s, "new", "check") /\ disk' = IF ended THEN NoState ELSE disk
     /\ UNCHANGED <<mem, Marks>>

(* The rest of assertNoActiveBatch, after the lock is released. *)
CheckActive(s) ==
  /\ Goto(s, "check", IF DiskIn(ACTIVE_PHASES) THEN "done" ELSE "plan")
  /\ UNCHANGED <<disk, mem, Marks>>

(* Scope, plan and git branches have been settled: createInitialBatchState.  *)
SavePlan(s) ==
  /\ Goto(s, "plan", "planned")
  /\ saveEngineBatchState(s, [id |-> s, phase |-> "planning", owner |-> NoOne,
                              ended |-> FALSE, landed |-> FALSE])
  /\ UNCHANGED Marks

(* transitionPhase to running, recordBatchEnginePid and the next save. *)
Run(s) ==
  /\ Goto(s, "planned", "provision")
  /\ saveEngineBatchState(s, [mem[s] EXCEPT !.phase = "running", !.owner = s])
  /\ UNCHANGED Marks

ProvisionLanes(s) ==
  /\ Goto(s, "provision", "boundary")
  /\ provisioned' = provisioned \cup {s}
  /\ saveEngineBatchState(s, mem[s])
  /\ UNCHANGED <<archived, paused, signalled>>
-----------------------------------------------------------------------------
(* `batch resume`: resumeBatch and resumeMultiTaskBatch.                     *)

(* enforceAttachedEngineSingleOwner refuses while the recorded pid is alive. *)
EnforceSingleOwner(r) ==
  LET owned == disk # NoState /\ OwnerAlive(disk)
  IN /\ Goto(r, "new", IF owned THEN "done" ELSE "validate")
     /\ UNCHANGED <<disk, mem, Marks>>

PostMergeLimbo(d) == d.landed /\ d.phase = "running" /\ ~d.ended

(* What validateMultiTaskResume may accept; whether a failed batch is in     *)
(* retry limbo, or a running one an orphan, depends on its tasks as well.    *)
Resumable(d) ==
  /\ d.id \in provisioned
  /\ \/ PostMergeLimbo(d)
     \/ ~d.landed /\ \/ d.phase \in {"paused", "failed"}
                     \/ d.phase = "running" /\ ~OwnerAlive(d)

ValidateResume(r) ==
  /\ pc[r] = "validate" /\ disk # NoState /\ Resumable(disk)
  /\ Goto(r, "validate", IF PostMergeLimbo(disk) THEN "limbo" ELSE "load")
  /\ UNCHANGED <<disk, mem, Marks>>

RefuseResume(r) ==
  /\ Goto(r, "validate", "done")
  /\ UNCHANGED <<disk, mem, Marks>>

(* The state is read again, and terminateStaleDetachedEngine kills an engine *)
(* that is still alive in an eligible phase and drops its pid.               *)
MayTerminate(d) == d.phase \in {"paused", "failed"} \/ PostMergeLimbo(d)

LoadAndHandOff(r) ==
  LET stale == disk.owner
      kill == OwnerAlive(disk) /\ MayTerminate(disk)
      next == IF pc[r] = "limbo" THEN "claim" ELSE "save"
  IN /\ pc[r] \in {"load", "limbo"} /\ disk # NoState
     /\ pc' = [p \in Proc |-> IF p = r THEN next
                              ELSE IF kill /\ p = stale THEN "dead" ELSE pc[p]]
     /\ Keep(r, IF kill \/ ~OwnerAlive(disk)
                THEN [disk EXCEPT !.owner = NoOne] ELSE disk)
     /\ UNCHANGED <<disk, Marks>>

LoadFindsNothing(r) ==
  /\ disk = NoState
  /\ Goto(r, "load", "done") \/ Goto(r, "limbo", "done")
  /\ UNCHANGED <<disk, mem, Marks>>

(* Mutant: the resumed engine does not record its pid. *)
SaveRunningNoPid(r) ==
  LET m == [mem[r] EXCEPT !.phase = "running", !.ended = FALSE]
  IN /\ Goto(r, "save", IF mem[r].phase = "paused" THEN "resumed" ELSE "boundary")
     /\ saveSpineBatchState(r, m)
     /\ UNCHANGED Marks

(* The guard may refuse this save; the resume goes on all the same. *)
SaveRunning(r) ==
  LET m == [mem[r] EXCEPT !.phase = "running", !.owner = r, !.ended = FALSE]
  IN /\ Goto(r, "save", IF mem[r].phase = "paused" THEN "resumed" ELSE "boundary")
     /\ saveSpineBatchState(r, m)
     /\ UNCHANGED Marks

(* A batch whose last wave is merged is only finalized. *)
ClaimLimbo(r) ==
  /\ Goto(r, "claim", "finalize")
  /\ SaveAs(r, mem[r], TRUE)
  /\ UNCHANGED Marks

(* recordResumePhaseTransition journals batch.resumed for a paused batch.    *)
JournalResumed(r) ==
  /\ Goto(r, "resumed", "boundary")
  /\ paused' = paused \ {mem[r].id}
  /\ UNCHANGED <<disk, archived, signalled, provisioned, mem>>
-----------------------------------------------------------------------------
(* The engine's loop: waves, ticks and merges.                               *)

(* adoptPauseIfRequested before and after each tick, in startBatch only: the *)
(* read,                                                                     *)
ObservePause(s) ==
  /\ s \in Starter /\ Goto(s, "boundary", "adopt")
  /\ PauseRequested(mem[s])
  /\ Keep(s, Merged(mem[s]))
  /\ UNCHANGED <<disk, Marks>>

(* then the save and engine.pause_observed. *)
AdoptPause(s) ==
  /\ Goto(s, "adopt", "exiting")
  /\ saveEngineBatchState(s, mem[s])
  /\ UNCHANGED Marks

Proceed(e) ==
  /\ Goto(e, "boundary", "tick") \/ Goto(e, "boundary", "merge")
  /\ e \in Resumer \/ ~PauseRequested(mem[e])
  /\ UNCHANGED <<disk, mem, Marks>>

(* Task, lane and heartbeat progress: some saves merge the pause, others     *)
(* (recordTaskTransition, every save of resume-multi-lanes) do not.          *)
SaveMergedProgress(e) ==
  /\ pc[e] = "tick" /\ UNCHANGED pc
  /\ saveEngineBatchState(e, mem[e])
  /\ UNCHANGED Marks

SaveDirectProgress(e) ==
  /\ pc[e] = "tick" /\ UNCHANGED pc
  /\ saveSpineBatchState(e, mem[e])
  /\ UNCHANGED Marks

EndTick(e) ==
  /\ Goto(e, "tick", "boundary")
  /\ UNCHANGED <<disk, mem, Marks>>

(* The batch ends: startBatch saves this merged, the resumed engine direct.  *)
Finish(e, phase) ==
  LET m == [mem[e] EXCEPT !.phase = phase, !.ended = TRUE]
  IN IF e \in Starter THEN saveEngineBatchState(e, m)
                      ELSE saveSpineBatchState(e, m)

(* A worker saw the abort signal. *)
StopOnAbort(e) ==
  /\ Goto(e, "tick", "exiting")
  /\ mem[e].id \in signalled
  /\ Finish(e, "aborted")
  /\ UNCHANGED Marks

(* Provisioning, a task or a merge threw, or the wave had a mixed outcome.   *)
Fail(e) ==
  /\ pc[e] \in {"planned", "provision", "boundary", "tick", "merge"}
  /\ pc' = [pc EXCEPT ![e] = "exiting"]
  /\ Finish(e, "failed")
  /\ UNCHANGED Marks

(* mergeWaveLanesToOrch: recordMergeBlocked, *)
BlockMerge(e) ==
  /\ Goto(e, "merge", "exiting")
  /\ saveSpineBatchState(e, [mem[e] EXCEPT !.phase = "merge_blocked",
                                           !.ended = TRUE, !.owner = NoOne])
  /\ UNCHANGED Marks

(* or the merge result, after which there are more waves or none.            *)
MergeWave(e) ==
  /\ \/ /\ Goto(e, "merge", "boundary")
        /\ saveSpineBatchState(e, mem[e])
     \/ /\ Goto(e, "merge", "finalize")
        /\ saveSpineBatchState(e, [mem[e] EXCEPT !.landed = TRUE])
  /\ UNCHANGED Marks

(* finalizeBatchForIntegrate: the pid is dropped before evidence is          *)
(* collected; all its saves bypass the owner check.                          *)
ClearPid(e) ==
  /\ Goto(e, "finalize", "gate")
  /\ SaveAs(e, [mem[e] EXCEPT !.owner = NoOne, !.ended = TRUE], TRUE)
  /\ UNCHANGED Marks

(* The integrate gate is open; a batch archived meanwhile is left alone, *)
LateFinalize(e) ==
  LET skip == disk = NoState /\ mem[e].id \in archived
  IN /\ Goto(e, "gate", IF skip THEN "exiting" ELSE "final")
     /\ UNCHANGED <<disk, mem, Marks>>

(* any other one is completed. *)
SaveCompleted(e) ==
  /\ Goto(e, "final", "exiting")
  /\ SaveAs(e, [mem[e] EXCEPT !.phase = "completed"], TRUE)
  /\ UNCHANGED Marks

(* enforceOperatorPauseOnDisk, from the milestone reporter of an attached    *)
(* engine: it polls once before the engine starts, whenever the engine       *)
(* awaits something, and is stopped only after the engine has returned.  It  *)
(* reads the phase and writes it in one lock hold (updateSpineBatchState),   *)
(* and it does not ask whether the batch has ended.                          *)
Awaits == {"new", "plan", "planned", "provision", "boundary", "adopt", "tick",
           "merge", "finalize", "exiting"}

EnforcePause(e) ==
  /\ e \in Attached /\ pc[e] \in Awaits
  /\ disk # NoState /\ disk.id \in paused
  /\ disk' = [disk EXCEPT !.phase = "paused"]
  /\ UNCHANGED <<mem, pc, Marks>>

Exit(e) ==
  /\ Goto(e, "exiting", "done")
  /\ UNCHANGED <<disk, mem, Marks>>
-----------------------------------------------------------------------------
(* `batch pause`: pauseBatch.                                                *)

Pausable == DiskIn({"running", "planning"})

(* The pre-load keeps the phase to roll back to, and the pid when alive.     *)
LoadForPause(c) ==
  /\ Goto(c, "new", IF Pausable THEN "write" ELSE "done")
  /\ IF Pausable
     THEN Keep(c, IF OwnerAlive(disk) THEN disk ELSE [disk EXCEPT !.owner = NoOne])
     ELSE UNCHANGED mem
  /\ UNCHANGED <<disk, Marks>>

(* Mutant: the phase is not read again under the lock (before SP-791). *)
WritePauseUnchecked(c) ==
  LET next == IF mem[c].owner = NoOne THEN "journal" ELSE "waiting"
  IN /\ Goto(c, "write", IF disk # NoState THEN next ELSE "done")
     /\ disk' = IF disk # NoState THEN [disk EXCEPT !.phase = "paused"] ELSE disk
     /\ UNCHANGED <<mem, Marks>>

(* Mutant: Taskplane's word for a paused batch. *)
WriteStopped(c) ==
  /\ Goto(c, "write", "journal")
  /\ disk' = IF disk # NoState THEN [disk EXCEPT !.phase = "stopped"] ELSE disk
  /\ UNCHANGED <<mem, Marks>>

(* updateSpineBatchState under the lock; with an engine the write has to be  *)
(* confirmed, without one it is journaled at once.                           *)
WritePause(c) ==
  LET next == IF mem[c].owner = NoOne THEN "journal" ELSE "waiting"
      ok == DiskIn({"running", "planning", "paused"})
  IN /\ Goto(c, "write", IF ok THEN next ELSE "done")
     /\ disk' = IF ok THEN [disk EXCEPT !.phase = "paused"] ELSE disk
     /\ UNCHANGED <<mem, Marks>>

(* waitForPauseConfirmation polls for three seconds: has it seen paused, and *)
(* then running again?                                                       *)
PollPause(c) ==
  /\ \/ Goto(c, "waiting", "saw") /\ DiskIn({"paused"})
     \/ Goto(c, "saw", "clobbered") /\ DiskIn({"running"})
  /\ UNCHANGED <<disk, mem, Marks>>

ConfirmPause(c) ==
  LET held == DiskIn({"paused"}) /\ pc[c] # "clobbered"
  IN /\ pc[c] \in {"waiting", "saw", "clobbered"}
     /\ pc' = [pc EXCEPT ![c] = IF held THEN "journal" ELSE "rollback"]
     /\ UNCHANGED <<disk, mem, Marks>>

(* Mutant: the phase is put back whatever is there (before SP-791). *)
RollBackAlways(c) ==
  /\ Goto(c, "rollback", "done")
  /\ disk' = IF disk # NoState THEN [disk EXCEPT !.phase = mem[c].phase] ELSE disk
  /\ UNCHANGED <<mem, Marks>>

(* Only a state that is still paused is put back to its phase before.        *)
RollBackPause(c) ==
  /\ Goto(c, "rollback", "done")
  /\ disk' = IF DiskIn({"paused"}) THEN [disk EXCEPT !.phase = mem[c].phase]
                                  ELSE disk
  /\ UNCHANGED <<mem, Marks>>

(* batch.paused; the operator is told that no new task will be scheduled.    *)
JournalPaused(c) ==
  /\ Goto(c, "journal", "done")
  /\ paused' = paused \cup {mem[c].id}
  /\ UNCHANGED <<disk, archived, signalled, provisioned, mem>>
-----------------------------------------------------------------------------
(* `batch abort`, `batch complete` and `batch dismiss`.                      *)

(* What they do is decided on a read before the lock; they may also refuse a *)
(* batch for its diagnosis, which depends on its tasks.                      *)
LoadToClose(c) ==
  /\ Goto(c, "new", "done") \/ (disk # NoState /\ Goto(c, "new", "lock"))
  /\ Keep(c, disk)
  /\ UNCHANGED <<disk, Marks>>

SameBatch(c) == disk # NoState /\ disk.id = mem[c].id

Archive(id) == archived' = archived \cup {id} /\ disk' = NoState

(* One lock hold: reloadStateForTerminalWrite, archive, clear; abort leaves  *)
(* its signal for the engine.                                                *)
Abort(a) ==
  /\ Goto(a, "lock", "done")
  /\ IF SameBatch(a)
     THEN Archive(disk.id) /\ signalled' = signalled \cup {disk.id}
     ELSE UNCHANGED <<disk, archived, signalled>>
  /\ UNCHANGED <<paused, provisioned, mem>>

(* Complete and dismiss refuse a batch that is active again by now.          *)
Close(c) ==
  /\ Goto(c, "lock", "done")
  /\ IF SameBatch(c) /\ (c \in Forced \/ disk.phase \notin ACTIVE_PHASES)
     THEN Archive(disk.id)
     ELSE UNCHANGED <<disk, archived>>
  /\ UNCHANGED <<paused, signalled, provisioned, mem>>
-----------------------------------------------------------------------------
(* SIGKILL, or the machine goes down. *)
Kill(p) ==
  /\ p \in Mortal /\ Alive(p)
  /\ pc' = [pc EXCEPT ![p] = "dead"]
  /\ UNCHANGED <<disk, mem, Marks>>

Start(s) == ClearStale(s) \/ CheckActive(s) \/ SavePlan(s)
            \/ Run(s) \/ ProvisionLanes(s)
Resume(r) == \/ EnforceSingleOwner(r) \/ ValidateResume(r) \/ RefuseResume(r)
             \/ LoadAndHandOff(r) \/ LoadFindsNothing(r)
             \/ ClaimLimbo(r) \/ SaveRunning(r) \/ JournalResumed(r)
Loop(e) == \/ ObservePause(e) \/ AdoptPause(e) \/ Proceed(e)
           \/ EndTick(e) \/ StopOnAbort(e) \/ BlockMerge(e) \/ MergeWave(e)
Progress(e) == \/ SaveMergedProgress(e) \/ SaveDirectProgress(e)
               \/ Fail(e) \/ EnforcePause(e)
Land(e) == ClearPid(e) \/ LateFinalize(e) \/ SaveCompleted(e) \/ Exit(e)
Pause(c) == \/ LoadForPause(c) \/ WritePause(c) \/ PollPause(c)
            \/ ConfirmPause(c) \/ RollBackPause(c) \/ JournalPaused(c)

Next ==
  \/ \E s \in Starter : Start(s)
  \/ \E r \in Resumer : Resume(r)
  \/ \E e \in Engine : Loop(e) \/ Progress(e) \/ Land(e)
  \/ \E c \in Pauser : Pause(c)
  \/ \E a \in Aborter : LoadToClose(a) \/ Abort(a)
  \/ \E c \in Closer : LoadToClose(c) \/ Close(c)
  \/ \E p \in Proc : Kill(p)

(* A live engine's event loop runs, and a tick ends: every worker is bounded *)
(* by its stall and task timeouts.                                           *)
Fairness == \A e \in Engine : WF_vars(Loop(e)) /\ WF_vars(Land(e))

Spec == Init /\ [][Next]_vars /\ Fairness
-----------------------------------------------------------------------------
TypeOK ==
  /\ disk \in State \cup {NoState}
  /\ archived \subseteq Starter /\ paused \subseteq Starter
  /\ signalled \subseteq Starter /\ provisioned \subseteq Starter
  /\ mem \in [Proc -> State \cup {NoState}]
  /\ pc \in [Proc -> PC]

(* A process that goes on to save or to compare its state has read one: what *)
(* makes TypeOK inductive.                                                   *)
WithState == {"planned", "provision", "boundary", "adopt", "tick", "merge",
              "finalize", "gate", "final", "exiting", "claim", "save",
              "resumed", "write", "waiting", "saw", "clobbered", "rollback",
              "journal", "lock"}
MemLoaded == \A p \in Proc : pc[p] \in WithState => mem[p] \in State

BatchTyped == TypeOK /\ MemLoaded

(* evaluateBatchStateWriteGuard: a late save must not recreate the state of  *)
(* a batch that complete, dismiss or abort has archived.                     *)
ArchivedStaysGone == disk # NoState => disk.id \notin archived

(* enforceAttachedEngineSingleOwner: two engines never work on the tasks of  *)
(* the same batch, in the same worktrees.                                    *)
OneEngine ==
  \A e, f \in Engine :
    pc[e] = "tick" /\ pc[f] = "tick" /\ mem[e].id = mem[f].id => e = f

(* assertNoActiveBatch (FR-BATCH-03): two started batches are never worked on *)
(* together, unless one of them is already aborted or dismissed.             *)
OneActiveBatch ==
  \A s, t \in Starter \ archived : pc[s] = "tick" /\ pc[t] = "tick" => s = t

(* A running batch with tasks left names the engine that runs it, so that    *)
(* every single-owner check has a pid to look at.                            *)
RunningIsOwned ==
  DiskIn({"running"}) /\ ~disk.ended /\ ~disk.landed => disk.owner # NoOne

(* No engine leaves its batch planning or running on disk when it exits: the *)
(* paused, failed or finished outcome survives every racing save, pause and  *)
(* rollback, so only a killed engine leaves an orphan.                       *)
NoAbandonedBatch ==
  DiskIn({"planning", "running"}) =>
    \E e \in Engine : /\ mem[e] # NoState /\ mem[e].id = disk.id
                      /\ Alive(e) \/ pc[e] = "dead"

(* A batch that has ended is never active again on disk, whatever pauses,    *)
(* rollbacks and late saves race with its end, unless a `batch resume` has   *)
(* begun; the milestone reporter of an attached engine may put it to paused, *)
(* never to running, and only while the last word of its journal is a pause. *)
TerminalStays ==
  [][(/\ DiskIn(TERMINAL_BATCH_PHASES) /\ DiskIn(ACTIVE_PHASES)'
      /\ disk'.id = disk.id)
     => \/ \E r \in Resumer : pc[r] # "new"
        \/ disk' = [disk EXCEPT !.phase = "paused"] /\ disk.id \in paused]_vars

(* FR-BATCH-04: once batch.paused is journaled, an engine starts no further  *)
(* tick of tasks.                                                            *)
NoTickWhilePaused ==
  [][\A e \in Engine :
       pc[e] = "boundary" /\ pc'[e] = "tick" => mem[e].id \notin paused]_vars

(* The engine that started a batch stops for a journaled pause, although its *)
(* own saves may have overwritten the pause on disk, unless it is resumed.   *)
Working(e) == pc[e] \in {"boundary", "tick", "merge"}
PauseStops ==
  \A s \in Starter :
    (Working(s) /\ s \in paused) ~> (~Working(s) \/ s \notin paused)
=============================================================================
