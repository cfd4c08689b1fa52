--------------------------- MODULE ResumeHandoff ---------------------------
(* `spine batch resume --force`, detached and attached: who becomes the      *)
(* engine of a batch (detached-run.mjs, detached-wait.mjs, resume.mjs,       *)
(* attached-runner-*.mjs, resume-engine.mjs, batch-meta-reconstruct.mjs).    *)
(*                                                                           *)
(* A detached resume is a shell: it takes the handoff lock, terminates the   *)
(* engine before, spawns a child, records the child's pid and waits for it.  *)
(* The child, like an attached resume, runs resumeBatch: it makes the same   *)
(* checks once more, on its own reads, and then works.  Each read and write  *)
(* of a file is a step; a hold of the batch-state lock is one step.          *)
EXTENDS Naturals, FiniteSets

CONSTANTS
  Shell,        \* the forced resumes an operator types
  Attached,     \* those with --attached: they work themselves
  WaitTerminal, \* those that wait for the end of the batch
  Old,          \* the engine of the batch before any of them
  Mortal,       \* processes that may be killed or crash, or lose their parent
  Timely,       \* a child loads the state after its shell recorded its pid,
                \* and has claimed the batch, or not, before the deadline
  StartPhases,  \* the phases the batch may be in at first; "lost": no state
  NoState, NoLock, NoOne

Child(s) == <<s>>
Spawned == {Child(s) : s \in Shell \ Attached}
Proc == Shell \cup Spawned \cup {Old}
Runner == Attached \cup Spawned

ASSUME HandoffAssumption ==
  /\ Attached \subseteq Shell
  /\ WaitTerminal \subseteq Shell /\ Mortal \subseteq Proc
  /\ Old \notin Shell /\ NoOne \notin Proc
  /\ Spawned \cap Shell = {} /\ Old \notin Spawned
  /\ Timely \in BOOLEAN

Phase == {"running", "paused", "failed", "merge_blocked", "completed"}
TERMINAL_BATCH_PHASES == {"failed", "merge_blocked", "completed"}

(* left: are tasks pending or running, is only the merge of the last wave    *)
(* to be done, or nothing but the gate?                                      *)
State == [phase : Phase, pid : Proc \cup {NoOne},
          left : {"tasks", "merge", "none"}]
LockFile == [pid : Proc, written : BOOLEAN]

ASSUME MarksAssumption == NoState \notin State /\ NoLock \notin LockFile

VARIABLES
  disk,    \* batch-state.json
  lock,    \* resume-handoff.lock
  mem,     \* the state each process has read
  tries,   \* how each process tries to create the lock file
  newer,   \* shells for which updatedAt is past what they validated
  report,  \* what each detached shell told the operator
  written, \* children that have saved the batch as running
  slips,   \* history: a live process's lock was unlinked ("lock"), a handoff
           \* took for current a state that had changed ("reading"), a batch
           \* was completed under a resume about to land it ("limbo"), a resume
           \* found no state and so took no lock ("lost")
  pc

vars == <<disk, lock, mem, tries, newer, report, written, slips, pc>>

PC == {"unborn", "new", "loaded", "create", "fill", "holder", "drop", "own",
       "handoff", "check", "limbo", "claim", "land", "prepare", "save",
       "spawn", "pid", "persist", "poll", "working", "exiting", "refused", "done",
       "dead"}

Init ==
  /\ disk \in {NoState} \cup [phase : Phase, pid : {Old, NoOne},
                              left : {"tasks", "merge", "none"}]
  /\ IF disk = NoState
     THEN "lost" \in StartPhases
     ELSE /\ disk.phase \in StartPhases
          /\ disk.phase \in TERMINAL_BATCH_PHASES => disk.pid = NoOne
          /\ disk.phase = "completed" <=> disk.left = "none" /\ disk.phase # "running"
  /\ lock = NoLock
  /\ mem = [p \in Proc |-> disk]
  /\ tries = [p \in Proc |-> "first"]
  /\ newer = {} /\ written = {} /\ slips = {}
  /\ report = [s \in Shell |-> "none"]
  /\ \E old \in {"working", "dead"} :
       /\ old = "working" => disk # NoState /\ disk.pid = Old
       /\ pc = [p \in Proc |-> IF p = Old THEN old
                               ELSE IF p \in Spawned THEN "unborn" ELSE "new"]

Goto(p, from, to) == pc[p] = from /\ pc' = [pc EXCEPT ![p] = to]
Keep(p, m) == mem' = [mem EXCEPT ![p] = m]
Alive(x) == x \in Proc /\ pc[x] \notin {"unborn", "refused", "done", "dead"}
Other(p, m) == m.pid # p /\ Alive(m.pid)
Notes == <<tries, report, written, slips>>

(* saveSpineBatchState: a live owner's state is not overwritten, silently; a *)
(* terminal phase drops the pid; every write moves updatedAt.                *)
Persisted(m) ==
  IF m.phase \in TERMINAL_BATCH_PHASES THEN [m EXCEPT !.pid = NoOne] ELSE m
Write(m) == disk' = Persisted(m) /\ newer' = Shell
MayWrite(p) == disk = NoState \/ ~Other(p, disk)
Save(p, m) ==
  IF MayWrite(p) THEN Write(m) ELSE UNCHANGED <<disk, newer>>

(* releaseResumeHandoffLock: only the file that names the caller is removed. *)
Released(p) ==
  IF lock # NoLock /\ lock.written /\ lock.pid = p THEN NoLock ELSE lock
Release(p) == lock' = Released(p)
-----------------------------------------------------------------------------
(* enforceAttachedEngineSingleOwner. *)

(* The state is read before anything is locked.  A child starts slowly: node *)
(* itself takes longer than the write of the pid.                            *)
Load(p) ==
  /\ p \in Spawned /\ Timely => pc[p[1]] \notin {"pid", "persist"}
  /\ Goto(p, "new", "loaded")
  /\ Keep(p, disk)
  /\ UNCHANGED <<disk, lock, newer, Notes>>

(* Mutant: a live engine with task work is taken over as well. *)
CheckOwnerBusy(p) ==
  /\ Goto(p, "loaded",
          IF mem[p] = NoState \/ mem[p].pid = p THEN "check" ELSE "create")
  /\ slips' = slips \cup {x \in {"lost"} : mem[p] = NoState}
  /\ UNCHANGED <<disk, lock, mem, newer, tries, report, written>>

(* No lock without a state, nor for a child that is the owner; a live engine *)
(* with task work is left alone; else the lock is needed.                    *)
CheckOwner(p) ==
  LET m == mem[p]
      busy == Other(p, m) /\ m.phase = "running" /\ m.left = "tasks"
  IN /\ Goto(p, "loaded", IF m = NoState THEN "check"
                          ELSE IF m.pid = p THEN "check"
                          ELSE IF busy THEN "refused" ELSE "create")
     /\ slips' = slips \cup {x \in {"lost"} : m = NoState}
     /\ UNCHANGED <<disk, lock, mem, newer, tries, report, written>>
-----------------------------------------------------------------------------
(* tryAcquireResumeHandoffLock: the file is created exclusively, and filled  *)
(* by a second system call.                                                  *)

CreateLock(p) ==
  /\ lock = NoLock /\ Goto(p, "create", "fill")
  /\ lock' = [pid |-> p, written |-> FALSE]
  /\ UNCHANGED <<disk, mem, newer, Notes>>

LockExists(p) ==
  /\ lock # NoLock
  /\ Goto(p, "create", IF tries[p] = "steal" THEN "refused" ELSE "holder")
  /\ UNCHANGED <<disk, lock, mem, newer, Notes>>

FillLock(p) ==
  /\ Goto(p, "fill", "own")
  /\ lock' = IF lock = [pid |-> p, written |-> FALSE]
             THEN [pid |-> p, written |-> TRUE] ELSE lock
  /\ UNCHANGED <<disk, mem, newer, Notes>>

Unreadable == lock = NoLock \/ ~lock.written

(* The holder is read: a live one is respected, a dead one's file or one     *)
(* that does not parse will be removed.                                      *)
ReadHolder(p) ==
  LET live == ~Unreadable /\ Alive(lock.pid)
      try == IF ~Unreadable THEN "steal"
             ELSE IF tries[p] = "first" THEN "retry" ELSE "give up"
  IN /\ Goto(p, "holder", IF live THEN "refused" ELSE "drop")
     /\ tries' = [tries EXCEPT ![p] = IF live THEN @ ELSE try]
     /\ UNCHANGED <<disk, lock, mem, newer, report, written, slips>>

(* Whatever file is there by now is unlinked. *)
DropLock(p) ==
  /\ Goto(p, "drop", IF tries[p] = "give up" THEN "refused" ELSE "create")
  /\ lock' = NoLock
  /\ slips' = slips \cup {x \in {"lock"} : lock # NoLock /\ Alive(lock.pid)}
  /\ UNCHANGED <<disk, mem, newer, tries, report, written>>
-----------------------------------------------------------------------------
(* terminateStaleDetachedEngine: SIGTERM and SIGKILL, and the pid is dropped.*)

Limbo(d) == d.phase = "running" /\ d.left = "none"
Kill(p, m, phases) ==
  IF Other(p, m) /\ (m.phase \in phases \/ Limbo(m)) THEN {m.pid} ELSE {}
After(p, m, killed) ==
  IF m.pid \in killed \/ (m.pid # p /\ ~Alive(m.pid))
  THEN [m EXCEPT !.pid = NoOne] ELSE m
Step(p, to, killed) ==
  pc' = [q \in Proc |-> IF q = p THEN to
                        ELSE IF q \in killed THEN "dead" ELSE pc[q]]

(* With the lock held, the engine before is terminated in any phase but      *)
(* merge_blocked, as it was read before the lock, *)
TakeOver(p) ==
  LET m == mem[p]
      killed == Kill(p, m, {"paused", "failed", "running"})
  IN /\ pc[p] = "own"
     /\ Step(p, IF Other(p, m) THEN "handoff" ELSE "check", killed)
     /\ Keep(p, IF Other(p, m) THEN After(p, m, killed) ELSE m)
     /\ slips' = slips \cup {x \in {"reading"} : Other(p, m) /\ m # disk}
     /\ UNCHANGED <<disk, lock, newer, tries, report, written>>

(* and that reading is saved. *)
SaveHandoff(p) ==
  /\ Goto(p, "handoff", "check")
  /\ Write(mem[p])
  /\ slips' = slips \cup {x \in {"reading"} : [disk EXCEPT !.pid = NoOne] # mem[p]}
  /\ UNCHANGED <<lock, mem, tries, report, written>>
-----------------------------------------------------------------------------
(* ensureForceResumeBatchState: a lost state is rebuilt from batch-meta and  *)
(* journal; a batch that was running, planning or aborted becomes failed.    *)
Reconstruct(p) ==
  /\ pc[p] = "check" /\ disk = NoState
  /\ \E left \in {"tasks", "merge"} :
       Write([phase |-> "failed", pid |-> NoOne, left |-> left])
  /\ UNCHANGED <<lock, mem, pc, Notes>>

(* validateMultiTaskResume.  An engine is confirmed dead by its pid, or, if  *)
(* no pid is recorded, by what is left to do and by the journal.             *)
ConfirmedDead(d) == ~Alive(d.pid)
Acceptable(d) ==
  \/ Limbo(d)
  \/ d.phase = "completed"
  \/ /\ d.left # "none"
     /\ d.phase \in {"paused", "failed", "merge_blocked"}
        \/ (d.phase = "running" /\ ConfirmedDead(d))

(* Whether a running batch without a pid is an orphan depends on the journal.*)
MustAccept(d) ==
  /\ Acceptable(d)
  /\ d.phase = "running" /\ d.left = "tasks" => d.pid # NoOne

(* Mutant: an attached resume runs a completed batch again. *)
ValidateCompleted(p) ==
  /\ disk # NoState /\ Acceptable(disk)
  /\ Goto(p, "check", IF Limbo(disk) THEN "limbo" ELSE "prepare")
  /\ newer' = newer \ {p}
  /\ Keep(p, disk)
  /\ UNCHANGED <<disk, lock, Notes>>

Validate(p) ==
  /\ disk # NoState /\ Acceptable(disk)
  /\ disk.phase = "completed" => p \notin Runner
  /\ Goto(p, "check", IF Limbo(disk) THEN "limbo" ELSE "prepare")
  /\ newer' = newer \ {p}
  /\ Keep(p, disk)
  /\ UNCHANGED <<disk, lock, Notes>>

(* tryResumeCompletedGateReopen: only the gate of the batch is opened again. *)
ReopenGate(p) ==
  /\ p \in Runner /\ disk # NoState /\ disk.phase = "completed"
  /\ Goto(p, "check", "done")
  /\ Save(p, disk) /\ Release(p)
  /\ UNCHANGED <<mem, Notes>>

(* Mutant: the lock is not given back. *)
RefuseSilently(p) ==
  /\ disk # NoState /\ ~MustAccept(disk)
  /\ Goto(p, "check", "refused")
  /\ UNCHANGED <<disk, lock, mem, newer, Notes>>

Refuse(p) ==
  /\ disk # NoState /\ ~MustAccept(disk)
  /\ Goto(p, "check", "refused")
  /\ Release(p)
  /\ UNCHANGED <<disk, mem, newer, Notes>>
-----------------------------------------------------------------------------
(* finalizeResumePostMergeLimbo, in the shell itself or in the runner: the   *)
(* last wave is merged, nothing is run again.                                *)

TakeOverLimbo(p) ==
  LET killed == Kill(p, disk, {"paused", "failed"})
  IN /\ pc[p] = "limbo" /\ Step(p, "claim", killed)
     /\ disk.phase = "completed" => p \in Runner
     /\ Keep(p, After(p, disk, killed))
     /\ UNCHANGED <<disk, lock, newer, Notes>>

(* Somebody else has completed the batch by now: a detached command gives up, *)
(* an attached one with a single task goes on to run it.                     *)
MissLimbo(p) ==
  /\ disk # NoState /\ disk.phase = "completed"
  /\ IF p \in Runner
     THEN /\ Goto(p, "limbo", "prepare")
          /\ slips' = slips \cup {"limbo"} /\ UNCHANGED lock
     ELSE Goto(p, "limbo", "refused") /\ Release(p) /\ UNCHANGED slips
  /\ UNCHANGED <<disk, mem, newer, tries, report, written>>

ClaimLimbo(p) ==
  /\ Goto(p, "claim", "land")
  /\ Write([mem[p] EXCEPT !.pid = NoOne])
  /\ UNCHANGED <<lock, mem, Notes>>

LandLimbo(p) ==
  /\ Goto(p, "land", "done")
  /\ Write([mem[p] EXCEPT !.phase = "completed"])
  /\ Release(p)
  /\ UNCHANGED <<mem, Notes>>
-----------------------------------------------------------------------------
(* The state is read again and prepareOrphanResumeHandoff ends an engine     *)
(* that still runs in a paused or failed batch; of a batch that was seen to  *)
(* be orphaned it only drops the pid.                                        *)
Prepare(p) ==
  pc[p] = "prepare" /\ \E orphan \in BOOLEAN :
    LET killed == IF orphan THEN {} ELSE Kill(p, disk, {"paused", "failed"})
    IN /\ orphan => p \in Runner /\ mem[p].phase = "running"
       /\ Step(p, "save", killed)
       /\ Keep(p, IF orphan THEN [disk EXCEPT !.pid = NoOne]
                  ELSE After(p, disk, killed))
       /\ UNCHANGED <<disk, lock, newer, Notes>>

(* The detached shell saves what it read, *)
SavePrepared(s) ==
  /\ s \in Shell \ Attached /\ Goto(s, "save", "spawn")
  /\ Write(mem[s])
  /\ UNCHANGED <<lock, mem, Notes>>

(* Mutant: the lock is given back before the child's pid is recorded. *)
SpawnReleasing(s) ==
  /\ pc[s] = "spawn"
  /\ pc' = [pc EXCEPT ![s] = "pid", ![Child(s)] = "new"]
  /\ Release(s)
  /\ UNCHANGED <<disk, mem, newer, Notes>>

(* spawns the child, *)
Spawn(s) ==
  /\ pc[s] = "spawn"
  /\ pc' = [pc EXCEPT ![s] = "pid", ![Child(s)] = "new"]
  /\ UNCHANGED <<disk, lock, mem, newer, Notes>>

(* persistDetachedEnginePid: reads the state once more and records the pid. *)
LoadForPid(s) ==
  /\ Goto(s, "pid", "persist")
  /\ Keep(s, [disk EXCEPT !.pid = Child(s)])
  /\ UNCHANGED <<disk, lock, newer, Notes>>

PersistPid(s) ==
  /\ Goto(s, "persist", "poll")
  /\ Save(s, mem[s])
  /\ UNCHANGED <<lock, mem, Notes>>

(* Mutant: the phase itself is reported. *)
AnswerPhase(s) == IF s \notin newer THEN {} ELSE {disk.phase}

(* waitForDetachedBatchResume: the first answer of a poll, or the deadline.  *)
(* The end of a task counts if it was the one pending.                       *)
Answer(s) ==
  IF s \notin newer THEN {}
  ELSE (IF disk.phase = "failed" THEN {"failed"} ELSE {})
       \cup (IF disk.phase = "running" /\ s \notin WaitTerminal
             THEN {"started"} ELSE {})
       \cup (IF \/ disk.phase \in {"completed", "merge_blocked"}
                \/ /\ disk.phase # "failed" /\ disk.left # "tasks"
                   /\ mem[s].left = "tasks"
             THEN {"completed"} ELSE {})

Settled(p) == pc[p] \in {"working", "exiting", "refused", "done", "dead"}

Poll(s) ==
  /\ Goto(s, "poll", "done")
  /\ \E a \in Answer(s) \cup {"timeout"} :
       /\ a = "timeout" /\ Timely => Settled(Child(s))
       /\ a = "completed" => "started" \notin Answer(s)
       /\ report' = [report EXCEPT ![s] = a]
  /\ Release(s)
  /\ UNCHANGED <<disk, mem, newer, tries, written, slips>>
-----------------------------------------------------------------------------
(* The runner claims the batch; the guard may refuse this save, and it goes  *)
(* on all the same.  With one task and lane the lock is given back now, else *)
(* when the engine is done.                                                  *)
Claim(p) ==
  LET m == [mem[p] EXCEPT !.phase = "running", !.pid = p]
  IN /\ p \in Runner /\ Goto(p, "save", "working")
     /\ Save(p, m) /\ Keep(p, m)
     /\ lock' \in {lock, Released(p)}
     /\ written' = written \cup {p}
     /\ UNCHANGED <<tries, report, slips>>

(* Progress: tasks end, the last wave is merged. *)
Advance(p) ==
  /\ pc[p] = "working"
  /\ \E left \in {mem[p].left, IF mem[p].left = "tasks" THEN "merge" ELSE "none"} :
       LET m == [mem[p] EXCEPT !.left = left]
       IN Keep(p, m) /\ Save(p, m)
  /\ UNCHANGED <<lock, pc, Notes>>

Finish(p, phase) ==
  /\ Goto(p, "working", "exiting")
  /\ phase = "merge_blocked" => mem[p].left = "merge"
  /\ phase = "completed" => mem[p].left = "none"
  /\ phase = "paused" => p = Old /\ disk.phase = "paused"
  /\ LET m == [mem[p] EXCEPT !.phase = phase]
     IN IF phase = "completed" THEN Write(m) ELSE Save(p, m)
  /\ UNCHANGED <<lock, mem, Notes>>

End(p) == \E phase \in Phase \ {"running"} : Finish(p, phase)

(* The process takes a while to stop; the lock is given back first.          *)
Exit(p) ==
  /\ Goto(p, "exiting", "done")
  /\ Release(p)
  /\ UNCHANGED <<disk, mem, newer, Notes>>
-----------------------------------------------------------------------------
(* Ends that do not come back from the engine: the handoff lock stays. *)

(* reconcileParentSessionLost: the batch is paused and the pid dropped,      *)
(* unless another live engine owns it.                                       *)
ParentLost(p) ==
  LET open == disk.phase \notin {"completed", "failed"}
  IN /\ p \in Mortal \cap (Attached \cup {Old}) /\ Goto(p, "working", "dead")
     /\ IF open THEN Save(p, [disk EXCEPT !.phase = "paused", !.pid = NoOne])
                ELSE UNCHANGED <<disk, newer>>
     /\ UNCHANGED <<lock, mem, Notes>>

(* installEngineCrashHandlers: an exception nobody caught fails the batch. *)
Uncaught(p) ==
  /\ p \in Mortal /\ Goto(p, "working", "dead")
  /\ Save(p, [disk EXCEPT !.phase = "failed"])
  /\ UNCHANGED <<lock, mem, Notes>>

Killed(p) ==
  /\ p \in Mortal /\ Alive(p)
  /\ pc' = [pc EXCEPT ![p] = "dead"]
  /\ UNCHANGED <<disk, lock, mem, newer, Notes>>
-----------------------------------------------------------------------------
Enforce(p) == \/ Load(p) \/ CheckOwner(p) \/ CreateLock(p) \/ LockExists(p)
              \/ FillLock(p) \/ ReadHolder(p) \/ DropLock(p) \/ TakeOver(p) \/ SaveHandoff(p)
Check(p) == Reconstruct(p) \/ Validate(p) \/ ReopenGate(p) \/ Refuse(p)
Land(p) == TakeOverLimbo(p) \/ MissLimbo(p) \/ ClaimLimbo(p) \/ LandLimbo(p)
Launch(s) == \/ SavePrepared(s) \/ Spawn(s) \/ LoadForPid(s)
             \/ PersistPid(s) \/ Poll(s)
Resume(p) == Enforce(p) \/ Check(p) \/ Land(p) \/ Prepare(p)

Next ==
  \/ \E p \in Shell \cup Spawned : Resume(p)
  \/ \E s \in Shell \ Attached : Launch(s)
  \/ \E p \in Runner : Claim(p)
  \/ \E p \in Runner \cup {Old} : Advance(p) \/ End(p) \/ Exit(p)
  \/ \E p \in Proc : ParentLost(p) \/ Uncaught(p) \/ Killed(p)

Spec == Init /\ [][Next]_vars
-----------------------------------------------------------------------------
(* Every variable keeps its type. *)
TypeOK ==
  /\ disk \in State \cup {NoState} /\ lock \in LockFile \cup {NoLock}
  /\ mem \in [Proc -> State \cup {NoState}]
  /\ tries \in [Proc -> {"first", "retry", "give up", "steal"}]
  /\ newer \subseteq Shell /\ written \subseteq Proc
  /\ report \in [Shell -> {"none", "failed", "started", "completed", "timeout"}]
  /\ slips \subseteq {"lock", "reading", "limbo", "lost"}
  /\ pc \in [Proc -> PC]
  /\ \A p \in Proc : pc[p] = "working" => mem[p] # NoState

Working == {p \in Proc : pc[p] = "working"}

(* No two engines work on one batch, however many commands are typed, short  *)
(* of the slips.                                                             *)
OneEngine == slips = {} => Cardinality(Working) <= 1

LosesNoWork(p) ==
  p \notin Mortal /\ pc[p] = "working" /\ disk.phase = "running"
  /\ disk.pid = p /\ disk.left = "tasks" => pc'[p] # "dead"

(* A forced resume ends no engine that owns a running batch and has tasks,   *)
(* short of the slips.                                                       *)
WorkGoesOn ==
  [][disk # NoState => slips' # {} \/ \A p \in Proc : LosesNoWork(p)]_vars

(* No process sets a completed batch back, slips aside.                         *)
CompletedStays ==
  [][disk # NoState /\ disk.phase = "completed"
     => slips' # {} \/ disk'.phase = "completed"]_vars

(* Whoever has taken the handoff lock and goes, gives it back; only a file   *)
(* whose process died stays, for the next command to remove.                 *)
LockIsGivenBack == lock # NoLock => pc[lock.pid] \notin {"refused", "done"}
-----------------------------------------------------------------------------
(* What comments and the runbook say without the exceptions. *)

(* The handoff lock is exclusive (attached-runner-reconcile.mjs:53).         *)
LockIsExclusive == Cardinality({p \in Proc : pc[p] \in {"own", "handoff"}}) <= 1

(* A live owner of task work is not ended (attached-runner-reconcile.mjs:175).*)
LiveOwnerIsKept == [][disk # NoState => \A p \in Proc : LosesNoWork(p)]_vars

(* One live engine owns the batch (operator-runbook.md:1849).                *)
OneLiveEngine == Cardinality(Working) <= 1

(* Only a failure written after the engine started is reported as one        *)
(* (detached-wait.mjs:312).                                                  *)
FailureIsTheEngines == \A s \in Shell : report[s] = "failed" => Child(s) \in written

(* A resume its command has accepted does not dead-end in a refusal          *)
(* (operator-runbook.md:1663).                                               *)
NoDeadEnd == \A p \in Spawned : pc[p] # "refused"
=============================================================================
