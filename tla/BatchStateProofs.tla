-------------------------- MODULE BatchStateProofs --------------------------
(* Theorems about BatchState for every set of processes.                     *)
EXTENDS BatchState, TLAPS

(* The values that the saves are made of are batch states. *)
LEMMA PersistedType ==
  ASSUME NEW m \in State
  PROVE  Persisted(m) \in State /\ Persisted(m).id = m.id
BY DEF Persisted, State

(* Merging the operator's pause into a batch state gives a batch state.      *)
LEMMA MergedType ==
  ASSUME NEW m \in State
  PROVE  Merged(m) \in State /\ Merged(m).id = m.id
<1>1. "paused" \in Phase
  BY DEF Phase, ACTIVE_PHASES
<1> QED
  BY <1>1 DEF Merged, State

(* One step of a process's program counter. *)
LEMMA GotoMoves ==
  ASSUME pc \in [Proc -> PC], NEW p \in Proc, NEW from, NEW to \in PC,
         Goto(p, from, to)
  PROVE  /\ pc' \in [Proc -> PC]
         /\ pc[p] = from /\ pc'[p] = to
         /\ \A q \in Proc : q # p => pc'[q] = pc[q]
BY DEF Goto

(* A guarded save leaves a state, in memory and on disk, and touches no other *)
(* process's memory.                                                         *)
LEMMA SaveTypes ==
  ASSUME TypeOK, NEW p \in Proc, NEW m \in State, NEW b \in BOOLEAN,
         SaveAs(p, m, b)
  PROVE  /\ disk' \in State \cup {NoState}
         /\ mem' \in [Proc -> State \cup {NoState}]
         /\ mem'[p] \in State
         /\ \A q \in Proc : q # p => mem'[q] = mem[q]
<1>1. Persisted(m) \in State
  BY PersistedType
<1> QED
  BY <1>1 DEF SaveAs, Keep, TypeOK

(* Keeping a state in a process's memory keeps the memories typed.           *)
LEMMA KeepTypes ==
  ASSUME TypeOK, NEW p \in Proc, NEW m \in State \cup {NoState}, Keep(p, m)
  PROVE  /\ mem' \in [Proc -> State \cup {NoState}]
         /\ mem'[p] = m
         /\ \A q \in Proc : q # p => mem'[q] = mem[q]
BY DEF Keep, TypeOK

(* What every step of process p does to the types: it may kill others, and   *)
(* changes no memory but its own.                                            *)
TypedStep(p) ==
  /\ disk' \in State \cup {NoState}
  /\ archived' \subseteq Starter /\ paused' \subseteq Starter
  /\ signalled' \subseteq Starter /\ provisioned' \subseteq Starter
  /\ mem' \in [Proc -> State \cup {NoState}]
  /\ pc' \in [Proc -> PC]
  /\ \A q \in Proc : q # p => pc'[q] \in {pc[q], "dead"} /\ mem'[q] = mem[q]
  /\ pc'[p] \in WithState => mem'[p] \in State

(* A step in which one process moves on and the others do at most die keeps  *)
(* memory and program counters typed, and what must be loaded loaded.        *)
LEMMA TypedStepTyped ==
  ASSUME BatchTyped, NEW p \in Proc, TypedStep(p)
  PROVE  BatchTyped'
<1>1. TypeOK'
  BY DEF TypedStep, TypeOK
<1>2. MemLoaded'
  BY DEF TypedStep, BatchTyped, MemLoaded, WithState
<1> QED
  BY <1>1, <1>2 DEF BatchTyped

(* The marks of the batches stay sets of batches. *)
MarksTyped ==
  /\ archived' \subseteq Starter /\ paused' \subseteq Starter
  /\ signalled' \subseteq Starter /\ provisioned' \subseteq Starter

(* The marks stay typed in a step that leaves them alone.                    *)
LEMMA MarksKept ==
  ASSUME TypeOK, UNCHANGED Marks
  PROVE  MarksTyped
BY DEF TypeOK, Marks, MarksTyped

(* The three kinds of steps that commands are made of: a step that saves a   *)
(* state, with the operator's pause merged or not,                           *)
LEMMA SaveStep ==
  ASSUME BatchTyped, NEW p \in Proc, NEW m \in State, NEW b \in BOOLEAN,
         SaveAs(p, m, b), MarksTyped,
         pc' \in [Proc -> PC], \A q \in Proc : q # p => pc'[q] = pc[q]
  PROVE  TypedStep(p)
BY SaveTypes DEF BatchTyped, TypedStep, MarksTyped

(* (the same for an engine's save),                                          *)
LEMMA MergedSaveStep ==
  ASSUME BatchTyped, NEW p \in Proc, NEW m \in State,
         saveEngineBatchState(p, m), MarksTyped,
         pc' \in [Proc -> PC], \A q \in Proc : q # p => pc'[q] = pc[q]
  PROVE  TypedStep(p)
<1>1. Merged(m) \in State
  BY MergedType
<1> QED
  BY <1>1, SaveStep DEF saveEngineBatchState

(* one that changes no memory,                                               *)
LEMMA PlainStep ==
  ASSUME BatchTyped, NEW p \in Proc, MarksTyped,
         disk' \in State \cup {NoState}, UNCHANGED mem,
         pc' \in [Proc -> PC],
         \A q \in Proc : q # p => pc'[q] \in {pc[q], "dead"},
         pc[p] \in WithState \/ pc'[p] \notin WithState
  PROVE  TypedStep(p)
BY DEF BatchTyped, TypeOK, MemLoaded, TypedStep, MarksTyped

(* and one that reads a state into memory.                                   *)
LEMMA ReadStep ==
  ASSUME BatchTyped, NEW p \in Proc, MarksTyped, UNCHANGED disk,
         NEW m \in State \cup {NoState}, Keep(p, m),
         pc' \in [Proc -> PC],
         \A q \in Proc : q # p => pc'[q] \in {pc[q], "dead"},
         m \in State \/ pc'[p] \notin WithState
  PROVE  TypedStep(p)
BY KeepTypes DEF BatchTyped, TypeOK, TypedStep, MarksTyped

(* Each step of `batch start` keeps the types.                               *)
LEMMA StartTyped ==
  ASSUME BatchTyped, NEW s \in Starter, Start(s)
  PROVE  TypedStep(s)
<1>0. s \in Proc /\ TypeOK /\ MemLoaded
  BY DEF Proc, Engine, BatchTyped
<1>1. CASE ClearStale(s)
  <2>1. pc' \in [Proc -> PC] /\ pc'[s] \in {"check", "done"}
        /\ \A q \in Proc : q # s => pc'[q] = pc[q]
    BY <1>0, <1>1, GotoMoves DEF ClearStale, TypeOK, PC
  <2>2. disk' \in State \cup {NoState}
    BY <1>0, <1>1 DEF ClearStale, TypeOK
  <2> QED
    BY <1>0, <1>1, <2>1, <2>2, MarksKept, PlainStep
    DEF ClearStale, WithState, Marks
<1>2. CASE CheckActive(s)
  <2>1. pc' \in [Proc -> PC] /\ pc'[s] \in {"plan", "done"}
        /\ \A q \in Proc : q # s => pc'[q] = pc[q]
    BY <1>0, <1>2, GotoMoves DEF CheckActive, TypeOK, PC
  <2> QED
    BY <1>0, <1>2, <2>1, MarksKept, PlainStep
    DEF CheckActive, WithState, Marks, TypeOK
<1>3. CASE SavePlan(s)
  <2> DEFINE m == [id |-> s, phase |-> "planning", owner |-> NoOne,
                   ended |-> FALSE, landed |-> FALSE]
  <2>1. m \in State
    BY DEF State, Phase, ACTIVE_PHASES
  <2>2. pc' \in [Proc -> PC] /\ \A q \in Proc : q # s => pc'[q] = pc[q]
    BY <1>0, <1>3, GotoMoves DEF SavePlan, TypeOK, PC
  <2>3. saveEngineBatchState(s, m)
    BY <1>3 DEF SavePlan
  <2> QED
    BY <1>0, <1>3, <2>1, <2>2, <2>3, MarksKept, MergedSaveStep DEF SavePlan
<1>4. CASE Run(s)
  <2> DEFINE m == [mem[s] EXCEPT !.phase = "running", !.owner = s]
  <2>1. mem[s] \in State
    BY <1>0, <1>4 DEF Run, MemLoaded, WithState, Goto
  <2>2. m \in State
    BY <2>1 DEF State, Phase, ACTIVE_PHASES, Engine
  <2>3. pc' \in [Proc -> PC] /\ \A q \in Proc : q # s => pc'[q] = pc[q]
    BY <1>0, <1>4, GotoMoves DEF Run, TypeOK, PC
  <2>4. saveEngineBatchState(s, m)
    BY <1>4 DEF Run
  <2> QED
    BY <1>0, <1>4, <2>2, <2>3, <2>4, MarksKept, MergedSaveStep DEF Run
<1>5. CASE ProvisionLanes(s)
  <2>1. mem[s] \in State
    BY <1>0, <1>5 DEF ProvisionLanes, MemLoaded, WithState, Goto
  <2>2. pc' \in [Proc -> PC] /\ \A q \in Proc : q # s => pc'[q] = pc[q]
    BY <1>0, <1>5, GotoMoves DEF ProvisionLanes, TypeOK, PC
  <2>3. MarksTyped
    BY <1>0, <1>5 DEF ProvisionLanes, TypeOK, MarksTyped
  <2> QED
    BY <1>0, <1>5, <2>1, <2>2, <2>3, MergedSaveStep DEF ProvisionLanes
<1> QED
  BY <1>1, <1>2, <1>3, <1>4, <1>5 DEF Start

(* Each step of `batch resume` up to its loop keeps the types.               *)
LEMMA ResumeTyped ==
  ASSUME BatchTyped, NEW r \in Resumer, Resume(r)
  PROVE  TypedStep(r)
<1>0. r \in Proc /\ r \in Engine /\ TypeOK /\ MemLoaded
  BY DEF Proc, Engine, BatchTyped
<1>1. CASE EnforceSingleOwner(r)
  <2>1. pc' \in [Proc -> PC] /\ pc'[r] \in {"done", "validate"}
        /\ \A q \in Proc : q # r => pc'[q] = pc[q]
    BY <1>0, <1>1, GotoMoves DEF EnforceSingleOwner, TypeOK, PC
  <2> QED
    BY <1>0, <1>1, <2>1, MarksKept, PlainStep
    DEF EnforceSingleOwner, WithState, Marks, TypeOK
<1>2. CASE ValidateResume(r)
  <2>1. pc' \in [Proc -> PC] /\ pc'[r] \in {"limbo", "load"}
        /\ \A q \in Proc : q # r => pc'[q] = pc[q]
    BY <1>0, <1>2, GotoMoves DEF ValidateResume, TypeOK, PC
  <2> QED
    BY <1>0, <1>2, <2>1, MarksKept, PlainStep
    DEF ValidateResume, WithState, Marks, TypeOK
<1>3. CASE RefuseResume(r)
  <2>1. pc' \in [Proc -> PC] /\ pc'[r] = "done"
        /\ \A q \in Proc : q # r => pc'[q] = pc[q]
    BY <1>0, <1>3, GotoMoves DEF RefuseResume, TypeOK, PC
  <2> QED
    BY <1>0, <1>3, <2>1, MarksKept, PlainStep
    DEF RefuseResume, WithState, Marks, TypeOK
<1>4. CASE LoadAndHandOff(r)
  <2>1. disk \in State
    BY <1>0, <1>4 DEF LoadAndHandOff, TypeOK
  <2>2. [disk EXCEPT !.owner = NoOne] \in State
    BY <2>1 DEF State
  <2>3. PICK m \in State : Keep(r, m)
    BY <1>4, <2>1, <2>2 DEF LoadAndHandOff
  <2>4. /\ pc' \in [Proc -> PC]
        /\ \A q \in Proc : q # r => pc'[q] \in {pc[q], "dead"}
    BY <1>0, <1>4 DEF LoadAndHandOff, TypeOK, PC
  <2> QED
    BY <1>0, <1>4, <2>3, <2>4, MarksKept, ReadStep DEF LoadAndHandOff, Marks
<1>5. CASE LoadFindsNothing(r)
  <2>1. pc' \in [Proc -> PC] /\ pc'[r] = "done"
        /\ \A q \in Proc : q # r => pc'[q] = pc[q]
    BY <1>0, <1>5, GotoMoves DEF LoadFindsNothing, TypeOK, PC
  <2> QED
    BY <1>0, <1>5, <2>1, MarksKept, PlainStep
    DEF LoadFindsNothing, WithState, Marks, TypeOK
<1>6. CASE ClaimLimbo(r)
  <2>1. mem[r] \in State
    BY <1>0, <1>6 DEF ClaimLimbo, MemLoaded, WithState, Goto
  <2>2. pc' \in [Proc -> PC] /\ \A q \in Proc : q # r => pc'[q] = pc[q]
    BY <1>0, <1>6, GotoMoves DEF ClaimLimbo, TypeOK, PC
  <2> QED
    BY <1>0, <1>6, <2>1, <2>2, MarksKept, SaveStep DEF ClaimLimbo
<1>7. CASE SaveRunning(r)
  <2> DEFINE m == [mem[r] EXCEPT !.phase = "running", !.owner = r,
                                 !.ended = FALSE]
  <2>1. mem[r] \in State
    BY <1>0, <1>7 DEF SaveRunning, MemLoaded, WithState, Goto
  <2>2. m \in State
    BY <1>0, <2>1 DEF State, Phase, ACTIVE_PHASES
  <2>3. pc' \in [Proc -> PC] /\ \A q \in Proc : q # r => pc'[q] = pc[q]
    BY <1>0, <1>7, GotoMoves DEF SaveRunning, TypeOK, PC
  <2>4. SaveAs(r, m, FALSE)
    BY <1>7 DEF SaveRunning, saveSpineBatchState
  <2> QED
    BY <1>0, <1>7, <2>2, <2>3, <2>4, MarksKept, SaveStep DEF SaveRunning
<1>8. CASE JournalResumed(r)
  <2>1. pc' \in [Proc -> PC] /\ pc[r] = "resumed"
        /\ \A q \in Proc : q # r => pc'[q] = pc[q]
    BY <1>0, <1>8, GotoMoves DEF JournalResumed, TypeOK, PC
  <2>2. MarksTyped
    BY <1>0, <1>8 DEF JournalResumed, TypeOK, MarksTyped
  <2> QED
    BY <1>0, <1>8, <2>1, <2>2, PlainStep DEF JournalResumed, WithState, TypeOK
<1> QED
  BY <1>1, <1>2, <1>3, <1>4, <1>5, <1>6, <1>7, <1>8 DEF Resume

(* The end of a batch is a save with or without the pause merged. *)
LEMMA FinishStep ==
  ASSUME BatchTyped, NEW e \in Engine, NEW phase \in {"aborted", "failed"},
         Finish(e, phase), mem[e] \in State, UNCHANGED Marks,
         pc' \in [Proc -> PC], \A q \in Proc : q # e => pc'[q] = pc[q]
  PROVE  TypedStep(e)
<1> DEFINE m == [mem[e] EXCEPT !.phase = phase, !.ended = TRUE]
<1>0. e \in Proc /\ MarksTyped
  BY MarksKept DEF Proc, BatchTyped
<1>1. m \in State
  BY DEF State, Phase, TERMINAL_BATCH_PHASES
<1>2. CASE e \in Starter
  <2>1. saveEngineBatchState(e, m)
    BY <1>2 DEF Finish
  <2> QED
    BY <1>0, <1>1, <2>1, MergedSaveStep
<1>3. CASE e \notin Starter
  <2>1. SaveAs(e, m, FALSE)
    BY <1>3 DEF Finish, saveSpineBatchState
  <2> QED
    BY <1>0, <1>1, <2>1, SaveStep
<1> QED
  BY <1>2, <1>3

(* Each step of the engine's loop keeps the types.                           *)
LEMMA LoopTyped ==
  ASSUME BatchTyped, NEW e \in Engine, Loop(e)
  PROVE  TypedStep(e)
<1>0. e \in Proc /\ TypeOK /\ MemLoaded
  BY DEF Proc, BatchTyped
<1>1. CASE ObservePause(e)
  <2>1. mem[e] \in State
    BY <1>0, <1>1 DEF ObservePause, MemLoaded, WithState, Goto
  <2>2. pc' \in [Proc -> PC] /\ \A q \in Proc : q # e => pc'[q] = pc[q]
    BY <1>0, <1>1, GotoMoves DEF ObservePause, TypeOK, PC
  <2> QED
    BY <1>0, <1>1, <2>1, <2>2, MarksKept, MergedType, ReadStep
    DEF ObservePause, Marks
<1>2. CASE AdoptPause(e)
  <2>1. mem[e] \in State
    BY <1>0, <1>2 DEF AdoptPause, MemLoaded, WithState, Goto
  <2>2. pc' \in [Proc -> PC] /\ \A q \in Proc : q # e => pc'[q] = pc[q]
    BY <1>0, <1>2, GotoMoves DEF AdoptPause, TypeOK, PC
  <2> QED
    BY <1>0, <1>2, <2>1, <2>2, MarksKept, MergedSaveStep DEF AdoptPause
<1>3. CASE Proceed(e)
  <2>1. pc' \in [Proc -> PC] /\ pc[e] = "boundary"
        /\ \A q \in Proc : q # e => pc'[q] = pc[q]
    BY <1>0, <1>3, GotoMoves DEF Proceed, TypeOK, PC
  <2> QED
    BY <1>0, <1>3, <2>1, MarksKept, PlainStep
    DEF Proceed, WithState, Marks, TypeOK
<1>4. CASE EndTick(e)
  <2>1. pc' \in [Proc -> PC] /\ pc[e] = "tick"
        /\ \A q \in Proc : q # e => pc'[q] = pc[q]
    BY <1>0, <1>4, GotoMoves DEF EndTick, TypeOK, PC
  <2> QED
    BY <1>0, <1>4, <2>1, MarksKept, PlainStep
    DEF EndTick, WithState, Marks, TypeOK
<1>5. CASE StopOnAbort(e)
  <2>1. mem[e] \in State
    BY <1>0, <1>5 DEF StopOnAbort, MemLoaded, WithState, Goto
  <2>2. pc' \in [Proc -> PC] /\ \A q \in Proc : q # e => pc'[q] = pc[q]
    BY <1>0, <1>5, GotoMoves DEF StopOnAbort, TypeOK, PC
  <2> QED
    BY <1>0, <1>5, <2>1, <2>2, FinishStep DEF StopOnAbort
<1>6. CASE BlockMerge(e)
  <2> DEFINE m == [mem[e] EXCEPT !.phase = "merge_blocked", !.ended = TRUE,
                                 !.owner = NoOne]
  <2>1. mem[e] \in State
    BY <1>0, <1>6 DEF BlockMerge, MemLoaded, WithState, Goto
  <2>2. m \in State
    BY <2>1 DEF State, Phase, TERMINAL_BATCH_PHASES
  <2>3. pc' \in [Proc -> PC] /\ \A q \in Proc : q # e => pc'[q] = pc[q]
    BY <1>0, <1>6, GotoMoves DEF BlockMerge, TypeOK, PC
  <2>4. SaveAs(e, m, FALSE)
    BY <1>6 DEF BlockMerge, saveSpineBatchState
  <2> QED
    BY <1>0, <1>6, <2>2, <2>3, <2>4, MarksKept, SaveStep DEF BlockMerge
<1>7. CASE MergeWave(e)
  <2>1. mem[e] \in State
    BY <1>0, <1>7 DEF MergeWave, MemLoaded, WithState, Goto
  <2>2. [mem[e] EXCEPT !.landed = TRUE] \in State
    BY <2>1 DEF State
  <2>3. pc' \in [Proc -> PC] /\ \A q \in Proc : q # e => pc'[q] = pc[q]
    BY <1>0, <1>7, GotoMoves DEF MergeWave, TypeOK, PC
  <2>4. PICK m \in State : SaveAs(e, m, FALSE)
    BY <1>7, <2>1, <2>2 DEF MergeWave, saveSpineBatchState
  <2> QED
    BY <1>0, <1>7, <2>3, <2>4, MarksKept, SaveStep DEF MergeWave
<1> QED
  BY <1>1, <1>2, <1>3, <1>4, <1>5, <1>6, <1>7 DEF Loop

(* Progress saves, failures and the reporter keep the types.                 *)
LEMMA ProgressTyped ==
  ASSUME BatchTyped, NEW e \in Engine, Progress(e)
  PROVE  TypedStep(e)
<1>0. e \in Proc /\ TypeOK /\ MemLoaded
  BY DEF Proc, BatchTyped
<1>1. CASE SaveMergedProgress(e)
  <2>1. mem[e] \in State
    BY <1>0, <1>1 DEF SaveMergedProgress, MemLoaded, WithState
  <2> QED
    BY <1>0, <1>1, <2>1, MarksKept, MergedSaveStep
    DEF SaveMergedProgress, TypeOK
<1>2. CASE SaveDirectProgress(e)
  <2>1. mem[e] \in State
    BY <1>0, <1>2 DEF SaveDirectProgress, MemLoaded, WithState
  <2> QED
    BY <1>0, <1>2, <2>1, MarksKept, SaveStep
    DEF SaveDirectProgress, saveSpineBatchState, TypeOK
<1>3. CASE Fail(e)
  <2>1. mem[e] \in State
    BY <1>0, <1>3 DEF Fail, MemLoaded, WithState
  <2>2. pc' \in [Proc -> PC] /\ \A q \in Proc : q # e => pc'[q] = pc[q]
    BY <1>0, <1>3 DEF Fail, TypeOK, PC
  <2> QED
    BY <1>0, <1>3, <2>1, <2>2, FinishStep DEF Fail
<1>4. CASE EnforcePause(e)
  <2>1. disk' \in State
    BY <1>0, <1>4 DEF EnforcePause, TypeOK, State, Phase, ACTIVE_PHASES
  <2>2. pc[e] \in WithState \/ pc'[e] \notin WithState
    BY <1>4 DEF EnforcePause
  <2> QED
    BY <1>0, <1>4, <2>1, <2>2, MarksKept, PlainStep
    DEF EnforcePause, Marks, TypeOK
<1> QED
  BY <1>1, <1>2, <1>3, <1>4 DEF Progress

(* Finalizing a batch keeps the types.                                       *)
LEMMA LandTyped ==
  ASSUME BatchTyped, NEW e \in Engine, Land(e)
  PROVE  TypedStep(e)
<1>0. e \in Proc /\ TypeOK /\ MemLoaded
  BY DEF Proc, BatchTyped
<1>1. CASE ClearPid(e)
  <2> DEFINE m == [mem[e] EXCEPT !.owner = NoOne, !.ended = TRUE]
  <2>1. mem[e] \in State
    BY <1>0, <1>1 DEF ClearPid, MemLoaded, WithState, Goto
  <2>2. m \in State
    BY <2>1 DEF State
  <2>3. pc' \in [Proc -> PC] /\ \A q \in Proc : q # e => pc'[q] = pc[q]
    BY <1>0, <1>1, GotoMoves DEF ClearPid, TypeOK, PC
  <2>4. SaveAs(e, m, TRUE)
    BY <1>1 DEF ClearPid
  <2> QED
    BY <1>0, <1>1, <2>2, <2>3, <2>4, MarksKept, SaveStep DEF ClearPid
<1>2. CASE LateFinalize(e)
  <2>1. pc' \in [Proc -> PC] /\ pc[e] = "gate"
        /\ \A q \in Proc : q # e => pc'[q] = pc[q]
    BY <1>0, <1>2, GotoMoves DEF LateFinalize, TypeOK, PC
  <2> QED
    BY <1>0, <1>2, <2>1, MarksKept, PlainStep
    DEF LateFinalize, WithState, Marks, TypeOK
<1>3. CASE SaveCompleted(e)
  <2> DEFINE m == [mem[e] EXCEPT !.phase = "completed"]
  <2>1. mem[e] \in State
    BY <1>0, <1>3 DEF SaveCompleted, MemLoaded, WithState, Goto
  <2>2. m \in State
    BY <2>1 DEF State, Phase, TERMINAL_BATCH_PHASES
  <2>3. pc' \in [Proc -> PC] /\ \A q \in Proc : q # e => pc'[q] = pc[q]
    BY <1>0, <1>3, GotoMoves DEF SaveCompleted, TypeOK, PC
  <2>4. SaveAs(e, m, TRUE)
    BY <1>3 DEF SaveCompleted
  <2> QED
    BY <1>0, <1>3, <2>2, <2>3, <2>4, MarksKept, SaveStep DEF SaveCompleted
<1>4. CASE Exit(e)
  <2>1. pc' \in [Proc -> PC] /\ pc'[e] = "done"
        /\ \A q \in Proc : q # e => pc'[q] = pc[q]
    BY <1>0, <1>4, GotoMoves DEF Exit, TypeOK, PC
  <2> QED
    BY <1>0, <1>4, <2>1, MarksKept, PlainStep DEF Exit, WithState, Marks, TypeOK
<1> QED
  BY <1>1, <1>2, <1>3, <1>4 DEF Land

(* Each step of `batch pause` keeps the types.                               *)
LEMMA PauseTyped ==
  ASSUME BatchTyped, NEW c \in Pauser, Pause(c)
  PROVE  TypedStep(c)
<1>0. c \in Proc /\ TypeOK /\ MemLoaded
  BY DEF Proc, BatchTyped
<1>1. CASE LoadForPause(c)
  <2>1. pc' \in [Proc -> PC] /\ pc'[c] = (IF Pausable THEN "write" ELSE "done")
        /\ \A q \in Proc : q # c => pc'[q] = pc[q]
    BY <1>0, <1>1, GotoMoves DEF LoadForPause, TypeOK, PC
  <2>2. CASE Pausable
    <3>1. disk \in State /\ [disk EXCEPT !.owner = NoOne] \in State
      BY <1>0, <2>2 DEF Pausable, DiskIn, TypeOK, State
    <3>2. PICK m \in State : Keep(c, m)
      BY <1>1, <2>2, <3>1 DEF LoadForPause
    <3> QED
      BY <1>0, <1>1, <2>1, <3>2, MarksKept, ReadStep DEF LoadForPause, Marks
  <2>3. CASE ~Pausable
    BY <1>0, <1>1, <2>1, <2>3, MarksKept, PlainStep
    DEF LoadForPause, WithState, Marks, TypeOK
  <2> QED
    BY <2>2, <2>3
<1>2. CASE WritePause(c)
  <2>1. pc' \in [Proc -> PC] /\ pc[c] = "write"
        /\ \A q \in Proc : q # c => pc'[q] = pc[q]
    BY <1>0, <1>2, GotoMoves DEF WritePause, TypeOK, PC
  <2>2. disk' \in State \cup {NoState}
    BY <1>0, <1>2
    DEF WritePause, DiskIn, TypeOK, State, Phase, ACTIVE_PHASES
  <2> QED
    BY <1>0, <1>2, <2>1, <2>2, MarksKept, PlainStep
    DEF WritePause, WithState, Marks
<1>3. CASE PollPause(c)
  <2>1. pc' \in [Proc -> PC] /\ pc[c] \in {"waiting", "saw"}
        /\ \A q \in Proc : q # c => pc'[q] = pc[q]
    BY <1>0, <1>3, GotoMoves DEF PollPause, TypeOK, PC
  <2> QED
    BY <1>0, <1>3, <2>1, MarksKept, PlainStep
    DEF PollPause, WithState, Marks, TypeOK
<1>4. CASE ConfirmPause(c)
  <2>1. pc' \in [Proc -> PC] /\ pc[c] \in WithState
        /\ \A q \in Proc : q # c => pc'[q] = pc[q]
    BY <1>0, <1>4 DEF ConfirmPause, TypeOK, PC, WithState
  <2> QED
    BY <1>0, <1>4, <2>1, MarksKept, PlainStep DEF ConfirmPause, Marks, TypeOK
<1>5. CASE RollBackPause(c)
  <2>1. pc' \in [Proc -> PC] /\ pc[c] = "rollback"
        /\ \A q \in Proc : q # c => pc'[q] = pc[q]
    BY <1>0, <1>5, GotoMoves DEF RollBackPause, TypeOK, PC
  <2>2. mem[c] \in State
    BY <1>0, <2>1 DEF MemLoaded, WithState
  <2>3. disk' \in State \cup {NoState}
    BY <1>0, <1>5, <2>2 DEF RollBackPause, DiskIn, TypeOK, State
  <2> QED
    BY <1>0, <1>5, <2>1, <2>3, MarksKept, PlainStep
    DEF RollBackPause, WithState, Marks
<1>6. CASE JournalPaused(c)
  <2>1. pc' \in [Proc -> PC] /\ pc[c] = "journal"
        /\ \A q \in Proc : q # c => pc'[q] = pc[q]
    BY <1>0, <1>6, GotoMoves DEF JournalPaused, TypeOK, PC
  <2>2. mem[c].id \in Starter
    BY <1>0, <2>1 DEF MemLoaded, WithState, State
  <2>3. MarksTyped
    BY <1>0, <1>6, <2>2 DEF JournalPaused, TypeOK, MarksTyped
  <2> QED
    BY <1>0, <1>6, <2>1, <2>3, PlainStep DEF JournalPaused, WithState, TypeOK
<1> QED
  BY <1>1, <1>2, <1>3, <1>4, <1>5, <1>6 DEF Pause

(* Abort, complete and dismiss keep the types.                               *)
LEMMA CloseTyped ==
  ASSUME BatchTyped, NEW c \in Aborter \cup Closer,
         LoadToClose(c) \/ Abort(c) \/ Close(c)
  PROVE  TypedStep(c)
<1>0. c \in Proc /\ TypeOK /\ MemLoaded
  BY DEF Proc, BatchTyped
<1>1. CASE LoadToClose(c)
  <2>1. /\ pc' \in [Proc -> PC]
        /\ pc'[c] = "done" \/ (disk # NoState /\ pc'[c] = "lock")
        /\ \A q \in Proc : q # c => pc'[q] = pc[q]
    BY <1>0, <1>1, GotoMoves DEF LoadToClose, TypeOK, PC
  <2>2. disk \in State \/ pc'[c] \notin WithState
    BY <1>0, <2>1 DEF TypeOK, WithState
  <2>3. UNCHANGED disk /\ UNCHANGED Marks /\ Keep(c, disk)
    BY <1>1 DEF LoadToClose, Marks
  <2>4. disk \in State \cup {NoState} /\ MarksTyped
    BY <1>0, <2>3, MarksKept DEF TypeOK
  <2>5. \A q \in Proc : q # c => pc'[q] \in {pc[q], "dead"}
    BY <2>1
  <2> QED
    BY ONLY BatchTyped, <1>0, <2>1, <2>2, <2>3, <2>4, <2>5, ReadStep
<1>2. CASE Abort(c) \/ Close(c)
  <2>1. pc' \in [Proc -> PC] /\ pc[c] = "lock"
        /\ \A q \in Proc : q # c => pc'[q] = pc[q]
    BY <1>0, <1>2, GotoMoves DEF Abort, Close, TypeOK, PC
  <2>2. SameBatch(c) => disk.id \in Starter
    BY <1>0 DEF SameBatch, TypeOK, State
  <2>3. MarksTyped
    BY <1>0, <1>2, <2>2 DEF Abort, Close, Archive, TypeOK, MarksTyped
  <2>4. disk' \in State \cup {NoState} /\ UNCHANGED mem
    BY <1>0, <1>2 DEF Abort, Close, Archive, TypeOK
  <2> QED
    BY <1>0, <2>1, <2>3, <2>4, PlainStep DEF WithState
<1> QED
  BY <1>1, <1>2

(* Killing a process keeps the types.                                        *)
LEMMA KillTyped ==
  ASSUME BatchTyped, NEW p \in Proc, Kill(p)
  PROVE  TypedStep(p)
<1>0. TypeOK
  BY DEF BatchTyped
<1>1. pc' \in [Proc -> PC] /\ pc'[p] = "dead"
      /\ \A q \in Proc : q # p => pc'[q] = pc[q]
  BY <1>0 DEF Kill, TypeOK, PC
<1> QED
  BY <1>0, <1>1, MarksKept, PlainStep DEF Kill, WithState, Marks, TypeOK

(* No command uses a state it has not read. *)
LEMMA BatchTypedAlways == Spec => []BatchTyped
<1>1. Init => BatchTyped
  BY DEF Init, BatchTyped, TypeOK, MemLoaded, PC, WithState
<1>2. BatchTyped /\ [Next]_vars => BatchTyped'
  <2> SUFFICES ASSUME BatchTyped, [Next]_vars PROVE BatchTyped'
    OBVIOUS
  <2>1. ASSUME NEW s \in Starter, Start(s) PROVE BatchTyped'
    BY <2>1, StartTyped, TypedStepTyped DEF Proc, Engine
  <2>2. ASSUME NEW r \in Resumer, Resume(r) PROVE BatchTyped'
    BY <2>2, ResumeTyped, TypedStepTyped DEF Proc, Engine
  <2>3. ASSUME NEW e \in Engine, Loop(e) \/ Progress(e) \/ Land(e)
        PROVE  BatchTyped'
    BY <2>3, LoopTyped, ProgressTyped, LandTyped, TypedStepTyped DEF Proc
  <2>4. ASSUME NEW c \in Pauser, Pause(c) PROVE BatchTyped'
    BY <2>4, PauseTyped, TypedStepTyped DEF Proc
  <2>5. ASSUME NEW c \in Aborter \cup Closer,
               LoadToClose(c) \/ Abort(c) \/ Close(c)
        PROVE  BatchTyped'
    BY <2>5, CloseTyped, TypedStepTyped DEF Proc
  <2>6. ASSUME NEW p \in Proc, Kill(p) PROVE BatchTyped'
    BY <2>6, KillTyped, TypedStepTyped
  <2>7. CASE UNCHANGED vars
    BY <2>7 DEF vars, BatchTyped, TypeOK, MemLoaded
  <2> QED
    BY <2>1, <2>2, <2>3, <2>4, <2>5, <2>6, <2>7 DEF Next
<1> QED
  BY <1>1, <1>2, PTL DEF Spec

(* Every variable keeps its type, whichever processes there are.             *)
THEOREM TypeCorrect == Spec => []TypeOK
<1>1. BatchTyped => TypeOK
  BY DEF BatchTyped
<1> QED
  BY <1>1, BatchTypedAlways, PTL

-----------------------------------------------------------------------------
(* With one batch in the project, the archive check of the write guard is    *)
(* enough.  A save of a state of the batch keeps ArchivedStaysGone,          *)
OneBatch == \A s, t \in Starter : s = t

(* A guarded save does not bring the only batch back.                        *)
LEMMA SaveKeepsGone ==
  ASSUME OneBatch, BatchTyped, ArchivedStaysGone, UNCHANGED archived,
         NEW p \in Proc, NEW m \in State, NEW b \in BOOLEAN, SaveAs(p, m, b)
  PROVE  ArchivedStaysGone'
<1>1. Persisted(m) \in State /\ Persisted(m).id = m.id /\ m.id \in Starter
  BY PersistedType DEF State
<1>2. CASE disk = NoState
  BY <1>1, <1>2 DEF SaveAs, MayWrite, ArchivedStaysGone
<1>3. CASE disk # NoState
  <2>1. disk.id = m.id
    BY <1>1, <1>3 DEF OneBatch, BatchTyped, TypeOK, State
  <2> QED
    BY <1>1, <1>3, <2>1 DEF SaveAs, ArchivedStaysGone
<1> QED
  BY <1>2, <1>3

(* Nor does one that merges the pause.                                       *)
LEMMA MergedSaveKeepsGone ==
  ASSUME OneBatch, BatchTyped, ArchivedStaysGone, UNCHANGED Marks,
         NEW p \in Proc, NEW m \in State, saveEngineBatchState(p, m)
  PROVE  ArchivedStaysGone'
BY MergedType, SaveKeepsGone DEF saveEngineBatchState, Marks

(* and so does a write that only changes the phase, or removes the file.     *)
LEMMA SameBatchKeepsGone ==
  ASSUME ArchivedStaysGone, UNCHANGED archived,
         disk' # NoState => disk # NoState /\ disk'.id = disk.id
  PROVE  ArchivedStaysGone'
BY DEF ArchivedStaysGone

(* No step of an engine's loop or landing brings an archived batch back.     *)
LEMMA EngineKeepsGone ==
  ASSUME OneBatch, BatchTyped, ArchivedStaysGone, NEW e \in Engine,
         Loop(e) \/ Progress(e) \/ Land(e)
  PROVE  ArchivedStaysGone'
<1>0. e \in Proc /\ TypeOK /\ MemLoaded
  BY DEF Proc, BatchTyped
<1>1. CASE ObservePause(e) \/ Proceed(e) \/ EndTick(e) \/ LateFinalize(e) \/ Exit(e)
  BY <1>1, SameBatchKeepsGone
  DEF ObservePause, Proceed, EndTick, LateFinalize, Exit, Marks
<1>2. CASE AdoptPause(e) \/ SaveMergedProgress(e)
  <2>1. mem[e] \in State
    BY <1>0, <1>2 DEF AdoptPause, SaveMergedProgress, Goto, MemLoaded, WithState
  <2> QED
    BY <1>0, <1>2, <2>1, MergedSaveKeepsGone DEF AdoptPause, SaveMergedProgress
<1>3. CASE StopOnAbort(e) \/ Fail(e)
  <2>1. mem[e] \in State
    BY <1>0, <1>3 DEF StopOnAbort, Fail, Goto, MemLoaded, WithState
  <2>2. PICK m \in State : saveEngineBatchState(e, m) \/ SaveAs(e, m, FALSE)
    <3>1. [mem[e] EXCEPT !.phase = "aborted", !.ended = TRUE] \in State
      BY <2>1 DEF State, Phase, TERMINAL_BATCH_PHASES
    <3>2. [mem[e] EXCEPT !.phase = "failed", !.ended = TRUE] \in State
      BY <2>1 DEF State, Phase, TERMINAL_BATCH_PHASES
    <3> QED
      BY <1>3, <3>1, <3>2 DEF StopOnAbort, Fail, Finish, saveSpineBatchState
  <2>3. UNCHANGED Marks
    BY <1>3 DEF StopOnAbort, Fail
  <2> QED
    BY <1>0, <2>2, <2>3, MergedSaveKeepsGone, SaveKeepsGone DEF Marks
<1>4. CASE SaveDirectProgress(e) \/ BlockMerge(e) \/ MergeWave(e)
           \/ ClearPid(e) \/ SaveCompleted(e)
  <2>1. mem[e] \in State
    BY <1>0, <1>4
    DEF SaveDirectProgress, BlockMerge, MergeWave, ClearPid, SaveCompleted,
        Goto, MemLoaded, WithState
  <2>2. PICK m \in State, b \in BOOLEAN : SaveAs(e, m, b)
    <3>1. /\ [mem[e] EXCEPT !.phase = "merge_blocked", !.ended = TRUE,
                            !.owner = NoOne] \in State
          /\ [mem[e] EXCEPT !.phase = "completed"] \in State
      BY <2>1 DEF State, Phase, TERMINAL_BATCH_PHASES
    <3>2. /\ [mem[e] EXCEPT !.landed = TRUE] \in State
          /\ [mem[e] EXCEPT !.owner = NoOne, !.ended = TRUE] \in State
      BY <2>1 DEF State
    <3> QED
      BY <1>4, <2>1, <3>1, <3>2
      DEF SaveDirectProgress, BlockMerge, MergeWave, ClearPid, SaveCompleted,
          saveSpineBatchState
  <2>3. UNCHANGED Marks
    BY <1>4
    DEF SaveDirectProgress, BlockMerge, MergeWave, ClearPid, SaveCompleted
  <2> QED
    BY <1>0, <2>2, <2>3, SaveKeepsGone DEF Marks
<1>5. CASE EnforcePause(e)
  <2>1. disk'.id = disk.id
    BY <1>0, <1>5 DEF EnforcePause, TypeOK, State
  <2> QED
    BY <1>5, <2>1, SameBatchKeepsGone DEF EnforcePause, Marks
<1> QED
  BY <1>1, <1>2, <1>3, <1>4, <1>5 DEF Loop, Progress, Land

(* No step of `batch start` brings an archived batch back.                   *)
LEMMA StartKeepsGone ==
  ASSUME OneBatch, BatchTyped, ArchivedStaysGone, NEW s \in Starter, Start(s)
  PROVE  ArchivedStaysGone'
<1>0. s \in Proc /\ TypeOK /\ MemLoaded
  BY DEF Proc, Engine, BatchTyped
<1>1. CASE ClearStale(s) \/ CheckActive(s)
  <2>1. UNCHANGED archived /\ disk' \in {disk, NoState}
    BY <1>1 DEF ClearStale, CheckActive, Marks
  <2> QED
    BY <2>1, SameBatchKeepsGone
<1>2. CASE SavePlan(s)
  <2> DEFINE m == [id |-> s, phase |-> "planning", owner |-> NoOne,
                   ended |-> FALSE, landed |-> FALSE]
  <2>1. m \in State
    BY DEF State, Phase, ACTIVE_PHASES
  <2>2. saveEngineBatchState(s, m) /\ UNCHANGED Marks
    BY <1>2 DEF SavePlan
  <2> HIDE DEF m
  <2> QED
    BY <1>0, <2>1, <2>2, MergedSaveKeepsGone
<1>3. CASE Run(s)
  <2> DEFINE m == [mem[s] EXCEPT !.phase = "running", !.owner = s]
  <2>1. mem[s] \in State
    BY <1>0, <1>3 DEF Run, MemLoaded, WithState, Goto
  <2>2. m \in State
    BY <2>1 DEF State, Phase, ACTIVE_PHASES, Engine
  <2>3. saveEngineBatchState(s, m) /\ UNCHANGED Marks
    BY <1>3 DEF Run
  <2> HIDE DEF m
  <2> QED
    BY <1>0, <2>2, <2>3, MergedSaveKeepsGone
<1>4. CASE ProvisionLanes(s)
  <2>1. mem[s] \in State
    BY <1>0, <1>4 DEF ProvisionLanes, MemLoaded, WithState, Goto
  <2>2. Merged(mem[s]) \in State
    BY <2>1, MergedType
  <2>3. SaveAs(s, Merged(mem[s]), FALSE) /\ UNCHANGED archived
    BY <1>4 DEF ProvisionLanes, saveEngineBatchState
  <2> QED
    BY <1>0, <2>2, <2>3, SaveKeepsGone
<1> QED
  BY <1>1, <1>2, <1>3, <1>4 DEF Start

(* No step of `batch resume` brings an archived batch back.                  *)
LEMMA ResumeKeepsGone ==
  ASSUME OneBatch, BatchTyped, ArchivedStaysGone, NEW r \in Resumer, Resume(r)
  PROVE  ArchivedStaysGone'
<1>0. r \in Proc /\ r \in Engine /\ TypeOK /\ MemLoaded
  BY DEF Proc, Engine, BatchTyped
<1>1. CASE \/ EnforceSingleOwner(r) \/ ValidateResume(r) \/ RefuseResume(r)
           \/ LoadAndHandOff(r) \/ LoadFindsNothing(r) \/ JournalResumed(r)
  BY <1>1, SameBatchKeepsGone
  DEF EnforceSingleOwner, ValidateResume, RefuseResume, LoadAndHandOff,
      LoadFindsNothing, JournalResumed, Marks
<1>2. CASE ClaimLimbo(r) \/ SaveRunning(r)
  <2>1. mem[r] \in State
    BY <1>0, <1>2 DEF ClaimLimbo, SaveRunning, MemLoaded, WithState, Goto
  <2>2. [mem[r] EXCEPT !.phase = "running", !.owner = r, !.ended = FALSE] \in State
    BY <1>0, <2>1 DEF State, Phase, ACTIVE_PHASES
  <2>3. PICK m \in State, b \in BOOLEAN : SaveAs(r, m, b)
    BY <1>2, <2>1, <2>2 DEF ClaimLimbo, SaveRunning, saveSpineBatchState
  <2>4. UNCHANGED archived
    BY <1>2 DEF ClaimLimbo, SaveRunning, Marks
  <2> QED
    BY <1>0, <2>3, <2>4, SaveKeepsGone
<1> QED
  BY <1>1, <1>2 DEF Resume

(* No other command and no kill brings an archived batch back.               *)
LEMMA OperatorKeepsGone ==
  ASSUME BatchTyped, ArchivedStaysGone, NEW c \in Proc,
         Pause(c) \/ LoadToClose(c) \/ Abort(c) \/ Close(c) \/ Kill(c)
  PROVE  ArchivedStaysGone'
<1>1. CASE Pause(c)
  <2>1. UNCHANGED archived
    BY <1>1
    DEF Pause, LoadForPause, WritePause, PollPause, ConfirmPause,
        RollBackPause, JournalPaused, Marks
  <2>2. disk' # NoState => disk # NoState /\ disk'.id = disk.id
    <3>1. CASE WritePause(c)
      BY <3>1 DEF WritePause, DiskIn, BatchTyped, TypeOK, State
    <3>2. CASE RollBackPause(c)
      BY <3>2 DEF RollBackPause, DiskIn, BatchTyped, TypeOK, State
    <3>3. CASE LoadForPause(c) \/ PollPause(c) \/ ConfirmPause(c) \/ JournalPaused(c)
      BY <3>3 DEF LoadForPause, PollPause, ConfirmPause, JournalPaused
    <3> QED
      BY <1>1, <3>1, <3>2, <3>3 DEF Pause
  <2> QED
    BY <2>1, <2>2, SameBatchKeepsGone
<1>2. CASE LoadToClose(c) \/ Kill(c)
  BY <1>2, SameBatchKeepsGone DEF LoadToClose, Kill, Marks
<1>3. CASE Abort(c) \/ Close(c)
  BY <1>3 DEF Abort, Close, Archive, ArchivedStaysGone
<1> QED
  BY <1>1, <1>2, <1>3

(* The state of an archived batch is never written again, by no late save of *)
(* its engine either, as long as the project runs one batch: for two, TLC    *)
(* shows that the guard does not prevent it.                                 *)
THEOREM ArchivedGone ==
  ASSUME OneBatch
  PROVE  Spec => []ArchivedStaysGone
<1>1. Init => ArchivedStaysGone
  BY DEF Init, ArchivedStaysGone
<1>2. BatchTyped /\ ArchivedStaysGone /\ [Next]_vars => ArchivedStaysGone'
  <2> SUFFICES ASSUME BatchTyped, ArchivedStaysGone, [Next]_vars
               PROVE  ArchivedStaysGone'
    OBVIOUS
  <2>1. ASSUME NEW s \in Starter, Start(s) PROVE ArchivedStaysGone'
    BY <2>1, StartKeepsGone
  <2>2. ASSUME NEW r \in Resumer, Resume(r) PROVE ArchivedStaysGone'
    BY <2>2, ResumeKeepsGone
  <2>3. ASSUME NEW e \in Engine, Loop(e) \/ Progress(e) \/ Land(e)
        PROVE  ArchivedStaysGone'
    BY <2>3, EngineKeepsGone
  <2>4. ASSUME NEW c \in Proc,
               Pause(c) \/ LoadToClose(c) \/ Abort(c) \/ Close(c) \/ Kill(c)
        PROVE  ArchivedStaysGone'
    BY <2>4, OperatorKeepsGone
  <2>5. CASE UNCHANGED vars
    BY <2>5 DEF vars, ArchivedStaysGone
  <2> QED
    BY <2>1, <2>2, <2>3, <2>4, <2>5 DEF Next, Proc
<1> QED
  BY <1>1, <1>2, BatchTypedAlways, PTL DEF Spec
-----------------------------------------------------------------------------
(* What each process holds in memory fits where it is.                       *)

(* An engine has its own pid in the state it works with, and that state is   *)
(* active until the save that ends the batch; a pause holds the phase that   *)
(* it would put back.                                                        *)
Pausing == {"write", "waiting", "saw", "clobbered", "rollback"}
Driving == {"provision", "resumed", "boundary", "adopt", "tick", "merge"}
Landing == {"finalize", "gate", "final"}
Over == {"exiting", "done", "dead"}

(* A batch that was planned and has not been run. *)
Unrun(m) == /\ m.phase \in {"planning", "paused"} /\ m.owner = NoOne
            /\ ~m.ended /\ ~m.landed

Fits(p) ==
  /\ p \in Engine =>
       /\ pc[p] \in Driving =>
            mem[p].phase \in ACTIVE_PHASES /\ mem[p].owner = p
       /\ pc[p] \in {"gate", "final"} => mem[p].ended
       /\ pc[p] = "exiting" => mem[p].ended \/ mem[p].owner = p
  /\ p \in Starter =>
       /\ mem[p] # NoState => mem[p].id = p /\ mem[p].owner \in {p, NoOne}
       /\ pc[p] \in {"new", "check", "plan"} => mem[p] = NoState
       /\ pc[p] = "planned" => Unrun(mem[p])
       /\ pc[p] \in Driving => ~mem[p].landed
       /\ pc[p] \in Landing => mem[p].phase \in ACTIVE_PHASES /\ mem[p].landed
       /\ pc[p] = "adopt" => mem[p].phase = "paused"
  /\ p \in Resumer => pc[p] \notin {"check", "plan", "planned"}
  /\ pc[p] \in Pausing => mem[p].phase \in {"running", "planning"}
MemFits == \A p \in Proc : Fits(p)

(* What a save of the state m leaves in memory: m, perhaps paused, and       *)
(* without a pid when it has ended.                                          *)
Took(p, m) ==
  /\ mem'[p] \in State
  /\ mem'[p].id = m.id /\ mem'[p].ended = m.ended /\ mem'[p].landed = m.landed
  /\ mem'[p].phase = m.phase \/ (mem'[p].phase = "paused" /\ PauseRequested(m))
  /\ m.phase \in ACTIVE_PHASES => mem'[p].owner = m.owner
  /\ mem'[p].owner \in {m.owner, NoOne}

(* Where engines save from. *)
SavePoint == {"plan", "planned", "provision", "boundary", "adopt", "tick",
              "merge", "finalize", "final", "save", "claim"}

(* A guarded save of a state of the process's own batch. *)
Saved(e) ==
  \E m \in State, b \in BOOLEAN :
    SaveAs(e, m, b) /\ m.id = IF e \in Starter THEN e ELSE mem[e].id

(* What a step of an engine does, the reporter's left out: it leaves the     *)
(* disk alone, it clears a stale state, or it saves.                         *)
Advance(e) ==
  /\ Fits(e)'
  /\ archived' = archived /\ paused' \subseteq paused
  /\ pc'[e] \notin {"new", "dead"} \cup Pausing
  /\ pc'[e] \in {"check", "plan"} => pc[e] \in {"new", "check"}
  /\ pc'[e] = "planned" => pc[e] = "plan"
  /\ pc'[e] = "finalize" => mem'[e].landed \/ pc[e] = "claim"
  /\ pc'[e] = "done" => e \in Resumer \/ pc[e] \in {"new", "check", "exiting"}
  /\ pc[e] \in Over => pc'[e] = "done"
  /\ e \in Starter =>
       /\ mem[e] # NoState => mem'[e] # NoState
       /\ mem'[e] # NoState => mem[e] # NoState \/ (Saved(e) /\ pc[e] = "plan")
       /\ pc[e] \in Landing => mem'[e].landed /\ pc'[e] \in Landing \cup {"exiting"}
       /\ mem'[e] # NoState /\ mem'[e].phase = "paused" =>
            \/ mem[e] # NoState /\ mem[e].phase = "paused"
            \/ paused # {} \/ DiskIn({"paused"})
  /\ \/ /\ disk' = disk /\ provisioned' = provisioned /\ pc[e] # "plan"
        /\ pc'[e] = "exiting" => disk = NoState
        /\ pc'[e] \in Driving \cup Landing \cup {"exiting"} =>
             pc[e] \in Driving \cup Landing
     \/ /\ e \in Starter /\ pc[e] = "new" /\ disk' \in {disk, NoState}
        /\ pc'[e] \in {"check", "done"}
        /\ provisioned' = provisioned
     \/ /\ Saved(e) /\ pc[e] \in SavePoint
        /\ pc'[e] \in Driving \cup Landing \cup {"planned", "exiting"}
        /\ provisioned' = provisioned \/ pc[e] = "provision"
        /\ e \in Starter => pc[e] \notin {"save", "claim"}
        /\ e \in Starter /\ pc'[e] = "exiting" =>
             mem'[e].phase \notin {"planning", "running"}

(* A save of a state, with or without the pause merged, takes that state.    *)
LEMMA SaveTakes ==
  ASSUME TypeOK, NEW p \in Proc, NEW m \in State, NEW b \in BOOLEAN,
         SaveAs(p, m, b) \/ saveSpineBatchState(p, m) \/ saveEngineBatchState(p, m)
  PROVE  Took(p, m) /\ \E n \in State, c \in BOOLEAN : SaveAs(p, n, c) /\ n.id = m.id
<1>1. PICK n \in State, c \in BOOLEAN :
        SaveAs(p, n, c) /\ (n = m \/ (n = Merged(m)))
  BY MergedType DEF saveSpineBatchState, saveEngineBatchState
<1>2. /\ n.id = m.id /\ n.ended = m.ended /\ n.landed = m.landed
      /\ n.owner = m.owner
      /\ n.phase = m.phase \/ (n.phase = "paused" /\ PauseRequested(m))
  BY <1>1 DEF Merged, State
<1>3. mem'[p] = n \/ mem'[p] = Persisted(n)
  BY <1>1 DEF SaveAs, Keep, TypeOK
<1>4. /\ mem'[p] \in State /\ mem'[p].id = n.id /\ mem'[p].ended = n.ended
      /\ mem'[p].landed = n.landed /\ mem'[p].phase = n.phase
      /\ n.phase \in ACTIVE_PHASES => mem'[p].owner = n.owner
      /\ mem'[p].owner \in {n.owner, NoOne}
  <2>1. /\ Persisted(n) \in State /\ Persisted(n).id = n.id
        /\ Persisted(n).ended = n.ended /\ Persisted(n).landed = n.landed
        /\ Persisted(n).phase = n.phase
    BY DEF Persisted, State
  <2>2. /\ n.phase \in ACTIVE_PHASES => Persisted(n).owner = n.owner
        /\ Persisted(n).owner \in {n.owner, NoOne}
    BY DEF Persisted, ACTIVE_PHASES, TERMINAL_BATCH_PHASES, State
  <2>3. QED BY <1>3, <2>1, <2>2
<1>5. m.phase \in ACTIVE_PHASES => n.phase \in ACTIVE_PHASES
  BY <1>2 DEF ACTIVE_PHASES
<1>6. QED BY <1>1, <1>2, <1>4, <1>5 DEF Took

(* A save of the engine's own batch is one. *)
LEMMA SavesItsOwn ==
  ASSUME TypeOK, NEW e \in Engine, NEW m \in State, NEW b \in BOOLEAN,
         SaveAs(e, m, b) \/ saveSpineBatchState(e, m) \/ saveEngineBatchState(e, m),
         m.id = IF e \in Starter THEN e ELSE mem[e].id
  PROVE  Took(e, m) /\ Saved(e)
BY SaveTakes DEF Saved, Proc

(* The state m is one to save on the way to where the engine is next. *)
Suits(e, m) ==
  /\ pc[e] \in SavePoint
  /\ pc'[e] \in Driving \cup Landing \cup {"planned", "exiting"}
  /\ m.phase = "paused" => pc[e] # "plan" /\ mem[e].phase = "paused"
  /\ pc'[e] = "planned" => pc[e] = "plan" /\ Unrun(m)
  /\ pc'[e] \in Driving => m.phase \in ACTIVE_PHASES /\ m.owner = e
  /\ pc'[e] \in {"gate", "final"} => m.ended
  /\ pc'[e] = "exiting" => \/ m.ended
                           \/ m.owner = e /\ m.phase \in ACTIVE_PHASES
  /\ pc'[e] = "finalize" => m.landed \/ pc[e] = "claim"
  /\ e \in Starter =>
       /\ m.id = e /\ m.owner \in {e, NoOne} /\ pc[e] \notin {"save", "claim"}
       /\ pc[e] \in Landing => m.landed /\ pc'[e] \in Landing \cup {"exiting"}
       /\ pc'[e] \in Driving => ~m.landed /\ pc'[e] # "adopt"
       /\ pc'[e] \in Landing => m.phase \in ACTIVE_PHASES /\ m.landed
       /\ pc'[e] = "exiting" => m.phase \notin {"planning", "running"}
  /\ e \in Resumer => m.id = mem[e].id /\ e \notin Starter /\ pc'[e] # "planned"

(* A save in which the engine goes from one place to another. *)
LEMMA SaveAdvances ==
  ASSUME BatchTyped, MemFits, NEW e \in Engine, NEW m \in State,
         NEW b \in BOOLEAN,
         SaveAs(e, m, b) \/ saveSpineBatchState(e, m) \/ saveEngineBatchState(e, m),
         Suits(e, m), archived' = archived, paused' = paused,
         provisioned' = provisioned \/ pc[e] = "provision"
  PROVE  Advance(e)
<1>0. e \in Proc /\ TypeOK /\ MemLoaded /\ Fits(e)
  BY DEF Proc, BatchTyped, MemFits
<1>1. Took(e, m) /\ Saved(e)
  BY <1>0, SavesItsOwn DEF Suits, Engine
<1>2. "paused" \in ACTIVE_PHASES
  BY DEF ACTIVE_PHASES
<1>3. m.phase \in ACTIVE_PHASES =>
        mem'[e].phase \in ACTIVE_PHASES /\ mem'[e].owner = m.owner
  BY <1>1, <1>2 DEF Took
<1>4. Unrun(m) => Unrun(mem'[e])
  BY <1>1 DEF Unrun, Took
<1>5. Fits(e)'
  BY <1>1, <1>3, <1>4 DEF Fits, Took, Suits, Driving, Landing, Pausing
<1>6. mem'[e].phase = "paused" =>
        \/ mem[e] # NoState /\ mem[e].phase = "paused"
        \/ paused # {} \/ DiskIn({"paused"})
  <2>1. CASE m.phase = "paused"
    <3>1. pc[e] \in WithState
      BY <2>1 DEF WithState, Suits, SavePoint
    <3>2. mem[e] \in State
      BY <1>0, <3>1 DEF MemLoaded
    <3>3. QED BY <2>1, <3>2, StateAssumption DEF Suits
  <2>2. CASE m.phase # "paused"
    BY <1>1, <2>2 DEF Took, PauseRequested
  <2>3. QED BY <2>1, <2>2
<1>7. pc[e] \notin Over /\ pc'[e] \notin {"new", "dead", "check", "plan", "done"} \cup Pausing
  BY DEF Suits, SavePoint, Over, Driving, Landing, Pausing
<1>8. mem'[e].landed = m.landed /\ mem'[e] # NoState
      /\ (m.phase \notin {"planning", "running"} =>
             mem'[e].phase \notin {"planning", "running"})
  BY <1>1, StateAssumption DEF Took
<1>9. pc[e] # "plan" => mem[e] # NoState
  <2>1. pc[e] \in WithState \cup {"plan"}
    BY DEF Suits, SavePoint, WithState
  <2>2. QED BY <1>0, <2>1, StateAssumption DEF MemLoaded
<1>10. QED
  BY <1>1, <1>5, <1>6, <1>7, <1>8, <1>9 DEF Advance, Suits

(* A step that leaves disk, memory and marks alone. *)
LEMMA QuietAdvances ==
  ASSUME BatchTyped, MemFits, NEW e \in Engine,
         UNCHANGED <<disk, mem, archived, provisioned>>, paused' \subseteq paused,
         pc'[e] \notin {"new", "dead", "finalize", "planned", "adopt"} \cup Pausing,
         pc[e] # "plan",
         pc'[e] = "exiting" => /\ disk = NoState /\ mem[e].ended
                              /\ pc[e] \in Landing,
         pc[e] \in Over => pc'[e] = "done",
         pc'[e] \in {"check", "plan"} => pc[e] \in {"new", "check"} /\ e \in Starter,
         pc'[e] = "done" => e \in Resumer \/ pc[e] \in {"new", "check", "exiting"},
         pc'[e] \in Driving => pc[e] \in Driving,
         pc[e] \in Landing => pc'[e] \in Landing \cup {"exiting"},
         pc'[e] \in {"gate", "final"} => pc[e] \in {"gate", "final"}
  PROVE  Advance(e)
<1>0. e \in Proc /\ Fits(e)
  BY DEF Proc, MemFits
<1>1. Fits(e)'
  BY <1>0, StateAssumption DEF Fits, Landing, Driving
<1>2. mem'[e] = mem[e] /\ (pc[e] \in Landing /\ e \in Starter => mem[e].landed)
  BY <1>0 DEF Fits
<1>3. QED
  BY <1>1, <1>2, <1>0 DEF Advance, Landing

(* The states that engines save fit them. *)
LEMMA EngineMemory ==
  ASSUME BatchTyped, MemFits, NEW e \in Engine, pc[e] \in WithState
  PROVE  /\ mem[e] \in State /\ Fits(e) /\ e \in Proc
         /\ e \in Starter => /\ mem[e].id = e /\ mem[e].owner \in {e, NoOne}
                             /\ e \notin Resumer
         /\ pc[e] \in Driving => /\ mem[e].phase \in ACTIVE_PHASES
                                 /\ mem[e].owner = e
                                 /\ e \in Starter => ~mem[e].landed
         /\ pc[e] = "planned" => mem[e].phase \in ACTIVE_PHASES /\ e \in Starter
<1>1. mem[e] \in State /\ Fits(e) /\ e \in Proc
  BY DEF BatchTyped, MemLoaded, MemFits, Proc
<1>2. QED
  BY <1>1, StateAssumption DEF Fits, Unrun, ACTIVE_PHASES, Engine

(* Each step of `batch start` is an advance, *)
LEMMA StartAdvances ==
  ASSUME BatchTyped, MemFits, NEW e \in Starter, Start(e)
  PROVE  Advance(e)
<1>0. e \in Engine /\ e \in Proc /\ TypeOK /\ e \notin Pauser /\ e \notin Resumer
  BY StateAssumption DEF Proc, Engine, BatchTyped
<1> USE DEF Driving, Landing, Pausing, Over, SavePoint, WithState, Marks, Goto,
            TypeOK
<1>1. CASE ClearStale(e)
  <2>1. /\ pc[e] = "new" /\ pc'[e] \in {"check", "done"}
        /\ disk' \in {disk, NoState} /\ UNCHANGED <<mem, Marks>>
    BY <1>0, <1>1 DEF ClearStale
  <2>2. Fits(e)'
    BY <1>0, <2>1 DEF MemFits, Fits
  <2>3. QED BY <1>0, <2>1, <2>2 DEF Advance
<1>2. CASE CheckActive(e)
  <2>1. /\ pc[e] = "check" /\ pc'[e] \in {"plan", "done"}
        /\ UNCHANGED <<disk, mem, Marks>>
    BY <1>0, <1>2 DEF CheckActive
  <2>2. QED BY <1>0, <2>1, QuietAdvances
<1>3. CASE SavePlan(e)
  <2> DEFINE m == [id |-> e, phase |-> "planning", owner |-> NoOne,
                   ended |-> FALSE, landed |-> FALSE]
  <2>1. /\ m \in State /\ m.phase \in ACTIVE_PHASES /\ m.id = e
        /\ m.phase = "planning" /\ m.owner = NoOne /\ Unrun(m)
    BY DEF State, Phase, ACTIVE_PHASES, Unrun
  <2>2. /\ pc[e] = "plan" /\ pc'[e] = "planned" /\ UNCHANGED Marks
        /\ saveEngineBatchState(e, m)
    BY <1>0, <1>3 DEF SavePlan
  <2> HIDE DEF m
  <2>3. QED BY <1>0, <2>1, <2>2, SaveAdvances DEF Suits
<1>4. CASE Run(e)
  <2> DEFINE m == [mem[e] EXCEPT !.phase = "running", !.owner = e]
  <2>1. mem[e] \in State /\ mem[e].id = e /\ ~mem[e].landed
    BY <1>0, <1>4, EngineMemory DEF Run, Fits, Unrun
  <2>2. m \in State /\ m.phase \in ACTIVE_PHASES /\ m.id = e /\ m.owner = e
        /\ m.phase = "running" /\ ~m.landed
    BY <1>0, <2>1 DEF State, Phase, ACTIVE_PHASES
  <2>3. /\ pc[e] = "planned" /\ pc'[e] = "provision" /\ UNCHANGED Marks
        /\ saveEngineBatchState(e, m)
    BY <1>0, <1>4 DEF Run
  <2> HIDE DEF m
  <2>4. QED BY <1>0, <2>2, <2>3, SaveAdvances DEF Suits
<1>5. CASE ProvisionLanes(e)
  <2>1. /\ pc[e] = "provision" /\ pc'[e] = "boundary"
        /\ UNCHANGED <<archived, paused>> /\ saveEngineBatchState(e, mem[e])
    BY <1>0, <1>5 DEF ProvisionLanes
  <2>2. /\ mem[e] \in State /\ mem[e].id = e /\ mem[e].owner = e
        /\ mem[e].phase \in ACTIVE_PHASES /\ ~mem[e].landed
    BY <1>0, <2>1, EngineMemory
  <2>3. QED BY <1>0, <2>1, <2>2, SaveAdvances DEF Suits
<1>6. QED BY <1>1, <1>2, <1>3, <1>4, <1>5 DEF Start

(* each step of `batch resume`, *)
LEMMA ResumeAdvances ==
  ASSUME BatchTyped, MemFits, NEW e \in Resumer, Resume(e)
  PROVE  Advance(e)
<1>0. e \in Engine /\ e \in Proc /\ TypeOK /\ e \notin Pauser /\ e \notin Starter
  BY StateAssumption DEF Proc, Engine, BatchTyped
<1> USE DEF Driving, Landing, Pausing, Over, SavePoint, WithState, Marks, Goto,
            TypeOK
<1>1. CASE \/ EnforceSingleOwner(e) \/ ValidateResume(e) \/ RefuseResume(e)
           \/ LoadFindsNothing(e)
  <2>1. /\ pc[e] \in {"new", "validate", "load", "limbo"}
        /\ pc'[e] \in {"done", "validate", "load", "limbo"}
        /\ UNCHANGED <<disk, mem, Marks>>
    BY <1>0, <1>1
    DEF EnforceSingleOwner, ValidateResume, RefuseResume, LoadFindsNothing
  <2>2. QED BY <1>0, <2>1, QuietAdvances
<1>2. CASE LoadAndHandOff(e)
  <2>1. /\ pc[e] \in {"load", "limbo"} /\ pc'[e] \in {"claim", "save"}
        /\ UNCHANGED <<disk, Marks>>
    BY <1>0, <1>2 DEF LoadAndHandOff
  <2>2. Fits(e)'
    BY <1>0, <2>1 DEF Fits
  <2>3. QED BY <1>0, <2>1, <2>2 DEF Advance
<1>3. CASE ClaimLimbo(e)
  <2>1. /\ pc[e] = "claim" /\ pc'[e] = "finalize" /\ UNCHANGED Marks
        /\ SaveAs(e, mem[e], TRUE)
    BY <1>0, <1>3 DEF ClaimLimbo
  <2>2. mem[e] \in State
    BY <1>0, <2>1, EngineMemory
  <2>3. QED BY <1>0, <2>1, <2>2, SaveAdvances DEF Suits
<1>4. CASE SaveRunning(e)
  <2> DEFINE m == [mem[e] EXCEPT !.phase = "running", !.owner = e,
                                 !.ended = FALSE]
  <2>1. mem[e] \in State
    BY <1>0, <1>4, EngineMemory DEF SaveRunning
  <2>2. /\ m \in State /\ m.phase \in ACTIVE_PHASES /\ m.id = mem[e].id
        /\ m.owner = e /\ m.phase = "running"
    BY <1>0, <2>1 DEF State, Phase, ACTIVE_PHASES
  <2>3. /\ pc[e] = "save" /\ pc'[e] \in {"resumed", "boundary"}
        /\ UNCHANGED Marks /\ saveSpineBatchState(e, m)
    BY <1>0, <1>4 DEF SaveRunning
  <2> HIDE DEF m
  <2>4. QED BY <1>0, <2>2, <2>3, SaveAdvances DEF Suits
<1>5. CASE JournalResumed(e)
  <2>1. /\ pc[e] = "resumed" /\ pc'[e] = "boundary" /\ paused' \subseteq paused
        /\ UNCHANGED <<disk, mem, archived, provisioned>>
    BY <1>0, <1>5 DEF JournalResumed
  <2>2. QED BY <1>0, <2>1, QuietAdvances
<1>6. QED BY <1>1, <1>2, <1>3, <1>4, <1>5 DEF Resume

(* The save that ends a batch is an advance to the engine's exit. *)
LEMMA FinishAdvances ==
  ASSUME BatchTyped, MemFits, NEW e \in Engine,
         NEW phase \in {"aborted", "failed"}, Finish(e, phase),
         UNCHANGED Marks, pc'[e] = "exiting",
         pc[e] \in {"planned", "provision", "boundary", "tick", "merge"}
  PROVE  Advance(e)
<1> DEFINE m == [mem[e] EXCEPT !.phase = phase, !.ended = TRUE]
<1>1. /\ mem[e] \in State
      /\ e \in Starter => /\ mem[e].id = e /\ mem[e].owner \in {e, NoOne}
                          /\ e \notin Resumer
  BY EngineMemory DEF WithState
<1>2. /\ m \in State /\ m.id = mem[e].id /\ m.ended /\ m.phase = phase
      /\ m.owner = mem[e].owner
  BY <1>1 DEF State, Phase, TERMINAL_BATCH_PHASES
<1>3. saveEngineBatchState(e, m) \/ saveSpineBatchState(e, m)
  BY DEF Finish
<1> HIDE DEF m
<1>4. QED
  BY <1>1, <1>2, <1>3, StateAssumption, SaveAdvances
  DEF Suits, Engine, Driving, Landing, Pausing, SavePoint, WithState, Marks

(* each step of the engine's loop, *)
LEMMA LoopAdvances ==
  ASSUME BatchTyped, MemFits, NEW e \in Engine, Loop(e)
  PROVE  Advance(e)
<1>0. e \in Proc /\ TypeOK
  BY DEF Proc, BatchTyped
<1>m. ASSUME pc[e] \in {"boundary", "adopt", "tick", "merge"}
      PROVE  /\ mem[e] \in State /\ mem[e].phase \in ACTIVE_PHASES
             /\ mem[e].owner = e
             /\ e \in Starter => mem[e].id = e /\ ~mem[e].landed
             /\ pc[e] = "adopt" /\ e \in Starter => mem[e].phase = "paused"
  BY <1>m, EngineMemory DEF WithState, Driving, Fits
<1>e. e \in Starter \/ (e \in Resumer /\ e \notin Starter)
  BY StateAssumption DEF Engine
<1> USE DEF Driving, Landing, Pausing, Over, SavePoint, WithState, Marks, Goto,
            TypeOK
<1>1. CASE ObservePause(e)
  <2>1. /\ pc[e] = "boundary" /\ pc'[e] = "adopt" /\ UNCHANGED <<disk, Marks>>
        /\ e \in Starter /\ PauseRequested(mem[e]) /\ mem'[e] = Merged(mem[e])
    BY <1>0, <1>1 DEF ObservePause, Keep
  <2>2. /\ mem'[e].phase = "paused" /\ mem'[e].owner = e
        /\ mem'[e].id = e /\ ~mem'[e].landed /\ mem'[e] \in State
    BY <1>m, <2>1, MergedType DEF Merged, State
  <2>3. paused # {} \/ DiskIn({"paused"})
    BY <2>1 DEF PauseRequested
  <2>4. Fits(e)'
    BY <1>e, <2>1, <2>2, StateAssumption DEF Fits, ACTIVE_PHASES
  <2>5. QED BY <1>m, <2>1, <2>2, <2>3, <2>4, StateAssumption DEF Advance
<1>2. CASE AdoptPause(e)
  <2>1. /\ pc[e] = "adopt" /\ pc'[e] = "exiting" /\ UNCHANGED Marks
        /\ saveEngineBatchState(e, mem[e])
    BY <1>0, <1>2 DEF AdoptPause
  <2>2. QED BY <1>0, <1>e, <1>m, <2>1, StateAssumption, SaveAdvances DEF Suits
<1>3. CASE Proceed(e) \/ EndTick(e)
  <2>1. /\ pc[e] \in {"boundary", "tick"} /\ pc'[e] \in {"tick", "merge", "boundary"}
        /\ UNCHANGED <<disk, mem, Marks>>
    BY <1>0, <1>3 DEF Proceed, EndTick
  <2>2. QED BY <1>0, <2>1, QuietAdvances
<1>4. CASE StopOnAbort(e)
  <2>1. /\ pc[e] = "tick" /\ pc'[e] = "exiting" /\ UNCHANGED Marks
        /\ Finish(e, "aborted")
    BY <1>0, <1>4 DEF StopOnAbort
  <2>2. QED BY <2>1, FinishAdvances
<1>5. CASE BlockMerge(e)
  <2> DEFINE m == [mem[e] EXCEPT !.phase = "merge_blocked", !.ended = TRUE,
                                 !.owner = NoOne]
  <2>1. /\ pc[e] = "merge" /\ pc'[e] = "exiting" /\ UNCHANGED Marks
        /\ saveSpineBatchState(e, m)
    BY <1>0, <1>5 DEF BlockMerge
  <2>2. /\ m \in State /\ m.id = mem[e].id /\ m.ended /\ m.phase = "merge_blocked"
        /\ m.owner = NoOne
    BY <1>m, <2>1 DEF State, Phase, TERMINAL_BATCH_PHASES
  <2> HIDE DEF m
  <2>3. QED BY <1>e, <1>m, <2>1, <2>2, StateAssumption, SaveAdvances DEF Suits
<1>6. CASE MergeWave(e)
  <2> DEFINE m == [mem[e] EXCEPT !.landed = TRUE]
  <2>1. /\ pc[e] = "merge" /\ UNCHANGED Marks
        /\ \/ pc'[e] = "boundary" /\ saveSpineBatchState(e, mem[e])
           \/ pc'[e] = "finalize" /\ saveSpineBatchState(e, m)
    BY <1>0, <1>6 DEF MergeWave
  <2>2. /\ m \in State /\ m.id = mem[e].id /\ m.landed
        /\ m.phase = mem[e].phase /\ m.owner = mem[e].owner
    BY <1>m, <2>1 DEF State
  <2> HIDE DEF m
  <2>3. CASE pc'[e] = "boundary" /\ saveSpineBatchState(e, mem[e])
    BY <1>e, <1>m, <2>1, <2>3, StateAssumption, SaveAdvances DEF Suits
  <2>4. CASE pc'[e] = "finalize" /\ saveSpineBatchState(e, m)
    BY <1>e, <1>m, <2>1, <2>2, <2>4, StateAssumption, SaveAdvances DEF Suits
  <2>5. QED BY <2>1, <2>3, <2>4
<1>7. QED BY <1>1, <1>2, <1>3, <1>4, <1>5, <1>6 DEF Loop

(* every save of progress and every failure, *)
LEMMA ProgressAdvances ==
  ASSUME BatchTyped, MemFits, NEW e \in Engine, Progress(e), ~EnforcePause(e)
  PROVE  Advance(e)
<1>1. CASE SaveMergedProgress(e) \/ SaveDirectProgress(e)
  <2>1. /\ pc[e] = "tick" /\ pc'[e] = "tick" /\ UNCHANGED Marks
        /\ saveEngineBatchState(e, mem[e]) \/ saveSpineBatchState(e, mem[e])
    BY <1>1 DEF SaveMergedProgress, SaveDirectProgress
  <2>2. /\ mem[e] \in State /\ mem[e].phase \in ACTIVE_PHASES
        /\ mem[e].owner = e
        /\ e \in Starter => mem[e].id = e /\ ~mem[e].landed
    BY <2>1, EngineMemory DEF WithState, Driving
  <2>3. QED
    BY <2>1, <2>2, StateAssumption, SaveAdvances
    DEF Suits, Engine, Driving, Landing, Pausing, SavePoint, WithState, Marks
<1>2. CASE Fail(e)
  <2>1. /\ pc[e] \in {"planned", "provision", "boundary", "tick", "merge"}
        /\ pc'[e] = "exiting" /\ UNCHANGED Marks /\ Finish(e, "failed")
    BY <1>2 DEF Fail, BatchTyped, TypeOK, Proc
  <2>2. QED BY <2>1, FinishAdvances
<1>3. QED BY <1>1, <1>2 DEF Progress

(* and each step of finalizing a batch. *)
LEMMA LandAdvances ==
  ASSUME BatchTyped, MemFits, NEW e \in Engine, Land(e)
  PROVE  Advance(e)
<1>0. e \in Proc /\ TypeOK
  BY DEF Proc, BatchTyped
<1>m. ASSUME pc[e] \in {"finalize", "gate", "final"}
      PROVE  /\ mem[e] \in State
             /\ e \in Starter => mem[e].phase \in ACTIVE_PHASES /\ mem[e].landed
             /\ pc[e] \in {"gate", "final"} => mem[e].ended
             /\ e \in Starter => mem[e].id = e /\ mem[e].owner \in {e, NoOne}
  BY <1>m, EngineMemory DEF WithState, Fits, Landing
<1>e. e \in Starter \/ (e \in Resumer /\ e \notin Starter)
  BY StateAssumption DEF Engine
<1> USE DEF Driving, Landing, Pausing, Over, SavePoint, WithState, Marks, Goto,
            TypeOK
<1>1. CASE ClearPid(e)
  <2> DEFINE m == [mem[e] EXCEPT !.owner = NoOne, !.ended = TRUE]
  <2>1. /\ pc[e] = "finalize" /\ pc'[e] = "gate" /\ UNCHANGED Marks
        /\ SaveAs(e, m, TRUE)
    BY <1>0, <1>1 DEF ClearPid
  <2>2. /\ m \in State /\ m.id = mem[e].id /\ m.ended /\ m.phase = mem[e].phase
        /\ m.landed = mem[e].landed /\ m.owner = NoOne
    BY <1>m, <2>1 DEF State
  <2> HIDE DEF m
  <2>3. QED BY <1>e, <1>m, <2>1, <2>2, StateAssumption, SaveAdvances DEF Suits
<1>2. CASE LateFinalize(e)
  <2>1. /\ pc[e] = "gate" /\ pc'[e] \in {"exiting", "final"}
        /\ pc'[e] = "exiting" => disk = NoState
        /\ UNCHANGED <<disk, mem, Marks>>
    BY <1>0, <1>2 DEF LateFinalize
  <2>2. QED BY <1>0, <1>m, <2>1, QuietAdvances
<1>3. CASE SaveCompleted(e)
  <2> DEFINE m == [mem[e] EXCEPT !.phase = "completed"]
  <2>1. /\ pc[e] = "final" /\ pc'[e] = "exiting" /\ UNCHANGED Marks
        /\ SaveAs(e, m, TRUE)
    BY <1>0, <1>3 DEF SaveCompleted
  <2>2. /\ m \in State /\ m.id = mem[e].id /\ m.ended /\ m.phase = "completed"
        /\ m.landed = mem[e].landed /\ m.owner = mem[e].owner
    BY <1>m, <2>1 DEF State, Phase, TERMINAL_BATCH_PHASES
  <2> HIDE DEF m
  <2>3. QED BY <1>e, <1>m, <2>1, <2>2, StateAssumption, SaveAdvances DEF Suits
<1>4. CASE Exit(e)
  <2>1. /\ pc[e] = "exiting" /\ pc'[e] = "done" /\ UNCHANGED <<disk, mem, Marks>>
    BY <1>0, <1>4 DEF Exit
  <2>2. QED BY <1>0, <2>1, QuietAdvances
<1>5. QED BY <1>1, <1>2, <1>3, <1>4 DEF Land

(* How a resume gets to drive a batch: it begins only when the batch has     *)
(* worktrees; when all of it has landed, it claims it as it finds it.        *)
Resting == {"new", "validate", "done", "dead"}
Watching == {"new", "validate", "limbo"}
TakesOver(r) ==
  /\ pc'[r] \in Watching => pc[r] \in {"new", "validate"}
  /\ pc[r] \in Resting =>
       /\ disk' = disk
       /\ pc'[r] \in Resting \/ (disk # NoState /\ disk.id \in provisioned)
  /\ pc'[r] = "limbo" => disk # NoState /\ disk.landed /\ disk' = disk
  /\ pc'[r] = "claim" =>
       pc[r] = "limbo" /\ disk # NoState /\ mem'[r].landed = disk.landed
  /\ pc[r] = "claim" => mem'[r].landed = mem[r].landed

(* Every step of a resume fits that. *)
LEMMA ResumesTakeOver ==
  ASSUME BatchTyped, MemFits, NEW r \in Resumer,
         \/ Resume(r) \/ Loop(r) \/ Land(r)
         \/ Progress(r) /\ ~EnforcePause(r)
  PROVE  TakesOver(r)
<1>0. r \in Engine /\ r \in Proc /\ TypeOK /\ r \notin Starter
  BY StateAssumption DEF Proc, Engine, BatchTyped
<1> USE DEF TakesOver, Resting, Watching, Goto, TypeOK
<1>1. CASE EnforceSingleOwner(r) \/ RefuseResume(r) \/ LoadFindsNothing(r)
  BY <1>0, <1>1 DEF EnforceSingleOwner, RefuseResume, LoadFindsNothing
<1>2. CASE ValidateResume(r)
  BY <1>0, <1>2 DEF ValidateResume, Resumable, PostMergeLimbo
<1>3. CASE LoadAndHandOff(r)
  <2>1. /\ pc[r] \in {"load", "limbo"} /\ disk # NoState
        /\ pc'[r] = IF pc[r] = "limbo" THEN "claim" ELSE "save"
    BY <1>0, <1>3 DEF LoadAndHandOff
  <2>2. disk \in State /\ [disk EXCEPT !.owner = NoOne].landed = disk.landed
    BY <1>0, <2>1 DEF State
  <2>3. mem'[r].landed = disk.landed
    BY <1>0, <1>3, <2>2 DEF LoadAndHandOff, Keep
  <2>4. QED BY <2>1, <2>3
<1>4. CASE ClaimLimbo(r)
  <2>1. pc[r] = "claim" /\ pc'[r] = "finalize" /\ SaveAs(r, mem[r], TRUE)
    BY <1>0, <1>4 DEF ClaimLimbo
  <2>2. mem[r] \in State
    BY <1>0, <2>1 DEF BatchTyped, MemLoaded, WithState
  <2>3. Took(r, mem[r])
    BY <1>0, <2>1, <2>2, SaveTakes
  <2>4. QED BY <2>1, <2>3 DEF Took
<1>5. CASE SaveRunning(r) \/ JournalResumed(r)
  BY <1>0, <1>5 DEF SaveRunning, JournalResumed
<1>6. CASE Loop(r)
  BY <1>0, <1>6 DEF Loop, ObservePause, AdoptPause, Proceed, EndTick,
                    StopOnAbort, BlockMerge, MergeWave
<1>7. CASE Progress(r) /\ ~EnforcePause(r)
  BY <1>0, <1>7 DEF Progress, SaveMergedProgress, SaveDirectProgress, Fail
<1>8. CASE Land(r)
  BY <1>0, <1>8 DEF Land, ClearPid, LateFinalize, SaveCompleted, Exit
<1>9. QED BY <1>1, <1>2, <1>3, <1>4, <1>5, <1>6, <1>7, <1>8 DEF Resume

(* What an engine does in one step, its milestone reporter left out. *)
EngineStep(e) ==
  /\ Advance(e) /\ TypedStep(e)
  /\ e \in Resumer => TakesOver(e)

(* What any step is: an engine's advance, its milestone reporter, a pause, a *)
(* command that closes the batch, or a kill.                                 *)
LEMMA Steps ==
  ASSUME BatchTyped, MemFits, [Next]_vars
  PROVE  \/ \E e \in Engine : EngineStep(e)
         \/ \E e \in Engine : EnforcePause(e)
         \/ \E c \in Pauser : Pause(c) /\ TypedStep(c)
         \/ \E c \in Aborter \cup Closer :
              (LoadToClose(c) \/ Abort(c) \/ Close(c)) /\ TypedStep(c)
         \/ \E p \in Proc : Kill(p) /\ TypedStep(p)
         \/ UNCHANGED vars
<1>1. ASSUME NEW e \in Starter, Start(e)
      PROVE  e \in Engine /\ EngineStep(e)
  BY <1>1, StartAdvances, StartTyped, StateAssumption DEF Engine, EngineStep
<1>2. ASSUME NEW e \in Resumer, Resume(e)
      PROVE  e \in Engine /\ EngineStep(e)
  BY <1>2, ResumeAdvances, ResumeTyped, ResumesTakeOver DEF Engine, EngineStep
<1>3. ASSUME NEW e \in Engine, Loop(e) \/ Progress(e) \/ Land(e), ~EnforcePause(e)
      PROVE  EngineStep(e)
  BY <1>3, LoopAdvances, ProgressAdvances, LandAdvances, LoopTyped,
     ProgressTyped, LandTyped, ResumesTakeOver
     DEF EngineStep
<1>4. ASSUME NEW c \in Pauser, Pause(c) PROVE TypedStep(c)
  BY <1>4, PauseTyped
<1>5. ASSUME NEW c \in Aborter \cup Closer,
             LoadToClose(c) \/ Abort(c) \/ Close(c)
      PROVE  TypedStep(c)
  BY <1>5, CloseTyped
<1>6. ASSUME NEW p \in Proc, Kill(p) PROVE TypedStep(p)
  BY <1>6, KillTyped
<1>7. QED BY <1>1, <1>2, <1>3, <1>4, <1>5, <1>6 DEF Next

(* The places of a command that is no engine, and what it has in memory. *)
LEMMA OperatorFits ==
  ASSUME BatchTyped, MemFits, NEW c \in Proc \ Engine, TypedStep(c),
         \/ c \in Pauser /\ Pause(c)
         \/ LoadToClose(c) \/ Abort(c) \/ Close(c)
  PROVE  Fits(c)'
<1>0. c \notin Starter /\ c \notin Resumer /\ Fits(c) /\ TypeOK
  BY DEF Engine, MemFits, BatchTyped
<1> USE DEF Goto, Pausing, TypeOK
<1>1. CASE LoadForPause(c)
  <2>1. CASE Pausable
    <3>1. disk \in State /\ disk.phase \in {"running", "planning"}
      BY <1>0, <2>1 DEF Pausable, DiskIn
    <3>2. [disk EXCEPT !.owner = NoOne].phase = disk.phase
      BY <3>1 DEF State
    <3>3. mem'[c].phase = disk.phase
      BY <1>0, <1>1, <2>1, <3>2 DEF LoadForPause, Keep
    <3>4. QED BY <1>0, <3>1, <3>3 DEF Fits
  <2>2. CASE ~Pausable
    BY <1>0, <1>1, <2>2 DEF LoadForPause, Fits
  <2>3. QED BY <2>1, <2>2
<1>2. CASE \/ WritePause(c) \/ PollPause(c) \/ ConfirmPause(c)
           \/ RollBackPause(c) \/ JournalPaused(c)
  <2>1. mem' = mem /\ (pc'[c] \in Pausing => pc[c] \in Pausing)
    BY <1>0, <1>2
    DEF WritePause, PollPause, ConfirmPause, RollBackPause, JournalPaused
  <2>2. QED BY <1>0, <2>1 DEF Fits
<1>3. CASE LoadToClose(c) \/ Abort(c) \/ Close(c)
  <2>1. pc'[c] \notin Pausing
    BY <1>0, <1>3 DEF LoadToClose, Abort, Close
  <2>2. QED BY <1>0, <2>1 DEF Fits
<1>4. QED BY <1>1, <1>2, <1>3 DEF Pause

(* Everybody's memory fits if it does for the process that took the step. *)
LEMMA OthersFit ==
  ASSUME MemFits, NEW p \in Proc, TypedStep(p), Fits(p)'
  PROVE  MemFits'
<1>1. ASSUME NEW q \in Proc \ {p} PROVE Fits(q)'
  <2>1. Fits(q) /\ mem'[q] = mem[q] /\ pc'[q] \in {pc[q], "dead"}
    BY DEF TypedStep, MemFits
  <2>2. QED BY <2>1 DEF Fits, Driving, Landing, Pausing
<1>2. QED BY <1>1 DEF MemFits

(* Every step keeps the memories fitting. *)
LEMMA FitsStep ==
  ASSUME BatchTyped, MemFits, [Next]_vars
  PROVE  MemFits'
<1>1. ASSUME NEW e \in Engine, EngineStep(e) PROVE MemFits'
  BY <1>1, OthersFit DEF EngineStep, Advance, Proc
<1>2. ASSUME NEW e \in Engine, EnforcePause(e) PROVE MemFits'
  BY <1>2 DEF EnforcePause, MemFits, Fits
<1>3. ASSUME NEW c \in Pauser, Pause(c), TypedStep(c) PROVE MemFits'
  <2>1. c \in Proc \ Engine
    BY StateAssumption DEF Proc
  <2>2. QED BY <1>3, <2>1, OperatorFits, OthersFit
<1>4. ASSUME NEW c \in Aborter \cup Closer,
             LoadToClose(c) \/ Abort(c) \/ Close(c), TypedStep(c)
      PROVE  MemFits'
  <2>1. c \in Proc \ Engine
    BY StateAssumption DEF Proc
  <2>2. QED BY <1>4, <2>1, OperatorFits, OthersFit
<1>5. ASSUME NEW p \in Proc, Kill(p), TypedStep(p) PROVE MemFits'
  <2>1. pc'[p] = "dead" /\ mem'[p] = mem[p] /\ Fits(p)
    BY <1>5 DEF Kill, BatchTyped, TypeOK, MemFits
  <2>2. Fits(p)'
    BY <2>1 DEF Fits, Driving, Landing, Pausing
  <2>3. QED BY <1>5, <2>2, OthersFit
<1>6. CASE UNCHANGED vars
  BY <1>6 DEF vars, MemFits, Fits
<1>7. QED BY <1>1, <1>2, <1>3, <1>4, <1>5, <1>6, Steps

(* Whichever commands run, what each has in memory fits where it is. *)
LEMMA MemFitsAlways == Spec => [](BatchTyped /\ MemFits)
<1>1. Init => MemFits
  BY StateAssumption
  DEF Init, MemFits, Fits, Driving, Landing, Pausing, Proc
<1>2. BatchTyped /\ MemFits /\ [Next]_vars => MemFits'
  BY FitsStep
<1>3. QED BY <1>1, <1>2, BatchTypedAlways, PTL DEF Spec

(* A save leaves the disk as it is, or as it is in the engine's memory; it   *)
(* is let through when the batch on disk has no other owner.                 *)
LEMMA SavedDisk ==
  ASSUME BatchTyped, NEW e \in Engine, Saved(e)
  PROVE  LET id == IF e \in Starter THEN e ELSE mem[e].id IN
         /\ \/ disk' = disk
            \/ /\ disk' = mem'[e] /\ disk' \in State /\ disk' # NoState
               /\ disk'.id = id
         /\ disk = NoState => IF id \in archived THEN disk' = disk
                                                 ELSE disk' = mem'[e]
         /\ disk # NoState /\ disk.owner \in {e, NoOne} => disk' = mem'[e]
<1> DEFINE id == IF e \in Starter THEN e ELSE mem[e].id
<1>1. PICK m \in State, b \in BOOLEAN : SaveAs(e, m, b) /\ m.id = id
  BY DEF Saved
<1>2. e \in Proc /\ TypeOK
  BY DEF Proc, BatchTyped
<1>3. Persisted(m) \in State /\ Persisted(m).id = id /\ Persisted(m) # NoState
  BY <1>1, PersistedType, StateAssumption
<1>4. MayWrite(e, m, b) => disk' = Persisted(m) /\ mem'[e] = Persisted(m)
  BY <1>1, <1>2 DEF SaveAs, Keep, TypeOK
<1>5. ~MayWrite(e, m, b) => disk' = disk
  BY <1>1 DEF SaveAs
<1>6. disk = NoState => (MayWrite(e, m, b) <=> id \notin archived)
  BY <1>1 DEF MayWrite
<1>7. disk # NoState /\ disk.owner \in {e, NoOne} => MayWrite(e, m, b)
  BY DEF MayWrite, OwnerAlive
<1>8. QED BY <1>3, <1>4, <1>5, <1>6, <1>7
-----------------------------------------------------------------------------
(* Until a resume begins, a batch that ended on disk is one whose engine     *)
(* has made its last save.                                                   *)
NoResume == \A r \in Resumer : pc[r] = "new"
EndedIsOver ==
  NoResume /\ DiskIn(TERMINAL_BATCH_PHASES) => pc[disk.id] \in Over

(* An engine that takes a step before any resume began is a starter. *)
LEMMA StarterSteps ==
  ASSUME BatchTyped, NEW e \in Engine, Advance(e), TypedStep(e), NoResume'
  PROVE  e \in Starter /\ NoResume
<1>1. e \notin Resumer
  BY DEF Advance, NoResume
<1>2. \A r \in Resumer : r \in Proc /\ r # e
  BY <1>1 DEF Proc, Engine
<1>3. QED BY <1>1, <1>2 DEF TypedStep, NoResume, Engine

(* What the other commands do to the disk and to the engines. *)
LEMMA OperatorDisk ==
  ASSUME BatchTyped, MemFits, NEW c \in Proc \ Engine, TypedStep(c),
         \/ c \in Pauser /\ Pause(c)
         \/ LoadToClose(c) \/ Abort(c) \/ Close(c)
  PROVE  /\ \/ disk' \in {disk, NoState}
            \/ /\ disk # NoState /\ disk' = [disk EXCEPT !.phase = "paused"]
               /\ DiskIn({"running", "planning", "paused"})
               /\ c \in Pauser /\ pc[c] = "write"
            \/ /\ DiskIn({"paused"}) /\ disk' = [disk EXCEPT !.phase = mem[c].phase]
               /\ mem[c].phase \in {"running", "planning"}
               /\ c \in Pauser /\ pc[c] = "rollback"
         /\ \A e \in Engine : pc'[e] \in {pc[e], "dead"} /\ mem'[e] = mem[e]
<1>0. Fits(c) /\ TypeOK
  BY DEF MemFits, BatchTyped
<1>1. \A e \in Engine : pc'[e] \in {pc[e], "dead"} /\ mem'[e] = mem[e]
  BY DEF TypedStep, Proc
<1>2. CASE WritePause(c) /\ c \in Pauser
  BY <1>1, <1>2 DEF WritePause, Goto, DiskIn
<1>3. CASE RollBackPause(c) /\ c \in Pauser
  BY <1>0, <1>1, <1>3 DEF RollBackPause, Goto, Fits, Pausing
<1>4. CASE \/ LoadForPause(c) \/ PollPause(c) \/ ConfirmPause(c)
           \/ JournalPaused(c)
  BY <1>1, <1>4 DEF LoadForPause, PollPause, ConfirmPause, JournalPaused
<1>5. CASE LoadToClose(c) \/ Abort(c) \/ Close(c)
  BY <1>1, <1>5 DEF LoadToClose, Abort, Close, Archive
<1>6. QED BY <1>2, <1>3, <1>4, <1>5 DEF Pause

(* Every step keeps it. *)
LEMMA EndedStep ==
  ASSUME BatchTyped, BatchTyped', MemFits, MemFits', EndedIsOver, [Next]_vars
  PROVE  EndedIsOver'
<1> SUFFICES ASSUME NoResume', disk' # NoState,
                    disk'.phase \in TERMINAL_BATCH_PHASES
             PROVE  pc'[disk'.id] \in Over
  BY DEF EndedIsOver, DiskIn
<1>0. TypeOK /\ TypeOK' /\ disk' \in State /\ disk'.id \in Starter
      /\ disk'.id \in Proc /\ disk'.id \in Engine
  BY DEF BatchTyped, TypeOK, State, Proc, Engine
<1>1. ASSUME disk' = disk, NoResume PROVE pc[disk'.id] \in Over
  BY <1>1 DEF EndedIsOver, DiskIn
<1>2. ASSUME NEW e \in Engine, EngineStep(e)
      PROVE  pc'[disk'.id] \in Over
  <2>0. Advance(e) /\ TypedStep(e)
    BY <1>2 DEF EngineStep
  <2>1. e \in Starter /\ NoResume
    BY <2>0, StarterSteps
  <2>2. CASE disk' = disk
    BY <1>0, <1>1, <2>0, <2>1, <2>2 DEF Advance, TypedStep, Over
  <2>3. CASE disk' # disk
    <3>1. Saved(e) /\ pc'[e] \in Driving \cup Landing \cup {"planned", "exiting"}
      BY <2>0, <2>3 DEF Advance
    <3>2. disk' = mem'[e] /\ disk'.id = e
      BY <2>1, <2>3, <3>1, SavedDisk
    <3>3. Fits(e)'
      BY <2>0 DEF Advance
    <3>4. pc'[e] \notin Driving \cup Landing \cup {"planned"}
      BY <2>1, <3>2, <3>3
      DEF Fits, Unrun, ACTIVE_PHASES, TERMINAL_BATCH_PHASES
    <3>5. QED BY <3>1, <3>2, <3>4 DEF Over
  <2>4. QED BY <2>2, <2>3
<1>3. ASSUME NEW e \in Engine, EnforcePause(e) PROVE pc'[disk'.id] \in Over
  BY <1>0, <1>3 DEF EnforcePause, TypeOK, State, TERMINAL_BATCH_PHASES
<1>4. ASSUME NEW c \in Proc \ Engine, TypedStep(c),
             \/ c \in Pauser /\ Pause(c)
             \/ LoadToClose(c) \/ Abort(c) \/ Close(c)
      PROVE  pc'[disk'.id] \in Over
  <2>1. NoResume
    BY <1>4 DEF TypedStep, NoResume, Proc, Engine
  <2>2. disk' = disk
    BY <1>0, <1>4, OperatorDisk DEF TypeOK, State, TERMINAL_BATCH_PHASES
  <2>3. QED BY <1>0, <1>1, <1>4, <2>1, <2>2, OperatorDisk DEF Over
<1>5. ASSUME NEW p \in Proc, Kill(p), TypedStep(p) PROVE pc'[disk'.id] \in Over
  <2>1. NoResume
    BY <1>0, <1>5 DEF TypedStep, NoResume, Proc, Engine, Kill, TypeOK
  <2>2. disk' = disk /\ pc'[disk'.id] \in {pc[disk'.id], "dead"}
    BY <1>0, <1>5 DEF Kill, TypeOK
  <2>3. QED BY <1>1, <2>1, <2>2 DEF Over
<1>6. CASE UNCHANGED vars
  BY <1>1, <1>6 DEF vars, NoResume
<1>7. \A c \in Pauser \cup Aborter \cup Closer : c \in Proc \ Engine
  BY StateAssumption DEF Proc
<1>8. QED BY <1>2, <1>3, <1>4, <1>5, <1>6, <1>7, Steps

(* A batch that ended is not made active again by any pause, rollback, late  *)
(* save or other batch, for any number of processes and batches, attached or *)
(* not, until a resume begins: the milestone reporters alone write to it, and *)
(* only the pause that its journal ends in.                                  *)
THEOREM EndedStays == Spec => TerminalStays
<1> DEFINE Stays ==
  (/\ DiskIn(TERMINAL_BATCH_PHASES) /\ DiskIn(ACTIVE_PHASES)'
   /\ disk'.id = disk.id)
  => \/ \E r \in Resumer : pc[r] # "new"
     \/ disk' = [disk EXCEPT !.phase = "paused"] /\ disk.id \in paused
<1>1. Init => EndedIsOver
  BY DEF Init, EndedIsOver, DiskIn
<1>2. /\ BatchTyped /\ MemFits /\ BatchTyped' /\ MemFits' /\ EndedIsOver
      /\ [Next]_vars
      => EndedIsOver'
  BY EndedStep
<1>3. BatchTyped /\ MemFits /\ EndedIsOver /\ [Next]_vars => [Stays]_vars
  <2> SUFFICES ASSUME BatchTyped, MemFits, EndedIsOver, [Next]_vars, NoResume,
                      disk # NoState, disk' # NoState,
                      disk.phase \in TERMINAL_BATCH_PHASES,
                      disk'.phase \in ACTIVE_PHASES, disk'.id = disk.id,
                      ~\E e \in Engine : EnforcePause(e)
               PROVE  FALSE
    BY DEF DiskIn, NoResume, EnforcePause
  <2>0. TypeOK /\ disk \in State /\ pc[disk.id] \in Over /\ disk' # disk
        /\ disk.id \in Starter
    BY DEF BatchTyped, TypeOK, EndedIsOver, DiskIn, ACTIVE_PHASES,
           TERMINAL_BATCH_PHASES, State
  <2>1. ASSUME NEW e \in Engine, EngineStep(e) PROVE FALSE
    <3>1. Saved(e) /\ pc[e] \in SavePoint
      BY <2>0, <2>1 DEF EngineStep, Advance
    <3>2. e \in Starter
      BY <3>1 DEF NoResume, SavePoint, Engine
    <3>3. disk'.id = e
      BY <2>0, <3>1, <3>2, SavedDisk
    <3>4. QED BY <2>0, <3>1, <3>3 DEF SavePoint, Over
  <2>2. ASSUME NEW c \in Proc \ Engine, TypedStep(c),
               \/ c \in Pauser /\ Pause(c)
               \/ LoadToClose(c) \/ Abort(c) \/ Close(c)
        PROVE  FALSE
    BY <2>0, <2>2, OperatorDisk DEF DiskIn, TERMINAL_BATCH_PHASES
  <2>3. \A c \in Pauser \cup Aborter \cup Closer : c \in Proc \ Engine
    BY StateAssumption DEF Proc
  <2>4. ~\E p \in Proc : Kill(p)
    BY <2>0 DEF Kill
  <2>5. QED BY <2>0, <2>1, <2>2, <2>3, <2>4, Steps DEF vars
<1>4. QED BY <1>1, <1>2, <1>3, MemFitsAlways, PTL DEF Spec, TerminalStays
-----------------------------------------------------------------------------
(* With one batch and one resume, a running batch with work left has an      *)
(* owner, whatever pauses, aborts and closes race with its engines.          *)
OneResume == \A q, r \in Resumer : q = r

(* A batch with a pid, or with nothing left to run. *)
Owned(m) == m.owner # NoOne \/ m.ended \/ m.landed

(* Nobody has run the batch: it has no worktrees to resume it in, and no     *)
(* pause remembers that it was running.                                      *)
NotRun ==
  /\ provisioned = {} /\ \A r \in Resumer : pc[r] \in Resting
  /\ \A c \in Pauser : pc[c] \in Pausing => mem[c].phase = "planning"

Before == {"new", "check", "plan"}
OwnedParts ==
  /\ (\E s \in Starter : pc[s] \in Before \cup {"planned"}) =>
       NotRun /\ (disk = NoState \/ Unrun(disk))
  /\ (\E s \in Starter : pc[s] \in Before) => disk = NoState
  /\ disk # NoState => Owned(disk) \/ (Unrun(disk) /\ NotRun)
  /\ \A s \in Starter :
       disk = NoState /\ pc[s] \in Driving \cup Landing \cup {"planned", "exiting"}
         => s \in archived

(* A resume that found the last wave merged finds it merged when it claims   *)
(* the batch.                                                                *)
LimboParts ==
  /\ disk # NoState /\ disk.landed /\ (\A r \in Resumer : pc[r] \in Watching)
       => pc[disk.id] \in Landing \cup Over
  /\ \A r \in Resumer : pc[r] = "limbo" /\ disk # NoState => disk.landed
  /\ \A r \in Resumer : pc[r] \in {"claim", "finalize"} => mem[r].landed

OwnInv == OwnedParts /\ LimboParts

(* The phase of the state on disk may change, and some process may die, but  *)
(* nothing else that the invariant speaks of.                                *)
SamePart ==
  /\ \A e \in Engine : pc'[e] \in {pc[e], "dead"} /\ mem'[e] = mem[e]
  /\ provisioned' = provisioned /\ archived \subseteq archived'
  /\ disk' # NoState => /\ disk # NoState /\ disk'.id = disk.id
                        /\ disk'.owner = disk.owner /\ disk'.ended = disk.ended
                        /\ disk'.landed = disk.landed
  /\ disk' = NoState => disk = NoState \/ disk.id \in archived'
  /\ (disk = NoState \/ Unrun(disk)) /\ NotRun =>
       NotRun' /\ (disk' = NoState \/ Unrun(disk'))

(* Such a step keeps it. *)
LEMMA SamePartKeeps ==
  ASSUME OneBatch, BatchTyped, OwnInv, SamePart
  PROVE  OwnInv'
<1>0. disk # NoState => disk.id \in Starter /\ disk.id \in Engine
  BY DEF BatchTyped, TypeOK, State, Engine
<1>1. (disk' # NoState /\ Owned(disk)) => Owned(disk')
  BY DEF SamePart, Owned
<1>2. \A s \in Starter : disk # NoState => disk.id = s
  BY <1>0 DEF OneBatch
<1>3. OwnedParts'
  BY <1>0, <1>1, <1>2
  DEF OwnInv, OwnedParts, SamePart, Engine, Driving, Landing, Before
<1>4. LimboParts'
  BY <1>0 DEF OwnInv, LimboParts, SamePart, Engine, Watching, Over
<1>5. QED BY <1>3, <1>4 DEF OwnInv

(* An advance of the batch's own engine keeps who owns the batch, *)
LEMMA StarterOwned ==
  ASSUME OneBatch, BatchTyped, BatchTyped', MemFits, OwnedParts,
         NEW e \in Starter, Advance(e), TypedStep(e)
  PROVE  OwnedParts'
<1>0. e \in Engine /\ e \in Proc /\ (\A s \in Starter : s = e) /\ Fits(e)'
      /\ archived' = archived
  BY DEF Engine, Proc, OneBatch, Advance
<1>1. \A q \in Resumer \cup Pauser :
        pc'[q] \in {pc[q], "dead"} /\ mem'[q] = mem[q]
  BY <1>0, StateAssumption DEF TypedStep, Proc, Engine
<1>2. provisioned' = provisioned /\ NotRun => NotRun'
  BY <1>1 DEF NotRun, Resting, Pausing
<1>3. CASE /\ disk' = disk /\ provisioned' = provisioned /\ pc[e] # "plan"
           /\ pc'[e] \in Driving \cup Landing \cup {"exiting"} =>
                pc[e] \in Driving \cup Landing
  <2>1. pc'[e] # "planned" /\ (pc'[e] \in Before => pc[e] \in Before)
    BY <1>3 DEF Advance, Before
  <2>2. QED
    BY <1>0, <1>2, <1>3, <2>1 DEF OwnedParts
<1>4. CASE /\ pc[e] = "new" /\ disk' \in {disk, NoState}
           /\ provisioned' = provisioned /\ pc'[e] \in {"check", "done"}
  BY <1>0, <1>2, <1>4 DEF OwnedParts, Before, Driving, Landing
<1>5. CASE /\ Saved(e) /\ pc[e] \in SavePoint
           /\ pc'[e] \in Driving \cup Landing \cup {"planned", "exiting"}
           /\ provisioned' = provisioned \/ pc[e] = "provision"
  <2>1. pc'[e] \notin Before
    BY <1>5 DEF Before, Driving, Landing
  <2>2. pc'[e] = "planned" => disk = NoState /\ NotRun'
    BY <1>0, <1>2, <1>5 DEF Advance, OwnedParts, Before
  <2>3. CASE disk' = disk /\ disk' # mem'[e]
    <3>1. IF disk = NoState THEN e \in archived ELSE disk.owner \notin {e, NoOne}
      BY <1>0, <1>5, <2>3, SavedDisk
    <3>2. QED
      BY <1>0, <2>1, <2>2, <2>3, <3>1 DEF OwnedParts, Owned
  <2>4. CASE disk' = mem'[e] /\ disk' # NoState
    <3>1. pc'[e] = "planned" => Unrun(disk')
      BY <1>0, <2>4 DEF Fits
    <3>2. pc'[e] # "planned" => Owned(disk')
      BY <1>0, <1>5, <2>4, StateAssumption DEF Fits, Owned
    <3>3. QED
      BY <1>0, <2>1, <2>2, <2>4, <3>1, <3>2 DEF OwnedParts
  <2>5. CASE disk' = NoState /\ disk = NoState /\ disk' = mem'[e]
    <3>1. pc'[e] \in WithState
      BY <1>5 DEF WithState, Driving, Landing
    <3>2. mem'[e] # NoState
      BY <1>0, <3>1, StateAssumption DEF BatchTyped, MemLoaded
    <3>3. QED BY <2>5, <3>2
  <2>6. QED BY <1>0, <1>5, <2>3, <2>4, <2>5, SavedDisk
<1>6. QED BY <1>3, <1>4, <1>5 DEF Advance

(* and what a resume that waits for it has seen. *)
LEMMA StarterLimbo ==
  ASSUME OneBatch, BatchTyped, BatchTyped', MemFits, OneResume, OwnInv,
         NEW e \in Starter, Advance(e), TypedStep(e)
  PROVE  LimboParts'
<1>0. e \in Engine /\ e \in Proc /\ (\A s \in Starter : s = e) /\ Fits(e)'
      /\ Fits(e)
  BY DEF Engine, Proc, OneBatch, Advance, MemFits
<1>1. \A r \in Resumer : pc'[r] \in {pc[r], "dead"} /\ mem'[r] = mem[r]
  BY <1>0, StateAssumption DEF TypedStep, Proc, Engine
<1>2. disk # NoState => disk.id = e
  BY <1>0 DEF BatchTyped, TypeOK, State
<1>3. disk' # NoState => disk'.id = e
  BY <1>0 DEF BatchTyped, TypeOK, State
<1>4. pc[e] \in Landing \cup Over => pc'[e] \in Landing \cup Over
  BY DEF Advance, Over, Landing
<1>5. \/ disk' \in {disk, NoState}
      \/ /\ disk' = mem'[e] /\ disk' # NoState /\ pc[e] \in SavePoint
         /\ pc'[e] \in Driving \cup Landing \cup {"planned", "exiting"}
  BY <1>0, SavedDisk DEF Advance
<1>6. ASSUME disk' # NoState, disk'.landed, \A r \in Resumer : pc'[r] \in Watching
      PROVE  pc'[disk'.id] \in Landing \cup Over
  <2>1. CASE disk' = disk
    BY <1>1, <1>2, <1>3, <1>4, <1>6, <2>1 DEF OwnInv, LimboParts, Watching
  <2>2. CASE disk' = mem'[e]
    <3>1. pc'[e] \notin Driving \cup {"planned"}
      BY <1>0, <1>6, <2>2 DEF Fits, Unrun
    <3>2. QED BY <1>3, <1>5, <1>6, <2>1, <3>1 DEF Over
  <2>3. QED BY <1>5, <1>6, <2>1, <2>2
<1>7. ASSUME NEW r \in Resumer, pc'[r] = "limbo", disk' # NoState PROVE disk'.landed
  <2>1. pc[r] = "limbo"
    BY <1>1, <1>7
  <2>2. CASE disk' = disk
    BY <1>7, <2>1, <2>2 DEF OwnInv, LimboParts
  <2>3. CASE disk' # disk
    <3>1. disk' = mem'[e] /\ pc[e] \in SavePoint
      BY <1>5, <1>7, <2>3
    <3>2. disk # NoState
      <4>1. SUFFICES ASSUME disk = NoState PROVE FALSE
        OBVIOUS
      <4>2. Saved(e) /\ e \notin archived
        BY <1>0, <1>7, <2>3, <4>1, SavedDisk DEF Advance
      <4>3. ~NotRun
        BY <2>1 DEF NotRun, Resting
      <4>4. pc[e] \notin Before \cup {"planned"}
        BY <4>3 DEF OwnInv, OwnedParts
      <4>5. pc[e] \notin Driving \cup Landing
        BY <4>1, <4>2 DEF OwnInv, OwnedParts
      <4>6. pc[e] \notin {"save", "claim"}
        BY <1>0, <1>7, <2>3, <4>1 DEF Advance
      <4>7. QED BY <3>1, <4>4, <4>5, <4>6 DEF SavePoint, Before, Driving, Landing
    <3>3. disk.landed /\ \A q \in Resumer : pc[q] \in Watching
      BY <2>1, <3>2 DEF OwnInv, LimboParts, OneResume, Watching
    <3>4. pc[e] \in Landing \cup Over
      BY <1>2, <3>2, <3>3 DEF OwnInv, LimboParts
    <3>5. pc[e] \in Landing
      BY <3>1, <3>4 DEF SavePoint, Over
    <3>6. QED BY <3>1, <3>5 DEF Advance
  <2>4. QED BY <2>2, <2>3
<1>8. \A r \in Resumer : pc'[r] \in {"claim", "finalize"} => mem'[r].landed
  BY <1>1 DEF OwnInv, LimboParts
<1>9. QED BY <1>6, <1>7, <1>8 DEF LimboParts

(* Nor does one of the resume. *)
LEMMA ResumeOwned ==
  ASSUME OneBatch, BatchTyped, BatchTyped', MemFits, OneResume, OwnInv,
         NEW e \in Resumer, Advance(e), TypedStep(e), TakesOver(e)
  PROVE  OwnInv'
<1>0. /\ e \in Engine /\ e \in Proc /\ e \notin Starter /\ e \notin Pauser
      /\ \A r \in Resumer : r = e
      /\ Fits(e)' /\ archived' = archived
  BY StateAssumption DEF Engine, Proc, OneResume, Advance
<1>1. \A q \in Starter \cup Pauser :
        pc'[q] \in {pc[q], "dead"} /\ mem'[q] = mem[q]
  BY <1>0, StateAssumption DEF TypedStep, Proc, Engine
<1>2. CASE NotRun
  <2>1. /\ disk' = disk /\ pc'[e] \in Resting /\ provisioned' = provisioned
        /\ pc[e] \in Resting
    BY <1>0, <1>2 DEF TakesOver, NotRun, Advance, SavePoint, Resting
  <2>2. NotRun'
    BY <1>0, <1>1, <1>2, <2>1 DEF NotRun, Pausing
  <2>3. OwnedParts'
    BY <1>0, <1>1, <2>1, <2>2
    DEF OwnInv, OwnedParts, Before, Driving, Landing
  <2>4. LimboParts'
    <3>1. disk # NoState => disk.id \in Starter
      BY DEF BatchTyped, TypeOK, State
    <3>2. QED
    BY <1>0, <1>1, <2>1, <3>1 DEF OwnInv, LimboParts, Over, Resting, Watching, TakesOver
  <2>5. QED BY <2>3, <2>4 DEF OwnInv
<1>3. CASE ~NotRun
  <2>1. \A s \in Starter : pc[s] \notin Before \cup {"planned"}
                         /\ pc'[s] \notin Before \cup {"planned"}
    BY <1>1, <1>3 DEF OwnInv, OwnedParts, Before
  <2>2. disk # NoState => Owned(disk)
    BY <1>3 DEF OwnInv, OwnedParts
  <2>3. \/ disk' = disk
        \/ /\ disk' = mem'[e] /\ disk' # NoState /\ pc[e] \in SavePoint
           /\ pc'[e] \in Driving \cup Landing \cup {"exiting"}
           /\ disk = NoState => disk'.id \notin archived
    <3>1. Fits(e)' => pc'[e] # "planned"
      BY DEF Fits
    <3>2. QED BY <1>0, <3>1, SavedDisk DEF Advance
  <2>4. pc'[e] \in {"claim", "finalize"} => mem'[e].landed
    BY DEF Advance, TakesOver, OwnInv, LimboParts
  <2>5. disk' # NoState => Owned(disk')
    BY <1>0, <2>2, <2>3, <2>4, StateAssumption DEF Fits, Owned, Landing
  <2>6. OwnedParts'
    BY <1>0, <1>1, <2>1, <2>3, <2>5
    DEF OwnInv, OwnedParts, Driving, Landing
  <2>7. LimboParts'
    <3>1. disk # NoState => disk.id \in Starter
      BY DEF BatchTyped, TypeOK, State
    <3>2. pc'[e] \in Watching => disk' = disk /\ pc[e] \in Watching
      BY DEF TakesOver, Watching, Resting
    <3>3. QED
      BY <1>0, <1>1, <2>4, <3>1, <3>2
      DEF OwnInv, LimboParts, Over, Watching, TakesOver
  <2>8. QED BY <2>6, <2>7 DEF OwnInv
<1>4. QED BY <1>2, <1>3

(* No step of the other commands, of the reporter or of a kill does. *)
LEMMA OthersOwned ==
  ASSUME OneBatch, BatchTyped, BatchTyped', MemFits,
         \/ \E e \in Engine : EnforcePause(e)
         \/ \E c \in Proc \ Engine :
              /\ TypedStep(c)
              /\ \/ c \in Pauser /\ Pause(c)
                 \/ LoadToClose(c) \/ Abort(c) \/ Close(c)
         \/ \E p \in Proc : Kill(p)
  PROVE  SamePart
<1>0. TypeOK /\ (disk # NoState => disk \in State)
  BY DEF BatchTyped, TypeOK
<1>1. ASSUME NEW e \in Engine, EnforcePause(e) PROVE SamePart
  <2>1. /\ disk # NoState /\ disk' = [disk EXCEPT !.phase = "paused"]
        /\ UNCHANGED <<mem, pc, archived, provisioned>>
    BY <1>1 DEF EnforcePause, Marks
  <2>2. /\ disk'.id = disk.id /\ disk'.owner = disk.owner /\ disk'.phase = "paused"
        /\ disk'.ended = disk.ended /\ disk'.landed = disk.landed
        /\ disk' # NoState
    BY <1>0, <2>1, StateAssumption DEF State, Phase, ACTIVE_PHASES
  <2>3. QED BY <2>1, <2>2 DEF SamePart, NotRun, Unrun
<1>2. ASSUME NEW c \in Proc \ Engine, TypedStep(c),
             \/ c \in Pauser /\ Pause(c)
             \/ LoadToClose(c) \/ Abort(c) \/ Close(c)
      PROVE  SamePart
  <2>1. \/ disk' = disk
        \/ disk' = NoState /\ (disk = NoState \/ disk.id \in archived')
        \/ /\ disk' # NoState /\ disk # NoState /\ disk'.id = disk.id
           /\ disk'.owner = disk.owner /\ disk'.ended = disk.ended
           /\ disk'.landed = disk.landed
           /\ \/ disk'.phase = "paused"
              \/ /\ disk'.phase = mem[c].phase /\ disk.phase = "paused"
                 /\ c \in Pauser /\ pc[c] = "rollback"
    <3>1. CASE disk' = NoState /\ disk # NoState
      <4>1. \A ph \in Phase : [disk EXCEPT !.phase = ph] # NoState
        <5>1. \A ph \in Phase : [disk EXCEPT !.phase = ph] \in State
          BY <1>0, <3>1 DEF State
        <5>2. QED BY <5>1, StateAssumption
      <4>2. ~WritePause(c)
        BY <3>1, <4>1 DEF WritePause, Phase, ACTIVE_PHASES
      <4>3. ~RollBackPause(c)
        <5>1. SUFFICES ASSUME RollBackPause(c) PROVE FALSE
          OBVIOUS
        <5>2. mem[c] \in State
          BY <5>1 DEF RollBackPause, Goto, BatchTyped, MemLoaded, WithState, Proc
        <5>3. mem[c].phase \in Phase
          BY <5>2 DEF State
        <5>4. QED BY <3>1, <4>1, <5>1, <5>3 DEF RollBackPause
      <4>4. ~LoadForPause(c) /\ ~PollPause(c) /\ ~ConfirmPause(c)
            /\ ~JournalPaused(c) /\ ~LoadToClose(c)
        BY <3>1 DEF LoadForPause, PollPause, ConfirmPause, JournalPaused,
                    LoadToClose
      <4>5. Abort(c) \/ Close(c)
        BY <1>2, <4>2, <4>3, <4>4 DEF Pause
      <4>6. QED BY <3>1, <4>5 DEF Abort, Close, Archive
    <3>2. CASE disk' # NoState
      BY <1>0, <1>2, <3>2, OperatorDisk
      DEF DiskIn, State, Phase, ACTIVE_PHASES
    <3>3. QED BY <3>1, <3>2
  <2>2. provisioned' = provisioned /\ archived \subseteq archived'
    BY <1>2
    DEF Pause, LoadForPause, WritePause, PollPause, ConfirmPause, RollBackPause,
        JournalPaused, LoadToClose, Abort, Close, Archive, Marks
  <2>3. \A e \in Engine : pc'[e] \in {pc[e], "dead"} /\ mem'[e] = mem[e]
    BY <1>2, OperatorDisk
  <2>4. ASSUME disk = NoState \/ Unrun(disk), NotRun, c \in Pauser,
               pc'[c] \in Pausing
        PROVE  mem'[c].phase = "planning"
    <3>1. CASE LoadForPause(c)
      <4>1. Pausable
        BY <1>0, <1>2, <2>4, <3>1 DEF LoadForPause, Goto, Pausing, TypeOK
      <4>2. disk \in State /\ disk.phase = "planning"
        BY <1>0, <2>4, <4>1 DEF Pausable, DiskIn, Unrun
      <4>3. mem'[c].phase = disk.phase
        BY <1>0, <1>2, <3>1, <4>1, <4>2 DEF LoadForPause, Keep, TypeOK, State
      <4>4. QED BY <4>2, <4>3
    <3>2. CASE \/ WritePause(c) \/ PollPause(c) \/ ConfirmPause(c)
               \/ RollBackPause(c) \/ JournalPaused(c)
      <4>1. mem' = mem /\ pc[c] \in Pausing
        BY <1>0, <1>2, <2>4, <3>2
        DEF WritePause, PollPause, ConfirmPause, RollBackPause, JournalPaused,
            Goto, Pausing, TypeOK
      <4>2. QED BY <2>4, <4>1 DEF NotRun
    <3>3. CASE LoadToClose(c) \/ Abort(c) \/ Close(c)
      BY <1>0, <1>2, <2>4, <3>3
      DEF LoadToClose, Abort, Close, Goto, Pausing, TypeOK
    <3>4. QED BY <1>2, <3>1, <3>2, <3>3 DEF Pause
  <2>5. ASSUME disk = NoState \/ Unrun(disk), NotRun
        PROVE  NotRun' /\ (disk' = NoState \/ Unrun(disk'))
    <3>1. \A q \in Pauser \ {c} : pc'[q] \in {pc[q], "dead"} /\ mem'[q] = mem[q]
      BY <1>2 DEF TypedStep, Proc
    <3>2. \A q \in Pauser : pc'[q] \in Pausing => mem'[q].phase = "planning"
      BY <2>4, <2>5, <3>1 DEF NotRun, Pausing
    <3>3. NotRun'
      BY <2>2, <2>3, <2>5, <3>2 DEF NotRun, Resting, Engine
    <3>4. disk' = NoState \/ Unrun(disk')
      BY <2>1, <2>5 DEF Unrun, NotRun, Pausing
    <3>5. QED BY <3>3, <3>4
  <2>6. QED BY <2>1, <2>2, <2>3, <2>5 DEF SamePart
<1>3. ASSUME NEW p \in Proc, Kill(p) PROVE SamePart
  <2>1. /\ UNCHANGED <<disk, mem, archived, provisioned>>
        /\ \A q \in Proc : pc'[q] \in {pc[q], "dead"}
    BY <1>0, <1>3 DEF Kill, Marks, TypeOK
  <2>2. NotRun => NotRun'
    BY <2>1 DEF NotRun, Resting, Pausing, Proc, Engine
  <2>3. QED BY <2>1, <2>2 DEF SamePart, Proc
<1>4. QED BY <1>1, <1>2, <1>3

(* A running batch with tasks left names an engine, however many pauses,     *)
(* aborts and closes race with the engine that started it and the one that   *)
(* resumes it, and whatever is killed.                                       *)
THEOREM RunningHasOwner ==
  ASSUME OneBatch, OneResume
  PROVE  Spec => []RunningIsOwned
<1>1. Init => OwnInv
  BY DEF Init, OwnInv, OwnedParts, LimboParts, NotRun, Resting, Pausing,
         Driving, Landing, Proc, Engine
<1>2. /\ BatchTyped /\ MemFits /\ BatchTyped' /\ OwnInv /\ [Next]_vars
      => OwnInv'
  <2> SUFFICES ASSUME BatchTyped, MemFits, BatchTyped', OwnInv, [Next]_vars
               PROVE  OwnInv'
    OBVIOUS
  <2>1. ASSUME NEW e \in Engine, EngineStep(e) PROVE OwnInv'
    <3>1. CASE e \in Starter
      BY <2>1, <3>1, StarterOwned, StarterLimbo DEF EngineStep, OwnInv
    <3>2. CASE e \in Resumer
      BY <2>1, <3>2, ResumeOwned DEF EngineStep
    <3>3. QED BY <3>1, <3>2 DEF Engine
  <2>2. ASSUME \/ \E e \in Engine : EnforcePause(e)
               \/ \E c \in Proc \ Engine :
                    /\ TypedStep(c)
                    /\ \/ c \in Pauser /\ Pause(c)
                       \/ LoadToClose(c) \/ Abort(c) \/ Close(c)
               \/ \E p \in Proc : Kill(p)
        PROVE  OwnInv'
    BY <2>2, OthersOwned, SamePartKeeps
  <2>3. CASE UNCHANGED vars
    BY <2>3 DEF vars, OwnInv, OwnedParts, LimboParts, NotRun
  <2>4. \A c \in Pauser \cup Aborter \cup Closer : c \in Proc \ Engine
    BY StateAssumption DEF Proc
  <2>5. QED BY <2>1, <2>2, <2>3, <2>4, Steps
<1>3. OwnInv => RunningIsOwned
  BY DEF OwnInv, OwnedParts, RunningIsOwned, DiskIn, Owned, Unrun
<1>4. QED BY <1>1, <1>2, <1>3, MemFitsAlways, PTL DEF Spec
-----------------------------------------------------------------------------
(* With one batch that nobody resumes and one pause, no engine leaves its    *)
(* batch planning or running.                                                *)
OnePause == \A c, d \in Pauser : c = d

(* No pause is on its way to the batch. *)
NoPause ==
  /\ ~DiskIn({"paused"}) /\ paused = {}
  /\ \A s \in Starter :
       mem[s] # NoState /\ pc[s] \notin Over => mem[s].phase # "paused"

(* What is on disk is the batch of an engine that has created it, and that   *)
(* may save it; once the engine is past its last save, it is not running.    *)
Kept ==
  /\ disk # NoState =>
       /\ mem[disk.id] # NoState /\ pc[disk.id] \notin Before
       /\ disk.owner \in {disk.id, NoOne} /\ disk.id \notin archived
       /\ pc[disk.id] \in {"exiting", "done"} =>
            disk.phase \notin {"planning", "running"}
  /\ \A s \in Starter : disk = NoState /\ mem[s] # NoState => s \in archived

(* A pause that finds its batch active finds it untouched by a pause; so     *)
(* does one that gives up, unless the batch is gone.                         *)
PauseSees ==
  \A c \in Pauser :
    /\ pc[c] = "new" => NoPause
    /\ pc[c] \in Pausing \cup {"journal"} =>
         paused = {} /\ \A s \in Starter : mem[s] # NoState
    /\ pc[c] \in {"write", "waiting", "saw"} /\ DiskIn({"planning", "running"}) =>
         NoPause
    /\ pc[c] \in {"clobbered", "rollback"} => disk = NoState \/ NoPause

(* Without a pause no engine makes one up. *)
LEMMA NoPauseStays ==
  ASSUME OneBatch, NoPause, NEW e \in Starter, Advance(e), BatchTyped
  PROVE  NoPause'
<1>0. e \in Engine /\ (\A s \in Starter : s = e) /\ paused' = {}
  BY DEF Engine, OneBatch, Advance, NoPause
<1>1. mem'[e] # NoState /\ mem'[e].phase = "paused" => pc[e] \in Over
  BY DEF Advance, NoPause
<1>2. pc[e] \in Over => pc'[e] \in Over
  BY DEF Advance, Over
<1>3. disk' \in {disk, NoState} \/ (disk' = mem'[e] /\ pc[e] \in SavePoint)
  BY <1>0, SavedDisk DEF Advance
<1>4. ~(pc[e] \in Over /\ pc[e] \in SavePoint)
  BY DEF Over, SavePoint
<1>5. ~DiskIn({"paused"})'
  BY <1>1, <1>3, <1>4 DEF NoPause, DiskIn
<1>6. QED BY <1>0, <1>1, <1>2, <1>5 DEF NoPause

(* The engine keeps its batch, *)
LEMMA EngineKeeps ==
  ASSUME OneBatch, BatchTyped, BatchTyped', MemFits, Kept,
         NEW e \in Starter, Advance(e), TypedStep(e)
  PROVE  Kept'
<1>0. /\ e \in Engine /\ (\A s \in Starter : s = e) /\ Fits(e)'
      /\ archived' = archived
      /\ (disk # NoState => disk.id = e) /\ (disk' # NoState => disk'.id = e)
  BY DEF Engine, OneBatch, Advance, BatchTyped, TypeOK, State
<1>1. pc[e] \notin Before => pc'[e] \notin Before
  BY DEF Advance, Before
<1>2. mem[e] # NoState => mem'[e] # NoState
  BY DEF Advance
<1>3. CASE Saved(e) /\ pc[e] \in SavePoint
           /\ pc'[e] \in Driving \cup Landing \cup {"planned", "exiting"}
           /\ (pc'[e] = "exiting" => mem'[e].phase \notin {"planning", "running"})
  <2>1. mem'[e] # NoState /\ pc'[e] \notin Before
    BY <1>0, <1>3, StateAssumption
    DEF BatchTyped, MemLoaded, WithState, Driving, Landing, Before, Proc
  <2>2. CASE disk' = mem'[e] /\ e \notin archived
    BY <1>0, <1>3, <2>1, <2>2 DEF Kept, Fits, Driving, Landing
  <2>3. CASE disk' = NoState /\ disk = NoState /\ e \in archived
    BY <1>0, <2>3 DEF Kept
  <2>4. QED
    <3>1. CASE disk = NoState
      BY <1>0, <1>3, <2>2, <2>3, <3>1, SavedDisk
    <3>2. CASE disk # NoState
      BY <1>0, <1>3, <2>2, <3>2, SavedDisk DEF Kept
    <3>3. QED BY <3>1, <3>2
<1>4. CASE /\ disk' = disk
           /\ pc'[e] = "exiting" => disk = NoState
           /\ pc[e] # "plan"
  <2>1. pc'[e] = "done" => pc[e] \in {"new", "check", "exiting"}
    BY StateAssumption DEF Advance
  <2>2. mem'[e] # NoState => mem[e] # NoState
    BY <1>4 DEF Advance
  <2>3. CASE disk = NoState
    BY <1>0, <1>4, <2>2, <2>3 DEF Kept
  <2>4. CASE disk # NoState
    <3>1. mem'[e] # NoState /\ pc'[e] \notin Before /\ e \notin archived
          /\ disk.owner \in {e, NoOne}
      BY <1>0, <1>1, <1>2, <2>4 DEF Kept
    <3>2. pc'[e] \in {"exiting", "done"} =>
            disk.phase \notin {"planning", "running"}
      BY <1>0, <1>4, <2>1, <2>4 DEF Kept, Before
    <3>3. QED BY <1>0, <1>4, <2>4, <3>1, <3>2 DEF Kept
  <2>5. QED BY <2>3, <2>4
<1>5. CASE pc[e] = "new" /\ disk' \in {disk, NoState}
  <2>1. disk = NoState
    BY <1>0, <1>5 DEF Kept, Before
  <2>2. mem'[e] # NoState => mem[e] # NoState
    BY <1>5 DEF Advance
  <2>3. QED BY <1>0, <1>5, <2>1, <2>2 DEF Kept
<1>6. QED
  BY <1>3, <1>4, <1>5 DEF Advance

(* and no pause is misled about it. *)
LEMMA EngineSeen ==
  ASSUME OneBatch, BatchTyped, BatchTyped', MemFits, Kept, PauseSees,
         NEW e \in Starter, Advance(e), TypedStep(e)
  PROVE  PauseSees'
<1>0. /\ e \in Engine /\ e \in Proc /\ (\A s \in Starter : s = e)
      /\ (disk' # NoState => disk'.id = e)
  BY DEF Engine, Proc, OneBatch, BatchTyped, TypeOK, State
<1> SUFFICES ASSUME NEW c \in Pauser
             PROVE  /\ pc'[c] = "new" => NoPause'
                    /\ pc'[c] \in Pausing \cup {"journal"} =>
                         paused' = {} /\ \A s \in Starter : mem'[s] # NoState
                    /\ /\ pc'[c] \in {"write", "waiting", "saw"}
                       /\ DiskIn({"planning", "running"})'
                       => NoPause'
                    /\ pc'[c] \in {"clobbered", "rollback"} =>
                         disk' = NoState \/ NoPause'
  BY DEF PauseSees
<1>1. pc'[c] \in {pc[c], "dead"}
  BY <1>0, StateAssumption DEF TypedStep, Proc
<1>2. NoPause => NoPause'
  BY NoPauseStays
<1>3. ASSUME pc[c] \in Pausing \cup {"journal"}
      PROVE  paused' = {} /\ \A s \in Starter : mem'[s] # NoState
  BY <1>0, <1>3 DEF PauseSees, Advance
<1>4. ASSUME pc[c] \in {"write", "waiting", "saw"},
             DiskIn({"planning", "running"})'
      PROVE  NoPause'
  <2>1. disk' = disk \/ disk' = mem'[e]
    BY <1>0, <1>4, SavedDisk DEF Advance, DiskIn
  <2>2. CASE disk' = disk
    BY <1>2, <1>4, <2>2 DEF PauseSees, DiskIn
  <2>3. CASE disk' = mem'[e]
    BY <1>0, <1>3, <1>4, <2>3 DEF NoPause, DiskIn, Pausing
  <2>4. QED BY <2>1, <2>2, <2>3
<1>5. ASSUME pc[c] \in {"clobbered", "rollback"}
      PROVE  disk' = NoState \/ NoPause'
  <2>1. CASE disk = NoState
    <3>1. e \in archived
      BY <1>0, <1>5, <2>1 DEF PauseSees, Kept, Pausing
    <3>2. QED BY <1>0, <2>1, <3>1, SavedDisk DEF Advance
  <2>2. CASE NoPause
    BY <1>2, <2>2
  <2>3. QED BY <1>5, <2>1, <2>2 DEF PauseSees
<1>6. QED
  BY <1>1, <1>2, <1>3, <1>4, <1>5 DEF PauseSees, Pausing

(* No other command, reporter or kill loses the batch, *)
LEMMA OthersKeep ==
  ASSUME OneBatch, BatchTyped, BatchTyped', MemFits, Kept, PauseSees,
         \/ \E e \in Engine : EnforcePause(e)
         \/ \E c \in Proc \ Engine :
              /\ TypedStep(c)
              /\ \/ c \in Pauser /\ Pause(c)
                 \/ LoadToClose(c) \/ Abort(c) \/ Close(c)
         \/ \E p \in Proc : Kill(p)
  PROVE  Kept' /\ SamePart
<1>0. /\ SamePart
      /\ \A s \in Starter : s \in Engine
      /\ disk # NoState => /\ disk.id \in Starter /\ disk \in State
                           /\ \A s \in Starter : s = disk.id
  BY OthersOwned DEF BatchTyped, TypeOK, State, OneBatch, Engine
<1>1. disk' # NoState => archived' = archived /\ disk'.phase \in {disk.phase, "paused"}
  <2>1. ASSUME NEW e \in Engine, EnforcePause(e)
        PROVE  archived' = archived /\ disk'.phase = "paused"
    BY <1>0, <2>1 DEF EnforcePause, Marks, State
  <2>2. ASSUME NEW c \in Proc \ Engine, TypedStep(c), disk' # NoState,
               \/ c \in Pauser /\ Pause(c)
               \/ LoadToClose(c) \/ Abort(c) \/ Close(c)
        PROVE  archived' = archived /\ disk'.phase \in {disk.phase, "paused"}
    <3>1. archived' = archived
      BY <2>2
      DEF Pause, LoadForPause, WritePause, PollPause, ConfirmPause,
          RollBackPause, JournalPaused, LoadToClose, Abort, Close, Archive, Marks
    <3>2. ~(DiskIn({"paused"}) /\ c \in Pauser /\ pc[c] = "rollback")
      BY DEF PauseSees, NoPause, DiskIn
    <3>3. disk' = disk \/ (disk # NoState /\ disk' = [disk EXCEPT !.phase = "paused"])
      BY <2>2, <3>2, OperatorDisk
    <3>4. QED BY <1>0, <3>1, <3>3 DEF State
  <2>3. ASSUME NEW p \in Proc, Kill(p)
        PROVE  archived' = archived /\ disk' = disk
    BY <2>3 DEF Kill, Marks
  <2>4. QED BY <2>1, <2>2, <2>3
<1>2. Kept'
  BY <1>0, <1>1 DEF Kept, SamePart, Before
<1>3. QED BY <1>0, <1>2

(* or misleads the pause. *)
LEMMA OthersSeen ==
  ASSUME OneBatch, OnePause, BatchTyped, BatchTyped', MemFits, Kept, PauseSees,
         EndedIsOver, Resumer = {},
         \/ \E e \in Engine : EnforcePause(e)
         \/ \E c \in Proc \ Engine :
              /\ TypedStep(c)
              /\ \/ c \in Pauser /\ Pause(c)
                 \/ LoadToClose(c) \/ Abort(c) \/ Close(c)
         \/ \E p \in Proc : Kill(p)
  PROVE  PauseSees'
<1>0. TypeOK /\ TypeOK' /\ (disk # NoState => disk \in State)
      /\ \A c \in Pauser : c \in Proc /\ c \notin Engine
  BY StateAssumption DEF BatchTyped, TypeOK, Proc
<1>1. ASSUME NEW e \in Engine, EnforcePause(e) PROVE PauseSees'
  <2>1. /\ disk # NoState /\ disk' = [disk EXCEPT !.phase = "paused"]
        /\ UNCHANGED <<mem, pc, paused>> /\ paused # {}
    BY <1>1 DEF EnforcePause, Marks
  <2>2. \A c \in Pauser : pc[c] \notin {"new", "journal"} \cup Pausing
    BY <2>1 DEF PauseSees, NoPause
  <2>3. QED BY <2>1, <2>2 DEF PauseSees, Pausing
<1>2. ASSUME NEW c \in Pauser, TypedStep(c), Pause(c) PROVE PauseSees'
  <2>1. SUFFICES
          /\ pc'[c] \notin {"new"}
          /\ pc'[c] \in Pausing \cup {"journal"} =>
               paused' = {} /\ \A s \in Starter : mem'[s] # NoState
          /\ /\ pc'[c] \in {"write", "waiting", "saw"}
             /\ DiskIn({"planning", "running"})'
             => NoPause'
          /\ pc'[c] \in {"clobbered", "rollback"} => disk' = NoState \/ NoPause'
    BY DEF PauseSees, OnePause
  <2>2. /\ c \in Proc /\ c \notin Starter
        /\ (disk # NoState =>
              disk.id \in Starter /\ \A s \in Starter : s = disk.id)
    BY <1>0 DEF Engine, State, OneBatch
  <2>4. \A s \in Starter : mem'[s] = mem[s] /\ pc'[s] \in {pc[s], "dead"}
    BY <1>0, <1>2, OperatorDisk DEF Engine
  <2>5. ASSUME disk' = disk, paused' = paused, NoPause PROVE NoPause'
    BY <2>4, <2>5 DEF NoPause, DiskIn, Over
  <2>6. CASE LoadForPause(c)
    <3>1. /\ pc[c] = "new" /\ pc'[c] = IF Pausable THEN "write" ELSE "done"
          /\ disk' = disk /\ paused' = paused
      BY <1>0, <1>2, <2>2, <2>6 DEF LoadForPause, Goto, Marks, TypeOK
    <3>2. NoPause /\ NoPause' /\ paused = {}
      BY <2>5, <3>1 DEF PauseSees, NoPause
    <3>3. Pausable => \A s \in Starter : mem'[s] # NoState
      BY <2>2, <2>4 DEF Pausable, DiskIn, Kept
    <3>4. QED BY <3>1, <3>2, <3>3 DEF Pausing
  <2>7. CASE WritePause(c)
    <3>1. /\ pc[c] = "write" /\ pc'[c] \in {"journal", "waiting", "done"}
          /\ paused' = paused
          /\ pc'[c] \in {"journal", "waiting"} =>
               disk # NoState /\ disk' = [disk EXCEPT !.phase = "paused"]
      BY <1>0, <1>2, <2>2, <2>7 DEF WritePause, Goto, Marks, DiskIn, TypeOK
    <3>2. pc'[c] \in {"journal", "waiting"} => disk'.phase = "paused"
      BY <1>0, <3>1 DEF State
    <3>3. QED
      BY <2>4, <3>1, <3>2 DEF Pausing, PauseSees, DiskIn
  <2>8. CASE PollPause(c)
    <3>1. /\ disk' = disk /\ paused' = paused
          /\ \/ pc[c] = "waiting" /\ pc'[c] = "saw"
             \/ pc[c] = "saw" /\ pc'[c] = "clobbered" /\ DiskIn({"running"})
      BY <1>0, <1>2, <2>2, <2>8 DEF PollPause, Goto, Marks, TypeOK
    <3>2. QED
      BY <2>4, <2>5, <3>1 DEF Pausing, PauseSees, DiskIn
  <2>9. CASE ConfirmPause(c)
    <3>1. /\ disk' = disk /\ paused' = paused
          /\ pc[c] \in {"waiting", "saw", "clobbered"}
          /\ \/ pc'[c] = "journal"
             \/ pc'[c] = "rollback" /\ (~DiskIn({"paused"}) \/ pc[c] = "clobbered")
      BY <1>0, <1>2, <2>2, <2>9 DEF ConfirmPause, Marks, TypeOK
    <3>2. pc'[c] = "rollback" => disk = NoState \/ NoPause
      <4>1. CASE pc[c] = "clobbered" \/ DiskIn({"planning", "running"})
        BY <3>1, <4>1 DEF PauseSees
      <4>2. CASE DiskIn(TERMINAL_BATCH_PHASES)
        <5>1. \A s \in Starter : pc[s] \in Over
          BY <2>2, <4>2 DEF EndedIsOver, NoResume, DiskIn
        <5>2. paused = {}
          BY <3>1 DEF PauseSees, Pausing
        <5>3. ~DiskIn({"paused"})
          BY <4>2 DEF DiskIn, TERMINAL_BATCH_PHASES
        <5>4. QED BY <5>1, <5>2, <5>3 DEF NoPause
      <4>3. QED
        BY <1>0, <3>1, <4>1, <4>2
        DEF DiskIn, State, Phase, ACTIVE_PHASES
    <3>3. QED
      BY <2>4, <2>5, <3>1, <3>2 DEF Pausing, PauseSees
  <2>10. CASE RollBackPause(c) \/ JournalPaused(c)
    <3>1. pc'[c] = "done"
      BY <1>0, <1>2, <2>2, <2>10 DEF RollBackPause, JournalPaused, Goto, TypeOK
    <3>2. QED BY <3>1 DEF Pausing
  <2>11. QED BY <1>2, <2>6, <2>7, <2>8, <2>9, <2>10 DEF Pause
<1>3. ASSUME \/ \E c \in Proc \ Engine :
                  /\ TypedStep(c) /\ (LoadToClose(c) \/ Abort(c) \/ Close(c))
             \/ \E p \in Proc : Kill(p)
      PROVE  PauseSees'
  <2>1. /\ disk' \in {disk, NoState} /\ paused' = paused
        /\ \A p \in Proc : pc'[p] \in {pc[p], "dead", "lock", "done"}
        /\ \A s \in Starter : mem'[s] = mem[s] /\ pc'[s] \in {pc[s], "dead"}
    BY <1>0, <1>3
    DEF LoadToClose, Abort, Close, Archive, Kill, Marks, Goto, Keep, TypeOK,
        TypedStep, Engine, Proc
  <2>2. NoPause => NoPause'
    BY <2>1 DEF NoPause, DiskIn, Over
  <2>3. QED BY <1>0, <2>1, <2>2 DEF PauseSees, Pausing, DiskIn
<1>4. ASSUME NEW c \in Proc \ Engine, TypedStep(c), c \in Pauser /\ Pause(c)
      PROVE  PauseSees'
  BY <1>2, <1>4
<1>5. QED BY <1>1, <1>3, <1>4

(* An engine is never gone and its batch left planning or running, however   *)
(* the pause, the aborts and the closes race with it: no pause is rolled     *)
(* back over one that the engine adopted, and no save recreates a batch.     *)
THEOREM NothingAbandoned ==
  ASSUME OneBatch, OnePause, Resumer = {}
  PROVE  Spec => []NoAbandonedBatch
<1>1. Init => EndedIsOver /\ Kept /\ PauseSees
  BY DEF Init, EndedIsOver, Kept, PauseSees, NoPause, DiskIn, Pausing, Proc,
         Engine
<1>2. /\ BatchTyped /\ MemFits /\ BatchTyped' /\ MemFits'
      /\ EndedIsOver /\ Kept /\ PauseSees /\ [Next]_vars
      => EndedIsOver' /\ Kept' /\ PauseSees'
  <2> SUFFICES ASSUME BatchTyped, MemFits, BatchTyped', MemFits', EndedIsOver,
                      Kept, PauseSees, [Next]_vars
               PROVE  EndedIsOver' /\ Kept' /\ PauseSees'
    OBVIOUS
  <2>1. EndedIsOver'
    BY EndedStep
  <2>2. ASSUME NEW e \in Engine, EngineStep(e) PROVE Kept' /\ PauseSees'
    BY <2>2, EngineKeeps, EngineSeen DEF EngineStep, Engine
  <2>3. ASSUME \/ \E e \in Engine : EnforcePause(e)
               \/ \E c \in Proc \ Engine :
                    /\ TypedStep(c)
                    /\ \/ c \in Pauser /\ Pause(c)
                       \/ LoadToClose(c) \/ Abort(c) \/ Close(c)
               \/ \E p \in Proc : Kill(p)
        PROVE  Kept' /\ PauseSees'
    BY <2>3, OthersKeep, OthersSeen
  <2>4. CASE UNCHANGED vars
    <3>1. (NoPause <=> NoPause') /\ Kept'
      BY <2>4 DEF vars, Kept, NoPause, DiskIn
    <3>2. QED BY <2>1, <2>4, <3>1 DEF vars, PauseSees, DiskIn
  <2>5. \A c \in Pauser \cup Aborter \cup Closer : c \in Proc \ Engine
    BY StateAssumption DEF Proc
  <2>6. QED BY <2>1, <2>2, <2>3, <2>4, <2>5, Steps
<1>3. BatchTyped /\ MemFits /\ Kept => NoAbandonedBatch
  <2> SUFFICES ASSUME BatchTyped, MemFits, Kept, disk # NoState,
                      disk.phase \in {"planning", "running"}
               PROVE  \E e \in Engine : /\ mem[e] # NoState /\ mem[e].id = disk.id
                                        /\ Alive(e) \/ pc[e] = "dead"
    BY DEF NoAbandonedBatch, DiskIn
  <2>1. disk.id \in Starter /\ disk.id \in Engine /\ disk.id \in Proc
    BY DEF BatchTyped, TypeOK, State, Engine, Proc
  <2>2. mem[disk.id] # NoState /\ pc[disk.id] \notin {"new", "done"}
    BY DEF Kept, Before
  <2>3. mem[disk.id].id = disk.id
    BY <2>1, <2>2 DEF MemFits, Fits
  <2>4. QED BY <2>1, <2>2, <2>3 DEF Alive
<1>4. QED BY <1>1, <1>2, <1>3, MemFitsAlways, PTL DEF Spec
=============================================================================
