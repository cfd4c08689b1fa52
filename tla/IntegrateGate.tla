--------------------------- MODULE IntegrateGate ---------------------------
(* From the last merged wave to the base branch: the integrate gate          *)
(* (gate.mjs, gate-revision.mjs, gate-posture-*.mjs), `spine integrate`      *)
(* (integrate.mjs, integrate-worktree.mjs) and `batch salvage --integrate`.  *)
(*                                                                           *)
(* One batch.  Its engine and any number of commands share, without a lock,  *)
(* the gate record and the approval streaks (each a JSON file, replaced      *)
(* whole), the refs of the orch and the base branch, and the project's state *)
(* file, which is this batch's until it is archived and then nobody's or     *)
(* another batch's, as those come and go.  A read of one of them and the     *)
(* write that follows are separate steps.  A command that is killed is one   *)
(* that takes no further step.                                               *)
EXTENDS Naturals

CONSTANTS
  Engine,             \* the batch's engine, resumed after a kill
  Operator,           \* the commands: spine gate, integrate, salvage, sequence
  Approver,           \* those that approve, by hand or automatically
  Rejecter,           \* those that reject
  Opener,             \* those that reopen the gate
  Lander,             \* who integrates; the engine does so between waves
  Waves,              \* the waves of the batch, a commit on orch each
  MaxTip,             \* bound: commits on the orch branch
  MaxGates,           \* bound: gate records opened
  MaxOther,           \* bound: commits on base by others
  AutoApproveAfterN,  \* gates.postures: approvals in a row before auto-approve
  EarlierApprovals,   \* the streaks that earlier batches may have left
  GateRequired,       \* gates.requireBeforeIntegrate
  ForceAllowed,       \* SPINE_ALLOW_FORCE=1
  None                \* no gate record

Proc == Operator \cup {Engine}

ASSUME GateAssumption ==
  /\ Engine \notin Operator
  /\ Approver \subseteq Operator /\ Rejecter \subseteq Operator
  /\ Opener \subseteq Operator /\ Lander \subseteq Operator \cup {Engine}
  /\ Waves \in Nat /\ MaxTip \in Nat /\ MaxGates \in Nat /\ MaxOther \in Nat
  /\ AutoApproveAfterN \in Nat
  /\ EarlierApprovals \subseteq 0..AutoApproveAfterN
  /\ GateRequired \in BOOLEAN /\ ForceAllowed \in BOOLEAN

Id == 1..MaxGates
Tip == 0..MaxTip

(* Commits, by the branch they were made on: this batch's orch branch, base, *)
(* a lane of the batch, the orch branch of another batch.  A revision stands *)
(* for the commits that can be reached from it.                              *)
Orch(t) == {<<"orch", i>> : i \in 1..t}
Lane == {<<"lane", 1>>}
Foreign == {<<"foreign", 1>>}
Commit == Orch(MaxTip) \cup {<<"other", i>> : i \in 1..MaxOther}
                       \cup Lane \cup Foreign
Revision == SUBSET Commit

Status == {"pending", "approved", "rejected"}
Record == [id : Id, pin : Revision, status : Status]
ASSUME NoneAssumption == None \notin Record

VARIABLES
  phase,        \* the batch: "running" or "completed"
  archived,     \* the state file is no longer this batch's
  tip,          \* the orch branch: how many commits it is ahead
  base,         \* the base branch: its commits since the batch began
  gate,         \* gate.json
  opened,       \* how many gate records were opened: the random gateId
  streak,       \* streaks.json: the category's count, up to AutoApproveAfterN
  unreliable,   \* a journal holds gate.streak_io_failed, recovered: false
  pc,           \* where each process is
  held,         \* the gate record each process has in memory,
  count,        \* and the streak it has loaded to write back
  seed,         \* whose batch state it opens a gate with: "this" batch's,
                \* unless a reopen has found another's
  view,         \* what each integration has read of the refs
  approvedPins, \* history: the revisions some approval was given for
  final,        \* history: gates whose rejection nobody was overlapping
  earned,       \* history: approvals in a row since the last rejection whose
                \* reset was not lost
  fresh         \* history: whose loaded streak no reset has overtaken

Refs == <<tip, base>>
Gate == <<gate, opened>>
Streak == <<streak, unreliable, count, earned, fresh>>
History == <<approvedPins, final>>
Batch == <<phase, archived>>
vars == <<Batch, Refs, Gate, Streak, pc, held, seed, view, History>>

PC == {"idle", "waves", "dead", "done",
       "look", "save", "evidence", "settle", "reopen",
       "autoScan", "autoStreak", "autoApprove", "approveSave",
       "grow", "growSave", "kind", "kindSave", "rejectSave",
       "reset", "resetKind", "resetKindSave", "recover", "merge", "refs", "cas"}

View == [what : {"orch", "lane"}, checked : Revision, forced : BOOLEAN,
         ff : BOOLEAN, base : Revision, tip : Tip]
NoView == [what |-> "orch", checked |-> {}, forced |-> FALSE, ff |-> FALSE,
           base |-> {}, tip |-> 0]

Init ==
  /\ phase = "running" /\ archived = FALSE /\ tip = 0 /\ base = {}
  /\ gate = None /\ opened = 0 /\ unreliable = FALSE
  /\ streak \in EarlierApprovals /\ earned = streak
  /\ pc = [p \in Proc |-> IF p = Engine THEN "waves" ELSE "idle"]
  /\ held = [p \in Proc |-> None] /\ count = [p \in Proc |-> 0]
  /\ seed = [p \in Proc |-> "this"]
  /\ view = [p \in Proc |-> NoView]
  /\ approvedPins = {} /\ final = {}
  /\ fresh = {}

Goto(p, from, to) == pc[p] = from /\ pc' = [pc EXCEPT ![p] = to]
Home(p) == IF p = Engine THEN "waves" ELSE "idle"
Hold(p, g) == held' = [held EXCEPT ![p] = g]
Free(p) == pc[p] = Home(p)
-----------------------------------------------------------------------------
(* The branches. *)

(* The engine merges a wave of lanes into the orch branch. *)
MergeWave ==
  /\ Free(Engine) /\ tip < Waves /\ tip < MaxTip
  /\ tip' = tip + 1
  /\ UNCHANGED <<Batch, base, Gate, Streak, pc, held, seed, view, History>>

(* A commit made by hand on the orch branch of a completed batch. *)
OrchMoves ==
  /\ phase = "completed" /\ tip < MaxTip
  /\ tip' = tip + 1
  /\ UNCHANGED <<Batch, base, Gate, Streak, pc, held, seed, view, History>>

(* Somebody else's commit on the base branch, as a bound only while somebody *)
(* integrates: an earlier one looks to it like one right after its check.    *)
BaseMoves ==
  \E i \in 1..MaxOther :
    /\ \E p \in Proc : pc[p] \in {"merge", "refs", "cas"}
    /\ <<"other", i>> \notin base /\ (i = 1 \/ <<"other", i - 1>> \in base)
    /\ base' = base \cup {<<"other", i>>}
    /\ UNCHANGED <<Batch, tip, Gate, Streak, pc, held, seed, view, History>>

(* The batch is completed, aborted or dismissed: its state file is archived   *)
(* and removed, and another batch's may take its place.                      *)
Archive ==
  /\ ~archived /\ pc[Engine] \in {"dead", "done"}
  /\ archived' = TRUE
  /\ UNCHANGED <<phase, Refs, Gate, Streak, pc, held, seed, view, History>>

(* resolveGateTargetRevision: the tip of the orch branch that the given batch *)
(* state names, and without one HEAD, which is whatever is checked out.      *)
Target(state) ==
  CASE state = "this"  -> {Orch(tip)}
    [] state = "other" -> {Foreign}
    [] state = "none"  -> {{}, base, Orch(tip)}

(* Whose the batch state is that is found in the state file. *)
Found == IF archived THEN {"none", "other"} ELSE {"this"}
-----------------------------------------------------------------------------
(* Opening the gate: openIntegrateGate. *)

(* All waves are merged: finalizeBatchForIntegrate saves and opens the gate. *)
Finalize ==
  /\ tip >= Waves /\ Goto(Engine, "waves", "look")
  /\ UNCHANGED <<Batch, Refs, Gate, Streak, held, seed, view, History>>

AfterOpen(p) == IF p = Engine THEN "settle" ELSE "idle"

(* Mutant: an existing record is pinned anew and keeps its approval. *)
ExistingGateRepinned(p) ==
  /\ gate # None
  /\ Goto(p, "look", AfterOpen(p))
  /\ gate' = [gate EXCEPT !.pin = Orch(tip)]
  /\ seed' = [seed EXCEPT ![p] = "this"]
  /\ UNCHANGED <<Batch, Refs, opened, Streak, held, view, History>>

(* An existing record is returned as it is, *)
ExistingGate(p) ==
  /\ gate # None
  /\ Goto(p, "look", AfterOpen(p)) /\ seed' = [seed EXCEPT ![p] = "this"]
  /\ UNCHANGED <<Batch, Refs, Gate, Streak, held, view, History>>

(* and else a new one is made, pinned to the tip of the orch branch. *)
PinGate(p) ==
  /\ gate = None /\ opened < MaxGates
  /\ Goto(p, "look", "save")
  /\ opened' = opened + 1
  /\ \E pin \in Target(seed[p]) :
       Hold(p, [id |-> opened + 1, pin |-> pin, status |-> "pending"])
  /\ seed' = [seed EXCEPT ![p] = "this"]
  /\ UNCHANGED <<Batch, Refs, gate, Streak, view, History>>

(* It is saved as pending, *)
SavePending(p) ==
  /\ Goto(p, "save", "evidence")
  /\ gate' = held[p]
  /\ UNCHANGED <<Batch, Refs, opened, Streak, held, seed, view, History>>

(* and once more, still as pending, when the tests and builds that are its   *)
(* evidence have run or failed.                                              *)
SaveEvidence(p) ==
  /\ Goto(p, "evidence", AfterOpen(p))
  /\ gate' = held[p] /\ Hold(p, None)
  /\ UNCHANGED <<Batch, Refs, opened, Streak, seed, view, History>>

(* The engine saves phase completed and exits. *)
Settle ==
  /\ Goto(Engine, "settle", "done")
  /\ phase' = "completed"
  /\ UNCHANGED <<archived, Refs, Gate, Streak, held, seed, view, History>>

(* A kill, and `batch resume` while the batch is still running. *)
KillEngine ==
  /\ pc[Engine] \notin {"dead", "done"}
  /\ pc' = [pc EXCEPT ![Engine] = "dead"]
  /\ Hold(Engine, None) /\ view' = [view EXCEPT ![Engine] = NoView]
  /\ UNCHANGED <<Batch, Refs, Gate, Streak, seed, History>>

ResumeEngine ==
  /\ phase = "running" /\ ~archived /\ Goto(Engine, "dead", "waves")
  /\ UNCHANGED <<Batch, Refs, Gate, Streak, held, seed, view, History>>

(* `spine gate reopen`, or a resume of the completed batch: a record that is *)
(* pending or approved for the present tip is kept.  The tip is that of the  *)
(* batch in the state file, whichever batch is named.                        *)
Current(state) ==
  gate # None /\ gate.status # "rejected" /\ gate.pin \in Target(state)

Reopen(p) ==
  /\ p \in Opener /\ opened < MaxGates /\ Goto(p, "idle", "reopen")
  /\ \E state \in Found \ {"none"} :
       /\ state = "this" => phase = "completed"
       /\ ~Current(state) /\ seed' = [seed EXCEPT ![p] = state]
  /\ UNCHANGED <<Batch, Refs, Gate, Streak, held, view, History>>

(* Any other is removed, by now whatever it may be, and a new one is opened. *)
RemoveGate(p) ==
  /\ Goto(p, "reopen", "look")
  /\ gate' = None
  /\ UNCHANGED <<Batch, Refs, opened, Streak, held, seed, view, History>>
-----------------------------------------------------------------------------
(* Deciding. *)

(* Mutant: a rejected gate can be approved after all. *)
DecidableAlsoRejected == gate # None /\ gate.status # "approved"

Decidable == gate # None /\ gate.status = "pending"

(* maybeAutoApproveIntegrateGate looks at the record, *)
AutoLook(p) ==
  /\ p \in Approver /\ Decidable /\ Goto(p, "idle", "autoScan")
  /\ UNCHANGED <<Batch, Refs, Gate, Streak, held, seed, view, History>>

(* Mutant: the journals are not asked for a reset that could not be made. *)
AutoScanNothing(p) ==
  /\ Goto(p, "autoScan", "autoStreak")
  /\ UNCHANGED <<Batch, Refs, Gate, Streak, held, seed, view, History>>

(* then searches the journals for a reset that could not be made, for such a *)
(* one makes every gate a manual one,                                        *)
AutoScan(p) ==
  /\ \/ ~unreliable /\ Goto(p, "autoScan", "autoStreak")
     \/ unreliable /\ Goto(p, "autoScan", "idle")
  /\ UNCHANGED <<Batch, Refs, Gate, Streak, held, seed, view, History>>

(* then reads the streak, on which evaluateGatePosture decides. *)
AutoDecide(p) ==
  /\ \/ streak >= AutoApproveAfterN /\ Goto(p, "autoStreak", "autoApprove")
     \/ streak < AutoApproveAfterN /\ Goto(p, "autoStreak", "idle")
  /\ UNCHANGED <<Batch, Refs, Gate, Streak, held, seed, view, History>>

(* approveIntegrateGate, called from there or by an operator, loads the      *)
(* record by itself; it is decided by now, or gone,                          *)
ApproveRefused(p) ==
  /\ ~Decidable /\ Goto(p, "autoApprove", "idle")
  /\ UNCHANGED <<Batch, Refs, Gate, Streak, held, seed, view, History>>

(* or the record is pending, *)
ApproveLoad(p) ==
  /\ p \in Approver /\ Decidable /\ Hold(p, gate)
  /\ Goto(p, "idle", "approveSave") \/ Goto(p, "autoApprove", "approveSave")
  /\ UNCHANGED <<Batch, Refs, Gate, Streak, seed, view, History>>

(* and is saved as approved.  The streak comes next. *)
ApproveSave(p) ==
  /\ Goto(p, "approveSave", "grow")
  /\ gate' = [held[p] EXCEPT !.status = "approved"]
  /\ Hold(p, None)
  /\ approvedPins' = approvedPins \cup {held[p].pin}
  /\ UNCHANGED <<Batch, Refs, opened, Streak, seed, view, final>>

RejectLoad(p) ==
  /\ p \in Rejecter /\ Decidable /\ Hold(p, gate)
  /\ Goto(p, "idle", "rejectSave")
  /\ UNCHANGED <<Batch, Refs, Gate, Streak, seed, view, History>>

(* Another process has this very gate in memory and is about to save it. *)
Overlapped(p) ==
  \E q \in Proc \ {p} :
    /\ pc[q] \in {"evidence", "approveSave"}
    /\ held[q] # None /\ held[q].id = held[p].id

RejectSave(p) ==
  /\ Goto(p, "rejectSave", "reset")
  /\ gate' = [held[p] EXCEPT !.status = "rejected"]
  /\ Hold(p, None)
  /\ final' = IF Overlapped(p) THEN final ELSE final \cup {held[p].id}
  /\ UNCHANGED <<Batch, Refs, opened, Streak, seed, view, approvedPins>>
-----------------------------------------------------------------------------
(* The streak: recordApprovalStreak and recordRejectStreakReset.  Each counts *)
(* first for the category and then for the kind, whose count decides         *)
(* nothing, and each time the file is loaded and written back whole.         *)

Rest == <<Batch, Refs, Gate, held, seed, view, History>>
OneMore(n) == IF n < AutoApproveAfterN THEN n + 1 ELSE n

LoadStreak(p) ==
  /\ \/ Goto(p, "grow", "growSave") \/ Goto(p, "kind", "kindSave")
     \/ Goto(p, "resetKind", "resetKindSave")
  /\ count' = [count EXCEPT ![p] = streak] /\ fresh' = fresh \cup {p}
  /\ UNCHANGED <<streak, unreliable, earned, Rest>>

(* What was loaded is no longer needed. *)
Unload(p) == count' = [count EXCEPT ![p] = 0] /\ fresh' = fresh \ {p}

(* A reset since p's load is lost when p writes back, a first slip: as many  *)
(* approvals count as earned as there can be.                                *)
Earn(p, n) == earned' = IF p \in fresh THEN n ELSE AutoApproveAfterN

GrowStreak(p) ==
  /\ Goto(p, "growSave", "kind") /\ Unload(p)
  /\ streak' = OneMore(count[p]) /\ Earn(p, OneMore(earned))
  /\ UNCHANGED <<unreliable, Rest>>

(* The count of the kind changes, and that of the category is what it was. *)
SaveKind(p) ==
  /\ Goto(p, "kindSave", "idle") \/ Goto(p, "resetKindSave", "idle")
  /\ Unload(p) /\ streak' = count[p] /\ Earn(p, earned)
  /\ UNCHANGED <<unreliable, Rest>>

(* A failed write takes nothing back of an approval. *)
GrowFails(p) ==
  /\ \/ Goto(p, "growSave", "idle") /\ earned' = OneMore(earned)
     \/ Goto(p, "kindSave", "idle") /\ earned' = earned
  /\ Unload(p)
  /\ UNCHANGED <<streak, unreliable, Rest>>

(* A rejection ends the streak. *)
Restart(n) == streak' = n /\ earned' = 0 /\ fresh' = {}

(* Mutant: a rejection takes one off the streak instead of ending it. *)
ResetOneOff(p) ==
  /\ Goto(p, "reset", "resetKind") /\ Restart(streak - 1)
  /\ UNCHANGED <<unreliable, count, Rest>>

ResetStreak(p) ==
  /\ Goto(p, "reset", "resetKind") /\ Restart(0)
  /\ UNCHANGED <<unreliable, count, Rest>>

ResetFails(p) ==
  /\ \/ Goto(p, "reset", "recover") /\ UNCHANGED <<count, fresh>>
     \/ Goto(p, "resetKindSave", "recover") /\ Unload(p)
  /\ UNCHANGED <<streak, unreliable, earned, Rest>>

(* If it cannot be reset the file of the streaks is removed, *)
RemoveStreaks(p) ==
  /\ Goto(p, "recover", "idle") /\ Restart(0)
  /\ UNCHANGED <<unreliable, count, Rest>>

(* and if that fails too the journal says so, which an automatic approval    *)
(* that has searched the journals already does not see: a second slip; or    *)
(* the journal cannot be written either, and nobody is told: a third.        *)
RemoveFails(p) ==
  /\ Goto(p, "recover", "idle") /\ fresh' = {}
  /\ \/ unreliable' = TRUE
        /\ earned' = IF \E q \in Proc : pc[q] = "autoStreak"
                     THEN AutoApproveAfterN ELSE 0
     \/ unreliable' = unreliable /\ earned' = AutoApproveAfterN
  /\ UNCHANGED <<streak, count, Rest>>
-----------------------------------------------------------------------------
(* Landing. *)

(* checkIntegrateGate, with the target revision that it resolves. *)
GateOpen(forced, revision) ==
  \/ ~GateRequired \/ forced
  \/ /\ gate # None /\ gate.status = "approved"
     /\ gate.pin = revision

Look(p, what, forced, revision) ==
  view' = [view EXCEPT ![p] = [NoView EXCEPT
             !.what = what, !.checked = revision, !.forced = forced]]

(* integrateOrchToBase, by a command or by the engine between two waves: the *)
(* orch branch is not in base yet and the gate lets it pass.                 *)
Integrate(p) ==
  /\ p \in Lander /\ Free(p) /\ ~archived /\ ~(Orch(tip) \subseteq base)
  /\ \E forced \in {FALSE, ForceAllowed /\ p # Engine} :
       GateOpen(forced, Orch(tip)) /\ Look(p, "orch", forced, Orch(tip))
  /\ pc' = [pc EXCEPT ![p] = "merge"]
  /\ UNCHANGED <<Batch, Refs, Gate, Streak, held, seed, History>>

(* integrateSalvageableLane: the same gate, but it lands a lane branch, and   *)
(* it gives checkIntegrateGate no batch state: the gate's pin is compared    *)
(* with whatever the state file of the moment leads to.                      *)
Salvage(p) ==
  /\ p \in Lander \ {Engine} /\ Free(p) /\ ~(Lane \subseteq base)
  /\ \E forced \in {FALSE, ForceAllowed},
        revision \in UNION {Target(state) : state \in Found} :
       GateOpen(forced, revision) /\ Look(p, "lane", forced, revision)
  /\ pc' = [pc EXCEPT ![p] = "merge"]
  /\ UNCHANGED <<Batch, Refs, Gate, Streak, held, seed, History>>

(* Without a gate record salvage opens one from its own evidence, with the   *)
(* batch's own state, from the archive or the state file.                    *)
SalvageOpens(p) ==
  /\ p \in Lander \ {Engine} /\ ~(Lane \subseteq base)
  /\ gate = None /\ GateRequired /\ opened < MaxGates
  /\ Goto(p, "idle", "look")
  /\ UNCHANGED <<Batch, Refs, Gate, Streak, held, seed, view, History>>

(* isFastForwardCapableIntegrate reads base and orch a first time. *)
ChooseMode(p) ==
  /\ Goto(p, "merge", "refs")
  /\ view' = [view EXCEPT ![p].ff = /\ view[p].what = "orch"
                                    /\ base \subseteq Orch(tip)]
  /\ UNCHANGED <<Batch, Refs, Gate, Streak, held, seed, History>>

(* The merge reads both again, *)
ReadRefs(p) ==
  /\ Goto(p, "refs", "cas")
  /\ view' = [view EXCEPT ![p].base = base, ![p].tip = tip]
  /\ UNCHANGED <<Batch, Refs, Gate, Streak, held, seed, History>>

(* What base is moved to: the orch tip, or a merge with the base it read. *)
Merged(v) ==
  IF v.ff THEN Orch(v.tip)
  ELSE v.base \cup (IF v.what = "orch" THEN Orch(v.tip) ELSE Lane)

(* Mutant: update-ref without the expected old value. *)
MoveBaseBlindly(p) ==
  /\ Goto(p, "cas", Home(p))
  /\ base' = Merged(view[p])
  /\ view' = [view EXCEPT ![p] = NoView]
  /\ UNCHANGED <<Batch, tip, Gate, Streak, held, seed, History>>

(* and moves base if it is still the one it read. *)
MoveBase(p) ==
  /\ base = view[p].base
  /\ Goto(p, "cas", Home(p))
  /\ base' = Merged(view[p])
  /\ view' = [view EXCEPT ![p] = NoView]
  /\ UNCHANGED <<Batch, tip, Gate, Streak, held, seed, History>>

(* mergeInIntegrateWorktree: when base is not checked out, salvage lets git   *)
(* merge the lane in a worktree of base, which moves base in one step; that  *)
(* base had moved before is only reported afterwards.                        *)
MergeInWorktree(p) ==
  /\ view[p].what = "lane" /\ Goto(p, "merge", Home(p))
  /\ base' = base \cup Lane
  /\ view' = [view EXCEPT ![p] = NoView]
  /\ UNCHANGED <<Batch, tip, Gate, Streak, held, seed, History>>

(* BaseMoved, or a merge conflict: nothing is moved. *)
MergeFails(p) ==
  /\ Goto(p, "cas", Home(p))
  /\ view' = [view EXCEPT ![p] = NoView]
  /\ UNCHANGED <<Batch, Refs, Gate, Streak, held, seed, History>>
-----------------------------------------------------------------------------
Branches == MergeWave \/ OrchMoves \/ BaseMoves \/ Archive
EngineLife == Finalize \/ Settle \/ KillEngine \/ ResumeEngine
Open(p) == \/ ExistingGate(p) \/ PinGate(p) \/ SavePending(p)
           \/ SaveEvidence(p) \/ Reopen(p) \/ RemoveGate(p)
Decide(p) == \/ AutoLook(p) \/ AutoScan(p) \/ AutoDecide(p)
             \/ ApproveRefused(p) \/ ApproveLoad(p) \/ ApproveSave(p)
             \/ RejectLoad(p) \/ RejectSave(p)
CountStreak(p) == \/ LoadStreak(p) \/ GrowStreak(p) \/ SaveKind(p)
                  \/ GrowFails(p) \/ ResetStreak(p) \/ ResetFails(p)
                  \/ RemoveStreaks(p) \/ RemoveFails(p)
Land(p) == \/ Integrate(p) \/ Salvage(p) \/ SalvageOpens(p) \/ ChooseMode(p)
           \/ ReadRefs(p) \/ MoveBase(p) \/ MergeInWorktree(p) \/ MergeFails(p)

Next == \/ Branches \/ EngineLife
        \/ \E p \in Proc : Open(p) \/ Decide(p) \/ CountStreak(p) \/ Land(p)

Spec == Init /\ [][Next]_vars
-----------------------------------------------------------------------------
TypeOK ==
  /\ phase \in {"running", "completed"} /\ archived \in BOOLEAN
  /\ tip \in Tip /\ base \in Revision
  /\ gate \in Record \cup {None} /\ opened \in 0..MaxGates
  /\ streak \in 0..AutoApproveAfterN /\ unreliable \in BOOLEAN
  /\ pc \in [Proc -> PC]
  /\ held \in [Proc -> Record \cup {None}]
  /\ count \in [Proc -> 0..AutoApproveAfterN]
  /\ seed \in [Proc -> {"this", "other"}]
  /\ view \in [Proc -> View]
  /\ approvedPins \in SUBSET Revision /\ final \in SUBSET Id
  /\ earned \in 0..AutoApproveAfterN
  /\ fresh \in SUBSET Proc

(* A step of p that moves base. *)
Lands(p) == pc[p] \in {"merge", "cas"} /\ pc'[p] # pc[p] /\ base' # base

(* Nothing reaches base by integrate or salvage unless the revision that the *)
(* gate was checked at had been approved, however gates were reopened,       *)
(* opened twice or overwritten meanwhile; only SPINE_ALLOW_FORCE goes round  *)
(* it.  For an integrate that revision is of the orch branch and is then on  *)
(* base, with whatever was committed to orch during the integration, and     *)
(* nobody who integrates takes it off again.  For a salvage this is all that *)
(* is promised: the lane it lands is pinned by nobody, and the revision may  *)
(* be HEAD or the tip of another batch.                                      *)
LandedWasApproved ==
  [][/\ \A p \in Proc : Lands(p) =>
          /\ GateRequired =>
               view[p].forced \/ view[p].checked \in approvedPins
          /\ view[p].what = "orch" =>
               view[p].checked \subseteq base' \cap Orch(tip)
     /\ base \cap Orch(MaxTip) \subseteq base']_vars

(* A rejected gate is never approved afterwards, except by a process that    *)
(* had loaded or was still opening that very gate when it was rejected.      *)
RejectionIsFinal ==
  gate # None /\ gate.status = "approved" => gate.id \notin final

(* When a gate is about to be approved automatically there were so many      *)
(* approvals in a row since the last finished rejection, whatever I/O error  *)
(* the file of the streaks met and however approvals and rejections          *)
(* overlapped.  Left out are rejections whose reset was lost by one of the   *)
(* three slips above: overwritten by a count that was loaded before it, or   *)
(* shown in time neither by the file nor by the journals.                    *)
AutoNeedsStreak ==
  [][\A p \in Proc : pc[p] # "autoApprove" /\ pc'[p] = "autoApprove"
       => earned >= AutoApproveAfterN]_vars

(* No integration takes a commit of somebody else off the base branch, but   *)
(* for a fast-forward whose base had moved since it was found fast-forward.  *)
KeepsBase ==
  [][\/ base \subseteq base'
     \/ \E p \in Proc : pc[p] = "cas" /\ view[p].ff
                        /\ ~(view[p].base \subseteq Orch(view[p].tip))]_vars

(* integrate.mjs:45 says that a commit landing on base in the middle of an   *)
(* integration makes it fail loudly "instead of being orphaned".             *)
BaseOnlyGrows == [][base \subseteq base']_vars
=============================================================================
