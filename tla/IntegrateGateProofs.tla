------------------------ MODULE IntegrateGateProofs ------------------------
(* What the integrate gate guarantees for any number of commands, commits    *)
(* and gate records: proofs about IntegrateGate.                             *)
EXTENDS IntegrateGate, TLAPS

(* Who is between a read of the gate record and a save has it in memory. *)
Saving == {"save", "evidence", "approveSave", "rejectSave"}
HoldsRecord == \A p \in Proc : pc[p] \in Saving => held[p] # None

(* A record in memory is one that was opened and is still undecided. *)
HeldIsPending ==
  \A p \in Proc : held[p] # None =>
    held[p].status = "pending" /\ held[p].id <= opened

(* A record that is not saved yet is in no file and in no other memory. *)
UnsavedIsOwn ==
  \A p \in Proc : pc[p] = "save" =>
    /\ gate # None => gate.id # held[p].id
    /\ \A q \in Proc \ {p} : held[q] # None => held[q].id # held[p].id

(* A record on disk was opened, and its approval is remembered. *)
GateIsKnown ==
  gate # None => /\ gate.id <= opened
                 /\ gate.status = "approved" => gate.pin \in approvedPins

(* A rejection is final: the record on disk says so, and nobody is about to  *)
(* save anything else.                                                       *)
FinalIsOver ==
  /\ \A i \in final : i <= opened
  /\ gate # None /\ gate.id \in final => gate.status = "rejected"
  /\ \A p \in Proc : pc[p] \in Saving \ {"rejectSave"} => held[p].id \notin final

RecordInv == /\ HoldsRecord /\ HeldIsPending /\ UnsavedIsOwn
             /\ GateIsKnown /\ FinalIsOver

(* An integration under way was let pass by an approval of the tip it saw. *)
PassedIsApproved ==
  GateRequired =>
    \A p \in Proc : pc[p] \in {"merge", "refs", "cas"} =>
      view[p].forced \/ view[p].checked \in approvedPins

(* What the batch has on base came from its orch branch.  An integration     *)
(* checked a revision of that branch, and reads base before it reads the     *)
(* branch: what base has of the batch by then is in what it will put there.  *)
LandingIsOrch ==
  /\ base \cap Orch(MaxTip) \subseteq Orch(tip)
  /\ \A p \in Proc : pc[p] \in {"merge", "refs", "cas"} /\ view[p].what = "orch"
       => view[p].checked \subseteq Orch(tip)
  /\ \A p \in Proc : pc[p] = "cas" =>
       /\ view[p].tip <= tip
       /\ view[p].base \cap Orch(MaxTip) \subseteq Orch(view[p].tip)
       /\ view[p].what = "orch" => view[p].checked \subseteq Orch(view[p].tip)

GateInv == TypeOK /\ RecordInv /\ PassedIsApproved /\ LandingIsOrch

(* The engine and the operators are the processes. *)
LEMMA Processes == Engine \in Proc /\ Operator \subseteq Proc
  BY DEF Proc

(* A record is not the sentinel, and has the fields it is made of. *)
LEMMA Records ==
  /\ None \notin Record
  /\ \A g \in Record : /\ g.id \in Id /\ g.pin \in Revision
                       /\ g.status \in Status /\ g # None
  BY NoneAssumption DEF Record

(* The commits of the orch branch are commits, and only get more. *)
LEMMA OrchCommits ==
  /\ \A t \in Tip : Orch(t) \in Revision /\ Orch(t) \subseteq Orch(MaxTip)
  /\ \A t, u \in Tip : t <= u => Orch(t) \subseteq Orch(u)
  BY GateAssumption DEF Orch, Commit, Revision, Tip

(* Nobody else's commits are. *)
LEMMA NotOrch ==
  /\ Lane \cap Orch(MaxTip) = {}
  /\ \A i \in 1..MaxOther : <<"other", i>> \notin Orch(MaxTip)
  BY DEF Lane, Orch

(* What a merge moves base to is a set of commits. *)
LEMMA MergedCommits ==
  Lane \in Revision /\ \A v \in View : Merged(v) \in Revision
<1>1. Lane \in Revision
  BY DEF Lane, Commit, Revision
<1>2. \A v \in View : v.base \in Revision /\ v.tip \in Tip
  BY DEF View
<1>3. QED BY <1>1, <1>2, OrchCommits DEF Merged, Revision

(* A gate is pinned to, and checked at, a revision. *)
LEMMA TargetRevisions ==
  ASSUME tip \in Tip, base \in Revision
  PROVE  \A state \in {"this", "other", "none"} : Target(state) \subseteq Revision
<1>1. Orch(tip) \in Revision /\ {} \in Revision
  BY OrchCommits DEF Revision
<1>2. Foreign \in Revision
  BY DEF Foreign, Revision, Commit
<1>3. QED BY <1>1, <1>2 DEF Target

(* Types are kept by the steps that move branches and by the engine's life. *)
LEMMA EngineTyped ==
  ASSUME TypeOK, Branches \/ EngineLife
  PROVE  TypeOK'
<1> USE GateAssumption DEF TypeOK, Batch, Refs, Gate, Streak, History
<1>1. CASE MergeWave \/ OrchMoves
  <2>1. tip' \in Tip
    BY <1>1 DEF MergeWave, OrchMoves, Tip
  <2>2. QED BY <1>1, <2>1 DEF MergeWave, OrchMoves
<1>2. CASE BaseMoves
  BY <1>2 DEF BaseMoves, Commit, Revision
<1>3. CASE Archive
  BY <1>3 DEF Archive
<1>4. CASE Finalize
  BY <1>4, Processes DEF Finalize, Goto, PC
<1>5. CASE Settle
  BY <1>5, Processes DEF Settle, Goto, PC
<1>6. CASE KillEngine
  <2>1. NoView \in View
    BY DEF NoView, View, Tip, Revision
  <2>2. QED BY <1>6, <2>1, Processes DEF KillEngine, Hold, PC
<1>7. CASE ResumeEngine
  BY <1>7, Processes DEF ResumeEngine, Goto, PC
<1>8. QED
  BY <1>1, <1>2, <1>3, <1>4, <1>5, <1>6, <1>7 DEF Branches, EngineLife

(* Types are kept by the steps that open a gate. *)
LEMMA OpenTyped ==
  ASSUME TypeOK, HoldsRecord, NEW p \in Proc, Open(p)
  PROVE  TypeOK'
<1> USE GateAssumption DEF TypeOK, Batch, Refs, Gate, Streak, History
<1>1. AfterOpen(p) \in PC
  BY DEF AfterOpen, PC
<1>2. CASE ExistingGate(p)
  BY <1>1, <1>2 DEF ExistingGate, Goto
<1>3. CASE PinGate(p)
  <2>1. PICK pin \in Revision :
          Hold(p, [id |-> opened + 1, pin |-> pin, status |-> "pending"])
    BY <1>3, TargetRevisions DEF PinGate
  <2>2. [id |-> opened + 1, pin |-> pin, status |-> "pending"] \in Record
    BY <1>3 DEF PinGate, Record, Id, Status
  <2>3. opened + 1 \in 0..MaxGates
    BY <1>3 DEF PinGate
  <2>4. held' \in [Proc -> Record \cup {None}]
    BY <2>1, <2>2 DEF Hold
  <2>5. QED BY <1>3, <2>3, <2>4 DEF PinGate, Goto, PC
<1>4. CASE SavePending(p)
  BY <1>4 DEF SavePending, Goto, PC
<1>5. CASE SaveEvidence(p)
  BY <1>1, <1>5 DEF SaveEvidence, Goto, Hold
<1>6. CASE Reopen(p)
  <2>1. seed' \in [Proc -> {"this", "other"}]
    BY <1>6 DEF Reopen, Found
  <2>2. QED BY <1>6, <2>1 DEF Reopen, Goto, PC
<1>7. CASE RemoveGate(p)
  BY <1>7 DEF RemoveGate, Goto, PC
<1>8. QED BY <1>2, <1>3, <1>4, <1>5, <1>6, <1>7 DEF Open

(* Types are kept by the steps that decide a gate. *)
LEMMA DecideTyped ==
  ASSUME TypeOK, HoldsRecord, NEW p \in Proc, Decide(p)
  PROVE  TypeOK'
<1> USE GateAssumption DEF TypeOK, Batch, Refs, Gate, Streak, History
<1>1. CASE AutoLook(p) \/ AutoScan(p) \/ AutoDecide(p)
  BY <1>1 DEF AutoLook, AutoScan, AutoDecide, Goto, PC
<1>2. CASE ApproveRefused(p)
  BY <1>2 DEF ApproveRefused, Goto, PC
<1>3. CASE ApproveLoad(p) \/ RejectLoad(p)
  BY <1>3 DEF ApproveLoad, RejectLoad, Goto, Hold, PC
<1>4. CASE ApproveSave(p)
  <2>1. held[p] \in Record
    BY <1>4 DEF ApproveSave, HoldsRecord, Saving, Goto
  <2>2. [held[p] EXCEPT !.status = "approved"] \in Record
        /\ held[p].pin \in Revision
    BY <2>1 DEF Record, Status
  <2>3. QED BY <1>4, <2>2 DEF ApproveSave, Goto, Hold, PC
<1>5. CASE RejectSave(p)
  <2>1. held[p] \in Record
    BY <1>5 DEF RejectSave, HoldsRecord, Saving, Goto
  <2>2. [held[p] EXCEPT !.status = "rejected"] \in Record /\ held[p].id \in Id
    BY <2>1 DEF Record, Status
  <2>3. QED BY <1>5, <2>2 DEF RejectSave, Goto, Hold, PC
<1>6. QED BY <1>1, <1>2, <1>3, <1>4, <1>5 DEF Decide

(* Types are kept by the steps that count approvals. *)
LEMMA StreakTyped ==
  ASSUME TypeOK, NEW p \in Proc, CountStreak(p)
  PROVE  TypeOK'
<1> USE GateAssumption DEF TypeOK
<1>1. UNCHANGED Rest
  BY DEF CountStreak, LoadStreak, GrowStreak, SaveKind, GrowFails, ResetStreak,
         ResetFails, RemoveStreaks, RemoveFails
<1>2. pc' \in [Proc -> PC]
  BY DEF CountStreak, LoadStreak, GrowStreak, SaveKind, GrowFails, ResetStreak,
         ResetFails, RemoveStreaks, RemoveFails, Goto, PC
<1>3. \A n \in 0..AutoApproveAfterN : OneMore(n) \in 0..AutoApproveAfterN
  BY DEF OneMore
<1>4. 0 \in 0..AutoApproveAfterN
  OBVIOUS
<1>5. /\ count' \in [Proc -> 0..AutoApproveAfterN] /\ fresh' \in SUBSET Proc
      /\ streak' \in 0..AutoApproveAfterN /\ earned' \in 0..AutoApproveAfterN
  BY <1>3, <1>4
     DEF CountStreak, LoadStreak, GrowStreak, SaveKind, GrowFails, ResetStreak,
         ResetFails, RemoveStreaks, RemoveFails, Unload, Restart, Earn
<1>6. unreliable' \in BOOLEAN
  <2>1. unreliable' = unreliable \/ unreliable' = TRUE
    BY Zenon DEF CountStreak, LoadStreak, GrowStreak, SaveKind, GrowFails,
         ResetStreak, ResetFails, RemoveStreaks, RemoveFails
  <2>2. QED BY <2>1
<1>7. QED
  BY <1>1, <1>2, <1>5, <1>6 DEF Rest, Batch, Refs, Gate, History

(* Types are kept by the steps that land work on the base branch. *)
LEMMA LandTyped ==
  ASSUME TypeOK, NEW p \in Proc, Land(p)
  PROVE  TypeOK'
<1> USE GateAssumption DEF TypeOK, Batch, Refs, Gate, Streak, History
<1>1. NoView \in View /\ Home(p) \in PC
  BY DEF NoView, View, Tip, Home, PC, Revision
<1>2. CASE Integrate(p) \/ Salvage(p)
  <2>1. PICK what \in {"orch", "lane"}, forced \in BOOLEAN, revision \in Revision :
          Look(p, what, forced, revision)
    <3>1. CASE Integrate(p)
      BY <3>1, OrchCommits DEF Integrate
    <3>2. CASE Salvage(p)
      <4>1. UNION {Target(state) : state \in Found} \subseteq Revision
        BY TargetRevisions DEF Found
      <4>2. QED BY <3>2, <4>1 DEF Salvage
    <3>3. QED BY <1>2, <3>1, <3>2
  <2>2. [NoView EXCEPT !.what = what, !.checked = revision, !.forced = forced]
          \in View
    BY <1>1 DEF View
  <2>3. view' \in [Proc -> View]
    BY <2>1, <2>2 DEF Look
  <2>4. QED BY <1>2, <2>3 DEF Integrate, Salvage, PC
<1>3. CASE SalvageOpens(p)
  BY <1>3 DEF SalvageOpens, Goto, PC
<1>4. CASE ChooseMode(p)
  <2>1. \A ff \in BOOLEAN : [view[p] EXCEPT !.ff = ff] \in View
    BY DEF View
  <2>2. view' \in [Proc -> View]
    BY <1>4, <2>1 DEF ChooseMode
  <2>3. QED BY <1>4, <2>2 DEF ChooseMode, Goto, PC
<1>5. CASE ReadRefs(p)
  <2>1. [view[p] EXCEPT !.base = base, !.tip = tip] \in View
    BY DEF View
  <2>2. view' \in [Proc -> View]
    BY <1>5, <2>1 DEF ReadRefs
  <2>3. QED BY <1>5, <2>2 DEF ReadRefs, Goto, PC
<1>6. CASE MoveBase(p) \/ MergeInWorktree(p)
  <2>1. base' \in Revision
    BY <1>6, MergedCommits DEF MoveBase, MergeInWorktree, Revision
  <2>2. QED BY <1>1, <1>6, <2>1 DEF MoveBase, MergeInWorktree, Goto
<1>7. CASE MergeFails(p)
  BY <1>1, <1>7 DEF MergeFails, Goto
<1>8. QED BY <1>2, <1>3, <1>4, <1>5, <1>6, <1>7 DEF Land

(* Every step keeps the types. *)
LEMMA TypeStep ==
  ASSUME TypeOK, RecordInv, [Next]_vars
  PROVE  TypeOK'
<1>1. CASE Next
  BY <1>1, EngineTyped, OpenTyped, DecideTyped, StreakTyped, LandTyped
     DEF Next, RecordInv
<1>2. CASE UNCHANGED vars
  BY <1>2 DEF vars, Batch, Refs, Gate, Streak, History, TypeOK
<1>3. QED BY <1>1, <1>2

(* A step that writes no record and loads none. *)
Quiet == /\ UNCHANGED <<gate, opened, held, approvedPins, final>>
         /\ \A q \in Proc : pc'[q] \in Saving => pc'[q] = pc[q]

(* The steps that do so: all but the opening and deciding of gates. *)
LEMMA QuietSteps ==
  ASSUME TypeOK, [Next]_vars,
         ~KillEngine,
         \A p \in Proc : ~(\/ PinGate(p) \/ SavePending(p) \/ SaveEvidence(p)
                           \/ RemoveGate(p) \/ ApproveLoad(p) \/ ApproveSave(p)
                           \/ RejectLoad(p) \/ RejectSave(p))
  PROVE  Quiet
<1> USE DEF TypeOK, Gate, History, Quiet, Saving
<1>1. CASE Branches
  BY <1>1 DEF Branches, MergeWave, OrchMoves, BaseMoves, Archive
<1>2. CASE EngineLife
  BY <1>2 DEF EngineLife, Finalize, Settle, ResumeEngine, Goto
<1>3. ASSUME NEW p \in Proc, ExistingGate(p) \/ Reopen(p) PROVE Quiet
  BY <1>3 DEF ExistingGate, Reopen, AfterOpen, Goto
<1>4. ASSUME NEW p \in Proc,
             AutoLook(p) \/ AutoScan(p) \/ AutoDecide(p) \/ ApproveRefused(p)
      PROVE  Quiet
  BY <1>4 DEF AutoLook, AutoScan, AutoDecide, ApproveRefused, Goto
<1>5. ASSUME NEW p \in Proc, CountStreak(p) PROVE Quiet
  BY <1>5 DEF CountStreak, LoadStreak, GrowStreak, SaveKind, GrowFails,
              ResetStreak, ResetFails, RemoveStreaks, RemoveFails, Rest, Goto
<1>6. ASSUME NEW p \in Proc, Integrate(p) \/ Salvage(p) \/ SalvageOpens(p)
      PROVE  Quiet
  BY <1>6 DEF Integrate, Salvage, SalvageOpens, Goto
<1>7. ASSUME NEW p \in Proc,
             \/ ChooseMode(p) \/ ReadRefs(p) \/ MoveBase(p)
             \/ MergeInWorktree(p) \/ MergeFails(p)
      PROVE  Quiet
  BY <1>7 DEF ChooseMode, ReadRefs, MoveBase, MergeInWorktree, MergeFails,
              Goto, Home
<1>8. CASE UNCHANGED vars
  BY <1>8 DEF vars
<1>9. QED
  BY <1>1, <1>2, <1>3, <1>4, <1>5, <1>6, <1>7, <1>8 DEF Next, Open, Decide, Land

(* Every step keeps what is said of the records in memory and on disk. *)
LEMMA RecordStep ==
  ASSUME TypeOK, RecordInv, [Next]_vars
  PROVE  RecordInv'
<1> USE Records DEF TypeOK, RecordInv, HoldsRecord, HeldIsPending, UnsavedIsOwn,
                    GateIsKnown, FinalIsOver
<1>1. CASE Quiet
  BY <1>1 DEF Quiet, Saving
<1>2. CASE KillEngine
  BY <1>2, Processes DEF KillEngine, Hold, Gate, History, Saving
<1>3. ASSUME NEW p \in Proc, PinGate(p) PROVE RecordInv'
  <2>1. PICK pin \in Revision :
          /\ gate = None /\ gate' = None /\ opened' = opened + 1
          /\ held' = [held EXCEPT ![p] = [id |-> opened + 1, pin |-> pin,
                                          status |-> "pending"]]
          /\ pc' = [pc EXCEPT ![p] = "save"]
          /\ UNCHANGED <<approvedPins, final>>
    BY <1>3, TargetRevisions DEF PinGate, Goto, Hold, History
  <2>2. opened \in Nat
    OBVIOUS
  <2>3. opened + 1 \notin final
    BY <2>2 DEF Id
  <2>8. opened + 1 \in Id
    BY <1>3, GateAssumption DEF PinGate, Id
  <2>9. [id |-> opened + 1, pin |-> pin, status |-> "pending"] # None
    BY <2>8, NoneAssumption DEF Record, Status
  <2>10. \A q \in Proc : held[q] # None => held[q].id \in Nat
    BY DEF Id
  <2>11. HoldsRecord'
    BY <2>1, <2>9 DEF Saving
  <2>4. HeldIsPending'
    BY <2>1, <2>2, <2>10
  <2>5. UnsavedIsOwn'
    BY <2>1, <2>2 DEF Saving, Id
  <2>6. GateIsKnown' /\ FinalIsOver'
    BY <2>1, <2>2, <2>3 DEF Saving, Id
  <2>7. QED BY <2>4, <2>5, <2>6, <2>11
<1>4. ASSUME NEW p \in Proc, SavePending(p) PROVE RecordInv'
  BY <1>4 DEF SavePending, Goto, History, Saving
<1>5. ASSUME NEW p \in Proc, SaveEvidence(p) PROVE RecordInv'
  BY <1>5 DEF SaveEvidence, Goto, Hold, AfterOpen, History, Saving
<1>6. ASSUME NEW p \in Proc, RemoveGate(p) PROVE RecordInv'
  BY <1>6 DEF RemoveGate, Goto, History, Saving
<1>7. ASSUME NEW p \in Proc, ApproveLoad(p) \/ RejectLoad(p) PROVE RecordInv'
  BY <1>7 DEF ApproveLoad, RejectLoad, Decidable, Goto, Hold, Gate, History,
              Saving
<1>8. ASSUME NEW p \in Proc, ApproveSave(p) PROVE RecordInv'
  BY <1>8 DEF ApproveSave, Goto, Hold, Saving
<1>9. ASSUME NEW p \in Proc, RejectSave(p) PROVE RecordInv'
  BY <1>9 DEF RejectSave, Overlapped, Goto, Hold, Saving
<1>10. QED
  BY QuietSteps, <1>1, <1>2, <1>3, <1>4, <1>5, <1>6, <1>7, <1>8, <1>9

(* Where an integration is, and what it has read, between check and landing. *)
Landing == {"merge", "refs", "cas"}

(* A step that lets no integration begin. *)
NoLanding ==
  /\ approvedPins \subseteq approvedPins'
  /\ \A q \in Proc : pc'[q] \in Landing =>
       /\ pc[q] \in Landing /\ view'[q].what = view[q].what
       /\ view'[q].checked = view[q].checked /\ view'[q].forced = view[q].forced

(* All steps but those that pass the gate are such. *)
LEMMA NoLandingSteps ==
  ASSUME TypeOK, [Next]_vars, \A p \in Proc : ~(Integrate(p) \/ Salvage(p))
  PROVE  NoLanding
<1> USE DEF TypeOK, History, NoLanding, Landing
<1>1. CASE Branches
  BY <1>1 DEF Branches, MergeWave, OrchMoves, BaseMoves, Archive
<1>2. CASE EngineLife
  BY <1>2, Processes DEF EngineLife, Finalize, Settle, KillEngine, ResumeEngine, Goto
<1>3. ASSUME NEW p \in Proc, Open(p) PROVE NoLanding
  BY <1>3 DEF Open, ExistingGate, PinGate, SavePending, SaveEvidence, Reopen,
              RemoveGate, AfterOpen, Goto
<1>4. ASSUME NEW p \in Proc, Decide(p) PROVE NoLanding
  BY <1>4 DEF Decide, AutoLook, AutoScan, AutoDecide, ApproveRefused,
              ApproveLoad, ApproveSave, RejectLoad, RejectSave, Goto
<1>5. ASSUME NEW p \in Proc, CountStreak(p) PROVE NoLanding
  BY <1>5 DEF CountStreak, LoadStreak, GrowStreak, SaveKind, GrowFails,
              ResetStreak, ResetFails, RemoveStreaks, RemoveFails, Rest, Goto
<1>6. ASSUME NEW p \in Proc,
             \/ SalvageOpens(p) \/ MergeFails(p) \/ MoveBase(p)
             \/ MergeInWorktree(p)
      PROVE  NoLanding
  BY <1>6 DEF SalvageOpens, MergeFails, MoveBase, MergeInWorktree, Goto, Home
<1>7. ASSUME NEW p \in Proc, ChooseMode(p) \/ ReadRefs(p) PROVE NoLanding
  BY <1>7 DEF ChooseMode, ReadRefs, Goto, View
<1>8. CASE UNCHANGED vars
  BY <1>8 DEF vars
<1>9. QED
  BY <1>1, <1>2, <1>3, <1>4, <1>5, <1>6, <1>7, <1>8 DEF Next, Land

(* What an integration begins with: the tip of orch, or for a salvage what   *)
(* the state file led to; and either is what the approved gate is pinned to. *)
LEMMA LandingBegins ==
  ASSUME TypeOK, GateIsKnown, NEW p \in Proc, Integrate(p) \/ Salvage(p)
  PROVE  /\ GateRequired => view'[p].forced \/ view'[p].checked \in approvedPins'
         /\ view'[p].what = "orch" => view'[p].checked = Orch(tip)
         /\ pc[p] = Home(p) /\ pc' = [pc EXCEPT ![p] = "merge"]
         /\ \A q \in Proc \ {p} : view'[q] = view[q]
         /\ UNCHANGED <<Refs, approvedPins>>
<1> USE GateAssumption DEF TypeOK
<1> DEFINE Seen == {Orch(tip)} \cup UNION {Target(state) : state \in Found}
<1>1. PICK what \in {"orch", "lane"}, forced \in BOOLEAN, revision \in Seen :
        /\ GateOpen(forced, revision) /\ Look(p, what, forced, revision)
        /\ what = "orch" => revision = Orch(tip)
  <2>1. CASE Integrate(p)
    BY <2>1 DEF Integrate
  <2>2. CASE Salvage(p)
    <3>1. PICK forced \in {FALSE, ForceAllowed},
               revision \in UNION {Target(state) : state \in Found} :
            GateOpen(forced, revision) /\ Look(p, "lane", forced, revision)
      BY <2>2, Zenon DEF Salvage
    <3>2. forced \in BOOLEAN
      BY <3>1
    <3>3. QED BY <3>1, <3>2
  <2>3. QED BY <2>1, <2>2
<1>2. /\ view'[p].what = what /\ view'[p].checked = revision
      /\ view'[p].forced = forced
      /\ \A q \in Proc \ {p} : view'[q] = view[q]
  BY <1>1 DEF Look, NoView
<1>3. GateRequired => forced \/ revision \in approvedPins
  BY <1>1 DEF GateOpen, GateIsKnown
<1>4. /\ pc[p] = Home(p) /\ pc' = [pc EXCEPT ![p] = "merge"]
      /\ UNCHANGED <<Refs, approvedPins>>
  BY DEF Integrate, Salvage, Free, History
<1>5. QED BY <1>1, <1>2, <1>3, <1>4

(* Every step keeps what is said of the approval of integrations under way. *)
LEMMA PassedStep ==
  ASSUME TypeOK, RecordInv, PassedIsApproved, [Next]_vars
  PROVE  PassedIsApproved'
<1> USE DEF TypeOK, PassedIsApproved
<1>1. CASE NoLanding
  BY <1>1 DEF NoLanding, Landing
<1>2. ASSUME NEW p \in Proc, Integrate(p) \/ Salvage(p) PROVE PassedIsApproved'
  BY <1>2, LandingBegins DEF RecordInv
<1>3. QED BY NoLandingSteps, <1>1, <1>2

(* Who moves base: others, or a landing, which ends the integration. *)
LEMMA BaseSteps ==
  ASSUME TypeOK, [Next]_vars, base' # base
  PROVE  \/ BaseMoves
         \/ \E p \in Proc : MoveBase(p) \/ MergeInWorktree(p)
<1> USE DEF Refs
<1>1. CASE Branches \/ EngineLife
  BY <1>1 DEF Branches, MergeWave, OrchMoves, Archive, EngineLife, Finalize,
              Settle, KillEngine, ResumeEngine
<1>2. ASSUME NEW p \in Proc, Open(p) \/ Decide(p) PROVE FALSE
  BY <1>2 DEF Open, ExistingGate, PinGate, SavePending, SaveEvidence, Reopen,
       RemoveGate, Decide, AutoLook, AutoScan, AutoDecide, ApproveRefused,
       ApproveLoad, ApproveSave, RejectLoad, RejectSave
<1>3. ASSUME NEW p \in Proc, CountStreak(p) PROVE FALSE
  BY <1>3 DEF CountStreak, LoadStreak, GrowStreak, SaveKind, GrowFails,
              ResetStreak, ResetFails, RemoveStreaks, RemoveFails, Rest
<1>4. ASSUME NEW p \in Proc, Land(p) PROVE MoveBase(p) \/ MergeInWorktree(p)
  BY <1>4 DEF Land, Integrate, Salvage, SalvageOpens, ChooseMode, ReadRefs,
              MergeFails
<1>5. CASE UNCHANGED vars
  BY <1>5 DEF vars
<1>6. QED BY <1>1, <1>2, <1>3, <1>4, <1>5 DEF Next

(* The orch branch never loses a commit, and moves in a step of its own. *)
LEMMA TipSteps ==
  ASSUME TypeOK, [Next]_vars
  PROVE  \/ tip' = tip
         \/ tip' = tip + 1 /\ UNCHANGED <<base, pc, view>>
<1> USE DEF Refs
<1>1. CASE Branches \/ EngineLife
  BY <1>1 DEF Branches, MergeWave, OrchMoves, BaseMoves, Archive, EngineLife,
              Finalize, Settle, KillEngine, ResumeEngine
<1>2. ASSUME NEW p \in Proc, Open(p) \/ Decide(p) PROVE tip' = tip
  BY <1>2 DEF Open, ExistingGate, PinGate, SavePending, SaveEvidence, Reopen,
       RemoveGate, Decide, AutoLook, AutoScan, AutoDecide, ApproveRefused,
       ApproveLoad, ApproveSave, RejectLoad, RejectSave
<1>3. ASSUME NEW p \in Proc, CountStreak(p) PROVE tip' = tip
  BY <1>3 DEF CountStreak, LoadStreak, GrowStreak, SaveKind, GrowFails,
              ResetStreak, ResetFails, RemoveStreaks, RemoveFails, Rest
<1>4. ASSUME NEW p \in Proc, Land(p) PROVE tip' = tip
  BY <1>4 DEF Land, Integrate, Salvage, SalvageOpens, ChooseMode, ReadRefs,
              MoveBase, MergeInWorktree, MergeFails
<1>5. CASE UNCHANGED vars
  BY <1>5 DEF vars
<1>6. QED BY <1>1, <1>2, <1>3, <1>4, <1>5 DEF Next

(* What a landing makes of base: all it had of the batch, and all of the     *)
(* batch that the integration was checked at, and nothing that orch has not. *)
LEMMA Landed ==
  ASSUME TypeOK, LandingIsOrch, NEW p \in Proc, MoveBase(p) \/ MergeInWorktree(p)
  PROVE  /\ base \cap Orch(MaxTip) \subseteq base'
         /\ base' \cap Orch(MaxTip) \subseteq Orch(tip)
         /\ view[p].what = "orch" =>
              view[p].checked \subseteq base' \cap Orch(tip)
         /\ pc[p] \in Landing /\ pc' = [pc EXCEPT ![p] = Home(p)]
         /\ \A q \in Proc \ {p} : view'[q] = view[q]
         /\ tip' = tip
<1> USE DEF TypeOK, LandingIsOrch
<1>1. CASE MoveBase(p)
  <2>1. /\ pc[p] = "cas" /\ base = view[p].base /\ base' = Merged(view[p])
        /\ pc' = [pc EXCEPT ![p] = Home(p)] /\ tip' = tip
        /\ \A q \in Proc \ {p} : view'[q] = view[q]
    BY <1>1 DEF MoveBase, Goto
  <2>2. view[p].tip \in Tip /\ view[p].what \in {"orch", "lane"}
    BY DEF View
  <2>3. /\ Orch(view[p].tip) \subseteq Orch(tip)
        /\ Orch(view[p].tip) \subseteq Orch(MaxTip)
    BY <2>1, <2>2, OrchCommits
  <2>4. CASE view[p].ff
    BY <2>1, <2>2, <2>3, <2>4 DEF Merged, Landing
  <2>5. CASE ~view[p].ff
    BY <2>1, <2>2, <2>3, <2>5, NotOrch DEF Merged, Landing
  <2>6. QED BY <2>4, <2>5
<1>2. CASE MergeInWorktree(p)
  BY <1>2, NotOrch DEF MergeInWorktree, Goto, Landing
<1>3. QED BY <1>1, <1>2

(* Who is about to move base has just read the refs, or had read them.       *)
LEMMA CasSteps ==
  ASSUME TypeOK, [Next]_vars, NEW q \in Proc, pc'[q] = "cas"
  PROVE  ReadRefs(q) \/ (pc[q] = "cas" /\ view'[q] = view[q])
<1> USE DEF TypeOK
<1>1. CASE Branches \/ UNCHANGED vars
  BY <1>1 DEF Branches, MergeWave, OrchMoves, BaseMoves, Archive, vars
<1>2. CASE EngineLife
  BY <1>2, Processes DEF EngineLife, Finalize, Settle, KillEngine, ResumeEngine, Goto
<1>3. ASSUME NEW p \in Proc, Open(p) PROVE pc[q] = "cas" /\ view'[q] = view[q]
  BY <1>3 DEF Open, ExistingGate, PinGate, SavePending, SaveEvidence, Reopen,
              RemoveGate, AfterOpen, Goto
<1>4. ASSUME NEW p \in Proc, Decide(p) PROVE pc[q] = "cas" /\ view'[q] = view[q]
  BY <1>4 DEF Decide, AutoLook, AutoScan, AutoDecide, ApproveRefused,
              ApproveLoad, ApproveSave, RejectLoad, RejectSave, Goto
<1>5. ASSUME NEW p \in Proc, CountStreak(p) PROVE pc[q] = "cas" /\ view'[q] = view[q]
  BY <1>5 DEF CountStreak, LoadStreak, GrowStreak, SaveKind, GrowFails,
              ResetStreak, ResetFails, RemoveStreaks, RemoveFails, Rest, Goto
<1>6. ASSUME NEW p \in Proc,
             \/ Integrate(p) \/ Salvage(p) \/ SalvageOpens(p) \/ MergeFails(p)
             \/ MoveBase(p) \/ MergeInWorktree(p) \/ ChooseMode(p)
      PROVE  pc[q] = "cas" /\ view'[q] = view[q]
  BY <1>6 DEF Integrate, Salvage, Look, SalvageOpens, MergeFails, MoveBase,
              MergeInWorktree, ChooseMode, Goto, Home
<1>7. ASSUME NEW p \in Proc, ReadRefs(p), p # q
      PROVE  pc[q] = "cas" /\ view'[q] = view[q]
  BY <1>7 DEF ReadRefs, Goto
<1>8. QED BY <1>1, <1>2, <1>3, <1>4, <1>5, <1>6, <1>7 DEF Next, Land

(* Every step keeps what is said of the revisions that integrations read. *)
LEMMA ReadStep ==
  ASSUME TypeOK, RecordInv, LandingIsOrch, [Next]_vars
  PROVE  LandingIsOrch'
<1> USE DEF TypeOK
<1>1. /\ tip \in Tip /\ tip' \in Tip /\ tip <= tip'
      /\ Orch(tip) \subseteq Orch(tip')
  <2>1. tip' \in Tip
    BY TypeStep
  <2>2. tip <= tip'
    BY TipSteps, GateAssumption DEF Tip
  <2>3. QED BY <2>1, <2>2, OrchCommits
<1>2. base' \cap Orch(MaxTip) \subseteq Orch(tip')
  <2>1. CASE base' = base
    BY <1>1, <2>1 DEF LandingIsOrch
  <2>2. CASE BaseMoves
    BY <1>1, <2>2, NotOrch DEF BaseMoves, LandingIsOrch
  <2>3. ASSUME NEW p \in Proc, MoveBase(p) \/ MergeInWorktree(p)
        PROVE  base' \cap Orch(MaxTip) \subseteq Orch(tip')
    BY <1>1, <2>3, Landed
  <2>4. QED BY <2>1, <2>2, <2>3, BaseSteps
<1>3. ASSUME NEW q \in Proc, pc'[q] \in Landing, view'[q].what = "orch"
      PROVE  view'[q].checked \subseteq Orch(tip')
  <2>1. CASE NoLanding
    <3>1. pc[q] \in Landing /\ view[q].what = "orch" /\ view'[q].checked = view[q].checked
      BY <1>3, <2>1 DEF NoLanding
    <3>2. QED BY <1>1, <3>1 DEF LandingIsOrch, Landing
  <2>2. ASSUME NEW p \in Proc, Integrate(p) \/ Salvage(p)
        PROVE  view'[q].checked \subseteq Orch(tip')
    <3>1. CASE p = q
      BY <1>1, <1>3, <2>2, <3>1, LandingBegins DEF RecordInv
    <3>2. CASE p # q
      <4>1. view'[q] = view[q] /\ pc'[q] = pc[q]
        BY <2>2, <3>2, LandingBegins DEF RecordInv
      <4>2. QED BY <1>1, <1>3, <4>1 DEF LandingIsOrch, Landing
    <3>3. QED BY <3>1, <3>2
  <2>3. QED BY <2>1, <2>2, NoLandingSteps
<1>4. ASSUME NEW q \in Proc, pc'[q] = "cas"
      PROVE  /\ view'[q].tip <= tip'
             /\ view'[q].base \cap Orch(MaxTip) \subseteq Orch(view'[q].tip)
             /\ view'[q].what = "orch" =>
                  view'[q].checked \subseteq Orch(view'[q].tip)
  <2>1. CASE ReadRefs(q)
    <3>1. /\ pc[q] = "refs" /\ tip' = tip
          /\ view'[q].base = base /\ view'[q].tip = tip
          /\ view'[q].what = view[q].what /\ view'[q].checked = view[q].checked
      BY <2>1 DEF ReadRefs, Goto, Refs, View
    <3>2. QED BY <1>1, <3>1 DEF LandingIsOrch, Tip
  <2>2. CASE pc[q] = "cas" /\ view'[q] = view[q]
    <3>1. view[q].tip <= tip /\ view[q].tip \in Tip
      BY <2>2 DEF LandingIsOrch, View
    <3>2. view[q].tip <= tip'
      BY <1>1, <3>1 DEF Tip
    <3>3. QED BY <2>2, <3>2 DEF LandingIsOrch
  <2>3. QED BY <1>4, <2>1, <2>2, CasSteps
<1>5. QED BY <1>2, <1>3, <1>4 DEF LandingIsOrch, Landing

(* The strengthening of the gate's properties that every step keeps. *)
THEOREM GateInvariant == Spec => []GateInv
<1>1. Init => GateInv
  <2> SUFFICES ASSUME Init PROVE GateInv
    OBVIOUS
  <2>1. NoView \in View /\ 0 \in Tip
    BY GateAssumption DEF NoView, View, Tip, Revision
  <2>2. 0 \in 0..MaxGates /\ 0 \in 0..AutoApproveAfterN
    BY GateAssumption
  <2>3. pc \in [Proc -> PC] /\ streak \in 0..AutoApproveAfterN
    BY GateAssumption DEF Init, PC
  <2>4. TypeOK
    BY <2>1, <2>2, <2>3 DEF Init, TypeOK, Revision
  <2>5. RecordInv
    BY DEF Init, RecordInv, HoldsRecord, Saving, HeldIsPending, UnsavedIsOwn,
           GateIsKnown, FinalIsOver
  <2>6. PassedIsApproved /\ LandingIsOrch
    BY DEF Init, PassedIsApproved, LandingIsOrch
  <2>7. QED BY <2>4, <2>5, <2>6 DEF GateInv
<1>2. GateInv /\ [Next]_vars => GateInv'
  BY TypeStep, RecordStep, PassedStep, ReadStep DEF GateInv
<1>3. QED BY <1>1, <1>2, PTL DEF Spec

(* Every variable of the gate protocol keeps its type. *)
THEOREM TypeCorrect == Spec => []TypeOK
<1>1. GateInv => TypeOK
  BY DEF GateInv
<1>2. QED BY <1>1, GateInvariant, PTL

(* Whatever is landed by integrate or salvage without force was let pass at  *)
(* a revision that some approval was given for; for an integrate it is one   *)
(* of the orch branch, which is on base from then on.                        *)
THEOREM LandedApproved == Spec => LandedWasApproved
<1> DEFINE Ok ==
  /\ \A p \in Proc : Lands(p) =>
       /\ GateRequired =>
            view[p].forced \/ view[p].checked \in approvedPins
       /\ view[p].what = "orch" =>
            view[p].checked \subseteq base' \cap Orch(tip)
  /\ base \cap Orch(MaxTip) \subseteq base'
<1>1. GateInv /\ [Next]_vars => [Ok]_vars
  <2> SUFFICES ASSUME GateInv, [Next]_vars PROVE Ok
    OBVIOUS
  <2> USE DEF GateInv
  <2>1. CASE base' = base
    BY <2>1 DEF Lands
  <2>2. CASE BaseMoves
    <3>1. base \subseteq base' /\ pc' = pc
      BY <2>2 DEF BaseMoves
    <3>2. QED BY <3>1 DEF Lands
  <2>3. ASSUME NEW p \in Proc, MoveBase(p) \/ MergeInWorktree(p) PROVE Ok
    <3>1. \A q \in Proc : Lands(q) => q = p
      BY <2>3, Landed DEF Lands, TypeOK
    <3>2. GateRequired => view[p].forced \/ view[p].checked \in approvedPins
      BY <2>3, Landed DEF PassedIsApproved, Landing
    <3>3. /\ base \cap Orch(MaxTip) \subseteq base'
          /\ view[p].what = "orch" =>
               view[p].checked \subseteq base' \cap Orch(tip)
      BY <2>3, Landed
    <3>4. QED BY <3>1, <3>2, <3>3
  <2>4. QED BY <2>1, <2>2, <2>3, BaseSteps
<1>2. QED BY <1>1, GateInvariant, PTL DEF Spec, LandedWasApproved

(* A gate whose rejection overlapped with nobody is never approved again. *)
THEOREM RejectedStays == Spec => []RejectionIsFinal
<1>1. GateInv => RejectionIsFinal
  BY DEF GateInv, RecordInv, FinalIsOver, RejectionIsFinal
<1>2. QED BY <1>1, GateInvariant, PTL

(* As long as the streak can be acted upon, because no journal says otherwise *)
(* or somebody has searched them before one did, it is never longer than the *)
(* approvals that earned it, nor is a count that is about to be written back *)
(* over no reset.                                                            *)
Trusted == ~unreliable \/ \E p \in Proc : pc[p] = "autoStreak"
StreakIsEarned ==
  Trusted => streak <= earned /\ \A p \in fresh : count[p] <= earned

(* One more keeps the order of two counts. *)
LEMMA OneMoreGrows ==
  \A m, n \in 0..AutoApproveAfterN :
    /\ m <= n => OneMore(m) <= OneMore(n)
    /\ n <= OneMore(n) /\ (m <= n => m <= OneMore(n))
  BY GateAssumption DEF OneMore

(* Counting keeps it. *)
LEMMA CountStep ==
  ASSUME TypeOK, TypeOK', StreakIsEarned, NEW p \in Proc, CountStreak(p)
  PROVE  StreakIsEarned'
<1> USE DEF TypeOK
<1>1. \A q \in Proc : pc'[q] = "autoStreak" => pc[q] = "autoStreak"
  BY DEF CountStreak, LoadStreak, GrowStreak, SaveKind, GrowFails, ResetStreak,
         ResetFails, RemoveStreaks, RemoveFails, Goto
<1>2. CASE earned' = AutoApproveAfterN
  <2>1. streak' \in 0..AutoApproveAfterN /\ fresh' \subseteq Proc
        /\ \A q \in Proc : count'[q] \in 0..AutoApproveAfterN
    OBVIOUS
  <2>2. QED BY <1>2, <2>1, GateAssumption DEF StreakIsEarned
<1>3. CASE RemoveFails(p) /\ earned' # AutoApproveAfterN
  <2>1. unreliable' = TRUE /\ ~ \E q \in Proc : pc[q] = "autoStreak"
    BY <1>3, Zenon DEF RemoveFails
  <2>2. QED BY <1>1, <2>1 DEF StreakIsEarned, Trusted
<1>4. SUFFICES ASSUME Trusted', earned' # AutoApproveAfterN, ~RemoveFails(p)
               PROVE  streak' <= earned' /\ \A q \in fresh' : count'[q] <= earned'
  BY <1>2, <1>3 DEF StreakIsEarned
<1>5. unreliable' = unreliable
  BY <1>4 DEF CountStreak, LoadStreak, GrowStreak, SaveKind, GrowFails,
              ResetStreak, ResetFails, RemoveStreaks
<1>6. streak <= earned /\ \A q \in fresh : count[q] <= earned
  BY <1>1, <1>4, <1>5 DEF StreakIsEarned, Trusted
<1>7. CASE LoadStreak(p)
  BY <1>6, <1>7 DEF LoadStreak
<1>8. CASE GrowStreak(p)
  <2>1. p \in fresh /\ earned' = OneMore(earned)
    BY <1>4, <1>8, Zenon DEF GrowStreak, Earn
  <2>2. /\ streak' = OneMore(count[p])
        /\ fresh' = fresh \ {p} /\ count' = [count EXCEPT ![p] = 0]
    BY <1>8 DEF GrowStreak, Unload
  <2>3. QED BY <1>6, <2>1, <2>2, OneMoreGrows
<1>9. CASE SaveKind(p)
  <2>1. p \in fresh /\ earned' = earned
    BY <1>4, <1>9, Zenon DEF SaveKind, Earn
  <2>2. /\ streak' = count[p]
        /\ fresh' = fresh \ {p} /\ count' = [count EXCEPT ![p] = 0]
    BY <1>9 DEF SaveKind, Unload
  <2>3. QED BY <1>6, <2>1, <2>2
<1>10. CASE GrowFails(p)
  <2>1. /\ streak' = streak /\ earned' \in {earned, OneMore(earned)}
        /\ fresh' = fresh \ {p} /\ count' = [count EXCEPT ![p] = 0]
    BY <1>10 DEF GrowFails, Unload
  <2>2. QED BY <1>6, <2>1, OneMoreGrows
<1>11. CASE ResetStreak(p) \/ RemoveStreaks(p)
  BY <1>6, <1>11 DEF ResetStreak, RemoveStreaks, Restart
<1>12. CASE ResetFails(p)
  <2>1. /\ streak' = streak /\ earned' = earned
        /\ \/ fresh' = fresh /\ count' = count
           \/ fresh' = fresh \ {p} /\ count' = [count EXCEPT ![p] = 0]
    BY <1>12 DEF ResetFails, Unload
  <2>2. QED BY <1>6, <2>1
<1>13. QED
  BY <1>4, <1>7, <1>8, <1>9, <1>10, <1>11, <1>12 DEF CountStreak

(* All other steps leave the streak alone, and only a search of the journals *)
(* that finds nothing goes on to read it.                                    *)
LEMMA OtherSteps ==
  ASSUME TypeOK, [Next]_vars, \A p \in Proc : ~CountStreak(p)
  PROVE  /\ UNCHANGED Streak
         /\ \A q \in Proc : pc'[q] = "autoStreak" =>
              pc[q] = "autoStreak" \/ ~unreliable
<1> USE DEF TypeOK
<1>1. CASE Branches \/ UNCHANGED vars
  BY <1>1 DEF Branches, MergeWave, OrchMoves, BaseMoves, Archive, vars
<1>2. CASE EngineLife
  BY <1>2 DEF EngineLife, Finalize, Settle, KillEngine, ResumeEngine, Goto
<1>3. ASSUME NEW p \in Proc, Open(p)
      PROVE  /\ UNCHANGED Streak
             /\ \A q \in Proc : pc'[q] = "autoStreak" => pc[q] = "autoStreak"
  BY <1>3 DEF Open, ExistingGate, PinGate, SavePending, SaveEvidence, Reopen,
              RemoveGate, AfterOpen, Goto, Streak
<1>4. ASSUME NEW p \in Proc, Decide(p)
      PROVE  /\ UNCHANGED Streak
             /\ \A q \in Proc : pc'[q] = "autoStreak" =>
                  pc[q] = "autoStreak" \/ ~unreliable
  <2>1. UNCHANGED Streak
    BY <1>4 DEF Decide, AutoLook, AutoScan, AutoDecide, ApproveRefused,
                ApproveLoad, ApproveSave, RejectLoad, RejectSave
  <2>2. CASE AutoScan(p)
    <3>1. unreliable => pc' = [pc EXCEPT ![p] = "idle"]
      BY <2>2, Zenon DEF AutoScan, Goto
    <3>2. pc' = [pc EXCEPT ![p] = "idle"] \/ pc' = [pc EXCEPT ![p] = "autoStreak"]
      BY <2>2 DEF AutoScan, Goto
    <3>3. QED BY <2>1, <3>1, <3>2
  <2>3. CASE ~AutoScan(p)
    BY <1>4, <2>1, <2>3 DEF Decide, AutoLook, AutoDecide, ApproveRefused,
                ApproveLoad, ApproveSave, RejectLoad, RejectSave, Goto
  <2>4. QED BY <2>2, <2>3
<1>5. ASSUME NEW p \in Proc, Land(p)
      PROVE  /\ UNCHANGED Streak
             /\ \A q \in Proc : pc'[q] = "autoStreak" => pc[q] = "autoStreak"
  BY <1>5 DEF Land, Integrate, Salvage, SalvageOpens, ChooseMode, ReadRefs,
              MoveBase, MergeInWorktree, MergeFails, Goto, Home, Streak
<1>6. QED BY <1>1, <1>2, <1>3, <1>4, <1>5 DEF Next

(* Every step keeps it. *)
LEMMA StreakStep ==
  ASSUME TypeOK, TypeOK', StreakIsEarned, [Next]_vars
  PROVE  StreakIsEarned'
<1>1. CASE \E p \in Proc : CountStreak(p)
  BY <1>1, CountStep
<1>2. CASE \A p \in Proc : ~CountStreak(p)
  <2>1. UNCHANGED Streak /\ (Trusted' => Trusted)
    BY <1>2, OtherSteps DEF Trusted, Streak
  <2>2. QED BY <2>1 DEF StreakIsEarned, Streak
<1>3. QED BY <1>1, <1>2

(* Only a streak that is long enough begins an automatic approval. *)
LEMMA AutoApprovals ==
  ASSUME TypeOK, [Next]_vars,
         NEW p \in Proc, pc[p] # "autoApprove", pc'[p] = "autoApprove"
  PROVE  pc[p] = "autoStreak" /\ streak >= AutoApproveAfterN
<1> USE DEF TypeOK
<1>1. ~(Branches \/ EngineLife \/ UNCHANGED vars)
  BY DEF Branches, MergeWave, OrchMoves, BaseMoves, Archive, EngineLife,
         Finalize, Settle, KillEngine, ResumeEngine, Goto, vars
<1>2. ASSUME NEW q \in Proc, Open(q) PROVE FALSE
  BY <1>2 DEF Open, ExistingGate, PinGate, SavePending, SaveEvidence, Reopen,
              RemoveGate, AfterOpen, Goto
<1>3. ASSUME NEW q \in Proc, Decide(q)
      PROVE  pc[p] = "autoStreak" /\ streak >= AutoApproveAfterN
  BY <1>3 DEF Decide, AutoLook, AutoScan, AutoDecide, ApproveRefused,
              ApproveLoad, ApproveSave, RejectLoad, RejectSave, Goto
<1>4. ASSUME NEW q \in Proc, CountStreak(q) PROVE FALSE
  BY <1>4 DEF CountStreak, LoadStreak, GrowStreak, SaveKind, GrowFails,
              ResetStreak, ResetFails, RemoveStreaks, RemoveFails, Goto
<1>5. ASSUME NEW q \in Proc, Land(q) PROVE FALSE
  BY <1>5 DEF Land, Integrate, Salvage, SalvageOpens, ChooseMode, ReadRefs,
              MoveBase, MergeInWorktree, MergeFails, Goto, Home
<1>6. QED BY <1>1, <1>2, <1>3, <1>4, <1>5 DEF Next

(* A gate is approved automatically only after AutoApproveAfterN approvals   *)
(* in a row since the last finished rejection, for any number of operators   *)
(* that load and write the streaks in any order and whatever error their     *)
(* file met.  Only a rejection whose reset was overwritten by an older count *)
(* or could not be made known in time does not begin anew.                   *)
THEOREM AutoIsEarned == Spec => AutoNeedsStreak
<1> DEFINE Earned ==
  \A p \in Proc : pc[p] # "autoApprove" /\ pc'[p] = "autoApprove"
    => earned >= AutoApproveAfterN
<1>1. Init => StreakIsEarned
  <2> SUFFICES ASSUME Init PROVE StreakIsEarned
    OBVIOUS
  <2>1. streak \in Nat /\ earned = streak /\ fresh = {}
    BY GateAssumption DEF Init
  <2>2. QED BY <2>1 DEF StreakIsEarned
<1>2. TypeOK /\ TypeOK' /\ StreakIsEarned /\ [Next]_vars => StreakIsEarned'
  BY StreakStep
<1>3. TypeOK /\ StreakIsEarned /\ [Next]_vars => [Earned]_vars
  <2> SUFFICES ASSUME TypeOK, StreakIsEarned, [Next]_vars,
                      NEW p \in Proc, pc[p] # "autoApprove",
                      pc'[p] = "autoApprove"
               PROVE  earned >= AutoApproveAfterN
    OBVIOUS
  <2>1. pc[p] = "autoStreak" /\ streak >= AutoApproveAfterN
    BY AutoApprovals
  <2>2. streak <= earned
    BY <2>1 DEF StreakIsEarned, Trusted
  <2>3. QED BY <2>1, <2>2, GateAssumption DEF TypeOK
<1>4. QED BY <1>1, <1>2, <1>3, TypeCorrect, PTL DEF Spec, AutoNeedsStreak

(* Whoever integrates or salvages, commits that others put on the base       *)
(* branch in between stay on it; the one way to lose them is the             *)
(* fast-forward that was chosen before base moved.                           *)
THEOREM BaseIsKept == Spec => KeepsBase
<1> DEFINE Kept ==
  \/ base \subseteq base'
  \/ \E p \in Proc : pc[p] = "cas" /\ view[p].ff
                      /\ ~(view[p].base \subseteq Orch(view[p].tip))
<1>1. TypeOK /\ [Next]_vars => [Kept]_vars
  <2> SUFFICES ASSUME TypeOK, [Next]_vars PROVE Kept
    OBVIOUS
  <2>1. CASE base' = base
    BY <2>1
  <2>2. ASSUME NEW p \in Proc, MoveBase(p) PROVE Kept
    <3>1. /\ pc[p] = "cas" /\ base = view[p].base
          /\ base' = Merged(view[p])
      BY <2>2 DEF MoveBase, Goto
    <3>2. CASE view[p].ff
      BY <3>1, <3>2 DEF Merged
    <3>3. CASE ~view[p].ff
      BY <3>1, <3>3 DEF Merged
    <3>4. QED BY <3>2, <3>3
  <2>3. CASE BaseMoves \/ \E p \in Proc : MergeInWorktree(p)
    BY <2>3 DEF BaseMoves, MergeInWorktree
  <2>4. QED BY <2>1, <2>2, <2>3, BaseSteps
<1>2. QED BY <1>1, TypeCorrect, PTL DEF Spec, KeepsBase

=============================================================================
