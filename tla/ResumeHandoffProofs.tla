------------------------ MODULE ResumeHandoffProofs ------------------------
(* What holds of the handoff of a batch for any set of resumes, attached or  *)
(* detached, typed at any moment: proofs about ResumeHandoff.                *)
EXTENDS ResumeHandoff, TLAPS, FiniteSetTheorems

Detached == Shell \ Attached

---------------------------------------------------------------------------
(* What a step of the model does, flat: the values of one process, of one    *)
(* file, and that the others keep theirs.                                    *)

Only(f, g, p, v) == g[p] = v /\ \A q \in Proc \ {p} : g[q] = f[q]
Is(m, phase, pid, left) ==
  m \in State /\ m.phase = phase /\ m.pid = pid /\ m.left = left
Moves(p, from, to) == pc[p] = from /\ Only(pc, pc', p, to)
Reads(p, m) == Only(mem, mem', p, m)

(* Who has read the state has it, and there is one; a resume that found none *)
(* has slipped.                                                              *)
HasRead == {"create", "fill", "holder", "drop", "own", "handoff", "limbo",
            "claim", "land", "prepare", "save", "spawn", "pid", "persist",
            "poll", "working", "exiting"}
MemFits ==
  \A p \in Proc :
    /\ pc[p] \in HasRead => mem[p] # NoState
    /\ mem[p] # NoState => disk # NoState
    /\ pc[p] = "check" /\ mem[p] = NoState => "lost" \in slips

Types == TypeOK /\ MemFits

(* The kinds of process.                                                     *)
LEMMA Procs ==
  /\ Shell \subseteq Proc /\ Spawned \subseteq Proc /\ Runner \subseteq Proc
  /\ Old \in Proc /\ Detached \subseteq Shell /\ Attached \subseteq Shell
  /\ Old \notin Runner /\ Old \notin Shell /\ Detached \cap Runner = {}
  /\ Proc = Detached \cup Runner \cup {Old} /\ Mortal \subseteq Proc
  BY HandoffAssumption DEF Proc, Runner, Detached

LEMMA Children ==
  /\ \A s \in Detached : Child(s) \in Spawned
  /\ \A s, r \in Detached : Child(s) = Child(r) => s = r
  /\ \A p \in Spawned : p[1] \in Detached /\ p = Child(p[1])
  BY DEF Spawned, Child, Detached

LEMMA States ==
  /\ \A m \in State : /\ m.phase \in Phase /\ m.pid \in Proc \cup {NoOne}
                      /\ m.left \in {"tasks", "merge", "none"} /\ m # NoState
  /\ \A m \in State, x \in Proc \cup {NoOne} :
       Is([m EXCEPT !.pid = x], m.phase, x, m.left)
  /\ \A m \in State, x \in Phase : Is([m EXCEPT !.phase = x], x, m.pid, m.left)
  /\ \A m \in State, x \in {"tasks", "merge", "none"} :
       Is([m EXCEPT !.left = x], m.phase, m.pid, x)
  /\ NoOne \notin Proc
<1>1. ASSUME NEW m \in State
      PROVE  /\ m.phase \in Phase /\ m.pid \in Proc \cup {NoOne}
             /\ m.left \in {"tasks", "merge", "none"} /\ m # NoState
  BY MarksAssumption DEF State
<1>2. ASSUME NEW m \in State, NEW x \in Proc \cup {NoOne}
      PROVE  Is([m EXCEPT !.pid = x], m.phase, x, m.left)
  BY DEF State, Is
<1>3. ASSUME NEW m \in State, NEW x \in Phase
      PROVE  Is([m EXCEPT !.phase = x], x, m.pid, m.left)
  BY DEF State, Is
<1>4. ASSUME NEW m \in State, NEW x \in {"tasks", "merge", "none"}
      PROVE  Is([m EXCEPT !.left = x], m.phase, m.pid, x)
  BY DEF State, Is
<1> QED
  BY <1>1, <1>2, <1>3, <1>4, HandoffAssumption

LEMMA GotoMoves ==
  ASSUME TypeOK, NEW p \in Proc, NEW from, NEW to \in PC, Goto(p, from, to)
  PROVE  pc' \in [Proc -> PC] /\ Moves(p, from, to)
  BY DEF TypeOK, Goto, Moves, Only

LEMMA KeepReads ==
  ASSUME TypeOK, NEW p \in Proc, NEW m \in State \cup {NoState}, Keep(p, m)
  PROVE  mem' \in [Proc -> State \cup {NoState}] /\ Reads(p, m)
  BY DEF TypeOK, Keep, Reads, Only

Kills(p, from, to, killed) ==
  /\ pc[p] = from /\ pc'[p] = to
  /\ \A q \in Proc \ {p} : pc'[q] = IF q \in killed THEN "dead" ELSE pc[q]

LEMMA StepKills ==
  ASSUME TypeOK, NEW p \in Proc, NEW from, NEW to \in PC, NEW killed,
         pc[p] = from, Step(p, to, killed)
  PROVE  pc' \in [Proc -> PC] /\ Kills(p, from, to, killed)
<1>1. "dead" \in PC
  BY DEF PC
<1> QED
  BY <1>1 DEF TypeOK, Step, Kills

(* The killed process is not the one that kills.                             *)
LEMMA KillIs ==
  ASSUME NEW p, NEW m, NEW phases, NEW q \in Kill(p, m, phases)
  PROVE  /\ q = m.pid /\ q # p /\ Alive(q) /\ q \in Proc
         /\ m.phase \in phases \/ Limbo(m)
  BY DEF Kill, Other, Alive

LEMMA AfterIs ==
  ASSUME NEW m \in State, NEW p, NEW killed
  PROVE  \/ /\ m.pid \in killed \/ (m.pid # p /\ ~Alive(m.pid))
            /\ Is(After(p, m, killed), m.phase, NoOne, m.left)
         \/ /\ ~(m.pid \in killed \/ (m.pid # p /\ ~Alive(m.pid)))
            /\ After(p, m, killed) = m
<1>1. Is([m EXCEPT !.pid = NoOne], m.phase, NoOne, m.left)
  BY States
<1> QED
  BY <1>1 DEF After

Writes(m) ==
  Is(disk', m.phase, IF m.phase \in TERMINAL_BATCH_PHASES THEN NoOne ELSE m.pid,
     m.left)

LEMMA WriteWrites ==
  ASSUME NEW m \in State, Write(m)
  PROVE  Writes(m) /\ newer' = Shell
<1>1. Is([m EXCEPT !.pid = NoOne], m.phase, NoOne, m.left)
  BY States
<1>2. disk' = Persisted(m) /\ newer' = Shell
  BY DEF Write
<1> QED
  BY <1>1, <1>2 DEF Persisted, Writes, Is

LEMMA SaveWrites ==
  ASSUME NEW p, NEW m \in State, Save(p, m), newer \subseteq Shell
  PROVE  /\ MayWrite(p) => Writes(m)
         /\ ~MayWrite(p) => disk' = disk
         /\ newer' \subseteq Shell
  BY WriteWrites DEF Save

Freed(p) ==
  IF lock # NoLock /\ lock.written /\ lock.pid = p
  THEN lock' = NoLock ELSE lock' = lock

LEMMA ReleaseFrees ==
  ASSUME NEW p, Release(p)
  PROVE  Freed(p)
  BY DEF Release, Released, Freed

(* The engine that m names is ended if its phase is one of these, and p goes *)
(* on with m, the pid of an engine that is gone dropped.                     *)
Ending(m, phases) == m.phase \in phases \/ Limbo(m)
Ends(p, m, phases, from, to) ==
  /\ pc[p] = from /\ pc'[p] = to
  /\ \A q \in Proc \ {p} :
       /\ mem'[q] = mem[q]
       /\ pc'[q] = IF q = m.pid /\ Alive(q) /\ Ending(m, phases)
                   THEN "dead" ELSE pc[q]
  /\ \/ m.pid = p /\ mem'[p] = m
     \/ m.pid # p /\ Is(mem'[p], m.phase,
                        IF Alive(m.pid) /\ ~Ending(m, phases)
                        THEN m.pid ELSE NoOne, m.left)

LEMMA StepEnds ==
  ASSUME TypeOK, NEW p \in Proc, NEW m \in State, NEW phases, NEW from,
         NEW to \in PC, pc[p] = from, Step(p, to, Kill(p, m, phases)),
         Keep(p, After(p, m, Kill(p, m, phases)))
  PROVE  /\ pc' \in [Proc -> PC] /\ mem' \in [Proc -> State \cup {NoState}]
         /\ mem'[p] \in State /\ Ends(p, m, phases, from, to)
<1> DEFINE killed == Kill(p, m, phases)
<1>1. pc' \in [Proc -> PC] /\ Kills(p, from, to, killed)
  BY StepKills
<1>2. \A q : q \in killed <=> q = m.pid /\ q # p /\ Alive(q) /\ Ending(m, phases)
  BY DEF Kill, Other, Ending
<1>3. After(p, m, killed) \in State
  BY AfterIs DEF Is
<1>4. mem' \in [Proc -> State \cup {NoState}] /\ Reads(p, After(p, m, killed))
  BY <1>3, KeepReads
<1>5. m.pid = p => After(p, m, killed) = m
  BY <1>2, AfterIs
<1>6. ASSUME m.pid # p
      PROVE  Is(After(p, m, killed), m.phase,
                IF Alive(m.pid) /\ ~Ending(m, phases) THEN m.pid ELSE NoOne, m.left)
  BY <1>2, <1>6, AfterIs DEF Is
<1>7. \A q \in Proc \ {p} :
        pc'[q] = IF q = m.pid /\ Alive(q) /\ Ending(m, phases) THEN "dead" ELSE pc[q]
  BY <1>1, <1>2 DEF Kills
<1> QED
  BY <1>1, <1>3, <1>4, <1>5, <1>6, <1>7 DEF Ends, Kills, Reads, Only

(* What is left to see of a step for its types.                              *)
Rest ==
  /\ disk' \in State \cup {NoState} /\ (disk # NoState => disk' # NoState)
  /\ lock' \in LockFile \cup {NoLock} /\ newer' \subseteq Shell
  /\ tries' \in [Proc -> {"first", "retry", "give up", "steal"}]
  /\ written' \subseteq Proc
  /\ report' \in [Shell -> {"none", "failed", "started", "completed", "timeout"}]
  /\ slips \subseteq slips' /\ slips' \subseteq {"lock", "reading", "limbo", "lost"}
MemFit(p) ==
  /\ pc[p] \in HasRead => mem[p] # NoState
  /\ mem[p] # NoState => disk # NoState
  /\ pc[p] = "check" /\ mem[p] = NoState => "lost" \in slips

LEMMA TypesKept ==
  ASSUME Types, NEW p \in Proc,
         pc' \in [Proc -> PC], mem' \in [Proc -> State \cup {NoState}],
         \A q \in Proc \ {p} :
           mem'[q] = mem[q] /\ pc'[q] \in {pc[q], "dead", "new"},
         MemFit(p)', Rest
  PROVE  Types'
<1>1. TypeOK'
  <2>1. ASSUME NEW q \in Proc, pc'[q] = "working" PROVE mem'[q] # NoState
    BY <2>1 DEF Types, MemFits, MemFit, HasRead
  <2> QED
    BY <2>1 DEF TypeOK, Rest
<1>2. MemFits'
  <2>1. ASSUME NEW q \in Proc, q # p PROVE MemFit(q)'
    BY <2>1 DEF Types, MemFits, MemFit, HasRead, Rest
  <2> QED
    BY <2>1 DEF MemFits, MemFit
<1> QED
  BY <1>1, <1>2 DEF Types

LEMMA LoadIs ==
  ASSUME Types, NEW p \in Shell \cup Spawned, Load(p)
  PROVE  /\ Types'
         /\ p \in Spawned /\ Timely => pc[p[1]] \notin {"pid", "persist"}
         /\ Moves(p, "new", "loaded") /\ Reads(p, disk)
         /\ disk' = disk /\ lock' = lock /\ slips' = slips
<1>1. p \in Proc
  BY Procs
<1>2. pc' \in [Proc -> PC] /\ Moves(p, "new", "loaded")
  BY <1>1, GotoMoves DEF Load, Types, PC
<1>3. mem' \in [Proc -> State \cup {NoState}] /\ Reads(p, disk)
  BY <1>1, KeepReads DEF Load, Types, TypeOK
<1>4. UNCHANGED <<disk, lock, slips, newer, tries, report, written>>
  BY DEF Load, Notes
<1>5. Rest
  BY <1>1, <1>2, <1>3, <1>4 DEF Types, TypeOK, Rest
<1>6. MemFit(p)'
  BY <1>1, <1>2, <1>3, <1>4, <1>5
  DEF Types, MemFits, MemFit, HasRead, Moves, Reads, Only
<1>7. Types'
  BY <1>1, <1>2, <1>3, <1>4, <1>5, <1>6, TypesKept DEF Types, TypeOK, Moves, Reads, Only
<1> QED
  BY <1>1, <1>2, <1>3, <1>4, <1>7 DEF Load

LEMMA CheckOwnerIs ==
  ASSUME Types, NEW p \in Shell \cup Spawned, CheckOwner(p)
  PROVE  /\ Types'
         /\ \/ /\ Moves(p, "loaded", "check") /\ mem[p] = NoState
               /\ slips' = slips \cup {"lost"}
            \/ /\ Moves(p, "loaded", "check") /\ mem[p] \in State
               /\ mem[p].pid = p /\ slips' = slips
            \/ /\ Moves(p, "loaded", "refused") /\ slips' = slips
            \/ /\ Moves(p, "loaded", "create") /\ mem[p] \in State
               /\ mem[p].pid # p /\ slips' = slips
               /\ mem[p].phase = "running" /\ mem[p].left = "tasks"
                  => ~Alive(mem[p].pid)
         /\ disk' = disk /\ lock' = lock /\ mem' = mem
<1> DEFINE busy == /\ Other(p, mem[p]) /\ mem[p].phase = "running"
                   /\ mem[p].left = "tasks"
           to == IF mem[p] = NoState THEN "check"
                 ELSE IF mem[p].pid = p THEN "check"
                 ELSE IF busy THEN "refused" ELSE "create"
<1>1. p \in Proc /\ to \in PC
  BY Procs DEF PC
<1>2. pc' \in [Proc -> PC] /\ Moves(p, "loaded", to)
  BY <1>1, GotoMoves DEF CheckOwner, Types
<1>3. UNCHANGED <<disk, lock, mem, newer, tries, report, written>>
  BY DEF CheckOwner
<1>4. slips' = slips \cup {x \in {"lost"} : mem[p] = NoState}
  BY DEF CheckOwner
<1>5. mem[p] \in State \cup {NoState}
  BY <1>1 DEF Types, TypeOK
<1>6. Rest
  BY <1>3, <1>4 DEF Types, TypeOK, Rest
<1>7. MemFit(p)'
  BY <1>1, <1>2, <1>3, <1>4 DEF Types, MemFits, MemFit, HasRead, Moves, Only
<1>8. Types'
  BY <1>1, <1>2, <1>3, <1>6, <1>7, TypesKept DEF Types, TypeOK, Moves, Only
<1>9. mem[p] = NoState => slips' = slips \cup {"lost"}
  BY <1>4
<1>10. mem[p] # NoState => slips' = slips
  BY <1>4
<1> HIDE DEF busy
<1>11. busy \/ (mem[p].phase = "running" /\ mem[p].left = "tasks" /\ mem[p].pid # p
               => ~Alive(mem[p].pid))
  BY DEF busy, Other
<1> QED
  BY <1>2, <1>3, <1>5, <1>8, <1>9, <1>10, <1>11

LEMMA CreateLockIs ==
  ASSUME Types, NEW p \in Shell \cup Spawned, CreateLock(p)
  PROVE  /\ Types'
         /\ lock = NoLock /\ Moves(p, "create", "fill")
         /\ lock' = [pid |-> p, written |-> FALSE]
         /\ disk' = disk /\ mem' = mem /\ slips' = slips
<1>1. p \in Proc
  BY Procs
<1>2. pc' \in [Proc -> PC] /\ Moves(p, "create", "fill")
  BY <1>1, GotoMoves DEF CreateLock, Types, PC
<1>3. UNCHANGED <<disk, mem, slips, newer, tries, report, written>>
  BY DEF CreateLock, Notes
<1>4. Rest
  BY <1>1, <1>2, <1>3 DEF Types, TypeOK, Rest, CreateLock, LockFile
<1>5. MemFit(p)'
  BY <1>1, <1>2, <1>3, <1>4 DEF Types, MemFits, MemFit, HasRead, Moves, Reads, Only
<1>6. Types'
  BY <1>1, <1>2, <1>3, <1>4, <1>5, TypesKept DEF Types, TypeOK, Moves, Reads, Only
<1> QED
  BY <1>1, <1>2, <1>3, <1>6 DEF CreateLock

LEMMA LockExistsIs ==
  ASSUME Types, NEW p \in Shell \cup Spawned, LockExists(p)
  PROVE  /\ Types'
         /\ \E to \in {"refused", "holder"} : Moves(p, "create", to)
         /\ disk' = disk /\ lock' = lock /\ mem' = mem /\ slips' = slips
<1>1. p \in Proc
  BY Procs
<1>2. pc' \in [Proc -> PC] /\ \E to \in {"refused", "holder"} : Moves(p, "create", to)
  BY <1>1, GotoMoves DEF LockExists, Types, PC
<1>3. UNCHANGED <<disk, lock, mem, slips, newer, tries, report, written>>
  BY DEF LockExists, Notes
<1>4. Rest
  BY <1>1, <1>2, <1>3 DEF Types, TypeOK, Rest
<1>5. MemFit(p)'
  BY <1>1, <1>2, <1>3, <1>4 DEF Types, MemFits, MemFit, HasRead, Moves, Reads, Only
<1>6. Types'
  BY <1>1, <1>2, <1>3, <1>4, <1>5, TypesKept DEF Types, TypeOK, Moves, Reads, Only
<1> QED
  BY <1>1, <1>2, <1>3, <1>6 DEF LockExists

LEMMA ReadHolderIs ==
  ASSUME Types, NEW p \in Shell \cup Spawned, ReadHolder(p)
  PROVE  /\ Types'
         /\ \E to \in {"refused", "drop"} : Moves(p, "holder", to)
         /\ disk' = disk /\ lock' = lock /\ mem' = mem /\ slips' = slips
<1>1. p \in Proc
  BY Procs
<1>2. pc' \in [Proc -> PC] /\ \E to \in {"refused", "drop"} : Moves(p, "holder", to)
  BY <1>1, GotoMoves DEF ReadHolder, Types, PC
<1>3. UNCHANGED <<disk, lock, mem, newer, report, written, slips>>
  BY DEF ReadHolder, Notes
<1>4. Rest
  BY <1>1, <1>2, <1>3 DEF Types, TypeOK, Rest, ReadHolder
<1>5. MemFit(p)'
  BY <1>1, <1>2, <1>3, <1>4 DEF Types, MemFits, MemFit, HasRead, Moves, Reads, Only
<1>6. Types'
  BY <1>1, <1>2, <1>3, <1>4, <1>5, TypesKept DEF Types, TypeOK, Moves, Reads, Only
<1> QED
  BY <1>1, <1>2, <1>3, <1>6 DEF ReadHolder

LEMMA FillLockIs ==
  ASSUME Types, NEW p \in Shell \cup Spawned, FillLock(p)
  PROVE  /\ Types'
         /\ Moves(p, "fill", "own")
         /\ lock' = IF lock = [pid |-> p, written |-> FALSE]
                    THEN [pid |-> p, written |-> TRUE] ELSE lock
         /\ disk' = disk /\ mem' = mem /\ slips' = slips
<1>1. p \in Proc
  BY Procs
<1>2. pc' \in [Proc -> PC] /\ Moves(p, "fill", "own")
  BY <1>1, GotoMoves DEF FillLock, Types, PC
<1>3. UNCHANGED <<disk, mem, slips, newer, tries, report, written>>
  BY DEF FillLock, Notes
<1>4. Rest
  BY <1>1, <1>2, <1>3 DEF Types, TypeOK, Rest, FillLock, LockFile
<1>5. MemFit(p)'
  BY <1>1, <1>2, <1>3, <1>4 DEF Types, MemFits, MemFit, HasRead, Moves, Reads, Only
<1>6. Types'
  BY <1>1, <1>2, <1>3, <1>4, <1>5, TypesKept DEF Types, TypeOK, Moves, Reads, Only
<1> QED
  BY <1>1, <1>2, <1>3, <1>6 DEF FillLock

LEMMA DropLockIs ==
  ASSUME Types, NEW p \in Shell \cup Spawned, DropLock(p)
  PROVE  /\ Types'
         /\ \E to \in {"refused", "create"} : Moves(p, "drop", to)
         /\ lock' = NoLock
         /\ slips' = {} => lock = NoLock \/ ~Alive(lock.pid)
         /\ disk' = disk /\ mem' = mem /\ slips \subseteq slips'
<1>1. p \in Proc
  BY Procs
<1>2. pc' \in [Proc -> PC] /\ \E to \in {"refused", "create"} : Moves(p, "drop", to)
  BY <1>1, GotoMoves DEF DropLock, Types, PC
<1>3. UNCHANGED <<disk, mem, newer, tries, report, written>>
  BY DEF DropLock, Notes
<1>4. Rest
  BY <1>1, <1>2, <1>3 DEF Types, TypeOK, Rest, DropLock
<1>5. MemFit(p)'
  BY <1>1, <1>2, <1>3, <1>4 DEF Types, MemFits, MemFit, HasRead, Moves, Reads, Only
<1>6. Types'
  BY <1>1, <1>2, <1>3, <1>4, <1>5, TypesKept DEF Types, TypeOK, Moves, Reads, Only
<1> QED
  BY <1>1, <1>2, <1>3, <1>6 DEF DropLock

LEMMA TakeOverIs ==
  ASSUME Types, NEW p \in Shell \cup Spawned, TakeOver(p)
  PROVE  /\ Types'
         /\ mem[p] \in State /\ disk \in State
         /\ \/ /\ Other(p, mem[p])
               /\ Ends(p, mem[p], {"paused", "failed", "running"}, "own", "handoff")
               /\ slips' = {} => mem[p] = disk
            \/ Moves(p, "own", "check") /\ mem' = mem
         /\ pc'[p] = "check" => ~Other(p, mem[p])
         /\ disk' = disk /\ lock' = lock /\ slips \subseteq slips'
<1> DEFINE phases == {"paused", "failed", "running"}
           killed == Kill(p, mem[p], phases)
<1>1. p \in Proc /\ pc[p] = "own"
  BY Procs DEF TakeOver
<1>2. mem[p] \in State /\ disk \in State
  BY <1>1 DEF Types, TypeOK, MemFits, HasRead
<1>3. UNCHANGED <<disk, lock, newer, tries, report, written>>
  BY DEF TakeOver
<1>4. slips' = slips \cup {x \in {"reading"} : Other(p, mem[p]) /\ mem[p] # disk}
  BY DEF TakeOver
<1>5. Rest
  BY <1>3, <1>4 DEF Types, TypeOK, Rest
<1>6. CASE Other(p, mem[p])
  <2>1. Step(p, "handoff", killed) /\ Keep(p, After(p, mem[p], killed))
    BY <1>6 DEF TakeOver
  <2>2. /\ pc' \in [Proc -> PC] /\ mem' \in [Proc -> State \cup {NoState}]
        /\ mem'[p] \in State /\ Ends(p, mem[p], phases, "own", "handoff")
    BY <1>1, <1>2, <2>1, StepEnds DEF Types, PC
  <2>3. MemFit(p)'
    BY <1>2, <1>3, <2>2, MarksAssumption DEF MemFit, Ends
  <2>4. Types'
    BY <1>1, <1>5, <2>2, <2>3, TypesKept DEF Ends
  <2> QED
    <3>1. pc'[p] # "check"
      BY <2>2 DEF Ends
    <3> QED
      BY <1>2, <1>3, <1>4, <1>6, <2>2, <2>4, <3>1
<1>7. CASE ~Other(p, mem[p])
  <2>1. killed = {}
    BY <1>7 DEF Kill
  <2>2. Step(p, "check", {}) /\ Keep(p, mem[p])
    BY <1>7, <2>1 DEF TakeOver
  <2>3. pc' \in [Proc -> PC] /\ Moves(p, "own", "check")
    BY <1>1, <2>2, StepKills DEF Types, PC, Kills, Moves, Only
  <2>4. mem' = mem
    BY <1>1, <2>2 DEF Keep, Types, TypeOK
  <2>5. MemFit(p)'
    BY <1>2, <1>3, <2>3, <2>4, MarksAssumption DEF MemFit, Moves, Only
  <2>6. Types'
    BY <1>1, <1>5, <2>3, <2>4, <2>5, TypesKept DEF Types, TypeOK, Moves, Only
  <2> QED
    BY <1>2, <1>3, <1>4, <1>7, <2>3, <2>4, <2>6
<1> QED
  BY <1>6, <1>7

LEMMA SaveHandoffIs ==
  ASSUME Types, NEW p \in Shell \cup Spawned, SaveHandoff(p)
  PROVE  /\ Types'
         /\ mem[p] \in State /\ disk \in State
         /\ Moves(p, "handoff", "check") /\ Writes(mem[p])
         /\ slips' = {} => Is(mem[p], disk.phase, NoOne, disk.left)
         /\ lock' = lock /\ mem' = mem /\ slips \subseteq slips'
<1>1. p \in Proc /\ "check" \in PC
  BY Procs DEF PC
<1>2. pc' \in [Proc -> PC] /\ Moves(p, "handoff", "check")
  BY <1>1, GotoMoves DEF SaveHandoff, Types
<1>3. mem[p] \in State /\ disk \in State
  BY <1>1, <1>2 DEF Types, TypeOK, MemFits, HasRead, Moves
<1>4. Writes(mem[p]) /\ newer' = Shell
  BY <1>3, WriteWrites DEF SaveHandoff
<1>5. UNCHANGED <<lock, mem, tries, report, written>>
  BY DEF SaveHandoff
<1>6. slips' = slips \cup {x \in {"reading"} : [disk EXCEPT !.pid = NoOne] # mem[p]}
  BY DEF SaveHandoff
<1>7. Is([disk EXCEPT !.pid = NoOne], disk.phase, NoOne, disk.left)
  BY <1>3, States
<1>8. slips' = {} => Is(mem[p], disk.phase, NoOne, disk.left)
  BY <1>6, <1>7
<1>9. Rest
  BY <1>3, <1>4, <1>5, <1>6, MarksAssumption DEF Types, TypeOK, Rest, Writes, Is
<1>10. MemFit(p)'
  BY <1>2, <1>3, <1>5, <1>9, MarksAssumption DEF MemFit, Rest, Moves, Only
<1>11. Types'
  BY <1>1, <1>2, <1>5, <1>9, <1>10, TypesKept DEF Types, TypeOK, Moves, Only
<1> QED
  BY <1>2, <1>3, <1>4, <1>5, <1>6, <1>8, <1>11

LEMMA ReconstructIs ==
  ASSUME Types, NEW p \in Shell \cup Spawned, Reconstruct(p)
  PROVE  /\ Types'
         /\ pc[p] = "check" /\ disk = NoState /\ disk' \in State
         /\ disk'.phase = "failed" /\ disk'.pid = NoOne
         /\ pc' = pc /\ lock' = lock /\ mem' = mem /\ slips' = slips
<1>1. p \in Proc
  BY Procs
<1>2. PICK left \in {"tasks", "merge"} :
        Write([phase |-> "failed", pid |-> NoOne, left |-> left])
  BY DEF Reconstruct
<1> DEFINE m == [phase |-> "failed", pid |-> NoOne, left |-> left]
<1>3. Is(m, "failed", NoOne, left)
  BY DEF Is, State, Phase
<1>4. Writes(m) /\ newer' = Shell
  BY <1>2, <1>3, WriteWrites DEF Is
<1>5. disk' \in State /\ disk'.phase = "failed" /\ disk'.pid = NoOne
  BY <1>3, <1>4 DEF Writes, Is
<1>6. pc[p] = "check" /\ disk = NoState
  BY DEF Reconstruct
<1>7. UNCHANGED <<pc, lock, mem, tries, report, written, slips>>
  BY DEF Reconstruct, Notes
<1>8. Rest
  BY <1>4, <1>5, <1>7, MarksAssumption DEF Types, TypeOK, Rest
<1>9. MemFit(p)'
  BY <1>1, <1>7, <1>8 DEF Types, MemFits, MemFit, Rest
<1>10. Types'
  BY <1>1, <1>7, <1>8, <1>9, TypesKept DEF Types, TypeOK
<1> QED
  BY <1>5, <1>6, <1>7, <1>10

LEMMA ValidateIs ==
  ASSUME Types, NEW p \in Shell \cup Spawned, Validate(p)
  PROVE  /\ Types'
         /\ disk \in State /\ Acceptable(disk) /\ Reads(p, disk)
         /\ disk.phase = "completed" => p \notin Runner
         /\ \/ Limbo(disk) /\ Moves(p, "check", "limbo")
            \/ ~Limbo(disk) /\ Moves(p, "check", "prepare")
         /\ disk' = disk /\ lock' = lock /\ slips' = slips
<1> DEFINE to == IF Limbo(disk) THEN "limbo" ELSE "prepare"
<1>1. p \in Proc /\ to \in PC
  BY Procs DEF PC
<1>2. pc' \in [Proc -> PC] /\ Moves(p, "check", to)
  BY <1>1, GotoMoves DEF Validate, Types
<1>3. disk \in State
  BY DEF Validate, Types, TypeOK
<1>4. mem' \in [Proc -> State \cup {NoState}] /\ Reads(p, disk)
  BY <1>1, <1>3, KeepReads DEF Validate, Types
<1>5. UNCHANGED <<disk, lock, tries, report, written, slips>>
  BY DEF Validate, Notes
<1>6. newer' \subseteq newer
  BY DEF Validate
<1>7. Rest
  BY <1>5, <1>6 DEF Types, TypeOK, Rest
<1>8. MemFit(p)'
  BY <1>2, <1>3, <1>4, <1>5, MarksAssumption DEF MemFit, Moves, Reads, Only
<1>9. Types'
  BY <1>1, <1>2, <1>4, <1>7, <1>8, TypesKept DEF Moves, Reads, Only
<1>10. Acceptable(disk) /\ (disk.phase = "completed" => p \notin Runner)
  BY DEF Validate
<1> QED
  BY <1>2, <1>3, <1>4, <1>5, <1>9, <1>10

LEMMA ReopenGateIs ==
  ASSUME Types, NEW p \in Shell \cup Spawned, ReopenGate(p)
  PROVE  /\ Types'
         /\ p \in Runner /\ disk \in State /\ disk.phase = "completed"
         /\ Moves(p, "check", "done") /\ Freed(p)
         /\ disk' = disk \/ Is(disk', "completed", NoOne, disk.left)
         /\ mem' = mem /\ slips' = slips
<1>1. p \in Proc /\ "done" \in PC
  BY Procs DEF PC
<1>2. pc' \in [Proc -> PC] /\ Moves(p, "check", "done")
  BY <1>1, GotoMoves DEF ReopenGate, Types
<1>3. disk \in State /\ disk.phase = "completed" /\ p \in Runner
  BY DEF ReopenGate, Types, TypeOK
<1>4. (disk' = disk \/ Writes(disk)) /\ newer' \subseteq Shell
  BY <1>3, SaveWrites DEF ReopenGate, Types, TypeOK
<1>5. disk' = disk \/ Is(disk', "completed", NoOne, disk.left)
  BY <1>3, <1>4 DEF Writes, TERMINAL_BATCH_PHASES
<1>6. Freed(p)
  BY ReleaseFrees DEF ReopenGate
<1>7. UNCHANGED <<mem, tries, report, written, slips>>
  BY DEF ReopenGate, Notes
<1>8. Rest
  BY <1>3, <1>4, <1>5, <1>6, <1>7, MarksAssumption DEF Types, TypeOK, Rest, Is, Freed
<1>9. MemFit(p)'
  BY <1>1, <1>2, <1>7, <1>8 DEF Types, MemFits, MemFit, HasRead, Moves, Only, Rest
<1>10. Types'
  BY <1>1, <1>2, <1>7, <1>8, <1>9, TypesKept DEF Types, TypeOK, Moves, Only
<1> QED
  BY <1>2, <1>3, <1>5, <1>6, <1>7, <1>10

LEMMA RefuseIs ==
  ASSUME Types, NEW p \in Shell \cup Spawned, Refuse(p)
  PROVE  /\ Types' /\ Moves(p, "check", "refused") /\ Freed(p)
         /\ disk' = disk /\ mem' = mem /\ slips' = slips
<1>1. p \in Proc /\ "refused" \in PC
  BY Procs DEF PC
<1>2. pc' \in [Proc -> PC] /\ Moves(p, "check", "refused")
  BY <1>1, GotoMoves DEF Refuse, Types
<1>3. Freed(p)
  BY ReleaseFrees DEF Refuse
<1>4. UNCHANGED <<disk, mem, newer, tries, report, written, slips>>
  BY DEF Refuse, Notes
<1>5. Rest
  BY <1>3, <1>4 DEF Types, TypeOK, Rest, Freed
<1>6. MemFit(p)'
  BY <1>1, <1>2, <1>4 DEF Types, MemFits, MemFit, HasRead, Moves, Only
<1>7. Types'
  BY <1>1, <1>2, <1>4, <1>5, <1>6, TypesKept DEF Types, TypeOK, Moves, Only
<1> QED
  BY <1>2, <1>3, <1>4, <1>7

LEMMA TakeOverLimboIs ==
  ASSUME Types, NEW p \in Shell \cup Spawned, TakeOverLimbo(p)
  PROVE  /\ Types' /\ disk \in State
         /\ disk.phase = "completed" => p \in Runner
         /\ Ends(p, disk, {"paused", "failed"}, "limbo", "claim")
         /\ disk' = disk /\ lock' = lock /\ slips' = slips
<1> DEFINE killed == Kill(p, disk, {"paused", "failed"})
<1>1. /\ p \in Proc /\ pc[p] = "limbo"
      /\ disk.phase = "completed" => p \in Runner
      /\ Step(p, "claim", killed) /\ Keep(p, After(p, disk, killed))
  BY Procs DEF TakeOverLimbo
<1>2. disk \in State
  BY <1>1 DEF Types, TypeOK, MemFits, HasRead
<1>3. /\ pc' \in [Proc -> PC] /\ mem' \in [Proc -> State \cup {NoState}]
      /\ mem'[p] \in State /\ Ends(p, disk, {"paused", "failed"}, "limbo", "claim")
  BY <1>1, <1>2, StepEnds DEF Types, PC
<1>4. UNCHANGED <<disk, lock, newer, tries, report, written, slips>>
  BY DEF TakeOverLimbo, Notes
<1>5. Rest
  BY <1>4 DEF Types, TypeOK, Rest
<1>6. MemFit(p)'
  BY <1>2, <1>3, <1>4, MarksAssumption DEF MemFit, Ends
<1>7. Types'
  BY <1>1, <1>3, <1>5, <1>6, TypesKept DEF Ends
<1> QED
  BY <1>1, <1>2, <1>3, <1>4, <1>7

LEMMA MissLimboIs ==
  ASSUME Types, NEW p \in Shell \cup Spawned, MissLimbo(p)
  PROVE  /\ Types' /\ disk \in State
         /\ \/ /\ Moves(p, "limbo", "prepare") /\ lock' = lock
               /\ slips' = slips \cup {"limbo"}
            \/ Moves(p, "limbo", "refused") /\ Freed(p) /\ slips' = slips
         /\ disk' = disk /\ mem' = mem
<1>1. p \in Proc /\ "prepare" \in PC /\ "refused" \in PC
  BY Procs DEF PC
<1>2. disk \in State
  BY DEF MissLimbo, Types, TypeOK
<1>3. UNCHANGED <<disk, mem, newer, tries, report, written>>
  BY DEF MissLimbo
<1>4. \/ /\ pc' \in [Proc -> PC] /\ Moves(p, "limbo", "prepare")
         /\ lock' = lock /\ slips' = slips \cup {"limbo"}
      \/ /\ pc' \in [Proc -> PC] /\ Moves(p, "limbo", "refused")
         /\ Freed(p) /\ slips' = slips
  BY <1>1, GotoMoves, ReleaseFrees DEF MissLimbo, Types
<1>5. Rest
  BY <1>3, <1>4 DEF Types, TypeOK, Rest, Freed
<1>6. MemFit(p)'
  BY <1>1, <1>3, <1>4 DEF Types, MemFits, MemFit, HasRead, Moves, Only
<1>7. Types'
  BY <1>1, <1>3, <1>4, <1>5, <1>6, TypesKept DEF Types, TypeOK, Moves, Only
<1> QED
  BY <1>2, <1>3, <1>4, <1>7

LEMMA ClaimLimboIs ==
  ASSUME Types, NEW p \in Shell \cup Spawned, ClaimLimbo(p)
  PROVE  /\ Types' /\ mem[p] \in State /\ disk \in State
         /\ Moves(p, "claim", "land")
         /\ Is(disk', mem[p].phase, NoOne, mem[p].left)
         /\ lock' = lock /\ mem' = mem /\ slips' = slips
<1>1. p \in Proc /\ "land" \in PC
  BY Procs DEF PC
<1>2. pc' \in [Proc -> PC] /\ Moves(p, "claim", "land")
  BY <1>1, GotoMoves DEF ClaimLimbo, Types
<1>3. mem[p] \in State /\ disk \in State
  BY <1>1, <1>2 DEF Types, TypeOK, MemFits, HasRead, Moves
<1> DEFINE m == [mem[p] EXCEPT !.pid = NoOne]
<1>4. Is(m, mem[p].phase, NoOne, mem[p].left)
  BY <1>3, States
<1>5. Writes(m) /\ newer' = Shell
  BY <1>4, WriteWrites DEF ClaimLimbo, Is
<1>6. Is(disk', mem[p].phase, NoOne, mem[p].left)
  BY <1>4, <1>5 DEF Writes, Is
<1>7. UNCHANGED <<lock, mem, tries, report, written, slips>>
  BY DEF ClaimLimbo, Notes
<1>8. Rest
  BY <1>5, <1>6, <1>7, MarksAssumption DEF Types, TypeOK, Rest, Is
<1>9. MemFit(p)'
  BY <1>2, <1>3, <1>7, <1>8, MarksAssumption DEF MemFit, Rest, Moves, Only
<1>10. Types'
  BY <1>1, <1>2, <1>7, <1>8, <1>9, TypesKept DEF Types, TypeOK, Moves, Only
<1> QED
  BY <1>2, <1>3, <1>6, <1>7, <1>10

LEMMA LandLimboIs ==
  ASSUME Types, NEW p \in Shell \cup Spawned, LandLimbo(p)
  PROVE  /\ Types' /\ disk \in State
         /\ Moves(p, "land", "done") /\ Freed(p)
         /\ Is(disk', "completed", NoOne, mem[p].left)
         /\ mem' = mem /\ slips' = slips
<1>1. p \in Proc /\ "done" \in PC
  BY Procs DEF PC
<1>2. pc' \in [Proc -> PC] /\ Moves(p, "land", "done")
  BY <1>1, GotoMoves DEF LandLimbo, Types
<1>3. mem[p] \in State /\ disk \in State
  BY <1>1, <1>2 DEF Types, TypeOK, MemFits, HasRead, Moves
<1> DEFINE m == [mem[p] EXCEPT !.phase = "completed"]
<1>4. Is(m, "completed", mem[p].pid, mem[p].left)
  BY <1>3, States DEF Phase
<1>5. Writes(m) /\ newer' = Shell
  BY <1>4, WriteWrites DEF LandLimbo, Is
<1>6. Is(disk', "completed", NoOne, mem[p].left)
  BY <1>4, <1>5 DEF Writes, Is, TERMINAL_BATCH_PHASES
<1>7. UNCHANGED <<mem, tries, report, written, slips>>
  BY DEF LandLimbo, Notes
<1>8. Freed(p)
  BY ReleaseFrees DEF LandLimbo
<1>9. Rest
  BY <1>5, <1>6, <1>7, <1>8, MarksAssumption DEF Types, TypeOK, Rest, Is, Freed
<1>10. MemFit(p)'
  BY <1>2, <1>3, <1>7, <1>9, MarksAssumption DEF MemFit, Rest, Moves, Only
<1>11. Types'
  BY <1>1, <1>2, <1>7, <1>9, <1>10, TypesKept DEF Types, TypeOK, Moves, Only
<1> QED
  BY <1>2, <1>3, <1>6, <1>7, <1>8, <1>11

LEMMA PrepareIs ==
  ASSUME Types, NEW p \in Shell \cup Spawned, Prepare(p)
  PROVE  /\ Types' /\ mem[p] \in State /\ disk \in State
         /\ \/ /\ p \in Runner /\ mem[p].phase = "running"
               /\ Moves(p, "prepare", "save") /\ Reads(p, mem'[p])
               /\ Is(mem'[p], disk.phase, NoOne, disk.left)
            \/ Ends(p, disk, {"paused", "failed"}, "prepare", "save")
         /\ disk' = disk /\ lock' = lock /\ slips' = slips
<1>1. p \in Proc /\ pc[p] = "prepare"
  BY Procs DEF Prepare
<1>2. mem[p] \in State /\ disk \in State
  BY <1>1 DEF Types, TypeOK, MemFits, HasRead
<1>3. UNCHANGED <<disk, lock, newer, tries, report, written, slips>>
  BY DEF Prepare, Notes
<1>4. Rest
  BY <1>3 DEF Types, TypeOK, Rest
<1>5. PICK orphan \in BOOLEAN :
        LET killed == IF orphan THEN {} ELSE Kill(p, disk, {"paused", "failed"})
        IN /\ orphan => p \in Runner /\ mem[p].phase = "running"
           /\ Step(p, "save", killed)
           /\ Keep(p, IF orphan THEN [disk EXCEPT !.pid = NoOne]
                      ELSE After(p, disk, killed))
  BY DEF Prepare
<1>6. CASE orphan
  <2> DEFINE m == [disk EXCEPT !.pid = NoOne]
  <2>1. p \in Runner /\ mem[p].phase = "running" /\ Step(p, "save", {}) /\ Keep(p, m)
    BY <1>5, <1>6
  <2>2. Is(m, disk.phase, NoOne, disk.left)
    BY <1>2, States
  <2>3. pc' \in [Proc -> PC] /\ Moves(p, "prepare", "save")
    BY <1>1, <2>1, StepKills DEF Types, PC, Kills, Moves, Only
  <2>4. m \in State
    BY <2>2 DEF Is
  <2> HIDE DEF m
  <2>5. mem' \in [Proc -> State \cup {NoState}] /\ Reads(p, m)
    BY <1>1, <2>1, <2>4, KeepReads DEF Types
  <2>6. mem'[p] = m
    BY <2>5 DEF Reads, Only
  <2>7. MemFit(p)'
    BY <1>2, <1>3, <2>3, <2>4, <2>6, MarksAssumption DEF MemFit, Moves, Only
  <2>8. Types'
    BY <1>1, <1>4, <2>3, <2>5, <2>7, TypesKept DEF Moves, Reads, Only
  <2> QED
    BY <1>2, <1>3, <2>1, <2>2, <2>3, <2>5, <2>6, <2>8
<1>7. CASE ~orphan
  <2> DEFINE killed == Kill(p, disk, {"paused", "failed"})
  <2>1. Step(p, "save", killed) /\ Keep(p, After(p, disk, killed))
    BY <1>5, <1>7
  <2>2. /\ pc' \in [Proc -> PC] /\ mem' \in [Proc -> State \cup {NoState}]
        /\ mem'[p] \in State /\ Ends(p, disk, {"paused", "failed"}, "prepare", "save")
    BY <1>1, <1>2, <2>1, StepEnds DEF Types, PC
  <2>3. MemFit(p)'
    BY <1>2, <1>3, <2>2, MarksAssumption DEF MemFit, Ends
  <2>4. Types'
    BY <1>1, <1>4, <2>2, <2>3, TypesKept DEF Ends
  <2> QED
    BY <1>2, <1>3, <2>2, <2>4
<1> QED
  BY <1>6, <1>7

LEMMA SavePreparedIs ==
  ASSUME Types, NEW s \in Detached, SavePrepared(s)
  PROVE  /\ Types' /\ mem[s] \in State /\ disk \in State
         /\ Moves(s, "save", "spawn") /\ Writes(mem[s])
         /\ lock' = lock /\ mem' = mem /\ slips' = slips
<1>1. s \in Proc /\ "spawn" \in PC
  BY Procs DEF PC
<1>2. pc' \in [Proc -> PC] /\ Moves(s, "save", "spawn")
  BY <1>1, GotoMoves DEF SavePrepared, Types
<1>3. mem[s] \in State /\ disk \in State
  BY <1>1, <1>2 DEF Types, TypeOK, MemFits, HasRead, Moves
<1>4. Writes(mem[s]) /\ newer' = Shell
  BY <1>3, WriteWrites DEF SavePrepared
<1>5. UNCHANGED <<lock, mem, tries, report, written, slips>>
  BY DEF SavePrepared, Notes
<1>6. Rest
  BY <1>4, <1>5, MarksAssumption DEF Types, TypeOK, Rest, Writes, Is
<1>7. MemFit(s)'
  BY <1>2, <1>3, <1>5, <1>6, MarksAssumption DEF MemFit, Rest, Moves, Only
<1>8. Types'
  BY <1>1, <1>2, <1>5, <1>6, <1>7, TypesKept DEF Types, TypeOK, Moves, Only
<1> QED
  BY <1>2, <1>3, <1>4, <1>5, <1>8

LEMMA SpawnIs ==
  ASSUME Types, NEW s \in Detached, Spawn(s)
  PROVE  /\ Types' /\ pc[s] = "spawn" /\ pc'[s] = "pid" /\ pc'[Child(s)] = "new"
         /\ \A q \in Proc \ {s, Child(s)} : pc'[q] = pc[q]
         /\ disk' = disk /\ lock' = lock /\ mem' = mem /\ slips' = slips
<1>1. s \in Proc /\ Child(s) \in Proc /\ s # Child(s)
  BY Procs, Children, HandoffAssumption
<1>2. pc[s] = "spawn" /\ pc' = [pc EXCEPT ![s] = "pid", ![Child(s)] = "new"]
  BY DEF Spawn
<1> HIDE DEF Child
<1>3. /\ pc' \in [Proc -> PC] /\ pc'[s] = "pid" /\ pc'[Child(s)] = "new"
      /\ \A q \in Proc \ {s, Child(s)} : pc'[q] = pc[q]
  BY <1>1, <1>2 DEF Types, TypeOK, PC
<1>4. UNCHANGED <<disk, lock, mem, newer, tries, report, written, slips>>
  BY DEF Spawn, Notes
<1>5. Rest
  BY <1>4 DEF Types, TypeOK, Rest
<1>6. MemFit(s)'
  BY <1>1, <1>2, <1>3, <1>4 DEF Types, MemFits, MemFit, HasRead
<1>7. Types'
  BY <1>1, <1>3, <1>4, <1>5, <1>6, TypesKept DEF Types, TypeOK
<1> QED
  BY <1>2, <1>3, <1>4, <1>7

LEMMA LoadForPidIs ==
  ASSUME Types, NEW s \in Detached, LoadForPid(s)
  PROVE  /\ Types' /\ disk \in State
         /\ Moves(s, "pid", "persist") /\ Reads(s, mem'[s])
         /\ Is(mem'[s], disk.phase, Child(s), disk.left)
         /\ disk' = disk /\ lock' = lock /\ slips' = slips
<1>1. s \in Proc /\ Child(s) \in Proc /\ "persist" \in PC
  BY Procs, Children DEF PC
<1>2. pc' \in [Proc -> PC] /\ Moves(s, "pid", "persist")
  BY <1>1, GotoMoves DEF LoadForPid, Types
<1>3. disk \in State
  BY <1>1, <1>2 DEF Types, TypeOK, MemFits, HasRead, Moves
<1> DEFINE m == [disk EXCEPT !.pid = Child(s)]
<1>4. Is(m, disk.phase, Child(s), disk.left)
  BY <1>1, <1>3, States
<1>5. mem' \in [Proc -> State \cup {NoState}] /\ Reads(s, m)
  BY <1>1, <1>4, KeepReads DEF LoadForPid, Types, Is
<1>6. mem'[s] = m
  BY <1>5 DEF Reads, Only
<1>7. UNCHANGED <<disk, lock, newer, tries, report, written, slips>>
  BY DEF LoadForPid, Notes
<1>8. Rest
  BY <1>7 DEF Types, TypeOK, Rest
<1>9. MemFit(s)'
  BY <1>2, <1>3, <1>4, <1>6, <1>7, MarksAssumption DEF MemFit, Moves, Only, Is
<1>10. Types'
  BY <1>1, <1>2, <1>5, <1>8, <1>9, TypesKept DEF Moves, Reads, Only
<1> QED
  BY <1>2, <1>3, <1>4, <1>5, <1>6, <1>7, <1>10

LEMMA PersistPidIs ==
  ASSUME Types, NEW s \in Detached, PersistPid(s)
  PROVE  /\ Types' /\ mem[s] \in State /\ disk \in State
         /\ Moves(s, "persist", "poll")
         /\ MayWrite(s) => Writes(mem[s])
         /\ ~MayWrite(s) => disk' = disk
         /\ lock' = lock /\ mem' = mem /\ slips' = slips
<1>1. s \in Proc /\ "poll" \in PC
  BY Procs DEF PC
<1>2. pc' \in [Proc -> PC] /\ Moves(s, "persist", "poll")
  BY <1>1, GotoMoves DEF PersistPid, Types
<1>3. mem[s] \in State /\ disk \in State
  BY <1>1, <1>2 DEF Types, TypeOK, MemFits, HasRead, Moves
<1>4. /\ MayWrite(s) => Writes(mem[s])
      /\ ~MayWrite(s) => disk' = disk
      /\ newer' \subseteq Shell
  BY <1>3, SaveWrites DEF PersistPid, Types, TypeOK
<1>5. UNCHANGED <<lock, mem, tries, report, written, slips>>
  BY DEF PersistPid, Notes
<1>6. Rest
  BY <1>3, <1>4, <1>5, MarksAssumption DEF Types, TypeOK, Rest, Writes, Is
<1>7. MemFit(s)'
  BY <1>2, <1>3, <1>5, <1>6, MarksAssumption DEF MemFit, Rest, Moves, Only
<1>8. Types'
  BY <1>1, <1>2, <1>5, <1>6, <1>7, TypesKept DEF Types, TypeOK, Moves, Only
<1> QED
  BY <1>2, <1>3, <1>4, <1>5, <1>8

LEMMA PollIs ==
  ASSUME Types, NEW s \in Detached, Poll(s)
  PROVE  /\ Types' /\ mem[s] \in State /\ disk \in State
         /\ Moves(s, "poll", "done") /\ Freed(s)
         /\ Timely /\ ~Settled(Child(s)) => Answer(s) # {}
         /\ disk' = disk /\ mem' = mem /\ slips' = slips
<1>1. s \in Proc /\ s \in Shell /\ "done" \in PC
  BY Procs DEF PC
<1>2. pc' \in [Proc -> PC] /\ Moves(s, "poll", "done")
  BY <1>1, GotoMoves DEF Poll, Types
<1>3. mem[s] \in State /\ disk \in State
  BY <1>1, <1>2 DEF Types, TypeOK, MemFits, HasRead, Moves
<1>4. PICK a \in Answer(s) \cup {"timeout"} :
        /\ a = "timeout" /\ Timely => Settled(Child(s))
        /\ report' = [report EXCEPT ![s] = a]
  BY DEF Poll
<1>5. Freed(s)
  BY ReleaseFrees DEF Poll
<1>6. UNCHANGED <<disk, mem, newer, tries, written, slips>>
  BY DEF Poll
<1>7. a \in {"none", "failed", "started", "completed", "timeout"}
  BY <1>4 DEF Answer
<1>8. report' \in [Shell -> {"none", "failed", "started", "completed", "timeout"}]
  BY <1>1, <1>4, <1>7 DEF Types, TypeOK
<1>9. Rest
  BY <1>5, <1>6, <1>8 DEF Types, TypeOK, Rest, Freed
<1>10. MemFit(s)'
  BY <1>2, <1>3, <1>6, MarksAssumption DEF MemFit, Moves, Only
<1>11. Types'
  BY <1>1, <1>2, <1>6, <1>9, <1>10, TypesKept DEF Types, TypeOK, Moves, Only
<1>12. Timely /\ ~Settled(Child(s)) => Answer(s) # {}
  BY <1>4
<1> QED
  BY <1>2, <1>3, <1>5, <1>6, <1>11, <1>12

LEMMA ClaimIs ==
  ASSUME Types, NEW p \in Runner, Claim(p)
  PROVE  /\ Types' /\ mem[p] \in State /\ disk \in State
         /\ Moves(p, "save", "working") /\ Reads(p, mem'[p])
         /\ Is(mem'[p], "running", p, mem[p].left)
         /\ disk' = IF MayWrite(p) THEN mem'[p] ELSE disk
         /\ lock' = lock \/ Freed(p)
         /\ slips' = slips
<1>1. p \in Proc /\ "working" \in PC
  BY Procs DEF PC
<1>2. pc' \in [Proc -> PC] /\ Moves(p, "save", "working")
  BY <1>1, GotoMoves DEF Claim, Types
<1>3. mem[p] \in State /\ disk \in State
  BY <1>1, <1>2 DEF Types, TypeOK, MemFits, HasRead, Moves
<1> DEFINE m == [mem[p] EXCEPT !.phase = "running", !.pid = p]
<1>4. Is(m, "running", p, mem[p].left)
  BY <1>1, <1>3 DEF Is, State, Phase
<1>5. Save(p, m) /\ Keep(p, m)
  BY DEF Claim
<1>6. m \in State /\ m.phase = "running"
  BY <1>4 DEF Is
<1> HIDE DEF m
<1>7. mem' \in [Proc -> State \cup {NoState}] /\ Reads(p, m)
  BY <1>1, <1>5, <1>6, KeepReads DEF Types
<1>8. mem'[p] = m
  BY <1>7 DEF Reads, Only
<1>9. disk' = (IF MayWrite(p) THEN m ELSE disk) /\ newer' \subseteq Shell
  BY <1>5, <1>6
     DEF Save, Write, Persisted, TERMINAL_BATCH_PHASES, Types, TypeOK
<1>10. lock' = lock \/ Freed(p)
  BY DEF Claim, Released, Freed
<1>11. UNCHANGED <<tries, report, slips>> /\ written' = written \cup {p}
  BY DEF Claim
<1>12. Rest
  BY <1>1, <1>3, <1>6, <1>9, <1>10, <1>11, MarksAssumption
  DEF Types, TypeOK, Rest, Freed
<1>13. MemFit(p)'
  BY <1>2, <1>3, <1>6, <1>8, <1>12, MarksAssumption DEF MemFit, Rest, Moves, Only
<1>14. Types'
  BY <1>1, <1>2, <1>7, <1>12, <1>13, TypesKept DEF Moves, Reads, Only
<1> QED
  BY <1>2, <1>3, <1>4, <1>7, <1>8, <1>9, <1>10, <1>11, <1>14 DEF m

LEMMA AdvanceIs ==
  ASSUME Types, NEW p \in Runner \cup {Old}, Advance(p)
  PROVE  /\ Types' /\ mem[p] \in State /\ disk \in State
         /\ pc[p] = "working" /\ pc' = pc /\ Reads(p, mem'[p])
         /\ mem'[p] \in State
         /\ mem'[p].phase = mem[p].phase /\ mem'[p].pid = mem[p].pid
         /\ mem[p].left = "none" => mem'[p].left = "none"
         /\ MayWrite(p) => Writes(mem'[p])
         /\ ~MayWrite(p) => disk' = disk
         /\ lock' = lock /\ slips' = slips
<1>1. p \in Proc /\ pc[p] = "working"
  BY Procs DEF Advance
<1>2. mem[p] \in State /\ disk \in State
  BY <1>1 DEF Types, TypeOK, MemFits, HasRead
<1>3. PICK left \in {mem[p].left, IF mem[p].left = "tasks" THEN "merge" ELSE "none"} :
        Keep(p, [mem[p] EXCEPT !.left = left]) /\ Save(p, [mem[p] EXCEPT !.left = left])
  BY DEF Advance
<1> DEFINE m == [mem[p] EXCEPT !.left = left]
<1>4. left \in {"tasks", "merge", "none"}
  BY <1>2, <1>3, States
<1>5. Is(m, mem[p].phase, mem[p].pid, left)
  BY <1>2, <1>4, States
<1>6. Keep(p, m) /\ Save(p, m) /\ m \in State
  BY <1>3, <1>5 DEF Is
<1>7. /\ m.phase = mem[p].phase /\ m.pid = mem[p].pid
      /\ mem[p].left = "none" => m.left = "none"
  BY <1>3, <1>5 DEF Is
<1> HIDE DEF m
<1>8. mem' \in [Proc -> State \cup {NoState}] /\ Reads(p, m)
  BY <1>1, <1>6, KeepReads DEF Types
<1>9. mem'[p] = m
  BY <1>8 DEF Reads, Only
<1>10. /\ MayWrite(p) => Writes(m)
       /\ ~MayWrite(p) => disk' = disk
       /\ newer' \subseteq Shell
  BY <1>6, SaveWrites DEF Types, TypeOK
<1>11. UNCHANGED <<lock, pc, tries, report, written, slips>>
  BY DEF Advance, Notes
<1>12. Rest
  BY <1>2, <1>10, <1>11, MarksAssumption DEF Types, TypeOK, Rest, Writes, Is
<1>13. MemFit(p)'
  BY <1>1, <1>2, <1>6, <1>9, <1>11, <1>12, MarksAssumption DEF MemFit, Rest
<1>14. Types'
  BY <1>1, <1>8, <1>11, <1>12, <1>13, TypesKept DEF Reads, Only, Types, TypeOK
<1> QED
  BY <1>1, <1>2, <1>6, <1>7, <1>8, <1>9, <1>10, <1>11, <1>14

LEMMA FinishIs ==
  ASSUME Types, NEW p \in Runner \cup {Old}, NEW phase \in Phase \ {"running"},
         Finish(p, phase)
  PROVE  /\ Types' /\ mem[p] \in State /\ disk \in State
         /\ Moves(p, "working", "exiting")
         /\ phase = "paused" => p = Old
         /\ \/ disk' = disk
            \/ Is(disk', phase,
                  IF phase \in TERMINAL_BATCH_PHASES THEN NoOne ELSE mem[p].pid,
                  mem[p].left)
         /\ MayWrite(p) =>
              Is(disk', phase,
                 IF phase \in TERMINAL_BATCH_PHASES THEN NoOne ELSE mem[p].pid,
                 mem[p].left)
         /\ lock' = lock /\ mem' = mem /\ slips' = slips
<1>1. p \in Proc /\ "exiting" \in PC
  BY Procs DEF PC
<1>2. pc' \in [Proc -> PC] /\ Moves(p, "working", "exiting")
  BY <1>1, GotoMoves DEF Finish, Types
<1>3. mem[p] \in State /\ disk \in State
  BY <1>1, <1>2 DEF Types, TypeOK, MemFits, HasRead, Moves
<1> DEFINE m == [mem[p] EXCEPT !.phase = phase]
<1>4. Is(m, phase, mem[p].pid, mem[p].left)
  BY <1>3, States
<1>5. Write(m) \/ Save(p, m)
  BY DEF Finish
<1>6. /\ disk' = disk \/ Writes(m)
      /\ MayWrite(p) => Writes(m)
      /\ newer' \subseteq Shell
  BY <1>4, <1>5, WriteWrites, SaveWrites DEF Is, Types, TypeOK
<1>7. Writes(m) =>
        Is(disk', phase,
           IF phase \in TERMINAL_BATCH_PHASES THEN NoOne ELSE mem[p].pid, mem[p].left)
  BY <1>4 DEF Writes, Is
<1>8. UNCHANGED <<lock, mem, tries, report, written, slips>>
  BY DEF Finish, Notes
<1>9. phase = "paused" => p = Old
  BY DEF Finish
<1>10. Rest
  BY <1>3, <1>6, <1>7, <1>8, MarksAssumption DEF Types, TypeOK, Rest, Writes, Is
<1>11. MemFit(p)'
  BY <1>2, <1>3, <1>8, <1>10, MarksAssumption DEF MemFit, Rest, Moves, Only
<1>12. Types'
  BY <1>1, <1>2, <1>8, <1>10, <1>11, TypesKept DEF Types, TypeOK, Moves, Only
<1> QED
  BY <1>2, <1>3, <1>6, <1>7, <1>8, <1>9, <1>12

LEMMA ExitIs ==
  ASSUME Types, NEW p \in Runner \cup {Old}, Exit(p)
  PROVE  /\ Types' /\ Moves(p, "exiting", "done") /\ Freed(p)
         /\ disk' = disk /\ mem' = mem /\ slips' = slips
<1>1. p \in Proc /\ "done" \in PC
  BY Procs DEF PC
<1>2. pc' \in [Proc -> PC] /\ Moves(p, "exiting", "done")
  BY <1>1, GotoMoves DEF Exit, Types
<1>3. Freed(p)
  BY ReleaseFrees DEF Exit
<1>4. UNCHANGED <<disk, mem, newer, tries, report, written, slips>>
  BY DEF Exit, Notes
<1>5. Rest
  BY <1>3, <1>4 DEF Types, TypeOK, Rest, Freed
<1>6. MemFit(p)'
  BY <1>1, <1>2, <1>4 DEF Types, MemFits, MemFit, HasRead, Moves, Only
<1>7. Types'
  BY <1>1, <1>2, <1>4, <1>5, <1>6, TypesKept DEF Types, TypeOK, Moves, Only
<1> QED
  BY <1>2, <1>3, <1>4, <1>7

LEMMA ParentLostIs ==
  ASSUME Types, NEW p \in Proc, ParentLost(p)
  PROVE  /\ Types' /\ disk \in State /\ p \in Mortal
         /\ Moves(p, "working", "dead")
         /\ \/ disk' = disk
            \/ disk.phase \notin {"completed", "failed"}
               /\ Is(disk', "paused", NoOne, disk.left)
         /\ lock' = lock /\ mem' = mem /\ slips' = slips
<1>1. "dead" \in PC
  BY DEF PC
<1>2. pc' \in [Proc -> PC] /\ Moves(p, "working", "dead")
  BY <1>1, GotoMoves DEF ParentLost, Types
<1>3. mem[p] \in State /\ disk \in State
  BY <1>2 DEF Types, TypeOK, MemFits, HasRead, Moves
<1> DEFINE m == [disk EXCEPT !.phase = "paused", !.pid = NoOne]
<1>4. Is(m, "paused", NoOne, disk.left)
  BY <1>3 DEF Is, State, Phase
<1>5. \/ disk.phase \notin {"completed", "failed"} /\ Save(p, m)
      \/ UNCHANGED <<disk, newer>>
  BY DEF ParentLost
<1>6. /\ disk' = disk \/ (disk.phase \notin {"completed", "failed"} /\ Writes(m))
      /\ newer' \subseteq Shell
  BY <1>4, <1>5, SaveWrites DEF Is, Types, TypeOK
<1>7. \/ disk' = disk
      \/ disk.phase \notin {"completed", "failed"} /\ Is(disk', "paused", NoOne, disk.left)
  BY <1>4, <1>6 DEF Writes, Is, TERMINAL_BATCH_PHASES
<1>8. UNCHANGED <<lock, mem, tries, report, written, slips>> /\ p \in Mortal
  BY DEF ParentLost, Notes
<1>9. Rest
  BY <1>3, <1>6, <1>7, <1>8, MarksAssumption DEF Types, TypeOK, Rest, Is
<1>10. MemFit(p)'
  BY <1>2, <1>3, <1>8, <1>9, MarksAssumption DEF MemFit, Rest, Moves, Only
<1>11. Types'
  BY <1>2, <1>8, <1>9, <1>10, TypesKept DEF Types, TypeOK, Moves, Only
<1> QED
  BY <1>2, <1>3, <1>7, <1>8, <1>11

LEMMA UncaughtIs ==
  ASSUME Types, NEW p \in Proc, Uncaught(p)
  PROVE  /\ Types' /\ disk \in State /\ p \in Mortal
         /\ Moves(p, "working", "dead")
         /\ \/ disk' = disk
            \/ MayWrite(p) /\ Is(disk', "failed", NoOne, disk.left)
         /\ lock' = lock /\ mem' = mem /\ slips' = slips
<1>1. "dead" \in PC
  BY DEF PC
<1>2. pc' \in [Proc -> PC] /\ Moves(p, "working", "dead")
  BY <1>1, GotoMoves DEF Uncaught, Types
<1>3. mem[p] \in State /\ disk \in State
  BY <1>2 DEF Types, TypeOK, MemFits, HasRead, Moves
<1> DEFINE m == [disk EXCEPT !.phase = "failed"]
<1>4. Is(m, "failed", disk.pid, disk.left)
  BY <1>3, States DEF Phase
<1>5. Save(p, m)
  BY DEF Uncaught
<1>6. (disk' = disk \/ (MayWrite(p) /\ Writes(m))) /\ newer' \subseteq Shell
  BY <1>4, <1>5, SaveWrites DEF Is, Types, TypeOK
<1>7. disk' = disk \/ (MayWrite(p) /\ Is(disk', "failed", NoOne, disk.left))
  BY <1>4, <1>6 DEF Writes, Is, TERMINAL_BATCH_PHASES
<1>8. UNCHANGED <<lock, mem, tries, report, written, slips>> /\ p \in Mortal
  BY DEF Uncaught, Notes
<1>9. Rest
  BY <1>3, <1>6, <1>7, <1>8, MarksAssumption DEF Types, TypeOK, Rest, Is
<1>10. MemFit(p)'
  BY <1>2, <1>3, <1>8, <1>9, MarksAssumption DEF MemFit, Rest, Moves, Only
<1>11. Types'
  BY <1>2, <1>8, <1>9, <1>10, TypesKept DEF Types, TypeOK, Moves, Only
<1> QED
  BY <1>2, <1>3, <1>7, <1>8, <1>11

LEMMA KilledIs ==
  ASSUME Types, NEW p \in Proc, Killed(p)
  PROVE  /\ Types' /\ p \in Mortal /\ Alive(p) /\ Only(pc, pc', p, "dead")
         /\ disk' = disk /\ lock' = lock /\ mem' = mem /\ slips' = slips
<1>1. p \in Mortal /\ Alive(p) /\ pc' = [pc EXCEPT ![p] = "dead"]
  BY DEF Killed
<1>2. pc' \in [Proc -> PC] /\ Only(pc, pc', p, "dead")
  BY <1>1 DEF Types, TypeOK, PC, Only
<1>3. UNCHANGED <<disk, lock, mem, newer, tries, report, written, slips>>
  BY DEF Killed, Notes
<1>4. Rest
  BY <1>3 DEF Types, TypeOK, Rest
<1>5. MemFit(p)'
  BY <1>2, <1>3 DEF Types, MemFits, MemFit, HasRead, Only
<1>6. Types'
  BY <1>2, <1>3, <1>4, <1>5, TypesKept DEF Types, TypeOK, Only
<1> QED
  BY <1>1, <1>2, <1>3, <1>6

---------------------------------------------------------------------------
(* What holds through every fault.                                           *)

(* Where a process can be: a detached shell never works, a runner spawns     *)
(* nobody, and a child is born when its shell spawns it.                     *)
BeforeSpawn == {"new", "loaded", "create", "fill", "holder", "drop", "own",
                "handoff", "check", "limbo", "claim", "land", "prepare", "save",
                "spawn"}
PlacesFit ==
  /\ pc[Old] \in {"working", "exiting", "done", "dead"}
  /\ \A s \in Detached : pc[s] \notin {"unborn", "working", "exiting"}
  /\ \A p \in Runner : pc[p] \notin {"spawn", "pid", "persist", "poll"}
  /\ \A p \in Attached : pc[p] # "unborn"
  /\ \A s \in Detached :
       /\ pc[s] \in BeforeSpawn => pc[Child(s)] = "unborn"
       /\ pc[s] \in {"pid", "persist", "poll"} => pc[Child(s)] # "unborn"

(* A pid that is recorded is that of a process which works or has worked, or *)
(* of a child that was spawned.                                              *)
PidFits(x) ==
  /\ x \in Proc \cup {NoOne}
  /\ x \notin Detached
  /\ x \in Attached => pc[x] \in {"working", "exiting", "done", "dead"}
  /\ x \in Spawned => pc[x] # "unborn"
DiskFits ==
  disk # NoState =>
    /\ PidFits(disk.pid)
    /\ disk.phase \in TERMINAL_BATCH_PHASES => disk.pid = NoOne
ReadFits == \A p \in Proc : mem[p] # NoState => PidFits(mem[p].pid)

(* The lock file names a process that holds it, or died with it; it is empty *)
(* only between its creation and its first write.                            *)
Lockless == {"unborn", "new", "loaded", "create", "holder", "drop", "refused",
             "done"}
LockFits ==
  lock # NoLock =>
    /\ pc[lock.pid] \notin Lockless
    /\ pc[lock.pid] \notin {"fill", "dead"} => lock.written

(* Who needs the lock is not the owner of what it read, nor is that a live   *)
(* engine with task work.                                                    *)
Asking == {"create", "fill", "holder", "drop", "own"}
Idle(p) ==
  /\ mem[p].pid # p
  /\ mem[p].phase = "running" /\ mem[p].left = "tasks" => ~Alive(mem[p].pid)
BusyFits == \A p \in Proc : pc[p] \in Asking => Idle(p)

BaseInv == Types /\ PlacesFit /\ DiskFits /\ ReadFits /\ LockFits /\ BusyFits

(* No process is born twice, and who has ended stays so.                     *)
Forward ==
  \A q \in Proc :
    /\ pc[q] # "unborn" => pc'[q] # "unborn"
    /\ pc[q] \in {"working", "exiting", "done", "dead"}
         => pc'[q] \in {"working", "exiting", "done", "dead"}
    /\ pc[q] \in {"refused", "done", "dead"} => pc'[q] = pc[q]

LEMMA PidStays ==
  ASSUME Forward, NEW x, PidFits(x)
  PROVE  PidFits(x)'
<1>1. Attached \subseteq Proc /\ Spawned \subseteq Proc
  BY Procs
<1> QED
  BY <1>1 DEF PidFits, Forward

LEMMA NoOneFits == PidFits(NoOne) /\ PidFits(NoOne)'
  BY Procs, States DEF PidFits

LEMMA DiskKept ==
  ASSUME DiskFits, Forward, disk' = disk
  PROVE  DiskFits'
  BY PidStays DEF DiskFits

LEMMA DiskSet ==
  ASSUME Forward, NEW phase, NEW x, NEW left, Is(disk', phase, x, left),
         phase \in TERMINAL_BATCH_PHASES => x = NoOne, PidFits(x) \/ PidFits(x)'
  PROVE  DiskFits'
<1>1. disk'.phase = phase /\ disk'.pid = x /\ PidFits(x)'
  BY PidStays DEF Is
<1> QED
  BY <1>1 DEF DiskFits, PidFits

LEMMA DiskWritten ==
  ASSUME Forward, NEW m \in State, Writes(m), PidFits(m.pid) \/ PidFits(m.pid)'
  PROVE  DiskFits'
  BY DiskSet, NoOneFits DEF Writes

LEMMA ReadKept ==
  ASSUME ReadFits, Forward, NEW p \in Proc, \A q \in Proc \ {p} : mem'[q] = mem[q],
         mem'[p] # NoState => PidFits(mem'[p].pid) \/ PidFits(mem[p].pid)'
  PROVE  ReadFits'
<1>1. ASSUME NEW q \in Proc, q # p, mem'[q] # NoState PROVE PidFits(mem[q].pid)'
  BY <1>1, PidStays DEF ReadFits
<1>2. ASSUME mem'[p] # NoState PROVE PidFits(mem[p].pid)'
  BY <1>2, PidStays
<1> QED
  BY <1>1, <1>2 DEF ReadFits

LEMMA EndsReads ==
  ASSUME ReadFits, Forward, NEW p \in Proc, NEW m, NEW phases, NEW from, NEW to,
         Ends(p, m, phases, from, to), PidFits(m.pid)
  PROVE  ReadFits'
<1>1. mem'[p].pid \in {m.pid, NoOne}
  BY DEF Ends, Is
<1>2. PidFits(mem'[p].pid)
  BY <1>1, NoOneFits
<1>3. \A q \in Proc \ {p} : mem'[q] = mem[q]
  BY DEF Ends
<1> QED
  BY <1>2, <1>3, ReadKept

(* A process that is no longer alive, or never was born, stays so, or is born. *)
LEMMA NoneRevives ==
  ASSUME Forward, NEW x, ~Alive(x), x \in Proc => pc[x] # "unborn"
  PROVE  ~Alive(x)'
  BY DEF Forward, Alive

LEMMA BusyKept ==
  ASSUME BaseInv, Types', Forward, NEW p \in Proc,
         \A q \in Proc \ {p} : mem'[q] = mem[q] /\ pc'[q] \in {pc[q], "dead", "new"},
         pc'[p] \in Asking => /\ mem'[p] = mem[p] /\ mem[p] # NoState
                            /\ (pc[p] \in Asking \/ Idle(p))
  PROVE  BusyFits'
<1>1. ASSUME NEW q \in Proc, pc'[q] \in Asking
      PROVE  Idle(q)'
  <2>1. mem'[q] = mem[q] /\ mem[q] # NoState
    BY <1>1 DEF BaseInv, Types, MemFits, HasRead, Asking
  <2>2. Idle(q) /\ PidFits(mem[q].pid)
    BY <1>1, <2>1 DEF BaseInv, BusyFits, ReadFits, Asking
  <2>3. mem[q].pid \in Proc => pc[mem[q].pid] # "unborn"
    BY <2>2, Procs DEF PidFits, BaseInv, PlacesFit, Runner
  <2>4. ~Alive(mem[q].pid) => ~Alive(mem[q].pid)'
    BY <2>1, <2>3, NoneRevives
  <2> QED
    BY <2>1, <2>2, <2>4 DEF Idle
<1> QED
  BY <1>1 DEF BusyFits

(* The lock of another is not touched, nor one's own but to give it back.    *)
LEMMA LockKept ==
  ASSUME LockFits, lock \in LockFile \cup {NoLock}, NEW p \in Proc,
         \A q \in Proc \ {p} : pc'[q] \in {pc[q], "dead"} \/ pc[q] = "unborn",
         lock' = lock,
         \/ pc[p] \in Lockless \/ pc'[p] = "dead"
         \/ pc[p] \notin {"fill", "dead"} /\ pc'[p] \notin Lockless
  PROVE  LockFits'
<1>1. lock # NoLock => lock.pid \in Proc
  BY DEF LockFile
<1> QED
  BY <1>1 DEF LockFits, Lockless

LEMMA LockFreed ==
  ASSUME LockFits, lock \in LockFile \cup {NoLock}, NEW p \in Proc,
         \A q \in Proc \ {p} : pc'[q] = pc[q],
         Freed(p), pc[p] \notin {"fill", "dead"}
  PROVE  LockFits'
<1>1. lock # NoLock => lock.pid \in Proc
  BY DEF LockFile
<1> QED
  BY <1>1 DEF LockFits, Lockless, Freed

LEMMA LoadBase ==
  ASSUME BaseInv, NEW p \in Shell \cup Spawned, Load(p)
  PROVE  BaseInv' /\ Forward
<1>1. Types /\ p \in Proc
  BY Procs DEF BaseInv, Detached
<1>2. PlacesFit' /\ Forward
  BY LoadIs, Procs, Children DEF BaseInv, PlacesFit, BeforeSpawn, Forward, Moves, Only
<1>3. DiskFits'
  BY <1>2, LoadIs, DiskKept DEF BaseInv
<1>4. ReadFits'
  BY <1>1, <1>2, LoadIs, ReadKept, NoOneFits
  DEF BaseInv, ReadFits, DiskFits, Reads, Only, Is
<1>5. LockFits'
  BY <1>1, LoadIs, LockKept DEF BaseInv, Types, TypeOK, Lockless, Moves, Only
<1>6. BusyFits'
  BY <1>1, <1>2, LoadIs, BusyKept DEF Asking, Moves, Only, Reads
<1> QED
  BY <1>2, <1>3, <1>4, <1>5, <1>6, LoadIs DEF BaseInv

LEMMA CheckOwnerBase ==
  ASSUME BaseInv, NEW p \in Shell \cup Spawned, CheckOwner(p)
  PROVE  BaseInv' /\ Forward
<1>1. Types /\ p \in Proc
  BY Procs DEF BaseInv, Detached
<1>2. PlacesFit' /\ Forward
  BY CheckOwnerIs, Procs, Children
  DEF BaseInv, PlacesFit, BeforeSpawn, Forward, Moves, Only
<1>3. DiskFits'
  BY <1>2, CheckOwnerIs, DiskKept DEF BaseInv
<1>4. ReadFits'
  BY <1>1, <1>2, CheckOwnerIs, ReadKept DEF BaseInv, ReadFits
<1>5. LockFits'
  BY <1>1, CheckOwnerIs, LockKept DEF BaseInv, Types, TypeOK, Lockless, Moves, Only
<1>6. BusyFits'
  BY <1>1, <1>2, CheckOwnerIs, BusyKept, MarksAssumption DEF Idle, Asking, Moves, Only
<1> QED
  BY <1>2, <1>3, <1>4, <1>5, <1>6, CheckOwnerIs DEF BaseInv

LEMMA CreateLockBase ==
  ASSUME BaseInv, NEW p \in Shell \cup Spawned, CreateLock(p)
  PROVE  BaseInv' /\ Forward
<1>1. Types /\ p \in Proc
  BY Procs DEF BaseInv, Detached
<1>2. PlacesFit' /\ Forward
  BY CreateLockIs, Procs, Children
  DEF BaseInv, PlacesFit, BeforeSpawn, Forward, Moves, Only
<1>3. DiskFits'
  BY <1>2, CreateLockIs, DiskKept DEF BaseInv
<1>4. ReadFits'
  BY <1>1, <1>2, CreateLockIs, ReadKept DEF BaseInv, ReadFits
<1>5. LockFits'
  BY <1>1, CreateLockIs DEF LockFits, Lockless, Moves, Only
<1>6. BusyFits'
  BY <1>1, <1>2, CreateLockIs, BusyKept DEF Types, MemFits, HasRead, Asking, Moves, Only
<1> QED
  BY <1>2, <1>3, <1>4, <1>5, <1>6, CreateLockIs DEF BaseInv

LEMMA LockExistsBase ==
  ASSUME BaseInv, NEW p \in Shell \cup Spawned, LockExists(p)
  PROVE  BaseInv' /\ Forward
<1>1. Types /\ p \in Proc
  BY Procs DEF BaseInv, Detached
<1>2. PlacesFit' /\ Forward
  BY LockExistsIs, Procs, Children
  DEF BaseInv, PlacesFit, BeforeSpawn, Forward, Moves, Only
<1>3. DiskFits'
  BY <1>2, LockExistsIs, DiskKept DEF BaseInv
<1>4. ReadFits'
  BY <1>1, <1>2, LockExistsIs, ReadKept DEF BaseInv, ReadFits
<1>5. LockFits'
  BY <1>1, LockExistsIs, LockKept DEF BaseInv, Types, TypeOK, Lockless, Moves, Only
<1>6. BusyFits'
  BY <1>1, <1>2, LockExistsIs, BusyKept DEF Types, MemFits, HasRead, Asking, Moves, Only
<1> QED
  BY <1>2, <1>3, <1>4, <1>5, <1>6, LockExistsIs DEF BaseInv

LEMMA FillLockBase ==
  ASSUME BaseInv, NEW p \in Shell \cup Spawned, FillLock(p)
  PROVE  BaseInv' /\ Forward
<1>1. Types /\ p \in Proc
  BY Procs DEF BaseInv, Detached
<1>2. PlacesFit' /\ Forward
  BY FillLockIs, Procs, Children
  DEF BaseInv, PlacesFit, BeforeSpawn, Forward, Moves, Only
<1>3. DiskFits'
  BY <1>2, FillLockIs, DiskKept DEF BaseInv
<1>4. ReadFits'
  BY <1>1, <1>2, FillLockIs, ReadKept DEF BaseInv, ReadFits
<1>5. LockFits'
  <2>1. CASE lock = [pid |-> p, written |-> FALSE]
    <3>1. lock' = [pid |-> p, written |-> TRUE]
      BY <1>1, <2>1, FillLockIs
    <3>2. lock'.pid = p /\ lock'.written = TRUE
      BY <3>1
    <3> QED
      BY <1>1, <3>2, FillLockIs DEF LockFits, Lockless, Moves, Only
  <2>2. CASE lock # [pid |-> p, written |-> FALSE]
    <3>1. lock' = lock
      BY <1>1, <2>2, FillLockIs
    <3>2. ASSUME lock # NoLock, lock.pid = p PROVE lock.written
      <4>1. lock.written \in BOOLEAN /\ lock = [pid |-> lock.pid, written |-> lock.written]
        BY <3>2 DEF BaseInv, Types, TypeOK, LockFile
      <4> QED
        BY <2>2, <3>2, <4>1
    <3>3. lock # NoLock => lock.pid \in Proc
      BY DEF BaseInv, Types, TypeOK, LockFile
    <3> QED
      BY <1>1, <3>1, <3>2, <3>3, FillLockIs DEF BaseInv, LockFits, Lockless, Moves, Only
  <2> QED
    BY <2>1, <2>2
<1>6. BusyFits'
  BY <1>1, <1>2, FillLockIs, BusyKept DEF Types, MemFits, HasRead, Asking, Moves, Only
<1> QED
  BY <1>2, <1>3, <1>4, <1>5, <1>6, FillLockIs DEF BaseInv

LEMMA ReadHolderBase ==
  ASSUME BaseInv, NEW p \in Shell \cup Spawned, ReadHolder(p)
  PROVE  BaseInv' /\ Forward
<1>1. Types /\ p \in Proc
  BY Procs DEF BaseInv, Detached
<1>2. PlacesFit' /\ Forward
  BY ReadHolderIs, Procs, Children
  DEF BaseInv, PlacesFit, BeforeSpawn, Forward, Moves, Only
<1>3. DiskFits'
  BY <1>2, ReadHolderIs, DiskKept DEF BaseInv
<1>4. ReadFits'
  BY <1>1, <1>2, ReadHolderIs, ReadKept DEF BaseInv, ReadFits
<1>5. LockFits'
  BY <1>1, ReadHolderIs, LockKept DEF BaseInv, Types, TypeOK, Lockless, Moves, Only
<1>6. BusyFits'
  BY <1>1, <1>2, ReadHolderIs, BusyKept DEF Types, MemFits, HasRead, Asking, Moves, Only
<1> QED
  BY <1>2, <1>3, <1>4, <1>5, <1>6, ReadHolderIs DEF BaseInv

LEMMA DropLockBase ==
  ASSUME BaseInv, NEW p \in Shell \cup Spawned, DropLock(p)
  PROVE  BaseInv' /\ Forward
<1>1. Types /\ p \in Proc
  BY Procs DEF BaseInv, Detached
<1>2. PlacesFit' /\ Forward
  BY DropLockIs, Procs, Children
  DEF BaseInv, PlacesFit, BeforeSpawn, Forward, Moves, Only
<1>3. DiskFits'
  BY <1>2, DropLockIs, DiskKept DEF BaseInv
<1>4. ReadFits'
  BY <1>1, <1>2, DropLockIs, ReadKept DEF BaseInv, ReadFits
<1>5. LockFits'
  BY <1>1, DropLockIs DEF LockFits
<1>6. BusyFits'
  BY <1>1, <1>2, DropLockIs, BusyKept DEF Types, MemFits, HasRead, Asking, Moves, Only
<1> QED
  BY <1>2, <1>3, <1>4, <1>5, <1>6, DropLockIs DEF BaseInv

LEMMA TakeOverBase ==
  ASSUME BaseInv, NEW p \in Shell \cup Spawned, TakeOver(p)
  PROVE  BaseInv' /\ Forward
<1>1. Types /\ p \in Proc
  BY Procs DEF BaseInv, Detached
<1>2. PlacesFit' /\ Forward
  BY TakeOverIs, Procs, Children
  DEF BaseInv, PlacesFit, BeforeSpawn, Forward, Ends, Moves, Only, Alive
<1>3. DiskFits'
  BY <1>2, TakeOverIs, DiskKept DEF BaseInv
<1>4. ReadFits'
  <2>1. PidFits(mem[p].pid)
    BY <1>1, TakeOverIs, MarksAssumption DEF BaseInv, ReadFits
  <2>2. CASE mem' = mem
    BY <1>1, <1>2, <2>1, <2>2, ReadKept DEF BaseInv
  <2>3. CASE Ends(p, mem[p], {"paused", "failed", "running"}, "own", "handoff")
    BY <1>1, <1>2, <2>1, <2>3, EndsReads DEF BaseInv
  <2> QED
    BY <1>1, <2>2, <2>3, TakeOverIs
<1>5. LockFits'
  <2>1. /\ \A q \in Proc \ {p} : pc'[q] \in {pc[q], "dead"}
        /\ pc[p] = "own" /\ pc'[p] \in {"handoff", "check"}
    BY <1>1, TakeOverIs DEF Ends, Moves, Only
  <2> QED
    BY <1>1, <2>1, TakeOverIs, LockKept DEF BaseInv, Types, TypeOK, Lockless
<1>6. BusyFits'
  BY <1>1, <1>2, TakeOverIs, BusyKept DEF Asking, Ends, Moves, Only, Alive
<1> QED
  BY <1>2, <1>3, <1>4, <1>5, <1>6, TakeOverIs DEF BaseInv

LEMMA SaveHandoffBase ==
  ASSUME BaseInv, NEW p \in Shell \cup Spawned, SaveHandoff(p)
  PROVE  BaseInv' /\ Forward
<1>1. Types /\ p \in Proc
  BY Procs DEF BaseInv, Detached
<1>2. PlacesFit' /\ Forward
  BY SaveHandoffIs, Procs, Children
  DEF BaseInv, PlacesFit, BeforeSpawn, Forward, Moves, Only
<1>3. DiskFits'
  BY <1>1, <1>2, SaveHandoffIs, DiskWritten, MarksAssumption DEF BaseInv, ReadFits
<1>4. ReadFits'
  BY <1>1, <1>2, SaveHandoffIs, ReadKept DEF BaseInv, ReadFits
<1>5. LockFits'
  BY <1>1, SaveHandoffIs, LockKept DEF BaseInv, Types, TypeOK, Lockless, Moves, Only
<1>6. BusyFits'
  BY <1>1, <1>2, SaveHandoffIs, BusyKept DEF Asking, Moves, Only
<1> QED
  BY <1>2, <1>3, <1>4, <1>5, <1>6, SaveHandoffIs DEF BaseInv

LEMMA ReconstructBase ==
  ASSUME BaseInv, NEW p \in Shell \cup Spawned, Reconstruct(p)
  PROVE  BaseInv' /\ Forward
<1>1. Types /\ p \in Proc
  BY Procs DEF BaseInv, Detached
<1>2. PlacesFit' /\ Forward
  BY ReconstructIs, Procs, Children
  DEF BaseInv, PlacesFit, BeforeSpawn, Forward, Moves, Only
<1>3. DiskFits'
  BY <1>1, <1>2, ReconstructIs, DiskKept, PidStays, NoOneFits
  DEF BaseInv, ReadFits, DiskFits, TERMINAL_BATCH_PHASES, Is, Writes
<1>4. ReadFits'
  BY <1>1, <1>2, ReconstructIs, ReadKept DEF BaseInv, ReadFits
<1>5. LockFits'
  BY <1>1, ReconstructIs, LockKept DEF BaseInv, Types, TypeOK, Lockless, Moves, Only
<1>6. BusyFits'
  BY <1>1, <1>2, ReconstructIs, BusyKept DEF Asking, Moves, Only
<1> QED
  BY <1>2, <1>3, <1>4, <1>5, <1>6, ReconstructIs DEF BaseInv

LEMMA ValidateBase ==
  ASSUME BaseInv, NEW p \in Shell \cup Spawned, Validate(p)
  PROVE  BaseInv' /\ Forward
<1>1. Types /\ p \in Proc
  BY Procs DEF BaseInv, Detached
<1>2. PlacesFit' /\ Forward
  BY ValidateIs, Procs, Children
  DEF BaseInv, PlacesFit, BeforeSpawn, Forward, Moves, Only
<1>3. DiskFits'
  BY <1>2, ValidateIs, DiskKept DEF BaseInv
<1>4. ReadFits'
  BY <1>1, <1>2, ValidateIs, ReadKept, NoOneFits
  DEF BaseInv, ReadFits, DiskFits, Reads, Only, Is
<1>5. LockFits'
  BY <1>1, ValidateIs, LockKept DEF BaseInv, Types, TypeOK, Lockless, Moves, Only
<1>6. BusyFits'
  BY <1>1, <1>2, ValidateIs, BusyKept DEF Asking, Moves, Only, Reads
<1> QED
  BY <1>2, <1>3, <1>4, <1>5, <1>6, ValidateIs DEF BaseInv

LEMMA ReopenGateBase ==
  ASSUME BaseInv, NEW p \in Shell \cup Spawned, ReopenGate(p)
  PROVE  BaseInv' /\ Forward
<1>1. Types /\ p \in Proc
  BY Procs DEF BaseInv, Detached
<1>2. PlacesFit' /\ Forward
  BY ReopenGateIs, Procs, Children
  DEF BaseInv, PlacesFit, BeforeSpawn, Forward, Moves, Only
<1>3. DiskFits'
  BY <1>1, <1>2, ReopenGateIs, DiskKept, PidStays, NoOneFits
  DEF BaseInv, ReadFits, DiskFits, TERMINAL_BATCH_PHASES, Is, Writes
<1>4. ReadFits'
  BY <1>1, <1>2, ReopenGateIs, ReadKept DEF BaseInv, ReadFits
<1>5. LockFits'
  BY <1>1, ReopenGateIs, LockFreed DEF BaseInv, Types, TypeOK, Moves, Only
<1>6. BusyFits'
  BY <1>1, <1>2, ReopenGateIs, BusyKept DEF Asking, Moves, Only
<1> QED
  BY <1>2, <1>3, <1>4, <1>5, <1>6, ReopenGateIs DEF BaseInv

LEMMA RefuseBase ==
  ASSUME BaseInv, NEW p \in Shell \cup Spawned, Refuse(p)
  PROVE  BaseInv' /\ Forward
<1>1. Types /\ p \in Proc
  BY Procs DEF BaseInv, Detached
<1>2. PlacesFit' /\ Forward
  BY RefuseIs, Procs, Children DEF BaseInv, PlacesFit, BeforeSpawn, Forward, Moves, Only
<1>3. DiskFits'
  BY <1>2, RefuseIs, DiskKept DEF BaseInv
<1>4. ReadFits'
  BY <1>1, <1>2, RefuseIs, ReadKept DEF BaseInv, ReadFits
<1>5. LockFits'
  BY <1>1, RefuseIs, LockFreed DEF BaseInv, Types, TypeOK, Moves, Only
<1>6. BusyFits'
  BY <1>1, <1>2, RefuseIs, BusyKept DEF Asking, Moves, Only
<1> QED
  BY <1>2, <1>3, <1>4, <1>5, <1>6, RefuseIs DEF BaseInv

LEMMA TakeOverLimboBase ==
  ASSUME BaseInv, NEW p \in Shell \cup Spawned, TakeOverLimbo(p)
  PROVE  BaseInv' /\ Forward
<1>1. Types /\ p \in Proc
  BY Procs DEF BaseInv, Detached
<1>2. PlacesFit' /\ Forward
  BY TakeOverLimboIs, Procs, Children
  DEF BaseInv, PlacesFit, BeforeSpawn, Forward, Ends, Moves, Only, Alive
<1>3. DiskFits'
  BY <1>2, TakeOverLimboIs, DiskKept DEF BaseInv
<1>4. ReadFits'
  <2>1. PidFits(disk.pid)
    BY <1>1, TakeOverLimboIs, MarksAssumption DEF BaseInv, DiskFits
  <2> QED
    BY <1>1, <1>2, <2>1, TakeOverLimboIs, EndsReads DEF BaseInv
<1>5. LockFits'
  <2>1. /\ \A q \in Proc \ {p} : pc'[q] \in {pc[q], "dead"}
        /\ pc[p] = "limbo" /\ pc'[p] = "claim"
    BY <1>1, TakeOverLimboIs DEF Ends
  <2> QED
    BY <1>1, <2>1, TakeOverLimboIs, LockKept DEF BaseInv, Types, TypeOK, Lockless
<1>6. BusyFits'
  BY <1>1, <1>2, TakeOverLimboIs, BusyKept DEF Asking, Ends, Moves, Only, Alive
<1> QED
  BY <1>2, <1>3, <1>4, <1>5, <1>6, TakeOverLimboIs DEF BaseInv

LEMMA MissLimboBase ==
  ASSUME BaseInv, NEW p \in Shell \cup Spawned, MissLimbo(p)
  PROVE  BaseInv' /\ Forward
<1>1. Types /\ p \in Proc
  BY Procs DEF BaseInv, Detached
<1>2. PlacesFit' /\ Forward
  BY MissLimboIs, Procs, Children
  DEF BaseInv, PlacesFit, BeforeSpawn, Forward, Moves, Only
<1>3. DiskFits'
  BY <1>2, MissLimboIs, DiskKept DEF BaseInv
<1>4. ReadFits'
  BY <1>1, <1>2, MissLimboIs, ReadKept DEF BaseInv, ReadFits
<1>5. LockFits'
  <2>1. CASE Moves(p, "limbo", "prepare") /\ lock' = lock
    BY <1>1, <2>1, LockKept DEF BaseInv, Types, TypeOK, Lockless, Moves, Only
  <2>2. CASE Moves(p, "limbo", "refused") /\ Freed(p)
    BY <1>1, <2>2, LockFreed DEF BaseInv, Types, TypeOK, Moves, Only
  <2> QED
    BY <1>1, <2>1, <2>2, MissLimboIs
<1>6. BusyFits'
  BY <1>1, <1>2, MissLimboIs, BusyKept DEF Asking, Moves, Only
<1> QED
  BY <1>2, <1>3, <1>4, <1>5, <1>6, MissLimboIs DEF BaseInv

LEMMA ClaimLimboBase ==
  ASSUME BaseInv, NEW p \in Shell \cup Spawned, ClaimLimbo(p)
  PROVE  BaseInv' /\ Forward
<1>1. Types /\ p \in Proc
  BY Procs DEF BaseInv, Detached
<1>2. PlacesFit' /\ Forward
  BY ClaimLimboIs, Procs, Children
  DEF BaseInv, PlacesFit, BeforeSpawn, Forward, Moves, Only
<1>3. DiskFits'
  BY <1>1, <1>2, ClaimLimboIs, DiskKept, PidStays, NoOneFits
  DEF BaseInv, ReadFits, DiskFits, TERMINAL_BATCH_PHASES, Is, Writes
<1>4. ReadFits'
  BY <1>1, <1>2, ClaimLimboIs, ReadKept DEF BaseInv, ReadFits
<1>5. LockFits'
  BY <1>1, ClaimLimboIs, LockKept DEF BaseInv, Types, TypeOK, Lockless, Moves, Only
<1>6. BusyFits'
  BY <1>1, <1>2, ClaimLimboIs, BusyKept DEF Asking, Moves, Only
<1> QED
  BY <1>2, <1>3, <1>4, <1>5, <1>6, ClaimLimboIs DEF BaseInv

LEMMA LandLimboBase ==
  ASSUME BaseInv, NEW p \in Shell \cup Spawned, LandLimbo(p)
  PROVE  BaseInv' /\ Forward
<1>1. Types /\ p \in Proc
  BY Procs DEF BaseInv, Detached
<1>2. PlacesFit' /\ Forward
  BY LandLimboIs, Procs, Children
  DEF BaseInv, PlacesFit, BeforeSpawn, Forward, Moves, Only
<1>3. DiskFits'
  BY <1>1, <1>2, LandLimboIs, DiskKept, PidStays, NoOneFits
  DEF BaseInv, ReadFits, DiskFits, TERMINAL_BATCH_PHASES, Is, Writes
<1>4. ReadFits'
  BY <1>1, <1>2, LandLimboIs, ReadKept DEF BaseInv, ReadFits
<1>5. LockFits'
  BY <1>1, LandLimboIs, LockFreed DEF BaseInv, Types, TypeOK, Moves, Only
<1>6. BusyFits'
  BY <1>1, <1>2, LandLimboIs, BusyKept DEF Asking, Moves, Only
<1> QED
  BY <1>2, <1>3, <1>4, <1>5, <1>6, LandLimboIs DEF BaseInv

LEMMA PrepareBase ==
  ASSUME BaseInv, NEW p \in Shell \cup Spawned, Prepare(p)
  PROVE  BaseInv' /\ Forward
<1>1. Types /\ p \in Proc
  BY Procs DEF BaseInv, Detached
<1>2. PlacesFit' /\ Forward
  BY PrepareIs, Procs, Children
  DEF BaseInv, PlacesFit, BeforeSpawn, Forward, Ends, Moves, Only, Alive
<1>3. DiskFits'
  BY <1>2, PrepareIs, DiskKept DEF BaseInv
<1>4. ReadFits'
  <2>1. PidFits(disk.pid)
    BY <1>1, PrepareIs, MarksAssumption DEF BaseInv, DiskFits
  <2>2. CASE Ends(p, disk, {"paused", "failed"}, "prepare", "save")
    BY <1>1, <1>2, <2>1, <2>2, EndsReads DEF BaseInv
  <2>3. CASE Is(mem'[p], disk.phase, NoOne, disk.left) /\ Reads(p, mem'[p])
    BY <1>1, <1>2, <2>3, ReadKept, NoOneFits DEF BaseInv, Reads, Only, Is
  <2> QED
    BY <1>1, <2>2, <2>3, PrepareIs
<1>5. LockFits'
  <2>1. /\ \A q \in Proc \ {p} : pc'[q] \in {pc[q], "dead"}
        /\ pc[p] = "prepare" /\ pc'[p] = "save"
    BY <1>1, PrepareIs DEF Ends, Moves, Only
  <2> QED
    BY <1>1, <2>1, PrepareIs, LockKept DEF BaseInv, Types, TypeOK, Lockless
<1>6. BusyFits'
  <2>1. /\ \A q \in Proc \ {p} : mem'[q] = mem[q] /\ pc'[q] \in {pc[q], "dead"}
        /\ pc'[p] = "save"
    BY <1>1, PrepareIs DEF Ends, Moves, Reads, Only
  <2> QED
    BY <1>1, <1>2, <2>1, PrepareIs, BusyKept DEF Asking
<1> QED
  BY <1>2, <1>3, <1>4, <1>5, <1>6, PrepareIs DEF BaseInv

LEMMA SavePreparedBase ==
  ASSUME BaseInv, NEW s \in Detached, SavePrepared(s)
  PROVE  BaseInv' /\ Forward
<1>1. Types /\ s \in Proc
  BY Procs DEF BaseInv, Detached
<1>2. PlacesFit' /\ Forward
  BY SavePreparedIs, Procs, Children
  DEF BaseInv, PlacesFit, BeforeSpawn, Forward, Moves, Only
<1>3. DiskFits'
  BY <1>1, <1>2, SavePreparedIs, DiskWritten, MarksAssumption DEF BaseInv, ReadFits
<1>4. ReadFits'
  BY <1>1, <1>2, SavePreparedIs, ReadKept DEF BaseInv, ReadFits
<1>5. LockFits'
  BY <1>1, SavePreparedIs, LockKept DEF BaseInv, Types, TypeOK, Lockless, Moves, Only
<1>6. BusyFits'
  BY <1>1, <1>2, SavePreparedIs, BusyKept DEF Asking, Moves, Only
<1> QED
  BY <1>2, <1>3, <1>4, <1>5, <1>6, SavePreparedIs DEF BaseInv

LEMMA SpawnBase ==
  ASSUME BaseInv, NEW s \in Detached, Spawn(s)
  PROVE  BaseInv' /\ Forward
<1>1. Types /\ s \in Proc
  BY Procs DEF BaseInv, Detached
<1>2. PlacesFit' /\ Forward
  BY SpawnIs, Procs, Children DEF BaseInv, PlacesFit, BeforeSpawn, Forward, Moves, Only
<1>3. DiskFits'
  BY <1>2, SpawnIs, DiskKept DEF BaseInv
<1>4. ReadFits'
  BY <1>1, <1>2, SpawnIs, ReadKept DEF BaseInv, ReadFits
<1>5. LockFits'
  <2>1. \A q \in Proc \ {s} : pc'[q] = pc[q] \/ pc[q] = "unborn"
    BY <1>1, SpawnIs DEF BaseInv, PlacesFit, BeforeSpawn
  <2> QED
    BY <1>1, <2>1, SpawnIs, LockKept DEF BaseInv, Types, TypeOK, Lockless
<1>6. BusyFits'
  BY <1>1, <1>2, SpawnIs, BusyKept DEF Asking, Moves, Only
<1> QED
  BY <1>2, <1>3, <1>4, <1>5, <1>6, SpawnIs DEF BaseInv

LEMMA LoadForPidBase ==
  ASSUME BaseInv, NEW s \in Detached, LoadForPid(s)
  PROVE  BaseInv' /\ Forward
<1>1. Types /\ s \in Proc
  BY Procs DEF BaseInv, Detached
<1>2. PlacesFit' /\ Forward
  BY LoadForPidIs, Procs, Children
  DEF BaseInv, PlacesFit, BeforeSpawn, Forward, Moves, Only
<1>3. DiskFits'
  BY <1>2, LoadForPidIs, DiskKept DEF BaseInv
<1>4. ReadFits'
  <2>1. PidFits(Child(s))
    BY <1>1, LoadForPidIs, Procs, Children, HandoffAssumption
       DEF BaseInv, PlacesFit, PidFits, Moves, Detached
  <2>2. mem'[s].pid = Child(s) /\ \A q \in Proc \ {s} : mem'[q] = mem[q]
    BY <1>1, LoadForPidIs DEF Reads, Only, Is
  <2> QED
    BY <1>1, <1>2, <2>1, <2>2, ReadKept DEF BaseInv
<1>5. LockFits'
  BY <1>1, LoadForPidIs, LockKept DEF BaseInv, Types, TypeOK, Lockless, Moves, Only
<1>6. BusyFits'
  BY <1>1, <1>2, LoadForPidIs, BusyKept DEF Asking, Moves, Only, Reads
<1> QED
  BY <1>2, <1>3, <1>4, <1>5, <1>6, LoadForPidIs DEF BaseInv

LEMMA PersistPidBase ==
  ASSUME BaseInv, NEW s \in Detached, PersistPid(s)
  PROVE  BaseInv' /\ Forward
<1>1. Types /\ s \in Proc
  BY Procs DEF BaseInv, Detached
<1>2. PlacesFit' /\ Forward
  BY PersistPidIs, Procs, Children
  DEF BaseInv, PlacesFit, BeforeSpawn, Forward, Moves, Only
<1>3. DiskFits'
  BY <1>1, <1>2, PersistPidIs, DiskKept, DiskWritten, MarksAssumption
  DEF BaseInv, ReadFits
<1>4. ReadFits'
  BY <1>1, <1>2, PersistPidIs, ReadKept DEF BaseInv, ReadFits
<1>5. LockFits'
  BY <1>1, PersistPidIs, LockKept DEF BaseInv, Types, TypeOK, Lockless, Moves, Only
<1>6. BusyFits'
  BY <1>1, <1>2, PersistPidIs, BusyKept DEF Asking, Moves, Only
<1> QED
  BY <1>2, <1>3, <1>4, <1>5, <1>6, PersistPidIs DEF BaseInv

LEMMA PollBase ==
  ASSUME BaseInv, NEW s \in Detached, Poll(s)
  PROVE  BaseInv' /\ Forward
<1>1. Types /\ s \in Proc
  BY Procs DEF BaseInv, Detached
<1>2. PlacesFit' /\ Forward
  BY PollIs, Procs, Children DEF BaseInv, PlacesFit, BeforeSpawn, Forward, Moves, Only
<1>3. DiskFits'
  BY <1>2, PollIs, DiskKept DEF BaseInv
<1>4. ReadFits'
  BY <1>1, <1>2, PollIs, ReadKept DEF BaseInv, ReadFits
<1>5. LockFits'
  BY <1>1, PollIs, LockFreed DEF BaseInv, Types, TypeOK, Moves, Only
<1>6. BusyFits'
  BY <1>1, <1>2, PollIs, BusyKept DEF Asking, Moves, Only
<1> QED
  BY <1>2, <1>3, <1>4, <1>5, <1>6, PollIs DEF BaseInv

LEMMA ClaimBase ==
  ASSUME BaseInv, NEW p \in Runner, Claim(p)
  PROVE  BaseInv' /\ Forward
<1>1. Types /\ p \in Proc
  BY Procs DEF BaseInv, Detached
<1>2. PlacesFit' /\ Forward
  BY ClaimIs, Procs, Children DEF BaseInv, PlacesFit, BeforeSpawn, Forward, Moves, Only
<1>3. DiskFits'
  <2>1. PidFits(p)'
    BY <1>1, ClaimIs, Procs DEF PidFits, Moves, Only
  <2>2. CASE disk' = disk
    BY <1>2, <2>2, DiskKept DEF BaseInv
  <2>3. CASE disk' = mem'[p]
    BY <1>1, <1>2, <2>1, <2>3, ClaimIs, DiskSet DEF TERMINAL_BATCH_PHASES
  <2> QED
    BY <1>1, <2>2, <2>3, ClaimIs
<1>4. ReadFits'
  <2>1. PidFits(p)'
    BY <1>1, ClaimIs, Procs DEF PidFits, Moves, Only
  <2>2. mem'[p].pid = p /\ \A q \in Proc \ {p} : mem'[q] = mem[q]
    BY <1>1, ClaimIs DEF Reads, Only, Is
  <2> QED
    BY <1>1, <1>2, <2>1, <2>2, ReadKept DEF BaseInv
<1>5. LockFits'
  <2>1. CASE lock' = lock
    BY <1>1, <2>1, ClaimIs, LockKept DEF BaseInv, Types, TypeOK, Lockless, Moves, Only
  <2>2. CASE Freed(p)
    BY <1>1, <2>2, ClaimIs, LockFreed DEF BaseInv, Types, TypeOK, Moves, Only
  <2> QED
    BY <1>1, <2>1, <2>2, ClaimIs
<1>6. BusyFits'
  BY <1>1, <1>2, ClaimIs, BusyKept DEF Asking, Moves, Only, Reads
<1> QED
  BY <1>2, <1>3, <1>4, <1>5, <1>6, ClaimIs DEF BaseInv

LEMMA AdvanceBase ==
  ASSUME BaseInv, NEW p \in Runner \cup {Old}, Advance(p)
  PROVE  BaseInv' /\ Forward
<1>1. Types /\ p \in Proc
  BY Procs DEF BaseInv, Detached
<1>2. PlacesFit' /\ Forward
  BY AdvanceIs, Procs, Children
  DEF BaseInv, PlacesFit, BeforeSpawn, Forward, Moves, Only
<1>3. DiskFits'
  <2>1. PidFits(mem'[p].pid)
    BY <1>1, AdvanceIs, MarksAssumption DEF BaseInv, ReadFits
  <2>2. CASE MayWrite(p)
    BY <1>1, <1>2, <2>1, <2>2, AdvanceIs, DiskWritten
  <2>3. CASE ~MayWrite(p)
    BY <1>1, <1>2, <2>3, AdvanceIs, DiskKept DEF BaseInv
  <2> QED
    BY <2>2, <2>3
<1>4. ReadFits'
  <2>1. PidFits(mem'[p].pid)
    BY <1>1, AdvanceIs, MarksAssumption DEF BaseInv, ReadFits
  <2> QED
    BY <1>1, <1>2, <2>1, AdvanceIs, ReadKept DEF BaseInv, Reads, Only
<1>5. LockFits'
  BY <1>1, AdvanceIs, LockKept DEF BaseInv, Types, TypeOK, Lockless, Moves, Only
<1>6. BusyFits'
  BY <1>1, <1>2, AdvanceIs, BusyKept DEF Asking, Moves, Only, Reads
<1> QED
  BY <1>2, <1>3, <1>4, <1>5, <1>6, AdvanceIs DEF BaseInv

LEMMA FinishBase ==
  ASSUME BaseInv, NEW p \in Runner \cup {Old}, NEW phase \in Phase \ {"running"}, Finish(p, phase)
  PROVE  BaseInv' /\ Forward
<1>1. Types /\ p \in Proc
  BY Procs DEF BaseInv, Detached
<1>2. PlacesFit' /\ Forward
  BY FinishIs, Procs, Children DEF BaseInv, PlacesFit, BeforeSpawn, Forward, Moves, Only
<1>3. DiskFits'
  <2>1. PidFits(mem[p].pid)
    BY <1>1, FinishIs, MarksAssumption DEF BaseInv, ReadFits
  <2>2. CASE disk' = disk
    BY <1>2, <2>2, DiskKept DEF BaseInv
  <2> DEFINE x == IF phase \in TERMINAL_BATCH_PHASES THEN NoOne ELSE mem[p].pid
  <2>3. CASE Is(disk', phase, x, mem[p].left)
    <3>1. PidFits(x) /\ (phase \in TERMINAL_BATCH_PHASES => x = NoOne)
      BY <2>1, NoOneFits
    <3> QED
      BY <1>2, <2>3, <3>1, DiskSet
  <2> QED
    BY <1>1, <2>2, <2>3, FinishIs
<1>4. ReadFits'
  BY <1>1, <1>2, FinishIs, ReadKept DEF BaseInv, ReadFits
<1>5. LockFits'
  BY <1>1, FinishIs, LockKept DEF BaseInv, Types, TypeOK, Lockless, Moves, Only
<1>6. BusyFits'
  BY <1>1, <1>2, FinishIs, BusyKept DEF Asking, Moves, Only
<1> QED
  BY <1>2, <1>3, <1>4, <1>5, <1>6, FinishIs DEF BaseInv

LEMMA ExitBase ==
  ASSUME BaseInv, NEW p \in Runner \cup {Old}, Exit(p)
  PROVE  BaseInv' /\ Forward
<1>1. Types /\ p \in Proc
  BY Procs DEF BaseInv, Detached
<1>2. PlacesFit' /\ Forward
  BY ExitIs, Procs, Children DEF BaseInv, PlacesFit, BeforeSpawn, Forward, Moves, Only
<1>3. DiskFits'
  BY <1>2, ExitIs, DiskKept DEF BaseInv
<1>4. ReadFits'
  BY <1>1, <1>2, ExitIs, ReadKept DEF BaseInv, ReadFits
<1>5. LockFits'
  BY <1>1, ExitIs, LockFreed DEF BaseInv, Types, TypeOK, Moves, Only
<1>6. BusyFits'
  BY <1>1, <1>2, ExitIs, BusyKept DEF Asking, Moves, Only
<1> QED
  BY <1>2, <1>3, <1>4, <1>5, <1>6, ExitIs DEF BaseInv

LEMMA ParentLostBase ==
  ASSUME BaseInv, NEW p \in Proc, ParentLost(p)
  PROVE  BaseInv' /\ Forward
<1>1. Types /\ p \in Proc
  BY Procs DEF BaseInv, Detached
<1>2. PlacesFit' /\ Forward
  BY ParentLostIs, Procs, Children
  DEF BaseInv, PlacesFit, BeforeSpawn, Forward, Moves, Only
<1>3. DiskFits'
  BY <1>1, <1>2, ParentLostIs, DiskKept, PidStays, NoOneFits
  DEF BaseInv, ReadFits, DiskFits, TERMINAL_BATCH_PHASES, Is, Writes
<1>4. ReadFits'
  BY <1>1, <1>2, ParentLostIs, ReadKept DEF BaseInv, ReadFits
<1>5. LockFits'
  BY <1>1, ParentLostIs, LockKept DEF BaseInv, Types, TypeOK, Lockless, Moves, Only
<1>6. BusyFits'
  BY <1>1, <1>2, ParentLostIs, BusyKept DEF Asking, Moves, Only
<1> QED
  BY <1>2, <1>3, <1>4, <1>5, <1>6, ParentLostIs DEF BaseInv

LEMMA UncaughtBase ==
  ASSUME BaseInv, NEW p \in Proc, Uncaught(p)
  PROVE  BaseInv' /\ Forward
<1>1. Types /\ p \in Proc
  BY Procs DEF BaseInv, Detached
<1>2. PlacesFit' /\ Forward
  BY UncaughtIs, Procs, Children
  DEF BaseInv, PlacesFit, BeforeSpawn, Forward, Moves, Only
<1>3. DiskFits'
  BY <1>1, <1>2, UncaughtIs, DiskKept, PidStays, NoOneFits
  DEF BaseInv, ReadFits, DiskFits, TERMINAL_BATCH_PHASES, Is, Writes
<1>4. ReadFits'
  BY <1>1, <1>2, UncaughtIs, ReadKept DEF BaseInv, ReadFits
<1>5. LockFits'
  BY <1>1, UncaughtIs, LockKept DEF BaseInv, Types, TypeOK, Lockless, Moves, Only
<1>6. BusyFits'
  BY <1>1, <1>2, UncaughtIs, BusyKept DEF Asking, Moves, Only
<1> QED
  BY <1>2, <1>3, <1>4, <1>5, <1>6, UncaughtIs DEF BaseInv

LEMMA KilledBase ==
  ASSUME BaseInv, NEW p \in Proc, Killed(p)
  PROVE  BaseInv' /\ Forward
<1>1. Types /\ p \in Proc
  BY Procs DEF BaseInv, Detached
<1>2. PlacesFit' /\ Forward
  BY KilledIs, Procs, Children DEF BaseInv, PlacesFit, BeforeSpawn, Forward, Alive, Only
<1>3. DiskFits'
  BY <1>2, KilledIs, DiskKept DEF BaseInv
<1>4. ReadFits'
  BY <1>1, <1>2, KilledIs, ReadKept DEF BaseInv, ReadFits
<1>5. LockFits'
  BY <1>1, KilledIs, LockKept DEF BaseInv, Types, TypeOK, Lockless, Alive, Only
<1>6. BusyFits'
  BY <1>1, <1>2, KilledIs, BusyKept DEF Asking, Alive, Only
<1> QED
  BY <1>2, <1>3, <1>4, <1>5, <1>6, KilledIs DEF BaseInv

LEMMA BaseInit ==
  ASSUME Init
  PROVE  BaseInv
<1>1. disk = NoState \/ (disk \in State /\ disk.pid \in {Old, NoOne})
  BY Procs DEF Init, State
<1>2. /\ lock = NoLock /\ mem = [p \in Proc |-> disk]
      /\ tries = [p \in Proc |-> "first"]
      /\ newer = {} /\ written = {} /\ slips = {}
      /\ report = [s \in Shell |-> "none"]
  BY DEF Init
<1>3. PICK old \in {"working", "dead"} :
        /\ old = "working" => disk # NoState
        /\ pc = [p \in Proc |-> IF p = Old THEN old
                                ELSE IF p \in Spawned THEN "unborn" ELSE "new"]
  BY DEF Init
<1>4. /\ pc[Old] \in {"working", "dead"}
      /\ \A p \in Spawned : pc[p] = "unborn"
      /\ \A p \in Shell : pc[p] = "new"
      /\ pc \in [Proc -> PC]
  BY <1>3, Procs, HandoffAssumption DEF PC
<1>5. Types
  <2>1. mem \in [Proc -> State \cup {NoState}] /\ \A p \in Proc : mem[p] = disk
    BY <1>1, <1>2
  <2>2. \A p \in Proc : pc[p] \notin HasRead \/ (p = Old /\ disk # NoState)
    BY <1>3 DEF HasRead
  <2>3. \A p \in Proc : pc[p] # "check" /\ (pc[p] = "working" => p = Old /\ disk # NoState)
    BY <1>3
  <2>4. TypeOK
    BY <1>1, <1>2, <1>4, <2>1, <2>3 DEF TypeOK
  <2>5. MemFits
    BY <2>1, <2>2, <2>3 DEF MemFits
  <2> QED
    BY <2>4, <2>5 DEF Types
<1>6. PlacesFit
  <2>1. ASSUME NEW s \in Detached
        PROVE  pc[s] = "new" /\ pc[Child(s)] = "unborn"
    BY <1>4, Procs, Children
  <2>2. ASSUME NEW p \in Attached PROVE pc[p] = "new"
    BY <1>4, Procs
  <2>3. ASSUME NEW p \in Spawned PROVE pc[p] = "unborn"
    BY <1>4
  <2> QED
    BY <1>4, <2>1, <2>2, <2>3 DEF PlacesFit, Runner
<1>7. PidFits(Old) /\ PidFits(NoOne)
  BY <1>4, Procs, NoOneFits, HandoffAssumption DEF PidFits
<1>8. DiskFits
  BY <1>1, <1>7 DEF DiskFits, Init
<1>9. ReadFits
  BY <1>1, <1>2, <1>7 DEF ReadFits
<1>10. LockFits /\ BusyFits
  BY <1>2, <1>3 DEF LockFits, BusyFits, Asking
<1> QED
  BY <1>5, <1>6, <1>8, <1>9, <1>10 DEF BaseInv

LEMMA BaseStep ==
  ASSUME BaseInv, [Next]_vars
  PROVE  BaseInv'
<1>1. ASSUME NEW p \in Shell \cup Spawned, Enforce(p) PROVE BaseInv'
  BY <1>1, LoadBase, CheckOwnerBase, CreateLockBase, LockExistsBase, FillLockBase,
     ReadHolderBase, DropLockBase, TakeOverBase, SaveHandoffBase DEF Enforce
<1>2. ASSUME NEW p \in Shell \cup Spawned, Check(p) PROVE BaseInv'
  BY <1>2, ReconstructBase, ValidateBase, ReopenGateBase, RefuseBase DEF Check
<1>3. ASSUME NEW p \in Shell \cup Spawned, Land(p) PROVE BaseInv'
  BY <1>3, TakeOverLimboBase, MissLimboBase, ClaimLimboBase, LandLimboBase DEF Land
<1>4. ASSUME NEW p \in Shell \cup Spawned, Prepare(p) PROVE BaseInv'
  BY <1>4, PrepareBase
<1>5. ASSUME NEW s \in Detached, Launch(s) PROVE BaseInv'
  BY <1>5, SavePreparedBase, SpawnBase, LoadForPidBase, PersistPidBase, PollBase
  DEF Launch
<1>6. ASSUME NEW p \in Runner, Claim(p) PROVE BaseInv'
  BY <1>6, ClaimBase
<1>7. ASSUME NEW p \in Runner \cup {Old}, Advance(p) \/ End(p) \/ Exit(p)
      PROVE  BaseInv'
  BY <1>7, AdvanceBase, FinishBase, ExitBase DEF End
<1>8. ASSUME NEW p \in Proc, ParentLost(p) \/ Uncaught(p) \/ Killed(p)
      PROVE  BaseInv'
  BY <1>8, ParentLostBase, UncaughtBase, KilledBase
<1>9. CASE UNCHANGED vars
  <2>1. Forward
    BY <1>9 DEF vars, Forward
  <2>2. UNCHANGED <<disk, lock, mem, tries, newer, report, written, slips, pc>>
    BY <1>9 DEF vars
  <2>3. Types' /\ PlacesFit'
    BY <2>2 DEF BaseInv, Types, TypeOK, MemFits, PlacesFit
  <2>4. DiskFits' /\ ReadFits' /\ LockFits'
    BY <2>2 DEF BaseInv, DiskFits, ReadFits, PidFits, LockFits
  <2>5. BusyFits'
    BY <2>2 DEF BaseInv, BusyFits, Idle, Alive
  <2> QED
    BY <2>3, <2>4, <2>5 DEF BaseInv
<1> QED
  BY <1>1, <1>2, <1>3, <1>4, <1>5, <1>6, <1>7, <1>8, <1>9 DEF Next, Resume, Detached

(* Every variable keeps its type (TypeOK).                                   *)
THEOREM HandoffTypes == Spec => []TypeOK
<1>1. Init => BaseInv
  BY BaseInit
<1>2. BaseInv /\ [Next]_vars => BaseInv'
  BY BaseStep
<1>3. BaseInv => TypeOK
  BY DEF BaseInv, Types
<1> QED
  BY <1>1, <1>2, <1>3, PTL DEF Spec

(* Whoever has taken the handoff lock and goes, by whatever way but its      *)
(* death, has given it back.                                                 *)
THEOREM LockComesBack == Spec => []LockIsGivenBack
<1>1. Init => BaseInv
  BY BaseInit
<1>2. BaseInv /\ [Next]_vars => BaseInv'
  BY BaseStep
<1>3. BaseInv => LockIsGivenBack
  BY DEF BaseInv, LockFits, Lockless, LockIsGivenBack
<1> QED
  BY <1>1, <1>2, <1>3, PTL DEF Spec

---------------------------------------------------------------------------
(* A working engine that owns a running batch with tasks is ended by no      *)
(* forced resume, short of the slips.                                        *)
Owns(w) ==
  /\ w \in Proc /\ w \notin Mortal /\ pc[w] = "working" /\ disk # NoState
  /\ disk.phase = "running" /\ disk.pid = w /\ disk.left = "tasks"

LEMMA EndsNoWork ==
  ASSUME NEW w, Owns(w), NEW p \in Proc, NEW phases, NEW from, NEW to,
         Ends(p, disk, phases, from, to), "running" \notin phases,
         from # "working"
  PROVE  pc'[w] # "dead"
  BY DEF Ends, Ending, Limbo, Owns

LEMMA WorkStays ==
  ASSUME BaseInv, Next, NEW w, Owns(w), slips' = {}
  PROVE  pc'[w] # "dead"
<1> USE DEF Moves, Only
<1>1. Types
  BY DEF BaseInv
<1>2. w \in Proc /\ pc[w] = "working" /\ w \notin Mortal
  BY DEF Owns
<1>3. ASSUME NEW p \in Shell \cup Spawned, Enforce(p), ~TakeOver(p) PROVE pc'[w] # "dead"
  BY <1>1, <1>2, <1>3, LoadIs, CheckOwnerIs, CreateLockIs, LockExistsIs, FillLockIs,
     ReadHolderIs, DropLockIs, SaveHandoffIs DEF Enforce
<1>4. ASSUME NEW p \in Shell \cup Spawned, TakeOver(p) PROVE pc'[w] # "dead"
  <2>1. p \in Proc
    BY Procs
  <2>2. CASE mem[p] = disk /\ Ends(p, mem[p], {"paused", "failed", "running"}, "own", "handoff")
    <3>1. pc[p] \in Asking
      BY <2>2 DEF Ends, Asking
    <3>2. Idle(p)
      BY <2>1, <3>1 DEF BaseInv, BusyFits
    <3>3. Alive(w)
      BY <1>2 DEF Alive
    <3> QED
      BY <2>2, <3>2, <3>3 DEF Idle, Owns
  <2>3. CASE Moves(p, "own", "check")
    BY <1>2, <2>3
  <2> QED
    BY <1>1, <1>4, <2>2, <2>3, TakeOverIs
<1>5. ASSUME NEW p \in Shell \cup Spawned, Check(p) PROVE pc'[w] # "dead"
  BY <1>1, <1>2, <1>5, ReconstructIs, ValidateIs, ReopenGateIs, RefuseIs DEF Check
<1>6. ASSUME NEW p \in Shell \cup Spawned, TakeOverLimbo(p) PROVE pc'[w] # "dead"
  BY <1>1, <1>6, Procs, TakeOverLimboIs, EndsNoWork
<1>7. ASSUME NEW p \in Shell \cup Spawned, MissLimbo(p) \/ ClaimLimbo(p) \/ LandLimbo(p)
      PROVE  pc'[w] # "dead"
  BY <1>1, <1>2, <1>7, MissLimboIs, ClaimLimboIs, LandLimboIs
<1>8. ASSUME NEW p \in Shell \cup Spawned, Prepare(p) PROVE pc'[w] # "dead"
  BY <1>1, <1>2, <1>8, Procs, PrepareIs, EndsNoWork
<1>9. ASSUME NEW s \in Detached, Launch(s) PROVE pc'[w] # "dead"
  BY <1>1, <1>2, <1>9, SavePreparedIs, SpawnIs, LoadForPidIs, PersistPidIs, PollIs
  DEF Launch
<1>10. ASSUME NEW p \in Runner, Claim(p) PROVE pc'[w] # "dead"
  BY <1>1, <1>2, <1>10, ClaimIs
<1>11. ASSUME NEW p \in Runner \cup {Old}, Advance(p) \/ End(p) \/ Exit(p)
      PROVE  pc'[w] # "dead"
  BY <1>1, <1>2, <1>11, AdvanceIs, FinishIs, ExitIs DEF End
<1>12. ASSUME NEW p \in Proc, ParentLost(p) \/ Uncaught(p) \/ Killed(p)
      PROVE  pc'[w] # "dead"
  BY <1>1, <1>2, <1>12, ParentLostIs, UncaughtIs, KilledIs
<1> QED
  BY <1>3, <1>4, <1>5, <1>6, <1>7, <1>8, <1>9, <1>10, <1>11, <1>12
  DEF Next, Resume, Land, Detached

(* A forced resume ends no engine that owns a running batch and has tasks,   *)
(* whoever dies or crashes, short of the slips (WorkGoesOn).                 *)
THEOREM ResumesEndNoWork == Spec => WorkGoesOn
<1> DEFINE A == disk # NoState => slips' # {} \/ \A p \in Proc : LosesNoWork(p)
<1>1. Init => BaseInv
  BY BaseInit
<1>2. BaseInv /\ [Next]_vars => BaseInv'
  BY BaseStep
<1>3. BaseInv /\ [Next]_vars => [A]_vars
  <2>1. ASSUME BaseInv, Next, disk # NoState, slips' = {}, NEW p \in Proc
        PROVE  LosesNoWork(p)
    BY <2>1, WorkStays DEF LosesNoWork, Owns
  <2> QED
    BY <2>1
<1> QED
  BY <1>1, <1>2, <1>3, PTL DEF Spec, WorkGoesOn

---------------------------------------------------------------------------
(* What holds besides as long as nothing has slipped, a child starts and     *)
(* claims in time, and the shells that wait for one live.                    *)

Calm == Timely /\ Mortal \cap Detached = {}

Named(m, p) == m # NoState /\ m.pid = p

(* The holder of the lock: from its creation to the end, but for a child     *)
(* that needs none, since it is the recorded owner.                          *)
Sect == {"check", "limbo", "claim", "land", "prepare", "save", "spawn", "pid",
         "persist", "poll"}
Locked(p) ==
  \/ pc[p] \in {"fill", "own", "handoff"}
  \/ pc[p] \in Sect /\ (p \in Spawned => ~Named(mem[p], p))
LockHeld ==
  \A p \in Proc : Locked(p) =>
    /\ pc[p] = "fill" => lock = [pid |-> p, written |-> FALSE]
    /\ pc[p] # "fill" => lock = [pid |-> p, written |-> TRUE]

(* Who works is the recorded owner of a batch that runs; only the old engine *)
(* may be in a batch that was paused.                                        *)
WorkerOwns ==
  \A p \in Proc : pc[p] = "working" =>
    /\ disk = mem[p] /\ disk.pid = p
    /\ disk.phase = "running" \/ (disk.phase = "paused" /\ p = Old)

(* Of those that stop only the old engine may still be recorded.             *)
ExitFits == \A p \in Proc : pc[p] = "exiting" /\ Named(disk, p) => p = Old

(* A child that has not claimed the batch knows whether it is the owner; if  *)
(* it is, it refuses itself in a running batch, and claims a paused one, for *)
(* which its shell keeps the lock meanwhile.                                 *)
AfterLoad == {"loaded", "create", "fill", "holder", "drop", "own", "handoff",
              "check", "limbo", "claim", "land", "prepare", "save"}
ChildRuns(s) ==
  /\ disk.phase = "running" /\ disk.left # "none"
  /\ pc[Child(s)] \in {"new", "loaded", "check"}
ChildWaits(s) ==
  /\ disk.phase = "paused" /\ pc[s] = "poll" /\ disk = mem[s]
  /\ pc[Child(s)] \in {"new", "loaded", "check", "prepare", "save"}
  /\ pc[Child(s)] = "prepare" => mem[Child(s)].phase = "paused"
ChildFit(s) ==
  /\ pc[Child(s)] \in AfterLoad =>
       (Named(mem[Child(s)], Child(s)) <=> Named(disk, Child(s)))
  /\ pc[Child(s)] \in AfterLoad \cup {"new"} /\ Named(disk, Child(s)) =>
       ChildRuns(s) \/ ChildWaits(s)
  /\ pc[s] \in {"pid", "persist"} => pc[Child(s)] \in {"new", "dead"}
ChildFits == \A s \in Detached : ChildFit(s)

(* As long as the old engine lives and is recorded, every resume has seen it *)
(* and none has passed the lock.                                             *)
Asks == {"loaded"} \cup Asking
PastOwn == {"handoff"} \cup Sect
OldSeen ==
  Alive(Old) /\ Named(disk, Old) =>
    \A p \in Proc : /\ pc[p] \in Asks => Named(mem[p], Old)
                    /\ pc[p] \notin PastOwn

(* With the lock held past a point, no live engine is recorded, so that      *)
(* nobody else writes: what the holder has read is what is there.            *)
Quiet(p) ==
  /\ pc[p] \in {"handoff", "claim", "land", "prepare", "save", "spawn", "pid",
                "persist"} => ~Alive(disk.pid)
  /\ pc[p] = "limbo" /\ Alive(disk.pid) => Limbo(disk)
  /\ pc[p] \in {"claim", "save", "persist"} =>
       mem[p].phase = disk.phase /\ mem[p].left = disk.left
  /\ pc[p] \in {"claim", "save"} => mem[p].pid = NoOne
  /\ pc[p] = "persist" => mem[p].pid = Child(p)
  /\ pc[p] \in {"prepare", "save", "spawn", "pid", "persist"} => ~Limbo(disk)
  /\ pc[p] \in {"prepare", "save"} /\ p \in Runner => disk.phase # "completed"
HeldQuiet == \A p \in Proc : Locked(p) => Quiet(p)

Held == /\ LockHeld /\ WorkerOwns /\ ExitFits /\ ChildFits /\ OldSeen
        /\ HeldQuiet

(* A step of p leaves the others where they are, kills them, or bears the    *)
(* child of p; it kills no waiting shell.                                    *)
Frame(p) ==
  /\ \A q \in Proc \ {p} :
       /\ mem'[q] = mem[q]
       /\ \/ pc'[q] = pc[q] \/ pc'[q] = "dead"
          \/ p \in Detached /\ q = Child(p) /\ pc[q] = "unborn" /\ pc'[q] = "new"
  /\ \A s \in Detached \ {p} : pc'[s] = pc[s]
Fades == \A q \in Proc : Named(disk', q) => Named(disk, q)

LEMMA OneHolder ==
  ASSUME LockHeld, NEW p \in Proc, NEW q \in Proc, Locked(p), Locked(q)
  PROVE  p = q
<1>1. lock.pid = p
  BY DEF LockHeld
<1>2. lock.pid = q
  BY DEF LockHeld
<1> QED
  BY <1>1, <1>2

LEMMA LockedStays ==
  ASSUME NEW p \in Proc, Frame(p), NEW q \in Proc, q # p, Locked(q)'
  PROVE  Locked(q) /\ pc'[q] = pc[q] /\ mem'[q] = mem[q]
  BY DEF Frame, Locked, Sect

LEMMA LockStays ==
  ASSUME LockHeld, NEW p \in Proc, Frame(p), lock' = lock \/ Freed(p),
         Locked(p)' => /\ lock' = lock /\ Locked(p)
                       /\ pc[p] = "fill" <=> pc'[p] = "fill"
  PROVE  LockHeld'
<1>1. ASSUME NEW q \in Proc, q # p, Locked(q)'
      PROVE  /\ pc'[q] = "fill" => lock' = [pid |-> q, written |-> FALSE]
             /\ pc'[q] # "fill" => lock' = [pid |-> q, written |-> TRUE]
  <2>1. Locked(q) /\ pc'[q] = pc[q]
    BY <1>1, LockedStays
  <2>2. /\ pc[q] = "fill" => lock = [pid |-> q, written |-> FALSE]
        /\ pc[q] # "fill" => lock = [pid |-> q, written |-> TRUE]
    BY <2>1 DEF LockHeld
  <2>3. lock.pid = q
    BY <2>2
  <2>4. lock' = lock
    BY <1>1, <2>3 DEF Freed
  <2> QED
    BY <2>1, <2>2, <2>4
<1>2. ASSUME Locked(p)'
      PROVE  /\ pc'[p] = "fill" => lock' = [pid |-> p, written |-> FALSE]
             /\ pc'[p] # "fill" => lock' = [pid |-> p, written |-> TRUE]
  BY <1>2 DEF LockHeld
<1> QED
  BY <1>1, <1>2 DEF LockHeld

LEMMA WorkersStay ==
  ASSUME WorkerOwns, NEW p \in Proc, Frame(p), disk' = disk, pc'[p] # "working"
  PROVE  WorkerOwns'
  BY DEF WorkerOwns, Frame

LEMMA ExitsStay ==
  ASSUME ExitFits, NEW p \in Proc, Frame(p), Fades, pc'[p] # "exiting"
  PROVE  ExitFits'
  BY DEF ExitFits, Frame, Fades, Named

LEMMA OldStays ==
  ASSUME OldSeen, NEW p \in Proc, Frame(p), Forward, Fades, pc[Old] # "unborn",
         \/ pc[p] \in PastOwn
         \/ pc'[p] \notin PastOwn \cup Asks
         \/ pc[p] \in Asks /\ pc'[p] \in Asks /\ mem'[p] = mem[p]
  PROVE  OldSeen'
<1>1. Alive(Old)' => Alive(Old)
  BY Procs, NoneRevives
<1>2. Named(disk, Old)' => Named(disk, Old)
  BY Procs DEF Fades, Named
<1>3. /\ "dead" \notin PastOwn \cup Asks /\ "new" \notin PastOwn \cup Asks
      /\ Asks \cap PastOwn = {}
  BY DEF PastOwn, Sect, Asks, Asking
<1>4. ASSUME Alive(Old), Named(disk, Old), NEW q \in Proc
      PROVE  (pc'[q] \in Asks => Named(mem[q], Old)') /\ pc'[q] \notin PastOwn
  <2>1. (pc[q] \in Asks => Named(mem[q], Old)) /\ pc[q] \notin PastOwn
    BY <1>4 DEF OldSeen
  <2>2. CASE q = p
    BY <1>3, <2>1, <2>2 DEF Named
  <2>3. CASE q # p
    BY <1>3, <2>1, <2>3 DEF Frame, Named
  <2> QED
    BY <2>2, <2>3
<1> QED
  BY <1>1, <1>2, <1>4 DEF OldSeen

LEMMA QuietStays ==
  ASSUME BaseInv, HeldQuiet, NEW p \in Proc, Frame(p), Forward, disk' = disk,
         Locked(p)' => Quiet(p)'
  PROVE  HeldQuiet'
<1>1. ASSUME NEW q \in Proc, q # p, Locked(q)'
      PROVE  Quiet(q)'
  <2>1. Quiet(q) /\ pc'[q] = pc[q] /\ mem'[q] = mem[q]
    BY <1>1, LockedStays DEF HeldQuiet
  <2>2. pc[q] \in HasRead \/ pc[q] \in {"check", "fill", "own"}
    BY <1>1, LockedStays DEF Locked, Sect, HasRead
  <2>3. pc[q] \in HasRead => disk # NoState
    BY DEF BaseInv, Types, MemFits
  <2>4. disk # NoState /\ disk.pid \in Proc => pc[disk.pid] # "unborn"
    BY Procs DEF BaseInv, DiskFits, PidFits, PlacesFit, Runner
  <2>5. disk # NoState /\ ~Alive(disk.pid) => ~Alive(disk.pid)'
    BY <2>4, NoneRevives
  <2> QED
    BY <2>1, <2>3, <2>5 DEF Quiet, HasRead, Limbo
<1> QED
  BY <1>1 DEF HeldQuiet

LEMMA ChildStays ==
  ASSUME NEW p \in Proc, Frame(p), disk' = disk, NEW s \in Detached, ChildFit(s),
         p # s, p # Child(s)
  PROVE  ChildFit(s)'
<1>1. Child(s) \in Proc /\ pc'[s] = pc[s] /\ mem'[s] = mem[s]
  BY Procs, Children DEF Frame
<1>2. /\ mem'[Child(s)] = mem[Child(s)]
      /\ pc'[Child(s)] = pc[Child(s)] \/ pc'[Child(s)] = "dead"
  BY <1>1, Children DEF Frame
<1> HIDE DEF Child
<1>3. "dead" \notin AfterLoad \cup {"new"}
  BY DEF AfterLoad
<1> QED
  BY <1>1, <1>2, <1>3 DEF ChildFit, ChildRuns, ChildWaits, Named

(* A shell that moves before it has spawned its child.                       *)
LEMMA ShellMoves ==
  ASSUME BaseInv, NEW s \in Detached, pc[s] \in BeforeSpawn,
         pc'[Child(s)] = pc[Child(s)], pc'[s] \notin {"pid", "persist"}
  PROVE  ChildFit(s)'
<1>1. pc[Child(s)] = "unborn"
  BY DEF BaseInv, PlacesFit
<1> HIDE DEF Child
<1> QED
  BY <1>1 DEF ChildFit, AfterLoad

(* A child that is not the owner, or that goes.                              *)
LEMMA ChildMoves ==
  ASSUME NEW s \in Detached, NEW p, p = Child(s), Frame(p), Forward,
         ChildFit(s), disk' = disk,
         \/ pc'[p] \notin AfterLoad \cup {"new"} /\ (pc[p] # "new" \/ pc'[p] = "dead")
         \/ /\ pc[p] \in AfterLoad /\ pc'[p] \in AfterLoad
            /\ ~Named(disk, p) /\ ~Named(mem'[p], p)
  PROVE  ChildFit(s)'
<1>1. s # p /\ p \in Proc /\ s \in Proc
  BY Procs, Children, HandoffAssumption
<1>2. pc'[s] = pc[s]
  BY <1>1 DEF Frame
<1> HIDE DEF Child
<1>3. pc'[s] \in {"pid", "persist"} => pc'[p] \in {"new", "dead"}
  BY <1>1, <1>2 DEF ChildFit, AfterLoad, Forward
<1> QED
  BY <1>3 DEF ChildFit, Named

LEMMA ChildrenStay ==
  ASSUME ChildFits, NEW p \in Proc, Frame(p), disk' = disk,
         p \in Detached => ChildFit(p)',
         \A s \in Detached : p = Child(s) => ChildFit(s)'
  PROVE  ChildFits'
<1>1. ASSUME NEW s \in Detached PROVE ChildFit(s)'
  <2>1. CASE p # s /\ p # Child(s)
    BY <2>1, ChildStays DEF ChildFits
  <2> QED
    BY <2>1
<1> QED
  BY <1>1 DEF ChildFits

(* A step that leaves the state alone.                                       *)
LEMMA MoveKeeps ==
  ASSUME BaseInv, Forward, Held, NEW p \in Proc, Frame(p), disk' = disk,
         pc'[p] \notin {"working", "exiting"}, LockHeld',
         Locked(p)' => Quiet(p)',
         \/ pc[p] \in PastOwn
         \/ pc'[p] \notin PastOwn \cup Asks
         \/ pc[p] \in Asks /\ pc'[p] \in Asks /\ mem'[p] = mem[p]
         \/ OldSeen',
         p \in Detached => ChildFit(p)',
         \A s \in Detached : p = Child(s) => ChildFit(s)'
  PROVE  Held'
<1>1. Fades
  BY DEF Fades
<1>2. pc[Old] # "unborn"
  BY DEF BaseInv, PlacesFit
<1>3. OldSeen'
  BY <1>1, <1>2, OldStays DEF Held
<1> QED
  BY <1>1, <1>3, WorkersStay, ExitsStay, ChildrenStay, QuietStays DEF Held

(* Who is recorded, and alive.                                               *)
LEMMA NotOwner ==
  ASSUME BaseInv, ChildFits, NEW p \in Shell \cup Spawned,
         \/ Locked(p)
         \/ pc[p] \in Asking \cup {"limbo", "claim", "land"}
  PROVE  ~Named(disk, p) /\ ~Named(mem[p], p)
<1>1. p \in Proc
  BY Procs
<1>2. ASSUME p \in Shell, NEW m, m # NoState => PidFits(m.pid)
      PROVE  ~Named(m, p)
  <2>1. pc[p] \notin {"working", "exiting", "done", "dead"}
    BY DEF Locked, Sect, Asking
  <2> QED
    BY <1>2, <2>1, Procs DEF Named, PidFits, Detached
<1>3. CASE p \in Shell
  BY <1>1, <1>2, <1>3 DEF BaseInv, DiskFits, ReadFits
<1>4. CASE p \in Spawned
  <2>1. PICK s \in Detached : p = Child(s)
    BY <1>4, Children
  <2>2. ChildFit(s)
    BY DEF ChildFits
  <2> HIDE DEF Child
  <2>3. pc[p] \in AfterLoad
    BY <1>4, Procs DEF BaseInv, PlacesFit, Locked, Sect, Asking, AfterLoad, Runner
  <2>4. CASE Locked(p) /\ pc[p] \in Sect
    BY <1>4, <2>1, <2>2, <2>3, <2>4 DEF ChildFit, Locked, Sect
  <2>5. CASE pc[p] \in Asking \cup {"handoff", "limbo", "claim", "land"}
    BY <2>1, <2>2, <2>3, <2>5 DEF ChildFit, ChildRuns, ChildWaits, Asking
  <2> QED
    BY <2>4, <2>5 DEF Locked, Asking
<1> QED
  BY <1>3, <1>4

(* A live process that is recorded works, or is a child that has not claimed *)
(* the batch, or is the old engine.                                          *)
LEMMA LiveOwner ==
  ASSUME BaseInv, WorkerOwns, ExitFits, ChildFits, disk # NoState, Alive(disk.pid),
         disk.pid # Old
  PROVE  \/ pc[disk.pid] = "working" /\ disk.phase = "running"
         \/ \E s \in Detached : /\ disk.pid = Child(s) /\ (ChildRuns(s) \/ ChildWaits(s))
                               /\ pc[disk.pid] \in AfterLoad \cup {"new"}
<1> DEFINE x == disk.pid
<1>1. x \in Proc /\ x \in Runner /\ PidFits(x)
  BY Procs DEF BaseInv, DiskFits, PidFits, Alive
<1>2. Named(disk, x)
  BY DEF Named
<1> HIDE DEF x
<1>3. pc[x] # "exiting"
  BY <1>1, <1>2 DEF ExitFits, x
<1>4. CASE pc[x] = "working"
  BY <1>1, <1>4 DEF WorkerOwns, x
<1>5. CASE pc[x] # "working"
  <2>1. x \in Spawned
    BY <1>1, <1>3, <1>5 DEF PidFits, Runner, Alive, x
  <2>2. PICK s \in Detached : x = Child(s)
    BY <2>1, Children
  <2>3. pc[x] \in PC /\ pc[x] \notin {"unborn", "refused", "done", "dead"}
    BY <1>1 DEF BaseInv, Types, TypeOK, Alive, x
  <2>4. pc[x] \in AfterLoad \cup {"new"}
    BY <1>1, <1>3, <1>5, <2>3 DEF BaseInv, PlacesFit, PC, AfterLoad
  <2>5. ChildFit(s)
    BY DEF ChildFits
  <2> HIDE DEF Child
  <2> QED
    BY <1>2, <2>2, <2>4, <2>5 DEF ChildFit, x
<1> QED
  BY <1>4, <1>5

LEMMA OnlyFrame ==
  ASSUME NEW p \in Proc, NEW to, Only(pc, pc', p, to),
         mem' = mem \/ \E m : Reads(p, m)
  PROVE  Frame(p)
<1>1. \A q \in Proc \ {p} : mem'[q] = mem[q] /\ pc'[q] = pc[q]
  BY DEF Only, Reads
<1> QED
  BY <1>1, Procs DEF Frame

LEMMA EndsFrame ==
  ASSUME NEW p \in Proc, NEW m, NEW phases, NEW from, NEW to,
         Ends(p, m, phases, from, to), PidFits(m.pid)
  PROVE  Frame(p)
<1>1. \A q \in Proc \ {p} :
        /\ mem'[q] = mem[q]
        /\ pc'[q] \in {pc[q], "dead"}
        /\ q # m.pid => pc'[q] = pc[q]
  BY DEF Ends
<1>2. m.pid \notin Detached
  BY PidFits(m.pid) DEF PidFits
<1> QED
  BY <1>1, <1>2, Procs DEF Frame

LEMMA ForwardOf ==
  ASSUME NEW p \in Proc, NEW to, Only(pc, pc', p, to), to # "unborn",
         pc[p] \in {"working", "exiting"} => to \in {"exiting", "done", "dead"},
         pc[p] \notin {"refused", "done", "dead"}
  PROVE  Forward
  BY DEF Only, Forward

(* A process that goes, with the lock or without.                            *)
LEMMA LeaveKeeps ==
  ASSUME BaseInv, Held, Forward, NEW p \in Proc, NEW to \in {"refused", "done", "dead"},
         Only(pc, pc', p, to), mem' = mem, disk' = disk,
         lock' = lock \/ Freed(p) \/ LockHeld',
         p \in Detached => pc[p] \in BeforeSpawn,
         pc[p] # "new" \/ to = "dead"
  PROVE  Held'
<1>1. Frame(p) /\ pc'[p] = to
  BY OnlyFrame DEF Only
<1>2. pc'[p] \notin {"working", "exiting"} \cup PastOwn \cup Asks \cup AfterLoad \cup {"new"}
  BY <1>1 DEF PastOwn, Sect, Asks, Asking, AfterLoad
<1>3. ~Locked(p)'
  BY <1>1 DEF Locked, Sect
<1>4. LockHeld'
  BY <1>1, <1>3, LockStays DEF Held
<1>5. ASSUME p \in Detached PROVE ChildFit(p)'
  <2>1. pc'[Child(p)] = pc[Child(p)]
    BY <1>5, Procs, Children, HandoffAssumption DEF Only
  <2> QED
    BY <1>1, <1>5, <2>1, ShellMoves
<1>6. ASSUME NEW s \in Detached, p = Child(s) PROVE ChildFit(s)'
  BY <1>1, <1>2, <1>6, ChildMoves DEF Held, ChildFits
<1> QED
  BY <1>1, <1>2, <1>3, <1>4, <1>5, <1>6, MoveKeeps

(* A process on its way to the lock.                                         *)
LEMMA AskKeeps ==
  ASSUME BaseInv, Held, Forward, NEW p \in Shell \cup Spawned,
         NEW to \in {"create", "fill", "holder", "drop", "own"},
         Only(pc, pc', p, to), mem' = mem, disk' = disk, LockHeld',
         pc[p] \in Asks, ~Named(disk, p) /\ ~Named(mem[p], p)
  PROVE  Held'
<1>1. p \in Proc /\ Frame(p) /\ pc'[p] = to
  BY Procs, OnlyFrame DEF Only
<1>2. pc'[p] \notin {"working", "exiting"} /\ pc[p] \in AfterLoad /\ pc'[p] \in AfterLoad
  BY <1>1 DEF Asks, Asking, AfterLoad
<1>3. Quiet(p)'
  BY <1>1 DEF Quiet
<1>4. ASSUME p \in Detached PROVE ChildFit(p)'
  <2>1. pc'[Child(p)] = pc[Child(p)]
    BY <1>4, Procs, Children, HandoffAssumption DEF Only
  <2>2. pc[p] \in BeforeSpawn
    BY DEF Asks, Asking, BeforeSpawn
  <2> QED
    BY <1>1, <1>4, <2>1, <2>2, ShellMoves
<1>5. ASSUME NEW s \in Detached, p = Child(s) PROVE ChildFit(s)'
  BY <1>1, <1>2, <1>5, ChildMoves DEF Held, ChildFits
<1>6. pc'[p] \in Asks
  BY <1>1 DEF Asks, Asking
<1> QED
  BY <1>1, <1>2, <1>3, <1>4, <1>5, <1>6, MoveKeeps

LEMMA LoadHeld ==
  ASSUME Calm, BaseInv, Held, NEW p \in Shell \cup Spawned, Load(p)
  PROVE  Held'
<1>1. Types /\ p \in Proc /\ Forward
  BY Procs, LoadBase DEF BaseInv
<1>2. Moves(p, "new", "loaded") /\ Reads(p, disk) /\ disk' = disk /\ lock' = lock
  BY <1>1, LoadIs
<1>3. Frame(p) /\ pc[p] = "new" /\ pc'[p] = "loaded" /\ mem'[p] = disk
  BY <1>1, <1>2, OnlyFrame DEF Moves, Reads, Only
<1>4. ~Locked(p)'
  BY <1>3 DEF Locked, Sect
<1>5. LockHeld'
  BY <1>1, <1>2, <1>3, <1>4, LockStays DEF Held
<1>6. ASSUME p \in Detached PROVE ChildFit(p)'
  <2>1. pc'[Child(p)] = pc[Child(p)]
    BY <1>2, <1>6, Procs, Children, HandoffAssumption DEF Moves, Only
  <2> QED
    BY <1>3, <1>6, <2>1, ShellMoves DEF BeforeSpawn
<1>7. ASSUME NEW s \in Detached, p = Child(s) PROVE ChildFit(s)'
  <2>1. p \in Spawned /\ p[1] = s /\ s # p /\ s \in Proc
    BY <1>7, Children, Procs, HandoffAssumption
  <2>2. pc'[s] = pc[s] /\ mem'[s] = mem[s] /\ pc[s] \notin {"pid", "persist"}
    BY <1>1, <1>3, <2>1, LoadIs DEF Frame, Calm
  <2>3. ChildFit(s)
    BY DEF Held, ChildFits
  <2> HIDE DEF Child
  <2> QED
    BY <1>2, <1>3, <1>7, <2>2, <2>3
    DEF ChildFit, ChildRuns, ChildWaits, Named, AfterLoad
<1>8. Fades /\ pc[Old] # "unborn"
  BY <1>2 DEF Fades, BaseInv, PlacesFit
<1>9. OldSeen'
  <2>1. Alive(Old)' => Alive(Old)
    BY <1>1, <1>8, Procs, NoneRevives
  <2>2. ASSUME Alive(Old), Named(disk, Old), NEW q \in Proc
        PROVE  (pc'[q] \in Asks => Named(mem[q], Old)') /\ pc'[q] \notin PastOwn
    <3>1. (pc[q] \in Asks => Named(mem[q], Old)) /\ pc[q] \notin PastOwn
      BY <2>2 DEF Held, OldSeen
    <3>2. CASE q = p
      BY <1>3, <2>2, <3>2 DEF Named, PastOwn, Sect
    <3>3. CASE q # p
      BY <1>3, <3>1, <3>3 DEF Frame, Named, PastOwn, Sect, Asks, Asking
    <3> QED
      BY <3>2, <3>3
  <2> QED
    BY <1>2, <2>1, <2>2 DEF OldSeen, Named
<1> QED
  BY <1>1, <1>2, <1>3, <1>4, <1>5, <1>6, <1>7, <1>8, <1>9,
     WorkersStay, ExitsStay, ChildrenStay, QuietStays DEF Held

LEMMA CheckOwnerHeld ==
  ASSUME Calm, BaseInv, Held, NEW p \in Shell \cup Spawned, CheckOwner(p), slips' = {}
  PROVE  Held'
<1>1. Types /\ p \in Proc /\ Forward
  BY Procs, CheckOwnerBase DEF BaseInv
<1>2. disk' = disk /\ lock' = lock /\ mem' = mem
  BY <1>1, CheckOwnerIs
<1>3. CASE Moves(p, "loaded", "refused")
  BY <1>1, <1>2, <1>3, LeaveKeeps DEF Moves, BeforeSpawn
<1>4. CASE Moves(p, "loaded", "create") /\ mem[p] \in State /\ mem[p].pid # p
  <2>1. ~Named(mem[p], p)
    BY <1>4 DEF Named
  <2>2. ~Named(disk, p)
    <3>1. CASE p \in Shell
      BY <1>4, <3>1, Procs DEF Moves, Named, BaseInv, DiskFits, PidFits, Detached
    <3>2. CASE p \in Spawned
      <4>1. PICK s \in Detached : p = Child(s)
        BY <3>2, Children
      <4>2. ChildFit(s)
        BY DEF Held, ChildFits
      <4> HIDE DEF Child
      <4> QED
        BY <1>4, <2>1, <4>1, <4>2 DEF ChildFit, Moves, AfterLoad
    <3> QED
      BY <3>1, <3>2
  <2>3. Frame(p) /\ ~Locked(p)'
    BY <1>1, <1>2, <1>4, OnlyFrame DEF Moves, Only, Locked, Sect
  <2>4. LockHeld'
    BY <1>1, <1>2, <2>3, LockStays DEF Held
  <2> QED
    BY <1>1, <1>2, <1>4, <2>1, <2>2, <2>4, AskKeeps DEF Moves, Asks
<1>5. CASE Moves(p, "loaded", "check") /\ mem[p] \in State /\ mem[p].pid = p
  <2>1. Named(mem[p], p) /\ Frame(p) /\ pc[p] = "loaded" /\ pc'[p] = "check"
    BY <1>1, <1>2, <1>5, OnlyFrame, MarksAssumption DEF Named, Moves, Only
  <2>2. p \in Spawned
    BY <1>1, <1>5, <2>1, Procs DEF Named, BaseInv, ReadFits, PidFits, Detached
  <2>3. ~Locked(p)'
    BY <1>2, <2>1, <2>2 DEF Locked
  <2>4. LockHeld'
    BY <1>1, <1>2, <2>1, <2>3, LockStays DEF Held
  <2>5. ASSUME NEW s \in Detached, p = Child(s) PROVE ChildFit(s)'
    <3>1. s # p /\ s \in Proc
      BY <2>2, Procs, HandoffAssumption
    <3>2. pc'[s] = pc[s] /\ mem'[s] = mem[s]
      BY <1>2, <2>1, <3>1 DEF Frame
    <3>3. ChildFit(s)
      BY DEF Held, ChildFits
    <3> HIDE DEF Child
    <3> QED
      BY <1>2, <2>1, <2>5, <3>2, <3>3
      DEF ChildFit, ChildRuns, ChildWaits, Named, AfterLoad
  <2>6. p \notin Detached
    BY <2>2, Procs, HandoffAssumption
  <2>7. ~(Alive(Old) /\ Named(disk, Old))
    BY <1>1, <2>1, <2>2, HandoffAssumption DEF Held, OldSeen, Asks, Named
  <2>8. OldSeen'
    <3>1. pc[Old] # "unborn"
      BY DEF BaseInv, PlacesFit
    <3>2. Alive(Old)' => Alive(Old)
      BY <1>1, <3>1, Procs, NoneRevives
    <3> QED
      BY <1>2, <2>7, <3>2 DEF OldSeen, Named
  <2>9. Fades
    BY <1>2 DEF Fades
  <2> QED
    BY <1>1, <1>2, <2>1, <2>3, <2>4, <2>5, <2>6, <2>8, <2>9,
       WorkersStay, ExitsStay, ChildrenStay, QuietStays DEF Held
<1> QED
  BY <1>1, <1>3, <1>4, <1>5, CheckOwnerIs

LEMMA AskingPlaces ==
  ASSUME NEW p \in Proc, pc[p] \in Asking
  PROVE  /\ pc[p] \in Asks /\ pc[p] # "new"
         /\ p \in Detached => pc[p] \in BeforeSpawn
  BY DEF Asking, Asks, BeforeSpawn

(* The lock is nobody's.                                                     *)
LEMMA NobodyLocked ==
  ASSUME LockHeld, lock = NoLock \/ ~Alive(lock.pid), NEW q \in Proc
  PROVE  ~Locked(q)
<1> SUFFICES ASSUME Locked(q) PROVE FALSE
  OBVIOUS
<1>1. PICK w \in BOOLEAN : lock = [pid |-> q, written |-> w]
  BY DEF LockHeld
<1>2. Alive(q)
  BY DEF Alive, Locked, Sect
<1>3. lock.pid = q /\ lock \in LockFile
  BY <1>1 DEF LockFile
<1> QED
  BY <1>2, <1>3, MarksAssumption

LEMMA CreateLockHeld ==
  ASSUME Calm, BaseInv, Held, NEW p \in Shell \cup Spawned, CreateLock(p)
  PROVE  Held'
<1>1. Types /\ p \in Proc /\ Forward
  BY Procs, CreateLockBase DEF BaseInv
<1>2. /\ lock = NoLock /\ Moves(p, "create", "fill")
      /\ lock' = [pid |-> p, written |-> FALSE] /\ disk' = disk /\ mem' = mem
  BY <1>1, CreateLockIs
<1>3. Frame(p) /\ pc[p] = "create" /\ pc'[p] = "fill" /\ Only(pc, pc', p, "fill")
  BY <1>1, <1>2, OnlyFrame DEF Moves, Only
<1>4. pc[p] \in Asking
  BY <1>3 DEF Asking
<1>5. ~Named(disk, p) /\ ~Named(mem[p], p)
  BY <1>4, NotOwner DEF Held
<1>6. LockHeld'
  <2>1. \A q \in Proc \ {p} : ~Locked(q)'
    BY <1>1, <1>2, <1>3, NobodyLocked, LockedStays DEF Held
  <2> QED
    BY <1>2, <1>3, <2>1 DEF LockHeld
<1> QED
  BY <1>1, <1>2, <1>3, <1>4, <1>5, <1>6, AskingPlaces, AskKeeps

LEMMA LockExistsHeld ==
  ASSUME Calm, BaseInv, Held, NEW p \in Shell \cup Spawned, LockExists(p)
  PROVE  Held'
<1>1. Types /\ p \in Proc /\ Forward
  BY Procs, LockExistsBase DEF BaseInv
<1>2. disk' = disk /\ lock' = lock /\ mem' = mem
  BY <1>1, LockExistsIs
<1>3. PICK to \in {"refused", "holder"} : Moves(p, "create", to)
  BY <1>1, LockExistsIs
<1>4. Frame(p) /\ pc[p] = "create" /\ pc'[p] = to /\ Only(pc, pc', p, to)
  BY <1>1, <1>2, <1>3, OnlyFrame DEF Moves, Only
<1>5. pc[p] \in Asking
  BY <1>4 DEF Asking
<1>6. ~Named(disk, p) /\ ~Named(mem[p], p)
  BY <1>5, NotOwner DEF Held
<1>7. LockHeld'
  <2>1. ~Locked(p)'
    BY <1>4 DEF Locked, Sect
  <2> QED
    BY <1>1, <1>2, <1>4, <2>1, LockStays DEF Held
<1>8. CASE to = "refused"
  BY <1>1, <1>2, <1>4, <1>5, <1>8, AskingPlaces, LeaveKeeps
<1>9. CASE to = "holder"
  BY <1>1, <1>2, <1>4, <1>5, <1>6, <1>7, <1>9, AskingPlaces, AskKeeps
<1> QED
  BY <1>8, <1>9

LEMMA FillLockHeld ==
  ASSUME Calm, BaseInv, Held, NEW p \in Shell \cup Spawned, FillLock(p)
  PROVE  Held'
<1>1. Types /\ p \in Proc /\ Forward
  BY Procs, FillLockBase DEF BaseInv
<1>2. /\ Moves(p, "fill", "own") /\ disk' = disk /\ mem' = mem
      /\ lock' = IF lock = [pid |-> p, written |-> FALSE]
                 THEN [pid |-> p, written |-> TRUE] ELSE lock
  BY <1>1, FillLockIs
<1>3. Frame(p) /\ pc[p] = "fill" /\ pc'[p] = "own" /\ Only(pc, pc', p, "own")
  BY <1>1, <1>2, OnlyFrame DEF Moves, Only
<1>4. pc[p] \in Asking /\ Locked(p)
  BY <1>3 DEF Asking, Locked
<1>5. ~Named(disk, p) /\ ~Named(mem[p], p)
  BY <1>4, NotOwner DEF Held
<1>6. LockHeld'
  <2>1. \A q \in Proc \ {p} : ~Locked(q)'
    BY <1>1, <1>3, <1>4, OneHolder, LockedStays DEF Held
  <2>2. lock = [pid |-> p, written |-> FALSE]
    BY <1>1, <1>3, <1>4 DEF Held, LockHeld
  <2> QED
    BY <1>2, <1>3, <2>1, <2>2 DEF LockHeld
<1> QED
  BY <1>1, <1>2, <1>3, <1>4, <1>5, <1>6, AskingPlaces, AskKeeps

LEMMA ReadHolderHeld ==
  ASSUME Calm, BaseInv, Held, NEW p \in Shell \cup Spawned, ReadHolder(p)
  PROVE  Held'
<1>1. Types /\ p \in Proc /\ Forward
  BY Procs, ReadHolderBase DEF BaseInv
<1>2. disk' = disk /\ lock' = lock /\ mem' = mem
  BY <1>1, ReadHolderIs
<1>3. PICK to \in {"refused", "drop"} : Moves(p, "holder", to)
  BY <1>1, ReadHolderIs
<1>4. Frame(p) /\ pc[p] = "holder" /\ pc'[p] = to /\ Only(pc, pc', p, to)
  BY <1>1, <1>2, <1>3, OnlyFrame DEF Moves, Only
<1>5. pc[p] \in Asking
  BY <1>4 DEF Asking
<1>6. ~Named(disk, p) /\ ~Named(mem[p], p)
  BY <1>5, NotOwner DEF Held
<1>7. LockHeld'
  <2>1. ~Locked(p)'
    BY <1>4 DEF Locked, Sect
  <2> QED
    BY <1>1, <1>2, <1>4, <2>1, LockStays DEF Held
<1>8. CASE to = "refused"
  BY <1>1, <1>2, <1>4, <1>5, <1>8, AskingPlaces, LeaveKeeps
<1>9. CASE to = "drop"
  BY <1>1, <1>2, <1>4, <1>5, <1>6, <1>7, <1>9, AskingPlaces, AskKeeps
<1> QED
  BY <1>8, <1>9

LEMMA DropLockHeld ==
  ASSUME Calm, BaseInv, Held, NEW p \in Shell \cup Spawned, DropLock(p), slips' = {}
  PROVE  Held'
<1>1. Types /\ p \in Proc /\ Forward
  BY Procs, DropLockBase DEF BaseInv
<1>2. disk' = disk /\ mem' = mem /\ (lock = NoLock \/ ~Alive(lock.pid))
  BY <1>1, DropLockIs
<1>3. PICK to \in {"refused", "create"} : Moves(p, "drop", to)
  BY <1>1, DropLockIs
<1>4. Frame(p) /\ pc[p] = "drop" /\ pc'[p] = to /\ Only(pc, pc', p, to)
  BY <1>1, <1>2, <1>3, OnlyFrame DEF Moves, Only
<1>5. pc[p] \in Asking
  BY <1>4 DEF Asking
<1>6. ~Named(disk, p) /\ ~Named(mem[p], p)
  BY <1>5, NotOwner DEF Held
<1>7. LockHeld'
  <2>1. \A q \in Proc \ {p} : ~Locked(q)'
    BY <1>1, <1>2, <1>4, NobodyLocked, LockedStays DEF Held
  <2>2. ~Locked(p)'
    BY <1>4 DEF Locked, Sect
  <2> QED
    BY <2>1, <2>2 DEF LockHeld
<1>8. CASE to = "refused"
  BY <1>1, <1>2, <1>4, <1>5, <1>7, <1>8, AskingPlaces, LeaveKeeps
<1>9. CASE to = "create"
  BY <1>1, <1>2, <1>4, <1>5, <1>6, <1>7, <1>9, AskingPlaces, AskKeeps
<1> QED
  BY <1>8, <1>9

LEMMA RefuseHeld ==
  ASSUME Calm, BaseInv, Held, NEW p \in Shell \cup Spawned, Refuse(p)
  PROVE  Held'
<1>1. Types /\ p \in Proc /\ Forward
  BY Procs, RefuseBase DEF BaseInv
<1>2. Moves(p, "check", "refused") /\ Freed(p) /\ disk' = disk /\ mem' = mem
  BY <1>1, RefuseIs
<1> QED
  BY <1>1, <1>2, LeaveKeeps DEF Moves, BeforeSpawn

LEMMA ExitHeld ==
  ASSUME Calm, BaseInv, Held, NEW p \in Runner \cup {Old}, Exit(p)
  PROVE  Held'
<1>1. Types /\ p \in Proc /\ Forward /\ p \notin Detached
  BY Procs, ExitBase DEF BaseInv
<1>2. Moves(p, "exiting", "done") /\ Freed(p) /\ disk' = disk /\ mem' = mem
  BY <1>1, ExitIs
<1> QED
  BY <1>1, <1>2, LeaveKeeps DEF Moves

LEMMA KilledHeld ==
  ASSUME Calm, BaseInv, Held, NEW p \in Proc, Killed(p)
  PROVE  Held'
<1>1. Types /\ Forward
  BY KilledBase DEF BaseInv
<1>2. /\ p \in Mortal /\ Only(pc, pc', p, "dead")
      /\ disk' = disk /\ lock' = lock /\ mem' = mem
  BY <1>1, KilledIs
<1> QED
  BY <1>1, <1>2, LeaveKeeps DEF Calm

LEMMA TakeOverHeld ==
  ASSUME Calm, BaseInv, Held, NEW p \in Shell \cup Spawned, TakeOver(p), slips' = {}
  PROVE  Held'
<1>1. Types /\ p \in Proc /\ Forward
  BY Procs, TakeOverBase DEF BaseInv
<1>2. /\ mem[p] \in State /\ disk \in State /\ disk' = disk /\ lock' = lock
      /\ pc'[p] = "check" => ~Other(p, mem[p])
  BY <1>1, TakeOverIs
<1>3. pc[p] = "own" /\ Locked(p)
  BY <1>1, TakeOverIs DEF Moves, Ends, Locked
<1>4. ~Named(disk, p) /\ ~Named(mem[p], p)
  BY <1>3, NotOwner DEF Held
<1>5. ASSUME p \in Detached PROVE pc[Child(p)] = "unborn"
  BY <1>3, <1>5 DEF BaseInv, PlacesFit, BeforeSpawn
<1>6. CASE Ends(p, disk, {"paused", "failed", "running"}, "own", "handoff")
           /\ mem[p] = disk /\ Other(p, disk)
  <2>1. Frame(p) /\ pc'[p] = "handoff"
    BY <1>1, <1>2, <1>6, MarksAssumption, EndsFrame DEF BaseInv, DiskFits, Ends
  <2>2. Ending(disk, {"paused", "failed", "running"})
    BY <1>2, <1>6, States, HandoffAssumption
    DEF BaseInv, DiskFits, Other, Alive, Ending, Phase, TERMINAL_BATCH_PHASES
  <2>3. pc'[disk.pid] = "dead" /\ Is(mem'[p], disk.phase, NoOne, disk.left)
    BY <1>6, <2>2 DEF Ends, Other, Alive
  <2>4. ~Alive(disk.pid)'
    BY <1>2, <2>3 DEF Alive
  <2>5. ~Named(mem'[p], p)
    BY <1>1, <2>3, HandoffAssumption DEF Is, Named
  <2>6. LockHeld'
    BY <1>1, <1>2, <1>3, <2>1, LockStays DEF Held, Locked
  <2>7. OldSeen'
    BY <1>2, <2>4 DEF OldSeen, Named
  <2>8. Quiet(p)'
    BY <2>1, <2>4 DEF Quiet
  <2>9. ASSUME p \in Detached PROVE ChildFit(p)'
    <3>1. Child(p) \in Proc \ {p} /\ Child(p) # disk.pid
      BY <1>5, <1>6, <2>9, Procs, Children, HandoffAssumption DEF Other, Alive
    <3>2. pc'[Child(p)] = pc[Child(p)]
      BY <1>6, <3>1 DEF Ends
    <3> QED
      BY <1>3, <2>1, <2>9, <3>2, ShellMoves DEF BeforeSpawn
  <2>10. ASSUME NEW s \in Detached, p = Child(s) PROVE ChildFit(s)'
    BY <1>1, <1>2, <1>3, <1>4, <2>1, <2>5, <2>10, ChildMoves
    DEF Held, ChildFits, AfterLoad
  <2> QED
    BY <1>1, <1>2, <2>1, <2>6, <2>7, <2>8, <2>9, <2>10, MoveKeeps
<1>7. CASE Moves(p, "own", "check") /\ mem' = mem
  <2>1. Frame(p) /\ pc'[p] = "check"
    BY <1>1, <1>7, OnlyFrame DEF Moves, Only
  <2>2. LockHeld'
    <3>1. Locked(p)'
      BY <1>4, <1>7, <2>1 DEF Locked, Sect
    <3> QED
      BY <1>1, <1>2, <1>3, <2>1, LockStays DEF Held
  <2>3. ~(Alive(Old) /\ Named(disk, Old))
    <3> SUFFICES ASSUME Alive(Old), Named(disk, Old) PROVE FALSE
      OBVIOUS
    <3>1. Named(mem[p], Old)
      BY <1>1, <1>3 DEF Held, OldSeen, Asks, Asking
    <3>2. Old # p
      BY <1>4, <3>1
    <3> QED
      BY <1>2, <2>1, <3>1, <3>2 DEF Other, Named
  <2>4. OldSeen'
    <3>1. Alive(Old)' => Alive(Old)
      BY <1>1, Procs, NoneRevives DEF BaseInv, PlacesFit
    <3> QED
      BY <1>2, <2>3, <3>1 DEF OldSeen, Named
  <2>5. Quiet(p)'
    BY <2>1 DEF Quiet
  <2>6. ASSUME p \in Detached PROVE ChildFit(p)'
    <3>1. pc'[Child(p)] = pc[Child(p)]
      BY <1>7, <2>6, Procs, Children, HandoffAssumption DEF Moves, Only
    <3> QED
      BY <1>3, <2>1, <2>6, <3>1, ShellMoves DEF BeforeSpawn
  <2>7. ASSUME NEW s \in Detached, p = Child(s) PROVE ChildFit(s)'
    BY <1>1, <1>2, <1>3, <1>4, <1>7, <2>1, <2>7, ChildMoves
    DEF Held, ChildFits, AfterLoad
  <2> QED
    BY <1>1, <1>2, <2>1, <2>2, <2>4, <2>5, <2>6, <2>7, MoveKeeps
<1> QED
  BY <1>1, <1>6, <1>7, TakeOverIs

(* At the check nobody who lives is recorded in a batch that may be resumed, *)
(* but a child for itself.                                                   *)
LEMMA CheckedIdle ==
  ASSUME BaseInv, Held, NEW p \in Proc, pc[p] = "check", Locked(p), disk # NoState,
         Acceptable(disk), ~Limbo(disk), disk.phase # "completed"
  PROVE  ~Alive(disk.pid)
<1> SUFFICES ASSUME Alive(disk.pid) PROVE FALSE
  OBVIOUS
<1>1. disk.pid # Old
  BY DEF Held, OldSeen, PastOwn, Sect, Named
<1>2. disk.phase # "running"
  BY DEF Acceptable, ConfirmedDead
<1>3. PICK s \in Detached : ChildWaits(s)
  BY <1>1, <1>2, LiveOwner DEF Held, ChildRuns
<1>4. s \in Proc /\ Locked(s) /\ s # p
  BY <1>3, Procs, HandoffAssumption DEF ChildWaits, Locked, Sect, Detached
<1> QED
  BY <1>4, OneHolder DEF Held

LEMMA ValidateHeld ==
  ASSUME Calm, BaseInv, Held, NEW p \in Shell \cup Spawned, Validate(p)
  PROVE  Held'
<1>1. Types /\ p \in Proc /\ Forward
  BY Procs, ValidateBase DEF BaseInv
<1>2. /\ disk \in State /\ Acceptable(disk) /\ Reads(p, disk)
      /\ disk.phase = "completed" => p \notin Runner
      /\ disk' = disk /\ lock' = lock
  BY <1>1, ValidateIs
<1>3. PICK to \in {"limbo", "prepare"} :
        Moves(p, "check", to) /\ (to = "limbo" <=> Limbo(disk))
  BY <1>1, ValidateIs
<1>4. Frame(p) /\ pc[p] = "check" /\ pc'[p] = to /\ mem'[p] = disk
  BY <1>1, <1>2, <1>3, OnlyFrame DEF Moves, Only, Reads
<1>5. ASSUME NEW s \in Detached, p = Child(s) PROVE ChildFit(s)' /\ (Locked(p)' => Locked(p))
  <2>1. s # p /\ s \in Proc /\ p \in Spawned
    BY <1>5, Procs, Children, HandoffAssumption
  <2>2. pc'[s] = pc[s] /\ mem'[s] = mem[s] /\ Alive(p)
    BY <1>1, <1>4, <2>1 DEF Frame, Alive
  <2>3. ChildFit(s)
    BY DEF Held, ChildFits
  <2> HIDE DEF Child
  <2>4. pc[p] \in AfterLoad /\ pc[p] \notin {"new", "dead"}
    BY <1>4 DEF AfterLoad
  <2>5. ASSUME Named(disk, p) PROVE ChildWaits(s) /\ ~Limbo(disk)
    BY <1>2, <1>4, <1>5, <2>2, <2>3, <2>4, <2>5
    DEF ChildFit, ChildRuns, ChildWaits, Named, Acceptable, ConfirmedDead, Limbo
  <2>6. Named(disk, p) => ChildWaits(s)'
    BY <1>2, <1>3, <1>4, <1>5, <2>2, <2>5 DEF ChildWaits
  <2>7. ChildFit(s)'
    BY <1>2, <1>4, <1>5, <2>2, <2>3, <2>4, <2>6 DEF ChildFit, Named
  <2>8. Locked(p)' => Locked(p)
    BY <1>4, <1>5, <2>1, <2>3, <2>4 DEF ChildFit, Locked, Sect
  <2> QED
    BY <2>7, <2>8
<1>6. Locked(p)' => Locked(p)
  <2>1. CASE p \in Shell
    BY <1>4, <2>1, HandoffAssumption DEF Locked, Sect
  <2>2. CASE p \in Spawned
    BY <1>5, <2>2, Children
  <2> QED
    BY <2>1, <2>2
<1>7. LockHeld'
  BY <1>1, <1>2, <1>4, <1>6, LockStays DEF Held
<1>8. ASSUME Locked(p)' PROVE Quiet(p)'
  <2>1. CASE to = "limbo"
    BY <1>2, <1>3, <1>4, <2>1 DEF Quiet, Limbo
  <2>2. CASE to = "prepare"
    <3>1. ~Alive(disk.pid)
      <4>1. disk # NoState
        BY <1>2, MarksAssumption
      <4>2. CASE disk.phase = "completed"
        BY <4>1, <4>2, HandoffAssumption
        DEF BaseInv, DiskFits, TERMINAL_BATCH_PHASES, Alive
      <4> QED
        BY <1>1, <1>2, <1>3, <1>4, <1>6, <1>8, <2>2, <4>1, <4>2, CheckedIdle
    <3>2. disk.pid \in Proc => pc[disk.pid] # "unborn"
      BY <1>2, MarksAssumption, Procs DEF BaseInv, DiskFits, PidFits, PlacesFit, Runner
    <3>3. ~Alive(disk.pid)'
      BY <1>1, <1>2, <3>1, <3>2, NoneRevives
    <3> QED
      BY <1>2, <1>3, <1>4, <2>2, <3>3 DEF Quiet, Limbo
  <2> QED
    BY <2>1, <2>2
<1>9. ASSUME p \in Detached PROVE ChildFit(p)'
  <2>1. pc'[Child(p)] = pc[Child(p)]
    BY <1>3, <1>9, Procs, Children, HandoffAssumption DEF Moves, Only
  <2> QED
    BY <1>4, <1>9, <2>1, ShellMoves DEF BeforeSpawn
<1> QED
  BY <1>1, <1>2, <1>4, <1>5, <1>7, <1>8, <1>9, MoveKeeps DEF PastOwn, Sect

LEMMA ReconstructSlips ==
  ASSUME BaseInv, NEW p \in Shell \cup Spawned, Reconstruct(p)
  PROVE  slips' # {}
<1>1. Types /\ p \in Proc
  BY Procs DEF BaseInv
<1>2. pc[p] = "check" /\ disk = NoState /\ slips' = slips
  BY <1>1, ReconstructIs
<1> QED
  BY <1>1, <1>2 DEF Types, MemFits

(* The owner of a state that was read or written and is not alive stays so.  *)
LEMMA IdleStays ==
  ASSUME BaseInv, Forward, disk # NoState, disk' = disk, ~Alive(disk.pid)
  PROVE  ~Alive(disk.pid)'
<1>1. disk.pid \in Proc => pc[disk.pid] # "unborn"
  BY Procs DEF BaseInv, DiskFits, PidFits, PlacesFit, Runner
<1> QED
  BY <1>1, NoneRevives

(* No step of a shell that has spawned nobody, but the spawn, is one of its  *)
(* child.                                                                    *)
LEMMA ShellEnds ==
  ASSUME BaseInv, NEW p \in Proc, NEW m, NEW phases, NEW from \in BeforeSpawn,
         NEW to, to \notin {"pid", "persist"}, Ends(p, m, phases, from, to),
         p \in Detached
  PROVE  ChildFit(p)'
<1>1. pc[p] \in BeforeSpawn /\ pc'[p] = to
  BY DEF Ends
<1>2. pc[Child(p)] = "unborn"
  BY <1>1 DEF BaseInv, PlacesFit
<1>3. Child(p) \in Proc \ {p}
  BY Procs, Children, HandoffAssumption
<1>4. pc'[Child(p)] = pc[Child(p)]
  BY <1>2, <1>3 DEF Ends, Alive
<1> QED
  BY <1>1, <1>4, ShellMoves

LEMMA TakeOverLimboHeld ==
  ASSUME Calm, BaseInv, Held, NEW p \in Shell \cup Spawned, TakeOverLimbo(p)
  PROVE  Held'
<1>1. Types /\ p \in Proc /\ Forward
  BY Procs, TakeOverLimboBase DEF BaseInv
<1>2. /\ disk \in State /\ disk' = disk /\ lock' = lock
      /\ Ends(p, disk, {"paused", "failed"}, "limbo", "claim")
  BY <1>1, TakeOverLimboIs
<1>3. pc[p] = "limbo" /\ pc'[p] = "claim" /\ disk # NoState
  BY <1>2, MarksAssumption DEF Ends
<1>4. ~Named(disk, p) /\ ~Named(mem[p], p)
  BY <1>3, NotOwner DEF Held
<1>5. Locked(p) /\ Quiet(p)
  BY <1>1, <1>3, <1>4 DEF Held, HeldQuiet, Locked, Sect
<1>6. Frame(p)
  BY <1>1, <1>2, <1>3, EndsFrame DEF BaseInv, DiskFits
<1>7. Alive(disk.pid) => Ending(disk, {"paused", "failed"})
  BY <1>3, <1>5 DEF Quiet, Ending
<1>8. Is(mem'[p], disk.phase, NoOne, disk.left)
  BY <1>2, <1>3, <1>4, <1>7 DEF Ends, Named
<1>9. ~Alive(disk.pid)'
  <2>1. CASE Alive(disk.pid)
    <3>1. disk.pid \in Proc \ {p}
      BY <1>3, <1>4, <2>1 DEF Alive, Named
    <3>2. pc'[disk.pid] = "dead"
      BY <1>2, <1>7, <2>1, <3>1 DEF Ends
    <3> QED
      BY <1>2, <3>2 DEF Alive
  <2>2. CASE ~Alive(disk.pid)
    BY <1>1, <1>2, <1>3, <2>2, IdleStays
  <2> QED
    BY <2>1, <2>2
<1>10. ~Named(mem'[p], p)
  BY <1>1, <1>8, HandoffAssumption DEF Is, Named
<1>11. LockHeld'
  BY <1>1, <1>2, <1>3, <1>5, <1>6, LockStays DEF Held
<1>12. Quiet(p)'
  BY <1>2, <1>3, <1>8, <1>9 DEF Quiet, Is
<1>13. ASSUME p \in Detached PROVE ChildFit(p)'
  BY <1>1, <1>2, <1>13, ShellEnds DEF BeforeSpawn
<1>14. ASSUME NEW s \in Detached, p = Child(s) PROVE ChildFit(s)'
  BY <1>1, <1>2, <1>3, <1>4, <1>6, <1>10, <1>14, ChildMoves
  DEF Held, ChildFits, AfterLoad
<1> QED
  BY <1>1, <1>2, <1>3, <1>6, <1>11, <1>12, <1>13, <1>14, MoveKeeps DEF PastOwn, Sect

LEMMA MissLimboHeld ==
  ASSUME Calm, BaseInv, Held, NEW p \in Shell \cup Spawned, MissLimbo(p), slips' = {}
  PROVE  Held'
<1>1. Types /\ p \in Proc /\ Forward
  BY Procs, MissLimboBase DEF BaseInv
<1>2. Moves(p, "limbo", "refused") /\ Freed(p) /\ disk' = disk /\ mem' = mem
  BY <1>1, MissLimboIs
<1> QED
  BY <1>1, <1>2, LeaveKeeps DEF Moves, BeforeSpawn

LEMMA PrepareHeld ==
  ASSUME Calm, BaseInv, Held, NEW p \in Shell \cup Spawned, Prepare(p)
  PROVE  Held'
<1>1. Types /\ p \in Proc /\ Forward
  BY Procs, PrepareBase DEF BaseInv
<1>2. /\ disk \in State /\ disk # NoState /\ disk' = disk /\ lock' = lock
      /\ mem[p] \in State
  BY <1>1, MarksAssumption, PrepareIs
<1>3. \/ /\ mem[p].phase = "running" /\ Moves(p, "prepare", "save")
         /\ Reads(p, mem'[p]) /\ Is(mem'[p], disk.phase, NoOne, disk.left)
      \/ Ends(p, disk, {"paused", "failed"}, "prepare", "save")
  BY <1>1, PrepareIs
<1>4. pc[p] = "prepare" /\ pc'[p] = "save"
  BY <1>3 DEF Moves, Only, Ends
<1>5. Frame(p)
  BY <1>1, <1>2, <1>3, EndsFrame, OnlyFrame DEF BaseInv, DiskFits, Moves
<1>6. ASSUME p \in Detached PROVE ChildFit(p)'
  <2>1. CASE Moves(p, "prepare", "save")
    <3>1. pc'[Child(p)] = pc[Child(p)]
      BY <1>6, <2>1, Procs, Children, HandoffAssumption DEF Moves, Only
    <3> QED
      BY <1>4, <1>6, <3>1, ShellMoves DEF BeforeSpawn
  <2>2. CASE Ends(p, disk, {"paused", "failed"}, "prepare", "save")
    BY <1>1, <1>6, <2>2, ShellEnds DEF BeforeSpawn
  <2> QED
    BY <1>3, <2>1, <2>2
<1>7. CASE Locked(p)
  <2>1. Quiet(p)
    BY <1>1, <1>7 DEF Held, HeldQuiet
  <2>2. ~Named(disk, p)
    BY <1>7, NotOwner DEF Held
  <2>3. ~Alive(disk.pid) /\ ~Alive(disk.pid)'
    BY <1>1, <1>2, <1>4, <2>1, IdleStays DEF Quiet
  <2>4. Is(mem'[p], disk.phase, NoOne, disk.left)
    BY <1>2, <1>3, <2>2, <2>3 DEF Ends, Named
  <2>5. ~Named(mem'[p], p)
    BY <1>1, <2>4, HandoffAssumption DEF Is, Named
  <2>6. LockHeld'
    BY <1>1, <1>2, <1>4, <1>5, <1>7, LockStays DEF Held
  <2>7. Quiet(p)'
    BY <1>2, <1>4, <2>1, <2>3, <2>4 DEF Quiet, Is, Limbo
  <2>8. ASSUME NEW s \in Detached, p = Child(s) PROVE ChildFit(s)'
    BY <1>1, <1>2, <1>4, <1>5, <2>2, <2>5, <2>8, ChildMoves
    DEF Held, ChildFits, AfterLoad
  <2> QED
    BY <1>1, <1>2, <1>4, <1>5, <1>6, <2>6, <2>7, <2>8, MoveKeeps DEF PastOwn, Sect
<1>8. CASE ~Locked(p)
  <2>1. p \in Spawned /\ Named(mem[p], p)
    BY <1>4, <1>8 DEF Locked, Sect
  <2>2. PICK s \in Detached : p = Child(s)
    BY <2>1, Children
  <2>3. ChildFit(s) /\ s # p /\ s \in Proc
    BY <2>1, <2>2, Procs, HandoffAssumption DEF Held, ChildFits
  <2>4. pc'[s] = pc[s] /\ mem'[s] = mem[s]
    BY <1>5, <2>3 DEF Frame
  <2>5. Named(disk, p) /\ ChildWaits(s) /\ mem[p].phase = "paused"
    <3> HIDE DEF Child
    <3> QED
      BY <1>4, <2>1, <2>2, <2>3 DEF ChildFit, ChildRuns, ChildWaits, AfterLoad
  <2>6. mem'[p] = disk
    BY <1>3, <2>5 DEF Ends, Named
  <2>7. ~Locked(p)'
    BY <1>4, <2>1, <2>5, <2>6 DEF Locked, Named, Sect
  <2>8. LockHeld'
    BY <1>1, <1>2, <1>5, <2>7, LockStays DEF Held
  <2>9. ChildFit(s)'
    <3> HIDE DEF Child
    <3>1. ChildWaits(s)'
      BY <1>2, <1>4, <2>2, <2>4, <2>5 DEF ChildWaits
    <3> QED
      BY <1>2, <1>4, <2>2, <2>3, <2>4, <2>5, <2>6, <3>1 DEF ChildFit, Named, ChildWaits
  <2>10. \A r \in Detached : p = Child(r) => ChildFit(r)'
    BY <2>2, <2>9, Children
  <2> QED
    BY <1>1, <1>2, <1>4, <1>5, <1>6, <2>7, <2>8, <2>10, MoveKeeps DEF PastOwn, Sect
<1> QED
  BY <1>7, <1>8

LEMMA SpawnHeld ==
  ASSUME Calm, BaseInv, Held, NEW s \in Detached, Spawn(s)
  PROVE  Held'
<1>1. Types /\ s \in Proc /\ Forward /\ Child(s) \in Proc /\ Child(s) # s
  BY Procs, Children, SpawnBase, HandoffAssumption DEF BaseInv
<1>2. /\ pc[s] = "spawn" /\ pc'[s] = "pid" /\ pc'[Child(s)] = "new"
      /\ \A q \in Proc \ {s, Child(s)} : pc'[q] = pc[q]
      /\ disk' = disk /\ lock' = lock /\ mem' = mem
  BY <1>1, SpawnIs
<1>3. pc[Child(s)] = "unborn"
  BY <1>2 DEF BaseInv, PlacesFit, BeforeSpawn
<1>4. Frame(s)
  <2>1. \A r \in Detached \ {s} : r \in Proc \ {s, Child(s)}
    BY <1>1, Procs, Children, HandoffAssumption
  <2> HIDE DEF Child
  <2> QED
    BY <1>1, <1>2, <1>3, <2>1 DEF Frame
<1>5. Locked(s) /\ disk # NoState
  BY <1>1, <1>2, Procs, HandoffAssumption
  DEF Locked, Sect, Types, MemFits, HasRead, Detached
<1>6. Quiet(s)
  BY <1>1, <1>5 DEF Held, HeldQuiet
<1>7. Quiet(s)'
  <2>1. ~Alive(disk.pid)'
    BY <1>1, <1>2, <1>5, <1>6, IdleStays DEF Quiet
  <2> QED
    BY <1>2, <1>6, <2>1 DEF Quiet, Limbo
<1>8. LockHeld'
  BY <1>1, <1>2, <1>4, <1>5, LockStays DEF Held
<1>9. ChildFit(s)'
  <2>1. ~Named(disk, Child(s))
    BY <1>3, Children DEF BaseInv, DiskFits, PidFits, Named
  <2> HIDE DEF Child
  <2> QED
    BY <1>2, <2>1 DEF ChildFit, Named, AfterLoad
<1>10. \A r \in Detached : s # Child(r)
  BY Procs, Children, HandoffAssumption
<1> QED
  BY <1>1, <1>2, <1>4, <1>7, <1>8, <1>9, <1>10, MoveKeeps DEF PastOwn, Sect

LEMMA LoadForPidHeld ==
  ASSUME Calm, BaseInv, Held, NEW s \in Detached, LoadForPid(s)
  PROVE  Held'
<1>1. Types /\ s \in Proc /\ Forward /\ Child(s) \in Proc /\ Child(s) # s
  BY Procs, Children, LoadForPidBase, HandoffAssumption DEF BaseInv
<1>2. /\ disk \in State /\ Moves(s, "pid", "persist") /\ Reads(s, mem'[s])
      /\ Is(mem'[s], disk.phase, Child(s), disk.left)
      /\ disk' = disk /\ lock' = lock
  BY <1>1, LoadForPidIs
<1>3. pc[s] = "pid" /\ pc'[s] = "persist" /\ pc'[Child(s)] = pc[Child(s)] /\ disk # NoState
  BY <1>1, <1>2, MarksAssumption DEF Moves, Only
<1>4. Frame(s)
  BY <1>1, <1>2, OnlyFrame DEF Moves
<1>5. Locked(s) /\ Quiet(s)
  BY <1>1, <1>3, Procs, HandoffAssumption DEF Locked, Sect, Held, HeldQuiet, Detached
<1>6. Quiet(s)'
  <2>1. ~Alive(disk.pid)'
    BY <1>1, <1>2, <1>3, <1>5, IdleStays DEF Quiet
  <2> HIDE DEF Child
  <2> QED
    BY <1>2, <1>3, <1>5, <2>1 DEF Quiet, Is, Limbo
<1>7. LockHeld'
  <2>1. Locked(s)'
    BY <1>1, <1>3, Procs, HandoffAssumption DEF Locked, Sect, Detached
  <2> QED
    BY <1>1, <1>2, <1>3, <1>4, <1>5, LockStays DEF Held
<1>8. ChildFit(s)'
  <2>1. ChildFit(s) /\ ~Alive(disk.pid)
    BY <1>3, <1>5 DEF Held, ChildFits, Quiet
  <2> HIDE DEF Child
  <2>2. pc[Child(s)] \in {"new", "dead"}
    BY <1>3, <2>1 DEF ChildFit
  <2>3. pc[Child(s)] = "new" => ~Named(disk, Child(s))
    BY <1>1, <2>1 DEF Named, Alive
  <2> QED
    BY <1>2, <1>3, <2>2, <2>3 DEF ChildFit, Named, AfterLoad
<1>9. \A r \in Detached : s # Child(r)
  BY Procs, Children, HandoffAssumption
<1> QED
  BY <1>1, <1>2, <1>3, <1>4, <1>6, <1>7, <1>8, <1>9, MoveKeeps DEF PastOwn, Sect

LEMMA PollHeld ==
  ASSUME Calm, BaseInv, Held, NEW s \in Detached, Poll(s)
  PROVE  Held'
<1>1. Types /\ s \in Proc /\ Forward /\ Child(s) \in Proc /\ Child(s) # s
  BY Procs, Children, PollBase, HandoffAssumption DEF BaseInv
<1>2. /\ disk \in State /\ Moves(s, "poll", "done") /\ Freed(s)
      /\ Timely /\ ~Settled(Child(s)) => Answer(s) # {}
      /\ disk' = disk /\ mem' = mem
  BY <1>1, PollIs
<1>3. pc[s] = "poll" /\ pc'[s] = "done" /\ pc'[Child(s)] = pc[Child(s)]
  BY <1>1, <1>2 DEF Moves, Only
<1>4. Frame(s) /\ ~Locked(s)'
  BY <1>1, <1>2, <1>3, OnlyFrame DEF Moves, Locked, Sect
<1>5. LockHeld'
  BY <1>1, <1>2, <1>4, LockStays DEF Held
<1>6. ChildFit(s)'
  <2>1. ChildFit(s)
    BY DEF Held, ChildFits
  <2> HIDE DEF Child
  <2>2. ~ChildWaits(s)
    <3> SUFFICES ASSUME ChildWaits(s) PROVE FALSE
      OBVIOUS
    <3>1. ~Settled(Child(s)) /\ disk.phase = "paused" /\ disk = mem[s]
      BY DEF ChildWaits, Settled
    <3>2. Answer(s) = {}
      BY <3>1 DEF Answer
    <3> QED
      BY <1>2, <3>1, <3>2 DEF Calm
  <2> QED
    BY <1>2, <1>3, <2>1, <2>2 DEF ChildFit, ChildRuns, Named
<1>7. \A r \in Detached : s # Child(r)
  BY Procs, Children, HandoffAssumption
<1> QED
  BY <1>1, <1>2, <1>3, <1>4, <1>5, <1>6, <1>7, MoveKeeps DEF PastOwn, Sect

(* A write of the holder that records nobody, where nobody who lives was     *)
(* recorded.                                                                 *)
LEMMA HolderWrites ==
  ASSUME BaseInv, Forward, Held, NEW p \in Shell \cup Spawned, Locked(p),
         NEW to, Only(pc, pc', p, to), mem' = mem, disk # NoState, ~Alive(disk.pid),
         disk'.pid = NoOne, to \notin {"working", "exiting", "new", "pid", "persist"},
         LockHeld', Locked(p)' => Quiet(p)'
  PROVE  Held'
<1>1. p \in Proc
  BY Procs
<1>2. Frame(p) /\ pc'[p] = to /\ \A q \in Proc \ {p} : pc'[q] = pc[q]
  BY <1>1, OnlyFrame DEF Only
<1>3. \A q \in Proc : ~Named(disk', q)
  BY HandoffAssumption DEF Named
<1>4. WorkerOwns'
  <2>1. ASSUME NEW q \in Proc, pc[q] = "working" PROVE FALSE
    BY <2>1 DEF Held, WorkerOwns, Alive
  <2> QED
    BY <1>2, <2>1 DEF WorkerOwns
<1>5. ExitFits'
  BY <1>3 DEF ExitFits, Named
<1>6. ASSUME NEW s \in Detached PROVE ChildFit(s)'
  <2>1. ChildFit(s) /\ Child(s) \in Proc /\ s \in Proc /\ Child(s) \in Spawned
    BY Procs, Children DEF Held, ChildFits
  <2> HIDE DEF Child
  <2>2. ~Named(disk', Child(s))
    BY <1>3, <2>1
  <2>3. ASSUME pc'[Child(s)] \in AfterLoad PROVE ~Named(mem[Child(s)], Child(s))
    <3>1. CASE Child(s) = p
      BY <3>1, NotOwner DEF Held
    <3>2. CASE Child(s) # p
      <4>1. pc[Child(s)] \in AfterLoad
        BY <1>2, <2>1, <2>3, <3>2
      <4>2. Alive(Child(s))
        BY <2>1, <4>1 DEF Alive, AfterLoad
      <4> QED
        BY <2>1, <4>1, <4>2 DEF ChildFit, Named
    <3> QED
      BY <3>1, <3>2
  <2>4. ASSUME pc'[s] \in {"pid", "persist"} PROVE pc'[Child(s)] \in {"new", "dead"}
    <3>1. s # p /\ pc[s] \in {"pid", "persist"}
      BY <1>2, <2>1, <2>4
    <3>2. pc[Child(s)] \in {"new", "dead"}
      BY <2>1, <3>1 DEF ChildFit
    <3>3. Child(s) # p
      BY <3>2 DEF Locked, Sect
    <3> QED
      BY <1>2, <2>1, <3>2, <3>3
  <2> QED
    BY <2>2, <2>3, <2>4 DEF ChildFit, Named
<1>7. OldSeen'
  BY <1>3, Procs DEF OldSeen, Named
<1>8. HeldQuiet'
  BY <1>1, <1>2, OneHolder, LockedStays DEF Held, HeldQuiet
<1> QED
  BY <1>4, <1>5, <1>6, <1>7, <1>8 DEF Held, ChildFits

LEMMA SaveHandoffHeld ==
  ASSUME Calm, BaseInv, Held, NEW p \in Shell \cup Spawned, SaveHandoff(p), slips' = {}
  PROVE  Held'
<1>1. Types /\ p \in Proc /\ Forward
  BY Procs, SaveHandoffBase DEF BaseInv
<1>2. /\ disk \in State /\ disk # NoState /\ Moves(p, "handoff", "check") /\ Writes(mem[p])
      /\ Is(mem[p], disk.phase, NoOne, disk.left) /\ lock' = lock /\ mem' = mem
  BY <1>1, SaveHandoffIs, MarksAssumption
<1>3. Locked(p) /\ ~Alive(disk.pid)
  BY <1>1, <1>2 DEF Moves, Locked, Held, HeldQuiet, Quiet
<1>4. ~Named(mem[p], p)
  BY <1>3, NotOwner DEF Held
<1>5. disk'.pid = NoOne
  BY <1>2 DEF Is, Writes
<1>6. pc'[p] = "check" /\ Frame(p) /\ pc[p] = "handoff"
  BY <1>1, <1>2, OnlyFrame DEF Moves, Only
<1>7. LockHeld'
  BY <1>1, <1>2, <1>3, <1>4, <1>6, LockStays DEF Held, Locked, Sect
<1>8. Quiet(p)'
  BY <1>6 DEF Quiet
<1> QED
  BY <1>1, <1>2, <1>3, <1>5, <1>7, <1>8, HolderWrites DEF Moves

LEMMA ClaimLimboHeld ==
  ASSUME Calm, BaseInv, Held, NEW p \in Shell \cup Spawned, ClaimLimbo(p)
  PROVE  Held'
<1>1. Types /\ p \in Proc /\ Forward
  BY Procs, ClaimLimboBase DEF BaseInv
<1>2. /\ disk \in State /\ disk # NoState /\ Moves(p, "claim", "land")
      /\ disk'.pid = NoOne /\ lock' = lock /\ mem' = mem
  BY <1>1, ClaimLimboIs, MarksAssumption DEF Is
<1>3. pc'[p] = "land" /\ Frame(p) /\ pc[p] = "claim"
  BY <1>1, <1>2, OnlyFrame DEF Moves, Only
<1>4. ~Named(mem[p], p)
  BY <1>3, NotOwner DEF Held
<1>5. Locked(p) /\ ~Alive(disk.pid)
  BY <1>1, <1>3, <1>4 DEF Locked, Sect, Held, HeldQuiet, Quiet
<1>6. LockHeld'
  BY <1>1, <1>2, <1>3, <1>5, LockStays DEF Held
<1>7. Quiet(p)'
  BY <1>2, <1>3, HandoffAssumption DEF Quiet, Alive
<1> QED
  BY <1>1, <1>2, <1>5, <1>6, <1>7, HolderWrites DEF Moves

LEMMA LandLimboHeld ==
  ASSUME Calm, BaseInv, Held, NEW p \in Shell \cup Spawned, LandLimbo(p)
  PROVE  Held'
<1>1. Types /\ p \in Proc /\ Forward
  BY Procs, LandLimboBase DEF BaseInv
<1>2. /\ disk \in State /\ disk # NoState /\ Moves(p, "land", "done")
      /\ disk'.pid = NoOne /\ Freed(p) /\ mem' = mem
  BY <1>1, LandLimboIs, MarksAssumption DEF Is
<1>3. pc'[p] = "done" /\ Frame(p) /\ pc[p] = "land"
  BY <1>1, <1>2, OnlyFrame DEF Moves, Only
<1>4. ~Named(mem[p], p)
  BY <1>3, NotOwner DEF Held
<1>5. Locked(p) /\ ~Alive(disk.pid)
  BY <1>1, <1>3, <1>4 DEF Locked, Sect, Held, HeldQuiet, Quiet
<1>6. ~Locked(p)'
  BY <1>3 DEF Locked, Sect
<1>7. LockHeld'
  BY <1>1, <1>2, <1>3, <1>6, LockStays DEF Held
<1> QED
  BY <1>1, <1>2, <1>5, <1>6, <1>7, HolderWrites DEF Moves

LEMMA SavePreparedHeld ==
  ASSUME Calm, BaseInv, Held, NEW s \in Detached, SavePrepared(s)
  PROVE  Held'
<1>1. Types /\ s \in Proc /\ Forward /\ s \in Shell /\ s \notin Spawned
  BY Procs, SavePreparedBase, HandoffAssumption DEF BaseInv
<1>2. /\ disk \in State /\ disk # NoState /\ Moves(s, "save", "spawn")
      /\ mem[s] \in State /\ Writes(mem[s]) /\ lock' = lock /\ mem' = mem
  BY <1>1, SavePreparedIs, MarksAssumption
<1>3. pc'[s] = "spawn" /\ Frame(s) /\ pc[s] = "save"
  BY <1>1, <1>2, OnlyFrame DEF Moves, Only
<1>4. Locked(s) /\ Quiet(s)
  BY <1>1, <1>3 DEF Locked, Sect, Held, HeldQuiet
<1>5. ~Alive(disk.pid) /\ ~Limbo(disk) /\ disk'.pid = NoOne /\ ~Limbo(disk')
  BY <1>2, <1>3, <1>4 DEF Quiet, Writes, Is, Limbo
<1>6. LockHeld'
  BY <1>1, <1>2, <1>3, <1>4, LockStays DEF Held, Locked, Sect
<1>7. Quiet(s)'
  BY <1>3, <1>5, HandoffAssumption DEF Quiet, Alive, Limbo
<1> QED
  BY <1>1, <1>2, <1>4, <1>5, <1>6, <1>7, HolderWrites DEF Moves

LEMMA ReopenGateHeld ==
  ASSUME Calm, BaseInv, Held, NEW p \in Shell \cup Spawned, ReopenGate(p)
  PROVE  Held'
<1>1. Types /\ p \in Proc /\ Forward
  BY Procs, ReopenGateBase DEF BaseInv
<1>2. /\ disk \in State /\ disk # NoState /\ disk.phase = "completed"
      /\ Moves(p, "check", "done") /\ Freed(p) /\ mem' = mem
      /\ disk' = disk \/ disk'.pid = NoOne
  BY <1>1, ReopenGateIs, MarksAssumption DEF Is
<1>3. disk.pid = NoOne
  BY <1>2 DEF BaseInv, DiskFits, TERMINAL_BATCH_PHASES
<1>4. ~Alive(disk.pid) /\ ~Named(disk, p) /\ disk'.pid = NoOne
  BY <1>1, <1>2, <1>3, HandoffAssumption DEF Alive, Named
<1>5. pc'[p] = "done" /\ Frame(p) /\ pc[p] = "check"
  BY <1>1, <1>2, OnlyFrame DEF Moves, Only
<1>6. Locked(p)
  <2> SUFFICES ASSUME p \in Spawned PROVE ~Named(mem[p], p)
    BY <1>5 DEF Locked, Sect
  <2>1. PICK s \in Detached : p = Child(s)
    BY Children
  <2>2. ChildFit(s)
    BY DEF Held, ChildFits
  <2> HIDE DEF Child
  <2> QED
    BY <1>4, <1>5, <2>1, <2>2 DEF ChildFit, AfterLoad
<1>7. ~Locked(p)'
  BY <1>5 DEF Locked, Sect
<1>8. LockHeld'
  BY <1>1, <1>2, <1>5, <1>7, LockStays DEF Held
<1> QED
  BY <1>1, <1>2, <1>4, <1>6, <1>7, <1>8, HolderWrites DEF Moves

(* A child that is not recorded knows it.                                    *)
LEMMA OtherChild ==
  ASSUME ChildFits, NEW s \in Detached, pc[Child(s)] \in AfterLoad,
         ~Named(disk, Child(s))
  PROVE  ~Named(mem[Child(s)], Child(s))
<1>1. ChildFit(s)
  BY DEF ChildFits
<1> HIDE DEF Child
<1> QED
  BY <1>1 DEF ChildFit

LEMMA PersistPidHeld ==
  ASSUME Calm, BaseInv, Held, NEW s \in Detached, PersistPid(s)
  PROVE  Held'
<1>1. /\ Types /\ s \in Proc /\ Forward /\ s \in Shell /\ s \notin Spawned
      /\ Child(s) \in Spawned /\ Child(s) \in Proc /\ Child(s) # s /\ Child(s) # Old
  BY Procs, Children, PersistPidBase, HandoffAssumption DEF BaseInv
<1>2. /\ disk \in State /\ disk # NoState /\ mem[s] \in State
      /\ Moves(s, "persist", "poll") /\ (MayWrite(s) => Writes(mem[s]))
      /\ lock' = lock /\ mem' = mem
  BY <1>1, PersistPidIs, MarksAssumption
<1>3. /\ pc'[s] = "poll" /\ Frame(s) /\ pc[s] = "persist"
      /\ \A q \in Proc \ {s} : pc'[q] = pc[q]
  BY <1>1, <1>2, OnlyFrame DEF Moves, Only
<1>4. Locked(s) /\ Locked(s)' /\ Quiet(s)
  BY <1>1, <1>3 DEF Locked, Sect, Held, HeldQuiet
<1>5. /\ ~Alive(disk.pid) /\ ~Limbo(disk) /\ mem[s].phase = disk.phase
      /\ mem[s].left = disk.left /\ mem[s].pid = Child(s)
  BY <1>3, <1>4 DEF Quiet
<1>6. Writes(mem[s])
  BY <1>2, <1>5 DEF MayWrite, Other
<1>7. /\ disk' \in State /\ disk'.phase = disk.phase /\ disk'.left = disk.left
      /\ disk'.phase \in TERMINAL_BATCH_PHASES => disk'.pid = NoOne
      /\ disk'.phase \notin TERMINAL_BATCH_PHASES => disk'.pid = Child(s)
  BY <1>5, <1>6 DEF Writes, Is
<1>8. \A q \in Proc : Named(disk', q) =>
        q = Child(s) /\ disk'.phase \notin TERMINAL_BATCH_PHASES
  BY <1>7, HandoffAssumption DEF Named
<1>9. pc[Child(s)] \in {"new", "dead"}
  <2>1. ChildFit(s)
    BY DEF Held, ChildFits
  <2> HIDE DEF Child
  <2> QED
    BY <1>3, <2>1 DEF ChildFit
<1>10. LockHeld'
  BY <1>1, <1>2, <1>3, <1>4, LockStays DEF Held
<1>11. WorkerOwns'
  <2>1. ASSUME NEW q \in Proc, pc[q] = "working" PROVE FALSE
    BY <1>5, <2>1 DEF Held, WorkerOwns, Alive
  <2> QED
    BY <1>3, <2>1 DEF WorkerOwns
<1>12. ExitFits'
  <2>1. pc'[Child(s)] # "exiting"
    BY <1>1, <1>3, <1>9
  <2> QED
    BY <1>8, <2>1 DEF ExitFits, Named
<1>13. ASSUME NEW r \in Detached PROVE ChildFit(r)'
  <2>1. CASE r = s
    <3> HIDE DEF Child
    <3>1. pc'[Child(s)] \in {"new", "dead"} /\ mem'[s] = mem[s]
      BY <1>1, <1>2, <1>3, <1>9
    <3>2. ASSUME disk'.phase \notin TERMINAL_BATCH_PHASES, pc'[Child(s)] = "new"
          PROVE  ChildRuns(s)' \/ ChildWaits(s)'
      <4>1. disk'.phase \in {"running", "paused"}
        BY <1>7, <3>2, States DEF Phase, TERMINAL_BATCH_PHASES
      <4>2. CASE disk'.phase = "running"
        BY <1>5, <1>7, <3>2, <4>2 DEF ChildRuns, Limbo
      <4>3. CASE disk'.phase = "paused"
        <5>1. disk' = mem[s]
          BY <1>2, <1>5, <1>7, <3>2 DEF State
        <5> QED
          BY <1>3, <3>1, <3>2, <4>3, <5>1 DEF ChildWaits
      <4> QED
        BY <4>1, <4>2, <4>3
    <3> QED
      BY <1>1, <1>3, <1>8, <2>1, <3>1, <3>2 DEF ChildFit, Named, AfterLoad
  <2>2. CASE r # s
    <3>1. Child(r) \in Proc /\ Child(r) # s /\ Child(r) # Child(s) /\ r \in Proc
      BY <2>2, Procs, Children, HandoffAssumption
    <3>2. ChildFit(r)
      BY DEF Held, ChildFits
    <3>3. pc[Child(r)] \in AfterLoad => ~Named(disk, Child(r))
      BY <1>5, <3>1 DEF Alive, Named, AfterLoad
    <3>4. pc[Child(r)] \in AfterLoad => ~Named(mem[Child(r)], Child(r))
      BY <3>3, OtherChild DEF Held
    <3> HIDE DEF Child
    <3>5. ~Named(disk', Child(r))
      BY <1>8, <3>1
    <3> QED
      BY <1>2, <1>3, <2>2, <3>1, <3>2, <3>4, <3>5 DEF ChildFit, Named
  <2> QED
    BY <2>1, <2>2
<1>14. OldSeen'
  BY <1>1, <1>8, Procs DEF OldSeen, Named
<1>15. HeldQuiet'
  <2>1. Quiet(s)'
    BY <1>3 DEF Quiet
  <2> QED
    BY <1>1, <1>3, <1>4, <2>1, OneHolder, LockedStays DEF Held, HeldQuiet
<1> QED
  BY <1>10, <1>11, <1>12, <1>13, <1>14, <1>15 DEF Held, ChildFits

(* A write that records p, which is recorded or where nobody who lives is.   *)
LEMMA OwnerWrites ==
  ASSUME BaseInv, Forward, Held, NEW p \in Runner \cup {Old}, disk # NoState,
         disk.pid = p \/ ~Alive(disk.pid), pc[p] \in {"save", "working"}, pc'[p] = "working",
         \A q \in Proc \ {p} : pc'[q] = pc[q] /\ mem'[q] = mem[q],
         disk' = mem'[p], disk'.pid = p,
         disk'.phase = "running" \/ (disk'.phase = "paused" /\ p = Old)
  PROVE  WorkerOwns' /\ ExitFits' /\ ChildFits'
<1>1. p \in Proc /\ p \notin Detached
  BY Procs
<1>2. \A q \in Proc \ {p} : ~Named(disk', q) /\ (Alive(q) => ~Named(disk, q))
  BY DEF Named
<1>3. WorkerOwns'
  <2>1. ASSUME NEW q \in Proc \ {p}, pc[q] = "working" PROVE FALSE
    BY <1>2, <2>1 DEF Held, WorkerOwns, Alive, Named
  <2> QED
    BY <2>1 DEF WorkerOwns
<1>4. ExitFits'
  BY <1>2 DEF ExitFits, Named
<1>5. ASSUME NEW s \in Detached PROVE ChildFit(s)'
  <2>1. s # p /\ s \in Proc /\ Child(s) \in Proc /\ ChildFit(s)
    BY <1>1, Procs, Children DEF Held, ChildFits
  <2>2. CASE Child(s) = p
    <3> HIDE DEF Child
    <3> QED
      BY <2>1, <2>2 DEF ChildFit, AfterLoad
  <2>3. CASE Child(s) # p
    <3>1. pc[Child(s)] \in AfterLoad => ~Named(disk, Child(s))
      BY <1>2, <2>1, <2>3 DEF Alive, AfterLoad
    <3>2. pc[Child(s)] \in AfterLoad => ~Named(mem[Child(s)], Child(s))
      BY <3>1, OtherChild DEF Held
    <3> HIDE DEF Child
    <3>3. ~Named(disk', Child(s)) /\ pc'[Child(s)] = pc[Child(s)]
          /\ mem'[Child(s)] = mem[Child(s)] /\ pc'[s] = pc[s]
      BY <1>2, <2>1, <2>3
    <3> QED
      BY <2>1, <3>2, <3>3 DEF ChildFit, Named
  <2> QED
    BY <2>2, <2>3
<1> QED
  BY <1>3, <1>4, <1>5 DEF ChildFits

LEMMA ClaimHeld ==
  ASSUME Calm, BaseInv, Held, NEW p \in Runner, Claim(p)
  PROVE  Held'
<1>1. Types /\ p \in Proc /\ Forward /\ p \in Shell \cup Spawned /\ p \notin Detached /\ p # Old
  BY Procs, ClaimBase DEF BaseInv, Runner
<1>2. /\ disk \in State /\ disk # NoState /\ Moves(p, "save", "working")
      /\ Reads(p, mem'[p]) /\ Is(mem'[p], "running", p, mem[p].left)
      /\ disk' = IF MayWrite(p) THEN mem'[p] ELSE disk
      /\ lock' = lock \/ Freed(p)
  BY <1>1, ClaimIs, MarksAssumption
<1>3. /\ pc'[p] = "working" /\ Frame(p) /\ pc[p] = "save"
      /\ \A q \in Proc \ {p} : pc'[q] = pc[q] /\ mem'[q] = mem[q]
  BY <1>1, <1>2, OnlyFrame DEF Moves, Only, Reads
<1>4. ~Locked(p)'
  BY <1>3 DEF Locked, Sect
<1>5. LockHeld'
  BY <1>1, <1>2, <1>3, <1>4, LockStays DEF Held
<1>6. ASSUME ~Locked(p)
      PROVE  disk.pid = p /\ \E s \in Detached : Locked(s) /\ pc[s] = "poll"
  <2>1. p \in Spawned /\ Named(mem[p], p)
    BY <1>3, <1>6 DEF Locked, Sect
  <2>2. PICK s \in Detached : p = Child(s)
    BY <2>1, Children
  <2>3. ChildFit(s) /\ s \notin Spawned
    BY Procs, HandoffAssumption DEF Held, ChildFits
  <2>4. Named(disk, p) /\ pc[s] = "poll"
    <3> HIDE DEF Child
    <3> QED
      BY <1>3, <2>1, <2>2, <2>3 DEF ChildFit, ChildRuns, ChildWaits, AfterLoad
  <2>5. Locked(s)
    BY <2>3, <2>4 DEF Locked, Sect
  <2> QED
    BY <2>4, <2>5 DEF Named
<1>7. disk.pid = p \/ ~Alive(disk.pid)
  BY <1>1, <1>3, <1>6 DEF Held, HeldQuiet, Quiet
<1>8. disk' = mem'[p] /\ disk'.pid = p /\ disk'.phase = "running"
  BY <1>2, <1>7 DEF MayWrite, Other, Is
<1>9. WorkerOwns' /\ ExitFits' /\ ChildFits'
  BY <1>1, <1>2, <1>3, <1>7, <1>8, OwnerWrites
<1>10. OldSeen'
  BY <1>1, <1>8 DEF OldSeen, Named
<1>11. HeldQuiet'
  <2> SUFFICES ASSUME NEW q \in Proc, Locked(q)' PROVE Quiet(q)'
    BY DEF HeldQuiet
  <2>1. Locked(q) /\ q # p /\ pc'[q] = pc[q]
    BY <1>1, <1>3, <1>4, LockedStays
  <2>2. pc[q] = "poll"
    BY <1>1, <1>6, <2>1, OneHolder, Procs DEF Held
  <2> QED
    BY <2>1, <2>2 DEF Quiet
<1> QED
  BY <1>5, <1>9, <1>10, <1>11 DEF Held

LEMMA AdvanceHeld ==
  ASSUME Calm, BaseInv, Held, NEW p \in Runner \cup {Old}, Advance(p)
  PROVE  Held'
<1>1. Types /\ p \in Proc /\ Forward
  BY Procs, AdvanceBase DEF BaseInv
<1>2. /\ disk \in State /\ disk # NoState /\ pc[p] = "working" /\ pc' = pc
      /\ Reads(p, mem'[p]) /\ mem'[p] \in State
      /\ mem'[p].phase = mem[p].phase /\ mem'[p].pid = mem[p].pid
      /\ (mem[p].left = "none" => mem'[p].left = "none")
      /\ (MayWrite(p) => Writes(mem'[p])) /\ lock' = lock
  BY <1>1, AdvanceIs, MarksAssumption
<1>3. /\ disk = mem[p] /\ disk.pid = p
      /\ disk.phase = "running" \/ (disk.phase = "paused" /\ p = Old)
  BY <1>1, <1>2 DEF Held, WorkerOwns
<1>4. Writes(mem'[p])
  BY <1>2, <1>3 DEF MayWrite, Other
<1>5. disk' = mem'[p]
  BY <1>2, <1>3, <1>4 DEF Writes, Is, State, TERMINAL_BATCH_PHASES
<1>6. \A q \in Proc \ {p} : pc'[q] = pc[q] /\ mem'[q] = mem[q]
  BY <1>2 DEF Reads, Only
<1>7. WorkerOwns' /\ ExitFits' /\ ChildFits'
  BY <1>1, <1>2, <1>3, <1>5, <1>6, OwnerWrites
<1>8. Frame(p) /\ ~Locked(p) /\ ~Locked(p)' /\ Alive(p)
  BY <1>1, <1>2, <1>6, Procs DEF Frame, Locked, Sect, Alive
<1>9. LockHeld'
  BY <1>1, <1>2, <1>8, LockStays DEF Held
<1>10. OldSeen'
  <2> SUFFICES ASSUME Alive(Old)', Named(disk, Old)', NEW q \in Proc
               PROVE  (pc'[q] \in Asks => Named(mem[q], Old)') /\ pc'[q] \notin PastOwn
    BY DEF OldSeen
  <2>1. Alive(Old) /\ Named(disk, Old) /\ p = Old
    BY <1>2, <1>3, <1>5 DEF Named, Alive
  <2>2. (pc[q] \in Asks => Named(mem[q], Old)) /\ pc[q] \notin PastOwn
    BY <2>1 DEF Held, OldSeen
  <2>3. CASE q = p
    BY <1>2, <2>3 DEF Asks, Asking, PastOwn, Sect
  <2>4. CASE q # p
    BY <1>2, <1>6, <2>2, <2>4 DEF Named
  <2> QED
    BY <2>3, <2>4
<1>11. HeldQuiet'
  <2> SUFFICES ASSUME NEW q \in Proc, Locked(q)' PROVE Quiet(q)'
    BY DEF HeldQuiet
  <2>1. Locked(q) /\ pc'[q] = pc[q]
    BY <1>1, <1>8, LockedStays
  <2>2. Quiet(q) /\ Alive(disk.pid)
    BY <1>3, <1>8, <2>1 DEF Held, HeldQuiet
  <2>3. pc[q] = "limbo" => Limbo(disk')
    BY <1>2, <1>3, <1>5, <2>2 DEF Quiet, Limbo
  <2> QED
    BY <2>1, <2>2, <2>3 DEF Quiet, Limbo
<1> QED
  BY <1>7, <1>9, <1>10, <1>11 DEF Held

(* A worker that ends leaves nobody recorded, or itself if it dies or is the *)
(* old engine.                                                               *)
LEMMA WorkerEnds ==
  ASSUME BaseInv, Forward, Held, NEW p \in Proc, pc[p] = "working",
         NEW to \in {"exiting", "dead"}, Only(pc, pc', p, to), mem' = mem, lock' = lock,
         disk # NoState,
         disk'.pid = NoOne \/ (disk'.pid = p /\ (to = "dead" \/ p = Old))
  PROVE  Held'
<1>1. disk.pid = p /\ Alive(p)
  BY DEF Held, WorkerOwns, Alive
<1>2. Frame(p) /\ pc'[p] = to /\ \A q \in Proc \ {p} : pc'[q] = pc[q]
  BY OnlyFrame DEF Only
<1>3. \A q \in Proc \ {p} : ~Named(disk, q) /\ ~Named(disk', q)
  BY <1>1, HandoffAssumption DEF Named
<1>4. ~Locked(p)'
  BY <1>2 DEF Locked, Sect
<1>5. LockHeld'
  BY <1>2, <1>4, LockStays DEF Held
<1>6. WorkerOwns'
  <2>1. ASSUME NEW q \in Proc \ {p}, pc[q] = "working" PROVE FALSE
    BY <1>1, <2>1 DEF Held, WorkerOwns
  <2> QED
    BY <1>2, <2>1 DEF WorkerOwns
<1>7. ExitFits'
  <2>1. Named(disk', p) => to = "dead" \/ p = Old
    BY HandoffAssumption DEF Named
  <2> QED
    BY <1>2, <1>3, <2>1 DEF ExitFits, Named
<1>8. ASSUME NEW s \in Detached PROVE ChildFit(s)'
  <2>1. s \in Proc /\ Child(s) \in Proc /\ ChildFit(s) /\ s # p
    BY Procs, Children DEF Held, ChildFits, BaseInv, PlacesFit
  <2>2. CASE Child(s) = p
    <3> HIDE DEF Child
    <3> QED
      BY <1>2, <2>1, <2>2 DEF ChildFit, AfterLoad
  <2>3. CASE Child(s) # p
    <3>1. pc[Child(s)] \in AfterLoad => ~Named(mem[Child(s)], Child(s))
      BY <1>3, <2>1, <2>3, OtherChild DEF Held
    <3> HIDE DEF Child
    <3>2. ~Named(disk', Child(s)) /\ pc'[Child(s)] = pc[Child(s)] /\ pc'[s] = pc[s]
      BY <1>2, <1>3, <2>1, <2>3
    <3> QED
      BY <2>1, <3>1, <3>2 DEF ChildFit, Named
  <2> QED
    BY <2>2, <2>3
<1>9. OldSeen'
  <2> SUFFICES ASSUME Alive(Old)', Named(disk, Old)', NEW q \in Proc
               PROVE  (pc'[q] \in Asks => Named(mem[q], Old)') /\ pc'[q] \notin PastOwn
    BY DEF OldSeen
  <2>1. p = Old
    BY <1>3, Procs DEF Named
  <2>2. (pc[q] \in Asks => Named(mem[q], Old)) /\ pc[q] \notin PastOwn
    BY <1>1, <2>1 DEF Held, OldSeen, Named
  <2>3. CASE q = p
    BY <1>2, <2>3 DEF Asks, Asking, PastOwn, Sect
  <2>4. CASE q # p
    BY <1>2, <2>2, <2>4 DEF Named
  <2> QED
    BY <2>3, <2>4
<1>10. HeldQuiet'
  <2> SUFFICES ASSUME NEW q \in Proc, Locked(q)' PROVE Quiet(q)'
    BY DEF HeldQuiet
  <2>1. Locked(q) /\ pc'[q] = pc[q]
    BY <1>2, <1>4, LockedStays
  <2>2. Quiet(q) /\ Alive(disk.pid)
    BY <1>1, <2>1 DEF Held, HeldQuiet
  <2>3. pc[q] = "limbo" => ~Alive(disk.pid)'
    <3> SUFFICES ASSUME pc[q] = "limbo", Alive(disk.pid)' PROVE FALSE
      OBVIOUS
    <3>1. disk'.pid = p /\ to # "dead"
      BY <1>2, HandoffAssumption DEF Alive
    <3>2. p = Old
      BY <3>1, HandoffAssumption
    <3>3. Alive(Old) /\ Named(disk, Old)
      BY <1>1, <3>2 DEF Named
    <3>4. pc[q] \notin PastOwn
      BY <3>3 DEF Held, OldSeen
    <3> QED
      BY <3>4 DEF PastOwn, Sect
  <2> QED
    BY <2>1, <2>2, <2>3 DEF Quiet, Limbo
<1> QED
  BY <1>5, <1>6, <1>7, <1>8, <1>9, <1>10 DEF Held, ChildFits

LEMMA FinishHeld ==
  ASSUME Calm, BaseInv, Held, NEW p \in Runner \cup {Old},
         NEW phase \in Phase \ {"running"}, Finish(p, phase)
  PROVE  Held'
<1>1. Types /\ p \in Proc /\ Forward
  BY Procs, FinishBase DEF BaseInv
<1>2. /\ disk # NoState /\ Moves(p, "working", "exiting") /\ mem' = mem /\ lock' = lock
      /\ phase = "paused" => p = Old
  BY <1>1, FinishIs, MarksAssumption
<1>3. MayWrite(p) => Is(disk', phase,
        IF phase \in TERMINAL_BATCH_PHASES THEN NoOne ELSE mem[p].pid, mem[p].left)
  BY <1>1, FinishIs
<1>4. disk = mem[p] /\ disk.pid = p
  BY <1>1, <1>2 DEF Held, WorkerOwns, Moves
<1>5. disk'.pid = NoOne \/ (disk'.pid = p /\ p = Old)
  BY <1>2, <1>3, <1>4 DEF MayWrite, Other, Is, Phase, TERMINAL_BATCH_PHASES
<1> QED
  BY <1>1, <1>2, <1>5, WorkerEnds DEF Moves

LEMMA CrashHeld ==
  ASSUME Calm, BaseInv, Held, NEW p \in Proc, ParentLost(p) \/ Uncaught(p)
  PROVE  Held'
<1>1. Types /\ Forward
  BY ParentLostBase, UncaughtBase DEF BaseInv
<1>2. /\ disk # NoState /\ Moves(p, "working", "dead") /\ mem' = mem /\ lock' = lock
      /\ disk' = disk \/ disk'.pid = NoOne
  BY <1>1, ParentLostIs, UncaughtIs, MarksAssumption DEF Is
<1>3. disk.pid = p
  BY <1>2 DEF Held, WorkerOwns, Moves
<1> QED
  BY <1>1, <1>2, <1>3, WorkerEnds DEF Moves

LEMMA HeldInit ==
  ASSUME Init
  PROVE  Held
<1>1. BaseInv
  BY BaseInit
<1>2. mem = [p \in Proc |-> disk]
  BY DEF Init
<1>3. PICK old \in {"working", "dead"} :
        /\ old = "working" => disk # NoState /\ disk.pid = Old
        /\ pc = [p \in Proc |-> IF p = Old THEN old
                                ELSE IF p \in Spawned THEN "unborn" ELSE "new"]
  BY DEF Init
<1>4. /\ \A p \in Proc \ {Old} : pc[p] \in {"new", "unborn"}
      /\ pc[Old] = old /\ old \in {"working", "dead"}
      /\ \A p \in Spawned : pc[p] = "unborn"
  BY <1>3, Procs, HandoffAssumption
<1>5. \A p \in Proc : pc[p] \in {"new", "unborn", "working", "dead"}
  BY <1>4
<1>6. \A p \in Proc : ~Locked(p)
  BY <1>5 DEF Locked, Sect
<1>7. LockHeld /\ HeldQuiet
  BY <1>6 DEF LockHeld, HeldQuiet
<1>8. WorkerOwns
  <2> SUFFICES ASSUME NEW p \in Proc, pc[p] = "working"
               PROVE  /\ disk = mem[p] /\ disk.pid = p
                      /\ disk.phase = "running" \/ (disk.phase = "paused" /\ p = Old)
    BY DEF WorkerOwns
  <2>1. p = Old /\ old = "working"
    BY <1>4
  <2>2. disk \in State /\ disk # NoState /\ disk.pid = Old
    BY <1>1, <1>3, <2>1 DEF BaseInv, Types, TypeOK
  <2>3. disk.phase \in Phase \ TERMINAL_BATCH_PHASES
    BY <1>1, <2>2, States, Procs DEF BaseInv, DiskFits
  <2> QED
    BY <1>2, <2>1, <2>2, <2>3 DEF Phase, TERMINAL_BATCH_PHASES
<1>9. ExitFits
  BY <1>5 DEF ExitFits
<1>10. ASSUME NEW s \in Detached PROVE ChildFit(s)
  <2>1. pc[Child(s)] = "unborn" /\ pc[s] \notin {"pid", "persist"}
    BY <1>4, <1>5, Children, Procs
  <2> HIDE DEF Child
  <2> QED
    BY <2>1 DEF ChildFit, AfterLoad
<1>11. OldSeen
  BY <1>5 DEF OldSeen, Asks, Asking, PastOwn, Sect
<1> QED
  BY <1>7, <1>8, <1>9, <1>10, <1>11 DEF Held, ChildFits

LEMMA HeldStep ==
  ASSUME Calm, BaseInv, Held, [Next]_vars, slips' = {}
  PROVE  Held'
<1>1. ASSUME NEW p \in Shell \cup Spawned, Enforce(p) PROVE Held'
  BY <1>1, LoadHeld, CheckOwnerHeld, CreateLockHeld, LockExistsHeld, FillLockHeld,
     ReadHolderHeld, DropLockHeld, TakeOverHeld, SaveHandoffHeld DEF Enforce
<1>2. ASSUME NEW p \in Shell \cup Spawned, Check(p) PROVE Held'
  BY <1>2, ReconstructSlips, ValidateHeld, ReopenGateHeld, RefuseHeld DEF Check
<1>3. ASSUME NEW p \in Shell \cup Spawned, Land(p) PROVE Held'
  BY <1>3, TakeOverLimboHeld, MissLimboHeld, ClaimLimboHeld, LandLimboHeld DEF Land
<1>4. ASSUME NEW p \in Shell \cup Spawned, Prepare(p) PROVE Held'
  BY <1>4, PrepareHeld
<1>5. ASSUME NEW s \in Detached, Launch(s) PROVE Held'
  BY <1>5, SavePreparedHeld, SpawnHeld, LoadForPidHeld, PersistPidHeld, PollHeld
  DEF Launch
<1>6. ASSUME NEW p \in Runner, Claim(p) PROVE Held'
  BY <1>6, ClaimHeld
<1>7. ASSUME NEW p \in Runner \cup {Old}, Advance(p) \/ End(p) \/ Exit(p)
      PROVE  Held'
  BY <1>7, AdvanceHeld, FinishHeld, ExitHeld DEF End
<1>8. ASSUME NEW p \in Proc, ParentLost(p) \/ Uncaught(p) \/ Killed(p)
      PROVE  Held'
  BY <1>8, CrashHeld, KilledHeld
<1>9. CASE UNCHANGED vars
  <2>1. UNCHANGED <<disk, lock, mem, pc>>
    BY <1>9 DEF vars
  <2>2. \A p \in Proc : Locked(p)' <=> Locked(p)
    BY <2>1 DEF Locked, Named
  <2>3. \A p \in Proc : Quiet(p)' <=> Quiet(p)
    BY <2>1 DEF Quiet, Alive, Limbo
  <2>4. \A s \in Detached : ChildFit(s)' <=> ChildFit(s)
    BY <2>1 DEF ChildFit, ChildRuns, ChildWaits, Named
  <2>5. LockHeld' /\ HeldQuiet' /\ ChildFits'
    BY <2>1, <2>2, <2>3, <2>4 DEF Held, LockHeld, HeldQuiet, ChildFits
  <2>6. WorkerOwns' /\ ExitFits' /\ OldSeen'
    BY <2>1 DEF Held, WorkerOwns, ExitFits, OldSeen, Named, Alive
  <2> QED
    BY <2>5, <2>6 DEF Held
<1> QED
  BY <1>1, <1>2, <1>3, <1>4, <1>5, <1>6, <1>7, <1>8, <1>9 DEF Next, Resume, Detached

LEMMA SlipsStay ==
  ASSUME BaseInv, [Next]_vars
  PROVE  slips \subseteq slips'
<1>1. Types
  BY DEF BaseInv
<1>2. ASSUME NEW p \in Shell \cup Spawned, Enforce(p) PROVE slips \subseteq slips'
  BY <1>1, <1>2, LoadIs, CheckOwnerIs, CreateLockIs, LockExistsIs, FillLockIs,
     ReadHolderIs, DropLockIs, TakeOverIs, SaveHandoffIs DEF Enforce
<1>3. ASSUME NEW p \in Shell \cup Spawned, Check(p) PROVE slips \subseteq slips'
  BY <1>1, <1>3, ReconstructIs, ValidateIs, ReopenGateIs, RefuseIs DEF Check
<1>4. ASSUME NEW p \in Shell \cup Spawned, Land(p) \/ Prepare(p) PROVE slips \subseteq slips'
  BY <1>1, <1>4, TakeOverLimboIs, MissLimboIs, ClaimLimboIs, LandLimboIs, PrepareIs
  DEF Land
<1>5. ASSUME NEW s \in Detached, Launch(s) PROVE slips \subseteq slips'
  BY <1>1, <1>5, SavePreparedIs, SpawnIs, LoadForPidIs, PersistPidIs, PollIs DEF Launch
<1>6. ASSUME NEW p \in Runner, Claim(p) PROVE slips \subseteq slips'
  BY <1>1, <1>6, ClaimIs
<1>7. ASSUME NEW p \in Runner \cup {Old}, Advance(p) \/ End(p) \/ Exit(p)
      PROVE  slips \subseteq slips'
  BY <1>1, <1>7, AdvanceIs, FinishIs, ExitIs DEF End
<1>8. ASSUME NEW p \in Proc, ParentLost(p) \/ Uncaught(p) \/ Killed(p)
      PROVE  slips \subseteq slips'
  BY <1>1, <1>8, ParentLostIs, UncaughtIs, KilledIs
<1>9. CASE UNCHANGED vars
  BY <1>9 DEF vars
<1> QED
  BY <1>2, <1>3, <1>4, <1>5, <1>6, <1>7, <1>8, <1>9 DEF Next, Resume, Detached

HandoffInv == BaseInv /\ (slips = {} => Held)

LEMMA HandoffStep ==
  ASSUME Calm, HandoffInv, [Next]_vars
  PROVE  HandoffInv'
<1>1. BaseInv'
  BY BaseStep DEF HandoffInv
<1>2. slips \subseteq slips'
  BY SlipsStay DEF HandoffInv
<1>3. ASSUME slips' = {} PROVE Held'
  BY <1>2, <1>3, HeldStep DEF HandoffInv
<1> QED
  BY <1>1, <1>3 DEF HandoffInv

(* No two engines work on one batch (OneEngine), however many forced resumes *)
(* are typed and at whatever moment, whichever engines die or crash, short   *)
(* of the slips; given that a child claims in time and the shells that wait  *)
(* for a child live.                                                         *)
THEOREM OneEngineWorks == ASSUME Calm PROVE Spec => []OneEngine
<1>1. Init => HandoffInv
  BY BaseInit, HeldInit DEF HandoffInv
<1>2. HandoffInv /\ [Next]_vars => HandoffInv'
  BY HandoffStep
<1>3. HandoffInv => OneEngine
  <2> SUFFICES ASSUME WorkerOwns PROVE Cardinality(Working) <= 1
    BY DEF HandoffInv, Held, OneEngine
  <2>1. \A p, q \in Working : p = q
    BY DEF WorkerOwns, Working
  <2>2. CASE Working = {}
    BY <2>2, FS_EmptySet
  <2>3. CASE Working # {}
    <3>1. PICK p : Working = {p}
      BY <2>1, <2>3
    <3> QED
      BY <3>1, FS_Singleton
  <2> QED
    BY <2>2, <2>3
<1> QED
  BY <1>1, <1>2, <1>3, PTL DEF Spec

---------------------------------------------------------------------------
(* A completed batch.                                                        *)

(* Nobody is recorded in it, so that nobody works in it or may claim it.     *)
LEMMA NoClaim ==
  ASSUME BaseInv, Held, NEW p \in Proc, pc[p] \in {"save", "working"},
         disk # NoState, disk.phase = "completed"
  PROVE  p \in Detached
<1>1. disk.pid = NoOne /\ ~Named(disk, p)
  BY HandoffAssumption DEF BaseInv, DiskFits, TERMINAL_BATCH_PHASES, Named
<1>2. pc[p] # "working"
  BY <1>1, HandoffAssumption DEF Held, WorkerOwns
<1>3. CASE p \in Runner
  <2>1. Locked(p)
    <3> SUFFICES ASSUME p \in Spawned PROVE ~Named(mem[p], p)
      BY <1>2 DEF Locked, Sect
    <3>1. PICK s \in Detached : p = Child(s)
      BY Children
    <3> QED
      BY <1>1, <1>2, <3>1, OtherChild DEF Held, AfterLoad
  <2> QED
    BY <1>2, <1>3, <2>1 DEF Held, HeldQuiet, Quiet
<1>4. CASE p = Old
  BY <1>2, <1>4 DEF BaseInv, PlacesFit
<1> QED
  BY <1>3, <1>4, Procs

LEMMA CompletedKept ==
  ASSUME Calm, BaseInv, Held, Next, slips' = {},
         disk # NoState, disk.phase = "completed"
  PROVE  disk'.phase = "completed"
<1> USE DEF Is, Writes
<1>1. Types
  BY DEF BaseInv
<1>2. ASSUME NEW p \in Shell \cup Spawned, Enforce(p) PROVE disk'.phase = "completed"
  BY <1>1, <1>2, LoadIs, CheckOwnerIs, CreateLockIs, LockExistsIs, FillLockIs,
     ReadHolderIs, DropLockIs, TakeOverIs, SaveHandoffIs DEF Enforce
<1>3. ASSUME NEW p \in Shell \cup Spawned, Check(p) PROVE disk'.phase = "completed"
  BY <1>1, <1>3, ReconstructIs, ValidateIs, ReopenGateIs, RefuseIs DEF Check
<1>4. ASSUME NEW p \in Shell \cup Spawned, ClaimLimbo(p) PROVE disk'.phase = "completed"
  <2>1. p \in Proc /\ pc[p] = "claim"
    BY <1>1, <1>4, Procs, ClaimLimboIs DEF Moves
  <2>2. ~Named(mem[p], p)
    BY <2>1, NotOwner DEF Held
  <2>3. mem[p].phase = disk.phase
    BY <2>1, <2>2 DEF Locked, Sect, Held, HeldQuiet, Quiet
  <2> QED
    BY <1>1, <1>4, <2>3, ClaimLimboIs
<1>5. ASSUME NEW p \in Shell \cup Spawned, Land(p) \/ Prepare(p), ~ClaimLimbo(p)
      PROVE  disk'.phase = "completed"
  BY <1>1, <1>5, TakeOverLimboIs, MissLimboIs, LandLimboIs, PrepareIs DEF Land
<1>6. ASSUME NEW s \in Detached, SavePrepared(s) \/ PersistPid(s)
      PROVE  disk'.phase = "completed"
  <2>1. s \in Proc /\ s \notin Spawned /\ pc[s] \in {"save", "persist"}
    BY <1>1, <1>6, Procs, HandoffAssumption, SavePreparedIs, PersistPidIs DEF Moves
  <2>2. mem[s].phase = disk.phase
    BY <2>1 DEF Locked, Sect, Held, HeldQuiet, Quiet
  <2> QED
    BY <1>1, <1>6, <2>2, SavePreparedIs, PersistPidIs
<1>7. ASSUME NEW s \in Detached, Spawn(s) \/ LoadForPid(s) \/ Poll(s)
      PROVE  disk'.phase = "completed"
  BY <1>1, <1>7, SpawnIs, LoadForPidIs, PollIs
<1>8. ASSUME NEW p \in Proc \ Detached
      PROVE  pc[p] \notin {"save", "working"}
  BY <1>8, NoClaim
<1>9. ASSUME NEW p \in Runner, Claim(p) PROVE FALSE
  BY <1>1, <1>8, <1>9, Procs, ClaimIs DEF Moves
<1>10. ASSUME NEW p \in Runner \cup {Old}, Advance(p) \/ End(p) PROVE FALSE
  BY <1>1, <1>8, <1>10, Procs, AdvanceIs, FinishIs DEF Moves, End
<1>11. ASSUME NEW p \in Runner \cup {Old}, Exit(p) PROVE disk'.phase = "completed"
  BY <1>1, <1>11, ExitIs
<1>12. ASSUME NEW p \in Proc, ParentLost(p) \/ Uncaught(p) PROVE FALSE
  <2>1. pc[p] = "working"
    BY <1>1, <1>12, ParentLostIs, UncaughtIs DEF Moves
  <2> QED
    BY <2>1, NoClaim DEF BaseInv, PlacesFit
<1>13. ASSUME NEW p \in Proc, Killed(p) PROVE disk'.phase = "completed"
  BY <1>1, <1>13, KilledIs
<1> QED
  BY <1>2, <1>3, <1>4, <1>5, <1>6, <1>7, <1>9, <1>10, <1>11, <1>12, <1>13
  DEF Next, Resume, Launch, Detached

(* No process sets a completed batch back, short of the slips                *)
(* (CompletedStays): whoever may still write what it has read holds the lock *)
(* and has read the batch while nobody who lives was recorded in it.         *)
THEOREM CompletedIsKept == ASSUME Calm PROVE Spec => CompletedStays
<1> DEFINE A == disk # NoState /\ disk.phase = "completed"
                => slips' # {} \/ disk'.phase = "completed"
<1>1. Init => HandoffInv
  BY BaseInit, HeldInit DEF HandoffInv
<1>2. HandoffInv /\ [Next]_vars => HandoffInv'
  BY HandoffStep
<1>3. HandoffInv /\ [Next]_vars => [A]_vars
  <2>1. ASSUME HandoffInv, Next, slips' = {}, disk # NoState, disk.phase = "completed"
        PROVE  disk'.phase = "completed"
    <3>1. slips = {}
      BY <2>1, SlipsStay DEF HandoffInv
    <3> QED
      BY <2>1, <3>1, CompletedKept DEF HandoffInv
  <2> QED
    BY <2>1
<1> QED
  BY <1>1, <1>2, <1>3, PTL DEF Spec, CompletedStays

=============================================================================
