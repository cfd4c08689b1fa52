------------------------ MODULE BatchStateLockProofs ------------------------
(* Theorems about BatchStateLock, for any set of processes, any number of    *)
(* calls and any faults.                                                     *)
EXTENDS BatchStateLock, TLAPS

(* A content is a token or one of the two sentinels, never both. *)
LEMMA ContentKinds ==
  /\ NoFile # Junk
  /\ NoFile \notin Token /\ Junk \notin Token
  /\ Token \subseteq Content /\ NoFile \in Content /\ Junk \in Content
  /\ Content \ {NoFile, Junk} \subseteq Token
BY SentinelAssumption DEF Content

(* Two processes never write the same token, and a process's token is typed. *)
LEMMA Tokens ==
  ASSUME TypeOK
  PROVE  /\ \A p \in Proc : Tok(p) \in Token /\ Tok(p).owner = p
         /\ \A p, q \in Proc : Tok(p) = Tok(q) => p = q
BY DEF Tok, Token, TypeOK

(* Every variable keeps its type, whichever file system call comes next. *)
LEMMA TypeStep == TypeOK /\ [Next]_vars => TypeOK'
<1> SUFFICES ASSUME TypeOK, [Next]_vars PROVE TypeOK'
  OBVIOUS
<1> USE ContentKinds, Tokens DEF TypeOK
<1>1. ASSUME NEW p \in Proc, Acquire(p) PROVE TypeOK'
  <2>1. CASE Call(p)
    BY <2>1, LockAssumption DEF Call, Goto, PC
  <2>2. CASE Create(p)
    BY <2>2 DEF Create, Goto, PC
  <2>3. CASE CreateFails(p)
    BY <2>3 DEF CreateFails, Goto, PC
  <2>4. QED BY <1>1, <2>1, <2>2, <2>3 DEF Acquire
<1>2. ASSUME NEW p \in Proc, Break(p) PROVE TypeOK'
  <2>1. CASE ReadLock(p)
    BY <2>1 DEF ReadLock, Goto, PC
  <2>2. CASE JudgeStale(p)
    BY <2>2 DEF JudgeStale, Goto, PC
  <2>3. CASE JudgeKeep(p)
    BY <2>3 DEF JudgeKeep, Forget, Goto, PC
  <2>4. CASE Rename(p)
    BY <2>4 DEF Rename, Live, Holding, Goto, PC
  <2>5. CASE RenameFails(p)
    BY <2>5 DEF RenameFails, Forget, Goto, PC
  <2>6. CASE Discard(p)
    BY <2>6 DEF Discard, Forget, Goto, PC
  <2>7. CASE PutBack(p)
    BY <2>7 DEF PutBack, Forget, Goto, PC
  <2>8. QED
    BY <1>2, <2>1, <2>2, <2>3, <2>4, <2>5, <2>6, <2>7 DEF Break
<1>3. ASSUME NEW p \in Proc, Poll(p) PROVE TypeOK'
  BY <1>3 DEF Poll, TimeOut, Retry, Goto, PC
<1>4. ASSUME NEW p \in Proc, Release(p) PROVE TypeOK'
  <2>1. CASE ReadOwn(p)
    BY <2>1 DEF ReadOwn, Goto, PC
  <2>2. CASE Unlink(p)
    BY <2>2 DEF Unlink, Goto, PC
  <2>3. QED BY <1>4, <2>1, <2>2 DEF Release
<1>5. ASSUME NEW p \in Proc, Fault(p) PROVE TypeOK'
  BY <1>5 DEF Fault, Crash, ReusePid, Forget, PC
<1>6. CASE UNCHANGED vars
  BY <1>6 DEF vars
<1>7. QED BY <1>1, <1>2, <1>3, <1>4, <1>5, <1>6 DEF Next

(* The initial states are typed. *)
LEMMA InitTyped == Init => TypeOK
<1> SUFFICES ASSUME Init PROVE TypeOK
  OBVIOUS
<1>1. lock \in Content
  BY ContentKinds DEF Init
<1>2. pc \in [Proc -> PC]
  BY DEF Init, PC
<1>3. call \in [Proc -> 0..MaxCalls]
  BY LockAssumption DEF Init
<1>4. seen \in [Proc -> Content] /\ copy \in [Proc -> Content]
  BY ContentKinds DEF Init
<1>5. status \in [Proc -> {"up", "gone", "reused"}]
  BY DEF Init
<1>6. displaced \in BOOLEAN
  BY DEF Init
<1>7. QED BY <1>1, <1>2, <1>3, <1>4, <1>5, <1>6 DEF TypeOK

(* The type invariant of the lock protocol holds in every state. *)
THEOREM TypeCorrect == Spec => []TypeOK
BY InitTyped, TypeStep, PTL DEF Spec
-----------------------------------------------------------------------------
(* A killed process stays out of the protocol. *)
LEMMA DeadStep == TypeOK /\ DeadIsIdle /\ [Next]_vars => DeadIsIdle'
<1> SUFFICES ASSUME TypeOK, DeadIsIdle, [Next]_vars PROVE DeadIsIdle'
  OBVIOUS
<1> USE DEF TypeOK, DeadIsIdle
<1>1. ASSUME NEW p \in Proc, Acquire(p) \/ Poll(p) PROVE DeadIsIdle'
  BY <1>1 DEF Acquire, Poll, Call, Create, CreateFails, TimeOut, Retry, Goto
<1>2. ASSUME NEW p \in Proc, Break(p) PROVE DeadIsIdle'
  BY <1>2 DEF Break, ReadLock, JudgeStale, JudgeKeep, Rename, RenameFails,
              Discard, PutBack, Goto
<1>3. ASSUME NEW p \in Proc, Release(p) \/ Fault(p) PROVE DeadIsIdle'
  BY <1>3 DEF Release, ReadOwn, Unlink, Fault, Crash, ReusePid, Goto
<1>4. CASE UNCHANGED vars
  BY <1>4 DEF vars
<1>5. QED BY <1>1, <1>2, <1>3, <1>4 DEF Next

(* What a breaker judged stale stays stale: the dead do not come back. *)
LEMMA JudgedStep == TypeOK /\ JudgedStale /\ [Next]_vars => JudgedStale'
<1> SUFFICES ASSUME TypeOK, JudgedStale, [Next]_vars PROVE JudgedStale'
  OBVIOUS
<1> USE ContentKinds DEF TypeOK, JudgedStale, Token
<1>1. ASSUME NEW p \in Proc, Acquire(p) \/ Poll(p) PROVE JudgedStale'
  BY <1>1 DEF Acquire, Poll, Call, Create, CreateFails, TimeOut, Retry, Goto
<1>2. ASSUME NEW p \in Proc, Break(p) PROVE JudgedStale'
  <2>1. CASE ReadLock(p)
    BY <2>1 DEF ReadLock, Goto
  <2>2. CASE JudgeStale(p)
    BY <2>2 DEF JudgeStale, HolderIsStale, Unreadable, Goto
  <2>3. CASE JudgeKeep(p) \/ RenameFails(p) \/ Discard(p) \/ PutBack(p)
    BY <2>3 DEF JudgeKeep, RenameFails, Discard, PutBack, Forget, Goto
  <2>4. CASE Rename(p)
    BY <2>4 DEF Rename, Goto
  <2>5. QED BY <1>2, <2>1, <2>2, <2>3, <2>4 DEF Break
<1>3. ASSUME NEW p \in Proc, Release(p) \/ Fault(p) PROVE JudgedStale'
  BY <1>3 DEF Release, ReadOwn, Unlink, Fault, Crash, ReusePid, Forget, Goto
<1>4. CASE UNCHANGED vars
  BY <1>4 DEF vars
<1>5. QED BY <1>1, <1>2, <1>3, <1>4 DEF Next

(* No live process holds the token a breaker is about to delete. *)
LEMMA StaleIsNotLive ==
  ASSUME TypeOK, DeadIsIdle, JudgedStale,
         NEW p \in Proc, pc[p] \in {"rename", "settle"}, seen[p] \in Token
  PROVE  ~Live(seen[p])
<1> SUFFICES ASSUME NEW q \in Proc, Holding(q), seen[p] = Tok(q) PROVE FALSE
  BY DEF Live
<1>1. seen[p].owner = q
  BY DEF Tok
<1>2. q # p /\ status[q] = "up"
  BY DEF Holding, DeadIsIdle
<1>3. QED BY <1>1, <1>2 DEF JudgedStale

(* A holder's file stays at lockPath until a live holder's is displaced. *)
LEMMA HolderStep == LockInv /\ [Next]_vars => HolderOwnsFile'
<1> SUFFICES ASSUME LockInv, [Next]_vars, ~displaced'
             PROVE  \A q \in Proc : Holding(q)' => lock' = Tok(q)'
  BY DEF HolderOwnsFile
<1> USE ContentKinds, Tokens DEF LockInv, TypeOK, Holding
<1>1. ~displaced /\ \A q \in Proc : Holding(q) => lock = Tok(q)
  <2>1. displaced => displaced'
    BY DEF Next, vars, Acquire, Call, Create, CreateFails, Break, ReadLock,
           JudgeStale, JudgeKeep, Rename, RenameFails, Discard, PutBack, Poll,
           TimeOut, Retry, Release, ReadOwn, Unlink, Fault, Crash, ReusePid
  <2>2. QED BY <2>1 DEF HolderOwnsFile
<1>2. ASSUME NEW p \in Proc, Acquire(p) \/ Poll(p)
      PROVE  \A q \in Proc : Holding(q)' => lock' = Tok(q)'
  <2>1. CASE Create(p)
    BY <1>1, <2>1 DEF Create, Goto, Tok
  <2>2. CASE Call(p)
    BY <1>1, <2>2 DEF Call, Goto, Tok
  <2>3. CASE CreateFails(p) \/ Poll(p)
    BY <1>1, <2>3 DEF CreateFails, Poll, TimeOut, Retry, Goto, Tok
  <2>4. QED BY <1>2, <2>1, <2>2, <2>3 DEF Acquire
<1>3. ASSUME NEW p \in Proc, Break(p)
      PROVE  \A q \in Proc : Holding(q)' => lock' = Tok(q)'
  <2>1. CASE Rename(p)
    <3>1. ~Live(lock)
      BY <2>1 DEF Rename
    <3>2. \A q \in Proc : ~Holding(q)
      BY <1>1, <3>1 DEF Live
    <3>3. QED BY <2>1, <3>2 DEF Rename, Goto
  <2>2. CASE PutBack(p)
    BY <1>1, <2>2 DEF PutBack, Goto, Tok
  <2>3. CASE ReadLock(p) \/ JudgeStale(p) \/ JudgeKeep(p) \/ RenameFails(p)
             \/ Discard(p)
    BY <1>1, <2>3 DEF ReadLock, JudgeStale, JudgeKeep, RenameFails, Discard,
                      Goto, Tok
  <2>4. QED BY <1>3, <2>1, <2>2, <2>3 DEF Break
<1>4. ASSUME NEW p \in Proc, Release(p)
      PROVE  \A q \in Proc : Holding(q)' => lock' = Tok(q)'
  <2>1. CASE ReadOwn(p)
    BY <1>1, <2>1 DEF ReadOwn, Goto, Tok
  <2>2. CASE Unlink(p)
    BY <1>1, <2>2 DEF Unlink, Goto, Tok
  <2>3. QED BY <1>4, <2>1, <2>2 DEF Release
<1>5. ASSUME NEW p \in Proc, Fault(p)
      PROVE  \A q \in Proc : Holding(q)' => lock' = Tok(q)'
  BY <1>1, <1>5 DEF Fault, Crash, ReusePid, Tok
<1>6. CASE UNCHANGED vars
  BY <1>1, <1>6 DEF vars, Tok
<1>7. QED BY <1>2, <1>3, <1>4, <1>5, <1>6 DEF Next

(* The inductive invariant of the lock protocol. *)
THEOREM LockInvariant == Spec => []LockInv
<1>1. Init => LockInv
  <2>2. Init => DeadIsIdle /\ JudgedStale /\ HolderOwnsFile
    BY DEF Init, DeadIsIdle, JudgedStale, HolderOwnsFile, Holding
  <2>3. QED BY InitTyped, <2>2 DEF LockInv
<1>2. LockInv /\ [Next]_vars => LockInv'
  BY TypeStep, DeadStep, JudgedStep, HolderStep DEF LockInv
<1>3. QED BY <1>1, <1>2, PTL DEF Spec

(* As long as no live holder's file was displaced, a holder's file is the    *)
(* one at lockPath, and so no two processes are in their sections.           *)
THEOREM HolderOwns == Spec => []HolderOwnsFile
<1>1. LockInv => HolderOwnsFile
  BY DEF LockInv
<1>2. QED BY <1>1, LockInvariant, PTL

(* While nothing was displaced, no two processes are in their sections.      *)
THEOREM MutexUnlessDisplaced == Spec => [](~displaced => MutualExclusion)
<1>1. LockInv => (~displaced => MutualExclusion)
  BY Tokens DEF LockInv, HolderOwnsFile, MutualExclusion, Holding
<1>2. QED BY <1>1, LockInvariant, PTL

(* A file deleted as stale is never a live holder's, displaced or not. *)
THEOREM StealsStale == Spec => []StealsOnlyStale
<1>1. LockInv => StealsOnlyStale
  <2> SUFFICES ASSUME LockInv, NEW p \in Proc,
                      pc[p] = "settle", copy[p] = seen[p]
               PROVE  ~Live(copy[p])
    BY DEF StealsOnlyStale
  <2>1. CASE seen[p] \in Token
    BY <2>1, StaleIsNotLive DEF LockInv
  <2>2. CASE seen[p] \notin Token
    BY <2>2, Tokens DEF LockInv, Live
  <2>3. QED BY <2>1, <2>2
<1>2. QED BY <1>1, LockInvariant, PTL

(* Nothing at lockPath outlives the call of a live owner. *)
LEMMA LeakStep == LockInv /\ LeakInv /\ [Next]_vars => LeakInv'
<1> SUFFICES ASSUME LockInv, LeakInv, [Next]_vars, ~displaced'
             PROVE  LeakInv'
  BY DEF LeakInv, NoLeakedLock, RenamedIsDead
<1> USE ContentKinds, Tokens
    DEF LockInv, LeakInv, NoLeakedLock, RenamedIsDead, TypeOK, Token
<1>1. ~displaced /\ \A q \in Proc : Holding(q) => lock = Tok(q)
  <2>1. displaced => displaced'
    BY DEF Next, vars, Acquire, Call, Create, CreateFails, Break, ReadLock,
           JudgeStale, JudgeKeep, Rename, RenameFails, Discard, PutBack, Poll,
           TimeOut, Retry, Release, ReadOwn, Unlink, Fault, Crash, ReusePid
  <2>2. QED BY <2>1 DEF HolderOwnsFile
<1>2. ASSUME NEW p \in Proc, Acquire(p) \/ Poll(p) PROVE LeakInv'
  <2>1. CASE Create(p)
    BY <1>1, <2>1 DEF Create, Goto, Live, Holding, Tok
  <2>2. CASE Call(p)
    BY <1>1, <2>2 DEF Call, Goto, Live, Holding, Tok
  <2>3. CASE CreateFails(p) \/ Poll(p)
    BY <1>1, <2>3 DEF CreateFails, Poll, TimeOut, Retry, Goto, Live, Holding, Tok
  <2>4. QED BY <1>2, <2>1, <2>2, <2>3 DEF Acquire
<1>3. ASSUME NEW p \in Proc, Break(p) PROVE LeakInv'
  <2>1. CASE Rename(p)
    BY <2>1 DEF Rename, Goto
  <2>2. CASE PutBack(p)
    BY <1>1, <2>2 DEF PutBack, Goto, Live, Holding, Tok
  <2>3. CASE ReadLock(p) \/ JudgeStale(p) \/ JudgeKeep(p) \/ RenameFails(p)
             \/ Discard(p)
    BY <1>1, <2>3 DEF ReadLock, JudgeStale, JudgeKeep, RenameFails, Discard,
                      Goto, Live, Holding, Tok
  <2>4. QED BY <1>3, <2>1, <2>2, <2>3 DEF Break
<1>4. ASSUME NEW p \in Proc, Release(p) PROVE LeakInv'
  <2>1. CASE ReadOwn(p)
    BY <1>1, <2>1 DEF ReadOwn, Goto, Live, Holding, Tok
  <2>2. CASE Unlink(p)
    BY <1>1, <2>2 DEF Unlink, Goto
  <2>3. QED BY <1>4, <2>1, <2>2 DEF Release
<1>5. ASSUME NEW p \in Proc, Fault(p) PROVE LeakInv'
  BY <1>1, <1>5 DEF Fault, Crash, ReusePid, Live, Holding, Tok
<1>6. CASE UNCHANGED vars
  BY <1>1, <1>6 DEF vars, Live, Holding, Tok
<1>7. QED BY <1>2, <1>3, <1>4, <1>5, <1>6 DEF Next

(* No live process leaves its lock file behind. *)
THEOREM NoLockLeaks == Spec => []NoLeakedLock
<1>1. Init => LeakInv
  BY ContentKinds DEF Init, LeakInv, NoLeakedLock, RenamedIsDead
<1>2. LeakInv => NoLeakedLock
  BY DEF LeakInv
<1>3. QED BY <1>1, <1>2, LeakStep, LockInvariant, PTL DEF Spec
-----------------------------------------------------------------------------
(* Without faults no waiter ever finds a stale lock. *)
LEMMA QuietStep == LockInv /\ QuietInv /\ [Next]_vars => QuietInv'
<1> SUFFICES ASSUME LockInv, QuietInv, [Next]_vars, Faults = {}
             PROVE  QuietInv'
  BY DEF QuietInv
<1> USE ContentKinds, Tokens DEF LockInv, TypeOK, QuietInv
<1>1. \A q \in Proc : Holding(q) => lock = Tok(q)
  BY DEF HolderOwnsFile
<1>2. ASSUME NEW p \in Proc, Acquire(p) \/ Poll(p) PROVE QuietInv'
  <2>1. CASE Create(p)
    BY <2>1, <1>1 DEF Create, Goto, Live, Holding, Tok
  <2>2. CASE Call(p)
    BY <2>2, <1>1 DEF Call, Goto, Live, Holding, Tok
  <2>3. CASE CreateFails(p) \/ Poll(p)
    BY <2>3, <1>1 DEF CreateFails, Poll, TimeOut, Retry, Goto, Live, Holding, Tok
  <2>4. QED BY <1>2, <2>1, <2>2, <2>3 DEF Acquire
<1>3. ASSUME NEW p \in Proc, Break(p) PROVE QuietInv'
  <2>1. CASE ReadLock(p)
    <3>1. lock # NoFile => lock \in Token /\ lock.owner # p
      BY <2>1, <1>1 DEF ReadLock, Goto, Live, Holding, Tok
    <3>2. QED BY <2>1, <3>1 DEF ReadLock, Goto, Live, Holding, Tok
  <2>2. ~JudgeStale(p)
    <3>1. CASE seen[p] = NoFile
      BY <3>1 DEF JudgeStale, Unreadable, OldEnough, Live
    <3>2. CASE seen[p] # NoFile
      BY <3>2 DEF JudgeStale, Unreadable, HolderIsStale, Goto, Token
    <3>3. QED BY <3>1, <3>2
  <2>3. CASE JudgeKeep(p)
    BY <2>3 DEF JudgeKeep, Forget, Goto, Live, Holding, Tok
  <2>4. ~(Rename(p) \/ RenameFails(p) \/ Discard(p) \/ PutBack(p))
    BY DEF Rename, RenameFails, Discard, PutBack, Goto
  <2>5. QED BY <1>3, <2>1, <2>2, <2>3, <2>4 DEF Break
<1>4. ASSUME NEW p \in Proc, Release(p) PROVE QuietInv'
  <2>1. CASE ReadOwn(p)
    BY <2>1, <1>1 DEF ReadOwn, Goto, Live, Holding, Tok
  <2>2. CASE Unlink(p)
    BY <2>2 DEF Unlink, Goto
  <2>3. QED BY <1>4, <2>1, <2>2 DEF Release
<1>5. ~(\E p \in Proc : Fault(p))
  BY DEF Fault, Crash, ReusePid
<1>6. CASE UNCHANGED vars
  BY <1>6 DEF vars, Live, Holding, Tok
<1>7. QED BY <1>2, <1>3, <1>4, <1>5, <1>6 DEF Next

(* So in a fault-free execution every file at lockPath is a live holder's.   *)
LEMMA QuietInvariant == Spec => []QuietInv
<1>1. Init => QuietInv
  BY DEF Init, QuietInv
<1>2. QED BY <1>1, QuietStep, LockInvariant, PTL DEF Spec

(* Without a killed process, a stalled reader or junk, nothing is displaced. *)
THEOREM DisplacedNeedsFault == Spec => []DisplacedOnlyByFault
<1>1. QuietInv => DisplacedOnlyByFault
  BY DEF QuietInv, DisplacedOnlyByFault
<1>2. QED BY <1>1, QuietInvariant, PTL

(* Until a live holder's file is displaced the lock file implements mutual   *)
(* exclusion: entering is Create, leaving is ReadOwn, a kill, or the rename  *)
(* that displaces the file.                                                  *)
THEOREM LockImplementsMutex == Spec => ImplementsMutex
<1>1. Init => Mutex!Init
  BY DEF Init, Inside, Mutex!Init
<1>2. LockInv /\ [Next]_vars => [Mutex!Next]_Inside
  <2> SUFFICES ASSUME LockInv, [Next]_vars
               PROVE  Mutex!Next \/ Inside' = Inside
    OBVIOUS
  <2> USE ContentKinds, Tokens DEF LockInv, TypeOK
  <2>1. ASSUME NEW p \in Proc, Create(p) PROVE Mutex!Next \/ Inside' = Inside
    <3>1. CASE displaced
      BY <2>1, <3>1 DEF Create, Inside
    <3>2. CASE ~displaced
      <4>1. \A q \in Proc : pc[q] # "section"
        BY <2>1, <3>2 DEF Create, HolderOwnsFile, Holding
      <4>2. \A q \in Proc : pc'[q] = "section" <=> q = p
        BY <2>1, <4>1 DEF Create, Goto
      <4>3. displaced' = displaced
        BY <2>1 DEF Create
      <4>4. Mutex!Enter(p)
        BY <3>2, <4>1, <4>2, <4>3 DEF Mutex!Enter, Inside
      <4>5. QED BY <4>4 DEF Mutex!Next
    <3>3. QED BY <3>1, <3>2
  <2>2. ASSUME NEW p \in Proc, ReadOwn(p) \/ Crash(p)
        PROVE  Mutex!Next \/ Inside' = Inside
    <3>1. displaced' = displaced
      BY <2>2 DEF ReadOwn, Crash
    <3>2. pc'[p] # "section" /\ \A q \in Proc : q # p => pc'[q] = pc[q]
      BY <2>2 DEF ReadOwn, Crash, Goto
    <3>3. Inside' = Inside \ {p}
      BY <3>1, <3>2 DEF Inside
    <3>4. CASE p \in Inside
      BY <3>3, <3>4 DEF Mutex!Leave, Mutex!Next
    <3>5. CASE p \notin Inside
      BY <3>3, <3>5
    <3>6. QED BY <3>4, <3>5
  <2>3. ASSUME NEW p \in Proc, Rename(p) PROVE Mutex!Next \/ Inside' = Inside
    <3>1. \A q \in Proc : pc'[q] = "section" <=> pc[q] = "section"
      BY <2>3 DEF Rename, Goto
    <3>2. CASE displaced' = displaced
      BY <3>1, <3>2 DEF Inside
    <3>3. CASE displaced' # displaced
      <4>1. ~displaced /\ displaced'
        BY <2>3, <3>3 DEF Rename
      <4>2. CASE Inside = {}
        BY <4>1, <4>2 DEF Inside
      <4>3. CASE \E q \in Proc : q \in Inside
        <5>1. PICK q \in Proc : q \in Inside
          BY <4>3
        <5>2. Inside = {q}
          BY <4>1, <5>1 DEF Inside, HolderOwnsFile, Holding
        <5>3. Mutex!Leave(q)
          BY <4>1, <5>2 DEF Inside, Mutex!Leave
        <5>4. QED BY <5>3 DEF Mutex!Next
      <4>4. QED BY <4>2, <4>3 DEF Inside
    <3>4. QED BY <3>2, <3>3
  <2> DEFINE Kept == /\ displaced' = displaced
                     /\ \A q \in Proc : pc'[q] = "section" <=> pc[q] = "section"
  <2>4. ASSUME NEW p \in Proc, Acquire(p) \/ Poll(p), ~Create(p) PROVE Kept
    BY <2>4 DEF Acquire, Poll, Call, CreateFails, TimeOut, Retry, Goto
  <2>5. ASSUME NEW p \in Proc, Break(p), ~Rename(p) PROVE Kept
    BY <2>5 DEF Break, ReadLock, JudgeStale, JudgeKeep, RenameFails,
                Discard, PutBack, Goto
  <2>6. ASSUME NEW p \in Proc, Unlink(p) \/ ReusePid(p) PROVE Kept
    BY <2>6 DEF Unlink, ReusePid, Goto
  <2>7. CASE UNCHANGED vars
    BY <2>7 DEF vars, Inside
  <2>8. Kept => Inside' = Inside
    <3>1. ASSUME Kept, displaced PROVE Inside' = Inside
      BY <3>1 DEF Inside
    <3>2. ASSUME Kept, ~displaced PROVE Inside' = Inside
      <4>1. Inside' = {q \in Proc : pc'[q] = "section"}
        BY <3>2 DEF Inside
      <4>2. QED BY <3>2, <4>1 DEF Inside
    <3>3. QED BY <3>1, <3>2
  <2>9. ASSUME NEW p \in Proc,
               Acquire(p) \/ Break(p) \/ Poll(p) \/ Release(p) \/ Fault(p)
        PROVE  Mutex!Next \/ Inside' = Inside
    <3> HIDE DEF Kept
    <3>1. CASE Create(p)
      BY <2>1, <3>1
    <3>2. CASE ReadOwn(p) \/ Crash(p)
      BY <2>2, <3>2
    <3>3. CASE Rename(p)
      BY <2>3, <3>3
    <3>4. CASE (Acquire(p) \/ Poll(p)) /\ ~Create(p)
      BY <2>4, <2>8, <3>4
    <3>5. CASE Break(p) /\ ~Rename(p)
      BY <2>5, <2>8, <3>5
    <3>6. CASE Unlink(p) \/ ReusePid(p)
      BY <2>6, <2>8, <3>6
    <3>7. QED
      BY <2>9, <3>1, <3>2, <3>3, <3>4, <3>5, <3>6 DEF Release, Fault
  <2>10. QED
    BY <2>7, <2>9 DEF Next
<1>3. QED
  BY <1>1, <1>2, LockInvariant, PTL DEF Spec, ImplementsMutex, Mutex!Spec
=============================================================================
