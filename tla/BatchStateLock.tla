--------------------------- MODULE BatchStateLock ---------------------------
(* The inter-process lock on batch state: src/src/batch/batch-state-lock.mjs *)
(*                                                                           *)
(* One lock file.  A writer publishes it with linkSync (EEXIST when it is    *)
(* there), works, and unlinks it when the token in it is still its own.  A   *)
(* waiter reads the file, judges whether its holder can still own it, and    *)
(* breaks a stale one by renaming it away, looking at what it renamed, and   *)
(* linking it back when that was not the file it judged.  Each file system   *)
(* call is one step; every process may stop or be killed between two calls.  *)
EXTENDS Naturals

CONSTANTS
  Proc,        \* process incarnations: the engine, the supervisor, the CLIs
  MaxCalls,    \* bound: calls of withBatchStateLock per process
  Unprobed,    \* processes that recorded startedAt = null (ps probe failed)
  Faults,      \* what may go wrong: "crash", "stall", "junk"
  NoFile,      \* lockPath does not exist
  Junk         \* an unparseable file, or one without a valid pid

ASSUME LockAssumption ==
  /\ MaxCalls \in Nat
  /\ Unprobed \subseteq Proc
  /\ Faults \subseteq {"crash", "stall", "junk"}

(* The parsed payload.  The random ownership token is drawn once per call,   *)
(* so it is the call's number at its owner.                                  *)
Token == [owner : Proc, num : 0..MaxCalls]
Content == Token \cup {NoFile, Junk}

ASSUME SentinelAssumption == NoFile # Junk /\ {NoFile, Junk} \cap Token = {}

VARIABLES
  lock,        \* content of lockPath
  pc,          \* where each process is in withBatchStateLock
  call,        \* how many calls each process has begun
  seen,        \* rawContent: what the process read before judging
  copy,        \* content of the process's private `.break` file
  status,      \* "up", "gone", or "reused": the pid now names another program
  displaced    \* history: a breaker has renamed a live holder's file away

vars == <<lock, pc, call, seen, copy, status, displaced>>

PC == {"idle", "create", "read", "judge", "rename", "settle", "wait",
       "section", "unlink"}

(* Mutant: off by one, the token of the call after this one. *)
NextTok(p) == [owner |-> p, num |-> call[p] + 1]

Tok(p) == [owner |-> p, num |-> call[p]]

Holding(p) == pc[p] \in {"section", "unlink"}

(* A live lock: its owner is between tryCreateLockFile and the end of        *)
(* releaseLockFile of the very call that wrote this token.                   *)
Live(t) == \E p \in Proc : Holding(p) /\ t = Tok(p)

Init ==
  /\ lock = NoFile \/ ("junk" \in Faults /\ lock = Junk)
  /\ pc = [p \in Proc |-> "idle"]
  /\ call = [p \in Proc |-> 0]
  /\ seen = [p \in Proc |-> NoFile]
  /\ copy = [p \in Proc |-> NoFile]
  /\ status = [p \in Proc |-> "up"]
  /\ displaced = FALSE

Goto(p, from, to) == pc[p] = from /\ pc' = [pc EXCEPT ![p] = to]

(* rawContent is local to breakStaleLock. *)
Forget(p) == seen' = [seen EXCEPT ![p] = NoFile]

(* withBatchStateLock outside any hold of this process: a fresh token.  A    *)
(* nested call runs fn directly and has no step of its own.                  *)
Call(p) ==
  /\ status[p] = "up" /\ call[p] < MaxCalls
  /\ Goto(p, "idle", "create")
  /\ call' = [call EXCEPT ![p] = @ + 1]
  /\ UNCHANGED <<lock, seen, copy, status, displaced>>

(* Mutant: the file is published with renameSync, which overwrites. *)
CreateOverwrites(p) ==
  /\ Goto(p, "create", "section")
  /\ lock' = Tok(p)
  /\ UNCHANGED <<call, seen, copy, status, displaced>>

(* tryCreateLockFile: linkSync succeeds and heldByThisProcess is set, *)
Create(p) ==
  /\ lock = NoFile
  /\ Goto(p, "create", "section")
  /\ lock' = Tok(p)
  /\ UNCHANGED <<call, seen, copy, status, displaced>>

(* or it fails with EEXIST and the loop goes on to breakStaleLock. *)
CreateFails(p) ==
  /\ lock # NoFile
  /\ Goto(p, "create", "read")
  /\ UNCHANGED <<lock, call, seen, copy, status, displaced>>

(* breakStaleLock reads the file; ENOENT is caught and leaves no content. *)
ReadLock(p) ==
  /\ Goto(p, "read", "judge")
  /\ seen' = [seen EXCEPT ![p] = lock]
  /\ UNCHANGED <<lock, call, copy, status, displaced>>

(* No content, or junk, is broken only when the file now at lockPath is two  *)
(* seconds old.  Junk can be that old; a token that replaced what was read   *)
(* is that old only when the reader was stalled since its read.              *)
Unreadable(p) == seen[p] \in {NoFile, Junk}
OldEnough == lock = Junk \/ "stall" \in Faults

(* Mutant: whoever finds the file takes its holder for dead. *)
AnyHolderIsStale(p) == seen[p] \in Token

(* Mutant: only a reused pid is stale, a dead one is waited for. *)
DeadHolderIsKept(p) ==
  LET o == seen[p].owner
  IN o = p \/ (status[o] = "reused" /\ o \notin Unprobed)

(* The holder's pid is this process's, which is in no section now            *)
(* (leakedSelf); or it is dead; or a later process has it (pidRecycled,      *)
(* unless no start time was recorded).                                       *)
HolderIsStale(p) ==
  LET o == seen[p].owner
  IN \/ o = p
     \/ status[o] = "gone"
     \/ status[o] = "reused" /\ o \notin Unprobed

(* The probe of a reused pid may fail, or be within the tolerance. *)
HolderMayBeKept(p) ==
  LET o == seen[p].owner
  IN ~HolderIsStale(p) \/ (o # p /\ status[o] = "reused")

JudgeStale(p) ==
  /\ lock # NoFile
  /\ IF Unreadable(p) THEN OldEnough ELSE HolderIsStale(p)
  /\ Goto(p, "judge", "rename")
  /\ UNCHANGED <<lock, call, seen, copy, status, displaced>>

(* The file vanished, is not old enough yet, or its holder may be alive. *)
JudgeKeep(p) ==
  /\ \/ lock = NoFile
     \/ IF Unreadable(p) THEN TRUE ELSE HolderMayBeKept(p)
  /\ Goto(p, "judge", "wait")
  /\ Forget(p)
  /\ UNCHANGED <<lock, call, copy, status, displaced>>

(* Mutant: the stale file is unlinked in place, without looking again. *)
RenameUnlinks(p) ==
  /\ lock # NoFile
  /\ Goto(p, "rename", "wait")
  /\ lock' = NoFile
  /\ Forget(p)
  /\ UNCHANGED <<call, copy, status, displaced>>

(* stealIfTokenMatches: renameSync moves whatever is at lockPath now, *)
Rename(p) ==
  /\ lock # NoFile
  /\ Goto(p, "rename", "settle")
  /\ copy' = [copy EXCEPT ![p] = lock]
  /\ lock' = NoFile
  /\ displaced' = (displaced \/ Live(lock))
  /\ UNCHANGED <<call, seen, status>>

RenameFails(p) ==
  /\ lock = NoFile
  /\ Goto(p, "rename", "wait")
  /\ Forget(p)
  /\ UNCHANGED <<lock, call, copy, status, displaced>>

(* deletes the renamed file when it is the one that was judged stale, *)
Discard(p) ==
  /\ copy[p] = seen[p]
  /\ Goto(p, "settle", "wait")
  /\ copy' = [copy EXCEPT ![p] = NoFile]
  /\ Forget(p)
  /\ UNCHANGED <<lock, call, status, displaced>>

(* and otherwise links it back, unless a third process has made its own. *)
PutBack(p) ==
  /\ copy[p] # seen[p]
  /\ Goto(p, "settle", "wait")
  /\ lock' = IF lock = NoFile THEN copy[p] ELSE lock
  /\ copy' = [copy EXCEPT ![p] = NoFile]
  /\ Forget(p)
  /\ UNCHANGED <<call, status, displaced>>

(* The deadline has passed (an error is thrown), or the poll sleeps. *)
TimeOut(p) ==
  /\ Goto(p, "wait", "idle")
  /\ UNCHANGED <<lock, call, seen, copy, status, displaced>>

Retry(p) ==
  /\ Goto(p, "wait", "create")
  /\ UNCHANGED <<lock, call, seen, copy, status, displaced>>

(* Mutant: the release is skipped when fn throws. *)
ReadOwnSkipsRelease(p) ==
  /\ Goto(p, "section", "unlink") \/ Goto(p, "section", "idle")
  /\ UNCHANGED <<lock, call, seen, copy, status, displaced>>

(* fn has returned or thrown: releaseLockFile reads the token, *)
ReadOwn(p) ==
  /\ Goto(p, "section", IF lock = Tok(p) THEN "unlink" ELSE "idle")
  /\ UNCHANGED <<lock, call, seen, copy, status, displaced>>

(* and unlinks lockPath, whatever is there by now. *)
Unlink(p) ==
  /\ Goto(p, "unlink", "idle")
  /\ lock' = NoFile
  /\ UNCHANGED <<call, seen, copy, status, displaced>>

(* The process is killed: its lock file, if any, stays behind, and so does   *)
(* a renamed file that it did not come to settle.                            *)
Crash(p) ==
  /\ "crash" \in Faults /\ status[p] = "up"
  /\ status' = [status EXCEPT ![p] = "gone"]
  /\ pc' = [pc EXCEPT ![p] = "idle"]
  /\ copy' = [copy EXCEPT ![p] = NoFile]
  /\ Forget(p)
  /\ UNCHANGED <<lock, call, displaced>>

(* The operating system gives the pid to an unrelated program. *)
ReusePid(p) ==
  /\ status[p] = "gone"
  /\ status' = [status EXCEPT ![p] = "reused"]
  /\ UNCHANGED <<lock, pc, call, seen, copy, displaced>>

Acquire(p) == Call(p) \/ Create(p) \/ CreateFails(p)
Break(p) == \/ ReadLock(p) \/ JudgeStale(p) \/ JudgeKeep(p)
            \/ Rename(p) \/ RenameFails(p) \/ Discard(p) \/ PutBack(p)
Poll(p) == TimeOut(p) \/ Retry(p)
Release(p) == ReadOwn(p) \/ Unlink(p)
Fault(p) == Crash(p) \/ ReusePid(p)

Next == \E p \in Proc :
          Acquire(p) \/ Break(p) \/ Poll(p) \/ Release(p) \/ Fault(p)

(* The loop never blocks: a process inside it that is up keeps going.        *)
Step(p) == Create(p) \/ CreateFails(p) \/ Break(p) \/ Poll(p) \/ Release(p)
Fairness == \A p \in Proc : WF_vars(Step(p))

Spec == Init /\ [][Next]_vars /\ Fairness
-----------------------------------------------------------------------------
TypeOK ==
  /\ lock \in Content
  /\ pc \in [Proc -> PC]
  /\ call \in [Proc -> 0..MaxCalls]
  /\ seen \in [Proc -> Content]
  /\ copy \in [Proc -> Content]
  /\ status \in [Proc -> {"up", "gone", "reused"}]
  /\ displaced \in BOOLEAN

(* The header of the module: the lock serializes read-modify-write cycles.   *)
(* Two processes are never inside their sections together.                   *)
MutualExclusion ==
  \A p, q \in Proc : pc[p] = "section" /\ pc[q] = "section" => p = q

(* As long as no breaker has renamed a live holder's file, a holder's file   *)
(* is at lockPath: nothing but that window can let a second process in.      *)
HolderOwnsFile ==
  ~displaced => \A p \in Proc : Holding(p) => lock = Tok(p)

(* A file that is deleted as stale is never that of a process inside its     *)
(* section: the token is compared after the rename (SP-794).                 *)
StealsOnlyStale ==
  \A p \in Proc : pc[p] = "settle" /\ copy[p] = seen[p] => ~Live(copy[p])

(* A file whose owner is alive belongs to a call in progress: no live        *)
(* process leaves a lock behind that would make all others time out.         *)
NoLeakedLock ==
  ~displaced /\ lock \in Token /\ status[lock.owner] = "up" => Live(lock)

(* A killed process takes no further step; and a breaker that is about to    *)
(* rename, or has renamed, judged a token no live process can still hold:    *)
(* what makes the properties above inductive.                                *)
DeadIsIdle == \A p \in Proc : status[p] # "up" => pc[p] = "idle"

JudgedStale ==
  \A p \in Proc : pc[p] \in {"rename", "settle"} /\ seen[p] \in Token =>
    seen[p].owner = p \/ status[seen[p].owner] # "up"

RenamedIsDead ==
  \A p \in Proc : ~displaced /\ pc[p] = "settle" /\ copy[p] \in Token =>
    status[copy[p].owner] # "up"

LockInv == TypeOK /\ DeadIsIdle /\ JudgedStale /\ HolderOwnsFile

LeakInv == NoLeakedLock /\ RenamedIsDead

(* A lock file is only ever displaced after a fault: a process was killed, a *)
(* reader was stalled for two seconds, or junk was left at lockPath.         *)
DisplacedOnlyByFault == Faults = {} => ~displaced

(* Why: without faults every file at lockPath is a live holder's, and no     *)
(* waiter ever gets to rename one.                                           *)
QuietInv ==
  Faults = {} =>
    /\ ~displaced
    /\ lock # NoFile => Live(lock)
    /\ \A p \in Proc :
         /\ status[p] = "up"
         /\ pc[p] \notin {"rename", "settle"}
         /\ pc[p] = "judge" /\ seen[p] # NoFile =>
              seen[p] \in Token /\ seen[p].owner # p

(* Who holds the lock, as an abstract mutual exclusion sees it, until a live *)
(* holder's file is displaced: up to that moment the lock file implements    *)
(* the mutex, whatever was killed or stalled and whoever broke stale files.  *)
Inside == IF displaced THEN {} ELSE {p \in Proc : pc[p] = "section"}
Mutex == INSTANCE StateMutex WITH inside <- Inside
ImplementsMutex == Mutex!Spec

(* A dead holder cannot block the others: once a live waiter is in the loop, *)
(* the file of a holder whose pid is gone leaves lockPath.                   *)
DeadHolderBroken ==
  \A p, d \in Proc :
    LET blocked == /\ pc[p] = "create" /\ status[p] = "up"
                   /\ lock \in Token /\ lock.owner = d /\ status[d] = "gone"
        freed == lock \in Token => lock.owner # d
    IN blocked ~> (freed \/ status[p] # "up" \/ status[d] = "reused")
=============================================================================
