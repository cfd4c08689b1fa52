------------------------------ MODULE TaskRun ------------------------------
(* One task from the engine's claim to its end: src/src/batch/worker-host,   *)
(* worker-heartbeat, engine-lanes, resume-multi-lanes, review-step-run.mjs,  *)
(* engine-lanes/{review-poll,review-plan,review-code,review-final,           *)
(* quota-fallback-run}.mjs.                                                  *)
(*                                                                           *)
(* The engine starts a worker process and polls for its .DONE file, then     *)
(* asks reviewers for verdicts - plan, code, final - and the worker for      *)
(* rework, and commits.  The engine may be killed between any two steps, and *)
(* its worker may live on; a resume finds what the files and the journal     *)
(* hold.  Time is left out: a deadline may have passed whenever it is looked *)
(* at.  LaneScheduler has the other tasks, and the lane's branch.            *)
EXTENDS Naturals

CONSTANTS
  Required,     \* the reviews that the task's level asks for
  MaxAttempts,  \* review.max...Attempts
  SharedStep,   \* the plan and the code checkpoint are in one step
  MaxStarts,    \* bound: retries and resumes by the operator
  Faults        \* of "kill", "orphan", "abort", "stall", "launch", "quota",
                \* "blocked", "contract", "reviewer", "commit"

Type == {"plan", "code", "final"}

ASSUME TaskAssumption ==
  /\ Required \subseteq Type /\ MaxAttempts \in [Type -> Nat \ {0}]
  /\ SharedStep \in BOOLEAN /\ MaxStarts \in Nat

(* "pass" is APPROVE of a plan or of code, PASS of the final review.         *)
Verdict(t) == IF t = "final" THEN {"pass", "revise", "replan"} ELSE {"pass", "revise"}

(* normalizeVerdict *)
normalizeVerdict(t) == Verdict(t)

(* The reviews/ files of a review are found by the number of its step.       *)
Step(t) == IF t = "code" /\ SharedStep THEN "plan" ELSE t

Status == {"pending", "running", "succeeded", "failed", "aborted"}
Exit == {"ok", "timeout", "error", "quota", "killed"}
Worker == {"none", "working"} \cup Exit
Class == {"none", "succeeded", "failed", "stall_timeout", "aborted",
          "launch_failed", "provider_quota_exhausted"}
At == {"idle", "begin", "launch", "top", "tail", "aborting", "stalling", "grace",
       "settled", "judge", "quota", "enter", "reviewing", "rework", "again",
       "commit", "committed"}

VARIABLES
  status,      \* the task's status in batch-state.json
  how,         \* who made it succeed: "engine", "heal" or "none"
  attempts,    \* its planReviewAttempts, codeReviewAttempts, finalAttempts
  journal,     \* the verdict of the last review.completed of each type
  artifact,    \* what the newest review file of a step says
  done,        \* .DONE is in the task's folder of the worktree
  committed,   \* the lane's branch holds a .DONE
  signal,      \* abort-signal.json is there
  engine,      \* "start", "resume" or "none"
  at, review,  \* where the engine is with the task, and in which review
  worker,      \* the worker process
  askedBy,     \* who asked for it: "task", or the type of a review
  sawDone,     \* postDoneStartedAt is set
  terminated,  \* postDoneTerminated
  result,      \* what runWorker returned
  rerun,       \* the task is run again on the fallback profile
  orphan,      \* a worker of a dead engine is alive
  said,        \* history: the last verdict a reviewer of each type gave
  fresh,       \* history: the final review has passed the work as it is
  reworks,     \* history: reworks each type of review asked for (MaxAttempts: too many)
  starts,      \* history: retries and resumes
  retried, haunted  \* history: there has been a retry, an orphan

TaskVars == <<status, how>>
ReviewVars == <<attempts, journal, artifact>>
FileVars == <<done, committed>>
PollVars == <<worker, sawDone, terminated>>
PlaceVars == <<engine, review, askedBy, rerun>>
OperatorVars == <<signal, starts, retried>>
OrphanVars == <<orphan, haunted>>
History == <<said, fresh, reworks>>
vars == <<status, how, attempts, journal, artifact, done, committed, signal, engine,
          at, review, worker, askedBy, sawDone, terminated, result, rerun, orphan,
          said, fresh, reworks, starts, retried, haunted>>

NoResult == [class |-> "none", doneFound |-> FALSE]

Init ==
  /\ status = "pending" /\ how = "none"
  /\ attempts = [t \in Type |-> 0] /\ journal = [t \in Type |-> "none"]
  /\ artifact = [t \in Type |-> "none"]
  /\ done = FALSE /\ committed = FALSE /\ signal = FALSE
  /\ engine = "start" /\ at = "begin" /\ review = "plan" /\ worker = "none"
  /\ askedBy = "task" /\ sawDone = FALSE /\ terminated = FALSE /\ result = NoResult
  /\ rerun = FALSE /\ orphan = FALSE
  /\ said = [t \in Type |-> "none"] /\ fresh = FALSE /\ reworks = [t \in Type |-> 0]
  /\ starts = 0 /\ retried = FALSE /\ haunted = FALSE
-----------------------------------------------------------------------------
(* The end of the engine's work on the task.                                 *)

Over ==
  /\ engine' = "none" /\ at' = "idle" /\ review' = "plan" /\ askedBy' = "task"
  /\ worker' = "none" /\ sawDone' = FALSE /\ terminated' = FALSE
  /\ result' = NoResult /\ rerun' = FALSE

Ends(s) == status' = s /\ Over

Goto(place) == at' = place

(* The first of the reviews that are asked for, or the commit. *)
Reviews(T) ==
  IF T = {} THEN Goto("commit") /\ UNCHANGED review
  ELSE /\ Goto("enter")
       /\ review' = IF "plan" \in T THEN "plan" ELSE IF "code" \in T THEN "code" ELSE "final"
-----------------------------------------------------------------------------
(* runWorker: the worker process and the poll loop.                          *)

(* runNonMatrixTaskOnLane and runResumedTaskOnLane claim the task. *)
Begin ==
  /\ at = "begin" /\ status' = "running" /\ Goto("launch")
  /\ UNCHANGED <<how, ReviewVars, FileVars, PollVars, PlaceVars, OperatorVars,
                 OrphanVars, History, result>>

Return(c, found) ==
  /\ result' = [class |-> c, doneFound |-> found] /\ Goto("judge")
  /\ worker' = "none" /\ sawDone' = FALSE /\ terminated' = FALSE

WorkerRest == <<TaskVars, ReviewVars, FileVars, PlaceVars, OperatorVars, OrphanVars,
                History>>

AlreadyDone ==
  /\ at = "launch" /\ done
  /\ Return("succeeded", TRUE) /\ UNCHANGED WorkerRest

Spawn ==
  /\ at = "launch" /\ ~done
  /\ worker' = "working" /\ Goto("top")
  /\ UNCHANGED <<WorkerRest, sawDone, terminated, result>>

(* The review tool or pi is missing, or the process cannot be started. *)
LaunchFails ==
  /\ "launch" \in Faults
  /\ at = "launch" /\ ~done
  /\ Return("launch_failed", FALSE) /\ UNCHANGED WorkerRest

Exited == worker \in Exit

(* The head of the loop: .DONE is read once, then the abort signal.  A       *)
(* worker that is still there gets a time of grace once .DONE was seen.      *)
PollTop ==
  /\ at = "top"
  /\ sawDone' = (sawDone \/ done)
  /\ \/ signal /\ Goto("aborting")
     \/ ~signal /\ done /\ Exited /\ Goto("settled")
     \/ ~signal /\ done /\ ~Exited /\ Goto("top")
     \/ ~signal /\ done /\ ~Exited /\ sawDone /\ Goto("grace")
     \/ ~signal /\ ~done /\ Goto("tail")
  /\ UNCHANGED <<WorkerRest, worker, terminated, result>>

(* The deadline has passed: .DONE may have come since the head of the loop.  *)
Stall == IF done THEN Goto("top") ELSE Goto("stalling")

(* The rest of the loop, for which .DONE was not there. *)
PollTail ==
  /\ at = "tail"
  /\ \/ Exited /\ Goto("settled")
     \/ ~Exited /\ Goto("top")
     \/ ~Exited /\ "stall" \in Faults /\ Stall
  /\ UNCHANGED <<WorkerRest, PollVars, result>>

(* The worker's process tree is terminated; .DONE is read after that. *)
AbortWorker ==
  /\ at = "aborting"
  /\ Return("aborted", done) /\ UNCHANGED WorkerRest
StallWorker ==
  /\ at = "stalling"
  /\ Return("stall_timeout", done) /\ UNCHANGED WorkerRest
EndGrace ==
  /\ at = "grace"
  /\ terminated' = TRUE /\ worker' = "killed" /\ Goto("settled")
  /\ UNCHANGED <<WorkerRest, sawDone, result>>

(* A worker that ran into its timeout after .DONE has gone well. *)
WorkerOk == done /\ (terminated \/ worker \in {"ok", "timeout"})

Settle ==
  /\ at = "settled"
  /\ Return(IF WorkerOk THEN "succeeded"
            ELSE IF worker = "quota" THEN "provider_quota_exhausted" ELSE "failed", done)
  /\ UNCHANGED WorkerRest

RunWorker ==
  \/ AlreadyDone \/ Spawn \/ LaunchFails \/ PollTop \/ PollTail
  \/ AbortWorker \/ StallWorker \/ EndGrace \/ Settle
-----------------------------------------------------------------------------
(* What the engine makes of the worker's result.                             *)

Kept == <<how, ReviewVars, FileVars, OperatorVars, OrphanVars, History>>

(* orphanSalvage: the engine of a start goes on when .DONE is there. *)
Salvaged ==
  /\ engine = "start" /\ askedBy = "task" /\ done
  /\ result.doneFound \/ result.class = "stall_timeout"
WorkIsDone == result.class = "succeeded" \/ Salvaged

ToReviews ==
  /\ at = "judge" /\ askedBy = "task" /\ WorkIsDone
  /\ Reviews(Required)
  /\ UNCHANGED <<Kept, status, PollVars, engine, askedBy, rerun, result>>

(* applyTaskReviewProfile, which a resume does not call. *)
ReviewBlocked ==
  /\ "blocked" \in Faults
  /\ at = "judge" /\ askedBy = "task" /\ WorkIsDone /\ engine = "start"
  /\ Ends("failed") /\ UNCHANGED Kept

(* Mutant: after a rework the reviewer is not asked again. *)
ReworkedUnread ==
  /\ at = "judge" /\ askedBy \in Type /\ WorkIsDone
  /\ Goto(IF askedBy = "final" THEN "commit" ELSE "enter")
  /\ UNCHANGED <<Kept, status, PollVars, PlaceVars, result>>

Reworked ==
  /\ at = "judge" /\ askedBy \in Type /\ WorkIsDone
  /\ Goto("again")
  /\ UNCHANGED <<Kept, status, PollVars, PlaceVars, result>>

(* runWithQuotaFallback runs the task once more, for a start only. *)
QuotaRerun ==
  /\ engine = "start" /\ askedBy = "task" /\ ~rerun
  /\ result.class = "provider_quota_exhausted"

WorkFails ==
  /\ at = "judge" /\ ~WorkIsDone /\ ~QuotaRerun
  /\ Ends(IF result.class = "aborted" THEN "aborted" ELSE "failed")
  /\ UNCHANGED Kept

(* The failure is saved before the decision is made. *)
QuotaFails ==
  /\ at = "judge" /\ ~WorkIsDone /\ QuotaRerun
  /\ status' = "failed" /\ Goto("quota")
  /\ UNCHANGED <<Kept, PollVars, PlaceVars, result>>

NoFallback ==
  /\ at = "quota" /\ Ends("failed") /\ UNCHANGED Kept

runWithQuotaFallback ==
  /\ at = "quota"
  /\ status' = "pending" /\ rerun' = TRUE /\ result' = NoResult /\ Goto("begin")
  /\ UNCHANGED <<Kept, PollVars, engine, review, askedBy>>

Judge ==
  \/ ToReviews \/ ReviewBlocked \/ Reworked \/ WorkFails \/ QuotaFails
  \/ NoFallback \/ runWithQuotaFallback
-----------------------------------------------------------------------------
(* The reviews: run*ReviewPhase, honorCompletedReview, runReviewPollLoop.    *)

(* Mutant: an attempt is only counted in memory. *)
NotCounted(t) == attempts

Counted(t) == [attempts EXCEPT ![t] = @ + 1]

GoOn(t) ==
  Reviews(Required \cap IF t = "plan" THEN {"code", "final"}
                        ELSE IF t = "code" THEN {"final"} ELSE {})

ReviewRest == <<TaskVars, committed, OperatorVars, OrphanVars, PollVars, engine, rerun,
                result>>

(* Mutant: any verdict that is found is honoured. *)
HonouredUnread(t) == journal[t] # "none" \/ artifact[Step(t)] # "none"

(* findCompleted*Review: the last verdict in the journal, or else the newest *)
(* review file of the step.                                                  *)
Honoured(t) == journal[t] = "pass" \/ artifact[Step(t)] = "pass"

(* runContractVerifyGate comes before the final review is honoured, and      *)
(* again after a rework.                                                     *)
ContractFails ==
  /\ "contract" \in Faults
  /\ at \in {"enter", "again"} /\ review = "final"
  /\ done' = FALSE /\ Ends("failed")
  /\ UNCHANGED <<how, ReviewVars, committed, OperatorVars, OrphanVars, History>>

HonourReview ==
  /\ at = "enter" /\ Honoured(review)
  /\ attempts' = Counted(review) /\ GoOn(review)
  /\ UNCHANGED <<ReviewRest, journal, artifact, done, askedBy, History>>

StartReview ==
  /\ \/ at = "enter" /\ ~Honoured(review)
     \/ at = "again"
  /\ Goto("reviewing")
  /\ UNCHANGED <<ReviewRest, ReviewVars, done, review, askedBy, History>>

(* The review.completed and the file of a reviewer that has given verdict v. *)
Recorded(v) ==
  /\ journal' = [journal EXCEPT ![review] = v]
  /\ artifact' = [artifact EXCEPT ![Step(review)] = v]

ReviewPasses ==
  /\ at = "reviewing"
  /\ \/ said' = [said EXCEPT ![review] = "pass"]
     \* honorReviewSpawnFailureWhenEligible: it timed out, .DONE is there
     \/ "reviewer" \in Faults /\ done /\ said' = [said EXCEPT ![review] = "waived"]
  /\ Recorded("pass") /\ attempts' = Counted(review) /\ GoOn(review)
  /\ fresh' = (fresh \/ review = "final")
  /\ UNCHANGED <<ReviewRest, done, askedBy, reworks>>

(* Mutant: the last attempt is answered with one more rework. *)
ExhaustedLate(t) == attempts[t] > MaxAttempts[t]

Exhausted(t) == attempts[t] + 1 >= MaxAttempts[t]

Refused(v) ==
  /\ at = "reviewing" /\ v \in normalizeVerdict(review)
  /\ Recorded(v) /\ attempts' = Counted(review)
  /\ said' = [said EXCEPT ![review] = v] /\ fresh' = (fresh /\ review # "final")
  /\ UNCHANGED <<how, committed, OperatorVars, OrphanVars, reworks>>

ReviewRevises ==
  /\ Refused("revise") /\ ~Exhausted(review)
  /\ Goto("rework")
  /\ UNCHANGED <<status, done, PollVars, PlaceVars, result>>

ReviewExhausted ==
  /\ Refused("revise") /\ Exhausted(review)
  /\ done' = FALSE /\ Ends("failed")

ReviewReplans ==
  /\ Refused("replan") /\ done' = FALSE /\ Ends("failed")

(* The reviewer cannot be started, or leaves no verdict that can be read:    *)
(* .DONE is kept for the retry.                                              *)
ReviewerFails ==
  /\ "reviewer" \in Faults
  /\ at = "reviewing"
  /\ artifact' \in {artifact, [artifact EXCEPT ![Step(review)] = "none"]}
  /\ Ends("failed")
  /\ UNCHANGED <<how, attempts, journal, FileVars, OperatorVars, OrphanVars, History>>

(* removeDoneFile and a new worker. *)
Rework ==
  /\ at = "rework"
  /\ done' = FALSE
  /\ askedBy' = review /\ reworks' = [reworks EXCEPT ![review] = IF @ < MaxAttempts[review] THEN @ + 1 ELSE @]
  /\ Goto("launch")
  /\ UNCHANGED <<ReviewRest, ReviewVars, review, said, fresh>>

Review ==
  \/ ContractFails \/ HonourReview \/ StartReview
  \/ ReviewPasses \/ ReviewRevises \/ ReviewExhausted \/ ReviewReplans
  \/ ReviewerFails \/ Rework
-----------------------------------------------------------------------------
(* The commit of the lane, and the end.                                      *)

Commit ==
  /\ at = "commit"
  /\ committed' = done /\ Goto("committed")
  /\ UNCHANGED <<TaskVars, ReviewVars, done, PollVars, PlaceVars, OperatorVars,
                 OrphanVars, History, result>>

CommitFails ==
  /\ "commit" \in Faults
  /\ at = "commit" /\ committed' \in {committed, done}
  /\ Ends("failed")
  /\ UNCHANGED <<how, ReviewVars, done, OperatorVars, OrphanVars, History>>

Succeed ==
  /\ at = "committed"
  /\ how' = "engine" /\ Ends("succeeded")
  /\ UNCHANGED <<ReviewVars, FileVars, OperatorVars, OrphanVars, History>>

EngineStep == Begin \/ RunWorker \/ Judge \/ Review \/ Commit \/ CommitFails \/ Succeed
-----------------------------------------------------------------------------
(* The worker, and one that has outlived its engine: they write and withdraw *)
(* .DONE, and may commit it themselves.                                      *)

OutsideRest == <<TaskVars, ReviewVars, signal, PlaceVars, at, sawDone, terminated,
                 result, said, reworks, starts, retried, haunted>>

WorkerWrites ==
  /\ worker = "working"
  /\ done' \in BOOLEAN /\ committed' \in {committed, done'} /\ fresh' = FALSE
  /\ UNCHANGED <<OutsideRest, worker, orphan>>

WorkerExits ==
  /\ worker = "working"
  /\ worker' \in {"ok", "timeout", "error"} \cup ({"quota"} \cap Faults)
  /\ UNCHANGED <<OutsideRest, FileVars, orphan, fresh>>

OrphanWrites ==
  /\ orphan
  /\ done' = TRUE /\ committed' \in {committed, TRUE} /\ fresh' = FALSE
  /\ UNCHANGED <<OutsideRest, worker, orphan>>

OrphanExits ==
  /\ orphan /\ orphan' = FALSE
  /\ UNCHANGED <<OutsideRest, FileVars, worker, fresh>>
-----------------------------------------------------------------------------
(* Kills and the operator.                                                   *)

(* A reviewer that dies or goes on alone may have written its file, but      *)
(* nothing reports it to the journal.                                        *)
Unreported ==
  \/ UNCHANGED <<artifact, said, fresh>>
  \/ /\ at = "reviewing"
     /\ \E v \in Verdict(review) :
          /\ artifact' = [artifact EXCEPT ![Step(review)] = v]
          /\ said' = [said EXCEPT ![review] = v]
          /\ fresh' = IF review = "final" THEN v = "pass" ELSE fresh

Kill ==
  /\ "kill" \in Faults
  /\ engine # "none" /\ Over
  /\ orphan' \in {orphan} \cup (IF "orphan" \in Faults THEN {orphan \/ worker = "working"} ELSE {})
  /\ haunted' = (haunted \/ orphan') /\ Unreported
  /\ UNCHANGED <<TaskVars, attempts, journal, FileVars, OperatorVars, reworks>>

Abort ==
  /\ "abort" \in Faults
  /\ engine # "none" /\ ~signal /\ signal' = TRUE
  /\ UNCHANGED <<TaskVars, ReviewVars, FileVars, PollVars, PlaceVars, OrphanVars,
                 History, at, result, starts, retried>>

(* reconcileOrphanRunningState *)
Heal ==
  /\ engine = "none" /\ status = "running" /\ done /\ committed
  /\ status' = "succeeded" /\ how' = "heal"
  /\ UNCHANGED <<ReviewVars, FileVars, PollVars, PlaceVars, OperatorVars, OrphanVars,
                 History, at, result>>
Orphaned ==
  /\ engine = "none" /\ status = "running" /\ ~(done /\ committed)
  /\ status' = "failed"
  /\ UNCHANGED <<how, ReviewVars, FileVars, PollVars, PlaceVars, OperatorVars,
                 OrphanVars, History, at, result>>

(* resetTaskForRetry: neither .DONE nor what the reviewers said goes.        *)
retryTask ==
  /\ engine = "none" /\ status = "failed" /\ ~signal /\ starts < MaxStarts
  /\ status' = "pending" /\ starts' = starts + 1 /\ retried' = TRUE
  /\ UNCHANGED <<how, ReviewVars, FileVars, PollVars, PlaceVars, OrphanVars, History,
                 at, result, signal>>

(* A task that has .DONE on disk goes straight to its reviews               *)
(* (markTaskCompleteFromDisk), another one is claimed again.                 *)
Resume ==
  /\ engine = "none" /\ status \in {"pending", "running"} /\ ~signal
  /\ starts < MaxStarts /\ starts' = starts + 1
  /\ engine' = "resume"
  /\ IF done THEN Reviews(Required) ELSE Goto("begin") /\ UNCHANGED review
  /\ UNCHANGED <<TaskVars, ReviewVars, FileVars, PollVars, OrphanVars, History,
                 askedBy, rerun, result, signal, retried>>

Operator == Abort \/ Heal \/ Orphaned \/ retryTask \/ Resume

Next ==
  \/ EngineStep \/ WorkerWrites \/ WorkerExits \/ OrphanWrites \/ OrphanExits
  \/ Kill \/ Operator

(* The engine goes on unless it is killed, and a worker has a timeout.       *)
Fairness == WF_vars(EngineStep) /\ WF_vars(WorkerExits)

Spec == Init /\ [][Next]_vars /\ Fairness
-----------------------------------------------------------------------------
(* A task is in one known state, only a final review asks for a new plan,    *)
(* and a worker is there exactly while the engine polls for it               *)
(* (worker-heartbeat.mjs, normalizeVerdict).                                 *)
TypeOK ==
  /\ status \in Status /\ how \in {"none", "engine", "heal"}
  /\ attempts \in [Type -> Nat] /\ reworks \in [Type -> Nat]
  /\ \A t \in Type :
       /\ journal[t] \in Verdict(t) \cup {"none"}
       /\ artifact[t] \in Verdict(t) \cup {"none"}
       /\ said[t] \in Verdict(t) \cup {"none", "waived"}
  /\ DOMAIN journal = Type /\ DOMAIN artifact = Type /\ DOMAIN said = Type
  /\ {done, committed, signal, sawDone, terminated, rerun, orphan, retried, haunted,
      fresh}
       \subseteq BOOLEAN
  /\ engine \in {"start", "resume", "none"} /\ at \in At /\ review \in Type
  /\ worker \in Worker /\ askedBy \in Type \cup {"task"}
  /\ result \in [class : Class, doneFound : BOOLEAN]
  /\ starts \in 0..MaxStarts
  /\ engine = "none" <=> at = "idle"
  /\ worker # "none" <=> at \in {"top", "tail", "aborting", "stalling", "grace", "settled"}

(* An engine that records a success has a pass of every review that the      *)
(* task's level asks for, and it is the last thing a reviewer of that type   *)
(* has said - over kills, resumes, retries, lost reviewers and workers that  *)
(* outlived their engine (honorCompletedReview, findCompletedCodeReview).    *)
ReviewedBeforeSuccess ==
  how = "engine" => \A t \in Required : said[t] \in {"pass", "waived"}

(* Without a retry and without a second worker in its worktree, the final    *)
(* review has passed the very work that the engine commits.  A retry honours *)
(* the verdict of the work before it (review-artifacts.mjs).                 *)
PassIsOfThisWork ==
  how = "engine" /\ "final" \in Required /\ ~retried /\ ~haunted => fresh

(* However often the engine is killed and the task resumed or retried, no    *)
(* type of review sends a worker back more often than its maximum allows     *)
(* (review-poll.mjs: the attempt is saved before the rework).                *)
ReworksBounded == \A t \in Type : reworks[t] < MaxAttempts[t]

(* A reviewer is only asked about, and the engine only commits, work that    *)
(* has its .DONE.                                                            *)
ReviewsFinishedWork == at \in {"reviewing", "commit"} => done

(* The engine comes to an end with the task, whatever worker and reviewers   *)
(* do.                                                                       *)
RunEnds == engine # "none" ~> engine = "none"
=============================================================================
