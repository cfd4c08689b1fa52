--------------------------- MODULE TaskRunProofs ---------------------------
(* What holds of a task's run for any reviews, any number of attempts and    *)
(* restarts, and any faults: proofs about TaskRun.                           *)
EXTENDS TaskRun, TLAPS

(* Where a review is under way: before the reviewer, with it, or with the    *)
(* worker that reworks for it.                                               *)
Polling == {"launch", "top", "tail", "aborting", "stalling", "grace", "settled", "judge"}
InRework == at \in Polling /\ askedBy \in Type
InReview == at \in {"enter", "reviewing", "rework", "again"} \/ InRework

(* A rework is for the review that is under way, and only a worker that was  *)
(* asked for the task is claimed anew.                                       *)
PlacesFit ==
  /\ InRework => askedBy = review
  /\ at \in {"idle", "begin", "quota"} => askedBy = "task"
  /\ InReview => review \in Required

(* What is reviewed or committed has its .DONE, and so has what a worker     *)
(* that went well was asked for.                                             *)
DoneIsThere ==
  /\ at \in {"enter", "reviewing", "rework", "again", "commit"} => done
  /\ at = "judge" /\ result.class = "succeeded" => done

(* Every rework was counted as an attempt before it was asked for.           *)
ReworksCounted ==
  /\ \A t \in Type : reworks[t] <= attempts[t] /\ reworks[t] < MaxAttempts[t]
  /\ at = "rework" => reworks[review] < attempts[review] /\ attempts[review] < MaxAttempts[review]

(* The reviews that come before one.                                         *)
Before(t) == IF t = "plan" THEN {} ELSE IF t = "code" THEN {"plan"} ELSE {"plan", "code"}

(* The review that is under way is not passed, those before it are.          *)
InOrder ==
  /\ InReview => \A t \in Required \cap Before(review) : Honoured(t)
  /\ at \in {"commit", "committed"} => \A t \in Required : Honoured(t)
  /\ at \in {"reviewing", "rework", "again"} \/ InRework => ~Honoured(review)

(* What can be honoured is what the reviewer said last.                      *)
HonouredWasSaid == \A t \in Type : Honoured(t) => said[t] \in {"pass", "waived"}

(* A task that succeeded stays so, with every review passed.                 *)
SuccessLasts ==
  /\ how # "none" => status = "succeeded" /\ engine = "none"
  /\ how = "engine" => \A t \in Required : Honoured(t)

(* A final review that has passed is the last thing that happens to the work *)
(* of a task that is neither retried nor left to an orphan.                  *)
FinalIsLast ==
  ~retried /\ ~haunted =>
    /\ ~orphan
    /\ Honoured("final") =>
         /\ fresh /\ (done \/ status \notin {"pending", "running"})
         /\ at \in {"idle", "enter", "commit", "committed"}
         /\ \A t \in Required : Honoured(t)

ReviewInv == PlacesFit /\ InOrder /\ HonouredWasSaid /\ SuccessLasts /\ FinalIsLast

(* Going to the next review keeps the types. *)
LEMMA ReviewsTyped ==
  ASSUME NEW T \in SUBSET Type, review \in Type, Reviews(T)
  PROVE  at' \in {"enter", "commit"} /\ review' \in Type
BY DEF Reviews, Goto, Type

(* The next review is the first one asked for, or all are done.              *)
LEMMA NextReview ==
  ASSUME NEW T \in SUBSET Type, Reviews(T)
  PROVE  /\ T = {} => at' = "commit" /\ review' = review
         /\ T # {} => at' = "enter" /\ review' \in T /\ T \cap Before(review') = {}
BY DEF Reviews, Goto, Type, Before

(* Types are kept by the worker's start and the poll loop. *)
LEMMA RunWorkerTyped ==
  ASSUME TypeOK, Begin \/ RunWorker
  PROVE  TypeOK'
<1> USE TaskAssumption DEF TypeOK, WorkerRest, TaskVars, ReviewVars, FileVars, PollVars, PlaceVars,
      OperatorVars, OrphanVars, History, Goto
<1> DEFINE R(c, f) == [class |-> c, doneFound |-> f]
<1>r. \A c \in Class, f \in BOOLEAN : R(c, f) \in [class : Class, doneFound : BOOLEAN]
  OBVIOUS
<1>1. CASE Begin
  BY <1>1 DEF Begin, Status, At
<1>2. CASE AlreadyDone
  BY <1>2, <1>r DEF AlreadyDone, Return, Class, At, Worker
<1>3. CASE Spawn
  BY <1>3 DEF Spawn, At, Worker
<1>4. CASE LaunchFails
  BY <1>4, <1>r DEF LaunchFails, Return, Class, At, Worker
<1>5. CASE PollTop
  BY <1>5 DEF PollTop, At, Worker, Exited, Exit
<1>6. CASE PollTail
  BY <1>6 DEF PollTail, At, Worker, Exited, Exit, Stall
<1>7. CASE AbortWorker
  BY <1>7, <1>r DEF AbortWorker, Return, Class, At, Worker
<1>8. CASE StallWorker
  BY <1>8, <1>r DEF StallWorker, Return, Class, At, Worker
<1>9. CASE EndGrace
  BY <1>9 DEF EndGrace, At, Worker, Exit
<1>10. CASE Settle
  BY <1>10, <1>r DEF Settle, Return, Class, At, Worker, WorkerOk
<1> QED
  BY <1>1, <1>2, <1>3, <1>4, <1>5, <1>6, <1>7, <1>8, <1>9, <1>10 DEF RunWorker

(* Types are kept by what the engine makes of the worker's result. *)
LEMMA JudgeTyped ==
  ASSUME TypeOK, Judge
  PROVE  TypeOK'
<1> USE TaskAssumption DEF TypeOK, Kept, TaskVars, ReviewVars, FileVars, PollVars, PlaceVars,
      OperatorVars, OrphanVars, History, Goto
<1>e. ASSUME Over PROVE /\ engine' = "none" /\ at' = "idle" /\ review' \in Type
                        /\ worker' = "none" /\ askedBy' = "task"
                        /\ result' \in [class : Class, doneFound : BOOLEAN]
                        /\ sawDone' = FALSE /\ terminated' = FALSE /\ rerun' = FALSE
  BY <1>e DEF Over, NoResult, Class, Type
<1>1. CASE ToReviews
  BY <1>1, ReviewsTyped DEF ToReviews, At
<1>2. CASE ReviewBlocked
  BY <1>2, <1>e DEF ReviewBlocked, Ends, Status, At, Worker
<1>3. CASE Reworked
  BY <1>3 DEF Reworked, At
<1>4. CASE WorkFails
  BY <1>4, <1>e DEF WorkFails, Ends, Status, At, Worker
<1>5. CASE QuotaFails
  BY <1>5 DEF QuotaFails, Status, At
<1>6. CASE NoFallback
  BY <1>6, <1>e DEF NoFallback, Ends, Status, At, Worker
<1>7. CASE runWithQuotaFallback
  BY <1>7 DEF runWithQuotaFallback, NoResult, Class, Status, At
<1> QED
  BY <1>1, <1>2, <1>3, <1>4, <1>5, <1>6, <1>7 DEF Judge

(* The step of a review is that of a type, and counting keeps a number.      *)
LEMMA Recording ==
  ASSUME TypeOK, NEW v \in Verdict(review)
  PROVE  /\ Step(review) \in Type
         /\ Recorded(v) => /\ DOMAIN journal' = Type /\ DOMAIN artifact' = Type
                           /\ \A t \in Type : /\ journal'[t] \in Verdict(t) \cup {"none"}
                                              /\ artifact'[t] \in Verdict(t) \cup {"none"}
         /\ Counted(review) \in [Type -> Nat]
<1> USE DEF TypeOK
<1>1. Step(review) \in Type /\ v \in Verdict(Step(review))
  BY DEF Step, Type, Verdict
<1>2. Counted(review) \in [Type -> Nat]
  BY DEF Counted
<1> QED BY <1>1, <1>2 DEF Recorded

(* Types are kept by the reviews. *)
LEMMA ReviewTyped ==
  ASSUME TypeOK, Review
  PROVE  TypeOK'
<1> USE TaskAssumption DEF TypeOK, ReviewRest, TaskVars, ReviewVars, FileVars, PollVars, PlaceVars,
      OperatorVars, OrphanVars, History, Goto
<1>e. ASSUME Over PROVE /\ engine' = "none" /\ at' = "idle" /\ review' \in Type
                        /\ worker' = "none" /\ askedBy' = "task"
                        /\ result' \in [class : Class, doneFound : BOOLEAN]
                        /\ sawDone' = FALSE /\ terminated' = FALSE /\ rerun' = FALSE
  BY <1>e DEF Over, NoResult, Class, Type
<1>g. ASSUME GoOn(review) PROVE at' \in {"enter", "commit"} /\ review' \in Type
  <2>1. Required \cap (IF review = "plan" THEN {"code", "final"}
                        ELSE IF review = "code" THEN {"final"} ELSE {}) \in SUBSET Type
    OBVIOUS
  <2> QED BY <1>g, <2>1, ReviewsTyped DEF GoOn
<1>c. Counted(review) \in [Type -> Nat] /\ Step(review) \in Type
  <2>1. "pass" \in Verdict(review)
    BY DEF Verdict
  <2> QED BY <2>1, Recording
<1>p. "pass" \in Verdict(review) /\ "revise" \in Verdict(review)
  BY DEF Verdict
<1>1. CASE ContractFails
  BY <1>1, <1>e DEF ContractFails, Ends, Status, At, Worker
<1>2. CASE HonourReview
  BY <1>2, <1>g, <1>c DEF HonourReview, At
<1>3. CASE StartReview
  BY <1>3 DEF StartReview, At
<1>4. CASE ReviewPasses
  <2>1. \A t \in Type : said'[t] \in Verdict(t) \cup {"none", "waived"}
    BY <1>4, <1>p DEF ReviewPasses
  <2>2. DOMAIN said' = Type
    BY <1>4 DEF ReviewPasses
  <2>3. /\ DOMAIN journal' = Type /\ DOMAIN artifact' = Type
        /\ \A t \in Type : /\ journal'[t] \in Verdict(t) \cup {"none"}
                           /\ artifact'[t] \in Verdict(t) \cup {"none"}
    BY <1>4, <1>p, Recording DEF ReviewPasses
  <2> QED BY <1>4, <2>1, <2>2, <2>3, <1>g, <1>c DEF ReviewPasses, At
<1>r. ASSUME NEW v \in {"revise", "replan"}, Refused(v)
      PROVE /\ \A t \in Type : said'[t] \in Verdict(t) \cup {"none", "waived"}
            /\ DOMAIN said' = Type
            /\ DOMAIN journal' = Type /\ DOMAIN artifact' = Type
            /\ \A t \in Type : /\ journal'[t] \in Verdict(t) \cup {"none"}
                               /\ artifact'[t] \in Verdict(t) \cup {"none"}
            /\ attempts' \in [Type -> Nat] /\ fresh' \in BOOLEAN
  BY <1>r, <1>c, Recording DEF Refused, normalizeVerdict
<1>5. CASE ReviewRevises
  BY <1>5, <1>r DEF ReviewRevises, Refused, At
<1>6. CASE ReviewExhausted
  <2>1. Refused("revise") /\ Over /\ status' = "failed" /\ done' = FALSE
    BY <1>6 DEF ReviewExhausted, Ends
  <2>2. /\ how' = how /\ committed' = committed /\ reworks' = reworks
        /\ signal' = signal /\ starts' = starts /\ retried' = retried
        /\ orphan' = orphan /\ haunted' = haunted
    BY <2>1 DEF Refused
  <2> HIDE DEF Refused
  <2> QED BY <2>1, <2>2, <1>r, <1>e DEF Status, At, Worker
<1>7. CASE ReviewReplans
  <2>1. Refused("replan") /\ Over /\ status' = "failed" /\ done' = FALSE
    BY <1>7 DEF ReviewReplans, Ends
  <2>2. /\ how' = how /\ committed' = committed /\ reworks' = reworks
        /\ signal' = signal /\ starts' = starts /\ retried' = retried
        /\ orphan' = orphan /\ haunted' = haunted
    BY <2>1 DEF Refused
  <2> HIDE DEF Refused
  <2> QED BY <2>1, <2>2, <1>r, <1>e DEF Status, At, Worker
<1>8. CASE ReviewerFails
  <2>1. /\ DOMAIN artifact' = Type
        /\ \A t \in Type : artifact'[t] \in Verdict(t) \cup {"none"}
    BY <1>8, <1>c DEF ReviewerFails
  <2> QED BY <1>8, <1>e, <2>1 DEF ReviewerFails, Ends, Status, At, Worker
<1>9. CASE Rework
  <2>1. reworks' \in [Type -> Nat]
    BY <1>9 DEF Rework
  <2> QED BY <1>9, <2>1 DEF Rework, At
<1> QED
  BY <1>1, <1>2, <1>3, <1>4, <1>5, <1>6, <1>7, <1>8, <1>9 DEF Review

(* Types are kept by the commit and the end, by workers and by the operator. *)
LEMMA RestTyped ==
  ASSUME TypeOK,
         \/ Commit \/ CommitFails \/ Succeed
         \/ WorkerWrites \/ WorkerExits \/ OrphanWrites \/ OrphanExits \/ Kill \/ Operator
  PROVE  TypeOK'
<1> USE TaskAssumption DEF TypeOK, OutsideRest, TaskVars, ReviewVars, FileVars, PollVars, PlaceVars,
      OperatorVars, OrphanVars, History, Goto
<1>e. ASSUME Over PROVE /\ engine' = "none" /\ at' = "idle" /\ review' \in Type
                        /\ worker' = "none" /\ askedBy' = "task"
                        /\ result' \in [class : Class, doneFound : BOOLEAN]
                        /\ sawDone' = FALSE /\ terminated' = FALSE /\ rerun' = FALSE
  BY <1>e DEF Over, NoResult, Class, Type
<1>1. CASE Commit
  BY <1>1 DEF Commit, At
<1>2. CASE CommitFails
  BY <1>2, <1>e DEF CommitFails, Ends, Status, At, Worker
<1>3. CASE Succeed
  BY <1>3, <1>e DEF Succeed, Ends, Status, At, Worker
<1>4. CASE WorkerWrites
  BY <1>4 DEF WorkerWrites
<1>5. CASE WorkerExits
  BY <1>5 DEF WorkerExits, Worker, Exit
<1>6. CASE OrphanWrites
  BY <1>6 DEF OrphanWrites
<1>7. CASE OrphanExits
  BY <1>7 DEF OrphanExits
<1>8. CASE Kill
  <2>1. /\ DOMAIN artifact' = Type /\ DOMAIN said' = Type /\ fresh' \in BOOLEAN
        /\ \A t \in Type : /\ artifact'[t] \in Verdict(t) \cup {"none"}
                           /\ said'[t] \in Verdict(t) \cup {"none", "waived"}
    <3>1. CASE UNCHANGED <<artifact, said, fresh>>
      BY <3>1
    <3>2. ASSUME NEW v \in Verdict(review),
                 artifact' = [artifact EXCEPT ![Step(review)] = v],
                 said' = [said EXCEPT ![review] = v],
                 fresh' = IF review = "final" THEN v = "pass" ELSE fresh
          PROVE  /\ DOMAIN artifact' = Type /\ DOMAIN said' = Type /\ fresh' \in BOOLEAN
                 /\ \A t \in Type : /\ artifact'[t] \in Verdict(t) \cup {"none"}
                                    /\ said'[t] \in Verdict(t) \cup {"none", "waived"}
      <4>1. Step(review) \in Type /\ v \in Verdict(Step(review))
        BY DEF Step, Type, Verdict
      <4> QED BY <3>2, <4>1
    <3> QED BY <1>8, <3>1, <3>2 DEF Kill, Unreported
  <2>2. orphan' \in BOOLEAN /\ haunted' \in BOOLEAN
    BY <1>8 DEF Kill
  <2> QED BY <1>8, <1>e, <2>1, <2>2 DEF Kill, At, Worker
<1>9. CASE Abort
  BY <1>9 DEF Abort
<1>10. CASE Heal
  BY <1>10 DEF Heal, Status
<1>11. CASE Orphaned
  BY <1>11 DEF Orphaned, Status
<1>12. CASE retryTask
  BY <1>12 DEF retryTask, Status
<1>13. CASE Resume
  <2>1. at' \in {"begin", "enter", "commit"} /\ review' \in Type
    BY <1>13, ReviewsTyped DEF Resume
  <2> QED BY <1>13, <2>1 DEF Resume, At
<1> QED
  BY <1>1, <1>2, <1>3, <1>4, <1>5, <1>6, <1>7, <1>8, <1>9, <1>10, <1>11, <1>12, <1>13
     DEF Operator

(* Types are kept by every step.                                             *)
LEMMA StepTyped == TypeOK /\ [Next]_vars => TypeOK'
<1> SUFFICES ASSUME TypeOK, [Next]_vars PROVE TypeOK'
  OBVIOUS
<1>1. CASE UNCHANGED vars
  BY <1>1 DEF vars, TypeOK
<1>2. CASE EngineStep
  BY <1>2, RunWorkerTyped, JudgeTyped, ReviewTyped, RestTyped DEF EngineStep
<1>3. CASE Next /\ ~EngineStep
  BY <1>3, RestTyped DEF Next
<1> QED BY <1>1, <1>2, <1>3

(* The first state has the right types.                                      *)
LEMMA InitTyped == Init => TypeOK
<1> SUFFICES ASSUME Init PROVE TypeOK
  OBVIOUS
<1>1. /\ attempts \in [Type -> Nat] /\ reworks \in [Type -> Nat]
      /\ DOMAIN journal = Type /\ DOMAIN artifact = Type /\ DOMAIN said = Type
      /\ \A t \in Type : journal[t] = "none" /\ artifact[t] = "none" /\ said[t] = "none"
  BY DEF Init
<1>2. review \in Type
  BY DEF Init, Type
<1>3. result \in [class : Class, doneFound : BOOLEAN]
  BY DEF Init, NoResult, Class
<1>4. {done, committed, signal, sawDone, terminated, rerun, orphan, retried, haunted, fresh}
        \subseteq BOOLEAN
  BY DEF Init
<1>5. starts \in 0..MaxStarts
  BY TaskAssumption DEF Init
<1>6. /\ status \in Status /\ how = "none" /\ engine = "start" /\ at \in At /\ at = "begin"
      /\ worker \in Worker /\ worker = "none" /\ askedBy = "task"
  BY DEF Init, Status, At, Worker
<1> QED
  BY <1>1, <1>2, <1>3, <1>4, <1>5, <1>6 DEF TypeOK

(* Every variable keeps its type, and a worker is there exactly while the    *)
(* engine polls for it, for any reviews, attempts, restarts and faults.      *)
THEOREM TypeCorrect == Spec => []TypeOK
BY InitTyped, StepTyped, PTL DEF Spec

(* An attempt is counted before the rework, by every step.                   *)
LEMMA StepCounted ==
  ASSUME TypeOK, ReworksCounted, [Next]_vars
  PROVE  ReworksCounted'
<1> USE TaskAssumption DEF TypeOK, ReworksCounted
<1>1. CASE Rework
  BY <1>1 DEF Rework, Goto, ReviewRest, ReviewVars
<1>2. CASE ReviewRevises
  BY <1>2 DEF ReviewRevises, Refused, Counted, Exhausted, Goto, PlaceVars
<1>3. ASSUME attempts' = attempts \/ attempts' = Counted(review), reworks' = reworks, at' # "rework"
      PROVE  ReworksCounted'
  BY <1>3 DEF Counted
<1>4. CASE Begin \/ RunWorker
  BY <1>3, <1>4 DEF Begin, RunWorker, AlreadyDone, Spawn, LaunchFails, PollTop, PollTail, Stall,
     AbortWorker, StallWorker, EndGrace, Settle, Return, Goto, WorkerRest, ReviewVars, History
<1>5. CASE Judge
  BY <1>3, <1>5, NextReview DEF Judge, ToReviews, ReviewBlocked, Reworked, WorkFails, QuotaFails,
     NoFallback, runWithQuotaFallback, Ends, Over, Goto, Kept, ReviewVars, History, Reviews
<1>6. CASE Review /\ ~Rework /\ ~ReviewRevises
  BY <1>3, <1>6 DEF Review, ContractFails, HonourReview, StartReview, ReviewPasses,
     ReviewExhausted, ReviewReplans, ReviewerFails, Refused, GoOn, Reviews, Ends, Over, Goto,
     ReviewVars, History
<1>7. CASE Commit \/ CommitFails \/ Succeed \/ Kill
  BY <1>3, <1>7 DEF Commit, CommitFails, Succeed, Kill, Ends, Over, Goto, ReviewVars, History
<1>8. CASE WorkerWrites \/ WorkerExits \/ OrphanWrites \/ OrphanExits \/ Abort \/ Heal \/ Orphaned
           \/ retryTask \/ UNCHANGED vars
  <2>1. UNCHANGED <<attempts, reworks, at, review>>
    BY <1>8 DEF WorkerWrites, WorkerExits, OrphanWrites, OrphanExits, OutsideRest, Abort, Heal,
       Orphaned, retryTask, ReviewVars, PlaceVars, History, vars
  <2> QED BY <2>1
<1>9. CASE Resume
  BY <1>3, <1>9 DEF Resume, Reviews, Goto, ReviewVars, History
<1> QED
  BY <1>1, <1>2, <1>4, <1>5, <1>6, <1>7, <1>8, <1>9 DEF Next, EngineStep, Operator

(* However often the engine is killed and the task resumed or retried, no    *)
(* review sends the worker back more often than its maximum allows.          *)
THEOREM ReworksAreBounded == Spec => []ReworksBounded
<1>1. Init => ReworksCounted
  BY TaskAssumption DEF Init, ReworksCounted, Type
<1>2. TypeOK /\ ReworksCounted /\ [Next]_vars => ReworksCounted'
  BY StepCounted
<1>3. ReworksCounted => ReworksBounded
  BY DEF ReworksCounted, ReworksBounded
<1> QED
  BY <1>1, <1>2, <1>3, TypeCorrect, PTL DEF Spec

(* What .DONE promises is kept by every step.                                *)
LEMMA StepDone ==
  ASSUME TypeOK, DoneIsThere, [Next]_vars
  PROVE  DoneIsThere'
<1> USE DEF DoneIsThere
<1> DEFINE Needs == {"enter", "reviewing", "rework", "again", "commit"}
<1>1. ASSUME at' \notin Needs, at' # "judge" PROVE DoneIsThere'
  BY <1>1
<1>2. CASE Begin \/ Spawn \/ PollTop \/ PollTail \/ EndGrace \/ ReviewBlocked \/ WorkFails \/ QuotaFails
           \/ NoFallback \/ runWithQuotaFallback
  BY <1>1, <1>2 DEF Begin, Spawn, PollTop, PollTail, Stall, EndGrace, ReviewBlocked, WorkFails,
     QuotaFails, NoFallback, runWithQuotaFallback, Ends, Over, Goto
<1>3. CASE ContractFails \/ ReviewExhausted \/ ReviewReplans \/ ReviewerFails \/ Rework
           \/ Commit \/ CommitFails \/ Succeed \/ Kill
  BY <1>1, <1>3 DEF ContractFails, ReviewExhausted, ReviewReplans, ReviewerFails, Rework, Commit,
     CommitFails, Succeed, Kill, Ends, Over, Goto
<1>4. CASE AlreadyDone \/ LaunchFails \/ AbortWorker \/ StallWorker \/ Settle
  BY <1>4 DEF AlreadyDone, LaunchFails, AbortWorker, StallWorker, Settle, WorkerOk, Return, Goto,
     WorkerRest, FileVars
<1>5. CASE ToReviews \/ Reworked
  <2>1. done
    BY <1>5 DEF ToReviews, Reworked, WorkIsDone, Salvaged, Type
  <2>2. done' = done /\ at' # "judge"
    BY <1>5 DEF ToReviews, Reworked, Kept, FileVars, Reviews, Goto
  <2> QED BY <2>1, <2>2
<1>6. CASE HonourReview \/ StartReview \/ ReviewPasses \/ ReviewRevises
  <2>1. done /\ done' = done
    BY <1>6 DEF HonourReview, StartReview, ReviewPasses, ReviewRevises, Refused
  <2>2. at' # "judge"
    BY <1>6 DEF HonourReview, StartReview, ReviewPasses, ReviewRevises, GoOn, Reviews, Goto
  <2> QED BY <2>1, <2>2
<1>7. CASE Resume
  BY <1>7 DEF Resume, Reviews, Goto, FileVars
<1>8. CASE WorkerWrites \/ OrphanWrites
  BY <1>8 DEF WorkerWrites, OrphanWrites, OutsideRest, TypeOK
<1>9. CASE WorkerExits \/ OrphanExits \/ Abort \/ Heal \/ Orphaned \/ retryTask \/ UNCHANGED vars
  BY <1>9 DEF WorkerExits, OrphanExits, OutsideRest, Abort, Heal, Orphaned, retryTask, FileVars, vars
<1> QED
  BY <1>2, <1>3, <1>4, <1>5, <1>6, <1>7, <1>8, <1>9
     DEF Next, EngineStep, RunWorker, Judge, Review, Operator

(* A reviewer is asked about, and the engine commits, only work that has its *)
(* .DONE, whatever worker or orphan writes and withdraws meanwhile.          *)
THEOREM FinishedIsReviewed == Spec => []ReviewsFinishedWork
<1>1. Init => DoneIsThere
  BY DEF Init, DoneIsThere
<1>2. TypeOK /\ DoneIsThere /\ [Next]_vars => DoneIsThere'
  BY StepDone
<1>3. DoneIsThere => ReviewsFinishedWork
  BY DEF DoneIsThere, ReviewsFinishedWork
<1> QED
  BY <1>1, <1>2, <1>3, TypeCorrect, PTL DEF Spec

(* The worker's start and the poll loop leave verdicts and successes alone. *)
LEMMA RunWorkerReviewed ==
  ASSUME TypeOK, ReviewInv, RunWorker
  PROVE  ReviewInv'
<1> USE DEF ReviewInv, PlacesFit, InOrder, HonouredWasSaid, SuccessLasts, FinalIsLast, Honoured
<1>1. UNCHANGED WorkerRest
  BY DEF RunWorker, AlreadyDone, Spawn, LaunchFails, PollTop, PollTail, AbortWorker, StallWorker,
         EndGrace, Settle
<1>2. at \in Polling /\ at' \in Polling
  BY DEF RunWorker, AlreadyDone, Spawn, LaunchFails, PollTop, PollTail, Stall, AbortWorker,
         StallWorker, EndGrace, Settle, Return, Goto, Polling
<1> USE <1>1, <1>2 DEF WorkerRest, TaskVars, ReviewVars, FileVars, PlaceVars, OperatorVars,
    OrphanVars, History
<1>3. InRework' = InRework /\ InReview' = InReview
  BY DEF InRework, InReview, Polling
<1>4. Before(review)' = Before(review) /\ \A t : Honoured(t)' = Honoured(t)
  BY DEF Before, Step
<1>5. PlacesFit' /\ InOrder'
  BY <1>3, <1>4 DEF Polling
<1>6. HonouredWasSaid' /\ SuccessLasts'
  BY <1>4
<1>7. FinalIsLast'
  BY <1>4 DEF Polling
<1> QED BY <1>5, <1>6, <1>7

(* The end of the engine's work leaves what has been said as it is.          *)
LEMMA EndReviewed ==
  ASSUME TypeOK, ReviewInv, engine # "none", Over, \A t : Honoured(t)' = Honoured(t),
         UNCHANGED <<how, said, fresh, orphan, retried, haunted>>,
         done' = done \/ status' \notin {"pending", "running"},
         status' = status \/ status' \notin {"pending", "running"}
  PROVE  ReviewInv'
<1> USE DEF ReviewInv, PlacesFit, InOrder, HonouredWasSaid, SuccessLasts, FinalIsLast
<1>1. at' = "idle" /\ askedBy' = "task" /\ engine' = "none"
  BY DEF Over
<1>2. ~InReview' /\ ~InRework'
  BY <1>1 DEF InReview, InRework, Polling
<1>3. PlacesFit' /\ InOrder'
  BY <1>1, <1>2
<1>4. HonouredWasSaid' /\ SuccessLasts'
  OBVIOUS
<1>5. FinalIsLast'
  BY <1>1
<1> QED BY <1>3, <1>4, <1>5

(* What the engine makes of the worker's result keeps verdicts in order.     *)
LEMMA JudgeReviewed ==
  ASSUME TypeOK, ReviewInv, Begin \/ Judge
  PROVE  ReviewInv'
<1> DEFINE S == <<how, ReviewVars, FileVars, OperatorVars, OrphanVars, History>>
<1>1. UNCHANGED S /\ at \in {"begin", "judge", "quota"} /\ engine # "none"
  BY DEF Begin, Judge, ToReviews, ReviewBlocked, Reworked, WorkFails, QuotaFails, NoFallback,
         runWithQuotaFallback, Kept, TypeOK
<1>2. \A t : Honoured(t)' = Honoured(t)
  BY <1>1 DEF Honoured, Step, ReviewVars
<1>3. CASE ReviewBlocked \/ WorkFails \/ NoFallback
  <2>1. Over /\ status' \notin {"pending", "running"}
    BY <1>3 DEF ReviewBlocked, WorkFails, NoFallback, Ends
  <2> QED BY <2>1, <1>1, <1>2, EndReviewed DEF OperatorVars, OrphanVars, History
<1> USE DEF ReviewInv, PlacesFit, InOrder, HonouredWasSaid, SuccessLasts, FinalIsLast
<1>4. HonouredWasSaid'
  BY <1>1, <1>2 DEF History
<1>5. how = "none" /\ how' = how
  BY <1>1
<1>6. (retried \/ haunted \/ ~Honoured("final")) /\ (~retried /\ ~haunted => ~orphan)
  BY <1>1
<1>7. FinalIsLast'
  BY <1>1, <1>2, <1>6 DEF OperatorVars, OrphanVars
<1>8. SuccessLasts'
  BY <1>5
<1>9. CASE Begin \/ QuotaFails \/ runWithQuotaFallback
  <2>1. askedBy = "task" /\ askedBy' = "task" /\ at' \in {"launch", "quota", "begin"}
    BY <1>9 DEF Begin, QuotaFails, runWithQuotaFallback, QuotaRerun, Goto, PlaceVars
  <2>2. ~InReview' /\ ~InRework'
    BY <2>1 DEF InReview, InRework, Type
  <2> QED BY <2>1, <2>2, <1>4, <1>7, <1>8
<1>10. CASE ToReviews
  <2>1. Reviews(Required) /\ Required \in SUBSET Type
    BY <1>10, TaskAssumption DEF ToReviews
  <2>2. /\ Required = {} => at' = "commit"
        /\ Required # {} => at' = "enter" /\ review' \in Required /\ Required \cap Before(review') = {}
    BY <2>1, NextReview
  <2>3. ~InRework'
    BY <2>2 DEF InRework, Polling
  <2>4. InReview' => at' = "enter"
    BY <2>2, <2>3 DEF InReview
  <2>5. Before(review)' = Before(review')
    BY DEF Before
  <2> QED BY <2>2, <2>3, <2>4, <2>5, <1>4, <1>7, <1>8
<1>11. CASE Reworked
  <2>1. InRework /\ InReview
    BY <1>11 DEF InRework, InReview, Reworked, Polling
  <2>2. at' = "again" /\ UNCHANGED <<review, askedBy>>
    BY <1>11 DEF Reworked, Goto, PlaceVars
  <2>3. ~InRework' /\ Before(review)' = Before(review)
    BY <2>2 DEF InRework, Polling, Before
  <2> QED BY <2>1, <2>2, <2>3, <1>2, <1>4, <1>7, <1>8
<1> QED BY <1>3, <1>9, <1>10, <1>11 DEF Judge

(* After a review that has passed, those before the next one have passed.    *)
LEMMA NextInOrder ==
  ASSUME review \in Type, NEW P, GoOn(review),
         \A t \in Required \cap Before(review) : t \in P, review \in P
  PROVE  /\ at' \in {"enter", "commit"}
         /\ at' = "enter" => /\ review' \in Required
                             /\ \A t \in Required \cap Before(review') : t \in P
         /\ at' = "commit" => \A t \in Required : t \in P
         /\ review = "final" => at' = "commit"
<1> DEFINE T == Required \cap (IF review = "plan" THEN {"code", "final"}
                               ELSE IF review = "code" THEN {"final"} ELSE {})
<1>1. T \in SUBSET Type /\ Reviews(T)
  BY TaskAssumption DEF GoOn
<1>2. /\ T = {} => at' = "commit" /\ review' = review
      /\ T # {} => at' = "enter" /\ review' \in T /\ T \cap Before(review') = {}
  BY <1>1, NextReview
<1>3. CASE review = "plan"
  BY <1>3, <1>2, TaskAssumption DEF Before, Type
<1>4. CASE review = "code"
  BY <1>4, <1>2, TaskAssumption DEF Before, Type
<1>5. CASE review = "final"
  BY <1>5, <1>2, TaskAssumption DEF Before, Type
<1> QED BY <1>3, <1>4, <1>5 DEF Type

(* What a reviewer's verdict makes of what can be honoured, when every       *)
(* review has a step of its own.                                             *)
LEMMA VerdictHonoured ==
  ASSUME ~SharedStep, TypeOK, NEW v, Recorded(v)
  PROVE  \A t \in Type : Honoured(t)' <=> IF t = review THEN v = "pass" ELSE Honoured(t)
BY DEF Recorded, Honoured, Step, TypeOK

(* A review that begins or is honoured keeps verdicts in order. *)
LEMMA EnterReviewed ==
  ASSUME TypeOK, DoneIsThere, ReviewInv, ContractFails \/ HonourReview \/ StartReview \/ Rework
  PROVE  ReviewInv'
<1>1. CASE ContractFails
  <2>1. \A t : Honoured(t)' = Honoured(t)
    BY <1>1 DEF ContractFails, Honoured, Step, ReviewVars
  <2>2. engine # "none"
    BY <1>1 DEF ContractFails, TypeOK
  <2> QED BY <1>1, <2>1, <2>2, EndReviewed DEF ContractFails, Ends, OperatorVars, OrphanVars, History
<1> USE DEF ReviewInv, PlacesFit, InOrder, HonouredWasSaid, SuccessLasts, FinalIsLast
<1>2. CASE HonourReview
  <2>1. \A t : Honoured(t)' = Honoured(t)
    BY <1>2 DEF HonourReview, Honoured, Step
  <2>2. InReview /\ review \in Type /\ how = "none"
    BY <1>2 DEF HonourReview, InReview, TypeOK
  <2> DEFINE P == {t \in Type : Honoured(t)}
  <2>3. /\ at' \in {"enter", "commit"}
        /\ at' = "enter" => /\ review' \in Required
                            /\ \A t \in Required \cap Before(review') : t \in P
        /\ at' = "commit" => \A t \in Required : t \in P
    <3>1. /\ \A t \in Required \cap Before(review) : t \in P
          /\ review \in P /\ GoOn(review)
      BY <1>2, <2>2, TaskAssumption DEF HonourReview
    <3> HIDE DEF P, ReviewInv, PlacesFit, InOrder, HonouredWasSaid, SuccessLasts, FinalIsLast
    <3> QED BY <2>2, <3>1, NextInOrder
  <2>4. ~InRework' /\ (InReview' => at' = "enter")
    BY <2>3 DEF InRework, InReview, Polling
  <2>5. PlacesFit'
    BY <2>3, <2>4
  <2>6. Before(review)' = Before(review')
    BY DEF Before
  <2>7. InOrder'
    BY <2>1, <2>3, <2>4, <2>6
  <2>8. HonouredWasSaid' /\ SuccessLasts'
    BY <1>2, <2>1, <2>2 DEF HonourReview, ReviewRest, TaskVars, History
  <2>9. FinalIsLast'
    BY <1>2, <2>1, <2>3 DEF HonourReview, ReviewRest, TaskVars, OperatorVars, OrphanVars, History
  <2> QED BY <2>5, <2>7, <2>8, <2>9
<1>3. CASE StartReview
  <2>1. \A t : Honoured(t)' = Honoured(t)
    BY <1>3 DEF StartReview, Honoured, Step, ReviewVars
  <2>2. InReview /\ ~Honoured(review) /\ how = "none" /\ review' = review /\ at' = "reviewing"
    BY <1>3 DEF StartReview, InReview, TypeOK, Goto
  <2>3. ~InRework' /\ Before(review)' = Before(review)
    BY <2>2 DEF InRework, Polling, Before
  <2>4. PlacesFit' /\ InOrder'
    BY <2>1, <2>2, <2>3
  <2>5. HonouredWasSaid' /\ SuccessLasts'
    BY <1>3, <2>1, <2>2 DEF StartReview, ReviewRest, TaskVars, History
  <2>6. retried \/ haunted \/ ~Honoured("final")
    BY <2>2
  <2>7. FinalIsLast'
    BY <1>3, <2>1, <2>6 DEF StartReview, ReviewRest, TaskVars, OperatorVars, OrphanVars, History
  <2> QED BY <2>4, <2>5, <2>7
<1>4. CASE Rework
  <2>1. \A t : Honoured(t)' = Honoured(t)
    BY <1>4 DEF Rework, Honoured, Step, ReviewVars
  <2>2. /\ InReview /\ ~Honoured(review) /\ how = "none"
        /\ review' = review /\ askedBy' = review /\ at' = "launch"
    BY <1>4 DEF Rework, InReview, TypeOK, Goto
  <2>3. Before(review)' = Before(review)
    BY <2>2 DEF Before
  <2>4. PlacesFit' /\ InOrder'
    BY <2>1, <2>2, <2>3
  <2>5. HonouredWasSaid' /\ SuccessLasts'
    BY <1>4, <2>1, <2>2 DEF Rework, ReviewRest, TaskVars
  <2>6. retried \/ haunted \/ ~Honoured("final")
    BY <2>2
  <2>7. FinalIsLast'
    BY <1>4, <2>1, <2>6 DEF Rework, ReviewRest, OperatorVars, OrphanVars
  <2> QED BY <2>4, <2>5, <2>7
<1> QED BY <1>1, <1>2, <1>3, <1>4

(* A reviewer's verdict, or its failure, keeps verdicts in order.            *)
LEMMA VerdictReviewed ==
  ASSUME ~SharedStep, TypeOK, DoneIsThere, ReviewInv,
         ReviewPasses \/ ReviewRevises \/ ReviewExhausted \/ ReviewReplans \/ ReviewerFails
  PROVE  ReviewInv'
<1> USE DEF ReviewInv, PlacesFit, InOrder, HonouredWasSaid, SuccessLasts, FinalIsLast
<1>1. /\ at = "reviewing" /\ InReview /\ ~Honoured(review) /\ how = "none" /\ how' = how
      /\ review \in Type /\ review \in Required /\ done
  BY DEF ReviewPasses, ReviewRevises, ReviewExhausted, ReviewReplans, ReviewerFails, Refused,
     InReview, TypeOK, DoneIsThere, ReviewRest, TaskVars
<1>2. (retried \/ haunted \/ ~Honoured("final")) /\ (~retried /\ ~haunted => ~orphan)
  BY <1>1
<1>3. UNCHANGED <<retried, haunted, orphan>>
  BY DEF ReviewPasses, ReviewRevises, ReviewExhausted, ReviewReplans, ReviewerFails, Refused,
     ReviewRest, OperatorVars, OrphanVars
<1>4. CASE ReviewPasses
  <2>1. \A t \in Type : Honoured(t)' <=> t = review \/ Honoured(t)
    BY <1>4, VerdictHonoured DEF ReviewPasses
  <2>2. UNCHANGED <<done, status, engine>> /\ GoOn(review)
    BY <1>4 DEF ReviewPasses, ReviewRest, TaskVars
  <2> DEFINE P == {t \in Type : Honoured(t)'}
  <2>3. /\ at' \in {"enter", "commit"}
        /\ at' = "enter" => /\ review' \in Required
                            /\ \A t \in Required \cap Before(review') : t \in P
        /\ at' = "commit" => \A t \in Required : t \in P
        /\ review = "final" => at' = "commit"
    <3>1. /\ \A t \in Required \cap Before(review) : t \in P
          /\ review \in P
      BY <1>1, <2>1, TaskAssumption
    <3> HIDE DEF P, ReviewInv, PlacesFit, InOrder, HonouredWasSaid, SuccessLasts, FinalIsLast
    <3> QED BY <1>1, <2>2, <3>1, NextInOrder
  <2>4. ~InRework' /\ (InReview' => at' = "enter")
    BY <2>3 DEF InRework, InReview, Polling
  <2>5. Before(review)' = Before(review')
    BY DEF Before
  <2>6. PlacesFit' /\ InOrder'
    BY <2>3, <2>4, <2>5
  <2>7. HonouredWasSaid'
    BY <1>4, <1>1, <2>1 DEF ReviewPasses, TypeOK
  <2>8. SuccessLasts'
    BY <1>1
  <2>9. FinalIsLast'
    <3>1. Honoured("final")' /\ ~retried /\ ~haunted => review = "final"
      BY <1>2, <2>1 DEF Type
    <3>2. review = "final" => fresh' /\ done' /\ at' = "commit" /\ \A t \in Required : Honoured(t)'
      <4>1. review = "final" => fresh'
        BY <1>4 DEF ReviewPasses
      <4>2. done'
        BY <1>1, <2>2
      <4> QED BY <2>3, <4>1, <4>2, TaskAssumption
    <3> QED BY <1>2, <1>3, <3>1, <3>2
  <2> QED BY <2>6, <2>7, <2>8, <2>9
<1>5. ASSUME NEW v \in {"revise", "replan"}, Refused(v)
      PROVE  (\A t \in Type : Honoured(t)' <=> Honoured(t)) /\ HonouredWasSaid'
  <2>1. \A t \in Type : Honoured(t)' <=> t # review /\ Honoured(t)
    BY <1>5, VerdictHonoured DEF Refused
  <2>2. \A t \in Type : t # review => said'[t] = said[t]
    BY <1>5 DEF Refused, TypeOK
  <2> QED BY <1>1, <2>1, <2>2
<1>6. CASE ReviewRevises
  <2>1. Refused("revise") /\ at' = "rework" /\ UNCHANGED <<review, status, engine>>
    BY <1>6 DEF ReviewRevises, Goto, PlaceVars
  <2>2. (\A t \in Type : Honoured(t)' <=> Honoured(t)) /\ HonouredWasSaid'
    BY <2>1, <1>5
  <2>3. ~InRework' /\ Before(review)' = Before(review)
    BY <2>1 DEF InRework, Polling, Before
  <2>4. PlacesFit' /\ InOrder'
    BY <1>1, <2>1, <2>2, <2>3, TaskAssumption
  <2>5. SuccessLasts'
    BY <1>1
  <2>6. FinalIsLast'
    BY <1>2, <1>3, <2>2 DEF Type
  <2> QED BY <2>2, <2>4, <2>5, <2>6
<1>7. CASE ReviewExhausted \/ ReviewReplans \/ ReviewerFails
  <2>1. Over /\ status' = "failed"
    BY <1>7 DEF ReviewExhausted, ReviewReplans, ReviewerFails, Ends
  <2>2. at' = "idle" /\ askedBy' = "task" /\ ~InReview' /\ ~InRework'
    BY <2>1 DEF Over, InReview, InRework, Polling
  <2>3. (\A t \in Type : Honoured(t)' <=> Honoured(t)) /\ HonouredWasSaid'
    <3>1. CASE ReviewExhausted \/ ReviewReplans
      BY <1>1, <1>5, <3>1 DEF ReviewExhausted, ReviewReplans
    <3>2. CASE ReviewerFails
      <4>1. \A t \in Type : Honoured(t)' = Honoured(t)
        BY <3>2, <1>1 DEF ReviewerFails, Honoured, Step, TypeOK
      <4> QED BY <4>1, <3>2 DEF ReviewerFails, History
    <3> QED BY <1>7, <3>1, <3>2
  <2>4. PlacesFit' /\ InOrder'
    BY <2>2
  <2>5. FinalIsLast'
    BY <1>2, <1>3, <2>3 DEF Type
  <2>6. SuccessLasts'
    BY <1>1
  <2> QED BY <2>3, <2>4, <2>5, <2>6
<1> QED BY <1>4, <1>6, <1>7

(* A step that leaves the engine, the verdicts and the final pass alone.     *)
LEMMA QuietReviewed ==
  ASSUME TypeOK, ReviewInv,
         UNCHANGED <<ReviewVars, PlaceVars, at, how, said, retried, haunted>>,
         orphan' = orphan \/ ~orphan',
         how # "none" => status' = status,
         \/ /\ fresh' = fresh /\ done' = done
            /\ status' \in {"pending", "running"} => status \in {"pending", "running"}
         \/ worker # "none" \/ orphan
  PROVE  ReviewInv'
<1> USE DEF ReviewInv, PlacesFit, InOrder, HonouredWasSaid, SuccessLasts, FinalIsLast,
    ReviewVars, PlaceVars
<1>1. /\ \A t : Honoured(t)' = Honoured(t)
      /\ InReview' = InReview /\ InRework' = InRework /\ Before(review)' = Before(review)
  BY DEF Honoured, Step, InReview, InRework, Before
<1>2. PlacesFit' /\ InOrder' /\ HonouredWasSaid'
  BY <1>1
<1>3. SuccessLasts'
  BY <1>1
<1>4. FinalIsLast'
  BY <1>1 DEF TypeOK
<1> QED BY <1>2, <1>3, <1>4

(* A kill, also in the middle of a review, keeps verdicts in order.          *)
LEMMA KillReviewed ==
  ASSUME ~SharedStep, TypeOK, DoneIsThere, ReviewInv, Kill
  PROVE  ReviewInv'
<1> USE DEF ReviewInv, PlacesFit, InOrder, HonouredWasSaid, SuccessLasts, FinalIsLast
<1>1. /\ at' = "idle" /\ askedBy' = "task" /\ how = "none" /\ how' = how
      /\ UNCHANGED <<journal, done, status, retried>> /\ review \in Type
      /\ ~haunted' => ~haunted /\ ~orphan'
  BY DEF Kill, Over, TaskVars, ReviewVars, FileVars, OperatorVars, TypeOK
<1>2. ~InReview' /\ ~InRework'
  BY <1>1 DEF InReview, InRework, Polling
<1>3. PlacesFit' /\ InOrder' /\ SuccessLasts'
  BY <1>1, <1>2
<1>4. CASE UNCHANGED <<artifact, said, fresh>>
  <2>1. \A t : Honoured(t)' = Honoured(t)
    BY <1>1, <1>4 DEF Honoured, Step
  <2> QED BY <1>1, <1>3, <1>4, <2>1
<1>5. ASSUME at = "reviewing", NEW v \in Verdict(review),
             artifact' = [artifact EXCEPT ![Step(review)] = v],
             said' = [said EXCEPT ![review] = v],
             fresh' = IF review = "final" THEN v = "pass" ELSE fresh
      PROVE  ReviewInv'
  <2>1. ~Honoured(review) /\ InReview /\ done /\ review \in Required
    BY <1>5 DEF InReview, DoneIsThere
  <2>2. \A t \in Type : Honoured(t)' <=> IF t = review THEN v = "pass" ELSE Honoured(t)
    BY <1>1, <1>5, <2>1 DEF Honoured, Step, TypeOK
  <2>3. \A t \in Type : said'[t] = IF t = review THEN v ELSE said[t]
    BY <1>5 DEF TypeOK
  <2>4. HonouredWasSaid'
    BY <2>2, <2>3
  <2>5. retried \/ haunted \/ ~Honoured("final")
    BY <1>5
  <2>6. FinalIsLast'
    <3>1. Honoured("final")' /\ ~retried' /\ ~haunted' => review = "final" /\ v = "pass"
      BY <1>1, <2>2, <2>5 DEF Type
    <3>2. review = "final" /\ v = "pass" => fresh' /\ \A t \in Required : Honoured(t)'
      BY <1>5, <2>1, <2>2, TaskAssumption DEF Before, Type
    <3>3. done'
      BY <1>1, <2>1
    <3> QED BY <1>1, <3>1, <3>2, <3>3
  <2> QED BY <1>3, <2>4, <2>6
<1> QED BY <1>4, <1>5 DEF Kill, Unreported

(* Verdicts are kept in order by the end of the task, the workers and the    *)
(* operator.                                                                 *)
LEMMA RestReviewed ==
  ASSUME TypeOK, DoneIsThere, ReviewInv,
         \/ Commit \/ CommitFails \/ Succeed
         \/ WorkerWrites \/ WorkerExits \/ OrphanWrites \/ OrphanExits
         \/ Operator \/ UNCHANGED vars
  PROVE  ReviewInv'
<1>1. CASE CommitFails
  <2>1. \A t : Honoured(t)' = Honoured(t)
    BY <1>1 DEF CommitFails, Honoured, Step, ReviewVars
  <2>2. engine # "none"
    BY <1>1 DEF CommitFails, TypeOK
  <2> QED BY <1>1, <2>1, <2>2, EndReviewed DEF CommitFails, Ends, OperatorVars, OrphanVars, History
<1>2. CASE WorkerWrites \/ WorkerExits \/ OrphanWrites \/ OrphanExits
  <2>1. /\ UNCHANGED <<ReviewVars, PlaceVars, at, how, said, retried, haunted, status>>
        /\ orphan' = orphan \/ ~orphan'
        /\ (fresh' = fresh /\ done' = done) \/ worker # "none" \/ orphan
    BY <1>2 DEF WorkerWrites, WorkerExits, OrphanWrites, OrphanExits, OutsideRest, TaskVars, FileVars
  <2> QED BY <2>1, QuietReviewed
<1>3. CASE Abort \/ UNCHANGED vars
  <2>1. /\ UNCHANGED <<ReviewVars, PlaceVars, at, how, said, retried, haunted, status, orphan, fresh, done>>
    BY <1>3 DEF Abort, TaskVars, ReviewVars, PlaceVars, OrphanVars, History, FileVars, vars,
       OperatorVars
  <2> QED BY <2>1, QuietReviewed
<1>4. CASE Orphaned
  <2>1. /\ UNCHANGED <<ReviewVars, PlaceVars, at, how, said, retried, haunted, orphan, fresh, done>>
        /\ status = "running" /\ status' = "failed"
    BY <1>4 DEF Orphaned, OrphanVars, History, FileVars, OperatorVars
  <2>2. how = "none"
    BY <2>1 DEF ReviewInv, SuccessLasts
  <2> QED BY <2>1, <2>2, QuietReviewed
<1> USE DEF ReviewInv, PlacesFit, InOrder, HonouredWasSaid, SuccessLasts, FinalIsLast
<1>5. CASE Commit
  <2>1. /\ at = "commit" /\ at' = "committed" /\ how = "none"
        /\ UNCHANGED <<how, status, ReviewVars, done, engine, said, fresh, orphan, retried, haunted>>
    BY <1>5 DEF Commit, Goto, TaskVars, PlaceVars, OperatorVars, OrphanVars, History, TypeOK
  <2>2. (\A t : Honoured(t)' = Honoured(t)) /\ ~InReview' /\ ~InRework'
    BY <2>1 DEF Honoured, Step, ReviewVars, InReview, InRework, Polling
  <2> QED BY <2>1, <2>2
<1>6. CASE Succeed
  <2>1. /\ at = "committed" /\ at' = "idle" /\ askedBy' = "task"
        /\ status' = "succeeded" /\ how' = "engine" /\ engine' = "none"
        /\ UNCHANGED <<ReviewVars, done, said, fresh, orphan, retried, haunted>>
    BY <1>6 DEF Succeed, Ends, Over, FileVars, OperatorVars, OrphanVars, History
  <2>2. (\A t : Honoured(t)' = Honoured(t)) /\ ~InReview' /\ ~InRework'
    BY <2>1 DEF Honoured, Step, ReviewVars, InReview, InRework, Polling
  <2> QED BY <2>1, <2>2
<1>7. CASE Heal \/ retryTask
  <2>1. /\ engine = "none" /\ at = "idle" /\ how = "none" /\ how' \in {"none", "heal"}
        /\ how' = "none" \/ status' = "succeeded"
        /\ UNCHANGED <<at, ReviewVars, PlaceVars, done, said, fresh, orphan, haunted>>
        /\ retried' \/ (retried' = retried /\ status' = "succeeded")
    BY <1>7 DEF Heal, retryTask, FileVars, OperatorVars, OrphanVars, History, TypeOK
  <2>2. (\A t : Honoured(t)' = Honoured(t)) /\ ~InReview' /\ ~InRework'
    BY <2>1 DEF Honoured, Step, ReviewVars, InReview, InRework, Polling
  <2> QED BY <2>1, <2>2 DEF PlaceVars
<1>8. CASE Resume
  <2>1. /\ at = "idle" /\ how = "none" /\ askedBy = "task" /\ askedBy' = "task"
        /\ status \in {"pending", "running"}
        /\ UNCHANGED <<how, status, ReviewVars, done, said, fresh, orphan, haunted, retried>>
    BY <1>8 DEF Resume, FileVars, OrphanVars, History, TaskVars, TypeOK
  <2>2. Required \in SUBSET Type
    BY TaskAssumption
  <2>3. /\ ~done => at' = "begin"
        /\ done => at' \in {"enter", "commit"}
        /\ at' = "enter" => review' \in Required /\ Required \cap Before(review') = {}
        /\ at' = "commit" => Required = {}
    BY <1>8, <2>2, NextReview DEF Resume, Goto
  <2>4. ~InRework' /\ (InReview' => at' = "enter") /\ Before(review)' = Before(review')
    BY <2>1, <2>3 DEF InRework, InReview, Polling, Type, Before
  <2>5. \A t : Honoured(t)' = Honoured(t)
    BY <2>1 DEF Honoured, Step, ReviewVars
  <2>6. PlacesFit' /\ InOrder'
    BY <2>1, <2>3, <2>4
  <2>7. HonouredWasSaid' /\ SuccessLasts'
    BY <2>1, <2>5
  <2>8. FinalIsLast'
    BY <2>1, <2>3, <2>5
  <2> QED BY <2>6, <2>7, <2>8
<1> QED BY <1>1, <1>2, <1>3, <1>4, <1>5, <1>6, <1>7, <1>8 DEF Operator

(* The inductive invariant: reviews pass in their order, what can be         *)
(* honoured is what was said last, and a final pass is the last thing that   *)
(* happens to the work, if plan and code reviews have a step of their own.   *)
THEOREM ReviewsInOrder ==
  ASSUME ~SharedStep
  PROVE  Spec => [](TypeOK /\ DoneIsThere /\ ReviewInv)
<1>1. Init => DoneIsThere /\ ReviewInv
  BY DEF Init, DoneIsThere, ReviewInv, PlacesFit, InOrder, HonouredWasSaid, SuccessLasts,
     FinalIsLast, InReview, InRework, Polling, Honoured, Step, Type
<1>2. TypeOK /\ DoneIsThere /\ ReviewInv /\ [Next]_vars => ReviewInv'
  BY RunWorkerReviewed, JudgeReviewed, EnterReviewed, VerdictReviewed, KillReviewed, RestReviewed
     DEF Next, EngineStep, Review
<1>3. Init => TypeOK
  BY InitTyped
<1>4. TypeOK /\ [Next]_vars => TypeOK'
  BY StepTyped
<1>5. TypeOK /\ DoneIsThere /\ [Next]_vars => DoneIsThere'
  BY StepDone
<1> QED BY <1>1, <1>2, <1>3, <1>4, <1>5, PTL DEF Spec

(* An engine that records a success has a pass of every review asked for,    *)
(* and it is the last thing its reviewer said: over kills, resumes, retries, *)
(* lost reviewers and orphans, if plan and code have a step of their own.    *)
THEOREM SuccessWasReviewed ==
  ASSUME ~SharedStep
  PROVE  Spec => []ReviewedBeforeSuccess
<1>1. TypeOK /\ ReviewInv => ReviewedBeforeSuccess
  BY TaskAssumption DEF ReviewInv, SuccessLasts, HonouredWasSaid, ReviewedBeforeSuccess
<1> QED BY <1>1, ReviewsInOrder, PTL

(* Without a retry and without an orphan, the final review has passed the    *)
(* very work that the engine commits.                                        *)
THEOREM FinalPassedThisWork ==
  ASSUME ~SharedStep
  PROVE  Spec => []PassIsOfThisWork
<1>1. ReviewInv => PassIsOfThisWork
  BY TaskAssumption DEF ReviewInv, SuccessLasts, FinalIsLast, PassIsOfThisWork
<1> QED BY <1>1, ReviewsInOrder, PTL
=============================================================================
