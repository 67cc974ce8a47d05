-------------------------- MODULE JudgeQueueProofs --------------------------
(* The judge queue for any number of tasks, samples, retries and faults: a    *)
(* task under judging is nobody else's, the run is scored with final          *)
(* outcomes, the queue implements the board, and judge_concurrency bounds the *)
(* coroutines.                                                                *)
EXTENDS JudgeQueue, FiniteSetTheorems, TLAPS

\* A task under judging is as its claim left it, or the salvage has abandoned it.
Owned ==
    \A t \in Tasks : work[t] # "none" =>
        /\ status[t] \in {"processing", "failed"}
        /\ status[t] = "processing" => lease[t] = "live"
        /\ status[t] = "failed" => run = "scoring_failed"

\* The salvage works on runs that were given up.
Abandoning == scan \in {"salvage", "read"} => run = "scoring_failed"

\* No score before the end.
Unscored == run = "scoring" => used = NoTasks

QueueInv == TypeOK /\ Owned /\ Abandoning /\ Unscored /\ ScoredWithOutcomes
-----------------------------------------------------------------------------
\* The types hold at the start.
LEMMA TypeInit == Init => TypeOK
BY QueueAssumption DEF QueueAssumption, Init, TypeOK, NoTasks, Statuses

\* A commit of a worker keeps the types.
LEMMA CommitTyped ==
    ASSUME TypeOK, NEW t \in Tasks, NEW s \in Statuses \ {"processing"}, NEW a \in Nat,
           Commit(t, s, a)
    PROVE  TypeOK'
BY DEF TypeOK, Commit, Statuses, runVars, scanVars

\* Scoring the run keeps the types and claims no task.
LEMMA ScoreRunTyped ==
    ASSUME TypeOK, ScoreRun
    PROVE  /\ status' \in [Tasks -> Statuses]
           /\ run' \in {"scoring", "completed", "scoring_failed"}
           /\ used' \in [Tasks -> Statuses]
           /\ \A t \in Tasks : status'[t] = "processing" => status[t] = "processing"
<1>1. CASE run = "scoring" /\ \E t \in Tasks : status[t] = "none"
  BY <1>1 DEF TypeOK, ScoreRun, Statuses, runVars
<1>2. CASE ~(run = "scoring" /\ \E t \in Tasks : status[t] = "none")
  BY <1>2 DEF TypeOK, ScoreRun, Statuses, runVars
<1> QED
  BY <1>1, <1>2

\* Every step keeps the types.
LEMMA TypeStep == TypeOK /\ [Next]_vars => TypeOK'
<1> SUFFICES ASSUME TypeOK, [Next]_vars PROVE TypeOK'
  OBVIOUS
<1>a. MaxFaults \in Nat /\ MaxRetries \in Nat
  BY QueueAssumption DEF QueueAssumption
<1>1. CASE Reclaim
  BY <1>1 DEF TypeOK, Reclaim, Stale, Statuses, runVars, scanVars
<1>2. CASE Claim
  <2>1. PICK S \in SUBSET Tasks :
            /\ status' = [t \in Tasks |-> IF t \in S THEN "processing" ELSE status[t]]
            /\ lease' = [t \in Tasks |-> IF t \in S THEN ClaimLease ELSE lease[t]]
            /\ work' = [t \in Tasks |-> IF t \in S THEN "claimed" ELSE work[t]]
            /\ batch' = S
            /\ round' = IF S = {} THEN "idle" ELSE "gather"
    BY <1>2 DEF Claim, Batches
  <2>2. UNCHANGED <<attempts, due, runVars, scanVars, faults>>
    BY <1>2 DEF Claim
  <2> QED
    BY <2>1, <2>2 DEF TypeOK, ClaimLease, Statuses, runVars, scanVars
<1>3. CASE Reject
  BY <1>3 DEF TypeOK, Reject, Waits, Statuses, runVars, scanVars
<1>4. CASE EndRound
  BY <1>4, ScoreRunTyped DEF TypeOK, EndRound, scanVars
<1>5. CASE RoundRaises
  BY <1>5, <1>a DEF TypeOK, RoundRaises, taskVars, runVars, scanVars
<1>6. ASSUME NEW t \in Tasks, BeginJudging(t) PROVE TypeOK'
  BY <1>6 DEF TypeOK, BeginJudging, taskVars, runVars, scanVars
<1>7. ASSUME NEW t \in Tasks, Unjudgeable(t) PROVE TypeOK'
  <2>1. attempts[t] \in Nat /\ "failed" \in Statuses \ {"processing"}
    BY DEF TypeOK, Statuses
  <2> QED
    BY <1>7, <2>1, CommitTyped DEF Unjudgeable
<1>8. ASSUME NEW t \in Tasks, Judged(t) PROVE TypeOK'
  <2>1. /\ attempts[t] \in Nat /\ attempts[t] + 1 \in Nat
        /\ {"failed", "done", "pending"} \subseteq Statuses \ {"processing"}
    BY DEF TypeOK, Statuses
  <2> QED
    BY <1>8, <2>1, CommitTyped DEF Judged
<1>9. ASSUME NEW t \in Tasks, JudgingRaises(t) PROVE TypeOK'
  BY <1>9, <1>a DEF TypeOK, JudgingRaises, taskVars, runVars, scanVars
<1>10. CASE ScoreCalled
  BY <1>10, ScoreRunTyped DEF TypeOK, ScoreCalled, scanVars
<1>11. CASE ScanSees
  BY <1>11 DEF TypeOK, ScanSees, taskVars, runVars
<1>12. CASE ScanMarks
  BY <1>12 DEF TypeOK, ScanMarks, taskVars
<1>13. CASE SalvageReads
  BY <1>13 DEF TypeOK, SalvageReads, taskVars, runVars
<1>14. CASE SalvageAbandons
  <2>1. /\ status' = [t \in Tasks |-> IF IsActive(seen[t]) THEN "failed" ELSE status[t]]
        /\ used' = [t \in Tasks |-> IF IsActive(seen[t]) THEN "failed" ELSE seen[t]]
        /\ lease' = [t \in Tasks |-> IF seen[t] = "processing" THEN "none" ELSE lease[t]]
        /\ scan' = "idle" /\ seen' = NoTasks
        /\ UNCHANGED <<attempts, due, run, round, batch, work, faults>>
    BY <1>14 DEF SalvageAbandons
  <2>2. /\ status' \in [Tasks -> Statuses] /\ used' \in [Tasks -> Statuses]
        /\ lease' \in [Tasks -> {"none", "live", "expired"}]
        /\ seen' \in [Tasks -> Statuses]
    BY <2>1 DEF TypeOK, Statuses, NoTasks
  <2>3. \A t \in Tasks : status'[t] = "processing" => lease'[t] # "none"
    BY <2>1 DEF TypeOK, Statuses, IsActive
  <2> QED
    BY <2>1, <2>2, <2>3 DEF TypeOK
<1>15. CASE ScanRaises
  BY <1>15, <1>a DEF TypeOK, ScanRaises, taskVars, runVars, NoTasks, Statuses
<1>16. ASSUME NEW t \in Tasks, LeaseExpires(t) PROVE TypeOK'
  BY <1>16 DEF TypeOK, LeaseExpires, runVars, scanVars
<1>17. ASSUME NEW t \in Tasks, BackoffPasses(t) PROVE TypeOK'
  BY <1>17 DEF TypeOK, BackoffPasses, runVars, scanVars
<1>18. CASE Crash
  BY <1>18, <1>a DEF TypeOK, Crash, taskVars, runVars, NoTasks, Statuses
<1>19. CASE UNCHANGED vars
  BY <1>19 DEF TypeOK, vars
<1> QED
  BY <1>1, <1>2, <1>3, <1>4, <1>5, <1>6, <1>7, <1>8, <1>9, <1>10, <1>11, <1>12, <1>13,
     <1>14, <1>15, <1>16, <1>17, <1>18, <1>19 DEF Next
-----------------------------------------------------------------------------
\* What a commit does to the rest of the invariant.
LEMMA CommitKeeps ==
    ASSUME QueueInv, NEW t \in Tasks, NEW s \in Statuses, NEW a \in Nat,
           work[t] # "none", Commit(t, s, a)
    PROVE  Owned' /\ Abandoning' /\ Unscored' /\ ScoredWithOutcomes'
<1>1. Owned' /\ Abandoning' /\ Unscored'
  BY DEF QueueInv, TypeOK, Owned, Abandoning, Unscored, Commit, runVars, scanVars
<1>2. run # "completed"
  BY DEF QueueInv, Owned, ScoredWithOutcomes, AllClosed, IsClosed
<1>3. ScoredWithOutcomes'
  BY <1>2 DEF ScoredWithOutcomes, Commit, runVars
<1> QED
  BY <1>1, <1>3

\* score_run touches no task that is worked on, and ends the run on final outcomes only.
LEMMA ScoreRunKeeps ==
    ASSUME QueueInv, ScoreRun, UNCHANGED <<work, lease>>,
           scan' \in {"salvage", "read"} => scan \in {"salvage", "read"}
    PROVE  Owned' /\ Abandoning' /\ Unscored' /\ ScoredWithOutcomes'
<1>1. CASE run = "scoring" /\ \E t \in Tasks : status[t] = "none"
  <2>1. /\ status' = [t \in Tasks |-> IF status[t] = "none" THEN "pending" ELSE status[t]]
        /\ UNCHANGED <<run, used>>
    BY <1>1 DEF ScoreRun, runVars
  <2> QED
    BY <1>1, <2>1 DEF QueueInv, Owned, Abandoning, Unscored, ScoredWithOutcomes
<1>2. CASE ~(run = "scoring" /\ \E t \in Tasks : status[t] = "none")
  <2>1. CASE run = "scoring" /\ AllClosed
    <3>1. status' = status /\ run' = "completed" /\ used' = status
      BY <1>2, <2>1 DEF ScoreRun, MayPublish
    <3>2. \A t \in Tasks : work[t] = "none"
      BY <2>1 DEF QueueInv, Owned, AllClosed, IsClosed
    <3> QED
      BY <2>1, <3>1, <3>2
      DEF QueueInv, Owned, Abandoning, Unscored, ScoredWithOutcomes, AllClosed
  <2>2. CASE ~(run = "scoring" /\ AllClosed)
    <3>1. UNCHANGED <<status, run, used>>
      BY <1>2, <2>2 DEF ScoreRun, MayPublish, runVars
    <3> QED
      BY <3>1 DEF QueueInv, Owned, Abandoning, Unscored, ScoredWithOutcomes, AllClosed
  <2> QED
    BY <2>1, <2>2
<1> QED
  BY <1>1, <1>2

\* Every step keeps the invariant.
LEMMA QueueStep == QueueInv /\ [Next]_vars => QueueInv'
<1> SUFFICES ASSUME QueueInv, [Next]_vars
             PROVE  Owned' /\ Abandoning' /\ Unscored' /\ ScoredWithOutcomes'
  BY TypeStep DEF QueueInv
<1>t. TypeOK
  BY DEF QueueInv
<1>1. CASE Reclaim
  <2>1. run = "completed" => status' = status
    BY <1>1 DEF QueueInv, TypeOK, Reclaim, Stale, ScoredWithOutcomes, AllClosed, IsClosed
  <2>2. UNCHANGED <<run, used, scan, work>>
    BY <1>1 DEF Reclaim, runVars, scanVars
  <2>3. Owned'
    BY <1>1, <2>2 DEF QueueInv, TypeOK, Owned, Reclaim, Stale
  <2> QED
    BY <2>1, <2>2, <2>3
    DEF QueueInv, Abandoning, Unscored, ScoredWithOutcomes, AllClosed
<1>2. CASE Claim
  <2>1. PICK S \in SUBSET {t \in Tasks : status[t] = "pending"} :
            /\ status' = [t \in Tasks |-> IF t \in S THEN "processing" ELSE status[t]]
            /\ lease' = [t \in Tasks |-> IF t \in S THEN ClaimLease ELSE lease[t]]
            /\ work' = [t \in Tasks |-> IF t \in S THEN "claimed" ELSE work[t]]
    BY <1>2 DEF Claim, Batches
  <2>2. UNCHANGED <<run, used, scan>>
    BY <1>2 DEF Claim, runVars, scanVars
  <2>3. Owned'
    BY <2>1, <2>2 DEF QueueInv, TypeOK, Owned, ClaimLease
  <2>4. run = "completed" => status' = status
    BY <2>1 DEF QueueInv, TypeOK, ScoredWithOutcomes, AllClosed, IsClosed
  <2> QED
    BY <2>2, <2>3, <2>4
    DEF QueueInv, Abandoning, Unscored, ScoredWithOutcomes, AllClosed
<1>3. CASE Reject
  <2>1. UNCHANGED <<run, used, scan, work>>
    BY <1>3 DEF Reject, runVars, scanVars
  <2>2. Owned'
    BY <1>3, <2>1 DEF QueueInv, TypeOK, Owned, Reject, Waits
  <2>3. run = "completed" => status' = status
    BY <1>3 DEF QueueInv, TypeOK, Reject, Waits, ScoredWithOutcomes, AllClosed, IsClosed
  <2> QED
    BY <2>1, <2>2, <2>3
    DEF QueueInv, Abandoning, Unscored, ScoredWithOutcomes, AllClosed
<1>4. CASE EndRound
  BY <1>4, ScoreRunKeeps DEF EndRound, scanVars
<1>5. CASE RoundRaises
  BY <1>5, <1>t DEF QueueInv, TypeOK, Owned, Abandoning, Unscored, ScoredWithOutcomes, AllClosed,
     RoundRaises, taskVars, runVars, scanVars
<1>6. ASSUME NEW t \in Tasks, BeginJudging(t)
      PROVE  Owned' /\ Abandoning' /\ Unscored' /\ ScoredWithOutcomes'
  BY <1>6, <1>t DEF QueueInv, TypeOK, Owned, Abandoning, Unscored, ScoredWithOutcomes, AllClosed,
     BeginJudging, taskVars, runVars, scanVars
<1>7. ASSUME NEW t \in Tasks, Unjudgeable(t)
      PROVE  Owned' /\ Abandoning' /\ Unscored' /\ ScoredWithOutcomes'
  <2>1. attempts[t] \in Nat /\ "failed" \in Statuses
    BY <1>t DEF TypeOK, Statuses
  <2> QED
    BY <1>7, <2>1, CommitKeeps DEF Unjudgeable
<1>8. ASSUME NEW t \in Tasks, Judged(t)
      PROVE  Owned' /\ Abandoning' /\ Unscored' /\ ScoredWithOutcomes'
  <2>1. /\ attempts[t] \in Nat /\ attempts[t] + 1 \in Nat
        /\ {"failed", "done", "pending"} \subseteq Statuses
    BY <1>t DEF TypeOK, Statuses
  <2>2. work[t] # "none"
    BY <1>8 DEF Judged
  <2> QED
    BY <1>8, <2>1, <2>2, CommitKeeps DEF Judged
<1>9. ASSUME NEW t \in Tasks, JudgingRaises(t)
      PROVE  Owned' /\ Abandoning' /\ Unscored' /\ ScoredWithOutcomes'
  BY <1>9, <1>t DEF QueueInv, TypeOK, Owned, Abandoning, Unscored, ScoredWithOutcomes, AllClosed,
     JudgingRaises, taskVars, runVars, scanVars
<1>10. CASE ScoreCalled
  BY <1>10, ScoreRunKeeps DEF ScoreCalled, scanVars
<1>11. CASE ScanSees
  BY <1>11 DEF QueueInv, Owned, Abandoning, Unscored, ScoredWithOutcomes, AllClosed, ScanSees,
     taskVars, runVars
<1>12. CASE ScanMarks
  BY <1>12 DEF QueueInv, Owned, Abandoning, Unscored, ScoredWithOutcomes, AllClosed, ScanMarks,
     taskVars
<1>13. CASE SalvageReads
  BY <1>13 DEF QueueInv, Owned, Abandoning, Unscored, ScoredWithOutcomes, AllClosed,
     SalvageReads, taskVars, runVars
<1>14. CASE SalvageAbandons
  <2>1. run = "scoring_failed" /\ run' = run /\ scan' = "idle" /\ work' = work
    BY <1>14 DEF QueueInv, Abandoning, SalvageAbandons
  <2>2. /\ status' = [t \in Tasks |-> IF IsActive(seen[t]) THEN "failed" ELSE status[t]]
        /\ lease' = [t \in Tasks |-> IF seen[t] = "processing" THEN "none" ELSE lease[t]]
    BY <1>14 DEF SalvageAbandons
  <2>3. Owned'
    BY <2>1, <2>2 DEF QueueInv, TypeOK, Owned, IsActive
  <2> QED
    BY <2>1, <2>3 DEF Abandoning, Unscored, ScoredWithOutcomes
<1>15. CASE ScanRaises
  BY <1>15 DEF QueueInv, Owned, Abandoning, Unscored, ScoredWithOutcomes, AllClosed, ScanRaises,
     taskVars, runVars
<1>16. ASSUME NEW t \in Tasks, LeaseExpires(t)
       PROVE  Owned' /\ Abandoning' /\ Unscored' /\ ScoredWithOutcomes'
  BY <1>16, <1>t DEF QueueInv, TypeOK, Owned, Abandoning, Unscored, ScoredWithOutcomes, AllClosed,
     LeaseExpires, runVars, scanVars
<1>17. ASSUME NEW t \in Tasks, BackoffPasses(t)
       PROVE  Owned' /\ Abandoning' /\ Unscored' /\ ScoredWithOutcomes'
  BY <1>17 DEF QueueInv, Owned, Abandoning, Unscored, ScoredWithOutcomes, AllClosed,
     BackoffPasses, runVars, scanVars
<1>18. CASE Crash
  BY <1>18 DEF QueueInv, Owned, Abandoning, Unscored, ScoredWithOutcomes, AllClosed, Crash,
     NoTasks, taskVars, runVars
<1>19. CASE UNCHANGED vars
  BY <1>19 DEF QueueInv, Owned, Abandoning, Unscored, ScoredWithOutcomes, AllClosed, vars
<1> QED
  BY <1>1, <1>2, <1>3, <1>4, <1>5, <1>6, <1>7, <1>8, <1>9, <1>10, <1>11, <1>12, <1>13,
     <1>14, <1>15, <1>16, <1>17, <1>18, <1>19 DEF Next

\* The invariant always holds.
LEMMA QueueInvariant == Spec => []QueueInv
<1>1. Init => QueueInv
  BY TypeInit DEF QueueInv, Init, Owned, Abandoning, Unscored, ScoredWithOutcomes, NoTasks
<1> QED
  BY <1>1, QueueStep, PTL DEF Spec

(* Types, and the rows of the tasks: a processing task has a lease.           *)
THEOREM QueueTypeCorrect == Spec => []TypeOK
<1>1. QueueInv => TypeOK
  BY DEF QueueInv
<1> QED
  BY <1>1, QueueInvariant, PTL

(* Nobody else writes a task that a coroutine judges, unless scoring was given up. *)
THEOREM JudgedTaskIsOwned == Spec => []WorkedOnIsOwned
<1>1. QueueInv => WorkedOnIsOwned
  BY DEF QueueInv, Owned, WorkedOnIsOwned
<1> QED
  BY <1>1, QueueInvariant, PTL

(* A completed run was scored with the outcomes its tasks have for good.       *)
THEOREM CompletedOnOutcomes == Spec => []ScoredWithOutcomes
<1>1. QueueInv => ScoredWithOutcomes
  BY DEF QueueInv
<1> QED
  BY <1>1, QueueInvariant, PTL
-----------------------------------------------------------------------------
\* How a step looks on the board.
Waiting   == /\ run = "scoring" /\ run' = "scoring" /\ used' = used
             /\ \A t \in Tasks : IsClosed(status[t]) => status'[t] = status[t]
Scoring   == /\ run = "scoring" /\ run' = "completed" /\ AllClosed
             /\ used' = status /\ status' = status
GivingUp  == run = "scoring" /\ run' = "scoring_failed" /\ used' = used
Over      == run = "completed" /\ UNCHANGED <<run, used, status>>
Abandoned == run = "scoring_failed" /\ run' = "scoring_failed"
BoardStep == Waiting \/ Scoring \/ GivingUp \/ Over \/ Abandoned

\* A step that closes no task again is one of the board.
LEMMA QuietStep ==
    ASSUME QueueInv, UNCHANGED <<run, used>>,
           \A t \in Tasks : IsClosed(status[t]) => status'[t] = status[t],
           status' \in [Tasks -> Statuses]
    PROVE  BoardStep
<1>1. run = "completed" => status' = status
  BY DEF QueueInv, TypeOK, ScoredWithOutcomes, AllClosed
<1> QED
  BY <1>1 DEF QueueInv, TypeOK, BoardStep, Waiting, Over, Abandoned

\* So is scoring the run, which uses the tasks as they are.
LEMMA ScoreRunStep ==
    ASSUME QueueInv, ScoreRun
    PROVE  BoardStep
<1>1. CASE run = "scoring" /\ \E t \in Tasks : status[t] = "none"
  <2>1. /\ status' = [t \in Tasks |-> IF status[t] = "none" THEN "pending" ELSE status[t]]
        /\ UNCHANGED <<run, used>>
    BY <1>1 DEF ScoreRun, runVars
  <2> QED
    BY <1>1, <2>1 DEF BoardStep, Waiting, IsClosed
<1>2. CASE ~(run = "scoring" /\ \E t \in Tasks : status[t] = "none")
  <2>1. CASE run = "scoring" /\ AllClosed
    BY <1>2, <2>1 DEF ScoreRun, MayPublish, BoardStep, Scoring
  <2>2. CASE ~(run = "scoring" /\ AllClosed)
    <3>1. UNCHANGED <<status, run, used>>
      BY <1>2, <2>2 DEF ScoreRun, MayPublish, runVars
    <3> QED
      BY <3>1, QuietStep DEF QueueInv, TypeOK
  <2> QED
    BY <2>1, <2>2
<1> QED
  BY <1>1, <1>2

\* So is a commit: the task it closes was open, unless the run has failed.
LEMMA CommitStep ==
    ASSUME QueueInv, NEW t \in Tasks, NEW s \in Statuses, NEW a \in Nat,
           work[t] # "none", Commit(t, s, a)
    PROVE  BoardStep
<1>1. run # "scoring_failed" => ~IsClosed(status[t])
  BY DEF QueueInv, Owned, IsClosed
<1>2. UNCHANGED <<run, used>> /\ status' = [status EXCEPT ![t] = s]
  BY DEF Commit, runVars
<1>3. status' \in [Tasks -> Statuses]
  BY <1>2 DEF QueueInv, TypeOK
<1>4. CASE run = "scoring_failed"
  BY <1>2, <1>4 DEF BoardStep, Abandoned
<1>5. CASE run # "scoring_failed"
  BY <1>1, <1>2, <1>3, <1>5, QuietStep DEF QueueInv, TypeOK
<1> QED
  BY <1>4, <1>5

\* Every step is one of the board.
LEMMA EveryStepOnBoard == QueueInv /\ [Next]_vars => BoardStep
<1> SUFFICES ASSUME QueueInv, [Next]_vars PROVE BoardStep
  OBVIOUS
<1>t. TypeOK /\ TypeOK'
  BY TypeStep DEF QueueInv
<1>s. status' \in [Tasks -> Statuses]
  BY <1>t DEF TypeOK
<1>1. CASE Reclaim
  <2>1. /\ UNCHANGED <<run, used>>
        /\ \A t \in Tasks : IsClosed(status[t]) => status'[t] = status[t]
    BY <1>1 DEF Reclaim, Stale, runVars, IsClosed
  <2> QED
    BY <2>1, <1>s, QuietStep
<1>2. CASE Claim
  <2>1. PICK S \in SUBSET {t \in Tasks : status[t] = "pending"} :
            status' = [t \in Tasks |-> IF t \in S THEN "processing" ELSE status[t]]
    BY <1>2 DEF Claim, Batches
  <2>2. /\ UNCHANGED <<run, used>>
        /\ \A t \in Tasks : IsClosed(status[t]) => status'[t] = status[t]
    BY <1>2, <2>1 DEF Claim, runVars, IsClosed
  <2> QED
    BY <2>2, <1>s, QuietStep
<1>3. CASE Reject
  <2>1. /\ UNCHANGED <<run, used>>
        /\ \A t \in Tasks : IsClosed(status[t]) => status'[t] = status[t]
    BY <1>3 DEF Reject, Waits, runVars, IsClosed
  <2> QED
    BY <2>1, <1>s, QuietStep
<1>4. CASE EndRound \/ ScoreCalled
  BY <1>4, ScoreRunStep DEF EndRound, ScoreCalled
<1>5. ASSUME NEW t \in Tasks, Unjudgeable(t) PROVE BoardStep
  <2>1. attempts[t] \in Nat /\ "failed" \in Statuses /\ work[t] # "none"
    BY <1>5, <1>t DEF TypeOK, Statuses, Unjudgeable
  <2> QED
    BY <1>5, <2>1, CommitStep DEF Unjudgeable
<1>6. ASSUME NEW t \in Tasks, Judged(t) PROVE BoardStep
  <2>1. /\ attempts[t] \in Nat /\ attempts[t] + 1 \in Nat
        /\ {"failed", "done", "pending"} \subseteq Statuses
    BY <1>t DEF TypeOK, Statuses
  <2>2. work[t] # "none"
    BY <1>6 DEF Judged
  <2> QED
    BY <1>6, <2>1, <2>2, CommitStep DEF Judged
<1>7. CASE ScanMarks
  BY <1>7, <1>t DEF QueueInv, TypeOK, ScoredWithOutcomes, ScanMarks, taskVars, BoardStep, Waiting,
     GivingUp, Over, Abandoned
<1>8. CASE SalvageAbandons
  BY <1>8 DEF QueueInv, Abandoning, SalvageAbandons, BoardStep, Abandoned
<1>9. CASE UNCHANGED <<status, run, used>>
  BY <1>9, <1>s, QuietStep
<1>10. CASE RoundRaises \/ ScanSees \/ SalvageReads \/ ScanRaises \/ Crash
  BY <1>9, <1>10 DEF RoundRaises, ScanSees, SalvageReads, ScanRaises, Crash, taskVars, runVars
<1>11. ASSUME NEW t \in Tasks,
              BeginJudging(t) \/ JudgingRaises(t) \/ LeaseExpires(t) \/ BackoffPasses(t)
       PROVE  BoardStep
  BY <1>9, <1>11 DEF BeginJudging, JudgingRaises, LeaseExpires, BackoffPasses, taskVars, runVars
<1>12. CASE UNCHANGED vars
  BY <1>9, <1>12 DEF vars
<1> QED
  BY <1>1, <1>2, <1>3, <1>4, <1>5, <1>6, <1>7, <1>8, <1>10, <1>11, <1>12 DEF Next

\* What the board may do is allowed by its specification.
LEMMA BoardStepAllowed ==
    ASSUME QueueInv, BoardStep
    PROVE  [Board!Next]_(Board!boardVars)
<1> USE DEF Owed, Shown
<1>1. CASE Waiting
  <2>1. Owed(status)' \in [Tasks -> {"open", "done", "failed"}]
    BY <1>1 DEF Waiting, IsClosed
  <2>2. Owed(used)' = Owed(used) /\ run' = run
    BY <1>1 DEF Waiting
  <2>3. \A t \in Tasks : Owed(status)[t] # "open" => Owed(status)'[t] = Owed(status)[t]
    BY <1>1 DEF Waiting, IsClosed
  <2>4. \E new \in [Tasks -> {"open", "done", "failed"}] : Board!Answer(new)
    <3>1. PICK new \in [Tasks -> {"open", "done", "failed"}] : new = Owed(status)'
      BY <2>1
    <3>2. Board!Answer(new)
      BY <1>1, <2>2, <2>3, <3>1 DEF Waiting, Board!Answer
    <3> QED
      BY <3>2
  <2> QED
    BY <2>4 DEF Board!Next
<1>2. CASE Scoring
  <2>1. \A t \in Tasks : Owed(status)[t] # "open"
    BY <1>2 DEF Scoring, AllClosed, IsClosed
  <2>2. Owed(used)' = Owed(status) /\ Owed(status)' = Owed(status)
    BY <1>2 DEF Scoring
  <2> QED
    BY <1>2, <2>1, <2>2 DEF Scoring, Board!Publish, Board!Next
<1>3. CASE GivingUp
  <2>1. Owed(used) = Board!AllOpen
    BY <1>3 DEF GivingUp, QueueInv, Unscored, NoTasks, IsClosed, Board!AllOpen
  <2>2. Owed(used)' = Board!AllOpen /\ Owed(status)' = Board!AllOpen
    BY <1>3 DEF GivingUp, Board!AllOpen
  <2> QED
    BY <1>3, <2>1, <2>2 DEF GivingUp, Board!GiveUp, Board!Next
<1>4. CASE Over
  BY <1>4 DEF Over, Board!boardVars
<1>5. CASE Abandoned
  BY <1>5 DEF Abandoned, Board!boardVars
<1> QED
  BY <1>1, <1>2, <1>3, <1>4, <1>5 DEF BoardStep

(* The queue implements the board: one answer per task while the run waits, and a  *)
(* score made of all of them.                                                      *)
THEOREM QueueImplementsBoard == Spec => ImplementsBoard
<1>1. Init => Board!Init
  BY DEF Init, NoTasks, Board!Init, Board!AllOpen, Owed, Shown, IsClosed
<1>2. QueueInv /\ [Next]_vars => [Board!Next]_(Board!boardVars)
  BY EveryStepOnBoard, BoardStepAllowed
<1> QED
  BY <1>1, <1>2, QueueInvariant, PTL DEF Spec, ImplementsBoard, Board!Spec
-----------------------------------------------------------------------------
\* The coroutines, and those that a failed round has left behind.
Working == {t \in Tasks : work[t] # "none"}
Strays  == Working \ batch

CountInv ==
    /\ TypeOK
    /\ Cardinality(batch) <= Batch
    /\ Cardinality(Strays) <= faults * (Batch - 1)

\* Sets of tasks are finite.
LEMMA TaskSetsFinite ==
    \A S \in SUBSET Tasks : IsFiniteSet(S) /\ Cardinality(S) \in Nat
BY FS_Subset, FS_CardinalityType, QueueAssumption DEF QueueAssumption

\* A subset has no more tasks.
LEMMA SmallerSet ==
    ASSUME NEW S \in SUBSET Tasks, NEW T \in SUBSET S
    PROVE  Cardinality(T) <= Cardinality(S)
BY TaskSetsFinite, FS_Subset

\* Disjoint sets of tasks add up.
LEMMA DisjointUnion ==
    ASSUME NEW S \in SUBSET Tasks, NEW T \in SUBSET Tasks, S \cap T = {}
    PROVE  Cardinality(S \cup T) = Cardinality(S) + Cardinality(T)
<1>1. Cardinality(S \cup T) = Cardinality(S) + Cardinality(T) - Cardinality(S \cap T)
  BY TaskSetsFinite, FS_Union
<1>2. Cardinality(S \cap T) = 0
  BY FS_EmptySet
<1>3. Cardinality(S) \in Nat /\ Cardinality(T) \in Nat
  BY TaskSetsFinite
<1> QED
  BY <1>1, <1>2, <1>3

\* One fault more allows one batch less its own task more.
LEMMA OneFaultMore ==
    ASSUME NEW f \in Nat, NEW b \in Nat \ {0}
    PROVE  f * (b - 1) \in Nat /\ (f + 1) * (b - 1) = f * (b - 1) + (b - 1)
<1> DEFINE c == b - 1
<1>1. c \in Nat
  OBVIOUS
<1> HIDE DEF c
<1>2. f * c \in Nat
  BY <1>1
<1>3. (f + 1) * c = f * c + c
  BY <1>1
<1> QED
  BY <1>2, <1>3 DEF c

\* Fewer strays, in a round that is no larger than allowed.
LEMMA NoMoreStrays ==
    ASSUME CountInv, TypeOK', Strays' \subseteq Strays, faults' \in {faults, faults + 1},
           Cardinality(batch') <= Batch
    PROVE  CountInv'
<1>1. Strays' \in SUBSET Strays /\ Strays \in SUBSET Tasks /\ Strays' \in SUBSET Tasks
  BY DEF Strays, Working
<1>2. /\ Cardinality(Strays') <= Cardinality(Strays)
      /\ Cardinality(Strays') \in Nat /\ Cardinality(Strays) \in Nat
  BY <1>1, SmallerSet, TaskSetsFinite
<1>3. faults \in Nat /\ Batch \in Nat \ {0}
  BY QueueAssumption DEF QueueAssumption, CountInv, TypeOK
<1>4. /\ faults * (Batch - 1) \in Nat /\ faults' * (Batch - 1) \in Nat
      /\ faults * (Batch - 1) <= faults' * (Batch - 1)
  <2>1. faults * (Batch - 1) \in Nat
    BY <1>3, OneFaultMore
  <2>2. (faults + 1) * (Batch - 1) = faults * (Batch - 1) + (Batch - 1)
    BY <1>3, OneFaultMore
  <2> DEFINE f == faults * (Batch - 1)
             g == (faults + 1) * (Batch - 1)
  <2>3. g = f + (Batch - 1) /\ f \in Nat
    BY <2>1, <2>2
  <2>4. faults' * (Batch - 1) = f \/ faults' * (Batch - 1) = g
    OBVIOUS
  <2> HIDE DEF f, g
  <2>5. g \in Nat /\ f <= g
    BY <1>3, <2>3
  <2> QED
    BY <2>3, <2>4, <2>5 DEF f, g
<1> QED
  BY <1>2, <1>4 DEF CountInv

\* A round that fails by one of its coroutines leaves the others behind.
LEMMA RoundLeftBehind ==
    ASSUME CountInv, TypeOK', NEW t \in batch, work[t] # "none",
           Working' = Working \ {t}, batch' = {}, faults' = faults + 1
    PROVE  CountInv'
<1>1. /\ Strays \in SUBSET Tasks /\ batch \in SUBSET Tasks /\ t \in Tasks
      /\ batch \ {t} \in SUBSET Tasks
  BY DEF CountInv, TypeOK, Strays, Working
<1>2. /\ Strays' \in SUBSET (Strays \cup (batch \ {t}))
      /\ Strays \cap (batch \ {t}) = {}
  BY DEF Strays
<1>3. /\ IsFiniteSet(Strays) /\ IsFiniteSet(batch \ {t}) /\ IsFiniteSet(batch)
      /\ Cardinality(Strays) \in Nat /\ Cardinality(batch \ {t}) \in Nat
      /\ Cardinality(batch) \in Nat /\ Cardinality(Strays') \in Nat
  BY <1>1, <1>2, TaskSetsFinite
<1>4. Cardinality(batch \ {t}) = Cardinality(batch) - 1
  BY <1>3, FS_RemoveElement
<1>5. Cardinality(Strays \cup (batch \ {t})) = Cardinality(Strays) + Cardinality(batch \ {t})
  BY <1>1, <1>2, DisjointUnion
<1>6. Cardinality(Strays') <= Cardinality(Strays \cup (batch \ {t}))
  BY <1>1, <1>2, SmallerSet
<1>7. /\ faults \in Nat /\ Batch \in Nat \ {0}
      /\ Cardinality(Strays) <= faults * (Batch - 1) /\ Cardinality(batch) <= Batch
  BY QueueAssumption DEF QueueAssumption, CountInv, TypeOK
<1>8. /\ faults * (Batch - 1) \in Nat
      /\ (faults + 1) * (Batch - 1) = faults * (Batch - 1) + (Batch - 1)
  BY <1>7, OneFaultMore
<1>9. Cardinality(Strays') <= (faults + 1) * (Batch - 1)
  BY <1>3, <1>4, <1>5, <1>6, <1>7, <1>8
<1>10. Cardinality(batch') <= Batch
  BY <1>7, FS_EmptySet
<1> QED
  BY <1>9, <1>10 DEF CountInv

\* Every step keeps the invariant behind the counts.
LEMMA CountStep == CountInv /\ [Next]_vars => CountInv'
<1> SUFFICES ASSUME CountInv, [Next]_vars PROVE CountInv'
  OBVIOUS
<1>t. TypeOK /\ TypeOK' /\ Cardinality(batch) <= Batch
  BY TypeStep DEF CountInv
<1>e. Cardinality({}) <= Batch
  BY FS_EmptySet, QueueAssumption DEF QueueAssumption
<1>1. CASE UNCHANGED <<work, batch, faults>>
  BY <1>1, <1>t, NoMoreStrays DEF Strays, Working
<1>2. CASE Reclaim \/ Reject \/ ScoreCalled \/ ScanSees \/ ScanMarks \/ SalvageReads
           \/ SalvageAbandons \/ UNCHANGED vars
  <2>1. CASE Reject
    <3>1. UNCHANGED <<work, batch, faults>>
      BY <2>1, <1>t DEF Reject, TypeOK
    <3> QED
      BY <1>1, <3>1
  <2> QED
    BY <1>1, <1>2, <2>1 DEF Reclaim, ScoreCalled, ScanSees, ScanMarks, SalvageReads,
       SalvageAbandons, vars
<1>3. CASE Claim
  <2>1. PICK S \in Batches :
            /\ work' = [t \in Tasks |-> IF t \in S THEN "claimed" ELSE work[t]]
            /\ batch' = S
    BY <1>3 DEF Claim
  <2>2. Cardinality(S) <= Batch
    BY <2>1, TaskSetsFinite, QueueAssumption DEF Batches, QueueAssumption
  <2>3. batch = {} /\ faults' = faults
    BY <1>3, <1>t DEF Claim, TypeOK
  <2>4. Strays' \subseteq Strays
    BY <2>1, <2>3 DEF Strays, Working
  <2> QED
    BY <1>t, <2>1, <2>2, <2>3, <2>4, NoMoreStrays
<1>4. CASE EndRound
  <2>1. batch' = {} /\ work' = work /\ faults' = faults
    BY <1>4 DEF EndRound
  <2>2. Strays' \subseteq Strays
    BY <1>4, <2>1 DEF EndRound, Strays, Working
  <2> QED
    BY <1>t, <1>e, <2>1, <2>2, NoMoreStrays
<1>5. CASE RoundRaises
  <2>1. /\ batch' = {} /\ faults' = faults + 1
        /\ work' = [t \in Tasks |-> IF t \in batch THEN "none" ELSE work[t]]
    BY <1>5 DEF RoundRaises
  <2>2. Strays' \subseteq Strays
    BY <2>1 DEF Strays, Working
  <2> QED
    BY <1>t, <1>e, <2>1, <2>2, NoMoreStrays
<1>6. CASE ScanRaises
  <2>1. UNCHANGED <<work, batch>> /\ faults' = faults + 1
    BY <1>6 DEF ScanRaises
  <2> QED
    BY <1>t, <2>1, NoMoreStrays DEF Strays, Working
<1>7. CASE Crash
  <2>1. work' = NoTasks /\ batch' = {} /\ faults' = faults + 1
    BY <1>7 DEF Crash
  <2> QED
    BY <1>t, <1>e, <2>1, NoMoreStrays DEF Strays, Working, NoTasks
<1>8. ASSUME NEW t \in Tasks,
             work' = [work EXCEPT ![t] = "none"], UNCHANGED <<batch, faults>>
      PROVE  CountInv'
  <2>1. Strays' \subseteq Strays
    BY <1>8, <1>t DEF Strays, Working, TypeOK
  <2> QED
    BY <1>8, <1>t, <2>1, NoMoreStrays
<1>9. ASSUME NEW t \in Tasks, BeginJudging(t) PROVE CountInv'
  <2>1. Strays' \subseteq Strays
    BY <1>9, <1>t DEF BeginJudging, Strays, Working, TypeOK
  <2> QED
    BY <1>9, <1>t, <2>1, NoMoreStrays DEF BeginJudging
<1>10. ASSUME NEW t \in Tasks, Unjudgeable(t) \/ Judged(t) PROVE CountInv'
  BY <1>8, <1>10 DEF Unjudgeable, Judged, Commit
<1>11. ASSUME NEW t \in Tasks, JudgingRaises(t) PROVE CountInv'
  <2>1. /\ work' = [work EXCEPT ![t] = "none"] /\ work[t] # "none"
        /\ faults' = faults + 1
    BY <1>11 DEF JudgingRaises
  <2>2. Working' = Working \ {t}
    BY <2>1, <1>t DEF Working, TypeOK
  <2>3. CASE t \in batch
    <3>1. batch' = {}
      BY <1>11, <2>3 DEF JudgingRaises
    <3> QED
      BY <1>t, <2>1, <2>2, <2>3, <3>1, RoundLeftBehind
  <2>4. CASE t \notin batch
    <3>1. batch' = batch
      BY <1>11, <2>4 DEF JudgingRaises
    <3> QED
      BY <1>t, <2>1, <2>2, <3>1, NoMoreStrays DEF Strays
  <2> QED
    BY <2>3, <2>4
<1>12. ASSUME NEW t \in Tasks, LeaseExpires(t) \/ BackoffPasses(t) PROVE CountInv'
  BY <1>1, <1>12 DEF LeaseExpires, BackoffPasses
<1> QED
  BY <1>2, <1>3, <1>4, <1>5, <1>6, <1>7, <1>9, <1>10, <1>11, <1>12 DEF Next

(* judge_concurrency bounds the coroutines, plus Batch - 1 for each fault.       *)
THEOREM ConcurrencyKept == Spec => []JudgedAtATime
<1>1. Init => CountInv
  <2> SUFFICES ASSUME Init PROVE CountInv
    OBVIOUS
  <2>1. batch = {} /\ Strays = {} /\ faults = 0
    BY DEF Init, Strays, Working, NoTasks
  <2>2. Batch - 1 \in Nat /\ 0 * (Batch - 1) = 0 /\ 0 <= Batch
    BY QueueAssumption DEF QueueAssumption
  <2>3. Cardinality(batch) = 0 /\ Cardinality(Strays) = 0
    BY <2>1, FS_EmptySet
  <2>4. TypeOK
    BY TypeInit
  <2>5. faults * (Batch - 1) = 0
    BY <2>1, <2>2
  <2> QED
    BY <2>2, <2>3, <2>4, <2>5 DEF CountInv
<1>2. CountInv => JudgedAtATime
  <2> SUFFICES ASSUME CountInv PROVE Cardinality(Working) <= Batch + faults * (Batch - 1)
    BY DEF JudgedAtATime, Working
  <2>1. /\ Working \in SUBSET (Strays \cup batch) /\ Strays \cap batch = {}
        /\ Strays \in SUBSET Tasks /\ batch \in SUBSET Tasks
    BY DEF Strays, Working, CountInv, TypeOK
  <2>2. /\ IsFiniteSet(Strays) /\ IsFiniteSet(batch) /\ Cardinality(Strays) \in Nat
        /\ Cardinality(batch) \in Nat /\ Cardinality(Working) \in Nat
    BY <2>1, TaskSetsFinite
  <2>3. Cardinality(Strays \cup batch) = Cardinality(Strays) + Cardinality(batch)
    BY <2>1, DisjointUnion
  <2>4. Cardinality(Working) <= Cardinality(Strays \cup batch)
    BY <2>1, SmallerSet
  <2>5. /\ faults * (Batch - 1) \in Nat /\ Batch \in Nat
        /\ Cardinality(Strays) <= faults * (Batch - 1) /\ Cardinality(batch) <= Batch
    BY OneFaultMore, QueueAssumption DEF QueueAssumption, CountInv, TypeOK
  <2> QED
    BY <2>2, <2>3, <2>4, <2>5
<1> QED
  BY <1>1, <1>2, CountStep, PTL DEF Spec
=============================================================================
