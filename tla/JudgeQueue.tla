---------------------------- MODULE JudgeQueue ----------------------------
(***************************************************************************)
(* The judge tasks of one run and everybody who writes them: the worker's   *)
(* rounds (reclaim, claim, judge, score), the coroutine that judges a task, *)
(* score_run, which creates the tasks and ends the run, and the scanner,    *)
(* whose salvage abandons what is left.                                     *)
(*                                                                          *)
(* A coroutine flushes its first update before it judges: it holds the row  *)
(* lock of its task until it commits the outcome, and the longer lease it   *)
(* asks for is seen by nobody. A claim's lease is assumed to outlast the    *)
(* judging of a task, as it does with the default configuration.            *)
(***************************************************************************)
EXTENDS Naturals, FiniteSets

CONSTANTS
    Tasks,      \* the judge tasks of the run
    Batch,      \* judge_concurrency: at most so many are claimed in a round
    Repeat,     \* judge_repeat
    MaxRetries, \* judge_max_retries
    MaxFaults   \* bound on crashes and exceptions

ASSUME QueueAssumption ==
    /\ IsFiniteSet(Tasks)
    /\ Batch \in Nat \ {0} /\ Repeat \in Nat \ {0}
    /\ MaxRetries \in Nat /\ MaxFaults \in Nat

VARIABLES
    status,   \* judge_task.status; "none" before score_run creates the row
    attempts, \* judge_task.attempts
    lease,    \* judge_task.lease_until: "none", "live", "expired"
    due,      \* next_retry_at is empty or has passed
    run,      \* eval_run.status
    used,     \* the outcomes the run was scored with
    round,    \* where the worker's loop stands
    batch,    \* the tasks its gather waits for
    work,     \* the coroutine of a task
    scan,     \* where the scanner stands with this run
    seen,     \* the statuses its salvage read
    faults    \* crashes and exceptions so far

taskVars == <<status, attempts, lease, due>>
runVars  == <<run, used>>
scanVars == <<scan, seen>>
vars     == <<status, attempts, lease, due, run, used, round, batch, work, scan, seen, faults>>

Statuses == {"none", "pending", "processing", "done", "failed"}
NoTasks  == [t \in Tasks |-> "none"]

IsActive(s) == s \in {"pending", "processing"}
IsClosed(s) == s \in {"done", "failed"}
NoneActive  == \A t \in Tasks : ~IsActive(status[t])
AllClosed   == \A t \in Tasks : IsClosed(status[t])
-----------------------------------------------------------------------------
(* The samples of one task.                                                *)

Samples == [1..Repeat -> {"verdict", "refusal", "error", "permanent"}]

\* done_threshold_for: a majority needs two verdicts.
DoneThreshold ==
    IF Repeat = 1 THEN 1 ELSE IF (Repeat + 1) \div 2 > 2 THEN (Repeat + 1) \div 2 ELSE 2
Enough(s) == Cardinality({i \in 1..Repeat : s[i] = "verdict"}) >= DoneThreshold

\* last_error is the one that counts; a refusal is an error that is not permanent.
LastIsPermanent(s) ==
    \E i \in 1..Repeat :
        /\ s[i] = "permanent"
        /\ \A j \in (i + 1)..Repeat : s[j] = "verdict"
AllRefused(s)  == \A i \in 1..Repeat : s[i] = "refusal"
Hopeless(s)    == AllRefused(s) \/ LastIsPermanent(s)
-----------------------------------------------------------------------------
Init ==
    /\ status = NoTasks
    /\ attempts = [t \in Tasks |-> 0]
    /\ lease = NoTasks
    /\ due = [t \in Tasks |-> TRUE]
    /\ run = "scoring"
    /\ used = NoTasks
    /\ round = "idle" /\ batch = {}
    /\ work = NoTasks
    /\ scan = "idle" /\ seen = NoTasks
    /\ faults = 0

\* Mutation: the first outcome is enough.
ScoresEarly == \E t \in Tasks : IsClosed(status[t])
\* No task is pending or processing.
MayPublish == AllClosed

\* score_run under the run's row lock: creates the tasks that are missing, else scores
\* the run if no task is open.
ScoreRun ==
    IF run = "scoring" /\ \E t \in Tasks : status[t] = "none"
    THEN /\ status' = [t \in Tasks |-> IF status[t] = "none" THEN "pending" ELSE status[t]]
         /\ UNCHANGED runVars
    ELSE /\ UNCHANGED status
         /\ IF run = "scoring" /\ MayPublish
            THEN run' = "completed" /\ used' = status
            ELSE UNCHANGED runVars
-----------------------------------------------------------------------------
(* A round of the worker.                                                  *)

\* Mutation: leases never run out.
NeverStale(t) == FALSE
\* A dead worker left it.
Stale(t) == status[t] = "processing" /\ lease[t] = "expired"

Reclaim ==
    /\ round = "idle"
    /\ round' = "reclaimed"
    /\ status' = [t \in Tasks |-> IF Stale(t) THEN "pending" ELSE status[t]]
    /\ lease' = [t \in Tasks |-> IF Stale(t) THEN "none" ELSE lease[t]]
    /\ attempts' = [t \in Tasks |-> IF Stale(t) THEN attempts[t] + 1 ELSE attempts[t]]
    /\ UNCHANGED <<due, runVars, batch, work, scanVars, faults>>

\* The batches a round may claim: Batch tasks that are due, or all if there are fewer.
Batches ==
    LET ready == {t \in Tasks : status[t] = "pending" /\ due[t]}
    IN {S \in SUBSET ready : Cardinality(S) = Batch \/ (S = ready /\ Cardinality(S) < Batch)}

\* now + _DEFAULT_LEASE.
ClaimLease == "live"

Claim ==
    /\ round = "reclaimed"
    /\ \E S \in Batches :
        /\ status' = [t \in Tasks |-> IF t \in S THEN "processing" ELSE status[t]]
        /\ lease' = [t \in Tasks |-> IF t \in S THEN ClaimLease ELSE lease[t]]
        /\ work' = [t \in Tasks |-> IF t \in S THEN "claimed" ELSE work[t]]
        /\ batch' = S
        /\ round' = IF S = {} THEN "idle" ELSE "gather"
    /\ UNCHANGED <<attempts, due, runVars, scanVars, faults>>

\* Mutation: everything without a result.
NotDone(t) == status[t] \in {"pending", "processing"}
Waits(t) == status[t] = "pending"

\* The judge's host is not in the allowlist: whatever waits has failed.
Reject ==
    /\ round = "reclaimed"
    /\ \E t \in Tasks : Waits(t)
    /\ status' = [t \in Tasks |-> IF Waits(t) THEN "failed" ELSE status[t]]
    /\ lease' = [t \in Tasks |-> IF Waits(t) THEN "none" ELSE lease[t]]
    /\ round' = "gather" /\ batch' = {}
    /\ UNCHANGED <<attempts, due, runVars, work, scanVars, faults>>

\* _run_judge_done and score_run.
EndRound ==
    /\ round = "gather"
    /\ \A t \in batch : work[t] = "none"
    /\ round' = "idle" /\ batch' = {}
    /\ ScoreRun
    /\ UNCHANGED <<attempts, lease, due, work, scanVars, faults>>
-----------------------------------------------------------------------------
(* The coroutine of a task.                                                *)

\* The claim is written to the row, which stays locked until the outcome is committed.
BeginJudging(t) ==
    /\ work[t] = "claimed"
    /\ work' = [work EXCEPT ![t] = "judging"]
    /\ UNCHANGED <<taskVars, runVars, round, batch, scanVars, faults>>

\* The outcome and the end of the claim, in one commit.
Commit(t, s, a) ==
    /\ status' = [status EXCEPT ![t] = s]
    /\ attempts' = [attempts EXCEPT ![t] = a]
    /\ due' = [due EXCEPT ![t] = s # "pending"]
    /\ lease' = [lease EXCEPT ![t] = "none"]
    /\ work' = [work EXCEPT ![t] = "none"]
    /\ UNCHANGED <<runVars, round, batch, scanVars, faults>>

\* The result is gone or is a technical failure: nothing to judge.
Unjudgeable(t) == work[t] = "claimed" /\ Commit(t, "failed", attempts[t])

GivesUp(t, s) == attempts[t] + 1 >= MaxRetries \/ Hopeless(s)

Judged(t) ==
    /\ work[t] = "judging"
    /\ \E s \in Samples :
        \/ Enough(s) /\ Commit(t, "done", attempts[t])
        \/ ~Enough(s) /\ GivesUp(t, s) /\ Commit(t, "failed", attempts[t] + 1)
        \/ ~Enough(s) /\ ~GivesUp(t, s) /\ Commit(t, "pending", attempts[t] + 1)

\* The database fails the coroutine; its handler's commit fails with it. gather passes
\* the exception on at once and the other coroutines go on by themselves.
JudgingRaises(t) ==
    /\ work[t] # "none" /\ faults < MaxFaults
    /\ work' = [work EXCEPT ![t] = "none"]
    /\ IF t \in batch THEN round' = "idle" /\ batch' = {} ELSE UNCHANGED <<round, batch>>
    /\ faults' = faults + 1
    /\ UNCHANGED <<taskVars, runVars, scanVars>>

\* Any other exception in a round, before its coroutines have begun or after all of
\* them have ended.
RoundRaises ==
    /\ round # "idle" /\ faults < MaxFaults
    /\ (\A t \in batch : work[t] = "claimed") \/ (\A t \in batch : work[t] = "none")
    /\ work' = [t \in Tasks |-> IF t \in batch THEN "none" ELSE work[t]]
    /\ round' = "idle" /\ batch' = {}
    /\ faults' = faults + 1
    /\ UNCHANGED <<taskVars, runVars, scanVars>>
-----------------------------------------------------------------------------
(* The scanner and the end of the run's execution.                         *)

\* score_run called by _finish, or by the scanner because no task is active.
ScoreCalled ==
    /\ scan = "idle" /\ run = "scoring" /\ NoneActive
    /\ ScoreRun
    /\ UNCHANGED <<attempts, lease, due, round, batch, work, scanVars, faults>>

\* The scanner's snapshot shows a run that has been in scoring for too long.
ScanSees ==
    /\ scan = "idle" /\ run = "scoring" /\ NoneActive
    /\ scan' = "saw"
    /\ UNCHANGED <<taskVars, runVars, round, batch, work, seen, faults>>

\* The conditional update.
ScanMarks ==
    /\ scan = "saw"
    /\ IF run = "scoring"
       THEN run' = "scoring_failed" /\ scan' = "salvage"
       ELSE scan' = "idle" /\ UNCHANGED run
    /\ UNCHANGED <<taskVars, used, round, batch, work, seen, faults>>

SalvageReads ==
    /\ scan = "salvage"
    /\ seen' = status
    /\ scan' = "read"
    /\ UNCHANGED <<taskVars, runVars, round, batch, work, faults>>

\* It waits for the rows it read as active, if a coroutine has them locked, and scores
\* with what it read.
SalvageAbandons ==
    /\ scan = "read"
    /\ \A t \in Tasks : IsActive(seen[t]) => work[t] # "judging"
    /\ LET left == [t \in Tasks |-> IF IsActive(seen[t]) THEN "failed" ELSE seen[t]]
       IN /\ status' = [t \in Tasks |-> IF IsActive(seen[t]) THEN "failed" ELSE status[t]]
          /\ used' = left
    /\ lease' = [t \in Tasks |-> IF seen[t] = "processing" THEN "none" ELSE lease[t]]
    /\ scan' = "idle" /\ seen' = NoTasks
    /\ UNCHANGED <<attempts, due, run, round, batch, work, faults>>

\* The lock wait times out, or any other exception ends the pass.
ScanRaises ==
    /\ scan # "idle" /\ faults < MaxFaults
    /\ scan' = "idle" /\ seen' = NoTasks
    /\ faults' = faults + 1
    /\ UNCHANGED <<taskVars, runVars, round, batch, work>>
-----------------------------------------------------------------------------
LeaseExpires(t) ==
    /\ status[t] = "processing" /\ lease[t] = "live" /\ work[t] = "none"
    /\ lease' = [lease EXCEPT ![t] = "expired"]
    /\ UNCHANGED <<status, attempts, due, runVars, round, batch, work, scanVars, faults>>

BackoffPasses(t) ==
    /\ ~due[t]
    /\ due' = [due EXCEPT ![t] = TRUE]
    /\ UNCHANGED <<status, attempts, lease, runVars, round, batch, work, scanVars, faults>>

\* The process ends and starts again: open transactions are rolled back.
Crash ==
    /\ faults < MaxFaults
    /\ faults' = faults + 1
    /\ round' = "idle" /\ batch' = {}
    /\ work' = NoTasks
    /\ scan' = "idle" /\ seen' = NoTasks
    /\ UNCHANGED <<taskVars, runVars>>

Next ==
    \/ Reclaim \/ Claim \/ Reject \/ EndRound \/ RoundRaises
    \/ \E t \in Tasks :
        BeginJudging(t) \/ Unjudgeable(t) \/ Judged(t) \/ JudgingRaises(t)
    \/ ScoreCalled \/ ScanSees \/ ScanMarks \/ SalvageReads \/ SalvageAbandons \/ ScanRaises
    \/ \E t \in Tasks : LeaseExpires(t) \/ BackoffPasses(t)
    \/ Crash

Spec == Init /\ [][Next]_vars

(* The loops go on, calls of the judge return, time passes.                *)
Fairness ==
    /\ WF_vars(Reclaim) /\ WF_vars(Claim \/ Reject) /\ WF_vars(EndRound)
    /\ \A t \in Tasks : WF_vars(BeginJudging(t) \/ Unjudgeable(t)) /\ WF_vars(Judged(t))
    /\ \A t \in Tasks : WF_vars(LeaseExpires(t)) /\ WF_vars(BackoffPasses(t))
    /\ WF_vars(ScoreCalled)
    /\ WF_vars(ScanMarks \/ SalvageReads \/ SalvageAbandons)

FairSpec == Spec /\ Fairness
-----------------------------------------------------------------------------
(* Types, with what a row may look like in each status while the run is scored. *)
TypeOK ==
    /\ status \in [Tasks -> Statuses]
    /\ attempts \in [Tasks -> Nat]
    /\ lease \in [Tasks -> {"none", "live", "expired"}]
    /\ due \in [Tasks -> BOOLEAN]
    /\ run \in {"scoring", "completed", "scoring_failed"}
    /\ used \in [Tasks -> Statuses]
    /\ round \in {"idle", "reclaimed", "gather"}
    /\ batch \in SUBSET Tasks
    /\ work \in [Tasks -> {"none", "claimed", "judging"}]
    /\ scan \in {"idle", "saw", "salvage", "read"}
    /\ seen \in [Tasks -> Statuses]
    /\ faults \in 0..MaxFaults
    /\ \A t \in Tasks : status[t] = "processing" => lease[t] # "none"
    /\ round # "gather" => batch = {}

(* Unless scoring was given up, a task that a coroutine works on is its own: nobody   *)
(* reclaims, abandons, answers or claims it again meanwhile.                         *)
WorkedOnIsOwned ==
    run # "scoring_failed" =>
        \A t \in Tasks : work[t] # "none" => status[t] = "processing" /\ lease[t] = "live"

(* judge_concurrency bounds the tasks judged at a time, but for the coroutines that  *)
(* a failed round leaves behind: each fault lets at most Batch - 1 of them go on.     *)
JudgedAtATime ==
    Cardinality({t \in Tasks : work[t] # "none"}) <= Batch + faults * (Batch - 1)

(* A completed run was scored with the outcome of every task, and none of them has    *)
(* changed since, whichever of the three callers of score_run came first.            *)
ScoredWithOutcomes == run = "completed" => AllClosed /\ used = status

(* A task that has used up its attempts is closed; a reclaim counts as an attempt, so *)
(* that a task that kills the process each time comes to an end as well.             *)
ExhaustedIsClosed ==
    \A t \in Tasks : attempts[t] >= MaxRetries /\ MaxRetries > 0 => IsClosed(status[t])

(* The queue is a board of outcomes.                                                  *)
Shown(f) == [t \in Tasks |-> IF IsClosed(f[t]) THEN f[t] ELSE "open"]
Owed(f) == IF run = "scoring_failed" THEN [t \in Tasks |-> "open"] ELSE Shown(f)
Board == INSTANCE JudgeBoard WITH outcome <- Owed(status), score <- Owed(used), run <- run

(* Each task is answered once and for all while the run waits for it, across retries, *)
(* reclaims, crashes and racing scorers, and the run is scored with these answers.    *)
ImplementsBoard == Board!Spec

(* Whatever fails, no task stays open and the run leaves scoring.                     *)
QueueDrains == <>[](NoneActive /\ run # "scoring")
===========================================================================
