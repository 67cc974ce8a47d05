---------------------------- MODULE RunLifecycle ----------------------------
(***************************************************************************)
(* The life of ONE evaluation run: the eval_run row and its eval_result    *)
(* rows in the database, and the actors of the (single) process that race  *)
(* on them:                                                                *)
(*   - the orchestrator task of the run (variable main),                   *)
(*   - one coroutine per case, gathered by that task (task, saving),       *)
(*   - the heartbeat task (hb),                                            *)
(*   - the scanner pass that reaps and salvages runs (scan, missing),      *)
(*   - score_run, entered by the orchestrator, the judge worker and the    *)
(*     scanner (scoring),                                                  *)
(*   - the cancel endpoint (cancelling),                                   *)
(*   - a crash of the process, which loses everything but the database.    *)
(*                                                                         *)
(* A step is the code between two awaits, or a database transaction that   *)
(* holds the row lock of the run from its first read to its commit.        *)
(* A write that does not lock first is a step of its own: what the code    *)
(* read before it may be out of date by then.                              *)
(***************************************************************************)
EXTENDS Naturals, FiniteSets

CONSTANTS
    Cases,         \* the cases of the suite, or of the run's case_ids, active or not
    Kind,          \* trigger_type: "manual" (held_out is alike) or "error_regression"
    JudgeModes,    \* what score_run may find: a subset of {TRUE, FALSE}, judge configured or not
    MaxFaults,     \* bound: crashes of the process and failures of the scanner's pass
    MaxRetries,    \* max_retries: further attempts of _call_once for one sample
    MaxRequests    \* bound: calls of the cancel endpoint, and edits that retire a case or
                   \* make it active again

ASSUME RunAssumption ==
    /\ IsFiniteSet(Cases) /\ Cases # {}
    /\ Kind \in {"manual", "error_regression"}
    /\ JudgeModes \subseteq BOOLEAN /\ JudgeModes # {}
    /\ MaxRetries \in Nat
    /\ MaxFaults \in Nat /\ MaxRequests \in Nat

VARIABLES
    \* -- the database
    status,        \* eval_run.status
    total,         \* eval_run.total_case
    counts,        \* eval_run.{pass,fail,na,error}_case
    scored,        \* eval_run.agent_score IS NOT NULL
    result,        \* eval_result.pass_fail per case, "none" = no row
    judge,         \* the run's judge tasks: "none", "open" (pending/processing), "closed"
    leaseExpired,  \* eval_run.lease_until lies in the past (grace included)
    overdue,       \* eval_run.hard_deadline lies in the past
    active,        \* the cases _load_run_cases would give now
    \* -- the process
    main,          \* where the orchestrator task of the run stands
    plan,          \* the cases it loaded: one coroutine each, started once
    task,          \* where the coroutine of each case stands
    calls,         \* the calls of the agent made for the sample under way
    saving,        \* the verdict a case coroutine is about to insert
    hb,            \* the heartbeat task runs
    client,        \* the run's HTTP client is open
    cancelFlag,    \* orchestrator._cancel[run_id]
    cancelling,    \* a cancel request has read an active status and not committed yet
    scan,          \* where the scanner's pass stands with this run
    missing,       \* the cases the salvage found without a result
    scoring,       \* who is past score_run's commit of the judge tasks, its lock given up
    pushed,        \* fire_push was called for the run
    signalled,     \* fire_auto_schedule was called for the run
    faults, requests

dbVars   == <<status, total, counts, scored, result, judge>>
timeVars == <<leaseExpired, overdue>>
caseVars == <<active, plan>>
taskVars == <<task, calls, saving>>
memVars  == <<hb, client, cancelFlag>>
scanVars == <<scan, missing>>
outVars  == <<pushed, signalled>>
envVars  == <<faults, requests>>
vars == <<dbVars, timeVars, caseVars, main, taskVars, memVars, cancelling, scanVars,
          scoring, outVars, envVars>>

-----------------------------------------------------------------------------
IsError  == Kind = "error_regression"
Executing == {"pending", "running"}                        \* _MUTEX_STATUS
Active   == {"pending", "running", "scoring"}              \* _ACTIVE_STATUS
External == {"timeout", "cancelled"}                       \* set by scanner / API
Terminal == {"scoring_failed", "completed", "partial_failed", "timeout", "cancelled"}
Verdicts == {"pass", "fail", "na", "error"}
Actors   == {"main", "worker", "scanner"}

Rows(res)     == {c \in Cases : res[c] # "none"}
Tally(res, v) == Cardinality({c \in Cases : res[c] = v})
NoCounts == [v \in Verdicts |-> 0]

\* What _finish stores: it does not know about "fail" yet and leaves it to the scorer.
FinishCounts(res) ==
    [v \in Verdicts |-> IF v = "fail" THEN 0 ELSE Tally(res, v)]
\* What the error run's own ending stores: 'error' is never counted.
ErrorCounts(res) ==
    [v \in Verdicts |-> IF v = "error" THEN 0 ELSE Tally(res, v)]
ScoreCounts(res) == [v \in Verdicts |-> Tally(res, v)]

\* Mutation: the reconciliation adds no row for what was never executed.
BackfilledNothing(res, v) == res

\* A reconciled result set: rows are added only when the run planned more than it has,
\* and then for the cases that are active now, planned or not.
Backfilled(res, v) ==
    [c \in Cases |-> IF c \in active /\ res[c] = "none" /\ Cardinality(Rows(res)) < total
                     THEN v ELSE res[c]]

\* What scoring may turn the executed rows into: 'error' rows and absent rows stay.
Rescored(res) ==
    {new \in [Cases -> Verdicts \cup {"none"}] :
        \A c \in Cases : IF res[c] \in {"none", "error"} THEN new[c] = res[c]
                         ELSE new[c] \in {"pass", "fail", "na"}}
\* The rows when scoring stopped half way.
PartlyRescored(res) ==
    {new \in [Cases -> Verdicts \cup {"none"}] :
        \E full \in Rescored(res) : \A c \in Cases : new[c] \in {res[c], full[c]}}
-----------------------------------------------------------------------------
Init ==
    /\ status = "pending"
    /\ total = IF IsError THEN Cardinality(Cases) ELSE 0
    /\ counts = NoCounts
    /\ scored = FALSE
    /\ result = [c \in Cases |-> "none"]
    /\ judge = "none"
    /\ leaseExpired = FALSE /\ overdue = FALSE
    /\ active \in IF IsError THEN {Cases} ELSE SUBSET Cases
    /\ plan = {}
    /\ main = "load"
    /\ calls = [c \in Cases |-> 0]
    /\ task = [c \in Cases |-> "idle"]
    /\ saving = [c \in Cases |-> "none"]
    /\ hb = FALSE /\ client = FALSE /\ cancelFlag = FALSE
    /\ cancelling = FALSE
    /\ scan = "idle" /\ missing = {}
    /\ scoring = {}
    /\ pushed = FALSE /\ signalled = FALSE
    /\ faults = 0 /\ requests = 0
-----------------------------------------------------------------------------
(* The orchestrator task: _run up to the first case.                       *)

\* The first session of _run reads the run, its agent and its cases.
LoadRun ==
    /\ main = "load"
    /\ plan' = active
    /\ main' \in {"reject_disabled", IF plan' = {} THEN "reject_empty" ELSE "claim"}
    /\ UNCHANGED <<dbVars, timeVars, active, taskVars, memVars, cancelling,
                   scanVars, scoring, outVars, envVars>>

\* Both rejections write the status they chose whatever the row holds by now.
RejectDisabled ==
    /\ main = "reject_disabled"
    /\ status' = "partial_failed"
    /\ main' = "none"
    /\ UNCHANGED <<total, counts, scored, result, judge, timeVars, caseVars, taskVars,
                   memVars, cancelling, scanVars, scoring, outVars, envVars>>

RejectEmpty ==
    /\ main = "reject_empty"
    /\ status' = IF IsError THEN "cancelled" ELSE "completed"
    /\ total' = 0
    /\ main' = "none"
    /\ UNCHANGED <<counts, scored, result, judge, timeVars, caseVars, taskVars, memVars,
                   cancelling, scanVars, scoring, outVars, envVars>>

\* UPDATE ... WHERE status = 'pending'; no row matched: give up without a trace.
\* Mutation: the claim forgets the condition on the status.
ClaimsAlways == TRUE
MayClaim == status = "pending"
ClaimRun ==
    /\ main = "claim"
    /\ IF MayClaim
       THEN /\ status' = "running"
            /\ total' = Cardinality(plan)
            /\ leaseExpired' = FALSE /\ overdue' = FALSE
            /\ main' = "dispatch"
       ELSE /\ main' = "none"
            /\ UNCHANGED <<status, total, timeVars>>
    /\ UNCHANGED <<counts, scored, result, judge, caseVars, taskVars, memVars,
                   cancelling, scanVars, scoring, outVars, envVars>>

\* _error_precheck_failures found a reason (unpinned, no case_ids, wrong suite).
FailPrecheck ==
    /\ main = "dispatch" /\ IsError
    /\ main' = "skip"
    /\ UNCHANGED <<dbVars, timeVars, caseVars, taskVars, memVars, cancelling, scanVars,
                   scoring, outVars, envVars>>

\* Under the row lock; a run that ended meanwhile keeps its status and its flag.
MarkErrorSkipped ==
    /\ main = "skip"
    /\ main' = "none"
    /\ IF status \in Executing
       THEN /\ status' = "partial_failed"
            /\ total' = 0
            /\ cancelFlag' = FALSE
       ELSE UNCHANGED <<status, total, cancelFlag>>
    /\ UNCHANGED <<counts, scored, result, judge, timeVars, caseVars, taskVars, hb,
                   client, cancelling, scanVars, scoring, outVars, envVars>>

\* The flag is looked at once, before the run's bucket and heartbeat exist.
Dispatch ==
    /\ main = "dispatch"
    /\ IF cancelFlag
       THEN main' = "none" /\ UNCHANGED hb
       ELSE main' = "prepare" /\ hb' = TRUE
    /\ UNCHANGED <<dbVars, timeVars, caseVars, taskVars, client, cancelFlag, cancelling,
                   scanVars, scoring, outVars, envVars>>

\* gather() starts one coroutine per loaded case; an error run skips the probe.
StartPlanned == task' = [c \in Cases |-> IF c \in plan THEN "ready" ELSE task[c]]
OpenClient ==
    /\ main = "prepare"
    /\ client' = TRUE
    /\ IF IsError
       THEN main' = "gather" /\ StartPlanned
       ELSE main' = "probe" /\ UNCHANGED task
    /\ UNCHANGED <<dbVars, timeVars, caseVars, calls, saving, hb, cancelFlag,
                   cancelling, scanVars, scoring, outVars, envVars>>

ProbePasses ==
    /\ main = "probe"
    /\ main' = "gather"
    /\ StartPlanned
    /\ UNCHANGED <<dbVars, timeVars, caseVars, calls, saving, memVars, cancelling,
                   scanVars, scoring, outVars, envVars>>

\* An interface misses the contract: partial_failed is written without a lock.
ProbeFails ==
    /\ main = "probe"
    /\ main' = "none"
    /\ status' = "partial_failed"
    /\ total' = 0
    /\ hb' = FALSE /\ client' = FALSE /\ cancelFlag' = FALSE
    /\ UNCHANGED <<counts, scored, result, judge, timeVars, caseVars, taskVars,
                   cancelling, scanVars, scoring, outVars, envVars>>
-----------------------------------------------------------------------------
(* The coroutine of a case: _run_one / _run_one_error, _execute_with_retry,  *)
(* _save_result. Slots and the breaker are modelled in modules of their own. *)

Move(c, from, to) == task[c] = from /\ task' = [task EXCEPT ![c] = to]
OnlyTask == UNCHANGED <<dbVars, timeVars, caseVars, main, memVars, cancelling, scanVars,
                        scoring, outVars, envVars>>

StartCase(c) ==
    /\ Move(c, "ready", IF cancelFlag THEN "done" ELSE "queued")
    /\ UNCHANGED <<calls, saving>> /\ OnlyTask

Prepared(c, v) ==
    /\ task' = [task EXCEPT ![c] = "check"]
    /\ saving' = [saving EXCEPT ![c] = v]

\* The verdict of a case that was not executed or failed technically.
NotJudged == IF IsError THEN "na" ELSE "error"
\* The verdict of a case that was: a manual run is marked pass and scored later.
Judged == IF IsError THEN {"pass", "fail"} ELSE {"pass"}

\* A slot was granted; the breaker or a disabled interface may refuse the call.
AdmitCase(c) ==
    /\ task[c] = "queued"
    /\ \/ Move(c, "queued", "executing") /\ UNCHANGED saving
       \/ Prepared(c, NotJudged)
    /\ UNCHANGED calls /\ OnlyTask

\* One sample: the flag is read at the head of every iteration, and nowhere else. What
\* follows waits for the agent's lock and resets its data before the first call.
\* Mutation: the flag is not looked at again once the case started.
SamplesAlways(c) == TRUE
MaySample(c) == ~cancelFlag
BeginSample(c) ==
    /\ Move(c, "executing", "sampling")
    /\ MaySample(c)
    /\ UNCHANGED <<calls, saving>> /\ OnlyTask

StopOnCancel(c) ==
    /\ Move(c, "executing", "done")
    /\ ~MaySample(c)
    /\ UNCHANGED <<calls, saving>> /\ OnlyTask

\* execute_case, the first time or again after a retryable failure and the backoff: the
\* agent is called whatever became of the run meanwhile.
CallAgent(c) ==
    /\ task[c] = "sampling" /\ calls[c] <= MaxRetries
    /\ calls' = [calls EXCEPT ![c] = @ + 1]
    /\ UNCHANGED <<task, saving>> /\ OnlyTask

\* Success with another sample to take, success, technical failure.
SampleEnds(c) ==
    /\ task[c] = "sampling" /\ calls[c] > 0
    /\ \/ client /\ ~IsError /\ Move(c, "sampling", "executing") /\ UNCHANGED saving
       \/ client /\ \E v \in Judged : Prepared(c, v)
       \/ Prepared(c, NotJudged)
    /\ calls' = [calls EXCEPT ![c] = 0]
    /\ OnlyTask

\* The reset fails, or the call raises what execute_case does not catch.
SampleRaises(c) ==
    /\ Move(c, "sampling", "raised")
    /\ calls' = [calls EXCEPT ![c] = 0]
    /\ UNCHANGED saving /\ OnlyTask

\* _ensure_case_version raises when its version number was taken meanwhile. Otherwise the
\* SELECT: a row is there already, the result at hand is dropped.
CheckExisting(c) ==
    /\ \/ Move(c, "check", IF result[c] = "none" THEN "insert" ELSE "done")
       \/ Move(c, "check", "raised")
    /\ UNCHANGED <<calls, saving>> /\ OnlyTask

\* INSERT: uk_result refuses a second row, the exception leaves the coroutine.
InsertResult(c) ==
    /\ task[c] = "insert"
    /\ IF result[c] = "none"
       THEN /\ result' = [result EXCEPT ![c] = saving[c]]
            /\ task' = [task EXCEPT ![c] = "done"]
       ELSE /\ task' = [task EXCEPT ![c] = "raised"]
            /\ UNCHANGED result
    /\ UNCHANGED <<calls, saving, status, total, counts, scored, judge, timeVars,
                   caseVars, main, memVars, cancelling, scanVars, scoring, outVars,
                   envVars>>
-----------------------------------------------------------------------------
(* The orchestrator task: the end of gather and the endings.               *)

GatherDone ==
    /\ main = "gather"
    /\ \A c \in plan : task[c] = "done"
    /\ main' = "finish"
    /\ hb' = FALSE /\ client' = FALSE
    /\ UNCHANGED <<dbVars, timeVars, caseVars, taskVars, cancelFlag, cancelling,
                   scanVars, scoring, outVars, envVars>>

\* gather() passes the first exception on and leaves the other coroutines running.
GatherRaises ==
    /\ main = "gather"
    /\ \E c \in plan : task[c] = "raised"
    /\ main' = "fail"
    /\ hb' = FALSE /\ client' = FALSE
    /\ UNCHANGED <<dbVars, timeVars, caseVars, taskVars, cancelFlag, cancelling,
                   scanVars, scoring, outVars, envVars>>

\* Any other exception of _run; finally cancels the heartbeat only once inside the try.
MainRaises ==
    /\ main \in {"load", "claim", "dispatch", "prepare", "probe", "finish", "score"}
    /\ main' = "fail"
    /\ IF main = "probe" THEN hb' = FALSE /\ client' = FALSE ELSE UNCHANGED <<hb, client>>
    /\ scoring' = scoring \ {"main"}
    /\ UNCHANGED <<dbVars, timeVars, caseVars, taskVars, cancelFlag, cancelling,
                   scanVars, outVars, envVars>>

\* _fail_run, under the row lock.
MayFail == status \in Active
FailRun ==
    /\ main = "fail"
    /\ main' = "none"
    /\ status' = IF MayFail THEN "partial_failed" ELSE status
    /\ cancelFlag' = FALSE
    /\ UNCHANGED <<total, counts, scored, result, judge, timeVars, caseVars, taskVars,
                   hb, client, cancelling, scanVars, scoring, outVars, envVars>>

\* _fail_run raises too (the database is away): the task ends and changes nothing.
FailRunRaises ==
    /\ main = "fail"
    /\ main' = "none"
    /\ UNCHANGED <<dbVars, timeVars, caseVars, taskVars, memVars, cancelling, scanVars,
                   scoring, outVars, envVars>>

\* _finish reads the row under its lock: a status set from outside is kept.
KeepsStatus == status \in External
\* Mutation: no look at technical errors when nothing passed.
FinishStatusBlind(res) ==
    IF cancelFlag THEN "cancelled" ELSE IF Tally(res, "pass") > 0 THEN "scoring" ELSE "completed"
FinishStatus(res) ==
    IF cancelFlag THEN "cancelled"
    ELSE IF Tally(res, "pass") > 0 THEN "scoring"
    ELSE IF Tally(res, "error") > 0 THEN "partial_failed" ELSE "completed"

Finish ==
    /\ main = "finish" /\ ~IsError
    /\ LET res == Backfilled(result, "error")
       IN  /\ result' = res
           /\ total' = Cardinality(Rows(res))
           /\ counts' = FinishCounts(res)
           /\ status' = IF KeepsStatus THEN status ELSE FinishStatus(res)
    /\ main' = IF status' = "scoring" THEN "score" ELSE "signal"
    /\ cancelFlag' = FALSE
    /\ UNCHANGED <<scored, judge, timeVars, caseVars, taskVars, hb, client, cancelling,
                   scanVars, scoring, outVars, envVars>>

ErrorFinishStatus(res) ==
    IF cancelFlag \/ Rows(res) = {} THEN "cancelled"
    ELSE IF Tally(res, "na") > 0 THEN "partial_failed" ELSE "completed"

\* _finish_error_regression, called by the run's own task and by the scanner.
FinishErrorRegression ==
    /\ LET res == Backfilled(result, "na")
       IN  /\ result' = res
           /\ total' = Cardinality(Rows(res))
           /\ counts' = ErrorCounts(res)
           /\ status' = IF KeepsStatus THEN status ELSE ErrorFinishStatus(res)
    /\ scored' = FALSE
    /\ cancelFlag' = FALSE
    /\ pushed' = TRUE
    /\ UNCHANGED <<judge, timeVars, caseVars, taskVars, hb, client, cancelling, missing,
                   scoring, signalled, envVars>>

FinishError ==
    /\ main = "finish" /\ IsError
    /\ main' = "none"
    /\ FinishErrorRegression /\ UNCHANGED scan

\* After score_run returned, whatever it achieved.
FireSignal ==
    /\ main = "signal"
    /\ main' = "none"
    /\ signalled' = TRUE
    /\ UNCHANGED <<dbVars, timeVars, caseVars, taskVars, memVars, cancelling, scanVars,
                   scoring, pushed, envVars>>
-----------------------------------------------------------------------------
(* score_run. It is entered under the row lock; when the judge is           *)
(* configured the commit of the new tasks gives that lock up.               *)

\* Who may call it now: _finish, the worker once all tasks closed, scanner pass 4.
CallsScore(a) ==
    \/ a = "main" /\ main = "score"
    \/ a = "worker" /\ judge = "closed"
    \/ a = "scanner" /\ scan = "idle" /\ judge # "open"

Returns(a) == main' = IF a = "main" THEN "signal" ELSE main

MayScore == status = "scoring"

\* Rows, counts, score and the final status, in one commit. Scoring may raise: then the
\* rows that were scored by then are committed, and nothing else of it.
ScoreCommit ==
    \/ \E res \in Rescored(result) :
         /\ result' = res
         /\ counts' = ScoreCounts(res)
         /\ scored' = (Tally(res, "pass") + Tally(res, "fail") > 0)
         /\ status' = IF Tally(res, "error") > 0 THEN "partial_failed" ELSE "completed"
    \/ /\ status' = "partial_failed"
       /\ result' \in PartlyRescored(result)
       /\ UNCHANGED <<counts, scored>>

\* Not in scoring any more: nothing to do.
ScoreSkips(a) ==
    /\ a = "main" /\ CallsScore(a) /\ a \notin scoring
    /\ ~MayScore
    /\ Returns(a)
    /\ UNCHANGED <<dbVars, timeVars, caseVars, taskVars, memVars, cancelling, scanVars,
                   scoring, outVars, envVars>>

\* No judge: scored to the end within the locked transaction.
ScoreAtOnce(a) ==
    /\ CallsScore(a) /\ a \notin scoring /\ FALSE \in JudgeModes
    /\ MayScore
    /\ ScoreCommit
    /\ Returns(a)
    /\ UNCHANGED <<total, judge, timeVars, caseVars, taskVars, memVars, cancelling,
                   scanVars, scoring, outVars, envVars>>

\* Judge configured: create the tasks (none for a run without semantic dimensions).
\* Open tasks end the call; otherwise it goes on to score, without the lock.
ScoreCreatesTasks(a) ==
    /\ CallsScore(a) /\ a \notin scoring /\ TRUE \in JudgeModes
    /\ MayScore
    /\ judge' \in IF judge = "none" THEN {"open", "closed"} ELSE {judge}
    /\ IF judge' = "open"
       THEN Returns(a) /\ UNCHANGED scoring
       ELSE scoring' = scoring \cup {a} /\ UNCHANGED main
    /\ UNCHANGED <<status, total, counts, scored, result, timeVars, caseVars, taskVars,
                   memVars, cancelling, scanVars, outVars, envVars>>

\* The final commit of a caller that gave the lock up: the status is not looked at again.
ScoreEnds(a) ==
    /\ a \in scoring
    /\ scoring' = scoring \ {a}
    /\ ScoreCommit
    /\ Returns(a)
    /\ UNCHANGED <<total, judge, timeVars, caseVars, taskVars, memVars, cancelling,
                   scanVars, outVars, envVars>>

\* The judge worker settles the run's last open task (done or failed).
JudgeTasksClose ==
    /\ judge = "open"
    /\ judge' = "closed"
    /\ UNCHANGED <<status, total, counts, scored, result, timeVars, caseVars, main,
                   taskVars, memVars, cancelling, scanVars, scoring, outVars, envVars>>
-----------------------------------------------------------------------------
(* The scanner: one pass over this run.                                    *)

ScanFree == scan = "idle" /\ "scanner" \notin scoring

\* Lease or hard deadline passed; the update asks for pending/running again.
\* Mutation: the lease of a run that never started is not watched.
ReapsRunningOnly == status = "running" /\ (leaseExpired \/ overdue)
MayReap == status \in Executing /\ (leaseExpired \/ (status = "running" /\ overdue))
Reap ==
    /\ ScanFree /\ MayReap
    /\ status' = "timeout"
    /\ scan' = "flag"
    /\ UNCHANGED <<total, counts, scored, result, judge, timeVars, caseVars, main,
                   taskVars, memVars, cancelling, missing, scoring, outVars, envVars>>

\* After the commit: the cancel flag, then the ending that fits the kind of run.
\* Mutation: every reaped run is salvaged, as manual runs are.
SalvagesAll == "salvage"
AfterReap == IF IsError THEN "finish_error" ELSE "salvage"
RaiseFlag ==
    /\ scan = "flag"
    /\ cancelFlag' = TRUE
    /\ scan' = AfterReap
    /\ UNCHANGED <<dbVars, timeVars, caseVars, main, taskVars, hb, client, cancelling,
                   missing, scoring, outVars, envVars>>

\* Pass 3: scoring took longer than scoring_timeout and no judge task is open.
ReapScoring ==
    /\ ScanFree
    /\ status = "scoring" /\ judge # "open"
    /\ status' = "scoring_failed"
    /\ scan' = AfterReap
    /\ UNCHANGED <<total, counts, scored, result, judge, timeVars, caseVars, main,
                   taskVars, memVars, cancelling, missing, scoring, outVars, envVars>>

ScannerFinishesError ==
    /\ scan = "finish_error"
    /\ scan' = "idle"
    /\ FinishErrorRegression /\ UNCHANGED main

\* score_run_salvage reads the run and its results without a lock.
SalvageReads ==
    /\ scan = "salvage"
    /\ IF status \notin {"timeout", "scoring_failed"} \/ scored
       THEN scan' = "idle" /\ UNCHANGED missing
       ELSE IF Cardinality(Rows(result)) < total
       THEN scan' = "backfill" /\ missing' = active \ Rows(result)
       ELSE scan' = "score" /\ UNCHANGED missing
    /\ UNCHANGED <<dbVars, timeVars, caseVars, main, taskVars, memVars, cancelling,
                   scoring, outVars, envVars>>

\* A row that came in between breaks the insert of all: the pass ends with the exception.
SalvageBackfills ==
    /\ scan = "backfill"
    /\ missing' = {}
    /\ IF \E c \in missing : result[c] # "none"
       THEN scan' = "idle" /\ UNCHANGED result
       ELSE /\ scan' = "score"
            /\ result' = [c \in Cases |-> IF c \in missing THEN "error" ELSE result[c]]
    /\ UNCHANGED <<status, total, counts, scored, judge, timeVars, caseVars, main,
                   taskVars, memVars, cancelling, scoring, outVars, envVars>>

\* Open judge tasks are abandoned; the status found is kept. Scoring may raise here too:
\* then nothing of it is committed.
SalvageScores ==
    /\ scan = "score"
    /\ scan' = "idle"
    /\ judge' = IF judge = "open" THEN "closed" ELSE judge
    /\ \/ \E res \in Rescored(result) :
            /\ result' = res
            /\ counts' = ScoreCounts(res)
            /\ scored' = (Tally(res, "pass") + Tally(res, "fail") > 0)
       \/ UNCHANGED <<result, counts, scored>>
    /\ UNCHANGED <<status, total, timeVars, caseVars, main, taskVars, memVars,
                   cancelling, missing, scoring, outVars, envVars>>
-----------------------------------------------------------------------------
(* Heartbeat, clock, the cancel endpoint, the editing of cases, crash.     *)

RenewLease ==
    /\ hb /\ status = "running"
    /\ leaseExpired
    /\ leaseExpired' = FALSE
    /\ UNCHANGED <<dbVars, overdue, caseVars, main, taskVars, memVars, cancelling,
                   scanVars, scoring, outVars, envVars>>

HeartbeatEnds ==
    /\ hb /\ status # "running"
    /\ hb' = FALSE
    /\ UNCHANGED <<dbVars, timeVars, caseVars, main, taskVars, client, cancelFlag,
                   cancelling, scanVars, scoring, outVars, envVars>>

LeaseExpires ==
    /\ status \in Executing /\ ~leaseExpired
    /\ leaseExpired' = TRUE
    /\ UNCHANGED <<dbVars, overdue, caseVars, main, taskVars, memVars, cancelling,
                   scanVars, scoring, outVars, envVars>>

DeadlinePasses ==
    /\ status = "running" /\ ~overdue
    /\ overdue' = TRUE
    /\ UNCHANGED <<dbVars, leaseExpired, caseVars, main, taskVars, memVars, cancelling,
                   scanVars, scoring, outVars, envVars>>

\* The endpoint read an active status; the flag is set before its commit.
MayCancel == status \in Active
CancelRequested ==
    /\ requests < MaxRequests /\ ~cancelling
    /\ MayCancel
    /\ requests' = requests + 1
    /\ cancelling' = TRUE
    /\ cancelFlag' = TRUE
    /\ UNCHANGED <<dbVars, timeVars, caseVars, main, taskVars, hb, client, scanVars,
                   scoring, outVars, faults>>

\* Its commit writes cancelled over whatever the row holds by then.
CancelCommits ==
    /\ cancelling
    /\ cancelling' = FALSE
    /\ status' = "cancelled"
    /\ UNCHANGED <<total, counts, scored, result, judge, timeVars, caseVars, main,
                   taskVars, memVars, scanVars, scoring, outVars, envVars>>

\* Its commit fails: the row keeps its status, the flag stays set.
CancelAborts ==
    /\ cancelling
    /\ cancelling' = FALSE
    /\ UNCHANGED <<dbVars, timeVars, caseVars, main, taskVars, memVars, scanVars,
                   scoring, outVars, envVars>>

\* A case is retired, or made active again, just before the cases are loaded once more:
\* nobody else looks. require_normal_case refuses this for the cases of an error run.
EditCase(c) ==
    /\ requests < MaxRequests /\ ~IsError
    /\ (main = "finish" \/ scan = "salvage") /\ Cardinality(Rows(result)) < total
    /\ requests' = requests + 1
    /\ active' = IF c \in active THEN active \ {c} ELSE active \cup {c}
    /\ UNCHANGED <<dbVars, timeVars, plan, main, taskVars, memVars, cancelling, scanVars,
                   scoring, outVars, faults>>

\* Nothing resumes the run after a restart: only the scanner and the worker know of it.
Crash ==
    /\ faults < MaxFaults
    /\ faults' = faults + 1
    /\ main' = "none"
    /\ task' = [c \in Cases |-> "idle"]
    /\ calls' = [c \in Cases |-> 0]
    /\ saving' = [c \in Cases |-> "none"]
    /\ hb' = FALSE /\ client' = FALSE /\ cancelFlag' = FALSE
    /\ cancelling' = FALSE
    /\ scan' = "idle" /\ missing' = {}
    /\ scoring' = {}
    /\ UNCHANGED <<dbVars, timeVars, caseVars, outVars, requests>>

\* The scanner's pass raises: in this run's ending, or in that of a run it reaped along
\* with this one and serves first. What the pass still had to do is not made up for.
ScanRaises ==
    /\ faults < MaxFaults
    /\ scan # "idle" \/ "scanner" \in scoring
    /\ faults' = faults + 1
    /\ scan' = "idle" /\ missing' = {}
    /\ scoring' = scoring \ {"scanner"}
    /\ UNCHANGED <<dbVars, timeVars, caseVars, main, taskVars, memVars, cancelling,
                   outVars, requests>>
-----------------------------------------------------------------------------
MainStep ==
    \/ LoadRun \/ RejectDisabled \/ RejectEmpty \/ ClaimRun
    \/ FailPrecheck \/ MarkErrorSkipped \/ Dispatch \/ OpenClient
    \/ ProbePasses \/ ProbeFails \/ GatherDone \/ GatherRaises
    \/ FailRun \/ Finish \/ FinishError \/ FireSignal
Trouble == MainRaises \/ FailRunRaises \/ ScanRaises
CaseStep(c) ==
    \/ StartCase(c) \/ AdmitCase(c) \/ BeginSample(c) \/ StopOnCancel(c) \/ CallAgent(c)
    \/ SampleEnds(c) \/ SampleRaises(c) \/ CheckExisting(c) \/ InsertResult(c)
ScoreStep(a) ==
    \/ ScoreSkips(a) \/ ScoreAtOnce(a) \/ ScoreCreatesTasks(a) \/ ScoreEnds(a)
ScanStep ==
    \/ Reap \/ RaiseFlag \/ ReapScoring \/ ScannerFinishesError
    \/ SalvageReads \/ SalvageBackfills \/ SalvageScores
ClockStep == LeaseExpires \/ DeadlinePasses
CancelStep == CancelRequested \/ CancelCommits \/ CancelAborts

Next ==
    \/ MainStep \/ Trouble
    \/ \E c \in Cases : CaseStep(c)
    \/ \E a \in Actors : ScoreStep(a)
    \/ JudgeTasksClose
    \/ ScanStep
    \/ RenewLease \/ HeartbeatEnds
    \/ ClockStep
    \/ CancelStep
    \/ \E c \in Cases : EditCase(c)
    \/ Crash

Spec == Init /\ [][Next]_vars

(* Fairness: the event loop runs the tasks that are ready, calls to the     *)
(* agent and the judge return (each has a timeout), time passes, and the    *)
(* scanner and the worker loop for ever. Which of several coroutines runs   *)
(* is left open; failures, requests and crashes are never forced.           *)
Fairness ==
    /\ WF_vars(MainStep)
    /\ WF_vars(\E c \in Cases : CaseStep(c))
    /\ WF_vars(\E a \in Actors : ScoreStep(a))
    /\ WF_vars(JudgeTasksClose)
    /\ WF_vars(ScanStep)
    /\ WF_vars(LeaseExpires) /\ WF_vars(DeadlinePasses)

FairSpec == Spec /\ Fairness
-----------------------------------------------------------------------------
(* Properties.                                                             *)

MainPlaces == {"none", "load", "reject_disabled", "reject_empty", "claim", "dispatch",
               "skip", "prepare", "probe", "gather", "finish", "fail", "score", "signal"}
TaskPlaces == {"idle", "ready", "queued", "executing", "sampling", "check",
               "insert", "done", "raised"}
ScanPlaces == {"idle", "flag", "salvage", "backfill", "score", "finish_error"}

\* Every variable keeps the range the columns and the orchestrator's fields have.
TypeOK ==
    /\ status \in Active \cup Terminal
    /\ total \in 0..Cardinality(Cases)
    /\ counts \in [Verdicts -> 0..Cardinality(Cases)]
    /\ scored \in BOOLEAN
    /\ result \in [Cases -> Verdicts \cup {"none"}]
    /\ judge \in {"none", "open", "closed"}
    /\ leaseExpired \in BOOLEAN /\ overdue \in BOOLEAN
    /\ active \subseteq Cases /\ plan \subseteq Cases
    /\ main \in MainPlaces
    /\ calls \in [Cases -> 0..(MaxRetries + 1)]
    /\ task \in [Cases -> TaskPlaces]
    /\ saving \in [Cases -> Verdicts \cup {"none"}]
    /\ hb \in BOOLEAN /\ client \in BOOLEAN /\ cancelFlag \in BOOLEAN
    /\ cancelling \in BOOLEAN
    /\ scan \in ScanPlaces
    /\ missing \subseteq Cases
    /\ scoring \subseteq Actors
    /\ pushed \in BOOLEAN /\ signalled \in BOOLEAN
    /\ faults \in 0..MaxFaults /\ requests \in 0..MaxRequests

\* Whoever writes last, a run that reached a terminal status is never pending, running
\* or scoring again: not by the claim of a cancelled run, not by a late _finish after the
\* scanner's timeout, not by score_run entered twice (the P2-D6 and A1 comments).
NoResurrection == [][(status \in Terminal) => (status' \in Terminal)]_vars

\* An error regression run only ever holds pass, fail or na rows, is never scored and
\* never enters scoring, whichever of its endings or of the scanner's reaches it first.
ErrorRunDomain ==
    IsError => /\ \A c \in Cases : result[c] # "error"
               /\ ~scored
               /\ status \notin {"scoring", "scoring_failed"}

\* completed is what online reads as "repaired": no case the run loaded is without a
\* verdict, whatever became of the case since, no technical failure, and for an error run
\* not one na, survives behind that status.
CompletedMeansJudged ==
    status = "completed" /\ total > 0 =>
        /\ plan \subseteq Rows(result)
        /\ \A c \in Rows(result) : result[c] \in IF IsError THEN {"pass", "fail"}
                                                 ELSE {"pass", "fail", "na"}

\* The scanner is through with a run that was ended from outside, and no pass of it was
\* cut short between the status and the flag.
ReapSettled == status \in External /\ scan = "idle" /\ ~cancelling /\ faults = 0

\* Once a run was ended from outside and the scanner is through with it, no case of it
\* begins another sample of the agent (scanner.py: the flag stops what is still running):
\* what it still sends are the attempts left of the sample under way.
NoSampleAfterReap ==
    [][\A c \in Cases :
         task[c] = "executing" /\ task'[c] = "sampling" /\ client => ~ReapSettled]_vars

\* No call of the agent at all after that. The code does not keep this: neither the lock
\* of the agent, the reset nor the backoff is followed by a look at the flag.
NoCallAfterReap ==
    [][\A c \in Cases : calls'[c] > calls[c] /\ client => ~ReapSettled]_vars

\* Nobody works on the run any more.
Quiet == /\ main = "none" /\ scan = "idle" /\ scoring = {} /\ ~cancelling
         /\ \A c \in Cases : task[c] \in {"idle", "done", "raised"}

\* The counts stored with a pushed error run are those of its rows, and add up to its
\* total, though its task and the scanner may both have written them.
PushedCountsAgree ==
    pushed /\ total > 0 => /\ counts = ErrorCounts(result)
                           /\ total = Cardinality(Rows(result))

\* What online was told of an error run stays true: no late case, no second ending
\* changes a row or a count after fire_push.
FrozenOncePushed == [][pushed => result' = result /\ counts' = counts]_vars

\* What online is told of an error run is true and final: completed means every case was
\* judged, the counts are those of the rows, and nothing of it changes after the push.
ReportIsTrue == [](CompletedMeansJudged /\ PushedCountsAgree) /\ FrozenOncePushed

\* A reaped run with passing rows gets a score from the salvage, unless the process died
\* or the pass failed in between ("a run can still be scored after a fault").
ReapedIsScored ==
    status = "timeout" /\ Quiet /\ faults = 0 /\ Tally(result, "pass") > 0 => scored

\* Every run ends, whatever fails, is cancelled or crashes: the task itself, the lease,
\* the hard deadline or the scanner's scoring passes see to it.
Converges == <>[](status \in Terminal)

\* An error run that times out is reported to online all the same, by the scanner's
\* ending, unless the process dies or the pass fails first.
ReapedErrorRunIsPushed == status = "timeout" ~> pushed \/ faults > 0

\* The automatic schedule is fired for a run that reached its terminal status.
SignalAfterTerminal == [][~signalled /\ signalled' => status \in Terminal]_vars

\* What the scanner marked scoring_failed a late score_run leaves alone.
ScoringFailedSticks ==
    [][status = "scoring_failed" => status' \notin {"completed", "partial_failed"}]_vars
=============================================================================
