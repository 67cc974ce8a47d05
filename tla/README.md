# agent-evaluation-offline in TLA+

The specifications below model the backend of the offline evaluation system
(`src/backend/app`): FastAPI processes with an asyncio event loop each and one
MySQL database (REPEATABLE READ, row locks). A process executes *evaluation
runs* of agents, scores them with rules and an LLM judge, and receives *error
cases* from the online system, which it reproduces in *error regression runs*
whose results it pushes back.

Sections 1 and 2 are the inventory and the plan, 3 to 11 the modules, 12 the
runs at a glance, 13 where the code disagrees with itself, 14 what is proved,
only model-checked, or not modelled.

## 1. Inventory

| component | state | operations | what is hard | correct means |
|---|---|---|---|---|
| orchestrator (`runner/orchestrator.py`) | `eval_run`, `eval_result` rows; cancel flags, heartbeats, limits in memory | claim, probe, execute cases, two endings, fail, heartbeat | shares the rows with scanner, scorer and API; everything in memory is lost in a crash | a run ends once and stays ended; its rows and counts agree |
| scanner (`runner/scanner.py`) | none of its own | reap by lease and deadline, time out scoring, salvage, converge scoring, clean up | commits first, acts on what it committed later; one exception ends the pass | every run ends; a reaped run stops and is scored or pushed |
| scorer (`runner/scorer.py`) | judge tasks, scores | `score_run`, `score_run_salvage` | three callers; its lock does not last | scored once, no terminal status overwritten |
| run API (`api/runs.py`) | `eval_run` | create, rerun, cancel, list of failures | check then act; lists that are inherited | at most N executing runs per agent; a run keeps to its list, and what is missing at its end is seen |
| limits (`core/limiter.py`) | semaphores per run and per agent | set, drop, acquire, release | two layers, buckets dropped under way | no over-admission, nothing lost, manual runs not starved |
| circuit breaker (`core/circuit_breaker.py`, `core/circuit_repo.py`) | `agent_circuit` row | load, try_acquire, feedback, save | read-modify-write over minutes | opens at the threshold, one probe when half open |
| automatic schedule (`orchestrator.py`, `runner/reconcile_loop.py`) | error runs, their anchor | decide, create, reconcile | two creators, signals lost or late | at most one active error run; each version is regressed in the end |
| judge queue (`judge/worker.py`) | `judge_task` rows | claim, lease, judge, retry, reclaim | leases against late answers, salvage | no task judged by two, every task ends |
| judge sampling (`judge/aggregate.py`, `judge/verdict_cache.py`) | the cache of one process | sample, majority, reuse, evict | settings change between rounds, tasks share entries | a reused verdict answers the same question |
| back-flow inbox (`runner/pull_loop.py`, `runner/cap_gap_probe.py`, `core/backflow_client.py`) | `error_backflow_inbox`, cases | pull, materialise, refuse, ack, check again | lost and late acks, death between commit and ack, two loops | one case per payload; each payload is answered |
| result push (`runner/error_push.py`) | none | fire, retry per cluster | fire-and-forget, bounded retries, watermarks of runs that vanish | what is told is true; no cluster depends on another's fate |
| clean-up (`runner/cleanup_rules.py`) | deletes runs | retention | two cleaners with lists of their own | protected and recent runs survive |
| case execution (`runner/executor.py`, `adapters`, `core/sse_parser.py`, `core/assembler.py`) | the parser and product of prepared steps of one case | reset, prepare, request, stream, resume, retry, sample | half frames, resumption, state shared by retries | the answer is the agent's, the row is earned, the agent is not called too often |
| cases and versions (`api/cases.py`, `runner/case_loader.py`) | `test_case`, `case_version` | edit, invalidate, load, look up or insert a version | edits and two runs at once; a number without a lock | a result names the version that was run |
| annotations and targets (`api/annotations.py`, `api/agents.py`) | `case_annotation`, `baseline_target` | annotate, sign | overlapping snapshots | the status catches up; two different people sign |
| manifest, scaffold, registry (`api/scaffold.py`, `core/contracts_v2.py`, `core/skeleton.py`, `core/probe.py`) | `agent_interface`, `adapter_config` | discover, register, confirm, edit, probe, make skeletons | several walks over the same configuration; a table without a key | no placeholder is left in what is rendered; synchronising comes to rest |
| assertions and metrics (`assertions`, `metrics`) | none | pure functions | empty, absent and blank values | operators agree with their measures |
| scores and views (`runner/scorer.py`, `core/dashboard_rules.py`, `api/runs.py`) | scores, flags, counts | score a run, card, list of failures | N/A, weights of 0, rounding, targets that change | better is never worse; views show what gates decided |
| alert on stale acks, config, users, auth, audit, exports, other dashboards, frontend, migrations, seeds | tables, memory | read and write | single transactions | not modelled |

They meet in the database rows and in four calls: the API starts the
orchestrator task (`start_run`); the orchestrator, the worker and the scanner
call `score_run`; the orchestrator and the scanner call
`_finish_error_regression`; both fire the push and the schedule as detached
tasks.

## 2. Plan

| | modules | state of the work |
|---|---|---|
| 1 | `RunLifecycle`, the rows every component meets on | checked, six theorems |
| 2 | `KeyedLimiter` refining `AgentSlots` | checked, three theorems |
| 3 | `CircuitBreaker` refining `BreakerContract` where one case runs at a time | checked, five theorems |
| 4 | `RunAdmission` (API, schedule, reconciliation) refining `RegressionLedger` | checked, four theorems |
| 5 | `JudgeQueue` (claim, lease, retry, reclaim, salvage) refining `JudgeBoard`, on which a task is answered once | checked, five theorems |
| 6 | `BackflowInbox` (pull, materialise, ack, refuse, probe) refining `BackflowLink`; `ResultPush` with the clean-up | checked, three theorems on the way in, four on the way out |
| 7 | `CaseExecution`, from the first sample to the row | checked, four theorems |
| 8 | `CaseVersions`, `Curation`, `InterfaceRegistry`, `AdapterWiring`, `ContractProbe`, `Assertions`, `JudgeSampling`, `Scoring`, checked together by `MCEvaluation` | checked, twelve theorems |

One run per module or group of modules asks for all of its properties; a
violated run stands for a place where the code disagrees with what it says of
itself. The modules that are proved about have no recursive operator, and
their constants carry named assumptions. What is left to do: the liveness
properties, which the prover does not reach, and the parts section 14 lists as
not modelled.

## 3. RunLifecycle

One run, its cases and all actors that touch it. A step is the code between
two awaits, or a transaction that holds the run's row lock from its first read
to its commit; a write that was decided on an unlocked read is a step of its
own, so that other actors come in between.

| TLA+ | code |
|---|---|
| `main` | where `_run` / `_run_error` / `_finish` stand: `load`, `claim`, `dispatch`, `prepare`, `probe`, `gather`, `finish`, `score`, `signal`, `fail`, `none` |
| `plan` | the cases `_run` loaded, each with a coroutine of its own |
| `task[c]`, `calls[c]`, `saving[c]` | the coroutine of a case (`_run_one`, `_run_one_error`, `_execute_with_retry`, `_save_result`), the calls of the agent within its sample (`_call_once`) and the verdict it is about to insert |
| `active` | the cases `_load_run_cases` would give now |
| `status`, `total`, `counts`, `scored`, `result`, `judge` | `eval_run`, `eval_result`, `judge_task` |
| `leaseExpired`, `overdue` | `lease_until`, `hard_deadline` against the clock |
| `cancelFlag`, `hb`, `client` | `Orchestrator._cancel`, the heartbeat task, the HTTP client |
| `scan`, `missing` | the scanner's pass over this run and what its salvage read |
| `scoring` | callers of `score_run` that are past the commit of the judge tasks, that is, past their row lock |

Abstractions: slots and the breaker only decide whether a case is called
(modules of their own); a sample is the place `sampling`, from the look at the
flag to the outcome, with its wait for the agent's lock, the reset and a step
for each of its calls (`CallAgent`), none of which looks at the flag again
(`orchestrator.py:564-609`); it has the outcomes the orchestrator tells apart.
Saving may raise where the version of the case is made (`CheckExisting`). The
reconciliations of `_finish`, `_finish_error_regression` and the salvage load
the cases again and fill in those that are active by then: a planned case that
was retired stays without a row, one that became active gets one. Edits are
steps just before such a load, since nothing else reads `active`; the choice
of `Init` covers the edits before the first load. The cases of an error run
are edited by nobody (`require_normal_case`, `deps.py:93`, called in
`cases.py:289, 330`, `scaffold.py:346`, `annotations.py:126`).
the numbers of scoring are left out, `Rescored` allows every verdict scoring
may give. An update is written as a whole where SQLAlchemy omits columns whose
value equals the one loaded. The scanner's select and its conditional update
are one step: only the status is asked again by the code. `held_out` runs
behave like `manual` ones and are not distinguished.

Bounds: two cases (one row is saved while the other is under way; a backfill
adds one of two), `MaxFaults` = 1 (crash of the process or failed scanner
pass; a second one starts from a state a first already reaches), `MaxRequests`
= 1 (a cancel, or an edit of a case), `MaxRetries` = 1 (one attempt after the
first shows what further ones do). Exceptions of the run's own task are not
bounded. Deadlock checking is off because a run ends.

| run | shows |
|---|---|
| `run_manual` | no terminal status is left (`NoResurrection`), `completed` hides no unjudged case (`CompletedMeansJudged`), no sample begins after the reap (`NoSampleAfterReap`), every run ends (`Converges`) |
| `run_error` | what is pushed is true and final: every case judged, the counts those of the rows, nothing changes afterwards (`ReportIsTrue`); a reaped error run is pushed (`ReapedErrorRunIsPushed`) |

The domain of the verdicts of an error run (`ErrorRunDomain`) and the types
are proved and not checked again. Four more statements are defined and false
of the code: section 13. One is `NoCallAfterReap`: the flag stops samples, not
calls, and up to `max_retries` further calls are made for a run that was ended.

Fairness (`FairSpec`): the event loop runs the coroutines that are ready, in
whatever order, so that fairness is asked of all cases together and of all
callers of `score_run` together; calls of agent and judge return because each
has a timeout; time passes (`LeaseExpires`, `DeadlinePasses`); the scanner and
the worker loop for ever. That a cancel commits is not assumed. The heartbeat is
not fair: renewing can be delayed beyond the lease, and a leaked heartbeat may
renew for ever, the hard deadline ends the run all the same. Exceptions,
cancels and crashes are never forced. All actions of the run's task are under
one weak fairness condition: exactly one place is current at a time.

Endings without a push: an error run whose agent is disabled, whose case set
is empty, that fails the precheck or is cancelled before it is dispatched ends
outside `_finish_error_regression` and is not pushed. The model shows this;
no property demands the opposite, since `error_push.py:211` names the case.

Counts of a salvaged run: a run that was reaped and salvaged and whose task
reaches `_finish` later has `fail_case` reset to 0 and the rescored rows
counted, and no scorer follows, although the comment at
`orchestrator.py:781` counts on one. The model has these states; no property
claims that the counts of such a run are right.

### Proofs (`RunLifecycleProofs`)

- `RunTypeCorrect`: `TypeOK` is inductive by itself. The counts need
  `TallyBound` (subsets of a finite set).
- `TerminalForGood`: `NoResurrection`. A status is written without a look at
  the row in five places (both rejections, the failed probe, the commit of a
  cancel, the last commit of `score_run`) and conditionally in the others. The
  strengthening `Flow` says what the row may hold meanwhile: before the claim
  `pending` or ended from outside, between claim and ending `running` or ended
  from outside, nobody in `score_run` in either period, and a terminal row
  while the scanner is between its reap and its ending. So the one ending that
  writes the non-terminal `scoring` finds `running`.
- `ErrorRunsKeepTheirDomain`: `ErrorRunDomain`, with `ErrorInv`: no coroutine
  holds an `error` verdict, nobody is in `score_run`, the scanner never takes
  the salvage path.

- `PushedReportIsTrue` and, for error runs, `CompletedIsJudged`: from
  `TaskFlow` and `ErrorReport`. The hard part is that a coroutine may still
  save a row behind either ending. `TaskFlow` says that a coroutine is done
  with a row, or because it saw the flag, and that the planned cases of an
  error run stay active. `ErrorReport` says that up to the push the rows belong
  to planned cases and the total is their number, and that a pushed run has a
  row for each as long as somebody works on it, so that a late save finds one
  and leaves it, and a second ending computes the same counts.
- `CompletedIsJudged` for manual runs: from `TaskFlow` and `ManualRows`. Once
  the run is in scoring, or in the hands of a caller of `score_run`, every
  planned case has a row, whether it is still active or not; `completed` is
  then written over rows without an `error`, and neither late coroutine nor
  salvage can add one.
- `ReapStopsCalls`: from `FlagStops`. The client is open between probe and
  gather only, and up to there the flag stays up once the run has ended from
  outside and the scanner has passed it. It holds for manual runs without a
  crash, as `NoSampleAfterReap` itself says; an error run has no such theorem,
  as the ending the scanner writes takes the flag down (section 13).

The proofs assume `RunAssumption` only: a finite non-empty set of cases, a
kind, judge modes, natural bounds. Liveness is model-checked.

## 4. KeyedLimiter and AgentSlots

The limits of one agent's runs. A coroutine passes `ready` -> `agent` ->
`global` -> `executing` -> `done`: it takes a slot of the pool all runs of the
agent share, looks up the bucket of its run, waits for the two semaphores of
that bucket, and returns all three to the bucket it finds at the end. A
semaphore is its number of free places. `SetRun` and `DropRun` are
`set_run_limits` and `drop_run_limits`; `Reaped` names the runs whose bucket
the scanner's ending or `_fail_run` may drop while cases are under way. The
capacity of the pool is what the first registration said; a later run with
another configuration does not change it.

Bounds: five cases of two runs, a pool of two, an error bucket of one, two
cancelled waits. Every semaphore is then full with a waiter before it, and the
two runs disagree on the agent's concurrency. Deadlock checking is off because
all cases are done in the end.

| run | shows |
|---|---|
| `limiter` | the agent is not called above its quota (`CallsWithinQuota`), the layers amount to the agent's slots (`ImplementsSlots`), nobody waits for ever (`EveryCaseServed`) |

Fairness: a case ends (each call has a timeout), a semaphore with a free place
wakes a waiter. A coroutine passes once, so weak fairness is enough. A wait
that is cancelled between the two places of a bucket costs the bucket one of
them for good; `EveryCaseServed` is claimed without cancelled waits.

Consequences of dropping buckets early and of the order of the semaphores,
which the model has and no run singles out: a waiter of the dropped bucket is
never woken (section 13), releases into the
default bucket raise it above its limits (`limiter.py:96` asks that all
semaphores are returned first), and the cases of an error run that queue for
their bucket of one hold a slot of the shared pool each, which
`orchestrator.py:396` does not expect.

Proved in `CaseExecutionProofs`, beside the cases that pass the limits, from `LimiterAssumption` (finite sets, natural
limits) and for any set of reaped runs: `PoolCorrect`, by the number of
holders before and after a step, with the addition that nobody holds anything
before the first registration; `QuotaKept` and the refinement
`LimiterRefinesSlots` follow. `EveryCaseServed` is model-checked;
`RunWithinLimits` (a run's own limits) and `DefaultBucketIntact` are stated in
the module and hold as long as buckets are dropped after the last case only.

## 5. CircuitBreaker and BreakerContract

The row of each domain and the breakers in memory. A slot is a case that holds
its limits: `Load` (`circuit_repo.load` and `try_acquire`), then `Refuse` or
`EndCall` (`release_probe`, the feedback, `circuit_repo.save`). Nothing is
locked in between. Both statements of a case run in one session and one
transaction, so `save` reads the snapshot of the load once more and SQLAlchemy
names only the columns that changed with respect to it: `Merged` is what the
row holds afterwards. The configuration (threshold, open time) is the same for
all runs here. `opened_at` is abstracted to `cooled`: whether the open time
has passed since. `Crash` loses what is in memory. `failed` is history;
`settled` marks the moment from which the agent answers and the process stays
up.

Bounds: two manual slots, whose saves overlap, one error slot, as the schedule
allows one error run and its bucket one case; `Threshold` = 3, so that lost
updates of two cases can delay the opening.

| run | shows |
|---|---|
| `breaker` | a stored breaker is found open only after `Threshold` failures of its own domain and closed again only by the end of a probe, whatever cases overlap (`TurnsAreEarned`); it closes for good once the agent is well (`Recovers`); and the error domain is the breaker of the contract (`ErrorDomainAsPromised`) |

Fairness: cases keep coming, calls return, time passes. Without new cases a
breaker stays as it is, in the code as well.

Two probes at once: two cases may load the same cooled-down row and each
becomes its probe; one fails and re-opens, the other succeeds later and closes
the breaker within the new open time. The model has these behaviours, so no
property says that an open breaker stays open for its whole time.

`circuit_repo.py:8` estimates what a lost update costs as a count of one. With
n concurrent cases n - 1 failures can be lost at once; the model has this, and
`TurnsAreEarned` says what remains true. The one-at-a-time assumption fails
for an error domain while a reaped error run goes on calling (section 13) and
a second error run starts.

Proved in `CircuitBreakerProofs`, for any number of slots and domains:
`BreakerTypeCorrect`, `OpensByItsOwnFailures`, `ClosesByItsProbe` and
`TurnsEarned`, which joins the two, from the
invariant `BreakerInv` (types; what a case in a slot loaded and holds; every
failure count, stored or in memory, is bounded by the failures seen), and
`OneAtATimeKeepsContract`: if the error domain has one slot, what its case
loaded is what the row still holds (`AllCurrent`), and every step maps to a
step of the contract or a stutter. `Recovers` is model-checked.

## 6. RunAdmission and RegressionLedger

Who may create a run of an agent. A request is one call of `create_run` or
`rerun_run`, the manual run it creates, and the schedule task fired after that
run. The reconciliation loop is the second builder of error runs. All of them
lock the agent's row, look, insert and commit. Lock and look are one step:
only the end of a run can come between them, and it might as well have come
before the lock. Whoever stands at `insert` holds the lock; `LockFree` says
that nobody does.

| TLA+ | code |
|---|---|
| `Begin`, `CountActive`, `InsertManual` | `create_run`, `rerun_run`: first consistent read, `agent_mutex`, the locking count against `max_active_runs_per_agent`, insert and commit |
| `FireSignal`, `DecideSignal`, `InsertForSignal` | `fire_auto_schedule`, `maybe_auto_schedule`, `_decide_schedule`, `_create_error_regression_run_locked` |
| `PickVersion`, `DecideReconcile`, `InsertForReconcile` | `_reconcile_agent`: the difference of the versions, the oldest anchor first, then the same function |
| `RunEnds` | what `RunLifecycle` does to the run: `active` is pending or running; an error run is then `judged` (completed, partial_failed) or `broken` (timeout, cancelled) |
| `RequestFails`, `SignalFails`, `ReconcileFails`, `Crash` | an exception, a lock wait that times out, the end of the process: rolled back and not repeated |

`snapshot` is the count that a plain read would have returned in the request's
transaction; the code does not use it (P2-D2), only the mutation of
`LockingCount` does. `runnable` is the agent's set of error cases that can run;
it may become non-empty at any time and is assumed to stay so, cases are
retired by hand only. A manual run in `scoring` is `ended` here, as both the
limit and the reconciliation treat it.

Bounds: three requests for two versions with a limit of two, so that one is
turned down or not and two signals of one version compete with another
version for the one active error run; one fault, which may hit any session.
Deadlock checking is off because all requests are answered in the end.

The run `admission` shows that the limits hold however requests and builders
race (`ActiveWithinLimit`), that error runs of all versions follow the ledger (`ImplementsLedger`: one at a time, none repeated
after a judged one), and that no version is lost (`EveryVersionRegressed`),
whichever signal is lost, refused or crashes. Fairness: the event loop serves
a request that has begun and a task that was fired (a bounded number of steps,
so one condition serves all of them), the loop keeps its rounds, and every run
ends, which is `Converges` of `RunLifecycle`. Requests, signals,
cases and faults are never forced.

Proved in `RunAdmissionProofs`, for any number of requests, versions and
faults: `AdmissionTypeCorrect`, `LimitKept`, `OneErrorRunAtATime`. The
inductive invariant adds `Exclusive` (one session at a time) and `Decided`:
what a session found when it decided to insert still holds when it inserts,
since only sessions add runs. `AdmissionImplementsLedger` maps every step to one
of the ledger or to a stutter, from the same invariant with the addition that a
session that found no error run of its version, or only broken ones, still
finds it so when it inserts (`FoundBroken`). `EveryVersionRegressed` is model-checked.

## 7. JudgeQueue and JudgeBoard

The judge tasks of one run. The worker's loop takes rounds (`_drain_once`):
reclaim what a dead worker left, claim a batch, let one coroutine per task
judge it, then look whether the run can be scored.

| TLA+ | code |
|---|---|
| `status`, `attempts`, `lease`, `due` | `judge_task.status`, `attempts`, `lease_until`, `next_retry_at` |
| `run`, `used` | `eval_run.status` from `scoring` on, and the outcomes the score was computed from |
| `round`, `batch`, `work[t]` | where `_drain_once` stands, what its `gather` waits for, the coroutine of a task |
| `scan`, `seen` | where the scanner stands with this run, the statuses `score_run_salvage` read |
| `Reclaim`, `Claim`, `Reject`, `EndRound` | `_reclaim_stale`, `_claim_batch`, the closed allowlist, `_run_judge_done` with `score_run` |
| `BeginJudging`, `Unjudgeable`, `Judged` | `_process_one`: first flush, nothing to judge, the samples with the commit of the outcome |
| `JudgingRaises`, `RoundRaises`, `ScanRaises`, `Crash` | a database error in a coroutine, any other exception of a round, of the scanner's pass, the end of the process |
| `ScoreCalled`, `ScanSees`, `ScanMarks`, `SalvageReads`, `SalvageAbandons` | `_finish` or the scanner calling `score_run`; `scoring_failed` and the salvage after it |

A coroutine flushes its first update before it calls the judge, so it holds
the row lock of its task until it commits the outcome, and the longer lease it
writes (`worker.py:165`) is never seen by another session. What others see is
the 600 s lease of the claim. The model assumes that it outlasts the judging
of a task (three samples of at most 120 s by default); with more samples or a
longer timeout a task could be reclaimed as soon as its row is unlocked.

Abstractions: a sample is a verdict, a refusal, or an error that may be
permanent; how samples become a verdict, and the cache, are in `JudgeSampling`. `completed`
stands for `completed` and `partial_failed`, since `RunLifecycle` models how
the run ends, the part of `score_run` without a lock included. The judge stays
configured: without one the worker's round returns early and open tasks wait
for the scanner.

Bounds: three tasks, a batch of two (one task waits while two are judged, a
failed round leaves one behind), three samples (a majority of two), two
attempts, one fault.

| run | shows |
|---|---|
| `judge` | a completed run was scored with final outcomes (`ScoredWithOutcomes`); each task is answered once (`ImplementsBoard`); no task stays open, the run leaves scoring (`QueueDrains`) |

Fairness (`FairSpec`): worker and scanner loop for ever, calls of the judge
return because they have a timeout, leases run out and backoffs pass. That the
scanner gives up a run is under no separate condition: it is only finished
once begun. Faults are bounded, so retries end.

Two more behaviours the model has and no run singles out. The outcome is
written without asking for `claim_id` and status again, although
`solution_detail.md:1046` and `:1067` promise that fence: a coroutine that was
claimed but had not begun when the salvage abandoned its task writes `done`
over `failed`, behind the score. `WorkedOnIsOwned` (proved) and the refinement are
claimed up to `scoring_failed` for this reason. And the exception of one
coroutine ends the `gather` (`worker.py:373`) while the others go on beside
the next round.

Proved in `JudgeQueueProofs`, for any finite set of tasks and any limits, from
`QueueAssumption`: `QueueTypeCorrect`; `JudgedTaskIsOwned` and
`CompletedOnOutcomes` from the invariant `QueueInv`, which adds that a task
with a coroutine is as its claim left it unless the salvage has abandoned it
(`Owned`), that the salvage works on given-up runs only (`Abandoning`) and
that nothing is scored while the run is in scoring (`Unscored`); `QueueImplementsBoard`
(`BoardStep`: every action answers tasks, ends the run or is a stutter);
`ConcurrencyKept` by counting: each fault turns at most `Batch - 1` coroutines
of a batch into strays (`Strays`, `CountInv`). `QueueDrains` is model-checked.

## 8. BackflowInbox, BackflowLink and ResultPush

### The way in

Two loops under two named locks work on one table. `pull_loop` fetches the
oldest assembled payloads of the online platform, checks each envelope,
materialises a case or a refusal, commits, and only then acknowledges;
`cap_gap_probe` checks the refusals again that wait for a registration or a
file.

| TLA+ | code |
|---|---|
| `link`, `line`, `content`, `late` | the online platform (external): state of a payload, order of the first page, what the envelope is like now, acks given up by the caller and still under way |
| `row`, `cases` | `error_backflow_inbox`, the `test_case`s of a payload |
| `pc`, `batch`, `job`, `lock` | where a worker stands, what it has still to look at, the payload in hand, `GET_LOCK` |
| `Pull`, `Probe`, `Look`, `LookAgain` | a round of either loop: the page or the waiting rows, `_process_envelope`, `probe_once` |
| `Activate`, `Reject`, `Put`, `Mark` | the commit before the ack, the ack, the commit behind it |
| `AckAnswered`, `AckGivenUp`, `LateArrives` | `core/backflow_client.ack` against a network that loses, delays and repeats |
| `RoundBreaks`, `Provide`, `Requeue` | death or exception between any two steps, a registration or an upload, the online admin |

The matrix of acks the platform takes (`Accepts`) is external and follows
`error-backflow-phase1.md` section 2.3, to which the client is written.

The run `backflow`: a row that says its case was acknowledged belongs to an
active link, one that says a case was made belongs to exactly one case
(`RowKeepsItsWord`); the links move as `BackflowLink` allows, active only
behind a committed case (`ImplementsLink`); every payload offered is answered
(`Answered`). Bounds: two payloads (one page, whose order matters), two
pullers (one takes over while the other stands between commit and ack) and one
prober, contents good, wordless and fileless, one requeue, one fault. Fairness:
the loops come round and go on with a round once begun; nobody has to
register, requeue or fail.

Proved in `BackflowProofs`, for any payloads, workers, faults and
requeues, from `InboxAssumption`: `InboxTypeCorrect`, `RowsKeepTheirWord` and
`InboxImplementsLink`. The invariant `InboxInv` says which ack and which code go with the
status of a row (`RowFits`), what each worker knows of the payload in its hands
while it stands between two commits (`Local`; the lock keeps the other workers
of its loop away), and of each ack under way that it
says what its row said, an `active` one behind its case (`Sent`). The last part
is what an ack that arrives long after its caller gave up needs.
`Answered` is model-checked.

Not in the model: a lock that is lost with its connection while the holder
works on, which would allow two pullers at once; a page that is full of
payloads which can never be answered (`pull_payloads` asks for the first page
only), and an envelope that raises in every round.

### The way out

`ResultPush` keeps the runs of one agent in the order of their ids. `EndError`
commits the ending and fires the push; `ReadForPush` reads rows and watermarks;
`ReadRaises` is the database failing there, in no try, and ends the whole push;
`Attempt` is one call for one cluster; `TakeCandidates` and `DeleteBatch` are
`candidates_to_purge` and the batches of the scanner, under its lock, and of
`POST /meta/cleanup`, without one; `Crash` loses what is in flight.

The run `push`: a watermark tells of a version no older than the one pushed
and of no run before the previous error run, whatever the clean-up deletes
meanwhile (`WatermarksHold`); two cleaners on lists of their own spare what
each of them was to keep (`CleanupSpares`); once the rows were read each
cluster is settled whatever becomes of the one before it, unless the process
dies (`EveryClusterSettled`). Bounds: four runs of two
versions, two clusters, one retry, one run retained, batches of one, so that
every deletion meets a list made before the last ending; crashes and failed
reads are not bounded. Fairness: the event loop runs a push task on; calls time out.

Proved in `BackflowProofs`, from `PushAssumption`, for any number of runs,
versions, clusters and cleaners, any `retain_runs` and any size of a batch:
`PushTypeCorrect`, `PushKeepsWatermarks` and `CleanupSparesTheNewest`. The last
one is about lists that are worked out once and deleted much later. `PushInv`,
proved as `PushInvHolds`, says that such a list never comes to hold a run the
clean-up would keep by now, and that error runs stay; two lemmas about the rule
of `candidates_to_purge` itself, for any finite group of runs in any total
order, carry it: a run that joins the group makes the rule keep no other run
it did not keep before (`SparedGrows`), and neither do runs that leave without
having been kept (`SparedShrinks`). `GivesWay` says what a run that is not
kept gives way to. `PushInv` also says that a task that sends has as many
clusters left as nothing has settled. `EveryClusterSettled` is model-checked.

The model also has what no property forbids: an answer that is lost and
repeated, pushes that overtake each other, a push that dies with the process.

## 9. CaseExecution

One case of one run: `StartSample`, `PrepareStep`, `BuildRequest`, `OpenStream`
or `SyncAnswer`, `Frame` by frame, `Retry`, `SampleDone` and the row. The agent
numbers its frames; `parts` is what the assembler has put together. A stream
may break between frames, within a line or within a frame (`scars` remembers
how), and is then resumed behind the last id seen, if ids are sent. The parser
belongs to the adapter, which is made once per case: its `last` and `left`
outlive an attempt.

The run `execution`: no delta twice and none out of order, and an answer that
passed the contract check is complete, with the exceptions the property names:
a half line that swallowed a frame, a resumption behind the id of an earlier
attempt (`AnswerIsTheAgents`); the row says what happened (`RowIsEarned`); the
agent is called as often as the interface allows, and no sample is begun once
the run is cancelled (`CallsAreBudgeted`); every case ends, with its row unless
it was cancelled or something raised through it: the reset, or the saving, when
`_ensure_case_version` finds its version number taken (`CaseEnds`, the event
loop being fair). An interface with side effects is called twice when its stream
has to be resumed, see section 13. Bounds: nine setups that
differ from a plain one in one or two ways (`MCCaseExecution`), two samples,
two retries, two deltas: a frame before, between and behind the break.

Proved in `CaseExecutionProofs`, for any setups, samples, retries and number of
deltas, from `ExecutionAssumption`: `CaseTypeCorrect`, `RowsAreEarned`,
`CallsStayInBudget` and `AnswersAreTheAgents`. The invariant `CaseInv` is made
of `Counted` (good samples are those begun but for the one in hand; a pass or
fail is written at the end), `Budget` (what an attempt has called so far, on
top of one call of each before, or of two if streams can be resumed), and three parts about the stream: `Numbered`
(the last id in the parser names the place the stream was left at, unless no
frame of this attempt carried one), `Consecutive` (unless a frame was torn the
deltas kept follow one another, and the next frame is one of them or the one
behind) and `Whole`. With `Consecutive`, a delta that is dropped as known is one
of an interval, so a stream that starts again from 1 after `Last-Event-ID`
closes the gap exactly. `CaseEnds` is model-checked.

## 10. What an evaluation is computed from

Eight modules hold what runs, people and discovery work on and compute. None
of them changes a row of another while it works, so interleaving them would
show nothing: in `MCEvaluation` a behaviour moves one `part`, chosen at its
start, and the others rest in one initial state. `race` and `suite` are two
sides of `CaseVersions` (two runs of one case; one run of several), `annotate`
and `sign` of `Curation`, `wire` and `adopt` of `AdapterWiring`, `probe` and
`ask` of `ContractProbe`, `score` and `tune` of `Scoring`.

| module | state | code | property |
|---|---|---|---|
| `CaseVersions` | `case`, `versions`, `run` | cases are edited while runs load them; `_ensure_case_version` looks up, compares the hash and inserts the next number in a later step; refill and salvage fill rows in | `SnapshotIsWhatRan`: the version a result names is the content that was sent; `MissingIsRefilled`: comparing two numbers, who ends a run sees every loaded case without a row, and nobody leaves the list of the run |
| `Curation` | `notes`, `status`, `target`, `request` | a request begins with a snapshot and commits later; the rows it locks are read anew | `StatusCatchesUp`: a request that overlaps none repairs the status; `TwoSigners`: approved means two different people |
| `InterfaceRegistry` | `rows`, `syncing` | discovery compares, a person confirms later, registration checks again; the table has no unique key | `SyncSettles`: confirming a discovery leaves nothing new for the next one, no interface twice, no name twice |
| `AdapterWiring` | `call`, `kept` | templates, the references a manifest may contain, `check_input_wiring`, `prepare`, skeletons, confirmation and the agent's form | `TemplatesAreFilled`: what the checks let through is resolved wherever the code renders, which it does not in the path of an ordinary step; a skeleton passes the check of the configuration in force |
| `ContractProbe` | `exchange`, `asked` | one exchange read by `probe_interface` and by `execute_case`; the input of a probe from three places | `ProbeForetells`: what the probe accepts has its end and its usage for the execution too, and is scored if its values are texts within the limits of a case; a lacking sample is not held against the agent, an input that is there is used |
| `Assertions` | `unified` | the operators of `assertions/ops` over an answer, a list and calls; `ErrorVerdict` | `OpsAgree`: F1 is the overlap measure, contraries exclude each other, a range of one is equality |
| `JudgeSampling` | `task`, `client`, `round`, `cache`, `setting` | samples, majority, verdict cache with its key, its end of life and its switch; an exception of the database ends the round early (`gather`) and its other coroutines go on beside later ones | `ReuseIsSound`: a reused verdict was given for the same question, by the same model, and, unless such a coroutine brought it over, since the last clearing the task may know of |
| `Scoring` | `result`, `weights`, `targets`, `score` | metrics, gates, N/A protection, counts, flag, closing; PUT of weights and targets; card and list of failures | `BetterIsNeverWorse`, `UnjudgedRunIsFlagged`, `ViewsFollowGates` |

Numbers in `Scoring` are integers in units of 1/`Scale` of a point; rounding
is half up in these units, as the columns and `round` have it for the values
that occur. A content is what `_content_hash` tells apart; a template is the
set of its placeholders; a verdict is a level.

Bounds: two cases, two edits, two runs (both insert the same number); three
people, one an admin, two writes each; manifests of up to two interfaces, three
rows; contracts of up to two steps and one or two references, among them one
of each kind that can be wrong, one of them in the path of a step; every exchange,
with one way for it to end and one kind of wrong value; every way to ask for a probe;
three words; two tasks with two prompts, two models, a cache of one entry and
three changes of settings or failures of the database (an entry is evicted,
expired, reused and asked again; a round ends early, the cache goes off and on
and the coroutine that was left stores); suites of one row with any metrics or two of a few, three tables of
weights and targets, two later changes of them. Safety only: no fairness is
needed, `StatusCatchesUp` and `SyncSettles` are about steps.

Proved in `EvaluationProofs`, for every value of the constants:

- `ApprovedHasTwoSigners`, from `CurationInv`: nobody else writes the name
  of a person whose request is open, so the names a snapshot showed are still
  there when it commits (`FoundStands`), and an approved target has two of them
  (`Names`). `StatusCaughtUp`: a
  request that nobody disturbed sees what is there now (`SeesNow`).
- `ResultsNameWhatRan`, from `VersionsInv`: versions are numbered without a gap
  and never change, the newest number a writer looked up is no greater than the
  newest there is now (`WorkFits`), and a row names a version with the content that
  was loaded, or is a salvage's (`RowsAreTrue`). `MissingIsSeen` needs
  `KeepsToPlan`: coroutines have loaded cases only and nobody else fills in before
  the run ends, so the rows are a part of the plan and, where they are as many, all
  of it. The exemption, a salvage that came first, does happen: `NumbersTell` in
  section 13.
- `SharedVerdictsAreSound`, from `SamplingInv`: an entry of the cache was given
  for its key, in the present epoch or by a coroutine that read `cache_on` in an
  earlier one (`FreshEntries`), a cache that is off is empty, and the samples of
  a task that is judged are for its prompt by its own model (`OwnSamples`), also
  while other rounds pass beside it. That the anchor of a majority is one of the
  samples is a lemma over sequences of any length. What `strayed` exempts does
  happen: `ReopenedIsFresh` in section 13.
- `CheckedIsRendered`, the theorem of `TemplatesAreFilled`. What is left of a
  template after rendering is a placeholder of the contract, and both checks
  look at all of them; the skeleton holds the path of every field, of any
  depth. The path of an ordinary step is scanned by both and not rendered, so that the
  theorem is about the rest (`LeftInPaths`, and `NothingIsSentLiterally` in section
  13). Only the last conjunct needs an invariant, `WiringInv`: what the
  column or an open form holds of a manifest is the configuration beside it
  until a person changes that (`Belongs`). `WiringAssumption` says of the
  contracts what the placeholder's syntax and the scan give: a reference is of
  one of four domains, and one into the input of a manifest names a key
  (`{{input}}` alone is of no domain).

Proved in `ComputationProofs`, for suites, manifests, rows and tables of any
size. Where a claim is about every element of a list or a set, the proof takes
a smallest case for which it fails (`WFMin` on numbers, `LeastSubset` on finite
sets) and finds a smaller one: the library's own induction theorems have an
operator as parameter, which the provers cannot instantiate. `FoldIs` and its
kin say once what a fold of the community modules is, by the list of its
intermediate results.

- `ScoresDoNotPunish`, `LostJudgingIsFlagged` and `ViewsAgree`, from
  `ScoringInv`: rows, weights and targets hold what metrics, bodies and columns
  can; a row that has a score has the outcome that today's tables give it as
  long as none was changed, and the flag is the one of the rows. A better answer
  has the same dimensions under the same weights, so its weighted sum does not
  fall, neither does the rounded mean (`QuotientOrder`), and each gate that was
  met still is. A share of lost judging that is exceeded in every row is exceeded in
  the sums. A mean of scores that are no less than a target of whole cents is
  no less than it when rounded. Flag and list of failures are claimed for
  tables that were not changed since the run was scored (`current`), and the card for
  targets as the column stores them, with two decimals.
- `ProbesForetell`: `ProbeInv` says only which exchanges and questions
  there are; the probe's checks and the execution's are then compared
  condition by condition. What only the execution looks at is exempted by name
  (`Texts`, `WithinLimits`, `AsContracted`), and does happen: `ProbedIsScored`.
- `OperatorsMeanWhatTheySay`: for any finite set of words and any thresholds.
  F1 against a share and the overlap measure are the same comparison of numbers
  of words, by `Cancelled` (a common factor) and the cardinality of an overlap.
- `RegistrationsSettle`, from `RegistryInv`: who registers while nobody else
  does sees the rows as they are, except that some were disabled since
  (`SameRows`), which changes no key and no name. `Made` follows the rows a
  registration makes item by item: each item has a row with its key, made or
  found; names are fresh, since `unique_name` tries more suffixes than there are
  names (a pigeonhole argument over finite sets). What the next discovery calls new
  (`AddedIs`) is then empty.

The assumptions (`ScoringAssumption`, `ProbeAssumption`, `AssertionsAssumption`,
`RegistryAssumption`) say what the tables hold: a weight the API accepts
is between 0 and 100, a stored target is a whole number of cents, a list of the
manifest is a list. TLC evaluates them in the run.

What the modules have and no property claims: a target that waits for its
second signature already is a gate (`scorer._load_targets`), while the
dashboard leaves it out; targets changed after a run make the list of failures
explain old verdicts with new targets; the probe wants an answer and timing
that the execution does not, which looks at types, sizes and times that the probe
does not; a salvage names the newest version whatever it
holds; `rerun_run` inherits a list without checking it, and a rerun whose
cases have all gone ends as `completed` with nothing run; an interface
declared twice by a version 2 manifest is registered twice; two syncs at once
register everything twice; a changed name is reported for ever once it had to
be renamed; an agent's form that changes the templates leaves the old manifest
in place.

## 11. How properties were chosen

A property is checked when an order of steps, a lost call or a boundary could
break it and a test would hardly try that. Each has been seen to fail for a
plausible bug in the code it is about: the operators marked *Mutation* are
these bugs.

## 12. The runs

| run | module | fairness | asks for |
|---|---|---|---|
| `run_manual`, `run_error` | `MCRunLifecycle` | section 3 | section 3 |
| `limiter` | `MCKeyedLimiter` | section 4 | section 4 |
| `breaker` | `MCCircuitBreaker` | section 5 | section 5 |
| `admission` | `MCRunAdmission` | section 6 | section 6 |
| `judge` | `MCJudgeQueue` | section 7 | section 7 |
| `backflow`, `push` | `MCBackflowInbox`, `MCResultPush` | section 8 | section 8 |
| `execution` | `MCCaseExecution` | the event loop | section 9 |
| `evaluation` | `MCEvaluation` | none | section 10 |
| `retry_poisoned`, `zero_weights` | `MCCaseExecution`, `MCEvaluation` | none | *violated*, section 13 |

The largest are `evaluation` (0.9 million states), `push` and `run_manual` (0.3
million each), about two minutes each on two cores. Deadlock checking is off where the
system comes to rest; `judge` keeps it on.

## 13. Where the code disagrees with itself

Two runs show it:

- `retry_poisoned`: `_finish_event` (`core/sse_parser.py:83`) raises before it
  clears its data lines, and the parser is shared by all attempts of a case
  (`adapters/engine.py:163`). Every retry then fails with a parse error of its
  own, although `executor.py:33-34` lists parse errors among those a retry
  helps against (`RetryStartsClean`).
- `zero_weights`: `scorer.py:125` divides by the weights of the dimensions
  that apply; weights of 0 are legal (`scorer.py:145`, `api/agents.py:86`). The
  exception closes the run as `partial_failed`, its rows keep the provisional
  `pass` (`LegalWeightsAreScored`).

Further statements of docs and comments are defined in the modules and false
of the code. Each can be seen by checking the one property with the constants
given, the rest of the .cfg being that of the passing run:

| property | module and constants | what happens | what says otherwise |
|---|---|---|---|
| `NoCallAfterReap` | `MCRunLifecycle`, `RunManual.cfg` | neither the wait for the agent's lock, the reset nor a retry is followed by a look at the flag: the agent is called for a run that was ended (`orchestrator.py:564-609`) | `runner/scanner.py:5` |
| `NoSampleAfterReap` | `MCRunLifecycle`, `RunError.cfg`, `MaxFaults = 0`, `MaxRequests = 0` | `_finish_error_regression` pops the flag the scanner has set, the remaining cases of a reaped error run go on | `runner/scanner.py:5` |
| `ScoringFailedSticks` | `RunManual.cfg`, `JudgeModes = {TRUE}`, no faults, no requests | the commit of the judge tasks releases the row lock, `scoring_failed` is overwritten | `runner/scorer.py:225-229` |
| `SignalAfterTerminal` | the same | the schedule is fired when `score_run` returns, with a judge the run is `scoring` then | `runner/orchestrator.py:800-802` |
| `ReapedIsScored` | `RunManual.cfg`, no faults, no requests, `SPECIFICATION Spec` | a row saved between the salvage's read and its insert costs the run its score | `runner/scorer.py:364-365` |
| `SideEffectsOnce` | `Execution.cfg` | a stream that closes before its done event is resumed by sending the request again (`executor.py:184-189`) | `orchestrator.py:556`, `tests/test_orchestrator_retry.py:1` |
| `EveryCaseServed` | `Limiter.cfg`, `Config <- Agreeing`, `Reaped = {"e"}`, `MaxAborts = 0` | the bucket of a reaped error run is dropped while one case executes and one waits: the waiter is never woken, its slot is gone | `core/limiter.py:1` |
| `ExhaustedIsClosed` | `Judge.cfg`, `MaxFaults = 2`, `SPECIFICATION Spec` | a task that is reclaimed again and again passes `judge_max_retries` and stays open | `judge/worker.py:96-97` |
| `ReopenedIsFresh` | `MCEvaluation`, `Evaluation.cfg` | a coroutine whose round ended early read `cache_on` before an off and stores after the next on; its verdict from before the clearing is reused | `judge/verdict_cache.py:48-49` |
| `NumbersTell` | `MCEvaluation`, `Evaluation.cfg`, `MaxEdits = 3` | a salvage fills in a case that was enabled meanwhile; it makes up for one that was retired then and is back when `_finish` counts, which stays without a row | `runner/orchestrator.py:761` |
| `NothingIsSentLiterally` | `MCEvaluation`, `Evaluation.cfg` | a placeholder in the path of an ordinary step passes the wiring check and the scan of the manifest; it is never rendered (`engine.py:230`) | `adapters/engine.py:72` |
| `ProbedIsScored` | `MCEvaluation`, `Evaluation.cfg` | an answer that is a number or a list, a stream over the cap or one that trickles passes the probe; every case of the agent is then a technical failure | `README.md:295` |
| `NoIdleRun` | `MCEvaluation`, `Evaluation.cfg` | a rerun inherits a list whose cases were retired, nobody checks it, the run ends `completed` with no case | `api/runs.py:397-398` |
| `FailureIsAbsorbed` | `MCResultPush`, `Push.cfg` | an exception in the read of the rows (`error_push.py:194-209`) ends the push of every cluster, nobody asks the task for it | `error_push.py:231`, `:237` |
| `Heals` | `Backflow.cfg`, `Payloads = {p1}`, all four contents | the healing ack of the probe is lost, and its row no longer waits for anybody | `runner/pull_loop.py:374-380` |

Read while modelling, without a property: the estimate of the hard deadline
divides by the number of active runs where its docstring says that more of
them give a longer one (`orchestrator.py:90-117`); a loop round that
fails its `GET_LOCK` skips the sleep (`scanner.py:180`, `pull_loop.py:93` and
the cap-gap probe); `True` equals 1 although types are said to be compared
(`assertions/ops/structure.py:46`); the life of a cached verdict is renewed by
every use although `verdict_cache.py:12` has it end after a fixed time; the
seed of a reset is rendered without the wiring check, its path is not rendered; the manifest of version
2 may declare an interface twice although `core/contracts.py:15` forbids it.

## 14. Proved, model-checked, not modelled

Proved by TLAPS for every value of the constants (modules `...Proofs`), the
arguments at the end of the section of each module:

| module | proved |
|---|---|
| `RunLifecycle` | types, `NoResurrection`, `ErrorRunDomain`, `CompletedMeansJudged`, `ReportIsTrue`, `NoSampleAfterReap` of manual runs |
| `KeyedLimiter` | `PoolConserved`, `CallsWithinQuota`, refinement of `AgentSlots` |
| `CircuitBreaker` | types, `OpenedByFailures`, `ClosedByProbe`, `TurnsAreEarned`, refinement of `BreakerContract` |
| `RunAdmission` | types, `ActiveWithinLimit`, `OneActiveErrorRun`, refinement of `RegressionLedger` |
| `JudgeQueue` | types, `WorkedOnIsOwned`, `ScoredWithOutcomes`, `JudgedAtATime`, refinement of `JudgeBoard` |
| `BackflowInbox` | types, `RowKeepsItsWord`, refinement of `BackflowLink` |
| `ResultPush` | types, `WatermarksHold`, `CleanupSpares` |
| `CaseExecution` | types, `RowIsEarned`, `CallsAreBudgeted`, `AnswerIsTheAgents` |
| `Curation`, `CaseVersions`, `JudgeSampling`, `AdapterWiring` | `TwoSigners`, `StatusCatchesUp`, `SnapshotIsWhatRan`, `MissingIsRefilled`, `ReuseIsSound`, `TemplatesAreFilled` |
| `Scoring`, `ContractProbe`, `Assertions`, `InterfaceRegistry` | `BetterIsNeverWorse`, `UnjudgedRunIsFlagged`, `ViewsFollowGates`, `ProbeForetells`, `OpsAgree`, `SyncSettles` |

Each rests on the named assumption of its module only.

Every safety property of the passing runs is among them. Model-checked only:
`Converges`, `ReapedErrorRunIsPushed`, `EveryCaseServed`, `Recovers`,
`EveryVersionRegressed`, `QueueDrains`, `Answered`, `CaseEnds` and
`EveryClusterSettled`. They are liveness properties under fairness, which is a
statement about ENABLED, and that is out of the prover's reach.

Not modelled:

- the alert on stale acks (its memory is kept per process, so alerts and
  recoveries may repeat or be missed with several workers);
- the selection of the cases of an error run with its cap, and the estimate of
  the hard deadline;
- endpoints that only read, or write one row nothing above decides by: users,
  sessions, settings, audit, exports, scenes, uploads, trend, comparison,
  coverage;
- the host check and the encoding of requests, the text of prompts and replies;
- the frontend, the migrations, the seeds and the scripts run by hand.
