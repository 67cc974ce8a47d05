---------------------------- MODULE RunAdmission ----------------------------
(***************************************************************************)
(* Who may create a run of an agent. The API's create and rerun admit      *)
(* manual runs up to a limit; the schedule fired after a manual run and    *)
(* the reconciliation loop build error regression runs, one at a time and  *)
(* each version once unless its regression broke. All of them lock the     *)
(* row of the agent, look, and insert: a session here is the code from     *)
(* the look to the commit, with other actors in between. The lock and the  *)
(* look are one step: nothing but the end of a run comes between them, and *)
(* that might as well have come first.                                     *)
(*                                                                         *)
(* A request stands for the manual run it creates and for the schedule     *)
(* task fired after that run.                                              *)
(***************************************************************************)
EXTENDS Naturals, Sequences, FiniteSets

CONSTANTS
    Requests,    \* calls of create_run and rerun_run
    Versions,
    VersionOf,   \* the version a request is made for
    MaxActive,   \* max_active_runs_per_agent
    MaxFaults    \* bound: crashes and sessions that fail

ASSUME AdmissionAssumption ==
    /\ VersionOf \in [Requests -> Versions]
    /\ MaxActive \in Nat \ {0}
    /\ MaxFaults \in Nat
    /\ "none" \notin Requests

NoAnchor == "none"

VARIABLES
    runs,       \* eval_run in the order of ids
    request,    \* "new", "begun", "insert", "done"
    snapshot,   \* active manual runs when the request's transaction began
    signal,     \* the schedule task: "none", "fired", "insert", "done"
    reconcile,  \* "idle", "picked", "insert"
    anchor,     \* the request whose run it takes as the signal, NoAnchor when idle
    runnable,   \* the agent's error suite has a case that can run
    faults

vars == <<runs, request, snapshot, signal, reconcile, anchor, runnable, faults>>

(* pending and running are "active". An error run is then "judged" (completed, *)
(* partial_failed) or "broken" (timeout, cancelled); a manual run is "ended",   *)
(* scoring included: it does not execute any more and counts as a signal.       *)
ManualRun(q, st) == [kind |-> "manual", version |-> VersionOf[q], status |-> st, by |-> q]
ErrorRun(q, st)  == [kind |-> "error_regression", version |-> VersionOf[q], status |-> st, by |-> q]

Ids == DOMAIN runs
ActiveManual == {i \in Ids : runs[i].kind = "manual" /\ runs[i].status = "active"}
ActiveError  == {i \in Ids : runs[i].kind = "error_regression" /\ runs[i].status = "active"}
ErrorRunsOf(v) == {i \in Ids : runs[i].kind = "error_regression" /\ runs[i].version = v}
\* The newest of a set of ids.
Newest(S) == CHOOSE i \in S : \A j \in S : j <= i
-----------------------------------------------------------------------------
Init ==
    /\ runs = <<>>
    /\ request = [q \in Requests |-> "new"]
    /\ snapshot = [q \in Requests |-> 0]
    /\ signal = [q \in Requests |-> "none"]
    /\ reconcile = "idle"
    /\ anchor = NoAnchor
    /\ runnable = FALSE
    /\ faults = 0

\* agent_mutex and _lock_agent: SELECT ... FOR UPDATE of the agent's row.
LockFree ==
    /\ \A q \in Requests : request[q] # "insert" /\ signal[q] # "insert"
    /\ reconcile # "insert"
-----------------------------------------------------------------------------
(* create_run, rerun_run                                                   *)

\* The first consistent read fixes what plain reads of the transaction see.
Begin(q) ==
    /\ request[q] = "new"
    /\ request' = [request EXCEPT ![q] = "begun"]
    /\ snapshot' = [snapshot EXCEPT ![q] = Cardinality(ActiveManual)]
    /\ UNCHANGED <<runs, signal, reconcile, anchor, runnable, faults>>

\* Mutation: a plain read, from the snapshot (the double insert P2-D2 measured).
PlainCount(q) == snapshot[q]
\* The locking read sees what is committed.
LockingCount(q) == Cardinality(ActiveManual)

\* Under the limit the request goes on, else it is turned down (409).
CountActive(q) ==
    /\ request[q] = "begun" /\ LockFree
    /\ request' = [request EXCEPT ![q] = IF LockingCount(q) < MaxActive THEN "insert" ELSE "done"]
    /\ snapshot' = [snapshot EXCEPT ![q] = 0]
    /\ UNCHANGED <<runs, signal, reconcile, anchor, runnable, faults>>

InsertManual(q) ==
    /\ request[q] = "insert"
    /\ runs' = Append(runs, ManualRun(q, "active"))
    /\ request' = [request EXCEPT ![q] = "done"]
    /\ UNCHANGED <<snapshot, signal, reconcile, anchor, runnable, faults>>
-----------------------------------------------------------------------------
(* maybe_auto_schedule, called for the run of request q                    *)

\* Mutation: whatever ended is regressed again.
RebuildsJudged(v, q) ==
    \A i \in ErrorRunsOf(v) :
        i = Newest(ErrorRunsOf(v)) => runs[i].by # q /\ runs[i].status # "active"
\* _decide_schedule: the newest error run of the version is of another signal and broke.
Builds(v, q) ==
    \A i \in ErrorRunsOf(v) :
        i = Newest(ErrorRunsOf(v)) => runs[i].by # q /\ runs[i].status = "broken"

\* No case to run, nothing to decide, or the quota of one active run is used up: not built.
MayBuild(q) == runnable /\ Builds(VersionOf[q], q) /\ ActiveError = {}

\* The detached task that _finish creates; nothing waits for it.
FireSignal(q) ==
    /\ signal[q] = "none"
    /\ \E i \in Ids : runs[i] = ManualRun(q, "ended")
    /\ signal' = [signal EXCEPT ![q] = "fired"]
    /\ UNCHANGED <<runs, request, snapshot, reconcile, anchor, runnable, faults>>

DecideSignal(q) ==
    /\ signal[q] = "fired" /\ LockFree
    /\ signal' = [signal EXCEPT ![q] = IF MayBuild(q) THEN "insert" ELSE "done"]
    /\ UNCHANGED <<runs, request, snapshot, reconcile, anchor, runnable, faults>>

InsertForSignal(q) ==
    /\ signal[q] = "insert"
    /\ runs' = Append(runs, ErrorRun(q, "active"))
    /\ signal' = [signal EXCEPT ![q] = "done"]
    /\ UNCHANGED <<request, snapshot, reconcile, anchor, runnable, faults>>
-----------------------------------------------------------------------------
(* reconcile_loop                                                          *)

\* "Reached its end" of _signal_anchors: neither pending nor running.
Signals == {i \in Ids : runs[i].kind = "manual" /\ runs[i].status # "active"}
SignalsOf(v) == {i \in Signals : runs[i].version = v}

\* Mutation: only the newest version is looked after.
NewestOnly == {i \in Signals : i = Newest(Signals) /\ ErrorRunsOf(runs[i].version) = {}}
\* The newest signal of each version that never had an error run.
Missing == {i \in Signals : /\ i = Newest(SignalsOf(runs[i].version))
                           /\ ErrorRunsOf(runs[i].version) = {}}

\* One version a round, the one whose anchor came first, chosen without the lock.
PickVersion ==
    /\ reconcile = "idle" /\ runnable
    /\ reconcile' = "picked"
    /\ \E i \in Missing : (\A j \in Missing : i <= j) /\ anchor' = runs[i].by
    /\ UNCHANGED <<runs, request, snapshot, signal, runnable, faults>>

DecideReconcile ==
    /\ reconcile = "picked" /\ LockFree
    /\ \/ MayBuild(anchor) /\ reconcile' = "insert" /\ UNCHANGED anchor
       \/ ~MayBuild(anchor) /\ reconcile' = "idle" /\ anchor' = NoAnchor
    /\ UNCHANGED <<runs, request, snapshot, signal, runnable, faults>>

InsertForReconcile ==
    /\ reconcile = "insert"
    /\ runs' = Append(runs, ErrorRun(anchor, "active"))
    /\ reconcile' = "idle" /\ anchor' = NoAnchor
    /\ UNCHANGED <<request, snapshot, signal, runnable, faults>>
-----------------------------------------------------------------------------
(* The runs, as RunLifecycle has them, and trouble                         *)

Endings(i) == IF runs[i].kind = "manual" THEN {"ended"} ELSE {"judged", "broken"}

RunEnds(i) ==
    /\ runs[i].status = "active"
    /\ \E st \in Endings(i) : runs' = [runs EXCEPT ![i].status = st]
    /\ UNCHANGED <<request, snapshot, signal, reconcile, anchor, runnable, faults>>

\* The first error case of the agent is activated.
CasesActivated ==
    /\ ~runnable /\ runnable' = TRUE
    /\ UNCHANGED <<runs, request, snapshot, signal, reconcile, anchor, faults>>

\* A session or a wait for the lock fails: rolled back, answered or logged, not repeated;
\* the loop starts its next round.
RequestFails(q) ==
    /\ faults < MaxFaults /\ request[q] \in {"begun", "insert"}
    /\ faults' = faults + 1
    /\ request' = [request EXCEPT ![q] = "done"]
    /\ snapshot' = [snapshot EXCEPT ![q] = 0]
    /\ UNCHANGED <<runs, signal, reconcile, anchor, runnable>>

SignalFails(q) ==
    /\ faults < MaxFaults /\ signal[q] \in {"fired", "insert"}
    /\ faults' = faults + 1
    /\ signal' = [signal EXCEPT ![q] = "done"]
    /\ UNCHANGED <<runs, request, snapshot, reconcile, anchor, runnable>>

ReconcileFails ==
    /\ faults < MaxFaults /\ reconcile # "idle"
    /\ faults' = faults + 1
    /\ reconcile' = "idle" /\ anchor' = NoAnchor
    /\ UNCHANGED <<runs, request, snapshot, signal, runnable>>

\* Everything in memory is lost: requests under way, fired tasks, the round.
Crash ==
    /\ faults < MaxFaults
    /\ faults' = faults + 1
    /\ request' = [q \in Requests |-> IF request[q] = "new" THEN "new" ELSE "done"]
    /\ signal' = [q \in Requests |-> IF signal[q] = "none" THEN "none" ELSE "done"]
    /\ reconcile' = "idle" /\ anchor' = NoAnchor
    /\ snapshot' = [q \in Requests |-> 0]
    /\ UNCHANGED <<runs, runnable>>
-----------------------------------------------------------------------------
RequestStep(q) == Begin(q) \/ CountActive(q) \/ InsertManual(q)
SignalStep(q)  == DecideSignal(q) \/ InsertForSignal(q)
ReconcileStep  == PickVersion \/ DecideReconcile \/ InsertForReconcile
Fails == \/ \E q \in Requests : RequestFails(q) \/ SignalFails(q)
         \/ ReconcileFails

Next ==
    \/ \E q \in Requests : RequestStep(q) \/ FireSignal(q) \/ SignalStep(q)
    \/ ReconcileStep
    \/ \E i \in Ids : RunEnds(i)
    \/ CasesActivated
    \/ Fails \/ Crash

Spec == Init /\ [][Next]_vars

(* The event loop serves what has begun, the loop keeps its rounds, and      *)
(* every run ends (Converges in RunLifecycle). Requests, signals, new cases   *)
(* and faults are never forced. A request takes a bounded number of steps, so *)
(* one condition for all of them serves each.                                 *)
Fairness ==
    /\ WF_vars(\E q \in Requests : (request[q] # "new" /\ RequestStep(q)) \/ SignalStep(q))
    /\ WF_vars(ReconcileStep)
    /\ WF_vars(\E i \in Ids : RunEnds(i))

FairSpec == Spec /\ Fairness
-----------------------------------------------------------------------------
(* Properties.                                                             *)

Run == [kind : {"manual"}, version : Versions, by : Requests,
        status : {"active", "ended"}]
       \cup [kind : {"error_regression"}, version : Versions, by : Requests,
             status : {"active", "judged", "broken"}]

\* An error run is judged or broken in the end, a manual run leaves its slot.
TypeOK ==
    /\ runs \in Seq(Run)
    /\ request \in [Requests -> {"new", "begun", "insert", "done"}]
    /\ snapshot \in [Requests -> Nat]
    /\ signal \in [Requests -> {"none", "fired", "insert", "done"}]
    /\ reconcile \in {"idle", "picked", "insert"}
    /\ anchor \in Requests \cup {NoAnchor}
    /\ runnable \in BOOLEAN
    /\ faults \in 0..MaxFaults

\* Never more executing manual runs of an agent than configured, however many requests
\* race (C1, P2-D2: "two workers both pass the check").
ActiveWithinLimit == Cardinality(ActiveManual) <= MaxActive

\* One active error run per agent, whoever builds it: limits, breaker domain and push rely
\* on it (ERROR_ACTIVE_QUOTA).
OneActiveErrorRun == \A i, j \in ActiveError : i = j

\* Two builders and runs that end under them amount to the ledger: one regression at a
\* time, none repeated after a judged one.
Ledger == INSTANCE RegressionLedger WITH
    outcome <- [v \in Versions |-> IF ErrorRunsOf(v) = {} THEN "none"
                                   ELSE runs[Newest(ErrorRunsOf(v))].status]
ImplementsLedger == Ledger!Spec

\* No version is lost: once it had a run that ended in any way, it gets its regression,
\* though its signal may be lost or turned down because another one was active (R-3), as
\* soon as there is a case to run.
EveryVersionRegressed ==
    \A v \in Versions :
        runnable /\ SignalsOf(v) # {} ~> ErrorRunsOf(v) # {}
=============================================================================
