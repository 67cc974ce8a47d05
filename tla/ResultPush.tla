------------------------------ MODULE ResultPush ------------------------------
(***************************************************************************)
(* What leaves the ledger of runs: the results of an error run, which are  *)
(* pushed to the online platform cluster by cluster after its ending has   *)
(* been committed, and the old runs, which the clean-up deletes. The push  *)
(* reports two watermarks of the agent's runs that the clean-up may be     *)
(* deleting at that moment. One agent, one suite of its own and its error  *)
(* suite; the runs are created, started and ended by RunAdmission and      *)
(* RunLifecycle, of which only the order is kept here.                     *)
(***************************************************************************)
EXTENDS Integers, Sequences, FiniteSets, FiniteSetsExt

CONSTANTS
    Versions,    \* the place of each version in the order of _ver_key
    MaxClusters, \* bound: clusters of the online platform the cases of a run come from
    Scanners,    \* cleaners that take the lock 'scanner_loop' first, one per worker
    Requests,    \* calls of POST /meta/cleanup, which take no lock
    Retain,      \* retain_runs
    Batch,       \* runs deleted by one transaction
    MaxRetries,  \* PUSH_MAX_RETRIES
    MaxActive,   \* max_active_runs_per_agent
    LastTime,    \* bound: different times a run may have started at
    MaxRuns      \* bound: runs ever created

ASSUME PushAssumption ==
    /\ Versions \subseteq Nat \ {0}
    /\ Retain \in Nat \ {0} /\ Batch \in Nat \ {0}
    /\ {MaxClusters, MaxRetries, MaxActive, LastTime, MaxRuns} \subseteq Nat
    /\ Scanners \cap Requests = {}

Cleaners == Scanners \cup Requests
None == 0  \* no run, no version

VARIABLES
    runs,      \* eval_run in the order of ids; a deleted one is "gone"
    push,      \* the push task of each run
    todo       \* candidates a cleaner has still to delete

pushVars == <<runs, push, todo>>

\* pinned is set for error runs, at their creation, and by nothing else. started_at is known
\* when a run has ended; for error runs it makes no difference.
Run(v, pinned) == [version |-> v, pinned |-> pinned, status |-> "active", started |-> 0]
\* left: clusters still to be pushed; open: those nothing has settled yet.
NoPush == [stage |-> "none", left |-> 0, open |-> 0, tries |-> 0, latest |-> None, prev |-> None]
Done(p) == [NoPush EXCEPT !.stage = "done", !.open = p.open]

Ids == DOMAIN runs
Ended == {i \in Ids : runs[i].status = "ended"}
Active == {i \in Ids : runs[i].status = "active"}
-----------------------------------------------------------------------------
PushInit ==
    /\ runs = <<>>
    /\ push = [i \in 1..MaxRuns |-> NoPush]
    /\ todo = [c \in Cleaners |-> {}]

CreateManual(v) ==
    /\ Len(runs) < MaxRuns
    /\ Cardinality({i \in Active : ~runs[i].pinned}) < MaxActive
    /\ runs' = Append(runs, Run(v, FALSE))
    /\ UNCHANGED <<push, todo>>

\* One active error run at a time, for a version that has a run that ended.
CreateError(v) ==
    /\ Len(runs) < MaxRuns
    /\ \A i \in Active : ~runs[i].pinned
    /\ \E i \in Ended : ~runs[i].pinned /\ runs[i].version = v
    /\ runs' = Append(runs, Run(v, TRUE))
    /\ UNCHANGED <<push, todo>>

\* A run that was cancelled before its claim has no started_at (datetime.min). A claim may
\* come long after the creation and long before the end.
EndManual(i, t) ==
    /\ ~runs[i].pinned /\ runs[i].status = "active"
    /\ runs' = [runs EXCEPT ![i].status = "ended", ![i].started = t]
    /\ UNCHANGED <<push, todo>>

\* _finish_error_regression: commit, then fire_push; its cases come from n clusters.
EndError(i, n) ==
    /\ runs[i].pinned /\ runs[i].status = "active"
    /\ runs' = [runs EXCEPT ![i].status = "ended"]
    /\ push' = [push EXCEPT ![i] = [NoPush EXCEPT !.stage = "fired", !.open = n]]
    /\ UNCHANGED todo
-----------------------------------------------------------------------------
(* push_run_results                                                        *)

\* Mutation: the run that is pushed does not count.
CountsOthers(i) == Ended \ {i}
\* Terminal runs of the agent, the run itself among them, of whatever trigger.
CountsForLatest(i) == Ended

LatestVersion(i) ==
    IF CountsForLatest(i) = {} THEN runs[i].version
    ELSE Max({runs[j].version : j \in CountsForLatest(i)})
\* The nearest earlier run, by id; None says it is the agent's first.
PreviousRun(i) ==
    LET earlier == {j \in Ended : j < i} IN IF earlier = {} THEN None ELSE Max(earlier)

\* One transaction reads the run, its rows and the watermarks. There is nothing to push for
\* a run that is gone or has no case of a known cluster.
ReadForPush(i) ==
    /\ push[i].stage = "fired"
    /\ push' = [push EXCEPT ![i] =
         IF i \notin Ended \/ @.open = 0 THEN Done(@)
         ELSE [stage |-> "sending", left |-> @.open, open |-> @.open, tries |-> 0,
               latest |-> LatestVersion(i), prev |-> PreviousRun(i)]]
    /\ UNCHANGED <<runs, todo>>

\* The transaction stands in no try: the database fails, the exception ends the task, and
\* nothing fires the push again.
ReadRaises(i) ==
    /\ push[i].stage = "fired"
    /\ push' = [push EXCEPT ![i] = [NoPush EXCEPT !.stage = "failed"]]
    /\ UNCHANGED <<runs, todo>>

\* What a call meets: an answer; no answer, one nobody can read or a status worth a retry
\* (5xx, 408, 429), whether the platform took the results or not; any other status.
Meets == {"answered", "unavailable", "refused"}

\* Mutation: a cluster that fails ends the push.
FailureEnds(left, met) == IF met = "answered" THEN left - 1 ELSE 0
\* Every cluster is pushed whatever became of the ones before.
StillToPush(left, met) == left - 1

\* _push_one, one attempt; the clusters follow one another.
Attempt(i, met) ==
    LET again == met = "unavailable" /\ push[i].tries < MaxRetries
        rest == [push[i] EXCEPT !.left = StillToPush(push[i].left, met), !.open = @ - 1, !.tries = 0]
    IN /\ push[i].stage = "sending"
       /\ push' = [push EXCEPT ![i] = IF again THEN [push[i] EXCEPT !.tries = @ + 1]
                                       ELSE IF rest.left = 0 THEN Done(rest)
                                       ELSE rest]
       /\ UNCHANGED <<runs, todo>>
-----------------------------------------------------------------------------
(* run_cleanup                                                             *)

\* The order of (started_at or datetime.min, id).
Newer(j, i) ==
    \/ runs[j].started > runs[i].started
    \/ runs[j].started = runs[i].started /\ j > i

\* Mutation: sorted, but not reversed.
OldestOf(S, n) == {i \in S : Cardinality({j \in S : Newer(i, j)}) < n}
NewestOf(S, n) == {i \in S : Cardinality({j \in S : Newer(j, i)}) < n}

Group == {i \in Ended : ~runs[i].pinned}
\* The newest run of each version.
Representatives ==
    {i \in Group : \A j \in Group : runs[j].version = runs[i].version => ~Newer(j, i)}
Keep ==
    NewestOf(Representatives, Retain)
      \cup NewestOf(Group \ Representatives, Retain - Cardinality(Representatives))

Candidates == Group \ Keep

\* The candidates are worked out once; the scanner of one worker at a time is in its pass.
TakeCandidates(c) ==
    /\ todo[c] = {}
    /\ c \in Scanners => \A s \in Scanners : todo[s] = {}
    /\ Candidates # {}
    /\ todo' = [todo EXCEPT ![c] = Candidates]
    /\ UNCHANGED <<runs, push>>

\* A batch is a transaction, oldest ids first; a run the other cleaner deleted is no error.
DeleteBatch(c) ==
    LET batch == {i \in todo[c] : Cardinality({j \in todo[c] : j < i}) < Batch}
    IN /\ todo[c] # {}
       /\ runs' = [i \in Ids |->
                    IF i \in batch THEN [runs[i] EXCEPT !.status = "gone", !.started = 0] ELSE runs[i]]
       /\ todo' = [todo EXCEPT ![c] = @ \ batch]
       /\ UNCHANGED push
-----------------------------------------------------------------------------
\* The tasks of the process are lost: no push is repeated, the clean-up starts afresh.
Crash ==
    /\ todo # [c \in Cleaners |-> {}] \/ \E i \in Ids : push[i].stage \in {"fired", "sending"}
    /\ push' = [i \in DOMAIN push |->
                  IF push[i].stage \in {"fired", "sending"} THEN [NoPush EXCEPT !.stage = "lost"]
                  ELSE push[i]]
    /\ todo' = [c \in Cleaners |-> {}]
    /\ UNCHANGED runs

PushNext ==
    \/ \E v \in Versions : CreateManual(v) \/ CreateError(v)
    \/ \E i \in Ids, t \in 0..LastTime : EndManual(i, t)
    \/ \E i \in Ids : ReadForPush(i) \/ ReadRaises(i)
    \/ \E i \in Ids, n \in 0..MaxClusters : EndError(i, n)
    \/ \E i \in Ids, met \in Meets : Attempt(i, met)
    \/ \E c \in Cleaners : TakeCandidates(c) \/ DeleteBatch(c)
    \/ Crash

\* The event loop runs a push task on: a call ends, at the latest by its timeout.
PushFairness ==
    \A i \in 1..MaxRuns :
        /\ WF_pushVars(i \in Ids /\ (ReadForPush(i) \/ ReadRaises(i)))
        /\ WF_pushVars(i \in Ids /\ \E met \in Meets : Attempt(i, met))

PushSpec == PushInit /\ [][PushNext]_pushVars /\ PushFairness
-----------------------------------------------------------------------------
\* The type of every variable.
PushTypeOK ==
    /\ runs \in Seq([version : Versions, pinned : BOOLEAN, started : 0..LastTime,
                     status : {"active", "ended", "gone"}]) /\ Len(runs) <= MaxRuns
    /\ push \in [1..MaxRuns -> [stage : {"none", "fired", "sending", "done", "failed", "lost"},
                                left : 0..MaxClusters, open : 0..MaxClusters, tries : 0..MaxRetries,
                                latest : Versions \cup {None}, prev : 0..MaxRuns]]
    /\ todo \in [Cleaners -> SUBSET (1..MaxRuns)]

(* The watermarks of a push tell the platform where it stands: the latest version is    *)
(* not older than the one pushed, else the platform finds the fix not released and the *)
(* cluster is never decided, and the previous run is no earlier than the error run     *)
(* before this one, which the clean-up may not take away (_watermarks, and pinned in   *)
(* candidates_to_purge).                                                               *)
WatermarksHold ==
    \A i \in Ids : push[i].stage = "sending" =>
        /\ push[i].latest >= runs[i].version
        /\ \A j \in Ids : j < i /\ runs[j].pinned => j <= push[i].prev

(* However many cleaners work at once on lists of their own, while runs end in any     *)
(* order: a run goes only when retain_runs newer ones of the suite stay, or when it    *)
(* gives way to the representatives of as many versions (candidates_to_purge).         *)
CleanupSpares ==
    [][\A i \in Ids : runs[i].status = "ended" /\ runs'[i].status = "gone" =>
         LET stays == {j \in Group : runs'[j].status = "ended"}
         IN /\ Cardinality(stays) >= Retain
            /\ \/ \E j \in stays : runs[j].version = runs[i].version /\ Newer(j, i)
               \/ Cardinality({runs[j].version : j \in {k \in stays : Newer(k, i)}}) >= Retain]_pushVars

(* Unless the process dies or the read of the rows fails, every cluster of an error run *)
(* that ended is settled: its results were answered, refused for good or given up after *)
(* every retry, whatever became of the clusters before it; and a push that has begun to  *)
(* send is ended by nothing but the death of the process (push_run_results, _push_one). *)
Settled(i) == push[i].stage = "done" /\ push[i].open = 0
EveryClusterSettled ==
    /\ [][\A i \in 1..MaxRuns : push[i].stage = "sending" => push'[i].stage # "failed"]_pushVars
    /\ \A i \in 1..MaxRuns :
          push[i].stage = "fired" ~> push[i].stage \in {"lost", "failed"} \/ Settled(i)

(* NOT TRUE of the code. error_push.py:231 and :237 say that an exception is dealt with  *)
(* inside the task. One in the read of the rows (194-209) ends it, and with it the push  *)
(* of every cluster, and nobody asks the task for it.                                    *)
FailureIsAbsorbed ==
    \A i \in 1..MaxRuns : push[i].stage = "fired" ~> push[i].stage = "lost" \/ Settled(i)
=============================================================================
