---------------------------- MODULE KeyedLimiter ----------------------------
(***************************************************************************)
(* The concurrency limits of the runs of one agent: a pool of slots shared *)
(* by all of them, and a bucket per run with a per-agent and a global      *)
(* semaphore. A case coroutine takes a slot of the pool, then looks its    *)
(* bucket up and waits for both semaphores of it; it gives all three back  *)
(* to the bucket it finds at the END of the case, which is the default     *)
(* bucket once the run's own was dropped.                                  *)
(*                                                                         *)
(* An asyncio.Semaphore is the number of free places; its waiters are the  *)
(* coroutines that stand before it.                                        *)
(***************************************************************************)
EXTENDS Naturals, FiniteSets

CONSTANTS
    Tasks,             \* the case coroutines of all runs
    Runs,              \* the runs of the agent
    RunOf,             \* the run of a coroutine
    Config,            \* per_agent_concurrency as each run's run_config froze it
    PerAgent, Global,  \* the limits each run gives its own bucket
    DefaultPerAgent, DefaultGlobal,
    Reaped,            \* the runs the scanner or _fail_run may end while cases are under way
    MaxAborts          \* bound: coroutines that are cancelled while they wait

Default == "default"
Buckets == Runs \cup {Default}

ASSUME LimiterAssumption ==
    /\ IsFiniteSet(Tasks) /\ IsFiniteSet(Runs) /\ Default \notin Runs
    /\ RunOf \in [Tasks -> Runs]
    /\ Config \in [Runs -> Nat]
    /\ PerAgent \in [Runs -> Nat \ {0}] /\ Global \in [Runs -> Nat \ {0}]
    /\ DefaultPerAgent \in Nat \ {0} /\ DefaultGlobal \in Nat \ {0}
    /\ Reaped \subseteq Runs
    /\ MaxAborts \in Nat

VARIABLES
    quota,       \* _agent_quota of the agent, 0 before the first registration
    pool,        \* free slots of the shared pool
    phase,       \* per run: "new", "open" (its bucket is in _buckets), "dropped"
    agentFree,   \* free places of each bucket's per-agent semaphore
    globalFree,  \* free places of each bucket's global semaphore
    place,       \* where each coroutine stands
    bucket,      \* the bucket whose semaphores a coroutine waits for or took
    aborts

limiterVars == <<quota, pool, phase, agentFree, globalFree, place, bucket, aborts>>

TasksOf(r) == {t \in Tasks : RunOf[t] = r}
At(p)      == {t \in Tasks : place[t] = p}
\* Who has a slot of the shared pool.
Holders    == At("agent") \cup At("global") \cup At("executing")
\* _bucket: the run's own, or the default one.
BucketOf(t) == IF phase[RunOf[t]] = "open" THEN RunOf[t] ELSE Default
-----------------------------------------------------------------------------
LimiterInit ==
    /\ quota = 0 /\ pool = 0
    /\ phase = [r \in Runs |-> "new"]
    /\ agentFree = [b \in Buckets |-> IF b = Default THEN DefaultPerAgent ELSE PerAgent[b]]
    /\ globalFree = [b \in Buckets |-> IF b = Default THEN DefaultGlobal ELSE Global[b]]
    /\ place = [t \in Tasks |-> "ready"]
    /\ bucket = [t \in Tasks |-> Default]
    /\ aborts = 0

\* Mutation: the last registration wins.
LastQuota(r) == IF Config[r] = 0 THEN 1 ELSE Config[r]
\* register_agent: the first one counts, and never less than one.
QuotaFor(r) ==
    IF quota > 0 THEN quota ELSE IF Config[r] = 0 THEN 1 ELSE Config[r]

\* set_run_limits: a fresh bucket for the run. The pool is made by the first acquire,
\* which comes after the first registration.
SetRun(r) ==
    /\ phase[r] = "new"
    /\ phase' = [phase EXCEPT ![r] = "open"]
    /\ quota' = QuotaFor(r)
    /\ pool' = IF quota = 0 THEN quota' ELSE pool
    /\ UNCHANGED <<agentFree, globalFree, place, bucket, aborts>>

\* Mutation: nobody waits for the pool.
NeverFull == TRUE
SlotFree == pool > 0
\* Mutation: the shared slot is not given back.
KeepsSlot == pool
\* Both release and acquire's except branch give the shared slot back.
SlotReturned == pool + 1

\* The shared slot first; the bucket is looked up once it is there.
TakePoolSlot(t) ==
    /\ place[t] = "ready" /\ phase[RunOf[t]] # "new"
    /\ SlotFree
    /\ pool' = pool - 1
    /\ place' = [place EXCEPT ![t] = "agent"]
    /\ bucket' = [bucket EXCEPT ![t] = BucketOf(t)]
    /\ UNCHANGED <<quota, phase, agentFree, globalFree, aborts>>

PlaceFree(t) == agentFree[bucket[t]] > 0

\* The bucket's per-agent semaphore, then its global one.
TakeAgentPlace(t) ==
    /\ place[t] = "agent" /\ PlaceFree(t)
    /\ agentFree' = [agentFree EXCEPT ![bucket[t]] = @ - 1]
    /\ place' = [place EXCEPT ![t] = "global"]
    /\ UNCHANGED <<quota, pool, phase, globalFree, bucket, aborts>>

TakeGlobalPlace(t) ==
    /\ place[t] = "global" /\ globalFree[bucket[t]] > 0
    /\ globalFree' = [globalFree EXCEPT ![bucket[t]] = @ - 1]
    /\ place' = [place EXCEPT ![t] = "executing"]
    /\ UNCHANGED <<quota, pool, phase, agentFree, bucket, aborts>>

\* release: the bucket is looked up again, then the pool slot goes back.
Release(t) ==
    /\ place[t] = "executing"
    /\ globalFree' = [globalFree EXCEPT ![BucketOf(t)] = @ + 1]
    /\ agentFree' = [agentFree EXCEPT ![BucketOf(t)] = @ + 1]
    /\ pool' = SlotReturned
    /\ place' = [place EXCEPT ![t] = "done"]
    /\ UNCHANGED <<quota, phase, bucket, aborts>>

\* The coroutine is cancelled in the bucket. The place it may have got of the per-agent
\* semaphore stays taken: WeightedLimiter.acquire has no handler of its own.
Abort(t) ==
    /\ aborts < MaxAborts
    /\ place[t] \in {"agent", "global"}
    /\ aborts' = aborts + 1
    /\ pool' = SlotReturned
    /\ place' = [place EXCEPT ![t] = "done"]
    /\ UNCHANGED <<quota, phase, agentFree, globalFree, bucket>>

\* drop_run_limits at the end of the run: no coroutine is left, unless the scanner's or
\* _fail_run's ending comes first.
MayDrop(r) == r \in Reaped \/ \A t \in TasksOf(r) : place[t] = "done"
DropRun(r) ==
    /\ phase[r] = "open"
    /\ MayDrop(r)
    /\ phase' = [phase EXCEPT ![r] = "dropped"]
    /\ UNCHANGED <<quota, pool, agentFree, globalFree, place, bucket, aborts>>
-----------------------------------------------------------------------------
LimiterNext ==
    \/ \E r \in Runs : SetRun(r) \/ DropRun(r)
    \/ \E t \in Tasks : \/ TakePoolSlot(t) \/ TakeAgentPlace(t) \/ TakeGlobalPlace(t)
                        \/ Release(t) \/ Abort(t)

LimiterSpec == LimiterInit /\ [][LimiterNext]_limiterVars

(* Cases end (every call has a timeout), runs start, and a semaphore with a free *)
(* place wakes a waiter. Which one does not matter: a coroutine passes once, so  *)
(* nobody can be overtaken for ever and weak fairness is enough.                 *)
LimiterFairness ==
    /\ \A r \in Runs : WF_limiterVars(SetRun(r))
    /\ \A t \in Tasks : /\ WF_limiterVars(TakePoolSlot(t)) /\ WF_limiterVars(TakeAgentPlace(t))
                        /\ WF_limiterVars(TakeGlobalPlace(t)) /\ WF_limiterVars(Release(t))

FairLimiterSpec == LimiterSpec /\ LimiterFairness
-----------------------------------------------------------------------------
(* Properties.                                                             *)

LimiterTypeOK ==
    /\ quota \in Nat /\ pool \in Nat
    /\ phase \in [Runs -> {"new", "open", "dropped"}]
    /\ agentFree \in [Buckets -> Nat] /\ globalFree \in [Buckets -> Nat]
    /\ place \in [Tasks -> {"ready", "agent", "global", "executing", "done"}]
    /\ bucket \in [Tasks -> Buckets]
    /\ aborts \in 0..MaxAborts

\* No slot of the pool is lost or made: what is free and what is held is the quota, with
\* drops under way, releases to the default bucket and cancelled waits.
PoolConserved == pool + Cardinality(Holders) = quota

\* The calls of the agent never exceed the capacity registered first, whatever the runs'
\* own limits add up to (phase 2, R2: limits of several runs do not add up).
CallsWithinQuota == Cardinality(At("executing")) <= quota

\* A run never executes more cases at once than its own two limits allow.
RunWithinLimits ==
    \A r \in Runs : /\ Cardinality(TasksOf(r) \cap At("executing")) <= PerAgent[r]
                    /\ Cardinality(TasksOf(r) \cap At("executing")) <= Global[r]

\* The limits implement the abstract slots of the agent.
Slots == INSTANCE AgentSlots WITH capacity <- quota, busy <- At("executing")
ImplementsSlots == Slots!Spec

\* Nobody waits for ever: pool, per-agent and global are taken in one order, so waits
\* cannot close a circle ("no ring"). A wait that was cancelled between the two places of
\* a bucket costs that bucket one for good, so it is only promised without.
EveryCaseServed ==
    \A t \in Tasks : (place[t] = "ready") ~> (place[t] = "done" \/ aborts > 0)

\* "acquire and release both hit the run's own bucket": nothing is returned to the
\* default bucket that was not taken from it.
DefaultBucketIntact ==
    /\ agentFree[Default] <= DefaultPerAgent
    /\ globalFree[Default] <= DefaultGlobal
=============================================================================
