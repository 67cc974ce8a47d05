----------------------------- MODULE JudgeSampling -----------------------------
(***************************************************************************)
(* How the judge's verdict on one answer is reached: a task asks the model *)
(* Repeat times and takes the majority, and a cache shared by the tasks of *)
(* all runs spares it what was asked before. The tasks of a round run      *)
(* concurrently. A round reads the settings once; a coroutine whose round  *)
(* ended early goes on beside the next ones with what it was told.         *)
(***************************************************************************)
EXTENDS Naturals, FiniteSets, FiniteSetsExt, SequencesExt

CONSTANTS
    Tasks,        \* a row of judge_task and its coroutine, one at a time
    Prompts,      \* everything sent about an answer: rubric, case, answer, reasoning, tool calls
    Models,       \* a model at its endpoint
    Verdicts,     \* rubric levels given
    Repeat, MaxRetries, MaxEntries,
    NoModel,      \* a task without a coroutine asks nobody
    MaxChanges    \* bound: changes of the settings and failures of the database

ASSUME SamplingAssumption ==
    /\ Repeat \in Nat \ {0} /\ MaxRetries \in Nat \ {0} /\ MaxEntries \in Nat \ {0}
    /\ Verdicts \subseteq Nat /\ MaxChanges \in Nat

VARIABLES
    prompt,    \* of each task
    task,      \* where each task is: its samples of this attempt and what went wrong last
    client,    \* of the coroutine of each task: its model; cache_on, and the epoch it was read in
    round,     \* the tasks the loop waits for; whether the cache is on
    setting,   \* system_config: model and whether the cache is on
    cache,     \* entries in the order of their use, the oldest first
    changes,
    epoch      \* how often the cache has been seen switched off; only a property looks at it

samplingVars == <<prompt, task, client, round, setting, cache, changes, epoch>>

\* A sample: the level, and what it was given for, by whom and when; strayed, once it went through
\* the hands of a task that read cache_on before the last clearing.
NewTask == [pc |-> "waiting", attempts |-> 0, samples |-> <<>>, asked |-> 0]
NoClient == [model |-> NoModel, on |-> FALSE, since |-> 0]
DoneThreshold == IF Repeat > 1 THEN Max({2, (Repeat + 1) \div 2}) ELSE 1

\* judge_cache_key: everything that is sent, and to whom.
KeyOf(p, m) == <<p, m>>
Key(t) == KeyOf(prompt[t], client[t].model)
\* The dict holds at most one entry of a key.
At(k) == {i \in DOMAIN cache : cache[i].key = k}
Without(k) == IF At(k) = {} THEN cache ELSE RemoveAt(cache, Min(At(k)))
Trimmed(entries) == IF Len(entries) > MaxEntries THEN Tail(entries) ELSE entries
-----------------------------------------------------------------------------
SamplingInit ==
    /\ prompt \in [Tasks -> Prompts]
    /\ task = [t \in Tasks |-> NewTask]
    /\ \E m \in Models, on \in BOOLEAN : setting = [model |-> m, on |-> on]
    /\ client = [t \in Tasks |-> NoClient]
    /\ round = [batch |-> {}, on |-> FALSE]
    /\ cache = <<>> /\ changes = 0 /\ epoch = 0

\* An admin changes the settings at any time.
ChangeSetting ==
    /\ changes < MaxChanges /\ changes' = changes + 1
    /\ \E m \in Models, on \in BOOLEAN : setting' = [model |-> m, on |-> on] /\ setting' # setting
    /\ UNCHANGED <<prompt, task, client, round, cache, epoch>>

\* Mutation: the entries survive while the cache is off.
KeepsEntries(on) == cache

\* configure: only the change from on to off clears the cache.
AfterConfigure(on) == IF round.on /\ ~on THEN <<>> ELSE cache

\* _drain_once: configure, then claim and judge a batch; the next round waits for all of it.
Active == {t \in Tasks : task[t].pc \in {"claimed", "lookup", "calling"}}
StartRound == \E batch \in SUBSET {t \in Tasks : task[t].pc = "waiting"} :
    /\ round.batch = {}
    /\ round' = [batch |-> batch, on |-> setting.on]
    /\ cache' = AfterConfigure(setting.on)
    /\ epoch' = IF round.on /\ ~setting.on THEN epoch + 1 ELSE epoch
    /\ task' = [t \in Tasks |-> IF t \in batch THEN [task[t] EXCEPT !.pc = "claimed"]
                                ELSE task[t]]
    /\ client' = [t \in Tasks |-> IF t \in batch THEN [client[t] EXCEPT !.model = setting.model]
                                  ELSE client[t]]
    /\ UNCHANGED <<prompt, setting, changes>>

\* The coroutine has read result, case and rubric, and whether the cache is on.
Prepare(t) ==
    /\ task[t].pc = "claimed"
    /\ task' = [task EXCEPT ![t].pc = "lookup"]
    /\ client' = [client EXCEPT ![t].on = round.on, ![t].since = epoch]
    /\ UNCHANGED <<prompt, round, setting, cache, changes, epoch>>

\* get and set ask for themselves whether the cache is on.
UsesCache(t) == client[t].on /\ round.on
Asks(t) == task[t].pc = "lookup" /\ task[t].asked < Repeat
\* A hit: what an earlier task wrote counts as one more sample, and the entry is used last.
Hit(t) ==
    /\ Asks(t) /\ UsesCache(t)
    /\ \E i \in At(Key(t)) :
        /\ cache' = Append(Without(Key(t)), cache[i])
        /\ task' = [task EXCEPT ![t].asked = @ + 1, ![t].samples = Append(@, cache[i].verdict)]
    /\ UNCHANGED <<prompt, client, round, setting, changes, epoch>>
Miss(t) ==
    /\ Asks(t) /\ (~UsesCache(t) \/ At(Key(t)) = {})
    /\ task' = [task EXCEPT ![t].pc = "calling"]
    /\ UNCHANGED <<prompt, client, round, setting, cache, changes, epoch>>
\* The time of an entry has run out when it is looked up.
Expire(k) ==
    /\ At(k) # {}
    /\ cache' = Without(k)
    /\ UNCHANGED <<prompt, task, client, round, setting, changes, epoch>>

\* The call returns: a verdict the parser accepts and whose reason does not refuse to judge; or
\* nothing that counts, an error among them.
Answer(t) ==
    /\ task[t].pc = "calling"
    /\ \/ \E l \in Verdicts :
            task' = [task EXCEPT ![t].pc = "lookup", ![t].asked = @ + 1,
                        ![t].samples = Append(@, [level |-> l, prompt |-> prompt[t],
                                                  model |-> client[t].model, epoch |-> epoch,
                                                  strayed |-> FALSE])]
       \/ task' = [task EXCEPT ![t].pc = "lookup", ![t].asked = @ + 1]
    /\ UNCHANGED <<prompt, client, round, setting, cache, changes, epoch>>

\* aggregate_verdicts: the level given most often, the lowest of them when several are; the first
\* sample with it stands for it.
Times(s, l) == Cardinality({i \in DOMAIN s : s[i].level = l})
Given(s) == {s[i].level : i \in DOMAIN s}
Majority(s) == Min({l \in Given(s) : \A k \in Given(s) : Times(s, k) <= Times(s, l)})
Anchor(s) == s[Min({i \in DOMAIN s : s[i].level = Majority(s)})]

Over(t) == task[t].pc = "lookup" /\ task[t].asked = Repeat
Enough(t) == Len(task[t].samples) >= DoneThreshold
\* The majority is stored anew, also when all of it came out of the cache.
EntryOf(t) ==
    [key |-> Key(t),
     verdict |-> [Anchor(task[t].samples) EXCEPT !.strayed = @ \/ client[t].since # epoch]]
Store(t) ==
    cache' = IF UsesCache(t) THEN Trimmed(Append(Without(Key(t)), EntryOf(t))) ELSE cache
\* The coroutine is over; whoever waits for it waits for the others.
Leaves(t, row, awaited) ==
    /\ task' = [task EXCEPT ![t] = row]
    /\ client' = [client EXCEPT ![t] = NoClient]
    /\ round' = [round EXCEPT !.batch = awaited]
Done(t) ==
    /\ Over(t) /\ Enough(t)
    /\ Store(t)
    /\ Leaves(t, [NewTask EXCEPT !.pc = "done"], round.batch \ {t})
    /\ UNCHANGED <<prompt, setting, changes, epoch>>
\* Too few samples, or something could not be read: the task is tried again, unless it was often
\* enough, or nothing can be judged, every sample was a refusal, or the last error is one that stays
\* (hopeless; JudgeQueue tells these apart).
Retry(t) ==
    /\ task[t].pc = "claimed" \/ (Over(t) /\ ~Enough(t))
    /\ \E hopeless \in {task[t].attempts + 1 >= MaxRetries, TRUE} :
          Leaves(t, IF hopeless THEN [NewTask EXCEPT !.pc = "failed"]
                    ELSE [NewTask EXCEPT !.attempts = task[t].attempts + 1], round.batch \ {t})
    /\ UNCHANGED <<prompt, setting, cache, changes, epoch>>
\* The database fails at the start or at the end of the task, behind the storing too: the exception
\* passes the gather, the loop waits for none of the batch any longer. The row is reclaimed when its
\* lease is over and then has another coroutine.
DatabaseFails(t) ==
    /\ changes < MaxChanges /\ changes' = changes + 1
    /\ \/ task[t].pc = "claimed" /\ UNCHANGED cache
       \/ Over(t) /\ IF Enough(t) THEN Store(t) ELSE UNCHANGED cache
    /\ Leaves(t, [NewTask EXCEPT !.attempts = task[t].attempts],
              IF t \in round.batch THEN {} ELSE round.batch)
    /\ UNCHANGED <<prompt, setting, epoch>>

SamplingNext ==
    \/ ChangeSetting \/ StartRound
    \/ \E k \in Prompts \X Models : Expire(k)
    \/ \E t \in Tasks : Prepare(t) \/ Hit(t) \/ Miss(t) \/ Answer(t) \/ Done(t) \/ Retry(t)
                          \/ DatabaseFails(t)
-----------------------------------------------------------------------------
\* A verdict that was not given for this task was given for exactly what this task would send, by
\* the model this task asks: the tasks of two runs share verdicts only where asking again would
\* have been the same question. And it was given since the task read that the cache is on, or
\* since the last clearing before that, unless a task that read so before a clearing brought it over.
ReuseIsSound ==
    \A t \in Active : \A i \in DOMAIN task[t].samples :
        LET s == task[t].samples[i] IN
        /\ s.prompt = prompt[t] /\ s.model = client[t].model
        /\ s.strayed \/ s.epoch >= client[t].since

\* NOT TRUE of the code. verdict_cache.py:48-49 says that after an off and an on no verdict from
\* before is met. A coroutine that read cache_on (worker.py:188) before the off and goes on beside
\* later rounds (373) stores its verdict (261) when the cache is on again.
ReopenedIsFresh ==
    \A t \in Active : \A i \in DOMAIN task[t].samples : task[t].samples[i].epoch >= client[t].since
=============================================================================
