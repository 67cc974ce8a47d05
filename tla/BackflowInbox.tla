--------------------------- MODULE BackflowInbox ---------------------------
(***************************************************************************)
(* The back-flow of online errors. The online platform keeps a link per     *)
(* payload; pull_loop fetches the oldest assembled ones, checks them,       *)
(* materialises a case or a refusal in error_backflow_inbox, commits, and   *)
(* only then acknowledges. cap_gap_probe checks the refusals that wait for  *)
(* a registration again. A worker reads in one step, commits in another,    *)
(* and its ack may be lost, answered to nobody, or arrive after it gave up. *)
(*                                                                          *)
(* The online platform is not part of the repository: its actions are those *)
(* of the ack matrix in error-backflow-phase1.md, section 2.3.              *)
(***************************************************************************)
EXTENDS Naturals, FiniteSets, Sequences, SequencesExt

CONSTANTS
    Payloads,    \* the payload ids
    Pullers,     \* processes that run pull_loop
    Probers,     \* processes that run cap_gap_probe_loop
    Contents,    \* what an envelope may be like
    PullLimit,   \* PULL_LIMIT
    MaxRequeues, \* bound on requeues by the online admin
    MaxFaults    \* bound on crashes, exceptions and lost calls

ASSUME InboxAssumption ==
    /\ IsFiniteSet(Payloads)
    /\ Pullers \cap Probers = {} /\ "no one" \notin Pullers \cup Probers
    /\ Contents \subseteq {"good", "malformed", "wordless", "fileless"}
    /\ "good" \in Contents
    /\ PullLimit \in Nat \ {0} /\ MaxRequeues \in Nat /\ MaxFaults \in Nat

VARIABLES
    link,     \* online: state of a payload and why it was refused
    line,     \* online: the assembled payloads, oldest assembled_ts first
    content,  \* online: what the envelope is like now
    offers,   \* registrations and sample files this platform has
    row,      \* error_backflow_inbox
    cases,    \* how many test_cases a payload has
    lock,     \* holder of the GET_LOCK of either loop
    pc,       \* where a worker stands
    batch,    \* the envelopes it has still to look at
    job,      \* the payload in hand, its envelope, what it decided
    late,     \* acks that were given up but are still under way
    requeues, faults

onlineVars == <<link, line, content>>
dbVars     == <<row, cases>>
workVars   == <<pc, batch, job>>
vars == <<onlineVars, offers, dbVars, lock, workVars, late, requeues, faults>>

Workers == Pullers \cup Probers
Loop(w) == IF w \in Pullers THEN "pull" ELSE "probe"

NoOne == "no one"
NoRow == [status |-> "absent", code |-> "none", ack |-> "none", env |-> "none"]
NoJob == [p |-> "none", env |-> "none", say |-> "none"]
Codes == {"content_gap", "empty_words", "offline_cap_gap", "missing_sample_file"}
-----------------------------------------------------------------------------
(* Self-check, shared by both loops.                                       *)

IsComplete(env) == env # "malformed"
Registered      == "mapping" \in offers
HasWords(env)   == env # "wordless"
\* Its own sample file, or one of the agent's when the error does not depend on the input.
FileAtHand(env) == env = "fileless" => "file" \in offers

\* The checks in the order of the code; the first that fails decides.
SelfCheck(env) ==
    IF ~IsComplete(env) THEN "content_gap"
    ELSE IF ~Registered THEN "offline_cap_gap"
    ELSE IF ~HasWords(env) THEN "empty_words"
    ELSE IF ~FileAtHand(env) THEN "missing_sample_file"
    ELSE "ok"

\* _ONLINE_REASON: the codes the online platform knows, and reject_code holds.
OnlineReason(code) ==
    IF code \in {"offline_cap_gap", "missing_sample_file"}
    THEN "offline_cap_gap" ELSE "online_content_gap"

\* _needs_reprocess
NeedsReprocess(r) ==
    /\ r.status = "rejected"
    /\ \/ r.code = "online_content_gap"
       \/ r.code = "offline_cap_gap" /\ r.ack \in {"none", "pending"}

\* Mutation: a refusal whose ack failed is not sent again.
ReplaysCasesOnly(r, env) ==
    IF r.ack = "pending"
    THEN IF r.status = "case_created" THEN "replay_active" ELSE "skip"
    ELSE IF r.status = "absent" \/ NeedsReprocess(r) THEN SelfCheck(env) ELSE "skip"
\* What _process_envelope does with an envelope, by the row it found.
Verdict(r, env) ==
    IF r.ack = "pending"
    THEN IF r.status = "case_created" THEN "replay_active" ELSE "replay_rejected"
    ELSE IF r.status = "absent" \/ NeedsReprocess(r) THEN SelfCheck(env) ELSE "skip"
-----------------------------------------------------------------------------
Init ==
    /\ link = [p \in Payloads |-> [st |-> "assembled", reason |-> "none"]]
    /\ line = SetToSeq(Payloads)
    /\ content \in [Payloads -> Contents]
    /\ offers \in SUBSET {"mapping", "file"}
    /\ row = [p \in Payloads |-> NoRow]
    /\ cases = [p \in Payloads |-> 0]
    /\ lock = [l \in {"pull", "probe"} |-> NoOne]
    /\ pc = [w \in Workers |-> "idle"]
    /\ batch = [w \in Workers |-> <<>>]
    /\ job = [w \in Workers |-> NoJob]
    /\ late = {}
    /\ requeues = 0 /\ faults = 0

\* The worker is done with the payload in hand.
NextEnvelope(w) ==
    /\ pc' = [pc EXCEPT ![w] = "ready"]
    /\ job' = [job EXCEPT ![w] = NoJob]

\* Its round is over and the lock is released.
GoIdle(w) ==
    /\ pc' = [pc EXCEPT ![w] = "idle"]
    /\ batch' = [batch EXCEPT ![w] = <<>>]
    /\ job' = [job EXCEPT ![w] = NoJob]
    /\ lock' = [l \in DOMAIN lock |-> IF lock[l] = w THEN NoOne ELSE lock[l]]

\* GET_LOCK(name, 0)
GetsLock(w) == lock[Loop(w)] = NoOne

StartRound(w, envelopes) ==
    /\ pc[w] = "idle" /\ GetsLock(w)
    /\ envelopes # <<>>
    /\ lock' = [lock EXCEPT ![Loop(w)] = w]
    /\ pc' = [pc EXCEPT ![w] = "ready"]
    /\ batch' = [batch EXCEPT ![w] = envelopes]
    /\ UNCHANGED <<onlineVars, offers, dbVars, job, late, requeues, faults>>

Envelope(p, env) == [p |-> p, env |-> env]

\* pull_once: the first page of assembled payloads, as they are now.
Pull(w) ==
    /\ w \in Pullers
    /\ LET page == SubSeq(line, 1, IF Len(line) < PullLimit THEN Len(line) ELSE PullLimit)
       IN StartRound(w, [i \in DOMAIN page |-> Envelope(page[i], content[page[i]])])

\* CAP_GAP_PROBE
Waits(r) == r.status = "rejected" /\ r.code = "offline_cap_gap" /\ r.ack = "acked"

\* The rows a round of the probe looks at, with the envelopes they keep.
Scanned == {p \in Payloads : Waits(row[p])}

Probe(w) ==
    /\ w \in Probers
    /\ \E ids \in SetToSeqs(Scanned) :
            StartRound(w, [i \in DOMAIN ids |-> Envelope(ids[i], row[ids[i]].env)])

\* The envelope is skipped, or an ack is repeated, or the outcome of the check is taken
\* to the commit.
Decide(w, say) ==
    LET e == Head(batch[w])
        repeats == say \in {"replay_active", "replay_rejected"}
        message == IF say = "replay_active" THEN "active" ELSE row[e.p].code
    IN /\ batch' = [batch EXCEPT ![w] = Tail(@)]
       /\ pc' = [pc EXCEPT ![w] = IF say = "skip" THEN "ready"
                                  ELSE IF repeats THEN "sending" ELSE "decided"]
       /\ job' = [job EXCEPT ![w] =
                    IF say = "skip" THEN NoJob
                    ELSE [p |-> e.p, env |-> e.env,
                          say |-> IF repeats THEN message ELSE say]]
       /\ UNCHANGED <<onlineVars, offers, dbVars, lock, late, requeues, faults>>

\* _process_envelope up to its commit: the row is read and the envelope checked.
Look(w) ==
    /\ w \in Pullers
    /\ pc[w] = "ready" /\ batch[w] # <<>>
    /\ Decide(w, Verdict(row[Head(batch[w]).p], Head(batch[w]).env))

\* probe_once for one row: what is still missing stays as it is, without a word.
LookAgain(w) ==
    /\ w \in Probers
    /\ pc[w] = "ready" /\ batch[w] # <<>>
    /\ Decide(w, IF SelfCheck(Head(batch[w]).env) = "ok" THEN "ok" ELSE "skip")

\* The row of the payload in hand, reset, updated or inserted; its ack is open again.
Put(w, status, code) ==
    row' = [row EXCEPT ![job[w].p] =
              [status |-> status, code |-> code, ack |-> "pending", env |-> job[w].env]]

\* Mutation: the session is closed without a commit.
RolledBack(p) == cases
Materialised(p) == [cases EXCEPT ![p] = @ + 1]

\* _activate and its commit: case and inbox row together, then the ack.
Activate(w) ==
    /\ pc[w] = "decided" /\ job[w].say = "ok"
    /\ cases' = Materialised(job[w].p)
    /\ Put(w, "case_created", IF w \in Pullers THEN "none" ELSE row[job[w].p].code)
    /\ job' = [job EXCEPT ![w].say = "active"]
    /\ pc' = [pc EXCEPT ![w] = "sending"]
    /\ UNCHANGED <<onlineVars, offers, lock, batch, late, requeues, faults>>

\* _reject and its commit.
Reject(w) ==
    /\ pc[w] = "decided" /\ job[w].say \in Codes
    /\ Put(w, "rejected", OnlineReason(job[w].say))
    /\ job' = [job EXCEPT ![w].say = OnlineReason(@)]
    /\ pc' = [pc EXCEPT ![w] = "sending"]
    /\ UNCHANGED <<onlineVars, offers, cases, lock, batch, late, requeues, faults>>
-----------------------------------------------------------------------------
(* The ack.                                                                *)

\* The matrix of the online platform; a repeated ack is a no-op.
Accepts(p, say) ==
    IF say = "active"
    THEN link[p].st \in {"assembled", "active"} \/ link[p].reason = "offline_cap_gap"
    ELSE link[p].st \in {"assembled", "invalidated"}

OnlineTakes(p, say) ==
    /\ link' = [link EXCEPT ![p] =
                  IF say = "active" THEN [st |-> "active", reason |-> "none"]
                  ELSE IF @.st = "assembled" THEN [st |-> "invalidated", reason |-> say]
                  ELSE @]
    /\ line' = RemoveFirst(line, p)
    /\ UNCHANGED content

\* 200, or 400 and the row stays pending.
AckAnswered(w) ==
    /\ pc[w] = "sending"
    /\ IF Accepts(job[w].p, job[w].say)
       THEN /\ OnlineTakes(job[w].p, job[w].say)
            /\ pc' = [pc EXCEPT ![w] = "marking"] /\ UNCHANGED job
       ELSE NextEnvelope(w) /\ UNCHANGED onlineVars
    /\ UNCHANGED <<offers, dbVars, lock, batch, late, requeues, faults>>

\* The call fails or times out: BackflowClientError is swallowed, the row stays pending.
\* The request may still reach the online platform, or may have reached it.
AckGivenUp(w) ==
    /\ pc[w] = "sending" /\ faults < MaxFaults
    /\ faults' = faults + 1
    /\ late' = late \cup {[p |-> job[w].p, say |-> job[w].say]}
    /\ NextEnvelope(w)
    /\ UNCHANGED <<onlineVars, offers, dbVars, lock, batch, requeues>>

LateArrives ==
    \E m \in late :
        /\ late' = late \ {m}
        /\ IF Accepts(m.p, m.say) THEN OnlineTakes(m.p, m.say) ELSE UNCHANGED onlineVars
        /\ UNCHANGED <<offers, dbVars, lock, workVars, requeues, faults>>

\* Mutation: the status of a refusal for both.
MarksRejected(say) == "rejected"
MarkStatus(say) == IF say = "active" THEN "active" ELSE "rejected"

\* _mark in a session of its own: it does not ask what the row is like by now.
Mark(w) ==
    /\ pc[w] = "marking"
    /\ row' = [row EXCEPT ![job[w].p].ack = "acked",
                          ![job[w].p].status = MarkStatus(job[w].say)]
    /\ NextEnvelope(w)
    /\ UNCHANGED <<onlineVars, offers, cases, lock, batch, late, requeues, faults>>

EndRound(w) ==
    /\ pc[w] = "ready" /\ batch[w] = <<>>
    /\ GoIdle(w)
    /\ UNCHANGED <<onlineVars, offers, dbVars, late, requeues, faults>>
-----------------------------------------------------------------------------
(* Faults and the world around.                                            *)

\* The process dies, or an exception leaves the loop over the batch.
RoundBreaks(w) ==
    /\ pc[w] # "idle" /\ faults < MaxFaults
    /\ faults' = faults + 1
    /\ GoIdle(w)
    /\ UNCHANGED <<onlineVars, offers, dbVars, late, requeues>>

\* An agent or interface is registered, a sample file is uploaded.
Provide(x) ==
    /\ x \notin offers
    /\ offers' = offers \cup {x}
    /\ UNCHANGED <<onlineVars, dbVars, lock, workVars, late, requeues, faults>>

\* The online admin repairs a refused payload, or only asks again.
Requeue(p) ==
    /\ link[p].st = "invalidated" /\ requeues < MaxRequeues
    /\ requeues' = requeues + 1
    /\ link' = [link EXCEPT ![p] = [st |-> "assembled", reason |-> "none"]]
    /\ line' = Append(line, p)
    /\ \E c \in {"good", content[p]} : content' = [content EXCEPT ![p] = c]
    /\ UNCHANGED <<offers, dbVars, lock, workVars, late, faults>>
-----------------------------------------------------------------------------
Step(w) ==
    \/ Look(w) \/ LookAgain(w)
    \/ Activate(w) \/ Reject(w)
    \/ AckAnswered(w) \/ Mark(w) \/ EndRound(w)

Next ==
    \/ \E w \in Workers : Pull(w) \/ Probe(w) \/ Step(w) \/ AckGivenUp(w) \/ RoundBreaks(w)
    \/ LateArrives
    \/ \E x \in {"mapping", "file"} : Provide(x)
    \/ \E p \in Payloads : Requeue(p)

Spec == Init /\ [][Next]_vars

\* Both loops come round for ever, and a round that has started is carried on; nobody has
\* to register, to requeue or to fail.
Fairness ==
    /\ WF_vars(\E w \in Pullers : Pull(w))
    /\ WF_vars(\E w \in Probers : Probe(w))
    /\ \A w \in Workers : WF_vars(Step(w))

FairSpec == Spec /\ Fairness
-----------------------------------------------------------------------------
(* Properties.                                                             *)

Links == [st : {"assembled", "active", "invalidated"},
          reason : {"none", "online_content_gap", "offline_cap_gap"}]
Rows  == [status : {"absent", "case_created", "active", "rejected"},
          code : {"none", "online_content_gap", "offline_cap_gap"},
          ack : {"none", "pending", "acked"}, env : Contents \cup {"none"}]
Says  == {"ok", "active", "online_content_gap"} \cup Codes

Envelopes == [p : Payloads, env : Contents]
Jobs == [p : Payloads, env : Contents, say : Says]

\* The types of all variables.
TypeOK ==
    /\ link \in [Payloads -> Links]
    /\ line \in Seq(Payloads)
    /\ content \in [Payloads -> Contents]
    /\ offers \subseteq {"mapping", "file"}
    /\ row \in [Payloads -> Rows]
    /\ cases \in [Payloads -> Nat]
    /\ lock \in [{"pull", "probe"} -> Workers \cup {NoOne}]
    /\ pc \in [Workers -> {"idle", "ready", "decided", "sending", "marking"}]
    /\ batch \in [Workers -> Seq(Envelopes)]
    /\ job \in [Workers -> Jobs \cup {NoJob}]
    /\ late \subseteq [p : Payloads, say : Says]
    /\ requeues \in 0..MaxRequeues /\ faults \in 0..MaxFaults

Made == {p \in Payloads : cases[p] > 0}

\* However often a payload is delivered, whoever dies between two steps and whatever acks
\* are lost: a row that says its case was acknowledged belongs to an active link, a row
\* that says a case was made belongs to exactly one case, and no case is forgotten by its
\* row.
RowKeepsItsWord ==
    \A p \in Payloads :
        /\ row[p].status = "active" => link[p].st = "active"
        /\ cases[p] = IF row[p].status \in {"case_created", "active"} THEN 1 ELSE 0

\* The links only move as BackflowLink allows: active needs a case that was committed before.
Answer == [p \in Payloads |->
            CASE link[p].st = "assembled"   -> "open"
              [] link[p].st = "active"      -> "active"
              [] link[p].st = "invalidated" -> "refused"]
Link == INSTANCE BackflowLink WITH made <- Made, answer <- Answer
ImplementsLink == Link!Spec

\* Every payload that is offered is answered, whatever acks are lost and processes die. One
\* that was refused for a missing registration and is asked for again is left to the probe.
Answered ==
    \A p \in Payloads :
        link[p].st = "assembled" ~> (link[p].st # "assembled" \/ Waits(row[p]))

Curable(p) == Waits(row[p]) /\ row[p].env = "good" /\ offers = {"mapping", "file"}

\* What _ack_active says of an ack that failed, and the probe of the link: the case that was
\* made is answered for in a later round, so that the link becomes active.
Heals == \A p \in Payloads : Curable(p) ~> (link[p].st = "active")
=============================================================================
