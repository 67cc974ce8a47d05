---------------------------- MODULE BackflowProofs ----------------------------
(***************************************************************************)
(* The traffic with the online platform: RowKeepsItsWord and the           *)
(* refinement of BackflowLink for what comes in, for any number of         *)
(* payloads, pullers, probers, requeues, lost acks and crashes; for what   *)
(* goes out, the watermarks of every push and what the clean-up spares,    *)
(* for any number of runs, versions and cleaners and any retain_runs.      *)
(*                                                                         *)
(* What comes in: the lock leaves one worker at work in each loop, and the *)
(* two loops never decide about the same row. A puller decides about a row *)
(* that is absent or refused for good reasons of its own (StillOpen), a    *)
(* probe about one that was refused for want of a registration and         *)
(* acknowledged (Waits); what one of them writes is neither.               *)
(*                                                                         *)
(* What goes out: the list of a cleaner is worked out once and deleted     *)
(* much later, beside the lists of others. It stays harmless because what  *)
(* a cleaner left out once is left out for good: a run that ends makes the *)
(* clean-up keep no run it would have deleted (SparedGrows), and neither   *)
(* does the deletion of runs that were not kept (SparedShrinks).           *)
(***************************************************************************)
EXTENDS BackflowInbox, ResultPush, FiniteSetTheorems, FunctionTheorems, SequenceTheorems, TLAPS

\* What a row says fits together, whoever wrote it last.
RowFits(p) ==
    /\ row[p].status = "absent" <=> row[p].ack = "none"
    /\ row[p].status # "absent" => row[p].env \in Contents
    /\ row[p].status = "active" => row[p].ack = "acked"
    /\ row[p].status = "rejected" => row[p].code # "none"

\* Whoever works holds the lock of the loop, and nobody else has envelopes to look at.
LockHeld(w) ==
    /\ pc[w] # "idle" => lock[Loop(w)] = w
    /\ pc[w] = "idle" => batch[w] = <<>>

Busy(w) == pc[w] \in {"decided", "sending", "marking"}
Mine(w) == row[job[w].p]

\* A puller with a verdict on a payload finds its row as it read it: absent, or a refusal
\* that was acknowledged and waits for the online platform, never one that waits for the
\* probe.
StillOpen(r) ==
    r.status = "absent" \/ (r.status = "rejected" /\ r.code = "online_content_gap" /\ r.ack = "acked")

\* What a worker says is what the row says, until the answer is marked.
Speaks(w) ==
    IF job[w].say = "active"
    THEN /\ Mine(w).status \in {"case_created", "active"}
         /\ pc[w] = "marking" => link[job[w].p].st = "active"
    ELSE /\ Mine(w).status = "rejected" /\ Mine(w).ack = "pending"
         /\ job[w].say \in {"online_content_gap", "offline_cap_gap"}

PullerKnows(w) ==
    /\ pc[w] = "decided" => StillOpen(Mine(w)) /\ job[w].say \in {"ok"} \cup Codes
    /\ pc[w] \in {"sending", "marking"} => Speaks(w)

\* The rows a probe has in its list wait until it comes to them, each once.
ProberKnows(w) ==
    /\ \A i \in DOMAIN batch[w] : Waits(row[batch[w][i].p])
    /\ \A i, j \in DOMAIN batch[w] : batch[w][i].p = batch[w][j].p => i = j
    /\ pc[w] = "decided" =>
          /\ Waits(Mine(w)) /\ job[w].say = "ok"
          /\ \A i \in DOMAIN batch[w] : batch[w][i].p # job[w].p
    /\ pc[w] \in {"sending", "marking"} => job[w].say = "active" /\ Speaks(w)

\* What is known of a worker.
Local(w) ==
    /\ LockHeld(w)
    /\ Busy(w) => job[w] \in Jobs
    /\ w \in Pullers => PullerKnows(w)
    /\ w \in Probers => ProberKnows(w)

\* An ack that is under way says what its row said; one for a case comes after the case.
Sent(m) ==
    /\ m.say \in {"active", "online_content_gap", "offline_cap_gap"}
    /\ m.say = "active" => cases[m.p] = 1

InboxInv ==
    /\ TypeOK
    /\ \A p \in Payloads : RowFits(p)
    /\ \A w \in Workers : Local(w)
    /\ \A m \in late : Sent(m)
    /\ RowKeepsItsWord
-----------------------------------------------------------------------------
(* Sequences.                                                              *)

\* A set of naturals has a least element.
LEMMA LeastOf ==
    ASSUME NEW T \in SUBSET Nat, T # {}
    PROVE  \E x \in T : \A y \in T : x <= y
<1>1. PICK x \in T : \A y \in T : ~(<<y, x>> \in OpToRel(<, Nat))
  BY NatLessThanWellFounded, WFMin
<1>2. \A y \in T : ~(y < x)
  BY <1>1 DEF OpToRel
<1> QED
  BY <1>2

\* Taking an element out of a sequence leaves a sequence of the same elements.
LEMMA RemoveFirstType ==
    ASSUME NEW S, NEW s \in Seq(S), NEW e
    PROVE  RemoveFirst(s, e) \in Seq(S)
<1> DEFINE I == {i \in 1..Len(s) : s[i] = e}
<1>1. CASE I = {}
  BY <1>1 DEF RemoveFirst
<1>2. CASE I # {}
  <2>1. Len(s) \in Nat /\ I \in SUBSET Nat
    OBVIOUS
  <2>2. \E x \in I : \A y \in I : x <= y
    BY <1>2, <2>1, LeastOf
  <2>3. Min(I) \in I
    BY <2>2 DEF Min
  <2>4. RemoveFirst(s, e) = RemoveAt(s, Min(I))
    BY <1>2 DEF RemoveFirst, SelectInSeq
  <2> DEFINE k == Min(I)
  <2>5. k \in 1..Len(s)
    BY <2>3
  <2> HIDE DEF k, I
  <2>6. \A i \in 1..(k - 1) : s[i] \in S
    BY <2>1, <2>5, ElementOfSeq
  <2>7. \A i \in (k + 1)..Len(s) : s[i] \in S
    BY <2>1, <2>5, ElementOfSeq
  <2>8. SubSeq(s, 1, k - 1) \in Seq(S)
    BY <2>5, <2>6, SubSeqProperties
  <2>9. SubSeq(s, k + 1, Len(s)) \in Seq(S)
    BY <2>1, <2>5, <2>7, SubSeqProperties
  <2> QED
    BY <2>4, <2>8, <2>9, ConcatProperties DEF RemoveAt, k
<1> QED
  BY <1>1, <1>2

\* The payloads are in line one after the other.
LEMMA LineType == SetToSeq(Payloads) \in Seq(Payloads)
<1> DEFINE n == Cardinality(Payloads)
<1>1. n \in Nat /\ ExistsBijection(1..n, Payloads)
  BY InboxAssumption, FS_CardinalityType DEF InboxAssumption
<1>2. \E f \in [1..n -> Payloads] : IsInjective(f)
  BY <1>1 DEF ExistsBijection, Bijection, Injection, IsInjective
<1>3. SetToSeq(Payloads) \in [1..n -> Payloads]
  BY <1>2 DEF SetToSeq
<1> HIDE DEF n
<1> QED
  BY <1>1, <1>3, IsASeq

\* Head and tail of a list of envelopes.
LEMMA NextOf ==
    ASSUME TypeOK, NEW w \in Workers, batch[w] # <<>>
    PROVE  /\ Head(batch[w]) \in Envelopes
           /\ Tail(batch[w]) \in Seq(Envelopes)
           /\ 1 \in DOMAIN batch[w] /\ Head(batch[w]) = batch[w][1]
           /\ \A i \in DOMAIN Tail(batch[w]) : /\ i + 1 \in DOMAIN batch[w] /\ i + 1 # 1
                                               /\ Tail(batch[w])[i] = batch[w][i + 1]
           /\ \A i \in DOMAIN Tail(batch[w]) : i \in Nat
<1>1. batch[w] \in Seq(Envelopes)
  BY DEF TypeOK
<1> QED
  BY <1>1, HeadTailProperties
-----------------------------------------------------------------------------
USE DEF onlineVars, dbVars, workVars

\* Nothing but the acknowledgment of the payload in hand, if it is about one, moves a link.
LEMMA OnlineTakesType ==
    ASSUME TypeOK, NEW p \in Payloads, NEW say \in Says, Accepts(p, say), OnlineTakes(p, say),
           say \in {"active", "online_content_gap", "offline_cap_gap"}
    PROVE  /\ link' \in [Payloads -> Links] /\ line' \in Seq(Payloads)
           /\ \A q \in Payloads : link[q].st = "active" => link'[q].st = "active"
           /\ say = "active" => link'[p].st = "active"
<1>1. line' \in Seq(Payloads)
  BY RemoveFirstType DEF OnlineTakes, TypeOK
<1>2. link' \in [Payloads -> Links]
  BY DEF OnlineTakes, TypeOK, Links
<1> QED
  BY <1>1, <1>2 DEF OnlineTakes, TypeOK, Links

\* The invariant holds at the start, when there is no row and every worker is idle.
LEMMA InitInbox == Init => InboxInv
<1> SUFFICES ASSUME Init PROVE InboxInv
  OBVIOUS
<1>1. TypeOK
  <2>1. /\ link \in [Payloads -> Links] /\ row \in [Payloads -> Rows]
        /\ content \in [Payloads -> Contents] /\ offers \subseteq {"mapping", "file"}
    BY DEF Init, Links, Rows, NoRow
  <2>2. line \in Seq(Payloads)
    BY LineType DEF Init
  <2>3. cases \in [Payloads -> Nat] /\ late \subseteq [p : Payloads, say : Says]
    BY DEF Init
  <2>4. /\ lock \in [{"pull", "probe"} -> Workers \cup {NoOne}]
        /\ pc \in [Workers -> {"idle", "ready", "decided", "sending", "marking"}]
        /\ job \in [Workers -> Jobs \cup {NoJob}]
    BY DEF Init
  <2>5. batch \in [Workers -> Seq(Envelopes)]
    <3>1. <<>> \in Seq(Envelopes)
      BY EmptySeq
    <3>2. batch = [w \in Workers |-> <<>>]
      BY DEF Init
    <3> QED
      BY <3>1, <3>2
  <2>6. requeues \in 0..MaxRequeues /\ faults \in 0..MaxFaults
    <3>1. MaxRequeues \in Nat /\ MaxFaults \in Nat
      BY InboxAssumption DEF InboxAssumption
    <3>2. requeues = 0 /\ faults = 0
      BY DEF Init
    <3> QED
      BY <3>1, <3>2
  <2> QED
    BY <2>1, <2>2, <2>3, <2>4, <2>5, <2>6 DEF TypeOK
<1>2. \A p \in Payloads : RowFits(p)
  BY DEF Init, RowFits, NoRow
<1>3. ASSUME NEW w \in Workers PROVE Local(w)
  <2>1. pc[w] = "idle" /\ batch[w] = <<>>
    BY DEF Init
  <2>2. DOMAIN batch[w] = {}
    BY <2>1
  <2> QED
    BY <2>1, <2>2 DEF Local, LockHeld, Busy, PullerKnows, ProberKnows
<1>4. RowKeepsItsWord
  BY DEF Init, RowKeepsItsWord, NoRow
<1> QED
  BY <1>1, <1>2, <1>3, <1>4 DEF Init, InboxInv
-----------------------------------------------------------------------------
(* The workers that do not move.                                           *)

Unmoved(v) == pc'[v] = pc[v] /\ batch'[v] = batch[v] /\ job'[v] = job[v]

\* What another worker writes into the row of p does not contradict what v knows.
Spared(v, p) ==
    \/ row'[p] = row[p]
    \/ /\ v \in Probers => \A i \in DOMAIN batch[v] : batch[v][i].p # p
       /\ Busy(v) /\ job[v].p = p =>
             /\ pc[v] # "decided" /\ job[v].say = "active"
             /\ row'[p].status \in {"case_created", "active"}

LinksHold == \A p \in Payloads : link[p].st = "active" => link'[p].st = "active"

\* What a worker knows of its own row survives a step of others that spares that row.
LEMMA OtherKeeps ==
    ASSUME InboxInv, NEW v \in Workers, Unmoved(v), lock[Loop(v)] = v => lock'[Loop(v)] = v,
           \A p \in Payloads : Spared(v, p), LinksHold
    PROVE  Local(v)'
<1>1. Local(v) /\ TypeOK
  BY DEF InboxInv
<1>2. LockHeld(v)'
  BY <1>1 DEF Local, LockHeld, Unmoved, Loop
<1>3. (Busy(v) => job[v] \in Jobs)'
  BY <1>1 DEF Local, Unmoved, Busy
<1>4. ASSUME NEW i \in DOMAIN batch[v] PROVE batch[v][i].p \in Payloads
  <2>1. batch[v] \in Seq(Envelopes)
    BY <1>1 DEF TypeOK
  <2>2. batch[v][i] \in Envelopes
    BY <2>1
  <2> QED
    BY <2>2 DEF Envelopes
<1>5. Busy(v) => job[v].p \in Payloads
  BY <1>1 DEF Local, Jobs
<1>6. ASSUME v \in Pullers PROVE PullerKnows(v)'
  <2>1. PullerKnows(v)
    BY <1>1, <1>6 DEF Local
  <2>2. CASE Busy(v)
    <3>1. job[v].p \in Payloads /\ Spared(v, job[v].p)
      BY <1>5, <2>2
    <3>2. CASE row'[job[v].p] = row[job[v].p]
      BY <2>1, <3>1, <3>2 DEF PullerKnows, Unmoved, Speaks, Mine, LinksHold, StillOpen
    <3>3. CASE row'[job[v].p] # row[job[v].p]
      BY <2>1, <2>2, <3>1, <3>3 DEF PullerKnows, Unmoved, Speaks, Mine, LinksHold, Spared
    <3> QED
      BY <3>2, <3>3
  <2>3. CASE ~Busy(v)
    BY <2>3 DEF PullerKnows, Unmoved, Busy
  <2> QED
    BY <2>2, <2>3
<1>7. ASSUME v \in Probers PROVE ProberKnows(v)'
  <2>1. ProberKnows(v)
    BY <1>1, <1>7 DEF Local
  <2>2. ASSUME NEW i \in DOMAIN batch[v]
        PROVE  row'[batch[v][i].p] = row[batch[v][i].p]
    BY <1>4, <1>7, <2>2 DEF Spared
  <2>3. \A i \in DOMAIN batch[v] : Waits(row[batch[v][i].p])'
    BY <2>1, <2>2 DEF ProberKnows, Waits, Unmoved
  <2>4. CASE Busy(v)
    <3>1. job[v].p \in Payloads /\ Spared(v, job[v].p)
      BY <1>5, <2>4
    <3>2. CASE row'[job[v].p] = row[job[v].p]
      BY <2>1, <2>3, <3>1, <3>2 DEF ProberKnows, Unmoved, Speaks, Mine, LinksHold, Waits
    <3>3. CASE row'[job[v].p] # row[job[v].p]
      BY <2>1, <2>3, <2>4, <3>1, <3>3 DEF ProberKnows, Unmoved, Speaks, Mine, LinksHold,
         Spared, Waits
    <3> QED
      BY <3>2, <3>3
  <2>5. CASE ~Busy(v)
    BY <2>1, <2>3, <2>5 DEF ProberKnows, Unmoved, Busy, Waits
  <2> QED
    BY <2>4, <2>5
<1> QED
  BY <1>2, <1>3, <1>6, <1>7 DEF Local

\* The lock leaves one worker of a loop at work.
LEMMA Alone ==
    ASSUME InboxInv, NEW v \in Workers, NEW w \in Workers, v # w, Loop(v) = Loop(w),
           pc[w] # "idle"
    PROVE  pc[v] = "idle" /\ batch[v] = <<>>
  BY DEF InboxInv, Local, LockHeld

\* The loops of the two kinds of workers.
LEMMA LoopsDiffer ==
    ASSUME NEW v \in Workers
    PROVE  /\ v \in Pullers <=> v \notin Probers
           /\ v \in Pullers => Loop(v) = "pull"
           /\ v \in Probers => Loop(v) = "probe"
           /\ v # NoOne
  BY InboxAssumption DEF InboxAssumption, Workers, Loop, NoOne

\* Rows that nobody writes keep their word as long as no active link is lost.
LEMMA QuietRows ==
    ASSUME InboxInv, UNCHANGED dbVars, LinksHold
    PROVE  (\A p \in Payloads : RowFits(p))' /\ RowKeepsItsWord'
  BY DEF InboxInv, RowFits, RowKeepsItsWord, LinksHold

\* Where no row is written the workers that do not move know what they knew.
LEMMA OthersKeep ==
    ASSUME InboxInv, UNCHANGED row, LinksHold, NEW w \in Workers,
           \A v \in Workers \ {w} : Unmoved(v) /\ (lock[Loop(v)] = v => lock'[Loop(v)] = v)
    PROVE  \A v \in Workers \ {w} : Local(v)'
  BY OtherKeeps DEF Spared

\* What Busy means for the payload in hand.
LEMMA InHand ==
    ASSUME InboxInv, NEW w \in Workers, Busy(w)
    PROVE  /\ job[w] \in Jobs /\ job[w].p \in Payloads /\ job[w].env \in Contents
           /\ job[w].say \in Says /\ Mine(w) \in Rows
  BY DEF InboxInv, Local, Jobs, Mine, TypeOK

\* The acks under way stay what they are while no case is made.
LEMMA SentStays ==
    ASSUME InboxInv, UNCHANGED cases, late' \subseteq late
    PROVE  (\A m \in late : Sent(m))'
  BY DEF InboxInv, Sent

\* A round starts only with envelopes its worker may carry.
LEMMA StartRoundKeeps ==
    ASSUME InboxInv, NEW w \in Workers, NEW envelopes \in Seq(Envelopes),
           StartRound(w, envelopes),
           w \in Probers =>
              /\ \A i \in DOMAIN envelopes : Waits(row[envelopes[i].p])
              /\ \A i, j \in DOMAIN envelopes : envelopes[i].p = envelopes[j].p => i = j
    PROVE  InboxInv'
<1>1. TypeOK' /\ LinksHold
  BY DEF StartRound, InboxInv, TypeOK, LinksHold, Loop
<1>2. (\A p \in Payloads : RowFits(p))' /\ RowKeepsItsWord'
  BY <1>1, QuietRows DEF StartRound
<1>3. \A v \in Workers \ {w} : Unmoved(v) /\ (lock[Loop(v)] = v => lock'[Loop(v)] = v)
  BY LoopsDiffer DEF StartRound, GetsLock, InboxInv, TypeOK, Unmoved
<1>4. \A v \in Workers \ {w} : Local(v)'
  BY <1>1, <1>3, OthersKeep DEF StartRound
<1>5. Local(w)'
  <2>1. /\ pc'[w] = "ready" /\ batch'[w] = envelopes /\ lock'[Loop(w)] = w
        /\ UNCHANGED row
    BY LoopsDiffer DEF StartRound, InboxInv, TypeOK
  <2> QED
    BY <2>1 DEF Local, LockHeld, Busy, PullerKnows, ProberKnows, Waits, Loop
<1> QED
  BY <1>1, <1>2, <1>4, <1>5, SentStays DEF StartRound, InboxInv

\* A pull starts a round over the page it was shown.
LEMMA PullKeeps ==
    ASSUME InboxInv, NEW w \in Workers, Pull(w)
    PROVE  InboxInv'
<1> DEFINE n == IF Len(line) < PullLimit THEN Len(line) ELSE PullLimit
           page == SubSeq(line, 1, n)
           envelopes == [i \in DOMAIN page |-> Envelope(page[i], content[page[i]])]
<1>1. line \in Seq(Payloads) /\ content \in [Payloads -> Contents]
  BY DEF InboxInv, TypeOK
<1>2. n \in 0..Len(line) /\ Len(line) \in Nat
  <2>1. Len(line) \in Nat
    BY <1>1
  <2>2. PullLimit \in Nat
    BY InboxAssumption DEF InboxAssumption
  <2> QED
    BY <2>1, <2>2
<1> HIDE DEF n
<1>3. \A i \in 1..n : line[i] \in Payloads
  BY <1>1, <1>2, ElementOfSeq
<1>4. page \in Seq(Payloads)
  BY <1>2, <1>3, SubSeqProperties
<1> HIDE DEF page
<1>5. /\ DOMAIN page = 1..Len(page) /\ Len(page) \in Nat
      /\ \A i \in 1..Len(page) : page[i] \in Payloads
  BY <1>4
<1>6. \A i \in DOMAIN page : Envelope(page[i], content[page[i]]) \in Envelopes
  BY <1>1, <1>5 DEF Envelope, Envelopes
<1>7. envelopes \in Seq(Envelopes)
  BY <1>5, <1>6, IsASeq
<1>8. StartRound(w, envelopes) /\ w \notin Probers
  BY InboxAssumption DEF InboxAssumption, Pull, page, n
<1> HIDE DEF envelopes
<1> QED
  BY <1>7, <1>8, StartRoundKeeps

\* A probe starts a round over the waiting rows, each once.
LEMMA ProbeKeeps ==
    ASSUME InboxInv, NEW w \in Workers, Probe(w)
    PROVE  InboxInv'
<1>1. PICK ids \in SetToSeqs(Scanned) :
           StartRound(w, [i \in DOMAIN ids |-> Envelope(ids[i], row[ids[i]].env)])
  BY DEF Probe
<1> DEFINE envelopes == [i \in DOMAIN ids |-> Envelope(ids[i], row[ids[i]].env)]
<1>2. IsFiniteSet(Scanned) /\ Cardinality(Scanned) \in Nat
  BY InboxAssumption, FS_Subset, FS_CardinalityType DEF InboxAssumption, Scanned
<1>3. /\ DOMAIN ids = 1..Cardinality(Scanned)
      /\ \A i \in DOMAIN ids : ids[i] \in Scanned
      /\ \A i, j \in DOMAIN ids : ids[i] = ids[j] => i = j
  BY DEF SetToSeqs
<1>4. ASSUME NEW i \in DOMAIN ids
      PROVE  envelopes[i] \in Envelopes /\ envelopes[i].p = ids[i] /\ Waits(row[ids[i]])
  BY <1>3 DEF Scanned, Waits, Envelope, Envelopes, InboxInv, RowFits
<1>5. envelopes \in Seq(Envelopes)
  BY <1>2, <1>3, <1>4, IsASeq
<1>6. DOMAIN envelopes = DOMAIN ids
  OBVIOUS
<1>7. StartRound(w, envelopes)
  BY <1>1
<1> HIDE DEF envelopes
<1> QED
  BY <1>3, <1>4, <1>5, <1>6, <1>7, StartRoundKeeps

\* A step that only takes the next envelope to a decision, or to a repeated ack.
LEMMA DecideKeeps ==
    ASSUME InboxInv, NEW w \in Workers, pc[w] = "ready", batch[w] # <<>>,
           Look(w) \/ LookAgain(w)
    PROVE  InboxInv'
<1> DEFINE e == Head(batch[w])
<1>1. /\ e \in Envelopes /\ Tail(batch[w]) \in Seq(Envelopes)
      /\ 1 \in DOMAIN batch[w] /\ e = batch[w][1] /\ e.p \in Payloads /\ e.env \in Contents
      /\ \A i \in DOMAIN Tail(batch[w]) : /\ i + 1 \in DOMAIN batch[w] /\ i + 1 # 1
                                          /\ Tail(batch[w])[i] = batch[w][i + 1] /\ i \in Nat
  BY NextOf DEF InboxInv, Envelopes
<1>2. PICK say : Decide(w, say) /\ say = IF w \in Pullers THEN Verdict(row[e.p], e.env)
                                         ELSE IF SelfCheck(e.env) = "ok" THEN "ok" ELSE "skip"
  BY LoopsDiffer DEF Look, LookAgain
<1> HIDE DEF e
<1>3. /\ batch' = [batch EXCEPT ![w] = Tail(@)]
      /\ pc' = [pc EXCEPT ![w] = IF say = "skip" THEN "ready"
                                 ELSE IF say \in {"replay_active", "replay_rejected"}
                                 THEN "sending" ELSE "decided"]
      /\ job' = [job EXCEPT ![w] =
                   IF say = "skip" THEN NoJob
                   ELSE [p |-> e.p, env |-> e.env,
                         say |-> IF say = "replay_active" THEN "active"
                                 ELSE IF say = "replay_rejected" THEN row[e.p].code ELSE say]]
      /\ UNCHANGED <<onlineVars, offers, dbVars, lock, late, requeues, faults>>
  BY <1>2 DEF Decide, e
<1>4. row[e.p] \in Rows /\ RowFits(e.p) /\ Local(w)
  BY <1>1 DEF InboxInv, TypeOK
<1>5. SelfCheck(e.env) \in {"ok"} \cup Codes
  BY DEF SelfCheck, Codes
<1>6. CASE say = "skip"
  <2>1. /\ pc'[w] = "ready" /\ job'[w] = NoJob /\ batch'[w] = Tail(batch[w])
    BY <1>3, <1>6 DEF InboxInv, TypeOK
  <2>2. TypeOK'
    BY <1>1, <1>3, <1>6 DEF InboxInv, TypeOK
  <2>3. Local(w)'
    BY <1>1, <1>3, <1>4, <2>1 DEF Local, LockHeld, Busy, PullerKnows, ProberKnows, Waits, Loop
  <2> QED
    BY <1>3, <2>2, <2>3, SentStays, QuietRows, OthersKeep DEF InboxInv, LinksHold, Unmoved, TypeOK
<1>7. CASE say # "skip"
  <2> DEFINE said == job'[w].say
  <2>1. /\ job'[w] = [p |-> e.p, env |-> e.env, say |-> said]
        /\ said = IF say = "replay_active" THEN "active"
                  ELSE IF say = "replay_rejected" THEN row[e.p].code ELSE say
        /\ pc'[w] = IF say \in {"replay_active", "replay_rejected"} THEN "sending" ELSE "decided"
        /\ batch'[w] = Tail(batch[w])
    BY <1>3, <1>7 DEF InboxInv, TypeOK
  <2>2. w \in Pullers =>
          /\ pc'[w] = "decided" => StillOpen(row[e.p]) /\ said \in {"ok"} \cup Codes
          /\ pc'[w] = "sending" =>
               \/ said = "active" /\ row[e.p].status = "case_created"
               \/ /\ row[e.p].status = "rejected" /\ row[e.p].ack = "pending"
                  /\ said \in {"online_content_gap", "offline_cap_gap"}
    BY <1>2, <1>4, <1>5, <1>7, <2>1 DEF Verdict, NeedsReprocess, StillOpen, RowFits, Rows, Codes
  <2>3. w \in Probers =>
          /\ pc'[w] = "decided" /\ said = "ok" /\ Waits(row[e.p])
          /\ \A i \in DOMAIN Tail(batch[w]) : Tail(batch[w])[i].p # e.p
    BY <1>1, <1>2, <1>4, <1>7, <2>1, LoopsDiffer DEF Local, ProberKnows
  <2>4. job'[w] \in Jobs
    BY <1>1, <2>1, <2>2, <2>3, LoopsDiffer DEF Jobs, Says, Codes
  <2>5. TypeOK'
    BY <1>1, <1>3, <2>4 DEF InboxInv, TypeOK
  <2> HIDE DEF said
  <2>6. LockHeld(w)'
    BY <1>3, <1>4, <2>1 DEF Local, LockHeld, Loop
  <2>7. w \in Pullers => PullerKnows(w)'
    BY <1>3, <2>1, <2>2 DEF PullerKnows, Speaks, Mine
  <2>8. w \in Probers => ProberKnows(w)'
    <3> SUFFICES ASSUME w \in Probers PROVE ProberKnows(w)'
      OBVIOUS
    <3>1. ProberKnows(w) /\ row' = row
      BY <1>3, <1>4 DEF Local
    <3>2. \A i \in DOMAIN batch'[w] : Waits(row[batch[w][i + 1].p]) /\ batch'[w][i] = batch[w][i + 1]
      BY <1>1, <2>1, <3>1 DEF ProberKnows
    <3>3. \A i \in DOMAIN batch'[w] : Waits(row'[batch'[w][i].p])
      BY <3>1, <3>2 DEF Waits
    <3>4. \A i, j \in DOMAIN batch'[w] : batch'[w][i].p = batch'[w][j].p => i = j
      BY <1>1, <2>1, <3>1 DEF ProberKnows
    <3>5. pc'[w] = "decided" /\ job'[w].p = e.p /\ Waits(row[e.p])
      BY <2>1, <2>3
    <3>6. Waits(Mine(w))'
      BY <3>1, <3>5 DEF Mine, Waits
    <3>7. job'[w].say = "ok" /\ \A i \in DOMAIN batch'[w] : batch'[w][i].p # job'[w].p
      BY <2>1, <2>3, <3>5
    <3> QED
      BY <3>3, <3>4, <3>5, <3>6, <3>7 DEF ProberKnows
  <2>9. Local(w)'
    BY <2>4, <2>6, <2>7, <2>8 DEF Local
  <2> QED
    BY <1>3, <2>5, <2>9, SentStays, QuietRows, OthersKeep DEF InboxInv, LinksHold, Unmoved, TypeOK
<1> QED
  BY <1>6, <1>7
-----------------------------------------------------------------------------
(* The workers that write a row.                                           *)

\* A worker with a verdict is the only one that has the payload in hand or in its list.
LEMMA DecidedAlone ==
    ASSUME InboxInv, NEW w \in Workers, NEW v \in Workers \ {w}, pc[w] = "decided"
    PROVE  /\ ~(Busy(v) /\ job[v].p = job[w].p)
           /\ v \in Probers => \A i \in DOMAIN batch[v] : batch[v][i].p # job[w].p
<1>1. Local(v) /\ Local(w) /\ Busy(w)
  BY DEF InboxInv, Busy
<1>2. CASE Loop(v) = Loop(w)
  <2>1. pc[v] = "idle" /\ DOMAIN batch[v] = {}
    BY <1>2, Alone
  <2> QED
    BY <2>1 DEF Busy
<1>3. CASE w \in Pullers /\ v \in Probers
  <2>1. StillOpen(Mine(w)) /\ ProberKnows(v)
    BY <1>1, <1>3 DEF Local, PullerKnows
  <2> QED
    BY <2>1 DEF ProberKnows, StillOpen, Waits, Speaks, Mine, Busy
<1>4. CASE w \in Probers /\ v \in Pullers
  <2>1. Waits(Mine(w)) /\ PullerKnows(v) /\ v \notin Probers
    BY <1>1, <1>4, LoopsDiffer DEF Local, ProberKnows
  <2> QED
    BY <2>1 DEF PullerKnows, StillOpen, Waits, Speaks, Mine, Busy
<1> QED
  BY <1>2, <1>3, <1>4, LoopsDiffer

\* The commit of a verdict leaves the other workers what they know.
LEMMA CommitSpares ==
    ASSUME InboxInv, NEW w \in Workers, pc[w] = "decided", NEW status, NEW code,
           Put(w, status, code), UNCHANGED <<link, lock>>,
           \A v \in Workers \ {w} : Unmoved(v)
    PROVE  \A v \in Workers \ {w} : Local(v)'
<1>1. \A q \in Payloads : q # job[w].p => row'[q] = row[q]
  BY DEF Put, InboxInv, TypeOK
<1>2. \A v \in Workers \ {w} : \A q \in Payloads : Spared(v, q)
  BY <1>1, DecidedAlone DEF Spared
<1> QED
  BY <1>2, OtherKeeps DEF LinksHold

\* A worker that materialises makes one case of its own row.
LEMMA ActivateKeeps ==
    ASSUME InboxInv, NEW w \in Workers, Activate(w)
    PROVE  InboxInv'
<1> DEFINE p == job[w].p
           code == IF w \in Pullers THEN "none" ELSE row[p].code
<1>1. /\ pc[w] = "decided" /\ Busy(w) /\ Local(w) /\ TypeOK
      /\ job[w] \in Jobs /\ p \in Payloads /\ job[w].env \in Contents /\ row[p] \in Rows
  BY InHand DEF Activate, Busy, InboxInv, Mine
<1>2. /\ cases' = [cases EXCEPT ![p] = @ + 1]
      /\ row' = [row EXCEPT ![p] = [status |-> "case_created", code |-> code,
                                    ack |-> "pending", env |-> job[w].env]]
      /\ job' = [job EXCEPT ![w].say = "active"] /\ pc' = [pc EXCEPT ![w] = "sending"]
      /\ UNCHANGED <<link, line, content, offers, lock, batch, late, requeues, faults>>
  BY DEF Activate, Put, Materialised
<1>3. row[p].status \in {"absent", "rejected"} /\ cases[p] = 0
  <2>1. row[p].status \in {"absent", "rejected"}
    BY <1>1, LoopsDiffer DEF Local, PullerKnows, ProberKnows, StillOpen, Waits, Mine
  <2> QED
    BY <1>1, <2>1 DEF InboxInv, RowKeepsItsWord
<1>4. /\ row'[p] = [status |-> "case_created", code |-> code, ack |-> "pending",
                    env |-> job[w].env]
      /\ cases'[p] = 1
      /\ \A q \in Payloads : q # p => row'[q] = row[q] /\ cases'[q] = cases[q]
  BY <1>1, <1>2, <1>3 DEF TypeOK
<1>5. job'[w].p = p /\ job'[w].say = "active" /\ job'[w] \in Jobs /\ pc'[w] = "sending"
  BY <1>1, <1>2 DEF TypeOK, Jobs, Says
<1>6. row'[p] \in Rows
  BY <1>1, <1>4 DEF Rows
<1>7. row' \in [Payloads -> Rows] /\ cases' \in [Payloads -> Nat]
  BY <1>1, <1>2, <1>4, <1>6 DEF TypeOK
<1>8. job' \in [Workers -> Jobs \cup {NoJob}]
  BY <1>1, <1>2, <1>5 DEF TypeOK
<1>9. TypeOK'
  BY <1>1, <1>2, <1>7, <1>8 DEF TypeOK
<1> HIDE DEF p
<1>10. (\A q \in Payloads : RowFits(q))' /\ RowKeepsItsWord'
  BY <1>1, <1>2, <1>4 DEF InboxInv, RowFits, RowKeepsItsWord
<1>11. (\A m \in late : Sent(m))'
  BY <1>1, <1>2, <1>3, <1>4 DEF InboxInv, TypeOK, Sent
<1>12. \A v \in Workers \ {w} : Local(v)'
  BY <1>1, <1>2, CommitSpares DEF Activate, Unmoved, TypeOK
<1>13. Local(w)'
  <2>1. Speaks(w)'
    BY <1>4, <1>5 DEF Speaks, Mine
  <2>2. LockHeld(w)'
    BY <1>1, <1>2, <1>5 DEF Local, LockHeld, Loop
  <2>3. w \in Pullers => PullerKnows(w)'
    BY <1>5, <2>1 DEF PullerKnows
  <2>4. ASSUME w \in Probers PROVE ProberKnows(w)'
    <3>1. ProberKnows(w) /\ batch'[w] = batch[w]
      BY <1>1, <1>2, <2>4 DEF Local
    <3>2. \A i \in DOMAIN batch[w] : batch[w][i].p # p /\ batch[w][i].p \in Payloads
      <4>1. batch[w] \in Seq(Envelopes)
        BY <1>1 DEF TypeOK
      <4>2. \A i \in DOMAIN batch[w] : batch[w][i] \in Envelopes
        BY <4>1
      <4> QED
        BY <1>1, <3>1, <4>2 DEF Envelopes, ProberKnows, p
    <3>3. \A i \in DOMAIN batch[w] : row'[batch[w][i].p] = row[batch[w][i].p]
      BY <1>4, <3>2
    <3> QED
      BY <1>5, <2>1, <3>1, <3>3 DEF ProberKnows, Waits
  <2> QED
    BY <1>5, <2>2, <2>3, <2>4 DEF Local
<1> QED
  BY <1>9, <1>10, <1>11, <1>12, <1>13 DEF InboxInv

\* A worker that refuses a payload writes its own row.
LEMMA RejectKeeps ==
    ASSUME InboxInv, NEW w \in Workers, Reject(w)
    PROVE  InboxInv'
<1> DEFINE p == job[w].p
           reason == OnlineReason(job[w].say)
<1>1. /\ pc[w] = "decided" /\ Busy(w) /\ Local(w) /\ TypeOK
      /\ job[w] \in Jobs /\ p \in Payloads /\ job[w].env \in Contents /\ row[p] \in Rows
  BY InHand DEF Reject, Busy, InboxInv, Mine
<1>2. /\ row' = [row EXCEPT ![p] = [status |-> "rejected", code |-> reason,
                                    ack |-> "pending", env |-> job[w].env]]
      /\ job' = [job EXCEPT ![w].say = reason] /\ pc' = [pc EXCEPT ![w] = "sending"]
      /\ UNCHANGED <<link, line, content, offers, cases, lock, batch, late, requeues, faults>>
  BY <1>1 DEF Reject, Put, TypeOK
<1>3. reason \in {"online_content_gap", "offline_cap_gap"}
  BY DEF OnlineReason
<1>4. /\ w \in Pullers /\ w \notin Probers
      /\ row[p].status \in {"absent", "rejected"} /\ cases[p] = 0
  <2>1. w \in Pullers /\ w \notin Probers
    BY <1>1, LoopsDiffer DEF Reject, Codes, Local, ProberKnows
  <2>2. row[p].status \in {"absent", "rejected"}
    BY <1>1, <2>1 DEF Local, PullerKnows, StillOpen, Mine
  <2> QED
    BY <1>1, <2>1, <2>2 DEF InboxInv, RowKeepsItsWord
<1> HIDE DEF reason
<1>5. /\ row'[p] = [status |-> "rejected", code |-> reason, ack |-> "pending",
                    env |-> job[w].env]
      /\ row'[p] \in Rows
      /\ \A q \in Payloads : q # p => row'[q] = row[q]
  BY <1>1, <1>2, <1>3 DEF TypeOK, Rows
<1>6. job'[w].p = p /\ job'[w].say = reason /\ job'[w] \in Jobs /\ pc'[w] = "sending"
  BY <1>1, <1>2, <1>3 DEF TypeOK, Jobs, Says, Codes
<1>7. TypeOK'
  BY <1>1, <1>2, <1>5, <1>6 DEF TypeOK
<1> HIDE DEF p
<1>8. (\A q \in Payloads : RowFits(q))' /\ RowKeepsItsWord'
  BY <1>1, <1>2, <1>3, <1>4, <1>5 DEF InboxInv, RowFits, RowKeepsItsWord
<1>9. \A v \in Workers \ {w} : Local(v)'
  BY <1>1, <1>2, CommitSpares DEF Reject, Unmoved, TypeOK
<1>10. Local(w)'
  <2>1. Speaks(w)'
    BY <1>3, <1>5, <1>6 DEF Speaks, Mine
  <2> QED
    BY <1>1, <1>2, <1>4, <1>6, <2>1 DEF Local, LockHeld, Loop, PullerKnows
<1> QED
  BY <1>2, <1>7, <1>8, <1>9, <1>10, SentStays DEF InboxInv

\* A worker that marks a row as answered writes its own row.
LEMMA MarkKeeps ==
    ASSUME InboxInv, NEW w \in Workers, Mark(w)
    PROVE  InboxInv'
<1>0. PICK p : p = job[w].p
  OBVIOUS
<1>1. /\ pc[w] = "marking" /\ Busy(w) /\ Local(w) /\ TypeOK
      /\ p \in Payloads /\ row[p] \in Rows
  BY <1>0, InHand DEF Mark, Busy, InboxInv, Mine
<1>2. /\ row' = [row EXCEPT ![p].ack = "acked", ![p].status = MarkStatus(job[w].say)]
      /\ pc' = [pc EXCEPT ![w] = "ready"] /\ job' = [job EXCEPT ![w] = NoJob]
      /\ UNCHANGED <<link, line, content, offers, cases, lock, batch, late, requeues, faults>>
  BY <1>0 DEF Mark, NextEnvelope
<1>3. /\ row'[p].ack = "acked" /\ row'[p].status = MarkStatus(job[w].say)
      /\ row'[p].code = row[p].code /\ row'[p].env = row[p].env
      /\ row'[p] \in Rows
      /\ \A q \in Payloads : q # p => row'[q] = row[q]
  BY <1>1, <1>2 DEF TypeOK, Rows, MarkStatus
<1>4. Speaks(w)
  BY <1>1, LoopsDiffer DEF Local, PullerKnows, ProberKnows
<1>5. TypeOK'
  BY <1>1, <1>2, <1>3 DEF TypeOK
<1>6. (\A q \in Payloads : RowFits(q))' /\ RowKeepsItsWord'
  <2>1. ASSUME NEW q \in Payloads
        PROVE  /\ RowFits(q)'
               /\ row'[q].status = "active" => link'[q].st = "active"
               /\ cases'[q] = IF row'[q].status \in {"case_created", "active"} THEN 1 ELSE 0
    <3>1. CASE q = p
      <4>1. /\ RowFits(p) /\ link' = link /\ cases' = cases
            /\ cases[p] = IF row[p].status \in {"case_created", "active"} THEN 1 ELSE 0
        BY <1>1, <1>2 DEF InboxInv, RowKeepsItsWord
      <4>2. \/ /\ row'[p].status = "active" /\ row[p].status \in {"case_created", "active"}
               /\ link[p].st = "active"
            \/ row'[p].status = "rejected" /\ row[p].status = "rejected"
        BY <1>0, <1>1, <1>3, <1>4 DEF Speaks, Mine, MarkStatus
      <4>3. RowFits(p)'
        BY <1>3, <4>1, <4>2 DEF RowFits
      <4> QED
        BY <1>3, <3>1, <4>1, <4>2, <4>3
    <3>2. CASE q # p
      BY <1>2, <1>3, <3>2 DEF InboxInv, RowFits, RowKeepsItsWord
    <3> QED
      BY <3>1, <3>2
  <2> QED
    BY <2>1 DEF RowKeepsItsWord
<1>7. ASSUME NEW v \in Workers \ {w} PROVE Local(v)'
  <2>1. Unmoved(v) /\ Local(v)
    BY <1>1, <1>2 DEF Unmoved, TypeOK, InboxInv
  <2>2. Spared(v, p)
    <3>1. CASE Loop(v) = Loop(w)
      <4>1. pc[v] = "idle" /\ DOMAIN batch[v] = {}
        BY <1>1, <3>1, Alone
      <4> QED
        BY <4>1 DEF Busy, Spared
    <3>2. CASE w \in Pullers /\ v \in Probers
      <4>1. ProberKnows(v)
        BY <2>1, <3>2 DEF Local
      <4> QED
        BY <1>0, <1>3, <1>4, <4>1 DEF ProberKnows, Waits, Speaks, Mine, Busy, Spared, MarkStatus
    <3>3. CASE w \in Probers /\ v \in Pullers
      <4>1. PullerKnows(v) /\ v \notin Probers /\ job[w].say = "active"
        BY <1>1, <2>1, <3>3, LoopsDiffer DEF Local, ProberKnows
      <4> QED
        BY <1>0, <1>3, <1>4, <4>1 DEF PullerKnows, StillOpen, Speaks, Mine, Busy, Spared, MarkStatus
    <3> QED
      BY <3>1, <3>2, <3>3, LoopsDiffer
  <2>3. \A q \in Payloads : Spared(v, q)
    BY <1>3, <2>2 DEF Spared
  <2> QED
    BY <1>2, <2>1, <2>3, OtherKeeps DEF LinksHold
<1>8. Local(w)'
  <2>1. pc'[w] = "ready" /\ batch'[w] = batch[w]
    BY <1>1, <1>2 DEF TypeOK
  <2>2. ASSUME w \in Probers PROVE ProberKnows(w)'
    <3>1. ProberKnows(w) /\ job[w].say = "active"
      BY <1>1, <2>2 DEF Local, ProberKnows
    <3>2. \A i \in DOMAIN batch[w] : batch[w][i].p # p /\ batch[w][i].p \in Payloads
      <4>1. batch[w] \in Seq(Envelopes)
        BY <1>1 DEF TypeOK
      <4>2. \A i \in DOMAIN batch[w] : batch[w][i] \in Envelopes
        BY <4>1
      <4> QED
        BY <1>0, <1>4, <3>1, <4>2 DEF Envelopes, ProberKnows, Speaks, Mine, Waits
    <3>3. \A i \in DOMAIN batch[w] : row'[batch[w][i].p] = row[batch[w][i].p]
      BY <1>3, <3>2
    <3> QED
      BY <2>1, <3>1, <3>3 DEF ProberKnows, Waits
  <2> QED
    BY <1>1, <1>2, <2>1, <2>2 DEF Local, LockHeld, Loop, Busy, PullerKnows
<1> QED
  BY <1>2, <1>5, <1>6, <1>7, <1>8, SentStays DEF InboxInv
-----------------------------------------------------------------------------
(* The steps that write no row.                                            *)

\* Where no row is written, what has to be seen is the types, the worker that moves, the
\* active links and the acks under way.
LEMMA NothingWritten ==
    ASSUME InboxInv, UNCHANGED dbVars, TypeOK', LinksHold, (\A m \in late : Sent(m))',
           NEW w \in Workers, Local(w)',
           \A v \in Workers \ {w} : Unmoved(v) /\ (lock[Loop(v)] = v => lock'[Loop(v)] = v)
    PROVE  InboxInv'
<1>1. \A v \in Workers \ {w} : Local(v)'
  BY OthersKeep
<1>2. (\A p \in Payloads : RowFits(p))' /\ RowKeepsItsWord'
  BY QuietRows
<1> QED
  BY <1>1, <1>2 DEF InboxInv

\* A worker that is done with its payload goes on with its list.
LEMMA GoesOn ==
    ASSUME InboxInv, NEW w \in Workers, Busy(w), NextEnvelope(w),
           UNCHANGED <<row, lock, batch>>
    PROVE  /\ Local(w)' /\ pc' \in [Workers -> {"idle", "ready", "decided", "sending", "marking"}]
           /\ job' \in [Workers -> Jobs \cup {NoJob}]
           /\ \A v \in Workers \ {w} : Unmoved(v) /\ (lock[Loop(v)] = v => lock'[Loop(v)] = v)
<1>1. /\ pc' = [pc EXCEPT ![w] = "ready"] /\ job' = [job EXCEPT ![w] = NoJob]
      /\ TypeOK /\ Local(w)
  BY DEF NextEnvelope, InboxInv
<1>2. pc'[w] = "ready"
  BY <1>1 DEF TypeOK
<1>3. LockHeld(w)'
  BY <1>1, <1>2 DEF Local, LockHeld, Busy, Loop
<1>4. w \in Probers => ProberKnows(w)'
  BY <1>1, <1>2 DEF Local, ProberKnows, Waits
<1>5. Local(w)'
  BY <1>2, <1>3, <1>4 DEF Local, Busy, PullerKnows
<1> QED
  BY <1>1, <1>5 DEF TypeOK, Unmoved

\* An ack that was answered is one the row stands for.
LEMMA AckAnsweredKeeps ==
    ASSUME InboxInv, NEW w \in Workers, AckAnswered(w)
    PROVE  InboxInv'
<1>1. /\ pc[w] = "sending" /\ Busy(w) /\ Local(w) /\ TypeOK
      /\ job[w] \in Jobs /\ job[w].p \in Payloads /\ job[w].say \in Says
  BY InHand DEF AckAnswered, Busy, InboxInv
<1>2. Speaks(w)
  BY <1>1, LoopsDiffer DEF Local, PullerKnows, ProberKnows
<1>3. UNCHANGED dbVars /\ (\A m \in late : Sent(m))'
  BY SentStays DEF AckAnswered
<1>4. CASE Accepts(job[w].p, job[w].say)
  <2>1. /\ OnlineTakes(job[w].p, job[w].say) /\ pc' = [pc EXCEPT ![w] = "marking"]
        /\ UNCHANGED <<content, offers, row, cases, lock, batch, job, late, requeues, faults>>
    BY <1>4 DEF AckAnswered, OnlineTakes
  <2>2. /\ link' \in [Payloads -> Links] /\ line' \in Seq(Payloads) /\ LinksHold
        /\ job[w].say = "active" => link'[job[w].p].st = "active"
    BY <1>1, <1>2, <1>4, <2>1, OnlineTakesType DEF Speaks, LinksHold
  <2>3. TypeOK'
    BY <1>1, <2>1, <2>2 DEF TypeOK
  <2>4. pc'[w] = "marking"
    BY <1>1, <2>1 DEF TypeOK
  <2>5. Speaks(w)'
    BY <1>2, <2>1, <2>2 DEF Speaks, Mine
  <2>6. Local(w)'
    BY <1>1, <2>1, <2>4, <2>5 DEF Local, LockHeld, Loop, Busy, PullerKnows, ProberKnows, Waits
  <2>7. \A v \in Workers \ {w} : Unmoved(v) /\ (lock[Loop(v)] = v => lock'[Loop(v)] = v)
    BY <1>1, <2>1 DEF TypeOK, Unmoved
  <2> QED
    BY <1>3, <2>2, <2>3, <2>6, <2>7, NothingWritten
<1>5. CASE ~Accepts(job[w].p, job[w].say)
  <2>1. /\ NextEnvelope(w)
        /\ UNCHANGED <<onlineVars, offers, row, cases, lock, batch, late, requeues, faults>>
    BY <1>5 DEF AckAnswered
  <2>2. LinksHold
    BY <2>1 DEF LinksHold
  <2>3. TypeOK'
    BY <1>1, <2>1, GoesOn DEF TypeOK
  <2> QED
    BY <1>1, <1>3, <2>1, <2>2, <2>3, GoesOn, NothingWritten
<1> QED
  BY <1>4, <1>5

\* An ack that is given up may still arrive late.
LEMMA AckGivenUpKeeps ==
    ASSUME InboxInv, NEW w \in Workers, AckGivenUp(w)
    PROVE  InboxInv'
<1>1. /\ pc[w] = "sending" /\ Busy(w) /\ Local(w) /\ TypeOK
      /\ job[w].p \in Payloads /\ job[w].say \in Says
  BY InHand DEF AckGivenUp, Busy, InboxInv
<1>2. /\ NextEnvelope(w) /\ UNCHANGED <<onlineVars, offers, row, cases, lock, batch, requeues>>
      /\ late' = late \cup {[p |-> job[w].p, say |-> job[w].say]}
      /\ faults' = faults + 1 /\ faults < MaxFaults
  BY DEF AckGivenUp
<1>3. Sent([p |-> job[w].p, say |-> job[w].say])
  BY <1>1, LoopsDiffer DEF Local, PullerKnows, ProberKnows, Speaks, Mine, Sent, InboxInv,
     RowKeepsItsWord
<1>4. (\A m \in late : Sent(m))'
  BY <1>2, <1>3 DEF InboxInv, Sent
<1>5. late' \subseteq [p : Payloads, say : Says] /\ faults' \in 0..MaxFaults
  <2>1. MaxFaults \in Nat
    BY InboxAssumption DEF InboxAssumption
  <2>2. faults' \in 0..MaxFaults
    BY <1>1, <1>2, <2>1 DEF TypeOK
  <2> QED
    BY <1>1, <1>2, <2>2 DEF TypeOK
<1>6. TypeOK'
  BY <1>1, <1>2, <1>5, GoesOn DEF TypeOK
<1> QED
  BY <1>1, <1>2, <1>4, <1>6, GoesOn, NothingWritten DEF LinksHold

\* A round that ends, of itself or broken off, leaves nothing behind but the rows and acks.
LEMMA GoIdleKeeps ==
    ASSUME InboxInv, NEW w \in Workers, EndRound(w) \/ RoundBreaks(w)
    PROVE  InboxInv'
<1>1. /\ pc' = [pc EXCEPT ![w] = "idle"] /\ batch' = [batch EXCEPT ![w] = <<>>]
      /\ job' = [job EXCEPT ![w] = NoJob]
      /\ lock' = [l \in DOMAIN lock |-> IF lock[l] = w THEN NoOne ELSE lock[l]]
      /\ UNCHANGED <<link, line, content, offers, row, cases, late, requeues>>
      /\ TypeOK
  BY DEF EndRound, RoundBreaks, GoIdle, InboxInv
<1>2. faults' \in 0..MaxFaults
  <2>1. MaxFaults \in Nat
    BY InboxAssumption DEF InboxAssumption
  <2> QED
    BY <1>1, <2>1 DEF TypeOK, EndRound, RoundBreaks
<1>3. batch' \in [Workers -> Seq(Envelopes)]
  <2>1. <<>> \in Seq(Envelopes) /\ batch \in [Workers -> Seq(Envelopes)]
    BY <1>1, EmptySeq DEF TypeOK
  <2> QED
    BY <1>1, <2>1
<1>4. lock' \in [{"pull", "probe"} -> Workers \cup {NoOne}]
  BY <1>1 DEF TypeOK
<1>5. pc' \in [Workers -> {"idle", "ready", "decided", "sending", "marking"}]
  BY <1>1 DEF TypeOK
<1>6. job' \in [Workers -> Jobs \cup {NoJob}]
  BY <1>1 DEF TypeOK
<1>7. TypeOK'
  BY <1>1, <1>2, <1>3, <1>4, <1>5, <1>6 DEF TypeOK
<1>8. Local(w)'
  <2>1. pc'[w] = "idle" /\ batch'[w] = <<>>
    BY <1>1 DEF TypeOK
  <2>2. DOMAIN batch'[w] = {}
    BY <2>1
  <2> QED
    BY <2>1, <2>2 DEF Local, LockHeld, Busy, PullerKnows, ProberKnows
<1>9. \A v \in Workers \ {w} : Unmoved(v) /\ (lock[Loop(v)] = v => lock'[Loop(v)] = v)
  BY <1>1 DEF TypeOK, Unmoved, Loop
<1> QED
  BY <1>1, <1>7, <1>8, <1>9, SentStays, NothingWritten DEF LinksHold

\* The steps of the world around move no worker.
LEMMA WorldKeeps ==
    ASSUME InboxInv, UNCHANGED <<dbVars, lock, workVars>>, TypeOK', LinksHold, late' \subseteq late
    PROVE  InboxInv'
<1>1. \A v \in Workers : Local(v)'
  BY OtherKeeps DEF Spared, Unmoved
<1> QED
  BY <1>1, QuietRows, SentStays DEF InboxInv

\* A late ack says what its row still stands for.
LEMMA LateArrivesKeeps ==
    ASSUME InboxInv, LateArrives
    PROVE  InboxInv'
<1>1. PICK m \in late :
        /\ late' = late \ {m}
        /\ IF Accepts(m.p, m.say) THEN OnlineTakes(m.p, m.say) ELSE UNCHANGED onlineVars
        /\ UNCHANGED <<offers, dbVars, lock, workVars, requeues, faults>>
  BY DEF LateArrives
<1>2. m.p \in Payloads /\ m.say \in Says /\ Sent(m) /\ TypeOK
  BY DEF InboxInv, TypeOK
<1>3. link' \in [Payloads -> Links] /\ line' \in Seq(Payloads) /\ LinksHold /\ content' = content
  <2>1. CASE Accepts(m.p, m.say)
    BY <1>1, <1>2, <2>1, OnlineTakesType DEF Sent, LinksHold, OnlineTakes
  <2>2. CASE ~Accepts(m.p, m.say)
    BY <1>1, <1>2, <2>2 DEF TypeOK, LinksHold
  <2> QED
    BY <2>1, <2>2
<1>4. TypeOK'
  BY <1>1, <1>2, <1>3 DEF TypeOK
<1> QED
  BY <1>1, <1>3, <1>4, WorldKeeps

\* A payload that is offered again leaves alone what rows, workers and late acks know of it.
LEMMA RequeueKeeps ==
    ASSUME InboxInv, NEW p \in Payloads, Requeue(p)
    PROVE  InboxInv'
<1>1. /\ link[p].st = "invalidated" /\ requeues < MaxRequeues /\ requeues' = requeues + 1
      /\ link' = [link EXCEPT ![p] = [st |-> "assembled", reason |-> "none"]]
      /\ line' = Append(line, p)
      /\ UNCHANGED <<offers, dbVars, lock, workVars, late, faults>> /\ TypeOK
  BY DEF Requeue, InboxInv
<1>2. link' \in [Payloads -> Links] /\ LinksHold
  BY <1>1 DEF TypeOK, Links, LinksHold
<1>3. line' \in Seq(Payloads)
  BY <1>1, AppendProperties DEF TypeOK
<1>4. content' \in [Payloads -> Contents]
  <2>1. PICK c \in {"good", content[p]} : content' = [content EXCEPT ![p] = c]
    BY DEF Requeue
  <2>2. c \in Contents
    BY <1>1, InboxAssumption DEF TypeOK, InboxAssumption
  <2> QED
    BY <1>1, <2>1, <2>2 DEF TypeOK
<1>5. requeues' \in 0..MaxRequeues
  <2>1. MaxRequeues \in Nat
    BY InboxAssumption DEF InboxAssumption
  <2> QED
    BY <1>1, <2>1 DEF TypeOK
<1>6. TypeOK'
  BY <1>1, <1>2, <1>3, <1>4, <1>5 DEF TypeOK
<1> QED
  BY <1>1, <1>2, <1>6, WorldKeeps

\* Every step of the two loops, of the online platform and of those who register keeps
\* the invariant.
LEMMA StepInbox == InboxInv /\ [Next]_vars => InboxInv'
<1> SUFFICES ASSUME InboxInv, [Next]_vars PROVE InboxInv'
  OBVIOUS
<1>1. ASSUME NEW w \in Workers, Pull(w) PROVE InboxInv'
  BY <1>1, PullKeeps
<1>2. ASSUME NEW w \in Workers, Probe(w) PROVE InboxInv'
  BY <1>2, ProbeKeeps
<1>3. ASSUME NEW w \in Workers, Look(w) \/ LookAgain(w) PROVE InboxInv'
  BY <1>3, DecideKeeps DEF Look, LookAgain
<1>4. ASSUME NEW w \in Workers, Activate(w) PROVE InboxInv'
  BY <1>4, ActivateKeeps
<1>5. ASSUME NEW w \in Workers, Reject(w) PROVE InboxInv'
  BY <1>5, RejectKeeps
<1>6. ASSUME NEW w \in Workers, AckAnswered(w) PROVE InboxInv'
  BY <1>6, AckAnsweredKeeps
<1>7. ASSUME NEW w \in Workers, Mark(w) PROVE InboxInv'
  BY <1>7, MarkKeeps
<1>8. ASSUME NEW w \in Workers, EndRound(w) \/ RoundBreaks(w) PROVE InboxInv'
  BY <1>8, GoIdleKeeps
<1>9. ASSUME NEW w \in Workers, AckGivenUp(w) PROVE InboxInv'
  BY <1>9, AckGivenUpKeeps
<1>10. CASE LateArrives
  BY <1>10, LateArrivesKeeps
<1>11. ASSUME NEW x \in {"mapping", "file"}, Provide(x) PROVE InboxInv'
  <2>1. TypeOK' /\ LinksHold
    BY <1>11 DEF Provide, InboxInv, TypeOK, LinksHold
  <2> QED
    BY <1>11, <2>1, WorldKeeps DEF Provide
<1>12. ASSUME NEW p \in Payloads, Requeue(p) PROVE InboxInv'
  BY <1>12, RequeueKeeps
<1>13. CASE UNCHANGED vars
  <2>1. TypeOK' /\ LinksHold
    BY <1>13 DEF vars, InboxInv, TypeOK, LinksHold
  <2> QED
    BY <1>13, <2>1, WorldKeeps DEF vars
<1> QED
  BY <1>1, <1>2, <1>3, <1>4, <1>5, <1>6, <1>7, <1>8, <1>9, <1>10, <1>11, <1>12, <1>13
     DEF Next, Step
-----------------------------------------------------------------------------
(* The theorems.                                                           *)

\* In every reachable state the variables have their types, whoever dies and whatever is lost.
THEOREM InboxTypeCorrect == Spec => []TypeOK
<1>1. InboxInv => TypeOK
  BY DEF InboxInv
<1> QED
  BY <1>1, InitInbox, StepInbox, PTL DEF Spec

\* A row that says its case was acknowledged belongs to an active link, a row that says a
\* case was made belongs to exactly one case, and no case is forgotten by its row: for any
\* number of payloads, workers, crashes, lost or late acks and requeues.
THEOREM RowsKeepTheirWord == Spec => []RowKeepsItsWord
<1>1. InboxInv => RowKeepsItsWord
  BY DEF InboxInv
<1> QED
  BY <1>1, InitInbox, StepInbox, PTL DEF Spec
-----------------------------------------------------------------------------
(* The refinement of BackflowLink.                                         *)

\* Where neither a case is made nor a link moves, nothing moves.
LEMMA LinkStutters ==
    ASSUME UNCHANGED <<link, cases>>
    PROVE  [Link!Next]_Link!linkVars
  BY DEF Link!linkVars, Made, Answer

\* What the link hears of a state of a payload, before and after a step.
Heard(st) == IF st = "assembled" THEN "open" ELSE IF st = "active" THEN "active" ELSE "refused"

\* The answers of the link, by the state of each payload there.
LEMMA AnswerIs ==
    ASSUME link \in [Payloads -> Links], link' \in [Payloads -> Links]
    PROVE  /\ Answer = [p \in Payloads |-> Heard(link[p].st)]
           /\ Answer' = [p \in Payloads |-> Heard(link'[p].st)]
  BY DEF Answer, Heard, Links

\* An ack the online platform takes is an answer of the link, and "active" has its case.
LEMMA AckAnswers ==
    ASSUME TypeOK, NEW p \in Payloads, NEW say, OnlineTakes(p, say), UNCHANGED cases,
           say \in {"active", "online_content_gap", "offline_cap_gap"},
           say = "active" => cases[p] = 1
    PROVE  [Link!Next]_Link!linkVars
<1>1. /\ link \in [Payloads -> Links] /\ link' \in [Payloads -> Links] /\ Made' = Made
      /\ \A q \in Payloads : q # p => link'[q] = link[q]
  BY DEF TypeOK, Made, OnlineTakes, Links
<1>2. /\ Answer = [q \in Payloads |-> Heard(link[q].st)]
      /\ Answer' = [q \in Payloads |-> Heard(link'[q].st)]
  BY <1>1, AnswerIs
<1>3. Answer' = [Answer EXCEPT ![p] = Heard(link'[p].st)]
  BY <1>1, <1>2
<1>4. CASE say = "active"
  <2>1. p \in Made
    BY <1>4 DEF Made
  <2>2. Heard(link'[p].st) = "active"
    BY <1>1, <1>4 DEF OnlineTakes, Heard
  <2>3. Link!Activate(p)
    BY <1>1, <1>3, <2>1, <2>2 DEF Link!Activate
  <2> QED
    BY <2>3 DEF Link!Next
<1>5. CASE say # "active" /\ link[p].st = "assembled"
  <2>1. Answer[p] = "open" /\ Heard(link'[p].st) = "refused"
    BY <1>1, <1>2, <1>5 DEF OnlineTakes, Heard
  <2>2. Link!Refuse(p)
    BY <1>1, <1>3, <2>1 DEF Link!Refuse
  <2> QED
    BY <2>2 DEF Link!Next
<1>6. CASE say # "active" /\ link[p].st # "assembled"
  <2>1. link' = link
    BY <1>1, <1>6 DEF OnlineTakes
  <2> QED
    BY <2>1, LinkStutters
<1> QED
  BY <1>4, <1>5, <1>6

\* A worker that materialises is the one step that makes a case of the link.
LEMMA ActivateMakes ==
    ASSUME InboxInv, NEW w \in Workers, Activate(w)
    PROVE  [Link!Next]_Link!linkVars
<1>1. PICK p \in Payloads : p = job[w].p
  BY InHand DEF Activate, Busy
<1>2. /\ cases' = [cases EXCEPT ![p] = @ + 1] /\ UNCHANGED link
      /\ cases \in [Payloads -> Nat]
  BY <1>1 DEF Activate, Materialised, InboxInv, TypeOK
<1>3. cases'[p] = cases[p] + 1 /\ \A q \in Payloads : q # p => cases'[q] = cases[q]
  BY <1>2
<1>4. Made' = Made \cup {p}
  <2>1. cases[p] \in Nat
    BY <1>2
  <2>2. cases'[p] > 0
    BY <1>3, <2>1
  <2> QED
    BY <1>3, <2>2 DEF Made
<1>5. Answer' = Answer
  BY <1>2 DEF Answer
<1> QED
  BY <1>4, <1>5 DEF Link!Next, Link!Materialise

\* A payload offered again is open again on the link.
LEMMA RequeueAsks ==
    ASSUME InboxInv, NEW p \in Payloads, Requeue(p)
    PROVE  [Link!Next]_Link!linkVars
<1>1. /\ link[p].st = "invalidated" /\ UNCHANGED cases
      /\ link' = [link EXCEPT ![p] = [st |-> "assembled", reason |-> "none"]]
      /\ link \in [Payloads -> Links]
  BY DEF Requeue, InboxInv, TypeOK
<1>2. link' \in [Payloads -> Links]
  BY <1>1 DEF Links
<1>3. Answer[p] = "refused" /\ Answer' = [Answer EXCEPT ![p] = "open"]
  BY <1>1, <1>2, AnswerIs DEF Heard
<1>4. Made' = Made
  BY <1>1 DEF Made
<1> QED
  BY <1>3, <1>4 DEF Link!Next, Link!AskAgain

\* Every step of the inbox is a step of the link, or none.
LEMMA StepOfLink == InboxInv /\ [Next]_vars => [Link!Next]_Link!linkVars
<1> SUFFICES ASSUME InboxInv, [Next]_vars PROVE [Link!Next]_Link!linkVars
  OBVIOUS
<1>1. ASSUME NEW w \in Workers, AckAnswered(w) PROVE [Link!Next]_Link!linkVars
  <2>1. PICK p \in Payloads : p = job[w].p
    BY <1>1, InHand DEF AckAnswered, Busy
  <2>2. PICK say : say = job[w].say
    OBVIOUS
  <2>3. /\ say \in {"active", "online_content_gap", "offline_cap_gap"}
        /\ say = "active" => cases[p] = 1
    BY <1>1, <2>1, <2>2, LoopsDiffer DEF AckAnswered, InboxInv, Local, PullerKnows,
       ProberKnows, Speaks, Mine, RowKeepsItsWord
  <2>4. UNCHANGED cases /\ (OnlineTakes(p, say) \/ UNCHANGED link)
    BY <1>1, <2>1, <2>2 DEF AckAnswered
  <2> QED
    BY <2>3, <2>4, AckAnswers, LinkStutters DEF InboxInv
<1>2. CASE LateArrives
  <2>1. PICK m \in late : /\ OnlineTakes(m.p, m.say) \/ UNCHANGED link
                          /\ UNCHANGED cases
    BY <1>2 DEF LateArrives
  <2>2. Sent(m) /\ TypeOK
    BY DEF InboxInv
  <2>3. PICK p \in Payloads : p = m.p
    BY <2>2 DEF TypeOK
  <2>4. PICK say : say = m.say
    OBVIOUS
  <2>5. /\ say \in {"active", "online_content_gap", "offline_cap_gap"}
        /\ say = "active" => cases[p] = 1
    BY <2>2, <2>3, <2>4 DEF Sent
  <2>6. UNCHANGED cases /\ (OnlineTakes(p, say) \/ UNCHANGED link)
    BY <2>1, <2>3, <2>4
  <2> QED
    BY <2>2, <2>5, <2>6, AckAnswers, LinkStutters
<1>3. ASSUME NEW w \in Workers,
             \/ Pull(w) \/ Probe(w) \/ Look(w) \/ LookAgain(w) \/ Reject(w) \/ Mark(w)
             \/ EndRound(w) \/ RoundBreaks(w) \/ AckGivenUp(w)
      PROVE  [Link!Next]_Link!linkVars
  <2>1. UNCHANGED <<link, cases>>
    BY <1>3 DEF Pull, Probe, StartRound, Look, LookAgain, Decide, Reject, Mark, EndRound,
       RoundBreaks, AckGivenUp
  <2> QED
    BY <2>1, LinkStutters
<1>4. ASSUME NEW x \in {"mapping", "file"}, Provide(x) PROVE [Link!Next]_Link!linkVars
  BY <1>4, LinkStutters DEF Provide
<1>5. CASE UNCHANGED vars
  BY <1>5, LinkStutters DEF vars
<1> QED
  BY <1>1, <1>2, <1>3, <1>4, <1>5, ActivateMakes, RequeueAsks DEF Next, Step

\* The inbox implements BackflowLink: the online platform hears "active" of a payload only
\* after its case was committed, an active link stays active, and a refused one only moves
\* by being asked again or by healing.
THEOREM InboxImplementsLink == Spec => ImplementsLink
<1>1. Init => Link!Init
  BY DEF Init, Link!Init, Made, Answer
<1> QED
  BY <1>1, InitInbox, StepInbox, StepOfLink, PTL DEF Spec, ImplementsLink, Link!Spec
-----------------------------------------------------------------------------
(* What the clean-up keeps, of runs G in the order R.                      *)

\* j before i in R says that j is newer than i.
Orders(R, G) ==
    /\ \A i \in G : <<i, i>> \notin R
    /\ \A i, j, k \in G : <<i, j>> \in R /\ <<j, k>> \in R => <<i, k>> \in R
    /\ \A i, j \in G : i # j => <<i, j>> \in R \/ <<j, i>> \in R

Above(S, R, i) == {j \in S : <<j, i>> \in R}
TopOf(S, R, n) == {i \in S : Cardinality(Above(S, R, i)) < n}
\* The newest run of each version, and the versions of a set of runs.
NewestOfEach(G, R, ver) == {i \in G : \A j \in G : ver[j] = ver[i] => <<j, i>> \notin R}
VersionsIn(S, ver) == {ver[i] : i \in S}
Spares(G, R, ver, n) ==
    TopOf(NewestOfEach(G, R, ver), R, n)
      \cup TopOf(G \ NewestOfEach(G, R, ver), R, n - Cardinality(VersionsIn(G, ver)))

\* Whatever is above a run has fewer runs above itself.
LEMMA AboveShrinks ==
    ASSUME NEW S, IsFiniteSet(S), NEW R, Orders(R, S), NEW i \in S, NEW j \in Above(S, R, i)
    PROVE  /\ Above(S, R, j) \subseteq Above(S, R, i)
           /\ Cardinality(Above(S, R, j)) < Cardinality(Above(S, R, i))
           /\ Cardinality(Above(S, R, j)) \in Nat /\ Cardinality(Above(S, R, i)) \in Nat
<1>1. /\ Above(S, R, j) \subseteq Above(S, R, i) /\ j \notin Above(S, R, j)
      /\ Above(S, R, i) \subseteq S
  BY DEF Above, Orders
<1>2. IsFiniteSet(Above(S, R, i))
  BY <1>1, FS_Subset
<1>3. /\ Cardinality(Above(S, R, j)) <= Cardinality(Above(S, R, i)) /\ IsFiniteSet(Above(S, R, j))
      /\ (Cardinality(Above(S, R, j)) = Cardinality(Above(S, R, i)) => Above(S, R, j) = Above(S, R, i))
  BY <1>1, <1>2, FS_Subset
<1>4. Cardinality(Above(S, R, j)) \in Nat /\ Cardinality(Above(S, R, i)) \in Nat
  BY <1>2, <1>3, FS_CardinalityType
<1> QED
  BY <1>1, <1>3, <1>4

\* If something is left out of the top, all of the top is above it and the top has n members.
LEMMA TopCount ==
    ASSUME NEW S, IsFiniteSet(S), NEW R, Orders(R, S), NEW n \in Nat, NEW i \in S \ TopOf(S, R, n)
    PROVE  /\ \A j \in TopOf(S, R, n) : <<j, i>> \in R
           /\ Cardinality(TopOf(S, R, n)) = n
<1> DEFINE m == Cardinality(S)
           f == [x \in S |-> Cardinality(Above(S, R, x))]
<1>1. m \in Nat
  BY FS_CardinalityType
<1>2. \A x \in S : /\ f[x] \in 0..(m - 1)
                   /\ Above(S, R, x) \subseteq S /\ x \notin Above(S, R, x)
  <2> SUFFICES ASSUME NEW x \in S
               PROVE  /\ Cardinality(Above(S, R, x)) \in 0..(m - 1)
                      /\ Above(S, R, x) \subseteq S /\ x \notin Above(S, R, x)
    OBVIOUS
  <2>1. Above(S, R, x) \subseteq S /\ x \notin Above(S, R, x)
    BY DEF Above, Orders
  <2>2. /\ IsFiniteSet(Above(S, R, x)) /\ Cardinality(Above(S, R, x)) <= m
        /\ (m = Cardinality(Above(S, R, x)) => S = Above(S, R, x))
    BY <2>1, FS_Subset
  <2>3. Cardinality(Above(S, R, x)) \in Nat
    BY <2>2, FS_CardinalityType
  <2> QED
    BY <1>1, <2>1, <2>2, <2>3
<1>3. \A x, y \in S : f[x] = f[y] => x = y
  <2> SUFFICES ASSUME NEW x \in S, NEW y \in S, x # y PROVE f[x] # f[y]
    OBVIOUS
  <2>1. y \in Above(S, R, x) \/ x \in Above(S, R, y)
    BY DEF Above, Orders
  <2> QED
    BY <2>1, AboveShrinks
<1>4. f \in Injection(S, 0..(m - 1))
  BY <1>2, <1>3 DEF Injection, IsInjective
<1> HIDE DEF m
<1>5. IsFiniteSet(0..(m - 1)) /\ Cardinality(0..(m - 1)) = m
  <2>1. 0 \in Int /\ m - 1 \in Int /\ (IF 0 > m - 1 THEN 0 ELSE m - 1 - 0 + 1) = m
    BY <1>1
  <2> QED
    BY <2>1, FS_Interval
<1>6. f \in Surjection(S, 0..(m - 1))
  BY <1>4, <1>5, FS_Injection DEF m
<1>7. f[i] >= n /\ n <= m - 1
  BY <1>1, <1>2 DEF TopOf
<1>8. /\ TopOf(S, R, n) = {x \in S : f[x] < n}
  BY DEF TopOf
<1> HIDE DEF f
<1> DEFINE T == TopOf(S, R, n)
           g == [x \in T |-> f[x]]
<1>9. g \in Bijection(T, 0..(n - 1))
  <2>1. g \in [T -> 0..(n - 1)]
    BY <1>1, <1>2, <1>8
  <2>2. \A x, y \in T : g[x] = g[y] => x = y
    BY <1>3, <1>8
  <2>3. ASSUME NEW k \in 0..(n - 1) PROVE \E x \in T : g[x] = k
    <3>1. k \in 0..(m - 1) /\ k < n
      BY <1>1, <1>7
    <3>2. PICK x \in S : f[x] = k
      BY <1>6, <3>1 DEF Surjection
    <3> QED
      BY <1>8, <3>1, <3>2
  <2> QED
    BY <2>1, <2>2, <2>3 DEF Bijection, Injection, IsInjective, Surjection
<1>10. Cardinality(T) = n
  <2>1. IsFiniteSet(T)
    BY <1>8, FS_Subset
  <2>2. ExistsBijection(T, 0..(n - 1))
    BY <1>9 DEF ExistsBijection
  <2>3. Cardinality(0..(n - 1)) = n
    BY FS_Interval
  <2> QED
    BY <2>1, <2>2, <2>3, FS_Bijection
<1>11. ASSUME NEW j \in T PROVE <<j, i>> \in R
  <2>1. j \in S /\ j # i /\ f[j] < n /\ f[j] \in Nat /\ f[i] \in Nat
    BY <1>2, <1>8, <1>11
  <2>2. CASE <<i, j>> \in R
    <3>1. i \in Above(S, R, j)
      BY <2>2 DEF Above
    <3>2. f[i] < f[j]
      BY <2>1, <3>1, AboveShrinks DEF f
    <3> QED
      BY <1>7, <2>1, <3>2
  <2> QED
    BY <2>1, <2>2 DEF Orders
<1> QED
  BY <1>10, <1>11

\* A member of a finite set that nothing is above.
LEMMA HasTop ==
    ASSUME NEW S, IsFiniteSet(S), NEW R, Orders(R, S), S # {}
    PROVE  \E k \in S : Above(S, R, k) = {}
<1>1. PICK i \in S : TRUE
  OBVIOUS
<1>2. PICK k \in S : Cardinality(Above(S, R, k)) < 1
  <2>1. CASE i \in TopOf(S, R, 1)
    BY <2>1 DEF TopOf
  <2>2. CASE i \notin TopOf(S, R, 1)
    <3>1. Cardinality(TopOf(S, R, 1)) = 1
      BY <2>2, TopCount
    <3>2. TopOf(S, R, 1) # {}
      BY <3>1, FS_EmptySet
    <3> QED
      BY <3>2 DEF TopOf
  <2> QED
    BY <2>1, <2>2
<1>3. IsFiniteSet(Above(S, R, k))
  BY FS_Subset DEF Above
<1>4. Cardinality(Above(S, R, k)) \in Nat
  BY <1>3, FS_CardinalityType
<1>5. Cardinality(Above(S, R, k)) = 0
  BY <1>2, <1>4
<1> QED
  BY <1>3, <1>5, FS_EmptySet

\* Leaving runs out that are not of the top leaves the top as it was.
LEMMA TopStays ==
    ASSUME NEW S, IsFiniteSet(S), NEW R, Orders(R, S), NEW n \in Nat,
           NEW B, B \cap TopOf(S, R, n) = {}
    PROVE  TopOf(S \ B, R, n) \subseteq TopOf(S, R, n)
<1> SUFFICES ASSUME NEW i \in S \ B, i \notin TopOf(S, R, n)
             PROVE  ~(Cardinality(Above(S \ B, R, i)) < n)
  BY DEF TopOf
<1>1. (\A j \in TopOf(S, R, n) : <<j, i>> \in R) /\ Cardinality(TopOf(S, R, n)) = n
  BY TopCount
<1>2. TopOf(S, R, n) \subseteq Above(S \ B, R, i) /\ Above(S \ B, R, i) \subseteq S
  BY <1>1 DEF TopOf, Above
<1>3. IsFiniteSet(Above(S \ B, R, i))
  BY <1>2, FS_Subset
<1>4. n <= Cardinality(Above(S \ B, R, i)) /\ Cardinality(Above(S \ B, R, i)) \in Nat
  BY <1>1, <1>2, <1>3, FS_Subset, FS_CardinalityType
<1> QED
  BY <1>4

\* Every run has a newest one of its version that is the run itself or newer.
LEMMA HasNewest ==
    ASSUME NEW G, IsFiniteSet(G), NEW R, Orders(R, G), NEW ver, NEW i \in G
    PROVE  \E k \in NewestOfEach(G, R, ver) : ver[k] = ver[i] /\ (k = i \/ <<k, i>> \in R)
<1> DEFINE S == {j \in G : ver[j] = ver[i] /\ (j = i \/ <<j, i>> \in R)}
<1>1. S \subseteq G /\ i \in S
  OBVIOUS
<1>2. IsFiniteSet(S) /\ Orders(R, S)
  BY <1>1, FS_Subset DEF Orders
<1> HIDE DEF S
<1>3. PICK k \in S : Above(S, R, k) = {}
  BY <1>1, <1>2, HasTop
<1>4. ASSUME NEW j \in G, ver[j] = ver[k], <<j, k>> \in R PROVE FALSE
  <2>1. k \in G /\ ver[k] = ver[i] /\ (k = i \/ <<k, i>> \in R)
    BY DEF S
  <2>2. j \in S
    BY <1>4, <2>1 DEF S, Orders
  <2> QED
    BY <1>3, <1>4, <2>2 DEF Above
<1> QED
  BY <1>4 DEF S, NewestOfEach

\* Newest runs of their versions are as many as their versions.
LEMMA VersionsOfNewest ==
    ASSUME NEW G, IsFiniteSet(G), NEW R, Orders(R, G), NEW ver,
           NEW S \in SUBSET NewestOfEach(G, R, ver)
    PROVE  /\ IsFiniteSet(S) /\ IsFiniteSet(VersionsIn(S, ver))
           /\ Cardinality(VersionsIn(S, ver)) = Cardinality(S)
<1>1. S \subseteq G
  BY DEF NewestOfEach
<1>2. IsFiniteSet(S)
  BY <1>1, FS_Subset
<1> DEFINE f == [i \in S |-> ver[i]]
<1>3. f \in Surjection(S, VersionsIn(S, ver))
  BY DEF Surjection, VersionsIn
<1>4. f \in Injection(S, VersionsIn(S, ver))
  BY <1>1 DEF Injection, IsInjective, VersionsIn, NewestOfEach, Orders
<1> QED
  BY <1>2, <1>3, <1>4, FS_Surjection

\* The newest runs above a run are as many as the versions above it.
LEMMA NewestAbove ==
    ASSUME NEW G, IsFiniteSet(G), NEW R, Orders(R, G), NEW ver, NEW i \in G
    PROVE  /\ VersionsIn(Above(NewestOfEach(G, R, ver), R, i), ver) = VersionsIn(Above(G, R, i), ver)
           /\ Cardinality(Above(NewestOfEach(G, R, ver), R, i)) =
                 Cardinality(VersionsIn(Above(G, R, i), ver))
           /\ IsFiniteSet(VersionsIn(Above(G, R, i), ver))
<1> DEFINE S == Above(NewestOfEach(G, R, ver), R, i)
<1>1. S \in SUBSET NewestOfEach(G, R, ver)
  BY DEF Above
<1>2. VersionsIn(S, ver) = VersionsIn(Above(G, R, i), ver)
  <2>1. S \subseteq Above(G, R, i)
    BY DEF Above, NewestOfEach
  <2>2. ASSUME NEW j \in Above(G, R, i) PROVE \E k \in S : ver[k] = ver[j]
    <3>1. j \in G /\ <<j, i>> \in R
      BY DEF Above
    <3>2. PICK k \in NewestOfEach(G, R, ver) : ver[k] = ver[j] /\ (k = j \/ <<k, j>> \in R)
      BY <3>1, HasNewest
    <3>3. k \in G /\ <<k, i>> \in R
      BY <3>1, <3>2 DEF NewestOfEach, Orders
    <3> QED
      BY <3>2, <3>3 DEF Above
  <2> QED
    BY <2>1, <2>2 DEF VersionsIn
<1> HIDE DEF S
<1>3. Cardinality(VersionsIn(S, ver)) = Cardinality(S) /\ IsFiniteSet(VersionsIn(S, ver))
  BY <1>1, VersionsOfNewest
<1> QED
  BY <1>2, <1>3 DEF S

\* What the rest needs of the newest runs: they are as many as the versions, and all spared when the
\* versions are fewer than n.
LEMMA NewestFacts ==
    ASSUME NEW G, IsFiniteSet(G), NEW R, Orders(R, G), NEW ver, NEW n \in Nat
    PROVE  LET N == NewestOfEach(G, R, ver)
               v == Cardinality(VersionsIn(G, ver))
           IN /\ N \subseteq G /\ IsFiniteSet(N) /\ Orders(R, N)
              /\ Cardinality(N) = v /\ v \in Nat /\ IsFiniteSet(VersionsIn(G, ver))
              /\ (v < n => TopOf(N, R, n) = N)
              /\ (v >= n => Cardinality(TopOf(N, R, n)) >= n)
<1> DEFINE N == NewestOfEach(G, R, ver)
           v == Cardinality(VersionsIn(G, ver))
<1>1. N \subseteq G /\ N \in SUBSET N
  BY DEF NewestOfEach
<1>2. IsFiniteSet(N) /\ Orders(R, N)
  BY <1>1, FS_Subset DEF Orders
<1>3. VersionsIn(N, ver) = VersionsIn(G, ver)
  <2>1. \A x \in G : \E y \in N : ver[y] = ver[x]
    <3> TAKE x \in G
    <3>1. PICK y \in N : ver[y] = ver[x] /\ (y = x \/ <<y, x>> \in R)
      BY HasNewest
    <3> QED
      BY <3>1
  <2> HIDE DEF N
  <2> QED
    BY <1>1, <2>1 DEF VersionsIn
<1>4. Cardinality(N) = v /\ v \in Nat /\ IsFiniteSet(VersionsIn(G, ver))
  BY <1>1, <1>3, VersionsOfNewest, FS_CardinalityType
<1> HIDE DEF N, v
<1>5. ASSUME v < n PROVE TopOf(N, R, n) = N
  <2> SUFFICES ASSUME NEW i \in N PROVE Cardinality(Above(N, R, i)) < n
    BY DEF TopOf
  <2>1. /\ IsFiniteSet(Above(N, R, i))
        /\ Cardinality(Above(N, R, i)) <= Cardinality(N)
    BY <1>2, FS_Subset DEF Above
  <2>2. Cardinality(Above(N, R, i)) \in Nat
    BY <2>1, FS_CardinalityType
  <2> QED
    BY <1>4, <1>5, <2>1, <2>2
<1>6. ASSUME v >= n PROVE Cardinality(TopOf(N, R, n)) >= n
  <2>1. CASE TopOf(N, R, n) = N
    BY <1>4, <1>6, <2>1
  <2>2. CASE TopOf(N, R, n) # N
    <3>1. PICK i \in N : i \notin TopOf(N, R, n)
      BY <2>2 DEF TopOf
    <3>2. Cardinality(TopOf(N, R, n)) = n
      BY <1>2, <3>1, TopCount
    <3> QED
      BY <3>2
  <2> QED
    BY <2>1, <2>2
<1> QED
  BY <1>1, <1>2, <1>4, <1>5, <1>6 DEF N, v

\* A run that joins the group makes no other run spared.
LEMMA SparedGrows ==
    ASSUME NEW G, IsFiniteSet(G), NEW e, NEW R, Orders(R, G \cup {e}), NEW ver, NEW n \in Nat,
           NEW i \in G, i \in Spares(G \cup {e}, R, ver, n)
    PROVE  i \in Spares(G, R, ver, n)
<1> DEFINE G1 == G \cup {e}
           N  == NewestOfEach(G, R, ver)
           N1 == NewestOfEach(G1, R, ver)
           v  == Cardinality(VersionsIn(G, ver))
           v1 == Cardinality(VersionsIn(G1, ver))
<1>1. IsFiniteSet(G1) /\ Orders(R, G) /\ Orders(R, G1) /\ G \subseteq G1
  BY FS_AddElement DEF Orders
<1>2. (\A x \in G : x \notin N => x \notin N1) /\ N1 \subseteq G1
  BY DEF NewestOfEach
<1>3. v \in Nat /\ v1 \in Nat /\ v <= v1
  <2>1. VersionsIn(G, ver) \subseteq VersionsIn(G1, ver)
    BY DEF VersionsIn
  <2>2. v \in Nat /\ v1 \in Nat /\ IsFiniteSet(VersionsIn(G1, ver))
    BY <1>1, NewestFacts
  <2>3. v <= v1
    BY <2>1, <2>2, FS_Subset
  <2> QED
    BY <2>2, <2>3
<1>4. /\ Cardinality(Above(N, R, i)) <= Cardinality(Above(N1, R, i))
      /\ Cardinality(Above(N, R, i)) \in Nat /\ Cardinality(Above(N1, R, i)) \in Nat
  <2>1. VersionsIn(Above(G, R, i), ver) \subseteq VersionsIn(Above(G1, R, i), ver)
    BY DEF VersionsIn, Above
  <2>2. /\ Cardinality(Above(N, R, i)) = Cardinality(VersionsIn(Above(G, R, i), ver))
        /\ IsFiniteSet(VersionsIn(Above(G, R, i), ver))
    BY <1>1, NewestAbove
  <2>3. /\ Cardinality(Above(N1, R, i)) = Cardinality(VersionsIn(Above(G1, R, i), ver))
        /\ IsFiniteSet(VersionsIn(Above(G1, R, i), ver))
    BY <1>1, NewestAbove
  <2> QED
    BY <2>1, <2>2, <2>3, FS_Subset, FS_CardinalityType
<1>5. CASE i \in TopOf(N1, R, n)
  <2>1. i \in N /\ Cardinality(Above(N1, R, i)) < n
    BY <1>2, <1>5 DEF TopOf
  <2> HIDE DEF N, N1
  <2>2. Cardinality(Above(N, R, i)) < n
    BY <1>4, <2>1
  <2> QED
    BY <2>1, <2>2 DEF Spares, TopOf, N
<1>6. CASE i \in TopOf(G1 \ N1, R, n - v1)
  <2>1. i \in G1 \ N1 /\ Cardinality(Above(G1 \ N1, R, i)) < n - v1
    BY <1>6 DEF TopOf
  <2>2. /\ Above(G \ N, R, i) \subseteq Above(G1 \ N1, R, i)
        /\ Above(G1 \ N1, R, i) \subseteq G1
    BY <1>2 DEF Above
  <2>3. /\ Cardinality(Above(G \ N, R, i)) <= Cardinality(Above(G1 \ N1, R, i))
        /\ Cardinality(Above(G \ N, R, i)) \in Nat /\ Cardinality(Above(G1 \ N1, R, i)) \in Nat
    BY <1>1, <2>2, FS_Subset, FS_CardinalityType
  <2> HIDE DEF N, N1, v, v1, G1
  <2>4. v < n /\ Cardinality(Above(G \ N, R, i)) < n - v
    BY <1>3, <2>1, <2>3
  <2>5. CASE i \in N
    <3>1. i \in TopOf(N, R, n)
      BY <1>1, <2>4, <2>5, NewestFacts DEF N, v
    <3> QED
      BY <3>1 DEF Spares, N
  <2>6. CASE i \notin N
    <3>1. i \in TopOf(G \ N, R, n - v)
      BY <2>4, <2>6 DEF TopOf
    <3> QED
      BY <3>1 DEF Spares, N, v
  <2> QED
    BY <2>5, <2>6
<1> QED
  BY <1>5, <1>6 DEF Spares

\* Runs that leave without having been spared make no other run spared.
LEMMA SparedShrinks ==
    ASSUME NEW G, IsFiniteSet(G), NEW B, NEW R, Orders(R, G), NEW ver, NEW n \in Nat,
           B \cap Spares(G, R, ver, n) = {},
           NEW i \in Spares(G \ B, R, ver, n)
    PROVE  i \in Spares(G, R, ver, n)
<1> DEFINE G1 == G \ B
           N  == NewestOfEach(G, R, ver)
           N1 == NewestOfEach(G1, R, ver)
           v  == Cardinality(VersionsIn(G, ver))
           v1 == Cardinality(VersionsIn(G1, ver))
           T  == TopOf(N, R, n)
<1>1. IsFiniteSet(G1) /\ Orders(R, G1) /\ G1 \subseteq G
  BY FS_Subset DEF Orders
<1>2. /\ N \subseteq G /\ IsFiniteSet(N) /\ Orders(R, N) /\ v \in Nat
      /\ (v < n => T = N) /\ (v >= n => Cardinality(T) >= n)
  BY NewestFacts
<1>3. /\ N1 \subseteq G1 /\ IsFiniteSet(N1) /\ v1 \in Nat /\ IsFiniteSet(VersionsIn(G1, ver))
  BY <1>1, NewestFacts
<1>4. T \subseteq N /\ T \subseteq G1 /\ T \subseteq N1
  <2>1. T \subseteq N
    BY DEF TopOf
  <2>2. T \cap B = {}
    BY DEF Spares
  <2>3. T \subseteq G1
    BY <1>2, <2>1, <2>2
  <2> QED
    BY <2>1, <2>3 DEF NewestOfEach
<1>5. i \in G1
  BY <1>3 DEF Spares, TopOf
<1>6. PICK k \in N : ver[k] = ver[i] /\ (k = i \/ <<k, i>> \in R)
  BY <1>5, HasNewest
<1>7. CASE v >= n
  <2>1. v1 >= n
    <3>1. VersionsIn(T, ver) \subseteq VersionsIn(G1, ver)
      BY <1>4 DEF VersionsIn
    <3>2. Cardinality(VersionsIn(T, ver)) = Cardinality(T) /\ IsFiniteSet(T)
      BY <1>4, VersionsOfNewest
    <3>3. Cardinality(T) <= v1 /\ Cardinality(T) \in Nat
      BY <1>3, <3>1, <3>2, FS_Subset, FS_CardinalityType
    <3> QED
      BY <1>2, <1>3, <1>7, <3>3
  <2>2. i \in N1 /\ Cardinality(Above(N1, R, i)) < n
    <3>1. IsFiniteSet(Above(G1 \ N1, R, i))
      BY <1>1, FS_Subset DEF Above
    <3>2. Cardinality(Above(G1 \ N1, R, i)) \in Nat
      BY <3>1, FS_CardinalityType
    <3>3. i \in TopOf(N1, R, n) \/ i \in TopOf(G1 \ N1, R, n - v1)
      BY DEF Spares
    <3>4. ~(Cardinality(Above(G1 \ N1, R, i)) < n - v1)
      <4> HIDE DEF v1, N1, G1
      <4> QED
        BY <1>3, <2>1, <3>2
    <3> QED
      BY <3>3, <3>4 DEF TopOf
  <2>3. CASE k \in T
    <3>1. k = i
      BY <1>4, <1>6, <2>2, <2>3 DEF NewestOfEach
    <3> QED
      BY <2>3, <3>1 DEF Spares
  <2>4. CASE k \notin T
    <3>1. (\A j \in T : <<j, k>> \in R) /\ Cardinality(T) = n
      BY <1>2, <2>4, TopCount
    <3>2. \A j \in T : <<j, i>> \in R
      BY <1>2, <1>4, <1>5, <1>6, <3>1 DEF Orders
    <3>3. T \subseteq Above(N1, R, i) /\ Above(N1, R, i) \subseteq N1
      BY <1>4, <3>2 DEF Above
    <3>4. /\ IsFiniteSet(Above(N1, R, i))
          /\ Cardinality(T) <= Cardinality(Above(N1, R, i))
      BY <1>3, <3>3, FS_Subset
    <3>5. Cardinality(Above(N1, R, i)) \in Nat
      BY <3>4, FS_CardinalityType
    <3> HIDE DEF T, N1
    <3> QED
      BY <2>2, <3>1, <3>4, <3>5
  <2> QED
    BY <2>3, <2>4
<1>8. CASE v < n
  <2>1. N \subseteq N1
    BY <1>2, <1>4, <1>8
  <2>2. \A x \in G1 : \E y \in N : ver[y] = ver[x] /\ (y = x \/ <<y, x>> \in R)
    BY <1>1, HasNewest
  <2>3. N1 = N
    <3> SUFFICES ASSUME NEW x \in N1 PROVE x \in N
      BY <2>1
    <3>1. PICK y \in N : ver[y] = ver[x] /\ (y = x \/ <<y, x>> \in R)
      BY <1>3, <2>2
    <3>2. y \in G1
      BY <1>3, <2>1
    <3> QED
      BY <3>1, <3>2 DEF NewestOfEach
  <2>4. VersionsIn(G1, ver) = VersionsIn(G, ver)
    <3>1. \A x \in G : \E y \in N : ver[y] = ver[x]
      <4> TAKE x \in G
      <4>1. PICK y \in N : ver[y] = ver[x] /\ (y = x \/ <<y, x>> \in R)
        BY HasNewest
      <4> QED
        BY <4>1
    <3>2. N \subseteq G1
      BY <1>2, <1>4, <1>8
    <3> HIDE DEF N
    <3> QED
      BY <3>1, <3>2 DEF VersionsIn
  <2>5. CASE i \in TopOf(N1, R, n)
    BY <2>3, <2>5 DEF Spares
  <2>6. CASE i \in TopOf(G1 \ N1, R, n - v1)
    <3>1. G1 \ N1 = (G \ N) \ B
      BY <2>3
    <3>2. /\ IsFiniteSet(G \ N) /\ Orders(R, G \ N) /\ n - v \in Nat
          /\ B \cap TopOf(G \ N, R, n - v) = {}
      <4>1. IsFiniteSet(G \ N) /\ Orders(R, G \ N)
        BY FS_Subset DEF Orders
      <4>2. B \cap TopOf(G \ N, R, n - v) = {}
        BY DEF Spares
      <4> HIDE DEF v
      <4> QED
        BY <1>2, <1>8, <4>1, <4>2
    <3>3. TopOf((G \ N) \ B, R, n - v) \subseteq TopOf(G \ N, R, n - v)
      BY <3>2, TopStays
    <3> QED
      BY <2>4, <2>6, <3>1, <3>3 DEF Spares
  <2> QED
    BY <2>5, <2>6 DEF Spares
<1> QED
  BY <1>2, <1>7, <1>8

\* A run that is not spared gives way to a spared newer one of its version, or to n versions of
\* spared runs that are newer; and n runs are spared.
LEMMA GivesWay ==
    ASSUME NEW G, IsFiniteSet(G), NEW R, Orders(R, G), NEW ver, NEW n \in Nat,
           NEW K, K = Spares(G, R, ver, n), NEW i \in G \ K
    PROVE  /\ K \subseteq G /\ Cardinality(K) >= n
           /\ \/ \E k \in K : ver[k] = ver[i] /\ <<k, i>> \in R
              \/ Cardinality(VersionsIn(Above(K, R, i), ver)) >= n
<1> DEFINE N == NewestOfEach(G, R, ver)
           v == Cardinality(VersionsIn(G, ver))
           T == TopOf(N, R, n)
           F == TopOf(G \ N, R, n - v)
<1>1. /\ N \subseteq G /\ IsFiniteSet(N) /\ Orders(R, N) /\ v \in Nat /\ Cardinality(N) = v
      /\ (v < n => T = N) /\ (v >= n => Cardinality(T) >= n)
  BY NewestFacts
<1>2. K = T \cup F /\ T \subseteq N /\ F \subseteq G \ N
  BY DEF Spares, TopOf
<1>3. K \subseteq G /\ IsFiniteSet(K) /\ Cardinality(K) \in Nat /\ IsFiniteSet(F) /\ IsFiniteSet(T)
  <2>1. K \subseteq G
    BY <1>1, <1>2
  <2> QED
    BY <1>2, <2>1, FS_Subset, FS_CardinalityType
<1>4. Cardinality(K) >= n
  <2>1. CASE v >= n
    <3>1. Cardinality(T) <= Cardinality(K) /\ Cardinality(T) \in Nat
      BY <1>2, <1>3, FS_Subset, FS_CardinalityType
    <3> QED
      BY <1>1, <1>3, <2>1, <3>1
  <2>2. CASE v < n
    <3>1. i \in (G \ N) \ F /\ T = N
      BY <1>1, <1>2, <2>2
    <3>2. IsFiniteSet(G \ N) /\ Orders(R, G \ N)
      BY FS_Subset DEF Orders
    <3>3. n - v \in Nat
      <4> HIDE DEF v
      <4> QED
        BY <1>1, <2>2
    <3>4. Cardinality(F) = n - v
      BY <3>1, <3>2, <3>3, TopCount
    <3>5. Cardinality(K) = Cardinality(T) + Cardinality(F) - Cardinality(T \cap F) /\ T \cap F = {}
      BY <1>2, <1>3, FS_Union
    <3>6. Cardinality(T \cap F) = 0
      BY <3>5, FS_EmptySet
    <3> HIDE DEF T, F, v, N
    <3> QED
      BY <1>1, <1>3, <3>1, <3>3, <3>4, <3>5, <3>6
  <2> QED
    BY <1>1, <2>1, <2>2
<1>5. PICK k \in N : ver[k] = ver[i] /\ (k = i \/ <<k, i>> \in R)
  BY HasNewest
<1>6. CASE k \in T
  <2>1. k # i
    BY <1>2, <1>6
  <2>2. k \in K /\ ver[k] = ver[i] /\ <<k, i>> \in R
    BY <1>2, <1>5, <1>6, <2>1
  <2> QED
    BY <1>3, <1>4, <2>2
<1>7. CASE k \notin T
  <2>1. (\A j \in T : <<j, k>> \in R) /\ Cardinality(T) = n
    BY <1>1, <1>7, TopCount
  <2>2. \A j \in T : <<j, i>> \in R
    BY <1>1, <1>2, <1>5, <2>1 DEF Orders
  <2>3. T \subseteq Above(K, R, i) /\ Above(K, R, i) \subseteq K
    BY <1>2, <2>2 DEF Above
  <2>4. Cardinality(VersionsIn(T, ver)) = n
    BY <1>2, <2>1, VersionsOfNewest
  <2>5. VersionsIn(T, ver) \subseteq VersionsIn(Above(K, R, i), ver)
    BY <2>3 DEF VersionsIn
  <2>6. IsFiniteSet(VersionsIn(Above(K, R, i), ver))
    <3>1. IsFiniteSet(Above(K, R, i))
      BY <1>3, <2>3, FS_Subset
    <3>2. VersionsIn(Above(K, R, i), ver) = {ver[j] : j \in Above(K, R, i)}
      BY DEF VersionsIn
    <3> DEFINE f == [j \in Above(K, R, i) |-> ver[j]]
    <3>3. f \in Surjection(Above(K, R, i), VersionsIn(Above(K, R, i), ver))
      BY DEF Surjection, VersionsIn
    <3> QED
      BY <3>1, <3>3, FS_Surjection
  <2>7. n <= Cardinality(VersionsIn(Above(K, R, i), ver))
    BY <2>4, <2>5, <2>6, FS_Subset
  <2>8. Cardinality(VersionsIn(Above(K, R, i), ver)) \in Nat
    BY <2>6, FS_CardinalityType
  <2>9. Cardinality(VersionsIn(Above(K, R, i), ver)) >= n
    <3> QED
      BY <2>7, <2>8
  <2> QED
    BY <1>3, <1>4, <2>9
<1> QED
  BY <1>6, <1>7
-----------------------------------------------------------------------------
(* The runs, their order and what the clean-up keeps of them.              *)

\* A row of eval_run and a task, as the types have them.
Row == [version : Versions, pinned : BOOLEAN, started : 0..LastTime,
        status : {"active", "ended", "gone"}]
PushTask == [stage : {"none", "fired", "sending", "done", "failed", "lost"},
             left : 0..MaxClusters, open : 0..MaxClusters, tries : 0..MaxRetries,
             latest : Versions \cup {None}, prev : 0..MaxRuns]

Order == {p \in Ids \X Ids : Newer(p[1], p[2])}
VersionOf == [i \in Ids |-> runs[i].version]

\* No list of a cleaner holds a run the clean-up would keep by now, an active or a pinned one.
ListsAreOld ==
    \A c \in Cleaners :
        /\ todo[c] \cap Keep = {}
        /\ \A i \in todo[c] : i \in Ids /\ ~runs[i].pinned /\ runs[i].status # "active"

\* Error runs stay, one of them is active at most, and only those that ended are pushed.
ErrorRunsStay ==
    /\ \A i \in Ids : runs[i].pinned => runs[i].status # "gone"
    /\ \A i \in 1..MaxRuns : push[i].stage # "none" => i \in Ended /\ runs[i].pinned
    /\ \A i, j \in Ids : runs[i].pinned /\ runs[j].pinned /\ j < i => runs[j].status = "ended"

\* While a task sends, the clusters that are left are those that nothing has settled.
LeftAreOpen ==
    \A i \in 1..MaxRuns :
        push[i].stage = "sending" => push[i].left = push[i].open /\ push[i].left > 0

PushInv == PushTypeOK /\ ListsAreOld /\ ErrorRunsStay /\ LeftAreOpen

\* Max of a finite set of numbers is one of them, and none is greater.
LEMMA MaxIs ==
    ASSUME NEW S \in SUBSET Nat, IsFiniteSet(S), S # {}
    PROVE  Max(S) \in S /\ \A j \in S : j <= Max(S)
<1> DEFINE R == {p \in S \X S : p[1] > p[2]}
<1>1. \A i, j \in S : <<i, j>> \in R <=> i > j
  OBVIOUS
<1> HIDE DEF R
<1>2. Orders(R, S)
  BY <1>1 DEF Orders
<1>3. PICK k \in S : Above(S, R, k) = {}
  BY <1>2, HasTop
<1>4. ASSUME NEW j \in S PROVE k >= j
  <2>1. <<j, k>> \notin R
    BY <1>3 DEF Above
  <2>2. ~(j > k) /\ j \in Nat /\ k \in Nat
    BY <1>1, <2>1
  <2> QED
    BY <2>2
<1>5. /\ Max(S) = (CHOOSE x \in S : \A y \in S : x >= y)
      /\ \E x \in S : \A y \in S : x >= y
  BY <1>4 DEF Max
<1>6. Max(S) \in S /\ \A y \in S : Max(S) >= y
  BY <1>5, Zenon
<1> QED
  BY <1>6

\* What is kept depends on the members of the group alone.
LEMMA SparedOf ==
    ASSUME NEW G, NEW R1, NEW R2, NEW v1, NEW v2, NEW n,
           \A i, j \in G : <<i, j>> \in R1 <=> <<i, j>> \in R2,
           \A i \in G : v1[i] = v2[i]
    PROVE  Spares(G, R1, v1, n) = Spares(G, R2, v2, n)
<1>1. NewestOfEach(G, R1, v1) = NewestOfEach(G, R2, v2)
  BY DEF NewestOfEach
<1>2. VersionsIn(G, v1) = VersionsIn(G, v2)
  BY DEF VersionsIn
<1>3. ASSUME NEW S \in SUBSET G, NEW m PROVE TopOf(S, R1, m) = TopOf(S, R2, m)
  <2>1. \A i \in S : Above(S, R1, i) = Above(S, R2, i)
    BY DEF Above
  <2> QED
    BY <2>1 DEF TopOf
<1>4. NewestOfEach(G, R1, v1) \in SUBSET G /\ G \ NewestOfEach(G, R1, v1) \in SUBSET G
  BY DEF NewestOfEach
<1> QED
  BY <1>1, <1>2, <1>3, <1>4 DEF Spares

\* The bounds are numbers.
LEMMA Bounds ==
    /\ MaxClusters \in Nat /\ MaxRetries \in Nat /\ LastTime \in Nat /\ MaxRuns \in Nat
    /\ Versions \subseteq Nat \ {0} /\ Retain \in Nat \ {0}
    /\ 0 \in 0..MaxClusters /\ 0 \in 0..MaxRetries /\ 0 \in 0..LastTime
    /\ 0 \in 0..MaxRuns /\ 1..MaxRuns \subseteq Nat
<1>1. \A m \in {MaxClusters, MaxRetries, MaxActive, LastTime, MaxRuns} : m \in Nat
  BY PushAssumption
<1>2. MaxClusters \in Nat /\ MaxRetries \in Nat /\ LastTime \in Nat /\ MaxRuns \in Nat
  BY <1>1
<1> QED
  BY <1>2, PushAssumption

\* The runs are finitely many, and Newer puts them in an order.
LEMMA RunsAre ==
    ASSUME PushTypeOK
    PROVE  /\ runs \in Seq(Row) /\ Ids = 1..Len(runs) /\ Len(runs) \in 0..MaxRuns
           /\ \A i \in Ids :
                /\ runs[i] \in Row /\ runs[i].version \in Versions /\ runs[i].pinned \in BOOLEAN
                /\ runs[i].started \in 0..LastTime /\ runs[i].status \in {"active", "ended", "gone"}
           /\ Group \subseteq Ids /\ IsFiniteSet(Group) /\ IsFiniteSet(Ended)
           /\ Orders(Order, Ids) /\ Orders(Order, Group)
<1>1. runs \in Seq(Row)
  BY DEF PushTypeOK, Row
<1>2. Ids = 1..Len(runs) /\ Len(runs) \in 0..MaxRuns
  BY PushAssumption DEF PushTypeOK, Ids
<1>3. IsFiniteSet(Ids)
  BY <1>2, FS_Interval
<1>4. \A i \in Ids : runs[i] \in Row
  <2> HIDE DEF Row
  <2> QED
    BY <1>1, <1>2, ElementOfSeq
<1>5. \A i \in Ids : /\ runs[i].version \in Versions /\ runs[i].pinned \in BOOLEAN
                     /\ runs[i].started \in 0..LastTime
                     /\ runs[i].status \in {"active", "ended", "gone"}
  BY <1>4 DEF Row
<1>6. \A i, j \in Ids : <<i, j>> \in Order <=> Newer(i, j)
  BY DEF Order
<1>7. \A i \in Ids : i \in Int /\ runs[i].started \in Int
  BY <1>2, <1>5, PushAssumption
<1>8. Orders(Order, Ids)
  <2> DEFINE at == [i \in Ids |-> runs[i].started]
  <2>1. \A i \in Ids : at[i] \in Int
    BY <1>7
  <2>2. \A i, j \in Ids : <<i, j>> \in Order <=> at[i] > at[j] \/ (at[i] = at[j] /\ i > j)
    BY <1>6 DEF Newer
  <2> HIDE DEF at
  <2> QED
    BY <1>7, <2>1, <2>2 DEF Orders
<1>9. Group \subseteq Ids /\ Ended \subseteq Ids
  BY DEF Group, Ended
<1>10. Orders(Order, Group) /\ IsFiniteSet(Group) /\ IsFiniteSet(Ended)
  BY <1>3, <1>8, <1>9, FS_Subset DEF Orders
<1> HIDE DEF Row
<1> QED
  BY <1>1, <1>2, <1>4, <1>5, <1>8, <1>9, <1>10

\* candidates_to_purge keeps what Spares says.
LEMMA KeepIs == PushTypeOK => Keep = Spares(Group, Order, VersionOf, Retain)
<1> SUFFICES ASSUME PushTypeOK PROVE Keep = Spares(Group, Order, VersionOf, Retain)
  OBVIOUS
<1>1. IsFiniteSet(Group) /\ Group \subseteq Ids /\ Orders(Order, Group) /\ Retain \in Nat
  BY RunsAre, PushAssumption
<1>2. \A i, j \in Ids : <<i, j>> \in Order <=> Newer(i, j)
  BY DEF Order
<1>3. Representatives = NewestOfEach(Group, Order, VersionOf)
  BY <1>1, <1>2 DEF Representatives, NewestOfEach, VersionOf
<1>4. Cardinality(Representatives) = Cardinality(VersionsIn(Group, VersionOf))
  BY <1>1, <1>3, NewestFacts
<1>5. ASSUME NEW S \in SUBSET Group, NEW n PROVE NewestOf(S, n) = TopOf(S, Order, n)
  <2>1. \A i \in S : {j \in S : Newer(j, i)} = Above(S, Order, i)
    BY <1>1, <1>2 DEF Above
  <2> QED
    BY <2>1 DEF NewestOf, TopOf
<1>6. Representatives \in SUBSET Group /\ Group \ Representatives \in SUBSET Group
  BY DEF Representatives
<1> QED
  BY <1>3, <1>4, <1>5, <1>6 DEF Keep, Spares
-----------------------------------------------------------------------------
\* The same of the next state.
LEMMA NextRunsAre ==
    PushTypeOK' =>
        /\ Group' \subseteq Ids' /\ IsFiniteSet(Group') /\ Orders(Order', Group')
        /\ Ids' \subseteq 1..MaxRuns
        /\ Keep' = Spares(Group', Order', VersionOf', Retain)
<1>1. (PushTypeOK => /\ Group \subseteq Ids /\ IsFiniteSet(Group) /\ Orders(Order, Group)
                     /\ Ids \subseteq 1..MaxRuns
                     /\ Keep = Spares(Group, Order, VersionOf, Retain))
  BY RunsAre, KeepIs, Bounds
<1>2. (PushTypeOK => /\ Group \subseteq Ids /\ IsFiniteSet(Group) /\ Orders(Order, Group)
                     /\ Ids \subseteq 1..MaxRuns
                     /\ Keep = Spares(Group, Order, VersionOf, Retain))'
  BY <1>1, PTL
<1> QED
  BY <1>2

\* A run that ends makes the clean-up keep no other run it would have deleted.
LEMMA KeepWhenOneEnds ==
    ASSUME PushTypeOK, PushTypeOK', NEW e, Group' = Group \cup {e},
           \A i \in Group : runs'[i] = runs[i]
    PROVE  \A i \in Group : i \in Keep' => i \in Keep
<1>1. Group \subseteq Ids /\ IsFiniteSet(Group) /\ Keep = Spares(Group, Order, VersionOf, Retain)
  BY RunsAre, KeepIs
<1>2. /\ Group' \subseteq Ids' /\ Orders(Order', Group \cup {e})
      /\ Keep' = Spares(Group \cup {e}, Order', VersionOf', Retain)
  BY NextRunsAre
<1>3. \A i, j \in Group : <<i, j>> \in Order' <=> <<i, j>> \in Order
  BY <1>1, <1>2 DEF Order, Newer
<1>4. \A i \in Group : VersionOf'[i] = VersionOf[i]
  BY <1>1, <1>2 DEF VersionOf
<1>5. Spares(Group, Order', VersionOf', Retain) = Keep
  <2> HIDE DEF Keep, Order, VersionOf
  <2> QED
    BY <1>1, <1>3, <1>4, SparedOf
<1> QED
  BY <1>1, <1>2, <1>5, SparedGrows, PushAssumption

\* Runs that are deleted without being kept make the clean-up keep none it would have deleted.
LEMMA KeepWhenSomeGo ==
    ASSUME PushTypeOK, PushTypeOK', NEW B, B \cap Keep = {}, Group' = Group \ B,
           \A i \in Group \ B : runs'[i] = runs[i]
    PROVE  Keep' \subseteq Keep
<1>1. /\ Group \subseteq Ids /\ IsFiniteSet(Group) /\ Orders(Order, Group)
      /\ Keep = Spares(Group, Order, VersionOf, Retain)
  BY RunsAre, KeepIs
<1>2. Group' \subseteq Ids' /\ Keep' = Spares(Group \ B, Order', VersionOf', Retain)
  BY NextRunsAre
<1>3. \A i, j \in Group \ B : <<i, j>> \in Order' <=> <<i, j>> \in Order
  BY <1>1, <1>2 DEF Order, Newer
<1>4. \A i \in Group \ B : VersionOf'[i] = VersionOf[i]
  BY <1>1, <1>2 DEF VersionOf
<1>5. Keep' = Spares(Group \ B, Order, VersionOf, Retain)
  BY <1>2, <1>3, <1>4, SparedOf
<1> QED
  BY <1>1, <1>5, SparedShrinks, PushAssumption

\* Lists stay old when the same runs, or fewer, are kept.
LEMMA ListsStayOld ==
    ASSUME PushInv, PushTypeOK', UNCHANGED todo, Group' = Group,
           \A i \in Ids : /\ i \in Ids' /\ runs'[i].pinned = runs[i].pinned
                          /\ runs[i].status # "active" => runs'[i] = runs[i]
    PROVE  ListsAreOld'
<1>1. \A i \in Group \ {} : runs'[i] = runs[i]
  BY DEF Group, Ended
<1>2. Group' = Group \ {} /\ {} \cap Keep = {}
  OBVIOUS
<1>3. Keep' \subseteq Keep
  BY <1>1, <1>2, KeepWhenSomeGo DEF PushInv
<1>4. ASSUME NEW c \in Cleaners, NEW i \in todo[c]
      PROVE  i \notin Keep' /\ i \in Ids' /\ ~runs'[i].pinned /\ runs'[i].status # "active"
  BY <1>3 DEF PushInv, ListsAreOld
<1> QED
  BY <1>4 DEF ListsAreOld

\* PushInv holds before the first run.
LEMMA InitPush == PushInit => PushInv
<1> SUFFICES ASSUME PushInit PROVE PushInv
  OBVIOUS
<1>1. Ids = {} /\ runs = <<>> /\ Len(runs) = 0
  BY DEF PushInit, Ids
<1>2. PushTypeOK
  <2>1. NoPush \in PushTask
    BY PushAssumption DEF NoPush, PushTask, None
  <2>2. runs \in Seq(Row)
    BY <1>1
  <2> QED
    BY <1>1, <2>1, <2>2, PushAssumption DEF PushInit, PushTypeOK, Row, PushTask
<1>3. ListsAreOld
  BY DEF PushInit, ListsAreOld
<1>4. ErrorRunsStay
  BY <1>1 DEF PushInit, ErrorRunsStay, NoPush
<1>5. LeftAreOpen
  BY DEF PushInit, LeftAreOpen, NoPush
<1> QED
  BY <1>2, <1>3, <1>4, <1>5 DEF PushInv

\* A run is created.
LEMMA CreateKeepsRuns ==
    ASSUME PushInv, NEW v \in Versions, NEW p \in BOOLEAN,
           Len(runs) < MaxRuns, runs' = Append(runs, Run(v, p)), UNCHANGED <<push, todo>>,
           p => \A i \in Ids : runs[i].pinned => runs[i].status # "active"
    PROVE  PushInv'
<1>1. /\ Ids = 1..Len(runs) /\ Len(runs) \in Nat
  BY RunsAre DEF PushInv
<1>2. runs \in Seq(Row) /\ Run(v, p) \in Row
  BY PushAssumption DEF PushInv, PushTypeOK, Row, Run
<1>3. /\ runs' \in Seq(Row) /\ Len(runs') = Len(runs) + 1
      /\ \A i \in 1..Len(runs) : runs'[i] = runs[i]
      /\ runs'[Len(runs) + 1] = Run(v, p)
  BY <1>2, AppendProperties
<1>4. /\ Ids' = Ids \cup {Len(runs) + 1}
      /\ \A i \in Ids : runs'[i] = runs[i] /\ i < Len(runs) + 1
  <2>1. Ids' = 1..(Len(runs) + 1)
    BY <1>3, LenProperties DEF Ids
  <2> QED
    BY <1>1, <1>3, <2>1
<1>5. PushTypeOK'
  BY <1>1, <1>3, PushAssumption DEF PushInv, PushTypeOK, Row
<1> DEFINE e == Len(runs) + 1
<1>6. runs'[e].pinned = p /\ runs'[e].status = "active"
  BY <1>3 DEF Run
<1>7. Ids' = Ids \cup {e} /\ \A i \in Ids : runs'[i] = runs[i] /\ i < e
  BY <1>4
<1>8. e \in Int /\ Ids \subseteq Int
  BY <1>1
<1> HIDE DEF e
<1>9. Ended' = Ended /\ Group' = Group
  BY <1>6, <1>7 DEF Ended, Group
<1>10. ListsAreOld'
  BY <1>4, <1>5, <1>9, ListsStayOld
<1>11. ErrorRunsStay'
  <2>1. \A i \in Ids : runs[i].pinned => runs[i].status # "gone"
    BY DEF PushInv, ErrorRunsStay
  <2>2. \A i \in Ids' : runs'[i].pinned => runs'[i].status # "gone"
    BY <1>6, <1>7, <2>1
  <2>3. \A i \in 1..MaxRuns : push'[i].stage # "none" => i \in Ended' /\ runs'[i].pinned
    BY <1>4, <1>9 DEF PushInv, ErrorRunsStay, Ended
  <2>4. ASSUME NEW i \in Ids', NEW j \in Ids', runs'[i].pinned, runs'[j].pinned, j < i
        PROVE  runs'[j].status = "ended"
    <3>1. j \in Ids
      BY <1>7, <1>8, <2>4
    <3>2. CASE i \in Ids
      BY <1>4, <2>4, <3>1, <3>2 DEF PushInv, ErrorRunsStay
    <3>3. CASE i = e
      <4>1. p /\ runs[j].pinned
        BY <1>6, <1>7, <2>4, <3>1, <3>3
      <4>2. runs[j].status \in {"active", "ended", "gone"}
        BY <3>1, RunsAre DEF PushInv
      <4> QED
        BY <1>4, <2>1, <3>1, <4>1, <4>2
    <3> QED
      BY <1>7, <3>2, <3>3
  <2> QED
    BY <2>2, <2>3, <2>4 DEF ErrorRunsStay
<1> QED
  BY <1>5, <1>10, <1>11 DEF PushInv, LeftAreOpen

\* An error run is created only while no other is active.
LEMMA CreateManualKeeps == ASSUME PushInv, NEW v \in Versions, CreateManual(v) PROVE PushInv'
  BY CreateKeepsRuns DEF CreateManual
\* A new error run was not pushed yet.
LEMMA CreateErrorKeeps == ASSUME PushInv, NEW v \in Versions, CreateError(v) PROVE PushInv'
  BY CreateKeepsRuns DEF CreateError, Active
-----------------------------------------------------------------------------
\* What a run becomes when it alone is written.
LEMMA OneRunWritten ==
    ASSUME PushTypeOK, NEW i \in Ids, NEW r \in Row, runs' = [runs EXCEPT ![i] = r]
    PROVE  /\ Ids' = Ids /\ runs' \in Seq(Row) /\ Len(runs') = Len(runs)
           /\ runs'[i] = r /\ \A j \in Ids \ {i} : runs'[j] = runs[j]
<1>1. runs \in Seq(Row) /\ Ids = 1..Len(runs)
  BY RunsAre DEF PushTypeOK, Row
<1> HIDE DEF Row
<1> QED
  BY <1>1, ExceptSeq, LenProperties DEF Ids

\* A manual run that ends joins the group; the lists were worked out before it did.
LEMMA EndManualKeeps ==
    ASSUME PushInv, NEW i \in Ids, NEW t \in 0..LastTime, EndManual(i, t) PROVE PushInv'
<1> DEFINE r == [runs[i] EXCEPT !.status = "ended", !.started = t]
<1>1. /\ runs[i].version \in Versions /\ runs[i].pinned \in BOOLEAN /\ runs[i].status = "active"
      /\ ~runs[i].pinned /\ runs[i] \in Row
  BY RunsAre DEF PushInv, EndManual
<1>2. r \in Row /\ r.status = "ended" /\ ~r.pinned
  BY <1>1 DEF Row
<1>3. runs' = [runs EXCEPT ![i] = r] /\ push' = push /\ todo' = todo
  BY DEF EndManual
<1> HIDE DEF r
<1>4. /\ Ids' = Ids /\ runs' \in Seq(Row) /\ Len(runs') = Len(runs)
      /\ runs'[i] = r /\ \A j \in Ids \ {i} : runs'[j] = runs[j]
  BY <1>2, <1>3, OneRunWritten DEF PushInv
<1>5. PushTypeOK'
  BY <1>3, <1>4 DEF PushInv, PushTypeOK, Row
<1>6. Group' = Group \cup {i} /\ i \notin Group /\ Group \subseteq Ids \ {i}
  BY <1>1, <1>2, <1>4 DEF Group, Ended
<1>7. \A j \in Group : j \in Keep' => j \in Keep
  BY <1>4, <1>5, <1>6, KeepWhenOneEnds DEF PushInv
<1>8. Keep' \subseteq Group'
  BY DEF Keep, NewestOf, Representatives
<1>9. ASSUME NEW c \in Cleaners, NEW j \in todo[c]
      PROVE  j \notin Keep' /\ j \in Ids' /\ ~runs'[j].pinned /\ runs'[j].status # "active"
  <2>1. j \notin Keep /\ j \in Ids /\ ~runs[j].pinned /\ runs[j].status # "active"
    BY DEF PushInv, ListsAreOld
  <2>2. j # i /\ runs'[j] = runs[j]
    BY <1>1, <1>4, <2>1
  <2> QED
    BY <1>4, <1>6, <1>7, <1>8, <2>1, <2>2
<1>10. ListsAreOld'
  BY <1>3, <1>9 DEF ListsAreOld
<1>11. ErrorRunsStay'
  <2>1. \A j \in Ids : /\ runs'[j].pinned <=> runs[j].pinned
                       /\ runs[j].pinned => runs'[j] = runs[j]
                       /\ j \in Ended => j \in Ended'
    BY <1>1, <1>2, <1>4 DEF Ended
  <2> QED
    BY <1>3, <1>4, <2>1 DEF PushInv, ErrorRunsStay, Ended
<1> QED
  BY <1>3, <1>5, <1>10, <1>11 DEF PushInv, LeftAreOpen

\* An error run that ends is pinned: the group stays, and its push is fired.
LEMMA EndErrorKeeps ==
    ASSUME PushInv, NEW i \in Ids, NEW n \in 0..MaxClusters, EndError(i, n) PROVE PushInv'
<1> DEFINE r == [runs[i] EXCEPT !.status = "ended"]
           task == [NoPush EXCEPT !.stage = "fired", !.open = n]
<1>1. /\ runs[i].version \in Versions /\ runs[i].pinned \in BOOLEAN /\ runs[i].status = "active"
      /\ runs[i].pinned /\ runs[i] \in Row
  BY RunsAre DEF PushInv, EndError
<1>2. r \in Row /\ r.status = "ended" /\ r.pinned
  BY <1>1 DEF Row
<1>3. runs' = [runs EXCEPT ![i] = r] /\ push' = [push EXCEPT ![i] = task] /\ todo' = todo
  BY DEF EndError
<1>4. task \in PushTask /\ task.stage = "fired"
  BY Bounds DEF PushTask, NoPush, None
<1> HIDE DEF r, task
<1>5. /\ Ids' = Ids /\ runs' \in Seq(Row) /\ Len(runs') = Len(runs)
      /\ runs'[i] = r /\ \A j \in Ids \ {i} : runs'[j] = runs[j]
  BY <1>2, <1>3, OneRunWritten DEF PushInv
<1>6. i \in 1..MaxRuns /\ push' \in [1..MaxRuns -> PushTask]
      /\ push'[i].stage = "fired" /\ \A j \in 1..MaxRuns \ {i} : push'[j] = push[j]
  <2>1. push \in [1..MaxRuns -> PushTask]
    BY DEF PushInv, PushTypeOK, PushTask
  <2>2. i \in 1..MaxRuns
    BY RunsAre, PushAssumption DEF PushInv
  <2> QED
    BY <1>3, <1>4, <2>1, <2>2
<1>7. PushTypeOK'
  BY <1>3, <1>5, <1>6 DEF PushInv, PushTypeOK, Row, PushTask
<1>8. Group' = Group /\ Ended' = Ended \cup {i}
  BY <1>1, <1>2, <1>5 DEF Group, Ended
<1>9. ListsAreOld'
  BY <1>1, <1>2, <1>3, <1>5, <1>7, <1>8, ListsStayOld
<1>10. ErrorRunsStay'
  <2>1. \A j \in Ids : /\ runs'[j].pinned = runs[j].pinned
                       /\ runs'[j].status = runs[j].status \/ runs'[j].status = "ended"
    BY <1>1, <1>2, <1>5
  <2>2. \A j \in 1..MaxRuns : push'[j].stage # "none" => j \in Ended' /\ runs'[j].pinned
    BY <1>1, <1>6, <1>8, <2>1 DEF PushInv, ErrorRunsStay, Ended
  <2> QED
    BY <1>5, <2>1, <2>2 DEF PushInv, ErrorRunsStay
<1>11. LeftAreOpen'
  <2>1. \A j \in 1..MaxRuns : push'[j].stage = "sending" => push'[j] = push[j]
    BY <1>6
  <2> QED
    BY <2>1 DEF PushInv, LeftAreOpen
<1> QED
  BY <1>7, <1>9, <1>10, <1>11 DEF PushInv

\* Steps that leave the runs and the lists as they are, and push only what was pushed.
LEMMA OnlyPushed ==
    ASSUME PushInv, UNCHANGED <<runs, todo>>, push' \in [1..MaxRuns -> PushTask],
           \A j \in 1..MaxRuns :
               /\ push'[j].stage # "none" => push[j].stage # "none"
               /\ push'[j].stage = "sending" =>
                    push'[j] = push[j] \/ (push'[j].left = push'[j].open /\ push'[j].left > 0)
    PROVE  PushInv'
<1>1. PushTypeOK'
  BY DEF PushInv, PushTypeOK, PushTask
<1>2. Group' = Group /\ Ids' = Ids /\ Ended' = Ended
  BY DEF Group, Ended, Ids
<1>3. ListsAreOld'
  BY <1>1, <1>2, ListsStayOld
<1> QED
  BY <1>1, <1>2, <1>3 DEF PushInv, ErrorRunsStay, LeftAreOpen

\* The watermarks of a run that ended: none of its versions is later, no earlier run nearer.
LEMMA WatermarkTypes ==
    ASSUME PushTypeOK, NEW i \in Ended
    PROVE  /\ LatestVersion(i) \in Versions
           /\ LatestVersion(i) >= runs[i].version
           /\ PreviousRun(i) \in 0..MaxRuns
           /\ \A j \in Ended : j < i => j <= PreviousRun(i)
<1>1. /\ Ended \subseteq Ids /\ IsFiniteSet(Ended) /\ Ids \subseteq 1..MaxRuns
      /\ \A j \in Ended : runs[j].version \in Versions
  <2>1. Ended \subseteq Ids
    BY DEF Ended
  <2>2. Ids = 1..Len(runs) /\ Len(runs) \in 0..MaxRuns
    BY RunsAre
  <2>3. Ids \subseteq 1..MaxRuns
    BY <2>2, PushAssumption
  <2> QED
    BY <2>1, <2>3, RunsAre
<1> DEFINE S == {runs[j].version : j \in Ended}
<1>2. LatestVersion(i) = Max(S)
  BY DEF LatestVersion, CountsForLatest
<1>3. S \in SUBSET Nat /\ S \subseteq Versions /\ S # {} /\ runs[i].version \in S
  BY <1>1, PushAssumption
<1>4. IsFiniteSet(S)
  <2> DEFINE f == [j \in Ended |-> runs[j].version]
  <2>1. f \in Surjection(Ended, S)
    BY DEF Surjection
  <2> QED
    BY <1>1, <2>1, FS_Surjection
<1> HIDE DEF S
<1>5. Max(S) \in S /\ runs[i].version <= Max(S)
  BY <1>3, <1>4, MaxIs
<1> DEFINE E == {j \in Ended : j < i}
<1>6. PreviousRun(i) = IF E = {} THEN None ELSE Max(E)
  BY DEF PreviousRun
<1>7. E \subseteq Ended /\ \A j \in Ended : j < i => j \in E
  OBVIOUS
<1> HIDE DEF E
<1>8. IsFiniteSet(E) /\ E \subseteq 1..MaxRuns /\ E \in SUBSET Nat
  <2>1. E \subseteq 1..MaxRuns
    BY <1>1, <1>7
  <2> QED
    BY <1>1, <1>7, <2>1, Bounds, FS_Subset
<1>9. LatestVersion(i) \in Versions /\ LatestVersion(i) >= runs[i].version
  <2>1. Max(S) \in Nat /\ runs[i].version \in Nat
    BY <1>3, <1>5
  <2> QED
    BY <1>2, <1>3, <1>5, <2>1
<1>10. CASE E = {}
  <2>1. PreviousRun(i) = 0 /\ ~(\E j \in Ended : j < i)
    BY <1>6, <1>7, <1>10 DEF None
  <2> QED
    BY <1>9, <2>1, Bounds
<1>11. CASE E # {}
  <2>1. Max(E) \in E /\ \A j \in E : j <= Max(E)
    BY <1>8, <1>11, MaxIs
  <2>2. PreviousRun(i) = Max(E)
    BY <1>6, <1>11
  <2>3. PreviousRun(i) \in 0..MaxRuns
    <3>1. PreviousRun(i) \in 1..MaxRuns
      BY <1>8, <2>1, <2>2
    <3> QED
      BY <3>1, Bounds
  <2> QED
    BY <1>7, <1>9, <2>1, <2>2, <2>3
<1> QED
  BY <1>10, <1>11

\* A task starts to send all of its clusters, or is done.
LEMMA ReadForPushKeeps == ASSUME PushInv, NEW i \in Ids, ReadForPush(i) PROVE PushInv'
<1>1. i \in 1..MaxRuns
  BY RunsAre, PushAssumption DEF PushInv
<1>2. push \in [1..MaxRuns -> PushTask]
  BY DEF PushInv, PushTypeOK, PushTask
<1> DEFINE task == IF i \notin Ended \/ push[i].open = 0 THEN Done(push[i])
                   ELSE [stage |-> "sending", left |-> push[i].open, open |-> push[i].open,
                         tries |-> 0, latest |-> LatestVersion(i), prev |-> PreviousRun(i)]
<1>3. push' = [push EXCEPT ![i] = task] /\ push[i].stage # "none" /\ UNCHANGED <<runs, todo>>
  BY <1>1, <1>2 DEF ReadForPush
<1>4. task \in PushTask
  <2>1. push[i] \in PushTask
    BY <1>1, <1>2
  <2>2. CASE i \notin Ended \/ push[i].open = 0
    <3>1. Done(push[i]) \in PushTask
      BY <2>1, Bounds DEF PushTask, Done, NoPush, None
    <3> QED
      BY <2>2, <3>1
  <2>3. CASE ~(i \notin Ended \/ push[i].open = 0)
    <3>1. LatestVersion(i) \in Versions /\ PreviousRun(i) \in 0..MaxRuns
      BY <2>3, WatermarkTypes DEF PushInv
    <3> QED
      BY <2>1, <2>3, <3>1, Bounds DEF PushTask
  <2> QED
    BY <2>2, <2>3
<1>5. task.stage = "sending" => task.left = task.open /\ task.left > 0
  <2>1. push[i].open \in 0..MaxClusters
    BY <1>1, <1>2 DEF PushTask
  <2> QED
    BY <2>1, Bounds DEF Done, NoPush
<1> HIDE DEF task
<1>6. push' \in [1..MaxRuns -> PushTask]
  BY <1>1, <1>2, <1>3, <1>4
<1>7. \A j \in 1..MaxRuns :
          /\ push'[j].stage # "none" => push[j].stage # "none"
          /\ push'[j].stage = "sending" =>
               push'[j] = push[j] \/ (push'[j].left = push'[j].open /\ push'[j].left > 0)
  BY <1>1, <1>2, <1>3, <1>5
<1> QED
  BY <1>3, <1>6, <1>7, OnlyPushed

\* What an attempt leaves of the task: the next attempt, the next cluster or the end; the
\* watermarks are those that were read.
LEMMA AttemptLeaves ==
    ASSUME PushInv, NEW i \in Ids, NEW met \in Meets, Attempt(i, met)
    PROVE  /\ i \in 1..MaxRuns /\ push[i].stage = "sending" /\ UNCHANGED <<runs, todo>>
           /\ \A j \in 1..MaxRuns \ {i} : push'[j] = push[j]
           /\ push' \in [1..MaxRuns -> PushTask]
           /\ push'[i].stage = "sending" =>
                /\ push'[i].latest = push[i].latest /\ push'[i].prev = push[i].prev
                /\ push'[i].left = push'[i].open /\ push'[i].left > 0
<1>1. i \in 1..MaxRuns
  BY RunsAre, Bounds DEF PushInv
<1>2. push \in [1..MaxRuns -> PushTask]
  BY DEF PushInv, PushTypeOK, PushTask
<1> DEFINE again == met = "unavailable" /\ push[i].tries < MaxRetries
           rest  == [push[i] EXCEPT !.left = StillToPush(push[i].left, met),
                                    !.open = push[i].open - 1, !.tries = 0]
           task  == IF again THEN [push[i] EXCEPT !.tries = push[i].tries + 1]
                    ELSE IF rest.left = 0 THEN Done(rest) ELSE rest
<1>3. push[i].stage = "sending" /\ push' = [push EXCEPT ![i] = task] /\ UNCHANGED <<runs, todo>>
  BY DEF Attempt
<1>4. push[i].left = push[i].open /\ push[i].left > 0 /\ push[i] \in PushTask
  BY <1>1, <1>2, <1>3 DEF PushInv, LeftAreOpen
<1>5. CASE again
  <2>1. push[i].tries + 1 \in 0..MaxRetries
    <3>1. push[i].tries \in 0..MaxRetries /\ push[i].tries < MaxRetries
      BY <1>4, <1>5 DEF PushTask
    <3> QED
      BY <3>1, Bounds
  <2>2. task = [push[i] EXCEPT !.tries = push[i].tries + 1]
    BY <1>5
  <2> HIDE DEF task, rest, again
  <2>3. /\ task \in PushTask /\ task.latest = push[i].latest /\ task.prev = push[i].prev
        /\ task.left = push[i].left /\ task.open = push[i].open
    BY <1>4, <2>1, <2>2 DEF PushTask
  <2> QED
    BY <1>1, <1>2, <1>3, <1>4, <2>3
<1>6. CASE ~again
  <2>1. /\ push[i].left - 1 \in 0..MaxClusters /\ push[i].open - 1 = push[i].left - 1
        /\ push[i].left - 1 # 0 => push[i].left - 1 > 0
    <3>1. push[i].left \in 0..MaxClusters
      BY <1>4 DEF PushTask
    <3> QED
      BY <1>4, <3>1, Bounds
  <2>2. task = IF rest.left = 0 THEN Done(rest) ELSE rest
    BY <1>6
  <2>3. /\ rest.left = push[i].left - 1 /\ rest.open = push[i].left - 1
        /\ rest.latest = push[i].latest /\ rest.prev = push[i].prev /\ rest \in PushTask
    BY <1>4, <2>1, Bounds DEF PushTask, StillToPush
  <2> HIDE DEF rest, task
  <2>4. CASE rest.left = 0
    <3>1. task = Done(rest)
      BY <2>2, <2>4
    <3>2. task.stage = "done" /\ task \in PushTask
      BY <2>3, <3>1, Bounds DEF PushTask, Done, NoPush, None
    <3> QED
      BY <1>1, <1>2, <1>3, <3>2
  <2>5. CASE rest.left # 0
    <3>1. task = rest
      BY <2>2, <2>5
    <3> QED
      BY <1>1, <1>2, <1>3, <2>1, <2>3, <2>5, <3>1
  <2> QED
    BY <2>4, <2>5
<1> QED
  BY <1>5, <1>6

\* An attempt touches nothing but its own task.
LEMMA AttemptKeeps ==
    ASSUME PushInv, NEW i \in Ids, NEW met \in Meets, Attempt(i, met) PROVE PushInv'
<1>1. /\ i \in 1..MaxRuns /\ push[i].stage = "sending" /\ UNCHANGED <<runs, todo>>
      /\ \A j \in 1..MaxRuns \ {i} : push'[j] = push[j]
      /\ push' \in [1..MaxRuns -> PushTask]
      /\ push'[i].stage = "sending" => push'[i].left = push'[i].open /\ push'[i].left > 0
  BY AttemptLeaves
<1>2. \A j \in 1..MaxRuns :
          /\ push'[j].stage # "none" => push[j].stage # "none"
          /\ push'[j].stage = "sending" =>
               push'[j] = push[j] \/ (push'[j].left = push'[j].open /\ push'[j].left > 0)
  BY <1>1
<1> QED
  BY <1>1, <1>2, OnlyPushed

\* A task that cannot read ends, and sends nothing.
LEMMA ReadRaisesKeeps == ASSUME PushInv, NEW i \in Ids, ReadRaises(i) PROVE PushInv'
<1>1. i \in 1..MaxRuns
  BY RunsAre, PushAssumption DEF PushInv
<1>2. push \in [1..MaxRuns -> PushTask] /\ DOMAIN push = 1..MaxRuns
  BY DEF PushInv, PushTypeOK, PushTask
<1>3. /\ [NoPush EXCEPT !.stage = "failed"] \in PushTask
      /\ [NoPush EXCEPT !.stage = "failed"].stage = "failed"
  BY Bounds DEF PushTask, NoPush, None
<1>4. /\ push' \in [1..MaxRuns -> PushTask]
      /\ \A j \in 1..MaxRuns : /\ push'[j].stage # "none" => push[j].stage # "none"
                               /\ push'[j].stage = "sending" => push'[j] = push[j]
  BY <1>1, <1>2, <1>3 DEF ReadRaises
<1>5. UNCHANGED <<runs, todo>>
  BY DEF ReadRaises
<1> QED
  BY <1>4, <1>5, OnlyPushed DEF PushInv, LeftAreOpen

\* A crash empties the lists and leaves no task that sends.
LEMMA CrashKeeps == ASSUME PushInv, Crash PROVE PushInv'
<1>1. push \in [1..MaxRuns -> PushTask] /\ DOMAIN push = 1..MaxRuns
  BY DEF PushInv, PushTypeOK, PushTask
<1>2. /\ [NoPush EXCEPT !.stage = "lost"] \in PushTask
      /\ [NoPush EXCEPT !.stage = "lost"].stage = "lost"
  BY Bounds DEF PushTask, NoPush, None
<1>3. /\ push' \in [1..MaxRuns -> PushTask]
      /\ \A j \in 1..MaxRuns : /\ push'[j].stage # "none" => push[j].stage # "none"
                               /\ push'[j].stage # "sending"
  BY <1>1, <1>2 DEF Crash
<1>4. runs' = runs /\ todo' = [c \in Cleaners |-> {}]
  BY DEF Crash
<1>5. PushTypeOK'
  BY <1>3, <1>4 DEF PushInv, PushTypeOK, PushTask
<1>6. ListsAreOld'
  BY <1>4 DEF ListsAreOld
<1>7. ErrorRunsStay' /\ LeftAreOpen'
  BY <1>3, <1>4 DEF PushInv, ErrorRunsStay, LeftAreOpen, Ended, Ids
<1> QED
  BY <1>5, <1>6, <1>7 DEF PushInv

\* A fresh list holds what is not kept at that moment.
LEMMA TakeKeeps == ASSUME PushInv, NEW c \in Cleaners, TakeCandidates(c) PROVE PushInv'
<1>1. UNCHANGED <<runs, push>> /\ todo' = [todo EXCEPT ![c] = Candidates]
  BY DEF TakeCandidates
<1>2. Group' = Group /\ Ids' = Ids /\ Keep' = Keep
  BY <1>1 DEF Group, Ids, Ended, Keep, NewestOf, Representatives, Newer
<1>3. /\ Candidates \cap Keep = {}
      /\ \A i \in Candidates : i \in Ids /\ ~runs[i].pinned /\ runs[i].status # "active"
  BY DEF Candidates, Group, Ended
<1>4. Ids \subseteq 1..MaxRuns
  BY RunsAre, Bounds DEF PushInv
<1>5. todo \in [Cleaners -> SUBSET (1..MaxRuns)] /\ Candidates \in SUBSET (1..MaxRuns)
  BY <1>3, <1>4 DEF PushInv, PushTypeOK
<1>6. PushTypeOK'
  BY <1>1, <1>5 DEF PushInv, PushTypeOK
<1>7. \A d \in Cleaners : todo'[d] = todo[d] \/ todo'[d] = Candidates
  BY <1>1, <1>5
<1>8. ListsAreOld'
  BY <1>1, <1>2, <1>3, <1>7 DEF PushInv, ListsAreOld
<1>9. ErrorRunsStay' /\ LeftAreOpen'
  BY <1>1, <1>2 DEF PushInv, ErrorRunsStay, LeftAreOpen, Ended
<1> QED
  BY <1>6, <1>8, <1>9 DEF PushInv

\* A batch takes runs the clean-up does not keep, and nothing else changes.
LEMMA BatchGoes ==
    ASSUME PushInv, NEW c \in Cleaners, DeleteBatch(c)
    PROVE  \E B \in SUBSET todo[c] :
             /\ B \cap Keep = {} /\ UNCHANGED push /\ Group' = Group \ B
             /\ Ids' = Ids /\ runs' \in Seq(Row) /\ Len(runs') = Len(runs)
             /\ \A i \in Ids \ B : runs'[i] = runs[i]
             /\ \A i \in B : i \in Ids /\ ~runs'[i].pinned /\ runs'[i].status = "gone"
             /\ todo' = [todo EXCEPT ![c] = todo[c] \ B]
<1> DEFINE B == {i \in todo[c] : Cardinality({j \in todo[c] : j < i}) < Batch}
           gone(i) == [runs[i] EXCEPT !.status = "gone", !.started = 0]
<1>1. /\ runs' = [i \in Ids |-> IF i \in B THEN gone(i) ELSE runs[i]]
      /\ todo' = [todo EXCEPT ![c] = todo[c] \ B] /\ UNCHANGED push
  BY DEF DeleteBatch
<1>2. B \in SUBSET todo[c]
  OBVIOUS
<1> HIDE DEF B
<1>3. B \cap Keep = {} /\ \A i \in B : i \in Ids /\ ~runs[i].pinned
  BY <1>2 DEF PushInv, ListsAreOld
<1>4. Ids = 1..Len(runs) /\ Len(runs) \in Nat /\ \A i \in Ids : runs[i] \in Row
  BY RunsAre, Bounds DEF PushInv
<1>5. \A i \in Ids : gone(i) \in Row /\ gone(i).status = "gone" /\ gone(i).pinned = runs[i].pinned
  BY <1>4, Bounds DEF Row
<1> HIDE DEF gone
<1>6. runs' \in [1..Len(runs) -> Row]
  BY <1>1, <1>4, <1>5
<1>7. runs' \in Seq(Row) /\ Ids' = Ids /\ Len(runs') = Len(runs)
  <2>1. runs' \in Seq(Row)
    BY <1>4, <1>6, IsASeq
  <2>2. DOMAIN runs' = 1..Len(runs') /\ Len(runs') \in Nat /\ DOMAIN runs' = 1..Len(runs)
    BY <1>6, <2>1, LenProperties
  <2>3. Len(runs') = Len(runs)
    BY <1>4, <2>2
  <2> QED
    BY <1>4, <2>1, <2>2, <2>3 DEF Ids
<1>8. /\ \A i \in Ids \ B : runs'[i] = runs[i]
      /\ \A i \in B : i \in Ids /\ ~runs'[i].pinned /\ runs'[i].status = "gone"
  BY <1>1, <1>3, <1>5
<1>9. Group' = Group \ B
  BY <1>3, <1>7, <1>8 DEF Group, Ended
<1> QED
  BY <1>1, <1>2, <1>3, <1>7, <1>8, <1>9

\* The lists of the other cleaners survive a batch: what goes was not kept.
LEMMA DeleteKeeps == ASSUME PushInv, NEW c \in Cleaners, DeleteBatch(c) PROVE PushInv'
<1>1. PICK B \in SUBSET todo[c] :
             /\ B \cap Keep = {} /\ UNCHANGED push /\ Group' = Group \ B
             /\ Ids' = Ids /\ runs' \in Seq(Row) /\ Len(runs') = Len(runs)
             /\ \A i \in Ids \ B : runs'[i] = runs[i]
             /\ \A i \in B : i \in Ids /\ ~runs'[i].pinned /\ runs'[i].status = "gone"
             /\ todo' = [todo EXCEPT ![c] = todo[c] \ B]
  BY BatchGoes
<1>2. todo \in [Cleaners -> SUBSET (1..MaxRuns)]
  BY DEF PushInv, PushTypeOK
<1>3. todo' \in [Cleaners -> SUBSET (1..MaxRuns)] /\ \A d \in Cleaners : todo'[d] \subseteq todo[d]
  BY <1>1, <1>2
<1>4. PushTypeOK'
  BY <1>1, <1>3 DEF PushInv, PushTypeOK, Row
<1>5. Keep' \subseteq Keep
  <2>1. \A i \in Group \ B : runs'[i] = runs[i]
    BY <1>1 DEF Group, Ended
  <2> QED
    BY <1>1, <1>4, <2>1, KeepWhenSomeGo DEF PushInv
<1>6. ASSUME NEW d \in Cleaners, NEW i \in todo'[d]
      PROVE  i \notin Keep' /\ i \in Ids' /\ ~runs'[i].pinned /\ runs'[i].status # "active"
  <2>1. i \notin Keep /\ i \in Ids /\ ~runs[i].pinned /\ runs[i].status # "active"
    BY <1>3 DEF PushInv, ListsAreOld
  <2> QED
    BY <1>1, <1>5, <2>1
<1>7. ListsAreOld'
  BY <1>6 DEF ListsAreOld
<1>8. \A i \in B : ~runs[i].pinned
  BY DEF PushInv, ListsAreOld
<1>9. \A i \in Ids : runs[i].pinned => runs'[i] = runs[i]
  BY <1>1, <1>8
<1>10. \A i \in Ids : runs'[i].pinned => runs[i].pinned
  BY <1>1
<1>11. ErrorRunsStay' /\ LeftAreOpen'
  BY <1>1, <1>9, <1>10 DEF PushInv, ErrorRunsStay, LeftAreOpen, Ended
<1> QED
  BY <1>4, <1>7, <1>11 DEF PushInv
-----------------------------------------------------------------------------
\* Every step keeps the inductive invariant.
LEMMA StepPush == PushInv /\ [PushNext]_pushVars => PushInv'
<1> SUFFICES ASSUME PushInv, [PushNext]_pushVars PROVE PushInv'
  OBVIOUS
<1>1. ASSUME NEW v \in Versions, CreateManual(v) \/ CreateError(v) PROVE PushInv'
  BY <1>1, CreateManualKeeps, CreateErrorKeeps
<1>2. ASSUME NEW i \in Ids, NEW t \in 0..LastTime, EndManual(i, t) PROVE PushInv'
  BY <1>2, EndManualKeeps
<1>3. ASSUME NEW i \in Ids, ReadForPush(i) \/ ReadRaises(i) PROVE PushInv'
  BY <1>3, ReadForPushKeeps, ReadRaisesKeeps
<1>4. ASSUME NEW i \in Ids, NEW n \in 0..MaxClusters, EndError(i, n) PROVE PushInv'
  BY <1>4, EndErrorKeeps
<1>5. ASSUME NEW i \in Ids, NEW met \in Meets, Attempt(i, met) PROVE PushInv'
  BY <1>5, AttemptKeeps
<1>6. ASSUME NEW c \in Cleaners, TakeCandidates(c) \/ DeleteBatch(c) PROVE PushInv'
  BY <1>6, TakeKeeps, DeleteKeeps
<1>7. CASE Crash
  BY <1>7, CrashKeeps
<1>8. CASE UNCHANGED pushVars
  <2>1. \A j \in 1..MaxRuns : push'[j] = push[j]
    BY <1>8 DEF pushVars
  <2>2. push' \in [1..MaxRuns -> PushTask]
    BY <1>8 DEF pushVars, PushInv, PushTypeOK, PushTask
  <2> QED
    BY <1>8, <2>1, <2>2, OnlyPushed DEF pushVars
<1> QED
  BY <1>1, <1>2, <1>3, <1>4, <1>5, <1>6, <1>7, <1>8 DEF PushNext

\* The inductive invariant: no list of a cleaner, however old, holds a run the clean-up would keep
\* by now, and error runs stay (candidates_to_purge, _delete_batch).
THEOREM PushInvHolds == PushSpec => []PushInv
<1>1. PushInit => PushInv
  BY InitPush
<1>2. PushInv /\ [PushNext]_pushVars => PushInv'
  BY StepPush
<1> QED
  BY <1>1, <1>2, PTL DEF PushSpec

\* The types of the runs, of the push tasks and of the lists of the cleaners.
THEOREM PushTypeCorrect == PushSpec => []PushTypeOK
<1>1. PushInv => PushTypeOK
  BY DEF PushInv
<1> QED
  BY <1>1, PushInvHolds, PTL

\* What a step does to the runs that are there: their version and their pin stay, a new one has
\* the next id, and only a batch takes one away that has ended.
LEMMA RunsKeepTheirPlace ==
    ASSUME PushInv, [PushNext]_pushVars
    PROVE  /\ Ids \subseteq Ids' /\ Ids' \subseteq Ids \cup {Len(runs) + 1}
           /\ \A i \in Ids :
                /\ runs'[i].version = runs[i].version /\ (runs'[i].pinned <=> runs[i].pinned)
                /\ runs[i].status = "ended" /\ runs'[i].status = "gone" =>
                      \E c \in Cleaners : DeleteBatch(c)
<1>1. /\ runs \in Seq(Row) /\ Ids = 1..Len(runs) /\ Len(runs) \in Nat
  BY RunsAre, Bounds DEF PushInv
<1>2. ASSUME NEW v \in Versions, NEW p \in BOOLEAN, runs' = Append(runs, Run(v, p))
      PROVE  /\ Ids \subseteq Ids' /\ Ids' \subseteq Ids \cup {Len(runs) + 1}
             /\ \A i \in Ids : runs'[i] = runs[i]
  <2>1. Run(v, p) \in Row
    BY Bounds DEF Row, Run
  <2> HIDE DEF Row
  <2>2. /\ runs' \in Seq(Row) /\ Len(runs') = Len(runs) + 1
        /\ \A i \in 1..Len(runs) : runs'[i] = runs[i]
    BY <1>1, <1>2, <2>1, AppendProperties
  <2>3. Ids' = 1..(Len(runs) + 1)
    BY <2>2, LenProperties DEF Ids
  <2> QED
    BY <1>1, <2>2, <2>3
<1>3. ASSUME NEW v \in Versions, CreateManual(v) \/ CreateError(v)
      PROVE  /\ Ids \subseteq Ids' /\ Ids' \subseteq Ids \cup {Len(runs) + 1}
             /\ \A i \in Ids : runs'[i] = runs[i]
  BY <1>2, <1>3 DEF CreateManual, CreateError
<1>4. ASSUME NEW k \in Ids, NEW t \in 0..LastTime, EndManual(k, t)
      PROVE  /\ Ids' = Ids /\ \A i \in Ids : /\ runs'[i].version = runs[i].version
                                             /\ runs'[i].pinned = runs[i].pinned
                                             /\ runs'[i] = runs[i] \/ runs'[i].status = "ended"
  <2> DEFINE r == [runs[k] EXCEPT !.status = "ended", !.started = t]
  <2>1. runs[k] \in Row
    BY RunsAre DEF PushInv
  <2>2. r \in Row /\ r.version = runs[k].version /\ r.pinned = runs[k].pinned /\ r.status = "ended"
    BY <2>1 DEF Row
  <2>3. runs' = [runs EXCEPT ![k] = r]
    BY <1>4 DEF EndManual
  <2> HIDE DEF r
  <2>4. Ids' = Ids /\ runs'[k] = r /\ \A j \in Ids \ {k} : runs'[j] = runs[j]
    BY <2>2, <2>3, OneRunWritten DEF PushInv
  <2> QED
    BY <2>2, <2>4
<1>5. ASSUME NEW k \in Ids, NEW n \in 0..MaxClusters, EndError(k, n)
      PROVE  /\ Ids' = Ids /\ \A i \in Ids : /\ runs'[i].version = runs[i].version
                                             /\ runs'[i].pinned = runs[i].pinned
                                             /\ runs'[i] = runs[i] \/ runs'[i].status = "ended"
  <2> DEFINE r == [runs[k] EXCEPT !.status = "ended"]
  <2>1. runs[k] \in Row
    BY RunsAre DEF PushInv
  <2>2. r \in Row /\ r.version = runs[k].version /\ r.pinned = runs[k].pinned /\ r.status = "ended"
    BY <2>1 DEF Row
  <2>3. runs' = [runs EXCEPT ![k] = r]
    BY <1>5 DEF EndError
  <2> HIDE DEF r
  <2>4. Ids' = Ids /\ runs'[k] = r /\ \A j \in Ids \ {k} : runs'[j] = runs[j]
    BY <2>2, <2>3, OneRunWritten DEF PushInv
  <2> QED
    BY <2>2, <2>4
<1>6. ASSUME NEW c \in Cleaners, DeleteBatch(c)
      PROVE  Ids' = Ids /\ \A i \in Ids : /\ runs'[i].version = runs[i].version
                                          /\ runs'[i].pinned = runs[i].pinned
  <2>1. Ids' = Ids
    BY <1>6, BatchGoes
  <2>2. \A i \in Ids : \/ runs'[i] = runs[i]
                       \/ runs'[i] = [runs[i] EXCEPT !.status = "gone", !.started = 0]
    BY <1>6 DEF DeleteBatch
  <2>3. \A i \in Ids : runs[i] \in Row
    BY RunsAre DEF PushInv
  <2> QED
    BY <2>1, <2>2, <2>3 DEF Row
<1>7. CASE runs' = runs
  BY <1>7 DEF Ids
<1>8. \/ runs' = runs
      \/ \E v \in Versions : CreateManual(v) \/ CreateError(v)
      \/ \E k \in Ids, t \in 0..LastTime : EndManual(k, t)
      \/ \E k \in Ids, n \in 0..MaxClusters : EndError(k, n)
      \/ \E c \in Cleaners : DeleteBatch(c)
  BY DEF PushNext, pushVars, ReadForPush, ReadRaises, Attempt, TakeCandidates, Crash
<1> QED
  BY <1>3, <1>4, <1>5, <1>6, <1>7, <1>8

\* Nothing is sent before the first run.
LEMMA InitWatermarks == PushInit => WatermarksHold
  BY DEF PushInit, WatermarksHold, Ids

\* The watermarks are right when they are read, and stay so while the task sends.
LEMMA StepWatermarks == PushInv /\ WatermarksHold /\ [PushNext]_pushVars => WatermarksHold'
<1> SUFFICES ASSUME PushInv, WatermarksHold, [PushNext]_pushVars,
                    NEW i \in Ids', push'[i].stage = "sending"
             PROVE  /\ push'[i].latest >= runs'[i].version
                    /\ \A j \in Ids' : j < i /\ runs'[j].pinned => j <= push'[i].prev
  BY DEF WatermarksHold
<1>1. PushInv'
  BY StepPush
<1>2. i \in 1..MaxRuns
  BY <1>1, NextRunsAre DEF PushInv
<1>3. push \in [1..MaxRuns -> PushTask]
  BY DEF PushInv, PushTypeOK, PushTask
<1>4. /\ Ids \subseteq Ids'
      /\ \A k \in Ids : runs'[k].version = runs[k].version /\ (runs'[k].pinned <=> runs[k].pinned)
      /\ Ids' \subseteq Ids \cup {Len(runs) + 1}
  BY RunsKeepTheirPlace
<1>5. \A k \in Ids : k \in Int /\ k < Len(runs) + 1
  BY RunsAre DEF PushInv
\* A watermark that was read before stays what it was.
<1>6. ASSUME push[i].stage = "sending",
             push'[i].latest = push[i].latest, push'[i].prev = push[i].prev
      PROVE  /\ push'[i].latest >= runs'[i].version
             /\ \A j \in Ids' : j < i /\ runs'[j].pinned => j <= push'[i].prev
  <2>1. i \in Ids
    BY <1>2, <1>6 DEF PushInv, ErrorRunsStay, Ended
  <2>2. \A j \in Ids' : j < i => j \in Ids
    <3> SUFFICES ASSUME NEW j \in Ids', j < i, j \notin Ids PROVE FALSE
      OBVIOUS
    <3>1. j = Len(runs) + 1 /\ i \in Int /\ i < Len(runs) + 1
      BY <1>4, <1>5, <2>1
    <3>2. Len(runs) \in Nat
      BY RunsAre, Bounds DEF PushInv
    <3> QED
      BY <3>1, <3>2
  <2> QED
    BY <1>4, <1>6, <2>1, <2>2 DEF WatermarksHold
<1>7. CASE push'[i] = push[i]
  BY <1>6, <1>7
<1>8. ASSUME NEW k \in Ids, ReadForPush(k), push'[i] # push[i]
      PROVE  /\ push'[i].latest >= runs'[i].version
             /\ \A j \in Ids' : j < i /\ runs'[j].pinned => j <= push'[i].prev
  <2>1. k = i /\ push[i].stage = "fired" /\ runs' = runs
    BY <1>2, <1>3, <1>8 DEF ReadForPush
  <2>2. i \in Ended /\ runs[i].pinned /\ i \in Ids
    BY <1>2, <2>1 DEF PushInv, ErrorRunsStay, Ended
  <2>3. \/ push'[i] = Done(push[i])
        \/ push'[i].latest = LatestVersion(i) /\ push'[i].prev = PreviousRun(i)
    BY <1>2, <1>3, <1>8, <2>1 DEF ReadForPush
  <2>4. Done(push[i]).stage = "done"
    BY DEF Done, NoPush
  <2>5. push'[i].latest = LatestVersion(i) /\ push'[i].prev = PreviousRun(i)
    BY <2>3, <2>4
  <2>6. LatestVersion(i) >= runs[i].version /\ \A j \in Ended : j < i => j <= PreviousRun(i)
    BY <2>2, WatermarkTypes DEF PushInv
  <2>7. Ids' = Ids
    BY <2>1 DEF Ids
  <2>8. \A j \in Ids : j < i /\ runs[j].pinned => j \in Ended
    BY <2>2 DEF PushInv, ErrorRunsStay, Ended
  <2> QED
    BY <2>1, <2>5, <2>6, <2>7, <2>8
<1>9. ASSUME NEW k \in Ids, NEW met \in Meets, Attempt(k, met), push'[i] # push[i]
      PROVE  /\ push'[i].latest >= runs'[i].version
             /\ \A j \in Ids' : j < i /\ runs'[j].pinned => j <= push'[i].prev
  <2>1. /\ push[k].stage = "sending"
        /\ \A j \in 1..MaxRuns \ {k} : push'[j] = push[j]
        /\ push'[k].stage = "sending" =>
             push'[k].latest = push[k].latest /\ push'[k].prev = push[k].prev
    BY <1>9, AttemptLeaves
  <2>2. k = i
    BY <1>2, <1>9, <2>1
  <2> QED
    BY <1>6, <2>1, <2>2
<1>10. ASSUME NEW k \in Ids, NEW n \in 0..MaxClusters, EndError(k, n), push'[i] # push[i]
       PROVE  FALSE
  <2>1. push'[i] = [NoPush EXCEPT !.stage = "fired", !.open = n]
    BY <1>2, <1>3, <1>10 DEF EndError
  <2> QED
    BY <2>1 DEF NoPush
<1>11. ASSUME Crash, push'[i] # push[i] PROVE FALSE
  BY <1>2, <1>3, <1>11 DEF Crash, NoPush
<1>14. ASSUME NEW k \in Ids, ReadRaises(k), push'[i] # push[i] PROVE FALSE
  BY <1>2, <1>3, <1>14 DEF ReadRaises, NoPush
<1>12. CASE UNCHANGED push
  BY <1>7, <1>12
<1>13. \/ UNCHANGED push \/ Crash
       \/ \E k \in Ids : ReadForPush(k) \/ ReadRaises(k)
       \/ \E k \in Ids, n \in 0..MaxClusters : EndError(k, n)
       \/ \E k \in Ids, met \in Meets : Attempt(k, met)
  BY DEF PushNext, pushVars, CreateManual, CreateError, EndManual, TakeCandidates, DeleteBatch
<1> QED
  BY <1>7, <1>8, <1>9, <1>10, <1>11, <1>12, <1>13, <1>14

\* While results are sent, the latest version is not older than the one pushed, and the previous run
\* is no earlier than the error run before this one (_watermarks).
THEOREM PushKeepsWatermarks == PushSpec => []WatermarksHold
<1>1. PushInit => WatermarksHold
  BY InitWatermarks
<1>2. PushInv /\ WatermarksHold /\ [PushNext]_pushVars => WatermarksHold'
  BY StepWatermarks
<1> QED
  BY <1>1, <1>2, PushInvHolds, PTL DEF PushSpec

\* A run goes from a list that holds nothing the clean-up keeps: what is kept stays.
LEMMA StepSpares ==
    PushInv /\ [PushNext]_pushVars =>
        \A i \in Ids : runs[i].status = "ended" /\ runs'[i].status = "gone" =>
         LET stays == {j \in Group : runs'[j].status = "ended"}
         IN /\ Cardinality(stays) >= Retain
            /\ \/ \E j \in stays : runs[j].version = runs[i].version /\ Newer(j, i)
               \/ Cardinality({runs[j].version : j \in {k \in stays : Newer(k, i)}}) >= Retain
<1> SUFFICES ASSUME PushInv, [PushNext]_pushVars, NEW i \in Ids,
                    runs[i].status = "ended", runs'[i].status = "gone",
                    NEW stays, stays = {j \in Group : runs'[j].status = "ended"}
             PROVE  /\ Cardinality(stays) >= Retain
                    /\ \/ \E j \in stays : runs[j].version = runs[i].version /\ Newer(j, i)
                       \/ Cardinality({runs[j].version : j \in {k \in stays : Newer(k, i)}}) >= Retain
  OBVIOUS
<1>1. PICK c \in Cleaners : DeleteBatch(c)
  BY RunsKeepTheirPlace
<1>2. PICK B \in SUBSET todo[c] :
             /\ B \cap Keep = {}
             /\ \A j \in Ids \ B : runs'[j] = runs[j]
             /\ \A j \in B : j \in Ids /\ ~runs'[j].pinned /\ runs'[j].status = "gone"
  BY <1>1, BatchGoes
<1>3. /\ IsFiniteSet(Group) /\ Group \subseteq Ids /\ Orders(Order, Group)
      /\ Keep = Spares(Group, Order, VersionOf, Retain) /\ Retain \in Nat
      /\ \A j \in Ids : runs[j].version \in Versions
  BY RunsAre, KeepIs, Bounds DEF PushInv
<1>4. i \in B /\ i \in Group \ Keep
  <2>1. i \in B
    BY <1>2
  <2> QED
    BY <1>2, <2>1 DEF Group, Ended, PushInv, ListsAreOld
<1>5. /\ Keep \subseteq Group /\ Cardinality(Keep) >= Retain
      /\ \/ \E k \in Keep : VersionOf[k] = VersionOf[i] /\ <<k, i>> \in Order
         \/ Cardinality(VersionsIn(Above(Keep, Order, i), VersionOf)) >= Retain
  <2> HIDE DEF Keep, Order, VersionOf, Group
  <2> QED
    BY <1>3, <1>4, GivesWay
<1>6. Keep \subseteq stays /\ stays \subseteq Group
  <2>1. \A j \in Keep : j \in Group /\ runs'[j] = runs[j] /\ runs[j].status = "ended"
    BY <1>2, <1>3, <1>5 DEF Group, Ended
  <2> HIDE DEF Keep
  <2> QED
    BY <2>1
<1>7. Cardinality(stays) >= Retain /\ IsFiniteSet(stays)
  <2>1. IsFiniteSet(stays) /\ Cardinality(Keep) <= Cardinality(stays) /\ IsFiniteSet(Keep)
    BY <1>3, <1>6, FS_Subset
  <2>2. Cardinality(Keep) \in Nat /\ Cardinality(stays) \in Nat
    BY <2>1, FS_CardinalityType
  <2> QED
    BY <1>3, <1>5, <2>1, <2>2
<1>8. \A k \in Ids : /\ <<k, i>> \in Order => Newer(k, i)
                     /\ VersionOf[k] = runs[k].version
  BY DEF Order, VersionOf
<1>9. CASE \E k \in Keep : VersionOf[k] = VersionOf[i] /\ <<k, i>> \in Order
  BY <1>3, <1>6, <1>7, <1>8, <1>9
<1>10. CASE Cardinality(VersionsIn(Above(Keep, Order, i), VersionOf)) >= Retain
  <2> DEFINE A == {k \in stays : Newer(k, i)}
             V == {runs[j].version : j \in A}
  <2>1. IsFiniteSet(A)
    BY <1>7, FS_Subset
  <2>2. IsFiniteSet(V)
    <3> DEFINE f == [j \in A |-> runs[j].version]
    <3>1. f \in Surjection(A, V)
      BY DEF Surjection
    <3> QED
      BY <2>1, <3>1, FS_Surjection
  <2>3. Above(Keep, Order, i) \subseteq A /\ A \subseteq Ids
    BY <1>3, <1>6, <1>8 DEF Above
  <2>4. VersionsIn(Above(Keep, Order, i), VersionOf) \subseteq V
    BY <1>8, <2>3 DEF VersionsIn
  <2> HIDE DEF V
  <2>5. /\ Cardinality(VersionsIn(Above(Keep, Order, i), VersionOf)) <= Cardinality(V)
        /\ IsFiniteSet(VersionsIn(Above(Keep, Order, i), VersionOf))
    BY <2>2, <2>4, FS_Subset
  <2>6. /\ Cardinality(VersionsIn(Above(Keep, Order, i), VersionOf)) \in Nat
        /\ Cardinality(V) \in Nat
    BY <2>2, <2>5, FS_CardinalityType
  <2>7. Cardinality(V) >= Retain
    BY <1>3, <1>10, <2>5, <2>6
  <2> QED
    BY <1>7, <2>7 DEF V
<1> QED
  BY <1>5, <1>9, <1>10

\* However many cleaners work at once on lists of their own, a run goes only when retain_runs runs
\* stay and it gives way to a newer one of its version or to as many versions (run_cleanup).
THEOREM CleanupSparesTheNewest == PushSpec => CleanupSpares
<1>1. PushInv /\ [PushNext]_pushVars =>
        \A i \in Ids : runs[i].status = "ended" /\ runs'[i].status = "gone" =>
         LET stays == {j \in Group : runs'[j].status = "ended"}
         IN /\ Cardinality(stays) >= Retain
            /\ \/ \E j \in stays : runs[j].version = runs[i].version /\ Newer(j, i)
               \/ Cardinality({runs[j].version : j \in {k \in stays : Newer(k, i)}}) >= Retain
  BY StepSpares
<1> QED
  BY <1>1, PushInvHolds, PTL DEF PushSpec, CleanupSpares
=============================================================================
