--------------------------- MODULE CircuitBreaker ---------------------------
(***************************************************************************)
(* The circuit breaker of an agent and its row per domain in agent_circuit. *)
(* A case that got its slots loads the row into a breaker of its own, asks  *)
(* it for admission, calls the agent for minutes, tells it the outcome and  *)
(* saves it. Other cases do the same in between: nothing is locked.         *)
(*                                                                          *)
(* Load and save use one session and one transaction. The select of save    *)
(* therefore sees the snapshot of the load, and the update names only the   *)
(* columns whose new value differs from that snapshot; they overwrite what  *)
(* the row holds by then.                                                   *)
(***************************************************************************)
EXTENDS Naturals, FiniteSets

CONSTANTS
    Slots,     \* the places a case can execute in
    Domains,   \* "manual" (held_out too) and "error_regression"
    DomainOf,  \* the domain of the cases that use a slot
    Threshold  \* failure_threshold

ASSUME BreakerAssumption ==
    /\ "error_regression" \in Domains
    /\ DomainOf \in [Slots -> Domains]
    /\ Threshold \in Nat \ {0}

VARIABLES
    row,      \* per domain: state, failures and probe_inflight as stored
    cooled,   \* per domain: open_duration has passed since the stored opened_at
    place,    \* what the case in a slot does
    loaded,   \* the snapshot it works on
    breaker,  \* its breaker after try_acquire
    failed,   \* history: failures recorded so far, counted up to Threshold
    settled   \* from now on the agent answers and the process stays up

rowVars  == <<row, cooled>>
caseVars == <<place, loaded, breaker>>
vars     == <<row, cooled, place, loaded, breaker, failed, settled>>

\* The default row that the first load of a domain inserts.
Fresh == [state |-> "closed", failures |-> 0, probe |-> 0]

\* Mutation: the default domain for everybody.
OneDomain(s) == "manual"
\* Every select carries the domain.
RowDomain(s) == DomainOf[s]

Outcomes == {"ok", "retryable", "neutral"}
-----------------------------------------------------------------------------
(* The state machine of the class.                                         *)

\* Mutation: an open breaker is half open at once.
CoolsAtOnce(b, cool) == IF b.state = "open" THEN [b EXCEPT !.state = "half_open"] ELSE b
\* try_acquire of an open breaker: half open once it has cooled down.
CooledDown(b, cool) ==
    IF b.state = "open" /\ cool THEN [b EXCEPT !.state = "half_open"] ELSE b

Admits(b) == b.state = "closed" \/ (b.state = "half_open" /\ b.probe = 0)

Acquired(b) == IF b.state = "half_open" THEN [b EXCEPT !.probe = @ + 1] ELSE b

\* Mutation: the probe is given back by a feedback only.
KeepsProbe(b) == b
\* release_probe, whatever the outcome.
Released(b) == [b EXCEPT !.probe = IF @ > 0 THEN @ - 1 ELSE @]

\* record_failure of a probe, or of the one that reaches the threshold.
Trips(b, o) ==
    o = "retryable" /\ (b.state = "half_open" \/ b.failures + 1 >= Threshold)

\* record_success, record_failure, or neither: no outcome, or a failure that is the
\* agent's own bug.
Fed(b, o) ==
    CASE Trips(b, o) -> [state |-> "open", failures |-> 0,
                         probe |-> IF b.state = "half_open" THEN 0 ELSE b.probe]
      [] o = "retryable" /\ ~Trips(b, o) -> [b EXCEPT !.failures = @ + 1]
      [] o = "ok" -> IF b.state = "half_open" THEN Fresh ELSE [b EXCEPT !.failures = 0]
      [] o = "neutral" -> b
-----------------------------------------------------------------------------
Init ==
    /\ row = [d \in Domains |-> Fresh]
    /\ cooled = [d \in Domains |-> FALSE]
    /\ place = [s \in Slots |-> "idle"]
    /\ loaded = [s \in Slots |-> Fresh]
    /\ breaker = [s \in Slots |-> Fresh]
    /\ failed = [d \in Domains |-> 0]
    /\ settled = FALSE

\* load and try_acquire.
Load(s) ==
    LET r == row[RowDomain(s)]
        b == CooledDown(r, cooled[RowDomain(s)])
    IN /\ place[s] = "idle"
       /\ loaded' = [loaded EXCEPT ![s] = r]
       /\ IF Admits(b)
          THEN /\ place' = [place EXCEPT ![s] = "calling"]
               /\ breaker' = [breaker EXCEPT ![s] = Acquired(b)]
          ELSE /\ place' = [place EXCEPT ![s] = "refused"]
               /\ breaker' = [breaker EXCEPT ![s] = b]
       /\ UNCHANGED <<rowVars, failed, settled>>

\* Mutation: the update names every column.
Everything(old, new, now) == new
\* What the update leaves in the row: columns equal to the snapshot are not named.
Merged(old, new, now) ==
    [state    |-> IF new.state = old.state THEN now.state ELSE new.state,
     failures |-> IF new.failures = old.failures THEN now.failures ELSE new.failures,
     probe    |-> IF new.probe = old.probe THEN now.probe ELSE new.probe]

\* save; the slot is free for another case afterwards.
Save(s, b) ==
    /\ row' = [row EXCEPT ![RowDomain(s)] = Merged(loaded[s], b, @)]
    /\ place' = [place EXCEPT ![s] = "idle"]
    /\ loaded' = [loaded EXCEPT ![s] = Fresh]
    /\ breaker' = [breaker EXCEPT ![s] = Fresh]

\* Not admitted: the row is saved as it was loaded.
Refuse(s) ==
    /\ place[s] = "refused"
    /\ Save(s, breaker[s])
    /\ UNCHANGED <<cooled, failed, settled>>

\* The call is over: the probe is released, the outcome is fed back, the row saved. A
\* breaker that opens stores the present time as opened_at.
EndCall(s, o) ==
    LET b == Released(breaker[s])
        d == DomainOf[s]
    IN /\ place[s] = "calling"
       /\ settled => o = "ok"
       /\ Save(s, Fed(b, o))
       /\ cooled' = [cooled EXCEPT ![RowDomain(s)] = @ /\ ~Trips(b, o)]
       /\ failed' = [failed EXCEPT ![d] =
                       IF o = "retryable" /\ @ < Threshold THEN @ + 1 ELSE @]
       /\ UNCHANGED settled

CoolDown(d) ==
    /\ row[d].state = "open" /\ ~cooled[d]
    /\ cooled' = [cooled EXCEPT ![d] = TRUE]
    /\ UNCHANGED <<row, caseVars, failed, settled>>

\* The process dies; nothing of what was in memory is saved.
Crash ==
    /\ ~settled
    /\ place' = [s \in Slots |-> "idle"]
    /\ loaded' = [s \in Slots |-> Fresh]
    /\ breaker' = [s \in Slots |-> Fresh]
    /\ UNCHANGED <<rowVars, failed, settled>>

Settle == ~settled /\ settled' = TRUE /\ UNCHANGED <<rowVars, caseVars, failed>>
-----------------------------------------------------------------------------
Next ==
    \/ \E s \in Slots : Load(s) \/ Refuse(s) \/ \E o \in Outcomes : EndCall(s, o)
    \/ \E d \in Domains : CoolDown(d)
    \/ Crash
    \/ Settle

Spec == Init /\ [][Next]_vars

(* Cases keep coming, calls return (each has a timeout), time passes.       *)
Fairness ==
    /\ \A s \in Slots : /\ WF_vars(Load(s)) /\ WF_vars(Refuse(s))
                        /\ WF_vars(\E o \in Outcomes : EndCall(s, o))
    /\ \A d \in Domains : WF_vars(CoolDown(d))

FairSpec == Spec /\ Fairness
-----------------------------------------------------------------------------
(* Properties.                                                             *)

Rows == [state : {"closed", "open", "half_open"}, failures : 0..(Threshold - 1), probe : {0}]

\* The stored row is a legal breaker: its count is below the threshold, and no probe
\* stays behind in it, which would keep the agent shut out for ever. A breaker in memory
\* holds the probe exactly while it is half open and calls.
TypeOK ==
    /\ row \in [Domains -> Rows]
    /\ cooled \in [Domains -> BOOLEAN]
    /\ place \in [Slots -> {"idle", "calling", "refused"}]
    /\ loaded \in [Slots -> Rows]
    /\ breaker \in [Slots -> [state : {"closed", "open", "half_open"},
                              failures : 0..(Threshold - 1), probe : {0, 1}]]
    /\ failed \in [Domains -> 0..Threshold]
    /\ settled \in BOOLEAN

\* The cases that were let through to find out whether the agent is back.
Probes(d) == {s \in Slots : /\ DomainOf[s] = d /\ place[s] = "calling"
                            /\ breaker[s].state = "half_open"}

\* A breaker is only found open after Threshold failures of its own domain, however the
\* saves of concurrent cases overlap: lost updates delay it, they never invent failures,
\* and the other domain's failures do not count (circuit_repo: "isolated domains").
OpenedByFailures == \A d \in Domains : row[d].state # "closed" => failed[d] >= Threshold

\* Only the end of a probe closes it: a call that was admitted before the breaker opened
\* and succeeds afterwards does not ("the probe decides on recovery").
ClosedByProbe ==
    [][\A d \in Domains :
         row[d].state # "closed" /\ row'[d].state = "closed"
            => \E s \in Probes(d) : place'[s] = "idle"]_vars

\* What is stored about an agent is the work of its own domain, in both directions: it is
\* found closed to cases only after Threshold failures there, and open to them again only
\* after a probe there.
TurnsAreEarned == []OpenedByFailures /\ ClosedByProbe

\* Once the agent is well the breakers close and stay closed, provided cases keep coming.
Recovers == settled ~> [](\A d \in Domains : row[d].state = "closed")

\* A domain whose cases run one at a time has the breaker that was promised: seen from
\* outside load, call and save are atomic.
ErrorDomain == "error_regression"
Contract == INSTANCE BreakerContract WITH
    state    <- IF Probes(ErrorDomain) # {} THEN "half_open" ELSE row[ErrorDomain].state,
    failures <- row[ErrorDomain].failures,
    cooled   <- cooled[ErrorDomain],
    probing  <- Probes(ErrorDomain) # {}
ErrorDomainAsPromised == Contract!Spec
=============================================================================
