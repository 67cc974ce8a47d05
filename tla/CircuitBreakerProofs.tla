------------------------ MODULE CircuitBreakerProofs ------------------------
(* The stored row stays a legal breaker, opens only by failures of its own   *)
(* domain and is closed only by a probe, for any number of overlapping cases; *)
(* where cases run one at a time it is the breaker that was promised.         *)
EXTENDS CircuitBreaker, TLAPS

States == {"closed", "open", "half_open"}
Breakers == [state : States, failures : 0..(Threshold - 1), probe : {0, 1}]

\* What a breaker in memory has to do with the snapshot it came from.
Acquisition(s) ==
    /\ place[s] = "calling" =>
         \/ loaded[s].state = "closed" /\ breaker[s] = loaded[s]
         \/ /\ loaded[s].state # "closed"
            /\ breaker[s] = [state |-> "half_open", failures |-> loaded[s].failures, probe |-> 1]
    /\ place[s] = "refused" => breaker[s] = loaded[s] /\ loaded[s].state = "open"

\* A count, stored or in a snapshot, is backed by failures; so is a row or a snapshot that
\* is not closed.
Backed(b, d) == b.failures <= failed[d] /\ (b.state # "closed" => failed[d] >= Threshold)

BreakerInv ==
    /\ TypeOK
    /\ \A s \in Slots : Acquisition(s)
    /\ \A d \in Domains : Backed(row[d], d)
    /\ \A s \in Slots : Backed(loaded[s], DomainOf[s])
-----------------------------------------------------------------------------
\* A domain without a row starts from a closed breaker.
LEMMA FreshRow == Fresh \in Rows /\ Fresh.state = "closed" /\ Fresh.failures = 0
  BY BreakerAssumption DEF BreakerAssumption, Fresh, Rows

\* A breaker that gave its probe back and was fed an outcome can be stored.
LEMMA FedIsRow ==
    ASSUME NEW b \in Breakers, NEW o \in Outcomes
    PROVE  /\ Released(b) \in Rows
           /\ Released(b).state = b.state /\ Released(b).failures = b.failures
           /\ Fed(Released(b), o) \in Rows
           /\ Fed(Released(b), o).state = "closed" => b.state = "closed" \/ (b.state = "half_open" /\ o = "ok")
<1>1. /\ Released(b) \in Rows
      /\ Released(b).state = b.state /\ Released(b).failures = b.failures
  BY DEF Released, Rows, Breakers, States
<1> DEFINE r == Released(b)
<1>2. r \in Rows /\ r.state = b.state
  BY <1>1
<1> HIDE DEF r
<1>3. CASE Trips(r, o)
  <2>1. Fed(r, o) = [state |-> "open", failures |-> 0, probe |-> 0]
    BY <1>2, <1>3 DEF Fed, Rows, Trips
  <2> QED
    BY <2>1, <1>1, <1>2, BreakerAssumption DEF BreakerAssumption, Rows, r
<1>4. CASE o = "retryable" /\ ~Trips(r, o)
  <2>1. Fed(r, o) = [r EXCEPT !.failures = @ + 1]
    BY <1>4 DEF Fed, Trips
  <2> QED
    BY <2>1, <1>1, <1>2, <1>4, BreakerAssumption DEF BreakerAssumption, Rows, Trips, r, Breakers
<1>5. CASE o = "ok"
  <2>1. Fed(r, o) = IF r.state = "half_open" THEN Fresh ELSE [r EXCEPT !.failures = 0]
    BY <1>5 DEF Fed, Trips
  <2> QED
    BY <2>1, <1>1, <1>2, <1>5, FreshRow, BreakerAssumption
    DEF BreakerAssumption, Rows, r, Breakers, States
<1>6. CASE o = "neutral"
  <2>1. Fed(r, o) = r
    BY <1>6 DEF Fed, Trips
  <2> QED
    BY <2>1, <1>1, <1>2, <1>6 DEF Rows, r, Breakers, States
<1> QED
  BY <1>3, <1>4, <1>5, <1>6 DEF Outcomes

\* Load makes a breaker that fits its snapshot.
LEMMA AcquiredFits ==
    ASSUME NEW r \in Rows, NEW cool \in BOOLEAN
    PROVE  LET b == CooledDown(r, cool)
           IN  /\ Admits(b) =>
                    \/ r.state = "closed" /\ Acquired(b) = r
                    \/ /\ r.state = "half_open" \/ (r.state = "open" /\ cool)
                       /\ Acquired(b) = [state |-> "half_open", failures |-> r.failures, probe |-> 1]
               /\ ~Admits(b) => b = r /\ r.state = "open"
  BY DEF Rows, CooledDown, Admits, Acquired

\* A row that is merged takes its state and its count from one of the two that were written.
LEMMA MergedIsRow ==
    ASSUME NEW x \in Rows, NEW y \in Rows, NEW z \in Rows
    PROVE  /\ Merged(x, y, z) \in Rows
           /\ Merged(x, y, z).state \in {y.state, z.state}
           /\ Merged(x, y, z).failures \in {y.failures, z.failures}
           /\ Merged(x, x, z) = z
           /\ Merged(x, y, x) = y
           /\ Merged(x, y, z).state = z.state \/ (Merged(x, y, z).state = y.state /\ y.state # x.state)
  BY DEF Merged, Rows
-----------------------------------------------------------------------------
\* Before any call no slot holds a breaker.
LEMMA InitBreakerInv == Init => BreakerInv
<1> SUFFICES ASSUME Init PROVE BreakerInv
  OBVIOUS
<1>1. Fresh \in Breakers
  BY FreshRow DEF Rows, Breakers, States
<1>2. TypeOK
  <2>1. row \in [Domains -> Rows] /\ loaded \in [Slots -> Rows]
    BY FreshRow DEF Init
  <2>2. breaker \in [Slots -> Breakers]
    BY <1>1 DEF Init
  <2>3. failed \in [Domains -> 0..Threshold]
    BY BreakerAssumption DEF Init, BreakerAssumption
  <2>4. /\ cooled \in [Domains -> BOOLEAN]
        /\ place \in [Slots -> {"idle", "calling", "refused"}]
        /\ settled \in BOOLEAN
    BY DEF Init
  <2> QED
    BY <2>1, <2>2, <2>3, <2>4 DEF TypeOK, Breakers, States
<1>3. \A s \in Slots : Acquisition(s)
  BY DEF Init, Acquisition
<1>4. /\ \A d \in Domains : Backed(row[d], d)
      /\ \A s \in Slots : Backed(loaded[s], DomainOf[s])
  BY FreshRow, BreakerAssumption DEF Init, Backed, BreakerAssumption
<1> QED
  BY <1>2, <1>3, <1>4 DEF BreakerInv

\* A case that calls has the count of its snapshot, and is a probe if that was not closed.
LEMMA CallingBreaker ==
    ASSUME BreakerInv, NEW s \in Slots, place[s] = "calling"
    PROVE  /\ breaker[s].failures = loaded[s].failures
           /\ breaker[s].state = "closed" <=> loaded[s].state = "closed"
<1>1. Acquisition(s)
  BY DEF BreakerInv
<1> QED
  BY <1>1 DEF Acquisition

\* What a slot loads is what the row says, cooled down or not.
LEMMA LoadKeeps ==
    ASSUME BreakerInv, NEW s \in Slots, Load(s)
    PROVE  BreakerInv'
<1> DEFINE d == DomainOf[s]
           r == row[d]
           b == CooledDown(r, cooled[d])
<1>1. d \in Domains /\ r \in Rows /\ cooled[d] \in BOOLEAN
  BY BreakerAssumption DEF BreakerAssumption, BreakerInv, TypeOK
<1>2. /\ Admits(b) => \/ r.state = "closed" /\ Acquired(b) = r
                      \/ /\ r.state # "closed"
                         /\ Acquired(b) = [state |-> "half_open", failures |-> r.failures, probe |-> 1]
      /\ ~Admits(b) => b = r /\ r.state = "open"
  BY <1>1, AcquiredFits
<1>3. /\ place[s] = "idle"
      /\ loaded' = [loaded EXCEPT ![s] = r]
      /\ \/ /\ Admits(b) /\ place' = [place EXCEPT ![s] = "calling"]
            /\ breaker' = [breaker EXCEPT ![s] = Acquired(b)]
         \/ /\ ~Admits(b) /\ place' = [place EXCEPT ![s] = "refused"]
            /\ breaker' = [breaker EXCEPT ![s] = b]
      /\ UNCHANGED <<row, cooled, failed, settled>>
  BY DEF Load, RowDomain, rowVars
<1> HIDE DEF r, b
<1>4. Acquired(b) \in Breakers \/ ~Admits(b)
  BY <1>1, <1>2 DEF Rows, Breakers, States
<1>5. b \in Breakers \/ Admits(b)
  BY <1>1, <1>2 DEF Rows, Breakers, States
<1>6. TypeOK'
  BY <1>1, <1>3, <1>4, <1>5 DEF BreakerInv, TypeOK, Breakers, States
<1>7. ASSUME NEW t \in Slots PROVE Acquisition(t)'
  <2>1. CASE t = s
    BY <1>2, <1>3, <2>1 DEF BreakerInv, TypeOK, Acquisition
  <2>2. CASE t # s
    BY <1>3, <2>2 DEF BreakerInv, TypeOK, Acquisition
  <2> QED
    BY <2>1, <2>2
<1>8. Backed(r, d)
  BY <1>1 DEF BreakerInv, r
<1>9. ASSUME NEW t \in Slots PROVE Backed(loaded[t], DomainOf[t])'
  BY <1>3, <1>8 DEF BreakerInv, TypeOK, Backed
<1> QED
  BY <1>3, <1>6, <1>7, <1>9 DEF BreakerInv, Backed

\* Save puts a legal row where one was, and leaves a fresh slot behind.
LEMMA SaveKeeps ==
    ASSUME BreakerInv, NEW s \in Slots, NEW b \in Rows, Save(s, b),
           cooled' \in [Domains -> BOOLEAN], settled' \in BOOLEAN,
           failed' \in [Domains -> 0..Threshold],
           \A d \in Domains : failed'[d] >= failed[d],
           b.failures <= failed'[DomainOf[s]],
           b.state # "closed" => failed'[DomainOf[s]] >= Threshold
    PROVE  BreakerInv'
<1> DEFINE d == DomainOf[s]
           m == Merged(loaded[s], b, row[d])
<1>1. /\ row' = [row EXCEPT ![d] = m]
      /\ place' = [place EXCEPT ![s] = "idle"]
      /\ loaded' = [loaded EXCEPT ![s] = Fresh]
      /\ breaker' = [breaker EXCEPT ![s] = Fresh]
  BY DEF Save, RowDomain
<1>2. d \in Domains /\ loaded[s] \in Rows /\ row[d] \in Rows
  BY BreakerAssumption DEF BreakerAssumption, BreakerInv, TypeOK
<1>3. /\ m \in Rows
      /\ m.state \in {b.state, row[d].state}
      /\ m.failures \in {b.failures, row[d].failures}
  BY <1>2, MergedIsRow
<1> HIDE DEF m
<1>4. Fresh \in Breakers
  BY FreshRow DEF Rows, Breakers, States
<1>5. TypeOK'
  BY <1>1, <1>2, <1>3, <1>4, FreshRow DEF BreakerInv, TypeOK, Breakers, States
<1>6. ASSUME NEW t \in Slots PROVE Acquisition(t)'
  BY <1>1 DEF BreakerInv, TypeOK, Acquisition
<1>7. \A e \in Domains : failed[e] \in 0..Threshold /\ failed'[e] \in 0..Threshold
  BY DEF BreakerInv, TypeOK
<1>8. ASSUME NEW e \in Domains PROVE Backed(row[e], e)'
  <2>1. Backed(row[e], e) /\ row[e].failures \in Nat
    BY DEF BreakerInv, TypeOK, Rows
  <2>2. CASE e = d
    BY <1>1, <1>2, <1>3, <1>7, <2>1, <2>2, BreakerAssumption
    DEF Backed, BreakerInv, TypeOK, BreakerAssumption
  <2>3. CASE e # d
    BY <1>1, <1>7, <2>1, <2>3, BreakerAssumption DEF Backed, BreakerInv, TypeOK, BreakerAssumption
  <2> QED
    BY <2>2, <2>3
<1>9. ASSUME NEW t \in Slots PROVE Backed(loaded[t], DomainOf[t])'
  <2>1. DomainOf[t] \in Domains /\ loaded[t].failures \in Nat /\ Backed(loaded[t], DomainOf[t])
    BY BreakerAssumption DEF BreakerAssumption, BreakerInv, TypeOK, Rows
  <2>2. loaded'[t] \in {loaded[t], Fresh}
    BY <1>1 DEF BreakerInv, TypeOK
  <2> QED
    BY <1>7, <2>1, <2>2, FreshRow, BreakerAssumption DEF Backed, BreakerAssumption
<1> QED
  BY <1>5, <1>6, <1>8, <1>9 DEF BreakerInv

\* A refused slot stores what it loaded.
LEMMA RefuseKeeps ==
    ASSUME BreakerInv, NEW s \in Slots, Refuse(s)
    PROVE  BreakerInv'
<1>1. breaker[s] = loaded[s] /\ loaded[s] \in Rows
  BY DEF BreakerInv, TypeOK, Acquisition, Refuse
<1>2. Backed(loaded[s], DomainOf[s])
  BY DEF BreakerInv
<1>3. /\ Save(s, breaker[s])
      /\ UNCHANGED <<cooled, failed, settled>>
  BY DEF Refuse
<1>4. \A d \in Domains : failed[d] \in 0..Threshold
  BY DEF BreakerInv, TypeOK
<1> QED
  BY <1>1, <1>2, <1>3, <1>4, SaveKeeps, BreakerAssumption DEF Backed, BreakerInv, TypeOK, BreakerAssumption

\* A call that ends stores what its outcome made of the breaker it loaded.
LEMMA EndCallKeeps ==
    ASSUME BreakerInv, NEW s \in Slots, NEW o \in Outcomes, EndCall(s, o)
    PROVE  BreakerInv'
<1> DEFINE d == DomainOf[s]
           b == Released(breaker[s])
           f == Fed(b, o)
<1>1. d \in Domains /\ breaker[s] \in Breakers /\ loaded[s] \in Rows /\ failed[d] \in 0..Threshold
  BY BreakerAssumption DEF BreakerAssumption, BreakerInv, TypeOK, Breakers, States
<1>2. /\ Save(s, f)
      /\ cooled' = [cooled EXCEPT ![d] = @ /\ ~Trips(b, o)]
      /\ failed' = [failed EXCEPT ![d] = IF o = "retryable" /\ @ < Threshold THEN @ + 1 ELSE @]
      /\ settled' = settled
      /\ place[s] = "calling"
  BY DEF EndCall, RowDomain
<1>3. b \in Rows /\ b.state = breaker[s].state /\ b.failures = breaker[s].failures /\ f \in Rows
  BY <1>1, FedIsRow
<1>4. Backed(loaded[s], d)
  BY DEF BreakerInv
<1>5. b.failures <= failed[d] /\ (b.state # "closed" => failed[d] >= Threshold)
  <2>2. /\ breaker[s].failures = loaded[s].failures
        /\ breaker[s].state = "closed" <=> loaded[s].state = "closed"
    BY <1>2, CallingBreaker
  <2> QED
    BY <1>3, <1>4, <2>2 DEF Backed
<1>6. cooled' \in [Domains -> BOOLEAN]
  BY <1>1, <1>2 DEF BreakerInv, TypeOK, Trips
<1>7. /\ failed' \in [Domains -> 0..Threshold]
      /\ \A e \in Domains : failed'[e] >= failed[e]
      /\ failed'[d] = IF o = "retryable" /\ failed[d] < Threshold THEN failed[d] + 1 ELSE failed[d]
  BY <1>1, <1>2, BreakerAssumption DEF BreakerInv, TypeOK, BreakerAssumption
<1>8. f.failures <= failed'[d] /\ (f.state # "closed" => failed'[d] >= Threshold)
  <2> HIDE DEF b
  <2>1. CASE Trips(b, o)
    <3>1. f.failures = 0
      BY <2>1 DEF Fed, Trips
    <3>2. failed'[d] >= Threshold
      BY <1>1, <1>3, <1>5, <1>7, <2>1, BreakerAssumption DEF Trips, Rows, BreakerAssumption
    <3> QED
      BY <1>1, <1>7, <3>1, <3>2, BreakerAssumption DEF BreakerAssumption
  <2>2. CASE o = "retryable" /\ ~Trips(b, o)
    <3>1. f = [b EXCEPT !.failures = @ + 1]
      BY <2>2 DEF Fed, Trips
    <3>2. f.failures = b.failures + 1 /\ f.state = b.state
      BY <3>1, <1>3 DEF Rows
    <3> QED
      BY <1>1, <1>3, <1>5, <1>7, <2>2, <3>2, BreakerAssumption DEF Trips, Rows, BreakerAssumption
  <2>3. CASE o = "ok"
    <3>1. f = IF b.state = "half_open" THEN Fresh ELSE [b EXCEPT !.failures = 0]
      BY <2>3 DEF Fed, Trips
    <3>2. f.failures = 0 /\ f.state \in {"closed", b.state}
      BY <3>1, <1>3, FreshRow DEF Rows
    <3> QED
      BY <1>1, <1>5, <1>7, <3>2, BreakerAssumption DEF BreakerAssumption
  <2>4. CASE o = "neutral"
    <3>1. f = b
      BY <2>4 DEF Fed, Trips
    <3> QED
      BY <1>1, <1>5, <1>7, <2>4, <3>1
  <2> QED
    BY <2>1, <2>2, <2>3, <2>4 DEF Outcomes
<1> HIDE DEF f, b
<1> QED
  BY <1>2, <1>3, <1>6, <1>7, <1>8, SaveKeeps DEF BreakerInv, TypeOK

\* Every step keeps the invariant.
LEMMA StepBreakerInv == BreakerInv /\ [Next]_vars => BreakerInv'
<1> SUFFICES ASSUME BreakerInv, [Next]_vars PROVE BreakerInv'
  OBVIOUS
<1>1. ASSUME NEW s \in Slots, Load(s) PROVE BreakerInv'
  BY <1>1, LoadKeeps
<1>2. ASSUME NEW s \in Slots, Refuse(s) PROVE BreakerInv'
  BY <1>2, RefuseKeeps
<1>3. ASSUME NEW s \in Slots, NEW o \in Outcomes, EndCall(s, o) PROVE BreakerInv'
  BY <1>3, EndCallKeeps
<1>4. ASSUME NEW d \in Domains, CoolDown(d) PROVE BreakerInv'
  BY <1>4 DEF CoolDown, caseVars, BreakerInv, TypeOK, Acquisition, Backed
<1>5. CASE Crash
  BY <1>5, FreshRow, BreakerAssumption
  DEF Crash, rowVars, BreakerInv, TypeOK, Acquisition, Backed, Fresh, Rows, BreakerAssumption
<1>6. CASE Settle
  BY <1>6 DEF Settle, rowVars, caseVars, BreakerInv, TypeOK, Acquisition, Backed
<1>7. CASE UNCHANGED vars
  BY <1>7 DEF vars, BreakerInv, TypeOK, Acquisition, Backed
<1> QED
  BY <1>1, <1>2, <1>3, <1>4, <1>5, <1>6, <1>7 DEF Next

\* The invariant always holds.
LEMMA BreakerInvariant == Spec => []BreakerInv
  BY InitBreakerInv, StepBreakerInv, PTL DEF Spec

\* The stored row is always a legal breaker and never keeps a probe (TypeOK): no case
\* leaves one behind, however loads and saves overlap and whenever the process dies.
THEOREM BreakerTypeCorrect == Spec => []TypeOK
  BY BreakerInvariant, PTL DEF BreakerInv

\* Threshold failures of the domain itself stand behind every breaker that is not closed
\* (OpenedByFailures), for any number of cases that read and write the row unlocked.
THEOREM OpensByItsOwnFailures == Spec => []OpenedByFailures
<1>1. BreakerInv => OpenedByFailures
  BY DEF BreakerInv, Backed, OpenedByFailures
<1> QED
  BY <1>1, BreakerInvariant, PTL
-----------------------------------------------------------------------------
\* A step closes a row only if a probe of that row ends in it.
LEMMA StepClosedByProbe ==
    ASSUME BreakerInv, [Next]_vars, NEW d \in Domains,
           row[d].state # "closed", row'[d].state = "closed"
    PROVE  \E s \in Probes(d) : place'[s] = "idle"
<1>1. CASE row' = row
  BY <1>1
<1>2. ASSUME NEW s \in Slots, Refuse(s) PROVE row' = row
  <2>1. /\ breaker[s] = loaded[s]
        /\ row' = [row EXCEPT ![DomainOf[s]] = Merged(loaded[s], breaker[s], @)]
    BY <1>2 DEF BreakerInv, Acquisition, Refuse, Save, RowDomain
  <2>2. loaded[s] \in Rows /\ DomainOf[s] \in Domains /\ row[DomainOf[s]] \in Rows
    BY BreakerAssumption DEF BreakerAssumption, BreakerInv, TypeOK
  <2>3. Merged(loaded[s], loaded[s], row[DomainOf[s]]) = row[DomainOf[s]]
    BY <2>2, MergedIsRow
  <2> QED
    BY <2>1, <2>2, <2>3 DEF BreakerInv, TypeOK
<1>3. ASSUME NEW s \in Slots, NEW o \in Outcomes, EndCall(s, o)
      PROVE  \E t \in Probes(d) : place'[t] = "idle"
  <2> DEFINE f == Fed(Released(breaker[s]), o)
             m == Merged(loaded[s], f, row[DomainOf[s]])
  <2>1. /\ place[s] = "calling"
        /\ place' = [place EXCEPT ![s] = "idle"]
        /\ row' = [row EXCEPT ![DomainOf[s]] = m]
    BY <1>3 DEF EndCall, Save, RowDomain
  <2>2. /\ breaker[s] \in Breakers /\ loaded[s] \in Rows
        /\ DomainOf[s] \in Domains /\ row[DomainOf[s]] \in Rows
    BY BreakerAssumption DEF BreakerAssumption, BreakerInv, TypeOK, Breakers, States
  <2>3. f \in Rows /\ (f.state = "closed" => breaker[s].state = "closed" \/ breaker[s].state = "half_open")
    BY <2>2, FedIsRow
  <2>4. m.state = row[DomainOf[s]].state \/ (m.state = f.state /\ f.state # loaded[s].state)
    BY <2>2, <2>3, MergedIsRow
  <2> HIDE DEF m, f
  <2>5. DomainOf[s] = d /\ m.state = "closed"
    BY <2>1, <2>2 DEF BreakerInv, TypeOK
  <2>6. f.state = "closed" /\ loaded[s].state # "closed"
    BY <2>4, <2>5
  <2>7. breaker[s].state = "closed" => loaded[s].state = "closed"
    BY <2>1, CallingBreaker
  <2>8. s \in Probes(d)
    BY <2>1, <2>3, <2>5, <2>6, <2>7 DEF Probes
  <2> QED
    BY <2>1, <2>8 DEF BreakerInv, TypeOK
<1> QED
  BY <1>1, <1>2, <1>3 DEF Next, Load, CoolDown, Crash, Settle, vars, rowVars

\* A breaker is closed by its probe alone (ClosedByProbe): the late success of a call from
\* before it opened changes nothing, because the update leaves the state column out.
THEOREM ClosesByItsProbe == Spec => ClosedByProbe
<1>1. BreakerInv /\ [Next]_vars =>
        [\A d \in Domains :
           row[d].state # "closed" /\ row'[d].state = "closed"
              => \E s \in Probes(d) : place'[s] = "idle"]_vars
  BY StepClosedByProbe
<1> QED
  BY <1>1, BreakerInvariant, PTL DEF Spec, ClosedByProbe

\* Both turns of a stored breaker are earned in its own domain (TurnsAreEarned), for any
\* number of overlapping cases and any threshold.
THEOREM TurnsEarned == Spec => TurnsAreEarned
  BY OpensByItsOwnFailures, ClosesByItsProbe, PTL DEF TurnsAreEarned
-----------------------------------------------------------------------------
\* At most one case of the error domain is under way: one active error run per agent, and
\* its bucket of one.
OneAtATime ==
    \A s, t \in Slots : DomainOf[s] = ErrorDomain /\ DomainOf[t] = ErrorDomain => s = t

\* Its snapshot is then never out of date.
Current(s) ==
    /\ place[s] # "idle" => loaded[s] = row[ErrorDomain]
    /\ place[s] = "calling" /\ row[ErrorDomain].state = "open" => cooled[ErrorDomain]

AllCurrent == \A s \in Slots : DomainOf[s] = ErrorDomain => Current(s)

\* The only case of the domain is the probe or there is none.
LEMMA TheProbe ==
    ASSUME OneAtATime, NEW s \in Slots, DomainOf[s] = ErrorDomain
    PROVE  /\ Probes(ErrorDomain) # {} <=> place[s] = "calling" /\ breaker[s].state = "half_open"
           /\ (Probes(ErrorDomain) # {})' <=> place'[s] = "calling" /\ breaker'[s].state = "half_open"
  BY DEF OneAtATime, Probes

\* A step of another domain is no step of the contract.
LEMMA ElsewhereStutters ==
    ASSUME row'[ErrorDomain] = row[ErrorDomain], cooled'[ErrorDomain] = cooled[ErrorDomain],
           \A t \in Slots : DomainOf[t] = ErrorDomain =>
               place'[t] = place[t] /\ loaded'[t] = loaded[t] /\ breaker'[t] = breaker[t],
           AllCurrent
    PROVE  UNCHANGED Contract!contractVars /\ AllCurrent'
<1>1. Probes(ErrorDomain)' = Probes(ErrorDomain)
  BY DEF Probes
<1>2. AllCurrent'
  BY DEF AllCurrent, Current
<1> QED
  BY <1>1, <1>2 DEF Contract!contractVars

\* Where one case runs at a time a load is a step of the contract.
LEMMA LoadRefines ==
    ASSUME BreakerInv, AllCurrent, OneAtATime, NEW s \in Slots, DomainOf[s] = ErrorDomain, Load(s)
    PROVE  [Contract!Next]_(Contract!contractVars) /\ AllCurrent'
<1> DEFINE r == row[ErrorDomain]
           b == CooledDown(r, cooled[ErrorDomain])
<1>1. r \in Rows /\ cooled[ErrorDomain] \in BOOLEAN
  BY BreakerAssumption DEF BreakerAssumption, BreakerInv, TypeOK, ErrorDomain
<1>2. /\ Admits(b) =>
            \/ r.state = "closed" /\ Acquired(b) = r
            \/ /\ r.state = "half_open" \/ (r.state = "open" /\ cooled[ErrorDomain])
               /\ Acquired(b) = [state |-> "half_open", failures |-> r.failures, probe |-> 1]
      /\ ~Admits(b) => b = r /\ r.state = "open"
  BY <1>1, AcquiredFits
<1>3. /\ place[s] = "idle"
      /\ loaded'[s] = r
      /\ \/ Admits(b) /\ place'[s] = "calling" /\ breaker'[s] = Acquired(b)
         \/ ~Admits(b) /\ place'[s] = "refused" /\ breaker'[s] = b
      /\ UNCHANGED <<row, cooled>>
  BY DEF Load, RowDomain, rowVars, BreakerInv, TypeOK
<1> HIDE DEF b
<1>4. AllCurrent'
  BY <1>2, <1>3 DEF AllCurrent, Current, OneAtATime
<1>5. CASE Admits(b) /\ r.state # "closed"
  <2>1. /\ ~(Probes(ErrorDomain) # {}) /\ (Probes(ErrorDomain) # {})'
        /\ r.state = "half_open" \/ (r.state = "open" /\ cooled[ErrorDomain])
    BY <1>2, <1>3, <1>5, TheProbe
  <2>2. Contract!ProbeStarts
    BY <1>3, <2>1 DEF Contract!ProbeStarts
  <2> QED
    BY <1>4, <2>2 DEF Contract!Next
<1>6. CASE ~(Admits(b) /\ r.state # "closed")
  <2>1. ~(Probes(ErrorDomain) # {}) /\ ~(Probes(ErrorDomain) # {})'
    BY <1>2, <1>3, <1>6, TheProbe
  <2> QED
    BY <1>3, <1>4, <2>1 DEF Contract!contractVars
<1> QED
  BY <1>5, <1>6

\* So is a refusal, which writes nothing new.
LEMMA RefuseRefines ==
    ASSUME BreakerInv, AllCurrent, OneAtATime, NEW s \in Slots, DomainOf[s] = ErrorDomain, Refuse(s)
    PROVE  [Contract!Next]_(Contract!contractVars) /\ AllCurrent'
<1>1. /\ place[s] = "refused" /\ place'[s] = "idle"
      /\ row' = [row EXCEPT ![ErrorDomain] = Merged(loaded[s], loaded[s], @)]
      /\ cooled' = cooled
  BY DEF Refuse, Save, RowDomain, BreakerInv, TypeOK, Acquisition
<1>2. loaded[s] \in Rows /\ row[ErrorDomain] \in Rows
  BY BreakerAssumption DEF BreakerAssumption, BreakerInv, TypeOK, ErrorDomain
<1>3. row' = row
  BY <1>1, <1>2, MergedIsRow DEF BreakerInv, TypeOK
<1>4. ~(Probes(ErrorDomain) # {}) /\ ~(Probes(ErrorDomain) # {})'
  BY <1>1, TheProbe
<1>5. AllCurrent'
  BY <1>1, <1>3 DEF AllCurrent, Current, OneAtATime
<1> QED
  BY <1>1, <1>3, <1>4, <1>5 DEF Contract!contractVars

\* What each feedback makes of state and count.
LEMMA FedFields ==
    ASSUME NEW b \in Rows, NEW o \in Outcomes
    PROVE  /\ Trips(b, o) => Fed(b, o).state = "open" /\ Fed(b, o).failures = 0
           /\ o = "retryable" /\ ~Trips(b, o) =>
                Fed(b, o).state = b.state /\ Fed(b, o).failures = b.failures + 1
           /\ o = "ok" => /\ Fed(b, o).failures = 0
                          /\ Fed(b, o).state = IF b.state = "half_open" THEN "closed" ELSE b.state
           /\ o = "neutral" => Fed(b, o) = b
<1>1. CASE Trips(b, o)
  BY <1>1 DEF Fed, Trips
<1>2. CASE o = "retryable" /\ ~Trips(b, o)
  <2>1. Fed(b, o) = [b EXCEPT !.failures = @ + 1]
    BY <1>2 DEF Fed, Trips
  <2> QED
    BY <1>2, <2>1 DEF Rows
<1>3. CASE o = "ok"
  <2>1. Fed(b, o) = IF b.state = "half_open" THEN Fresh ELSE [b EXCEPT !.failures = 0]
    BY <1>3 DEF Fed, Trips
  <2>2. ~Trips(b, o)
    BY <1>3 DEF Trips
  <2> QED
    BY <1>3, <2>1, <2>2, FreshRow DEF Rows
<1>4. CASE o = "neutral"
  BY <1>4 DEF Fed, Trips
<1> QED
  BY <1>1, <1>2, <1>3, <1>4 DEF Outcomes

\* So is the end of a call.
LEMMA EndCallRefines ==
    ASSUME BreakerInv, AllCurrent, OneAtATime, NEW s \in Slots, DomainOf[s] = ErrorDomain,
           NEW o \in Outcomes, EndCall(s, o)
    PROVE  [Contract!Next]_(Contract!contractVars) /\ AllCurrent'
<1> DEFINE r == row[ErrorDomain]
           b == Released(breaker[s])
           f == Fed(b, o)
<1>1. /\ place[s] = "calling" /\ place'[s] = "idle"
      /\ row' = [row EXCEPT ![ErrorDomain] = Merged(loaded[s], f, r)]
      /\ cooled' = [cooled EXCEPT ![ErrorDomain] = @ /\ ~Trips(b, o)]
  BY DEF EndCall, Save, RowDomain, BreakerInv, TypeOK
<1>2. /\ ErrorDomain \in Domains /\ r \in Rows /\ breaker[s] \in Breakers /\ loaded[s] = r
  BY <1>1, BreakerAssumption
  DEF BreakerAssumption, BreakerInv, TypeOK, ErrorDomain, Breakers, States, AllCurrent, Current
<1>3. /\ b \in Rows /\ b.state = breaker[s].state
      /\ b.failures = r.failures /\ (b.state = "closed" <=> r.state = "closed")
      /\ f \in Rows
  BY <1>1, <1>2, FedIsRow, CallingBreaker
<1>4. /\ Trips(b, o) => f.state = "open" /\ f.failures = 0
      /\ o = "retryable" /\ ~Trips(b, o) => f.state = b.state /\ f.failures = b.failures + 1
      /\ o = "ok" => /\ f.failures = 0
                     /\ f.state = IF b.state = "half_open" THEN "closed" ELSE b.state
      /\ o = "neutral" => f = b
  BY <1>3, FedFields
<1> HIDE DEF b, f
<1>5. row'[ErrorDomain] = f
  BY <1>1, <1>2, <1>3, MergedIsRow DEF BreakerInv, TypeOK
<1>6. /\ cooled'[ErrorDomain] = (cooled[ErrorDomain] /\ ~Trips(b, o))
      /\ cooled[ErrorDomain] \in BOOLEAN /\ Trips(b, o) \in BOOLEAN
  BY <1>1, <1>2 DEF BreakerInv, TypeOK, Trips
<1>7. ~Trips(b, o) => cooled'[ErrorDomain] = cooled[ErrorDomain]
  BY <1>6
<1>8. Trips(b, o) => cooled'[ErrorDomain] = FALSE
  BY <1>6
<1>9. ~(Probes(ErrorDomain) # {})'
  BY <1>1, TheProbe
<1>10. AllCurrent'
  BY <1>1 DEF AllCurrent, Current, OneAtATime
<1>11. CASE b.state = "half_open"
  <2>1. Probes(ErrorDomain) # {}
    BY <1>1, <1>3, <1>11, TheProbe
  <2>2. CASE Trips(b, o)
    <3>1. Contract!ProbeFails
      BY <1>4, <1>5, <1>8, <1>9, <2>1, <2>2 DEF Contract!ProbeFails
    <3> QED
      BY <1>10, <3>1 DEF Contract!Next
  <2>3. CASE o = "ok"
    <3>1. ~Trips(b, o)
      BY <2>3 DEF Trips
    <3>2. Contract!ProbeSucceeds
      BY <1>4, <1>5, <1>7, <1>9, <1>11, <2>1, <2>3, <3>1 DEF Contract!ProbeSucceeds
    <3> QED
      BY <1>10, <3>2 DEF Contract!Next
  <2>4. CASE o = "neutral"
    <3>1. ~Trips(b, o)
      BY <2>4 DEF Trips
    <3>2. Contract!ProbeUndecided
      BY <1>3, <1>4, <1>5, <1>7, <1>9, <1>11, <2>1, <2>4, <3>1 DEF Contract!ProbeUndecided
    <3> QED
      BY <1>10, <3>2 DEF Contract!Next
  <2> QED
    BY <1>11, <2>2, <2>3, <2>4 DEF Outcomes, Trips
<1>12. CASE b.state # "half_open"
  <2>1. ~(Probes(ErrorDomain) # {})
    BY <1>3, <1>12, TheProbe
  <2>2. b.state = "closed" /\ r.state = "closed"
    <3>1. Acquisition(s)
      BY DEF BreakerInv
    <3>2. b.state = "closed"
      BY <1>1, <1>3, <1>12, <3>1 DEF Acquisition
    <3> QED
      BY <1>3, <3>2
  <2>3. CASE Trips(b, o)
    <3>1. b.failures + 1 >= Threshold
      BY <2>2, <2>3 DEF Trips
    <3>2. Contract!Opens
      BY <1>3, <1>4, <1>5, <1>8, <1>9, <2>1, <2>2, <2>3, <3>1 DEF Contract!Opens
    <3> QED
      BY <1>10, <3>2 DEF Contract!Next
  <2>4. CASE o = "retryable" /\ ~Trips(b, o)
    <3>1. b.failures + 1 < Threshold
      BY <1>3, <2>4, BreakerAssumption DEF Trips, Rows, BreakerAssumption
    <3>2. Contract!CallFails
      BY <1>3, <1>4, <1>5, <1>7, <1>9, <2>1, <2>2, <2>4, <3>1 DEF Contract!CallFails
    <3> QED
      BY <1>10, <3>2 DEF Contract!Next
  <2>5. CASE o = "ok"
    <3>1. ~Trips(b, o)
      BY <2>5 DEF Trips
    <3>2. Contract!CallSucceeds
      BY <1>4, <1>5, <1>7, <1>9, <2>1, <2>2, <2>5, <3>1 DEF Contract!CallSucceeds
    <3> QED
      BY <1>10, <3>2 DEF Contract!Next
  <2>6. CASE o = "neutral"
    <3>1. ~Trips(b, o)
      BY <2>6 DEF Trips
    <3> QED
      BY <1>3, <1>4, <1>5, <1>7, <1>9, <1>10, <2>1, <2>2, <2>6, <3>1 DEF Contract!contractVars
  <2> QED
    BY <2>3, <2>4, <2>5, <2>6 DEF Outcomes
<1> QED
  BY <1>11, <1>12

\* Every step is a step of the contract, or one of another domain.
LEMMA StepRefines ==
    ASSUME BreakerInv, AllCurrent, OneAtATime, [Next]_vars
    PROVE  [Contract!Next]_(Contract!contractVars) /\ AllCurrent'
<1>1. ASSUME NEW s \in Slots, NEW o \in Outcomes, Load(s) \/ Refuse(s) \/ EndCall(s, o)
      PROVE  [Contract!Next]_(Contract!contractVars) /\ AllCurrent'
  <2>1. CASE DomainOf[s] = ErrorDomain
    BY <1>1, <2>1, LoadRefines, RefuseRefines, EndCallRefines
  <2>2. CASE DomainOf[s] # ErrorDomain
    <3>1. row'[ErrorDomain] = row[ErrorDomain] /\ cooled'[ErrorDomain] = cooled[ErrorDomain]
      BY <1>1, <2>2, BreakerAssumption
      DEF BreakerAssumption, Load, Refuse, EndCall, Save, RowDomain, rowVars, BreakerInv, TypeOK, ErrorDomain
    <3>2. \A t \in Slots : DomainOf[t] = ErrorDomain =>
            place'[t] = place[t] /\ loaded'[t] = loaded[t] /\ breaker'[t] = breaker[t]
      BY <1>1, <2>2 DEF Load, Refuse, EndCall, Save, BreakerInv, TypeOK
    <3> QED
      BY <3>1, <3>2, ElsewhereStutters
  <2> QED
    BY <2>1, <2>2
<1>2. ASSUME NEW d \in Domains, CoolDown(d)
      PROVE  [Contract!Next]_(Contract!contractVars) /\ AllCurrent'
  <2>1. /\ row' = row /\ place' = place /\ loaded' = loaded /\ breaker' = breaker
        /\ cooled' = [cooled EXCEPT ![d] = TRUE]
        /\ row[d].state = "open" /\ ~cooled[d]
    BY <1>2 DEF CoolDown, caseVars
  <2>2. CASE d # ErrorDomain
    <3>1. cooled'[ErrorDomain] = cooled[ErrorDomain]
      BY <2>1, <2>2, BreakerAssumption DEF BreakerAssumption, BreakerInv, TypeOK, ErrorDomain
    <3> QED
      BY <2>1, <3>1, ElsewhereStutters
  <2>3. CASE d = ErrorDomain
    <3>1. cooled'[ErrorDomain] = TRUE
      BY <2>1, <2>3 DEF BreakerInv, TypeOK
    <3>2. Probes(ErrorDomain) = {} /\ Probes(ErrorDomain)' = {}
      BY <2>1, <2>3 DEF Probes, AllCurrent, Current
    <3>3. Contract!CoolsDown
      BY <2>1, <2>3, <3>1, <3>2 DEF Contract!CoolsDown
    <3> QED
      BY <2>1, <3>1, <3>3 DEF Contract!Next, AllCurrent, Current
  <2> QED
    BY <2>2, <2>3
<1>3. CASE Crash
  <2>1. Probes(ErrorDomain)' = {} /\ row' = row /\ cooled' = cooled
    BY <1>3 DEF Crash, rowVars, Probes
  <2>2. AllCurrent'
    BY <1>3 DEF Crash, AllCurrent, Current
  <2>3. CASE Probes(ErrorDomain) = {}
    BY <2>1, <2>2, <2>3 DEF Contract!contractVars
  <2>4. CASE Probes(ErrorDomain) # {}
    <3>1. PICK s \in Slots : DomainOf[s] = ErrorDomain /\ place[s] = "calling" /\ breaker[s].state = "half_open"
      BY <2>4 DEF Probes
    <3>2. loaded[s].state # "closed" /\ loaded[s] = row[ErrorDomain]
      BY <3>1, CallingBreaker DEF AllCurrent, Current
    <3>3. row[ErrorDomain].state \in {"half_open", "open"}
      BY <3>2, BreakerAssumption DEF BreakerAssumption, BreakerInv, TypeOK, Rows, ErrorDomain
    <3>4. Contract!ProbeUndecided
      BY <2>1, <2>4, <3>3 DEF Contract!ProbeUndecided
    <3> QED
      BY <2>2, <3>4 DEF Contract!Next
  <2> QED
    BY <2>3, <2>4
<1>4. CASE Settle \/ UNCHANGED vars
  BY <1>4, ElsewhereStutters DEF Settle, rowVars, caseVars, vars
<1> QED
  BY <1>1, <1>2, <1>3, <1>4 DEF Next, Outcomes

\* Where cases run one at a time, load, call and save amount to an atomic breaker: it opens
\* at the threshold, shuts out until it cooled down, sends one probe and obeys it
\* (ErrorDomainAsPromised).
THEOREM OneAtATimeKeepsContract == OneAtATime => (Spec => ErrorDomainAsPromised)
<1> SUFFICES ASSUME OneAtATime PROVE Spec => ErrorDomainAsPromised
  OBVIOUS
<1>1. Init => Contract!Init /\ AllCurrent
  <2> SUFFICES ASSUME Init PROVE Contract!Init /\ AllCurrent
    OBVIOUS
  <2>1. Probes(ErrorDomain) = {}
    BY DEF Init, Probes
  <2>2. row[ErrorDomain] = Fresh /\ cooled[ErrorDomain] = FALSE
    BY BreakerAssumption DEF BreakerAssumption, Init, ErrorDomain
  <2> QED
    BY <2>1, <2>2, FreshRow DEF Contract!Init, Init, AllCurrent, Current
<1>2. BreakerInv /\ AllCurrent /\ [Next]_vars => [Contract!Next]_(Contract!contractVars) /\ AllCurrent'
  BY StepRefines
<1> QED
  BY <1>1, <1>2, BreakerInvariant, PTL DEF Spec, ErrorDomainAsPromised, Contract!Spec
=============================================================================
