------------------------- MODULE RunAdmissionProofs -------------------------
(* At most MaxActive executing manual runs and one active error run, for any *)
(* number of requests, signals and failures; and the two builders of error   *)
(* runs implement the ledger.                                                *)
EXTENDS RunAdmission, FiniteSetTheorems, TLAPS

\* The row lock of the agent: one session at a time.
Exclusive ==
    /\ \A p, q \in Requests : request[p] = "insert" /\ request[q] = "insert" => p = q
    /\ \A p, q \in Requests : signal[p] = "insert" /\ signal[q] = "insert" => p = q
    /\ \A p, q \in Requests : ~(request[p] = "insert" /\ signal[q] = "insert")
    /\ reconcile = "insert" =>
         \A q \in Requests : request[q] # "insert" /\ signal[q] # "insert"

\* What a session found when it decided to insert still holds: only a session adds runs.
Decided ==
    /\ \A q \in Requests : request[q] = "insert" => Cardinality(ActiveManual) < MaxActive
    /\ \A q \in Requests : signal[q] = "insert" => ActiveError = {}
    /\ reconcile = "insert" => ActiveError = {}

AdmissionInv ==
    /\ TypeOK
    /\ reconcile # "idle" => anchor \in Requests
    /\ Exclusive
    /\ Decided
    /\ ActiveWithinLimit
    /\ OneActiveErrorRun
-----------------------------------------------------------------------------
\* Active runs are finitely many, and so is every set of some of them.
LEMMA ActiveSetsFinite ==
    ASSUME TypeOK
    PROVE  /\ IsFiniteSet(ActiveManual) /\ Cardinality(ActiveManual) \in Nat
           /\ \A S \in SUBSET ActiveManual : /\ Cardinality(S) \in Nat
                                             /\ Cardinality(S) <= Cardinality(ActiveManual)
<1>1. IsFiniteSet(1..Len(runs))
  BY FS_Interval DEF TypeOK
<1>2. ActiveManual \subseteq 1..Len(runs)
  BY DEF ActiveManual, Ids, TypeOK
<1>3. IsFiniteSet(ActiveManual)
  BY <1>1, <1>2, FS_Subset
<1> QED
  BY <1>3, FS_Subset, FS_CardinalityType

\* An inserted manual run is one more executing run, and no error run.
LEMMA ManualInserted ==
    ASSUME TypeOK, NEW q \in Requests, runs' = Append(runs, ManualRun(q, "active"))
    PROVE  /\ runs' \in Seq(Run)
           /\ Cardinality(ActiveManual') = Cardinality(ActiveManual) + 1
           /\ ActiveError' = ActiveError
<1>1. ManualRun(q, "active") \in Run
  BY AdmissionAssumption DEF AdmissionAssumption, ManualRun, Run
<1>2. runs \in Seq(Run) /\ runs' \in Seq(Run)
  BY <1>1 DEF TypeOK
<1>3. /\ Len(runs') = Len(runs) + 1
      /\ \A i \in 1..Len(runs) : runs'[i] = runs[i]
      /\ runs'[Len(runs) + 1] = ManualRun(q, "active")
  BY <1>1, <1>2
<1>4. DOMAIN runs = 1..Len(runs) /\ DOMAIN runs' = 1..(Len(runs) + 1) /\ Len(runs) \in Nat
  BY <1>2, <1>3
<1>5. ManualRun(q, "active").kind = "manual" /\ ManualRun(q, "active").status = "active"
  BY DEF ManualRun
<1>6. ActiveManual' = ActiveManual \cup {Len(runs) + 1} /\ Len(runs) + 1 \notin ActiveManual
  BY <1>3, <1>4, <1>5 DEF ActiveManual, Ids
<1>7. ActiveError' = ActiveError
  BY <1>3, <1>4, <1>5 DEF ActiveError, Ids
<1>8. Cardinality(ActiveManual') = Cardinality(ActiveManual) + 1
  BY <1>6, ActiveSetsFinite, FS_AddElement
<1> QED
  BY <1>2, <1>7, <1>8

\* An inserted error run is the one active error run there is.
LEMMA ErrorInserted ==
    ASSUME TypeOK, NEW q \in Requests, runs' = Append(runs, ErrorRun(q, "active")), ActiveError = {}
    PROVE  /\ runs' \in Seq(Run)
           /\ ActiveManual' = ActiveManual
           /\ OneActiveErrorRun'
<1>1. ErrorRun(q, "active") \in Run
  BY AdmissionAssumption DEF AdmissionAssumption, ErrorRun, Run
<1>2. runs \in Seq(Run) /\ runs' \in Seq(Run)
  BY <1>1 DEF TypeOK
<1>3. /\ Len(runs') = Len(runs) + 1
      /\ \A i \in 1..Len(runs) : runs'[i] = runs[i]
      /\ runs'[Len(runs) + 1] = ErrorRun(q, "active")
  BY <1>1, <1>2
<1>4. DOMAIN runs = 1..Len(runs) /\ DOMAIN runs' = 1..(Len(runs) + 1) /\ Len(runs) \in Nat
  BY <1>2, <1>3
<1>5. ErrorRun(q, "active").kind = "error_regression"
  BY DEF ErrorRun
<1>6. ActiveManual' = ActiveManual
  BY <1>3, <1>4, <1>5 DEF ActiveManual, Ids
<1>7. ActiveError' \subseteq {Len(runs) + 1}
  BY <1>3, <1>4 DEF ActiveError, Ids
<1> QED
  BY <1>2, <1>6, <1>7 DEF OneActiveErrorRun

\* A run that ends is no longer active, and the others are what they were.
LEMMA RunEnded ==
    ASSUME TypeOK, NEW i \in Ids, RunEnds(i)
    PROVE  /\ runs' \in Seq(Run)
           /\ ActiveManual' \subseteq ActiveManual
           /\ ActiveError' \subseteq ActiveError
<1>1. runs \in Seq(Run) /\ i \in 1..Len(runs) /\ runs[i] \in Run
  BY DEF TypeOK, Ids
<1>2. PICK st \in Endings(i) : runs' = [runs EXCEPT ![i].status = st]
  BY DEF RunEnds
<1>3. st # "active" /\ [runs[i] EXCEPT !.status = st] \in Run
  <2>1. CASE runs[i].kind = "manual"
    BY <1>1, <1>2, <2>1 DEF Endings, Run
  <2>2. CASE runs[i].kind # "manual"
    BY <1>1, <1>2, <2>2 DEF Endings, Run
  <2> QED
    BY <2>1, <2>2
<1>4. runs' = [runs EXCEPT ![i] = [runs[i] EXCEPT !.status = st]]
  BY <1>2
<1>5. runs' \in Seq(Run) /\ DOMAIN runs' = DOMAIN runs
  BY <1>1, <1>3, <1>4
<1>6. /\ runs'[i].status = st
      /\ \A j \in Ids : j # i => runs'[j] = runs[j]
  BY <1>1, <1>4 DEF Ids, Run
<1> QED
  BY <1>3, <1>5, <1>6 DEF ActiveManual, ActiveError, Ids
-----------------------------------------------------------------------------
\* The invariant holds before the first request.
LEMMA InitAdmissionInv == Init => AdmissionInv
<1> SUFFICES ASSUME Init PROVE AdmissionInv
  OBVIOUS
<1> USE AdmissionAssumption DEF AdmissionAssumption
<1>1. TypeOK
  <2>1. runs \in Seq(Run)
    BY DEF Init
  <2>2. snapshot \in [Requests -> Nat]
    BY DEF Init
  <2>3. /\ request \in [Requests -> {"new", "begun", "insert", "done"}]
        /\ signal \in [Requests -> {"none", "fired", "insert", "done"}]
    BY DEF Init
  <2>4. /\ reconcile \in {"idle", "picked", "insert"}
        /\ anchor \in Requests \cup {NoAnchor}
    BY DEF Init
  <2>5. runnable \in BOOLEAN
    BY DEF Init
  <2>6. faults \in 0..MaxFaults
    BY DEF Init
  <2> QED
    BY <2>1, <2>2, <2>3, <2>4, <2>5, <2>6 DEF TypeOK
<1>2. ActiveManual = {} /\ ActiveError = {}
  BY DEF Init, ActiveManual, ActiveError, Ids
<1>3. Cardinality(ActiveManual) = 0
  BY <1>2, FS_EmptySet
<1>4. Exclusive /\ Decided
  BY DEF Init, Exclusive, Decided
<1>5. ActiveWithinLimit
  BY <1>3 DEF ActiveWithinLimit
<1>6. OneActiveErrorRun
  BY <1>2 DEF OneActiveErrorRun
<1> QED
  BY <1>1, <1>4, <1>5, <1>6 DEF AdmissionInv, Init

\* A step that leaves the runs alone disturbs only what the sessions know.
LEMMA RunsUntouched ==
    ASSUME AdmissionInv, UNCHANGED runs
    PROVE  /\ ActiveManual' = ActiveManual /\ ActiveError' = ActiveError
           /\ runs' \in Seq(Run)
           /\ ActiveWithinLimit' /\ OneActiveErrorRun'
<1>1. ActiveManual' = ActiveManual /\ ActiveError' = ActiveError
  BY DEF ActiveManual, ActiveError, Ids
<1> QED
  BY <1>1 DEF AdmissionInv, TypeOK, ActiveWithinLimit, OneActiveErrorRun

\* A step of a request keeps it.
LEMMA RequestStepKeeps ==
    ASSUME AdmissionInv, NEW q \in Requests, RequestStep(q)
    PROVE  AdmissionInv'
<1> USE AdmissionAssumption DEF AdmissionAssumption
<1>1. CASE Begin(q)
  <2>1. Cardinality(ActiveManual) \in Nat
    BY ActiveSetsFinite DEF AdmissionInv
  <2>2. TypeOK'
    BY <1>1, <2>1, RunsUntouched DEF Begin, AdmissionInv, TypeOK
  <2>3. Exclusive' /\ Decided'
    BY <1>1, RunsUntouched DEF Begin, AdmissionInv, TypeOK, Exclusive, Decided
  <2> QED
    BY <1>1, <2>2, <2>3, RunsUntouched DEF Begin, AdmissionInv
<1>2. CASE CountActive(q)
  <2>1. TypeOK'
    BY <1>2, RunsUntouched DEF CountActive, AdmissionInv, TypeOK
  <2>2. Exclusive'
    BY <1>2 DEF CountActive, LockFree, AdmissionInv, TypeOK, Exclusive
  <2>3. Decided'
    <3>1. request'[q] = "insert" => Cardinality(ActiveManual) < MaxActive
      BY <1>2 DEF CountActive, LockingCount, AdmissionInv, TypeOK
    <3> QED
      BY <1>2, <3>1, RunsUntouched DEF CountActive, AdmissionInv, TypeOK, Decided
  <2> QED
    BY <1>2, <2>1, <2>2, <2>3, RunsUntouched DEF CountActive, AdmissionInv
<1>3. CASE InsertManual(q)
  <2>1. /\ runs' \in Seq(Run) /\ ActiveError' = ActiveError
        /\ Cardinality(ActiveManual') = Cardinality(ActiveManual) + 1
    BY <1>3, ManualInserted DEF InsertManual, AdmissionInv
  <2>2. Cardinality(ActiveManual) < MaxActive /\ Cardinality(ActiveManual) \in Nat
    BY <1>3, ActiveSetsFinite DEF InsertManual, AdmissionInv, Decided
  <2>3. TypeOK'
    BY <1>3, <2>1 DEF InsertManual, AdmissionInv, TypeOK
  <2>4. Exclusive'
    BY <1>3 DEF InsertManual, AdmissionInv, TypeOK, Exclusive
  <2>5. \A p \in Requests : request'[p] # "insert"
    BY <1>3 DEF InsertManual, AdmissionInv, TypeOK, Exclusive
  <2>6. Decided'
    BY <1>3, <2>1, <2>5 DEF InsertManual, AdmissionInv, Decided
  <2>7. ActiveWithinLimit'
    BY <2>1, <2>2 DEF ActiveWithinLimit
  <2>8. OneActiveErrorRun'
    BY <2>1 DEF AdmissionInv, OneActiveErrorRun
  <2> QED
    BY <1>3, <2>3, <2>4, <2>6, <2>7, <2>8 DEF InsertManual, AdmissionInv
<1> QED
  BY <1>1, <1>2, <1>3 DEF RequestStep

\* A signal of a scored run, and the steps it starts, keep it.
LEMMA SignalStepKeeps ==
    ASSUME AdmissionInv, NEW q \in Requests, FireSignal(q) \/ SignalStep(q)
    PROVE  AdmissionInv'
<1>1. CASE FireSignal(q)
  <2>1. TypeOK'
    BY <1>1, RunsUntouched DEF FireSignal, AdmissionInv, TypeOK
  <2>2. Exclusive' /\ Decided'
    BY <1>1, RunsUntouched DEF FireSignal, AdmissionInv, TypeOK, Exclusive, Decided
  <2> QED
    BY <1>1, <2>1, <2>2, RunsUntouched DEF FireSignal, AdmissionInv
<1>2. CASE DecideSignal(q)
  <2>1. TypeOK'
    BY <1>2, RunsUntouched DEF DecideSignal, AdmissionInv, TypeOK
  <2>2. Exclusive'
    BY <1>2 DEF DecideSignal, LockFree, AdmissionInv, TypeOK, Exclusive
  <2>3. signal'[q] = "insert" => ActiveError = {}
    BY <1>2 DEF DecideSignal, MayBuild, AdmissionInv, TypeOK
  <2>4. Decided'
    BY <1>2, <2>3, RunsUntouched DEF DecideSignal, AdmissionInv, TypeOK, Decided
  <2> QED
    BY <1>2, <2>1, <2>2, <2>4, RunsUntouched DEF DecideSignal, AdmissionInv
<1>3. CASE InsertForSignal(q)
  <2>1. /\ runs' \in Seq(Run) /\ ActiveManual' = ActiveManual /\ OneActiveErrorRun'
    BY <1>3, ErrorInserted DEF InsertForSignal, AdmissionInv, Decided
  <2>2. TypeOK'
    BY <1>3, <2>1 DEF InsertForSignal, AdmissionInv, TypeOK
  <2>3. Exclusive'
    BY <1>3 DEF InsertForSignal, AdmissionInv, TypeOK, Exclusive
  <2>4. reconcile' # "insert" /\ \A p \in Requests : signal'[p] # "insert"
    BY <1>3 DEF InsertForSignal, AdmissionInv, TypeOK, Exclusive
  <2>5. Decided'
    BY <1>3, <2>1, <2>4 DEF InsertForSignal, AdmissionInv, Decided
  <2> QED
    BY <1>3, <2>1, <2>2, <2>3, <2>5 DEF InsertForSignal, AdmissionInv, ActiveWithinLimit
<1> QED
  BY <1>1, <1>2, <1>3 DEF SignalStep

\* A step of the reconciliation keeps it.
LEMMA ReconcileStepKeeps ==
    ASSUME AdmissionInv, ReconcileStep
    PROVE  AdmissionInv'
<1> USE AdmissionAssumption DEF AdmissionAssumption
<1>1. CASE PickVersion
  <2>1. PICK i \in Missing : anchor' = runs[i].by
    BY <1>1 DEF PickVersion
  <2>2. i \in 1..Len(runs) /\ runs \in Seq(Run)
    BY <2>1 DEF Missing, Signals, Ids, AdmissionInv, TypeOK
  <2>3. runs[i] \in Run
    BY <2>2
  <2>4. anchor' \in Requests
    BY <2>1, <2>3 DEF Run
  <2>5. TypeOK'
    BY <1>1, <2>4, RunsUntouched DEF PickVersion, AdmissionInv, TypeOK
  <2>6. Exclusive' /\ Decided'
    BY <1>1, RunsUntouched DEF PickVersion, AdmissionInv, TypeOK, Exclusive, Decided
  <2> QED
    BY <1>1, <2>4, <2>5, <2>6, RunsUntouched DEF PickVersion, AdmissionInv
<1>2. CASE DecideReconcile
  <2>1. TypeOK' /\ (reconcile' # "idle" => anchor' \in Requests)
    BY <1>2, RunsUntouched DEF DecideReconcile, AdmissionInv, TypeOK
  <2>2. Exclusive'
    BY <1>2 DEF DecideReconcile, LockFree, AdmissionInv, TypeOK, Exclusive
  <2>3. reconcile' = "insert" => ActiveError = {}
    BY <1>2 DEF DecideReconcile, MayBuild
  <2>4. Decided'
    BY <1>2, <2>3, RunsUntouched DEF DecideReconcile, AdmissionInv, Decided
  <2> QED
    BY <2>1, <2>2, <2>4, <1>2, RunsUntouched DEF DecideReconcile, AdmissionInv
<1>3. CASE InsertForReconcile
  <2>1. anchor \in Requests
    BY <1>3 DEF InsertForReconcile, AdmissionInv
  <2>2. /\ runs' \in Seq(Run) /\ ActiveManual' = ActiveManual /\ OneActiveErrorRun'
    BY <1>3, <2>1, ErrorInserted DEF InsertForReconcile, AdmissionInv, Decided
  <2>3. TypeOK'
    BY <1>3, <2>2 DEF InsertForReconcile, AdmissionInv, TypeOK
  <2>4. Exclusive'
    BY <1>3 DEF InsertForReconcile, AdmissionInv, TypeOK, Exclusive
  <2>5. \A p \in Requests : signal'[p] # "insert"
    BY <1>3 DEF InsertForReconcile, AdmissionInv, Exclusive
  <2>6. Decided'
    BY <1>3, <2>2, <2>5 DEF InsertForReconcile, AdmissionInv, Decided
  <2> QED
    BY <1>3, <2>2, <2>3, <2>4, <2>6 DEF InsertForReconcile, AdmissionInv, ActiveWithinLimit
<1> QED
  BY <1>1, <1>2, <1>3 DEF ReconcileStep

\* A run that ends keeps it: fewer runs are active.
LEMMA RunEndsKeeps ==
    ASSUME AdmissionInv, NEW i \in Ids, RunEnds(i)
    PROVE  AdmissionInv'
<1>1. /\ runs' \in Seq(Run)
      /\ ActiveManual' \subseteq ActiveManual /\ ActiveError' \subseteq ActiveError
  BY RunEnded DEF AdmissionInv
<1>2. /\ Cardinality(ActiveManual') \in Nat /\ Cardinality(ActiveManual) \in Nat
      /\ Cardinality(ActiveManual') <= Cardinality(ActiveManual)
  BY <1>1, ActiveSetsFinite DEF AdmissionInv
<1>3. TypeOK'
  BY <1>1 DEF RunEnds, AdmissionInv, TypeOK
<1>4. Exclusive'
  BY DEF RunEnds, AdmissionInv, Exclusive
<1>5. ActiveWithinLimit'
  BY <1>2, AdmissionAssumption DEF AdmissionAssumption, AdmissionInv, ActiveWithinLimit
<1>6. OneActiveErrorRun'
  BY <1>1 DEF AdmissionInv, OneActiveErrorRun
<1>7. Decided'
  <2>1. \A q \in Requests : request[q] = "insert" => Cardinality(ActiveManual') < MaxActive
    BY <1>2, AdmissionAssumption DEF AdmissionAssumption, AdmissionInv, Decided
  <2>2. ActiveError = {} => ActiveError' = {}
    BY <1>1
  <2> QED
    BY <2>1, <2>2 DEF RunEnds, AdmissionInv, Decided
<1> QED
  BY <1>3, <1>4, <1>5, <1>6, <1>7 DEF RunEnds, AdmissionInv

\* A failure gives locks up and takes none.
LEMMA FaultKeeps ==
    ASSUME AdmissionInv, Fails \/ Crash
    PROVE  AdmissionInv'
<1> USE AdmissionAssumption DEF AdmissionAssumption
<1>1. ASSUME NEW q \in Requests, RequestFails(q)
      PROVE  AdmissionInv'
  <2>1. TypeOK'
    BY <1>1, RunsUntouched DEF RequestFails, AdmissionInv, TypeOK
  <2>2. Exclusive' /\ Decided'
    BY <1>1, RunsUntouched DEF RequestFails, AdmissionInv, TypeOK, Exclusive, Decided
  <2> QED
    BY <1>1, <2>1, <2>2, RunsUntouched DEF RequestFails, AdmissionInv
<1>2. ASSUME NEW q \in Requests, SignalFails(q)
      PROVE  AdmissionInv'
  <2>1. TypeOK'
    BY <1>2, RunsUntouched DEF SignalFails, AdmissionInv, TypeOK
  <2>2. Exclusive' /\ Decided'
    BY <1>2, RunsUntouched DEF SignalFails, AdmissionInv, TypeOK, Exclusive, Decided
  <2> QED
    BY <1>2, <2>1, <2>2, RunsUntouched DEF SignalFails, AdmissionInv
<1>3. CASE ReconcileFails
  <2>1. TypeOK'
    BY <1>3, RunsUntouched DEF ReconcileFails, AdmissionInv, TypeOK
  <2>2. Exclusive' /\ Decided'
    BY <1>3, RunsUntouched DEF ReconcileFails, AdmissionInv, Exclusive, Decided
  <2> QED
    BY <1>3, <2>1, <2>2, RunsUntouched DEF ReconcileFails, AdmissionInv
<1>4. CASE Crash
  <2>1. /\ \A q \in Requests : request'[q] \in {"new", "done"}
        /\ \A q \in Requests : signal'[q] \in {"none", "done"}
        /\ reconcile' = "idle"
    BY <1>4 DEF Crash
  <2>2. TypeOK'
    BY <1>4, RunsUntouched DEF Crash, AdmissionInv, TypeOK
  <2>3. Exclusive' /\ Decided'
    BY <2>1 DEF Exclusive, Decided
  <2> QED
    BY <1>4, <2>1, <2>2, <2>3, RunsUntouched DEF Crash, AdmissionInv
<1> QED
  BY <1>1, <1>2, <1>3, <1>4 DEF Fails

\* Every step keeps it.
LEMMA StepAdmissionInv ==
    ASSUME AdmissionInv, [Next]_vars
    PROVE  AdmissionInv'
<1>1. CASE \E q \in Requests : RequestStep(q) \/ FireSignal(q) \/ SignalStep(q)
  BY <1>1, RequestStepKeeps, SignalStepKeeps
<1>2. CASE ReconcileStep
  BY <1>2, ReconcileStepKeeps
<1>3. CASE \E i \in Ids : RunEnds(i)
  BY <1>3, RunEndsKeeps
<1>4. CASE CasesActivated \/ UNCHANGED vars
  <2>1. /\ UNCHANGED <<runs, request, snapshot, signal, reconcile, anchor, faults>>
        /\ runnable' \in BOOLEAN
    BY <1>4 DEF CasesActivated, vars, AdmissionInv, TypeOK
  <2>2. TypeOK'
    BY <2>1 DEF AdmissionInv, TypeOK
  <2>3. Exclusive' /\ Decided'
    BY <2>1, RunsUntouched DEF AdmissionInv, Exclusive, Decided
  <2> QED
    BY <2>1, <2>2, <2>3, RunsUntouched DEF AdmissionInv
<1>5. CASE Fails \/ Crash
  BY <1>5, FaultKeeps
<1> QED
  BY <1>1, <1>2, <1>3, <1>4, <1>5 DEF Next

\* The types and the invariant behind both limits always hold.
THEOREM AdmissionInvariant == Spec => []AdmissionInv
<1>1. AdmissionInv /\ [Next]_vars => AdmissionInv'
  BY StepAdmissionInv
<1> QED
  BY InitAdmissionInv, <1>1, PTL DEF Spec

\* Requests, signals, rounds and runs keep their ranges.
THEOREM AdmissionTypeCorrect == Spec => []TypeOK
<1>1. AdmissionInv => TypeOK
  BY DEF AdmissionInv
<1> QED
  BY AdmissionInvariant, <1>1, PTL

\* create_run and rerun_run never let more manual runs of an agent execute than configured.
THEOREM LimitKept == Spec => []ActiveWithinLimit
<1>1. AdmissionInv => ActiveWithinLimit
  BY DEF AdmissionInv
<1> QED
  BY AdmissionInvariant, <1>1, PTL

\* Schedule and reconciliation never have two active error runs of an agent.
THEOREM OneErrorRunAtATime == Spec => []OneActiveErrorRun
<1>1. AdmissionInv => OneActiveErrorRun
  BY DEF AdmissionInv
<1> QED
  BY AdmissionInvariant, <1>1, PTL
-----------------------------------------------------------------------------
(* The refinement of RegressionLedger.                                     *)

\* What a builder found in the ledger when it decided to insert still holds: error runs
\* come from builders only, and no error run is left that could end meanwhile.
FoundBroken ==
    /\ \A q \in Requests : signal[q] = "insert" => Builds(VersionOf[q], q)
    /\ reconcile = "insert" => Builds(VersionOf[anchor], anchor)

Outcome(v) == IF ErrorRunsOf(v) = {} THEN "none" ELSE runs[Newest(ErrorRunsOf(v))].status
Outcomes == [v \in Versions |-> Outcome(v)]

\* A set of naturals has a least element.
LEMMA LeastOf ==
    ASSUME NEW T \in SUBSET Nat, T # {}
    PROVE  \E x \in T : \A y \in T : x <= y
<1>1. PICK x \in T : \A y \in T : ~(<<y, x>> \in OpToRel(<, Nat))
  BY NatLessThanWellFounded, WFMin
<1>2. \A y \in T : ~(y < x)
  BY <1>1 DEF OpToRel
<1> QED
  BY <1>2

\* A version that has error runs has a newest one.
LEMMA NewestIsOne ==
    ASSUME TypeOK, NEW v, ErrorRunsOf(v) # {}
    PROVE  /\ Newest(ErrorRunsOf(v)) \in ErrorRunsOf(v)
           /\ \A j \in ErrorRunsOf(v) : j <= Newest(ErrorRunsOf(v))
<1> DEFINE S == ErrorRunsOf(v)
           T == {Len(runs) - i : i \in S}
<1>1. Len(runs) \in Nat /\ S \subseteq 1..Len(runs)
  BY DEF TypeOK, ErrorRunsOf, Ids
<1>2. T \in SUBSET Nat /\ T # {}
  BY <1>1
<1> HIDE DEF S
<1>3. PICK x \in T : \A y \in T : x <= y
  BY <1>2, LeastOf
<1>4. PICK i \in S : x = Len(runs) - i
  BY <1>3
<1>5. ASSUME NEW j \in S PROVE j <= i
  <2>1. Len(runs) - i <= Len(runs) - j
    BY <1>3, <1>4
  <2>2. i \in Nat /\ j \in Nat
    BY <1>1
  <2> QED
    BY <1>1, <2>1, <2>2
<1>6. \E k \in S : \A j \in S : j <= k
  BY <1>5
<1>7. Newest(S) \in S /\ \A j \in S : j <= Newest(S)
  BY <1>6 DEF Newest
<1> QED
  BY <1>7 DEF S

\* Where the error runs are what they were, the ledger is, and what a builder found.
LEMMA SameErrorRuns ==
    ASSUME \A v : ErrorRunsOf(v)' = ErrorRunsOf(v),
           \A v : \A j \in ErrorRunsOf(v) : runs'[j] = runs[j],
           TypeOK
    PROVE  /\ Outcomes' = Outcomes
           /\ \A v, q : Builds(v, q)' = Builds(v, q)
<1>1. ASSUME NEW v PROVE Outcome(v)' = Outcome(v)
  <2>1. CASE ErrorRunsOf(v) = {}
    BY <2>1 DEF Outcome
  <2>2. CASE ErrorRunsOf(v) # {}
    <3>1. Newest(ErrorRunsOf(v))' = Newest(ErrorRunsOf(v))
      BY DEF Newest
    <3>2. runs'[Newest(ErrorRunsOf(v))] = runs[Newest(ErrorRunsOf(v))]
      BY <2>2, NewestIsOne
    <3> QED
      BY <2>2, <3>1, <3>2 DEF Outcome
  <2> QED
    BY <2>1, <2>2
<1>2. ASSUME NEW v, NEW q PROVE Builds(v, q)' = Builds(v, q)
  <2>1. Newest(ErrorRunsOf(v))' = Newest(ErrorRunsOf(v))
    BY DEF Newest
  <2> QED
    BY <2>1 DEF Builds
<1> QED
  BY <1>1, <1>2 DEF Outcomes

\* A manual run does not show in the ledger.
LEMMA ManualUnseen ==
    ASSUME TypeOK, NEW q \in Requests, runs' = Append(runs, ManualRun(q, "active"))
    PROVE  Outcomes' = Outcomes
<1>1. ManualRun(q, "active") \in Run
  BY AdmissionAssumption DEF AdmissionAssumption, ManualRun, Run
<1>2. /\ DOMAIN runs = 1..Len(runs) /\ DOMAIN runs' = 1..(Len(runs) + 1) /\ Len(runs) \in Nat
      /\ \A i \in 1..Len(runs) : runs'[i] = runs[i]
      /\ runs'[Len(runs) + 1] = ManualRun(q, "active")
  BY <1>1 DEF TypeOK
<1>3. ManualRun(q, "active").kind # "error_regression"
  BY DEF ManualRun
<1>4. \A v : ErrorRunsOf(v)' = ErrorRunsOf(v)
  BY <1>2, <1>3 DEF ErrorRunsOf, Ids
<1>5. \A v : \A j \in ErrorRunsOf(v) : runs'[j] = runs[j]
  BY <1>2 DEF ErrorRunsOf, Ids
<1> QED
  BY <1>4, <1>5, SameErrorRuns

\* An inserted error run is the newest of its version, and of that version only.
LEMMA ErrorShown ==
    ASSUME TypeOK, NEW q \in Requests, runs' = Append(runs, ErrorRun(q, "active"))
    PROVE  Outcomes' = [Outcomes EXCEPT ![VersionOf[q]] = "active"]
<1> DEFINE n == Len(runs) + 1
<1>1. ErrorRun(q, "active") \in Run /\ VersionOf[q] \in Versions
  BY AdmissionAssumption DEF AdmissionAssumption, ErrorRun, Run
<1>2. /\ DOMAIN runs = 1..Len(runs) /\ DOMAIN runs' = 1..n /\ Len(runs) \in Nat
      /\ \A i \in 1..Len(runs) : runs'[i] = runs[i]
      /\ runs'[n] = ErrorRun(q, "active")
      /\ runs' \in Seq(Run)
  BY <1>1 DEF TypeOK
<1>3. /\ runs'[n].kind = "error_regression" /\ runs'[n].version = VersionOf[q]
      /\ runs'[n].status = "active"
  BY <1>2 DEF ErrorRun
<1>4. ErrorRunsOf(VersionOf[q])' = ErrorRunsOf(VersionOf[q]) \cup {n}
  BY <1>2, <1>3 DEF ErrorRunsOf, Ids
<1>5. \A v : v # VersionOf[q] => ErrorRunsOf(v)' = ErrorRunsOf(v)
  BY <1>2, <1>3 DEF ErrorRunsOf, Ids
<1>6. \A v : ErrorRunsOf(v) \subseteq 1..Len(runs)
  BY <1>2 DEF ErrorRunsOf, Ids
<1>7. Outcome(VersionOf[q])' = "active"
  <2>1. \A j \in ErrorRunsOf(VersionOf[q])' : j <= n
    BY <1>2, <1>4, <1>6
  <2>2. \A i \in ErrorRunsOf(VersionOf[q])' :
            (\A j \in ErrorRunsOf(VersionOf[q])' : j <= i) => i = n
    BY <1>2, <1>4, <1>6
  <2>3. Newest(ErrorRunsOf(VersionOf[q])') = n
    BY <1>4, <2>1, <2>2 DEF Newest
  <2>4. ErrorRunsOf(VersionOf[q])' # {}
    BY <1>4
  <2> QED
    BY <1>3, <2>3, <2>4 DEF Outcome, Newest
<1>8. ASSUME NEW v \in Versions, v # VersionOf[q] PROVE Outcome(v)' = Outcome(v)
  <2>1. CASE ErrorRunsOf(v) = {}
    BY <1>5, <1>8, <2>1 DEF Outcome
  <2>2. CASE ErrorRunsOf(v) # {}
    <3>1. Newest(ErrorRunsOf(v))' = Newest(ErrorRunsOf(v))
      BY <1>5, <1>8 DEF Newest
    <3>2. Newest(ErrorRunsOf(v)) \in 1..Len(runs)
      BY <1>6, <2>2, NewestIsOne
    <3>3. ErrorRunsOf(v)' # {}
      BY <1>5, <1>8, <2>2
    <3> QED
      BY <1>2, <2>2, <3>1, <3>2, <3>3 DEF Outcome
  <2> QED
    BY <2>1, <2>2
<1> HIDE DEF n
<1> QED
  BY <1>1, <1>7, <1>8 DEF Outcomes

\* The end of a run that shows in the ledger ends an active entry; with no error run active
\* nothing that a builder looks at changes.
LEMMA EndShown ==
    ASSUME TypeOK, NEW i \in Ids, RunEnds(i)
    PROVE  /\ \/ Outcomes' = Outcomes
              \/ \E v \in Versions : /\ Outcomes[v] = "active"
                                     /\ \E o \in {"judged", "broken"} :
                                          Outcomes' = [Outcomes EXCEPT ![v] = o]
           /\ ActiveError = {} => \A v, q : Builds(v, q)' = Builds(v, q)
<1>1. runs \in Seq(Run) /\ i \in 1..Len(runs) /\ runs[i] \in Run /\ runs[i].status = "active"
  BY DEF TypeOK, Ids, RunEnds
<1>2. PICK st \in Endings(i) : runs' = [runs EXCEPT ![i].status = st]
  BY DEF RunEnds
<1>3. /\ DOMAIN runs' = DOMAIN runs
      /\ \A j \in DOMAIN runs : j # i => runs'[j] = runs[j]
      /\ runs'[i].status = st
      /\ runs'[i].kind = runs[i].kind /\ runs'[i].version = runs[i].version
  BY <1>1, <1>2 DEF Run
<1>4. \A v : ErrorRunsOf(v)' = ErrorRunsOf(v)
  BY <1>1, <1>3 DEF ErrorRunsOf, Ids
<1>5. CASE runs[i].kind = "manual"
  <2>1. \A v : \A j \in ErrorRunsOf(v) : runs'[j] = runs[j]
    BY <1>3, <1>5 DEF ErrorRunsOf, Ids
  <2> QED
    BY <1>4, <2>1, SameErrorRuns
<1>6. CASE runs[i].kind # "manual"
  <2>0. PICK v \in Versions : v = runs[i].version
    BY <1>1 DEF Run
  <2>1. runs[i].kind = "error_regression" /\ st \in {"judged", "broken"}
    BY <1>1, <1>2, <1>6 DEF Run, Endings
  <2>2. i \in ErrorRunsOf(v) /\ i \in ActiveError
    BY <1>1, <2>0, <2>1 DEF ErrorRunsOf, ActiveError, Ids
  <2>3. \A w : Newest(ErrorRunsOf(w))' = Newest(ErrorRunsOf(w))
    BY <1>4 DEF Newest
  <2>4. \A w : ErrorRunsOf(w) # {} /\ Newest(ErrorRunsOf(w)) # i => Outcome(w)' = Outcome(w)
    BY <1>3, <1>4, <2>3, NewestIsOne DEF Outcome, ErrorRunsOf, Ids
  <2>5. \A w : ErrorRunsOf(w) = {} => Outcome(w)' = Outcome(w)
    BY <1>4 DEF Outcome
  <2>6. \A w : ErrorRunsOf(w) # {} /\ Newest(ErrorRunsOf(w)) = i => w = v
    BY <2>0, NewestIsOne DEF ErrorRunsOf
  <2>7. CASE Newest(ErrorRunsOf(v)) = i
    <3>1. Outcome(v) = "active" /\ Outcome(v)' = st
      BY <1>1, <1>3, <1>4, <2>2, <2>3, <2>7 DEF Outcome
    <3>2. \A w : w # v => Outcome(w)' = Outcome(w)
      BY <2>4, <2>5, <2>6
    <3>3. Outcomes[v] = "active" /\ Outcomes' = [Outcomes EXCEPT ![v] = st]
      BY <2>1, <3>1, <3>2 DEF Outcomes
    <3> QED
      BY <2>1, <2>2, <3>3
  <2>8. CASE Newest(ErrorRunsOf(v)) # i
    <3>1. \A w : Outcome(w)' = Outcome(w)
      BY <2>4, <2>5, <2>6, <2>8
    <3> QED
      BY <2>2, <3>1 DEF Outcomes
  <2> QED
    BY <2>7, <2>8
<1> QED
  BY <1>5, <1>6

\* While no error run is active, no entry of the ledger is; and a builder only goes on for a
\* version that has no entry, or a broken one.
LEMMA MayBuildAllows ==
    ASSUME TypeOK, NEW q \in Requests, ActiveError = {}, Builds(VersionOf[q], q)
    PROVE  /\ VersionOf[q] \in Versions
           /\ \A v \in Versions : Outcomes[v] # "active"
           /\ Outcomes[VersionOf[q]] \in {"none", "broken"}
<1>1. VersionOf[q] \in Versions
  BY AdmissionAssumption DEF AdmissionAssumption
<1>2. ASSUME NEW v \in Versions PROVE Outcome(v) # "active"
  <2>1. CASE ErrorRunsOf(v) = {}
    BY <2>1 DEF Outcome
  <2>2. CASE ErrorRunsOf(v) # {}
    <3>1. Newest(ErrorRunsOf(v)) \in ErrorRunsOf(v)
      BY <2>2, NewestIsOne
    <3> QED
      BY <2>2, <3>1 DEF Outcome, ErrorRunsOf, ActiveError
  <2> QED
    BY <2>1, <2>2
<1>3. Outcome(VersionOf[q]) \in {"none", "broken"}
  <2>1. CASE ErrorRunsOf(VersionOf[q]) = {}
    BY <2>1 DEF Outcome
  <2>2. CASE ErrorRunsOf(VersionOf[q]) # {}
    <3>1. Newest(ErrorRunsOf(VersionOf[q])) \in ErrorRunsOf(VersionOf[q])
      BY <2>2, NewestIsOne
    <3> QED
      BY <2>2, <3>1 DEF Outcome, Builds
  <2> QED
    BY <2>1, <2>2
<1> QED
  BY <1>1, <1>2, <1>3 DEF Outcomes

\* A builder's insert is a Build of the ledger.
LEMMA InsertIsBuild ==
    ASSUME TypeOK, NEW q \in Requests, ActiveError = {}, Builds(VersionOf[q], q),
           runs' = Append(runs, ErrorRun(q, "active"))
    PROVE  Ledger!Next
<1>1. /\ VersionOf[q] \in Versions
      /\ \A v \in Versions : Outcomes[v] # "active"
      /\ Outcomes[VersionOf[q]] \in {"none", "broken"}
      /\ Outcomes' = [Outcomes EXCEPT ![VersionOf[q]] = "active"]
  BY MayBuildAllows, ErrorShown
<1>2. Ledger!Build(VersionOf[q])
  BY <1>1 DEF Ledger!Build, Outcomes, Outcome
<1> QED
  BY <1>1, <1>2 DEF Ledger!Next

\* What a step may do to the ledger.
LedgerStep == Ledger!Next \/ Outcomes' = Outcomes

\* Every step keeps what the builders found, and is a step of the ledger or leaves it alone.
LEMMA StepOfLedger ==
    ASSUME AdmissionInv, FoundBroken, [Next]_vars
    PROVE  FoundBroken' /\ LedgerStep
<1> USE DEF LedgerStep
<1>t. TypeOK
  BY DEF AdmissionInv
<1>0. ASSUME UNCHANGED runs
      PROVE  Outcomes' = Outcomes /\ \A v, q : Builds(v, q)' = Builds(v, q)
  BY <1>0, <1>t, SameErrorRuns DEF ErrorRunsOf, Ids
<1>1. ASSUME NEW q \in Requests, Begin(q) \/ CountActive(q) PROVE FoundBroken' /\ LedgerStep
  BY <1>0, <1>1 DEF Begin, CountActive, FoundBroken
<1>2. ASSUME NEW q \in Requests, InsertManual(q) PROVE FoundBroken' /\ LedgerStep
  <2>1. Outcomes' = Outcomes
    BY <1>2, <1>t, ManualUnseen DEF InsertManual
  <2>2. reconcile' # "insert" /\ \A p \in Requests : signal'[p] # "insert"
    BY <1>2 DEF InsertManual, AdmissionInv, Exclusive
  <2> QED
    BY <2>1, <2>2 DEF FoundBroken
<1>3. ASSUME NEW q \in Requests, FireSignal(q) \/ DecideSignal(q) PROVE FoundBroken' /\ LedgerStep
  <2>1. /\ UNCHANGED <<runs, reconcile, anchor>>
        /\ \A p \in Requests : signal'[p] = "insert" =>
              signal[p] = "insert" \/ Builds(VersionOf[p], p)
    BY <1>3, <1>t DEF FireSignal, DecideSignal, MayBuild, TypeOK
  <2> QED
    BY <1>0, <2>1 DEF FoundBroken
<1>4. ASSUME NEW q \in Requests, InsertForSignal(q) PROVE FoundBroken' /\ LedgerStep
  <2>1. Ledger!Next
    BY <1>4, <1>t, InsertIsBuild DEF InsertForSignal, AdmissionInv, Decided, FoundBroken
  <2>2. reconcile' # "insert" /\ \A p \in Requests : signal'[p] # "insert"
    BY <1>4 DEF InsertForSignal, AdmissionInv, TypeOK, Exclusive
  <2> QED
    BY <2>1, <2>2 DEF FoundBroken
<1>5. ASSUME PickVersion \/ DecideReconcile PROVE FoundBroken' /\ LedgerStep
  <2>1. /\ UNCHANGED <<runs, signal>>
        /\ reconcile' = "insert" => UNCHANGED anchor /\ Builds(VersionOf[anchor], anchor)
    BY <1>5 DEF PickVersion, DecideReconcile, MayBuild
  <2> QED
    BY <1>0, <2>1 DEF FoundBroken
<1>6. ASSUME InsertForReconcile PROVE FoundBroken' /\ LedgerStep
  <2>1. Ledger!Next
    BY <1>6, <1>t, InsertIsBuild DEF InsertForReconcile, AdmissionInv, Decided, FoundBroken
  <2>2. reconcile' # "insert" /\ \A p \in Requests : signal'[p] # "insert"
    BY <1>6 DEF InsertForReconcile, AdmissionInv, Exclusive
  <2> QED
    BY <2>1, <2>2 DEF FoundBroken
<1>7. ASSUME NEW i \in Ids, RunEnds(i) PROVE FoundBroken' /\ LedgerStep
  <2>1. /\ \/ Outcomes' = Outcomes
           \/ \E v \in Versions : /\ Outcomes[v] = "active"
                                  /\ \E o \in {"judged", "broken"} :
                                       Outcomes' = [Outcomes EXCEPT ![v] = o]
        /\ ActiveError = {} => \A v, q : Builds(v, q)' = Builds(v, q)
    BY <1>7, <1>t, EndShown
  <2>2. LedgerStep
    BY <2>1 DEF Ledger!Next, Ledger!End, Outcomes, Outcome
  <2>3. FoundBroken'
    BY <1>7, <2>1 DEF RunEnds, AdmissionInv, Decided, FoundBroken
  <2> QED
    BY <2>2, <2>3
<1>8. ASSUME NEW q \in Requests, RequestFails(q) \/ SignalFails(q) PROVE FoundBroken' /\ LedgerStep
  <2>1. /\ UNCHANGED <<runs, reconcile, anchor>>
        /\ \A p \in Requests : signal'[p] = "insert" => signal[p] = "insert"
    BY <1>8, <1>t DEF RequestFails, SignalFails, TypeOK
  <2> QED
    BY <1>0, <2>1 DEF FoundBroken
<1>9. ASSUME ReconcileFails \/ Crash PROVE FoundBroken' /\ LedgerStep
  <2>1. /\ UNCHANGED runs /\ reconcile' = "idle"
        /\ \A p \in Requests : signal'[p] = "insert" => signal[p] = "insert"
    BY <1>9 DEF ReconcileFails, Crash
  <2> QED
    BY <1>0, <2>1 DEF FoundBroken
<1>10. ASSUME CasesActivated \/ UNCHANGED vars PROVE FoundBroken' /\ LedgerStep
  BY <1>0, <1>10 DEF CasesActivated, vars, FoundBroken
<1> QED
  BY <1>1, <1>2, <1>3, <1>4, <1>5, <1>6, <1>7, <1>8, <1>9, <1>10 DEF Next, RequestStep,
     SignalStep, ReconcileStep, Fails

\* The API's schedule and the reconciliation keep the ledger: one regression at a time, and
\* no version is regressed again once it was judged (ImplementsLedger).
THEOREM AdmissionImplementsLedger == Spec => ImplementsLedger
<1>1. Init => Ledger!Init /\ FoundBroken
  <2> SUFFICES ASSUME Init PROVE Ledger!Init /\ FoundBroken
    OBVIOUS
  <2>1. \A v : ErrorRunsOf(v) = {}
    BY DEF Init, ErrorRunsOf, Ids
  <2> QED
    BY <2>1 DEF Init, Ledger!Init, FoundBroken
<1>2. AdmissionInv /\ FoundBroken /\ [Next]_vars =>
          FoundBroken' /\ [Ledger!Next]_([v \in Versions |-> IF ErrorRunsOf(v) = {} THEN "none"
                                            ELSE runs[Newest(ErrorRunsOf(v))].status])
  BY StepOfLedger DEF LedgerStep, Outcomes, Outcome
<1> QED
  BY <1>1, <1>2, AdmissionInvariant, PTL DEF Spec, ImplementsLedger, Ledger!Spec
=============================================================================
