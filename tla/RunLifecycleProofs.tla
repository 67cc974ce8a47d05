------------------------- MODULE RunLifecycleProofs -------------------------
(***************************************************************************)
(* Proofs about RunLifecycle, for every finite set of cases, both kinds of *)
(* run, and any number of faults, cancels and edits.                       *)
(*                                                                         *)
(* NoResurrection needs to know what the orchestrator task may assume      *)
(* about the row when it writes a status without looking (Flow): before    *)
(* the claim the run is pending or was ended from outside, between the     *)
(* claim and the ending it is running or was ended from outside, and all   *)
(* that time nobody is inside score_run.                                   *)
(*                                                                         *)
(* CompletedMeansJudged and ReportIsTrue need to know which rows may still *)
(* be missing: a coroutine is done without a row only if it saw the flag   *)
(* (TaskFlow), so that a run is completed or scored only with a row for    *)
(* every case it planned, and pushed only with one for each, since nobody  *)
(* retires the cases of an error run (ErrorReport, ManualRows); a          *)
(* coroutine or a salvage that comes late finds no gap to write into.      *)
(*                                                                         *)
(* NoSampleAfterReap needs to know that whoever takes the cancel flag down   *)
(* before the scanner is through has closed the client (FlagStops).        *)
(***************************************************************************)
EXTENDS RunLifecycle, FiniteSetTheorems, TLAPS

BeforeClaim == {"load", "reject_disabled", "reject_empty", "claim"}
AfterClaim  == {"dispatch", "skip", "prepare", "probe", "gather", "finish"}

\* What is known of the row at the places where the code does not look at it.
Flow ==
    /\ main \in BeforeClaim => status \in {"pending"} \cup External
    /\ main \in AfterClaim => status \in {"running"} \cup External
    /\ main \in BeforeClaim \cup AfterClaim => scoring = {}
    /\ scan \in {"flag", "finish_error"} => status \in Terminal

FlowInv == TypeOK /\ Flow

\* An error run never comes near scoring, and no coroutine holds an 'error' verdict.
ErrorInv ==
    IsError => /\ ErrorRunDomain
               /\ \A c \in Cases : saving[c] # "error"
               /\ scoring = {}
               /\ main \notin {"score"}
               /\ scan \in {"idle", "flag", "finish_error"}
-----------------------------------------------------------------------------
\* How many rows a result set has, of any verdict or of one, is at most the number of cases.
LEMMA TallyBound ==
    ASSUME NEW res, NEW v
    PROVE  /\ Cardinality(Cases) \in Nat
           /\ Tally(res, v) \in 0..Cardinality(Cases)
           /\ Cardinality(Rows(res)) \in 0..Cardinality(Cases)
<1>1. IsFiniteSet(Cases)
  BY RunAssumption DEF RunAssumption
<1>2. \A T \in SUBSET Cases : Cardinality(T) \in Nat /\ Cardinality(T) <= Cardinality(Cases)
  BY <1>1, FS_Subset, FS_CardinalityType
<1>3. {c \in Cases : res[c] = v} \in SUBSET Cases /\ Rows(res) \in SUBSET Cases
  BY DEF Rows
<1> QED
  BY <1>1, <1>2, <1>3, FS_CardinalityType DEF Tally

\* The three ways of counting rows all yield values the count columns may hold.
LEMMA CountsType ==
    ASSUME NEW res
    PROVE  /\ FinishCounts(res) \in [Verdicts -> 0..Cardinality(Cases)]
           /\ ErrorCounts(res) \in [Verdicts -> 0..Cardinality(Cases)]
           /\ ScoreCounts(res) \in [Verdicts -> 0..Cardinality(Cases)]
           /\ NoCounts \in [Verdicts -> 0..Cardinality(Cases)]
<1>1. /\ Cardinality(Cases) \in Nat
      /\ \A v : Tally(res, v) \in 0..Cardinality(Cases)
  BY TallyBound
<1> QED
  BY <1>1 DEF FinishCounts, ErrorCounts, ScoreCounts, NoCounts

\* Reconciling adds rows of the given verdict and changes none.
LEMMA BackfilledType ==
    ASSUME NEW res \in [Cases -> Verdicts \cup {"none"}], NEW v \in Verdicts
    PROVE  /\ Backfilled(res, v) \in [Cases -> Verdicts \cup {"none"}]
           /\ \A c \in Cases : Backfilled(res, v)[c] \in {res[c], v}
  BY DEF Backfilled

\* Rescoring only yields result sets.
LEMMA RescoredType ==
    ASSUME NEW res, NEW new \in Rescored(res)
    PROVE  new \in [Cases -> Verdicts \cup {"none"}]
  BY DEF Rescored
-----------------------------------------------------------------------------
USE DEF dbVars, timeVars, caseVars, taskVars, memVars, scanVars, outVars, envVars

\* The types hold at the start.
LEMMA InitTypeOK == Init => TypeOK
<1> SUFFICES ASSUME Init PROVE TypeOK
  OBVIOUS
<1>1. Cardinality(Cases) \in Nat /\ NoCounts \in [Verdicts -> 0..Cardinality(Cases)]
  BY TallyBound, CountsType
<1>2. /\ total \in 0..Cardinality(Cases) /\ faults \in 0..MaxFaults
      /\ requests \in 0..MaxRequests
  BY <1>1, RunAssumption DEF Init, RunAssumption
<1>3. /\ counts \in [Verdicts -> 0..Cardinality(Cases)]
      /\ result \in [Cases -> Verdicts \cup {"none"}]
      /\ task \in [Cases -> TaskPlaces]
      /\ calls \in [Cases -> 0..(MaxRetries + 1)]
      /\ saving \in [Cases -> Verdicts \cup {"none"}]
  BY <1>1, RunAssumption DEF RunAssumption, Init, TaskPlaces
<1> QED
  BY <1>2, <1>3 DEF Init, TypeOK, Active, MainPlaces, ScanPlaces

\* The commit of a scoring transaction keeps the ranges of what it writes.
LEMMA ScoreCommitType ==
    ASSUME TypeOK, ScoreCommit
    PROVE  /\ result' \in [Cases -> Verdicts \cup {"none"}]
           /\ counts' \in [Verdicts -> 0..Cardinality(Cases)]
           /\ scored' \in BOOLEAN
           /\ status' \in {"partial_failed", "completed"}
<1>1. ASSUME NEW res \in Rescored(result),
             result' = res,
             counts' = ScoreCounts(res),
             scored' = (Tally(res, "pass") + Tally(res, "fail") > 0),
             status' = IF Tally(res, "error") > 0 THEN "partial_failed" ELSE "completed"
      PROVE  /\ result' \in [Cases -> Verdicts \cup {"none"}]
             /\ counts' \in [Verdicts -> 0..Cardinality(Cases)]
             /\ scored' \in BOOLEAN
             /\ status' \in {"partial_failed", "completed"}
  <2>1. res \in [Cases -> Verdicts \cup {"none"}]
    BY RescoredType
  <2>2. ScoreCounts(res) \in [Verdicts -> 0..Cardinality(Cases)]
    BY CountsType
  <2>3. scored' \in BOOLEAN
    BY <1>1
  <2>4. status' \in {"partial_failed", "completed"}
    BY <1>1
  <2> QED
    BY <1>1, <2>1, <2>2, <2>3, <2>4
<1>2. CASE /\ status' = "partial_failed"
           /\ result' \in PartlyRescored(result)
           /\ UNCHANGED <<counts, scored>>
  BY <1>2 DEF TypeOK, PartlyRescored
<1> QED
  BY <1>1, <1>2 DEF ScoreCommit

\* Both callers of the error run's ending write values the columns may hold.
LEMMA FinishErrorType ==
    ASSUME TypeOK, FinishErrorRegression
    PROVE  /\ result' \in [Cases -> Verdicts \cup {"none"}]
           /\ counts' \in [Verdicts -> 0..Cardinality(Cases)]
           /\ total' \in 0..Cardinality(Cases)
           /\ status' \in Active \cup Terminal
           /\ status \in Terminal => status' \in Terminal
           /\ status' = status \/ status' \in {"cancelled", "partial_failed", "completed"}
<1> DEFINE res == Backfilled(result, "na")
<1>1. res \in [Cases -> Verdicts \cup {"none"}]
  BY BackfilledType DEF TypeOK, Verdicts
<1>2. ErrorCounts(res) \in [Verdicts -> 0..Cardinality(Cases)]
  BY CountsType
<1>3. Cardinality(Rows(res)) \in 0..Cardinality(Cases)
  BY TallyBound
<1>4. ErrorFinishStatus(res) \in {"cancelled", "partial_failed", "completed"}
  BY DEF ErrorFinishStatus
<1>5. /\ result' = res /\ counts' = ErrorCounts(res) /\ total' = Cardinality(Rows(res))
      /\ status' = IF KeepsStatus THEN status ELSE ErrorFinishStatus(res)
  BY DEF FinishErrorRegression
<1> HIDE DEF res
<1> QED
  BY <1>1, <1>2, <1>3, <1>4, <1>5 DEF TypeOK, Active, Terminal
-----------------------------------------------------------------------------
\* Every step keeps every variable in its range.
LEMMA StepTypeOK == TypeOK /\ [Next]_vars => TypeOK'
<1> SUFFICES ASSUME TypeOK, [Next]_vars PROVE TypeOK'
  OBVIOUS
<1>0. {0, Cardinality(Cases)} \subseteq 0..Cardinality(Cases)
  BY TallyBound
<1>1. LoadRun => TypeOK'
  BY <1>0 DEF LoadRun, TypeOK, Active, Terminal, MainPlaces
<1>2. RejectDisabled => TypeOK'
  BY <1>0 DEF RejectDisabled, TypeOK, Active, Terminal, MainPlaces
<1>3. RejectEmpty => TypeOK'
  BY <1>0 DEF RejectEmpty, TypeOK, Active, Terminal, MainPlaces
<1>4. ClaimRun => TypeOK'
  <2>1. SUFFICES ASSUME ClaimRun PROVE TypeOK'
    OBVIOUS
  <2>2. plan \in SUBSET Cases /\ IsFiniteSet(Cases)
    BY RunAssumption DEF RunAssumption, TypeOK
  <2>3. Cardinality(plan) \in 0..Cardinality(Cases)
    BY <2>2, FS_Subset, FS_CardinalityType
  <2>4. status' \in Active \cup Terminal /\ total' \in 0..Cardinality(Cases)
    BY <2>1, <2>3 DEF ClaimRun, TypeOK, Active
  <2>5. leaseExpired' \in BOOLEAN /\ overdue' \in BOOLEAN /\ main' \in MainPlaces
    BY <2>1 DEF ClaimRun, TypeOK, MainPlaces
  <2> QED
    BY <2>1, <2>4, <2>5 DEF ClaimRun, TypeOK
<1>5. FailPrecheck => TypeOK'
  BY <1>0 DEF FailPrecheck, TypeOK, Active, Terminal, MainPlaces
<1>6. MarkErrorSkipped => TypeOK'
  BY <1>0 DEF MarkErrorSkipped, TypeOK, Active, Terminal, MainPlaces
<1>7. Dispatch => TypeOK'
  BY <1>0 DEF Dispatch, TypeOK, Active, Terminal, MainPlaces
<1>8. OpenClient => TypeOK'
  BY <1>0 DEF OpenClient, StartPlanned, TypeOK, Active, Terminal, MainPlaces, TaskPlaces
<1>9. ProbePasses => TypeOK'
  BY <1>0 DEF ProbePasses, StartPlanned, TypeOK, Active, Terminal, MainPlaces, TaskPlaces
<1>10. ProbeFails => TypeOK'
  BY <1>0 DEF ProbeFails, TypeOK, Active, Terminal, MainPlaces
<1>11. GatherDone => TypeOK'
  BY <1>0 DEF GatherDone, TypeOK, Active, Terminal, MainPlaces
<1>12. GatherRaises => TypeOK'
  BY <1>0 DEF GatherRaises, TypeOK, Active, Terminal, MainPlaces
<1>13. FailRun => TypeOK'
  BY <1>0 DEF FailRun, TypeOK, Active, Terminal, MainPlaces
<1>14. Finish => TypeOK'
  <2> DEFINE res == Backfilled(result, "error")
  <2>1. res \in [Cases -> Verdicts \cup {"none"}]
    BY BackfilledType DEF TypeOK, Verdicts
  <2>2. FinishCounts(res) \in [Verdicts -> 0..Cardinality(Cases)]
    BY CountsType
  <2>3. Cardinality(Rows(res)) \in 0..Cardinality(Cases)
    BY TallyBound
  <2>4. FinishStatus(res) \in {"cancelled", "scoring", "partial_failed", "completed"}
    BY DEF FinishStatus
  <2>5. ASSUME Finish
        PROVE  /\ result' = res /\ counts' = FinishCounts(res)
               /\ total' = Cardinality(Rows(res))
               /\ status' = IF KeepsStatus THEN status ELSE FinishStatus(res)
    BY <2>5 DEF Finish
  <2> HIDE DEF res
  <2> QED
    BY <2>1, <2>2, <2>3, <2>4, <2>5 DEF Finish, TypeOK, Active, Terminal, MainPlaces
<1>15. FinishError => TypeOK'
  <2>1. SUFFICES ASSUME FinishError PROVE TypeOK'
    OBVIOUS
  <2>2. FinishErrorRegression
    BY <2>1 DEF FinishError
  <2>3. /\ result' \in [Cases -> Verdicts \cup {"none"}]
        /\ counts' \in [Verdicts -> 0..Cardinality(Cases)]
        /\ total' \in 0..Cardinality(Cases)
        /\ status' \in Active \cup Terminal
    BY <2>2, FinishErrorType
  <2> QED
    BY <2>1, <2>2, <2>3 DEF FinishError, FinishErrorRegression, TypeOK, MainPlaces
<1>16. FireSignal => TypeOK'
  BY <1>0 DEF FireSignal, TypeOK, Active, Terminal, MainPlaces
<1>17. MainRaises => TypeOK'
  BY <1>0 DEF MainRaises, TypeOK, Active, Terminal, MainPlaces
<1>18. FailRunRaises => TypeOK'
  BY <1>0 DEF FailRunRaises, TypeOK, Active, Terminal, MainPlaces
<1>19. ScanRaises => TypeOK'
  BY RunAssumption DEF RunAssumption, ScanRaises, TypeOK, ScanPlaces
<1>20. Reap => TypeOK'
  BY <1>0 DEF Reap, TypeOK, Active, Terminal, MainPlaces, ScanPlaces
<1>21. RaiseFlag => TypeOK'
  BY <1>0 DEF RaiseFlag, TypeOK, Active, Terminal, MainPlaces, ScanPlaces, AfterReap
<1>22. ReapScoring => TypeOK'
  BY <1>0 DEF ReapScoring, TypeOK, Active, Terminal, MainPlaces, ScanPlaces, AfterReap
<1>23. ScannerFinishesError => TypeOK'
  <2>1. SUFFICES ASSUME ScannerFinishesError PROVE TypeOK'
    OBVIOUS
  <2>2. FinishErrorRegression
    BY <2>1 DEF ScannerFinishesError
  <2>3. /\ result' \in [Cases -> Verdicts \cup {"none"}]
        /\ counts' \in [Verdicts -> 0..Cardinality(Cases)]
        /\ total' \in 0..Cardinality(Cases)
        /\ status' \in Active \cup Terminal
    BY <2>2, FinishErrorType
  <2> QED
    BY <2>1, <2>2, <2>3 DEF ScannerFinishesError, FinishErrorRegression, TypeOK, ScanPlaces
<1>24. SalvageReads => TypeOK'
  BY <1>0 DEF SalvageReads, TypeOK, Active, Terminal, MainPlaces, ScanPlaces
<1>25. SalvageBackfills => TypeOK'
  <2>1. SUFFICES ASSUME SalvageBackfills PROVE TypeOK'
    OBVIOUS
  <2>2. result' \in [Cases -> Verdicts \cup {"none"}]
    BY <2>1 DEF SalvageBackfills, TypeOK, Verdicts
  <2> QED
    BY <2>1, <2>2 DEF SalvageBackfills, TypeOK, ScanPlaces
<1>26. SalvageScores => TypeOK'
  <2>1. SUFFICES ASSUME SalvageScores PROVE TypeOK'
    OBVIOUS
  <2>2. ASSUME NEW res \in Rescored(result),
               result' = res,
               counts' = ScoreCounts(res),
               scored' = (Tally(res, "pass") + Tally(res, "fail") > 0)
        PROVE  /\ result' \in [Cases -> Verdicts \cup {"none"}]
               /\ counts' \in [Verdicts -> 0..Cardinality(Cases)]
               /\ scored' \in BOOLEAN
    <3>1. result' \in [Cases -> Verdicts \cup {"none"}]
      BY <2>2, RescoredType
    <3>2. counts' \in [Verdicts -> 0..Cardinality(Cases)]
      BY <2>2, CountsType
    <3>3. scored' \in BOOLEAN
      BY <2>2
    <3> QED
      BY <3>1, <3>2, <3>3
  <2>3. /\ result' \in [Cases -> Verdicts \cup {"none"}]
        /\ counts' \in [Verdicts -> 0..Cardinality(Cases)]
        /\ scored' \in BOOLEAN
    BY <2>1, <2>2 DEF SalvageScores, TypeOK
  <2> QED
    BY <2>1, <2>3 DEF SalvageScores, TypeOK, ScanPlaces
<1>27. JudgeTasksClose => TypeOK'
  BY <1>0 DEF JudgeTasksClose, TypeOK, Active, Terminal, MainPlaces
<1>28. RenewLease => TypeOK'
  BY <1>0 DEF RenewLease, TypeOK, Active, Terminal, MainPlaces
<1>29. HeartbeatEnds => TypeOK'
  BY <1>0 DEF HeartbeatEnds, TypeOK, Active, Terminal, MainPlaces
<1>30. LeaseExpires => TypeOK'
  BY <1>0 DEF LeaseExpires, TypeOK, Active, Terminal, MainPlaces
<1>31. DeadlinePasses => TypeOK'
  BY <1>0 DEF DeadlinePasses, TypeOK, Active, Terminal, MainPlaces
<1>32. CancelRequested => TypeOK'
  BY RunAssumption DEF RunAssumption, CancelRequested, TypeOK
<1>33. CancelCommits => TypeOK'
  BY <1>0 DEF CancelCommits, TypeOK, Active, Terminal, MainPlaces
<1>34. CancelAborts => TypeOK'
  BY <1>0 DEF CancelAborts, TypeOK, Active, Terminal, MainPlaces
<1>35. Crash => TypeOK'
  <2>1. SUFFICES ASSUME Crash PROVE TypeOK'
    OBVIOUS
  <2>2. faults' \in 0..MaxFaults
    BY <2>1, RunAssumption DEF RunAssumption, Crash, TypeOK
  <2>3. /\ task' \in [Cases -> TaskPlaces]
        /\ calls' \in [Cases -> 0..(MaxRetries + 1)]
        /\ saving' \in [Cases -> Verdicts \cup {"none"}]
    BY <2>1, RunAssumption DEF RunAssumption, Crash, TaskPlaces
  <2> QED
    BY <2>1, <2>2, <2>3 DEF Crash, TypeOK, MainPlaces, ScanPlaces
<1>36. ASSUME NEW c \in Cases, StartCase(c) PROVE TypeOK'
  BY <1>36 DEF StartCase, TypeOK, TaskPlaces, Move, OnlyTask
<1>37. ASSUME NEW c \in Cases, AdmitCase(c) PROVE TypeOK'
  BY <1>37 DEF AdmitCase, TypeOK, TaskPlaces, Verdicts, Move, Prepared, NotJudged, OnlyTask
<1>38. ASSUME NEW c \in Cases, BeginSample(c) PROVE TypeOK'
  BY <1>38 DEF BeginSample, TypeOK, TaskPlaces, Move, OnlyTask
<1>39. ASSUME NEW c \in Cases, StopOnCancel(c) PROVE TypeOK'
  BY <1>39 DEF StopOnCancel, TypeOK, TaskPlaces, Move, OnlyTask
<1>40. ASSUME NEW c \in Cases, CallAgent(c) PROVE TypeOK'
  <2>1. calls' \in [Cases -> 0..(MaxRetries + 1)]
    BY <1>40, RunAssumption DEF RunAssumption, CallAgent, TypeOK
  <2> QED
    BY <1>40, <2>1 DEF CallAgent, TypeOK, TaskPlaces, Verdicts, Move, Prepared, NotJudged,
       Judged, OnlyTask
<1>41. ASSUME NEW c \in Cases, SampleEnds(c) PROVE TypeOK'
  <2>1. calls' \in [Cases -> 0..(MaxRetries + 1)]
    BY <1>41, RunAssumption DEF RunAssumption, SampleEnds, TypeOK
  <2> QED
    BY <1>41, <2>1 DEF SampleEnds, TypeOK, TaskPlaces, Verdicts, Move, Prepared, NotJudged,
       Judged, OnlyTask
<1>42. ASSUME NEW c \in Cases, SampleRaises(c) PROVE TypeOK'
  <2>1. calls' \in [Cases -> 0..(MaxRetries + 1)]
    BY <1>42, RunAssumption DEF RunAssumption, SampleRaises, TypeOK
  <2> QED
    BY <1>42, <2>1 DEF SampleRaises, TypeOK, TaskPlaces, Verdicts, Move, Prepared, NotJudged,
       Judged, OnlyTask
<1>43. ASSUME NEW c \in Cases, CheckExisting(c) PROVE TypeOK'
  BY <1>43 DEF CheckExisting, TypeOK, TaskPlaces, Move, OnlyTask
<1>44. ASSUME NEW c \in Cases, InsertResult(c) PROVE TypeOK'
  BY <1>44 DEF InsertResult, TypeOK, TaskPlaces
<1>45. ASSUME NEW a \in Actors, ScoreSkips(a) PROVE TypeOK'
  BY <1>45 DEF ScoreSkips, Returns, TypeOK, MainPlaces
<1>46. ASSUME NEW a \in Actors, ScoreAtOnce(a) PROVE TypeOK'
  <2>1. /\ result' \in [Cases -> Verdicts \cup {"none"}]
        /\ counts' \in [Verdicts -> 0..Cardinality(Cases)]
        /\ scored' \in BOOLEAN
        /\ status' \in {"partial_failed", "completed"}
    BY <1>46, ScoreCommitType DEF ScoreAtOnce
  <2> QED
    BY <2>1, <1>46 DEF ScoreAtOnce, Returns, TypeOK, Active, Terminal, MainPlaces
<1>47. ASSUME NEW a \in Actors, ScoreCreatesTasks(a) PROVE TypeOK'
  BY <1>47 DEF ScoreCreatesTasks, Returns, TypeOK, MainPlaces
<1>48. ASSUME NEW a \in Actors, ScoreEnds(a) PROVE TypeOK'
  <2>1. /\ result' \in [Cases -> Verdicts \cup {"none"}]
        /\ counts' \in [Verdicts -> 0..Cardinality(Cases)]
        /\ scored' \in BOOLEAN
        /\ status' \in {"partial_failed", "completed"}
    BY <1>48, ScoreCommitType DEF ScoreEnds
  <2> QED
    BY <2>1, <1>48 DEF ScoreEnds, Returns, TypeOK, Active, Terminal, MainPlaces
<1>49. ASSUME NEW c \in Cases, EditCase(c) PROVE TypeOK'
  <2>1. requests' \in 0..MaxRequests
    BY <1>49, RunAssumption DEF RunAssumption, EditCase, TypeOK
  <2>2. active' \subseteq Cases
    BY <1>49 DEF EditCase, TypeOK
  <2> QED
    BY <1>49, <2>1, <2>2 DEF EditCase, TypeOK
<1>50. UNCHANGED vars => TypeOK'
  BY DEF vars, TypeOK
<1> QED
  BY <1>1, <1>2, <1>3, <1>4, <1>5, <1>6, <1>7, <1>8, <1>9, <1>10, <1>11, <1>12, <1>13,
     <1>14, <1>15, <1>16, <1>17, <1>18, <1>19, <1>20, <1>21, <1>22, <1>23, <1>24, <1>25,
     <1>26, <1>27, <1>28, <1>29, <1>30, <1>31, <1>32, <1>33, <1>34, <1>35, <1>36, <1>37,
     <1>38, <1>39, <1>40, <1>41, <1>42, <1>43, <1>44, <1>45, <1>46, <1>47, <1>48, <1>49,
     <1>50 DEF Next,
     MainStep, Trouble, CaseStep, ScoreStep, ScanStep, ClockStep, CancelStep

\* Every variable stays in the range of its column or field, whatever Cases, MaxFaults
\* and MaxRequests are (TypeOK).
THEOREM RunTypeCorrect == Spec => []TypeOK
<1>1. Init => TypeOK
  BY InitTypeOK
<1>2. TypeOK /\ [Next]_vars => TypeOK'
  BY StepTypeOK
<1> QED
  BY <1>1, <1>2, PTL DEF Spec
-----------------------------------------------------------------------------
\* A terminal status is left for another terminal one at most.
StaysTerminal == status \in Terminal => status' \in Terminal

\* Every step keeps Flow, and none takes a run back out of the terminal statuses.
LEMMA StepFlow == FlowInv /\ [Next]_vars => Flow' /\ StaysTerminal
<1> SUFFICES ASSUME FlowInv, [Next]_vars PROVE Flow' /\ StaysTerminal
  OBVIOUS
<1> USE DEF Flow, StaysTerminal, Terminal, External, BeforeClaim, AfterClaim
<1>1. LoadRun => Flow' /\ StaysTerminal
  BY DEF LoadRun, FlowInv
<1>2. RejectDisabled => Flow' /\ StaysTerminal
  BY DEF RejectDisabled, FlowInv
<1>3. RejectEmpty => Flow' /\ StaysTerminal
  BY DEF RejectEmpty, FlowInv
<1>4. ClaimRun => Flow' /\ StaysTerminal
  BY DEF ClaimRun, MayClaim, FlowInv
<1>5. FailPrecheck => Flow' /\ StaysTerminal
  BY DEF FailPrecheck, FlowInv
<1>6. MarkErrorSkipped => Flow' /\ StaysTerminal
  BY DEF MarkErrorSkipped, Executing, FlowInv
<1>7. Dispatch => Flow' /\ StaysTerminal
  BY DEF Dispatch, FlowInv
<1>8. OpenClient => Flow' /\ StaysTerminal
  BY DEF OpenClient, FlowInv
<1>9. ProbePasses => Flow' /\ StaysTerminal
  BY DEF ProbePasses, FlowInv
<1>10. ProbeFails => Flow' /\ StaysTerminal
  BY DEF ProbeFails, FlowInv
<1>11. GatherDone => Flow' /\ StaysTerminal
  BY DEF GatherDone, FlowInv
<1>12. GatherRaises => Flow' /\ StaysTerminal
  BY DEF GatherRaises, FlowInv
<1>13. FailRun => Flow' /\ StaysTerminal
  BY DEF FailRun, MayFail, Active, FlowInv
<1>14. Finish => Flow' /\ StaysTerminal
  <2>1. FinishStatus(Backfilled(result, "error")) \in
            {"cancelled", "scoring", "partial_failed", "completed"}
    BY DEF FinishStatus
  <2> QED
    BY <2>1 DEF Finish, KeepsStatus, FlowInv
<1>15. FinishError => Flow' /\ StaysTerminal
  <2> SUFFICES ASSUME FinishError PROVE Flow' /\ StaysTerminal
    OBVIOUS
  <2>1. FinishErrorRegression
    BY DEF FinishError
  <2>2. /\ status \in Terminal => status' \in Terminal
        /\ status' = status \/ status' \in {"cancelled", "partial_failed", "completed"}
    BY <2>1, FinishErrorType DEF FlowInv
  <2> QED
    BY <2>1, <2>2 DEF FinishError, FinishErrorRegression, FlowInv
<1>16. FireSignal => Flow' /\ StaysTerminal
  BY DEF FireSignal, FlowInv
<1>17. MainRaises => Flow' /\ StaysTerminal
  BY DEF MainRaises, FlowInv
<1>18. FailRunRaises => Flow' /\ StaysTerminal
  BY DEF FailRunRaises, FlowInv
<1>19. ScanRaises => Flow' /\ StaysTerminal
  BY DEF ScanRaises, FlowInv
<1>20. Reap => Flow' /\ StaysTerminal
  BY DEF Reap, MayReap, Executing, ScanFree, FlowInv
<1>21. RaiseFlag => Flow' /\ StaysTerminal
  BY DEF RaiseFlag, AfterReap, FlowInv
<1>22. ReapScoring => Flow' /\ StaysTerminal
  BY DEF ReapScoring, AfterReap, ScanFree, FlowInv
<1>23. ScannerFinishesError => Flow' /\ StaysTerminal
  <2> SUFFICES ASSUME ScannerFinishesError PROVE Flow' /\ StaysTerminal
    OBVIOUS
  <2>1. FinishErrorRegression /\ scan = "finish_error"
    BY DEF ScannerFinishesError
  <2>2. status \in Terminal => status' \in Terminal
    BY <2>1, FinishErrorType DEF FlowInv
  <2>3. status \in External => status' = status
    BY <2>1 DEF FinishErrorRegression, KeepsStatus
  <2> QED
    BY <2>1, <2>2, <2>3 DEF ScannerFinishesError, FinishErrorRegression, FlowInv
<1>24. SalvageReads => Flow' /\ StaysTerminal
  BY DEF SalvageReads, FlowInv
<1>25. SalvageBackfills => Flow' /\ StaysTerminal
  BY DEF SalvageBackfills, FlowInv
<1>26. SalvageScores => Flow' /\ StaysTerminal
  BY DEF SalvageScores, FlowInv
<1>27. JudgeTasksClose => Flow' /\ StaysTerminal
  BY DEF JudgeTasksClose, FlowInv
<1>28. RenewLease => Flow' /\ StaysTerminal
  BY DEF RenewLease, FlowInv
<1>29. HeartbeatEnds => Flow' /\ StaysTerminal
  BY DEF HeartbeatEnds, FlowInv
<1>30. LeaseExpires => Flow' /\ StaysTerminal
  BY DEF LeaseExpires, FlowInv
<1>31. DeadlinePasses => Flow' /\ StaysTerminal
  BY DEF DeadlinePasses, FlowInv
<1>32. CancelRequested => Flow' /\ StaysTerminal
  BY DEF CancelRequested, FlowInv
<1>33. CancelCommits => Flow' /\ StaysTerminal
  BY DEF CancelCommits, FlowInv
<1>34. CancelAborts => Flow' /\ StaysTerminal
  BY DEF CancelAborts, FlowInv
<1>35. Crash => Flow' /\ StaysTerminal
  BY DEF Crash, FlowInv
<1>36. ASSUME NEW c \in Cases, StartCase(c) PROVE Flow' /\ StaysTerminal
  BY <1>36 DEF StartCase, OnlyTask, FlowInv
<1>37. ASSUME NEW c \in Cases, AdmitCase(c) PROVE Flow' /\ StaysTerminal
  BY <1>37 DEF AdmitCase, OnlyTask, FlowInv
<1>38. ASSUME NEW c \in Cases, BeginSample(c) PROVE Flow' /\ StaysTerminal
  BY <1>38 DEF BeginSample, OnlyTask, FlowInv
<1>39. ASSUME NEW c \in Cases, StopOnCancel(c) PROVE Flow' /\ StaysTerminal
  BY <1>39 DEF StopOnCancel, OnlyTask, FlowInv
<1>40. ASSUME NEW c \in Cases, CallAgent(c) PROVE Flow' /\ StaysTerminal
  BY <1>40 DEF CallAgent, OnlyTask, FlowInv
<1>41. ASSUME NEW c \in Cases, SampleEnds(c) PROVE Flow' /\ StaysTerminal
  BY <1>41 DEF SampleEnds, OnlyTask, FlowInv
<1>42. ASSUME NEW c \in Cases, SampleRaises(c) PROVE Flow' /\ StaysTerminal
  BY <1>42 DEF SampleRaises, OnlyTask, FlowInv
<1>43. ASSUME NEW c \in Cases, CheckExisting(c) PROVE Flow' /\ StaysTerminal
  BY <1>43 DEF CheckExisting, OnlyTask, FlowInv
<1>44. ASSUME NEW c \in Cases, InsertResult(c) PROVE Flow' /\ StaysTerminal
  BY <1>44 DEF InsertResult, OnlyTask, FlowInv
<1>45. ASSUME NEW a \in Actors, ScoreSkips(a) PROVE Flow' /\ StaysTerminal
  BY <1>45 DEF ScoreSkips, Returns, MayScore, CallsScore, FlowInv
<1>46. ASSUME NEW a \in Actors, ScoreAtOnce(a) PROVE Flow' /\ StaysTerminal
  <2>1. status' \in {"partial_failed", "completed"}
    BY <1>46, ScoreCommitType DEF ScoreAtOnce, FlowInv
  <2> QED
    BY <2>1, <1>46 DEF ScoreAtOnce, Returns, MayScore, CallsScore, FlowInv
<1>47. ASSUME NEW a \in Actors, ScoreCreatesTasks(a) PROVE Flow' /\ StaysTerminal
  BY <1>47 DEF ScoreCreatesTasks, Returns, MayScore, CallsScore, FlowInv
<1>48. ASSUME NEW a \in Actors, ScoreEnds(a) PROVE Flow' /\ StaysTerminal
  <2>1. status' \in {"partial_failed", "completed"}
    BY <1>48, ScoreCommitType DEF ScoreEnds, FlowInv
  <2> QED
    BY <2>1, <1>48 DEF ScoreEnds, Returns, MayScore, CallsScore, FlowInv
<1>49. ASSUME NEW c \in Cases, EditCase(c) PROVE Flow' /\ StaysTerminal
  BY <1>49 DEF EditCase, OnlyTask, FlowInv
<1>50. UNCHANGED vars => Flow' /\ StaysTerminal
  BY DEF vars, FlowInv
<1> QED
  BY <1>1, <1>2, <1>3, <1>4, <1>5, <1>6, <1>7, <1>8, <1>9, <1>10, <1>11, <1>12, <1>13,
     <1>14, <1>15, <1>16, <1>17, <1>18, <1>19, <1>20, <1>21, <1>22, <1>23, <1>24, <1>25,
     <1>26, <1>27, <1>28, <1>29, <1>30, <1>31, <1>32, <1>33, <1>34, <1>35, <1>36, <1>37,
     <1>38, <1>39, <1>40, <1>41, <1>42, <1>43, <1>44, <1>45, <1>46, <1>47, <1>48, <1>49,
     <1>50 DEF Next,
     MainStep, Trouble, CaseStep, ScoreStep, ScanStep, ClockStep, CancelStep

\* The invariant of the flow of states always holds.
LEMMA FlowInductive == Spec => []FlowInv
<1>1. Init => FlowInv
  BY InitTypeOK DEF FlowInv, Init, Flow, BeforeClaim, AfterClaim, External, Terminal
<1>2. FlowInv /\ [Next]_vars => FlowInv'
  BY StepTypeOK, StepFlow DEF FlowInv
<1> QED
  BY <1>1, <1>2, PTL DEF Spec

\* A run that reached a terminal status never runs or is scored again: not by the claim,
\* not by a late ending, not by a second score_run (NoResurrection).
THEOREM TerminalForGood == Spec => NoResurrection
<1>1. FlowInv /\ [Next]_vars => [StaysTerminal]_vars
  BY StepFlow
<1> QED
  BY <1>1, FlowInductive, PTL DEF Spec, NoResurrection, StaysTerminal
-----------------------------------------------------------------------------
\* Every step of an error run keeps ErrorInv.
LEMMA StepErrorInv == TypeOK /\ ErrorInv /\ [Next]_vars => ErrorInv'
<1> SUFFICES ASSUME TypeOK, ErrorInv, [Next]_vars, IsError PROVE ErrorInv'
  BY DEF ErrorInv, IsError
<1> USE DEF ErrorInv, ErrorRunDomain
<1>0. \A c \in Cases : Backfilled(result, "na")[c] # "error"
  BY BackfilledType DEF TypeOK, Verdicts
<1>1. LoadRun => ErrorInv'
  BY DEF LoadRun, TypeOK
<1>2. RejectDisabled => ErrorInv'
  BY DEF RejectDisabled, TypeOK
<1>3. RejectEmpty => ErrorInv'
  BY DEF RejectEmpty, TypeOK
<1>4. ClaimRun => ErrorInv'
  BY DEF ClaimRun, MayClaim, TypeOK
<1>5. FailPrecheck => ErrorInv'
  BY DEF FailPrecheck, TypeOK
<1>6. MarkErrorSkipped => ErrorInv'
  BY DEF MarkErrorSkipped, Executing, TypeOK
<1>7. Dispatch => ErrorInv'
  BY DEF Dispatch, TypeOK
<1>8. OpenClient => ErrorInv'
  BY DEF OpenClient, TypeOK
<1>9. ProbePasses => ErrorInv'
  BY DEF ProbePasses, TypeOK
<1>10. ProbeFails => ErrorInv'
  BY DEF ProbeFails, TypeOK
<1>11. GatherDone => ErrorInv'
  BY DEF GatherDone, TypeOK
<1>12. GatherRaises => ErrorInv'
  BY DEF GatherRaises, TypeOK
<1>13. FailRun => ErrorInv'
  BY DEF FailRun, MayFail, Active, TypeOK
<1>14. Finish => ErrorInv'
  BY DEF Finish, TypeOK
<1>15. FinishError => ErrorInv'
  <2> SUFFICES ASSUME FinishError PROVE ErrorInv'
    OBVIOUS
  <2>1. FinishErrorRegression
    BY DEF FinishError
  <2>2. status' = status \/ status' \in {"cancelled", "partial_failed", "completed"}
    BY <2>1, FinishErrorType
  <2> QED
    BY <1>0, <2>1, <2>2 DEF FinishError, FinishErrorRegression
<1>16. FireSignal => ErrorInv'
  BY DEF FireSignal, TypeOK
<1>17. MainRaises => ErrorInv'
  BY DEF MainRaises, TypeOK
<1>18. FailRunRaises => ErrorInv'
  BY DEF FailRunRaises, TypeOK
<1>19. ScanRaises => ErrorInv'
  BY DEF ScanRaises, TypeOK
<1>20. Reap => ErrorInv'
  BY DEF Reap, MayReap, Executing, ScanFree, TypeOK
<1>21. RaiseFlag => ErrorInv'
  BY DEF RaiseFlag, AfterReap, TypeOK
<1>22. ReapScoring => ErrorInv'
  BY DEF ReapScoring, AfterReap, ScanFree, TypeOK
<1>23. ScannerFinishesError => ErrorInv'
  <2> SUFFICES ASSUME ScannerFinishesError PROVE ErrorInv'
    OBVIOUS
  <2>1. FinishErrorRegression
    BY DEF ScannerFinishesError
  <2>2. status' = status \/ status' \in {"cancelled", "partial_failed", "completed"}
    BY <2>1, FinishErrorType
  <2> QED
    BY <1>0, <2>1, <2>2 DEF ScannerFinishesError, FinishErrorRegression
<1>24. SalvageReads => ErrorInv'
  BY DEF SalvageReads, TypeOK
<1>25. SalvageBackfills => ErrorInv'
  BY DEF SalvageBackfills, TypeOK
<1>26. SalvageScores => ErrorInv'
  BY DEF SalvageScores, TypeOK
<1>27. JudgeTasksClose => ErrorInv'
  BY DEF JudgeTasksClose, TypeOK
<1>28. RenewLease => ErrorInv'
  BY DEF RenewLease, TypeOK
<1>29. HeartbeatEnds => ErrorInv'
  BY DEF HeartbeatEnds, TypeOK
<1>30. LeaseExpires => ErrorInv'
  BY DEF LeaseExpires, TypeOK
<1>31. DeadlinePasses => ErrorInv'
  BY DEF DeadlinePasses, TypeOK
<1>32. CancelRequested => ErrorInv'
  BY DEF CancelRequested, TypeOK
<1>33. CancelCommits => ErrorInv'
  BY DEF CancelCommits, TypeOK
<1>34. CancelAborts => ErrorInv'
  BY DEF CancelAborts, TypeOK
<1>35. Crash => ErrorInv'
  BY DEF Crash, TypeOK
<1>36. ASSUME NEW c \in Cases, StartCase(c) PROVE ErrorInv'
  BY <1>36 DEF StartCase, OnlyTask, TypeOK, Prepared, NotJudged, Judged
<1>37. ASSUME NEW c \in Cases, AdmitCase(c) PROVE ErrorInv'
  BY <1>37 DEF AdmitCase, OnlyTask, TypeOK, Prepared, NotJudged, Judged
<1>38. ASSUME NEW c \in Cases, BeginSample(c) PROVE ErrorInv'
  BY <1>38 DEF BeginSample, OnlyTask, TypeOK, Prepared, NotJudged, Judged
<1>39. ASSUME NEW c \in Cases, StopOnCancel(c) PROVE ErrorInv'
  BY <1>39 DEF StopOnCancel, OnlyTask, TypeOK, Prepared, NotJudged, Judged
<1>40. ASSUME NEW c \in Cases, CallAgent(c) PROVE ErrorInv'
  BY <1>40 DEF CallAgent, OnlyTask, TypeOK, Prepared, NotJudged, Judged
<1>41. ASSUME NEW c \in Cases, SampleEnds(c) PROVE ErrorInv'
  BY <1>41 DEF SampleEnds, OnlyTask, TypeOK, Prepared, NotJudged, Judged
<1>42. ASSUME NEW c \in Cases, SampleRaises(c) PROVE ErrorInv'
  BY <1>42 DEF SampleRaises, OnlyTask, TypeOK, Prepared, NotJudged, Judged
<1>43. ASSUME NEW c \in Cases, CheckExisting(c) PROVE ErrorInv'
  BY <1>43 DEF CheckExisting, OnlyTask, TypeOK, Prepared, NotJudged, Judged
<1>44. ASSUME NEW c \in Cases, InsertResult(c) PROVE ErrorInv'
  BY <1>44 DEF InsertResult, OnlyTask, TypeOK, Prepared, NotJudged, Judged
<1>45. ASSUME NEW a \in Actors, ScoreSkips(a) PROVE ErrorInv'
  BY <1>45 DEF ScoreSkips, Returns, MayScore, CallsScore
<1>46. ASSUME NEW a \in Actors, ScoreAtOnce(a) PROVE ErrorInv'
  BY <1>46 DEF ScoreAtOnce, Returns, MayScore, CallsScore
<1>47. ASSUME NEW a \in Actors, ScoreCreatesTasks(a) PROVE ErrorInv'
  BY <1>47 DEF ScoreCreatesTasks, Returns, MayScore, CallsScore
<1>48. ASSUME NEW a \in Actors, ScoreEnds(a) PROVE ErrorInv'
  BY <1>48 DEF ScoreEnds, Returns, MayScore, CallsScore
<1>49. ASSUME NEW c \in Cases, EditCase(c) PROVE ErrorInv'
  BY <1>49 DEF EditCase, OnlyTask, TypeOK, Prepared, NotJudged, Judged
<1>50. UNCHANGED vars => ErrorInv'
  BY DEF vars
<1> QED
  BY <1>1, <1>2, <1>3, <1>4, <1>5, <1>6, <1>7, <1>8, <1>9, <1>10, <1>11, <1>12, <1>13,
     <1>14, <1>15, <1>16, <1>17, <1>18, <1>19, <1>20, <1>21, <1>22, <1>23, <1>24, <1>25,
     <1>26, <1>27, <1>28, <1>29, <1>30, <1>31, <1>32, <1>33, <1>34, <1>35, <1>36, <1>37,
     <1>38, <1>39, <1>40, <1>41, <1>42, <1>43, <1>44, <1>45, <1>46, <1>47, <1>48, <1>49,
     <1>50 DEF Next,
     MainStep, Trouble, CaseStep, ScoreStep, ScanStep, ClockStep, CancelStep

\* An error regression run holds pass, fail and na rows only, has no score and is never
\* in a scoring status, whichever ending reaches it (ErrorRunDomain).
THEOREM ErrorRunsKeepTheirDomain == Spec => []ErrorRunDomain
<1>1. Init => ErrorInv
  BY DEF Init, ErrorInv, ErrorRunDomain
<1>2. TypeOK /\ ErrorInv /\ [Next]_vars => ErrorInv'
  BY StepErrorInv
<1>3. ErrorInv => ErrorRunDomain
  BY DEF ErrorInv, ErrorRunDomain
<1> QED
  BY <1>1, <1>2, <1>3, RunTypeCorrect, PTL DEF Spec
-----------------------------------------------------------------------------
(* What the rows of a run may lack, and the endings that fill them up.      *)

Planned == Cardinality(plan)

\* The places of the orchestrator task before it starts the first coroutine.
Early == BeforeClaim \cup {"dispatch", "skip", "prepare", "probe"}

CasesIdle == \A c \in Cases : task[c] = "idle"

\* The run was claimed and there is still somebody in the process who works on its cases.
Working == main \in AfterClaim \/ ~CasesIdle

\* A coroutine belongs to a planned case and is started by gather; the planned cases of an
\* error run stay active. A coroutine is done with a row, or because it saw the flag, which stays up unless the run was ended from outside.
TaskFlow ==
    /\ main \in Early => CasesIdle
    /\ \A c \in Cases : task[c] # "idle" => c \in plan
    /\ IsError => plan \subseteq active
    /\ main = "finish" => \A c \in plan : task[c] = "done"
    /\ main \in {"gather", "finish"} =>
          \A c \in plan : task[c] = "done" /\ result[c] = "none"
                             => cancelFlag \/ status \in External
    /\ \A c \in Cases : task[c] \in {"check", "insert"} => saving[c] # "none"

\* Until an error run is pushed its rows belong to planned cases and its total is the
\* number of these. Once it was, it has a row for each as long as anybody works on it, and
\* as many rows as its total demands: a second ending finds no gap. The scanner never ends a run as completed: it does not put the flag down before.
ErrorReport ==
    IsError =>
        /\ ~pushed => /\ Rows(result) \subseteq plan
                      /\ Working => total = Planned
        /\ pushed => /\ status \in Terminal
                     /\ total <= Cardinality(Rows(result))
                     /\ Working => plan \subseteq Rows(result)
                     /\ counts = ErrorCounts(result)
                     /\ total \in {0, Cardinality(Rows(result))}
        /\ main = "load" => plan = {}
        /\ main # "probe"
        /\ scan \in {"flag", "finish_error"} /\ status \notin External => main = "none"
        /\ scan = "finish_error" /\ (main \in BeforeClaim \/ status \notin External)
              => cancelFlag
        /\ status = "completed" => /\ pushed /\ Rows(result) = plan
                                   /\ \A c \in plan : result[c] \in {"pass", "fail"}

\* A manual run is given to scoring, or completed with cases in it, with a row for every
\* planned case only; and while the salvage is about to add error rows it is neither.
ManualRows ==
    ~IsError =>
        /\ ~pushed
        /\ scan # "finish_error"
        /\ main \in BeforeClaim => total = 0
        /\ main \in AfterClaim => total = Planned
        /\ status \in Executing \cup {"timeout"} => scoring = {} /\ main # "score"
        /\ status \in {"scoring", "scoring_failed"} => total <= Cardinality(Rows(result))
        /\ status = "scoring" \/ scoring # {} \/ main = "score" => plan \subseteq Rows(result)
        /\ scan = "backfill" => /\ status \in {"timeout", "cancelled", "partial_failed"}
                                /\ scoring = {}
                                /\ main \notin BeforeClaim \cup {"score"}
        /\ status = "completed" /\ total > 0 =>
                /\ plan \subseteq Rows(result)
                /\ \A c \in Cases : result[c] # "error"

\* How the rows of a result set compare with the planned cases.
LEMMA RowsOf ==
    ASSUME NEW res, plan \subseteq Cases
    PROVE  /\ Rows(res) \subseteq Cases
           /\ Cardinality(Rows(res)) \in Nat /\ Planned \in Nat
           /\ Cardinality(Rows(res)) = 0 <=> Rows(res) = {}
           /\ plan \subseteq Rows(res) => Planned <= Cardinality(Rows(res))
           /\ Rows(res) \subseteq plan /\ Planned <= Cardinality(Rows(res)) => Rows(res) = plan
<1>1. IsFiniteSet(Cases)
  BY RunAssumption DEF RunAssumption
<1>2. Rows(res) \subseteq Cases
  BY DEF Rows
<1>3. IsFiniteSet(Rows(res)) /\ IsFiniteSet(plan)
  BY <1>1, <1>2, FS_Subset
<1>4. Cardinality(Rows(res)) \in Nat /\ Planned \in Nat
  BY <1>3, FS_CardinalityType DEF Planned
<1>5. Cardinality(Rows(res)) = 0 <=> Rows(res) = {}
  BY <1>3, FS_EmptySet
<1>6. plan \subseteq Rows(res) => Planned <= Cardinality(Rows(res))
  BY <1>3, FS_Subset DEF Planned
<1>7. ASSUME Rows(res) \subseteq plan, Planned <= Cardinality(Rows(res)) PROVE Rows(res) = plan
  <2>1. Cardinality(Rows(res)) <= Cardinality(plan)
    BY <1>3, <1>7, FS_Subset
  <2>2. Cardinality(Rows(res)) = Cardinality(plan)
    BY <1>4, <1>7, <2>1 DEF Planned
  <2> QED
    BY <1>3, <1>7, <2>2, FS_Subset
<1> QED
  BY <1>2, <1>4, <1>5, <1>6, <1>7

\* A step that takes no row away leaves at least as many.
LEMMA RowsGrow ==
    ASSUME NEW res, NEW new, \A c \in Cases : res[c] # "none" => new[c] # "none"
    PROVE  /\ Rows(res) \subseteq Rows(new)
           /\ Cardinality(Rows(res)) \in Nat /\ Cardinality(Rows(new)) \in Nat
           /\ Cardinality(Rows(res)) <= Cardinality(Rows(new))
<1>1. Rows(res) \subseteq Rows(new) /\ Rows(new) \subseteq Cases
  BY DEF Rows
<1>2. IsFiniteSet(Rows(new))
  BY <1>1, RunAssumption, FS_Subset DEF RunAssumption
<1> QED
  BY <1>1, <1>2, FS_Subset, FS_CardinalityType

\* A verdict that is counted zero times belongs to no row.
LEMMA TallyZero ==
    ASSUME NEW res, NEW v, ~(Tally(res, v) > 0)
    PROVE  \A c \in Cases : res[c] # v
<1>1. IsFiniteSet({c \in Cases : res[c] = v})
  BY RunAssumption, FS_Subset DEF RunAssumption
<1>2. Cardinality({c \in Cases : res[c] = v}) = 0
  BY <1>1, FS_CardinalityType DEF Tally
<1> QED
  BY <1>1, <1>2, FS_EmptySet

\* The reconciliation adds nothing to a run that has as many rows as it planned;
\* otherwise it gives one to every case that is active. It changes no row.
LEMMA BackfilledRows ==
    ASSUME NEW res \in [Cases -> Verdicts \cup {"none"}], NEW v \in Verdicts,
           total \in Nat, active \subseteq Cases
    PROVE  /\ total <= Cardinality(Rows(res)) => Backfilled(res, v) = res
           /\ Cardinality(Rows(res)) < total => active \subseteq Rows(Backfilled(res, v))
           /\ \A c \in Cases : res[c] # "none" => Backfilled(res, v)[c] = res[c]
<1>1. Backfilled(res, v) \in [Cases -> Verdicts \cup {"none"}]
  BY BackfilledType
<1>2. Cardinality(Rows(res)) \in Nat
  BY TallyBound
<1>3. ASSUME total <= Cardinality(Rows(res)) PROVE Backfilled(res, v) = res
  <2>1. ~(Cardinality(Rows(res)) < total)
    BY <1>2, <1>3
  <2>2. \A c \in Cases : Backfilled(res, v)[c] = res[c]
    BY <2>1 DEF Backfilled
  <2> QED
    BY <1>1, <2>2
<1>4. ASSUME Cardinality(Rows(res)) < total PROVE active \subseteq Rows(Backfilled(res, v))
  <2>1. \A c \in active : Backfilled(res, v)[c] # "none"
    BY <1>4 DEF Backfilled, Verdicts
  <2> QED
    BY <2>1 DEF Rows
<1>5. \A c \in Cases : res[c] # "none" => Backfilled(res, v)[c] = res[c]
  BY DEF Backfilled
<1> QED
  BY <1>3, <1>4, <1>5

\* Rescoring, all the way or half of it, adds no row and takes none away, and makes no
\* error row.
LEMMA RescoredRows ==
    ASSUME NEW res \in [Cases -> Verdicts \cup {"none"}],
           NEW new \in Rescored(res) \cup PartlyRescored(res)
    PROVE  /\ new \in [Cases -> Verdicts \cup {"none"}]
           /\ Rows(new) = Rows(res)
           /\ \A c \in Cases : new[c] = "error" <=> res[c] = "error"
<1>1. \A full \in Rescored(res) : \A c \in Cases : /\ full[c] = "none" <=> res[c] = "none"
                                                   /\ full[c] = "error" <=> res[c] = "error"
  BY DEF Rescored
<1>2. \A c \in Cases : /\ new[c] = "none" <=> res[c] = "none"
                       /\ new[c] = "error" <=> res[c] = "error"
  BY <1>1 DEF PartlyRescored
<1>3. new \in [Cases -> Verdicts \cup {"none"}]
  BY DEF Rescored, PartlyRescored
<1> QED
  BY <1>2, <1>3 DEF Rows
-----------------------------------------------------------------------------
\* Scoring keeps the set of the rows and says completed only of rows that are no errors.
LEMMA ScoringRows ==
    ASSUME TypeOK, ScoreCommit
    PROVE  /\ Rows(result') = Rows(result)
           /\ \A c \in Cases : result'[c] = "error" <=> result[c] = "error"
           /\ status' = "completed" => \A c \in Cases : result'[c] # "error"
           /\ status' \in {"completed", "partial_failed"}
<1>1. result \in [Cases -> Verdicts \cup {"none"}]
  BY DEF TypeOK
<1>2. ASSUME NEW res \in Rescored(result), result' = res,
             status' = IF Tally(res, "error") > 0 THEN "partial_failed" ELSE "completed"
      PROVE  /\ status' = "completed" => \A c \in Cases : result'[c] # "error"
             /\ status' \in {"completed", "partial_failed"}
  BY <1>2, TallyZero
<1>3. result' \in Rescored(result) \cup PartlyRescored(result)
  BY DEF ScoreCommit
<1>4. /\ Rows(result') = Rows(result)
      /\ \A c \in Cases : result'[c] = "error" <=> result[c] = "error"
  BY <1>1, <1>3, RescoredRows
<1> QED
  BY <1>2, <1>4 DEF ScoreCommit

\* Every step keeps what is known of the coroutines.
LEMMA StepTaskFlow == FlowInv /\ TaskFlow /\ [Next]_vars => TaskFlow'
<1> SUFFICES ASSUME TypeOK, Flow, TaskFlow, [Next]_vars PROVE TaskFlow'
  BY DEF FlowInv
<1> USE DEF TaskFlow, Early, CasesIdle, BeforeClaim, External
<1>1. LoadRun => TaskFlow'
  BY DEF LoadRun, TypeOK
<1>2. RejectDisabled => TaskFlow'
  BY DEF RejectDisabled, TypeOK
<1>3. RejectEmpty => TaskFlow'
  BY DEF RejectEmpty, TypeOK
<1>4. ClaimRun => TaskFlow'
  BY DEF ClaimRun, MayClaim, TypeOK
<1>5. FailPrecheck => TaskFlow'
  BY DEF FailPrecheck, TypeOK
<1>6. MarkErrorSkipped => TaskFlow'
  BY DEF MarkErrorSkipped, Executing, TypeOK
<1>7. Dispatch => TaskFlow'
  BY DEF Dispatch, TypeOK
<1>8. OpenClient => TaskFlow'
  BY DEF OpenClient, StartPlanned, TypeOK
<1>9. ProbePasses => TaskFlow'
  BY DEF ProbePasses, StartPlanned, TypeOK
<1>10. ProbeFails => TaskFlow'
  BY DEF ProbeFails, TypeOK
<1>11. GatherDone => TaskFlow'
  BY DEF GatherDone, TypeOK
<1>12. GatherRaises => TaskFlow'
  BY DEF GatherRaises, TypeOK
<1>13. FailRun => TaskFlow'
  BY DEF FailRun, MayFail, Active, TypeOK
<1>14. Finish => TaskFlow'
  <2> SUFFICES ASSUME Finish PROVE TaskFlow'
    OBVIOUS
  <2>1. \A c \in Cases : result'[c] = "none" => result[c] = "none"
    BY BackfilledType DEF Finish, TypeOK, Verdicts
  <2>2. main' \in {"gather", "finish"} => status \in External /\ status' = status
    BY DEF Finish, KeepsStatus, Flow, Terminal, External, AfterClaim
  <2>3. UNCHANGED <<task, saving, plan, active>>
        /\ main' \in {main, "none", "score", "signal"}
    BY DEF Finish
  <2> QED
    BY <2>1, <2>2, <2>3 DEF TypeOK
<1>15. FinishError => TaskFlow'
  <2> SUFFICES ASSUME FinishError PROVE TaskFlow'
    OBVIOUS
  <2>1. \A c \in Cases : result'[c] = "none" => result[c] = "none"
    BY BackfilledType DEF FinishError, FinishErrorRegression, TypeOK, Verdicts
  <2>2. main' \in {"gather", "finish"} => status \in External /\ status' = status
    BY DEF FinishError, FinishErrorRegression, KeepsStatus, Flow, Terminal, External, AfterClaim
  <2>3. UNCHANGED <<task, saving, plan, active>>
        /\ main' \in {main, "none", "score", "signal"}
    BY DEF FinishError, FinishErrorRegression
  <2> QED
    BY <2>1, <2>2, <2>3 DEF TypeOK
<1>16. FireSignal => TaskFlow'
  BY DEF FireSignal, TypeOK
<1>17. MainRaises => TaskFlow'
  BY DEF MainRaises, TypeOK
<1>18. FailRunRaises => TaskFlow'
  BY DEF FailRunRaises, TypeOK
<1>19. ScanRaises => TaskFlow'
  BY DEF ScanRaises, TypeOK
<1>20. Reap => TaskFlow'
  BY DEF Reap, MayReap, Executing, ScanFree, TypeOK
<1>21. RaiseFlag => TaskFlow'
  BY DEF RaiseFlag, AfterReap, TypeOK
<1>22. ReapScoring => TaskFlow'
  BY DEF ReapScoring, AfterReap, ScanFree, TypeOK
<1>23. ScannerFinishesError => TaskFlow'
  <2> SUFFICES ASSUME ScannerFinishesError PROVE TaskFlow'
    OBVIOUS
  <2>1. \A c \in Cases : result'[c] = "none" => result[c] = "none"
    BY BackfilledType DEF ScannerFinishesError, FinishErrorRegression, TypeOK, Verdicts
  <2>2. main' \in {"gather", "finish"} => status \in External /\ status' = status
    BY DEF ScannerFinishesError, FinishErrorRegression, KeepsStatus, Flow, Terminal, External, AfterClaim
  <2>3. UNCHANGED <<task, saving, plan, active>>
        /\ main' \in {main, "none", "score", "signal"}
    BY DEF ScannerFinishesError, FinishErrorRegression
  <2> QED
    BY <2>1, <2>2, <2>3 DEF TypeOK
<1>24. SalvageReads => TaskFlow'
  BY DEF SalvageReads, TypeOK
<1>25. SalvageBackfills => TaskFlow'
  <2> SUFFICES ASSUME SalvageBackfills PROVE TaskFlow'
    OBVIOUS
  <2>1. \A c \in Cases : result'[c] = "none" => result[c] = "none"
    BY DEF SalvageBackfills, TypeOK
  <2> QED
    BY <2>1 DEF SalvageBackfills, TypeOK
<1>26. SalvageScores => TaskFlow'
  <2> SUFFICES ASSUME SalvageScores PROVE TaskFlow'
    OBVIOUS
  <2>1. \A c \in Cases : result'[c] = "none" => result[c] = "none"
    BY RescoredRows DEF SalvageScores, TypeOK, Rows
  <2> QED
    BY <2>1 DEF SalvageScores, TypeOK
<1>27. JudgeTasksClose => TaskFlow'
  BY DEF JudgeTasksClose, TypeOK
<1>28. RenewLease => TaskFlow'
  BY DEF RenewLease, TypeOK
<1>29. HeartbeatEnds => TaskFlow'
  BY DEF HeartbeatEnds, TypeOK
<1>30. LeaseExpires => TaskFlow'
  BY DEF LeaseExpires, TypeOK
<1>31. DeadlinePasses => TaskFlow'
  BY DEF DeadlinePasses, TypeOK
<1>32. CancelRequested => TaskFlow'
  BY DEF CancelRequested, MayCancel, Active, TypeOK
<1>33. CancelCommits => TaskFlow'
  BY DEF CancelCommits, TypeOK
<1>34. CancelAborts => TaskFlow'
  BY DEF CancelAborts, TypeOK
<1>35. Crash => TaskFlow'
  BY DEF Crash, TypeOK
<1>36. ASSUME NEW c \in Cases, StartCase(c) PROVE TaskFlow'
  BY <1>36 DEF StartCase, Move, OnlyTask, TypeOK
<1>37. ASSUME NEW c \in Cases, AdmitCase(c) PROVE TaskFlow'
  BY <1>37 DEF AdmitCase, Move, OnlyTask, Prepared, NotJudged, TypeOK
<1>38. ASSUME NEW c \in Cases, BeginSample(c) PROVE TaskFlow'
  BY <1>38 DEF BeginSample, MaySample, Move, OnlyTask, TypeOK
<1>39. ASSUME NEW c \in Cases, StopOnCancel(c) PROVE TaskFlow'
  BY <1>39 DEF StopOnCancel, MaySample, Move, OnlyTask, TypeOK
<1>40. ASSUME NEW c \in Cases, CallAgent(c) PROVE TaskFlow'
  BY <1>40 DEF CallAgent, Move, OnlyTask, TypeOK
<1>41. ASSUME NEW c \in Cases, SampleEnds(c) PROVE TaskFlow'
  BY <1>41 DEF SampleEnds, Move, OnlyTask, Prepared, NotJudged, Judged, TypeOK
<1>42. ASSUME NEW c \in Cases, SampleRaises(c) PROVE TaskFlow'
  BY <1>42 DEF SampleRaises, Move, OnlyTask, TypeOK
<1>43. ASSUME NEW c \in Cases, CheckExisting(c) PROVE TaskFlow'
  BY <1>43 DEF CheckExisting, Move, OnlyTask, TypeOK
<1>44. ASSUME NEW c \in Cases, InsertResult(c) PROVE TaskFlow'
  <2>1. \A d \in Cases : result'[d] = "none" => result[d] = "none"
    BY <1>44 DEF InsertResult, TypeOK, Verdicts
  <2>2. /\ \A d \in Cases \ {c} : task'[d] = task[d] /\ result'[d] = result[d]
        /\ task'[c] \in {"done", "raised"} /\ (task'[c] = "done" => result'[c] # "none")
    BY <1>44 DEF InsertResult, TypeOK, TaskPlaces
  <2> QED
    BY <1>44, <2>1, <2>2 DEF InsertResult, TypeOK
<1>45. ASSUME NEW a \in Actors, ScoreSkips(a) PROVE TaskFlow'
  BY <1>45 DEF ScoreSkips, Returns, CallsScore, MayScore, TypeOK
<1>46. ASSUME NEW a \in Actors, ScoreAtOnce(a) PROVE TaskFlow'
  <2>1. Rows(result') = Rows(result) /\ \A c \in Cases : result'[c] = "none" => result[c] = "none"
    BY <1>46, ScoringRows DEF ScoreAtOnce, Rows
  <2>2. main \notin BeforeClaim \cup AfterClaim
    BY <1>46 DEF ScoreAtOnce, MayScore, Flow, External, BeforeClaim, AfterClaim
  <2> QED
    BY <1>46, <2>1, <2>2 DEF ScoreAtOnce, Returns, CallsScore, TypeOK, External, BeforeClaim, AfterClaim
<1>47. ASSUME NEW a \in Actors, ScoreCreatesTasks(a) PROVE TaskFlow'
  BY <1>47 DEF ScoreCreatesTasks, Returns, CallsScore, MayScore, TypeOK
<1>48. ASSUME NEW a \in Actors, ScoreEnds(a) PROVE TaskFlow'
  <2>1. Rows(result') = Rows(result) /\ \A c \in Cases : result'[c] = "none" => result[c] = "none"
    BY <1>48, ScoringRows DEF ScoreEnds, Rows
  <2>2. main \notin BeforeClaim \cup AfterClaim
    BY <1>48 DEF ScoreEnds, MayScore, Flow, External, BeforeClaim, AfterClaim
  <2> QED
    BY <1>48, <2>1, <2>2 DEF ScoreEnds, Returns, CallsScore, TypeOK, External, BeforeClaim, AfterClaim
<1>49. ASSUME NEW c \in Cases, EditCase(c) PROVE TaskFlow'
  BY <1>49 DEF EditCase, TypeOK
<1>50. UNCHANGED vars => TaskFlow'
  BY DEF vars, TypeOK
<1> QED
  BY <1>1, <1>2, <1>3, <1>4, <1>5, <1>6, <1>7, <1>8, <1>9, <1>10, <1>11, <1>12, <1>13,
     <1>14, <1>15, <1>16, <1>17, <1>18, <1>19, <1>20, <1>21, <1>22, <1>23, <1>24, <1>25,
     <1>26, <1>27, <1>28, <1>29, <1>30, <1>31, <1>32, <1>33, <1>34, <1>35, <1>36, <1>37,
     <1>38, <1>39, <1>40, <1>41, <1>42, <1>43, <1>44, <1>45, <1>46, <1>47, <1>48, <1>49,
     <1>50 DEF Next,
     MainStep, Trouble, CaseStep, ScoreStep, ScanStep, ClockStep, CancelStep
-----------------------------------------------------------------------------
\* The ending of an error run, from whichever task: it counts what it leaves, leaves no
\* gap while anybody works, says completed of judged rows only, and repeats itself word for
\* word.
LEMMA ErrorEnding ==
    ASSUME TypeOK, Flow, TaskFlow, ErrorInv, ErrorReport, IsError, FinishErrorRegression,
           main = "finish" \/ scan = "finish_error"
    PROVE  /\ total' = Cardinality(Rows(result')) /\ total' \in Nat
           /\ counts' = ErrorCounts(result')
           /\ status' \in Terminal
           /\ status \in External => status' = status
           /\ Working => plan \subseteq Rows(result')
           /\ pushed => result' = result /\ counts' = counts
           /\ status' = "completed" => /\ Rows(result') = plan
                                       /\ \A c \in plan : result'[c] \in {"pass", "fail"}
<1> DEFINE res == Backfilled(result, "na")
<1>1. /\ result' = res /\ total' = Cardinality(Rows(res)) /\ counts' = ErrorCounts(res)
      /\ status' = IF KeepsStatus THEN status ELSE ErrorFinishStatus(res)
  BY DEF FinishErrorRegression
<1>2. /\ result \in [Cases -> Verdicts \cup {"none"}] /\ "na" \in Verdicts
      /\ total \in Nat /\ active \subseteq Cases /\ plan \subseteq Cases
  BY TallyBound DEF TypeOK, Verdicts
<1>3. /\ res \in [Cases -> Verdicts \cup {"none"}]
      /\ \A c \in Cases : res[c] # "error"
  BY <1>2, BackfilledType DEF ErrorInv, ErrorRunDomain
<1>4. /\ total <= Cardinality(Rows(result)) => res = result
      /\ Cardinality(Rows(result)) < total => active \subseteq Rows(res)
  BY <1>2, BackfilledRows
<1> HIDE DEF res
<1>5. Cardinality(Rows(res)) \in Nat /\ Cardinality(Rows(result)) \in Nat /\ Planned \in Nat
  BY <1>2, RowsOf
<1>6. status' \in Terminal /\ (status \in External => status' = status)
  BY <1>1 DEF KeepsStatus, External, Terminal, ErrorFinishStatus
<1>7. pushed => res = result
  BY <1>4 DEF ErrorReport
<1>8. pushed => result' = result /\ counts' = counts
  BY <1>1, <1>7 DEF ErrorReport
<1>9. Working => plan \subseteq Rows(res)
  <2>1. CASE pushed
    BY <1>7, <2>1 DEF ErrorReport
  <2>2. CASE ~pushed /\ Cardinality(Rows(result)) < total
    BY <1>4, <2>2 DEF TaskFlow
  <2>3. CASE ~pushed /\ total <= Cardinality(Rows(result))
    <3>1. Working => Rows(result) = plan
      BY <1>2, <2>3, RowsOf DEF ErrorReport
    <3> QED
      BY <1>4, <2>3, <3>1
  <2> QED
    BY <1>2, <1>5, <2>1, <2>2, <2>3
<1>10. ASSUME status' = "completed"
       PROVE  Rows(res) = plan /\ \A c \in plan : res[c] \in {"pass", "fail"}
  <2>1. status \notin External /\ ~cancelFlag /\ ~(Tally(res, "na") > 0)
    BY <1>1, <1>10 DEF KeepsStatus, External, ErrorFinishStatus
  <2>2. main = "finish"
    BY <2>1 DEF ErrorReport
  <2>3. ~pushed
    BY <2>1, <2>2 DEF ErrorReport, Flow, AfterClaim, External, Terminal
  <2>4. plan \subseteq Rows(result)
    BY <1>2, <2>1, <2>2 DEF TaskFlow, Rows
  <2>5. total = Planned /\ Rows(result) \subseteq plan
    BY <2>2, <2>3 DEF ErrorReport, Working, AfterClaim
  <2>6. res = result
    BY <1>2, <1>4, <2>4, <2>5, RowsOf
  <2>7. \A c \in Cases : res[c] # "na"
    BY <2>1, TallyZero
  <2> QED
    BY <1>2, <1>3, <2>4, <2>5, <2>6, <2>7 DEF Rows, Verdicts
<1> QED
  BY <1>1, <1>5, <1>6, <1>8, <1>9, <1>10

\* No step touches a row of a run that was pushed, nor its counts.
Frozen == pushed => result' = result /\ counts' = counts

\* Every step of an error run keeps what is known of its report, and a report that was
\* pushed.
LEMMA StepErrorReport ==
    FlowInv /\ TaskFlow /\ ErrorInv /\ ErrorReport /\ [Next]_vars
        => ErrorReport' /\ (IsError => Frozen)
<1> SUFFICES ASSUME TypeOK, Flow, TaskFlow, ErrorInv, ErrorReport, [Next]_vars, IsError
             PROVE  ErrorReport' /\ Frozen
  BY DEF ErrorReport, IsError, FlowInv
<1>0. Cardinality(Rows(result)) \in Nat /\ Planned \in Nat
  BY RowsOf DEF TypeOK
<1> USE <1>0 DEF ErrorReport, Frozen
<1>1. LoadRun => ErrorReport' /\ Frozen
  BY DEF LoadRun, TaskFlow, Early, Working, CasesIdle, BeforeClaim, AfterClaim, External, Terminal, Flow, Planned, TypeOK
<1>2. RejectDisabled => ErrorReport' /\ Frozen
  BY DEF RejectDisabled, Working, CasesIdle, BeforeClaim, AfterClaim, External, Terminal, Flow, Planned, TypeOK
<1>3. RejectEmpty => ErrorReport' /\ Frozen
  BY DEF RejectEmpty, TaskFlow, Early, Working, CasesIdle, BeforeClaim, AfterClaim, External, Terminal, Flow, Planned, TypeOK
<1>4. ClaimRun => ErrorReport' /\ Frozen
  BY DEF ClaimRun, MayClaim, Working, CasesIdle, BeforeClaim, AfterClaim, External, Terminal, Flow, Planned, TypeOK
<1>5. FailPrecheck => ErrorReport' /\ Frozen
  BY DEF FailPrecheck, Working, CasesIdle, BeforeClaim, AfterClaim, External, Terminal, Flow, Planned, TypeOK
<1>6. MarkErrorSkipped => ErrorReport' /\ Frozen
  BY DEF MarkErrorSkipped, Executing, TaskFlow, Early, Working, CasesIdle, BeforeClaim, AfterClaim, External, Terminal, Flow, Planned, TypeOK
<1>7. Dispatch => ErrorReport' /\ Frozen
  BY DEF Dispatch, Working, CasesIdle, BeforeClaim, AfterClaim, External, Terminal, Flow, Planned, TypeOK
<1>8. OpenClient => ErrorReport' /\ Frozen
  BY DEF OpenClient, StartPlanned, Working, CasesIdle, BeforeClaim, AfterClaim, External, Terminal, Flow, Planned, TypeOK
<1>9. ProbePasses => ErrorReport' /\ Frozen
  BY DEF ProbePasses, StartPlanned, Working, CasesIdle, BeforeClaim, AfterClaim, External, Terminal, Flow, Planned, TypeOK
<1>10. ProbeFails => ErrorReport' /\ Frozen
  BY DEF ProbeFails, Working, CasesIdle, BeforeClaim, AfterClaim, External, Terminal, Flow, Planned, TypeOK
<1>11. GatherDone => ErrorReport' /\ Frozen
  BY DEF GatherDone, Working, CasesIdle, BeforeClaim, AfterClaim, External, Terminal, Flow, Planned, TypeOK
<1>12. GatherRaises => ErrorReport' /\ Frozen
  BY DEF GatherRaises, Working, CasesIdle, BeforeClaim, AfterClaim, External, Terminal, Flow, Planned, TypeOK
<1>13. FailRun => ErrorReport' /\ Frozen
  BY DEF FailRun, MayFail, Active, Working, CasesIdle, BeforeClaim, AfterClaim, External, Terminal, Flow, Planned, TypeOK
<1>14. Finish => ErrorReport' /\ Frozen
  BY DEF Finish, Working, CasesIdle, BeforeClaim, AfterClaim, External, Terminal, Flow, Planned, TypeOK
<1>15. FinishError => ErrorReport' /\ Frozen
  <2> SUFFICES ASSUME FinishError PROVE ErrorReport' /\ Frozen
    OBVIOUS
  <2>1. /\ FinishErrorRegression /\ pushed'
        /\ UNCHANGED <<task, plan>>
        /\ main = "finish" /\ main' = "none" /\ UNCHANGED scan
    BY DEF FinishError, FinishErrorRegression
  <2>2. /\ total' = Cardinality(Rows(result')) /\ total' \in Nat
        /\ counts' = ErrorCounts(result')
        /\ status' \in Terminal
        /\ status \in External => status' = status
        /\ Working => plan \subseteq Rows(result')
        /\ pushed => result' = result /\ counts' = counts
        /\ status' = "completed" => /\ Rows(result') = plan
                                    /\ \A c \in plan : result'[c] \in {"pass", "fail"}
    BY <2>1, ErrorEnding
  <2>3. Frozen
    BY <2>2 DEF Frozen
  <2>4. Working' => Working
    BY <2>1 DEF Working, CasesIdle, AfterClaim
  <2> QED
    BY <2>1, <2>2, <2>3, <2>4 DEF BeforeClaim, External, Terminal
<1>16. FireSignal => ErrorReport' /\ Frozen
  BY DEF FireSignal, Working, CasesIdle, BeforeClaim, AfterClaim, External, Terminal, Flow, Planned, TypeOK
<1>17. MainRaises => ErrorReport' /\ Frozen
  BY DEF MainRaises, Working, CasesIdle, BeforeClaim, AfterClaim, External, Terminal, Flow, Planned, TypeOK
<1>18. FailRunRaises => ErrorReport' /\ Frozen
  BY DEF FailRunRaises, Working, CasesIdle, BeforeClaim, AfterClaim, External, Terminal, Flow, Planned, TypeOK
<1>19. ScanRaises => ErrorReport' /\ Frozen
  BY DEF ScanRaises, Working, CasesIdle, BeforeClaim, AfterClaim, External, Terminal, Flow, Planned, TypeOK
<1>20. Reap => ErrorReport' /\ Frozen
  BY DEF Reap, MayReap, Executing, ScanFree, Working, CasesIdle, BeforeClaim, AfterClaim, External, Terminal, Flow, Planned, TypeOK
<1>21. RaiseFlag => ErrorReport' /\ Frozen
  BY DEF RaiseFlag, AfterReap, Working, CasesIdle, BeforeClaim, AfterClaim, External, Terminal, Flow, Planned, TypeOK
<1>22. ReapScoring => ErrorReport' /\ Frozen
  BY DEF ReapScoring, AfterReap, ScanFree, ErrorInv, ErrorRunDomain, Working, CasesIdle, BeforeClaim, AfterClaim, External, Terminal, Flow, Planned, TypeOK
<1>23. ScannerFinishesError => ErrorReport' /\ Frozen
  <2> SUFFICES ASSUME ScannerFinishesError PROVE ErrorReport' /\ Frozen
    OBVIOUS
  <2>1. /\ FinishErrorRegression /\ pushed'
        /\ UNCHANGED <<task, plan>>
        /\ scan = "finish_error" /\ scan' = "idle" /\ UNCHANGED main
    BY DEF ScannerFinishesError, FinishErrorRegression
  <2>2. /\ total' = Cardinality(Rows(result')) /\ total' \in Nat
        /\ counts' = ErrorCounts(result')
        /\ status' \in Terminal
        /\ status \in External => status' = status
        /\ Working => plan \subseteq Rows(result')
        /\ pushed => result' = result /\ counts' = counts
        /\ status' = "completed" => /\ Rows(result') = plan
                                    /\ \A c \in plan : result'[c] \in {"pass", "fail"}
    BY <2>1, ErrorEnding
  <2>3. Frozen
    BY <2>2 DEF Frozen
  <2>4. Working' => Working
    BY <2>1 DEF Working, CasesIdle, AfterClaim
  <2> QED
    BY <2>1, <2>2, <2>3, <2>4 DEF BeforeClaim, External, Terminal
<1>24. SalvageReads => ErrorReport' /\ Frozen
  BY DEF SalvageReads, Working, CasesIdle, BeforeClaim, AfterClaim, External, Terminal, Flow, Planned, TypeOK
<1>25. SalvageBackfills => ErrorReport' /\ Frozen
  BY DEF SalvageBackfills, ErrorInv, ErrorRunDomain, Working, CasesIdle, BeforeClaim, AfterClaim, External, Terminal, Flow, Planned, TypeOK
<1>26. SalvageScores => ErrorReport' /\ Frozen
  BY DEF SalvageScores, ErrorInv, ErrorRunDomain, Working, CasesIdle, BeforeClaim, AfterClaim, External, Terminal, Flow, Planned, TypeOK
<1>27. JudgeTasksClose => ErrorReport' /\ Frozen
  BY DEF JudgeTasksClose, Working, CasesIdle, BeforeClaim, AfterClaim, External, Terminal, Flow, Planned, TypeOK
<1>28. RenewLease => ErrorReport' /\ Frozen
  BY DEF RenewLease, Working, CasesIdle, BeforeClaim, AfterClaim, External, Terminal, Flow, Planned, TypeOK
<1>29. HeartbeatEnds => ErrorReport' /\ Frozen
  BY DEF HeartbeatEnds, Working, CasesIdle, BeforeClaim, AfterClaim, External, Terminal, Flow, Planned, TypeOK
<1>30. LeaseExpires => ErrorReport' /\ Frozen
  BY DEF LeaseExpires, Working, CasesIdle, BeforeClaim, AfterClaim, External, Terminal, Flow, Planned, TypeOK
<1>31. DeadlinePasses => ErrorReport' /\ Frozen
  BY DEF DeadlinePasses, Working, CasesIdle, BeforeClaim, AfterClaim, External, Terminal, Flow, Planned, TypeOK
<1>32. CancelRequested => ErrorReport' /\ Frozen
  BY DEF CancelRequested, MayCancel, Active, Working, CasesIdle, BeforeClaim, AfterClaim, External, Terminal, Flow, Planned, TypeOK
<1>33. CancelCommits => ErrorReport' /\ Frozen
  BY DEF CancelCommits, Working, CasesIdle, BeforeClaim, AfterClaim, External, Terminal, Flow, Planned, TypeOK
<1>34. CancelAborts => ErrorReport' /\ Frozen
  BY DEF CancelAborts, Working, CasesIdle, BeforeClaim, AfterClaim, External, Terminal, Flow, Planned, TypeOK
<1>35. Crash => ErrorReport' /\ Frozen
  BY DEF Crash, Working, CasesIdle, BeforeClaim, AfterClaim, External, Terminal, Flow, Planned, TypeOK
<1>36. ASSUME NEW c \in Cases, StartCase(c) PROVE ErrorReport' /\ Frozen
  BY <1>36 DEF StartCase, Move, OnlyTask, Working, CasesIdle, BeforeClaim, AfterClaim, External, Terminal, Flow, Planned, TypeOK
<1>37. ASSUME NEW c \in Cases, AdmitCase(c) PROVE ErrorReport' /\ Frozen
  BY <1>37 DEF AdmitCase, Move, OnlyTask, Prepared, Working, CasesIdle, BeforeClaim, AfterClaim, External, Terminal, Flow, Planned, TypeOK
<1>38. ASSUME NEW c \in Cases, BeginSample(c) PROVE ErrorReport' /\ Frozen
  BY <1>38 DEF BeginSample, MaySample, Move, OnlyTask, Working, CasesIdle, BeforeClaim, AfterClaim, External, Terminal, Flow, Planned, TypeOK
<1>39. ASSUME NEW c \in Cases, StopOnCancel(c) PROVE ErrorReport' /\ Frozen
  BY <1>39 DEF StopOnCancel, MaySample, Move, OnlyTask, Working, CasesIdle, BeforeClaim, AfterClaim, External, Terminal, Flow, Planned, TypeOK
<1>40. ASSUME NEW c \in Cases, CallAgent(c) PROVE ErrorReport' /\ Frozen
  BY <1>40 DEF CallAgent, Move, OnlyTask, Working, CasesIdle, BeforeClaim, AfterClaim, External, Terminal, Flow, Planned, TypeOK
<1>41. ASSUME NEW c \in Cases, SampleEnds(c) PROVE ErrorReport' /\ Frozen
  BY <1>41 DEF SampleEnds, Move, OnlyTask, Prepared, Working, CasesIdle, BeforeClaim, AfterClaim, External, Terminal, Flow, Planned, TypeOK
<1>42. ASSUME NEW c \in Cases, SampleRaises(c) PROVE ErrorReport' /\ Frozen
  BY <1>42 DEF SampleRaises, Move, OnlyTask, Working, CasesIdle, BeforeClaim, AfterClaim, External, Terminal, Flow, Planned, TypeOK
<1>43. ASSUME NEW c \in Cases, CheckExisting(c) PROVE ErrorReport' /\ Frozen
  BY <1>43 DEF CheckExisting, Move, OnlyTask, Working, CasesIdle, BeforeClaim, AfterClaim, External, Terminal, Flow, Planned, TypeOK
<1>44. ASSUME NEW c \in Cases, InsertResult(c) PROVE ErrorReport' /\ Frozen
  <2>1. \A d \in Cases : result[d] # "none" => result'[d] = result[d]
    BY <1>44 DEF InsertResult, TypeOK
  <2>2. /\ Rows(result) \subseteq Rows(result')
        /\ Cardinality(Rows(result')) \in Nat
        /\ Cardinality(Rows(result)) <= Cardinality(Rows(result'))
    BY <2>1, RowsGrow DEF TypeOK, Verdicts
  <2>3. /\ UNCHANGED <<status, total, counts, scan, main, pushed, plan, cancelFlag>>
        /\ Working /\ c \in plan /\ ~(task'[c] = "idle")
    BY <1>44 DEF InsertResult, TaskFlow, Working, CasesIdle, TypeOK
  <2>4. result' = result \/ (result[c] = "none" /\ \A d \in Cases \ {c} : result'[d] = result[d])
    BY <1>44 DEF InsertResult, TypeOK
  <2>5. Rows(result') \subseteq Rows(result) \cup {c}
    BY <2>4 DEF Rows
  <2>6. result[c] = "none" => c \notin Rows(result)
    BY DEF Rows
  <2>7. pushed => result' = result
    BY <2>3, <2>4, <2>6
  <2> QED
    BY <2>2, <2>3, <2>4, <2>5, <2>6, <2>7 DEF Planned, TypeOK
<1>45. ASSUME NEW a \in Actors, ScoreSkips(a) PROVE ErrorReport' /\ Frozen
  BY <1>45 DEF ScoreSkips, Returns, CallsScore, MayScore, ErrorInv, ErrorRunDomain, Working, CasesIdle, BeforeClaim, AfterClaim, External, Terminal, Flow, Planned, TypeOK
<1>46. ASSUME NEW a \in Actors, ScoreAtOnce(a) PROVE ErrorReport' /\ Frozen
  BY <1>46 DEF ScoreAtOnce, Returns, CallsScore, MayScore, ErrorInv, ErrorRunDomain, Working, CasesIdle, BeforeClaim, AfterClaim, External, Terminal, Flow, Planned, TypeOK
<1>47. ASSUME NEW a \in Actors, ScoreCreatesTasks(a) PROVE ErrorReport' /\ Frozen
  BY <1>47 DEF ScoreCreatesTasks, Returns, CallsScore, MayScore, ErrorInv, ErrorRunDomain, Working, CasesIdle, BeforeClaim, AfterClaim, External, Terminal, Flow, Planned, TypeOK
<1>48. ASSUME NEW a \in Actors, ScoreEnds(a) PROVE ErrorReport' /\ Frozen
  BY <1>48 DEF ScoreEnds, Returns, CallsScore, MayScore, ErrorInv, ErrorRunDomain, Working, CasesIdle, BeforeClaim, AfterClaim, External, Terminal, Flow, Planned, TypeOK
<1>49. ASSUME NEW c \in Cases, EditCase(c) PROVE ErrorReport' /\ Frozen
  BY <1>49 DEF EditCase, Working, CasesIdle, BeforeClaim, AfterClaim, External, Terminal, Flow, Planned, TypeOK
<1>50. UNCHANGED vars => ErrorReport' /\ Frozen
  BY DEF vars, Working, CasesIdle, BeforeClaim, AfterClaim, External, Terminal, Flow, Planned, TypeOK
<1> QED
  BY <1>1, <1>2, <1>3, <1>4, <1>5, <1>6, <1>7, <1>8, <1>9, <1>10, <1>11, <1>12, <1>13,
     <1>14, <1>15, <1>16, <1>17, <1>18, <1>19, <1>20, <1>21, <1>22, <1>23, <1>24, <1>25,
     <1>26, <1>27, <1>28, <1>29, <1>30, <1>31, <1>32, <1>33, <1>34, <1>35, <1>36, <1>37,
     <1>38, <1>39, <1>40, <1>41, <1>42, <1>43, <1>44, <1>45, <1>46, <1>47, <1>48, <1>49,
     <1>50 DEF Next,
     MainStep, Trouble, CaseStep, ScoreStep, ScanStep, ClockStep, CancelStep
-----------------------------------------------------------------------------
\* The ending of a manual run before it is scored: it is scored or completed with a row
\* for every planned case only, and completed only when none of the rows is an error.
LEMMA ManualEnding ==
    ASSUME TypeOK, Flow, TaskFlow, ManualRows, ~IsError, Finish
    PROVE  /\ total' = Cardinality(Rows(result')) /\ total' \in Nat
           /\ status' \in {"scoring", "completed"} => plan \subseteq Rows(result')
           /\ status' = "completed" => \A c \in Cases : result'[c] # "error"
           /\ status \in External => status' = status
           /\ status' \in External \cup {"scoring", "completed", "partial_failed"}
<1> DEFINE res == Backfilled(result, "error")
<1>1. /\ result' = res /\ total' = Cardinality(Rows(res)) /\ main = "finish"
      /\ status' = IF KeepsStatus THEN status ELSE FinishStatus(res)
  BY DEF Finish
<1>2. /\ result \in [Cases -> Verdicts \cup {"none"}] /\ "error" \in Verdicts
      /\ total \in Nat /\ active \subseteq Cases /\ plan \subseteq Cases
  BY TallyBound DEF TypeOK, Verdicts
<1>3. \A c \in Cases : result[c] # "none" => res[c] # "none"
  BY <1>2, BackfilledRows
<1> HIDE DEF res
<1>4. Rows(result) \subseteq Rows(res) /\ Cardinality(Rows(res)) \in Nat
  BY <1>3, RowsGrow
<1>5. ASSUME status' \in {"scoring", "completed"} PROVE plan \subseteq Rows(res)
  <2>1. status \notin External /\ ~cancelFlag
    BY <1>1, <1>5 DEF KeepsStatus, External, FinishStatus
  <2>2. plan \subseteq Rows(result)
    BY <1>1, <1>2, <2>1 DEF TaskFlow, Rows
  <2> QED
    BY <1>4, <2>2
<1>6. ASSUME status' = "completed" PROVE \A c \in Cases : res[c] # "error"
  <2>1. ~(Tally(res, "error") > 0)
    BY <1>1, <1>6 DEF KeepsStatus, External, FinishStatus
  <2> QED
    BY <2>1, TallyZero
<1>7. /\ status \in External => status' = status
      /\ status' \in External \cup {"scoring", "completed", "partial_failed"}
  BY <1>1 DEF KeepsStatus, External, FinishStatus
<1> QED
  BY <1>1, <1>4, <1>5, <1>6, <1>7

\* Every step of a manual run keeps what is known of its rows.
LEMMA StepManualRows == FlowInv /\ TaskFlow /\ ManualRows /\ [Next]_vars => ManualRows'
<1> SUFFICES ASSUME TypeOK, Flow, TaskFlow, ManualRows, [Next]_vars, ~IsError
             PROVE  ManualRows'
  BY DEF ManualRows, IsError, FlowInv
<1>0. Cardinality(Rows(result)) \in Nat /\ Planned \in Nat
  BY RowsOf DEF TypeOK
<1> USE <1>0 DEF ManualRows
<1>1. LoadRun => ManualRows'
  BY DEF LoadRun, BeforeClaim, AfterClaim, Executing, External, Flow, Planned, TypeOK
<1>2. RejectDisabled => ManualRows'
  BY DEF RejectDisabled, BeforeClaim, AfterClaim, Executing, External, Flow, Planned, TypeOK
<1>3. RejectEmpty => ManualRows'
  BY DEF RejectEmpty, BeforeClaim, AfterClaim, Executing, External, Flow, Planned, TypeOK
<1>4. ClaimRun => ManualRows'
  BY DEF ClaimRun, MayClaim, BeforeClaim, AfterClaim, Executing, External, Flow, Planned, TypeOK
<1>5. FailPrecheck => ManualRows'
  BY DEF FailPrecheck, BeforeClaim, AfterClaim, Executing, External, Flow, Planned, TypeOK
<1>6. MarkErrorSkipped => ManualRows'
  BY DEF MarkErrorSkipped, Executing, BeforeClaim, AfterClaim, Executing, External, Flow, Planned, TypeOK
<1>7. Dispatch => ManualRows'
  BY DEF Dispatch, BeforeClaim, AfterClaim, Executing, External, Flow, Planned, TypeOK
<1>8. OpenClient => ManualRows'
  BY DEF OpenClient, StartPlanned, BeforeClaim, AfterClaim, Executing, External, Flow, Planned, TypeOK
<1>9. ProbePasses => ManualRows'
  BY DEF ProbePasses, StartPlanned, BeforeClaim, AfterClaim, Executing, External, Flow, Planned, TypeOK
<1>10. ProbeFails => ManualRows'
  BY DEF ProbeFails, BeforeClaim, AfterClaim, Executing, External, Flow, Planned, TypeOK
<1>11. GatherDone => ManualRows'
  BY DEF GatherDone, BeforeClaim, AfterClaim, Executing, External, Flow, Planned, TypeOK
<1>12. GatherRaises => ManualRows'
  BY DEF GatherRaises, BeforeClaim, AfterClaim, Executing, External, Flow, Planned, TypeOK
<1>13. FailRun => ManualRows'
  BY DEF FailRun, MayFail, Active, BeforeClaim, AfterClaim, Executing, External, Flow, Planned, TypeOK
<1>14. Finish => ManualRows'
  <2> SUFFICES ASSUME Finish PROVE ManualRows'
    OBVIOUS
  <2>1. /\ total' = Cardinality(Rows(result')) /\ total' \in Nat
        /\ status' \in {"scoring", "completed"} => plan \subseteq Rows(result')
        /\ status' = "completed" => \A c \in Cases : result'[c] # "error"
        /\ status \in External => status' = status
        /\ status' \in External \cup {"scoring", "completed", "partial_failed"}
    BY ManualEnding
  <2> QED
    BY <2>1 DEF Finish, Flow, BeforeClaim, AfterClaim, Executing, External
<1>15. FinishError => ManualRows'
  BY DEF FinishError
<1>16. FireSignal => ManualRows'
  BY DEF FireSignal, BeforeClaim, AfterClaim, Executing, External, Flow, Planned, TypeOK
<1>17. MainRaises => ManualRows'
  BY DEF MainRaises, BeforeClaim, AfterClaim, Executing, External, Flow, Planned, TypeOK
<1>18. FailRunRaises => ManualRows'
  BY DEF FailRunRaises, BeforeClaim, AfterClaim, Executing, External, Flow, Planned, TypeOK
<1>19. ScanRaises => ManualRows'
  BY DEF ScanRaises, BeforeClaim, AfterClaim, Executing, External, Flow, Planned, TypeOK
<1>20. Reap => ManualRows'
  BY DEF Reap, MayReap, Executing, ScanFree, BeforeClaim, AfterClaim, Executing, External, Flow, Planned, TypeOK
<1>21. RaiseFlag => ManualRows'
  BY DEF RaiseFlag, AfterReap, BeforeClaim, AfterClaim, Executing, External, Flow, Planned, TypeOK
<1>22. ReapScoring => ManualRows'
  BY DEF ReapScoring, AfterReap, ScanFree, BeforeClaim, AfterClaim, Executing, External, Flow, Planned, TypeOK
<1>23. ScannerFinishesError => ManualRows'
  BY DEF ScannerFinishesError
<1>24. SalvageReads => ManualRows'
  BY DEF SalvageReads, BeforeClaim, AfterClaim, Executing, External, Flow, Planned, TypeOK
<1>25. SalvageBackfills => ManualRows'
  <2> SUFFICES ASSUME SalvageBackfills PROVE ManualRows'
    OBVIOUS
  <2>1. /\ scan = "backfill" /\ scan' \in {"idle", "score"}
        /\ UNCHANGED <<status, total, scoring, main, pushed, plan>>
    BY DEF SalvageBackfills
  <2>2. \A c \in Cases : result[c] # "none" => result'[c] # "none"
    BY DEF SalvageBackfills, TypeOK
  <2>3. Rows(result) \subseteq Rows(result')
    BY <2>2, RowsGrow
  <2> QED
    BY <2>1, <2>3 DEF Planned
<1>26. SalvageScores => ManualRows'
  <2> SUFFICES ASSUME SalvageScores PROVE ManualRows'
    OBVIOUS
  <2>1. /\ Rows(result') = Rows(result)
        /\ \A c \in Cases : result'[c] = "error" <=> result[c] = "error"
    BY RescoredRows DEF SalvageScores, TypeOK
  <2> QED
    BY <2>1 DEF SalvageScores, Planned
<1>27. JudgeTasksClose => ManualRows'
  BY DEF JudgeTasksClose, BeforeClaim, AfterClaim, Executing, External, Flow, Planned, TypeOK
<1>28. RenewLease => ManualRows'
  BY DEF RenewLease, BeforeClaim, AfterClaim, Executing, External, Flow, Planned, TypeOK
<1>29. HeartbeatEnds => ManualRows'
  BY DEF HeartbeatEnds, BeforeClaim, AfterClaim, Executing, External, Flow, Planned, TypeOK
<1>30. LeaseExpires => ManualRows'
  BY DEF LeaseExpires, BeforeClaim, AfterClaim, Executing, External, Flow, Planned, TypeOK
<1>31. DeadlinePasses => ManualRows'
  BY DEF DeadlinePasses, BeforeClaim, AfterClaim, Executing, External, Flow, Planned, TypeOK
<1>32. CancelRequested => ManualRows'
  BY DEF CancelRequested, MayCancel, Active, BeforeClaim, AfterClaim, Executing, External, Flow, Planned, TypeOK
<1>33. CancelCommits => ManualRows'
  BY DEF CancelCommits, BeforeClaim, AfterClaim, Executing, External, Flow, Planned, TypeOK
<1>34. CancelAborts => ManualRows'
  BY DEF CancelAborts, BeforeClaim, AfterClaim, Executing, External, Flow, Planned, TypeOK
<1>35. Crash => ManualRows'
  BY DEF Crash, BeforeClaim, AfterClaim, Executing, External, Flow, Planned, TypeOK
<1>36. ASSUME NEW c \in Cases, StartCase(c) PROVE ManualRows'
  BY <1>36 DEF StartCase, Move, OnlyTask, BeforeClaim, AfterClaim, Executing, External, Flow, Planned, TypeOK
<1>37. ASSUME NEW c \in Cases, AdmitCase(c) PROVE ManualRows'
  BY <1>37 DEF AdmitCase, Move, OnlyTask, Prepared, BeforeClaim, AfterClaim, Executing, External, Flow, Planned, TypeOK
<1>38. ASSUME NEW c \in Cases, BeginSample(c) PROVE ManualRows'
  BY <1>38 DEF BeginSample, MaySample, Move, OnlyTask, BeforeClaim, AfterClaim, Executing, External, Flow, Planned, TypeOK
<1>39. ASSUME NEW c \in Cases, StopOnCancel(c) PROVE ManualRows'
  BY <1>39 DEF StopOnCancel, MaySample, Move, OnlyTask, BeforeClaim, AfterClaim, Executing, External, Flow, Planned, TypeOK
<1>40. ASSUME NEW c \in Cases, CallAgent(c) PROVE ManualRows'
  BY <1>40 DEF CallAgent, Move, OnlyTask, BeforeClaim, AfterClaim, Executing, External, Flow, Planned, TypeOK
<1>41. ASSUME NEW c \in Cases, SampleEnds(c) PROVE ManualRows'
  BY <1>41 DEF SampleEnds, Move, OnlyTask, Prepared, BeforeClaim, AfterClaim, Executing, External, Flow, Planned, TypeOK
<1>42. ASSUME NEW c \in Cases, SampleRaises(c) PROVE ManualRows'
  BY <1>42 DEF SampleRaises, Move, OnlyTask, BeforeClaim, AfterClaim, Executing, External, Flow, Planned, TypeOK
<1>43. ASSUME NEW c \in Cases, CheckExisting(c) PROVE ManualRows'
  BY <1>43 DEF CheckExisting, Move, OnlyTask, BeforeClaim, AfterClaim, Executing, External, Flow, Planned, TypeOK
<1>44. ASSUME NEW c \in Cases, InsertResult(c) PROVE ManualRows'
  <2>1. \A d \in Cases : result[d] # "none" => result'[d] # "none"
    BY <1>44 DEF InsertResult, TypeOK
  <2>2. /\ Rows(result) \subseteq Rows(result')
        /\ Cardinality(Rows(result)) \in Nat /\ Cardinality(Rows(result')) \in Nat
        /\ Cardinality(Rows(result)) <= Cardinality(Rows(result'))
    BY <2>1, RowsGrow
  <2>3. UNCHANGED <<status, total, scoring, main, scan, pushed, plan>>
    BY <1>44 DEF InsertResult
  <2>4. plan \subseteq Rows(result) => result' = result
    BY <1>44 DEF InsertResult, TaskFlow, Rows, TypeOK
  <2> QED
    BY <2>2, <2>3, <2>4 DEF Planned, TypeOK
<1>45. ASSUME NEW a \in Actors, ScoreSkips(a) PROVE ManualRows'
  BY <1>45 DEF ScoreSkips, Returns, CallsScore, MayScore, BeforeClaim, AfterClaim, Executing, External, Flow, Planned, TypeOK
<1>46. ASSUME NEW a \in Actors, ScoreAtOnce(a) PROVE ManualRows'
  <2>1. /\ Rows(result') = Rows(result)
        /\ \A c \in Cases : result'[c] = "error" <=> result[c] = "error"
        /\ status' = "completed" => \A c \in Cases : result'[c] # "error"
        /\ status' \in {"completed", "partial_failed"}
    BY <1>46, ScoringRows DEF ScoreAtOnce
  <2>2. /\ plan \subseteq Rows(result) /\ scan # "backfill"
        /\ main \notin BeforeClaim \cup AfterClaim
    BY <1>46 DEF ScoreAtOnce, MayScore, Flow, External, BeforeClaim, AfterClaim
  <2> QED
    BY <1>46, <2>1, <2>2 DEF ScoreAtOnce, Returns, Executing, BeforeClaim, AfterClaim
<1>47. ASSUME NEW a \in Actors, ScoreCreatesTasks(a) PROVE ManualRows'
  BY <1>47 DEF ScoreCreatesTasks, Returns, CallsScore, MayScore, BeforeClaim, AfterClaim, Executing, External, Flow, Planned, TypeOK
<1>48. ASSUME NEW a \in Actors, ScoreEnds(a) PROVE ManualRows'
  <2>1. /\ Rows(result') = Rows(result)
        /\ \A c \in Cases : result'[c] = "error" <=> result[c] = "error"
        /\ status' = "completed" => \A c \in Cases : result'[c] # "error"
        /\ status' \in {"completed", "partial_failed"}
    BY <1>48, ScoringRows DEF ScoreEnds
  <2>2. /\ plan \subseteq Rows(result) /\ scan # "backfill"
        /\ main \notin BeforeClaim \cup AfterClaim
    BY <1>48 DEF ScoreEnds, MayScore, Flow, External, BeforeClaim, AfterClaim
  <2> QED
    BY <1>48, <2>1, <2>2 DEF ScoreEnds, Returns, Executing, BeforeClaim, AfterClaim
<1>49. ASSUME NEW c \in Cases, EditCase(c) PROVE ManualRows'
  BY <1>49 DEF EditCase, BeforeClaim, AfterClaim, Executing, External, Flow, Planned, TypeOK
<1>50. UNCHANGED vars => ManualRows'
  BY DEF vars, BeforeClaim, AfterClaim, Executing, External, Flow, Planned, TypeOK
<1> QED
  BY <1>1, <1>2, <1>3, <1>4, <1>5, <1>6, <1>7, <1>8, <1>9, <1>10, <1>11, <1>12, <1>13,
     <1>14, <1>15, <1>16, <1>17, <1>18, <1>19, <1>20, <1>21, <1>22, <1>23, <1>24, <1>25,
     <1>26, <1>27, <1>28, <1>29, <1>30, <1>31, <1>32, <1>33, <1>34, <1>35, <1>36, <1>37,
     <1>38, <1>39, <1>40, <1>41, <1>42, <1>43, <1>44, <1>45, <1>46, <1>47, <1>48, <1>49,
     <1>50 DEF Next,
     MainStep, Trouble, CaseStep, ScoreStep, ScanStep, ClockStep, CancelStep
-----------------------------------------------------------------------------
\* What is known of the rows of a run, of either kind, holds in every state.
LEMMA ReportInductive ==
    Spec => [](TypeOK /\ Flow /\ TaskFlow /\ ErrorInv /\ ErrorReport /\ ManualRows)
<1> DEFINE Inv == TypeOK /\ Flow /\ TaskFlow /\ ErrorInv /\ ErrorReport /\ ManualRows
<1>1. Init => Inv
  <2> SUFFICES ASSUME Init PROVE Inv
    OBVIOUS
  <2>1. TypeOK /\ Flow /\ ErrorInv
    BY InitTypeOK DEF Init, Flow, BeforeClaim, AfterClaim, External, Terminal, ErrorInv,
       ErrorRunDomain
  <2>2. Rows(result) = {}
    BY DEF Init, Rows
  <2>3. TaskFlow
    BY DEF Init, TaskFlow, CasesIdle
  <2>4. ErrorReport
    BY <2>2 DEF Init, ErrorReport, Working, CasesIdle, AfterClaim
  <2>5. ManualRows
    BY DEF Init, ManualRows, AfterClaim
  <2> QED
    BY <2>1, <2>3, <2>4, <2>5
<1>2. Inv /\ [Next]_vars => Inv'
  BY StepTypeOK, StepFlow, StepTaskFlow, StepErrorInv, StepErrorReport, StepManualRows
     DEF FlowInv
<1> QED
  BY <1>1, <1>2, PTL DEF Spec

\* Behind completed every case the run loaded has its verdict, there is no technical
\* failure, and in an error run not one na, for both kinds of run and whatever cases are
\* retired or made active meanwhile (CompletedMeansJudged).
THEOREM CompletedIsJudged == Spec => []CompletedMeansJudged
<1>1. TypeOK /\ ErrorInv /\ ErrorReport /\ ManualRows => CompletedMeansJudged
  <2> SUFFICES ASSUME TypeOK, ErrorInv, ErrorReport, ManualRows, status = "completed", total > 0
               PROVE  /\ plan \subseteq Rows(result)
                      /\ \A c \in Rows(result) :
                            result[c] \in IF IsError THEN {"pass", "fail"}
                                          ELSE {"pass", "fail", "na"}
    BY DEF CompletedMeansJudged
  <2>1. CASE IsError
    BY <2>1 DEF ErrorReport
  <2>2. CASE ~IsError
    <3>1. plan \subseteq Rows(result) /\ \A c \in Cases : result[c] # "error"
      BY <2>2 DEF ManualRows
    <3> QED
      BY <2>2, <3>1 DEF TypeOK, Verdicts, Rows
  <2> QED
    BY <2>1, <2>2
<1> QED
  BY <1>1, ReportInductive, PTL

\* What fire_push told online of an error run is true of its rows, adds up, and is not
\* changed by a late coroutine or a second ending (ReportIsTrue).
THEOREM PushedReportIsTrue == Spec => ReportIsTrue
<1>1. ErrorReport /\ ManualRows => PushedCountsAgree
  BY DEF ErrorReport, ManualRows, PushedCountsAgree
<1> DEFINE Freeze == pushed => result' = result /\ counts' = counts
<1>2. /\ TypeOK /\ Flow /\ TaskFlow /\ ErrorInv /\ ErrorReport /\ ManualRows
      /\ [Next]_vars
      => [Freeze]_vars
  BY StepErrorReport DEF Frozen, ManualRows, FlowInv
<1> QED
  BY <1>1, <1>2, ReportInductive, CompletedIsJudged, PTL DEF Spec, ReportIsTrue, FrozenOncePushed
-----------------------------------------------------------------------------
(* Why a manual run begins no sample once it was ended from outside.       *)

\* The client is open between probe and gather only. Up to there the cancel flag is up
\* from the moment a cancel is under way, or the scanner got past the flag, unless a pass
\* was cut short: whoever takes the flag down closed the client before.
FlagStops ==
    ~IsError =>
        /\ client => main \in {"probe", "gather"}
        /\ faults = 0 /\ main \in BeforeClaim \cup {"dispatch", "prepare", "probe", "gather"}
              => (cancelling \/ (status \in External /\ scan # "flag") => cancelFlag)

\* Every step of a manual run keeps what is known of its cancel flag.
LEMMA StepFlagStops == FlowInv /\ ManualRows /\ FlagStops /\ [Next]_vars => FlagStops'
<1> SUFFICES ASSUME TypeOK, Flow, ManualRows, FlagStops, [Next]_vars, ~IsError
             PROVE  FlagStops'
  BY DEF FlagStops, IsError, FlowInv
<1> USE DEF FlagStops, BeforeClaim, External
<1>1. LoadRun => FlagStops'
  BY DEF LoadRun, Flow, TypeOK
<1>2. RejectDisabled => FlagStops'
  BY DEF RejectDisabled, TypeOK
<1>3. RejectEmpty => FlagStops'
  BY DEF RejectEmpty, TypeOK
<1>4. ClaimRun => FlagStops'
  BY DEF ClaimRun, MayClaim, Flow, TypeOK
<1>5. FailPrecheck => FlagStops'
  BY DEF FailPrecheck, TypeOK
<1>6. MarkErrorSkipped => FlagStops'
  BY DEF MarkErrorSkipped, Executing, TypeOK
<1>7. Dispatch => FlagStops'
  BY DEF Dispatch, Flow, TypeOK
<1>8. OpenClient => FlagStops'
  BY DEF OpenClient, TypeOK
<1>9. ProbePasses => FlagStops'
  BY DEF ProbePasses, TypeOK
<1>10. ProbeFails => FlagStops'
  BY DEF ProbeFails, TypeOK
<1>11. GatherDone => FlagStops'
  BY DEF GatherDone, TypeOK
<1>12. GatherRaises => FlagStops'
  BY DEF GatherRaises, TypeOK
<1>13. FailRun => FlagStops'
  BY DEF FailRun, MayFail, Active, TypeOK
<1>14. Finish => FlagStops'
  BY DEF Finish, FinishStatus, TypeOK
<1>15. FinishError => FlagStops'
  BY DEF FinishError, TypeOK
<1>16. FireSignal => FlagStops'
  BY DEF FireSignal, TypeOK
<1>17. MainRaises => FlagStops'
  BY DEF MainRaises, TypeOK
<1>18. FailRunRaises => FlagStops'
  BY DEF FailRunRaises, TypeOK
<1>19. ScanRaises => FlagStops'
  BY RunAssumption DEF ScanRaises, RunAssumption, TypeOK
<1>20. Reap => FlagStops'
  BY DEF Reap, ScanFree, TypeOK
<1>21. RaiseFlag => FlagStops'
  BY DEF RaiseFlag, AfterReap, TypeOK
<1>22. ReapScoring => FlagStops'
  BY DEF ReapScoring, AfterReap, TypeOK
<1>23. ScannerFinishesError => FlagStops'
  BY DEF ScannerFinishesError, ManualRows, TypeOK
<1>24. SalvageReads => FlagStops'
  BY DEF SalvageReads, TypeOK
<1>25. SalvageBackfills => FlagStops'
  BY DEF SalvageBackfills, TypeOK
<1>26. SalvageScores => FlagStops'
  BY DEF SalvageScores, TypeOK
<1>27. JudgeTasksClose => FlagStops'
  BY DEF JudgeTasksClose, TypeOK
<1>28. RenewLease => FlagStops'
  BY DEF RenewLease, TypeOK
<1>29. HeartbeatEnds => FlagStops'
  BY DEF HeartbeatEnds, TypeOK
<1>30. LeaseExpires => FlagStops'
  BY DEF LeaseExpires, TypeOK
<1>31. DeadlinePasses => FlagStops'
  BY DEF DeadlinePasses, TypeOK
<1>32. CancelRequested => FlagStops'
  BY DEF CancelRequested, TypeOK
<1>33. CancelCommits => FlagStops'
  BY DEF CancelCommits, TypeOK
<1>34. CancelAborts => FlagStops'
  BY DEF CancelAborts, TypeOK
<1>35. Crash => FlagStops'
  BY RunAssumption DEF Crash, RunAssumption, TypeOK
<1>36. ASSUME NEW c \in Cases, StartCase(c) PROVE FlagStops'
  BY <1>36 DEF StartCase, OnlyTask, TypeOK
<1>37. ASSUME NEW c \in Cases, AdmitCase(c) PROVE FlagStops'
  BY <1>37 DEF AdmitCase, OnlyTask, TypeOK
<1>38. ASSUME NEW c \in Cases, BeginSample(c) PROVE FlagStops'
  BY <1>38 DEF BeginSample, OnlyTask, TypeOK
<1>39. ASSUME NEW c \in Cases, StopOnCancel(c) PROVE FlagStops'
  BY <1>39 DEF StopOnCancel, OnlyTask, TypeOK
<1>40. ASSUME NEW c \in Cases, CallAgent(c) PROVE FlagStops'
  BY <1>40 DEF CallAgent, OnlyTask, TypeOK
<1>41. ASSUME NEW c \in Cases, SampleEnds(c) PROVE FlagStops'
  BY <1>41 DEF SampleEnds, OnlyTask, TypeOK
<1>42. ASSUME NEW c \in Cases, SampleRaises(c) PROVE FlagStops'
  BY <1>42 DEF SampleRaises, OnlyTask, TypeOK
<1>43. ASSUME NEW c \in Cases, CheckExisting(c) PROVE FlagStops'
  BY <1>43 DEF CheckExisting, OnlyTask, TypeOK
<1>44. ASSUME NEW c \in Cases, InsertResult(c) PROVE FlagStops'
  BY <1>44 DEF InsertResult, OnlyTask, TypeOK
<1>45. ASSUME NEW a \in Actors, ScoreSkips(a) PROVE FlagStops'
  BY <1>45 DEF ScoreSkips, Returns, CallsScore, TypeOK
<1>46. ASSUME NEW a \in Actors, ScoreAtOnce(a) PROVE FlagStops'
  <2>1. status' \in {"completed", "partial_failed"}
    BY <1>46, ScoringRows DEF ScoreAtOnce
  <2> QED
    BY <1>46, <2>1 DEF ScoreAtOnce, Returns, CallsScore, Flow, AfterClaim
<1>47. ASSUME NEW a \in Actors, ScoreCreatesTasks(a) PROVE FlagStops'
  BY <1>47 DEF ScoreCreatesTasks, Returns, CallsScore, TypeOK
<1>48. ASSUME NEW a \in Actors, ScoreEnds(a) PROVE FlagStops'
  <2>1. status' \in {"completed", "partial_failed"}
    BY <1>48, ScoringRows DEF ScoreEnds
  <2> QED
    BY <1>48, <2>1 DEF ScoreEnds, Returns, CallsScore, Flow, AfterClaim
<1>49. ASSUME NEW c \in Cases, EditCase(c) PROVE FlagStops'
  BY <1>49 DEF EditCase, OnlyTask, TypeOK
<1>50. UNCHANGED vars => FlagStops'
  BY DEF vars, TypeOK
<1> QED
  BY <1>1, <1>2, <1>3, <1>4, <1>5, <1>6, <1>7, <1>8, <1>9, <1>10, <1>11, <1>12, <1>13,
     <1>14, <1>15, <1>16, <1>17, <1>18, <1>19, <1>20, <1>21, <1>22, <1>23, <1>24, <1>25,
     <1>26, <1>27, <1>28, <1>29, <1>30, <1>31, <1>32, <1>33, <1>34, <1>35, <1>36, <1>37,
     <1>38, <1>39, <1>40, <1>41, <1>42, <1>43, <1>44, <1>45, <1>46, <1>47, <1>48, <1>49,
     <1>50 DEF Next,
     MainStep, Trouble, CaseStep, ScoreStep, ScanStep, ClockStep, CancelStep

\* Once a manual run timed out or was cancelled and the scanner is through with it, none
\* of its cases begins another sample; what still goes out are the attempts left of the
\* sample under way (NoSampleAfterReap). An error run has no such theorem: the ending that
\* the scanner writes for it takes the flag down again.
THEOREM ReapStopsCalls == ASSUME ~IsError PROVE Spec => NoSampleAfterReap
<1>1. Init => FlagStops
  BY DEF Init, FlagStops, External
<1>2. FlowInv /\ ManualRows /\ FlagStops /\ [Next]_vars => FlagStops'
  BY StepFlagStops
<1>3. TypeOK /\ FlagStops /\ [Next]_vars =>
          [\A c \in Cases : task[c] = "executing" /\ task'[c] = "sampling" /\ client
                               => ~ReapSettled]_vars
  <2> SUFFICES ASSUME TypeOK, FlagStops, Next, NEW c \in Cases,
                      task[c] = "executing", task'[c] = "sampling", client,
                      status \in External, scan = "idle", faults = 0
               PROVE  FALSE
    BY DEF ReapSettled
  <2>1. cancelFlag
    BY ~IsError DEF FlagStops
  <2>2. task' # task /\ task'[c] # "ready" /\ task'[c] # "idle"
    BY DEF TypeOK
  <2>3. \E d \in Cases : CaseStep(d)
    BY <2>2 DEF Next, MainStep, Trouble, ScoreStep, ScanStep, ClockStep, CancelStep,
       LoadRun, RejectDisabled, RejectEmpty, ClaimRun, FailPrecheck, MarkErrorSkipped, Dispatch,
       OpenClient, ProbePasses, ProbeFails, GatherDone, GatherRaises, FailRun, Finish,
       FinishError, FinishErrorRegression, FireSignal, MainRaises, FailRunRaises, ScanRaises,
       Reap, RaiseFlag, ReapScoring, ScannerFinishesError, SalvageReads, SalvageBackfills,
       SalvageScores, ScoreSkips, ScoreAtOnce, ScoreCreatesTasks, ScoreEnds, JudgeTasksClose,
       RenewLease, HeartbeatEnds, LeaseExpires, DeadlinePasses, CancelRequested, CancelCommits,
       CancelAborts, Crash, EditCase, StartPlanned
  <2>4. PICK d \in Cases : CaseStep(d)
    BY <2>3
  <2>5. BeginSample(d)
    BY <2>4 DEF CaseStep, StartCase, AdmitCase, StopOnCancel, CallAgent, SampleEnds,
       SampleRaises, CheckExisting, InsertResult, Prepared, Move, TypeOK
  <2> QED
    BY <2>1, <2>5 DEF BeginSample, MaySample
<1> QED
  BY <1>1, <1>2, <1>3, FlowInductive, ReportInductive, PTL DEF Spec, NoSampleAfterReap, FlowInv
=============================================================================
