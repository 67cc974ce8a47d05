-------------------------- MODULE CaseExecutionProofs --------------------------
(***************************************************************************)
(* One case of one run, for any setup, any number of samples, of retries   *)
(* and of deltas: the row that is written is earned, the agent is not      *)
(* called more often than its interface allows, and the answer put         *)
(* together is the agent's. Then the limits that a case waits for: the     *)
(* agent's shared pool never loses or makes a slot.                        *)
(***************************************************************************)
EXTENDS CaseExecution, KeyedLimiter, SequenceTheorems, FiniteSetTheorems, TLAPS

\* The coroutine is within an attempt, or has just ended one.
InAttempt == pc \in {"prepare", "send", "stream", "decide"}

\* Samples that went well are all that were begun, but for the one in hand; a pass or fail is
\* written at the end only.
Counted ==
    /\ pc \in {"begin", "sample"} => good = sample /\ sample < Attempts
    /\ pc = "begin" => sample = 0
    /\ InAttempt => sample = good + 1
    /\ row.pf \in {"pass", "fail"} => pc = "end"

\* What an attempt has called so far, beside two calls of each attempt before.
Budget ==
    /\ ~setup.retryable => try = 0
    /\ resumed => Resumable
    /\ Resumable => calls <= 2 * try + (IF resumed THEN 2 ELSE 1)
    /\ ~Resumable => calls <= try + 1
    /\ pc = "prepare" => ~resumed
    /\ pc = "prepare" \/ (pc = "send" /\ ~resumed) =>
          calls <= IF Resumable THEN 2 * try ELSE try
    /\ pc = "send" /\ resumed => calls <= 2 * try + 1

\* A stream is read, or is about to be resumed where it was left.
Reading == pc = "stream" \/ (pc = "send" /\ resumed)

\* What the id in the parser says of the place a stream was left at.
Numbered ==
    /\ ~setup.ids => parser.last = 0
    /\ pc \in {"send", "stream"} /\ ~resumed => "stale" \notin scars
    /\ pc \in {"prepare", "send"} /\ ~resumed => parts = <<>> /\ saw = {} /\ scars = {}
    /\ pc = "prepare" => ~resumed
    /\ Reading /\ "numbered" \notin scars => parts = <<>> /\ saw = {}
    /\ Reading /\ "numbered" \in scars /\ setup.ids /\ (resumed => pc = "send") =>
          parser.last = pos - 1
    /\ Reading => setup.contract = "sse"
    /\ pc = "send" /\ resumed => setup.ids /\ ("stale" \in scars <=> "numbered" \notin scars)

\* Unless a frame was torn, the deltas kept follow one another, from the first one if no stream was
\* resumed behind an id of an earlier attempt, and the next frame is one of them or the one behind.
Consecutive ==
    "torn" \notin scars =>
        /\ \A i \in DOMAIN parts : parts[i] = parts[1] + i - 1
        /\ "stale" \notin scars => \A i \in DOMAIN parts : parts[i] = i
        /\ Reading /\ parts # <<>> =>
              /\ parts[1] <= pos
              /\ pos <= parts[Len(parts)] + 1 \/ parts[Len(parts)] = Parts
        /\ Reading /\ "stale" \notin scars /\ parts = <<>> => pos = 1
        /\ "stale" \notin scars /\ "done" \in saw => Len(parts) = Parts

\* No delta is kept twice.
Distinct == \A i, j \in DOMAIN parts : i # j => parts[i] # parts[j]

\* An answer that passed the contract check is complete, if nothing tore or outdated its stream.
Whole == pc = "decide" /\ outcome = "ok" /\ scars \cap {"torn", "stale"} = {} => Complete(parts)

\* The invariant: the types, the samples and the row, the calls, the stream and its deltas.
CaseInv ==
    /\ TypeOK
    /\ Counted /\ RowIsEarned
    /\ Budget
    /\ Numbered /\ Consecutive /\ Distinct /\ Whole

\* What is known of every setup, and of the bounds.
LEMMA SetupKnown ==
    ASSUME TypeOK
    PROVE  /\ setup.retryable \in BOOLEAN /\ setup.perf \in BOOLEAN /\ setup.enabled \in BOOLEAN
           /\ setup.ids \in BOOLEAN /\ setup.honours \in BOOLEAN
           /\ setup.steps \in Nat /\ setup.kind \in {"manual", "error"}
           /\ setup.contract \in {"sse", "sync"}
           /\ Attempts \in Nat /\ Attempts >= 1 /\ Attempts <= Repeat
           /\ (~setup.retryable => Attempts = 1)
           /\ Repeat \in Nat /\ MaxRetries \in Nat /\ Parts \in Nat /\ Parts >= 1
  BY ExecutionAssumption DEF ExecutionAssumption, SetupOK, TypeOK, Attempts
-----------------------------------------------------------------------------
(* The steps.                                                              *)

\* The samples that were begun are counted, and a pass or fail is written at the end.
LEMMA StepCounted == CaseInv /\ [Next]_vars => Counted'
<1> SUFFICES ASSUME CaseInv, [Next]_vars PROVE Counted'
  OBVIOUS
<1>0. /\ TypeOK /\ Counted /\ Attempts \in Nat /\ Attempts >= 1
  BY SetupKnown DEF CaseInv
<1>1. CASE Begin
  BY <1>0, <1>1
     DEF Begin, attemptVars, Counted, InAttempt, TypeOK, SaveResult, PassFail, NoRow, RowFields,
         Attempts
<1>2. CASE Stop
  BY <1>0, <1>2
     DEF Stop, attemptVars, Counted, InAttempt, TypeOK, StopsHere, RowFields, Attempts
<1>3. CASE StartSample
  BY <1>0, <1>3
     DEF StartSample, Counted, InAttempt, TypeOK, StartAttempt, StopsHere, RowFields, Attempts
<1>4. CASE ResetRaises
  BY <1>0, <1>4
     DEF ResetRaises, attemptVars, Counted, InAttempt, TypeOK, StopsHere, RowFields, Attempts
<1>5. CASE PrepareStep
  BY <1>0, <1>5 DEF PrepareStep, Counted, InAttempt, TypeOK, RowFields, Attempts
<1>6. CASE PrepareRaises
  BY <1>0, <1>6
     DEF PrepareRaises, attemptVars, Counted, InAttempt, TypeOK, Finish, RowFields, Attempts
<1>7. CASE BuildRequest
  BY <1>0, <1>7
     DEF BuildRequest, attemptVars, Counted, InAttempt, TypeOK, Finish, RowFields, Attempts
<1>8. CASE SendRaises
  BY <1>0, <1>8
     DEF SendRaises, attemptVars, Counted, InAttempt, TypeOK, Finish, RowFields, Attempts
<1>9. CASE Refused
  BY <1>0, <1>9 DEF Refused, Counted, InAttempt, TypeOK, Finish, RowFields, Attempts
<1>10. CASE OpenStream
  BY <1>0, <1>10 DEF OpenStream, Counted, InAttempt, TypeOK, RowFields, Attempts
<1>11. CASE SyncAnswer
  BY <1>0, <1>11 DEF SyncAnswer, Counted, InAttempt, TypeOK, Finish, RowFields, Attempts
<1>12. CASE Frame
  BY <1>0, <1>12 DEF Frame, Counted, InAttempt, TypeOK, Finish, RowFields, Attempts
<1>13. CASE BadFrame
  BY <1>0, <1>13 DEF BadFrame, Counted, InAttempt, TypeOK, Finish, RowFields, Attempts
<1>14. CASE Broken
  BY <1>0, <1>14 DEF Broken, Counted, InAttempt, TypeOK, Finish, RowFields, Attempts
<1>15. CASE Closed
  BY <1>0, <1>15 DEF Closed, Counted, InAttempt, TypeOK, Finish, RowFields, Attempts
<1>16. CASE Retry
  BY <1>0, <1>16
     DEF Retry, Counted, InAttempt, TypeOK, StartAttempt, RowFields, Attempts, TriesAgain
<1>17. CASE SampleDone
  BY <1>0, <1>17
     DEF SampleDone, attemptVars, Counted, InAttempt, TypeOK, SaveResult, PassFail, NoRow,
         RowFields, Attempts
<1>18. CASE SampleFailed
  BY <1>0, <1>18
     DEF SampleFailed, attemptVars, Counted, InAttempt, TypeOK, SaveResult, PassFail, NoRow,
         RowFields, Attempts, TriesAgain
<1>19. CASE Cancel
  BY <1>0, <1>19 DEF Cancel, attemptVars, Counted, InAttempt, TypeOK, RowFields, Attempts
<1>20. CASE Salvage
  BY <1>0, <1>20
     DEF Salvage, attemptVars, Counted, InAttempt, TypeOK, NoRow, RowFields, Attempts
<1>21. CASE UNCHANGED vars
  BY <1>0, <1>21 DEF vars, attemptVars, Counted, InAttempt, TypeOK, RowFields, Attempts
<1> QED
  BY <1>1, <1>2, <1>3, <1>4, <1>5, <1>6, <1>7, <1>8, <1>9, <1>10, <1>11, <1>12,
     <1>13, <1>14, <1>15, <1>16, <1>17, <1>18, <1>19, <1>20, <1>21
     DEF Next, Execute

\* A row is earned.
LEMMA StepEarned == CaseInv /\ [Next]_vars => RowIsEarned'
<1> SUFFICES ASSUME CaseInv, [Next]_vars PROVE RowIsEarned'
  OBVIOUS
<1>0. /\ TypeOK /\ Counted /\ RowIsEarned /\ Attempts \in Nat /\ Attempts >= 1
  BY SetupKnown DEF CaseInv
<1>1. CASE Begin
  BY <1>0, <1>1
     DEF Begin, attemptVars, Counted, InAttempt, RowIsEarned, TypeOK, SaveResult, PassFail,
         NoRow, RowFields, Attempts
<1>2. CASE Stop
  BY <1>0, <1>2
     DEF Stop, attemptVars, Counted, InAttempt, RowIsEarned, TypeOK, RowFields, Attempts
<1>3. CASE StartSample
  BY <1>0, <1>3
     DEF StartSample, Counted, InAttempt, RowIsEarned, TypeOK, StartAttempt, RowFields, Attempts
<1>4. CASE ResetRaises
  BY <1>0, <1>4
     DEF ResetRaises, attemptVars, Counted, InAttempt, RowIsEarned, TypeOK, RowFields, Attempts
<1>5. CASE PrepareStep
  BY <1>0, <1>5 DEF PrepareStep, Counted, InAttempt, RowIsEarned, TypeOK, RowFields, Attempts
<1>6. CASE PrepareRaises
  BY <1>0, <1>6
     DEF PrepareRaises, attemptVars, Counted, InAttempt, RowIsEarned, TypeOK, Finish, RowFields,
         Attempts
<1>7. CASE BuildRequest
  BY <1>0, <1>7
     DEF BuildRequest, attemptVars, Counted, InAttempt, RowIsEarned, TypeOK, Finish, RowFields,
         Attempts
<1>8. CASE SendRaises
  BY <1>0, <1>8
     DEF SendRaises, attemptVars, Counted, InAttempt, RowIsEarned, TypeOK, Finish, RowFields,
         Attempts
<1>9. CASE Refused
  BY <1>0, <1>9
     DEF Refused, Counted, InAttempt, RowIsEarned, TypeOK, Finish, RowFields, Attempts
<1>10. CASE OpenStream
  BY <1>0, <1>10 DEF OpenStream, Counted, InAttempt, RowIsEarned, TypeOK, RowFields, Attempts
<1>11. CASE SyncAnswer
  BY <1>0, <1>11
     DEF SyncAnswer, Counted, InAttempt, RowIsEarned, TypeOK, Finish, RowFields, Attempts
<1>12. CASE Frame
  BY <1>0, <1>12 DEF Frame, Counted, InAttempt, RowIsEarned, TypeOK, Finish, RowFields, Attempts
<1>13. CASE BadFrame
  BY <1>0, <1>13
     DEF BadFrame, Counted, InAttempt, RowIsEarned, TypeOK, Finish, RowFields, Attempts
<1>14. CASE Broken
  BY <1>0, <1>14
     DEF Broken, Counted, InAttempt, RowIsEarned, TypeOK, Finish, RowFields, Attempts
<1>15. CASE Closed
  BY <1>0, <1>15
     DEF Closed, Counted, InAttempt, RowIsEarned, TypeOK, Finish, RowFields, Attempts
<1>16. CASE Retry
  BY <1>0, <1>16
     DEF Retry, Counted, InAttempt, RowIsEarned, TypeOK, StartAttempt, RowFields, Attempts
<1>17. CASE SampleDone
  BY <1>0, <1>17
     DEF SampleDone, attemptVars, Counted, InAttempt, RowIsEarned, TypeOK, SaveResult, PassFail,
         NoRow, RowFields, Attempts
<1>18. CASE SampleFailed
  BY <1>0, <1>18
     DEF SampleFailed, attemptVars, Counted, InAttempt, RowIsEarned, TypeOK, SaveResult,
         PassFail, NoRow, RowFields, Attempts
<1>19. CASE Cancel
  BY <1>0, <1>19
     DEF Cancel, attemptVars, Counted, InAttempt, RowIsEarned, TypeOK, RowFields, Attempts
<1>20. CASE Salvage
  BY <1>0, <1>20
     DEF Salvage, attemptVars, Counted, InAttempt, RowIsEarned, TypeOK, NoRow, RowFields,
         Attempts
<1>21. CASE UNCHANGED vars
  BY <1>0, <1>21
     DEF vars, attemptVars, Counted, InAttempt, RowIsEarned, TypeOK, RowFields, Attempts
<1> QED
  BY <1>1, <1>2, <1>3, <1>4, <1>5, <1>6, <1>7, <1>8, <1>9, <1>10, <1>11, <1>12,
     <1>13, <1>14, <1>15, <1>16, <1>17, <1>18, <1>19, <1>20, <1>21
     DEF Next, Execute

\* The agent is not called beyond the budget of the attempts.
LEMMA StepBudget == CaseInv /\ [Next]_vars => Budget'
<1> SUFFICES ASSUME CaseInv, [Next]_vars PROVE Budget'
  OBVIOUS
<1>0. TypeOK /\ Budget /\ Numbered /\ MaxRetries \in Nat
  BY SetupKnown DEF CaseInv
<1>1. CASE Begin
  BY <1>0, <1>1 DEF Begin, attemptVars, Budget, Resumable, TypeOK, SaveResult
<1>2. CASE Stop
  BY <1>0, <1>2 DEF Stop, attemptVars, Budget, Resumable, TypeOK
<1>3. CASE StartSample
  BY <1>0, <1>3 DEF StartSample, Budget, Resumable, TypeOK, StartAttempt
<1>4. CASE ResetRaises
  BY <1>0, <1>4 DEF ResetRaises, attemptVars, Budget, Resumable, TypeOK
<1>5. CASE PrepareStep
  BY <1>0, <1>5 DEF PrepareStep, Budget, Resumable, TypeOK
<1>6. CASE PrepareRaises
  BY <1>0, <1>6 DEF PrepareRaises, attemptVars, Budget, Resumable, TypeOK, Finish
<1>7. CASE BuildRequest
  BY <1>0, <1>7 DEF BuildRequest, attemptVars, Budget, Resumable, TypeOK, Finish
<1>8. CASE SendRaises
  BY <1>0, <1>8 DEF SendRaises, attemptVars, Budget, Resumable, TypeOK, Finish
<1>9. CASE Refused
  BY <1>0, <1>9 DEF Refused, Budget, Resumable, TypeOK, Finish
<1>10. CASE OpenStream
  BY <1>0, <1>10 DEF OpenStream, Budget, Resumable, TypeOK
<1>11. CASE SyncAnswer
  BY <1>0, <1>11 DEF SyncAnswer, Budget, Resumable, TypeOK, Finish
<1>12. CASE Frame
  BY <1>0, <1>12 DEF Frame, Budget, Resumable, TypeOK, Finish
<1>13. CASE BadFrame
  BY <1>0, <1>13 DEF BadFrame, Budget, Resumable, TypeOK, Finish
<1>14. CASE Broken
  BY <1>0, <1>14 DEF Broken, Budget, Resumable, TypeOK, Finish
<1>15. CASE Closed
  BY <1>0, <1>15 DEF Closed, Budget, Resumable, TypeOK, Finish, Resumes, Numbered, Reading
<1>16. CASE Retry
  BY <1>0, <1>16 DEF Retry, Budget, Resumable, TypeOK, StartAttempt, TriesAgain
<1>17. CASE SampleDone
  BY <1>0, <1>17 DEF SampleDone, attemptVars, Budget, Resumable, TypeOK, SaveResult
<1>18. CASE SampleFailed
  BY <1>0, <1>18 DEF SampleFailed, attemptVars, Budget, Resumable, TypeOK, SaveResult, TriesAgain
<1>19. CASE Cancel
  BY <1>0, <1>19 DEF Cancel, attemptVars, Budget, Resumable, TypeOK
<1>20. CASE Salvage
  BY <1>0, <1>20 DEF Salvage, attemptVars, Budget, Resumable, TypeOK
<1>21. CASE UNCHANGED vars
  BY <1>0, <1>21 DEF vars, attemptVars, Budget, Resumable, TypeOK
<1> QED
  BY <1>1, <1>2, <1>3, <1>4, <1>5, <1>6, <1>7, <1>8, <1>9, <1>10, <1>11, <1>12,
     <1>13, <1>14, <1>15, <1>16, <1>17, <1>18, <1>19, <1>20, <1>21
     DEF Next, Execute

\* What errors become is an error type.
LEMMA Classified ==
    /\ \A exc : Classify(exc) \in Errors /\ ClassifyPrepare(exc) \in Errors
    /\ \A st : ClassifyStatus(st) \in Errors
    /\ \A seen : CheckContract(seen) \in Errors \cup {"ok"}
  BY DEF Classify, ClassifyPrepare, ClassifyStatus, CheckContract, Errors

\* A frame of a delta is there already, or it is added behind the others.
LEMMA KeptIs ==
    ASSUME NEW kept \in Seq(1..Parts), NEW f \in 1..Parts
    PROVE  /\ KeepNew(kept, f) \in Seq(1..Parts)
           /\ \/ KeepNew(kept, f) = kept /\ \E i \in DOMAIN kept : kept[i] = f
              \/ /\ \A i \in DOMAIN kept : kept[i] # f
                 /\ Len(KeepNew(kept, f)) = Len(kept) + 1
                 /\ DOMAIN KeepNew(kept, f) = DOMAIN kept \cup {Len(kept) + 1}
                 /\ KeepNew(kept, f)[Len(kept) + 1] = f
                 /\ \A i \in DOMAIN kept : KeepNew(kept, f)[i] = kept[i]
<1>1. CASE \E i \in DOMAIN kept : kept[i] = f
  BY <1>1 DEF KeepNew
<1>2. CASE \A i \in DOMAIN kept : kept[i] # f
  <2>1. KeepNew(kept, f) = Append(kept, f)
    BY <1>2 DEF KeepNew
  <2>2. /\ Append(kept, f) \in Seq(1..Parts) /\ Len(Append(kept, f)) = Len(kept) + 1
        /\ Append(kept, f)[Len(kept) + 1] = f
        /\ \A i \in 1..Len(kept) : Append(kept, f)[i] = kept[i]
    BY AppendProperties
  <2>3. Len(kept) \in Nat /\ DOMAIN kept = 1..Len(kept)
    OBVIOUS
  <2>4. DOMAIN Append(kept, f) = DOMAIN kept \cup {Len(kept) + 1}
    BY <2>2, <2>3
  <2> QED
    BY <1>2, <2>1, <2>2, <2>3, <2>4
<1> QED
  BY <1>1, <1>2

\* The row that is saved is a row.
LEMMA SavedType ==
    ASSUME TypeOK, NEW result \in Errors \cup {"none", "ok", "interface_disabled"}, SaveResult(result)
    PROVE  row' \in RowFields
<1>1. PICK T : T = Seq(1..Parts)
  OBVIOUS
<1>2. parts \in T /\ <<>> \in T /\ sample \in 0..Repeat /\ 0 \in 0..Repeat /\ row \in RowFields
  BY <1>1, EmptySeq, SetupKnown DEF TypeOK
<1>3. RowFields = [pf : {"none", "pass", "fail", "na", "error"},
                   error : Errors \cup {"none", "ok", "interface_disabled", "not_executed"},
                   parts : T, samples : 0..Repeat]
  BY <1>1 DEF RowFields
<1> QED
  BY <1>2, <1>3 DEF SaveResult, PassFail

\* The types, taken apart: where the coroutine is, the stream, what it has kept, and the result.
ControlType ==
    /\ setup \in Setups
    /\ pc \in {"begin", "sample", "prepare", "send", "stream", "decide", "end", "raised"}
    /\ sample \in 0..Attempts /\ try \in 0..MaxRetries /\ step \in 0..setup.steps
    /\ prepared \in BOOLEAN /\ resumed \in BOOLEAN /\ cancelled \in BOOLEAN
    /\ good \in 0..Attempts /\ calls \in Nat
StreamType ==
    /\ parser.last \in 0..Done /\ parser.left \in {"nothing", "line", "data"}
    /\ parser = [last |-> parser.last, left |-> parser.left]
    /\ pos \in 1..(Done + 1) /\ saw \subseteq {"usage", "done"}
    /\ scars \subseteq {"numbered", "torn", "broken", "stale"}
PartsType == parts \in Seq(1..Parts)
ResultType == outcome \in Errors \cup {"none", "ok"} /\ row \in RowFields

\* The type invariant in four parts.
LEMMA TypeParts == TypeOK <=> ControlType /\ StreamType /\ PartsType /\ ResultType
<1>1. parser \in [last : 0..Done, left : {"nothing", "line", "data"}]
        <=> /\ parser.last \in 0..Done /\ parser.left \in {"nothing", "line", "data"}
            /\ parser = [last |-> parser.last, left |-> parser.left]
  OBVIOUS
<1> QED
  BY <1>1 DEF TypeOK, ControlType, StreamType, PartsType, ResultType

\* Where the coroutine is.
LEMMA StepControlType == CaseInv /\ [Next]_vars => ControlType'
<1> SUFFICES ASSUME CaseInv, [Next]_vars PROVE ControlType'
  OBVIOUS
<1>0. /\ ControlType /\ StreamType /\ PartsType /\ ResultType
      /\ Counted /\ Attempts \in Nat /\ Attempts >= 1 /\ setup.steps \in Nat
      /\ MaxRetries \in Nat /\ Repeat \in Nat /\ Parts \in Nat /\ Parts >= 1 /\ Done = Parts + 2
  BY SetupKnown, TypeParts DEF CaseInv, Done
<1>1. CASE Begin
  BY <1>0, <1>1 DEF Begin, attemptVars, ControlType, Attempts, Counted, InAttempt, SaveResult
<1>2. CASE Stop
  BY <1>0, <1>2 DEF Stop, attemptVars, ControlType, Attempts, Counted, InAttempt
<1>3. CASE StartSample
  <2>1. sample' \in 0..Attempts /\ sample' \in Nat
    BY <1>0, <1>3 DEF StartSample, ControlType, Counted, TriesAgain
  <2>2. Attempts' = Attempts /\ 0 \in 0..setup.steps /\ 0 \in 0..MaxRetries
    BY <1>0, <1>3 DEF StartSample, Attempts
  <2> QED
    BY <1>0, <1>3, <2>1, <2>2 DEF StartSample, StartAttempt, ControlType
<1>4. CASE ResetRaises
  BY <1>0, <1>4 DEF ResetRaises, attemptVars, ControlType, Attempts, Counted, InAttempt
<1>5. CASE PrepareStep
  BY <1>0, <1>5 DEF PrepareStep, ControlType, Attempts, Counted, InAttempt
<1>6. CASE PrepareRaises
  BY <1>0, <1>6
     DEF PrepareRaises, attemptVars, ControlType, Attempts, Counted, InAttempt, Finish
<1>7. CASE BuildRequest
  BY <1>0, <1>7
     DEF BuildRequest, attemptVars, ControlType, Attempts, Counted, InAttempt, Finish
<1>8. CASE SendRaises
  BY <1>0, <1>8 DEF SendRaises, attemptVars, ControlType, Attempts, Counted, InAttempt, Finish
<1>9. CASE Refused
  BY <1>0, <1>9 DEF Refused, ControlType, Attempts, Counted, InAttempt, Finish
<1>10. CASE OpenStream
  BY <1>0, <1>10 DEF OpenStream, ControlType, Attempts, Counted, InAttempt
<1>11. CASE SyncAnswer
  BY <1>0, <1>11 DEF SyncAnswer, ControlType, Attempts, Counted, InAttempt, Finish
<1>12. CASE Frame
  BY <1>0, <1>12 DEF Frame, ControlType, Attempts, Counted, InAttempt, Finish
<1>13. CASE BadFrame
  BY <1>0, <1>13 DEF BadFrame, ControlType, Attempts, Counted, InAttempt, Finish
<1>14. CASE Broken
  BY <1>0, <1>14 DEF Broken, ControlType, Attempts, Counted, InAttempt, Finish
<1>15. CASE Closed
  BY <1>0, <1>15 DEF Closed, ControlType, Attempts, Counted, InAttempt, Finish, Resumes
<1>16. CASE Retry
  <2>1. try' \in 0..MaxRetries
    BY <1>0, <1>16 DEF Retry, ControlType, Counted, TriesAgain
  <2>2. Attempts' = Attempts /\ 0 \in 0..setup.steps /\ 0 \in 0..MaxRetries
    BY <1>0, <1>16 DEF Retry, Attempts
  <2> QED
    BY <1>0, <1>16, <2>1, <2>2 DEF Retry, StartAttempt, ControlType
<1>17. CASE SampleDone
  BY <1>0, <1>17 DEF SampleDone, attemptVars, ControlType, Attempts, Counted, InAttempt, SaveResult
<1>18. CASE SampleFailed
  BY <1>0, <1>18
     DEF SampleFailed, attemptVars, ControlType, Attempts, Counted, InAttempt, TriesAgain,
         SaveResult
<1>19. CASE Cancel
  BY <1>0, <1>19 DEF Cancel, attemptVars, ControlType, Attempts, Counted, InAttempt
<1>20. CASE Salvage
  BY <1>0, <1>20 DEF Salvage, attemptVars, ControlType, Attempts, Counted, InAttempt
<1>21. CASE UNCHANGED vars
  BY <1>0, <1>21 DEF vars, attemptVars, ControlType, Attempts, Counted, InAttempt
<1> QED
  BY <1>1, <1>2, <1>3, <1>4, <1>5, <1>6, <1>7, <1>8, <1>9, <1>10, <1>11, <1>12,
     <1>13, <1>14, <1>15, <1>16, <1>17, <1>18, <1>19, <1>20, <1>21
     DEF Next, Execute

\* The stream and what the parser keeps of it.
LEMMA StepStreamType == CaseInv /\ [Next]_vars => StreamType'
<1> SUFFICES ASSUME CaseInv, [Next]_vars PROVE StreamType'
  OBVIOUS
<1>0. /\ ControlType /\ StreamType /\ PartsType /\ ResultType
      /\ Counted /\ Attempts \in Nat /\ Attempts >= 1 /\ setup.steps \in Nat
      /\ MaxRetries \in Nat /\ Repeat \in Nat /\ Parts \in Nat /\ Parts >= 1 /\ Done = Parts + 2
  BY SetupKnown, TypeParts DEF CaseInv, Done
<1>1. CASE Begin
  BY <1>0, <1>1 DEF Begin, attemptVars, StreamType
<1>2. CASE Stop
  BY <1>0, <1>2 DEF Stop, attemptVars, StreamType
<1>3. CASE StartSample
  BY <1>0, <1>3 DEF StartSample, StreamType, StartAttempt
<1>4. CASE ResetRaises
  BY <1>0, <1>4 DEF ResetRaises, attemptVars, StreamType
<1>5. CASE PrepareStep
  BY <1>0, <1>5 DEF PrepareStep, StreamType
<1>6. CASE PrepareRaises
  BY <1>0, <1>6 DEF PrepareRaises, attemptVars, StreamType
<1>7. CASE BuildRequest
  BY <1>0, <1>7 DEF BuildRequest, attemptVars, StreamType
<1>8. CASE SendRaises
  BY <1>0, <1>8 DEF SendRaises, attemptVars, StreamType
<1>9. CASE Refused
  BY <1>0, <1>9 DEF Refused, StreamType
<1>10. CASE OpenStream
  BY <1>0, <1>10 DEF OpenStream, StreamType
<1>11. CASE SyncAnswer
  BY <1>0, <1>11 DEF SyncAnswer, StreamType, IngestSync, ParsedSync
<1>12. CASE Frame
  <2>1. saw' \subseteq {"usage", "done"}
    BY <1>0, <1>12 DEF Frame, OnEvent, StreamType
  <2>2. LastId(pos) \in 0..Done
    BY <1>0, <1>12 DEF Frame, LastId, StreamType
  <2>3. /\ parser'.last \in 0..Done /\ parser'.left \in {"nothing", "line", "data"}
        /\ parser' = [last |-> parser'.last, left |-> parser'.left]
    BY <1>0, <1>12, <2>2 DEF Frame, StreamType
  <2>4. pos' \in 1..(Done + 1) /\ scars' \subseteq {"numbered", "torn", "broken", "stale"}
    BY <1>0, <1>12 DEF Frame, StreamType
  <2> QED
    BY <2>1, <2>3, <2>4 DEF StreamType
<1>13. CASE BadFrame
  BY <1>0, <1>13 DEF BadFrame, StreamType
<1>14. CASE Broken
  <2>1. PICK cut \in {"between", "line", "data"} : parser' = [parser EXCEPT !.left = LeftBy(@, cut)]
    BY <1>14 DEF Broken, LeaveOff, Cuts
  <2>2. LeftBy(parser.left, cut) \in {"nothing", "line", "data"}
    BY <1>0 DEF LeftBy, StreamType
  <2>3. parser' = [last |-> parser.last, left |-> LeftBy(parser.left, cut)]
    BY <1>0, <2>1 DEF StreamType
  <2>4. scars' \subseteq {"numbered", "torn", "broken", "stale"}
    BY <1>0, <1>14 DEF Broken, LeaveOff, StreamType
  <2> QED
    BY <1>0, <1>14, <2>2, <2>3, <2>4 DEF Broken, StreamType
<1>15. CASE Closed
  <2>1. PICK cut \in {"between", "line", "data"} : parser' = [parser EXCEPT !.left = LeftBy(@, cut)]
    BY <1>15 DEF Closed, LeaveOff, Cuts
  <2>2. LeftBy(parser.left, cut) \in {"nothing", "line", "data"}
    BY <1>0 DEF LeftBy, StreamType
  <2>3. parser' = [last |-> parser.last, left |-> LeftBy(parser.left, cut)]
    BY <1>0, <2>1 DEF StreamType
  <2>4. scars' \subseteq {"numbered", "torn", "broken", "stale"}
    BY <1>0, <1>15 DEF Closed, LeaveOff, StreamType
  <2> QED
    BY <1>0, <1>15, <2>2, <2>3, <2>4 DEF Closed, StreamType
<1>16. CASE Retry
  BY <1>0, <1>16 DEF Retry, StreamType, StartAttempt
<1>17. CASE SampleDone
  BY <1>0, <1>17 DEF SampleDone, attemptVars, StreamType
<1>18. CASE SampleFailed
  BY <1>0, <1>18 DEF SampleFailed, attemptVars, StreamType
<1>19. CASE Cancel
  BY <1>0, <1>19 DEF Cancel, attemptVars, StreamType
<1>20. CASE Salvage
  BY <1>0, <1>20 DEF Salvage, attemptVars, StreamType
<1>21. CASE UNCHANGED vars
  BY <1>0, <1>21 DEF vars, attemptVars, StreamType
<1> QED
  BY <1>1, <1>2, <1>3, <1>4, <1>5, <1>6, <1>7, <1>8, <1>9, <1>10, <1>11, <1>12,
     <1>13, <1>14, <1>15, <1>16, <1>17, <1>18, <1>19, <1>20, <1>21
     DEF Next, Execute

\* The deltas that are kept.
LEMMA StepPartsType == CaseInv /\ [Next]_vars => PartsType'
<1> SUFFICES ASSUME CaseInv, [Next]_vars PROVE PartsType'
  OBVIOUS
<1>0. /\ ControlType /\ StreamType /\ PartsType /\ ResultType
      /\ Counted /\ Attempts \in Nat /\ Attempts >= 1 /\ setup.steps \in Nat
      /\ MaxRetries \in Nat /\ Repeat \in Nat /\ Parts \in Nat /\ Parts >= 1 /\ Done = Parts + 2
  BY SetupKnown, TypeParts DEF CaseInv, Done
<1>1. CASE Begin
  BY <1>0, <1>1 DEF Begin, attemptVars, PartsType
<1>2. CASE Stop
  BY <1>0, <1>2 DEF Stop, attemptVars, PartsType
<1>3. CASE StartSample
  BY <1>3, EmptySeq DEF StartSample, StartAttempt, PartsType
<1>4. CASE ResetRaises
  BY <1>0, <1>4 DEF ResetRaises, attemptVars, PartsType
<1>5. CASE PrepareStep
  BY <1>0, <1>5 DEF PrepareStep, PartsType
<1>6. CASE PrepareRaises
  BY <1>0, <1>6 DEF PrepareRaises, attemptVars, PartsType
<1>7. CASE BuildRequest
  BY <1>0, <1>7 DEF BuildRequest, attemptVars, PartsType
<1>8. CASE SendRaises
  BY <1>0, <1>8 DEF SendRaises, attemptVars, PartsType
<1>9. CASE Refused
  BY <1>0, <1>9 DEF Refused, PartsType
<1>10. CASE OpenStream
  BY <1>0, <1>10 DEF OpenStream, PartsType
<1>11. CASE SyncAnswer
  <2>1. [i \in 1..Parts |-> i] \in Seq(1..Parts)
    BY <1>0, IsASeq
  <2>2. parts' = [i \in 1..Parts |-> i] \/ parts' = parts
    BY <1>11 DEF SyncAnswer, IngestSync
  <2> QED
    BY <1>0, <2>1, <2>2 DEF PartsType
<1>12. CASE Frame
  <2>1. parts' = parts \/ (pos \in 1..Parts /\ parts' = KeepNew(parts, pos))
    BY <1>0, <1>12 DEF Frame, OnEvent, StreamType
  <2>2. parts \in Seq(1..Parts)
    BY <1>0 DEF PartsType
  <2>3. pos \in 1..Parts => KeepNew(parts, pos) \in Seq(1..Parts)
    BY <2>2, KeptIs
  <2> QED
    BY <2>1, <2>2, <2>3 DEF PartsType
<1>13. CASE BadFrame
  BY <1>0, <1>13 DEF BadFrame, PartsType
<1>14. CASE Broken
  BY <1>0, <1>14 DEF Broken, PartsType
<1>15. CASE Closed
  BY <1>0, <1>15 DEF Closed, PartsType
<1>16. CASE Retry
  BY <1>16, EmptySeq DEF Retry, StartAttempt, PartsType
<1>17. CASE SampleDone
  BY <1>0, <1>17 DEF SampleDone, attemptVars, PartsType
<1>18. CASE SampleFailed
  BY <1>0, <1>18 DEF SampleFailed, attemptVars, PartsType
<1>19. CASE Cancel
  BY <1>0, <1>19 DEF Cancel, attemptVars, PartsType
<1>20. CASE Salvage
  BY <1>0, <1>20 DEF Salvage, attemptVars, PartsType
<1>21. CASE UNCHANGED vars
  BY <1>0, <1>21 DEF vars, attemptVars, PartsType
<1> QED
  BY <1>1, <1>2, <1>3, <1>4, <1>5, <1>6, <1>7, <1>8, <1>9, <1>10, <1>11, <1>12,
     <1>13, <1>14, <1>15, <1>16, <1>17, <1>18, <1>19, <1>20, <1>21
     DEF Next, Execute

\* The outcome of an attempt and the row.
LEMMA StepResultType == CaseInv /\ [Next]_vars => ResultType'
<1> SUFFICES ASSUME CaseInv, [Next]_vars PROVE ResultType'
  OBVIOUS
<1>0. /\ ControlType /\ StreamType /\ PartsType /\ ResultType
      /\ Counted /\ Attempts \in Nat /\ Attempts >= 1 /\ setup.steps \in Nat
      /\ MaxRetries \in Nat /\ Repeat \in Nat /\ Parts \in Nat /\ Parts >= 1 /\ Done = Parts + 2
  BY SetupKnown, TypeParts DEF CaseInv, Done
<1>1. CASE Begin
  <2>1. row' = row \/ \E result \in Errors \cup {"none", "ok", "interface_disabled"} : SaveResult(result)
    BY <1>0, <1>1 DEF Begin, ResultType
  <2>2. row' \in RowFields
    BY <1>0, <2>1, SavedType, TypeParts DEF ResultType
  <2> QED
    BY <1>0, <1>1, <2>2 DEF Begin, ResultType
<1>2. CASE Stop
  BY <1>0, <1>2 DEF Stop, ResultType
<1>3. CASE StartSample
  BY <1>0, <1>3 DEF StartSample, ResultType
<1>4. CASE ResetRaises
  BY <1>0, <1>4 DEF ResetRaises, ResultType
<1>5. CASE PrepareStep
  BY <1>0, <1>5 DEF PrepareStep, ResultType
<1>6. CASE PrepareRaises
  BY <1>0, <1>6, Classified DEF PrepareRaises, Finish, Errors, ResultType
<1>7. CASE BuildRequest
  BY <1>0, <1>7, Classified DEF BuildRequest, Finish, Errors, ResultType
<1>8. CASE SendRaises
  BY <1>0, <1>8, Classified DEF SendRaises, Finish, Errors, ResultType
<1>9. CASE Refused
  BY <1>0, <1>9, Classified DEF Refused, Finish, Errors, ResultType
<1>10. CASE OpenStream
  BY <1>0, <1>10 DEF OpenStream, ResultType
<1>11. CASE SyncAnswer
  BY <1>0, <1>11, Classified DEF SyncAnswer, Finish, Errors, ResultType
<1>12. CASE Frame
  BY <1>0, <1>12, Classified DEF Frame, Finish, Errors, ResultType
<1>13. CASE BadFrame
  BY <1>0, <1>13, Classified DEF BadFrame, Finish, Errors, ResultType
<1>14. CASE Broken
  BY <1>0, <1>14, Classified DEF Broken, Finish, Errors, ResultType
<1>15. CASE Closed
  BY <1>0, <1>15, Classified DEF Closed, Finish, Errors, ResultType
<1>16. CASE Retry
  BY <1>0, <1>16 DEF Retry, ResultType
<1>17. CASE SampleDone
  <2>1. row' = row \/ \E result \in Errors \cup {"none", "ok", "interface_disabled"} : SaveResult(result)
    BY <1>0, <1>17 DEF SampleDone, ResultType
  <2>2. row' \in RowFields
    BY <1>0, <2>1, SavedType, TypeParts DEF ResultType
  <2> QED
    BY <1>0, <1>17, <2>2 DEF SampleDone, ResultType
<1>18. CASE SampleFailed
  <2>1. row' = row \/ \E result \in Errors \cup {"none", "ok", "interface_disabled"} : SaveResult(result)
    BY <1>0, <1>18 DEF SampleFailed, ResultType
  <2>2. row' \in RowFields
    BY <1>0, <2>1, SavedType, TypeParts DEF ResultType
  <2> QED
    BY <1>0, <1>18, <2>2 DEF SampleFailed, ResultType
<1>19. CASE Cancel
  BY <1>0, <1>19 DEF Cancel, ResultType
<1>20. CASE Salvage
  <2>1. row' = [pf |-> "error", error |-> "not_executed", parts |-> <<>>, samples |-> 0]
    BY <1>20 DEF Salvage, NoRow
  <2>2. <<>> \in Seq(1..Parts) /\ 0 \in 0..Repeat
    BY <1>0, EmptySeq
  <2>3. row' \in RowFields
    BY <2>1, <2>2 DEF RowFields
  <2> QED
    BY <1>0, <1>20, <2>3 DEF Salvage, ResultType
<1>21. CASE UNCHANGED vars
  BY <1>0, <1>21 DEF vars, attemptVars, ResultType
<1> QED
  BY <1>1, <1>2, <1>3, <1>4, <1>5, <1>6, <1>7, <1>8, <1>9, <1>10, <1>11, <1>12,
     <1>13, <1>14, <1>15, <1>16, <1>17, <1>18, <1>19, <1>20, <1>21
     DEF Next, Execute

\* What the last id says of the place in the stream.
LEMMA StepNumbered == CaseInv /\ [Next]_vars => Numbered'
<1> SUFFICES ASSUME CaseInv, [Next]_vars PROVE Numbered'
  OBVIOUS
<1>0. /\ Numbered /\ ControlType /\ StreamType /\ PartsType /\ Parts \in Nat /\ Parts >= 1
      /\ setup.ids \in BOOLEAN /\ Done = Parts + 2 /\ setup.contract \in {"sse", "sync"}
  BY SetupKnown, TypeParts DEF CaseInv, Done
<1>1. CASE Begin
  BY <1>0, <1>1 DEF Begin, attemptVars, Numbered, Reading, SaveResult
<1>2. CASE Stop
  BY <1>0, <1>2 DEF Stop, attemptVars, Numbered, Reading
<1>3. CASE StartSample
  BY <1>0, <1>3 DEF StartSample, Numbered, Reading, StartAttempt
<1>4. CASE ResetRaises
  BY <1>0, <1>4 DEF ResetRaises, attemptVars, Numbered, Reading
<1>5. CASE PrepareStep
  BY <1>0, <1>5 DEF PrepareStep, Numbered, Reading
<1>6. CASE PrepareRaises
  BY <1>0, <1>6 DEF PrepareRaises, attemptVars, Numbered, Reading, Finish
<1>7. CASE BuildRequest
  BY <1>0, <1>7 DEF BuildRequest, attemptVars, Numbered, Reading, Finish
<1>8. CASE SendRaises
  BY <1>0, <1>8 DEF SendRaises, attemptVars, Numbered, Reading, Finish
<1>9. CASE Refused
  BY <1>0, <1>9 DEF Refused, Numbered, Reading, Finish
<1>10. CASE OpenStream
  BY <1>0, <1>10 DEF OpenStream, Numbered, Reading
<1>11. CASE SyncAnswer
  BY <1>0, <1>11 DEF SyncAnswer, Numbered, Reading, Finish
<1>12. CASE Frame
  <2>1. CASE parser.left = "data"
    <3>1. pc' = "decide" /\ UNCHANGED <<setup, parser>>
      BY <1>0, <1>12, <2>1 DEF Frame, Finish
    <3> QED
      BY <1>0, <3>1 DEF Numbered, Reading
  <2>2. CASE parser.left # "data"
    <3>1. /\ pc = "stream" /\ pc' = "stream" /\ "numbered" \in scars' /\ pos' = pos + 1
          /\ parser'.last = LastId(pos) /\ UNCHANGED <<setup, resumed>>
      BY <1>0, <1>12, <2>2 DEF Frame, StreamType
    <3>2. ~setup.ids => parser'.last = 0
      BY <1>0, <3>1 DEF LastId, Numbered
    <3>3. setup.ids => parser'.last = pos' - 1
      BY <1>0, <3>1 DEF LastId, StreamType
    <3>4. ~resumed' => "stale" \notin scars'
      BY <1>0, <1>12, <3>1 DEF Frame, Numbered
    <3> QED
      BY <1>0, <3>1, <3>2, <3>3, <3>4 DEF Numbered, Reading
  <2> QED
    BY <2>1, <2>2
<1>13. CASE BadFrame
  <2>1. pc' = "decide" /\ UNCHANGED setup /\ parser'.last = parser.last
    BY <1>0, <1>13 DEF BadFrame, Finish, StreamType
  <2> QED
    BY <1>0, <2>1 DEF Numbered, Reading
<1>14. CASE Broken
  <2>1. pc' = "decide" /\ UNCHANGED setup /\ parser'.last = parser.last
    BY <1>0, <1>14 DEF Broken, Finish, LeaveOff, StreamType
  <2> QED
    BY <1>0, <2>1 DEF Numbered, Reading
<1>15. CASE Closed
  <2>1. /\ pc = "stream" /\ UNCHANGED <<setup, pos, parts, saw>> /\ parser'.last = parser.last
        /\ scars' \in {scars \cup m : m \in {{}, {"broken"}, {"stale"}, {"stale", "broken"}}}
        /\ "stale" \in scars' <=> "stale" \in scars \/ (Resumes /\ "numbered" \notin scars)
    BY <1>0, <1>15 DEF Closed, LeaveOff, StreamType
  <2>2. CASE ~Resumes
    <3>1. pc' = "decide"
      BY <1>15, <2>2 DEF Closed, Finish
    <3> QED
      BY <1>0, <2>1, <3>1 DEF Numbered, Reading
  <2>3. CASE Resumes
    <3>1. pc' = "send" /\ resumed' /\ ~resumed /\ setup.ids
      BY <1>0, <1>15, <2>3 DEF Closed, Resumes, Numbered
    <3>2. "numbered" \in scars' <=> "numbered" \in scars
      BY <2>1
    <3>3. "stale" \in scars' <=> "numbered" \notin scars
      BY <1>0, <2>1, <2>3, <3>1 DEF Numbered
    <3> QED
      BY <1>0, <2>1, <3>1, <3>2, <3>3 DEF Numbered, Reading
  <2> QED
    BY <2>2, <2>3
<1>16. CASE Retry
  BY <1>0, <1>16 DEF Retry, Numbered, Reading, StartAttempt
<1>17. CASE SampleDone
  BY <1>0, <1>17 DEF SampleDone, attemptVars, Numbered, Reading, SaveResult
<1>18. CASE SampleFailed
  BY <1>0, <1>18 DEF SampleFailed, attemptVars, Numbered, Reading, SaveResult
<1>19. CASE Cancel
  BY <1>0, <1>19 DEF Cancel, attemptVars, Numbered, Reading
<1>20. CASE Salvage
  BY <1>0, <1>20 DEF Salvage, attemptVars, Numbered, Reading
<1>21. CASE UNCHANGED vars
  BY <1>0, <1>21 DEF vars, attemptVars, Numbered, Reading
<1> QED
  BY <1>1, <1>2, <1>3, <1>4, <1>5, <1>6, <1>7, <1>8, <1>9, <1>10, <1>11, <1>12,
     <1>13, <1>14, <1>15, <1>16, <1>17, <1>18, <1>19, <1>20, <1>21
     DEF Next, Execute

\* The deltas kept follow one another.
LEMMA StepConsecutive == CaseInv /\ [Next]_vars => Consecutive'
<1> SUFFICES ASSUME CaseInv, [Next]_vars PROVE Consecutive'
  OBVIOUS
<1>0. /\ Numbered /\ Consecutive /\ ControlType /\ StreamType /\ PartsType /\ Parts \in Nat /\ Parts >= 1
      /\ setup.ids \in BOOLEAN /\ Done = Parts + 2 /\ parts \in Seq(1..Parts)
  BY SetupKnown, TypeParts DEF CaseInv, Done, PartsType
<1>1. CASE Begin
  <2>1. /\ UNCHANGED <<parts, saw, pos, scars>> /\ (Reading' => Reading)
    BY <1>0, <1>1 DEF Begin, attemptVars, Finish, Reading, Numbered, SaveResult
  <2> QED
    BY <1>0, <2>1 DEF Consecutive
<1>2. CASE Stop
  <2>1. /\ UNCHANGED <<parts, saw, pos, scars>> /\ (Reading' => Reading)
    BY <1>0, <1>2 DEF Stop, attemptVars, Finish, Reading, Numbered
  <2> QED
    BY <1>0, <2>1 DEF Consecutive
<1>3. CASE StartSample
  <2>1. parts' = <<>> /\ saw' = {} /\ pos' = 1
    BY <1>3 DEF StartSample, StartAttempt
  <2> QED
    BY <2>1 DEF Consecutive
<1>4. CASE ResetRaises
  <2>1. /\ UNCHANGED <<parts, saw, pos, scars>> /\ (Reading' => Reading)
    BY <1>0, <1>4 DEF ResetRaises, attemptVars, Finish, Reading, Numbered
  <2> QED
    BY <1>0, <2>1 DEF Consecutive
<1>5. CASE PrepareStep
  <2>1. /\ UNCHANGED <<parts, saw, pos, scars>> /\ (Reading' => Reading)
    BY <1>0, <1>5 DEF PrepareStep, attemptVars, Finish, Reading, Numbered
  <2> QED
    BY <1>0, <2>1 DEF Consecutive
<1>6. CASE PrepareRaises
  <2>1. /\ UNCHANGED <<parts, saw, pos, scars>> /\ (Reading' => Reading)
    BY <1>0, <1>6 DEF PrepareRaises, attemptVars, Finish, Reading, Numbered
  <2> QED
    BY <1>0, <2>1 DEF Consecutive
<1>7. CASE BuildRequest
  <2>1. /\ UNCHANGED <<parts, saw, pos, scars>> /\ (Reading' => Reading)
    BY <1>0, <1>7 DEF BuildRequest, attemptVars, Finish, Reading, Numbered
  <2> QED
    BY <1>0, <2>1 DEF Consecutive
<1>8. CASE SendRaises
  <2>1. /\ UNCHANGED <<parts, saw, pos, scars>> /\ (Reading' => Reading)
    BY <1>0, <1>8 DEF SendRaises, attemptVars, Finish, Reading, Numbered
  <2> QED
    BY <1>0, <2>1 DEF Consecutive
<1>9. CASE Refused
  <2>1. /\ UNCHANGED <<parts, saw, pos, scars>> /\ (Reading' => Reading)
    BY <1>0, <1>9 DEF Refused, attemptVars, Finish, Reading, Numbered
  <2> QED
    BY <1>0, <2>1 DEF Consecutive
<1>10. CASE OpenStream
  <2>1. /\ pc = "send" /\ pc' = "stream" /\ UNCHANGED <<parts, saw, scars, resumed>>
        /\ pos' = IF resumed /\ setup.honours THEN parser.last + 1 ELSE 1
    BY <1>10 DEF OpenStream
  <2>2. CASE ~resumed
    <3>1. parts = <<>> /\ saw = {} /\ pos' = 1
      BY <1>0, <2>1, <2>2 DEF Numbered
    <3> QED
      BY <2>1, <3>1 DEF Consecutive
  <2>3. CASE resumed /\ "stale" \in scars
    <3>1. parts = <<>>
      BY <1>0, <2>1, <2>3 DEF Numbered, Reading
    <3> QED
      BY <2>1, <2>3, <3>1 DEF Consecutive
  <2>4. CASE resumed /\ "stale" \notin scars
    <3>1. pos' \in {pos, 1} /\ pos \in Nat
      BY <1>0, <2>1, <2>4 DEF Numbered, Reading, StreamType
    <3>2. parts # <<>> => /\ 1 \in DOMAIN parts /\ Len(parts) \in DOMAIN parts
                          /\ Len(parts) \in Nat /\ Len(parts) >= 1
      BY <1>0
    <3>3. Reading
      BY <2>1, <2>4 DEF Reading
    <3>4. CASE "torn" \in scars
      BY <2>1, <3>4 DEF Consecutive
    <3>5. CASE "torn" \notin scars /\ pos' = pos
      BY <1>0, <2>1, <3>3, <3>5 DEF Consecutive
    <3>6. CASE "torn" \notin scars /\ pos' = 1
      <4>1. parts # <<>> => parts[1] = 1 /\ parts[Len(parts)] = Len(parts) /\ Len(parts) >= 1
        BY <1>0, <2>4, <3>2, <3>6 DEF Consecutive
      <4>2. parts # <<>> => 1 <= parts[Len(parts)] + 1
        BY <3>2, <4>1
      <4> QED
        BY <1>0, <2>1, <3>6, <4>1, <4>2 DEF Consecutive
    <3> QED
      BY <3>1, <3>4, <3>5, <3>6
  <2> QED
    BY <2>2, <2>3, <2>4
<1>11. CASE SyncAnswer
  <2>1. ~Reading' /\ UNCHANGED scars
    BY <1>11 DEF SyncAnswer, Finish, Reading
  <2>2. CASE UNCHANGED <<parts, saw>>
    BY <1>0, <2>1, <2>2 DEF Consecutive
  <2>3. CASE parts' = [i \in 1..Parts |-> i]
    <3>1. /\ DOMAIN parts' = 1..Parts /\ Len(parts') = Parts /\ \A i \in 1..Parts : parts'[i] = i
      BY <1>0, <2>3
    <3>2. parts'[1] = 1 /\ \A i \in DOMAIN parts' : parts'[i] = parts'[1] + i - 1
      BY <1>0, <3>1
    <3> QED
      BY <2>1, <3>1, <3>2 DEF Consecutive
  <2> QED
    BY <1>11, <2>2, <2>3 DEF SyncAnswer, IngestSync
<1>12. CASE Frame
  <2>1. /\ pc = "stream" /\ Reading /\ pos \in 1..Done /\ pos \in Nat /\ pos' = pos + 1
        /\ ("torn" \in scars => "torn" \in scars') /\ ("stale" \in scars <=> "stale" \in scars')
    <3>1. pos \in 1..Done /\ pos \in Nat
      BY <1>0, <1>12 DEF Frame, StreamType
    <3>2. scars' \in {scars, scars \cup {"numbered"}, scars \cup {"numbered", "torn"}}
      BY <1>12 DEF Frame
    <3> QED
      BY <1>12, <3>1, <3>2 DEF Frame, Reading
  <2>2. CASE parser.left = "data"
    <3>1. ~Reading' /\ UNCHANGED <<parts, saw>>
      BY <1>12, <2>2 DEF Frame, Finish, Reading
    <3> QED
      BY <1>0, <2>1, <3>1 DEF Consecutive
  <2>3. CASE parser.left = "line"
    BY <1>12, <2>3 DEF Frame, Consecutive
  <2>4. CASE parser.left = "nothing" /\ "torn" \notin scars
    <3>1. OnEvent(pos) /\ Len(parts) \in Nat /\ DOMAIN parts = 1..Len(parts)
      BY <1>0, <1>12, <2>4 DEF Frame
    <3>2. CASE pos > Parts
      <4>1. UNCHANGED parts /\ ("done" \in saw' => "done" \in saw \/ pos > Parts + 1)
        BY <1>0, <2>1, <3>1, <3>2 DEF OnEvent, Usage
      <4>2. "stale" \notin scars => Len(parts) = Parts
        <5>1. CASE parts = <<>>
          BY <1>0, <2>1, <2>4, <3>2, <5>1 DEF Consecutive
        <5>2. CASE parts # <<>>
          <6>1. /\ Len(parts) \in DOMAIN parts /\ parts[Len(parts)] \in 1..Parts /\ Len(parts) \in Nat
                /\ Parts \in Nat
            BY <1>0, <3>1, <5>2
          <6>2. "stale" \notin scars => parts[Len(parts)] = Len(parts)
            BY <1>0, <2>4, <6>1 DEF Consecutive
          <6>3. pos <= parts[Len(parts)] + 1 \/ parts[Len(parts)] = Parts
            BY <1>0, <2>1, <2>4, <5>2 DEF Consecutive
          <6> QED
            BY <2>1, <3>2, <6>1, <6>2, <6>3
        <5> QED
          BY <5>1, <5>2
      <4>3. parts # <<>> => /\ parts[1] <= pos + 1
                            /\ pos + 1 <= parts[Len(parts)] + 1 \/ parts[Len(parts)] = Parts
        <5>1. ASSUME parts # <<>> PROVE /\ 1 \in DOMAIN parts /\ Len(parts) \in DOMAIN parts
                                        /\ parts[1] \in 1..Parts /\ parts[Len(parts)] \in 1..Parts
          BY <1>0, <3>1, <5>1
        <5>2. parts # <<>> => pos <= parts[Len(parts)] + 1 \/ parts[Len(parts)] = Parts
          BY <1>0, <2>1, <2>4 DEF Consecutive
        <5> QED
          BY <1>0, <2>1, <3>2, <5>1, <5>2
      <4>4. parts = <<>> /\ "stale" \notin scars => FALSE
        BY <1>0, <4>2
      <4> QED
        BY <1>0, <2>1, <2>4, <4>1, <4>2, <4>3, <4>4 DEF Consecutive
    <3>3. CASE pos <= Parts
      <4>1. parts' = KeepNew(parts, pos) /\ pos \in 1..Parts /\ ("done" \in saw' => "done" \in saw)
        BY <1>0, <2>1, <3>1, <3>3 DEF OnEvent, Usage
      <4>2. CASE parts' = parts /\ \E i \in DOMAIN parts : parts[i] = pos
        <5>1. PICK i \in DOMAIN parts : parts[i] = pos
          BY <4>2
        <5>2. /\ parts # <<>> /\ 1 \in DOMAIN parts /\ Len(parts) \in DOMAIN parts
              /\ parts[1] \in 1..Parts /\ i <= Len(parts) /\ i >= 1
          BY <1>0, <3>1, <5>1
        <5>3. parts[i] = parts[1] + i - 1 /\ parts[Len(parts)] = parts[1] + Len(parts) - 1
          BY <1>0, <2>4, <5>1, <5>2 DEF Consecutive
        <5>4. parts[1] <= pos + 1 /\ pos + 1 <= parts[Len(parts)] + 1
          BY <2>1, <3>1, <5>1, <5>2, <5>3
        <5> QED
          BY <1>0, <2>1, <2>4, <4>1, <4>2, <5>2, <5>4 DEF Consecutive
      <4>3. CASE /\ \A i \in DOMAIN parts : parts[i] # pos
                 /\ Len(parts') = Len(parts) + 1 /\ DOMAIN parts' = DOMAIN parts \cup {Len(parts) + 1}
                 /\ parts'[Len(parts) + 1] = pos /\ \A i \in DOMAIN parts : parts'[i] = parts[i]
        <5>1. CASE parts = <<>>
          <6>1. DOMAIN parts' = {1} /\ Len(parts') = 1 /\ parts'[1] = pos
            BY <4>3, <5>1
          <6>2. "stale" \notin scars => pos = 1 /\ "done" \notin saw
            BY <1>0, <2>1, <2>4, <5>1 DEF Consecutive
          <6>3. parts' # <<>> /\ \A i \in DOMAIN parts' : i = 1 /\ parts'[i] = parts'[1] + i - 1
            BY <2>1, <6>1
          <6>4. parts'[1] <= pos' /\ pos' <= parts'[Len(parts')] + 1
            BY <2>1, <6>1
          <6>5. "stale" \notin scars' => "done" \notin saw' /\ \A i \in DOMAIN parts' : parts'[i] = i
            BY <2>1, <4>1, <6>1, <6>2, <6>3
          <6> QED
            BY <6>3, <6>4, <6>5 DEF Consecutive
        <5>2. CASE parts # <<>>
          <6>1. /\ 1 \in DOMAIN parts /\ Len(parts) \in DOMAIN parts /\ parts[1] \in 1..Parts
                /\ parts[Len(parts)] \in 1..Parts /\ Len(parts) >= 1 /\ Parts \in Nat
            BY <1>0, <3>1, <5>2
          <6>2. /\ \A i \in DOMAIN parts : parts[i] = parts[1] + i - 1
                /\ parts[1] <= pos
                /\ pos <= parts[Len(parts)] + 1 \/ parts[Len(parts)] = Parts
            BY <1>0, <2>1, <2>4, <5>2 DEF Consecutive
          <6>3. parts[Len(parts)] = parts[1] + Len(parts) - 1
            BY <6>1, <6>2
          <6>4. pos = parts[Len(parts)] + 1
            <7>1. CASE pos <= parts[Len(parts)]
              <8> DEFINE i == pos - parts[1] + 1
              <8>1. i \in DOMAIN parts
                <9> DEFINE a == parts[1]
                           b == parts[Len(parts)]
                           n == Len(parts)
                <9>1. /\ a \in Nat /\ b \in Nat /\ n \in Nat /\ pos \in Nat /\ a <= pos /\ pos <= b
                      /\ b = a + n - 1
                  BY <2>1, <3>1, <6>1, <6>2, <6>3, <7>1
                <9> HIDE DEF a, b, n
                <9>2. pos - a + 1 \in 1..n
                  BY <9>1
                <9> QED
                  BY <3>1, <9>2 DEF a, n
              <8>2. parts[i] = pos
                <9>1. parts[i] = parts[1] + i - 1
                  BY <6>2, <8>1
                <9>2. parts[1] \in Nat /\ pos \in Nat
                  BY <2>1, <6>1
                <9> QED
                  BY <9>1, <9>2
              <8> QED
                BY <4>3, <8>1, <8>2
            <7>2. CASE pos > parts[Len(parts)]
              <8>1. parts[Len(parts)] \in Nat /\ pos \in Nat /\ Parts \in Nat
                BY <2>1, <6>1
              <8> QED
                BY <3>3, <6>2, <7>2, <8>1
            <7>3. parts[Len(parts)] \in Nat /\ pos \in Nat
              BY <2>1, <6>1
            <7> QED
              BY <7>1, <7>2, <7>3
          <6>5. \A i \in DOMAIN parts' : parts'[i] = parts'[1] + i - 1
            BY <3>1, <4>3, <6>1, <6>2, <6>3, <6>4
          <6>6. "stale" \notin scars => \A i \in DOMAIN parts' : parts'[i] = i
            <7>1. "stale" \notin scars => parts[1] = 1
              BY <1>0, <2>4, <6>1 DEF Consecutive
            <7> QED
              BY <3>1, <4>3, <6>1, <6>5, <7>1
          <6>7. "stale" \notin scars /\ "done" \in saw => FALSE
            <7>1. "stale" \notin scars /\ "done" \in saw => Len(parts) = Parts /\ parts[1] = 1
              BY <1>0, <2>4, <6>1 DEF Consecutive
            <7> QED
              BY <3>3, <6>3, <6>4, <7>1, <1>0
          <6>8. parts' # <<>> /\ parts'[1] <= pos' /\ pos' <= parts'[Len(parts')] + 1
            BY <2>1, <3>1, <4>3, <6>1, <6>2
          <6> QED
            BY <2>1, <4>1, <6>5, <6>6, <6>7, <6>8 DEF Consecutive
        <5> QED
          BY <5>1, <5>2
      <4>4. parts \in Seq(1..Parts)
        BY <1>0
      <4>5. \/ KeepNew(parts, pos) = parts /\ \E i \in DOMAIN parts : parts[i] = pos
            \/ /\ \A i \in DOMAIN parts : parts[i] # pos
               /\ Len(KeepNew(parts, pos)) = Len(parts) + 1
               /\ DOMAIN KeepNew(parts, pos) = DOMAIN parts \cup {Len(parts) + 1}
               /\ KeepNew(parts, pos)[Len(parts) + 1] = pos
               /\ \A i \in DOMAIN parts : KeepNew(parts, pos)[i] = parts[i]
        BY <4>1, <4>4, KeptIs
      <4> QED
        BY <4>1, <4>2, <4>3, <4>5
    <3> QED
      BY <1>0, <2>1, <3>2, <3>3
  <2>5. CASE "torn" \in scars
    BY <2>1, <2>5 DEF Consecutive
  <2> QED
    BY <1>0, <2>2, <2>3, <2>4, <2>5 DEF StreamType
<1>13. CASE BadFrame
  <2>1. /\ ~Reading' /\ UNCHANGED <<parts, saw>>
        /\ ("torn" \in scars => "torn" \in scars') /\ ("stale" \in scars => "stale" \in scars')
    BY <1>13 DEF BadFrame, Finish, LeaveOff, Reading
  <2> QED
    BY <1>0, <2>1 DEF Consecutive
<1>14. CASE Broken
  <2>1. /\ ~Reading' /\ UNCHANGED <<parts, saw>>
        /\ ("torn" \in scars => "torn" \in scars') /\ ("stale" \in scars => "stale" \in scars')
    BY <1>14 DEF Broken, Finish, LeaveOff, Reading
  <2> QED
    BY <1>0, <2>1 DEF Consecutive
<1>15. CASE Closed
  <2>1. /\ Reading /\ UNCHANGED <<parts, saw, pos>>
        /\ ("torn" \in scars => "torn" \in scars') /\ ("stale" \in scars => "stale" \in scars')
    BY <1>15 DEF Closed, LeaveOff, Reading
  <2> QED
    BY <1>0, <2>1 DEF Consecutive
<1>16. CASE Retry
  <2>1. parts' = <<>> /\ saw' = {} /\ pos' = 1
    BY <1>16 DEF Retry, StartAttempt
  <2> QED
    BY <2>1 DEF Consecutive
<1>17. CASE SampleDone
  <2>1. /\ UNCHANGED <<parts, saw, pos, scars>> /\ (Reading' => Reading)
    BY <1>0, <1>17 DEF SampleDone, attemptVars, Finish, Reading, Numbered, SaveResult
  <2> QED
    BY <1>0, <2>1 DEF Consecutive
<1>18. CASE SampleFailed
  <2>1. /\ UNCHANGED <<parts, saw, pos, scars>> /\ (Reading' => Reading)
    BY <1>0, <1>18 DEF SampleFailed, attemptVars, Finish, Reading, Numbered, SaveResult
  <2> QED
    BY <1>0, <2>1 DEF Consecutive
<1>19. CASE Cancel
  <2>1. /\ UNCHANGED <<parts, saw, pos, scars>> /\ (Reading' => Reading)
    BY <1>0, <1>19 DEF Cancel, attemptVars, Finish, Reading, Numbered
  <2> QED
    BY <1>0, <2>1 DEF Consecutive
<1>20. CASE Salvage
  <2>1. /\ UNCHANGED <<parts, saw, pos, scars>> /\ (Reading' => Reading)
    BY <1>0, <1>20 DEF Salvage, attemptVars, Finish, Reading, Numbered
  <2> QED
    BY <1>0, <2>1 DEF Consecutive
<1>21. CASE UNCHANGED vars
  <2>1. /\ UNCHANGED <<parts, saw, pos, scars>> /\ (Reading' => Reading)
    BY <1>0, <1>21 DEF vars, attemptVars, Reading
  <2> QED
    BY <1>0, <2>1 DEF Consecutive
<1> QED
  BY <1>1, <1>2, <1>3, <1>4, <1>5, <1>6, <1>7, <1>8, <1>9, <1>10, <1>11, <1>12,
     <1>13, <1>14, <1>15, <1>16, <1>17, <1>18, <1>19, <1>20, <1>21
     DEF Next, Execute

\* No delta is kept twice.
LEMMA StepDistinct == CaseInv /\ [Next]_vars => Distinct'
<1> SUFFICES ASSUME CaseInv, [Next]_vars PROVE Distinct'
  OBVIOUS
<1>0. /\ Distinct /\ parts \in Seq(1..Parts) /\ Parts \in Nat /\ pos \in Nat /\ pos >= 1
  BY SetupKnown, TypeParts DEF CaseInv, PartsType, StreamType
<1>1. CASE parts' = parts \/ parts' = <<>>
  BY <1>0, <1>1 DEF Distinct
<1>2. CASE parts' = [i \in 1..Parts |-> i]
  BY <1>0, <1>2 DEF Distinct
<1>3. CASE pos <= Parts /\ parts' = KeepNew(parts, pos)
  <2>1. Len(parts) \in Nat /\ DOMAIN parts = 1..Len(parts) /\ pos \in 1..Parts
    BY <1>0, <1>3
  <2>2. \/ parts' = parts
        \/ /\ \A i \in DOMAIN parts : parts[i] # pos /\ parts'[i] = parts[i]
           /\ DOMAIN parts' = DOMAIN parts \cup {Len(parts) + 1}
           /\ parts'[Len(parts) + 1] = pos
    <3> DEFINE K == KeepNew(parts, pos)
    <3>1. \/ K = parts
          \/ /\ \A i \in DOMAIN parts : parts[i] # pos
             /\ DOMAIN K = DOMAIN parts \cup {Len(parts) + 1}
             /\ K[Len(parts) + 1] = pos
             /\ \A i \in DOMAIN parts : K[i] = parts[i]
      BY <1>0, <2>1, KeptIs
    <3> QED
      BY <1>3, <3>1
  <2>3. CASE parts' = parts
    BY <1>0, <2>3 DEF Distinct
  <2>4. CASE /\ \A i \in DOMAIN parts : parts[i] # pos /\ parts'[i] = parts[i]
             /\ DOMAIN parts' = DOMAIN parts \cup {Len(parts) + 1}
             /\ parts'[Len(parts) + 1] = pos
    BY <1>0, <2>1, <2>4 DEF Distinct
  <2> QED
    BY <2>2, <2>3, <2>4
<1> QED
  BY <1>1, <1>2, <1>3
     DEF Next, Execute, vars, attemptVars, Begin, Stop, StartSample, ResetRaises, PrepareStep,
         PrepareRaises, BuildRequest, SendRaises, Refused, OpenStream, SyncAnswer, IngestSync,
         Frame, OnEvent, BadFrame, Broken, Closed, Retry, StartAttempt, SampleDone,
         SampleFailed, Cancel, Salvage

\* An answer that passed is complete.
LEMMA StepWhole == CaseInv /\ [Next]_vars => Whole'
<1> SUFFICES ASSUME CaseInv, [Next]_vars, pc' = "decide", outcome' = "ok",
                    scars' \cap {"torn", "stale"} = {}
             PROVE  Complete(parts)'
  BY DEF Whole
<1>0. /\ Numbered /\ Consecutive /\ Consecutive' /\ Whole /\ StreamType /\ PartsType /\ Parts \in Nat
      /\ setup.contract \in {"sse", "sync"}
  BY SetupKnown, TypeParts, StepConsecutive DEF CaseInv
<1>1. CASE SyncAnswer
  <2>1. parts' = [i \in 1..Parts |-> i]
    BY <1>1 DEF SyncAnswer, Finish, IngestSync
  <2> QED
    BY <2>1 DEF Complete
<1>2. CASE Closed
  <2>1. "done" \in saw /\ UNCHANGED <<parts, saw>>
    BY <1>0, <1>2 DEF Closed, Finish, CheckContract, Numbered, Reading
  <2>2. Len(parts) = Parts /\ \A i \in DOMAIN parts : parts'[i] = i
    BY <1>0, <2>1 DEF Consecutive
  <2>3. parts \in Seq(1..Parts)
    BY <1>0 DEF PartsType
  <2>4. parts = [i \in 1..Parts |-> parts[i]]
    BY <2>2, <2>3
  <2> QED
    BY <2>1, <2>2, <2>4 DEF Complete
<1>3. CASE UNCHANGED <<pc, outcome, parts, scars>>
  BY <1>0, <1>3 DEF Whole, Complete
<1>4. CASE PrepareRaises \/ BuildRequest \/ SendRaises \/ Refused \/ Frame \/ BadFrame \/ Broken
  <2>1. outcome' \in Errors \/ (UNCHANGED outcome /\ pc' # "decide")
    BY <1>0, <1>4, Classified
       DEF PrepareRaises, BuildRequest, SendRaises, Refused, Frame, BadFrame, Broken, Finish,
           Errors
  <2> QED
    BY <2>1 DEF Errors
<1>5. CASE Begin \/ SampleDone \/ SampleFailed
  <2>1. pc' # "decide"
    BY <1>5 DEF Begin, SampleDone, SampleFailed, SaveResult
  <2> QED
    BY <2>1
<1> QED
  BY <1>1, <1>2, <1>3, <1>4, <1>5
     DEF Next, Execute, vars, attemptVars, Begin, Stop, StartSample, ResetRaises, PrepareStep,
         OpenStream, Retry, StartAttempt, SampleDone, SampleFailed, Cancel, Salvage
-----------------------------------------------------------------------------
(* The theorems.                                                           *)

\* At the start nothing has been done.
LEMMA InitCase == Init => CaseInv
<1> SUFFICES ASSUME Init PROVE CaseInv
  OBVIOUS
<1>1. setup \in Setups /\ SetupOK(setup) /\ Repeat \in Nat /\ Repeat >= 1 /\ MaxRetries \in Nat /\ Parts \in Nat
  BY ExecutionAssumption DEF Init, ExecutionAssumption
<1>2. Attempts \in Nat /\ Attempts >= 1 /\ setup.steps \in Nat /\ setup.ids \in BOOLEAN
  BY <1>1 DEF Attempts, SetupOK
<1>3. <<>> \in Seq(1..Parts) /\ 0 \in 0..Repeat
  BY <1>1, EmptySeq
<1>4. ControlType
  <2>1. 0 \in 0..Attempts /\ 0 \in 0..MaxRetries /\ 0 \in 0..setup.steps /\ 0 \in Nat
    BY <1>1, <1>2
  <2> QED
    BY <1>1, <2>1 DEF Init, ControlType
<1>5. StreamType
  BY <1>1 DEF Init, StreamType, Done
<1>6. PartsType
  BY <1>3 DEF Init, PartsType
<1>7. ResultType
  <2>1. NoRow \in RowFields
    BY <1>3 DEF NoRow, RowFields
  <2> QED
    BY <2>1 DEF Init, ResultType
<1>8. Counted /\ Budget /\ Numbered /\ Distinct /\ RowIsEarned
  BY <1>2 DEF Init, Counted, InAttempt, Budget, Numbered, Reading, Distinct, RowIsEarned, NoRow
<1>9. Consecutive
  BY DEF Init, Consecutive, Reading
<1> QED
  BY <1>4, <1>5, <1>6, <1>7, <1>8, <1>9, TypeParts DEF CaseInv, Whole, Init

\* Every step of a case keeps the invariant.
LEMMA StepCase == CaseInv /\ [Next]_vars => CaseInv'
<1> SUFFICES ASSUME CaseInv, [Next]_vars PROVE CaseInv'
  OBVIOUS
<1>1. (ControlType /\ StreamType /\ PartsType /\ ResultType)'
  BY StepControlType, StepStreamType, StepPartsType, StepResultType
<1>2. TypeOK'
  BY <1>1 DEF TypeOK, ControlType, StreamType, PartsType, ResultType
<1> QED
  BY <1>2, StepCounted, StepEarned, StepBudget, StepNumbered, StepConsecutive, StepDistinct,
     StepWhole
     DEF CaseInv

\* Wherever the coroutine of a case is, its samples, retries and calls stay within the settings
\* and what it keeps of a stream is of the frames an answer has.
THEOREM CaseTypeCorrect == Spec => []TypeOK
<1>1. CaseInv => TypeOK
  BY DEF CaseInv
<1> QED
  BY <1>1, InitCase, StepCase, PTL DEF Spec

\* A pass or fail stands over an answer of the last sample with every sample before it good, and
\* each kind of run writes its own words for a technical failure (orchestrator.py
\* _execute_with_retry, _save_result), also when the row of a reaped run is salvaged meanwhile.
THEOREM RowsAreEarned == Spec => []RowIsEarned
<1>1. CaseInv => RowIsEarned
  BY DEF CaseInv
<1> QED
  BY <1>1, InitCase, StepCase, PTL DEF Spec

\* An interface with side effects is called by one attempt of one sample, a second time only to
\* resume its stream; any other by one attempt and its retries, each resumed once at most
\* (_call_once, _MAX_SSE_RESUME); and no sample begins once the run is cancelled (_is_cancelled
\* before each sample of _execute_with_retry).
THEOREM CallsStayInBudget == Spec => CallsAreBudgeted
<1> DEFINE InBudget ==
        /\ calls <= CallsOfAttempt * (IF setup.retryable THEN MaxRetries + 1 ELSE 1)
        /\ ~setup.retryable => sample <= 1 /\ try = 0 /\ (calls = 2 => resumed)
<1>1. CaseInv => InBudget
  <2> SUFFICES ASSUME CaseInv PROVE InBudget
    OBVIOUS
  <2>1. /\ try \in Nat /\ try <= MaxRetries /\ sample \in Nat /\ sample <= Attempts /\ MaxRetries \in Nat
        /\ calls \in Nat /\ (~setup.retryable => try = 0 /\ Attempts = 1)
    BY SetupKnown, TypeParts DEF CaseInv, Budget, ControlType
  <2>2. /\ Resumable => calls <= 2 * try + (IF resumed THEN 2 ELSE 1)
        /\ ~Resumable => calls <= try + 1
    BY DEF CaseInv, Budget
  <2>3. CASE Resumable
    BY <2>1, <2>2, <2>3 DEF CallsOfAttempt
  <2>4. CASE ~Resumable
    BY <2>1, <2>2, <2>4 DEF CallsOfAttempt
  <2> QED
    BY <2>3, <2>4
<1>2. [Next]_vars => [cancelled => sample' = sample]_vars
  BY DEF Next, Execute, vars, attemptVars, Begin, Stop, StartSample, StopsHere, ResetRaises,
         PrepareStep, PrepareRaises, BuildRequest, SendRaises, Refused, OpenStream, SyncAnswer,
         Frame, BadFrame, Broken, Closed, Retry, SampleDone, SampleFailed, Cancel, Salvage
<1>3. Spec => []InBudget
  BY <1>1, InitCase, StepCase, PTL DEF Spec
<1>4. Spec => [][cancelled => sample' = sample]_vars
  BY <1>2, PTL DEF Spec
<1> QED
  BY <1>3, <1>4, PTL DEF CallsAreBudgeted

\* No delta is kept twice, none out of order unless a half line swallowed a frame, and an answer
\* that passed the contract check lacks nothing unless its stream was resumed behind an id of an
\* earlier attempt besides (executor.py, the assembler's on_event): for streams of any length that
\* stop anywhere and for agents that heed Last-Event-ID or do not.
THEOREM AnswersAreTheAgents == Spec => []AnswerIsTheAgents
<1>1. CaseInv => AnswerIsTheAgents
  <2> SUFFICES ASSUME CaseInv PROVE AnswerIsTheAgents
    OBVIOUS
  <2>1. "torn" \notin scars => \A i, j \in DOMAIN parts : i < j => parts[i] < parts[j]
    <3>1. parts \in Seq(1..Parts)
      BY TypeParts DEF CaseInv, PartsType
    <3>2. "torn" \notin scars => \A i \in DOMAIN parts : parts[i] = parts[1] + i - 1
      BY DEF CaseInv, Consecutive
    <3>3. /\ Len(parts) \in Nat /\ DOMAIN parts = 1..Len(parts) /\ Parts \in Nat
          /\ \A i \in DOMAIN parts : parts[i] \in 1..Parts
      BY <3>1, SetupKnown DEF CaseInv
    <3>4. \A i \in DOMAIN parts : i \in Nat /\ 1 \in DOMAIN parts
      BY <3>3
    <3>5. \A i \in DOMAIN parts : parts[1] \in Nat
      BY <3>3, <3>4
    <3> QED
      BY <3>2, <3>4, <3>5
  <2> QED
    BY <2>1 DEF CaseInv, Distinct, Whole, AnswerIsTheAgents
<1> QED
  BY <1>1, InitCase, StepCase, PTL DEF Spec
-----------------------------------------------------------------------------
(* The limits a case waits for. The shared pool never loses or makes a slot,   *)
(* and with that they implement the slots of the agent: for any runs, cases    *)
(* and limits, with buckets dropped at any moment and any number of cancelled  *)
(* waits.                                                                      *)

\* Before the first run registered, nobody can have taken anything.
UnregisteredIsUnused ==
    quota = 0 => /\ pool = 0
                 /\ \A r \in Runs : phase[r] = "new"

PoolInv == LimiterTypeOK /\ PoolConserved /\ UnregisteredIsUnused
-----------------------------------------------------------------------------
\* Any set of coroutines is finite, and smaller sets do not have more of them.
LEMMA TaskSets ==
    ASSUME NEW S \in SUBSET Tasks
    PROVE  /\ IsFiniteSet(S) /\ Cardinality(S) \in Nat
           /\ \A T \in SUBSET S : Cardinality(T) <= Cardinality(S)
           /\ \A t \in S : Cardinality(S \ {t}) = Cardinality(S) - 1
           /\ \A t \in Tasks \ S : Cardinality(S \cup {t}) = Cardinality(S) + 1
<1>1. IsFiniteSet(S)
  BY LimiterAssumption, FS_Subset DEF LimiterAssumption
<1>2. Cardinality(S) \in Nat
  BY <1>1, FS_CardinalityType
<1>3. \A T \in SUBSET S : Cardinality(T) <= Cardinality(S)
  BY <1>1, FS_Subset
<1>4. \A t \in S : Cardinality(S \ {t}) = Cardinality(S) - 1
  BY <1>1, FS_RemoveElement
<1>5. \A t \in Tasks \ S : Cardinality(S \cup {t}) = Cardinality(S) + 1
  BY <1>1, FS_AddElement
<1> QED
  BY <1>1, <1>2, <1>3, <1>4, <1>5

\* The registered quota is positive.
LEMMA QuotaPositive ==
    ASSUME LimiterTypeOK, NEW r \in Runs
    PROVE  QuotaFor(r) \in Nat \ {0} /\ (quota > 0 => QuotaFor(r) = quota)
  BY LimiterAssumption DEF LimiterAssumption, LimiterTypeOK, QuotaFor

\* Nobody holds anything at the start.
LEMMA InitPoolInv == LimiterInit => PoolInv
<1> SUFFICES ASSUME LimiterInit PROVE PoolInv
  OBVIOUS
<1>1. LimiterTypeOK
  BY LimiterAssumption DEF LimiterAssumption, LimiterInit, LimiterTypeOK, Buckets
<1>2. Holders = {}
  BY DEF LimiterInit, Holders, At
<1>3. PoolConserved
  BY <1>2, FS_EmptySet DEF LimiterInit, PoolConserved
<1> QED
  BY <1>1, <1>3 DEF LimiterInit, PoolInv, UnregisteredIsUnused

\* One step per action: what it does to the holders decides what it does to the sum.
LEMMA StepPoolInv == PoolInv /\ [LimiterNext]_limiterVars => PoolInv'
<1> SUFFICES ASSUME PoolInv, [LimiterNext]_limiterVars PROVE PoolInv'
  OBVIOUS
<1> USE DEF PoolInv, PoolConserved, UnregisteredIsUnused
<1>0. Holders \in SUBSET Tasks
  BY DEF Holders, At
<1>1. ASSUME NEW r \in Runs, SetRun(r) PROVE PoolInv'
  <2>1. QuotaFor(r) \in Nat \ {0} /\ (quota > 0 => QuotaFor(r) = quota)
    BY QuotaPositive
  <2>2. LimiterTypeOK' /\ quota' # 0
    BY <1>1, <2>1 DEF SetRun, LimiterTypeOK
  <2>3. Holders' = Holders
    BY <1>1 DEF SetRun, Holders, At
  <2>4. quota = 0 => Cardinality(Holders) = 0
    BY <1>0, TaskSets
  <2>5. PoolConserved'
    BY <1>0, <1>1, <2>1, <2>3, <2>4, TaskSets DEF SetRun, LimiterTypeOK
  <2> QED
    BY <2>2, <2>5
<1>2. ASSUME NEW r \in Runs, DropRun(r) PROVE PoolInv'
  <2>1. Holders' = Holders
    BY <1>2 DEF DropRun, Holders, At
  <2> QED
    BY <1>2, <2>1 DEF DropRun, LimiterTypeOK
<1>3. ASSUME NEW t \in Tasks, TakePoolSlot(t) PROVE PoolInv'
  <2>0. BucketOf(t) \in Buckets
    BY LimiterAssumption DEF LimiterAssumption, BucketOf, Buckets
  <2>1. LimiterTypeOK'
    BY <1>3, <2>0 DEF TakePoolSlot, SlotFree, LimiterTypeOK
  <2>2. Holders' = Holders \cup {t} /\ t \notin Holders
    BY <1>3 DEF TakePoolSlot, LimiterTypeOK, Holders, At
  <2>3. Cardinality(Holders') = Cardinality(Holders) + 1
    BY <1>0, <2>2, TaskSets
  <2>4. quota # 0
    BY <1>3, LimiterAssumption DEF LimiterAssumption, TakePoolSlot
  <2> QED
    BY <1>0, <1>3, <2>1, <2>3, <2>4, TaskSets DEF TakePoolSlot, SlotFree, LimiterTypeOK
<1>4. ASSUME NEW t \in Tasks, TakeAgentPlace(t) PROVE PoolInv'
  <2>1. LimiterTypeOK'
    BY <1>4 DEF TakeAgentPlace, PlaceFree, LimiterTypeOK
  <2>2. Holders' = Holders
    BY <1>4 DEF TakeAgentPlace, LimiterTypeOK, Holders, At
  <2> QED
    BY <1>4, <2>1, <2>2 DEF TakeAgentPlace
<1>5. ASSUME NEW t \in Tasks, TakeGlobalPlace(t) PROVE PoolInv'
  <2>1. LimiterTypeOK'
    BY <1>5 DEF TakeGlobalPlace, LimiterTypeOK
  <2>2. Holders' = Holders
    BY <1>5 DEF TakeGlobalPlace, LimiterTypeOK, Holders, At
  <2> QED
    BY <1>5, <2>1, <2>2 DEF TakeGlobalPlace
<1>6. ASSUME NEW t \in Tasks, Release(t) PROVE PoolInv'
  <2>0. BucketOf(t) \in Buckets
    BY LimiterAssumption DEF LimiterAssumption, BucketOf, Buckets
  <2>1. LimiterTypeOK'
    BY <1>6, <2>0 DEF Release, SlotReturned, LimiterTypeOK
  <2>2. Holders' = Holders \ {t} /\ t \in Holders
    BY <1>6 DEF Release, LimiterTypeOK, Holders, At
  <2>3. Cardinality(Holders') = Cardinality(Holders) - 1
    BY <1>0, <2>2, TaskSets
  <2>4. quota # 0
    BY <1>0, <2>2, <2>3, TaskSets DEF LimiterTypeOK
  <2> QED
    BY <1>0, <1>6, <2>1, <2>3, <2>4, TaskSets DEF Release, SlotReturned, LimiterTypeOK
<1>7. ASSUME NEW t \in Tasks, Abort(t) PROVE PoolInv'
  <2>1. LimiterTypeOK'
    BY <1>7, LimiterAssumption DEF LimiterAssumption, Abort, SlotReturned, LimiterTypeOK
  <2>2. Holders' = Holders \ {t} /\ t \in Holders
    BY <1>7 DEF Abort, LimiterTypeOK, Holders, At
  <2>3. Cardinality(Holders') = Cardinality(Holders) - 1
    BY <1>0, <2>2, TaskSets
  <2>4. quota # 0
    BY <1>0, <2>2, <2>3, TaskSets DEF LimiterTypeOK
  <2> QED
    BY <1>0, <1>7, <2>1, <2>3, <2>4, TaskSets DEF Abort, SlotReturned, LimiterTypeOK
<1>8. UNCHANGED limiterVars => PoolInv'
  BY DEF limiterVars, LimiterTypeOK, Holders, At
<1> QED
  BY <1>1, <1>2, <1>3, <1>4, <1>5, <1>6, <1>7, <1>8 DEF LimiterNext

\* Every variable keeps its range (no semaphore is ever negative), and what is free and
\* what is held of the shared pool is always the quota (LimiterTypeOK, PoolConserved).
THEOREM PoolCorrect == LimiterSpec => [](LimiterTypeOK /\ PoolConserved)
<1>1. PoolInv => LimiterTypeOK /\ PoolConserved
  BY DEF PoolInv
<1> QED
  BY <1>1, InitPoolInv, StepPoolInv, PTL DEF LimiterSpec

\* So the pool's invariant always holds.
LEMMA PoolInvHolds == LimiterSpec => []PoolInv
  BY InitPoolInv, StepPoolInv, PTL DEF LimiterSpec
-----------------------------------------------------------------------------
\* The agent is never called more often at a time than its quota says, whatever limits
\* the runs have and whenever their buckets are dropped (CallsWithinQuota).
THEOREM QuotaKept == LimiterSpec => []CallsWithinQuota
<1>1. PoolInv => CallsWithinQuota
  <2> SUFFICES ASSUME PoolInv PROVE CallsWithinQuota
    OBVIOUS
  <2>1. /\ Holders \in SUBSET Tasks
        /\ At("executing") \in SUBSET Holders
    BY DEF Holders, At
  <2> QED
    BY <2>1, TaskSets DEF PoolInv, PoolConserved, LimiterTypeOK, CallsWithinQuota
<1> QED
  BY <1>1, PoolInvHolds, PTL

\* Who enters the last semaphore had a slot already, so there was one left for it.
LEMMA RoomForOneMore ==
    ASSUME PoolInv, NEW t \in Tasks, place[t] = "global"
    PROVE  Cardinality(At("executing")) < quota
<1>1. /\ Holders \in SUBSET Tasks /\ t \in Holders
      /\ Holders \ {t} \in SUBSET Tasks
      /\ At("executing") \in SUBSET (Holders \ {t})
      /\ At("executing") \in SUBSET Tasks
  BY DEF Holders, At
<1>2. /\ Cardinality(At("executing")) \in Nat
      /\ Cardinality(Holders) \in Nat
      /\ Cardinality(At("executing")) <= Cardinality(Holders \ {t})
      /\ Cardinality(Holders \ {t}) = Cardinality(Holders) - 1
  BY <1>1, TaskSets
<1> QED
  BY <1>2 DEF PoolInv, PoolConserved, LimiterTypeOK

\* Each step of the limiter as a step of the slots.
LEMMA StepSlots == PoolInv /\ [LimiterNext]_limiterVars => [Slots!Next]_<<quota, At("executing")>>
<1> SUFFICES ASSUME PoolInv, [LimiterNext]_limiterVars
             PROVE  [Slots!Next]_<<quota, At("executing")>>
  OBVIOUS
<1>1. ASSUME NEW r \in Runs, SetRun(r) PROVE [Slots!Next]_<<quota, At("executing")>>
  <2>1. QuotaFor(r) \in Nat \ {0} /\ (quota > 0 => QuotaFor(r) = quota)
    BY QuotaPositive DEF PoolInv
  <2>2. At("executing")' = At("executing")
    BY <1>1 DEF SetRun, At
  <2> QED
    BY <1>1, <2>1, <2>2 DEF SetRun, PoolInv, LimiterTypeOK, Slots!Next, Slots!Register
<1>2. ASSUME NEW r \in Runs, DropRun(r) PROVE UNCHANGED <<quota, At("executing")>>
  BY <1>2 DEF DropRun, At
<1>3. ASSUME NEW t \in Tasks, TakePoolSlot(t) \/ TakeAgentPlace(t) \/ Abort(t)
      PROVE  UNCHANGED <<quota, At("executing")>>
  BY <1>3 DEF TakePoolSlot, TakeAgentPlace, Abort, At, PoolInv, LimiterTypeOK
<1>4. ASSUME NEW t \in Tasks, TakeGlobalPlace(t) PROVE Slots!Enter(t)
  <2>1. At("executing")' = At("executing") \cup {t} /\ t \notin At("executing")
    BY <1>4 DEF TakeGlobalPlace, At, PoolInv, LimiterTypeOK
  <2>2. place[t] = "global"
    BY <1>4 DEF TakeGlobalPlace
  <2>3. Cardinality(At("executing")) < quota
    BY <2>2, RoomForOneMore
  <2>4. Slots!Cardinality(At("executing")) = Cardinality(At("executing"))
    BY DEF Cardinality, Slots!Cardinality
  <2> QED
    BY <1>4, <2>1, <2>3, <2>4 DEF TakeGlobalPlace, Slots!Enter
<1>5. ASSUME NEW t \in Tasks, Release(t) PROVE Slots!Leave(t)
  <2>1. At("executing")' = At("executing") \ {t} /\ t \in At("executing")
    BY <1>5 DEF Release, At, PoolInv, LimiterTypeOK
  <2> QED
    BY <1>5, <2>1 DEF Release, Slots!Leave
<1>6. UNCHANGED limiterVars => UNCHANGED <<quota, At("executing")>>
  BY DEF limiterVars, At
<1> QED
  BY <1>1, <1>2, <1>3, <1>4, <1>5, <1>6 DEF LimiterNext, Slots!Next

\* The two layers of semaphores implement the abstract slots of the agent
\* (ImplementsSlots): every step registers the capacity once, enters, leaves or stutters.
THEOREM LimiterRefinesSlots == LimiterSpec => ImplementsSlots
<1>1. LimiterInit => Slots!Init
  BY DEF LimiterInit, Slots!Init, At
<1> QED
  BY <1>1, StepSlots, PoolInvHolds, PTL DEF LimiterSpec, ImplementsSlots, Slots!Spec
=============================================================================
