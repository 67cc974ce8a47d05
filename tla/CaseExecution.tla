--------------------------- MODULE CaseExecution ---------------------------
(***************************************************************************)
(* One case of one run, from the first sample to its eval_result row: the   *)
(* samples and retries of orchestrator._execute_with_retry, execute_case    *)
(* and its classification of errors, the steps of the configured adapter,   *)
(* and the stream of events with its half frames, resumption and parser.    *)
(*                                                                          *)
(* The adapter, and with it the parser, is made once for the case: what one *)
(* attempt leaves in the parser the next one finds there. The agent numbers *)
(* the frames of an answer from 1; after the Parts deltas come usage, done. *)
(***************************************************************************)
EXTENDS Naturals, Sequences, FiniteSets

CONSTANTS
    Setups,      \* the cases, interfaces and agents looked at (SetupOK)
    Repeat,      \* samples of a case measured for performance
    MaxRetries,  \* retries after a technical failure
    Parts        \* deltas of an answer

SetupOK(s) ==
    /\ s.kind \in {"manual", "error"}        \* who judges: scorer, or at once
    /\ s.contract \in {"sse", "sync"}
    /\ s.retryable \in BOOLEAN               \* interface.retryable
    /\ s.perf \in BOOLEAN                    \* ttft or e2e is measured
    /\ s.reset \in BOOLEAN                   \* adapter_config.reset is there
    /\ s.steps \in Nat                       \* adapter_config.prepare
    /\ s.ids \in BOOLEAN                     \* the agent sends `id:` lines
    /\ s.honours \in BOOLEAN                 \* and goes on after Last-Event-ID
    /\ s.enabled \in BOOLEAN                 \* the interface is enabled

ASSUME ExecutionAssumption ==
    /\ \A s \in Setups : SetupOK(s)
    /\ Repeat \in Nat \ {0} /\ MaxRetries \in Nat /\ Parts \in Nat \ {0}

VARIABLES
    setup,
    pc,        \* what the coroutine does next
    sample,    \* samples begun
    try,       \* retries of this sample so far
    step,      \* prepare steps done by this attempt
    prepared,  \* _prepared
    parser,    \* of the adapter: last id, and what an unfinished frame left
    resumed,   \* resume_tries > 0
    pos,       \* next frame of the stream
    parts,     \* assembler: deltas kept
    saw,       \* assembler: which of usage and done came
    outcome,   \* error_type of the last attempt, or "ok"
    good,      \* samples that went well
    row,       \* the case's eval_result
    cancelled, \* the run's cancel flag
    calls,     \* requests of the case that reached the agent, this sample
    scars      \* history: what happened to the streams of this attempt

attemptVars == <<step, resumed, pos, parts, saw, calls, scars>>
vars == <<setup, pc, sample, try, prepared, parser, outcome, good, row,
          cancelled, attemptVars>>

Usage == Parts + 1
Done  == Parts + 2
NoRow == [pf |-> "none", error |-> "none", parts |-> <<>>, samples |-> 0]

Errors == {"no_done", "no_usage", "timeout", "pool_error", "http_error",
           "http_client_error", "connect_error", "sse_parse_error",
           "body_too_large", "contract_error"}
\* RETRYABLE_ERRORS
RetryableErrors ==
    {"timeout", "connect_error", "sse_parse_error", "http_error", "no_done"}

\* _execute_with_retry: an interface with side effects is called for one sample.
Attempts == IF setup.perf /\ setup.retryable THEN Repeat ELSE 1
-----------------------------------------------------------------------------
(* How exceptions and statuses become error types.                         *)

Status == {"3xx", "4xx", "429", "5xx"}
\* What a prepare step or a send may raise beside a status.
Raised == {"pool", "timeout", "network", "other"}

Classify(exc) ==
    CASE exc = "pool"    -> "pool_error"
      [] exc = "timeout" -> "timeout"
      [] exc = "network" -> "connect_error"
      [] exc = "parse"   -> "sse_parse_error"
      [] OTHER           -> "contract_error"

\* execute_case, the handlers around prepare: 429 counts as a passing failure.
ClassifyPrepare(exc) ==
    CASE exc = "4xx"            -> "contract_error"
      [] exc \in {"429", "5xx"} -> "http_error"
      [] OTHER                  -> Classify(exc)

\* _dispatch: anything but 200.
ClassifyStatus(st) ==
    IF st \in {"4xx", "429"} THEN "http_client_error" ELSE "http_error"

\* The contract is checked when the answer is complete.
CheckContract(seen) ==
    IF setup.contract = "sse" /\ "done" \notin seen THEN "no_done"
    ELSE IF "usage" \notin seen THEN "no_usage" ELSE "ok"
-----------------------------------------------------------------------------
(* Parser and assembler.                                                   *)

\* What is left of a stream that stops: bytes of an unfinished `event:` line, or
\* data of an unfinished event. Data stays, also after the error it leads to.
LeftBy(left, cut) ==
    CASE cut = "between" -> left
      [] cut = "data" \/ left = "data" -> "data"
      [] OTHER -> "line"

\* Mutation: no delta is recognised as one that came before.
KeepAll(kept, f) == Append(kept, f)
\* on_event: an id seen before is dropped.
KeepNew(kept, f) ==
    IF \E i \in DOMAIN kept : kept[i] = f THEN kept ELSE Append(kept, f)

\* An event of the type the frame has; a garbled type is no type of the assembler.
OnEvent(f) ==
    /\ parts' = IF f <= Parts THEN KeepNew(parts, f) ELSE parts
    /\ saw' = saw \cup (IF f = Usage THEN {"usage"} ELSE {})
                  \cup (IF f = Done THEN {"done"} ELSE {})

LastId(f) == IF setup.ids THEN f ELSE parser.last
-----------------------------------------------------------------------------
Init ==
    /\ setup \in Setups
    /\ pc = "begin"
    /\ sample = 0 /\ try = 0 /\ step = 0
    /\ prepared = FALSE
    /\ parser = [last |-> 0, left |-> "nothing"]
    /\ resumed = FALSE /\ pos = 1 /\ parts = <<>> /\ saw = {}
    /\ outcome = "none" /\ good = 0
    /\ row = NoRow /\ cancelled = FALSE
    /\ calls = 0 /\ scars = {}

Finish(result) ==
    /\ outcome' = result
    /\ pc' = "decide"

\* A new attempt: execute_case makes a new assembler; the parser stays.
StartAttempt ==
    /\ pc' = "prepare"
    /\ step' = 0 /\ resumed' = FALSE /\ parts' = <<>> /\ saw' = {} /\ pos' = 1
    /\ scars' = {}

\* Mutation: a failure is 'error' in every run.
AlwaysError(result, verdict) == IF result = "ok" THEN verdict ELSE "error"
\* final_pass_fail: 'na' for a technical failure of an error run (na_kw).
PassFail(result, verdict) ==
    IF result = "ok" THEN verdict
    ELSE IF setup.kind = "error" THEN "na" ELSE "error"

\* Mutation: only an answer is worth a row.
SaveAnswersOnly(result) ==
    /\ pc' = "end"
    /\ row' = IF row = NoRow /\ result = "ok"
              THEN [pf |-> "pass", error |-> "ok", parts |-> parts, samples |-> sample]
              ELSE row
\* _save_result ends the case: a row that is there already stays. Before it looks,
\* _ensure_case_version may find its number taken by another run: the IntegrityError
\* raises through the case, and nothing is written.
SaveResult(result) ==
    \/ /\ pc' = "end"
       /\ \E verdict \in IF setup.kind = "error" THEN {"pass", "fail"} ELSE {"pass"} :
             row' = IF row # NoRow THEN row
                    ELSE [pf |-> PassFail(result, verdict), error |-> result,
                          parts |-> IF result = "ok" THEN parts ELSE <<>>,
                          samples |-> IF result = "ok" THEN sample ELSE 0]
    \/ pc' = "raised" /\ UNCHANGED row

\* _execute_with_retry, before its loop: a disabled interface is not called.
Begin ==
    /\ pc = "begin"
    /\ IF setup.enabled
       THEN pc' = "sample" /\ UNCHANGED row
       ELSE SaveResult("interface_disabled")
    /\ UNCHANGED <<setup, sample, try, prepared, parser, outcome, good,
                   cancelled, attemptVars>>

\* _is_cancelled, asked before every sample
StopsHere == cancelled

\* The cancelled case ends with the outcome it has and writes no row.
Stop ==
    /\ pc = "sample" /\ StopsHere
    /\ pc' = "end"
    /\ UNCHANGED <<setup, sample, try, prepared, parser, outcome, good, row,
                   cancelled, attemptVars>>

\* reset(seed) under agent_mutex, then the attempts of the sample.
StartSample ==
    /\ pc = "sample" /\ ~StopsHere
    /\ sample' = sample + 1 /\ try' = 0 /\ calls' = 0
    /\ StartAttempt
    /\ UNCHANGED <<setup, prepared, parser, outcome, good, row, cancelled>>

\* A reset that fails raises through the case: the run fails, no row is written.
ResetRaises ==
    /\ pc = "sample" /\ ~StopsHere /\ setup.reset
    /\ pc' = "raised"
    /\ UNCHANGED <<setup, sample, try, prepared, parser, outcome, good, row,
                   cancelled, attemptVars>>
-----------------------------------------------------------------------------
(* execute_case: prepare, build, send.                                     *)

\* One request or poll of adapter_config.prepare; its product is kept.
PrepareStep ==
    /\ pc = "prepare" /\ ~prepared /\ step < setup.steps
    /\ step' = step + 1
    /\ UNCHANGED <<setup, pc, sample, try, prepared, parser, outcome, good, row,
                   cancelled, resumed, pos, parts, saw, calls, scars>>

\* A status of 400 or more, no JSON object, nothing to extract, a poll that never
\* hits, a host not allowed: the next attempt starts the steps from the first.
PrepareRaises ==
    /\ pc = "prepare" /\ ~prepared /\ step < setup.steps
    /\ \E exc \in (Status \ {"3xx"}) \cup Raised : Finish(ClassifyPrepare(exc))
    /\ UNCHANGED <<setup, sample, try, prepared, parser, good, row, cancelled,
                   attemptVars>>

\* All steps done, or done by an earlier attempt; the request is rendered.
BuildRequest ==
    /\ pc = "prepare" /\ (prepared \/ step = setup.steps)
    /\ prepared' = TRUE
    /\ \/ pc' = "send" /\ UNCHANGED outcome
       \/ Finish("contract_error")
    /\ UNCHANGED <<setup, sample, try, parser, good, row, cancelled, attemptVars>>

\* The request is not sent: no connection, no slot of the pool, host not allowed.
SendRaises ==
    /\ pc = "send"
    /\ \E exc \in Raised : Finish(Classify(exc))
    /\ UNCHANGED <<setup, sample, try, prepared, parser, good, row, cancelled,
                   attemptVars>>

\* The agent refuses; of its body 64 KB are read.
Refused ==
    /\ pc = "send"
    /\ \E st \in Status : Finish(ClassifyStatus(st))
    /\ calls' = calls + 1
    /\ UNCHANGED <<setup, sample, try, prepared, parser, good, row, cancelled,
                   step, resumed, pos, parts, saw, scars>>

\* The stream opens: from the start, or after Last-Event-ID when the agent heeds it.
OpenStream ==
    /\ pc = "send" /\ setup.contract = "sse"
    /\ pc' = "stream"
    /\ calls' = calls + 1
    /\ pos' = IF resumed /\ setup.honours THEN parser.last + 1 ELSE 1
    /\ UNCHANGED <<setup, sample, try, prepared, parser, outcome, good, row,
                   cancelled, step, resumed, parts, saw, scars>>

\* ingest_sync: the answer is complete at once; usage may lack.
IngestSync(seen) ==
    /\ parts' = [i \in 1..Parts |-> i]
    /\ saw' = seen \cup {"done"}

\* parse_sync: a key that is not there has a default.
ParsedSync == {{"usage"}, {}}

\* One answer in one body, or a body that is no JSON.
SyncAnswer ==
    /\ pc = "send" /\ setup.contract = "sync"
    /\ calls' = calls + 1
    /\ \/ \E seen \in ParsedSync :
            IngestSync(seen) /\ Finish(CheckContract(seen))
       \/ Finish("contract_error") /\ UNCHANGED <<saw, parts>>
    /\ UNCHANGED <<setup, sample, try, prepared, parser, good, row, cancelled,
                   step, resumed, pos, scars>>
-----------------------------------------------------------------------------
(* The stream.                                                             *)

\* A whole frame arrives. Behind bytes of an unfinished line its `event:` line
\* cannot be read and the assembler knows no such type; behind unfinished data the
\* JSON cannot be read.
Frame ==
    /\ pc = "stream" /\ pos <= Done
    /\ pos' = pos + 1
    /\ \/ /\ parser.left = "nothing"
          /\ OnEvent(pos)
          /\ parser' = [parser EXCEPT !.last = LastId(pos)]
          /\ scars' = scars \cup {"numbered"}
          /\ UNCHANGED <<pc, outcome>>
       \/ /\ parser.left = "line"
          /\ parser' = [last |-> LastId(pos), left |-> "nothing"]
          /\ scars' = scars \cup {"numbered", "torn"}
          /\ UNCHANGED <<pc, outcome, parts, saw>>
       \/ /\ parser.left = "data"
          /\ Finish(Classify("parse"))
          /\ UNCHANGED <<parser, parts, saw, scars>>
    /\ UNCHANGED <<setup, sample, try, prepared, good, row, cancelled, step,
                   resumed, calls>>

\* A frame whose data is no JSON: the error leaves the data in the parser.
BadFrame ==
    /\ pc = "stream" /\ pos <= Done
    /\ Finish(Classify("parse"))
    /\ parser' = [parser EXCEPT !.left = "data"]
    /\ scars' = scars \cup {"broken"}
    /\ UNCHANGED <<setup, sample, try, prepared, good, row, cancelled, step,
                   resumed, pos, parts, saw, calls>>

Cuts == IF pos <= Done THEN {"between", "line", "data"} ELSE {"between"}

\* What a stream that stops leaves in the parser.
LeaveOff(marks) ==
    \E cut \in Cuts :
        /\ parser' = [parser EXCEPT !.left = LeftBy(@, cut)]
        /\ scars' = scars \cup marks \cup (IF cut = "data" THEN {"broken"} ELSE {})

\* Silence, the wall clock, the network, or 8 MB: the attempt ends where it is,
\* also behind the done event.
Broken ==
    /\ pc = "stream"
    /\ LeaveOff({})
    /\ \E result \in {Classify("timeout"), Classify("network"), "body_too_large"} :
          Finish(result)
    /\ UNCHANGED <<setup, sample, try, prepared, good, row, cancelled, step,
                   resumed, pos, parts, saw, calls>>

\* _MAX_SSE_RESUME = 1; the id may be of an earlier attempt.
Resumes == "done" \notin saw /\ ~resumed /\ parser.last # 0

\* The agent closes the stream: resume it, or check what there is.
Closed ==
    /\ pc = "stream"
    /\ LeaveOff(IF Resumes /\ "numbered" \notin scars THEN {"stale"} ELSE {})
    /\ IF Resumes
       THEN resumed' = TRUE /\ pc' = "send" /\ UNCHANGED outcome
       ELSE Finish(CheckContract(saw)) /\ UNCHANGED resumed
    /\ UNCHANGED <<setup, sample, try, prepared, good, row, cancelled, step, pos,
                   parts, saw, calls>>
-----------------------------------------------------------------------------
(* _call_once and the end of a sample.                                     *)

\* Mutation: the retries of an interface with side effects are not held back.
TriesSideEffects ==
    outcome \in RetryableErrors /\ try < MaxRetries
TriesAgain ==
    outcome \in RetryableErrors /\ setup.retryable /\ try < MaxRetries

Retry ==
    /\ pc = "decide" /\ TriesAgain
    /\ try' = try + 1
    /\ StartAttempt
    /\ UNCHANGED <<setup, sample, prepared, parser, outcome, good, row, cancelled,
                   calls>>

\* A sample that went well: the next one, or the row.
SampleDone ==
    /\ pc = "decide" /\ outcome = "ok"
    /\ good' = good + 1
    /\ IF sample < Attempts
       THEN pc' = "sample" /\ UNCHANGED row
       ELSE SaveResult("ok")
    /\ UNCHANGED <<setup, sample, try, prepared, parser, outcome, cancelled,
                   attemptVars>>

\* A technical failure ends the case, whatever earlier samples brought.
SampleFailed ==
    /\ pc = "decide" /\ outcome # "ok" /\ ~TriesAgain
    /\ SaveResult(outcome)
    /\ UNCHANGED <<setup, sample, try, prepared, parser, outcome, good, cancelled,
                   attemptVars>>
-----------------------------------------------------------------------------
\* The run is cancelled or reaped; the case hears of it at its next sample.
Cancel ==
    /\ ~cancelled /\ pc # "end"
    /\ cancelled' = TRUE
    /\ UNCHANGED <<setup, pc, sample, try, prepared, parser, outcome, good, row,
                   attemptVars>>

\* score_run_salvage writes the missing row of a reaped manual run.
Salvage ==
    /\ cancelled /\ setup.kind = "manual" /\ row = NoRow
    /\ row' = [NoRow EXCEPT !.pf = "error", !.error = "not_executed"]
    /\ UNCHANGED <<setup, pc, sample, try, prepared, parser, outcome, good,
                   cancelled, attemptVars>>

Execute ==
    \/ Begin \/ Stop \/ StartSample \/ ResetRaises
    \/ PrepareStep \/ PrepareRaises \/ BuildRequest
    \/ SendRaises \/ Refused \/ OpenStream \/ SyncAnswer
    \/ Frame \/ BadFrame \/ Broken \/ Closed
    \/ Retry \/ SampleDone \/ SampleFailed

Next == Execute \/ Cancel \/ Salvage

\* The coroutine goes on: every wait of it has a time limit.
Spec == Init /\ [][Next]_vars /\ WF_vars(Execute)
-----------------------------------------------------------------------------
RowFields == [pf : {"none", "pass", "fail", "na", "error"},
              error : Errors \cup {"none", "ok", "interface_disabled", "not_executed"},
              parts : Seq(1..Parts), samples : 0..Repeat]

\* Types of the variables.
TypeOK ==
    /\ setup \in Setups
    /\ pc \in {"begin", "sample", "prepare", "send", "stream", "decide", "end",
               "raised"}
    /\ sample \in 0..Attempts /\ try \in 0..MaxRetries /\ step \in 0..setup.steps
    /\ prepared \in BOOLEAN /\ resumed \in BOOLEAN /\ cancelled \in BOOLEAN
    /\ parser \in [last : 0..Done, left : {"nothing", "line", "data"}]
    /\ pos \in 1..(Done + 1)
    /\ parts \in Seq(1..Parts) /\ saw \subseteq {"usage", "done"}
    /\ outcome \in Errors \cup {"none", "ok"}
    /\ good \in 0..Attempts /\ row \in RowFields
    /\ calls \in Nat /\ scars \subseteq {"numbered", "torn", "broken", "stale"}

Complete(answer) == answer = [i \in 1..Parts |-> i]

\* The answer put together is the agent's: no delta twice, however often the stream
\* was resumed or sent again from the start; none out of order, unless a half line
\* swallowed a frame; and an answer that passed the contract check lacks nothing,
\* unless the stream was moreover resumed behind an id of an earlier attempt.
AnswerIsTheAgents ==
    /\ \A i, j \in DOMAIN parts : i # j => parts[i] # parts[j]
    /\ "torn" \notin scars =>
          \A i, j \in DOMAIN parts : i < j => parts[i] < parts[j]
    /\ pc = "decide" /\ outcome = "ok" /\ scars \cap {"torn", "stale"} = {}
          => Complete(parts)

\* What is written is what happened: a pass or fail only over an answer of the last
\* sample with every earlier sample good; an error run never writes 'error' nor a
\* manual one 'na' or 'fail' here.
RowIsEarned ==
    /\ row.pf \in {"pass", "fail"} =>
          row.error = "ok" /\ row.samples = Attempts /\ good = Attempts
    /\ row.pf # "none" =>
          row.pf \in IF setup.kind = "error" THEN {"pass", "fail", "na"}
                     ELSE {"pass", "error"}

\* What one attempt may call: once, and once more where a stream can be resumed.
Resumable == setup.contract = "sse" /\ setup.ids
CallsOfAttempt == IF Resumable THEN 2 ELSE 1

\* How often the agent is called for a sample: by one attempt and its retries, by a
\* single attempt of a single sample when the interface has side effects, and then a
\* second time only to resume a stream. Once the run is cancelled no sample is begun.
CallsAreBudgeted ==
    /\ [](/\ calls <= CallsOfAttempt * (IF setup.retryable THEN MaxRetries + 1 ELSE 1)
         /\ ~setup.retryable => sample <= 1 /\ try = 0 /\ (calls = 2 => resumed))
    /\ [][cancelled => sample' = sample]_vars

\* NOT TRUE of the code. orchestrator.py:556 and test_orchestrator_retry.py:1 say
\* that an interface with side effects is executed once. A stream that closes before
\* its done event is resumed by sending the request again (executor.py:184-189).
SideEffectsOnce == ~setup.retryable => calls <= 1

\* Every case ends: with its row, unless it was cancelled, or its reset or the saving
\* of its row raised through it.
CaseEnds ==
    <>(pc = "raised" \/ (pc = "end" /\ (row # NoRow \/ cancelled)))

\* executor.py:33-38: a parse error is tried again because the next attempt starts
\* afresh; an attempt whose own stream brought no broken frame has no parse error.
RetryStartsClean ==
    pc = "decide" /\ outcome = "sse_parse_error" => "broken" \in scars
=============================================================================
