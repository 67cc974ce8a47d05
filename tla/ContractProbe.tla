---------------------------- MODULE ContractProbe ----------------------------
(***************************************************************************)
(* One exchange with an interface, read twice: by the probe an admin or    *)
(* the half-open breaker sends, which reports field by field with checks   *)
(* of its own, and by the execution of a case, which keeps what it scores; *)
(* and before it, the choice of the input an admin's probe is sent with.   *)
(***************************************************************************)
EXTENDS Naturals, FiniteSets

CONSTANTS
    Exchanges,  \* what may happen between the first step and the end of the answer
    Questions   \* the requests for a probe, with what there is to answer them

VARIABLES
    exchange,   \* the exchange in hand
    asked       \* the request in hand

probeVars == <<exchange, asked>>

\* The steps before the request, or the request while its file is read, may lack their sample file
\* or raise anything else. The status is 0 if no answer comes (a network error, a timeout of httpx).
\* A value that should be a text may be longer than the column holds, a number, which has no
\* length, or a list, which has one and cannot be joined.
Usages == {"absent", "empty", "partial", "negative", "whole"}
Prepared == {"ok", "sample_missing", "failed"}
Statuses == {0, 200, 302, 404, 503}
Shapes == {"text", "huge", "number", "list"}
Bodies == {"object", "other", "no_json"}

\* Events that reach the platform whole and under their unified type, "answer" the increments of
\* answer and reasoning with what is in them, and what comes behind: nothing, a frame that cannot be
\* parsed, the end of the connection, more than a stream may hold, or a pause or a trickle that no
\* single read calls a timeout.
EventTypes == {"meta", "answer", "usage", "done", "error"}
Streams == [contract : {"sse"}, prepare : Prepared, status : Statuses, events : SUBSET EventTypes,
            delta : {"text", "number", "list"}, end : {"whole", "broken", "cut", "large", "slow"}]

\* A usage has three parts or none of them, or holds something else; rest: reasoning and
\* tool_calls; end: it comes within the time a case has, or in a trickle beyond it; mapped: the
\* configuration takes the fields from other places than the contract's.
Replies == [contract : {"sync"}, prepare : Prepared, status : Statuses, body : Bodies,
            answer : {"absent", "blank"} \cup Shapes, rest : Shapes, usage : Usages,
            timed : BOOLEAN, mapped : BOOLEAN, end : {"whole", "slow"}]
-----------------------------------------------------------------------------
\* _usage_ok: three parts, none negative.
UsageOk(u) == u = "whole"

\* _check_sse
SseErrors(x) ==
    {e \in {"usage", "done"} : e \notin x.events} \cup ({"error"} \cap x.events)

\* Mutation: the usage is not looked at.
SyncErrorsWithoutUsage(x) ==
    IF x.body # "object" THEN {"body"}
    ELSE {f \in {"answer", "timing"} : (f = "answer" /\ x.answer \in {"absent", "blank"}) \/ (f = "timing" /\ ~x.timed)}

\* _check_sync: an answer is whatever Python takes for true.
SyncErrors(x) ==
    IF x.body # "object" THEN {"body"}
    ELSE {f \in {"answer", "usage", "timing"} :
            \/ f = "answer" /\ x.answer \in {"absent", "blank"}
            \/ f = "usage" /\ ~UsageOk(x.usage)
            \/ f = "timing" /\ ~x.timed}

\* probe_interface: what it found wrong; any status but 200 ends it. It counts neither bytes nor
\* the time between two reads.
ProbeErrors(x) ==
    IF x.prepare # "ok" THEN {"prepare"}
    ELSE IF x.status # 200 THEN {"http"}
    ELSE IF x.contract = "sync" THEN SyncErrors(x)
    ELSE SseErrors(x) \cup ({"broken", "cut"} \cap {x.end})
ProbeOk(x) == ProbeErrors(x) = {}
\* The file of the case is to be put in place first; the agent has done nothing wrong.
InputError(x) == x.prepare = "sample_missing"

\* What execute_case makes of the same exchange. A stream is given up as soon as something raises
\* or a limit is passed, and the parts are joined when all else is well.
HasDelta(x, value) == "answer" \in x.events /\ x.delta = value
ExecutedStream(x) ==
    CASE HasDelta(x, "number") -> "contract_error"
      [] x.end = "broken" -> "sse_parse_error"
      [] x.end = "cut" -> "connect_error"
      [] x.end = "large" -> "body_too_large"
      [] x.end = "slow" -> "timeout"
      [] "done" \notin x.events -> "no_done"
      [] "usage" \notin x.events -> "no_usage"
      [] HasDelta(x, "list") -> "contract_error"
      [] OTHER -> "ok"

\* parse_sync picks by the configured paths, so a usage at another path is not the one the probe
\* sees, and finds nothing in what is no object; ingest_sync takes an empty usage for none.
Ingests(x, value) == x.body = "object" /\ value \in {x.answer, x.rest}
HasUsage(x) == x.body = "object" /\ ~x.mapped /\ x.usage \notin {"absent", "empty"}
ExecutedReply(x) ==
    CASE x.end = "slow" -> "timeout"
      [] x.body = "no_json" -> "contract_error"
      [] Ingests(x, "number") -> "contract_error"
      [] Ingests(x, "huge") -> "sse_parse_error"
      [] ~HasUsage(x) -> "no_usage"
      [] Ingests(x, "list") -> "contract_error"
      [] OTHER -> "ok"

ExecuteCase(x) ==
    CASE x.prepare # "ok" -> "not_sent"
      [] x.prepare = "ok" /\ x.status = 0 -> "connect_error"
      [] x.prepare = "ok" /\ x.status = 200 -> IF x.contract = "sse" THEN ExecutedStream(x) ELSE ExecutedReply(x)
      [] OTHER -> IF x.status = 404 THEN "http_client_error" ELSE "http_error"
-----------------------------------------------------------------------------
\* A request for a probe: is the agent enabled, the interface that is named (or that one is there,
\* if none is), the input of the body and of adapter_config, which is any JSON; and the suite that
\* is named, or the first one, with its first active case. file: is the sample file at hand.
Interfaces == {"unnamed", "none_enabled", "own", "disabled", "foreign"}
SuiteCases == {"foreign_suite", "no_suite", "no_active_case", "blank", "input"}
AllQuestions == [enabled : BOOLEAN, interface : Interfaces, body : {"absent", "empty", "input"},
                 declared : {"absent", "empty", "no_object", "input"}, suite : SuiteCases, file : BOOLEAN]
ASSUME ProbeAssumption == Exchanges \subseteq Streams \cup Replies /\ Questions \subseteq AllQuestions
Probed(q) == q.enabled /\ q.interface \in {"unnamed", "own"}

\* resolve_probe_input: an empty or malformed input is none.
ResolveProbeInput(body, declared, loaded) ==
    IF body = "input" THEN "explicit"
    ELSE IF declared = "input" THEN "adapter_probe"
    ELSE IF loaded = "input" THEN "suite_case"
    ELSE "nothing"

\* probe_agent: a case is looked for when both other inputs are empty, malformed or not.
LooksForCase(q) == q.body # "input" /\ q.declared \in {"absent", "empty"}
Source(q) == ResolveProbeInput(q.body, q.declared, IF LooksForCase(q) THEN q.suite ELSE "absent")
ProbeAgent(q) ==
    IF ~Probed(q) THEN "refused"
    ELSE IF LooksForCase(q) /\ q.suite = "foreign_suite" THEN "refused"
    ELSE IF Source(q) = "nothing" THEN "no_input"
    ELSE IF ~q.file THEN "input_error"
    ELSE "sent"
-----------------------------------------------------------------------------
ProbeInit == exchange \in Exchanges /\ asked \in Questions
\* The next exchange is a stream of the same interface.
ProbeNext == \E es \in SUBSET EventTypes :
    exchange.contract = "sse" /\ exchange' = [exchange EXCEPT !.events = es] /\ UNCHANGED asked
\* The admin asks again, with an input of his own or with the file put in place.
ProbeAgain == \E again \in {[asked EXCEPT !.body = "input"], [asked EXCEPT !.file = TRUE]} :
    again # asked /\ asked' = again /\ UNCHANGED exchange
-----------------------------------------------------------------------------
\* A probe is sent whenever the agent and its interface are there and one of the three inputs is,
\* with its file; only a suite of another agent, or a declared input that is no object, which keeps
\* the suite from being asked, stands in its way.
ProbeFindsInput ==
    Probed(asked) /\ asked.file /\ (asked.body = "input" \/ asked.declared = "input" \/ asked.suite = "input")
    => ProbeAgent(asked) = "sent" \/ asked.declared = "no_object"

\* What only the execution looks at: types, sizes, the time an answer takes, and the places that
\* the configuration names.
Texts(x) == IF x.contract = "sse" THEN x.delta = "text" ELSE x.answer = "text" /\ x.rest = "text"
WithinLimits(x) == x.end \notin {"large", "slow"}
AsContracted(x) == x.contract = "sync" => ~x.mapped

\* What the probe accepts the execution can use, and a missing sample is never reported against an
\* agent that answered: the probe has a parser and checks of its own, and an exchange it finds
\* well-formed was sent, answered and lacks neither its end nor its usage; it is scored, and not a
\* technical failure, if besides its values are texts and it keeps within the limits of a case.
AcceptedIsUsable ==
    /\ ProbeOk(exchange) /\ AsContracted(exchange) =>
          /\ ExecuteCase(exchange) \in {"ok", "contract_error", "sse_parse_error", "body_too_large", "timeout"}
          /\ Texts(exchange) /\ WithinLimits(exchange) => ExecuteCase(exchange) = "ok"
    /\ InputError(exchange) => ~ProbeOk(exchange) /\ ExecuteCase(exchange) # "ok"

\* NOT TRUE of the code: an agent that passes the probe can be evaluated as it is (README.md:295).
\* What only the execution looks at makes a technical failure of it, in every case.
ProbedIsScored == ProbeOk(exchange) => ExecuteCase(exchange) = "ok"

\* A probe that can be made is made, with whatever input there is, and what it finds of an answer
\* the execution of the cases finds too.
ProbeForetells == ProbeFindsInput /\ AcceptedIsUsable
=============================================================================
