-------------------------- MODULE MCCaseExecution --------------------------
(* CaseExecution for TLC. Setups differ from a plain one in one or two ways. *)
EXTENDS CaseExecution

Plain == [kind |-> "manual", contract |-> "sse", retryable |-> TRUE,
          perf |-> FALSE, reset |-> FALSE, steps |-> 0, ids |-> TRUE,
          honours |-> TRUE, enabled |-> TRUE]

AllSetups ==
    {Plain,
     [Plain EXCEPT !.perf = TRUE, !.reset = TRUE],
     [Plain EXCEPT !.perf = TRUE, !.honours = FALSE],
     [Plain EXCEPT !.perf = TRUE, !.retryable = FALSE],
     [Plain EXCEPT !.kind = "error", !.steps = 2],
     [Plain EXCEPT !.kind = "error", !.ids = FALSE],
     [Plain EXCEPT !.kind = "error", !.enabled = FALSE],
     [Plain EXCEPT !.kind = "error", !.contract = "sync", !.steps = 1],
     [Plain EXCEPT !.contract = "sync", !.perf = TRUE, !.retryable = FALSE]}

PlainOnly == {Plain}
=============================================================================
