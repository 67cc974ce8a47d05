-------------------------- MODULE BreakerContract --------------------------
(* What a circuit breaker promises: it opens at Threshold failures in a row, *)
(* lets nobody through until it cooled down, then one probe at a time, and   *)
(* the probe decides.                                                        *)
EXTENDS Naturals

CONSTANT Threshold

VARIABLES state,    \* "closed", "open", "half_open"
          failures, \* consecutive failures while closed
          cooled,   \* the open duration is over
          probing   \* a probe is in flight

contractVars == <<state, failures, cooled, probing>>

Init == state = "closed" /\ failures = 0 /\ cooled = FALSE /\ probing = FALSE

CallSucceeds == state = "closed" /\ failures' = 0 /\ UNCHANGED <<state, cooled, probing>>

CallFails ==
    /\ state = "closed" /\ failures + 1 < Threshold
    /\ failures' = failures + 1
    /\ UNCHANGED <<state, cooled, probing>>

Opens ==
    /\ state = "closed" /\ failures + 1 >= Threshold
    /\ state' = "open" /\ failures' = 0 /\ cooled' = FALSE
    /\ UNCHANGED probing

CoolsDown == state = "open" /\ cooled' = TRUE /\ UNCHANGED <<state, failures, probing>>

ProbeStarts ==
    /\ ~probing /\ (state = "half_open" \/ (state = "open" /\ cooled))
    /\ state' = "half_open" /\ probing' = TRUE
    /\ UNCHANGED <<failures, cooled>>

ProbeSucceeds ==
    /\ probing
    /\ state' = "closed" /\ failures' = 0 /\ probing' = FALSE
    /\ UNCHANGED cooled

ProbeFails ==
    /\ probing
    /\ state' = "open" /\ failures' = 0 /\ cooled' = FALSE /\ probing' = FALSE

\* It ends without saying anything of the agent, or the process dies with it.
ProbeUndecided ==
    /\ probing
    /\ state' \in {"half_open", "open"} /\ probing' = FALSE
    /\ UNCHANGED <<failures, cooled>>

Next ==
    \/ CallSucceeds \/ CallFails \/ Opens \/ CoolsDown
    \/ ProbeStarts \/ ProbeSucceeds \/ ProbeFails \/ ProbeUndecided

Spec == Init /\ [][Next]_contractVars
=============================================================================
