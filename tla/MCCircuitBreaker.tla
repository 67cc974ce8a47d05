-------------------------- MODULE MCCircuitBreaker --------------------------
(* Two slots for manual runs, whose saves overlap, and the one of the active *)
(* error run.                                                                *)
EXTENDS CircuitBreaker

CONSTANTS m1, m2, e1

ThreeSlots == {m1, m2, e1}
BothDomains == {"manual", "error_regression"}
DomainOfSlot == [s \in ThreeSlots |-> IF s = e1 THEN "error_regression" ELSE "manual"]
=============================================================================
