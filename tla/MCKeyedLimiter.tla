--------------------------- MODULE MCKeyedLimiter ---------------------------
(* A manual run m with three cases and an error run e with two, whose        *)
(* bucket holds one; the agent's pool has two slots, fewer than either wants. *)
EXTENDS KeyedLimiter, TLC

CONSTANTS m1, m2, m3, e1, e2

TwoRuns   == {"m", "e"}
FiveTasks == {m1, m2, m3, e1, e2}
RunOfTask == [t \in FiveTasks |-> IF t \in {m1, m2, m3} THEN "m" ELSE "e"]
Agreeing  == [r \in TwoRuns |-> 2]
Differing == [r \in TwoRuns |-> IF r = "m" THEN 2 ELSE 3]
OwnAgent  == [r \in TwoRuns |-> IF r = "m" THEN 2 ELSE 1]
OwnGlobal == [r \in TwoRuns |-> IF r = "m" THEN 3 ELSE 1]
=============================================================================
