--------------------------- MODULE MCRunLifecycle ---------------------------
(* RunLifecycle for TLC: two cases are enough for one row to be saved while  *)
(* the other is still under way, and for a backfill that adds one of two.    *)
EXTENDS RunLifecycle, TLC

CONSTANTS c1, c2

TwoCases == {c1, c2}
CaseSymmetry == Permutations(Cases)
=============================================================================
