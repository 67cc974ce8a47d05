--------------------------- MODULE MCRunAdmission ---------------------------
(* Three requests, two of them for one version, and a limit of two: the      *)
(* third is turned down or not, and the versions compete for the regression. *)
EXTENDS RunAdmission

CONSTANTS q1, q2, q3, v1, v2

ThreeRequests == {q1, q2, q3}
TwoVersions == {v1, v2}
VersionOfRequest == [q \in ThreeRequests |-> IF q = q3 THEN v2 ELSE v1]
=============================================================================
