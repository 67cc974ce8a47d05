-------------------------- MODULE MCBackflowInbox --------------------------
(* BackflowInbox for TLC: a second payload behind the first, a second puller *)
(* that takes a lock the first one lost.                                     *)
EXTENDS BackflowInbox, TLC

CONSTANTS p1, p2, w1, w2, b1

TwoPayloads == {p1, p2}
TwoPullers  == {w1, w2}
OneProber   == {b1}
Symmetric   == Permutations(Payloads) \cup Permutations(Pullers)
=============================================================================
