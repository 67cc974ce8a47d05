-------------------------- MODULE RegressionLedger --------------------------
(* What the automatic schedule promises: one regression at a time, and no    *)
(* version regressed again once it has been judged.                          *)
CONSTANT Versions

VARIABLE outcome   \* "none", "active", "judged", "broken" of each version

Init == outcome = [v \in Versions |-> "none"]

Build(v) ==
    /\ \A w \in Versions : outcome[w] # "active"
    /\ outcome[v] \in {"none", "broken"}
    /\ outcome' = [outcome EXCEPT ![v] = "active"]

End(v) ==
    /\ outcome[v] = "active"
    /\ \E o \in {"judged", "broken"} : outcome' = [outcome EXCEPT ![v] = o]

Next == \E v \in Versions : Build(v) \/ End(v)

Spec == Init /\ [][Next]_outcome
=============================================================================
