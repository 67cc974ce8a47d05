----------------------------- MODULE AgentSlots -----------------------------
(* What the limits promise an agent: a capacity that is fixed by the first   *)
(* run that registers one, and never more calls at a time than that.         *)
EXTENDS Naturals, FiniteSets

CONSTANT Tasks      \* the case coroutines that may call the agent

VARIABLES capacity, \* 0 as long as no run registered one
          busy      \* the coroutines that are calling the agent

Init == capacity = 0 /\ busy = {}

Register == capacity = 0 /\ capacity' \in Nat \ {0} /\ UNCHANGED busy

Enter(t) ==
    /\ t \notin busy /\ Cardinality(busy) < capacity
    /\ busy' = busy \cup {t}
    /\ UNCHANGED capacity

Leave(t) ==
    /\ t \in busy
    /\ busy' = busy \ {t}
    /\ UNCHANGED capacity

Next == Register \/ \E t \in Tasks : Enter(t) \/ Leave(t)

Spec == Init /\ [][Next]_<<capacity, busy>>
=============================================================================
