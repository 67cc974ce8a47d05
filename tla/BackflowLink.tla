--------------------------- MODULE BackflowLink ---------------------------
(* What the back-flow owes the platform that hands out the payloads: a       *)
(* payload is only answered "active" when a case exists that replays it, an  *)
(* active payload stays active, and a refused one is asked again or heals.   *)

CONSTANT Payloads

VARIABLES made,   \* the payloads that have a case
          answer  \* "open", "active", "refused"

linkVars == <<made, answer>>

Init == made = {} /\ answer = [p \in Payloads |-> "open"]

Materialise(p) == made' = made \cup {p} /\ UNCHANGED answer

Activate(p) ==
    /\ p \in made
    /\ answer' = [answer EXCEPT ![p] = "active"]
    /\ UNCHANGED made

Refuse(p) ==
    /\ answer[p] = "open"
    /\ answer' = [answer EXCEPT ![p] = "refused"]
    /\ UNCHANGED made

AskAgain(p) ==
    /\ answer[p] = "refused"
    /\ answer' = [answer EXCEPT ![p] = "open"]
    /\ UNCHANGED made

Next == \E p \in Payloads : Materialise(p) \/ Activate(p) \/ Refuse(p) \/ AskAgain(p)

Spec == Init /\ [][Next]_linkVars
===========================================================================
