---------------------------- MODULE JudgeBoard ----------------------------
(* What the judge queue promises to the run that waits for it: every task    *)
(* gets one outcome and keeps it, and the run is scored with exactly the     *)
(* outcomes of all of them. A run whose scoring is given up is owed nothing. *)
EXTENDS Naturals

CONSTANT Tasks

VARIABLES outcome, \* "open", "done", "failed"
          score,   \* the outcomes the run was scored with; "open" before
          run      \* "scoring", "completed", "scoring_failed"

boardVars == <<outcome, score, run>>

AllOpen == [t \in Tasks |-> "open"]

Init == outcome = AllOpen /\ score = AllOpen /\ run = "scoring"

\* Some open tasks are answered, or given up together.
Answer(new) ==
    /\ run = "scoring"
    /\ \A t \in Tasks : outcome[t] # "open" => new[t] = outcome[t]
    /\ outcome' = new
    /\ UNCHANGED <<score, run>>

Publish ==
    /\ run = "scoring"
    /\ \A t \in Tasks : outcome[t] # "open"
    /\ score' = outcome
    /\ run' = "completed"
    /\ UNCHANGED outcome

GiveUp ==
    /\ run = "scoring"
    /\ run' = "scoring_failed"
    /\ outcome' = AllOpen
    /\ UNCHANGED score

Next ==
    \/ \E new \in [Tasks -> {"open", "done", "failed"}] : Answer(new)
    \/ Publish
    \/ GiveUp

Spec == Init /\ [][Next]_boardVars
===========================================================================
