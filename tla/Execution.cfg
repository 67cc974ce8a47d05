CONSTANTS
    Setups <- AllSetups
    Repeat = 2
    MaxRetries = 2
    Parts = 2
SPECIFICATION Spec
\* A case that has ended stays ended.
CHECK_DEADLOCK FALSE
INVARIANT AnswerIsTheAgents
INVARIANT RowIsEarned
PROPERTY CallsAreBudgeted
PROPERTY CaseEnds
