\* After one frame that cannot be read every retry of the case fails.
CONSTANTS
    Setups <- PlainOnly
    Repeat = 1
    MaxRetries = 1
    Parts = 2
SPECIFICATION Spec
INVARIANT RetryStartsClean
CHECK_DEADLOCK FALSE
