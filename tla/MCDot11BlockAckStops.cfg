SPECIFICATION Spec
CONSTANTS
    W = 2
    SeqMod = 16
    RetryLimit = 2
    NoFrame = NoFrame
    AllowFrameAggregationWithTxopZero = FALSE
    MaxPackets = 3
    Starts <- WithOpenSession
INVARIANTS
    IdleHoldsNothing
CHECK_DEADLOCK FALSE
