SPECIFICATION Spec
CONSTANTS
    W = 2
    SeqMod = 16
    RetryLimit = 2
    NoFrame = NoFrame
    AllowFrameAggregationWithTxopZero = FALSE
    MaxPackets = 3
    Starts <- FromFirstFrame
INVARIANTS
    FrameBehindWindowWasReceived
CHECK_DEADLOCK FALSE
