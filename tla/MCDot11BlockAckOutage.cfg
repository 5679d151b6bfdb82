SPECIFICATION Spec
CONSTANTS
    W = 2
    SeqMod = 8
    RetryLimit = 2
    NoFrame = NoFrame
    AllowFrameAggregationWithTxopZero = FALSE
    MaxPackets = 6
    Starts <- WithOpenSession
INVARIANTS
    BlockAckRequestMovesForward
CHECK_DEADLOCK FALSE
