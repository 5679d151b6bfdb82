SPECIFICATION Spec
CONSTANTS
    W = 3
    SeqMod = 16
    RetryLimit = 2
    NoFrame = NoFrame
    AllowFrameAggregationWithTxopZero = FALSE
    MaxPackets = 6
    Starts <- FromFirstFrameOrProtected
INVARIANTS
    TypeOK
    ReceiverAssertionsHold
    SenderAssertionsHold
    DeliveredInOrder
    AckedIsReceived
    BufferedFramesGetReleased
PROPERTIES
    OutcomeIsFinal
    EveryPacketIsSettled
CHECK_DEADLOCK FALSE
