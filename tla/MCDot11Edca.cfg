CONSTANTS
    NumberAccessCategories = 2
    Aifsn <- TwoAifsn
    MinWindow <- SmallWindows
    MaxWindow <- LargeWindows
    RetryLimit = 2
    SlotTime = 2
    ShortInterframeSpace = 2
    RxTxTurnaroundTime = 1
    ExtendedDelay = 1
    ReplyTimeout = 5
    DataTime = 2
    ControlTime = 1
    ControlTimeChecked = 1
    DisabledToJump = FALSE
    Packets <- OnePacketEach
    MaxSignals = 2
    MaxReserved = 2
SPECIFICATION Spec
INVARIANTS
    TypeOK AssertionsHold BusyStateMatchesPhy NothingIsForgotten
    UnacknowledgedFrameIsTakenBack WaitsForInterframeSpace TimerIsEarliest
PROPERTIES EverythingSettles
