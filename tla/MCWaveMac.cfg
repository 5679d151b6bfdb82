CONSTANTS
    NumberAccessCategories = 1
    Aifsn <- OneSlot
    MinWindow <- NoSlot
    MaxWindow <- OneSlot
    RetryLimit = 2
    SlotTime = 2
    ShortInterframeSpace = 1
    RxTxTurnaroundTime = 1
    ExtendedDelay = 1
    ReplyTimeout = 4
    DataTime = 2
    ControlTime = 3
    ControlTimeChecked = 1
    DisabledToJump = FALSE
    ChannelInterval <- Intervals
    HalfSyncTolerance = 1
    MaxChannelSwitchingTime = 1
    Packets <- ControlPackets
    MaxSignals = 2
SPECIFICATION Spec
CHECK_DEADLOCK FALSE
INVARIANTS
    SilentWhileSwitching PermissionIsForInterval BackoffOnlyOnOwnChannel BackoffIsTimed
    DataEndsInInterval
PROPERTIES ServesBothChannels
