CONSTANTS
    n1 = n1
    n2 = n2
    Nodes = {n1, n2}
    Broadcast = Broadcast
    NoNode = NoNode
    NoFrame = NoFrame
    NoPacket = NoPacket
    RetryLimit = 1
    AlohaModel = "UNSLOTTED"
    MayHear <- MCMayHear
    Destinations <- MCAnyAddress
    MaxPackets <- MCMostlyOneWay
SPECIFICATION FairSpec
INVARIANTS
    TypeOK
    NeverStalls
    AtMostOnceInOrder
    AckedWasReceived
PROPERTIES
    EveryPacketIsSettled
    ImplementsLink
CHECK_DEADLOCK FALSE
