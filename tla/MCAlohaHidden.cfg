CONSTANTS
    left = left
    middle = middle
    right = right
    Nodes = {left, middle, right}
    Broadcast = Broadcast
    NoNode = NoNode
    NoFrame = NoFrame
    NoPacket = NoPacket
    RetryLimit = 1
    AlohaModel = "UNSLOTTED"
    MayHear <- MCMayHear
    Destinations <- MCDestinations
    MaxPackets <- MCMaxPackets
SPECIFICATION Spec
INVARIANTS
    AssertionsHold
    AttemptsAsConfigured
    InterferenceCountExact
    GoodFrameIsAlone
PROPERTIES HitFrameStaysBad
CHECK_DEADLOCK FALSE
