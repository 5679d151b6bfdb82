CONSTANTS
    left = left
    middle = middle
    right = right
    Nodes = {left, middle, right}
    Broadcast = Broadcast
    NoNode = NoNode
    NoFrame = NoFrame
    NoPacket = NoPacket
    RetryLimit = 1
    AlohaModel = "SLOTTED"
    MayHear <- MCMayHear
    Destinations <- MCDestinations
    MaxPackets <- MCMaxPackets
SPECIFICATION Spec
INVARIANTS
    SlottedNeverExits
CHECK_DEADLOCK FALSE
