CONSTANTS
    mobile = mobile
    fixed = fixed
    Stations = {mobile, fixed}
    NumberAccessPoints = 2
    NumberOfChannels = 2
    ChannelOf <- OwnChannels
    MaxAssociationId = 2
    MaxLevel = 2
    DisassociationThreshold = 2
    AssociationThreshold = 2
    InitialLevel <- Levels1
    MayMove <- Mobile
    MaxDisturbances = 3
SPECIFICATION Spec
INVARIANTS TypeOK OneEventWaits AssociationIsAgreed
PROPERTIES GetsAssociated
