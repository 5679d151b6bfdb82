SPECIFICATION BufferSpec
CONSTANTS
    W = 4
    SeqMod = 16
    LastNumber = 20
INVARIANTS
    WindowConsistent
    BufferMatchesBitmap
CHECK_DEADLOCK FALSE
