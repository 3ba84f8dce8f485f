SPECIFICATION Spec
CONSTANTS
    TxBufNb = 3
    MaxFrames = 6
CHECK_DEADLOCK FALSE
INVARIANT Contiguous
PROPERTIES OverwritesOnlyFull Drains
