SPECIFICATION Spec
CONSTANTS
    TxBufNb = 2
    MaxFrames = 3
CHECK_DEADLOCK FALSE
INVARIANT OkIsSent
