SPECIFICATION Spec
CONSTANTS
    TxBufNb = 2
    MaxFrames = 4
CHECK_DEADLOCK FALSE
INVARIANT NoGap
