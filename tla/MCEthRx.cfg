SPECIFICATION Spec
CONSTANTS
    RxBufNb = 3
    MaxFrames = 8
    Long <- NoneLong
CHECK_DEADLOCK FALSE
INVARIANT FrameIsOurs
PROPERTIES FifoImplemented RaisedHandled
