SPECIFICATION Spec
CONSTANTS
    RxBufNb = 3
    MaxFrames = 8
    Long <- FirstLong
CHECK_DEADLOCK FALSE
PROPERTY RaisedHandled
