SPECIFICATION Spec
CONSTANTS
    Word = 32
    Iss = 29
    HostIss = 27
    Mss = 2
    SndBuf = 4
    QueueLen = 6
    Wnd = 4
    MaxRtx = 3
    HostWnd = 3
    Units = 2
    Calm = 2
    Commands = {1, 2}
    Answers = {3, 4}
    EraseAnswer = 1
    Reads = "late"
    Faults = {"leave"}
    MaxFaults = 1
    MaxFlight = 1
INVARIANT ClosedMeansDelivered
CHECK_DEADLOCK FALSE
