SPECIFICATION Spec
CONSTANTS
    Word = 32
    Iss = 29
    HostIss = 27
    Mss = 3
    SndBuf = 6
    QueueLen = 6
    Wnd = 6
    MaxRtx = 3
    HostWnd = 4
    Units = 1
    Calm = 1
    Commands = {1}
    Answers = {6}
    EraseAnswer = 0
    Reads = "late"
    Faults = {"lose"}
    MaxFaults = 2
    MaxFlight = 1
PROPERTY AnswersAlwaysArrive
CHECK_DEADLOCK FALSE
