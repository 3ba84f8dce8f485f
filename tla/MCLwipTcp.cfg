SPECIFICATION Spec
CONSTANTS
    Word = 32
    Iss = 29
    HostIss = 27
    Mss = 2
    SndBuf = 4
    QueueLen = 6
    Wnd = 4
    MaxRtx = 2
    HostWnd = 3
    Units = 3
    Calm = 2
    Commands = {1}
    Answers = {4}
    EraseAnswer = 1
    Reads = "late"
    Faults = {"lose", "double", "delay", "early", "haste", "leave", "reset"}
    MaxFaults = 2
    MaxFlight = 0
INVARIANTS NothingDropped WindowHonest AnswersFit GivesUpLate
PROPERTIES NeverShrinks HostStream ServerStream AnswersArrive Ends
CHECK_DEADLOCK FALSE
