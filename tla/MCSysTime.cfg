SPECIFICATION Spec
CONSTANTS
    TCPTimer = TCPTimer
    ARPTimer = ARPTimer
    Word = 203
    Period = 10
    TicksPerMs = 10
    Timers <- MCTimers
    Interval <- MCInterval
    MaxStall = 3
PROPERTY Punctual
