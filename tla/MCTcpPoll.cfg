SPECIFICATION Spec
CONSTANTS
    s1 = s1
    s2 = s2
    NoSlot = NoSlot
    Slots = {s1}
    Packets <- MCPackets
    Costs = {1, 2}
    SndBuf = 3
    Wnd = 5
    PoolSize = 5
    MaxHalves = 8
    Reentrant = TRUE
INVARIANT PollKeepsEs
