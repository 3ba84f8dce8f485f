SPECIFICATION SessionSpec
CONSTANTS
    c1 = c1
    p1 = p1
    p2 = p2
    f1 = f1
    f2 = f2
    d1 = d1
    d2 = d2
    NoClient = NoClient
    NoPcb = NoPcb
    NoChip = NoChip
    Blank = Blank
    Junk = Junk
    Clients = {c1}
    Pcbs = {p1, p2}
    Chips = {f1, f2}
    Data = {d1, d2}
    Payloads <- MCPayloads
    FlashSize = 6
    Page = 2
    DatMax = 4
    Word = 8
    SndQueue = 1
    MaxCmds = 0
    MaxImage = 5
    MaxReads = 5
    PadExact = TRUE
INVARIANTS AnswerMatches IdleIsClean FlowKeepsChip
PROPERTIES StoreImplemented ReadEnds
