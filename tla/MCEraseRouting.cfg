SPECIFICATION Spec
CONSTANTS
    c1 = c1
    c2 = c2
    p1 = p1
    p2 = p2
    f1 = f1
    f2 = f2
    d1 = d1
    NoClient = NoClient
    NoPcb = NoPcb
    NoChip = NoChip
    Blank = Blank
    Junk = Junk
    Clients = {c1, c2}
    Pcbs = {p1, p2}
    Chips = {f1, f2}
    Data = {d1}
    Payloads <- MCPayloads
    FlashSize = 4
    Page = 2
    DatMax = 2
    Word = 8
    SndQueue = 1
    MaxCmds = 2
INVARIANT AnsweredOnCompletion
