SPECIFICATION BusSpec
CONSTANTS
    c1 = c1
    c2 = c2
    Chips = {c1, c2}
    FlashSize = 2
    Page = 1
    Data = {90, 165}
    Payloads <- MCPayloads
    Starts = {1}
    ReadLens = {1}
SYMMETRY Symmetry
CONSTRAINT NotAstray
INVARIANT LatchUsed
PROPERTY BusShared
