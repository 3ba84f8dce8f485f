SPECIFICATION Spec
CONSTANTS
    d1 = d1
    d2 = d2
    Blank = Blank
    Junk = Junk
    Data = {d1, d2}
    Payloads <- MCPayloads
    FlashSize = 12
    Page = 4
INVARIANTS WithinPage WritesAll
