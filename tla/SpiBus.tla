------------------------------- MODULE SpiBus --------------------------------
(* The SPI bus to the flash chips, pin by pin: the soft SPI of stm32f107.c,   *)
(* the transactions of drvflash.c and the shift register of a chip.           *)
(*                                                                            *)
(* The main loop's transactions (Flash_ReadSR, the two reads of flashCheckOut) *)
(* are cut at every pin it sets; the Ethernet interrupt comes in between and  *)
(* runs a driver function to its end, over a bus that may be in the middle of *)
(* a byte.  What the chip then makes of the bits of both is the question:     *)
(* XvcServer says that it makes nothing of them.                              *)
EXTENDS Integers, SequencesExt

CONSTANTS Chips,        \* the chips the FPGA can route the bus to
          FlashSize, Page,
          Data,         \* bytes written, none the bitwise and of two others
          Payloads, Starts, ReadLens    \* what WRITE and READ are called with

ASSUME SpiBusAssumption ==
    /\ {FlashSize, Page} \subseteq Nat \ {0}
    /\ FlashSize % Page = 0
    /\ 16777216 % FlashSize = 0        \* an address has 24 bits
    /\ Data \subseteq 1 .. 254
    /\ Payloads \subseteq Seq(Data \cup {255}) \ {<<>>}
    /\ \A data \in Payloads : Len(data) <= FlashSize   \* a uint16 against 2^24
    /\ Starts \cup ReadLens \subseteq Nat

VARIABLES
    mux,            \* the chip the FPGA routes to
    nss, sck, mosi, \* the pins
    chip,           \* the chips: cells, busy bit, write-enable latch, and the
                    \* bits clocked in since they were selected
    main,           \* the main loop's transaction and its place in it
    unheard,        \* history: the main loop's transaction found the chip busy,
                    \* or an interrupt has used the bus or moved the routing
    got, answer,    \* what the main loop and the last READ have read
    astray          \* history: the routing has moved twice in one transaction

busVars == <<mux, nss, sck, mosi, chip, unheard>>
spiVars == <<busVars, main, got, answer, astray>>

Address == 0 .. FlashSize - 1
Blank == 255
Float == -1         \* a level nobody drives, and a byte with such a bit
Bits(byte) == [i \in 1 .. 8 |-> (byte \div 2 ^ (8 - i)) % 2]
Value(bits, i) ==       \* of the byte that starts at bit i
    128 * bits[i] + 64 * bits[i + 1] + 32 * bits[i + 2] + 16 * bits[i + 3]
    + 8 * bits[i + 4] + 4 * bits[i + 5] + 2 * bits[i + 6] + bits[i + 7]
ByteRead(bits) == IF Contains(bits, Float) THEN Float ELSE Value(bits, 1)
AllBits(bytes) ==
    [i \in 1 .. 8 * Len(bytes) |-> Bits(bytes[(i + 7) \div 8])[((i - 1) % 8) + 1]]

-----------------------------------------------------------------------------
(* The chip.  It takes a bit on each rising edge; with its NSS high again it  *)
(* does what it was told if the bits make up whole bytes.  A busy chip hears  *)
(* only the opcode that reads its status register.                            *)
READ_SR == 5
READ_DATA == 3
WRITE_ENABLE == 6
WRITE_PAGE == 2
ERASE_CHIP == 199
Spoiling == {1, 32, 129, 216}   \* opcodes that write or erase something else

Opcode(c) == IF Len(c.bits) < 8 THEN Float ELSE Value(c.bits, 1)
ChipAddress(c) ==
    (65536 * Value(c.bits, 9) + 256 * Value(c.bits, 17) + Value(c.bits, 25)) % FlashSize

Clocked(c, bits) ==
    LET d == [c EXCEPT !.bits = @ \o bits]
        decoded == Len(c.bits) < 8 /\ Len(d.bits) >= 8
    IN  [d EXCEPT !.deaf = IF decoded THEN c.wip /\ Opcode(d) # READ_SR ELSE @]

And(a, b) == Value([i \in 1 .. 8 |-> Bits(a)[i] * Bits(b)[i]], 1)
(* Bytes that were mixed in a cell can be told from bytes that were written.  *)
ASSUME SpiBusData == \A a, b \in Data : And(a, b) \in Data => a = b

InPage(a, k) == Page * (a \div Page) + ((a + k) % Page)
Programmed(c) ==
    LET n == (Len(c.bits) - 32) \div 8
        a == ChipAddress(c)
        byte(k) == Value(c.bits, 33 + 8 * k)
    IN  [i \in Address |->
            IF \E k \in 0 .. n - 1 : InPage(a, k) = i
            THEN And(c.cell[i], byte(CHOOSE k \in 0 .. n - 1 : InPage(a, k) = i))
            ELSE c.cell[i]]

Deselected(c) ==
    LET d == [c EXCEPT !.bits = <<>>, !.deaf = FALSE]
        op == IF c.deaf \/ Len(c.bits) % 8 # 0 THEN Float ELSE Opcode(c)
        alone == Len(c.bits) = 8
    IN  IF op = WRITE_ENABLE /\ alone THEN [d EXCEPT !.wel = TRUE]
        ELSE IF ~c.wel THEN d
        ELSE IF op = ERASE_CHIP /\ alone
        THEN [d EXCEPT !.wel = FALSE, !.wip = TRUE]
        ELSE IF op = WRITE_PAGE /\ Len(c.bits) >= 40
        THEN [d EXCEPT !.wel = FALSE, !.cell = Programmed(c)]
        ELSE IF op \in Spoiling /\ Len(c.bits) >= 16
        THEN [d EXCEPT !.wel = FALSE, !.cell = [a \in Address |-> 0]]
        ELSE d

(* What the chip drives on MISO after a falling edge.                         *)
Miso(c) ==
    LET n == Len(c.bits)
    IN  IF Opcode(c) = READ_SR
        THEN Bits((IF c.wip THEN 1 ELSE 0) + (IF c.wel THEN 2 ELSE 0))[(n % 8) + 1]
        ELSE IF Opcode(c) = READ_DATA /\ ~c.deaf /\ n >= 32
        THEN Bits(c.cell[(ChipAddress(c) + (n - 32) \div 8) % FlashSize])[(n % 8) + 1]
        ELSE Float

Idle(c) == IF c.wip THEN [c EXCEPT !.cell = [a \in Address |-> Blank], !.wip = FALSE]
           ELSE c

-----------------------------------------------------------------------------
(* The driver as the interrupt runs it, from a chip to a chip.  If NSS is low *)
(* already, the first bits follow those of the main loop.                     *)
SPI_WriteBytes(c, bytes) == Clocked(c, AllBits(bytes))
Transaction(c, bytes) == Deselected(SPI_WriteBytes(c, bytes))

Flash_WriteEnable(c) == Transaction(c, <<WRITE_ENABLE>>)

(* The transactions of the wait find NSS high and change nothing.             *)
Flash_WaitBusy(c) == Idle(c)

AddressBytes(a) == <<(a \div 65536) % 256, (a \div 256) % 256, a % 256>>

Flash_EraseChip_NoWait(c) == Transaction(Flash_WriteEnable(c), <<ERASE_CHIP>>)
Flash_EraseChip(c) ==
    Transaction(Flash_WaitBusy(Flash_WriteEnable(c)), <<ERASE_CHIP>>)

Flash_WritePage_ShortAddress(c, a, bytes) ==
    Flash_WaitBusy(Transaction(Flash_WriteEnable(c),
                               <<WRITE_PAGE>> \o Tail(AddressBytes(a)) \o bytes))
Flash_WritePage(c, a, bytes) ==
    Flash_WaitBusy(Transaction(Flash_WriteEnable(c),
                               <<WRITE_PAGE>> \o AddressBytes(a) \o bytes))

(* A page at a time: FlashPages has the loop.                                 *)
Flash_WriteNoCheck(c, a, data) ==
    LET off == a % Page
        pages == (off + Len(data) - 1) \div Page + 1
        from(i) == IF i = 1 THEN 1 ELSE (i - 1) * Page - off + 1
        to(i) == IF i = pages THEN Len(data) ELSE i * Page - off
    IN  FoldLeft(LAMBDA d, i : Flash_WritePage(d, a + from(i) - 1,
                                               SubSeq(data, from(i), to(i))),
                 c, [i \in 1 .. pages |-> i])

(* The bytes read: one bit for each falling edge, the chip clocked between.   *)
SPI_ReadBytes(c, n) ==
    LET bit(i) == Miso([c EXCEPT !.bits = @ \o [k \in 1 .. i - 1 |-> 0]])
    IN  [k \in 1 .. n |-> ByteRead([i \in 1 .. 8 |-> bit(8 * k - 8 + i)])]
Flash_ReadSomeByte(c, a, n) ==
    LET asked == SPI_WriteBytes(c, <<READ_DATA>> \o AddressBytes(a))
    IN  IF c.bits # <<>> THEN [k \in 1 .. n |-> Float] ELSE SPI_ReadBytes(asked, n)

-----------------------------------------------------------------------------
(* A chip that is routed to while NSS is low is selected by that, one that is *)
(* routed away from is deselected.                                            *)
Moves(to) ==
    IF nss = 0 /\ to # mux /\ main.moves < 2 THEN main.moves + 1 ELSE main.moves
Counted(to) ==
    /\ main' = [main EXCEPT !.moves = Moves(to)]
    /\ astray' = (astray \/ Moves(to) > 1)
Routed(to) ==
    IF to = mux THEN chip ELSE [chip EXCEPT ![mux] = Deselected(@)]

(* What the commands do to the bus, after flashChoice.                        *)
Command(to, c) ==
    /\ mux' = to
    /\ chip' = [Routed(to) EXCEPT ![to] = c]
    /\ nss' = 1 /\ sck' = 1
    /\ unheard' = TRUE
    /\ Counted(to)
    /\ UNCHANGED got

EarseCmd ==
    /\ \E to \in Chips : Command(to, Flash_EraseChip(Routed(to)[to]))
    /\ mosi' = ERASE_CHIP % 2
    /\ UNCHANGED answer
WriteDataCmd(a, data) ==
    /\ \E to \in Chips : Command(to, Flash_WriteNoCheck(Routed(to)[to], a, data))
    /\ mosi' = READ_SR % 2
    /\ UNCHANGED answer
ReadCmd(a, n) ==
    \E to \in Chips :
        LET c == Routed(to)[to]
            end == SPI_WriteBytes(c, <<READ_DATA>> \o AddressBytes(a)
                                     \o [k \in 1 .. n |-> IF a % 2 = 1 THEN 255 ELSE 0])
        IN  /\ Command(to, Deselected(end))
            /\ mosi' = a % 2
            /\ answer' = Flash_ReadSomeByte(c, a, n)
RouteCmd ==
    /\ \E to \in Chips :
          /\ mux' = to /\ chip' = Routed(to)
          /\ unheard' = (unheard \/ to # mux)
          /\ Counted(to)
    /\ UNCHANGED <<nss, sck, mosi, got, answer>>

-----------------------------------------------------------------------------
(* The main loop.  main.job is the address it reads, or Status; main.place    *)
(* the number of bits done; main.low that it has set SCK low; main.bits what  *)
(* it has sampled; main.moves how often the routing has moved, counted to two.*)
Status == -1
NoJob == -2
Nothing == [job |-> NoJob, value |-> Float]
(* Flash_ReadSR, and flashCheckOut's addresses, the second cut to 24 bits.     *)
Jobs == {Status, 0, 16777215}
Resting == [job |-> NoJob, place |-> 0, low |-> FALSE, bits |-> <<>>, moves |-> 0]
Written(job) ==
    AllBits(IF job = Status THEN <<READ_SR>> ELSE <<READ_DATA>> \o AddressBytes(job))

BusInit ==
    /\ mux \in Chips
    /\ nss = 1 /\ sck = 1 /\ mosi = 0
    /\ chip = [c \in Chips |->
                 [cell |-> [a \in Address |-> Blank], wip |-> FALSE, wel |-> FALSE,
                  bits |-> <<>>, deaf |-> FALSE]]
    /\ main = Resting
    /\ unheard = FALSE
    /\ got = Nothing
    /\ answer = <<>>
    /\ astray = FALSE

NssLow(job) ==
    /\ main.job = NoJob
    /\ nss' = 0
    /\ unheard' = (job # Status /\ chip[mux].wip)
    /\ got' = Nothing /\ answer' = <<>>
    /\ main' = [Resting EXCEPT !.job = job]
    /\ UNCHANGED <<mux, sck, mosi, chip, astray>>

Writes == main.place < Len(Written(main.job))
Done == main.place = Len(Written(main.job)) + 8

(* MOSI and the falling edge, or the falling edge and the sample: nothing     *)
(* that comes between these two can tell them apart.                          *)
SckLow ==
    /\ main.job # NoJob /\ ~main.low /\ ~Done
    /\ sck' = 0
    /\ IF Writes
       THEN /\ mosi' = Written(main.job)[main.place + 1]
            /\ main' = [main EXCEPT !.low = TRUE]
       ELSE /\ main' = [main EXCEPT !.low = TRUE,
                                    !.bits = Append(@, IF nss = 0 THEN Miso(chip[mux])
                                                       ELSE Float)]
            /\ UNCHANGED mosi
    /\ UNCHANGED <<mux, nss, chip, unheard, got, answer, astray>>
SckHigh ==
    /\ main.low
    /\ sck' = 1
    /\ chip' = IF nss = 0 /\ sck = 0 THEN [chip EXCEPT ![mux] = Clocked(@, <<mosi>>)]
               ELSE chip
    /\ main' = [main EXCEPT !.low = FALSE, !.place = @ + 1]
    /\ UNCHANGED <<mux, nss, mosi, unheard, got, answer, astray>>
NssHigh ==
    /\ main.job # NoJob /\ ~main.low /\ Done
    /\ nss' = 1
    /\ chip' = IF nss = 0 THEN [chip EXCEPT ![mux] = Deselected(@)] ELSE chip
    /\ got' = LET byte == ByteRead(main.bits)
              IN  [job |-> main.job,
                   value |-> IF unheard \/ byte = Float THEN Float
                             ELSE IF main.job = Status THEN byte % 2 ELSE byte]
    /\ main' = Resting
    /\ UNCHANGED <<mux, sck, mosi, unheard, answer, astray>>

Main ==
    \/ \E job \in Jobs : NssLow(job)
    \/ SckLow \/ SckHigh \/ NssHigh

EraseDone ==
    /\ \E c \in Chips : chip[c].wip /\ chip' = [chip EXCEPT ![c] = Idle(@)]
    /\ UNCHANGED <<mux, nss, sck, mosi, unheard, main, got, answer, astray>>

BusNext ==
    \/ Main
    \/ EarseCmd \/ RouteCmd
    \/ \E a \in Starts : \/ \E data \in Payloads : WriteDataCmd(a, data)
                         \/ \E n \in ReadLens : ReadCmd(a, n)
    \/ EraseDone

BusSpec == BusInit /\ [][BusNext]_spiVars

-----------------------------------------------------------------------------
(* What the chips hold, as SpiFlash names it: bytes that were mixed are junk. *)
Known(byte) == IF byte \in Data \cup {Blank} THEN byte ELSE Float
Flash == [c \in Chips |-> [cell |-> [a \in Address |-> Known(chip[c].cell[a])],
                          wip |-> chip[c].wip]]
Access == INSTANCE FlashAccess WITH
    Junk <- Float, Unknown <- Float,
    flash <- Flash, job <- IF main.job > 0 THEN main.job % FlashSize ELSE main.job,
    nss <- IF nss = 1 THEN "high" ELSE IF unheard THEN "unheard" ELSE "low",
    got <- IF got.job < 0 THEN got
           ELSE [job |-> got.job % FlashSize, value |-> Known(got.value)],
    answer <- [k \in DOMAIN answer |-> Known(answer[k])]

(* However the pins of the main loop and of an interrupt interleave, the      *)
(* chips do what the driver's functions say, less at most the first           *)
(* transaction of the interrupt, and the main loop reads what is there or     *)
(* knows nothing (drvflash.c, stm32f107.c 349-387): no mixture of their bits  *)
(* makes an opcode that changes a chip.  That is so until commands move the   *)
(* routing twice while one transaction of the main loop is open.              *)
BusShared == Access!Init /\ [][astray' \/ Access!Next]_(Access!vars)

(* No chip keeps its write-enable latch set between two commands, until the   *)
(* routing has moved twice in a transaction of the main loop: every           *)
(* Flash_WriteEnable is followed by the command that uses it up, or was not   *)
(* heard.  It is what makes such mixtures harmless (drvflash.c 18-23).        *)
LatchUsed == ~astray => \A c \in Chips : ~chip[c].wel

(* The same however often the routing moves (drvflash.c 18-23).               *)
LatchAlwaysUsed == \A c \in Chips : ~chip[c].wel
=============================================================================
