----------------------------- MODULE FlashPages ------------------------------
(* Flash_WriteNoCheck (drvflash.c) step by step: one Flash_WritePage per      *)
(* iteration, against a chip that programs within one page and wraps at the   *)
(* page's end, ignores a program command while it is busy erasing or when its *)
(* write enable was lost, and is idle again after the wait.  XvcServer uses   *)
(* the loop's net effect, SpiFlash!Flash_WriteNoCheck; here that effect is    *)
(* what the loop has to reach.                                                *)
EXTENDS SpiFlash

CONSTANT Payloads       \* what is written

ASSUME FlashPagesAssumption ==
    /\ FlashSize % Page = 0
    /\ Payloads \subseteq Seq(Data \cup {Blank})
    /\ \A d \in Payloads : Len(d) <= FlashSize     \* a uint16 against 2^24

VARIABLES
    chip,               \* the chip
    deaf,               \* the next write enable will not reach it
    pc,                 \* "call", "loop", "done"
    pBuffer,            \* how far into the data the pointer has moved
    WriteAddr, NumByteToWrite, pageremain,
    data, start, before, lost   \* the call's arguments and the chip before it

vars == <<chip, deaf, pc, pBuffer, WriteAddr, NumByteToWrite, pageremain,
          data, start, before, lost>>

args == <<data, start, before, lost>>

TypeOK ==
    /\ chip \in Chip /\ before \in Chip
    /\ deaf \in BOOLEAN /\ lost \in BOOLEAN
    /\ pc \in {"call", "loop", "done"}
    /\ data \in Payloads
    /\ start \in Nat /\ WriteAddr \in Nat
    /\ pBuffer \in Nat /\ NumByteToWrite \in Nat
    /\ pageremain \in 0 .. Len(data)

(* A chip as other writes may have left it: written at most up to some cell,  *)
(* and busy only when an erase of it was just begun.                          *)
Init ==
    /\ data \in Payloads
    /\ start \in 0 .. FlashSize - 1
    /\ \E d \in Data, n \in Address, wip \in BOOLEAN :
          chip = [cell |-> [a \in Address |-> IF a < n THEN d ELSE Blank],
                  wip |-> wip]
    /\ before = chip
    /\ lost \in BOOLEAN
    /\ deaf = lost
    /\ pc = "call"
    /\ pBuffer = 0
    /\ WriteAddr = start
    /\ NumByteToWrite = Len(data)
    /\ pageremain = 0

Enter ==
    /\ pc = "call"
    /\ pageremain' = PageRemain(WriteAddr, NumByteToWrite)
    /\ pc' = "loop"
    /\ UNCHANGED <<chip, deaf, pBuffer, WriteAddr, NumByteToWrite, args>>

(* The chip's page program of n bytes from the buffer: the address counter    *)
(* wraps within the page.                                                     *)
PageProgram(cell, a, n) ==
    [i \in Address |->
        LET base == (a % FlashSize) - (a % Page)
            k == (i + Page - (a % Page)) % Page
        IN  IF i \div Page = base \div Page /\ k < n
            THEN Burn(cell[i], data[pBuffer + k + 1]) ELSE cell[i]]

(* Flash_WritePage: write enable, page program, wait.                         *)
Flash_WritePage_NoWait ==
    /\ chip' = [chip EXCEPT !.cell =
                   IF chip.wip \/ deaf THEN @
                   ELSE PageProgram(@, WriteAddr, pageremain)]
    /\ deaf' = FALSE
Flash_WritePage ==
    /\ chip' = [cell |-> IF chip.wip \/ deaf THEN Idle(chip).cell
                         ELSE PageProgram(chip.cell, WriteAddr, pageremain),
                wip |-> FALSE]
    /\ deaf' = FALSE

(* The test that ends the loop.                                               *)
LastPiece == NumByteToWrite = pageremain

(* On to the next page: a full one, or what is left.                          *)
NextPiece == IF NumByteToWrite' > Page THEN Page ELSE NumByteToWrite'

Advance ==
    /\ pBuffer' = pBuffer + pageremain
    /\ WriteAddr' = WriteAddr + pageremain
    /\ NumByteToWrite' = NumByteToWrite - pageremain
    /\ pageremain' = NextPiece

(* One turn of while(1).                                                      *)
Loop ==
    /\ pc = "loop"
    /\ Flash_WritePage
    /\ \/ /\ LastPiece
          /\ pc' = "done"
          /\ UNCHANGED <<pBuffer, WriteAddr, NumByteToWrite, pageremain>>
       \/ /\ ~LastPiece
          /\ Advance
          /\ UNCHANGED pc
    /\ UNCHANGED args

Done == pc = "done" /\ UNCHANGED vars

Next == Enter \/ Loop \/ Done

Spec == Init /\ [][Next]_vars

-----------------------------------------------------------------------------
(* A page program never runs over the end of its page, where the chip would   *)
(* wrap and overwrite the page's start (drvflash.c 93-111).                   *)
WithinPage ==
    pc = "loop" => (WriteAddr % Page) + pageremain <= Page

(* The pointer, the address and the count move together: what is left to      *)
(* write is what the pointer has not passed, and no piece is longer than it   *)
(* (the uint16 count cannot wrap).                                            *)
InStep ==
    /\ pBuffer + NumByteToWrite = Len(data)
    /\ WriteAddr = start + pBuffer
    /\ pageremain <= NumByteToWrite
    /\ pc = "loop" /\ NumByteToWrite > 0 => pageremain > 0

(* When the loop returns, the chip is as the server's model has it: the data  *)
(* at consecutive addresses, less the first page when the chip was erasing or *)
(* missed the write enable.                                                   *)
WritesAll ==
    pc = "done" => chip = Flash_WriteNoCheck(before, start, data, lost)
=============================================================================
