------------------------------ MODULE SpiFlash ------------------------------
(* The SPI NOR flash chips behind the FPGA and their driver (drvflash.c).     *)
(* A chip is a record: `cell', its contents, and `wip', the busy bit of its   *)
(* status register while a chip erase runs.  The driver's functions are       *)
(* operators from a chip to a chip: each ends with the bus idle, and what     *)
(* waits for the chip (Flash_WaitBusy) leaves it idle too.                    *)
(*                                                                            *)
(* `lost' says that the chip did not see the first transaction the function   *)
(* opens, because another one was already under way with NSS low: the chip    *)
(* takes the new opcode for more bytes of the old transaction.                *)
EXTENDS Naturals, Sequences

CONSTANTS FlashSize,    \* cells of a chip (2^24 addressable bytes)
          Page,         \* cells of a program page (256 bytes)
          Data,         \* values a programmed cell may hold
          Blank,        \* an erased cell, and a data byte 0xff
          Junk          \* what was not written or read as such by anyone

ASSUME SpiFlashAssumption ==
    /\ FlashSize \in Nat \ {0}
    /\ Page \in Nat \ {0}
    /\ Blank # Junk
    /\ Blank \notin Data
    /\ Junk \notin Data

Address == 0 .. FlashSize - 1
Cell == Data \cup {Blank, Junk}
Chip == [cell : [Address -> Cell], wip : BOOLEAN]
Erased == [a \in Address |-> Blank]

(* Programming only clears bits: 0xff changes nothing, other data take on a   *)
(* blank cell and mix with what a written cell holds.                         *)
Burn(old, new) ==
    IF new \in {old, Blank} THEN old
    ELSE IF old = Blank THEN new ELSE Junk

(* The chip once it is no longer busy: what Flash_WaitBusy waits for.         *)
Idle(chip) == IF chip.wip THEN [cell |-> Erased, wip |-> FALSE] ELSE chip

(* Bytes the first Flash_WritePage of a write of n bytes at address a takes.  *)
PageRemain_NoOffset(a, n) == IF n <= Page THEN n ELSE Page
PageRemain(a, n) ==
    IF n <= Page - (a % Page) THEN n ELSE Page - (a % Page)

(* The cells after data[skip+1 ..] have been programmed at a + skip onwards.  *)
Programmed(cell, a, data, skip) ==
    [i \in Address |->
        LET k == (i + FlashSize - (a % FlashSize)) % FlashSize
        IN  IF skip <= k /\ k < Len(data) THEN Burn(cell[i], data[k + 1])
                                          ELSE cell[i]]

(* Flash_WriteEnable comes BEFORE the wait: a busy chip ignores it, and the   *)
(* erase opcode that follows the wait then finds no write-enable latch.       *)
Flash_EraseChip(chip, lost) ==
    IF chip.wip \/ lost THEN Idle(chip) ELSE [chip EXCEPT !.wip = TRUE]

(* One Flash_WritePage per page.  A busy chip ignores the first one and its   *)
(* wait ends with the chip idle: the later pages are programmed.              *)
Flash_WriteNoCheck(chip, a, data, lost) ==
    LET skip == IF chip.wip \/ lost THEN PageRemain(a, Len(data)) ELSE 0
    IN  [cell |-> Programmed(Idle(chip).cell, a, data, skip), wip |-> FALSE]

(* Addresses are cut to 24 bits and the chip wraps at its end; a busy chip    *)
(* does not answer.                                                           *)
Flash_ReadSomeByte(chip, a, n, lost) ==
    [k \in 1 .. n |->
        IF chip.wip \/ lost THEN Junk ELSE chip.cell[(a + k - 1) % FlashSize]]
=============================================================================
