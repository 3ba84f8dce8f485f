----------------------------- MODULE FlashAccess -----------------------------
(* How XvcServer sees the SPI bus: the commands, in the interrupt, use whole  *)
(* driver functions of SpiFlash; the main loop's transactions are open for a  *)
(* while.  A command that comes while one is open and uses the bus may find   *)
(* its first transaction lost, and then the main loop reads anything.         *)
EXTENDS SpiFlash, Integers

CONSTANTS Chips, Payloads, Starts, ReadLens, Unknown

VARIABLES
    mux,        \* the chip the FPGA routes the bus to
    flash,      \* the chips
    nss,        \* as in XvcServer: "high", "low" or "unheard"
    job,        \* the cell the main loop reads, -1 for the status register,
                \* -2 for nothing
    got,        \* what the last transaction of the main loop gave
    answer      \* what the last READ gave

vars == <<mux, flash, nss, job, got, answer>>

None == -2
Status == -1
Nothing == [job |-> None, value |-> Unknown]

Init ==
    /\ mux \in Chips
    /\ flash = [c \in Chips |-> [cell |-> Erased, wip |-> FALSE]]
    /\ nss = "high"
    /\ job = None
    /\ got = Nothing
    /\ answer = <<>>

Open ==
    /\ job = None
    /\ job' \in Address \cup {Status}
    /\ nss' = IF job' = Status \/ ~flash[mux].wip THEN "low" ELSE "unheard"
    /\ got' = Nothing /\ answer' = <<>>
    /\ UNCHANGED <<mux, flash>>

(* The chip may have become idle after it was asked.                          *)
Wip == IF flash[mux].wip THEN 1 ELSE 0
Reading ==
    IF nss # "low" THEN {Unknown}
    ELSE IF job = Status THEN {Wip, 1} ELSE {flash[mux].cell[job]}
End ==
    /\ job # None
    /\ \E value \in Reading : got' = [job |-> job, value |-> value]
    /\ nss' = "high"
    /\ job' = None
    /\ UNCHANGED <<mux, flash, answer>>

Lost == IF nss = "high" THEN {FALSE} ELSE BOOLEAN

Erase ==
    /\ mux' \in Chips
    /\ \E lost \in Lost : flash' = [flash EXCEPT ![mux'] = Flash_EraseChip(@, lost)]
    /\ nss' = "high"
    /\ UNCHANGED <<job, got, answer>>
Write(a, data) ==
    /\ mux' \in Chips
    /\ \E lost \in Lost :
          flash' = [flash EXCEPT ![mux'] = Flash_WriteNoCheck(@, a, data, lost)]
    /\ nss' = "high"
    /\ UNCHANGED <<job, got, answer>>
Read(a, n) ==
    /\ mux' \in Chips
    /\ \E lost \in Lost :
          answer' = Flash_ReadSomeByte(flash[mux'], a, n, lost)
    /\ nss' = "high"
    /\ UNCHANGED <<flash, job, got>>
Route ==
    /\ mux' \in Chips
    /\ nss' = IF nss # "high" /\ mux' # mux THEN "unheard" ELSE nss
    /\ UNCHANGED <<flash, job, got, answer>>
EraseDone ==
    /\ \E c \in Chips :
          flash[c].wip /\ flash' = [flash EXCEPT ![c] = Idle(@)]
    /\ UNCHANGED <<mux, nss, job, got, answer>>

Next ==
    \/ Open \/ End \/ Erase \/ Route \/ EraseDone
    \/ \E a \in Starts : \/ \E data \in Payloads : Write(a, data)
                         \/ \E n \in ReadLens : Read(a, n)

Spec == Init /\ [][Next]_vars
=============================================================================
