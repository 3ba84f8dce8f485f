----------------------------- MODULE FlashStore ------------------------------
(* What the programmer promises a host that works alone and waits for each    *)
(* answer: chips that can be erased, written from their start in consecutive  *)
(* pieces and read back piece by piece, without the flags, buffers, polling   *)
(* and bus traffic that XvcServer makes it of.                                *)
EXTENDS SpiFlash

CONSTANTS Chips, Payloads, DatMax, Word

VARIABLES disk,     \* contents of the chips
          count,    \* length of the last image written to its end
          op, chip, at,     \* the flow under way, its chip, its next byte
          ask,      \* the request being served
          reply     \* its answer, once there is one

vars == <<disk, count, op, chip, at, ask, reply>>

Init ==
    /\ disk = [c \in Chips |-> Erased]
    /\ count = Word - 1
    /\ op = "idle"
    /\ chip \in Chips
    /\ at = 0
    /\ ask = "none"
    /\ reply = <<>>

(* A flow stays on the chip its first request named.                          *)
Begins(c) == op = "idle" \/ c = chip

Erase(c) ==
    /\ ask = "none" /\ op = "idle"
    /\ ask' = "EARSE"
    /\ chip' = c
    /\ UNCHANGED <<disk, count, op, at, reply>>

(* The chip is erased at some moment after the request ...                    *)
Wipe ==
    /\ ask = "EARSE" /\ reply = <<>>
    /\ disk' = [disk EXCEPT ![chip] = Erased]
    /\ UNCHANGED <<count, op, chip, at, ask, reply>>

(* ... and only then, when it is blank throughout, the host is told so.       *)
EraseReply ==
    /\ ask = "EARSE" /\ reply = <<>>
    /\ disk[chip] = Erased
    /\ reply' = <<[cmd |-> "EARSE", opRet |-> 1]>>
    /\ UNCHANGED <<disk, count, op, chip, at, ask>>

Write(c, data) ==
    /\ ask = "none" /\ op \in {"idle", "write"} /\ Begins(c)
    /\ ask' = "WRITE"
    /\ op' = "write"
    /\ chip' = c
    /\ disk' = [disk EXCEPT ![c] = Programmed(@, at, data, 0)]
    /\ at' = at + Len(data)
    /\ reply' = <<[cmd |-> "WRITE", opRet |-> 1]>>
    /\ UNCHANGED count

End ==
    /\ ask = "none" /\ op = "write"
    /\ ask' = "END"
    /\ op' = "idle"
    /\ count' = at
    /\ at' = 0
    /\ reply' = <<[cmd |-> "WRITE", opRet |-> 1]>>
    /\ UNCHANGED <<disk, chip>>

(* The next bytes of the image, as many as an answer takes; none: the end.    *)
Read(c) ==
    LET n == IF count - at > DatMax THEN DatMax ELSE count - at
    IN  /\ ask = "none" /\ op \in {"idle", "read"} /\ Begins(c)
        /\ ask' = "READ"
        /\ op' = IF n = 0 THEN "idle" ELSE "read"
        /\ chip' = c
        /\ at' = IF n = 0 THEN 0 ELSE at + n
        /\ reply' = <<[cmd |-> "READ", dat |->
                        [k \in 1 .. n |-> disk[c][(at + k - 1) % FlashSize]]]>>
        /\ UNCHANGED <<disk, count>>

Take ==
    /\ reply # <<>>
    /\ ask' = "none"
    /\ reply' = <<>>
    /\ UNCHANGED <<disk, count, op, chip, at>>

Next ==
    \/ \E c \in Chips : Erase(c) \/ Read(c)
    \/ \E c \in Chips, data \in Payloads : Write(c, data)
    \/ Wipe \/ EraseReply \/ End \/ Take

Fairness == WF_vars(Wipe) /\ WF_vars(EraseReply) /\ WF_vars(Take)

Spec == Init /\ [][Next]_vars /\ Fairness
=============================================================================
