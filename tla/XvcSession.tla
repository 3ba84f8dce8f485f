----------------------------- MODULE XvcSession ------------------------------
(* The server of XvcServer with the hosts it was written for: one connection  *)
(* at a time, which awaits each answer before its next command, runs a flow   *)
(* (erase, write to the end, read to the empty packet) through before it      *)
(* starts another or leaves, and numbers its READs from 1 (ackCnt of          *)
(* ICD_READ_CMD_T).  The host is not under src/; this is how the server's     *)
(* protocol has to be used.                                                   *)
EXTENDS XvcServer

CONSTANTS MaxImage,     \* bound: bytes of an image
          MaxReads,     \* bound: where the host's count of READs stays
          PadExact      \* hosts pad images whose length is a multiple of DatMax

ASSUME XvcSessionAssumption ==
    /\ MaxImage \in Nat
    /\ MaxImage < Word
    /\ MaxReads \in Nat \ {0}
    /\ PadExact \in BOOLEAN

VARIABLES phase,    \* the flow the host is in
          target,   \* the chip it works on
          ask,      \* its command that is not answered yet
          reads     \* READs of the present flow

hostVars == <<phase, target, ask, reads>>
sessionVars == <<vars, hostVars>>

HostTypeOK ==
    /\ phase \in {"idle", "write", "read"}
    /\ target \in Chips
    /\ ask \in {"none", "EARSE", "WRITE", "END", "READ"}
    /\ reads \in 0 .. MaxReads
SessionTypeOK == TypeOK /\ HostTypeOK

SessionInit ==
    /\ Init
    /\ phase = "idle"
    /\ target = mux
    /\ ask = "none"
    /\ reads = 0

Chosen(cs) == phase = "idle" \/ cs = target

AskEarse(p, cs) ==
    /\ ask = "none" /\ phase = "idle"
    /\ EarseCmd(p, cs)
    /\ ask' = "EARSE"
    /\ target' = cs
    /\ UNCHANGED <<phase, reads, cmdCnt>>

AskWrite(p, cs, data) ==
    /\ ask = "none" /\ phase \in {"idle", "write"} /\ Chosen(cs)
    /\ flashWriteAddr + Len(data) <= MaxImage
    /\ WriteDataCmd(p, cs, data)
    /\ ask' = "WRITE"
    /\ phase' = "write"
    /\ target' = cs
    /\ UNCHANGED <<reads, cmdCnt>>

AskEnd(p) ==
    /\ ask = "none" /\ phase = "write"
    /\ PadExact => flashWriteAddr % DatMax # 0
    /\ WriteEndCmd(p, target)
    /\ ask' = "END"
    /\ phase' = "idle"
    /\ UNCHANGED <<target, reads, cmdCnt>>

AskRead(p, cs) ==
    /\ ask = "none" /\ phase \in {"idle", "read"} /\ Chosen(cs)
    /\ ReadCmd(p, cs, reads + 1)
    /\ ask' = "READ"
    /\ phase' = IF readRsp' = <<>> THEN "idle" ELSE "read"
    /\ target' = cs
    /\ reads' = IF readRsp' = <<>> THEN 0
                ELSE IF reads < MaxReads THEN reads + 1 ELSE reads
    /\ UNCHANGED cmdCnt

HostTakes(c) ==
    /\ TakeAnswer(c)
    /\ ask' = "none"
    /\ UNCHANGED <<phase, target, reads, cmdCnt>>

HostComes(c, p) ==
    /\ \A q \in Pcbs : owner[q] = NoClient
    /\ Connect(c, p)
    /\ UNCHANGED <<hostVars, cmdCnt>>

HostLeaves(p) ==
    /\ ask = "none" /\ phase = "idle"
    /\ Disconnect(p)
    /\ UNCHANGED <<hostVars, cmdCnt>>

ServerStep ==
    /\ Main \/ \E c \in Chips : EraseDone(c)
    /\ UNCHANGED <<hostVars, cmdCnt>>

SessionNext ==
    \/ \E p \in Pcbs, cs \in Chips :
          \/ AskEarse(p, cs)
          \/ \E data \in Payloads : AskWrite(p, cs, data)
          \/ AskRead(p, cs)
    \/ \E p \in Pcbs : AskEnd(p) \/ HostLeaves(p)
    \/ \E c \in Clients : HostTakes(c)
    \/ \E c \in Clients, p \in Pcbs : HostComes(c, p)
    \/ ServerStep

(* The server's own fairness; a host takes the answers that reach it and, in  *)
(* the middle of a read, asks for the rest.                                   *)
SessionFairness ==
    /\ WF_sessionVars(Main /\ UNCHANGED <<hostVars, cmdCnt>>)
    /\ \A c \in Chips :
          WF_sessionVars(EraseDone(c) /\ UNCHANGED <<hostVars, cmdCnt>>)
    /\ \A c \in Clients : WF_sessionVars(HostTakes(c))
    /\ WF_sessionVars(\E p \in Pcbs, cs \in Chips :
                         phase = "read" /\ AskRead(p, cs))

SessionSpec == SessionInit /\ [][SessionNext]_sessionVars /\ SessionFairness

-----------------------------------------------------------------------------
(* The hosts see the promise of FlashStore kept.  Where a flow stands is      *)
(* taken from the server's own registers: the write address, or what is left  *)
(* of the count the read began with.                                          *)
Reply == LET full == {c \in Clients : inbox[c] # <<>>}
         IN  IF full = {} THEN <<>> ELSE inbox[CHOOSE c \in full : TRUE]

Store == INSTANCE FlashStore WITH
            disk  <- [c \in Chips |-> flash[c].cell],
            count <- cntInfo,
            op    <- phase,
            chip  <- target,
            at    <- IF phase = "write" THEN flashWriteAddr
                     ELSE IF phase = "read" THEN cntInfo - readTotal ELSE 0,
            reply <- Reply

(* Every behaviour of the server under such a host, who never lets a command  *)
(* meet an erase under way, is one of the abstract store: an erase is         *)
(* confirmed only when all of the chip is blank, pieces land one after the    *)
(* other, READs return the image in order and end with an empty packet        *)
(* (tcpserver.c 373-456, main.c 103-115).                                     *)
StoreImplemented == Store!Spec

(* The answer on the line is the one to the command that is waiting, although *)
(* erases are answered from the main loop through a buffer WRITE also uses,   *)
(* to whatever pcb earsePcb then is (tcpserver.c 379, 407-413, main.c 114).   *)
(* Such a host neither sends a WRITE while it awaits an erase nor leaves:     *)
(* RspKept and ErasePcbKept of XvcServer are what that discipline averts.     *)
AnswerMatches ==
    \A c \in Clients : inbox[c] # <<>> =>
        /\ Len(inbox[c]) = 1
        /\ \E p \in Pcbs : owner[p] = c
        /\ ask = (IF Head(inbox[c]).cmd = "WRITE" /\ phase = "idle"
                  THEN "END" ELSE Head(inbox[c]).cmd)

(* Between flows nothing of the last one is left to disturb the next, which   *)
(* may come from another host: READ and WRITE share setAddrFlag and each      *)
(* clears it on its own (tcpserver.c 385-391, 399-405, 416-449).  This holds  *)
(* of hosts that finish their flows: one cut short leaves setAddrFlag set.    *)
IdleIsClean ==
    phase = "idle" /\ ask # "EARSE" =>
        /\ setAddrFlag = 0 /\ flashWriteAddr = 0 /\ flashReadAddr = 0
        /\ readTotal = 0
        /\ earseFlag = 0 /\ mainPc = "poll"
        /\ \A c \in Chips : ~flash[c].wip

(* While a flow of the one such host runs every command works on the chip its *)
(* first one named (tcpserver.c 385-387, 418-420).  Of two clients' flows     *)
(* this is not true: see WorksOnNamed of XvcServer.                           *)
FlowKeepsChip == phase # "idle" => mux = target /\ setAddrFlag = 1

(* A read that goes on to be asked for comes to its empty packet: readTotal   *)
(* runs out whatever the image's length (tcpserver.c 431-449).                *)
ReadEnds == phase = "read" ~> phase = "idle"

(* The empty packet closes a read only when nothing of the image is left:     *)
(* ICD_DAT_MAX_SIZE is the largest legal payload, so 896 bytes that are left  *)
(* are a packet too (tcpserver.h 34, tcpserver.c 431-449).                    *)
EmptyMeansAll ==
    ask = "READ" /\ Reply # <<>> /\ Head(Reply).dat = <<>> => readTotal = 0
=============================================================================
