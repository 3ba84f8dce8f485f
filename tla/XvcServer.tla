------------------------------ MODULE XvcServer ------------------------------
(* The command interpreter of the programmer (XVC_Interface, tcpserver.c) and *)
(* the completion of an erase in the main loop (main.c).                      *)
(*                                                                            *)
(* Two contexts share every global without a lock.  The Ethernet interrupt    *)
(* runs lwIP and, inside it, XVC_Interface from start to end: a command is    *)
(* one atomic action.  The main loop is preempted by it anywhere: its         *)
(* completion of an erase is cut at each access to a global or to the SPI     *)
(* bus, and `mainPc' is where it stands.                                      *)
(*                                                                            *)
(* One set of transfer globals serves all the clients and both directions.    *)
EXTENDS SpiFlash, Integers

CONSTANTS Clients,      \* hosts that may open a connection
          NoClient,     \* a pcb slot no connection owns
          Pcbs,         \* the slots of the MEMP_TCP_PCB pool
          NoPcb,        \* the NULL that earsePcb starts with
          Chips,        \* flash chips a fpgaCs of 1, 2 or 3 selects
          NoChip,       \* any other fpgaCs
          Payloads,     \* what the data field of a WRITE may carry, never empty
          DatMax,       \* ICD_DAT_MAX_SIZE, most data bytes of an answer
          Word,         \* one more than the largest uint32
          SndQueue,     \* answers a connection takes before tcp_write fails
          MaxCmds       \* bound: commands the open environment sends

ASSUME XvcServerAssumption ==
    /\ NoClient \notin Clients
    /\ NoPcb \notin Pcbs
    /\ NoChip \notin Chips
    /\ Payloads \subseteq Seq(Data \cup {Blank}) \ {<<>>}
    /\ DatMax \in Nat \ {0}
    /\ Word \in Nat \ {0}
    /\ SndQueue \in Nat
    /\ MaxCmds \in Nat

VARIABLES
    mux,            \* the chip the FPGA routes the SPI bus to
    flash,          \* the chips
    nss,            \* the chips' NSS: "high", "low" while the main loop uses the
                    \* bus, or "unheard": low, but no chip answers it
    earseFlag, earsePcb, commonRsp,
    setAddrFlag, flashWriteAddr, readTotal, flashReadAddr, ackCnt, readRsp,
    cntInfo,        \* the word at READ_CNT_FLASH_ADDR
    mainPc, blank0, \* the main loop's place, and its dat[0..3] all 0xff
    owner,          \* the connection a pcb slot holds
    inbox,          \* answers queued on a client's connection
    eraseDue,       \* history: ERASE commands less ERASE answers
    cmdCnt          \* commands so far, only to bound the open environment

spiVars  == <<mux, flash, nss>>
eraseVars == <<earseFlag, earsePcb, eraseDue>>
flowVars == <<setAddrFlag, flashWriteAddr, readTotal, flashReadAddr, ackCnt,
              readRsp, cntInfo>>
mainVars == <<mainPc, blank0>>
vars == <<spiVars, eraseVars, commonRsp, flowVars, mainVars, owner, inbox,
          cmdCnt>>

NatWord == 0 .. Word - 1
CntErased == Word - 1           \* 0xffffffff, the word of an erased page

CommonRsp == [cmd : {"none", "EARSE", "WRITE"}, opRet : {0, 1}]
ReadRsp == [cmd : {"READ"}, dat : Seq(Cell)]
Answer == CommonRsp \cup ReadRsp

NssLevels == {"high", "low", "unheard"}
MainSteps == {"poll", "sr", "claim", "check", "read0", "gap", "read1", "send"}

TypeOK ==
    /\ mux \in Chips
    /\ flash \in [Chips -> Chip]
    /\ nss \in NssLevels
    /\ earseFlag \in {0, 1}
    /\ earsePcb \in Pcbs \cup {NoPcb}
    /\ commonRsp \in CommonRsp
    /\ setAddrFlag \in {0, 1}
    /\ flashWriteAddr \in NatWord
    /\ readTotal \in NatWord
    /\ flashReadAddr \in NatWord
    /\ ackCnt \in Nat
    /\ readRsp \in Seq(Cell)
    /\ cntInfo \in NatWord
    /\ mainPc \in MainSteps
    /\ blank0 \in BOOLEAN
    /\ owner \in [Pcbs -> Clients \cup {NoClient}]
    /\ inbox \in [Clients -> Seq(Answer)]
    /\ eraseDue \in Int
    /\ cmdCnt \in 0 .. MaxCmds

(* Which chip the FPGA's register selects at power-on, and what the chips     *)
(* hold, is not this program's doing: any chip, all blank to begin with.      *)
Init ==
    /\ mux \in Chips
    /\ flash = [c \in Chips |-> [cell |-> Erased, wip |-> FALSE]]
    /\ nss = "high"
    /\ earseFlag = 0
    /\ earsePcb = NoPcb
    /\ commonRsp = [cmd |-> "none", opRet |-> 0]
    /\ setAddrFlag = 0
    /\ flashWriteAddr = 0
    /\ readTotal = 0
    /\ flashReadAddr = 0
    /\ ackCnt = 0
    /\ readRsp = <<>>
    /\ cntInfo = CntErased
    /\ mainPc = "poll"
    /\ blank0 = FALSE
    /\ owner = [p \in Pcbs |-> NoClient]
    /\ inbox = [c \in Clients |-> <<>>]
    /\ eraseDue = 0
    /\ cmdCnt = 0

-----------------------------------------------------------------------------
(* tcp_write: the slot's present owner gets the answer, unless nobody owns    *)
(* the slot or its send queue is full; XVC_Interface ignores the error.       *)
TcpWrite(p, answer) ==
    inbox' = [c \in Clients |->
                IF owner[p] = c /\ Len(inbox[c]) < SndQueue
                THEN Append(inbox[c], answer) ELSE inbox[c]]

(* flashChoice: other values of fpgaCs leave the data lines as they are.      *)
FlashChoice(fpgaCs) == IF fpgaCs \in Chips THEN fpgaCs ELSE mux

(* READ and WRITE choose the chip only when no flow is open.                  *)
FlowChip_Inverted(fpgaCs) == IF setAddrFlag = 1 THEN FlashChoice(fpgaCs) ELSE mux
FlowChip(fpgaCs) == IF setAddrFlag = 0 THEN FlashChoice(fpgaCs) ELSE mux

(* A chip the bus is routed to in the middle of a transaction of the main     *)
(* loop hears the rest of its bits only, and makes nothing of them.           *)
Rerouted(to) == IF nss # "high" /\ to # mux THEN "unheard" ELSE nss

(* Whether the first SPI transaction of an interrupt is swallowed by the one  *)
(* of the main loop it interrupts: possible once a bit of that one is out.    *)
Lost == IF nss = "high" THEN {FALSE} ELSE BOOLEAN

(* What EARSE leaves for the main loop.                                       *)
NoteErase_NoPcb(p) ==
    earseFlag' = 1 /\ eraseDue' = eraseDue + 1 /\ UNCHANGED earsePcb
NoteErase(p) ==
    /\ earseFlag' = 1
    /\ earsePcb' = p
    /\ eraseDue' = eraseDue + 1

(* case ICD_CMD_EARSE: no answer here, the main loop sends it.                *)
EarseCmd(p, fpgaCs) ==
    /\ owner[p] # NoClient
    /\ mux' = FlashChoice(fpgaCs)
    /\ \E lost \in Lost :
          flash' = [flash EXCEPT ![mux'] = Flash_EraseChip(@, lost)]
    /\ nss' = "high"
    /\ NoteErase(p)
    /\ UNCHANGED <<commonRsp, flowVars, mainVars, owner, inbox>>

(* case ICD_CMD_WRITE with data.  The chip is chosen by the first command of  *)
(* a flow, whoever sent it; the address carries on from the last one.         *)
WriteDataCmd(p, fpgaCs, data) ==
    /\ owner[p] # NoClient
    /\ mux' = FlowChip(fpgaCs)
    /\ setAddrFlag' = 1
    /\ \E lost \in Lost :
          flash' = [flash EXCEPT ![mux'] =
                      Flash_WriteNoCheck(@, flashWriteAddr, data, lost)]
    /\ nss' = "high"
    /\ flashWriteAddr' = (flashWriteAddr + Len(data)) % Word
    /\ commonRsp' = [cmd |-> "WRITE", opRet |-> 1]
    /\ TcpWrite(p, commonRsp')
    /\ UNCHANGED <<eraseVars, readTotal, flashReadAddr, ackCnt, readRsp,
                   cntInfo, mainVars, owner>>

(* The end of a write flow: its length is stored, the next starts afresh.     *)
EndFlow_KeepsFlag ==
    cntInfo' = flashWriteAddr /\ flashWriteAddr' = 0 /\ UNCHANGED setAddrFlag
EndFlow ==
    /\ cntInfo' = flashWriteAddr
    /\ flashWriteAddr' = 0
    /\ setAddrFlag' = 0

(* case ICD_CMD_WRITE without data: the end of a write flow.  A failure of    *)
(* writeCntInfo is not looked at: see NetParams for what may then be stored.  *)
WriteEndCmd(p, fpgaCs) ==
    /\ owner[p] # NoClient
    /\ mux' = FlowChip(fpgaCs)
    /\ nss' = Rerouted(mux')
    /\ EndFlow
    /\ commonRsp' = [cmd |-> "WRITE", opRet |-> 1]
    /\ TcpWrite(p, commonRsp')
    /\ UNCHANGED <<flash, eraseVars, readTotal, flashReadAddr, ackCnt, readRsp,
                   mainVars, owner>>

(* Number of requests the server takes a read of n bytes to need.             *)
AckTotal_NoEmpty(n) == n \div DatMax + (IF n % DatMax # 0 THEN 1 ELSE 0)
AckTotal(n) == n \div DatMax + (IF n % DatMax # 0 THEN 2 ELSE 1)

(* A READ with `total' bytes left gets a full packet while that is more than  *)
(* one; then, unless exactly one is left, the rest.                           *)
Full(total) == total > DatMax

Rest_Strict(total, acks, ack) == acks > ack /\ total < DatMax
Rest(total, acks, ack) == acks >= ack /\ total < DatMax

PacketLen_OffByOne(total) == IF total > DatMax + 1 THEN DatMax ELSE total
PacketLen(total) == IF Full(total) THEN DatMax ELSE total

(* case ICD_CMD_READ: without a full packet or a rest, whatever sendbuf holds *)
(* is sent, again.                                                            *)
ReadCmd(p, fpgaCs, ack) ==
    LET first == setAddrFlag = 0
        total == IF first THEN cntInfo ELSE readTotal
        acks == IF first THEN AckTotal(cntInfo) ELSE ackCnt
        sends == Full(total) \/ Rest(total, acks, ack)
        last == Rest(total, acks, ack) /\ total = 0
        n == PacketLen(total)
    IN  /\ owner[p] # NoClient
        /\ mux' = FlowChip(fpgaCs)
        /\ nss' = IF sends THEN "high" ELSE Rerouted(mux')
        /\ \E lost \in Lost :
              readRsp' = IF sends THEN Flash_ReadSomeByte(flash[mux'],
                                           flashReadAddr, n, lost)
                         ELSE readRsp
        /\ readTotal' = IF sends THEN total - n ELSE total
        /\ flashReadAddr' = IF Full(total) THEN (flashReadAddr + n) % Word
                            ELSE IF last THEN 0 ELSE flashReadAddr
        /\ setAddrFlag' = IF last THEN 0 ELSE 1
        /\ ackCnt' = IF last THEN 0 ELSE acks
        /\ TcpWrite(p, [cmd |-> "READ", dat |-> readRsp'])
        /\ UNCHANGED <<flash, eraseVars, commonRsp, flashWriteAddr, cntInfo,
                       mainVars, owner>>

-----------------------------------------------------------------------------
(* The main loop.  It pulls NSS low and lets go of it; an interrupt that used *)
(* the bus in between has let go of it already.  It reads anything then, and  *)
(* where nobody heard it: a busy chip only answers for its status register.   *)
OpenTransaction(from, to, heardBy) ==
    /\ mainPc = from
    /\ nss' = IF mux \in heardBy THEN "low" ELSE "unheard"
    /\ mainPc' = to
    /\ UNCHANGED <<mux, flash, eraseVars, commonRsp, flowVars, blank0, owner,
                   inbox>>

MainPoll == earseFlag = 1 /\ OpenTransaction("poll", "sr", Chips)

(* Flash_ReadSR() & 0x01 of the chip the FPGA routes now.                     *)
MainReadSR_Inverted ==
    /\ mainPc = "sr"
    /\ \E busy \in IF nss = "low" THEN {flash[mux].wip} ELSE BOOLEAN :
          mainPc' = IF busy THEN "claim" ELSE "poll"
    /\ nss' = "high"
    /\ UNCHANGED <<mux, flash, eraseVars, commonRsp, flowVars, blank0, owner,
                   inbox>>
MainReadSR ==
    /\ mainPc = "sr"
    /\ \E busy \in IF nss = "low" THEN {flash[mux].wip} ELSE BOOLEAN :
          mainPc' = IF busy THEN "poll" ELSE "claim"
    /\ nss' = "high"
    /\ UNCHANGED <<mux, flash, eraseVars, commonRsp, flowVars, blank0, owner,
                   inbox>>

(* earseFlag = 0 and the constant fields of commonRsp.                        *)
MainClaim_KeepsFlag ==
    /\ mainPc = "claim"
    /\ commonRsp' = [commonRsp EXCEPT !.cmd = "EARSE"]
    /\ mainPc' = "check"
    /\ UNCHANGED <<spiVars, eraseVars, flowVars, blank0, owner, inbox>>
MainClaim_StaleCmd ==
    /\ mainPc = "claim"
    /\ earseFlag' = 0
    /\ mainPc' = "check"
    /\ UNCHANGED <<spiVars, earsePcb, commonRsp, eraseDue, flowVars, blank0,
                   owner, inbox>>
MainClaim ==
    /\ mainPc = "claim"
    /\ earseFlag' = 0
    /\ commonRsp' = [commonRsp EXCEPT !.cmd = "EARSE"]
    /\ mainPc' = "check"
    /\ UNCHANGED <<spiVars, earsePcb, eraseDue, flowVars, blank0, owner, inbox>>

(* flashCheckOut: whether the 4 bytes read at a cell are all 0xff.            *)
ReadsBlank(a) ==
    IF nss = "low" THEN {flash[mux].cell[a] = Blank} ELSE BOOLEAN

Awake == {c \in Chips : ~flash[c].wip}

MainOpen0 == OpenTransaction("check", "read0", Awake)

MainRead0 ==
    /\ mainPc = "read0"
    /\ blank0' \in ReadsBlank(0)
    /\ nss' = "high"
    /\ mainPc' = "gap"
    /\ UNCHANGED <<mux, flash, eraseVars, commonRsp, flowVars, owner, inbox>>

MainOpen1 == OpenTransaction("gap", "read1", Awake)

(* The second probe, at 0x1ffffff cut to 24 bits: the last cell.              *)
MainRead1 ==
    /\ mainPc = "read1"
    /\ \E blank1 \in ReadsBlank(FlashSize - 1) :
          commonRsp' = [commonRsp EXCEPT !.opRet =
                          IF blank0 /\ blank1 THEN 1 ELSE 0]
    /\ nss' = "high"
    /\ mainPc' = "send"
    /\ UNCHANGED <<mux, flash, eraseVars, flowVars, blank0, owner, inbox>>

(* earsePcb is read only now.                                                 *)
MainSend ==
    /\ mainPc = "send"
    /\ TcpWrite(earsePcb, commonRsp)
    /\ eraseDue' = eraseDue - 1
    /\ mainPc' = "poll"
    /\ UNCHANGED <<spiVars, earseFlag, earsePcb, commonRsp, flowVars, blank0,
                   owner>>

Main == MainPoll \/ MainReadSR \/ MainClaim \/ MainOpen0 \/ MainRead0
        \/ MainOpen1 \/ MainRead1 \/ MainSend

-----------------------------------------------------------------------------
(* What is around the program.                                                *)

(* The chip's own erase engine comes to its end.                              *)
EraseDone(c) ==
    /\ flash[c].wip
    /\ flash' = [flash EXCEPT ![c] = Idle(@)]
    /\ UNCHANGED <<mux, nss, eraseVars, commonRsp, flowVars, mainVars, owner,
                   inbox>>

(* lwIP gives the connection a free pcb slot, the one of a connection that    *)
(* has gone included.                                                         *)
Connect(c, p) ==
    /\ \A q \in Pcbs : owner[q] # c
    /\ owner[p] = NoClient
    /\ owner' = [owner EXCEPT ![p] = c]
    /\ inbox' = [inbox EXCEPT ![c] = <<>>]
    /\ UNCHANGED <<spiVars, eraseVars, commonRsp, flowVars, mainVars>>

(* A connection closes, resets or times out: none of the globals hears of it. *)
Disconnect(p) ==
    /\ owner[p] # NoClient
    /\ owner' = [owner EXCEPT ![p] = NoClient]
    /\ UNCHANGED <<spiVars, eraseVars, commonRsp, flowVars, mainVars, inbox>>

(* The client takes, and its TCP acknowledges, the oldest answer.             *)
TakeAnswer(c) ==
    /\ inbox[c] # <<>>
    /\ inbox' = [inbox EXCEPT ![c] = Tail(@)]
    /\ UNCHANGED <<spiVars, eraseVars, commonRsp, flowVars, mainVars, owner>>

(* Any command from any connection at any time.                               *)
Command ==
    /\ cmdCnt < MaxCmds
    /\ cmdCnt' = cmdCnt + 1
    /\ \E p \in Pcbs, cs \in Chips \cup {NoChip} :
          \/ EarseCmd(p, cs)
          \/ \E data \in Payloads : WriteDataCmd(p, cs, data)
          \/ WriteEndCmd(p, cs)
          \/ \E ack \in 1 .. MaxCmds : ReadCmd(p, cs, ack)

Surroundings ==
    \/ \E c \in Chips : EraseDone(c)
    \/ \E c \in Clients, p \in Pcbs : Connect(c, p)
    \/ \E p \in Pcbs : Disconnect(p)
    \/ \E c \in Clients : TakeAnswer(c)

Next == Command \/ ((Main \/ Surroundings) /\ UNCHANGED cmdCnt)

(* The main loop is the processor's only thread: it goes on whenever no       *)
(* interrupt runs.  A chip ends its erase within the time its datasheet gives. *)
Fairness ==
    /\ WF_vars(Main /\ UNCHANGED cmdCnt)
    /\ \A c \in Chips : WF_vars(EraseDone(c) /\ UNCHANGED cmdCnt)

Spec == Init /\ [][Next]_vars /\ Fairness

-----------------------------------------------------------------------------
(* Properties of the server whatever its clients do.                          *)

(* The main loop never answers more erases than were commanded, although it   *)
(* clears earseFlag some time after testing it and an ERASE may set it again  *)
(* in between: a set flag, and the answer it is at work on, are each backed   *)
(* by a command of its own (main.c 103-114, tcpserver.c 374).                 *)
Answering == mainPc \in {"check", "read0", "gap", "read1", "send"}

EraseAccounts ==
    /\ mainPc \in {"sr", "claim"} => earseFlag = 1
    /\ eraseDue >= earseFlag + (IF Answering THEN 1 ELSE 0)

(* Whenever the main loop is answering, or has an answer ahead of it,         *)
(* earsePcb is a pcb: tcp_write is never called on NULL.  EARSE sets the flag *)
(* before the pcb, so this rests on the interrupt running to its end          *)
(* (tcpserver.c 374-379, main.c 114).                                         *)
EarsePcbSet == (earseFlag = 1 \/ mainPc # "poll") => earsePcb \in Pcbs

(* A READ answer, a repeated one included, carries at most ICD_DAT_MAX_SIZE   *)
(* bytes: tail and checksum stay inside the 1024 bytes of sendbuf             *)
(* (tcpserver.c 431-455).                                                     *)
ReadFits == Len(readRsp) <= DatMax

(* Interrupts may spoil the polls of the main loop and take the bus from it,  *)
(* but once the clients fall silent every erase is noticed and its flag       *)
(* cleared (main.c 99-117).                                                   *)
EraseServed == earseFlag = 1 ~> earseFlag = 0

(* The main loop answers "on completion of the SPI flash erase" (the comment  *)
(* of main.c 105).  It does not when another flow has moved the FPGA's        *)
(* routing meanwhile: it then polls the wrong chip.  Stated for a single      *)
(* erase outstanding, so that it is clear which erase the answer is for.      *)
AnsweredOnCompletion ==
    mainPc = "send" /\ eraseDue = 1 => \A c \in Chips : ~flash[c].wip

-----------------------------------------------------------------------------
(* What shared globals and a busy chip can do to clients that overlap their   *)
(* commands or break off a flow.  None of these five holds: TLC refutes each  *)
(* with the constants of MCXvcServer.cfg.                                     *)

(* The answer the main loop is at work on stays the answer to an erase: a     *)
(* WRITE that comes in between overwrites commonRsp (main.c 109-114,          *)
(* tcpserver.c 405-413).                                                      *)
RspKept == Answering => commonRsp.cmd = "EARSE"

(* While an erase is to be answered, the pcb noted for it is not given to     *)
(* another connection (tcpserver.c 379).                                      *)
ErasePcbKept ==
    [][eraseDue > 0 /\ earsePcb' = earsePcb
         => owner'[earsePcb] \in {owner[earsePcb], NoClient}]_vars

(* Every EARSE with the bus to itself starts an erase of its chip: not on one *)
(* that is still busy, which ignores the write enable (drvflash.c 177).       *)
EraseStarts ==
    [][eraseDue' > eraseDue /\ nss = "high" => flash'[mux'].wip]_vars

(* Every WRITE with the bus to itself writes what it would on an idle chip:   *)
(* on a busy one the first page program is ignored (drvflash.c 68, 84-110).   *)
WriteTakes ==
    [][\A p \in Pcbs, cs \in Chips, data \in Payloads :
         WriteDataCmd(p, cs, data) /\ nss = "high"
           => flash'[mux'] = Flash_WriteNoCheck(Idle(flash[mux']),
                                                flashWriteAddr, data, FALSE)]_vars

(* A WRITE works on the chip its frame names: not once another client's flow, *)
(* or one that was broken off, has set setAddrFlag (tcpserver.c 385).         *)
WorksOnNamed ==
    [][\A p \in Pcbs, cs \in Chips, data \in Payloads :
         WriteDataCmd(p, cs, data) => mux' = cs]_vars
=============================================================================
