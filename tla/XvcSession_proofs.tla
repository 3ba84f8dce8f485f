-------------------------- MODULE XvcSession_proofs --------------------------
(* Of the server: type correctness and its safety invariants, for any number  *)
(* of clients, pcbs and chips and any sizes.                                  *)
(* Under a host that awaits each answer the server implements the store, for  *)
(* any number of clients, pcbs and chips, any packet size and any images but  *)
(* those whose length is a multiple of a packet (read_exact shows what        *)
(* becomes of those).                                                         *)
EXTENDS XvcSession, TLAPS

-----------------------------------------------------------------------------
(* The server by itself.                                                      *)

(* What the driver returns for a chip.                                        *)
LEMMA IdleType ==
    ASSUME NEW chip \in Chip
    PROVE  Idle(chip) \in Chip
  BY DEF Idle, Chip, Erased, Cell

LEMMA BurnType ==
    ASSUME NEW old \in Cell, NEW new \in Cell
    PROVE  Burn(old, new) \in Cell
  BY DEF Burn, Cell

LEMMA EraseType ==
    ASSUME NEW chip \in Chip, NEW lost \in BOOLEAN
    PROVE  Flash_EraseChip(chip, lost) \in Chip
  BY IdleType DEF Flash_EraseChip, Chip

LEMMA WriteType ==
    ASSUME NEW chip \in Chip, NEW a \in Nat, NEW data \in Seq(Cell),
           NEW lost \in BOOLEAN
    PROVE  Flash_WriteNoCheck(chip, a, data, lost) \in Chip
<1> DEFINE skip == IF chip.wip \/ lost THEN PageRemain(a, Len(data)) ELSE 0
           old == Idle(chip).cell
           place(i) == (i + FlashSize - (a % FlashSize)) % FlashSize
<1>1. old \in [Address -> Cell]
  BY IdleType DEF Chip
<1>2. skip \in Nat
  BY SpiFlashAssumption DEF PageRemain
<1>3. ASSUME NEW i \in Address
      PROVE  (IF skip <= place(i) /\ place(i) < Len(data)
              THEN Burn(old[i], data[place(i) + 1]) ELSE old[i]) \in Cell
  <2>1. place(i) \in Nat
    BY SpiFlashAssumption DEF Address
  <2>2. CASE skip <= place(i) /\ place(i) < Len(data)
    <3>1. place(i) + 1 \in 1 .. Len(data)
      BY <2>1, <2>2
    <3>2. data[place(i) + 1] \in Cell
      BY <3>1
    <3> HIDE DEF place, old, skip
    <3> QED
      BY <1>1, <2>2, <3>2, BurnType
  <2>3. CASE ~(skip <= place(i) /\ place(i) < Len(data))
    BY <1>1, <2>3
  <2> QED
    BY <2>2, <2>3
<1>4. Programmed(old, a, data, skip) \in [Address -> Cell]
  BY <1>3 DEF Programmed
<1> QED
  BY <1>4 DEF Flash_WriteNoCheck, Chip

LEMMA ReadType ==
    ASSUME NEW chip \in Chip, NEW a \in Nat, NEW n \in Nat, NEW lost \in BOOLEAN
    PROVE  /\ Flash_ReadSomeByte(chip, a, n, lost) \in Seq(Cell)
           /\ Len(Flash_ReadSomeByte(chip, a, n, lost)) = n
<1> DEFINE byte(k) == IF chip.wip \/ lost THEN Junk
                      ELSE chip.cell[(a + k - 1) % FlashSize]
<1>1. ASSUME NEW k \in 1 .. n
      PROVE  byte(k) \in Cell
  <2>1. (a + k - 1) % FlashSize \in Address
    BY SpiFlashAssumption DEF Address
  <2> QED
    BY <2>1 DEF Chip, Cell
<1>2. Flash_ReadSomeByte(chip, a, n, lost) = [k \in 1 .. n |-> byte(k)]
  BY DEF Flash_ReadSomeByte
<1> HIDE DEF byte
<1> QED
  BY <1>1, <1>2

(* tcp_write keeps the shape of the queues.                                   *)
LEMMA TcpWriteType ==
    ASSUME TypeOK, NEW p, NEW answer \in Answer, TcpWrite(p, answer)
    PROVE  inbox' \in [Clients -> Seq(Answer)]
<1>1. inbox' = [c \in Clients |->
                 IF owner[p] = c /\ Len(inbox[c]) < SndQueue
                 THEN Append(inbox[c], answer) ELSE inbox[c]]
  BY DEF TcpWrite
<1>2. ASSUME NEW c \in Clients
      PROVE  /\ inbox[c] \in Seq(Answer)
             /\ Append(inbox[c], answer) \in Seq(Answer)
  BY DEF TypeOK
<1> QED
  BY <1>1, <1>2

(* The invariant: types and the three safety properties together.             *)
IInv == TypeOK /\ EraseAccounts /\ EarsePcbSet /\ ReadFits

LEMMA InitIInv == Init => IInv
<1> SUFFICES ASSUME Init PROVE IInv
  OBVIOUS
<1>1. TypeOK
  <2>1. flash \in [Chips -> Chip]
    BY DEF Init, Chip, Erased, Cell
  <2>2. /\ flashWriteAddr \in NatWord /\ readTotal \in NatWord
        /\ flashReadAddr \in NatWord /\ cntInfo \in NatWord
        /\ cmdCnt \in 0 .. MaxCmds
    BY XvcServerAssumption DEF Init, NatWord, CntErased
  <2>3. commonRsp \in CommonRsp
    BY DEF Init, CommonRsp
  <2>4. /\ inbox \in [Clients -> Seq(Answer)] /\ readRsp \in Seq(Cell)
        /\ owner \in [Pcbs -> Clients \cup {NoClient}]
    BY DEF Init
  <2>5. nss \in NssLevels /\ blank0 \in BOOLEAN
    BY Zenon DEF Init, NssLevels
  <2>6. /\ mux \in Chips
        /\ earseFlag \in {0, 1} /\ setAddrFlag \in {0, 1}
        /\ earsePcb \in Pcbs \cup {NoPcb} /\ mainPc \in MainSteps
    BY DEF Init, MainSteps
  <2>7. ackCnt \in Nat /\ eraseDue \in Int
    BY DEF Init
  <2> QED
    BY <2>1, <2>2, <2>3, <2>4, <2>5, <2>6, <2>7, Zenon DEF TypeOK
<1>2. EraseAccounts
  BY DEF Init, EraseAccounts, Answering
<1>3. EarsePcbSet
  BY DEF Init, EarsePcbSet
<1>4. ReadFits
  BY XvcServerAssumption DEF Init, ReadFits
<1> QED
  BY <1>1, <1>2, <1>3, <1>4 DEF IInv

(* Whatever fpgaCs is, a chip is selected.                                    *)
LEMMA MuxType ==
    ASSUME TypeOK, NEW cs
    PROVE  FlashChoice(cs) \in Chips /\ FlowChip(cs) \in Chips
  BY DEF TypeOK, FlashChoice, FlowChip

LEMMA EarseCmdIInv ==
    ASSUME IInv, NEW p \in Pcbs, NEW cs, EarseCmd(p, cs),
           cmdCnt' \in 0 .. MaxCmds
    PROVE  IInv'
<1>1. mux' \in Chips
  BY MuxType DEF IInv, EarseCmd
<1>2. flash' \in [Chips -> Chip]
  <2>1. PICK lost \in Lost :
            flash' = [flash EXCEPT ![mux'] = Flash_EraseChip(@, lost)]
    BY DEF EarseCmd
  <2>2. lost \in BOOLEAN
    BY DEF Lost
  <2>3. Flash_EraseChip(flash[mux'], lost) \in Chip
    BY <1>1, <2>2, EraseType DEF IInv, TypeOK
  <2> QED
    BY <2>1, <2>3 DEF IInv, TypeOK
<1>3. TypeOK'
  <2>1. nss' \in NssLevels
    BY DEF EarseCmd, NssLevels
  <2>2. earseFlag' \in {0, 1} /\ earsePcb' \in Pcbs \cup {NoPcb}
    BY DEF EarseCmd, NoteErase
  <2>3. eraseDue' \in Int
    BY DEF IInv, TypeOK, EarseCmd, NoteErase
  <2> QED
    BY <1>1, <1>2, <2>1, <2>2, <2>3 DEF IInv, TypeOK, EarseCmd, flowVars, mainVars
<1>4. EraseAccounts'
  BY DEF IInv, TypeOK, EarseCmd, NoteErase, EraseAccounts, Answering, mainVars
<1>5. EarsePcbSet' /\ ReadFits'
  BY DEF IInv, EarseCmd, NoteErase, EarsePcbSet, ReadFits, flowVars
<1> QED
  BY <1>3, <1>4, <1>5 DEF IInv

LEMMA WriteDataCmdIInv ==
    ASSUME IInv, NEW p \in Pcbs, NEW cs, NEW data \in Payloads,
           WriteDataCmd(p, cs, data), cmdCnt' \in 0 .. MaxCmds
    PROVE  IInv'
<1>1. mux' \in Chips
  BY MuxType DEF IInv, WriteDataCmd
<1>2. data \in Seq(Cell)
  <2>1. data \in Seq(Data \cup {Blank})
    BY XvcServerAssumption
  <2>2. \A k \in 1 .. Len(data) : data[k] \in Cell
    BY <2>1 DEF Cell
  <2> QED
    BY <2>1, <2>2
<1>3. flash' \in [Chips -> Chip]
  <2>1. PICK lost \in Lost :
            flash' = [flash EXCEPT ![mux'] =
                        Flash_WriteNoCheck(@, flashWriteAddr, data, lost)]
    BY DEF WriteDataCmd
  <2>2. lost \in BOOLEAN
    BY DEF Lost
  <2>3. Flash_WriteNoCheck(flash[mux'], flashWriteAddr, data, lost) \in Chip
    BY <1>1, <1>2, <2>2, WriteType, XvcServerAssumption
       DEF IInv, TypeOK, NatWord
  <2> QED
    BY <2>1, <2>3 DEF IInv, TypeOK
<1>4. flashWriteAddr' \in NatWord
  BY <1>2, XvcServerAssumption DEF IInv, TypeOK, WriteDataCmd, NatWord
<1>5. commonRsp' \in CommonRsp /\ inbox' \in [Clients -> Seq(Answer)]
  <2>1. commonRsp' \in CommonRsp
    BY DEF WriteDataCmd, CommonRsp
  <2> QED
    BY <2>1, TcpWriteType DEF IInv, WriteDataCmd, Answer
<1>6. TypeOK'
  BY <1>1, <1>3, <1>4, <1>5
     DEF IInv, TypeOK, WriteDataCmd, eraseVars, mainVars, NssLevels
<1>7. EraseAccounts' /\ EarsePcbSet' /\ ReadFits'
  BY DEF IInv, WriteDataCmd, EraseAccounts, Answering, EarsePcbSet, ReadFits,
         eraseVars, mainVars
<1> QED
  BY <1>6, <1>7 DEF IInv

LEMMA WriteEndCmdIInv ==
    ASSUME IInv, NEW p \in Pcbs, NEW cs, WriteEndCmd(p, cs),
           cmdCnt' \in 0 .. MaxCmds
    PROVE  IInv'
<1>1. mux' \in Chips /\ nss' \in NssLevels
  <2>1. mux' \in Chips
    BY MuxType DEF IInv, WriteEndCmd
  <2>2. nss' \in NssLevels
    BY DEF IInv, TypeOK, WriteEndCmd, Rerouted, NssLevels
  <2> QED
    BY <2>1, <2>2
<1>2. commonRsp' \in CommonRsp /\ inbox' \in [Clients -> Seq(Answer)]
  <2>1. commonRsp' \in CommonRsp
    BY DEF WriteEndCmd, CommonRsp
  <2> QED
    BY <2>1, TcpWriteType DEF IInv, WriteEndCmd, Answer
<1>3. TypeOK'
  BY <1>1, <1>2, XvcServerAssumption
     DEF IInv, TypeOK, WriteEndCmd, EndFlow, eraseVars, mainVars, NatWord
<1>4. EraseAccounts' /\ EarsePcbSet' /\ ReadFits'
  BY DEF IInv, WriteEndCmd, EraseAccounts, Answering, EarsePcbSet, ReadFits,
         eraseVars, mainVars
<1> QED
  BY <1>3, <1>4 DEF IInv

LEMMA AckTotalType == ASSUME NEW n \in Nat PROVE AckTotal(n) \in Nat
  BY XvcServerAssumption DEF AckTotal

(* What a READ takes fits a packet and does not exceed what is left.          *)
LEMMA PacketLenBound ==
    ASSUME NEW total \in Nat, NEW acks \in Nat, NEW ack \in Nat,
           Full(total) \/ Rest(total, acks, ack)
    PROVE  /\ PacketLen(total) \in Nat
           /\ PacketLen(total) <= DatMax
           /\ PacketLen(total) <= total
  BY XvcServerAssumption DEF PacketLen, Full, Rest

LEMMA ReadCmdIInv ==
    ASSUME IInv, NEW p \in Pcbs, NEW cs, NEW ack \in Nat,
           ReadCmd(p, cs, ack), cmdCnt' \in 0 .. MaxCmds
    PROVE  IInv'
<1> DEFINE first == setAddrFlag = 0
           total == IF first THEN cntInfo ELSE readTotal
           acks == IF first THEN AckTotal(cntInfo) ELSE ackCnt
           sends == Full(total) \/ Rest(total, acks, ack)
           n == PacketLen(total)
<1>0. TypeOK /\ EraseAccounts /\ EarsePcbSet /\ ReadFits
  BY DEF IInv
<1>1. mux' \in Chips /\ nss' \in NssLevels
  <2>1. mux' \in Chips
    BY <1>0, MuxType DEF ReadCmd
  <2>2. nss' \in NssLevels
    BY <1>0 DEF TypeOK, ReadCmd, Rerouted, NssLevels
  <2> QED
    BY <2>1, <2>2
<1>2. total \in NatWord /\ total \in Nat /\ acks \in Nat
  <2>1. total \in NatWord /\ cntInfo \in Nat /\ ackCnt \in Nat
    BY <1>0, XvcServerAssumption DEF TypeOK, NatWord
  <2>2. NatWord \subseteq Nat
    BY DEF NatWord
  <2>3. acks \in Nat
    BY <2>1, AckTotalType
  <2> HIDE DEF total
  <2> QED
    BY <2>1, <2>2, <2>3
<1>3. sends => n \in Nat /\ n <= DatMax /\ n <= total
  <2> HIDE DEF total, acks
  <2> QED
    BY <1>2, PacketLenBound
<1>4. readRsp' \in Seq(Cell) /\ Len(readRsp') <= DatMax
  <2>1. PICK lost \in Lost :
            readRsp' = IF sends
                       THEN Flash_ReadSomeByte(flash[mux'], flashReadAddr, n, lost)
                       ELSE readRsp
    BY DEF ReadCmd
  <2>2. lost \in BOOLEAN
    BY DEF Lost
  <2>3. flash[mux'] \in Chip /\ flashReadAddr \in Nat
    BY <1>0, <1>1, XvcServerAssumption DEF TypeOK, NatWord
  <2> HIDE DEF n, sends
  <2>4. CASE sends
    BY <1>3, <2>1, <2>2, <2>3, <2>4, ReadType
  <2>5. CASE ~sends
    BY <1>0, <2>1, <2>5 DEF TypeOK, ReadFits
  <2> QED
    BY <2>4, <2>5
<1>5. readTotal' \in NatWord
  <2>1. readTotal' = IF sends THEN total - n ELSE total
    BY DEF ReadCmd
  <2> HIDE DEF n, sends, total
  <2> QED
    BY <1>2, <1>3, <2>1, XvcServerAssumption DEF NatWord
<1>6. flashReadAddr' \in NatWord
  <2>1. CASE Full(total)
    <3>1. flashReadAddr' = (flashReadAddr + n) % Word
      BY <2>1 DEF ReadCmd
    <3>2. n \in Nat /\ flashReadAddr \in Nat
      BY <1>0, <1>3, <2>1, XvcServerAssumption DEF TypeOK, NatWord
    <3> HIDE DEF n, total
    <3> QED
      BY <3>1, <3>2, XvcServerAssumption DEF NatWord
  <2>2. CASE ~Full(total)
    <3>1. flashReadAddr' \in {0, flashReadAddr}
      BY <2>2 DEF ReadCmd
    <3> QED
      BY <1>0, <3>1, XvcServerAssumption DEF TypeOK, NatWord
  <2> QED
    BY <2>1, <2>2
<1>7. setAddrFlag' \in {0, 1}
  BY DEF ReadCmd
<1>8. ackCnt' \in Nat
  BY <1>2 DEF ReadCmd
<1>9. inbox' \in [Clients -> Seq(Answer)]
  <2>1. [cmd |-> "READ", dat |-> readRsp'] \in Answer
    BY <1>4 DEF Answer, ReadRsp
  <2> QED
    BY <1>0, <2>1, TcpWriteType DEF ReadCmd
<1>10. TypeOK'
  BY <1>1, <1>4, <1>5, <1>6, <1>7, <1>8, <1>9, <1>0
     DEF TypeOK, ReadCmd, eraseVars, mainVars
<1>11. EraseAccounts' /\ EarsePcbSet'
  BY <1>0 DEF ReadCmd, EraseAccounts, Answering, EarsePcbSet, eraseVars,
         mainVars
<1>12. ReadFits'
  BY <1>4 DEF ReadFits
<1> QED
  BY <1>10, <1>11, <1>12 DEF IInv

(* The main loop's steps.  None moves the bus's routing, and only MainSend    *)
(* reaches a client.                                                          *)
LEMMA MainIInv ==
    ASSUME IInv, Main, cmdCnt' \in 0 .. MaxCmds
    PROVE  IInv'
<1>0. TypeOK /\ EraseAccounts /\ EarsePcbSet /\ ReadFits
  BY DEF IInv
<1>1. ASSUME NEW from, NEW to \in MainSteps, NEW heardBy,
             OpenTransaction(from, to, heardBy),
             from = "poll" => earseFlag = 1,
             <<from, to>> \in {<<"poll", "sr">>, <<"check", "read0">>,
                                <<"gap", "read1">>}
      PROVE  IInv'
  <2>1. TypeOK'
    BY <1>0, <1>1 DEF OpenTransaction, TypeOK, NssLevels, eraseVars, flowVars
  <2>2. EraseAccounts'
    BY <1>0, <1>1 DEF OpenTransaction, EraseAccounts, Answering, eraseVars
  <2>3. EarsePcbSet' /\ ReadFits'
    BY <1>0, <1>1 DEF OpenTransaction, EarsePcbSet, ReadFits, eraseVars, flowVars
  <2> QED
    BY <2>1, <2>2, <2>3 DEF IInv
<1>2. CASE MainPoll
  BY <1>1, <1>2 DEF MainPoll, MainSteps
<1>3. CASE MainOpen0
  BY <1>1, <1>3 DEF MainOpen0, MainSteps
<1>4. CASE MainOpen1
  BY <1>1, <1>4 DEF MainOpen1, MainSteps
<1>5. CASE MainReadSR
  <2>1. mainPc = "sr" /\ mainPc' \in {"poll", "claim"}
    BY <1>5 DEF MainReadSR
  <2>2. TypeOK'
    BY <1>0, <1>5, <2>1 DEF MainReadSR, TypeOK, NssLevels, eraseVars, flowVars,
                            MainSteps
  <2>3. EraseAccounts' /\ EarsePcbSet' /\ ReadFits'
    BY <1>0, <1>5, <2>1 DEF MainReadSR, EraseAccounts, Answering, EarsePcbSet,
                            ReadFits, eraseVars, flowVars
  <2> QED
    BY <2>2, <2>3 DEF IInv
<1>6. CASE MainClaim
  <2>1. commonRsp' \in CommonRsp
    BY <1>0, <1>6 DEF MainClaim, TypeOK, CommonRsp
  <2>2. TypeOK'
    BY <1>0, <1>6, <2>1 DEF MainClaim, TypeOK, spiVars, flowVars, MainSteps
  <2>3. EraseAccounts'
    BY <1>0, <1>6 DEF MainClaim, TypeOK, EraseAccounts, Answering
  <2>4. EarsePcbSet' /\ ReadFits'
    BY <1>0, <1>6 DEF MainClaim, EarsePcbSet, ReadFits, flowVars
  <2> QED
    BY <2>2, <2>3, <2>4 DEF IInv
<1>7. CASE MainRead0
  <2>1. blank0' \in BOOLEAN
    BY <1>7 DEF MainRead0, ReadsBlank
  <2>2. TypeOK'
    BY <1>0, <1>7, <2>1 DEF MainRead0, TypeOK, NssLevels, eraseVars, flowVars,
                            MainSteps
  <2>3. EraseAccounts' /\ EarsePcbSet' /\ ReadFits'
    BY <1>0, <1>7 DEF MainRead0, EraseAccounts, Answering, EarsePcbSet,
                      ReadFits, eraseVars, flowVars
  <2> QED
    BY <2>2, <2>3 DEF IInv
<1>8. CASE MainRead1
  <2>1. commonRsp' \in CommonRsp
    BY <1>0, <1>8 DEF MainRead1, TypeOK, CommonRsp
  <2>2. TypeOK'
    BY <1>0, <1>8, <2>1 DEF MainRead1, TypeOK, NssLevels, eraseVars, flowVars,
                            MainSteps
  <2>3. EraseAccounts' /\ EarsePcbSet' /\ ReadFits'
    BY <1>0, <1>8 DEF MainRead1, EraseAccounts, Answering, EarsePcbSet,
                      ReadFits, eraseVars, flowVars
  <2> QED
    BY <2>2, <2>3 DEF IInv
<1>9. CASE MainSend
  <2>1. inbox' \in [Clients -> Seq(Answer)]
    BY <1>0, <1>9, TcpWriteType DEF MainSend, TypeOK, Answer
  <2>2. TypeOK'
    BY <1>0, <1>9, <2>1 DEF MainSend, TypeOK, spiVars, flowVars, MainSteps
  <2>3. EraseAccounts'
    BY <1>0, <1>9 DEF MainSend, TypeOK, EraseAccounts, Answering
  <2>4. EarsePcbSet' /\ ReadFits'
    BY <1>0, <1>9 DEF MainSend, EarsePcbSet, ReadFits, flowVars
  <2> QED
    BY <2>2, <2>3, <2>4 DEF IInv
<1> QED
  BY <1>2, <1>3, <1>4, <1>5, <1>6, <1>7, <1>8, <1>9 DEF Main

LEMMA SurroundingsIInv ==
    ASSUME IInv, Surroundings, cmdCnt' \in 0 .. MaxCmds
    PROVE  IInv'
<1>0. TypeOK /\ EraseAccounts /\ EarsePcbSet /\ ReadFits
  BY DEF IInv
<1>1. ASSUME NEW c \in Chips, EraseDone(c)
      PROVE  IInv'
  <2>1. flash' \in [Chips -> Chip]
    BY <1>0, <1>1, IdleType DEF EraseDone, TypeOK
  <2>2. TypeOK'
    BY <1>0, <1>1, <2>1 DEF EraseDone, TypeOK, eraseVars, flowVars, mainVars
  <2>3. EraseAccounts' /\ EarsePcbSet' /\ ReadFits'
    BY <1>0, <1>1 DEF EraseDone, EraseAccounts, Answering, EarsePcbSet,
                      ReadFits, eraseVars, flowVars, mainVars
  <2> QED
    BY <2>2, <2>3 DEF IInv
<1>2. ASSUME owner' \in [Pcbs -> Clients \cup {NoClient}],
             inbox' \in [Clients -> Seq(Answer)],
             UNCHANGED <<spiVars, eraseVars, commonRsp, flowVars, mainVars>>
      PROVE  IInv'
  <2>1. TypeOK'
    BY <1>0, <1>2 DEF TypeOK, spiVars, eraseVars, flowVars, mainVars
  <2>2. EraseAccounts' /\ EarsePcbSet' /\ ReadFits'
    BY <1>0, <1>2 DEF EraseAccounts, Answering, EarsePcbSet, ReadFits,
                      eraseVars, flowVars, mainVars
  <2> QED
    BY <2>1, <2>2 DEF IInv
<1>3. ASSUME NEW c \in Clients, NEW p \in Pcbs, Connect(c, p)
      PROVE  IInv'
  BY <1>0, <1>2, <1>3 DEF Connect, TypeOK
<1>4. ASSUME NEW p \in Pcbs, Disconnect(p)
      PROVE  IInv'
  BY <1>0, <1>2, <1>4 DEF Disconnect, TypeOK
<1>5. ASSUME NEW c \in Clients, TakeAnswer(c)
      PROVE  IInv'
  BY <1>0, <1>2, <1>5 DEF TakeAnswer, TypeOK
<1> QED
  BY <1>1, <1>3, <1>4, <1>5 DEF Surroundings

LEMMA NextIInv == IInv /\ [Next]_vars => IInv'
<1> SUFFICES ASSUME IInv, [Next]_vars PROVE IInv'
  OBVIOUS
<1>1. CASE Command
  <2>1. cmdCnt' \in 0 .. MaxCmds
    BY <1>1, XvcServerAssumption DEF Command, IInv, TypeOK
  <2>2. MaxCmds \in Nat
    BY XvcServerAssumption
  <2> QED
    BY <1>1, <2>1, <2>2, EarseCmdIInv, WriteDataCmdIInv, WriteEndCmdIInv,
       ReadCmdIInv DEF Command
<1>2. CASE (Main \/ Surroundings) /\ UNCHANGED cmdCnt
  <2>1. cmdCnt' \in 0 .. MaxCmds
    BY <1>2 DEF IInv, TypeOK
  <2> QED
    BY <1>2, <2>1, MainIInv, SurroundingsIInv
<1>3. CASE UNCHANGED vars
  <2>1. TypeOK'
    BY <1>3 DEF IInv, TypeOK, vars, spiVars, eraseVars, flowVars, mainVars
  <2>2. EraseAccounts' /\ EarsePcbSet' /\ ReadFits'
    BY <1>3 DEF IInv, EraseAccounts, Answering, EarsePcbSet, ReadFits, vars,
                eraseVars, flowVars, mainVars
  <2> QED
    BY <2>1, <2>2 DEF IInv
<1> QED
  BY <1>1, <1>2, <1>3 DEF Next

LEMMA Invariance == Spec => []IInv
  BY InitIInv, NextIInv, PTL DEF Spec

(* The registers, buffers and queues keep their types (tcpserver.c 340-353).  *)
THEOREM TypeCorrect == Spec => []TypeOK
<1>1. IInv => TypeOK
  BY DEF IInv
<1> QED
  BY <1>1, Invariance, PTL

(* Whatever the clients send and wherever the main loop is interrupted, every *)
(* erase answer stands for an ERASE command of its own (main.c 103-114).      *)
THEOREM EraseAnswersAccounted == Spec => []EraseAccounts
<1>1. IInv => EraseAccounts
  BY DEF IInv
<1> QED
  BY <1>1, Invariance, PTL

(* The main loop never hands tcp_write a NULL pcb (main.c 114).               *)
THEOREM EarsePcbAlwaysSet == Spec => []EarsePcbSet
<1>1. IInv => EarsePcbSet
  BY DEF IInv
<1> QED
  BY <1>1, Invariance, PTL

(* No READ answer is larger than ICD_DAT_MAX_SIZE (tcpserver.c 431-455).      *)
THEOREM ReadAlwaysFits == Spec => []ReadFits
<1>1. IInv => ReadFits
  BY DEF IInv
<1> QED
  BY <1>1, Invariance, PTL

-----------------------------------------------------------------------------
(* The server and such a host.                                                *)

(* Hosts pad their images; the length that erased flash pretends to is no     *)
(* multiple of a packet (2^32 - 1 and 896 are not); an answer finds room in   *)
(* an empty send queue.                                                       *)
Proper == PadExact /\ CntErased % DatMax # 0 /\ SndQueue >= 1

-----------------------------------------------------------------------------
(* The invariant.                                                             *)

(* The main loop has an erase to see to.                                      *)
Pending == earseFlag = 1 \/ mainPc # "poll"

(* One connection at a time, which waits for the answer to its command.       *)
Sole == \A p, q \in Pcbs : owner[p] # NoClient /\ owner[q] # NoClient => p = q

Awaited ==
    /\ ask = "none" \/ Pending => \A c \in Clients : inbox[c] = <<>>
    /\ Pending => ask = "EARSE" /\ owner[earsePcb] \in Clients
    /\ ask \in {"EARSE", "END"} => phase = "idle"
    /\ ask = "WRITE" => phase = "write"

(* The registers of a flow, and what it has left of them.                     *)
Registers ==
    /\ phase = "idle" => setAddrFlag = 0
    /\ phase # "idle" => setAddrFlag = 1 /\ mux = target
    /\ phase # "write" => flashWriteAddr = 0
    /\ phase # "read" => readTotal = 0 /\ flashReadAddr = 0 /\ reads = 0
    /\ cntInfo % DatMax # 0

(* A read asks for what is left, and counts as many packets as the server.    *)
Needed(n) == IF n = 0 THEN 1 ELSE n \div DatMax + 2
Reading ==
    phase = "read" =>
        /\ readTotal <= cntInfo
        /\ readTotal # 0 => /\ readTotal % DatMax # 0
                            /\ flashReadAddr = cntInfo - readTotal
        /\ reads + Needed(readTotal) <= ackCnt

(* The bus is the main loop's, and what it finds there is an erased chip.     *)
Erasing ==
    /\ \A c \in Chips : flash[c].wip =>
          c = mux /\ earseFlag = 1 /\ mainPc \in {"poll", "sr"}
    /\ Pending => mux = target /\ (flash[mux].wip \/ flash[mux].cell = Erased)
    /\ nss = (IF mainPc \in {"sr", "read0", "read1"} THEN "low" ELSE "high")
    /\ Answering => earseFlag = 0 /\ commonRsp.cmd = "EARSE"
    /\ mainPc \in {"gap", "read1"} => blank0
    /\ mainPc = "send" => commonRsp.opRet = 1

SInv ==
    /\ IInv /\ HostTypeOK
    /\ Sole /\ Awaited /\ AnswerMatches
    /\ Registers /\ Reading /\ Erasing

-----------------------------------------------------------------------------
(* Whole packets and the rest.                                                *)
LEMMA Division ==
    ASSUME NEW n \in Nat, NEW q \in Nat, NEW r \in Nat,
           n = DatMax * q + r, r < DatMax
    PROVE  n \div DatMax = q /\ n % DatMax = r
<1> DEFINE a == n \div DatMax
           b == n % DatMax
<1>1. /\ a \in Int /\ b \in Int /\ 0 <= b /\ b < DatMax
      /\ n = DatMax * a + b
  BY XvcServerAssumption
<1>2. a = q
  <2>1. CASE a <= q - 1
    <3>1. DatMax * a <= DatMax * (q - 1)
      BY <1>1, <2>1, XvcServerAssumption
    <3>2. DatMax * (q - 1) = DatMax * q - DatMax
      BY XvcServerAssumption
    <3> QED
      BY <1>1, <3>1, <3>2, XvcServerAssumption
  <2>2. CASE a >= q + 1
    <3>1. DatMax * a >= DatMax * (q + 1)
      BY <1>1, <2>2, XvcServerAssumption
    <3>2. DatMax * (q + 1) = DatMax * q + DatMax
      BY XvcServerAssumption
    <3> QED
      BY <1>1, <3>1, <3>2, XvcServerAssumption
  <2> QED
    BY <1>1, <2>1, <2>2
<1> QED
  BY <1>1, <1>2, XvcServerAssumption

LEMMA Small ==
    ASSUME NEW n \in Nat, n < DatMax
    PROVE  n \div DatMax = 0 /\ n % DatMax = n
<1>1. n = DatMax * 0 + n
  BY XvcServerAssumption
<1> QED
  BY <1>1, Division

LEMMA OnePacketLess ==
    ASSUME NEW n \in Nat, n >= DatMax
    PROVE  /\ n - DatMax \in Nat
           /\ (n - DatMax) \div DatMax = n \div DatMax - 1
           /\ (n - DatMax) % DatMax = n % DatMax
<1> DEFINE a == n \div DatMax
           b == n % DatMax
<1>1. /\ a \in Int /\ b \in Nat /\ b < DatMax
      /\ n = DatMax * a + b
  BY XvcServerAssumption
<1>2. a >= 1
  <2>1. CASE a <= 0
    <3>1. DatMax * a <= 0
      BY <1>1, <2>1, XvcServerAssumption
    <3> QED
      BY <1>1, <3>1, XvcServerAssumption
  <2> QED
    BY <1>1, <2>1
<1>3. n - DatMax = DatMax * (a - 1) + b
  BY <1>1, XvcServerAssumption
<1>4. n - DatMax \in Nat /\ a - 1 \in Nat
  BY <1>1, <1>2, XvcServerAssumption
<1> HIDE DEF a, b
<1>5. PICK m \in Nat : m = n - DatMax
  BY <1>4
<1>6. m \div DatMax = a - 1 /\ m % DatMax = b
  BY <1>1, <1>3, <1>4, <1>5, Division
<1> QED
  BY <1>4, <1>5, <1>6 DEF a, b

-----------------------------------------------------------------------------
(* Nothing is under way while the host has nothing asked.                     *)
LEMMA Silent ==
    ASSUME SInv, ask = "none"
    PROVE  /\ earseFlag = 0 /\ mainPc = "poll" /\ nss = "high"
           /\ \A c \in Clients : inbox[c] = <<>>
           /\ \A c \in Chips : ~flash[c].wip
           /\ Lost = {FALSE}
<1>1. earseFlag = 0 /\ mainPc = "poll"
  BY DEF SInv, Awaited, Pending, IInv, TypeOK
<1> QED
  BY <1>1 DEF SInv, Awaited, Erasing, Lost

(* tcp_write reaches the host, and only the host.                             *)
LEMMA Written ==
    ASSUME Proper, IInv, Sole, \A c \in Clients : inbox[c] = <<>>,
           NEW p \in Pcbs, owner[p] # NoClient, NEW answer, TcpWrite(p, answer)
    PROVE  /\ owner[p] \in Clients
           /\ inbox' = [c \in Clients |-> IF c = owner[p] THEN <<answer>> ELSE <<>>]
<1>1. owner[p] \in Clients
  BY DEF IInv, TypeOK
<1>2. ASSUME NEW c \in Clients
      PROVE  (IF owner[p] = c /\ Len(inbox[c]) < SndQueue
              THEN Append(inbox[c], answer) ELSE inbox[c])
             = IF c = owner[p] THEN <<answer>> ELSE <<>>
  <2>1. inbox[c] = <<>> /\ Len(<<>>) = 0 /\ SndQueue \in Nat /\ SndQueue >= 1
    BY <1>2, XvcServerAssumption DEF Proper
  <2>2. Append(<<>>, answer) = <<answer>>
    OBVIOUS
  <2> QED
    BY <2>1, <2>2
<1> QED
  BY <1>1, <1>2 DEF TcpWrite

(* Then the answer on the line is the one to its command.                     *)
LEMMA Matches ==
    ASSUME NEW p \in Pcbs, NEW answer,
           inbox' = [c \in Clients |-> IF c = owner[p] THEN <<answer>> ELSE <<>>],
           UNCHANGED owner,
           ask' = IF answer.cmd = "WRITE" /\ phase' = "idle"
                  THEN "END" ELSE answer.cmd
    PROVE  AnswerMatches'
  BY DEF AnswerMatches

LEMMA InitSInv == ASSUME Proper PROVE SessionInit => SInv
<1> SUFFICES ASSUME SessionInit PROVE SInv
  OBVIOUS
<1>1. IInv
  BY InitIInv DEF SessionInit
<1>2. HostTypeOK
  BY XvcSessionAssumption DEF SessionInit, Init, HostTypeOK
<1>3. Sole /\ Awaited /\ AnswerMatches
  BY DEF SessionInit, Init, Sole, Awaited, AnswerMatches, Pending
<1>4. Registers /\ Reading
  BY DEF SessionInit, Init, Registers, Reading, Proper
<1>5. Erasing
  BY DEF SessionInit, Init, Erasing, Pending, Answering
<1> QED
  BY <1>1, <1>2, <1>3, <1>4, <1>5 DEF SInv

-----------------------------------------------------------------------------
(* Every step of host and server keeps the invariant.                         *)
LEMMA AskEarseKeeps ==
    ASSUME Proper, SInv, NEW p \in Pcbs, NEW cs \in Chips, AskEarse(p, cs)
    PROVE  SInv'
<1>0. /\ ask = "none" /\ phase = "idle" /\ ask' = "EARSE" /\ target' = cs
      /\ UNCHANGED <<phase, reads, cmdCnt>> /\ EarseCmd(p, cs)
  BY DEF AskEarse
<1>1. IInv'
  BY <1>0, EarseCmdIInv DEF SInv, IInv, TypeOK
<1>2. /\ mux' = cs /\ earseFlag' = 1 /\ earsePcb' = p /\ nss' = "high"
      /\ UNCHANGED <<owner, inbox, flowVars, mainVars, commonRsp>>
      /\ owner[p] \in Clients /\ mainPc' = "poll"
  BY <1>0, Silent DEF EarseCmd, FlashChoice, NoteErase, SInv, IInv, TypeOK, mainVars
<1>3. /\ \A c \in Clients : inbox'[c] = <<>>
      /\ \A c \in Chips : c # cs => ~flash'[c].wip
      /\ flash'[cs].wip
  <2>1. PICK lost \in Lost : flash' = [flash EXCEPT ![mux'] = Flash_EraseChip(@, lost)]
    BY <1>0 DEF EarseCmd
  <2>2. lost = FALSE /\ \A c \in Chips : ~flash[c].wip
    BY <1>0, <2>1, Silent
  <2>3. flash' = [flash EXCEPT ![cs] = [flash[cs] EXCEPT !.wip = TRUE]]
    BY <1>2, <2>1, <2>2 DEF Flash_EraseChip
  <2>4. flash[cs] \in Chip /\ flash \in [Chips -> Chip]
    BY DEF SInv, IInv, TypeOK
  <2>5. flash'[cs].wip
    BY <2>3, <2>4 DEF Chip
  <2> QED
    BY <1>0, <1>2, <2>2, <2>3, <2>4, <2>5, Silent
<1>4. HostTypeOK' /\ Sole'
  BY <1>0, <1>2 DEF SInv, HostTypeOK, Sole
<1>5. Awaited' /\ AnswerMatches'
  BY <1>0, <1>2, <1>3 DEF Awaited, AnswerMatches, Pending
<1>6. Registers' /\ Reading'
  BY <1>0, <1>2 DEF SInv, Registers, Reading, flowVars
<1>7. Erasing'
  BY <1>0, <1>2, <1>3 DEF Erasing, Answering, Pending
<1> QED
  BY <1>1, <1>4, <1>5, <1>6, <1>7 DEF SInv

LEMMA AskWriteKeeps ==
    ASSUME Proper, SInv, NEW p \in Pcbs, NEW cs \in Chips, NEW data \in Payloads,
           AskWrite(p, cs, data)
    PROVE  SInv'
<1>0. /\ ask = "none" /\ phase \in {"idle", "write"} /\ Chosen(cs)
      /\ ask' = "WRITE" /\ phase' = "write" /\ target' = cs
      /\ UNCHANGED <<reads, cmdCnt>> /\ WriteDataCmd(p, cs, data)
  BY DEF AskWrite
<1>1. IInv'
  BY <1>0, WriteDataCmdIInv DEF SInv, IInv, TypeOK
<1>2. /\ mux' = cs /\ setAddrFlag' = 1 /\ nss' = "high"
      /\ earseFlag' = 0 /\ mainPc' = "poll"
      /\ UNCHANGED <<owner, readTotal, flashReadAddr, ackCnt, cntInfo>>
  <2>1. mux' = cs
    BY <1>0 DEF WriteDataCmd, FlowChip, FlashChoice, Chosen, SInv, Registers
  <2> QED
    BY <1>0, <2>1, Silent DEF WriteDataCmd, eraseVars, mainVars
<1>3. \A c \in Chips : ~flash'[c].wip
  <2>1. PICK lost \in Lost :
            flash' = [flash EXCEPT ![mux'] =
                        Flash_WriteNoCheck(@, flashWriteAddr, data, lost)]
    BY <1>0 DEF WriteDataCmd
  <2>2. ~Flash_WriteNoCheck(flash[mux'], flashWriteAddr, data, lost).wip
    BY DEF Flash_WriteNoCheck
  <2> HIDE DEF Flash_WriteNoCheck
  <2> QED
    BY <1>0, <2>1, <2>2, Silent DEF SInv, IInv, TypeOK
<1>4. /\ owner[p] \in Clients
      /\ inbox' = [c \in Clients |-> IF c = owner[p]
                                     THEN <<[cmd |-> "WRITE", opRet |-> 1]>> ELSE <<>>]
  BY <1>0, Written, Silent DEF SInv, WriteDataCmd
<1>5. HostTypeOK' /\ Sole'
  BY <1>0, <1>2 DEF SInv, HostTypeOK, Sole
<1>6. Awaited' /\ AnswerMatches'
  <2>1. AnswerMatches'
    BY <1>0, <1>2, <1>4, Matches
  <2> QED
    BY <1>0, <1>2, <2>1 DEF Awaited, Pending
<1>7. Registers' /\ Reading'
  BY <1>0, <1>2 DEF SInv, Registers, Reading
<1>8. Erasing'
  BY <1>2, <1>3 DEF Erasing, Answering, Pending
<1> QED
  BY <1>1, <1>5, <1>6, <1>7, <1>8 DEF SInv

LEMMA AskEndKeeps ==
    ASSUME Proper, SInv, NEW p \in Pcbs, AskEnd(p)
    PROVE  SInv'
<1>0. /\ ask = "none" /\ phase = "write" /\ flashWriteAddr % DatMax # 0
      /\ ask' = "END" /\ phase' = "idle"
      /\ UNCHANGED <<target, reads, cmdCnt>> /\ WriteEndCmd(p, target)
  BY DEF AskEnd, Proper
<1>1. IInv'
  BY <1>0, WriteEndCmdIInv DEF SInv, IInv, TypeOK
<1>2. /\ setAddrFlag' = 0 /\ nss' = "high" /\ flashWriteAddr' = 0
      /\ earseFlag' = 0 /\ mainPc' = "poll" /\ cntInfo' = flashWriteAddr
      /\ UNCHANGED <<owner, flash, readTotal, flashReadAddr, ackCnt>>
  BY <1>0, Silent DEF WriteEndCmd, Rerouted, EndFlow, eraseVars, mainVars
<1>4. /\ owner[p] \in Clients
      /\ inbox' = [c \in Clients |-> IF c = owner[p]
                                     THEN <<[cmd |-> "WRITE", opRet |-> 1]>> ELSE <<>>]
  BY <1>0, Written, Silent DEF SInv, WriteEndCmd
<1>5. HostTypeOK' /\ Sole'
  BY <1>0, <1>2 DEF SInv, HostTypeOK, Sole
<1>6. Awaited' /\ AnswerMatches'
  <2>1. AnswerMatches'
    BY <1>0, <1>2, <1>4, Matches
  <2> QED
    BY <1>0, <1>2, <2>1 DEF Awaited, Pending
<1>7. Registers' /\ Reading'
  BY <1>0, <1>2 DEF SInv, Registers, Reading
<1>8. Erasing'
  BY <1>0, <1>2, Silent DEF Erasing, Answering, Pending
<1> QED
  BY <1>1, <1>5, <1>6, <1>7, <1>8 DEF SInv

(* What a READ finds left, and how many READs the server takes it to need.    *)
Total == IF setAddrFlag = 0 THEN cntInfo ELSE readTotal
Acks == IF setAddrFlag = 0 THEN AckTotal(cntInfo) ELSE ackCnt

LEMMA Due ==
    ASSUME SInv, phase \in {"idle", "read"}
    PROVE  /\ Total \in Nat /\ Acks \in Nat /\ Total <= cntInfo
           /\ Total # 0 => /\ Total % DatMax # 0
                           /\ flashReadAddr = cntInfo - Total
           /\ reads + Needed(Total) <= Acks
           /\ Total # DatMax
           /\ flashReadAddr \in Nat /\ cntInfo \in NatWord /\ reads \in Nat
<1>1. /\ cntInfo \in Nat /\ cntInfo \in NatWord /\ readTotal \in Nat
      /\ ackCnt \in Nat /\ flashReadAddr \in Nat /\ reads \in Nat
  BY XvcServerAssumption, XvcSessionAssumption DEF SInv, IInv, TypeOK, NatWord, HostTypeOK
<1>2. cntInfo % DatMax # 0 /\ cntInfo # 0
  <2>1. cntInfo % DatMax # 0
    BY DEF SInv, Registers
  <2>2. 0 % DatMax = 0
    BY Small, XvcServerAssumption
  <2> QED
    BY <2>1, <2>2
<1>3. /\ Total \in Nat /\ Acks \in Nat /\ Total <= cntInfo
      /\ Total # 0 => /\ Total % DatMax # 0
                      /\ flashReadAddr = cntInfo - Total
      /\ reads + Needed(Total) <= Acks
  <2>1. CASE phase = "idle"
    <3>1. setAddrFlag = 0 /\ reads = 0 /\ flashReadAddr = 0
      BY <2>1 DEF SInv, Registers
    <3>2. Acks = Needed(cntInfo) /\ Acks \in Nat
      BY <1>1, <1>2, <3>1, AckTotalType DEF Acks, AckTotal, Needed
    <3> QED
      BY <1>1, <1>2, <3>1, <3>2 DEF Total
  <2>2. CASE phase = "read"
    <3>1. setAddrFlag = 1
      BY <2>2 DEF SInv, Registers
    <3> QED
      BY <1>1, <2>2, <3>1 DEF SInv, Reading, Total, Acks
  <2> QED
    BY <2>1, <2>2
<1>4. Total # DatMax
  <2>1. PICK d \in Nat : d = DatMax
    BY XvcServerAssumption
  <2>2. d = DatMax * 1 + 0
    BY <2>1, XvcServerAssumption
  <2>3. d % DatMax = 0
    BY <2>2, Division, XvcServerAssumption
  <2> QED
    BY <1>3, <2>1, <2>3, XvcServerAssumption
<1> QED
  BY <1>1, <1>3, <1>4

(* A READ of such a host gets the next packet of the image; the flow ends     *)
(* with the empty one.                                                        *)
LEMMA ReadStep ==
    ASSUME SInv, NEW p \in Pcbs, NEW cs \in Chips, AskRead(p, cs)
    PROVE  /\ ask = "none" /\ phase \in {"idle", "read"}
           /\ mux' = cs /\ nss' = "high"
           /\ PacketLen(Total) \in Nat /\ PacketLen(Total) <= Total
           /\ PacketLen(Total) = 0 <=> Total = 0
           /\ readRsp' = Flash_ReadSomeByte(flash[cs], flashReadAddr,
                                            PacketLen(Total), FALSE)
           /\ Len(readRsp') = PacketLen(Total)
           /\ readRsp' = <<>> <=> Total = 0
           /\ readTotal' = Total - PacketLen(Total)
           /\ flashReadAddr' = IF Full(Total)
                               THEN (flashReadAddr + PacketLen(Total)) % Word
                               ELSE IF Total = 0 THEN 0 ELSE flashReadAddr
           /\ setAddrFlag' = IF Total = 0 THEN 0 ELSE 1
           /\ ackCnt' = IF Total = 0 THEN 0 ELSE Acks
           /\ TcpWrite(p, [cmd |-> "READ", dat |-> readRsp'])
<1>0. /\ ask = "none" /\ phase \in {"idle", "read"} /\ Chosen(cs)
      /\ ReadCmd(p, cs, reads + 1)
  BY DEF AskRead
<1>1. /\ Total \in Nat /\ Acks \in Nat /\ reads \in Nat /\ Total # DatMax
      /\ reads + Needed(Total) <= Acks
  BY <1>0, Due
<1>2. Acks >= reads + 1
  <2>1. Needed(Total) >= 1 /\ Needed(Total) \in Int
    BY <1>1, XvcServerAssumption DEF Needed
  <2> HIDE DEF Needed
  <2> QED
    BY <1>1, <2>1
<1>3. /\ Full(Total) \/ Rest(Total, Acks, reads + 1)
      /\ Rest(Total, Acks, reads + 1) <=> ~Full(Total)
      /\ Total = 0 => ~Full(Total)
  BY <1>1, <1>2, XvcServerAssumption DEF Full, Rest
<1>4. /\ PacketLen(Total) \in Nat /\ PacketLen(Total) <= Total
      /\ PacketLen(Total) = 0 <=> Total = 0
  BY <1>1, XvcServerAssumption DEF PacketLen, Full
<1>5. mux' = cs
  BY <1>0 DEF ReadCmd, FlowChip, FlashChoice, Chosen, SInv, Registers
<1>6. /\ nss' = "high"
      /\ readRsp' = Flash_ReadSomeByte(flash[cs], flashReadAddr,
                                       PacketLen(Total), FALSE)
      /\ readTotal' = Total - PacketLen(Total)
      /\ flashReadAddr' = IF Full(Total)
                          THEN (flashReadAddr + PacketLen(Total)) % Word
                          ELSE IF Total = 0 THEN 0 ELSE flashReadAddr
      /\ setAddrFlag' = IF Total = 0 THEN 0 ELSE 1
      /\ ackCnt' = IF Total = 0 THEN 0 ELSE Acks
      /\ TcpWrite(p, [cmd |-> "READ", dat |-> readRsp'])
  <2>1. Lost = {FALSE}
    BY <1>0, Silent
  <2> HIDE DEF PacketLen, Full, Rest
  <2> QED
    BY <1>0, <1>3, <1>5, <2>1 DEF ReadCmd, Total, Acks
<1>7. Len(readRsp') = PacketLen(Total) /\ readRsp' \in Seq(Cell)
  <2>1. flash[cs] \in Chip /\ flashReadAddr \in Nat
    BY XvcServerAssumption DEF SInv, IInv, TypeOK, NatWord
  <2> QED
    BY <1>4, <1>6, <2>1, ReadType
<1>8. readRsp' = <<>> <=> Total = 0
  BY <1>4, <1>7
<1> QED
  BY <1>0, <1>4, <1>5, <1>6, <1>7, <1>8

(* A READ counts one packet off.                                              *)
LEMMA NeededLess ==
    ASSUME NEW n \in Nat, n # 0, n # DatMax, n % DatMax # 0
    PROVE  /\ n - PacketLen(n) \in Nat
           /\ Needed(n - PacketLen(n)) + 1 = Needed(n)
           /\ n - PacketLen(n) # 0 => /\ Full(n) /\ PacketLen(n) = DatMax
                                      /\ (n - PacketLen(n)) % DatMax # 0
<1>1. CASE n > DatMax
  <2>1. PacketLen(n) = DatMax /\ Full(n)
    BY <1>1 DEF PacketLen, Full
  <2>2. PICK m \in Nat : m = n - DatMax
    BY <1>1, XvcServerAssumption
  <2>3. m # 0 /\ m \div DatMax = n \div DatMax - 1 /\ m % DatMax # 0
    <3>1. n >= DatMax
      BY <1>1, XvcServerAssumption
    <3>2. /\ (n - DatMax) \div DatMax = n \div DatMax - 1
          /\ (n - DatMax) % DatMax = n % DatMax
      BY <3>1, OnePacketLess
    <3>3. m # 0
      BY <1>1, <2>2, XvcServerAssumption
    <3> QED
      BY <2>2, <3>2, <3>3
  <2> QED
    BY <2>1, <2>2, <2>3, XvcServerAssumption DEF Needed
<1>2. CASE n < DatMax
  <2>1. PacketLen(n) = n /\ n - n = 0
    BY <1>2, XvcServerAssumption DEF PacketLen, Full
  <2>2. n \div DatMax = 0
    BY <1>2, Small
  <2> QED
    BY <2>1, <2>2 DEF Needed
<1> QED
  BY <1>1, <1>2, XvcServerAssumption

LEMMA AskReadKeeps ==
    ASSUME Proper, SInv, NEW p \in Pcbs, NEW cs \in Chips, AskRead(p, cs)
    PROVE  SInv'
<1> DEFINE n == PacketLen(Total)
<1>0. /\ ask = "none" /\ phase \in {"idle", "read"} /\ ask' = "READ"
      /\ phase' = (IF readRsp' = <<>> THEN "idle" ELSE "read")
      /\ target' = cs
      /\ reads' = (IF readRsp' = <<>> THEN 0
                   ELSE IF reads < MaxReads THEN reads + 1 ELSE reads)
      /\ UNCHANGED cmdCnt /\ ReadCmd(p, cs, reads + 1)
  BY DEF AskRead
<1>1. IInv'
  <2>1. reads + 1 \in Nat
    BY XvcSessionAssumption DEF SInv, HostTypeOK
  <2>2. cmdCnt' \in 0 .. MaxCmds
    BY <1>0 DEF SInv, IInv, TypeOK
  <2> QED
    BY <1>0, <2>1, <2>2, ReadCmdIInv DEF SInv
<1>2. /\ mux' = cs /\ nss' = "high"
      /\ readRsp' = <<>> <=> Total = 0
      /\ readTotal' = Total - n
      /\ flashReadAddr' = IF Full(Total) THEN (flashReadAddr + n) % Word
                          ELSE IF Total = 0 THEN 0 ELSE flashReadAddr
      /\ setAddrFlag' = IF Total = 0 THEN 0 ELSE 1
      /\ ackCnt' = IF Total = 0 THEN 0 ELSE Acks
      /\ TcpWrite(p, [cmd |-> "READ", dat |-> readRsp'])
      /\ Total = 0 => n = 0
  BY ReadStep
<1>3. /\ earseFlag' = 0 /\ mainPc' = "poll" /\ owner[p] # NoClient
      /\ UNCHANGED <<owner, flash, flashWriteAddr, cntInfo>>
  BY <1>0, Silent DEF ReadCmd, eraseVars, mainVars
<1>4. /\ owner[p] \in Clients
      /\ inbox' = [c \in Clients |-> IF c = owner[p]
                                     THEN <<[cmd |-> "READ", dat |-> readRsp']>>
                                     ELSE <<>>]
  BY <1>0, <1>2, <1>3, Written, Silent DEF SInv
<1>5. HostTypeOK' /\ Sole'
  BY <1>0, <1>3, XvcSessionAssumption DEF SInv, HostTypeOK, Sole
<1>6. Awaited' /\ AnswerMatches'
  <2>1. AnswerMatches'
    BY <1>0, <1>3, <1>4, Matches
  <2> QED
    BY <1>0, <1>3, <2>1 DEF Awaited, Pending
<1>7. /\ Total \in Nat /\ Acks \in Nat /\ Total <= cntInfo
      /\ Total # 0 => /\ Total % DatMax # 0
                      /\ flashReadAddr = cntInfo - Total
      /\ reads + Needed(Total) <= Acks
      /\ Total # DatMax
      /\ cntInfo \in NatWord /\ reads \in Nat
  BY <1>0, Due
<1>8. Registers'
  <2> HIDE DEF n
  <2>1. (flashReadAddr' = 0 /\ readTotal' = 0 /\ reads' = 0) \/ Total # 0
    <3>1. CASE Total = 0
      BY <1>0, <1>2, <3>1, XvcServerAssumption DEF Full
    <3> QED
      BY <3>1
  <2> QED
    BY <1>0, <1>2, <1>3, <2>1 DEF SInv, Registers
<1>9. Reading'
  <2> SUFFICES ASSUME Total # 0
               PROVE  /\ readTotal' <= cntInfo
                      /\ readTotal' # 0 => /\ readTotal' % DatMax # 0
                                           /\ flashReadAddr' = cntInfo - readTotal'
                      /\ reads' + Needed(readTotal') <= ackCnt'
    BY <1>0, <1>2, <1>3 DEF Reading, Needed
  <2>1. /\ Total - n \in Nat
        /\ Needed(Total - n) + 1 = Needed(Total)
        /\ Total - n # 0 => Full(Total) /\ n = DatMax /\ (Total - n) % DatMax # 0
    BY <1>7, NeededLess
  <2>2. n \in Nat
    BY <1>7, XvcServerAssumption DEF PacketLen
  <2>3. Needed(Total) \in Int /\ Needed(Total - n) \in Int
    BY <1>7, <2>1, XvcServerAssumption DEF Needed
  <2> HIDE DEF n, Needed
  <2>4. readTotal' <= cntInfo
    BY <1>2, <1>7, <2>1, <2>2, XvcServerAssumption DEF NatWord
  <2>5. ASSUME readTotal' # 0
        PROVE  readTotal' % DatMax # 0 /\ flashReadAddr' = cntInfo - readTotal'
    <3>1. /\ flashReadAddr' = ((cntInfo - Total) + n) % Word
          /\ readTotal' = Total - n /\ readTotal' % DatMax # 0
      BY <1>2, <1>7, <2>1, <2>5
    <3>2. PICK a \in 0 .. Word - 1 : a = (cntInfo - Total) + n
      BY <1>7, <2>1, <2>2, XvcServerAssumption DEF NatWord
    <3>3. a % Word = a
      BY <3>2, XvcServerAssumption
    <3> QED
      BY <1>7, <2>2, <3>1, <3>2, <3>3, XvcServerAssumption DEF NatWord
  <2>6. reads' + Needed(readTotal') <= ackCnt'
    <3>1. reads' \in Nat /\ reads' <= reads + 1
      BY <1>0, <1>2, <1>7, XvcSessionAssumption
    <3> QED
      BY <1>2, <1>7, <2>1, <2>3, <3>1
  <2> QED
    BY <2>4, <2>5, <2>6
<1>10. Erasing'
  BY <1>0, <1>2, <1>3, Silent DEF Erasing, Answering, Pending
<1> QED
  BY <1>1, <1>5, <1>6, <1>8, <1>9, <1>10 DEF SInv

(* The host's other steps leave the server alone.                             *)
LEMMA HostStepKeeps ==
    ASSUME Proper, SInv, Surroundings,
           UNCHANGED <<spiVars, eraseVars, commonRsp, flowVars, mainVars, cmdCnt>>,
           UNCHANGED <<phase, target, reads>>, ask' \in {ask, "none"},
           Sole', Awaited', AnswerMatches'
    PROVE  SInv'
<1>1. IInv'
  <2>1. cmdCnt' \in 0 .. MaxCmds
    BY DEF SInv, IInv, TypeOK
  <2> QED
    BY <2>1, SurroundingsIInv DEF SInv
<1>2. HostTypeOK'
  BY DEF SInv, HostTypeOK
<1>3. Registers' /\ Reading' /\ Erasing'
  <2>1. Registers' /\ Reading'
    BY DEF SInv, Registers, Reading, Needed, flowVars, spiVars
  <2>2. Erasing'
    BY DEF SInv, Erasing, Answering, Pending, flowVars, spiVars, eraseVars, mainVars
  <2> QED
    BY <2>1, <2>2
<1> QED
  BY <1>1, <1>2, <1>3 DEF SInv

LEMMA HostTakesKeeps ==
    ASSUME Proper, SInv, NEW c \in Clients, HostTakes(c)
    PROVE  SInv'
<1>0. /\ TakeAnswer(c) /\ ask' = "none" /\ UNCHANGED <<phase, target, reads, cmdCnt>>
      /\ inbox[c] # <<>> /\ inbox' = [inbox EXCEPT ![c] = Tail(@)]
      /\ UNCHANGED <<spiVars, eraseVars, commonRsp, flowVars, mainVars, owner>>
  BY DEF HostTakes, TakeAnswer
<1>1. \A d \in Clients : inbox'[d] = <<>>
  <2>1. ASSUME NEW d \in Clients, inbox[d] # <<>>
        PROVE  d = c /\ Len(inbox[d]) = 1
    <3>1. Len(inbox[d]) = 1 /\ \E p \in Pcbs : owner[p] = d
      BY <2>1 DEF SInv, AnswerMatches
    <3>2. \E p \in Pcbs : owner[p] = c
      BY <1>0 DEF SInv, AnswerMatches
    <3>3. d # NoClient /\ c # NoClient
      BY XvcServerAssumption
    <3> QED
      BY <3>1, <3>2, <3>3 DEF SInv, Sole
  <2>2. inbox \in [Clients -> Seq(Answer)]
    BY DEF SInv, IInv, TypeOK
  <2>3. Len(inbox[c]) = 1 /\ inbox[c] \in Seq(Answer)
    BY <1>0, <2>1, <2>2
  <2>4. Tail(inbox[c]) = <<>>
    <3>1. PICK s \in Seq(Answer) : s = inbox[c]
      BY <2>3
    <3>2. Len(Tail(s)) = 0 /\ Tail(s) \in Seq(Answer)
      BY <2>3, <3>1
    <3>3. \A t \in Seq(Answer) : Len(t) = 0 => t = <<>>
      OBVIOUS
    <3> QED
      BY <3>1, <3>2, <3>3
  <2> QED
    BY <1>0, <2>1, <2>2, <2>4
<1>2. Awaited'
  <2>1. ~Pending
    BY <1>0 DEF SInv, Awaited
  <2>2. ~Pending'
    BY <1>0, <2>1 DEF Pending, eraseVars, mainVars
  <2> QED
    BY <1>0, <1>1, <2>2 DEF Awaited
<1>3. Sole' /\ AnswerMatches'
  BY <1>0, <1>1 DEF SInv, Sole, AnswerMatches
<1> QED
  BY <1>0, <1>2, <1>3, HostStepKeeps DEF Surroundings

(* A host comes to a server that has nothing for anybody.                     *)
LEMMA Nobody ==
    ASSUME SInv, \A q \in Pcbs : owner[q] = NoClient
    PROVE  (\A c \in Clients : inbox[c] = <<>>) /\ ~Pending
<1>1. \A c \in Clients : inbox[c] = <<>>
  BY XvcServerAssumption DEF SInv, AnswerMatches
<1>2. ~Pending
  <2> SUFFICES ASSUME Pending PROVE FALSE
    OBVIOUS
  <2>1. earsePcb \in Pcbs
    BY DEF SInv, IInv, EarsePcbSet, Pending
  <2> QED
    BY <2>1, XvcServerAssumption DEF SInv, Awaited
<1> QED
  BY <1>1, <1>2

LEMMA HostComesKeeps ==
    ASSUME Proper, SInv, NEW c \in Clients, NEW p \in Pcbs, HostComes(c, p)
    PROVE  SInv'
<1>0. /\ \A q \in Pcbs : owner[q] = NoClient
      /\ Connect(c, p) /\ UNCHANGED <<hostVars, cmdCnt>>
      /\ owner' = [owner EXCEPT ![p] = c] /\ inbox' = [inbox EXCEPT ![c] = <<>>]
      /\ UNCHANGED <<spiVars, eraseVars, commonRsp, flowVars, mainVars>>
  BY DEF HostComes, Connect
<1>1. (\A d \in Clients : inbox[d] = <<>>) /\ ~Pending
  BY <1>0, Nobody
<1>2. \A d \in Clients : inbox'[d] = <<>>
  BY <1>0, <1>1 DEF SInv, IInv, TypeOK
<1>3. Sole'
  BY <1>0, XvcServerAssumption DEF Sole, SInv, IInv, TypeOK
<1>4. Awaited' /\ AnswerMatches'
  <2>1. ~Pending'
    BY <1>0, <1>1 DEF Pending, eraseVars, mainVars
  <2>2. UNCHANGED <<phase, ask>>
    BY <1>0 DEF hostVars
  <2> QED
    BY <1>2, <2>1, <2>2 DEF SInv, Awaited, AnswerMatches
<1> QED
  BY <1>0, <1>3, <1>4, HostStepKeeps DEF Surroundings, hostVars

LEMMA HostLeavesKeeps ==
    ASSUME Proper, SInv, NEW p \in Pcbs, HostLeaves(p)
    PROVE  SInv'
<1>0. /\ ask = "none" /\ Disconnect(p) /\ UNCHANGED <<hostVars, cmdCnt>>
      /\ owner' = [owner EXCEPT ![p] = NoClient]
      /\ UNCHANGED <<spiVars, eraseVars, commonRsp, flowVars, mainVars, inbox>>
  BY DEF HostLeaves, Disconnect
<1>1. (\A d \in Clients : inbox[d] = <<>>) /\ ~Pending
  BY <1>0, Silent DEF Pending
<1>2. Sole'
  BY <1>0 DEF Sole, SInv, IInv, TypeOK
<1>3. Awaited' /\ AnswerMatches'
  <2>1. ~Pending'
    BY <1>0, <1>1 DEF Pending, eraseVars, mainVars
  <2>2. UNCHANGED <<phase, ask>>
    BY <1>0 DEF hostVars
  <2> QED
    BY <1>0, <1>1, <2>1, <2>2 DEF SInv, Awaited, AnswerMatches
<1> QED
  BY <1>0, <1>2, <1>3, HostStepKeeps DEF Surroundings, hostVars

(* What the main loop and the chips do while an erase is awaited.             *)
LEMMA MainKeeps ==
    ASSUME Proper, SInv, Main, UNCHANGED <<hostVars, cmdCnt>>
    PROVE  SInv'
<1>1. IInv'
  <2>1. cmdCnt' \in 0 .. MaxCmds
    BY DEF SInv, IInv, TypeOK
  <2> QED
    BY <2>1, MainIInv DEF SInv
<1>2. /\ HostTypeOK' /\ Sole'
      /\ UNCHANGED <<mux, flash, flowVars, owner, earsePcb>>
      /\ UNCHANGED <<phase, target, ask, reads>>
  <2>1. /\ UNCHANGED <<mux, flash, flowVars, owner, earsePcb>>
        /\ UNCHANGED <<phase, target, ask, reads>>
    BY DEF Main, MainPoll, MainReadSR, MainClaim, MainOpen0, MainRead0, MainOpen1,
           MainRead1, MainSend, OpenTransaction, spiVars, eraseVars, hostVars
  <2> QED
    BY <2>1 DEF SInv, HostTypeOK, Sole
<1>3. Registers' /\ Reading'
  BY <1>2 DEF SInv, Registers, Reading, Needed, flowVars
<1>4. Pending /\ earsePcb \in Pcbs /\ owner[earsePcb] \in Clients
      /\ ask = "EARSE" /\ \A c \in Clients : inbox[c] = <<>>
  <2>1. Pending
    BY DEF Main, MainPoll, MainReadSR, MainClaim, MainOpen0, MainRead0, MainOpen1,
           MainRead1, MainSend, OpenTransaction, Pending
  <2> QED
    BY <2>1 DEF SInv, Awaited, IInv, EarsePcbSet, Pending
<1>5. Awaited' /\ AnswerMatches'
  <2>1. CASE MainSend
    <3>1. commonRsp.cmd = "EARSE" /\ earseFlag = 0 /\ mainPc = "send"
      BY <2>1 DEF MainSend, SInv, Erasing, Answering
    <3>2. inbox' = [c \in Clients |-> IF c = owner[earsePcb] THEN <<commonRsp>>
                                      ELSE <<>>]
      BY <1>4, <2>1, Written, XvcServerAssumption DEF MainSend, SInv
    <3>3. AnswerMatches'
      BY <1>2, <1>4, <3>1, <3>2, Matches
    <3>4. ~Pending'
      BY <2>1, <3>1 DEF MainSend, Pending
    <3> QED
      BY <1>2, <1>4, <3>3, <3>4 DEF SInv, Awaited
  <2>2. CASE ~MainSend
    <3>1. UNCHANGED inbox
      BY <2>2 DEF Main, MainPoll, MainReadSR, MainClaim, MainOpen0, MainRead0,
                  MainOpen1, MainRead1, OpenTransaction
    <3> QED
      BY <1>2, <1>4, <3>1 DEF SInv, Awaited, AnswerMatches
  <2> QED
    BY <2>1, <2>2
<1>6. Erasing'
  <2>1. /\ mux \in Chips /\ flash[mux] \in Chip /\ commonRsp \in CommonRsp
        /\ mux = target /\ (flash[mux].wip \/ flash[mux].cell = Erased)
        /\ \A c \in Chips : flash[c].wip =>
              c = mux /\ earseFlag = 1 /\ mainPc \in {"poll", "sr"}
    BY <1>4 DEF SInv, IInv, TypeOK, Erasing
  <2>2. CASE MainPoll
    BY <1>2, <2>1, <2>2 DEF SInv, Erasing, MainPoll, OpenTransaction, Pending,
                            Answering, eraseVars
  <2>3. CASE MainReadSR
    <3>1. /\ mainPc = "sr" /\ nss = "low" /\ nss' = "high"
          /\ mainPc' = IF flash[mux].wip THEN "poll" ELSE "claim"
          /\ UNCHANGED <<commonRsp, blank0, earseFlag>>
      BY <2>3 DEF MainReadSR, SInv, Erasing, eraseVars
    <3> QED
      BY <1>2, <2>1, <3>1 DEF SInv, Erasing, Pending, Answering
  <2>4. CASE MainClaim
    <3>1. /\ mainPc = "claim" /\ mainPc' = "check" /\ earseFlag' = 0
          /\ commonRsp' = [commonRsp EXCEPT !.cmd = "EARSE"]
          /\ UNCHANGED nss
      BY <2>4 DEF MainClaim, spiVars
    <3>2. commonRsp'.cmd = "EARSE"
      BY <2>1, <3>1 DEF CommonRsp
    <3> QED
      BY <1>2, <2>1, <3>1, <3>2 DEF SInv, Erasing, Pending, Answering
  <2>5. CASE MainOpen0 \/ MainOpen1
    <3>1. /\ mainPc \in {"check", "gap"}
          /\ mainPc' = IF mainPc = "check" THEN "read0" ELSE "read1"
          /\ nss' = IF mux \in Awake THEN "low" ELSE "unheard"
          /\ UNCHANGED <<commonRsp, blank0, earseFlag>>
      BY <2>5 DEF MainOpen0, MainOpen1, OpenTransaction, eraseVars
    <3>2. mux \in Awake
      BY <2>1, <3>1 DEF Awake
    <3> QED
      BY <1>2, <2>1, <3>1, <3>2 DEF SInv, Erasing, Pending, Answering
  <2>6. CASE MainRead0
    <3>1. /\ mainPc = "read0" /\ mainPc' = "gap" /\ nss = "low" /\ nss' = "high"
          /\ UNCHANGED <<commonRsp, earseFlag>>
          /\ blank0' \in {flash[mux].cell[0] = Blank}
      BY <2>6 DEF MainRead0, ReadsBlank, SInv, Erasing, eraseVars
    <3>2. blank0'
      <4>1. flash[mux].cell[0] = Blank
        BY <2>1, <3>1, SpiFlashAssumption DEF Erased, Address
      <4> QED
        BY <3>1, <4>1, Zenon
    <3> QED
      BY <1>2, <2>1, <3>1, <3>2 DEF SInv, Erasing, Pending, Answering
  <2>7. CASE MainRead1
    <3>1. /\ mainPc = "read1" /\ mainPc' = "send" /\ nss = "low" /\ nss' = "high"
          /\ UNCHANGED <<blank0, earseFlag>> /\ blank0
      BY <2>7 DEF MainRead1, SInv, Erasing, eraseVars
    <3>2. flash[mux].cell[FlashSize - 1] = Blank
      BY <2>1, <3>1, SpiFlashAssumption DEF Erased, Address
    <3>3. commonRsp' = [commonRsp EXCEPT !.opRet = 1]
      <4>1. PICK blank1 \in {flash[mux].cell[FlashSize - 1] = Blank} :
                commonRsp' = [commonRsp EXCEPT !.opRet = IF blank0 /\ blank1
                                                         THEN 1 ELSE 0]
        BY <2>7, <3>1, Zenon DEF MainRead1, ReadsBlank
      <4>2. blank1
        BY <3>2, <4>1, Zenon
      <4> QED
        BY <3>1, <4>1, <4>2, Zenon
    <3>4. commonRsp'.opRet = 1 /\ commonRsp'.cmd = commonRsp.cmd
      BY <2>1, <3>3 DEF CommonRsp
    <3> QED
      BY <1>2, <2>1, <3>1, <3>4 DEF SInv, Erasing, Pending, Answering
  <2>8. CASE MainSend
    <3>1. mainPc = "send" /\ mainPc' = "poll" /\ UNCHANGED <<nss, earseFlag>>
      BY <2>8 DEF MainSend, spiVars
    <3> QED
      BY <1>2, <2>1, <3>1 DEF SInv, Erasing, Pending, Answering
  <2> QED
    BY <2>2, <2>3, <2>4, <2>5, <2>6, <2>7, <2>8 DEF Main
<1> QED
  BY <1>1, <1>2, <1>3, <1>5, <1>6 DEF SInv

LEMMA EraseDoneKeeps ==
    ASSUME Proper, SInv, NEW c \in Chips, EraseDone(c), UNCHANGED <<hostVars, cmdCnt>>
    PROVE  SInv'
<1>1. IInv'
  <2>1. cmdCnt' \in 0 .. MaxCmds
    BY DEF SInv, IInv, TypeOK
  <2> QED
    BY <2>1, SurroundingsIInv DEF SInv, Surroundings
<1>2. /\ UNCHANGED <<mux, nss, eraseVars, commonRsp, flowVars, mainVars, owner, inbox>>
      /\ flash[c].wip /\ flash' = [flash EXCEPT ![c] = Idle(@)]
  BY DEF EraseDone
<1>3. HostTypeOK' /\ Sole' /\ Registers' /\ Reading'
  <2>1. HostTypeOK' /\ Sole'
    BY <1>2 DEF SInv, HostTypeOK, Sole, hostVars
  <2>2. Registers' /\ Reading'
    BY <1>2 DEF SInv, Registers, Reading, Needed, flowVars, hostVars
  <2> QED
    BY <2>1, <2>2
<1>4. Awaited' /\ AnswerMatches'
  BY <1>2 DEF SInv, Awaited, AnswerMatches, Pending, eraseVars, mainVars, hostVars
<1>5. Erasing'
  <2>1. c = mux
    BY <1>2 DEF SInv, Erasing
  <2>2. /\ flash'[c] = [cell |-> Erased, wip |-> FALSE]
        /\ \A d \in Chips : d # c => flash'[d] = flash[d]
    BY <1>2 DEF SInv, IInv, TypeOK, Idle
  <2>3. ~flash'[c].wip /\ flash'[c].cell = Erased
    BY <2>2
  <2> QED
    BY <1>2, <2>1, <2>2, <2>3
       DEF SInv, Erasing, Pending, Answering, eraseVars, mainVars, hostVars
<1> QED
  BY <1>1, <1>3, <1>4, <1>5 DEF SInv

LEMMA NextSInv ==
    ASSUME Proper
    PROVE  SInv /\ [SessionNext]_sessionVars => SInv'
<1> SUFFICES ASSUME SInv, [SessionNext]_sessionVars PROVE SInv'
  OBVIOUS
<1>1. CASE UNCHANGED sessionVars
  <2>1. /\ UNCHANGED <<mux, flash, nss, earseFlag, earsePcb, eraseDue, commonRsp>>
        /\ UNCHANGED <<setAddrFlag, flashWriteAddr, readTotal, flashReadAddr,
                       ackCnt, readRsp, cntInfo, mainPc, blank0, owner, inbox, cmdCnt>>
        /\ UNCHANGED <<phase, target, ask, reads>>
    BY <1>1 DEF sessionVars, hostVars, vars, spiVars, eraseVars, flowVars, mainVars
  <2>2. IInv'
    BY <2>1 DEF SInv, IInv, TypeOK, EraseAccounts, EarsePcbSet, ReadFits, Answering
  <2>3. HostTypeOK' /\ Sole' /\ Registers' /\ Reading'
    BY <2>1 DEF SInv, HostTypeOK, Sole, Registers, Reading, Needed
  <2>4. Awaited' /\ AnswerMatches' /\ Erasing'
    BY <2>1 DEF SInv, Awaited, AnswerMatches, Erasing, Pending, Answering
  <2> QED
    BY <2>2, <2>3, <2>4 DEF SInv
<1>2. CASE SessionNext
  <2>1. ASSUME ServerStep PROVE SInv'
    BY <2>1, MainKeeps, EraseDoneKeeps DEF ServerStep
  <2> QED
    BY <1>2, <2>1, AskEarseKeeps, AskWriteKeeps, AskReadKeeps, AskEndKeeps,
       HostTakesKeeps, HostComesKeeps, HostLeavesKeeps DEF SessionNext
<1> QED
  BY <1>1, <1>2

LEMMA SessionInvariance == ASSUME Proper PROVE SessionSpec => []SInv
  BY InitSInv, NextSInv, PTL DEF SessionSpec

(* Registers, buffers and queues keep their types under a host that does not  *)
(* stop sending (tcpserver.c 340-353).                                        *)
THEOREM SessionTypes ==
    ASSUME Proper
    PROVE  SessionSpec => []SessionTypeOK
<1>1. SInv => SessionTypeOK
  BY DEF SInv, IInv, SessionTypeOK
<1> QED
  BY <1>1, SessionInvariance, PTL

(* The answer a host gets is the one to the command it waits for, the one to  *)
(* an erase included, which the main loop sends (tcpserver.c 379, 407-413,    *)
(* main.c 103-115).                                                           *)
THEOREM AnswersMatch ==
    ASSUME Proper
    PROVE  SessionSpec => []AnswerMatches
<1>1. SInv => AnswerMatches
  BY DEF SInv
<1> QED
  BY <1>1, SessionInvariance, PTL

(* Between flows no register, flag or busy chip is left of the last one       *)
(* (tcpserver.c 385-449).                                                     *)
THEOREM NothingLeftOver ==
    ASSUME Proper
    PROVE  SessionSpec => []IdleIsClean
<1>1. SInv => IdleIsClean
  BY DEF SInv, IInv, TypeOK, IdleIsClean, Registers, Awaited, Pending, Erasing
<1> QED
  BY <1>1, SessionInvariance, PTL

(* A flow stays on the chip its first command named (tcpserver.c 385-391).    *)
THEOREM FlowsKeepTheirChip ==
    ASSUME Proper
    PROVE  SessionSpec => []FlowKeepsChip
<1>1. SInv => FlowKeepsChip
  BY DEF SInv, FlowKeepsChip, Registers
<1> QED
  BY <1>1, SessionInvariance, PTL

-----------------------------------------------------------------------------
(* The server implements the store.                                           *)

(* The answer on the line, with at most one host.                             *)
LEMMA ReplyEmpty == (\A c \in Clients : inbox[c] = <<>>) => Reply = <<>>
  BY DEF Reply

LEMMA ReplyOf ==
    ASSUME NEW c \in Clients, NEW answer,
           inbox = [d \in Clients |-> IF d = c THEN <<answer>> ELSE <<>>]
    PROVE  Reply = <<answer>>
<1>1. <<answer>> # <<>>
  OBVIOUS
<1>2. {d \in Clients : inbox[d] # <<>>} = {c}
  BY <1>1
<1>3. (CHOOSE d \in {c} : TRUE) = c
  OBVIOUS
<1> QED
  BY <1>2, <1>3 DEF Reply

LEMMA ReplyNext ==
    ASSUME NEW c \in Clients, NEW answer,
           inbox' = [d \in Clients |-> IF d = c THEN <<answer>> ELSE <<>>]
    PROVE  Reply' = <<answer>>
<1>1. <<answer>> # <<>>
  OBVIOUS
<1>2. {d \in Clients : inbox'[d] # <<>>} = {c}
  BY <1>1
<1>3. (CHOOSE d \in {c} : TRUE) = c
  OBVIOUS
<1> QED
  BY <1>2, <1>3 DEF Reply

LEMMA ReplySome == (\E c \in Clients : inbox[c] # <<>>) => Reply # <<>>
  BY DEF Reply

(* The mapping of Store.                                                      *)
Disk == [c \in Chips |-> flash[c].cell]
At == IF phase = "write" THEN flashWriteAddr
      ELSE IF phase = "read" THEN cntInfo - readTotal ELSE 0

LEMMA InitStore == SessionInit => Store!Init
<1> SUFFICES ASSUME SessionInit PROVE Store!Init
  OBVIOUS
<1>1. Disk = [c \in Chips |-> Store!Erased]
  BY DEF SessionInit, Init, Disk, Erased, Address, Store!Erased, Store!Address
<1>2. Reply = <<>>
  BY ReplyEmpty DEF SessionInit, Init
<1> QED
  BY <1>1, <1>2 DEF SessionInit, Init, CntErased, Disk, Store!Init

(* What changes neither chips, registers nor answers is no step of the store. *)
LEMMA Stutter ==
    ASSUME UNCHANGED <<inbox, hostVars, flowVars>>, UNCHANGED Disk
    PROVE  UNCHANGED Store!vars
<1>1. UNCHANGED Reply
  BY DEF Reply
<1> QED
  BY <1>1 DEF hostVars, flowVars, Disk, Store!vars

LEMMA AskEarseRefines ==
    ASSUME Proper, SInv, NEW p \in Pcbs, NEW cs \in Chips, AskEarse(p, cs)
    PROVE  Store!Erase(cs)
<1>0. /\ ask = "none" /\ phase = "idle" /\ ask' = "EARSE" /\ target' = cs
      /\ phase' = "idle" /\ EarseCmd(p, cs)
  BY DEF AskEarse
<1>1. UNCHANGED Reply /\ UNCHANGED cntInfo
  BY <1>0 DEF EarseCmd, Reply, flowVars
<1>2. UNCHANGED Disk
  <2>1. PICK lost \in Lost : flash' = [flash EXCEPT ![mux'] = Flash_EraseChip(@, lost)]
    BY <1>0 DEF EarseCmd
  <2>2. lost = FALSE /\ \A c \in Chips : ~flash[c].wip
    BY <1>0, <2>1, Silent
  <2>3. mux' \in Chips /\ flash \in [Chips -> Chip] /\ flash[mux'] \in Chip
    BY <1>0, MuxType DEF EarseCmd, SInv, IInv, TypeOK
  <2>4. flash' = [flash EXCEPT ![mux'] = [flash[mux'] EXCEPT !.wip = TRUE]]
    BY <2>1, <2>2, <2>3 DEF Flash_EraseChip
  <2>5. \A c \in Chips : flash'[c].cell = flash[c].cell
    BY <2>3, <2>4 DEF Chip
  <2> QED
    BY <2>5 DEF Disk
<1> QED
  BY <1>0, <1>1, <1>2 DEF Store!Erase, Disk

LEMMA SameProgrammed ==
    ASSUME NEW cell, NEW a, NEW data
    PROVE  Store!Programmed(cell, a, data, 0) = Programmed(cell, a, data, 0)
  BY DEF Store!Programmed, Programmed, Store!Address, Address, Store!Burn, Burn

LEMMA AskWriteRefines ==
    ASSUME Proper, SInv, NEW p \in Pcbs, NEW cs \in Chips, NEW data \in Payloads,
           AskWrite(p, cs, data)
    PROVE  Store!Write(cs, data)
<1>0. /\ ask = "none" /\ phase \in {"idle", "write"} /\ Chosen(cs)
      /\ ask' = "WRITE" /\ phase' = "write" /\ target' = cs
      /\ flashWriteAddr + Len(data) <= MaxImage
      /\ WriteDataCmd(p, cs, data)
  BY DEF AskWrite
<1>1. mux' = cs /\ UNCHANGED cntInfo
  BY <1>0 DEF WriteDataCmd, FlowChip, FlashChoice, Chosen, SInv, Registers
<1>2. Reply' = <<[cmd |-> "WRITE", opRet |-> 1]>>
  <2>1. /\ owner[p] \in Clients
        /\ inbox' = [c \in Clients |-> IF c = owner[p]
                                       THEN <<[cmd |-> "WRITE", opRet |-> 1]>> ELSE <<>>]
    BY <1>0, Written, Silent DEF SInv, WriteDataCmd
  <2> QED
    BY <2>1, ReplyNext
<1>3. At = flashWriteAddr
  BY <1>0 DEF SInv, Registers, At
<1>4. flashWriteAddr' = flashWriteAddr + Len(data)
  <2>1. flashWriteAddr \in Nat /\ Len(data) \in Nat
    BY XvcServerAssumption DEF SInv, IInv, TypeOK, NatWord
  <2>2. PICK a \in 0 .. Word - 1 : a = flashWriteAddr + Len(data)
    BY <1>0, <2>1, XvcServerAssumption, XvcSessionAssumption
  <2>3. a % Word = a
    BY <2>2, XvcServerAssumption
  <2> QED
    BY <1>0, <2>2, <2>3 DEF WriteDataCmd
<1>5. Disk' = [Disk EXCEPT ![cs] = Store!Programmed(@, At, data, 0)]
  <2>1. PICK lost \in Lost :
            flash' = [flash EXCEPT ![mux'] =
                        Flash_WriteNoCheck(@, flashWriteAddr, data, lost)]
    BY <1>0 DEF WriteDataCmd
  <2>2. lost = FALSE /\ ~flash[cs].wip
    BY <1>0, <2>1, Silent
  <2>3. flash \in [Chips -> Chip]
    BY DEF SInv, IInv, TypeOK
  <2>4. Flash_WriteNoCheck(flash[cs], flashWriteAddr, data, lost).cell
            = Programmed(flash[cs].cell, flashWriteAddr, data, 0)
    BY <2>2 DEF Flash_WriteNoCheck, Idle
  <2> HIDE DEF Flash_WriteNoCheck
  <2>5. \A c \in Chips :
            flash'[c].cell = IF c = cs THEN Programmed(flash[cs].cell, flashWriteAddr, data, 0)
                             ELSE flash[c].cell
    BY <1>1, <2>1, <2>3, <2>4
  <2> QED
    BY <1>3, <2>5, SameProgrammed DEF Disk
<1> QED
  BY <1>0, <1>1, <1>2, <1>3, <1>4, <1>5 DEF Store!Write, Store!Begins, Chosen, Disk, At

LEMMA AskEndRefines ==
    ASSUME Proper, SInv, NEW p \in Pcbs, AskEnd(p)
    PROVE  Store!End
<1>0. /\ ask = "none" /\ phase = "write" /\ ask' = "END" /\ phase' = "idle"
      /\ UNCHANGED target /\ WriteEndCmd(p, target)
  BY DEF AskEnd
<1>1. cntInfo' = flashWriteAddr /\ UNCHANGED flash
  BY <1>0 DEF WriteEndCmd, EndFlow
<1>2. Reply' = <<[cmd |-> "WRITE", opRet |-> 1]>>
  <2>1. /\ owner[p] \in Clients
        /\ inbox' = [c \in Clients |-> IF c = owner[p]
                                       THEN <<[cmd |-> "WRITE", opRet |-> 1]>> ELSE <<>>]
    BY <1>0, Written, Silent DEF SInv, WriteEndCmd
  <2> QED
    BY <2>1, ReplyNext
<1> QED
  BY <1>0, <1>1, <1>2 DEF Store!End

LEMMA AskReadRefines ==
    ASSUME Proper, SInv, NEW p \in Pcbs, NEW cs \in Chips, AskRead(p, cs)
    PROVE  Store!Read(cs)
<1> DEFINE n == PacketLen(Total)
           packet == [k \in 1 .. n |-> Disk[cs][(At + k - 1) % FlashSize]]
<1>0. /\ ask = "none" /\ phase \in {"idle", "read"} /\ Chosen(cs) /\ ask' = "READ"
      /\ phase' = (IF readRsp' = <<>> THEN "idle" ELSE "read")
      /\ target' = cs /\ ReadCmd(p, cs, reads + 1)
  BY DEF AskRead
<1>1. /\ n \in Nat /\ n <= Total /\ (n = 0 <=> Total = 0)
      /\ readRsp' = Flash_ReadSomeByte(flash[cs], flashReadAddr, n, FALSE)
      /\ readRsp' = <<>> <=> Total = 0
      /\ readTotal' = Total - n
      /\ TcpWrite(p, [cmd |-> "READ", dat |-> readRsp'])
  BY ReadStep
<1>2. /\ Total \in Nat /\ cntInfo \in Nat
      /\ Total # 0 => flashReadAddr = cntInfo - Total
      /\ flashReadAddr \in Nat
  BY <1>0, Due, XvcServerAssumption DEF NatWord
<1>3. At = cntInfo - Total /\ At \in Int /\ cntInfo - At = Total
  <2>1. CASE phase = "idle"
    BY <1>2, <2>1 DEF At, Total, SInv, Registers
  <2>2. CASE phase = "read"
    BY <1>2, <2>2 DEF At, Total, SInv, Registers
  <2> QED
    BY <1>0, <2>1, <2>2
<1>4. owner[p] # NoClient /\ UNCHANGED <<flash, cntInfo, owner>>
  BY <1>0 DEF ReadCmd
<1>5. Reply' = <<[cmd |-> "READ", dat |-> readRsp']>>
  <2>1. /\ owner[p] \in Clients
        /\ inbox' = [c \in Clients |-> IF c = owner[p]
                                       THEN <<[cmd |-> "READ", dat |-> readRsp']>>
                                       ELSE <<>>]
    BY <1>0, <1>1, <1>4, Written, Silent DEF SInv
  <2> QED
    BY <2>1, ReplyNext
<1>6. readRsp' = packet
  <2>1. ~flash[cs].wip
    BY <1>0, Silent
  <2>2. Disk[cs] = flash[cs].cell
    BY DEF Disk
  <2> HIDE DEF n
  <2>3. readRsp' = [k \in 1 .. n |-> flash[cs].cell[(flashReadAddr + k - 1) % FlashSize]]
    BY <1>1, <2>1 DEF Flash_ReadSomeByte
  <2>4. CASE Total = 0
    <3>1. 1 .. n = {}
      BY <1>1, <2>4
    <3> QED
      BY <2>3, <3>1
  <2>5. CASE Total # 0
    BY <1>2, <1>3, <2>2, <2>3, <2>5
  <2> QED
    BY <2>4, <2>5
<1>7. n = IF cntInfo - At > DatMax THEN DatMax ELSE cntInfo - At
  BY <1>3 DEF PacketLen, Full
<1>8. At' = IF n = 0 THEN 0 ELSE At + n
  <2>1. CASE Total = 0
    BY <1>0, <1>1, <2>1 DEF At
  <2>2. CASE Total # 0
    <3>1. phase' = "read" /\ At' = cntInfo - (Total - n)
      BY <1>0, <1>1, <1>4, <2>2 DEF At
    <3> QED
      BY <1>1, <1>2, <1>3, <2>2, <3>1
  <2> QED
    BY <2>1, <2>2
<1>9. phase' = IF n = 0 THEN "idle" ELSE "read"
  BY <1>0, <1>1
<1>10. /\ UNCHANGED Disk /\ UNCHANGED cntInfo
       /\ Reply' = <<[cmd |-> "READ", dat |-> packet]>>
  BY <1>4, <1>5, <1>6 DEF Disk
<1> HIDE DEF n
<1> QED
  BY <1>0, <1>7, <1>8, <1>9, <1>10 DEF Store!Read, Store!Begins, Chosen, Disk, At

LEMMA HostTakesRefines ==
    ASSUME Proper, SInv, NEW c \in Clients, HostTakes(c)
    PROVE  Store!Take
<1>1. Reply # <<>>
  BY ReplySome DEF HostTakes, TakeAnswer
<1>2. Reply' = <<>>
  <2>1. SInv' /\ ask' = "none"
    BY HostTakesKeeps DEF HostTakes
  <2>2. \A d \in Clients : inbox'[d] = <<>>
    BY <2>1 DEF SInv, Awaited
  <2> QED
    BY <2>2 DEF Reply
<1> QED
  BY <1>1, <1>2 DEF HostTakes, TakeAnswer, flowVars, spiVars, Disk, Store!Take

LEMMA HostComesRefines ==
    ASSUME Proper, SInv, NEW c \in Clients, NEW p \in Pcbs, HostComes(c, p)
    PROVE  UNCHANGED Store!vars
<1>1. inbox[c] = <<>>
  BY Nobody DEF HostComes
<1>2. inbox' = inbox
  BY <1>1 DEF HostComes, Connect, SInv, IInv, TypeOK
<1> QED
  BY <1>2, Stutter DEF HostComes, Connect, spiVars, Disk

LEMMA MainRefines ==
    ASSUME Proper, SInv, Main, UNCHANGED <<hostVars, cmdCnt>>
    PROVE  Store!EraseReply \/ UNCHANGED Store!vars
<1>1. UNCHANGED <<flash, flowVars>>
  BY DEF Main, MainPoll, MainReadSR, MainClaim, MainOpen0, MainRead0, MainOpen1,
         MainRead1, MainSend, OpenTransaction, spiVars
<1>2. CASE MainSend
  <2>1. mainPc = "send" /\ TcpWrite(earsePcb, commonRsp)
    BY <1>2 DEF MainSend
  <2>2. /\ commonRsp.cmd = "EARSE" /\ commonRsp.opRet = 1 /\ commonRsp \in CommonRsp
        /\ mux = target /\ ask = "EARSE"
        /\ flash[mux].cell = Erased /\ mux \in Chips
        /\ earsePcb \in Pcbs /\ owner[earsePcb] \in Clients
        /\ \A c \in Clients : inbox[c] = <<>>
    BY <2>1 DEF SInv, IInv, TypeOK, EarsePcbSet, Erasing, Awaited, Pending, Answering
  <2>3. commonRsp = [cmd |-> "EARSE", opRet |-> 1]
    BY <2>2 DEF CommonRsp
  <2>4. inbox' = [c \in Clients |-> IF c = owner[earsePcb] THEN <<commonRsp>> ELSE <<>>]
    BY <2>1, <2>2, Written, XvcServerAssumption DEF SInv
  <2>5. Reply = <<>> /\ Reply' = <<[cmd |-> "EARSE", opRet |-> 1]>>
    BY <2>2, <2>3, <2>4, ReplyEmpty, ReplyNext
  <2>6. Disk[target] = Store!Erased /\ UNCHANGED Disk
    BY <1>1, <2>2 DEF Disk, Erased, Address, Store!Erased, Store!Address
  <2> QED
    BY <1>1, <2>2, <2>5, <2>6 DEF Store!EraseReply, Disk, At, hostVars, flowVars
<1>3. CASE ~MainSend
  <2>1. UNCHANGED inbox
    BY <1>3 DEF Main, MainPoll, MainReadSR, MainClaim, MainOpen0, MainRead0,
                MainOpen1, MainRead1, OpenTransaction
  <2> QED
    BY <1>1, <2>1, Stutter DEF Disk
<1> QED
  BY <1>2, <1>3

LEMMA EraseDoneRefines ==
    ASSUME Proper, SInv, NEW c \in Chips, EraseDone(c), UNCHANGED <<hostVars, cmdCnt>>
    PROVE  Store!Wipe
<1>1. /\ flash[c].wip /\ flash' = [flash EXCEPT ![c] = Idle(@)]
      /\ UNCHANGED <<flowVars, inbox>>
  BY DEF EraseDone
<1>2. c = mux /\ Pending
  BY <1>1 DEF SInv, Erasing, Pending
<1>3. mux = target /\ ask = "EARSE" /\ \A d \in Clients : inbox[d] = <<>>
  BY <1>2 DEF SInv, Erasing, Awaited
<1>4. Reply = <<>> /\ UNCHANGED Reply
  BY <1>1, <1>3, ReplyEmpty DEF Reply
<1>5. Disk' = [Disk EXCEPT ![target] = Store!Erased]
  <2>1. \A d \in Chips : flash'[d].cell = IF d = c THEN Erased ELSE flash[d].cell
    BY <1>1 DEF SInv, IInv, TypeOK, Idle
  <2>2. Erased = Store!Erased
    BY DEF Erased, Address, Store!Erased, Store!Address
  <2> HIDE DEF Disk
  <2> QED
    BY <1>2, <1>3, <2>1, <2>2 DEF Disk
<1> QED
  BY <1>1, <1>3, <1>4, <1>5 DEF Store!Wipe, Disk, At, hostVars, flowVars

LEMMA NextRefines ==
    ASSUME Proper
    PROVE  SInv /\ [SessionNext]_sessionVars => [Store!Next]_Store!vars
<1> SUFFICES ASSUME SInv, [SessionNext]_sessionVars
             PROVE  Store!Next \/ UNCHANGED Store!vars
  OBVIOUS
<1>1. CASE UNCHANGED sessionVars
  BY <1>1, Stutter DEF sessionVars, vars, flowVars, spiVars, Disk
<1>2. ASSUME NEW p \in Pcbs, NEW cs \in Chips, AskEarse(p, cs) \/ AskRead(p, cs)
      PROVE  Store!Next
  BY <1>2, AskEarseRefines, AskReadRefines, Zenon DEF Store!Next
<1>3. ASSUME NEW p \in Pcbs, NEW cs \in Chips, NEW data \in Payloads,
             AskWrite(p, cs, data)
      PROVE  Store!Next
  BY <1>3, AskWriteRefines, Zenon DEF Store!Next
<1>4. ASSUME NEW p \in Pcbs, AskEnd(p)
      PROVE  Store!Next
  BY <1>4, AskEndRefines, Zenon DEF Store!Next
<1>5. ASSUME NEW c \in Clients, HostTakes(c)
      PROVE  Store!Next
  BY <1>5, HostTakesRefines, Zenon DEF Store!Next
<1>6. ASSUME NEW p \in Pcbs, HostLeaves(p)
      PROVE  UNCHANGED Store!vars
  BY <1>6, Stutter DEF HostLeaves, Disconnect, spiVars, Disk
<1>7. ASSUME ServerStep
      PROVE  Store!Next \/ UNCHANGED Store!vars
  BY <1>7, MainRefines, EraseDoneRefines, Zenon DEF ServerStep, Store!Next
<1> QED
  BY <1>1, <1>2, <1>3, <1>4, <1>5, <1>6, <1>7, HostComesRefines DEF SessionNext

(* Every step of server and host is one of the store's, or none: erases are   *)
(* confirmed when all of the chip is blank, pieces land one after the other,  *)
(* READs return the image in order (tcpserver.c 373-456, main.c 103-115).     *)
THEOREM StoreSteps ==
    ASSUME Proper
    PROVE  SessionSpec => Store!Init /\ [][Store!Next]_Store!vars
  BY InitStore, SessionInvariance, NextRefines, PTL DEF SessionSpec
=============================================================================
