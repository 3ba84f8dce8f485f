------------------------------ MODULE NetParams ------------------------------
(* The two things the programmer keeps in the microcontroller's own flash:    *)
(* the network parameters (flash.c writeIpInfo/readIpInfo, set by PARA_SET,   *)
(* read at boot by syncIpInfo) and the length of the stored image (flash.c    *)
(* writeCntInfo, at the end of a WRITE flow).  Each store erases a page and   *)
(* programs it word by word; any of these may time out, and the power may go  *)
(* at any of them.                                                            *)
(*                                                                            *)
(* A word stands for the sum of its bytes, which is all the checksum sees.    *)
(* The validity words of ip, mac and port are left out: they are valid in     *)
(* every record the program can write, because the mirror in RAM starts as    *)
(* the defaults, valid, or as such a record (setDefaultIpInfo, syncIpInfo).   *)
EXTENDS Integers

CONSTANTS Values,       \* what an ip, mac or port word may be set to
          IP_INFO_HEAD, IP_INFO_TAIL,
          Ones,         \* byte sum of an erased word, the largest there is
          ErasedSum,    \* the checksum word of an erased page, as a number
          Default,      \* defaultNetCfgInfo
          Requests,     \* what PARA_SET is sent
          Counts        \* lengths an image may have

Fields == {"ip", "mac", "port"}
Config == [Fields -> Values]

ASSUME NetParamsAssumption ==
    /\ Values \subseteq Nat
    /\ Ones \in Nat
    /\ \A v \in Values : v <= Ones
    /\ IP_INFO_HEAD \in 0 .. Ones - 1 /\ IP_INFO_TAIL \in 0 .. Ones - 1
    /\ ErasedSum \in Nat /\ ErasedSum > 5 * Ones
    /\ Default \in Config
    /\ Requests \subseteq Config
    /\ Counts \subseteq Nat
    /\ ErasedSum \notin Counts

VARIABLES
    ipPage,         \* the page at IP_INFO_FLASH_ADDR, words in their order
    cntPage,        \* the word at READ_CNT_FLASH_ADDR
    on,             \* the power
    ipInfoFlash,    \* RAM: the mirror of the record
    netCfgInfo,     \* RAM: the parameters this boot runs with
    op, what,       \* the driver's operation under way, and what it stores
    next,           \* the word it programs next
    req, count,     \* what is being set, and stored
    setRet, endRet, \* the answer to the last PARA_SET, and to the last end of
                    \* a WRITE flow
    stored          \* history: the last record programmed to its end

flash == <<ipPage, cntPage>>
ram == <<ipInfoFlash, netCfgInfo, req, count>>
vars == <<flash, on, ram, op, what, next, setRet, endRet, stored>>

(* checkSumFun over the record without its last word.                         *)
CheckSum(w) == w[1] + w[2] + w[3] + w[4] + w[5]

(* The record writeIpInfo makes of the mirror.                                *)
Record(cfg) ==
    LET w == <<IP_INFO_HEAD, cfg["ip"], cfg["mac"], cfg["port"], IP_INFO_TAIL>>
    IN  [i \in 1 .. 6 |-> IF i = 6 THEN CheckSum(w) ELSE w[i]]

(* readIpInfo accepts the page, and what it then copies.                      *)
Accepted_NoSum(w) == w[1] = IP_INFO_HEAD /\ w[5] = IP_INFO_TAIL
Accepted(w) ==
    /\ w[6] = CheckSum(w)
    /\ w[1] = IP_INFO_HEAD
    /\ w[5] = IP_INFO_TAIL

FieldsOf(w) == [f \in Fields |-> IF f = "ip" THEN w[2]
                                 ELSE IF f = "mac" THEN w[3] ELSE w[4]]

ErasedWord(i) == IF i = 6 THEN ErasedSum ELSE Ones
ErasedPage == [i \in 1 .. 6 |-> ErasedWord(i)]

TypeOK ==
    /\ ipPage \in [1 .. 6 -> Nat]
    /\ cntPage \in Nat
    /\ on \in BOOLEAN
    /\ ipInfoFlash \in Config /\ netCfgInfo \in [Fields -> Nat]
    /\ op \in {"idle", "erase", "program"}
    /\ what \in Fields \cup {"cnt"}
    /\ next \in 1 .. 7
    /\ req \in Config
    /\ count \in Counts
    /\ setRet \in {"none", "ok", "fail"}
    /\ endRet \in {"none", "ok"}
    /\ stored \in Config

(* A new board: nothing stored, switched off.                                 *)
Init ==
    /\ ipPage = ErasedPage
    /\ cntPage = ErasedSum
    /\ on = FALSE
    /\ ipInfoFlash = Default /\ netCfgInfo = Default
    /\ op = "idle" /\ what = "ip"
    /\ next = 1
    /\ req = Default
    /\ count \in Counts
    /\ setRet = "none" /\ endRet = "none"
    /\ stored = Default

-----------------------------------------------------------------------------
(* syncIpInfo, before anything else runs: the record if readIpInfo accepts    *)
(* it, else the mirror is set to the defaults netCfgInfo was compiled with.   *)
Boot_NoMirror ==
    LET cfg == IF Accepted(ipPage) THEN FieldsOf(ipPage) ELSE Default
    IN  /\ ~on
        /\ on' = TRUE
        /\ netCfgInfo' = cfg
        /\ UNCHANGED <<flash, ipInfoFlash, op, what, next, req, count, setRet,
                       endRet, stored>>
Boot ==
    LET cfg == IF Accepted(ipPage) THEN FieldsOf(ipPage) ELSE Default
    IN  /\ ~on
        /\ on' = TRUE
        /\ ipInfoFlash' = cfg
        /\ netCfgInfo' = cfg
        /\ UNCHANGED <<flash, op, what, next, req, count, setRet, endRet, stored>>

(* ipaddrSet, macaddrSet or portSet up to the erase of writeIpInfo.           *)
SetField_CopyPaste(f, cfg) ==
    ipInfoFlash' = [ipInfoFlash EXCEPT ![f] = cfg["ip"]] /\ op' = "erase" /\ what' = f
SetField(f, cfg) ==
    /\ ipInfoFlash' = [ipInfoFlash EXCEPT ![f] = cfg[f]]
    /\ op' = "erase"
    /\ what' = f

(* case ICD_CMD_PARA_SET.                                                     *)
ParaSet(cfg) ==
    /\ on /\ op = "idle"
    /\ req' = cfg
    /\ SetField("ip", cfg)
    /\ setRet' = "none"
    /\ UNCHANGED <<flash, on, netCfgInfo, next, count, endRet, stored>>

(* The WRITE without data (tcpserver.c 399-404) up to the erase.              *)
WriteEnd(n) ==
    /\ on /\ op = "idle"
    /\ count' = n
    /\ op' = "erase" /\ what' = "cnt"
    /\ endRet' = "none"
    /\ UNCHANGED <<flash, on, ipInfoFlash, netCfgInfo, next, req, setRet, stored>>

(* fmcEraseBlk1Pages.                                                         *)
Erase ==
    /\ on /\ op = "erase"
    /\ ipPage' = IF what = "cnt" THEN ipPage ELSE ErasedPage
    /\ cntPage' = IF what = "cnt" THEN ErasedSum ELSE cntPage
    /\ op' = "program" /\ next' = 1
    /\ UNCHANGED <<on, ram, what, setRet, endRet, stored>>

(* FLASH_ProgramWord: the next word of the record, and the length.            *)
ProgramsWord ==
    /\ op = "program" /\ what # "cnt" /\ next <= 6
    /\ ipPage' = [ipPage EXCEPT ![next] = Record(ipInfoFlash)[next]]
    /\ stored' = IF next = 6 THEN ipInfoFlash ELSE stored
    /\ UNCHANGED cntPage

ProgramsCnt ==
    /\ op = "program" /\ what = "cnt"
    /\ cntPage' = count
    /\ UNCHANGED <<ipPage, stored>>

(* One turn of fmcProgramBlk1Pages for the record.                            *)
ProgramWord ==
    /\ on /\ ProgramsWord
    /\ next' = next + 1
    /\ UNCHANGED <<on, ram, op, what, setRet, endRet>>

(* writeIpInfo returns FLASH_OK: on to the next field, or the answer.         *)
FieldStored ==
    /\ on /\ op = "program" /\ what # "cnt" /\ next = 7
    /\ \/ what = "ip" /\ SetField("mac", req) /\ UNCHANGED setRet
       \/ what = "mac" /\ SetField("port", req) /\ UNCHANGED setRet
       \/ what = "port" /\ op' = "idle" /\ setRet' = "ok"
          /\ UNCHANGED <<ipInfoFlash, what>>
    /\ UNCHANGED <<flash, on, netCfgInfo, next, req, count, endRet, stored>>

(* The one word of writeCntInfo, and the answer.                              *)
ProgramCnt ==
    /\ on /\ ProgramsCnt
    /\ op' = "idle"
    /\ endRet' = "ok"
    /\ UNCHANGED <<on, ram, what, next, setRet>>

(* What an erase that did not come to its end may leave: each word as it was  *)
(* or erased.                                                                 *)
CutErase ==
    \/ /\ op = "erase" /\ what # "cnt"
       /\ \E gone \in SUBSET (1 .. 6) :
             ipPage' = [i \in 1 .. 6 |->
                          IF i \in gone THEN ErasedWord(i) ELSE ipPage[i]]
       /\ UNCHANGED cntPage
    \/ /\ op = "erase" /\ what = "cnt"
       /\ cntPage' \in {cntPage, ErasedSum}
       /\ UNCHANGED ipPage

(* A time-out of the driver: in the erase, or waiting for a word, which may   *)
(* have been programmed or not.  PARA_SET fails, its field stays in the       *)
(* mirror, and a failed last word may have completed the record all the same; *)
(* XVC_Interface does not look at what writeCntInfo returned: success.        *)
TimeOut ==
    /\ on /\ op # "idle"
    /\ \/ CutErase /\ UNCHANGED stored
       \/ ProgramsWord
       \/ ProgramsCnt
       \/ /\ op = "program" /\ (what # "cnt" => next <= 6)
          /\ UNCHANGED <<flash, stored>>
    /\ op' = "idle"
    /\ setRet' = IF what = "cnt" THEN setRet ELSE "fail"
    /\ endRet' = IF what = "cnt" THEN "ok" ELSE endRet
    /\ UNCHANGED <<on, ram, what, next>>

(* The power goes.  A word cut while it is programmed keeps one of its halves *)
(* erased: the checksum word is then as good as erased, being larger than any *)
(* sum, and the other words do not matter before that one is there.  The RAM  *)
(* is lost; what it holds until the next boot sets it is of no account.       *)
PowerLoss ==
    /\ on
    /\ on' = FALSE
    /\ CutErase \/ (op # "erase" /\ UNCHANGED flash)
    /\ ipInfoFlash' = Default /\ netCfgInfo' = Default /\ req' = Default
    /\ op' = "idle" /\ what' = "ip" /\ next' = 1
    /\ setRet' = "none" /\ endRet' = "none"
    /\ UNCHANGED <<count, stored>>

Handler == Erase \/ ProgramWord \/ FieldStored \/ ProgramCnt

Next ==
    \/ Boot
    \/ \E cfg \in Requests : ParaSet(cfg)
    \/ \E n \in Counts : WriteEnd(n)
    \/ Handler
    \/ TimeOut
    \/ PowerLoss

(* The handler runs on while there is power.                                  *)
Spec == Init /\ [][Next]_vars /\ WF_vars(Handler)

-----------------------------------------------------------------------------
(* Whatever a time-out or a power cut left in the page, readIpInfo accepts    *)
(* nothing but the last record that was programmed to its end: a half-erased  *)
(* or half-written one never passes (flash.c 187-246).                        *)
OnlyStoredAccepted == Accepted(ipPage) => ipPage = Record(stored)

(* PARA_SET answers with success only when the flash holds all three fields   *)
(* as they were sent, whatever failed before (tcpserver.c 468-485, 594-638).  *)
SetIsStored == on /\ setRet = "ok" => ipPage = Record(req)

(* A boot runs with the defaults or with the last record stored, in the       *)
(* mirror, which the next PARA_SET writes back field by field, as in          *)
(* netCfgInfo (stm32f107.c 510-551).                                          *)
BootsStored ==
    [][~on /\ on' => /\ netCfgInfo' \in {Default, stored}
                     /\ ipInfoFlash' = netCfgInfo']_vars

(* The fields reach the flash in the order ip, mac, port: a set that is cut   *)
(* short never leaves a later field without the earlier ones (tcpserver.c     *)
(* 473-481).                                                                  *)
InOrder ==
    on /\ op # "idle" =>
        /\ what \in {"mac", "port"} => stored["ip"] = req["ip"]
        /\ what = "port" => stored["mac"] = req["mac"]

(* "opRet: 1 is success, anything else failure" (tcpserver.h 66) does not     *)
(* hold of the WRITE that ends a flow: the length it answers for may not be   *)
(* in the flash (tcpserver.c 401-402).                                        *)
EndIsStored == on /\ endRet = "ok" => cntPage = count
=============================================================================
