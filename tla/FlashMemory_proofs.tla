------------------------- MODULE FlashMemory_proofs --------------------------
(* The two kinds of flash.  The parameter store in the controller: what       *)
(* survives time-outs and power cuts, for any values, defaults and requests.  *)
(* The SPI chips: what they make of the bits of the main loop and of an       *)
(* interrupt, for any chips, sizes, data and addresses.                       *)
EXTENDS NetParams, SpiBus, SequenceTheorems, WellFoundedInduction, TLAPS

(* The parameter store.                                                       *)
Page6 == [1 .. 6 -> Nat]

(* A record, word by word.                                                    *)
LEMMA RecordWords ==
    ASSUME NEW cfg \in Config
    PROVE  /\ Record(cfg) \in Page6
           /\ Record(cfg)[1] = IP_INFO_HEAD
           /\ Record(cfg)[2] = cfg["ip"]
           /\ Record(cfg)[3] = cfg["mac"]
           /\ Record(cfg)[4] = cfg["port"]
           /\ Record(cfg)[5] = IP_INFO_TAIL
           /\ Record(cfg)[6] = IP_INFO_HEAD + cfg["ip"] + cfg["mac"]
                               + cfg["port"] + IP_INFO_TAIL
<1> DEFINE w == <<IP_INFO_HEAD, cfg["ip"], cfg["mac"], cfg["port"],
                  IP_INFO_TAIL>>
<1>1. IP_INFO_HEAD \in Nat /\ IP_INFO_TAIL \in Nat
  BY NetParamsAssumption
<1>2. cfg["ip"] \in Nat /\ cfg["mac"] \in Nat /\ cfg["port"] \in Nat
  <2>1. Values \subseteq Nat
    BY NetParamsAssumption
  <2> QED
    BY <2>1 DEF Config, Fields
<1>3. /\ w[1] = IP_INFO_HEAD /\ w[2] = cfg["ip"] /\ w[3] = cfg["mac"]
      /\ w[4] = cfg["port"] /\ w[5] = IP_INFO_TAIL
  OBVIOUS
<1>4. Record(cfg) = [i \in 1 .. 6 |-> IF i = 6 THEN CheckSum(w) ELSE w[i]]
  BY DEF Record
<1>5. CheckSum(w) = IP_INFO_HEAD + cfg["ip"] + cfg["mac"] + cfg["port"]
                    + IP_INFO_TAIL
  BY <1>3 DEF CheckSum
<1> HIDE DEF w
<1>6. \A i \in 1 .. 5 : w[i] \in Nat
  BY <1>1, <1>2, <1>3
<1>7. CheckSum(w) \in Nat
  BY <1>1, <1>2, <1>5
<1>8. Record(cfg) \in Page6
  BY <1>4, <1>6, <1>7 DEF Page6
<1> QED
  BY <1>3, <1>4, <1>5, <1>8

LEMMA FieldsOfRecord ==
    ASSUME NEW cfg \in Config
    PROVE  FieldsOf(Record(cfg)) = cfg
  BY RecordWords DEF FieldsOf, Config, Fields

(* No word of a page exceeds that of an erased page.  Its checksum is erased, *)
(* or is that of the last record stored; the other words are then that        *)
(* record's or, having been erased, larger.                                   *)
Bounded == \A i \in 1 .. 5 : ipPage[i] <= Ones
SumErased == ipPage[6] = ErasedSum
StoredOrErased ==
    /\ ipPage[6] = Record(stored)[6]
    /\ \A i \in 1 .. 5 : ipPage[i] >= Record(stored)[i]
PageState == Bounded /\ (SumErased \/ StoredOrErased)

(* The words programmed so far are those of the mirror.                       *)
Programming ==
    op = "program" /\ what # "cnt" =>
        /\ \A i \in 1 .. 6 : i < next => ipPage[i] = Record(ipInfoFlash)[i]
        /\ next <= 6 => SumErased
        /\ next = 7 => stored = ipInfoFlash

(* The fields set so far are those of the request, in the mirror.             *)
Mirror ==
    op # "idle" /\ what # "cnt" =>
        /\ setRet = "none"
        /\ ipInfoFlash["ip"] = req["ip"]
        /\ what \in {"mac", "port"} => ipInfoFlash["mac"] = req["mac"]
        /\ what = "port" => ipInfoFlash["port"] = req["port"]

Off == ~on => op = "idle" /\ setRet = "none"

IInv == /\ TypeOK /\ PageState /\ Programming /\ Mirror /\ Off
        /\ InOrder /\ SetIsStored

LEMMA SameFields ==
    ASSUME NEW a \in Config, NEW b \in Config, a["ip"] = b["ip"],
           a["mac"] = b["mac"], a["port"] = b["port"]
    PROVE  a = b
  BY DEF Config, Fields

LEMMA SamePage ==
    ASSUME NEW a \in Page6, NEW b \in Page6, \A i \in 1 .. 6 : a[i] = b[i]
    PROVE  a = b
  BY DEF Page6

(* Two sums of five are equal, and none of one is below that of the other.    *)
LEMMA EqualSums ==
    ASSUME NEW a1 \in Nat, NEW a2 \in Nat, NEW a3 \in Nat, NEW a4 \in Nat,
           NEW a5 \in Nat, NEW b1 \in Nat, NEW b2 \in Nat, NEW b3 \in Nat,
           NEW b4 \in Nat, NEW b5 \in Nat,
           a1 >= b1, a2 >= b2, a3 >= b3, a4 >= b4, a5 >= b5,
           a1 + a2 + a3 + a4 + a5 = b1 + b2 + b3 + b4 + b5
    PROVE  a1 = b1 /\ a2 = b2 /\ a3 = b3 /\ a4 = b4 /\ a5 = b5
  OBVIOUS

(* The checksum tells a record that is whole: words only grow when they are   *)
(* erased, so a sum that still fits leaves no room for an erased one.         *)
LEMMA AcceptedIsStored ==
    ASSUME TypeOK, PageState, Accepted(ipPage)
    PROVE  ipPage = Record(stored)
<1> DEFINE r == Record(stored)
<1>1. /\ ipPage \in Page6 /\ r \in Page6
      /\ r[6] = r[1] + r[2] + r[3] + r[4] + r[5]
  BY RecordWords DEF TypeOK, Page6
<1>2. /\ \A i \in 1 .. 6 : ipPage[i] \in Nat
      /\ \A i \in 1 .. 6 : r[i] \in Nat
  BY <1>1 DEF Page6
<1> HIDE DEF r
<1>3. ipPage[6] = ipPage[1] + ipPage[2] + ipPage[3] + ipPage[4] + ipPage[5]
  BY DEF Accepted, CheckSum
<1>4. ~SumErased
  BY <1>2, <1>3, NetParamsAssumption DEF PageState, Bounded, SumErased
<1>5. /\ ipPage[6] = r[6] /\ ipPage[1] >= r[1] /\ ipPage[2] >= r[2]
      /\ ipPage[3] >= r[3] /\ ipPage[4] >= r[4] /\ ipPage[5] >= r[5]
  BY <1>4 DEF PageState, StoredOrErased, r
<1>6. /\ ipPage[1] = r[1] /\ ipPage[2] = r[2] /\ ipPage[3] = r[3]
      /\ ipPage[4] = r[4] /\ ipPage[5] = r[5] /\ ipPage[6] = r[6]
  <2>1. /\ ipPage[1] \in Nat /\ ipPage[2] \in Nat /\ ipPage[3] \in Nat
        /\ ipPage[4] \in Nat /\ ipPage[5] \in Nat
        /\ r[1] \in Nat /\ r[2] \in Nat /\ r[3] \in Nat
        /\ r[4] \in Nat /\ r[5] \in Nat
    BY <1>2
  <2>2. ipPage[1] + ipPage[2] + ipPage[3] + ipPage[4] + ipPage[5]
        = r[1] + r[2] + r[3] + r[4] + r[5]
    BY <1>1, <1>3, <1>5
  <2>3. PICK a1 \in Nat, a2 \in Nat, a3 \in Nat, a4 \in Nat, a5 \in Nat :
           /\ a1 = ipPage[1] /\ a2 = ipPage[2] /\ a3 = ipPage[3]
           /\ a4 = ipPage[4] /\ a5 = ipPage[5]
    BY <2>1
  <2>4. PICK b1 \in Nat, b2 \in Nat, b3 \in Nat, b4 \in Nat, b5 \in Nat :
           b1 = r[1] /\ b2 = r[2] /\ b3 = r[3] /\ b4 = r[4] /\ b5 = r[5]
    BY <2>1
  <2>5. /\ a1 >= b1 /\ a2 >= b2 /\ a3 >= b3 /\ a4 >= b4 /\ a5 >= b5
        /\ a1 + a2 + a3 + a4 + a5 = b1 + b2 + b3 + b4 + b5
    BY <1>5, <2>2, <2>3, <2>4, Zenon
  <2>6. a1 = b1 /\ a2 = b2 /\ a3 = b3 /\ a4 = b4 /\ a5 = b5
    BY <2>5, EqualSums
  <2> QED
    BY <1>5, <2>3, <2>4, <2>6, Zenon
<1>7. \A i \in 1 .. 6 : ipPage[i] = r[i]
  BY <1>6
<1>8. ipPage = r
  BY <1>1, <1>7, SamePage
<1> QED
  BY <1>8 DEF r

LEMMA ErasedPageState ==
    ASSUME TypeOK, ipPage' = ErasedPage
    PROVE  ipPage' \in [1 .. 6 -> Nat] /\ PageState' /\ SumErased'
  BY NetParamsAssumption
     DEF ErasedPage, ErasedWord, PageState, Bounded, SumErased

(* An erase cut short only raises words, or erases the checksum.              *)
LEMMA CutErasePage ==
    ASSUME TypeOK, PageState, CutErase, stored' = stored
    PROVE  ipPage' \in [1 .. 6 -> Nat] /\ PageState' /\ cntPage' \in Nat
<1>1. cntPage' \in Nat
  BY NetParamsAssumption DEF TypeOK, CutErase
<1>2. CASE ipPage' = ipPage
  BY <1>1, <1>2 DEF TypeOK, PageState, Bounded, SumErased, StoredOrErased
<1>3. ASSUME NEW gone \in SUBSET (1 .. 6),
             ipPage' = [i \in 1 .. 6 |->
                          IF i \in gone THEN ErasedWord(i) ELSE ipPage[i]]
      PROVE  ipPage' \in [1 .. 6 -> Nat] /\ PageState'
  <2>1. /\ \A i \in 1 .. 5 : ErasedWord(i) = Ones
        /\ ErasedWord(6) = ErasedSum /\ Ones \in Nat /\ ErasedSum \in Nat
    BY NetParamsAssumption DEF ErasedWord
  <2>2. \A i \in 1 .. 6 : ipPage[i] \in Nat
    BY DEF TypeOK
  <2>3. ipPage' \in [1 .. 6 -> Nat]
    BY <1>3, <2>1, <2>2 DEF ErasedWord
  <2>4. \A i \in 1 .. 5 : ipPage'[i] <= Ones /\ ipPage'[i] >= ipPage[i]
    BY <1>3, <2>1, <2>2 DEF PageState, Bounded
  <2>5. CASE ipPage'[6] = ErasedSum
    BY <2>3, <2>4, <2>5 DEF PageState, Bounded, SumErased
  <2>6. CASE ipPage'[6] # ErasedSum
    <3>1. ipPage'[6] = ipPage[6]
      BY <1>3, <2>1, <2>6
    <3>2. StoredOrErased
      BY <2>6, <3>1 DEF PageState, SumErased
    <3>3. \A i \in 1 .. 5 : Record(stored)[i] \in Nat
      BY RecordWords DEF TypeOK, Page6
    <3>4. ipPage'[6] = Record(stored)[6]
      BY <3>1, <3>2 DEF StoredOrErased
    <3>5. \A i \in 1 .. 5 : ipPage'[i] >= Record(stored)[i]
      <4> TAKE i \in 1 .. 5
      <4>1. /\ ipPage'[i] \in Nat /\ ipPage[i] \in Nat
            /\ Record(stored)[i] \in Nat
        BY <2>2, <2>3, <3>3
      <4>2. ipPage'[i] >= ipPage[i] /\ ipPage[i] >= Record(stored)[i]
        BY <2>4, <3>2 DEF StoredOrErased
      <4> QED
        BY <4>1, <4>2
    <3> QED
      BY <2>3, <2>4, <3>4, <3>5 DEF PageState, Bounded, StoredOrErased
  <2> QED
    BY <2>3, <2>5, <2>6
<1> QED
  BY <1>1, <1>2, <1>3 DEF CutErase

LEMMA InitIInv == Init => IInv
<1> SUFFICES ASSUME Init PROVE IInv
  OBVIOUS
<1>1. ipPage \in [1 .. 6 -> Nat] /\ Bounded /\ SumErased
  BY NetParamsAssumption
     DEF Init, ErasedPage, ErasedWord, Bounded, SumErased
<1>2. TypeOK
  <2>1. Default \in Config /\ Default \in [Fields -> Nat] /\ ErasedSum \in Nat
    BY NetParamsAssumption DEF Config
  <2>2. on \in BOOLEAN
    BY DEF Init
  <2>3. /\ cntPage \in Nat /\ count \in Counts /\ what \in Fields \cup {"cnt"}
        /\ next \in 1 .. 7
    BY <2>1 DEF Init, Fields
  <2>4. /\ ipInfoFlash \in Config /\ netCfgInfo \in [Fields -> Nat]
        /\ req \in Config /\ stored \in Config
    BY <2>1 DEF Init
  <2>5. /\ op \in {"idle", "erase", "program"} /\ setRet \in {"none", "ok", "fail"}
        /\ endRet \in {"none", "ok"}
    BY DEF Init
  <2> QED
    BY <1>1, <2>2, <2>3, <2>4, <2>5 DEF TypeOK
<1>3. PageState /\ Programming /\ Mirror /\ Off /\ InOrder /\ SetIsStored
  BY <1>1 DEF Init, PageState, Programming, Mirror, Off, InOrder, SetIsStored
<1> QED
  BY <1>2, <1>3 DEF IInv

(* What boots is the last record stored or the defaults.                      *)
LEMMA BootConfig ==
    ASSUME TypeOK, PageState, Boot
    PROVE  /\ netCfgInfo' = ipInfoFlash'
           /\ netCfgInfo' \in {Default, stored}
<1>1. CASE Accepted(ipPage)
  <2>1. FieldsOf(ipPage) = stored
    BY <1>1, AcceptedIsStored, FieldsOfRecord DEF TypeOK
  <2> QED
    BY <1>1, <2>1 DEF Boot
<1>2. CASE ~Accepted(ipPage)
  BY <1>2 DEF Boot
<1> QED
  BY <1>1, <1>2

LEMMA BootIInv == IInv /\ Boot => IInv'
<1> SUFFICES ASSUME IInv, Boot PROVE IInv'
  OBVIOUS
<1>0. TypeOK /\ PageState /\ Off
  BY DEF IInv
<1>1. /\ ~on /\ on' = TRUE /\ op = "idle" /\ setRet = "none"
      /\ UNCHANGED <<flash, op, what, next, req, count, setRet, endRet, stored>>
  BY <1>0 DEF Boot, Off
<1>2. ipInfoFlash' \in Config /\ netCfgInfo' \in [Fields -> Nat]
  <2>1. stored \in Config /\ Default \in Config /\ Values \subseteq Nat
    BY <1>0, NetParamsAssumption DEF TypeOK
  <2> QED
    BY <1>0, <2>1, BootConfig DEF Config
<1>3. TypeOK'
  BY <1>0, <1>1, <1>2 DEF TypeOK, flash
<1>4. PageState'
  BY <1>0, <1>1 DEF PageState, Bounded, SumErased, StoredOrErased, flash
<1>5. Programming' /\ Mirror' /\ Off' /\ InOrder' /\ SetIsStored'
  BY <1>1 DEF Programming, Mirror, Off, InOrder, SetIsStored
<1> QED
  BY <1>3, <1>4, <1>5 DEF IInv

(* The mirror takes one more field of the request.                            *)
LEMMA SetFieldType ==
    ASSUME TypeOK, NEW f \in Fields, NEW cfg \in Config, SetField(f, cfg)
    PROVE  /\ ipInfoFlash' \in Config
           /\ ipInfoFlash'[f] = cfg[f]
           /\ \A g \in Fields : g # f => ipInfoFlash'[g] = ipInfoFlash[g]
           /\ op' = "erase" /\ what' = f
  BY DEF TypeOK, SetField, Config

LEMMA ParaSetIInv ==
    ASSUME IInv, NEW cfg \in Requests, ParaSet(cfg)
    PROVE  IInv'
<1>0. TypeOK /\ PageState /\ cfg \in Config /\ "ip" \in Fields
  BY NetParamsAssumption DEF IInv, Fields
<1>1. /\ ipInfoFlash' \in Config /\ ipInfoFlash'["ip"] = cfg["ip"]
      /\ op' = "erase" /\ what' = "ip"
  BY <1>0, SetFieldType DEF ParaSet
<1>2. TypeOK'
  BY <1>0, <1>1 DEF TypeOK, ParaSet, flash
<1>3. PageState'
  BY <1>0 DEF ParaSet, PageState, Bounded, SumErased, StoredOrErased, flash
<1>4. Programming' /\ Mirror' /\ Off' /\ InOrder' /\ SetIsStored'
  BY <1>1 DEF ParaSet, Programming, Mirror, Off, InOrder, SetIsStored
<1> QED
  BY <1>2, <1>3, <1>4 DEF IInv

LEMMA WriteEndIInv ==
    ASSUME IInv, NEW n \in Counts, WriteEnd(n)
    PROVE  IInv'
<1>1. TypeOK'
  BY DEF IInv, TypeOK, WriteEnd, flash
<1>2. PageState'
  BY DEF IInv, WriteEnd, PageState, Bounded, SumErased, StoredOrErased, flash
<1>3. Programming' /\ Mirror' /\ Off' /\ InOrder' /\ SetIsStored'
  BY DEF IInv, WriteEnd, Programming, Mirror, Off, InOrder, SetIsStored, flash
<1> QED
  BY <1>1, <1>2, <1>3 DEF IInv

LEMMA EraseIInv == IInv /\ Erase => IInv'
<1> SUFFICES ASSUME IInv, Erase PROVE IInv'
  OBVIOUS
<1>0. TypeOK /\ PageState /\ Mirror /\ Off /\ InOrder /\ SetIsStored
  BY DEF IInv
<1>1. /\ ipPage' \in [1 .. 6 -> Nat] /\ PageState'
      /\ what # "cnt" => SumErased'
  <2>1. CASE what = "cnt"
    BY <1>0, <2>1
       DEF Erase, TypeOK, PageState, Bounded, SumErased, StoredOrErased
  <2>2. CASE what # "cnt"
    BY <1>0, <2>2, ErasedPageState DEF Erase
  <2> QED
    BY <2>1, <2>2
<1>2. TypeOK'
  <2>1. cntPage' \in Nat /\ next' \in 1 .. 7
    BY <1>0, NetParamsAssumption DEF TypeOK, Erase
  <2> QED
    BY <1>0, <1>1, <2>1 DEF TypeOK, Erase, ram
<1>3. Programming'
  BY <1>1 DEF Erase, Programming
<1>4. Mirror' /\ Off' /\ InOrder'
  BY <1>0 DEF Erase, Mirror, Off, InOrder, ram
<1>5. SetIsStored'
  BY <1>0 DEF Erase, Mirror, SetIsStored, ram
<1> QED
  BY <1>1, <1>2, <1>3, <1>4, <1>5 DEF IInv

LEMMA ProgramWordIInv == IInv /\ ProgramWord => IInv'
<1> SUFFICES ASSUME IInv, ProgramWord PROVE IInv'
  OBVIOUS
<1>0. TypeOK /\ PageState /\ Programming /\ Mirror /\ Off /\ InOrder
  BY DEF IInv
<1> DEFINE r == Record(ipInfoFlash)
<1>1. /\ r \in Page6 /\ ipPage \in Page6 /\ next \in 1 .. 6 /\ next' = next + 1
      /\ ipPage' = [ipPage EXCEPT ![next] = r[next]]
      /\ UNCHANGED <<on, ram, op, what, setRet>>
      /\ op = "program" /\ what # "cnt" /\ SumErased
      /\ \A i \in 1 .. 6 : i < next => ipPage[i] = r[i]
  BY <1>0, RecordWords
     DEF ProgramWord, ProgramsWord, TypeOK, Page6, Programming
<1>2. \A i \in 1 .. 5 : r[i] \in Nat /\ r[i] <= Ones
  <2>1. /\ IP_INFO_HEAD \in Nat /\ IP_INFO_HEAD <= Ones
        /\ IP_INFO_TAIL \in Nat /\ IP_INFO_TAIL <= Ones
    BY NetParamsAssumption
  <2>2. \A f \in Fields : ipInfoFlash[f] \in Nat /\ ipInfoFlash[f] <= Ones
    BY <1>0, NetParamsAssumption DEF TypeOK, Config
  <2> QED
    BY <1>0, <2>1, <2>2, RecordWords DEF TypeOK, Fields
<1> HIDE DEF r
<1>3. /\ ipPage' \in Page6
      /\ \A i \in 1 .. 6 : i < next' => ipPage'[i] = r[i]
      /\ Bounded'
  BY <1>0, <1>1, <1>2 DEF Page6, PageState, Bounded
<1>4. TypeOK'
  <2>1. stored' \in Config /\ next' \in 1 .. 7
    BY <1>0, <1>1 DEF TypeOK, ProgramWord, ProgramsWord
  <2> QED
    BY <1>0, <1>3, <2>1 DEF TypeOK, Page6, ProgramWord,
                                   ProgramsWord, ram
<1>5. CASE next = 6
  <2>1. stored' = ipInfoFlash /\ \A i \in 1 .. 6 : ipPage'[i] = r[i]
    BY <1>3, <1>1, <1>5 DEF ProgramWord, ProgramsWord
  <2>2. StoredOrErased'
    BY <1>1, <2>1 DEF StoredOrErased, r, Page6
  <2>3. Programming'
    BY <1>1, <1>3, <1>5, <2>1 DEF Programming, ram, r
  <2>4. InOrder'
    BY <1>0, <1>1, <2>1 DEF InOrder, Mirror, ram
  <2> QED
    BY <1>0, <1>1, <1>3, <1>4, <2>2, <2>3, <2>4
       DEF IInv, PageState, Mirror, Off, SetIsStored, ram
<1>6. CASE next # 6
  <2>1. stored' = stored /\ SumErased'
    BY <1>1, <1>6 DEF ProgramWord, ProgramsWord, SumErased, Page6
  <2>2. Programming'
    BY <1>1, <1>3, <1>6, <2>1 DEF Programming, ram, r
  <2>3. InOrder'
    BY <1>0, <1>1, <2>1 DEF InOrder, ram
  <2> QED
    BY <1>0, <1>1, <1>3, <1>4, <2>1, <2>2, <2>3
       DEF IInv, PageState, Mirror, Off, SetIsStored, ram
<1> QED
  BY <1>5, <1>6

LEMMA FieldStoredIInv == IInv /\ FieldStored => IInv'
<1> SUFFICES ASSUME IInv, FieldStored PROVE IInv'
  OBVIOUS
<1>0. TypeOK /\ PageState /\ Programming /\ Mirror /\ Off
  BY DEF IInv
<1>1. /\ stored = ipInfoFlash /\ op = "program" /\ what # "cnt" /\ on
      /\ \A i \in 1 .. 6 : ipPage[i] = Record(stored)[i]
      /\ UNCHANGED <<flash, on, netCfgInfo, next, req, count, endRet, stored>>
  BY <1>0 DEF FieldStored, Programming, TypeOK
<1>2. req \in Config /\ ipInfoFlash \in Config
  BY <1>0 DEF TypeOK
<1>3. PageState'
  BY <1>0, <1>1 DEF PageState, Bounded, SumErased, StoredOrErased, flash
<1>4. ASSUME NEW f \in {"mac", "port"}, SetField(f, req), setRet' = setRet,
             (what = "ip" /\ f = "mac") \/ (what = "mac" /\ f = "port")
      PROVE  IInv'
  <2>1. /\ f \in Fields /\ ipInfoFlash' \in Config
        /\ ipInfoFlash'[f] = req[f]
        /\ \A g \in Fields : g # f => ipInfoFlash'[g] = ipInfoFlash[g]
        /\ op' = "erase" /\ what' = f
    BY <1>0, <1>2, <1>4, SetFieldType DEF Fields
  <2>2. TypeOK'
    BY <1>0, <1>1, <1>4, <2>1 DEF TypeOK, flash
  <2>3. Mirror'
    BY <1>0, <1>1, <1>4, <2>1 DEF Mirror, Fields
  <2>4. InOrder'
    BY <1>0, <1>1, <1>4, <2>1 DEF Mirror, InOrder
  <2>5. Programming' /\ Off' /\ SetIsStored'
    BY <1>0, <1>1, <1>4, <2>1 DEF Mirror, Programming, Off, SetIsStored
  <2> QED
    BY <1>3, <2>2, <2>3, <2>4, <2>5 DEF IInv
<1>5. CASE what = "port" /\ op' = "idle" /\ setRet' = "ok"
           /\ UNCHANGED <<ipInfoFlash, what>>
  <2>1. TypeOK'
    BY <1>0, <1>1, <1>5 DEF TypeOK, flash
  <2>2. stored = req
    BY <1>0, <1>1, <1>2, <1>5, SameFields DEF Mirror
  <2>3. ipPage = Record(req)
    BY <1>0, <1>1, <1>2, <2>2, RecordWords, SamePage DEF TypeOK, Page6
  <2>4. Programming' /\ Mirror' /\ Off' /\ InOrder' /\ SetIsStored'
    BY <1>1, <1>5, <2>3
       DEF Programming, Mirror, Off, InOrder, SetIsStored, flash
  <2> QED
    BY <1>3, <2>1, <2>4 DEF IInv
<1>6. ASSUME what # "port"
      PROVE  \E f \in {"mac", "port"} :
                /\ SetField(f, req) /\ setRet' = setRet
                /\ (what = "ip" /\ f = "mac") \/ (what = "mac" /\ f = "port")
  <2>1. CASE what = "ip"
    <3>1. SetField("mac", req) /\ setRet' = setRet
      BY <2>1 DEF FieldStored
    <3> QED
      BY <2>1, <3>1, Zenon
  <2>2. CASE what = "mac"
    <3>1. SetField("port", req) /\ setRet' = setRet
      BY <2>2 DEF FieldStored
    <3> QED
      BY <2>2, <3>1, Zenon
  <2> QED
    BY <1>6, <2>1, <2>2 DEF FieldStored
<1>7. CASE what # "port"
  <2>1. PICK f \in {"mac", "port"} :
                /\ SetField(f, req) /\ setRet' = setRet
                /\ (what = "ip" /\ f = "mac") \/ (what = "mac" /\ f = "port")
    BY <1>6, <1>7
  <2> QED
    BY <1>4, <2>1
<1> QED
  BY <1>5, <1>7 DEF FieldStored

LEMMA ProgramCntIInv == IInv /\ ProgramCnt => IInv'
<1> SUFFICES ASSUME IInv, ProgramCnt PROVE IInv'
  OBVIOUS
<1>1. TypeOK'
  BY NetParamsAssumption DEF IInv, TypeOK, ProgramCnt, ProgramsCnt, ram
<1>2. PageState'
  BY DEF IInv, ProgramCnt, ProgramsCnt, PageState, Bounded, SumErased,
         StoredOrErased
<1>3. Programming' /\ Mirror' /\ Off' /\ InOrder' /\ SetIsStored'
  BY DEF IInv, ProgramCnt, ProgramsCnt, Programming, Mirror, Off, InOrder,
         SetIsStored, ram
<1> QED
  BY <1>1, <1>2, <1>3 DEF IInv

(* A word programmed before the driver gave up on it keeps the page in shape, *)
(* the last one included, which completes the record.                         *)
LEMMA ProgramsWordPage ==
    ASSUME TypeOK, PageState, Programming, ProgramsWord
    PROVE  /\ ipPage' \in [1 .. 6 -> Nat] /\ PageState'
           /\ cntPage' \in Nat /\ stored' \in Config
<1> DEFINE r == Record(ipInfoFlash)
<1>1. /\ r \in Page6 /\ ipPage \in Page6 /\ next \in 1 .. 6 /\ SumErased
      /\ ipPage' = [ipPage EXCEPT ![next] = r[next]]
      /\ \A i \in 1 .. 6 : i < next => ipPage[i] = r[i]
  BY RecordWords DEF ProgramsWord, TypeOK, Page6, Programming
<1>2. \A i \in 1 .. 5 : r[i] \in Nat /\ r[i] <= Ones
  <2>1. /\ IP_INFO_HEAD \in Nat /\ IP_INFO_HEAD <= Ones
        /\ IP_INFO_TAIL \in Nat /\ IP_INFO_TAIL <= Ones
    BY NetParamsAssumption
  <2>2. \A f \in Fields : ipInfoFlash[f] \in Nat /\ ipInfoFlash[f] <= Ones
    BY NetParamsAssumption DEF TypeOK, Config
  <2> QED
    BY <2>1, <2>2, RecordWords DEF TypeOK, Fields
<1> HIDE DEF r
<1>3. /\ ipPage' \in Page6
      /\ \A i \in 1 .. 6 : i <= next => ipPage'[i] = r[i]
      /\ Bounded'
  BY <1>1, <1>2 DEF Page6, PageState, Bounded
<1>4. cntPage' \in Nat /\ stored' \in Config
  BY DEF TypeOK, ProgramsWord
<1>5. CASE next = 6
  <2>1. stored' = ipInfoFlash /\ \A i \in 1 .. 6 : ipPage'[i] = r[i]
    BY <1>1, <1>3, <1>5 DEF ProgramsWord
  <2>2. StoredOrErased'
    BY <1>1, <2>1 DEF StoredOrErased, r, Page6
  <2> QED
    BY <1>3, <1>4, <2>2 DEF PageState, Page6
<1>6. CASE next # 6
  BY <1>1, <1>3, <1>4, <1>6 DEF SumErased, PageState, Page6
<1> QED
  BY <1>5, <1>6

LEMMA TimeOutIInv == IInv /\ TimeOut => IInv'
<1> SUFFICES ASSUME IInv, TimeOut PROVE IInv'
  OBVIOUS
<1>0. TypeOK /\ PageState /\ Programming /\ Mirror /\ Off /\ SetIsStored
  BY DEF IInv
<1>1. /\ ipPage' \in [1 .. 6 -> Nat] /\ PageState' /\ cntPage' \in Nat
      /\ stored' \in Config
  <2>1. CASE CutErase /\ UNCHANGED stored
    BY <1>0, <2>1, CutErasePage DEF TypeOK
  <2>2. CASE ProgramsWord
    BY <1>0, <2>2, ProgramsWordPage
  <2>3. CASE ProgramsCnt
    BY <1>0, <2>3, NetParamsAssumption
       DEF ProgramsCnt, TypeOK, PageState, Bounded, SumErased, StoredOrErased
  <2>4. CASE UNCHANGED <<flash, stored>>
    BY <1>0, <2>4 DEF TypeOK, PageState, Bounded, SumErased, StoredOrErased,
                      flash
  <2> QED
    BY <2>1, <2>2, <2>3, <2>4 DEF TimeOut
<1>2. TypeOK'
  <2>1. setRet' \in {"none", "ok", "fail"} /\ endRet' \in {"none", "ok"}
    BY <1>0 DEF TypeOK, TimeOut
  <2> QED
    BY <1>0, <1>1, <2>1 DEF TypeOK, TimeOut, ram
<1>3. Programming' /\ Mirror' /\ Off' /\ InOrder'
  BY <1>0 DEF TimeOut, Programming, Mirror, Off, InOrder
<1>4. SetIsStored'
  <2>1. what = "cnt" => ipPage' = ipPage
    BY DEF TimeOut, CutErase, ProgramsWord, ProgramsCnt, flash
  <2> QED
    BY <1>0, <2>1 DEF TimeOut, SetIsStored, ram
<1> QED
  BY <1>1, <1>2, <1>3, <1>4 DEF IInv

LEMMA PowerLossIInv == IInv /\ PowerLoss => IInv'
<1> SUFFICES ASSUME IInv, PowerLoss PROVE IInv'
  OBVIOUS
<1>0. TypeOK /\ PageState
  BY DEF IInv
<1>1. ipPage' \in [1 .. 6 -> Nat] /\ PageState' /\ cntPage' \in Nat
  <2>1. CASE CutErase
    BY <1>0, <2>1, CutErasePage DEF PowerLoss
  <2>2. CASE UNCHANGED flash
    BY <1>0, <2>2 DEF PowerLoss, TypeOK, PageState, Bounded, SumErased,
                      StoredOrErased, flash
  <2> QED
    BY <2>1, <2>2 DEF PowerLoss
<1>2. TypeOK'
  <2>1. Default \in Config /\ Default \in [Fields -> Nat]
    BY NetParamsAssumption DEF Config
  <2>2. on' \in BOOLEAN
    BY DEF PowerLoss
  <2>3. /\ what' \in Fields \cup {"cnt"} /\ next' \in 1 .. 7
        /\ count' \in Counts /\ stored' \in Config
    BY <1>0 DEF TypeOK, PowerLoss, Fields
  <2>4. /\ ipInfoFlash' \in Config /\ netCfgInfo' \in [Fields -> Nat]
        /\ req' \in Config
    BY <2>1 DEF PowerLoss
  <2>5. /\ op' \in {"idle", "erase", "program"}
        /\ setRet' \in {"none", "ok", "fail"} /\ endRet' \in {"none", "ok"}
    BY DEF PowerLoss
  <2> QED
    BY <1>1, <2>2, <2>3, <2>4, <2>5 DEF TypeOK
<1>3. Programming' /\ Mirror' /\ Off' /\ InOrder' /\ SetIsStored'
  BY DEF PowerLoss, Programming, Mirror, Off, InOrder, SetIsStored
<1> QED
  BY <1>1, <1>2, <1>3 DEF IInv

LEMMA NextIInv == IInv /\ [Next]_vars => IInv'
<1>1. IInv /\ UNCHANGED vars => IInv'
  <2> SUFFICES ASSUME IInv, UNCHANGED vars PROVE IInv'
    OBVIOUS
  <2>1. TypeOK'
    BY DEF IInv, TypeOK, vars, ram, flash
  <2>2. PageState'
    BY DEF IInv, PageState, Bounded, SumErased, StoredOrErased, vars, flash
  <2>3. Programming' /\ Mirror' /\ Off' /\ InOrder' /\ SetIsStored'
    BY DEF IInv, Programming, SumErased, Mirror, Off, InOrder, SetIsStored,
           vars, ram, flash
  <2> QED
    BY <2>1, <2>2, <2>3 DEF IInv
<1> QED
  BY <1>1, BootIInv, ParaSetIInv, WriteEndIInv, EraseIInv, ProgramWordIInv,
     FieldStoredIInv, ProgramCntIInv, TimeOutIInv, PowerLossIInv
     DEF Next, Handler

LEMMA Invariance == Spec => []IInv
  BY InitIInv, NextIInv, PTL DEF Spec

(* Nothing but the last record stored whole is ever accepted at boot          *)
(* (flash.c 187-246).                                                         *)
THEOREM TornNeverAccepted == Spec => []OnlyStoredAccepted
<1>1. IInv => OnlyStoredAccepted
  BY AcceptedIsStored DEF IInv, OnlyStoredAccepted
<1> QED
  BY <1>1, Invariance, PTL

(* A PARA_SET answered with success is in the flash (tcpserver.c 468-485).    *)
THEOREM SetAnswerHonest == Spec => []SetIsStored
<1>1. IInv => SetIsStored
  BY DEF IInv
<1> QED
  BY <1>1, Invariance, PTL

(* The two pages, the mirror and the configuration keep their shape through   *)
(* time-outs and power cuts (flash.c 21-246, stm32f107.c 510-551).            *)
THEOREM StoreTypeCorrect == Spec => []TypeOK
<1>1. IInv => TypeOK
  BY DEF IInv
<1> QED
  BY <1>1, Invariance, PTL

(* The fields reach the flash in their order (tcpserver.c 473-481).           *)
THEOREM FieldsInOrder == Spec => []InOrder
<1>1. IInv => InOrder
  BY DEF IInv
<1> QED
  BY <1>1, Invariance, PTL

(* A boot runs with the defaults or the last record stored                    *)
(* (stm32f107.c 510-551).                                                     *)
THEOREM BootIsStored == Spec => BootsStored
<1> DEFINE Boots == ~on /\ on' => /\ netCfgInfo' \in {Default, stored}
                                 /\ ipInfoFlash' = netCfgInfo'
<1>1. IInv /\ [Next]_vars => [Boots]_vars
  <2> SUFFICES ASSUME IInv, Next, ~on, on' PROVE Boots
    OBVIOUS
  <2>1. Boot
    BY DEF Next, Handler, ParaSet, WriteEnd, Erase, ProgramWord, FieldStored,
           ProgramCnt, TimeOut, PowerLoss
  <2> QED
    BY <2>1, BootConfig DEF IInv
<1> QED
  BY <1>1, Invariance, PTL DEF Spec, BootsStored

-----------------------------------------------------------------------------
(* The SPI bus. Bits and bytes.                                               *)

Bit == {0, 1}
Byte == 0 .. 255

(* The eight bits of a byte are bits.                                         *)
LEMMA BitsIn ==
    ASSUME NEW b \in Int
    PROVE  /\ DOMAIN Bits(b) = 1 .. 8
           /\ \A i \in 1 .. 8 : Bits(b)[i] \in Bit
<1>1. ASSUME NEW i \in 1 .. 8
      PROVE  (b \div 2 ^ (8 - i)) % 2 \in {0, 1}
  BY SMT
<1> QED
  BY <1>1 DEF Bits, Bit

(* Eight bits make a byte.                                                    *)
LEMMA ValueIn ==
    ASSUME NEW bits, NEW i \in Int, \A k \in i .. i + 7 : bits[k] \in Bit
    PROVE  Value(bits, i) \in Byte
  BY DEF Value, Bit, Byte

(* AllBits of a sequence of bytes: eight bits for each.                       *)
LEMMA AllBitsIn ==
    ASSUME NEW bytes \in Seq(Int)
    PROVE  /\ AllBits(bytes) \in Seq(Bit)
           /\ Len(AllBits(bytes)) = 8 * Len(bytes)
<1> DEFINE n == 8 * Len(bytes)
           at(i) == Bits(bytes[(i + 7) \div 8])[((i - 1) % 8) + 1]
<1>0. n \in Nat /\ Len(bytes) \in Nat
  OBVIOUS
<1>1. ASSUME NEW i \in 1 .. n
      PROVE  at(i) \in Bit
  <2> DEFINE j == (i + 7) \div 8
             k == ((i - 1) % 8) + 1
  <2>1. j \in 1 .. Len(bytes) /\ k \in 1 .. 8
    BY <1>0
  <2> HIDE DEF j, k
  <2>2. bytes[j] \in Int
    BY <2>1
  <2>3. Bits(bytes[j])[k] \in Bit
    BY <2>1, <2>2, BitsIn
  <2> QED
    BY <2>3 DEF j, k
<1>2. AllBits(bytes) = [i \in 1 .. n |-> at(i)]
  BY DEF AllBits
<1> HIDE DEF at, n
<1>3. [i \in 1 .. n |-> at(i)] \in Seq(Bit) /\ Len([i \in 1 .. n |-> at(i)]) = n
  BY <1>0, <1>1
<1> QED
  BY <1>2, <1>3 DEF n

(* Value undoes Bits.                                                         *)
LEMMA ByteValue ==
    ASSUME NEW b \in Byte, NEW bits, NEW j \in Int,
           \A i \in 1 .. 8 : bits[j + i - 1] = Bits(b)[i]
    PROVE  Value(bits, j) = b
<1>1. /\ bits[j] = (b \div 128) % 2 /\ bits[j + 1] = (b \div 64) % 2
      /\ bits[j + 2] = (b \div 32) % 2 /\ bits[j + 3] = (b \div 16) % 2
      /\ bits[j + 4] = (b \div 8) % 2 /\ bits[j + 5] = (b \div 4) % 2
      /\ bits[j + 6] = (b \div 2) % 2 /\ bits[j + 7] = b % 2
  <2>1. /\ Bits(b)[1] = (b \div 128) % 2 /\ Bits(b)[2] = (b \div 64) % 2
        /\ Bits(b)[3] = (b \div 32) % 2 /\ Bits(b)[4] = (b \div 16) % 2
    BY DEF Bits
  <2>2. /\ Bits(b)[5] = (b \div 8) % 2 /\ Bits(b)[6] = (b \div 4) % 2
        /\ Bits(b)[7] = (b \div 2) % 2 /\ Bits(b)[8] = b % 2
    BY DEF Bits, Byte
  <2>3. \A i \in 1 .. 8 : bits[j + i - 1] = Bits(b)[i]
    OBVIOUS
  <2>4. /\ j + 1 - 1 = j /\ j + 2 - 1 = j + 1 /\ j + 3 - 1 = j + 2 /\ j + 4 - 1 = j + 3
        /\ j + 5 - 1 = j + 4 /\ j + 6 - 1 = j + 5 /\ j + 7 - 1 = j + 6
        /\ j + 8 - 1 = j + 7
    OBVIOUS
  <2> QED
    BY <2>1, <2>2, <2>3, <2>4
<1>2. b = 128 * ((b \div 128) % 2) + 64 * ((b \div 64) % 2) + 32 * ((b \div 32) % 2)
          + 16 * ((b \div 16) % 2) + 8 * ((b \div 8) % 2) + 4 * ((b \div 4) % 2)
          + 2 * ((b \div 2) % 2) + (b % 2)
  BY DEF Byte
<1> QED
  BY <1>1, <1>2 DEF Value

(* Where AllBits has the bits of the byte j.                                  *)
LEMMA AllBitsAt ==
    ASSUME NEW bytes \in Seq(Int), NEW j \in 1 .. Len(bytes), NEW i \in 1 .. 8
    PROVE  AllBits(bytes)[8 * j - 8 + i] = Bits(bytes[j])[i]
<1> DEFINE k == 8 * j - 8 + i
<1>1. k \in 1 .. 8 * Len(bytes) /\ (k + 7) \div 8 = j /\ ((k - 1) % 8) + 1 = i
  OBVIOUS
<1> HIDE DEF k
<1>2. AllBits(bytes)[k] = Bits(bytes[(k + 7) \div 8])[((k - 1) % 8) + 1]
  BY <1>1, Zenon DEF AllBits
<1>3. AllBits(bytes)[k] = Bits(bytes[j])[i]
  BY <1>1, <1>2, Zenon
<1> QED
  BY <1>3 DEF k

(* A chip takes the first byte that it is sent for the opcode.                *)
LEMMA FirstByte ==
    ASSUME NEW bytes \in Seq(Int), Len(bytes) >= 1, bytes[1] \in Byte
    PROVE  Value(AllBits(bytes), 1) = bytes[1]
<1>1. \A i \in 1 .. 8 : AllBits(bytes)[1 + i - 1] = Bits(bytes[1])[i]
  <2>1. ASSUME NEW i \in 1 .. 8
        PROVE  AllBits(bytes)[1 + i - 1] = Bits(bytes[1])[i]
    <3>1. 8 * 1 - 8 + i = 1 + i - 1 /\ 1 \in 1 .. Len(bytes)
      OBVIOUS
    <3> QED
      BY <3>1, AllBitsAt
  <2> QED
    BY <2>1
<1>2. 1 \in Int
  OBVIOUS
<1> QED
  BY <1>1, <1>2, ByteValue, Zenon

-----------------------------------------------------------------------------
(* The chip.                                                                  *)

(* What a chip is.                                                            *)
ChipType == [cell : [Address -> Byte], wip : BOOLEAN, wel : BOOLEAN,
             bits : Seq(Bit), deaf : BOOLEAN]

(* What programming leaves of two bytes is a byte.                            *)
LEMMA AndIn ==
    ASSUME NEW a \in Byte, NEW b \in Byte PROVE And(a, b) \in Byte
<1> DEFINE x == Bits(a)
           y == Bits(b)
           z == [i \in 1 .. 8 |-> x[i] * y[i]]
<1>1. \A i \in 1 .. 8 : x[i] \in Bit /\ y[i] \in Bit
  BY BitsIn DEF Byte
<1> HIDE DEF x, y
<1>2. \A k \in 1 .. 1 + 7 : z[k] \in Bit
  <2>1. ASSUME NEW k \in 1 .. 1 + 7 PROVE z[k] \in Bit
    <3>1. k \in 1 .. 8 /\ z[k] = x[k] * y[k]
      OBVIOUS
    <3> QED
      BY <1>1, <3>1 DEF Bit
  <2> QED
    BY <2>1
<1> HIDE DEF z
<1>3. 1 \in Int
  OBVIOUS
<1>4. Value(z, 1) \in Byte
  BY <1>2, <1>3, ValueIn, Zenon
<1> QED
  BY <1>4, Zenon DEF And, x, y, z

(* The cells after a page program.                                            *)
LEMMA ProgrammedIn ==
    ASSUME NEW c \in ChipType, Len(c.bits) >= 40
    PROVE  Programmed(c) \in [Address -> Byte]
<1> DEFINE n == (Len(c.bits) - 32) \div 8
           a == ChipAddress(c)
           byte(k) == Value(c.bits, 33 + 8 * k)
<1>0. c.bits \in Seq(Bit) /\ c.cell \in [Address -> Byte]
  BY DEF ChipType
<1>1. ASSUME NEW k \in 0 .. n - 1 PROVE byte(k) \in Byte
  <2>1. \A j \in 33 + 8 * k .. 33 + 8 * k + 7 : j \in 1 .. Len(c.bits)
    <3> DEFINE l == Len(c.bits)
    <3>0. l \in Nat
      BY <1>0
    <3> HIDE DEF l
    <3>1. l \in Nat /\ (l - 32) \div 8 \in Int /\ 8 * ((l - 32) \div 8) <= l - 32
      BY <3>0
    <3>2. n = (l - 32) \div 8
      BY DEF l
    <3>3. n \in Int /\ 8 * n <= l - 32
      BY <3>1, <3>2
    <3>4. k \in 0 .. n - 1
      OBVIOUS
    <3> HIDE DEF n
    <3>5. k \in Int /\ k >= 0 /\ k <= n - 1
      BY <3>3, <3>4
    <3>6. \A j \in 33 + 8 * k .. 33 + 8 * k + 7 : j \in 1 .. l
      BY <3>0, <3>3, <3>5
    <3> QED
      BY <3>6 DEF l
  <2>2. \A j \in 33 + 8 * k .. 33 + 8 * k + 7 : c.bits[j] \in Bit
    BY <1>0, <2>1
  <2>3. 33 + 8 * k \in Int
    BY <1>0
  <2> QED
    BY <2>2, <2>3, ValueIn, Zenon
<1>2. ASSUME NEW i \in Address
      PROVE  (IF \E k \in 0 .. n - 1 : InPage(a, k) = i
              THEN And(c.cell[i], byte(CHOOSE k \in 0 .. n - 1 : InPage(a, k) = i))
              ELSE c.cell[i]) \in Byte
  <2>1. c.cell[i] \in Byte
    BY <1>0
  <2>2. ASSUME \E k \in 0 .. n - 1 : InPage(a, k) = i
        PROVE  And(c.cell[i], byte(CHOOSE k \in 0 .. n - 1 : InPage(a, k) = i)) \in Byte
    <3> DEFINE k == CHOOSE j \in 0 .. n - 1 : InPage(a, j) = i
    <3> HIDE DEF n, a
    <3>1. k \in 0 .. n - 1
      BY <2>2, Zenon
    <3> HIDE DEF k
    <3>2. byte(k) \in Byte
      BY <1>1, <3>1, Zenon
    <3> HIDE DEF byte
    <3>3. And(c.cell[i], byte(k)) \in Byte
      BY <2>1, <3>2, AndIn, Zenon
    <3> QED
      BY <3>3, Zenon DEF k
  <2> QED
    BY <2>1, <2>2, Zenon
<1> HIDE DEF n, a, byte
<1>3. [i \in Address |-> IF \E k \in 0 .. n - 1 : InPage(a, k) = i
              THEN And(c.cell[i], byte(CHOOSE k \in 0 .. n - 1 : InPage(a, k) = i))
              ELSE c.cell[i]] \in [Address -> Byte]
  BY <1>2, Zenon
<1> QED
  BY <1>3, Zenon DEF Programmed, n, a, byte

(* What a chip is when it has taken more bits: only its bits and whether it   *)
(* listens change, the latter when its first byte is complete.                *)
LEMMA ClockedIs ==
    ASSUME NEW c \in ChipType, NEW bits \in Seq(Bit)
    PROVE  LET d == Clocked(c, bits)
           IN  /\ d \in ChipType /\ d.bits = c.bits \o bits
               /\ d.cell = c.cell /\ d.wip = c.wip /\ d.wel = c.wel
               /\ Len(c.bits) < 8 /\ Len(d.bits) >= 8 =>
                      d.deaf = (c.wip /\ Value(d.bits, 1) # READ_SR)
<1> DEFINE b == c.bits \o bits
           x == [c EXCEPT !.bits = @ \o bits]
           decoded == Len(c.bits) < 8 /\ Len(x.bits) >= 8
           heard == IF decoded THEN c.wip /\ Opcode(x) # READ_SR ELSE c.deaf
           d == Clocked(c, bits)
<1>0. b \in Seq(Bit)
  BY DEF ChipType
<1>1. /\ x \in ChipType /\ x.bits = b /\ x.cell = c.cell /\ x.wip = c.wip
      /\ x.wel = c.wel /\ x.deaf = c.deaf
  BY <1>0 DEF ChipType
<1>2. heard \in BOOLEAN
  BY DEF ChipType
<1>3. d = [x EXCEPT !.deaf = heard]
  BY <1>1, Zenon DEF Clocked
<1>4. decoded => Opcode(x) = Value(b, 1)
  BY <1>0, <1>1 DEF Opcode
<1> HIDE DEF x, b, d, heard
<1>5. /\ d \in ChipType /\ d.bits = b /\ d.cell = c.cell /\ d.wip = c.wip
      /\ d.wel = c.wel /\ d.deaf = heard
  BY <1>1, <1>2, <1>3 DEF ChipType
<1>6. Len(c.bits) < 8 /\ Len(d.bits) >= 8 => d.deaf = (c.wip /\ Value(d.bits, 1) # READ_SR)
  BY <1>1, <1>4, <1>5, Zenon DEF heard
<1> QED
  BY <1>5, <1>6, Zenon DEF b, d

(* A chip d that was c when it was deselected.                                *)
Settled(c, d) ==
    /\ d \in ChipType /\ d.bits = <<>> /\ d.deaf = FALSE

(* A chip that is deselected has no bits left; one whose latch is clear and   *)
(* that has not heard WRITE_ENABLE alone has done nothing.                    *)
LEMMA DeselectedIs ==
    ASSUME NEW c \in ChipType
    PROVE  /\ Settled(c, Deselected(c))
           /\ ~c.wel /\ ~(Len(c.bits) = 8 /\ Value(c.bits, 1) = WRITE_ENABLE)
                => Deselected(c) = [c EXCEPT !.bits = <<>>, !.deaf = FALSE]
<1> DEFINE d == [c EXCEPT !.bits = <<>>, !.deaf = FALSE]
           told == IF c.deaf \/ Len(c.bits) % 8 # 0 THEN Float ELSE Opcode(c)
           alone == Len(c.bits) = 8
<1>0. <<>> \in Seq(Bit)
  OBVIOUS
<1>1. d \in ChipType /\ d.bits = <<>> /\ d.deaf = FALSE
  BY <1>0 DEF ChipType
<1>2. Deselected(c) =
        IF told = WRITE_ENABLE /\ alone THEN [d EXCEPT !.wel = TRUE]
        ELSE IF ~c.wel THEN d
        ELSE IF told = ERASE_CHIP /\ alone
        THEN [d EXCEPT !.wel = FALSE, !.wip = TRUE]
        ELSE IF told = WRITE_PAGE /\ Len(c.bits) >= 40
        THEN [d EXCEPT !.wel = FALSE, !.cell = Programmed(c)]
        ELSE IF told \in Spoiling /\ Len(c.bits) >= 16
        THEN [d EXCEPT !.wel = FALSE, !.cell = [a \in Address |-> 0]]
        ELSE d
  BY Zenon DEF Deselected
<1>3. Len(c.bits) >= 40 => Programmed(c) \in [Address -> Byte]
  BY ProgrammedIn
<1>4. [a \in Address |-> 0] \in [Address -> Byte]
  BY DEF Byte
<1>5. told = WRITE_ENABLE /\ alone => Value(c.bits, 1) = WRITE_ENABLE
  BY DEF Opcode, Float, WRITE_ENABLE
<1> DEFINE z == [a \in Address |-> 0]
<1> HIDE DEF d, told, z
<1>6. /\ [d EXCEPT !.wel = TRUE] \in ChipType
      /\ [d EXCEPT !.wel = FALSE, !.wip = TRUE] \in ChipType
      /\ Len(c.bits) >= 40 => [d EXCEPT !.wel = FALSE, !.cell = Programmed(c)] \in ChipType
      /\ [d EXCEPT !.wel = FALSE, !.cell = z] \in ChipType
  BY <1>1, <1>3, <1>4 DEF ChipType, z
<1>7. Settled(c, Deselected(c))
  <2>1. /\ [d EXCEPT !.wel = TRUE].bits = <<>> /\ [d EXCEPT !.wel = TRUE].deaf = FALSE
        /\ [d EXCEPT !.wel = FALSE, !.wip = TRUE].bits = <<>>
        /\ [d EXCEPT !.wel = FALSE, !.wip = TRUE].deaf = FALSE
        /\ [d EXCEPT !.wel = FALSE, !.cell = Programmed(c)].bits = <<>>
        /\ [d EXCEPT !.wel = FALSE, !.cell = Programmed(c)].deaf = FALSE
        /\ [d EXCEPT !.wel = FALSE, !.cell = z].bits = <<>>
        /\ [d EXCEPT !.wel = FALSE, !.cell = z].deaf = FALSE
    BY <1>1 DEF ChipType
  <2>2. /\ Settled(c, d) /\ Settled(c, [d EXCEPT !.wel = TRUE])
        /\ Settled(c, [d EXCEPT !.wel = FALSE, !.wip = TRUE])
        /\ Len(c.bits) >= 40 => Settled(c, [d EXCEPT !.wel = FALSE, !.cell = Programmed(c)])
        /\ Settled(c, [d EXCEPT !.wel = FALSE, !.cell = z])
    BY <1>1, <1>6, <2>1, Zenon DEF Settled
  <2> QED
    BY <1>2, <2>2, Zenon DEF z
<1>8. ~c.wel /\ ~(Len(c.bits) = 8 /\ Value(c.bits, 1) = WRITE_ENABLE) => Deselected(c) = d
  BY <1>2, <1>5, Zenon
<1> QED
  BY <1>7, <1>8, Zenon DEF d

(* A chip whose latch is clear keeps its cells and its busy bit when it is    *)
(* deselected, and sets the latch only if it has heard WRITE_ENABLE and       *)
(* nothing else.                                                              *)
LEMMA DeselectedKeeps ==
    ASSUME NEW c \in ChipType, ~c.wel
    PROVE  LET d == Deselected(c)
           IN  /\ d.wip = c.wip /\ d.cell = c.cell
               /\ d.wel => Len(c.bits) = 8 /\ Value(c.bits, 1) = WRITE_ENABLE /\ ~c.deaf
<1> DEFINE d == [c EXCEPT !.bits = <<>>, !.deaf = FALSE]
           told == IF c.deaf \/ Len(c.bits) % 8 # 0 THEN Float ELSE Opcode(c)
           alone == Len(c.bits) = 8
<1>1. /\ d.wel = c.wel /\ d.wip = c.wip /\ d.cell = c.cell
      /\ [d EXCEPT !.wel = TRUE].wip = c.wip /\ [d EXCEPT !.wel = TRUE].cell = c.cell
  BY DEF ChipType
<1>2. Deselected(c) = IF told = WRITE_ENABLE /\ alone THEN [d EXCEPT !.wel = TRUE] ELSE d
  BY Zenon DEF Deselected
<1>3. told = WRITE_ENABLE /\ alone => Value(c.bits, 1) = WRITE_ENABLE /\ ~c.deaf
  BY DEF Opcode, Float, WRITE_ENABLE
<1> HIDE DEF d, told
<1> QED
  BY <1>1, <1>2, <1>3, Zenon

(* The end of an erase changes the cells and the busy bit only.               *)
LEMMA IdleIs ==
    ASSUME NEW c \in ChipType
    PROVE  /\ Idle(c) \in ChipType /\ Idle(c).wip = FALSE /\ Idle(c).wel = c.wel
           /\ Idle(c).bits = c.bits /\ Idle(c).deaf = c.deaf
<1> DEFINE z == [a \in Address |-> Blank]
           d == [c EXCEPT !.cell = z, !.wip = FALSE]
<1>1. z \in [Address -> Byte]
  BY DEF Byte, Blank
<1> HIDE DEF z
<1>2. d \in ChipType /\ d.wip = FALSE /\ d.wel = c.wel /\ d.bits = c.bits /\ d.deaf = c.deaf
  BY <1>1 DEF ChipType
<1>3. Idle(c) = IF c.wip THEN d ELSE c
  BY Zenon DEF Idle, z
<1>4. c.wip \in BOOLEAN
  BY DEF ChipType
<1> HIDE DEF d
<1> QED
  BY <1>2, <1>3, <1>4, Zenon

(* A chip that has just been told to enable writing.                          *)
Armed(e) ==
    /\ e \in ChipType /\ e.bits = <<>> /\ e.deaf = FALSE
    /\ e.wel => ~e.wip

(* A chip between two commands.                                               *)
Quiet(c) ==
    /\ c \in ChipType /\ c.bits = <<>> /\ c.deaf = FALSE /\ ~c.wel

(* After Flash_WriteEnable the latch is set only in a chip that is not busy,  *)
(* whatever bits the chip had before (drvflash.c 18-23).                      *)
LEMMA EnableIs ==
    ASSUME NEW c \in ChipType, ~c.wel
    PROVE  Armed(Flash_WriteEnable(c)) /\ Flash_WriteEnable(c).wip = c.wip
<1> DEFINE w == AllBits(<<WRITE_ENABLE>>)
           d == Clocked(c, w)
           e == Flash_WriteEnable(c)
<1>1. e = Deselected(d)
  BY Zenon DEF Flash_WriteEnable, Transaction, SPI_WriteBytes
<1>2. w \in Seq(Bit) /\ Len(w) = 8 /\ Value(w, 1) = WRITE_ENABLE
  <2>1. <<WRITE_ENABLE>> \in Seq(Int) /\ Len(<<WRITE_ENABLE>>) = 1
        /\ <<WRITE_ENABLE>>[1] = WRITE_ENABLE /\ WRITE_ENABLE \in Byte
    BY DEF WRITE_ENABLE, Byte
  <2> DEFINE b == <<WRITE_ENABLE>>
  <2> HIDE DEF b
  <2>2. AllBits(b) \in Seq(Bit) /\ Len(AllBits(b)) = 8 * Len(b)
    BY <2>1, AllBitsIn, Zenon DEF b
  <2>3. 1 >= 1
    OBVIOUS
  <2>4. Value(AllBits(b), 1) = b[1]
    BY <2>1, <2>3, FirstByte, Zenon DEF b
  <2>5. Len(AllBits(b)) = 8
    BY <2>1, <2>2 DEF b
  <2> QED
    BY <2>1, <2>2, <2>4, <2>5, Zenon DEF b
<1> HIDE DEF w
<1>3. /\ d \in ChipType /\ d.bits = c.bits \o w /\ d.wip = c.wip /\ d.wel = c.wel
      /\ Len(c.bits) < 8 /\ Len(d.bits) >= 8 =>
             d.deaf = (c.wip /\ Value(d.bits, 1) # READ_SR)
  BY <1>2, ClockedIs
<1> HIDE DEF d, e
<1>4. /\ e \in ChipType /\ e.bits = <<>> /\ e.deaf = FALSE /\ e.wip = c.wip
      /\ e.wel => Len(d.bits) = 8 /\ ~d.deaf
  BY <1>1, <1>3, DeselectedIs, DeselectedKeeps, Zenon DEF Settled
<1>5. e.wel => ~c.wip
  <2> SUFFICES ASSUME e.wel PROVE ~c.wip
    OBVIOUS
  <2>1. c.bits \in Seq(Bit)
    BY DEF ChipType
  <2>2. c.bits = <<>>
    BY <1>2, <1>3, <1>4, <2>1
  <2>3. d.bits = w /\ Len(c.bits) = 0
    BY <1>2, <1>3, <2>2
  <2>b. Len(d.bits) = 8
    BY <1>2, <2>3, Zenon
  <2>a. Len(c.bits) < 8 /\ Len(d.bits) >= 8
    BY <2>3, <2>b
  <2>4. d.deaf = (c.wip /\ Value(d.bits, 1) # READ_SR)
    BY <1>3, <2>a, Zenon
  <2>5. Value(d.bits, 1) # READ_SR
    BY <1>2, <2>3 DEF WRITE_ENABLE, READ_SR
  <2> QED
    BY <1>4, <2>4, <2>5, Zenon
<1> QED
  BY <1>4, <1>5, Zenon DEF Armed, e

(* Opcodes that use the latch up.                                             *)
Uses(bytes) ==
    /\ bytes \in Seq(Int)
    /\ \/ Len(bytes) = 1 /\ bytes[1] = ERASE_CHIP
       \/ Len(bytes) >= 5 /\ bytes[1] = WRITE_PAGE

(* The command after Flash_WriteEnable clears the latch: a chip that heard    *)
(* the one hears the other.                                                   *)
LEMMA UsedUp ==
    ASSUME NEW e, Armed(e), NEW bytes, Uses(bytes)
    PROVE  Quiet(Transaction(e, bytes))
<1> DEFINE w == AllBits(bytes)
           d == Clocked(e, w)
           f == Transaction(e, bytes)
           b == bytes[1]
<1>1. f = Deselected(d)
  BY Zenon DEF Transaction, SPI_WriteBytes
<1>2. /\ w \in Seq(Bit) /\ Len(w) = 8 * Len(bytes) /\ Len(bytes) \in Nat
      /\ Value(w, 1) = b /\ b \in {ERASE_CHIP, WRITE_PAGE} /\ Len(bytes) >= 1
  <2>1. bytes \in Seq(Int) /\ Len(bytes) \in Nat /\ Len(bytes) >= 1
        /\ b \in {ERASE_CHIP, WRITE_PAGE} /\ b \in Byte
    BY DEF Uses, ERASE_CHIP, WRITE_PAGE, Byte
  <2> QED
    BY <2>1, AllBitsIn, FirstByte, Zenon
<1>3. e \in ChipType /\ e.bits = <<>> /\ e.wel \in BOOLEAN /\ (e.wel => ~e.wip)
  BY DEF Armed, ChipType
<1> HIDE DEF w
<1>4. /\ d \in ChipType /\ d.bits = e.bits \o w /\ d.wip = e.wip /\ d.wel = e.wel
      /\ Len(e.bits) < 8 /\ Len(d.bits) >= 8 =>
             d.deaf = (e.wip /\ Value(d.bits, 1) # READ_SR)
  BY <1>2, <1>3, ClockedIs
<1> HIDE DEF d, f
<1>5. d.bits = w /\ Len(e.bits) = 0 /\ Len(d.bits) = 8 * Len(bytes)
  BY <1>2, <1>3, <1>4
<1>6. d.deaf = (e.wip /\ Value(d.bits, 1) # READ_SR)
  BY <1>2, <1>4, <1>5
<1>7. Settled(d, f)
  BY <1>1, <1>4, DeselectedIs, Zenon
<1>8. CASE ~e.wel
  <2>1. f.wel => Value(d.bits, 1) = WRITE_ENABLE
    BY <1>1, <1>4, <1>8, DeselectedKeeps, Zenon
  <2>2. b # WRITE_ENABLE
    BY <1>2 DEF ERASE_CHIP, WRITE_PAGE, WRITE_ENABLE
  <2> QED
    BY <1>2, <1>5, <1>7, <2>1, <2>2, Zenon DEF Settled, Quiet, f
<1>9. CASE e.wel
  <2>1. ~d.deaf /\ d.wel
    BY <1>3, <1>4, <1>6, <1>9, Zenon
  <2>2. Opcode(d) = b
    BY <1>2, <1>5 DEF Opcode
  <2>3. Len(d.bits) % 8 = 0
    BY <1>2, <1>5
  <2> DEFINE x == [d EXCEPT !.bits = <<>>, !.deaf = FALSE]
  <2>4. CASE b = ERASE_CHIP
    <3>0. WRITE_PAGE # ERASE_CHIP
      BY DEF ERASE_CHIP, WRITE_PAGE
    <3>a. Len(bytes) = 1
      BY <2>4, <3>0, Zenon DEF Uses
    <3>1. Len(d.bits) = 8
      BY <1>5, <3>a
    <3>2. ERASE_CHIP # WRITE_ENABLE
      BY DEF ERASE_CHIP, WRITE_ENABLE
    <3>3. f = [x EXCEPT !.wel = FALSE, !.wip = TRUE]
      BY <1>1, <2>1, <2>2, <2>3, <2>4, <3>1, <3>2, Zenon DEF Deselected
    <3>4. f.wel = FALSE
      BY <1>4, <3>3 DEF ChipType
    <3> QED
      BY <1>7, <3>4, Zenon DEF Settled, Quiet, f
  <2>5. CASE b = WRITE_PAGE
    <3>1. Len(d.bits) >= 40
      BY <1>2, <1>5, <2>5 DEF Uses, ERASE_CHIP, WRITE_PAGE
    <3>2. WRITE_PAGE # WRITE_ENABLE /\ WRITE_PAGE # ERASE_CHIP
      BY DEF ERASE_CHIP, WRITE_ENABLE, WRITE_PAGE
    <3>3. f = [x EXCEPT !.wel = FALSE, !.cell = Programmed(d)]
      BY <1>1, <2>1, <2>2, <2>3, <2>5, <3>1, <3>2, Zenon DEF Deselected
    <3>4. f.wel = FALSE
      BY <1>4, <3>3 DEF ChipType
    <3> QED
      BY <1>7, <3>4, Zenon DEF Settled, Quiet, f
  <2> QED
    BY <1>2, <2>4, <2>5, Zenon
<1> QED
  BY <1>3, <1>8, <1>9, Zenon DEF f

-----------------------------------------------------------------------------
(* The driver as the interrupt runs it.                                       *)

(* Flash_EraseChip leaves no latch set.                                       *)
LEMMA EraseQuiet ==
    ASSUME NEW c \in ChipType, ~c.wel
    PROVE  Quiet(Flash_EraseChip(c))
<1> DEFINE e == Flash_WriteEnable(c)
           f == Idle(e)
<1>1. Armed(e)
  BY EnableIs
<1> HIDE DEF e
<1>2. Armed(f)
  BY <1>1, IdleIs, Zenon DEF Armed
<1> HIDE DEF f
<1>3. Uses(<<ERASE_CHIP>>)
  BY DEF Uses, ERASE_CHIP
<1>4. Quiet(Transaction(f, <<ERASE_CHIP>>))
  BY <1>2, <1>3, UsedUp, Zenon
<1> QED
  BY <1>4, Zenon DEF Flash_EraseChip, Flash_WaitBusy, e, f

(* The three bytes of an address.                                             *)
LEMMA AddressIs ==
    ASSUME NEW a \in Nat
    PROVE  /\ AddressBytes(a) \in Seq(Int) /\ Len(AddressBytes(a)) = 3
           /\ \A i \in 1 .. 3 : AddressBytes(a)[i] \in Byte
BY DEF AddressBytes, Byte

(* Flash_WritePage leaves no latch set.                                       *)
LEMMA PageQuiet ==
    ASSUME NEW c \in ChipType, ~c.wel, NEW a \in Nat,
           NEW bytes \in Seq(Int), Len(bytes) >= 1
    PROVE  Quiet(Flash_WritePage(c, a, bytes))
<1> DEFINE e == Flash_WriteEnable(c)
           s == <<WRITE_PAGE>> \o AddressBytes(a) \o bytes
           f == Transaction(e, s)
<1>1. Armed(e)
  BY EnableIs
<1> HIDE DEF e
<1>2. Uses(s)
  <2> DEFINE h == <<WRITE_PAGE>> \o AddressBytes(a)
           g == <<WRITE_PAGE>>
           t == AddressBytes(a)
  <2>1. t \in Seq(Int) /\ Len(t) = 3
    BY AddressIs
  <2> HIDE DEF t
  <2>2. g \in Seq(Int) /\ Len(g) = 1 /\ g[1] = WRITE_PAGE
    BY DEF WRITE_PAGE
  <2> HIDE DEF g
  <2>a. /\ h \in Seq(Int) /\ Len(h) = Len(g) + Len(t)
        /\ \A i \in 1 .. Len(g) + Len(t) :
              h[i] = IF i <= Len(g) THEN g[i] ELSE t[i - Len(g)]
    BY <2>1, <2>2, ConcatProperties, Zenon DEF g, t
  <2>b. Len(h) = 4 /\ h[1] = WRITE_PAGE
    BY <2>1, <2>2, <2>a
  <2>c. s = h \o bytes
    OBVIOUS
  <2>e. bytes \in Seq(Int)
    OBVIOUS
  <2> HIDE DEF h, s
  <2>g. h \in Seq(Int)
    BY <2>a, Zenon
  <2>f. /\ h \o bytes \in Seq(Int) /\ Len(h \o bytes) = Len(h) + Len(bytes)
        /\ \A i \in 1 .. Len(h) + Len(bytes) :
              (h \o bytes)[i] = IF i <= Len(h) THEN h[i] ELSE bytes[i - Len(h)]
    BY <2>e, <2>g, ConcatProperties, Zenon
  <2>3. /\ s \in Seq(Int) /\ Len(s) = Len(h) + Len(bytes)
        /\ \A i \in 1 .. Len(h) + Len(bytes) :
              s[i] = IF i <= Len(h) THEN h[i] ELSE bytes[i - Len(h)]
    BY <2>c, <2>f, Zenon
  <2>4. s \in Seq(Int) /\ Len(s) = 4 + Len(bytes) /\ s[1] = h[1] /\ Len(bytes) \in Nat
    BY <2>b, <2>3
  <2>5. Len(s) >= 5
    BY <2>4
  <2> QED
    BY <2>b, <2>4, <2>5, Zenon DEF Uses
<1> HIDE DEF s
<1>3. Quiet(f)
  BY <1>1, <1>2, UsedUp, Zenon
<1> HIDE DEF f
<1>4. Quiet(Idle(f))
  BY <1>3, IdleIs, Zenon DEF Quiet
<1> QED
  BY <1>4, Zenon DEF Flash_WritePage, Flash_WaitBusy, e, f, s

(* A set of naturals that is not empty has a least member.                    *)
LEMMA Least ==
    ASSUME NEW T, T \subseteq Nat, T # {}
    PROVE  \E x \in T : \A y \in T : x <= y
<1> DEFINE R == {ss \in Nat \X Nat : ss[1] < ss[2]}
<1>1. IsWellFoundedOn(R, Nat)
  BY NatLessThanWellFounded, Zenon DEF OpToRel
<1>2. \A x, y \in Nat : <<y, x>> \in R <=> y < x
  OBVIOUS
<1> HIDE DEF R
<1>3. PICK x \in T : \A y \in T : <<y, x>> \notin R
  BY <1>1, WFMin, Zenon
<1>4. \A y \in T : ~ (y < x)
  BY <1>2, <1>3, Zenon
<1> QED
  BY <1>4

(* Induction over the naturals, for a set of them.                            *)
LEMMA Induct ==
    ASSUME NEW G, 0 \in G, \A n \in Nat : n \in G => n + 1 \in G
    PROVE  Nat \subseteq G
<1> SUFFICES ASSUME Nat \ G # {}
             PROVE  FALSE
  OBVIOUS
<1>1. PICK x \in Nat \ G : \A y \in Nat \ G : x <= y
  BY Least
<1>2. x # 0 /\ x - 1 \in Nat
  BY <1>1
<1>3. x - 1 \in G
  BY <1>1, <1>2
<1> QED
  BY <1>1, <1>2, <1>3

(* What Folds counts with is the largest number of an index set.              *)
LEMMA MaxOf ==
    ASSUME NEW n \in Nat, NEW S, S \subseteq 1 .. n + 1, n + 1 \in S
    PROVE  Max(S) = n + 1
<1>1. n + 1 \in S /\ \A y \in S : n + 1 >= y
  OBVIOUS
<1>2. \A x \in S : (\A y \in S : x >= y) => x = n + 1
  BY <1>1
<1> QED
  BY <1>1, <1>2 DEF Max

(* The loop of Flash_WriteNoCheck: its page at turn k ...                     *)
PageOf(a, data, d, k) ==
    LET off == a % Page
        pages == (off + Len(data) - 1) \div Page + 1
        from(i) == IF i = 1 THEN 1 ELSE (i - 1) * Page - off + 1
        to(i) == IF i = pages THEN Len(data) ELSE i * Page - off
    IN  Flash_WritePage(d, a + from(k) - 1, SubSeq(data, from(k), to(k)))

(* ... and the recursive function inside FoldLeft: its value at S, and g as   *)
(* that function, on the sets of numbers up to n.                             *)
FoldAt(a, data, x, seq, g, S) ==
    IF S = {} THEN x ELSE PageOf(a, data, g[S \ {Max(S)}], seq[Max(S)])
IsFold(a, data, x, seq, n, g) ==
    g = [S \in SUBSET (1 .. n) |-> FoldAt(a, data, x, seq, g, S)]

(* A fold over an index set runs through a row of values, one for each index. *)
LEMMA FoldsExist ==
    ASSUME NEW a, NEW data, NEW x, NEW seq
    PROVE  \A n \in Nat : \E g : IsFold(a, data, x, seq, n, g)
<1> DEFINE G == {n \in Nat : \E g : IsFold(a, data, x, seq, n, g)}
<1>1. 0 \in G
  <2> DEFINE g == [S \in SUBSET (1 .. 0) |-> x]
  <2>1. \A S \in SUBSET (1 .. 0) : S = {}
    OBVIOUS
  <2>2. \A S \in SUBSET (1 .. 0) : FoldAt(a, data, x, seq, g, S) = x
    BY <2>1, Zenon DEF FoldAt
  <2>3. IsFold(a, data, x, seq, 0, g)
    BY <2>2 DEF IsFold
  <2> HIDE DEF g
  <2> QED
    BY <2>3
<1>2. ASSUME NEW n \in Nat, n \in G
      PROVE  n + 1 \in G
  <2>1. PICK f : IsFold(a, data, x, seq, n, f)
    BY <1>2
  <2> DEFINE g == [S \in SUBSET (1 .. n + 1) |-> FoldAt(a, data, x, seq, f, S)]
  <2>2. \A S \in SUBSET (1 .. n) : f[S] = FoldAt(a, data, x, seq, f, S)
    BY <2>1, Zenon DEF IsFold
  <2>3. \A S \in SUBSET (1 .. n + 1) : g[S] = FoldAt(a, data, x, seq, f, S)
    OBVIOUS
  <2>a. SUBSET (1 .. n) \subseteq SUBSET (1 .. n + 1)
    OBVIOUS
  <2> HIDE DEF g
  <2>4. \A S \in SUBSET (1 .. n) : g[S] = f[S]
    BY <2>2, <2>3, <2>a, Zenon
  <2>5. ASSUME NEW S \in SUBSET (1 .. n + 1)
        PROVE  FoldAt(a, data, x, seq, f, S) = FoldAt(a, data, x, seq, g, S)
    <3>1. CASE S = {}
      BY <3>1, Zenon DEF FoldAt
    <3>2. CASE S # {}
      <4>1. S \ {Max(S)} \in SUBSET (1 .. n)
        <5>1. CASE n + 1 \in S
          <6>1. Max(S) = n + 1
            BY <5>1, MaxOf
          <6>2. S \ {n + 1} \in SUBSET (1 .. n)
            OBVIOUS
          <6> QED
            BY <6>1, <6>2, Zenon
        <5>2. CASE n + 1 \notin S
          <6>1. S \in SUBSET (1 .. n)
            BY <5>2
          <6> QED
            BY <6>1, Zenon
        <5> QED
          BY <5>1, <5>2
      <4>2. f[S \ {Max(S)}] = g[S \ {Max(S)}]
        BY <2>4, <4>1, Zenon
      <4> QED
        BY <3>2, <4>2, Zenon DEF FoldAt
    <3> QED
      BY <3>1, <3>2
  <2>6. g = [S \in SUBSET (1 .. n + 1) |-> FoldAt(a, data, x, seq, g, S)]
    BY <2>5 DEF g
  <2>7. IsFold(a, data, x, seq, n + 1, g)
    BY <2>6, Zenon DEF IsFold
  <2> QED
    BY <2>7
<1> HIDE DEF G
<1>3. Nat \subseteq G
  BY <1>1, <1>2, Induct
<1> QED
  BY <1>3 DEF G

(* What they compute, as a row of values.                                     *)
Row(a, data, x, seq, n, h) ==
    /\ h[0] = x
    /\ \A k \in 1 .. n : h[k] = PageOf(a, data, h[k - 1], seq[k])

Folded(a, data, x, seq, n) == (CHOOSE g : IsFold(a, data, x, seq, n, g))[1 .. n]

(* FoldLeft over a sequence runs through such a row, from the first member to *)
(* the last.                                                                  *)
LEMMA FoldsInTurn ==
    ASSUME NEW a, NEW data, NEW x, NEW seq, NEW n \in Nat
    PROVE  \E h : /\ Row(a, data, x, seq, n, h)
                  /\ Folded(a, data, x, seq, n) = h[n]
<1> DEFINE g == CHOOSE f : IsFold(a, data, x, seq, n, f)
<1>2. IsFold(a, data, x, seq, n, g)
  BY FoldsExist, Zenon
<1> HIDE DEF g
<1>3. \A S \in SUBSET (1 .. n) : g[S] = FoldAt(a, data, x, seq, g, S)
  BY <1>2, Zenon DEF IsFold
<1> DEFINE h == [k \in 0 .. n |-> g[1 .. k]]
<1>4. h[0] = x
  <2>1. 1 .. 0 = {} /\ 1 .. 0 \in SUBSET (1 .. n)
    OBVIOUS
  <2>2. g[1 .. 0] = x
    BY <1>3, <2>1, Zenon DEF FoldAt
  <2> QED
    BY <2>2
<1>5. ASSUME NEW k \in 1 .. n
      PROVE  h[k] = PageOf(a, data, h[k - 1], seq[k])
  <2>0. k \in 1 .. k /\ k - 1 \in Nat
    OBVIOUS
  <2>a. \A i \in 1 .. k : i \in 1 .. n
    OBVIOUS
  <2>1. 1 .. k \in SUBSET (1 .. n) /\ 1 .. k # {} /\ k - 1 \in Nat
    BY <2>0, <2>a
  <2>2. Max(1 .. k) = k
    <3>1. (k - 1) + 1 = k
      OBVIOUS
    <3>2. 1 .. k \subseteq 1 .. (k - 1) + 1 /\ (k - 1) + 1 \in 1 .. k
      BY <2>1
    <3> QED
      BY <2>1, <3>1, <3>2, MaxOf
  <2>3. (1 .. k) \ {k} = 1 .. k - 1
    OBVIOUS
  <2>4. g[1 .. k] = PageOf(a, data, g[1 .. k - 1], seq[k])
    BY <1>3, <2>1, <2>2, <2>3, Zenon DEF FoldAt
  <2>5. h[k] = g[1 .. k] /\ h[k - 1] = g[1 .. k - 1]
    BY <2>1
  <2> QED
    BY <2>4, <2>5, Zenon
<1>6. h[n] = g[1 .. n]
  OBVIOUS
<1>7. Row(a, data, x, seq, n, h)
  BY <1>4, <1>5, Zenon DEF Row
<1> HIDE DEF h
<1> QED
  BY <1>6, <1>7, Zenon DEF g, Folded

(* How many pages a write takes, and the chips it goes through.               *)
Pages(a, data) == ((a % Page) + Len(data) - 1) \div Page + 1
Looped(c, a, data, h) ==
    /\ h[0] = c
    /\ \A k \in 1 .. Pages(a, data) : h[k] = PageOf(a, data, h[k - 1], k)
    /\ Flash_WriteNoCheck(c, a, data) = h[Pages(a, data)]

(* Flash_WriteNoCheck as a row of chips, one for each page written.           *)
LEMMA PagesInTurn ==
    ASSUME NEW c, NEW a, NEW data, Pages(a, data) \in Nat
    PROVE  \E h : Looped(c, a, data, h)
<1> DEFINE n == Pages(a, data)
           seq == [i \in 1 .. n |-> i]
<1>1. Flash_WriteNoCheck(c, a, data) = Folded(a, data, c, seq, n)
  <2>1. DOMAIN seq = 1 .. n
    OBVIOUS
  <2>2. Flash_WriteNoCheck(c, a, data)
          = FoldLeft(LAMBDA d, i : PageOf(a, data, d, i), c, seq)
    BY Zenon DEF Flash_WriteNoCheck, PageOf, Pages, n, seq
  <2> HIDE DEF seq, n
  <2>3. FoldLeft(LAMBDA d, i : PageOf(a, data, d, i), c, seq) = Folded(a, data, c, seq, n)
    BY <2>1, Zenon DEF FoldLeft, MapThenFoldSet, Folded, IsFold, FoldAt
  <2> QED
    BY <2>2, <2>3, Zenon
<1>0. n \in Nat
  OBVIOUS
<1> HIDE DEF n, seq
<1>2. PICK h : /\ Row(a, data, c, seq, n, h)
               /\ Folded(a, data, c, seq, n) = h[n]
  BY <1>0, FoldsInTurn, Zenon
<1>3. \A k \in 1 .. n : h[k] = PageOf(a, data, h[k - 1], k)
  <2>1. \A k \in 1 .. n : seq[k] = k
    BY DEF seq
  <2> QED
    BY <1>2, <2>1, Zenon DEF Row
<1> QED
  BY <1>1, <1>2, <1>3, Zenon DEF Row, Looped, n

(* Multiples of a number, in order.                                           *)
LEMMA Multiples ==
    ASSUME NEW p \in Nat, p >= 1, NEW i \in Nat, NEW j \in Nat, i <= j
    PROVE  i * p <= j * p /\ i * p \in Nat /\ (i + 1) * p = i * p + p
<1>1. (j - i) * p >= 0 /\ j * p = i * p + (j - i) * p
  BY SMT
<1> QED
  BY <1>1, SMT

(* A page of a write: where it starts in the data, and ends.                  *)
LEMMA PieceIs ==
    ASSUME NEW off \in Nat, NEW l \in Nat, l >= 1, Page \in Nat, off < Page,
           NEW n, n = (off + l - 1) \div Page + 1, NEW k \in 1 .. n
    PROVE  LET from == IF k = 1 THEN 1 ELSE (k - 1) * Page - off + 1
               to == IF k = n THEN l ELSE k * Page - off
           IN  from \in 1 .. l /\ to \in from .. l
<1> DEFINE x == off + l - 1
           q == x \div Page
           u == (k - 1) * Page
           v == k * Page
           w == q * Page
<1>1. x \in Nat /\ Page >= 1 /\ q \in Nat /\ n = q + 1
  BY SMT
<1>2. x = Page * q + (x % Page) /\ x % Page \in 0 .. Page - 1
  BY <1>1, SMT
<1>3. w <= x /\ w \in Nat
  <2>1. q * Page = Page * q
    BY <1>1, SMT
  <2> HIDE DEF x
  <2> QED
    BY <1>1, <1>2, <2>1
<1> HIDE DEF q, x
<1>4. k \in Nat /\ k >= 1 /\ k <= q + 1
  BY <1>1
<1>5. v = u + Page /\ u \in Nat /\ (k - 1 <= q) /\ u <= w
  <2>1. k - 1 \in Nat /\ k - 1 <= q /\ (k - 1) + 1 = k
    BY <1>1, <1>4
  <2> DEFINE i == k - 1
  <2> HIDE DEF i
  <2>2. i * Page <= q * Page /\ i * Page \in Nat /\ (i + 1) * Page = i * Page + Page
    BY <1>1, <2>1, Multiples DEF i
  <2> QED
    BY <2>1, <2>2, Zenon DEF i
<1>6. k = 1 => u = 0
  BY <1>1, SMT
<1>7. k # 1 => u >= Page
  <2>1. ASSUME k # 1 PROVE u >= Page
    <3>1. 1 <= k - 1 /\ k - 1 \in Nat /\ 1 \in Nat
      BY <1>4, <2>1
    <3>2. 1 * Page <= (k - 1) * Page
      BY <1>1, <3>1, Multiples
    <3>3. 1 * Page = Page
      BY <1>1
    <3> QED
      BY <3>2, <3>3, Zenon
  <2> QED
    BY <2>1
<1>8. k # n => v <= w
  <2>1. ASSUME k # n PROVE v <= w
    <3>1. k <= q /\ k \in Nat /\ q \in Nat
      BY <1>1, <1>4, <2>1
    <3> QED
      BY <1>1, <3>1, Multiples
  <2> QED
    BY <2>1
<1>9. w <= off + l - 1
  BY <1>3 DEF x
<1> HIDE DEF u, v, w
<1>10. w \in Int /\ u \in Int /\ v \in Int
  BY <1>1, <1>3, <1>5
<1> DEFINE from == IF k = 1 THEN 1 ELSE u - off + 1
           to == IF k = n THEN l ELSE v - off
<1>11. from \in 1 .. l
  BY <1>5, <1>7, <1>9, <1>10
<1>12. to \in from .. l
  BY <1>1, <1>5, <1>6, <1>8, <1>9, <1>10, <1>11
<1> QED
  BY <1>11, <1>12, Zenon DEF u, v

(* Flash_WriteNoCheck leaves no latch set, for any number of pages.           *)
LEMMA WriteQuiet ==
    ASSUME NEW c \in ChipType, ~c.wel, NEW a \in Nat, NEW data \in Seq(Int), Len(data) >= 1
    PROVE  Quiet(Flash_WriteNoCheck(c, a, data))
<1> DEFINE off == a % Page
           l == Len(data)
           n == (off + l - 1) \div Page + 1
<1>1. /\ Page \in Nat /\ Page >= 1 /\ off \in Nat /\ off < Page /\ l \in Nat /\ l >= 1
  BY SpiBusAssumption
<1>2. n \in Nat /\ n >= 1
  <2> HIDE DEF off, l
  <2>1. off + l - 1 \in Nat
    BY <1>1
  <2> DEFINE x == off + l - 1
  <2> HIDE DEF x
  <2>2. x \div Page \in Nat
    BY <1>1, <2>1, SMT DEF x
  <2> QED
    BY <2>2 DEF x
<1>a. n = Pages(a, data)
  BY DEF Pages
<1>b. Pages(a, data) \in Nat
  BY <1>2, <1>a
<1>3. PICK h : /\ h[0] = c
               /\ \A k \in 1 .. n : h[k] = PageOf(a, data, h[k - 1], k)
               /\ Flash_WriteNoCheck(c, a, data) = h[n]
  <2>1. PICK h : Looped(c, a, data, h)
    BY <1>b, PagesInTurn, Zenon
  <2> HIDE DEF n
  <2> QED
    BY <2>1, <1>a, Zenon DEF Looped
<1>4. ASSUME NEW k \in 1 .. n, NEW d \in ChipType, ~d.wel
      PROVE  Quiet(PageOf(a, data, d, k))
  <2> DEFINE from == IF k = 1 THEN 1 ELSE (k - 1) * Page - off + 1
             to == IF k = n THEN l ELSE k * Page - off
             s == SubSeq(data, from, to)
  <2>1. from \in 1 .. l /\ to \in from .. l
    <3> HIDE DEF off, l
    <3> QED
      BY <1>1, <1>4, PieceIs, Zenon
  <2>2. PageOf(a, data, d, k) = Flash_WritePage(d, a + from - 1, s)
    BY Zenon DEF PageOf
  <2> HIDE DEF from, to, n, off
  <2>3. s \in Seq(Int) /\ Len(s) >= 1
    BY <1>1, <2>1
  <2>4. a + from - 1 \in Nat
    BY <2>1
  <2> HIDE DEF s
  <2> QED
    BY <1>4, <2>2, <2>3, <2>4, PageQuiet, Zenon
<1> HIDE DEF n
<1> DEFINE G == {k \in Nat : k + 1 <= n => Quiet(h[k + 1])}
<1>5. 0 \in G
  <2>1. 1 \in 1 .. n /\ 0 + 1 = 1 /\ 1 - 1 = 0
    BY <1>2
  <2>2. Quiet(h[1])
    BY <1>3, <1>4, <2>1, Zenon
  <2> QED
    BY <2>1, <2>2
<1>6. ASSUME NEW k \in Nat, k \in G PROVE k + 1 \in G
  <2> SUFFICES ASSUME (k + 1) + 1 <= n PROVE Quiet(h[(k + 1) + 1])
    OBVIOUS
  <2>1. Quiet(h[k + 1])
    BY <1>2, <1>6
  <2>2. (k + 1) + 1 \in 1 .. n /\ ((k + 1) + 1) - 1 = k + 1
    BY <1>2
  <2> DEFINE j == (k + 1) + 1
             d == h[k + 1]
  <2>3. h[j] = PageOf(a, data, d, j)
    BY <1>3, <2>2
  <2> HIDE DEF j, d
  <2>4. Quiet(PageOf(a, data, d, j))
    BY <1>4, <2>1, <2>2, Zenon DEF Quiet, d, j
  <2> QED
    BY <2>3, <2>4, Zenon DEF j
<1> HIDE DEF G
<1>7. Nat \subseteq G
  BY <1>5, <1>6, Induct
<1>8. n - 1 \in G /\ (n - 1) + 1 = n /\ n <= n
  BY <1>2, <1>7
<1>9. Quiet(h[n])
  BY <1>8, Zenon DEF G
<1> QED
  BY <1>3, <1>9, Zenon

(* Nor does a transaction of two bytes or more, whatever bits were there      *)
(* before: it cannot be WRITE_ENABLE alone.                                   *)
LEMMA LongQuiet ==
    ASSUME NEW c \in ChipType, ~c.wel, NEW bytes \in Seq(Int), Len(bytes) >= 2
    PROVE  Quiet(Deselected(SPI_WriteBytes(c, bytes)))
<1> DEFINE w == AllBits(bytes)
           d == Clocked(c, w)
           f == Deselected(d)
<1>1. w \in Seq(Bit) /\ Len(w) = 8 * Len(bytes)
  BY AllBitsIn
<1>2. c.bits \in Seq(Bit)
  BY DEF ChipType
<1> HIDE DEF w
<1>3. d \in ChipType /\ d.bits = c.bits \o w /\ d.wel = c.wel
  BY <1>1, ClockedIs
<1> HIDE DEF d
<1>4. Len(d.bits) = Len(c.bits) + Len(w)
  <2>1. w \in Seq(Bit)
    BY <1>1
  <2>2. Len(c.bits \o w) = Len(c.bits) + Len(w)
    BY <1>2, <2>1, ConcatProperties, Zenon
  <2> QED
    BY <1>3, <2>2, Zenon
<1>5. Len(d.bits) # 8
  <2>1. Len(c.bits) \in Nat /\ Len(bytes) \in Nat /\ Len(bytes) >= 2
    BY <1>2
  <2>2. Len(d.bits) = Len(c.bits) + 8 * Len(bytes)
    BY <1>1, <1>4, Zenon
  <2> DEFINE m == Len(c.bits)
             l == Len(bytes)
             z == Len(d.bits)
  <2>3. m \in Nat /\ l \in Nat /\ l >= 2 /\ z = m + 8 * l
    BY <2>1, <2>2
  <2> HIDE DEF m, l, z
  <2>4. z # 8
    BY <2>3
  <2> QED
    BY <2>4 DEF z
<1>6. Settled(d, f) /\ ~f.wel
  BY <1>3, <1>5, DeselectedIs, DeselectedKeeps, Zenon
<1> HIDE DEF f
<1>7. Quiet(f)
  BY <1>6, Zenon DEF Quiet, Settled
<1> QED
  BY <1>7, Zenon DEF SPI_WriteBytes, f, d, w

(* The bytes of a READ.                                                       *)
LEMMA ReadBytes ==
    ASSUME NEW a \in Nat, NEW n \in Nat, NEW x \in Int
    PROVE  LET s == <<READ_DATA>> \o AddressBytes(a) \o [k \in 1 .. n |-> x]
           IN  s \in Seq(Int) /\ Len(s) >= 2
<1> DEFINE g == <<READ_DATA>>
           t == AddressBytes(a)
           y == [k \in 1 .. n |-> x]
           h == g \o t
           s == h \o y
<1>1. g \in Seq(Int) /\ Len(g) = 1
  BY DEF READ_DATA
<1>2. t \in Seq(Int) /\ Len(t) = 3
  BY AddressIs
<1>3. y \in Seq(Int) /\ Len(y) = n
  OBVIOUS
<1> HIDE DEF g, t, y
<1>4. h \in Seq(Int) /\ Len(h) = Len(g) + Len(t)
  BY <1>1, <1>2, ConcatProperties, Zenon
<1> HIDE DEF h
<1>5. s \in Seq(Int) /\ Len(s) = Len(h) + Len(y)
  BY <1>3, <1>4, ConcatProperties, Zenon
<1>6. Len(s) >= 2
  BY <1>1, <1>2, <1>3, <1>4, <1>5
<1> QED
  BY <1>5, <1>6, Zenon DEF s, h, g, t, y

-----------------------------------------------------------------------------
(* The invariant.                                                             *)

(* What the main loop's transaction shows on MOSI, bit by bit: the byte it    *)
(* writes last stays there while it reads. Size is how many bits it takes.    *)
Line(job, i) == LET w == Written(job) IN w[IF i <= Len(w) THEN i ELSE Len(w)]
Size(job) == Len(Written(job)) + 8

(* The bits of the selected chip are those the main loop m has done since bit *)
(* p; p is the start unless the routing has moved.                            *)
Shown(m, bits) ==
    \E p \in 0 .. m.place :
        /\ p > 0 => m.moves >= 1
        /\ Len(bits) = m.place - p
        /\ \A i \in 1 .. m.place - p : bits[i] = Line(m.job, p + i)

(* SCK and MOSI are where the main loop has put them.                         *)
Pins(m, s, o) ==
    /\ s = (IF m.low THEN 0 ELSE 1)
    /\ m.low => o = Line(m.job, m.place + 1)
    /\ ~m.low /\ m.place >= 1 => o = Line(m.job, m.place)

(* What the main loop's transaction is.                                       *)
MainType == [job : Jobs \cup {NoJob}, place : Nat, low : BOOLEAN,
             bits : Seq(Bit \cup {Float}), moves : Nat]
MainOk(m) ==
    /\ m \in MainType /\ m.moves <= 1
    /\ m.job = NoJob => ~m.low
    /\ m.job # NoJob => m.place <= Size(m.job) /\ (m.low => m.place < Size(m.job))

(* The inductive invariant of the bus.                                        *)
BusOk ==
    /\ mux \in Chips /\ nss \in Bit /\ sck \in Bit /\ mosi \in Bit
    /\ chip \in [Chips -> ChipType]
    /\ MainOk(main) /\ (~main.low => sck = 1)
    /\ \A c \in Chips : ~chip[c].wel
    /\ \A c \in Chips : c # mux \/ nss = 1 => chip[c].bits = <<>>
    /\ nss = 0 => main.job # NoJob /\ Pins(main, sck, mosi) /\ Shown(main, chip[mux].bits)

(* What the main loop's transactions write: one byte or four, and the opcode  *)
(* is one of the two that read.                                               *)
LEMMA WrittenIs ==
    ASSUME NEW job \in Jobs
    PROVE  /\ Written(job) \in Seq(Bit) /\ Len(Written(job)) \in {8, 32}
           /\ Value(Written(job), 1) \in {READ_SR, READ_DATA}
<1>1. CASE job = Status
  <2> DEFINE b == <<READ_SR>>
  <2>1. b \in Seq(Int) /\ Len(b) = 1 /\ b[1] = READ_SR /\ b[1] \in Byte
    BY DEF READ_SR, Byte
  <2>2. Written(job) = AllBits(b)
    BY <1>1, Zenon DEF Written
  <2> HIDE DEF b
  <2>3. AllBits(b) \in Seq(Bit) /\ Len(AllBits(b)) = 8 * Len(b)
    BY <2>1, AllBitsIn, Zenon
  <2>4. 1 >= 1 /\ 8 * 1 = 8
    OBVIOUS
  <2>5. Value(AllBits(b), 1) = b[1]
    BY <2>1, <2>4, FirstByte, Zenon
  <2> QED
    BY <2>1, <2>2, <2>3, <2>4, <2>5, Zenon
<1>2. CASE job # Status
  <2> DEFINE g == <<READ_DATA>>
             t == AddressBytes(job)
             b == g \o t
  <2>1. g \in Seq(Int) /\ Len(g) = 1 /\ g[1] = READ_DATA /\ READ_DATA \in Byte
    BY DEF READ_DATA, Byte
  <2>2. t \in Seq(Int) /\ Len(t) = 3
    <3>1. job \in Nat
      BY <1>2 DEF Jobs
    <3> QED
      BY <3>1, AddressIs
  <2>3. Written(job) = AllBits(b)
    BY <1>2, Zenon DEF Written
  <2> HIDE DEF g, t
  <2>4. /\ b \in Seq(Int) /\ Len(b) = Len(g) + Len(t)
        /\ \A i \in 1 .. Len(g) + Len(t) : b[i] = IF i <= Len(g) THEN g[i] ELSE t[i - Len(g)]
    BY <2>1, <2>2, ConcatProperties, Zenon
  <2> HIDE DEF b
  <2>5. Len(b) = 4 /\ b[1] = READ_DATA /\ b \in Seq(Int) /\ Len(b) >= 1
    BY <2>1, <2>2, <2>4
  <2>6. AllBits(b) \in Seq(Bit) /\ Len(AllBits(b)) = 8 * Len(b)
    BY <2>5, AllBitsIn, Zenon
  <2>7. Value(AllBits(b), 1) = b[1]
    BY <2>1, <2>5, FirstByte, Zenon
  <2>8. Len(AllBits(b)) = 32
    BY <2>5, <2>6
  <2> QED
    BY <2>3, <2>5, <2>6, <2>7, <2>8, Zenon
<1> QED
  BY <1>1, <1>2

(* The level of MOSI at the rising edge i.                                    *)
LEMMA LineIs ==
    ASSUME NEW job \in Jobs, NEW i \in Nat, i >= 1
    PROVE  /\ Line(job, i) \in Bit
           /\ i <= Len(Written(job)) => Line(job, i) = Written(job)[i]
           /\ i >= Len(Written(job)) => Line(job, i) = Line(job, i + 1)
<1> DEFINE w == Written(job)
           n == Len(w)
           j == IF i <= n THEN i ELSE n
           k == IF i + 1 <= n THEN i + 1 ELSE n
<1>1. w \in Seq(Bit) /\ n \in {8, 32}
  BY WrittenIs
<1>2. Line(job, i) = w[j] /\ Line(job, i + 1) = w[k]
  BY Zenon DEF Line
<1>3. n \in Nat
  BY <1>1
<1> HIDE DEF w, n
<1>4. j \in 1 .. n
  BY <1>1
<1>5. w[j] \in Bit
  <2> HIDE DEF j
  <2> QED
    BY <1>1, <1>4 DEF n
<1>6. (i <= n => j = i) /\ (i >= n => j = k)
  BY <1>1
<1> HIDE DEF j, k, n
<1> QED
  BY <1>2, <1>5, <1>6, Zenon DEF n, w

(* Eight bits that are alike are 0 or 255.                                    *)
LEMMA AlikeIs ==
    ASSUME NEW b, NEW x \in Bit, \A i \in 1 .. 8 : b[i] = x
    PROVE  Value(b, 1) # WRITE_ENABLE
<1>1. /\ b[1] = x /\ b[1 + 1] = x /\ b[1 + 2] = x /\ b[1 + 3] = x /\ b[1 + 4] = x
      /\ b[1 + 5] = x /\ b[1 + 6] = x /\ b[1 + 7] = x
  OBVIOUS
<1>2. Value(b, 1) = 128 * x + 64 * x + 32 * x + 16 * x + 8 * x + 4 * x + 2 * x + x
  BY <1>1, Zenon DEF Value
<1> QED
  BY <1>2 DEF Bit, WRITE_ENABLE

(* What a chip that is routed away from has heard, and one that was selected  *)
(* until the end.                                                             *)
LEMMA DropOk ==
    ASSUME NEW m, MainOk(m), m.job # NoJob, NEW bits \in Seq(Bit), Shown(m, bits),
           m.moves = 0
    PROVE  ~(Len(bits) = 8 /\ Value(bits, 1) = WRITE_ENABLE)
<1> SUFFICES ASSUME Len(bits) = 8 PROVE Value(bits, 1) # WRITE_ENABLE
  OBVIOUS
<1>1. PICK p \in 0 .. m.place :
        /\ p > 0 => m.moves >= 1
        /\ Len(bits) = m.place - p
        /\ \A i \in 1 .. m.place - p : bits[i] = Line(m.job, p + i)
  BY DEF Shown
<1>2. m.job \in Jobs /\ m.place \in Nat
  BY DEF MainOk, MainType
<1> DEFINE a == m.place
           z == m.moves
<1>a. a \in Nat /\ p \in 0 .. a /\ 8 = a - p /\ z = 0 /\ (p > 0 => z >= 1)
  BY <1>1, <1>2, Zenon
<1> HIDE DEF a, z
<1>b. p = 0 /\ a = 8
  BY <1>a
<1>3. p = 0 /\ m.place = 8
  BY <1>b DEF a
<1> DEFINE w == Written(m.job)
<1>4. w \in Seq(Bit) /\ Len(w) \in {8, 32} /\ Value(w, 1) \in {READ_SR, READ_DATA}
  BY <1>2, WrittenIs
<1>5. ASSUME NEW i \in 1 .. 8 PROVE bits[i] = w[i]
  <2>0. i \in Nat /\ i >= 1 /\ i <= 8 /\ 0 + i = i /\ i \in 1 .. 8 - 0
    OBVIOUS
  <2>a. 8 <= Len(w) /\ Len(w) \in Nat
    <3> DEFINE l == Len(w)
    <3>1. l \in {8, 32}
      BY <1>4, Zenon
    <3> HIDE DEF l
    <3>2. 8 <= l /\ l \in Nat
      BY <3>1
    <3> QED
      BY <3>2 DEF l
  <2>1. i \in 1 .. m.place - p /\ p + i = i /\ i \in Nat /\ i >= 1 /\ i <= Len(w)
    <3> DEFINE l == Len(w)
    <3> HIDE DEF l
    <3>1. i <= l
      BY <2>0, <2>a DEF l
    <3> QED
      BY <1>3, <2>0, <3>1, Zenon DEF l
  <2>2. bits[i] = Line(m.job, i)
    BY <1>1, <2>1, Zenon
  <2> QED
    BY <1>2, <2>1, <2>2, LineIs, Zenon
<1> HIDE DEF w
<1>6. Value(bits, 1) = Value(w, 1)
  <2>1. \A i \in 1 .. 8 : bits[i] = w[i]
    BY <1>5
  <2>2. /\ bits[1] = w[1] /\ bits[1 + 1] = w[1 + 1] /\ bits[1 + 2] = w[1 + 2]
        /\ bits[1 + 3] = w[1 + 3] /\ bits[1 + 4] = w[1 + 4] /\ bits[1 + 5] = w[1 + 5]
        /\ bits[1 + 6] = w[1 + 6] /\ bits[1 + 7] = w[1 + 7]
    BY <2>1
  <2> QED
    BY <2>2, Zenon DEF Value
<1> QED
  BY <1>4, <1>6 DEF READ_SR, READ_DATA, WRITE_ENABLE

(* A chip that is selected when the transaction ends has heard at most the    *)
(* eight bits of the reading, which are alike, or more than eight.            *)
LEMMA EndOk ==
    ASSUME NEW m, MainOk(m), m.job # NoJob, NEW bits \in Seq(Bit), Shown(m, bits),
           m.place = Size(m.job)
    PROVE  ~(Len(bits) = 8 /\ Value(bits, 1) = WRITE_ENABLE)
<1> SUFFICES ASSUME Len(bits) = 8 PROVE Value(bits, 1) # WRITE_ENABLE
  OBVIOUS
<1>1. PICK p \in 0 .. m.place :
        /\ p > 0 => m.moves >= 1
        /\ Len(bits) = m.place - p
        /\ \A i \in 1 .. m.place - p : bits[i] = Line(m.job, p + i)
  BY DEF Shown
<1>2. m.job \in Jobs /\ m.place \in Nat
  BY DEF MainOk, MainType
<1> DEFINE w == Written(m.job)
           n == Len(w)
<1>4. w \in Seq(Bit) /\ n \in {8, 32}
  BY <1>2, WrittenIs
<1>c. n \in Nat
  BY <1>4
<1> DEFINE a == m.place
<1>a. a \in Nat /\ p \in 0 .. a /\ 8 = a - p /\ a = n + 8
  BY <1>1, <1>2, Zenon DEF Size
<1> HIDE DEF n, w, a
<1>b. p = n /\ a - p = 8
  BY <1>a, <1>c
<1>3. p = n /\ m.place - p = 8
  BY <1>b DEF a
<1> DEFINE x == Line(m.job, n)
<1>5. x \in Bit
  <2>1. n \in Nat /\ n >= 1
    BY <1>4
  <2> QED
    BY <1>2, <2>1, LineIs, Zenon
<1>6. ASSUME NEW i \in 1 .. 8 PROVE bits[i] = x
  <2>1. i \in 1 .. m.place - p /\ p + i = n + i /\ n + i >= n /\ n <= n
    BY <1>3, <1>4
  <2>2. bits[i] = Line(m.job, n + i)
    BY <1>1, <2>1, Zenon
  <2>3. Line(m.job, n + i) = Written(m.job)[n]
    <3>1. ~(n + i <= n) /\ Len(Written(m.job)) = n
      BY <1>4 DEF n, w
    <3> QED
      BY <3>1, Zenon DEF Line
  <2>4. x = Written(m.job)[n]
    BY <2>1, Zenon DEF Line, n, w
  <2> QED
    BY <2>2, <2>3, <2>4, Zenon
<1> QED
  BY <1>5, <1>6, AlikeIs, Zenon

-----------------------------------------------------------------------------
(* The commands.                                                              *)

(* The chips after the routing has moved.                                     *)
Selected(r, to) ==
    /\ r \in [Chips -> ChipType]
    /\ \A c \in Chips : ~r[c].wel
    /\ \A c \in Chips : c # to \/ nss = 1 => r[c].bits = <<>>

(* The routing moves at most once in a transaction of the main loop: the chip *)
(* it leaves has heard the transaction from its start.                        *)
LEMMA RoutedOk ==
    ASSUME BusOk, NEW to \in Chips, Moves(to) <= 1
    PROVE  Selected(Routed(to), to)
<1>1. /\ mux \in Chips /\ chip \in [Chips -> ChipType]
      /\ \A c \in Chips : ~chip[c].wel
      /\ \A c \in Chips : c # mux \/ nss = 1 => chip[c].bits = <<>>
  BY DEF BusOk
<1>2. CASE to = mux
  BY <1>1, <1>2, Zenon DEF Routed, Selected
<1>3. CASE to # mux
  <2> DEFINE x == chip[mux]
             d == Deselected(x)
             r == [chip EXCEPT ![mux] = d]
  <2>1. Routed(to) = r
    BY <1>3, Zenon DEF Routed
  <2>2. x \in ChipType /\ ~x.wel /\ x.bits \in Seq(Bit)
    BY <1>1 DEF ChipType
  <2>3. ~(Len(x.bits) = 8 /\ Value(x.bits, 1) = WRITE_ENABLE)
    <3>1. CASE nss = 1
      <4>1. x.bits = <<>>
        BY <1>1, <3>1
      <4> QED
        BY <4>1
    <3>2. CASE nss = 0
      <4>1. MainOk(main) /\ main.job # NoJob /\ Shown(main, x.bits)
        BY <3>2 DEF BusOk
      <4>2. /\ main.moves \in Nat /\ main.moves <= 1
            /\ main.moves < 2 => main.moves + 1 <= 1
        BY <1>3, <3>2, <4>1 DEF MainOk, MainType, Moves
      <4>3. main.moves = 0
        BY <4>2
      <4> HIDE DEF x
      <4> QED
        BY <2>2, <4>1, <4>3, DropOk
    <3> QED
      BY <3>1, <3>2 DEF BusOk, Bit
  <2> HIDE DEF x
  <2>4. Quiet(d)
    BY <2>2, <2>3, DeselectedIs, DeselectedKeeps, Zenon DEF Settled, Quiet
  <2> HIDE DEF d
  <2>5. r \in [Chips -> ChipType] /\ r[mux] = d
    BY <1>1, <2>4 DEF Quiet
  <2>6. \A c \in Chips : c # mux => r[c] = chip[c]
    BY <1>1
  <2> HIDE DEF r
  <2>7. \A c \in Chips : ~r[c].wel
    BY <1>1, <2>4, <2>5, <2>6, Zenon DEF Quiet
  <2>8. \A c \in Chips : c # to \/ nss = 1 => r[c].bits = <<>>
    BY <1>1, <2>4, <2>5, <2>6, Zenon DEF Quiet
  <2> QED
    BY <2>1, <2>5, <2>7, <2>8, Zenon DEF Selected
<1> QED
  BY <1>2, <1>3

(* A command leaves the main loop where it is, but for the count.             *)
LEMMA CountedOk ==
    ASSUME BusOk, NEW to \in Chips, Counted(to), ~astray'
    PROVE  /\ MainOk(main') /\ Moves(to) <= 1
           /\ main'.job = main.job /\ main'.place = main.place /\ main'.low = main.low
           /\ main.moves \in Nat /\ main'.moves = Moves(to)
<1>1. main \in MainType /\ Moves(to) \in Nat
  BY DEF BusOk, MainOk, MainType, Moves
<1>2. /\ main' \in MainType /\ main'.moves = Moves(to) /\ main'.job = main.job
      /\ main'.place = main.place /\ main'.low = main.low /\ main.moves \in Nat
  BY <1>1 DEF Counted, MainType
<1>3. MainOk(main)
  BY DEF BusOk
<1>4. Moves(to) <= 1
  <2>1. ~(Moves(to) > 1)
    BY Zenon DEF Counted
  <2> QED
    BY <1>1, <2>1
<1> QED
  BY <1>2, <1>3, <1>4, Zenon DEF MainOk

(* A command leaves the chips between two commands.                           *)
LEMMA CommandOk ==
    ASSUME BusOk, ~astray', NEW to \in Chips, NEW c, Quiet(c), Command(to, c),
           mosi' \in Bit
    PROVE  BusOk'
<1> DEFINE r == Routed(to)
           s == [r EXCEPT ![to] = c]
<1>1. /\ mux' = to /\ chip' = s /\ nss' = 1 /\ sck' = 1 /\ Counted(to)
  BY DEF Command
<1>2. MainOk(main') /\ Moves(to) <= 1
  BY <1>1, CountedOk
<1>3. Selected(r, to)
  BY <1>2, RoutedOk
<1> HIDE DEF r
<1>4. s \in [Chips -> ChipType] /\ s[to] = c /\ \A d \in Chips : d # to => s[d] = r[d]
  BY <1>3 DEF Selected, Quiet
<1> HIDE DEF s
<1>5. \A d \in Chips : ~s[d].wel /\ s[d].bits = <<>>
  BY <1>3, <1>4, Zenon DEF Selected, Quiet
<1>6. 1 \in Bit /\ 1 # 0 /\ 1 = 1
  BY DEF Bit
<1> QED
  BY <1>1, <1>2, <1>4, <1>5, <1>6, Zenon DEF BusOk

(* The chip a command works on.                                               *)
LEMMA Here ==
    ASSUME BusOk, ~astray', NEW to \in Chips, NEW c, Command(to, c)
    PROVE  Routed(to)[to] \in ChipType /\ ~Routed(to)[to].wel
<1>1. Selected(Routed(to), to)
  BY CountedOk, RoutedOk DEF Command
<1> QED
  BY <1>1 DEF Selected

(* EARSE keeps the invariant.                                                 *)
LEMMA EarseKeeps ==
    ASSUME BusOk, ~astray', EarseCmd PROVE BusOk'
<1>1. PICK to \in Chips : Command(to, Flash_EraseChip(Routed(to)[to]))
  BY DEF EarseCmd
<1>2. Quiet(Flash_EraseChip(Routed(to)[to]))
  BY <1>1, Here, EraseQuiet
<1>3. mosi' \in Bit
  BY DEF EarseCmd, ERASE_CHIP, Bit
<1> QED
  BY <1>1, <1>2, <1>3, CommandOk

(* WRITE keeps it.                                                            *)
LEMMA WriteKeeps ==
    ASSUME BusOk, ~astray', NEW a \in Starts, NEW data \in Payloads,
           WriteDataCmd(a, data)
    PROVE  BusOk'
<1>1. PICK to \in Chips : Command(to, Flash_WriteNoCheck(Routed(to)[to], a, data))
  BY DEF WriteDataCmd
<1>2. a \in Nat /\ data \in Seq(Int) /\ Len(data) >= 1
  <2> DEFINE D == Data \cup {255}
  <2>1. a \in Nat /\ data \in Seq(D) /\ data # <<>> /\ D \subseteq Int
    BY SpiBusAssumption
  <2> HIDE DEF D
  <2>2. data \in Seq(Int)
    BY <2>1, SeqMonotonic, Zenon
  <2>3. Len(data) >= 1
    BY <2>1
  <2> QED
    BY <2>1, <2>2, <2>3
<1>3. Quiet(Flash_WriteNoCheck(Routed(to)[to], a, data))
  BY <1>1, <1>2, Here, WriteQuiet
<1>4. mosi' \in Bit
  BY DEF WriteDataCmd, READ_SR, Bit
<1> QED
  BY <1>1, <1>3, <1>4, CommandOk

(* READ keeps it.                                                             *)
LEMMA ReadKeeps ==
    ASSUME BusOk, ~astray', NEW a \in Starts, NEW n \in ReadLens, ReadCmd(a, n)
    PROVE  BusOk'
<1> DEFINE x == IF a % 2 = 1 THEN 255 ELSE 0
           s == <<READ_DATA>> \o AddressBytes(a) \o [k \in 1 .. n |-> x]
<1>1. PICK to \in Chips : /\ Command(to, Deselected(SPI_WriteBytes(Routed(to)[to], s)))
                          /\ mosi' = a % 2
  BY Zenon DEF ReadCmd
<1>2. a \in Nat /\ n \in Nat /\ x \in Int /\ a % 2 \in Bit
  BY SpiBusAssumption DEF Bit
<1> HIDE DEF x
<1>3. s \in Seq(Int) /\ Len(s) >= 2
  BY <1>2, ReadBytes, Zenon
<1> HIDE DEF s
<1>4. Quiet(Deselected(SPI_WriteBytes(Routed(to)[to], s)))
  BY <1>1, <1>3, Here, LongQuiet, Zenon
<1> QED
  BY <1>1, <1>2, <1>4, CommandOk, Zenon

-----------------------------------------------------------------------------
(* The main loop.                                                             *)

(* What a chip drives on MISO, of any cells and address.                      *)
LEMMA MisoIn ==
    ASSUME NEW c \in ChipType PROVE Miso(c) \in Bit \cup {Float}
<1> DEFINE n == Len(c.bits)
           i == (n % 8) + 1
           v == (IF c.wip THEN 1 ELSE 0) + (IF c.wel THEN 2 ELSE 0)
           k == (ChipAddress(c) + (n - 32) \div 8) % FlashSize
           x == c.cell[k]
<1>1. /\ c.bits \in Seq(Bit) /\ c.cell \in [Address -> Byte] /\ n \in Nat /\ i \in 1 .. 8
      /\ v \in Int
  BY DEF ChipType
<1>2. ASSUME n >= 32 PROVE x \in Int
  <2>1. \A j \in {9, 17, 25} : Value(c.bits, j) \in Byte
    <3>1. ASSUME NEW j \in {9, 17, 25} PROVE Value(c.bits, j) \in Byte
      <4>1. \A m \in j .. j + 7 : c.bits[m] \in Bit
        BY <1>1, <1>2
      <4>2. j \in Int
        OBVIOUS
      <4> QED
        BY <4>1, <4>2, ValueIn, Zenon
    <3> QED
      BY <3>1
  <2> DEFINE e == Value(c.bits, 9)
             f == Value(c.bits, 17)
             g == Value(c.bits, 25)
             a == ChipAddress(c)
  <2>2. e \in Int /\ f \in Int /\ g \in Int
    BY <2>1 DEF Byte
  <2>3. a = (65536 * e + 256 * f + g) % FlashSize
    BY DEF ChipAddress
  <2>7. k = (a + (n - 32) \div 8) % FlashSize
    OBVIOUS
  <2> HIDE DEF e, f, g, a, n, k
  <2>4. FlashSize \in Nat /\ FlashSize > 0
    BY SpiBusAssumption
  <2>5. a \in Int
    BY <2>2, <2>3, <2>4
  <2>6. k \in Address
    BY <1>1, <2>4, <2>5, <2>7 DEF Address
  <2>8. x \in Byte
    BY <1>1, <2>6
  <2> HIDE DEF x
  <2> QED
    BY <2>8 DEF Byte
<1> HIDE DEF n, i, v, x
<1>3. Bits(v)[i] \in Bit
  BY <1>1, BitsIn
<1>4. n >= 32 => Bits(x)[i] \in Bit
  BY <1>1, <1>2, BitsIn
<1>5. Miso(c) = IF Opcode(c) = READ_SR THEN Bits(v)[i]
                ELSE IF Opcode(c) = READ_DATA /\ ~c.deaf /\ n >= 32 THEN Bits(x)[i]
                ELSE Float
  BY Zenon DEF Miso, n, i, v, x
<1> QED
  BY <1>3, <1>4, <1>5, Zenon

(* Moving the routing keeps it: the chip it comes to has heard nothing yet.   *)
LEMMA RouteKeeps ==
    ASSUME BusOk, ~astray', RouteCmd PROVE BusOk'
<1>1. PICK to \in Chips : mux' = to /\ chip' = Routed(to) /\ Counted(to)
  BY DEF RouteCmd
<1>2. nss' = nss /\ sck' = sck /\ mosi' = mosi
  BY DEF RouteCmd
<1>3. /\ MainOk(main') /\ Moves(to) <= 1
      /\ main'.job = main.job /\ main'.place = main.place /\ main'.low = main.low
      /\ main.moves \in Nat /\ main'.moves = Moves(to)
  BY <1>1, CountedOk
<1> DEFINE r == Routed(to)
<1>4. Selected(r, to)
  BY <1>3, RoutedOk
<1>5. /\ nss \in Bit /\ sck \in Bit /\ mosi \in Bit /\ (~main.low => sck = 1)
      /\ nss = 0 => main.job # NoJob /\ Pins(main, sck, mosi) /\ Shown(main, chip[mux].bits)
  BY DEF BusOk
<1>6. ASSUME nss = 0
      PROVE  main'.job # NoJob /\ Pins(main', sck, mosi) /\ Shown(main', r[to].bits)
  <2>1. main'.job # NoJob /\ Pins(main', sck, mosi)
    BY <1>3, <1>5, <1>6, Zenon DEF Pins
  <2>2. Shown(main', r[to].bits)
    <3>1. CASE to = mux
      <4>1. PICK p \in 0 .. main.place :
              /\ p > 0 => main.moves >= 1
              /\ Len(chip[mux].bits) = main.place - p
              /\ \A i \in 1 .. main.place - p : chip[mux].bits[i] = Line(main.job, p + i)
        BY <1>5, <1>6 DEF Shown
      <4>2. r = chip
        BY <3>1, Zenon DEF Routed
      <4>3. main'.moves = main.moves
        BY <1>3, <3>1 DEF Moves
      <4> HIDE DEF r
      <4> QED
        BY <1>3, <3>1, <4>1, <4>2, <4>3, Zenon DEF Shown
    <3>2. CASE to # mux
      <4> DEFINE p == main.place
                 b == r[to].bits
      <4>1. p \in Nat
        BY <1>3 DEF MainOk, MainType
      <4>2. b = <<>>
        <5>2. Routed(to)[to] = chip[to]
          BY <1>1, <3>2 DEF Routed, BusOk
        <5>3. chip[to].bits = <<>>
          BY <3>2 DEF BusOk
        <5> QED
          BY <5>2, <5>3, Zenon
      <4> HIDE DEF b
      <4>3. main'.moves >= 1
        BY <1>3, <1>6, <3>2 DEF Moves
      <4>4. p \in 0 .. p /\ p - p = 0 /\ Len(b) = 0 /\ 1 .. p - p = {}
        <5>1. Len(b) = 0
          BY <4>2
        <5> HIDE DEF p
        <5> QED
          BY <4>1, <5>1
      <4>5. Len(b) = p - p /\ \A i \in 1 .. p - p : b[i] = Line(main'.job, p + i)
        BY <4>4
      <4> QED
        BY <1>3, <4>3, <4>4, <4>5, Zenon DEF Shown, p, b
    <3> QED
      BY <3>1, <3>2
  <2> QED
    BY <2>1, <2>2
<1> HIDE DEF r
<1> QED
  BY <1>1, <1>2, <1>3, <1>4, <1>5, <1>6, Zenon DEF BusOk, Selected, r

(* The start of a transaction of the main loop.                               *)
LEMMA NssLowKeeps ==
    ASSUME BusOk, NEW job \in Jobs, NssLow(job) PROVE BusOk'
<1>1. /\ main.job = NoJob /\ nss' = 0 /\ mux' = mux /\ sck' = sck /\ mosi' = mosi
      /\ chip' = chip /\ main' = [Resting EXCEPT !.job = job]
  BY DEF NssLow
<1>2. /\ main'.job = job /\ main'.place = 0 /\ main'.low = FALSE /\ main'.bits = <<>>
      /\ main'.moves = 0 /\ main' \in MainType
  <2>1. main' = [job |-> job, place |-> 0, low |-> FALSE, bits |-> <<>>, moves |-> 0]
    BY <1>1 DEF Resting
  <2>2. <<>> \in Seq(Bit \cup {Float})
    OBVIOUS
  <2>3. main' \in MainType
    BY <2>1, <2>2 DEF MainType
  <2> QED
    BY <2>1, <2>3
<1>3. job # NoJob
  BY DEF Jobs, NoJob, Status
<1>4. MainOk(main') /\ main'.low = FALSE
  <2>1. Size(job) >= 0 /\ 0 <= 1
    <3>1. Len(Written(job)) \in {8, 32}
      BY WrittenIs, Zenon
    <3> DEFINE l == Len(Written(job))
    <3>2. l \in {8, 32}
      BY <3>1
    <3> HIDE DEF l
    <3>3. l + 8 >= 0
      BY <3>2
    <3>4. Size(job) = l + 8
      BY Zenon DEF Size, l
    <3> QED
      BY <3>3, <3>4, SpiBusAssumption
  <2>2. 0 <= Size(job)
    BY <2>1 DEF Size
  <2> QED
    BY <1>2, <1>3, <2>1, <2>2, Zenon DEF MainOk
<1>5. /\ mux \in Chips /\ sck \in Bit /\ mosi \in Bit /\ sck = 1
      /\ chip \in [Chips -> ChipType]
      /\ \A c \in Chips : ~chip[c].wel /\ chip[c].bits = <<>>
  <2>1. ~main.low /\ nss = 1
    BY <1>1 DEF BusOk, MainOk, Bit
  <2> QED
    BY <2>1, Zenon DEF BusOk
<1>6. Pins(main', sck, mosi)
  <2>1. ~(0 >= 1)
    OBVIOUS
  <2> QED
    BY <1>2, <1>5, <2>1, Zenon DEF Pins
<1>7. Shown(main', chip[mux].bits)
  <2> DEFINE b == chip[mux].bits
  <2>1. b = <<>>
    BY <1>5
  <2>2. Len(b) = 0 - 0 /\ 0 \in 0 .. 0 /\ ~(0 > 0) /\ 1 .. 0 - 0 = {}
    BY <2>1
  <2>3. \A i \in 1 .. 0 - 0 : b[i] = Line(main'.job, 0 + i)
    BY <2>2
  <2> QED
    BY <1>2, <2>2, <2>3, Zenon DEF Shown, b
<1>8. 0 \in Bit /\ 0 # 1
  BY DEF Bit
<1>9. main'.job # NoJob
  BY <1>2, <1>3
<1> QED
  BY <1>1, <1>4, <1>5, <1>6, <1>7, <1>8, <1>9, Zenon DEF BusOk

(* The falling edge: MOSI has the level of the next bit.                      *)
LEMMA SckLowKeeps ==
    ASSUME BusOk, SckLow PROVE BusOk'
<1>0. /\ mux' = mux /\ nss' = nss /\ chip' = chip /\ sck' = 0
      /\ main.job # NoJob /\ ~main.low /\ ~Done
  BY DEF SckLow
<1>1. /\ mux \in Chips /\ nss \in Bit /\ mosi \in Bit /\ chip \in [Chips -> ChipType]
      /\ MainOk(main) /\ main \in MainType /\ main.moves <= 1
      /\ \A c \in Chips : ~chip[c].wel
      /\ \A c \in Chips : c # mux \/ nss = 1 => chip[c].bits = <<>>
      /\ nss = 0 => Pins(main, sck, mosi) /\ Shown(main, chip[mux].bits)
  BY DEF BusOk, MainOk
<1> DEFINE j == main.job
           a == main.place
           w == Written(j)
           n == Len(w)
<1>2. j \in Jobs /\ a \in Nat
  BY <1>0, <1>1 DEF MainType
<1>3. w \in Seq(Bit) /\ n \in {8, 32}
  BY <1>2, WrittenIs, Zenon
<1>a. main \in MainType
  BY <1>1
<1>4. /\ main'.job = j /\ main'.place = a /\ main'.low = TRUE
      /\ main'.moves = main.moves /\ main' \in MainType
  <2>1. CASE Writes
    <3>1. main' = [main EXCEPT !.low = TRUE]
      BY <2>1, Zenon DEF SckLow
    <3> QED
      BY <1>a, <3>1 DEF MainType
  <2>2. CASE ~Writes
    <3> DEFINE x == IF nss = 0 THEN Miso(chip[mux]) ELSE Float
    <3>1. main' = [main EXCEPT !.low = TRUE, !.bits = Append(@, x)]
      BY <2>2, Zenon DEF SckLow
    <3>2. chip[mux] \in ChipType
      BY <1>1
    <3>3. x \in Bit \cup {Float}
      BY <3>2, MisoIn
    <3> HIDE DEF x
    <3> DEFINE y == Append(main.bits, x)
    <3>4. main.bits \in Seq(Bit \cup {Float})
      BY <1>a DEF MainType
    <3>5. y \in Seq(Bit \cup {Float})
      BY <3>3, <3>4
    <3>6. main' = [main EXCEPT !.low = TRUE, !.bits = y]
      BY <3>1, Zenon
    <3> HIDE DEF y
    <3> QED
      BY <1>a, <3>5, <3>6 DEF MainType
  <2> QED
    BY <2>1, <2>2
<1>5. a <= n + 8 /\ a # n + 8
  <2>1. a <= Size(j) /\ a # Size(j)
    BY <1>0, <1>1, Zenon DEF MainOk, Done, Size
  <2> QED
    BY <2>1, Zenon DEF Size
<1>6. a < Size(j)
  <2> DEFINE z == n + 8
  <2>1. z = Size(j)
    BY Zenon DEF Size
  <2>2. a <= z /\ a # z /\ a \in Nat /\ z \in Nat
    BY <1>2, <1>3, <1>5
  <2> HIDE DEF a, z
  <2>3. a < z
    BY <2>2
  <2> QED
    BY <2>1, <2>3, Zenon
<1>7. MainOk(main')
  BY <1>0, <1>1, <1>4, <1>6, Zenon DEF MainOk
<1>8. mosi' \in Bit /\ (nss = 0 => mosi' = Line(j, a + 1))
  <2>1. Writes <=> a < n
    BY Zenon DEF Writes
  <2>2. CASE a < n
    <3>1. mosi' = w[a + 1]
      BY <2>1, <2>2, Zenon DEF SckLow
    <3>2. a + 1 \in Nat /\ a + 1 >= 1 /\ a + 1 <= n
      <4> HIDE DEF a, n
      <4> QED
        BY <1>2, <1>3, <2>2
    <3>3. Line(j, a + 1) \in Bit /\ Line(j, a + 1) = w[a + 1]
      BY <1>2, <3>2, LineIs, Zenon
    <3> QED
      BY <3>1, <3>3, Zenon
  <2>3. CASE ~(a < n)
    <3>1. mosi' = mosi
      BY <2>1, <2>3, Zenon DEF SckLow
    <3>2. a >= n /\ a >= 1
      <4> HIDE DEF a, n
      <4> QED
        BY <1>2, <1>3, <2>3
    <3>3. Line(j, a) = Line(j, a + 1)
      BY <1>2, <3>2, LineIs, Zenon
    <3>4. nss = 0 => mosi = Line(j, a)
      BY <1>0, <1>1, <3>2, Zenon DEF Pins
    <3> QED
      BY <1>1, <3>1, <3>3, <3>4, Zenon
  <2> QED
    BY <2>2, <2>3, Zenon
<1>9. Pins(main', 0, mosi') \/ nss # 0
  BY <1>4, <1>8, Zenon DEF Pins
<1>10. nss = 0 => Shown(main', chip[mux].bits)
  BY <1>1, <1>4, Zenon DEF Shown
<1>11. 0 \in Bit
  BY DEF Bit
<1> HIDE DEF j, a, w, n
<1>12. main'.job # NoJob
  BY <1>0, <1>4, Zenon DEF j
<1> QED
  BY <1>0, <1>1, <1>4, <1>7, <1>8, <1>9, <1>10, <1>11, <1>12, Zenon DEF BusOk

(* One bit more of the transaction.                                           *)
LEMMA LongerShown ==
    ASSUME NEW m, NEW n, NEW a \in Nat, m.place = a, n.place = a + 1, n.job = m.job,
           n.moves = m.moves, NEW b \in Seq(Bit), Shown(m, b),
           NEW o \in Bit, o = Line(m.job, a + 1)
    PROVE  Shown(n, b \o <<o>>)
<1> DEFINE j == m.job
           l == Len(b)
           d == b \o <<o>>
           e == a + 1
<1>1. PICK p \in 0 .. a :
        /\ p > 0 => m.moves >= 1
        /\ l = a - p
        /\ \A i \in 1 .. a - p : b[i] = Line(j, p + i)
  BY Zenon DEF Shown
<1>2. l \in Nat /\ Len(d) = l + 1 /\ d[l + 1] = o /\ \A i \in 1 .. l : d[i] = b[i]
  OBVIOUS
<1> HIDE DEF l, j, d, e
<1>3. p \in 0 .. e /\ Len(d) = e - p
  BY <1>1, <1>2 DEF e
<1>4. ASSUME NEW i \in 1 .. e - p PROVE d[i] = Line(j, p + i)
  <2>1. CASE i = l + 1
    <3>1. p + i = a + 1
      BY <1>1, <2>1
    <3>2. d[i] = o
      BY <1>2, <2>1, Zenon
    <3> QED
      BY <3>1, <3>2, Zenon DEF j
  <2>2. CASE i # l + 1
    <3>1. i \in 1 .. a - p /\ i \in 1 .. l
      BY <1>1, <1>2, <2>2 DEF e
    <3> QED
      BY <1>1, <1>2, <3>1, Zenon
  <2> QED
    BY <2>1, <2>2
<1>5. n.place = e /\ n.job = j /\ (p > 0 => n.moves >= 1)
  BY <1>1, Zenon DEF e, j
<1> QED
  BY <1>3, <1>4, <1>5, Zenon DEF Shown, d

(* The rising edge: the selected chip takes the bit on MOSI.                  *)
LEMMA SckHighKeeps ==
    ASSUME BusOk, SckHigh PROVE BusOk'
<1>0. /\ mux' = mux /\ nss' = nss /\ mosi' = mosi /\ sck' = 1 /\ main.low
      /\ chip' = IF nss = 0 /\ sck = 0 THEN [chip EXCEPT ![mux] = Clocked(@, <<mosi>>)]
                 ELSE chip
      /\ main' = [main EXCEPT !.low = FALSE, !.place = @ + 1]
  BY DEF SckHigh
<1>1. /\ mux \in Chips /\ nss \in Bit /\ mosi \in Bit /\ chip \in [Chips -> ChipType]
      /\ MainOk(main) /\ main \in MainType /\ main.moves <= 1
      /\ \A c \in Chips : ~chip[c].wel
      /\ \A c \in Chips : c # mux \/ nss = 1 => chip[c].bits = <<>>
      /\ nss = 0 => Pins(main, sck, mosi) /\ Shown(main, chip[mux].bits)
  BY DEF BusOk, MainOk
<1> DEFINE j == main.job
           a == main.place
<1>2. a \in Nat /\ j # NoJob /\ a < Size(j) /\ j \in Jobs
  <2>1. main \in MainType /\ j # NoJob /\ a < Size(j)
    BY <1>0, <1>1, Zenon DEF MainOk
  <2> QED
    BY <2>1 DEF MainType
<1>3. /\ main'.job = j /\ main'.place = a + 1 /\ main'.low = FALSE
      /\ main'.moves = main.moves /\ main' \in MainType
  <2>1. main \in MainType
    BY <1>1
  <2>2. main' = [main EXCEPT !.low = FALSE, !.place = a + 1]
    BY <1>0
  <2>3. a + 1 \in Nat
    <3> HIDE DEF a
    <3> QED
      BY <1>2
  <2> DEFINE e == a + 1
  <2> HIDE DEF e
  <2>4. main' = [main EXCEPT !.low = FALSE, !.place = e] /\ e \in Nat
    BY <2>2, <2>3, Zenon DEF e
  <2>5. main'.place = e /\ main'.job = main.job /\ main'.low = FALSE
        /\ main'.moves = main.moves /\ main' \in MainType
    BY <2>1, <2>4 DEF MainType
  <2> QED
    BY <2>5, Zenon DEF e
<1>4. MainOk(main')
  <2> DEFINE z == Size(j)
  <2>1. z \in Nat
    <3> DEFINE l == Len(Written(j))
    <3>1. l \in {8, 32}
      BY <1>2, WrittenIs, Zenon
    <3> HIDE DEF l
    <3>2. l + 8 \in Nat
      BY <3>1
    <3> QED
      BY <3>2, Zenon DEF Size, l
  <2>2. a \in Nat /\ a < z
    BY <1>2
  <2> HIDE DEF a, z
  <2>3. a + 1 <= z
    BY <2>1, <2>2
  <2> QED
    BY <1>1, <1>2, <1>3, <2>3, Zenon DEF MainOk, z
<1>5. nss = 0 => sck = 0
  BY <1>0, <1>1, Zenon DEF Pins
<1>6. CASE nss = 1
  <2>1. chip' = chip /\ 1 # 0 /\ 1 \in Bit /\ 1 = 1
    BY <1>0, <1>6 DEF Bit
  <2>2. main'.job # NoJob
    BY <1>2, <1>3, Zenon
  <2> HIDE DEF j, a
  <2> QED
    BY <1>0, <1>1, <1>4, <1>6, <2>1, <2>2, Zenon DEF BusOk
<1>7. CASE nss = 0
  <2> DEFINE x == chip[mux]
             y == Clocked(x, <<mosi>>)
             r == [chip EXCEPT ![mux] = y]
  <2>1. chip' = r
    BY <1>0, <1>5, <1>7, Zenon
  <2>2. x \in ChipType /\ <<mosi>> \in Seq(Bit) /\ x.bits \in Seq(Bit) /\ ~x.wel
    BY <1>1 DEF ChipType
  <2>3. mosi = Line(j, a + 1)
    BY <1>0, <1>1, <1>7, Zenon DEF Pins
  <2>4. Shown(main, x.bits)
    BY <1>1, <1>7, Zenon
  <2> HIDE DEF x
  <2>5. y \in ChipType /\ y.bits = x.bits \o <<mosi>> /\ ~y.wel
    BY <2>2, ClockedIs, Zenon
  <2> HIDE DEF y
  <2>6. r \in [Chips -> ChipType] /\ r[mux] = y /\ \A c \in Chips : c # mux => r[c] = chip[c]
    BY <1>1, <2>5
  <2> HIDE DEF r
  <2>7. \A c \in Chips : ~r[c].wel
    BY <1>1, <2>5, <2>6, Zenon
  <2>8. \A c \in Chips : c # mux \/ nss = 1 => r[c].bits = <<>>
    <3>1. nss # 1
      BY <1>7
    <3> QED
      BY <1>1, <2>6, <3>1, Zenon
  <2>9. Shown(main', r[mux].bits)
    <3>1. Shown(main', x.bits \o <<mosi>>)
      BY <1>1, <1>2, <1>3, <2>2, <2>3, <2>4, LongerShown, Zenon
    <3> QED
      BY <2>5, <2>6, <3>1, Zenon
  <2>10. Pins(main', 1, mosi) /\ main'.job # NoJob
    BY <1>2, <1>3, <2>3, Zenon DEF Pins
  <2>11. 1 \in Bit /\ 1 = 1
    BY DEF Bit
  <2> HIDE DEF j, a
  <2> QED
    BY <1>0, <1>1, <1>4, <2>1, <2>6, <2>7, <2>8, <2>9, <2>10, <2>11, Zenon DEF BusOk
<1> QED
  BY <1>1, <1>6, <1>7 DEF Bit

(* The end of a transaction of the main loop.                                 *)
LEMMA NssHighKeeps ==
    ASSUME BusOk, NssHigh PROVE BusOk'
<1>0. /\ mux' = mux /\ nss' = 1 /\ mosi' = mosi /\ sck' = sck /\ ~main.low
      /\ main.job # NoJob /\ Done /\ main' = Resting
      /\ chip' = IF nss = 0 THEN [chip EXCEPT ![mux] = Deselected(@)] ELSE chip
  BY DEF NssHigh
<1>1. /\ mux \in Chips /\ nss \in Bit /\ mosi \in Bit /\ sck \in Bit
      /\ chip \in [Chips -> ChipType] /\ (~main.low => sck = 1) /\ MainOk(main)
      /\ \A c \in Chips : ~chip[c].wel
      /\ \A c \in Chips : c # mux \/ nss = 1 => chip[c].bits = <<>>
      /\ nss = 0 => Shown(main, chip[mux].bits)
  BY DEF BusOk
<1>2. MainOk(main') /\ ~main'.low
  <2>1. <<>> \in Seq(Bit \cup {Float})
    OBVIOUS
  <2>2. Resting \in MainType
    BY <2>1 DEF Resting, MainType
  <2>3. /\ Resting.job = NoJob /\ Resting.low = FALSE /\ Resting.moves = 0
    BY DEF Resting
  <2>4. 0 <= 1
    OBVIOUS
  <2> QED
    BY <1>0, <2>2, <2>3, <2>4, Zenon DEF MainOk
<1>3. /\ chip' \in [Chips -> ChipType]
      /\ \A c \in Chips : ~chip'[c].wel
      /\ \A c \in Chips : chip'[c].bits = <<>>
  <2>1. CASE nss = 1
    <3>1. chip' = chip
      BY <1>0, <2>1
    <3> QED
      BY <1>1, <2>1, <3>1, Zenon
  <2>2. CASE nss = 0
    <3> DEFINE x == chip[mux]
               y == Deselected(x)
               r == [chip EXCEPT ![mux] = y]
    <3>1. chip' = r
      BY <1>0, <2>2, Zenon
    <3>2. x \in ChipType /\ x.bits \in Seq(Bit) /\ ~x.wel
      BY <1>1 DEF ChipType
    <3>3. Shown(main, x.bits) /\ main.place = Size(main.job)
      BY <1>0, <1>1, <2>2, Zenon DEF Done, Size
    <3> HIDE DEF x
    <3>4. ~(Len(x.bits) = 8 /\ Value(x.bits, 1) = WRITE_ENABLE)
      BY <1>0, <1>1, <3>2, <3>3, EndOk
    <3>5. Quiet(y)
      BY <3>2, <3>4, DeselectedIs, DeselectedKeeps, Zenon DEF Settled, Quiet
    <3> HIDE DEF y
    <3>6. r \in [Chips -> ChipType] /\ r[mux] = y /\ \A c \in Chips : c # mux => r[c] = chip[c]
      BY <1>1, <3>5 DEF Quiet
    <3> HIDE DEF r
    <3> QED
      BY <1>1, <3>1, <3>5, <3>6, Zenon DEF Quiet
  <2> QED
    BY <1>1, <2>1, <2>2 DEF Bit
<1>4. 1 \in Bit /\ 1 # 0
  BY DEF Bit
<1> QED
  BY <1>0, <1>1, <1>2, <1>3, <1>4, Zenon DEF BusOk

(* The end of an erase.                                                       *)
LEMMA EraseDoneKeeps ==
    ASSUME BusOk, EraseDone PROVE BusOk'
<1>1. PICK e \in Chips : chip' = [chip EXCEPT ![e] = Idle(@)]
  BY DEF EraseDone
<1>2. /\ mux' = mux /\ nss' = nss /\ sck' = sck /\ mosi' = mosi /\ main' = main
  BY DEF EraseDone
<1>3. /\ mux \in Chips /\ chip \in [Chips -> ChipType]
      /\ \A c \in Chips : ~chip[c].wel
      /\ \A c \in Chips : c # mux \/ nss = 1 => chip[c].bits = <<>>
  BY DEF BusOk
<1> DEFINE y == Idle(chip[e])
           r == [chip EXCEPT ![e] = y]
<1>4. y \in ChipType /\ y.wel = chip[e].wel /\ y.bits = chip[e].bits
  <2>1. chip[e] \in ChipType
    BY <1>3
  <2> QED
    BY <2>1, IdleIs, Zenon
<1>5. chip' = r
  BY <1>1
<1> HIDE DEF y
<1>6. r \in [Chips -> ChipType] /\ r[e] = y /\ \A c \in Chips : c # e => r[c] = chip[c]
  BY <1>3, <1>4
<1> HIDE DEF r
<1>7. \A c \in Chips : r[c].wel = chip[c].wel /\ r[c].bits = chip[c].bits
  BY <1>4, <1>6, Zenon
<1>8. /\ \A c \in Chips : ~r[c].wel
      /\ \A c \in Chips : c # mux \/ nss = 1 => r[c].bits = <<>>
      /\ r[mux].bits = chip[mux].bits
  BY <1>3, <1>7, Zenon
<1> QED
  BY <1>2, <1>5, <1>6, <1>8, Zenon DEF BusOk

(* BusOk holds at the start.                                                  *)
LEMMA InitOk == BusInit => BusOk
<1> SUFFICES ASSUME BusInit PROVE BusOk
  OBVIOUS
<1> DEFINE z == [a \in Address |-> Blank]
           e == [cell |-> z, wip |-> FALSE, wel |-> FALSE, bits |-> <<>>, deaf |-> FALSE]
<1>1. mux \in Chips /\ nss = 1 /\ sck = 1 /\ mosi = 0 /\ main = Resting
      /\ chip = [c \in Chips |-> e]
  BY DEF BusInit
<1>2. z \in [Address -> Byte] /\ <<>> \in Seq(Bit) /\ <<>> \in Seq(Bit \cup {Float})
  BY DEF Byte, Blank
<1> HIDE DEF z
<1>3. e \in ChipType /\ e.wel = FALSE /\ e.bits = <<>>
  BY <1>2 DEF ChipType
<1> HIDE DEF e
<1>4. chip \in [Chips -> ChipType] /\ \A c \in Chips : chip[c] = e
  BY <1>1, <1>3
<1>5. MainOk(main)
  <2>1. Resting \in MainType
    BY <1>2 DEF Resting, MainType
  <2>2. Resting.job = NoJob /\ Resting.low = FALSE /\ Resting.moves = 0
    BY DEF Resting
  <2>3. 0 <= 1
    OBVIOUS
  <2> QED
    BY <1>1, <2>1, <2>2, <2>3, Zenon DEF MainOk
<1>6. 1 \in Bit /\ 0 \in Bit /\ 1 # 0
  BY DEF Bit
<1> QED
  BY <1>1, <1>3, <1>4, <1>5, <1>6, Zenon DEF BusOk

(* The routing once astray, it stays so.                                      *)
LEMMA AstrayStays ==
    ASSUME [BusNext]_spiVars, ~astray' PROVE ~astray
<1>1. CASE Main
  BY <1>1 DEF Main, NssLow, SckLow, SckHigh, NssHigh
<1>2. CASE EarseCmd
  BY <1>2, Zenon DEF EarseCmd, Command, Counted
<1>3. CASE RouteCmd
  BY <1>3, Zenon DEF RouteCmd, Counted
<1>4. CASE \E a \in Starts, data \in Payloads : WriteDataCmd(a, data)
  BY <1>4, Zenon DEF WriteDataCmd, Command, Counted
<1>5. CASE \E a \in Starts, n \in ReadLens : ReadCmd(a, n)
  <2>1. \E to \in Chips : Counted(to)
    BY <1>5, Zenon DEF ReadCmd, Command
  <2> QED
    BY <2>1, Zenon DEF Counted
<1>6. CASE EraseDone
  BY <1>6 DEF EraseDone
<1>7. CASE UNCHANGED spiVars
  BY <1>7, Zenon DEF spiVars
<1> QED
  BY <1>1, <1>2, <1>3, <1>4, <1>5, <1>6, <1>7 DEF BusNext

(* Every step keeps BusOk until the routing is astray.                        *)
LEMMA StepOk == BusOk /\ [BusNext]_spiVars /\ ~astray' => BusOk'
<1> SUFFICES ASSUME BusOk, [BusNext]_spiVars, ~astray' PROVE BusOk'
  OBVIOUS
<1>1. CASE Main
  BY <1>1, NssLowKeeps, SckLowKeeps, SckHighKeeps, NssHighKeeps DEF Main
<1>2. CASE EarseCmd
  BY <1>2, EarseKeeps
<1>3. CASE RouteCmd
  BY <1>3, RouteKeeps
<1>4. CASE \E a \in Starts, data \in Payloads : WriteDataCmd(a, data)
  BY <1>4, WriteKeeps
<1>5. CASE \E a \in Starts, n \in ReadLens : ReadCmd(a, n)
  BY <1>5, ReadKeeps
<1>6. CASE EraseDone
  BY <1>6, EraseDoneKeeps
<1>7. CASE UNCHANGED spiVars
  BY <1>7, Zenon DEF spiVars, busVars, BusOk
<1> QED
  BY <1>1, <1>2, <1>3, <1>4, <1>5, <1>6, <1>7 DEF BusNext

(* No chip keeps its write-enable latch set between two commands, for any     *)
(* chips, sizes, data and addresses, until the routing has moved twice while  *)
(* a transaction of the main loop was open (drvflash.c 18-23 and 65-113,      *)
(* stm32f107.c 349-387): no part of a transaction that a chip can have heard  *)
(* alone is WRITE_ENABLE, and every driver function that sets the latch       *)
(* clears it.                                                                 *)
THEOREM LatchIsUsed == BusSpec => []LatchUsed
<1>1. BusInit => BusOk
  BY InitOk
<1>2. (~astray => BusOk) /\ [BusNext]_spiVars => (~astray => BusOk)'
  BY StepOk, AstrayStays
<1>3. (~astray => BusOk) => LatchUsed
  BY DEF BusOk, LatchUsed
<1> QED
  BY <1>1, <1>2, <1>3, PTL DEF BusSpec

-----------------------------------------------------------------------------
(* What the chips hold as SpiFlash names it: programming is a bitwise and.    *)

(* Bits undoes Value.                                                         *)
LEMMA BitsOfValue ==
    ASSUME NEW x, \A i \in 1 .. 8 : x[i] \in Bit, NEW i \in 1 .. 8
    PROVE  Bits(Value(x, 1))[i] = x[i]
<1> DEFINE v == Value(x, 1)
           a == x[1]
           b == x[2]
           c == x[3]
           d == x[4]
           e == x[5]
           f == x[6]
           g == x[7]
           h == x[8]
<1>1. /\ a \in Bit /\ b \in Bit /\ c \in Bit /\ d \in Bit
      /\ e \in Bit /\ f \in Bit /\ g \in Bit /\ h \in Bit
  OBVIOUS
<1>2. v = 128 * a + 64 * b + 32 * c + 16 * d + 8 * e + 4 * f + 2 * g + h
  <2>1. /\ 1 + 1 = 2 /\ 1 + 2 = 3 /\ 1 + 3 = 4 /\ 1 + 4 = 5 /\ 1 + 5 = 6 /\ 1 + 6 = 7
        /\ 1 + 7 = 8
    OBVIOUS
  <2> QED
    BY <2>1, Zenon DEF Value
<1> HIDE DEF v, a, b, c, d, e, f, g, h
<1>3. /\ (v \div 128) % 2 = a /\ (v \div 64) % 2 = b /\ (v \div 32) % 2 = c
      /\ (v \div 16) % 2 = d
  BY <1>1, <1>2, SMTT(60) DEF Bit
<1>4. /\ (v \div 8) % 2 = e /\ (v \div 4) % 2 = f /\ (v \div 2) % 2 = g /\ v % 2 = h
  BY <1>1, <1>2, SMTT(60) DEF Bit
<1>5. /\ Bits(v)[1] = (v \div 128) % 2 /\ Bits(v)[2] = (v \div 64) % 2
      /\ Bits(v)[3] = (v \div 32) % 2 /\ Bits(v)[4] = (v \div 16) % 2
      /\ Bits(v)[5] = (v \div 8) % 2 /\ Bits(v)[6] = (v \div 4) % 2
      /\ Bits(v)[7] = (v \div 2) % 2 /\ Bits(v)[8] = v % 2
  BY <1>1, <1>2 DEF Bits, Bit
<1>6. i \in {1, 2, 3, 4, 5, 6, 7, 8}
  OBVIOUS
<1> QED
  BY <1>3, <1>4, <1>5, <1>6, Zenon DEF a, b, c, d, e, f, g, h, v

(* And works bit by bit.                                                      *)
LEMMA AndBits ==
    ASSUME NEW a \in Byte, NEW b \in Byte, NEW i \in 1 .. 8
    PROVE  Bits(And(a, b))[i] = Bits(a)[i] * Bits(b)[i]
<1> DEFINE x == Bits(a)
           y == Bits(b)
           z == [k \in 1 .. 8 |-> x[k] * y[k]]
<1>1. \A k \in 1 .. 8 : x[k] \in Bit /\ y[k] \in Bit
  BY BitsIn DEF Byte
<1> HIDE DEF x, y
<1>2. \A k \in 1 .. 8 : z[k] \in Bit
  <2>1. ASSUME NEW k \in 1 .. 8 PROVE z[k] \in Bit
    <3>1. z[k] = x[k] * y[k]
      OBVIOUS
    <3> QED
      BY <1>1, <3>1 DEF Bit
  <2> QED
    BY <2>1
<1>3. z[i] = x[i] * y[i]
  OBVIOUS
<1> HIDE DEF z
<1>4. Bits(Value(z, 1))[i] = z[i]
  BY <1>2, BitsOfValue, Zenon
<1> QED
  BY <1>3, <1>4, Zenon DEF And, x, y, z

(* A byte is its bits.                                                        *)
LEMMA SameBits ==
    ASSUME NEW a \in Byte, NEW b \in Byte, \A i \in 1 .. 8 : Bits(a)[i] = Bits(b)[i]
    PROVE  a = b
<1> DEFINE x == Bits(a)
<1>1. 1 \in Int /\ \A i \in 1 .. 8 : 1 + i - 1 = i
  OBVIOUS
<1> HIDE DEF x
<1>2. \A i \in 1 .. 8 : x[1 + i - 1] = x[i]
  BY <1>1, Zenon
<1>3. \A i \in 1 .. 8 : x[1 + i - 1] = Bits(a)[i]
  BY <1>2, Zenon DEF x
<1>4. \A i \in 1 .. 8 : x[1 + i - 1] = Bits(b)[i]
  BY <1>3, Zenon
<1>5. Value(x, 1) = a
  BY <1>1, <1>3, ByteValue, Zenon
<1>6. Value(x, 1) = b
  BY <1>1, <1>4, ByteValue, Zenon
<1> QED
  BY <1>5, <1>6

(* And is a meet: commutative, associative, idempotent, with 255 on top.      *)
LEMMA AndSwap ==
    ASSUME NEW a \in Byte, NEW b \in Byte PROVE And(a, b) = And(b, a)
<1>1. ASSUME NEW i \in 1 .. 8 PROVE Bits(And(a, b))[i] = Bits(And(b, a))[i]
  <2>1. /\ Bits(And(a, b))[i] = Bits(a)[i] * Bits(b)[i]
        /\ Bits(And(b, a))[i] = Bits(b)[i] * Bits(a)[i]
    BY AndBits, Zenon
  <2>2. Bits(a)[i] \in Bit /\ Bits(b)[i] \in Bit
    BY BitsIn DEF Byte
  <2> DEFINE x == Bits(a)[i]
             y == Bits(b)[i]
  <2> HIDE DEF x, y
  <2>3. x * y = y * x
    BY <2>2 DEF Bit, x, y
  <2> QED
    BY <2>1, <2>3, Zenon DEF x, y
<1>2. And(a, b) \in Byte /\ And(b, a) \in Byte
  BY AndIn
<1> QED
  BY <1>1, <1>2, SameBits, Zenon

(* The and of a byte with itself.                                             *)
LEMMA AndTwice ==
    ASSUME NEW a \in Byte PROVE And(a, a) = a
<1>1. ASSUME NEW i \in 1 .. 8 PROVE Bits(And(a, a))[i] = Bits(a)[i]
  <2>1. Bits(And(a, a))[i] = Bits(a)[i] * Bits(a)[i]
    BY AndBits, Zenon
  <2>2. Bits(a)[i] \in Bit
    BY BitsIn DEF Byte
  <2> DEFINE x == Bits(a)[i]
  <2> HIDE DEF x
  <2>3. x * x = x
    BY <2>2 DEF Bit, x
  <2> QED
    BY <2>1, <2>3, Zenon DEF x
<1>2. And(a, a) \in Byte
  BY AndIn
<1> QED
  BY <1>1, <1>2, SameBits, Zenon

(* The and is associative.                                                    *)
LEMMA AndInTurn ==
    ASSUME NEW a \in Byte, NEW b \in Byte, NEW c \in Byte
    PROVE  And(And(a, b), c) = And(a, And(b, c))
<1>0. And(a, b) \in Byte /\ And(b, c) \in Byte
  BY AndIn
<1>1. ASSUME NEW i \in 1 .. 8
      PROVE  Bits(And(And(a, b), c))[i] = Bits(And(a, And(b, c)))[i]
  <2>1. /\ Bits(And(a, b))[i] = Bits(a)[i] * Bits(b)[i]
        /\ Bits(And(b, c))[i] = Bits(b)[i] * Bits(c)[i]
    BY AndBits, Zenon
  <2>a. /\ Bits(And(And(a, b), c))[i] = Bits(And(a, b))[i] * Bits(c)[i]
        /\ Bits(And(a, And(b, c)))[i] = Bits(a)[i] * Bits(And(b, c))[i]
    BY <1>0, AndBits, Zenon
  <2>2. Bits(a)[i] \in Bit /\ Bits(b)[i] \in Bit /\ Bits(c)[i] \in Bit
    BY BitsIn DEF Byte
  <2> DEFINE x == Bits(a)[i]
             y == Bits(b)[i]
             z == Bits(c)[i]
  <2> HIDE DEF x, y, z
  <2>3. (x * y) * z = x * (y * z)
    BY <2>2 DEF Bit, x, y, z
  <2> QED
    BY <2>1, <2>a, <2>3, Zenon DEF x, y, z
<1>2. And(And(a, b), c) \in Byte /\ And(a, And(b, c)) \in Byte
  BY <1>0, AndIn
<1> QED
  BY <1>1, <1>2, SameBits, Zenon

(* Erased cells take on what is programmed; 0xff programs nothing.            *)
LEMMA AndBlank ==
    ASSUME NEW a \in Byte PROVE And(a, Blank) = a /\ And(Blank, a) = a
<1>1. Blank \in Byte
  BY DEF Blank, Byte
<1>2. \A i \in 1 .. 8 : Bits(Blank)[i] = 1
  <2>1. /\ Bits(Blank)[1] = 1 /\ Bits(Blank)[2] = 1 /\ Bits(Blank)[3] = 1
        /\ Bits(Blank)[4] = 1 /\ Bits(Blank)[5] = 1 /\ Bits(Blank)[6] = 1
        /\ Bits(Blank)[7] = 1 /\ Bits(Blank)[8] = 1
    BY DEF Bits, Blank
  <2> QED
    BY <2>1
<1>3. ASSUME NEW i \in 1 .. 8 PROVE Bits(And(a, Blank))[i] = Bits(a)[i]
  <2>1. Bits(And(a, Blank))[i] = Bits(a)[i] * Bits(Blank)[i]
    BY <1>1, AndBits, Zenon
  <2>2. Bits(a)[i] \in Bit
    BY BitsIn DEF Byte
  <2> DEFINE x == Bits(a)[i]
  <2> HIDE DEF x
  <2>3. x * 1 = x
    BY <2>2 DEF Bit, x
  <2>4. Bits(Blank)[i] = 1
    BY <1>2
  <2> QED
    BY <2>1, <2>3, <2>4, Zenon DEF x
<1>4. And(a, Blank) \in Byte
  BY <1>1, AndIn
<1>5. And(a, Blank) = a
  BY <1>3, <1>4, SameBits, Zenon
<1> QED
  BY <1>1, <1>5, AndSwap, Zenon

(* A byte that was mixed is below two different bytes that were written.      *)
Below(b, d) == And(b, d) = b
Mixed == {b \in Byte : \E d, e \in Data : d # e /\ Below(b, d) /\ Below(b, e)}

(* What a cell can hold: what was written, blank, or a mixture.               *)
Held == Data \cup {Blank} \cup Mixed

(* Written bytes are bytes, none is blank or floating.                        *)
LEMMA DataIn == Data \subseteq Byte /\ Blank \notin Data /\ Float \notin Data
                /\ Blank \in Byte /\ Float # Blank /\ Float \notin Byte
  BY SpiBusAssumption DEF Byte, Blank, Float

(* An and stays below what its first byte is below.                           *)
LEMMA BelowAnd ==
    ASSUME NEW b \in Byte, NEW d \in Byte, NEW e \in Byte, Below(b, d)
    PROVE  Below(And(b, e), d)
<1>1. And(And(b, e), d) = And(b, And(e, d))
  BY AndInTurn, Zenon
<1>2. And(b, And(e, d)) = And(b, And(d, e))
  BY AndSwap, Zenon
<1>3. And(b, And(d, e)) = And(And(b, d), e)
  BY AndInTurn, Zenon
<1> QED
  BY <1>1, <1>2, <1>3, Zenon DEF Below

(* An and is below both its bytes.                                            *)
LEMMA AndBelow ==
    ASSUME NEW b \in Byte, NEW e \in Byte
    PROVE  Below(And(b, e), b) /\ Below(And(b, e), e)
<1>1. Below(b, b) /\ Below(e, e)
  BY AndTwice, Zenon DEF Below
<1>2. Below(And(b, e), b) /\ Below(And(e, b), e)
  BY <1>1, BelowAnd, Zenon
<1> QED
  BY <1>2, AndSwap, Zenon

(* What was mixed was not written, nor is it blank.                           *)
LEMMA MixedIsNot ==
    ASSUME NEW b \in Mixed PROVE b \notin Data /\ b # Blank
<1>1. PICK d \in Data, e \in Data : d # e /\ Below(b, d) /\ Below(b, e)
  BY DEF Mixed
<1>2. b \in Byte /\ d \in Byte /\ e \in Byte
  BY DataIn DEF Mixed
<1>3. ASSUME b \in Data PROVE FALSE
  <2>1. And(b, d) \in Data /\ And(b, e) \in Data
    BY <1>1, <1>3, Zenon DEF Below
  <2>2. b = d /\ b = e
    BY <1>3, <2>1, SpiBusData, Zenon
  <2> QED
    BY <1>1, <2>2
<1>4. ASSUME b = Blank PROVE FALSE
  <2>1. And(b, d) = d
    BY <1>2, <1>4, AndBlank, Zenon
  <2>2. d = Blank
    BY <1>1, <1>4, <2>1, Zenon DEF Below
  <2> QED
    BY <2>2, DataIn
<1> QED
  BY <1>3, <1>4

(* Programming, as SpiFlash names it.                                         *)
LEMMA BurnIs ==
    ASSUME NEW old \in Held, NEW new \in Data \cup {Blank}
    PROVE  /\ And(old, new) \in Held
           /\ Known(And(old, new)) = Access!Burn(Known(old), new)
<1>1. old \in Byte /\ new \in Byte
  BY DataIn DEF Held, Mixed
<1>2. CASE new = Blank
  <2>1. And(old, new) = old
    BY <1>1, <1>2, AndBlank, Zenon
  <2> QED
    BY <1>2, <2>1, Zenon DEF Access!Burn
<1>3. CASE new \in Data /\ old = Blank
  <2>1. And(old, new) = new
    BY <1>1, <1>3, AndBlank, Zenon
  <2>2. Known(old) = Blank /\ Known(new) = new /\ new # Blank
    BY <1>3, DataIn DEF Known
  <2>3. new \in Held
    BY <1>3 DEF Held
  <2> QED
    BY <2>1, <2>2, <2>3 DEF Access!Burn
<1>4. CASE new \in Data /\ old = new
  <2>1. And(old, new) = new
    BY <1>1, <1>4, AndTwice, Zenon
  <2>2. Known(old) = new /\ Known(new) = new
    BY <1>4, DataIn DEF Known
  <2>3. new \in Held
    BY <1>4 DEF Held
  <2> QED
    BY <2>1, <2>2, <2>3 DEF Access!Burn
<1>5. CASE new \in Data /\ old \in Data /\ old # new
  <2>1. And(old, new) \in Mixed
    <3>1. And(old, new) \in Byte /\ Below(And(old, new), old) /\ Below(And(old, new), new)
      BY <1>1, AndIn, AndBelow
    <3> QED
      BY <1>5, <3>1 DEF Mixed
  <2>2. Known(And(old, new)) = Float
    BY <2>1, MixedIsNot DEF Known
  <2>3. Known(old) = old /\ old # Blank /\ new # Blank
    BY <1>5, DataIn DEF Known
  <2>4. And(old, new) \in Held
    BY <2>1 DEF Held
  <2> QED
    BY <1>5, <2>2, <2>3, <2>4 DEF Access!Burn
<1>6. CASE new \in Data /\ old \in Mixed
  <2>1. And(old, new) \in Mixed
    <3>1. PICK d \in Data, e \in Data : d # e /\ Below(old, d) /\ Below(old, e)
      BY <1>6 DEF Mixed
    <3>2. d \in Byte /\ e \in Byte
      BY DataIn
    <3>3. And(old, new) \in Byte /\ Below(And(old, new), d) /\ Below(And(old, new), e)
      BY <1>1, <3>1, <3>2, AndIn, BelowAnd
    <3> QED
      BY <3>1, <3>3 DEF Mixed
  <2>2. Known(And(old, new)) = Float
    BY <2>1, MixedIsNot DEF Known
  <2>3. Known(old) = Float
    BY <1>6, MixedIsNot DEF Known
  <2>4. And(old, new) \in Held
    BY <2>1 DEF Held
  <2>5. new # Float /\ new # Blank /\ Float # Blank
    BY <1>6, DataIn
  <2> QED
    BY <2>2, <2>3, <2>4, <2>5 DEF Access!Burn
<1> QED
  BY <1>2, <1>3, <1>4, <1>5, <1>6 DEF Held

-----------------------------------------------------------------------------
(* What a chip makes of the transactions of a command.                        *)

(* A chip between two bits: its latch is clear, and it listens anew when its  *)
(* bits are gone.                                                             *)
Plain(c) == c \in ChipType /\ ~c.wel /\ (c.bits = <<>> => ~c.deaf)

(* Flash_WriteEnable sets the latch of a chip that is idle and heard nothing  *)
(* before, and changes nothing else.                                          *)
LEMMA EnableGives ==
    ASSUME NEW c, Plain(c)
    PROVE  LET e == Flash_WriteEnable(c)
           IN  /\ Armed(e) /\ e.wip = c.wip /\ e.cell = c.cell
               /\ e.wel <=> ~c.wip /\ c.bits = <<>>
<1> DEFINE w == AllBits(<<WRITE_ENABLE>>)
           d == Clocked(c, w)
           e == Flash_WriteEnable(c)
<1>0. c \in ChipType /\ ~c.wel /\ (c.bits = <<>> => ~c.deaf)
  BY DEF Plain
<1>1. e = Deselected(d)
  BY Zenon DEF Flash_WriteEnable, Transaction, SPI_WriteBytes
<1>2. w \in Seq(Bit) /\ Len(w) = 8 /\ Value(w, 1) = WRITE_ENABLE
  <2>1. <<WRITE_ENABLE>> \in Seq(Int) /\ Len(<<WRITE_ENABLE>>) = 1
        /\ <<WRITE_ENABLE>>[1] = WRITE_ENABLE /\ WRITE_ENABLE \in Byte
    BY DEF WRITE_ENABLE, Byte
  <2> DEFINE b == <<WRITE_ENABLE>>
  <2> HIDE DEF b
  <2>2. AllBits(b) \in Seq(Bit) /\ Len(AllBits(b)) = 8 * Len(b)
    BY <2>1, AllBitsIn, Zenon DEF b
  <2>3. 1 >= 1
    OBVIOUS
  <2>4. Value(AllBits(b), 1) = b[1]
    BY <2>1, <2>3, FirstByte, Zenon DEF b
  <2>5. Len(AllBits(b)) = 8
    BY <2>1, <2>2 DEF b
  <2> QED
    BY <2>1, <2>2, <2>4, <2>5, Zenon DEF b
<1> HIDE DEF w
<1>3. /\ d \in ChipType /\ d.bits = c.bits \o w /\ d.wip = c.wip /\ d.wel = c.wel
      /\ d.cell = c.cell
      /\ Len(c.bits) < 8 /\ Len(d.bits) >= 8 =>
             d.deaf = (c.wip /\ Value(d.bits, 1) # READ_SR)
  BY <1>0, <1>2, ClockedIs
<1> HIDE DEF d, e
<1>a. Armed(e) /\ e.wip = c.wip
  BY <1>0, EnableIs, Zenon DEF e
<1>4. /\ e.cell = c.cell
      /\ e.wel => Len(d.bits) = 8 /\ ~d.deaf
  BY <1>0, <1>1, <1>3, DeselectedKeeps, Zenon
<1>b. c.bits \in Seq(Bit)
  BY <1>0 DEF ChipType
<1>5. c.bits = <<>> => /\ d.bits = w /\ Len(d.bits) = 8 /\ (d.deaf <=> c.wip)
  <2> SUFFICES ASSUME c.bits = <<>> PROVE /\ d.bits = w /\ Len(d.bits) = 8 /\ (d.deaf <=> c.wip)
    OBVIOUS
  <2>3. d.bits = w /\ Len(c.bits) = 0
    BY <1>2, <1>3
  <2>b. Len(d.bits) = 8
    BY <1>2, <2>3, Zenon
  <2>a. Len(c.bits) < 8 /\ Len(d.bits) >= 8
    BY <2>3, <2>b
  <2>4. d.deaf = (c.wip /\ Value(d.bits, 1) # READ_SR)
    BY <1>3, <2>a, Zenon
  <2>5. Value(d.bits, 1) # READ_SR
    BY <1>2, <2>3 DEF WRITE_ENABLE, READ_SR
  <2>6. d.deaf \in BOOLEAN /\ c.wip \in BOOLEAN
    BY <1>0, <1>3 DEF ChipType
  <2> QED
    BY <2>3, <2>b, <2>4, <2>5, <2>6, Zenon
<1>6. e.wel => c.bits = <<>>
  <2> SUFFICES ASSUME e.wel PROVE c.bits = <<>>
    OBVIOUS
  <2>1. Len(d.bits) = 8 /\ d.bits = c.bits \o w
    BY <1>3, <1>4, Zenon
  <2>2. Len(w) = 8 /\ w \in Seq(Bit)
    BY <1>2
  <2> QED
    BY <1>b, <2>1, <2>2
<1>7. ~c.wip /\ c.bits = <<>> => e.wel
  <2> SUFFICES ASSUME ~c.wip, c.bits = <<>> PROVE e.wel
    OBVIOUS
  <2>1. ~d.deaf /\ d.bits = w /\ Len(d.bits) = 8
    BY <1>5, Zenon
  <2>2. Len(d.bits) % 8 = 0 /\ ~(Len(d.bits) < 8)
    BY <2>1
  <2>3. Opcode(d) = WRITE_ENABLE
    BY <1>2, <2>1, <2>2, Zenon DEF Opcode
  <2> DEFINE x == [d EXCEPT !.bits = <<>>, !.deaf = FALSE]
  <2>4. e = [x EXCEPT !.wel = TRUE]
    BY <1>1, <2>1, <2>2, <2>3, Zenon DEF Deselected
  <2> QED
    BY <1>3, <2>4 DEF ChipType
<1>8. e.wel => ~c.wip
  BY <1>4, <1>5, <1>6, Zenon
<1> QED
  BY <1>a, <1>4, <1>6, <1>7, <1>8, Zenon DEF e

(* What a chip does with a command after Flash_WriteEnable: nothing without   *)
(* the latch; with it a chip erase, or a program of the bytes heard.          *)
Took(e, bytes, f) ==
    /\ ~e.wel => f.cell = e.cell /\ f.wip = e.wip
    /\ e.wel /\ bytes[1] = ERASE_CHIP => f.cell = e.cell /\ f.wip = TRUE
    /\ e.wel /\ bytes[1] = WRITE_PAGE =>
         /\ f.wip = e.wip
         /\ \E d \in ChipType : d.bits = AllBits(bytes) /\ d.cell = e.cell /\ f.cell = Programmed(d)

(* A transaction of the driver does that.                                     *)
LEMMA TransactionTakes ==
    ASSUME NEW e, Armed(e), NEW bytes, Uses(bytes)
    PROVE  Took(e, bytes, Transaction(e, bytes))
<1> DEFINE w == AllBits(bytes)
           d == Clocked(e, w)
           f == Transaction(e, bytes)
           b == bytes[1]
<1>1. f = Deselected(d)
  BY Zenon DEF Transaction, SPI_WriteBytes
<1>2. /\ w \in Seq(Bit) /\ Len(w) = 8 * Len(bytes) /\ Len(bytes) \in Nat
      /\ Value(w, 1) = b /\ b \in {ERASE_CHIP, WRITE_PAGE} /\ Len(bytes) >= 1
  <2>1. bytes \in Seq(Int) /\ Len(bytes) \in Nat /\ Len(bytes) >= 1
        /\ b \in {ERASE_CHIP, WRITE_PAGE} /\ b \in Byte
    BY DEF Uses, ERASE_CHIP, WRITE_PAGE, Byte
  <2> QED
    BY <2>1, AllBitsIn, FirstByte, Zenon
<1>3. e \in ChipType /\ e.bits = <<>> /\ e.wel \in BOOLEAN /\ (e.wel => ~e.wip)
  BY DEF Armed, ChipType
<1> HIDE DEF w
<1>4. /\ d \in ChipType /\ d.bits = e.bits \o w /\ d.wip = e.wip /\ d.wel = e.wel
      /\ d.cell = e.cell
      /\ Len(e.bits) < 8 /\ Len(d.bits) >= 8 =>
             d.deaf = (e.wip /\ Value(d.bits, 1) # READ_SR)
  BY <1>2, <1>3, ClockedIs
<1> HIDE DEF d, f
<1>5. d.bits = w /\ Len(e.bits) = 0 /\ Len(d.bits) = 8 * Len(bytes)
  BY <1>2, <1>3, <1>4
<1>6. d.deaf = (e.wip /\ Value(d.bits, 1) # READ_SR)
  BY <1>2, <1>4, <1>5
<1>8. ~e.wel => f.cell = e.cell /\ f.wip = e.wip
  BY <1>1, <1>4, DeselectedKeeps, Zenon
<1>9. ASSUME e.wel
      PROVE  /\ ~d.deaf /\ d.wel /\ Opcode(d) = b /\ Len(d.bits) % 8 = 0
  <2>1. ~d.deaf /\ d.wel
    BY <1>3, <1>4, <1>6, <1>9, Zenon
  <2>2. Opcode(d) = b
    BY <1>2, <1>5 DEF Opcode
  <2>3. Len(d.bits) % 8 = 0
    BY <1>2, <1>5
  <2> QED
    BY <2>1, <2>2, <2>3
<1> DEFINE x == [d EXCEPT !.bits = <<>>, !.deaf = FALSE]
<1>10. ASSUME e.wel, b = ERASE_CHIP PROVE f.cell = e.cell /\ f.wip = TRUE
  <2>0. WRITE_PAGE # ERASE_CHIP
    BY DEF ERASE_CHIP, WRITE_PAGE
  <2>a. Len(bytes) = 1
    BY <1>10, <2>0, Zenon DEF Uses
  <2>1. Len(d.bits) = 8
    BY <1>5, <2>a
  <2>2. ERASE_CHIP # WRITE_ENABLE
    BY DEF ERASE_CHIP, WRITE_ENABLE
  <2>3. f = [x EXCEPT !.wel = FALSE, !.wip = TRUE]
    BY <1>1, <1>9, <1>10, <2>1, <2>2, Zenon DEF Deselected
  <2> QED
    BY <1>4, <2>3 DEF ChipType
<1>11. ASSUME e.wel, b = WRITE_PAGE PROVE f.wip = e.wip /\ f.cell = Programmed(d)
  <2>1. Len(d.bits) >= 40
    BY <1>2, <1>5, <1>11 DEF Uses, ERASE_CHIP, WRITE_PAGE
  <2>2. WRITE_PAGE # WRITE_ENABLE /\ WRITE_PAGE # ERASE_CHIP
    BY DEF ERASE_CHIP, WRITE_ENABLE, WRITE_PAGE
  <2>3. f = [x EXCEPT !.wel = FALSE, !.cell = Programmed(d)]
    BY <1>1, <1>9, <1>11, <2>1, <2>2, Zenon DEF Deselected
  <2> DEFINE p == Programmed(d)
  <2> HIDE DEF p
  <2>4. f = [x EXCEPT !.wel = FALSE, !.cell = p]
    BY <2>3, Zenon DEF p
  <2>5. f.wip = e.wip /\ f.cell = p
    BY <1>4, <2>4 DEF ChipType
  <2> QED
    BY <2>5, Zenon DEF p
<1>12. \E y \in ChipType : y.bits = w /\ y.cell = e.cell /\ Programmed(d) = Programmed(y)
  BY <1>4, <1>5, Zenon
<1> HIDE DEF x
<1>13. Took(e, bytes, f)
  BY <1>8, <1>10, <1>11, <1>12, Zenon DEF Took, w
<1> QED
  BY <1>13, Zenon DEF f

-----------------------------------------------------------------------------
(* A chip as SpiFlash sees it, and an erase.                                  *)

(* A chip as SpiFlash sees it.                                                *)
View(c) == [cell |-> [a \in Address |-> Known(c.cell[a])], wip |-> c.wip]

(* Its cells hold what can be held.                                           *)
Keeps(c) == c.cell \in [Address -> Held]

(* A chip that ends its erase is blank; an idle one stays as it is.           *)
LEMMA IdleCells ==
    ASSUME NEW c \in ChipType
    PROVE  /\ c.wip => Idle(c).cell = [a \in Address |-> Blank]
           /\ ~c.wip => Idle(c) = c
<1> DEFINE z == [a \in Address |-> Blank]
           d == [c EXCEPT !.cell = z, !.wip = FALSE]
<1>1. Idle(c) = IF c.wip THEN d ELSE c
  BY Zenon DEF Idle
<1> HIDE DEF z
<1>2. d.cell = z
  BY DEF ChipType
<1> HIDE DEF d
<1> QED
  BY <1>1, <1>2, Zenon DEF z

(* Flash_WaitBusy is Idle of SpiFlash.                                        *)
LEMMA IdleSeen ==
    ASSUME NEW c \in ChipType, Keeps(c)
    PROVE  View(Idle(c)) = Access!Idle(View(c)) /\ Keeps(Idle(c))
<1> DEFINE z == [a \in Address |-> Blank]
<1>0. Known(Blank) = Blank /\ Blank \in Held
  BY DataIn DEF Known, Held
<1>1. CASE c.wip
  <2>1. Idle(c).cell = z /\ Idle(c).wip = FALSE
    BY <1>1, IdleIs, IdleCells, Zenon
  <2>2. \A a \in Address : Known(z[a]) = Blank
    BY <1>0
  <2>3. z \in [Address -> Held]
    BY <1>0
  <2> HIDE DEF z
  <2>4. [a \in Address |-> Known(z[a])] = [a \in Address |-> Blank]
    BY <2>2, Zenon
  <2>5. View(Idle(c)) = [cell |-> [a \in Address |-> Blank], wip |-> FALSE]
    BY <2>1, <2>4, Zenon DEF View
  <2>6. Access!Erased = [a \in Address |-> Blank]
    BY Zenon DEF Access!Erased, Access!Address, Address
  <2>7. View(c).wip
    BY <1>1 DEF View
  <2>8. Access!Idle(View(c)) = [cell |-> Access!Erased, wip |-> FALSE]
    BY <2>7, Zenon DEF Access!Idle
  <2>9. Keeps(Idle(c))
    BY <2>1, <2>3, Zenon DEF Keeps
  <2> QED
    BY <2>5, <2>6, <2>8, <2>9, Zenon
<1>2. CASE ~c.wip
  <2>1. Idle(c) = c
    BY <1>2, IdleCells, Zenon
  <2>2. ~View(c).wip
    BY <1>2 DEF View
  <2>3. Access!Idle(View(c)) = View(c)
    BY <2>2, Zenon DEF Access!Idle
  <2> QED
    BY <2>1, <2>3, Zenon
<1> QED
  BY <1>1, <1>2

(* The view is of the cells and the busy bit alone.                           *)
LEMMA SameView ==
    ASSUME NEW c, NEW d, c.cell = d.cell, c.wip = d.wip
    PROVE  View(c) = View(d) /\ (Keeps(c) => Keeps(d))
  BY Zenon DEF View, Keeps

(* The busy bit of a view.                                                    *)
LEMMA BusyNow ==
    ASSUME NEW v, NEW x, NEW y
    PROVE  [[cell |-> v, wip |-> x] EXCEPT !.wip = y] = [cell |-> v, wip |-> y]
  OBVIOUS

(* Flash_EraseChip, pin by pin, is that of SpiFlash, lost if bits of another  *)
(* transaction came first (drvflash.c 175-186).                               *)
LEMMA EraseSeen ==
    ASSUME NEW c, Plain(c), Keeps(c)
    PROVE  /\ View(Flash_EraseChip(c)) = Access!Flash_EraseChip(View(c), c.bits # <<>>)
           /\ Keeps(Flash_EraseChip(c))
<1> DEFINE e == Flash_WriteEnable(c)
           i == Idle(e)
           f == Flash_EraseChip(c)
<1>1. /\ Armed(e) /\ e.wip = c.wip /\ e.cell = c.cell
      /\ e.wel <=> ~c.wip /\ c.bits = <<>>
  BY EnableGives, Zenon
<1>2. f = Transaction(i, <<ERASE_CHIP>>)
  BY Zenon DEF Flash_EraseChip, Flash_WaitBusy
<1> HIDE DEF e, f
<1>3. e \in ChipType /\ View(e) = View(c) /\ Keeps(e)
  BY <1>1, SameView, Zenon DEF Armed
<1>4. Armed(i) /\ i.wip = FALSE /\ i.wel = e.wel
  BY <1>1, <1>3, IdleIs, Zenon DEF Armed
<1>5. View(i) = Access!Idle(View(c)) /\ Keeps(i)
  BY <1>3, IdleSeen, Zenon
<1> HIDE DEF i
<1>6. Uses(<<ERASE_CHIP>>) /\ <<ERASE_CHIP>>[1] = ERASE_CHIP
  BY DEF Uses, ERASE_CHIP
<1>7. Took(i, <<ERASE_CHIP>>, f)
  BY <1>2, <1>4, <1>6, TransactionTakes, Zenon
<1>8. CASE e.wel
  <2>1. f.cell = i.cell /\ f.wip = TRUE
    BY <1>4, <1>6, <1>7, <1>8, Zenon DEF Took
  <2>2. ~c.wip /\ c.bits = <<>>
    BY <1>1, <1>8, Zenon
  <2>3. ~View(c).wip
    BY <2>2 DEF View
  <2>4. View(i) = View(c)
    BY <1>5, <2>3, Zenon DEF Access!Idle
  <2> DEFINE v == [a \in Address |-> Known(i.cell[a])]
  <2> HIDE DEF v
  <2>5. View(f) = [cell |-> v, wip |-> TRUE]
    BY <2>1, Zenon DEF View, v
  <2>6. View(c) = [cell |-> v, wip |-> i.wip]
    BY <2>4, Zenon DEF View, v
  <2>7. [View(c) EXCEPT !.wip = TRUE] = [cell |-> v, wip |-> TRUE]
    <3> DEFINE u == View(c)
               x == i.wip
    <3> HIDE DEF u, x
    <3>1. [[cell |-> v, wip |-> x] EXCEPT !.wip = TRUE] = [cell |-> v, wip |-> TRUE]
      BY BusyNow
    <3>2. u = [cell |-> v, wip |-> x]
      BY <2>6, Zenon DEF u, x
    <3>3. [u EXCEPT !.wip = TRUE] = [cell |-> v, wip |-> TRUE]
      BY <3>1, <3>2
    <3> QED
      BY <3>3, Zenon DEF u
  <2>8. Access!Flash_EraseChip(View(c), c.bits # <<>>) = [View(c) EXCEPT !.wip = TRUE]
    BY <2>2, <2>3, Zenon DEF Access!Flash_EraseChip
  <2>9. Keeps(f)
    BY <1>5, <2>1, Zenon DEF Keeps
  <2> QED
    BY <2>5, <2>7, <2>8, <2>9, Zenon DEF f
<1>9. CASE ~e.wel
  <2>1. f.cell = i.cell /\ f.wip = i.wip
    BY <1>4, <1>7, <1>9, Zenon DEF Took
  <2>2. View(f) = View(i) /\ Keeps(f)
    BY <1>5, <2>1, SameView, Zenon
  <2>3. c.wip \/ c.bits # <<>>
    BY <1>1, <1>9, Zenon
  <2>4. View(c).wip = c.wip
    BY DEF View
  <2>5. Access!Flash_EraseChip(View(c), c.bits # <<>>) = Access!Idle(View(c))
    BY <2>3, <2>4, Zenon DEF Access!Flash_EraseChip
  <2> QED
    BY <1>5, <2>2, <2>5, Zenon DEF f
<1> QED
  BY <1>8, <1>9

-----------------------------------------------------------------------------
(* Addresses: three bytes, the chip's size and its pages.                     *)

(* Quotient and remainder, from a division with remainder.                    *)
LEMMA DivMod ==
    ASSUME NEW p \in Nat \ {0}, NEW q \in Int, NEW r \in 0 .. p - 1,
           NEW x \in Int, x = p * q + r
    PROVE  x % p = r /\ x \div p = q
<1> DEFINE d == (x \div p) - q
           s == (x % p) - r
<1>1. /\ x = p * (x \div p) + (x % p)
      /\ x \div p \in Int /\ x % p \in 0 .. p - 1
  OBVIOUS
<1>2. p * d + s = 0
  <2>1. p * d = p * (x \div p) - p * q
    BY <1>1
  <2> QED
    BY <1>1, <2>1
<1>3. d \in Int /\ s \in Int /\ s < p /\ s > -p
  BY <1>1
<1> HIDE DEF d, s
<1>4. d = 0
  <2>1. CASE d >= 1
    <3>1. p * d >= p
      BY <1>3, <2>1
    <3> QED
      BY <1>2, <1>3, <3>1
  <2>2. CASE d <= -1
    <3>1. p * d <= -p
      BY <1>3, <2>2
    <3> QED
      BY <1>2, <1>3, <3>1
  <2> QED
    BY <1>3, <2>1, <2>2
<1>5. s = 0
  BY <1>2, <1>3, <1>4
<1> QED
  BY <1>1, <1>4, <1>5 DEF d, s

(* Remainders of what is less than twice the divisor.                         *)
LEMMA Twice ==
    ASSUME NEW f \in Nat \ {0}, NEW a \in Nat
    PROVE  /\ a < f => a % f = a
           /\ f <= a /\ a < f + f => a % f = a - f
<1>1. ASSUME a < f PROVE a % f = a
  <2>1. a = f * 0 + a /\ a \in 0 .. f - 1 /\ a \in Int
    BY <1>1
  <2> QED
    BY <2>1, DivMod
<1>2. ASSUME f <= a, a < f + f PROVE a % f = a - f
  <2> DEFINE r == a - f
  <2>1. a = f * 1 + r /\ r \in 0 .. f - 1 /\ a \in Int
    BY <1>2
  <2> HIDE DEF r
  <2>2. a % f = r
    BY <2>1, DivMod
  <2> QED
    BY <2>2 DEF r
<1> QED
  BY <1>1, <1>2

(* Differences modulo the chip's size.                                        *)
LEMMA Around ==
    ASSUME NEW f \in Nat \ {0}, NEW i \in 0 .. f - 1, NEW s \in 0 .. f - 1
    PROVE  /\ s % f = s
           /\ (i + f - s) % f = IF i >= s THEN i - s ELSE i + f - s
<1>1. s % f = s
  <2>1. s = f * 0 + s
    OBVIOUS
  <2> QED
    BY <2>1, DivMod
<1>2. CASE i >= s
  <2>1. i + f - s = f * 1 + (i - s) /\ i - s \in 0 .. f - 1 /\ i + f - s \in Int
    BY <1>2
  <2>2. (i + f - s) % f = i - s
    BY <2>1, DivMod
  <2> QED
    BY <1>1, <1>2, <2>2
<1>3. CASE i < s
  <2>1. i + f - s = f * 0 + (i + f - s) /\ i + f - s \in 0 .. f - 1
    BY <1>3
  <2>2. (i + f - s) % f = i + f - s
    BY <2>1, DivMod
  <2> QED
    BY <1>1, <1>3, <2>2
<1> QED
  BY <1>2, <1>3

(* Remainders may be taken first.                                             *)
LEMMA Shift ==
    ASSUME NEW f \in Nat \ {0}, NEW a \in Nat, NEW j \in Nat
    PROVE  (a + j) % f = ((a % f) + j) % f
<1> DEFINE s == a % f
           q == a \div f
           y == s + j
           u == y \div f
           v == y % f
           x == a + j
<1>1. a = f * q + s /\ q \in Int /\ s \in Nat
  OBVIOUS
<1> HIDE DEF q, s
<1>2. y \in Nat
  BY <1>1
<1> HIDE DEF y
<1>3. y = f * u + v /\ u \in Int /\ v \in 0 .. f - 1
  BY <1>2
<1> HIDE DEF u, v
<1>4. x = f * (q + u) + v /\ x \in Int
  <2>1. f * (q + u) = f * q + f * u
    BY <1>1, <1>3
  <2> QED
    BY <1>1, <1>3, <2>1 DEF y
<1> HIDE DEF x
<1> DEFINE w == q + u
<1>5. w \in Int
  BY <1>1, <1>3
<1> HIDE DEF w
<1>6. x = f * w + v
  BY <1>4 DEF w
<1>7. x % f = v
  <2>1. v \in 0 .. f - 1 /\ w \in Int /\ x \in Int /\ x = f * w + v
    BY <1>3, <1>4, <1>5, <1>6, Zenon
  <2> QED
    BY <2>1, DivMod, Zenon
<1> QED
  BY <1>7, Zenon DEF x, v, y, s

(* The cell j places after an address, and the place of a cell.               *)
Meets(f, a, i, j) == (a + j) % f = i <=> (i + f - (a % f)) % f = j

(* That is how SpiFlash finds the byte for a cell.                            *)
LEMMA Where ==
    ASSUME NEW f \in Nat \ {0}, NEW a \in Nat, NEW i \in 0 .. f - 1, NEW j \in 0 .. f - 1
    PROVE  Meets(f, a, i, j)
<1> DEFINE s == a % f
           y == s + j
<1>a. s \in 0 .. f - 1 /\ j \in Nat
  OBVIOUS
<1>1. s \in 0 .. f - 1 /\ (a + j) % f = (s + j) % f
  BY <1>a, Shift, Zenon
<1> HIDE DEF s
<1>2. (i + f - s) % f = IF i >= s THEN i - s ELSE i + f - s
  BY <1>1, Around
<1>3. y \in Nat /\ y < f + f
  BY <1>1
<1> HIDE DEF y
<1>4. (y < f => y % f = y) /\ (f <= y => y % f = y - f)
  BY <1>3, Twice
<1>5. y % f = IF s + j < f THEN s + j ELSE s + j - f
  BY <1>1, <1>3, <1>4 DEF y
<1> DEFINE z == y % f
           w == (i + f - s) % f
<1> HIDE DEF z, w
<1>6. z = i <=> w = j
  BY <1>1, <1>2, <1>5 DEF z, w
<1> QED
  BY <1>1, <1>6, Zenon DEF s, z, w, y, Meets

(* The address that a chip takes out of three bytes.                          *)
LEMMA Digits ==
    ASSUME NEW a \in Int, NEW q \in Int, NEW r \in Int, NEW t \in Int,
           NEW x \in Int, NEW y \in Int, NEW z \in Int,
           a = 256 * q + x, q = 256 * r + y, r = 256 * t + z,
           0 <= x, x <= 255, 0 <= y, y <= 255, 0 <= z, z <= 255
    PROVE  /\ a = 65536 * r + (256 * y + x)
           /\ 0 <= 256 * y + x /\ 256 * y + x <= 65535
           /\ a = 16777216 * t + (65536 * z + 256 * y + x)
           /\ 0 <= 65536 * z + 256 * y + x /\ 65536 * z + 256 * y + x <= 16777215
<1>1. a = 65536 * r + (256 * y + x) /\ a = 16777216 * t + (65536 * z + 256 * y + x)
  BY SMT
<1>2. /\ 0 <= 256 * y + x /\ 256 * y + x <= 65535
      /\ 0 <= 65536 * z + 256 * y + x /\ 65536 * z + 256 * y + x <= 16777215
  BY SMT
<1> QED
  BY <1>1, <1>2, SMT

(* The high byte of an address.                                               *)
LEMMA HighPart ==
    ASSUME NEW a \in Int, NEW v \in Int, 0 <= v, v <= 65535, NEW r \in Int,
           a = 65536 * r + v
    PROVE  a \div 65536 = r
  BY SMT

(* Its low 24 bits.                                                           *)
LEMMA LowPart ==
    ASSUME NEW a \in Int, NEW w \in Int, 0 <= w, w <= 16777215, NEW t \in Int,
           a = 16777216 * t + w
    PROVE  a % 16777216 = w
<1> DEFINE g == 16777216
<1>1. g \in Nat \ {0} /\ w < g /\ a = g * t + w
  BY SMT
<1> HIDE DEF g
<1>2. w \in 0 .. g - 1
  BY <1>1, SMT
<1>3. a % g = w
  BY <1>1, <1>2, DivMod, SMT
<1> QED
  BY <1>3, SMT DEF g

(* The three bytes of an address make its low 24 bits again.                  *)
LEMMA ThreeBytes ==
    ASSUME NEW a \in Nat
    PROVE  65536 * ((a \div 65536) % 256) + 256 * ((a \div 256) % 256) + (a % 256)
             = a % 16777216
<1> DEFINE x == a % 256
           q == a \div 256
           y == q % 256
           r == q \div 256
           z == r % 256
           t == r \div 256
<1>1. a = 256 * q + x /\ x \in 0 .. 255 /\ q \in Nat
  BY SMT
<1> HIDE DEF x, q
<1>2. q = 256 * r + y /\ y \in 0 .. 255 /\ r \in Nat
  BY <1>1, SMT
<1> HIDE DEF y, r
<1>3. r = 256 * t + z /\ z \in 0 .. 255 /\ t \in Nat
  BY <1>2, SMT
<1> HIDE DEF z, t
<1>4. /\ a \in Int /\ q \in Int /\ r \in Int /\ t \in Int /\ x \in Int /\ y \in Int
      /\ z \in Int /\ 0 <= x /\ x <= 255 /\ 0 <= y /\ y <= 255 /\ 0 <= z /\ z <= 255
  BY <1>1, <1>2, <1>3, SMT
<1>5. /\ a = 65536 * r + (256 * y + x)
      /\ 0 <= 256 * y + x /\ 256 * y + x <= 65535
      /\ a = 16777216 * t + (65536 * z + 256 * y + x)
      /\ 0 <= 65536 * z + 256 * y + x /\ 65536 * z + 256 * y + x <= 16777215
  BY <1>1, <1>2, <1>3, <1>4, Digits, SMT
<1>6. 256 * y + x \in Int /\ 65536 * z + 256 * y + x \in Int
  BY <1>4, SMT
<1>7. a \div 65536 = r
  BY <1>4, <1>5, <1>6, HighPart, SMT
<1>8. a % 16777216 = 65536 * z + 256 * y + x
  BY <1>4, <1>5, <1>6, LowPart, SMT
<1> QED
  BY <1>7, <1>8, SMT DEF x, q, y, z

(* A remainder of a remainder by a multiple.                                  *)
LEMMA Cut ==
    ASSUME NEW f \in Nat \ {0}, NEW g \in Nat, g > 0, g % f = 0, NEW a \in Nat
    PROVE  (a % g) % f = a % f
<1> DEFINE m == g \div f
           q == a \div g
           r == a % g
           u == r \div f
           v == r % f
<1>1. g = f * m /\ m \in Int
  <2>1. g = f * m + (g % f) /\ m \in Int
    OBVIOUS
  <2> QED
    BY <2>1
<1>2. a = g * q + r /\ q \in Int /\ r \in Nat
  OBVIOUS
<1> HIDE DEF m, q, r
<1>3. r = f * u + v /\ u \in Int /\ v \in 0 .. f - 1
  BY <1>2
<1> HIDE DEF u, v
<1> DEFINE w == m * q + u
<1>4. a = f * w + v /\ w \in Int
  <2>0. w \in Int
    BY <1>1, <1>2, <1>3
  <2>1. g * q = f * (m * q)
    BY <1>1, <1>2
  <2>2. f * w = f * (m * q) + f * u
    BY <1>1, <1>2, <1>3
  <2> QED
    BY <1>2, <1>3, <2>0, <2>1, <2>2
<1> HIDE DEF w
<1>5. a % f = v
  BY <1>3, <1>4, DivMod
<1> QED
  BY <1>5, Zenon DEF v, r

(* The chip's size divides what three bytes can address.                      *)
LEMMA Wraps ==
    ASSUME NEW a \in Nat
    PROVE  (65536 * ((a \div 65536) % 256) + 256 * ((a \div 256) % 256) + (a % 256))
             % FlashSize = a % FlashSize
<1> DEFINE g == 16777216
<1>1. FlashSize \in Nat \ {0} /\ g \in Nat /\ g > 0 /\ g % FlashSize = 0
  BY SpiBusAssumption, SMT
<1>2. 65536 * ((a \div 65536) % 256) + 256 * ((a \div 256) % 256) + (a % 256) = a % g
  BY ThreeBytes, SMT
<1> HIDE DEF g
<1>3. (a % g) % FlashSize = a % FlashSize
  BY <1>1, Cut, Zenon
<1> QED
  BY <1>2, <1>3, SMT

-----------------------------------------------------------------------------
(* What a chip takes out of the bytes it hears.                               *)

(* A chip that hears the bits of a byte has the byte.                         *)
LEMMA ByteAt ==
    ASSUME NEW s \in Seq(Int), NEW j \in 1 .. Len(s), s[j] \in Byte, NEW bits,
           \A i \in 1 .. 8 : bits[8 * j - 8 + i] = AllBits(s)[8 * j - 8 + i]
    PROVE  Value(bits, 8 * j - 7) = s[j]
<1> DEFINE b == s[j]
           p == 8 * j - 7
<1>1. ASSUME NEW i \in 1 .. 8 PROVE bits[p + i - 1] = Bits(b)[i]
  <2>1. p + i - 1 = 8 * j - 8 + i
    OBVIOUS
  <2>2. bits[8 * j - 8 + i] = Bits(s[j])[i]
    BY AllBitsAt
  <2> QED
    BY <2>1, <2>2, Zenon
<1>2. p \in Int
  OBVIOUS
<1>3. b \in Byte
  OBVIOUS
<1> HIDE DEF p, b
<1>4. Value(bits, p) = b
  BY <1>1, <1>2, <1>3, ByteValue, Zenon
<1> QED
  BY <1>4, Zenon DEF p, b

(* The high byte that is sent.                                                *)
High(a) == (a \div 65536) % 256

(* Bytes that begin with an opcode and an address.                            *)
Headed(s, told, a) ==
    /\ s \in Seq(Int) /\ Len(s) >= 4 /\ s[1] = told
    /\ s[2] = High(a) /\ s[3] = (a \div 256) % 256 /\ s[4] = a % 256

(* The head of a read (drvflash.c 52-56).                                     *)
LEMMA Head4 ==
    ASSUME NEW told \in Byte, NEW a \in Nat
    PROVE  LET h == <<told>> \o AddressBytes(a) IN Headed(h, told, a) /\ Len(h) = 4
<1> DEFINE g == <<told>>
           t == AddressBytes(a)
           h == g \o t
<1>1. g \in Seq(Int) /\ Len(g) = 1 /\ g[1] = told
  BY DEF Byte
<1>2. t \in Seq(Int) /\ Len(t) = 3
  BY AddressIs
<1>3. t[1] = High(a) /\ t[2] = (a \div 256) % 256 /\ t[3] = a % 256
  BY SMT DEF AddressBytes, High
<1> HIDE DEF g, t
<1>4. /\ h \in Seq(Int) /\ Len(h) = Len(g) + Len(t)
      /\ \A i \in 1 .. Len(g) + Len(t) : h[i] = IF i <= Len(g) THEN g[i] ELSE t[i - Len(g)]
  BY <1>1, <1>2, ConcatProperties, Zenon
<1> HIDE DEF h
<1>5. Len(h) = 4 /\ h[1] = told /\ h[2] = t[1] /\ h[3] = t[2] /\ h[4] = t[3]
  BY <1>1, <1>2, <1>4
<1>6. Len(h) >= 4
  BY <1>5
<1>7. Headed(h, told, a) /\ Len(h) = 4
  BY <1>3, <1>4, <1>5, <1>6, Zenon DEF Headed
<1> QED
  BY <1>7, Zenon DEF h, g, t

(* The head of a page program, with the data after it (drvflash.c 69-78).     *)
LEMMA HeadAndMore ==
    ASSUME NEW told \in Byte, NEW a \in Nat, NEW more \in Seq(Int)
    PROVE  LET s == <<told>> \o AddressBytes(a) \o more
           IN  /\ Headed(s, told, a) /\ Len(s) = 4 + Len(more)
               /\ \A j \in 1 .. Len(more) : s[4 + j] = more[j]
<1> DEFINE h == <<told>> \o AddressBytes(a)
           s == h \o more
<1>1. Headed(h, told, a) /\ Len(h) = 4
  BY Head4, Zenon
<1> HIDE DEF h
<1>2. h \in Seq(Int) /\ more \in Seq(Int)
  BY <1>1, Zenon DEF Headed
<1>3. /\ s \in Seq(Int) /\ Len(s) = Len(h) + Len(more)
      /\ \A i \in 1 .. Len(h) + Len(more) :
            s[i] = IF i <= Len(h) THEN h[i] ELSE more[i - Len(h)]
  BY <1>2, ConcatProperties, Zenon
<1> HIDE DEF s
<1>4. Len(more) \in Nat
  BY <1>2
<1>5. Len(s) = 4 + Len(more) /\ \A i \in 1 .. 4 : s[i] = h[i]
  BY <1>1, <1>3, <1>4
<1>6. \A j \in 1 .. Len(more) : s[4 + j] = more[j]
  BY <1>1, <1>3, <1>4
<1>7. s[1] = h[1] /\ s[2] = h[2] /\ s[3] = h[3] /\ s[4] = h[4] /\ Len(s) >= 4
  BY <1>4, <1>5
<1>8. Headed(s, told, a)
  BY <1>1, <1>3, <1>7, Zenon DEF Headed
<1> QED
  BY <1>5, <1>6, <1>8, Zenon DEF s, h

(* The bytes of a head are there.                                             *)
LEMMA Places ==
    ASSUME NEW s \in Seq(Int), Len(s) >= 4
    PROVE  2 \in 1 .. Len(s) /\ 3 \in 1 .. Len(s) /\ 4 \in 1 .. Len(s)
<1>1. Len(s) \in Nat
  OBVIOUS
<1> QED
  BY <1>1

(* The chip has heard a head.                                                 *)
Hears(c, s) == \A i \in 1 .. 32 : c.bits[i] = AllBits(s)[i]

(* It then has the address that was sent, cut to its size.                    *)
LEMMA AddressHeard ==
    ASSUME NEW a \in Nat, NEW told, NEW s, Headed(s, told, a), NEW c, Hears(c, s)
    PROVE  ChipAddress(c) = a % FlashSize
<1> DEFINE b == c.bits
<1>0. /\ s \in Seq(Int) /\ 2 \in 1 .. Len(s) /\ 3 \in 1 .. Len(s) /\ 4 \in 1 .. Len(s)
  <2>1. s \in Seq(Int) /\ Len(s) >= 4
    BY Zenon DEF Headed
  <2> QED
    BY <2>1, Places, Zenon
<1>a. High(a) \in Byte /\ (a \div 256) % 256 \in Byte /\ a % 256 \in Byte
  BY SMT DEF High, Byte
<1>b. s[2] = High(a) /\ s[3] = (a \div 256) % 256 /\ s[4] = a % 256
  BY Zenon DEF Headed
<1>1. s[2] \in Byte /\ s[3] \in Byte /\ s[4] \in Byte
  BY <1>a, <1>b, Zenon
<1>2. \A i \in 1 .. 32 : b[i] = AllBits(s)[i]
  BY Zenon DEF Hears
<1> HIDE DEF b
<1>3. Value(b, 8 * 2 - 7) = s[2]
  <2>1. \A i \in 1 .. 8 : 8 * 2 - 8 + i \in 1 .. 32
    OBVIOUS
  <2>2. \A i \in 1 .. 8 : b[8 * 2 - 8 + i] = AllBits(s)[8 * 2 - 8 + i]
    BY <1>2, <2>1, Zenon
  <2> QED
    BY <1>0, <1>1, <2>2, ByteAt, Zenon
<1>4. Value(b, 8 * 3 - 7) = s[3]
  <2>1. \A i \in 1 .. 8 : 8 * 3 - 8 + i \in 1 .. 32
    OBVIOUS
  <2>2. \A i \in 1 .. 8 : b[8 * 3 - 8 + i] = AllBits(s)[8 * 3 - 8 + i]
    BY <1>2, <2>1, Zenon
  <2> QED
    BY <1>0, <1>1, <2>2, ByteAt, Zenon
<1>5. Value(b, 8 * 4 - 7) = s[4]
  <2>1. \A i \in 1 .. 8 : 8 * 4 - 8 + i \in 1 .. 32
    OBVIOUS
  <2>2. \A i \in 1 .. 8 : b[8 * 4 - 8 + i] = AllBits(s)[8 * 4 - 8 + i]
    BY <1>2, <2>1, Zenon
  <2> QED
    BY <1>0, <1>1, <2>2, ByteAt, Zenon
<1>6. 8 * 2 - 7 = 9 /\ 8 * 3 - 7 = 17 /\ 8 * 4 - 7 = 25
  OBVIOUS
<1> DEFINE x == Value(b, 9)
           y == Value(b, 17)
           z == Value(b, 25)
<1>7. x = s[2] /\ y = s[3] /\ z = s[4]
  BY <1>3, <1>4, <1>5, <1>6
<1>8. ChipAddress(c) = (65536 * x + 256 * y + z) % FlashSize
  BY SMT DEF ChipAddress, b
<1> HIDE DEF x, y, z
<1>9. x = (a \div 65536) % 256 /\ y = (a \div 256) % 256 /\ z = a % 256
  BY <1>7, <1>b, SMT DEF High
<1> QED
  BY <1>8, <1>9, Wraps, SMT

-----------------------------------------------------------------------------
(* One page programmed.                                                       *)

(* Within a page a chip does not wrap.                                        *)
Flat(f, p, a, k) == p * ((a % f) \div p) + (((a % f) + k) % p) = (a + k) % f

(* The cells programmed are those at the addresses asked for, as long as they *)
(* are in one page.                                                           *)
LEMMA InOnePage ==
    ASSUME NEW f \in Nat \ {0}, NEW p \in Nat \ {0}, f % p = 0, NEW a \in Nat,
           NEW k \in Nat, (a % p) + k < p
    PROVE  Flat(f, p, a, k)
<1> DEFINE s == a % f
           q == s \div p
           m == f \div p
           r == a % p
           x == s + k
<1>1. f \in Nat /\ f > 0 /\ s % p = r
  <2>1. f \in Nat /\ f > 0
    OBVIOUS
  <2>2. s % p = r
    BY <2>1, Cut, Zenon
  <2> QED
    BY <2>1, <2>2
<1>2. s \in 0 .. f - 1 /\ r \in 0 .. p - 1 /\ (a + k) % f = (s + k) % f
  <2>1. s \in 0 .. f - 1 /\ r \in 0 .. p - 1
    OBVIOUS
  <2> QED
    BY <2>1, Shift, Zenon
<1>3. f = p * m /\ m \in Int
  <2>1. f = p * m + (f % p) /\ m \in Int
    OBVIOUS
  <2> QED
    BY <2>1
<1>a. r + k < p
  OBVIOUS
<1> HIDE DEF s, r, m
<1>4. s = p * q + r /\ q \in Int
  <2>1. s = p * q + (s % p) /\ q \in Int
    BY <1>2
  <2> QED
    BY <1>1, <2>1
<1> HIDE DEF q
<1>5. r + k \in 0 .. p - 1 /\ x \in Int /\ x = p * q + (r + k)
  BY <1>2, <1>4, <1>a
<1>6. q < m
  <2>1. ASSUME q >= m PROVE FALSE
    <3>1. p * q >= p * m
      BY <1>3, <1>4, <2>1
    <3> QED
      BY <1>2, <1>3, <1>4, <3>1
  <2> QED
    BY <1>3, <1>4, <2>1
<1>7. p * q + p <= f
  <2> DEFINE d == m - q - 1
  <2>1. d \in Nat /\ m = q + 1 + d
    BY <1>3, <1>4, <1>6
  <2> HIDE DEF d
  <2>2. p * m = p * q + p + p * d /\ p * d >= 0
    BY <1>4, <2>1
  <2>3. p * q \in Int /\ p * d \in Int
    BY <1>4, <2>1
  <2> QED
    BY <1>3, <2>2, <2>3
<1>b. p * q \in Int
  BY <1>4
<1>8. x < f /\ x \in Nat
  BY <1>2, <1>5, <1>7, <1>b, <1>a DEF x
<1> DEFINE rk == r + k
<1> HIDE DEF x, rk
<1>9. x % p = rk
  <2>1. rk \in 0 .. p - 1 /\ x \in Int /\ x = p * q + rk
    BY <1>5, Zenon DEF rk
  <2> QED
    BY <1>4, <2>1, DivMod, SMT
<1>10. x % f = x
  BY <1>8, Twice
<1>11. p * q + (x % p) = x % f
  BY <1>5, <1>9, <1>10, Zenon DEF rk
<1> QED
  BY <1>2, <1>11, Zenon DEF x, s, q, Flat

(* How far a cell is after an address, and cells with bytes programmed from   *)
(* an address on.                                                             *)
Place(a, i) == (i + FlashSize - (a % FlashSize)) % FlashSize
Cells(cell, a, bytes) ==
    [i \in Address |-> IF Place(a, i) < Len(bytes) THEN And(cell[i], bytes[Place(a, i) + 1])
                       ELSE cell[i]]

(* What is known of the sizes.                                                *)
LEMMA Sizes == /\ FlashSize \in Nat \ {0} /\ Page \in Nat \ {0} /\ FlashSize % Page = 0
  BY SpiBusAssumption, SMT

(* The same of InPage.                                                        *)
LEMMA InPageIs ==
    ASSUME NEW a \in Nat, NEW k \in Nat, (a % Page) + k < Page
    PROVE  InPage(a % FlashSize, k) = (a + k) % FlashSize
<1> DEFINE f == FlashSize
           p == Page
<1>1. f \in Nat \ {0} /\ p \in Nat \ {0} /\ f % p = 0 /\ (a % p) + k < p
  BY Sizes
<1>2. InPage(a % f, k) = p * ((a % f) \div p) + (((a % f) + k) % p)
  BY Zenon DEF InPage
<1> HIDE DEF f, p
<1>3. p * ((a % f) \div p) + (((a % f) + k) % p) = (a + k) % f
  <2>1. Flat(f, p, a, k)
    BY <1>1, InOnePage, Zenon
  <2> QED
    BY <2>1, Zenon DEF Flat
<1> QED
  BY <1>2, <1>3, Zenon DEF f

(* A cell is at an address if and only if the address is that far.            *)
LEMMA PlaceIs ==
    ASSUME NEW a \in Nat, NEW i \in Address, NEW k \in 0 .. FlashSize - 1
    PROVE  (a + k) % FlashSize = i <=> Place(a, i) = k
<1> DEFINE f == FlashSize
<1>1. f \in Nat \ {0} /\ i \in 0 .. f - 1 /\ k \in 0 .. f - 1
  BY Sizes DEF Address
<1>2. Place(a, i) = (i + f - (a % f)) % f
  BY Zenon DEF Place
<1> HIDE DEF f
<1>3. (a + k) % f = i <=> (i + f - (a % f)) % f = k
  <2>1. Meets(f, a, i, k)
    BY <1>1, Where, Zenon
  <2> QED
    BY <2>1, Zenon DEF Meets
<1> QED
  BY <1>2, <1>3, Zenon DEF f

(* A page is no longer than a chip.                                           *)
LEMMA PageFits == Page <= FlashSize
<1> DEFINE m == FlashSize \div Page
<1>1. FlashSize = Page * m /\ m \in Int /\ FlashSize > 0 /\ Page \in Nat /\ Page > 0
  <2>1. FlashSize = Page * m + (FlashSize % Page) /\ m \in Int
    BY Sizes
  <2> QED
    BY <2>1, Sizes
<1> HIDE DEF m
<1>2. m >= 1
  BY <1>1
<1> DEFINE d == m - 1
<1>3. d \in Nat /\ m = d + 1
  BY <1>1, <1>2
<1> HIDE DEF d
<1>4. Page * m = Page * d + Page /\ Page * d >= 0
  BY <1>1, <1>3
<1> QED
  BY <1>1, <1>3, <1>4

(* A page program of bytes that stay in the page changes those cells.         *)
LEMMA PageCells ==
    ASSUME NEW a \in Nat, NEW bytes \in Seq(Byte), (a % Page) + Len(bytes) <= Page,
           NEW d, d.bits = AllBits(<<WRITE_PAGE>> \o AddressBytes(a) \o bytes)
    PROVE  Programmed(d) = Cells(d.cell, a, bytes)
<1> DEFINE s == <<WRITE_PAGE>> \o AddressBytes(a) \o bytes
           l == Len(bytes)
           n == (Len(d.bits) - 32) \div 8
           ca == ChipAddress(d)
           byte(k) == Value(d.bits, 33 + 8 * k)
<1>1. bytes \in Seq(Int) /\ l \in Nat /\ WRITE_PAGE \in Byte
  <2>1. Byte \subseteq Int /\ WRITE_PAGE \in Byte
    BY DEF Byte, WRITE_PAGE
  <2>2. bytes \in Seq(Byte) /\ l \in Nat
    OBVIOUS
  <2> QED
    BY <2>1, <2>2, SeqMonotonic, Zenon
<1>2. /\ Headed(s, WRITE_PAGE, a) /\ Len(s) = 4 + l
      /\ \A j \in 1 .. l : s[4 + j] = bytes[j]
  BY <1>1, HeadAndMore, Zenon
<1>3. s \in Seq(Int)
  BY <1>2, Zenon DEF Headed
<1>b. d.bits = AllBits(s)
  OBVIOUS
<1> HIDE DEF s
<1>4. ca = a % FlashSize
  <2>1. Hears(d, s)
    BY <1>b, Zenon DEF Hears
  <2> QED
    BY <1>2, <2>1, AddressHeard, Zenon
<1>5. n = l
  <2>1. Len(AllBits(s)) = 8 * Len(s)
    BY <1>3, AllBitsIn, Zenon
  <2>2. Len(d.bits) = 8 * (4 + l)
    BY <1>2, <1>b, <2>1, Zenon
  <2> HIDE DEF l
  <2>3. (8 * (4 + l) - 32) \div 8 = l
    BY <1>1
  <2> QED
    BY <2>2, <2>3, Zenon
<1>6. ASSUME NEW k \in 0 .. l - 1 PROVE byte(k) = bytes[k + 1]
  <2> DEFINE j == 5 + k
  <2>1. /\ j \in 1 .. Len(s) /\ 8 * j - 7 = 33 + 8 * k /\ j = 4 + (k + 1)
        /\ k + 1 \in 1 .. l
    <3> HIDE DEF l
    <3> QED
      BY <1>1, <1>2
  <2>2. s[j] = bytes[k + 1]
    BY <1>2, <2>1, Zenon
  <2>3. bytes[k + 1] \in Byte
    BY <2>1
  <2> HIDE DEF j
  <2>4. \A i \in 1 .. 8 : d.bits[8 * j - 8 + i] = AllBits(s)[8 * j - 8 + i]
    BY <1>b, Zenon
  <2>5. Value(d.bits, 8 * j - 7) = s[j]
    BY <1>3, <2>1, <2>2, <2>3, <2>4, ByteAt, Zenon
  <2> QED
    BY <2>1, <2>2, <2>5, Zenon
<1>7. ASSUME NEW k \in 0 .. l - 1 PROVE InPage(ca, k) = (a + k) % FlashSize
  <2>1. k \in Nat /\ (a % Page) + k < Page
    <3> DEFINE r == a % Page
    <3>1. r \in Nat /\ r + l <= Page /\ Page \in Nat
      BY Sizes
    <3> HIDE DEF r, l
    <3>2. k \in Nat /\ r + k < Page
      BY <1>1, <3>1
    <3> QED
      BY <3>2, Zenon DEF r
  <2> HIDE DEF ca
  <2> QED
    BY <1>4, <2>1, InPageIs, Zenon
<1>8. l <= FlashSize
  <2> DEFINE r == a % Page
  <2>1. r \in Nat /\ r + l <= Page /\ Page \in Nat
    BY Sizes
  <2> HIDE DEF r, l
  <2> QED
    BY <1>1, <2>1, PageFits, Sizes
<1> HIDE DEF ca, byte
<1>9. ASSUME NEW i \in Address
      PROVE  (IF \E k \in 0 .. n - 1 : InPage(ca, k) = i
              THEN And(d.cell[i], byte(CHOOSE k \in 0 .. n - 1 : InPage(ca, k) = i))
              ELSE d.cell[i])
             = IF Place(a, i) < l THEN And(d.cell[i], bytes[Place(a, i) + 1]) ELSE d.cell[i]
  <2> HIDE DEF l, n
  <2> DEFINE j == Place(a, i)
  <2>1. i \in 0 .. FlashSize - 1
    BY DEF Address
  <2>2. j \in 0 .. FlashSize - 1
    <3> DEFINE x == i + FlashSize - (a % FlashSize)
    <3>1. x \in Int /\ FlashSize \in Nat \ {0}
      BY <2>1, Sizes
    <3> HIDE DEF x
    <3>2. x % FlashSize \in 0 .. FlashSize - 1
      BY <3>1
    <3> QED
      BY <3>2, Zenon DEF Place, x
  <2> HIDE DEF j
  <2>3. ASSUME NEW k \in 0 .. l - 1 PROVE InPage(ca, k) = i <=> j = k
    <3>1. k \in 0 .. FlashSize - 1
      BY <1>1, <1>8, Sizes
    <3>2. (a + k) % FlashSize = i <=> Place(a, i) = k
      BY <3>1, PlaceIs, Zenon
    <3> QED
      BY <1>7, <3>2, Zenon DEF j
  <2>4. CASE j < l
    <3>1. j \in 0 .. l - 1
      BY <1>1, <2>2, <2>4
    <3>2. \E k \in 0 .. n - 1 : InPage(ca, k) = i
      BY <1>5, <2>3, <3>1, Zenon
    <3> DEFINE x == CHOOSE k \in 0 .. n - 1 : InPage(ca, k) = i
    <3>3. x \in 0 .. n - 1 /\ InPage(ca, x) = i
      BY <3>2, Zenon
    <3> HIDE DEF x
    <3>4. x = j
      BY <1>5, <2>3, <3>3, Zenon
    <3>5. byte(x) = bytes[j + 1]
      BY <1>6, <3>1, <3>4, Zenon
    <3> QED
      BY <2>4, <3>2, <3>5, Zenon DEF x, j
  <2>5. CASE ~(j < l)
    <3>1. ~ \E k \in 0 .. n - 1 : InPage(ca, k) = i
      <4>1. j \notin 0 .. l - 1
        BY <1>1, <2>2, <2>5
      <4> QED
        BY <1>5, <2>3, <4>1, Zenon
    <3> QED
      BY <2>5, <3>1, Zenon DEF j
  <2> QED
    BY <2>4, <2>5
<1> HIDE DEF n, l
<1>10. Programmed(d) = [i \in Address |->
             IF \E k \in 0 .. n - 1 : InPage(ca, k) = i
             THEN And(d.cell[i], byte(CHOOSE k \in 0 .. n - 1 : InPage(ca, k) = i))
             ELSE d.cell[i]]
  BY Zenon DEF Programmed, n, ca, byte
<1>11. Cells(d.cell, a, bytes) = [i \in Address |->
             IF Place(a, i) < l THEN And(d.cell[i], bytes[Place(a, i) + 1]) ELSE d.cell[i]]
  BY Zenon DEF Cells, l
<1> QED
  BY <1>9, <1>10, <1>11, Zenon

(* What a page program does to the cells, as SpiFlash sees it.                *)
Burnt(cell, a, bytes) ==
    [i \in Address |-> IF Place(a, i) < Len(bytes)
                       THEN Access!Burn(cell[i], bytes[Place(a, i) + 1]) ELSE cell[i]]

(* Distances are less than the chip's size.                                   *)
LEMMA PlaceIn ==
    ASSUME NEW a \in Nat, NEW i \in Address PROVE Place(a, i) \in 0 .. FlashSize - 1
<1> DEFINE x == i + FlashSize - (a % FlashSize)
<1>1. x \in Int /\ FlashSize \in Nat \ {0}
  BY Sizes DEF Address
<1> HIDE DEF x
<1>2. x % FlashSize \in 0 .. FlashSize - 1
  BY <1>1
<1> QED
  BY <1>2, Zenon DEF Place, x

(* The cells programmed, with mixed bytes as junk, are what SpiFlash burns.   *)
LEMMA CellsSeen ==
    ASSUME NEW cell \in [Address -> Held], NEW a \in Nat,
           NEW bytes \in Seq(Data \cup {Blank})
    PROVE  /\ Cells(cell, a, bytes) \in [Address -> Held]
           /\ [i \in Address |-> Known(Cells(cell, a, bytes)[i])]
                = Burnt([i \in Address |-> Known(cell[i])], a, bytes)
<1> DEFINE w == Cells(cell, a, bytes)
           v == [i \in Address |-> Known(cell[i])]
           D == Data \cup {Blank}
<1>1. ASSUME NEW i \in Address
      PROVE  /\ w[i] \in Held
             /\ Known(w[i]) = IF Place(a, i) < Len(bytes)
                              THEN Access!Burn(v[i], bytes[Place(a, i) + 1]) ELSE v[i]
  <2> DEFINE j == Place(a, i)
             x == cell[i]
  <2>1. j \in Nat
    <3>1. Place(a, i) \in 0 .. FlashSize - 1
      BY PlaceIn
    <3> QED
      BY <3>1, Sizes
  <2>2. x \in Held /\ v[i] = Known(x)
    OBVIOUS
  <2>3. w[i] = IF j < Len(bytes) THEN And(x, bytes[j + 1]) ELSE x
    BY Zenon DEF Cells
  <2> HIDE DEF j, x, w, v
  <2>4. CASE j < Len(bytes)
    <3> DEFINE y == bytes[j + 1]
    <3>1. y \in D
      <4>1. bytes \in Seq(D)
        OBVIOUS
      <4> HIDE DEF D
      <4> QED
        BY <2>1, <2>4, <4>1
    <3> HIDE DEF y
    <3>2. And(x, y) \in Held /\ Known(And(x, y)) = Access!Burn(Known(x), y)
      BY <2>2, <3>1, BurnIs, Zenon
    <3> QED
      BY <2>2, <2>3, <2>4, <3>2, Zenon DEF y, j
  <2>5. CASE ~(j < Len(bytes))
    BY <2>2, <2>3, <2>5, Zenon DEF j
  <2> QED
    BY <2>4, <2>5
<1>2. w = [i \in Address |-> w[i]]
  BY Zenon DEF Cells
<1> HIDE DEF w, v, D
<1>3. w \in [Address -> Held]
  BY <1>1, <1>2, Zenon
<1>4. [i \in Address |-> Known(w[i])] = Burnt(v, a, bytes)
  BY <1>1, Zenon DEF Burnt
<1> QED
  BY <1>3, <1>4, Zenon DEF w, v

(* The cells after a page program.                                            *)
ByProgram(e, s, f) ==
    \E d \in ChipType : d.bits = AllBits(s) /\ d.cell = e.cell /\ f.cell = Programmed(d)

(* A chip after Flash_WritePage: nothing but idle if it was busy or heard     *)
(* other bits first, else programmed.                                         *)
PageDone(c, a, bytes, f) ==
    /\ Quiet(f) /\ ~f.wip /\ Keeps(f)
    /\ c.wip \/ c.bits # <<>> => View(f) = Access!Idle(View(c))
    /\ ~(c.wip \/ c.bits # <<>>) => View(f).cell = Burnt(View(c).cell, a, bytes)

(* Flash_WritePage does that to a piece that stays in its page (drvflash.c    *)
(* 65-80).                                                                    *)
LEMMA PageSeen ==
    ASSUME NEW c, Plain(c), Keeps(c), NEW a \in Nat, NEW bytes \in Seq(Data \cup {Blank}),
           Len(bytes) >= 1, (a % Page) + Len(bytes) <= Page
    PROVE  PageDone(c, a, bytes, Flash_WritePage(c, a, bytes))
<1> DEFINE e == Flash_WriteEnable(c)
           s == <<WRITE_PAGE>> \o AddressBytes(a) \o bytes
           t == Transaction(e, s)
           f == Flash_WritePage(c, a, bytes)
<1>1. /\ Armed(e) /\ e.wip = c.wip /\ e.cell = c.cell
      /\ e.wel <=> ~c.wip /\ c.bits = <<>>
  BY EnableGives, Zenon
<1>2. f = Idle(t)
  BY Zenon DEF Flash_WritePage, Flash_WaitBusy
<1>3. bytes \in Seq(Byte) /\ bytes \in Seq(Int)
  <2> DEFINE D == Data \cup {Blank}
  <2>1. D \subseteq Byte
    BY DataIn, Zenon
  <2>2. Byte \subseteq Int
    BY DEF Byte
  <2>3. bytes \in Seq(D)
    BY Zenon
  <2> HIDE DEF D
  <2> QED
    BY <2>1, <2>2, <2>3, SeqMonotonic, Zenon
<1>4. Uses(s) /\ s[1] = WRITE_PAGE
  <2>1. WRITE_PAGE \in Byte
    BY DEF WRITE_PAGE, Byte
  <2>2. Headed(s, WRITE_PAGE, a) /\ Len(s) = 4 + Len(bytes)
    BY <1>3, <2>1, HeadAndMore, Zenon
  <2> DEFINE l == Len(bytes)
  <2>3. l >= 1 /\ l \in Nat
    BY <1>3
  <2> HIDE DEF l, s
  <2>4. 4 + l >= 5
    BY <2>3
  <2>5. s \in Seq(Int) /\ s[1] = WRITE_PAGE
    BY <2>2, Zenon DEF Headed
  <2> QED
    BY <2>2, <2>4, <2>5, Zenon DEF Uses, l
<1> HIDE DEF e, f
<1>5. Took(e, s, t) /\ Quiet(t)
  <2> HIDE DEF s
  <2> QED
    BY <1>1, <1>4, TransactionTakes, UsedUp, Zenon
<1>6. c \in ChipType /\ t \in ChipType
  BY <1>5, Zenon DEF Plain, Quiet
<1> HIDE DEF t
<1>7. Quiet(f) /\ ~f.wip
  BY <1>2, <1>5, <1>6, IdleIs, Zenon DEF Quiet
<1>8. CASE e.wel
  <2>1. t.wip = e.wip /\ ByProgram(e, s, t)
    BY <1>4, <1>5, <1>8, Zenon DEF Took, ByProgram
  <2>2. PICK d \in ChipType : d.bits = AllBits(s) /\ d.cell = e.cell /\ t.cell = Programmed(d)
    BY <2>1, Zenon DEF ByProgram
  <2>3. Programmed(d) = Cells(d.cell, a, bytes)
    BY <1>3, <2>2, PageCells, Zenon
  <2>4. t.cell = Cells(c.cell, a, bytes)
    BY <1>1, <2>2, <2>3, Zenon
  <2>5. ~t.wip /\ ~(c.wip \/ c.bits # <<>>)
    BY <1>1, <1>8, <2>1, Zenon
  <2>6. f = t
    BY <1>2, <1>6, <2>5, IdleCells, Zenon
  <2>7. /\ Cells(c.cell, a, bytes) \in [Address -> Held]
        /\ [i \in Address |-> Known(Cells(c.cell, a, bytes)[i])]
             = Burnt([i \in Address |-> Known(c.cell[i])], a, bytes)
    <3>1. c.cell \in [Address -> Held]
      BY Zenon DEF Keeps
    <3> QED
      BY <3>1, CellsSeen, Zenon
  <2>8. Keeps(f)
    BY <2>4, <2>6, <2>7, Zenon DEF Keeps
  <2>9. View(f).cell = [i \in Address |-> Known(f.cell[i])]
        /\ View(c).cell = [i \in Address |-> Known(c.cell[i])]
    BY DEF View
  <2>10. View(f).cell = Burnt(View(c).cell, a, bytes)
    BY <2>4, <2>6, <2>7, <2>9, Zenon
  <2> QED
    BY <1>7, <2>5, <2>8, <2>10, Zenon DEF PageDone, f
<1>9. CASE ~e.wel
  <2>1. t.cell = c.cell /\ t.wip = c.wip
    BY <1>1, <1>5, <1>9, Zenon DEF Took
  <2>2. View(t) = View(c) /\ Keeps(t)
    BY <2>1, SameView, Zenon
  <2>3. View(f) = Access!Idle(View(c)) /\ Keeps(f)
    BY <1>2, <1>6, <2>2, IdleSeen, Zenon
  <2>4. c.wip \/ c.bits # <<>>
    BY <1>1, <1>9, Zenon
  <2> QED
    BY <1>7, <2>3, <2>4, Zenon DEF PageDone, f
<1> QED
  BY <1>8, <1>9

-----------------------------------------------------------------------------
(* The pieces of a write, and the loop over them.                             *)

(* The pieces of a write: where the turn k of the loop starts and ends.       *)
From(off, k) == IF k = 1 THEN 1 ELSE (k - 1) * Page - off + 1
To(off, l, k) == IF k = (off + l - 1) \div Page + 1 THEN l ELSE k * Page - off

(* The piece is in the data, and in one page.                                 *)
Fits(a, off, l, k) ==
    /\ From(off, k) \in 1 .. l /\ To(off, l, k) \in From(off, k) .. l
    /\ ((a + From(off, k) - 1) % Page) + (To(off, l, k) - From(off, k) + 1) <= Page

(* Every piece is in the data.                                                *)
LEMMA PieceIn ==
    ASSUME NEW off \in Nat, NEW l \in Nat, l >= 1, Page \in Nat, off < Page,
           NEW k \in 1 .. (off + l - 1) \div Page + 1
    PROVE  From(off, k) \in 1 .. l /\ To(off, l, k) \in From(off, k) .. l
<1> DEFINE n == (off + l - 1) \div Page + 1
           g == IF k = 1 THEN 1 ELSE (k - 1) * Page - off + 1
           h == IF k = n THEN l ELSE k * Page - off
<1>1. n = (off + l - 1) \div Page + 1 /\ k \in 1 .. n
  OBVIOUS
<1>2. From(off, k) = g /\ To(off, l, k) = h
  BY Zenon DEF From, To
<1> HIDE DEF n
<1>3. g \in 1 .. l /\ h \in g .. l
  BY <1>1, PieceIs, Zenon
<1> HIDE DEF g, h
<1> QED
  BY <1>2, <1>3, Zenon

(* Every piece is in one page (drvflash.c 90-113).                            *)
LEMMA PieceFits ==
    ASSUME NEW a \in Nat, NEW off, off = a % Page, NEW l \in Nat, l >= 1,
           NEW k \in 1 .. (off + l - 1) \div Page + 1
    PROVE  Fits(a, off, l, k)
<1> DEFINE p == Page
           x == off + l - 1
           q == x \div p
           n == q + 1
           u == (k - 1) * p
           v == k * p
           from == From(off, k)
           to == To(off, l, k)
<1>1. p \in Nat /\ p >= 1 /\ off \in Nat /\ off < p
  BY Sizes
<1>2. from \in 1 .. l /\ to \in from .. l
  <2>1. Page \in Nat /\ off \in Nat /\ off < Page
    BY <1>1
  <2> QED
    BY <2>1, PieceIn, Zenon
<1>3. x \in Nat /\ q \in Nat /\ k \in Nat /\ k >= 1 /\ k <= n
  BY <1>1
<1>4. x = p * q + (x % p) /\ x % p \in 0 .. p - 1
  BY <1>1, <1>3
<1>5. from = (IF k = 1 THEN 1 ELSE u - off + 1) /\ to = (IF k = n THEN l ELSE v - off)
  BY Zenon DEF From, To
<1>6. v = u + p /\ u \in Int /\ v \in Int
  <2> HIDE DEF q, x
  <2> QED
    BY <1>1, <1>3
<1>7. k = n => u = p * q
  <2> HIDE DEF q, x
  <2> QED
    BY <1>1, <1>3
<1>8. ((a + from - 1) % p) + (to - from + 1) <= p
  <2>1. CASE k = 1
    <3>1. from = 1 /\ u = 0 /\ v = p
      BY <1>1, <1>5, <1>6, <2>1
    <3>2. a + from - 1 = a /\ a % p = off
      BY <3>1
    <3>3. to - from + 1 = to /\ off + to <= p
      <4>1. CASE k = n
        <5>1. to = l /\ p * q = 0
          BY <1>5, <1>7, <3>1, <4>1
        <5>2. x < p
          <6> HIDE DEF q, x
          <6> QED
            BY <1>1, <1>3, <1>4, <5>1
        <5> HIDE DEF p
        <5> QED
          BY <1>1, <3>1, <5>1, <5>2
      <4>2. CASE k # n
        <5>1. to = p - off
          BY <1>5, <3>1, <4>2
        <5> HIDE DEF to, from
        <5> QED
          BY <1>1, <3>1, <5>1
      <4> QED
        BY <4>1, <4>2
    <3> HIDE DEF from, to, p
    <3> QED
      BY <3>2, <3>3, Zenon
  <2>2. CASE k # 1
    <3> DEFINE m == a \div p
               w == m + (k - 1)
               y == a + from - 1
    <3>1. a = p * m + off /\ m \in Int
      <4>1. a = p * m + (a % p) /\ m \in Int
        BY <1>1
      <4> QED
        BY <4>1
    <3>2. y = a - off + u /\ y \in Int
      <4> HIDE DEF u, v, p, from, to, n
      <4> QED
        BY <1>1, <1>5, <1>6, <2>2
    <3> HIDE DEF m
    <3>3. p * w = p * m + u /\ w \in Int
      <4>1. p \in Int /\ m \in Int /\ k \in Int
        BY <1>1, <1>3, <3>1
      <4> HIDE DEF p
      <4> QED
        BY <4>1
    <3> HIDE DEF y, w, u, v, p, from, to, q, n
    <3>4. y = p * w + 0 /\ 0 \in 0 .. p - 1 /\ p \in Nat \ {0}
      <4> DEFINE e == p * m
                 d == p * w
      <4>1. e \in Int /\ d \in Int
        BY <1>1, <3>1, <3>3
      <4>2. a = e + off /\ d = e + u /\ y = a - off + u /\ off \in Nat /\ u \in Int
        BY <1>1, <1>6, <3>1, <3>2, <3>3, Zenon
      <4> HIDE DEF d, e
      <4>3. y = d
        <5>1. a \in Int /\ off \in Int
          BY <1>1
        <5>2. a = e + off
          BY <4>2, Zenon
        <5>3. a - off = e
          BY <4>1, <5>1, <5>2
        <5>4. y = e + u
          BY <4>2, <5>3, Zenon
        <5> QED
          BY <4>2, <5>4, Zenon
      <4>5. d = d + 0
        BY <4>1
      <4>4. 0 \in 0 .. p - 1 /\ p \in Nat \ {0}
        BY <1>1
      <4> QED
        BY <4>3, <4>4, <4>5, Zenon DEF d
    <3>5. y % p = 0
      <4>1. y \in Int /\ w \in Int
        BY <3>2, <3>3, Zenon
      <4> QED
        BY <3>4, <4>1, DivMod, Zenon
    <3>6. to - from + 1 <= p
      <4>1. CASE k = n
        <5>1. u = p * q /\ p * q \in Int /\ x <= p * q + p - 1
          BY <1>1, <1>3, <1>4, <1>7, <4>1
        <5>2. to = l /\ from = u - off + 1
          BY <1>5, <2>2, <4>1
        <5> QED
          BY <1>1, <5>1, <5>2 DEF x
      <4>2. CASE k # n
        <5>1. to = v - off /\ from = u - off + 1
          BY <1>5, <2>2, <4>2
        <5> QED
          BY <1>1, <1>6, <5>1
      <4> QED
        BY <4>1, <4>2
    <3>7. (y % p) + (to - from + 1) <= p
      <4>1. to - from + 1 \in Int
        BY <1>2
      <4> QED
        BY <3>5, <3>6, <4>1
    <3> QED
      BY <3>7, Zenon DEF y
  <2> QED
    BY <2>1, <2>2
<1> HIDE DEF from, to
<1> QED
  BY <1>2, <1>8, Zenon DEF Fits, from, to

(* The cells after the data up to the number t, less the first ones.          *)
Upto(cell, a, data, skip, t) ==
    [i \in Address |-> IF skip <= Place(a, i) /\ Place(a, i) < t
                       THEN Access!Burn(cell[i], data[Place(a, i) + 1]) ELSE cell[i]]

(* A cell is as far from a later address as it was from the first, less the   *)
(* way between.                                                               *)
Shifts(a, d, i, j) == Place(a + d, i) = j <=> Place(a, i) = d + j

(* That is so within a chip's length.                                         *)
LEMMA PlaceShifts ==
    ASSUME NEW a \in Nat, NEW d \in Nat, NEW i \in Address, NEW j \in Nat, d + j < FlashSize
    PROVE  Shifts(a, d, i, j)
<1>1. a + d \in Nat /\ j \in 0 .. FlashSize - 1 /\ d + j \in 0 .. FlashSize - 1
      /\ (a + d) + j = a + (d + j)
  BY Sizes
<1> DEFINE b == a + d
           k == d + j
<1> HIDE DEF b, k
<1>2. (b + j) % FlashSize = i <=> Place(b, i) = j
  BY <1>1, PlaceIs, Zenon DEF b
<1>3. (a + k) % FlashSize = i <=> Place(a, i) = k
  BY <1>1, PlaceIs, Zenon DEF k
<1>4. b + j = a + k
  BY <1>1 DEF b, k
<1> QED
  BY <1>2, <1>3, <1>4, Zenon DEF b, k, Shifts

(* The next piece programs the cells after those done.                        *)
Continues(z, a, data, skip, d, t) ==
    Burnt(Upto(z, a, data, skip, d), a + d, SubSeq(data, d + 1, t))
      = Upto(z, a, data, skip, t)

(* It does.                                                                   *)
LEMMA NextPiece ==
    ASSUME NEW a \in Nat, NEW D, NEW data \in Seq(D), Len(data) <= FlashSize,
           NEW d \in Nat, NEW t \in Nat, d < t, t <= Len(data), NEW skip \in Nat, skip <= d,
           NEW z
    PROVE  Continues(z, a, data, skip, d, t)
<1> DEFINE v == Upto(z, a, data, skip, d)
           s == SubSeq(data, d + 1, t)
           b == a + d
<1>1. ASSUME NEW i \in Address
      PROVE  (IF Place(b, i) < Len(s) THEN Access!Burn(v[i], s[Place(b, i) + 1]) ELSE v[i])
               = IF skip <= Place(a, i) /\ Place(a, i) < t
                 THEN Access!Burn(z[i], data[Place(a, i) + 1]) ELSE z[i]
  <2> DEFINE k == Place(a, i)
             j == Place(b, i)
             x == Access!Burn(z[i], data[k + 1])
  <2>1. k \in Nat /\ j \in Nat
    <3>1. b \in Nat
      OBVIOUS
    <3> HIDE DEF b
    <3>2. k \in 0 .. FlashSize - 1 /\ j \in 0 .. FlashSize - 1
      BY <3>1, PlaceIn
    <3> QED
      BY <3>2, Sizes
  <2>2. v[i] = IF skip <= k /\ k < d THEN x ELSE z[i]
    BY DEF Upto
  <2>3. Len(s) = t - d /\ \A n \in 1 .. t - d : s[n] = data[d + n]
    OBVIOUS
  <2>4. ASSUME NEW n \in Nat, d + n < t PROVE j = n <=> k = d + n
    <3>1. d + n < FlashSize
      BY <2>4, Sizes
    <3>2. Shifts(a, d, i, n)
      BY <2>4, <3>1, PlaceShifts, Zenon
    <3> QED
      BY <3>2, Zenon DEF Shifts
  <2> HIDE DEF k, j, x, v, s, b
  <2>5. CASE d <= k /\ k < t
    <3> DEFINE n == k - d
    <3>1. n \in Nat /\ d + n < t /\ k = d + n /\ n + 1 \in 1 .. t - d /\ d + (n + 1) = k + 1
      BY <2>1, <2>5
    <3> HIDE DEF n
    <3>2. j = n
      BY <2>4, <3>1, Zenon
    <3>3. s[j + 1] = data[k + 1]
      BY <2>3, <3>1, <3>2, Zenon
    <3>4. j < Len(s)
      BY <2>3, <3>1, <3>2
    <3>5. ~(k < d) /\ skip <= k
      BY <2>1, <2>5
    <3>6. v[i] = z[i]
      BY <2>2, <3>5, Zenon
    <3> QED
      BY <2>5, <3>3, <3>4, <3>5, <3>6, Zenon DEF k, j
  <2>6. CASE ~(d <= k /\ k < t)
    <3>1. ~(j < Len(s))
      <4>1. ASSUME j < Len(s) PROVE FALSE
        <5>1. d + j < t
          BY <2>1, <2>3, <4>1
        <5>2. k = d + j
          BY <2>1, <2>4, <5>1, Zenon
        <5> QED
          BY <2>1, <2>6, <5>1, <5>2
      <4> QED
        BY <4>1
    <3>2. k < t <=> k < d
      BY <2>1, <2>6
    <3> QED
      BY <2>2, <3>1, <3>2, Zenon DEF k, j, x
  <2> QED
    BY <2>5, <2>6
<1> HIDE DEF v, s, b
<1>2. Burnt(v, b, s) = Upto(z, a, data, skip, t)
  BY <1>1, Zenon DEF Burnt, Upto
<1> QED
  BY <1>2, Zenon DEF v, s, b, Continues

(* A function on the cells.                                                   *)
AllCells(z) == z = [i \in Address |-> z[i]]

(* Nothing is done while the pieces are lost.                                 *)
LEMMA FirstPiece ==
    ASSUME NEW a \in Nat, NEW data, NEW z, NEW skip \in Nat, NEW t \in Nat, t <= skip,
           AllCells(z)
    PROVE  Upto(z, a, data, skip, t) = z
<1>1. ASSUME NEW i \in Address PROVE ~(skip <= Place(a, i) /\ Place(a, i) < t)
  BY PlaceIn
<1>2. Upto(z, a, data, skip, t) = [i \in Address |-> z[i]]
  BY <1>1, Zenon DEF Upto
<1> QED
  BY <1>2, Zenon DEF AllCells

(* How often the loop turns.                                                  *)
Turns(off, l) == (off + l - 1) \div Page + 1

(* The first piece starts with the data, each piece after the one before, the *)
(* last one ends the data.                                                    *)
LEMMA PieceFollows ==
    ASSUME NEW off \in Nat, off < Page, NEW l \in Nat, l >= 1
    PROVE  /\ Turns(off, l) \in Nat /\ Turns(off, l) >= 1
           /\ To(off, l, Turns(off, l)) = l
           /\ From(off, 1) = 1
           /\ To(off, l, 1) = IF l <= Page - off THEN l ELSE Page - off
           /\ \A k \in 1 .. Turns(off, l) - 1 : From(off, k + 1) = To(off, l, k) + 1
<1> DEFINE p == Page
           x == off + l - 1
           q == x \div p
           n == Turns(off, l)
<1>1. p \in Nat /\ p >= 1 /\ x \in Nat /\ n = q + 1
  BY Sizes DEF Turns
<1>2. q \in Nat /\ x = p * q + (x % p) /\ x % p \in 0 .. p - 1
  BY <1>1
<1>3. n = (off + l - 1) \div Page + 1
  BY Zenon DEF Turns
<1> HIDE DEF n
<1>4. n \in Nat /\ n >= 1
  BY <1>1, <1>2
<1>5. To(off, l, n) = l /\ From(off, 1) = 1
  BY <1>3, Zenon DEF To, From
<1>6. To(off, l, 1) = IF l <= p - off THEN l ELSE p - off
  <2>1. To(off, l, 1) = IF 1 = n THEN l ELSE 1 * p - off
    BY <1>3, Zenon DEF To
  <2>2. 1 * p - off = p - off
    BY <1>1
  <2>3. 1 = n <=> l <= p - off
    <3>1. 1 = n <=> q = 0
      BY <1>1, <1>2
    <3>2. q = 0 <=> x < p
      <4> HIDE DEF x, q, p
      <4>1. q = 0 => p * q = 0
        BY <1>1
      <4>2. q # 0 => p * q >= p
        BY <1>1, <1>2
      <4>3. p * q \in Int
        BY <1>1, <1>2
      <4> QED
        BY <1>1, <1>2, <4>1, <4>2, <4>3
    <3>3. x < p <=> l <= p - off
      BY <1>1
    <3> QED
      BY <3>1, <3>2, <3>3, Zenon
  <2> HIDE DEF p
  <2> QED
    BY <2>1, <2>2, <2>3, Zenon
<1>7. ASSUME NEW k \in 1 .. n - 1 PROVE From(off, k + 1) = To(off, l, k) + 1
  <2>1. k \in Nat /\ k + 1 # 1 /\ (k + 1) - 1 = k /\ k # n
    BY <1>4
  <2>2. From(off, k + 1) = k * p - off + 1
    BY <2>1, Zenon DEF From
  <2>3. To(off, l, k) = k * p - off
    BY <1>3, <2>1, Zenon DEF To
  <2> QED
    BY <2>2, <2>3, Zenon
<1> QED
  BY <1>4, <1>5, <1>6, <1>7, Zenon DEF n

(* The chip when the data up to the number t are in its cells.                *)
Reached(f, z, a, data, skip, t) ==
    /\ Quiet(f) /\ ~f.wip /\ Keeps(f)
    /\ View(f).cell = Upto(z, a, data, skip, t)

(* A page of the data, from one number to another.                            *)
Piece(d, a, data, from, to) == Flash_WritePage(d, a + from - 1, SubSeq(data, from, to))

(* What can be written.                                                       *)
Bytes == Data \cup {Blank}

(* A chip between two commands has heard nothing.                             *)
LEMMA QuietIsPlain ==
    ASSUME NEW c, Quiet(c) PROVE Plain(c) /\ c.bits = <<>>
  BY Zenon DEF Quiet, Plain

(* A piece takes the chip from the data up to its start to the data up to its *)
(* end.                                                                       *)
LEMMA PieceReached ==
    ASSUME NEW c, NEW z, NEW a \in Nat, NEW data \in Seq(Bytes), Len(data) <= FlashSize,
           NEW skip \in Nat, NEW d \in Nat, skip <= d, Plain(c), ~c.wip, c.bits = <<>>, Keeps(c),
           View(c).cell = Upto(z, a, data, skip, d),
           NEW t \in Nat, d < t, t <= Len(data), ((a + (d + 1) - 1) % Page) + (t - (d + 1) + 1) <= Page
    PROVE  Reached(Piece(c, a, data, d + 1, t), z, a, data, skip, t)
<1> DEFINE s == SubSeq(data, d + 1, t)
           b == a + d
           f == Flash_WritePage(c, b, s)
<1>1. s \in Seq(Bytes) /\ Len(s) = t - d
  OBVIOUS
<1>2. a + (d + 1) - 1 = b /\ b \in Nat /\ t - (d + 1) + 1 = t - d
  OBVIOUS
<1>3. (b % Page) + (t - d) <= Page
  BY <1>2
<1>4. Len(s) >= 1 /\ (b % Page) + Len(s) <= Page
  BY <1>1, <1>3
<1>5. Burnt(Upto(z, a, data, skip, d), b, s) = Upto(z, a, data, skip, t)
  <2>1. Continues(z, a, data, skip, d, t)
    BY NextPiece, Zenon
  <2> QED
    BY <2>1, Zenon DEF Continues, s, b
<1> HIDE DEF s, b
<1>6. PageDone(c, b, s, f)
  BY <1>1, <1>2, <1>4, PageSeen, Zenon DEF Bytes
<1> HIDE DEF f
<1>7. View(f).cell = Burnt(View(c).cell, b, s) /\ Quiet(f) /\ ~f.wip /\ Keeps(f)
  BY <1>6, Zenon DEF PageDone
<1>8. Reached(f, z, a, data, skip, t)
  BY <1>5, <1>7, Zenon DEF Reached
<1>9. Piece(c, a, data, d + 1, t) = f
  BY <1>2, Zenon DEF Piece, f, s
<1> QED
  BY <1>8, <1>9, Zenon

(* So does a turn of the loop.                                                *)
LEMMA TurnReached ==
    ASSUME NEW x, NEW z, NEW a \in Nat, NEW data \in Seq(Bytes), Len(data) <= FlashSize,
           NEW skip \in Nat, NEW d \in Nat, skip <= d, Plain(x), ~x.wip, x.bits = <<>>, Keeps(x),
           View(x).cell = Upto(z, a, data, skip, d), Len(data) >= 1,
           NEW k \in 1 .. Turns(a % Page, Len(data)), From(a % Page, k) = d + 1
    PROVE  LET t == To(a % Page, Len(data), k)
           IN  Reached(PageOf(a, data, x, k), z, a, data, skip, t) /\ t \in Nat /\ skip <= t
<1> DEFINE off == a % Page
           l == Len(data)
           t == To(off, l, k)
<1>1. l \in Nat /\ l >= 1 /\ k \in 1 .. (off + l - 1) \div Page + 1
  BY DEF Turns
<1>2. PageOf(a, data, x, k) = Piece(x, a, data, From(off, k), To(off, l, k))
  BY Zenon DEF PageOf, Piece, From, To
<1>0. From(off, k) = d + 1 /\ off = a % Page /\ l <= FlashSize
  BY Zenon
<1> HIDE DEF off, l
<1>3. Fits(a, off, l, k)
  BY <1>0, <1>1, PieceFits, Zenon
<1> HIDE DEF t
<1>4. t \in d + 1 .. l /\ ((a + (d + 1) - 1) % Page) + (t - (d + 1) + 1) <= Page
  BY <1>0, <1>3, Zenon DEF Fits, t
<1>5. t \in Nat /\ d < t /\ t <= l /\ skip <= t
  BY <1>1, <1>4
<1>6. Reached(Piece(x, a, data, d + 1, t), z, a, data, skip, t)
  BY <1>4, <1>5, PieceReached, Zenon DEF l
<1>7. Reached(PageOf(a, data, x, k), z, a, data, skip, t)
  BY <1>0, <1>2, <1>6, Zenon DEF t
<1> QED
  BY <1>5, <1>7, Zenon DEF t, off, l

(* Where the write stands after the turn k.                                   *)
Stands(x, z, a, data, skip, k) ==
    LET t == To(a % Page, Len(data), k)
    IN  Reached(x, z, a, data, skip, t) /\ t \in Nat /\ skip <= t

(* So the write stands after the next turn.                                   *)
LEMMA TurnStands ==
    ASSUME NEW x, NEW z, NEW a \in Nat, NEW data \in Seq(Bytes), Len(data) <= FlashSize,
           Len(data) >= 1, NEW skip \in Nat, NEW k, k \in 1 .. Turns(a % Page, Len(data)) - 1,
           Stands(x, z, a, data, skip, k)
    PROVE  Stands(PageOf(a, data, x, k + 1), z, a, data, skip, k + 1)
<1> DEFINE off == a % Page
           l == Len(data)
           n == Turns(off, l)
           d == To(off, l, k)
<1>1. off \in Nat /\ off < Page /\ l \in Nat /\ l >= 1
  BY Sizes
<1>2. d \in Nat /\ skip <= d /\ Reached(x, z, a, data, skip, d)
  BY Zenon DEF Stands
<1>3. k \in 1 .. n - 1
  OBVIOUS
<1> HIDE DEF off, l, n
<1>4. From(off, k + 1) = d + 1 /\ n \in Nat
  <2>1. /\ Turns(off, l) \in Nat
        /\ \A i \in 1 .. Turns(off, l) - 1 : From(off, i + 1) = To(off, l, i) + 1
    BY <1>1, PieceFollows, Zenon
  <2> QED
    BY <1>3, <2>1, Zenon DEF n
<1>5. k + 1 \in 1 .. n
  BY <1>3, <1>4
<1> HIDE DEF d
<1>6. Plain(x) /\ ~x.wip /\ x.bits = <<>> /\ Keeps(x) /\ View(x).cell = Upto(z, a, data, skip, d)
  BY <1>2, QuietIsPlain, Zenon DEF Reached
<1> DEFINE j == k + 1
<1>7. From(off, j) = d + 1 /\ j \in 1 .. n
  BY <1>4, <1>5, Zenon
<1> HIDE DEF j
<1>8. LET t == To(off, l, j)
      IN  Reached(PageOf(a, data, x, j), z, a, data, skip, t) /\ t \in Nat /\ skip <= t
  BY <1>2, <1>6, <1>7, TurnReached, Zenon DEF off, l, n
<1> QED
  BY <1>8, Zenon DEF Stands, j, off, l

(* The first turn: its piece is lost on a chip that is busy or heard other    *)
(* bits first.                                                                *)
LEMMA FirstStands ==
    ASSUME NEW c, Plain(c), Keeps(c), NEW a \in Nat, NEW data \in Seq(Bytes),
           Len(data) <= FlashSize, Len(data) >= 1, NEW skip,
           skip = IF c.wip \/ c.bits # <<>> THEN To(a % Page, Len(data), 1) ELSE 0
    PROVE  /\ Stands(PageOf(a, data, c, 1), Access!Idle(View(c)).cell, a, data, skip, 1)
           /\ skip \in Nat
<1> DEFINE off == a % Page
           l == Len(data)
           n == Turns(off, l)
           t == To(off, l, 1)
           z == Access!Idle(View(c)).cell
           f == PageOf(a, data, c, 1)
           s == SubSeq(data, 1, t)
<1>1. off \in Nat /\ off < Page /\ l \in Nat /\ l >= 1 /\ off = a % Page /\ l <= FlashSize
  BY Sizes
<1> HIDE DEF off, l
<1>2. n \in Nat /\ n >= 1 /\ From(off, 1) = 1
  BY <1>1, PieceFollows, Zenon DEF n
<1>3. 1 \in 1 .. (off + l - 1) \div Page + 1 /\ 1 \in 1 .. n
  BY <1>2 DEF n, Turns
<1>4. Fits(a, off, l, 1)
  BY <1>1, <1>3, PieceFits, Zenon
<1>5. t \in 1 .. l /\ ((a + 1 - 1) % Page) + (t - 1 + 1) <= Page
  BY <1>2, <1>4, Zenon DEF Fits
<1>6. f = Piece(c, a, data, 1, t)
  <2>1. f = Piece(c, a, data, From(off, 1), t)
    BY Zenon DEF PageOf, Piece, From, To, off, l
  <2> QED
    BY <1>2, <2>1, Zenon
<1>7. skip = (IF c.wip \/ c.bits # <<>> THEN t ELSE 0) /\ skip \in Nat /\ t \in Nat
  <2>1. skip = (IF c.wip \/ c.bits # <<>> THEN t ELSE 0)
    BY Zenon DEF off, l
  <2> HIDE DEF t
  <2>2. t \in Nat /\ 0 \in Nat
    BY <1>5
  <2> QED
    BY <2>1, <2>2, Zenon
<1> HIDE DEF t, f
<1>9. CASE c.wip \/ c.bits # <<>>
  <2>1. skip = t
    BY <1>7, <1>9, Zenon
  <2>2. a + 1 - 1 = a /\ s \in Seq(Bytes) /\ Len(s) = t /\ t >= 1
    BY <1>5, <1>1 DEF l
  <2>3. (a % Page) + Len(s) <= Page
    <3>1. a % Page \in Int
      BY Sizes
    <3> DEFINE r == a % Page
    <3> HIDE DEF r, s
    <3>2. (a + 1 - 1) % Page = r
      BY <2>2, Zenon DEF r
    <3>3. r + (t - 1 + 1) <= Page /\ r \in Int
      BY <1>5, <3>1, <3>2, Zenon DEF r
    <3>4. r + Len(s) <= Page
      BY <1>7, <2>2, <3>3
    <3> QED
      BY <3>4, Zenon DEF r
  <2>4. Len(s) >= 1
    BY <2>2
  <2>5. f = Flash_WritePage(c, a, s)
    BY <1>6, <2>2, Zenon DEF Piece
  <2> HIDE DEF s
  <2>6. PageDone(c, a, s, f)
    BY <2>2, <2>3, <2>4, <2>5, PageSeen, Zenon DEF Bytes
  <2>7. Quiet(f) /\ ~f.wip /\ Keeps(f) /\ View(f).cell = z
    BY <1>9, <2>6, Zenon DEF PageDone
  <2>8. Upto(z, a, data, skip, t) = z
    <3>1. View(f).cell = [i \in Address |-> Known(f.cell[i])]
      BY DEF View
    <3> DEFINE y == [i \in Address |-> Known(f.cell[i])]
    <3>2. y = [i \in Address |-> y[i]]
      OBVIOUS
    <3> HIDE DEF y
    <3>3. z = y
      BY <2>7, <3>1, Zenon DEF y
    <3> HIDE DEF z
    <3>4. AllCells(z)
      BY <3>2, <3>3, Zenon DEF AllCells
    <3>5. skip \in Nat /\ t \in Nat /\ t <= skip
      BY <1>7, <2>1
    <3>6. \A u \in Nat, v \in Nat : v <= u => Upto(z, a, data, u, v) = z
      BY <3>4, FirstPiece, Zenon
    <3> QED
      BY <3>5, <3>6, Zenon
  <2>9. Reached(f, z, a, data, skip, t) /\ t \in Nat /\ skip <= t
    <3>1. skip <= t
      BY <1>7, <2>1
    <3> QED
      BY <1>7, <2>7, <2>8, <3>1, Zenon DEF Reached
  <2>10. Stands(f, z, a, data, skip, 1)
    BY <2>9, Zenon DEF Stands, t, off, l
  <2> QED
    BY <1>7, <2>10, Zenon DEF f
<1>10. CASE ~(c.wip \/ c.bits # <<>>)
  <2>1. skip = 0 /\ ~c.wip /\ c.bits = <<>>
    BY <1>7, <1>10, Zenon
  <2>2. View(c).wip = c.wip /\ View(c).cell = [i \in Address |-> Known(c.cell[i])]
    BY DEF View
  <2>3. z = View(c).cell
    BY <2>1, <2>2, Zenon DEF Access!Idle
  <2>4. AllCells(z)
    <3> DEFINE y == [i \in Address |-> Known(c.cell[i])]
    <3>1. y = [i \in Address |-> y[i]]
      OBVIOUS
    <3> HIDE DEF y
    <3>2. z = y
      BY <2>2, <2>3, Zenon DEF y
    <3> HIDE DEF z
    <3> QED
      BY <3>1, <3>2, Zenon DEF AllCells
  <2>5. 0 \in Nat /\ 0 <= 0 /\ 0 + 1 = 1
    OBVIOUS
  <2> HIDE DEF z
  <2>6. Upto(z, a, data, 0, 0) = z
    BY <2>4, <2>5, FirstPiece, Zenon
  <2>7. View(c).cell = Upto(z, a, data, 0, 0) /\ From(off, 1) = 0 + 1
    BY <1>2, <2>3, <2>5, <2>6, Zenon
  <2>8. LET u == To(off, l, 1)
        IN  Reached(PageOf(a, data, c, 1), z, a, data, 0, u) /\ u \in Nat /\ 0 <= u
    <3> HIDE DEF n
    <3>1. 1 \in 1 .. Turns(a % Page, Len(data)) /\ From(a % Page, 1) = 0 + 1
      BY <1>3, <2>7, Zenon DEF off, l, n
    <3> QED
      BY <2>1, <2>5, <2>7, <3>1, TurnReached, Zenon DEF off, l
  <2>9. Stands(f, z, a, data, skip, 1)
    BY <2>1, <2>8, Zenon DEF Stands, f, off, l
  <2> QED
    BY <1>7, <2>9, Zenon DEF f, z
<1> QED
  BY <1>9, <1>10

(* Flash_WriteNoCheck, pin by pin, is that of SpiFlash.                       *)
WriteIs(c, a, data, f) ==
    /\ View(f) = Access!Flash_WriteNoCheck(View(c), a, data, c.bits # <<>>)
    /\ Keeps(f)

(* It is, for every address and every data no longer than the chip            *)
(* (drvflash.c 90-113).                                                       *)
LEMMA WriteSeen ==
    ASSUME NEW c, Plain(c), Keeps(c), NEW a \in Nat, NEW data \in Seq(Bytes),
           Len(data) <= FlashSize, Len(data) >= 1
    PROVE  WriteIs(c, a, data, Flash_WriteNoCheck(c, a, data))
<1> DEFINE off == a % Page
           l == Len(data)
           n == Turns(off, l)
           t == To(off, l, 1)
           z == Access!Idle(View(c)).cell
           skip == IF c.wip \/ c.bits # <<>> THEN t ELSE 0
           f == Flash_WriteNoCheck(c, a, data)
<1>1. off \in Nat /\ off < Page /\ l \in Nat /\ l >= 1
  BY Sizes
<1>2. /\ n \in Nat /\ n >= 1 /\ To(off, l, n) = l
      /\ t = IF l <= Page - off THEN l ELSE Page - off
  <2> HIDE DEF off, l
  <2> QED
    BY <1>1, PieceFollows, Zenon
<1>3. Stands(PageOf(a, data, c, 1), z, a, data, skip, 1) /\ skip \in Nat
  BY FirstStands, Zenon
<1>4. PICK h : Looped(c, a, data, h)
  <2>1. Pages(a, data) = n
    BY Zenon DEF Pages, Turns
  <2> HIDE DEF n
  <2> QED
    BY <1>2, <2>1, PagesInTurn, Zenon
<1>5. h[0] = c /\ f = h[n] /\ \A k \in 1 .. n : h[k] = PageOf(a, data, h[k - 1], k)
  BY <1>4, Zenon DEF Looped, Pages, Turns
<1> HIDE DEF skip, n, z, f
<1> DEFINE G == {k \in Nat : k + 1 <= n => Stands(h[k + 1], z, a, data, skip, k + 1)}
<1>6. 0 \in G
  <2>1. 1 \in 1 .. n /\ 0 + 1 = 1 /\ 1 - 1 = 0 /\ 0 \in Nat
    BY <1>2
  <2>2. h[1] = PageOf(a, data, c, 1)
    BY <1>5, <2>1, Zenon
  <2>3. Stands(h[1], z, a, data, skip, 1)
    BY <1>3, <2>2, Zenon
  <2> QED
    BY <2>1, <2>3, Zenon
<1>7. ASSUME NEW k \in Nat, k \in G PROVE k + 1 \in G
  <2> SUFFICES ASSUME (k + 1) + 1 <= n PROVE Stands(h[(k + 1) + 1], z, a, data, skip, (k + 1) + 1)
    OBVIOUS
  <2> DEFINE j == k + 1
             x == h[j]
  <2>1. j \in 1 .. n - 1 /\ j <= n /\ j + 1 \in 1 .. n /\ (j + 1) - 1 = j
    BY <1>2
  <2>2. Stands(x, z, a, data, skip, j)
    BY <1>7, <2>1, Zenon
  <2> HIDE DEF j
  <2>3. h[j + 1] = PageOf(a, data, x, j + 1)
    BY <1>5, <2>1, Zenon
  <2> HIDE DEF x
  <2>a. j \in 1 .. Turns(a % Page, Len(data)) - 1
    BY <2>1, Zenon DEF n
  <2>4. Stands(PageOf(a, data, x, j + 1), z, a, data, skip, j + 1)
    BY <1>3, <2>a, <2>2, TurnStands, Zenon
  <2> QED
    BY <2>3, <2>4, Zenon DEF j
<1> HIDE DEF G
<1>8. Nat \subseteq G
  BY <1>6, <1>7, Induct
<1>9. n - 1 \in G /\ (n - 1) + 1 = n /\ n <= n
  BY <1>2, <1>8
<1>10. Stands(f, z, a, data, skip, n)
  BY <1>5, <1>9, Zenon DEF G
<1>11. Reached(f, z, a, data, skip, l)
  BY <1>2, <1>10, Zenon DEF Stands
<1>12. ~f.wip /\ Keeps(f) /\ View(f).cell = Upto(z, a, data, skip, l) /\ f.wip = FALSE
  <2>1. Quiet(f) /\ ~f.wip /\ Keeps(f) /\ View(f).cell = Upto(z, a, data, skip, l)
    BY <1>11, Zenon DEF Reached
  <2>2. f.wip \in BOOLEAN
    BY <2>1 DEF Quiet, ChipType
  <2> QED
    BY <2>1, <2>2
<1>13. Upto(z, a, data, skip, l) = Access!Programmed(z, a, data, skip)
  BY Zenon DEF Upto, Place, Access!Programmed, Access!Address, Address
<1>14. Access!PageRemain(a, l) = t
  BY <1>2, Zenon DEF Access!PageRemain
<1>15. View(f) = [cell |-> Access!Programmed(z, a, data, skip), wip |-> FALSE]
  <2>1. View(f) = [cell |-> [i \in Address |-> Known(f.cell[i])], wip |-> f.wip]
        /\ View(f).cell = [i \in Address |-> Known(f.cell[i])]
    BY DEF View
  <2> QED
    BY <1>12, <1>13, <2>1, Zenon
<1>16. skip = IF View(c).wip \/ c.bits # <<>> THEN Access!PageRemain(a, l) ELSE 0
  <2>1. View(c).wip = c.wip
    BY DEF View
  <2> HIDE DEF t
  <2> QED
    BY <1>14, <2>1, Zenon DEF skip
<1>17. View(f) = Access!Flash_WriteNoCheck(View(c), a, data, c.bits # <<>>)
  BY <1>15, <1>16, Zenon DEF Access!Flash_WriteNoCheck, z
<1> QED
  BY <1>12, <1>17, Zenon DEF WriteIs, f

-----------------------------------------------------------------------------
(* Reading.                                                                   *)

(* The bit a chip answers to a read: the next of the cell it has come to.     *)
Answers(d, a, k, j) ==
    /\ d.deaf => Miso(d) = Float
    /\ ~d.deaf => Miso(d) = Bits(d.cell[(a + k) % FlashSize])[j]

(* Byte and bit, from the number of bits heard.                               *)
LEMMA EighthOf ==
    ASSUME NEW k \in Nat, NEW j \in 1 .. 8, NEW n, n = 32 + 8 * k + (j - 1)
    PROVE  n \in Nat /\ n >= 32 /\ (n % 8) + 1 = j /\ (n - 32) \div 8 = k
<1> DEFINE m == j - 1
<1>1. m \in 0 .. 7 /\ j = m + 1
  OBVIOUS
<1>2. n = 8 * (4 + k) + m /\ n - 32 = 8 * k + m /\ 4 + k \in Nat
  BY <1>1
<1> HIDE DEF m
<1> DEFINE u == 4 + k
<1>3. u \in Nat /\ n = 8 * u + m
  BY <1>2
<1> HIDE DEF u
<1>4. n % 8 = m
  BY <1>1, <1>3
<1> DEFINE x == n - 32
<1>5. x = 8 * k + m
  BY <1>2
<1> HIDE DEF x
<1>6. x \div 8 = k
  BY <1>1, <1>5
<1> QED
  BY <1>1, <1>3, <1>4, <1>6 DEF x, u

(* A chip that heard a read answers so.                                       *)
LEMMA MisoReads ==
    ASSUME NEW d, d.bits \in Seq(Bit), NEW a \in Nat, NEW s, Headed(s, READ_DATA, a),
           Hears(d, s),
           NEW k \in Nat, NEW j \in 1 .. 8, Len(d.bits) = 32 + 8 * k + (j - 1)
    PROVE  Answers(d, a, k, j)
<1> DEFINE n == Len(d.bits)
           b == d.bits
<1>1. n \in Nat /\ n >= 32 /\ (n % 8) + 1 = j /\ (n - 32) \div 8 = k
  BY EighthOf
<1>2. Opcode(d) = READ_DATA
  <2>1. s \in Seq(Int) /\ s[1] = READ_DATA /\ Len(s) >= 4
    BY Zenon DEF Headed
  <2>2. READ_DATA \in Byte /\ 8 * 1 - 7 = 1
    BY DEF READ_DATA, Byte
  <2>3. \A i \in 1 .. 8 : 8 * 1 - 8 + i \in 1 .. 32
    OBVIOUS
  <2>4. 1 \in 1 .. Len(s)
    BY <2>1
  <2>5. \A i \in 1 .. 8 : b[8 * 1 - 8 + i] = AllBits(s)[8 * 1 - 8 + i]
    BY <2>3, Zenon DEF Hears
  <2>6. s[1] \in Byte
    BY <2>1, <2>2, Zenon
  <2> HIDE DEF b
  <2>7. Value(b, 8 * 1 - 7) = s[1]
    BY <2>1, <2>4, <2>5, <2>6, ByteAt, Zenon
  <2>8. ~(n < 8)
    <3> HIDE DEF n
    <3> QED
      BY <1>1
  <2> QED
    BY <2>1, <2>2, <2>7, <2>8, Zenon DEF Opcode, n, b
<1>3. ChipAddress(d) = a % FlashSize
  BY AddressHeard, Zenon
<1>4. READ_DATA # READ_SR
  BY DEF READ_DATA, READ_SR
<1>5. d.deaf => Miso(d) = Float
  BY <1>2, <1>4, Zenon DEF Miso
<1>6. ((a % FlashSize) + k) % FlashSize = (a + k) % FlashSize
  BY Sizes, Shift
<1>7. ~d.deaf => Miso(d) = Bits(d.cell[(ChipAddress(d) + (n - 32) \div 8) % FlashSize])[(n % 8) + 1]
  <2>1. n >= 32
    BY <1>1
  <2> QED
    BY <1>2, <1>4, <2>1, Zenon DEF Miso, n
<1> HIDE DEF n
<1>8. ~d.deaf => Miso(d) = Bits(d.cell[((a % FlashSize) + k) % FlashSize])[j]
  <2>1. (n - 32) \div 8 = k /\ (n % 8) + 1 = j
    BY <1>1
  <2> QED
    BY <1>3, <1>7, <2>1, Zenon
<1>9. ~d.deaf => Miso(d) = Bits(d.cell[(a + k) % FlashSize])[j]
  BY <1>6, <1>8, Zenon
<1> QED
  BY <1>5, <1>9, Zenon DEF Answers

(* The byte eight bits make, when all of them are driven and when none is.    *)
LEMMA ByteReadIs ==
    ASSUME NEW x, x = [i \in 1 .. 8 |-> x[i]]
    PROVE  /\ x[1] = Float => ByteRead(x) = Float
           /\ \A b \in Byte : (\A i \in 1 .. 8 : x[i] = Bits(b)[i]) => ByteRead(x) = b
<1>1. Len(x) = 8
  OBVIOUS
<1>2. x[1] = Float => ByteRead(x) = Float
  <2>1. 1 \in 1 .. Len(x)
    BY <1>1
  <2> QED
    BY <2>1, Zenon DEF ByteRead, Contains
<1>3. ASSUME NEW b \in Byte, \A i \in 1 .. 8 : x[i] = Bits(b)[i] PROVE ByteRead(x) = b
  <2>1. \A i \in 1 .. 8 : Bits(b)[i] \in Bit
    BY BitsIn DEF Byte
  <2>2. Float \notin Bit
    BY DEF Bit, Float
  <2>3. ~Contains(x, Float)
    BY <1>1, <1>3, <2>1, <2>2, Zenon DEF Contains
  <2>4. 1 \in Int /\ \A i \in 1 .. 8 : 1 + i - 1 = i
    OBVIOUS
  <2>5. \A i \in 1 .. 8 : x[1 + i - 1] = Bits(b)[i]
    BY <1>3, <2>4, Zenon
  <2>6. Value(x, 1) = b
    BY <2>4, <2>5, ByteValue, Zenon
  <2> QED
    BY <2>3, <2>6, Zenon DEF ByteRead
<1> QED
  BY <1>2, <1>3, Zenon

(* The chip before the falling edge i of the bytes read.                      *)
After(e, i) == [e EXCEPT !.bits = @ \o [m \in 1 .. i - 1 |-> 0]]

(* It has heard the read, and the clocks since.                               *)
LEMMA AfterIs ==
    ASSUME NEW e \in ChipType, NEW i \in Nat, i >= 1, NEW s, e.bits = AllBits(s), Len(e.bits) = 32
    PROVE  LET d == After(e, i)
           IN  /\ d.bits \in Seq(Bit) /\ Len(d.bits) = 32 + (i - 1) /\ Hears(d, s)
               /\ d.cell = e.cell /\ d.deaf = e.deaf
<1> DEFINE z == [m \in 1 .. i - 1 |-> 0]
           b == e.bits
           x == b \o z
           d == After(e, i)
<1>1. b \in Seq(Bit) /\ z \in Seq(Bit) /\ Len(z) = i - 1
  <2>1. b \in Seq(Bit)
    BY DEF ChipType
  <2>2. i - 1 \in Nat
    OBVIOUS
  <2> QED
    BY <2>1, <2>2 DEF Bit
<1>2. d = [e EXCEPT !.bits = x]
  BY Zenon DEF After
<1> HIDE DEF z
<1>a. Len(b) = 32 /\ b = AllBits(s)
  BY Zenon
<1> HIDE DEF b
<1>3. /\ x \in Seq(Bit) /\ Len(x) = Len(b) + Len(z)
      /\ \A m \in 1 .. Len(b) + Len(z) : x[m] = IF m <= Len(b) THEN b[m] ELSE z[m - Len(b)]
  BY <1>1, ConcatProperties, Zenon
<1> HIDE DEF x
<1>4. d.bits = x /\ d.cell = e.cell /\ d.deaf = e.deaf
  <2> HIDE DEF d
  <2> QED
    BY <1>2 DEF ChipType
<1>5. ASSUME NEW m \in 1 .. 32 PROVE x[m] = b[m]
  <2> HIDE DEF d
  <2>1. Len(z) \in Nat /\ Len(b) = 32
    BY <1>1, <1>a
  <2> DEFINE l == Len(z)
  <2>2. l \in Nat
    BY <2>1
  <2> HIDE DEF l
  <2>3. m \in 1 .. 32 + l /\ m <= 32
    BY <2>2
  <2> QED
    BY <1>3, <2>1, <2>3, Zenon DEF l
<1> HIDE DEF d
<1>6. Hears(d, s)
  BY <1>4, <1>5, <1>a, Zenon DEF Hears
<1>7. Len(d.bits) = 32 + (i - 1) /\ d.bits \in Seq(Bit)
  BY <1>1, <1>3, <1>4, <1>a
<1> QED
  BY <1>4, <1>6, <1>7, Zenon DEF d

(* The byte number k that is read.                                            *)
ReadByte(e, a, k) ==
    ByteRead([i \in 1 .. 8 |-> Miso(After(e, 8 * k - 8 + i))])
      = IF e.deaf THEN Float ELSE e.cell[(a + (k - 1)) % FlashSize]

(* Reading wraps at the end of the chip.                                      *)
LEMMA CellIn ==
    ASSUME NEW a \in Nat, NEW k \in Nat PROVE (a + k) % FlashSize \in Address
<1> DEFINE x == a + k
<1>1. x \in Nat /\ FlashSize \in Nat \ {0}
  BY Sizes
<1> HIDE DEF x
<1>2. x % FlashSize \in 0 .. FlashSize - 1
  BY <1>1
<1> QED
  BY <1>2, Zenon DEF x, Address

(* A byte read is the cell's, or nobody drove it.                             *)
LEMMA ReadOne ==
    ASSUME NEW e \in ChipType, NEW a \in Nat, NEW s, Headed(s, READ_DATA, a),
           e.bits = AllBits(s), Len(e.bits) = 32, NEW k \in Nat, k >= 1
    PROVE  ReadByte(e, a, k)
<1> DEFINE x == [i \in 1 .. 8 |-> Miso(After(e, 8 * k - 8 + i))]
           g == k - 1
           y == e.cell[(a + g) % FlashSize]
<1>1. g \in Nat
  OBVIOUS
<1>2. y \in Byte
  <2>1. (a + g) % FlashSize \in Address
    BY <1>1, CellIn, Zenon
  <2>2. e.cell \in [Address -> Byte]
    BY DEF ChipType
  <2> HIDE DEF g
  <2> QED
    BY <2>1, <2>2, Zenon
<1>3. ASSUME NEW i \in 1 .. 8
      PROVE  /\ e.deaf => x[i] = Float
             /\ ~e.deaf => x[i] = Bits(y)[i]
  <2> DEFINE m == 8 * k - 8 + i
             d == After(e, m)
  <2>1. m \in Nat /\ m >= 1 /\ 32 + (m - 1) = 32 + 8 * g + (i - 1)
    OBVIOUS
  <2>2. x[i] = Miso(d)
    BY Zenon
  <2> HIDE DEF m, x, g, y
  <2>3. /\ d.bits \in Seq(Bit) /\ Len(d.bits) = 32 + (m - 1) /\ Hears(d, s)
        /\ d.cell = e.cell /\ d.deaf = e.deaf
    BY <2>1, AfterIs, Zenon
  <2> HIDE DEF d
  <2>4. Len(d.bits) = 32 + 8 * g + (i - 1)
    BY <2>1, <2>3, Zenon
  <2>5. Answers(d, a, g, i)
    BY <1>1, <2>3, <2>4, MisoReads, Zenon
  <2> QED
    BY <2>2, <2>3, <2>5, Zenon DEF Answers, y
<1>4. x = [i \in 1 .. 8 |-> x[i]]
  OBVIOUS
<1> HIDE DEF x, y
<1>5. /\ x[1] = Float => ByteRead(x) = Float
      /\ \A b \in Byte : (\A i \in 1 .. 8 : x[i] = Bits(b)[i]) => ByteRead(x) = b
  BY <1>4, ByteReadIs
<1>6. 1 \in 1 .. 8
  OBVIOUS
<1>7. e.deaf => ByteRead(x) = Float
  BY <1>3, <1>5, <1>6, Zenon
<1>8. ~e.deaf => ByteRead(x) = y
  BY <1>2, <1>3, <1>5, Zenon
<1> QED
  BY <1>7, <1>8, Zenon DEF ReadByte, x, y

(* Flash_ReadSomeByte, pin by pin, is that of SpiFlash.                       *)
ReadIs(c, a, n, r) ==
    [k \in DOMAIN r |-> Known(r[k])]
      = Access!Flash_ReadSomeByte(View(c), a, n, c.bits # <<>>)

(* It is, for every address and number of bytes (drvflash.c 49-63).           *)
LEMMA ReadSeen ==
    ASSUME NEW c, Plain(c), Keeps(c), NEW a \in Nat, NEW n \in Nat
    PROVE  ReadIs(c, a, n, Flash_ReadSomeByte(c, a, n))
<1> DEFINE h == <<READ_DATA>> \o AddressBytes(a)
           w == AllBits(h)
           e == SPI_WriteBytes(c, h)
           r == Flash_ReadSomeByte(c, a, n)
           v == View(c)
<1>1. v.wip = c.wip /\ v.cell = [i \in Address |-> Known(c.cell[i])]
  BY DEF View
<1>2. Known(Float) = Float
  BY Zenon DEF Known
<1>3. r = IF c.bits # <<>> THEN [k \in 1 .. n |-> Float] ELSE SPI_ReadBytes(e, n)
  BY Zenon DEF Flash_ReadSomeByte
<1>4. Access!Flash_ReadSomeByte(v, a, n, c.bits # <<>>)
        = [k \in 1 .. n |-> IF c.wip \/ c.bits # <<>> THEN Float
                            ELSE v.cell[(a + k - 1) % FlashSize]]
  <2> HIDE DEF v
  <2> QED
    BY <1>1, Zenon DEF Access!Flash_ReadSomeByte
<1>5. CASE c.bits # <<>>
  <2>1. r = [k \in 1 .. n |-> Float]
    BY <1>3, <1>5, Zenon
  <2> HIDE DEF r, v
  <2>2. DOMAIN r = 1 .. n /\ \A k \in 1 .. n : r[k] = Float
    BY <2>1
  <2>3. [k \in DOMAIN r |-> Known(r[k])]
          = [k \in 1 .. n |-> IF c.wip \/ c.bits # <<>> THEN Float
                              ELSE v.cell[(a + k - 1) % FlashSize]]
    BY <1>2, <1>5, <2>2, Zenon
  <2> QED
    BY <1>4, <2>3, Zenon DEF ReadIs, r, v
<1>6. CASE c.bits = <<>>
  <2>1. Headed(h, READ_DATA, a) /\ Len(h) = 4 /\ h \in Seq(Int) /\ h[1] = READ_DATA
    <3>1. READ_DATA \in Byte
      BY DEF READ_DATA, Byte
    <3>2. Headed(h, READ_DATA, a) /\ Len(h) = 4
      BY <3>1, Head4, Zenon
    <3> QED
      BY <3>2, Zenon DEF Headed
  <2> HIDE DEF h
  <2>2. w \in Seq(Bit) /\ Len(w) = 32 /\ Value(w, 1) = READ_DATA
    <3>1. w \in Seq(Bit) /\ Len(w) = 8 * Len(h)
      BY <2>1, AllBitsIn, Zenon
    <3>2. Len(h) >= 1 /\ h[1] \in Byte
      BY <2>1 DEF READ_DATA, Byte
    <3>3. Value(w, 1) = h[1]
      BY <2>1, <3>2, FirstByte, Zenon
    <3> HIDE DEF w
    <3> QED
      BY <2>1, <3>1, <3>3
  <2>3. c \in ChipType
    BY Zenon DEF Plain
  <2>4. e = Clocked(c, w)
    BY Zenon DEF SPI_WriteBytes
  <2>a. w = AllBits(h)
    OBVIOUS
  <2> HIDE DEF w, r, v
  <2>5. /\ e \in ChipType /\ e.bits = c.bits \o w /\ e.cell = c.cell /\ e.wip = c.wip
        /\ Len(c.bits) < 8 /\ Len(e.bits) >= 8 => e.deaf = (c.wip /\ Value(e.bits, 1) # READ_SR)
    <3> DEFINE d == Clocked(c, w)
    <3>1. /\ d \in ChipType /\ d.bits = c.bits \o w /\ d.cell = c.cell /\ d.wip = c.wip
          /\ Len(c.bits) < 8 /\ Len(d.bits) >= 8 => d.deaf = (c.wip /\ Value(d.bits, 1) # READ_SR)
      BY <2>2, <2>3, ClockedIs
    <3> QED
      BY <2>4, <3>1, Zenon
  <2> HIDE DEF e
  <2>6. e.bits = w /\ Len(c.bits) = 0 /\ Len(e.bits) = 32
    BY <1>6, <2>2, <2>5
  <2>7. e.deaf <=> c.wip
    <3>1. Len(c.bits) < 8 /\ Len(e.bits) >= 8
      BY <2>6
    <3>2. Value(e.bits, 1) # READ_SR
      BY <2>2, <2>6 DEF READ_DATA, READ_SR
    <3>3. c.wip \in BOOLEAN /\ e.deaf \in BOOLEAN
      BY <2>3, <2>5 DEF ChipType
    <3> QED
      BY <2>5, <3>1, <3>2, <3>3, Zenon
  <2> DEFINE b(k) == ByteRead([i \in 1 .. 8 |-> Miso(After(e, 8 * k - 8 + i))])
  <2>8. r = [k \in 1 .. n |-> b(k)]
    <3>1. r = SPI_ReadBytes(e, n)
      BY <1>3, <1>6, Zenon
    <3> QED
      BY <3>1, Zenon DEF SPI_ReadBytes, After
  <2>9. ASSUME NEW k \in 1 .. n
        PROVE  Known(b(k)) = IF c.wip \/ c.bits # <<>> THEN Float
                             ELSE v.cell[(a + k - 1) % FlashSize]
    <3>1. k \in Nat /\ k >= 1 /\ k - 1 \in Nat /\ a + k - 1 = a + (k - 1)
      OBVIOUS
    <3>2. ReadByte(e, a, k)
      <4>1. e.bits = AllBits(h) /\ Len(e.bits) = 32
        BY <2>6, <2>a, Zenon
      <4> QED
        BY <2>1, <2>5, <3>1, <4>1, ReadOne, Zenon
    <3>3. b(k) = IF e.deaf THEN Float ELSE e.cell[(a + (k - 1)) % FlashSize]
      BY <3>2, Zenon DEF ReadByte
    <3> DEFINE p == (a + (k - 1)) % FlashSize
               q == k - 1
    <3>4. p \in Address
      <4>1. q \in Nat
        BY <3>1
      <4> HIDE DEF q
      <4>2. (a + q) % FlashSize \in Address
        BY <4>1, CellIn, Zenon
      <4> QED
        BY <4>2, Zenon DEF q
    <3> HIDE DEF p, q
    <3>5. v.cell[p] = Known(c.cell[p])
      BY <1>1, <3>4, Zenon
    <3>6. (a + k - 1) % FlashSize = p
      BY <3>1, Zenon DEF p
    <3> HIDE DEF b
    <3> QED
      BY <1>2, <1>6, <2>5, <2>7, <3>3, <3>5, <3>6, Zenon DEF p
  <2> HIDE DEF b
  <2>10. DOMAIN r = 1 .. n /\ \A k \in 1 .. n : r[k] = b(k)
    BY <2>8
  <2>11. [k \in DOMAIN r |-> Known(r[k])]
           = [k \in 1 .. n |-> IF c.wip \/ c.bits # <<>> THEN Float
                               ELSE v.cell[(a + k - 1) % FlashSize]]
    BY <2>9, <2>10, Zenon
  <2> QED
    BY <1>4, <2>11, Zenon DEF ReadIs, r, v
<1> QED
  BY <1>5, <1>6

-----------------------------------------------------------------------------
(* The invariant under which the steps of the bus are those of FlashAccess.   *)

(* What the main loop has heard, if nothing came between.                     *)
Sampled(m, c) ==
    LET w == Len(Written(m.job))
        n == m.place + (IF m.low THEN 1 ELSE 0)
    IN  /\ Len(m.bits) = IF n <= w THEN 0 ELSE n - w
        /\ \A k \in 1 .. Len(m.bits) :
              IF m.job = Status THEN m.bits[k] \in Bit /\ (k = 8 /\ c.wip => m.bits[k] = 1)
              ELSE m.bits[k] = Bits(c.cell[m.job % FlashSize])[k]

(* The chip has heard every bit of the main loop's transaction and nothing    *)
(* else, and is not busy if it has to answer a read.                          *)
Followed(m, c) ==
    /\ Len(c.bits) = m.place /\ \A i \in 1 .. m.place : c.bits[i] = Line(m.job, i)
    /\ ~c.deaf
    /\ m.job # Status => ~c.wip
    /\ Sampled(m, c)

(* All chips are as commands leave them or the main loop's bits.              *)
Sound(ch) ==
    /\ ch \in [Chips -> ChipType]
    /\ \A c \in Chips : Plain(ch[c]) /\ Keeps(ch[c])

(* The invariant: what is needed for LatchUsed, and that a transaction nobody *)
(* came between is followed by its chip.                                      *)
ShareOk ==
    /\ BusOk /\ Sound(chip)
    /\ unheard \in BOOLEAN
    /\ main.job # NoJob /\ nss = 1 => unheard
    /\ nss = 0 /\ ~unheard => Followed(main, chip[mux])

(* The chips as FlashAccess sees them.                                        *)
FlashOf(ch) == [c \in Chips |-> View(ch[c])]

(* One chip changed, of chips seen as before.                                 *)
Updates(r, ch, to, f, g) ==
    FlashOf([r EXCEPT ![to] = f]) = [FlashOf(ch) EXCEPT ![to] = g]

(* Then one is changed in the view.                                           *)
LEMMA Replaced ==
    ASSUME NEW r, NEW ch, NEW to \in Chips, NEW f, NEW g, r \in [Chips -> ChipType],
           \A c \in Chips : View(r[c]) = View(ch[c]), View(f) = g
    PROVE  Updates(r, ch, to, f, g)
<1> DEFINE s == [r EXCEPT ![to] = f]
           v == FlashOf(ch)
           w == [v EXCEPT ![to] = g]
<1>1. \A c \in Chips : s[c] = IF c = to THEN f ELSE r[c]
  OBVIOUS
<1>2. v = [c \in Chips |-> View(ch[c])]
  BY Zenon DEF FlashOf
<1> HIDE DEF s, v
<1>3. w = [c \in Chips |-> IF c = to THEN g ELSE v[c]]
  BY <1>2
<1>4. \A c \in Chips : v[c] = View(ch[c])
  BY <1>2
<1> HIDE DEF w
<1>5. \A c \in Chips : View(s[c]) = IF c = to THEN g ELSE v[c]
  BY <1>1, <1>4, Zenon
<1>6. FlashOf(s) = [c \in Chips |-> IF c = to THEN g ELSE v[c]]
  BY <1>5, Zenon DEF FlashOf
<1> QED
  BY <1>3, <1>6, Zenon DEF s, v, w, Updates

(* A chip deselected in the middle of a transaction sees no command, if it    *)
(* leaves its latch clear.                                                    *)
LEMMA DeselectedSound ==
    ASSUME NEW x, Plain(x), Keeps(x), ~Deselected(x).wel
    PROVE  /\ Quiet(Deselected(x)) /\ Keeps(Deselected(x))
           /\ View(Deselected(x)) = View(x)
<1> DEFINE d == Deselected(x)
<1>1. x \in ChipType /\ ~x.wel
  BY Zenon DEF Plain
<1>2. Settled(x, d) /\ d.wip = x.wip /\ d.cell = x.cell
  BY <1>1, DeselectedIs, DeselectedKeeps, Zenon
<1>3. ~d.wel
  OBVIOUS
<1> HIDE DEF d
<1>4. Quiet(d)
  BY <1>2, <1>3, Zenon DEF Settled, Quiet
<1>5. Keeps(d) /\ View(d) = View(x)
  BY <1>2, SameView, Zenon
<1> QED
  BY <1>4, <1>5, Zenon DEF d

(* The chips when the routing has moved.                                      *)
Moved(r, to) ==
    /\ Sound(r) /\ \A c \in Chips : View(r[c]) = View(chip[c])
    /\ nss = 1 => r[to].bits = <<>>

(* Moving the routing changes no cell and no busy bit.                        *)
LEMMA RoutedShare ==
    ASSUME ShareOk, NEW to \in Chips, Moves(to) <= 1
    PROVE  Moved(Routed(to), to)
<1> DEFINE r == Routed(to)
<1>1. BusOk /\ Sound(chip)
  BY Zenon DEF ShareOk
<1>2. Selected(r, to)
  BY <1>1, RoutedOk, Zenon
<1>3. /\ r \in [Chips -> ChipType] /\ \A c \in Chips : ~r[c].wel
      /\ nss = 1 => r[to].bits = <<>>
  BY <1>2, Zenon DEF Selected
<1>4. chip \in [Chips -> ChipType] /\ mux \in Chips
      /\ \A c \in Chips : Plain(chip[c]) /\ Keeps(chip[c])
  BY <1>1, Zenon DEF Sound, BusOk
<1>5. CASE to = mux
  <2>1. r = chip
    BY <1>5, Zenon DEF Routed
  <2> QED
    BY <1>3, <1>4, <2>1, Zenon DEF Moved, Sound
<1>6. CASE to # mux
  <2> DEFINE x == chip[mux]
             d == Deselected(x)
             s == [chip EXCEPT ![mux] = d]
  <2>1. r = s
    BY <1>6, Zenon DEF Routed
  <2>2. s[mux] = d /\ \A c \in Chips : c # mux => s[c] = chip[c]
    BY <1>4
  <2>3. ~d.wel
    BY <1>3, <1>4, <2>1, <2>2, Zenon
  <2>4. Quiet(d) /\ Keeps(d) /\ View(d) = View(x)
    BY <1>4, <2>3, DeselectedSound, Zenon
  <2>5. Plain(d)
    BY <2>4, QuietIsPlain, Zenon
  <2> HIDE DEF d, s, r
  <2>6. Sound(r)
    BY <1>3, <1>4, <2>1, <2>2, <2>4, <2>5, Zenon DEF Sound
  <2>7. \A c \in Chips : View(r[c]) = View(chip[c])
    BY <2>1, <2>2, <2>4, Zenon
  <2> QED
    BY <1>3, <2>6, <2>7, Zenon DEF Moved, r
<1> QED
  BY <1>5, <1>6

(* A command leaves the invariant, and the view with its one chip changed.    *)
LEMMA CommandShare ==
    ASSUME ShareOk, ~astray', NEW to \in Chips, NEW f, Command(to, f), mosi' \in Bit,
           Quiet(f), Keeps(f), NEW g, View(f) = g
    PROVE  /\ ShareOk'
           /\ FlashOf(chip') = [FlashOf(chip) EXCEPT ![to] = g]
<1> DEFINE r == Routed(to)
           s == [r EXCEPT ![to] = f]
<1>1. /\ mux' = to /\ chip' = s /\ nss' = 1 /\ unheard' = TRUE /\ Counted(to)
  BY Zenon DEF Command
<1>2. BusOk
  BY Zenon DEF ShareOk
<1>3. BusOk'
  BY <1>2, CommandOk, Zenon
<1>4. Moves(to) <= 1
  BY <1>1, <1>2, CountedOk, Zenon
<1>5. Moved(r, to)
  BY <1>4, RoutedShare, Zenon
<1> HIDE DEF r
<1>6. Sound(r) /\ \A c \in Chips : View(r[c]) = View(chip[c])
  BY <1>5, Zenon DEF Moved
<1>7. r \in [Chips -> ChipType]
  BY <1>6, Zenon DEF Sound
<1>8. f \in ChipType /\ Plain(f)
  BY QuietIsPlain, Zenon DEF Quiet
<1>9. s \in [Chips -> ChipType] /\ \A c \in Chips : s[c] = IF c = to THEN f ELSE r[c]
  BY <1>7, <1>8
<1>10. FlashOf(s) = [FlashOf(chip) EXCEPT ![to] = g]
  <2>1. Updates(r, chip, to, f, g)
    BY <1>6, <1>7, Replaced, Zenon
  <2> QED
    BY <2>1, Zenon DEF Updates
<1> HIDE DEF s
<1>11. Sound(s)
  BY <1>6, <1>8, <1>9, Zenon DEF Sound
<1>12. nss' # 0
  BY <1>1
<1>13. ShareOk'
  BY <1>1, <1>3, <1>11, <1>12, Zenon DEF ShareOk
<1> QED
  BY <1>1, <1>10, <1>13, Zenon

-----------------------------------------------------------------------------
(* The commands, step by step.                                                *)

(* The bus as XvcServer sees it.                                              *)
NssOf(n, u) == IF n = 1 THEN "high" ELSE IF u THEN "unheard" ELSE "low"
JobOf(j) == IF j > 0 THEN j % FlashSize ELSE j
GotOf(g) == IF g.job < 0 THEN g ELSE [job |-> g.job % FlashSize, value |-> Known(g.value)]
AnswerOf(r) == [k \in DOMAIN r |-> Known(r[k])]
LostOf(n, u) == IF NssOf(n, u) = "high" THEN {FALSE} ELSE BOOLEAN

(* The chips of FlashAccess, before and after a step.                         *)
LEMMA FlashIs == Flash = FlashOf(chip) /\ Flash' = FlashOf(chip')
  BY Zenon DEF Flash, FlashOf, View

(* A step that does this is Erase of FlashAccess.                             *)
LEMMA ErasesAs ==
    ASSUME NEW lost, lost \in LostOf(nss, unheard), mux' \in Chips,
           FlashOf(chip') = [FlashOf(chip) EXCEPT ![mux'] = Access!Flash_EraseChip(@, lost)],
           NssOf(nss', unheard') = "high", JobOf(main'.job) = JobOf(main.job),
           GotOf(got') = GotOf(got), AnswerOf(answer') = AnswerOf(answer)
    PROVE  Access!Erase
<1>1. Flash' = [Flash EXCEPT ![mux'] = Access!Flash_EraseChip(@, lost)]
  BY FlashIs, Zenon
<1> QED
  BY <1>1, Zenon DEF Access!Erase, Access!Lost, LostOf, NssOf, JobOf, GotOf, AnswerOf

(* Write of FlashAccess.                                                      *)
LEMMA WritesAs ==
    ASSUME NEW lost, lost \in LostOf(nss, unheard), mux' \in Chips, NEW a, NEW data,
           FlashOf(chip')
             = [FlashOf(chip) EXCEPT ![mux'] = Access!Flash_WriteNoCheck(@, a, data, lost)],
           NssOf(nss', unheard') = "high", JobOf(main'.job) = JobOf(main.job),
           GotOf(got') = GotOf(got), AnswerOf(answer') = AnswerOf(answer)
    PROVE  Access!Write(a, data)
<1>1. Flash' = [Flash EXCEPT ![mux'] = Access!Flash_WriteNoCheck(@, a, data, lost)]
  BY FlashIs, Zenon
<1> QED
  BY <1>1, Zenon DEF Access!Write, Access!Lost, LostOf, NssOf, JobOf, GotOf, AnswerOf

(* Read of FlashAccess.                                                       *)
LEMMA ReadsAs ==
    ASSUME NEW lost, lost \in LostOf(nss, unheard), mux' \in Chips, NEW a, NEW n,
           AnswerOf(answer') = Access!Flash_ReadSomeByte(FlashOf(chip)[mux'], a, n, lost),
           FlashOf(chip') = FlashOf(chip),
           NssOf(nss', unheard') = "high", JobOf(main'.job) = JobOf(main.job),
           GotOf(got') = GotOf(got)
    PROVE  Access!Read(a, n)
<1>1. Flash' = Flash
  BY FlashIs, Zenon
<1>2. AnswerOf(answer') = Access!Flash_ReadSomeByte(Flash[mux'], a, n, lost)
  BY FlashIs, Zenon
<1> QED
  BY <1>1, <1>2, Zenon DEF Access!Read, Access!Lost, LostOf, NssOf, JobOf, GotOf, AnswerOf

(* What every command does: to the bus, and with a transaction it cut into.   *)
Commanded(to) ==
    /\ mux' \in Chips /\ mux' = to /\ NssOf(nss', unheard') = "high"
    /\ JobOf(main'.job) = JobOf(main.job) /\ GotOf(got') = GotOf(got)
    /\ Plain(Routed(to)[to]) /\ Keeps(Routed(to)[to])
    /\ View(Routed(to)[to]) = FlashOf(chip)[to]
    /\ (Routed(to)[to].bits # <<>>) \in LostOf(nss, unheard)

(* Every command does; its first transaction may be lost only if one of the   *)
(* main loop's was open.                                                      *)
LEMMA CommandSeen ==
    ASSUME ShareOk, ~astray', NEW to \in Chips, NEW f, Command(to, f)
    PROVE  Commanded(to)
<1> DEFINE r == Routed(to)
           x == r[to]
<1>1. mux' = to /\ nss' = 1 /\ Counted(to) /\ got' = got
  BY Zenon DEF Command
<1>2. BusOk
  BY Zenon DEF ShareOk
<1>3. Moves(to) <= 1 /\ main'.job = main.job
  BY <1>1, <1>2, CountedOk, Zenon
<1>4. Moved(r, to)
  BY <1>3, RoutedShare, Zenon
<1> HIDE DEF r
<1>5. Plain(x) /\ Keeps(x) /\ View(x) = View(chip[to]) /\ (nss = 1 => x.bits = <<>>)
  BY <1>4, Zenon DEF Moved, Sound
<1>6. FlashOf(chip)[to] = View(chip[to])
  BY Zenon DEF FlashOf
<1>7. NssOf(nss', unheard') = "high"
  BY <1>1, Zenon DEF NssOf
<1>8. NssOf(nss, unheard) = "high" => nss = 1
  BY DEF NssOf
<1>9. (x.bits # <<>>) \in LostOf(nss, unheard)
  <2>1. CASE nss = 1
    <3>1. (x.bits # <<>>) = FALSE /\ LostOf(nss, unheard) = {FALSE}
      BY <1>5, <2>1, Zenon DEF LostOf, NssOf
    <3> QED
      BY <3>1
  <2>2. CASE nss # 1
    <3>1. LostOf(nss, unheard) = BOOLEAN
      BY <1>8, <2>2, Zenon DEF LostOf
    <3> QED
      BY <3>1
  <2> QED
    BY <2>1, <2>2
<1> HIDE DEF x
<1>10. GotOf(got') = GotOf(got) /\ JobOf(main'.job) = JobOf(main.job)
  BY <1>1, <1>3, Zenon
<1> QED
  BY <1>1, <1>5, <1>6, <1>7, <1>9, <1>10, Zenon DEF Commanded, x, r

(* EARSE is Erase.                                                            *)
LEMMA EarseShared ==
    ASSUME ShareOk, ~astray', EarseCmd PROVE ShareOk' /\ Access!Erase
<1>1. PICK to \in Chips : Command(to, Flash_EraseChip(Routed(to)[to]))
  BY Zenon DEF EarseCmd
<1> DEFINE x == Routed(to)[to]
           f == Flash_EraseChip(x)
           lost == x.bits # <<>>
           v == FlashOf(chip)
           g == Access!Flash_EraseChip(v[to], lost)
<1>2. Commanded(to)
  BY <1>1, CommandSeen, Zenon
<1>3. mosi' \in Bit /\ answer' = answer
  BY DEF EarseCmd, ERASE_CHIP, Bit
<1>a. Command(to, f)
  BY <1>1
<1> HIDE DEF v
<1>4. Plain(x) /\ Keeps(x) /\ View(x) = v[to] /\ mux' = to
  BY <1>2, Zenon DEF Commanded, v
<1>b. lost \in LostOf(nss, unheard)
  BY <1>2, Zenon DEF Commanded
<1> HIDE DEF x
<1>5. View(f) = g /\ Keeps(f)
  BY <1>4, EraseSeen, Zenon
<1>6. Quiet(f)
  BY <1>4, EraseQuiet, Zenon DEF Plain
<1> HIDE DEF f, g
<1>7. ShareOk' /\ FlashOf(chip') = [v EXCEPT ![to] = g]
  BY <1>a, <1>3, <1>5, <1>6, CommandShare, Zenon DEF v
<1> HIDE DEF lost
<1>8. FlashOf(chip') = [v EXCEPT ![mux'] = Access!Flash_EraseChip(@, lost)]
  BY <1>4, <1>7, Zenon DEF g
<1>9. Access!Erase
  BY <1>2, <1>3, <1>8, <1>b, ErasesAs, Zenon DEF v, Commanded
<1> QED
  BY <1>7, <1>9

(* What WRITE is called with.                                                 *)
LEMMA PayloadIs ==
    ASSUME NEW data \in Payloads
    PROVE  data \in Seq(Bytes) /\ data \in Seq(Int) /\ Len(data) >= 1 /\ Len(data) <= FlashSize
<1> DEFINE D == Data \cup {255}
<1>1. data \in Seq(D) /\ data # <<>> /\ D \subseteq Int /\ Len(data) <= FlashSize
  BY SpiBusAssumption
<1>2. D = Bytes
  BY DEF Bytes, Blank
<1> HIDE DEF D
<1>3. data \in Seq(Int)
  BY <1>1, SeqMonotonic, Zenon
<1>4. Len(data) >= 1
  BY <1>1
<1> QED
  BY <1>1, <1>2, <1>3, <1>4, Zenon

(* WRITE is Write.                                                            *)
LEMMA WriteShared ==
    ASSUME ShareOk, ~astray', NEW a \in Starts, NEW data \in Payloads,
           WriteDataCmd(a, data)
    PROVE  ShareOk' /\ Access!Write(a, data)
<1>1. PICK to \in Chips : Command(to, Flash_WriteNoCheck(Routed(to)[to], a, data))
  BY Zenon DEF WriteDataCmd
<1> DEFINE x == Routed(to)[to]
           f == Flash_WriteNoCheck(x, a, data)
           lost == x.bits # <<>>
           v == FlashOf(chip)
           g == Access!Flash_WriteNoCheck(v[to], a, data, lost)
<1>2. Commanded(to)
  BY <1>1, CommandSeen, Zenon
<1>3. mosi' \in Bit /\ answer' = answer
  BY DEF WriteDataCmd, READ_SR, Bit
<1>0. a \in Nat
  BY SpiBusAssumption
<1>c. data \in Seq(Bytes) /\ data \in Seq(Int) /\ Len(data) >= 1 /\ Len(data) <= FlashSize
  BY PayloadIs, Zenon
<1>a. Command(to, f)
  BY <1>1
<1> HIDE DEF v
<1>4. Plain(x) /\ Keeps(x) /\ View(x) = v[to] /\ mux' = to
  BY <1>2, Zenon DEF Commanded, v
<1>b. lost \in LostOf(nss, unheard)
  BY <1>2, Zenon DEF Commanded
<1> HIDE DEF x
<1>5. View(f) = g /\ Keeps(f)
  <2>1. WriteIs(x, a, data, f)
    BY <1>0, <1>4, <1>c, WriteSeen, Zenon
  <2> QED
    BY <1>4, <2>1, Zenon DEF WriteIs
<1>6. Quiet(f)
  BY <1>0, <1>4, <1>c, WriteQuiet, Zenon DEF Plain
<1> HIDE DEF f, g
<1>7. ShareOk' /\ FlashOf(chip') = [v EXCEPT ![to] = g]
  BY <1>a, <1>3, <1>5, <1>6, CommandShare, Zenon DEF v
<1> HIDE DEF lost
<1>8. FlashOf(chip') = [v EXCEPT ![mux'] = Access!Flash_WriteNoCheck(@, a, data, lost)]
  BY <1>4, <1>7, Zenon DEF g
<1>9. Access!Write(a, data)
  BY <1>2, <1>3, <1>8, <1>b, WritesAs, Zenon DEF v, Commanded
<1> QED
  BY <1>7, <1>9

(* A chip replaced by itself.                                                 *)
LEMMA SameFlash ==
    ASSUME NEW ch, NEW to \in Chips PROVE [FlashOf(ch) EXCEPT ![to] = FlashOf(ch)[to]] = FlashOf(ch)
<1> DEFINE w == [c \in Chips |-> View(ch[c])]
<1>1. w = FlashOf(ch)
  BY Zenon DEF FlashOf
<1>2. [w EXCEPT ![to] = w[to]] = w
  OBVIOUS
<1> QED
  BY <1>1, <1>2

(* A transaction of more than a byte that finds the latch clear changes no    *)
(* chip, whatever it says.                                                    *)
LEMMA LongSeen ==
    ASSUME NEW x, Plain(x), Keeps(x), NEW s \in Seq(Int), Len(s) >= 2
    PROVE  LET d == Deselected(SPI_WriteBytes(x, s))
           IN  Quiet(d) /\ Keeps(d) /\ View(d) = View(x)
<1> DEFINE w == AllBits(s)
           y == SPI_WriteBytes(x, s)
           d == Deselected(y)
<1>1. x \in ChipType /\ ~x.wel
  BY Zenon DEF Plain
<1>2. w \in Seq(Bit)
  BY AllBitsIn, Zenon
<1>3. y = Clocked(x, w)
  BY Zenon DEF SPI_WriteBytes
<1>4. Quiet(d)
  BY <1>1, LongQuiet, Zenon
<1> HIDE DEF w
<1>5. Clocked(x, w) \in ChipType /\ Clocked(x, w).cell = x.cell /\ Clocked(x, w).wip = x.wip
      /\ Clocked(x, w).wel = x.wel
  BY <1>1, <1>2, ClockedIs
<1> HIDE DEF y
<1>6. y \in ChipType /\ y.cell = x.cell /\ y.wip = x.wip /\ ~y.wel
  BY <1>1, <1>3, <1>5, Zenon
<1>7. d.cell = y.cell /\ d.wip = y.wip
  BY <1>6, DeselectedKeeps, Zenon
<1> HIDE DEF d
<1>8. View(d) = View(x) /\ Keeps(d)
  BY <1>6, <1>7, SameView, Zenon
<1> QED
  BY <1>4, <1>8, Zenon DEF d, y

(* READ is Read.                                                              *)
LEMMA ReadShared ==
    ASSUME ShareOk, ~astray', NEW a \in Starts, NEW n \in ReadLens, ReadCmd(a, n)
    PROVE  ShareOk' /\ Access!Read(a, n)
<1> DEFINE p == IF a % 2 = 1 THEN 255 ELSE 0
           s == <<READ_DATA>> \o AddressBytes(a) \o [k \in 1 .. n |-> p]
<1>1. PICK to \in Chips :
        /\ Command(to, Deselected(SPI_WriteBytes(Routed(to)[to], s)))
        /\ mosi' = a % 2 /\ answer' = Flash_ReadSomeByte(Routed(to)[to], a, n)
  BY Zenon DEF ReadCmd
<1>0. a \in Nat /\ n \in Nat /\ p \in Int /\ a % 2 \in Bit
  BY SpiBusAssumption DEF Bit
<1> HIDE DEF p
<1>c. s \in Seq(Int) /\ Len(s) >= 2
  BY <1>0, ReadBytes, Zenon
<1> HIDE DEF s
<1> DEFINE x == Routed(to)[to]
           f == Deselected(SPI_WriteBytes(x, s))
           lost == x.bits # <<>>
           v == FlashOf(chip)
<1>2. Commanded(to)
  BY <1>1, CommandSeen, Zenon
<1>3. mosi' \in Bit /\ answer' = Flash_ReadSomeByte(x, a, n)
  BY <1>0, <1>1, Zenon
<1>a. Command(to, f)
  BY <1>1, Zenon
<1> HIDE DEF v
<1>4. Plain(x) /\ Keeps(x) /\ View(x) = v[to] /\ mux' = to
  BY <1>2, Zenon DEF Commanded, v
<1>b. lost \in LostOf(nss, unheard)
  BY <1>2, Zenon DEF Commanded
<1> HIDE DEF x
<1>5. Quiet(f) /\ View(f) = v[to] /\ Keeps(f)
  BY <1>4, <1>c, LongSeen, Zenon
<1> HIDE DEF f
<1>7. ShareOk' /\ FlashOf(chip') = [v EXCEPT ![to] = v[to]]
  BY <1>a, <1>3, <1>5, CommandShare, Zenon DEF v
<1>8. FlashOf(chip') = v
  BY <1>7, SameFlash, Zenon DEF v
<1>9. AnswerOf(answer') = Access!Flash_ReadSomeByte(v[mux'], a, n, lost)
  <2>1. ReadIs(x, a, n, Flash_ReadSomeByte(x, a, n))
    BY <1>0, <1>4, ReadSeen, Zenon
  <2> DEFINE q == Flash_ReadSomeByte(x, a, n)
  <2> HIDE DEF q
  <2>2. AnswerOf(q) = Access!Flash_ReadSomeByte(v[to], a, n, lost)
    BY <1>4, <2>1, Zenon DEF ReadIs, AnswerOf, q
  <2> QED
    BY <1>3, <1>4, <2>2, Zenon DEF q
<1> HIDE DEF lost
<1>10. Access!Read(a, n)
  BY <1>2, <1>8, <1>9, <1>b, ReadsAs, Zenon DEF v, Commanded
<1> QED
  BY <1>7, <1>10

(* The count of moves is not part of what was followed.                       *)
LEMMA FollowedSame ==
    ASSUME NEW m, NEW n, NEW c, n.job = m.job, n.place = m.place, n.low = m.low,
           n.bits = m.bits, Followed(m, c)
    PROVE  Followed(n, c)
  BY Zenon DEF Followed, Sampled

(* A step that does this is Route of FlashAccess.                             *)
LEMMA RoutesAs ==
    ASSUME mux' \in Chips, FlashOf(chip') = FlashOf(chip),
           NssOf(nss', unheard') = IF NssOf(nss, unheard) # "high" /\ mux' # mux
                                   THEN "unheard" ELSE NssOf(nss, unheard),
           JobOf(main'.job) = JobOf(main.job), GotOf(got') = GotOf(got),
           AnswerOf(answer') = AnswerOf(answer)
    PROVE  Access!Route
<1>1. Flash' = Flash
  BY FlashIs, Zenon
<1> QED
  BY <1>1, Zenon DEF Access!Route, NssOf, JobOf, GotOf, AnswerOf

(* The command that moves the routing is Route.                               *)
LEMMA RouteShared ==
    ASSUME ShareOk, ~astray', RouteCmd PROVE ShareOk' /\ Access!Route
<1>1. PICK to \in Chips : /\ mux' = to /\ chip' = Routed(to) /\ Counted(to)
                          /\ unheard' = (unheard \/ to # mux)
  BY Zenon DEF RouteCmd
<1>2. nss' = nss /\ got' = got /\ answer' = answer
  BY Zenon DEF RouteCmd
<1>3. /\ BusOk /\ Sound(chip) /\ unheard \in BOOLEAN
      /\ main.job # NoJob /\ nss = 1 => unheard
      /\ nss = 0 /\ ~unheard => Followed(main, chip[mux])
  BY Zenon DEF ShareOk
<1>4. BusOk'
  BY <1>3, RouteKeeps
<1>5. Moves(to) <= 1
  BY <1>1, <1>3, CountedOk, Zenon
<1>6. /\ main'.job = main.job /\ main'.place = main.place /\ main'.low = main.low
      /\ main'.bits = main.bits
  <2>1. main \in MainType
    BY <1>3, Zenon DEF BusOk, MainOk
  <2> DEFINE w == Moves(to)
  <2>2. main' = [main EXCEPT !.moves = w]
    BY <1>1, Zenon DEF Counted
  <2> HIDE DEF w
  <2> QED
    BY <2>1, <2>2 DEF MainType
<1>7. Moved(Routed(to), to)
  BY <1>5, RoutedShare, Zenon
<1>8. Sound(chip') /\ \A c \in Chips : View(chip'[c]) = View(chip[c])
  BY <1>1, <1>7, Zenon DEF Moved
<1>9. FlashOf(chip') = FlashOf(chip)
  BY <1>8, Zenon DEF FlashOf
<1>10. unheard' \in BOOLEAN
  BY <1>1
<1>11. ASSUME nss = 0, ~unheard' PROVE Followed(main', chip'[mux'])
  <2>1. to = mux /\ ~unheard
    BY <1>1, <1>11
  <2>2. chip' = chip /\ mux' = mux
    BY <1>1, <2>1, Zenon DEF Routed
  <2>3. Followed(main, chip[mux])
    BY <1>3, <1>11, <2>1, Zenon
  <2> QED
    BY <1>6, <2>2, <2>3, FollowedSame, Zenon
<1>12. main'.job # NoJob /\ nss' = 1 => unheard'
  BY <1>1, <1>2, <1>3, <1>6, Zenon
<1>13. ShareOk'
  BY <1>2, <1>4, <1>8, <1>10, <1>11, <1>12, Zenon DEF ShareOk
<1>14. NssOf(nss', unheard') = IF NssOf(nss, unheard) # "high" /\ mux' # mux
                               THEN "unheard" ELSE NssOf(nss, unheard)
  <2>1. CASE nss = 1
    BY <1>2, <2>1, Zenon DEF NssOf
  <2>2. CASE nss # 1 /\ to # mux
    <3>1. unheard' = TRUE
      BY <1>1, <2>2, <1>3
    <3>2. NssOf(nss, unheard) # "high"
      BY <2>2 DEF NssOf
    <3> QED
      BY <1>1, <1>2, <2>2, <3>1, <3>2, Zenon DEF NssOf
  <2>3. CASE nss # 1 /\ to = mux
    <3>1. unheard' = unheard
      BY <1>1, <2>3, <1>3
    <3> QED
      BY <1>1, <1>2, <2>3, <3>1, Zenon
  <2> QED
    BY <2>1, <2>2, <2>3
<1>15. Access!Route
  <2>1. JobOf(main'.job) = JobOf(main.job) /\ GotOf(got') = GotOf(got)
        /\ AnswerOf(answer') = AnswerOf(answer) /\ mux' \in Chips
    BY <1>1, <1>2, <1>6, Zenon
  <2> QED
    BY <1>9, <1>14, <2>1, RoutesAs, Zenon
<1> QED
  BY <1>13, <1>15

(* A step that does this is EraseDone of FlashAccess.                         *)
LEMMA ErasedAs ==
    ASSUME NEW c \in Chips, FlashOf(chip)[c].wip,
           FlashOf(chip') = [FlashOf(chip) EXCEPT ![c] = Access!Idle(@)],
           mux' = mux, NssOf(nss', unheard') = NssOf(nss, unheard),
           JobOf(main'.job) = JobOf(main.job), GotOf(got') = GotOf(got),
           AnswerOf(answer') = AnswerOf(answer)
    PROVE  Access!EraseDone
<1>1. Flash[c].wip /\ Flash' = [Flash EXCEPT ![c] = Access!Idle(@)]
  BY FlashIs, Zenon
<1> QED
  BY <1>1, Zenon DEF Access!EraseDone, NssOf, JobOf, GotOf, AnswerOf

(* The end of an erase is EraseDone; a chip that answers a read of the main   *)
(* loop has none.                                                             *)
LEMMA EraseDoneShared ==
    ASSUME ShareOk, EraseDone PROVE ShareOk' /\ Access!EraseDone
<1>1. PICK e \in Chips : chip[e].wip /\ chip' = [chip EXCEPT ![e] = Idle(@)]
  BY Zenon DEF EraseDone
<1>2. /\ mux' = mux /\ nss' = nss /\ main' = main /\ unheard' = unheard /\ got' = got
      /\ answer' = answer
  BY Zenon DEF EraseDone
<1>3. /\ BusOk /\ Sound(chip) /\ unheard \in BOOLEAN
      /\ main.job # NoJob /\ nss = 1 => unheard
      /\ nss = 0 /\ ~unheard => Followed(main, chip[mux])
  BY Zenon DEF ShareOk
<1>4. BusOk'
  BY <1>3, EraseDoneKeeps
<1> DEFINE x == chip[e]
           y == Idle(x)
<1>5. /\ chip \in [Chips -> ChipType] /\ Plain(x) /\ Keeps(x) /\ x \in ChipType
      /\ \A c \in Chips : Plain(chip[c]) /\ Keeps(chip[c])
  BY <1>3, Zenon DEF Sound, Plain
<1>a. chip' = [chip EXCEPT ![e] = y]
  BY <1>1, Zenon
<1>b. x.wip
  BY <1>1
<1> HIDE DEF x
<1>6. /\ y \in ChipType /\ y.wip = FALSE /\ y.wel = x.wel /\ y.bits = x.bits /\ y.deaf = x.deaf
      /\ View(y) = Access!Idle(View(x)) /\ Keeps(y)
  BY <1>5, IdleIs, IdleSeen, Zenon
<1> HIDE DEF y
<1>7. Plain(y)
  BY <1>5, <1>6, Zenon DEF Plain
<1>8. chip' \in [Chips -> ChipType] /\ \A c \in Chips : chip'[c] = IF c = e THEN y ELSE chip[c]
  BY <1>5, <1>6, <1>a
<1>9. Sound(chip')
  BY <1>5, <1>6, <1>7, <1>8, Zenon DEF Sound
<1>10. FlashOf(chip)[e] = View(x) /\ View(x).wip
  <2>1. View(x).wip = x.wip
    BY DEF View
  <2>2. FlashOf(chip)[e] = View(x)
    BY Zenon DEF FlashOf, x
  <2> QED
    BY <1>b, <2>1, <2>2, Zenon
<1>11. FlashOf(chip') = [FlashOf(chip) EXCEPT ![e] = Access!Idle(@)]
  <2> DEFINE g == Access!Idle(View(x))
  <2> HIDE DEF g
  <2>1. View(y) = g
    BY <1>6, Zenon DEF g
  <2>2. Updates(chip, chip, e, y, g)
    BY <1>5, <2>1, Replaced, Zenon
  <2>3. FlashOf(chip') = [FlashOf(chip) EXCEPT ![e] = g]
    BY <1>a, <2>2, Zenon DEF Updates
  <2> QED
    BY <1>10, <2>3, Zenon DEF g
<1>12. ASSUME nss = 0, ~unheard PROVE Followed(main, chip'[mux])
  <2>1. Followed(main, chip[mux]) /\ mux \in Chips
    BY <1>3, <1>12, Zenon DEF BusOk
  <2>2. CASE mux # e
    BY <1>8, <2>1, <2>2, Zenon
  <2>3. CASE mux = e
    <3>1. chip'[mux] = y /\ chip[mux] = x
      BY <1>8, <2>1, <2>3, Zenon DEF x
    <3>2. main.job = Status
      BY <1>b, <2>1, <3>1, Zenon DEF Followed
    <3>3. Sampled(main, y)
      BY <1>6, <2>1, <3>1, <3>2, Zenon DEF Followed, Sampled
    <3> QED
      BY <1>6, <2>1, <3>1, <3>2, <3>3, Zenon DEF Followed
  <2> QED
    BY <2>2, <2>3
<1>13. ShareOk'
  BY <1>2, <1>3, <1>4, <1>9, <1>12, Zenon DEF ShareOk
<1>14. Access!EraseDone
  <2>1. FlashOf(chip)[e].wip
    BY <1>10, Zenon
  <2>2. NssOf(nss', unheard') = NssOf(nss, unheard) /\ JobOf(main'.job) = JobOf(main.job)
        /\ GotOf(got') = GotOf(got) /\ AnswerOf(answer') = AnswerOf(answer)
    BY <1>2, Zenon
  <2> QED
    BY <1>2, <1>11, <2>1, <2>2, ErasedAs, Zenon
<1> QED
  BY <1>13, <1>14

(* The main loop's reads as FlashAccess names them.                           *)
LEMMA JobIs ==
    ASSUME NEW job \in Jobs
    PROVE  /\ job = Status => JobOf(job) = Status
           /\ job # Status => job \in Nat /\ JobOf(job) = job % FlashSize /\ JobOf(job) \in Address
           /\ JobOf(job) \in Address \cup {Status} /\ (JobOf(job) = Status => job = Status)
           /\ JobOf(job) # NoJob
<1>1. job = Status \/ job \in Nat
  BY SMT DEF Jobs
<1>2. CASE job = Status
  <2>1. ~(Status > 0) /\ Status # NoJob
    BY DEF Status, NoJob
  <2>2. JobOf(job) = Status
    BY <1>2, <2>1, Zenon DEF JobOf
  <2> QED
    BY <1>2, <2>1, <2>2
<1>3. CASE job # Status
  <2>1. job \in Nat /\ FlashSize \in Nat \ {0}
    BY <1>1, <1>3, Sizes
  <2>2. job % FlashSize \in 0 .. FlashSize - 1
    BY <2>1
  <2>3. JobOf(job) = job % FlashSize
    <3>1. CASE job > 0
      BY <3>1, Zenon DEF JobOf
    <3>2. CASE ~(job > 0)
      <4>1. job = 0
        BY <2>1, <3>2
      <4>2. 0 % FlashSize = 0
        BY <2>1
      <4> QED
        BY <3>2, <4>1, <4>2, Zenon DEF JobOf
    <3> QED
      BY <3>1, <3>2
  <2>4. JobOf(job) \in Address
    BY <2>2, <2>3, Zenon DEF Address
  <2>5. Status \notin Address /\ NoJob \notin Address
    BY <2>1 DEF Status, NoJob, Address
  <2> QED
    BY <1>3, <2>1, <2>3, <2>4, <2>5, Zenon
<1> QED
  BY <1>2, <1>3

(* A step that does this is Open of FlashAccess.                              *)
LEMMA OpensAs ==
    ASSUME JobOf(main.job) = NoJob, JobOf(main'.job) \in Address \cup {Status},
           NssOf(nss', unheard')
             = IF JobOf(main'.job) = Status \/ ~FlashOf(chip)[mux].wip THEN "low" ELSE "unheard",
           GotOf(got') = Nothing, AnswerOf(answer') = <<>>, mux' = mux,
           FlashOf(chip') = FlashOf(chip)
    PROVE  Access!Open
<1>1. Flash' = Flash
  BY FlashIs, Zenon
<1>2. NssOf(nss', unheard')
        = IF JobOf(main'.job) = Status \/ ~Flash[mux].wip THEN "low" ELSE "unheard"
  BY FlashIs, Zenon
<1> QED
  BY <1>1, <1>2, Zenon DEF Access!Open, Access!None, Access!Status, Access!Nothing,
     Access!Address, Address, Status, NoJob, Nothing, NssOf, JobOf, GotOf, AnswerOf

(* Selecting the chip is Open.                                                *)
LEMMA NssLowShared ==
    ASSUME ShareOk, NEW job \in Jobs, NssLow(job) PROVE ShareOk' /\ Access!Open
<1>1. /\ main.job = NoJob /\ nss' = 0 /\ unheard' = (job # Status /\ chip[mux].wip)
      /\ got' = Nothing /\ answer' = <<>> /\ main' = [Resting EXCEPT !.job = job]
      /\ mux' = mux /\ chip' = chip
  BY Zenon DEF NssLow
<1>2. BusOk /\ Sound(chip)
  BY Zenon DEF ShareOk
<1>3. BusOk'
  BY <1>2, NssLowKeeps, Zenon
<1>4. main'.job = job /\ main'.place = 0 /\ main'.low = FALSE /\ main'.bits = <<>>
  BY <1>1 DEF Resting
<1>5. mux \in Chips /\ nss = 1 /\ chip[mux].bits = <<>>
  <2>1. mux \in Chips /\ nss \in Bit /\ nss # 0
    BY <1>1, <1>2, Zenon DEF BusOk
  <2>2. nss = 1
    BY <2>1 DEF Bit
  <2> QED
    BY <1>2, <2>1, <2>2, Zenon DEF BusOk
<1>6. chip[mux] \in ChipType /\ ~chip[mux].deaf
  BY <1>2, <1>5, Zenon DEF Sound, Plain
<1>7. chip[mux].wip \in BOOLEAN /\ Len(chip[mux].bits) = 0
  BY <1>5, <1>6 DEF ChipType
<1>8. ASSUME ~unheard' PROVE Followed(main', chip'[mux'])
  <2>1. job # Status => ~chip[mux].wip
    BY <1>1, <1>7, <1>8
  <2> DEFINE w == Len(Written(job))
  <2>2. w \in Nat
    <3>1. w \in {8, 32}
      BY WrittenIs, Zenon
    <3> HIDE DEF w
    <3> QED
      BY <3>1
  <2> HIDE DEF w
  <2>3. 0 + 0 = 0 /\ 0 <= w /\ Len(<<>>) = 0 /\ 1 .. 0 = {}
    BY <2>2
  <2>4. Len(main'.bits) = 0
    BY <1>4, <2>3
  <2> DEFINE m == main'
  <2>5. m.job = job /\ m.place = 0 /\ m.low = FALSE /\ Len(m.bits) = 0
    BY <1>4, <2>4
  <2> HIDE DEF m
  <2>6. Sampled(m, chip[mux])
    BY <2>3, <2>5, Zenon DEF Sampled, w
  <2>7. \A i \in 1 .. 0 : chip[mux].bits[i] = Line(m.job, i)
    BY <2>3
  <2>8. Followed(m, chip[mux])
    BY <1>6, <1>7, <2>1, <2>5, <2>6, <2>7, Zenon DEF Followed
  <2> QED
    BY <1>1, <2>8, Zenon DEF m
<1>9. unheard' \in BOOLEAN
  BY <1>1
<1>10. nss' # 1
  BY <1>1
<1>11. ShareOk'
  BY <1>1, <1>2, <1>3, <1>8, <1>9, <1>10, Zenon DEF ShareOk
<1>12. JobOf(main.job) = NoJob
  <2>1. ~(NoJob > 0)
    BY DEF NoJob
  <2> QED
    BY <1>1, <2>1, Zenon DEF JobOf
<1>13. JobOf(main'.job) \in Address \cup {Status} /\ (JobOf(main'.job) = Status <=> job = Status)
  BY <1>4, JobIs, Zenon
<1>14. FlashOf(chip)[mux].wip = chip[mux].wip
  <2>1. FlashOf(chip)[mux] = View(chip[mux])
    BY <1>5, Zenon DEF FlashOf
  <2>2. View(chip[mux]).wip = chip[mux].wip
    BY DEF View
  <2> QED
    BY <2>1, <2>2, Zenon
<1>15. NssOf(nss', unheard')
         = IF JobOf(main'.job) = Status \/ ~FlashOf(chip)[mux].wip THEN "low" ELSE "unheard"
  <2>1. NssOf(nss', unheard') = IF unheard' THEN "unheard" ELSE "low"
    BY <1>10, Zenon DEF NssOf
  <2>2. unheard' <=> ~(job = Status \/ ~chip[mux].wip)
    BY <1>1, <1>7
  <2> QED
    BY <1>13, <1>14, <2>1, <2>2, Zenon
<1>16. GotOf(got') = Nothing
  <2>1. Nothing.job = NoJob /\ NoJob < 0
    BY DEF Nothing, NoJob
  <2> QED
    BY <1>1, <2>1, Zenon DEF GotOf
<1>17. AnswerOf(answer') = <<>>
  BY <1>1 DEF AnswerOf
<1>18. FlashOf(chip') = FlashOf(chip)
  BY <1>1, Zenon
<1>19. Access!Open
  BY <1>1, <1>12, <1>13, <1>15, <1>16, <1>17, <1>18, OpensAs, Zenon
<1> QED
  BY <1>11, <1>19

-----------------------------------------------------------------------------
(* The end of the main loop's transaction.                                    *)

(* Reading of FlashAccess, as a function of the bus.                          *)
ReadingOf(u, j, f, n) ==
    IF NssOf(n, u) # "low" THEN {Float}
    ELSE IF j = Status THEN {IF f.wip THEN 1 ELSE 0, 1} ELSE {f.cell[j]}

(* A step that does this is End of FlashAccess.                               *)
LEMMA EndsAs ==
    ASSUME NEW value, value \in ReadingOf(unheard, JobOf(main.job), FlashOf(chip)[mux], nss),
           GotOf(got') = [job |-> JobOf(main.job), value |-> value],
           JobOf(main.job) # NoJob, JobOf(main'.job) = NoJob, NssOf(nss', unheard') = "high",
           AnswerOf(answer') = AnswerOf(answer), mux' = mux, FlashOf(chip') = FlashOf(chip)
    PROVE  Access!End
<1>1. Flash' = Flash
  BY FlashIs, Zenon
<1>2. value \in ReadingOf(unheard, JobOf(main.job), Flash[mux], nss)
  BY FlashIs, Zenon
<1>3. value \in Access!Reading
  BY <1>2, Zenon DEF ReadingOf, Access!Reading, Access!Wip, Access!Status, Status, NssOf, JobOf
<1>4. GotOf(got') = [job |-> JobOf(main.job), value |-> value]
  OBVIOUS
<1> QED
  BY <1>1, <1>3, <1>4, Zenon DEF Access!End, Access!None, NoJob, NssOf, JobOf, GotOf, AnswerOf

(* What the eight bits of the main loop's transaction tell.                   *)
Told(m, c, byte) ==
    /\ byte # Float
    /\ m.job = Status => byte % 2 \in {IF c.wip THEN 1 ELSE 0, 1}
    /\ m.job # Status => byte = c.cell[m.job % FlashSize]

(* Bits that are driven make a byte; its last bit tells if it is odd.         *)
LEMMA LastBit ==
    ASSUME NEW x, \A i \in 1 .. 8 : x[i] \in Bit
    PROVE  Value(x, 1) \in Byte /\ Value(x, 1) % 2 = x[8]
<1> DEFINE v == Value(x, 1)
<1>1. \A k \in 1 .. 1 + 7 : x[k] \in Bit
  OBVIOUS
<1>2. v \in Byte
  <2>1. 1 \in Int
    OBVIOUS
  <2> QED
    BY <1>1, <2>1, ValueIn, Zenon
<1>3. 8 \in 1 .. 8 /\ 2 ^ (8 - 8) = 1
  OBVIOUS
<1>4. Bits(v)[8] = x[8]
  BY <1>3, BitsOfValue, Zenon
<1> HIDE DEF v
<1>5. Bits(v)[8] = v % 2
  BY <1>2 DEF Bits, Byte
<1> QED
  BY <1>2, <1>4, <1>5, Zenon DEF v

(* They tell what the chip holds, or a busy bit it had.                       *)
LEMMA DoneTells ==
    ASSUME NEW m \in MainType, m.job # NoJob, m.place = Len(Written(m.job)) + 8, ~m.low,
           NEW c, c \in ChipType, Sampled(m, c)
    PROVE  Told(m, c, ByteRead(m.bits))
<1> DEFINE j == m.job
           w == Len(Written(j))
           x == m.bits
<1>1. j \in Jobs /\ x \in Seq(Bit \cup {Float})
  BY DEF MainType
<1>2. w \in {8, 32}
  BY <1>1, WrittenIs, Zenon
<1>3. m.place = w + 8 /\ ~m.low
  OBVIOUS
<1> DEFINE n == m.place + (IF m.low THEN 1 ELSE 0)
<1>4. Len(x) = (IF n <= w THEN 0 ELSE n - w)
      /\ \A k \in 1 .. Len(x) :
            IF j = Status THEN x[k] \in Bit /\ (k = 8 /\ c.wip => x[k] = 1)
            ELSE x[k] = Bits(c.cell[j % FlashSize])[k]
  BY Zenon DEF Sampled
<1> HIDE DEF w, x
<1>a. n = w + 8
  <2>1. n = (w + 8) + 0
    BY <1>3, Zenon
  <2>2. (w + 8) + 0 = w + 8
    BY <1>2
  <2> QED
    BY <2>1, <2>2, Zenon
<1> HIDE DEF n
<1>b. ~(n <= w) /\ n - w = 8
  BY <1>2, <1>a
<1>5. Len(x) = 8
  BY <1>4, <1>b, Zenon
<1>6. x = [i \in 1 .. 8 |-> x[i]]
  BY <1>1, <1>5
<1>7. \A k \in 1 .. 8 : IF j = Status THEN x[k] \in Bit /\ (k = 8 /\ c.wip => x[k] = 1)
                        ELSE x[k] = Bits(c.cell[j % FlashSize])[k]
  BY <1>4, <1>5, Zenon
<1> HIDE DEF j
<1>8. \A b \in Byte : (\A i \in 1 .. 8 : x[i] = Bits(b)[i]) => ByteRead(x) = b
  BY <1>6, ByteReadIs
<1>9. Float \notin Byte
  BY DEF Float, Byte
<1>10. CASE j = Status
  <2>1. \A k \in 1 .. 8 : x[k] \in Bit /\ (k = 8 /\ c.wip => x[k] = 1)
    BY <1>7, <1>10, Zenon
  <2>2. Value(x, 1) \in Byte /\ Value(x, 1) % 2 = x[8]
    BY <2>1, LastBit, Zenon
  <2>3. ~Contains(x, Float)
    <3>1. Float \notin Bit
      BY DEF Float, Bit
    <3> QED
      BY <1>5, <2>1, <3>1, Zenon DEF Contains
  <2>4. ByteRead(x) = Value(x, 1)
    BY <2>3, Zenon DEF ByteRead
  <2>5. 8 \in 1 .. 8
    OBVIOUS
  <2>6. x[8] \in {IF c.wip THEN 1 ELSE 0, 1}
    <3>1. x[8] \in Bit /\ (c.wip => x[8] = 1)
      BY <2>1, <2>5, Zenon
    <3> QED
      BY <3>1 DEF Bit
  <2> DEFINE b == ByteRead(x)
  <2>7. b \in Byte /\ b % 2 \in {IF c.wip THEN 1 ELSE 0, 1}
    BY <2>2, <2>4, <2>6
  <2>8. b # Float
    BY <1>9, <2>7, Zenon
  <2> HIDE DEF b
  <2>9. Told(m, c, b)
    BY <1>10, <2>7, <2>8, Zenon DEF Told, j
  <2> QED
    BY <2>9, Zenon DEF b, x
<1>11. CASE j # Status
  <2> DEFINE y == c.cell[j % FlashSize]
  <2>1. j % FlashSize \in Address
    BY <1>1, <1>11, JobIs, Zenon
  <2>2. y \in Byte
    BY <2>1 DEF ChipType
  <2>3. \A i \in 1 .. 8 : x[i] = Bits(y)[i]
    BY <1>7, <1>11, Zenon
  <2> HIDE DEF y
  <2>4. ByteRead(x) = y /\ y # Float
    BY <1>8, <1>9, <2>2, <2>3, Zenon
  <2>5. Told(m, c, ByteRead(x))
    BY <1>11, <2>4, Zenon DEF Told, y, j
  <2> QED
    BY <2>5, Zenon DEF x
<1> QED
  BY <1>10, <1>11

(* What the main loop gets, as FlashAccess names it.                          *)
LEMMA GotTold ==
    ASSUME NEW j \in Jobs, NEW v, NEW g, g = [job |-> j, value |-> v]
    PROVE  GotOf(g) = [job |-> JobOf(j), value |-> IF j = Status THEN v ELSE Known(v)]
<1>1. g.job = j /\ g.value = v
  OBVIOUS
<1>2. CASE j = Status
  <2>1. Status < 0
    BY DEF Status
  <2>2. JobOf(j) = Status
    BY <1>2, JobIs, Zenon
  <2> QED
    BY <1>1, <1>2, <2>1, <2>2, Zenon DEF GotOf
<1>3. CASE j # Status
  <2>1. j \in Nat /\ JobOf(j) = j % FlashSize
    BY <1>3, JobIs, Zenon
  <2>2. ~(j < 0)
    BY <2>1
  <2> QED
    BY <1>1, <1>3, <2>1, <2>2, Zenon DEF GotOf
<1> QED
  BY <1>2, <1>3

(* Deselecting the chip is End.                                               *)
LEMMA NssHighShared ==
    ASSUME ShareOk, NssHigh PROVE ShareOk' /\ Access!End
<1> DEFINE b == ByteRead(main.bits)
           j == main.job
           x == chip[mux]
           v == IF unheard \/ b = Float THEN Float ELSE IF j = Status THEN b % 2 ELSE b
<1>1. /\ main.job # NoJob /\ ~main.low /\ Done /\ nss' = 1 /\ main' = Resting
      /\ chip' = IF nss = 0 THEN [chip EXCEPT ![mux] = Deselected(@)] ELSE chip
      /\ mux' = mux /\ unheard' = unheard /\ answer' = answer
  BY Zenon DEF NssHigh
<1>2. got' = [job |-> j, value |-> v]
  BY Zenon DEF NssHigh
<1>3. /\ BusOk /\ Sound(chip) /\ unheard \in BOOLEAN
      /\ main.job # NoJob /\ nss = 1 => unheard
      /\ nss = 0 /\ ~unheard => Followed(main, chip[mux])
  BY Zenon DEF ShareOk
<1>4. BusOk'
  BY <1>3, NssHighKeeps
<1>5. mux \in Chips /\ nss \in Bit /\ main \in MainType
  BY <1>3, Zenon DEF BusOk, MainOk
<1>6. j \in Jobs
  BY <1>1, <1>5 DEF MainType
<1>7. /\ chip \in [Chips -> ChipType] /\ Plain(x) /\ Keeps(x) /\ x \in ChipType
      /\ \A c \in Chips : Plain(chip[c]) /\ Keeps(chip[c])
  BY <1>3, <1>5, Zenon DEF Sound, Plain
<1>8. main'.job = NoJob
  BY <1>1 DEF Resting
<1>9. Sound(chip') /\ FlashOf(chip') = FlashOf(chip)
  <2>1. CASE nss # 0
    <3>1. chip' = chip
      BY <1>1, <2>1, Zenon
    <3> QED
      BY <1>3, <3>1, Zenon
  <2>2. CASE nss = 0
    <3> DEFINE d == Deselected(x)
               s == [chip EXCEPT ![mux] = d]
    <3>1. chip' = s
      BY <1>1, <2>2, Zenon
    <3>2. s[mux] = d /\ \A c \in Chips : c # mux => s[c] = chip[c]
      BY <1>5, <1>7
    <3>3. ~d.wel /\ s \in [Chips -> ChipType]
      <4>1. ~chip'[mux].wel /\ chip' \in [Chips -> ChipType]
        BY <1>1, <1>4, <1>5, Zenon DEF BusOk
      <4> HIDE DEF s
      <4> QED
        BY <3>1, <3>2, <4>1, Zenon
    <3> HIDE DEF x
    <3>4. Quiet(d) /\ Keeps(d) /\ View(d) = View(x)
      BY <1>7, <3>3, DeselectedSound, Zenon
    <3>5. Plain(d)
      BY <3>4, QuietIsPlain, Zenon
    <3> HIDE DEF d, s
    <3>6. Sound(s)
      BY <1>7, <3>2, <3>3, <3>4, <3>5, Zenon DEF Sound
    <3>7. \A c \in Chips : View(s[c]) = View(chip[c])
      BY <3>2, <3>4, Zenon DEF x
    <3>8. FlashOf(s) = FlashOf(chip)
      BY <3>7, Zenon DEF FlashOf
    <3> QED
      BY <3>1, <3>6, <3>8, Zenon
  <2> QED
    BY <2>1, <2>2
<1>10. nss' # 0
  BY <1>1
<1>11. ShareOk'
  BY <1>1, <1>3, <1>4, <1>8, <1>9, <1>10, Zenon DEF ShareOk
<1>12. GotOf(got') = [job |-> JobOf(j), value |-> IF j = Status THEN v ELSE Known(v)]
  <2> HIDE DEF v
  <2> QED
    BY <1>2, <1>6, GotTold, Zenon
<1>13. FlashOf(chip)[mux] = View(x)
  BY <1>5, Zenon DEF FlashOf
<1>14. View(x).wip = x.wip /\ \A a \in Address : View(x).cell[a] = Known(x.cell[a])
  BY DEF View
<1>15. (IF j = Status THEN v ELSE Known(v))
         \in ReadingOf(unheard, JobOf(j), FlashOf(chip)[mux], nss)
  <2>0. Known(Float) = Float
    BY Zenon DEF Known
  <2>1. CASE unheard
    <3>1. v = Float
      BY <2>1, Zenon
    <3>2. NssOf(nss, unheard) # "low"
      BY <2>1 DEF NssOf
    <3>3. (IF j = Status THEN v ELSE Known(v)) = Float
      BY <2>0, <3>1, Zenon
    <3>4. ReadingOf(unheard, JobOf(j), FlashOf(chip)[mux], nss) = {Float}
      BY <3>2, Zenon DEF ReadingOf
    <3> HIDE DEF v
    <3> QED
      BY <3>3, <3>4
  <2>2. CASE ~unheard
    <3>1. nss = 0
      BY <1>1, <1>3, <1>5, <2>2 DEF Bit
    <3>2. NssOf(nss, unheard) = "low"
      BY <2>2, <3>1 DEF NssOf
    <3>3. Sampled(main, x)
      BY <1>3, <2>2, <3>1, Zenon DEF Followed
    <3>4. main.place = Len(Written(main.job)) + 8
      BY <1>1, Zenon DEF Done
    <3> HIDE DEF x
    <3>5. Told(main, x, b)
      BY <1>1, <1>5, <1>7, <3>3, <3>4, DoneTells, Zenon
    <3> HIDE DEF b
    <3>6. /\ b # Float /\ (j = Status => b % 2 \in {IF x.wip THEN 1 ELSE 0, 1})
          /\ j # Status => b = x.cell[j % FlashSize]
      BY <3>5, Zenon DEF Told
    <3>7. CASE j = Status
      <4>1. v = b % 2
        BY <2>2, <3>6, <3>7, Zenon
      <4>2. JobOf(j) = Status
        BY <1>6, <3>7, JobIs, Zenon
      <4>3. ReadingOf(unheard, JobOf(j), FlashOf(chip)[mux], nss) = {IF x.wip THEN 1 ELSE 0, 1}
        BY <1>13, <1>14, <3>2, <4>2, Zenon DEF ReadingOf
      <4> HIDE DEF v
      <4> QED
        BY <3>6, <3>7, <4>1, <4>3, Zenon
    <3>8. CASE j # Status
      <4>1. v = b
        BY <2>2, <3>6, <3>8, Zenon
      <4>2. JobOf(j) = j % FlashSize /\ JobOf(j) \in Address /\ JobOf(j) # Status
        BY <1>6, <3>8, JobIs, Zenon
      <4>3. ReadingOf(unheard, JobOf(j), FlashOf(chip)[mux], nss)
              = {FlashOf(chip)[mux].cell[JobOf(j)]}
        BY <3>2, <4>2, Zenon DEF ReadingOf
      <4>4. FlashOf(chip)[mux].cell[JobOf(j)] = Known(v)
        BY <1>13, <1>14, <3>6, <3>8, <4>1, <4>2, Zenon
      <4> HIDE DEF v
      <4> QED
        BY <3>8, <4>3, <4>4
    <3> QED
      BY <3>7, <3>8
  <2> QED
    BY <1>3, <2>1, <2>2
<1> HIDE DEF v
<1>16. JobOf(main.job) # NoJob
  BY <1>6, JobIs, Zenon
<1>17. JobOf(main'.job) = NoJob
  <2>1. ~(NoJob > 0)
    BY DEF NoJob
  <2> QED
    BY <1>8, <2>1, Zenon DEF JobOf
<1>18. NssOf(nss', unheard') = "high" /\ AnswerOf(answer') = AnswerOf(answer)
  BY <1>1, Zenon DEF NssOf
<1> DEFINE y == IF j = Status THEN v ELSE Known(v)
<1> HIDE DEF y
<1>19. y \in ReadingOf(unheard, JobOf(main.job), FlashOf(chip)[mux], nss)
       /\ GotOf(got') = [job |-> JobOf(main.job), value |-> y]
  BY <1>12, <1>15, Zenon DEF y
<1>20. Access!End
  BY <1>1, <1>9, <1>16, <1>17, <1>18, <1>19, EndsAs, Zenon
<1> QED
  BY <1>11, <1>20

-----------------------------------------------------------------------------
(* The clock of the main loop's transaction: nothing that FlashAccess sees.   *)

(* The bit a chip that followed answers the main loop.                        *)
Sample(j, x, k, b) ==
    IF j = Status THEN b \in Bit /\ (k = 8 /\ x.wip => b = 1)
    ELSE b = Bits(x.cell[j % FlashSize])[k]

(* A chip that heard the read of its status register answers its busy bit     *)
(* last.                                                                      *)
LEMMA StatusBit ==
    ASSUME NEW x, x.bits \in Seq(Bit), x.wip \in BOOLEAN, ~x.wel, NEW k \in 1 .. 8,
           Len(x.bits) = 8 + (k - 1), Value(x.bits, 1) = READ_SR
    PROVE  Miso(x) \in Bit /\ (k = 8 /\ x.wip => Miso(x) = 1)
<1> DEFINE n == Len(x.bits)
           v == (IF x.wip THEN 1 ELSE 0) + (IF x.wel THEN 2 ELSE 0)
<1>1. n \in Nat /\ ~(n < 8) /\ (n % 8) + 1 = k
  OBVIOUS
<1>2. v = IF x.wip THEN 1 ELSE 0
  OBVIOUS
<1>3. Opcode(x) = READ_SR
  BY <1>1, Zenon DEF Opcode
<1>4. Miso(x) = Bits(v)[(n % 8) + 1]
  BY <1>3, Zenon DEF Miso
<1> HIDE DEF n
<1>a. Miso(x) = Bits(v)[k]
  BY <1>1, <1>4, Zenon
<1> HIDE DEF v
<1>5. v \in Int /\ (x.wip => v = 1)
  BY <1>2
<1>6. Bits(v)[k] \in Bit
  BY <1>5, BitsIn, Zenon
<1>7. k = 8 /\ x.wip => Bits(v)[k] = 1
  <2> SUFFICES ASSUME k = 8, x.wip PROVE Bits(v)[k] = 1
    OBVIOUS
  <2>1. v = 1
    BY <1>5
  <2>2. Bits(1)[8] = 1
    BY DEF Bits
  <2> QED
    BY <2>1, <2>2, Zenon
<1> QED
  BY <1>a, <1>6, <1>7, Zenon

(* The bits of the main loop's Flash_ReadSR are that.                         *)
LEMMA StatusHeard ==
    ASSUME NEW b, \A i \in 1 .. 8 : b[i] = Line(Status, i)
    PROVE  Len(Written(Status)) = 8 /\ Value(b, 1) = READ_SR
<1> DEFINE s == <<READ_SR>>
           w == Len(Written(Status))
<1>1. s \in Seq(Int) /\ Len(s) = 1 /\ s[1] = READ_SR /\ READ_SR \in Byte
  BY DEF READ_SR, Byte
<1> HIDE DEF s
<1>2. Written(Status) = AllBits(s)
  BY Zenon DEF Written, s
<1>3. w = 8
  <2>1. Len(AllBits(s)) = 8 * Len(s)
    BY <1>1, AllBitsIn, Zenon
  <2>2. w = Len(AllBits(s))
    BY <1>2, Zenon
  <2> HIDE DEF w
  <2> QED
    BY <1>1, <2>1, <2>2
<1>4. ASSUME NEW i \in 1 .. 8 PROVE b[i] = AllBits(s)[i]
  <2>1. i \in Nat /\ i >= 1 /\ i <= w /\ Status \in Jobs
    BY <1>3 DEF Jobs
  <2>2. Line(Status, i) = Written(Status)[i]
    BY <2>1, LineIs, Zenon
  <2> QED
    BY <1>2, <2>2, Zenon
<1>5. 1 \in 1 .. Len(s) /\ 8 * 1 - 7 = 1 /\ \A i \in 1 .. 8 : 8 * 1 - 8 + i = i
  BY <1>1
<1>6. \A i \in 1 .. 8 : b[8 * 1 - 8 + i] = AllBits(s)[8 * 1 - 8 + i]
  BY <1>4, <1>5, Zenon
<1>7. s[1] \in Byte
  BY <1>1
<1>8. Value(b, 8 * 1 - 7) = s[1]
  BY <1>1, <1>5, <1>6, <1>7, ByteAt, Zenon
<1> QED
  BY <1>1, <1>3, <1>5, <1>8, Zenon

(* The bit the main loop samples next.                                        *)
LEMMA NextSample ==
    ASSUME NEW j \in Jobs, NEW p \in Nat, p >= Len(Written(j)), p < Len(Written(j)) + 8,
           NEW x \in ChipType, ~x.wel, ~x.deaf, Len(x.bits) = p,
           \A i \in 1 .. p : x.bits[i] = Line(j, i)
    PROVE  Sample(j, x, p + 1 - Len(Written(j)), Miso(x))
<1> DEFINE w == Len(Written(j))
           k == p + 1 - w
           b == x.bits
<1>0. w \in {8, 32}
  BY WrittenIs, Zenon
<1>1. p >= w /\ p < w + 8 /\ w \in Nat /\ b \in Seq(Bit) /\ x.wip \in BOOLEAN
  <2> HIDE DEF w
  <2>1. w \in Nat
    BY <1>0
  <2>2. b \in Seq(Bit) /\ x.wip \in BOOLEAN
    BY DEF ChipType
  <2>3. p >= w /\ p < w + 8
    BY Zenon DEF w
  <2> QED
    BY <2>1, <2>2, <2>3
<1>2. ASSUME NEW i \in 1 .. w PROVE b[i] = Written(j)[i]
  <2>1. i \in Nat /\ i >= 1 /\ i <= w /\ i \in 1 .. p
    <3> HIDE DEF w, b
    <3> QED
      BY <1>1
  <2>2. Line(j, i) = Written(j)[i]
    BY <2>1, LineIs, Zenon
  <2> QED
    BY <2>1, <2>2, Zenon
<1>3. CASE j = Status
  <2>1. ASSUME NEW i \in 1 .. 8 PROVE i \in 1 .. p
    <3> HIDE DEF w, b
    <3> QED
      BY <1>0, <1>1
  <2>2. \A i \in 1 .. 8 : b[i] = Line(Status, i)
    BY <1>3, <2>1, Zenon
  <2>3. w = 8
    BY <1>3, <2>2, StatusHeard, Zenon
  <2>4. Value(b, 1) = READ_SR
    BY <2>2, StatusHeard, Zenon
  <2> HIDE DEF w, b
  <2>5. k \in 1 .. 8 /\ p = 8 + (k - 1)
    BY <1>1, <2>3
  <2> HIDE DEF k
  <2>6. Len(x.bits) = 8 + (k - 1) /\ x.bits \in Seq(Bit)
    BY <1>1, <2>5, Zenon DEF b
  <2>7. Miso(x) \in Bit /\ (k = 8 /\ x.wip => Miso(x) = 1)
    BY <1>1, <2>4, <2>5, <2>6, StatusBit, Zenon DEF b
  <2> QED
    BY <1>3, <2>7, Zenon DEF Sample, k, w
<1>4. CASE j # Status
  <2> DEFINE s == <<READ_DATA>> \o AddressBytes(j)
  <2>1. j \in Nat
    BY <1>4, JobIs, Zenon
  <2>2. Headed(s, READ_DATA, j) /\ Len(s) = 4
    <3>1. READ_DATA \in Byte
      BY DEF READ_DATA, Byte
    <3> QED
      BY <2>1, <3>1, Head4, Zenon
  <2>3. Written(j) = AllBits(s)
    BY <1>4, Zenon DEF Written
  <2> HIDE DEF s
  <2>4. s \in Seq(Int)
    BY <2>2, Zenon DEF Headed
  <2>5. w = 32
    <3>1. Len(AllBits(s)) = 8 * Len(s)
      BY <2>4, AllBitsIn, Zenon
    <3>2. w = Len(AllBits(s))
      BY <2>3, Zenon
    <3> HIDE DEF w
    <3> QED
      BY <2>2, <3>1, <3>2
  <2> HIDE DEF w
  <2>6. Hears(x, s)
    BY <1>2, <2>3, <2>5, Zenon DEF Hears
  <2>7. k \in 1 .. 8 /\ p = 32 + 8 * 0 + (k - 1)
    BY <1>1, <2>5
  <2> HIDE DEF k
  <2>8. Len(x.bits) = 32 + 8 * 0 + (k - 1) /\ x.bits \in Seq(Bit) /\ 0 \in Nat
    BY <1>1, <2>7
  <2> HIDE DEF b
  <2>9. Answers(x, j, 0, k)
    BY <2>1, <2>2, <2>6, <2>7, <2>8, MisoReads, Zenon
  <2>10. j + 0 = j
    BY <2>1
  <2>11. Miso(x) = Bits(x.cell[j % FlashSize])[k]
    BY <2>9, <2>10, Zenon DEF Answers
  <2> QED
    BY <1>4, <2>11, Zenon DEF Sample, k, w
<1> QED
  BY <1>3, <1>4

(* A chip decides once, at the eighth bit, whether it listens.                *)
LEMMA ClockedDeaf ==
    ASSUME NEW c \in ChipType, NEW bits \in Seq(Bit),
           ~(Len(c.bits) < 8 /\ Len(c.bits \o bits) >= 8)
    PROVE  Clocked(c, bits).deaf = c.deaf
<1> DEFINE b == c.bits \o bits
           x == [c EXCEPT !.bits = b]
           decoded == Len(c.bits) < 8 /\ Len(x.bits) >= 8
           heard == IF decoded THEN c.wip /\ Opcode(x) # READ_SR ELSE c.deaf
           d == Clocked(c, bits)
<1>0. b \in Seq(Bit) /\ ~(Len(c.bits) < 8 /\ Len(b) >= 8)
  BY DEF ChipType
<1>1. x \in ChipType /\ x.bits = b /\ x.deaf = c.deaf
  BY <1>0 DEF ChipType
<1>3. d = [x EXCEPT !.deaf = heard]
  BY <1>1, Zenon DEF Clocked
<1>4. heard = c.deaf
  BY <1>0, <1>1, Zenon
<1> HIDE DEF x, heard, d
<1>5. d.deaf = heard
  BY <1>1, <1>3 DEF ChipType
<1> QED
  BY <1>4, <1>5, Zenon DEF d

(* The number of bits sampled after q rising or begun clocks, and the bits.   *)
Tally(e, q, w, j, c) ==
    /\ Len(e) = IF q <= w THEN 0 ELSE q - w
    /\ \A k \in 1 .. Len(e) : Sample(j, c, k, e[k])
Clocks(m) == m.place + (IF m.low THEN 1 ELSE 0)

(* What was sampled, counted so.                                              *)
LEMMA SampledIs ==
    ASSUME NEW m, NEW c
    PROVE  Sampled(m, c) <=> Tally(m.bits, Clocks(m), Len(Written(m.job)), m.job, c)
  BY Zenon DEF Sampled, Sample, Tally, Clocks

(* The clocks begun.                                                          *)
LEMMA ClocksIs ==
    ASSUME NEW m, NEW p \in Nat, m.place = p, m.low \in BOOLEAN
    PROVE  Clocks(m) = IF m.low THEN p + 1 ELSE p
<1>1. CASE m.low
  BY <1>1, Zenon DEF Clocks
<1>2. CASE ~m.low
  <2>1. Clocks(m) = p + 0
    BY <1>2, Zenon DEF Clocks
  <2> QED
    BY <1>2, <2>1
<1> QED
  BY <1>1, <1>2

(* A falling edge, with its sample, leaves the chip in step with the main     *)
(* loop.                                                                      *)
LEMMA LowFollows ==
    ASSUME NEW m \in MainType, m.job \in Jobs, ~m.low, m.place < Len(Written(m.job)) + 8,
           NEW x \in ChipType, ~x.wel, Followed(m, x),
           NEW n, n.job = m.job, n.place = m.place, n.low = TRUE,
           n.bits = IF m.place < Len(Written(m.job)) THEN m.bits ELSE Append(m.bits, Miso(x))
    PROVE  Followed(n, x)
<1> DEFINE j == m.job
           w == Len(Written(j))
           p == m.place
           b == m.bits
           e == n.bits
           o == Miso(x)
<1>1. w \in Nat /\ p \in Nat /\ b \in Seq(Bit \cup {Float}) /\ j \in Jobs
  <2>1. w \in {8, 32}
    BY WrittenIs, Zenon
  <2> HIDE DEF w
  <2> QED
    BY <2>1 DEF MainType
<1>3. Clocks(m) = p
  <2>1. m.low \in BOOLEAN
    BY DEF MainType
  <2> QED
    BY <1>1, <2>1, ClocksIs, Zenon
<1>2. Tally(b, p, w, j, x)
  <2>1. Sampled(m, x)
    BY Zenon DEF Followed
  <2>2. Tally(m.bits, Clocks(m), Len(Written(m.job)), m.job, x)
    BY <2>1, SampledIs, Zenon
  <2> QED
    BY <1>3, <2>2, Zenon
<1>b. Len(b) = (IF p <= w THEN 0 ELSE p - w) /\ \A k \in 1 .. Len(b) : Sample(j, x, k, b[k])
  BY <1>2, Zenon DEF Tally
<1>4. e = (IF p < w THEN b ELSE Append(b, o)) /\ p < w + 8
  OBVIOUS
<1>5. o \in Bit \cup {Float}
  BY MisoIn, Zenon
<1>6. /\ Len(x.bits) = p /\ ~x.deaf /\ (j # Status => ~x.wip)
      /\ \A i \in 1 .. p : x.bits[i] = Line(j, i)
  BY Zenon DEF Followed
<1> HIDE DEF o
<1>7. p >= w => Sample(j, x, p + 1 - w, o)
  BY <1>1, <1>4, <1>6, NextSample, Zenon DEF o
<1> HIDE DEF w, p, b, e, j
<1> DEFINE q == p + 1
<1>8. Len(e) = (IF q <= w THEN 0 ELSE q - w) /\ \A k \in 1 .. Len(e) : Sample(j, x, k, e[k])
  <2>1. CASE p < w
    <3>1. e = b /\ Len(b) = 0 /\ p + 1 <= w
      BY <1>1, <1>b, <1>4, <2>1
    <3> QED
      BY <1>b, <3>1, Zenon
  <2>2. CASE ~(p < w)
    <3>1. e = Append(b, o) /\ Len(b) = p - w /\ ~(p + 1 <= w)
      BY <1>1, <1>b, <1>4, <2>2
    <3>2. /\ Len(e) = Len(b) + 1 /\ e[Len(b) + 1] = o
          /\ \A k \in 1 .. Len(b) : e[k] = b[k]
      BY <1>1, <1>5, <3>1
    <3>3. Len(e) = p + 1 - w /\ Len(b) + 1 = p + 1 - w /\ Len(b) \in Nat
      BY <1>1, <2>2, <3>1, <3>2
    <3>4. ASSUME NEW k \in 1 .. Len(e) PROVE Sample(j, x, k, e[k])
      <4>1. CASE k = Len(b) + 1
        <5>1. p >= w
          BY <1>1, <2>2
        <5> QED
          BY <1>7, <3>2, <3>3, <4>1, <5>1, Zenon
      <4>2. CASE k # Len(b) + 1
        <5>1. k \in 1 .. Len(b)
          BY <3>2, <3>3, <4>2
        <5> QED
          BY <1>b, <3>2, <5>1, Zenon
      <4> QED
        BY <4>1, <4>2
    <3>7. (p + 1) - w = p + 1 - w
      BY <1>1
    <3>6. ~(q <= w) /\ Len(e) = q - w
      BY <3>1, <3>3, <3>7, Zenon
    <3> HIDE DEF q
    <3>5. Len(e) = (IF q <= w THEN 0 ELSE q - w)
      BY <3>6, Zenon
    <3> QED
      BY <3>4, <3>5, Zenon
  <2> QED
    BY <2>1, <2>2
<1>9. n.low = TRUE /\ n.place = p /\ n.job = j /\ n.bits = e
  BY Zenon DEF p, j, e
<1>10. Sampled(n, x)
  <2>1. Clocks(n) = q
    BY <1>1, <1>9, ClocksIs, Zenon
  <2> HIDE DEF q
  <2>2. Tally(e, q, w, j, x)
    BY <1>8, Zenon DEF Tally
  <2>3. Tally(n.bits, Clocks(n), Len(Written(n.job)), n.job, x)
    BY <1>9, <2>1, <2>2, Zenon DEF w
  <2> QED
    BY <2>3, SampledIs, Zenon
<1> QED
  BY <1>6, <1>9, <1>10, Zenon DEF Followed

(* So does a rising edge.                                                     *)
LEMMA HighFollows ==
    ASSUME NEW m \in MainType, m.job \in Jobs, m.low = TRUE, NEW x \in ChipType, Followed(m, x),
           NEW o \in Bit, o = Line(m.job, m.place + 1), NEW y, y = Clocked(x, <<o>>),
           NEW n, n.job = m.job, n.place = m.place + 1, n.low = FALSE, n.bits = m.bits
    PROVE  Followed(n, y)
<1> DEFINE j == m.job
           p == m.place
           b == x.bits
           e == b \o <<o>>
<1>1. p \in Nat /\ b \in Seq(Bit) /\ <<o>> \in Seq(Bit) /\ j \in Jobs
  BY DEF MainType, ChipType
<1>2. /\ Len(b) = p /\ ~x.deaf /\ (j # Status => ~x.wip) /\ Sampled(m, x)
      /\ \A i \in 1 .. p : b[i] = Line(j, i)
  BY Zenon DEF Followed
<1>3. /\ Clocked(x, <<o>>).bits = e /\ Clocked(x, <<o>>).cell = x.cell
      /\ Clocked(x, <<o>>).wip = x.wip
      /\ Len(b) < 8 /\ Len(Clocked(x, <<o>>).bits) >= 8 =>
            Clocked(x, <<o>>).deaf = (x.wip /\ Value(Clocked(x, <<o>>).bits, 1) # READ_SR)
  BY <1>1, ClockedIs
<1>4. /\ y.bits = e /\ y.cell = x.cell /\ y.wip = x.wip
      /\ Len(b) < 8 /\ Len(e) >= 8 => y.deaf = (x.wip /\ Value(e, 1) # READ_SR)
  BY <1>3, Zenon
<1>5. ~(Len(b) < 8 /\ Len(e) >= 8) => y.deaf = x.deaf
  BY <1>1, ClockedDeaf, Zenon
<1>6. Len(e) = p + 1 /\ e[p + 1] = o /\ \A i \in 1 .. p : e[i] = b[i]
  BY <1>1, <1>2
<1>a. o = Line(j, p + 1)
  BY Zenon
<1> HIDE DEF e, b, p, j
<1>7. ASSUME NEW i \in 1 .. p + 1 PROVE e[i] = Line(j, i)
  <2>1. CASE i = p + 1
    BY <1>6, <1>a, <2>1, Zenon
  <2>2. CASE i # p + 1
    <3>1. i \in 1 .. p
      BY <1>1, <2>2
    <3> QED
      BY <1>2, <1>6, <3>1, Zenon
  <2> QED
    BY <2>1, <2>2
<1>8. ~y.deaf
  <2>1. CASE ~(Len(b) < 8 /\ Len(e) >= 8)
    BY <1>2, <1>5, <2>1, Zenon
  <2>2. CASE Len(b) < 8 /\ Len(e) >= 8
    <3>1. y.deaf = (x.wip /\ Value(e, 1) # READ_SR)
      BY <1>4, <2>2, Zenon
    <3>2. CASE j # Status
      BY <1>2, <3>1, <3>2, Zenon
    <3>3. CASE j = Status
      <4>1. \A i \in 1 .. 8 : i \in 1 .. p + 1
        BY <1>1, <1>6, <2>2
      <4>2. \A i \in 1 .. 8 : e[i] = Line(Status, i)
        BY <1>7, <3>3, <4>1, Zenon
      <4>3. Value(e, 1) = READ_SR
        BY <4>2, StatusHeard, Zenon
      <4> QED
        BY <3>1, <4>3, Zenon
    <3> QED
      BY <3>2, <3>3
  <2> QED
    BY <2>1, <2>2
<1>9. Clocks(n) = Clocks(m)
  <2>1. n.place = p + 1 /\ n.low = FALSE /\ m.place = p /\ m.low = TRUE
    BY Zenon DEF p
  <2>2. p + 1 \in Nat
    BY <1>1
  <2>3. Clocks(m) = p + 1
    BY <1>1, <2>1, ClocksIs, Zenon
  <2> DEFINE q == p + 1
  <2> HIDE DEF q
  <2>4. Clocks(n) = q
    BY <2>1, <2>2, ClocksIs, Zenon DEF q
  <2> QED
    BY <2>3, <2>4, Zenon DEF q
<1>10. Sampled(n, y)
  <2>1. Tally(m.bits, Clocks(m), Len(Written(m.job)), m.job, x)
    BY <1>2, SampledIs, Zenon
  <2>2. Tally(n.bits, Clocks(n), Len(Written(n.job)), n.job, x)
    BY <1>9, <2>1, Zenon
  <2> DEFINE q == Clocks(n)
             w == Len(Written(n.job))
  <2> HIDE DEF q, w
  <2>3. Tally(n.bits, q, w, n.job, x)
    BY <2>2, Zenon DEF q, w
  <2>4. Tally(n.bits, q, w, n.job, y)
    BY <1>4, <2>3, Zenon DEF Tally, Sample
  <2> QED
    BY <2>4, SampledIs, Zenon DEF q, w
<1>11. n.place = p + 1 /\ n.job = j
  BY Zenon DEF p, j
<1>12. Len(y.bits) = n.place /\ \A i \in 1 .. n.place : y.bits[i] = Line(n.job, i)
  BY <1>4, <1>6, <1>7, <1>11, Zenon
<1>13. n.job # Status => ~y.wip
  BY <1>2, <1>4, <1>11, Zenon
<1> QED
  BY <1>8, <1>10, <1>12, <1>13, Zenon DEF Followed

(* A step that does this is none of FlashAccess.                              *)
LEMMA StuttersAs ==
    ASSUME mux' = mux, FlashOf(chip') = FlashOf(chip),
           NssOf(nss', unheard') = NssOf(nss, unheard),
           JobOf(main'.job) = JobOf(main.job), GotOf(got') = GotOf(got),
           AnswerOf(answer') = AnswerOf(answer)
    PROVE  UNCHANGED Access!vars
<1>1. Flash' = Flash
  BY FlashIs, Zenon
<1> QED
  BY <1>1, Zenon DEF Access!vars, NssOf, JobOf, GotOf, AnswerOf

(* A transaction that is not done has bits to go.                             *)
LEMMA Undone ==
    ASSUME NEW m, MainOk(m), m.job # NoJob, m.place # Len(Written(m.job)) + 8
    PROVE  m \in MainType /\ m.job \in Jobs /\ m.place < Len(Written(m.job)) + 8
<1> DEFINE j == m.job
           a == m.place
           n == Len(Written(j))
<1>1. m \in MainType /\ a <= Size(j) /\ a # n + 8 /\ j # NoJob
  BY Zenon DEF MainOk
<1>2. j \in Jobs /\ a \in Nat
  BY <1>1 DEF MainType
<1>3. n \in {8, 32}
  BY <1>2, WrittenIs, Zenon
<1>4. Size(j) = n + 8
  BY Zenon DEF Size
<1> HIDE DEF a, n
<1>5. a < n + 8
  BY <1>1, <1>2, <1>3, <1>4
<1> QED
  BY <1>1, <1>2, <1>5, Zenon DEF a, n

(* A falling edge is no step of FlashAccess.                                  *)
LEMMA SckLowShared ==
    ASSUME ShareOk, SckLow PROVE ShareOk' /\ UNCHANGED Access!vars
<1>1. /\ mux' = mux /\ nss' = nss /\ chip' = chip /\ unheard' = unheard /\ got' = got
      /\ answer' = answer /\ main.job # NoJob /\ ~main.low /\ ~Done
  BY Zenon DEF SckLow
<1>2. /\ BusOk /\ Sound(chip) /\ unheard \in BOOLEAN
      /\ main.job # NoJob /\ nss = 1 => unheard
      /\ nss = 0 /\ ~unheard => Followed(main, chip[mux])
  BY Zenon DEF ShareOk
<1>3. BusOk'
  BY <1>2, SckLowKeeps
<1>4. MainOk(main) /\ mux \in Chips
  BY <1>2, Zenon DEF BusOk
<1>5. main \in MainType /\ main.job \in Jobs /\ main.place < Len(Written(main.job)) + 8
  BY <1>1, <1>4, Undone, Zenon DEF Done
<1> DEFINE x == IF nss = 0 THEN Miso(chip[mux]) ELSE Float
           y == Append(main.bits, x)
<1>6. /\ main'.job = main.job /\ main'.place = main.place /\ main'.low = TRUE
      /\ main'.bits = IF main.place < Len(Written(main.job)) THEN main.bits ELSE y
  <2>1. CASE Writes
    <3>1. main' = [main EXCEPT !.low = TRUE]
      BY <2>1, Zenon DEF SckLow
    <3>2. /\ main'.job = main.job /\ main'.place = main.place /\ main'.low = TRUE
          /\ main'.bits = main.bits
      BY <1>5, <3>1 DEF MainType
    <3> QED
      BY <2>1, <3>2, Zenon DEF Writes
  <2>2. CASE ~Writes
    <3>1. main' = [main EXCEPT !.low = TRUE, !.bits = Append(@, x)]
      BY <2>2, Zenon DEF SckLow
    <3>2. main' = [main EXCEPT !.low = TRUE, !.bits = y]
      BY <3>1, Zenon
    <3> HIDE DEF x, y
    <3>3. /\ main'.job = main.job /\ main'.place = main.place /\ main'.low = TRUE
          /\ main'.bits = y
      BY <1>5, <3>2 DEF MainType
    <3> QED
      BY <2>2, <3>3, Zenon DEF Writes
  <2> QED
    BY <2>1, <2>2
<1>7. ASSUME nss = 0, ~unheard PROVE Followed(main', chip[mux])
  <2> DEFINE c == chip[mux]
             n == main'
  <2>1. Followed(main, c)
    BY <1>2, <1>7, Zenon
  <2>2. c \in ChipType /\ ~c.wel
    BY <1>2, <1>4, Zenon DEF Sound, Plain
  <2>3. x = Miso(c)
    BY <1>7, Zenon
  <2> HIDE DEF x
  <2>4. /\ n.job = main.job /\ n.place = main.place /\ n.low = TRUE
        /\ n.bits = IF main.place < Len(Written(main.job)) THEN main.bits
                    ELSE Append(main.bits, Miso(c))
    BY <1>6, <2>3, Zenon
  <2> HIDE DEF c, n, y
  <2>5. Followed(n, c)
    BY <1>1, <1>5, <2>1, <2>2, <2>4, LowFollows, Zenon
  <2> QED
    BY <2>5, Zenon DEF c, n
<1> HIDE DEF x, y
<1>8. ShareOk'
  BY <1>1, <1>2, <1>3, <1>6, <1>7, Zenon DEF ShareOk
<1>9. UNCHANGED Access!vars
  <2>1. /\ FlashOf(chip') = FlashOf(chip) /\ JobOf(main'.job) = JobOf(main.job)
        /\ NssOf(nss', unheard') = NssOf(nss, unheard)
        /\ GotOf(got') = GotOf(got) /\ AnswerOf(answer') = AnswerOf(answer)
    BY <1>1, <1>6, Zenon
  <2> QED
    BY <1>1, <2>1, StuttersAs, Zenon
<1> QED
  BY <1>8, <1>9, Zenon

(* Nor is a rising edge.                                                      *)
LEMMA SckHighShared ==
    ASSUME ShareOk, SckHigh PROVE ShareOk' /\ UNCHANGED Access!vars
<1>1. /\ mux' = mux /\ nss' = nss /\ unheard' = unheard /\ got' = got /\ answer' = answer
      /\ main.low /\ main' = [main EXCEPT !.low = FALSE, !.place = @ + 1]
      /\ chip' = IF nss = 0 /\ sck = 0 THEN [chip EXCEPT ![mux] = Clocked(@, <<mosi>>)]
                 ELSE chip
  BY Zenon DEF SckHigh
<1>2. /\ BusOk /\ Sound(chip) /\ unheard \in BOOLEAN
      /\ main.job # NoJob /\ nss = 1 => unheard
      /\ nss = 0 /\ ~unheard => Followed(main, chip[mux])
  BY Zenon DEF ShareOk
<1>3. BusOk'
  BY <1>2, SckHighKeeps
<1>4. /\ mux \in Chips /\ mosi \in Bit /\ main \in MainType
      /\ nss = 0 => main.job # NoJob /\ Pins(main, sck, mosi)
  BY <1>2, Zenon DEF BusOk, MainOk
<1>5. main.low = TRUE /\ main.place \in Nat
  BY <1>1, <1>4 DEF MainType
<1> DEFINE p == main.place + 1
<1>6. main'.job = main.job /\ main'.place = p /\ main'.low = FALSE /\ main'.bits = main.bits
  <2>1. main' = [main EXCEPT !.low = FALSE, !.place = p]
    BY <1>1, Zenon
  <2> HIDE DEF p
  <2> QED
    BY <1>4, <2>1 DEF MainType
<1>7. CASE nss # 0
  <2>1. chip' = chip
    BY <1>1, <1>7, Zenon
  <2> HIDE DEF p
  <2>2. ShareOk'
    BY <1>1, <1>2, <1>3, <1>6, <1>7, <2>1, Zenon DEF ShareOk
  <2>3. /\ FlashOf(chip') = FlashOf(chip) /\ JobOf(main'.job) = JobOf(main.job)
        /\ NssOf(nss', unheard') = NssOf(nss, unheard)
        /\ GotOf(got') = GotOf(got) /\ AnswerOf(answer') = AnswerOf(answer)
    BY <1>1, <1>6, <2>1, Zenon
  <2>4. UNCHANGED Access!vars
    BY <1>1, <2>3, StuttersAs, Zenon
  <2> QED
    BY <2>2, <2>4, Zenon
<1>8. CASE nss = 0
  <2> DEFINE x == chip[mux]
             y == Clocked(x, <<mosi>>)
             r == [chip EXCEPT ![mux] = y]
             o == mosi
             n == main'
  <2>1. sck = 0 /\ o = Line(main.job, p)
    BY <1>1, <1>4, <1>8, Zenon DEF Pins
  <2>2. chip' = r
    BY <1>1, <1>8, <2>1, Zenon
  <2>3. /\ x \in ChipType /\ Plain(x) /\ Keeps(x) /\ chip \in [Chips -> ChipType]
        /\ \A c \in Chips : Plain(chip[c]) /\ Keeps(chip[c])
    BY <1>2, <1>4, Zenon DEF Sound, Plain
  <2>4. <<o>> \in Seq(Bit) /\ x.bits \in Seq(Bit)
    BY <1>4, <2>3 DEF ChipType
  <2> HIDE DEF x, p
  <2>5. y \in ChipType /\ y.bits = x.bits \o <<o>> /\ y.wel = x.wel
        /\ y.cell = x.cell /\ y.wip = x.wip
    BY <2>3, <2>4, ClockedIs
  <2>6. y.bits # <<>> /\ ~y.wel
    <3>1. Len(x.bits \o <<o>>) # 0
      BY <2>4
    <3>2. Len(<<>>) = 0
      OBVIOUS
    <3>3. ~x.wel
      BY <2>3, Zenon DEF Plain
    <3> HIDE DEF y
    <3> QED
      BY <2>5, <3>1, <3>2, <3>3, Zenon
  <2>7. ASSUME ~unheard PROVE Followed(n, y)
    <3>1. Followed(main, x)
      BY <1>2, <1>8, <2>7, Zenon DEF x
    <3>2. o = Line(main.job, main.place + 1) /\ n.place = main.place + 1
      BY <1>6, <2>1, Zenon DEF p
    <3>3. n.job = main.job /\ n.low = FALSE /\ n.bits = main.bits /\ main.job \in Jobs
      <4>1. main.job \in Jobs
        BY <1>4, <1>8 DEF MainType
      <4> QED
        BY <1>6, <4>1, Zenon
    <3>4. y = Clocked(x, <<o>>) /\ o \in Bit
      BY <1>4, Zenon
    <3> HIDE DEF y, o, n
    <3> QED
      BY <1>4, <1>5, <2>3, <3>1, <3>2, <3>3, <3>4, HighFollows, Zenon
  <2> HIDE DEF y
  <2>8. Keeps(y) /\ View(y) = View(x)
    BY <2>3, <2>5, SameView, Zenon
  <2>9. Plain(y)
    BY <2>5, <2>6, Zenon DEF Plain
  <2>10. r \in [Chips -> ChipType] /\ r[mux] = y /\ \A c \in Chips : c # mux => r[c] = chip[c]
    BY <1>4, <2>3, <2>5
  <2> HIDE DEF r
  <2>11. Sound(r) /\ \A c \in Chips : View(r[c]) = View(chip[c])
    BY <2>3, <2>8, <2>9, <2>10, Zenon DEF Sound, x
  <2>12. FlashOf(r) = FlashOf(chip)
    BY <2>11, Zenon DEF FlashOf
  <2>13. nss' # 1
    BY <1>1, <1>8
  <2> HIDE DEF n, o
  <2>14. ShareOk'
    BY <1>1, <1>2, <1>3, <1>8, <2>2, <2>7, <2>10, <2>11, <2>13, Zenon DEF ShareOk, n
  <2>15. /\ FlashOf(chip') = FlashOf(chip) /\ JobOf(main'.job) = JobOf(main.job)
         /\ NssOf(nss', unheard') = NssOf(nss, unheard)
         /\ GotOf(got') = GotOf(got) /\ AnswerOf(answer') = AnswerOf(answer)
    BY <1>1, <1>6, <2>2, <2>12, Zenon
  <2>16. UNCHANGED Access!vars
    BY <1>1, <2>15, StuttersAs, Zenon
  <2> QED
    BY <2>14, <2>16, Zenon
<1> QED
  BY <1>7, <1>8

-----------------------------------------------------------------------------
(* The refinement.                                                            *)

(* A state like this is an initial one of FlashAccess.                        *)
LEMMA BeginsAs ==
    ASSUME mux \in Chips, FlashOf(chip) = [c \in Chips |-> [cell |-> Access!Erased, wip |-> FALSE]],
           NssOf(nss, unheard) = "high", JobOf(main.job) = NoJob, GotOf(got) = Nothing,
           AnswerOf(answer) = <<>>
    PROVE  Access!Init
<1>1. Flash = FlashOf(chip)
  BY FlashIs, Zenon
<1>2. Flash = [c \in Chips |-> [cell |-> Access!Erased, wip |-> FALSE]]
  BY <1>1, Zenon
<1> QED
  BY <1>2, Zenon DEF Access!Init, Access!None, Access!Nothing, NoJob, Nothing, NssOf, JobOf,
     GotOf, AnswerOf

(* The bus begins so.                                                         *)
LEMMA InitShare == BusInit => ShareOk /\ Access!Init
<1> SUFFICES ASSUME BusInit PROVE ShareOk /\ Access!Init
  OBVIOUS
<1> DEFINE z == [a \in Address |-> Blank]
           e == [cell |-> z, wip |-> FALSE, wel |-> FALSE, bits |-> <<>>, deaf |-> FALSE]
<1>1. /\ mux \in Chips /\ nss = 1 /\ main = Resting /\ chip = [c \in Chips |-> e]
      /\ unheard = FALSE /\ got = Nothing /\ answer = <<>>
  BY Zenon DEF BusInit
<1>2. BusOk
  BY InitOk
<1>3. main.job = NoJob
  BY <1>1 DEF Resting
<1>4. chip \in [Chips -> ChipType] /\ \A c \in Chips : chip[c] = e
  <2>1. chip \in [Chips -> ChipType]
    BY <1>2, Zenon DEF BusOk
  <2> HIDE DEF e
  <2> QED
    BY <1>1, <2>1
<1>5. e.wel = FALSE /\ e.deaf = FALSE /\ e.wip = FALSE /\ e.cell = z
  OBVIOUS
<1>6. z \in [Address -> Held] /\ \A a \in Address : z[a] = Blank
  BY Zenon DEF Held
<1>7. Known(Blank) = Blank
  BY Zenon DEF Known
<1>8. Access!Erased = z
  BY Zenon DEF Access!Erased, Access!Address, Address
<1> HIDE DEF z, e
<1>9. \A c \in Chips : Plain(chip[c]) /\ Keeps(chip[c])
  BY <1>4, <1>5, <1>6, Zenon DEF Plain, Keeps
<1>10. Sound(chip)
  BY <1>4, <1>9, Zenon DEF Sound
<1>11. nss # 0 /\ unheard \in BOOLEAN
  <2>1. nss = 1 => nss # 0
    OBVIOUS
  <2>2. unheard = FALSE => unheard \in BOOLEAN
    OBVIOUS
  <2> QED
    BY <1>1, <2>1, <2>2, Zenon
<1>12. ShareOk
  BY <1>2, <1>3, <1>10, <1>11, Zenon DEF ShareOk
<1>13. View(e) = [cell |-> Access!Erased, wip |-> FALSE]
  <2>1. [a \in Address |-> Known(z[a])] = z
    BY <1>6, <1>7, Zenon DEF z
  <2> QED
    BY <1>5, <1>8, <2>1, Zenon DEF View
<1>14. FlashOf(chip) = [c \in Chips |-> [cell |-> Access!Erased, wip |-> FALSE]]
  BY <1>4, <1>13, Zenon DEF FlashOf
<1>15. JobOf(main.job) = NoJob
  <2>1. ~(NoJob > 0)
    BY DEF NoJob
  <2> QED
    BY <1>3, <2>1, Zenon DEF JobOf
<1>16. GotOf(got) = Nothing
  <2>1. Nothing.job = NoJob /\ NoJob < 0
    BY DEF Nothing, NoJob
  <2> QED
    BY <1>1, <2>1, Zenon DEF GotOf
<1>17. AnswerOf(answer) = <<>>
  BY <1>1 DEF AnswerOf
<1>18. NssOf(nss, unheard) = "high"
  BY <1>1, Zenon DEF NssOf
<1> QED
  BY <1>1, <1>12, <1>14, <1>15, <1>16, <1>17, <1>18, BeginsAs, Zenon

(* Every step of the bus is a step of FlashAccess, or none, until the routing *)
(* is astray.                                                                 *)
LEMMA StepShared ==
    ASSUME ShareOk, [BusNext]_spiVars, ~astray'
    PROVE  ShareOk' /\ [Access!Next]_(Access!vars)
<1>1. CASE \E job \in Jobs : NssLow(job)
  BY <1>1, NssLowShared, Zenon DEF Access!Next
<1>2. CASE SckLow
  BY <1>2, SckLowShared, Zenon
<1>3. CASE SckHigh
  BY <1>3, SckHighShared, Zenon
<1>4. CASE NssHigh
  BY <1>4, NssHighShared, Zenon DEF Access!Next
<1>5. CASE EarseCmd
  BY <1>5, EarseShared, Zenon DEF Access!Next
<1>6. CASE RouteCmd
  BY <1>6, RouteShared, Zenon DEF Access!Next
<1>7. CASE \E a \in Starts, data \in Payloads : WriteDataCmd(a, data)
  BY <1>7, WriteShared, Zenon DEF Access!Next
<1>8. CASE \E a \in Starts, n \in ReadLens : ReadCmd(a, n)
  BY <1>8, ReadShared, Zenon DEF Access!Next
<1>9. CASE EraseDone
  BY <1>9, EraseDoneShared, Zenon DEF Access!Next
<1>10. CASE UNCHANGED spiVars
  <2>1. /\ mux' = mux /\ nss' = nss /\ sck' = sck /\ mosi' = mosi /\ chip' = chip
        /\ unheard' = unheard /\ main' = main /\ got' = got /\ answer' = answer
    BY <1>10, Zenon DEF spiVars, busVars
  <2>2. ShareOk'
    <3>1. BusOk
      BY Zenon DEF ShareOk
    <3>2. BusOk'
      BY <2>1, <3>1, Zenon DEF BusOk
    <3> QED
      BY <2>1, <3>2, Zenon DEF ShareOk
  <2>3. UNCHANGED Access!vars
    BY <2>1, StuttersAs, Zenon
  <2> QED
    BY <2>2, <2>3, Zenon
<1> QED
  BY <1>1, <1>2, <1>3, <1>4, <1>5, <1>6, <1>7, <1>8, <1>9, <1>10, Zenon DEF BusNext, Main

(* The pins of the main loop's transactions and of the interrupt's commands,  *)
(* however they interleave, come to what FlashAccess says: the chips do what  *)
(* whole driver functions say, less at most the first transaction of a        *)
(* command that cut into an open one, and the main loop reads what is there   *)
(* or knows nothing (drvflash.c 18-113 and 175-186, stm32f107.c 349-387).     *)
(* For any chips, sizes, data, addresses and lengths, until the routing has   *)
(* moved twice while a transaction of the main loop was open.                 *)
THEOREM BusIsShared == BusSpec => BusShared
<1>1. BusInit => ShareOk /\ Access!Init
  BY InitShare
<1>2. (~astray => ShareOk) /\ [BusNext]_spiVars
      => (~astray => ShareOk)' /\ [astray' \/ Access!Next]_(Access!vars)
  BY StepShared, AstrayStays
<1> QED
  BY <1>1, <1>2, PTL DEF BusSpec, BusShared
=============================================================================
