----------------------------- MODULE EthRx_proofs -----------------------------
(* Proofs about the receive ring, for any number of descriptors and any order *)
(* of DMA and handler: who owns what, also with frames that need two buffers, *)
(* and, of frames that fit one, that the ring is a queue.                     *)
EXTENDS EthRx, Integers, SequenceTheorems, TLAPS

LEMMA FollowingType ==
    ASSUME NEW d \in Descriptors
    PROVE  Following(d) \in Descriptors
  BY EthRxAssumption DEF Following, Descriptors

IInv == TypeOK /\ FrameIsOurs

(* What the DMA stores, it stores in buffers it owns.                         *)
LEMMA StoredOwned ==
    ASSUME IInv, NEW n \in 0 .. MaxFrames, Stored(n)
    PROVE  /\ own' \in [Descriptors -> BOOLEAN]
           /\ buf' \in [Descriptors ->
                  [frame : 0 .. MaxFrames, fs : BOOLEAN, ls : BOOLEAN]]
           /\ dma' \in Descriptors
           /\ \A d \in Descriptors : ~own[d] => ~own'[d] /\ buf'[d] = buf[d]
<1> DEFINE more == Following(dma)
           one == [frame |-> n, fs |-> TRUE, ls |-> TRUE]
           first == [frame |-> n, fs |-> TRUE, ls |-> FALSE]
           last == [frame |-> n, fs |-> FALSE, ls |-> TRUE]
<1>1. /\ dma \in Descriptors /\ more \in Descriptors
      /\ Following(more) \in Descriptors
  BY FollowingType DEF IInv, TypeOK
<1>2. {one, first, last} \subseteq
          [frame : 0 .. MaxFrames, fs : BOOLEAN, ls : BOOLEAN]
  OBVIOUS
<1>3. CASE n \notin Long
  <2>1. /\ own[dma]
        /\ buf' = [buf EXCEPT ![dma] = one]
        /\ own' = [own EXCEPT ![dma] = FALSE]
        /\ dma' = more
    BY <1>3 DEF Stored
  <2> HIDE DEF more, one
  <2> QED
    BY <1>1, <1>2, <2>1 DEF IInv, TypeOK
<1>4. CASE n \in Long
  <2>1. /\ own[dma] /\ own[more]
        /\ buf' = [buf EXCEPT ![dma] = first, ![more] = last]
        /\ own' = [own EXCEPT ![dma] = FALSE, ![more] = FALSE]
        /\ dma' = Following(more)
    BY <1>4 DEF Stored
  <2> HIDE DEF more, first, last
  <2> QED
    BY <1>1, <1>2, <2>1 DEF IInv, TypeOK
<1> QED
  BY <1>3, <1>4

LEMMA StepKeepsFrame ==
    ASSUME IInv, Next
    PROVE  IInv'
<1>1. CASE Arrive
  <2>1. newest' \in 0 .. MaxFrames
    BY <1>1, EthRxAssumption DEF Arrive, IInv, TypeOK
  <2>2. UNCHANGED <<get, pc, frame, p, handed>> /\ pending' = TRUE
    BY <1>1 DEF Arrive
  <2>3. /\ own' \in [Descriptors -> BOOLEAN]
        /\ buf' \in [Descriptors ->
               [frame : 0 .. MaxFrames, fs : BOOLEAN, ls : BOOLEAN]]
        /\ dma' \in Descriptors
        /\ \A d \in Descriptors : ~own[d] => ~own'[d] /\ buf'[d] = buf[d]
    <3>1. PICK n \in 0 .. MaxFrames : n = newest'
      BY <2>1
    <3>2. Stored(n)
      BY <1>1, <3>1 DEF Arrive
    <3> QED
      BY <3>2, StoredOwned
  <2>4. TypeOK'
    BY <2>1, <2>2, <2>3 DEF IInv, TypeOK
  <2>5. FrameIsOurs'
    BY <2>2, <2>3 DEF IInv, TypeOK, FrameIsOurs, Whole
  <2> QED
    BY <2>4, <2>5 DEF IInv
<1>2. CASE Overrun
  BY <1>2, EthRxAssumption DEF Overrun, IInv, TypeOK, FrameIsOurs, Whole
<1>3. CASE Enter
  BY <1>3 DEF Enter, IInv, TypeOK, FrameIsOurs, Whole
<1>4. CASE ETH_GetRxPktSize
  BY <1>4 DEF ETH_GetRxPktSize, IInv, TypeOK, FrameIsOurs, Whole
<1>5. CASE ETH_RxPkt_ChainMode
  <2>1. Following(get) \in Descriptors
    BY FollowingType DEF IInv, TypeOK
  <2> QED
    BY <1>5, <2>1 DEF ETH_RxPkt_ChainMode, IInv, TypeOK, FrameIsOurs, Whole
<1>6. CASE Copy
  BY <1>6 DEF Copy, IInv, TypeOK, FrameIsOurs, Whole
<1>7. CASE Release
  BY <1>7 DEF Release, IInv, TypeOK, FrameIsOurs, Whole
<1>8. CASE ClearPending
  BY <1>8 DEF ClearPending, IInv, TypeOK, FrameIsOurs, Whole
<1> QED
  BY <1>1, <1>2, <1>3, <1>4, <1>5, <1>6, <1>7, <1>8 DEF Next, ETH_IRQHandler

LEMMA InitIInv == Init => IInv
<1>1. 0 \in Descriptors /\ 0 \in 0 .. MaxFrames
  BY EthRxAssumption DEF Descriptors
<1>2. [frame |-> 0, fs |-> FALSE, ls |-> FALSE]
          \in [frame : 0 .. MaxFrames, fs : BOOLEAN, ls : BOOLEAN]
  BY <1>1
<1> SUFFICES ASSUME Init PROVE IInv
  OBVIOUS
<1>3. buf \in [Descriptors ->
                   [frame : 0 .. MaxFrames, fs : BOOLEAN, ls : BOOLEAN]]
  BY <1>2 DEF Init
<1>4. TypeOK
  BY <1>1, <1>3 DEF Init, TypeOK
<1>5. FrameIsOurs
  BY DEF Init, FrameIsOurs
<1> QED
  BY <1>4, <1>5 DEF IInv

LEMMA Always == Spec => []IInv
<1>1. IInv /\ [Next]_vars => IInv'
  <2> SUFFICES ASSUME IInv, [Next]_vars PROVE IInv'
    OBVIOUS
  <2>1. CASE UNCHANGED vars
    BY <2>1 DEF vars, IInv, TypeOK, FrameIsOurs, Whole
  <2> QED
    BY <2>1, StepKeepsFrame
<1> QED
  BY <1>1, InitIInv, PTL DEF Spec

(* The descriptor pointers stay in the ring and the handler in its states     *)
(* (ethernetif.c 229-280, stm32_eth.c 1188-1221).                             *)
THEOREM RxTypeCorrect == Spec => []TypeOK
<1>1. IInv => TypeOK
  BY DEF IInv
<1> QED
  BY <1>1, Always, PTL

(* The handler never copies from a buffer the DMA may write to                *)
(* (ethernetif.c 239-263).                                                    *)
THEOREM CopiesOwnBuffer == Spec => []FrameIsOurs
<1>1. IInv => FrameIsOurs
  BY DEF IInv
<1> QED
  BY <1>1, Always, PTL

-----------------------------------------------------------------------------
(* Once around the ring.                                                      *)
LEMMA Wrap ==
    ASSUME NEW k \in 0 .. 2 * RxBufNb - 1
    PROVE  k % RxBufNb = IF k < RxBufNb THEN k ELSE k - RxBufNb
<1>1. CASE k < RxBufNb
  BY <1>1, EthRxAssumption
<1>2. CASE ~(k < RxBufNb)
  <2> DEFINE q == k \div RxBufNb
             r == k % RxBufNb
  <2>1. /\ q \in Int /\ r \in Int /\ 0 <= r /\ r < RxBufNb
        /\ k = RxBufNb * q + r
    BY EthRxAssumption
  <2>2. q = 1
    <3>1. CASE q <= 0
      <4>1. RxBufNb * q <= 0
        BY <2>1, <3>1, EthRxAssumption
      <4> QED
        BY <1>2, <2>1, <4>1, EthRxAssumption
    <3>2. CASE q >= 2
      <4>1. RxBufNb * q >= RxBufNb * 2
        BY <2>1, <3>2, EthRxAssumption
      <4> QED
        BY <2>1, <4>1, EthRxAssumption
    <3> QED
      BY <2>1, <3>1, <3>2
  <2>3. k = RxBufNb + r
    BY <2>1, <2>2, EthRxAssumption
  <2> QED
    BY <1>2, <2>1, <2>3, EthRxAssumption
<1> QED
  BY <1>1, <1>2

(* How far d lies behind another descriptor, and what lies n behind d.        *)
Distance(d, from) == IF d >= from THEN d - from ELSE d + RxBufNb - from
Behind(d, n) == IF d + n < RxBufNb THEN d + n ELSE d + n - RxBufNb

LEMMA Around ==
    ASSUME NEW d \in Descriptors, NEW n \in 0 .. RxBufNb
    PROVE  (d + n) % RxBufNb = Behind(d, n) /\ Behind(d, n) \in Descriptors
<1>1. d \in Nat /\ d < RxBufNb /\ RxBufNb \in Nat
  BY EthRxAssumption DEF Descriptors
<1>2. PICK k \in 0 .. 2 * RxBufNb - 1 : k = d + n
  BY <1>1
<1>3. k % RxBufNb = IF k < RxBufNb THEN k ELSE k - RxBufNb
  BY Wrap
<1>4. Behind(d, n) = IF k < RxBufNb THEN k ELSE k - RxBufNb
  BY <1>1, <1>2 DEF Behind
<1>5. Behind(d, n) \in Descriptors
  BY <1>1, <1>2, <1>4 DEF Descriptors
<1> QED
  BY <1>2, <1>3, <1>4, <1>5, Zenon

LEMMA FollowingIs ==
    ASSUME NEW d \in Descriptors
    PROVE  Following(d) = Behind(d, 1)
<1>1. 1 \in 0 .. RxBufNb
  BY EthRxAssumption
<1> QED
  BY <1>1, Around, Zenon DEF Following

(* Descriptors lie one behind another in the order of their distance.         *)
LEMMA Places ==
    ASSUME NEW f \in Descriptors, NEW n \in 0 .. RxBufNb
    PROVE  /\ n < RxBufNb => Distance(Behind(f, n), f) = n
           /\ Behind(f, RxBufNb) = f /\ Behind(f, 0) = f
           /\ n < RxBufNb => Behind(Behind(f, n), 1) = Behind(f, n + 1)
           /\ n > 0 => Behind(Behind(f, 1), n - 1) = Behind(f, n)
           /\ \A d \in Descriptors :
                 /\ Distance(d, f) \in 0 .. RxBufNb - 1
                 /\ Distance(d, f) = n => d = Behind(f, n)
                 /\ Distance(d, f) = 0 => d = f
                 /\ Distance(d, Behind(f, 1)) =
                       IF d = f THEN RxBufNb - 1 ELSE Distance(d, f) - 1
<1>1. f \in Nat /\ f < RxBufNb /\ RxBufNb \in Nat /\ RxBufNb >= 2
  BY EthRxAssumption DEF Descriptors
<1>2. /\ n < RxBufNb => Distance(Behind(f, n), f) = n
      /\ Behind(f, RxBufNb) = f /\ Behind(f, 0) = f
  BY <1>1 DEF Distance, Behind
<1>3. /\ n < RxBufNb => Behind(Behind(f, n), 1) = Behind(f, n + 1)
      /\ n > 0 => Behind(Behind(f, 1), n - 1) = Behind(f, n)
  BY <1>1 DEF Behind
<1>4. ASSUME NEW d \in Descriptors
      PROVE  /\ Distance(d, f) \in 0 .. RxBufNb - 1
             /\ Distance(d, f) = n => d = Behind(f, n)
             /\ Distance(d, f) = 0 => d = f
             /\ Distance(d, Behind(f, 1)) =
                   IF d = f THEN RxBufNb - 1 ELSE Distance(d, f) - 1
  <2>1. d \in Nat /\ d < RxBufNb
    BY EthRxAssumption DEF Descriptors
  <2> QED
    BY <1>1, <2>1 DEF Distance, Behind
<1> QED
  BY <1>2, <1>3, <1>4

-----------------------------------------------------------------------------
(* The handler holds a descriptor; the oldest one the DMA has not got back.   *)
Held == pc \in {"copy", "release"}
Oldest == IF Held THEN frame ELSE get

(* n descriptors are with the handler, those from the oldest on, and the DMA  *)
(* goes on behind them.                                                       *)
Taken(n) ==
    /\ \A d \in Descriptors : own[d] <=> ~ (Distance(d, Oldest) < n)
    /\ dma = Behind(Oldest, n)
    /\ Held => n > 0 /\ get = Behind(frame, 1)

AllWhole == \A d \in Descriptors : ~own[d] => Whole(d)

RInv == IInv /\ AllWhole /\ \E n \in 0 .. RxBufNb : Taken(n)

Numbers == 0 .. MaxFrames
Buffers == [Descriptors -> [frame : Numbers, fs : BOOLEAN, ls : BOOLEAN]]

(* The frames in c descriptors from f on.                                     *)
Row(b, f, c) == [i \in 1 .. c |-> b[Behind(f, i - 1)].frame]

LEMMA RowIs ==
    ASSUME NEW b \in Buffers, NEW f \in Descriptors, NEW c \in 0 .. RxBufNb
    PROVE  /\ Row(b, f, c) \in Seq(Numbers) /\ Len(Row(b, f, c)) = c
           /\ \A i \in 1 .. c : Row(b, f, c)[i] = b[Behind(f, i - 1)].frame
<1>0. c \in Nat /\ c <= RxBufNb /\ RxBufNb \in Nat
  BY EthRxAssumption
<1> DEFINE s == Row(b, f, c)
<1>1. ASSUME NEW i \in 1 .. c
      PROVE  b[Behind(f, i - 1)].frame \in Numbers
  <2>1. i - 1 \in 0 .. RxBufNb
    BY <1>0
  <2>2. Behind(f, i - 1) \in Descriptors
    BY <2>1, Around
  <2> QED
    BY <2>2 DEF Buffers
<1>2. /\ s \in [1 .. c -> Numbers]
      /\ \A i \in 1 .. c : s[i] = b[Behind(f, i - 1)].frame
  BY <1>1 DEF Row
<1> HIDE DEF s
<1>3. s \in Seq(Numbers)
  BY <1>0, <1>2, SeqDef
<1>4. Len(s) = c
  BY <1>0, <1>2
<1> QED
  BY <1>2, <1>3, <1>4 DEF s

LEMMA RowStored ==
    ASSUME NEW b \in Buffers, NEW f \in Descriptors,
           NEW c \in 0 .. RxBufNb - 1, NEW b2 \in Buffers,
           \A d \in Descriptors : d # Behind(f, c) => b2[d] = b[d]
    PROVE  Row(b2, f, c + 1)
               = Append(Row(b, f, c), b2[Behind(f, c)].frame)
<1>0. /\ c \in 0 .. RxBufNb /\ c + 1 \in 0 .. RxBufNb /\ c \in Nat
      /\ c < RxBufNb /\ RxBufNb \in Nat
  BY EthRxAssumption
<1> DEFINE s == Row(b, f, c)
           s2 == Row(b2, f, c + 1)
           e == b2[Behind(f, c)].frame
<1>1. /\ s \in Seq(Numbers) /\ Len(s) = c
      /\ s2 \in Seq(Numbers) /\ Len(s2) = c + 1
      /\ \A i \in 1 .. c : s[i] = b[Behind(f, i - 1)].frame
      /\ \A i \in 1 .. c + 1 : s2[i] = b2[Behind(f, i - 1)].frame
  BY <1>0, RowIs
<1>2. e \in Numbers
  BY <1>0, Around DEF Buffers
<1>3. ASSUME NEW i \in 1 .. c
      PROVE  b2[Behind(f, i - 1)] = b[Behind(f, i - 1)]
  <2>1. i - 1 \in 0 .. RxBufNb /\ i - 1 < RxBufNb /\ i - 1 # c
    BY <1>0
  <2>2. /\ Behind(f, i - 1) \in Descriptors
        /\ Distance(Behind(f, i - 1), f) = i - 1
        /\ Distance(Behind(f, c), f) = c
    <3>1. PICK k \in 0 .. RxBufNb : k = i - 1
      BY <2>1
    <3> QED
      BY <1>0, <2>1, <3>1, Around, Places
  <2>3. Behind(f, i - 1) # Behind(f, c)
    BY <2>1, <2>2, Zenon
  <2> QED
    BY <2>2, <2>3
<1>4. \A i \in 1 .. c : s2[i] = s[i]
  <2> SUFFICES ASSUME NEW i \in 1 .. c PROVE s2[i] = s[i]
    OBVIOUS
  <2>1. i \in 1 .. c + 1
    BY <1>0
  <2> QED
    BY <1>1, <1>3, <2>1, Zenon
<1>5. s2[c + 1] = e
  <2>1. c + 1 \in 1 .. c + 1 /\ (c + 1) - 1 = c
    BY <1>0
  <2> QED
    BY <1>1, <2>1, Zenon
<1> HIDE DEF s, s2, e
<1>6. s2 = Append(s, e)
  <2>1. /\ Append(s, e) \in Seq(Numbers) /\ Len(Append(s, e)) = c + 1
        /\ \A i \in 1 .. c : Append(s, e)[i] = s[i]
        /\ Append(s, e)[c + 1] = e
    BY <1>0, <1>1, <1>2, AppendProperties
  <2>2. \A i \in 1 .. Len(s2) : s2[i] = Append(s, e)[i]
    <3> SUFFICES ASSUME NEW i \in 1 .. c + 1 PROVE s2[i] = Append(s, e)[i]
      BY <1>1
    <3>1. i \in 1 .. c \/ i = c + 1
      BY <1>0
    <3> QED
      BY <1>4, <1>5, <2>1, <3>1, Zenon
  <2> QED
    BY <1>1, <2>1, <2>2, SeqEqual, Zenon
<1> QED
  BY <1>6 DEF s, s2, e

LEMMA RowTaken ==
    ASSUME NEW b \in Buffers, NEW f \in Descriptors, NEW c \in 1 .. RxBufNb
    PROVE  /\ Row(b, f, c) # <<>>
           /\ Head(Row(b, f, c)) = b[f].frame
           /\ Tail(Row(b, f, c)) = Row(b, Behind(f, 1), c - 1)
<1>0. /\ c \in Nat /\ c >= 1 /\ c <= RxBufNb /\ RxBufNb \in Nat
      /\ c \in 0 .. RxBufNb /\ c - 1 \in 0 .. RxBufNb /\ c \in 1 .. RxBufNb
      /\ {0, 1} \subseteq 0 .. RxBufNb
  BY EthRxAssumption
<1>1. Behind(f, 1) \in Descriptors /\ Behind(f, 0) = f
  BY <1>0, Around, Places
<1> DEFINE s == Row(b, f, c)
           t == Row(b, Behind(f, 1), c - 1)
<1>2. /\ s \in Seq(Numbers) /\ Len(s) = c
      /\ \A i \in 1 .. c : s[i] = b[Behind(f, i - 1)].frame
  BY <1>0, RowIs
<1>3. /\ t \in Seq(Numbers) /\ Len(t) = c - 1
      /\ \A i \in 1 .. c - 1 : t[i] = b[Behind(Behind(f, 1), i - 1)].frame
  <2> DEFINE g == Behind(f, 1)
             m == c - 1
  <2>1. g \in Descriptors /\ m \in 0 .. RxBufNb
    BY <1>0, <1>1
  <2> HIDE DEF g, m
  <2>2. /\ Row(b, g, m) \in Seq(Numbers) /\ Len(Row(b, g, m)) = m
        /\ \A i \in 1 .. m : Row(b, g, m)[i] = b[Behind(g, i - 1)].frame
    BY <2>1, RowIs
  <2> QED
    BY <2>2 DEF g, m
<1>4. s[1] = b[f].frame
  <2>1. 1 \in 1 .. c /\ 1 - 1 = 0
    BY <1>0
  <2> QED
    BY <1>1, <1>2, <2>1, Zenon
<1>5. ASSUME NEW i \in 1 .. c - 1
      PROVE  t[i] = s[i + 1]
  <2>1. i + 1 \in 1 .. c /\ (i + 1) - 1 = i /\ i \in 0 .. RxBufNb /\ i > 0
    BY <1>0
  <2>2. s[i + 1] = b[Behind(f, i)].frame
    BY <1>2, <2>1, Zenon
  <2>3. Behind(Behind(f, 1), i - 1) = Behind(f, i)
    BY <2>1, Places
  <2> QED
    BY <1>3, <2>2, <2>3, Zenon
<1> HIDE DEF s, t
<1>6. s # <<>> /\ Head(s) = s[1]
  BY <1>0, <1>2
<1>7. /\ Tail(s) \in Seq(Numbers) /\ Len(Tail(s)) = c - 1
      /\ \A i \in 1 .. c - 1 : Tail(s)[i] = s[i + 1]
  BY <1>2, <1>6, HeadTailProperties
<1>8. \A i \in 1 .. Len(Tail(s)) : Tail(s)[i] = t[i]
  BY <1>5, <1>7, Zenon
<1>9. Tail(s) = t
  BY <1>3, <1>7, <1>8, SeqEqual, Zenon
<1> QED
  BY <1>4, <1>6, <1>9 DEF s, t

-----------------------------------------------------------------------------
(* Unread without remainders and choice.                                      *)
At(i) == (get + i) % RxBufNb
Ends(i) == own[At(i)] \/ (Held /\ At(i) = frame)
Stretch(k) ==
    /\ \A i \in 0 .. k - 1 : ~Ends(i)
    /\ k < RxBufNb => Ends(k)

LEMMA UnreadUnfolded ==
    Unread = (IF pc = "copy" THEN <<buf[frame].frame>> ELSE <<>>)
                 \o [i \in 1 .. (CHOOSE k \in 0 .. RxBufNb : Stretch(k)) |->
                        buf[At(i - 1)].frame]
  BY Zenon DEF Unread, Stretch, Ends, Held, At

(* How many of n descriptors wait behind the one the handler holds.           *)
Waiting(n) == IF Held THEN n - 1 ELSE n

LEMMA StretchIs ==
    ASSUME RInv, NEW n \in 0 .. RxBufNb, Taken(n)
    PROVE  /\ (CHOOSE k \in 0 .. RxBufNb : Stretch(k)) = Waiting(n)
           /\ Waiting(n) \in 0 .. RxBufNb
           /\ Held => Waiting(n) + 1 = n
<1>0. RxBufNb \in Nat /\ n \in Nat /\ n <= RxBufNb /\ RxBufNb >= 2
  BY EthRxAssumption
<1>1. get \in Descriptors /\ frame \in Descriptors
  BY DEF RInv, IInv, TypeOK
<1> DEFINE m == Waiting(n)
<1>2. m \in 0 .. RxBufNb /\ (Held => m + 1 = n) /\ (~Held => m = n)
  BY <1>0 DEF Waiting, Taken
<1> HIDE DEF m
<1>3. ASSUME NEW i \in 0 .. RxBufNb - 1
      PROVE  Ends(i) <=> ~ (i < m)
  <2>1. i \in Nat /\ i \in 0 .. RxBufNb /\ i + 1 \in 0 .. RxBufNb
    BY <1>0
  <2>2. At(i) = Behind(get, i) /\ Behind(get, i) \in Descriptors
    BY <1>1, <2>1, Around, Zenon DEF At
  <2>3. CASE ~Held
    <3>1. Oldest = get
      BY <2>3, Zenon DEF Oldest
    <3>2. Distance(Behind(get, i), get) = i
      BY <1>0, <1>1, <2>1, Places
    <3>3. own[Behind(get, i)] <=> ~ (i < n)
      BY <2>2, <3>1, <3>2, Zenon DEF Taken
    <3> QED
      BY <1>2, <2>2, <2>3, <3>3, Zenon DEF Ends
  <2>4. CASE Held
    <3>1. Oldest = frame /\ get = Behind(frame, 1)
      BY <2>4, Zenon DEF Oldest, Taken
    <3>2. Behind(get, i) = Behind(frame, i + 1)
      <4> DEFINE j == i + 1
      <4>1. j \in 0 .. RxBufNb /\ j > 0 /\ j - 1 = i
        BY <2>1
      <4> HIDE DEF j
      <4>2. Behind(Behind(frame, 1), j - 1) = Behind(frame, j)
        BY <1>1, <4>1, Places
      <4> QED
        BY <3>1, <4>1, <4>2, Zenon DEF j
    <3>3. CASE i + 1 < RxBufNb
      <4>1. Distance(Behind(frame, i + 1), frame) = i + 1
        <5> DEFINE j == i + 1
        <5>1. j \in 0 .. RxBufNb /\ j < RxBufNb
          BY <2>1, <3>3
        <5> HIDE DEF j
        <5>2. Distance(Behind(frame, j), frame) = j
          BY <1>1, <5>1, Places
        <5> QED
          BY <5>2, Zenon DEF j
      <4>2. Distance(frame, frame) = 0
        <5>1. 0 \in 0 .. RxBufNb /\ 0 < RxBufNb
          BY <1>0
        <5>2. Distance(Behind(frame, 0), frame) = 0 /\ Behind(frame, 0) = frame
          BY <1>1, <5>1, Places
        <5> QED
          BY <5>2, Zenon
      <4>3. At(i) # frame
        <5>1. i + 1 # 0
          BY <2>1
        <5> QED
          BY <2>2, <3>2, <4>1, <4>2, <5>1, Zenon
      <4>4. own[At(i)] <=> ~ (i + 1 < n)
        BY <2>2, <3>1, <3>2, <4>1, Zenon DEF Taken
      <4>5. (i + 1 < n) <=> (i < m)
        BY <1>0, <1>2, <2>1, <2>4
      <4> QED
        BY <4>3, <4>4, <4>5, Zenon DEF Ends
    <3>4. CASE ~ (i + 1 < RxBufNb)
      <4>1. i + 1 = RxBufNb /\ ~ (i < m)
        BY <1>0, <1>2, <2>1, <2>4, <3>4
      <4>2. Behind(frame, RxBufNb) = frame
        <5>1. 0 \in 0 .. RxBufNb
          BY <1>0
        <5> QED
          BY <1>1, <5>1, Places
      <4>3. At(i) = frame
        BY <2>2, <3>2, <4>1, <4>2, Zenon
      <4> QED
        BY <2>4, <4>1, <4>3, Zenon DEF Ends
    <3> QED
      BY <3>3, <3>4
  <2> QED
    BY <2>3, <2>4
<1>4. Stretch(m)
  <2>1. \A i \in 0 .. m - 1 : ~Ends(i)
    <3> SUFFICES ASSUME NEW i \in 0 .. m - 1 PROVE ~Ends(i)
      OBVIOUS
    <3>1. i \in 0 .. RxBufNb - 1 /\ i < m
      BY <1>0, <1>2
    <3> QED
      BY <1>3, <3>1
  <2>2. m < RxBufNb => Ends(m)
    <3> SUFFICES ASSUME m < RxBufNb PROVE Ends(m)
      OBVIOUS
    <3>1. m \in 0 .. RxBufNb - 1 /\ ~ (m < m)
      BY <1>0, <1>2
    <3> QED
      BY <1>3, <3>1
  <2> QED
    BY <2>1, <2>2, Zenon DEF Stretch
<1>5. ASSUME NEW k \in 0 .. RxBufNb, Stretch(k)
      PROVE  k = m
  <2>1. CASE k < m
    <3>1. k < RxBufNb /\ k \in 0 .. RxBufNb - 1
      BY <1>0, <1>2, <2>1
    <3>2. Ends(k)
      BY <1>5, <3>1, Zenon DEF Stretch
    <3> QED
      BY <1>3, <2>1, <3>1, <3>2, Zenon
  <2>2. CASE m < k
    <3>1. m \in 0 .. k - 1 /\ m \in 0 .. RxBufNb - 1 /\ ~ (m < m)
      BY <1>0, <1>2, <2>2
    <3>2. ~Ends(m)
      BY <1>5, <3>1, Zenon DEF Stretch
    <3> QED
      BY <1>3, <3>1, <3>2, Zenon
  <2> QED
    BY <1>0, <1>2, <2>1, <2>2
<1>6. (CHOOSE k \in 0 .. RxBufNb : Stretch(k)) = m
  BY <1>2, <1>4, <1>5, Zenon
<1> QED
  BY <1>2, <1>6 DEF m

(* The descriptor of the first frame in the queue, and how many there are:    *)
(* the frame leaves the queue when it is copied, its descriptor later.        *)
First == IF pc = "copy" THEN frame ELSE get
Size(n) == IF pc = "release" THEN n - 1 ELSE n

LEMMA UnreadIs ==
    ASSUME RInv, NEW n \in 0 .. RxBufNb, Taken(n)
    PROVE  /\ Unread = Row(buf, First, Size(n))
           /\ First \in Descriptors /\ Size(n) \in 0 .. RxBufNb
<1>0. RxBufNb \in Nat /\ n \in Nat /\ n <= RxBufNb /\ RxBufNb >= 2
  BY EthRxAssumption
<1>1. get \in Descriptors /\ frame \in Descriptors /\ buf \in Buffers
  BY DEF RInv, IInv, TypeOK, Buffers, Numbers
<1> DEFINE m == Waiting(n)
           rest == [i \in 1 .. m |-> buf[At(i - 1)].frame]
<1>2. /\ m \in 0 .. RxBufNb /\ (Held => m + 1 = n)
      /\ Unread = (IF pc = "copy" THEN <<buf[frame].frame>> ELSE <<>>) \o rest
  BY StretchIs, UnreadUnfolded, Zenon
<1>3. First \in Descriptors /\ Size(n) \in 0 .. RxBufNb
  BY <1>0, <1>1, <1>2 DEF First, Size, Held, Waiting
<1>4. rest = Row(buf, get, m)
  <2>1. ASSUME NEW i \in 1 .. m
        PROVE  At(i - 1) = Behind(get, i - 1)
    <3> DEFINE j == i - 1
    <3>1. j \in 0 .. RxBufNb
      BY <1>0, <1>2
    <3> HIDE DEF j
    <3>2. At(j) = Behind(get, j)
      BY <1>1, <3>1, Around, Zenon DEF At
    <3> QED
      BY <3>2, Zenon DEF j
  <2> HIDE DEF m
  <2> QED
    BY <2>1, Zenon DEF Row
<1>5. CASE pc # "copy"
  <2>1. First = get /\ Size(n) = m
    BY <1>5 DEF First, Size, Held, Waiting
  <2>2. rest \in Seq(Numbers)
    BY <1>1, <1>2, <1>4, RowIs, Zenon
  <2>3. <<>> \o rest = rest
    <3> HIDE DEF rest
    <3> QED
      BY <2>2, ConcatEmptySeq, Zenon
  <2> QED
    BY <1>2, <1>3, <1>4, <1>5, <2>1, <2>3, Zenon
<1>6. CASE pc = "copy"
  <2>1. First = frame /\ Size(n) = n /\ n = m + 1 /\ get = Behind(frame, 1)
    BY <1>2, <1>6 DEF First, Size, Held, Taken
  <2>2. n \in 1 .. RxBufNb /\ n - 1 = m /\ n \in 0 .. RxBufNb
    BY <1>0, <1>2, <2>1
  <2> DEFINE s == Row(buf, frame, n)
  <2> HIDE DEF rest, m
  <2>3. /\ s # <<>> /\ Head(s) = buf[frame].frame /\ Tail(s) = Row(buf, get, m)
        /\ s \in Seq(Numbers)
    <3>1. /\ s # <<>> /\ Head(s) = buf[frame].frame
          /\ Tail(s) = Row(buf, Behind(frame, 1), n - 1)
      BY <1>1, <2>2, RowTaken, Zenon
    <3>2. s \in Seq(Numbers)
      BY <1>1, <2>2, RowIs, Zenon
    <3> QED
      BY <2>1, <2>2, <3>1, <3>2, Zenon
  <2> HIDE DEF s
  <2>4. s = <<Head(s)>> \o Tail(s)
    BY <2>3
  <2> QED
    BY <1>2, <1>3, <1>4, <1>6, <2>1, <2>3, <2>4, Zenon DEF s
<1> QED
  BY <1>5, <1>6

-----------------------------------------------------------------------------
(* Each step of the DMA or the handler is one of the queue, or none.          *)

Rows == \A n \in 0 .. RxBufNb : Taken(n) => Unread = Row(buf, First, Size(n))

LEMMA UnreadRow == RInv => Rows
  BY UnreadIs DEF Rows

LEMMA UnreadRowNext == RInv' => Rows'
  BY UnreadRow, PTL

LEMMA UnreadPrime ==
    ASSUME RInv', NEW n \in 0 .. RxBufNb, Taken(n)'
    PROVE  Unread' = Row(buf, First, Size(n))'
<1>1. Rows'
  BY UnreadRowNext
<1> QED
  BY <1>1, Zenon DEF Rows

LEMMA InitFifo == Init => RInv /\ Fifo!Init
<1> SUFFICES ASSUME Init PROVE RInv /\ Fifo!Init
  OBVIOUS
<1>1. IInv
  BY InitIInv
<1>2. AllWhole
  BY DEF Init, AllWhole
<1>3. 0 \in 0 .. RxBufNb /\ 0 \in Descriptors /\ Behind(0, 0) = 0
  BY EthRxAssumption DEF Descriptors, Behind
<1>4. Taken(0)
  <2>1. ~Held /\ Oldest = 0
    BY DEF Init, Held, Oldest
  <2>2. \A d \in Descriptors : ~ (Distance(d, 0) < 0)
    BY EthRxAssumption DEF Distance, Descriptors
  <2> QED
    BY <1>3, <2>1, <2>2 DEF Init, Taken
<1>5. RInv
  BY <1>1, <1>2, <1>3, <1>4, Zenon DEF RInv
<1>6. Unread = <<>>
  <2>1. Unread = Row(buf, First, Size(0)) /\ Size(0) = 0
    <3>1. Size(0) = 0
      BY DEF Size, Init
    <3> QED
      BY <1>3, <1>4, <1>5, <3>1, UnreadIs, Zenon
  <2>2. buf \in Buffers /\ First \in Descriptors
    BY <1>1, <1>3 DEF IInv, TypeOK, Buffers, Numbers, First, Init
  <2>3. Row(buf, First, 0) \in Seq(Numbers) /\ Len(Row(buf, First, 0)) = 0
    BY <1>3, <2>2, RowIs
  <2> QED
    BY <2>1, <2>3
<1>7. Fifo!Init
  BY <1>6 DEF Fifo!Init, Init
<1> QED
  BY <1>5, <1>7

(* A frame stored behind those that wait.                                     *)
LEMMA ArriveFifo ==
    ASSUME RInv, IInv', Arrive, Long = {}
    PROVE  RInv' /\ Fifo!Put
<1>0. RxBufNb \in Nat /\ RxBufNb >= 2
  BY EthRxAssumption
<1>1. PICK n \in 0 .. RxBufNb : Taken(n)
  BY DEF RInv
<1>2. /\ get \in Descriptors /\ frame \in Descriptors /\ dma \in Descriptors
      /\ buf \in Buffers /\ buf' \in Buffers
      /\ own \in [Descriptors -> BOOLEAN] /\ Oldest \in Descriptors
      /\ n \in Nat /\ n <= RxBufNb
  BY <1>0 DEF RInv, IInv, TypeOK, Buffers, Numbers, Oldest
<1>3. /\ own[dma]
      /\ buf' = [buf EXCEPT ![dma] =
                    [frame |-> newest', fs |-> TRUE, ls |-> TRUE]]
      /\ own' = [own EXCEPT ![dma] = FALSE]
      /\ dma' = Following(dma)
      /\ newest' = newest + 1
      /\ UNCHANGED <<get, pc, frame, handed>>
  BY DEF Arrive, Stored
<1>4. n < RxBufNb
  <2>1. CASE n = RxBufNb
    <3>1. 0 \in 0 .. RxBufNb /\ 0 < RxBufNb
      BY <1>0
    <3>2. Behind(Oldest, RxBufNb) = Oldest /\ Distance(Oldest, Oldest) = 0
      BY <1>2, <3>1, Places
    <3>3. dma = Oldest
      BY <1>1, <2>1, <3>2, Zenon DEF Taken
    <3> QED
      BY <1>1, <1>2, <1>3, <2>1, <3>1, <3>2, <3>3, Zenon DEF Taken
  <2> QED
    BY <1>0, <1>2, <2>1
<1>5. dma = Behind(Oldest, n) /\ Distance(dma, Oldest) = n
  BY <1>1, <1>2, <1>4, Places DEF Taken
<1>6. UNCHANGED <<Held, Oldest>>
  BY <1>3 DEF Held, Oldest
<1>7. n + 1 \in 0 .. RxBufNb /\ n + 1 > 0 /\ n \in 0 .. RxBufNb
  BY <1>0, <1>2, <1>4
<1>8. Taken(n + 1)'
  <2>1. ASSUME NEW d \in Descriptors
        PROVE  own'[d] <=> ~ (Distance(d, Oldest) < n + 1)
    <3>1. own[d] <=> ~ (Distance(d, Oldest) < n)
      BY <1>1 DEF Taken
    <3>2. /\ Distance(d, Oldest) \in Nat
          /\ Distance(d, Oldest) = n => d = Behind(Oldest, n)
      BY <1>0, <1>2, Places
    <3>3. CASE d = dma
      BY <1>2, <1>3, <1>5, <3>3
    <3>4. CASE d # dma
      <4>1. own'[d] = own[d] /\ Distance(d, Oldest) # n
        BY <1>2, <1>3, <1>5, <3>2, <3>4
      <4> QED
        BY <1>2, <3>1, <3>2, <4>1
    <3> QED
      BY <3>3, <3>4
  <2>2. dma' = Behind(Oldest, n + 1)
    <3>1. Following(dma) = Behind(dma, 1)
      BY <1>2, FollowingIs
    <3>2. Behind(Behind(Oldest, n), 1) = Behind(Oldest, n + 1)
      BY <1>2, <1>4, Places
    <3> QED
      BY <1>3, <1>5, <3>1, <3>2, Zenon
  <2>3. Held => get = Behind(frame, 1)
    BY <1>1 DEF Taken
  <2> QED
    BY <1>3, <1>6, <1>7, <2>1, <2>2, <2>3 DEF Taken
<1>9. AllWhole'
  BY <1>2, <1>3 DEF RInv, AllWhole, Whole, Buffers
<1>10. RInv'
  BY <1>7, <1>8, <1>9 DEF RInv
<1>11. /\ Unread = Row(buf, First, Size(n))
       /\ First \in Descriptors /\ Size(n) \in 0 .. RxBufNb
  BY <1>1, UnreadIs
<1>12. Unread' = Row(buf', First, Size(n) + 1)
  <2>1. Unread' = Row(buf, First, Size(n + 1))'
    BY <1>7, <1>8, <1>10, UnreadPrime, Zenon
  <2>2. First' = First /\ Size(n + 1)' = Size(n) + 1
    BY <1>2, <1>3 DEF First, Size
  <2>3. Row(buf, First, Size(n + 1))' = Row(buf', First', Size(n + 1)')
    BY Zenon DEF Row, Behind
  <2> QED
    BY <2>1, <2>2, <2>3, Zenon
<1>13. Size(n) \in 0 .. RxBufNb - 1 /\ Behind(First, Size(n)) = dma
  <2>1. CASE pc = "release"
    <3>1. /\ Size(n) = n - 1 /\ First = get /\ Held /\ Oldest = frame
          /\ n > 0 /\ get = Behind(frame, 1)
      BY <1>1, <2>1 DEF Size, First, Held, Oldest, Taken
    <3>2. Behind(Behind(frame, 1), n - 1) = Behind(frame, n)
      BY <1>2, <3>1, Places
    <3> QED
      BY <1>0, <1>2, <1>4, <1>5, <3>1, <3>2
  <2>2. CASE pc # "release"
    <3>1. Size(n) = n /\ First = Oldest
      BY <2>2 DEF Size, First, Held, Oldest
    <3> QED
      BY <1>0, <1>2, <1>4, <1>5, <3>1
  <2> QED
    BY <2>1, <2>2
<1>14. Unread' = Append(Unread, newest') /\ Len(Unread) < RxBufNb
  <2>1. /\ \A d \in Descriptors : d # dma => buf'[d] = buf[d]
        /\ buf'[dma].frame = newest'
    BY <1>2, <1>3 DEF Buffers
  <2> DEFINE c == Size(n)
             f == First
             b == buf'
  <2>2. /\ f \in Descriptors /\ c \in 0 .. RxBufNb - 1 /\ b \in Buffers
        /\ \A d \in Descriptors : d # Behind(f, c) => b[d] = buf[d]
    BY <1>2, <1>11, <1>13, <2>1, Zenon
  <2> HIDE DEF c, f, b
  <2>3. Row(b, f, c + 1) = Append(Row(buf, f, c), b[Behind(f, c)].frame)
    BY <1>2, <2>2, RowStored
  <2>4. Len(Row(buf, f, c)) = c /\ c < RxBufNb
    <3>1. c \in 0 .. RxBufNb /\ c < RxBufNb
      BY <1>0, <2>2
    <3> QED
      BY <1>2, <2>2, <3>1, RowIs
  <2> QED
    BY <1>11, <1>12, <1>13, <2>1, <2>3, <2>4, Zenon DEF c, f, b
<1>15. Fifo!Put
  BY <1>3, <1>14, Zenon DEF Fifo!Put
<1> QED
  BY <1>10, <1>15

(* What moves neither descriptors nor frames, while none is held.             *)
LEMMA QuietFifo ==
    ASSUME RInv, IInv', UNCHANGED <<own, buf, dma, get, frame>>,
           pc' = pc \/ (~Held /\ ~Held')
    PROVE  RInv' /\ Unread' = Unread
<1>1. PICK n \in 0 .. RxBufNb : Taken(n)
  BY DEF RInv
<1>2. /\ Oldest' = Oldest /\ (Held' <=> Held)
      /\ First' = First /\ Size(n)' = Size(n)
  BY DEF Oldest, Held, First, Size
<1>3. Taken(n)'
  BY <1>1, <1>2 DEF Taken
<1>4. AllWhole'
  BY DEF RInv, AllWhole, Whole
<1>5. RInv'
  BY <1>3, <1>4 DEF RInv
<1>6. Unread = Row(buf, First, Size(n)) /\ Unread' = Row(buf, First, Size(n))'
  BY <1>1, <1>3, <1>5, UnreadIs, UnreadPrime, Zenon
<1>7. Row(buf, First, Size(n))' = Row(buf, First, Size(n))
  BY <1>2, Zenon DEF Row, Behind
<1> QED
  BY <1>5, <1>6, <1>7, Zenon

(* The DMA loses a frame when it owns no descriptor.                          *)
LEMMA OverrunFifo ==
    ASSUME RInv, IInv', Overrun, Long = {}
    PROVE  RInv' /\ Fifo!Lose
<1>0. RxBufNb \in Nat /\ RxBufNb >= 2
  BY EthRxAssumption
<1>1. PICK n \in 0 .. RxBufNb : Taken(n)
  BY DEF RInv
<1>2. /\ ~own[dma] /\ newest' = newest + 1
      /\ UNCHANGED <<own, buf, dma, get, frame, pc, handed>>
  BY DEF Overrun
<1>3. /\ Oldest \in Descriptors /\ dma \in Descriptors /\ buf \in Buffers
      /\ n \in Nat /\ n <= RxBufNb /\ dma = Behind(Oldest, n)
  BY <1>0, <1>1 DEF RInv, IInv, TypeOK, Buffers, Numbers, Oldest, Taken
<1>4. n = RxBufNb
  <2>1. CASE n < RxBufNb
    <3>1. Distance(dma, Oldest) = n
      BY <1>3, <2>1, Places
    <3>2. own[dma] <=> ~ (n < n)
      BY <1>1, <1>3, <3>1, Zenon DEF Taken
    <3> QED
      BY <1>2, <1>3, <3>2
  <2> QED
    BY <1>0, <1>3, <2>1
<1>5. /\ Unread = Row(buf, First, Size(n)) /\ First \in Descriptors
      /\ Size(n) \in 0 .. RxBufNb
  BY <1>1, UnreadIs
<1>6. Len(Unread) = Size(n)
  BY <1>3, <1>5, RowIs
<1>7. Size(n) >= RxBufNb - 1
  BY <1>0, <1>4 DEF Size
<1>8. RInv' /\ Unread' = Unread
  BY <1>2, QuietFifo
<1> QED
  BY <1>2, <1>6, <1>7, <1>8 DEF Fifo!Lose

(* ETH_RxPkt_ChainMode takes the oldest descriptor: the queue is the same.    *)
LEMMA TakeFifo ==
    ASSUME RInv, IInv', ETH_RxPkt_ChainMode
    PROVE  RInv' /\ Unread' = Unread
<1>0. RxBufNb \in Nat /\ RxBufNb >= 2
  BY EthRxAssumption
<1>1. CASE own[get]
  <2>1. UNCHANGED <<own, buf, dma, get, frame>> /\ ~Held /\ ~Held'
    BY <1>1 DEF ETH_RxPkt_ChainMode, Held
  <2> QED
    BY <2>1, QuietFifo
<1>2. CASE ~own[get]
  <2>1. PICK n \in 0 .. RxBufNb : Taken(n)
    BY DEF RInv
  <2>2. get \in Descriptors /\ Whole(get)
    BY <1>2 DEF RInv, IInv, TypeOK, AllWhole
  <2>3. /\ pc = "input" /\ pc' = "copy"
        /\ frame' = get /\ get' = Behind(get, 1)
        /\ UNCHANGED <<own, buf, dma, newest, handed>>
    BY <1>2, <2>2, FollowingIs DEF ETH_RxPkt_ChainMode
  <2>4. ~Held /\ Held' /\ Oldest = get /\ Oldest' = get
    BY <2>3 DEF Held, Oldest
  <2>5. n > 0
    <3>1. 0 \in 0 .. RxBufNb /\ 0 < RxBufNb
      BY <1>0
    <3>2. Distance(get, get) = 0
      BY <2>2, <3>1, Places
    <3>3. 0 < n
      BY <1>2, <2>1, <2>2, <2>4, <3>2, Zenon DEF Taken
    <3> QED
      BY <1>0, <3>3
  <2>6. Taken(n)'
    BY <2>1, <2>3, <2>4, <2>5 DEF Taken
  <2>7. AllWhole'
    BY <2>3 DEF RInv, AllWhole, Whole
  <2>8. RInv'
    BY <2>6, <2>7 DEF RInv
  <2>9. Unread = Row(buf, First, Size(n)) /\ Unread' = Row(buf, First, Size(n))'
    BY <2>1, <2>6, <2>8, UnreadIs, UnreadPrime, Zenon
  <2>10. First = get /\ First' = get /\ Size(n) = n /\ Size(n)' = n
    BY <2>3 DEF First, Size
  <2>11. Row(buf, First, Size(n))' = Row(buf, First, Size(n))
    BY <2>3, <2>10, Zenon DEF Row, Behind
  <2> QED
    BY <2>8, <2>9, <2>11, Zenon
<1> QED
  BY <1>1, <1>2

(* low_level_input takes the oldest frame out of the queue.                   *)
LEMMA CopyFifo ==
    ASSUME RInv, IInv', Copy
    PROVE  RInv' /\ (Fifo!HandOn \/ Fifo!Refuse)
<1>0. RxBufNb \in Nat /\ RxBufNb >= 2
  BY EthRxAssumption
<1>1. PICK n \in 0 .. RxBufNb : Taken(n)
  BY DEF RInv
<1>2. /\ pc = "copy" /\ pc' = "release" /\ p' \in BOOLEAN
      /\ handed' = IF p' THEN buf[frame].frame ELSE handed
      /\ UNCHANGED <<own, buf, dma, get, frame, newest>>
  BY DEF Copy
<1>3. /\ Held /\ Held' /\ Oldest = frame /\ Oldest' = frame
      /\ First = frame /\ Size(n) = n /\ First' = get /\ Size(n)' = n - 1
  BY <1>2 DEF Held, Oldest, First, Size
<1>4. n \in 1 .. RxBufNb /\ get = Behind(frame, 1)
  BY <1>0, <1>1, <1>3 DEF Taken
<1>5. frame \in Descriptors /\ buf \in Buffers
  BY DEF RInv, IInv, TypeOK, Buffers, Numbers
<1>6. Taken(n)'
  BY <1>1, <1>2, <1>3 DEF Taken
<1>7. AllWhole'
  BY <1>2 DEF RInv, AllWhole, Whole
<1>8. RInv'
  BY <1>6, <1>7 DEF RInv
<1>9. Unread = Row(buf, First, Size(n)) /\ Unread' = Row(buf, First, Size(n))'
  BY <1>1, <1>6, <1>8, UnreadIs, UnreadPrime, Zenon
<1>10. Row(buf, First, Size(n))' = Row(buf, get, n - 1)
  BY <1>2, <1>3, Zenon DEF Row, Behind
<1>11. /\ Row(buf, frame, n) # <<>>
       /\ Head(Row(buf, frame, n)) = buf[frame].frame
       /\ Tail(Row(buf, frame, n)) = Row(buf, Behind(frame, 1), n - 1)
  BY <1>4, <1>5, RowTaken, Zenon
<1>12. /\ Unread # <<>> /\ Head(Unread) = buf[frame].frame
       /\ Unread' = Tail(Unread)
  BY <1>3, <1>4, <1>9, <1>10, <1>11, Zenon
<1>13. Fifo!HandOn \/ Fifo!Refuse
  BY <1>2, <1>12, Zenon DEF Fifo!HandOn, Fifo!Refuse
<1> QED
  BY <1>8, <1>13

(* The descriptor goes back; its frame has left the queue before.             *)
LEMMA ReleaseFifo ==
    ASSUME RInv, IInv', Release
    PROVE  RInv' /\ Unread' = Unread
<1>0. RxBufNb \in Nat /\ RxBufNb >= 2
  BY EthRxAssumption
<1>1. PICK n \in 0 .. RxBufNb : Taken(n)
  BY DEF RInv
<1>2. /\ pc = "release" /\ pc' \in {"input", "size"}
      /\ own' = [own EXCEPT ![frame] = TRUE]
      /\ UNCHANGED <<buf, dma, get, frame, newest, handed>>
  BY DEF Release
<1>3. /\ Held /\ ~Held' /\ Oldest = frame /\ Oldest' = get
      /\ First = get /\ Size(n) = n - 1 /\ First' = get
  BY <1>2 DEF Held, Oldest, First, Size
<1>4. /\ n \in Nat /\ n > 0 /\ n <= RxBufNb /\ n - 1 \in 0 .. RxBufNb
      /\ get = Behind(frame, 1)
  BY <1>0, <1>1, <1>3 DEF Taken
<1>5. /\ frame \in Descriptors /\ buf \in Buffers
      /\ own \in [Descriptors -> BOOLEAN]
  BY DEF RInv, IInv, TypeOK, Buffers, Numbers
<1>6. Taken(n - 1)'
  <2>1. ASSUME NEW d \in Descriptors
        PROVE  own'[d] <=> ~ (Distance(d, get) < n - 1)
    <3>1. /\ Distance(d, frame) \in 0 .. RxBufNb - 1
          /\ Distance(d, get) =
                IF d = frame THEN RxBufNb - 1 ELSE Distance(d, frame) - 1
      <4>1. 0 \in 0 .. RxBufNb
        BY <1>0
      <4> QED
        BY <1>4, <1>5, <4>1, Places
    <3>2. own[d] <=> ~ (Distance(d, frame) < n)
      BY <1>1, <1>3 DEF Taken
    <3>3. CASE d = frame
      BY <1>0, <1>2, <1>4, <1>5, <3>1, <3>3
    <3>4. CASE d # frame
      <4>1. own'[d] = own[d]
        BY <1>2, <1>5, <3>4
      <4>2. (Distance(d, frame) < n) <=> (Distance(d, get) < n - 1)
        BY <1>0, <1>4, <3>1, <3>4
      <4> QED
        BY <3>2, <4>1, <4>2, Zenon
    <3> QED
      BY <3>3, <3>4
  <2>2. dma' = Behind(get, n - 1)
    <3>1. Behind(Behind(frame, 1), n - 1) = Behind(frame, n)
      BY <1>4, <1>5, Places
    <3> QED
      BY <1>1, <1>2, <1>3, <1>4, <3>1 DEF Taken
  <2> QED
    BY <1>3, <2>1, <2>2 DEF Taken
<1>7. AllWhole'
  BY <1>2, <1>5 DEF RInv, AllWhole, Whole
<1>8. RInv'
  BY <1>4, <1>6, <1>7 DEF RInv
<1>9. Unread = Row(buf, First, Size(n))
  BY <1>1, UnreadIs
<1>10. Unread' = Row(buf, First, Size(n - 1))'
  <2> DEFINE m == n - 1
  <2>1. m \in 0 .. RxBufNb /\ Taken(m)'
    BY <1>4, <1>6
  <2> HIDE DEF m
  <2>2. Unread' = Row(buf, First, Size(m))'
    BY <1>8, <2>1, UnreadPrime, Zenon
  <2> QED
    BY <2>2, Zenon DEF m
<1>11. Size(n - 1)' = n - 1
  BY <1>2 DEF Size
<1>12. Row(buf, First, Size(n - 1))' = Row(buf, First, Size(n))
  BY <1>2, <1>3, <1>11, Zenon DEF Row, Behind
<1> QED
  BY <1>8, <1>9, <1>10, <1>12, Zenon

LEMMA StepFifo ==
    ASSUME Long = {}
    PROVE  RInv /\ [Next]_vars => RInv' /\ [Fifo!Next]_(Fifo!vars)
<1> SUFFICES ASSUME RInv, [Next]_vars
             PROVE  RInv' /\ [Fifo!Next]_(Fifo!vars)
  OBVIOUS
<1>1. IInv'
  <2>1. CASE UNCHANGED vars
    BY <2>1 DEF vars, RInv, IInv, TypeOK, FrameIsOurs, Whole
  <2> QED
    BY <2>1, StepKeepsFrame DEF RInv
<1>2. ASSUME UNCHANGED <<own, buf, dma, get, frame, newest, handed>>,
             pc' = pc \/ (~Held /\ ~Held')
      PROVE  RInv' /\ [Fifo!Next]_(Fifo!vars)
  BY <1>1, <1>2, QuietFifo DEF Fifo!vars
<1>3. CASE UNCHANGED vars
  BY <1>2, <1>3 DEF vars
<1>4. CASE Arrive
  BY <1>1, <1>4, ArriveFifo DEF Fifo!Next
<1>5. CASE Overrun
  BY <1>1, <1>5, OverrunFifo DEF Fifo!Next
<1>6. CASE Enter
  BY <1>2, <1>6 DEF Enter, Held
<1>7. CASE ETH_GetRxPktSize
  BY <1>2, <1>7 DEF ETH_GetRxPktSize, Held
<1>8. CASE ETH_RxPkt_ChainMode
  <2>1. UNCHANGED <<newest, handed>>
    BY <1>8 DEF ETH_RxPkt_ChainMode
  <2> QED
    BY <1>1, <1>8, <2>1, TakeFifo DEF Fifo!vars
<1>9. CASE Copy
  BY <1>1, <1>9, CopyFifo DEF Fifo!Next
<1>10. CASE Release
  <2>1. UNCHANGED <<newest, handed>>
    BY <1>10 DEF Release
  <2> QED
    BY <1>1, <1>10, <2>1, ReleaseFifo DEF Fifo!vars
<1>11. CASE ClearPending
  BY <1>2, <1>11 DEF ClearPending, Held
<1> QED
  BY <1>3, <1>4, <1>5, <1>6, <1>7, <1>8, <1>9, <1>10, <1>11
     DEF Next, ETH_IRQHandler

(* Of frames that fit a buffer the ring is a queue, for any number of         *)
(* descriptors: handed on whole, in order and once, and lost only when all    *)
(* buffers but one are taken (ethernetif.c 229-280, 388-427).                 *)
THEOREM RingIsQueue ==
    ASSUME Long = {}
    PROVE  Spec => FifoImplemented
<1>1. Init => RInv /\ Fifo!Init
  BY InitFifo
<1>2. RInv /\ [Next]_vars => RInv' /\ [Fifo!Next]_(Fifo!vars)
  BY StepFifo
<1>3. Spec => Fifo!Init /\ [][Fifo!Next]_(Fifo!vars)
  BY <1>1, <1>2, PTL DEF Spec
<1> QED
  BY <1>3 DEF FifoImplemented, Fifo!Spec
=============================================================================
