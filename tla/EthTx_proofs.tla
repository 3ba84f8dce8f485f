----------------------------- MODULE EthTx_proofs -----------------------------
(* Proofs about the transmit ring, for any number of descriptors, with        *)
(* outputs of the interrupt anywhere in those of the main loop.               *)
EXTENDS EthTx, Integers, TLAPS

Mod(k, n) == k % n

(* Once around the ring.                                                      *)
LEMMA Wrap ==
    ASSUME NEW k \in 0 .. 2 * TxBufNb - 1
    PROVE  Mod(k, TxBufNb) = IF k < TxBufNb THEN k ELSE k - TxBufNb
<1>1. CASE k < TxBufNb
  BY <1>1, EthTxAssumption DEF Mod
<1>2. CASE ~(k < TxBufNb)
  <2> DEFINE q == k \div TxBufNb
             r == k % TxBufNb
  <2>1. /\ q \in Int /\ r \in Int /\ 0 <= r /\ r < TxBufNb
        /\ k = TxBufNb * q + r
    BY EthTxAssumption
  <2>2. q = 1
    <3>1. CASE q <= 0
      <4>1. TxBufNb * q <= 0
        BY <2>1, <3>1, EthTxAssumption
      <4> QED
        BY <1>2, <2>1, <4>1, EthTxAssumption
    <3>2. CASE q >= 2
      <4>1. TxBufNb * q >= TxBufNb * 2
        BY <2>1, <3>2, EthTxAssumption
      <4> QED
        BY <2>1, <4>1, EthTxAssumption
    <3> QED
      BY <2>1, <3>1, <3>2
  <2>3. k = TxBufNb + r
    BY <2>1, <2>2, EthTxAssumption
  <2> QED
    BY <1>2, <2>1, <2>3, EthTxAssumption DEF Mod
<1> QED
  BY <1>1, <1>2

(* InRow without remainders: how far d lies behind the DMA, and what     *)
(* lies n behind d.                                                           *)
Distance(d, from) == IF d >= from THEN d - from ELSE d + TxBufNb - from
Behind(d, n) == IF d + n < TxBufNb THEN d + n ELSE d + n - TxBufNb
Queued(n) ==
    /\ \A d \in Descriptors : own[d] <=> Distance(d, dma) < n
    /\ Upcoming = Behind(dma, n)

LEMMA FollowingIs ==
    ASSUME NEW d \in Descriptors
    PROVE  Following(d) = Behind(d, 1) /\ Following(d) \in Descriptors
<1>1. d \in Nat /\ d < TxBufNb
  BY EthTxAssumption DEF Descriptors
<1>2. d + 1 \in 0 .. 2 * TxBufNb - 1
  BY <1>1, EthTxAssumption
<1>3. PICK k \in 0 .. 2 * TxBufNb - 1 : k = d + 1
  BY <1>2
<1>4. k % TxBufNb = IF k < TxBufNb THEN k ELSE k - TxBufNb
  BY Wrap DEF Mod
<1>5. Behind(d, 1) = IF k < TxBufNb THEN k ELSE k - TxBufNb
  BY <1>1, <1>3, EthTxAssumption DEF Behind
<1>6. Following(d) = Behind(d, 1)
  BY <1>3, <1>4, <1>5, Zenon DEF Following
<1> QED
  BY <1>1, <1>6, EthTxAssumption DEF Behind, Descriptors

Linear == \E n \in 0 .. TxBufNb : Queued(n)
Ring == dma \in Descriptors /\ own \in [Descriptors -> BOOLEAN]

LEMMA InRowIs == Ring => (InRow <=> Linear)
<1> SUFFICES ASSUME Ring PROVE InRow <=> Linear
  OBVIOUS
<1> USE DEF Ring
<1>1. ASSUME NEW n \in 0 .. TxBufNb
      PROVE  /\ own = [d \in Descriptors |-> (d + TxBufNb - dma) % TxBufNb < n]
             /\ Upcoming = (dma + n) % TxBufNb
             <=> Queued(n)
  <2>1. dma \in Nat /\ dma < TxBufNb
    BY EthTxAssumption DEF Descriptors
  <2>2. ASSUME NEW d \in Descriptors
        PROVE  (d + TxBufNb - dma) % TxBufNb = Distance(d, dma)
    <3>1. d \in Nat /\ d < TxBufNb
      BY EthTxAssumption DEF Descriptors
    <3>2. d + TxBufNb - dma \in 0 .. 2 * TxBufNb - 1
      BY <2>1, <3>1, EthTxAssumption
    <3>3. PICK k \in 0 .. 2 * TxBufNb - 1 : k = d + TxBufNb - dma
      BY <3>2
    <3>4. k % TxBufNb = IF k < TxBufNb THEN k ELSE k - TxBufNb
      BY Wrap DEF Mod
    <3>5. Distance(d, dma) = IF k < TxBufNb THEN k ELSE k - TxBufNb
      BY <2>1, <3>1, <3>3, EthTxAssumption DEF Distance
    <3> QED
      BY <3>3, <3>4, <3>5, Zenon
  <2>3. (dma + n) % TxBufNb = Behind(dma, n)
    <3>1. dma + n \in 0 .. 2 * TxBufNb - 1
      BY <2>1, EthTxAssumption
    <3>2. PICK k \in 0 .. 2 * TxBufNb - 1 : k = dma + n
      BY <3>1
    <3>3. k % TxBufNb = IF k < TxBufNb THEN k ELSE k - TxBufNb
      BY Wrap DEF Mod
    <3>4. Behind(dma, n) = IF k < TxBufNb THEN k ELSE k - TxBufNb
      BY <2>1, <3>2, EthTxAssumption DEF Behind
    <3> QED
      BY <3>2, <3>3, <3>4, Zenon
  <2>4. own = [d \in Descriptors |-> (d + TxBufNb - dma) % TxBufNb < n]
        <=> \A d \in Descriptors : own[d] <=> Distance(d, dma) < n
    <3>1. [d \in Descriptors |-> (d + TxBufNb - dma) % TxBufNb < n]
          = [d \in Descriptors |-> Distance(d, dma) < n]
      BY <2>2
    <3>2. own = [d \in Descriptors |-> Distance(d, dma) < n]
          <=> \A d \in Descriptors : own[d] = (Distance(d, dma) < n)
      OBVIOUS
    <3> QED
      BY <3>1, <3>2
  <2> QED
    BY <2>3, <2>4 DEF Queued
<1> QED
  BY <1>1 DEF InRow, Linear

-----------------------------------------------------------------------------
Fields ==
    /\ own \in [Descriptors -> BOOLEAN]
    /\ buf \in [Descriptors -> Nat]
    /\ dma \in Descriptors /\ set \in Descriptors
    /\ pc \in [Contexts -> {"idle", "copy", "check", "own", "advance"}]
    /\ desc \in [Contexts -> Descriptors]
    /\ mine \in [Contexts -> Nat]
    /\ newest \in Nat
    /\ torn \in BOOLEAN

(* Nobody sends inside a handover of the main loop; what a handover works on  *)
(* is still the descriptor DMATxDescToSet points to; and it hands this over   *)
(* only if the DMA has not got it.                                            *)
Alone == Handover("main") => pc["irq"] = "idle"
Latched == \A c \in Contexts : Handover(c) => desc[c] = set
Free == \A c \in Contexts : pc[c] = "own" => ~own[set]

Tidy == Alone /\ Latched /\ Free /\ InRow

IInv == Fields /\ (~torn => Tidy)

LEMMA InitHolds == Init => IInv
<1> SUFFICES ASSUME Init PROVE IInv
  OBVIOUS
<1>1. 0 \in Descriptors
  BY EthTxAssumption DEF Descriptors
<1>2. Fields /\ Alone /\ Latched /\ Free
  BY <1>1 DEF Init, Fields, Alone, Latched, Free, Handover, Contexts
<1>3. Upcoming = 0
  BY DEF Init, Upcoming
<1>4. Queued(0)
  BY <1>1, <1>3, EthTxAssumption DEF Init, Queued, Distance, Behind, Descriptors
<1>5. InRow
  BY <1>2, <1>4, InRowIs, EthTxAssumption DEF Fields, Ring, Linear
<1> QED
  BY <1>2, <1>5 DEF IInv, Tidy

LEMMA FieldsStep == Fields /\ [Next]_vars => Fields'
<1> SUFFICES ASSUME Fields, [Next]_vars PROVE Fields'
  OBVIOUS
<1> USE DEF Fields
<1>0. \A d \in Descriptors : Following(d) \in Descriptors
  BY FollowingIs
<1>1. ASSUME NEW c \in Contexts, Output(c) PROVE Fields'
  BY <1>1 DEF Output, Goto
<1>2. ASSUME NEW c \in Contexts, Copy(c) PROVE Fields'
  BY <1>2 DEF Copy, Goto, At
<1>3. ASSUME NEW c \in Contexts, Check(c) PROVE Fields'
  BY <1>3 DEF Check, Goto, At
<1>4. ASSUME NEW c \in Contexts, SetOwn(c) PROVE Fields'
  BY <1>4 DEF SetOwn, Goto, At
<1>5. ASSUME NEW c \in Contexts, Advance(c) PROVE Fields'
  BY <1>0, <1>5 DEF Advance, Goto, At
<1>6. ASSUME Send PROVE Fields'
  BY <1>0, <1>6 DEF Send
<1>7. ASSUME UNCHANGED vars PROVE Fields'
  BY <1>7 DEF vars
<1> QED
  BY <1>1, <1>2, <1>3, <1>4, <1>5, <1>6, <1>7 DEF Next, Step

(* Steps that leave the ring and DMATxDescToSet as they are.                  *)
LEMMA SameRing ==
    ASSUME UNCHANGED <<own, dma, Upcoming>>, InRow
    PROVE  InRow'
  BY DEF InRow

LEMMA OutputKeeps ==
    ASSUME Fields, Tidy, NEW c \in Contexts, Output(c), ~torn'
    PROVE  Tidy'
<1>1. /\ pc[c] = "idle" /\ \A e \in Contexts : ~Handover(e)
      /\ pc' = [pc EXCEPT ![c] = "copy"]
      /\ desc' = [desc EXCEPT ![c] = set]
      /\ UNCHANGED <<own, buf, dma, set>>
  BY DEF Output, Goto, At
<1>2. \A e \in Contexts : ~Handover(e)'
  BY <1>1 DEF Fields, Handover
<1>3. (Alone /\ Latched /\ Free)'
  BY <1>2 DEF Alone, Latched, Free, Handover, Contexts
<1>4. UNCHANGED Upcoming
  BY <1>1, <1>2 DEF Upcoming, Handover
<1> QED
  BY <1>1, <1>3, <1>4, SameRing DEF Tidy

LEMMA CopyKeeps ==
    ASSUME Fields, Tidy, NEW c \in Contexts, Copy(c)
    PROVE  Tidy'
<1>1. /\ pc[c] = "copy" /\ pc' = [pc EXCEPT ![c] = "check"] /\ Runs(c)
      /\ UNCHANGED <<own, dma, set, desc>>
  BY DEF Copy, At, Goto
<1>2. (Alone /\ Latched /\ Free)'
  BY <1>1 DEF Fields, Tidy, Alone, Latched, Free, Handover, Contexts
<1>3. UNCHANGED Upcoming
  BY <1>1 DEF Fields, Upcoming
<1> QED
  BY <1>1, <1>2, <1>3, SameRing DEF Tidy

LEMMA CheckKeeps ==
    ASSUME Fields, Tidy, NEW c \in Contexts, Check(c)
    PROVE  Tidy'
<1>1. /\ pc[c] = "check" /\ Runs(c)
      /\ \/ pc' = [pc EXCEPT ![c] = "idle"] /\ desc' = desc
         \/ /\ pc' = [pc EXCEPT ![c] = "own"] /\ ~own[set]
            /\ desc' = [desc EXCEPT ![c] = set]
      /\ UNCHANGED <<own, dma, set>>
  BY DEF Check, At, Goto
<1>2. (Alone /\ Latched /\ Free)'
  BY <1>1 DEF Fields, Tidy, Alone, Latched, Free, Handover, Contexts, Runs
<1>3. UNCHANGED Upcoming
  BY <1>1 DEF Fields, Upcoming
<1> QED
  BY <1>1, <1>2, <1>3, SameRing DEF Tidy

LEMMA SetOwnKeeps ==
    ASSUME Fields, Tidy, NEW c \in Contexts, SetOwn(c)
    PROVE  Tidy'
<1>1. /\ pc[c] = "own" /\ pc' = [pc EXCEPT ![c] = "advance"] /\ Runs(c)
      /\ own' = [own EXCEPT ![set] = TRUE]
      /\ UNCHANGED <<buf, dma, set, desc>>
  BY DEF SetOwn, At, Goto, Tidy, Latched, Handover
<1>2. \A e \in Contexts : Handover(e) => e = c
  BY <1>1 DEF Tidy, Alone, Runs, Handover, Contexts
<1>3. (Alone /\ Latched /\ Free)'
  BY <1>1, <1>2 DEF Fields, Tidy, Alone, Latched, Free, Handover, Contexts, Runs
<1>4. Upcoming = set /\ Upcoming' = Following(set) /\ ~own[set]
  <2>1. \A e \in Contexts : pc[e] # "advance"
    BY <1>1, <1>2 DEF Handover
  <2>2. pc'[c] = "advance"
    BY <1>1 DEF Fields
  <2>3. ~own[set]
    BY <1>1 DEF Tidy, Free
  <2> QED
    BY <1>1, <2>1, <2>2, <2>3 DEF Upcoming
<1>5. PICK n \in 0 .. TxBufNb : Queued(n)
  BY InRowIs DEF Fields, Tidy, Ring, Linear
<1>6. /\ dma \in Nat /\ dma < TxBufNb /\ set \in Nat /\ set < TxBufNb
      /\ set = Behind(dma, n) /\ ~(Distance(set, dma) < n)
  BY <1>4, <1>5, EthTxAssumption DEF Queued, Fields, Descriptors
<1>7. n < TxBufNb /\ Distance(set, dma) = n
  BY <1>6, EthTxAssumption DEF Behind, Distance
<1>8. ASSUME NEW d \in Descriptors
      PROVE  own'[d] <=> Distance(d, dma) < n + 1
  <2>1. d \in Nat /\ d < TxBufNb
    BY EthTxAssumption DEF Descriptors
  <2>2. CASE d = set
    BY <1>1, <1>7, <2>2, EthTxAssumption DEF Fields
  <2>3. CASE d # set
    <3>1. own'[d] <=> Distance(d, dma) < n
      BY <1>1, <1>5, <2>3 DEF Queued, Fields
    <3>2. Distance(d, dma) \in Int /\ Distance(d, dma) # n
      BY <1>6, <2>1, <2>3, <1>7, EthTxAssumption DEF Distance
    <3> QED
      BY <3>1, <3>2, EthTxAssumption
  <2> QED
    BY <2>2, <2>3
<1>9. Upcoming' = Behind(dma, n + 1)
  <2>1. Following(set) = Behind(set, 1)
    BY FollowingIs DEF Fields
  <2>2. Behind(set, 1) = Behind(dma, n + 1)
    BY <1>6, <1>7, EthTxAssumption DEF Behind
  <2> QED
    BY <1>4, <2>1, <2>2
<1>10. Queued(n + 1)' /\ n + 1 \in 0 .. TxBufNb
  BY <1>1, <1>7, <1>8, <1>9, EthTxAssumption DEF Queued, Distance, Behind
<1>11. (Ring => (InRow <=> Linear))'
  BY InRowIs, PTL
<1>12. \E k \in 0 .. TxBufNb : Queued(k)'
  BY <1>10, Zenon
<1> QED
  BY <1>1, <1>3, <1>11, <1>12 DEF Tidy, Ring, Linear, Fields

LEMMA AdvanceKeeps ==
    ASSUME Fields, Tidy, NEW c \in Contexts, Advance(c)
    PROVE  Tidy'
<1>1. /\ pc[c] = "advance" /\ pc' = [pc EXCEPT ![c] = "idle"] /\ Runs(c)
      /\ set' = Following(set)
      /\ UNCHANGED <<own, buf, dma, desc>>
  BY DEF Advance, At, Goto, Tidy, Latched, Handover
<1>2. \A e \in Contexts : ~Handover(e)'
  BY <1>1 DEF Fields, Tidy, Alone, Runs, Handover, Contexts
<1>3. (Alone /\ Latched /\ Free)'
  BY <1>2 DEF Alone, Latched, Free, Handover, Contexts
<1>4. UNCHANGED Upcoming
  BY <1>1, <1>2 DEF Upcoming, Handover
<1> QED
  BY <1>1, <1>3, <1>4, SameRing DEF Tidy

LEMMA SendKeeps ==
    ASSUME Fields, Tidy, Send
    PROVE  Tidy'
<1>1. /\ own[dma] /\ own' = [own EXCEPT ![dma] = FALSE]
      /\ dma' = Following(dma)
      /\ UNCHANGED <<buf, set, pc, desc, mine, newest>>
  BY DEF Send
<1>2. Following(dma) = Behind(dma, 1) /\ Following(dma) \in Descriptors
  BY FollowingIs DEF Fields
<1>3. (Alone /\ Latched /\ Free)'
  BY <1>1, <1>2 DEF Fields, Tidy, Alone, Latched, Free, Handover
<1>4. UNCHANGED Upcoming
  BY <1>1 DEF Upcoming
<1>5. PICK n \in 0 .. TxBufNb : Queued(n)
  BY InRowIs DEF Fields, Tidy, Ring, Linear
<1>6. dma \in Nat /\ dma < TxBufNb /\ dma' = Behind(dma, 1)
  BY <1>1, <1>2, EthTxAssumption DEF Fields, Descriptors
<1>7. n > 0
  <2>1. Distance(dma, dma) < n
    BY <1>1, <1>5 DEF Queued, Fields
  <2> QED
    BY <1>6, <2>1, EthTxAssumption DEF Distance
<1>8. ASSUME NEW d \in Descriptors
      PROVE  own'[d] <=> Distance(d, dma') < n - 1
  <2>1. d \in Nat /\ d < TxBufNb
    BY EthTxAssumption DEF Descriptors
  <2>2. CASE d = dma
    <3>1. Distance(d, dma') = TxBufNb - 1
      BY <1>6, <2>2, EthTxAssumption DEF Distance, Behind
    <3> QED
      BY <1>1, <2>2, <3>1, EthTxAssumption DEF Fields
  <2>3. CASE d # dma
    <3>1. own'[d] <=> Distance(d, dma) < n
      BY <1>1, <1>5, <2>3 DEF Queued, Fields
    <3>2. Distance(d, dma') = Distance(d, dma) - 1 /\ Distance(d, dma) \in Int
      BY <1>6, <2>1, <2>3, EthTxAssumption DEF Distance, Behind
    <3> QED
      BY <3>1, <3>2, EthTxAssumption
  <2> QED
    BY <2>2, <2>3
<1>9. Upcoming' = Behind(dma', n - 1)
  <2>1. Behind(dma, n) = Behind(dma', n - 1)
    BY <1>6, <1>7, EthTxAssumption DEF Behind
  <2> QED
    BY <1>4, <1>5, <2>1 DEF Queued
<1>10. Queued(n - 1)' /\ n - 1 \in 0 .. TxBufNb
  BY <1>7, <1>8, <1>9, EthTxAssumption DEF Queued, Distance, Behind
<1>11. (Ring => (InRow <=> Linear))'
  BY InRowIs, PTL
<1>12. \E k \in 0 .. TxBufNb : Queued(k)'
  BY <1>10, Zenon
<1> QED
  BY <1>1, <1>2, <1>3, <1>11, <1>12 DEF Tidy, Ring, Linear, Fields

LEMMA Inductive == IInv /\ [Next]_vars => IInv'
<1> SUFFICES ASSUME IInv, [Next]_vars, ~torn' PROVE Tidy'
  BY FieldsStep DEF IInv
<1>1. Fields /\ Tidy
  BY DEF IInv, Next, Step, Output, Copy, Check, SetOwn, Advance, Send, vars, Fields
<1>2. CASE UNCHANGED vars
  BY <1>1, <1>2 DEF vars, Tidy, Alone, Latched, Free, InRow, Upcoming, Handover
<1>3. CASE Next
  BY <1>1, <1>3, OutputKeeps, CopyKeeps, CheckKeeps, SetOwnKeeps,
     AdvanceKeeps, SendKeeps DEF Next, Step
<1> QED
  BY <1>2, <1>3

(* Queued frames and DMATxDescToSet stay without a gap, whatever the          *)
(* interleaving of outputs and DMA, until an output cuts into the handover of *)
(* another (ethernetif.c 437-470).                                            *)
THEOREM RingContiguous == Spec => []Contiguous
<1>1. IInv => Contiguous
  BY DEF IInv, Tidy, Contiguous
<1> QED
  BY <1>1, InitHolds, Inductive, PTL DEF Spec

(* A buffer that waits for the DMA is written to only when the ring is full,  *)
(* when another output came in before the copy, or after a torn handover      *)
(* (ethernetif.c 207-214).                                                    *)
THEOREM OverwritesFullRing == Spec => OverwritesOnlyFull
<1> DEFINE Kept == \A d \in Descriptors :
          own[d] /\ buf'[d] # buf[d] =>
              \/ \A e \in Descriptors : own[e]
              \/ \E c \in Contexts : Overtaken(c)
              \/ torn
<1>1. IInv /\ [Next]_vars => [Kept]_vars
  <2> SUFFICES ASSUME IInv, Next PROVE Kept
    OBVIOUS
  <2> SUFFICES ASSUME NEW d \in Descriptors, own[d], buf'[d] # buf[d],
                      \A c \in Contexts : ~Overtaken(c), ~torn,
                      NEW e \in Descriptors
               PROVE  own[e]
    OBVIOUS
  <2>1. PICK c \in Contexts : Copy(c)
    BY DEF Next, Step, Output, Check, SetOwn, Advance, Send
  <2>2. /\ pc[c] = "copy" /\ d = desc[c] /\ Runs(c)
    BY <2>1 DEF Copy, At, IInv, Fields
  <2>3. d = set
    BY <2>2 DEF Overtaken
  <2>4. PICK n \in 0 .. TxBufNb : Queued(n)
    BY InRowIs DEF IInv, Fields, Tidy, Ring, Linear
  <2>5. \A k \in Contexts : pc[k] # "advance"
    <3>1. CASE c = "main"
      BY <2>2, <3>1 DEF Runs, Contexts
    <3>2. CASE c = "irq"
      BY <2>2, <3>2 DEF IInv, Tidy, Alone, Handover, Contexts
    <3> QED
      BY <3>1, <3>2 DEF Contexts
  <2>6. /\ set = Behind(dma, n) /\ Distance(set, dma) < n
        /\ dma \in Nat /\ dma < TxBufNb /\ e \in Nat /\ e < TxBufNb
    BY <2>3, <2>4, <2>5, EthTxAssumption
       DEF Queued, IInv, Fields, Descriptors, Upcoming
  <2>7. n = TxBufNb
    BY <2>6, EthTxAssumption DEF Behind, Distance
  <2>8. Distance(e, dma) < n
    BY <2>6, <2>7, EthTxAssumption DEF Distance
  <2> QED
    BY <2>4, <2>8 DEF Queued
<1> QED
  BY <1>1, InitHolds, Inductive, PTL DEF Spec, OverwritesOnlyFull

-----------------------------------------------------------------------------
(* An output under way is of a frame that was handed in.                      *)
Handed == \A c \in Contexts : pc[c] # "idle" => mine[c] \in Frames

LEMMA TypeStep == TypeOK /\ Handed /\ [Next]_vars => (TypeOK /\ Handed)'
<1> SUFFICES ASSUME TypeOK, Handed, [Next]_vars PROVE (TypeOK /\ Handed)'
  OBVIOUS
<1> USE EthTxAssumption DEF TypeOK, Handed
<1>0. \A d \in Descriptors : Following(d) \in Descriptors
  BY FollowingIs
<1>1. ASSUME NEW c \in Contexts, Output(c) PROVE (TypeOK /\ Handed)'
  <2>1. newest' \in Frames /\ newest' \in 0 .. MaxFrames
    BY <1>1 DEF Output, Frames
  <2> QED
    BY <1>1, <2>1 DEF Output, Goto
<1>2. ASSUME NEW c \in Contexts, Copy(c) PROVE (TypeOK /\ Handed)'
  BY <1>2 DEF Copy, Goto, At
<1>3. ASSUME NEW c \in Contexts, Check(c) PROVE (TypeOK /\ Handed)'
  BY <1>3 DEF Check, Goto, At
<1>4. ASSUME NEW c \in Contexts, SetOwn(c) PROVE (TypeOK /\ Handed)'
  BY <1>4 DEF SetOwn, Goto, At
<1>5. ASSUME NEW c \in Contexts, Advance(c) PROVE (TypeOK /\ Handed)'
  BY <1>0, <1>5 DEF Advance, Goto, At
<1>6. ASSUME Send PROVE (TypeOK /\ Handed)'
  BY <1>0, <1>6 DEF Send
<1>7. ASSUME UNCHANGED vars PROVE (TypeOK /\ Handed)'
  BY <1>7 DEF vars
<1> QED
  BY <1>1, <1>2, <1>3, <1>4, <1>5, <1>6, <1>7 DEF Next, Step

(* Whatever cuts into an output, descriptors, frames and contexts stay in     *)
(* their ranges (ethernetif.c 190-222, 437-470).                              *)
THEOREM TxTypeCorrect == Spec => []TypeOK
<1>1. Init => TypeOK /\ Handed
  <2> SUFFICES ASSUME Init PROVE TypeOK /\ Handed
    OBVIOUS
  <2>1. 0 \in Descriptors /\ 0 \in 0 .. MaxFrames
    BY EthTxAssumption DEF Descriptors
  <2> QED
    BY <2>1, Zenon DEF Init, TypeOK, Handed
<1> QED
  BY <1>1, TypeStep, PTL DEF Spec
=============================================================================
