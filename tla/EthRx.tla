-------------------------------- MODULE EthRx ---------------------------------
(* Reception of frames: the ring of descriptors between the Ethernet DMA and  *)
(* ETH_IRQHandler, which takes frames from it, copies each to a pbuf and      *)
(* hands it to lwIP.  The DMA goes on while the interrupt runs, so that each  *)
(* access of the handler to a descriptor is a step.                           *)
EXTENDS Naturals, Sequences

CONSTANTS RxBufNb,      \* ETH_RXBUFNB
          MaxFrames,    \* bound: frames that arrive
          Long          \* frames longer than a buffer, by number

ASSUME EthRxAssumption ==
    /\ RxBufNb \in Nat \ {0, 1}
    /\ MaxFrames \in Nat
    /\ Long \subseteq 1 .. MaxFrames

VARIABLES
    own,        \* descriptors the DMA owns
    buf,        \* the frame a descriptor's buffer holds, and FS and LS
    dma,        \* the descriptor the DMA will use next
    get,        \* DMARxDescToGet
    pending,    \* the receive bit of the DMA's status
    pc,         \* where the handler is, "idle" outside
    frame,      \* the descriptor ETH_RxPkt_ChainMode returned
    p,          \* whether a pbuf was there for it
    newest,     \* number of the frame that came last
    handed      \* history: number of the frame handed on last

vars == <<own, buf, dma, get, pending, pc, frame, p, newest, handed>>

Descriptors == 0 .. RxBufNb - 1

TypeOK ==
    /\ own \in [Descriptors -> BOOLEAN]
    /\ buf \in [Descriptors ->
                   [frame : 0 .. MaxFrames, fs : BOOLEAN, ls : BOOLEAN]]
    /\ {dma, get, frame} \subseteq Descriptors
    /\ pending \in BOOLEAN
    /\ pc \in {"idle", "size", "input", "copy", "release", "clear"}
    /\ p \in BOOLEAN
    /\ {newest, handed} \subseteq 0 .. MaxFrames

Init ==
    /\ own = [d \in Descriptors |-> TRUE]
    /\ buf = [d \in Descriptors |-> [frame |-> 0, fs |-> FALSE, ls |-> FALSE]]
    /\ dma = 0
    /\ get = 0
    /\ pending = FALSE
    /\ pc = "idle"
    /\ frame = 0
    /\ p = FALSE
    /\ newest = 0
    /\ handed = 0

(* Buffer2NextDescAddr.                                                       *)
Following(d) == (d + 1) % RxBufNb

-----------------------------------------------------------------------------
(* The DMA stores the frame in its next buffer, or in two if it is long.      *)
Stored(n) ==
    LET more == Following(dma)
    IN  IF n \notin Long
        THEN /\ own[dma]
             /\ buf' = [buf EXCEPT ![dma] =
                           [frame |-> n, fs |-> TRUE, ls |-> TRUE]]
             /\ own' = [own EXCEPT ![dma] = FALSE]
             /\ dma' = more
        ELSE /\ own[dma] /\ own[more]
             /\ buf' = [buf EXCEPT
                           ![dma] = [frame |-> n, fs |-> TRUE, ls |-> FALSE],
                           ![more] = [frame |-> n, fs |-> FALSE, ls |-> TRUE]]
             /\ own' = [own EXCEPT ![dma] = FALSE, ![more] = FALSE]
             /\ dma' = Following(more)

Arrive ==
    /\ newest < MaxFrames
    /\ newest' = newest + 1
    /\ Stored(newest')
    /\ pending' = TRUE
    /\ UNCHANGED <<get, pc, frame, p, handed>>

(* No buffer for a frame: it is lost.  A buffer given back later is found by  *)
(* the DMA with the next frame, if not with the poll demand.                  *)
Overrun ==
    /\ newest < MaxFrames
    /\ \/ ~own[dma]
       \/ (newest + 1 \in Long /\ ~own[Following(dma)])
    /\ newest' = newest + 1
    /\ UNCHANGED <<own, buf, dma, get, pending, pc, frame, p, handed>>

-----------------------------------------------------------------------------
(* ETH_IRQHandler.                                                            *)
Enter ==
    /\ pc = "idle" /\ pending
    /\ pc' = "size"
    /\ UNCHANGED <<own, buf, dma, get, pending, frame, p, newest, handed>>

Whole(d) == buf[d].fs /\ buf[d].ls

(* ETH_GetRxPktSize sees a frame only if it is whole.                         *)
ETH_GetRxPktSize ==
    /\ pc = "size"
    /\ pc' = IF ~own[get] /\ Whole(get) THEN "input" ELSE "clear"
    /\ UNCHANGED <<own, buf, dma, get, pending, frame, p, newest, handed>>

(* ETH_RxPkt_ChainMode goes on to the next descriptor also if the frame is    *)
(* not whole, and low_level_input returns NULL without giving it back.        *)
ETH_RxPkt_ChainMode_AnyOwner ==
    /\ pc = "input"
    /\ frame' = get
    /\ get' = Following(get)
    /\ pc' = IF Whole(get) THEN "copy" ELSE "size"
    /\ UNCHANGED <<own, buf, dma, pending, p, newest, handed>>
ETH_RxPkt_ChainMode ==
    /\ pc = "input"
    /\ IF own[get]
       THEN /\ pc' = "size"
            /\ UNCHANGED <<get, frame>>
       ELSE /\ frame' = get
            /\ get' = Following(get)
            /\ pc' = IF Whole(get) THEN "copy" ELSE "size"
    /\ UNCHANGED <<own, buf, dma, pending, p, newest, handed>>

(* low_level_input copies the frame, if the pool has a pbuf for it.           *)
Copy ==
    /\ pc = "copy"
    /\ pc' = "release"
    /\ p' \in BOOLEAN
    /\ handed' = IF p' THEN buf[frame].frame ELSE handed
    /\ UNCHANGED <<own, buf, dma, get, pending, frame, newest>>

(* The descriptor goes back to the DMA, the pbuf to lwIP, and                 *)
(* ethernetif_input looks for another; without a pbuf it returns.             *)
Release_Once ==
    /\ pc = "release"
    /\ own' = [own EXCEPT ![frame] = TRUE]
    /\ pc' = "clear"
    /\ UNCHANGED <<buf, dma, get, pending, frame, p, newest, handed>>
Release_Other ==
    /\ pc = "release"
    /\ own' = [own EXCEPT ![get] = TRUE]
    /\ pc' = IF p THEN "input" ELSE "size"
    /\ UNCHANGED <<buf, dma, get, pending, frame, p, newest, handed>>
Release ==
    /\ pc = "release"
    /\ own' = [own EXCEPT ![frame] = TRUE]
    /\ pc' = IF p THEN "input" ELSE "size"
    /\ UNCHANGED <<buf, dma, get, pending, frame, p, newest, handed>>

ClearPending ==
    /\ pc = "clear"
    /\ pending' = FALSE
    /\ pc' = "idle"
    /\ UNCHANGED <<own, buf, dma, get, frame, p, newest, handed>>

ETH_IRQHandler ==
    \/ Enter
    \/ ETH_GetRxPktSize
    \/ ETH_RxPkt_ChainMode
    \/ Copy
    \/ Release
    \/ ClearPending

Next == Arrive \/ Overrun \/ ETH_IRQHandler

Spec == Init /\ [][Next]_vars /\ WF_vars(ETH_IRQHandler)

-----------------------------------------------------------------------------
(* A frame that waits in the ring.                                            *)
Waits(n) == \E d \in Descriptors : ~own[d] /\ buf[d].frame = n /\ handed < n

(* The ring as a queue: the frame being copied, then those from get on.       *)
Unread ==
    LET at(i) == (get + i) % RxBufNb
        held == pc \in {"copy", "release"}
        n == CHOOSE k \in 0 .. RxBufNb :
                /\ \A i \in 0 .. k - 1 : ~(own[at(i)] \/ (held /\ at(i) = frame))
                /\ k < RxBufNb => own[at(k)] \/ (held /\ at(k) = frame)
    IN  (IF pc = "copy" THEN <<buf[frame].frame>> ELSE <<>>)
            \o [i \in 1 .. n |-> buf[at(i - 1)].frame]

Fifo == INSTANCE FrameFifo WITH Size <- RxBufNb, queue <- Unread

(* The buffer that is copied is not the DMA's, and holds a whole frame: the   *)
(* second and later calls in ethernetif_input are made without a look at the  *)
(* size (ethernetif.c 239-263, 388-427).  The frames of the run fit a buffer; *)
(* the theorem has others also.                                               *)
FrameIsOurs == pc \in {"copy", "release"} => ~own[frame] /\ Whole(frame)

(* The ring is a queue: frames are handed on whole, in order and once,        *)
(* however the DMA and the handler alternate, and a frame is lost only when   *)
(* all buffers but one are taken (ethernetif.c 229-280, 388-427).             *)
FifoImplemented == Fifo!Spec

(* A frame in the ring is handled, or refused for want of a pbuf, if the      *)
(* interrupt is raised and the handler has not just decided to leave          *)
(* (stm32f10x_it.c 147-158).  It holds of frames that fit a buffer: what a    *)
(* part of a longer one does is in MCEthRxLong.cfg.                           *)
RaisedHandled ==
    \A n \in 1 .. MaxFrames :
        (Waits(n) /\ pending /\ pc # "clear") ~> ~Waits(n)

(* The handler "Handles all the received frames" (stm32f10x_it.c 149).        *)
AllHandled == \A n \in 1 .. MaxFrames : Waits(n) ~> ~Waits(n)
=============================================================================
