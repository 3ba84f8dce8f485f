-------------------------------- MODULE EthTx ---------------------------------
(* Transmission of frames: low_level_output copies a frame to the buffer of   *)
(* DMATxDescToSet, and ETH_TxPkt_ChainMode gives the descriptor to the DMA    *)
(* if the DMA does not have it yet.  lwIP sends from the Ethernet interrupt   *)
(* (answers, acknowledgements) and from the main loop (erase answers, timers),*)
(* and the one may come in the middle of the other.                           *)
EXTENDS Naturals

CONSTANTS TxBufNb,      \* ETH_TXBUFNB
          MaxFrames     \* bound: frames to send

ASSUME EthTxAssumption ==
    /\ TxBufNb \in Nat \ {0}
    /\ MaxFrames \in Nat

VARIABLES
    own,        \* descriptors the DMA owns
    buf,        \* the frame a descriptor's buffer holds, 0 before the first
    dma,        \* the descriptor the DMA will send next
    set,        \* DMATxDescToSet
    pc,         \* where a context is in low_level_output, "idle" outside
    desc,       \* the descriptor a context works on
    mine,       \* the frame it sends
    newest,     \* frames are numbered as lwIP sends them
    ok,         \* history: frames for which low_level_output gave ERR_OK
    wire,       \* history: frames the DMA has sent
    torn        \* history: an output has cut into a handover

vars == <<own, buf, dma, set, pc, desc, mine, newest, ok, wire, torn>>

Contexts == {"main", "irq"}
Descriptors == 0 .. TxBufNb - 1
Frames == 1 .. MaxFrames

TypeOK ==
    /\ own \in [Descriptors -> BOOLEAN]
    /\ buf \in [Descriptors -> 0 .. MaxFrames]
    /\ {dma, set} \subseteq Descriptors
    /\ pc \in [Contexts -> {"idle", "copy", "check", "own", "advance"}]
    /\ desc \in [Contexts -> Descriptors]
    /\ mine \in [Contexts -> 0 .. MaxFrames]
    /\ newest \in 0 .. MaxFrames
    /\ ok \subseteq Frames
    /\ wire \subseteq 0 .. MaxFrames
    /\ torn \in BOOLEAN

Init ==
    /\ own = [d \in Descriptors |-> FALSE]
    /\ buf = [d \in Descriptors |-> 0]
    /\ dma = 0
    /\ set = 0
    /\ pc = [c \in Contexts |-> "idle"]
    /\ desc = [c \in Contexts |-> 0]
    /\ mine = [c \in Contexts |-> 0]
    /\ newest = 0
    /\ ok = {}
    /\ wire = {}
    /\ torn = FALSE

(* Buffer2NextDescAddr.                                                       *)
Following(d) == (d + 1) % TxBufNb

-----------------------------------------------------------------------------
(* The main loop stands still while the interrupt is in it.                   *)
Runs(c) == c = "main" => pc["irq"] = "idle"

At(c, here) == Runs(c) /\ pc[c] = here
Goto(c, there) == pc' = [pc EXCEPT ![c] = there]

(* From the test of a descriptor to the advance of DMATxDescToSet.            *)
Handover(c) == pc[c] \in {"own", "advance"}

(* low_level_output: ETH_GetCurrentTxBuffer ...                               *)
Output(c) ==
    /\ At(c, "idle")
    /\ torn' = (torn \/ \E e \in Contexts : Handover(e))
    /\ newest < MaxFrames
    /\ newest' = newest + 1
    /\ mine' = [mine EXCEPT ![c] = newest']
    /\ desc' = [desc EXCEPT ![c] = set]
    /\ Goto(c, "copy")
    /\ UNCHANGED <<own, buf, dma, set, ok, wire>>

(* ... memcpy ...                                                             *)
Copy_Following(c) ==
    /\ At(c, "copy")
    /\ buf' = [buf EXCEPT ![Following(desc[c])] = mine[c]]
    /\ Goto(c, "check")
    /\ UNCHANGED <<own, dma, set, desc, mine, newest, ok, wire, torn>>
Copy(c) ==
    /\ At(c, "copy")
    /\ buf' = [buf EXCEPT ![desc[c]] = mine[c]]
    /\ Goto(c, "check")
    /\ UNCHANGED <<own, dma, set, desc, mine, newest, ok, wire, torn>>

(* ... and ETH_TxPkt_ChainMode, whose result low_level_output ignores.        *)
Check_Not(c) ==
    /\ At(c, "check")
    /\ desc' = [desc EXCEPT ![c] = set]
    /\ Goto(c, "own")
    /\ UNCHANGED <<ok, own, buf, dma, set, mine, newest, wire, torn>>
Check(c) ==
    /\ At(c, "check")
    /\ IF own[set]
       THEN /\ ok' = ok \cup {mine[c]}
            /\ Goto(c, "idle")
            /\ UNCHANGED desc
       ELSE /\ desc' = [desc EXCEPT ![c] = set]
            /\ Goto(c, "own")
            /\ UNCHANGED ok
    /\ UNCHANGED <<own, buf, dma, set, mine, newest, wire, torn>>

(* DMATxDescToSet is not volatile: the compiler may read it again or not.     *)
SetOwn(c) ==
    /\ At(c, "own")
    /\ \E d \in {desc[c], set} : own' = [own EXCEPT ![d] = TRUE]
    /\ Goto(c, "advance")
    /\ UNCHANGED <<buf, dma, set, desc, mine, newest, ok, wire, torn>>

Advance_Stays(c) ==
    /\ At(c, "advance")
    /\ ok' = ok \cup {mine[c]}
    /\ Goto(c, "idle")
    /\ UNCHANGED <<set, own, buf, dma, desc, mine, newest, wire, torn>>
Advance(c) ==
    /\ At(c, "advance")
    /\ \E d \in {desc[c], set} : set' = Following(d)
    /\ ok' = ok \cup {mine[c]}
    /\ Goto(c, "idle")
    /\ UNCHANGED <<own, buf, dma, desc, mine, newest, wire, torn>>

(* The DMA sends descriptors in their order and waits at one that is not its  *)
(* own.                                                                       *)
Send ==
    /\ own[dma]
    /\ own' = [own EXCEPT ![dma] = FALSE]
    /\ wire' = wire \cup {buf[dma]}
    /\ dma' = Following(dma)
    /\ UNCHANGED <<buf, set, pc, desc, mine, newest, ok, torn>>

Step(c) == Copy(c) \/ Check(c) \/ SetOwn(c) \/ Advance(c)

Next ==
    \/ \E c \in Contexts : Output(c) \/ Step(c)
    \/ Send

Spec ==
    /\ Init
    /\ [][Next]_vars
    /\ \A c \in Contexts : WF_vars(Step(c))
    /\ WF_vars(Send)

-----------------------------------------------------------------------------
(* Where DMATxDescToSet will be when an output that is under way has ended.   *)
Upcoming ==
    IF \E c \in Contexts : pc[c] = "advance" THEN Following(set) ELSE set

(* The descriptors queued are those from the DMA's on, and DMATxDescToSet is  *)
(* the one behind them.                                                       *)
InRow ==
    \E n \in 0 .. TxBufNb :
        /\ own = [d \in Descriptors |-> (d + TxBufNb - dma) % TxBufNb < n]
        /\ Upcoming = (dma + n) % TxBufNb

(* They stay so whatever the interleaving of outputs and DMA, as long as no   *)
(* output has cut into the handover of another: the DMA does not stop at a    *)
(* gap with frames queued behind it (ethernetif.c 437-470).                   *)
Contiguous == ~torn => InRow

(* memcpy writes to a frame that waits for the DMA only when the whole ring   *)
(* waits, when another output has been there since this one chose its buffer, *)
(* or when one has cut into a handover (ethernetif.c 207-214).                *)
Overtaken(c) == pc[c] = "copy" /\ desc[c] # set

OverwritesOnlyFull ==
    [][\A d \in Descriptors :
          own[d] /\ buf'[d] # buf[d] =>
              \/ \A e \in Descriptors : own[e]
              \/ \E c \in Contexts : Overtaken(c)
              \/ torn]_vars

(* Whatever is queued is sent, also when outputs were refused meanwhile,      *)
(* unless an output cuts into the handover of another (ethernetif.c 437-470). *)
Drains == \A d \in Descriptors : own[d] ~> ~own[d] \/ torn

(* The DMA is never stopped at a gap in front of queued frames: the driver is *)
(* used from one context (rawapi.txt 29-36, ethernetif.c 437-470).            *)
NoGap == (\E d \in Descriptors : own[d]) => own[dma]

(* A frame for which low_level_output gave ERR_OK has been or will be sent:   *)
(* "ERR_OK if the packet could be sent" (ethernetif.c 195).                   *)
OkIsSent == ok \subseteq wire \cup {buf[d] : d \in {e \in Descriptors : own[e]}}
=============================================================================
