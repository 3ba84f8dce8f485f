------------------------------- MODULE TcpConn --------------------------------
(* The callbacks with which tcpserver.c serves its connections: accept,       *)
(* receive, sent, poll, error, close, and tcp_server_deal, which empties the  *)
(* chain of received pbufs into tcp_recvbuf and calls XVC_Interface on it.    *)
(*                                                                            *)
(* A connection is the pcb slot it lives in.  Its byte stream is a row of     *)
(* half commands 0, 1, 2, ...: command k is the halves 2k and 2k+1, so that a *)
(* segment can hold a part of a command, one, or several.  XVC_Interface acts *)
(* on what a deal collected only if it is one whole command: it looks at the  *)
(* first head and one checksum over everything.                               *)
(*                                                                            *)
(* lwIP runs in the Ethernet interrupt, but its timers, and with them poll,   *)
(* run in the main loop.                                                      *)
EXTENDS Integers, FiniteSets, SequencesExt

CONSTANTS Slots,        \* pcbs of MEMP_TCP_PCB
          NoSlot,       \* NULL
          Packets,      \* payloads of a segment: sequences of pbuf lengths
          Costs,        \* room answers take in the send buffer
          SndBuf,       \* TCP_SND_BUF
          Wnd,          \* TCP_WND
          PoolSize,     \* PBUF_POOL_SIZE
          MaxHalves,    \* bound: half commands a peer sends on a connection
          Reentrant     \* whether the Ethernet interrupt preempts poll

ASSUME TcpConnAssumption ==
    /\ NoSlot \notin Slots
    /\ Packets \subseteq Seq(1 .. SndBuf) \ {<<>>}
    /\ Costs \subseteq Nat \ {0}
    /\ {SndBuf, Wnd, PoolSize, MaxHalves} \subseteq Nat
    /\ Reentrant \in BOOLEAN

VARIABLES
    pcb,        \* the state of a slot's connection
    arg,        \* its callbacks are registered
    es,         \* the state field of its tcp_server_struct, "none" if freed
    chain,      \* es->p: pbufs received and not yet dealt with
    rcvWnd,     \* receive window, in half commands
    unacked,    \* send buffer in use
    sent,       \* half commands received from the peer
    done,       \* history: the commands handed on, counted from 1
    earseFlag, earsePcb,
    lost,       \* history: pbufs nobody points to and nobody freed
    polling     \* the slot whose poll callback the main loop is in

connVars == <<pcb, arg, es, chain, rcvWnd, sent>>
answerVars == <<unacked, done, earseFlag, earsePcb>>
vars == <<connVars, answerVars, lost, polling>>

Pbuf == [dat : Seq(0 .. MaxHalves - 1), ref : {1, 2}]

TypeOK ==
    /\ pcb \in [Slots -> {"free", "established", "close_wait", "last_ack"}]
    /\ arg \in [Slots -> BOOLEAN]
    /\ es \in [Slots -> {"none", "accepted", "received", "closing"}]
    /\ chain \in [Slots -> Seq(Pbuf)]
    /\ rcvWnd \in [Slots -> 0 .. Wnd]
    /\ unacked \in [Slots -> 0 .. SndBuf]
    /\ sent \in [Slots -> 0 .. MaxHalves]
    /\ done \in [Slots -> Seq(1 .. MaxHalves)]
    /\ earseFlag \in {0, 1}
    /\ earsePcb \in Slots \cup {NoSlot}
    /\ lost \in 0 .. PoolSize
    /\ polling \in Slots \cup {NoSlot}

Init ==
    /\ pcb = [s \in Slots |-> "free"]
    /\ arg = [s \in Slots |-> FALSE]
    /\ es = [s \in Slots |-> "none"]
    /\ chain = [s \in Slots |-> <<>>]
    /\ rcvWnd = [s \in Slots |-> Wnd]
    /\ unacked = [s \in Slots |-> 0]
    /\ sent = [s \in Slots |-> 0]
    /\ done = [s \in Slots |-> <<>>]
    /\ earseFlag = 0
    /\ earsePcb = NoSlot
    /\ lost = 0
    /\ polling = NoSlot

-----------------------------------------------------------------------------
(* tcp_server_deal.                                                           *)
Bytes(c) == FlattenSeq([i \in 1 .. Len(c) |-> c[i].dat])

(* The loop takes pbufs while the next one is no longer than the send buffer  *)
(* has room for.                                                              *)
Taken(c, room) ==
    CHOOSE n \in 0 .. Len(c) :
        /\ \A i \in 1 .. n : Len(c[i].dat) <= room
        /\ n < Len(c) => Len(c[n + 1].dat) > room

(* References left on a pbuf the loop is done with: pbuf_free is called until *)
(* it frees something, since pbuf_chain has added a reference.                *)
RefsLeft_FreeOnce(ref) == ref - 1
RefsLeft(ref) == 0

(* XVC_Interface as far as a connection sees it: an answer goes out if        *)
(* tcp_write takes it, except for EARSE, which leaves it to the main loop.    *)
XVC_Interface(s, dat, used) ==
    IF \E k \in 0 .. MaxHalves : dat = <<2 * k, 2 * k + 1>>
    THEN /\ done' = [done EXCEPT ![s] = Append(@, dat[1] \div 2 + 1)]
         /\ \/ /\ \E cost \in {0} \cup Costs :
                     /\ used + cost <= SndBuf
                     /\ unacked' = [unacked EXCEPT ![s] = used + cost]
               /\ UNCHANGED <<earseFlag, earsePcb>>
            \/ /\ unacked' = [unacked EXCEPT ![s] = used]
               /\ earseFlag' = 1
               /\ earsePcb' = s
    ELSE /\ unacked' = [unacked EXCEPT ![s] = used]
         /\ UNCHANGED <<done, earseFlag, earsePcb>>

(* tcp_recved for each pbuf taken.                                            *)
Reopened_Not(wnd, dat) == wnd
Reopened(wnd, dat) == wnd + Len(dat)

(* What deal does with the chain c when the window is wnd and `used' of the   *)
(* send buffer is in use.                                                     *)
Deal(s, c, wnd, used) ==
    LET n == Taken(c, SndBuf - used)
        dat == Bytes(SubSeq(c, 1, n))
    IN  /\ chain' = [chain EXCEPT ![s] = SubSeq(c, n + 1, Len(c))]
        /\ rcvWnd' = [rcvWnd EXCEPT ![s] = Reopened(wnd, dat)]
        /\ lost' = lost + Cardinality({i \in 1 .. n : RefsLeft(c[i].ref) > 0})
        /\ XVC_Interface(s, dat, used)

(* tcp_server_connection_close: es is freed and the callbacks go, then        *)
(* tcp_close, which fails if lwIP has no memory for the FIN.                  *)
ConnectionClose(s) ==
    /\ arg' = [arg EXCEPT ![s] = FALSE]
    /\ es' = [es EXCEPT ![s] = "none"]
    /\ \E now \in {"last_ack", "close_wait"} : pcb' = [pcb EXCEPT ![s] = now]

-----------------------------------------------------------------------------
(* The callbacks.  In an interrupt each runs from start to end; if it cannot  *)
(* preempt poll, it waits for poll to return.                                 *)
Interrupt == Reentrant \/ polling = NoSlot

(* tcp_server_accept with memory for its structure; without, the connection   *)
(* is closed and aborted at once and the slot is as before.                   *)
Accept(s) ==
    /\ Interrupt
    /\ pcb[s] = "free"
    /\ pcb' = [pcb EXCEPT ![s] = "established"]
    /\ arg' = [arg EXCEPT ![s] = TRUE]
    /\ es' = [es EXCEPT ![s] = "accepted"]
    /\ chain' = [chain EXCEPT ![s] = <<>>]
    /\ rcvWnd' = [rcvWnd EXCEPT ![s] = Wnd]
    /\ unacked' = [unacked EXCEPT ![s] = 0]
    /\ sent' = [sent EXCEPT ![s] = 0]
    /\ done' = [done EXCEPT ![s] = <<>>]
    /\ UNCHANGED <<earseFlag, earsePcb, lost, polling>>

(* The pbufs a segment of the stream arrives in.                              *)
Arrived(s, lens) ==
    LET before[i \in 1 .. Len(lens)] ==
            IF i = 1 THEN sent[s] ELSE before[i - 1] + lens[i - 1]
    IN  [i \in 1 .. Len(lens) |->
            [dat |-> [j \in 1 .. lens[i] |-> before[i] + j - 1], ref |-> 1]]

(* pbuf_chain: behind what is there, with one more reference to its head.     *)
Chained_InFront(c, p) == [p EXCEPT ![1].ref = 2] \o c
Chained(c, p) == c \o [p EXCEPT ![1].ref = 2]

PoolUsed == lost + FoldFunctionOnSet(LAMBDA c, n : Len(c) + n, 0, chain, Slots)

(* tcp_server_receive with data.                                              *)
Receive(s, lens) ==
    LET p == Arrived(s, lens)
        n == Len(Bytes(p))
        wnd == rcvWnd[s] - n
    IN  /\ Interrupt
        /\ pcb[s] = "established" /\ arg[s]
        /\ sent[s] + n <= MaxHalves /\ wnd >= 0
        /\ PoolUsed + Len(p) <= PoolSize
        /\ sent' = [sent EXCEPT ![s] = @ + n]
        /\ es' = [es EXCEPT ![s] = "received"]
        /\ IF chain[s] = <<>>
           THEN Deal(s, p, wnd, unacked[s])
           ELSE /\ chain' = [chain EXCEPT ![s] = Chained(@, p)]
                /\ rcvWnd' = [rcvWnd EXCEPT ![s] = wnd]
                /\ UNCHANGED <<answerVars, lost>>
        /\ UNCHANGED <<pcb, arg, polling>>

(* tcp_server_receive with NULL: the peer has closed.                         *)
ReceiveFin(s) ==
    /\ Interrupt
    /\ pcb[s] = "established" /\ arg[s]
    /\ IF chain[s] = <<>>
       THEN /\ ConnectionClose(s)
            /\ UNCHANGED <<chain, rcvWnd, answerVars, lost>>
       ELSE /\ pcb' = [pcb EXCEPT ![s] = "close_wait"]
            /\ es' = [es EXCEPT ![s] = "closing"]
            /\ Deal(s, chain[s], rcvWnd[s], unacked[s])
            /\ UNCHANGED arg
    /\ UNCHANGED <<sent, polling>>

(* An acknowledgement frees n of the send buffer; tcp_server_sent.            *)
Sent_NoDeal(s, n) ==
    /\ Interrupt
    /\ pcb[s] # "free" /\ n \in 1 .. unacked[s]
    /\ unacked' = [unacked EXCEPT ![s] = @ - n]
    /\ IF arg[s] /\ chain[s] = <<>> /\ es[s] = "closing"
       THEN ConnectionClose(s) ELSE UNCHANGED <<pcb, arg, es>>
    /\ UNCHANGED <<chain, rcvWnd, sent, done, earseFlag, earsePcb, lost,
                   polling>>
Sent(s, n) ==
    /\ Interrupt
    /\ pcb[s] # "free" /\ n \in 1 .. unacked[s]
    /\ IF arg[s] /\ chain[s] # <<>>
       THEN /\ Deal(s, chain[s], rcvWnd[s], unacked[s] - n)
            /\ UNCHANGED <<pcb, arg, es>>
       ELSE /\ unacked' = [unacked EXCEPT ![s] = @ - n]
            /\ IF arg[s] /\ es[s] = "closing"
               THEN ConnectionClose(s) ELSE UNCHANGED <<pcb, arg, es>>
            /\ UNCHANGED <<chain, rcvWnd, done, earseFlag, earsePcb, lost>>
    /\ UNCHANGED <<sent, polling>>

(* tcp_server_error, if it is registered: es is freed, es->p is not.          *)
ServerError_KeepsEs(s) == UNCHANGED es
ServerError(s) == es' = [es EXCEPT ![s] = "none"]

(* The connection dies under the server: the peer resets it, retransmissions  *)
(* or keep-alive probes go unanswered, or lwIP takes the slot of the oldest   *)
(* connection for a new one.                                                  *)
Abort(s) ==
    /\ Interrupt
    /\ pcb[s] # "free"
    /\ pcb' = [pcb EXCEPT ![s] = "free"]
    /\ arg' = [arg EXCEPT ![s] = FALSE]
    /\ ServerError(s)
    /\ chain' = [chain EXCEPT ![s] = <<>>]
    /\ lost' = lost + Len(chain[s])
    /\ unacked' = [unacked EXCEPT ![s] = 0]
    /\ UNCHANGED <<rcvWnd, sent, done, earseFlag, earsePcb, polling>>

(* The FIN is acknowledged and lwIP frees the pcb without a callback.         *)
Closed(s) ==
    /\ Interrupt
    /\ pcb[s] = "last_ack"
    /\ pcb' = [pcb EXCEPT ![s] = "free"]
    /\ unacked' = [unacked EXCEPT ![s] = 0]
    /\ UNCHANGED <<arg, es, chain, rcvWnd, sent, done, earseFlag, earsePcb,
                   lost, polling>>

(* tcp_slowtmr calls poll with the es it has read from the pcb ...            *)
PollBegin(s) ==
    /\ polling = NoSlot
    /\ pcb[s] # "free" /\ arg[s]
    /\ polling' = s
    /\ UNCHANGED <<connVars, answerVars, lost>>

(* ... and tcp_server_poll works on it.  What it does on an es that has been  *)
(* freed meanwhile is not modelled.                                           *)
Poll_NoClose(s) ==
    /\ polling = s /\ es[s] # "none"
    /\ polling' = NoSlot
    /\ IF chain[s] # <<>>
       THEN Deal(s, chain[s], rcvWnd[s], unacked[s])
       ELSE UNCHANGED <<chain, rcvWnd, answerVars, lost>>
    /\ UNCHANGED <<pcb, arg, es, sent>>
Poll(s) ==
    /\ polling = s /\ es[s] # "none"
    /\ polling' = NoSlot
    /\ IF chain[s] # <<>>
       THEN /\ Deal(s, chain[s], rcvWnd[s], unacked[s])
            /\ UNCHANGED <<pcb, arg, es>>
       ELSE /\ IF es[s] = "closing"
               THEN ConnectionClose(s) ELSE UNCHANGED <<pcb, arg, es>>
            /\ UNCHANGED <<chain, rcvWnd, answerVars, lost>>
    /\ UNCHANGED sent

(* The main loop answers an erase, to whatever connection has the slot now.   *)
EarseAnswer ==
    /\ polling = NoSlot
    /\ earseFlag = 1
    /\ earseFlag' = 0
    /\ \E cost \in {0} \cup Costs :
          /\ cost # 0 => /\ pcb[earsePcb] \in {"established", "close_wait"}
                         /\ unacked[earsePcb] + cost <= SndBuf
          /\ unacked' = [unacked EXCEPT ![earsePcb] = @ + cost]
    /\ UNCHANGED <<connVars, done, earsePcb, lost, polling>>

Next ==
    \/ \E s \in Slots :
          \/ Accept(s)
          \/ \E lens \in Packets : Receive(s, lens)
          \/ ReceiveFin(s)
          \/ \E n \in 1 .. SndBuf : Sent(s, n)
          \/ Abort(s)
          \/ Closed(s)
          \/ PollBegin(s)
          \/ Poll(s)
    \/ EarseAnswer

(* The main loop polls every connection twice a second, and what was sent is  *)
(* acknowledged, or lwIP gives the connection up after its retransmissions.   *)
Fairness ==
    \A s \in Slots :
        /\ SF_vars(PollBegin(s))
        /\ WF_vars(Poll(s))
        /\ SF_vars(unacked[s] > 0 /\ (Abort(s) \/ \E n \in 1 .. SndBuf : Sent(s, n)))

Spec == Init /\ [][Next]_vars /\ Fairness

-----------------------------------------------------------------------------
(* A callback finds its es allocated, and an es is freed with its connection: *)
(* every end of a connection (closed by receive, sent or poll, or dead) frees *)
(* it once (tcpserver.c 226-238, 273-293).                                    *)
EsOwned == \A s \in Slots : es[s] # "none" <=> pcb[s] # "free" /\ arg[s]

(* Between callbacks the chain holds nothing that could be dealt with: it     *)
(* waits only for room in the send buffer, whatever order data,               *)
(* acknowledgements, erase answers and the FIN come in                        *)
(* (tcpserver.c 154-178, 209-216, 300).                                       *)
PendingMeansFull ==
    \A s \in Slots : chain[s] # <<>> =>
        Len(Head(chain[s]).dat) > SndBuf - unacked[s]

(* What waits in the chain is, in order, just the end of the stream that the  *)
(* window does not offer again: nothing is dropped, doubled or kept from the  *)
(* window (tcpserver.c 170-176, 300-333).                                     *)
PendingIsTail ==
    \A s \in Slots : pcb[s] # "free" =>
        LET n == Wnd - rcvWnd[s]
        IN  Bytes(chain[s]) = [i \in 1 .. n |-> sent[s] - n + i - 1]

(* Commands are handed on in the order sent, none twice, however they are cut *)
(* into segments and chained (tcpserver.c 295-334).                           *)
InOrderOnce ==
    \A s \in Slots :
        \A i, j \in DOMAIN done[s] : i < j => done[s][i] < done[s][j]

(* A pbuf is lost only when a connection dies while it waits in its chain:    *)
(* the loop of deal copes with the references pbuf_chain adds                 *)
(* (tcpserver.c 175, 325-328).                                                *)
LostOnlyByAbort ==
    [][lost' # lost =>
          \E s \in Slots : chain[s] # <<>> /\ pcb'[s] = "free"]_vars

(* A connection whose peer has closed gives up its es, also when the answers  *)
(* had filled the send buffer (tcpserver.c 130, 220, 256).                    *)
ClosingEnds == \A s \in Slots : es[s] = "closing" ~> es[s] = "none"

(* Every pbuf that was received is freed: the receive callback must free what *)
(* it accepts (rawapi.txt 232-235).                                           *)
NothingLost == lost = 0

(* A connection the server has closed is closing: if tcp_close has no memory, *)
(* it is tried again (rawapi.txt 268-272).                                    *)
ClosedIsClosing ==
    \A s \in Slots : ~arg[s] => pcb[s] \in {"free", "last_ack"}

(* lwIP is used from one context: poll's connection is not freed under it     *)
(* (rawapi.txt 29-36).                                                        *)
PollKeepsEs == polling # NoSlot => es[polling] # "none"
=============================================================================
