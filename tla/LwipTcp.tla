------------------------------- MODULE LwipTcp --------------------------------
(* lwIP's TCP as this build configures it (port/lwipopts.h): one connection   *)
(* of the server, from the SYN to the pcb's end, with the acknowledgements,   *)
(* windows and retransmissions of tcp_in.c, tcp_out.c and the timers of       *)
(* tcp.c, over a network that loses, doubles and reorders segments.           *)
(*                                                                            *)
(* Data are units, numbered along each stream; a segment holds up to Mss of   *)
(* them.  The pcb is a record, and each function of lwIP an operator from a   *)
(* pcb to a pcb.                                                             *)
(* Nagle is off: XVC_Interface sets TF_NODELAY before it writes anything      *)
(* (tcpserver.c 366).  Segments out of order are not queued (TCP_QUEUE_OOSEQ  *)
(* is 0).                                                                     *)
EXTENDS Integers, SequencesExt

CONSTANTS Word,         \* sequence numbers are modulo this
          Iss, HostIss, \* the initial sequence numbers
          Mss,          \* the segment size agreed on
          SndBuf,       \* TCP_SND_BUF
          QueueLen,     \* TCP_SND_QUEUELEN: segments on the queues
          Wnd,          \* TCP_WND
          MaxRtx,       \* TCP_MAXRTX
          HostWnd,      \* the host's receive buffer
          Units,        \* bound: units the host sends,
          Calm,         \* bound: unless haste is all that goes wrong
          Commands,     \* sizes of a segment it sends
          Answers,      \* sizes of an answer to what a deal collected
          EraseAnswer,  \* size of the answer the main loop sends, 0: no erases
          Reads,        \* the host reads at once, or when it pleases
          Faults,       \* what can go wrong, and
          MaxFaults,    \* bound: how often
          MaxFlight     \* bound: polls wait while more is on its way

ASSUME LwipTcpAssumption ==
    /\ {Word, Mss, SndBuf, QueueLen, Wnd, MaxRtx, HostWnd} \subseteq Nat \ {0}
    /\ Commands \subseteq 1 .. Mss
    /\ Answers \cup {Units, Calm, EraseAnswer, MaxFaults, MaxFlight} \subseteq Nat
    /\ {Iss, HostIss} \subseteq 0 .. Word - 1
    /\ Reads \in {"at once", "late"}
    /\ Faults \subseteq {"lose", "double", "delay", "early", "haste", "leave", "reset"}
    /\ Wnd + HostWnd < Word \div 2 /\ SndBuf <= 2 * Mss
    /\ Mss <= Wnd /\ 2 * Wnd < Word \div 2
    /\ Units + 2 < Word \div 2      \* the numbers do not come round

VARIABLES
    srv,        \* the server's pcb, and the tcp_server_struct of its callbacks
    host,       \* the host's end of the connection
    toServer, toHost,   \* segments on their way
    faults      \* how much of MaxFaults has happened

vars == <<srv, host, toServer, toHost, faults>>

-----------------------------------------------------------------------------
(* Sequence numbers (tcp.h 146-154).                                          *)
Plus(a, n) == (a + n) % Word
Diff(a, b) == (a - b) % Word
TCP_SEQ_LT(a, b) == Diff(a, b) >= Word \div 2
TCP_SEQ_LEQ(a, b) == a = b \/ TCP_SEQ_LT(a, b)
TCP_SEQ_BETWEEN(a, b, c) == TCP_SEQ_LEQ(b, a) /\ TCP_SEQ_LEQ(a, c)

TCP_TCPLEN(seg) ==
    Len(seg.data) + (IF seg.flags \cap {"SYN", "FIN"} # {} THEN 1 ELSE 0)
End(seg) == Plus(seg.seq, TCP_TCPLEN(seg))

(* The fields of the pcb that matter here, what lwIP collects during a call   *)
(* (out: segments; recv and gotFin: for the receive callback), and from       *)
(* es on the server's own: the state of its structure, the pbufs that wait,   *)
(* whether an erase runs, and as history what it was given and has written.   *)
Fresh ==
    [state |-> "LISTEN", rcvNxt |-> 0, rcvWnd |-> Wnd, annWnd |-> Wnd, annEdge |-> 0,
     ackDelay |-> FALSE, ackNow |-> FALSE, sndNxt |-> Iss, sndLbb |-> Iss,
     lastack |-> Iss, sndBuf |-> SndBuf, sndWnd |-> 0, wl1 |-> 0, wl2 |-> Iss,
     dupacks |-> 0, infr |-> FALSE, slow |-> FALSE, nrtx |-> 0, timer |-> FALSE,
     persist |-> FALSE, acked |-> FALSE, unsent |-> <<>>, unacked |-> <<>>,
     out |-> <<>>, recv |-> <<>>, gotFin |-> FALSE,
     es |-> "none", chain |-> <<>>, erasing |-> FALSE,
     given |-> <<>>, wrote |-> 0, refused |-> FALSE, gaveUp |-> FALSE]

Init ==
    /\ srv = Fresh
    /\ host = [state |-> "CLOSED", una |-> HostIss, nxt |-> HostIss, right |-> 0,
               rcvNxt |-> 0, unread |-> 0, got |-> <<>>, fin |-> FALSE, hasty |-> FALSE]
    /\ toServer = <<>> /\ toHost = <<>>
    /\ faults = 0

-----------------------------------------------------------------------------
(* tcp_out.c.  Every segment carries the acknowledgement and the window.      *)
Segment(c, seq, data, flags) ==
    [seq |-> seq, ack |-> c.rcvNxt, wnd |-> c.annWnd, data |-> data,
     flags |-> flags \cup {"ACK"}]
Announced(c) == [c EXCEPT !.annEdge = Plus(c.rcvNxt, c.annWnd)]

(* What the windows allow.  The congestion window is one segment after a      *)
(* time-out (`slow') and at least the send buffer otherwise.                  *)
WndOf(c) == IF c.slow /\ Mss < c.sndWnd THEN Mss ELSE c.sndWnd
Fits(c, seg, wnd) == Diff(Plus(seg.seq, Len(seg.data)), c.lastack) <= wnd

Leading(segs, Test(_)) ==
    CHOOSE n \in 0 .. Len(segs) :
        /\ \A i \in 1 .. n : Test(segs[i])
        /\ n < Len(segs) => ~Test(segs[n + 1])

(* A segment put where it belongs in a queue, and in the queue of what is not *)
(* acknowledged, where it mostly comes last.                                  *)
InOrder(queue, seg) ==
    LET n == Leading(queue, LAMBDA s : TCP_SEQ_LT(s.seq, seg.seq))
    IN  Append(SubSeq(queue, 1, n), seg) \o SubSeq(queue, n + 1, Len(queue))
Unacked(queue, seg) ==
    IF queue # <<>> /\ TCP_SEQ_LT(seg.seq, Last(queue).seq)
    THEN InOrder(queue, seg) ELSE Append(queue, seg)

(* What waits exceeds the window: the persist timer starts.                   *)
Stuck(c, rest) == rest # <<>> /\ ~Fits(c, rest[1], c.sndWnd)

(* tcp_output: an empty acknowledgement if one is due and no data can carry   *)
(* it, otherwise all data the windows allow.                                  *)
tcp_output(c) ==
    LET n == Leading(c.unsent, LAMBDA seg : Fits(c, seg, WndOf(c)))
        sent == SubSeq(c.unsent, 1, n)
        rest == SubSeq(c.unsent, n + 1, Len(c.unsent))
        last == End(sent[n])
    IN  IF n = 0 /\ c.ackNow
        THEN [Announced(c) EXCEPT
                 !.out = Append(@, Segment(c, c.sndNxt, <<>>, {})),
                 !.ackNow = FALSE, !.ackDelay = FALSE]
        ELSE LET d == IF n = 0 THEN c
                      ELSE [Announced(c) EXCEPT
                              !.out = @ \o [i \in 1 .. n |->
                                  Segment(c, sent[i].seq, sent[i].data, sent[i].flags)],
                              !.ackNow = FALSE, !.ackDelay = FALSE,
                              !.timer = TRUE,
                              !.unsent = rest,
                              !.unacked = FoldLeft(Unacked, @, sent),
                              !.sndNxt = IF TCP_SEQ_LT(@, last) THEN last ELSE @]
             IN  [d EXCEPT !.persist = @ \/ Stuck(c, rest)]

(* tcp_enqueue: data in segments of Mss, the first joined to the last segment *)
(* that waits if both fit in one.                                             *)
Cut(c, data, flags) ==
    LET n == IF data = <<>> THEN 1 ELSE (Len(data) + Mss - 1) \div Mss
        upto(i) == IF i * Mss < Len(data) THEN i * Mss ELSE Len(data)
    IN  [i \in 1 .. n |->
            [seq |-> Plus(c.sndLbb, (i - 1) * Mss), flags |-> flags,
             data |-> SubSeq(data, (i - 1) * Mss + 1, upto(i))]]
Joined(queue, new) ==
    IF /\ queue # <<>>
       /\ Last(queue).flags = {} /\ Head(new).flags = {}
       /\ Len(Last(queue).data) + Len(Head(new).data) <= Mss
    THEN Append(Front(queue), [Last(queue) EXCEPT !.data = @ \o Head(new).data])
         \o Tail(new)
    ELSE queue \o new
tcp_enqueue(c, data, flags) ==
    LET len == Len(data) + Cardinality(flags)
    IN  [c EXCEPT !.unsent = Joined(@, Cut(c, data, flags)),
                  !.sndLbb = Plus(@, len),
                  !.sndBuf = @ - len]

(* Room for it: bytes, and pbufs, one for each segment (and one for each      *)
(* piece that was joined, which is not counted here).                         *)
Room(c, data) ==
    /\ Len(data) <= c.sndBuf
    /\ Len(c.unacked \o c.unsent \o Cut(c, data, {})) <= QueueLen

(* tcp_write: units wrote + 1, ... of the server's stream.                    *)
tcp_write(c, n) ==
    LET data == [i \in 1 .. n |-> c.wrote + i]
    IN  IF n = 0 \/ c.state \notin {"ESTABLISHED", "CLOSE_WAIT"} THEN c
        ELSE IF Room(c, data)
        THEN [tcp_enqueue(c, data, {}) EXCEPT !.wrote = @ + n]
        ELSE [c EXCEPT !.refused = TRUE]

(* tcp_rexmit and tcp_rexmit_rto: segments go back to the unsent queue.       *)
tcp_rexmit(c) ==
    IF c.unacked = <<>> THEN c
    ELSE [c EXCEPT !.unacked = Tail(@),
                   !.unsent = InOrder(@, Head(c.unacked)),
                   !.nrtx = @ + 1]
tcp_rexmit_rto_DropsUnsent(c) ==
    tcp_output([c EXCEPT !.unsent = c.unacked, !.unacked = <<>>, !.nrtx = @ + 1])
tcp_rexmit_rto(c) ==
    tcp_output([c EXCEPT !.unsent = c.unacked \o @, !.unacked = <<>>,
                         !.nrtx = @ + 1])

(* tcp_zero_window_probe: the first unit of the oldest segment, or whatever   *)
(* lies in memory where a FIN has none.                                       *)
Junk == 0
tcp_zero_window_probe_Unsent(c) ==
    IF c.unsent = <<>> \/ c.unsent[1].data = <<>> THEN c
    ELSE [Announced(c) EXCEPT
             !.out = Append(@, Segment(c, c.lastack, <<c.unsent[1].data[1]>>, {}))]
tcp_zero_window_probe(c) ==
    LET queue == c.unacked \o c.unsent
        unit == IF queue[1].data = <<>> THEN Junk ELSE queue[1].data[1]
    IN  IF queue = <<>> THEN c
        ELSE [Announced(c) EXCEPT
                 !.out = Append(@, Segment(c, queue[1].seq, <<unit>>, {}))]

tcp_rst(seq, ack) ==
    [seq |-> seq, ack |-> ack, wnd |-> Wnd, data |-> <<>>, flags |-> {"RST", "ACK"}]

-----------------------------------------------------------------------------
(* The receive window (tcp.c 393-445): its right edge is announced anew only  *)
(* when it has moved by a segment.                                            *)
RightEdge(c) == Plus(c.rcvNxt, c.rcvWnd)
Moved(c) == TCP_SEQ_LEQ(Plus(c.annEdge, Mss), RightEdge(c))
tcp_update_rcv_ann_wnd_Full(c) == [c EXCEPT !.annWnd = Wnd]
tcp_update_rcv_ann_wnd_Shut(c) ==
    [c EXCEPT !.annWnd = IF Moved(c) THEN c.rcvWnd ELSE 0]
tcp_update_rcv_ann_wnd(c) ==
    [c EXCEPT !.annWnd = IF Moved(c) THEN c.rcvWnd
                         ELSE IF TCP_SEQ_LT(c.annEdge, c.rcvNxt) THEN 0
                         ELSE Diff(c.annEdge, c.rcvNxt)]
tcp_recved(c, n) ==
    LET d == [c EXCEPT !.rcvWnd = IF @ + n > Wnd THEN Wnd ELSE @ + n]
        inflation == IF Moved(d) THEN Diff(RightEdge(d), d.annEdge) ELSE 0
        e == tcp_update_rcv_ann_wnd(d)
    IN  IF inflation >= Wnd \div 4
        THEN tcp_output([e EXCEPT !.ackNow = TRUE]) ELSE e

-----------------------------------------------------------------------------
(* tcp_receive, the acknowledgement.                                          *)
WindowUpdate(c, seg) ==
    IF \/ TCP_SEQ_LT(c.wl1, seg.seq)
       \/ c.wl1 = seg.seq /\ TCP_SEQ_LT(c.wl2, seg.ack)
       \/ c.wl2 = seg.ack /\ seg.wnd > c.sndWnd
    THEN [c EXCEPT !.sndWnd = seg.wnd, !.wl1 = seg.seq, !.wl2 = seg.ack,
                   !.persist = @ /\ seg.wnd = 0]
    ELSE c

(* The third duplicate in a row sends the oldest segment again, once.         *)
DupAck(c) ==
    LET d == [c EXCEPT !.dupacks = IF @ < 3 THEN @ + 1 ELSE @]
    IN  IF d.dupacks < 3 \/ d.unacked = <<>> THEN d
        ELSE IF d.infr THEN [d EXCEPT !.slow = FALSE]
        ELSE [tcp_rexmit(d) EXCEPT !.infr = TRUE, !.slow = FALSE]

NewAck_KeepsCount(c, ack) ==
    LET n == Leading(c.unacked, LAMBDA seg : TCP_SEQ_LEQ(End(seg), ack))
        left == SubSeq(c.unacked, n + 1, Len(c.unacked))
    IN  [c EXCEPT !.infr = FALSE, !.slow = FALSE, !.dupacks = 0,
                  !.acked = TRUE, !.sndBuf = @ + Diff(ack, c.lastack),
                  !.lastack = ack, !.unacked = left, !.timer = left # <<>>]
NewAck_NoRoom(c, ack) ==
    LET n == Leading(c.unacked, LAMBDA seg : TCP_SEQ_LEQ(End(seg), ack))
        left == SubSeq(c.unacked, n + 1, Len(c.unacked))
    IN  [c EXCEPT !.infr = FALSE, !.slow = FALSE, !.nrtx = 0, !.dupacks = 0,
                  !.acked = TRUE, !.lastack = ack, !.unacked = left,
                  !.timer = left # <<>>]
NewAck(c, ack) ==
    LET n == Leading(c.unacked, LAMBDA seg : TCP_SEQ_LEQ(End(seg), ack))
        left == SubSeq(c.unacked, n + 1, Len(c.unacked))
    IN  [c EXCEPT !.infr = FALSE, !.slow = FALSE, !.nrtx = 0, !.dupacks = 0,
                  !.acked = TRUE, !.sndBuf = @ + Diff(ack, c.lastack),
                  !.lastack = ack, !.unacked = left, !.timer = left # <<>>]

Acknowledge(c, seg) ==
    LET w == WindowUpdate(c, seg)
        same == Plus(w.wl2, w.sndWnd) = Plus(c.wl2, c.sndWnd)
        d == IF seg.ack = c.lastack
             THEN [IF same THEN DupAck(w) ELSE w EXCEPT !.acked = FALSE]
             ELSE IF TCP_SEQ_BETWEEN(seg.ack, Plus(c.lastack, 1), c.sndNxt)
             THEN NewAck(w, seg.ack)
             ELSE [w EXCEPT !.acked = FALSE]
        n == Leading(d.unsent,
                     LAMBDA s : TCP_SEQ_BETWEEN(seg.ack, End(s), d.sndNxt))
    IN  [d EXCEPT !.unsent = SubSeq(@, n + 1, Len(@))]

(* tcp_receive, the data: what is next in sequence and inside the window is   *)
(* taken, everything else is answered with an acknowledgement.                *)
tcp_ack(c) ==
    [c EXCEPT !.ackNow = @ \/ c.ackDelay, !.ackDelay = ~@]
InWindow(c, seq) == TCP_SEQ_BETWEEN(seq, c.rcvNxt, Plus(RightEdge(c), -1))
Taken(c, data, fin) ==
    LET n == Len(data) + (IF fin THEN 1 ELSE 0)
    IN  tcp_ack(tcp_update_rcv_ann_wnd(
            [c EXCEPT !.rcvNxt = Plus(@, n), !.rcvWnd = @ - n,
                      !.recv = data, !.gotFin = fin]))
TakeData_AnyOrder(c, seg) ==
    IF TCP_TCPLEN(seg) = 0 THEN c
    ELSE tcp_ack([c EXCEPT !.rcvNxt = End(seg), !.recv = seg.data,
                           !.gotFin = "FIN" \in seg.flags])
TakeData(c, seg) ==
    LET len == TCP_TCPLEN(seg)
        skip == IF TCP_SEQ_BETWEEN(c.rcvNxt, Plus(seg.seq, 1), Plus(seg.seq, len - 1))
                THEN Diff(c.rcvNxt, seg.seq) ELSE 0
        seq == Plus(seg.seq, skip)
        over == len - skip > c.rcvWnd
        data == SubSeq(seg.data, skip + 1, IF over THEN skip + c.rcvWnd ELSE Len(seg.data))
        fin == "FIN" \in seg.flags /\ ~over
    IN  IF len > 0 /\ InWindow(c, seq) /\ seq = c.rcvNxt THEN Taken(c, data, fin)
        ELSE [c EXCEPT !.ackNow = @ \/ len > 0 \/ ~InWindow(c, seq)]
tcp_receive(c, seg) ==
    TakeData(IF "ACK" \in seg.flags THEN Acknowledge(c, seg) ELSE c, seg)

-----------------------------------------------------------------------------
(* The callbacks of tcpserver.c (TcpConn), in lwIP's own contexts.  A deal    *)
(* takes the pbufs that fit and calls XVC_Interface, which asks for an        *)
(* acknowledgement and answers, or leaves the answer of an erase to the main  *)
(* loop.                                                                      *)
Erase == -1
Replies == Answers \cup (IF EraseAnswer > 0 THEN {Erase} ELSE {})

tcp_server_deal(c, a) ==
    LET n == Leading(c.chain, LAMBDA len : len <= c.sndBuf)
        d == FoldLeft(tcp_recved, c, SubSeq(c.chain, 1, n))
        e == [d EXCEPT !.chain = SubSeq(@, n + 1, Len(@)), !.ackNow = TRUE]
    IN  IF n = 0 THEN e
        ELSE IF a = Erase THEN [e EXCEPT !.erasing = TRUE] ELSE tcp_write(e, a)

(* tcp_server_connection_close and tcp_close: from CLOSE_WAIT, since only the *)
(* host's FIN makes the server close.                                         *)
tcp_close_NoFin(c) == [c EXCEPT !.es = "none", !.state = "LAST_ACK"]
tcp_close(c) ==
    LET d == [c EXCEPT !.es = "none"]
    IN  IF c.state = "CLOSE_WAIT" /\ Room(c, <<>>)
        THEN tcp_output([tcp_enqueue(d, <<>>, {"FIN"}) EXCEPT !.state = "LAST_ACK"])
        ELSE d

tcp_server_receive(c, data, a) ==
    IF c.es = "none" THEN c
    ELSE LET d == [c EXCEPT !.given = @ \o data, !.chain = Append(@, Len(data))]
         IN  IF c.chain = <<>> THEN tcp_server_deal(d, a) ELSE d
tcp_server_receive_fin(c, a) ==
    LET d == [c EXCEPT !.es = "closing"]
    IN  IF c.es = "none" THEN c
        ELSE IF c.chain = <<>> THEN tcp_close(d) ELSE tcp_server_deal(d, a)

(* Sent and poll do the same.                                                 *)
tcp_server_sent(c, a) ==
    IF c.es # "none" /\ c.chain # <<>> THEN tcp_server_deal(c, a)
    ELSE IF c.es = "closing" THEN tcp_close(c)
    ELSE c

-----------------------------------------------------------------------------
(* tcp_input.  An erase goes on without the pcb; what main then writes to the *)
(* memory that was the pcb's is taken to have no effect.                      *)
Gone(c) ==
    [Fresh EXCEPT !.state = "CLOSED", !.out = c.out, !.given = c.given,
                  !.wrote = c.wrote, !.refused = c.refused, !.gaveUp = c.gaveUp,
                  !.erasing = c.erasing]
tcp_pcb_remove(c) ==
    Gone(IF c.ackDelay
         THEN tcp_output([c EXCEPT !.unsent = <<>>, !.ackNow = TRUE]) ELSE c)

(* A SYN makes a pcb; the MSS it carries is Mss.                              *)
tcp_listen_input(c, seg) ==
    IF "ACK" \in seg.flags
    THEN [c EXCEPT !.out = <<tcp_rst(Plus(seg.ack, 1), End(seg))>>]
    ELSE IF "SYN" \in seg.flags /\ c.state = "LISTEN"
    THEN tcp_output(tcp_enqueue(
             [c EXCEPT !.state = "SYN_RCVD", !.rcvNxt = Plus(seg.seq, 1),
                       !.annEdge = Plus(seg.seq, 1), !.sndWnd = seg.wnd,
                       !.wl1 = Plus(seg.seq, -1)],
             <<>>, {"SYN"}))
    ELSE c

Finned(c) ==
    IF c.gotFin THEN [c EXCEPT !.state = "CLOSE_WAIT", !.ackNow = TRUE] ELSE c

SynRcvd(c, seg) ==
    IF "ACK" \in seg.flags
    THEN IF TCP_SEQ_BETWEEN(seg.ack, Plus(c.lastack, 1), c.sndNxt)
         THEN LET d == [c EXCEPT !.state = "ESTABLISHED", !.es = "open"]
              IN  Finned([tcp_receive(d, seg) EXCEPT !.slow = c.slow])
         ELSE [c EXCEPT !.out = Append(@, tcp_rst(seg.ack, End(seg)))]
    ELSE IF "SYN" \in seg.flags /\ seg.seq = Plus(c.rcvNxt, -1)
    THEN tcp_rexmit(c)
    ELSE c

tcp_process(c, seg) ==
    IF "RST" \in seg.flags THEN c
    ELSE IF c.state = "SYN_RCVD" THEN SynRcvd(c, seg)
    ELSE IF "SYN" \in seg.flags THEN [c EXCEPT !.ackNow = TRUE]
    ELSE IF c.state = "LAST_ACK" THEN tcp_receive(c, seg)
    ELSE Finned(tcp_receive(c, seg))

Resets(c, seg) ==
    "RST" \in seg.flags /\ TCP_SEQ_BETWEEN(seg.seq, c.rcvNxt, RightEdge(c))
Closes(c, seg, d) ==
    /\ c.state = "LAST_ACK" /\ seg.flags \cap {"RST", "SYN"} = {}
    /\ "ACK" \in seg.flags /\ seg.ack = d.sndNxt

TCP_EVENT_SENT(c, a) == IF c.acked THEN tcp_server_sent(c, a) ELSE c
TCP_EVENT_RECV(c, data, b) == IF data # <<>> THEN tcp_server_receive(c, data, b) ELSE c
TCP_EVENT_FIN(c, fin, b) == IF fin THEN tcp_server_receive_fin(c, b) ELSE c
tcp_input(c, seg, a, b) ==
    IF c.state \in {"LISTEN", "CLOSED"} THEN tcp_listen_input(c, seg)
    ELSE IF Resets(c, seg) THEN Gone(c)
    ELSE LET p == tcp_process(c, seg)
         IN  IF Closes(c, seg, p) THEN tcp_pcb_remove(p)
             ELSE tcp_output(TCP_EVENT_FIN(TCP_EVENT_RECV(TCP_EVENT_SENT(p, a),
                                                          p.recv, b), p.gotFin, b))

Serve(c) ==
    /\ srv' = [c EXCEPT !.out = <<>>, !.recv = <<>>, !.gotFin = FALSE]
    /\ toHost' = toHost \o c.out

ServerReceive ==
    /\ toServer # <<>> /\ toServer' = Tail(toServer)
    /\ UNCHANGED <<host, faults>>
    /\ \E a, b \in Replies : Serve(tcp_input(srv, Head(toServer), a, b))

-----------------------------------------------------------------------------
(* The units the host has sent, and the bounds on them and on the faults.     *)
HostSent == IF host.state = "CLOSED" THEN 0
            ELSE Diff(host.nxt, HostIss) - (IF host.fin THEN 2 ELSE 1)
MaySend(n) ==
    /\ HostSent + n <= Units
    /\ (HostSent + n <= Calm \/ (host.hasty /\ faults = 1))
Fault == faults < MaxFaults /\ HostSent <= Calm /\ faults' = faults + 1

-----------------------------------------------------------------------------
(* The timers.  One that waits for the other side runs out when nothing is on *)
(* its way any more, or too early.                                            *)
Quiet == toServer = <<>> /\ toHost = <<>>
RunsOut ==
    \/ Quiet /\ UNCHANGED faults
    \/ ~Quiet /\ "early" \in Faults /\ Fault

Active == srv.state \notin {"LISTEN", "CLOSED"}

(* tcp_slowtmr, when neither retransmission nor probe is due: after MaxRtx    *)
(* retransmissions the pcb goes, with no wait for an answer to the last;      *)
(* otherwise poll.                                                            *)
Polled(c) == \E a \in Replies : Serve(tcp_output(tcp_server_sent(c, a)))
GiveUp == Serve([Gone(srv) EXCEPT !.gaveUp = TRUE])
SlowTmr ==
    /\ Active /\ Len(toServer \o toHost) <= MaxFlight
    /\ UNCHANGED <<host, toServer, faults>>
    /\ IF srv.nrtx = MaxRtx THEN GiveUp ELSE Polled(srv)

(* tcp_slowtmr, when one is.  A pcb in persist only probes.                   *)
Expired(c) ==
    IF c.persist THEN tcp_zero_window_probe(c)
    ELSE IF c.timer /\ c.unacked # <<>>
    THEN tcp_rexmit_rto([c EXCEPT !.slow = TRUE])
    ELSE c
SlowTmrExpired ==
    /\ Active /\ srv.nrtx # MaxRtx
    /\ RunsOut
    /\ UNCHANGED <<host, toServer>>
    /\ Polled(Expired(srv))

(* tcp_slowtmr, a connection that has been idle: tcp_keepalive.               *)
Idle == Quiet /\ srv.state \in {"ESTABLISHED", "CLOSE_WAIT"}
Keepalive ==
    /\ Idle
    /\ UNCHANGED <<host, toServer, faults>>
    /\ Serve([Announced(srv) EXCEPT
                 !.out = <<Segment(srv, Plus(srv.sndNxt, -1), <<>>, {})>>])

FastTmr ==
    /\ Active /\ srv.ackDelay
    /\ UNCHANGED <<host, toServer, faults>>
    /\ Serve([tcp_output([srv EXCEPT !.ackNow = TRUE])
                 EXCEPT !.ackNow = FALSE, !.ackDelay = FALSE])

(* main: the answer to an erase, which nothing sends before the next timer or *)
(* segment.                                                                   *)
MainWrite ==
    /\ srv.erasing
    /\ UNCHANGED <<host, toServer, faults>>
    /\ Serve([tcp_write(srv, EraseAnswer) EXCEPT !.erasing = FALSE])

-----------------------------------------------------------------------------
(* The host: any TCP that keeps the rules.  Its unit k has sequence number    *)
(* HostIss + k.                                                               *)
HostSegment(h, seq, data, flags) ==
    [seq |-> seq, ack |-> h.rcvNxt, wnd |-> HostWnd - h.unread, data |-> data,
     flags |-> flags \cup {"ACK"}]
Numbered(seq, n) == [i \in 1 .. n |-> Diff(seq, HostIss) + i - 1]
Answered ==
    /\ Len(srv.given) = HostSent
    /\ srv.chain = <<>> /\ ~srv.erasing
    /\ Len(host.got) = srv.wrote /\ host.unread = 0
Hears(h, segs) ==
    /\ host' = h
    /\ toServer' = toServer \o segs

HostOpen ==
    /\ host.state = "CLOSED"
    /\ Hears([host EXCEPT !.state = "SYN_SENT", !.nxt = Plus(@, 1)],
             <<[HostSegment(host, HostIss, <<>>, {}) EXCEPT !.flags = {"SYN"}]>>)
    /\ UNCHANGED <<srv, toHost, faults>>

(* It awaits the answer to a command before it sends the next.                *)
Ready == host.hasty \/ Answered
HostSend ==
    /\ host.state = "ESTABLISHED" /\ Ready
    /\ \E n \in Commands :
          /\ MaySend(n)
          /\ n <= Diff(host.right, host.nxt)
          /\ Hears([host EXCEPT !.nxt = Plus(@, n)],
                   <<HostSegment(host, host.nxt, Numbered(host.nxt, n), {})>>)
    /\ UNCHANGED <<srv, toHost, faults>>

(* Or does not, from now on.                                                  *)
HostHastes ==
    /\ host.state = "ESTABLISHED" /\ ~host.hasty
    /\ "haste" \in Faults /\ Fault
    /\ Hears([host EXCEPT !.hasty = TRUE], <<>>)
    /\ UNCHANGED <<srv, toHost>>

(* It leaves once it has its last answer, or without.                         *)
HostClose ==
    /\ host.state = "ESTABLISHED" /\ HostSent >= Calm
    /\ \/ Answered /\ UNCHANGED faults
       \/ ~Answered /\ "leave" \in Faults /\ Fault
    /\ Hears([host EXCEPT !.state = "FIN_WAIT", !.nxt = Plus(@, 1), !.fin = TRUE],
             <<HostSegment(host, host.nxt, <<>>, {"FIN"})>>)
    /\ UNCHANGED <<srv, toHost>>

HostHangup ==
    /\ host.state \in {"ESTABLISHED", "FIN_WAIT"}
    /\ "reset" \in Faults /\ Fault
    /\ Hears([host EXCEPT !.state = "RESET", !.unread = 0],
             <<HostSegment(host, host.nxt, <<>>, {"RST"})>>)
    /\ UNCHANGED <<srv, toHost>>

HostRead ==
    /\ host.unread > 0
    /\ UNCHANGED <<srv, toHost, faults>>
    /\ LET h == [host EXCEPT !.unread = 0]
       IN  Hears(h, <<HostSegment(h, h.nxt, <<>>, {})>>)

(* What is not acknowledged is sent again, a segment at a time; into a closed *)
(* window one unit is sent to probe it.                                       *)
HostAgain ==
    LET size == Diff(host.nxt, host.una) - (IF host.state = "FIN_WAIT" THEN 1 ELSE 0)
        n == IF size < Mss THEN size ELSE Mss
        fin == IF host.state = "FIN_WAIT" /\ n = size THEN {"FIN"} ELSE {}
    IN  HostSegment(host, host.una, Numbered(host.una, n), fin)
HostTimer ==
    /\ RunsOut
    /\ UNCHANGED <<srv, toHost>>
    /\ \/ /\ host.state = "SYN_SENT"
          /\ Hears(host, <<[HostSegment(host, HostIss, <<>>, {}) EXCEPT !.flags = {"SYN"}]>>)
       \/ /\ host.state \in {"ESTABLISHED", "FIN_WAIT"} /\ host.una # host.nxt
          /\ Hears(host, <<HostAgain>>)
       \/ /\ host.state = "ESTABLISHED" /\ host.una = host.nxt
          /\ host.nxt = host.right /\ MaySend(1)
          /\ Hears([host EXCEPT !.nxt = Plus(@, 1)],
                   <<HostSegment(host, host.nxt, Numbered(host.nxt, 1), {})>>)

(* The acknowledgement and the window, which never shrinks; then the data in  *)
(* sequence, as far as there is room; an answer to all but what is empty and  *)
(* in its place.                                                              *)
HostAck(h, seg) ==
    LET edge == Plus(seg.ack, seg.wnd)
    IN  [h EXCEPT !.una = IF TCP_SEQ_BETWEEN(seg.ack, h.una, h.nxt) THEN seg.ack ELSE @,
                  !.right = IF TCP_SEQ_LT(@, edge) THEN edge ELSE @]
HostTake(h, seg) ==
    LET skip == Diff(h.rcvNxt, seg.seq)
        room == HostWnd - h.unread
        rest == SubSeq(seg.data, skip + 1,
                       IF Len(seg.data) - skip > room THEN skip + room ELSE Len(seg.data))
        whole == skip + Len(rest) = Len(seg.data)
        fin == IF "FIN" \in seg.flags /\ whole THEN 1 ELSE 0
    IN  IF skip < TCP_TCPLEN(seg)
        THEN [h EXCEPT !.got = @ \o rest,
                       !.rcvNxt = Plus(@, Len(rest) + fin),
                       !.unread = IF Reads = "late" THEN @ + Len(rest) ELSE 0,
                       !.state = IF fin = 1 THEN "DONE" ELSE @]
        ELSE h
HostReset(seg) ==
    [tcp_rst(seg.ack, End(seg)) EXCEPT !.flags = {"RST"}]

HostReceive ==
    LET seg == Head(toHost)
        h == HostTake(HostAck(host, seg), seg)
    IN  /\ toHost # <<>> /\ toHost' = Tail(toHost)
        /\ UNCHANGED <<srv, faults>>
        /\ IF "RST" \in seg.flags
           THEN Hears(IF \/ host.state = "SYN_SENT" /\ seg.ack = host.nxt
                         \/ /\ host.state \notin {"CLOSED", "SYN_SENT"}
                            /\ TCP_SEQ_BETWEEN(seg.seq, host.rcvNxt,
                                               Plus(host.rcvNxt, HostWnd - host.unread))
                      THEN [host EXCEPT !.state = "RESET", !.unread = 0] ELSE host, <<>>)
           ELSE IF host.state = "RESET" THEN Hears(host, <<HostReset(seg)>>)
           ELSE IF host.state = "SYN_SENT"
           THEN IF "SYN" \in seg.flags /\ seg.ack = host.nxt
                THEN LET new == [host EXCEPT !.state = "ESTABLISHED", !.una = seg.ack,
                                             !.right = Plus(seg.ack, seg.wnd),
                                             !.rcvNxt = End(seg)]
                     IN  Hears(new, <<HostSegment(new, new.nxt, <<>>, {})>>)
                ELSE Hears(host, <<>>)
           ELSE IF "SYN" \in seg.flags
           THEN Hears(host, <<HostSegment(host, host.nxt, <<>>, {})>>)
           ELSE Hears(h, IF TCP_TCPLEN(seg) > 0 \/ seg.seq # host.rcvNxt
                         THEN <<HostSegment(h, h.nxt, <<>>, {})>> ELSE <<>>)

-----------------------------------------------------------------------------
(* The network loses, doubles and delays.                                     *)
Lossy(chan) ==
    /\ chan # <<>>
    /\ \/ "lose" \in Faults /\ chan' = Tail(chan)
       \/ "double" \in Faults /\ chan' = Append(chan, Head(chan))
       \/ "delay" \in Faults /\ chan' = Append(Tail(chan), Head(chan))
Network ==
    /\ Fault
    /\ \/ Lossy(toServer) /\ UNCHANGED toHost
       \/ Lossy(toHost) /\ UNCHANGED toServer
    /\ UNCHANGED <<srv, host>>

Next ==
    \/ ServerReceive \/ SlowTmr \/ SlowTmrExpired \/ Keepalive \/ FastTmr \/ MainWrite
    \/ HostOpen \/ HostSend \/ HostHastes \/ HostClose \/ HostHangup \/ HostRead
    \/ HostTimer \/ HostReceive
    \/ Network

(* What can be done at once is done, and time passes: a wait for the other    *)
(* side ends, however often it is interrupted.  The enabling conditions of    *)
(* weak and strong fairness are spelled out: Can... says that the action has  *)
(* something to do.                                                           *)
Progress == HostOpen \/ SlowTmr \/ FastTmr \/ MainWrite
CanPoll ==
    \/ srv.chain # <<>> /\ Head(srv.chain) <= srv.sndBuf
    \/ srv.chain = <<>> /\ srv.es = "closing" /\ Room(srv, <<>>)
    \/ srv.unsent # <<>> /\ Fits(srv, srv.unsent[1], WndOf(srv))
CanProgress ==
    \/ host.state = "CLOSED" \/ srv.erasing
    \/ Active /\ srv.ackDelay
    \/ Active /\ Len(toServer \o toHost) <= MaxFlight /\ (srv.nrtx = MaxRtx \/ CanPoll)
CanExpire ==
    /\ Active /\ Quiet /\ srv.nrtx # MaxRtx
    /\ \/ srv.persist /\ srv.unacked \o srv.unsent # <<>>
       \/ ~srv.persist /\ srv.timer /\ srv.unacked # <<>>
CanHostTimer ==
    /\ Quiet
    /\ \/ host.state = "SYN_SENT"
       \/ host.state \in {"ESTABLISHED", "FIN_WAIT"} /\ host.una # host.nxt
       \/ /\ host.state = "ESTABLISHED" /\ host.nxt = host.right
          /\ MaySend(1)
Fairness ==
    /\ []<>(toServer = <<>>) \/ []<><<ServerReceive>>_vars
    /\ []<>(toHost = <<>>) \/ []<><<HostReceive>>_vars
    /\ []<>~CanProgress \/ []<><<Progress>>_vars
    /\ []<>(host.unread = 0) \/ []<><<HostRead>>_vars
    /\ []<>~Idle \/ []<><<Keepalive>>_vars
    /\ <>[]~CanExpire \/ []<><<SlowTmrExpired>>_vars
    /\ <>[]~CanHostTimer \/ []<><<HostTimer>>_vars

Spec == Init /\ [][Next]_vars /\ Fairness

-----------------------------------------------------------------------------
(* Each direction is a byte stream through the losses, doublings, delays and  *)
(* premature time-outs of a run: what tcp_server_receive gets is what the     *)
(* host sent, in order and once, and what the host gets is what tcp_write     *)
(* took (tcp_in.c 726-1330, tcp_out.c).                                       *)
Up == INSTANCE ByteStream WITH wrote <- HostSent, got <- srv.given
Down == INSTANCE ByteStream WITH wrote <- srv.wrote, got <- host.got
HostStream == Up!Spec
ServerStream == Down!Spec

(* Nothing is dropped between the two queues: every sequence number that was  *)
(* written and not acknowledged is that of one segment on one of them, each   *)
(* segment holds its own units, and snd_buf is the room they leave.  Nothing  *)
(* is said of their order: segments that are sent again one by one may come   *)
(* to stand behind later ones (tcp_out.c 595-619, 792-857, tcp_in.c 770-806,  *)
(* 856-920).                                                                  *)
InFlight == srv.unacked \o srv.unsent
Covers(seg, seq) == Diff(seq, seg.seq) < TCP_TCPLEN(seg)
NothingDropped ==
    Active =>
        /\ \A n \in 0 .. Diff(srv.sndLbb, srv.lastack) - 1 :
              \E i \in DOMAIN InFlight : Covers(InFlight[i], Plus(srv.lastack, n))
        /\ \A i, j \in DOMAIN InFlight :
              i # j => ~Covers(InFlight[i], InFlight[j].seq)
        /\ \A i \in DOMAIN InFlight : \A k \in DOMAIN InFlight[i].data :
              InFlight[i].data[k] = Diff(InFlight[i].seq, Iss) + k - 1
        /\ srv.sndBuf = SndBuf - Diff(srv.sndLbb, srv.lastack)

(* What the server offers it has room for, and the edge it has offered never  *)
(* moves back (tcp.c 393-445, tcp_out.c 657).                        *)
WindowHonest ==
    Active => TCP_SEQ_LEQ(srv.annEdge, RightEdge(srv))
NeverShrinks ==
    [][Active /\ srv'.state # "CLOSED" => TCP_SEQ_LEQ(srv.annEdge, srv'.annEdge)]_vars

(* tcp_write takes every answer to a host that awaits its answers, whatever   *)
(* the faults of a run take from the network: nobody looks at its result      *)
(* (tcpserver.c 413).  The pools and the heap never run out here.             *)
AnswersFit == srv.refused => host.hasty

(* The server gives up only after MaxRtx faults: neither a slow host nor one  *)
(* fault that counts more than once ends a connection (tcp.c 591-593,         *)
(* tcp_in.c 770-806).                                                         *)
GivesUpLate == srv.gaveUp => faults >= MaxRtx

(* The retransmission count stays inside tcp_backoff (tcp.c 58, 591, 620).    *)
NrtxBounded == srv.nrtx <= MaxRtx

(* In persist into an open window the server sends nothing but the probe of   *)
(* one unit, over and over, until the host announces another window: what was *)
(* lost is not sent again (tcp.c 596-608, tcp_in.c 744-752, tcp_out.c         *)
(* 625-631).                                                                  *)
Deaf == srv.persist /\ srv.sndWnd > 0

(* Every answer arrives, unless the connection is reset or given up, or the   *)
(* server comes to stay in that state.                                        *)
AnswersArrive ==
    []<>~Deaf =>
        ((Len(host.got) < srv.wrote) ~>
            \/ Len(host.got) = srv.wrote
            \/ host.state = "RESET" \/ srv.state = "CLOSED")

(* Every answer arrives, unless the connection is reset or given up: not so,  *)
(* as the server may stay in that state for ever (tcp.c 596-598).             *)
AnswersAlwaysArrive ==
    (Len(host.got) < srv.wrote) ~>
        (Len(host.got) = srv.wrote \/ host.state = "RESET" \/ srv.state = "CLOSED")

(* A connection the host has closed or reset ends.                            *)
Ends == (host.state \in {"FIN_WAIT", "DONE", "RESET"}) ~> (srv.state = "CLOSED")

(* A connection the server has closed in order has delivered everything:      *)
(* unsent data is sent from the timer functions also (tcp.c 177-181).         *)
ClosedMeansDelivered ==
    srv.state = "CLOSED" /\ host.state # "RESET" /\ ~srv.gaveUp =>
        Len(host.got) = srv.wrote
=============================================================================
