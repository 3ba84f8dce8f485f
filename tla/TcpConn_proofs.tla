---------------------------- MODULE TcpConn_proofs ----------------------------
(* Proofs about the callbacks of tcpserver.c: a connection's es is allocated  *)
(* for as long as its callbacks are registered and freed with them, and what  *)
(* arrives in segments, waits in a chain and is dealt with in parts is the    *)
(* peer's stream, nothing dropped, doubled or moved.                          *)
EXTENDS TcpConn, Integers, SequencesExt, SequenceTheorems, FiniteSetTheorems,
        WellFoundedInduction, TLAPS

-----------------------------------------------------------------------------
(* Induction over the natural numbers in the form of a set, for the lemmas    *)
(* that go along a sequence, and what FlattenSeq returns: it is a recursive   *)
(* function, whose existence and values follow by that induction.             *)

(* Every nonempty set of naturals has a least element.                        *)
LEMMA Least ==
    ASSUME NEW T, T \subseteq Nat, T # {}
    PROVE  \E x \in T : \A y \in T : x <= y
<1> DEFINE R == {ss \in Nat \X Nat : ss[1] < ss[2]}
<1>1. IsWellFoundedOn(R, Nat)
  BY NatLessThanWellFounded, Zenon DEF OpToRel
<1>2. \A x, y \in Nat : <<y, x>> \in R <=> y < x
  OBVIOUS
<1> HIDE DEF R
<1>3. PICK x \in T : \A y \in T : <<y, x>> \notin R
  BY <1>1, WFMin, Zenon
<1>4. \A y \in T : ~ (y < x)
  BY <1>2, <1>3, Zenon
<1> QED
  BY <1>4

(* A set of naturals with 0 and the successor of each member holds them all. *)
LEMMA Induct ==
    ASSUME NEW G, 0 \in G, \A n \in Nat : n \in G => n + 1 \in G
    PROVE  Nat \subseteq G
<1> SUFFICES ASSUME Nat \ G # {}
             PROVE  FALSE
  OBVIOUS
<1>1. PICK x \in Nat \ G : \A y \in Nat \ G : x <= y
  BY Least
<1>2. x # 0 /\ x - 1 \in Nat
  BY <1>1
<1>3. x - 1 \in G
  BY <1>1, <1>2
<1> QED
  BY <1>1, <1>2, <1>3

-----------------------------------------------------------------------------
(* The function inside FlattenSeq: its value at i ...                         *)
Joined(seqs, f, i) ==
    IF i = 1 THEN seqs[i] ELSE f[i - 1] \o seqs[i]

(* ... and f as that function, on the first n elements of seqs.               *)
Joins(seqs, n, f) == f = [i \in 1 .. n |-> Joined(seqs, f, i)]

(* There is one for every n.                                                  *)
LEMMA JoinsExist ==
    ASSUME NEW seqs
    PROVE  \A n \in Nat : \E f : Joins(seqs, n, f)
<1> DEFINE G == {n \in Nat : \E f : Joins(seqs, n, f)}
<1>1. 0 \in G
  <2> DEFINE f == [i \in 1 .. 0 |-> 0]
  <2>1. f = [i \in 1 .. 0 |-> Joined(seqs, f, i)]
    OBVIOUS
  <2>2. Joins(seqs, 0, f)
    BY <2>1 DEF Joins
  <2> HIDE DEF f
  <2> QED
    BY <2>2
<1>2. ASSUME NEW n \in Nat, n \in G
      PROVE  n + 1 \in G
  <2>1. PICK f : Joins(seqs, n, f)
    BY <1>2
  <2> DEFINE g == [i \in 1 .. n + 1 |-> Joined(seqs, f, i)]
  <2>2. \A i \in 1 .. n : f[i] = Joined(seqs, f, i)
    BY <2>1 DEF Joins
  <2>3. \A i \in 1 .. n + 1 : g[i] = Joined(seqs, f, i)
    OBVIOUS
  <2> HIDE DEF g
  <2>4. \A i \in 1 .. n : g[i] = f[i]
    BY <2>2, <2>3
  <2>5. ASSUME NEW i \in 1 .. n + 1
        PROVE  Joined(seqs, f, i) = Joined(seqs, g, i)
    <3>1. CASE i = 1
      BY <3>1, Zenon DEF Joined
    <3>2. CASE i # 1
      <4>1. f[i - 1] = g[i - 1]
        BY <2>4, <3>2
      <4> QED
        BY <3>2, <4>1, Zenon DEF Joined
    <3> QED
      BY <3>1, <3>2
  <2>6. g = [i \in 1 .. n + 1 |-> Joined(seqs, g, i)]
    BY <2>5 DEF g
  <2>7. Joins(seqs, n + 1, g)
    BY <2>6 DEF Joins
  <2> QED
    BY <2>7
<1> HIDE DEF G
<1>3. Nat \subseteq G
  BY <1>1, <1>2, Induct
<1> QED
  BY <1>3 DEF G

(* FlattenSeq is such a function's last value.                                *)
LEMMA FlattenUnfold ==
    ASSUME NEW seqs, Len(seqs) \in Nat \ {0}
    PROVE  \E f : Joins(seqs, Len(seqs), f) /\ FlattenSeq(seqs) = f[Len(seqs)]
<1>1. PICK f : Joins(seqs, Len(seqs), f)
  BY JoinsExist
<1> DEFINE g == CHOOSE h : Joins(seqs, Len(seqs), h)
<1>2. Joins(seqs, Len(seqs), g)
  BY <1>1, Zenon
<1>3. FlattenSeq(seqs) = g[Len(seqs)]
  BY Zenon DEF FlattenSeq, Joins, Joined
<1> QED
  BY <1>2, <1>3, Zenon

LEMMA JoinedNext ==
    ASSUME NEW seqs, NEW f, NEW n \in Nat, n # 0
    PROVE  Joined(seqs, f, n + 1) = f[n] \o seqs[n + 1]
<1>1. (n + 1) - 1 = n /\ n + 1 # 1
  OBVIOUS
<1> QED
  BY <1>1, Zenon DEF Joined

(* The sequence of all elements of sequences over S is a sequence over S.     *)
LEMMA FlattenType ==
    ASSUME NEW S, NEW seqs \in Seq(Seq(S))
    PROVE  FlattenSeq(seqs) \in Seq(S)
<1>1. CASE Len(seqs) = 0
  <2>1. FlattenSeq(seqs) = seqs
    BY <1>1, Zenon DEF FlattenSeq
  <2>2. seqs = <<>>
    BY <1>1
  <2> QED
    BY <2>1, <2>2
<1>2. CASE Len(seqs) # 0
  <2>0. Len(seqs) \in Nat \ {0}
    BY <1>2
  <2>1. PICK f : Joins(seqs, Len(seqs), f) /\ FlattenSeq(seqs) = f[Len(seqs)]
    BY <2>0, FlattenUnfold
  <2>2. \A i \in 1 .. Len(seqs) : f[i] = Joined(seqs, f, i)
    BY <2>1 DEF Joins
  <2> DEFINE G == {n \in Nat : n \in 1 .. Len(seqs) => f[n] \in Seq(S)}
  <2>3. 0 \in G
    OBVIOUS
  <2>4. ASSUME NEW n \in Nat, n \in G
        PROVE  n + 1 \in G
    <3>1. CASE n = 0
      BY <3>1, <2>0, <2>2 DEF Joined
    <3>2. CASE n # 0 /\ n + 1 \in 1 .. Len(seqs)
      <4>1. f[n] \in Seq(S) /\ seqs[n + 1] \in Seq(S)
        BY <3>2, <2>4
      <4>2. f[n + 1] = f[n] \o seqs[n + 1]
        <5>1. f[n + 1] = Joined(seqs, f, n + 1)
          BY <3>2, <2>2
        <5> QED
          BY <3>2, <5>1, JoinedNext, Zenon
      <4>3. f[n] \o seqs[n + 1] \in Seq(S)
        BY <4>1, ConcatProperties, Zenon
      <4>4. f[n + 1] \in Seq(S)
        BY <4>2, <4>3, Zenon
      <4> QED
        BY <4>4
    <3> QED
      BY <3>1, <3>2
  <2> HIDE DEF G
  <2>5. Len(seqs) \in G
    BY <2>0, <2>3, <2>4, Induct
  <2> QED
    BY <2>0, <2>1, <2>5 DEF G
<1> QED
  BY <1>1, <1>2

(* One more sequence puts its elements at the end.                            *)
LEMMA FlattenAppend ==
    ASSUME NEW S, NEW seqs \in Seq(Seq(S)), NEW x \in Seq(S)
    PROVE  FlattenSeq(Append(seqs, x)) = FlattenSeq(seqs) \o x
<1> DEFINE t == Append(seqs, x)
           m == Len(seqs)
<1>1. /\ m \in Nat /\ Len(t) = m + 1
      /\ \A i \in 1 .. m : t[i] = seqs[i]
      /\ t[m + 1] = x
  OBVIOUS
<1> HIDE DEF t, m
<1>2. PICK g : Joins(t, m + 1, g) /\ FlattenSeq(t) = g[m + 1]
  <2>1. Len(t) \in Nat \ {0}
    BY <1>1
  <2> QED
    BY <1>1, <2>1, FlattenUnfold, Zenon
<1>3. \A i \in 1 .. m + 1 : g[i] = Joined(t, g, i)
  BY <1>1, <1>2 DEF Joins
<1>4. CASE m = 0
  <2>1. g[1] = x
    BY <1>1, <1>3, <1>4 DEF Joined
  <2>2. seqs = <<>>
    BY <1>4 DEF m
  <2>3. FlattenSeq(seqs) = seqs
    BY <1>4, Zenon DEF FlattenSeq, m
  <2>4. <<>> \o x = x
    BY ConcatEmptySeq, Zenon
  <2> QED
    BY <1>2, <1>4, <2>1, <2>2, <2>3, <2>4 DEF t
<1>5. CASE m # 0
  <2>1. PICK f : Joins(seqs, m, f) /\ FlattenSeq(seqs) = f[m]
    <3>1. Len(seqs) \in Nat \ {0}
      BY <1>1, <1>5 DEF m
    <3> QED
      BY <3>1, FlattenUnfold, Zenon DEF m
  <2>2. \A i \in 1 .. m : f[i] = Joined(seqs, f, i)
    BY <1>1, <2>1 DEF Joins
  <2> DEFINE G == {n \in Nat : n \in 1 .. m => f[n] = g[n]}
  <2>3. 0 \in G
    OBVIOUS
  <2>4. ASSUME NEW n \in Nat, n \in G
        PROVE  n + 1 \in G
    <3>1. CASE n = 0
      BY <3>1, <1>1, <1>3, <2>2 DEF Joined
    <3>2. CASE n # 0 /\ n + 1 \in 1 .. m
      <4>1. f[n] = g[n] /\ seqs[n + 1] = t[n + 1]
        BY <1>1, <3>2, <2>4
      <4>2. f[n + 1] = f[n] \o seqs[n + 1]
        <5>1. f[n + 1] = Joined(seqs, f, n + 1)
          BY <3>2, <2>2
        <5> QED
          BY <3>2, <5>1, JoinedNext, Zenon
      <4>3. g[n + 1] = g[n] \o t[n + 1]
        <5>1. g[n + 1] = Joined(t, g, n + 1)
          BY <1>1, <3>2, <1>3
        <5> QED
          BY <3>2, <5>1, JoinedNext, Zenon
      <4>4. f[n + 1] = g[n + 1]
        BY <4>1, <4>2, <4>3, Zenon
      <4> QED
        BY <4>4
    <3> QED
      BY <3>1, <3>2
  <2> HIDE DEF G
  <2>5. m \in G
    BY <1>1, <2>3, <2>4, Induct
  <2>6. f[m] = g[m]
    BY <1>1, <1>5, <2>5 DEF G
  <2>7. g[m + 1] = g[m] \o x
    <3>1. g[m + 1] = Joined(t, g, m + 1)
      BY <1>1, <1>3
    <3> QED
      BY <1>1, <1>5, <3>1, JoinedNext, Zenon
  <2> QED
    BY <1>2, <2>1, <2>6, <2>7 DEF t
<1> QED
  BY <1>4, <1>5

-----------------------------------------------------------------------------
(* es and the callbacks.                                                      *)

Fields ==
    /\ pcb \in [Slots -> {"free", "established", "close_wait", "last_ack"}]
    /\ arg \in [Slots -> BOOLEAN]
    /\ es \in [Slots -> {"none", "accepted", "received", "closing"}]

(* A connection the server has closed has no callbacks: lwIP may free its pcb *)
(* without telling it.                                                        *)
ClosedIsMute == \A s \in Slots : pcb[s] = "last_ack" => ~arg[s]

IInv == Fields /\ EsOwned /\ ClosedIsMute

(* tcp_server_connection_close takes the callbacks away with es, whatever     *)
(* becomes of tcp_close.                                                      *)
LEMMA ConnectionCloseOwns ==
    ASSUME IInv, NEW s \in Slots, ConnectionClose(s)
    PROVE  IInv'
<1>1. PICK now \in {"last_ack", "close_wait"} :
          pcb' = [pcb EXCEPT ![s] = now]
  BY DEF ConnectionClose
<1> QED
  BY <1>1 DEF ConnectionClose, IInv, Fields, EsOwned, ClosedIsMute

LEMMA Unchanged ==
    ASSUME IInv, UNCHANGED <<pcb, arg, es>>
    PROVE  IInv'
  BY DEF IInv, Fields, EsOwned, ClosedIsMute

LEMMA StepOwns ==
    ASSUME IInv, Next
    PROVE  IInv'
<1>1. CASE EarseAnswer
  BY <1>1, Unchanged DEF EarseAnswer, connVars
<1>2. ASSUME NEW s \in Slots, Accept(s)
      PROVE  IInv'
  BY <1>2 DEF Accept, IInv, Fields, EsOwned, ClosedIsMute
<1>3. ASSUME NEW s \in Slots, NEW lens \in Packets, Receive(s, lens)
      PROVE  IInv'
  <2>1. /\ UNCHANGED <<pcb, arg>>
        /\ es' = [es EXCEPT ![s] = "received"]
        /\ pcb[s] = "established" /\ arg[s]
    BY <1>3 DEF Receive
  <2> QED
    BY <2>1 DEF IInv, Fields, EsOwned, ClosedIsMute
<1>4. ASSUME NEW s \in Slots, ReceiveFin(s)
      PROVE  IInv'
  <2>1. CASE chain[s] = <<>>
    BY <1>4, <2>1, ConnectionCloseOwns DEF ReceiveFin
  <2>2. CASE chain[s] # <<>>
    <3>1. /\ pcb' = [pcb EXCEPT ![s] = "close_wait"]
          /\ es' = [es EXCEPT ![s] = "closing"]
          /\ UNCHANGED arg
          /\ arg[s]
      BY <1>4, <2>2 DEF ReceiveFin
    <3> QED
      BY <3>1 DEF IInv, Fields, EsOwned, ClosedIsMute
  <2> QED
    BY <2>1, <2>2
<1>5. ASSUME NEW s \in Slots, NEW n \in 1 .. SndBuf, Sent(s, n)
      PROVE  IInv'
  <2>1. ConnectionClose(s) \/ UNCHANGED <<pcb, arg, es>>
    BY <1>5 DEF Sent
  <2> QED
    BY <2>1, ConnectionCloseOwns, Unchanged
<1>6. ASSUME NEW s \in Slots, Abort(s)
      PROVE  IInv'
  BY <1>6 DEF Abort, ServerError, IInv, Fields, EsOwned, ClosedIsMute
<1>7. ASSUME NEW s \in Slots, Closed(s)
      PROVE  IInv'
  BY <1>7 DEF Closed, IInv, Fields, EsOwned, ClosedIsMute
<1>8. ASSUME NEW s \in Slots, PollBegin(s)
      PROVE  IInv'
  BY <1>8, Unchanged DEF PollBegin, connVars
<1>9. ASSUME NEW s \in Slots, Poll(s)
      PROVE  IInv'
  <2>1. ConnectionClose(s) \/ UNCHANGED <<pcb, arg, es>>
    BY <1>9 DEF Poll
  <2> QED
    BY <2>1, ConnectionCloseOwns, Unchanged
<1> QED
  BY <1>1, <1>2, <1>3, <1>4, <1>5, <1>6, <1>7, <1>8, <1>9 DEF Next

(* Every callback finds the es it is given allocated, and every end of a      *)
(* connection frees it, also when the Ethernet interrupt preempts poll        *)
(* (tcpserver.c 226-238, 273-293).                                            *)
THEOREM EsAlwaysOwned == Spec => []EsOwned
<1>1. Init => IInv
  BY DEF Init, IInv, Fields, EsOwned, ClosedIsMute
<1>2. IInv /\ [Next]_vars => IInv'
  <2> SUFFICES ASSUME IInv, [Next]_vars PROVE IInv'
    OBVIOUS
  <2>1. CASE Next
    BY <2>1, StepOwns
  <2>2. CASE UNCHANGED vars
    BY <2>2, Unchanged DEF vars, connVars
  <2> QED
    BY <2>1, <2>2
<1>3. IInv => EsOwned
  BY DEF IInv
<1> QED
  BY <1>1, <1>2, <1>3, PTL DEF Spec

-----------------------------------------------------------------------------
(* The bytes of a chain.                                                      *)

(* Chains of pbufs, whatever halves and references they hold.                 *)
Segment == [dat : Seq(Nat), ref : Nat]
Pbufs == Seq(Segment)

LEMMA SegmentDat ==
    ASSUME NEW p \in Segment
    PROVE  p.dat \in Seq(Nat)
  BY DEF Segment

(* The contents of the pbufs of a chain, which Bytes puts end to end.         *)
Dats(c) == [i \in 1 .. Len(c) |-> c[i].dat]

LEMMA DatsType ==
    ASSUME NEW c \in Pbufs
    PROVE  Dats(c) \in Seq(Seq(Nat))
<1>1. Len(c) \in Nat /\ \A i \in 1 .. Len(c) : c[i] \in Segment
  BY DEF Pbufs
<1>2. \A i \in 1 .. Len(c) : c[i].dat \in Seq(Nat)
  BY <1>1, SegmentDat
<1> QED
  BY <1>1, <1>2, IsASeq DEF Dats

LEMMA BytesType ==
    ASSUME NEW c \in Pbufs
    PROVE  Bytes(c) \in Seq(Nat)
  BY DatsType, FlattenType, Zenon DEF Bytes, Dats

LEMMA BytesEmpty == Bytes(<<>>) = <<>>
<1>1. Dats(<<>>) = <<>>
  BY DEF Dats
<1>2. Len(<<>>) = 0
  OBVIOUS
<1> QED
  BY <1>1, <1>2, Zenon DEF Bytes, Dats, FlattenSeq

LEMMA BytesAppend ==
    ASSUME NEW c \in Pbufs, NEW p \in Segment
    PROVE  Bytes(Append(c, p)) = Bytes(c) \o p.dat
<1>1. Dats(Append(c, p)) = Append(Dats(c), p.dat)
  BY DEF Dats, Pbufs
<1>2. Dats(c) \in Seq(Seq(Nat)) /\ p.dat \in Seq(Nat)
  BY DatsType, SegmentDat
<1>3. FlattenSeq(Dats(Append(c, p))) = FlattenSeq(Dats(c)) \o p.dat
  BY <1>1, <1>2, FlattenAppend, Zenon
<1> QED
  BY <1>3, Zenon DEF Bytes, Dats

(* The bytes of two chains, one behind the other.                             *)
LEMMA BytesConcat ==
    ASSUME NEW a \in Pbufs, NEW b \in Pbufs
    PROVE  Bytes(a \o b) = Bytes(a) \o Bytes(b)
<1> DEFINE x(n) == SubSeq(b, 1, n)
           G == {n \in Nat : n <= Len(b) =>
                     Bytes(a \o x(n)) = Bytes(a) \o Bytes(x(n))}
<1>0. Bytes(a) \in Seq(Nat)
  BY BytesType
<1>1. 0 \in G
  <2>1. x(0) = <<>>
    BY DEF Pbufs
  <2>2. a \o <<>> = a /\ Bytes(a) \o <<>> = Bytes(a)
    BY <1>0, ConcatEmptySeq, Zenon DEF Pbufs
  <2>3. Bytes(a \o x(0)) = Bytes(a) \o Bytes(x(0))
    BY <2>1, <2>2, BytesEmpty, Zenon
  <2> QED
    BY <2>3
<1>2. ASSUME NEW n \in Nat, n \in G
      PROVE  n + 1 \in G
  <2> SUFFICES ASSUME n + 1 <= Len(b)
               PROVE  Bytes(a \o x(n + 1)) = Bytes(a) \o Bytes(x(n + 1))
    OBVIOUS
  <2> DEFINE p == b[n + 1]
  <2>1. /\ p \in Segment
        /\ x(n) \in Pbufs /\ x(n + 1) = Append(x(n), p)
    BY DEF Pbufs
  <2>2. Bytes(a \o x(n)) = Bytes(a) \o Bytes(x(n))
    BY <1>2
  <2> HIDE DEF x, p
  <2>3. a \o Append(x(n), p) = Append(a \o x(n), p)
    BY <2>1 DEF Pbufs
  <2>4. a \o x(n) \in Pbufs
    BY <2>1, ConcatProperties, Zenon DEF Pbufs
  <2>5. Bytes(a \o x(n + 1)) = (Bytes(a) \o Bytes(x(n))) \o p.dat
    BY <2>1, <2>2, <2>3, <2>4, BytesAppend, Zenon
  <2>6. Bytes(x(n + 1)) = Bytes(x(n)) \o p.dat
    BY <2>1, BytesAppend, Zenon
  <2>7. Bytes(x(n)) \in Seq(Nat) /\ p.dat \in Seq(Nat)
    BY <2>1, BytesType, SegmentDat
  <2>8. Bytes(a) \o (Bytes(x(n)) \o p.dat) = (Bytes(a) \o Bytes(x(n))) \o p.dat
    <3> DEFINE u == Bytes(a)
               v == Bytes(x(n))
               w == p.dat
    <3>1. u \in Seq(Nat) /\ v \in Seq(Nat) /\ w \in Seq(Nat)
      BY <1>0, <2>7
    <3> HIDE DEF u, v, w
    <3>2. (u \o v) \o w = u \o (v \o w)
      BY <3>1, ConcatAssociative
    <3> QED
      BY <3>2 DEF u, v, w
  <2> QED
    BY <2>5, <2>6, <2>8, Zenon
<1> HIDE DEF G
<1>3. Len(b) \in G
  BY <1>1, <1>2, Induct DEF Pbufs
<1>4. x(Len(b)) = b
  BY SubSeqFull DEF Pbufs
<1>5. Bytes(a \o x(Len(b))) = Bytes(a) \o Bytes(x(Len(b)))
  BY <1>3 DEF G, Pbufs
<1> HIDE DEF x
<1> QED
  BY <1>4, <1>5

(* The n halves of the stream from q on.                                      *)
Run(q, n) == [i \in 1 .. n |-> q + i - 1]

LEMMA RunType ==
    ASSUME NEW q \in Nat, NEW n \in Nat
    PROVE  Run(q, n) \in Seq(Nat) /\ Len(Run(q, n)) = n
<1>1. \A i \in 1 .. n : q + i - 1 \in Nat
  OBVIOUS
<1> QED
  BY <1>1, IsASeq DEF Run

(* Two runs that meet are one run ...                                         *)
LEMMA RunConcat ==
    ASSUME NEW q \in Nat, NEW m \in Nat, NEW n \in Nat
    PROVE  Run(q, m) \o Run(q + m, n) = Run(q, m + n)
<1> DEFINE u == Run(q, m)
           v == Run(q + m, n)
           w == Run(q, m + n)
<1>1. u \in Seq(Nat) /\ Len(u) = m /\ v \in Seq(Nat) /\ Len(v) = n
  BY RunType
<1>2. w \in Seq(Nat) /\ Len(w) = m + n
  BY RunType
<1>3. /\ \A i \in 1 .. m : u[i] = q + i - 1
      /\ \A i \in 1 .. n : v[i] = q + m + i - 1
      /\ \A i \in 1 .. m + n : w[i] = q + i - 1
  BY DEF Run
<1> HIDE DEF u, v, w
<1>4. /\ u \o v \in Seq(Nat) /\ Len(u \o v) = m + n
      /\ \A i \in 1 .. m + n : (u \o v)[i] =
             IF i <= m THEN u[i] ELSE v[i - m]
  BY <1>1, ConcatProperties
<1>5. \A i \in 1 .. m + n : (u \o v)[i] = w[i]
  BY <1>3, <1>4
<1>6. u \o v = w
  BY <1>2, <1>4, <1>5, SeqEqual
<1> QED
  BY <1>6 DEF u, v, w

(* ... and the parts of a run are runs: w is u and v, one behind the other.   *)
Glued(u, v, w) == w = u \o v

LEMMA RunSplit ==
    ASSUME NEW q \in Nat, NEW n \in Nat,
           NEW u \in Seq(Nat), NEW v \in Seq(Nat), Glued(u, v, Run(q, n))
    PROVE  /\ Len(u) + Len(v) = n
           /\ u = Run(q, Len(u)) /\ v = Run(q + Len(u), Len(v))
<1> DEFINE w == Run(q, n)
<1>1. /\ w \in Seq(Nat) /\ Len(w) = n
      /\ \A i \in 1 .. n : w[i] = q + i - 1
  BY RunType DEF Run
<1>2. u \o v = w
  BY Zenon DEF Glued
<1> HIDE DEF w
<1>3. /\ Len(u \o v) = Len(u) + Len(v)
      /\ \A i \in 1 .. Len(u) + Len(v) : (u \o v)[i] =
             IF i <= Len(u) THEN u[i] ELSE v[i - Len(u)]
  BY ConcatProperties
<1>4. Len(u) + Len(v) = n /\ Len(u) \in Nat /\ Len(v) \in Nat
  BY <1>1, <1>2, <1>3
<1>5. \A i \in 1 .. Len(u) : u[i] = q + i - 1
  BY <1>1, <1>2, <1>3, <1>4
<1>6. ASSUME NEW i \in 1 .. Len(v)
      PROVE  v[i] = q + Len(u) + i - 1
  <2>1. Len(u) + i \in 1 .. Len(u) + Len(v)
    BY <1>4
  <2>2. w[Len(u) + i] = v[(Len(u) + i) - Len(u)]
    BY <1>2, <1>3, <1>4, <2>1
  <2>3. (Len(u) + i) - Len(u) = i
    BY <1>4
  <2> QED
    BY <1>1, <1>4, <2>1, <2>2, <2>3
<1>7. u = Run(q, Len(u))
  BY <1>4, <1>5, RunType, SeqEqual DEF Run
<1>8. v = Run(q + Len(u), Len(v))
  BY <1>4, <1>6, RunType, SeqEqual DEF Run
<1> QED
  BY <1>4, <1>7, <1>8

(* Where a deal cuts a chain, it cuts its bytes.                              *)
LEMMA BytesSplit ==
    ASSUME NEW c \in Pbufs, NEW n \in 0 .. Len(c)
    PROVE  /\ SubSeq(c, 1, n) \in Pbufs /\ SubSeq(c, n + 1, Len(c)) \in Pbufs
           /\ Glued(Bytes(SubSeq(c, 1, n)), Bytes(SubSeq(c, n + 1, Len(c))), Bytes(c))
<1>1. SubSeq(c, 1, n) \in Pbufs /\ SubSeq(c, n + 1, Len(c)) \in Pbufs
  BY DEF Pbufs
<1>2. SubSeq(c, 1, n) \o SubSeq(c, n + 1, Len(c)) = c
  <2>1. /\ 1 \in 1 .. Len(c) + 1 /\ n \in 1 - 1 .. Len(c)
        /\ Len(c) \in n .. Len(c)
    BY DEF Pbufs
  <2>2. SubSeq(c, 1, n) \o SubSeq(c, n + 1, Len(c)) = SubSeq(c, 1, Len(c))
    BY <2>1, ConcatAdjacentSubSeq, Zenon DEF Pbufs
  <2>3. SubSeq(c, 1, Len(c)) = c
    BY SubSeqFull, Zenon DEF Pbufs
  <2> QED
    BY <2>2, <2>3
<1>3. Bytes(SubSeq(c, 1, n) \o SubSeq(c, n + 1, Len(c)))
        = Bytes(SubSeq(c, 1, n)) \o Bytes(SubSeq(c, n + 1, Len(c)))
  BY <1>1, BytesConcat, Zenon
<1> QED
  BY <1>1, <1>2, <1>3, Zenon DEF Glued

(* The loop of tcp_server_deal ends: at the end of the chain, or before the   *)
(* first pbuf there is no room for.                                           *)
LEMMA TakenExists ==
    ASSUME NEW c \in Pbufs, NEW room \in Int
    PROVE  LET n == Taken(c, room)
           IN  /\ n \in 0 .. Len(c)
               /\ n < Len(c) => Len(c[n + 1].dat) > room
<1> DEFINE P(n) == /\ \A i \in 1 .. n : Len(c[i].dat) <= room
                   /\ n < Len(c) => Len(c[n + 1].dat) > room
           T == {n \in Nat : n = Len(c) \/ ~ (Len(c[n + 1].dat) <= room)}
<1>0. Len(c) \in Nat
  BY DEF Pbufs
<1>1. T \subseteq Nat /\ T # {}
  BY <1>0
<1>2. PICK n \in T : \A m \in T : n <= m
  BY <1>1, Least
<1>3. n \in 0 .. Len(c)
  BY <1>0, <1>2
<1>4. \A i \in 1 .. n : Len(c[i].dat) <= room
  <2> SUFFICES ASSUME NEW i \in 1 .. n
               PROVE  Len(c[i].dat) <= room
    OBVIOUS
  <2>1. i - 1 \in Nat /\ i - 1 < n /\ (i - 1) + 1 = i
    BY <1>3
  <2>2. i - 1 \notin T
    BY <1>2, <2>1
  <2>3. Len(c[(i - 1) + 1].dat) <= room
    BY <2>1, <2>2
  <2> QED
    BY <2>1, <2>3
<1>5. n < Len(c) => Len(c[n + 1].dat) > room
  <2> SUFFICES ASSUME n < Len(c)
               PROVE  Len(c[n + 1].dat) > room
    OBVIOUS
  <2>1. c[n + 1] \in Segment
    BY <1>0, <1>3 DEF Pbufs
  <2>2. Len(c[n + 1].dat) \in Nat
    BY <2>1, SegmentDat
  <2> QED
    BY <1>2, <1>3, <2>2
<1>6. \E k \in 0 .. Len(c) : P(k)
  BY <1>3, <1>4, <1>5
<1> DEFINE t == CHOOSE k \in 0 .. Len(c) : P(k)
<1>7. t \in 0 .. Len(c) /\ P(t)
  BY <1>6, Zenon
<1>8. Taken(c, room) = t
  BY Zenon DEF Taken
<1> QED
  BY <1>7, <1>8, Zenon

(* The recursive function inside Arrived: the place in the stream of the      *)
(* i-th pbuf of a segment.                                                    *)
Offset(q, lens, f, i) == IF i = 1 THEN q ELSE f[i - 1] + lens[i - 1]
Offsets(q, lens, n, f) == f = [i \in 1 .. n |-> Offset(q, lens, f, i)]

LEMMA OffsetsExist ==
    ASSUME NEW q, NEW lens
    PROVE  \A n \in Nat : \E f : Offsets(q, lens, n, f)
<1> DEFINE G == {n \in Nat : \E f : Offsets(q, lens, n, f)}
<1>1. 0 \in G
  <2> DEFINE f == [i \in 1 .. 0 |-> 0]
  <2>1. f = [i \in 1 .. 0 |-> Offset(q, lens, f, i)]
    OBVIOUS
  <2>2. Offsets(q, lens, 0, f)
    BY <2>1 DEF Offsets
  <2> HIDE DEF f
  <2> QED
    BY <2>2
<1>2. ASSUME NEW n \in Nat, n \in G
      PROVE  n + 1 \in G
  <2>1. PICK f : Offsets(q, lens, n, f)
    BY <1>2
  <2> DEFINE g == [i \in 1 .. n + 1 |-> Offset(q, lens, f, i)]
  <2>2. \A i \in 1 .. n : f[i] = Offset(q, lens, f, i)
    BY <2>1 DEF Offsets
  <2>3. \A i \in 1 .. n + 1 : g[i] = Offset(q, lens, f, i)
    OBVIOUS
  <2> HIDE DEF g
  <2>4. \A i \in 1 .. n : g[i] = f[i]
    BY <2>2, <2>3
  <2>5. ASSUME NEW i \in 1 .. n + 1
        PROVE  Offset(q, lens, f, i) = Offset(q, lens, g, i)
    <3>1. CASE i = 1
      BY <3>1, Zenon DEF Offset
    <3>2. CASE i # 1
      <4>1. f[i - 1] = g[i - 1]
        BY <2>4, <3>2
      <4> QED
        BY <3>2, <4>1, Zenon DEF Offset
    <3> QED
      BY <3>1, <3>2
  <2>6. g = [i \in 1 .. n + 1 |-> Offset(q, lens, g, i)]
    BY <2>5 DEF g
  <2>7. Offsets(q, lens, n + 1, g)
    BY <2>6 DEF Offsets
  <2> QED
    BY <2>7
<1> HIDE DEF G
<1>3. Nat \subseteq G
  BY <1>1, <1>2, Induct
<1> QED
  BY <1>3 DEF G

(* A segment whose pbufs begin at the places f.                               *)
Cut(f, lens) == [i \in 1 .. Len(lens) |->
                    [dat |-> [j \in 1 .. lens[i] |-> f[i] + j - 1], ref |-> 1]]

LEMMA ArrivedCut ==
    ASSUME NEW s, NEW lens \in Seq(Nat)
    PROVE  \E f : Offsets(sent[s], lens, Len(lens), f) /\ Arrived(s, lens) = Cut(f, lens)
<1>0. Len(lens) \in Nat
  OBVIOUS
<1>1. \E f : Offsets(sent[s], lens, Len(lens), f)
  BY <1>0, OffsetsExist, Zenon
<1> DEFINE g == CHOOSE h : Offsets(sent[s], lens, Len(lens), h)
<1>2. Offsets(sent[s], lens, Len(lens), g)
  BY <1>1, Zenon
<1>3. Arrived(s, lens) = Cut(g, lens)
  BY Zenon DEF Arrived, Cut, Offsets, Offset
<1> QED
  BY <1>2, <1>3, Zenon

(* The pbufs of a segment hold the next halves of the stream.                 *)
LEMMA ArrivedStream ==
    ASSUME NEW s, NEW lens \in Seq(Nat), sent[s] \in Nat
    PROVE  LET p == Arrived(s, lens)
               n == Len(Bytes(p))
           IN  /\ p \in Pbufs /\ Len(p) = Len(lens) /\ n \in Nat
               /\ Bytes(p) = Run(sent[s], n)
<1> DEFINE q == sent[s]
           p == Arrived(s, lens)
           x(k) == SubSeq(p, 1, k)
<1>1. PICK f : Offsets(q, lens, Len(lens), f) /\ p = Cut(f, lens)
  BY ArrivedCut
<1>2. \A i \in 1 .. Len(lens) : f[i] = Offset(q, lens, f, i)
  BY <1>1 DEF Offsets
<1> HIDE DEF p, q
<1>0. q \in Nat /\ Len(lens) \in Nat
  BY DEF q
<1>3. \A i \in 1 .. Len(lens) : f[i] \in Nat
  <2> DEFINE F == {k \in Nat : k \in 1 .. Len(lens) => f[k] \in Nat}
  <2>1. 0 \in F
    OBVIOUS
  <2>2. ASSUME NEW k \in Nat, k \in F
        PROVE  k + 1 \in F
    <3>1. CASE k = 0
      BY <1>0, <1>2, <3>1 DEF Offset
    <3>2. CASE k # 0 /\ k + 1 \in 1 .. Len(lens)
      <4>1. f[k] \in Nat /\ lens[k] \in Nat
        BY <1>0, <2>2, <3>2
      <4>2. f[k + 1] = f[k] + lens[k]
        BY <1>2, <3>2 DEF Offset
      <4>3. f[k + 1] \in Nat
        BY <4>1, <4>2
      <4> QED
        BY <4>3
    <3> QED
      BY <3>1, <3>2
  <2> HIDE DEF F
  <2>3. Nat \subseteq F
    BY <2>1, <2>2, Induct
  <2> QED
    BY <1>0, <2>3 DEF F
<1>4. \A i \in 1 .. Len(lens) :
          p[i] = [dat |-> Run(f[i], lens[i]), ref |-> 1]
  BY <1>1, Zenon DEF Cut, Run
<1>5. p \in Pbufs /\ Len(p) = Len(lens)
  <2>1. ASSUME NEW i \in 1 .. Len(lens)
        PROVE  [dat |-> Run(f[i], lens[i]), ref |-> 1] \in Segment
    <3>0. lens[i] \in Nat /\ f[i] \in Nat
      BY <1>3
    <3>1. Run(f[i], lens[i]) \in Seq(Nat)
      BY <3>0, RunType
    <3> QED
      BY <3>1 DEF Segment
  <2>2. p = [i \in 1 .. Len(lens) |->
                [dat |-> Run(f[i], lens[i]), ref |-> 1]]
    BY <1>1, Zenon DEF Cut, Run
  <2> QED
    BY <1>0, <2>1, <2>2, IsASeq DEF Pbufs
<1> DEFINE G == {k \in Nat : k <= Len(lens) =>
                    \E n \in Nat : /\ Bytes(x(k)) = Run(q, n)
                                   /\ k < Len(lens) => f[k + 1] = q + n}
<1>6. 0 \in G
  <2>1. x(0) = <<>>
    BY <1>5 DEF Pbufs
  <2>2. Bytes(x(0)) = Run(q, 0)
    <3>1. Run(q, 0) = <<>>
      BY DEF Run
    <3> QED
      BY <2>1, <3>1, BytesEmpty
  <2>3. 0 < Len(lens) => f[0 + 1] = q + 0
    BY <1>0, <1>2 DEF Offset
  <2> QED
    BY <2>2, <2>3
<1>7. ASSUME NEW k \in Nat, k \in G
      PROVE  k + 1 \in G
  <2> SUFFICES ASSUME k + 1 <= Len(lens)
               PROVE  \E n \in Nat :
                          /\ Bytes(x(k + 1)) = Run(q, n)
                          /\ k + 1 < Len(lens) => f[k + 1 + 1] = q + n
    OBVIOUS
  <2>1. PICK n \in Nat : Bytes(x(k)) = Run(q, n) /\ f[k + 1] = q + n
    BY <1>0, <1>7
  <2> DEFINE m == lens[k + 1]
  <2>2. m \in Nat /\ k + 1 \in 1 .. Len(lens)
    BY <1>0
  <2>3. x(k) \in Pbufs /\ x(k + 1) = Append(x(k), p[k + 1]) /\ p[k + 1] \in Segment
    BY <1>5, <2>2 DEF Pbufs
  <2>4. p[k + 1].dat = Run(q + n, m)
    <3>1. p[k + 1] = [dat |-> Run(f[k + 1], m), ref |-> 1]
      BY <1>4, <2>2
    <3> HIDE DEF m
    <3> QED
      BY <2>1, <3>1
  <2> HIDE DEF x, m
  <2>5. Bytes(x(k + 1)) = Run(q, n) \o Run(q + n, m)
    BY <2>1, <2>3, <2>4, BytesAppend, Zenon
  <2>6. Run(q, n) \o Run(q + n, m) = Run(q, n + m)
    BY <1>0, <2>2, RunConcat
  <2>7. k + 1 < Len(lens) => f[k + 1 + 1] = q + (n + m)
    <3> SUFFICES ASSUME k + 1 < Len(lens)
                 PROVE  f[k + 1 + 1] = q + (n + m)
      OBVIOUS
    <3>1. /\ k + 1 + 1 \in 1 .. Len(lens) /\ k + 1 + 1 # 1
          /\ (k + 1 + 1) - 1 = k + 1
      BY <1>0
    <3>2. f[k + 1 + 1] = f[k + 1] + lens[k + 1]
      BY <1>2, <3>1, Zenon DEF Offset
    <3> QED
      BY <1>0, <2>1, <2>2, <3>2 DEF m
  <2>8. n + m \in Nat
    BY <2>2
  <2> WITNESS n + m \in Nat
  <2> QED
    BY <2>5, <2>6, <2>7
<1> HIDE DEF G
<1>8. Len(lens) \in G
  BY <1>0, <1>6, <1>7, Induct
<1>9. x(Len(lens)) = p
  BY <1>5, SubSeqFull, Zenon DEF Pbufs
<1>10. PICK n \in Nat : Bytes(x(Len(lens))) = Run(q, n)
  BY <1>8 DEF G
<1>11. Len(Run(q, n)) = n
  BY <1>0, RunType
<1> HIDE DEF x
<1> QED
  BY <1>5, <1>9, <1>10, <1>11 DEF p, q

(* pbuf_chain puts the new bytes behind the old and leaves the head.          *)
LEMMA ChainedStream ==
    ASSUME NEW c \in Pbufs, NEW p \in Pbufs, p # <<>>
    PROVE  /\ Chained(c, p) \in Pbufs
           /\ Bytes(Chained(c, p)) = Bytes(c) \o Bytes(p)
           /\ c # <<>> => Chained(c, p) # <<>> /\ Head(Chained(c, p)) = Head(c)
<1> DEFINE r == [p EXCEPT ![1].ref = 2]
<1>1. 1 \in 1 .. Len(p) /\ Len(p) \in Nat /\ p[1] \in Segment
  BY DEF Pbufs
<1>2. [p[1] EXCEPT !.ref = 2] \in Segment
      /\ [p[1] EXCEPT !.ref = 2].dat = p[1].dat
  BY <1>1 DEF Segment
<1>3. r = [p EXCEPT ![1] = [p[1] EXCEPT !.ref = 2]]
  BY <1>1
<1>4. r \in Pbufs /\ Len(r) = Len(p)
  BY <1>1, <1>2, <1>3 DEF Pbufs
<1>5. \A i \in 1 .. Len(p) : r[i].dat = p[i].dat
  BY <1>1, <1>2, <1>3 DEF Pbufs
<1> HIDE DEF r
<1>6. Dats(r) = Dats(p)
  BY <1>4, <1>5 DEF Dats
<1>7. Bytes(r) = Bytes(p)
  BY <1>6, Zenon DEF Bytes, Dats
<1>8. Chained(c, p) = c \o r
  BY Zenon DEF Chained, r
<1>9. Bytes(c \o r) = Bytes(c) \o Bytes(p)
  BY <1>4, <1>7, BytesConcat, Zenon
<1>10. c \o r \in Pbufs
  BY <1>4, ConcatProperties, Zenon DEF Pbufs
<1>11. c # <<>> => c \o r # <<>> /\ Head(c \o r) = Head(c)
  BY <1>4 DEF Pbufs
<1> QED
  BY <1>8, <1>9, <1>10, <1>11

(* c waits in the chain of a connection that has received st halves and has   *)
(* the window wnd: it is the end of the stream that the window leaves out.    *)
Stream(c, wnd, st) ==
    /\ Wnd - wnd <= st
    /\ Bytes(c) = Run(st - (Wnd - wnd), Wnd - wnd)

(* The commands d are handed on in order.                                     *)
Ordered(d) == \A i, j \in DOMAIN d : i < j => d[i] < d[j]

(* The commands d are within the first q halves.                              *)
Within(d, q) == \A i \in DOMAIN d : 2 * d[i] <= q

(* What waits does so for lack of room in the send buffer.                    *)
Full(c, used) == c # <<>> => Len(Head(c).dat) > SndBuf - used

(* What a deal takes is the beginning of what waited, what it leaves is the   *)
(* end the window still leaves out, and there is no room for its first pbuf.  *)
LEMMA DealStream ==
    ASSUME NEW c \in Pbufs, NEW wnd \in 0 .. Wnd, NEW st \in Nat,
           NEW used \in 0 .. SndBuf, Stream(c, wnd, st)
    PROVE  LET n == Taken(c, SndBuf - used)
               dat == Bytes(SubSeq(c, 1, n))
               rest == SubSeq(c, n + 1, Len(c))
           IN  /\ n \in 0 .. Len(c)
               /\ dat \in Seq(Nat)
               /\ dat = Run(st - (Wnd - wnd), Len(dat))
               /\ rest \in Pbufs
               /\ wnd + Len(dat) \in 0 .. Wnd
               /\ Stream(rest, wnd + Len(dat), st)
               /\ Full(rest, used)
<1> DEFINE n == Taken(c, SndBuf - used)
           dat == Bytes(SubSeq(c, 1, n))
           rest == SubSeq(c, n + 1, Len(c))
           q == st - (Wnd - wnd)
<1>0. SndBuf \in Nat /\ Wnd \in Nat
  BY TcpConnAssumption
<1>1. n \in 0 .. Len(c) /\ (n < Len(c) => Len(c[n + 1].dat) > SndBuf - used)
  BY <1>0, TakenExists
<1> HIDE DEF n
<1>2. rest \in Pbufs /\ dat \in Seq(Nat) /\ Bytes(rest) \in Seq(Nat)
      /\ Glued(dat, Bytes(rest), Bytes(c))
  BY <1>1, BytesSplit, BytesType
<1>3. q \in Nat /\ Wnd - wnd \in Nat /\ Bytes(c) = Run(q, Wnd - wnd)
  BY <1>0 DEF Stream
<1>4. Full(rest, used)
  <2> SUFFICES ASSUME rest # <<>>
               PROVE  Len(Head(rest).dat) > SndBuf - used
    BY DEF Full
  <2>1. n < Len(c) /\ Head(rest) = c[n + 1]
    BY <1>1 DEF Pbufs
  <2> QED
    BY <1>1, <2>1
<1> HIDE DEF dat, rest, q
<1>5. /\ Len(dat) + Len(Bytes(rest)) = Wnd - wnd
      /\ dat = Run(q, Len(dat))
      /\ Bytes(rest) = Run(q + Len(dat), Len(Bytes(rest)))
  <2>1. Glued(dat, Bytes(rest), Run(q, Wnd - wnd))
    BY <1>2, <1>3
  <2> QED
    BY <1>2, <1>3, <2>1, RunSplit
<1>6. /\ wnd + Len(dat) \in 0 .. Wnd
      /\ Wnd - (wnd + Len(dat)) = Len(Bytes(rest))
      /\ st - (Wnd - (wnd + Len(dat))) = q + Len(dat)
      /\ Wnd - (wnd + Len(dat)) <= st
  <2>1. Len(dat) \in Nat /\ Len(Bytes(rest)) \in Nat
    BY <1>2
  <2> QED
    BY <1>0, <1>3, <1>5, <2>1 DEF q
<1>7. Stream(rest, wnd + Len(dat), st)
  BY <1>5, <1>6 DEF Stream
<1> QED
  BY <1>1, <1>2, <1>4, <1>5, <1>6, <1>7 DEF n, dat, rest, q

(* A command handed on is the next of the stream.                             *)
LEMMA HandOn ==
    ASSUME NEW d \in Seq(Nat), NEW q \in Nat, Ordered(d), Within(d, q),
           NEW k \in Nat, q = 2 * k
    PROVE  /\ Append(d, k + 1) \in Seq(Nat)
           /\ Ordered(Append(d, k + 1))
           /\ Within(Append(d, k + 1), q + 2)
<1> DEFINE e == Append(d, k + 1)
<1>1. /\ e \in Seq(Nat) /\ DOMAIN e = 1 .. Len(d) + 1
      /\ Len(d) \in Nat /\ DOMAIN d = 1 .. Len(d)
      /\ \A i \in 1 .. Len(d) : e[i] = d[i] /\ d[i] \in Nat
      /\ e[Len(d) + 1] = k + 1
  OBVIOUS
<1> HIDE DEF e
<1>2. ASSUME NEW i \in 1 .. Len(d)
      PROVE  d[i] \in Nat /\ d[i] <= k
  <2>1. 2 * d[i] <= q
    BY <1>1, Zenon DEF Within
  <2>2. d[i] \in Nat
    BY <1>1
  <2> QED
    BY <2>1, <2>2
<1>3. Ordered(e)
  <2> SUFFICES ASSUME NEW i \in 1 .. Len(d) + 1, NEW j \in 1 .. Len(d) + 1, i < j
               PROVE  e[i] < e[j]
    BY <1>1 DEF Ordered
  <2>1. i \in 1 .. Len(d)
    BY <1>1
  <2>2. CASE j = Len(d) + 1
    BY <1>1, <1>2, <2>1, <2>2
  <2>3. CASE j # Len(d) + 1
    <3>0. Len(d) \in Nat
      OBVIOUS
    <3>1. j \in 1 .. Len(d)
      BY <2>3, <3>0
    <3>2. d[i] < d[j]
      BY <1>1, <2>1, <3>1, Zenon DEF Ordered
    <3> QED
      BY <1>1, <2>1, <3>1, <3>2
  <2> QED
    BY <2>2, <2>3
<1>4. Within(e, q + 2)
  <2> SUFFICES ASSUME NEW i \in 1 .. Len(d) + 1
               PROVE  2 * e[i] <= q + 2
    BY <1>1 DEF Within
  <2>1. CASE i = Len(d) + 1
    BY <1>1, <2>1
  <2>2. CASE i # Len(d) + 1
    <3>1. i \in 1 .. Len(d)
      BY <1>1, <2>2
    <3> QED
      BY <1>1, <1>2, <3>1
  <2> QED
    BY <2>1, <2>2
<1> QED
  BY <1>1, <1>3, <1>4 DEF e

-----------------------------------------------------------------------------
(* The invariant, and one lemma per kind of step.                             *)

(* The types the proof needs.                                                 *)
Shapes ==
    /\ chain \in [Slots -> Pbufs]
    /\ rcvWnd \in [Slots -> 0 .. Wnd]
    /\ unacked \in [Slots -> 0 .. SndBuf]
    /\ sent \in [Slots -> Nat]
    /\ done \in [Slots -> Seq(Nat)]
    /\ lost \in Nat

(* What holds of each slot: a chain only with callbacks and for lack of room, *)
(* commands in order, and, of a live connection, the stream as it should be.  *)
InStep(s) ==
    /\ ~arg[s] => chain[s] = <<>>
    /\ Full(chain[s], unacked[s])
    /\ Ordered(done[s])
    /\ pcb[s] # "free" =>
          /\ Stream(chain[s], rcvWnd[s], sent[s])
          /\ Within(done[s], sent[s] - (Wnd - rcvWnd[s]))

SInv == IInv /\ Shapes /\ \A s \in Slots : InStep(s)

(* tcp_server_deal, with XVC_Interface on what it collected.                  *)
LEMMA DealKeeps ==
    ASSUME Shapes, NEW s \in Slots, NEW c \in Pbufs, NEW wnd \in 0 .. Wnd,
           NEW used \in 0 .. SndBuf, NEW st \in Nat, Stream(c, wnd, st),
           Ordered(done[s]), Within(done[s], st - (Wnd - wnd)),
           Deal(s, c, wnd, used)
    PROVE  \E c2 \in Pbufs, w2 \in 0 .. Wnd, u2 \in 0 .. SndBuf, d2 \in Seq(Nat) :
               /\ chain' = [chain EXCEPT ![s] = c2]
               /\ rcvWnd' = [rcvWnd EXCEPT ![s] = w2]
               /\ unacked' = [unacked EXCEPT ![s] = u2]
               /\ done' = [done EXCEPT ![s] = d2]
               /\ lost' = lost
               /\ Stream(c2, w2, st) /\ Full(c2, u2)
               /\ Ordered(d2) /\ Within(d2, st - (Wnd - w2))
<1> DEFINE n == Taken(c, SndBuf - used)
           dat == Bytes(SubSeq(c, 1, n))
           rest == SubSeq(c, n + 1, Len(c))
           w == wnd + Len(dat)
           q == st - (Wnd - wnd)
           d == done[s]
<1>0. Wnd \in Nat /\ SndBuf \in Nat /\ Costs \subseteq Nat /\ MaxHalves \in Nat
  BY TcpConnAssumption
<1>1. /\ dat \in Seq(Nat) /\ dat = Run(q, Len(dat)) /\ rest \in Pbufs
      /\ w \in 0 .. Wnd /\ Stream(rest, w, st) /\ Full(rest, used)
  BY DealStream, Zenon
<1>2. /\ chain' = [chain EXCEPT ![s] = rest]
      /\ rcvWnd' = [rcvWnd EXCEPT ![s] = w]
      /\ lost' = lost + Cardinality({i \in 1 .. n : RefsLeft(c[i].ref) > 0})
      /\ XVC_Interface(s, dat, used)
  BY Zenon DEF Deal, Reopened
<1>3. lost' = lost
  <2>1. {i \in 1 .. n : RefsLeft(c[i].ref) > 0} = {}
    BY DEF RefsLeft
  <2>2. Cardinality({i \in 1 .. n : RefsLeft(c[i].ref) > 0}) = 0
    BY <2>1, FS_EmptySet, Zenon
  <2> QED
    BY <1>2, <2>2 DEF Shapes
<1>4. q \in Nat /\ d \in Seq(Nat) /\ Ordered(d) /\ Within(d, q)
  BY <1>0 DEF Stream, Shapes
<1>5. Len(dat) \in Nat /\ st - (Wnd - w) = q + Len(dat)
  BY <1>0, <1>1
<1> HIDE DEF n, dat, rest, w, q
<1>6. \E u2 \in used .. SndBuf, d2 \in Seq(Nat) :
          /\ unacked' = [unacked EXCEPT ![s] = u2]
          /\ done' = [done EXCEPT ![s] = d2]
          /\ Ordered(d2) /\ Within(d2, q + Len(dat))
  <2>1. CASE \E k \in 0 .. MaxHalves : dat = <<2 * k, 2 * k + 1>>
    <3>1. PICK k \in 0 .. MaxHalves : dat = <<2 * k, 2 * k + 1>>
      BY <2>1
    <3>2. Len(dat) = 2 /\ dat[1] = 2 * k
      BY <3>1
    <3>3. dat[1] = q
      <4>1. Run(q, Len(dat))[1] = q + 1 - 1
        BY <3>2 DEF Run
      <4> QED
        BY <1>1, <1>4, <4>1
    <3>4. k \in Nat /\ q = 2 * k /\ dat[1] \div 2 + 1 = k + 1
      BY <1>0, <3>2, <3>3
    <3>5. done' = [done EXCEPT ![s] = Append(d, k + 1)]
      <4>1. done' = [done EXCEPT ![s] = Append(@, dat[1] \div 2 + 1)]
        BY <1>2, <2>1, Zenon DEF XVC_Interface
      <4> QED
        BY <3>4, <4>1
    <3>6. \E u2 \in used .. SndBuf : unacked' = [unacked EXCEPT ![s] = u2]
      <4>1. \/ \E cost \in {0} \cup Costs :
                   /\ used + cost <= SndBuf
                   /\ unacked' = [unacked EXCEPT ![s] = used + cost]
            \/ unacked' = [unacked EXCEPT ![s] = used]
        BY <1>2, <2>1, Zenon DEF XVC_Interface
      <4> QED
        BY <1>0, <4>1
    <3>7. /\ Append(d, k + 1) \in Seq(Nat)
          /\ Ordered(Append(d, k + 1)) /\ Within(Append(d, k + 1), q + 2)
      BY <1>4, <3>4, HandOn
    <3> HIDE DEF d
    <3> QED
      BY <3>2, <3>5, <3>6, <3>7
  <2>2. CASE ~ \E k \in 0 .. MaxHalves : dat = <<2 * k, 2 * k + 1>>
    <3>1. unacked' = [unacked EXCEPT ![s] = used] /\ UNCHANGED done
      BY <1>2, <2>2, Zenon DEF XVC_Interface
    <3>2. done' = [done EXCEPT ![s] = d]
      BY <3>1 DEF Shapes
    <3>3. Within(d, q + Len(dat))
      <4> SUFFICES ASSUME NEW i \in DOMAIN d
                   PROVE  2 * d[i] <= q + Len(dat)
        BY DEF Within
      <4>1. 2 * d[i] <= q
        BY <1>4, Zenon DEF Within
      <4>2. d[i] \in Nat
        BY <1>4
      <4> QED
        BY <1>4, <1>5, <4>1, <4>2
    <3>4. used \in used .. SndBuf
      BY <1>0
    <3> HIDE DEF d
    <3> QED
      BY <1>4, <3>1, <3>2, <3>3, <3>4
  <2> QED
    BY <2>1, <2>2
<1>7. PICK u2 \in used .. SndBuf, d2 \in Seq(Nat) :
          /\ unacked' = [unacked EXCEPT ![s] = u2]
          /\ done' = [done EXCEPT ![s] = d2]
          /\ Ordered(d2) /\ Within(d2, q + Len(dat))
  BY <1>6
<1>8. u2 \in 0 .. SndBuf
  BY <1>0
<1>9. Full(rest, u2)
  <2> SUFFICES ASSUME rest # <<>>
               PROVE  Len(Head(rest).dat) > SndBuf - u2
    BY DEF Full
  <2>1. Head(rest) \in Segment
    BY <1>1, HeadTailProperties, Zenon DEF Pbufs
  <2>2. Len(Head(rest).dat) \in Nat
    BY <2>1, SegmentDat
  <2> QED
    BY <1>0, <1>1, <2>2 DEF Full
<1> QED
  BY <1>1, <1>2, <1>3, <1>5, <1>7, <1>8, <1>9

(* A step of one connection: if its slot is in step afterwards, all are.      *)
LEMMA SlotStep ==
    ASSUME SInv, IInv', lost' = lost \/ lost' \in Nat, NEW s \in Slots,
           NEW c \in Pbufs, NEW w \in 0 .. Wnd, NEW u \in 0 .. SndBuf,
           NEW n \in Nat, NEW d \in Seq(Nat),
           chain' = [chain EXCEPT ![s] = c],
           rcvWnd' = [rcvWnd EXCEPT ![s] = w],
           unacked' = [unacked EXCEPT ![s] = u],
           sent' = [sent EXCEPT ![s] = n],
           done' = [done EXCEPT ![s] = d],
           \A t \in Slots \ {s} : pcb'[t] = pcb[t] /\ arg'[t] = arg[t],
           ~arg'[s] => c = <<>>,
           Full(c, u), Ordered(d),
           pcb'[s] # "free" => Stream(c, w, n) /\ Within(d, n - (Wnd - w))
    PROVE  SInv'
<1>1. Shapes'
  BY DEF SInv, Shapes
<1>2. ASSUME NEW t \in Slots
      PROVE  InStep(t)'
  <2>1. CASE t = s
    <3>1. /\ chain'[t] = c /\ rcvWnd'[t] = w /\ unacked'[t] = u
          /\ sent'[t] = n /\ done'[t] = d
      BY <2>1 DEF SInv, Shapes
    <3> QED
      BY <2>1, <3>1, Zenon DEF InStep
  <2>2. CASE t # s
    <3>1. /\ chain'[t] = chain[t] /\ rcvWnd'[t] = rcvWnd[t]
          /\ unacked'[t] = unacked[t] /\ sent'[t] = sent[t]
          /\ done'[t] = done[t] /\ pcb'[t] = pcb[t] /\ arg'[t] = arg[t]
      BY <2>2 DEF SInv, Shapes
    <3>2. InStep(t)
      BY DEF SInv
    <3> QED
      BY <3>1, <3>2, Zenon DEF InStep
  <2> QED
    BY <2>1, <2>2
<1> QED
  BY <1>1, <1>2 DEF SInv

(* What the invariant says of one slot.                                       *)
LEMMA Unmoved ==
    ASSUME SInv, NEW s \in Slots
    PROVE  /\ chain[s] \in Pbufs /\ rcvWnd[s] \in 0 .. Wnd
           /\ unacked[s] \in 0 .. SndBuf /\ sent[s] \in Nat
           /\ done[s] \in Seq(Nat) /\ lost \in Nat
           /\ chain = [chain EXCEPT ![s] = chain[s]]
           /\ rcvWnd = [rcvWnd EXCEPT ![s] = rcvWnd[s]]
           /\ unacked = [unacked EXCEPT ![s] = unacked[s]]
           /\ sent = [sent EXCEPT ![s] = sent[s]]
           /\ done = [done EXCEPT ![s] = done[s]]
           /\ InStep(s) /\ IInv
  BY DEF SInv, Shapes

LEMMA ClosesOne ==
    ASSUME NEW s \in Slots, ConnectionClose(s) \/ UNCHANGED <<pcb, arg>>,
           SInv
    PROVE  \A t \in Slots \ {s} : pcb'[t] = pcb[t] /\ arg'[t] = arg[t]
<1>1. CASE ConnectionClose(s)
  <2>1. PICK now \in {"last_ack", "close_wait"} :
            pcb' = [pcb EXCEPT ![s] = now]
    BY <1>1 DEF ConnectionClose
  <2> QED
    BY <1>1, <2>1 DEF ConnectionClose, SInv, IInv, Fields
<1> QED
  BY <1>1

(* A deal on what waits, when used of the send buffer is in use.              *)
LEMMA DealStep ==
    ASSUME SInv, IInv', NEW s \in Slots, NEW used \in 0 .. SndBuf,
           Deal(s, chain[s], rcvWnd[s], used), pcb[s] # "free",
           UNCHANGED sent, arg'[s],
           \A t \in Slots \ {s} : pcb'[t] = pcb[t] /\ arg'[t] = arg[t]
    PROVE  SInv' /\ lost' = lost
<1>1. /\ chain[s] \in Pbufs /\ rcvWnd[s] \in 0 .. Wnd /\ sent[s] \in Nat
      /\ Stream(chain[s], rcvWnd[s], sent[s]) /\ Ordered(done[s])
      /\ Within(done[s], sent[s] - (Wnd - rcvWnd[s])) /\ Shapes
      /\ sent' = [sent EXCEPT ![s] = sent[s]] /\ lost \in Nat
  BY Unmoved DEF InStep, SInv
<1>2. PICK c2 \in Pbufs, w2 \in 0 .. Wnd, u2 \in 0 .. SndBuf, d2 \in Seq(Nat) :
          /\ chain' = [chain EXCEPT ![s] = c2]
          /\ rcvWnd' = [rcvWnd EXCEPT ![s] = w2]
          /\ unacked' = [unacked EXCEPT ![s] = u2]
          /\ done' = [done EXCEPT ![s] = d2]
          /\ lost' = lost
          /\ Stream(c2, w2, sent[s]) /\ Full(c2, u2)
          /\ Ordered(d2) /\ Within(d2, sent[s] - (Wnd - w2))
  BY <1>1, DealKeeps
<1> QED
  BY <1>1, <1>2, SlotStep

LEMMA ReceiveStep ==
    ASSUME SInv, IInv', NEW s \in Slots, NEW lens \in Packets, Receive(s, lens)
    PROVE  SInv' /\ lost' = lost
<1> DEFINE p == Arrived(s, lens)
           n == Len(Bytes(p))
           wnd == rcvWnd[s] - n
<1>0. Wnd \in Nat /\ SndBuf \in Nat /\ lens \in Seq(Nat) /\ lens # <<>>
  BY TcpConnAssumption
<1>1. /\ chain[s] \in Pbufs /\ rcvWnd[s] \in 0 .. Wnd /\ sent[s] \in Nat
      /\ unacked[s] \in 0 .. SndBuf
      /\ Ordered(done[s]) /\ Shapes /\ InStep(s) /\ done[s] \in Seq(Nat)
      /\ unacked = [unacked EXCEPT ![s] = unacked[s]]
      /\ done = [done EXCEPT ![s] = done[s]]
      /\ lost \in Nat
  BY Unmoved DEF InStep, SInv
<1>2. p \in Pbufs /\ Len(p) = Len(lens) /\ n \in Nat /\ Bytes(p) = Run(sent[s], n)
  BY <1>0, <1>1, ArrivedStream, Zenon
<1>3. p # <<>>
  BY <1>0, <1>2
<1> HIDE DEF p, n
<1>4. /\ pcb[s] = "established" /\ arg[s] /\ wnd >= 0
      /\ sent' = [sent EXCEPT ![s] = sent[s] + n]
      /\ pcb' = pcb /\ arg' = arg
      /\ IF chain[s] = <<>>
         THEN Deal(s, p, wnd, unacked[s])
         ELSE /\ chain' = [chain EXCEPT ![s] = Chained(chain[s], p)]
              /\ rcvWnd' = [rcvWnd EXCEPT ![s] = wnd]
              /\ UNCHANGED <<answerVars, lost>>
  BY DEF Receive, p, n
<1>5. /\ Stream(chain[s], rcvWnd[s], sent[s]) /\ Full(chain[s], unacked[s])
      /\ Within(done[s], sent[s] - (Wnd - rcvWnd[s]))
  BY <1>1, <1>4 DEF InStep
<1>6. /\ wnd \in 0 .. Wnd /\ sent[s] + n \in Nat
      /\ (sent[s] + n) - (Wnd - wnd) = sent[s] - (Wnd - rcvWnd[s])
      /\ Wnd - wnd = (Wnd - rcvWnd[s]) + n
      /\ Wnd - wnd <= sent[s] + n
  <2>1. wnd >= 0 /\ Wnd - rcvWnd[s] <= sent[s]
    BY <1>4, <1>5 DEF Stream
  <2>2. rcvWnd[s] \in Int /\ rcvWnd[s] <= Wnd /\ sent[s] \in Nat
        /\ n \in Nat /\ Wnd \in Nat
    BY <1>0, <1>1, <1>2
  <2> QED
    BY <2>1, <2>2
<1>7. CASE chain[s] = <<>>
  <2>1. Wnd - rcvWnd[s] = 0
    <3>1. Len(Bytes(chain[s])) = 0
      BY <1>7, BytesEmpty
    <3>2. Bytes(chain[s]) = Run(sent[s] - (Wnd - rcvWnd[s]), Wnd - rcvWnd[s])
          /\ Wnd - rcvWnd[s] <= sent[s]
      BY <1>5 DEF Stream
    <3>3. sent[s] - (Wnd - rcvWnd[s]) \in Nat /\ Wnd - rcvWnd[s] \in Nat
      BY <1>0, <1>1, <3>2
    <3>4. Len(Run(sent[s] - (Wnd - rcvWnd[s]), Wnd - rcvWnd[s])) = Wnd - rcvWnd[s]
      BY <3>3, RunType
    <3> QED
      BY <3>1, <3>2, <3>4
  <2>2. Stream(p, wnd, sent[s] + n)
    <3>1. Wnd - wnd = n /\ (sent[s] + n) - (Wnd - wnd) = sent[s]
      <4>1. n \in Nat /\ sent[s] \in Nat
        BY <1>1, <1>2
      <4>2. Wnd - wnd = 0 + n
        BY <1>6, <2>1
      <4> HIDE DEF wnd
      <4> QED
        BY <4>1, <4>2
    <3> QED
      BY <1>2, <1>6, <3>1 DEF Stream
  <2>3. Within(done[s], (sent[s] + n) - (Wnd - wnd))
    BY <1>5, <1>6
  <2>4. Deal(s, p, wnd, unacked[s])
    BY <1>4, <1>7
  <2> HIDE DEF wnd
  <2>5. PICK c2 \in Pbufs, w2 \in 0 .. Wnd, u2 \in 0 .. SndBuf, d2 \in Seq(Nat) :
            /\ chain' = [chain EXCEPT ![s] = c2]
            /\ rcvWnd' = [rcvWnd EXCEPT ![s] = w2]
            /\ unacked' = [unacked EXCEPT ![s] = u2]
            /\ done' = [done EXCEPT ![s] = d2]
            /\ lost' = lost
            /\ Stream(c2, w2, sent[s] + n) /\ Full(c2, u2)
            /\ Ordered(d2) /\ Within(d2, (sent[s] + n) - (Wnd - w2))
    BY <1>1, <1>2, <1>6, <2>2, <2>3, <2>4, DealKeeps
  <2> QED
    BY <1>1, <1>4, <1>6, <2>5, SlotStep
<1>8. CASE chain[s] # <<>>
  <2> DEFINE c2 == Chained(chain[s], p)
  <2>1. /\ c2 \in Pbufs /\ Bytes(c2) = Bytes(chain[s]) \o Bytes(p)
        /\ c2 # <<>> /\ Head(c2) = Head(chain[s])
    BY <1>1, <1>2, <1>3, <1>8, ChainedStream
  <2> HIDE DEF c2
  <2>2. Full(c2, unacked[s])
    BY <1>5, <1>8, <2>1 DEF Full
  <2> DEFINE m == Wnd - rcvWnd[s]
             q == sent[s] - m
  <2>3. /\ Bytes(chain[s]) = Run(q, m) /\ q \in Nat /\ m \in Nat
        /\ sent[s] = q + m
    BY <1>0, <1>1, <1>5 DEF Stream
  <2>4. q = (sent[s] + n) - (Wnd - wnd) /\ m + n = Wnd - wnd
    BY <1>6
  <2> HIDE DEF m, q
  <2>5. Run(q, m) \o Run(q + m, n) = Run(q, m + n)
    BY <1>2, <2>3, RunConcat
  <2>6. Bytes(c2) = Run(q, m + n)
    BY <1>2, <2>1, <2>3, <2>5
  <2>7. Stream(c2, wnd, sent[s] + n)
    BY <1>6, <2>4, <2>6 DEF Stream
  <2>8. /\ chain' = [chain EXCEPT ![s] = c2]
        /\ rcvWnd' = [rcvWnd EXCEPT ![s] = wnd]
        /\ unacked' = [unacked EXCEPT ![s] = unacked[s]]
        /\ done' = [done EXCEPT ![s] = done[s]]
        /\ lost' = lost
    BY <1>1, <1>4, <1>8 DEF answerVars, c2
  <2>9. Within(done[s], (sent[s] + n) - (Wnd - wnd))
    BY <1>5, <1>6
  <2> HIDE DEF wnd
  <2> QED
    BY <1>1, <1>4, <1>6, <2>1, <2>2, <2>7, <2>8, <2>9, SlotStep
<1> QED
  BY <1>7, <1>8

(* The action of LostOnlyByAbort.                                             *)
LostInAbort ==
    lost' # lost => \E s \in Slots : chain[s] # <<>> /\ pcb'[s] = "free"

(* A step that leaves the streams alone, and changes what is in use of a send *)
(* buffer only so that what waits still does for lack of room.                *)
LEMMA QuietStep ==
    ASSUME SInv, IInv', NEW s \in Slots, NEW u \in 0 .. SndBuf,
           unacked' = [unacked EXCEPT ![s] = u], Full(chain[s], u),
           UNCHANGED <<chain, rcvWnd, sent, done, lost>>,
           \A t \in Slots \ {s} : pcb'[t] = pcb[t] /\ arg'[t] = arg[t],
           ~arg'[s] => chain[s] = <<>>,
           pcb'[s] # "free" => pcb[s] # "free"
    PROVE  SInv'
<1>1. /\ chain[s] \in Pbufs /\ rcvWnd[s] \in 0 .. Wnd /\ sent[s] \in Nat
      /\ done[s] \in Seq(Nat) /\ InStep(s)
      /\ chain' = [chain EXCEPT ![s] = chain[s]]
      /\ rcvWnd' = [rcvWnd EXCEPT ![s] = rcvWnd[s]]
      /\ sent' = [sent EXCEPT ![s] = sent[s]]
      /\ done' = [done EXCEPT ![s] = done[s]]
  BY Unmoved
<1> QED
  BY <1>1, SlotStep DEF InStep

LEMMA StreamStep ==
    ASSUME SInv, IInv', Next
    PROVE  SInv' /\ LostInAbort
<1>0. Wnd \in Nat /\ SndBuf \in Nat /\ Costs \subseteq Nat
  BY TcpConnAssumption
<1>1. CASE EarseAnswer
  <2>1. UNCHANGED <<pcb, arg, chain, rcvWnd, sent, done, lost>>
    BY <1>1 DEF EarseAnswer, connVars
  <2>2. PICK cost \in {0} \cup Costs :
            /\ cost # 0 => unacked[earsePcb] + cost <= SndBuf
            /\ unacked' = [unacked EXCEPT ![earsePcb] = unacked[earsePcb] + cost]
    BY <1>1 DEF EarseAnswer
  <2>3. CASE earsePcb \in Slots
    <3> DEFINE u == unacked[earsePcb] + cost
    <3>1. /\ unacked[earsePcb] \in 0 .. SndBuf /\ chain[earsePcb] \in Pbufs
          /\ InStep(earsePcb)
      BY <2>3, Unmoved
    <3>2. u \in 0 .. SndBuf /\ u >= unacked[earsePcb]
      BY <1>0, <2>2, <3>1
    <3>3. Full(chain[earsePcb], u)
      <4> SUFFICES ASSUME chain[earsePcb] # <<>>
                   PROVE  Len(Head(chain[earsePcb]).dat) > SndBuf - u
        BY DEF Full
      <4>1. Head(chain[earsePcb]) \in Segment
        BY <3>1, HeadTailProperties, Zenon DEF Pbufs
      <4>2. Len(Head(chain[earsePcb]).dat) \in Nat
        BY <4>1, SegmentDat
      <4>3. Len(Head(chain[earsePcb]).dat) > SndBuf - unacked[earsePcb]
        BY <3>1 DEF InStep, Full
      <4> QED
        BY <1>0, <3>1, <3>2, <4>2, <4>3
    <3> HIDE DEF u
    <3>4. unacked' = [unacked EXCEPT ![earsePcb] = u]
      BY <2>2 DEF u
    <3>5. SInv'
      BY <2>1, <2>3, <3>1, <3>2, <3>3, <3>4, QuietStep DEF InStep
    <3> QED
      BY <2>1, <3>5 DEF LostInAbort
  <2>4. CASE earsePcb \notin Slots
    <3>1. unacked' = unacked
      BY <2>2, <2>4 DEF SInv, Shapes
    <3>2. Shapes'
      BY <2>1, <3>1 DEF SInv, Shapes
    <3>3. ASSUME NEW t \in Slots
          PROVE  InStep(t)'
      <4>1. InStep(t)
        BY DEF SInv
      <4> QED
        BY <2>1, <3>1, <4>1, Zenon DEF InStep
    <3> QED
      BY <2>1, <3>2, <3>3 DEF SInv, LostInAbort
  <2> QED
    BY <2>3, <2>4
<1>2. ASSUME NEW s \in Slots, Accept(s)
      PROVE  SInv' /\ LostInAbort
  <2>1. /\ <<>> \in Pbufs /\ Wnd \in 0 .. Wnd /\ 0 \in 0 .. SndBuf
        /\ 0 \in Nat /\ <<>> \in Seq(Nat) /\ Full(<<>>, 0) /\ Ordered(<<>>)
        /\ Within(<<>>, 0 - (Wnd - Wnd))
    BY <1>0 DEF Pbufs, Full, Ordered, Within
  <2>2. Stream(<<>>, Wnd, 0)
    <3>1. Wnd - Wnd = 0 /\ 0 - (Wnd - Wnd) = 0 /\ Wnd - Wnd <= 0
      BY <1>0
    <3>2. Run(0, 0) = <<>>
      BY DEF Run
    <3> QED
      BY <3>1, <3>2, BytesEmpty DEF Stream
  <2>3. \A t \in Slots \ {s} : pcb'[t] = pcb[t] /\ arg'[t] = arg[t]
    BY <1>2 DEF Accept, SInv, IInv, Fields
  <2>4. SInv'
    BY <1>2, <2>1, <2>2, <2>3, SlotStep DEF Accept
  <2> QED
    BY <1>2, <2>4 DEF Accept, LostInAbort
<1>3. ASSUME NEW s \in Slots, NEW lens \in Packets, Receive(s, lens)
      PROVE  SInv' /\ LostInAbort
  BY <1>3, ReceiveStep DEF LostInAbort
<1>4. ASSUME NEW s \in Slots, ReceiveFin(s)
      PROVE  SInv' /\ LostInAbort
  <2>0. /\ unacked[s] \in 0 .. SndBuf /\ InStep(s)
        /\ unacked = [unacked EXCEPT ![s] = unacked[s]]
    BY Unmoved
  <2>1. CASE chain[s] = <<>>
    <3>1. /\ ConnectionClose(s)
          /\ UNCHANGED <<chain, rcvWnd, sent, done, lost, unacked>>
          /\ pcb[s] = "established"
      BY <1>4, <2>1 DEF ReceiveFin, answerVars
    <3>2. \A t \in Slots \ {s} : pcb'[t] = pcb[t] /\ arg'[t] = arg[t]
      BY <3>1, ClosesOne
    <3>3. SInv'
      BY <2>0, <2>1, <3>1, <3>2, QuietStep DEF InStep
    <3> QED
      BY <3>1, <3>3 DEF LostInAbort
  <2>2. CASE chain[s] # <<>>
    <3>1. /\ pcb' = [pcb EXCEPT ![s] = "close_wait"] /\ arg' = arg /\ arg[s]
          /\ Deal(s, chain[s], rcvWnd[s], unacked[s])
          /\ UNCHANGED sent /\ pcb[s] # "free"
      BY <1>4, <2>2 DEF ReceiveFin
    <3>2. \A t \in Slots \ {s} : pcb'[t] = pcb[t] /\ arg'[t] = arg[t]
      BY <3>1 DEF SInv, IInv, Fields
    <3> QED
      BY <2>0, <3>1, <3>2, DealStep DEF LostInAbort
  <2> QED
    BY <2>1, <2>2
<1>5. ASSUME NEW s \in Slots, NEW n \in 1 .. SndBuf, Sent(s, n)
      PROVE  SInv' /\ LostInAbort
  <2>0. /\ unacked[s] \in 0 .. SndBuf /\ InStep(s)
        /\ pcb[s] # "free" /\ n \in 1 .. unacked[s] /\ UNCHANGED sent
    BY <1>5, Unmoved DEF Sent
  <2>1. unacked[s] - n \in 0 .. SndBuf
    BY <1>0, <2>0
  <2>2. CASE arg[s] /\ chain[s] # <<>>
    <3>1. /\ Deal(s, chain[s], rcvWnd[s], unacked[s] - n)
          /\ UNCHANGED <<pcb, arg>>
      BY <1>5, <2>2 DEF Sent
    <3> QED
      BY <2>0, <2>1, <2>2, <3>1, DealStep DEF LostInAbort
  <2>3. CASE ~ (arg[s] /\ chain[s] # <<>>)
    <3>1. /\ unacked' = [unacked EXCEPT ![s] = unacked[s] - n]
          /\ ConnectionClose(s) \/ UNCHANGED <<pcb, arg>>
          /\ UNCHANGED <<chain, rcvWnd, done, lost>>
      BY <1>5, <2>3 DEF Sent
    <3>2. \A t \in Slots \ {s} : pcb'[t] = pcb[t] /\ arg'[t] = arg[t]
      BY <3>1, ClosesOne
    <3>3. chain[s] = <<>>
      BY <2>0, <2>3 DEF InStep
    <3>4. Full(chain[s], unacked[s] - n)
      BY <3>3 DEF Full
    <3>5. SInv'
      BY <2>0, <2>1, <3>1, <3>2, <3>3, <3>4, QuietStep
    <3> QED
      BY <3>1, <3>5 DEF LostInAbort
  <2> QED
    BY <2>2, <2>3
<1>6. ASSUME NEW s \in Slots, Abort(s)
      PROVE  SInv' /\ LostInAbort
  <2>0. /\ rcvWnd[s] \in 0 .. Wnd /\ sent[s] \in Nat /\ done[s] \in Seq(Nat)
        /\ rcvWnd = [rcvWnd EXCEPT ![s] = rcvWnd[s]]
        /\ sent = [sent EXCEPT ![s] = sent[s]]
        /\ done = [done EXCEPT ![s] = done[s]]
        /\ chain[s] \in Pbufs /\ lost \in Nat /\ InStep(s)
    BY Unmoved
  <2>1. /\ pcb'[s] = "free"
        /\ \A t \in Slots \ {s} : pcb'[t] = pcb[t] /\ arg'[t] = arg[t]
    BY <1>6 DEF Abort, SInv, IInv, Fields
  <2>2. /\ chain' = [chain EXCEPT ![s] = <<>>]
        /\ unacked' = [unacked EXCEPT ![s] = 0]
        /\ lost' = lost + Len(chain[s])
        /\ UNCHANGED <<rcvWnd, sent, done>>
    BY <1>6 DEF Abort
  <2>3. <<>> \in Pbufs /\ 0 \in 0 .. SndBuf /\ Full(<<>>, 0)
    BY <1>0 DEF Pbufs, Full
  <2>4. lost' \in Nat /\ (lost' # lost => chain[s] # <<>>)
    <3>1. Len(chain[s]) \in Nat /\ (chain[s] = <<>> => Len(chain[s]) = 0)
      BY <2>0 DEF Pbufs
    <3> QED
      BY <2>0, <2>2, <3>1
  <2>5. SInv'
    BY <2>0, <2>1, <2>2, <2>3, <2>4, SlotStep DEF InStep
  <2> QED
    BY <2>1, <2>4, <2>5 DEF LostInAbort
<1>7. ASSUME NEW s \in Slots, Closed(s)
      PROVE  SInv' /\ LostInAbort
  <2>0. InStep(s) /\ IInv
    BY Unmoved
  <2>1. /\ pcb[s] = "last_ack" /\ pcb' = [pcb EXCEPT ![s] = "free"]
        /\ unacked' = [unacked EXCEPT ![s] = 0]
        /\ UNCHANGED <<arg, chain, rcvWnd, sent, done, lost>>
    BY <1>7 DEF Closed
  <2>2. chain[s] = <<>> /\ 0 \in 0 .. SndBuf
    BY <1>0, <2>0, <2>1 DEF InStep, IInv, ClosedIsMute
  <2>3. /\ \A t \in Slots \ {s} : pcb'[t] = pcb[t] /\ arg'[t] = arg[t]
        /\ pcb[s] # "free"
    BY <2>0, <2>1 DEF IInv, Fields
  <2>4. Full(chain[s], 0)
    BY <2>2 DEF Full
  <2>5. SInv'
    BY <2>1, <2>2, <2>3, <2>4, QuietStep
  <2> QED
    BY <2>1, <2>5 DEF LostInAbort
<1>8. ASSUME NEW s \in Slots, PollBegin(s)
      PROVE  SInv' /\ LostInAbort
  <2>0. /\ unacked[s] \in 0 .. SndBuf /\ InStep(s)
        /\ unacked = [unacked EXCEPT ![s] = unacked[s]]
    BY Unmoved
  <2>1. UNCHANGED <<pcb, arg, chain, rcvWnd, sent, done, lost, unacked>>
    BY <1>8 DEF PollBegin, connVars, answerVars
  <2>2. SInv'
    BY <2>0, <2>1, QuietStep DEF InStep
  <2> QED
    BY <2>1, <2>2 DEF LostInAbort
<1>9. ASSUME NEW s \in Slots, Poll(s)
      PROVE  SInv' /\ LostInAbort
  <2>0. /\ unacked[s] \in 0 .. SndBuf /\ InStep(s) /\ UNCHANGED sent
        /\ unacked = [unacked EXCEPT ![s] = unacked[s]]
        /\ pcb[s] # "free" /\ arg[s]
    BY <1>9, Unmoved DEF Poll, IInv, EsOwned
  <2>1. CASE chain[s] # <<>>
    <3>1. /\ Deal(s, chain[s], rcvWnd[s], unacked[s])
          /\ UNCHANGED <<pcb, arg>>
      BY <1>9, <2>1 DEF Poll
    <3> QED
      BY <2>0, <3>1, DealStep DEF LostInAbort
  <2>2. CASE chain[s] = <<>>
    <3>1. /\ ConnectionClose(s) \/ UNCHANGED <<pcb, arg>>
          /\ UNCHANGED <<chain, rcvWnd, done, lost, unacked>>
      BY <1>9, <2>2 DEF Poll, answerVars
    <3>2. \A t \in Slots \ {s} : pcb'[t] = pcb[t] /\ arg'[t] = arg[t]
      BY <3>1, ClosesOne
    <3>3. SInv'
      BY <2>0, <2>2, <3>1, <3>2, QuietStep DEF InStep
    <3> QED
      BY <3>1, <3>3 DEF LostInAbort
  <2> QED
    BY <2>1, <2>2
<1> QED
  BY <1>1, <1>2, <1>3, <1>4, <1>5, <1>6, <1>7, <1>8, <1>9 DEF Next

-----------------------------------------------------------------------------
LEMMA StreamInit == Init => SInv
<1> SUFFICES ASSUME Init
             PROVE  SInv
  OBVIOUS
<1>0. Wnd \in Nat /\ SndBuf \in Nat
  BY TcpConnAssumption
<1>1. IInv
  BY DEF Init, IInv, Fields, EsOwned, ClosedIsMute
<1>2. Shapes
  <2>1. <<>> \in Pbufs /\ <<>> \in Seq(Nat)
    BY DEF Pbufs
  <2> QED
    BY <1>0, <2>1 DEF Init, Shapes
<1>3. ASSUME NEW s \in Slots
      PROVE  InStep(s)
  BY DEF Init, InStep, Full, Ordered
<1> QED
  BY <1>1, <1>2, <1>3 DEF SInv

LEMMA StreamKept == SInv /\ [Next]_vars => SInv' /\ (LostInAbort \/ UNCHANGED vars)
<1> SUFFICES ASSUME SInv, [Next]_vars
             PROVE  SInv' /\ (LostInAbort \/ UNCHANGED vars)
  OBVIOUS
<1>1. CASE Next
  <2>1. IInv'
    BY <1>1, StepOwns DEF SInv
  <2> QED
    BY <1>1, <2>1, StreamStep
<1>2. CASE UNCHANGED vars
  <2>1. /\ UNCHANGED <<pcb, arg, es, chain, rcvWnd, unacked, sent, done, lost>>
    BY <1>2 DEF vars, connVars, answerVars
  <2>2. IInv'
    BY <2>1, Unchanged DEF SInv
  <2>3. Shapes'
    BY <2>1 DEF SInv, Shapes
  <2>4. ASSUME NEW t \in Slots
        PROVE  InStep(t)'
    <3>1. InStep(t)
      BY DEF SInv
    <3> QED
      BY <2>1, <3>1, Zenon DEF InStep
  <2> QED
    BY <1>2, <2>2, <2>3, <2>4 DEF SInv
<1> QED
  BY <1>1, <1>2

(* However data, acknowledgements, polls, erase answers and the FIN follow on *)
(* each other, what waits in a chain is just the end of the stream that the   *)
(* window does not offer again (tcpserver.c 170-176, 300-333).                *)
THEOREM TailPending == Spec => []PendingIsTail
<1>1. SInv => PendingIsTail
  <2> SUFFICES ASSUME SInv, NEW s \in Slots, pcb[s] # "free"
               PROVE  LET n == Wnd - rcvWnd[s]
                      IN  Bytes(chain[s]) = [i \in 1 .. n |-> sent[s] - n + i - 1]
    BY DEF PendingIsTail
  <2>1. Stream(chain[s], rcvWnd[s], sent[s])
    BY DEF SInv, InStep
  <2> QED
    BY <2>1, Zenon DEF Stream, Run
<1> QED
  BY <1>1, StreamInit, StreamKept, PTL DEF Spec

(* Between callbacks a chain waits only for room in the send buffer           *)
(* (tcpserver.c 154-178, 209-216, 300).                                       *)
THEOREM FullWhilePending == Spec => []PendingMeansFull
<1>1. SInv => PendingMeansFull
  BY DEF SInv, InStep, Full, PendingMeansFull
<1> QED
  BY <1>1, StreamInit, StreamKept, PTL DEF Spec

(* Commands are handed on in the order the peer sent them, none twice,        *)
(* however they are cut into segments and pbufs (tcpserver.c 295-334).        *)
THEOREM HandedInOrder == Spec => []InOrderOnce
<1>1. SInv => InOrderOnce
  BY DEF SInv, InStep, Ordered, InOrderOnce
<1> QED
  BY <1>1, StreamInit, StreamKept, PTL DEF Spec

(* A pbuf is lost only with the connection in whose chain it waits            *)
(* (tcpserver.c 175, 325-328).                                                *)
THEOREM OnlyAbortsLose == Spec => LostOnlyByAbort
<1>1. LostInAbort \/ UNCHANGED vars =>
          [lost' # lost => \E s \in Slots : chain[s] # <<>> /\ pcb'[s] = "free"]_vars
  BY DEF LostInAbort
<1> QED
  BY <1>1, StreamInit, StreamKept, PTL DEF Spec, LostOnlyByAbort
=============================================================================
