--------------------------- MODULE LwipTcp_proofs ----------------------------
(* The receiving half of the connection, for every window, segment size,      *)
(* initial sequence number and whatever the network does: the window is       *)
(* honest, its edge never moves back, and what the callbacks are given is the *)
(* host's stream. The sending half is model-checked only.                     *)
EXTENDS LwipTcp, SequenceTheorems, WellFoundedInduction, TLAPS

-----------------------------------------------------------------------------
(* Folds over sequences, turn by turn.                                        *)

(* A set of naturals that is not empty has a least member.                    *)
LEMMA Least ==
    ASSUME NEW T, T \subseteq Nat, T # {}
    PROVE  \E x \in T : \A y \in T : x <= y
<1> DEFINE R == {ss \in Nat \X Nat : ss[1] < ss[2]}
<1>1. IsWellFoundedOn(R, Nat)
  BY NatLessThanWellFounded, Zenon DEF OpToRel
<1>2. \A x, y \in Nat : <<y, x>> \in R <=> y < x
  OBVIOUS
<1> HIDE DEF R
<1>3. PICK x \in T : \A y \in T : <<y, x>> \notin R
  BY <1>1, WFMin, Zenon
<1>4. \A y \in T : ~ (y < x)
  BY <1>2, <1>3, Zenon
<1> QED
  BY <1>4

(* Induction over the naturals, for a set of them.                            *)
LEMMA Induct ==
    ASSUME NEW G, 0 \in G, \A n \in Nat : n \in G => n + 1 \in G
    PROVE  Nat \subseteq G
<1> SUFFICES ASSUME Nat \ G # {}
             PROVE  FALSE
  OBVIOUS
<1>1. PICK x \in Nat \ G : \A y \in Nat \ G : x <= y
  BY Least
<1>2. x # 0 /\ x - 1 \in Nat
  BY <1>1
<1>3. x - 1 \in G
  BY <1>1, <1>2
<1> QED
  BY <1>1, <1>2, <1>3

(* The last number before the first that is not in T.                         *)
LEMMA Prefix ==
    ASSUME NEW m \in Nat, NEW T
    PROVE  \E n \in 0 .. m : /\ \A i \in 1 .. n : i \in T
                             /\ n < m => n + 1 \notin T
<1> DEFINE U == {n \in Nat : n = m \/ n + 1 \notin T}
<1>1. U \subseteq Nat /\ U # {}
  OBVIOUS
<1>2. PICK n \in U : \A k \in U : n <= k
  BY <1>1, Least
<1>3. n \in 0 .. m
  BY <1>2
<1>4. ASSUME NEW i \in 1 .. n
      PROVE  i \in T
  <2>1. i - 1 \in Nat /\ i - 1 < n /\ (i - 1) + 1 = i
    BY <1>3
  <2>2. i - 1 \notin U
    BY <1>2, <2>1
  <2> QED
    BY <2>1, <2>2
<1> QED
  BY <1>2, <1>3, <1>4

-----------------------------------------------------------------------------
(* The two folds of LwipTcp ...                                               *)
Turn(of, x, y) == IF of = "recved" THEN tcp_recved(x, y) ELSE Unacked(x, y)

(* ... and the recursive function inside FoldLeft: its value at S, and g as   *)
(* that function, on the sets of numbers up to n.                             *)
FoldAt(of, x, seq, g, S) ==
    IF S = {} THEN x ELSE Turn(of, g[S \ {Max(S)}], seq[Max(S)])
IsFold(of, x, seq, n, g) ==
    g = [S \in SUBSET (1 .. n) |-> FoldAt(of, x, seq, g, S)]

(* What Folds counts with is the largest number of an index set.              *)
LEMMA MaxOf ==
    ASSUME NEW n \in Nat, NEW S, S \subseteq 1 .. n + 1, n + 1 \in S
    PROVE  Max(S) = n + 1
<1>1. n + 1 \in S /\ \A y \in S : n + 1 >= y
  OBVIOUS
<1>2. \A x \in S : (\A y \in S : x >= y) => x = n + 1
  BY <1>1
<1> QED
  BY <1>1, <1>2 DEF Max

(* Every nonempty set up to n has a maximum, and it is in it.                 *)
LEMMA MaxIn ==
    ASSUME NEW n \in Nat, NEW S, S \subseteq 1 .. n, S # {}
    PROVE  Max(S) \in S
<1> DEFINE T == {k \in Nat : \A y \in S : k >= y}
<1>1. T \subseteq Nat /\ n \in T
  OBVIOUS
<1>2. PICK k \in T : \A j \in T : k <= j
  BY <1>1, Least
<1>3. k \in S
  <2> SUFFICES ASSUME k \notin S
               PROVE  FALSE
    OBVIOUS
  <2>0. PICK s \in S : TRUE
    OBVIOUS
  <2>1. k >= 1 /\ k - 1 \in Nat
    BY <1>2, <2>0
  <2>2. \A y \in S : k - 1 >= y
    BY <1>2
  <2>3. k - 1 \in T
    BY <2>1, <2>2
  <2> QED
    BY <1>2, <2>1, <2>3
<1>4. \E x \in S : \A y \in S : x >= y
  BY <1>2, <1>3
<1> QED
  BY <1>4 DEF Max

(* A fold over an index set runs through a row of values, one for each index. *)
LEMMA FoldsExist ==
    ASSUME NEW of, NEW x, NEW seq
    PROVE  \A n \in Nat : \E g : IsFold(of, x, seq, n, g)
<1> DEFINE G == {n \in Nat : \E g : IsFold(of, x, seq, n, g)}
<1>1. 0 \in G
  <2> DEFINE g == [S \in SUBSET (1 .. 0) |-> x]
  <2>1. \A S \in SUBSET (1 .. 0) : S = {}
    OBVIOUS
  <2>2. \A S \in SUBSET (1 .. 0) : FoldAt(of, x, seq, g, S) = x
    BY <2>1, Zenon DEF FoldAt
  <2>3. IsFold(of, x, seq, 0, g)
    BY <2>2 DEF IsFold
  <2> HIDE DEF g
  <2> QED
    BY <2>3
<1>2. ASSUME NEW n \in Nat, n \in G
      PROVE  n + 1 \in G
  <2>1. PICK f : IsFold(of, x, seq, n, f)
    BY <1>2
  <2> DEFINE g == [S \in SUBSET (1 .. n + 1) |-> FoldAt(of, x, seq, f, S)]
  <2>2. \A S \in SUBSET (1 .. n) : f[S] = FoldAt(of, x, seq, f, S)
    BY <2>1, Zenon DEF IsFold
  <2>3. \A S \in SUBSET (1 .. n + 1) : g[S] = FoldAt(of, x, seq, f, S)
    OBVIOUS
  <2>a. SUBSET (1 .. n) \subseteq SUBSET (1 .. n + 1)
    OBVIOUS
  <2> HIDE DEF g
  <2>4. \A S \in SUBSET (1 .. n) : g[S] = f[S]
    BY <2>2, <2>3, <2>a, Zenon
  <2>5. ASSUME NEW S \in SUBSET (1 .. n + 1)
        PROVE  FoldAt(of, x, seq, f, S) = FoldAt(of, x, seq, g, S)
    <3>1. CASE S = {}
      BY <3>1, Zenon DEF FoldAt
    <3>2. CASE S # {}
      <4>1. S \ {Max(S)} \in SUBSET (1 .. n)
        <5>1. CASE n + 1 \in S
          <6>1. Max(S) = n + 1
            BY <5>1, MaxOf
          <6>2. S \ {n + 1} \in SUBSET (1 .. n)
            OBVIOUS
          <6> QED
            BY <6>1, <6>2, Zenon
        <5>2. CASE n + 1 \notin S
          <6>1. S \in SUBSET (1 .. n)
            BY <5>2
          <6> QED
            BY <6>1, Zenon
        <5> QED
          BY <5>1, <5>2
      <4>2. f[S \ {Max(S)}] = g[S \ {Max(S)}]
        BY <2>4, <4>1, Zenon
      <4> QED
        BY <3>2, <4>2, Zenon DEF FoldAt
    <3> QED
      BY <3>1, <3>2
  <2>6. g = [S \in SUBSET (1 .. n + 1) |-> FoldAt(of, x, seq, g, S)]
    BY <2>5 DEF g
  <2>7. IsFold(of, x, seq, n + 1, g)
    BY <2>6, Zenon DEF IsFold
  <2> QED
    BY <2>7
<1> HIDE DEF G
<1>3. Nat \subseteq G
  BY <1>1, <1>2, Induct
<1> QED
  BY <1>3 DEF G

(* What they compute, as a row of values.                                     *)
Row(of, x, seq, n, h) ==
    /\ h[0] = x
    /\ \A k \in 1 .. n : h[k] = Turn(of, h[k - 1], seq[k])

Folded(of, x, seq, n) == (CHOOSE g : IsFold(of, x, seq, n, g))[1 .. n]

(* FoldLeft over a sequence runs through such a row, from the first member to *)
(* the last.                                                                  *)
LEMMA FoldsInTurn ==
    ASSUME NEW of, NEW x, NEW seq, NEW n \in Nat
    PROVE  \E h : /\ Row(of, x, seq, n, h)
                  /\ Folded(of, x, seq, n) = h[n]
<1> DEFINE g == CHOOSE f : IsFold(of, x, seq, n, f)
<1>2. IsFold(of, x, seq, n, g)
  BY FoldsExist, Zenon
<1> HIDE DEF g
<1>3. \A S \in SUBSET (1 .. n) : g[S] = FoldAt(of, x, seq, g, S)
  BY <1>2, Zenon DEF IsFold
<1> DEFINE h == [k \in 0 .. n |-> g[1 .. k]]
<1>4. h[0] = x
  <2>1. 1 .. 0 = {} /\ 1 .. 0 \in SUBSET (1 .. n)
    OBVIOUS
  <2>2. g[1 .. 0] = x
    BY <1>3, <2>1, Zenon DEF FoldAt
  <2> QED
    BY <2>2
<1>5. ASSUME NEW k \in 1 .. n
      PROVE  h[k] = Turn(of, h[k - 1], seq[k])
  <2>0. k \in 1 .. k /\ k - 1 \in Nat
    OBVIOUS
  <2>a. \A i \in 1 .. k : i \in 1 .. n
    OBVIOUS
  <2>1. 1 .. k \in SUBSET (1 .. n) /\ 1 .. k # {} /\ k - 1 \in Nat
    BY <2>0, <2>a
  <2>2. Max(1 .. k) = k
    <3>1. (k - 1) + 1 = k
      OBVIOUS
    <3>2. 1 .. k \subseteq 1 .. (k - 1) + 1 /\ (k - 1) + 1 \in 1 .. k
      BY <2>1
    <3> QED
      BY <2>1, <3>1, <3>2, MaxOf
  <2>3. (1 .. k) \ {k} = 1 .. k - 1
    OBVIOUS
  <2>4. g[1 .. k] = Turn(of, g[1 .. k - 1], seq[k])
    BY <1>3, <2>1, <2>2, <2>3, Zenon DEF FoldAt
  <2>5. h[k] = g[1 .. k] /\ h[k - 1] = g[1 .. k - 1]
    BY <2>1
  <2> QED
    BY <2>4, <2>5, Zenon
<1>6. h[n] = g[1 .. n]
  OBVIOUS
<1>7. Row(of, x, seq, n, h)
  BY <1>4, <1>5, Zenon DEF Row
<1> HIDE DEF h
<1> QED
  BY <1>6, <1>7, Zenon DEF g, Folded

(* Of tcp_server_deal: tcp_recved is called for each pbuf in turn.            *)
LEMMA RecvedInTurn ==
    ASSUME NEW c, NEW lens, NEW n \in Nat, DOMAIN lens = 1 .. n
    PROVE  \E h : /\ Row("recved", c, lens, n, h)
                  /\ FoldLeft(tcp_recved, c, lens) = h[n]
<1>1. FoldLeft(tcp_recved, c, lens)
        = Folded("recved", c, lens, n)
  BY Zenon DEF FoldLeft, MapThenFoldSet, Folded, IsFold, FoldAt, Turn
<1>2. PICK h : /\ Row("recved", c, lens, n, h)
               /\ Folded("recved", c, lens, n) = h[n]
  BY FoldsInTurn, Zenon
<1> QED
  BY <1>1, <1>2, Zenon

(* Of tcp_output: each segment sent is put into the unacked queue in turn.    *)
LEMMA UnackedInTurn ==
    ASSUME NEW q, NEW segs, NEW n \in Nat, DOMAIN segs = 1 .. n
    PROVE  \E h : /\ Row("unacked", q, segs, n, h)
                  /\ FoldLeft(Unacked, q, segs) = h[n]
<1>1. FoldLeft(Unacked, q, segs)
        = Folded("unacked", q, segs, n)
  <2>1. "unacked" # "recved"
    OBVIOUS
  <2> QED
    BY <2>1, Zenon DEF FoldLeft, MapThenFoldSet, Folded, IsFold, FoldAt, Turn
<1>2. PICK h : /\ Row("unacked", q, segs, n, h)
               /\ Folded("unacked", q, segs, n) = h[n]
  BY FoldsInTurn, Zenon
<1> QED
  BY <1>1, <1>2, Zenon

-----------------------------------------------------------------------------
(* Sequence numbers: arithmetic modulo Word.                                  *)

Num == 0 .. Word - 1
Mod(x) == x % Word
Half == Word \div 2

(* The constants as numbers; a window and the units of a stream take less     *)
(* than half of the sequence numbers.                                         *)
LEMMA Sizes ==
    /\ Word \in Nat /\ Word > 0 /\ Half \in Nat /\ Half <= Word - Half
    /\ Half < Word
    /\ Mss \in Nat /\ Mss > 0 /\ Wnd \in Nat /\ Wnd > 0 /\ Mss <= Wnd
    /\ 2 * Wnd < Half /\ Units \in Nat /\ Units + 2 < Half
    /\ Iss \in Num /\ HostIss \in Num /\ HostWnd \in Nat /\ SndBuf \in Nat
<1>1. Word \in Nat \ {0} /\ Mss \in Nat \ {0} /\ Wnd \in Nat \ {0}
      /\ HostWnd \in Nat \ {0} /\ SndBuf \in Nat \ {0}
  BY LwipTcpAssumption, Zenon
<1>2. Units \in Nat /\ Iss \in 0 .. Word - 1 /\ HostIss \in 0 .. Word - 1
  BY LwipTcpAssumption
<1>3. Half \in Nat /\ Half <= Word - Half /\ Half < Word
  BY <1>1 DEF Half
<1>4. Mss <= Wnd /\ 2 * Wnd < Half /\ Units + 2 < Half
  BY LwipTcpAssumption, Zenon DEF Half
<1> QED
  BY <1>1, <1>2, <1>3, <1>4 DEF Num

(* Division with a rest, by Word.                                             *)
LEMMA Divide ==
    ASSUME NEW x \in Int
    PROVE  /\ x = Word * (x \div Word) + (x % Word)
           /\ x \div Word \in Int /\ x % Word \in 0 .. Word - 1
<1>1. Word \in Nat /\ Word > 0
  BY Sizes
<1> QED
  BY <1>1

(* A number that is a multiple of Word and a rest has this rest.              *)
LEMMA Rest ==
    ASSUME NEW q \in Int, NEW r \in Num, NEW x \in Int, x = Word * q + r
    PROVE  Mod(x) = r
<1> DEFINE d == (x \div Word) - q
           s == (x % Word) - r
<1>0. Word \in Nat /\ Word > 0
  BY Sizes
<1>1. /\ x = Word * (x \div Word) + (x % Word)
      /\ x \div Word \in Int /\ x % Word \in 0 .. Word - 1
  BY Divide
<1>2. Word * d + s = 0
  <2>1. Word * d = Word * (x \div Word) - Word * q
    BY <1>0, <1>1
  <2> QED
    BY <1>0, <1>1, <2>1 DEF Num
<1>3. d \in Int /\ s \in Int /\ s < Word /\ s > -Word
  BY <1>0, <1>1 DEF Num
<1> HIDE DEF d, s
<1>4. d = 0
  <2>1. CASE d >= 1
    <3>1. Word * d >= Word
      BY <1>0, <1>3, <2>1
    <3> QED
      BY <1>0, <1>2, <1>3, <3>1
  <2>2. CASE d <= -1
    <3>1. Word * d <= -Word
      BY <1>0, <1>3, <2>2
    <3> QED
      BY <1>0, <1>2, <1>3, <3>1
  <2> QED
    BY <1>3, <2>1, <2>2
<1>5. s = 0
  BY <1>0, <1>2, <1>3, <1>4
<1> QED
  BY <1>0, <1>1, <1>5 DEF s, Num, Mod

(* A number and its rest differ by a multiple of Word.                        *)
LEMMA Split ==
    ASSUME NEW x \in Int
    PROVE  Mod(x) \in Num /\ \E q \in Int : x = Word * q + Mod(x)
<1>1. Word \in Nat /\ Word > 0
  BY Sizes
<1>2. /\ x = Word * (x \div Word) + (x % Word)
      /\ x \div Word \in Int /\ x % Word \in 0 .. Word - 1
  BY <1>1
<1> QED
  BY <1>2 DEF Mod, Num

(* What a word holds can be taken for what was to be held, in a sum and in a  *)
(* difference.                                                                *)
LEMMA ModMod ==
    ASSUME NEW x \in Int, NEW y \in Int
    PROVE  /\ Mod(Mod(x) + y) = Mod(x + y)
           /\ Mod(x - Mod(y)) = Mod(x - y)
<1>0. Word \in Nat /\ Word > 0
  BY Sizes
<1> DEFINE a == Mod(x)
           b == Mod(y)
<1>1. PICK q \in Int : x = Word * q + a
  BY Split
<1>2. PICK p \in Int : y = Word * p + b
  BY Split
<1>3. a \in Num /\ b \in Num /\ a \in Int /\ b \in Int
  BY Split, <1>0 DEF Num
<1> HIDE DEF a, b
<1>4. Mod(a + y) = Mod(x + y)
  <2> DEFINE z == a + y
             r == Mod(z)
  <2>1. z \in Int
    BY <1>3
  <2>2. r \in Num /\ \E m \in Int : z = Word * m + r
    <3> HIDE DEF z
    <3> QED
      BY <2>1, Split
  <2>3. PICK m \in Int : z = Word * m + r
    BY <2>2
  <2> HIDE DEF r
  <2> DEFINE u == x + y
             k == q + m
  <2>4. u = Word * k + r
    <3>1. Word * (q + m) = Word * q + Word * m
      BY <1>0
    <3> QED
      BY <1>0, <1>1, <1>3, <2>2, <2>3, <3>1 DEF Num
  <2>5. u \in Int /\ k \in Int
    OBVIOUS
  <2> HIDE DEF u, k, z
  <2>6. Mod(u) = r
    BY <2>2, <2>4, <2>5, Rest
  <2> QED
    BY <2>6 DEF r, u, z
<1>5. Mod(x - b) = Mod(x - y)
  <2> DEFINE z == x - b
             r == Mod(z)
  <2>1. z \in Int
    BY <1>3
  <2>2. r \in Num /\ \E m \in Int : z = Word * m + r
    <3> HIDE DEF z
    <3> QED
      BY <2>1, Split
  <2>3. PICK m \in Int : z = Word * m + r
    BY <2>2
  <2> HIDE DEF r
  <2> DEFINE u == x - y
             k == m - p
  <2>4. u = Word * k + r
    <3>1. Word * (m - p) = Word * m - Word * p
      BY <1>0
    <3> QED
      BY <1>0, <1>2, <1>3, <2>2, <2>3, <3>1 DEF Num
  <2>5. u \in Int /\ k \in Int
    OBVIOUS
  <2> HIDE DEF u, k, z
  <2>6. Mod(u) = r
    BY <2>2, <2>4, <2>5, Rest
  <2> QED
    BY <2>6 DEF r, u, z
<1> QED
  BY <1>4, <1>5 DEF a, b

(* The rest of what a word holds, and of what is just below zero.             *)
LEMMA ModSmall ==
    ASSUME NEW x \in Int
    PROVE  /\ x \in Num => Mod(x) = x
           /\ x < 0 /\ -Word <= x => Mod(x) = x + Word
<1>0. Word \in Nat /\ Word > 0
  BY Sizes
<1>1. ASSUME x \in Num
      PROVE  Mod(x) = x
  <2>1. 0 \in Int /\ x = Word * 0 + x
    BY <1>0
  <2> QED
    BY <1>1, <2>1, Rest
<1>2. ASSUME x < 0 /\ -Word <= x
      PROVE  Mod(x) = x + Word
  <2> DEFINE r == x + Word
             q == -1
  <2>1. r \in Num /\ q \in Int /\ x = Word * q + r
    BY <1>0, <1>2 DEF Num
  <2> HIDE DEF r, q
  <2>2. Mod(x) = r
    BY <2>1, Rest
  <2> QED
    BY <2>2 DEF r
<1> QED
  BY <1>1, <1>2

-----------------------------------------------------------------------------
(* Sequence numbers, counted from some number b.                              *)
LEMMA PlusType ==
    ASSUME NEW b \in Int, NEW n \in Int
    PROVE  Plus(b, n) \in Num /\ Diff(b, n) \in Num
<1> DEFINE s == b + n
           d == b - n
<1>1. s \in Int /\ d \in Int
  OBVIOUS
<1> HIDE DEF s, d
<1>2. Mod(s) \in Num /\ Mod(d) \in Num
  BY <1>1, Split
<1> QED
  BY <1>2 DEF s, d, Plus, Diff, Mod

(* Two distances walked one after the other.                                  *)
LEMMA PlusPlus ==
    ASSUME NEW b \in Int, NEW m \in Int, NEW n \in Int
    PROVE  Plus(Plus(b, m), n) = Plus(b, m + n)
<1> DEFINE s == b + m
<1>1. s \in Int /\ s + n = b + (m + n)
  OBVIOUS
<1>2. Plus(b, m) = Mod(s)
  BY Zenon DEF Plus, Mod
<1> HIDE DEF s
<1>3. Mod(Mod(s) + n) = Mod(s + n)
  BY <1>1, ModMod
<1> QED
  BY <1>1, <1>2, <1>3, Zenon DEF Plus, Mod

(* The distance of two numbers that are given by their distances from a       *)
(* third.                                                                     *)
LEMMA DiffPlus ==
    ASSUME NEW b \in Int, NEW m \in Int, NEW n \in Int
    PROVE  Diff(Plus(b, m), Plus(b, n)) = Mod(m - n)
<1> DEFINE x == b + m
           y == b + n
           z == 0 - Mod(y)
<1>0. Word \in Nat /\ Word > 0
  BY Sizes
<1>1. x \in Int /\ y \in Int /\ x - y = m - n
  OBVIOUS
<1>2. Plus(b, m) = Mod(x) /\ Plus(b, n) = Mod(y)
  BY Zenon DEF Plus, Mod
<1> HIDE DEF x, y
<1>3. Mod(x) \in Int /\ Mod(y) \in Int /\ z \in Int
  BY <1>0, <1>1, Split DEF Num
<1>4. Mod(x) - Mod(y) = Mod(x) + z /\ x + z = x - Mod(y)
  BY <1>1, <1>3
<1> HIDE DEF z
<1>5. Mod(Mod(x) + z) = Mod(x + z) /\ Mod(x - Mod(y)) = Mod(x - y)
  BY <1>1, <1>3, ModMod
<1> QED
  BY <1>1, <1>2, <1>4, <1>5, Zenon DEF Diff, Mod

(* Every number is some distance from b.                                      *)
LEMMA Offset ==
    ASSUME NEW b \in Num, NEW a \in Num
    PROVE  a = Plus(b, Diff(a, b)) /\ Diff(a, b) \in Num
<1>0. Word \in Nat /\ Word > 0 /\ a \in Int /\ b \in Int
  BY Sizes DEF Num
<1> DEFINE d == a - b
<1>1. d \in Int /\ d + b = a
  BY <1>0
<1>2. Diff(a, b) = Mod(d)
  BY Zenon DEF Diff, Mod
<1>3. Mod(d) \in Num
  <2> HIDE DEF d
  <2> QED
    BY <1>1, Split
<1>4. Mod(d) \in Int /\ b + Mod(d) = Mod(d) + b
  BY <1>0, <1>3 DEF Num
<1> HIDE DEF d
<1>5. Mod(Mod(d) + b) = Mod(d + b)
  BY <1>0, <1>1, ModMod
<1>6. Mod(a) = a
  BY <1>0, ModSmall
<1> QED
  BY <1>1, <1>2, <1>3, <1>4, <1>5, <1>6, Zenon DEF Plus, Mod

(* No distance leads nowhere.                                                 *)
LEMMA Zero == ASSUME NEW b \in Num PROVE Plus(b, 0) = b
<1>1. b \in Int /\ b + 0 = b
  BY Sizes DEF Num
<1> QED
  BY <1>1, ModSmall, Zenon DEF Plus, Mod

(* The difference, where it does not come round.                              *)
LEMMA Distance ==
    ASSUME NEW b \in Int, NEW m \in Int, NEW n \in Int, m - n \in Num
    PROVE  Diff(Plus(b, m), Plus(b, n)) = m - n
<1> DEFINE d == m - n
<1>1. d \in Int /\ d \in Num
  OBVIOUS
<1> HIDE DEF d
<1>2. Mod(d) = d
  BY <1>1, ModSmall
<1> QED
  BY <1>2, DiffPlus DEF d

(* Which of two numbers comes first, when less than half of all are between.  *)
LEMMA Order ==
    ASSUME NEW b \in Int, NEW m \in Int, NEW n \in Int,
           m - n < Half, n - m <= Half
    PROVE  /\ TCP_SEQ_LT(Plus(b, m), Plus(b, n)) <=> m < n
           /\ TCP_SEQ_LEQ(Plus(b, m), Plus(b, n)) <=> m <= n
<1> DEFINE d == m - n
<1>0. /\ Word \in Nat /\ Word > 0 /\ Half \in Nat
      /\ Half <= Word - Half /\ Half < Word
  BY Sizes
<1>1. d \in Int /\ d < Half /\ -Half <= d
  BY <1>0
<1>2. Diff(Plus(b, m), Plus(b, n)) = Mod(d)
  BY DiffPlus
<1>3. Mod(d) = IF d < 0 THEN d + Word ELSE d
  <2> HIDE DEF d
  <2>1. CASE d < 0
    BY <1>0, <1>1, <2>1, ModSmall
  <2>2. CASE ~(d < 0)
    <3>1. d \in Num
      BY <1>0, <1>1, <2>2 DEF Num
    <3> QED
      BY <1>1, <2>2, <3>1, ModSmall
  <2> QED
    BY <2>1, <2>2
<1>4. Mod(d) >= Half <=> d < 0
  BY <1>0, <1>1, <1>3
<1>5. TCP_SEQ_LT(Plus(b, m), Plus(b, n)) <=> d < 0
  BY <1>2, <1>4, Zenon DEF TCP_SEQ_LT, Half
<1>6. Plus(b, m) = Plus(b, n) => d = 0
  <2>1. ASSUME Plus(b, m) = Plus(b, n)
        PROVE  d = 0
    <3>1. Diff(Plus(b, m), Plus(b, n)) = Diff(Plus(b, n), Plus(b, n))
      BY <2>1
    <3>2. n - n = 0 /\ 0 \in Num
      BY <1>0 DEF Num
    <3>3. Diff(Plus(b, n), Plus(b, n)) = 0
      BY <3>2, Distance
    <3>4. Mod(d) = 0
      BY <1>2, <3>1, <3>3
    <3> QED
      BY <1>0, <1>1, <1>3, <3>4
  <2> QED
    BY <2>1
<1>7. d = 0 => Plus(b, m) = Plus(b, n)
  <2>1. d = 0 => m = n
    OBVIOUS
  <2> QED
    BY <2>1
<1>8. (d < 0 <=> m < n) /\ (d <= 0 <=> m <= n) /\ (d <= 0 <=> d = 0 \/ d < 0)
  OBVIOUS
<1> HIDE DEF d
<1> QED
  BY <1>5, <1>6, <1>7, <1>8, Zenon DEF TCP_SEQ_LEQ

-----------------------------------------------------------------------------
(* Sequences.                                                                 *)

(* A sequence, of whatever.                                                   *)
Sequence(s) == Len(s) \in Nat /\ s = [i \in 1 .. Len(s) |-> s[i]]

(* A sequence is one over every set that has its members.                     *)
LEMMA SeqIn ==
    ASSUME NEW s, Sequence(s), NEW S, \A i \in 1 .. Len(s) : s[i] \in S
    PROVE  s \in Seq(S)
BY DEF Sequence

(* A sequence over a set is a sequence, and the set has its members.          *)
LEMMA SeqTyped ==
    ASSUME NEW S, NEW s \in Seq(S)
    PROVE  Sequence(s) /\ \A i \in 1 .. Len(s) : s[i] \in S
<1>1. s \in [1 .. Len(s) -> S] /\ Len(s) \in Nat
  OBVIOUS
<1>2. s = [i \in 1 .. Len(s) |-> s[i]]
  BY <1>1
<1> QED
  BY <1>1, <1>2 DEF Sequence

(* Two sequences, one behind the other.                                       *)
LEMMA Catenated ==
    ASSUME NEW s, Sequence(s), NEW t, Sequence(t)
    PROVE  /\ Sequence(s \o t) /\ Len(s \o t) = Len(s) + Len(t)
           /\ \A i \in 1 .. Len(s) : (s \o t)[i] = s[i]
           /\ \A i \in 1 .. Len(t) : (s \o t)[Len(s) + i] = t[i]
<1> DEFINE S == {s[i] : i \in 1 .. Len(s)} \cup {t[i] : i \in 1 .. Len(t)}
<1>1. s \in Seq(S) /\ t \in Seq(S)
  BY DEF Sequence
<1> HIDE DEF S
<1>2. s \o t \in Seq(S) /\ Len(s \o t) = Len(s) + Len(t)
  BY <1>1
<1>3. \A i \in 1 .. Len(s) + Len(t) : (s \o t)[i] = IF i <= Len(s) THEN s[i] ELSE t[i - Len(s)]
  BY <1>1, ConcatProperties
<1>4. Len(s) \in Nat /\ Len(t) \in Nat
  BY <1>1
<1>5. Sequence(s \o t)
  BY <1>2, SeqTyped
<1> QED
  BY <1>2, <1>3, <1>4, <1>5

(* A sequence with one member more.                                           *)
LEMMA Appended ==
    ASSUME NEW s, Sequence(s), NEW e
    PROVE  /\ Sequence(Append(s, e)) /\ Len(Append(s, e)) = Len(s) + 1
           /\ \A i \in 1 .. Len(s) : Append(s, e)[i] = s[i]
           /\ Append(s, e)[Len(s) + 1] = e
<1> DEFINE S == {s[i] : i \in 1 .. Len(s)} \cup {e}
<1>1. s \in Seq(S) /\ e \in S
  BY DEF Sequence
<1> HIDE DEF S
<1>2. /\ Append(s, e) \in Seq(S) /\ Len(Append(s, e)) = Len(s) + 1
      /\ \A i \in 1 .. Len(s) : Append(s, e)[i] = s[i]
      /\ Append(s, e)[Len(s) + 1] = e
  BY <1>1
<1>3. Sequence(Append(s, e))
  BY <1>2, SeqTyped
<1> QED
  BY <1>2, <1>3

(* The part of a sequence behind its first m members.                         *)
LEMMA SubOf ==
    ASSUME NEW s, Sequence(s), NEW m \in Nat, NEW n \in Nat,
           m <= n, n <= Len(s)
    PROVE  /\ Sequence(SubSeq(s, m + 1, n)) /\ Len(SubSeq(s, m + 1, n)) = n - m
           /\ \A i \in 1 .. n - m : SubSeq(s, m + 1, n)[i] = s[m + i]
<1> DEFINE S == {s[i] : i \in 1 .. Len(s)}
<1>1. s \in Seq(S)
  BY DEF Sequence
<1> HIDE DEF S
<1>2. m + 1 \in 1 .. Len(s) + 1 /\ n \in m .. Len(s)
  BY <1>1
<1>3. /\ SubSeq(s, m + 1, n) \in Seq(S)
      /\ Len(SubSeq(s, m + 1, n)) = n - m
      /\ \A i \in 1 .. n - m : SubSeq(s, m + 1, n)[i] = s[m + i]
  BY <1>1, <1>2
<1> QED
  BY <1>3, SeqTyped

(* A sequence without its head.                                               *)
LEMMA TailOf ==
    ASSUME NEW s, Sequence(s), s # <<>>
    PROVE  /\ Len(s) >= 1 /\ Sequence(Tail(s)) /\ Len(Tail(s)) = Len(s) - 1
           /\ \A i \in 1 .. Len(s) - 1 : Tail(s)[i] = s[i + 1]
           /\ Head(s) = s[1]
<1> DEFINE S == {s[i] : i \in 1 .. Len(s)}
<1>1. s \in Seq(S)
  BY DEF Sequence
<1> HIDE DEF S
<1>2. /\ Len(s) \in Nat /\ Len(s) >= 1 /\ Tail(s) \in Seq(S) /\ Len(Tail(s)) = Len(s) - 1
      /\ \A i \in 1 .. Len(s) - 1 : Tail(s)[i] = s[i + 1]
      /\ Head(s) = s[1]
  BY <1>1
<1> QED
  BY <1>2, SeqTyped

(* The empty sequence is one.                                                 *)
LEMMA Nothing == Sequence(<<>>) /\ Len(<<>>) = 0
BY DEF Sequence

(* There is no other without members.                                         *)
LEMMA NotEmpty == ASSUME NEW s, Sequence(s), Len(s) = 0 PROVE s = <<>>
BY DEF Sequence

(* How many of a queue pass each of the tests of LwipTcp: a number.           *)
LEMMA LeadingFit ==
    ASSUME NEW c, Len(c.unsent) \in Nat
    PROVE  Leading(c.unsent, LAMBDA seg : Fits(c, seg, WndOf(c)))
              \in 0 .. Len(c.unsent)
<1> DEFINE m == Len(c.unsent)
           T == {i \in Nat : Fits(c, c.unsent[i], WndOf(c))}
<1>1. \E n \in 0 .. m : /\ \A i \in 1 .. n : i \in T
                        /\ n < m => n + 1 \notin T
  <2> HIDE DEF T, m
  <2> QED
    BY Prefix DEF m
<1>2. \E n \in 0 .. m : /\ \A i \in 1 .. n : Fits(c, c.unsent[i], WndOf(c))
                        /\ n < m => ~Fits(c, c.unsent[n + 1], WndOf(c))
  BY <1>1
<1> QED
  BY <1>2, Zenon DEF Leading

-----------------------------------------------------------------------------
(* What every call keeps of a pcb: its shape, and that it acknowledges what   *)
(* has arrived.                                                               *)

Fields == DOMAIN Fresh

Pcb(c) ==
    /\ DOMAIN c = Fields
    /\ Sequence(c.unsent) /\ Sequence(c.unacked) /\ Sequence(c.out)
Told(c, A) ==
    \A i \in 1 .. Len(c.out) : "RST" \in c.out[i].flags \/ c.out[i].ack \in A
Ok(c, A) == Pcb(c) /\ c.rcvNxt \in A /\ Told(c, A)

Same(c, d) ==
    /\ d.state = c.state /\ d.rcvNxt = c.rcvNxt /\ d.rcvWnd = c.rcvWnd
    /\ d.annWnd = c.annWnd /\ d.recv = c.recv /\ d.gotFin = c.gotFin
    /\ d.es = c.es /\ d.chain = c.chain /\ d.given = c.given
    /\ d.erasing = c.erasing
Edge(c, d) == d.annEdge \in {c.annEdge, Plus(c.rcvNxt, c.annWnd)}
Sends(c, d) == Same(c, d) /\ Edge(c, d)

(* To do nothing keeps the fields.                                            *)
LEMMA SendsSame == ASSUME NEW c PROVE Sends(c, c)
BY DEF Sends, Same, Edge

(* Two calls that keep them keep them together.                               *)
LEMMA SendsSends ==
    ASSUME NEW c, NEW d, NEW e, Sends(c, d), Sends(d, e) PROVE Sends(c, e)
BY DEF Sends, Same, Edge

(* A queue stays a queue when a segment is put where it belongs.              *)
LEMMA OrderOf ==
    ASSUME NEW q, Sequence(q), NEW seg
    PROVE  Sequence(InOrder(q, seg))
<1> DEFINE n == Leading(q, LAMBDA s : TCP_SEQ_LT(s.seq, seg.seq))
<1>0. Len(q) \in Nat
  BY DEF Sequence
<1>1. n \in 0 .. Len(q)
  <2> DEFINE T == {i \in Nat : TCP_SEQ_LT(q[i].seq, seg.seq)}
  <2>1. \E k \in 0 .. Len(q) : /\ \A i \in 1 .. k : i \in T
                               /\ k < Len(q) => k + 1 \notin T
    <3> HIDE DEF T
    <3> QED
      BY <1>0, Prefix
  <2>2. \E k \in 0 .. Len(q) :
            /\ \A i \in 1 .. k : TCP_SEQ_LT(q[i].seq, seg.seq)
            /\ k < Len(q) => ~TCP_SEQ_LT(q[k + 1].seq, seg.seq)
    BY <1>0, <2>1
  <2> QED
    BY <2>2, Zenon DEF Leading
<1> HIDE DEF n
<1>2. Sequence(SubSeq(q, 0 + 1, n)) /\ Sequence(SubSeq(q, n + 1, Len(q)))
  BY <1>0, <1>1, SubOf
<1>3. Sequence(Append(SubSeq(q, 1, n), seg) \o SubSeq(q, n + 1, Len(q)))
  BY <1>2, Appended, Catenated
<1> QED
  BY <1>3, Zenon DEF InOrder, n

(* The same for the queue of what is not acknowledged.                        *)
LEMMA UnackedOf ==
    ASSUME NEW q, Sequence(q), NEW seg
    PROVE  Sequence(Unacked(q, seg))
BY OrderOf, Appended, Zenon DEF Unacked

(* The same for one segment after the other.                                  *)
LEMMA FoldOf ==
    ASSUME NEW q, Sequence(q), NEW segs, Sequence(segs)
    PROVE  Sequence(FoldLeft(Unacked, q, segs))
<1> DEFINE n == Len(segs)
<1>1. n \in Nat /\ DOMAIN segs = 1 .. n
  BY DEF Sequence
<1> HIDE DEF n
<1>2. PICK h : /\ Row("unacked", q, segs, n, h)
               /\ FoldLeft(Unacked, q, segs) = h[n]
  BY <1>1, UnackedInTurn
<1> DEFINE G == {k \in Nat : k <= n => Sequence(h[k])}
<1>3. 0 \in G
  BY <1>2 DEF Row
<1>4. ASSUME NEW k \in Nat, k \in G PROVE k + 1 \in G
  <2> SUFFICES ASSUME k + 1 <= n PROVE Sequence(h[k + 1])
    OBVIOUS
  <2> DEFINE j == k + 1
  <2>1. j \in 1 .. n /\ j - 1 = k /\ k <= n
    BY <1>1
  <2>2. Sequence(h[j - 1])
    BY <1>4, <2>1
  <2>3. h[j] = Turn("unacked", h[j - 1], segs[j])
    BY <1>2, <2>1 DEF Row
  <2>4. "unacked" # "recved"
    OBVIOUS
  <2> HIDE DEF j
  <2>5. h[j] = Unacked(h[j - 1], segs[j])
    BY <2>3, <2>4, Zenon DEF Turn
  <2>6. Sequence(h[j])
    BY <2>2, <2>5, UnackedOf, Zenon
  <2> QED
    BY <2>6 DEF j
<1> HIDE DEF G
<1>5. n \in G
  BY <1>1, <1>3, <1>4, Induct
<1> QED
  BY <1>1, <1>2, <1>5 DEF G

(* tcp_output moves the announced edge to the end of the window or leaves it, *)
(* and keeps the fields of the receiver.                                      *)
LEMMA OutputFrame ==
    ASSUME NEW c, Pcb(c)
    PROVE  /\ DOMAIN tcp_output(c) = Fields /\ Sends(c, tcp_output(c))
           /\ c.ackNow => tcp_output(c).annEdge = Plus(c.rcvNxt, c.annWnd)
BY DEF Pcb, tcp_output, Announced, Fields, Fresh, Sends, Same, Edge

(* What becomes of the queues and of the segments collected in tcp_output.    *)
LEMMA OutputQueues ==
    ASSUME NEW c, Pcb(c)
    PROVE  LET n == Leading(c.unsent, LAMBDA seg : Fits(c, seg, WndOf(c)))
               sent == SubSeq(c.unsent, 1, n)
               rest == SubSeq(c.unsent, n + 1, Len(c.unsent))
               segs == [i \in 1 .. n |->
                          Segment(c, sent[i].seq, sent[i].data, sent[i].flags)]
               d == tcp_output(c)
           IN  /\ d.unsent \in {c.unsent, rest}
               /\ d.unacked \in {c.unacked, FoldLeft(Unacked, c.unacked, sent)}
               /\ d.out \in {c.out, Append(c.out, Segment(c, c.sndNxt, <<>>, {})), c.out \o segs}
BY DEF Pcb, tcp_output, Announced, Fields, Fresh

(* Carries: d.out is c's and something more, all of it acknowledging what c has.*)
LEMMA ToldMore ==
    ASSUME NEW o, Sequence(o), NEW s, Sequence(s), NEW A,
           \A i \in 1 .. Len(o) : "RST" \in o[i].flags \/ o[i].ack \in A,
           \A i \in 1 .. Len(s) : "RST" \in s[i].flags \/ s[i].ack \in A
    PROVE  /\ Sequence(o \o s)
           /\ \A i \in 1 .. Len(o \o s) : "RST" \in (o \o s)[i].flags \/ (o \o s)[i].ack \in A
<1> DEFINE t == o \o s
<1>1. /\ Sequence(t) /\ Len(t) = Len(o) + Len(s)
      /\ \A i \in 1 .. Len(o) : t[i] = o[i]
      /\ \A i \in 1 .. Len(s) : t[Len(o) + i] = s[i]
  BY Catenated
<1>2. Len(o) \in Nat /\ Len(s) \in Nat
  BY DEF Sequence
<1> HIDE DEF t
<1>3. ASSUME NEW i \in 1 .. Len(t)
      PROVE  "RST" \in t[i].flags \/ t[i].ack \in A
  <2>1. CASE i <= Len(o)
    BY <1>1, <1>2, <2>1
  <2>2. CASE i > Len(o)
    <3> DEFINE j == i - Len(o)
    <3>1. j \in 1 .. Len(s) /\ Len(o) + j = i
      BY <1>1, <1>2, <2>2
    <3> HIDE DEF j
    <3>2. t[i] = s[j]
      BY <1>1, <3>1
    <3> QED
      BY <3>1, <3>2
  <2> QED
    BY <1>1, <1>2, <2>1, <2>2
<1> QED
  BY <1>1, <1>3 DEF t

(* The same for one segment more.                                             *)
LEMMA ToldOne ==
    ASSUME NEW o, Sequence(o), NEW e, NEW A,
           \A i \in 1 .. Len(o) : "RST" \in o[i].flags \/ o[i].ack \in A,
           "RST" \in e.flags \/ e.ack \in A
    PROVE  /\ Sequence(Append(o, e))
           /\ \A i \in 1 .. Len(Append(o, e)) :
                 "RST" \in Append(o, e)[i].flags \/ Append(o, e)[i].ack \in A
<1> DEFINE t == Append(o, e)
<1>1. /\ Sequence(t) /\ Len(t) = Len(o) + 1
      /\ \A i \in 1 .. Len(o) : t[i] = o[i]
      /\ t[Len(o) + 1] = e
  BY Appended
<1>2. Len(o) \in Nat
  BY DEF Sequence
<1> HIDE DEF t
<1>3. ASSUME NEW i \in 1 .. Len(t)
      PROVE  "RST" \in t[i].flags \/ t[i].ack \in A
  <2>1. CASE i <= Len(o)
    BY <1>1, <1>2, <2>1
  <2>2. CASE i > Len(o)
    <3>1. i = Len(o) + 1
      BY <1>1, <1>2, <2>2
    <3> QED
      BY <1>1, <3>1
  <2> QED
    BY <1>1, <1>2, <2>1, <2>2
<1> QED
  BY <1>1, <1>3 DEF t

(* tcp_output keeps the pcb sound: every segment it sends acknowledges what   *)
(* has arrived.                                                               *)
LEMMA OutputOk ==
    ASSUME NEW c, NEW A, Ok(c, A)
    PROVE  /\ Ok(tcp_output(c), A) /\ Sends(c, tcp_output(c))
           /\ c.ackNow => tcp_output(c).annEdge = Plus(c.rcvNxt, c.annWnd)
<1> DEFINE n == Leading(c.unsent, LAMBDA seg : Fits(c, seg, WndOf(c)))
           sent == SubSeq(c.unsent, 1, n)
           rest == SubSeq(c.unsent, n + 1, Len(c.unsent))
           segs == [i \in 1 .. n |->
                          Segment(c, sent[i].seq, sent[i].data, sent[i].flags)]
           one == Segment(c, c.sndNxt, <<>>, {})
           u == FoldLeft(Unacked, c.unacked, sent)
           d == tcp_output(c)
<1>0. Pcb(c) /\ Sequence(c.unsent) /\ Sequence(c.unacked) /\ Sequence(c.out)
      /\ Len(c.unsent) \in Nat /\ c.rcvNxt \in A
  BY DEF Ok, Pcb, Sequence
<1>1. /\ d.unsent \in {c.unsent, rest}
      /\ d.unacked \in {c.unacked, u}
      /\ d.out \in {c.out, Append(c.out, one), c.out \o segs}
  BY <1>0, OutputQueues
<1>2. DOMAIN d = Fields /\ Sends(c, d) /\ (c.ackNow => d.annEdge = Plus(c.rcvNxt, c.annWnd))
  BY <1>0, OutputFrame
<1>3. n \in 0 .. Len(c.unsent)
  BY <1>0, LeadingFit, Zenon
<1>4. one.ack = c.rcvNxt /\ \A i \in 1 .. n : segs[i].ack = c.rcvNxt
  BY DEF Segment
<1>5. Sequence(segs) /\ Len(segs) = n
  <2> HIDE DEF n, sent
  <2>1. n \in Nat
    BY <1>0, <1>3
  <2> QED
    BY <2>1 DEF Sequence
<1> HIDE DEF n, d, segs, one
<1>6. Sequence(rest) /\ Sequence(sent)
  <2>1. n \in Nat /\ n <= Len(c.unsent) /\ 0 + 1 = 1 /\ 0 \in Nat /\ 0 <= n
    BY <1>0, <1>3
  <2>2. Sequence(SubSeq(c.unsent, n + 1, Len(c.unsent)))
    BY <1>0, <2>1, SubOf
  <2>3. Sequence(SubSeq(c.unsent, 0 + 1, n))
    BY <1>0, <2>1, SubOf, Zenon
  <2> QED
    BY <2>1, <2>2, <2>3
<1> HIDE DEF sent, rest
<1>7. Sequence(u)
  BY <1>0, <1>6, FoldOf
<1> HIDE DEF u
<1>8. Sequence(d.out) /\ Told(d, A)
  <2>1. \A i \in 1 .. Len(c.out) : "RST" \in c.out[i].flags \/ c.out[i].ack \in A
    BY DEF Ok, Told
  <2>2. CASE d.out = c.out
    BY <1>0, <2>1, <2>2 DEF Told
  <2>3. CASE d.out = Append(c.out, one)
    <3>1. "RST" \in one.flags \/ one.ack \in A
      BY <1>0, <1>4
    <3> DEFINE o == c.out
               t == Append(o, one)
    <3> HIDE DEF o
    <3>2. Sequence(t) /\ \A i \in 1 .. Len(t) : "RST" \in t[i].flags \/ t[i].ack \in A
      BY <1>0, <2>1, <3>1, ToldOne DEF o
    <3> QED
      BY <2>3, <3>2 DEF Told, o
  <2>4. CASE d.out = c.out \o segs
    <3>1. \A i \in 1 .. Len(segs) : "RST" \in segs[i].flags \/ segs[i].ack \in A
      BY <1>0, <1>4, <1>5
    <3> DEFINE o == c.out
               t == o \o segs
    <3> HIDE DEF o
    <3>2. Sequence(t) /\ \A i \in 1 .. Len(t) : "RST" \in t[i].flags \/ t[i].ack \in A
      BY <1>0, <1>5, <2>1, <3>1, ToldMore DEF o
    <3> QED
      BY <2>4, <3>2 DEF Told, o
  <2> QED
    BY <1>1, <2>2, <2>3, <2>4
<1>9. d.rcvNxt = c.rcvNxt
  BY <1>2 DEF Sends, Same
<1>10. Pcb(d)
  BY <1>0, <1>1, <1>2, <1>6, <1>7, <1>8 DEF Pcb
<1> QED
  BY <1>0, <1>2, <1>8, <1>9, <1>10 DEF Ok, d

(* Pieces of Mss: at least one.                                               *)
LEMMA Pieces ==
    ASSUME NEW n \in Nat, n >= 1
    PROVE  (n + Mss - 1) \div Mss \in Nat /\ (n + Mss - 1) \div Mss >= 1
<1> DEFINE q == (n + Mss - 1) \div Mss
           r == (n + Mss - 1) % Mss
<1>1. Mss \in Nat /\ Mss > 0
  BY Sizes
<1>2. q \in Int /\ r \in 0 .. Mss - 1 /\ n + Mss - 1 = Mss * q + r
  BY <1>1
<1> HIDE DEF q, r
<1>3. q >= 1
  <2> SUFFICES ASSUME q <= 0 PROVE FALSE
    BY <1>2
  <2>1. Mss * q <= 0
    BY <1>1, <1>2
  <2>2. Mss * q \in Int
    BY <1>1, <1>2
  <2> DEFINE p == Mss * q
  <2> HIDE DEF p
  <2>3. p <= 0 /\ p \in Int /\ n + Mss - 1 = p + r
    BY <1>2, <2>1, <2>2 DEF p
  <2> QED
    BY <1>1, <1>2, <2>3
<1> QED
  BY <1>2, <1>3 DEF q

(* tcp_enqueue cuts data into one segment or more.                            *)
LEMMA CutOf ==
    ASSUME NEW c, NEW data, Sequence(data), NEW flags
    PROVE  Sequence(Cut(c, data, flags)) /\ Len(Cut(c, data, flags)) >= 1
<1> DEFINE n == IF data = <<>> THEN 1 ELSE (Len(data) + Mss - 1) \div Mss
           upto(i) == IF i * Mss < Len(data) THEN i * Mss ELSE Len(data)
           cut == [i \in 1 .. n |->
            [seq |-> Plus(c.sndLbb, (i - 1) * Mss), flags |-> flags,
             data |-> SubSeq(data, (i - 1) * Mss + 1, upto(i))]]
<1>1. n \in Nat /\ n >= 1
  <2>1. CASE data = <<>>
    BY <2>1
  <2>2. CASE data # <<>>
    <3>1. Len(data) \in Nat /\ Len(data) >= 1
      BY <2>2, NotEmpty DEF Sequence
    <3> QED
      BY <2>2, <3>1, Pieces
  <2> QED
    BY <2>1, <2>2
<1>2. Cut(c, data, flags) = cut
  BY Zenon DEF Cut
<1>3. Len(cut) = n /\ Sequence(cut)
  <2> HIDE DEF n, upto
  <2> QED
    BY <1>1 DEF Sequence
<1> QED
  BY <1>1, <1>2, <1>3

(* They are joined to the queue.                                              *)
LEMMA JoinedOf ==
    ASSUME NEW q, Sequence(q), NEW new, Sequence(new), Len(new) >= 1
    PROVE  Sequence(Joined(q, new))
<1> DEFINE e == [Last(q) EXCEPT !.data = @ \o Head(new).data]
<1>1. Sequence(q \o new)
  BY Catenated
<1>2. new # <<>>
  BY Nothing
<1>3. Sequence(Tail(new))
  BY <1>2, TailOf
<1>4. ASSUME q # <<>>
      PROVE  Sequence(Append(Front(q), e) \o Tail(new))
  <2>1. Len(q) \in Nat /\ Len(q) >= 1 /\ 0 \in Nat /\ Len(q) - 1 \in Nat /\ 0 + 1 = 1
        /\ 0 <= Len(q) - 1 /\ Len(q) - 1 <= Len(q)
    BY <1>4, TailOf DEF Sequence
  <2>2. Sequence(SubSeq(q, 0 + 1, Len(q) - 1))
    BY <2>1, SubOf, Zenon
  <2>3. Sequence(Front(q))
    BY <2>1, <2>2, Zenon DEF Front
  <2> HIDE DEF e
  <2>4. Sequence(Append(Front(q), e))
    BY <2>3, Appended
  <2> QED
    BY <1>3, <2>4, Catenated
<1> QED
  BY <1>1, <1>4, Zenon DEF Joined, e

(* tcp_enqueue keeps the pcb sound and the receiver's fields.                 *)
LEMMA EnqueueOk ==
    ASSUME NEW c, NEW A, Ok(c, A), NEW data, Sequence(data), NEW flags
    PROVE  /\ Ok(tcp_enqueue(c, data, flags), A)
           /\ Sends(c, tcp_enqueue(c, data, flags))
<1> DEFINE u == Joined(c.unsent, Cut(c, data, flags))
           len == Len(data) + Cardinality(flags)
<1>1. Sequence(u)
  BY CutOf, JoinedOf DEF Ok, Pcb
<1> HIDE DEF u, len
<1>2. tcp_enqueue(c, data, flags) = [c EXCEPT !.unsent = u,
                  !.sndLbb = Plus(@, len),
                  !.sndBuf = @ - len]
  BY DEF tcp_enqueue, u, len
<1> QED
  BY <1>1, <1>2 DEF Ok, Pcb, Told, Fields, Fresh, Sends, Same, Edge

(* So does tcp_write, whether it takes the answer or refuses it.              *)
LEMMA WriteOk ==
    ASSUME NEW c, NEW A, Ok(c, A), NEW n \in Nat
    PROVE  Ok(tcp_write(c, n), A) /\ Sends(c, tcp_write(c, n))
<1> DEFINE data == [i \in 1 .. n |-> c.wrote + i]
           e == tcp_enqueue(c, data, {})
           d == [e EXCEPT !.wrote = @ + n]
           f == [c EXCEPT !.refused = TRUE]
<1>1. Sequence(data)
  BY DEF Sequence
<1>2. Ok(e, A) /\ Sends(c, e)
  <2> HIDE DEF data
  <2> QED
    BY <1>1, EnqueueOk
<1> HIDE DEF e
<1>3. Ok(d, A) /\ Sends(c, d)
  BY <1>2 DEF Ok, Pcb, Told, Fields, Fresh, Sends, Same, Edge
<1>4. Ok(f, A) /\ Sends(c, f)
  BY DEF Ok, Pcb, Told, Fields, Fresh, Sends, Same, Edge
<1>5. Sends(c, c)
  BY SendsSame
<1> HIDE DEF d, f, data
<1>6. tcp_write(c, n) \in {c, d, f}
  BY DEF tcp_write, d, e, f, data
<1> QED
  BY <1>3, <1>4, <1>5, <1>6

(* So does tcp_rexmit.                                                        *)
LEMMA RexmitOk ==
    ASSUME NEW c, NEW A, Ok(c, A)
    PROVE  Ok(tcp_rexmit(c), A) /\ Sends(c, tcp_rexmit(c))
<1>1. CASE c.unacked = <<>>
  BY <1>1, SendsSame, Zenon DEF tcp_rexmit
<1>2. CASE c.unacked # <<>>
  <2> DEFINE u == InOrder(c.unsent, Head(c.unacked))
             v == Tail(c.unacked)
  <2>1. Sequence(u) /\ Sequence(v)
    BY <1>2, OrderOf, TailOf DEF Ok, Pcb
  <2> HIDE DEF u, v
  <2>2. tcp_rexmit(c) = [c EXCEPT !.unacked = v, !.unsent = u, !.nrtx = @ + 1]
    BY <1>2 DEF tcp_rexmit, u, v, Ok, Pcb, Fields, Fresh
  <2> QED
    BY <2>1, <2>2 DEF Ok, Pcb, Told, Fields, Fresh, Sends, Same, Edge
<1> QED
  BY <1>1, <1>2

(* So does tcp_rexmit_rto.                                                    *)
LEMMA RtoOk ==
    ASSUME NEW c, NEW A, Ok(c, A)
    PROVE  Ok(tcp_rexmit_rto(c), A) /\ Sends(c, tcp_rexmit_rto(c))
<1> DEFINE u == c.unacked \o c.unsent
           d == [c EXCEPT !.unsent = u, !.unacked = <<>>, !.nrtx = @ + 1]
<1>1. Sequence(u) /\ Sequence(<<>>)
  BY Catenated, Nothing DEF Ok, Pcb
<1>2. tcp_rexmit_rto(c) = tcp_output(d)
  BY DEF tcp_rexmit_rto, Ok, Pcb, Fields, Fresh
<1> HIDE DEF u
<1>3. Ok(d, A) /\ Sends(c, d)
  BY <1>1 DEF Ok, Pcb, Told, Fields, Fresh, Sends, Same, Edge
<1> HIDE DEF d
<1>4. Ok(tcp_output(d), A) /\ Sends(d, tcp_output(d))
  BY <1>3, OutputOk
<1> QED
  BY <1>2, <1>3, <1>4, SendsSends

(* One segment more that acknowledges what has come, and the window announced.*)
LEMMA SaysOk ==
    ASSUME NEW c, NEW A, Ok(c, A), NEW seg, seg.ack = c.rcvNxt,
           NEW d, d = [Announced(c) EXCEPT !.out = Append(@, seg)]
    PROVE  Ok(d, A) /\ Sends(c, d)
<1> DEFINE o == c.out
           t == Append(o, seg)
<1>1. /\ Sequence(o) /\ ("RST" \in seg.flags \/ seg.ack \in A)
      /\ \A i \in 1 .. Len(o) : "RST" \in o[i].flags \/ o[i].ack \in A
  BY DEF Ok, Pcb, Told
<1> HIDE DEF o
<1>2. Sequence(t) /\ \A i \in 1 .. Len(t) : "RST" \in t[i].flags \/ t[i].ack \in A
  BY <1>1, ToldOne
<1>3. d.out = t
  BY DEF Announced, o, Ok, Pcb, Fields, Fresh
<1> HIDE DEF t
<1>4. DOMAIN d = Fields /\ Sends(c, d) /\ d.unsent = c.unsent /\ d.unacked = c.unacked
  BY DEF Announced, Ok, Pcb, Fields, Fresh, Sends, Same, Edge
<1>5. d.rcvNxt = c.rcvNxt
  BY <1>4 DEF Sends, Same
<1> QED
  BY <1>2, <1>3, <1>4, <1>5 DEF Ok, Pcb, Told

(* So does tcp_zero_window_probe.                                             *)
LEMMA ProbeOk ==
    ASSUME NEW c, NEW A, Ok(c, A)
    PROVE  Ok(tcp_zero_window_probe(c), A) /\ Sends(c, tcp_zero_window_probe(c))
<1> DEFINE queue == c.unacked \o c.unsent
           unit == IF queue[1].data = <<>> THEN Junk ELSE queue[1].data[1]
           seg == Segment(c, queue[1].seq, <<unit>>, {})
           d == [Announced(c) EXCEPT !.out = Append(@, seg)]
<1>1. tcp_zero_window_probe(c) \in {c, d}
  BY Zenon DEF tcp_zero_window_probe
<1>2. seg.ack = c.rcvNxt
  BY DEF Segment
<1> HIDE DEF seg
<1>3. Ok(d, A) /\ Sends(c, d)
  <2> DEFINE e == d
  <2> HIDE DEF e
  <2>1. e = [Announced(c) EXCEPT !.out = Append(@, seg)]
    BY DEF e
  <2>2. Ok(e, A) /\ Sends(c, e)
    BY <1>2, <2>1, SaysOk, Zenon
  <2> QED
    BY <2>2 DEF e
<1> QED
  BY <1>1, <1>3, SendsSame, Zenon

-----------------------------------------------------------------------------
(* tcp_receive, the acknowledgement.                                          *)

(* So does the window update of tcp_receive.                                  *)
LEMMA WindowUpdateOk ==
    ASSUME NEW c, NEW A, Ok(c, A), NEW seg
    PROVE  Ok(WindowUpdate(c, seg), A) /\ Sends(c, WindowUpdate(c, seg))
BY DEF WindowUpdate, Ok, Pcb, Told, Fields, Fresh, Sends, Same, Edge

(* So does a duplicate acknowledgement.                                       *)
LEMMA DupAckOk ==
    ASSUME NEW c, NEW A, Ok(c, A)
    PROVE  Ok(DupAck(c), A) /\ Sends(c, DupAck(c))
<1> DEFINE d == [c EXCEPT !.dupacks = IF @ < 3 THEN @ + 1 ELSE @]
           e == [d EXCEPT !.slow = FALSE]
           r == tcp_rexmit(d)
           f == [r EXCEPT !.infr = TRUE, !.slow = FALSE]
<1>1. Ok(d, A) /\ Sends(c, d)
  BY DEF Ok, Pcb, Told, Fields, Fresh, Sends, Same, Edge
<1>2. DupAck(c) \in {d, e, f}
  BY Zenon DEF DupAck
<1> HIDE DEF d
<1>3. Ok(e, A) /\ Sends(d, e)
  BY <1>1 DEF Ok, Pcb, Told, Fields, Fresh, Sends, Same, Edge
<1>4. Ok(r, A) /\ Sends(d, r)
  BY <1>1, RexmitOk
<1> HIDE DEF r
<1>5. Ok(f, A) /\ Sends(r, f)
  BY <1>4 DEF Ok, Pcb, Told, Fields, Fresh, Sends, Same, Edge
<1> HIDE DEF e, f
<1>6. Sends(c, e) /\ Sends(c, f)
  BY <1>1, <1>3, <1>4, <1>5, SendsSends
<1> QED
  BY <1>1, <1>2, <1>3, <1>5, <1>6

(* So does an acknowledgement of something new.                               *)
LEMMA NewAckOk ==
    ASSUME NEW c, NEW A, Ok(c, A), NEW ack
    PROVE  Ok(NewAck(c, ack), A) /\ Sends(c, NewAck(c, ack))
<1> DEFINE m == Len(c.unacked)
           T == {i \in Nat : TCP_SEQ_LEQ(End(c.unacked[i]), ack)}
           n == Leading(c.unacked, LAMBDA seg : TCP_SEQ_LEQ(End(seg), ack))
           left == SubSeq(c.unacked, n + 1, Len(c.unacked))
<1>0. m \in Nat /\ Sequence(c.unacked)
  BY DEF Ok, Pcb, Sequence
<1>1. \E k \in 0 .. m : /\ \A i \in 1 .. k : i \in T
                        /\ k < m => k + 1 \notin T
  <2> HIDE DEF T, m
  <2> QED
    BY <1>0, Prefix
<1>2. \E k \in 0 .. m : /\ \A i \in 1 .. k : TCP_SEQ_LEQ(End(c.unacked[i]), ack)
                        /\ k < m => ~TCP_SEQ_LEQ(End(c.unacked[k + 1]), ack)
  BY <1>0, <1>1
<1>3. n \in 0 .. Len(c.unacked)
  BY <1>2, Zenon DEF Leading
<1> HIDE DEF n
<1>4. Sequence(left)
  <2>1. n \in Nat /\ n <= Len(c.unacked) /\ Len(c.unacked) \in Nat
    BY <1>0, <1>3
  <2> QED
    BY <1>0, <2>1, SubOf
<1> DEFINE room == c.sndBuf + Diff(ack, c.lastack)
           timer == left # <<>>
           d == [c EXCEPT !.infr = FALSE, !.slow = FALSE, !.nrtx = 0, !.dupacks = 0,
                  !.acked = TRUE, !.sndBuf = room,
                  !.lastack = ack, !.unacked = left, !.timer = timer]
<1>5. NewAck(c, ack) = d
  BY Zenon DEF NewAck, n
<1> HIDE DEF left, room, timer
<1>6. Ok(d, A) /\ Sends(c, d)
  BY <1>4 DEF Ok, Pcb, Told, Fields, Fresh, Sends, Same, Edge
<1> HIDE DEF d
<1> QED
  BY <1>5, <1>6

(* So does the whole first half of tcp_receive.                               *)
LEMMA AcknowledgeOk ==
    ASSUME NEW c, NEW A, Ok(c, A), NEW seg
    PROVE  Ok(Acknowledge(c, seg), A) /\ Sends(c, Acknowledge(c, seg))
<1> DEFINE w == WindowUpdate(c, seg)
           dup == DupAck(w)
           new == NewAck(w, seg.ack)
           same == Plus(w.wl2, w.sndWnd) = Plus(c.wl2, c.sndWnd)
           d == IF seg.ack = c.lastack
                THEN [IF same THEN dup ELSE w EXCEPT !.acked = FALSE]
                ELSE IF TCP_SEQ_BETWEEN(seg.ack, Plus(c.lastack, 1), c.sndNxt)
                THEN new
                ELSE [w EXCEPT !.acked = FALSE]
           T == {i \in Nat : TCP_SEQ_BETWEEN(seg.ack, End(d.unsent[i]), d.sndNxt)}
           m == Len(d.unsent)
           n == Leading(d.unsent,
                     LAMBDA s : TCP_SEQ_BETWEEN(seg.ack, End(s), d.sndNxt))
           u == SubSeq(d.unsent, n + 1, Len(d.unsent))
<1>1. Ok(w, A) /\ Sends(c, w)
  BY WindowUpdateOk
<1>2. Acknowledge(c, seg) = [d EXCEPT !.unsent = SubSeq(@, n + 1, Len(@))]
  BY Zenon DEF Acknowledge
<1> HIDE DEF w, same
<1>3. Ok(dup, A) /\ Sends(w, dup) /\ Ok(new, A) /\ Sends(w, new)
  BY <1>1, DupAckOk, NewAckOk
<1> HIDE DEF dup, new
<1>4. Ok(d, A) /\ Sends(c, d)
  <2>1. Sends(c, dup) /\ Sends(c, new)
    BY <1>1, <1>3, SendsSends
  <2>2. ASSUME NEW x, Ok(x, A), Sends(c, x)
        PROVE  Ok([x EXCEPT !.acked = FALSE], A) /\ Sends(c, [x EXCEPT !.acked = FALSE])
    BY <2>2 DEF Ok, Pcb, Told, Fields, Fresh, Sends, Same, Edge
  <2> QED
    BY <1>1, <1>3, <2>1, <2>2, Zenon
<1> HIDE DEF d
<1>5. m \in Nat /\ Sequence(d.unsent)
  BY <1>4 DEF Ok, Pcb, Sequence
<1>6. \E k \in 0 .. m : /\ \A i \in 1 .. k : i \in T
                        /\ k < m => k + 1 \notin T
  <2> HIDE DEF T, m
  <2> QED
    BY <1>5, Prefix
<1>7. \E k \in 0 .. m :
         /\ \A i \in 1 .. k : TCP_SEQ_BETWEEN(seg.ack, End(d.unsent[i]), d.sndNxt)
         /\ k < m => ~TCP_SEQ_BETWEEN(seg.ack, End(d.unsent[k + 1]), d.sndNxt)
  BY <1>5, <1>6
<1>8. n \in 0 .. Len(d.unsent)
  BY <1>7, Zenon DEF Leading
<1> HIDE DEF n
<1>9. Sequence(u)
  <2>1. n \in Nat /\ n <= Len(d.unsent) /\ Len(d.unsent) \in Nat
    BY <1>5, <1>8
  <2> QED
    BY <1>5, <2>1, SubOf
<1>10. Acknowledge(c, seg) = [d EXCEPT !.unsent = u]
  BY <1>2, <1>4 DEF Ok, Pcb, Fields, Fresh
<1> HIDE DEF u
<1> DEFINE e == [d EXCEPT !.unsent = u]
<1>11. Ok(e, A) /\ Sends(d, e)
  BY <1>4, <1>9 DEF Ok, Pcb, Told, Fields, Fresh, Sends, Same, Edge
<1> HIDE DEF e
<1>12. Sends(c, e)
  BY <1>4, <1>11, SendsSends
<1> QED
  BY <1>10, <1>11, <1>12 DEF e

(* So does tcp_ack.                                                           *)
LEMMA AckOk ==
    ASSUME NEW c, NEW A, Ok(c, A)
    PROVE  Ok(tcp_ack(c), A) /\ Sends(c, tcp_ack(c))
BY DEF tcp_ack, Ok, Pcb, Told, Fields, Fresh, Sends, Same, Edge

-----------------------------------------------------------------------------
(* The receive window. Numbers are taken as distances k, e from b = HostIss.  *)

Keeps(c, d) ==
    /\ d.state = c.state /\ d.rcvNxt = c.rcvNxt /\ d.recv = c.recv
    /\ d.gotFin = c.gotFin /\ d.es = c.es /\ d.chain = c.chain
    /\ d.given = c.given /\ d.erasing = c.erasing

Window(c, b, k, lo) ==
    /\ c.rcvWnd \in 0 .. Wnd /\ c.annWnd \in 0 .. c.rcvWnd
    /\ c.rcvNxt = Plus(b, k)
    /\ \E e \in Int : /\ c.annEdge = Plus(b, e) /\ lo <= e
                      /\ k + c.rcvWnd - Wnd <= e /\ e <= k + c.annWnd

(* Between a change of the window and its announcement.                       *)
Loose(c, b, k, lo, e) ==
    /\ c.rcvWnd \in 0 .. Wnd /\ c.rcvNxt = Plus(b, k)
    /\ c.annEdge = Plus(b, e) /\ lo <= e /\ k - Wnd <= e /\ e <= k + c.rcvWnd

(* A call that only sends keeps what is the receiver's and the application's. *)
LEMMA SendsKeeps ==
    ASSUME NEW c, NEW d, Sends(c, d) PROVE Keeps(c, d)
BY DEF Sends, Same, Keeps

(* Two calls that keep it keep it together.                                   *)
LEMMA KeepsKeeps ==
    ASSUME NEW c, NEW d, NEW e, Keeps(c, d), Keeps(d, e) PROVE Keeps(c, e)
BY DEF Keeps

Sums(b, m, n, s) == Plus(Plus(b, m), n) = Plus(b, s)
(* PlusPlus, with the sum under a name of its own.                            *)
LEMMA PlusSum ==
    ASSUME NEW b \in Int, NEW m \in Int, NEW n \in Int, NEW s \in Int, s = m + n
    PROVE  Sums(b, m, n, s)
<1>1. Plus(Plus(b, m), n) = Plus(b, m + n)
  BY PlusPlus
<1> QED
  BY <1>1 DEF Sums

(* The window's numbers, as they lie at distance e and k from b.              *)
Lies(c, k, e) ==
    /\ Moved(c) <=> e + Mss <= k + c.rcvWnd
    /\ TCP_SEQ_LT(c.annEdge, c.rcvNxt) <=> e < k
    /\ Diff(RightEdge(c), c.annEdge) = k + c.rcvWnd - e
    /\ e >= k => Diff(c.annEdge, c.rcvNxt) = e - k

(* A call that only sends leaves the window right: if it moves the announced  *)
(* edge it moves it forward, to where the window ends.                        *)
LEMMA SendsWindow ==
    ASSUME NEW c, NEW d, NEW b \in Int, NEW k \in Int, NEW lo \in Int,
           Window(c, b, k, lo), Sends(c, d)
    PROVE  Window(d, b, k, lo)
<1>0. Wnd \in Nat
  BY Sizes
<1>1. PICK e \in Int : /\ c.annEdge = Plus(b, e) /\ lo <= e
                       /\ k + c.rcvWnd - Wnd <= e /\ e <= k + c.annWnd
  BY DEF Window
<1>2. /\ c.rcvWnd \in Nat /\ c.rcvWnd <= Wnd /\ c.annWnd \in Nat /\ c.annWnd <= c.rcvWnd
      /\ c.rcvNxt = Plus(b, k)
  BY <1>0 DEF Window
<1>3. d.rcvWnd = c.rcvWnd /\ d.annWnd = c.annWnd /\ d.rcvNxt = c.rcvNxt
  BY DEF Sends, Same
<1>4. CASE d.annEdge = c.annEdge
  BY <1>3, <1>4 DEF Window
<1>5. CASE d.annEdge = Plus(c.rcvNxt, c.annWnd)
  <2> DEFINE f == k + c.annWnd
  <2>1. d.annEdge = Plus(b, f)
    <3>1. f \in Int /\ f = k + c.annWnd /\ c.annWnd \in Int
      BY <1>2
    <3> HIDE DEF f
    <3>1a. Sums(b, k, c.annWnd, f)
      BY <3>1, PlusSum
    <3>2. Plus(Plus(b, k), c.annWnd) = Plus(b, f)
      BY <3>1a DEF Sums
    <3> QED
      BY <1>2, <1>5, <3>2, Zenon
  <2>2. f \in Int /\ lo <= f /\ k + c.rcvWnd - Wnd <= f /\ f <= k + c.annWnd
    BY <1>0, <1>1, <1>2
  <2> HIDE DEF f
  <2> QED
    BY <1>3, <2>1, <2>2 DEF Window
<1> QED
  BY <1>4, <1>5 DEF Sends, Edge

(* Whether the edge has moved by a segment.                                   *)
LEMMA MovedIs ==
    ASSUME NEW c, NEW b \in Int, NEW k \in Int, NEW lo \in Int, NEW e \in Int,
           Loose(c, b, k, lo, e)
    PROVE  Lies(c, k, e)
<1>0. /\ Wnd \in Nat /\ Mss \in Nat /\ Mss <= Wnd /\ 2 * Wnd < Half /\ Half \in Nat
      /\ Word \in Nat /\ Half < Word
  BY Sizes
<1>1. c.rcvWnd \in Nat /\ c.rcvWnd <= Wnd /\ k - Wnd <= e /\ e <= k + c.rcvWnd
  BY <1>0 DEF Loose
<1> DEFINE r == k + c.rcvWnd
           m == e + Mss
<1>2. r \in Int /\ m \in Int /\ r - m < Half /\ m - r < Half /\ r - e \in Num
      /\ e - k < Half /\ k - e < Half
  BY <1>0, <1>1 DEF Num
<1>3. RightEdge(c) = Plus(b, r) /\ Plus(c.annEdge, Mss) = Plus(b, m)
  <2>1. Plus(Plus(b, k), c.rcvWnd) = Plus(b, r) /\ Plus(Plus(b, e), Mss) = Plus(b, m)
    <3>1. /\ r \in Int /\ r = k + c.rcvWnd /\ c.rcvWnd \in Int
          /\ m \in Int /\ m = e + Mss /\ Mss \in Int
      BY <1>0, <1>1
    <3> HIDE DEF r, m
    <3>2. Sums(b, k, c.rcvWnd, r) /\ Sums(b, e, Mss, m)
      BY <3>1, PlusSum
    <3> QED
      BY <3>2 DEF Sums
  <2> QED
    BY <2>1 DEF Loose, RightEdge
<1>4. e >= k => e - k \in Num
  BY <1>0, <1>2 DEF Num
<1>5. c.annEdge = Plus(b, e) /\ c.rcvNxt = Plus(b, k)
  BY DEF Loose
<1>6. TCP_SEQ_LT(c.annEdge, c.rcvNxt) <=> e < k
  <2>1. e - k < Half /\ k - e <= Half
    BY <1>0, <1>2
  <2> QED
    BY <1>5, <2>1, Order
<1>7. e >= k => Diff(c.annEdge, c.rcvNxt) = e - k
  BY <1>4, <1>5, Distance
<1> HIDE DEF r, m
<1>8. Moved(c) <=> m <= r
  <2>1. m - r < Half /\ r - m <= Half
    BY <1>0, <1>2
  <2>2. TCP_SEQ_LEQ(Plus(b, m), Plus(b, r)) <=> m <= r
    BY <1>2, <2>1, Order
  <2> QED
    BY <1>3, <2>2, Zenon DEF Moved
<1>9. Diff(RightEdge(c), c.annEdge) = r - e
  BY <1>2, <1>3, <1>5, Distance
<1> QED
  <2>1. Moved(c) <=> e + Mss <= k + c.rcvWnd
    BY <1>8 DEF r, m
  <2>2. Diff(RightEdge(c), c.annEdge) = k + c.rcvWnd - e
    BY <1>1, <1>9 DEF r
  <2> QED
    BY <1>6, <1>7, <2>1, <2>2, Zenon DEF Lies

(* tcp_update_rcv_ann_wnd: the window announced ends where the edge was       *)
(* announced, or has moved with the window, and is never wider than the       *)
(* window.                                                                    *)
LEMMA UpdateOk ==
    ASSUME NEW c, NEW A, Ok(c, A), 
           NEW b \in Int, NEW k \in Int, NEW lo \in Int, NEW e \in Int,
           Loose(c, b, k, lo, e)
    PROVE  LET d == tcp_update_rcv_ann_wnd(c)
           IN  /\ Ok(d, A) /\ Keeps(c, d) /\ Loose(d, b, k, lo, e)
               /\ d.rcvWnd = c.rcvWnd /\ d.annWnd \in 0 .. d.rcvWnd /\ e <= k + d.annWnd
<1> DEFINE a == IF Moved(c) THEN c.rcvWnd
                ELSE IF TCP_SEQ_LT(c.annEdge, c.rcvNxt) THEN 0
                ELSE Diff(c.annEdge, c.rcvNxt)
           d == [c EXCEPT !.annWnd = a]
<1>0. Wnd \in Nat
  BY Sizes
<1>0a. Lies(c, k, e)
  BY MovedIs
<1>1. /\ Moved(c) <=> e + Mss <= k + c.rcvWnd
      /\ TCP_SEQ_LT(c.annEdge, c.rcvNxt) <=> e < k
      /\ e >= k => Diff(c.annEdge, c.rcvNxt) = e - k
  BY <1>0a, Zenon DEF Lies
<1>2. c.rcvWnd \in Nat /\ c.rcvWnd <= Wnd /\ k - Wnd <= e /\ e <= k + c.rcvWnd
  BY <1>0 DEF Loose
<1>3. a \in 0 .. c.rcvWnd /\ e <= k + a
  BY <1>1, <1>2
<1>4. tcp_update_rcv_ann_wnd(c) = d
  BY Zenon DEF tcp_update_rcv_ann_wnd
<1> HIDE DEF a
<1>5. /\ Ok(d, A) /\ Keeps(c, d) /\ d.annWnd = a /\ d.rcvWnd = c.rcvWnd
      /\ d.annEdge = c.annEdge
  BY DEF Ok, Pcb, Told, Fields, Fresh, Keeps
<1> HIDE DEF d
<1>6. Loose(d, b, k, lo, e)
  BY <1>5 DEF Loose, Keeps
<1> QED
  BY <1>3, <1>4, <1>5, <1>6

(* tcp_recved opens the window again, up to Wnd, and keeps the edge.          *)
LEMMA RecvedOk ==
    ASSUME NEW c, NEW A, Ok(c, A), NEW n \in Nat,
           NEW b \in Int, NEW k \in Int, NEW lo \in Int, Window(c, b, k, lo)
    PROVE  LET d == tcp_recved(c, n)
           IN  Ok(d, A) /\ Keeps(c, d) /\ Window(d, b, k, lo)
<1> DEFINE w == IF c.rcvWnd + n > Wnd THEN Wnd ELSE c.rcvWnd + n
           d == [c EXCEPT !.rcvWnd = w]
           inflation == IF Moved(d) THEN Diff(RightEdge(d), d.annEdge) ELSE 0
           u == tcp_update_rcv_ann_wnd(d)
           v == [u EXCEPT !.ackNow = TRUE]
           f == tcp_output(v)
<1>0. Wnd \in Nat /\ Mss \in Nat /\ Mss <= Wnd
  BY Sizes
<1>1. PICK e \in Int : /\ c.annEdge = Plus(b, e) /\ lo <= e
                       /\ k + c.rcvWnd - Wnd <= e /\ e <= k + c.annWnd
  BY DEF Window
<1>2. /\ c.rcvWnd \in Nat /\ c.rcvWnd <= Wnd /\ c.annWnd \in Nat /\ c.annWnd <= c.rcvWnd
      /\ c.rcvNxt = Plus(b, k)
  BY <1>0 DEF Window
<1>3. w \in Nat /\ w <= Wnd /\ c.rcvWnd <= w
  BY <1>0, <1>2
<1>4. tcp_recved(c, n) = IF inflation >= Wnd \div 4 THEN f ELSE u
  BY DEF tcp_recved, Ok, Pcb, Fields, Fresh
<1> HIDE DEF w
<1>5. Ok(d, A) /\ Keeps(c, d) /\ d.rcvWnd = w /\ d.annEdge = c.annEdge
  BY DEF Ok, Pcb, Told, Fields, Fresh, Keeps
<1> HIDE DEF d
<1>6. Loose(d, b, k, lo, e)
  BY <1>0, <1>1, <1>2, <1>3, <1>5 DEF Loose, Keeps
<1>7. /\ Ok(u, A) /\ Keeps(d, u) /\ Loose(u, b, k, lo, e)
      /\ u.rcvWnd = w /\ u.annWnd \in 0 .. w /\ e <= k + u.annWnd
  BY <1>5, <1>6, UpdateOk
<1>8. /\ Moved(d) <=> e + Mss <= k + w
      /\ Diff(RightEdge(d), d.annEdge) = k + w - e
  <2>1. Lies(d, k, e)
    BY <1>6, MovedIs
  <2> QED
    BY <1>5, <2>1, Zenon DEF Lies
<1> HIDE DEF u
<1>9. CASE inflation >= Wnd \div 4
  <2>1. Ok(v, A) /\ Keeps(u, v) /\ v.ackNow = TRUE /\ v.annWnd = u.annWnd
        /\ v.rcvWnd = u.rcvWnd
    BY <1>7 DEF Ok, Pcb, Told, Fields, Fresh, Keeps
  <2> HIDE DEF v
  <2>2. /\ Ok(f, A) /\ Sends(v, f) /\ f.annEdge = Plus(v.rcvNxt, v.annWnd)
    BY <2>1, OutputOk
  <2> HIDE DEF f
  <2>3. Keeps(c, f)
    BY <1>5, <1>7, <2>1, <2>2, SendsKeeps, KeepsKeeps
  <2> DEFINE a == k + u.annWnd
  <2>4. f.rcvWnd = w /\ f.annWnd = u.annWnd /\ f.rcvNxt = Plus(b, k)
    BY <1>2, <1>7, <2>1, <2>2, <2>3 DEF Sends, Same, Keeps
  <2>5. u.annWnd \in Nat /\ u.annWnd <= w
    BY <1>3, <1>7
  <2>6. f.annEdge = Plus(b, a)
    <3>1. v.rcvNxt = Plus(b, k) /\ v.annWnd = u.annWnd
      BY <2>1, <2>2, <2>4 DEF Sends, Same
    <3>a. a \in Int /\ a = k + u.annWnd /\ u.annWnd \in Int
      BY <2>5
    <3> HIDE DEF a
    <3>b. Sums(b, k, u.annWnd, a)
      BY <3>a, PlusSum
    <3>2. Plus(Plus(b, k), u.annWnd) = Plus(b, a)
      BY <3>b DEF Sums
    <3> QED
      BY <2>2, <3>1, <3>2
  <2>7. a \in Int /\ lo <= a /\ k + w - Wnd <= a /\ a <= k + u.annWnd
    BY <1>0, <1>1, <1>3, <1>7, <2>5
  <2> HIDE DEF a
  <2>8. Window(f, b, k, lo)
    BY <1>3, <2>4, <2>5, <2>6, <2>7 DEF Window
  <2> QED
    BY <1>4, <1>9, <2>2, <2>3, <2>8
<1>10. CASE ~(inflation >= Wnd \div 4)
  <2>1. k + w - Wnd <= e
    <3>1. CASE Moved(d)
      <4> DEFINE q == Wnd \div 4
      <4>1. q \in Nat /\ q <= Wnd
        BY <1>0
      <4>2. inflation = k + w - e
        BY <1>8, <3>1
      <4> HIDE DEF q
      <4>3. ~(k + w - e >= q)
        BY <1>10, <4>2 DEF q
      <4> QED
        BY <1>0, <1>3, <4>1, <4>3
    <3>2. CASE ~Moved(d)
      BY <1>0, <1>3, <1>8, <3>2
    <3> QED
      BY <3>1, <3>2
  <2>2. Keeps(c, u)
    BY <1>5, <1>7, KeepsKeeps
  <2>3. Window(u, b, k, lo)
    BY <1>1, <1>3, <1>7, <2>1 DEF Window, Loose
  <2> QED
    BY <1>4, <1>7, <1>10, <2>2, <2>3
<1> QED
  BY <1>9, <1>10

-----------------------------------------------------------------------------
(* The host's segments, and what the server takes of them.                    *)

One(p) == IF p THEN 1 ELSE 0

Run(data, k) == Sequence(data) /\ \A i \in 1 .. Len(data) : data[i] = k + i - 1

(* A segment of the host with unit s, when it has sent S units and, if F, its *)
(* FIN; N is the number it sends next.                                        *)
Hosts(S, N, F) ==
    S \in Nat /\ F \in BOOLEAN /\ N = S + 1 + One(F) /\ N < Half
Carries(seg, s, S, N, F) ==
    /\ s \in 1 .. N /\ seg.seq = Plus(HostIss, s)
    /\ Run(seg.data, s) /\ "SYN" \notin seg.flags
    /\ seg.data # <<>> => s + Len(seg.data) <= S + 1
    /\ "FIN" \in seg.flags => F /\ s + Len(seg.data) + 1 = N
Heard(N) == {Plus(HostIss, j) : j \in 1 .. N}

Took(c, d, R, Q, S, N, F) ==
    /\ d.state = c.state /\ d.es = c.es /\ d.chain = c.chain
    /\ d.given = c.given /\ d.erasing = c.erasing
    /\ Q \in R .. N /\ Q <= R + c.rcvWnd
    /\ Run(d.recv, R)
    /\ d.gotFin \in BOOLEAN
    /\ Q = R + Len(d.recv) + One(d.gotFin)
    /\ d.recv # <<>> => R + Len(d.recv) <= S + 1
    /\ d.gotFin => F /\ Q = N

(* What the server takes of a segment at R: m units from the one at skip, and *)
(* the FIN if all fits.                                                       *)
LEMMA TakenOk ==
    ASSUME NEW c, NEW S, NEW N, NEW F, Hosts(S, N, F), Ok(c, Heard(N)),
           NEW R \in Int, NEW lo \in Int, R \in 1 .. N, Window(c, HostIss, R, lo),
           NEW data, Run(data, R), NEW fin \in BOOLEAN,
           NEW Q, Q = R + Len(data) + One(fin), Q \in R .. N, Q <= R + c.rcvWnd,
           data # <<>> => R + Len(data) <= S + 1,
           fin => F /\ Q = N
    PROVE  LET d == Taken(c, data, fin)
           IN  /\ Ok(d, Heard(N)) /\ Window(d, HostIss, Q, lo)
               /\ Took(c, d, R, Q, S, N, F)
<1> DEFINE n == Len(data) + One(fin)
           A == Heard(N)
           r == Plus(c.rcvNxt, n)
           w == c.rcvWnd - n
           x == [c EXCEPT !.rcvNxt = r, !.rcvWnd = w, !.recv = data, !.gotFin = fin]
           u == tcp_update_rcv_ann_wnd(x)
           d == tcp_ack(u)
<1>0. Wnd \in Nat /\ HostIss \in Int /\ Len(data) \in Nat /\ N \in Int
      /\ One(fin) \in Nat /\ n \in Nat /\ n \in Int
  <2>1. Wnd \in Nat /\ HostIss \in Int
    BY Sizes DEF Num
  <2>2. Len(data) \in Nat
    BY Zenon DEF Run, Sequence
  <2>3. N \in Int
    BY DEF Hosts, One
  <2>4. One(fin) \in Nat
    BY DEF One
  <2> HIDE DEF Hosts
  <2> QED
    BY <2>1, <2>2, <2>3, <2>4
<1>1. PICK e \in Int : /\ c.annEdge = Plus(HostIss, e) /\ lo <= e
                       /\ R + c.rcvWnd - Wnd <= e /\ e <= R + c.annWnd
  BY DEF Window
<1>2. /\ c.rcvWnd \in Nat /\ c.rcvWnd <= Wnd /\ c.annWnd \in Nat /\ c.annWnd <= c.rcvWnd
      /\ c.rcvNxt = Plus(HostIss, R)
  BY <1>0 DEF Window
<1>3. Q = R + n /\ Q \in Int /\ n <= c.rcvWnd /\ Q \in 1 .. N
  <2> HIDE DEF Hosts
  <2>1. R \in Int /\ Q \in Int
    BY <1>0
  <2> QED
    BY <1>0, <1>2, <2>1
<1>4. Taken(c, data, fin) = d
  BY DEF Taken, One, Ok, Pcb, Fields, Fresh
<1> HIDE DEF n
<1>5. r = Plus(HostIss, Q)
  <2>1. Sums(HostIss, R, n, Q)
    BY <1>0, <1>3, PlusSum
  <2> QED
    BY <1>2, <2>1 DEF Sums
<1>6. r \in A
  BY <1>3, <1>5 DEF Heard
<1> HIDE DEF r, w, A
<1>7. /\ Ok(x, A) /\ x.recv = data /\ x.gotFin = fin /\ x.rcvNxt = r /\ x.rcvWnd = w
      /\ x.annEdge = c.annEdge /\ x.state = c.state /\ x.es = c.es
      /\ x.chain = c.chain /\ x.given = c.given /\ x.erasing = c.erasing
  BY <1>6 DEF Ok, Pcb, Told, Fields, Fresh, A
<1> HIDE DEF x
<1>8. w \in Int /\ w \in 0 .. Wnd /\ Q + w = R + c.rcvWnd
  <2>1. n \in Int /\ n >= 0 /\ n <= c.rcvWnd /\ c.rcvWnd \in Int /\ Q = R + n
        /\ R \in Int /\ Q \in Int /\ c.rcvWnd <= Wnd /\ Wnd \in Int
    BY <1>0, <1>2, <1>3
  <2>2. w = c.rcvWnd - n
    BY DEF w
  <2>3. w \in Int
    BY <2>1, <2>2
  <2>4. w >= 0 /\ w <= Wnd
    BY <2>1, <2>2
  <2>5. Q + w = R + c.rcvWnd
    BY <2>1, <2>2
  <2> QED
    BY <2>1, <2>3, <2>4, <2>5
<1>9. Loose(x, HostIss, Q, lo, e)
  <2>1. Q - Wnd <= e /\ e <= Q + w /\ Q + w - Wnd <= e
    <3>1. /\ n \in Int /\ n >= 0 /\ n <= c.rcvWnd /\ c.rcvWnd \in Int /\ Q = R + n
          /\ R \in Int /\ Q \in Int /\ Wnd \in Int /\ c.annWnd \in Int
          /\ c.annWnd <= c.rcvWnd
      BY <1>0, <1>2, <1>3
    <3>2. w \in Int /\ Q + w = R + c.rcvWnd
      BY <1>8
    <3>3. R + c.rcvWnd - Wnd <= e /\ e <= R + c.annWnd /\ e \in Int
      BY <1>1
    <3> DEFINE q == Q
               z == c.rcvWnd
    <3>4. /\ q \in Int /\ z \in Int /\ Wnd \in Int /\ e \in Int /\ w \in Int
          /\ q + w = R + z /\ q <= R + z /\ R <= q /\ R \in Int
          /\ R + z - Wnd <= e /\ e <= R + z
      BY <3>1, <3>2, <3>3
    <3> HIDE DEF q, z
    <3>5. q - Wnd <= e /\ e <= q + w /\ q + w - Wnd <= e
      BY <3>4
    <3> QED
      BY <3>5 DEF q
  <2> QED
    BY <1>1, <1>5, <1>7, <1>8, <2>1 DEF Loose
<1>10. /\ Ok(u, A) /\ Keeps(x, u) /\ Loose(u, HostIss, Q, lo, e)
       /\ u.rcvWnd = w /\ u.annWnd \in 0 .. w /\ e <= Q + u.annWnd
  BY <1>0, <1>3, <1>7, <1>9, UpdateOk
<1> HIDE DEF u
<1>11. Window(u, HostIss, Q, lo)
  <2>1. Q + w - Wnd <= e
    <3>1. /\ c.rcvWnd \in Int /\ R \in Int /\ Q \in Int /\ Wnd \in Int
      BY <1>0, <1>2, <1>3
    <3>2. w \in Int /\ Q + w = R + c.rcvWnd
      BY <1>8
    <3>3. R + c.rcvWnd - Wnd <= e /\ e \in Int
      BY <1>1
    <3> QED
      BY <3>1, <3>2, <3>3
  <2> QED
    BY <1>1, <1>8, <1>10, <2>1 DEF Window, Loose
<1>12. Ok(d, A) /\ Sends(u, d)
  BY <1>10, AckOk
<1> HIDE DEF d
<1>13. Window(d, HostIss, Q, lo)
  BY <1>0, <1>3, <1>11, <1>12, SendsWindow
<1>14. Keeps(x, d)
  BY <1>10, <1>12, SendsKeeps, KeepsKeeps
<1>15. Took(c, d, R, Q, S, N, F)
  BY <1>7, <1>14 DEF Took, Keeps
<1> QED
  BY <1>4, <1>12, <1>13, <1>15 DEF A

(* The numbers of a host lie so close together that TCP_SEQ_LEQ orders them.  *)
LEMMA Ordered ==
    ASSUME NEW m \in Int, NEW n \in Int, m - n < Half, n - m < Half
    PROVE  /\ TCP_SEQ_LEQ(Plus(HostIss, m), Plus(HostIss, n)) <=> m <= n
           /\ Plus(HostIss, m) = Plus(HostIss, n) => m = n
<1>0. HostIss \in Int /\ Half \in Nat /\ n - m <= Half /\ m - n <= Half
  BY Sizes DEF Num
<1>1. TCP_SEQ_LEQ(Plus(HostIss, m), Plus(HostIss, n)) <=> m <= n
  BY <1>0, Order
<1>2. TCP_SEQ_LEQ(Plus(HostIss, n), Plus(HostIss, m)) <=> n <= m
  BY <1>0, Order
<1>3. ASSUME Plus(HostIss, m) = Plus(HostIss, n) PROVE m = n
  <2>1. TCP_SEQ_LEQ(Plus(HostIss, m), Plus(HostIss, n))
        /\ TCP_SEQ_LEQ(Plus(HostIss, n), Plus(HostIss, m))
    BY <1>3, Zenon DEF TCP_SEQ_LEQ
  <2> QED
    BY <1>1, <1>2, <2>1
<1> QED
  BY <1>1, <1>3

(* Of a segment that begins at s and ends before t: how much has been taken.  *)
Skip(c, seg) ==
    IF TCP_SEQ_BETWEEN(c.rcvNxt, Plus(seg.seq, 1), Plus(seg.seq, TCP_TCPLEN(seg) - 1))
    THEN Diff(c.rcvNxt, seg.seq) ELSE 0
Fin(seg) == "FIN" \in seg.flags
(* How much of a segment tcp_receive skips, as its numbers lie: what has been *)
(* taken, if the segment reaches further.                                     *)
LEMMA SkipIs ==
    ASSUME NEW c, NEW seg, NEW S, NEW N, NEW F, NEW s, Hosts(S, N, F),
           Carries(seg, s, S, N, F),
           NEW R \in Int, R \in 1 .. N, c.rcvNxt = Plus(HostIss, R)
    PROVE  /\ TCP_TCPLEN(seg) = Len(seg.data) + One(Fin(seg))
           /\ TCP_TCPLEN(seg) \in Nat /\ s + TCP_TCPLEN(seg) <= N
           /\ Skip(c, seg) = IF R \in s + 1 .. s + TCP_TCPLEN(seg) - 1 THEN R - s ELSE 0
<1> DEFINE len == TCP_TCPLEN(seg)
<1>0. /\ Half \in Nat /\ HostIss \in Int /\ Word \in Nat /\ Half < Word
  BY Sizes DEF Num
<1>1. S \in Nat /\ N \in Int /\ N < Half /\ S + 1 <= N
  BY DEF Hosts, One
<1>2. s \in Int /\ s >= 1 /\ s <= N /\ R >= 1 /\ R <= N
  BY <1>1 DEF Carries
<1>3. Len(seg.data) \in Nat
  BY Zenon DEF Carries, Run, Sequence
<1>4. len = Len(seg.data) + One(Fin(seg))
  <2>1. seg.flags \cap {"SYN", "FIN"} # {} <=> "FIN" \in seg.flags
    BY DEF Carries
  <2> QED
    BY <2>1 DEF TCP_TCPLEN, One, Fin
<1> HIDE DEF len
<1>5. len \in Nat
  <2>1. One(Fin(seg)) \in Nat
    BY DEF One
  <2> QED
    BY <1>3, <1>4, <2>1
<1>6. s + len <= N
  <2>1. CASE Fin(seg)
    <3>1. s + Len(seg.data) + 1 = N
      BY <2>1 DEF Carries, Fin
    <3> QED
      BY <1>2, <1>3, <1>4, <2>1, <3>1 DEF One
  <2>2. CASE ~Fin(seg)
    <3>1. len = Len(seg.data)
      BY <1>3, <1>4, <2>2 DEF One
    <3>2. CASE seg.data = <<>>
      BY <1>2, <3>1, <3>2
    <3>3. CASE seg.data # <<>>
      <4>1. s + Len(seg.data) <= S + 1
        BY <3>3 DEF Carries
      <4> QED
        BY <1>1, <1>2, <1>3, <3>1, <4>1
    <3> QED
      BY <3>2, <3>3
  <2> QED
    BY <2>1, <2>2
<1> DEFINE a == s + 1
           l == len - 1
           z == s + l
<1>7. Plus(seg.seq, 1) = Plus(HostIss, a) /\ Plus(seg.seq, l) = Plus(HostIss, z)
  <2>1. /\ a \in Int /\ a = s + 1 /\ z \in Int /\ z = s + l /\ l \in Int /\ 1 \in Int
    BY <1>2, <1>5
  <2> HIDE DEF a, l, z
  <2>2. Sums(HostIss, s, 1, a) /\ Sums(HostIss, s, l, z)
    BY <1>0, <1>2, <2>1, PlusSum
  <2> QED
    BY <2>2 DEF Sums, Carries
<1>8. TCP_SEQ_BETWEEN(c.rcvNxt, Plus(seg.seq, 1), Plus(seg.seq, l))
        <=> a <= R /\ R <= z
  <2>1. /\ a \in Int /\ z \in Int /\ a - R < Half /\ R - a < Half
        /\ z - R < Half /\ R - z < Half
    BY <1>0, <1>1, <1>2, <1>5, <1>6
  <2> HIDE DEF a, l, z
  <2>2. TCP_SEQ_LEQ(Plus(HostIss, a), Plus(HostIss, R)) <=> a <= R
    BY <2>1, Ordered
  <2>3. TCP_SEQ_LEQ(Plus(HostIss, R), Plus(HostIss, z)) <=> R <= z
    BY <2>1, Ordered
  <2> QED
    BY <1>7, <2>2, <2>3, Zenon DEF TCP_SEQ_BETWEEN
<1>9. a <= R => Diff(c.rcvNxt, seg.seq) = R - s
  <2> SUFFICES ASSUME a <= R PROVE Diff(c.rcvNxt, seg.seq) = R - s
    OBVIOUS
  <2>1. R - s \in Num
    BY <1>0, <1>1, <1>2 DEF Num
  <2>2. Diff(Plus(HostIss, R), Plus(HostIss, s)) = R - s
    BY <1>0, <1>2, <2>1, Distance
  <2> QED
    BY <2>2 DEF Carries
<1>10. a <= R /\ R <= z <=> R \in s + 1 .. s + len - 1
  BY <1>2, <1>5
<1>11. Skip(c, seg) = IF R \in s + 1 .. s + len - 1 THEN R - s ELSE 0
  <2>1. Skip(c, seg) = IF a <= R /\ R <= z THEN Diff(c.rcvNxt, seg.seq) ELSE 0
    <3> HIDE DEF a, z
    <3> QED
      BY <1>8, Zenon DEF Skip, len
  <2> HIDE DEF a, z
  <2> QED
    BY <1>9, <1>10, <2>1, Zenon
<1> QED
  BY <1>4, <1>5, <1>6, <1>11 DEF len

(* The window's far edge is not behind what comes next unless it is shut.     *)
LEMMA OpenWindow ==
    ASSUME NEW c, NEW R \in Int, c.rcvNxt = Plus(HostIss, R), c.rcvWnd \in 0 .. Wnd,
           InWindow(c, c.rcvNxt)
    PROVE  c.rcvWnd >= 1
<1>0. Half \in Nat /\ HostIss \in Int /\ Wnd \in Nat /\ 2 * Wnd < Half /\ Wnd > 0
  BY Sizes DEF Num
<1> DEFINE w == c.rcvWnd
           m == R + w
           z == m - 1
           o == -1
<1>1. w \in Int /\ w >= 0 /\ w <= Wnd /\ m \in Int /\ z \in Int /\ o \in Int
      /\ m = R + w /\ z = m + o
  BY <1>0
<1>2. R - z < Half /\ z - R < Half
  BY <1>0, <1>1
<1> HIDE DEF m, z, o
<1>3. Sums(HostIss, R, w, m) /\ Sums(HostIss, m, o, z)
  BY <1>0, <1>1, PlusSum
<1>4. Plus(RightEdge(c), o) = Plus(HostIss, z)
  BY <1>3 DEF Sums, RightEdge
<1>5. TCP_SEQ_LEQ(Plus(HostIss, R), Plus(HostIss, z))
  BY <1>4, Zenon DEF InWindow, TCP_SEQ_BETWEEN, o
<1>6. R <= z
  BY <1>1, <1>2, <1>5, Ordered
<1> QED
  BY <1>1, <1>6 DEF o

(* tcp_receive takes of a segment exactly what is next in the host's stream   *)
(* and fits into the window, with the FIN if nothing is left over.            *)
LEMMA TakeDataOk ==
    ASSUME NEW c, NEW S, NEW N, NEW F, Hosts(S, N, F), Ok(c, Heard(N)),
           NEW R \in Int, NEW lo \in Int, R \in 1 .. N, Window(c, HostIss, R, lo),
           NEW seg, NEW s, Carries(seg, s, S, N, F),
           c.recv = <<>>, c.gotFin = FALSE
    PROVE  \E Q \in Int : LET d == TakeData(c, seg)
                          IN  /\ Ok(d, Heard(N)) /\ Window(d, HostIss, Q, lo)
                              /\ Took(c, d, R, Q, S, N, F)
<1> DEFINE len == TCP_TCPLEN(seg)
           skip == Skip(c, seg)
           seq == Plus(seg.seq, skip)
           over == len - skip > c.rcvWnd
           upto == IF over THEN skip + c.rcvWnd ELSE Len(seg.data)
           data == SubSeq(seg.data, skip + 1, upto)
           fin == "FIN" \in seg.flags /\ ~over
           ack == c.ackNow \/ len > 0 \/ ~InWindow(c, seq)
           d == TakeData(c, seg)
<1>0. Wnd \in Nat /\ HostIss \in Int /\ Half \in Nat /\ N \in Int
  BY Sizes DEF Num, Hosts, One
<1>1. /\ len = Len(seg.data) + One(Fin(seg))
      /\ len \in Nat /\ s + len <= N
      /\ skip = IF R \in s + 1 .. s + len - 1 THEN R - s ELSE 0
  <2>1. c.rcvNxt = Plus(HostIss, R)
    BY DEF Window
  <2> QED
    BY <2>1, SkipIs
<1>2. /\ c.rcvWnd \in Int /\ c.rcvWnd >= 0 /\ c.rcvWnd <= Wnd
      /\ c.rcvNxt = Plus(HostIss, R)
  BY <1>0 DEF Window
<1>3. s \in Int /\ s >= 1 /\ s <= N /\ R >= 1 /\ R <= N /\ N < Half
  BY <1>0 DEF Hosts, Carries
<1>4. Len(seg.data) \in Nat /\ Sequence(seg.data)
  BY Zenon DEF Carries, Run, Sequence
<1>5. TakeData(c, seg) = IF len > 0 /\ InWindow(c, seq) /\ seq = c.rcvNxt THEN Taken(c, data, fin)
        ELSE [c EXCEPT !.ackNow = @ \/ len > 0 \/ ~InWindow(c, seq)]
  BY Zenon DEF TakeData, Skip
<1>6. CASE len > 0 /\ InWindow(c, seq) /\ seq = c.rcvNxt
  <2> HIDE DEF skip, len
  <2>1. skip \in Nat /\ skip <= len - 1 /\ s + skip = R
    <3> DEFINE t == s + skip
    <3>1. skip \in Int /\ skip >= 0 /\ t \in Int /\ t = s + skip /\ t >= s /\ t <= N
      BY <1>1, <1>3
    <3>2. t - R < Half /\ R - t < Half
      BY <1>0, <1>3, <3>1
    <3> HIDE DEF t
    <3>3. Sums(HostIss, s, skip, t)
      BY <1>0, <1>3, <3>1, PlusSum
    <3>4. Plus(HostIss, t) = Plus(HostIss, R)
      BY <1>2, <1>6, <3>3 DEF Sums, Carries
    <3>5. t = R
      BY <3>1, <3>2, <3>4, Ordered
    <3> QED
      BY <1>1, <1>3, <1>6, <3>1, <3>5
  <2>2. c.rcvWnd >= 1
    <3>1. c.rcvWnd \in 0 .. Wnd /\ InWindow(c, c.rcvNxt)
      BY <1>6 DEF Window
    <3> QED
      BY <1>2, <3>1, OpenWindow
  <2>3. Fin(seg) \in BOOLEAN /\ One(Fin(seg)) \in 0 .. 1
    BY DEF Fin, One
  <2>4. upto \in Nat /\ skip <= upto /\ upto <= Len(seg.data)
    BY <1>1, <1>2, <1>4, <2>1, <2>2, <2>3
  <2> DEFINE m == upto - skip
  <2>5. Sequence(data) /\ Len(data) = m /\ \A i \in 1 .. m : data[i] = seg.data[skip + i]
    <3> HIDE DEF upto
    <3> QED
      BY <1>4, <2>1, <2>4, SubOf
  <2>6. fin \in BOOLEAN /\ One(fin) \in 0 .. 1
    BY DEF One
  <2> DEFINE Q == R + m + One(fin)
  <2>7. Q \in Int /\ Q <= R + c.rcvWnd /\ Q >= R /\ Q <= N
    <3> DEFINE f == One(fin)
               g == One(Fin(seg))
               l == Len(seg.data)
    <3>0. m \in Int /\ f \in 0 .. 1 /\ g \in 0 .. 1 /\ skip \in Int /\ l \in Nat
          /\ len = l + g
      BY <1>1, <1>4, <2>1, <2>3, <2>4, <2>6
    <3>1. CASE over
      <4>1. m = c.rcvWnd /\ ~fin
        BY <1>2, <2>1, <3>1
      <4>2. f = 0 /\ len - skip > c.rcvWnd
        BY <3>1, <4>1 DEF One
      <4> HIDE DEF m, f, g, l
      <4>3. Q = R + c.rcvWnd
        BY <1>2, <1>3, <3>0, <4>1, <4>2 DEF f
      <4> HIDE DEF Q
      <4> DEFINE w == c.rcvWnd
      <4>4. w \in Int /\ w >= 0 /\ Q = R + w /\ len - skip > w
        BY <1>2, <4>2, <4>3
      <4>5. R \in Int /\ s + skip = R /\ s + len <= N /\ s \in Int /\ len \in Int
            /\ skip \in Int /\ N \in Int
        BY <1>0, <1>1, <1>3, <2>1
      <4> HIDE DEF w
      <4>6. Q \in Int /\ Q <= R + w /\ Q >= R /\ Q <= N
        BY <4>4, <4>5
      <4> QED
        BY <4>6 DEF w
    <3>2. CASE ~over
      <4>1. m = l - skip /\ (fin <=> Fin(seg))
        BY <1>4, <2>1, <3>2 DEF Fin
      <4>2. f = g /\ ~(len - skip > c.rcvWnd)
        BY <3>2, <4>1 DEF One
      <4> HIDE DEF m, f, g, l
      <4>3. Q = s + len
        BY <1>1, <1>3, <2>1, <3>0, <4>1, <4>2 DEF f
      <4> HIDE DEF Q
      <4> DEFINE w == c.rcvWnd
      <4>4. w \in Int /\ w >= 0 /\ s \in Int /\ skip \in Int /\ len \in Int
            /\ R \in Int /\ N \in Int
        BY <1>0, <1>1, <1>2, <1>3, <2>1, <3>0
      <4>5. Q = s + len /\ s + skip = R /\ s + len <= N /\ skip <= len /\ len - skip <= w
        BY <1>1, <1>3, <2>1, <2>2, <4>2, <4>3, <4>4
      <4> HIDE DEF w
      <4>6. Q \in Int /\ Q <= R + w /\ Q >= R /\ Q <= N
        BY <4>4, <4>5
      <4> QED
        BY <4>6 DEF w
    <3> QED
      BY <3>1, <3>2
  <2>8. Run(data, R)
    <3>1. ASSUME NEW i \in 1 .. m PROVE data[i] = R + i - 1
      <4> DEFINE j == skip + i
      <4>1. j \in 1 .. Len(seg.data) /\ s + j - 1 = R + i - 1
        BY <1>3, <1>4, <2>1, <2>4
      <4>2. data[i] = seg.data[j]
        BY <2>5
      <4> HIDE DEF j, data
      <4>3. seg.data[j] = s + j - 1
        BY <4>1 DEF Carries, Run
      <4> QED
        BY <4>1, <4>2, <4>3
    <3> HIDE DEF data, m
    <3> QED
      BY <2>5, <3>1 DEF Run
  <2>9. data # <<>> => R + Len(data) <= S + 1
    <3> SUFFICES ASSUME data # <<>> PROVE R + Len(data) <= S + 1
      OBVIOUS
    <3>1. Len(data) # 0
      <4> HIDE DEF data
      <4> QED
        BY <2>5, NotEmpty
    <3>2. Len(seg.data) # 0
      BY <1>4, <2>1, <2>4, <2>5, <3>1
    <3>3. seg.data # <<>>
      BY <3>2, Nothing
    <3>4. s + Len(seg.data) <= S + 1 /\ S \in Nat
      BY <3>3 DEF Carries, Hosts
    <3>5. R + m <= s + Len(seg.data)
      BY <1>3, <1>4, <2>1, <2>4
    <3>6. m \in Int
      BY <2>1, <2>4
    <3>7. Len(data) = m
      BY <2>5
    <3> DEFINE l == Len(data)
    <3> HIDE DEF m, data, l
    <3>8. l = m
      BY <3>7 DEF l
    <3>9. R + l <= S + 1
      BY <1>3, <1>4, <3>4, <3>5, <3>6, <3>8
    <3> QED
      BY <3>9 DEF l
  <2>10. fin => F /\ Q = N
    <3> SUFFICES ASSUME fin PROVE F /\ Q = N
      OBVIOUS
    <3>1. F /\ s + Len(seg.data) + 1 = N
      BY DEF Carries
    <3>2. One(fin) = 1 /\ m = Len(seg.data) - skip
      BY <1>4, <2>1 DEF One
    <3> QED
      BY <1>3, <1>4, <2>1, <3>1, <3>2
  <2> HIDE DEF data, fin, m
  <2>11. /\ Q = R + Len(data) + One(fin) /\ Q \in R .. N
    BY <1>0, <1>3, <2>5, <2>7
  <2> HIDE DEF Q
  <2>12. LET t == Taken(c, data, fin)
         IN  /\ Ok(t, Heard(N)) /\ Window(t, HostIss, Q, lo)
             /\ Took(c, t, R, Q, S, N, F)
    BY <2>6, <2>7, <2>8, <2>9, <2>10, <2>11, TakenOk
  <2>13. TakeData(c, seg) = Taken(c, data, fin)
    BY <1>5, <1>6, Zenon DEF data, fin, len, skip
  <2> QED
    BY <2>7, <2>12, <2>13, Zenon
<1>7. CASE ~(len > 0 /\ InWindow(c, seq) /\ seq = c.rcvNxt)
  <2> DEFINE e == [c EXCEPT !.ackNow = ack]
  <2>1. TakeData(c, seg) = e
    BY <1>5, <1>7 DEF Ok, Pcb, Fields, Fresh
  <2> HIDE DEF ack
  <2>2. /\ Ok(e, Heard(N)) /\ Sends(c, e)
    BY DEF Ok, Pcb, Told, Fields, Fresh, Sends, Same, Edge
  <2> HIDE DEF e
  <2>3. Window(e, HostIss, R, lo)
    BY <1>0, <2>2, SendsWindow
  <2>4. e.recv = <<>> /\ e.gotFin = FALSE
    BY <2>2 DEF Sends, Same
  <2>5. Run(e.recv, R)
    <3>1. Sequence(<<>>) /\ Len(<<>>) = 0
      BY Nothing
    <3> QED
      BY <2>4, <3>1 DEF Run
  <2>6. R = R + Len(e.recv) + One(e.gotFin)
    <3>1. Len(e.recv) = 0 /\ One(e.gotFin) = 0
      BY <2>4, Nothing DEF One
    <3> QED
      BY <3>1
  <2>7. R \in R .. N /\ R <= R + c.rcvWnd
    BY <1>0, <1>2, <1>3
  <2>8. Took(c, e, R, R, S, N, F)
    BY <2>2, <2>4, <2>5, <2>6, <2>7 DEF Took, Sends, Same
  <2> QED
    BY <2>1, <2>2, <2>3, <2>8, Zenon
<1> QED
  BY <1>6, <1>7

-----------------------------------------------------------------------------
(* The callbacks.                                                             *)

Fine(c, A, k, lo) ==
    Ok(c, A) /\ Window(c, HostIss, k, lo) /\ c.chain \in Seq(Nat)
Handles(c, d) ==
    /\ d.state = c.state /\ d.rcvNxt = c.rcvNxt /\ d.recv = c.recv
    /\ d.gotFin = c.gotFin /\ d.es = c.es /\ d.given = c.given

(* What keeps the receiver's fields keeps the stream's.                       *)
LEMMA KeepsHandles ==
    ASSUME NEW c, NEW d, Keeps(c, d) PROVE Handles(c, d)
BY DEF Keeps, Handles

(* Two calls that keep the stream's fields keep them together.                *)
LEMMA HandlesHandles ==
    ASSUME NEW c, NEW d, NEW e, Handles(c, d), Handles(d, e) PROVE Handles(c, e)
BY DEF Handles

(* A call that only sends leaves the pcb sound and its window right.          *)
LEMMA SendsFine ==
    ASSUME NEW c, NEW A, NEW k \in Int, NEW lo \in Int, Fine(c, A, k, lo),
           NEW d, Ok(d, A), Sends(c, d)
    PROVE  Fine(d, A, k, lo) /\ Keeps(c, d)
<1>1. HostIss \in Int
  BY Sizes DEF Num
<1>2. Window(d, HostIss, k, lo)
  BY <1>1, SendsWindow DEF Fine
<1>3. Keeps(c, d)
  BY SendsKeeps
<1>4. d.chain \in Seq(Nat)
  BY <1>3 DEF Keeps, Fine
<1> QED
  BY <1>2, <1>3, <1>4 DEF Fine

(* Nothing but fields outside Ok and Window.                                  *)
Beside(c, d) ==
    /\ DOMAIN d = DOMAIN c /\ d.unsent = c.unsent /\ d.unacked = c.unacked
    /\ d.out = c.out /\ d.rcvNxt = c.rcvNxt /\ d.rcvWnd = c.rcvWnd
    /\ d.annWnd = c.annWnd /\ d.annEdge = c.annEdge
(* So does one that touches nothing of either.                                *)
LEMMA BesideFine ==
    ASSUME NEW c, NEW A, NEW k, NEW lo, Fine(c, A, k, lo),
           NEW d, Beside(c, d), d.chain \in Seq(Nat)
    PROVE  Fine(d, A, k, lo)
BY DEF Beside, Fine, Ok, Pcb, Told, Window

(* So does tcp_recved for one pbuf after the other.                           *)
LEMMA RecvedAll ==
    ASSUME NEW c, NEW A, NEW k \in Int, NEW lo \in Int, Fine(c, A, k, lo),
           NEW lens \in Seq(Nat)
    PROVE  LET d == FoldLeft(tcp_recved, c, lens)
           IN  Fine(d, A, k, lo) /\ Keeps(c, d)
<1> DEFINE n == Len(lens)
<1>1. n \in Nat /\ DOMAIN lens = 1 .. n /\ \A i \in 1 .. n : lens[i] \in Nat
  OBVIOUS
<1> HIDE DEF n
<1>2. PICK h : /\ Row("recved", c, lens, n, h)
               /\ FoldLeft(tcp_recved, c, lens) = h[n]
  BY <1>1, RecvedInTurn
<1> DEFINE G == {j \in Nat : j <= n => Fine(h[j], A, k, lo) /\ Keeps(c, h[j])}
<1>3. 0 \in G
  <2>1. h[0] = c /\ Keeps(c, c)
    BY <1>2 DEF Row, Keeps
  <2> QED
    BY <2>1
<1>4. ASSUME NEW j \in Nat, j \in G PROVE j + 1 \in G
  <2> SUFFICES ASSUME j + 1 <= n
               PROVE  Fine(h[j + 1], A, k, lo) /\ Keeps(c, h[j + 1])
    OBVIOUS
  <2> DEFINE i == j + 1
             x == h[i - 1]
             y == tcp_recved(x, lens[i])
  <2>1. i \in 1 .. n /\ i - 1 = j /\ j <= n
    BY <1>1
  <2>2. Fine(x, A, k, lo) /\ Keeps(c, x)
    BY <1>4, <2>1
  <2>3. h[i] = Turn("recved", x, lens[i]) /\ lens[i] \in Nat
    BY <1>1, <1>2, <2>1 DEF Row
  <2> HIDE DEF i, x
  <2>5. h[i] = y
    BY <2>3, Zenon DEF Turn
  <2>6. Ok(y, A) /\ Keeps(x, y) /\ Window(y, HostIss, k, lo)
    <3>1. HostIss \in Int
      BY Sizes DEF Num
    <3> QED
      BY <2>2, <2>3, <3>1, RecvedOk DEF Fine
  <2> HIDE DEF y
  <2>7. Fine(y, A, k, lo) /\ Keeps(c, y)
    <3>1. y.chain \in Seq(Nat)
      BY <2>2, <2>6 DEF Fine, Keeps
    <3> QED
      BY <2>2, <2>6, <3>1, KeepsKeeps DEF Fine
  <2> QED
    BY <2>5, <2>7 DEF i
<1> HIDE DEF G
<1>5. n \in G
  BY <1>1, <1>3, <1>4, Induct
<1> QED
  BY <1>1, <1>2, <1>5 DEF G

(* So does tcp_server_deal, whatever is answered.                             *)
LEMMA DealOk ==
    ASSUME NEW c, NEW A, NEW k \in Int, NEW lo \in Int, Fine(c, A, k, lo),
           NEW a \in Replies
    PROVE  LET d == tcp_server_deal(c, a)
           IN  Fine(d, A, k, lo) /\ Handles(c, d)
<1> DEFINE m == Len(c.chain)
           T == {i \in Nat : c.chain[i] <= c.sndBuf}
           n == Leading(c.chain, LAMBDA len : len <= c.sndBuf)
           d == FoldLeft(tcp_recved, c, SubSeq(c.chain, 1, n))
           rest == SubSeq(d.chain, n + 1, Len(d.chain))
           e == [d EXCEPT !.chain = rest, !.ackNow = TRUE]
           f == [e EXCEPT !.erasing = TRUE]
           g == tcp_write(e, a)
<1>0. m \in Nat /\ c.chain \in Seq(Nat)
  BY DEF Fine
<1>1. \E i \in 0 .. m : /\ \A j \in 1 .. i : j \in T
                        /\ i < m => i + 1 \notin T
  <2> HIDE DEF T, m
  <2> QED
    BY <1>0, Prefix
<1>2. \E i \in 0 .. m : /\ \A j \in 1 .. i : c.chain[j] <= c.sndBuf
                        /\ i < m => ~(c.chain[i + 1] <= c.sndBuf)
  BY <1>0, <1>1
<1>3. n \in 0 .. Len(c.chain)
  BY <1>2, Zenon DEF Leading
<1>4. tcp_server_deal(c, a) = 
        IF n = 0 THEN [d EXCEPT !.chain = SubSeq(@, n + 1, Len(@)), !.ackNow = TRUE]
        ELSE IF a = Erase
        THEN [[d EXCEPT !.chain = SubSeq(@, n + 1, Len(@)), !.ackNow = TRUE]
                 EXCEPT !.erasing = TRUE]
        ELSE tcp_write([d EXCEPT !.chain = SubSeq(@, n + 1, Len(@)), !.ackNow = TRUE], a)
  BY Zenon DEF tcp_server_deal
<1> HIDE DEF n
<1>5. SubSeq(c.chain, 1, n) \in Seq(Nat)
  BY <1>0, <1>3
<1>6. Fine(d, A, k, lo) /\ Keeps(c, d)
  BY <1>5, RecvedAll
<1> HIDE DEF d
<1>7. rest \in Seq(Nat)
  <2>1. d.chain = c.chain
    BY <1>6 DEF Keeps
  <2>2. SubSeq(c.chain, n + 1, Len(c.chain)) \in Seq(Nat)
    BY <1>0, <1>3
  <2> QED
    BY <2>1, <2>2
<1>8. [d EXCEPT !.chain = SubSeq(@, n + 1, Len(@)), !.ackNow = TRUE] = e
  BY <1>6 DEF Fine, Ok, Pcb, Fields, Fresh
<1> HIDE DEF rest
<1>9. Beside(d, e) /\ Handles(d, e) /\ e.chain = rest
  BY <1>6 DEF Fine, Ok, Pcb, Fields, Fresh, Beside, Handles
<1> HIDE DEF e
<1>10. Fine(e, A, k, lo) /\ Handles(c, e)
  BY <1>6, <1>7, <1>9, BesideFine, KeepsHandles, HandlesHandles
<1>11. Fine(f, A, k, lo) /\ Handles(c, f)
  <2>1. Beside(e, f) /\ Handles(e, f) /\ f.chain = rest
    BY <1>9, <1>10 DEF Fine, Ok, Pcb, Fields, Fresh, Beside, Handles
  <2> HIDE DEF f
  <2> QED
    BY <1>7, <1>10, <2>1, BesideFine, HandlesHandles
<1>12. ASSUME a # Erase PROVE Fine(g, A, k, lo) /\ Handles(c, g)
  <2>1. a \in Nat
    BY <1>12, LwipTcpAssumption DEF Replies
  <2>2. Ok(g, A) /\ Sends(e, g)
    BY <1>10, <2>1, WriteOk DEF Fine
  <2> HIDE DEF g
  <2> QED
    BY <1>10, <2>2, SendsFine, KeepsHandles, HandlesHandles
<1> HIDE DEF f, g
<1>13. tcp_server_deal(c, a) = IF n = 0 THEN e ELSE IF a = Erase THEN f ELSE g
  BY <1>4, <1>8, Zenon DEF f, g
<1> QED
  BY <1>10, <1>11, <1>12, <1>13

Live == {"SYN_RCVD", "ESTABLISHED", "CLOSE_WAIT", "LAST_ACK"}
Leaving == {"CLOSE_WAIT", "LAST_ACK"}

Stream(c, Q, S, N, F) ==
    /\ Run(c.given, 1) /\ Len(c.given) <= S /\ Q \in 1 .. N
    /\ c.es \in {"none", "open", "closing"} /\ c.state \in Live
    /\ c.es = "open" => Q = Len(c.given) + 1
    /\ c.state = "SYN_RCVD" => c.given = <<>> /\ c.es = "none" /\ Q = 1
    /\ c.state = "ESTABLISHED" => c.es = "open"
    /\ c.state \in Leaving => c.es # "open" /\ Q = N /\ F

(* After the receive callback, before that for the FIN.                       *)
After(c, Q, S, N, F) ==
    /\ Run(c.given, 1) /\ Len(c.given) <= S /\ Q \in 1 .. N
    /\ c.es \in {"none", "open", "closing"} /\ c.state \in Live
    /\ c.gotFin \in BOOLEAN
    /\ c.gotFin => c.es = "open" /\ F /\ Q = N
    /\ c.es = "open" => Q = Len(c.given) + 1 + One(c.gotFin)
    /\ c.state = "SYN_RCVD" => c.given = <<>> /\ c.es = "none" /\ Q = 1
    /\ c.state = "ESTABLISHED" => c.es = "open" /\ ~c.gotFin
    /\ c.state \in Leaving => (c.es = "open" => c.gotFin) /\ Q = N /\ F

(* Before both: R comes next, and Q once what has arrived is counted.         *)
Mid(c, R, Q, S, N, F) ==
    /\ Run(c.given, 1) /\ Len(c.given) <= S /\ Q \in 1 .. N
    /\ c.es \in {"none", "open", "closing"} /\ c.state \in Live
    /\ c.gotFin \in BOOLEAN
    /\ c.gotFin => c.es = "open" /\ F /\ Q = N
    /\ Run(c.recv, R) /\ Q = R + Len(c.recv) + One(c.gotFin)
    /\ c.recv # <<>> => c.es = "open" /\ R + Len(c.recv) <= S + 1
    /\ c.es = "open" => R = Len(c.given) + 1
    /\ c.state = "SYN_RCVD" => c.given = <<>> /\ c.es = "none" /\ Q = 1
    /\ c.state = "ESTABLISHED" => c.es = "open" /\ ~c.gotFin
    /\ c.state \in Leaving => (c.es = "open" => c.gotFin) /\ Q = N /\ F

Shuts(c, d) ==
    /\ d.rcvNxt = c.rcvNxt /\ d.recv = c.recv /\ d.gotFin = c.gotFin
    /\ d.given = c.given /\ d.es = "none"
    /\ \/ d.state = c.state
       \/ c.state = "CLOSE_WAIT" /\ d.state = "LAST_ACK"

(* So does tcp_close; it gives up the structure, and its state only goes from *)
(* CLOSE_WAIT to LAST_ACK.                                                    *)
LEMMA CloseOk ==
    ASSUME NEW c, NEW A, NEW k \in Int, NEW lo \in Int, Fine(c, A, k, lo)
    PROVE  Fine(tcp_close(c), A, k, lo) /\ Shuts(c, tcp_close(c))
<1> DEFINE d == [c EXCEPT !.es = "none"]
           e == tcp_enqueue(d, <<>>, {"FIN"})
           f == [e EXCEPT !.state = "LAST_ACK"]
           g == tcp_output(f)
<1>1. Beside(c, d) /\ d.chain = c.chain /\ Shuts(c, d) /\ d.state = c.state
  BY DEF Fine, Ok, Pcb, Fields, Fresh, Beside, Shuts
<1>2. tcp_close(c) \in {d, g} /\ (c.state # "CLOSE_WAIT" => tcp_close(c) = d)
  BY Zenon DEF tcp_close
<1> HIDE DEF d
<1>3. Fine(d, A, k, lo)
  BY <1>1, BesideFine DEF Fine
<1>4. Fine(e, A, k, lo) /\ Keeps(d, e)
  <2>1. Ok(e, A) /\ Sends(d, e)
    BY <1>3, Nothing, EnqueueOk DEF Fine
  <2> HIDE DEF e
  <2> QED
    BY <1>3, <2>1, SendsFine
<1> HIDE DEF e
<1>5. Fine(f, A, k, lo) /\ f.state = "LAST_ACK" /\ f.rcvNxt = e.rcvNxt /\ f.recv = e.recv
      /\ f.gotFin = e.gotFin /\ f.given = e.given /\ f.es = e.es
  <2>1. Beside(e, f) /\ f.chain = e.chain
    BY <1>4 DEF Fine, Ok, Pcb, Fields, Fresh, Beside
  <2>2. Fine(f, A, k, lo)
    <3> HIDE DEF f
    <3> QED
      BY <1>4, <2>1, BesideFine DEF Fine
  <2> QED
    BY <1>4, <2>2 DEF Fine, Ok, Pcb, Fields, Fresh
<1> HIDE DEF f
<1>6. Fine(g, A, k, lo) /\ Keeps(f, g)
  <2>1. Ok(g, A) /\ Sends(f, g)
    BY <1>5, OutputOk DEF Fine
  <2> HIDE DEF g
  <2> QED
    BY <1>5, <2>1, SendsFine
<1>7. c.state = "CLOSE_WAIT" => Shuts(c, g)
  BY <1>1, <1>4, <1>5, <1>6 DEF Keeps, Shuts
<1> QED
  BY <1>1, <1>2, <1>3, <1>6, <1>7

(* Mid is about the stream's fields alone.                                    *)
LEMMA HandlesMid ==
    ASSUME NEW c, NEW d, NEW R, NEW Q, NEW S, NEW N, NEW F, Mid(c, R, Q, S, N, F),
           Handles(c, d)
    PROVE  Mid(d, R, Q, S, N, F)
BY DEF Mid, Handles

(* So is Stream.                                                              *)
LEMMA HandlesStream ==
    ASSUME NEW c, NEW d, NEW Q, NEW S, NEW N, NEW F, Stream(c, Q, S, N, F),
           Handles(c, d)
    PROVE  Stream(d, Q, S, N, F)
BY DEF Stream, Handles

(* The sent and poll callbacks leave the pcb sound; they close a connection   *)
(* only after the FIN.                                                        *)
LEMMA SentOk ==
    ASSUME NEW c, NEW A, NEW k \in Int, NEW lo \in Int, Fine(c, A, k, lo),
           NEW a \in Replies
    PROVE  LET d == tcp_server_sent(c, a)
           IN  Fine(d, A, k, lo) /\ (Handles(c, d) \/ (c.es = "closing" /\ Shuts(c, d)))
<1>1. Handles(c, c)
  BY DEF Handles
<1>2. Fine(tcp_server_deal(c, a), A, k, lo) /\ Handles(c, tcp_server_deal(c, a))
  BY DealOk
<1>3. Fine(tcp_close(c), A, k, lo) /\ Shuts(c, tcp_close(c))
  BY CloseOk
<1> QED
  BY <1>1, <1>2, <1>3, Zenon DEF tcp_server_sent

(* They leave the stream where it is while a segment is processed.            *)
LEMMA SentMid ==
    ASSUME NEW c, NEW d, NEW R, NEW Q, NEW S, NEW N, NEW F, Mid(c, R, Q, S, N, F),
           Handles(c, d) \/ (c.es = "closing" /\ Shuts(c, d))
    PROVE  Mid(d, R, Q, S, N, F)
<1>1. CASE c.es = "closing" /\ Shuts(c, d)
  BY <1>1 DEF Mid, Shuts, Live, Leaving
<1> QED
  BY <1>1, HandlesMid

(* They leave it where it is otherwise.                                       *)
LEMMA SentStream ==
    ASSUME NEW c, NEW d, NEW Q, NEW S, NEW N, NEW F, Stream(c, Q, S, N, F),
           Handles(c, d) \/ (c.es = "closing" /\ Shuts(c, d))
    PROVE  Stream(d, Q, S, N, F)
<1>1. CASE c.es = "closing" /\ Shuts(c, d)
  BY <1>1 DEF Stream, Shuts, Live, Leaving
<1> QED
  BY <1>1, HandlesStream

(* When a segment has brought no data, nothing is to be given.                *)
LEMMA MidAfter ==
    ASSUME NEW c, NEW R \in Int, NEW Q, NEW S, NEW N, NEW F, Mid(c, R, Q, S, N, F),
           c.recv = <<>>
    PROVE  After(c, Q, S, N, F)
<1>1. Len(c.recv) = 0
  BY Nothing
<1>2. One(c.gotFin) \in Nat
  BY DEF One
<1>3. Q = R + One(c.gotFin)
  BY <1>1, <1>2 DEF Mid
<1>4. Len(c.given) \in Nat
  BY Zenon DEF Mid, Run, Sequence
<1>5. c.es = "open" => Q = Len(c.given) + 1 + One(c.gotFin)
  BY <1>2, <1>3, <1>4 DEF Mid
<1> QED
  BY <1>5, Zenon DEF Mid, After

(* tcp_server_receive gives the application what comes next, and all of it.   *)
LEMMA ReceiveOk ==
    ASSUME NEW c, NEW A, NEW k \in Int, NEW lo \in Int, Fine(c, A, k, lo),
           NEW b \in Replies, NEW R \in Int, NEW Q, NEW S \in Nat, NEW N, NEW F,
           Mid(c, R, Q, S, N, F), c.recv # <<>>
    PROVE  LET d == tcp_server_receive(c, c.recv, b)
           IN  /\ Fine(d, A, k, lo) /\ After(d, Q, S, N, F) /\ d.gotFin = c.gotFin
               /\ Len(d.given) > Len(c.given)
<1> DEFINE data == c.recv
           had == c.given
           more == had \o data
           chain == Append(c.chain, Len(data))
           d == [c EXCEPT !.given = more, !.chain = chain]
           e == tcp_server_deal(d, b)
<1>1. c.es = "open" /\ R + Len(data) <= S + 1 /\ Run(data, R) /\ Run(had, 1)
      /\ R = Len(had) + 1 /\ Q = R + Len(data) + One(c.gotFin)
  BY Zenon DEF Mid
<1>2. Len(data) \in Nat /\ Len(had) \in Nat /\ Sequence(data) /\ Sequence(had)
  BY <1>1, Zenon DEF Run, Sequence
<1>3. /\ Sequence(more) /\ Len(more) = Len(had) + Len(data)
      /\ \A i \in 1 .. Len(had) : more[i] = had[i]
      /\ \A i \in 1 .. Len(data) : more[Len(had) + i] = data[i]
  <2> HIDE DEF data, had
  <2> QED
    BY <1>2, Catenated
<1>4. chain \in Seq(Nat)
  BY <1>2 DEF Fine
<1>5. tcp_server_receive(c, c.recv, b) = IF c.chain = <<>> THEN e ELSE d
  <2>1. c.es # "none"
    BY <1>1
  <2>2. [c EXCEPT !.given = @ \o data, !.chain = Append(@, Len(data))] = d
    BY DEF Fine, Ok, Pcb, Fields, Fresh
  <2> QED
    BY <2>1, <2>2, Zenon DEF tcp_server_receive
<1> HIDE DEF more, chain
<1>6. Run(more, 1) /\ Len(more) <= S
  <2> HIDE DEF data, had
  <2>1. ASSUME NEW i \in 1 .. Len(more) PROVE more[i] = 1 + i - 1
    <3>1. CASE i <= Len(had)
      <4>1. i \in 1 .. Len(had)
        BY <1>2, <1>3, <3>1
      <4>2. had[i] = 1 + i - 1
        BY <1>1, <4>1 DEF Run
      <4> QED
        BY <1>3, <4>1, <4>2
    <3>2. CASE i > Len(had)
      <4> DEFINE j == i - Len(had)
      <4>1. j \in 1 .. Len(data) /\ i = Len(had) + j
        BY <1>2, <1>3, <3>2
      <4> HIDE DEF j
      <4>2. more[i] = data[j] /\ data[j] = R + j - 1
        BY <1>1, <1>3, <4>1 DEF Run
      <4> QED
        BY <1>1, <1>2, <4>1, <4>2
    <3> QED
      BY <1>2, <1>3, <3>1, <3>2
  <2>2. Len(more) <= S
    <3> DEFINE l == Len(more)
    <3>1. l = Len(had) + Len(data)
      BY <1>3
    <3> HIDE DEF l
    <3>2. l <= S
      BY <1>1, <1>2, <3>1
    <3> QED
      BY <3>2 DEF l
  <2> QED
    BY <1>3, <2>1, <2>2, Zenon DEF Run
<1>7. /\ Beside(c, d) /\ d.chain = chain /\ d.given = more /\ d.es = c.es
      /\ d.gotFin = c.gotFin /\ d.state = c.state
  BY DEF Fine, Ok, Pcb, Fields, Fresh, Beside
<1> HIDE DEF d, data
<1>8. Fine(d, A, k, lo)
  BY <1>4, <1>7, BesideFine
<1>9. After(d, Q, S, N, F)
  <2>1. Q = Len(more) + 1 + One(c.gotFin)
    <3>1. One(c.gotFin) \in Nat
      BY DEF One
    <3> QED
      BY <1>1, <1>2, <1>3, <3>1
  <2>2. c.state # "SYN_RCVD"
    BY <1>1 DEF Mid
  <2> QED
    BY <1>1, <1>6, <1>7, <2>1, <2>2, Zenon DEF Mid, After
<1>10. Fine(e, A, k, lo) /\ Handles(d, e)
  BY <1>8, DealOk
<1> HIDE DEF e
<1>11. After(e, Q, S, N, F) /\ e.gotFin = c.gotFin /\ e.given = more
  BY <1>7, <1>9, <1>10 DEF After, Handles
<1>12. Len(more) > Len(c.given)
  <2> DEFINE l == Len(more)
             m == Len(had)
             n == Len(c.recv)
  <2>1. n \in Nat /\ m \in Nat /\ n # 0 /\ l = m + n
    BY <1>2, <1>3, NotEmpty DEF data
  <2> HIDE DEF l, m, n
  <2>2. l > m
    BY <2>1
  <2> QED
    BY <2>2 DEF l, m
<1> QED
  BY <1>5, <1>7, <1>8, <1>9, <1>10, <1>11, <1>12, Zenon

(* tcp_server_receive_fin closes, now or when the pbufs have been dealt with, *)
(* and gives nothing.                                                         *)
LEMMA FinOk ==
    ASSUME NEW c, NEW A, NEW k \in Int, NEW lo \in Int, Fine(c, A, k, lo),
           NEW b \in Replies, NEW Q, NEW S, NEW N, NEW F,
           After(c, Q, S, N, F), c.gotFin
    PROVE  LET d == tcp_server_receive_fin(c, b)
           IN  Fine(d, A, k, lo) /\ Stream(d, Q, S, N, F) /\ d.given = c.given
<1> DEFINE d == [c EXCEPT !.es = "closing"]
           e == tcp_close(d)
           f == tcp_server_deal(d, b)
<1>1. /\ Beside(c, d) /\ d.chain = c.chain /\ d.given = c.given /\ d.es = "closing"
      /\ d.state = c.state
  BY DEF Fine, Ok, Pcb, Fields, Fresh, Beside
<1>2. c.es = "open" /\ c.state \in Leaving
  BY DEF After, Live, Leaving
<1>3. tcp_server_receive_fin(c, b) \in {e, f}
  BY <1>2 DEF tcp_server_receive_fin
<1> HIDE DEF d
<1>4. Fine(d, A, k, lo)
  BY <1>1, BesideFine DEF Fine
<1>5. Stream(d, Q, S, N, F)
  BY <1>1, <1>2 DEF After, Stream, Live, Leaving
<1>6. Fine(e, A, k, lo) /\ Shuts(d, e)
  BY <1>4, CloseOk
<1>7. Fine(f, A, k, lo) /\ Handles(d, f)
  BY <1>4, DealOk
<1> HIDE DEF e, f
<1>8. Stream(e, Q, S, N, F) /\ Stream(f, Q, S, N, F)
  BY <1>1, <1>5, <1>6, <1>7, SentStream
<1>9. e.given = c.given /\ f.given = c.given
  BY <1>1, <1>6, <1>7 DEF Shuts, Handles
<1> QED
  BY <1>3, <1>6, <1>7, <1>8, <1>9

(* When there was no FIN either, the connection is back where calls leave it. *)
LEMMA AfterStream ==
    ASSUME NEW c, NEW Q, NEW S, NEW N, NEW F, After(c, Q, S, N, F), ~c.gotFin
    PROVE  Stream(c, Q, S, N, F)
<1>1. One(c.gotFin) = 0
  BY DEF One
<1>2. Len(c.given) \in Nat
  BY Zenon DEF After, Run, Sequence
<1>3. c.es = "open" => Q = Len(c.given) + 1
  BY <1>1, <1>2 DEF After
<1> QED
  BY <1>3 DEF After, Stream

-----------------------------------------------------------------------------
(* tcp_input.                                                                 *)

Arrives(seg, S, N, F) ==
    \/ "RST" \in seg.flags /\ "SYN" \notin seg.flags
    \/ seg.flags = {"SYN"} /\ seg.seq = HostIss
    \/ \E s \in 1 .. N : Carries(seg, s, S, N, F)

(* Before a segment nothing is on its way to the application.                 *)
LEMMA StreamMid ==
    ASSUME NEW c, NEW R \in Int, NEW S, NEW N, NEW F, Stream(c, R, S, N, F),
           c.recv = <<>>, c.gotFin = FALSE
    PROVE  Mid(c, R, R, S, N, F)
<1>1. Len(c.recv) = 0 /\ One(c.gotFin) = 0 /\ Sequence(c.recv)
  BY Nothing DEF One
<1>2. R = R + Len(c.recv) + One(c.gotFin)
  BY <1>1
<1>3. Run(c.recv, R)
  BY <1>1 DEF Run
<1> QED
  BY <1>2, <1>3 DEF Stream, Mid

(* The acknowledgement of a segment does not move the receiver.               *)
LEMMA AcksFine ==
    ASSUME NEW c, NEW A, NEW k \in Int, NEW lo \in Int, Fine(c, A, k, lo), NEW seg
    PROVE  LET d == IF "ACK" \in seg.flags THEN Acknowledge(c, seg) ELSE c
           IN  Fine(d, A, k, lo) /\ Sends(c, d)
<1> DEFINE e == Acknowledge(c, seg)
<1>1. Ok(e, A) /\ Sends(c, e)
  BY AcknowledgeOk DEF Fine
<1>2. Sends(c, c)
  BY SendsSame
<1> HIDE DEF e
<1>3. Fine(e, A, k, lo)
  BY <1>1, SendsFine
<1> QED
  BY <1>1, <1>2, <1>3, Zenon DEF e

(* tcp_receive moves the receiver over what it takes.                         *)
LEMMA TcpReceiveOk ==
    ASSUME NEW c, NEW S, NEW N, NEW F, Hosts(S, N, F),
           NEW R \in Int, NEW lo \in Int, R \in 1 .. N, Fine(c, Heard(N), R, lo),
           NEW seg, NEW s, Carries(seg, s, S, N, F),
           c.recv = <<>>, c.gotFin = FALSE
    PROVE  \E Q \in Int : LET d == tcp_receive(c, seg)
                          IN  /\ Fine(d, Heard(N), Q, lo)
                              /\ Took(c, d, R, Q, S, N, F)
<1> DEFINE a == IF "ACK" \in seg.flags THEN Acknowledge(c, seg) ELSE c
           d == TakeData(a, seg)
<1>1. Fine(a, Heard(N), R, lo) /\ Sends(c, a)
  BY AcksFine
<1>2. tcp_receive(c, seg) = d
  BY Zenon DEF tcp_receive
<1> HIDE DEF a
<1>3. a.recv = <<>> /\ a.gotFin = FALSE
  BY <1>1 DEF Sends, Same
<1>4. PICK Q \in Int : /\ Ok(d, Heard(N)) /\ Window(d, HostIss, Q, lo)
                       /\ Took(a, d, R, Q, S, N, F)
  BY <1>1, <1>3, TakeDataOk DEF Fine
<1> HIDE DEF d
<1>5. Took(c, d, R, Q, S, N, F)
  BY <1>1, <1>4 DEF Took, Sends, Same
<1>6. d.chain \in Seq(Nat)
  BY <1>1, <1>4 DEF Took, Fine
<1>7. Fine(d, Heard(N), Q, lo)
  BY <1>4, <1>6 DEF Fine
<1> QED
  BY <1>2, <1>5, <1>7, Zenon

(* What has been taken, once the state says whether the FIN has come.         *)
LEMMA TookMid ==
    ASSUME NEW c, NEW d, NEW S, NEW N, NEW F, Hosts(S, N, F),
           NEW R \in Int, R \in 1 .. N, NEW Q \in Int,
           Stream(c, R, S, N, F), Took(c, d, R, Q, S, N, F),
           c.state # "SYN_RCVD"
    PROVE  /\ d.gotFin => c.state = "ESTABLISHED"
           /\ ~d.gotFin => Mid(d, R, Q, S, N, F)
           /\ \A e : /\ e.given = d.given /\ e.es = d.es /\ e.gotFin = d.gotFin
                     /\ e.recv = d.recv /\ e.state = "CLOSE_WAIT" /\ d.gotFin
                     => Mid(e, R, Q, S, N, F)
<1>0. N \in Int /\ S \in Nat
  BY DEF Hosts, One
<1>1. /\ Run(d.recv, R) /\ Q = R + Len(d.recv) + One(d.gotFin) /\ Q \in R .. N
      /\ d.gotFin \in BOOLEAN /\ (d.gotFin => F /\ Q = N)
      /\ d.state = c.state /\ d.es = c.es /\ d.given = c.given
      /\ (d.recv # <<>> => R + Len(d.recv) <= S + 1)
  BY Zenon DEF Took
<1>2. Len(d.recv) \in Nat /\ Sequence(d.recv)
  BY <1>1, Zenon DEF Run, Sequence
<1>3. c.state \in Leaving => Q = R /\ d.recv = <<>> /\ ~d.gotFin
  <2> SUFFICES ASSUME c.state \in Leaving PROVE Q = R /\ d.recv = <<>> /\ ~d.gotFin
    OBVIOUS
  <2>1. R = N
    BY DEF Stream
  <2>2. Q = R
    BY <1>0, <1>1, <2>1
  <2> DEFINE l == Len(d.recv)
             g == One(d.gotFin)
  <2>3. g \in Nat /\ (d.gotFin => g = 1) /\ l \in Nat /\ Q = R + l + g
    BY <1>1, <1>2 DEF One
  <2> HIDE DEF l, g
  <2>4. l = 0 /\ g = 0
    BY <2>2, <2>3
  <2>5. d.recv = <<>>
    BY <1>2, <2>4, NotEmpty DEF l
  <2> QED
    BY <2>2, <2>3, <2>4, <2>5
<1>4. c.state = "ESTABLISHED" \/ c.state \in Leaving
  BY DEF Stream, Live, Leaving
<1>5. c.state = "ESTABLISHED" => c.es = "open"
  BY Zenon DEF Stream
<1>6. d.gotFin => c.state = "ESTABLISHED"
  BY <1>3, <1>4
<1>7. Q \in 1 .. N
  BY <1>0, <1>1
<1>8. "SYN_RCVD" # "ESTABLISHED" /\ "SYN_RCVD" \notin Leaving /\ "ESTABLISHED" \notin Leaving
      /\ "CLOSE_WAIT" \in Leaving /\ "CLOSE_WAIT" # "SYN_RCVD" /\ "CLOSE_WAIT" # "ESTABLISHED"
      /\ "CLOSE_WAIT" \in Live
  BY DEF Leaving, Live
<1>9. ~d.gotFin => Mid(d, R, Q, S, N, F)
  BY <1>1, <1>3, <1>4, <1>5, <1>7, <1>8 DEF Stream, Mid
<1>10. ASSUME NEW e, e.given = d.given, e.es = d.es, e.gotFin = d.gotFin,
              e.recv = d.recv, e.state = "CLOSE_WAIT", d.gotFin
       PROVE  Mid(e, R, Q, S, N, F)
  BY <1>1, <1>5, <1>6, <1>7, <1>8, <1>10 DEF Stream, Mid
<1> QED
  BY <1>6, <1>9, <1>10

(* With the FIN a connection leaves ESTABLISHED.                              *)
LEMMA FinnedOk ==
    ASSUME NEW c, NEW d, NEW S, NEW N, NEW F, Hosts(S, N, F),
           NEW R \in Int, R \in 1 .. N, NEW Q \in Int, NEW lo \in Int, NEW A,
           Stream(c, R, S, N, F), Took(c, d, R, Q, S, N, F), Fine(d, A, Q, lo),
           c.state # "SYN_RCVD"
    PROVE  /\ Fine(Finned(d), A, Q, lo) /\ Mid(Finned(d), R, Q, S, N, F)
           /\ c.state = "LAST_ACK" => Mid(d, R, Q, S, N, F)
<1> DEFINE e == [d EXCEPT !.state = "CLOSE_WAIT", !.ackNow = TRUE]
<1>1. /\ Beside(d, e) /\ e.chain = d.chain /\ e.given = d.given /\ e.es = d.es
      /\ e.gotFin = d.gotFin /\ e.recv = d.recv /\ e.state = "CLOSE_WAIT"
  BY DEF Fine, Ok, Pcb, Fields, Fresh, Beside
<1>2. Finned(d) = IF d.gotFin THEN e ELSE d
  BY Zenon DEF Finned
<1> HIDE DEF e
<1>3. Fine(e, A, Q, lo)
  BY <1>1, BesideFine DEF Fine
<1>4. /\ d.gotFin => c.state = "ESTABLISHED"
      /\ ~d.gotFin => Mid(d, R, Q, S, N, F)
      /\ d.gotFin => Mid(e, R, Q, S, N, F)
  BY <1>1, TookMid
<1> QED
  BY <1>2, <1>3, <1>4

(* What tcp_process makes of a connection at R: one at Q, as Mid says.        *)
Arrived(c, p, lo, R, S, N, F) ==
    \E Q \in Int : /\ Fine(p, Heard(N), Q, lo) /\ Mid(p, R, Q, S, N, F)
                   /\ Q <= R + c.rcvWnd /\ R <= Q /\ p.given = c.given

(* A call that only sends takes nothing.                                      *)
LEMMA StillArrived ==
    ASSUME NEW c, NEW S, NEW N, NEW F, NEW R \in Int, NEW lo \in Int,
           Stream(c, R, S, N, F), c.recv = <<>>, c.gotFin = FALSE,
           NEW d, Fine(d, Heard(N), R, lo), Keeps(c, d), c.rcvWnd \in 0 .. Wnd
    PROVE  Arrived(c, d, lo, R, S, N, F)
<1>1. Mid(c, R, R, S, N, F)
  BY StreamMid
<1>2. Mid(d, R, R, S, N, F)
  BY <1>1, KeepsHandles, HandlesMid
<1>3. R <= R + c.rcvWnd
  BY Sizes
<1>4. d.given = c.given
  BY DEF Keeps
<1> QED
  BY <1>2, <1>3, <1>4 DEF Arrived

(* tcp_process in SYN_RCVD: the handshake ends, is answered with a reset, or  *)
(* goes on.                                                                   *)
LEMMA SynRcvdOk ==
    ASSUME NEW c, NEW S, NEW N, NEW F, Hosts(S, N, F), NEW R \in Int, NEW lo \in Int,
           Stream(c, R, S, N, F), c.recv = <<>>, c.gotFin = FALSE,
           c.state = "SYN_RCVD", Fine(c, Heard(N), R, lo),
           NEW seg, Arrives(seg, S, N, F), "RST" \notin seg.flags
    PROVE  Arrived(c, SynRcvd(c, seg), lo, R, S, N, F)
<1> DEFINE A == Heard(N)
           d == [c EXCEPT !.state = "ESTABLISHED", !.es = "open"]
           x == tcp_receive(d, seg)
           y == [x EXCEPT !.slow = c.slow]
           z == Finned(y)
           rst == tcp_rst(seg.ack, End(seg))
           t == [c EXCEPT !.out = Append(@, rst)]
           r == tcp_rexmit(c)
<1>0. /\ R = 1 /\ c.es = "none" /\ c.given = <<>> /\ R \in 1 .. N
      /\ c.rcvWnd \in 0 .. Wnd
  BY DEF Stream, Fine, Window
<1>1. CASE "ACK" \in seg.flags /\ TCP_SEQ_BETWEEN(seg.ack, Plus(c.lastack, 1), c.sndNxt)
  <2>1. PICK s \in 1 .. N : Carries(seg, s, S, N, F)
    BY <1>1 DEF Arrives
  <2>2. /\ Beside(c, d) /\ d.chain = c.chain /\ d.given = c.given /\ d.es = "open"
        /\ d.gotFin = c.gotFin /\ d.recv = c.recv /\ d.state = "ESTABLISHED"
    BY DEF Fine, Ok, Pcb, Fields, Fresh, Beside
  <2> HIDE DEF d
  <2>3. Fine(d, A, R, lo)
    BY <2>2, BesideFine DEF Fine
  <2>4. Stream(d, R, S, N, F)
    <3>1. R = Len(d.given) + 1
      BY <1>0, <2>2, Nothing
    <3>2. d.state \in Live /\ d.state \notin Leaving /\ d.state # "SYN_RCVD"
      BY <2>2 DEF Live, Leaving
    <3> QED
      BY <2>2, <3>1, <3>2 DEF Stream
  <2>5. PICK Q \in Int : Fine(x, A, Q, lo) /\ Took(d, x, R, Q, S, N, F)
    <3>1. d.recv = <<>> /\ d.gotFin = FALSE
      BY <2>2
    <3> QED
      BY <1>0, <2>1, <2>3, <3>1, TcpReceiveOk
  <2> HIDE DEF x
  <2>6. /\ Beside(x, y) /\ y.chain = x.chain /\ y.given = x.given /\ y.es = x.es
        /\ y.gotFin = x.gotFin /\ y.recv = x.recv /\ y.state = x.state
        /\ y.erasing = x.erasing
    BY <2>5 DEF Fine, Ok, Pcb, Fields, Fresh, Beside
  <2> HIDE DEF y
  <2>7. Fine(y, A, Q, lo)
    BY <2>5, <2>6, BesideFine DEF Fine
  <2>8. Took(d, y, R, Q, S, N, F)
    BY <2>5, <2>6 DEF Took
  <2>9. Fine(z, A, Q, lo) /\ Mid(z, R, Q, S, N, F)
    <3>1. d.state # "SYN_RCVD"
      BY <2>2
    <3> QED
      BY <1>0, <2>4, <2>7, <2>8, <3>1, FinnedOk
  <2>10. Q <= R + c.rcvWnd /\ R <= Q
    <3>1. N \in Int
      BY DEF Hosts, One
    <3>2. Q \in R .. N /\ Q <= R + d.rcvWnd /\ d.rcvWnd = c.rcvWnd
      BY <2>2, <2>5 DEF Took, Beside
    <3> QED
      BY <3>1, <3>2
  <2>11. SynRcvd(c, seg) = z
    BY <1>1, Zenon DEF SynRcvd, d, x, y
  <2>12. Finned(y).given = y.given
    BY <2>7 DEF Finned, Fine, Ok, Pcb, Fields, Fresh
  <2>13. z.given = c.given
    BY <2>2, <2>5, <2>6, <2>12 DEF Took
  <2> HIDE DEF z
  <2> QED
    BY <2>9, <2>10, <2>11, <2>13, Zenon DEF Arrived
<1>2. CASE "ACK" \in seg.flags /\ ~TCP_SEQ_BETWEEN(seg.ack, Plus(c.lastack, 1), c.sndNxt)
  <2>1. "RST" \in rst.flags
    BY DEF tcp_rst
  <2> HIDE DEF rst
  <2>2. Sequence(c.out) /\ \A i \in 1 .. Len(c.out) : "RST" \in c.out[i].flags \/ c.out[i].ack \in A
    BY DEF Fine, Ok, Pcb, Told
  <2> DEFINE o == c.out
             l == Append(o, rst)
  <2> HIDE DEF o, A
  <2>3. Sequence(l) /\ \A i \in 1 .. Len(l) : "RST" \in l[i].flags \/ l[i].ack \in A
    BY <2>1, <2>2, ToldOne DEF o
  <2>4. t.out = l
    BY DEF Fine, Ok, Pcb, Fields, Fresh, o
  <2> HIDE DEF l
  <2>5. Ok(t, A) /\ Sends(c, t)
    BY <2>3, <2>4 DEF A, Fine, Ok, Pcb, Told, Fields, Fresh, Sends, Same, Edge
  <2> HIDE DEF t
  <2>6. Fine(t, A, R, lo) /\ Keeps(c, t)
    BY <2>5, SendsFine DEF A
  <2>7. SynRcvd(c, seg) = t
    BY <1>2, Zenon DEF SynRcvd, t, rst
  <2> QED
    BY <1>0, <2>6, <2>7, StillArrived DEF A
<1>3. CASE "ACK" \notin seg.flags
  <2>1. Ok(r, A) /\ Sends(c, r)
    BY RexmitOk DEF Fine
  <2>2. SynRcvd(c, seg) \in {c, r}
    BY <1>3, Zenon DEF SynRcvd
  <2> HIDE DEF r
  <2>3. Fine(r, A, R, lo) /\ Keeps(c, r)
    BY <2>1, SendsFine
  <2>4. Keeps(c, c)
    BY DEF Keeps
  <2> QED
    BY <1>0, <2>2, <2>3, <2>4, StillArrived
<1> QED
  BY <1>1, <1>2, <1>3

(* tcp_process in every state.                                                *)
LEMMA ProcessOk ==
    ASSUME NEW c, NEW S, NEW N, NEW F, Hosts(S, N, F), NEW R \in Int, NEW lo \in Int,
           Stream(c, R, S, N, F), c.recv = <<>>, c.gotFin = FALSE,
           Fine(c, Heard(N), R, lo), NEW seg, Arrives(seg, S, N, F)
    PROVE  Arrived(c, tcp_process(c, seg), lo, R, S, N, F)
<1> DEFINE A == Heard(N)
           n == [c EXCEPT !.ackNow = TRUE]
           x == tcp_receive(c, seg)
<1>0. R \in 1 .. N /\ c.rcvWnd \in 0 .. Wnd /\ Keeps(c, c)
  BY DEF Stream, Fine, Window, Keeps
<1>1. CASE "RST" \in seg.flags
  BY <1>0, <1>1, StillArrived, Zenon DEF tcp_process
<1>2. CASE "RST" \notin seg.flags /\ c.state = "SYN_RCVD"
  BY <1>2, SynRcvdOk, Zenon DEF tcp_process
<1>3. CASE "RST" \notin seg.flags /\ c.state # "SYN_RCVD" /\ "SYN" \in seg.flags
  <2>1. Ok(n, A) /\ Sends(c, n)
    BY DEF Fine, Ok, Pcb, Told, Fields, Fresh, Sends, Same, Edge
  <2>2. tcp_process(c, seg) = n
    BY <1>3, Zenon DEF tcp_process
  <2> HIDE DEF n
  <2>3. Fine(n, A, R, lo) /\ Keeps(c, n)
    BY <2>1, SendsFine
  <2> QED
    BY <1>0, <2>2, <2>3, StillArrived
<1>4. CASE "RST" \notin seg.flags /\ c.state # "SYN_RCVD" /\ "SYN" \notin seg.flags
  <2>1. PICK s \in 1 .. N : Carries(seg, s, S, N, F)
    BY <1>4 DEF Arrives
  <2>2. PICK Q \in Int : Fine(x, A, Q, lo) /\ Took(c, x, R, Q, S, N, F)
    BY <1>0, <2>1, TcpReceiveOk
  <2> HIDE DEF x
  <2>3. /\ Fine(Finned(x), A, Q, lo) /\ Mid(Finned(x), R, Q, S, N, F)
        /\ c.state = "LAST_ACK" => Mid(x, R, Q, S, N, F)
    BY <1>0, <1>4, <2>2, FinnedOk
  <2>4. Q <= R + c.rcvWnd /\ R <= Q
    <3>1. N \in Int
      BY DEF Hosts, One
    <3>2. Q \in R .. N /\ Q <= R + c.rcvWnd
      BY <2>2 DEF Took
    <3> QED
      BY <3>1, <3>2
  <2>5. tcp_process(c, seg) = IF c.state = "LAST_ACK" THEN x ELSE Finned(x)
    BY <1>4, Zenon DEF tcp_process, x
  <2>6. Finned(x).given = c.given /\ x.given = c.given
    BY <2>2 DEF Finned, Fine, Ok, Pcb, Fields, Fresh, Took
  <2> QED
    BY <2>2, <2>3, <2>4, <2>5, <2>6, Zenon DEF Arrived
<1> QED
  BY <1>1, <1>2, <1>3, <1>4

(* A pcb that is gone, with what the application was given before.            *)
Dead(c, A, S) ==
    /\ DOMAIN c = Fields /\ c.state = "CLOSED" /\ c.es = "none"
    /\ Run(c.given, 1) /\ Len(c.given) <= S
    /\ Sequence(c.out) /\ Told(c, A)

(* A pcb at Q.                                                                *)
Alive(c, lo, Q, S, N, F) ==
    Q \in Int /\ Fine(c, Heard(N), Q, lo) /\ Stream(c, Q, S, N, F)

(* A pcb that is purged has nothing left but history.                         *)
LEMMA GoneDead ==
    ASSUME NEW c, NEW A, Ok(c, A), NEW S, Run(c.given, 1), Len(c.given) <= S
    PROVE  Dead(Gone(c), A, S) /\ Gone(c).given = c.given
<1>1. /\ DOMAIN Gone(c) = Fields /\ Gone(c).state = "CLOSED" /\ Gone(c).es = "none"
      /\ Gone(c).given = c.given /\ Gone(c).out = c.out
  BY DEF Gone, Fields, Fresh
<1> QED
  BY <1>1 DEF Dead, Ok, Pcb, Told

(* So has one that tcp_pcb_remove takes off its list, after a last            *)
(* acknowledgement.                                                           *)
LEMMA RemoveDead ==
    ASSUME NEW c, NEW A, Ok(c, A), NEW S, Run(c.given, 1), Len(c.given) <= S
    PROVE  Dead(tcp_pcb_remove(c), A, S) /\ tcp_pcb_remove(c).given = c.given
<1> DEFINE d == [c EXCEPT !.unsent = <<>>, !.ackNow = TRUE]
           e == tcp_output(d)
<1>1. Ok(d, A) /\ d.given = c.given
  BY Nothing DEF Ok, Pcb, Told, Fields, Fresh
<1>2. tcp_pcb_remove(c) = Gone(IF c.ackDelay THEN e ELSE c)
  BY Zenon DEF tcp_pcb_remove
<1> HIDE DEF d
<1>3. Ok(e, A) /\ Sends(d, e)
  BY <1>1, OutputOk
<1>4. e.given = c.given
  BY <1>1, <1>3 DEF Sends, Same
<1> HIDE DEF e
<1>5. /\ Dead(Gone(e), A, S) /\ Dead(Gone(c), A, S)
      /\ Gone(e).given = c.given /\ Gone(c).given = c.given
  BY <1>3, <1>4, GoneDead
<1> QED
  BY <1>2, <1>5, Zenon

(* tcp_output leaves a connection where it is.                                *)
LEMMA OutputAlive ==
    ASSUME NEW c, NEW lo \in Int, NEW Q, NEW S, NEW N, NEW F, Alive(c, lo, Q, S, N, F)
    PROVE  Alive(tcp_output(c), lo, Q, S, N, F) /\ tcp_output(c).given = c.given
<1> DEFINE d == tcp_output(c)
<1>1. Ok(d, Heard(N)) /\ Sends(c, d)
  BY OutputOk DEF Alive, Fine
<1> HIDE DEF d
<1>2. Fine(d, Heard(N), Q, lo) /\ Keeps(c, d)
  BY <1>1, SendsFine DEF Alive
<1>3. Stream(d, Q, S, N, F)
  BY <1>2, KeepsHandles, HandlesStream DEF Alive
<1>4. d.given = c.given
  BY <1>2 DEF Keeps
<1> QED
  BY <1>2, <1>3, <1>4 DEF Alive, d

(* What the application has been given stays, or grows.                       *)
Gets(c, d) == d.given = c.given \/ Len(d.given) > Len(c.given)

(* tcp_input: the connection ends, or the receiver has moved by no more than  *)
(* its window, and the application has been given what it moved over.         *)
LEMMA InputOk ==
    ASSUME NEW c, NEW S, NEW N, NEW F, Hosts(S, N, F), NEW R, NEW lo \in Int,
           Alive(c, lo, R, S, N, F), c.recv = <<>>, c.gotFin = FALSE,
           NEW seg, Arrives(seg, S, N, F), NEW a \in Replies, NEW b \in Replies
    PROVE  LET d == tcp_input(c, seg, a, b)
           IN  /\ \/ Dead(d, Heard(N), S)
                  \/ \E Q : Alive(d, lo, Q, S, N, F) /\ Q <= R + c.rcvWnd /\ R <= Q
               /\ Gets(c, d)
<1> DEFINE A == Heard(N)
           p == tcp_process(c, seg)
           sent == tcp_server_sent(p, a)
           s == IF p.acked THEN sent ELSE p
           got == tcp_server_receive(s, p.recv, b)
           r == IF p.recv # <<>> THEN got ELSE s
           fin == tcp_server_receive_fin(r, b)
           f == IF p.gotFin THEN fin ELSE r
           d == tcp_input(c, seg, a, b)
<1>0. /\ R \in Int /\ Fine(c, A, R, lo) /\ Stream(c, R, S, N, F)
      /\ c.state \notin {"LISTEN", "CLOSED"} /\ S \in Nat /\ N \in Int
  BY DEF Alive, Stream, Live, Hosts, One
<1>1. d = IF Resets(c, seg) THEN Gone(c)
          ELSE IF Closes(c, seg, p) THEN tcp_pcb_remove(p) ELSE tcp_output(f)
  BY <1>0, Zenon DEF tcp_input, TCP_EVENT_SENT, TCP_EVENT_RECV, TCP_EVENT_FIN
<1>2. Dead(Gone(c), A, S) /\ Gone(c).given = c.given
  BY <1>0, GoneDead DEF Fine, Stream
<1>2a. Arrived(c, p, lo, R, S, N, F)
  BY <1>0, ProcessOk
<1> HIDE DEF p
<1>3. PICK Q \in Int : /\ Fine(p, A, Q, lo) /\ Mid(p, R, Q, S, N, F)
                       /\ Q <= R + c.rcvWnd /\ R <= Q /\ p.given = c.given
  BY <1>2a, Zenon DEF Arrived, A
<1> HIDE DEF A
<1>4. Dead(tcp_pcb_remove(p), A, S) /\ tcp_pcb_remove(p).given = p.given
  BY <1>3, RemoveDead DEF Fine, Mid
<1>5. /\ Fine(s, A, Q, lo) /\ Mid(s, R, Q, S, N, F) /\ s.recv = p.recv
      /\ s.gotFin = p.gotFin /\ s.given = p.given
  <2>1. Fine(sent, A, Q, lo) /\ (Handles(p, sent) \/ (p.es = "closing" /\ Shuts(p, sent)))
    BY <1>3, SentOk
  <2> HIDE DEF sent
  <2>2. Mid(sent, R, Q, S, N, F)
    BY <1>3, <2>1, SentMid
  <2>3. sent.recv = p.recv /\ sent.gotFin = p.gotFin /\ sent.given = p.given
    BY <2>1 DEF Handles, Shuts
  <2> QED
    BY <1>3, <2>1, <2>2, <2>3
<1> HIDE DEF s
<1>6. Fine(r, A, Q, lo) /\ After(r, Q, S, N, F) /\ r.gotFin = p.gotFin /\ Gets(c, r)
  <2>1. CASE p.recv # <<>>
    <3>1. Fine(tcp_server_receive(s, s.recv, b), A, Q, lo)
          /\ After(tcp_server_receive(s, s.recv, b), Q, S, N, F)
          /\ tcp_server_receive(s, s.recv, b).gotFin = s.gotFin
          /\ Len(tcp_server_receive(s, s.recv, b).given) > Len(s.given)
      BY <1>0, <1>3, <1>5, <2>1, ReceiveOk
    <3>2. got = tcp_server_receive(s, s.recv, b)
      BY <1>5
    <3> HIDE DEF got
    <3> QED
      BY <1>3, <1>5, <2>1, <3>1, <3>2 DEF Gets
  <2>2. CASE p.recv = <<>>
    <3>1. After(s, Q, S, N, F)
      BY <1>0, <1>5, <2>2, MidAfter
    <3> QED
      BY <1>3, <1>5, <2>2, <3>1 DEF Gets
  <2> QED
    BY <2>1, <2>2
<1> HIDE DEF r
<1>7. Fine(f, A, Q, lo) /\ Stream(f, Q, S, N, F) /\ f.given = r.given
  <2>0. p.gotFin \in BOOLEAN
    BY <1>3 DEF Mid
  <2>1. CASE p.gotFin
    <3>1. r.gotFin
      BY <1>6, <2>1
    <3>2. Fine(fin, A, Q, lo) /\ Stream(fin, Q, S, N, F) /\ fin.given = r.given
      BY <1>3, <1>6, <3>1, FinOk
    <3> HIDE DEF fin
    <3> QED
      BY <2>1, <3>2
  <2>2. CASE ~p.gotFin
    <3>1. ~r.gotFin
      BY <1>6, <2>2
    <3>2. Stream(r, Q, S, N, F)
      BY <1>6, <3>1, AfterStream
    <3> QED
      BY <1>6, <2>2, <3>2
  <2> QED
    BY <2>0, <2>1, <2>2
<1> HIDE DEF f
<1>8. Alive(tcp_output(f), lo, Q, S, N, F) /\ tcp_output(f).given = f.given
  <2>1. Alive(f, lo, Q, S, N, F)
    BY <1>3, <1>7 DEF Alive, A
  <2> QED
    BY <2>1, OutputAlive
<1> HIDE DEF d
<1>9. Dead(d, A, S) \/ Alive(d, lo, Q, S, N, F)
  BY <1>1, <1>2, <1>4, <1>8
<1>10. Gets(c, d)
  <2>1. d.given \in {c.given, r.given}
    BY <1>1, <1>2, <1>3, <1>4, <1>7, <1>8
  <2> QED
    BY <1>6, <2>1 DEF Gets
<1> QED
  BY <1>3, <1>9, <1>10 DEF A, d

(* A listening pcb: Fresh. A SYN makes it one at 1, everything else leaves it *)
(* or is answered with a reset.                                               *)
LEMMA ListenOk ==
    ASSUME NEW S, NEW N, NEW F, Hosts(S, N, F), NEW lo \in Int, lo <= 1,
           NEW seg, Arrives(seg, S, N, F)
    PROVE  LET d == tcp_listen_input(Fresh, seg)
               rst == tcp_rst(Plus(seg.ack, 1), End(seg))
           IN  \/ d = Fresh \/ d = [Fresh EXCEPT !.out = <<rst>>]
               \/ Alive(d, lo, 1, S, N, F) /\ d.given = <<>>
<1> DEFINE A == Heard(N)
           one == Plus(seg.seq, 1)
           wl1 == Plus(seg.seq, -1)
           d == [Fresh EXCEPT !.state = "SYN_RCVD", !.rcvNxt = one,
                       !.annEdge = one, !.sndWnd = seg.wnd, !.wl1 = wl1]
           e == tcp_enqueue(d, <<>>, {"SYN"})
           f == tcp_output(e)
<1>0. CASE "ACK" \in seg.flags \/ "SYN" \notin seg.flags
  BY <1>0, Zenon DEF tcp_listen_input
<1>1. CASE "ACK" \notin seg.flags /\ "SYN" \in seg.flags
  <2>0. HostIss \in Int /\ Wnd \in Nat /\ S \in Nat /\ N \in Int /\ N >= 1
    BY Sizes DEF Num, Hosts, One
  <2>1. CASE seg.flags = {"SYN"} /\ seg.seq = HostIss
    <3>1. one = Plus(HostIss, 1)
      BY <2>1
    <3>2. tcp_listen_input(Fresh, seg) = f
      <4>1. Fresh.state = "LISTEN"
        BY DEF Fresh
      <4> QED
        BY <1>1, <4>1, Zenon DEF tcp_listen_input
    <3> HIDE DEF one, wl1
    <3>3. /\ DOMAIN d = Fields /\ d.state = "SYN_RCVD" /\ d.rcvNxt = one /\ d.annEdge = one
          /\ d.rcvWnd = Wnd /\ d.annWnd = Wnd /\ d.unsent = <<>> /\ d.unacked = <<>>
          /\ d.out = <<>> /\ d.es = "none" /\ d.given = <<>> /\ d.chain = <<>>
      BY DEF Fields, Fresh
    <3> HIDE DEF d
    <3>4. one \in A
      BY <2>0, <3>1 DEF Heard
    <3>5. Ok(d, A)
      <4>1. \A i \in 1 .. Len(d.out) : FALSE
        BY <3>3
      <4> QED
        BY <3>3, <3>4, <4>1, Nothing DEF Ok, Pcb, Told
    <3>6. Window(d, HostIss, 1, lo)
      <4>1. Wnd \in 0 .. Wnd /\ 1 + Wnd - Wnd <= 1 /\ 1 <= 1 + Wnd /\ 1 \in Int
        BY <2>0
      <4> QED
        BY <3>1, <3>3, <4>1 DEF Window
    <3>7. Fine(d, A, 1, lo)
      BY <3>3, <3>5, <3>6 DEF Fine
    <3>8. Stream(d, 1, S, N, F)
      <4>1. Run(<<>>, 1) /\ Len(<<>>) <= S /\ 1 \in 1 .. N
        BY <2>0, Nothing DEF Run
      <4>2. "SYN_RCVD" \in Live /\ "SYN_RCVD" \notin Leaving
        BY DEF Live, Leaving
      <4> QED
        BY <3>3, <4>1, <4>2 DEF Stream
    <3>9. Ok(e, A) /\ Sends(d, e)
      BY <3>5, Nothing, EnqueueOk
    <3> HIDE DEF e
    <3>10. Fine(e, A, 1, lo) /\ Keeps(d, e)
      BY <3>7, <3>9, SendsFine
    <3>11. Alive(e, lo, 1, S, N, F) /\ e.given = <<>>
      BY <3>3, <3>8, <3>10, KeepsHandles, HandlesStream DEF Alive, Keeps
    <3> QED
      BY <3>2, <3>11, OutputAlive
  <2> QED
    BY <1>1, <2>1 DEF Arrives, Carries
<1> QED
  BY <1>0, <1>1

-----------------------------------------------------------------------------
(* The host sends more.                                                       *)

(* The host sends more: what held of its segments and of the server still     *)
(* holds.                                                                     *)
Grows(S, N, F, T, M, G) ==
    /\ S \in Nat /\ N \in Nat /\ T \in Nat /\ M \in Nat
    /\ S <= T /\ N <= M /\ (F => G /\ M = N)

(* What has been heard stays heard.                                           *)
LEMMA HeardGrows ==
    ASSUME NEW N \in Nat, NEW M \in Nat, N <= M
    PROVE  Heard(N) \subseteq Heard(M)
BY DEF Heard

(* A segment of the host stays one when the host has sent more.               *)
LEMMA ArrivesGrows ==
    ASSUME NEW S, NEW N, NEW F, NEW T, NEW M, NEW G, Grows(S, N, F, T, M, G),
           NEW seg, Arrives(seg, S, N, F)
    PROVE  Arrives(seg, T, M, G)
<1>1. ASSUME NEW s \in 1 .. N, Carries(seg, s, S, N, F)
      PROVE  s \in 1 .. M /\ Carries(seg, s, T, M, G)
  <2>0. S \in Nat /\ N \in Nat /\ T \in Nat /\ M \in Nat /\ S <= T /\ N <= M
    BY DEF Grows
  <2>1. s \in 1 .. M
    BY <2>0
  <2>2. Len(seg.data) \in Nat
    BY <1>1, Zenon DEF Carries, Run, Sequence
  <2> DEFINE l == Len(seg.data)
  <2>3. seg.data # <<>> => s + l <= S + 1
    BY <1>1 DEF Carries
  <2>4. l \in Nat
    BY <2>2
  <2> HIDE DEF l
  <2>5. seg.data # <<>> => s + l <= T + 1
    BY <2>0, <2>3, <2>4
  <2>6. "FIN" \in seg.flags => G /\ s + l + 1 = M
    BY <1>1 DEF Carries, Grows, l
  <2> QED
    BY <1>1, <2>1, <2>5, <2>6, Zenon DEF Carries, l
<1> QED
  BY <1>1 DEF Arrives

(* What was acknowledged rightly stays so.                                    *)
LEMMA ToldGrows ==
    ASSUME NEW c, NEW A, NEW B, A \subseteq B, Told(c, A)
    PROVE  Told(c, B)
BY DEF Told

(* A connection stays where it is when the host has sent more.                *)
LEMMA AliveGrows ==
    ASSUME NEW S, NEW N, NEW F, NEW T, NEW M, NEW G, Grows(S, N, F, T, M, G),
           NEW c, NEW lo, NEW Q, Alive(c, lo, Q, S, N, F)
    PROVE  Alive(c, lo, Q, T, M, G)
<1>0. S \in Nat /\ N \in Nat /\ T \in Nat /\ M \in Nat /\ S <= T /\ N <= M
  BY DEF Grows
<1>1. Heard(N) \subseteq Heard(M)
  BY <1>0, HeardGrows
<1>2. Q \in Int /\ Fine(c, Heard(N), Q, lo) /\ Stream(c, Q, S, N, F)
  BY DEF Alive
<1>3. Fine(c, Heard(M), Q, lo)
  BY <1>1, <1>2, ToldGrows DEF Fine, Ok
<1>4. Len(c.given) \in Nat
  BY <1>2, Zenon DEF Stream, Run, Sequence
<1> DEFINE l == Len(c.given)
<1>5. l <= S /\ Q \in 1 .. N /\ l \in Nat
  BY <1>2, <1>4 DEF Stream
<1> HIDE DEF l
<1>6. l <= T /\ Q \in 1 .. M
  BY <1>0, <1>5
<1>7. c.state \in Leaving => c.es # "open" /\ Q = M /\ G
  BY <1>2 DEF Stream, Grows
<1>8. Stream(c, Q, T, M, G)
  BY <1>2, <1>6, <1>7, Zenon DEF Stream, l
<1> QED
  BY <1>2, <1>3, <1>8 DEF Alive

(* So does a pcb that is gone.                                                *)
LEMMA DeadGrows ==
    ASSUME NEW S, NEW N, NEW F, NEW T, NEW M, NEW G, Grows(S, N, F, T, M, G),
           NEW c, Dead(c, Heard(N), S)
    PROVE  Dead(c, Heard(M), T)
<1>0. S \in Nat /\ N \in Nat /\ T \in Nat /\ M \in Nat /\ S <= T /\ N <= M
  BY DEF Grows
<1>1. Told(c, Heard(M))
  BY <1>0, HeardGrows, ToldGrows DEF Dead
<1> DEFINE l == Len(c.given)
<1>2. l \in Nat /\ l <= S
  BY Zenon DEF Dead, Run, Sequence
<1> HIDE DEF l
<1>3. l <= T
  BY <1>0, <1>2
<1> QED
  BY <1>1, <1>3 DEF Dead, l

-----------------------------------------------------------------------------
(* The other calls keep a connection at its place.                            *)
LEMMA SendsAlive ==
    ASSUME NEW c, NEW lo \in Int, NEW Q, NEW S, NEW N, NEW F, Alive(c, lo, Q, S, N, F),
           NEW d, Ok(d, Heard(N)), Sends(c, d)
    PROVE  Alive(d, lo, Q, S, N, F) /\ d.given = c.given
<1>1. Fine(d, Heard(N), Q, lo) /\ Keeps(c, d)
  BY SendsFine DEF Alive
<1>2. Stream(d, Q, S, N, F)
  BY <1>1, KeepsHandles, HandlesStream DEF Alive
<1> QED
  BY <1>1, <1>2 DEF Alive, Keeps

(* So does one that touches nothing of it.                                    *)
LEMMA BesideAlive ==
    ASSUME NEW c, NEW lo \in Int, NEW Q, NEW S, NEW N, NEW F, Alive(c, lo, Q, S, N, F),
           NEW d, Beside(c, d), d.chain = c.chain, d.state = c.state, d.es = c.es,
           d.given = c.given
    PROVE  Alive(d, lo, Q, S, N, F)
<1>1. Fine(d, Heard(N), Q, lo)
  BY BesideFine DEF Alive, Fine
<1>2. Stream(d, Q, S, N, F)
  BY DEF Alive, Stream
<1> QED
  BY <1>1, <1>2 DEF Alive

(* So does the poll callback with the output after it.                        *)
LEMMA PolledOk ==
    ASSUME NEW c, NEW lo \in Int, NEW Q, NEW S, NEW N, NEW F, Alive(c, lo, Q, S, N, F),
           NEW a \in Replies
    PROVE  LET d == tcp_output(tcp_server_sent(c, a))
           IN  Alive(d, lo, Q, S, N, F) /\ d.given = c.given
<1> DEFINE s == tcp_server_sent(c, a)
<1>1. /\ Fine(s, Heard(N), Q, lo)
      /\ Handles(c, s) \/ (c.es = "closing" /\ Shuts(c, s))
  BY SentOk DEF Alive
<1> HIDE DEF s
<1>2. Stream(s, Q, S, N, F)
  BY <1>1, SentStream DEF Alive
<1>3. s.given = c.given
  BY <1>1 DEF Handles, Shuts
<1>4. Alive(s, lo, Q, S, N, F)
  BY <1>1, <1>2 DEF Alive
<1> QED
  BY <1>3, <1>4, OutputAlive DEF s

(* So does a probe, or a retransmission after a time-out.                     *)
LEMMA ExpiredOk ==
    ASSUME NEW c, NEW lo \in Int, NEW Q, NEW S, NEW N, NEW F, Alive(c, lo, Q, S, N, F)
    PROVE  Alive(Expired(c), lo, Q, S, N, F) /\ Expired(c).given = c.given
<1> DEFINE A == Heard(N)
           p == tcp_zero_window_probe(c)
           s == [c EXCEPT !.slow = TRUE]
           r == tcp_rexmit_rto(s)
<1>1. Ok(c, A)
  BY DEF Alive, Fine
<1>2. Ok(p, A) /\ Sends(c, p)
  BY <1>1, ProbeOk
<1>3. Ok(s, A) /\ Sends(c, s)
  BY <1>1 DEF Ok, Pcb, Told, Fields, Fresh, Sends, Same, Edge
<1> HIDE DEF p, s, A
<1>4. Ok(r, A) /\ Sends(s, r)
  BY <1>3, RtoOk
<1> HIDE DEF r
<1>5. Sends(c, r)
  BY <1>3, <1>4, SendsSends
<1>6. Expired(c) \in {p, r, c}
  BY Zenon DEF Expired, p, r, s
<1>7. Ok(Expired(c), A) /\ Sends(c, Expired(c))
  BY <1>1, <1>2, <1>4, <1>5, <1>6, SendsSame
<1> QED
  BY <1>7, SendsAlive DEF A

(* So does tcp_keepalive.                                                     *)
LEMMA KeepaliveOk ==
    ASSUME NEW c, NEW lo \in Int, NEW Q, NEW S, NEW N, NEW F, Alive(c, lo, Q, S, N, F),
           c.out = <<>>
    PROVE  LET d == [Announced(c) EXCEPT
                       !.out = <<Segment(c, Plus(c.sndNxt, -1), <<>>, {})>>]
           IN  Alive(d, lo, Q, S, N, F) /\ d.given = c.given
<1> DEFINE seg == Segment(c, Plus(c.sndNxt, -1), <<>>, {})
           d == [Announced(c) EXCEPT !.out = <<seg>>]
           e == [Announced(c) EXCEPT !.out = Append(@, seg)]
<1>1. seg.ack = c.rcvNxt
  BY DEF Segment
<1> HIDE DEF seg
<1>2. Announced(c).out = <<>>
  BY DEF Alive, Fine, Ok, Pcb, Fields, Fresh, Announced
<1>3. Append(<<>>, seg) = <<seg>>
  OBVIOUS
<1>4. d = e
  BY <1>2, <1>3
<1>5. Ok(e, Heard(N)) /\ Sends(c, e)
  <2>1. Ok(c, Heard(N))
    BY DEF Alive, Fine
  <2> QED
    BY <1>1, <2>1, SaysOk
<1> HIDE DEF d, e
<1>6. Alive(e, lo, Q, S, N, F) /\ e.given = c.given
  BY <1>5, SendsAlive
<1> QED
  BY <1>4, <1>6 DEF d, seg

(* So does tcp_fasttmr.                                                       *)
LEMMA FastOk ==
    ASSUME NEW c, NEW lo \in Int, NEW Q, NEW S, NEW N, NEW F, Alive(c, lo, Q, S, N, F)
    PROVE  LET d == [tcp_output([c EXCEPT !.ackNow = TRUE])
                       EXCEPT !.ackNow = FALSE, !.ackDelay = FALSE]
           IN  Alive(d, lo, Q, S, N, F) /\ d.given = c.given
<1> DEFINE x == [c EXCEPT !.ackNow = TRUE]
           y == tcp_output(x)
           d == [y EXCEPT !.ackNow = FALSE, !.ackDelay = FALSE]
<1>1. /\ Beside(c, x) /\ x.chain = c.chain /\ x.state = c.state /\ x.es = c.es
      /\ x.given = c.given
  BY DEF Alive, Fine, Ok, Pcb, Fields, Fresh, Beside
<1> HIDE DEF x
<1>2. Alive(x, lo, Q, S, N, F)
  BY <1>1, BesideAlive
<1>3. Alive(y, lo, Q, S, N, F) /\ y.given = x.given
  BY <1>2, OutputAlive
<1> HIDE DEF y
<1>4. /\ Beside(y, d) /\ d.chain = y.chain /\ d.state = y.state /\ d.es = y.es
      /\ d.given = y.given
  BY <1>3 DEF Alive, Fine, Ok, Pcb, Fields, Fresh, Beside
<1> HIDE DEF d
<1>5. Alive(d, lo, Q, S, N, F)
  BY <1>3, <1>4, BesideAlive
<1> QED
  BY <1>1, <1>3, <1>4, <1>5 DEF d, y, x

(* So does the answer the main loop writes.                                   *)
LEMMA MainOk ==
    ASSUME NEW c, NEW lo \in Int, NEW Q, NEW S, NEW N, NEW F, Alive(c, lo, Q, S, N, F)
    PROVE  LET d == [tcp_write(c, EraseAnswer) EXCEPT !.erasing = FALSE]
           IN  Alive(d, lo, Q, S, N, F) /\ d.given = c.given
<1> DEFINE y == tcp_write(c, EraseAnswer)
           d == [y EXCEPT !.erasing = FALSE]
<1>1. EraseAnswer \in Nat
  BY LwipTcpAssumption
<1>2. Ok(y, Heard(N)) /\ Sends(c, y)
  BY <1>1, WriteOk DEF Alive, Fine
<1> HIDE DEF y
<1>3. Alive(y, lo, Q, S, N, F) /\ y.given = c.given
  BY <1>2, SendsAlive
<1>4. /\ Beside(y, d) /\ d.chain = y.chain /\ d.state = y.state /\ d.es = y.es
      /\ d.given = y.given
  BY <1>3 DEF Alive, Fine, Ok, Pcb, Fields, Fresh, Beside
<1> HIDE DEF d
<1>5. Alive(d, lo, Q, S, N, F)
  BY <1>3, <1>4, BesideAlive
<1> QED
  BY <1>3, <1>4, <1>5 DEF d, y

(* On a pcb that is gone it has no effect.                                    *)
LEMMA MainDead ==
    ASSUME NEW c, NEW A, NEW S, Dead(c, A, S)
    PROVE  LET d == [tcp_write(c, EraseAnswer) EXCEPT !.erasing = FALSE]
           IN  Dead(d, A, S) /\ d.given = c.given
<1> DEFINE d == [c EXCEPT !.erasing = FALSE]
<1>1. tcp_write(c, EraseAnswer) = c
  BY DEF Dead, tcp_write
<1>2. /\ DOMAIN d = Fields /\ d.state = c.state /\ d.es = c.es
      /\ d.given = c.given /\ d.out = c.out
  BY DEF Dead, Fields, Fresh
<1> HIDE DEF d
<1>3. Dead(d, A, S)
  BY <1>2 DEF Dead, Told
<1> QED
  BY <1>1, <1>2, <1>3 DEF d

(* A pcb given up is gone, with what the application had been given.          *)
LEMMA GiveUpOk ==
    ASSUME NEW c, NEW lo \in Int, NEW Q, NEW S, NEW N, NEW F, Alive(c, lo, Q, S, N, F)
    PROVE  LET d == [Gone(c) EXCEPT !.gaveUp = TRUE]
           IN  Dead(d, Heard(N), S) /\ d.given = c.given
<1> DEFINE g == Gone(c)
           d == [g EXCEPT !.gaveUp = TRUE]
<1>1. Dead(g, Heard(N), S) /\ g.given = c.given
  BY GoneDead DEF Alive, Fine, Stream
<1> HIDE DEF g
<1>2. /\ DOMAIN d = Fields /\ d.state = g.state /\ d.es = g.es
      /\ d.given = g.given /\ d.out = g.out
  BY <1>1 DEF Dead, Fields, Fresh
<1> HIDE DEF d
<1>3. Dead(d, Heard(N), S)
  BY <1>1, <1>2 DEF Dead, Told
<1> QED
  BY <1>1, <1>2, <1>3 DEF d, g

-----------------------------------------------------------------------------
(* Calls of the server.                                                       *)

(* The server between two calls: it listens, or its pcb is gone, or the       *)
(* connection is somewhere in the host's stream.                              *)
Settled(c) == c.out = <<>> /\ c.recv = <<>> /\ c.gotFin = FALSE
ServerOk(c, S, N, F) ==
    \/ c = Fresh
    \/ Dead(c, Heard(N), S) /\ c.out = <<>>
    \/ Settled(c) /\ \E lo, Q \in Int : Alive(c, lo, Q, S, N, F)

(* What a call makes of it.                                                   *)
Rejects(d) ==
    \E rst : "RST" \in rst.flags /\ d = [Fresh EXCEPT !.out = <<rst>>]
Advances(c, d, S, N, F) ==
    \A lo, R \in Int :
        Alive(c, lo, R, S, N, F) =>
            \/ Dead(d, Heard(N), S)
            \/ \E Q \in Int : Alive(d, lo, Q, S, N, F) /\ R <= Q /\ Q <= R + c.rcvWnd
Outcome(c, d, S, N, F) ==
    /\ Gets(c, d) /\ Advances(c, d, S, N, F)
    /\ \/ d = Fresh \/ Rejects(d)
       \/ Dead(d, Heard(N), S)
       \/ \E lo, Q \in Int : Alive(d, lo, Q, S, N, F)

(* The pcb that listens is a record.                                          *)
LEMMA FreshFcn == Fresh = [f \in DOMAIN Fresh |-> Fresh[f]]
BY DEF Fresh

(* Nothing has come or is to go while it listens.                             *)
LEMMA FreshIs ==
    /\ Fresh.state = "LISTEN" /\ Fresh.out = <<>> /\ Fresh.recv = <<>>
    /\ Fresh.gotFin = FALSE /\ Fresh.given = <<>> /\ Fresh.erasing = FALSE
BY DEF Fresh

(* A connection neither listens nor is gone.                                  *)
LEMMA LiveIs ==
    ASSUME NEW c, NEW lo, NEW Q, NEW S, NEW N, NEW F, Alive(c, lo, Q, S, N, F)
    PROVE  c.state # "CLOSED" /\ c.state # "LISTEN"
BY DEF Alive, Stream, Live

(* What is said of a connection is said of nothing else.                      *)
LEMMA FreshAdvances ==
    ASSUME NEW c, c.state \in {"LISTEN", "CLOSED"}, NEW d, NEW S, NEW N, NEW F
    PROVE  Advances(c, d, S, N, F)
BY LiveIs DEF Advances

(* A connection that stays where it is.                                       *)
LEMMA StaysOutcome ==
    ASSUME NEW c, NEW d, NEW S, NEW N, NEW F, NEW l \in Int, NEW P \in Int,
           Alive(c, l, P, S, N, F),
           \A lo, R \in Int : Alive(c, lo, R, S, N, F) => Alive(d, lo, R, S, N, F),
           d.given = c.given
    PROVE  Outcome(c, d, S, N, F)
<1>1. c.rcvWnd \in Nat
  BY Sizes DEF Alive, Fine, Window
<1>2. Advances(c, d, S, N, F)
  <2> SUFFICES ASSUME NEW lo \in Int, NEW R \in Int, Alive(c, lo, R, S, N, F)
               PROVE  \E Q \in Int : Alive(d, lo, Q, S, N, F) /\ R <= Q /\ Q <= R + c.rcvWnd
    BY Zenon DEF Advances
  <2>1. Alive(d, lo, R, S, N, F)
    OBVIOUS
  <2>2. R <= R /\ R <= R + c.rcvWnd
    BY <1>1
  <2> QED
    BY <2>1, <2>2, Zenon
<1> QED
  BY <1>2 DEF Outcome, Gets

(* A segment.                                                                 *)
LEMMA InputOutcome ==
    ASSUME NEW c, NEW S, NEW N, NEW F, Hosts(S, N, F), ServerOk(c, S, N, F),
           NEW seg, Arrives(seg, S, N, F), NEW a \in Replies, NEW b \in Replies
    PROVE  Outcome(c, tcp_input(c, seg, a, b), S, N, F)
<1> DEFINE d == tcp_input(c, seg, a, b)
           rst == tcp_rst(Plus(seg.ack, 1), End(seg))
           x == [c EXCEPT !.out = <<rst>>]
<1>0. "RST" \in rst.flags
  BY DEF tcp_rst
<1> HIDE DEF rst
<1>1. CASE c = Fresh
  <2>1. d = tcp_listen_input(Fresh, seg)
    BY <1>1, FreshIs DEF tcp_input
  <2>2. \/ d = Fresh \/ d = [Fresh EXCEPT !.out = <<rst>>]
        \/ Alive(d, 1, 1, S, N, F) /\ d.given = <<>>
    BY <2>1, ListenOk DEF rst
  <2> HIDE DEF d
  <2>3. Gets(c, d)
    BY <1>1, <2>2, FreshIs DEF Gets, Fresh
  <2>4. Advances(c, d, S, N, F)
    BY <1>1, FreshIs, FreshAdvances
  <2> QED
    BY <1>0, <2>2, <2>3, <2>4 DEF Outcome, Rejects, d
<1>2. CASE Dead(c, Heard(N), S) /\ c.out = <<>>
  <2>1. c.state = "CLOSED" /\ DOMAIN c = Fields /\ c.state # "LISTEN"
    BY <1>2 DEF Dead
  <2>2. d \in {c, x}
    BY <2>1, Zenon DEF tcp_input, tcp_listen_input, rst
  <2>3. /\ DOMAIN x = Fields /\ x.state = c.state /\ x.es = c.es
        /\ x.given = c.given /\ x.out = <<rst>>
    BY <2>1 DEF Fields, Fresh
  <2>4. Sequence(<<rst>>) /\ \A i \in 1 .. Len(<<rst>>) : "RST" \in (<<rst>>)[i].flags
    BY <1>0 DEF Sequence
  <2> HIDE DEF d, x
  <2>5. Dead(x, Heard(N), S)
    BY <1>2, <2>3, <2>4 DEF Dead, Told
  <2>6. Dead(d, Heard(N), S) /\ d.given = c.given
    BY <1>2, <2>2, <2>3, <2>5
  <2>7. Advances(c, d, S, N, F)
    BY <2>1, FreshAdvances
  <2> QED
    BY <2>6, <2>7 DEF Outcome, Gets, d
<1>3. CASE Settled(c) /\ \E lo, Q \in Int : Alive(c, lo, Q, S, N, F)
  <2>1. ASSUME NEW lo \in Int, NEW R \in Int, Alive(c, lo, R, S, N, F)
        PROVE  /\ \/ Dead(d, Heard(N), S)
                  \/ \E Q \in Int : Alive(d, lo, Q, S, N, F) /\ R <= Q /\ Q <= R + c.rcvWnd
               /\ Gets(c, d)
    <3>1. /\ \/ Dead(d, Heard(N), S)
             \/ \E Q : Alive(d, lo, Q, S, N, F) /\ Q <= R + c.rcvWnd /\ R <= Q
          /\ Gets(c, d)
      BY <1>3, <2>1, InputOk DEF Settled
    <3> HIDE DEF d
    <3> QED
      BY <3>1, Zenon DEF Alive
  <2> HIDE DEF d
  <2>2. Advances(c, d, S, N, F)
    BY <2>1, Zenon DEF Advances
  <2>3. PICK lo \in Int, R \in Int : Alive(c, lo, R, S, N, F)
    BY <1>3, Zenon
  <2>4. /\ Gets(c, d)
        /\ Dead(d, Heard(N), S) \/ \E l, Q \in Int : Alive(d, l, Q, S, N, F)
    BY <2>1, <2>3, Zenon
  <2> QED
    BY <2>2, <2>4 DEF Outcome, d
<1> QED
  BY <1>1, <1>2, <1>3 DEF ServerOk

-----------------------------------------------------------------------------
(* What a call leaves is cleared, and its segments go out.                    *)
Cleared(d) == [d EXCEPT !.out = <<>>, !.recv = <<>>, !.gotFin = FALSE]
Knows(chan, A) ==
    Sequence(chan)
    /\ \A i \in 1 .. Len(chan) : "RST" \in chan[i].flags \/ chan[i].ack \in A

(* What a call collected has been used: the connection is where it was.       *)
LEMMA ClearedAlive ==
    ASSUME NEW d, NEW lo, NEW Q, NEW S, NEW N, NEW F, Alive(d, lo, Q, S, N, F)
    PROVE  /\ Alive(Cleared(d), lo, Q, S, N, F) /\ Settled(Cleared(d))
           /\ Cleared(d).given = d.given /\ Knows(d.out, Heard(N))
<1> DEFINE e == Cleared(d)
<1>1. /\ DOMAIN e = Fields /\ e.unsent = d.unsent /\ e.unacked = d.unacked
      /\ e.out = <<>> /\ e.recv = <<>> /\ e.gotFin = FALSE /\ e.rcvNxt = d.rcvNxt
      /\ e.rcvWnd = d.rcvWnd /\ e.annWnd = d.annWnd /\ e.annEdge = d.annEdge
      /\ e.chain = d.chain /\ e.state = d.state /\ e.es = d.es /\ e.given = d.given
  BY DEF Cleared, Alive, Fine, Ok, Pcb, Fields, Fresh
<1> HIDE DEF e
<1>2. Told(e, Heard(N)) /\ Sequence(e.out)
  BY <1>1, Nothing DEF Told
<1>3. Fine(e, Heard(N), Q, lo)
  BY <1>1, <1>2 DEF Alive, Fine, Ok, Pcb, Window
<1>4. Stream(e, Q, S, N, F)
  BY <1>1 DEF Alive, Stream
<1>5. Knows(d.out, Heard(N))
  BY DEF Alive, Fine, Ok, Pcb, Told, Knows
<1> QED
  BY <1>1, <1>3, <1>4, <1>5 DEF Alive, Settled, e

(* So is a pcb that is gone.                                                  *)
LEMMA ClearedDead ==
    ASSUME NEW d, NEW A, NEW S, Dead(d, A, S)
    PROVE  /\ Dead(Cleared(d), A, S) /\ Cleared(d).out = <<>>
           /\ Cleared(d).given = d.given /\ Knows(d.out, A)
<1> DEFINE e == Cleared(d)
<1>1. /\ DOMAIN e = Fields /\ e.out = <<>> /\ e.state = d.state /\ e.es = d.es
      /\ e.given = d.given
  BY DEF Cleared, Dead, Fields, Fresh
<1> HIDE DEF e
<1>2. Told(e, A) /\ Sequence(e.out)
  BY <1>1, Nothing DEF Told
<1> QED
  BY <1>1, <1>2 DEF Dead, Told, Knows, e

(* So is one that listens.                                                    *)
LEMMA ClearedFresh ==
    ASSUME NEW d, NEW A, d = Fresh \/ Rejects(d)
    PROVE  Cleared(d) = Fresh /\ Knows(d.out, A) /\ d.given = <<>>
<1>1. CASE d = Fresh
  <2>1. Knows(<<>>, A)
    BY Nothing DEF Knows
  <2> QED
    BY <1>1, <2>1, FreshIs DEF Cleared, Fresh
<1>2. CASE Rejects(d)
  <2>1. PICK rst : "RST" \in rst.flags /\ d = [Fresh EXCEPT !.out = <<rst>>]
    BY <1>2 DEF Rejects
  <2>2. Knows(<<rst>>, A)
    BY <2>1 DEF Knows, Sequence
  <2>3. d.out = <<rst>>
    BY <2>1 DEF Fresh
  <2>4. d.given = <<>>
    BY <2>1 DEF Fresh
  <2>5. [d EXCEPT !.out = <<>>, !.recv = <<>>, !.gotFin = FALSE] = Fresh
    BY <2>1, FreshIs, FreshFcn
  <2>7. Cleared(d) = Fresh /\ d.given = <<>>
    BY <2>4, <2>5 DEF Cleared
  <2> QED
    BY <2>2, <2>3, <2>7
<1> QED
  BY <1>1, <1>2

(* Two queues of sound segments make one.                                     *)
LEMMA KnowsMore ==
    ASSUME NEW s, NEW t, NEW A, Knows(s, A), Knows(t, A)
    PROVE  Knows(s \o t, A)
BY ToldMore DEF Knows

(* The end of a call, when its segments have gone out.                        *)
LEMMA ServeOk ==
    ASSUME NEW S, NEW N, NEW F, NEW d, Outcome(srv, d, S, N, F), Serve(d),
           Knows(toHost, Heard(N))
    PROVE  /\ ServerOk(srv', S, N, F) /\ Knows(toHost', Heard(N))
           /\ Gets(srv, srv') /\ Advances(srv, srv', S, N, F)
<1> DEFINE e == Cleared(d)
<1>1. srv' = e /\ toHost' = toHost \o d.out
  BY DEF Serve, Cleared
<1> HIDE DEF e
<1>2. /\ d = Fresh \/ Rejects(d) => e = Fresh /\ Knows(d.out, Heard(N)) /\ d.given = e.given
      /\ Dead(d, Heard(N), S) => /\ Dead(e, Heard(N), S) /\ e.out = <<>>
                                 /\ e.given = d.given /\ Knows(d.out, Heard(N))
      /\ \A lo, Q \in Int : Alive(d, lo, Q, S, N, F) =>
            /\ Alive(e, lo, Q, S, N, F) /\ Settled(e)
            /\ e.given = d.given /\ Knows(d.out, Heard(N))
  BY ClearedFresh, ClearedDead, ClearedAlive, FreshIs DEF e
<1>3. ServerOk(e, S, N, F) /\ Knows(d.out, Heard(N)) /\ e.given = d.given
  BY <1>2 DEF Outcome, ServerOk
<1>4. Advances(srv, e, S, N, F)
  BY <1>2 DEF Outcome, Advances
<1>5. Gets(srv, e)
  BY <1>3 DEF Outcome, Gets
<1>6. Knows(toHost \o d.out, Heard(N))
  BY <1>3, KnowsMore
<1> QED
  BY <1>1, <1>3, <1>4, <1>5, <1>6

-----------------------------------------------------------------------------
(* The invariant.                                                             *)

(* The number of the host's next unit, and how many units it has sent.        *)
Number(h) == Diff(h.nxt, HostIss)
Sent(h) == IF h.state = "CLOSED" THEN 0
           ELSE Number(h) - (IF h.fin THEN 2 ELSE 1)

HostFields ==
    {"state", "una", "nxt", "right", "rcvNxt", "unread", "got", "fin", "hasty"}
HostOk(h) ==
    /\ DOMAIN h = HostFields
    /\ h.state \in {"CLOSED", "SYN_SENT", "ESTABLISHED", "FIN_WAIT", "DONE", "RESET"}
    /\ h.fin \in BOOLEAN /\ h.nxt \in Num
    /\ h.state = "CLOSED" => h.nxt = HostIss /\ h.fin = FALSE /\ h.unread = 0
    /\ h.state = "SYN_SENT" => h.fin = FALSE /\ Number(h) = 1
    /\ h.state = "ESTABLISHED" => h.fin = FALSE
    /\ h.state = "FIN_WAIT" => h.fin = TRUE
    /\ h.state # "CLOSED" => Sent(h) \in 0 .. Units
    /\ h.state \in {"ESTABLISHED", "FIN_WAIT", "DONE"} => h.una \in Heard(Number(h))

Sound(chan, h) ==
    /\ Sequence(chan)
    /\ \A i \in 1 .. Len(chan) : Arrives(chan[i], Sent(h), Number(h), h.fin)

AllOk(h, up, down, c) ==
    /\ HostOk(h)
    /\ h.state = "CLOSED" => up = <<>> /\ down = <<>> /\ c = Fresh
    /\ Sound(up, h) /\ Knows(down, Heard(Number(h)))
    /\ ServerOk(c, Sent(h), Number(h), h.fin)
LwipTcpOk == AllOk(host, toServer, toHost, srv)

(* HostSent is about the host alone.                                          *)
LEMMA SentIs == HostSent = Sent(host)
BY DEF HostSent, Sent, Number

(* The numbers of a host that has opened.                                     *)
LEMMA Opened ==
    ASSUME NEW h, HostOk(h), h.state # "CLOSED"
    PROVE  /\ Hosts(Sent(h), Number(h), h.fin) /\ Sent(h) \in Nat /\ Sent(h) <= Units
           /\ Number(h) \in Nat /\ Number(h) = Sent(h) + 1 + One(h.fin)
           /\ h.nxt = Plus(HostIss, Number(h)) /\ Number(h) \in 1 .. Number(h)
<1> DEFINE s == Sent(h)
           n == Number(h)
           o == One(h.fin)
<1>1. h.nxt = Plus(HostIss, n) /\ n \in Num
  BY Sizes, Offset DEF HostOk, Number
<1>2. Word \in Nat /\ Units \in Nat /\ Units + 2 < Half /\ Half \in Nat
  BY Sizes, LwipTcpAssumption DEF Half
<1>3. n \in Nat
  BY <1>1, <1>2 DEF Num
<1>4. o \in Nat /\ o <= 1 /\ s = n - (1 + o)
  BY DEF One, Sent, HostOk
<1>5. s \in 0 .. Units
  BY DEF HostOk
<1> HIDE DEF s, n, o
<1>6. n = s + 1 + o /\ s \in Nat /\ s <= Units /\ n < Half /\ n \in 1 .. n
  BY <1>2, <1>3, <1>4, <1>5
<1> QED
  BY <1>1, <1>3, <1>6 DEF Hosts, HostOk, s, n, o

(* A queue with nothing but what another has.                                 *)
Drawn(t, s) ==
    Sequence(t) /\ \A i \in 1 .. Len(t) : \E j \in 1 .. Len(s) : t[i] = s[j]

(* A member more leaves a queue drawn from another.                           *)
LEMMA DrawnOne ==
    ASSUME NEW s, NEW t, Drawn(t, s), Len(s) \in Nat, NEW j \in 1 .. Len(s)
    PROVE  Drawn(Append(t, s[j]), s)
<1> DEFINE a == Append(t, s[j])
<1>1. /\ Sequence(a) /\ Len(a) = Len(t) + 1 /\ a[Len(t) + 1] = s[j]
      /\ \A i \in 1 .. Len(t) : a[i] = t[i]
  BY Appended DEF Drawn
<1>2. Len(t) \in Nat
  BY DEF Drawn, Sequence
<1> HIDE DEF a
<1>3. \A i \in 1 .. Len(a) : i \in 1 .. Len(t) \/ i = Len(t) + 1
  BY <1>1, <1>2
<1> QED
  BY <1>1, <1>3 DEF Drawn, a

(* It has lost its first segment, or has it twice, or last.                   *)
LEMMA LossyOf ==
    ASSUME NEW s, Sequence(s), s # <<>>,
           NEW t, t \in {Tail(s), Append(s, Head(s)), Append(Tail(s), Head(s))}
    PROVE  Drawn(t, s)
<1> DEFINE v == Tail(s)
<1>1. /\ Len(s) \in Nat /\ Len(s) >= 1 /\ Sequence(v) /\ Len(v) = Len(s) - 1
      /\ \A i \in 1 .. Len(s) - 1 : v[i] = s[i + 1]
      /\ Head(s) = s[1]
  BY TailOf DEF Sequence
<1> HIDE DEF v
<1>2. \A i \in 1 .. Len(v) : i + 1 \in 1 .. Len(s) /\ v[i] = s[i + 1]
  BY <1>1
<1>3. Drawn(v, s) /\ Drawn(s, s) /\ 1 \in 1 .. Len(s)
  BY <1>1, <1>2 DEF Drawn
<1>4. Drawn(Append(v, s[1]), s) /\ Drawn(Append(s, s[1]), s)
  BY <1>1, <1>3, DrawnOne
<1> QED
  BY <1>1, <1>3, <1>4 DEF v

(* Two queues of segments of the host make one.                               *)
LEMMA SoundMore ==
    ASSUME NEW h, NEW s, Sound(s, h), NEW t, Sound(t, h)
    PROVE  Sound(s \o t, h)
<1> DEFINE u == s \o t
<1>1. /\ Sequence(u) /\ Len(u) = Len(s) + Len(t)
      /\ \A i \in 1 .. Len(s) : u[i] = s[i]
      /\ \A i \in 1 .. Len(t) : u[Len(s) + i] = t[i]
  BY Catenated DEF Sound
<1>2. Len(s) \in Nat /\ Len(t) \in Nat
  BY DEF Sound, Sequence
<1> HIDE DEF u
<1>3. ASSUME NEW i \in 1 .. Len(u)
      PROVE  Arrives(u[i], Sent(h), Number(h), h.fin)
  <2>1. CASE i <= Len(s)
    <3>1. i \in 1 .. Len(s)
      BY <1>1, <1>2, <2>1
    <3> QED
      BY <1>1, <3>1 DEF Sound
  <2>2. CASE i > Len(s)
    <3> DEFINE j == i - Len(s)
    <3>1. j \in 1 .. Len(t) /\ Len(s) + j = i
      BY <1>1, <1>2, <2>2
    <3> HIDE DEF j
    <3> QED
      BY <1>1, <3>1 DEF Sound
  <2> QED
    BY <1>1, <1>2, <2>1, <2>2
<1> QED
  BY <1>1, <1>3 DEF Sound, u

(* So does one segment.                                                       *)
LEMMA SoundOne ==
    ASSUME NEW h, NEW seg, Arrives(seg, Sent(h), Number(h), h.fin)
    PROVE  Sound(<<seg>>, h)
BY DEF Sound, Sequence

(* So does none.                                                              *)
LEMMA SoundNone == ASSUME NEW h PROVE Sound(<<>>, h)
BY Nothing DEF Sound

(* What the host does: it changes, and says something.                        *)
LEMMA HostActs ==
    ASSUME LwipTcpOk, NEW h, HostOk(h), h.state # "CLOSED",
           Grows(Sent(host), Number(host), host.fin, Sent(h), Number(h), h.fin),
           NEW segs, Sound(segs, h), Hears(h, segs), UNCHANGED srv,
           \/ UNCHANGED toHost
           \/ toHost # <<>> /\ toHost' = Tail(toHost)
    PROVE  LwipTcpOk'
<1> DEFINE S == Sent(host)
           N == Number(host)
           F == host.fin
           T == Sent(h)
           M == Number(h)
           G == h.fin
<1>1. host' = h /\ toServer' = toServer \o segs
  BY DEF Hears
<1>2. /\ Sequence(toServer) /\ \A i \in 1 .. Len(toServer) : Arrives(toServer[i], S, N, F)
      /\ Knows(toHost, Heard(N)) /\ ServerOk(srv, S, N, F)
  BY DEF LwipTcpOk, AllOk, Sound
<1> HIDE DEF S, N, F, T, M, G
<1>3. Grows(S, N, F, T, M, G)
  BY DEF S, N, F, T, M, G
<1>4. Sound(toServer, h)
  BY <1>2, <1>3, ArrivesGrows DEF Sound, T, M, G
<1>5. Sound(toServer', h)
  BY <1>1, <1>4, SoundMore
<1>6. ServerOk(srv, T, M, G)
  <2>1. CASE srv = Fresh
    BY <2>1 DEF ServerOk
  <2>2. CASE Dead(srv, Heard(N), S) /\ srv.out = <<>>
    BY <1>3, <2>2, DeadGrows DEF ServerOk
  <2>3. CASE Settled(srv) /\ \E lo, Q \in Int : Alive(srv, lo, Q, S, N, F)
    BY <1>3, <2>3, AliveGrows DEF ServerOk
  <2> QED
    BY <1>2, <2>1, <2>2, <2>3 DEF ServerOk
<1>7. Knows(toHost', Heard(M))
  <2>1. Heard(N) \subseteq Heard(M)
    BY <1>3, HeardGrows DEF Grows
  <2>2. Knows(toHost, Heard(M))
    BY <1>2, <2>1 DEF Knows
  <2>3. CASE UNCHANGED toHost
    BY <2>2, <2>3
  <2>4. CASE toHost # <<>> /\ toHost' = Tail(toHost)
    <3>1. Sequence(toHost) /\ Drawn(Tail(toHost), toHost)
      BY <2>2, <2>4, LossyOf, Zenon DEF Knows
    <3>2. Sequence(toHost') /\ \A i \in 1 .. Len(toHost') : \E j \in 1 .. Len(toHost) :
              toHost'[i] = toHost[j]
      BY <2>4, <3>1, Zenon DEF Drawn
    <3> QED
      BY <2>2, <3>2, Zenon DEF Knows
  <2> QED
    BY <2>2, <2>3, <2>4
<1>8. AllOk(h, toServer', toHost', srv)
  BY <1>5, <1>6, <1>7 DEF AllOk, T, M, G
<1> QED
  BY <1>1, <1>8 DEF LwipTcpOk

(* What the server does.                                                      *)
LEMMA ServerActs ==
    ASSUME LwipTcpOk, NEW d, Outcome(srv, d, HostSent, Number(host), host.fin), Serve(d),
           UNCHANGED host, host.state # "CLOSED",
           \/ UNCHANGED toServer
           \/ toServer # <<>> /\ toServer' = Tail(toServer)
    PROVE  /\ LwipTcpOk' /\ Gets(srv, srv')
           /\ Advances(srv, srv', HostSent, Number(host), host.fin)
<1>1. Sound(toServer', host)
  <2>1. Sound(toServer, host)
    BY DEF LwipTcpOk, AllOk
  <2>2. CASE UNCHANGED toServer
    BY <2>1, <2>2
  <2>3. CASE toServer # <<>> /\ toServer' = Tail(toServer)
    BY <2>1, <2>3, LossyOf DEF Sound, Drawn
  <2> QED
    BY <2>2, <2>3
<1>2. Knows(toHost, Heard(Number(host)))
  BY DEF LwipTcpOk, AllOk
<1>3. /\ ServerOk(srv', Sent(host), Number(host), host.fin)
      /\ Knows(toHost', Heard(Number(host))) /\ Gets(srv, srv')
      /\ Advances(srv, srv', HostSent, Number(host), host.fin)
  BY <1>2, SentIs, ServeOk
<1>4. AllOk(host, toServer', toHost', srv')
  BY <1>1, <1>3 DEF LwipTcpOk, AllOk
<1> QED
  BY <1>3, <1>4 DEF LwipTcpOk

-----------------------------------------------------------------------------
(* The server's steps.                                                        *)

(* A step of the server's pcb: what it must keep.                             *)
ServerKeeps ==
    /\ LwipTcpOk' /\ UNCHANGED host /\ Gets(srv, srv')
    /\ Advances(srv, srv', HostSent, Number(host), host.fin)

(* A pcb that is there belongs to a host that has opened.                     *)
LEMMA ServerLives ==
    ASSUME LwipTcpOk, srv # Fresh \/ toServer # <<>>
    PROVE  /\ host.state # "CLOSED" /\ HostOk(host)
           /\ Hosts(HostSent, Number(host), host.fin)
           /\ ServerOk(srv, HostSent, Number(host), host.fin)
           /\ Sound(toServer, host)
<1>1. host.state # "CLOSED" /\ HostOk(host)
  BY DEF LwipTcpOk, AllOk
<1>2. Hosts(Sent(host), Number(host), host.fin)
  BY <1>1, Opened
<1> QED
  BY <1>1, <1>2, SentIs DEF LwipTcpOk, AllOk

(* A pcb that is neither listening nor gone is a connection at some place in  *)
(* the stream.                                                                *)
LEMMA LivesAt ==
    ASSUME NEW c, NEW S, NEW N, NEW F, ServerOk(c, S, N, F),
           c.state \notin {"LISTEN", "CLOSED"}
    PROVE  /\ c # Fresh /\ Settled(c) /\ \E lo, Q \in Int : Alive(c, lo, Q, S, N, F)
BY FreshIs DEF ServerOk, Dead

(* A segment for the server.                                                  *)
LEMMA ReceiveKeeps == LwipTcpOk /\ ServerReceive => ServerKeeps
<1> SUFFICES ASSUME LwipTcpOk, ServerReceive PROVE ServerKeeps
  OBVIOUS
<1>1. PICK a \in Replies, b \in Replies : Serve(tcp_input(srv, Head(toServer), a, b))
  BY DEF ServerReceive
<1>2. toServer # <<>> /\ toServer' = Tail(toServer) /\ UNCHANGED host
  BY DEF ServerReceive
<1>3. /\ host.state # "CLOSED" /\ Hosts(HostSent, Number(host), host.fin)
      /\ ServerOk(srv, HostSent, Number(host), host.fin) /\ Sound(toServer, host)
  BY <1>2, ServerLives
<1>4. Arrives(Head(toServer), HostSent, Number(host), host.fin)
  <2>1. Sequence(toServer) /\ Len(toServer) \in Nat
    BY <1>3 DEF Sound, Sequence
  <2>2. Head(toServer) = toServer[1] /\ Len(toServer) >= 1
    BY <1>2, <2>1, TailOf
  <2>3. 1 \in 1 .. Len(toServer)
    BY <2>1, <2>2
  <2> QED
    BY <1>3, <2>2, <2>3, SentIs DEF Sound
<1>5. Outcome(srv, tcp_input(srv, Head(toServer), a, b), HostSent, Number(host), host.fin)
  BY <1>3, <1>4, InputOutcome
<1> QED
  BY <1>1, <1>2, <1>3, <1>5, ServerActs DEF ServerKeeps

(* A call that leaves the connection where it is.                             *)
LEMMA LiveKeeps ==
    ASSUME LwipTcpOk, NEW d, Serve(d), UNCHANGED <<host, toServer>>,
           Active,
           \A lo, Q \in Int :
              Alive(srv, lo, Q, HostSent, Number(host), host.fin) =>
                 Alive(d, lo, Q, HostSent, Number(host), host.fin) /\ d.given = srv.given
    PROVE  ServerKeeps
<1>1. srv.state \notin {"LISTEN", "CLOSED"}
  BY DEF Active
<1>2. srv # Fresh
  BY <1>1, FreshIs
<1>3. host.state # "CLOSED" /\ ServerOk(srv, HostSent, Number(host), host.fin)
  BY <1>2, ServerLives
<1>4. \E lo, Q \in Int : Alive(srv, lo, Q, HostSent, Number(host), host.fin)
  BY <1>1, <1>3, LivesAt
<1>5. Outcome(srv, d, HostSent, Number(host), host.fin)
  BY <1>4, StaysOutcome
<1> QED
  BY <1>3, <1>5, ServerActs DEF ServerKeeps

(* The pcb that is given up.                                                  *)
LEMMA GiveUpKeeps ==
    ASSUME LwipTcpOk, Active, GiveUp, UNCHANGED <<host, toServer>>
    PROVE  ServerKeeps
<1> DEFINE d == [Gone(srv) EXCEPT !.gaveUp = TRUE]
           S == HostSent
           N == Number(host)
           F == host.fin
<1>1. srv.state \notin {"LISTEN", "CLOSED"}
  BY DEF Active
<1>2. srv # Fresh
  BY <1>1, FreshIs
<1>3. host.state # "CLOSED" /\ ServerOk(srv, S, N, F)
  BY <1>2, ServerLives
<1> HIDE DEF S, N, F
<1>4. PICK lo \in Int, Q \in Int : Alive(srv, lo, Q, S, N, F)
  BY <1>1, <1>3, LivesAt
<1>5. Dead(d, Heard(N), S) /\ d.given = srv.given
  BY <1>4, GiveUpOk
<1>6. Serve(d)
  BY DEF GiveUp
<1> HIDE DEF d
<1>7. Outcome(srv, d, S, N, F)
  BY <1>5 DEF Outcome, Gets, Advances
<1> QED
  BY <1>3, <1>6, <1>7, ServerActs DEF ServerKeeps, S, N, F

(* tcp_slowtmr, nothing due.                                                  *)
LEMMA SlowTmrKeeps == LwipTcpOk /\ SlowTmr => ServerKeeps
<1> SUFFICES ASSUME LwipTcpOk, SlowTmr PROVE ServerKeeps
  OBVIOUS
<1>1. Active /\ UNCHANGED <<host, toServer>> /\ (GiveUp \/ Polled(srv))
  BY DEF SlowTmr
<1>2. CASE GiveUp
  BY <1>1, <1>2, GiveUpKeeps
<1>3. CASE Polled(srv)
  <2>1. PICK a \in Replies : Serve(tcp_output(tcp_server_sent(srv, a)))
    BY <1>3 DEF Polled
  <2>2. \A lo, Q \in Int :
           Alive(srv, lo, Q, HostSent, Number(host), host.fin) =>
              /\ Alive(tcp_output(tcp_server_sent(srv, a)), lo, Q, HostSent,
                       Number(host), host.fin)
              /\ tcp_output(tcp_server_sent(srv, a)).given = srv.given
    BY PolledOk
  <2> QED
    BY <1>1, <2>1, <2>2, LiveKeeps
<1> QED
  BY <1>1, <1>2, <1>3

(* tcp_slowtmr, a retransmission or a probe due.                              *)
LEMMA ExpiredKeeps == LwipTcpOk /\ SlowTmrExpired => ServerKeeps
<1> SUFFICES ASSUME LwipTcpOk, SlowTmrExpired PROVE ServerKeeps
  OBVIOUS
<1> DEFINE c == Expired(srv)
<1>1. Active /\ UNCHANGED <<host, toServer>> /\ Polled(c)
  BY DEF SlowTmrExpired
<1>2. \A lo, Q \in Int : Alive(srv, lo, Q, HostSent, Number(host), host.fin) =>
           Alive(c, lo, Q, HostSent, Number(host), host.fin) /\ c.given = srv.given
  BY ExpiredOk
<1> HIDE DEF c
<1>3. PICK a \in Replies : Serve(tcp_output(tcp_server_sent(c, a)))
  BY <1>1 DEF Polled
<1> DEFINE d == tcp_output(tcp_server_sent(c, a))
<1>4. \A lo, Q \in Int : Alive(c, lo, Q, HostSent, Number(host), host.fin) =>
           Alive(d, lo, Q, HostSent, Number(host), host.fin) /\ d.given = c.given
  BY PolledOk
<1>5. Serve(d)
  BY <1>3
<1> HIDE DEF d
<1>6. \A lo, Q \in Int : Alive(srv, lo, Q, HostSent, Number(host), host.fin) =>
           Alive(d, lo, Q, HostSent, Number(host), host.fin) /\ d.given = srv.given
  BY <1>2, <1>4
<1> QED
  BY <1>1, <1>5, <1>6, LiveKeeps

(* tcp_keepalive.                                                             *)
LEMMA KeepaliveKeeps == LwipTcpOk /\ Keepalive => ServerKeeps
<1> SUFFICES ASSUME LwipTcpOk, Keepalive PROVE ServerKeeps
  OBVIOUS
<1> DEFINE d == [Announced(srv) EXCEPT
                   !.out = <<Segment(srv, Plus(srv.sndNxt, -1), <<>>, {})>>]
<1>1. Active /\ UNCHANGED <<host, toServer>> /\ Serve(d)
  BY DEF Keepalive, Idle, Active
<1>2. srv.out = <<>>
  <2>1. srv # Fresh /\ srv.state \notin {"LISTEN", "CLOSED"}
    BY <1>1, FreshIs DEF Active
  <2>2. ServerOk(srv, HostSent, Number(host), host.fin)
    BY <2>1, ServerLives
  <2> QED
    BY <2>1, <2>2, LivesAt DEF Settled
<1>3. \A lo, Q \in Int : Alive(srv, lo, Q, HostSent, Number(host), host.fin) =>
           Alive(d, lo, Q, HostSent, Number(host), host.fin) /\ d.given = srv.given
  BY <1>2, KeepaliveOk
<1> HIDE DEF d
<1> QED
  BY <1>1, <1>3, LiveKeeps

(* tcp_fasttmr.                                                               *)
LEMMA FastTmrKeeps == LwipTcpOk /\ FastTmr => ServerKeeps
<1> SUFFICES ASSUME LwipTcpOk, FastTmr PROVE ServerKeeps
  OBVIOUS
<1> DEFINE d == [tcp_output([srv EXCEPT !.ackNow = TRUE])
                   EXCEPT !.ackNow = FALSE, !.ackDelay = FALSE]
<1>1. Active /\ UNCHANGED <<host, toServer>> /\ Serve(d)
  BY DEF FastTmr
<1>2. \A lo, Q \in Int : Alive(srv, lo, Q, HostSent, Number(host), host.fin) =>
           Alive(d, lo, Q, HostSent, Number(host), host.fin) /\ d.given = srv.given
  BY FastOk
<1> HIDE DEF d
<1> QED
  BY <1>1, <1>2, LiveKeeps

(* The main loop's answer to an erase.                                        *)
LEMMA MainWriteKeeps == LwipTcpOk /\ MainWrite => ServerKeeps
<1> SUFFICES ASSUME LwipTcpOk, MainWrite PROVE ServerKeeps
  OBVIOUS
<1> DEFINE d == [tcp_write(srv, EraseAnswer) EXCEPT !.erasing = FALSE]
<1>1. srv.erasing /\ UNCHANGED <<host, toServer>> /\ Serve(d)
  BY DEF MainWrite
<1>2. \A lo, Q \in Int : Alive(srv, lo, Q, HostSent, Number(host), host.fin) =>
           Alive(d, lo, Q, HostSent, Number(host), host.fin) /\ d.given = srv.given
  BY MainOk
<1>3. CASE Active
  <2> HIDE DEF d
  <2> QED
    BY <1>1, <1>2, <1>3, LiveKeeps
<1>4. CASE ~Active
  <2> DEFINE S == HostSent
             N == Number(host)
             F == host.fin
  <2>1. srv # Fresh
    BY <1>1, FreshIs
  <2>2. host.state # "CLOSED" /\ ServerOk(srv, S, N, F)
    BY <2>1, ServerLives
  <2>3. srv.state \in {"LISTEN", "CLOSED"}
    BY <1>4 DEF Active
  <2> HIDE DEF S, N, F
  <2>4. Dead(srv, Heard(N), S)
    BY <2>1, <2>2, <2>3, LiveIs DEF ServerOk
  <2>5. Dead(d, Heard(N), S) /\ d.given = srv.given
    BY <2>4, MainDead
  <2> HIDE DEF d
  <2>6. Outcome(srv, d, S, N, F)
    BY <2>3, <2>5, FreshAdvances DEF Outcome, Gets
  <2> QED
    BY <1>1, <2>2, <2>6, ServerActs DEF ServerKeeps, S, N, F
<1> QED
  BY <1>3, <1>4

-----------------------------------------------------------------------------
(* The host's steps.                                                          *)

(* A step of the host: what it must keep.                                     *)
HostKeeps == LwipTcpOk' /\ UNCHANGED srv /\ HostSent' >= HostSent

(* SentIs after a step.                                                       *)
LEMMA SentNext == HostSent' = Sent(host')
BY DEF HostSent, Sent, Number

(* HostActs, with the units sent.                                             *)
LEMMA HostActsKeeps ==
    ASSUME LwipTcpOk, NEW h, HostOk(h), h.state # "CLOSED",
           Grows(Sent(host), Number(host), host.fin, Sent(h), Number(h), h.fin),
           NEW segs, Sound(segs, h), Hears(h, segs), UNCHANGED srv,
           \/ UNCHANGED toHost
           \/ toHost # <<>> /\ toHost' = Tail(toHost)
    PROVE  HostKeeps
<1>1. LwipTcpOk'
  BY HostActs
<1>2. host' = h
  BY DEF Hears
<1>3. Sent(h) >= Sent(host)
  BY DEF Grows
<1> QED
  BY <1>1, <1>2, <1>3, SentIs, SentNext DEF HostKeeps

(* Where the host stays in its stream.                                        *)
LEMMA GrowsNot ==
    ASSUME NEW g, HostOk(g), g.state # "CLOSED", NEW h, h.state # "CLOSED",
           h.nxt = g.nxt, h.fin = g.fin
    PROVE  /\ Number(h) = Number(g) /\ Sent(h) = Sent(g)
           /\ Grows(Sent(g), Number(g), g.fin, Sent(h), Number(h), h.fin)
<1>1. Number(h) = Number(g) /\ Sent(h) = Sent(g)
  BY DEF Number, Sent
<1> QED
  BY <1>1, Opened DEF Grows

(* Segments of the host.                                                      *)
LEMMA CarriesOne ==
    ASSUME NEW h, HostOk(h), h.state # "CLOSED",
           NEW u, u \in 1 .. Number(h), NEW seq, seq = Plus(HostIss, u),
           NEW data, Run(data, u), data # <<>> => u + Len(data) <= Sent(h) + 1,
           NEW flags, "SYN" \notin flags,
           "FIN" \in flags => h.fin /\ u + Len(data) + 1 = Number(h),
           NEW g
    PROVE  Arrives(HostSegment(g, seq, data, flags), Sent(h), Number(h), h.fin)
<1> DEFINE s == HostSegment(g, seq, data, flags)
<1>1. s.seq = seq /\ s.data = data /\ s.flags = flags \cup {"ACK"}
  BY DEF HostSegment
<1>2. "SYN" \notin s.flags /\ ("FIN" \in s.flags => "FIN" \in flags)
  BY <1>1
<1> HIDE DEF s
<1>3. Carries(s, u, Sent(h), Number(h), h.fin)
  BY <1>1, <1>2 DEF Carries
<1> QED
  BY <1>3 DEF Arrives, s

(* An empty segment in its place is one of the host.                          *)
LEMMA AcksArrive ==
    ASSUME NEW h, HostOk(h), h.state # "CLOSED", NEW g
    PROVE  Arrives(HostSegment(g, h.nxt, <<>>, {}), Sent(h), Number(h), h.fin)
<1>1. h.nxt = Plus(HostIss, Number(h)) /\ Number(h) \in 1 .. Number(h)
  BY Opened
<1>2. Run(<<>>, Number(h))
  BY Nothing DEF Run
<1> QED
  BY <1>1, <1>2, CarriesOne

(* What Numbered makes is a run of the stream.                                *)
LEMMA NumberedRun ==
    ASSUME NEW u \in Nat, NEW n \in Nat, u < Word
    PROVE  /\ Run(Numbered(Plus(HostIss, u), n), u)
           /\ Len(Numbered(Plus(HostIss, u), n)) = n
<1> DEFINE d == Diff(Plus(HostIss, u), HostIss)
           s == Numbered(Plus(HostIss, u), n)
<1>1. d = u
  <2>1. HostIss \in Num /\ HostIss \in Int /\ u - 0 \in Num
    BY Sizes DEF Num
  <2>2. Plus(HostIss, 0) = HostIss
    BY <2>1, Zero
  <2>3. Diff(Plus(HostIss, u), Plus(HostIss, 0)) = u - 0
    BY <2>1, Distance
  <2> QED
    BY <2>2, <2>3
<1>2. s = [i \in 1 .. n |-> d + i - 1]
  BY DEF Numbered
<1> HIDE DEF d, s
<1>3. Len(s) = n /\ \A i \in 1 .. n : s[i] = u + i - 1
  BY <1>1, <1>2
<1>4. Sequence(s)
  BY <1>2, <1>3 DEF Sequence
<1> QED
  BY <1>3, <1>4 DEF Run, s

(* The number of a unit is its distance from HostIss.                         *)
LEMMA NumberAt ==
    ASSUME NEW u \in Nat, u < Word, NEW h, h.nxt = Plus(HostIss, u)
    PROVE  Number(h) = u
<1>1. HostIss \in Num /\ HostIss \in Int /\ u - 0 \in Num
  BY Sizes DEF Num
<1>2. Plus(HostIss, 0) = HostIss
  BY <1>1, Zero
<1>3. Diff(Plus(HostIss, u), Plus(HostIss, 0)) = u - 0
  BY <1>1, Distance
<1> QED
  BY <1>2, <1>3 DEF Number

(* The host sends n units more.                                               *)
LEMMA SendsMore ==
    ASSUME NEW g, HostOk(g), g.state = "ESTABLISHED", NEW n \in Nat,
           Sent(g) + n <= Units, NEW x
    PROVE  LET h == [g EXCEPT !.nxt = Plus(@, n)]
           IN  /\ HostOk(h) /\ h.state # "CLOSED"
               /\ Grows(Sent(g), Number(g), g.fin, Sent(h), Number(h), h.fin)
               /\ Sound(<<HostSegment(x, g.nxt, Numbered(g.nxt, n), {})>>, h)
<1> DEFINE p == Plus(g.nxt, n)
           h == [g EXCEPT !.nxt = p]
           N == Number(g)
           S == Sent(g)
           data == Numbered(g.nxt, n)
<1>1. /\ S \in Nat /\ N \in Nat /\ N = S + 1 /\ g.nxt = Plus(HostIss, N) /\ g.fin = FALSE
      /\ g.state # "CLOSED" /\ DOMAIN g = HostFields
  <2>1. g.fin = FALSE /\ g.state # "CLOSED" /\ DOMAIN g = HostFields
    BY DEF HostOk
  <2>2. One(g.fin) = 0
    BY <2>1 DEF One
  <2>3. /\ S \in Nat /\ N \in Nat /\ N = S + 1 + One(g.fin)
        /\ g.nxt = Plus(HostIss, N)
    BY <2>1, Opened
  <2> HIDE DEF S, N
  <2> QED
    BY <2>1, <2>2, <2>3
<1>2. Word \in Nat /\ Units \in Nat /\ Units + 2 < Half /\ Half \in Nat /\ Half <= Word
      /\ HostIss \in Int
  <2>1. Units + 2 < Half /\ Units \in Nat
    BY LwipTcpAssumption DEF Half
  <2>2. Word \in Nat /\ Half \in Nat /\ Half <= Word /\ HostIss \in Int
    BY Sizes DEF Num
  <2> QED
    BY <2>1, <2>2
<1>3. S + n <= Units
  OBVIOUS
<1> HIDE DEF S, N
<1>4. N + n < Word /\ N < Word /\ N + n \in Nat
  BY <1>1, <1>2, <1>3
<1>5. p = Plus(HostIss, N + n)
  BY <1>1, <1>2, PlusPlus
<1>6. p \in Num
  <2>1. N + n \in Int
    BY <1>4
  <2> QED
    BY <1>2, <1>5, <2>1, PlusType
<1> HIDE DEF p
<1>7. /\ DOMAIN h = HostFields /\ h.nxt = p /\ h.state = g.state /\ h.fin = g.fin
      /\ h.una = g.una
  BY <1>1 DEF HostFields
<1> HIDE DEF h
<1>8. Number(h) = N + n
  BY <1>4, <1>5, <1>7, NumberAt
<1>9. Sent(h) = S + n
  <2>1. Sent(h) = Number(h) - 1
    BY <1>1, <1>7 DEF Sent
  <2> QED
    BY <1>1, <1>8, <2>1
<1>10. N <= N + n /\ S <= S + n /\ S + n \in 0 .. Units /\ S + n \in Nat
  BY <1>1, <1>2, <1>3
<1>11. Heard(N) \subseteq Heard(N + n)
  BY <1>1, <1>4, <1>10, HeardGrows
<1>12. HostOk(h)
  BY <1>1, <1>6, <1>7, <1>8, <1>9, <1>10, <1>11 DEF HostOk, N
<1>13. Run(data, N) /\ Len(data) = n
  BY <1>1, <1>4, NumberedRun
<1> HIDE DEF data
<1>14. Arrives(HostSegment(x, g.nxt, data, {}), Sent(h), Number(h), h.fin)
  <2>1. N \in 1 .. Number(h)
    BY <1>1, <1>8, <1>10
  <2>2. N + Len(data) <= Sent(h) + 1
    BY <1>1, <1>9, <1>13
  <2> QED
    BY <1>1, <1>7, <1>12, <1>13, <2>1, <2>2, CarriesOne
<1>15. Grows(S, N, g.fin, Sent(h), Number(h), h.fin)
  BY <1>1, <1>4, <1>8, <1>9, <1>10 DEF Grows
<1> QED
  BY <1>1, <1>7, <1>12, <1>14, <1>15, SoundOne DEF h, p, S, N, data

(* The host's part of the invariant.                                          *)
LEMMA HostIs == ASSUME LwipTcpOk PROVE HostOk(host)
BY DEF LwipTcpOk, AllOk

(* The SYN is a segment of the host.                                          *)
LEMMA SynArrives ==
    ASSUME NEW h, NEW g
    PROVE  Arrives([HostSegment(g, HostIss, <<>>, {}) EXCEPT !.flags = {"SYN"}],
                   Sent(h), Number(h), h.fin)
<1> DEFINE s == [HostSegment(g, HostIss, <<>>, {}) EXCEPT !.flags = {"SYN"}]
<1>1. s.flags = {"SYN"} /\ s.seq = HostIss
  BY DEF HostSegment
<1> QED
  BY <1>1 DEF Arrives

(* The host opens.                                                            *)
LEMMA OpenKeeps == LwipTcpOk /\ HostOpen => HostKeeps
<1> SUFFICES ASSUME LwipTcpOk, HostOpen PROVE HostKeeps
  OBVIOUS
<1> DEFINE p == Plus(host.nxt, 1)
           h == [host EXCEPT !.state = "SYN_SENT", !.nxt = p]
           segs == <<[HostSegment(host, HostIss, <<>>, {}) EXCEPT !.flags = {"SYN"}]>>
<1>1. /\ host.state = "CLOSED" /\ Hears(h, segs) /\ UNCHANGED <<srv, toHost>>
  BY DEF HostOpen
<1>2. /\ HostOk(host) /\ DOMAIN host = HostFields /\ host.nxt = HostIss /\ host.fin = FALSE
      /\ HostIss \in Num /\ HostIss \in Int /\ 1 < Word /\ 0 < Word /\ Units \in Nat
  <2>1. HostOk(host)
    BY HostIs
  <2>2. HostIss \in Num /\ HostIss \in Int /\ Units \in Nat /\ 1 < Word /\ 0 < Word
    BY Sizes DEF Num
  <2> QED
    BY <1>1, <2>1, <2>2 DEF HostOk
<1>3. p \in Num
  BY <1>2, PlusType
<1>4. p = Plus(HostIss, 1)
  BY <1>2
<1>5. host.nxt = Plus(HostIss, 0)
  BY <1>2, Zero
<1>6. Number(host) = 0 /\ Sent(host) = 0
  BY <1>1, <1>2, <1>5, NumberAt DEF Sent
<1> HIDE DEF p, segs
<1>7. DOMAIN h = HostFields /\ h.state = "SYN_SENT" /\ h.nxt = p /\ h.fin = FALSE
  BY <1>2 DEF HostFields
<1> HIDE DEF h
<1>8. Number(h) = 1
  BY <1>2, <1>4, <1>7, NumberAt
<1>9. Sent(h) = 0
  BY <1>7, <1>8 DEF Sent
<1>10. HostOk(h)
  <2>1. 0 \in 0 .. Units
    BY <1>2
  <2> QED
    BY <1>3, <1>7, <1>8, <1>9, <2>1 DEF HostOk
<1>11. Grows(Sent(host), Number(host), host.fin, Sent(h), Number(h), h.fin)
  BY <1>2, <1>6, <1>8, <1>9 DEF Grows
<1>12. Sound(segs, h)
  BY SynArrives, SoundOne DEF segs
<1> QED
  BY <1>1, <1>7, <1>10, <1>11, <1>12, HostActsKeeps

(* The host sends a command.                                                  *)
LEMMA SendKeeps == LwipTcpOk /\ HostSend => HostKeeps
<1> SUFFICES ASSUME LwipTcpOk, HostSend PROVE HostKeeps
  OBVIOUS
<1>1. PICK n \in Commands :
         /\ HostSent + n <= Units
         /\ Hears([host EXCEPT !.nxt = Plus(@, n)],
                  <<HostSegment(host, host.nxt, Numbered(host.nxt, n), {})>>)
  BY DEF HostSend, MaySend
<1>2. host.state = "ESTABLISHED" /\ UNCHANGED <<srv, toHost>> /\ HostOk(host)
  BY HostIs DEF HostSend
<1>3. n \in Nat /\ Sent(host) + n <= Units
  <2>1. Commands \subseteq 1 .. Mss /\ Mss \in Nat
    BY LwipTcpAssumption, Sizes
  <2>2. n \in Nat
    BY <2>1
  <2> QED
    BY <1>1, <2>2, SentIs
<1> DEFINE h == [host EXCEPT !.nxt = Plus(@, n)]
           segs == <<HostSegment(host, host.nxt, Numbered(host.nxt, n), {})>>
<1>4. /\ HostOk(h) /\ h.state # "CLOSED" /\ Sound(segs, h)
      /\ Grows(Sent(host), Number(host), host.fin, Sent(h), Number(h), h.fin)
  BY <1>2, <1>3, SendsMore
<1>5. Hears(h, segs)
  BY <1>1
<1> HIDE DEF h, segs
<1> QED
  BY <1>2, <1>4, <1>5, HostActsKeeps

(* A host that does not move in its stream, and says something.               *)
LEMMA StaysKeeps ==
    ASSUME LwipTcpOk, host.state # "CLOSED", NEW h, DOMAIN h = HostFields,
           h.nxt = host.nxt, h.fin = host.fin, h.state # "CLOSED",
           \/ h.state = host.state /\ h.una = host.una
           \/ h.state = "RESET"
           \/ /\ h.state \in {"ESTABLISHED", "DONE"} \cup {host.state}
              /\ host.state = "SYN_SENT" \/ h.state \in {"DONE", host.state}
              /\ h.una \in Heard(Number(host)),
           NEW segs, Sound(segs, h), Hears(h, segs), UNCHANGED srv,
           \/ UNCHANGED toHost
           \/ toHost # <<>> /\ toHost' = Tail(toHost)
    PROVE  HostKeeps
<1>1. HostOk(host)
  BY HostIs
<1>2. /\ Number(h) = Number(host) /\ Sent(h) = Sent(host)
      /\ Grows(Sent(host), Number(host), host.fin, Sent(h), Number(h), h.fin)
  BY <1>1, GrowsNot
<1>3. HostOk(h)
  BY <1>1, <1>2 DEF HostOk
<1> QED
  BY <1>2, <1>3, HostActsKeeps

(* The host stops waiting for answers.                                        *)
LEMMA HastesKeeps == LwipTcpOk /\ HostHastes => HostKeeps
<1> SUFFICES ASSUME LwipTcpOk, HostHastes PROVE HostKeeps
  OBVIOUS
<1> DEFINE h == [host EXCEPT !.hasty = TRUE]
<1>1. host.state = "ESTABLISHED" /\ Hears(h, <<>>) /\ UNCHANGED <<srv, toHost>>
  BY DEF HostHastes
<1>2. /\ DOMAIN h = HostFields /\ h.state = host.state /\ h.nxt = host.nxt
      /\ h.fin = host.fin /\ h.una = host.una
  BY HostIs DEF HostOk, HostFields
<1>3. Sound(<<>>, h)
  BY SoundNone
<1> HIDE DEF h
<1> QED
  BY <1>1, <1>2, <1>3, StaysKeeps

(* The host sends its FIN.                                                    *)
LEMMA CloseKeeps == LwipTcpOk /\ HostClose => HostKeeps
<1> SUFFICES ASSUME LwipTcpOk, HostClose PROVE HostKeeps
  OBVIOUS
<1> DEFINE p == Plus(host.nxt, 1)
           h == [host EXCEPT !.state = "FIN_WAIT", !.nxt = p, !.fin = TRUE]
           segs == <<HostSegment(host, host.nxt, <<>>, {"FIN"})>>
           N == Number(host)
           S == Sent(host)
<1>1. host.state = "ESTABLISHED" /\ Hears(h, segs) /\ UNCHANGED <<srv, toHost>>
  BY DEF HostClose
<1>2. host.fin = FALSE /\ HostOk(host) /\ DOMAIN host = HostFields /\ host.una \in Heard(N)
  BY <1>1, HostIs DEF HostOk
<1>3. /\ S \in Nat /\ S <= Units /\ N \in Nat /\ N = S + 1 + One(host.fin)
      /\ host.nxt = Plus(HostIss, N)
  BY <1>1, <1>2, Opened
<1>4. One(host.fin) = 0
  BY <1>2 DEF One
<1>5. /\ Word \in Nat /\ Units \in Nat /\ Units + 2 < Half /\ Half \in Nat /\ Half <= Word
      /\ HostIss \in Int
  BY Sizes DEF Num
<1> HIDE DEF N, S
<1>6. N = S + 1 /\ N + 1 < Word /\ N + 1 \in Nat /\ N <= N + 1 /\ S \in 0 .. Units
      /\ N \in 1 .. N + 1 /\ N + 1 - 2 = S
  BY <1>3, <1>4, <1>5
<1>7. p = Plus(HostIss, N + 1)
  BY <1>3, <1>5, PlusPlus
<1>8. p \in Num
  <2>1. N + 1 \in Int
    BY <1>6
  <2> QED
    BY <1>5, <1>7, <2>1, PlusType
<1> HIDE DEF p
<1>9. /\ DOMAIN h = HostFields /\ h.nxt = p /\ h.state = "FIN_WAIT" /\ h.fin = TRUE
      /\ h.una = host.una
  BY <1>2 DEF HostFields
<1> HIDE DEF h
<1>10. Number(h) = N + 1
  BY <1>6, <1>7, <1>9, NumberAt
<1>11. Sent(h) = S
  <2>1. Sent(h) = Number(h) - 2
    BY <1>9 DEF Sent
  <2> QED
    BY <1>6, <1>10, <2>1
<1>12. Heard(N) \subseteq Heard(N + 1)
  BY <1>3, <1>6, HeardGrows
<1>13. HostOk(h)
  BY <1>2, <1>6, <1>8, <1>9, <1>10, <1>11, <1>12 DEF HostOk
<1>14. Grows(S, N, host.fin, Sent(h), Number(h), h.fin)
  BY <1>2, <1>3, <1>6, <1>10, <1>11 DEF Grows
<1>15. Arrives(HostSegment(host, host.nxt, <<>>, {"FIN"}), Sent(h), Number(h), h.fin)
  <2>1. Run(<<>>, N)
    BY Nothing DEF Run
  <2>2. N + Len(<<>>) + 1 = Number(h)
    BY <1>6, <1>10, Nothing
  <2> QED
    BY <1>3, <1>6, <1>9, <1>10, <1>13, <2>1, <2>2, CarriesOne
<1>16. Sound(segs, h)
  BY <1>15, SoundOne
<1> HIDE DEF segs
<1> QED
  BY <1>1, <1>9, <1>13, <1>14, <1>16, HostActsKeeps DEF S, N

(* The host resets the connection.                                            *)
LEMMA HangupKeeps == LwipTcpOk /\ HostHangup => HostKeeps
<1> SUFFICES ASSUME LwipTcpOk, HostHangup PROVE HostKeeps
  OBVIOUS
<1> DEFINE h == [host EXCEPT !.state = "RESET", !.unread = 0]
           seg == HostSegment(host, host.nxt, <<>>, {"RST"})
<1>1. /\ host.state # "CLOSED" /\ Hears(h, <<seg>>) /\ UNCHANGED <<srv, toHost>>
  BY DEF HostHangup
<1>2. DOMAIN h = HostFields /\ h.state = "RESET" /\ h.nxt = host.nxt /\ h.fin = host.fin
  BY HostIs DEF HostOk, HostFields
<1>3. "RST" \in seg.flags /\ "SYN" \notin seg.flags
  BY DEF HostSegment
<1> HIDE DEF h, seg
<1>4. Sound(<<seg>>, h)
  BY <1>3, SoundOne DEF Arrives
<1> QED
  BY <1>1, <1>2, <1>4, StaysKeeps

(* The host reads, and announces its window.                                  *)
LEMMA ReadKeeps == LwipTcpOk /\ HostRead => HostKeeps
<1> SUFFICES ASSUME LwipTcpOk, HostRead PROVE HostKeeps
  OBVIOUS
<1>0. host.state # "CLOSED"
  <2>1. host.unread > 0 /\ HostOk(host)
    BY HostIs DEF HostRead
  <2> QED
    BY <2>1 DEF HostOk
<1> DEFINE h == [host EXCEPT !.unread = 0]
<1>1. Hears(h, <<HostSegment(h, h.nxt, <<>>, {})>>) /\ UNCHANGED <<srv, toHost>>
  BY DEF HostRead
<1>2. /\ DOMAIN h = HostFields /\ h.state = host.state /\ h.nxt = host.nxt
      /\ h.fin = host.fin /\ h.una = host.una /\ HostOk(host)
  BY HostIs DEF HostOk, HostFields
<1> HIDE DEF h
<1>3. Number(h) = Number(host) /\ Sent(h) = Sent(host) /\ HostOk(h)
  BY <1>0, <1>2, GrowsNot DEF HostOk
<1>4. Sound(<<HostSegment(h, h.nxt, <<>>, {})>>, h)
  BY <1>0, <1>2, <1>3, AcksArrive, SoundOne
<1> QED
  BY <1>0, <1>1, <1>2, <1>4, StaysKeeps

(* What the host sends again is one of its segments, with the FIN if it       *)
(* reaches it.                                                                *)
LEMMA AgainArrives ==
    ASSUME HostOk(host), host.state \in {"ESTABLISHED", "FIN_WAIT"},
           host.una # host.nxt
    PROVE  Arrives(HostAgain, Sent(host), Number(host), host.fin)
<1> DEFINE size == Diff(host.nxt, host.una) - (IF host.state = "FIN_WAIT" THEN 1 ELSE 0)
           n == IF size < Mss THEN size ELSE Mss
           fin == IF host.state = "FIN_WAIT" /\ n = size THEN {"FIN"} ELSE {}
           data == Numbered(host.una, n)
           N == Number(host)
           S == Sent(host)
           o == One(host.fin)
<1>1. PICK u \in 1 .. N : host.una = Plus(HostIss, u)
  BY DEF HostOk, Heard
<1>2. /\ S \in Nat /\ S <= Units /\ N \in Nat /\ N = S + 1 + o
      /\ host.nxt = Plus(HostIss, N) /\ o \in Nat
      /\ o = IF host.state = "FIN_WAIT" THEN 1 ELSE 0
      /\ (host.state = "FIN_WAIT" => host.fin)
  <2>1. /\ host.fin = (host.state = "FIN_WAIT") /\ host.state # "CLOSED"
    BY DEF HostOk
  <2>2. o = IF host.state = "FIN_WAIT" THEN 1 ELSE 0
    BY <2>1 DEF One
  <2>3. /\ S \in Nat /\ S <= Units /\ N \in Nat /\ N = S + 1 + o
        /\ host.nxt = Plus(HostIss, N)
    BY <2>1, Opened
  <2> HIDE DEF S, N, o
  <2> QED
    BY <2>1, <2>2, <2>3
<1>3. /\ Word \in Nat /\ Units \in Nat /\ Units + 2 < Half /\ Half \in Nat /\ Half <= Word
      /\ HostIss \in Int /\ Mss \in Nat
  BY Sizes DEF Num
<1> HIDE DEF S, N, o
<1>4. u # N
  BY <1>1, <1>2
<1>5. /\ u \in Nat /\ u < N /\ N - u \in Num /\ u < Word /\ N \in Int /\ u \in Int
      /\ o <= 1
  BY <1>1, <1>2, <1>3, <1>4 DEF Num
<1>6. Diff(host.nxt, host.una) = N - u
  BY <1>1, <1>2, <1>3, <1>5, Distance
<1>7. size = S + 1 - u
  BY <1>2, <1>5, <1>6
<1> HIDE DEF size
<1>8. n \in Nat /\ n <= size /\ size \in Nat
  BY <1>2, <1>3, <1>5, <1>7
<1>9. HostAgain = HostSegment(host, host.una, data, fin)
  BY DEF HostAgain, size
<1>10. /\ "SYN" \notin fin
       /\ "FIN" \in fin => host.state = "FIN_WAIT" /\ n = size
  BY DEF fin
<1> HIDE DEF n, fin
<1>11. Run(data, u) /\ Len(data) = n
  BY <1>1, <1>5, <1>8, NumberedRun
<1> HIDE DEF data
<1>12. u + Len(data) <= S + 1
  BY <1>2, <1>5, <1>7, <1>8, <1>11
<1>13. "FIN" \in fin => host.fin /\ u + Len(data) + 1 = N
  <2> SUFFICES ASSUME "FIN" \in fin PROVE host.fin /\ u + Len(data) + 1 = N
    OBVIOUS
  <2>1. host.state = "FIN_WAIT" /\ n = size
    BY <1>10
  <2>2. o = 1 /\ host.fin
    BY <1>2, <2>1
  <2> QED
    BY <1>2, <1>5, <1>7, <1>11, <2>1, <2>2
<1>14. host.state # "CLOSED"
  OBVIOUS
<1> QED
  BY <1>1, <1>9, <1>10, <1>11, <1>12, <1>13, <1>14, CarriesOne DEF S, N

(* The host's timer: the SYN again, data again, or a probe.                   *)
LEMMA TimerKeeps == LwipTcpOk /\ HostTimer => HostKeeps
<1> SUFFICES ASSUME LwipTcpOk, HostTimer PROVE HostKeeps
  OBVIOUS
<1>0. UNCHANGED <<srv, toHost>> /\ HostOk(host) /\ DOMAIN host = HostFields
  BY HostIs DEF HostTimer, HostOk
<1>1. CASE /\ host.state = "SYN_SENT"
           /\ Hears(host, <<[HostSegment(host, HostIss, <<>>, {}) EXCEPT !.flags = {"SYN"}]>>)
  <2> DEFINE segs == <<[HostSegment(host, HostIss, <<>>, {}) EXCEPT !.flags = {"SYN"}]>>
  <2>1. Sound(segs, host)
    BY SynArrives, SoundOne
  <2>2. Hears(host, segs)
    BY <1>1
  <2> HIDE DEF segs
  <2> QED
    BY <1>0, <1>1, <2>1, <2>2, StaysKeeps
<1>2. CASE /\ host.state \in {"ESTABLISHED", "FIN_WAIT"} /\ host.una # host.nxt
           /\ Hears(host, <<HostAgain>>)
  <2>1. Sound(<<HostAgain>>, host)
    BY <1>0, <1>2, AgainArrives, SoundOne
  <2> QED
    BY <1>0, <1>2, <2>1, StaysKeeps
<1>3. CASE /\ host.state = "ESTABLISHED" /\ HostSent + 1 <= Units
           /\ Hears([host EXCEPT !.nxt = Plus(@, 1)],
                    <<HostSegment(host, host.nxt, Numbered(host.nxt, 1), {})>>)
  <2> DEFINE h == [host EXCEPT !.nxt = Plus(@, 1)]
             segs == <<HostSegment(host, host.nxt, Numbered(host.nxt, 1), {})>>
  <2>1. Sent(host) + 1 <= Units /\ host.state = "ESTABLISHED"
    <3>1. Sent(host) \in Nat /\ Units \in Nat
      BY <1>0, <1>3, Opened, Sizes
    <3>2. Sent(host) + 1 <= Units
      BY <1>3, SentIs
    <3> QED
      BY <1>3, <3>1, <3>2
  <2>2. /\ HostOk(h) /\ h.state # "CLOSED" /\ Sound(segs, h)
        /\ Grows(Sent(host), Number(host), host.fin, Sent(h), Number(h), h.fin)
    BY <1>0, <2>1, SendsMore
  <2>3. Hears(h, segs)
    BY <1>3
  <2> HIDE DEF h, segs
  <2> QED
    BY <1>0, <2>2, <2>3, HostActsKeeps
<1> QED
  BY <1>1, <1>2, <1>3 DEF HostTimer, MaySend

(* What a segment of the server does to the host's own numbers.               *)
LEMMA TakeOk ==
    ASSUME NEW h, DOMAIN h = HostFields, NEW seg
    PROVE  LET g == HostTake(HostAck(h, seg), seg)
           IN  /\ DOMAIN g = HostFields /\ g.nxt = h.nxt /\ g.fin = h.fin
               /\ g.state \in {h.state, "DONE"} /\ g.una \in {h.una, seg.ack}
BY DEF HostTake, HostAck, HostFields

(* A segment for the host.                                                    *)
LEMMA ReceivedKeeps == LwipTcpOk /\ HostReceive => HostKeeps
<1> SUFFICES ASSUME LwipTcpOk, HostReceive PROVE HostKeeps
  OBVIOUS
<1> DEFINE seg == Head(toHost)
           h == HostTake(HostAck(host, seg), seg)
           r == [host EXCEPT !.state = "RESET", !.unread = 0]
           new == [host EXCEPT !.state = "ESTABLISHED", !.una = seg.ack,
                                             !.right = Plus(seg.ack, seg.wnd),
                                             !.rcvNxt = End(seg)]
<1>1. toHost # <<>> /\ toHost' = Tail(toHost) /\ UNCHANGED srv
  BY DEF HostReceive
<1>2. host.state # "CLOSED" /\ HostOk(host) /\ DOMAIN host = HostFields
      /\ Knows(toHost, Heard(Number(host)))
  BY <1>1 DEF LwipTcpOk, AllOk, HostOk
<1>3. "RST" \in seg.flags \/ seg.ack \in Heard(Number(host))
  <2>1. Sequence(toHost) /\ Len(toHost) \in Nat
    BY <1>2 DEF Knows, Sequence
  <2>2. seg = toHost[1] /\ Len(toHost) >= 1
    BY <1>1, <2>1, TailOf
  <2>3. 1 \in 1 .. Len(toHost)
    BY <2>1, <2>2
  <2> QED
    BY <1>2, <2>2, <2>3 DEF Knows
<1>4. \/ Hears(r, <<>>) \/ Hears(host, <<>>)
      \/ Hears(host, <<HostReset(seg)>>)
      \/ /\ "RST" \notin seg.flags /\ host.state = "SYN_SENT"
         /\ Hears(new, <<HostSegment(new, new.nxt, <<>>, {})>>)
      \/ Hears(host, <<HostSegment(host, host.nxt, <<>>, {})>>)
      \/ /\ "RST" \notin seg.flags /\ host.state \notin {"RESET", "SYN_SENT"}
         /\ Hears(h, <<HostSegment(h, h.nxt, <<>>, {})>>) \/ Hears(h, <<>>)
  BY Zenon DEF HostReceive
<1>5. DOMAIN r = HostFields /\ r.state = "RESET" /\ r.nxt = host.nxt /\ r.fin = host.fin
  BY <1>2 DEF HostFields
<1>6. /\ DOMAIN new = HostFields /\ new.state = "ESTABLISHED" /\ new.nxt = host.nxt
      /\ new.fin = host.fin /\ new.una = seg.ack
  BY <1>2 DEF HostFields
<1>7. /\ DOMAIN h = HostFields /\ h.nxt = host.nxt /\ h.fin = host.fin
      /\ h.state \in {host.state, "DONE"} /\ h.una \in {host.una, seg.ack}
  BY <1>2, TakeOk
<1>8. Arrives(HostReset(seg), Sent(host), Number(host), host.fin)
  <2>1. HostReset(seg).flags = {"RST"}
    BY DEF HostReset, tcp_rst
  <2> QED
    BY <2>1 DEF Arrives
<1> HIDE DEF seg, h, r, new
<1>9. ASSUME NEW g, g.nxt = host.nxt, g.fin = host.fin, g.state # "CLOSED"
      PROVE  Sound(<<HostSegment(g, g.nxt, <<>>, {})>>, g) /\ Sound(<<>>, g)
  <2>1. Number(g) = Number(host) /\ Sent(g) = Sent(host)
    BY <1>2, <1>9, GrowsNot
  <2>2. Arrives(HostSegment(g, host.nxt, <<>>, {}), Sent(host), Number(host), host.fin)
    BY <1>2, AcksArrive
  <2> QED
    BY <1>9, <2>1, <2>2, SoundOne, SoundNone
<1>10. CASE Hears(r, <<>>)
  BY <1>1, <1>2, <1>5, <1>9, <1>10, StaysKeeps
<1>11. CASE Hears(host, <<>>)
  BY <1>1, <1>2, <1>9, <1>11, StaysKeeps
<1>12. CASE Hears(host, <<HostReset(seg)>>)
  <2>1. Sound(<<HostReset(seg)>>, host)
    BY <1>8, SoundOne
  <2> QED
    BY <1>1, <1>2, <1>12, <2>1, StaysKeeps
<1>13. CASE /\ "RST" \notin seg.flags /\ host.state = "SYN_SENT"
            /\ Hears(new, <<HostSegment(new, new.nxt, <<>>, {})>>)
  <2>1. Sound(<<HostSegment(new, new.nxt, <<>>, {})>>, new)
    BY <1>6, <1>9
  <2>2. new.una \in Heard(Number(host))
    BY <1>3, <1>6, <1>13
  <2> QED
    BY <1>1, <1>2, <1>6, <1>13, <2>1, <2>2, StaysKeeps
<1>14. CASE Hears(host, <<HostSegment(host, host.nxt, <<>>, {})>>)
  BY <1>1, <1>2, <1>9, <1>14, StaysKeeps
<1>15. ASSUME "RST" \notin seg.flags, host.state \notin {"RESET", "SYN_SENT"},
              NEW segs \in {<<HostSegment(h, h.nxt, <<>>, {})>>, <<>>}, Hears(h, segs)
       PROVE  HostKeeps
  <2>1. h.state # "CLOSED" /\ h.una \in Heard(Number(host))
    BY <1>2, <1>3, <1>7, <1>15 DEF HostOk
  <2>2. Sound(segs, h)
    BY <1>7, <1>9, <1>15, <2>1
  <2> QED
    BY <1>1, <1>2, <1>7, <1>15, <2>1, <2>2, StaysKeeps
<1> QED
  BY <1>4, <1>10, <1>11, <1>12, <1>13, <1>14, <1>15

-----------------------------------------------------------------------------
(* The theorems.                                                              *)

(* The network loses, doubles or delays a segment.                            *)
LEMMA NetworkKeeps ==
    LwipTcpOk /\ Network => LwipTcpOk' /\ UNCHANGED <<srv, host>>
<1> SUFFICES ASSUME LwipTcpOk, Network PROVE LwipTcpOk' /\ UNCHANGED <<srv, host>>
  OBVIOUS
<1>1. UNCHANGED <<srv, host>>
  BY DEF Network
<1>2. \/ toServer # <<>> /\ UNCHANGED toHost
         /\ toServer' \in {Tail(toServer), Append(toServer, Head(toServer)),
                           Append(Tail(toServer), Head(toServer))}
      \/ toHost # <<>> /\ UNCHANGED toServer
         /\ toHost' \in {Tail(toHost), Append(toHost, Head(toHost)),
                         Append(Tail(toHost), Head(toHost))}
  BY DEF Network, Lossy
<1>3. /\ host.state # "CLOSED" /\ HostOk(host) /\ Sound(toServer, host)
      /\ Knows(toHost, Heard(Number(host)))
      /\ ServerOk(srv, Sent(host), Number(host), host.fin)
  BY <1>2 DEF LwipTcpOk, AllOk
<1>4. Drawn(toServer', toServer) \/ UNCHANGED toServer
  BY <1>2, <1>3, LossyOf DEF Sound
<1>5. Drawn(toHost', toHost) \/ UNCHANGED toHost
  BY <1>2, <1>3, LossyOf DEF Knows
<1>6. Sound(toServer', host)
  BY <1>3, <1>4 DEF Sound, Drawn
<1>7. Knows(toHost', Heard(Number(host)))
  BY <1>3, <1>5 DEF Knows, Drawn
<1>8. AllOk(host, toServer', toHost', srv)
  BY <1>3, <1>6, <1>7 DEF AllOk
<1> QED
  BY <1>1, <1>8 DEF LwipTcpOk

(* A step of the server, a step of the host, or neither.                      *)
LEMMA StepKeeps ==
    ASSUME LwipTcpOk, [Next]_vars
    PROVE  \/ ServerKeeps \/ HostKeeps
           \/ LwipTcpOk' /\ UNCHANGED <<srv, host>>
<1>1. CASE ServerReceive
  BY <1>1, ReceiveKeeps
<1>2. CASE SlowTmr
  BY <1>2, SlowTmrKeeps
<1>3. CASE SlowTmrExpired
  BY <1>3, ExpiredKeeps
<1>4. CASE Keepalive
  BY <1>4, KeepaliveKeeps
<1>5. CASE FastTmr
  BY <1>5, FastTmrKeeps
<1>6. CASE MainWrite
  BY <1>6, MainWriteKeeps
<1>7. CASE HostOpen
  BY <1>7, OpenKeeps
<1>8. CASE HostSend
  BY <1>8, SendKeeps
<1>9. CASE HostHastes
  BY <1>9, HastesKeeps
<1>10. CASE HostClose
  BY <1>10, CloseKeeps
<1>11. CASE HostHangup
  BY <1>11, HangupKeeps
<1>12. CASE HostRead
  BY <1>12, ReadKeeps
<1>13. CASE HostTimer
  BY <1>13, TimerKeeps
<1>14. CASE HostReceive
  BY <1>14, ReceivedKeeps
<1>15. CASE Network
  BY <1>15, NetworkKeeps
<1>16. CASE UNCHANGED vars
  BY <1>16 DEF vars, LwipTcpOk
<1> QED
  BY <1>1, <1>2, <1>3, <1>4, <1>5, <1>6, <1>7, <1>8, <1>9, <1>10, <1>11, <1>12,
     <1>13, <1>14, <1>15, <1>16 DEF Next

(* In the beginning nothing has been sent.                                    *)
LEMMA InitOk == Init => LwipTcpOk
<1> SUFFICES ASSUME Init PROVE LwipTcpOk
  OBVIOUS
<1>1. /\ srv = Fresh /\ toServer = <<>> /\ toHost = <<>>
      /\ DOMAIN host = HostFields /\ host.state = "CLOSED" /\ host.nxt = HostIss
      /\ host.fin = FALSE /\ host.unread = 0
  BY DEF Init, HostFields
<1>2. HostOk(host)
  BY <1>1, Sizes DEF HostOk
<1>3. Sound(<<>>, host) /\ Knows(<<>>, Heard(Number(host)))
  BY SoundNone, Nothing DEF Knows
<1> QED
  BY <1>1, <1>2, <1>3 DEF LwipTcpOk, AllOk, ServerOk

(* The server's pcb, the host and all segments on their way agree: every      *)
(* segment of the host carries its stream at its sequence number, every       *)
(* segment of the server acknowledges what the host has sent, and the         *)
(* connection stands at a place of that stream up to which the application    *)
(* has been given everything (tcp_in.c 71-1330, tcp_out.c 370-857, tcp.c      *)
(* 177-662, tcpserver.c 87-411).                                              *)
THEOREM ConnectionInvariant == Spec => []LwipTcpOk
<1>1. LwipTcpOk /\ [Next]_vars => LwipTcpOk'
  BY StepKeeps DEF ServerKeeps, HostKeeps
<1> QED
  BY <1>1, InitOk, PTL DEF Spec

-----------------------------------------------------------------------------
(* A connection, with the edge it has announced as a distance from HostIss.   *)
LEMMA ActiveAt ==
    ASSUME LwipTcpOk, Active
    PROVE  \E R, e \in Int :
              /\ Alive(srv, e, R, HostSent, Number(host), host.fin)
              /\ srv.annEdge = Plus(HostIss, e) /\ e <= R + srv.annWnd
              /\ R + srv.rcvWnd - Wnd <= e
              /\ srv.rcvWnd \in Nat /\ srv.rcvWnd <= Wnd
              /\ srv.annWnd \in Nat /\ srv.annWnd <= srv.rcvWnd
              /\ srv.rcvNxt = Plus(HostIss, R)
<1> DEFINE S == HostSent
           N == Number(host)
           F == host.fin
<1>1. srv.state \notin {"LISTEN", "CLOSED"} /\ srv # Fresh
  BY FreshIs DEF Active
<1>2. ServerOk(srv, S, N, F)
  BY <1>1, ServerLives
<1> HIDE DEF S, N, F
<1>3. PICK lo \in Int, R \in Int : Alive(srv, lo, R, S, N, F)
  BY <1>1, <1>2, LivesAt
<1>4. /\ Window(srv, HostIss, R, lo) /\ Ok(srv, Heard(N)) /\ srv.chain \in Seq(Nat)
      /\ Stream(srv, R, S, N, F)
  BY <1>3 DEF Alive, Fine
<1>5. PICK e \in Int : /\ srv.annEdge = Plus(HostIss, e) /\ lo <= e
                       /\ R + srv.rcvWnd - Wnd <= e /\ e <= R + srv.annWnd
  BY <1>4 DEF Window
<1>6. /\ srv.rcvWnd \in 0 .. Wnd /\ srv.annWnd \in 0 .. srv.rcvWnd
      /\ srv.rcvNxt = Plus(HostIss, R)
  BY <1>4 DEF Window
<1>7. /\ srv.rcvWnd \in Nat /\ srv.rcvWnd <= Wnd /\ srv.annWnd \in Nat
      /\ srv.annWnd <= srv.rcvWnd /\ e <= e
  BY <1>6, Sizes
<1>8. Window(srv, HostIss, R, e)
  BY <1>5, <1>6, <1>7 DEF Window
<1>9. Alive(srv, e, R, S, N, F)
  BY <1>4, <1>8 DEF Alive, Fine
<1> QED
  BY <1>5, <1>6, <1>7, <1>9 DEF S, N, F

(* What the server offers it has room for, in every reachable state and for   *)
(* all windows, segment sizes and initial numbers (tcp.c 393-445).            *)
THEOREM WindowIsHonest == Spec => []WindowHonest
<1>1. LwipTcpOk => WindowHonest
  <2> SUFFICES ASSUME LwipTcpOk, Active
               PROVE  TCP_SEQ_LEQ(srv.annEdge, RightEdge(srv))
    BY DEF WindowHonest
  <2>1. PICK R \in Int, e \in Int :
              /\ srv.annEdge = Plus(HostIss, e) /\ e <= R + srv.annWnd
              /\ R + srv.rcvWnd - Wnd <= e
              /\ srv.rcvWnd \in Nat /\ srv.rcvWnd <= Wnd
              /\ srv.annWnd \in Nat /\ srv.annWnd <= srv.rcvWnd
              /\ srv.rcvNxt = Plus(HostIss, R)
    BY ActiveAt
  <2> DEFINE r == R + srv.rcvWnd
  <2>2. /\ r \in Int /\ e <= r /\ r - e < Half /\ e - r < Half /\ HostIss \in Int
    BY <2>1, Sizes DEF Num
  <2>3. Sums(HostIss, R, srv.rcvWnd, r)
    <3> DEFINE w == srv.rcvWnd
    <3>1. w \in Int /\ r = R + w
      BY <2>1
    <3> HIDE DEF w, r
    <3> QED
      BY <2>1, <2>2, <3>1, PlusSum DEF w
  <2>4. RightEdge(srv) = Plus(HostIss, r)
    BY <2>1, <2>3, Zenon DEF RightEdge, Sums
  <2> HIDE DEF r
  <2> QED
    BY <2>1, <2>2, <2>4, Ordered
<1> QED
  BY <1>1, ConnectionInvariant, PTL

(* No step of a connection moves back the right edge it has announced (tcp.c  *)
(* 393-445, tcp_out.c 657).                                                   *)
THEOREM EdgeNeverMovesBack == Spec => NeverShrinks
<1> DEFINE A == Active /\ srv'.state # "CLOSED" => TCP_SEQ_LEQ(srv.annEdge, srv'.annEdge)
<1>1. LwipTcpOk /\ [Next]_vars => [A]_vars
  <2> SUFFICES ASSUME LwipTcpOk, [Next]_vars, Active, srv'.state # "CLOSED"
               PROVE  TCP_SEQ_LEQ(srv.annEdge, srv'.annEdge)
    OBVIOUS
  <2>1. CASE UNCHANGED srv
    BY <2>1 DEF TCP_SEQ_LEQ
  <2>2. CASE ServerKeeps
    <3> DEFINE S == HostSent
               N == Number(host)
               F == host.fin
    <3>1. PICK R \in Int, e \in Int :
              /\ Alive(srv, e, R, S, N, F)
              /\ srv.annEdge = Plus(HostIss, e)
              /\ R + srv.rcvWnd - Wnd <= e
              /\ srv.rcvWnd \in Nat /\ srv.rcvWnd <= Wnd
      BY ActiveAt
    <3>2. Advances(srv, srv', S, N, F)
      BY <2>2 DEF ServerKeeps
    <3> HIDE DEF S, N, F
    <3>3. ~Dead(srv', Heard(N), S)
      BY DEF Dead
    <3>4. PICK Q \in Int : Alive(srv', e, Q, S, N, F) /\ Q <= R + srv.rcvWnd
      BY <3>1, <3>2, <3>3, Zenon DEF Advances
    <3>5. Window(srv', HostIss, Q, e)
      BY <3>4 DEF Alive, Fine
    <3>6. PICK f \in Int : srv'.annEdge = Plus(HostIss, f) /\ e <= f /\ f <= Q + srv'.annWnd
      BY <3>5 DEF Window
    <3>7. srv'.rcvWnd \in 0 .. Wnd /\ srv'.annWnd \in 0 .. srv'.rcvWnd
      BY <3>5 DEF Window
    <3> DEFINE w == srv'.annWnd
    <3>8. w \in Nat /\ w <= Wnd
      BY <3>7, Sizes
    <3>9. f <= Q + w
      BY <3>6
    <3> HIDE DEF w
    <3>10. e - f < Half /\ f - e < Half
      BY <3>1, <3>4, <3>6, <3>8, <3>9, Sizes
    <3> QED
      BY <3>1, <3>6, <3>10, Ordered
  <2> QED
    BY <2>1, <2>2, StepKeeps DEF HostKeeps
<1> QED
  BY <1>1, ConnectionInvariant, PTL DEF Spec, NeverShrinks

(* What the server was given, as LwipTcpOk has it.                            *)
LEMMA GivenRun ==
    ASSUME NEW c, NEW S, NEW N, NEW F, S \in Nat, ServerOk(c, S, N, F)
    PROVE  Run(c.given, 1) /\ Len(c.given) <= S /\ Len(c.given) \in Nat
<1>1. Run(c.given, 1) /\ Len(c.given) <= S
  <2>1. CASE c = Fresh
    BY <2>1, FreshIs, Nothing DEF Run
  <2>2. CASE Dead(c, Heard(N), S)
    BY <2>2 DEF Dead
  <2>3. CASE \E lo, Q \in Int : Alive(c, lo, Q, S, N, F)
    BY <2>3 DEF Alive, Stream
  <2> QED
    BY <2>1, <2>2, <2>3 DEF ServerOk
<1> QED
  BY <1>1 DEF Run, Sequence

(* The host has sent a number of units.                                       *)
LEMMA SentNat == ASSUME LwipTcpOk PROVE HostSent \in Nat
BY HostIs, Opened, SentIs DEF Sent

(* A step of the server delivers in the sense of ByteStream, or nothing of    *)
(* the stream changes.                                                        *)
LEMMA DeliverStep ==
    ASSUME LwipTcpOk, ServerKeeps
    PROVE  Up!Deliver \/ UNCHANGED <<HostSent, srv.given>>
<1> DEFINE got == srv.given
           new == srv'.given
           m == Len(new)
           n == Len(got)
           s == HostSent
<1>1. HostSent' = s
  BY SentIs, SentNext DEF ServerKeeps
<1>2. s \in Nat
  BY SentNat
<1>3. ServerOk(srv, HostSent, Number(host), host.fin)
      /\ ServerOk(srv', HostSent, Number(host), host.fin)
  BY SentIs DEF ServerKeeps, LwipTcpOk, AllOk
<1>4. n \in Nat /\ m \in Nat /\ m <= s /\ Run(new, 1)
  BY <1>2, <1>3, GivenRun
<1>5. new = got \/ m > n
  BY DEF ServerKeeps, Gets
<1>6. CASE new = got
  BY <1>1, <1>6
<1>7. CASE m > n
  <2>1. new = [i \in 1 .. m |-> i]
    <3>1. new = [i \in 1 .. m |-> new[i]]
      BY <1>4 DEF Run, Sequence
    <3>2. \A i \in 1 .. m : new[i] = 1 + i - 1
      BY <1>4 DEF Run
    <3> HIDE DEF m, new
    <3>3. \A i \in 1 .. m : 1 + i - 1 = i
      BY <1>4
    <3> QED
      BY <3>1, <3>2, <3>3
  <2> HIDE DEF s, m, n
  <2>2. m \in n + 1 .. s /\ s >= s
    BY <1>2, <1>4, <1>7
  <2> QED
    BY <1>1, <2>1, <2>2 DEF Up!Deliver, s, m, n
<1> QED
  BY <1>5, <1>6, <1>7

(* What the callbacks of the server are given is what the host has sent, in   *)
(* order and once, whatever the network loses, doubles or delays: the         *)
(* connection implements ByteStream (tcp_in.c 726-1330, tcpserver.c 176-251). *)
THEOREM HostStreamHolds == Spec => HostStream
<1>1. Init => Up!Init
  BY FreshIs DEF Init, Up!Init, HostSent
<1>2. LwipTcpOk /\ [Next]_vars => [Up!Write \/ Up!Deliver]_(Up!vars)
  <2> SUFFICES ASSUME LwipTcpOk, [Next]_vars
               PROVE  Up!Write \/ Up!Deliver \/ UNCHANGED <<HostSent, srv.given>>
    BY DEF Up!vars
  <2>1. CASE ServerKeeps
    BY <2>1, DeliverStep
  <2>2. CASE UNCHANGED <<srv, host>>
    BY <2>2, SentIs, SentNext
  <2>3. CASE HostKeeps
    <3>1. HostOk(host') /\ HostOk(host)
      BY <2>3, HostIs DEF HostKeeps, LwipTcpOk, AllOk
    <3>2. HostSent \in Nat /\ HostSent' \in Nat
      BY <3>1, Opened, SentIs, SentNext DEF Sent
    <3> DEFINE s == HostSent
               t == HostSent'
    <3>3. t >= s /\ s \in Nat /\ t \in Nat
      BY <2>3, <3>2 DEF HostKeeps
    <3> HIDE DEF s, t
    <3>4. t > s \/ t = s
      BY <3>3
    <3>5. UNCHANGED srv.given
      BY <2>3 DEF HostKeeps
    <3> QED
      BY <3>4, <3>5 DEF s, t, Up!Write
  <2> QED
    BY <2>1, <2>2, <2>3, StepKeeps
<1> QED
  BY <1>1, <1>2, ConnectionInvariant, PTL DEF Spec, HostStream, Up!Spec

=============================================================================
