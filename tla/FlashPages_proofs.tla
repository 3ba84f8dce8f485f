--------------------------- MODULE FlashPages_proofs ---------------------------
(* The page loop of Flash_WriteNoCheck, for every page size, address and      *)
(* length: it never crosses a page, never loses count, and leaves the chip as *)
(* the one-step operator of SpiFlash says.                                    *)
EXTENDS FlashPages, Integers, TLAPS

LEMMA MultipleBounds ==
    ASSUME NEW p \in Nat \ {0}, NEW d \in Int, NEW r \in 0 .. p - 1,
           p * d + r = 0
    PROVE  r = 0
<1>1. CASE d >= 1
  <2>1. p * d >= p
    BY <1>1
  <2> QED
    BY <2>1
<1>2. CASE d <= -1
  <2>1. p * d <= -p
    BY <1>2
  <2> QED
    BY <2>1
<1>3. CASE d = 0
  BY <1>3
<1> QED
  BY <1>1, <1>2, <1>3

(* The byte after the last of a page is the first of the next.                *)
LEMMA NextPage ==
    ASSUME NEW a \in Nat, NEW p \in Nat \ {0}, NEW n \in Nat, (a % p) + n = p
    PROVE  (a + n) % p = 0
<1> DEFINE q == a \div p
           x == a + n
           d == (x \div p) - (q + 1)
<1>1. a = p * q + (a % p) /\ q \in Int
  OBVIOUS
<1>2. x = p * (q + 1)
  BY <1>1
<1>3. x = p * (x \div p) + (x % p) /\ x \div p \in Int /\ x % p \in 0 .. p - 1
  BY <1>2
<1>4. p * d + (x % p) = 0 /\ d \in Int
  <2>1. p * d = p * (x \div p) - p * (q + 1)
    BY <1>1, <1>3
  <2> QED
    BY <1>1, <1>2, <1>3, <2>1
<1> QED
  BY <1>3, <1>4, MultipleBounds

(* What keeps a piece from crossing a page: it is all that is left, or it     *)
(* ends exactly where the page does.                                          *)
EndsAtPage ==
    pc = "loop" => pageremain = NumByteToWrite
                   \/ (WriteAddr % Page) + pageremain = Page

IInv == TypeOK /\ WithinPage /\ InStep /\ EndsAtPage

LEMMA PayloadType ==
    ASSUME NEW d \in Payloads
    PROVE  d \in Seq(Data \cup {Blank}) /\ Len(d) \in Nat
  BY FlashPagesAssumption

LEMMA InitIInv == Init => IInv
<1> SUFFICES ASSUME Init PROVE IInv
  OBVIOUS
<1>1. chip \in Chip
  <2>1. PICK d \in Data, n \in Address, wip \in BOOLEAN :
            chip = [cell |-> [a \in Address |-> IF a < n THEN d ELSE Blank],
                    wip |-> wip]
    BY DEF Init
  <2> QED
    BY <2>1 DEF Chip, Cell
<1>2. TypeOK
  BY <1>1, PayloadType, SpiFlashAssumption DEF Init, TypeOK
<1>3. WithinPage /\ EndsAtPage
  BY DEF Init, WithinPage, EndsAtPage
<1>4. InStep
  BY PayloadType, SpiFlashAssumption DEF Init, InStep
<1> QED
  BY <1>2, <1>3, <1>4 DEF IInv

LEMMA EnterIInv == IInv /\ Enter => IInv'
<1> SUFFICES ASSUME IInv, Enter PROVE IInv'
  OBVIOUS
<1>1. /\ NumByteToWrite \in Nat /\ WriteAddr \in Nat /\ Page \in Nat \ {0}
      /\ WriteAddr % Page \in 0 .. Page - 1
  BY SpiFlashAssumption DEF IInv, TypeOK
<1>2. /\ pageremain' \in Nat
      /\ pageremain' <= NumByteToWrite
      /\ (WriteAddr % Page) + pageremain' <= Page
      /\ pageremain' = NumByteToWrite \/ (WriteAddr % Page) + pageremain' = Page
      /\ NumByteToWrite > 0 => pageremain' > 0
  BY <1>1 DEF Enter, PageRemain
<1>3. TypeOK'
  <2>1. pageremain' \in 0 .. Len(data)
    BY <1>1, <1>2, PayloadType DEF IInv, TypeOK, InStep
  <2> QED
    BY <2>1 DEF IInv, TypeOK, Enter, args
<1>4. WithinPage' /\ InStep' /\ EndsAtPage'
  BY <1>2 DEF IInv, WithinPage, InStep, EndsAtPage, Enter, args
<1> QED
  BY <1>3, <1>4 DEF IInv

LEMMA WritePageType ==
    ASSUME TypeOK, pc = "loop", InStep, Flash_WritePage
    PROVE  chip' \in Chip /\ deaf' \in BOOLEAN
<1>1. Idle(chip) \in Chip
  BY DEF TypeOK, Idle, Chip, Erased, Cell
<1>2. PageProgram(chip.cell, WriteAddr, pageremain) \in [Address -> Cell]
  <2>1. ASSUME NEW i \in Address, NEW k \in Nat, k < pageremain
        PROVE  Burn(chip.cell[i], data[pBuffer + k + 1]) \in Cell
    <3>1. pBuffer + k + 1 \in 1 .. Len(data)
      BY <2>1, PayloadType DEF TypeOK, InStep
    <3>2. data[pBuffer + k + 1] \in Cell
      BY <3>1, PayloadType DEF TypeOK, Cell
    <3>3. chip.cell[i] \in Cell
      BY DEF TypeOK, Chip
    <3> QED
      BY <3>2, <3>3 DEF Burn, Cell
  <2>2. ASSUME NEW i \in Address
        PROVE  (i + Page - (WriteAddr % Page)) % Page \in Nat
    BY SpiFlashAssumption DEF TypeOK, Address
  <2>3. ASSUME NEW i \in Address
        PROVE  chip.cell[i] \in Cell
    BY DEF TypeOK, Chip
  <2> QED
    BY <2>1, <2>2, <2>3 DEF PageProgram
<1> QED
  BY <1>1, <1>2 DEF Flash_WritePage, TypeOK, Chip

LEMMA LoopIInv == IInv /\ Loop => IInv'
<1> SUFFICES ASSUME IInv, Loop PROVE IInv'
  OBVIOUS
<1>0. TypeOK /\ WithinPage /\ InStep /\ EndsAtPage /\ pc = "loop"
  BY DEF IInv, Loop
<1>1. chip' \in Chip /\ deaf' \in BOOLEAN
  BY <1>0, WritePageType DEF Loop
<1>2. CASE NumByteToWrite = pageremain
  <2>1. /\ pc' = "done"
        /\ UNCHANGED <<pBuffer, WriteAddr, NumByteToWrite, pageremain, args>>
    BY <1>2 DEF Loop, LastPiece
  <2> QED
    BY <1>0, <1>1, <2>1 DEF IInv, TypeOK, WithinPage, InStep, EndsAtPage, args
<1>3. CASE NumByteToWrite # pageremain
  <2>1. /\ pc' = "loop" /\ UNCHANGED args
        /\ pBuffer' = pBuffer + pageremain
        /\ WriteAddr' = WriteAddr + pageremain
        /\ NumByteToWrite' = NumByteToWrite - pageremain
        /\ pageremain' = IF NumByteToWrite' > Page THEN Page
                         ELSE NumByteToWrite'
    BY <1>0, <1>3 DEF Loop, LastPiece, Advance, NextPiece
  <2>2. /\ Page \in Nat \ {0} /\ WriteAddr \in Nat /\ pageremain \in Nat
        /\ NumByteToWrite \in Nat /\ pBuffer \in Nat
        /\ pageremain < NumByteToWrite
    BY <1>0, <1>3, SpiFlashAssumption DEF TypeOK, InStep
  <2>3. WriteAddr' % Page = 0
    <3>1. (WriteAddr % Page) + pageremain = Page
      BY <1>0, <1>3 DEF EndsAtPage
    <3> QED
      BY <2>1, <2>2, <3>1, NextPage
  <2>4. TypeOK'
    <3>1. pageremain' \in 0 .. Len(data)
      BY <1>0, <2>1, <2>2, PayloadType, SpiFlashAssumption DEF TypeOK, InStep
    <3> QED
      BY <1>0, <1>1, <2>1, <2>2, <3>1 DEF TypeOK, args
  <2>5. WithinPage' /\ EndsAtPage'
    BY <2>1, <2>2, <2>3 DEF WithinPage, EndsAtPage
  <2>6. InStep'
    BY <1>0, <2>1, <2>2, PayloadType DEF TypeOK, InStep, args
  <2> QED
    BY <2>4, <2>5, <2>6 DEF IInv
<1> QED
  BY <1>2, <1>3

LEMMA Invariance == Spec => []IInv
<1>1. IInv /\ UNCHANGED vars => IInv'
  BY DEF IInv, TypeOK, WithinPage, InStep, EndsAtPage, vars, args
<1>2. IInv /\ [Next]_vars => IInv'
  BY <1>1, EnterIInv, LoopIInv DEF Next, Done
<1> QED
  BY <1>2, InitIInv, PTL DEF Spec

(* No page program runs over the end of its page (drvflash.c 93-111).         *)
THEOREM NeverCrossesPage == Spec => []WithinPage
<1>1. IInv => WithinPage
  BY DEF IInv
<1> QED
  BY <1>1, Invariance, PTL

(* The loop's variables keep their ranges: the count, a uint16, does not go   *)
(* below zero (drvflash.c 90-112).                                            *)
THEOREM PagesTypeCorrect == Spec => []TypeOK
<1>1. IInv => TypeOK
  BY DEF IInv
<1> QED
  BY <1>1, Invariance, PTL

(* Pointer, address and count stay in step, and every turn writes something   *)
(* while anything is left (drvflash.c 93-111).                                *)
THEOREM KeepsCount == Spec => []InStep
<1>1. IInv => InStep
  BY DEF IInv
<1> QED
  BY <1>1, Invariance, PTL

-----------------------------------------------------------------------------
(* A number that is a multiple of p and a rest has this quotient and rest.    *)
LEMMA DivMod ==
    ASSUME NEW p \in Nat \ {0}, NEW q \in Int, NEW r \in 0 .. p - 1,
           NEW x \in Int, x = p * q + r
    PROVE  x % p = r /\ x \div p = q
<1> DEFINE d == (x \div p) - q
           s == (x % p) - r
<1>1. /\ x = p * (x \div p) + (x % p)
      /\ x \div p \in Int /\ x % p \in 0 .. p - 1
  OBVIOUS
<1>2. p * d + s = 0
  <2>1. p * d = p * (x \div p) - p * q
    BY <1>1
  <2> QED
    BY <1>1, <2>1
<1>3. d \in Int /\ s \in Int /\ s < p /\ s > -p
  BY <1>1
<1> HIDE DEF d, s
<1>4. d = 0
  <2>1. CASE d >= 1
    <3>1. p * d >= p
      BY <1>3, <2>1
    <3> QED
      BY <1>2, <1>3, <3>1
  <2>2. CASE d <= -1
    <3>1. p * d <= -p
      BY <1>3, <2>2
    <3> QED
      BY <1>2, <1>3, <3>1
  <2> QED
    BY <1>3, <2>1, <2>2
<1>5. s = 0
  BY <1>2, <1>3, <1>4
<1> QED
  BY <1>1, <1>4, <1>5 DEF d, s

(* The distance from s to i, around the end.                                  *)
LEMMA Around ==
    ASSUME NEW f \in Nat \ {0}, NEW i \in 0 .. f - 1, NEW s \in 0 .. f - 1
    PROVE  /\ s % f = s
           /\ (i + f - s) % f = IF i >= s THEN i - s ELSE i + f - s
<1>1. s % f = s
  <2>1. s = f * 0 + s
    OBVIOUS
  <2> QED
    BY <2>1, DivMod
<1>2. CASE i >= s
  <2>1. i + f - s = f * 1 + (i - s) /\ i - s \in 0 .. f - 1 /\ i + f - s \in Int
    BY <1>2
  <2>2. (i + f - s) % f = i - s
    BY <2>1, DivMod
  <2> QED
    BY <1>1, <1>2, <2>2
<1>3. CASE i < s
  <2>1. i + f - s = f * 0 + (i + f - s) /\ i + f - s \in 0 .. f - 1
    BY <1>3
  <2>2. (i + f - s) % f = i + f - s
    BY <2>1, DivMod
  <2> QED
    BY <1>1, <1>3, <2>2
<1> QED
  BY <1>2, <1>3

(* An address up to twice around the chip.                                    *)
LEMMA Twice ==
    ASSUME NEW f \in Nat \ {0}, NEW a \in Nat
    PROVE  /\ a < f => a % f = a
           /\ f <= a /\ a < f + f => a % f = a - f
<1>1. ASSUME a < f PROVE a % f = a
  <2>1. a = f * 0 + a /\ a \in 0 .. f - 1 /\ a \in Int
    BY <1>1
  <2> QED
    BY <2>1, DivMod
<1>2. ASSUME f <= a, a < f + f PROVE a % f = a - f
  <2> DEFINE r == a - f
  <2>1. a = f * 1 + r /\ r \in 0 .. f - 1 /\ a \in Int
    BY <1>2
  <2> HIDE DEF r
  <2>2. a % f = r
    BY <2>1, DivMod
  <2> QED
    BY <2>2 DEF r
<1> QED
  BY <1>1, <1>2

(* The place of cell i, counted from address a and around the page ...        *)
InPage(p, a, i) == (i + p - (a % p)) % p

(* ... whether a page program of n bytes at a reaches it ...                  *)
Reaches(p, f, a, n, i) ==
    i \div p = ((a % f) - (a % p)) \div p /\ InPage(p, a, i) < n

(* ... and its place from address s, around the chip.                         *)
InChip(f, s, i) == (i + f - (s % f)) % f

(* A piece of n bytes at a, which is b behind s, lies within the page and the *)
(* chip.                                                                      *)
PieceFits(p, f, s, b, a, n) ==
    f % p = 0 /\ a = s + b /\ b + n <= f /\ (a % p) + n <= p

(* The piece's cells are those of its n addresses, in order.                  *)
PieceCovers(p, f, s, b, a, n, i) ==
    /\ Reaches(p, f, a, n, i)
         <=> (b <= InChip(f, s, i) /\ InChip(f, s, i) < b + n)
    /\ Reaches(p, f, a, n, i) => b + InPage(p, a, i) = InChip(f, s, i)

(* The cells a page program of n bytes reaches are those of the n addresses   *)
(* from the given one on, if it stays in its page.                            *)
LEMMA PieceCells ==
    ASSUME NEW p \in Nat \ {0}, NEW f \in Nat \ {0}, NEW s \in 0 .. f - 1,
           NEW b \in Nat, NEW a \in Nat, NEW n \in Nat, NEW i \in 0 .. f - 1,
           PieceFits(p, f, s, b, a, n)
    PROVE  PieceCovers(p, f, s, b, a, n, i)
<1>8. f % p = 0 /\ a = s + b /\ b + n <= f /\ (a % p) + n <= p
  BY DEF PieceFits
<1>9. PICK m \in Nat \ {0} : f = p * m
  <2> DEFINE m == f \div p
  <2>1. f = p * m + 0 /\ m \in Int
    BY <1>8
  <2>2. m > 0
    <3>1. CASE m <= 0
      <4>1. p * m <= 0
        BY <2>1, <3>1
      <4> QED
        BY <2>1, <4>1
    <3> QED
      BY <2>1, <3>1
  <2> HIDE DEF m
  <2>3. f = p * m /\ m \in Nat \ {0}
    BY <2>1, <2>2
  <2> QED
    BY <2>3
<1> DEFINE off == a % p
           base == (a % f) - off
           j == (i + p - off) % p
           k == (i + f - (s % f)) % f
           aa == a % f
<1>0. f \in Nat \ {0} /\ a \in Nat /\ off \in 0 .. p - 1
  OBVIOUS
<1>1. k = IF i >= s THEN i - s ELSE i + f - s
  <2>1. s % f = s /\ (i + f - s) % f = IF i >= s THEN i - s ELSE i + f - s
    BY <1>0, Around
  <2> QED
    BY <2>1
<1>2. i = p * (i \div p) + (i % p) /\ i \div p \in Int /\ i % p \in 0 .. p - 1
  OBVIOUS
<1> HIDE DEF k, off
<1>3. j \in 0 .. p - 1
      /\ j = IF i % p >= off THEN (i % p) - off ELSE (i % p) + p - off
  <2>1. CASE i % p >= off
    <3>1. /\ i + p - off = p * ((i \div p) + 1) + ((i % p) - off)
          /\ (i % p) - off \in 0 .. p - 1
          /\ (i \div p) + 1 \in Int /\ i + p - off \in Int
      BY <1>0, <1>2, <2>1
    <3>2. (i + p - off) % p = (i % p) - off
      <4> DEFINE x == i + p - off
                 r == (i % p) - off
                 q == (i \div p) + 1
      <4>1. x = p * q + r /\ r \in 0 .. p - 1 /\ q \in Int /\ x \in Int
        BY <3>1
      <4> HIDE DEF x, r, q
      <4>2. x % p = r
        BY <4>1, DivMod
      <4> QED
        BY <4>2 DEF x, r
    <3> QED
      BY <2>1, <3>1, <3>2
  <2>2. CASE i % p < off
    <3>1. /\ i + p - off = p * (i \div p) + ((i % p) + p - off)
          /\ (i % p) + p - off \in 0 .. p - 1
          /\ i \div p \in Int /\ i + p - off \in Int
      BY <1>0, <1>2, <2>2
    <3>2. (i + p - off) % p = (i % p) + p - off
      <4> DEFINE x == i + p - off
                 r == (i % p) + p - off
                 q == i \div p
      <4>1. x = p * q + r /\ r \in 0 .. p - 1 /\ q \in Int /\ x \in Int
        BY <3>1
      <4> HIDE DEF x, r, q
      <4>2. x % p = r
        BY <4>1, DivMod
      <4> QED
        BY <4>2 DEF x, r
    <3> QED
      BY <1>0, <1>2, <2>2, <3>1, <3>2
  <2> QED
    BY <1>0, <1>2, <2>1, <2>2
<1>4. CASE n = 0
  <2> HIDE DEF j
  <2>1. k \in Int
    BY <1>0, <1>1
  <2>2. ~ (j < n) /\ ~ (b <= k /\ k < b + n)
    BY <1>3, <1>4, <2>1
  <2> QED
    BY <2>2 DEF j, k, off, PieceCovers, Reaches, InPage, InChip
<1>5. CASE n # 0
  <2>1. PICK e \in {0, 1} : a = f * e + aa /\ aa \in 0 .. f - 1
    <3>0. a = s + b
      BY <1>8
    <3>1. CASE a < f
      <4>1. a = f * 0 + a /\ a \in 0 .. f - 1
        BY <1>0, <3>1
      <4>2. a % f = a
        BY <1>0, <3>1, Twice
      <4> QED
        BY <4>1, <4>2
    <3>2. CASE a >= f
      <4>1. a = f * 1 + (a - f) /\ a - f \in 0 .. f - 1
        BY <1>0, <1>5, <1>8, <3>0, <3>2
      <4>2. a % f = a - f
        BY <1>0, <3>2, <4>1, Twice
      <4> QED
        BY <4>1, <4>2
    <3> QED
      BY <1>0, <3>1, <3>2
  <2>2. PICK w \in Int : aa = p * w + off
    <3>1. a = p * (a \div p) + off /\ a \div p \in Int
      BY <1>0 DEF off
    <3>2. CASE e = 0
      <4>1. aa = a
        BY <1>0, <1>8, <2>1, <3>2
      <4> QED
        BY <3>1, <4>1
    <3>3. CASE e = 1
      <4>1. aa = a - f
        BY <1>0, <2>1, <3>3
      <4> HIDE DEF aa
      <4>2. p * ((a \div p) - m) = p * (a \div p) - p * m
        BY <1>9, <3>1
      <4>3. aa = p * ((a \div p) - m) + off /\ (a \div p) - m \in Int
        BY <1>0, <1>9, <3>1, <4>1, <4>2
      <4> QED
        BY <4>3
    <3> QED
      BY <3>2, <3>3
  <2> HIDE DEF aa, j
  <2>3. base \div p = w
    <3>0. base = aa - off
      BY DEF aa
    <3> HIDE DEF base
    <3>1. base = p * w + 0 /\ base \in Int /\ 0 \in 0 .. p - 1
      BY <1>0, <2>1, <2>2, <3>0
    <3> QED
      BY <2>2, <3>1, DivMod
  <2> HIDE DEF base
  <2>4. off + n <= p
    BY <1>8 DEF off
  <2>5. aa + n <= f
    <3>1. w < m
      <4>1. CASE w >= m
        <5>1. p * w >= p * m
          BY <1>9, <2>2, <4>1
        <5> QED
          BY <1>0, <1>9, <2>1, <2>2, <5>1
      <4> QED
        BY <2>2, <4>1
    <3>2. p * (w + 1) <= p * m
      BY <1>9, <2>2, <3>1
    <3>3. p * (w + 1) = p * w + p
      BY <2>2
    <3> QED
      BY <1>0, <1>9, <2>1, <2>2, <2>4, <3>2, <3>3
  <2>6. (i \div p = w /\ j < n) <=> (aa <= i /\ i < aa + n)
    <3>1. ASSUME i \div p = w, j < n
          PROVE  aa <= i /\ i < aa + n
      <4>1. i % p >= off /\ j = (i % p) - off
        BY <1>0, <1>2, <1>3, <2>4, <3>1
      <4>2. i = p * w + (i % p)
        BY <1>2, <3>1
      <4> QED
        BY <1>0, <1>2, <2>1, <2>2, <3>1, <4>1, <4>2
    <3>2. ASSUME aa <= i, i < aa + n
          PROVE  i \div p = w /\ j < n
      <4> DEFINE r == off + (i - aa)
      <4>1. i = p * w + r /\ r \in 0 .. p - 1
        BY <1>0, <2>1, <2>2, <2>4, <3>2
      <4>2. i % p = r /\ i \div p = w
        <5>1. i \in Int /\ w \in Int
          BY <2>2
        <5> HIDE DEF r
        <5> QED
          BY <4>1, <5>1, DivMod
      <4>3. j = i - aa
        BY <1>0, <1>3, <2>1, <3>2, <4>2
      <4> QED
        BY <2>1, <3>2, <4>2, <4>3
    <3> QED
      BY <3>1, <3>2
  <2>7. (i \div p = w /\ j < n) => j = i - aa
    <3> SUFFICES ASSUME i \div p = w, j < n
                 PROVE  j = i - aa
      OBVIOUS
    <3>1. i % p >= off /\ j = (i % p) - off
      BY <1>0, <1>2, <1>3, <2>4
    <3>2. i = p * w + (i % p)
      BY <1>2
    <3>3. p * w \in Int
      BY <2>2
    <3>4. i = p * w + off + j
      BY <1>0, <1>2, <3>1, <3>2, <3>3
    <3> QED
      BY <1>0, <1>3, <2>1, <2>2, <3>3, <3>4
  <2>8. /\ (aa <= i /\ i < aa + n) <=> (b <= k /\ k < b + n)
        /\ (aa <= i /\ i < aa + n) => b + (i - aa) = k
    <3>1. CASE e = 0
      <4>1. aa = s + b
        BY <1>0, <1>8, <2>1, <3>1
      <4> QED
        BY <1>0, <1>1, <1>8, <2>1, <2>5, <4>1
    <3>2. CASE e = 1
      <4>1. aa = s + b - f
        BY <1>0, <1>8, <2>1, <3>2
      <4> QED
        BY <1>0, <1>1, <1>8, <2>1, <2>5, <4>1
    <3> QED
      BY <3>1, <3>2
  <2>9. /\ (i \div p = base \div p /\ j < n) <=> (b <= k /\ k < b + n)
        /\ (i \div p = base \div p /\ j < n) => b + j = k
    BY <2>3, <2>6, <2>7, <2>8
  <2> QED
    BY <2>9 DEF base, j, k, off, PieceCovers, Reaches, InPage, InChip
<1> QED
  BY <1>4, <1>5

(* The bytes the chip does not see: those of the first page, if it is busy or *)
(* misses the write enable.                                                   *)
Skipped == IF before.wip \/ lost THEN PageRemain(start, Len(data)) ELSE 0

(* Where a cell lies from the start of the write.                             *)
Place(i) == InChip(FlashSize, start, i)

(* The piece reaches a cell.                                                  *)
Hit(i) == Reaches(Page, FlashSize, WriteAddr, pageremain, i)

(* The chip after the pieces up to the n-th byte.                             *)
Written(n) ==
    [cell |-> [i \in Address |->
                  IF Skipped <= Place(i) /\ Place(i) < n
                  THEN Burn(Idle(before).cell[i], data[Place(i) + 1])
                  ELSE Idle(before).cell[i]],
     wip |-> FALSE]

(* What the loop has done so far; before its first turn a deaf chip may be    *)
(* anything, and after it the chip holds the pieces that were heard.          *)
SoFar ==
    /\ start \in Address
    /\ pc = "call" => /\ chip = before /\ deaf = lost /\ pBuffer = 0
                      /\ NumByteToWrite = Len(data)
    /\ pc = "loop" =>
          \/ /\ pBuffer = 0 /\ chip = before /\ deaf = lost
             /\ pageremain = PageRemain(start, Len(data))
          \/ /\ ~deaf /\ Skipped <= pBuffer
             /\ chip = Written(pBuffer)
    /\ pc = "done" => chip = Written(Len(data))

LEMMA SkippedType == IInv /\ SoFar => Skipped \in Nat
<1> SUFFICES ASSUME IInv, SoFar PROVE Skipped \in Nat
  OBVIOUS
<1>1. Len(data) \in Nat /\ start % Page \in 0 .. Page - 1 /\ Page \in Nat
  BY PayloadType, SpiFlashAssumption DEF IInv, TypeOK, SoFar
<1> QED
  BY <1>1 DEF Skipped, PageRemain

LEMMA PlaceType ==
    ASSUME SoFar, NEW i \in Address
    PROVE  Place(i) \in 0 .. FlashSize - 1
<1>1. Place(i) = IF i >= start THEN i - start ELSE i + FlashSize - start
  <2>1. /\ FlashSize \in Nat \ {0} /\ i \in 0 .. FlashSize - 1
        /\ start \in 0 .. FlashSize - 1
    BY SpiFlashAssumption DEF Address, SoFar
  <2>2. /\ start % FlashSize = start
        /\ (i + FlashSize - start) % FlashSize =
               IF i >= start THEN i - start ELSE i + FlashSize - start
    BY <2>1, Around
  <2> QED
    BY <2>2 DEF Place, InChip
<1> QED
  BY <1>1, SpiFlashAssumption DEF Address, SoFar

(* Which cells a piece programs, and with what.                               *)
LEMMA PieceAt ==
    ASSUME IInv, SoFar, pc = "loop", NEW i \in Address
    PROVE  /\ Hit(i)
                <=> (pBuffer <= Place(i) /\ Place(i) < pBuffer + pageremain)
           /\ Hit(i) => pBuffer + InPage(Page, WriteAddr, i) = Place(i)
<1>1. /\ FlashSize \in Nat \ {0} /\ Page \in Nat \ {0} /\ FlashSize % Page = 0
      /\ i \in 0 .. FlashSize - 1 /\ start \in 0 .. FlashSize - 1
  BY SpiFlashAssumption, FlashPagesAssumption DEF Address, SoFar
<1>2. /\ pBuffer \in Nat /\ pageremain \in Nat
      /\ WriteAddr = start + pBuffer /\ WriteAddr \in Nat
      /\ (WriteAddr % Page) + pageremain <= Page
      /\ pageremain <= NumByteToWrite /\ pBuffer + NumByteToWrite = Len(data)
      /\ NumByteToWrite \in Nat
  BY PayloadType DEF IInv, TypeOK, WithinPage, InStep
<1>3. Len(data) <= FlashSize /\ Len(data) \in Nat
  BY FlashPagesAssumption DEF IInv, TypeOK
<1>4. pBuffer + pageremain <= FlashSize
  BY <1>1, <1>2, <1>3
<1>5. PieceFits(Page, FlashSize, start, pBuffer, WriteAddr, pageremain)
  BY <1>1, <1>2, <1>4 DEF PieceFits
<1>6. PieceCovers(Page, FlashSize, start, pBuffer, WriteAddr, pageremain, i)
  <2>1. /\ Page \in Nat \ {0} /\ FlashSize \in Nat \ {0}
        /\ start \in 0 .. FlashSize - 1 /\ i \in 0 .. FlashSize - 1
        /\ pBuffer \in Nat /\ WriteAddr \in Nat /\ pageremain \in Nat
    BY <1>1, <1>2
  <2> QED
    BY <1>5, <2>1, PieceCells, Zenon
<1> QED
  BY <1>6, Zenon DEF PieceCovers, Place, Hit

LEMMA Programs ==
    ASSUME IInv, SoFar, pc = "loop", NEW cell,
           \/ Skipped <= pBuffer /\ cell = Written(pBuffer).cell
           \/ Skipped = 0 /\ pBuffer = 0 /\ cell = Idle(before).cell
    PROVE  PageProgram(cell, WriteAddr, pageremain)
               = Written(pBuffer + pageremain).cell
<1> DEFINE j(i) == InPage(Page, WriteAddr, i)
           old == Idle(before).cell
<1>0. /\ pBuffer \in Nat /\ pageremain \in Nat /\ Skipped \in Nat
  BY PayloadType, SkippedType DEF IInv, TypeOK
<1>1. \A i \in Address : PageProgram(cell, WriteAddr, pageremain)[i] =
          IF Hit(i) THEN Burn(cell[i], data[pBuffer + j(i) + 1]) ELSE cell[i]
  BY Zenon DEF PageProgram, Hit, Reaches, InPage
<1>2. \A i \in Address : Written(pBuffer + pageremain).cell[i] =
          IF Skipped <= Place(i) /\ Place(i) < pBuffer + pageremain
          THEN Burn(old[i], data[Place(i) + 1]) ELSE old[i]
  BY Zenon DEF Written
<1>3. ASSUME NEW i \in Address
      PROVE  cell[i] = IF Skipped <= Place(i) /\ Place(i) < pBuffer
                       THEN Burn(old[i], data[Place(i) + 1]) ELSE old[i]
  <2>1. CASE cell = Written(pBuffer).cell
    BY <2>1, Zenon DEF Written
  <2>2. CASE pBuffer = 0 /\ cell = Idle(before).cell
    <3>1. Place(i) \in 0 .. FlashSize - 1
      BY PlaceType
    <3>2. ~ (Place(i) < pBuffer)
      BY <2>2, <3>1, SpiFlashAssumption
    <3> QED
      BY <2>2, <3>2, Zenon
  <2> QED
    BY <2>1, <2>2
<1>4. ASSUME NEW i \in Address
      PROVE  PageProgram(cell, WriteAddr, pageremain)[i]
                 = Written(pBuffer + pageremain).cell[i]
  <2>1. /\ Hit(i) <=> (pBuffer <= Place(i) /\ Place(i) < pBuffer + pageremain)
        /\ Hit(i) => pBuffer + j(i) = Place(i)
    BY PieceAt
  <2>2. Place(i) \in Nat /\ Skipped <= pBuffer
    BY <1>0, PlaceType, SpiFlashAssumption
  <2> HIDE DEF j, old
  <2>3. CASE Hit(i)
    <3>1. /\ ~ (Place(i) < pBuffer) /\ Skipped <= Place(i)
          /\ Place(i) < pBuffer + pageremain /\ pBuffer + j(i) = Place(i)
      BY <1>0, <2>1, <2>2, <2>3
    <3>2. cell[i] = old[i]
      BY <1>3, <3>1, Zenon
    <3> QED
      BY <1>1, <1>2, <2>3, <3>1, <3>2, Zenon
  <2>4. CASE ~Hit(i)
    <3>1. (Place(i) < pBuffer) <=> (Place(i) < pBuffer + pageremain)
      BY <1>0, <2>1, <2>2, <2>4
    <3> QED
      BY <1>1, <1>2, <1>3, <2>4, <3>1, Zenon
  <2> QED
    BY <2>3, <2>4
<1>5. /\ PageProgram(cell, WriteAddr, pageremain) =
             [i \in Address |-> PageProgram(cell, WriteAddr, pageremain)[i]]
      /\ Written(pBuffer + pageremain).cell =
             [i \in Address |-> Written(pBuffer + pageremain).cell[i]]
  BY DEF PageProgram, Written
<1> QED
  BY <1>4, <1>5, Zenon

LEMMA InitSoFar == Init => SoFar
  BY DEF Init, SoFar, Address

(* One turn: the chip has the piece as well, unless it did not hear it.       *)
LEMMA TurnWrites ==
    ASSUME IInv, SoFar, pc = "loop", Flash_WritePage
    PROVE  /\ chip' = Written(pBuffer + pageremain)
           /\ ~deaf' /\ Skipped <= pBuffer + pageremain
<1>0. /\ pBuffer \in Nat /\ pageremain \in Nat /\ Skipped \in Nat
  BY PayloadType, SkippedType DEF IInv, TypeOK
<1>1. ~deaf'
  BY DEF Flash_WritePage
<1>2. ASSUME ~ (chip.wip \/ deaf),
             \/ Skipped <= pBuffer /\ chip.cell = Written(pBuffer).cell
             \/ Skipped = 0 /\ pBuffer = 0 /\ chip.cell = Idle(before).cell
      PROVE  chip' = Written(pBuffer + pageremain)
  <2>1. chip' = [cell |-> PageProgram(chip.cell, WriteAddr, pageremain),
                 wip |-> FALSE]
    BY <1>2, Zenon DEF Flash_WritePage
  <2>2. PageProgram(chip.cell, WriteAddr, pageremain)
            = Written(pBuffer + pageremain).cell
    BY <1>2, Programs
  <2>3. Written(pBuffer + pageremain)
            = [cell |-> Written(pBuffer + pageremain).cell, wip |-> FALSE]
    BY DEF Written
  <2> QED
    BY <2>1, <2>2, <2>3, Zenon
<1>3. CASE /\ pBuffer = 0 /\ chip = before /\ deaf = lost
           /\ pageremain = PageRemain(start, Len(data))
  <2>1. CASE before.wip \/ lost
    <3>1. Skipped = pageremain
      BY <1>3, <2>1 DEF Skipped
    <3>2. chip' = [cell |-> Idle(before).cell, wip |-> FALSE]
      BY <1>3, <2>1, Zenon DEF Flash_WritePage
    <3>3. ASSUME NEW i \in Address
          PROVE  ~ (Skipped <= Place(i) /\ Place(i) < pBuffer + pageremain)
      <4>1. Place(i) \in Int
        BY PlaceType, SpiFlashAssumption
      <4> QED
        BY <1>0, <1>3, <3>1, <4>1
    <3>4. Written(pBuffer + pageremain) =
              [cell |-> [i \in Address |-> Idle(before).cell[i]], wip |-> FALSE]
      BY <3>3, Zenon DEF Written
    <3>5. Idle(before).cell = [i \in Address |-> Idle(before).cell[i]]
      BY DEF Idle, Erased, IInv, TypeOK, Chip
    <3>6. Skipped <= pBuffer + pageremain
      BY <1>0, <1>3, <3>1
    <3>7. chip' = Written(pBuffer + pageremain)
      BY <3>2, <3>4, <3>5, Zenon
    <3> QED
      BY <1>1, <3>6, <3>7, Zenon
  <2>2. CASE ~ (before.wip \/ lost)
    <3>1. Skipped = 0
      BY <2>2, Zenon DEF Skipped
    <3>2. chip.cell = Idle(before).cell /\ ~ (chip.wip \/ deaf)
      BY <1>3, <2>2, Zenon DEF Idle
    <3>3. chip' = Written(pBuffer + pageremain)
      BY <1>2, <1>3, <3>1, <3>2, Zenon
    <3> QED
      BY <1>0, <1>1, <3>1, <3>3
  <2> QED
    BY <2>1, <2>2
<1>4. CASE /\ ~deaf /\ Skipped <= pBuffer
           /\ chip = Written(pBuffer)
  <2>1. ~ (chip.wip \/ deaf) /\ chip.cell = Written(pBuffer).cell
    BY <1>4 DEF Written
  <2>2. chip' = Written(pBuffer + pageremain)
    BY <1>2, <1>4, <2>1, Zenon
  <2> QED
    BY <1>0, <1>1, <1>4, <2>2
<1> QED
  BY <1>3, <1>4 DEF SoFar

(* Both kinds of step keep it.                                                *)
LEMMA StepSoFar == IInv /\ SoFar /\ [Next]_vars => SoFar'
<1> SUFFICES ASSUME IInv, SoFar, [Next]_vars PROVE SoFar'
  OBVIOUS
<1>0. /\ pBuffer \in Nat /\ pageremain \in Nat /\ Len(data) \in Nat
      /\ pBuffer + NumByteToWrite = Len(data) /\ NumByteToWrite \in Nat
  BY PayloadType DEF IInv, TypeOK, InStep
<1>1. CASE UNCHANGED vars
  <2>1. /\ UNCHANGED <<chip, deaf, pc, pBuffer, NumByteToWrite, pageremain>>
        /\ UNCHANGED <<start, data, before, lost>>
        /\ Skipped' = Skipped /\ Written(pBuffer)' = Written(pBuffer)
        /\ Written(Len(data))' = Written(Len(data))
    BY <1>1, Zenon DEF vars, Skipped, Written, Place
  <2> QED
    BY <2>1 DEF SoFar
<1>2. CASE Enter
  <2>1. /\ pc' = "loop" /\ pc = "call" /\ WriteAddr = start
        /\ pageremain' = PageRemain(WriteAddr, NumByteToWrite)
        /\ UNCHANGED <<chip, deaf, pBuffer, start, data, before, lost>>
    BY <1>2 DEF Enter, args, IInv, InStep, TypeOK, SoFar
  <2> QED
    BY <2>1 DEF SoFar
<1>3. CASE Loop
  <2>1. /\ chip' = Written(pBuffer + pageremain)
        /\ ~deaf' /\ Skipped <= pBuffer + pageremain
    BY <1>3, TurnWrites DEF Loop
  <2>2. UNCHANGED <<start, data, before, lost>>
    BY <1>3 DEF Loop, args
  <2>3. CASE LastPiece
    <3>1. pc' = "done" /\ pBuffer + pageremain = Len(data)
      BY <1>0, <1>3, <2>3 DEF Loop, LastPiece
    <3>2. Written(Len(data))' = Written(Len(data))
      BY <2>2, Zenon DEF Written, Place, Skipped
    <3> QED
      BY <2>1, <2>2, <3>1, <3>2 DEF SoFar
  <2>4. CASE ~LastPiece
    <3>1. pc' = "loop" /\ pBuffer' = pBuffer + pageremain
      BY <1>3, <2>4 DEF Loop, Advance
    <3>2. /\ Written(pBuffer)' = Written(pBuffer + pageremain)
          /\ Skipped' = Skipped
      BY <2>2, <3>1, Zenon DEF Written, Place, Skipped
    <3> QED
      BY <2>1, <2>2, <3>1, <3>2 DEF SoFar
  <2> QED
    BY <2>3, <2>4
<1>4. CASE Done
  BY <1>1, <1>4 DEF Done
<1> QED
  BY <1>1, <1>2, <1>3, <1>4 DEF Next

(* When the loop returns, the chip holds what Flash_WriteNoCheck of SpiFlash, *)
(* and with it the server's model, says: all of the data at consecutive       *)
(* addresses around the chip, less the first page of a write to a chip that   *)
(* was erasing or missed the write enable (drvflash.c 93-111).                *)
THEOREM LoopWritesAll == Spec => []WritesAll
<1>1. SoFar => WritesAll
  <2> SUFFICES ASSUME SoFar, pc = "done"
               PROVE  Written(Len(data))
                          = Flash_WriteNoCheck(before, start, data, lost)
    BY DEF SoFar, WritesAll
  <2> QED
    BY Zenon DEF Written, Flash_WriteNoCheck, Programmed, Skipped, Place, InChip
<1>2. Spec => []SoFar
  BY InitSoFar, StepSoFar, Invariance, PTL DEF Spec
<1> QED
  BY <1>1, <1>2, PTL
=============================================================================
