---------------------------- MODULE SysTime_proofs ----------------------------
(* Proofs about the time base: lwIP's timers are on time, for any period, any *)
(* intervals and any Word, however often LocalTime wraps.                     *)
EXTENDS SysTime, TLAPS

-----------------------------------------------------------------------------
(* Arithmetic modulo Word.                                                    *)

(* A number that is a multiple of Word and a rest has this rest.              *)
LEMMA Rest ==
    ASSUME NEW q \in Int, NEW r \in 0 .. Word - 1, NEW x \in Int,
           x = Word * q + r
    PROVE  x % Word = r
<1> DEFINE d == (x \div Word) - q
           s == (x % Word) - r
<1>0. Word \in Nat /\ Word > 0
  BY SysTimeAssumption
<1>1. /\ x = Word * (x \div Word) + (x % Word)
      /\ x \div Word \in Int /\ x % Word \in 0 .. Word - 1
  BY <1>0
<1>2. Word * d + s = 0
  <2>1. Word * d = Word * (x \div Word) - Word * q
    BY <1>0, <1>1
  <2> QED
    BY <1>0, <1>1, <2>1
<1>3. d \in Int /\ s \in Int /\ s < Word /\ s > -Word
  BY <1>0, <1>1
<1> HIDE DEF d, s
<1>4. d = 0
  <2>1. CASE d >= 1
    <3>1. Word * d >= Word
      BY <1>0, <1>3, <2>1
    <3> QED
      BY <1>0, <1>2, <1>3, <3>1
  <2>2. CASE d <= -1
    <3>1. Word * d <= -Word
      BY <1>0, <1>3, <2>2
    <3> QED
      BY <1>0, <1>2, <1>3, <3>1
  <2> QED
    BY <1>3, <2>1, <2>2
<1>5. s = 0
  BY <1>0, <1>2, <1>3, <1>4
<1> QED
  BY <1>0, <1>1, <1>5 DEF s

(* x as a multiple of Word and what the word holds of it.                     *)
LEMMA Split ==
    ASSUME NEW x \in Int
    PROVE  /\ x % Word \in 0 .. Word - 1
           /\ \E q \in Int : x = Word * q + (x % Word)
<1>1. Word \in Nat /\ Word > 0
  BY SysTimeAssumption
<1>2. /\ x = Word * (x \div Word) + (x % Word)
      /\ x \div Word \in Int /\ x % Word \in 0 .. Word - 1
  BY <1>1
<1> QED
  BY <1>2

(* Adding to what the word holds.                                             *)
Mod(x) == x % Word

LEMMA AddMod ==
    ASSUME NEW x \in Int, NEW y \in Int
    PROVE  Mod(Mod(x) + y) = Mod(x + y) /\ Mod(x) \in 0 .. Word - 1
<1>0. Word \in Nat /\ Word > 0
  BY SysTimeAssumption
<1> DEFINE a == Mod(x)
           z == a + y
           b == Mod(z)
<1>1. a \in 0 .. Word - 1 /\ \E q \in Int : x = Word * q + a
  BY Split DEF Mod
<1>2. PICK q \in Int : x = Word * q + a
  BY <1>1
<1>3. z \in Int
  BY <1>0, <1>1
<1>4. b \in 0 .. Word - 1 /\ \E m \in Int : z = Word * m + b
  <2> HIDE DEF z
  <2> QED
    BY <1>3, Split DEF Mod
<1>5. PICK m \in Int : z = Word * m + b
  BY <1>4
<1> HIDE DEF a, b
<1>6. x + y = Word * (q + m) + b
  <2>1. Word * (q + m) = Word * q + Word * m
    BY <1>0
  <2> QED
    BY <1>0, <1>1, <1>2, <1>4, <1>5, <2>1
<1>7. Mod(x + y) = b
  <2> DEFINE u == x + y
             k == q + m
  <2>1. u \in Int /\ k \in Int /\ u = Word * k + b
    BY <1>6
  <2> HIDE DEF u, k
  <2>2. u % Word = b
    BY <1>4, <2>1, Rest
  <2> QED
    BY <2>2 DEF Mod, u
<1> QED
  BY <1>1, <1>7 DEF a, b, z

(* The difference of two readings of the clock, n apart.                      *)
LEMMA Elapsed ==
    ASSUME NEW l \in 0 .. Word - 1, NEW n \in 0 .. Word - 1
    PROVE  Mod(Mod(l + n) - l) = n
<1>0. Word \in Nat /\ Word > 0
  BY SysTimeAssumption
<1>1. l \in Int /\ n \in Int /\ l + n \in Int /\ -l \in Int
  BY <1>0
<1> DEFINE x == l + n
           y == -l
<1>2. x \in Int /\ y \in Int /\ x + y = n
  BY <1>1
<1>3. Mod(Mod(x) + y) = Mod(x + y) /\ Mod(x) \in 0 .. Word - 1
  <2> HIDE DEF x, y
  <2> QED
    BY <1>2, AddMod
<1>4. Mod(n) = n
  <2>1. n = Word * 0 + n
    BY <1>0
  <2>2. n % Word = n
    BY <1>1, <2>1, Rest
  <2> QED
    BY <2>2 DEF Mod
<1>5. Mod(x) + y = Mod(l + n) - l
  BY <1>0, <1>1, <1>3
<1>6. Mod(x + y) = n
  <2> HIDE DEF x, y
  <2> QED
    BY <1>2, <1>4, Zenon
<1> QED
  BY <1>3, <1>5, <1>6

-----------------------------------------------------------------------------
(* What n ticks add to LocalTime.                                             *)
Ticks(n) == n * Period

LEMMA TicksSum ==
    /\ \A a, b \in Int :
          /\ Ticks(a) \in Int
          /\ Ticks(a + b) = Ticks(a) + Ticks(b)
          /\ Ticks(a - b) = Ticks(a) - Ticks(b)
          /\ a <= b => Ticks(a) <= Ticks(b)
          /\ Ticks(a) < Ticks(b) => a < b
    /\ Ticks(0) = 0 /\ Ticks(1) = Period
<1>0. Period \in Nat /\ Period > 0
  BY SysTimeAssumption
<1>1. ASSUME NEW a \in Int, NEW b \in Int
      PROVE  /\ Ticks(a) \in Int
             /\ Ticks(a + b) = Ticks(a) + Ticks(b)
             /\ Ticks(a - b) = Ticks(a) - Ticks(b)
             /\ a <= b => Ticks(a) <= Ticks(b)
  BY <1>0 DEF Ticks
<1>2. ASSUME NEW a \in Int, NEW b \in Int, Ticks(a) < Ticks(b)
      PROVE  a < b
  <2>1. CASE b <= a
    <3>1. Ticks(b) <= Ticks(a) /\ Ticks(a) \in Int /\ Ticks(b) \in Int
      BY <1>1, <2>1
    <3> QED
      BY <1>2, <3>1
  <2> QED
    BY <2>1
<1>3. Ticks(0) = 0 /\ Ticks(1) = Period
  BY <1>0 DEF Ticks
<1> QED
  BY <1>1, <1>2, <1>3

(* The most ticks a turn of the main loop adds.                               *)
Turn == Ticks(MaxStall)

LEMMA TurnType ==
    ASSUME NEW t \in Timers
    PROVE  /\ Turn \in Nat /\ Interval[t] \in Nat \ {0}
           /\ Interval[t] + 5 * Turn <= Word
  BY SysTimeAssumption, TurnAssumption DEF Turn, Ticks

(* From the start of a timer to the reading of LocalTime.                     *)
Since(t) == Ticks(age[t] - stall)

Counters ==
    /\ waited <= stall
    /\ pc # "wait" => waited = 0
    /\ \A t \in Timers : stall <= age[t]

(* LocalTime, and the copy the periodic handler works on, are what the ticks  *)
(* since a timer's last run have made of its start.                           *)
Clock ==
    \A t \in Timers :
        /\ LocalTime = Mod(last[t] + Ticks(age[t]))
        /\ pc = "periodic" => localtime = Mod(last[t] + Since(t))

(* How old a timer may be, in the set-up and in the main loop.                *)
Young ==
    /\ pc \in {"start", "wait"} => delays \in {1, 2}
    /\ \A t \in Timers :
          /\ pc = "start" /\ delays = 2 => Since(t) <= 0
          /\ pc = "wait" /\ delays = 2 => Since(t) <= Turn
          /\ pc = "start" /\ delays = 1 => Since(t) <= 2 * Turn
          /\ pc = "wait" /\ delays = 1 => Since(t) <= 3 * Turn
          /\ pc = "read" => Since(t) < Interval[t] + 4 * Turn
          /\ pc = "periodic" => Since(t) < Interval[t] + 5 * Turn
          /\ pc = "periodic" /\ t \notin todo => Since(t) < Interval[t]

IInv == TypeOK /\ Counters /\ Clock /\ Young

(* No timer is older than the set-up and a turn make it.                      *)
LEMMA Ages ==
    ASSUME IInv, NEW t \in Timers
    PROVE  /\ stall \in Nat /\ stall <= MaxStall /\ age[t] \in Nat
           /\ stall <= age[t]
           /\ Since(t) \in Nat /\ Since(t) < Interval[t] + 5 * Turn
           /\ Ticks(age[t]) = Since(t) + Ticks(stall)
           /\ Ticks(stall) \in Nat /\ Ticks(stall) <= Turn
<1>1. /\ stall \in Nat /\ stall <= MaxStall /\ age[t] \in Nat
      /\ stall <= age[t] /\ MaxStall \in Nat
  BY SysTimeAssumption DEF IInv, TypeOK, Counters
<1>2. /\ age[t] \in Int /\ stall \in Int /\ age[t] - stall \in Int
      /\ 0 <= age[t] - stall /\ 0 \in Int /\ 0 <= stall
      /\ MaxStall \in Int
  BY <1>1
<1>3. /\ Ticks(stall) \in Int /\ Ticks(stall) <= Turn /\ 0 <= Ticks(stall)
      /\ Since(t) \in Int /\ 0 <= Since(t)
      /\ Since(t) = Ticks(age[t]) - Ticks(stall) /\ Ticks(age[t]) \in Int
  <2> DEFINE a == age[t]
             e == a - stall
  <2>1. /\ a \in Int /\ e \in Int /\ 0 <= e
        /\ Ticks(a - stall) = Ticks(a) - Ticks(stall)
    BY <1>2, TicksSum
  <2>2. Since(t) = Ticks(e) /\ e = a - stall
    BY Zenon DEF Since
  <2> HIDE DEF a, e
  <2>3. /\ Ticks(stall) \in Int /\ Ticks(stall) <= Turn
        /\ Ticks(0) <= Ticks(stall) /\ Ticks(0) <= Ticks(e) /\ Ticks(0) = 0
        /\ Ticks(a) \in Int /\ Ticks(e) \in Int
    BY <1>1, <1>2, <2>1, TicksSum DEF Turn
  <2>4. Since(t) = Ticks(a) - Ticks(stall)
    BY <2>1, <2>2, Zenon
  <2> QED
    BY <2>2, <2>3, <2>4 DEF a
<1>4. Since(t) < Interval[t] + 5 * Turn
  <2>1. /\ Turn \in Nat /\ Interval[t] \in Nat \ {0}
    BY TurnType
  <2>2. pc \in {"start", "wait", "read", "periodic"}
    BY DEF IInv, TypeOK
  <2> QED
    BY <1>3, <2>1, <2>2 DEF IInv, Young
<1> QED
  BY <1>1, <1>3, <1>4

(* What the handler makes of the difference is the time that has passed.      *)
LEMMA DueIs ==
    ASSUME IInv, pc = "periodic", NEW t \in Timers
    PROVE  Due(t) <=> Since(t) >= Interval[t]
<1> DEFINE n == Since(t)
           l == last[t]
<1>1. n \in Nat /\ n < Interval[t] + 5 * Turn
  BY Ages
<1>2. n \in 0 .. Word - 1 /\ l \in 0 .. Word - 1
  BY <1>1, TurnType, SysTimeAssumption DEF IInv, TypeOK
<1>3. localtime = Mod(l + n)
  BY DEF IInv, Clock
<1> HIDE DEF n, l
<1>4. Mod(Mod(l + n) - l) = n
  BY <1>2, Elapsed
<1>5. Due(t) <=> Mod(localtime - l) >= Interval[t]
  BY DEF Due, Mod, l
<1> QED
  BY <1>3, <1>4, <1>5 DEF n

-----------------------------------------------------------------------------
LEMMA InitHolds == Init => IInv
<1> SUFFICES ASSUME Init PROVE IInv
  OBVIOUS
<1>0. Word \in Nat /\ Word > 0 /\ MaxStall \in Nat
  BY SysTimeAssumption
<1>1. TypeOK
  BY <1>0 DEF Init, TypeOK
<1>2. Counters
  BY DEF Init, Counters
<1>3. ASSUME NEW t \in Timers
      PROVE  last[t] + Ticks(age[t]) = 0 /\ Since(t) = 0
  <2>1. last[t] = 0 /\ age[t] = 0 /\ age[t] - stall = 0 /\ Ticks(0) = 0
    BY TicksSum DEF Init
  <2> QED
    BY <2>1 DEF Since
<1>4. Mod(0) = 0
  <2>1. 0 = Word * 0 + 0 /\ 0 \in 0 .. Word - 1
    BY <1>0
  <2>2. 0 % Word = 0
    BY <2>1, Rest
  <2> QED
    BY <2>2 DEF Mod
<1>5. Clock
  BY <1>3, <1>4 DEF Init, Clock
<1>6. Young
  BY <1>3 DEF Init, Young
<1> QED
  BY <1>1, <1>2, <1>5, <1>6 DEF IInv

(* A tick: all ages grow, and nothing the handler has read changes.           *)
LEMMA TickKeeps ==
    ASSUME IInv, Time_Update
    PROVE  IInv'
<1>0. /\ Word \in Nat /\ Word > 0 /\ Period \in Nat /\ MaxStall \in Nat
  BY SysTimeAssumption
<1>1. /\ stall < MaxStall /\ stall' = stall + 1
      /\ LocalTime' = Mod(LocalTime + Period)
      /\ waited' = IF pc = "wait" THEN waited + 1 ELSE waited
      /\ UNCHANGED <<timingdelay, last, localtime, pc, delays, todo>>
  BY DEF Time_Update, Mod
<1>2. ASSUME NEW t \in Timers
      PROVE  age'[t] = age[t] + 1
  BY DEF Time_Update
<1>3. ASSUME NEW t \in Timers
      PROVE  /\ Ticks(age'[t]) = Ticks(age[t]) + Period
             /\ Since(t)' = Since(t)
             /\ Ticks(age[t]) \in Int
  <2>1. age[t] \in Int /\ stall \in Int
    BY Ages
  <2>2. age'[t] - stall' = age[t] - stall
    BY <1>1, <1>2, <2>1
  <2>3. Ticks(age[t] + 1) = Ticks(age[t]) + Ticks(1) /\ Ticks(1) = Period
    <3> DEFINE a == age[t]
    <3>1. a \in Int /\ 1 \in Int
      BY <2>1
    <3> HIDE DEF a
    <3>2. Ticks(a + 1) = Ticks(a) + Ticks(1) /\ Ticks(1) = Period
      BY <3>1, TicksSum, Zenon
    <3> QED
      BY <3>2, Zenon DEF a
  <2>4. Since(t)' = Since(t)
    BY <2>2, Zenon DEF Since, Ticks
  <2>5. Ticks(age'[t]) = Ticks(age[t]) + Period
    BY <1>2, <2>3, Zenon
  <2> QED
    BY <2>1, <2>4, <2>5, TicksSum
<1>4. TypeOK'
  <2>1. LocalTime' \in 0 .. Word - 1
    <3>1. LocalTime + Period \in Int
      BY <1>0 DEF IInv, TypeOK
    <3>2. Mod(LocalTime + Period) \in 0 .. Word - 1
      BY <3>1, Split DEF Mod
    <3> QED
      BY <1>1, <3>2
  <2>2. age' \in [Timers -> Nat]
    BY <1>0 DEF Time_Update, IInv, TypeOK
  <2>3. stall' \in 0 .. MaxStall /\ waited' \in 0 .. MaxStall
    BY <1>0, <1>1 DEF IInv, TypeOK, Counters
  <2> QED
    BY <1>1, <2>1, <2>2, <2>3 DEF IInv, TypeOK
<1>5. Counters'
  BY <1>1, <1>2, Ages DEF IInv, TypeOK, Counters
<1>6. Clock'
  <2> SUFFICES ASSUME NEW t \in Timers
               PROVE  /\ LocalTime' = Mod(last[t] + Ticks(age'[t]))
                      /\ pc = "periodic" =>
                            localtime = Mod(last[t] + Since(t)')
    BY <1>1, Zenon DEF Clock, Mod, Ticks
  <2> DEFINE x == last[t] + Ticks(age[t])
  <2>1. x \in Int /\ Period \in Int /\ LocalTime = Mod(x)
    BY <1>0, <1>3 DEF IInv, TypeOK, Clock
  <2>2. x + Period = last[t] + Ticks(age'[t])
    BY <1>0, <1>3 DEF IInv, TypeOK
  <2> HIDE DEF x
  <2>3. Mod(Mod(x) + Period) = Mod(x + Period)
    BY <2>1, AddMod
  <2>4. pc = "periodic" => localtime = Mod(last[t] + Since(t)')
    BY <1>3 DEF IInv, Clock
  <2> QED
    BY <1>1, <2>1, <2>2, <2>3, <2>4, Zenon
<1>7. Young'
  BY <1>1, <1>3 DEF IInv, Young
<1> QED
  BY <1>4, <1>5, <1>6, <1>7 DEF IInv

(* The steps of the main loop that start its count of ticks again.            *)
LEMMA Restarted ==
    ASSUME IInv, UNCHANGED <<LocalTime, last, age>>, stall' = 0
    PROVE  \A t \in Timers :
              /\ Since(t)' = Since(t) + Ticks(stall)
              /\ Since(t)' = Ticks(age[t])
              /\ Since(t) \in Int /\ Ticks(stall) \in Int
              /\ Ticks(stall) <= Turn /\ Turn \in Nat
              /\ stall' <= age'[t]
<1> SUFFICES ASSUME NEW t \in Timers
             PROVE  /\ Since(t)' = Since(t) + Ticks(stall)
                    /\ Since(t)' = Ticks(age[t])
                    /\ Since(t) \in Int /\ Ticks(stall) \in Int
                    /\ Ticks(stall) <= Turn /\ Turn \in Nat
                    /\ stall' <= age'[t]
  OBVIOUS
<1>1. /\ age[t] \in Nat /\ Since(t) \in Nat
      /\ Ticks(age[t]) = Since(t) + Ticks(stall)
      /\ Ticks(stall) \in Nat /\ Ticks(stall) <= Turn
  BY Ages
<1>2. age'[t] - stall' = age[t]
  BY <1>1
<1>3. Since(t)' = Ticks(age[t])
  BY <1>2, Zenon DEF Since, Ticks
<1> QED
  BY <1>1, <1>3, TurnType

LEMMA SetUpKeeps ==
    ASSUME IInv, DelayStart \/ DelayEnd
    PROVE  IInv'
<1>0. Word \in Nat /\ Word > 0 /\ MaxStall \in Nat
  BY SysTimeAssumption
<1>1. /\ UNCHANGED <<LocalTime, last, age, todo, localtime>> /\ stall' = 0
      /\ waited' = 0 /\ pc' \in {"start", "wait", "read"}
      /\ pc \in {"start", "wait"} /\ delays \in {1, 2}
      /\ \/ pc = "start" /\ pc' = "wait" /\ delays' = delays
         \/ pc = "wait" /\ delays = 2 /\ pc' = "start" /\ delays' = 1
         \/ pc = "wait" /\ delays = 1 /\ pc' = "read" /\ delays' = 0
  BY DEF DelayStart, DelayEnd, IInv, Young
<1>2. TypeOK'
  <2>1. timingdelay' \in 0 .. Word - 1
    <3>1. LocalTime + 1 \in Int
      BY DEF IInv, TypeOK
    <3>2. (LocalTime + 1) % Word \in 0 .. Word - 1
      BY <3>1, Split
    <3>3. timingdelay' = (LocalTime + 1) % Word \/ timingdelay' = timingdelay
      BY DEF DelayStart, DelayEnd
    <3> QED
      BY <3>2, <3>3 DEF IInv, TypeOK
  <2> QED
    BY <1>0, <1>1, <2>1 DEF IInv, TypeOK
<1>3. Counters'
  BY <1>1, Restarted DEF Counters
<1>4. Clock'
  <2>1. \A t \in Timers : LocalTime = Mod(last[t] + Ticks(age[t]))
    BY DEF IInv, Clock
  <2>2. pc' # "periodic"
    BY <1>1
  <2> QED
    BY <1>1, <2>1, <2>2, Zenon DEF Clock, Mod, Ticks
<1>5. Young'
  <2>1. ASSUME NEW t \in Timers
        PROVE  /\ Since(t)' \in Int /\ Since(t)' <= Since(t) + Turn
               /\ Since(t) \in Int /\ Turn \in Nat
               /\ Interval[t] \in Nat \ {0}
    BY <1>1, Restarted, TurnType
  <2> QED
    BY <1>1, <2>1 DEF IInv, Young
<1> QED
  BY <1>2, <1>3, <1>4, <1>5 DEF IInv

LEMMA ReadKeeps ==
    ASSUME IInv, Read
    PROVE  IInv'
<1>1. /\ UNCHANGED <<LocalTime, timingdelay, last, age, delays, waited>>
      /\ stall' = 0 /\ pc = "read" /\ pc' = "periodic" /\ todo' = Timers
      /\ localtime' = LocalTime
  BY DEF Read
<1>2. TypeOK' /\ waited = 0
  BY <1>1, SysTimeAssumption DEF IInv, TypeOK, Counters
<1>3. Counters'
  BY <1>1, <1>2, Restarted DEF Counters
<1>4. Clock'
  <2>1. \A t \in Timers : /\ LocalTime = Mod(last[t] + Ticks(age[t]))
                          /\ Since(t)' = Ticks(age[t])
    BY <1>1, Restarted DEF IInv, Clock
  <2> QED
    BY <1>1, <2>1, Zenon DEF Clock, Mod, Ticks
<1>5. Young'
  <2>1. ASSUME NEW t \in Timers
        PROVE  /\ Since(t)' \in Int /\ Since(t)' <= Since(t) + Turn
               /\ Since(t) \in Int /\ Turn \in Nat /\ Interval[t] \in Nat
    BY <1>1, Restarted, TurnType
  <2> QED
    BY <1>1, <2>1 DEF IInv, Young
<1> QED
  BY <1>2, <1>3, <1>4, <1>5 DEF IInv

(* A timer that runs starts from what the handler has read.                   *)
LEMMA RunKeeps ==
    ASSUME IInv, NEW t \in Timers, Run(t)
    PROVE  IInv'
<1>0. Word \in Nat /\ Word > 0 /\ MaxStall \in Nat
  BY SysTimeAssumption
<1>1. /\ pc = "periodic" /\ last' = [last EXCEPT ![t] = localtime]
      /\ age' = [age EXCEPT ![t] = stall] /\ todo' = todo \ {t}
      /\ UNCHANGED <<LocalTime, timingdelay, localtime, pc, delays, stall,
                     waited>>
  BY DEF Run, Started
<1>2. /\ stall \in Nat /\ stall <= MaxStall
      /\ localtime \in 0 .. Word - 1 /\ last[t] \in 0 .. Word - 1
      /\ Since(t) \in Nat /\ Ticks(age[t]) = Since(t) + Ticks(stall)
      /\ Ticks(stall) \in Nat
      /\ localtime \in Int /\ last[t] \in Int
  BY <1>0, Ages, SysTimeAssumption DEF IInv, TypeOK
<1>3. last'[t] = localtime /\ age'[t] = stall
  BY <1>1 DEF IInv, TypeOK
<1>4. \A u \in Timers : u # t => last'[u] = last[u] /\ age'[u] = age[u]
  BY <1>1 DEF IInv, TypeOK
<1>5. Since(t)' = 0
  <2>1. age'[t] - stall' = 0 /\ Ticks(0) = 0
    BY <1>1, <1>2, <1>3, TicksSum
  <2> QED
    BY <2>1, Zenon DEF Since, Ticks
<1>6. \A u \in Timers : u # t => Since(u)' = Since(u)
  BY <1>1, <1>4, Zenon DEF Since, Ticks
<1>7. TypeOK'
  BY <1>1, <1>2 DEF IInv, TypeOK
<1>8. Counters'
  BY <1>1, <1>2, <1>3, <1>4 DEF IInv, Counters
<1>9. Clock'
  <2>1. LocalTime = Mod(localtime + Ticks(stall))
    <3> DEFINE x == last[t] + Since(t)
               y == Ticks(stall)
    <3>1. x \in Int /\ y \in Int /\ x + y = last[t] + Ticks(age[t])
      BY <1>2
    <3>2. localtime = Mod(x) /\ LocalTime = Mod(last[t] + Ticks(age[t]))
      BY <1>1 DEF IInv, Clock
    <3> HIDE DEF x, y
    <3>3. Mod(Mod(x) + y) = Mod(x + y)
      BY <3>1, AddMod
    <3> QED
      BY <3>1, <3>2, <3>3, Zenon DEF y
  <2>2. localtime = Mod(localtime + 0)
    <3>1. localtime = Word * 0 + localtime
      BY <1>0, <1>2
    <3>2. localtime % Word = localtime
      BY <1>2, <3>1, Rest
    <3>3. localtime + 0 = localtime
      BY <1>2
    <3> QED
      BY <3>2, <3>3, Zenon DEF Mod
  <2>3. ASSUME NEW u \in Timers
        PROVE  /\ LocalTime = Mod(last'[u] + Ticks(age'[u]))
               /\ localtime = Mod(last'[u] + Since(u)')
    <3>1. CASE u = t
      BY <1>3, <1>5, <2>1, <2>2, <3>1, Zenon
    <3>2. CASE u # t
      <4>1. /\ LocalTime = Mod(last[u] + Ticks(age[u]))
            /\ localtime = Mod(last[u] + Since(u))
        BY <1>1 DEF IInv, Clock
      <4> QED
        BY <1>4, <1>6, <3>2, <4>1, Zenon
    <3> QED
      BY <3>1, <3>2
  <2> QED
    BY <1>1, <2>3, Zenon DEF Clock, Mod, Ticks
<1>10. Young'
  <2>1. Interval[t] \in Nat \ {0} /\ Turn \in Nat
    BY TurnType
  <2>2. Since(t)' < Interval[t] /\ Since(t)' < Interval[t] + 5 * Turn
    BY <1>5, <2>1
  <2>3. ASSUME NEW u \in Timers
        PROVE  /\ Since(u)' < Interval[u] + 5 * Turn
               /\ u \notin todo' => Since(u)' < Interval[u]
    <3>1. CASE u = t
      BY <2>2, <3>1
    <3>2. CASE u # t
      BY <1>1, <1>6, <3>2 DEF IInv, Young
    <3> QED
      BY <3>1, <3>2
  <2>4. pc' = "periodic"
    BY <1>1
  <2> QED
    BY <2>3, <2>4 DEF Young
<1> QED
  BY <1>7, <1>8, <1>9, <1>10 DEF IInv

LEMMA SkipKeeps ==
    ASSUME IInv, NEW t \in Timers, Skip(t)
    PROVE  IInv'
<1>1. /\ pc = "periodic" /\ ~Due(t) /\ todo' = todo \ {t}
      /\ UNCHANGED <<LocalTime, timingdelay, last, localtime, pc, delays, stall,
                     waited, age>>
  BY DEF Skip
<1>2. Since(t) < Interval[t]
  <2>1. Since(t) \in Nat /\ Interval[t] \in Nat
    BY Ages, TurnType
  <2> QED
    BY <1>1, <2>1, DueIs
<1>3. \A u \in Timers : Since(u)' = Since(u)
  BY <1>1, Zenon DEF Since, Ticks
<1>4. TypeOK' /\ Counters'
  BY <1>1 DEF IInv, TypeOK, Counters
<1>5. Clock'
  BY <1>1, Zenon DEF IInv, Clock, Mod, Ticks, Since
<1>6. Young'
  BY <1>1, <1>2, <1>3 DEF IInv, Young
<1> QED
  BY <1>4, <1>5, <1>6 DEF IInv

LEMMA ReturnKeeps ==
    ASSUME IInv, Return
    PROVE  IInv'
<1>1. /\ pc = "periodic" /\ todo = {} /\ pc' = "read"
      /\ UNCHANGED <<LocalTime, timingdelay, last, localtime, delays, todo,
                     stall, waited, age>>
  BY DEF Return
<1>2. \A u \in Timers : Since(u)' = Since(u)
  BY <1>1, Zenon DEF Since, Ticks
<1>3. TypeOK' /\ Counters'
  BY <1>1 DEF IInv, TypeOK, Counters
<1>4. Clock'
  <2>1. /\ pc' # "periodic"
        /\ \A t \in Timers : LocalTime = Mod(last[t] + Ticks(age[t]))
    BY <1>1 DEF IInv, Clock
  <2> QED
    BY <1>1, <2>1, Zenon DEF Clock, Mod, Ticks
<1>5. Young'
  <2>1. \A t \in Timers : /\ Since(t) \in Int /\ Turn \in Nat
                          /\ Interval[t] \in Nat
    BY Ages, TurnType
  <2> QED
    BY <1>1, <1>2, <2>1 DEF IInv, Young
<1> QED
  BY <1>3, <1>4, <1>5 DEF IInv

LEMMA StepKeeps == IInv /\ [Next]_vars => IInv'
<1> SUFFICES ASSUME IInv, [Next]_vars PROVE IInv'
  OBVIOUS
<1>1. CASE UNCHANGED vars
  <2>1. UNCHANGED <<LocalTime, timingdelay, last, localtime, pc, delays, todo,
                    stall, waited, age>>
    BY <1>1 DEF vars
  <2>2. \A u \in Timers : Since(u)' = Since(u)
    BY <2>1, Zenon DEF Since, Ticks
  <2>3. TypeOK' /\ Counters'
    BY <2>1 DEF IInv, TypeOK, Counters
  <2>4. Clock'
    BY <2>1, Zenon DEF IInv, Clock, Mod, Ticks, Since
  <2>5. Young'
    BY <2>1, <2>2 DEF IInv, Young
  <2> QED
    BY <2>3, <2>4, <2>5 DEF IInv
<1>2. CASE Next
  BY <1>2, TickKeeps, SetUpKeeps, ReadKeeps, RunKeeps, SkipKeeps, ReturnKeeps
     DEF Next, Main
<1> QED
  BY <1>1, <1>2

(* The age at any moment: what the main loop has not seen yet comes on top.   *)
Late == \A t \in Timers : Ticks(age[t]) < Interval[t] + 6 * Turn

LEMMA LateHolds == IInv => Late
<1> SUFFICES ASSUME IInv, NEW t \in Timers
             PROVE  Ticks(age[t]) < Interval[t] + 6 * Turn
  BY DEF Late
<1>1. /\ Since(t) \in Nat /\ Since(t) < Interval[t] + 5 * Turn
      /\ Ticks(age[t]) = Since(t) + Ticks(stall)
      /\ Ticks(stall) \in Nat /\ Ticks(stall) <= Turn
  BY Ages
<1> QED
  BY <1>1, TurnType

LEMMA LateNext == IInv' => Late'
  BY LateHolds, PTL

(* A timer runs when its interval has passed and is passed over only when it  *)
(* has not, however often LocalTime wraps and however long a turn of the main *)
(* loop takes within TurnAssumption; none waits longer than the set-up and a  *)
(* turn for it (netconf.c 167-182).                                           *)
THEOREM TimersPunctual == Spec => Punctual
<1> DEFINE OnTime(t) == /\ Run(t) => (age[t] - stall) * Period >= Interval[t]
                        /\ Skip(t) => (age[t] - stall) * Period < Interval[t]
                        /\ age'[t] * Period
                               < Interval[t] + 6 * (MaxStall * Period)
<1>1. ASSUME IInv, IInv', Next
      PROVE  \A t \in Timers : OnTime(t)
  <2> SUFFICES ASSUME NEW t \in Timers PROVE OnTime(t)
    OBVIOUS
  <2>1. Run(t) => (age[t] - stall) * Period >= Interval[t]
    <3> SUFFICES ASSUME Run(t) PROVE Since(t) >= Interval[t]
      BY Zenon DEF Since, Ticks
    <3> QED
      BY <1>1, DueIs DEF Run
  <2>2. Skip(t) => (age[t] - stall) * Period < Interval[t]
    <3> SUFFICES ASSUME Skip(t) PROVE Since(t) < Interval[t]
      BY Zenon DEF Since, Ticks
    <3>1. Since(t) \in Nat /\ Interval[t] \in Nat
      BY <1>1, Ages, TurnType
    <3> QED
      BY <1>1, <3>1, DueIs DEF Skip
  <2>3. age'[t] * Period < Interval[t] + 6 * (MaxStall * Period)
    <3>1. Late'
      BY <1>1, LateNext
    <3>2. Ticks(age'[t]) < Interval[t] + 6 * Turn
      BY <3>1, Zenon DEF Late, Ticks, Turn
    <3> QED
      BY <3>2, Zenon DEF Ticks, Turn
  <2> QED
    BY <2>1, <2>2, <2>3
<1>2. IInv /\ IInv' /\ [Next]_vars => [\A t \in Timers : OnTime(t)]_vars
  BY <1>1
<1>3. Spec => [][\A t \in Timers : OnTime(t)]_vars
  BY <1>2, InitHolds, StepKeeps, PTL DEF Spec
<1> QED
  BY <1>3 DEF Punctual

-----------------------------------------------------------------------------
(* What the types alone rest on: a Delay is still to be counted while one     *)
(* runs, and no ticks are counted in it that the main loop has not seen.      *)
Types ==
    /\ TypeOK
    /\ pc \in {"start", "wait"} => delays \in {1, 2}
    /\ waited <= stall
    /\ pc # "wait" => waited = 0

(* Registers and counters keep their ranges, however long the main loop takes *)
(* (main.c 125-155, netconf.c 167-182).                                       *)
THEOREM TimeTypeCorrect == Spec => []TypeOK
<1>1. Init => Types
  BY SysTimeAssumption DEF Init, Types, TypeOK
<1>2. Types /\ [Next]_vars => Types'
  <2> SUFFICES ASSUME Types, [Next]_vars PROVE Types'
    OBVIOUS
  <2> USE SysTimeAssumption DEF Types, TypeOK
  <2>1. /\ (LocalTime + Period) % Word \in 0 .. Word - 1
        /\ (LocalTime + 1) % Word \in 0 .. Word - 1
    <3>1. LocalTime + Period \in Int /\ LocalTime + 1 \in Int
      OBVIOUS
    <3> QED
      BY <3>1, Split
  <2>2. CASE Time_Update
    BY <2>1, <2>2 DEF Time_Update
  <2>3. CASE DelayStart
    BY <2>1, <2>3 DEF DelayStart
  <2>4. CASE DelayEnd
    BY <2>4 DEF DelayEnd
  <2>5. CASE Read
    BY <2>5 DEF Read
  <2>6. ASSUME NEW t \in Timers, Run(t) PROVE Types'
    BY <2>6 DEF Run, Started
  <2>7. ASSUME NEW t \in Timers, Skip(t) PROVE Types'
    BY <2>7 DEF Skip
  <2>8. CASE Return
    BY <2>8 DEF Return
  <2>9. CASE UNCHANGED vars
    BY <2>9 DEF vars
  <2> QED
    BY <2>2, <2>3, <2>4, <2>5, <2>6, <2>7, <2>8, <2>9 DEF Next, Main
<1>3. Types => TypeOK
  BY DEF Types
<1> QED
  BY <1>1, <1>2, <1>3, PTL DEF Spec
=============================================================================
