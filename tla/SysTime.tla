------------------------------- MODULE SysTime --------------------------------
(* The time base: SysTick_Handler advances LocalTime, Delay waits on it while *)
(* the board is set up, and the main loop derives from it the periods of      *)
(* lwIP's timers.  LocalTime counts modulo Word.                              *)
EXTENDS Integers

CONSTANTS Word,             \* 2^32
          Period,           \* SYSTEMTICK_PERIOD_MS
          TicksPerMs,       \* SysTick interrupts in a millisecond
          Timers,           \* TCPTimer and ARPTimer
          Interval,         \* their intervals in milliseconds
          MaxStall          \* bound: ticks during a turn of the main loop

ASSUME SysTimeAssumption ==
    /\ {Word, Period, TicksPerMs, MaxStall} \subseteq Nat \ {0}
    /\ Interval \in [Timers -> 1 .. Word - 1]

(* LocalTime does not go round while a timer waits for the main loop, which   *)
(* may be longer than the interval: with the firmware's numbers a turn takes  *)
(* less than two hours.                                                       *)
ASSUME TurnAssumption ==
    \A t \in Timers : Interval[t] + 5 * (MaxStall * Period) <= Word

VARIABLES
    LocalTime,
    timingdelay,
    last,           \* TCPTimer and ARPTimer
    localtime,      \* the argument of LwIP_Periodic_Handle
    pc,             \* "start" or "wait" in a Delay, then in the main loop:
                    \* "read" or "periodic"
    delays,         \* calls of Delay left in XVC_PHY_RST
    todo,           \* timers LwIP_Periodic_Handle has still to look at
    stall,          \* history: ticks since localtime was read
    waited,         \* history: ticks in this Delay
    age             \* history: ticks since the localtime a timer ran at

vars == <<LocalTime, timingdelay, last, localtime, pc, delays, todo, stall,
          waited, age>>

TypeOK ==
    /\ {LocalTime, timingdelay, localtime} \subseteq 0 .. Word - 1
    /\ last \in [Timers -> 0 .. Word - 1]
    /\ pc \in {"start", "wait", "read", "periodic"}
    /\ delays \in 0 .. 2
    /\ todo \subseteq Timers
    /\ {stall, waited} \subseteq 0 .. MaxStall
    /\ age \in [Timers -> Nat]

Init ==
    /\ LocalTime = 0
    /\ timingdelay = 0
    /\ last = [t \in Timers |-> 0]
    /\ localtime = 0
    /\ pc = "start"
    /\ delays = 2
    /\ todo = {}
    /\ stall = 0
    /\ waited = 0
    /\ age = [t \in Timers |-> 0]

-----------------------------------------------------------------------------
(* SysTick_Handler, at any moment.                                            *)
Time_Update ==
    /\ stall < MaxStall
    /\ LocalTime' = (LocalTime + Period) % Word
    /\ stall' = stall + 1
    /\ waited' = IF pc = "wait" THEN waited + 1 ELSE waited
    /\ age' = [t \in Timers |-> age[t] + 1]
    /\ UNCHANGED <<timingdelay, last, localtime, pc, delays, todo>>

(* Delay(1), twice.                                                           *)
DelayStart ==
    /\ pc = "start" /\ delays > 0
    /\ pc' = "wait"
    /\ timingdelay' = (LocalTime + 1) % Word
    /\ waited' = 0
    /\ stall' = 0
    /\ UNCHANGED <<LocalTime, last, localtime, delays, todo, age>>

DelayEnd ==
    /\ pc = "wait"
    /\ ~(timingdelay > LocalTime)
    /\ pc' = IF delays = 1 THEN "read" ELSE "start"
    /\ delays' = delays - 1
    /\ stall' = 0
    /\ waited' = 0
    /\ UNCHANGED <<LocalTime, timingdelay, last, localtime, todo, age>>

(* LwIP_Periodic_Handle(LocalTime) ...                                        *)
Read ==
    /\ pc = "read"
    /\ pc' = "periodic"
    /\ localtime' = LocalTime
    /\ todo' = Timers
    /\ stall' = 0
    /\ UNCHANGED <<LocalTime, timingdelay, last, delays, waited, age>>

(* ... looks at each timer: the difference is modulo Word.                    *)
Due_NoWrap(t) == localtime >= last[t] + Interval[t]
Due(t) == (localtime - last[t]) % Word >= Interval[t]

Started(t) == localtime

Run(t) ==
    /\ pc = "periodic" /\ t \in todo
    /\ Due(t)
    /\ last' = [last EXCEPT ![t] = Started(t)]
    /\ age' = [age EXCEPT ![t] = stall]
    /\ todo' = todo \ {t}
    /\ UNCHANGED <<LocalTime, timingdelay, localtime, pc, delays, stall, waited>>

Skip(t) ==
    /\ pc = "periodic" /\ t \in todo
    /\ ~Due(t)
    /\ todo' = todo \ {t}
    /\ UNCHANGED <<LocalTime, timingdelay, last, localtime, pc, delays, stall,
                   waited, age>>

Return ==
    /\ pc = "periodic" /\ todo = {}
    /\ pc' = "read"
    /\ UNCHANGED <<LocalTime, timingdelay, last, localtime, delays, todo, stall,
                   waited, age>>

Main ==
    \/ DelayStart
    \/ DelayEnd
    \/ Read
    \/ \E t \in Timers : Run(t) \/ Skip(t)
    \/ Return

Next == Time_Update \/ Main

Spec == Init /\ [][Next]_vars

-----------------------------------------------------------------------------
(* A timer that the main loop looks at runs if its interval has passed on     *)
(* LocalTime and not otherwise, whatever the other takes, however often       *)
(* LocalTime wraps and however long a turn lasts; so none waits longer than   *)
(* for its interval, the set-up and a turn (netconf.c 167-182).               *)
Punctual ==
    [][\A t \in Timers :
          /\ Run(t) => (age[t] - stall) * Period >= Interval[t]
          /\ Skip(t) => (age[t] - stall) * Period < Interval[t]
          /\ age'[t] * Period < Interval[t] + 6 * (MaxStall * Period)]_vars

(* "TCP periodic process every 250 ms", "ARP periodic process every 5s"       *)
(* (netconf.c 170, 176).                                                      *)
RealPeriod ==
    [][\A t \in Timers :
          Run(t) => age[t] - stall >= Interval[t] * TicksPerMs]_vars

(* Delay waits for nCount "10ms periods" (main.c 122): here for one.          *)
DelayLasts == [][DelayEnd => waited >= 10 * TicksPerMs]_vars
=============================================================================
