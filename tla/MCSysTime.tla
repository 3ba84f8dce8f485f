------------------------------ MODULE MCSysTime -------------------------------
(* TLC instance of the time base: an interval that is shorter than a turn of  *)
(* the main loop may be and one that is longer, and a Word that wraps after   *)
(* a few of them and is, like 2^32, no multiple of the period.                *)
EXTENDS SysTime

CONSTANTS TCPTimer, ARPTimer

MCTimers == {TCPTimer, ARPTimer}
MCInterval == [t \in MCTimers |-> IF t = TCPTimer THEN 20 ELSE 50]
=============================================================================
