------------------------------ MODULE FrameFifo -------------------------------
(* What the receive ring promises: a bounded queue of frames.  Frames are     *)
(* numbered as they come; one that finds no room is lost, and lwIP may refuse *)
(* the oldest.                                                                *)
EXTENDS Naturals, Sequences

CONSTANT Size       \* frames the ring has buffers for

VARIABLES
    queue,      \* frames received and not yet handed on
    newest,     \* number of the frame that came last
    handed      \* number of the frame handed on last

vars == <<queue, newest, handed>>

Init == queue = <<>> /\ newest = 0 /\ handed = 0

Put ==
    /\ Len(queue) < Size
    /\ newest' = newest + 1
    /\ queue' = Append(queue, newest')
    /\ UNCHANGED handed

(* One buffer may still be on its way back.                                   *)
Lose ==
    /\ Len(queue) >= Size - 1
    /\ newest' = newest + 1
    /\ UNCHANGED <<queue, handed>>

HandOn ==
    /\ queue # <<>>
    /\ handed' = Head(queue)
    /\ queue' = Tail(queue)
    /\ UNCHANGED newest

Refuse ==
    /\ queue # <<>>
    /\ queue' = Tail(queue)
    /\ UNCHANGED <<newest, handed>>

Next == Put \/ Lose \/ HandOn \/ Refuse

Spec == Init /\ [][Next]_vars
=============================================================================
