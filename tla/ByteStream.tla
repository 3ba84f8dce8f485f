----------------------------- MODULE ByteStream -----------------------------
(* What TCP promises for one direction of a connection: the receiver gets     *)
(* what the sender has written, in order, each unit once, and nothing else.   *)
(* The units are numbered 1, 2, 3, ... as they are written.                   *)
EXTENDS Naturals, Sequences

VARIABLES wrote,    \* number of units written
          got       \* the units received

vars == <<wrote, got>>

Init == wrote = 0 /\ got = <<>>

Write ==
    /\ wrote' > wrote
    /\ UNCHANGED got

(* A write and a delivery can come in one step: an answer that goes out with  *)
(* the receipt of a command.                                                  *)
Deliver ==
    /\ wrote' >= wrote
    /\ Len(got') \in Len(got) + 1 .. wrote
    /\ got' = [i \in 1 .. Len(got') |-> i]

Spec == Init /\ [][Write \/ Deliver]_vars
=============================================================================
