----------------------------- MODULE MCFlashPages ----------------------------
(* TLC instance: writes of up to three pages from every start address.        *)
EXTENDS FlashPages

CONSTANTS d1, d2

Bytes == <<d1, d2, Blank, d1, d1, d2, d2, Blank, d1, d2>>
MCPayloads == {SubSeq(Bytes, 1, n) : n \in 0 .. 10}
=============================================================================
