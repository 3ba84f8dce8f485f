------------------------------- MODULE MCSpiBus -------------------------------
(* TLC instance of the SPI bus: bytes whose bitwise and is neither of them,   *)
(* a write of two pages that goes round the end of the chip.                 *)
EXTENDS SpiBus, TLC

CONSTANTS c1, c2

Symmetry == Permutations({c1, c2})

MCPayloads == {<<165, 90>>}

(* LatchUsed and BusShared say nothing of the states after: they are not      *)
(* generated.                                                                 *)
NotAstray == ~astray
=============================================================================
