----------------------------- MODULE MCXvcServer -----------------------------
(* TLC instance of the server with two clients that keep no discipline.       *)
EXTENDS XvcServer

CONSTANTS c1, c2, p1, p2, f1, f2, d1

MCPayloads == {<<d1, Blank, d1>>}
=============================================================================
