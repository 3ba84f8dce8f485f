----------------------------- MODULE MCXvcSession ----------------------------
(* TLC instance of the server under a host that keeps the protocol: images of *)
(* one or two pieces, less than a packet or more than one.                    *)
EXTENDS XvcSession

CONSTANTS c1, p1, p2, f1, f2, d1, d2

MCPayloads == {<<d1, Blank, d2>>, <<d2>>}
=============================================================================
