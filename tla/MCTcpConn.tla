------------------------------ MODULE MCTcpConn -------------------------------
(* TLC instance of the connections: segments of half a command, a whole one   *)
(* in one pbuf or two, and one and a half, in two as a full frame is.         *)
EXTENDS TcpConn

CONSTANTS s1, s2

MCPackets == {<<1>>, <<2>>, <<1, 1>>, <<2, 1>>}
=============================================================================
