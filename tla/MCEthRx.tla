------------------------------- MODULE MCEthRx --------------------------------
(* TLC instance of the receive ring: three descriptors that are used more     *)
(* than twice over.                                                           *)
EXTENDS EthRx

NoneLong == {}
FirstLong == {1}
=============================================================================
