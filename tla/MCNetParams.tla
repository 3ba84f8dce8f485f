----------------------------- MODULE MCNetParams -----------------------------
(* TLC instance: two values for every field, one of them all ones, so that an *)
(* erased word can be taken for a written one.                                *)
EXTENDS NetParams

MCDefault == [f \in Fields |-> 1]

MCRequests == {[f \in Fields |-> 3],
               [f \in Fields |-> IF f = "mac" THEN 3 ELSE 1]}
=============================================================================
