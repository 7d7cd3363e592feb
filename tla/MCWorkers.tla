----------------------------- MODULE MCWorkers ------------------------------
(* Instances of Workers for TLC. *)
EXTENDS Workers

CONSTANTS w1, w2, s1, s2

OneByOne == [w \in Worker |-> -1]
MixedWeights == [w \in Worker |-> IF w = w1 THEN -1 ELSE 0]
=============================================================================
