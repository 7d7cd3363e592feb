----------------------------- MODULE MCDispatch -----------------------------
(* Instances of Dispatch for TLC. *)
EXTENDS Dispatch

CONSTANTS s1, s2, s3, w1, w2, o1

EqualWeights == [w \in Worker |-> -1]
MixedWeights == [w \in Worker |-> IF w = w1 THEN -1 ELSE 0]
=============================================================================
