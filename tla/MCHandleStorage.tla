--------------------------- MODULE MCHandleStorage --------------------------
(* Instances of HandleStorage for TLC. *)
EXTENDS HandleStorage, TLC

CONSTANTS c1, c2, c3, t1, t2, t3

Contexts == Permutations({c1, c2, c3})

\* bound: one name while mtask_handle_retireall goes through its passes.
OneNameAtAbort == ra # "idle" => Len(name) <= 1
=============================================================================
