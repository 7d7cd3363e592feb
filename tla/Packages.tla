-------------------------------- MODULE Packages --------------------------------
(***************************************************************************)
(* What the other side of a socket sends to a gate: packages, each a header*)
(* of two bytes and as many bytes as it says.  A byte is named by its place*)
(* in the stream.                                                          *)
(***************************************************************************)
EXTENDS Integers, Sequences, SequencesExt, FiniteSets

CONSTANT Sizes       \* of the packages that come from each socket

\* The place before the k-th package of a socket.
Start(s, k) == FoldLeft(LAMBDA sum, n : sum + 2 + n, 0, SubSeq(Sizes[s], 1, k - 1))
Stream(s) == Start(s, Len(Sizes[s]) + 1)
Contents(s, k) == [i \in 1 .. Sizes[s][k] |-> Start(s, k) + 2 + i]

\* What a byte is worth where a header is expected.
Value(s, b) ==
  LET heads == {k \in DOMAIN Sizes[s] : b \in {Start(s, k) + 1, Start(s, k) + 2}}
  IN IF heads = {} THEN 1
     ELSE LET k == CHOOSE k \in heads : TRUE IN IF b = Start(s, k) + 1 THEN 0 ELSE Sizes[s][k]

\* The packages that the first n bytes hold.
Complete(s, n) == {k \in DOMAIN Sizes[s] : Start(s, k + 1) <= n}
=============================================================================
