-------------------------------- MODULE Fifo --------------------------------
(***************************************************************************)
(* What a message queue promises to those who hold its lock: messages come *)
(* out once each, in the order they went in.  External to the code: it is  *)
(* the specification RingQueue implements.                                 *)
(***************************************************************************)
EXTENDS Sequences

CONSTANTS Msg, Nothing

VARIABLES
  fifo,   \* the messages in the queue, oldest first
  out     \* what the last pop gave, Nothing if the queue was empty

vars == <<fifo, out>>

Init == fifo = <<>> /\ out = Nothing

Put(m) == fifo' = Append(fifo, m) /\ UNCHANGED out

Get == fifo # <<>> /\ out' = Head(fifo) /\ fifo' = Tail(fifo)

GetNothing == fifo = <<>> /\ out' = Nothing /\ UNCHANGED fifo

Next == (\E m \in Msg : Put(m)) \/ Get \/ GetNothing

Spec == Init /\ [][Next]_vars
=============================================================================
