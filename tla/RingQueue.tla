----------------------------- MODULE RingQueue ------------------------------
(***************************************************************************)
(* The buffer of one message queue of mtask-src/mtask_mq.c: an array that  *)
(* wraps, doubles when the write index meets the read index, and notes     *)
(* overload.  Every action is one critical section of the queue's lock;    *)
(* MessageQueue has the same queue as a plain sequence, which is justified *)
(* by what is shown here.                                                  *)
(***************************************************************************)
EXTENDS Integers, Sequences

CONSTANTS
  Msg,
  Nothing,             \* no message; what a slot never written holds
  DEFAULT_QUEUE_SIZE,
  MQ_OVERLOAD,
  MaxCap               \* bound: the buffer does not grow beyond it

ASSUME RingQueueAssumption ==
  /\ DEFAULT_QUEUE_SIZE \in Nat \ {0}
  /\ MQ_OVERLOAD \in Nat \ {0}
  /\ MaxCap \in Nat
  /\ Nothing \notin Msg

VARIABLES
  cap, head, tail, queue,
  overload, overload_threshold,
  out                  \* *message of the last mtask_mq_pop

ring      == <<cap, head, tail, queue>>
overVars  == <<overload, overload_threshold>>
ringVars  == <<ring, overVars, out>>

\* mtask_mq_create.
RingInit ==
  /\ cap = DEFAULT_QUEUE_SIZE
  /\ head = 0 /\ tail = 0
  /\ queue = [i \in 0 .. cap - 1 |-> Nothing]
  /\ overload = 0 /\ overload_threshold = MQ_OVERLOAD
  /\ out = Nothing

\* mtask_mq_length.
Length == IF head <= tail THEN tail - head ELSE tail + cap - head

\* An index that was moved on by one wraps.
Wrap(i) == IF i >= cap THEN 0 ELSE i

\* expand_queue copies from the start of the array, not from head on.
Expanded_FromZero(full) ==
  [i \in 0 .. 2 * cap - 1 |-> IF i < cap THEN full[i] ELSE Nothing]

\* expand_queue: the messages of a full array, oldest first, in one twice the size.
Expanded(full) ==
  [i \in 0 .. 2 * cap - 1 |-> IF i < cap THEN full[(head + i) % cap] ELSE Nothing]

\* mtask_mq_push, when the array does not fill up.
PushFits(m) ==
  /\ Wrap(tail + 1) # head
  /\ queue' = [queue EXCEPT ![tail] = m]
  /\ tail' = Wrap(tail + 1)
  /\ UNCHANGED <<cap, head, overVars, out>>

\* mtask_mq_push, when it does.
PushExpands(m) ==
  /\ Wrap(tail + 1) = head
  /\ 2 * cap <= MaxCap
  /\ queue' = Expanded([queue EXCEPT ![tail] = m])
  /\ head' = 0 /\ tail' = cap /\ cap' = 2 * cap
  /\ UNCHANGED <<overVars, out>>

\* length, as mtask_mq_pop computes it after it moved head on.
LeftAfterPop == IF tail - Wrap(head + 1) < 0 THEN tail - Wrap(head + 1) + cap
                ELSE tail - Wrap(head + 1)

\* The threshold doubles until the length is within it.
Raised(n) ==
  LET Doubled == {overload_threshold * 2^k : k \in 0 .. n}
  IN CHOOSE t \in Doubled : t >= n /\ \A u \in Doubled : u >= n => t <= u

\* mtask_mq_pop with a message.
Pop ==
  /\ head # tail
  /\ out' = queue[head]
  /\ head' = Wrap(head + 1)
  /\ overload' = IF LeftAfterPop > overload_threshold THEN LeftAfterPop ELSE overload
  /\ overload_threshold' = Raised(LeftAfterPop)
  /\ UNCHANGED <<cap, tail, queue>>

\* mtask_mq_pop without.
PopNothing ==
  /\ head = tail
  /\ out' = Nothing
  /\ overload_threshold' = MQ_OVERLOAD
  /\ UNCHANGED <<ring, overload>>

\* mtask_mq_overload: no lock, but only the worker that pops calls it.
TakeOverload ==
  /\ overload # 0
  /\ overload' = 0
  /\ UNCHANGED <<ring, overload_threshold, out>>

RingNext == \/ \E m \in Msg : PushFits(m) \/ PushExpands(m)
        \/ Pop \/ PopNothing \/ TakeOverload

RingSpec == RingInit /\ [][RingNext]_ringVars
-----------------------------------------------------------------------------
(* Properties.                                                             *)

\* The indices stay within the array, and the array has exactly cap slots.
RingTypeOK ==
  /\ cap \in Nat \ {0}
  /\ head \in 0 .. cap - 1 /\ tail \in 0 .. cap - 1
  /\ queue \in [0 .. cap - 1 -> Msg \cup {Nothing}]
  /\ out \in Msg \cup {Nothing}

\* Where the i-th oldest message is.
At(i) == IF head + i - 1 >= cap THEN head + i - 1 - cap ELSE head + i - 1
Contents == [i \in 1 .. Length |-> queue[At(i)]]

\* Through every wrap and growth of the array no message is lost, repeated or
\* overtaken, and an empty queue is not taken for a full one.
F == INSTANCE Fifo WITH fifo <- Contents
ImplementsFifo == F!Spec
=============================================================================
