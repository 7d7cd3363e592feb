---------------------------- MODULE MessageQueue ----------------------------
(***************************************************************************)
(* The message queues of mtask-src/mtask_mq.c: one queue per service and   *)
(* the global list of the queues that wait for a worker.  Each action is   *)
(* one critical section (SPIN_LOCK .. SPIN_UNLOCK) of that file; the       *)
(* threads that call them are in module Dispatch, which conjoins these     *)
(* actions with its own.  A queue is named by the service it belongs to:   *)
(* q->handle never changes.  The circular buffer behind "msgs" is refined  *)
(* in module RingQueue.                                                    *)
(***************************************************************************)
EXTENDS Naturals, Sequences

CONSTANT Service      \* the services (handles) of the node

VARIABLES
  mem,                \* mem[s]: has the queue of s been created, freed
  msgs,               \* the messages in it, oldest first
  in_global,          \* q->in_global
  release,            \* q->release
  glist               \* the global queue: q->head .. q->tail

qVars  == <<mem, msgs, in_global, release>>
mqVars == <<mem, msgs, in_global, release, glist>>

\* A queue as mtask_mq_create leaves it: flagged as being in the global
\* queue although it is not, so that nobody lists it before init is over.
MqCreate(s) ==
  /\ mem' = [mem EXCEPT ![s] = "live"]
  /\ msgs' = [msgs EXCEPT ![s] = <<>>]
  /\ in_global' = [in_global EXCEPT ![s] = TRUE]
  /\ release' = [release EXCEPT ![s] = FALSE]
  /\ UNCHANGED glist

GlobalPush(s) == glist' = Append(glist, s)

GlobalPop(s) == /\ glist # <<>>
                /\ s = Head(glist)
                /\ glist' = Tail(glist)

\* A push that forgets to set the flag lists the queue twice.
MqPush_NoFlag(s, m) ==
  /\ msgs' = [msgs EXCEPT ![s] = Append(@, m)]
  /\ UNCHANGED <<mem, in_global, release>>
  /\ IF in_global[s] THEN UNCHANGED glist ELSE GlobalPush(s)

\* A push that never lists an idle queue: its messages wait for ever.
MqPush_NoList(s, m) ==
  /\ msgs' = [msgs EXCEPT ![s] = Append(@, m)]
  /\ UNCHANGED <<mem, in_global, release, glist>>

\* A push at the wrong end: the newest message overtakes the others.
MqPush_Front(s, m) ==
  /\ msgs' = [msgs EXCEPT ![s] = <<m>> \o @]
  /\ in_global' = [in_global EXCEPT ![s] = TRUE]
  /\ UNCHANGED <<mem, release>>
  /\ IF in_global[s] THEN UNCHANGED glist ELSE GlobalPush(s)

MqPush(s, m) ==
  /\ msgs' = [msgs EXCEPT ![s] = Append(@, m)]
  /\ in_global' = [in_global EXCEPT ![s] = TRUE]
  /\ UNCHANGED <<mem, release>>
  /\ IF in_global[s] THEN UNCHANGED glist ELSE GlobalPush(s)

\* A pop that hands out the head and forgets to advance it.
MqPop_Keep(s, m) ==
  /\ msgs[s] # <<>>
  /\ m = Head(msgs[s])
  /\ UNCHANGED mqVars

\* mtask_mq_pop when there is a message ...
MqPop(s, m) ==
  /\ msgs[s] # <<>>
  /\ m = Head(msgs[s])
  /\ msgs' = [msgs EXCEPT ![s] = Tail(@)]
  /\ UNCHANGED <<mem, in_global, release, glist>>

\* ... and when there is none: the queue is no longer dispatching.
MqPopEmpty(s) ==
  /\ msgs[s] = <<>>
  /\ in_global' = [in_global EXCEPT ![s] = FALSE]
  /\ UNCHANGED <<mem, msgs, release, glist>>

MqMarkRelease(s) ==
  /\ release' = [release EXCEPT ![s] = TRUE]
  /\ UNCHANGED <<mem, msgs, in_global>>
  /\ IF in_global[s] THEN UNCHANGED glist ELSE GlobalPush(s)

\* mtask_mq_release, the branch that gives the queue back to the global list
\* because the context still has references.
MqGiveBack(s) == /\ ~ release[s]
                 /\ GlobalPush(s)
                 /\ UNCHANGED qVars

\* mtask_mq_release, the branch that starts to drop the queue.
MqStartDrop(s) == /\ release[s]
                  /\ UNCHANGED mqVars

\* _drop_queue frees the queue once it has popped nothing.
MqFree(s) ==
  /\ msgs[s] = <<>>
  /\ in_global' = [in_global EXCEPT ![s] = FALSE]
  /\ mem' = [mem EXCEPT ![s] = "freed"]
  /\ UNCHANGED <<msgs, release, glist>>
=============================================================================
