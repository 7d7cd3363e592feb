------------------------------ MODULE Dispatch ------------------------------
(***************************************************************************)
(* How mtask runs its services: worker threads take message queues from    *)
(* the global list, grab the context of the service, dispatch some of its  *)
(* messages and give the queue back, while callbacks and the socket and    *)
(* timer threads push messages, retire services and launch new ones        *)
(* (mtask-src/mtask_server.c over mtask_mq.c; mtask_handle.c is reduced to *)
(* the set of registered handles, module HandleStorage has its table).     *)
(*                                                                         *)
(* Every action of a thread is one critical section or one atomic          *)
(* instruction of the code, so all interleavings of the locks are here.    *)
(* A thread is at pc[t] of its main routine; sub[t] is the runtime call it *)
(* is inside of, if any: mtask_context_push (grab, push), then             *)
(* mtask_context_release (release, delete), or mtask_handle_retire.  Those *)
(* calls end in each other, so one level of nesting is enough.             *)
(***************************************************************************)
EXTENDS MessageQueue, Integers, FiniteSets

CONSTANTS
  Boot,       \* services launched by the main thread before the workers run
  Worker,     \* worker threads
  Outside,    \* threads that only push: socket thread, timer thread
  Weight,     \* the weight of each worker (mtask_start.c)
  MaxSend,    \* bound: how many messages are sent in a behaviour
  MaxOps,     \* bound: runtime calls made by one run of a callback
  NULL

ASSUME DispatchAssumption ==
  /\ Boot \subseteq Service
  /\ Worker \cap Outside = {}
  /\ Weight \in [Worker -> -1 .. 3]
  /\ MaxSend \in Nat
  /\ MaxOps \in Nat
  /\ NULL \notin Service
  /\ IsFiniteSet(Boot) /\ IsFiniteSet(Worker) /\ IsFiniteSet(Outside)

Thread == Worker \cup Outside
MsgId  == 1 .. MaxSend

\* The part of a message that decides what happens to it: PTYPE_ERROR or not,
\* and whom an error is reported to (source 0, here NULL, is nobody).
Message == [id: MsgId, kind: {"req", "err"}, src: Service \cup {NULL}]

ASSUME NullAssumption == NULL \notin Message

VARIABLES
  cmem,       \* cmem[s]: has the mtask_context of s been created, freed
  ref,        \* ctx->ref
  inited,     \* ctx->init
  registered, \* the handles mtask_handle_grab finds
  pc, sub,    \* control state of each thread
  q, nq,      \* queues a worker has taken off the global list
  new,        \* the service a worker is launching
  msg,        \* the message being dispatched
  left,       \* what remains of the batch: n - i of the dispatch loop
  ops,        \* calls the running callback may still make
  fate        \* history: what became of each message

cVars     == <<cmem, ref, inited>>
localVars == <<q, nq, new, msg, left, ops>>
vars      == <<qVars, glist, cVars, registered, pc, sub, localVars, fate>>

Fate == {"unsent", "pending", "handled", "refused", "reported", "unreported"}
Final == {"handled", "refused", "reported", "unreported"}

NoSub == [fn |-> "none", s |-> NULL, m |-> NULL]
Call(f, s) == [fn |-> f, s |-> s, m |-> NULL]
SendCall(d, m) == [fn |-> "grab", s |-> d, m |-> m]

\* Where a worker may be, by what it holds there.
Outer   == {"idle", "mq_release", "drop", "next"}
InLoop  == {"first", "pop", "length", "cb", "after", "pushback"}
Launch  == {"init", "set_init", "offer", "fail_retire",
            "new_mq_release", "new_drop"}

Ready(t, label) == pc[t] = label /\ sub[t].fn = "none"
Goto(t, label)  == pc' = [pc EXCEPT ![t] = label]
Invoke(t, c)    == sub' = [sub EXCEPT ![t] = c]
Return(t)       == Invoke(t, NoSub)

Known == {s \in Service : mem[s] # "none"}
-----------------------------------------------------------------------------
(* mtask_start.c bootstraps the first services before it starts a worker.  *)
Init ==
  /\ mem = [s \in Service |-> IF s \in Boot THEN "live" ELSE "none"]
  /\ msgs = [s \in Service |-> <<>>]
  /\ in_global = [s \in Service |-> s \in Boot]
  /\ release = [s \in Service |-> FALSE]
  /\ \E order \in [1 .. Cardinality(Boot) -> Boot] :
        /\ \A i, j \in DOMAIN order : order[i] = order[j] => i = j
        /\ \A s \in Boot : \E i \in DOMAIN order : order[i] = s
        /\ glist = order
  /\ cmem = mem
  /\ ref = [s \in Service |-> IF s \in Boot THEN 1 ELSE 0]
  /\ inited = [s \in Service |-> s \in Boot]
  /\ registered = Boot
  /\ pc = [t \in Thread |-> "idle"]
  /\ sub = [t \in Thread |-> NoSub]
  /\ q = [t \in Thread |-> NULL]
  /\ nq = [t \in Thread |-> NULL]
  /\ new = [t \in Thread |-> NULL]
  /\ msg = [t \in Thread |-> NULL]
  /\ left = [t \in Thread |-> 0]
  /\ ops = [t \in Thread |-> 0]
  /\ fate = [i \in MsgId |-> "unsent"]
-----------------------------------------------------------------------------
(* Runtime calls, made by any thread.                                      *)

\* A message id nobody used yet (ids are handed out in order).
Fresh(i) == /\ fate[i] = "unsent"
            /\ \A j \in MsgId : j < i => fate[j] # "unsent"

\* mtask_send: make the message and call mtask_context_push.
Send(t, src, d) ==
  \E i \in MsgId :
    /\ Fresh(i)
    /\ fate' = [fate EXCEPT ![i] = "pending"]
    /\ Invoke(t, SendCall(d, [id |-> i, kind |-> "req", src |-> src]))

\* mtask_handle_grab in mtask_context_push, on a handle that is found ...
Grab(t) ==
  /\ sub[t].fn = "grab"
  /\ sub[t].s \in registered
  /\ ref' = [ref EXCEPT ![sub[t].s] = @ + 1]
  /\ UNCHANGED <<cmem, inited>>
  /\ Invoke(t, [fn |-> "push", s |-> sub[t].s, m |-> sub[t].m])
  /\ UNCHANGED <<qVars, glist, registered, pc, localVars, fate>>

\* ... and on one that is not: the sender is told -1.
GrabFails(t) ==
  /\ sub[t].fn = "grab"
  /\ sub[t].s \notin registered
  /\ fate' = [fate EXCEPT ![sub[t].m.id] =
                IF sub[t].m.kind = "req" THEN "refused" ELSE "unreported"]
  /\ Return(t)
  /\ UNCHANGED <<qVars, glist, cVars, registered, pc, localVars>>

Push(t) ==
  /\ sub[t].fn = "push"
  /\ MqPush(sub[t].s, sub[t].m)
  /\ Invoke(t, Call("release", sub[t].s))
  /\ UNCHANGED <<cVars, registered, pc, localVars, fate>>

\* mtask_context_release that deletes one reference too early.
Release_Early(t) ==
  /\ sub[t].fn = "release"
  /\ ref' = [ref EXCEPT ![sub[t].s] = @ - 1]
  /\ UNCHANGED <<cmem, inited>>
  /\ Invoke(t, IF ref[sub[t].s] <= 2 /\ cmem[sub[t].s] = "live"
               THEN Call("delete", sub[t].s) ELSE NoSub)
  /\ UNCHANGED <<qVars, glist, registered, pc, localVars, fate>>

Release(t) ==
  /\ sub[t].fn = "release"
  /\ ref' = [ref EXCEPT ![sub[t].s] = @ - 1]
  /\ UNCHANGED <<cmem, inited>>
  /\ Invoke(t, IF ref[sub[t].s] = 1 THEN Call("delete", sub[t].s) ELSE NoSub)
  /\ UNCHANGED <<qVars, glist, registered, pc, localVars, fate>>

\* delete_context: mark the queue for release and free the context.
Delete(t) ==
  /\ sub[t].fn = "delete"
  /\ MqMarkRelease(sub[t].s)
  /\ cmem' = [cmem EXCEPT ![sub[t].s] = "freed"]
  /\ UNCHANGED <<ref, inited>>
  /\ Return(t)
  /\ UNCHANGED <<registered, pc, localVars, fate>>

\* mtask_handle_retire that releases the context even when another thread
\* has already cleared the slot.
Retire_Twice(t) ==
  /\ sub[t].fn = "retire"
  /\ registered' = registered \ {sub[t].s}
  /\ Invoke(t, IF ref[sub[t].s] > 0 THEN Call("release", sub[t].s) ELSE NoSub)
  /\ UNCHANGED <<qVars, glist, cVars, pc, localVars, fate>>

\* mtask_handle_retire: clear the slot under the lock; whoever cleared it
\* releases the table's reference.
Retire(t) ==
  /\ sub[t].fn = "retire"
  /\ registered' = registered \ {sub[t].s}
  /\ Invoke(t, IF sub[t].s \in registered THEN Call("release", sub[t].s) ELSE NoSub)
  /\ UNCHANGED <<qVars, glist, cVars, pc, localVars, fate>>
-----------------------------------------------------------------------------
(* mtask_context_message_dispatch, called again and again by a worker.     *)

\* q == NULL: take the head of the global list.
Take(w) ==
  /\ Ready(w, "idle") /\ q[w] = NULL
  /\ \E s \in Service : GlobalPop(s) /\ q' = [q EXCEPT ![w] = s]
  /\ UNCHANGED <<qVars, cVars, registered, pc, sub, nq, new, msg, left, ops, fate>>

GrabQueueOwner(w) ==
  /\ Ready(w, "idle") /\ q[w] # NULL
  /\ IF q[w] \in registered
     THEN /\ ref' = [ref EXCEPT ![q[w]] = @ + 1]
          /\ UNCHANGED <<cmem, inited>>
          /\ Goto(w, "first")
     ELSE /\ Goto(w, "mq_release")
          /\ UNCHANGED cVars
  /\ left' = [left EXCEPT ![w] = 1]
  /\ UNCHANGED <<qVars, glist, registered, sub, q, nq, new, msg, ops, fate>>

\* mtask_mq_pop finds nothing: the queue is let go, the context released.
PopEmpty(w) ==
  /\ pc[w] \in {"first", "pop"} /\ sub[w].fn = "none"
  /\ MqPopEmpty(q[w])
  /\ q' = [q EXCEPT ![w] = NULL]
  /\ Invoke(w, Call("release", q[w]))
  /\ Goto(w, "next")
  /\ UNCHANGED <<cVars, registered, nq, new, msg, left, ops, fate>>

\* mtask_mq_pop finds a message; only the first one of a batch sizes it.
PopMessage(w) ==
  /\ pc[w] \in {"first", "pop"} /\ sub[w].fn = "none"
  /\ \E m \in Message :
       /\ MqPop(q[w], m)
       /\ msg' = [msg EXCEPT ![w] = m]
       /\ fate' = [fate EXCEPT ![m.id] =
                     IF m.kind = "req" THEN "handled" ELSE "reported"]
  /\ ops' = [ops EXCEPT ![w] = MaxOps]
  /\ Goto(w, IF pc[w] = "first" /\ Weight[w] >= 0 THEN "length" ELSE "cb")
  /\ UNCHANGED <<cVars, registered, sub, q, nq, new, left>>

\* The shift n >>= weight.
Shift(n, weight) == n \div (<<1, 2, 4, 8>>[weight + 1])

\* n = mtask_mq_length(q) >> weight, read in a critical section of its own.
Length(w) ==
  /\ Ready(w, "length")
  /\ left' = [left EXCEPT ![w] = Shift(Len(msgs[q[w]]), Weight[w])]
  /\ Goto(w, "cb")
  /\ UNCHANGED <<qVars, glist, cVars, registered, sub, q, nq, new, msg, ops, fate>>

\* The callback of the service sends a message ...
CbSend(w) ==
  /\ Ready(w, "cb") /\ ops[w] > 0
  /\ ops' = [ops EXCEPT ![w] = @ - 1]
  /\ \E d \in Known : Send(w, q[w], d)
  /\ UNCHANGED <<qVars, glist, cVars, registered, pc, q, nq, new, msg, left>>

\* ... or retires a service (EXIT retires itself, KILL any other) ...
CbRetire(w) ==
  /\ Ready(w, "cb") /\ ops[w] > 0
  /\ ops' = [ops EXCEPT ![w] = @ - 1]
  /\ \E d \in Known : Invoke(w, Call("retire", d))
  /\ UNCHANGED <<qVars, glist, cVars, registered, pc, q, nq, new, msg, left, fate>>

\* ... or launches one: mtask_context_new up to the module's init function.
CbLaunch(w) ==
  /\ Ready(w, "cb") /\ ops[w] > 0
  /\ ops' = [ops EXCEPT ![w] = @ - 1]
  /\ \E s \in Service \ Known :
       /\ MqCreate(s)
       /\ cmem' = [cmem EXCEPT ![s] = "live"]
       /\ ref' = [ref EXCEPT ![s] = 2]
       /\ inited' = [inited EXCEPT ![s] = FALSE]
       /\ registered' = registered \cup {s}
       /\ new' = [new EXCEPT ![w] = s]
  /\ Goto(w, "init")
  /\ UNCHANGED <<sub, q, nq, msg, left, fate>>

CbReturn(w) ==
  /\ Ready(w, "cb")
  /\ msg' = [msg EXCEPT ![w] = NULL]
  /\ ops' = [ops EXCEPT ![w] = 0]
  /\ left' = [left EXCEPT ![w] = IF @ > 1 THEN @ - 1 ELSE 0]
  /\ Goto(w, IF left[w] > 1 THEN "pop" ELSE "after")
  /\ UNCHANGED <<qVars, glist, cVars, registered, sub, q, nq, new, fate>>

\* End of the batch: nq = mtask_globalmq_pop(); without another queue the
\* worker keeps q for its next call.
EndBatch(w) ==
  /\ Ready(w, "after")
  /\ IF glist = <<>>
     THEN /\ Invoke(w, Call("release", q[w]))
          /\ Goto(w, "idle")
          /\ UNCHANGED <<glist, nq>>
     ELSE /\ \E s \in Service : GlobalPop(s) /\ nq' = [nq EXCEPT ![w] = s]
          /\ Goto(w, "pushback")
          /\ UNCHANGED sub
  /\ UNCHANGED <<qVars, cVars, registered, q, new, msg, left, ops, fate>>

\* A worker that, with another queue to serve, forgets to give back its own.
PushBack_Forget(w) ==
  /\ Ready(w, "pushback")
  /\ Invoke(w, Call("release", q[w]))
  /\ q' = [q EXCEPT ![w] = nq[w]]
  /\ nq' = [nq EXCEPT ![w] = NULL]
  /\ Goto(w, "idle")
  /\ UNCHANGED <<qVars, glist, cVars, registered, new, msg, left, ops, fate>>

PushBack(w) ==
  /\ Ready(w, "pushback")
  /\ GlobalPush(q[w])
  /\ Invoke(w, Call("release", q[w]))
  /\ q' = [q EXCEPT ![w] = nq[w]]
  /\ nq' = [nq EXCEPT ![w] = NULL]
  /\ Goto(w, "idle")
  /\ UNCHANGED <<qVars, cVars, registered, new, msg, left, ops, fate>>

\* return mtask_globalmq_pop(), where the queue was let go.
TakeNext(w) ==
  /\ Ready(w, "next")
  /\ IF glist = <<>>
     THEN UNCHANGED <<glist, q>>
     ELSE \E s \in Service : GlobalPop(s) /\ q' = [q EXCEPT ![w] = s]
  /\ Goto(w, "idle")
  /\ UNCHANGED <<qVars, cVars, registered, sub, nq, new, msg, left, ops, fate>>
-----------------------------------------------------------------------------
(* mtask_mq_release: by a worker that found no context for the queue, and  *)
(* by mtask_context_new after a failed init.                               *)

MqReleaseGiveBack(w) ==
  /\ sub[w].fn = "none"
  /\ \/ /\ pc[w] = "mq_release"
        /\ MqGiveBack(q[w])
        /\ q' = [q EXCEPT ![w] = NULL]
        /\ Goto(w, "next")
        /\ UNCHANGED new
     \/ /\ pc[w] = "new_mq_release"
        /\ MqGiveBack(new[w])
        /\ new' = [new EXCEPT ![w] = NULL]
        /\ Goto(w, "cb")
        /\ UNCHANGED q
  /\ UNCHANGED <<cVars, registered, sub, nq, msg, left, ops, fate>>

MqReleaseDrop(w) ==
  /\ sub[w].fn = "none"
  /\ \/ /\ pc[w] = "mq_release"
        /\ MqStartDrop(q[w])
        /\ Goto(w, "drop")
     \/ /\ pc[w] = "new_mq_release"
        /\ MqStartDrop(new[w])
        /\ Goto(w, "new_drop")
  /\ UNCHANGED <<cVars, registered, sub, localVars, fate>>

\* The queue being dropped by w.
Dropped(w) == IF pc[w] = "drop" THEN q[w] ELSE new[w]

\* drop_message that forgets to report.
DropMessage_Silent(w) ==
  /\ pc[w] \in {"drop", "new_drop"} /\ sub[w].fn = "none"
  /\ \E m \in Message : MqPop(Dropped(w), m)
  /\ UNCHANGED <<cVars, registered, pc, sub, localVars, fate>>

\* drop_message: tell the source, when there is one, with a PTYPE_ERROR.
DropMessage(w) ==
  /\ pc[w] \in {"drop", "new_drop"} /\ sub[w].fn = "none"
  /\ \E m \in Message :
       /\ MqPop(Dropped(w), m)
       /\ IF m.src = NULL
          THEN /\ fate' = [fate EXCEPT ![m.id] = "unreported"]
               /\ UNCHANGED sub
          ELSE /\ Invoke(w, SendCall(m.src,
                           [id |-> m.id, kind |-> "err", src |-> Dropped(w)]))
               /\ UNCHANGED fate
  /\ UNCHANGED <<cVars, registered, pc, localVars>>

\* _drop_queue frees the queue.
FreeQueue(w) ==
  /\ pc[w] \in {"drop", "new_drop"} /\ sub[w].fn = "none"
  /\ MqFree(Dropped(w))
  /\ IF pc[w] = "drop"
     THEN /\ q' = [q EXCEPT ![w] = NULL]
          /\ Goto(w, "next")
          /\ UNCHANGED new
     ELSE /\ new' = [new EXCEPT ![w] = NULL]
          /\ Goto(w, "cb")
          /\ UNCHANGED q
  /\ UNCHANGED <<cVars, registered, sub, nq, msg, left, ops, fate>>
-----------------------------------------------------------------------------
(* The rest of mtask_context_new.                                          *)

\* The init function may send, from now on other services know the handle.
InitSend(w) ==
  /\ Ready(w, "init")
  /\ \E d \in Known : Send(w, new[w], d)
  /\ UNCHANGED <<qVars, glist, cVars, registered, pc, localVars>>

\* mtask_context_new that offers the queue before the init flag is set.
InitOk_OfferFirst(w) ==
  /\ Ready(w, "init")
  /\ ref' = [ref EXCEPT ![new[w]] = @ - 1]
  /\ UNCHANGED <<cmem, inited>>
  /\ GlobalPush(new[w])
  /\ IF ref[new[w]] = 1
     THEN /\ Invoke(w, Call("delete", new[w])) /\ Goto(w, "cb")
          /\ new' = [new EXCEPT ![w] = NULL]
     ELSE /\ Goto(w, "set_init") /\ UNCHANGED <<sub, new>>
  /\ UNCHANGED <<qVars, registered, q, nq, msg, left, ops, fate>>

\* Init succeeded: release the creator's reference; the count decides whether
\* the context is still there ("ret").
InitOk(w) ==
  /\ Ready(w, "init")
  /\ ref' = [ref EXCEPT ![new[w]] = @ - 1]
  /\ UNCHANGED <<cmem, inited>>
  /\ IF ref[new[w]] = 1
     THEN Invoke(w, Call("delete", new[w])) /\ Goto(w, "offer")
     ELSE Goto(w, "set_init") /\ UNCHANGED sub
  /\ UNCHANGED <<qVars, glist, registered, localVars, fate>>

\* ctx->init = true.  No reference protects this write.
SetInit(w) ==
  /\ Ready(w, "set_init")
  /\ inited' = [inited EXCEPT ![new[w]] = TRUE]
  /\ UNCHANGED <<cmem, ref>>
  /\ Goto(w, "offer")
  /\ UNCHANGED <<qVars, glist, registered, sub, localVars, fate>>

Offer(w) ==
  /\ Ready(w, "offer")
  /\ GlobalPush(new[w])
  /\ new' = [new EXCEPT ![w] = NULL]
  /\ Goto(w, "cb")
  /\ UNCHANGED <<qVars, cVars, registered, sub, q, nq, msg, left, ops, fate>>

\* Init failed: release, retire, and release the queue.
InitFails(w) ==
  /\ Ready(w, "init")
  /\ Invoke(w, Call("release", new[w]))
  /\ Goto(w, "fail_retire")
  /\ UNCHANGED <<qVars, glist, cVars, registered, localVars, fate>>

FailRetire(w) ==
  /\ Ready(w, "fail_retire")
  /\ Invoke(w, Call("retire", new[w]))
  /\ Goto(w, "new_mq_release")
  /\ UNCHANGED <<qVars, glist, cVars, registered, localVars, fate>>
-----------------------------------------------------------------------------
(* The socket and timer threads: they push to services they know, source 0. *)
OutsideSend(t) ==
  /\ Ready(t, "idle")
  /\ \E d \in Known : Send(t, NULL, d)
  /\ UNCHANGED <<qVars, glist, cVars, registered, pc, localVars>>

CallStep(t) == Grab(t) \/ GrabFails(t) \/ Push(t) \/ Release(t) \/ Delete(t) \/ Retire(t)

LaunchStep(w) == InitSend(w) \/ InitOk(w) \/ SetInit(w) \/ Offer(w)
                 \/ InitFails(w) \/ FailRetire(w)

DropStep(w) == MqReleaseGiveBack(w) \/ MqReleaseDrop(w) \/ DropMessage(w) \/ FreeQueue(w)

CallbackStep(w) == CbSend(w) \/ CbRetire(w) \/ CbLaunch(w) \/ CbReturn(w)

BatchStep(w) == Take(w) \/ GrabQueueOwner(w) \/ PopEmpty(w) \/ PopMessage(w)
                \/ Length(w) \/ EndBatch(w) \/ PushBack(w) \/ TakeNext(w)

WorkerStep(w) == BatchStep(w) \/ CallbackStep(w) \/ LaunchStep(w) \/ DropStep(w)

Next == \/ \E t \in Thread : CallStep(t)
        \/ \E w \in Worker : WorkerStep(w)
        \/ \E t \in Outside : OutsideSend(t)

\* Threads run: pthreads are scheduled, spin locks are held for a bounded
\* time, callbacks return (mtask_monitor.c reports the ones that do not).
\* Nobody has to send: OutsideSend has no fairness.
Fairness == /\ \A t \in Thread : WF_vars(CallStep(t))
            /\ \A w \in Worker : WF_vars(WorkerStep(w))

Spec == Init /\ [][Next]_vars /\ Fairness
-----------------------------------------------------------------------------
(* Type invariant.                                                         *)
CallType ==
  [fn: {"none"}, s: {NULL}, m: {NULL}]
    \cup [fn: {"grab", "push"}, s: Service, m: Message]
    \cup [fn: {"release", "delete", "retire"}, s: Service, m: {NULL}]

TypeOK ==
  /\ mem \in [Service -> {"none", "live", "freed"}]
  /\ msgs \in [Service -> Seq(Message)]
  /\ in_global \in [Service -> BOOLEAN]
  /\ release \in [Service -> BOOLEAN]
  /\ glist \in Seq(Service)
  /\ cmem \in [Service -> {"none", "live", "freed"}]
  /\ ref \in [Service -> Nat]
  /\ inited \in [Service -> BOOLEAN]
  /\ registered \subseteq Service
  /\ pc \in [Thread -> Outer \cup InLoop \cup Launch]
  /\ sub \in [Thread -> CallType]
  /\ q \in [Thread -> Service \cup {NULL}]
  /\ nq \in [Thread -> Service \cup {NULL}]
  /\ new \in [Thread -> Service \cup {NULL}]
  /\ msg \in [Thread -> Message \cup {NULL}]
  /\ left \in [Thread -> Nat]
  /\ ops \in [Thread -> 0 .. MaxOps]
  /\ fate \in [MsgId -> Fate]
-----------------------------------------------------------------------------
(* What must hold in every state.                                          *)

\* CALLING_CHECK of mtask_server.c: two workers never run callbacks of the
\* same service at the same time, whatever is pushed, retired or launched
\* meanwhile.
InCallback(t, s) == q[t] = s /\ pc[t] \in {"length", "cb"} \cup Launch
HandlerAlone ==
  \A t, u \in Thread, s \in Service :
    InCallback(t, s) /\ InCallback(u, s) => t = u

\* The places a queue can be in: the global list, or a worker's local variable.
Listed(s) == \E i \in DOMAIN glist : glist[i] = s
Holds(t, s) == q[t] = s \/ nq[t] = s \/ new[t] = s
Placed(s) == Listed(s) \/ \E t \in Thread : Holds(t, s)

\* mtask_mq.c:15: in_global is 0 iff the queue is not in the global list and
\* not being dispatched.  A queue that is flagged, or marked for release, is
\* in exactly one place (so globalmq_push finds next == NULL, and no queue
\* with messages is forgotten); any other is in none.
QueueInOnePlace ==
  /\ \A i, j \in DOMAIN glist : glist[i] = glist[j] => i = j
  /\ \A t, u \in Thread, s \in Service : Holds(t, s) /\ Holds(u, s) => t = u
  /\ \A t \in Thread : /\ q[t] = NULL \/ (q[t] # nq[t] /\ q[t] # new[t])
                       /\ nq[t] = NULL \/ nq[t] # new[t]
  /\ \A s \in Service, t \in Thread : ~ (Listed(s) /\ Holds(t, s))
  /\ \A s \in Service :
       Placed(s) <=> mem[s] = "live" /\ (in_global[s] \/ release[s])

\* References to the context of s held by the locals of running calls: the
\* dispatch loop's, the ones of mtask_context_push and of a pending
\* mtask_context_release, and the creator's.
LoopRefs(s) == {t \in Thread : q[t] = s /\ pc[t] \in InLoop \cup Launch}
CallRefs(s) == {t \in Thread : sub[t].s = s /\ sub[t].fn \in {"push", "release"}}
NewRefs(s)  == {t \in Thread : new[t] = s /\ pc[t] = "init"}
TableRef(s) == IF s \in registered THEN 1 ELSE 0

\* ctx->ref counts exactly the handle table's reference and the running calls
\* that use the context: it never leaks one and never loses one.
RefCountExact ==
  \A s \in Service :
    ref[s] = Cardinality(LoopRefs(s)) + Cardinality(CallRefs(s))
                   + Cardinality(NewRefs(s)) + TableRef(s)

\* Nothing that is going to touch a context or push to its queue runs after
\* delete_context freed it (the write of ctx->init in mtask_context_new is
\* the exception: it has no reference, see the README).
NoUseAfterFree ==
  \A s \in Service :
    LoopRefs(s) \cup CallRefs(s) \cup NewRefs(s) # {} \/ s \in registered =>
      cmem[s] = "live" /\ mem[s] = "live" /\ ~ release[s]

\* mtask_mq.c:222: delete_context marks a queue for release once.
MarkedOnce ==
  \A t \in Thread : sub[t].fn = "delete" =>
    /\ ~ release[sub[t].s]
    /\ cmem[sub[t].s] = "live"
    /\ \A u \in Thread : sub[u].fn = "delete" /\ sub[u].s = sub[t].s => u = t

\* mtask_server.c:251, assert(ctx->init): no message reaches a callback before
\* the launch of its service is over.
DispatchedAfterInit ==
  \A t \in Thread : q[t] # NULL /\ pc[t] \in {"length", "cb"} => inited[q[t]]

\* A context is deleted once, and is dispatched to from the end of its launch on.
LifeCycle == TypeOK /\ MarkedOnce /\ DispatchedAfterInit

-----------------------------------------------------------------------------
(* What a step may never do, and what must happen.                         *)

\* A message has one outcome: handled, refused at the push, or dropped and
\* reported.  A request that was handled is never reported as an error and
\* one that was reported is never handled.
OutcomeIsFinal ==
  [][\A i \in MsgId : fate[i] \in Final => fate'[i] = fate[i]]_vars

\* Every message that is sent is settled: no queue that has messages is ever
\* left without a worker to come, not even when its service is retired.
MessagesSettle ==
  \A i \in MsgId : []<>(fate[i] # "pending")

\* The queue of a retired service is freed in the end, by some worker.
RetiredQueuesFreed ==
  \A s \in Service : []<>(s \notin Known \ registered \/ mem[s] = "freed")

\* Nothing stays behind: neither a message nor a queue.
AllSettles == MessagesSettle /\ RetiredQueuesFreed
-----------------------------------------------------------------------------
(* Refinement: the queue and its context, seen as a mailbox.               *)

PhaseOf(s) == CASE mem[s] = "none" -> "none"
                [] mem[s] = "freed" -> "gone"
                [] mem[s] = "live" /\ release[s] -> "closing"
                [] OTHER -> IF inited[s] THEN "open" ELSE "starting"

BusyWith(s) == IF \E t \in Thread : q[t] = s /\ msg[t] # NULL
               THEN msg[CHOOSE t \in Thread : q[t] = s /\ msg[t] # NULL]
               ELSE NULL

M == INSTANCE Mailbox WITH phase <- [s \in Service |-> PhaseOf(s)],
                           inbox <- msgs,
                           busy <- [s \in Service |-> BusyWith(s)]

\* Dispatch implements Mailbox: messages are handled one at a time, in the
\* order of the pushes, never after the mailbox closed, and the mailbox of a
\* retired service is emptied and freed.
ImplementsMailbox == M!Spec
=============================================================================
