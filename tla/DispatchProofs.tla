--------------------------- MODULE DispatchProofs ---------------------------
(***************************************************************************)
(* Machine-checked proofs that Dispatch keeps its invariants for every     *)
(* number of services, workers, outside threads and messages, and of what  *)
(* mtask promises about messages: a message is in one place until its one  *)
(* outcome, and the queues and contexts of Dispatch, seen as mailboxes,    *)
(* take the steps of Mailbox.                                              *)
(***************************************************************************)
EXTENDS Dispatch, FiniteSetTheorems, TLAPS

\* What the position of a thread says of its variables.
Locals ==
  \A t \in Thread :
    /\ t \notin Worker => pc[t] = "idle" /\ q[t] = NULL
    /\ pc[t] \in {"mq_release", "drop"} \cup InLoop \cup Launch => q[t] # NULL
    /\ pc[t] = "next" => q[t] = NULL
    /\ pc[t] = "pushback" <=> nq[t] # NULL
    /\ pc[t] \in Launch <=> new[t] # NULL
    /\ pc[t] = "length" => Weight[t] >= 0
    /\ pc[t] = "drop" => release[q[t]]
    /\ pc[t] = "new_drop" => release[new[t]]

\* How the memory of a context, its count and its queue hang together: the
\* context dies with its last reference, the queue is marked in the same step.
Memory ==
  /\ \A s \in Service :
       /\ cmem[s] # "live" => ref[s] = 0
       /\ cmem[s] = "none" <=> mem[s] = "none"
       /\ cmem[s] = "live" <=> mem[s] = "live" /\ ~ release[s]
  /\ \A t \in Thread : sub[t].fn = "delete" =>
       /\ cmem[sub[t].s] = "live"
       /\ ref[sub[t].s] = 0
       /\ \A u \in Thread : sub[u].fn = "delete" /\ sub[u].s = sub[t].s => u = t

\* Who has not gone through the end of mtask_context_new is not dispatched.
InitDone ==
  /\ \A s \in Service : s \in registered /\ (\A t \in Thread : new[t] # s) => inited[s]
  /\ \A t \in Thread :
       /\ pc[t] \in InLoop \cup Launch => inited[q[t]]
       /\ pc[t] = "offer" /\ new[t] \in registered => inited[new[t]]
       /\ pc[t] = "new_mq_release" /\ sub[t].fn # "retire" => new[t] \notin registered
       /\ pc[t] = "new_mq_release" /\ sub[t].fn = "retire" => sub[t].s = new[t]
       /\ pc[t] = "new_drop" => new[t] \notin registered

IInv == /\ TypeOK
        /\ Locals
        /\ RefCountExact
        /\ Memory
        /\ QueueInOnePlace
        /\ InitDone
-----------------------------------------------------------------------------
(* Types.                                                                  *)

\* What TypeOK says of the call a thread is in.
LEMMA CallFacts ==
  ASSUME TypeOK, NEW t \in Thread
  PROVE  /\ sub[t].fn \in {"grab", "push"} =>
              sub[t].s \in Service /\ sub[t].m \in Message /\ sub[t].m.id \in MsgId
         /\ sub[t].fn \in {"release", "delete", "retire"} => sub[t].s \in Service
BY DEF TypeOK, CallType, Message

\* mtask_globalmq_push keeps the global list a list of services.
LEMMA GlobalPushType ==
  ASSUME glist \in Seq(Service), NEW s \in Service, GlobalPush(s)
  PROVE  glist' \in Seq(Service)
BY DEF GlobalPush

\* mtask_globalmq_pop keeps the global list a list and returns a service.
LEMMA GlobalPopType ==
  ASSUME glist \in Seq(Service), NEW s, GlobalPop(s)
  PROVE  glist' \in Seq(Service) /\ s \in Service
BY DEF GlobalPop

\* mtask_mq_push keeps the types of what it changes.
LEMMA MqPushType ==
  ASSUME glist \in Seq(Service), msgs \in [Service -> Seq(Message)],
         in_global \in [Service -> BOOLEAN],
         NEW s \in Service, NEW m \in Message, MqPush(s, m)
  PROVE  /\ glist' \in Seq(Service)
         /\ msgs' \in [Service -> Seq(Message)]
         /\ in_global' \in [Service -> BOOLEAN]
         /\ UNCHANGED <<mem, release>>
<1>1. Append(msgs[s], m) \in Seq(Message)
  OBVIOUS
<1> QED
  BY <1>1, GlobalPushType DEF MqPush

\* mtask_mq_pop keeps the types and returns a message.
LEMMA MqPopType ==
  ASSUME msgs \in [Service -> Seq(Message)], NEW s \in Service, NEW m, MqPop(s, m)
  PROVE  /\ msgs' \in [Service -> Seq(Message)]
         /\ m \in Message
         /\ UNCHANGED <<mem, in_global, release, glist>>
<1>1. Tail(msgs[s]) \in Seq(Message) /\ Head(msgs[s]) \in Message
  BY DEF MqPop
<1> QED
  BY <1>1 DEF MqPop

\* A step of a runtime call keeps TypeOK; a count is never decremented at 0.
LEMMA CallStepType ==
  ASSUME TypeOK, NEW t \in Thread, CallStep(t),
         sub[t].fn = "release" => ref[sub[t].s] > 0
  PROVE  TypeOK'
<1> USE CallFacts DEF TypeOK, Invoke, qVars, cVars, localVars
<1>1. CASE Grab(t)
  <2>1. [fn |-> "push", s |-> sub[t].s, m |-> sub[t].m] \in CallType
    BY <1>1 DEF Grab, CallType
  <2>2. /\ sub' = [sub EXCEPT ![t] = [fn |-> "push", s |-> sub[t].s, m |-> sub[t].m]]
        /\ ref' = [ref EXCEPT ![sub[t].s] = @ + 1]
        /\ UNCHANGED <<cmem, inited, registered, pc, fate, glist, msgs, in_global, release, mem>>
        /\ UNCHANGED <<q, nq, new, msg, left, ops>>
    BY <1>1 DEF Grab
  <2>3. sub' \in [Thread -> CallType]
    BY <2>1, <2>2
  <2>4. ref' \in [Service -> Nat]
    <3> HIDE DEF TypeOK
    <3>1. ref \in [Service -> Nat]
      BY DEF TypeOK
    <3>2. sub[t].s \in Service
      BY <1>1 DEF Grab
    <3>3. ref[sub[t].s] + 1 \in Nat
      BY <3>1, <3>2
    <3> QED BY <2>2, <3>1, <3>3
  <2> QED BY <2>2, <2>3, <2>4
<1>2. CASE GrabFails(t)
  BY <1>2 DEF GrabFails, Fate, Return, NoSub, CallType
<1>3. CASE Push(t)
  <2>1. Call("release", sub[t].s) \in CallType
    BY <1>3 DEF Push, Call, CallType
  <2> QED BY <1>3, <2>1, MqPushType DEF Push
<1>4. CASE Release(t)
  BY <1>4 DEF Release, Call, NoSub, CallType
<1>5. CASE Delete(t)
  <2>1. glist' \in Seq(Service)
    BY <1>5, GlobalPushType DEF Delete, MqMarkRelease
  <2>2. NoSub \in CallType
    BY DEF NoSub, CallType
  <2> QED BY <1>5, <2>1, <2>2 DEF Delete, Return, MqMarkRelease
<1>6. CASE Retire(t)
  BY <1>6 DEF Retire, Call, NoSub, CallType
<1> QED
  BY <1>1, <1>2, <1>3, <1>4, <1>5, <1>6 DEF CallStep

\* A step of mtask_context_message_dispatch keeps TypeOK.
LEMMA BatchStepType ==
  ASSUME TypeOK, Locals, NEW w \in Worker, BatchStep(w)
  PROVE  TypeOK'
<1>0. w \in Thread
  BY DEF Thread
<1> USE <1>0 DEF TypeOK, Invoke, qVars, cVars, localVars, Ready, Goto
<1>1. CASE Take(w)
  <2>1. PICK s \in Service : GlobalPop(s) /\ q' = [q EXCEPT ![w] = s]
    BY <1>1 DEF Take
  <2>2. glist' \in Seq(Service)
    BY <2>1, GlobalPopType
  <2> QED BY <1>1, <2>1, <2>2 DEF Take
<1>2. CASE GrabQueueOwner(w)
  <2>1. CASE q[w] \in registered
    <3>1. ref' = [ref EXCEPT ![q[w]] = @ + 1] /\ UNCHANGED <<cmem, inited>>
      BY <1>2, <2>1 DEF GrabQueueOwner
    <3>2. pc' = [pc EXCEPT ![w] = "first"]
      BY <1>2, <2>1 DEF GrabQueueOwner
    <3> QED BY <1>2, <3>1, <3>2 DEF GrabQueueOwner, InLoop
  <2>2. CASE q[w] \notin registered
    BY <1>2, <2>2 DEF GrabQueueOwner, Outer
  <2> QED BY <2>1, <2>2
<1>3. CASE PopEmpty(w)
  <2>1. q[w] \in Service
    BY <1>3 DEF PopEmpty, Locals, InLoop
  <2> QED
    BY <1>3, <2>1 DEF PopEmpty, MqPopEmpty, Call, CallType, Outer
<1>4. CASE PopMessage(w)
  <2>1. q[w] \in Service
    BY <1>4 DEF PopMessage, Locals, InLoop
  <2> QED
    <3>1. PICK m \in Message :
              /\ MqPop(q[w], m)
              /\ msg' = [msg EXCEPT ![w] = m]
              /\ fate' = [fate EXCEPT ![m.id] =
                            IF m.kind = "req" THEN "handled" ELSE "reported"]
      BY <1>4 DEF PopMessage
    <3>2. msgs' \in [Service -> Seq(Message)] /\ UNCHANGED <<mem, in_global, release, glist>>
      BY <2>1, <3>1, MqPopType
    <3>3. fate' \in [MsgId -> Fate]
      BY <3>1 DEF Fate
    <3>4. /\ ops' \in [Thread -> 0 .. MaxOps]
          /\ pc' \in [Thread -> Outer \cup InLoop \cup Launch]
      BY <1>4, DispatchAssumption DEF PopMessage, InLoop
    <3> QED BY <1>4, <3>1, <3>2, <3>3, <3>4 DEF PopMessage
<1>5. CASE Length(w)
  <2>1. q[w] \in Service
    BY <1>5 DEF Length, Locals, InLoop
  <2>2. Len(msgs[q[w]]) \in Nat
    BY <2>1
  <2>3. Weight[w] \in -1 .. 3
    BY DispatchAssumption
  <2>4. <<1, 2, 4, 8>>[Weight[w] + 1] \in {1, 2, 4, 8}
    <3>1. Weight[w] = 0 \/ Weight[w] = 1 \/ Weight[w] = 2 \/ Weight[w] = 3
      BY <1>5, <2>3 DEF Length, Locals
    <3> QED BY <3>1
  <2>5. Shift(Len(msgs[q[w]]), Weight[w]) \in Nat
    <3>1. \A n \in Nat : n \div 1 \in Nat /\ n \div 2 \in Nat /\ n \div 4 \in Nat /\ n \div 8 \in Nat
      OBVIOUS
    <3> QED BY <2>2, <2>4, <3>1 DEF Shift
  <2> QED
    BY <1>5, <2>5 DEF Length, InLoop
<1>6. CASE EndBatch(w)
  <2>1. q[w] \in Service
    BY <1>6 DEF EndBatch, Locals, InLoop
  <2> QED
    <3>1. glist' \in Seq(Service) /\ nq' \in [Thread -> Service \cup {NULL}]
      BY <1>6, GlobalPopType DEF EndBatch
    <3>2. Call("release", q[w]) \in CallType
      BY <2>1 DEF Call, CallType
    <3> QED BY <1>6, <3>1, <3>2 DEF EndBatch, Outer, InLoop
<1>7. CASE PushBack(w)
  <2>1. q[w] \in Service
    BY <1>7 DEF PushBack, Locals, InLoop
  <2> QED
    <3>1. glist' \in Seq(Service)
      BY <1>7, <2>1, GlobalPushType DEF PushBack
    <3>2. Call("release", q[w]) \in CallType
      BY <2>1 DEF Call, CallType
    <3> QED BY <1>7, <3>1, <3>2 DEF PushBack, Outer
<1>8. CASE TakeNext(w)
  BY <1>8, GlobalPopType DEF TakeNext, Outer
<1> QED
  BY <1>1, <1>2, <1>3, <1>4, <1>5, <1>6, <1>7, <1>8 DEF BatchStep

\* A step of a callback keeps TypeOK.
LEMMA CallbackStepType ==
  ASSUME TypeOK, Locals, NEW w \in Worker, CallbackStep(w)
  PROVE  TypeOK'
<1>0. w \in Thread
  BY DEF Thread
<1> USE <1>0 DEF TypeOK, Invoke, qVars, cVars, localVars, Ready, Goto
<1>1. CASE CbSend(w)
  <2>1. q[w] \in Service
    BY <1>1 DEF CbSend, Locals, InLoop
  <2>2. PICK d \in Service, i \in MsgId :
          /\ fate' = [fate EXCEPT ![i] = "pending"]
          /\ sub' = [sub EXCEPT ![w] =
                       SendCall(d, [id |-> i, kind |-> "req", src |-> q[w]])]
    BY <1>1 DEF CbSend, Known, Send
  <2>3. SendCall(d, [id |-> i, kind |-> "req", src |-> q[w]]) \in CallType
    BY <2>1 DEF SendCall, CallType, Message
  <2> QED BY <1>1, <2>2, <2>3, DispatchAssumption DEF CbSend, Fate
<1>2. CASE CbRetire(w)
  <2>1. PICK d \in Service : sub' = [sub EXCEPT ![w] = Call("retire", d)]
    BY <1>2 DEF CbRetire, Known
  <2>2. Call("retire", d) \in CallType
    BY DEF Call, CallType
  <2> QED BY <1>2, <2>1, <2>2, DispatchAssumption DEF CbRetire
<1>3. CASE CbLaunch(w)
  <2>1. PICK s \in Service :
          /\ MqCreate(s)
          /\ cmem' = [cmem EXCEPT ![s] = "live"]
          /\ ref' = [ref EXCEPT ![s] = 2]
          /\ inited' = [inited EXCEPT ![s] = FALSE]
          /\ registered' = registered \cup {s}
          /\ new' = [new EXCEPT ![w] = s]
    BY <1>3 DEF CbLaunch
  <2> QED BY <1>3, <2>1, DispatchAssumption DEF CbLaunch, MqCreate, Launch
<1>4. CASE CbReturn(w)
  BY <1>4, DispatchAssumption DEF CbReturn, InLoop
<1> QED
  BY <1>1, <1>2, <1>3, <1>4 DEF CallbackStep

\* A step of the rest of mtask_context_new keeps TypeOK.
LEMMA LaunchStepType ==
  ASSUME TypeOK, Locals, NEW w \in Worker, LaunchStep(w),
         pc[w] = "init" => ref[new[w]] > 0
  PROVE  TypeOK'
<1>0. w \in Thread
  BY DEF Thread
<1> USE <1>0 DEF TypeOK, Invoke, qVars, cVars, localVars, Ready, Goto
<1>1. CASE InitSend(w)
  <2>1. new[w] \in Service
    BY <1>1 DEF InitSend, Locals, Launch
  <2>2. PICK d \in Service, i \in MsgId :
          /\ fate' = [fate EXCEPT ![i] = "pending"]
          /\ sub' = [sub EXCEPT ![w] =
                       SendCall(d, [id |-> i, kind |-> "req", src |-> new[w]])]
    BY <1>1 DEF InitSend, Known, Send
  <2>3. SendCall(d, [id |-> i, kind |-> "req", src |-> new[w]]) \in CallType
    BY <2>1 DEF SendCall, CallType, Message
  <2> QED BY <1>1, <2>2, <2>3, DispatchAssumption DEF InitSend, Fate
<1>2. CASE InitOk(w)
  <2>1. new[w] \in Service
    BY <1>2 DEF InitOk, Locals, Launch
  <2>2. Call("delete", new[w]) \in CallType
    BY <2>1 DEF Call, CallType
  <2>3. ref[new[w]] - 1 \in Nat
    BY <1>2, <2>1 DEF InitOk
  <2>4. ref' \in [Service -> Nat]
    BY <1>2, <2>3 DEF InitOk
  <2> QED BY <1>2, <2>2, <2>4 DEF InitOk, Launch
<1>3. CASE SetInit(w)
  BY <1>3 DEF SetInit, Launch
<1>4. CASE Offer(w)
  <2>1. new[w] \in Service
    BY <1>4 DEF Offer, Locals, Launch
  <2>2. glist' \in Seq(Service)
    BY <1>4, <2>1, GlobalPushType DEF Offer
  <2> QED BY <1>4, <2>2 DEF Offer, InLoop
<1>5. CASE InitFails(w)
  <2>1. new[w] \in Service
    BY <1>5 DEF InitFails, Locals, Launch
  <2>2. Call("release", new[w]) \in CallType
    BY <2>1 DEF Call, CallType
  <2> QED BY <1>5, <2>2 DEF InitFails, Launch
<1>6. CASE FailRetire(w)
  <2>1. new[w] \in Service
    BY <1>6 DEF FailRetire, Locals, Launch
  <2>2. Call("retire", new[w]) \in CallType
    BY <2>1 DEF Call, CallType
  <2> QED BY <1>6, <2>2 DEF FailRetire, Launch
<1> QED
  BY <1>1, <1>2, <1>3, <1>4, <1>5, <1>6 DEF LaunchStep

\* A step of mtask_mq_release keeps TypeOK.
LEMMA DropStepType ==
  ASSUME TypeOK, Locals, NEW w \in Worker, DropStep(w)
  PROVE  TypeOK'
<1>0. w \in Thread
  BY DEF Thread
<1>a. /\ pc[w] = "mq_release" => q[w] \in Service
      /\ pc[w] = "new_mq_release" => new[w] \in Service
      /\ pc[w] \in {"drop", "new_drop"} => Dropped(w) \in Service
  BY <1>0 DEF Locals, Launch, Dropped, TypeOK
<1> USE <1>0 DEF TypeOK, Invoke, qVars, cVars, localVars, Goto
<1>1. CASE MqReleaseGiveBack(w)
  <2>1. glist' \in Seq(Service)
    BY <1>1, <1>a, GlobalPushType DEF MqReleaseGiveBack, MqGiveBack
  <2> QED BY <1>1, <2>1 DEF MqReleaseGiveBack, MqGiveBack, Outer, InLoop
<1>2. CASE MqReleaseDrop(w)
  BY <1>2 DEF MqReleaseDrop, MqStartDrop, mqVars, Outer, Launch
<1>3. CASE DropMessage(w)
  <2>1. PICK m \in Message :
          /\ MqPop(Dropped(w), m)
          /\ IF m.src = NULL
             THEN /\ fate' = [fate EXCEPT ![m.id] = "unreported"]
                  /\ UNCHANGED sub
             ELSE /\ sub' = [sub EXCEPT ![w] = SendCall(m.src,
                               [id |-> m.id, kind |-> "err", src |-> Dropped(w)])]
                  /\ UNCHANGED fate
    BY <1>3 DEF DropMessage
  <2>2. msgs' \in [Service -> Seq(Message)] /\ UNCHANGED <<mem, in_global, release, glist>>
    BY <1>3, <1>a, <2>1, MqPopType DEF DropMessage
  <2>3. m.src # NULL =>
          SendCall(m.src, [id |-> m.id, kind |-> "err", src |-> Dropped(w)]) \in CallType
    BY <1>3, <1>a DEF DropMessage, SendCall, CallType, Message
  <2>4. sub' \in [Thread -> CallType] /\ fate' \in [MsgId -> Fate]
    BY <2>1, <2>3 DEF Fate
  <2> QED BY <1>3, <2>2, <2>4 DEF DropMessage
<1>4. CASE FreeQueue(w)
  BY <1>4, <1>a DEF FreeQueue, MqFree, Outer, InLoop
<1> QED
  BY <1>1, <1>2, <1>3, <1>4 DEF DropStep

\* A send from the socket or timer thread keeps TypeOK.
LEMMA OutsideSendType ==
  ASSUME TypeOK, NEW t \in Outside, OutsideSend(t)
  PROVE  TypeOK'
<1>0. t \in Thread
  BY DEF Thread
<1>1. PICK d \in Service, i \in MsgId :
        /\ fate' = [fate EXCEPT ![i] = "pending"]
        /\ sub' = [sub EXCEPT ![t] =
                     SendCall(d, [id |-> i, kind |-> "req", src |-> NULL])]
  BY DEF OutsideSend, Known, Send, Invoke
<1>2. SendCall(d, [id |-> i, kind |-> "req", src |-> NULL]) \in CallType
  BY DEF SendCall, CallType, Message
<1> QED
  BY <1>0, <1>1, <1>2 DEF OutsideSend, TypeOK, Fate, qVars, cVars, localVars
-----------------------------------------------------------------------------
(* Reference counts.                                                       *)

\* The references to the context of s that thread t holds.
OwnRefs(t, s) ==
  (IF q[t] = s /\ pc[t] \in InLoop \cup Launch THEN 1 ELSE 0)
    + (IF sub[t].s = s /\ sub[t].fn \in {"push", "release"} THEN 1 ELSE 0)
    + (IF new[t] = s /\ pc[t] = "init" THEN 1 ELSE 0)

\* There are finitely many threads, so their references can be counted.
LEMMA ThreadFinite == IsFiniteSet(Thread)
BY DispatchAssumption, FS_Union DEF Thread

\* A set that changes only in t changes its size by what happens to t.
LEMMA SizeChange ==
  ASSUME NEW S \in SUBSET Thread, NEW T \in SUBSET Thread, NEW t \in Thread,
         \A u \in Thread \ {t} : u \in S <=> u \in T
  PROVE  /\ Cardinality(S) \in Nat
         /\ Cardinality(T) \in Nat
         /\ Cardinality(T) + (IF t \in S THEN 1 ELSE 0)
              = Cardinality(S) + (IF t \in T THEN 1 ELSE 0)
         /\ t \in S => Cardinality(S) > 0
<1>1. IsFiniteSet(S) /\ IsFiniteSet(T)
  BY ThreadFinite, FS_Subset
<1>2. S \ {t} = T \ {t}
  OBVIOUS
<1>3. /\ Cardinality(S \ {t}) = IF t \in S THEN Cardinality(S) - 1 ELSE Cardinality(S)
      /\ Cardinality(T \ {t}) = IF t \in T THEN Cardinality(T) - 1 ELSE Cardinality(T)
  BY <1>1, FS_RemoveElement
<1>4. Cardinality(S) \in Nat /\ Cardinality(T) \in Nat /\ Cardinality(S \ {t}) \in Nat
  BY <1>1, FS_CardinalityType, FS_RemoveElement
<1> DEFINE a == Cardinality(S)  b == Cardinality(T)  d == Cardinality(S \ {t})
<1>5. d = (IF t \in S THEN a - 1 ELSE a) /\ d = (IF t \in T THEN b - 1 ELSE b)
  BY <1>2, <1>3
<1>6. a \in Nat /\ b \in Nat /\ d \in Nat
  BY <1>4
<1> HIDE DEF a, b, d
<1>7. /\ b + (IF t \in S THEN 1 ELSE 0) = a + (IF t \in T THEN 1 ELSE 0)
      /\ t \in S => a > 0
  BY <1>5, <1>6
<1> QED
  BY <1>6, <1>7 DEF a, b

\* What a thread holds is counted.
LEMMA RefsCounted ==
  ASSUME TypeOK, RefCountExact, NEW t \in Thread, NEW s \in Service
  PROVE  OwnRefs(t, s) + TableRef(s) <= ref[s]
<1>1. /\ LoopRefs(s) \in SUBSET Thread
      /\ CallRefs(s) \in SUBSET Thread
      /\ NewRefs(s) \in SUBSET Thread
  BY DEF LoopRefs, CallRefs, NewRefs
<1>2. /\ Cardinality(LoopRefs(s)) \in Nat
      /\ Cardinality(CallRefs(s)) \in Nat
      /\ Cardinality(NewRefs(s)) \in Nat
      /\ t \in LoopRefs(s) => Cardinality(LoopRefs(s)) > 0
      /\ t \in CallRefs(s) => Cardinality(CallRefs(s)) > 0
      /\ t \in NewRefs(s) => Cardinality(NewRefs(s)) > 0
  BY <1>1, SizeChange
<1>3. TableRef(s) \in Nat
  BY DEF TableRef
<1>4. ref[s] = Cardinality(LoopRefs(s)) + Cardinality(CallRefs(s))
                   + Cardinality(NewRefs(s)) + TableRef(s)
  BY DEF RefCountExact
<1>5. /\ q[t] = s /\ pc[t] \in InLoop \cup Launch <=> t \in LoopRefs(s)
      /\ sub[t].s = s /\ sub[t].fn \in {"push", "release"} <=> t \in CallRefs(s)
      /\ new[t] = s /\ pc[t] = "init" <=> t \in NewRefs(s)
  BY DEF LoopRefs, CallRefs, NewRefs
<1> QED
  BY <1>2, <1>3, <1>4, <1>5 DEF OwnRefs

\* What thread t takes and drops in a step is what the counters change by.
RefDelta(t) ==
  /\ \A u \in Thread \ {t} : /\ q'[u] = q[u] /\ new'[u] = new[u]
                             /\ pc'[u] = pc[u] /\ sub'[u] = sub[u]
  /\ \A s \in Service : ref'[s] + OwnRefs(t, s) + TableRef(s)
                          = ref[s] + OwnRefs(t, s)' + TableRef(s)'

\* A step of t keeps the counts if it changes ref by what t takes or drops.
LEMMA RefCountStep ==
  ASSUME TypeOK, TypeOK', RefCountExact, NEW t \in Thread, RefDelta(t)
  PROVE  RefCountExact'
<1> USE DEF RefDelta
<1> SUFFICES ASSUME NEW s \in Service
             PROVE  ref'[s] = Cardinality(LoopRefs(s)') + Cardinality(CallRefs(s)')
                                + Cardinality(NewRefs(s)') + TableRef(s)'
  BY DEF RefCountExact
<1>1. /\ LoopRefs(s) \in SUBSET Thread /\ LoopRefs(s)' \in SUBSET Thread
      /\ CallRefs(s) \in SUBSET Thread /\ CallRefs(s)' \in SUBSET Thread
      /\ NewRefs(s) \in SUBSET Thread /\ NewRefs(s)' \in SUBSET Thread
  BY DEF LoopRefs, CallRefs, NewRefs
<1>2. \A u \in Thread \ {t} : /\ u \in LoopRefs(s) <=> u \in LoopRefs(s)'
                              /\ u \in CallRefs(s) <=> u \in CallRefs(s)'
                              /\ u \in NewRefs(s) <=> u \in NewRefs(s)'
  BY DEF LoopRefs, CallRefs, NewRefs
<1> DEFINE L == Cardinality(LoopRefs(s))  L1 == Cardinality(LoopRefs(s)')
           C == Cardinality(CallRefs(s))  C1 == Cardinality(CallRefs(s)')
           N == Cardinality(NewRefs(s))   N1 == Cardinality(NewRefs(s)')
           l == IF t \in LoopRefs(s) THEN 1 ELSE 0
           l1 == IF t \in LoopRefs(s)' THEN 1 ELSE 0
           c == IF t \in CallRefs(s) THEN 1 ELSE 0
           c1 == IF t \in CallRefs(s)' THEN 1 ELSE 0
           n == IF t \in NewRefs(s) THEN 1 ELSE 0
           n1 == IF t \in NewRefs(s)' THEN 1 ELSE 0
<1>3. L \in Nat /\ L1 \in Nat /\ L1 + l = L + l1
  BY <1>1, <1>2, SizeChange
<1>4. C \in Nat /\ C1 \in Nat /\ C1 + c = C + c1
  BY <1>1, <1>2, SizeChange
<1>5. N \in Nat /\ N1 \in Nat /\ N1 + n = N + n1
  BY <1>1, <1>2, SizeChange
<1>6. OwnRefs(t, s) = l + c + n /\ OwnRefs(t, s)' = l1 + c1 + n1
  BY DEF OwnRefs, LoopRefs, CallRefs, NewRefs
<1>7. ref[s] = L + C + N + TableRef(s) /\ ref[s] \in Nat /\ ref'[s] \in Nat
  BY DEF RefCountExact, TypeOK
<1>8. /\ TableRef(s) \in Nat /\ TableRef(s)' \in Nat
      /\ l \in Nat /\ l1 \in Nat /\ c \in Nat /\ c1 \in Nat /\ n \in Nat /\ n1 \in Nat
  BY DEF TableRef
<1>9. ref'[s] + OwnRefs(t, s) + TableRef(s) = ref[s] + OwnRefs(t, s)' + TableRef(s)'
  OBVIOUS
<1>10. ref'[s] + (l + c + n) + TableRef(s) = (L + C + N + TableRef(s)) + (l1 + c1 + n1) + TableRef(s)'
  BY <1>6, <1>7, <1>9
<1> HIDE DEF L, L1, C, C1, N, N1, l, l1, c, c1, n, n1
<1>11. ref'[s] = L1 + C1 + N1 + TableRef(s)'
  BY <1>3, <1>4, <1>5, <1>7, <1>8, <1>10
<1> QED
  BY <1>11 DEF L1, C1, N1
\* Runtime calls account for the references they take and give.
LEMMA CallStepRefs ==
  ASSUME TypeOK, Memory, RefCountExact, NEW t \in Thread, CallStep(t)
  PROVE  RefDelta(t)
<1> USE DEF RefDelta, OwnRefs, TableRef, Invoke, Call, NoSub, Return, localVars, cVars, TypeOK
<1>1. CASE Grab(t)
  <2>1. \A u \in Thread \ {t} : /\ q'[u] = q[u] /\ new'[u] = new[u]
                                 /\ pc'[u] = pc[u] /\ sub'[u] = sub[u]
    BY <1>1 DEF Grab
  <2>2. ASSUME NEW s \in Service, s # sub[t].s
        PROVE  ref'[s] + OwnRefs(t, s) + TableRef(s)
                 = ref[s] + OwnRefs(t, s)' + TableRef(s)'
    BY <1>1, <2>2, CallFacts DEF Grab
  <2>3. ASSUME NEW s \in Service, s = sub[t].s
        PROVE  ref'[s] + OwnRefs(t, s) + TableRef(s)
                 = ref[s] + OwnRefs(t, s)' + TableRef(s)'
    <3>1. ref'[s] = ref[s] + 1 /\ ref[s] \in Nat /\ TableRef(s)' = TableRef(s)
      BY <1>1, <2>3, CallFacts DEF Grab
    <3>2. OwnRefs(t, s)' = OwnRefs(t, s) + 1
      BY <1>1, <2>3, CallFacts DEF Grab
    <3>3. OwnRefs(t, s) \in Nat /\ OwnRefs(t, s)' \in Nat /\ TableRef(s) \in Nat
      OBVIOUS
    <3> HIDE DEF OwnRefs, TableRef
    <3> QED
      BY <3>1, <3>2, <3>3
  <2> QED
    BY <2>1, <2>2, <2>3
<1>2. CASE GrabFails(t)
  BY <1>2, CallFacts DEF GrabFails
<1>3. CASE Push(t)
  BY <1>3, CallFacts DEF Push
<1>4. CASE Release(t)
  <2>1. \A u \in Thread \ {t} : /\ q'[u] = q[u] /\ new'[u] = new[u]
                                 /\ pc'[u] = pc[u] /\ sub'[u] = sub[u]
    BY <1>4 DEF Release
  <2>2. ASSUME NEW s \in Service, s # sub[t].s
        PROVE  ref'[s] + OwnRefs(t, s) + TableRef(s)
                 = ref[s] + OwnRefs(t, s)' + TableRef(s)'
    BY <1>4, <2>2, CallFacts DEF Release
  <2>3. ASSUME NEW s \in Service, s = sub[t].s
        PROVE  ref'[s] + OwnRefs(t, s) + TableRef(s)
                 = ref[s] + OwnRefs(t, s)' + TableRef(s)'
    <3>1. ref'[s] = ref[s] - 1 /\ ref[s] \in Nat /\ TableRef(s)' = TableRef(s)
      BY <1>4, <2>3, CallFacts DEF Release
    <3>2. OwnRefs(t, s) = OwnRefs(t, s)' + 1
      BY <1>4, <2>3, CallFacts DEF Release
    <3>3. OwnRefs(t, s) \in Nat /\ OwnRefs(t, s)' \in Nat /\ TableRef(s) \in Nat
      OBVIOUS
    <3> HIDE DEF OwnRefs, TableRef
    <3> QED
      BY <3>1, <3>2, <3>3
  <2> QED
    BY <2>1, <2>2, <2>3
<1>5. CASE Delete(t)
  BY <1>5, CallFacts DEF Delete
<1>6. CASE Retire(t)
  BY <1>6, CallFacts DEF Retire
<1> QED
  BY <1>1, <1>2, <1>3, <1>4, <1>5, <1>6 DEF CallStep

\* The dispatch loop accounts for its reference.
LEMMA BatchStepRefs ==
  ASSUME TypeOK, Locals, NEW w \in Worker, BatchStep(w)
  PROVE  RefDelta(w)
<1>0. w \in Thread
  BY DEF Thread
<1> USE <1>0 DEF RefDelta, OwnRefs, TableRef, Invoke, Call, localVars, cVars, TypeOK, Ready, Goto, InLoop, Launch
<1>1. CASE Take(w)
  BY <1>1 DEF Take
<1>2. CASE GrabQueueOwner(w)
  BY <1>2 DEF GrabQueueOwner
<1>3. CASE PopEmpty(w)
  BY <1>3 DEF PopEmpty
<1>4. CASE PopMessage(w)
  BY <1>4 DEF PopMessage
<1>5. CASE Length(w)
  BY <1>5 DEF Length
<1>6. CASE EndBatch(w)
  BY <1>6 DEF EndBatch
<1>7. CASE PushBack(w)
  BY <1>7 DEF PushBack
<1>8. CASE TakeNext(w)
  BY <1>8 DEF TakeNext
<1> QED
  BY <1>1, <1>2, <1>3, <1>4, <1>5, <1>6, <1>7, <1>8 DEF BatchStep

\* A launch starts with two references: the table's and the creator's.
LEMMA CallbackStepRefs ==
  ASSUME TypeOK, Locals, Memory, RefCountExact, NEW w \in Worker, CallbackStep(w)
  PROVE  RefDelta(w)
<1>0. w \in Thread
  BY DEF Thread
<1> USE <1>0 DEF RefDelta, OwnRefs, TableRef, Invoke, localVars, cVars, TypeOK, Ready, Goto, InLoop, Launch
<1>1. CASE CbSend(w)
  BY <1>1 DEF CbSend, Send, SendCall
<1>2. CASE CbRetire(w)
  BY <1>2 DEF CbRetire, Call
<1>3. CASE CbLaunch(w)
  <2>1. PICK s \in Service \ Known :
          /\ ref' = [ref EXCEPT ![s] = 2]
          /\ registered' = registered \cup {s}
          /\ new' = [new EXCEPT ![w] = s]
    BY <1>3 DEF CbLaunch
  <2>2. ref[s] = 0
    BY <2>1 DEF Known, Memory
  <2>3. OwnRefs(w, s) + TableRef(s) <= 0
    BY <2>1, <2>2, RefsCounted
  <2>4. s \notin registered /\ OwnRefs(w, s) = 0
    BY <2>3 DEF OwnRefs, TableRef
  <2>5. new[w] = NULL /\ new[w] # s
    <3>1. pc[w] \notin Launch
      BY <1>3 DEF CbLaunch
    <3>2. new[w] = NULL
      BY <3>1 DEF Locals
    <3>3. NULL \notin Service
      BY DispatchAssumption
    <3> QED BY <3>2, <3>3
  <2>6. pc[w] = "cb" /\ pc' = [pc EXCEPT ![w] = "init"] /\ UNCHANGED <<q, sub>>
    BY <1>3 DEF CbLaunch
  <2>7. ASSUME NEW r \in Service \ {s}
        PROVE  ref'[r] + OwnRefs(w, r) + TableRef(r)
                 = ref[r] + OwnRefs(w, r)' + TableRef(r)'
    BY <2>1, <2>5, <2>6
  <2>8. OwnRefs(w, s)' = 1 /\ TableRef(s)' = 1 /\ TableRef(s) = 0 /\ ref'[s] = 2
    BY <2>1, <2>4, <2>6
  <2> QED BY <2>1, <2>2, <2>4, <2>6, <2>7, <2>8
<1>4. CASE CbReturn(w)
  BY <1>4 DEF CbReturn
<1> QED
  BY <1>1, <1>2, <1>3, <1>4 DEF CallbackStep

\* The end of a launch accounts for the creator's reference.
LEMMA LaunchStepRefs ==
  ASSUME TypeOK, Locals, NEW w \in Worker, LaunchStep(w)
  PROVE  RefDelta(w)
<1>0. w \in Thread
  BY DEF Thread
<1> USE <1>0 DEF RefDelta, OwnRefs, TableRef, Invoke, localVars, cVars, TypeOK, Ready, Goto, InLoop, Launch
<1>1. CASE InitSend(w)
  BY <1>1 DEF InitSend, Send, SendCall
<1>2. CASE InitOk(w)
  <2>1. \A u \in Thread \ {w} : /\ q'[u] = q[u] /\ new'[u] = new[u]
                                 /\ pc'[u] = pc[u] /\ sub'[u] = sub[u]
    BY <1>2 DEF InitOk, Call
  <2>2. ASSUME NEW s \in Service, s # new[w]
        PROVE  ref'[s] + OwnRefs(w, s) + TableRef(s)
                 = ref[s] + OwnRefs(w, s)' + TableRef(s)'
    BY <1>2, <2>2 DEF InitOk, Call
  <2>3. ASSUME NEW s \in Service, s = new[w]
        PROVE  ref'[s] + OwnRefs(w, s) + TableRef(s)
                 = ref[s] + OwnRefs(w, s)' + TableRef(s)'
    BY <1>2, <2>3 DEF InitOk, Call
  <2> QED
    BY <2>1, <2>2, <2>3
<1>3. CASE SetInit(w)
  BY <1>3 DEF SetInit
<1>4. CASE Offer(w)
  BY <1>4 DEF Offer
<1>5. CASE InitFails(w)
  BY <1>5 DEF InitFails, Call
<1>6. CASE FailRetire(w)
  BY <1>6 DEF FailRetire, Call
<1> QED
  BY <1>1, <1>2, <1>3, <1>4, <1>5, <1>6 DEF LaunchStep

\* Releasing a queue touches no reference.
LEMMA DropStepRefs ==
  ASSUME TypeOK, Locals, NEW w \in Worker, DropStep(w)
  PROVE  RefDelta(w)
<1>0. w \in Thread
  BY DEF Thread
<1> USE <1>0 DEF RefDelta, OwnRefs, TableRef, Invoke, localVars, cVars, TypeOK, Goto, InLoop, Launch
<1>1. CASE MqReleaseGiveBack(w)
  BY <1>1 DEF MqReleaseGiveBack
<1>2. CASE MqReleaseDrop(w)
  BY <1>2 DEF MqReleaseDrop
<1>3. CASE DropMessage(w)
  BY <1>3 DEF DropMessage, SendCall
<1>4. CASE FreeQueue(w)
  <2>1. CASE pc[w] = "drop"
    BY <1>4, <2>1 DEF FreeQueue
  <2>2. CASE pc[w] = "new_drop"
    BY <1>4, <2>2 DEF FreeQueue
  <2> QED BY <1>4, <2>1, <2>2 DEF FreeQueue
<1> QED
  BY <1>1, <1>2, <1>3, <1>4 DEF DropStep

\* A send holds no reference before it has grabbed the context.
LEMMA OutsideSendRefs ==
  ASSUME TypeOK, NEW t \in Outside, OutsideSend(t)
  PROVE  RefDelta(t)
BY DEF Thread, OutsideSend, RefDelta, OwnRefs, TableRef, Invoke, Send, SendCall,
       localVars, cVars, TypeOK, Ready, InLoop, Launch
-----------------------------------------------------------------------------
(* Local variables and positions.                                          *)

\* NULL is nobody's handle.
LEMMA NullNotService == NULL \notin Service
BY DispatchAssumption

\* Runtime calls leave positions alone and never clear a release mark.
LEMMA CallStepLocals ==
  ASSUME TypeOK, Locals, NEW t \in Thread, CallStep(t)
  PROVE  Locals'
<1>1. UNCHANGED <<pc, q, nq, new>>
  BY DEF CallStep, Grab, GrabFails, Push, Release, Delete, Retire, localVars
<1>2. \A s \in Service : release[s] => release'[s]
  BY CallFacts DEF CallStep, Grab, GrabFails, Push, MqPush, Release, Delete, MqMarkRelease,
                   Retire, qVars, TypeOK
<1>3. \A u \in Thread : /\ pc[u] = "drop" => q[u] \in Service
                        /\ pc[u] = "new_drop" => new[u] \in Service
  BY DEF Locals, TypeOK, Launch
<1> QED
  BY <1>1, <1>2, <1>3 DEF Locals

\* The dispatch loop's positions say what its locals hold.
LEMMA BatchStepLocals ==
  ASSUME TypeOK, Locals, NEW w \in Worker, BatchStep(w)
  PROVE  Locals'
<1>0. w \in Thread
  BY DEF Thread
<1> USE <1>0, NullNotService DEF TypeOK, Ready, Goto, InLoop, Launch, Locals, localVars, qVars
<1>1. CASE Take(w)
  BY <1>1 DEF Take
<1>2. CASE GrabQueueOwner(w)
  BY <1>2 DEF GrabQueueOwner
<1>3. CASE PopEmpty(w)
  BY <1>3 DEF PopEmpty, MqPopEmpty
<1>4. CASE PopMessage(w)
  BY <1>4 DEF PopMessage, MqPop
<1>5. CASE Length(w)
  BY <1>5 DEF Length
<1>6. CASE EndBatch(w)
  BY <1>6 DEF EndBatch
<1>7. CASE PushBack(w)
  BY <1>7 DEF PushBack
<1>8. CASE TakeNext(w)
  BY <1>8 DEF TakeNext
<1> QED
  BY <1>1, <1>2, <1>3, <1>4, <1>5, <1>6, <1>7, <1>8 DEF BatchStep

\* The callback's positions say what the locals hold.
LEMMA CallbackStepLocals ==
  ASSUME TypeOK, Locals, QueueInOnePlace, NEW w \in Worker, CallbackStep(w)
  PROVE  Locals'
<1>0. w \in Thread
  BY DEF Thread
<1> USE <1>0, NullNotService DEF TypeOK, Ready, Goto, InLoop, Launch, Locals, localVars, qVars
<1>1. CASE CbSend(w)
  BY <1>1 DEF CbSend
<1>2. CASE CbRetire(w)
  BY <1>2 DEF CbRetire
<1>3. CASE CbLaunch(w)
  <2>1. PICK s \in Service \ Known :
          /\ release' = [release EXCEPT ![s] = FALSE]
          /\ new' = [new EXCEPT ![w] = s]
    BY <1>3 DEF CbLaunch, MqCreate
  <2>2. \A t \in Thread : q[t] # s /\ new[t] # s
    <3>1. mem[s] = "none"
      BY <2>1 DEF Known
    <3>2. ~ Placed(s)
      BY <2>1, <3>1 DEF QueueInOnePlace
    <3> QED BY <3>2 DEF Placed, Holds
  <2>3. /\ pc[w] = "cb" /\ pc' = [pc EXCEPT ![w] = "init"]
        /\ UNCHANGED <<q, nq>>
    BY <1>3 DEF CbLaunch
  <2>4. s \in Service /\ s # NULL
    BY <2>1
  <2> QED BY <2>1, <2>2, <2>3, <2>4
<1>4. CASE CbReturn(w)
  BY <1>4 DEF CbReturn
<1> QED
  BY <1>1, <1>2, <1>3, <1>4 DEF CallbackStep

\* The launch's positions say what the locals hold.
LEMMA LaunchStepLocals ==
  ASSUME TypeOK, Locals, NEW w \in Worker, LaunchStep(w)
  PROVE  Locals'
<1>0. w \in Thread
  BY DEF Thread
<1> USE <1>0, NullNotService DEF TypeOK, Ready, Goto, InLoop, Launch, Locals, localVars, qVars
<1>1. CASE InitSend(w)
  BY <1>1 DEF InitSend
<1>2. CASE InitOk(w)
  BY <1>2 DEF InitOk
<1>3. CASE SetInit(w)
  BY <1>3 DEF SetInit
<1>4. CASE Offer(w)
  BY <1>4 DEF Offer
<1>5. CASE InitFails(w)
  BY <1>5 DEF InitFails
<1>6. CASE FailRetire(w)
  BY <1>6 DEF FailRetire
<1> QED
  BY <1>1, <1>2, <1>3, <1>4, <1>5, <1>6 DEF LaunchStep

\* A queue is only dropped once it is marked for release.
LEMMA DropStepLocals ==
  ASSUME TypeOK, Locals, NEW w \in Worker, DropStep(w)
  PROVE  Locals'
<1>0. w \in Thread
  BY DEF Thread
<1> USE <1>0, NullNotService DEF TypeOK, Goto, InLoop, Launch, Locals, localVars, qVars
<1>1. CASE MqReleaseGiveBack(w)
  BY <1>1 DEF MqReleaseGiveBack, MqGiveBack
<1>2. CASE MqReleaseDrop(w)
  BY <1>2 DEF MqReleaseDrop, MqStartDrop, mqVars
<1>3. CASE DropMessage(w)
  BY <1>3 DEF DropMessage, MqPop
<1>4. CASE FreeQueue(w)
  BY <1>4 DEF FreeQueue, MqFree
<1> QED
  BY <1>1, <1>2, <1>3, <1>4 DEF DropStep

\* Outside threads hold no queue.
LEMMA OutsideSendLocals ==
  ASSUME TypeOK, Locals, NEW t \in Outside, OutsideSend(t)
  PROVE  Locals'
BY DEF OutsideSend, Locals, localVars, qVars
-----------------------------------------------------------------------------
(* Memory of contexts and queues.                                          *)

\* A context that is referenced is there, and so is its queue.
LEMMA Referenced ==
  ASSUME TypeOK, RefCountExact, Memory, NEW t \in Thread, NEW s \in Service,
         OwnRefs(t, s) > 0 \/ s \in registered
  PROVE  /\ ref[s] > 0
         /\ cmem[s] = "live" /\ mem[s] = "live" /\ ~ release[s]
         /\ \A u \in Thread : sub[u].fn = "delete" => sub[u].s # s
<1>1. OwnRefs(t, s) \in Nat /\ TableRef(s) \in Nat /\ ref[s] \in Nat
  BY DEF OwnRefs, TableRef, TypeOK
<1>2. s \in registered => TableRef(s) = 1
  BY DEF TableRef
<1>3. OwnRefs(t, s) + TableRef(s) <= ref[s]
  BY RefsCounted
<1>4. ref[s] > 0
  BY <1>1, <1>2, <1>3
<1> QED
  BY <1>4 DEF Memory

\* A context that a push or a release is about to use is there.
LEMMA CallRefsReferenced ==
  ASSUME TypeOK, RefCountExact, Memory, NEW t \in Thread,
         sub[t].fn \in {"push", "release"}
  PROVE  /\ sub[t].s \in Service
         /\ ref[sub[t].s] > 0
         /\ cmem[sub[t].s] = "live" /\ mem[sub[t].s] = "live" /\ ~ release[sub[t].s]
         /\ \A u \in Thread : sub[u].fn = "delete" => sub[u].s # sub[t].s
<1>1. sub[t].s \in Service
  BY CallFacts
<1>2. OwnRefs(t, sub[t].s) > 0
  BY <1>1 DEF OwnRefs
<1> QED
  BY <1>1, <1>2, Referenced

\* Runtime calls delete a context exactly when its last reference goes.
LEMMA CallStepMemory ==
  ASSUME TypeOK, Locals, RefCountExact, Memory, NEW t \in Thread, CallStep(t)
  PROVE  Memory'
<1> USE CallFacts DEF Memory, TypeOK, Invoke, Call, NoSub, Return, qVars, cVars, localVars
<1>1. CASE Grab(t)
  <2>1. /\ sub[t].s \in registered
        /\ ref' = [ref EXCEPT ![sub[t].s] = @ + 1]
        /\ sub' = [sub EXCEPT ![t] = [fn |-> "push", s |-> sub[t].s, m |-> sub[t].m]]
        /\ UNCHANGED <<cmem, mem, release>>
    BY <1>1 DEF Grab
  <2>2. /\ cmem[sub[t].s] = "live"
        /\ \A u \in Thread : sub[u].fn = "delete" => sub[u].s # sub[t].s
    BY <2>1, Referenced
  <2>3. \A u \in Thread : sub'[u].fn = "delete" => sub'[u] = sub[u] /\ u # t
    BY <2>1
  <2>4. \A s \in Service : ref'[s] # ref[s] => s = sub[t].s
    BY <2>1
  <2> QED BY <2>1, <2>2, <2>3, <2>4
<1>2. CASE GrabFails(t)
  BY <1>2 DEF GrabFails
<1>3. CASE Push(t)
  BY <1>3 DEF Push, MqPush
<1>4. CASE Release(t)
  <2> DEFINE s == sub[t].s
  <2>1. /\ s \in Service
        /\ ref[s] > 0
        /\ cmem[s] = "live"
        /\ \A u \in Thread : sub[u].fn = "delete" => sub[u].s # s
    BY <1>4, CallRefsReferenced DEF Release
  <2>2. /\ ref' = [ref EXCEPT ![s] = @ - 1]
        /\ sub' = [sub EXCEPT ![t] = IF ref[s] = 1 THEN Call("delete", s) ELSE NoSub]
        /\ UNCHANGED <<cmem, mem, release>>
    BY <1>4 DEF Release
  <2> HIDE DEF s
  <2>3. ASSUME NEW r \in Service
        PROVE  /\ cmem'[r] # "live" => ref'[r] = 0
               /\ cmem'[r] = "none" <=> mem'[r] = "none"
               /\ cmem'[r] = "live" <=> mem'[r] = "live" /\ ~ release'[r]
    BY <2>1, <2>2
  <2>4. ASSUME NEW u \in Thread, sub'[u].fn = "delete", ref[s] = 1
        PROVE  /\ sub'[u].s = s \/ sub'[u] = sub[u]
               /\ sub'[u].s = s => u = t
    BY <2>1, <2>2, <2>4
  <2>5. ASSUME NEW u \in Thread, sub'[u].fn = "delete", ref[s] # 1
        PROVE  sub'[u] = sub[u] /\ sub[u].s # s /\ u # t
    BY <2>1, <2>2, <2>5
  <2>6. ASSUME NEW u \in Thread, sub'[u].fn = "delete"
        PROVE  /\ cmem'[sub'[u].s] = "live"
               /\ ref'[sub'[u].s] = 0
               /\ \A v \in Thread : sub'[v].fn = "delete" /\ sub'[v].s = sub'[u].s => v = u
    <3>1. CASE u = t
      <4>1. ref[s] = 1 /\ sub'[u].s = s
        BY <2>2, <2>5, <2>6, <3>1
      <4>2. cmem'[s] = "live" /\ ref'[s] = 0
        BY <2>1, <2>2, <4>1
      <4>3. \A v \in Thread : sub'[v].fn = "delete" /\ sub'[v].s = s => v = u
        BY <2>4, <3>1, <4>1
      <4> QED BY <4>1, <4>2, <4>3
    <3>2. CASE u # t
      <4>1. sub'[u] = sub[u] /\ sub[u].s # s /\ sub[u].s \in Service
        BY <2>1, <2>2, <2>6, <3>2
      <4>2. \A v \in Thread : sub'[v].fn = "delete" /\ sub'[v].s = sub'[u].s => v = u
        BY <2>2, <2>4, <2>5, <2>6, <3>2, <4>1
      <4> QED BY <2>2, <2>6, <4>1, <4>2
    <3> QED BY <3>1, <3>2
  <2> QED BY <2>3, <2>6
<1>5. CASE Delete(t)
  <2>1. /\ sub[t].fn = "delete" /\ sub[t].s \in Service
        /\ cmem' = [cmem EXCEPT ![sub[t].s] = "freed"]
        /\ release' = [release EXCEPT ![sub[t].s] = TRUE]
        /\ sub' = [sub EXCEPT ![t] = NoSub]
        /\ UNCHANGED <<mem, ref>>
    BY <1>5 DEF Delete, MqMarkRelease
  <2>2. cmem[sub[t].s] = "live" /\ ref[sub[t].s] = 0
    BY <2>1
  <2>3. \A u \in Thread \ {t} : sub[u].fn = "delete" => sub[u].s # sub[t].s
    BY <2>1
  <2> QED BY <2>1, <2>2, <2>3
<1>6. CASE Retire(t)
  BY <1>6 DEF Retire
<1> QED
  BY <1>1, <1>2, <1>3, <1>4, <1>5, <1>6 DEF CallStep

\* Most steps of a worker leave the memory alone and delete nothing.
LEMMA MemoryFrame ==
  ASSUME Memory, TypeOK, NEW t \in Thread, UNCHANGED <<cmem, ref, mem, release>>,
         \A u \in Thread \ {t} : sub'[u] = sub[u],
         sub'[t] = sub[t] \/ sub'[t].fn # "delete"
  PROVE  Memory'
BY DEF Memory

\* The dispatch loop deletes nothing itself.
LEMMA BatchStepMemory ==
  ASSUME TypeOK, Locals, RefCountExact, Memory, NEW w \in Worker, BatchStep(w)
  PROVE  Memory'
<1>0. w \in Thread
  BY DEF Thread
<1>1. CASE GrabQueueOwner(w)
  <2>1. CASE q[w] \in registered
    <3>1. /\ ref' = [ref EXCEPT ![q[w]] = @ + 1]
          /\ UNCHANGED <<cmem, mem, release, sub>>
      BY <1>1, <2>1 DEF GrabQueueOwner, qVars
    <3>2. /\ q[w] \in Service
          /\ cmem[q[w]] = "live"
          /\ \A u \in Thread : sub[u].fn = "delete" => sub[u].s # q[w]
      BY <1>0, <2>1, Referenced DEF TypeOK
    <3> QED BY <3>1, <3>2 DEF Memory, TypeOK
  <2>2. CASE q[w] \notin registered
    BY <1>0, <1>1, <2>2, MemoryFrame DEF GrabQueueOwner, qVars, cVars
  <2> QED BY <2>1, <2>2
<1>2. CASE ~ GrabQueueOwner(w)
  <2>1. UNCHANGED <<cmem, ref, mem, release>>
    BY <1>2 DEF BatchStep, Take, PopEmpty, MqPopEmpty, PopMessage, MqPop, Length, EndBatch,
                PushBack, TakeNext, cVars, qVars
  <2>2. \/ UNCHANGED sub
        \/ sub' = [sub EXCEPT ![w] = Call("release", q[w])]
    BY <1>2 DEF BatchStep, Take, PopEmpty, PopMessage, Length, EndBatch, PushBack, TakeNext, Invoke
  <2>3. CASE UNCHANGED sub
    BY <1>0, <2>1, <2>3, MemoryFrame
  <2>4. CASE sub' = [sub EXCEPT ![w] = Call("release", q[w])]
    <3>1. sub \in [Thread -> CallType]
      BY DEF TypeOK
    <3>2. \A u \in Thread \ {w} : sub'[u] = sub[u]
      BY <2>4, <3>1
    <3>3. sub'[w] = Call("release", q[w])
      BY <1>0, <2>4, <3>1
    <3>4. sub'[w].fn # "delete"
      BY <3>3 DEF Call
    <3> QED BY <1>0, <2>1, <3>2, <3>4, MemoryFrame
  <2> QED BY <2>2, <2>3, <2>4
<1> QED
  BY <1>1, <1>2

\* A launch creates context and queue together.
LEMMA CallbackStepMemory ==
  ASSUME TypeOK, Locals, RefCountExact, Memory, QueueInOnePlace,
         NEW w \in Worker, CallbackStep(w)
  PROVE  Memory'
<1>0. w \in Thread
  BY DEF Thread
<1>1. CASE CbSend(w)
  BY <1>0, <1>1, MemoryFrame DEF CbSend, Send, SendCall, Invoke, cVars, qVars, TypeOK
<1>2. CASE CbRetire(w)
  BY <1>0, <1>2, MemoryFrame DEF CbRetire, Call, Invoke, cVars, qVars, TypeOK
<1>3. CASE CbLaunch(w)
  <2>1. PICK s \in Service \ Known :
          /\ mem' = [mem EXCEPT ![s] = "live"]
          /\ release' = [release EXCEPT ![s] = FALSE]
          /\ cmem' = [cmem EXCEPT ![s] = "live"]
          /\ ref' = [ref EXCEPT ![s] = 2]
    BY <1>3 DEF CbLaunch, MqCreate
  <2>2. UNCHANGED sub
    BY <1>3 DEF CbLaunch
  <2>3. cmem[s] = "none"
    BY <2>1 DEF Known, Memory
  <2>4. \A u \in Thread : sub[u].fn = "delete" => sub[u].s # s
    BY <2>3 DEF Memory
  <2> QED BY <2>1, <2>2, <2>4 DEF Memory, TypeOK
<1>4. CASE CbReturn(w)
  BY <1>0, <1>4, MemoryFrame DEF CbReturn, cVars, qVars
<1> QED
  BY <1>1, <1>2, <1>3, <1>4 DEF CallbackStep

\* The creator's release deletes a context that was retired meanwhile.
LEMMA LaunchStepMemory ==
  ASSUME TypeOK, Locals, RefCountExact, Memory, NEW w \in Worker, LaunchStep(w)
  PROVE  Memory'
<1>0. w \in Thread
  BY DEF Thread
<1>1. CASE InitSend(w)
  BY <1>0, <1>1, MemoryFrame DEF InitSend, Send, SendCall, Invoke, cVars, qVars, TypeOK
<1>2. CASE InitOk(w)
  <2> DEFINE s == new[w]
  <2>1. s \in Service
    BY <1>0, <1>2 DEF InitOk, Ready, Locals, Launch, TypeOK
  <2>2. OwnRefs(w, s) > 0
    BY <1>0, <1>2 DEF InitOk, Ready, OwnRefs
  <2>3. /\ ref[s] > 0 /\ cmem[s] = "live"
        /\ \A u \in Thread : sub[u].fn = "delete" => sub[u].s # s
    BY <1>0, <2>1, <2>2, Referenced
  <2>4. /\ ref' = [ref EXCEPT ![s] = @ - 1]
        /\ UNCHANGED <<cmem, mem, release>>
    BY <1>2 DEF InitOk, qVars
  <2>5. \/ ref[s] = 1 /\ sub' = [sub EXCEPT ![w] = Call("delete", s)]
        \/ ref[s] # 1 /\ UNCHANGED sub
    BY <1>2 DEF InitOk, Invoke
  <2> HIDE DEF s
  <2>6. CASE ref[s] = 1
    <3>1. /\ ref'[s] = 0 /\ cmem'[s] = "live"
          /\ \A r \in Service \ {s} : ref'[r] = ref[r]
      BY <2>1, <2>3, <2>4, <2>6 DEF TypeOK
    <3>2. /\ sub'[w].fn = "delete" /\ sub'[w].s = s
          /\ \A u \in Thread \ {w} : sub'[u] = sub[u]
      BY <1>0, <2>5, <2>6 DEF TypeOK, Call
    <3>3. \A r \in Service :
             /\ cmem'[r] # "live" => ref'[r] = 0
             /\ cmem'[r] = "none" <=> mem'[r] = "none"
             /\ cmem'[r] = "live" <=> mem'[r] = "live" /\ ~ release'[r]
      BY <2>4, <3>1 DEF Memory
    <3>4. ASSUME NEW u \in Thread \ {w}, sub'[u].fn = "delete"
          PROVE  /\ cmem'[sub'[u].s] = "live"
                 /\ ref'[sub'[u].s] = 0
                 /\ \A v \in Thread : sub'[v].fn = "delete" /\ sub'[v].s = sub'[u].s => v = u
      <4>1. sub[u].fn = "delete" /\ sub[u].s # s /\ sub[u].s \in Service
        BY <2>3, <3>2, <3>4, CallFacts
      <4> QED BY <2>4, <3>1, <3>2, <4>1 DEF Memory
    <3>5. \A v \in Thread : sub'[v].fn = "delete" /\ sub'[v].s = s => v = w
      BY <2>3, <3>2
    <3> QED BY <3>1, <3>2, <3>3, <3>4, <3>5 DEF Memory
  <2>7. CASE ref[s] # 1
    BY <1>0, <2>1, <2>3, <2>4, <2>5, <2>7 DEF Memory, TypeOK
  <2> QED BY <2>6, <2>7
<1>3. CASE SetInit(w)
  BY <1>0, <1>3, MemoryFrame DEF SetInit, qVars
<1>4. CASE Offer(w)
  BY <1>0, <1>4, MemoryFrame DEF Offer, cVars, qVars
<1>5. CASE InitFails(w)
  BY <1>0, <1>5, MemoryFrame DEF InitFails, Call, Invoke, cVars, qVars, TypeOK
<1>6. CASE FailRetire(w)
  BY <1>0, <1>6, MemoryFrame DEF FailRetire, Call, Invoke, cVars, qVars, TypeOK
<1> QED
  BY <1>1, <1>2, <1>3, <1>4, <1>5, <1>6 DEF LaunchStep

\* Only a queue whose context is freed is freed.
LEMMA DropStepMemory ==
  ASSUME TypeOK, Locals, RefCountExact, Memory, QueueInOnePlace, NEW w \in Worker, DropStep(w)
  PROVE  Memory'
<1>0. w \in Thread
  BY DEF Thread
<1>1. CASE MqReleaseGiveBack(w)
  BY <1>0, <1>1, MemoryFrame DEF MqReleaseGiveBack, MqGiveBack, cVars, qVars
<1>2. CASE MqReleaseDrop(w)
  BY <1>0, <1>2, MemoryFrame DEF MqReleaseDrop, MqStartDrop, mqVars, cVars
<1>3. CASE DropMessage(w)
  <2>1. UNCHANGED <<cmem, ref, mem, release>>
    BY <1>3 DEF DropMessage, MqPop, cVars
  <2>2. \/ UNCHANGED sub
        \/ \E d, m : sub' = [sub EXCEPT ![w] = SendCall(d, m)]
    BY <1>3 DEF DropMessage, Invoke
  <2>3. /\ \A u \in Thread \ {w} : sub'[u] = sub[u]
        /\ sub'[w] = sub[w] \/ sub'[w].fn # "delete"
    BY <1>0, <2>2 DEF SendCall, TypeOK
  <2> QED BY <1>0, <2>1, <2>3, MemoryFrame
<1>4. CASE FreeQueue(w)
  <2> DEFINE s == Dropped(w)
  <2>1. s \in Service /\ release[s]
    BY <1>0, <1>4 DEF FreeQueue, Dropped, Locals, TypeOK, Launch
  <2>2. mem[s] = "live"
    BY <1>0, <1>4, <2>1 DEF FreeQueue, Dropped, QueueInOnePlace, Placed, Holds
  <2>3. mem' = [mem EXCEPT ![s] = "freed"] /\ UNCHANGED <<cmem, ref, release, sub>>
    BY <1>4 DEF FreeQueue, MqFree, cVars
  <2> QED BY <2>1, <2>2, <2>3 DEF Memory, TypeOK
<1> QED
  BY <1>1, <1>2, <1>3, <1>4 DEF DropStep

\* A send from outside frees nothing.
LEMMA OutsideSendMemory ==
  ASSUME TypeOK, Memory, NEW t \in Outside, OutsideSend(t)
  PROVE  Memory'
BY MemoryFrame DEF Thread, OutsideSend, Send, SendCall, Invoke, cVars, qVars, TypeOK
-----------------------------------------------------------------------------
(* Every queue in one place.                                               *)

NoDuplicates(seq) == \A i, j \in DOMAIN seq : seq[i] = seq[j] => i = j

\* Pushing a queue that is not listed keeps the list free of duplicates.
LEMMA ListedPush ==
  ASSUME glist \in Seq(Service), NoDuplicates(glist), NEW s \in Service, ~ Listed(s),
         GlobalPush(s)
  PROVE  /\ NoDuplicates(glist')
         /\ \A r \in Service : Listed(r)' <=> Listed(r) \/ r = s
<1>1. /\ Len(glist) \in Nat
      /\ glist' = Append(glist, s)
      /\ DOMAIN glist = 1 .. Len(glist)
      /\ DOMAIN glist' = 1 .. Len(glist) + 1
      /\ glist'[Len(glist) + 1] = s
      /\ \A i \in 1 .. Len(glist) : glist'[i] = glist[i]
  BY DEF GlobalPush
<1>2. NoDuplicates(glist')
  BY <1>1 DEF NoDuplicates, Listed
<1>3. ASSUME NEW r \in Service PROVE Listed(r)' <=> Listed(r) \/ r = s
  BY <1>1 DEF Listed
<1> QED
  BY <1>2, <1>3

\* Popping takes exactly the head off the list.
LEMMA ListedPop ==
  ASSUME glist \in Seq(Service), NoDuplicates(glist), NEW s, GlobalPop(s)
  PROVE  /\ NoDuplicates(glist')
         /\ s \in Service
         /\ Listed(s)
         /\ \A r \in Service : Listed(r)' <=> Listed(r) /\ r # s
<1>1. /\ Len(glist) \in Nat \ {0}
      /\ DOMAIN glist = 1 .. Len(glist)
      /\ DOMAIN glist' = 1 .. Len(glist) - 1
      /\ s = glist[1]
      /\ s \in Service
      /\ \A i \in 1 .. Len(glist) - 1 : glist'[i] = glist[i + 1]
  BY DEF GlobalPop
<1>2. NoDuplicates(glist')
  BY <1>1 DEF NoDuplicates
<1>3. ASSUME NEW r \in Service PROVE Listed(r)' <=> Listed(r) /\ r # s
  <2>1. ASSUME NEW i \in DOMAIN glist', glist'[i] = r
        PROVE  Listed(r) /\ r # s
    BY <1>1, <2>1 DEF Listed, NoDuplicates
  <2>2. ASSUME NEW i \in DOMAIN glist, glist[i] = r, r # s
        PROVE  Listed(r)'
    <3>1. i - 1 \in DOMAIN glist' /\ glist'[i - 1] = r
      BY <1>1, <2>2
    <3> QED BY <3>1 DEF Listed
  <2> QED BY <2>1, <2>2 DEF Listed
<1>4. Listed(s)
  BY <1>1 DEF Listed
<1> QED
  BY <1>1, <1>2, <1>3, <1>4

\* QueueInOnePlace, without the sequence.
Flagged(s) == mem[s] = "live" /\ (in_global[s] \/ release[s])

OnePlace ==
  /\ \A t, u \in Thread, s \in Service : Holds(t, s) /\ Holds(u, s) => t = u
  /\ \A t \in Thread : /\ q[t] = NULL \/ (q[t] # nq[t] /\ q[t] # new[t])
                       /\ nq[t] = NULL \/ nq[t] # new[t]
  /\ \A s \in Service, t \in Thread : ~ (Listed(s) /\ Holds(t, s))
  /\ \A s \in Service : Placed(s) <=> Flagged(s)

\* QueueInOnePlace, split into the list and the rest.
LEMMA QueueInOnePlaceDef == QueueInOnePlace <=> NoDuplicates(glist) /\ OnePlace
BY DEF QueueInOnePlace, NoDuplicates, OnePlace, Flagged

\* The same in the next state.
LEMMA QueueInOnePlaceDefPrime == QueueInOnePlace' <=> NoDuplicates(glist') /\ OnePlace'
BY DEF QueueInOnePlace, NoDuplicates, OnePlace, Flagged

\* What touches no queue keeps every queue in its place.
LEMMA PlaceFrame ==
  ASSUME QueueInOnePlace, UNCHANGED <<glist, q, nq, new, mem, in_global, release>>
  PROVE  QueueInOnePlace'
BY DEF QueueInOnePlace, Placed, Listed, Holds

\* A queue that was nowhere is listed and flagged.
LEMMA PlaceList ==
  ASSUME TypeOK, QueueInOnePlace, NEW s \in Service, ~ Placed(s),
         GlobalPush(s), UNCHANGED <<q, nq, new>>,
         Flagged(s)', \A r \in Service \ {s} : Flagged(r)' <=> Flagged(r)
  PROVE  QueueInOnePlace'
<1>1. NoDuplicates(glist) /\ OnePlace
  BY QueueInOnePlaceDef
<1>2. NoDuplicates(glist') /\ \A r \in Service : Listed(r)' <=> Listed(r) \/ r = s
  BY <1>1, ListedPush DEF TypeOK, Placed
<1>3. OnePlace'
  BY <1>1, <1>2 DEF OnePlace, Placed, Holds
<1> QED
  BY <1>2, <1>3, QueueInOnePlaceDefPrime

\* The head of the global list goes to a local variable of t.
LEMMA PlacePop ==
  ASSUME TypeOK, Locals, QueueInOnePlace, NEW s \in Service, NEW t \in Thread,
         GlobalPop(s), UNCHANGED <<new, mem, in_global, release>>,
         \/ q[t] = NULL /\ q' = [q EXCEPT ![t] = s] /\ UNCHANGED nq
         \/ nq[t] = NULL /\ nq' = [nq EXCEPT ![t] = s] /\ UNCHANGED q
  PROVE  QueueInOnePlace'
<1>1. NoDuplicates(glist) /\ OnePlace
  BY QueueInOnePlaceDef
<1>2. /\ NoDuplicates(glist') /\ Listed(s)
      /\ \A r \in Service : Listed(r)' <=> Listed(r) /\ r # s
  BY <1>1, ListedPop DEF TypeOK
<1>3. \A u \in Thread : q[u] # s /\ nq[u] # s /\ new[u] # s
  BY <1>1, <1>2 DEF OnePlace, Holds
<1>4. \A r \in Service : Flagged(r)' <=> Flagged(r)
  BY DEF Flagged
<1>5. \A u \in Thread, r \in Service : Holds(u, r)' <=> Holds(u, r) \/ (u = t /\ r = s)
  BY NullNotService DEF Holds, TypeOK
<1>6. \A r \in Service : Placed(r)' <=> Placed(r)
  BY <1>2, <1>3, <1>5 DEF Placed, Holds
<1>7. \A u \in Thread : /\ q'[u] = NULL \/ (q'[u] # nq'[u] /\ q'[u] # new'[u])
                        /\ nq'[u] = NULL \/ nq'[u] # new'[u]
  BY <1>1, <1>3, NullNotService DEF OnePlace, TypeOK
<1>8. \A u, v \in Thread, r \in Service : Holds(u, r)' /\ Holds(v, r)' => u = v
  BY <1>1, <1>3, <1>5 DEF OnePlace, Holds
<1>9. \A r \in Service, u \in Thread : ~ (Listed(r)' /\ Holds(u, r)')
  BY <1>1, <1>2, <1>5 DEF OnePlace
<1>10. OnePlace'
  BY <1>1, <1>4, <1>6, <1>7, <1>8, <1>9 DEF OnePlace
<1> QED
  BY <1>2, <1>10, QueueInOnePlaceDefPrime

\* t lists a queue it holds in one variable and lets go of it.
LEMMA PlaceGive ==
  ASSUME TypeOK, QueueInOnePlace, NEW s \in Service, NEW t \in Thread,
         GlobalPush(s), UNCHANGED <<mem, in_global, release>>,
         Holds(t, s),
         \A u \in Thread \ {t} : q'[u] = q[u] /\ nq'[u] = nq[u] /\ new'[u] = new[u],
         \A r \in Service : Holds(t, r)' <=> Holds(t, r) /\ r # s,
         /\ q'[t] = NULL \/ (q'[t] # nq'[t] /\ q'[t] # new'[t])
         /\ nq'[t] = NULL \/ nq'[t] # new'[t]
  PROVE  QueueInOnePlace'
<1>1. NoDuplicates(glist) /\ OnePlace
  BY QueueInOnePlaceDef
<1>2. ~ Listed(s)
  BY <1>1 DEF OnePlace
<1>3. NoDuplicates(glist') /\ \A r \in Service : Listed(r)' <=> Listed(r) \/ r = s
  BY <1>1, <1>2, ListedPush DEF TypeOK
<1>4. \A r \in Service : Flagged(r)' <=> Flagged(r)
  BY DEF Flagged
<1>5. \A u \in Thread, r \in Service : Holds(u, r)' <=> Holds(u, r) /\ r # s
  BY <1>1 DEF OnePlace, Holds
<1>6. \A r \in Service : Placed(r)' <=> Placed(r)
  BY <1>3, <1>5 DEF Placed
<1>7. OnePlace'
  BY <1>1, <1>3, <1>4, <1>5, <1>6 DEF OnePlace
<1> QED
  BY <1>3, <1>7, QueueInOnePlaceDefPrime

\* t lets go of a queue it holds in one variable, and the queue is nowhere.
LEMMA PlaceForget ==
  ASSUME TypeOK, QueueInOnePlace, NEW s \in Service, NEW t \in Thread,
         Holds(t, s), UNCHANGED glist,
         ~ Flagged(s)', \A r \in Service \ {s} : Flagged(r)' <=> Flagged(r),
         \A u \in Thread \ {t} : q'[u] = q[u] /\ nq'[u] = nq[u] /\ new'[u] = new[u],
         \A r \in Service : Holds(t, r)' <=> Holds(t, r) /\ r # s,
         /\ q'[t] = NULL \/ (q'[t] # nq'[t] /\ q'[t] # new'[t])
         /\ nq'[t] = NULL \/ nq'[t] # new'[t]
  PROVE  QueueInOnePlace'
<1>1. NoDuplicates(glist) /\ OnePlace
  BY QueueInOnePlaceDef
<1>2. ~ Listed(s) /\ \A u \in Thread \ {t} : ~ Holds(u, s)
  BY <1>1 DEF OnePlace
<1>3. \A r \in Service : Listed(r)' <=> Listed(r)
  BY DEF Listed
<1>4. \A u \in Thread \ {t}, r \in Service : Holds(u, r)' <=> Holds(u, r)
  BY DEF Holds
<1>5. \A u \in Thread, r \in Service : Holds(u, r)' <=> Holds(u, r) /\ r # s
  BY <1>2, <1>4
<1>6. \A r \in Service : Placed(r)' <=> Placed(r) /\ r # s
  BY <1>2, <1>3, <1>5 DEF Placed
<1>7. \A r \in Service : Placed(r)' <=> Flagged(r)'
  BY <1>1, <1>6 DEF OnePlace
<1>8. \A u \in Thread : /\ q'[u] = NULL \/ (q'[u] # nq'[u] /\ q'[u] # new'[u])
                        /\ nq'[u] = NULL \/ nq'[u] # new'[u]
  BY <1>1 DEF OnePlace
<1>9. OnePlace'
  BY <1>1, <1>3, <1>5, <1>7, <1>8 DEF OnePlace
<1> QED
  BY <1>1, <1>9, QueueInOnePlaceDefPrime

\* A queue that was nowhere is held, flagged, by the thread that created it.
LEMMA PlaceCreate ==
  ASSUME TypeOK, QueueInOnePlace, NEW s \in Service, NEW t \in Thread,
         ~ Placed(s), new[t] = NULL, new' = [new EXCEPT ![t] = s],
         UNCHANGED <<glist, q, nq>>,
         Flagged(s)', \A r \in Service \ {s} : Flagged(r)' <=> Flagged(r)
  PROVE  QueueInOnePlace'
<1>1. NoDuplicates(glist) /\ OnePlace
  BY QueueInOnePlaceDef
<1>2. ~ Listed(s) /\ \A u \in Thread : q[u] # s /\ nq[u] # s /\ new[u] # s
  BY DEF Placed, Holds
<1>3. \A u \in Thread, r \in Service : Holds(u, r)' <=> Holds(u, r) \/ (u = t /\ r = s)
  BY NullNotService DEF Holds, TypeOK
<1>4. \A r \in Service : Listed(r)' <=> Listed(r)
  BY DEF Listed
<1>5. \A r \in Service : Placed(r)' <=> Placed(r) \/ r = s
  BY <1>3, <1>4 DEF Placed
<1>6. \A r \in Service : Placed(r)' <=> Flagged(r)'
  BY <1>1, <1>5 DEF OnePlace
<1>7. \A u \in Thread : /\ q'[u] = NULL \/ (q'[u] # nq'[u] /\ q'[u] # new'[u])
                        /\ nq'[u] = NULL \/ nq'[u] # new'[u]
  BY <1>1, <1>2, NullNotService DEF OnePlace, TypeOK
<1>8. \A u, v \in Thread, r \in Service : Holds(u, r)' /\ Holds(v, r)' => u = v
  BY <1>1, <1>2, <1>3 DEF OnePlace, Holds
<1>9. \A r \in Service, u \in Thread : ~ (Listed(r)' /\ Holds(u, r)')
  BY <1>1, <1>2, <1>3, <1>4 DEF OnePlace
<1>10. OnePlace'
  BY <1>6, <1>7, <1>8, <1>9 DEF OnePlace
<1> QED
  BY <1>1, <1>10, QueueInOnePlaceDefPrime

\* A push or a mark lists a queue only if it is nowhere.
LEMMA CallStepPlace ==
  ASSUME TypeOK, Locals, RefCountExact, Memory, QueueInOnePlace, NEW t \in Thread, CallStep(t)
  PROVE  QueueInOnePlace'
<1>1. CASE Push(t)
  <2>1. PICK s \in Service : s = sub[t].s /\ mem[s] = "live" /\ ~ release[s]
    BY <1>1, CallRefsReferenced DEF Push
  <2>2. /\ in_global' = [in_global EXCEPT ![s] = TRUE]
        /\ UNCHANGED <<mem, release, q, nq, new>>
        /\ IF in_global[s] THEN UNCHANGED glist ELSE GlobalPush(s)
    BY <1>1, <2>1 DEF Push, MqPush, localVars
  <2>3. CASE in_global[s]
    <3>1. in_global' = in_global
      BY <2>1, <2>2, <2>3 DEF TypeOK
    <3> QED BY <2>2, <2>3, <3>1, PlaceFrame
  <2>4. CASE ~ in_global[s]
    <3>1. ~ Placed(s)
      BY <2>1, <2>4 DEF QueueInOnePlace
    <3>2. /\ in_global'[s] = TRUE
          /\ \A r \in Service \ {s} : in_global'[r] = in_global[r]
          /\ mem' = mem /\ release' = release
      BY <2>1, <2>2 DEF TypeOK
    <3>3. Flagged(s)'
      BY <2>1, <3>2 DEF Flagged
    <3>4. \A r \in Service \ {s} : Flagged(r)' <=> Flagged(r)
      BY <3>2 DEF Flagged
    <3> QED BY <2>1, <2>2, <2>4, <3>1, <3>3, <3>4, PlaceList
  <2> QED BY <2>3, <2>4
<1>2. CASE Delete(t)
  <2>1. PICK s \in Service : s = sub[t].s /\ mem[s] = "live" /\ ~ release[s]
    BY <1>2, CallFacts DEF Delete, Memory
  <2>2. /\ release' = [release EXCEPT ![s] = TRUE]
        /\ UNCHANGED <<mem, in_global, q, nq, new>>
        /\ IF in_global[s] THEN UNCHANGED glist ELSE GlobalPush(s)
    BY <1>2, <2>1 DEF Delete, MqMarkRelease, localVars
  <2>a. /\ release'[s] = TRUE
        /\ \A r \in Service \ {s} : release'[r] = release[r]
        /\ mem' = mem /\ in_global' = in_global
    BY <2>1, <2>2 DEF TypeOK
  <2>b. Flagged(s)'
    BY <2>1, <2>a DEF Flagged
  <2>3. \A r \in Service \ {s} : Flagged(r)' <=> Flagged(r)
    BY <2>a DEF Flagged
  <2>4. CASE in_global[s]
    <3>0. Flagged(s)
      BY <2>1, <2>4 DEF Flagged
    <3>1. \A r \in Service : Flagged(r)' <=> Flagged(r)
      BY <2>b, <2>3, <3>0
    <3>2. NoDuplicates(glist) /\ OnePlace
      BY QueueInOnePlaceDef
    <3>3. NoDuplicates(glist') /\ OnePlace'
      BY <2>2, <2>4, <3>1, <3>2 DEF OnePlace, Placed, Listed, Holds
    <3> QED BY <3>3, QueueInOnePlaceDefPrime
  <2>5. CASE ~ in_global[s]
    <3>1. ~ Placed(s)
      BY <2>1, <2>5 DEF QueueInOnePlace
    <3> QED BY <2>1, <2>2, <2>b, <2>3, <2>5, <3>1, PlaceList
  <2> QED BY <2>4, <2>5
<1>3. CASE Grab(t) \/ GrabFails(t) \/ Release(t) \/ Retire(t)
  BY <1>3, PlaceFrame DEF Grab, GrabFails, Release, Retire, qVars, localVars
<1> QED
  BY <1>1, <1>2, <1>3 DEF CallStep

\* The dispatch loop moves queues between the list and its locals.
LEMMA BatchStepPlace ==
  ASSUME TypeOK, Locals, RefCountExact, Memory, QueueInOnePlace, NEW w \in Worker, BatchStep(w)
  PROVE  QueueInOnePlace'
<1>0. w \in Thread
  BY DEF Thread
<1>1. CASE Take(w)
  BY <1>0, <1>1, PlacePop DEF Take, qVars
<1>2. CASE TakeNext(w)
  <2>1. CASE glist = <<>>
    BY <1>2, <2>1, PlaceFrame DEF TakeNext, qVars
  <2>2. CASE glist # <<>>
    <3>1. q[w] = NULL
      BY <1>0, <1>2 DEF TakeNext, Ready, Locals
    <3>2. PICK s \in Service : GlobalPop(s) /\ q' = [q EXCEPT ![w] = s]
      BY <1>2, <2>2 DEF TakeNext
    <3> QED BY <1>0, <1>2, <3>1, <3>2, PlacePop DEF TakeNext, qVars
  <2> QED BY <2>1, <2>2
<1>3. CASE EndBatch(w)
  <2>1. CASE glist = <<>>
    BY <1>3, <2>1, PlaceFrame DEF EndBatch, qVars
  <2>2. CASE glist # <<>>
    <3>1. nq[w] = NULL
      BY <1>0, <1>3 DEF EndBatch, Ready, Locals
    <3>2. PICK s \in Service : GlobalPop(s) /\ nq' = [nq EXCEPT ![w] = s]
      BY <1>3, <2>2 DEF EndBatch
    <3> QED BY <1>0, <1>3, <3>1, <3>2, PlacePop DEF EndBatch, qVars
  <2> QED BY <2>1, <2>2
<1>4. CASE PopEmpty(w)
  <2>1. PICK s \in Service : s = q[w] /\ mem[s] = "live" /\ ~ release[s]
    <3>1. q[w] \in Service
      BY <1>0, <1>4 DEF PopEmpty, Locals, InLoop, TypeOK
    <3>2. OwnRefs(w, q[w]) > 0
      BY <1>0, <1>4 DEF PopEmpty, OwnRefs, InLoop
    <3> QED BY <1>0, <3>1, <3>2, Referenced
  <2>2. /\ in_global' = [in_global EXCEPT ![s] = FALSE]
        /\ q' = [q EXCEPT ![w] = NULL]
        /\ UNCHANGED <<glist, mem, release, nq, new>>
    BY <1>4, <2>1 DEF PopEmpty, MqPopEmpty
  <2>3. q[w] = s /\ nq[w] # s /\ new[w] # s
    BY <1>0, <2>1, NullNotService DEF QueueInOnePlace
  <2>4. /\ in_global'[s] = FALSE
        /\ \A r \in Service \ {s} : in_global'[r] = in_global[r]
        /\ mem' = mem /\ release' = release
    BY <2>1, <2>2 DEF TypeOK
  <2>5. ~ Flagged(s)' /\ \A r \in Service \ {s} : Flagged(r)' <=> Flagged(r)
    BY <2>1, <2>4 DEF Flagged
  <2>6. \A r \in Service : Holds(w, r)' <=> Holds(w, r) /\ r # s
    BY <1>0, <2>2, <2>3, NullNotService DEF Holds, TypeOK
  <2>7. /\ \A u \in Thread \ {w} : q'[u] = q[u] /\ nq'[u] = nq[u] /\ new'[u] = new[u]
        /\ q'[w] = NULL
        /\ nq'[w] = NULL \/ nq'[w] # new'[w]
    BY <1>0, <2>2 DEF TypeOK, QueueInOnePlace
  <2>8. Holds(w, s)
    BY <2>3 DEF Holds
  <2> QED BY <1>0, <2>1, <2>2, <2>5, <2>6, <2>7, <2>8, PlaceForget
<1>5. CASE PushBack(w)
  <2>1. q[w] \in Service /\ nq[w] \in Service /\ new[w] = NULL /\ q[w] # nq[w]
    BY <1>0, <1>5 DEF PushBack, Ready, Locals, InLoop, Launch, TypeOK, QueueInOnePlace
  <2>2. /\ GlobalPush(q[w])
        /\ q' = [q EXCEPT ![w] = nq[w]]
        /\ nq' = [nq EXCEPT ![w] = NULL]
        /\ UNCHANGED <<mem, in_global, release, new>>
    BY <1>5 DEF PushBack, qVars
  <2>3. \A r \in Service : Holds(w, r)' <=> Holds(w, r) /\ r # q[w]
    BY <1>0, <2>1, <2>2, NullNotService DEF Holds, TypeOK
  <2>4. /\ q'[w] = NULL \/ (q'[w] # nq'[w] /\ q'[w] # new'[w])
        /\ nq'[w] = NULL \/ nq'[w] # new'[w]
    BY <1>0, <2>1, <2>2, NullNotService DEF TypeOK
  <2>5. Holds(w, q[w])
    BY DEF Holds
  <2>6. \A u \in Thread \ {w} : q'[u] = q[u] /\ nq'[u] = nq[u] /\ new'[u] = new[u]
    BY <1>0, <2>2 DEF TypeOK
  <2> QED BY <1>0, <2>1, <2>2, <2>3, <2>4, <2>5, <2>6, PlaceGive
<1>6. CASE GrabQueueOwner(w) \/ PopMessage(w) \/ Length(w)
  BY <1>6, PlaceFrame DEF GrabQueueOwner, PopMessage, MqPop, Length, qVars
<1> QED
  BY <1>1, <1>2, <1>3, <1>4, <1>5, <1>6 DEF BatchStep

\* A new queue is held by its creator.
LEMMA CallbackStepPlace ==
  ASSUME TypeOK, Locals, Memory, QueueInOnePlace, NEW w \in Worker, CallbackStep(w)
  PROVE  QueueInOnePlace'
<1>0. w \in Thread
  BY DEF Thread
<1>1. CASE CbLaunch(w)
  <2>1. PICK s \in Service \ Known : MqCreate(s) /\ new' = [new EXCEPT ![w] = s]
    BY <1>1 DEF CbLaunch
  <2>2. mem[s] = "none"
    BY <2>1 DEF Known
  <2>3. ~ Placed(s)
    BY <2>1, <2>2 DEF QueueInOnePlace
  <2>4. new[w] = NULL
    BY <1>0, <1>1 DEF CbLaunch, Ready, Locals, Launch
  <2>5. /\ mem'[s] = "live" /\ in_global'[s] = TRUE
        /\ \A r \in Service \ {s} :
             mem'[r] = mem[r] /\ in_global'[r] = in_global[r] /\ release'[r] = release[r]
    BY <2>1 DEF MqCreate, TypeOK
  <2>6. Flagged(s)' /\ \A r \in Service \ {s} : Flagged(r)' <=> Flagged(r)
    BY <2>5 DEF Flagged
  <2>7. UNCHANGED <<glist, q, nq>>
    BY <1>1, <2>1 DEF CbLaunch, MqCreate
  <2> QED BY <1>0, <2>1, <2>3, <2>4, <2>6, <2>7, PlaceCreate
<1>2. CASE CbSend(w) \/ CbRetire(w) \/ CbReturn(w)
  BY <1>2, PlaceFrame DEF CbSend, CbRetire, CbReturn, qVars
<1> QED
  BY <1>1, <1>2 DEF CallbackStep

\* The creator offers the queue it holds.
LEMMA LaunchStepPlace ==
  ASSUME TypeOK, Locals, QueueInOnePlace, NEW w \in Worker, LaunchStep(w)
  PROVE  QueueInOnePlace'
<1>0. w \in Thread
  BY DEF Thread
<1>1. CASE Offer(w)
  <2>1. PICK s \in Service : s = new[w]
    BY <1>0, <1>1 DEF Offer, Ready, Locals, Launch, TypeOK
  <2>2. GlobalPush(s) /\ new' = [new EXCEPT ![w] = NULL]
        /\ UNCHANGED <<mem, in_global, release, q, nq>>
    BY <1>1, <2>1 DEF Offer, qVars
  <2>3. new[w] = s /\ q[w] # s /\ nq[w] = NULL
    BY <1>0, <1>1, <2>1, NullNotService DEF Offer, Ready, Locals, QueueInOnePlace
  <2>4. \A r \in Service : Holds(w, r)' <=> Holds(w, r) /\ r # s
    BY <1>0, <2>1, <2>2, <2>3, NullNotService DEF Holds, TypeOK
  <2>5. /\ \A u \in Thread \ {w} : q'[u] = q[u] /\ nq'[u] = nq[u] /\ new'[u] = new[u]
        /\ nq'[w] = NULL /\ new'[w] = NULL /\ q'[w] = q[w]
    BY <1>0, <2>2, <2>3 DEF TypeOK
  <2>6. Holds(w, s)
    BY <2>3 DEF Holds
  <2> QED BY <1>0, <2>1, <2>2, <2>4, <2>5, <2>6, PlaceGive
<1>2. CASE InitSend(w) \/ InitOk(w) \/ SetInit(w) \/ InitFails(w) \/ FailRetire(w)
  BY <1>2, PlaceFrame DEF InitSend, InitOk, SetInit, InitFails, FailRetire, qVars, localVars
<1> QED
  BY <1>1, <1>2 DEF LaunchStep

\* mtask_mq_release gives a queue back or frees it.
LEMMA DropStepPlace ==
  ASSUME TypeOK, Locals, QueueInOnePlace, NEW w \in Worker, DropStep(w)
  PROVE  QueueInOnePlace'
<1>0. w \in Thread
  BY DEF Thread
<1>1. CASE MqReleaseGiveBack(w)
  <2>1. CASE pc[w] = "mq_release"
    <3>1. PICK s \in Service : s = q[w]
      BY <1>0, <2>1 DEF Locals, TypeOK
    <3>2. /\ GlobalPush(s) /\ q' = [q EXCEPT ![w] = NULL]
          /\ UNCHANGED <<mem, in_global, release, nq, new>>
      BY <1>1, <2>1, <3>1 DEF MqReleaseGiveBack, MqGiveBack, qVars
    <3>3. q[w] = s /\ new[w] = NULL /\ nq[w] = NULL
      BY <1>0, <2>1, <3>1 DEF Locals, Launch
    <3>4. \A r \in Service : Holds(w, r)' <=> Holds(w, r) /\ r # s
      BY <1>0, <3>2, <3>3, NullNotService DEF Holds, TypeOK
    <3>5. /\ \A u \in Thread \ {w} : q'[u] = q[u] /\ nq'[u] = nq[u] /\ new'[u] = new[u]
          /\ nq'[w] = NULL /\ q'[w] = NULL
      BY <1>0, <3>2, <3>3 DEF TypeOK
    <3>6. Holds(w, s)
      BY <3>3 DEF Holds
    <3> QED BY <1>0, <3>1, <3>2, <3>4, <3>5, <3>6, PlaceGive
  <2>2. CASE pc[w] = "new_mq_release"
    <3>1. PICK s \in Service : s = new[w]
      BY <1>0, <2>2 DEF Locals, Launch, TypeOK
    <3>2. /\ GlobalPush(s) /\ new' = [new EXCEPT ![w] = NULL]
          /\ UNCHANGED <<mem, in_global, release, nq, q>>
      BY <1>1, <2>2, <3>1 DEF MqReleaseGiveBack, MqGiveBack, qVars
    <3>3. new[w] = s /\ q[w] # s /\ nq[w] = NULL
      BY <1>0, <2>2, <3>1, NullNotService DEF Locals, QueueInOnePlace
    <3>4. \A r \in Service : Holds(w, r)' <=> Holds(w, r) /\ r # s
      BY <1>0, <3>2, <3>3, NullNotService DEF Holds, TypeOK
    <3>5. /\ \A u \in Thread \ {w} : q'[u] = q[u] /\ nq'[u] = nq[u] /\ new'[u] = new[u]
          /\ nq'[w] = NULL /\ new'[w] = NULL
      BY <1>0, <3>2, <3>3 DEF TypeOK
    <3>6. Holds(w, s) /\ (q'[w] = NULL \/ q'[w] # NULL)
      BY <3>3 DEF Holds
    <3> QED BY <1>0, <3>1, <3>2, <3>4, <3>5, <3>6, PlaceGive
  <2> QED BY <1>1, <2>1, <2>2 DEF MqReleaseGiveBack
<1>2. CASE FreeQueue(w)
  <2>1. PICK s \in Service : s = Dropped(w)
    BY <1>0, <1>2 DEF FreeQueue, Dropped, Locals, Launch, TypeOK
  <2>2. /\ mem' = [mem EXCEPT ![s] = "freed"]
        /\ in_global' = [in_global EXCEPT ![s] = FALSE]
        /\ UNCHANGED <<release, glist, nq>>
        /\ \/ q[w] = s /\ q' = [q EXCEPT ![w] = NULL] /\ UNCHANGED new
           \/ new[w] = s /\ new' = [new EXCEPT ![w] = NULL] /\ UNCHANGED q
    BY <1>2, <2>1 DEF FreeQueue, MqFree, Dropped
  <2>3. nq[w] = NULL
    BY <1>0, <1>2 DEF FreeQueue, Locals
  <2>4. /\ mem'[s] = "freed"
        /\ \A r \in Service \ {s} : mem'[r] = mem[r] /\ in_global'[r] = in_global[r]
        /\ release' = release
    BY <2>1, <2>2 DEF TypeOK
  <2>5. ~ Flagged(s)' /\ \A r \in Service \ {s} : Flagged(r)' <=> Flagged(r)
    BY <2>1, <2>4 DEF Flagged
  <2>6. q[w] # new[w] \/ q[w] = NULL
    BY <1>0 DEF QueueInOnePlace
  <2>7. \A r \in Service : Holds(w, r)' <=> Holds(w, r) /\ r # s
    BY <1>0, <2>2, <2>3, <2>6, NullNotService DEF Holds, TypeOK
  <2>8. /\ \A u \in Thread \ {w} : q'[u] = q[u] /\ nq'[u] = nq[u] /\ new'[u] = new[u]
        /\ nq'[w] = NULL /\ (q'[w] = NULL \/ (q'[w] # NULL /\ new'[w] = NULL))
    BY <1>0, <2>2, <2>3, <2>1, <1>2 DEF TypeOK
  <2>9. Holds(w, s)
    BY <2>2 DEF Holds
  <2> QED BY <1>0, <2>1, <2>2, <2>5, <2>7, <2>8, <2>9, PlaceForget
<1>3. CASE MqReleaseDrop(w) \/ DropMessage(w)
  BY <1>3, PlaceFrame DEF MqReleaseDrop, MqStartDrop, mqVars, DropMessage, MqPop, localVars
<1> QED
  BY <1>1, <1>2, <1>3 DEF DropStep

\* A send from outside moves no queue.
LEMMA OutsideSendPlace ==
  ASSUME QueueInOnePlace, NEW t \in Outside, OutsideSend(t)
  PROVE  QueueInOnePlace'
BY PlaceFrame DEF OutsideSend, qVars, localVars
-----------------------------------------------------------------------------
(* Launches come to their end before anybody dispatches.                   *)

\* Runtime calls retire services and never register one.
LEMMA CallStepInitDone ==
  ASSUME TypeOK, InitDone, NEW t \in Thread, CallStep(t)
  PROVE  InitDone'
<1>1. UNCHANGED <<inited, pc, q, new>> /\ registered' \subseteq registered
  BY DEF CallStep, Grab, GrabFails, Push, Release, Delete, Retire, cVars, localVars
<1>2. \A u \in Thread \ {t} : sub'[u] = sub[u]
  BY DEF CallStep, Grab, GrabFails, Push, Release, Delete, Retire, Invoke, Return, TypeOK
<1>3. sub'[t].fn # "retire"
  BY DEF CallStep, Grab, GrabFails, Push, Release, Delete, Retire, Invoke, Return,
         Call, NoSub, TypeOK
<1>4. sub[t].fn = "retire" => sub[t].s \notin registered'
  BY DEF CallStep, Grab, GrabFails, Push, Release, Delete, Retire
<1> QED
  BY <1>1, <1>2, <1>3, <1>4 DEF InitDone

\* A worker that grabs a context for a queue it took finds it initialised.
LEMMA BatchStepInitDone ==
  ASSUME TypeOK, Locals, QueueInOnePlace, InitDone, NEW w \in Worker, BatchStep(w)
  PROVE  InitDone'
<1>0. w \in Thread
  BY DEF Thread
<1>1. UNCHANGED <<inited, registered, new>>
  BY DEF BatchStep, Take, GrabQueueOwner, PopEmpty, PopMessage, Length, EndBatch, PushBack,
         TakeNext, cVars
<1>2. /\ \A t \in Thread \ {w} : pc'[t] = pc[t] /\ q'[t] = q[t] /\ sub'[t] = sub[t]
      /\ pc'[w] \in InLoop \cup {"idle", "mq_release", "next"}
  BY <1>0 DEF BatchStep, Take, GrabQueueOwner, PopEmpty, PopMessage, Length, EndBatch, PushBack,
         TakeNext, TypeOK, Goto, Invoke, InLoop, Ready
<1>3. pc'[w] \in InLoop => inited[q'[w]]
  <2>1. CASE GrabQueueOwner(w)
    <3>1. CASE q[w] \in registered
      <4>1. q[w] \in Service /\ \A t \in Thread : new[t] # q[w]
        <5>1. q[w] \in Service /\ q[w] # new[w]
          BY <1>0, <3>1, NullNotService DEF TypeOK, QueueInOnePlace
        <5>2. \A t \in Thread : new[t] = q[w] => t = w
          BY <1>0, <5>1 DEF QueueInOnePlace, Holds
        <5> QED BY <5>1, <5>2
      <4> QED BY <1>0, <2>1, <3>1, <4>1 DEF GrabQueueOwner, InitDone
    <3>2. CASE q[w] \notin registered
      BY <1>0, <2>1, <3>2 DEF GrabQueueOwner, Goto, InLoop, TypeOK
    <3> QED BY <3>1, <3>2
  <2>2. CASE PopEmpty(w) \/ TakeNext(w) \/ PushBack(w) \/ Take(w)
    BY <1>0, <2>2 DEF PopEmpty, TakeNext, PushBack, Take, Ready, Goto, InLoop, TypeOK
  <2>3. CASE PopMessage(w) \/ Length(w) \/ EndBatch(w)
    BY <1>0, <2>3 DEF PopMessage, Length, EndBatch, Ready, InLoop, InitDone
  <2> QED BY <2>1, <2>2, <2>3 DEF BatchStep
<1> QED
  BY <1>0, <1>1, <1>2, <1>3 DEF InitDone, InLoop, Launch

\* A new service is uninitialised, and nobody dispatches it.
LEMMA CallbackStepInitDone ==
  ASSUME TypeOK, Locals, QueueInOnePlace, InitDone, NEW w \in Worker, CallbackStep(w)
  PROVE  InitDone'
<1>0. w \in Thread
  BY DEF Thread
<1>1. CASE CbLaunch(w)
  <2>1. PICK s \in Service \ Known :
          /\ inited' = [inited EXCEPT ![s] = FALSE]
          /\ registered' = registered \cup {s}
          /\ new' = [new EXCEPT ![w] = s]
    BY <1>1 DEF CbLaunch
  <2>2. \A t \in Thread : q[t] # s /\ new[t] # s
    BY <2>1 DEF Known, QueueInOnePlace, Placed, Holds
  <2>3. pc[w] = "cb" /\ pc' = [pc EXCEPT ![w] = "init"] /\ UNCHANGED <<q, sub>>
    BY <1>1 DEF CbLaunch, Ready, Goto
  <2>4. new[w] = NULL
    BY <1>0, <2>3 DEF Locals, Launch
  <2>5. \A r \in Service \ {s} : inited'[r] = inited[r]
    BY <2>1 DEF TypeOK
  <2>6. ASSUME NEW r \in Service, r \in registered', \A t \in Thread : new'[t] # r
        PROVE  inited'[r]
    <3>1. r # s /\ r \in registered
      BY <1>0, <2>1, <2>6 DEF TypeOK
    <3>2. \A t \in Thread : new[t] # r
      BY <1>0, <2>1, <2>4, <2>6, NullNotService DEF TypeOK
    <3> QED BY <2>5, <3>1, <3>2 DEF InitDone
  <2>7. ASSUME NEW t \in Thread, pc'[t] \in InLoop \cup Launch
        PROVE  inited'[q'[t]]
    <3>1. pc[t] \in InLoop \cup Launch /\ q[t] \in Service
      BY <1>0, <2>3, <2>7 DEF InLoop, Locals, TypeOK
    <3> QED BY <2>2, <2>3, <2>5, <3>1 DEF InitDone
  <2>8. ASSUME NEW t \in Thread, pc'[t] \in {"offer", "new_mq_release", "new_drop"}
        PROVE  /\ pc'[t] = pc[t] /\ new'[t] = new[t] /\ sub'[t] = sub[t]
               /\ new[t] \in Service /\ new[t] # s
    BY <1>0, <2>1, <2>2, <2>3, <2>8 DEF Locals, Launch, TypeOK
  <2> QED BY <2>1, <2>5, <2>6, <2>7, <2>8 DEF InitDone
<1>2. CASE CbSend(w) \/ CbRetire(w)
  <2>1. UNCHANGED <<inited, registered, pc, q, new>> /\ pc[w] = "cb"
    BY <1>2 DEF CbSend, CbRetire, Ready, cVars
  <2>2. \A t \in Thread \ {w} : sub'[t] = sub[t]
    BY <1>2 DEF CbSend, CbRetire, Send, Invoke, TypeOK
  <2> QED BY <2>1, <2>2 DEF InitDone
<1>3. CASE CbReturn(w)
  BY <1>0, <1>3 DEF CbReturn, Ready, Goto, cVars, InitDone, InLoop, Launch, TypeOK
<1> QED
  BY <1>1, <1>2, <1>3 DEF CallbackStep

\* A queue is offered initialised, or after its service was retired.
LEMMA LaunchStepInitDone ==
  ASSUME TypeOK, Locals, RefCountExact, QueueInOnePlace, InitDone,
         NEW w \in Worker, LaunchStep(w)
  PROVE  InitDone'
<1>0. w \in Thread
  BY DEF Thread
<1>1. CASE InitSend(w)
  <2>1. UNCHANGED <<inited, registered, pc, q, new>> /\ pc[w] = "init"
    BY <1>1 DEF InitSend, Ready, cVars, localVars
  <2>2. \A t \in Thread \ {w} : sub'[t] = sub[t]
    BY <1>1 DEF InitSend, Send, Invoke, TypeOK
  <2> QED BY <2>1, <2>2 DEF InitDone
<1>2. CASE InitOk(w)
  <2>1. new[w] \in Service
    BY <1>0, <1>2 DEF InitOk, Ready, Locals, Launch, TypeOK
  <2>2. ref[new[w]] = 1 => new[w] \notin registered
    <3>1. OwnRefs(w, new[w]) \in Nat \ {0}
      BY <1>0, <1>2 DEF InitOk, Ready, OwnRefs
    <3>2. OwnRefs(w, new[w]) + TableRef(new[w]) <= ref[new[w]]
      BY <1>0, <2>1, RefsCounted
    <3> QED BY <3>1, <3>2 DEF TableRef
  <2>3. UNCHANGED <<inited, registered, q, new>> /\ pc[w] = "init"
    BY <1>2 DEF InitOk, Ready, localVars
  <2>4. \/ pc' = [pc EXCEPT ![w] = "offer"] /\ new[w] \notin registered
        \/ pc' = [pc EXCEPT ![w] = "set_init"]
    BY <1>2, <2>2 DEF InitOk, Goto
  <2>5. \A t \in Thread \ {w} : sub'[t] = sub[t]
    BY <1>2 DEF InitOk, Invoke, TypeOK
  <2>6. /\ \A t \in Thread \ {w} : pc'[t] = pc[t]
        /\ pc'[w] \in {"offer", "set_init"}
        /\ pc'[w] = "offer" => new[w] \notin registered
    BY <1>0, <2>4 DEF TypeOK
  <2> QED BY <2>3, <2>5, <2>6 DEF InitDone, InLoop, Launch
<1>3. CASE SetInit(w)
  <2>1. PICK s \in Service : s = new[w]
    BY <1>0, <1>3 DEF SetInit, Ready, Locals, Launch, TypeOK
  <2>2. inited'[s] = TRUE /\ \A r \in Service \ {s} : inited'[r] = inited[r]
    BY <1>3, <2>1 DEF SetInit, TypeOK
  <2>3. UNCHANGED <<registered, q, new, sub>> /\ pc[w] = "set_init"
        /\ \A t \in Thread \ {w} : pc'[t] = pc[t]
    BY <1>3 DEF SetInit, Ready, Goto, localVars, TypeOK
  <2>4. pc'[w] = "offer"
    BY <1>0, <1>3 DEF SetInit, Goto, TypeOK
  <2>5. \A t \in Thread : /\ pc[t] \in InLoop \cup Launch => q[t] \in Service
                          /\ pc[t] \in Launch => new[t] \in Service
    BY DEF Locals, TypeOK
  <2>6. \A r \in Service : inited[r] => inited'[r]
    BY <2>2
  <2> QED BY <2>1, <2>2, <2>3, <2>4, <2>5, <2>6 DEF InitDone, InLoop, Launch
<1>4. CASE Offer(w)
  <2>1. UNCHANGED <<inited, registered, q, sub>> /\ pc[w] = "offer"
    BY <1>4 DEF Offer, Ready, cVars
  <2>2. /\ pc'[w] = "cb" /\ new'[w] = NULL
        /\ \A t \in Thread \ {w} : pc'[t] = pc[t] /\ new'[t] = new[t]
    BY <1>0, <1>4 DEF Offer, Goto, TypeOK
  <2>3. \A r \in Service : r \in registered /\ (\A t \in Thread : new'[t] # r) => inited[r]
    BY <2>1, <2>2 DEF InitDone
  <2> QED BY <1>0, <2>1, <2>2, <2>3 DEF InitDone, InLoop, Launch
<1>5. CASE InitFails(w)
  <2>1. UNCHANGED <<inited, registered, q, new>> /\ pc[w] = "init"
    BY <1>5 DEF InitFails, Ready, cVars, localVars
  <2>2. /\ pc'[w] = "fail_retire"
        /\ \A t \in Thread \ {w} : pc'[t] = pc[t] /\ sub'[t] = sub[t]
    BY <1>0, <1>5 DEF InitFails, Invoke, Goto, TypeOK
  <2> QED BY <2>1, <2>2 DEF InitDone, InLoop, Launch
<1>6. CASE FailRetire(w)
  <2>1. UNCHANGED <<inited, registered, q, new>> /\ pc[w] = "fail_retire"
    BY <1>6 DEF FailRetire, Ready, cVars, localVars
  <2>2. /\ pc'[w] = "new_mq_release" /\ sub'[w].fn = "retire" /\ sub'[w].s = new[w]
        /\ \A t \in Thread \ {w} : pc'[t] = pc[t] /\ sub'[t] = sub[t]
    BY <1>0, <1>6 DEF FailRetire, Invoke, Call, Goto, TypeOK
  <2> QED BY <2>1, <2>2 DEF InitDone, InLoop, Launch
<1> QED
  BY <1>1, <1>2, <1>3, <1>4, <1>5, <1>6 DEF LaunchStep

\* A failed launch leaves no registered service behind.
LEMMA DropStepInitDone ==
  ASSUME TypeOK, Locals, InitDone, NEW w \in Worker, DropStep(w)
  PROVE  InitDone'
<1>0. w \in Thread
  BY DEF Thread
<1>1. UNCHANGED <<inited, registered>>
  BY DEF DropStep, MqReleaseGiveBack, MqReleaseDrop, DropMessage, FreeQueue, cVars
<1>2. \A t \in Thread \ {w} : pc'[t] = pc[t] /\ q'[t] = q[t] /\ new'[t] = new[t] /\ sub'[t] = sub[t]
  BY DEF DropStep, MqReleaseGiveBack, MqReleaseDrop, DropMessage, FreeQueue, Goto, Invoke,
         localVars, TypeOK
<1>3. CASE MqReleaseGiveBack(w) \/ FreeQueue(w)
  <2>1. \/ /\ pc[w] \in {"new_mq_release", "new_drop"}
           /\ sub[w].fn = "none"
           /\ pc'[w] = "cb"
           /\ new'[w] = NULL
           /\ q'[w] = q[w]
        \/ /\ pc'[w] = "next"
           /\ new'[w] = new[w]
    <3>1. CASE MqReleaseGiveBack(w)
      BY <1>0, <3>1 DEF MqReleaseGiveBack, Goto, TypeOK
    <3>2. CASE FreeQueue(w)
      BY <1>0, <3>2 DEF FreeQueue, Goto, TypeOK
    <3> QED BY <1>3, <3>1, <3>2
  <2>2. \A r \in Service : r \in registered /\ (\A t \in Thread : new'[t] # r) => inited[r]
    BY <1>0, <1>2, <2>1 DEF InitDone
  <2> QED BY <1>0, <1>1, <1>2, <2>1, <2>2 DEF InitDone, InLoop, Launch
<1>4. CASE MqReleaseDrop(w)
  <2>1. UNCHANGED <<q, new, sub>> /\ sub[w].fn = "none"
    BY <1>4 DEF MqReleaseDrop, localVars
  <2>2. \/ pc'[w] = "drop"
        \/ pc[w] = "new_mq_release" /\ pc'[w] = "new_drop"
    BY <1>0, <1>4 DEF MqReleaseDrop, Goto, TypeOK
  <2> QED BY <1>0, <1>1, <1>2, <2>1, <2>2 DEF InitDone, InLoop, Launch
<1>5. CASE DropMessage(w)
  <2>1. UNCHANGED <<pc, q, new>> /\ pc[w] \in {"drop", "new_drop"}
    BY <1>5 DEF DropMessage, localVars
  <2> QED BY <1>1, <1>2, <2>1 DEF InitDone
<1> QED
  BY <1>3, <1>4, <1>5 DEF DropStep

\* A send from outside launches nothing.
LEMMA OutsideSendInitDone ==
  ASSUME TypeOK, InitDone, NEW t \in Outside, OutsideSend(t)
  PROVE  InitDone'
<1>1. UNCHANGED <<inited, registered, pc, q, new>> /\ pc[t] = "idle"
  BY DEF OutsideSend, Ready, cVars, localVars
<1>2. \A u \in Thread \ {t} : sub'[u] = sub[u]
  BY DEF OutsideSend, Send, Invoke, TypeOK
<1> QED
  BY <1>1, <1>2 DEF InitDone
-----------------------------------------------------------------------------
(* The inductive invariant.                                                *)

\* The invariant holds when the workers start.
LEMMA InitIInv == Init => IInv
<1> SUFFICES ASSUME Init PROVE IInv
  OBVIOUS
<1>1. PICK order \in [1 .. Cardinality(Boot) -> Boot] :
        /\ \A i, j \in DOMAIN order : order[i] = order[j] => i = j
        /\ \A s \in Boot : \E i \in DOMAIN order : order[i] = s
        /\ glist = order
  BY DEF Init
<1>2. Cardinality(Boot) \in Nat
  BY DispatchAssumption, FS_CardinalityType
<1>3. glist \in Seq(Service)
  BY <1>1, <1>2, DispatchAssumption
<1>4. TypeOK
  <2>1. NoSub \in CallType
    BY DEF NoSub, CallType
  <2>2. \A s \in Service : <<>> \in Seq(Message)
    OBVIOUS
  <2> QED BY <1>3, <2>1, <2>2, DispatchAssumption DEF Init, TypeOK, Outer, Fate
<1>5. Locals
  BY DEF Init, Locals, InLoop, Launch
<1>6. RefCountExact
  <2>1. ASSUME NEW s \in Service
        PROVE  LoopRefs(s) = {} /\ CallRefs(s) = {} /\ NewRefs(s) = {}
    BY DEF Init, LoopRefs, CallRefs, NewRefs, InLoop, Launch, NoSub
  <2>2. Cardinality({}) = 0
    BY FS_EmptySet
  <2>3. \A s \in Service : ref[s] = TableRef(s)
    BY DEF Init, TableRef
  <2>4. \A s \in Service : TableRef(s) \in Nat
    BY DEF TableRef
  <2>5. ASSUME NEW s \in Service
        PROVE  ref[s] = Cardinality(LoopRefs(s)) + Cardinality(CallRefs(s))
                          + Cardinality(NewRefs(s)) + TableRef(s)
    <3>1. /\ Cardinality(LoopRefs(s)) = 0
          /\ Cardinality(CallRefs(s)) = 0
          /\ Cardinality(NewRefs(s)) = 0
      BY <2>1, <2>2
    <3> QED BY <2>3, <2>4, <3>1
  <2> QED BY <2>5 DEF RefCountExact
<1>7. Memory
  BY DEF Init, Memory, NoSub
<1>8. QueueInOnePlace
  <2>1. \A s \in Service : Listed(s) <=> s \in Boot
    BY <1>1 DEF Listed
  <2>2. \A t \in Thread, s \in Service : ~ Holds(t, s)
    BY NullNotService DEF Init, Holds
  <2>3. \A s \in Service : Placed(s) <=> mem[s] = "live" /\ (in_global[s] \/ release[s])
    BY <2>1, <2>2 DEF Init, Placed
  <2>4. \A t \in Thread : q[t] = NULL /\ nq[t] = NULL
    BY DEF Init
  <2> QED BY <1>1, <2>2, <2>3, <2>4 DEF QueueInOnePlace
<1>9. InitDone
  BY DEF Init, InitDone, InLoop, Launch
<1> QED
  BY <1>4, <1>5, <1>6, <1>7, <1>8, <1>9 DEF IInv

\* Each call step of a thread keeps the invariant.
LEMMA CallStepIInv ==
  ASSUME IInv, NEW t \in Thread, CallStep(t)
  PROVE  IInv'
<1> USE DEF IInv
<1>1. sub[t].fn = "release" => ref[sub[t].s] > 0
  BY CallRefsReferenced
<1>2. TypeOK'
  BY <1>1, CallStepType
<1> QED
  BY <1>2, CallStepRefs, RefCountStep, CallStepLocals, CallStepMemory, CallStepPlace,
     CallStepInitDone

\* Each step of a worker's main routine keeps the invariant.
LEMMA WorkerStepIInv ==
  ASSUME IInv, NEW w \in Worker, WorkerStep(w)
  PROVE  IInv'
<1>0. w \in Thread
  BY DEF Thread
<1> USE DEF IInv
<1>1. CASE BatchStep(w)
  BY <1>0, <1>1, BatchStepType, BatchStepRefs, RefCountStep, BatchStepLocals,
     BatchStepMemory, BatchStepPlace, BatchStepInitDone
<1>2. CASE CallbackStep(w)
  BY <1>0, <1>2, CallbackStepType, CallbackStepRefs, RefCountStep, CallbackStepLocals,
     CallbackStepMemory, CallbackStepPlace, CallbackStepInitDone
<1>3. CASE LaunchStep(w)
  <2>1. pc[w] = "init" => ref[new[w]] > 0
    <3>1. pc[w] = "init" => new[w] \in Service /\ OwnRefs(w, new[w]) > 0
      BY <1>0 DEF OwnRefs, Locals, Launch, TypeOK
    <3> QED BY <1>0, <3>1, Referenced
  <2>2. TypeOK'
    BY <1>3, <2>1, LaunchStepType
  <2> QED
    BY <1>0, <1>3, <2>2, LaunchStepRefs, RefCountStep, LaunchStepLocals,
       LaunchStepMemory, LaunchStepPlace, LaunchStepInitDone
<1>4. CASE DropStep(w)
  BY <1>0, <1>4, DropStepType, DropStepRefs, RefCountStep, DropStepLocals,
     DropStepMemory, DropStepPlace, DropStepInitDone
<1> QED
  BY <1>1, <1>2, <1>3, <1>4 DEF WorkerStep

\* A send from outside keeps the invariant.
LEMMA OutsideSendIInv ==
  ASSUME IInv, NEW t \in Outside, OutsideSend(t)
  PROVE  IInv'
<1>0. t \in Thread
  BY DEF Thread
<1> QED
  BY <1>0, OutsideSendType, OutsideSendRefs, RefCountStep, OutsideSendLocals,
     OutsideSendMemory, OutsideSendPlace, OutsideSendInitDone DEF IInv

\* A step of nothing keeps the invariant.
LEMMA StutterIInv ==
  ASSUME IInv, UNCHANGED vars
  PROVE  IInv'
<1> USE DEF vars, qVars, cVars, localVars, IInv
<1>1. TypeOK'
  BY DEF TypeOK
<1>2. Locals' /\ Memory'
  BY DEF Locals, Memory
<1>3. RefCountExact'
  BY DEF RefCountExact, LoopRefs, CallRefs, NewRefs, TableRef
<1>4. QueueInOnePlace'
  BY PlaceFrame
<1>5. InitDone'
  BY DEF InitDone
<1> QED
  BY <1>1, <1>2, <1>3, <1>4, <1>5

\* IInv holds in every state of every instance of Dispatch.
THEOREM Invariance == Spec => []IInv
<1>1. IInv /\ [Next]_vars => IInv'
  BY CallStepIInv, WorkerStepIInv, OutsideSendIInv, StutterIInv DEF Next
<1> QED
  BY <1>1, InitIInv, PTL DEF Spec
-----------------------------------------------------------------------------
(* What it gives.                                                          *)

\* Every variable of mtask_server.c and mtask_mq.c stays in its type.
THEOREM TypeCorrect == Spec => []TypeOK
BY Invariance, PTL DEF IInv

\* A queue that is flagged or marked is in one place, any other in none
\* (in_global of mtask_mq.c).
THEOREM QueuesPlaced == Spec => []QueueInOnePlace
BY Invariance, PTL DEF IInv

\* ctx->ref counts the handle table's reference and those of running calls.
THEOREM ReferencesCounted == Spec => []RefCountExact
BY Invariance, PTL DEF IInv

\* CALLING_CHECK: no two workers are in callbacks of the same service.
THEOREM HandlersAlone == Spec => []HandlerAlone
<1>1. IInv => HandlerAlone
  BY DEF IInv, HandlerAlone, InCallback, QueueInOnePlace, Holds
<1> QED
  BY <1>1, Invariance, PTL

\* Nobody who is going to use a context or its queue finds it deleted.
THEOREM NoneUsedAfterFree == Spec => []NoUseAfterFree
<1>1. IInv => NoUseAfterFree
  <2> SUFFICES ASSUME IInv, NEW s \in Service,
                      LoopRefs(s) \cup CallRefs(s) \cup NewRefs(s) # {} \/ s \in registered
               PROVE  cmem[s] = "live" /\ mem[s] = "live" /\ ~ release[s]
    BY DEF NoUseAfterFree
  <2>1. CASE LoopRefs(s) \cup CallRefs(s) \cup NewRefs(s) # {}
    <3>1. PICK t \in Thread : t \in LoopRefs(s) \cup CallRefs(s) \cup NewRefs(s)
      BY <2>1 DEF LoopRefs, CallRefs, NewRefs
    <3>2. OwnRefs(t, s) > 0
      BY <3>1 DEF OwnRefs, LoopRefs, CallRefs, NewRefs
    <3> QED BY <3>1, <3>2, Referenced DEF IInv
  <2>2. CASE s \in registered
    <3>1. ref[s] > 0
      <4>1. ref[s] = Cardinality(LoopRefs(s)) + Cardinality(CallRefs(s))
                       + Cardinality(NewRefs(s)) + TableRef(s)
        BY DEF IInv, RefCountExact
      <4>2. /\ Cardinality(LoopRefs(s)) \in Nat
            /\ Cardinality(CallRefs(s)) \in Nat
            /\ Cardinality(NewRefs(s)) \in Nat
        <5>1. /\ LoopRefs(s) \in SUBSET Thread
              /\ CallRefs(s) \in SUBSET Thread
              /\ NewRefs(s) \in SUBSET Thread
          BY DEF LoopRefs, CallRefs, NewRefs
        <5> QED BY <5>1, ThreadFinite, FS_Subset, FS_CardinalityType
      <4>3. TableRef(s) = 1
        BY <2>2 DEF TableRef
      <4> QED BY <4>1, <4>2, <4>3
    <3> QED BY <3>1 DEF IInv, Memory, TypeOK
  <2> QED BY <2>1, <2>2
<1> QED
  BY <1>1, Invariance, PTL

\* delete_context runs once for a context and marks its queue once.
THEOREM QueuesMarkedOnce == Spec => []MarkedOnce
<1>1. IInv => MarkedOnce
  <2> SUFFICES ASSUME IInv, NEW t \in Thread, sub[t].fn = "delete"
               PROVE  /\ ~ release[sub[t].s]
                      /\ cmem[sub[t].s] = "live"
                      /\ \A u \in Thread : sub[u].fn = "delete" /\ sub[u].s = sub[t].s => u = t
    BY DEF MarkedOnce
  <2>1. sub[t].s \in Service
    BY CallFacts DEF IInv
  <2> QED BY <2>1 DEF IInv, Memory
<1> QED
  BY <1>1, Invariance, PTL

\* assert(ctx->init) of dispatch_message: launches end before dispatching.
THEOREM DispatchesAfterInit == Spec => []DispatchedAfterInit
<1>1. IInv => DispatchedAfterInit
  BY DEF IInv, InitDone, DispatchedAfterInit, InLoop
<1> QED
  BY <1>1, Invariance, PTL

\* delete_context runs once for a context, and mtask_context_message_dispatch for it
\* from the end of mtask_context_new on.
THEOREM LivesOnce == Spec => []LifeCycle
BY TypeCorrect, QueuesMarkedOnce, DispatchesAfterInit, PTL DEF LifeCycle

-----------------------------------------------------------------------------
(* Messages.                                                               *)

\* A thread in mtask_context_push has a message in its hands.
Carries(t) == sub[t].fn \in {"grab", "push"}

\* A message on its way is in the hands of one thread or at one place of one
\* queue, and it has no outcome yet.
InOnePlace ==
  /\ \A t, u \in Thread : Carries(t) /\ Carries(u) /\ sub[t].m.id = sub[u].m.id => t = u
  /\ \A t \in Thread, s \in Service : Carries(t) =>
       \A k \in DOMAIN msgs[s] : msgs[s][k].id # sub[t].m.id
  /\ \A r, s \in Service : \A j \in DOMAIN msgs[r], k \in DOMAIN msgs[s] :
       msgs[r][j].id = msgs[s][k].id => r = s /\ j = k
  /\ \A t \in Thread : Carries(t) => fate[sub[t].m.id] = "pending"
  /\ \A s \in Service : \A k \in DOMAIN msgs[s] : fate[msgs[s][k].id] = "pending"

OutcomesKept == \A i \in MsgId : fate[i] \in Final => fate'[i] = fate[i]

\* What is queued is a message.
LEMMA QueuedMessage ==
  ASSUME TypeOK, NEW s \in Service, NEW k \in DOMAIN msgs[s]
  PROVE  msgs[s][k] \in Message /\ msgs[s][k].id \in MsgId
<1>1. msgs[s] \in Seq(Message)
  BY DEF TypeOK
<1>2. msgs[s][k] \in Message
  BY <1>1
<1> QED
  BY <1>2 DEF Message

\* A place in a queue is a number.
LEMMA QueuedDomain ==
  ASSUME TypeOK, NEW s \in Service, NEW k \in DOMAIN msgs[s]
  PROVE  k \in Int
<1>1. msgs[s] \in Seq(Message)
  BY DEF TypeOK
<1> QED
  BY <1>1

\* The tail of a sequence is the sequence moved down by one.
LEMMA TailElements ==
  ASSUME NEW S, NEW seq \in Seq(S), seq # <<>>
  PROVE  /\ DOMAIN Tail(seq) = 1 .. Len(seq) - 1
         /\ \A k \in 1 .. Len(seq) - 1 : Tail(seq)[k] = seq[k + 1]
OBVIOUS

\* A call that releases, deletes or retires carries no message.
LEMMA CallCarriesNothing ==
  ASSUME TypeOK, NEW w \in Thread, NEW f \in {"release", "delete", "retire"}, NEW s,
         sub' = [sub EXCEPT ![w] = Call(f, s)]
  PROVE  \A u \in Thread : Carries(u)' => Carries(u) /\ sub'[u].m.id = sub[u].m.id
<1>1. sub \in [Thread -> CallType]
  BY DEF TypeOK
<1>2. \A u \in Thread \ {w} : sub'[u] = sub[u]
  BY <1>1
<1>3. sub'[w].fn = f
  BY <1>1 DEF Call
<1>4. ~ Carries(w)'
  BY <1>3 DEF Carries
<1> QED
  BY <1>2, <1>4 DEF Carries

\* Steps that neither take nor queue a message.
LEMMA FrameInOnePlace ==
  ASSUME InOnePlace, UNCHANGED <<msgs, fate>>,
         \A t \in Thread : Carries(t)' => Carries(t) /\ sub'[t].m.id = sub[t].m.id
  PROVE  InOnePlace' /\ OutcomesKept
BY DEF InOnePlace, OutcomesKept

\* mtask_send makes a message nobody has.
LEMMA SendInOnePlace ==
  ASSUME TypeOK, InOnePlace, NEW t \in Thread, NEW src, NEW d, Send(t, src, d), UNCHANGED msgs
  PROVE  InOnePlace' /\ OutcomesKept
<1>1. PICK i \in MsgId :
        /\ fate[i] = "unsent"
        /\ fate' = [fate EXCEPT ![i] = "pending"]
        /\ sub' = [sub EXCEPT ![t] = SendCall(d, [id |-> i, kind |-> "req", src |-> src])]
  BY DEF Send, Fresh, Invoke
<1>2. sub'[t].m.id = i /\ Carries(t)'
  BY <1>1 DEF TypeOK, SendCall, Carries
<1>3. \A u \in Thread \ {t} : sub'[u] = sub[u]
  BY <1>1 DEF TypeOK
<1>4. \A u \in Thread : Carries(u) => sub[u].m.id # i
  BY <1>1 DEF InOnePlace
<1>5. \A s \in Service : \A k \in DOMAIN msgs[s] : msgs[s][k].id # i
  BY <1>1 DEF InOnePlace
<1>6. fate'[i] = "pending" /\ \A j \in MsgId \ {i} : fate'[j] = fate[j]
  BY <1>1 DEF TypeOK
<1>7. \A u \in Thread : Carries(u) => sub[u].m.id \in MsgId
  BY CallFacts DEF Carries
<1>8. \A s \in Service : \A k \in DOMAIN msgs[s] : msgs[s][k].id \in MsgId
  BY QueuedMessage
<1>9. OutcomesKept
  BY <1>1, <1>6 DEF OutcomesKept, Final
<1>10. \A u \in Thread \ {t} : Carries(u)' <=> Carries(u)
  BY <1>3 DEF Carries
<1>11. /\ \A u, v \in Thread : Carries(u)' /\ Carries(v)' /\ sub'[u].m.id = sub'[v].m.id => u = v
       /\ \A u \in Thread, s \in Service : Carries(u)' =>
            \A k \in DOMAIN msgs'[s] : msgs'[s][k].id # sub'[u].m.id
  BY <1>2, <1>3, <1>4, <1>5, <1>10 DEF InOnePlace
<1>12. \A u \in Thread : Carries(u)' => fate'[sub'[u].m.id] = "pending"
  BY <1>2, <1>3, <1>4, <1>6, <1>7, <1>10 DEF InOnePlace
<1>13. \A s \in Service : \A k \in DOMAIN msgs'[s] : fate'[msgs'[s][k].id] = "pending"
  BY <1>5, <1>6, <1>8 DEF InOnePlace
<1>14. InOnePlace'
  BY <1>11, <1>12, <1>13 DEF InOnePlace
<1> QED
  BY <1>9, <1>14

\* A message that is refused is in nobody's hands any more.
LEMMA RefusedInOnePlace ==
  ASSUME TypeOK, InOnePlace, NEW t \in Thread, GrabFails(t)
  PROVE  InOnePlace' /\ OutcomesKept
<1> DEFINE i == sub[t].m.id
<1>1. Carries(t) /\ i \in MsgId
  BY CallFacts DEF GrabFails, Carries
<1>2. ~ Carries(t)' /\ \A u \in Thread \ {t} : sub'[u] = sub[u]
  BY DEF GrabFails, Return, Invoke, NoSub, Carries, TypeOK
<1>3. \A j \in MsgId \ {i} : fate'[j] = fate[j]
  BY <1>1 DEF GrabFails, TypeOK
<1>4. UNCHANGED msgs
  BY DEF GrabFails, qVars
<1>5. fate[i] = "pending"
  BY <1>1 DEF InOnePlace
<1>6. \A u \in Thread : Carries(u) => sub[u].m.id \in MsgId
  BY CallFacts DEF Carries
<1>7. \A s \in Service : \A k \in DOMAIN msgs[s] : msgs[s][k].id \in MsgId
  BY QueuedMessage
<1> HIDE DEF i
<1>8. OutcomesKept
  BY <1>3, <1>5 DEF OutcomesKept, Final
<1>9. \A u \in Thread : Carries(u)' => u # t /\ Carries(u) /\ sub'[u] = sub[u] /\ sub[u].m.id # i
  BY <1>1, <1>2 DEF InOnePlace, Carries, i
<1>10. \A s \in Service : \A k \in DOMAIN msgs[s] : msgs[s][k].id # i
  BY <1>1 DEF InOnePlace, i
<1>11. \A u \in Thread : Carries(u)' => fate'[sub'[u].m.id] = "pending"
  BY <1>3, <1>6, <1>9 DEF InOnePlace
<1>12. \A s \in Service : \A k \in DOMAIN msgs'[s] : fate'[msgs'[s][k].id] = "pending"
  BY <1>3, <1>4, <1>7, <1>10 DEF InOnePlace
<1>13. InOnePlace'
  BY <1>4, <1>9, <1>11, <1>12 DEF InOnePlace
<1> QED
  BY <1>8, <1>13

\* mtask_mq_push moves a message from the hands of a thread into a queue.
LEMMA PushInOnePlace ==
  ASSUME TypeOK, InOnePlace, NEW t \in Thread, Push(t)
  PROVE  InOnePlace' /\ OutcomesKept
<1> DEFINE m == sub[t].m
           s == sub[t].s
<1>1. Carries(t) /\ m \in Message /\ m.id \in MsgId /\ s \in Service
  BY CallFacts DEF Push, Carries
<1>2. ~ Carries(t)' /\ \A u \in Thread \ {t} : sub'[u] = sub[u]
  BY DEF Push, Invoke, Call, Carries, TypeOK
<1>3. msgs' = [msgs EXCEPT ![s] = Append(@, m)] /\ UNCHANGED fate
  BY DEF Push, MqPush
<1>4. msgs[s] \in Seq(Message)
  BY <1>1 DEF TypeOK
<1>5. /\ DOMAIN msgs'[s] = 1 .. Len(msgs[s]) + 1
      /\ DOMAIN msgs[s] = 1 .. Len(msgs[s])
      /\ Len(msgs[s]) \in Nat
      /\ msgs'[s][Len(msgs[s]) + 1] = m
      /\ \A k \in 1 .. Len(msgs[s]) : msgs'[s][k] = msgs[s][k]
  BY <1>1, <1>3, <1>4 DEF TypeOK
<1>6. \A r \in Service \ {s} : msgs'[r] = msgs[r]
  BY <1>3 DEF TypeOK
<1> HIDE DEF m, s
<1>7. \A r \in Service : \A k \in DOMAIN msgs'[r] :
        \/ k \in DOMAIN msgs[r] /\ msgs'[r][k] = msgs[r][k] /\ msgs[r][k].id # m.id
        \/ r = s /\ k = Len(msgs[s]) + 1 /\ msgs'[r][k] = m
  BY <1>1, <1>5, <1>6 DEF InOnePlace, m
<1>8. \A u \in Thread : Carries(u)' => u # t /\ Carries(u) /\ sub'[u] = sub[u] /\ sub[u].m.id # m.id
  BY <1>1, <1>2 DEF InOnePlace, Carries, m
<1>9. fate[m.id] = "pending"
  BY <1>1 DEF InOnePlace, m
<1>10. InOnePlace'
  BY <1>3, <1>7, <1>8, <1>9 DEF InOnePlace
<1> QED
  BY <1>3, <1>10 DEF OutcomesKept

\* mtask_mq_pop takes a message out of its only place.
LEMMA PopTakes ==
  ASSUME TypeOK, InOnePlace, NEW s \in Service, NEW m, MqPop(s, m)
  PROVE  /\ m \in Message /\ m.id \in MsgId /\ fate[m.id] = "pending"
         /\ \A u \in Thread : Carries(u) => sub[u].m.id # m.id
         /\ \A r \in Service : \A k \in DOMAIN msgs'[r] : msgs'[r][k].id # m.id
         /\ \A r \in Service : \A k \in DOMAIN msgs'[r] : \E j \in DOMAIN msgs[r] :
              msgs'[r][k] = msgs[r][j]
         /\ \A r, p \in Service : \A j \in DOMAIN msgs'[r], k \in DOMAIN msgs'[p] :
              msgs'[r][j].id = msgs'[p][k].id => r = p /\ j = k
<1>1. /\ msgs[s] \in Seq(Message) /\ msgs[s] # <<>> /\ m = msgs[s][1]
      /\ msgs' = [msgs EXCEPT ![s] = Tail(@)]
  BY DEF MqPop, TypeOK
<1>2. /\ DOMAIN msgs[s] = 1 .. Len(msgs[s]) /\ Len(msgs[s]) \in Nat /\ 1 \in DOMAIN msgs[s]
      /\ DOMAIN msgs'[s] = 1 .. Len(msgs[s]) - 1
      /\ \A k \in DOMAIN msgs'[s] : k \in Nat /\ k + 1 \in DOMAIN msgs[s]
                                    /\ msgs'[s][k] = msgs[s][k + 1] /\ k + 1 # 1
  <2>1. msgs'[s] = Tail(msgs[s])
    BY <1>1 DEF TypeOK
  <2>2. DOMAIN msgs[s] = 1 .. Len(msgs[s]) /\ Len(msgs[s]) \in Nat /\ Len(msgs[s]) > 0
    BY <1>1
  <2>3. /\ DOMAIN msgs'[s] = 1 .. Len(msgs[s]) - 1
        /\ \A k \in 1 .. Len(msgs[s]) - 1 : msgs'[s][k] = msgs[s][k + 1]
    BY <1>1, <2>1, TailElements
  <2> QED
    BY <2>2, <2>3
<1>3. \A r \in Service \ {s} : msgs'[r] = msgs[r]
  BY <1>1 DEF TypeOK
<1>4. m \in Message /\ m.id \in MsgId /\ fate[m.id] = "pending"
  BY <1>1, <1>2, QueuedMessage DEF InOnePlace
<1>5. \A u \in Thread : Carries(u) => sub[u].m.id # m.id
  BY <1>1, <1>2 DEF InOnePlace
<1>6. \A r \in Service : \A k \in DOMAIN msgs'[r] : msgs'[r][k].id # m.id
  BY <1>1, <1>2, <1>3 DEF InOnePlace
<1>7. \A r \in Service : \A k \in DOMAIN msgs'[r] : \E j \in DOMAIN msgs[r] :
        msgs'[r][k] = msgs[r][j]
  BY <1>2, <1>3
<1>8. ASSUME NEW r \in Service, NEW p \in Service, NEW j \in DOMAIN msgs'[r],
             NEW k \in DOMAIN msgs'[p], msgs'[r][j].id = msgs'[p][k].id
      PROVE  r = p /\ j = k
  <2> DEFINE j0 == IF r = s THEN j + 1 ELSE j
             k0 == IF p = s THEN k + 1 ELSE k
  <2>1. j0 \in DOMAIN msgs[r] /\ msgs'[r][j] = msgs[r][j0]
    BY <1>2, <1>3
  <2>2. k0 \in DOMAIN msgs[p] /\ msgs'[p][k] = msgs[p][k0]
    BY <1>2, <1>3
  <2>3. j \in Int /\ k \in Int
    BY <1>2, <1>3, QueuedDomain
  <2> HIDE DEF j0, k0
  <2>4. r = p /\ j0 = k0
    BY <1>8, <2>1, <2>2 DEF InOnePlace
  <2> QED
    BY <2>3, <2>4 DEF j0, k0
<1> QED
  BY <1>4, <1>5, <1>6, <1>7, <1>8

\* A message that was popped and is nowhere any more has found its outcome.
LEMMA HandledInOnePlace ==
  ASSUME TypeOK, InOnePlace, NEW s \in Service, NEW m, MqPop(s, m), NEW o,
         fate' = [fate EXCEPT ![m.id] = o],
         \A u \in Thread : Carries(u)' => Carries(u) /\ sub'[u].m.id = sub[u].m.id
  PROVE  InOnePlace' /\ OutcomesKept
<1>1. /\ m.id \in MsgId /\ fate[m.id] = "pending"
      /\ \A u \in Thread : Carries(u) => sub[u].m.id # m.id
      /\ \A r \in Service : \A k \in DOMAIN msgs'[r] : msgs'[r][k].id # m.id
      /\ \A r \in Service : \A k \in DOMAIN msgs'[r] : \E j \in DOMAIN msgs[r] :
           msgs'[r][k] = msgs[r][j]
      /\ \A r, p \in Service : \A j \in DOMAIN msgs'[r], k \in DOMAIN msgs'[p] :
           msgs'[r][j].id = msgs'[p][k].id => r = p /\ j = k
  BY PopTakes
<1>2. \A i \in MsgId \ {m.id} : fate'[i] = fate[i]
  BY DEF TypeOK
<1>3. OutcomesKept
  BY <1>1, <1>2 DEF OutcomesKept, Final
<1>4. \A u \in Thread : Carries(u) => sub[u].m.id \in MsgId
  BY CallFacts DEF Carries
<1>5. \A u \in Thread : Carries(u)' => fate'[sub'[u].m.id] = "pending"
  BY <1>1, <1>2, <1>4 DEF InOnePlace
<1>6. \A r \in Service : \A k \in DOMAIN msgs'[r] : fate'[msgs'[r][k].id] = "pending"
  BY <1>1, <1>2, QueuedMessage DEF InOnePlace
<1>7. \A u \in Thread, r \in Service : Carries(u)' =>
        \A k \in DOMAIN msgs'[r] : msgs'[r][k].id # sub'[u].m.id
  BY <1>1 DEF InOnePlace
<1>8. \A u, v \in Thread : Carries(u)' /\ Carries(v)' /\ sub'[u].m.id = sub'[v].m.id => u = v
  BY DEF InOnePlace
<1>9. InOnePlace'
  BY <1>1, <1>5, <1>6, <1>7, <1>8 DEF InOnePlace
<1> QED
  BY <1>3, <1>9

\* A message that is dropped goes on in the hands of the thread that reports it.
LEMMA DroppedInOnePlace ==
  ASSUME TypeOK, InOnePlace, NEW w \in Thread, sub[w].fn = "none",
         NEW s \in Service, NEW m, MqPop(s, m), UNCHANGED fate,
         NEW d, NEW e, e.id = m.id, sub' = [sub EXCEPT ![w] = SendCall(d, e)]
  PROVE  InOnePlace' /\ OutcomesKept
<1>1. /\ m.id \in MsgId /\ fate[m.id] = "pending"
      /\ \A u \in Thread : Carries(u) => sub[u].m.id # m.id
      /\ \A r \in Service : \A k \in DOMAIN msgs'[r] : msgs'[r][k].id # m.id
      /\ \A r \in Service : \A k \in DOMAIN msgs'[r] : \E j \in DOMAIN msgs[r] :
           msgs'[r][k] = msgs[r][j]
      /\ \A r, p \in Service : \A j \in DOMAIN msgs'[r], k \in DOMAIN msgs'[p] :
           msgs'[r][j].id = msgs'[p][k].id => r = p /\ j = k
  BY PopTakes
<1>2. sub'[w].m.id = m.id
  BY DEF SendCall, TypeOK
<1>3. \A u \in Thread \ {w} : sub'[u] = sub[u] /\ (Carries(u)' <=> Carries(u))
  BY DEF TypeOK, Carries
<1>4. \A u \in Thread : Carries(u)' => fate'[sub'[u].m.id] = "pending"
  BY <1>1, <1>2, <1>3 DEF InOnePlace
<1>5. \A r \in Service : \A k \in DOMAIN msgs'[r] : fate'[msgs'[r][k].id] = "pending"
  BY <1>1 DEF InOnePlace
<1>6. \A u \in Thread, r \in Service : Carries(u)' =>
        \A k \in DOMAIN msgs'[r] : msgs'[r][k].id # sub'[u].m.id
  BY <1>1, <1>2, <1>3 DEF InOnePlace
<1>7. \A u, v \in Thread : Carries(u)' /\ Carries(v)' /\ sub'[u].m.id = sub'[v].m.id => u = v
  BY <1>1, <1>2, <1>3 DEF InOnePlace
<1>8. InOnePlace'
  BY <1>1, <1>4, <1>5, <1>6, <1>7 DEF InOnePlace
<1> QED
  BY <1>8 DEF OutcomesKept

\* A new queue is empty.
LEMMA CreateInOnePlace ==
  ASSUME TypeOK, InOnePlace, NEW s \in Service, MqCreate(s), UNCHANGED <<sub, fate>>
  PROVE  InOnePlace' /\ OutcomesKept
<1>1. \A r \in Service : msgs'[r] = msgs[r] \/ DOMAIN msgs'[r] = {}
  BY DEF MqCreate, TypeOK
<1>2. /\ \A u \in Thread, r \in Service : Carries(u)' =>
            \A k \in DOMAIN msgs'[r] : msgs'[r][k].id # sub'[u].m.id
      /\ \A r, p \in Service : \A j \in DOMAIN msgs'[r], k \in DOMAIN msgs'[p] :
            msgs'[r][j].id = msgs'[p][k].id => r = p /\ j = k
      /\ \A r \in Service : \A k \in DOMAIN msgs'[r] : fate'[msgs'[r][k].id] = "pending"
  BY <1>1 DEF InOnePlace, Carries
<1>3. InOnePlace'
  BY <1>2 DEF InOnePlace, Carries
<1> QED
  BY <1>3 DEF OutcomesKept
-----------------------------------------------------------------------------
(* Every step leaves a message in one place and keeps its outcome.         *)

\* The calls of the runtime.
LEMMA CallStepInOnePlace ==
  ASSUME IInv, InOnePlace, NEW t \in Thread, CallStep(t)
  PROVE  InOnePlace' /\ OutcomesKept
<1>0. TypeOK
  BY DEF IInv
<1>1. CASE Grab(t)
  BY <1>0, <1>1, FrameInOnePlace DEF Grab, Invoke, Carries, qVars, TypeOK
<1>2. CASE GrabFails(t)
  BY <1>0, <1>2, RefusedInOnePlace
<1>3. CASE Push(t)
  BY <1>0, <1>3, PushInOnePlace
<1>4. CASE Release(t)
  <2>1. UNCHANGED <<msgs, fate>>
    BY <1>4 DEF Release, qVars
  <2>2. \A u \in Thread : Carries(u)' => Carries(u) /\ sub'[u].m.id = sub[u].m.id
    BY <1>0, <1>4 DEF Release, Invoke, Carries, Call, NoSub, TypeOK
  <2> QED
    BY <2>1, <2>2, FrameInOnePlace
<1>5. CASE Delete(t)
  BY <1>0, <1>5, FrameInOnePlace DEF Delete, MqMarkRelease, Return, Invoke, Carries, NoSub, TypeOK
<1>6. CASE Retire(t)
  <2>1. UNCHANGED <<msgs, fate>>
    BY <1>6 DEF Retire, qVars
  <2>2. \A u \in Thread : Carries(u)' => Carries(u) /\ sub'[u].m.id = sub[u].m.id
    BY <1>0, <1>6 DEF Retire, Invoke, Carries, Call, NoSub, TypeOK
  <2> QED
    BY <2>1, <2>2, FrameInOnePlace
<1> QED
  BY <1>1, <1>2, <1>3, <1>4, <1>5, <1>6 DEF CallStep

\* The dispatch loop.
LEMMA BatchStepInOnePlace ==
  ASSUME IInv, InOnePlace, NEW w \in Worker, BatchStep(w)
  PROVE  InOnePlace' /\ OutcomesKept
<1>0. TypeOK /\ Locals /\ w \in Thread
  BY DEF IInv, Thread
<1>1. CASE PopMessage(w)
  <2>1. q[w] \in Service
    BY <1>0, <1>1 DEF PopMessage, Locals, InLoop, TypeOK
  <2>2. PICK m \in Message :
          /\ MqPop(q[w], m)
          /\ fate' = [fate EXCEPT ![m.id] = IF m.kind = "req" THEN "handled" ELSE "reported"]
    BY <1>1 DEF PopMessage
  <2>3. UNCHANGED sub
    BY <1>1 DEF PopMessage
  <2> QED
    BY <1>0, <2>1, <2>2, <2>3, HandledInOnePlace DEF Carries
<1>2. CASE ~ PopMessage(w)
  <2>1. UNCHANGED <<msgs, fate>>
    BY <1>2 DEF BatchStep, Take, GrabQueueOwner, PopEmpty, MqPopEmpty, Length, EndBatch,
                PushBack, TakeNext, qVars
  <2>2. UNCHANGED sub \/ sub' = [sub EXCEPT ![w] = Call("release", q[w])]
    BY <1>2 DEF BatchStep, Take, GrabQueueOwner, PopEmpty, Length, EndBatch, PushBack,
                TakeNext, Invoke
  <2>3. \A u \in Thread : Carries(u)' => Carries(u) /\ sub'[u].m.id = sub[u].m.id
    BY <1>0, <2>2, CallCarriesNothing DEF Carries
  <2> QED
    BY <2>1, <2>3, FrameInOnePlace
<1> QED
  BY <1>1, <1>2

\* The callback of a service.
LEMMA CallbackStepInOnePlace ==
  ASSUME IInv, InOnePlace, NEW w \in Worker, CallbackStep(w)
  PROVE  InOnePlace' /\ OutcomesKept
<1>0. TypeOK /\ w \in Thread
  BY DEF IInv, Thread
<1>1. CASE CbSend(w)
  <2>1. PICK d \in Known : Send(w, q[w], d)
    BY <1>1 DEF CbSend
  <2>2. UNCHANGED msgs
    BY <1>1 DEF CbSend, qVars
  <2> QED
    BY <1>0, <2>1, <2>2, SendInOnePlace
<1>2. CASE CbRetire(w)
  BY <1>0, <1>2, FrameInOnePlace DEF CbRetire, Invoke, Carries, Call, qVars, TypeOK
<1>3. CASE CbLaunch(w)
  BY <1>0, <1>3, CreateInOnePlace DEF CbLaunch
<1>4. CASE CbReturn(w)
  BY <1>4, FrameInOnePlace DEF CbReturn, Carries, qVars
<1> QED
  BY <1>1, <1>2, <1>3, <1>4 DEF CallbackStep

\* The launch of a service.
LEMMA LaunchStepInOnePlace ==
  ASSUME IInv, InOnePlace, NEW w \in Worker, LaunchStep(w)
  PROVE  InOnePlace' /\ OutcomesKept
<1>0. TypeOK /\ w \in Thread
  BY DEF IInv, Thread
<1>1. CASE InitSend(w)
  <2>1. PICK d \in Known : Send(w, new[w], d)
    BY <1>1 DEF InitSend
  <2>2. UNCHANGED msgs
    BY <1>1 DEF InitSend, qVars
  <2> QED
    BY <1>0, <2>1, <2>2, SendInOnePlace
<1>2. CASE ~ InitSend(w)
  <2>1. UNCHANGED <<msgs, fate>>
    BY <1>2 DEF LaunchStep, InitOk, SetInit, Offer, InitFails, FailRetire, qVars
  <2>2. \/ UNCHANGED sub
        \/ \E f \in {"delete", "release", "retire"} :
             sub' = [sub EXCEPT ![w] = Call(f, new[w])]
    BY <1>2 DEF LaunchStep, InitOk, SetInit, Offer, InitFails, FailRetire, Invoke
  <2>3. \A u \in Thread : Carries(u)' => Carries(u) /\ sub'[u].m.id = sub[u].m.id
    BY <1>0, <2>2, CallCarriesNothing DEF Carries
  <2> QED
    BY <2>1, <2>3, FrameInOnePlace
<1> QED
  BY <1>1, <1>2

\* The release of a queue.
LEMMA DropStepInOnePlace ==
  ASSUME IInv, InOnePlace, NEW w \in Worker, DropStep(w)
  PROVE  InOnePlace' /\ OutcomesKept
<1>0. TypeOK /\ Locals /\ w \in Thread
  BY DEF IInv, Thread
<1>1. CASE DropMessage(w)
  <2>1. Dropped(w) \in Service
    BY <1>0, <1>1, NullNotService DEF DropMessage, Dropped, Locals, Launch, TypeOK
  <2>2. PICK m \in Message :
          /\ MqPop(Dropped(w), m)
          /\ \/ fate' = [fate EXCEPT ![m.id] = "unreported"] /\ UNCHANGED sub
             \/ /\ Invoke(w, SendCall(m.src, [id |-> m.id, kind |-> "err", src |-> Dropped(w)]))
                /\ UNCHANGED fate
    BY <1>1 DEF DropMessage
  <2>3. CASE fate' = [fate EXCEPT ![m.id] = "unreported"] /\ UNCHANGED sub
    BY <1>0, <2>1, <2>2, <2>3, HandledInOnePlace DEF Carries
  <2>4. CASE /\ Invoke(w, SendCall(m.src, [id |-> m.id, kind |-> "err", src |-> Dropped(w)]))
             /\ UNCHANGED fate
    <3> DEFINE e == [id |-> m.id, kind |-> "err", src |-> Dropped(w)]
    <3>1. e.id = m.id /\ sub' = [sub EXCEPT ![w] = SendCall(m.src, e)]
      BY <2>4 DEF Invoke
    <3>2. sub[w].fn = "none"
      BY <1>1 DEF DropMessage
    <3> HIDE DEF e
    <3> QED
      BY <1>0, <2>1, <2>2, <2>4, <3>1, <3>2, DroppedInOnePlace
  <2> QED
    BY <2>2, <2>3, <2>4
<1>2. CASE ~ DropMessage(w)
  BY <1>2, FrameInOnePlace DEF DropStep, MqReleaseGiveBack, MqReleaseDrop, FreeQueue, MqGiveBack,
     MqStartDrop, MqFree, Carries, qVars, mqVars
<1> QED
  BY <1>1, <1>2

\* Every step.
LEMMA NextInOnePlace ==
  ASSUME IInv, InOnePlace, [Next]_vars
  PROVE  InOnePlace' /\ OutcomesKept
<1>1. ASSUME NEW t \in Outside, OutsideSend(t)
      PROVE  InOnePlace' /\ OutcomesKept
  <2>1. PICK d \in Known : Send(t, NULL, d)
    BY <1>1 DEF OutsideSend
  <2>2. UNCHANGED msgs
    BY <1>1 DEF OutsideSend, qVars
  <2> QED
    BY <2>1, <2>2, SendInOnePlace DEF IInv, Thread
<1>2. CASE UNCHANGED vars
  BY <1>2, FrameInOnePlace DEF vars, qVars, Carries
<1> QED
  BY <1>1, <1>2, CallStepInOnePlace, BatchStepInOnePlace, CallbackStepInOnePlace,
     LaunchStepInOnePlace, DropStepInOnePlace DEF Next, WorkerStep

\* At the start there is no message.
LEMMA InitInOnePlace == Init => InOnePlace
BY DEF Init, InOnePlace, Carries, NoSub

\* A message is nowhere twice.
THEOREM MessagesOnce == Spec => []InOnePlace
<1>1. IInv /\ InOnePlace /\ [Next]_vars => InOnePlace'
  BY NextInOnePlace
<1> QED
  BY <1>1, InitInOnePlace, Invariance, PTL DEF Spec

\* What became of a message stays so: a request that was handled is never
\* reported as lost, one that was refused or reported is never handled.
THEOREM OutcomesFinal == Spec => OutcomeIsFinal
<1>1. IInv /\ InOnePlace /\ [Next]_vars => [OutcomesKept]_vars
  BY NextInOnePlace
<1> QED
  BY <1>1, Invariance, MessagesOnce, PTL DEF Spec, OutcomeIsFinal, OutcomesKept
-----------------------------------------------------------------------------
(* The mailbox of a service.                                               *)

\* A worker has a message exactly while it handles it.
Handling ==
  \A t \in Thread : msg[t] # NULL <=> pc[t] \in {"length", "cb"} \cup Launch

\* A queue that is not there yet, or no longer, has no messages.
EmptyOutside == \A s \in Service : mem[s] # "live" => msgs[s] = <<>>

BoxInv == IInv /\ Handling /\ EmptyOutside

\* The calls of the runtime push only to queues that are there.
LEMMA CallStepBox ==
  ASSUME BoxInv, NEW t \in Thread, CallStep(t)
  PROVE  Handling' /\ EmptyOutside'
<1> USE DEF BoxInv
<1>1. Handling'
  BY DEF Handling, CallStep, Grab, GrabFails, Push, Release, Delete, Retire, localVars
<1>2. CASE Push(t)
  <2>1. sub[t].s \in Service /\ mem[sub[t].s] = "live"
    BY <1>2, CallRefsReferenced DEF IInv, Push
  <2> QED
    BY <1>1, <1>2, <2>1 DEF EmptyOutside, Push, MqPush, IInv, TypeOK
<1>3. CASE ~ Push(t)
  <2>1. UNCHANGED <<mem, msgs>>
    BY <1>3 DEF CallStep, Grab, GrabFails, Release, Delete, MqMarkRelease, Retire, qVars
  <2> QED
    BY <1>1, <2>1 DEF EmptyOutside
<1> QED
  BY <1>2, <1>3

\* The dispatch loop takes a message and handles it.
LEMMA BatchStepBox ==
  ASSUME BoxInv, NEW w \in Worker, BatchStep(w)
  PROVE  Handling' /\ EmptyOutside'
<1> USE DEF BoxInv
<1>0. TypeOK /\ Locals /\ w \in Thread
  BY DEF IInv, Thread
<1>1. \A t \in Thread \ {w} : pc'[t] = pc[t] /\ msg'[t] = msg[t]
  BY <1>0 DEF BatchStep, Take, GrabQueueOwner, PopEmpty, PopMessage, Length, EndBatch,
              PushBack, TakeNext, Goto, TypeOK
<1>2. UNCHANGED mem
  BY DEF BatchStep, Take, GrabQueueOwner, PopEmpty, MqPopEmpty, PopMessage, MqPop, Length,
         EndBatch, PushBack, TakeNext, qVars
<1>3. CASE PopMessage(w)
  <2>1. PICK m \in Message : MqPop(q[w], m) /\ msg' = [msg EXCEPT ![w] = m]
    BY <1>3 DEF PopMessage
  <2>2. pc' = [pc EXCEPT ![w] = IF pc[w] = "first" /\ Weight[w] >= 0 THEN "length" ELSE "cb"]
    BY <1>3 DEF PopMessage, Goto
  <2>3. msg'[w] # NULL /\ pc'[w] \in {"length", "cb"}
    BY <1>0, <2>1, <2>2, NullAssumption DEF TypeOK
  <2>4. Handling'
    BY <1>1, <2>3 DEF Handling
  <2>5. \A s \in Service : msgs[s] = <<>> => msgs'[s] = <<>>
    BY <1>0, <2>1 DEF MqPop, TypeOK
  <2> QED
    BY <1>2, <2>4, <2>5 DEF EmptyOutside
<1>4. CASE ~ PopMessage(w)
  <2>1. UNCHANGED <<msgs, msg>>
    BY <1>4 DEF BatchStep, Take, GrabQueueOwner, PopEmpty, MqPopEmpty, Length, EndBatch,
                PushBack, TakeNext, qVars
  <2>2. \/ pc'[w] = "cb" /\ pc[w] = "length"
        \/ pc[w] \notin {"length", "cb"} \cup Launch /\ pc'[w] \notin {"length", "cb"} \cup Launch
    BY <1>0, <1>4 DEF BatchStep, Take, GrabQueueOwner, PopEmpty, Length, EndBatch, PushBack,
                TakeNext, Goto, Ready, TypeOK, Launch
  <2> QED
    BY <1>1, <1>2, <2>1, <2>2 DEF Handling, EmptyOutside
<1> QED
  BY <1>3, <1>4

\* A callback ends with its message; a queue is created empty.
LEMMA CallbackStepBox ==
  ASSUME BoxInv, NEW w \in Worker, CallbackStep(w)
  PROVE  Handling' /\ EmptyOutside'
<1> USE DEF BoxInv
<1>0. TypeOK /\ w \in Thread
  BY DEF IInv, Thread
<1>1. CASE CbSend(w) \/ CbRetire(w)
  BY <1>1 DEF CbSend, CbRetire, Handling, EmptyOutside, qVars
<1>2. CASE CbLaunch(w)
  <2>1. PICK s \in Service : MqCreate(s)
    BY <1>2 DEF CbLaunch
  <2>2. EmptyOutside'
    BY <1>0, <2>1 DEF EmptyOutside, MqCreate, TypeOK
  <2>3. UNCHANGED msg /\ pc[w] = "cb" /\ pc' = [pc EXCEPT ![w] = "init"]
    BY <1>2 DEF CbLaunch, Ready, Goto
  <2>4. Handling'
    BY <1>0, <2>3 DEF Handling, TypeOK, Launch
  <2> QED
    BY <2>2, <2>4
<1>3. CASE CbReturn(w)
  <2>1. /\ msg' = [msg EXCEPT ![w] = NULL]
        /\ pc' = [pc EXCEPT ![w] = IF left[w] > 1 THEN "pop" ELSE "after"]
        /\ UNCHANGED <<mem, msgs>>
    BY <1>3 DEF CbReturn, Goto, qVars
  <2>2. Handling'
    BY <1>0, <2>1 DEF Handling, TypeOK, Launch
  <2> QED
    BY <2>1, <2>2 DEF EmptyOutside
<1> QED
  BY <1>1, <1>2, <1>3 DEF CallbackStep

\* A launch happens inside a callback.
LEMMA LaunchStepBox ==
  ASSUME BoxInv, NEW w \in Worker, LaunchStep(w)
  PROVE  Handling' /\ EmptyOutside'
<1> USE DEF BoxInv
<1>0. TypeOK /\ w \in Thread
  BY DEF IInv, Thread
<1>1. UNCHANGED <<msg, mem, msgs>>
  BY DEF LaunchStep, InitSend, InitOk, SetInit, Offer, InitFails, FailRetire, qVars, localVars
<1>2. /\ \A t \in Thread \ {w} : pc'[t] = pc[t]
      /\ pc[w] \in Launch
      /\ pc'[w] \in {"cb"} \cup Launch
  BY <1>0 DEF LaunchStep, InitSend, InitOk, SetInit, Offer, InitFails, FailRetire, Ready, Goto,
              TypeOK, Launch
<1> QED
  BY <1>1, <1>2 DEF Handling, EmptyOutside

\* A queue is emptied before it is freed.
LEMMA DropStepBox ==
  ASSUME BoxInv, NEW w \in Worker, DropStep(w)
  PROVE  Handling' /\ EmptyOutside'
<1> USE DEF BoxInv
<1>0. TypeOK /\ w \in Thread
  BY DEF IInv, Thread
<1>1. UNCHANGED msg
  BY DEF DropStep, MqReleaseGiveBack, MqReleaseDrop, DropMessage, FreeQueue, localVars
<1>2. /\ \A t \in Thread \ {w} : pc'[t] = pc[t]
      /\ \/ pc[w] \in Launch /\ pc'[w] \in {"cb"} \cup Launch
         \/ pc[w] \in {"mq_release", "drop"} /\ pc'[w] \in {"drop", "next"}
  BY <1>0 DEF DropStep, MqReleaseGiveBack, MqReleaseDrop, DropMessage, FreeQueue, Goto, TypeOK,
              Launch
<1>3. Handling'
  BY <1>1, <1>2 DEF Handling, Launch
<1>4. EmptyOutside'
  <2>1. CASE DropMessage(w)
    <3>1. UNCHANGED mem /\ \A s \in Service : msgs[s] = <<>> => msgs'[s] = <<>>
      BY <1>0, <2>1 DEF DropMessage, MqPop, TypeOK
    <3> QED
      BY <3>1 DEF EmptyOutside
  <2>2. CASE FreeQueue(w)
    BY <1>0, <2>2 DEF FreeQueue, MqFree, EmptyOutside, TypeOK
  <2>3. CASE MqReleaseGiveBack(w) \/ MqReleaseDrop(w)
    BY <2>3 DEF MqReleaseGiveBack, MqReleaseDrop, MqGiveBack, MqStartDrop, EmptyOutside, qVars,
                mqVars
  <2> QED
    BY <2>1, <2>2, <2>3 DEF DropStep
<1> QED
  BY <1>3, <1>4

\* BoxInv holds in every state.
THEOREM BoxesKept == Spec => []BoxInv
<1>1. Init => Handling /\ EmptyOutside
  BY DEF Init, Handling, EmptyOutside, Launch
<1>2. BoxInv /\ [Next]_vars => Handling' /\ EmptyOutside'
  <2>1. ASSUME BoxInv, UNCHANGED <<pc, msg, mem, msgs>>
        PROVE  Handling' /\ EmptyOutside'
    BY <2>1 DEF BoxInv, Handling, EmptyOutside
  <2>2. ASSUME NEW t \in Outside, OutsideSend(t)
        PROVE  UNCHANGED <<pc, msg, mem, msgs>>
    BY <2>2 DEF OutsideSend, qVars, localVars
  <2>3. UNCHANGED vars => UNCHANGED <<pc, msg, mem, msgs>>
    BY DEF vars, qVars, localVars
  <2> QED
    BY <2>1, <2>2, <2>3, CallStepBox, BatchStepBox, CallbackStepBox, LaunchStepBox, DropStepBox
       DEF Next, WorkerStep
<1> QED
  BY <1>1, <1>2, Invariance, PTL DEF Spec, BoxInv
-----------------------------------------------------------------------------
(* The refinement: each step of Dispatch is a step of Mailbox or leaves    *)
(* the mailboxes alone.                                                    *)

\* BusyWith, with the variables as parameters.
Served(qf, mf, s) ==
  IF \E t \in Thread : qf[t] = s /\ mf[t] # NULL
  THEN mf[CHOOSE t \in Thread : qf[t] = s /\ mf[t] # NULL]
  ELSE NULL

AtMostOne(qf, s) == \A t, u \in Thread : qf[t] = s /\ qf[u] = s => t = u

\* The one worker that has the queue of s has its message.
LEMMA ServedByOne ==
  ASSUME NEW qf, NEW mf, NEW s, NEW t \in Thread, AtMostOne(qf, s), qf[t] = s
  PROVE  Served(qf, mf, s) = mf[t]
<1>1. CASE mf[t] # NULL
  <2> DEFINE c == CHOOSE u \in Thread : qf[u] = s /\ mf[u] # NULL
  <2>1. c \in Thread /\ qf[c] = s /\ mf[c] # NULL
    BY <1>1
  <2>2. c = t
    BY <2>1 DEF AtMostOne
  <2> QED
    BY <1>1, <2>2 DEF Served
<1>2. CASE mf[t] = NULL
  BY <1>2 DEF Served, AtMostOne
<1> QED
  BY <1>1, <1>2

\* Without such a worker there is none.
LEMMA ServedByNone ==
  ASSUME NEW qf, NEW mf, NEW s, \A t \in Thread : qf[t] # s \/ mf[t] = NULL
  PROVE  Served(qf, mf, s) = NULL
BY DEF Served

\* Who serves s is the same when nobody who handles a message for s changed.
LEMMA ServedSame ==
  ASSUME NEW qf, NEW mf, NEW qg, NEW mg, NEW s, AtMostOne(qf, s), AtMostOne(qg, s),
         \A t \in Thread : qf[t] = s /\ mf[t] # NULL => qg[t] = s /\ mg[t] = mf[t],
         \A t \in Thread : qg[t] = s /\ mg[t] # NULL => qf[t] = s /\ mg[t] = mf[t]
  PROVE  Served(qf, mf, s) = Served(qg, mg, s)
<1>1. CASE \E t \in Thread : qf[t] = s /\ mf[t] # NULL
  BY <1>1, ServedByOne
<1>2. CASE \A t \in Thread : qf[t] # s \/ mf[t] = NULL
  <2>1. \A t \in Thread : qg[t] # s \/ mg[t] = NULL
    BY <1>2
  <2> QED
    BY <1>2, <2>1, ServedByNone
<1> QED
  BY <1>1, <1>2

\* The queue of s is held by one worker.
LEMMA HeldOnce ==
  ASSUME BoxInv, NEW s \in Service
  PROVE  AtMostOne(q, s)
BY DEF BoxInv, IInv, QueueInOnePlace, Holds, AtMostOne

LEMMA HeldOncePrime ==
  ASSUME BoxInv', NEW s \in Service
  PROVE  AtMostOne(q', s)
BY DEF BoxInv, IInv, QueueInOnePlace, Holds, AtMostOne

LEMMA BusyServed == \A s \in Service : BusyWith(s) = Served(q, msg, s)
BY DEF BusyWith, Served

LEMMA BusyServedPrime == \A s \in Service : BusyWith(s)' = Served(q', msg', s)
BY DEF BusyWith, Served

\* The service s is as busy as before when its worker is.
LEMMA BusySame ==
  ASSUME BoxInv, BoxInv', NEW s \in Service,
         \A t \in Thread : q[t] = s /\ msg[t] # NULL => q'[t] = s /\ msg'[t] = msg[t],
         \A t \in Thread : q'[t] = s /\ msg'[t] # NULL => q[t] = s /\ msg'[t] = msg[t]
  PROVE  BusyWith(s)' = BusyWith(s)
BY HeldOnce, HeldOncePrime, BusyServed, BusyServedPrime, ServedSame

\* The phases of a mailbox, one by one.
LEMMA Phases ==
  ASSUME TypeOK, NEW s \in Service
  PROVE  /\ mem[s] = "none" => PhaseOf(s) = "none"
         /\ mem[s] = "freed" => PhaseOf(s) = "gone"
         /\ mem[s] = "live" /\ release[s] => PhaseOf(s) = "closing"
         /\ mem[s] = "live" /\ ~ release[s] /\ inited[s] => PhaseOf(s) = "open"
         /\ mem[s] = "live" /\ ~ release[s] /\ ~ inited[s] => PhaseOf(s) = "starting"
BY DEF PhaseOf

LEMMA PhasesPrime ==
  ASSUME TypeOK', NEW s \in Service
  PROVE  /\ mem'[s] = "none" => PhaseOf(s)' = "none"
         /\ mem'[s] = "freed" => PhaseOf(s)' = "gone"
         /\ mem'[s] = "live" /\ release'[s] => PhaseOf(s)' = "closing"
         /\ mem'[s] = "live" /\ ~ release'[s] /\ inited'[s] => PhaseOf(s)' = "open"
         /\ mem'[s] = "live" /\ ~ release'[s] /\ ~ inited'[s] => PhaseOf(s)' = "starting"
BY DEF PhaseOf

LEMMA PhaseSame ==
  ASSUME NEW s \in Service, mem'[s] = mem[s], release'[s] = release[s], inited'[s] = inited[s]
  PROVE  PhaseOf(s)' = PhaseOf(s)
BY DEF PhaseOf

\* Steps the mailboxes do not see.
LEMMA BoxStutter ==
  ASSUME BoxInv, BoxInv', UNCHANGED <<mem, release, inited, msgs>>,
         \A t \in Thread : msg'[t] = msg[t] /\ (msg[t] # NULL => q'[t] = q[t])
  PROVE  UNCHANGED M!vars
<1>1. \A s \in Service : PhaseOf(s)' = PhaseOf(s)
  BY PhaseSame
<1>2. \A s \in Service : BusyWith(s)' = BusyWith(s)
  BY BusySame
<1> QED
  BY <1>1, <1>2 DEF M!vars

\* A push is accepted by a mailbox that is starting or open.
LEMMA PushAccepts ==
  ASSUME BoxInv, BoxInv', NEW t \in Thread, Push(t)
  PROVE  M!Accept(sub[t].s, sub[t].m)
<1> DEFINE s == sub[t].s
<1>1. /\ s \in Service
      /\ mem[s] = "live" /\ ~ release[s]
  BY CallRefsReferenced DEF Push, BoxInv, IInv
<1>2. PhaseOf(s) \in {"starting", "open"}
  BY <1>1, Phases DEF BoxInv, IInv
<1>3. /\ msgs' = [msgs EXCEPT ![s] = Append(@, sub[t].m)]
      /\ UNCHANGED <<mem, release, inited, q, msg>>
  BY DEF Push, MqPush, cVars, localVars
<1>4. \A r \in Service : PhaseOf(r)' = PhaseOf(r)
  BY <1>3, PhaseSame
<1>5. \A r \in Service : BusyWith(r)' = BusyWith(r)
  BY <1>3, BusySame
<1> QED
  BY <1>1, <1>2, <1>3, <1>4, <1>5 DEF M!Accept

\* The deletion of a context closes its mailbox, with nobody in a callback.
LEMMA DeleteCloses ==
  ASSUME BoxInv, BoxInv', NEW t \in Thread, Delete(t)
  PROVE  \E s \in Service : M!Close(s)
<1>0. TypeOK /\ TypeOK' /\ Memory /\ RefCountExact /\ Handling
  BY DEF BoxInv, IInv
<1>1. PICK s \in Service :
        s = sub[t].s /\ mem[s] = "live" /\ ~ release[s] /\ ref[s] = 0
  BY <1>0, CallFacts DEF Delete, Memory
<1>2. PhaseOf(s) \in {"starting", "open"}
  BY <1>0, <1>1, Phases
<1>3. /\ release' = [release EXCEPT ![s] = TRUE]
      /\ UNCHANGED <<mem, msgs, inited, q, msg>>
  BY <1>1 DEF Delete, MqMarkRelease, localVars
<1>4. \A r \in Service \ {s} : PhaseOf(r)' = PhaseOf(r)
  BY <1>0, <1>3, PhaseSame DEF TypeOK
<1>5. PhaseOf(s)' = "closing"
  BY <1>0, <1>1, <1>3, PhasesPrime DEF TypeOK
<1>6. \A r \in Service : BusyWith(r)' = BusyWith(r)
  BY <1>3, BusySame
<1>7. BusyWith(s) = NULL
  <2>1. ASSUME NEW u \in Thread, q[u] = s, msg[u] # NULL
        PROVE  FALSE
    <3>1. OwnRefs(u, s) > 0
      BY <1>0, <2>1 DEF Handling, OwnRefs, InLoop
    <3> QED
      BY <1>0, <1>1, <3>1, Referenced
  <2> QED
    BY <1>1, <2>1, BusyServed, ServedByNone
<1> QED
  BY <1>1, <1>2, <1>3, <1>4, <1>5, <1>6, <1>7 DEF M!Close

\* A pop hands the oldest message to the service, which is open and idle.
LEMMA PopHandles ==
  ASSUME BoxInv, BoxInv', NEW w \in Worker, PopMessage(w)
  PROVE  M!Handle(q[w])
<1> DEFINE s == q[w]
<1>0. /\ TypeOK /\ Memory /\ RefCountExact /\ Handling /\ Locals /\ InitDone
      /\ w \in Thread
  BY DEF BoxInv, IInv, Thread
<1>1. s \in Service /\ pc[w] \in {"first", "pop"} /\ msg[w] = NULL
  BY <1>0 DEF PopMessage, Locals, InLoop, TypeOK, Handling, Launch
<1>2. mem[s] = "live" /\ ~ release[s] /\ inited[s]
  <2>1. OwnRefs(w, s) > 0
    BY <1>0, <1>1 DEF OwnRefs, InLoop
  <2> QED
    BY <1>0, <1>1, <2>1, Referenced DEF InitDone, InLoop
<1>3. PhaseOf(s) = "open"
  BY <1>0, <1>1, <1>2, Phases
<1>4. PICK m \in Message : MqPop(s, m) /\ msg' = [msg EXCEPT ![w] = m]
  BY DEF PopMessage
<1>5. /\ msgs[s] # <<>> /\ m = Head(msgs[s]) /\ msgs' = [msgs EXCEPT ![s] = Tail(@)]
      /\ UNCHANGED <<mem, release, inited, q>>
  BY <1>4 DEF PopMessage, MqPop, cVars
<1>6. \A r \in Service : PhaseOf(r)' = PhaseOf(r)
  BY <1>5, PhaseSame
<1>7. BusyWith(s) = NULL
  BY <1>0, <1>1, HeldOnce, BusyServed, ServedByOne
<1>8. BusyWith(s)' = m
  <2>1. msg'[w] = m /\ q'[w] = s
    BY <1>0, <1>4, <1>5 DEF TypeOK
  <2>2. AtMostOne(q', s)
    BY <1>1, HeldOncePrime
  <2> QED
    BY <1>0, <1>1, <2>1, <2>2, BusyServedPrime, ServedByOne
<1>9. \A r \in Service \ {s} : BusyWith(r)' = BusyWith(r)
  <2>1. \A t \in Thread \ {w} : msg'[t] = msg[t]
    BY <1>0, <1>4 DEF TypeOK
  <2> QED
    BY <1>5, <2>1, BusySame
<1> QED
  BY <1>1, <1>3, <1>5, <1>6, <1>7, <1>8, <1>9 DEF M!Handle

\* The end of a callback ends the handling of its message.
LEMMA ReturnIsDone ==
  ASSUME BoxInv, BoxInv', NEW w \in Worker, CbReturn(w)
  PROVE  M!Done(q[w])
<1> DEFINE s == q[w]
<1>0. TypeOK /\ Handling /\ Locals /\ w \in Thread
  BY DEF BoxInv, IInv, Thread
<1>1. s \in Service /\ msg[w] # NULL
  BY <1>0 DEF CbReturn, Ready, Locals, InLoop, TypeOK, Handling
<1>2. /\ msg' = [msg EXCEPT ![w] = NULL]
      /\ UNCHANGED <<mem, release, inited, msgs, q>>
  BY DEF CbReturn, qVars, cVars
<1>3. \A r \in Service : PhaseOf(r)' = PhaseOf(r)
  BY <1>2, PhaseSame
<1>4. BusyWith(s) # NULL
  BY <1>0, <1>1, HeldOnce, BusyServed, ServedByOne
<1>5. BusyWith(s)' = NULL
  <2>1. msg'[w] = NULL /\ q'[w] = s
    BY <1>0, <1>2 DEF TypeOK
  <2>2. AtMostOne(q', s)
    BY <1>1, HeldOncePrime
  <2> QED
    BY <1>0, <1>1, <2>1, <2>2, BusyServedPrime, ServedByOne
<1>6. \A r \in Service \ {s} : BusyWith(r)' = BusyWith(r)
  <2>1. \A t \in Thread \ {w} : msg'[t] = msg[t]
    BY <1>0, <1>2 DEF TypeOK
  <2> QED
    BY <1>2, <2>1, BusySame
<1> QED
  BY <1>1, <1>2, <1>3, <1>4, <1>5, <1>6 DEF M!Done

\* A launch creates a mailbox, empty and not yet open.
LEMMA LaunchCreates ==
  ASSUME BoxInv, BoxInv', NEW w \in Worker, CbLaunch(w)
  PROVE  \E s \in Service : M!Create(s)
<1>0. TypeOK /\ TypeOK' /\ EmptyOutside
  BY DEF BoxInv, IInv
<1>1. PICK s \in Service :
        /\ mem[s] = "none"
        /\ MqCreate(s)
        /\ inited' = [inited EXCEPT ![s] = FALSE]
  BY <1>0 DEF CbLaunch, Known
<1>2. /\ mem' = [mem EXCEPT ![s] = "live"]
      /\ release' = [release EXCEPT ![s] = FALSE]
      /\ UNCHANGED <<q, msg>>
  BY <1>1 DEF MqCreate, CbLaunch
<1>3. UNCHANGED msgs
  BY <1>0, <1>1 DEF EmptyOutside, MqCreate, TypeOK
<1>4. \A r \in Service \ {s} : PhaseOf(r)' = PhaseOf(r)
  BY <1>0, <1>1, <1>2, PhaseSame DEF TypeOK
<1>5. PhaseOf(s) = "none"
  BY <1>0, <1>1, Phases
<1>6. PhaseOf(s)' = "starting"
  BY <1>0, <1>1, <1>2, PhasesPrime DEF TypeOK
<1>7. \A r \in Service : BusyWith(r)' = BusyWith(r)
  BY <1>2, BusySame
<1>8. M!Create(s)
  BY <1>3, <1>4, <1>5, <1>6, <1>7 DEF M!Create
<1> QED
  BY <1>8

\* ctx->init opens a mailbox that nobody has closed meanwhile.
LEMMA SetInitOpens ==
  ASSUME BoxInv, BoxInv', NEW w \in Worker, SetInit(w)
  PROVE  UNCHANGED M!vars \/ \E s \in Service : M!Open(s)
<1>0. TypeOK /\ TypeOK' /\ Locals /\ QueueInOnePlace /\ w \in Thread
  BY DEF BoxInv, IInv, Thread
<1>1. PICK s \in Service : s = new[w]
  BY <1>0 DEF SetInit, Ready, Locals, Launch, TypeOK
<1>2. /\ inited' = [inited EXCEPT ![s] = TRUE]
      /\ UNCHANGED <<mem, release, msgs, q, msg>>
  BY <1>1 DEF SetInit, qVars, localVars
<1>3. \A r \in Service : BusyWith(r)' = BusyWith(r)
  BY <1>2, BusySame
<1>4. \A r \in Service \ {s} : PhaseOf(r)' = PhaseOf(r)
  BY <1>0, <1>2, PhaseSame DEF TypeOK
<1>5. CASE release[s] \/ inited[s]
  <2>1. mem[s] = "live"
    BY <1>0, <1>1 DEF QueueInOnePlace, Placed, Holds
  <2>2. PhaseOf(s)' = PhaseOf(s)
    BY <1>0, <1>2, <1>5, <2>1, Phases, PhasesPrime DEF TypeOK
  <2> QED
    BY <1>2, <1>3, <1>4, <2>2 DEF M!vars
<1>6. CASE ~ release[s] /\ ~ inited[s]
  <2>1. mem[s] = "live"
    BY <1>0, <1>1 DEF QueueInOnePlace, Placed, Holds
  <2>2. PhaseOf(s) = "starting"
    BY <1>0, <1>6, <2>1, Phases
  <2>3. PhaseOf(s)' = "open"
    BY <1>0, <1>2, <1>6, <2>1, PhasesPrime DEF TypeOK
  <2>4. M!Open(s)
    BY <1>2, <1>3, <1>4, <2>2, <2>3 DEF M!Open
  <2> QED
    BY <2>4
<1> QED
  BY <1>5, <1>6

\* The queue that a worker drops: it is there, and marked for release.
LEMMA DroppedIsClosing ==
  ASSUME BoxInv, NEW w \in Worker, pc[w] \in {"drop", "new_drop"}
  PROVE  /\ Dropped(w) \in Service
         /\ mem[Dropped(w)] = "live" /\ release[Dropped(w)]
         /\ PhaseOf(Dropped(w)) = "closing"
<1>0. TypeOK /\ Locals /\ QueueInOnePlace /\ w \in Thread
  BY DEF BoxInv, IInv, Thread
<1>1. PICK s \in Service : s = Dropped(w) /\ Holds(w, s) /\ release[s]
  BY <1>0 DEF Dropped, Locals, Launch, Holds, TypeOK
<1>2. mem[s] = "live"
  BY <1>0, <1>1 DEF QueueInOnePlace, Placed
<1> QED
  BY <1>0, <1>1, <1>2, Phases

\* A message that is dropped is given back by the closing mailbox.
LEMMA DropGivesBack ==
  ASSUME BoxInv, BoxInv', NEW w \in Worker, DropMessage(w)
  PROVE  \E s \in Service : M!GiveBack(s)
<1>1. PICK s \in Service : s = Dropped(w) /\ PhaseOf(s) = "closing"
  BY DroppedIsClosing DEF DropMessage
<1>2. /\ msgs[s] # <<>> /\ msgs' = [msgs EXCEPT ![s] = Tail(@)]
      /\ UNCHANGED <<mem, release, inited, q, msg>>
  BY <1>1 DEF DropMessage, MqPop, cVars, localVars
<1>3. \A r \in Service : PhaseOf(r)' = PhaseOf(r)
  BY <1>2, PhaseSame
<1>4. \A r \in Service : BusyWith(r)' = BusyWith(r)
  BY <1>2, BusySame
<1>5. M!GiveBack(s)
  BY <1>1, <1>2, <1>3, <1>4 DEF M!GiveBack
<1> QED
  BY <1>5

\* The freed queue is an empty mailbox that is gone.
LEMMA FreeIsFree ==
  ASSUME BoxInv, BoxInv', NEW w \in Worker, FreeQueue(w)
  PROVE  \E s \in Service : M!Free(s)
<1>0. TypeOK /\ TypeOK' /\ Handling /\ QueueInOnePlace /\ w \in Thread
  BY DEF BoxInv, IInv, Thread
<1>1. PICK s \in Service : s = Dropped(w) /\ PhaseOf(s) = "closing"
  BY DroppedIsClosing DEF FreeQueue
<1>2. /\ msgs[s] = <<>> /\ mem' = [mem EXCEPT ![s] = "freed"]
      /\ UNCHANGED <<msgs, release, inited, msg>>
  BY <1>1 DEF FreeQueue, MqFree, cVars
<1>3. \A r \in Service \ {s} : PhaseOf(r)' = PhaseOf(r)
  BY <1>0, <1>2, PhaseSame DEF TypeOK
<1>4. PhaseOf(s)' = "gone"
  BY <1>0, <1>2, PhasesPrime DEF TypeOK
<1>5. \A t \in Thread : msg[t] # NULL => q'[t] = q[t]
  BY <1>0 DEF FreeQueue, Handling, Launch, TypeOK
<1>6. \A r \in Service : BusyWith(r)' = BusyWith(r)
  BY <1>2, <1>5, BusySame
<1>7. M!Free(s)
  BY <1>1, <1>2, <1>3, <1>4, <1>6 DEF M!Free
<1> QED
  BY <1>7

\* Every step of Dispatch is a step of Mailbox.
LEMMA StepsAreMailboxSteps ==
  ASSUME BoxInv, BoxInv', [Next]_vars
  PROVE  [M!Next]_(M!vars)
<1>0. TypeOK /\ Handling
  BY DEF BoxInv, IInv
<1>1. ASSUME NEW t \in Thread, CallStep(t)
      PROVE  [M!Next]_(M!vars)
  <2>1. CASE Push(t)
    <3>1. sub[t].s \in Service /\ sub[t].m \in Message
      BY <1>0, <2>1, CallFacts DEF Push
    <3> QED
      BY <2>1, <3>1, PushAccepts DEF M!Next
  <2>2. CASE Delete(t)
    BY <2>2, DeleteCloses DEF M!Next
  <2>3. CASE Grab(t) \/ GrabFails(t) \/ Release(t) \/ Retire(t)
    BY <2>3, BoxStutter DEF Grab, GrabFails, Release, Retire, qVars, cVars, localVars
  <2> QED
    BY <1>1, <2>1, <2>2, <2>3 DEF CallStep
<1>2. ASSUME NEW w \in Worker, BatchStep(w)
      PROVE  [M!Next]_(M!vars)
  <2>0. w \in Thread
    BY DEF Thread
  <2>1. CASE PopMessage(w)
    <3>1. q[w] \in Service
      BY <2>0, <2>1 DEF PopMessage, BoxInv, IInv, Locals, InLoop, TypeOK
    <3> QED
      BY <2>1, <3>1, PopHandles DEF M!Next
  <2>2. CASE ~ PopMessage(w)
    <3>1. UNCHANGED <<mem, release, inited, msgs, msg>>
      BY <1>2, <2>2 DEF BatchStep, Take, GrabQueueOwner, PopEmpty, MqPopEmpty, Length, EndBatch,
         PushBack, TakeNext, qVars, cVars
    <3>2. UNCHANGED q \/ pc[w] \in {"idle", "first", "pop", "pushback", "next"}
      BY <1>2, <2>2 DEF BatchStep, Take, GrabQueueOwner, PopEmpty, Length, EndBatch,
         PushBack, TakeNext, Ready
    <3>3. \A t \in Thread \ {w} : q'[t] = q[t]
      BY <1>0, <1>2, <2>0, <2>2 DEF BatchStep, Take, GrabQueueOwner, PopEmpty, Length, EndBatch,
         PushBack, TakeNext, TypeOK
    <3>4. \A t \in Thread : msg[t] # NULL => q'[t] = q[t]
      BY <1>0, <2>0, <3>2, <3>3 DEF Handling, Launch
    <3> QED
      BY <3>1, <3>4, BoxStutter
  <2> QED
    BY <2>1, <2>2
<1>3. ASSUME NEW w \in Worker, CallbackStep(w)
      PROVE  [M!Next]_(M!vars)
  <2>1. CASE CbReturn(w)
    <3>1. q[w] \in Service
      BY <2>1 DEF CbReturn, Ready, BoxInv, IInv, Locals, InLoop, TypeOK, Thread
    <3> QED
      BY <2>1, <3>1, ReturnIsDone DEF M!Next
  <2>2. CASE CbLaunch(w)
    BY <2>2, LaunchCreates DEF M!Next
  <2>3. CASE CbSend(w) \/ CbRetire(w)
    BY <2>3, BoxStutter DEF CbSend, CbRetire, qVars, cVars
  <2> QED
    BY <1>3, <2>1, <2>2, <2>3 DEF CallbackStep
<1>4. ASSUME NEW w \in Worker, LaunchStep(w)
      PROVE  [M!Next]_(M!vars)
  <2>1. CASE SetInit(w)
    BY <2>1, SetInitOpens DEF M!Next
  <2>2. CASE ~ SetInit(w)
    BY <1>4, <2>2, BoxStutter DEF LaunchStep, InitSend, InitOk, Offer, InitFails, FailRetire,
       qVars, cVars, localVars
  <2> QED
    BY <2>1, <2>2
<1>5. ASSUME NEW w \in Worker, DropStep(w)
      PROVE  [M!Next]_(M!vars)
  <2>1. CASE DropMessage(w)
    BY <2>1, DropGivesBack DEF M!Next
  <2>2. CASE FreeQueue(w)
    BY <2>2, FreeIsFree DEF M!Next
  <2>3. CASE MqReleaseGiveBack(w) \/ MqReleaseDrop(w)
    <3>1. UNCHANGED <<mem, release, inited, msgs, msg>>
      BY <2>3 DEF MqReleaseGiveBack, MqReleaseDrop, MqGiveBack, MqStartDrop, qVars, mqVars, cVars,
         localVars
    <3>2. \A t \in Thread : msg[t] # NULL => q'[t] = q[t]
      BY <1>0, <2>3 DEF MqReleaseGiveBack, MqReleaseDrop, Handling, Launch, TypeOK, localVars
    <3> QED
      BY <3>1, <3>2, BoxStutter
  <2> QED
    BY <1>5, <2>1, <2>2, <2>3 DEF DropStep
<1>6. CASE \E t \in Outside : OutsideSend(t)
  BY <1>6, BoxStutter DEF OutsideSend, qVars, cVars, localVars
<1>7. CASE UNCHANGED vars
  BY <1>7, BoxStutter DEF vars, qVars, cVars, localVars
<1> QED
  BY <1>1, <1>2, <1>3, <1>4, <1>5, <1>6, <1>7 DEF Next, WorkerStep

\* The services of the bootstrap start with open, empty mailboxes.
LEMMA InitIsMailboxInit == Init => M!Init
<1> SUFFICES ASSUME Init PROVE M!Init
  OBVIOUS
<1>1. \A s \in Service : PhaseOf(s) \in {"none", "open"}
  BY DEF Init, PhaseOf
<1>2. \A s \in Service : BusyWith(s) = NULL
  BY BusyServed, ServedByNone DEF Init
<1> QED
  BY <1>1, <1>2 DEF M!Init, Init

\* Messages are handled one at a time, in the order of the pushes, never after
\* the mailbox closed, and a mailbox is freed empty: the safety of Mailbox.
THEOREM TakesMailboxSteps == Spec => M!Init /\ [][M!Next]_(M!vars)
<1>1. BoxInv /\ BoxInv' /\ [Next]_vars => [M!Next]_(M!vars)
  BY StepsAreMailboxSteps
<1> QED
  BY <1>1, InitIsMailboxInit, BoxesKept, PTL DEF Spec
=============================================================================
