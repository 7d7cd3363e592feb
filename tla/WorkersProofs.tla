---------------------------- MODULE WorkersProofs ---------------------------
(***************************************************************************)
(* Machine-checked proofs that the threads of mtask_start.c sleep and stop *)
(* as they should, for every number of workers and services.               *)
(***************************************************************************)
EXTENDS Workers, FiniteSetTheorems, SequenceTheorems, TLAPS

HasMutex == {"check", "wait", "unlock"}
SleepPc  == HasMutex \cup {"waiting", "woken"}
HoldsPc  == {"grab", "giveback", "drop", "pop", "callback"}

\* m->mutex is held by the worker that is inside the critical section.
MutexHeld == \A w \in Worker : pc[w] \in HasMutex <=> mutex = w

\* m->quit is set in the timer's last step; a worker that had tested it
\* before holds the mutex until it waits, and is woken by the broadcast.  The
\* exit command is on its way to the socket thread by then.
QuitSeen ==
  /\ quit <=> timer = "exited"
  /\ quit => \A w \in Worker : pc[w] \notin {"wait", "waiting"}
  /\ exitSent => timer \in {"quit", "exited"}

\* A worker that dispatches has a queue.
HasQueue == \A w \in Worker : pc[w] \in HoldsPc => q[w] # NULL

IInv == /\ TypeOK
        /\ HasQueue
        /\ MutexHeld
        /\ SleepExact
        /\ QuitSeen
        /\ ShutdownIsFinal

\* A worker step that stays outside the sleeping section.
Awake(w) == /\ pc[w] \notin SleepPc
            /\ pc' \in [Worker -> WorkerPc]
            /\ pc'[w] \notin SleepPc
            /\ \A v \in Worker : v # w => pc'[v] = pc[v]
-----------------------------------------------------------------------------
(* The global list.                                                        *)

\* mtask_globalmq_pop gives a queue, or NULL.
LEMMA PopType ==
  ASSUME TypeOK
  PROVE  /\ First \in Service \cup {NULL}
         /\ Rest \in Seq(Service)
         /\ First # NULL => glist # <<>>
         /\ First = NULL => glist = <<>>
<1>1. CASE glist = <<>>
  BY <1>1 DEF First, Rest
<1>2. CASE glist # <<>>
  <2>1. Head(glist) \in Service /\ Tail(glist) \in Seq(Service)
    BY <1>2 DEF TypeOK
  <2> QED
    BY <1>2, <2>1, WorkersAssumption DEF First, Rest
<1> QED
  BY <1>1, <1>2

\* Listing a service keeps the list a list of services.
LEMMA ListedType ==
  ASSUME TypeOK, NEW s \in Service
  PROVE  Listed(s) \in Seq(Service)
BY DEF TypeOK, Listed

\* mtask_context_push keeps the types.
LEMMA PushType ==
  ASSUME TypeOK, NEW s \in Service, CanPush(s), Push(s)
  PROVE  /\ len' \in [Service -> 0 .. MaxLen]
         /\ glist' \in Seq(Service)
         /\ life' = life
<1>1. glist' \in Seq(Service)
  BY ListedType DEF Push
<1>2. len' \in [Service -> 0 .. MaxLen]
  BY WorkersAssumption DEF Push, CanPush, TypeOK
<1> QED
  BY <1>1, <1>2 DEF Push

\* What is left of a batch is a number.
LEMMA BatchType ==
  ASSUME NEW w \in Worker, NEW n \in Nat
  PROVE  BatchAfter(w, n) \in Nat
<1>1. Weight[w] \in -1 .. 3
  BY WorkersAssumption
<1>2. CASE Weight[w] = -1
  BY <1>2 DEF BatchAfter
<1>3. CASE Weight[w] \in 0 .. 3
  <2>1. Shift(n, Weight[w]) \in Nat
    BY <1>3 DEF Shift
  <2> QED
    BY <2>1 DEF BatchAfter
<1> QED
  BY <1>1, <1>2, <1>3

\* What mtask_mq_release and an empty queue have in common.
LEMMA LetGoType ==
  ASSUME TypeOK, NEW w \in Worker, LetGo(w)
  PROVE  /\ pc' \in [Worker -> WorkerPc]
         /\ pc'[w] \in {"lock", "loop"}
         /\ \A v \in Worker : v # w => pc'[v] = pc[v] /\ q'[v] = q[v]
         /\ q' \in [Worker -> Service \cup {NULL}]
         /\ glist' \in Seq(Service)
         /\ left' \in [Worker -> Nat]
         /\ life' = life /\ len' = len
<1>1. First \in Service \cup {NULL} /\ Rest \in Seq(Service)
  BY PopType
<1> QED
  BY <1>1 DEF LetGo, Goto, TypeOK, WorkerPc
-----------------------------------------------------------------------------
(* Dispatching.                                                            *)

\* A worker that dispatches keeps types and queues, and stays awake.
LEMMA DispatchTypes ==
  ASSUME TypeOK, HasQueue, NEW w \in Worker, DispatchStep(w) \/ Call(w) \/ Return(w)
  PROVE  TypeOK' /\ HasQueue' /\ Awake(w) /\ UNCHANGED <<condVars, restVars>>
<1> USE DEF HoldsPc, HasMutex, SleepPc
<1>0. UNCHANGED <<condVars, restVars>>
  BY DEF DispatchStep, Loop, Fetch, Grab, GiveBack, DropMessage, DropQueue, PopMessage,
         PopNothing, Call, Return, LetGo
<1>1. CASE Loop(w)
  BY <1>0, <1>1 DEF Loop, Goto, TypeOK, HasQueue, Awake, WorkerPc, svcVars, condVars, restVars
<1>2. CASE Fetch(w)
  <2>1. First \in Service \cup {NULL} /\ Rest \in Seq(Service)
    BY PopType
  <2> QED
    BY <1>0, <1>2, <2>1 DEF Fetch, Goto, TypeOK, HasQueue, Awake, WorkerPc, condVars, restVars
<1>3. CASE Grab(w)
  BY <1>0, <1>3 DEF Grab, Goto, TypeOK, HasQueue, Awake, WorkerPc, svcVars, condVars, restVars
<1>4. CASE GiveBack(w)
  <2>1. q[w] \in Service /\ glist \in Seq(Service)
    BY <1>4 DEF GiveBack, TypeOK, HasQueue
  <2>2. Append(glist, q[w]) \in Seq(Service) /\ Append(glist, q[w]) # <<>>
    BY <2>1
  <2>3. Head(Append(glist, q[w])) \in Service /\ Tail(Append(glist, q[w])) \in Seq(Service)
    BY <2>2
  <2> QED
    BY <1>0, <1>4, <2>3, WorkersAssumption
       DEF GiveBack, Goto, TypeOK, HasQueue, Awake, WorkerPc, condVars, restVars
<1>5. CASE DropMessage(w)
  <2>1. q[w] \in Service
    BY <1>5 DEF DropMessage, TypeOK, HasQueue
  <2>2. glist' \in Seq(Service) /\ len' \in [Service -> 0 .. MaxLen] /\ life' = life
    <3> DEFINE dropped == [len EXCEPT ![q[w]] = @ - 1]
    <3>1. dropped \in [Service -> 0 .. MaxLen] /\ \A s \in Service : dropped[s] <= len[s]
      BY <1>5, <2>1, WorkersAssumption DEF DropMessage, TypeOK
    <3>2. \/ len' = dropped /\ UNCHANGED glist
          \/ \E s \in Service : /\ CanPush(s)
                                /\ len' = [dropped EXCEPT ![s] = @ + 1]
                                /\ glist' = Listed(s)
      BY <1>5 DEF DropMessage
    <3> HIDE DEF dropped
    <3>3. CASE len' = dropped /\ UNCHANGED glist
      BY <1>5, <3>1, <3>3 DEF DropMessage, TypeOK
    <3>4. ASSUME NEW s \in Service, CanPush(s), len' = [dropped EXCEPT ![s] = @ + 1],
                 glist' = Listed(s)
          PROVE  glist' \in Seq(Service) /\ len' \in [Service -> 0 .. MaxLen]
      <4>1. dropped[s] + 1 \in 0 .. MaxLen
        BY <3>1, <3>4, WorkersAssumption DEF CanPush, TypeOK
      <4> QED
        BY <3>1, <3>4, <4>1, ListedType
    <3> QED
      BY <1>5, <3>2, <3>3, <3>4 DEF DropMessage
  <2> QED
    BY <1>0, <1>5, <2>2
       DEF DropMessage, TypeOK, HasQueue, Awake, WorkerPc, workVars, condVars, restVars
<1>6. CASE DropQueue(w) \/ PopNothing(w)
  <2>1. LetGo(w)
    BY <1>6 DEF DropQueue, PopNothing
  <2> QED
    <3>1. /\ pc' \in [Worker -> WorkerPc]
          /\ pc'[w] \in {"lock", "loop"}
          /\ \A v \in Worker : v # w => pc'[v] = pc[v] /\ q'[v] = q[v]
      BY <2>1, LetGoType
    <3>2. TypeOK'
      BY <1>0, <2>1, LetGoType DEF TypeOK, condVars, restVars
    <3>3. HasQueue'
      BY <3>1 DEF HasQueue
    <3>4. Awake(w)
      BY <1>6, <3>1 DEF DropQueue, PopNothing, Awake
    <3> QED
      BY <1>0, <3>2, <3>3, <3>4
<1>7. CASE PopMessage(w)
  <2>1. q[w] \in Service
    BY <1>7 DEF PopMessage, TypeOK, HasQueue
  <2>2. len[q[w]] - 1 \in Nat /\ len' \in [Service -> 0 .. MaxLen]
    BY <1>7, <2>1, WorkersAssumption DEF PopMessage, TypeOK
  <2> DEFINE b == BatchAfter(w, len[q[w]] - 1)
  <2>3. b \in Nat
    BY <2>2, BatchType
  <2>4. left' = [left EXCEPT ![w] = IF @ = 0 THEN b ELSE @ - 1]
    BY <1>7 DEF PopMessage
  <2> HIDE DEF b
  <2>5. left' \in [Worker -> Nat]
    BY <2>3, <2>4 DEF TypeOK
  <2> QED
    BY <1>0, <1>7, <2>2, <2>5
       DEF PopMessage, Goto, TypeOK, HasQueue, Awake, WorkerPc, condVars, restVars
<1>8. CASE Call(w)
  <2>1. /\ life' \in [Service -> {"unborn", "alive", "dead"}]
        /\ len' \in [Service -> 0 .. MaxLen]
        /\ glist' \in Seq(Service)
    <3>1. PICK s \in Service :
            \/ CanPush(s) /\ Push(s)
            \/ /\ life' = [life EXCEPT ![s] = "alive"]
               /\ glist' = Append(glist, s)
               /\ UNCHANGED len
            \/ /\ life' = [life EXCEPT ![s] = "dead"]
               /\ glist' = Listed(s)
               /\ UNCHANGED len
      BY <1>8 DEF Call
    <3>2. CASE CanPush(s) /\ Push(s)
      <4>1. life' = life /\ len' \in [Service -> 0 .. MaxLen] /\ glist' \in Seq(Service)
        BY <3>2, PushType DEF TypeOK
      <4> QED BY <4>1 DEF TypeOK
    <3>3. CASE life' = [life EXCEPT ![s] = "alive"] /\ glist' = Append(glist, s) /\ UNCHANGED len
      BY <3>3 DEF TypeOK
    <3>4. CASE life' = [life EXCEPT ![s] = "dead"] /\ glist' = Listed(s) /\ UNCHANGED len
      BY <3>4, ListedType DEF TypeOK
    <3> QED
      BY <3>1, <3>2, <3>3, <3>4
  <2>2. pc[w] = "callback" /\ UNCHANGED <<workVars, condVars, restVars>>
    BY <1>8 DEF Call
  <2>3. TypeOK'
    BY <2>1, <2>2 DEF TypeOK, workVars, condVars, restVars
  <2>4. HasQueue' /\ Awake(w)
    BY <2>2 DEF HasQueue, Awake, TypeOK, workVars
  <2> QED
    BY <2>2, <2>3, <2>4 DEF condVars, restVars
<1>9. CASE Return(w)
  <2>1. q[w] \in Service
    BY <1>9 DEF Return, TypeOK, HasQueue
  <2>2. First \in Service \cup {NULL} /\ Append(Rest, q[w]) \in Seq(Service)
    BY <2>1, PopType
  <2>3. /\ pc' = [pc EXCEPT ![w] = IF left[w] > 0 THEN "pop" ELSE "loop"]
        /\ pc[w] = "callback"
        /\ UNCHANGED <<life, len, left, condVars, restVars>>
    BY <1>9 DEF Return, Goto
  <2>4. /\ q' \in [Worker -> Service \cup {NULL}]
        /\ glist' \in Seq(Service)
        /\ \A v \in Worker : q[v] # NULL => q'[v] # NULL
    BY <1>9, <2>1, <2>2 DEF Return, TypeOK
  <2>5. pc' \in [Worker -> WorkerPc]
    BY <2>3 DEF TypeOK, WorkerPc
  <2>6. TypeOK'
    BY <2>3, <2>4, <2>5 DEF TypeOK, condVars, restVars
  <2>7. HasQueue' /\ Awake(w)
    BY <2>1, <2>3, <2>4, <2>5, WorkersAssumption DEF TypeOK, HasQueue, Awake
  <2> QED
    BY <1>0, <2>6, <2>7
<1> QED
  BY <1>1, <1>2, <1>3, <1>4, <1>5, <1>6, <1>7, <1>8, <1>9 DEF DispatchStep

\* Who stays awake changes nothing that the mutex and m->sleep stand for.
LEMMA AwakeKeeps ==
  ASSUME IInv, NEW w \in Worker, Awake(w), UNCHANGED <<condVars, restVars>>
  PROVE  MutexHeld' /\ SleepExact' /\ QuitSeen'
<1> USE DEF IInv, Awake, SleepPc, HasMutex, condVars, restVars
<1>1. MutexHeld'
  <2> SUFFICES ASSUME NEW v \in Worker
               PROVE  pc'[v] \in HasMutex <=> mutex' = v
    BY DEF MutexHeld
  <2> QED
    BY DEF MutexHeld
<1>2. Sleeping' = Sleeping
  BY DEF Sleeping
<1>3. SleepExact'
  BY <1>2 DEF SleepExact
<1>4. QuitSeen'
  BY DEF QuitSeen
<1> QED
  BY <1>1, <1>3, <1>4

\* Once no service is left a worker makes none: the only callbacks are those
\* of the reserved service, which launches nothing.
LEMMA DispatchLiving ==
  ASSUME TypeOK, HasQueue, Living = {}, NEW w \in Worker,
         DispatchStep(w) \/ Call(w) \/ Return(w)
  PROVE  Living' = {}
<1>1. /\ \A s \in Service \ Reserved : life[s] # "alive"
      /\ \A v \in Worker : InBatch(v) => q[v] \in Reserved
  BY DEF Living, TypeOK, HasQueue, InBatch, HoldsPc
<1>2. \A s \in Service \ Reserved : life'[s] # "alive"
  <2>1. CASE Call(w)
    <3>1. q[w] \in Reserved
      BY <1>1, <2>1 DEF Call, InBatch
    <3> QED
      BY <1>1, <2>1, <3>1 DEF Call, Push, TypeOK
  <2>2. CASE ~ Call(w)
    BY <1>1, <2>2 DEF DispatchStep, Loop, Fetch, Grab, GiveBack, DropMessage, DropQueue,
       PopMessage, PopNothing, LetGo, Return, svcVars
  <2> QED
    BY <2>1, <2>2
<1>3. ASSUME NEW v \in Worker, InBatch(v)'
      PROVE  q'[v] \in Reserved
  <2>0. Awake(w)
    BY DispatchTypes
  <2>1. CASE v # w
    <3>1. q'[v] = q[v] /\ InBatch(v)
      BY <1>3, <2>0, <2>1
         DEF DispatchStep, Loop, Fetch, Grab, GiveBack, DropMessage, DropQueue, PopMessage,
             PopNothing, LetGo, Call, Return, InBatch, Awake, workVars, TypeOK
    <3> QED
      BY <3>1, <1>1
  <2>2. CASE v = w
    <3>1. pc'[w] \in {"pop", "callback"}
      BY <1>3, <2>2 DEF InBatch
    <3>2. CASE Grab(w)
      <4>1. q[w] \in Service /\ life[q[w]] = "alive" /\ q' = q
        BY <3>1, <3>2 DEF Grab, Goto, TypeOK, HasQueue, HoldsPc
      <4> QED
        BY <1>1, <2>2, <4>1
    <3>3. CASE PopMessage(w) \/ Call(w) \/ Return(w)
      <4>1. q'[w] = q[w] /\ InBatch(w)
        BY <3>1, <3>3 DEF PopMessage, Call, Return, Goto, InBatch, TypeOK, workVars
      <4> QED
        BY <1>1, <2>2, <4>1
    <3>4. CASE Loop(w) \/ Fetch(w) \/ GiveBack(w)
      BY <3>1, <3>4 DEF Loop, Fetch, GiveBack, Goto, TypeOK
    <3>5. CASE DropQueue(w) \/ PopNothing(w)
      BY <3>1, <3>5, LetGoType DEF DropQueue, PopNothing
    <3>6. CASE DropMessage(w)
      BY <3>1, <3>6 DEF DropMessage, workVars
    <3> QED
      BY <3>2, <3>3, <3>4, <3>5, <3>6 DEF DispatchStep
  <2> QED
    BY <2>1, <2>2
<1> QED
  BY <1>2, <1>3 DEF Living

\* Dispatching keeps the invariant.
LEMMA DispatchIInv ==
  ASSUME IInv, NEW w \in Worker, DispatchStep(w) \/ Call(w) \/ Return(w)
  PROVE  IInv'
<1>1. TypeOK' /\ HasQueue' /\ Awake(w) /\ UNCHANGED <<condVars, restVars>>
  BY DispatchTypes DEF IInv
<1>2. MutexHeld' /\ SleepExact' /\ QuitSeen'
  BY <1>1, AwakeKeeps
<1>3. ShutdownIsFinal'
  BY <1>1, DispatchLiving DEF IInv, ShutdownIsFinal, restVars
<1> QED
  BY <1>1, <1>2, <1>3 DEF IInv
-----------------------------------------------------------------------------
(* Sleeping.                                                               *)

\* Where a worker goes.
LEMMA GotoPc ==
  ASSUME TypeOK, NEW w \in Worker, NEW p \in WorkerPc, Goto(w, p)
  PROVE  /\ pc' \in [Worker -> WorkerPc]
         /\ pc'[w] = p
         /\ \A v \in Worker : v # w => pc'[v] = pc[v]
BY DEF TypeOK, Goto

\* The sleeping workers can be counted.
LEMMA SleepingFinite == IsFiniteSet(Sleeping) /\ IsFiniteSet(Sleeping')
BY WorkersAssumption, FS_Subset DEF Sleeping

\* No context is made or grabbed when workers go between these positions.
LEMMA LivingFrame ==
  ASSUME UNCHANGED <<life, q>>, \A v \in Worker : InBatch(v)' <=> InBatch(v)
  PROVE  Living' = Living
BY DEF Living

\* ++ m->sleep.
LEMMA LockIInv ==
  ASSUME IInv, NEW w \in Worker, Lock(w)
  PROVE  IInv'
<1> USE DEF IInv, HasMutex, SleepPc, HoldsPc
<1>1. /\ pc[w] = "lock" /\ pc'[w] = "check"
      /\ pc' \in [Worker -> WorkerPc]
      /\ \A v \in Worker : v # w => pc'[v] = pc[v]
  BY GotoPc DEF Lock, WorkerPc
<1>2. Sleeping' = Sleeping \cup {w} /\ w \notin Sleeping
  BY <1>1 DEF Sleeping
<1>3. Cardinality(Sleeping') = Cardinality(Sleeping) + 1
  BY <1>2, SleepingFinite, FS_AddElement
<1>4. SleepExact'
  BY <1>3 DEF SleepExact, Lock
<1>5. TypeOK' /\ HasQueue'
  BY <1>1, WorkersAssumption DEF Lock, TypeOK, HasQueue, svcVars, restVars
<1>6. MutexHeld' /\ QuitSeen'
  BY <1>1, WorkersAssumption DEF Lock, MutexHeld, QuitSeen, restVars
<1>7. Living' = Living
  BY <1>1, LivingFrame DEF Lock, InBatch, svcVars
<1>8. ShutdownIsFinal'
  BY <1>7 DEF ShutdownIsFinal, Lock, restVars
<1> QED
  BY <1>4, <1>5, <1>6, <1>8

\* -- m->sleep: there is one more to count down than the others.
LEMMA UnlockIInv ==
  ASSUME IInv, NEW w \in Worker, Unlock(w)
  PROVE  IInv'
<1> USE DEF IInv, HasMutex, SleepPc, HoldsPc
<1>1. /\ pc[w] = "unlock" /\ pc'[w] = "loop"
      /\ pc' \in [Worker -> WorkerPc]
      /\ \A v \in Worker : v # w => pc'[v] = pc[v]
  BY GotoPc DEF Unlock, WorkerPc
<1>2. Sleeping' = Sleeping \ {w} /\ w \in Sleeping
  BY <1>1 DEF Sleeping
<1>3. Cardinality(Sleeping') = Cardinality(Sleeping) - 1 /\ Cardinality(Sleeping') \in Nat
  BY <1>2, SleepingFinite, FS_RemoveElement, FS_CardinalityType
<1>4. SleepExact' /\ sleep' \in Nat
  BY <1>3 DEF SleepExact, Unlock
<1>5. TypeOK' /\ HasQueue'
  BY <1>1, <1>4 DEF Unlock, TypeOK, HasQueue, svcVars, restVars
<1>6. MutexHeld' /\ QuitSeen'
  BY <1>1, WorkersAssumption DEF Unlock, MutexHeld, QuitSeen, restVars
<1>7. Living' = Living
  BY <1>1, LivingFrame DEF Unlock, InBatch, svcVars
<1>8. ShutdownIsFinal'
  BY <1>7 DEF ShutdownIsFinal, Unlock, restVars
<1> QED
  BY <1>4, <1>5, <1>6, <1>8

\* The steps of a worker that stays asleep: here m->quit and the mutex meet.
LEMMA AsleepIInv ==
  ASSUME IInv, NEW w \in Worker,
         CheckQuit(w) \/ Wait(w) \/ SpuriousWakeup(w) \/ Wake(w)
  PROVE  IInv'
<1> USE DEF IInv, HasMutex, SleepPc, HoldsPc
<1>1. /\ pc[w] \in SleepPc /\ pc'[w] \in SleepPc
      /\ pc' \in [Worker -> WorkerPc]
      /\ \A v \in Worker : v # w => pc'[v] = pc[v]
  BY GotoPc DEF CheckQuit, Wait, SpuriousWakeup, Wake, WorkerPc
<1>2. UNCHANGED <<svcVars, q, left, sleep, quit, restVars>>
  BY DEF CheckQuit, Wait, SpuriousWakeup, Wake, condVars
<1>3. Sleeping' = Sleeping
  BY <1>1 DEF Sleeping
<1>4. SleepExact'
  BY <1>2, <1>3 DEF SleepExact
<1>5. TypeOK' /\ HasQueue'
  BY <1>1, <1>2 DEF CheckQuit, Wait, SpuriousWakeup, Wake, TypeOK, HasQueue,
     svcVars, condVars, restVars
<1>6. MutexHeld' /\ QuitSeen'
  <2>1. CASE CheckQuit(w)
    <3>1. pc'[w] = IF quit THEN "unlock" ELSE "wait"
      BY <2>1 DEF CheckQuit, Goto, TypeOK
    <3> QED
      BY <1>1, <1>2, <2>1, <3>1 DEF CheckQuit, MutexHeld, QuitSeen, condVars, restVars
  <2>2. CASE Wait(w)
    <3>1. pc[w] = "wait" /\ pc'[w] = "waiting" /\ mutex' = NULL
      BY <2>2, GotoPc DEF Wait, WorkerPc
    <3> QED
      BY <1>1, <1>2, <3>1, WorkersAssumption DEF MutexHeld, QuitSeen, restVars
  <2>3. CASE SpuriousWakeup(w)
    <3>1. pc[w] = "waiting" /\ pc'[w] = "woken" /\ mutex' = mutex
      BY <2>3, GotoPc DEF SpuriousWakeup, WorkerPc, condVars
    <3> QED
      BY <1>1, <1>2, <3>1 DEF MutexHeld, QuitSeen, restVars
  <2>4. CASE Wake(w)
    <3>1. pc[w] = "woken" /\ pc'[w] = "unlock" /\ mutex = NULL /\ mutex' = w
      BY <2>4, GotoPc DEF Wake, WorkerPc
    <3> QED
      BY <1>1, <1>2, <3>1, WorkersAssumption DEF MutexHeld, QuitSeen, restVars
  <2> QED
    BY <2>1, <2>2, <2>3, <2>4
<1>7. Living' = Living
  BY <1>1, <1>2, LivingFrame DEF InBatch, svcVars
<1>8. ShutdownIsFinal'
  BY <1>2, <1>7 DEF ShutdownIsFinal, restVars
<1> QED
  BY <1>4, <1>5, <1>6, <1>8
-----------------------------------------------------------------------------
(* The other threads.                                                      *)

\* Whoever wakes workers, one or all of them, leaves them asleep.
LEMMA WokenKeeps ==
  ASSUME TypeOK, HasQueue, MutexHeld, SleepExact,
         pc' \in [Worker -> WorkerPc],
         \A v \in Worker : pc'[v] = pc[v] \/ (pc[v] = "waiting" /\ pc'[v] = "woken"),
         UNCHANGED <<svcVars, q, sleep, mutex>>
  PROVE  HasQueue' /\ MutexHeld' /\ SleepExact' /\ Living' = Living
<1>1. HasQueue'
  BY DEF HasQueue, HoldsPc
<1>2. MutexHeld'
  BY DEF MutexHeld, HasMutex
<1>3. Sleeping' = Sleeping
  BY DEF Sleeping
<1>4. Living' = Living
  BY LivingFrame DEF InBatch, svcVars
<1> QED
  BY <1>1, <1>2, <1>3, <1>4 DEF SleepExact

\* pthread_cond_signal as far as pc is concerned.
LEMMA SignalPc ==
  ASSUME TypeOK, Signal
  PROVE  /\ pc' \in [Worker -> WorkerPc]
         /\ \A v \in Worker : pc'[v] = pc[v] \/ (pc[v] = "waiting" /\ pc'[v] = "woken")
<1>1. CASE UNCHANGED pc
  BY <1>1 DEF TypeOK
<1>2. CASE \E w \in Worker : pc[w] = "waiting" /\ Goto(w, "woken")
  BY <1>2 DEF Goto, TypeOK, WorkerPc
<1> QED
  BY <1>1, <1>2 DEF Signal

\* A count of 0 means that no service is left.
LEMMA NoneLiving ==
  ASSUME Total = 0
  PROVE  Living = {}
<1>1. IsFiniteSet(Living)
  BY WorkersAssumption, FS_Subset DEF Living
<1> QED
  BY <1>1, FS_EmptySet DEF Total

\* The timer's and the socket thread's pushes change no life.
LEMMA EventIInv ==
  ASSUME IInv, TimeOut \/ PollEvent
  PROVE  IInv'
<1> USE DEF IInv
<1>1. /\ len' \in [Service -> 0 .. MaxLen] /\ glist' \in Seq(Service) /\ life' = life
  BY PushType DEF TimeOut, PollEvent, svcVars, TypeOK
<1>2. UNCHANGED <<workVars, condVars, timer, monitor, exitSent>>
      /\ (socket' = socket \/ (socket = "poll" /\ socket' \in {"more", "wakeup"}))
  BY DEF TimeOut, PollEvent, restVars
<1>3. TypeOK'
  BY <1>1, <1>2 DEF TypeOK, workVars, condVars
<1>4. HasQueue' /\ MutexHeld' /\ QuitSeen'
  BY <1>2 DEF HasQueue, MutexHeld, QuitSeen, workVars, condVars
<1>5. Sleeping' = Sleeping /\ Living' = Living
  BY <1>1, <1>2 DEF Sleeping, Living, InBatch, workVars
<1>6. SleepExact' /\ ShutdownIsFinal'
  BY <1>2, <1>5 DEF SleepExact, ShutdownIsFinal, condVars
<1> QED
  BY <1>3, <1>4, <1>6

\* The steps that touch workers not at all.
LEMMA ThreadIInv ==
  ASSUME IInv, \/ TimerCheck \/ TimerWakeup \/ SocketExit
               \/ PollExit \/ SocketCheck \/ SocketWakeup \/ MonitorCheck
  PROVE  IInv'
<1> USE DEF IInv
<1>1. UNCHANGED <<svcVars, workVars, condVars>>
  BY DEF TimerCheck, TimerWakeup, SocketExit, PollExit, SocketCheck, SocketWakeup, MonitorCheck
<1>2. TypeOK'
  BY <1>1 DEF TimerCheck, TimerWakeup, SocketExit, PollExit, SocketCheck, SocketWakeup,
     MonitorCheck, TypeOK, svcVars, workVars, condVars
<1>3. HasQueue' /\ MutexHeld'
  BY <1>1 DEF HasQueue, MutexHeld, workVars, condVars
<1>4. QuitSeen'
  BY <1>1 DEF TimerCheck, TimerWakeup, SocketExit, PollExit, SocketCheck, SocketWakeup,
     MonitorCheck, QuitSeen, workVars, condVars
<1>5. Sleeping' = Sleeping /\ Living' = Living
  BY <1>1 DEF Sleeping, Living, InBatch, workVars, svcVars
<1>6. SleepExact'
  BY <1>1, <1>5 DEF SleepExact, condVars
<1>7. ShutdownIsFinal'
  <2>1. CASE TimerCheck \/ SocketCheck \/ MonitorCheck
    BY <1>5, <2>1, NoneLiving DEF TimerCheck, SocketCheck, MonitorCheck, ShutdownIsFinal
  <2>2. CASE TimerWakeup \/ SocketWakeup
    BY <1>5, <2>2 DEF TimerWakeup, SocketWakeup, ShutdownIsFinal
  <2>3. CASE SocketExit
    BY <1>5, <2>3 DEF SocketExit, ShutdownIsFinal
  <2>4. CASE PollExit
    <3>1. timer \in {"quit", "exited"}
      BY <2>4 DEF PollExit, QuitSeen
    <3> QED
      BY <1>5, <2>4, <3>1 DEF PollExit, ShutdownIsFinal
  <2> QED
    BY <2>1, <2>2, <2>3, <2>4
<1> QED
  BY <1>2, <1>3, <1>4, <1>6, <1>7

\* The steps that wake workers.
LEMMA WakersIInv ==
  ASSUME IInv, TimerSignal \/ SocketSignal \/ Quit
  PROVE  IInv'
<1> USE DEF IInv
<1>1. /\ pc' \in [Worker -> WorkerPc]
      /\ \A v \in Worker : pc'[v] = pc[v] \/ (pc[v] = "waiting" /\ pc'[v] = "woken")
  <2>1. CASE TimerSignal \/ SocketSignal
    BY <2>1, SignalPc DEF TimerSignal, SocketSignal
  <2>2. CASE Quit
    BY <2>2 DEF Quit, TypeOK, WorkerPc
  <2> QED
    BY <2>1, <2>2
<1>2. UNCHANGED <<svcVars, q, left, sleep, mutex, monitor, exitSent>>
  BY DEF TimerSignal, SocketSignal, Quit, condVars
<1>3. HasQueue' /\ MutexHeld' /\ SleepExact' /\ Living' = Living
  BY <1>1, <1>2, WokenKeeps
<1>4. TypeOK'
  BY <1>1, <1>2 DEF TimerSignal, SocketSignal, Quit, TypeOK, svcVars, condVars
<1>5. QuitSeen'
  <2>1. CASE TimerSignal \/ SocketSignal
    BY <1>1, <2>1 DEF TimerSignal, SocketSignal, QuitSeen, condVars
  <2>2. CASE Quit
    <3>1. \A v \in Worker : pc[v] # "wait"
      BY <2>2, WorkersAssumption DEF Quit, MutexHeld, HasMutex
    <3> QED
      BY <2>2, <3>1 DEF Quit, QuitSeen, TypeOK
  <2> QED
    BY <2>1, <2>2
<1>6. ShutdownIsFinal'
  BY <1>3 DEF TimerSignal, SocketSignal, Quit, ShutdownIsFinal
<1> QED
  BY <1>3, <1>4, <1>5, <1>6
-----------------------------------------------------------------------------
(* The invariant.                                                          *)

\* The threads start with every service of Boot listed.
LEMMA InitIInv == Init => IInv
<1> SUFFICES ASSUME Init PROVE IInv
  OBVIOUS
<1>1. glist \in Seq(Service)
  <2>1. Cardinality(Boot) \in Nat
    BY WorkersAssumption, FS_Subset, FS_CardinalityType
  <2>2. glist \in [1 .. Cardinality(Boot) -> Service]
    BY WorkersAssumption DEF Init
  <2> QED
    BY <2>1, <2>2, SeqDef
<1>2. TypeOK
  BY <1>1, WorkersAssumption DEF Init, TypeOK, WorkerPc
<1>3. HasQueue /\ MutexHeld /\ QuitSeen /\ ShutdownIsFinal
  BY WorkersAssumption DEF Init, HasQueue, HoldsPc, MutexHeld, HasMutex, QuitSeen, ShutdownIsFinal
<1>4. Sleeping = {}
  BY DEF Init, Sleeping
<1>5. SleepExact
  BY <1>4, FS_EmptySet DEF Init, SleepExact
<1> QED
  BY <1>2, <1>3, <1>5 DEF IInv

\* The invariant holds for every number of workers and services.
THEOREM Invariance == Spec => []IInv
<1>1. IInv /\ UNCHANGED vars => IInv'
  BY DEF IInv, TypeOK, HasQueue, MutexHeld, SleepExact, Sleeping, QuitSeen, ShutdownIsFinal,
     Living, InBatch, vars, svcVars, workVars, condVars, restVars
<1>2. ASSUME IInv, NEW w \in Worker, WorkerStep(w)
      PROVE  IInv'
  BY <1>2, DispatchIInv, LockIInv, UnlockIInv, AsleepIInv DEF WorkerStep, SleepStep
<1>3. IInv /\ [Next]_vars => IInv'
  BY <1>1, <1>2, EventIInv, ThreadIInv, WakersIInv DEF Next, TimerStep, SocketStep, Joined
<1> QED
  BY <1>3, InitIInv, PTL DEF Spec

\* m->sleep of mtask_start.c is exact, so wakeup decides on a true count.
THEOREM SleepersCounted == Spec => []SleepExact
BY Invariance, PTL DEF IInv

\* thread_timer's broadcast reaches everyone: nobody waits for ever after it.
THEOREM NobodyLeftWaiting == Spec => []NoneWaitsAfterQuit
<1>1. IInv => NoneWaitsAfterQuit
  BY DEF IInv, QuitSeen, NoneWaitsAfterQuit
<1> QED
  BY <1>1, Invariance, PTL

\* CHECK_ABORT stops threads only when no service is left or can be made.
THEOREM ShutdownFinal == Spec => []ShutdownIsFinal
BY Invariance, PTL DEF IInv

\* Types of the state of mtask_start.c's threads.
THEOREM TypeCorrect == Spec => []TypeOK
BY Invariance, PTL DEF IInv

\* m->sleep is exact, and thread_timer's broadcast leaves nobody asleep.
THEOREM SleepIsSound == Spec => []SleepSound
BY TypeCorrect, SleepersCounted, NobodyLeftWaiting, PTL DEF SleepSound
=============================================================================
