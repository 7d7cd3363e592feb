---------------------------- MODULE NativeProofs ----------------------------
(***************************************************************************)
(* Machine-checked proofs about five components in C that share no state:  *)
(* the lock of rwlock.h excludes, the circular buffer of mtask_mq.c is a   *)
(* queue, the objects and copies of mtask_lua_stm.c are there as long as   *)
(* somebody has them and no longer, the wheel of mtask_timer.c keeps every *)
(* deadline, and mtask_monitor.c marks nobody who has returned; for any    *)
(* number of threads, readers, timers and services, any initial size and   *)
(* growth of the buffer and any number of slots of the wheel.              *)
(***************************************************************************)
EXTENDS RwLock, RingQueue, Stm, TimerWheel, Monitor, WellFoundedInduction, SequenceTheorems,
        FiniteSetTheorems, TLAPS

-----------------------------------------------------------------------------
(* rwlock.h: threads that lock.                                            *)

\* The word is set exactly while one thread has it.
WordHeld ==
  /\ \A t \in Thread : pc[t] \in {"w_wait", "writing"} => write = 1
  /\ \A t, u \in Thread : /\ pc[t] \in {"w_wait", "writing"}
                          /\ pc[u] \in {"w_wait", "writing"}
                          => t = u

\* MutualExclusion alone is not inductive: a writer enters when lock->read is
\* 0, so the count must be exact, and two writers are kept apart by the word.
NoReaders == \A t, u \in Thread : pc[t] = "writing" => pc[u] # "reading"

LockInv == TypeOK /\ ReadExact /\ WordHeld /\ NoReaders

\* The sets of counted readers are finite.
LEMMA CountedFinite == IsFiniteSet(Counted) /\ IsFiniteSet(Counted')
BY RwLockAssumption, FS_Subset DEF Counted

\* The initial state satisfies the invariant.
LEMMA InitLockInv == Init => LockInv
<1> SUFFICES ASSUME Init PROVE LockInv
  OBVIOUS
<1>1. TypeOK /\ WordHeld /\ NoReaders
  BY DEF Init, TypeOK, Pc, WordHeld, NoReaders
<1>2. Counted = {}
  BY DEF Init, Counted
<1>3. ReadExact
  BY <1>2, FS_EmptySet DEF Init, ReadExact
<1> QED
  BY <1>1, <1>3 DEF LockInv

\* Where a thread goes.
LEMMA GotoPc ==
  ASSUME TypeOK, NEW t \in Thread, NEW p \in Pc, Goto(t, p)
  PROVE  /\ pc' \in [Thread -> Pc]
         /\ pc'[t] = p
         /\ \A u \in Thread : u # t => pc'[u] = pc[u]
BY DEF TypeOK, Goto

\* A reader that adds itself is counted, one that takes itself out is not.
LEMMA CountUp ==
  ASSUME TypeOK, ReadExact, NEW t \in Thread, NEW p \in {"r_test", "r_dec", "reading"},
         pc[t] \notin {"r_test", "r_dec", "reading"}, Goto(t, p), read' = read + 1
  PROVE  ReadExact'
<1>1. /\ pc'[t] = p
      /\ \A u \in Thread : u # t => pc'[u] = pc[u]
  BY GotoPc DEF Pc
<1>2. Counted' = Counted \cup {t} /\ t \notin Counted
  BY <1>1 DEF Counted
<1>3. Cardinality(Counted \cup {t}) = Cardinality(Counted) + 1
  BY <1>2, CountedFinite, FS_AddElement
<1> QED
  BY <1>2, <1>3 DEF ReadExact

LEMMA CountDown ==
  ASSUME TypeOK, ReadExact, NEW t \in Thread, NEW p \in Pc \ {"r_test", "r_dec", "reading"},
         pc[t] \in {"r_test", "r_dec", "reading"}, Goto(t, p), read' = read - 1
  PROVE  ReadExact' /\ read' \in Nat
<1>1. /\ pc'[t] = p
      /\ \A u \in Thread : u # t => pc'[u] = pc[u]
  BY GotoPc
<1>2. Counted' = Counted \ {t} /\ t \in Counted
  BY <1>1 DEF Counted
<1>3. Cardinality(Counted \ {t}) = Cardinality(Counted) - 1
  BY <1>2, CountedFinite, FS_RemoveElement
<1>4. Cardinality(Counted') \in Nat
  BY CountedFinite, FS_CardinalityType
<1> QED
  BY <1>2, <1>3, <1>4 DEF ReadExact

\* A step within the counted readers, or outside, leaves the count.
LEMMA CountKept ==
  ASSUME TypeOK, ReadExact, NEW t \in Thread, NEW p \in Pc,
         pc[t] \in {"r_test", "r_dec", "reading"} <=> p \in {"r_test", "r_dec", "reading"},
         Goto(t, p), read' = read
  PROVE  ReadExact'
<1>1. /\ pc'[t] = p
      /\ \A u \in Thread : u # t => pc'[u] = pc[u]
  BY GotoPc
<1>2. Counted' = Counted
  BY <1>1 DEF Counted
<1> QED
  BY <1>2 DEF ReadExact

\* Every step of a thread keeps the invariant.
LEMMA StepLockInv ==
  ASSUME LockInv, NEW t \in Thread, Step(t)
  PROVE  LockInv'
<1> USE DEF LockInv
<1>a. Goto(t, "r_spin") \/ Goto(t, "r_inc") \/ Goto(t, "r_test") \/ Goto(t, "r_dec")
        \/ Goto(t, "reading") \/ Goto(t, "idle") \/ Goto(t, "w_swap")
        \/ Goto(t, "w_wait") \/ Goto(t, "writing")
  BY DEF Step, ReaderStep, WriterStep, StartRead, ReaderSpin, ReaderEnter, ReaderTest,
         ReaderBack, ReadUnlock, StartWrite, WriterSwap, WriterWait, WriteUnlock
<1>0. /\ pc' \in [Thread -> Pc]
      /\ \A u \in Thread : u # t => pc'[u] = pc[u]
  BY <1>a, GotoPc DEF Pc
<1>1. CASE StartRead(t)
  <2>1. pc'[t] = "r_spin" /\ ReadExact'
    BY <1>1, GotoPc, CountKept DEF StartRead, Pc
  <2> QED
    BY <1>0, <1>1, <2>1 DEF StartRead, TypeOK, WordHeld, NoReaders
<1>2. CASE StartWrite(t)
  <2>1. pc'[t] = "w_swap" /\ ReadExact'
    BY <1>2, GotoPc, CountKept DEF StartWrite, Pc
  <2> QED
    BY <1>0, <1>2, <2>1 DEF StartWrite, TypeOK, WordHeld, NoReaders
<1>3. CASE ReaderSpin(t)
  <2>1. pc'[t] = "r_inc" /\ ReadExact'
    BY <1>3, GotoPc, CountKept DEF ReaderSpin, Pc
  <2> QED
    BY <1>0, <1>3, <2>1 DEF ReaderSpin, TypeOK, WordHeld, NoReaders
<1>4. CASE ReaderEnter(t)
  <2>1. pc'[t] = "r_test" /\ ReadExact'
    BY <1>4, GotoPc, CountUp DEF ReaderEnter, Pc
  <2> QED
    BY <1>0, <1>4, <2>1 DEF ReaderEnter, TypeOK, WordHeld, NoReaders
<1>5. CASE ReaderTest(t)
  <2>1. CASE write = 1
    <3>1. pc'[t] = "r_dec" /\ ReadExact'
      BY <1>5, <2>1, GotoPc, CountKept DEF ReaderTest, Pc
    <3> QED
      BY <1>0, <1>5, <3>1 DEF ReaderTest, TypeOK, WordHeld, NoReaders
  <2>2. CASE write # 1
    <3>1. pc'[t] = "reading" /\ ReadExact'
      BY <1>5, <2>2, GotoPc, CountKept DEF ReaderTest, Pc
    <3>2. \A u \in Thread : pc[u] # "writing"
      BY <2>2 DEF WordHeld
    <3> QED
      BY <1>0, <1>5, <3>1, <3>2 DEF ReaderTest, TypeOK, WordHeld, NoReaders
  <2> QED
    BY <2>1, <2>2
<1>6. CASE ReaderBack(t)
  <2>1. pc'[t] = "r_spin" /\ ReadExact' /\ read' \in Nat
    BY <1>6, GotoPc, CountDown DEF ReaderBack, Pc
  <2> QED
    BY <1>0, <1>6, <2>1 DEF ReaderBack, TypeOK, WordHeld, NoReaders
<1>7. CASE ReadUnlock(t)
  <2>1. pc'[t] = "idle" /\ ReadExact' /\ read' \in Nat
    BY <1>7, GotoPc, CountDown DEF ReadUnlock, Pc
  <2> QED
    BY <1>0, <1>7, <2>1 DEF ReadUnlock, TypeOK, WordHeld, NoReaders
<1>8. CASE WriterSwap(t)
  <2>1. pc'[t] = "w_wait" /\ ReadExact'
    BY <1>8, GotoPc, CountKept DEF WriterSwap, Pc
  <2>2. \A u \in Thread : pc[u] \notin {"w_wait", "writing"}
    BY <1>8 DEF WriterSwap, WordHeld
  <2> QED
    BY <1>0, <1>8, <2>1, <2>2 DEF WriterSwap, TypeOK, WordHeld, NoReaders
<1>9. CASE WriterWait(t)
  <2>1. pc'[t] = "writing" /\ ReadExact'
    BY <1>9, GotoPc, CountKept DEF WriterWait, Pc
  <2>2. Counted = {}
    BY <1>9, CountedFinite, FS_EmptySet DEF WriterWait, ReadExact
  <2>3. \A u \in Thread : pc[u] # "reading"
    BY <2>2 DEF Counted
  <2> QED
    BY <1>0, <1>9, <2>1, <2>3 DEF WriterWait, TypeOK, WordHeld, NoReaders
<1>10. CASE WriteUnlock(t)
  <2>1. pc'[t] = "idle" /\ ReadExact'
    BY <1>10, GotoPc, CountKept DEF WriteUnlock, Pc
  <2>2. \A u \in Thread : u # t => pc[u] \notin {"w_wait", "writing"}
    BY <1>10 DEF WriteUnlock, WordHeld
  <2> QED
    BY <1>0, <1>10, <2>1, <2>2 DEF WriteUnlock, TypeOK, WordHeld, NoReaders
<1> QED
  BY <1>1, <1>2, <1>3, <1>4, <1>5, <1>6, <1>7, <1>8, <1>9, <1>10
     DEF Step, ReaderStep, WriterStep

\* The invariant holds in every state, whatever the number of threads.
THEOREM LockInvariance == Spec => []LockInv
<1>1. LockInv /\ UNCHANGED vars => LockInv'
  BY DEF LockInv, TypeOK, ReadExact, Counted, WordHeld, NoReaders, vars
<1>2. LockInv /\ [Next]_vars => LockInv'
  BY <1>1, StepLockInv DEF Next
<1> QED
  BY <1>2, InitLockInv, PTL DEF Spec

\* A writer of rwlock.h has the section to itself.
THEOREM Excludes == Spec => []MutualExclusion
<1>1. LockInv => MutualExclusion
  BY DEF LockInv, MutualExclusion, WordHeld, NoReaders
<1> QED
  BY <1>1, LockInvariance, PTL

\* lock->read is the number of readers between increment and decrement.
THEOREM ReadersCounted == Spec => []ReadExact
BY LockInvariance, PTL DEF LockInv

\* The two words of the lock and the positions of threads keep their types.
THEOREM TypeCorrect == Spec => []TypeOK
BY LockInvariance, PTL DEF LockInv

\* The words of the lock, the exclusion of writers and the count of readers.
THEOREM LockIsSound == Spec => []LockSound
BY TypeCorrect, Excludes, ReadersCounted, PTL DEF LockSound
-----------------------------------------------------------------------------
(* mtask_mq.c: the buffer of a queue.                                      *)

\* Every slot between head and tail holds a message.
Filled == \A i \in 1 .. Length : queue[At(i)] \in Msg

RingInv == RingTypeOK /\ Filled

\* The length is below the capacity: one slot always stays free.
LEMMA LengthType ==
  ASSUME RingTypeOK
  PROVE  /\ Length \in 0 .. cap - 1
         /\ \A i \in 1 .. Length : At(i) \in 0 .. cap - 1 /\ At(i) # tail
         /\ Length = 0 <=> head = tail
BY DEF RingTypeOK, Length, At

\* The messages of the buffer, as a sequence.
ContentsAreSeq ==
  /\ Contents \in Seq(Msg)
  /\ Len(Contents) = Length
  /\ \A i \in 1 .. Length : Contents[i] = queue[At(i)]

LEMMA ContentsType == RingInv => ContentsAreSeq
<1> SUFFICES ASSUME RingInv PROVE ContentsAreSeq
  OBVIOUS
<1>1. Length \in Nat
  BY LengthType DEF RingInv
<1>2. Contents \in [1 .. Length -> Msg]
  BY DEF RingInv, Filled, Contents
<1>3. Contents \in Seq(Msg)
  BY <1>1, <1>2, SeqDef
<1> QED
  BY <1>1, <1>2, <1>3, LenProperties DEF Contents, ContentsAreSeq

\* A step that leaves the ring alone leaves its messages alone.
LEMMA SameRing ==
  ASSUME RingInv, UNCHANGED ring
  PROVE  /\ Contents' = Contents
         /\ Filled'
<1>1. cap' = cap /\ head' = head /\ tail' = tail /\ queue' = queue
  BY DEF ring
<1> QED
  BY <1>1 DEF RingInv, Filled, Contents, Length, At

\* A push into a free slot puts the message last and moves none.
LEMMA FitsPuts ==
  ASSUME RingInv, NEW m \in Msg, PushFits(m)
  PROVE  RingInv' /\ F!Put(m)
<1>1. RingTypeOK'
  BY DEF RingInv, RingTypeOK, PushFits, Wrap, overVars
<1>2. Length' = Length + 1 /\ At(Length + 1) = tail
  BY DEF RingInv, RingTypeOK, PushFits, Wrap, Length, At
<1>3. ASSUME NEW i \in 1 .. Length'
      PROVE  /\ At(i)' = At(i)
             /\ queue'[At(i)'] = IF i <= Length THEN queue[At(i)] ELSE m
  <2>1. At(i)' = At(i)
    BY DEF PushFits, At
  <2>2. Length \in Nat /\ RingTypeOK
    BY LengthType DEF RingInv
  <2>3. CASE i <= Length
    <3>1. i \in 1 .. Length
      BY <1>2, <2>2, <2>3
    <3>2. At(i) # tail /\ At(i) \in 0 .. cap - 1
      BY <2>2, <3>1, LengthType
    <3> QED
      BY <2>1, <2>2, <2>3, <3>2 DEF PushFits, RingTypeOK
  <2>4. CASE i = Length + 1
    BY <1>2, <2>1, <2>2, <2>4 DEF PushFits, RingTypeOK
  <2> QED
    BY <1>2, <2>1, <2>2, <2>3, <2>4
<1>4. Filled'
  BY <1>3, LengthType DEF RingInv, Filled
<1>5. Contents' = Append(Contents, m)
  <2>1. RingInv'
    BY <1>1, <1>4 DEF RingInv
  <2>2. ContentsAreSeq'
    BY <2>1, ContentsType, PTL
  <2>3. /\ Append(Contents, m) \in Seq(Msg)
        /\ Len(Append(Contents, m)) = Length'
        /\ \A i \in 1 .. Length' : Append(Contents, m)[i] =
              IF i <= Length THEN queue[At(i)] ELSE m
    BY <1>2, ContentsType, LengthType, AppendProperties DEF RingInv, ContentsAreSeq
  <2> QED
    BY <1>3, <2>2, <2>3, SeqEqual DEF ContentsAreSeq
<1> QED
  BY <1>1, <1>4, <1>5 DEF RingInv, F!Put, PushFits, overVars

\* A push that fills the array copies it, oldest first, and puts the message last.
LEMMA ExpandsPuts ==
  ASSUME RingInv, NEW m \in Msg, PushExpands(m)
  PROVE  RingInv' /\ F!Put(m)
<1> DEFINE full == [queue EXCEPT ![tail] = m]
<1>1. /\ cap \in Nat \ {0} /\ head \in 0 .. cap - 1 /\ tail \in 0 .. cap - 1
      /\ queue \in [0 .. cap - 1 -> Msg \cup {Nothing}]
      /\ full \in [0 .. cap - 1 -> Msg \cup {Nothing}]
  BY DEF RingInv, RingTypeOK
<1>2. /\ cap' = 2 * cap /\ head' = 0 /\ tail' = cap /\ out' = out
      /\ queue' = Expanded(full)
  BY DEF PushExpands, overVars
<1>3. Length = cap - 1 /\ Length' = cap /\ At(cap) = tail
  BY <1>1, <1>2 DEF PushExpands, Wrap, Length, At
<1>4. ASSUME NEW i \in 0 .. cap - 1
      PROVE  /\ (head + i) % cap = At(i + 1)
             /\ queue'[i] = full[At(i + 1)]
  <2>1. (head + i) % cap = At(i + 1)
    <3>1. CASE head + i < cap
      BY <1>1, <3>1 DEF At
    <3>2. CASE head + i >= cap
      BY <1>1, <3>2 DEF At
    <3> QED
      BY <1>1, <3>1, <3>2
  <2> HIDE DEF full
  <2> QED
    BY <1>1, <1>2, <2>1 DEF Expanded
<1>5. RingTypeOK'
  <2>1. ASSUME NEW i \in 0 .. cap - 1
        PROVE  At(i + 1) \in 0 .. cap - 1
    BY <1>1 DEF At
  <2>2. Expanded(full) \in [0 .. 2 * cap - 1 -> Msg \cup {Nothing}]
    <3> HIDE DEF full
    <3> QED
      BY <1>1, <1>4, <2>1 DEF Expanded
  <2>3. out \in Msg \cup {Nothing}
    BY DEF RingInv, RingTypeOK
  <2> HIDE DEF full
  <2> QED
    BY <1>1, <1>2, <2>2, <2>3 DEF RingTypeOK
<1>6. ASSUME NEW i \in 1 .. Length'
      PROVE  /\ At(i)' = i - 1
             /\ queue'[At(i)'] = IF i <= Length THEN queue[At(i)] ELSE m
  <2>1. At(i)' = i - 1 /\ i - 1 \in 0 .. cap - 1
    BY <1>1, <1>2, <1>3 DEF At
  <2>2. queue'[i - 1] = full[At(i)]
    <3>1. i - 1 + 1 = i
      BY <1>1, <1>3
    <3> HIDE DEF full
    <3> QED
      BY <1>4, <2>1, <3>1
  <2>3. CASE i <= Length
    <3>1. At(i) # tail /\ At(i) \in 0 .. cap - 1
      BY <1>1, <1>3, <2>3, LengthType DEF RingInv
    <3> QED
      BY <1>1, <2>1, <2>2, <2>3, <3>1
  <2>4. CASE i = cap
    BY <1>1, <1>3, <2>1, <2>2, <2>4
  <2> QED
    BY <1>1, <1>3, <2>1, <2>3, <2>4
<1>7. Filled'
  BY <1>6, LengthType DEF RingInv, Filled
<1>8. Contents' = Append(Contents, m)
  <2>1. RingInv'
    BY <1>5, <1>7 DEF RingInv
  <2>2. ContentsAreSeq'
    BY <2>1, ContentsType, PTL
  <2>3. /\ Append(Contents, m) \in Seq(Msg)
        /\ Len(Append(Contents, m)) = Length'
        /\ \A i \in 1 .. Length' : Append(Contents, m)[i] =
              IF i <= Length THEN queue[At(i)] ELSE m
    BY <1>1, <1>3, ContentsType, LengthType, AppendProperties DEF RingInv, ContentsAreSeq
  <2> QED
    BY <1>6, <2>2, <2>3, SeqEqual DEF ContentsAreSeq
<1> QED
  BY <1>2, <1>5, <1>7, <1>8 DEF RingInv, F!Put

\* A pop takes the oldest message and leaves the others in order.
LEMMA PopGets ==
  ASSUME RingInv, Pop
  PROVE  RingInv' /\ F!Get
<1>1. Length \in Nat \ {0} /\ Length' = Length - 1 /\ At(1) = head
  BY DEF RingInv, RingTypeOK, Pop, Wrap, Length, At
<1>2. ASSUME NEW i \in 1 .. Length'
      PROVE  At(i)' = At(i + 1)
  BY <1>1 DEF RingInv, RingTypeOK, Pop, Wrap, Length, At
<1>3. out' = queue[At(1)] /\ out' \in Msg /\ queue' = queue
  BY <1>1 DEF RingInv, Filled, Pop
<1>4. RingTypeOK'
  BY <1>3 DEF RingInv, RingTypeOK, Pop, Wrap
<1>5. Filled'
  BY <1>1, <1>2, <1>3 DEF RingInv, Filled
<1>6. Contents # <<>> /\ Contents \in Seq(Msg) /\ out' = Head(Contents)
  BY <1>1, <1>3, ContentsType DEF ContentsAreSeq
<1>7. Contents' = Tail(Contents)
  <2>1. RingInv'
    BY <1>4, <1>5 DEF RingInv
  <2>2. ContentsAreSeq'
    BY <2>1, ContentsType, PTL
  <2>3. /\ Tail(Contents) \in Seq(Msg)
        /\ Len(Tail(Contents)) = Length'
        /\ \A i \in 1 .. Length' : Tail(Contents)[i] = queue[At(i + 1)]
    BY <1>1, <1>6, ContentsType, HeadTailProperties DEF ContentsAreSeq
  <2> QED
    BY <1>2, <1>3, <2>2, <2>3, SeqEqual DEF ContentsAreSeq
<1> QED
  BY <1>4, <1>5, <1>6, <1>7 DEF RingInv, F!Get

\* A pop of an empty ring finds an empty queue.
LEMMA PopGetsNothing ==
  ASSUME RingInv, PopNothing
  PROVE  RingInv' /\ F!GetNothing
<1>1. Contents = <<>>
  BY ContentsType, LengthType, EmptySeq
     DEF RingInv, PopNothing, ContentsAreSeq
<1>2. UNCHANGED ring
  BY DEF PopNothing
<1>3. RingTypeOK'
  BY <1>2 DEF RingInv, RingTypeOK, PopNothing, ring
<1> QED
  BY <1>1, <1>2, <1>3, SameRing DEF RingInv, PopNothing, F!GetNothing

\* Whatever the steps, the ring is well formed and acts as the queue.
LEMMA StepRefines ==
  ASSUME RingInv, [RingNext]_ringVars
  PROVE  RingInv' /\ [F!Next]_(F!vars)
<1>1. CASE \E m \in Msg : PushFits(m) \/ PushExpands(m)
  <2>1. PICK m \in Msg : PushFits(m) \/ PushExpands(m)
    BY <1>1
  <2>2. RingInv' /\ F!Put(m)
    BY <2>1, FitsPuts, ExpandsPuts
  <2> QED
    BY <2>2 DEF F!Next
<1>2. CASE Pop
  BY <1>2, PopGets DEF F!Next
<1>3. CASE PopNothing
  BY <1>3, PopGetsNothing DEF F!Next
<1>4. CASE UNCHANGED <<ring, out>>
  <2>1. UNCHANGED ring /\ out' = out
    BY <1>4
  <2>2. RingTypeOK'
    BY <2>1 DEF RingInv, RingTypeOK, ring
  <2> QED
    BY <2>1, <2>2, SameRing DEF RingInv, F!vars
<1> QED
  BY <1>1, <1>2, <1>3, <1>4 DEF RingNext, TakeOverload, ringVars

\* An empty ring is an empty queue.
LEMMA InitRefines == RingInit => RingInv /\ F!Init
<1> SUFFICES ASSUME RingInit PROVE RingInv /\ F!Init
  OBVIOUS
<1>1. RingTypeOK /\ Length = 0
  BY RingQueueAssumption DEF RingInit, RingTypeOK, Length
<1>2. RingInv
  BY <1>1 DEF RingInv, Filled
<1> QED
  BY <1>1, <1>2, ContentsType, EmptySeq DEF RingInit, F!Init, ContentsAreSeq

\* No index leaves the array, through any sequence of pushes and pops.
THEOREM RingWellFormed == RingSpec => []RingTypeOK
<1>1. RingInit => RingInv
  BY InitRefines
<1>2. RingInv /\ [RingNext]_ringVars => RingInv'
  BY StepRefines
<1>3. RingInv => RingTypeOK
  BY DEF RingInv
<1> QED
  BY <1>1, <1>2, <1>3, PTL DEF RingSpec

\* The circular buffer is a queue: nothing is lost, repeated or overtaken by
\* the wrap of the indices and the growth of the array.
THEOREM RingIsQueue == RingSpec => ImplementsFifo
<1>1. RingInit => RingInv /\ F!Init
  BY InitRefines
<1>2. RingInv /\ [RingNext]_ringVars => RingInv' /\ [F!Next]_(F!vars)
  BY StepRefines
<1> QED
  BY <1>1, <1>2, PTL DEF RingSpec, ImplementsFifo, F!Spec
-----------------------------------------------------------------------------
(* mtask_lua_stm.c: objects and copies.                                    *)

\* Where a reader may still use the object, and where it has the lock.
Knows == {"rest", "counts", "unlocks", "compares", "counts out"}
Locks == {"counts", "unlocks", "counts out", "leaves"}

StmType ==
  /\ freed \in BOOLEAN /\ refer \in Int
  /\ copies \in Copy /\ copy \in 0 .. copies /\ old \in 0 .. copies
  /\ held \in [Copy -> Int]
  /\ at \in [Reader \cup {Writer} -> Knows \cup Locks \cup {"none", "drops", "gone", "updated"}]
  /\ at[Writer] \in {"rest", "updated", "gone"}
  /\ \A r \in Reader : at[r] # "updated"
  /\ ret \in [Reader -> 0 .. copies] /\ last \in [Reader -> 0 .. copies]

Knowing == {r \in Reader : at[r] \in Knows}
Has(c) == {r \in Reader : last[r] = c}
Takes(c) == {r \in Reader : ret[r] = c /\ at[r] \in {"unlocks", "compares"}}
Owned(c) == IF c \in {copy, old} THEN 1 ELSE 0

\* The count of the object is that of those who know it, and it goes with the last.
Referred ==
  /\ refer = (IF at[Writer] = "gone" THEN 0 ELSE 1) + Cardinality(Knowing)
  /\ freed <=> refer = 0

\* The lock is held by those who are between its lock and its unlock.
Locked == lock = {r \in Reader : at[r] \in Locks}

\* The last copy is the one that is published, and the writer still has the one
\* before it while it updates.
Published ==
  /\ at[Writer] # "gone" => copy = copies
  /\ at[Writer] # "updated" => old = 0
  /\ at[Writer] = "gone" => copy = 0
  /\ old < copies

\* What a reader is about to count itself into is what is published: the writer
\* cannot exchange it under the lock.
Taken ==
  \A r \in Reader :
    /\ at[r] = "counts" => ret[r] = copy
    /\ at[r] \notin {"counts", "unlocks", "compares"} => ret[r] = 0
    /\ at[r] \in {"none", "gone"} => last[r] = 0

\* The count of a copy.
CopiesExact == \A c \in Copy : held[c] = Cardinality(Has(c)) + Cardinality(Takes(c)) + Owned(c)

StmInv == StmType /\ Referred /\ Locked /\ Published /\ Taken /\ CopiesExact
(* Counting.                                                               *)

\* A set that gains or loses an element.
LEMMA OneMoreOrLess ==
  ASSUME NEW S, IsFiniteSet(S), NEW e
  PROVE  /\ Cardinality(S) \in Nat
         /\ e \notin S => Cardinality(S \cup {e}) = Cardinality(S) + 1
         /\ e \in S => Cardinality(S \ {e}) = Cardinality(S) - 1
BY FS_CardinalityType, FS_AddElement, FS_RemoveElement

\* The sets of readers that are counted.
LEMMA ReadersFinite ==
  /\ IsFiniteSet(Knowing) /\ Cardinality(Knowing) \in Nat
  /\ \A c : IsFiniteSet(Has(c)) /\ Cardinality(Has(c)) \in Nat
  /\ \A c : IsFiniteSet(Takes(c)) /\ Cardinality(Takes(c)) \in Nat
<1>1. /\ Knowing \subseteq Reader
      /\ \A c : Has(c) \subseteq Reader
      /\ \A c : Takes(c) \subseteq Reader
  BY DEF Knowing, Has, Takes
<1> QED
  BY <1>1, StmAssumption, FS_Subset, FS_CardinalityType

\* A step that moves no reader in or out of those who know the object.
LEMMA SameReferred ==
  ASSUME StmType, Referred, UNCHANGED <<refer, freed>>,
         at'[Writer] = "gone" <=> at[Writer] = "gone",
         \A r \in Reader : at'[r] \in Knows <=> at[r] \in Knows
  PROVE  Referred'
<1>1. Knowing' = Knowing
  BY DEF Knowing
<1> QED
  BY <1>1 DEF Referred

\* A step that leaves the copies to those who have them.
LEMMA SameCounted ==
  ASSUME StmType, CopiesExact, UNCHANGED <<held, copy, old, ret, last>>,
         \A r \in Reader : at'[r] \in {"unlocks", "compares"} <=> at[r] \in {"unlocks", "compares"}
  PROVE  CopiesExact'
<1>1. ASSUME NEW c \in Copy
      PROVE  Has(c)' = Has(c) /\ Takes(c)' = Takes(c) /\ Owned(c)' = Owned(c)
  BY DEF Has, Takes, Owned
<1> QED
  BY <1>1 DEF CopiesExact
(* The steps of the writer.                                                *)

\* A new copy is published: the old one waits to be released.
LEMMA UpdateKeeps ==
  ASSUME StmInv, Update
  PROVE  StmInv'
<1> USE StmAssumption DEF StmInv
<1>1. /\ at[Writer] = "rest" /\ copies < MaxCopy /\ lock = {}
      /\ copies' = copies + 1 /\ copy' = copies + 1
      /\ held' = [held EXCEPT ![copies + 1] = 1]
      /\ old' = copy /\ at' = [at EXCEPT ![Writer] = "updated"]
      /\ UNCHANGED <<freed, refer, lock, ret, last>>
  BY DEF Update, GoesTo
<1>2. copies \in Nat /\ copies + 1 \in Copy /\ copy = copies /\ old = 0
  BY <1>1 DEF StmType, Copy, Published
<1>3. \A r \in Reader : at'[r] = at[r]
  BY <1>1 DEF StmType
<1>4. at'[Writer] = "updated"
  BY <1>1 DEF StmType
<1>5. StmType'
  <2>1. ret' \in [Reader -> 0 .. copies'] /\ last' \in [Reader -> 0 .. copies']
    BY <1>1, <1>2 DEF StmType
  <2>2. at' \in [Reader \cup {Writer} -> Knows \cup Locks \cup {"none", "drops", "gone", "updated"}]
    BY <1>1 DEF StmType
  <2>3. held' \in [Copy -> Int]
    <3>1. held \in [Copy -> Int] /\ held' = [held EXCEPT ![copies'] = 1]
      BY <1>1 DEF StmType
    <3>2. \A c \in Copy : held'[c] = IF c = copies + 1 THEN 1 ELSE held[c]
      BY <1>1, <3>1
    <3>3. \A c \in Copy : held'[c] \in Int
      BY <3>1, <3>2
    <3> QED
      BY <3>1, <3>3
  <2>4. copies' \in Copy /\ copy' \in 0 .. copies' /\ old' \in 0 .. copies'
    BY <1>1, <1>2
  <2> QED
    BY <1>1, <1>3, <1>4, <2>1, <2>2, <2>3, <2>4 DEF StmType
<1>6. Referred'
  BY <1>1, <1>3, <1>4, SameReferred
<1>7. Locked'
  BY <1>1, <1>3 DEF Locked
<1>8. Published'
  BY <1>1, <1>2, <1>4 DEF Published
<1>9. Taken'
  <2>1. \A r \in Reader : at[r] # "counts"
    BY <1>1 DEF Locked, Locks
  <2> QED
    BY <1>1, <1>3, <2>1 DEF Taken
<1>10. CopiesExact'
  <2> SUFFICES ASSUME NEW c \in Copy
               PROVE  held'[c] = Cardinality(Has(c)') + Cardinality(Takes(c)') + Owned(c)'
    BY DEF CopiesExact
  <2>1. Has(c)' = Has(c) /\ Takes(c)' = Takes(c)
    BY <1>1, <1>3 DEF Has, Takes
  <2>2. held[c] = Cardinality(Has(c)) + Cardinality(Takes(c)) + Owned(c)
    BY DEF CopiesExact
  <2>3. CASE c = copies + 1
    <3>1. Has(c) = {} /\ Takes(c) = {}
      BY <1>2, <2>3 DEF Has, Takes, StmType
    <3>2. held'[c] = 1 /\ Owned(c)' = 1
      BY <1>1, <2>3 DEF StmType, Owned
    <3> QED
      BY <2>1, <3>1, <3>2, FS_EmptySet
  <2>4. CASE c # copies + 1
    <3>1. held'[c] = held[c]
      BY <1>1, <2>4 DEF StmType
    <3>2. Owned(c)' = Owned(c)
      BY <1>1, <1>2, <2>4 DEF Owned, Copy
    <3> QED
      BY <2>1, <2>2, <3>1, <3>2
  <2> QED
    BY <2>3, <2>4
<1> QED
  BY <1>5, <1>6, <1>7, <1>8, <1>9, <1>10

\* The old copy is released, once, by the writer.
LEMMA ReleaseOldKeeps ==
  ASSUME StmInv, ReleaseOld
  PROVE  StmInv'
<1> USE StmAssumption DEF StmInv
<1>1. /\ at[Writer] = "updated"
      /\ held' = Released(old) /\ old' = 0
      /\ at' = [at EXCEPT ![Writer] = "rest"]
      /\ UNCHANGED <<freed, refer, copy, lock, copies, ret, last>>
  BY DEF ReleaseOld, GoesTo
<1>2. old \in 0 .. copies /\ copy = copies /\ old < copies /\ copies \in Copy
  BY <1>1 DEF StmType, Published
<1>3. /\ \A r \in Reader : at'[r] = at[r]
      /\ at'[Writer] = "rest"
  BY <1>1 DEF StmType
<1>4. held' \in [Copy -> Int] /\ \A c \in Copy : held'[c] = held[c] - (IF c = old THEN 1 ELSE 0)
  BY <1>1 DEF StmType, Released, Copy
<1>5. StmType'
  <2>1. at' \in [Reader \cup {Writer} -> Knows \cup Locks \cup {"none", "drops", "gone", "updated"}]
    BY <1>1 DEF StmType, Knows
  <2>2. old' \in 0 .. copies'
    BY <1>1, <1>2 DEF Copy
  <2> QED
    BY <1>1, <1>3, <1>4, <2>1, <2>2 DEF StmType
<1>6. Referred'
  BY <1>1, <1>3, SameReferred
<1>7. Locked'
  BY <1>1, <1>3 DEF Locked
<1>8. Published'
  BY <1>1, <1>2, <1>3 DEF Published, Copy
<1>9. Taken'
  BY <1>1, <1>3 DEF Taken
<1>10. CopiesExact'
  <2> SUFFICES ASSUME NEW c \in Copy
               PROVE  held'[c] = Cardinality(Has(c)') + Cardinality(Takes(c)') + Owned(c)'
    BY DEF CopiesExact
  <2>1. Has(c)' = Has(c) /\ Takes(c)' = Takes(c)
    BY <1>1, <1>3 DEF Has, Takes
  <2>2. Owned(c)' = Owned(c) - (IF c = old THEN 1 ELSE 0)
    BY <1>1, <1>2 DEF Owned, Copy
  <2>3. held[c] = Cardinality(Has(c)) + Cardinality(Takes(c)) + Owned(c)
    BY DEF CopiesExact
  <2> QED
    BY <1>4, <2>1, <2>2, <2>3, ReadersFinite DEF Owned
<1> QED
  BY <1>5, <1>6, <1>7, <1>8, <1>9, <1>10

\* The writer gives its reference and the published copy back.
LEMMA ReleaseKeeps ==
  ASSUME StmInv, Release
  PROVE  StmInv'
<1> USE StmAssumption DEF StmInv
<1>1. /\ at[Writer] = "rest" /\ lock = {}
      /\ held' = Released(copy) /\ copy' = 0
      /\ refer' = refer - 1 /\ freed' \in BOOLEAN /\ (freed' <=> refer - 1 <= 0)
      /\ at' = [at EXCEPT ![Writer] = "gone"]
      /\ UNCHANGED <<lock, copies, old, ret, last>>
  <2>1. refer' = refer - 1 /\ refer' \in Int /\ freed' = (refer' <= 0)
    BY DEF Release, StmType
  <2>2. freed' \in BOOLEAN /\ (freed' <=> refer' <= 0)
    <3>1. (refer' <= 0) \in BOOLEAN
      OBVIOUS
    <3> QED
      BY <2>1, <3>1, Zenon
  <2> QED
    BY <2>1, <2>2 DEF Release, GoesTo
<1>2. copy = copies /\ copies \in Copy /\ old = 0
  BY <1>1 DEF StmType, Published
<1>3. /\ \A r \in Reader : at'[r] = at[r]
      /\ at'[Writer] = "gone"
  BY <1>1 DEF StmType
<1>4. held' \in [Copy -> Int] /\ \A c \in Copy : held'[c] = held[c] - (IF c = copy THEN 1 ELSE 0)
  BY <1>1 DEF StmType, Released, Copy
<1>5. StmType'
  <2>1. at' \in [Reader \cup {Writer} -> Knows \cup Locks \cup {"none", "drops", "gone", "updated"}]
    BY <1>1 DEF StmType
  <2>2. copy' \in 0 .. copies' /\ refer' \in Int
    BY <1>1, <1>2 DEF StmType, Copy
  <2> QED
    BY <1>1, <1>3, <1>4, <2>1, <2>2 DEF StmType
<1>6. Referred'
  <2>1. Knowing' = Knowing
    BY <1>3 DEF Knowing
  <2>2. refer = 1 + Cardinality(Knowing) /\ Cardinality(Knowing) \in Nat
    BY <1>1, ReadersFinite DEF Referred
  <2> QED
    BY <1>1, <1>3, <2>1, <2>2 DEF Referred
<1>7. Locked'
  BY <1>1, <1>3 DEF Locked
<1>8. Published'
  BY <1>1, <1>2, <1>3 DEF Published, Copy
<1>9. Taken'
  <2>1. \A r \in Reader : at[r] # "counts"
    BY <1>1 DEF Locked, Locks
  <2> QED
    BY <1>1, <1>3, <2>1 DEF Taken
<1>10. CopiesExact'
  <2> SUFFICES ASSUME NEW c \in Copy
               PROVE  held'[c] = Cardinality(Has(c)') + Cardinality(Takes(c)') + Owned(c)'
    BY DEF CopiesExact
  <2>1. Has(c)' = Has(c) /\ Takes(c)' = Takes(c)
    BY <1>1, <1>3 DEF Has, Takes
  <2>2. Owned(c) = (IF c = copy THEN 1 ELSE 0) /\ Owned(c)' = 0
    BY <1>1, <1>2 DEF Owned, Copy
  <2>3. held[c] = Cardinality(Has(c)) + Cardinality(Takes(c)) + Owned(c)
    BY DEF CopiesExact
  <2> QED
    BY <1>4, <2>1, <2>2, <2>3, ReadersFinite
<1> QED
  BY <1>5, <1>6, <1>7, <1>8, <1>9, <1>10
(* The steps of the readers.                                               *)

\* One copy is counted once more, or once less, or there is none.
LEMMA CountsOne ==
  ASSUME StmType, NEW c \in 0 .. copies
  PROVE  /\ Released(c) \in [Copy -> Int]
         /\ \A d \in Copy : Released(c)[d] = held[d] - (IF d = c THEN 1 ELSE 0)
         /\ c # 0 => /\ [held EXCEPT ![c] = @ + 1] \in [Copy -> Int]
                     /\ \A d \in Copy : [held EXCEPT ![c] = @ + 1][d] = held[d] + (IF d = c THEN 1 ELSE 0)
<1>1. c = 0 \/ c \in Copy
  BY StmAssumption DEF StmType, Copy
<1>2. 0 \notin Copy /\ held \in [Copy -> Int] /\ \A d \in Copy : held[d] \in Int
  BY DEF Copy, StmType
<1>3. CASE c = 0
  <2>1. Released(c) = held
    BY <1>3 DEF Released
  <2> QED
    BY <1>2, <1>3, <2>1
<1>4. CASE c \in Copy
  <2>1. Released(c) = [held EXCEPT ![c] = @ - 1]
    BY <1>2, <1>4 DEF Released
  <2> QED
    BY <1>2, <1>4, <2>1
<1> QED
  BY <1>1, <1>3, <1>4

\* One reader moves, and nobody else.
LEMMA Moves ==
  ASSUME StmType, NEW r \in Reader,
         NEW where \in Knows \cup Locks \cup {"none", "drops", "gone"}, GoesTo(r, where)
  PROVE  /\ at' \in [Reader \cup {Writer} -> Knows \cup Locks \cup {"none", "drops", "gone", "updated"}]
         /\ at'[r] = where /\ at'[Writer] = at[Writer]
         /\ \A s \in Reader \ {r} : at'[s] = at[s]
         /\ \A s \in Reader : at'[s] # "updated"
<1>1. r # Writer /\ where # "updated"
  BY StmAssumption DEF Knows, Locks
<1> QED
  BY <1>1 DEF StmType, GoesTo

\* A reader of the object is made, by the writer.
LEMMA GrabKeeps ==
  ASSUME StmInv, NEW r \in Reader, Grab(r)
  PROVE  StmInv'
<1> USE DEF StmInv
<1>1. /\ at[Writer] = "rest" /\ at[r] = "none"
      /\ refer' = refer + 1 /\ GoesTo(r, "rest")
      /\ UNCHANGED <<freed, copy, lock, held, copies, old, ret, last>>
  BY DEF Grab
<1>2. /\ at' \in [Reader \cup {Writer} -> Knows \cup Locks \cup {"none", "drops", "gone", "updated"}]
      /\ at'[r] = "rest" /\ at'[Writer] = at[Writer]
      /\ \A s \in Reader \ {r} : at'[s] = at[s]
      /\ \A s \in Reader : at'[s] # "updated"
  BY <1>1, Moves DEF Knows
<1>3. StmType'
  BY <1>1, <1>2 DEF StmType
<1>4. Referred'
  <2>1. r \notin Knowing /\ Knowing' = Knowing \cup {r}
    BY <1>1, <1>2 DEF Knowing, Knows
  <2>2. refer = 1 + Cardinality(Knowing) /\ (freed <=> refer = 0)
    BY <1>1 DEF Referred
  <2>3. Cardinality(Knowing) \in Nat /\ Cardinality(Knowing') = Cardinality(Knowing) + 1
    BY <2>1, ReadersFinite, OneMoreOrLess
  <2> QED
    BY <1>1, <1>2, <2>2, <2>3 DEF Referred
<1>5. Locked'
  BY <1>1, <1>2 DEF Locked, Locks
<1>6. Published'
  BY <1>1, <1>2 DEF Published
<1>7. Taken'
  BY <1>1, <1>2 DEF Taken
<1>8. CopiesExact'
  BY <1>1, <1>2, SameCounted
<1> QED
  BY <1>3, <1>4, <1>5, <1>6, <1>7, <1>8

\* A reader looks at what is published, and has the lock.
LEMMA LookKeeps ==
  ASSUME StmInv, NEW r \in Reader, Look(r)
  PROVE  StmInv'
<1> USE DEF StmInv
<1>1. /\ at[r] = "rest" /\ lock' = lock \cup {r} /\ GoesTo(r, "counts")
      /\ ret' = [ret EXCEPT ![r] = copy]
      /\ UNCHANGED <<freed, refer, copy, held, copies, old, last>>
  BY DEF Look, Lock
<1>2. /\ at' \in [Reader \cup {Writer} -> Knows \cup Locks \cup {"none", "drops", "gone", "updated"}]
      /\ at'[r] = "counts" /\ at'[Writer] = at[Writer]
      /\ \A s \in Reader \ {r} : at'[s] = at[s]
      /\ \A s \in Reader : at'[s] # "updated"
  BY <1>1, Moves DEF Knows
<1>3. /\ ret' \in [Reader -> 0 .. copies] /\ ret'[r] = copy
      /\ \A s \in Reader \ {r} : ret'[s] = ret[s]
  BY <1>1 DEF StmType
<1>4. StmType'
  BY <1>1, <1>2, <1>3 DEF StmType
<1>5. Referred'
  BY <1>1, <1>2, SameReferred DEF Knows
<1>6. Locked'
  BY <1>1, <1>2 DEF Locked, Locks
<1>7. Published'
  BY <1>1, <1>2 DEF Published
<1>8. Taken'
  BY <1>1, <1>2, <1>3 DEF Taken
<1>9. CopiesExact'
  <2>1. ASSUME NEW c \in Copy
        PROVE  Has(c)' = Has(c) /\ Takes(c)' = Takes(c) /\ Owned(c)' = Owned(c)
    BY <1>1, <1>2, <1>3 DEF Has, Takes, Owned
  <2> QED
    BY <1>1, <2>1 DEF CopiesExact
<1> QED
  BY <1>4, <1>5, <1>6, <1>7, <1>8, <1>9

\* It counts itself in.
LEMMA CountKeeps ==
  ASSUME StmInv, NEW r \in Reader, Count(r)
  PROVE  StmInv'
<1> USE DEF StmInv
<1>1. /\ at[r] = "counts" /\ GoesTo(r, "unlocks")
      /\ held' = IF ret[r] = 0 THEN held ELSE [held EXCEPT ![ret[r]] = @ + 1]
      /\ UNCHANGED <<freed, refer, copy, lock, copies, old, ret, last>>
  BY DEF Count
<1>2. /\ at' \in [Reader \cup {Writer} -> Knows \cup Locks \cup {"none", "drops", "gone", "updated"}]
      /\ at'[r] = "unlocks" /\ at'[Writer] = at[Writer]
      /\ \A s \in Reader \ {r} : at'[s] = at[s]
      /\ \A s \in Reader : at'[s] # "updated"
  BY <1>1, Moves DEF Knows
<1>3. held' \in [Copy -> Int] /\ \A c \in Copy : held'[c] = held[c] + (IF c = ret[r] THEN 1 ELSE 0)
  <2>1. ret[r] \in 0 .. copies /\ held \in [Copy -> Int] /\ 0 \notin Copy
    BY DEF StmType, Copy
  <2>2. CASE ret[r] = 0
    BY <1>1, <2>1, <2>2
  <2>3. CASE ret[r] # 0
    BY <1>1, <2>1, <2>3, CountsOne
  <2> QED
    BY <2>2, <2>3
<1>4. StmType'
  BY <1>1, <1>2, <1>3 DEF StmType
<1>5. Referred'
  BY <1>1, <1>2, SameReferred DEF Knows
<1>6. Locked'
  BY <1>1, <1>2 DEF Locked, Locks
<1>7. Published'
  BY <1>1, <1>2 DEF Published
<1>8. Taken'
  BY <1>1, <1>2 DEF Taken
<1>9. CopiesExact'
  <2> SUFFICES ASSUME NEW c \in Copy
               PROVE  held'[c] = Cardinality(Has(c)') + Cardinality(Takes(c)') + Owned(c)'
    BY DEF CopiesExact
  <2>1. Has(c)' = Has(c) /\ Owned(c)' = Owned(c)
    BY <1>1 DEF Has, Owned
  <2>2. r \notin Takes(c) /\ Takes(c)' = IF c = ret[r] THEN Takes(c) \cup {r} ELSE Takes(c)
    BY <1>1, <1>2 DEF Takes
  <2>3. held[c] = Cardinality(Has(c)) + Cardinality(Takes(c)) + Owned(c)
    BY DEF CopiesExact
  <2>4. Cardinality(Takes(c)') = Cardinality(Takes(c)) + (IF c = ret[r] THEN 1 ELSE 0)
    BY <2>2, ReadersFinite, OneMoreOrLess
  <2> QED
    BY <1>3, <2>1, <2>3, <2>4, ReadersFinite DEF Owned
<1> QED
  BY <1>4, <1>5, <1>6, <1>7, <1>8, <1>9

\* It gives the lock back.
LEMMA UnlockKeeps ==
  ASSUME StmInv, NEW r \in Reader, Unlock(r)
  PROVE  StmInv'
<1> USE DEF StmInv
<1>1. PICK where \in {"compares", "drops"} :
        /\ lock' = lock \ {r} /\ GoesTo(r, where)
        /\ at[r] = IF where = "compares" THEN "unlocks" ELSE "leaves"
        /\ UNCHANGED <<freed, refer, copy, held, copies, old, ret, last>>
  <2>1. CASE at[r] = "unlocks"
    BY <2>1 DEF Unlock
  <2>2. CASE at[r] = "leaves"
    BY <2>2 DEF Unlock
  <2> QED
    BY <2>1, <2>2 DEF Unlock
<1>2. /\ at' \in [Reader \cup {Writer} -> Knows \cup Locks \cup {"none", "drops", "gone", "updated"}]
      /\ at'[r] = where /\ at'[Writer] = at[Writer]
      /\ \A s \in Reader \ {r} : at'[s] = at[s]
      /\ \A s \in Reader : at'[s] # "updated"
  BY <1>1, Moves DEF Knows
<1>3. StmType'
  BY <1>1, <1>2 DEF StmType
<1>4. Referred'
  BY <1>1, <1>2, SameReferred DEF Knows
<1>5. Locked'
  BY <1>1, <1>2 DEF Locked, Locks
<1>6. Published'
  BY <1>1, <1>2 DEF Published
<1>7. Taken'
  BY <1>1, <1>2 DEF Taken
<1>8. CopiesExact'
  BY <1>1, <1>2, SameCounted
<1> QED
  BY <1>3, <1>4, <1>5, <1>6, <1>7, <1>8

\* It has the new copy instead of the last one, which is released.
LEMMA CompareKeeps ==
  ASSUME StmInv, NEW r \in Reader, Compare(r)
  PROVE  StmInv'
<1> USE DEF StmInv
<1>1. /\ at[r] = "compares" /\ GoesTo(r, "rest")
      /\ held' = Released(last[r])
      /\ last' = [last EXCEPT ![r] = ret[r]] /\ ret' = [ret EXCEPT ![r] = 0]
      /\ UNCHANGED <<freed, refer, copy, lock, copies, old>>
  BY DEF Compare
<1>2. /\ at' \in [Reader \cup {Writer} -> Knows \cup Locks \cup {"none", "drops", "gone", "updated"}]
      /\ at'[r] = "rest" /\ at'[Writer] = at[Writer]
      /\ \A s \in Reader \ {r} : at'[s] = at[s]
      /\ \A s \in Reader : at'[s] # "updated"
  BY <1>1, Moves DEF Knows
<1>3. held' \in [Copy -> Int] /\ \A c \in Copy : held'[c] = held[c] - (IF c = last[r] THEN 1 ELSE 0)
  <2>1. last[r] \in 0 .. copies
    BY DEF StmType
  <2> QED
    BY <1>1, <2>1, CountsOne
<1>4. /\ ret' \in [Reader -> 0 .. copies] /\ last' \in [Reader -> 0 .. copies]
      /\ ret'[r] = 0 /\ last'[r] = ret[r]
      /\ \A s \in Reader \ {r} : ret'[s] = ret[s] /\ last'[s] = last[s]
  BY <1>1 DEF StmType, Copy
<1>5. StmType'
  BY <1>1, <1>2, <1>3, <1>4 DEF StmType
<1>6. Referred'
  BY <1>1, <1>2, SameReferred DEF Knows
<1>7. Locked'
  BY <1>1, <1>2 DEF Locked, Locks
<1>8. Published'
  BY <1>1, <1>2 DEF Published
<1>9. Taken'
  BY <1>1, <1>2, <1>4 DEF Taken
<1>10. CopiesExact'
  <2> SUFFICES ASSUME NEW c \in Copy
               PROVE  held'[c] = Cardinality(Has(c)') + Cardinality(Takes(c)') + Owned(c)'
    BY DEF CopiesExact
  <2>1. Owned(c)' = Owned(c) /\ c # 0
    BY <1>1 DEF Owned, Copy
  <2>2. Takes(c)' = Takes(c) \ {r} /\ (r \in Takes(c) <=> c = ret[r])
    BY <1>1, <1>2, <1>4, <2>1 DEF Takes
  <2>3. Cardinality(Takes(c)') = Cardinality(Takes(c)) - (IF c = ret[r] THEN 1 ELSE 0)
    <3>1. CASE r \in Takes(c)
      BY <2>2, <3>1, ReadersFinite, OneMoreOrLess
    <3>2. CASE r \notin Takes(c)
      <4>1. Takes(c)' = Takes(c)
        BY <2>2, <3>2
      <4>2. c # ret[r]
        BY <2>2, <3>2
      <4>3. Cardinality(Takes(c)) \in Nat
        BY ReadersFinite
      <4> QED
        BY <4>1, <4>2, <4>3
    <3> QED
      BY <3>1, <3>2
  <2>4. /\ r \in Has(c) <=> c = last[r]
        /\ Has(c)' = IF c = ret[r] THEN Has(c) \cup {r} ELSE Has(c) \ {r}
    BY <1>4 DEF Has
  <2>5. Cardinality(Has(c)') = Cardinality(Has(c)) + (IF c = ret[r] THEN 1 ELSE 0)
                                 - (IF c = last[r] THEN 1 ELSE 0)
    <3>1. CASE c = ret[r] /\ c = last[r]
      <4>1. Has(c)' = Has(c)
        BY <2>4, <3>1
      <4> QED
        BY <3>1, <4>1, ReadersFinite
    <3>2. CASE c = ret[r] /\ c # last[r]
      BY <2>4, <3>2, ReadersFinite, OneMoreOrLess
    <3>3. CASE c # ret[r] /\ c = last[r]
      BY <2>4, <3>3, ReadersFinite, OneMoreOrLess
    <3>4. CASE c # ret[r] /\ c # last[r]
      <4>1. Has(c)' = Has(c)
        BY <2>4, <3>4
      <4> QED
        BY <3>4, <4>1, ReadersFinite
    <3> QED
      BY <3>1, <3>2, <3>3, <3>4
  <2>6. held[c] = Cardinality(Has(c)) + Cardinality(Takes(c)) + Owned(c)
    BY DEF CopiesExact
  <2>7. Cardinality(Has(c)) \in Nat /\ Cardinality(Takes(c)) \in Nat /\ Owned(c) \in Nat
    BY ReadersFinite DEF Owned
  <2> QED
    BY <1>3, <2>1, <2>3, <2>5, <2>6, <2>7
<1> QED
  BY <1>5, <1>6, <1>7, <1>8, <1>9, <1>10

\* A reader goes, with the lock.
LEMMA LeaveKeeps ==
  ASSUME StmInv, NEW r \in Reader, Leave(r)
  PROVE  StmInv'
<1> USE DEF StmInv
<1>1. /\ at[r] = "rest" /\ lock' = lock \cup {r} /\ GoesTo(r, "counts out")
      /\ UNCHANGED <<freed, refer, copy, held, copies, old, ret, last>>
  BY DEF Leave, Lock
<1>2. /\ at' \in [Reader \cup {Writer} -> Knows \cup Locks \cup {"none", "drops", "gone", "updated"}]
      /\ at'[r] = "counts out" /\ at'[Writer] = at[Writer]
      /\ \A s \in Reader \ {r} : at'[s] = at[s]
      /\ \A s \in Reader : at'[s] # "updated"
  BY <1>1, Moves DEF Knows
<1>3. StmType'
  BY <1>1, <1>2 DEF StmType
<1>4. Referred'
  BY <1>1, <1>2, SameReferred DEF Knows
<1>5. Locked'
  BY <1>1, <1>2 DEF Locked, Locks
<1>6. Published'
  BY <1>1, <1>2 DEF Published
<1>7. Taken'
  BY <1>1, <1>2 DEF Taken
<1>8. CopiesExact'
  BY <1>1, <1>2, SameCounted
<1> QED
  BY <1>3, <1>4, <1>5, <1>6, <1>7, <1>8

\* It counts itself out; the last one frees the object.
LEMMA CountOutKeeps ==
  ASSUME StmInv, NEW r \in Reader, CountOut(r)
  PROVE  StmInv'
<1> USE DEF StmInv
<1>1. PICK where \in {"drops", "leaves"} :
        /\ at[r] = "counts out" /\ GoesTo(r, where) /\ refer' = refer - 1
        /\ IF where = "drops" THEN refer - 1 = 0 /\ freed' = TRUE /\ lock' = lock \ {r}
           ELSE refer - 1 # 0 /\ freed' = freed /\ lock' = lock
        /\ UNCHANGED <<copy, held, copies, old, ret, last>>
  <2>1. CASE refer - 1 = 0
    BY <2>1 DEF CountOut
  <2>2. CASE refer - 1 # 0
    BY <2>2 DEF CountOut
  <2> QED
    BY <2>1, <2>2
<1>2. /\ at' \in [Reader \cup {Writer} -> Knows \cup Locks \cup {"none", "drops", "gone", "updated"}]
      /\ at'[r] = where /\ at'[Writer] = at[Writer]
      /\ \A s \in Reader \ {r} : at'[s] = at[s]
      /\ \A s \in Reader : at'[s] # "updated"
  BY <1>1, Moves DEF Locks
<1>3. StmType'
  <2>1. refer' \in Int
    <3>1. refer \in Int /\ refer' = refer - 1
      BY DEF StmType, CountOut
    <3> QED
      BY <3>1
  <2>2. freed' = TRUE \/ freed' = freed
    BY <1>1
  <2>3. freed' \in BOOLEAN
    BY <2>2 DEF StmType
  <2> QED
    BY <1>1, <1>2, <2>1, <2>3 DEF StmType
<1>4. Referred'
  <2>1. r \in Knowing /\ Knowing' = Knowing \ {r}
    BY <1>1, <1>2 DEF Knowing, Knows
  <2>2. Cardinality(Knowing) \in Nat /\ Cardinality(Knowing') = Cardinality(Knowing) - 1
    BY <2>1, ReadersFinite, OneMoreOrLess
  <2>3. refer = (IF at[Writer] = "gone" THEN 0 ELSE 1) + Cardinality(Knowing) /\ (freed <=> refer = 0)
    BY DEF Referred
  <2>4. Cardinality(Knowing') \in Nat
    <3>1. Knowing' \subseteq Knowing
      BY <2>1
    <3> QED
      BY <3>1, ReadersFinite, FS_Subset, FS_CardinalityType
  <2>5. refer # 0 /\ ~ freed
    BY <2>2, <2>3, <2>4
  <2>6. freed' <=> refer' = 0
    <3>1. CASE where = "drops"
      BY <1>1, <3>1
    <3>2. CASE where = "leaves"
      BY <1>1, <2>5, <3>2
    <3> QED
      BY <3>1, <3>2
  <2>7. refer' = (IF at'[Writer] = "gone" THEN 0 ELSE 1) + Cardinality(Knowing')
    <3>1. refer' = refer - 1 /\ at'[Writer] = at[Writer]
      BY <1>1, <1>2
    <3> QED
      BY <2>2, <2>3, <3>1
  <2> QED
    BY <2>6, <2>7 DEF Referred
<1>5. Locked'
  BY <1>1, <1>2 DEF Locked, Locks
<1>6. Published'
  BY <1>1, <1>2 DEF Published
<1>7. Taken'
  BY <1>1, <1>2 DEF Taken
<1>8. CopiesExact'
  BY <1>1, <1>2, SameCounted
<1> QED
  BY <1>3, <1>4, <1>5, <1>6, <1>7, <1>8

\* The copy it had last is released.
LEMMA DropKeeps ==
  ASSUME StmInv, NEW r \in Reader, Drop(r)
  PROVE  StmInv'
<1> USE DEF StmInv
<1>1. /\ at[r] = "drops" /\ GoesTo(r, "gone")
      /\ held' = Released(last[r]) /\ last' = [last EXCEPT ![r] = 0]
      /\ UNCHANGED <<freed, refer, copy, lock, copies, old, ret>>
  BY DEF Drop
<1>2. /\ at' \in [Reader \cup {Writer} -> Knows \cup Locks \cup {"none", "drops", "gone", "updated"}]
      /\ at'[r] = "gone" /\ at'[Writer] = at[Writer]
      /\ \A s \in Reader \ {r} : at'[s] = at[s]
      /\ \A s \in Reader : at'[s] # "updated"
  BY <1>1, Moves
<1>3. held' \in [Copy -> Int] /\ \A c \in Copy : held'[c] = held[c] - (IF c = last[r] THEN 1 ELSE 0)
  <2>1. last[r] \in 0 .. copies
    BY DEF StmType
  <2> QED
    BY <1>1, <2>1, CountsOne
<1>4. /\ last' \in [Reader -> 0 .. copies] /\ last'[r] = 0
      /\ \A s \in Reader \ {r} : last'[s] = last[s]
  BY <1>1 DEF StmType, Copy
<1>5. StmType'
  BY <1>1, <1>2, <1>3, <1>4 DEF StmType
<1>6. Referred'
  BY <1>1, <1>2, SameReferred DEF Knows
<1>7. Locked'
  BY <1>1, <1>2 DEF Locked, Locks
<1>8. Published'
  BY <1>1, <1>2 DEF Published
<1>9. Taken'
  BY <1>1, <1>2, <1>4 DEF Taken
<1>10. CopiesExact'
  <2> SUFFICES ASSUME NEW c \in Copy
               PROVE  held'[c] = Cardinality(Has(c)') + Cardinality(Takes(c)') + Owned(c)'
    BY DEF CopiesExact
  <2>1. Owned(c)' = Owned(c) /\ Takes(c)' = Takes(c) /\ c # 0
    BY <1>1, <1>2 DEF Owned, Takes, Copy
  <2>2. Has(c)' = Has(c) \ {r} /\ (r \in Has(c) <=> c = last[r])
    BY <1>4, <2>1 DEF Has
  <2>3. Cardinality(Has(c)') = Cardinality(Has(c)) - (IF c = last[r] THEN 1 ELSE 0)
    <3>1. CASE r \in Has(c)
      BY <2>2, <3>1, ReadersFinite, OneMoreOrLess
    <3>2. CASE r \notin Has(c)
      <4>1. Has(c)' = Has(c)
        BY <2>2, <3>2
      <4>2. c # last[r] /\ Cardinality(Has(c)) \in Nat
        BY <2>2, <3>2, ReadersFinite
      <4> QED
        BY <4>1, <4>2
    <3> QED
      BY <3>1, <3>2
  <2>4. held[c] = Cardinality(Has(c)) + Cardinality(Takes(c)) + Owned(c)
    BY DEF CopiesExact
  <2>5. Cardinality(Has(c)) \in Nat /\ Cardinality(Takes(c)) \in Nat /\ Owned(c) \in Nat
    BY ReadersFinite DEF Owned
  <2> QED
    BY <1>3, <2>1, <2>3, <2>4, <2>5
<1> QED
  BY <1>5, <1>6, <1>7, <1>8, <1>9, <1>10
(* The invariant, and what it says.                                        *)

\* The writer has the object and the first copy.
LEMMA InitKeeps ==
  ASSUME StmInit
  PROVE  StmInv
<1> USE StmAssumption DEF StmInit
<1>1. 1 \in Copy
  BY DEF Copy
<1>2. at[Writer] = "rest" /\ \A r \in Reader : at[r] = "none"
  OBVIOUS
<1>3. StmType
  <2>1. at \in [Reader \cup {Writer} -> Knows \cup Locks \cup {"none", "drops", "gone", "updated"}]
    BY DEF Knows
  <2>2. held \in [Copy -> Int] /\ ret \in [Reader -> 0 .. copies] /\ last \in [Reader -> 0 .. copies]
    OBVIOUS
  <2>3. copies \in Copy /\ copy \in 0 .. copies /\ old \in 0 .. copies /\ refer \in Int
    BY <1>1
  <2> QED
    BY <1>2, <2>1, <2>2, <2>3 DEF StmType
<1>4. Referred
  <2>1. Knowing = {}
    BY <1>2 DEF Knowing, Knows
  <2> QED
    BY <1>2, <2>1, FS_EmptySet DEF Referred
<1>5. Locked
  BY <1>2 DEF Locked, Locks
<1>6. Published /\ Taken
  BY <1>2 DEF Published, Taken
<1>7. CopiesExact
  <2>1. \A c \in Copy : Has(c) = {} /\ Takes(c) = {}
    BY DEF Has, Takes, Copy
  <2>2. \A c \in Copy : held[c] = Owned(c)
    BY DEF Owned, Copy
  <2> QED
    BY <2>1, <2>2, FS_EmptySet DEF CopiesExact, Owned
<1> QED
  BY <1>3, <1>4, <1>5, <1>6, <1>7 DEF StmInv

\* Every step keeps the invariant.
LEMMA StepKeeps ==
  ASSUME StmInv, [StmNext]_stmVars
  PROVE  StmInv'
<1>1. CASE UNCHANGED stmVars
  <2>1. UNCHANGED <<freed, refer, copy, lock, held, copies, at, old, ret, last>>
    BY <1>1 DEF stmVars
  <2>2. StmType' /\ Locked' /\ Published' /\ Taken'
    BY <2>1 DEF StmInv, StmType, Locked, Published, Taken
  <2>3. Referred' /\ CopiesExact'
    BY <2>1, SameReferred, SameCounted DEF StmInv
  <2> QED
    BY <2>2, <2>3 DEF StmInv
<1>2. CASE Update \/ ReleaseOld \/ Release
  BY <1>2, UpdateKeeps, ReleaseOldKeeps, ReleaseKeeps
<1>3. ASSUME NEW r \in Reader,
             \/ Grab(r) \/ Look(r) \/ Count(r) \/ Unlock(r) \/ Compare(r)
             \/ Leave(r) \/ CountOut(r) \/ Drop(r)
      PROVE  StmInv'
  BY <1>3, GrabKeeps, LookKeeps, CountKeeps, UnlockKeeps, CompareKeeps, LeaveKeeps,
     CountOutKeeps, DropKeeps
<1> QED
  BY <1>1, <1>2, <1>3 DEF StmNext

\* The counts of objects and copies are right in every state.
THEOREM StmInvariance ==
  StmSpec => []StmInv
BY InitKeeps, StepKeeps, PTL DEF StmSpec

\* Counts that are right keep what somebody has and free the rest.
LEMMA CountsSuffice ==
  ASSUME StmInv
  PROVE  CopiesShared
<1> USE StmAssumption DEF StmInv
<1>1. freed => at[Writer] = "gone" /\ Knowing = {}
  BY ReadersFinite, FS_EmptySet DEF Referred, StmType
<1>2. ObjectKept
  <2>1. ASSUME freed, NEW r \in Reader
        PROVE  at[r] \in {"none", "leaves", "drops", "gone"}
    BY <1>1, <2>1 DEF Knowing, StmType, Knows, Locks
  <2> QED
    BY <1>1, <2>1 DEF ObjectKept
<1>3. CopiesCounted
  <2>1. ASSUME NEW c \in Copy, NEW r \in Reader, ret[r] = c, at[r] = "counts"
        PROVE  held[c] > 0
    <3>1. Owned(c) = 1
      BY <2>1 DEF Taken, Owned
    <3> QED
      BY <3>1, ReadersFinite DEF CopiesExact
  <2> QED
    BY <2>1 DEF CopiesCounted, CopiesExact, Has, Takes, Owned
<1>4. ASSUME \A s \in Reader \cup {Writer} : at[s] \in {"none", "gone"}, at[Writer] = "gone"
      PROVE  freed /\ \A c \in Copy : held[c] = 0
  <2>1. Knowing = {} /\ copy = 0 /\ old = 0
    BY <1>4 DEF Knowing, Knows, Published
  <2>2. freed
    BY <1>4, <2>1, FS_EmptySet DEF Referred
  <2>3. ASSUME NEW c \in Copy
        PROVE  held[c] = 0
    <3>1. Has(c) = {} /\ Takes(c) = {} /\ Owned(c) = 0
      BY <1>4, <2>1 DEF Has, Takes, Owned, Taken, Copy
    <3> QED
      BY <3>1, FS_EmptySet DEF CopiesExact
  <2> QED
    BY <2>2, <2>3
<1> QED
  BY <1>2, <1>3, <1>4 DEF CopiesShared, NothingLeaks

\* No object and no copy is used after it was freed, none is taken whose count is 0, and
\* all are freed in the end: CopiesShared, of stm_copy, stm_update, stm_release and
\* stm_releasereader.
THEOREM Shared ==
  StmSpec => []CopiesShared
BY StmInvariance, CountsSuffice, PTL

-----------------------------------------------------------------------------
(* mtask_timer.c: timers wait where they are looked for.                   *)

\* The spans of the levels, out of their recursive definition.
LEMMA SpanIs ==
  /\ Span[0] = TIME_NEAR
  /\ \A l \in 0 .. 3 : Span[l + 1] = Span[l] * TIME_LEVEL
<1> DEFINE h == [l \in 0 .. 4 |->
         IF l = 0 THEN TIME_NEAR
         ELSE IF l = 1 THEN TIME_NEAR * TIME_LEVEL
         ELSE IF l = 2 THEN TIME_NEAR * TIME_LEVEL * TIME_LEVEL
         ELSE IF l = 3 THEN TIME_NEAR * TIME_LEVEL * TIME_LEVEL * TIME_LEVEL
         ELSE TIME_NEAR * TIME_LEVEL * TIME_LEVEL * TIME_LEVEL * TIME_LEVEL]
<1> DEFINE Rec(f) == [l \in 0 .. 4 |-> IF l = 0 THEN TIME_NEAR ELSE f[l - 1] * TIME_LEVEL]
<1>1. h = Rec(h)
  <2>1. \A l \in 0 .. 4 : h[l] = Rec(h)[l]
    BY TimerAssumption
  <2> HIDE DEF h
  <2>2. h = [l \in 0 .. 4 |-> h[l]]
    BY DEF h
  <2> QED
    BY <2>1, <2>2
<1>2. Span = CHOOSE f : f = Rec(f)
  BY DEF Span
<1> HIDE DEF h
<1>3. Span = Rec(Span)
  <2> HIDE DEF Rec
  <2> QED
  BY <1>1, <1>2
<1> QED
  <2>1. \A l \in 0 .. 4 : Span[l] = IF l = 0 THEN TIME_NEAR ELSE Span[l - 1] * TIME_LEVEL
    BY <1>3
  <2> QED
    BY <2>1

\* Every level is a whole number of the one before.
LEMMA SpanPos == \A l \in 0 .. 4 : Span[l] \in Nat \ {0, 1}
<1>0. TIME_LEVEL \in Nat \ {0, 1} /\ Span[0] \in Nat \ {0, 1}
  BY SpanIs, TimerAssumption
<1>1. \A x \in Nat \ {0, 1} : x * TIME_LEVEL \in Nat \ {0, 1}
  BY <1>0
<1>2. \A l \in 0 .. 3 : Span[l] \in Nat \ {0, 1} => Span[l + 1] \in Nat \ {0, 1}
  BY SpanIs, <1>1
<1>3. Span[0 + 1] \in Nat \ {0, 1}
  BY <1>0, <1>2
<1>4. Span[1 + 1] \in Nat \ {0, 1}
  BY <1>3, <1>2
<1>5. Span[2 + 1] \in Nat \ {0, 1}
  BY <1>4, <1>2
<1>6. Span[3 + 1] \in Nat \ {0, 1}
  BY <1>5, <1>2
<1> QED
  BY <1>0, <1>3, <1>4, <1>5, <1>6

-----------------------------------------------------------------------------

\* Division of ticks: what is below a multiple, twice, of the next tick, at the end of a
\* block, of a small number.
LEMMA DivBounds ==
  ASSUME NEW x \in Nat, NEW S \in Nat \ {0}
  PROVE  x \div S \in Nat /\ x % S \in 0 .. S - 1 /\ x = S * (x \div S) + (x % S)
OBVIOUS

LEMMA DivTwice ==
  ASSUME NEW x \in Nat, NEW S \in Nat \ {0}, NEW L \in Nat \ {0}
  PROVE  x \div (S * L) = (x \div S) \div L
OBVIOUS

LEMMA DivNext ==
  ASSUME NEW x \in Nat, NEW S \in Nat \ {0}
  PROVE  (x + 1) \div S = IF (x + 1) % S = 0 THEN (x \div S) + 1 ELSE x \div S
OBVIOUS

LEMMA LastOfBlock ==
  ASSUME NEW x \in Nat, NEW t \in Nat, NEW S \in Nat \ {0}, (t + 1) % S = 0, x \div S = t \div S
  PROVE  x <= t /\ t - x < S
OBVIOUS

LEMMA SmallDiv ==
  ASSUME NEW x \in Nat, NEW S \in Nat \ {0}, x < S
  PROVE  x \div S = 0 /\ x % S = x
OBVIOUS

\* The remainder of a multiple, and of a product.
LEMMA MulMod ==
  ASSUME NEW k \in Nat, NEW S \in Nat \ {0}
  PROVE  (S * k) % S = 0
OBVIOUS

LEMMA ModTwice ==
  ASSUME NEW x \in Nat, NEW S \in Nat \ {0}, NEW L \in Nat \ {0}
  PROVE  x % (S * L) = 0 <=> (x % S = 0 /\ (x \div S) % L = 0)
<1>1. S * L \in Nat \ {0}
  OBVIOUS
<1>2. x \div S \in Nat /\ x = S * (x \div S) + (x % S) /\ x % S \in 0 .. S - 1
  BY DivBounds
<1>3. ASSUME x % (S * L) = 0 PROVE x % S = 0 /\ (x \div S) % L = 0
  <2> DEFINE q == x \div (S * L)
  <2>1. q \in Nat /\ x = (S * L) * q + 0
    BY <1>1, <1>3, DivBounds
  <2> HIDE DEF q
  <2>2. L * q \in Nat /\ x = S * (L * q)
    BY <2>1
  <2>3. x % S = 0 
    BY <2>2, MulMod
  <2>4. x \div S = L * q
    BY <2>2
  <2> QED
    BY <2>1, <2>3, <2>4, MulMod
<1>4. ASSUME x % S = 0, (x \div S) % L = 0 PROVE x % (S * L) = 0
  <2> DEFINE y == x \div S
             q == y \div L
  <2>1. y \in Nat /\ q \in Nat /\ y = L * q + 0
    BY <1>2, <1>4, DivBounds
  <2>2. x = S * y
    BY <1>2, <1>4
  <2> HIDE DEF y, q
  <2>3. x = (S * L) * q
    BY <2>1, <2>2
  <2> QED
    BY <2>1, <2>3, <1>1, MulMod
<1> QED
  BY <1>3, <1>4
-----------------------------------------------------------------------------
Tick == 0 .. Word - 1

\* The slot of level l, counted from 0 without a wrap, in which a tick is.
Block(l, x) == x \div Span[l]

\* An expiry x seen at t belongs to level l.
OfLevel(x, t, l) ==
  Block(l, x) # Block(l, t) /\ (l = 3 \/ Block(l + 1, x) = Block(l + 1, t))

\* The block of a tick in a level is one of TIME_LEVEL in a block of the next.
LEMMA BlockIs ==
  ASSUME NEW x \in Nat
  PROVE  /\ \A l \in 0 .. 4 : Block(l, x) \in Nat
         /\ \A l \in 0 .. 3 : Block(l + 1, x) = Block(l, x) \div TIME_LEVEL
         /\ Block(0, x) = x \div TIME_NEAR
<1>1. \A l \in 0 .. 4 : Block(l, x) \in Nat
  BY SpanPos, DivBounds DEF Block
<1>2. ASSUME NEW l \in 0 .. 3 PROVE Block(l + 1, x) = Block(l, x) \div TIME_LEVEL
  <2>1. Span[l + 1] = Span[l] * TIME_LEVEL /\ Span[l] \in Nat \ {0}
    BY SpanIs, SpanPos
  <2> QED
    BY <2>1, DivTwice, TimerAssumption DEF Block
<1> QED
  BY <1>1, <1>2, SpanIs DEF Block

\* What is in one slot is in one slot of every coarser level.
LEMMA SameAbove ==
  ASSUME NEW x \in Nat, NEW y \in Nat, NEW k \in 0 .. 4, NEW l \in 0 .. 4, k <= l,
         Block(k, x) = Block(k, y)
  PROVE  Block(l, x) = Block(l, y)
<1>1. \A j \in 0 .. 3 : Block(j, x) = Block(j, y) => Block(j + 1, x) = Block(j + 1, y)
  BY BlockIs
<1>2. \A j \in 0 .. 3 : j >= k /\ Block(j, x) = Block(j, y) => Block(j + 1, x) = Block(j + 1, y)
  BY <1>1
<1> DEFINE SameBlock(j) == j >= k => Block(j, x) = Block(j, y)
<1>3. SameBlock(0)
  OBVIOUS
<1>4. \A j \in 0 .. 3 : SameBlock(j) => SameBlock(j + 1)
  <2> SUFFICES ASSUME NEW j \in 0 .. 3, SameBlock(j), j + 1 >= k
                  PROVE  Block(j + 1, x) = Block(j + 1, y)
    OBVIOUS
  <2>1. CASE j >= k
    BY <2>1, <1>1
  <2>2. CASE ~(j >= k)
    <3>1. j + 1 = k
      BY <2>2
    <3> QED
      BY <3>1
  <2> QED
    BY <2>1, <2>2
<1> HIDE DEF SameBlock
<1>5. SameBlock(0 + 1) /\ SameBlock(1 + 1) /\ SameBlock(2 + 1) /\ SameBlock(3 + 1)
  BY <1>3, <1>4
<1>6. SameBlock(l)
  BY <1>3, <1>5
<1> QED
  BY <1>6 DEF SameBlock

\* The levels reach as far as the word.
LEMMA WholeWord == Word \in Nat \ {0, 1} /\ \A x \in Tick : x \in Nat /\ Block(4, x) = 0
<1>1. Word \in Nat \ {0, 1}
  BY SpanPos DEF Word
<1>2. ASSUME NEW x \in Tick PROVE x \in Nat /\ x < Word
  BY <1>1 DEF Tick
<1> QED
  BY <1>1, <1>2, SmallDiv DEF Block, Word

\* Place as the code of add_node has it: near, or the one level of an expiry.
LEMMA PlaceIs ==
  ASSUME NEW x \in Nat, NEW t \in Nat
  PROVE  /\ Block(0, x) = Block(0, t) => Place(x, t) = <<Near, x % TIME_NEAR>>
         /\ \A l \in 0 .. 3 : OfLevel(x, t, l) => Place(x, t) = <<l, Block(l, x) % TIME_LEVEL>>
         /\ Block(0, x) = Block(0, t) \/ \E l \in 0 .. 3 : OfLevel(x, t, l)
<1>1. Block(0, x) = x \div TIME_NEAR /\ Block(0, t) = t \div TIME_NEAR
  BY BlockIs
<1>2. ASSUME NEW l \in 0 .. 3, OfLevel(x, t, l)
      PROVE  Place(x, t) = <<l, Block(l, x) % TIME_LEVEL>>
  <2> DEFINE Finest(j) == /\ j = 3 \/ x \div Span[j + 1] = t \div Span[j + 1]
                          /\ \A k \in 0 .. j - 1 : x \div Span[k + 1] # t \div Span[k + 1]
  <2>1. Block(0, x) # Block(0, t)
    BY <1>2, SameAbove DEF OfLevel
  <2>2. Finest(l)
    <3>1. l = 3 \/ Block(l + 1, x) = Block(l + 1, t)
      BY <1>2 DEF OfLevel
    <3>2. ASSUME NEW k \in 0 .. l - 1 PROVE Block(k + 1, x) # Block(k + 1, t)
      <4>1. k + 1 \in 0 .. 4 /\ k + 1 <= l /\ l \in 0 .. 4
        OBVIOUS
      <4> QED
        BY <4>1, <1>2, SameAbove DEF OfLevel
    <3> QED
      BY <3>1, <3>2 DEF Block
  <2>3. ASSUME NEW j \in 0 .. 3, Finest(j) PROVE j = l
    <3>1. CASE j < l
      <4>1. j \in 0 .. l - 1 /\ j # 3
        BY <3>1
      <4> QED
        BY <4>1, <2>2, <2>3
    <3>2. CASE l < j
      <4>1. l \in 0 .. j - 1 /\ l # 3
        BY <3>2
      <4> QED
        BY <4>1, <2>2, <2>3
    <3> QED
      BY <3>1, <3>2
  <2>4. (CHOOSE j \in 0 .. 3 : Finest(j)) = l
    <3> HIDE DEF Finest
    <3> QED
      BY <2>2, <2>3
  <2>5. Place(x, t) = LET level == CHOOSE j \in 0 .. 3 : Finest(j)
                      IN <<level, (x \div Span[level]) % TIME_LEVEL>>
    BY <1>1, <2>1 DEF Place
  <2> QED
    BY <2>4, <2>5 DEF Block
<1>3. Block(0, x) = Block(0, t) \/ \E l \in 0 .. 3 : OfLevel(x, t, l)
  <2>1. CASE Block(0, x) # Block(0, t)
    <3> SUFFICES ASSUME \A l \in 0 .. 3 : ~OfLevel(x, t, l) PROVE FALSE
      OBVIOUS
    <3>1. \A l \in 0 .. 3 : Block(l, x) # Block(l, t) => l # 3 /\ Block(l + 1, x) # Block(l + 1, t)
      BY DEF OfLevel
    <3>2. Block(0 + 1, x) # Block(0 + 1, t)
      BY <2>1, <3>1
    <3>3. Block(1 + 1, x) # Block(1 + 1, t)
      BY <3>2, <3>1
    <3>4. Block(2 + 1, x) # Block(2 + 1, t)
      BY <3>3, <3>1
    <3> QED
      BY <3>4, <3>1
  <2> QED
    BY <2>1
<1>4. Block(0, x) = Block(0, t) => Place(x, t) = <<Near, x % TIME_NEAR>>
  BY <1>1 DEF Place
<1> QED
  BY <1>2, <1>3, <1>4
-----------------------------------------------------------------------------
\* The ticks from t to x, round the word.
Gap(x, t) == (x - t) % Word

\* The levels whose slot starts at ct.
TurnedAt(ct) == {l \in 0 .. 3 : ct % Span[l] = 0 /\ (ct \div Span[l]) % TIME_LEVEL # 0}

\* The remainder of what is less than a word off.
LEMMA ModMinus ==
  ASSUME NEW W \in Nat \ {0}, NEW y \in 0 .. W - 1
  PROVE  y % W = y /\ (y - W) % W = y /\ (y + W) % W = y
OBVIOUS

\* The distance of two ticks around the word.
LEMMA GapIs ==
  ASSUME NEW x \in Tick, NEW t \in Tick
  PROVE  /\ Gap(x, t) = IF t <= x THEN x - t ELSE x - t + Word
         /\ Gap(x, t) \in Tick
<1>1. Word \in Nat \ {0} /\ x \in 0 .. Word - 1 /\ t \in 0 .. Word - 1
  BY WholeWord DEF Tick
<1>2. CASE t <= x
  <2>1. x - t \in 0 .. Word - 1
    BY <1>1, <1>2
  <2> QED
    BY <2>1, <1>1, <1>2, ModMinus DEF Gap, Tick
<1>3. CASE ~(t <= x)
  <2> DEFINE y == x - t + Word
  <2>1. y \in 0 .. Word - 1 /\ x - t = y - Word
    BY <1>1, <1>3
  <2> HIDE DEF y
  <2>2. Gap(x, t) = y
    BY <2>1, <1>1, ModMinus DEF Gap
  <2> QED
    BY <2>1, <2>2, <1>3 DEF y, Tick
<1> QED
  BY <1>2, <1>3

\* The tick after the last is 0.
LEMMA NextTick ==
  ASSUME NEW t \in Tick
  PROVE  /\ (t + 1) % Word = IF t = Word - 1 THEN 0 ELSE t + 1
         /\ (t + 1) % Word \in Tick
<1>1. Word \in Nat \ {0} /\ t \in 0 .. Word - 1
  BY WholeWord DEF Tick
<1>2. CASE t = Word - 1
  <2>1. t + 1 = 0 + Word /\ 0 \in 0 .. Word - 1
    BY <1>1, <1>2
  <2> QED
    BY <2>1, <1>1, <1>2, ModMinus DEF Tick
<1>3. CASE t # Word - 1
  <2>1. t + 1 \in 0 .. Word - 1
    BY <1>1, <1>3
  <2> QED
    BY <2>1, <1>1, <1>3, ModMinus DEF Tick
<1> QED
  BY <1>2, <1>3

\* A tick brings every expiry one closer, but for the one that is due, which no two share.
LEMMA GapMoves ==
  ASSUME NEW x \in Tick, NEW t \in Tick
  PROVE  /\ Gap(x, t) = 0 <=> x = t
         /\ x # t => Gap(x, (t + 1) % Word) = Gap(x, t) - 1
         /\ \A y \in Tick : Gap(x, t) = Gap(y, t) => x = y
<1>1. Word \in Nat \ {0} /\ x \in 0 .. Word - 1 /\ t \in 0 .. Word - 1
  BY WholeWord DEF Tick
<1>2. Gap(x, t) = 0 <=> x = t
  BY <1>1, GapIs
<1>3. ASSUME x # t PROVE Gap(x, (t + 1) % Word) = Gap(x, t) - 1
  <2> DEFINE u == (t + 1) % Word
  <2>1. u \in Tick /\ u = IF t = Word - 1 THEN 0 ELSE t + 1
    BY NextTick
  <2> HIDE DEF u
  <2>2. Gap(x, u) = IF u <= x THEN x - u ELSE x - u + Word
    BY <2>1, GapIs
  <2>3. Gap(x, t) = IF t <= x THEN x - t ELSE x - t + Word
    BY GapIs
  <2>4. Gap(x, u) = Gap(x, t) - 1
    BY <1>1, <1>3, <2>1, <2>2, <2>3
  <2> QED
    BY <2>4 DEF u
<1>4. ASSUME NEW y \in Tick, Gap(x, t) = Gap(y, t) PROVE x = y
  <2>1. y \in 0 .. Word - 1
    BY DEF Tick
  <2> QED
    BY <1>1, <1>4, <2>1, GapIs
<1> QED
  BY <1>2, <1>3, <1>4

\* A timer of d ticks expires d ticks later.
LEMMA GapOfExpiry ==
  ASSUME NEW t \in Tick, NEW d \in Tick
  PROVE  (d + t) % Word \in Tick /\ Gap((d + t) % Word, t) = d
<1>1. Word \in Nat \ {0} /\ d \in 0 .. Word - 1 /\ t \in 0 .. Word - 1
  BY WholeWord DEF Tick
<1> DEFINE x == (d + t) % Word
<1>2. x = IF d + t < Word THEN d + t ELSE d + t - Word
  <2>1. CASE d + t < Word
    <3>1. d + t \in 0 .. Word - 1
      BY <1>1, <2>1
    <3>2. (d + t) % Word = d + t
      BY <1>1, <3>1, ModMinus
    <3> QED
      BY <2>1, <3>2
  <2>2. CASE ~(d + t < Word)
    <3> DEFINE y == d + t - Word
    <3>1. y \in 0 .. Word - 1 /\ d + t = y + Word
      BY <1>1, <2>2
    <3> HIDE DEF y
    <3>2. (d + t) % Word = y
      BY <3>1, <1>1, ModMinus
    <3> QED
      BY <3>1, <3>2, <2>2 DEF y
  <2> QED
    BY <2>1, <2>2
<1> HIDE DEF x
<1>3. x \in Tick
  BY <1>1, <1>2 DEF Tick
<1>4. Gap(x, t) = d
  BY <1>1, <1>2, <1>3, GapIs
<1> QED
  BY <1>3, <1>4 DEF x
-----------------------------------------------------------------------------
\* A slot that starts at a tick is a slot of the finer levels too.
LEMMA StartsFiner ==
  ASSUME NEW ct \in Nat, NEW l \in 0 .. 3
  PROVE  ct % Span[l + 1] = 0 <=> (ct % Span[l] = 0 /\ Block(l, ct) % TIME_LEVEL = 0)
<1>1. Span[l + 1] = Span[l] * TIME_LEVEL /\ Span[l] \in Nat \ {0}
  BY SpanIs, SpanPos
<1> QED
  BY <1>1, ModTwice, TimerAssumption DEF Block

\* A slot starts where one of a coarser level does.
LEMMA StartsBelow ==
  ASSUME NEW ct \in Nat, NEW l \in 0 .. 4, ct % Span[l] = 0
  PROVE  \A k \in 0 .. l : ct % Span[k] = 0
<1>1. \A j \in 0 .. 3 : ct % Span[j + 1] = 0 => ct % Span[j] = 0
  BY StartsFiner
<1> DEFINE Z(j) == ct % Span[j] = 0
<1>2. Z(l) /\ \A j \in 0 .. 3 : Z(j + 1) => Z(j)
  BY <1>1
<1> HIDE DEF Z
<1>3. (Z(3 + 1) => Z(3)) /\ (Z(2 + 1) => Z(2)) /\ (Z(1 + 1) => Z(1)) /\ (Z(0 + 1) => Z(0))
  BY <1>2
<1>4. \A k \in 0 .. l : Z(k)
  BY <1>2, <1>3
<1> QED
  BY <1>4 DEF Z

\* The finest slots that start are those of all levels up to the one turned.
LEMMA TurnedIs ==
  ASSUME NEW ct \in Tick, ct # 0
  PROVE  \/ TurnedAt(ct) = {} /\ \A l \in 0 .. 4 : ct % Span[l] # 0
         \/ \E l \in 0 .. 3 : /\ TurnedAt(ct) = {l}
                              /\ \A k \in 0 .. l : ct % Span[k] = 0
                              /\ \A k \in l + 1 .. 4 : ct % Span[k] # 0
<1> DEFINE Z(j) == ct % Span[j] = 0
<1>1. ct \in Nat /\ ct < Word /\ Word \in Nat \ {0}
  BY WholeWord DEF Tick
<1>2. ~Z(4)
  BY <1>1, SmallDiv DEF Word
<1>3. ASSUME NEW l \in 0 .. 3 PROVE l \in TurnedAt(ct) <=> Z(l) /\ ~Z(l + 1)
  BY <1>1, StartsFiner DEF TurnedAt, Block
<1>4. ASSUME NEW l \in 0 .. 4, Z(l) PROVE \A k \in 0 .. l : Z(k)
  BY <1>1, <1>4, StartsBelow
<1>5. TurnedAt(ct) \subseteq 0 .. 3
  BY DEF TurnedAt
<1> HIDE DEF Z
<1>6. CASE ~Z(0)
  <2>1. \A l \in 0 .. 4 : ~Z(l)
    BY <1>4, <1>6
  <2>2. TurnedAt(ct) = {}
    BY <2>1, <1>3, <1>5
  <2> QED
    BY <2>1, <2>2 DEF Z
<1>7. CASE Z(0)
  <2>1. PICK l \in 0 .. 3 : Z(l) /\ ~Z(l + 1)
    <3>1. \/ Z(0) /\ ~Z(0 + 1)
          \/ Z(1) /\ ~Z(1 + 1)
          \/ Z(2) /\ ~Z(2 + 1)
          \/ Z(3) /\ ~Z(3 + 1)
      BY <1>2, <1>7
    <3> QED
      BY <3>1
  <2>2. \A k \in 0 .. l : Z(k)
    BY <2>1, <1>4
  <2>3. ASSUME NEW k \in l + 1 .. 4 PROVE ~Z(k)
    <3>1. k \in 0 .. 4 /\ l + 1 \in 0 .. k
      OBVIOUS
    <3> QED
      BY <3>1, <2>1, <1>4
  <2>4. TurnedAt(ct) = {l}
    <3>1. l \in TurnedAt(ct)
      BY <2>1, <1>3
    <3>2. ASSUME NEW k \in TurnedAt(ct) PROVE k = l
      <4>1. k \in 0 .. 3 /\ Z(k) /\ ~Z(k + 1)
        BY <1>3, <1>5
      <4>2. CASE k < l
        <5>1. k + 1 \in 0 .. l
          BY <4>1, <4>2
        <5> QED
          BY <4>1, <5>1, <2>2
      <4>3. CASE k > l
        <5>1. k \in l + 1 .. 4
          BY <4>1, <4>3
        <5> QED
          BY <4>1, <5>1, <2>3
      <4> QED
        BY <4>1, <4>2, <4>3
    <3> QED
      BY <3>1, <3>2
  <2> QED
    BY <2>2, <2>3, <2>4 DEF Z
<1> QED
  BY <1>6, <1>7

\* A timer that waits is not in the slot that ends, for it is not set for so long:
\* an int is at most half the word.
LEMMA NotInPast ==
  ASSUME NEW x \in Tick, NEW t \in Tick, x # t, 2 * Gap(x, t) <= Word,
         NEW k \in 0 .. 3, (t + 1) % Span[k] = 0
  PROVE  Block(k, x) # Block(k, t)
<1> SUFFICES ASSUME Block(k, x) = Block(k, t) PROVE FALSE
  OBVIOUS
<1>1. x \in Nat /\ t \in Nat /\ Word \in Nat
  BY WholeWord
<1>2. x <= t /\ t - x < Span[k]
  <2>1. Span[k] \in Nat \ {0} /\ x \div Span[k] = t \div Span[k]
    BY SpanPos DEF Block
  <2> QED
    BY <2>1, <1>1, LastOfBlock
<1>3. Gap(x, t) = x - t + Word
  BY <1>1, <1>2, GapIs
<1>4. 2 * Span[k] <= Word
  <2>1. \A l \in 0 .. 3 : 2 * Span[l] <= Span[l + 1]
    <3>1. \A y \in Nat, L \in Nat \ {0, 1} : 2 * y <= y * L
      OBVIOUS
    <3> QED
      BY <3>1, SpanIs, SpanPos, TimerAssumption
  <2>2. /\ 2 * Span[0] <= Span[1] /\ 2 * Span[1] <= Span[2]
        /\ 2 * Span[2] <= Span[3] /\ 2 * Span[3] <= Span[4]
    <3>1. /\ 2 * Span[0] <= Span[0 + 1] /\ 2 * Span[1] <= Span[1 + 1]
          /\ 2 * Span[2] <= Span[2 + 1] /\ 2 * Span[3] <= Span[3 + 1]
      BY <2>1
    <3> QED
      BY <3>1
  <2>3. \A l \in {0, 1, 2, 3, 4} : Span[l] \in Nat
    BY SpanPos
  <2>4. k \in {0, 1, 2, 3}
    OBVIOUS
  <2> QED
    BY <2>2, <2>3, <2>4 DEF Word
<1>5. Span[k] \in Nat
  BY SpanPos
<1> QED
  BY <1>1, <1>2, <1>3, <1>4, <1>5

\* The place the tick to ct moves the nodes of, if it moves any.
MovedAt(ct, p) ==
  \/ ct = 0 /\ p = <<3, 0>>
  \/ ct # 0 /\ \E l \in TurnedAt(ct) : p = <<l, Block(l, ct) % TIME_LEVEL>>

\* A tick leaves in place all the nodes that it does not move.
LEMMA PlaceKept ==
  ASSUME NEW x \in Tick, NEW t \in Tick, x # t, 2 * Gap(x, t) <= Word,
         ~MovedAt((t + 1) % Word, Place(x, t))
  PROVE  Place(x, (t + 1) % Word) = Place(x, t)
<1> DEFINE ct == (t + 1) % Word
<1>1. ct \in Tick /\ ct = IF t = Word - 1 THEN 0 ELSE t + 1
  BY NextTick
<1>2. ~MovedAt(ct, Place(x, t))
  OBVIOUS
<1>3. x \in Nat /\ t \in Nat /\ ct \in Nat /\ Word \in Nat \ {0}
  BY <1>1, WholeWord
<1> HIDE DEF ct
<1>4. ASSUME NEW l \in 0 .. 3, OfLevel(x, t, l), OfLevel(x, ct, l) PROVE Place(x, ct) = Place(x, t)
  BY <1>3, <1>4, PlaceIs
<1>5. ASSUME ct = 0 PROVE Place(x, ct) = Place(x, t)
  <2>1. t + 1 = Word
    BY <1>1, <1>3, <1>5
  <2>2. \A k \in 0 .. 3 : (t + 1) % Span[k] = 0
    <3>1. (t + 1) % Span[4] = 0
      BY <2>1, <1>3 DEF Word
    <3> QED
      BY <3>1, <1>3, StartsBelow
  <2>3. Block(0, x) # Block(0, t)
    BY <2>2, NotInPast
  <2>4. PICK l \in 0 .. 3 : OfLevel(x, t, l)
    BY <2>3, <1>3, PlaceIs
  <2>5. l = 3
    <3>1. ASSUME l # 3 PROVE FALSE
      <4>1. l + 1 \in 0 .. 3 /\ Block(l + 1, x) = Block(l + 1, t)
        BY <2>4, <3>1 DEF OfLevel
      <4> QED
        BY <4>1, <2>2, NotInPast
    <3> QED
      BY <3>1
  <2>6. Place(x, t) = <<3, Block(3, x) % TIME_LEVEL>>
    BY <2>4, <2>5, <1>3, PlaceIs
  <2>7. Block(3, x) # 0
    <3>1. 0 % TIME_LEVEL = 0
      BY TimerAssumption
    <3> QED
      BY <3>1, <2>6, <1>2, <1>5 DEF MovedAt
  <2>8. Block(3, ct) = 0
    BY <1>5, SpanPos, SmallDiv DEF Block
  <2>9. OfLevel(x, ct, l)
    BY <2>5, <2>7, <2>8 DEF OfLevel
  <2> QED
    BY <2>4, <2>9, <1>4
<1>6. ASSUME ct # 0 PROVE Place(x, ct) = Place(x, t)
  <2>1. ct = t + 1
    BY <1>1, <1>6
  <2>2. \A k \in 0 .. 4 : ct % Span[k] # 0 => Block(k, ct) = Block(k, t)
    BY <2>1, <1>3, SpanPos, DivNext DEF Block
  <2>3. CASE TurnedAt(ct) = {} /\ \A k \in 0 .. 4 : ct % Span[k] # 0
    <3>1. \A k \in 0 .. 4 : Block(k, ct) = Block(k, t)
      BY <2>2, <2>3
    <3>2. CASE Block(0, x) = Block(0, t)
      BY <3>1, <3>2, <1>3, PlaceIs
    <3>3. CASE Block(0, x) # Block(0, t)
      <4>1. PICK l \in 0 .. 3 : OfLevel(x, t, l)
        BY <3>3, <1>3, PlaceIs
      <4>2. OfLevel(x, ct, l)
        BY <4>1, <3>1 DEF OfLevel
      <4> QED
        BY <4>1, <4>2, <1>4
    <3> QED
      BY <3>2, <3>3
  <2>4. ASSUME NEW j \in 0 .. 3, TurnedAt(ct) = {j},
               \A k \in 0 .. j : ct % Span[k] = 0, \A k \in j + 1 .. 4 : ct % Span[k] # 0
        PROVE  Place(x, ct) = Place(x, t)
    <3>1. \A k \in 0 .. j : Block(k, x) # Block(k, t)
      BY <2>1, <2>4, NotInPast
    <3>2. \A k \in j + 1 .. 4 : Block(k, ct) = Block(k, t)
      BY <2>2, <2>4
    <3>3. PICK l \in 0 .. 3 : OfLevel(x, t, l)
      <4>1. Block(0, x) # Block(0, t)
        BY <3>1
      <4> QED
        BY <4>1, <1>3, PlaceIs
    <3>4. ~(l < j)
      <4>1. ASSUME l < j PROVE FALSE
        <5>1. l + 1 \in 0 .. j /\ l # 3 /\ Block(l + 1, x) = Block(l + 1, t)
          BY <3>3, <4>1 DEF OfLevel
        <5> QED
          BY <5>1, <3>1
      <4> QED
        BY <4>1
    <3>5. CASE l = j
      <4>1. Place(x, t) = <<j, Block(j, x) % TIME_LEVEL>>
        BY <3>3, <3>5, <1>3, PlaceIs
      <4>2. Block(j, x) # Block(j, ct)
        BY <4>1, <1>2, <1>6, <2>4 DEF MovedAt
      <4>3. OfLevel(x, ct, l)
        BY <3>2, <3>3, <3>5, <4>2 DEF OfLevel
      <4> QED
        BY <3>3, <4>3, <1>4
    <3>6. CASE l > j
      <4>1. Block(l, ct) = Block(l, t) /\ Block(l + 1, ct) = Block(l + 1, t)
        BY <3>2, <3>6
      <4>2. OfLevel(x, ct, l)
        BY <3>3, <4>1 DEF OfLevel
      <4> QED
        BY <3>3, <4>2, <1>4
    <3> QED
      BY <3>4, <3>5, <3>6
  <2> QED
    BY <2>3, <2>4, <1>1, <1>6, TurnedIs
<1> QED
  BY <1>5, <1>6 DEF ct

\* A place is a slot, and the current slot is the one of what is due now.
LEMMA PlaceInPlaces ==
  ASSUME NEW x \in Tick, NEW t \in Tick
  PROVE  /\ Place(x, t) \in Places
         /\ SlotOf(t) \in Places
         /\ Place(x, t) = SlotOf(t) <=> x = t
<1>1. x \in Nat /\ t \in Nat
  BY WholeWord
<1>2. \A y \in Nat : y % TIME_NEAR \in 0 .. TIME_NEAR - 1 /\ y % TIME_LEVEL \in 0 .. TIME_LEVEL - 1
  BY DivBounds, TimerAssumption
<1>3. \A l \in 0 .. 4 : Block(l, x) \in Nat
  BY <1>1, BlockIs
<1>4. SlotOf(t) \in Places
  BY <1>1, <1>2 DEF SlotOf, Places
<1>5. CASE Block(0, x) = Block(0, t)
  <2>1. Place(x, t) = <<Near, x % TIME_NEAR>>
    BY <1>1, <1>5, PlaceIs
  <2>2. x % TIME_NEAR = t % TIME_NEAR => x = t
    <3>1. x \div TIME_NEAR = t \div TIME_NEAR
      BY <1>1, <1>5, BlockIs
    <3>2. /\ x = TIME_NEAR * (x \div TIME_NEAR) + (x % TIME_NEAR)
          /\ t = TIME_NEAR * (t \div TIME_NEAR) + (t % TIME_NEAR)
      BY <1>1, DivBounds, TimerAssumption
    <3> QED
      BY <3>1, <3>2
  <2> QED
    BY <2>1, <2>2, <1>1, <1>2, <1>4 DEF SlotOf, Places
<1>6. CASE Block(0, x) # Block(0, t)
  <2>1. PICK l \in 0 .. 3 : OfLevel(x, t, l)
    BY <1>6, <1>1, PlaceIs
  <2>2. Place(x, t) = <<l, Block(l, x) % TIME_LEVEL>>
    BY <2>1, <1>1, PlaceIs
  <2>3. Place(x, t) \in Places
    BY <2>2, <1>2, <1>3 DEF Places
  <2>4. Place(x, t) # SlotOf(t) /\ x # t
    BY <2>2, <1>6 DEF SlotOf, Near
  <2> QED
    BY <2>3, <2>4, <1>4
<1> QED
  BY <1>5, <1>6

NatLess == {ss \in Nat \X Nat : ss[1] < ss[2]}

\* The order that induction goes along.
LEMMA NatLessWF == IsWellFoundedOn(NatLess, Nat)
BY NatLessThanWellFounded DEF OpToRel, NatLess

\* Induction, for sets of numbers.
LEMMA SetInduction ==
  ASSUME NEW S, 0 \in S, \A n \in Nat : n \in S => n + 1 \in S
  PROVE  Nat \subseteq S
<1> DEFINE T == Nat \ S
<1> SUFFICES ASSUME T # {} PROVE FALSE
  OBVIOUS
<1>1. T \subseteq Nat
  OBVIOUS
<1>2. PICK x \in T : \A y \in T : ~(<<y, x>> \in NatLess)
  <2> HIDE DEF T
  <2> QED
    BY <1>1, NatLessWF, WFMin
<1>3. x \in Nat /\ x # 0 /\ x - 1 \in Nat
  OBVIOUS
<1>4. x - 1 \notin S
  BY <1>3
<1>5. <<x - 1, x>> \in NatLess
  BY <1>3 DEF NatLess
<1> QED
  BY <1>2, <1>3, <1>4, <1>5

\* h starts with x0 and goes on as step says.
StepsOf(h, m, x0, step) == h[0] = x0 /\ \A n \in 1 .. m : h[n] = step[<<n, h[n - 1]>>]

\* A function can be defined step by step.
LEMMA RecursionExists ==
  ASSUME NEW m \in Nat, NEW X, NEW x0 \in X, NEW step \in [(1 .. m) \X X -> X]
  PROVE  \E h \in [0 .. m -> X] : StepsOf(h, m, x0, step)
<1> DEFINE Upto(n) == \E h \in [0 .. n -> X] :
                         h[0] = x0 /\ \A k \in 1 .. n : h[k] = step[<<k, h[k - 1]>>]
           S == {n \in Nat : n <= m => Upto(n)}
<1>1. 0 \in S
  <2> DEFINE h == [k \in 0 .. 0 |-> x0]
  <2>1. h \in [0 .. 0 -> X] /\ h[0] = x0 /\ \A k \in 1 .. 0 : h[k] = step[<<k, h[k - 1]>>]
    OBVIOUS
  <2> HIDE DEF h
  <2>2. Upto(0)
    BY <2>1
  <2> QED
    BY <2>2
<1>2. ASSUME NEW n \in Nat, n \in S PROVE n + 1 \in S
  <2> SUFFICES ASSUME n + 1 <= m PROVE Upto(n + 1)
    OBVIOUS
  <2>1. PICK h \in [0 .. n -> X] : h[0] = x0 /\ \A k \in 1 .. n : h[k] = step[<<k, h[k - 1]>>]
    BY <1>2
  <2> DEFINE g == [k \in 0 .. n + 1 |-> IF k = n + 1 THEN step[<<n + 1, h[n]>>] ELSE h[k]]
  <2>2. <<n + 1, h[n]>> \in (1 .. m) \X X
    BY <2>1
  <2>3. g \in [0 .. n + 1 -> X]
    BY <2>1, <2>2
  <2>4. g[0] = x0
    BY <2>1
  <2>5. ASSUME NEW k \in 1 .. n + 1 PROVE g[k] = step[<<k, g[k - 1]>>]
    <3>1. k - 1 \in 0 .. n /\ g[k - 1] = h[k - 1]
      BY <2>5
    <3>2. CASE k = n + 1
      <4>1. k - 1 = n /\ k \in 0 .. n + 1
        BY <3>2
      <4> QED
        BY <3>1, <3>2, <4>1
    <3>3. CASE k # n + 1
      <4>1. k \in 1 .. n /\ g[k] = h[k]
        BY <3>3
      <4> QED
        BY <3>1, <4>1, <2>1
    <3> QED
      BY <3>2, <3>3
  <2> HIDE DEF g
  <2> QED
    BY <2>3, <2>4, <2>5
<1> HIDE DEF S
<1>3. Nat \subseteq S
  BY <1>1, <1>2, SetInduction
<1> QED
  BY <1>3 DEF S, StepsOf

\* What move_list adds to one place: its nodes of that place, all and in their order.
PartOf(g, s, p, now) ==
  \E ix \in [1 .. Len(g) -> 1 .. Len(s)] :
    /\ \A j, k \in 1 .. Len(g) : j < k => ix[j] < ix[k]
    /\ \A k \in 1 .. Len(g) : g[k] = s[ix[k]] /\ Place(s[ix[k]].expire, now) = p
    /\ \A i \in 1 .. Len(s) : Place(s[i].expire, now) = p => \E k \in 1 .. Len(g) : ix[k] = i

\* move_list takes its nodes in their order: those of p, each once.
LEMMA GoingIs ==
  ASSUME NEW S, NEW s \in Seq(S), NEW p, NEW now
  PROVE  Going(s, p, now) \in Seq(S) /\ PartOf(Going(s, p, now), s, p, now)
<1> DEFINE Rec(f) == [n \in 0 .. Len(s) |->
               IF n = 0 THEN <<>>
               ELSE IF Place(s[n].expire, now) = p THEN Append(f[n - 1], s[n]) ELSE f[n - 1]]
           f == CHOOSE g : g = Rec(g)
           step == [nx \in (1 .. Len(s)) \X Seq(S) |->
               IF Place(s[nx[1]].expire, now) = p THEN Append(nx[2], s[nx[1]]) ELSE nx[2]]
<1>0. Len(s) \in Nat /\ \A n \in 1 .. Len(s) : s[n] \in S
  OBVIOUS
<1>1. Going(s, p, now) = f[Len(s)]
  BY DEF Going
<1>2. f = Rec(f) /\ \A n \in 0 .. Len(s) : f[n] \in Seq(S)
  <2>1. step \in [(1 .. Len(s)) \X Seq(S) -> Seq(S)]
    <3> SUFFICES ASSUME NEW nx \in (1 .. Len(s)) \X Seq(S) PROVE step[nx] \in Seq(S)
      OBVIOUS
    <3>1. s[nx[1]] \in S /\ nx[2] \in Seq(S)
      BY <1>0
    <3> QED
      BY <3>1
  <2>2. <<>> \in Seq(S)
    OBVIOUS
  <2>3. PICK h \in [0 .. Len(s) -> Seq(S)] :
          h[0] = <<>> /\ \A n \in 1 .. Len(s) : h[n] = step[<<n, h[n - 1]>>]
    <3> DEFINE X == Seq(S)
               x0 == <<>>
               m == Len(s)
    <3>1. m \in Nat /\ x0 \in X /\ step \in [(1 .. m) \X X -> X]
      BY <1>0, <2>1, <2>2
    <3> HIDE DEF step, X, x0, m
    <3>2. \E h \in [0 .. m -> X] : StepsOf(h, m, x0, step)
      BY <3>1, RecursionExists, Zenon
    <3> QED
      BY <3>2 DEF X, x0, m, StepsOf
  <2>4. ASSUME NEW n \in 0 .. Len(s) PROVE h[n] = Rec(h)[n]
    <3>1. CASE n = 0
      BY <3>1, <2>3
    <3>2. CASE n # 0
      <4>1. n \in 1 .. Len(s) /\ n - 1 \in 0 .. Len(s)
        BY <1>0, <3>2
      <4>2. h[n - 1] \in Seq(S)
        BY <4>1, <2>3
      <4>3. h[n] = IF Place(s[n].expire, now) = p THEN Append(h[n - 1], s[n]) ELSE h[n - 1]
        BY <4>1, <4>2, <2>3
      <4> QED
        BY <3>2, <4>3
    <3> QED
      BY <3>1, <3>2
  <2>5. h = Rec(h)
    <3>1. h = [n \in 0 .. Len(s) |-> h[n]]
      BY <2>3
    <3> QED
      BY <3>1, <2>4
  <2>6. f = Rec(f)
    <3> HIDE DEF Rec
    <3> QED
      BY <2>5
  <2>7. ASSUME NEW n \in Nat PROVE n <= Len(s) => f[n] \in Seq(S)
    <3> DEFINE T == {k \in Nat : k <= Len(s) => f[k] \in Seq(S)}
    <3> HIDE DEF f
    <3>1. 0 \in T
      BY <2>6, <1>0
    <3>2. ASSUME NEW k \in Nat, k \in T PROVE k + 1 \in T
      <4> SUFFICES ASSUME k + 1 <= Len(s) PROVE f[k + 1] \in Seq(S)
        OBVIOUS
      <4>1. f[k] \in Seq(S) /\ s[k + 1] \in S
        BY <3>2, <1>0
      <4>2. f[k + 1] = IF Place(s[k + 1].expire, now) = p THEN Append(f[k], s[k + 1]) ELSE f[k]
        <5>1. k + 1 \in 0 .. Len(s) /\ k + 1 # 0 /\ (k + 1) - 1 = k
          BY <1>0
        <5> QED
          BY <2>6, <5>1
      <4> QED
        BY <4>1, <4>2
    <3> HIDE DEF T
    <3>3. Nat \subseteq T
      BY <3>1, <3>2, SetInduction
    <3> QED
      BY <3>3 DEF T
  <2> HIDE DEF f, Rec
  <2>8. \A n \in 0 .. Len(s) : n \in Nat /\ n <= Len(s)
    BY <1>0
  <2> QED
    BY <2>6, <2>7, <2>8
<1> HIDE DEF f
<1>3. f[0] = <<>>
  BY <1>0, <1>2
<1>4. ASSUME NEW k \in Nat, k + 1 <= Len(s)
      PROVE f[k + 1] = IF Place(s[k + 1].expire, now) = p THEN Append(f[k], s[k + 1]) ELSE f[k]
  <2>1. k + 1 \in 0 .. Len(s) /\ k + 1 # 0 /\ (k + 1) - 1 = k
    BY <1>0, <1>4
  <2> QED
    BY <1>2, <2>1
<1> DEFINE UpTo(n) ==
      \E ix \in [1 .. Len(f[n]) -> 1 .. n] :
         /\ \A j, k \in 1 .. Len(f[n]) : j < k => ix[j] < ix[k]
         /\ \A k \in 1 .. Len(f[n]) : f[n][k] = s[ix[k]] /\ Place(s[ix[k]].expire, now) = p
         /\ \A i \in 1 .. n : Place(s[i].expire, now) = p => \E k \in 1 .. Len(f[n]) : ix[k] = i
     T == {n \in Nat : n <= Len(s) => UpTo(n)}
<1>5. 0 \in T
  <2> DEFINE ix == [k \in 1 .. Len(f[0]) |-> 0]
  <2>1. Len(f[0]) = 0
    BY <1>3
  <2>2. ix \in [1 .. Len(f[0]) -> 1 .. 0]
    BY <2>1
  <2>3. /\ \A j, k \in 1 .. Len(f[0]) : j < k => ix[j] < ix[k]
        /\ \A k \in 1 .. Len(f[0]) : f[0][k] = s[ix[k]] /\ Place(s[ix[k]].expire, now) = p
        /\ \A i \in 1 .. 0 : Place(s[i].expire, now) = p => \E k \in 1 .. Len(f[0]) : ix[k] = i
    BY <2>1
  <2> HIDE DEF ix
  <2>4. UpTo(0)
    BY <2>2, <2>3
  <2> QED
    BY <2>4
<1>6. ASSUME NEW n \in Nat, n \in T PROVE n + 1 \in T
  <2> SUFFICES ASSUME n + 1 <= Len(s) PROVE UpTo(n + 1)
    <3> HIDE DEF UpTo
    <3> QED
      OBVIOUS
  <2>0. n \in 0 .. Len(s) /\ n + 1 \in 0 .. Len(s) /\ s[n + 1] \in S
    BY <1>0
  <2>1. f[n] \in Seq(S) /\ f[n + 1] \in Seq(S) /\ Len(f[n]) \in Nat
    BY <1>2, <2>0
  <2>2. PICK ix \in [1 .. Len(f[n]) -> 1 .. n] :
         /\ \A j, k \in 1 .. Len(f[n]) : j < k => ix[j] < ix[k]
         /\ \A k \in 1 .. Len(f[n]) : f[n][k] = s[ix[k]] /\ Place(s[ix[k]].expire, now) = p
         /\ \A i \in 1 .. n : Place(s[i].expire, now) = p => \E k \in 1 .. Len(f[n]) : ix[k] = i
    BY <1>6
  <2>3. CASE Place(s[n + 1].expire, now) # p
    <3>1. f[n + 1] = f[n]
      BY <1>4, <2>3
    <3>2. ix \in [1 .. Len(f[n + 1]) -> 1 .. n + 1]
      BY <2>1, <2>2, <3>1
    <3>3. \A i \in 1 .. n + 1 : Place(s[i].expire, now) = p => i \in 1 .. n
      BY <2>3
    <3> QED
      BY <2>2, <3>1, <3>2, <3>3
  <2>4. CASE Place(s[n + 1].expire, now) = p
    <3> DEFINE len == Len(f[n])
               iy == [k \in 1 .. len + 1 |-> IF k = len + 1 THEN n + 1 ELSE ix[k]]
    <3>1. f[n + 1] = Append(f[n], s[n + 1])
      BY <1>4, <2>4
    <3>2. /\ Len(f[n + 1]) = len + 1 /\ len \in Nat
          /\ f[n + 1][len + 1] = s[n + 1]
          /\ \A k \in 1 .. len : f[n + 1][k] = f[n][k]
      BY <2>0, <2>1, <3>1
    <3>3. ASSUME NEW k \in 1 .. len PROVE ix[k] \in 1 .. n /\ iy[k] = ix[k]
      <4>1. ix[k] \in 1 .. n
        BY <2>2, <3>3
      <4>2. k \in 1 .. len + 1 /\ k # len + 1
        BY <3>2
      <4> QED
        BY <4>1, <4>2
    <3>4. iy[len + 1] = n + 1
      BY <3>2
    <3>5. \A k \in 1 .. len + 1 : k = len + 1 \/ k \in 1 .. len
      BY <3>2
    <3>6. iy \in [1 .. len + 1 -> 1 .. n + 1]
      BY <3>2, <3>3, <3>4, <3>5
    <3>7. \A j, k \in 1 .. len : j < k => ix[j] < ix[k]
      BY <2>2
    <3>8. \A k \in 1 .. len : f[n][k] = s[ix[k]] /\ Place(s[ix[k]].expire, now) = p
      BY <2>2
    <3>9. \A i \in 1 .. n : Place(s[i].expire, now) = p => \E k \in 1 .. len : ix[k] = i
      BY <2>2
    <3> HIDE DEF iy, len
    <3>10. \A j, k \in 1 .. len + 1 : j < k => iy[j] < iy[k]
      <4> SUFFICES ASSUME NEW j \in 1 .. len + 1, NEW k \in 1 .. len + 1, j < k PROVE iy[j] < iy[k]
        OBVIOUS
      <4>1. j \in 1 .. len
        BY <3>2
      <4>2. CASE k = len + 1
        BY <4>1, <4>2, <3>3, <3>4
      <4>3. CASE k \in 1 .. len
        BY <4>1, <4>3, <3>3, <3>7
      <4> QED
        BY <4>2, <4>3, <3>5
    <3>11. ASSUME NEW k \in 1 .. len + 1
           PROVE  f[n + 1][k] = s[iy[k]] /\ Place(s[iy[k]].expire, now) = p
      <4>1. CASE k = len + 1
        BY <4>1, <2>4, <3>2, <3>4
      <4>2. CASE k \in 1 .. len
        BY <4>2, <3>2, <3>3, <3>8
      <4> QED
        BY <4>1, <4>2, <3>5
    <3>12. ASSUME NEW i \in 1 .. n + 1, Place(s[i].expire, now) = p
           PROVE \E k \in 1 .. len + 1 : iy[k] = i
      <4>1. CASE i = n + 1
        BY <4>1, <3>2, <3>4
      <4>2. CASE i # n + 1
        <5>1. i \in 1 .. n
          BY <4>2
        <5>2. PICK k \in 1 .. len : ix[k] = i
          BY <5>1, <3>9, <3>12
        <5>3. k \in 1 .. len + 1 /\ iy[k] = i
          BY <5>2, <3>2, <3>3
        <5> QED
          BY <5>3
      <4> QED
        BY <4>1, <4>2
    <3> DEFINE g == f[n + 1]
    <3>13. Len(g) = len + 1
      BY <3>2
    <3> HIDE DEF g
    <3>14. /\ iy \in [1 .. Len(g) -> 1 .. n + 1]
           /\ \A j, k \in 1 .. Len(g) : j < k => iy[j] < iy[k]
      BY <3>6, <3>10, <3>13
    <3>15. \A k \in 1 .. Len(g) : g[k] = s[iy[k]] /\ Place(s[iy[k]].expire, now) = p
      BY <3>11, <3>13 DEF g
    <3>16. \A i \in 1 .. n + 1 : Place(s[i].expire, now) = p => \E k \in 1 .. Len(g) : iy[k] = i
      BY <3>12, <3>13
    <3>17. \E iz \in [1 .. Len(g) -> 1 .. n + 1] :
             /\ \A j, k \in 1 .. Len(g) : j < k => iz[j] < iz[k]
             /\ \A k \in 1 .. Len(g) : g[k] = s[iz[k]] /\ Place(s[iz[k]].expire, now) = p
             /\ \A i \in 1 .. n + 1 :
                  Place(s[i].expire, now) = p => \E k \in 1 .. Len(g) : iz[k] = i
      BY <3>14, <3>15, <3>16
    <3> QED
      BY <3>17 DEF g
  <2> QED
    BY <2>3, <2>4
<1> HIDE DEF T
<1>7. Nat \subseteq T
  BY <1>5, <1>6, SetInduction
<1>8. UpTo(Len(s)) /\ f[Len(s)] \in Seq(S)
  <2>1. Len(s) \in T /\ Len(s) \in 0 .. Len(s)
    BY <1>0, <1>7
  <2>2. Len(s) <= Len(s)
    BY <1>0
  <2>3. UpTo(Len(s))
    <3> HIDE DEF UpTo
    <3> QED
      BY <2>1, <2>2 DEF T
  <2>4. f[Len(s)] \in Seq(S)
    BY <2>1, <1>2
  <2> QED
    BY <2>3, <2>4
<1> QED
  BY <1>1, <1>8 DEF PartOf

\* The nodes c has for every place at tick t: in place, of timers set for an int
\* of ticks, and one for each timer.
Waiting(c, t) ==
  /\ c \in [Places -> Seq(TimerNode)]
  /\ \A p \in Places : \A i \in 1 .. Len(c[p]) :
       p = Place(c[p][i].expire, t) /\ 2 * Gap(c[p][i].expire, t) <= Word
  /\ \A p, q \in Places : \A i \in 1 .. Len(c[p]), j \in 1 .. Len(c[q]) :
       c[p][i].timer = c[q][j].timer => p = q /\ i = j

\* LeftOf and the order of the timers, of any nodes.
LeftIn(c, t, e) ==
  LET Nodes == {node \in UNION {ToSet(c[p]) : p \in Places} : node.timer = e}
  IN IF Nodes = {} THEN -1 ELSE ((CHOOSE node \in Nodes : TRUE).expire - t) % Word
OrderIn(c) == UNION {AheadIn(c[p]) : p \in Places}

HasNode(c, e) == \E p \in Places : \E i \in 1 .. Len(c[p]) : c[p][i].timer = e

\* A node that waits is typed, in place and set for an int of ticks.
LEMMA NodeIn ==
  ASSUME NEW c, NEW t, Waiting(c, t), NEW p \in Places, NEW i \in 1 .. Len(c[p])
  PROVE  /\ c[p] \in Seq(TimerNode) /\ c[p][i] \in TimerNode
         /\ c[p][i].timer \in Timer /\ c[p][i].expire \in Tick
         /\ p = Place(c[p][i].expire, t) /\ 2 * Gap(c[p][i].expire, t) <= Word
<1>1. c[p] \in Seq(TimerNode)
  BY DEF Waiting
<1>2. c[p][i] \in TimerNode
  BY <1>1
<1> QED
  BY <1>1, <1>2 DEF Waiting, TimerNode, Tick

\* The ticks a timer has to go are those of its node.
LEMMA LeftIs ==
  ASSUME NEW c, NEW t, Waiting(c, t), NEW e
  PROVE  /\ ~HasNode(c, e) => LeftIn(c, t, e) = -1
         /\ \A p \in Places : \A i \in 1 .. Len(c[p]) :
              c[p][i].timer = e => LeftIn(c, t, e) = Gap(c[p][i].expire, t)
<1> DEFINE Nodes == {node \in UNION {ToSet(c[p]) : p \in Places} : node.timer = e}
<1>1. LeftIn(c, t, e) = IF Nodes = {} THEN -1
                        ELSE ((CHOOSE node \in Nodes : TRUE).expire - t) % Word
  BY DEF LeftIn
<1>2. ASSUME NEW node
      PROVE  node \in Nodes <=>
               \E p \in Places : \E i \in 1 .. Len(c[p]) : node = c[p][i] /\ node.timer = e
  <2>1. \A p \in Places : c[p] \in Seq(TimerNode)
    BY DEF Waiting
  <2>2. \A p \in Places : ToSet(c[p]) = {c[p][i] : i \in 1 .. Len(c[p])}
    BY <2>1 DEF ToSet
  <2>3. node \in UNION {ToSet(c[p]) : p \in Places} <=> \E p \in Places : node \in ToSet(c[p])
    OBVIOUS
  <2>4. \A p \in Places : node \in ToSet(c[p]) <=> \E i \in 1 .. Len(c[p]) : node = c[p][i]
    BY <2>2
  <2> QED
    BY <2>3, <2>4
<1> HIDE DEF Nodes
<1>3. ASSUME ~HasNode(c, e) PROVE LeftIn(c, t, e) = -1
  <2>1. Nodes = {}
    BY <1>2, <1>3 DEF HasNode
  <2> QED
    BY <1>1, <2>1
<1>4. ASSUME NEW p \in Places, NEW i \in 1 .. Len(c[p]), c[p][i].timer = e
      PROVE  LeftIn(c, t, e) = Gap(c[p][i].expire, t)
  <2>1. c[p][i] \in Nodes
    BY <1>2, <1>4
  <2>2. \A node \in Nodes : node = c[p][i]
    <3> SUFFICES ASSUME NEW node \in Nodes PROVE node = c[p][i]
      OBVIOUS
    <3>0. PICK q \in Places : \E j \in 1 .. Len(c[q]) : node = c[q][j] /\ node.timer = e
      BY <1>2
    <3>1. PICK j \in 1 .. Len(c[q]) : node = c[q][j] /\ node.timer = e
      BY <3>0
    <3>2. p = q /\ i = j
      BY <3>1, <1>4 DEF Waiting
    <3> QED
      BY <3>1, <3>2
  <2>3. (CHOOSE node \in Nodes : TRUE) = c[p][i]
    BY <2>1, <2>2
  <2> QED
    BY <1>1, <2>1, <2>3 DEF Gap
<1> QED
  BY <1>3, <1>4

\* The timers of two nodes of a list, in order and of one tick.
Ordered(s, i, j, pair) == i < j /\ s[j].expire = s[i].expire /\ pair = <<s[i].timer, s[j].timer>>

\* The pairs of timers of one tick, as positions of one list.
LEMMA OrderIs ==
  ASSUME NEW c \in [Places -> Seq(TimerNode)], NEW pair
  PROVE  pair \in OrderIn(c) <=>
           \E p \in Places : \E i, j \in 1 .. Len(c[p]) : Ordered(c[p], i, j, pair)
<1>1. ASSUME NEW p \in Places
      PROVE  pair \in AheadIn(c[p]) <=> \E i, j \in 1 .. Len(c[p]) : Ordered(c[p], i, j, pair)
  <2> DEFINE s == c[p]
             After(i) == {<<s[i].timer, s[j].timer>> :
                            j \in {k \in i + 1 .. Len(s) : s[k].expire = s[i].expire}}
  <2>1. s \in Seq(TimerNode) /\ DOMAIN s = 1 .. Len(s) /\ Len(s) \in Nat
    OBVIOUS
  <2>2. AheadIn(s) = UNION {After(i) : i \in 1 .. Len(s)}
    BY <2>1 DEF AheadIn
  <2>3. ASSUME NEW i \in 1 .. Len(s)
        PROVE  pair \in After(i) <=> \E j \in 1 .. Len(s) :
                 i < j /\ s[j].expire = s[i].expire /\ pair = <<s[i].timer, s[j].timer>>
    <3>1. \A j : j \in i + 1 .. Len(s) <=> j \in 1 .. Len(s) /\ i < j
      BY <2>1
    <3> HIDE DEF s
    <3> QED
      BY <3>1
  <2> HIDE DEF s, After
  <2>4. pair \in AheadIn(s) <=> \E i \in 1 .. Len(s) : pair \in After(i)
    BY <2>2
  <2>5. pair \in AheadIn(s) <=> \E i, j \in 1 .. Len(s) :
                 i < j /\ s[j].expire = s[i].expire /\ pair = <<s[i].timer, s[j].timer>>
    BY <2>3, <2>4
  <2> QED
    BY <2>5 DEF s, Ordered
<1>2. pair \in OrderIn(c) <=> \E p \in Places : pair \in AheadIn(c[p])
  BY DEF OrderIn
<1> QED
  BY <1>1, <1>2

\* A timer has ticks to go if and only if it has a node.
LEMMA LeftType ==
  ASSUME NEW c, NEW t \in Tick, Waiting(c, t), NEW e
  PROVE  /\ LeftIn(c, t, e) \in Tick \cup {-1}
         /\ LeftIn(c, t, e) = -1 <=> ~HasNode(c, e)
<1>1. CASE ~HasNode(c, e)
  BY <1>1, LeftIs
<1>2. CASE HasNode(c, e)
  <2>1. PICK p \in Places : \E i \in 1 .. Len(c[p]) : c[p][i].timer = e
    BY <1>2 DEF HasNode
  <2>2. PICK i \in 1 .. Len(c[p]) : c[p][i].timer = e
    BY <2>1
  <2>3. LeftIn(c, t, e) = Gap(c[p][i].expire, t)
    BY <2>2, LeftIs
  <2>4. LeftIn(c, t, e) \in Tick
    BY <2>3, NodeIn, GapIs
  <2>5. LeftIn(c, t, e) # -1
    BY <2>4, WholeWord
  <2> QED
    BY <1>2, <2>4, <2>5
<1> QED
  BY <1>1, <1>2

\* A timer that is set: it has its ticks to go, after those of the same tick.
LEMMA AddIs ==
  ASSUME NEW c, NEW t \in Tick, Waiting(c, t), NEW e \in Timer, ~HasNode(c, e),
         NEW x \in Tick, 2 * Gap(x, t) <= Word,
         NEW d, d = AddNode(c, [timer |-> e, expire |-> x], t)
  PROVE  /\ Waiting(d, t)
         /\ \A f : LeftIn(d, t, f) = IF f = e THEN Gap(x, t) ELSE LeftIn(c, t, f)
         /\ OrderIn(d) = OrderIn(c) \cup {<<f, e>> : f \in {g \in Timer : LeftIn(c, t, g) = Gap(x, t)}}
<1> DEFINE node == [timer |-> e, expire |-> x]
           p0 == Place(x, t)
           n == Len(c[p0])
<1>1. node \in TimerNode /\ node.timer = e /\ node.expire = x
  BY DEF TimerNode, Tick
<1>2. p0 \in Places
  BY PlaceInPlaces
<1>3. c \in [Places -> Seq(TimerNode)]
  BY DEF Waiting
<1>4. d = [c EXCEPT ![p0] = Append(@, node)]
  BY <1>1 DEF AddNode
<1> HIDE DEF node, p0
<1>5. d \in [Places -> Seq(TimerNode)] /\ n \in Nat
  <2>1. c[p0] \in Seq(TimerNode)
    BY <1>2, <1>3
  <2>2. Append(c[p0], node) \in Seq(TimerNode) /\ n \in Nat
    BY <2>1, <1>1
  <2> QED
    BY <2>2, <1>2, <1>3, <1>4
<1>6. ASSUME NEW p \in Places
      PROVE  /\ p # p0 => d[p] = c[p]
             /\ p = p0 => d[p] = Append(c[p0], node)
  BY <1>2, <1>3, <1>4
<1>7. /\ Len(d[p0]) = n + 1 /\ d[p0][n + 1] = node
      /\ \A i \in 1 .. n : d[p0][i] = c[p0][i]
  <2>1. c[p0] \in Seq(TimerNode) /\ d[p0] = Append(c[p0], node)
    BY <1>2, <1>3, <1>6
  <2> QED
    BY <2>1, <1>1
<1>8. ASSUME NEW p \in Places, NEW i \in 1 .. Len(d[p])
      PROVE  \/ p = p0 /\ i = n + 1 /\ d[p][i] = node
             \/ i \in 1 .. Len(c[p]) /\ d[p][i] = c[p][i]
  <2>1. CASE p # p0
    BY <2>1, <1>6
  <2>2. CASE p = p0
    <3>1. i = n + 1 \/ i \in 1 .. n
      BY <2>2, <1>5, <1>7
    <3> QED
      BY <2>2, <3>1, <1>7
  <2> QED
    BY <2>1, <2>2
<1>9. ASSUME NEW p \in Places, NEW i \in 1 .. Len(c[p])
      PROVE  /\ i \in 1 .. Len(d[p]) /\ d[p][i] = c[p][i] /\ c[p][i].timer # e
             /\ p = p0 => i < n + 1
  <2>1. c[p][i].timer # e
    BY DEF HasNode
  <2>2. CASE p # p0
    BY <2>1, <2>2, <1>6
  <2>3. CASE p = p0
    BY <2>1, <2>3, <1>5, <1>7
  <2> QED
    BY <2>2, <2>3
<1> HIDE DEF n
<1>10. n + 1 \in 1 .. Len(d[p0])
  BY <1>5, <1>7
<1>11. Waiting(d, t)
  <2>1. ASSUME NEW p \in Places, NEW i \in 1 .. Len(d[p])
        PROVE  p = Place(d[p][i].expire, t) /\ 2 * Gap(d[p][i].expire, t) <= Word
    <3>1. CASE p = p0 /\ i = n + 1 /\ d[p][i] = node
      BY <3>1, <1>1 DEF p0
    <3>2. CASE i \in 1 .. Len(c[p]) /\ d[p][i] = c[p][i]
      BY <3>2, NodeIn
    <3> QED
      BY <3>1, <3>2, <1>8
  <2>2. ASSUME NEW p \in Places, NEW q \in Places,
               NEW i \in 1 .. Len(d[p]), NEW j \in 1 .. Len(d[q]), d[p][i].timer = d[q][j].timer
        PROVE  p = q /\ i = j
    <3>1. CASE p = p0 /\ i = n + 1 /\ d[p][i] = node
      <4>1. d[q][j].timer = e
        BY <3>1, <2>2, <1>1
      <4> QED
        BY <3>1, <4>1, <1>8, <1>9
    <3>2. CASE i \in 1 .. Len(c[p]) /\ d[p][i] = c[p][i]
      <4>1. d[q][j].timer # e
        BY <3>2, <2>2, <1>9
      <4>2. j \in 1 .. Len(c[q]) /\ d[q][j] = c[q][j]
        BY <4>1, <1>8, <1>1
      <4> QED
        BY <3>2, <4>2, <2>2 DEF Waiting
    <3> QED
      BY <3>1, <3>2, <1>8
  <2> QED
    BY <1>5, <2>1, <2>2 DEF Waiting
<1>12. ASSUME NEW f PROVE LeftIn(d, t, f) = IF f = e THEN Gap(x, t) ELSE LeftIn(c, t, f)
  <2>1. CASE f = e
    <3>1. d[p0][n + 1].timer = e /\ d[p0][n + 1].expire = x
      BY <1>1, <1>7
    <3> QED
      BY <2>1, <3>1, <1>2, <1>10, <1>11, LeftIs
  <2>2. CASE f # e /\ HasNode(c, f)
    <3>1. PICK p \in Places : \E i \in 1 .. Len(c[p]) : c[p][i].timer = f
      BY <2>2 DEF HasNode
    <3>2. PICK i \in 1 .. Len(c[p]) : c[p][i].timer = f
      BY <3>1
    <3>3. i \in 1 .. Len(d[p]) /\ d[p][i] = c[p][i]
      BY <1>9
    <3>4. LeftIn(d, t, f) = Gap(c[p][i].expire, t)
      BY <3>2, <3>3, <1>11, LeftIs
    <3>5. LeftIn(c, t, f) = Gap(c[p][i].expire, t)
      BY <3>2, LeftIs
    <3> QED
      BY <2>2, <3>4, <3>5
  <2>3. CASE f # e /\ ~HasNode(c, f)
    <3>1. ~HasNode(d, f)
      BY <2>3, <1>1, <1>8 DEF HasNode
    <3> QED
      BY <2>3, <3>1, <1>11, LeftIs
  <2> QED
    BY <2>1, <2>2, <2>3
<1> DEFINE New == {<<f, e>> : f \in {g \in Timer : LeftIn(c, t, g) = Gap(x, t)}}
<1>13. ASSUME NEW pair \in OrderIn(d) PROVE pair \in OrderIn(c) \cup New
  <2>1. PICK p \in Places : \E i, j \in 1 .. Len(d[p]) : Ordered(d[p], i, j, pair)
    BY <1>5, <1>13, OrderIs
  <2>2. PICK i \in 1 .. Len(d[p]), j \in 1 .. Len(d[p]) : Ordered(d[p], i, j, pair)
    BY <2>1
  <2>3. i \in 1 .. Len(c[p]) /\ d[p][i] = c[p][i]
    <3>1. ~(p = p0 /\ i = n + 1)
      <4>1. ASSUME p = p0, i = n + 1 PROVE FALSE
        BY <4>1, <2>2, <1>5, <1>7 DEF Ordered
      <4> QED
        BY <4>1
    <3> QED
      BY <3>1, <1>8
  <2>4. CASE p = p0 /\ j = n + 1 /\ d[p][j] = node
    <3>1. c[p][i].expire = x /\ pair = <<c[p][i].timer, e>>
      BY <2>2, <2>3, <2>4, <1>1 DEF Ordered
    <3>2. LeftIn(c, t, c[p][i].timer) = Gap(x, t) /\ c[p][i].timer \in Timer
      BY <2>3, <3>1, LeftIs, NodeIn
    <3> QED
      BY <3>1, <3>2
  <2>5. CASE j \in 1 .. Len(c[p]) /\ d[p][j] = c[p][j]
    <3>1. Ordered(c[p], i, j, pair)
      BY <2>2, <2>3, <2>5 DEF Ordered
    <3> QED
      BY <2>3, <2>5, <3>1, <1>3, OrderIs
  <2> QED
    BY <2>4, <2>5, <1>8
<1>14. ASSUME NEW pair \in OrderIn(c) PROVE pair \in OrderIn(d)
  <2>1. PICK p \in Places : \E i, j \in 1 .. Len(c[p]) : Ordered(c[p], i, j, pair)
    BY <1>3, <1>14, OrderIs
  <2>2. PICK i \in 1 .. Len(c[p]), j \in 1 .. Len(c[p]) : Ordered(c[p], i, j, pair)
    BY <2>1
  <2>3. /\ i \in 1 .. Len(d[p]) /\ d[p][i] = c[p][i]
        /\ j \in 1 .. Len(d[p]) /\ d[p][j] = c[p][j]
    BY <1>9
  <2>4. Ordered(d[p], i, j, pair)
    BY <2>2, <2>3 DEF Ordered
  <2> QED
    BY <2>3, <2>4, <1>5, OrderIs
<1>15. ASSUME NEW f \in Timer, LeftIn(c, t, f) = Gap(x, t) PROVE <<f, e>> \in OrderIn(d)
  <2>1. HasNode(c, f)
    <3>1. Gap(x, t) # -1
      BY GapIs, WholeWord
    <3> QED
      BY <3>1, <1>15, LeftType
  <2>2. PICK p \in Places : \E i \in 1 .. Len(c[p]) : c[p][i].timer = f
    BY <2>1 DEF HasNode
  <2>3. PICK i \in 1 .. Len(c[p]) : c[p][i].timer = f
    BY <2>2
  <2>4. c[p][i].expire = x
    <3>1. Gap(c[p][i].expire, t) = Gap(x, t)
      BY <2>3, <1>15, LeftIs
    <3> QED
      BY <3>1, NodeIn, GapMoves
  <2>5. p = p0
    BY <2>4, NodeIn DEF p0
  <2>6. i \in 1 .. Len(d[p0]) /\ d[p0][i] = c[p0][i] /\ i < n + 1
    BY <2>5, <1>9
  <2>7. Ordered(d[p0], i, n + 1, <<f, e>>)
    BY <2>3, <2>4, <2>5, <2>6, <1>1, <1>7 DEF Ordered
  <2> QED
    BY <2>6, <2>7, <1>2, <1>5, <1>10, OrderIs
<1>16. OrderIn(d) = OrderIn(c) \cup New
  BY <1>13, <1>14, <1>15
<1> QED
  BY <1>11, <1>12, <1>16

\* A timer that goes off: it is due, none is ahead of it, and the others are as before.
Gone(c, p) == [c EXCEPT ![p] = Tail(@)]

\* dispatch_list takes the first node of the list that is due: what the others have to go
\* and their order stay.
LEMMA TakeIs ==
  ASSUME NEW c, NEW t \in Tick, Waiting(c, t), NEW p0 \in Places, p0 = SlotOf(t), c[p0] # <<>>,
         NEW e, e = Head(c[p0]).timer, NEW d, d = Gone(c, p0)
  PROVE  /\ Waiting(d, t)
         /\ e \in Timer /\ LeftIn(c, t, e) = 0
         /\ \A f : LeftIn(d, t, f) = IF f = e THEN -1 ELSE LeftIn(c, t, f)
         /\ \A f : <<f, e>> \notin OrderIn(c)
         /\ OrderIn(d) = {pair \in OrderIn(c) : pair[1] # e}
<1> DEFINE n == Len(c[p0])
<1>1. c \in [Places -> Seq(TimerNode)] /\ c[p0] \in Seq(TimerNode)
  BY DEF Waiting
<1>2. n \in Nat /\ n >= 1 /\ Head(c[p0]) = c[p0][1]
  BY <1>1
<1>3. /\ Tail(c[p0]) \in Seq(TimerNode) /\ Len(Tail(c[p0])) = n - 1
      /\ \A i \in 1 .. n - 1 : Tail(c[p0])[i] = c[p0][i + 1]
  BY <1>1, <1>2
<1>4. d \in [Places -> Seq(TimerNode)]
  BY <1>1, <1>3 DEF Gone
<1>5. /\ d[p0] = Tail(c[p0]) /\ Len(d[p0]) = n - 1
      /\ \A p \in Places : p # p0 => d[p] = c[p]
  BY <1>1, <1>3 DEF Gone
<1> DEFINE Old(p, i) == IF p = p0 THEN i + 1 ELSE i
<1>6. ASSUME NEW p \in Places, NEW i \in 1 .. Len(d[p])
      PROVE  /\ Old(p, i) \in 1 .. Len(c[p]) /\ d[p][i] = c[p][Old(p, i)]
             /\ p = p0 => Old(p, i) # 1
  <2>1. CASE p = p0
    <3>1. i \in 1 .. n - 1
      BY <2>1, <1>5
    <3>2. i + 1 \in 1 .. n /\ i + 1 # 1
      BY <3>1, <1>2
    <3> QED
      BY <2>1, <3>1, <3>2, <1>3, <1>5
  <2>2. CASE p # p0
    BY <2>2, <1>5
  <2> QED
    BY <2>1, <2>2
<1>7. ASSUME NEW p \in Places, NEW j \in 1 .. Len(c[p]), ~(p = p0 /\ j = 1)
      PROVE  \E i \in 1 .. Len(d[p]) : j = Old(p, i)
  <2>1. CASE p = p0
    <3>1. j - 1 \in 1 .. Len(d[p]) /\ j = (j - 1) + 1
      BY <2>1, <1>2, <1>5, <1>7
    <3> QED
      BY <2>1, <3>1
  <2>2. CASE p # p0
    BY <2>2, <1>5
  <2> QED
    BY <2>1, <2>2
<1>8. ASSUME NEW p \in Places, NEW i \in 1 .. Len(d[p]), NEW j \in 1 .. Len(d[p])
      PROVE  (Old(p, i) < Old(p, j) <=> i < j) /\ (Old(p, i) = Old(p, j) => i = j)
  OBVIOUS
<1>9. 1 \in 1 .. Len(c[p0]) /\ c[p0][1].timer = e
  BY <1>2
<1>10. e \in Timer /\ c[p0][1].expire = t
  <2>1. p0 = Place(c[p0][1].expire, t) /\ c[p0][1].expire \in Tick /\ c[p0][1].timer \in Timer
    BY <1>9, NodeIn
  <2> QED
    BY <2>1, <1>9, PlaceInPlaces
<1> HIDE DEF Old, n
<1>11. ASSUME NEW p \in Places, NEW j \in 1 .. Len(c[p]), c[p][j].timer = e PROVE p = p0 /\ j = 1
  BY <1>9, <1>11 DEF Waiting
<1>12. LeftIn(c, t, e) = 0
  BY <1>9, <1>10, LeftIs, GapMoves
<1>13. Waiting(d, t)
  <2>1. ASSUME NEW p \in Places, NEW i \in 1 .. Len(d[p])
        PROVE  p = Place(d[p][i].expire, t) /\ 2 * Gap(d[p][i].expire, t) <= Word
    BY <1>6, NodeIn
  <2>2. ASSUME NEW p \in Places, NEW q \in Places,
               NEW i \in 1 .. Len(d[p]), NEW j \in 1 .. Len(d[q]), d[p][i].timer = d[q][j].timer
        PROVE  p = q /\ i = j
    <3>1. p = q /\ Old(p, i) = Old(q, j)
      <4>1. /\ Old(p, i) \in 1 .. Len(c[p]) /\ d[p][i] = c[p][Old(p, i)]
            /\ Old(q, j) \in 1 .. Len(c[q]) /\ d[q][j] = c[q][Old(q, j)]
        BY <1>6
      <4>2. c[p][Old(p, i)].timer = c[q][Old(q, j)].timer
        BY <4>1, <2>2
      <4> QED
        BY <4>1, <4>2 DEF Waiting
    <3> QED
      BY <3>1, <1>8
  <2> QED
    BY <1>4, <2>1, <2>2 DEF Waiting
<1>14. ASSUME NEW f PROVE LeftIn(d, t, f) = IF f = e THEN -1 ELSE LeftIn(c, t, f)
  <2>1. CASE f = e
    <3>1. ~HasNode(d, e)
      BY <1>6, <1>11 DEF HasNode
    <3> QED
      BY <2>1, <3>1, <1>13, LeftIs
  <2>2. CASE f # e /\ HasNode(c, f)
    <3>1. PICK p \in Places : \E j \in 1 .. Len(c[p]) : c[p][j].timer = f
      BY <2>2 DEF HasNode
    <3>2. PICK j \in 1 .. Len(c[p]) : c[p][j].timer = f
      BY <3>1
    <3>3. ~(p = p0 /\ j = 1)
      BY <2>2, <3>2, <1>9
    <3>4. PICK i \in 1 .. Len(d[p]) : j = Old(p, i)
      BY <3>3, <1>7
    <3>5. d[p][i] = c[p][j]
      BY <3>4, <1>6
    <3>6. LeftIn(d, t, f) = Gap(d[p][i].expire, t)
      <4>1. d[p][i].timer = f
        BY <3>2, <3>5
      <4> QED
        BY <4>1, <1>13, LeftIs
    <3>7. LeftIn(c, t, f) = Gap(c[p][j].expire, t)
      BY <3>2, LeftIs
    <3> QED
      BY <2>2, <3>5, <3>6, <3>7
  <2>3. CASE f # e /\ ~HasNode(c, f)
    <3>1. ~HasNode(d, f)
      BY <2>3, <1>6 DEF HasNode
    <3> QED
      BY <2>3, <3>1, <1>13, LeftIs
  <2> QED
    BY <2>1, <2>2, <2>3
<1>15. ASSUME NEW f, <<f, e>> \in OrderIn(c) PROVE FALSE
  <2>1. PICK p \in Places : \E i, j \in 1 .. Len(c[p]) : Ordered(c[p], i, j, <<f, e>>)
    BY <1>1, <1>15, OrderIs
  <2>2. PICK i \in 1 .. Len(c[p]), j \in 1 .. Len(c[p]) : i < j /\ c[p][j].timer = e
    BY <2>1 DEF Ordered
  <2>3. j = 1
    BY <2>2, <1>11
  <2> QED
    BY <2>2, <2>3
<1>16. ASSUME NEW pair \in OrderIn(d) PROVE pair \in OrderIn(c) /\ pair[1] # e
  <2>1. PICK p \in Places : \E i, j \in 1 .. Len(d[p]) : Ordered(d[p], i, j, pair)
    BY <1>4, <1>16, OrderIs
  <2>2. PICK i \in 1 .. Len(d[p]), j \in 1 .. Len(d[p]) : Ordered(d[p], i, j, pair)
    BY <2>1
  <2>3. /\ Old(p, i) \in 1 .. Len(c[p]) /\ Old(p, j) \in 1 .. Len(c[p]) /\ Old(p, i) < Old(p, j)
        /\ d[p][i] = c[p][Old(p, i)] /\ d[p][j] = c[p][Old(p, j)]
    BY <2>2, <1>6, <1>8 DEF Ordered
  <2>4. pair \in OrderIn(c)
    <3>1. Ordered(c[p], Old(p, i), Old(p, j), pair)
      BY <2>2, <2>3 DEF Ordered
    <3> QED
      BY <2>3, <3>1, <1>1, OrderIs
  <2>5. c[p][Old(p, i)].timer # e
    BY <2>3, <1>6, <1>11
  <2> QED
    BY <2>2, <2>3, <2>4, <2>5 DEF Ordered
<1>17. ASSUME NEW pair \in OrderIn(c), pair[1] # e PROVE pair \in OrderIn(d)
  <2>1. PICK p \in Places : \E i, j \in 1 .. Len(c[p]) : Ordered(c[p], i, j, pair)
    BY <1>1, <1>17, OrderIs
  <2>2. PICK i \in 1 .. Len(c[p]), j \in 1 .. Len(c[p]) : Ordered(c[p], i, j, pair)
    BY <2>1
  <2>3. ~(p = p0 /\ i = 1) /\ ~(p = p0 /\ j = 1)
    BY <2>2, <1>9, <1>17 DEF Ordered
  <2>4. PICK k \in 1 .. Len(d[p]) : i = Old(p, k)
    BY <2>3, <1>7
  <2>5. PICK l \in 1 .. Len(d[p]) : j = Old(p, l)
    BY <2>3, <1>7
  <2>6. k < l /\ d[p][k] = c[p][i] /\ d[p][l] = c[p][j]
    BY <2>2, <2>4, <2>5, <1>6, <1>8 DEF Ordered
  <2>7. Ordered(d[p], k, l, pair)
    BY <2>2, <2>6 DEF Ordered
  <2> QED
    BY <2>7, <1>4, OrderIs
<1> QED
  BY <1>10, <1>12, <1>13, <1>14, <1>15, <1>16, <1>17

\* Where the nodes s that move_list leaves in place q come from: node k from ix[k] of
\* from[k], in order; all of q, unless it is p, and all of p that belong to q now.
Comes(from, ix, c, s, p, q, now) ==
  /\ \A k \in 1 .. Len(s) :
       /\ from[k] \in Places /\ ix[k] \in 1 .. Len(c[from[k]]) /\ s[k] = c[from[k]][ix[k]]
       /\ from[k] = p => Place(s[k].expire, now) = q
       /\ from[k] # p => from[k] = q
  /\ \A j, k \in 1 .. Len(s) : j < k /\ from[j] = from[k] => ix[j] < ix[k]
  /\ \A i \in 1 .. Len(c[q]) : q # p => \E k \in 1 .. Len(s) : from[k] = q /\ ix[k] = i
  /\ \A i \in 1 .. Len(c[p]) :
       Place(c[p][i].expire, now) = q => \E k \in 1 .. Len(s) : from[k] = p /\ ix[k] = i

\* move_list takes every node of p to the place it belongs to and leaves the others.
LEMMA MoveIs ==
  ASSUME NEW c \in [Places -> Seq(TimerNode)], NEW p \in Places, NEW now,
         NEW d, d = MoveList(c, p, now)
  PROVE  /\ d \in [Places -> Seq(TimerNode)]
         /\ \A q \in Places : \E from, ix : Comes(from, ix, c, d[q], p, q, now)
<1>1. ASSUME NEW q \in Places
      PROVE  /\ d[q] \in Seq(TimerNode)
             /\ \E from, ix : Comes(from, ix, c, d[q], p, q, now)
  <2> DEFINE olds == IF q = p THEN <<>> ELSE c[q]
             g == Going(c[p], q, now)
             s == d[q]
             a == Len(olds)
  <2>1. s = olds \o g
    BY DEF MoveList
  <2>2. olds \in Seq(TimerNode) /\ c[p] \in Seq(TimerNode)
    OBVIOUS
  <2>3. g \in Seq(TimerNode) /\ PartOf(g, c[p], q, now)
    BY <2>2, GoingIs
  <2> HIDE DEF olds, g, s
  <2>4. /\ s \in Seq(TimerNode) /\ a \in Nat /\ Len(g) \in Nat /\ Len(s) = a + Len(g)
        /\ \A k \in 1 .. a : s[k] = olds[k]
        /\ \A k \in 1 .. Len(g) : s[a + k] = g[k]
    BY <2>1, <2>2, <2>3
  <2>5. PICK iy \in [1 .. Len(g) -> 1 .. Len(c[p])] :
          /\ \A j, k \in 1 .. Len(g) : j < k => iy[j] < iy[k]
          /\ \A k \in 1 .. Len(g) : g[k] = c[p][iy[k]] /\ Place(c[p][iy[k]].expire, now) = q
          /\ \A i \in 1 .. Len(c[p]) :
               Place(c[p][i].expire, now) = q => \E k \in 1 .. Len(g) : iy[k] = i
    BY <2>3 DEF PartOf
  <2> DEFINE from == [k \in 1 .. Len(s) |-> IF k <= a THEN q ELSE p]
             ix == [k \in 1 .. Len(s) |-> IF k <= a THEN k ELSE iy[k - a]]
  <2> HIDE DEF a
  <2>6. ASSUME NEW k \in 1 .. Len(s)
        PROVE  \/ k \in 1 .. a /\ from[k] = q /\ ix[k] = k
               \/ k - a \in 1 .. Len(g) /\ k > a /\ from[k] = p /\ ix[k] = iy[k - a]
    BY <2>4
  <2>7. /\ \A k \in 1 .. a : k \in 1 .. Len(s) /\ from[k] = q /\ ix[k] = k
        /\ \A k \in 1 .. Len(g) : a + k \in 1 .. Len(s) /\ from[a + k] = p /\ ix[a + k] = iy[k]
    <3>1. ASSUME NEW k \in 1 .. a PROVE k \in 1 .. Len(s) /\ k <= a
      BY <2>4
    <3>2. ASSUME NEW k \in 1 .. Len(g)
          PROVE  a + k \in 1 .. Len(s) /\ ~(a + k <= a) /\ (a + k) - a = k
      BY <2>4
    <3> QED
      BY <3>1, <3>2
  <2>8. q # p => olds = c[q]
    BY DEF olds
  <2>9. q = p => a = 0
    BY DEF olds, a
  <2> HIDE DEF from, ix
  <2>10. ASSUME NEW k \in 1 .. Len(s)
         PROVE  /\ from[k] \in Places /\ ix[k] \in 1 .. Len(c[from[k]]) /\ s[k] = c[from[k]][ix[k]]
                /\ from[k] = p => Place(s[k].expire, now) = q
                /\ from[k] # p => from[k] = q
    <3>1. CASE k \in 1 .. a /\ from[k] = q /\ ix[k] = k
      <4>1. q # p /\ olds = c[q]
        BY <3>1, <2>4, <2>8, <2>9
      <4>2. s[k] = olds[k]
        BY <3>1, <2>4
      <4> QED
        BY <3>1, <4>1, <4>2 DEF a
    <3>2. CASE k - a \in 1 .. Len(g) /\ from[k] = p /\ ix[k] = iy[k - a]
      <4>1. s[a + (k - a)] = g[k - a] /\ a + (k - a) = k
        BY <3>2, <2>4
      <4>2. iy[k - a] \in 1 .. Len(c[p])
        BY <3>2, <2>5
      <4>3. g[k - a] = c[p][iy[k - a]] /\ Place(c[p][iy[k - a]].expire, now) = q
        BY <3>2, <2>5
      <4> QED
        BY <3>2, <4>1, <4>2, <4>3
    <3> QED
      BY <2>6, <3>1, <3>2
  <2>11. ASSUME NEW j \in 1 .. Len(s), NEW k \in 1 .. Len(s), j < k, from[j] = from[k]
         PROVE  ix[j] < ix[k]
    <3>1. CASE k \in 1 .. a /\ ix[k] = k
      <4>1. ix[j] = j
        BY <3>1, <2>4, <2>6, <2>11
      <4> QED
        BY <3>1, <4>1, <2>11
    <3>2. CASE k - a \in 1 .. Len(g) /\ from[k] = p /\ ix[k] = iy[k - a]
      <4>1. ~(j \in 1 .. a /\ from[j] = q)
        <5>1. ASSUME j \in 1 .. a, from[j] = q PROVE FALSE
          BY <5>1, <3>2, <2>4, <2>9, <2>11
        <5> QED
          BY <5>1
      <4>2. j - a \in 1 .. Len(g) /\ ix[j] = iy[j - a]
        BY <4>1, <2>6
      <4>3. j - a < k - a
        BY <2>4, <2>11
      <4> QED
        BY <3>2, <4>2, <4>3, <2>5
    <3> QED
      BY <2>6, <3>1, <3>2
  <2>12. ASSUME NEW i \in 1 .. Len(c[q]), q # p
         PROVE  \E k \in 1 .. Len(s) : from[k] = q /\ ix[k] = i
    <3>1. i \in 1 .. a
      BY <2>8, <2>12 DEF a
    <3> QED
      BY <3>1, <2>7
  <2>13. ASSUME NEW i \in 1 .. Len(c[p]), Place(c[p][i].expire, now) = q
         PROVE  \E k \in 1 .. Len(s) : from[k] = p /\ ix[k] = i
    <3>1. PICK k \in 1 .. Len(g) : iy[k] = i
      BY <2>5, <2>13
    <3>2. a + k \in 1 .. Len(s) /\ from[a + k] = p /\ ix[a + k] = i
      BY <3>1, <2>7
    <3> QED
      BY <3>2
  <2>14. Comes(from, ix, c, s, p, q, now)
    BY <2>10, <2>11, <2>12, <2>13 DEF Comes
  <2> QED
    BY <2>4, <2>14 DEF s
<1>2. d = [q \in Places |-> d[q]]
  BY DEF MoveList
<1> QED
  BY <1>1, <1>2

\* d has the nodes of c, each in its place at now, and those of one tick in their order.
Replaced(c, d, now) ==
  /\ d \in [Places -> Seq(TimerNode)]
  /\ \A q \in Places : \A k \in 1 .. Len(d[q]) :
       /\ q = Place(d[q][k].expire, now)
       /\ \E p \in Places : \E i \in 1 .. Len(c[p]) : d[q][k] = c[p][i]
  /\ \A p \in Places : \A i \in 1 .. Len(c[p]) :
       \E q \in Places : \E k \in 1 .. Len(d[q]) : d[q][k] = c[p][i]
  /\ \A p, q \in Places : \A i \in 1 .. Len(d[p]), j \in 1 .. Len(d[q]) :
       d[p][i].timer = d[q][j].timer => p = q /\ i = j
  /\ OrderIn(d) = OrderIn(c)

\* The place that timer_shift moves, if any.
LEMMA ShiftedIs ==
  ASSUME NEW ct \in Tick, NEW c
  PROVE  \/ Shifted(c, ct) = c /\ \A q : ~MovedAt(ct, q)
         \/ \E p \in Places : Shifted(c, ct) = MoveList(c, p, ct) /\ \A q : MovedAt(ct, q) => q = p
<1> DEFINE Turned == {l \in 0 .. 3 : ct % Span[l] = 0 /\ (ct \div Span[l]) % TIME_LEVEL # 0}
<1>1. Turned = TurnedAt(ct)
  BY DEF TurnedAt
<1>2. Shifted(c, ct) = IF ct = 0 THEN MoveList(c, <<3, 0>>, ct)
                       ELSE IF Turned = {} THEN c
                       ELSE LET l == CHOOSE l \in Turned : TRUE
                            IN MoveList(c, <<l, (ct \div Span[l]) % TIME_LEVEL>>, ct)
  BY DEF Shifted
<1> HIDE DEF Turned
<1>3. CASE ct = 0
  <2>1. Shifted(c, ct) = MoveList(c, <<3, 0>>, ct)
    BY <1>2, <1>3
  <2>2. <<3, 0>> \in Places
    BY TimerAssumption DEF Places
  <2>3. \A q : MovedAt(ct, q) => q = <<3, 0>>
    BY <1>3 DEF MovedAt
  <2> QED
    BY <2>1, <2>2, <2>3
<1>4. CASE ct # 0 /\ TurnedAt(ct) = {}
  BY <1>1, <1>2, <1>4 DEF MovedAt
<1>5. ASSUME ct # 0, NEW l \in 0 .. 3, TurnedAt(ct) = {l}
      PROVE  \E p \in Places : Shifted(c, ct) = MoveList(c, p, ct) /\ \A q : MovedAt(ct, q) => q = p
  <2> DEFINE p == <<l, Block(l, ct) % TIME_LEVEL>>
  <2>1. (CHOOSE k \in Turned : TRUE) = l
    BY <1>1, <1>5
  <2>2. Shifted(c, ct) = MoveList(c, p, ct)
    BY <1>1, <1>2, <1>5, <2>1 DEF Block
  <2>3. p \in Places
    <3>1. Block(l, ct) \in Nat
      BY WholeWord, BlockIs
    <3>2. Block(l, ct) % TIME_LEVEL \in 0 .. TIME_LEVEL - 1
      BY <3>1, DivBounds, TimerAssumption
    <3> QED
      BY <3>2 DEF Places
  <2>4. \A q : MovedAt(ct, q) => q = p
    BY <1>5 DEF MovedAt
  <2> HIDE DEF p
  <2> QED
    BY <2>2, <2>3, <2>4
<1> QED
  BY <1>3, <1>4, <1>5, TurnedIs

\* A timer has one node.
LEMMA OneNode ==
  ASSUME NEW c, NEW t, Waiting(c, t), NEW p \in Places, NEW q \in Places,
         NEW i \in 1 .. Len(c[p]), NEW j \in 1 .. Len(c[q]), c[p][i].timer = c[q][j].timer
  PROVE  p = q /\ i = j
BY DEF Waiting

\* move_list: with all nodes in place at t but for those it moves, the nodes are in
\* place at the tick that follows, in their order.
LEMMA MovedNodes ==
  ASSUME NEW c, NEW t \in Tick, Waiting(c, t), NEW p \in Places, NEW now \in Tick,
         \A q \in Places : \A i \in 1 .. Len(c[q]) : q # p => Place(c[q][i].expire, now) = q,
         NEW d, d = MoveList(c, p, now)
  PROVE  Replaced(c, d, now)
<1>0. c \in [Places -> Seq(TimerNode)]
  BY DEF Waiting
<1>1. /\ d \in [Places -> Seq(TimerNode)]
      /\ \A q \in Places : \E from, ix : Comes(from, ix, c, d[q], p, q, now)
  BY <1>0, MoveIs
<1>2. ASSUME NEW q \in Places, NEW k \in 1 .. Len(d[q])
      PROVE  /\ q = Place(d[q][k].expire, now)
             /\ \E r \in Places : \E i \in 1 .. Len(c[r]) : d[q][k] = c[r][i]
  <2>1. PICK from, ix : Comes(from, ix, c, d[q], p, q, now)
    BY <1>1
  <2>2. /\ from[k] \in Places /\ ix[k] \in 1 .. Len(c[from[k]]) /\ d[q][k] = c[from[k]][ix[k]]
        /\ from[k] = p => Place(d[q][k].expire, now) = q
        /\ from[k] # p => from[k] = q
    BY <2>1 DEF Comes
  <2> QED
    BY <2>2
<1> DEFINE Dest(r, i) == IF r = p THEN Place(c[r][i].expire, now) ELSE r
<1>3. ASSUME NEW r \in Places, NEW i \in 1 .. Len(c[r])
      PROVE  Dest(r, i) \in Places
  BY <1>3, NodeIn, PlaceInPlaces
<1>10. ASSUME NEW r \in Places, NEW i \in 1 .. Len(c[r]), NEW from, NEW ix,
              Comes(from, ix, c, d[Dest(r, i)], p, Dest(r, i), now)
       PROVE  \E k \in 1 .. Len(d[Dest(r, i)]) :
                from[k] = r /\ ix[k] = i /\ d[Dest(r, i)][k] = c[r][i]
  <2> DEFINE q == Dest(r, i)
  <2>1. \E k \in 1 .. Len(d[q]) : from[k] = r /\ ix[k] = i
    <3>1. CASE r = p
      BY <3>1, <1>10 DEF Comes
    <3>2. CASE r # p
      BY <3>2, <1>10 DEF Comes
    <3> QED
      BY <3>1, <3>2
  <2>2. \A k \in 1 .. Len(d[q]) : d[q][k] = c[from[k]][ix[k]]
    BY <1>10 DEF Comes
  <2> HIDE DEF Dest
  <2> QED
    BY <2>1, <2>2
<1>4. ASSUME NEW r \in Places, NEW i \in 1 .. Len(c[r])
      PROVE  \E q \in Places : \E k \in 1 .. Len(d[q]) : d[q][k] = c[r][i]
  <2> DEFINE q == Dest(r, i)
  <2> HIDE DEF Dest
  <2>1. q \in Places
    BY <1>3
  <2>2. PICK from, ix : Comes(from, ix, c, d[q], p, q, now)
    BY <1>1, <2>1
  <2>3. \E k \in 1 .. Len(d[q]) : from[k] = r /\ ix[k] = i /\ d[q][k] = c[r][i]
    <3>1. Comes(from, ix, c, d[Dest(r, i)], p, Dest(r, i), now)
      BY <2>2
    <3>2. \E k \in 1 .. Len(d[Dest(r, i)]) :
             from[k] = r /\ ix[k] = i /\ d[Dest(r, i)][k] = c[r][i]
      BY <3>1, <1>10
    <3> QED
      BY <3>2
  <2> QED
    BY <2>1, <2>3
<1>5. ASSUME NEW q \in Places, NEW s \in Places,
             NEW k \in 1 .. Len(d[q]), NEW l \in 1 .. Len(d[s]), d[q][k].timer = d[s][l].timer
      PROVE  q = s /\ k = l
  <2>1. d[q][k] = d[s][l]
    <3>1. PICK r \in Places : \E i \in 1 .. Len(c[r]) : d[q][k] = c[r][i]
      BY <1>2
    <3>2. PICK i \in 1 .. Len(c[r]) : d[q][k] = c[r][i]
      BY <3>1
    <3>3. PICK u \in Places : \E j \in 1 .. Len(c[u]) : d[s][l] = c[u][j]
      BY <1>2
    <3>4. PICK j \in 1 .. Len(c[u]) : d[s][l] = c[u][j]
      BY <3>3
    <3>5. r = u /\ i = j
      BY <3>2, <3>4, <1>5 DEF Waiting
    <3> QED
      BY <3>2, <3>4, <3>5
  <2>2. q = s
    BY <2>1, <1>2
  <2>3. PICK from, ix : Comes(from, ix, c, d[q], p, q, now)
    BY <1>1
  <2>4. ASSUME NEW m \in 1 .. Len(d[q])
        PROVE  from[m] \in Places /\ ix[m] \in 1 .. Len(c[from[m]]) /\ d[q][m] = c[from[m]][ix[m]]
    BY <2>3 DEF Comes
  <2>5. from[k] = from[l] /\ ix[k] = ix[l]
    <3>1. l \in 1 .. Len(d[q]) /\ d[q][k].timer = d[q][l].timer
      BY <2>2, <1>5
    <3>2. c[from[k]][ix[k]].timer = c[from[l]][ix[l]].timer
      BY <3>1, <2>4
    <3> DEFINE r == from[k]
               u == from[l]
               i == ix[k]
               j == ix[l]
    <3>3. /\ r \in Places /\ i \in 1 .. Len(c[r])
          /\ u \in Places /\ j \in 1 .. Len(c[u])
          /\ c[r][i].timer = c[u][j].timer
      BY <3>1, <3>2, <2>4
    <3> HIDE DEF r, u, i, j
    <3>4. r = u /\ i = j
      BY <3>3, OneNode
    <3> QED
      BY <3>4 DEF r, u, i, j
  <2>6. \A m, n \in 1 .. Len(d[q]) : m < n /\ from[m] = from[n] => ix[m] < ix[n]
    BY <2>3 DEF Comes
  <2>7. ix[k] \in Nat
    BY <2>4
  <2>8. ~(k < l) /\ ~(l < k)
    BY <2>2, <2>5, <2>6, <2>7
  <2> QED
    BY <2>2, <2>8
<1>6. ASSUME NEW pair \in OrderIn(d) PROVE pair \in OrderIn(c)
  <2>1. PICK q \in Places : \E k, l \in 1 .. Len(d[q]) : Ordered(d[q], k, l, pair)
    BY <1>1, <1>6, OrderIs
  <2>2. PICK k \in 1 .. Len(d[q]), l \in 1 .. Len(d[q]) : Ordered(d[q], k, l, pair)
    BY <2>1
  <2>3. PICK from, ix : Comes(from, ix, c, d[q], p, q, now)
    BY <1>1
  <2>4. ASSUME NEW m \in 1 .. Len(d[q])
        PROVE  from[m] \in Places /\ ix[m] \in 1 .. Len(c[from[m]]) /\ d[q][m] = c[from[m]][ix[m]]
    BY <2>3 DEF Comes
  <2>5. from[k] = from[l]
    <3>1. from[k] = Place(d[q][k].expire, t) /\ from[l] = Place(d[q][l].expire, t)
      <4>1. ASSUME NEW m \in 1 .. Len(d[q]) PROVE from[m] = Place(d[q][m].expire, t)
        <5> DEFINE r == from[m]
                   i == ix[m]
        <5>1. r \in Places /\ i \in 1 .. Len(c[r]) /\ d[q][m] = c[r][i]
          BY <2>4
        <5> HIDE DEF r, i
        <5>2. r = Place(c[r][i].expire, t)
          BY <5>1, NodeIn
        <5> QED
          BY <5>1, <5>2 DEF r
      <4> QED
        BY <4>1
    <3> QED
      BY <3>1, <2>2 DEF Ordered
  <2>6. ix[k] < ix[l]
    BY <2>2, <2>3, <2>5 DEF Comes, Ordered
  <2>7. Ordered(c[from[k]], ix[k], ix[l], pair)
    BY <2>2, <2>4, <2>5, <2>6 DEF Ordered
  <2>8. from[k] \in Places /\ ix[k] \in 1 .. Len(c[from[k]]) /\ ix[l] \in 1 .. Len(c[from[k]])
    BY <2>4, <2>5
  <2> QED
    BY <2>7, <2>8, <1>0, OrderIs
<1>7. ASSUME NEW pair \in OrderIn(c) PROVE pair \in OrderIn(d)
  <2>1. PICK r \in Places : \E i, j \in 1 .. Len(c[r]) : Ordered(c[r], i, j, pair)
    BY <1>0, <1>7, OrderIs
  <2>2. PICK i \in 1 .. Len(c[r]), j \in 1 .. Len(c[r]) : Ordered(c[r], i, j, pair)
    BY <2>1
  <2>3. i < j /\ c[r][i].expire = c[r][j].expire
    BY <2>2 DEF Ordered
  <2> DEFINE q == Dest(r, i)
  <2>4. q = Dest(r, j)
    BY <2>3
  <2> HIDE DEF Dest
  <2>5. q \in Places
    BY <1>3
  <2>6. PICK from, ix : Comes(from, ix, c, d[q], p, q, now)
    BY <1>1, <2>5
  <2>7. PICK k \in 1 .. Len(d[q]) : from[k] = r /\ ix[k] = i /\ d[q][k] = c[r][i]
    <3>1. Comes(from, ix, c, d[Dest(r, i)], p, Dest(r, i), now)
      BY <2>6
    <3>2. \E m \in 1 .. Len(d[Dest(r, i)]) :
             from[m] = r /\ ix[m] = i /\ d[Dest(r, i)][m] = c[r][i]
      BY <3>1, <1>10
    <3> QED
      BY <3>2
  <2>8. PICK l \in 1 .. Len(d[q]) : from[l] = r /\ ix[l] = j /\ d[q][l] = c[r][j]
    <3>1. Comes(from, ix, c, d[Dest(r, j)], p, Dest(r, j), now)
      BY <2>4, <2>6
    <3>2. \E m \in 1 .. Len(d[Dest(r, j)]) :
             from[m] = r /\ ix[m] = j /\ d[Dest(r, j)][m] = c[r][j]
      BY <3>1, <1>10
    <3> QED
      BY <2>4, <3>2
  <2>9. k < l
    <3>1. \A m, n \in 1 .. Len(d[q]) : m < n /\ from[m] = from[n] => ix[m] < ix[n]
      BY <2>6 DEF Comes
    <3>2. ~(l < k) /\ l # k
      BY <3>1, <2>3, <2>7, <2>8
    <3> QED
      BY <3>2
  <2>10. Ordered(d[q], k, l, pair)
    BY <2>2, <2>7, <2>8, <2>9 DEF Ordered
  <2> QED
    BY <2>5, <2>10, <1>1, OrderIs
<1>8. OrderIn(d) = OrderIn(c)
  BY <1>6, <1>7
<1> QED
  BY <1>1, <1>2, <1>4, <1>5, <1>8 DEF Replaced

\* The nodes there are after a tick were there before it.
LEMMA ReplacedFrom ==
  ASSUME NEW c, NEW d, NEW now, Replaced(c, d, now), NEW q \in Places, NEW k \in 1 .. Len(d[q])
  PROVE  /\ q = Place(d[q][k].expire, now)
         /\ \E p \in Places : \E i \in 1 .. Len(c[p]) : d[q][k] = c[p][i]
BY DEF Replaced

\* The nodes there were before a tick are there after it.
LEMMA ReplacedTo ==
  ASSUME NEW c, NEW d, NEW now, Replaced(c, d, now), NEW p \in Places, NEW i \in 1 .. Len(c[p])
  PROVE  \E q \in Places : \E k \in 1 .. Len(d[q]) : d[q][k] = c[p][i]
BY DEF Replaced

\* A tick with none overdue: each node stays or is moved in place, with a tick less to go.
LEMMA TickIs ==
  ASSUME NEW c, NEW t \in Tick, Waiting(c, t), c[SlotOf(t)] = <<>>,
         NEW ct, ct = (t + 1) % Word, NEW d, d = Shifted(c, ct)
  PROVE  /\ Waiting(d, ct)
         /\ \A f : /\ LeftIn(c, t, f) # 0
                   /\ LeftIn(d, ct, f) = IF LeftIn(c, t, f) = -1 THEN -1 ELSE LeftIn(c, t, f) - 1
         /\ OrderIn(d) = OrderIn(c)
<1>1. ct \in Tick
  BY NextTick
<1>2. c \in [Places -> Seq(TimerNode)]
  BY DEF Waiting
<1>3. ASSUME NEW p \in Places, NEW i \in 1 .. Len(c[p])
      PROVE  /\ c[p][i].expire \in Tick
             /\ Gap(c[p][i].expire, t) # 0
             /\ Gap(c[p][i].expire, ct) = Gap(c[p][i].expire, t) - 1
             /\ 2 * Gap(c[p][i].expire, ct) <= Word
             /\ ~MovedAt(ct, p) => Place(c[p][i].expire, ct) = p
  <2> DEFINE x == c[p][i].expire
  <2>1. x \in Tick /\ p = Place(x, t) /\ 2 * Gap(x, t) <= Word
    BY NodeIn
  <2>2. x # t
    <3>1. ASSUME x = t PROVE FALSE
      <4>1. p = SlotOf(t)
        BY <2>1, <3>1, PlaceInPlaces
      <4> QED
        BY <4>1
    <3> QED
      BY <3>1
  <2> HIDE DEF x
  <2>3. Gap(x, t) # 0 /\ Gap(x, ct) = Gap(x, t) - 1 /\ Gap(x, t) \in Nat
    BY <2>1, <2>2, GapMoves, GapIs, WholeWord
  <2>4. 2 * Gap(x, ct) <= Word
    BY <2>1, <2>3, WholeWord
  <2>5. ~MovedAt(ct, p) => Place(x, ct) = p
    BY <2>1, <2>2, PlaceKept
  <2> QED
    BY <2>1, <2>3, <2>4, <2>5 DEF x
<1>4. Replaced(c, d, ct)
  <2>1. CASE d = c /\ \A q : ~MovedAt(ct, q)
    <3>1. \A q \in Places : \A k \in 1 .. Len(c[q]) : q = Place(c[q][k].expire, ct)
      BY <2>1, <1>3
    <3>2. \A p, q \in Places : \A i \in 1 .. Len(c[p]), j \in 1 .. Len(c[q]) :
            c[p][i].timer = c[q][j].timer => p = q /\ i = j
      BY DEF Waiting
    <3> QED
      BY <2>1, <3>1, <3>2, <1>2 DEF Replaced
  <2>2. ASSUME NEW p \in Places, d = MoveList(c, p, ct), \A q : MovedAt(ct, q) => q = p
        PROVE  Replaced(c, d, ct)
    <3>1. \A q \in Places : \A i \in 1 .. Len(c[q]) : q # p => Place(c[q][i].expire, ct) = q
      BY <2>2, <1>3
    <3> QED
      BY <2>2, <3>1, <1>1, MovedNodes
  <2> QED
    BY <2>1, <2>2, <1>1, ShiftedIs
<1>5. Waiting(d, ct)
  <2>1. ASSUME NEW q \in Places, NEW k \in 1 .. Len(d[q])
        PROVE  q = Place(d[q][k].expire, ct) /\ 2 * Gap(d[q][k].expire, ct) <= Word
    <3>1. PICK p \in Places : \E i \in 1 .. Len(c[p]) : d[q][k] = c[p][i]
      BY <1>4, ReplacedFrom
    <3>2. PICK i \in 1 .. Len(c[p]) : d[q][k] = c[p][i]
      BY <3>1
    <3>3. q = Place(d[q][k].expire, ct)
      BY <1>4, ReplacedFrom
    <3>4. 2 * Gap(c[p][i].expire, ct) <= Word
      BY <1>3
    <3> QED
      BY <3>2, <3>3, <3>4
  <2>2. /\ d \in [Places -> Seq(TimerNode)]
        /\ \A p, q \in Places : \A i \in 1 .. Len(d[p]), j \in 1 .. Len(d[q]) :
             d[p][i].timer = d[q][j].timer => p = q /\ i = j
    BY <1>4 DEF Replaced
  <2> QED
    BY <2>1, <2>2 DEF Waiting
<1>6. ASSUME NEW f
      PROVE  /\ LeftIn(c, t, f) # 0
             /\ LeftIn(d, ct, f) = IF LeftIn(c, t, f) = -1 THEN -1 ELSE LeftIn(c, t, f) - 1
  <2>1. CASE HasNode(c, f)
    <3>1. PICK p \in Places : \E i \in 1 .. Len(c[p]) : c[p][i].timer = f
      BY <2>1 DEF HasNode
    <3>2. PICK i \in 1 .. Len(c[p]) : c[p][i].timer = f
      BY <3>1
    <3>3. PICK q \in Places : \E k \in 1 .. Len(d[q]) : d[q][k] = c[p][i]
      BY <1>4, ReplacedTo
    <3>4. PICK k \in 1 .. Len(d[q]) : d[q][k] = c[p][i]
      BY <3>3
    <3>5. LeftIn(c, t, f) = Gap(c[p][i].expire, t)
      BY <3>2, LeftIs
    <3>6. LeftIn(d, ct, f) = Gap(c[p][i].expire, ct)
      <4>1. d[q][k].timer = f
        BY <3>2, <3>4
      <4>2. LeftIn(d, ct, f) = Gap(d[q][k].expire, ct)
        BY <4>1, <1>5, LeftIs
      <4> QED
        BY <4>2, <3>4
    <3>7. LeftIn(c, t, f) # -1
      BY <2>1, LeftType
    <3> QED
      BY <3>5, <3>6, <3>7, <1>3
  <2>2. CASE ~HasNode(c, f)
    <3>1. ~HasNode(d, f)
      <4>1. ASSUME NEW q \in Places, NEW k \in 1 .. Len(d[q]), d[q][k].timer = f PROVE FALSE
        <5>1. PICK p \in Places : \E i \in 1 .. Len(c[p]) : d[q][k] = c[p][i]
          BY <1>4, ReplacedFrom
        <5>2. PICK i \in 1 .. Len(c[p]) : d[q][k] = c[p][i]
          BY <5>1
        <5>3. c[p][i].timer = f
          BY <5>2, <4>1
        <5>4. HasNode(c, f)
          BY <5>3 DEF HasNode
        <5> QED
          BY <5>4, <2>2
      <4> QED
        BY <4>1 DEF HasNode
    <3>2. LeftIn(d, ct, f) = -1 /\ LeftIn(c, t, f) = -1
      BY <2>2, <3>1, <1>5, LeftIs
    <3> QED
      BY <3>2
  <2> QED
    BY <2>1, <2>2
<1>7. OrderIn(d) = OrderIn(c)
  BY <1>4 DEF Replaced
<1> QED
  BY <1>5, <1>6, <1>7

\* Extensionality of the lists.
LEMMA SameLists ==
  ASSUME NEW c \in [Places -> Seq(TimerNode)], NEW d \in [Places -> Seq(TimerNode)],
         \A p \in Places : c[p] = d[p]
  PROVE  c = d
OBVIOUS

\* Coming, of any lists, batch and tick.
ComingIn(ls, b, t) == [p \in Places |-> (IF p = SlotOf(t) THEN b ELSE <<>>) \o ls[p]]

\* The nodes that wait are those in the lists and those of the batch.
LEMMA ComingIs ==
  ASSUME NEW ls \in [Places -> Seq(TimerNode)], NEW b \in Seq(TimerNode), NEW t,
         ls[SlotOf(t)] = <<>>
  PROVE  /\ ComingIn(ls, b, t) \in [Places -> Seq(TimerNode)]
         /\ \A p \in Places : ComingIn(ls, b, t)[p] = IF p = SlotOf(t) THEN b ELSE ls[p]
         /\ b = <<>> => ComingIn(ls, b, t) = ls
<1>1. ASSUME NEW p \in Places
      PROVE  /\ ComingIn(ls, b, t)[p] = IF p = SlotOf(t) THEN b ELSE ls[p]
             /\ ComingIn(ls, b, t)[p] \in Seq(TimerNode)
  <2>1. ComingIn(ls, b, t)[p] = (IF p = SlotOf(t) THEN b ELSE <<>>) \o ls[p]
    BY DEF ComingIn
  <2>2. b \o <<>> = b /\ <<>> \o ls[p] = ls[p] /\ ls[p] \in Seq(TimerNode)
    OBVIOUS
  <2> QED
    BY <2>1, <2>2
<1>2. ComingIn(ls, b, t) = [p \in Places |-> ComingIn(ls, b, t)[p]]
  BY DEF ComingIn
<1> HIDE DEF ComingIn
<1>3. ASSUME b = <<>> PROVE ComingIn(ls, b, t) = ls
  <2>1. \A p \in Places : ComingIn(ls, b, t)[p] = ls[p]
    BY <1>1, <1>3
  <2>2. ls = [p \in Places |-> ls[p]]
    OBVIOUS
  <2> QED
    BY <1>2, <2>1, <2>2
<1> QED
  BY <1>1, <1>2, <1>3

\* InPlace and NothingDueAtRest are not inductive: what waits is in place together
\* with what the timer thread has in hand, for no more than half the word, and once.
WheelInv ==
  /\ TimerTypeOK
  /\ timer_pc # "unshifted"
  /\ timer_pc = "idle" => batch = <<>>
  /\ list[SlotOf(time)] = <<>>
  /\ Waiting(Coming, time)

\* What the invariant says of the state, in the words of the lemmas above.
LEMMA WheelState ==
  ASSUME WheelInv
  PROVE  /\ list \in [Places -> Seq(TimerNode)] /\ batch \in Seq(TimerNode) /\ time \in Tick
         /\ Coming = ComingIn(list, batch, time)
         /\ SlotOf(time) \in Places
         /\ \A e : LeftOf(e) = LeftIn(Coming, time, e)
<1>1. list \in [Places -> Seq(TimerNode)]
  BY DEF WheelInv, TimerTypeOK
<1>2. time \in Tick /\ batch \in Seq(TimerNode)
  BY DEF WheelInv, TimerTypeOK, Tick
<1>3. Coming = ComingIn(list, batch, time)
  BY DEF Coming, ComingIn
<1>4. \A e : LeftOf(e) = LeftIn(Coming, time, e)
  BY DEF LeftOf, LeftIn
<1> QED
  BY <1>1, <1>2, <1>3, <1>4, PlaceInPlaces

\* While a batch is dispatched its slot stays empty.
LEMMA ComingNow ==
  ASSUME WheelInv
  PROVE  /\ Coming \in [Places -> Seq(TimerNode)]
         /\ \A p \in Places : Coming[p] = IF p = SlotOf(time) THEN batch ELSE list[p]
         /\ batch = <<>> => Coming = list
<1>1. list \in [Places -> Seq(TimerNode)] /\ batch \in Seq(TimerNode) /\ list[SlotOf(time)] = <<>>
  BY WheelState DEF WheelInv
<1>2. Coming = ComingIn(list, batch, time)
  BY WheelState
<1> QED
  BY <1>1, <1>2, ComingIs

\* An action that finds the timer not set finds no node of it.
LEMMA NotSet ==
  ASSUME WheelInv, NEW e, ~IsSet(e)
  PROVE  ~HasNode(Coming, e)
<1>1. /\ list \in [Places -> Seq(TimerNode)] /\ batch \in Seq(TimerNode)
      /\ Coming = ComingIn(list, batch, time) /\ list[SlotOf(time)] = <<>>
  BY WheelState DEF WheelInv
<1>2. \A p \in Places : Coming[p] = IF p = SlotOf(time) THEN batch ELSE list[p]
  BY ComingNow
<1>3. /\ \A i \in 1 .. Len(batch) : batch[i].timer # e
      /\ \A p \in Places : \A i \in 1 .. Len(list[p]) : list[p][i].timer # e
  BY <1>1 DEF IsSet, IsIn
<1> QED
  BY <1>2, <1>3 DEF HasNode

\* timer_add sets the timer of the abstract specification.
LEMMA SetStep ==
  ASSUME WheelInv, NEW e \in Timer, NEW d \in 1 .. MaxDelay[e], Timeout(e, d)
  PROVE  WheelInv' /\ D!Set(e)
<1> DEFINE x == Expiry(d)
           node == [timer |-> e, expire |-> x]
<1>1. /\ list \in [Places -> Seq(TimerNode)] /\ batch \in Seq(TimerNode) /\ time \in Tick
      /\ Coming = ComingIn(list, batch, time) /\ SlotOf(time) \in Places
      /\ list[SlotOf(time)] = <<>> /\ Waiting(Coming, time)
  BY WheelState DEF WheelInv
<1>2. d \in Tick /\ d # 0 /\ 2 * d <= Word
  <2>1. MaxDelay[e] \in Nat /\ 2 * MaxDelay[e] <= Word /\ Word \in Nat
    BY TimerAssumption, WholeWord
  <2>2. d \in Nat /\ d # 0 /\ 2 * d <= Word /\ d < Word
    BY <2>1
  <2> QED
    BY <2>1, <2>2 DEF Tick
<1>3. x \in Tick /\ Gap(x, time) = d
  BY <1>1, <1>2, GapOfExpiry DEF Expiry
<1>4. /\ ~HasNode(Coming, e)
      /\ list' = AddNode(list, node, time)
      /\ UNCHANGED <<time, timer_pc, batch, todo, fired>>
  BY NotSet DEF Timeout
<1>5. node \in TimerNode /\ node.timer = e /\ node.expire = x
  BY <1>3 DEF TimerNode, Tick
<1>6. Place(x, time) \in Places /\ Place(x, time) # SlotOf(time)
  BY <1>1, <1>2, <1>3, PlaceInPlaces, GapMoves
<1> HIDE DEF x
<1>7. AddNode(list, node, time) = [list EXCEPT ![Place(x, time)] = Append(@, node)]
  BY <1>5 DEF AddNode
<1>8. AddNode(Coming, node, time) = [Coming EXCEPT ![Place(x, time)] = Append(@, node)]
  BY <1>5 DEF AddNode
<1> HIDE DEF node
<1> DEFINE p0 == Place(x, time)
<1> HIDE DEF p0
<1>9. list' \in [Places -> Seq(TimerNode)] /\ list'[SlotOf(time)] = <<>>
  <2>1. list[p0] \in Seq(TimerNode)
    BY <1>1, <1>6 DEF p0
  <2>2. Append(list[p0], node) \in Seq(TimerNode)
    BY <2>1, <1>5
  <2>3. list' = [list EXCEPT ![p0] = Append(list[p0], node)]
    BY <1>4, <1>7 DEF p0
  <2> QED
    BY <2>2, <2>3, <1>1, <1>6 DEF p0
<1>10. Coming' = AddNode(Coming, node, time)
  <2>1. Coming' = ComingIn(list', batch, time)
    BY <1>4 DEF Coming, ComingIn
  <2>2. /\ ComingIn(list', batch, time) \in [Places -> Seq(TimerNode)]
        /\ \A p \in Places :
             ComingIn(list', batch, time)[p] = IF p = SlotOf(time) THEN batch ELSE list'[p]
    <3>1. batch \in Seq(TimerNode)
      BY <1>1
    <3> QED
      BY <3>1, <1>9, ComingIs
  <2>3. Coming \in [Places -> Seq(TimerNode)]
        /\ \A p \in Places : Coming[p] = IF p = SlotOf(time) THEN batch ELSE list[p]
    BY ComingNow
  <2>4. list' = [list EXCEPT ![p0] = Append(list[p0], node)]
    BY <1>4, <1>7 DEF p0
  <2>5. AddNode(Coming, node, time) = [Coming EXCEPT ![p0] = Append(Coming[p0], node)]
    BY <1>8 DEF p0
  <2>6. p0 \in Places /\ p0 # SlotOf(time)
    BY <1>6 DEF p0
  <2>7. AddNode(Coming, node, time) \in [Places -> Seq(TimerNode)]
    <3>1. Append(Coming[p0], node) \in Seq(TimerNode)
      BY <2>3, <2>6, <1>5
    <3> QED
      BY <2>3, <2>5, <3>1
  <2> DEFINE after == ComingIn(list', batch, time)
             added == AddNode(Coming, node, time)
  <2>8. \A p \in Places : after[p] = added[p]
    <3>1. ASSUME NEW p \in Places, p = p0 PROVE after[p] = added[p]
      <4>1. after[p] = Append(list[p0], node)
        BY <3>1, <2>2, <2>4, <2>6, <1>1
      <4>2. added[p] = Append(list[p0], node)
        BY <3>1, <2>3, <2>5, <2>6
      <4> QED
        BY <4>1, <4>2
    <3>2. ASSUME NEW p \in Places, p # p0 PROVE after[p] = added[p]
      <4>1. after[p] = IF p = SlotOf(time) THEN batch ELSE list[p]
        BY <3>2, <2>2, <2>4, <2>6, <1>1
      <4>2. added[p] = Coming[p]
        BY <3>2, <2>3, <2>5
      <4> QED
        BY <4>1, <4>2, <2>3
    <3> QED
      BY <3>1, <3>2
  <2>9. Coming' = after
    BY <2>1
  <2>10. after \in [Places -> Seq(TimerNode)] /\ added \in [Places -> Seq(TimerNode)]
    BY <2>2, <2>7
  <2> HIDE DEF after, added
  <2>11. after = added
    BY <2>8, <2>10, SameLists
  <2> QED
    BY <2>9, <2>11 DEF added
<1>11. /\ Waiting(Coming', time)
       /\ \A f : LeftIn(Coming', time, f) = IF f = e THEN d ELSE LeftIn(Coming, time, f)
       /\ OrderIn(Coming') = OrderIn(Coming) \cup
                              {<<f, e>> : f \in {g \in Timer : LeftIn(Coming, time, g) = d}}
  BY <1>1, <1>2, <1>3, <1>4, <1>10, AddIs DEF node
<1>12. WheelInv'
  <2>1. TimerTypeOK'
    BY <1>4, <1>9 DEF WheelInv, TimerTypeOK
  <2>2. SlotOf(time)' = SlotOf(time) /\ time' = time
    BY <1>4 DEF SlotOf
  <2> QED
    BY <2>1, <2>2, <1>4, <1>9, <1>11 DEF WheelInv
<1>13. D!Set(e)
  <2> DEFINE left == [f \in Timer |-> LeftOf(f)]
  <2>1. \A f : LeftOf(f) = LeftIn(Coming, time, f)
    BY WheelState
  <2>2. \A f : LeftOf(f)' = LeftIn(Coming', time, f)
    <3>1. \A f : LeftOf(f)' = LeftIn(Coming', time', f)
      BY DEF LeftOf, LeftIn
    <3> QED
      BY <3>1, <1>4
  <2>3. left[e] = -1
    BY <2>1, <1>1, <1>4, LeftIs
  <2>4. left' = [left EXCEPT ![e] = d] /\ left'[e] = d
    BY <2>1, <2>2, <1>11
  <2>5. UNION {AheadIn(Coming[p]) : p \in Places} = OrderIn(Coming)
        /\ (UNION {AheadIn(Coming[p]) : p \in Places})' = OrderIn(Coming')
    BY DEF OrderIn
  <2>6. {g \in Timer : LeftIn(Coming, time, g) = d} = {g \in Timer : left[g] = left'[e]}
    BY <2>1, <2>4
  <2>7. d \in 1 .. Word - 1
    BY <1>2, WholeWord DEF Tick
  <2> HIDE DEF left
  <2> QED
    BY <2>3, <2>4, <2>5, <2>6, <2>7, <1>4, <1>11 DEF D!Set, D!Off, left
<1> QED
  BY <1>12, <1>13

\* What the timer promises, in terms of the nodes that wait.
LEMMA BarIs ==
  ASSUME WheelInv
  PROVE  /\ \A f : LeftOf(f) = LeftIn(Coming, time, f)
         /\ \A f : LeftOf(f)' = LeftIn(Coming', time', f)
         /\ UNION {AheadIn(Coming[p]) : p \in Places} = OrderIn(Coming)
         /\ (UNION {AheadIn(Coming[p]) : p \in Places})' = OrderIn(Coming')
BY DEF LeftOf, LeftIn, OrderIn

\* mtask_timeout with a time of 0 pushes at once.
LEMMA SetNowStep ==
  ASSUME WheelInv, NEW e \in Timer, TimeoutNow(e)
  PROVE  WheelInv' /\ D!SetNow(e)
<1>1. /\ ~HasNode(Coming, e) /\ fired' = <<e>>
      /\ UNCHANGED <<list, time, timer_pc, batch, todo>>
  BY NotSet DEF TimeoutNow
<1>2. Coming' = Coming /\ SlotOf(time)' = SlotOf(time)
  BY <1>1 DEF Coming, SlotOf
<1>3. TimerTypeOK'
  BY <1>1 DEF WheelInv, TimerTypeOK
<1>4. WheelInv'
  BY <1>1, <1>2, <1>3 DEF WheelInv
<1>5. LeftOf(e) = -1
  BY <1>1, BarIs, LeftIs DEF WheelInv
<1>6. \A f : LeftOf(f)' = LeftOf(f)
  BY <1>1, <1>2, BarIs
<1>7. (UNION {AheadIn(Coming[p]) : p \in Places})' = UNION {AheadIn(Coming[p]) : p \in Places}
  BY <1>2
<1> QED
  BY <1>1, <1>4, <1>5, <1>6, <1>7 DEF D!SetNow, D!Off

\* The steps between ticks that the promise does not see.
LEMMA RestStep ==
  ASSUME WheelInv, UpdateTime \/ AfterShift
  PROVE  WheelInv' /\ UNCHANGED D!vars
<1>0. /\ list \in [Places -> Seq(TimerNode)] /\ batch \in Seq(TimerNode) /\ time \in Tick
      /\ SlotOf(time) \in Places /\ list[SlotOf(time)] = <<>>
  BY WheelState DEF WheelInv
<1>1. UNCHANGED <<list, time, batch, fired>>
  <2>1. CASE UpdateTime
    BY <2>1 DEF UpdateTime
  <2>2. CASE AfterShift
    <3>1. /\ batch = <<>> /\ time' = time /\ fired' = fired
          /\ batch' = list[SlotOf(time')] /\ list' = [list EXCEPT ![SlotOf(time')] = <<>>]
      BY <2>2 DEF AfterShift, Execute
    <3>2. batch' = batch /\ list' = list
      BY <3>1, <1>0
    <3> QED
      BY <3>1, <3>2
  <2> QED
    BY <2>1, <2>2
<1>2. /\ timer_pc' \in {"idle", "shifted"} /\ (timer_pc' = "idle" => batch' = <<>>)
      /\ todo' \in 0 .. MaxDiff
  <2>1. CASE UpdateTime
    BY <2>1, <1>1, TimerAssumption DEF UpdateTime, WheelInv, TimerTypeOK
  <2>2. CASE AfterShift
    BY <2>2 DEF AfterShift, Execute, WheelInv, TimerTypeOK
  <2> QED
    BY <2>1, <2>2
<1>3. Coming' = Coming /\ SlotOf(time)' = SlotOf(time)
  BY <1>1 DEF Coming, SlotOf
<1>4. TimerTypeOK'
  BY <1>1, <1>2 DEF WheelInv, TimerTypeOK
<1>5. WheelInv'
  BY <1>1, <1>2, <1>3, <1>4 DEF WheelInv
<1>6. \A f : LeftOf(f)' = LeftOf(f)
  BY <1>1, <1>3, BarIs
<1>7. (UNION {AheadIn(Coming[p]) : p \in Places})' = UNION {AheadIn(Coming[p]) : p \in Places}
  BY <1>3
<1> QED
  BY <1>1, <1>5, <1>6, <1>7 DEF D!vars

\* dispatch_list lets a timer go off that is due and first of its tick.
LEMMA GoOffStep ==
  ASSUME WheelInv, DispatchList
  PROVE  WheelInv' /\ \E e \in Timer : D!GoOff(e)
<1> DEFINE e == Head(batch).timer
           p0 == SlotOf(time)
<1>1. /\ list \in [Places -> Seq(TimerNode)] /\ batch \in Seq(TimerNode) /\ time \in Tick
      /\ Coming = ComingIn(list, batch, time) /\ p0 \in Places
      /\ list[p0] = <<>> /\ Waiting(Coming, time)
  BY WheelState DEF WheelInv
<1>2. /\ batch # <<>> /\ fired' = <<e>> /\ batch' = Tail(batch)
      /\ UNCHANGED <<list, time, timer_pc, todo>>
  BY DEF DispatchList
<1>3. batch' \in Seq(TimerNode)
  BY <1>1, <1>2
<1>4. Coming \in [Places -> Seq(TimerNode)]
      /\ \A p \in Places : Coming[p] = IF p = p0 THEN batch ELSE list[p]
  BY ComingNow
<1>5. Coming' = Gone(Coming, p0)
  <2>1. Coming' = ComingIn(list, batch', time)
    BY <1>2 DEF Coming, ComingIn
  <2>0. list \in [Places -> Seq(TimerNode)] /\ list[SlotOf(time)] = <<>>
    BY <1>1
  <2>2. /\ ComingIn(list, batch', time) \in [Places -> Seq(TimerNode)]
        /\ \A p \in Places : ComingIn(list, batch', time)[p] = IF p = p0 THEN batch' ELSE list[p]
    BY <2>0, <1>3, ComingIs
  <2> HIDE DEF p0
  <2>3. Gone(Coming, p0) \in [Places -> Seq(TimerNode)]
    BY <1>1, <1>2, <1>3, <1>4 DEF Gone
  <2>4. \A p \in Places : Gone(Coming, p0)[p] = IF p = p0 THEN batch' ELSE list[p]
    BY <1>1, <1>2, <1>4 DEF Gone
  <2> DEFINE now == ComingIn(list, batch', time)
             rest == Gone(Coming, p0)
  <2>5. /\ now \in [Places -> Seq(TimerNode)] /\ rest \in [Places -> Seq(TimerNode)]
        /\ \A p \in Places : now[p] = rest[p]
    BY <2>2, <2>3, <2>4
  <2>6. Coming' = now
    BY <2>1
  <2> HIDE DEF now, rest
  <2>7. now = rest
    BY <2>5, SameLists
  <2> QED
    BY <2>6, <2>7 DEF rest
<1>6. Coming[p0] = batch
  BY <1>1, <1>4
<1>7. /\ Waiting(Coming', time)
      /\ e \in Timer /\ LeftIn(Coming, time, e) = 0
      /\ \A f : LeftIn(Coming', time, f) = IF f = e THEN -1 ELSE LeftIn(Coming, time, f)
      /\ \A f : <<f, e>> \notin OrderIn(Coming)
      /\ OrderIn(Coming') = {pair \in OrderIn(Coming) : pair[1] # e}
  BY <1>1, <1>2, <1>5, <1>6, TakeIs
<1> HIDE DEF e
<1>8. WheelInv'
  <2>1. TimerTypeOK'
    BY <1>2, <1>3, <1>7 DEF WheelInv, TimerTypeOK
  <2>2. SlotOf(time)' = SlotOf(time) /\ time' = time
    BY <1>2 DEF SlotOf
  <2>3. timer_pc # "idle"
    BY <1>2 DEF WheelInv
  <2> QED
    BY <2>1, <2>2, <2>3, <1>1, <1>2, <1>7 DEF WheelInv
<1>9. D!GoOff(e)
  <2> DEFINE left == [f \in Timer |-> LeftOf(f)]
  <2>1. left[e] = 0
    BY <1>7, BarIs
  <2>2. left' = [left EXCEPT ![e] = -1]
    <3>1. \A f \in Timer : left[f] = LeftIn(Coming, time, f) /\ LeftOf(f)' = LeftIn(Coming', time, f)
      BY <1>2, BarIs
    <3> QED
      BY <3>1, <1>7
  <2>3. /\ UNION {AheadIn(Coming[p]) : p \in Places} = OrderIn(Coming)
        /\ (UNION {AheadIn(Coming[p]) : p \in Places})' = OrderIn(Coming')
    BY BarIs
  <2> HIDE DEF left
  <2> QED
    BY <2>1, <2>2, <2>3, <1>2, <1>7 DEF D!GoOff, D!Off, left
<1> QED
  BY <1>7, <1>8, <1>9

\* timer_update is a tick.
LEMMA TickStep ==
  ASSUME WheelInv, BeforeShift
  PROVE  WheelInv' /\ D!Tick
<1> DEFINE ct == (time + 1) % Word
           ls == Shifted(list, ct)
<1>1. /\ list \in [Places -> Seq(TimerNode)] /\ batch \in Seq(TimerNode) /\ time \in Tick
      /\ Coming = ComingIn(list, batch, time) /\ SlotOf(time) \in Places
      /\ list[SlotOf(time)] = <<>> /\ Waiting(Coming, time)
  BY WheelState DEF WheelInv
<1>2. timer_pc = "idle" /\ batch = <<>> /\ todo > 0 /\ Shift
  BY DEF BeforeShift, WheelInv
<1>3. Coming = list
  BY <1>2, ComingNow
<1>4. /\ time' = ct /\ todo' = todo - 1 /\ fired' = fired
      /\ batch' = ls[SlotOf(ct)] /\ list' = [ls EXCEPT ![SlotOf(ct)] = <<>>]
      /\ timer_pc' = IF batch' = <<>> THEN "idle" ELSE "shifted"
  BY <1>2 DEF Shift, Execute
<1>5. ct \in Tick /\ SlotOf(ct) \in Places
  BY <1>1, NextTick, PlaceInPlaces
<1>6. /\ Waiting(ls, ct)
      /\ \A f : /\ LeftIn(Coming, time, f) # 0
                /\ LeftIn(ls, ct, f) = IF LeftIn(Coming, time, f) = -1 THEN -1
                                       ELSE LeftIn(Coming, time, f) - 1
      /\ OrderIn(ls) = OrderIn(Coming)
  BY <1>1, <1>3, TickIs
<1> HIDE DEF ct, ls
<1>7. ls \in [Places -> Seq(TimerNode)]
  BY <1>6 DEF Waiting
<1>8. list' \in [Places -> Seq(TimerNode)] /\ batch' \in Seq(TimerNode) /\ list'[SlotOf(ct)] = <<>>
  BY <1>4, <1>5, <1>7
<1>9. Coming' = ls
  <2>1. Coming' = ComingIn(list', batch', ct)
    BY <1>4 DEF Coming, ComingIn
  <2>2. /\ ComingIn(list', batch', ct) \in [Places -> Seq(TimerNode)]
        /\ \A p \in Places :
             ComingIn(list', batch', ct)[p] = IF p = SlotOf(ct) THEN batch' ELSE list'[p]
    BY <1>8, ComingIs
  <2>3. \A p \in Places : ls[p] = IF p = SlotOf(ct) THEN batch' ELSE list'[p]
    BY <1>4, <1>5, <1>7
  <2> DEFINE now == ComingIn(list', batch', ct)
  <2>4. now \in [Places -> Seq(TimerNode)] /\ \A p \in Places : now[p] = ls[p]
    BY <2>2, <2>3
  <2>5. Coming' = now
    BY <2>1
  <2> HIDE DEF now
  <2>6. now = ls
    BY <2>4, <1>7, SameLists
  <2> QED
    BY <2>5, <2>6
<1>10. WheelInv'
  <2>1. todo' \in 0 .. MaxDiff
    BY <1>2, <1>4, TimerAssumption DEF WheelInv, TimerTypeOK
  <2>2. timer_pc' \in {"idle", "shifted"} /\ (timer_pc' = "idle" => batch' = <<>>)
    BY <1>4
  <2>3. TimerTypeOK'
    BY <2>1, <2>2, <1>4, <1>5, <1>8 DEF WheelInv, TimerTypeOK, Tick
  <2>4. SlotOf(time)' = SlotOf(ct)
    BY <1>4 DEF SlotOf
  <2> QED
    BY <2>2, <2>3, <2>4, <1>4, <1>6, <1>8, <1>9 DEF WheelInv
<1>11. D!Tick
  <2> DEFINE left == [f \in Timer |-> LeftOf(f)]
  <2>1. \A f \in Timer : /\ LeftOf(f) = LeftIn(Coming, time, f)
                         /\ LeftOf(f)' = LeftIn(ls, ct, f)
    BY <1>4, <1>9, BarIs
  <2>2. \A f \in Timer : left[f] # 0
    BY <2>1, <1>6
  <2>3. left' = [f \in Timer |-> IF left[f] = -1 THEN -1 ELSE left[f] - 1]
    BY <2>1, <1>6
  <2>4. (UNION {AheadIn(Coming[p]) : p \in Places})' = UNION {AheadIn(Coming[p]) : p \in Places}
    BY <1>6, <1>9, BarIs
  <2> HIDE DEF left
  <2> QED
    BY <2>2, <2>3, <2>4, <1>4 DEF D!Tick, D!Off, left
<1> QED
  BY <1>10, <1>11

\* The wheel begins with no timer.
LEMMA WheelInit == TimerInit => WheelInv /\ D!Init
<1> SUFFICES ASSUME TimerInit PROVE WheelInv /\ D!Init
  OBVIOUS
<1>1. 0 \in Tick
  BY WholeWord DEF Tick
<1>2. /\ list = [p \in Places |-> <<>>] /\ time = 0 /\ timer_pc = "idle"
      /\ batch = <<>> /\ todo = 0 /\ fired = <<>>
  BY DEF TimerInit
<1>3. list \in [Places -> Seq(TimerNode)] /\ SlotOf(time) \in Places /\ list[SlotOf(time)] = <<>>
  BY <1>1, <1>2, PlaceInPlaces
<1>4. TimerTypeOK
  BY <1>1, <1>2, <1>3, TimerAssumption DEF TimerTypeOK, Tick
<1>5. Coming = list
  <2>1. Coming = ComingIn(list, batch, time)
    BY DEF Coming, ComingIn
  <2> QED
    BY <2>1, <1>2, <1>3, ComingIs
<1>6. \A p \in Places : Len(Coming[p]) = 0
  BY <1>2, <1>5
<1>7. Waiting(Coming, time)
  BY <1>3, <1>5, <1>6 DEF Waiting
<1>8. WheelInv
  BY <1>2, <1>3, <1>4, <1>7 DEF WheelInv
<1>9. \A f : LeftOf(f) = -1
  <2>1. \A f : ~HasNode(Coming, f)
    BY <1>6 DEF HasNode
  <2> QED
    BY <2>1, <1>7, <1>8, BarIs, LeftIs
<1>10. UNION {AheadIn(Coming[p]) : p \in Places} = {}
  <2>1. ASSUME NEW pair \in OrderIn(Coming) PROVE FALSE
    <3>1. PICK p \in Places : \E i, j \in 1 .. Len(Coming[p]) : Ordered(Coming[p], i, j, pair)
      BY <2>1, <1>3, <1>5, OrderIs
    <3> QED
      BY <3>1, <1>6
  <2> QED
    BY <2>1 DEF OrderIn
<1> QED
  BY <1>2, <1>8, <1>9, <1>10 DEF D!Init, D!Off

\* Every step of the wheel keeps the invariant and is one of the deadlines or none.
LEMMA WheelStep == WheelInv /\ [TimerNext]_timerVars => WheelInv' /\ [D!Next]_(D!vars)
<1> SUFFICES ASSUME WheelInv, [TimerNext]_timerVars PROVE WheelInv' /\ [D!Next]_(D!vars)
  OBVIOUS
<1>1. ASSUME NEW e \in Timer, TimeoutNow(e) PROVE WheelInv' /\ [D!Next]_(D!vars)
  BY <1>1, SetNowStep DEF D!Next
<1>2. ASSUME NEW e \in Timer, NEW d \in 1 .. MaxDelay[e], Timeout(e, d)
      PROVE  WheelInv' /\ [D!Next]_(D!vars)
  BY <1>2, SetStep DEF D!Next
<1>3. ASSUME UpdateTime \/ AfterShift PROVE WheelInv' /\ [D!Next]_(D!vars)
  BY <1>3, RestStep
<1>4. ASSUME BeforeShift PROVE WheelInv' /\ [D!Next]_(D!vars)
  BY <1>4, TickStep DEF D!Next
<1>5. ASSUME DispatchList PROVE WheelInv' /\ [D!Next]_(D!vars)
  BY <1>5, GoOffStep DEF D!Next
<1>6. ASSUME UNCHANGED timerVars PROVE WheelInv' /\ [D!Next]_(D!vars)
  <2>1. UNCHANGED <<list, time, timer_pc, batch, todo, fired>>
    BY <1>6 DEF timerVars
  <2>2. Coming' = Coming /\ SlotOf(time)' = SlotOf(time) /\ TimerTypeOK'
    BY <2>1 DEF Coming, SlotOf, WheelInv, TimerTypeOK
  <2>3. WheelInv'
    BY <2>1, <2>2 DEF WheelInv
  <2>4. \A f : LeftOf(f)' = LeftOf(f)
    BY <2>1, <2>2, BarIs
  <2>5. (UNION {AheadIn(Coming[p]) : p \in Places})' = UNION {AheadIn(Coming[p]) : p \in Places}
    BY <2>2
  <2>6. UNCHANGED D!vars
    BY <2>1, <2>4, <2>5 DEF D!vars
  <2> QED
    BY <2>3, <2>6
<1> QED
  BY <1>1, <1>2, <1>3, <1>4, <1>5, <1>6 DEF TimerNext

\* The invariant has the property of the runs.
LEMMA WheelInPlace == WheelInv => TimersInPlace
<1> SUFFICES ASSUME WheelInv PROVE TimersInPlace
  OBVIOUS
<1>1. /\ list \in [Places -> Seq(TimerNode)] /\ batch \in Seq(TimerNode)
      /\ Coming = ComingIn(list, batch, time) /\ list[SlotOf(time)] = <<>> /\ Waiting(Coming, time)
  BY WheelState DEF WheelInv
<1>2. \A p \in Places : Coming[p] = IF p = SlotOf(time) THEN batch ELSE list[p]
  BY ComingNow
<1>3. ASSUME NEW p \in Places, NEW i \in DOMAIN list[p]
      PROVE  p = Place(list[p][i].expire, time)
  <2>1. p # SlotOf(time) /\ Coming[p] = list[p] /\ i \in 1 .. Len(Coming[p])
    BY <1>1, <1>2
  <2> QED
    BY <2>1, <1>1 DEF Waiting
<1>4. InPlace
  BY <1>3 DEF InPlace
<1>5. NothingDueAtRest
  BY <1>1 DEF WheelInv, TimerTypeOK, NothingDueAtRest
<1> QED
  BY <1>4, <1>5 DEF TimersInPlace, WheelInv

\* A node is at any moment in the list into which add_node would put it then, though
\* timer_shift moves one slot of one level at a tick, and the timer_execute before the
\* shift finds none.
THEOREM TimersFound == TimerSpec => []TimersInPlace
<1>1. WheelInv /\ [TimerNext]_timerVars => WheelInv'
  BY WheelStep
<1>2. TimerInit => WheelInv
  BY WheelInit
<1> QED
  BY <1>1, <1>2, WheelInPlace, PTL DEF TimerSpec

\* Every timer goes off at its tick and those of one tick in the order in which they were
\* set, across every move of timer_shift between levels and the wrap of the clock.
THEOREM TimersKeepTime == TimerInit /\ [][TimerNext]_timerVars => ImplementsDeadlines
<1>1. TimerInit => WheelInv /\ D!Init
  BY WheelInit
<1>2. WheelInv /\ [TimerNext]_timerVars => WheelInv' /\ [D!Next]_(D!vars)
  BY WheelStep
<1> QED
  BY <1>1, <1>2, PTL DEF ImplementsDeadlines, D!Spec
-----------------------------------------------------------------------------
(* mtask_monitor.c: the monitor reads the words while the worker writes.   *)

\* What the worker notes is what it calls, so the handle that mtask_monitor_check reads
\* for mtask_context_endless is that of the callback of that moment, if any.
NotesCall == destination = callee

\* The destination is written with the call and cleared with its return.
LEMMA MonitorStep == NotesCall /\ [MonitorNext]_monitorVars => NotesCall'
<1> SUFFICES ASSUME NotesCall, [MonitorNext]_monitorVars PROVE NotesCall'
  OBVIOUS
<1> USE DEF NotesCall
<1>1. ASSUME NEW h \in Ctx, Enter(h) PROVE NotesCall'
  BY <1>1 DEF Enter
<1>2. CASE Entered
  BY <1>2 DEF Entered
<1>3. CASE Exit
  BY <1>3 DEF Exit
<1>4. CASE Exited
  BY <1>4 DEF Exited
<1>5. CASE Endless
  BY <1>5 DEF Endless, worker
<1>6. CASE MonitorThread
  BY <1>6 DEF MonitorThread, Check, Changed, Same, Report, worker
<1>7. CASE UNCHANGED monitorVars
  BY <1>7 DEF monitorVars, worker
<1> QED
  BY <1>1, <1>2, <1>3, <1>4, <1>5, <1>6, <1>7 DEF MonitorNext

\* Only mtask_context_endless marks a service, and the one that is called.
LEMMA MarksCallee ==
  ASSUME NotesCall, [MonitorNext]_monitorVars
  PROVE  \A h \in endless' \ endless : callee = h
<1>1. CASE Report
  BY <1>1 DEF Report, NotesCall
<1>2. CASE ~Report
  <2>1. endless' \subseteq endless
    BY <1>2 DEF MonitorNext, MonitorThread, Enter, Entered, Exit, Exited, Endless, Check, Changed,
                Same, monitor, monitorVars
  <2> QED
    BY <2>1
<1> QED
  BY <1>1, <1>2

\* A service that has returned is not marked, at whatever moments the monitor thread reads
\* the words, though the count that it compared may be that of an earlier call.
THEOREM MarksTheCurrent == MonitorInit /\ [][MonitorNext]_monitorVars => ReportIsCurrent
<1>1. MonitorInit => NotesCall
  BY DEF MonitorInit, NotesCall
<1>2. NotesCall /\ [MonitorNext]_monitorVars => NotesCall'
  BY MonitorStep
<1>3. NotesCall /\ [MonitorNext]_monitorVars
      => [\A h \in endless' \ endless : callee = h]_monitorVars
  BY MarksCallee
<1> QED
  BY <1>1, <1>2, <1>3, PTL DEF ReportIsCurrent
=============================================================================
