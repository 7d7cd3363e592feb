-------------------------- MODULE CoordinationProofs --------------------------
(***************************************************************************)
(* Machine-checked proofs about coroutines and nodes that wait for each    *)
(* other: critical sections, the service manager and the nodes of a        *)
(* network.                                                                *)
(***************************************************************************)
EXTENDS CriticalSection, ServiceMgr, Slaves, FiniteSetTheorems, TLAPS
-----------------------------------------------------------------------------
(* mtask.queue.                                                            *)

TurnTypeOK ==
  /\ current_thread \in Thread \cup {Nobody} /\ ref \in Nat
  /\ thread_queue \in Seq(Thread) /\ came \in Seq(Thread) /\ entered \in Seq(Thread)
  /\ thread_state \in [Thread -> {"out", "in", "waiting", "woken"}]

\* The one that is inside or on its way in is current, and calls nest from the first on.
CurrentIsIn ==
  /\ \A t \in Thread : thread_state[t] \in {"in", "woken"} <=> current_thread = t
  /\ \A t \in Thread : current_thread = t => (thread_state[t] = "in" <=> ref > 0)
  /\ current_thread = Nobody => ref = 0

\* Those in the queue wait, each once.
QueueWaits ==
  /\ \A i \in DOMAIN thread_queue : thread_state[thread_queue[i]] = "waiting"
  /\ \A i, j \in DOMAIN thread_queue : thread_queue[i] = thread_queue[j] => i = j

\* Those that had to wait are those that went on, the one that was woken and the queue.
WokenNext ==
  IF current_thread # Nobody /\ thread_state[current_thread] = "woken" THEN <<current_thread>> ELSE <<>>
CameInTurn == came = entered \o WokenNext \o thread_queue

TurnInv == TurnTypeOK /\ CurrentIsIn /\ QueueWaits /\ CameInTurn
-----------------------------------------------------------------------------
(* The service manager.                                                    *)

MgrTypeOK ==
  /\ service \in [Remote \cup {SERVICE} -> {"nil", "table"} \cup Reply]
  /\ launch \in [Remote \cup {SERVICE} -> BOOLEAN]
  /\ waiting \in [Remote \cup {SERVICE} -> Seq(Asker)]
  /\ asking \in [Asker -> {"idle", "asked", "requests", "waits", "woken"} \cup Reply]
  /\ launched \in Nat

\* While one coroutine requests, its manager has launch set and others wait in the table.
OneRequests ==
  /\ \A m \in Remote \cup {SERVICE} : launch[m] => service[m] = "table"
  /\ \A a \in Asker : asking[a] = "requests" => launch[Asked(a)]
  /\ \A a, b \in Asker : {asking[a], asking[b]} = {"requests"} /\ Asked(a) = Asked(b) => a = b
  /\ \A m \in Remote : ~launch[m] => asking[m] \in {"idle"} \cup Reply
  /\ \A m \in Remote \cup {SERVICE} : \A i \in DOMAIN waiting[m] :
       asking[waiting[m][i]] = "waits" /\ Asked(waiting[m][i]) = m

\* The entry of the global manager, once it is an answer, is the answer of all.
OneAnswer ==
  /\ launched = IF launch[SERVICE] \/ service[SERVICE] \in Reply THEN 1 ELSE 0
  /\ \A m \in Remote : service[m] \in Reply => service[m] = service[SERVICE]
  /\ \A a \in Asker : asking[a] \in Reply => asking[a] = service[SERVICE]
  /\ \A a \in Asker : asking[a] = "woken" =>
       /\ service[SERVICE] \in Reply
       /\ service[SERVICE] = "handle" => service[Asked(a)] = "handle"

MgrInv == MgrTypeOK /\ OneRequests /\ OneAnswer
-----------------------------------------------------------------------------
(* The nodes of a network.                                                 *)

MasterMessage == [type : {"W", "C", "D"}, of : Slave]

SlaveTypeOK ==
  /\ slave_node \in [Slave -> {"none", "up", "down"}]
  /\ toSlave \in [Slave -> Seq(MasterMessage)]
  /\ counted \in [Slave -> SUBSET Slave]
  /\ slaves \in [Slave -> [Slave -> {"nil", "fd", "false"}]]
  /\ connect_queue \in [Slave -> SUBSET Slave]
  /\ opening \in [Slave -> SUBSET (Slave \X {"master", "ready"})]
  /\ backlog \subseteq Slave \X Slave /\ links \subseteq Slave \X Slave

\* What the master told says C of a node, once.
Tells(list, b) == \E i \in DOMAIN list : list[i] = Message("C", b)
TellsOnce(list) == \A i, j \in DOMAIN list : list[i] = list[j] /\ list[i].type = "C" => i = j

Opening(a, b) == <<b, "master">> \in opening[a] \/ <<b, "ready">> \in opening[a]
Joined(a, b) == <<a, b>> \in backlog \/ <<a, b>> \in links

\* Node a is to connect to b, in one way.
Connecting(a, b) == Tells(toSlave[a], b) \/ b \in connect_queue[a] \/ Opening(a, b) \/ Joined(a, b)
ConnectsOnce(a, b) ==
  /\ Tells(toSlave[a], b) => b \notin connect_queue[a] /\ ~Opening(a, b) /\ ~Joined(a, b)
  /\ b \in connect_queue[a] => ~Opening(a, b) /\ ~Joined(a, b)
  /\ Opening(a, b) => ~Joined(a, b)
  /\ ~(<<b, "master">> \in opening[a] /\ <<b, "ready">> \in opening[a])
  /\ ~(<<a, b>> \in backlog /\ <<a, b>> \in links)

\* A node connects to those that were counted when the other joined.
EarlierConnects ==
  /\ \A a, b \in Slave : Connecting(a, b) => a \in counted[b]
  /\ \A a, b \in Slave : a \in counted[b] =>
       b \notin counted[a] /\ slave_node[a] # "none" /\ slave_node[b] # "none"

SlaveInv ==
  /\ SlaveTypeOK /\ EarlierConnects
  /\ \A a \in Slave : TellsOnce(toSlave[a])
  /\ \A a, b \in Slave : ConnectsOnce(a, b)
-----------------------------------------------------------------------------
(* Critical sections.                                                      *)

LEMMA TurnInitially == TurnInit => TurnInv
<1> SUFFICES ASSUME TurnInit PROVE TurnInv
  OBVIOUS
<1>1. TurnTypeOK /\ CurrentIsIn /\ QueueWaits
  BY TurnAssumption DEF TurnInit, TurnTypeOK, CurrentIsIn, QueueWaits
<1>2. CameInTurn
  BY DEF TurnInit, CameInTurn, WokenNext
<1> QED
  BY <1>1, <1>2 DEF TurnInv

\* The queue and those that came, when one more waits or the first goes on.
LEMMA FirstOfQueue ==
  ASSUME NEW s \in Seq(Thread), s # <<>>
  PROVE  /\ Head(s) \in Thread /\ Tail(s) \in Seq(Thread) /\ s = <<Head(s)>> \o Tail(s)
         /\ 1 \in DOMAIN s /\ s[1] = Head(s)
         /\ \A i \in DOMAIN Tail(s) : i + 1 \in DOMAIN s /\ i + 1 # 1 /\ Tail(s)[i] = s[i + 1]
OBVIOUS

LEMMA AppendAt ==
  ASSUME NEW s \in Seq(Thread), NEW t \in Thread
  PROVE  /\ DOMAIN Append(s, t) = 1 .. Len(s) + 1 /\ DOMAIN s = 1 .. Len(s) /\ Len(s) \in Nat
         /\ \A i \in 1 .. Len(s) + 1 : Append(s, t)[i] = IF i = Len(s) + 1 THEN t ELSE s[i]
OBVIOUS

LEMMA JoinOne ==
  ASSUME NEW s \in Seq(Thread), NEW t \in Thread
  PROVE  Append(s, t) = s \o <<t>>
OBVIOUS

LEMMA JoinNone ==
  ASSUME NEW s \in Seq(Thread)
  PROVE  s \o <<>> = s
OBVIOUS

LEMMA JoinTyped ==
  ASSUME NEW s \in Seq(Thread), NEW u \in Seq(Thread)
  PROVE  s \o u \in Seq(Thread)
OBVIOUS

LEMMA JoinAppend ==
  ASSUME NEW s \in Seq(Thread), NEW u \in Seq(Thread), NEW t \in Thread
  PROVE  Append(s \o u, t) = s \o Append(u, t)
OBVIOUS

LEMMA JoinThree ==
  ASSUME NEW s \in Seq(Thread), NEW u \in Seq(Thread), NEW v \in Seq(Thread)
  PROVE  (s \o u) \o v = s \o (u \o v)
OBVIOUS

LEMMA QueueKeeps ==
  ASSUME TurnInv, NEW t \in Thread, Queue(t)
  PROVE  TurnInv'
<1>1. /\ thread_queue \in Seq(Thread) /\ came \in Seq(Thread) /\ entered \in Seq(Thread)
      /\ thread_state \in [Thread -> {"out", "in", "waiting", "woken"}]
      /\ current_thread \in Thread \cup {Nobody} /\ ref \in Nat
  BY DEF TurnInv, TurnTypeOK
<1>2. /\ thread_state[t] = "out" /\ thread_queue' = Append(thread_queue, t)
      /\ thread_state' = [thread_state EXCEPT ![t] = "waiting"]
      /\ came' = Append(came, t) /\ UNCHANGED <<current_thread, ref, entered>>
  BY DEF Queue, Goto
<1>3. TurnTypeOK'
  BY <1>1, <1>2 DEF TurnTypeOK
<1>4. CurrentIsIn'
  BY <1>1, <1>2 DEF TurnInv, CurrentIsIn
<1>5. QueueWaits'
  <2>1. \A i \in DOMAIN thread_queue : thread_queue[i] # t
    BY <1>2 DEF TurnInv, QueueWaits
  <2>2. \A i \in DOMAIN thread_queue' :
          \/ i \in DOMAIN thread_queue /\ thread_queue'[i] = thread_queue[i]
          \/ i = Len(thread_queue) + 1 /\ thread_queue'[i] = t
    BY <1>1, <1>2, AppendAt
  <2> QED
    BY <1>1, <1>2, <2>1, <2>2 DEF TurnInv, QueueWaits
<1>6. CameInTurn'
  <2>1. WokenNext' = WokenNext /\ WokenNext \in Seq(Thread)
    BY <1>1, <1>2 DEF WokenNext
  <2>2. came = (entered \o WokenNext) \o thread_queue
    BY DEF TurnInv, CameInTurn
  <2>3. entered \o WokenNext \in Seq(Thread)
    BY <1>1, <2>1, JoinTyped
  <2>4. Append((entered \o WokenNext) \o thread_queue, t) = (entered \o WokenNext) \o Append(thread_queue, t)
    <3> HIDE DEF WokenNext
    <3> QED
      BY <1>1, <2>3, JoinAppend
  <2> QED
    BY <1>2, <2>1, <2>2, <2>4 DEF CameInTurn
<1> QED
  BY <1>3, <1>4, <1>5, <1>6 DEF TurnInv

LEMMA EnterKeeps ==
  ASSUME TurnInv, NEW t \in Thread, Enter(t)
  PROVE  TurnInv'
<1>1. /\ thread_state \in [Thread -> {"out", "in", "waiting", "woken"}]
      /\ current_thread \in Thread \cup {Nobody} /\ ref \in Nat /\ Nobody \notin Thread
      /\ thread_queue \in Seq(Thread)
  BY TurnAssumption DEF TurnInv, TurnTypeOK
<1>2. /\ thread_state[t] \in {"out", "in"} /\ current_thread \in {Nobody, t}
      /\ current_thread' = t /\ ref' = ref + 1 /\ thread_state' = [thread_state EXCEPT ![t] = "in"]
      /\ UNCHANGED <<thread_queue, came, entered>>
  BY DEF Enter, Busy, Goto
<1>3. TurnTypeOK'
  BY <1>1, <1>2 DEF TurnInv, TurnTypeOK
<1>4. CurrentIsIn'
  BY <1>1, <1>2 DEF TurnInv, CurrentIsIn
<1>5. QueueWaits'
  BY <1>1, <1>2 DEF TurnInv, QueueWaits
<1>6. WokenNext' = WokenNext
  BY <1>1, <1>2 DEF WokenNext
<1> QED
  BY <1>2, <1>3, <1>4, <1>5, <1>6 DEF TurnInv, CameInTurn

LEMMA WaitReturnsKeeps ==
  ASSUME TurnInv, NEW t \in Thread, WaitReturns(t)
  PROVE  TurnInv'
<1>1. /\ thread_state \in [Thread -> {"out", "in", "waiting", "woken"}]
      /\ current_thread \in Thread \cup {Nobody} /\ ref \in Nat /\ Nobody \notin Thread
      /\ thread_queue \in Seq(Thread) /\ entered \in Seq(Thread)
  BY TurnAssumption DEF TurnInv, TurnTypeOK
<1>2. /\ thread_state[t] = "woken"
      /\ current_thread' = t /\ ref' = ref + 1 /\ thread_state' = [thread_state EXCEPT ![t] = "in"]
      /\ entered' = Append(entered, t) /\ UNCHANGED <<thread_queue, came>>
  BY DEF WaitReturns, Goto
<1>3. current_thread = t
  BY <1>2 DEF TurnInv, CurrentIsIn
<1>4. TurnTypeOK'
  BY <1>1, <1>2 DEF TurnInv, TurnTypeOK
<1>5. CurrentIsIn'
  BY <1>1, <1>2, <1>3 DEF TurnInv, CurrentIsIn
<1>6. QueueWaits'
  BY <1>1, <1>2 DEF TurnInv, QueueWaits
<1>7. WokenNext = <<t>> /\ WokenNext' = <<>>
  BY <1>1, <1>2, <1>3 DEF WokenNext
<1>8. CameInTurn'
  <2>1. came = (entered \o <<t>>) \o thread_queue
    BY <1>7 DEF TurnInv, CameInTurn
  <2>2. Append(entered, t) = entered \o <<t>> /\ Append(entered, t) \o <<>> = Append(entered, t)
    <3>1. Append(entered, t) \in Seq(Thread)
      BY <1>1
    <3> QED
      BY <1>1, <3>1, JoinOne, JoinNone
  <2> QED
    BY <1>2, <1>7, <2>1, <2>2 DEF CameInTurn
<1> QED
  BY <1>4, <1>5, <1>6, <1>8 DEF TurnInv

LEMMA LeaveKeeps ==
  ASSUME TurnInv, NEW t \in Thread, Leave(t)
  PROVE  TurnInv'
<1>1. /\ thread_state \in [Thread -> {"out", "in", "waiting", "woken"}]
      /\ current_thread \in Thread \cup {Nobody} /\ ref \in Nat /\ Nobody \notin Thread
      /\ thread_queue \in Seq(Thread) /\ entered \in Seq(Thread) /\ came \in Seq(Thread)
  BY TurnAssumption DEF TurnInv, TurnTypeOK
<1>2. /\ thread_state[t] = "in" /\ ref' = ref - 1 /\ UNCHANGED <<came, entered>>
  BY DEF Leave
<1>3. current_thread = t /\ ref > 0 /\ WokenNext = <<>>
  BY <1>1, <1>2 DEF TurnInv, CurrentIsIn, WokenNext
<1>4. CASE ref > 1
  <2>1. UNCHANGED <<current_thread, thread_queue, thread_state>>
    BY <1>4 DEF Leave
  <2>2. WokenNext' = WokenNext
    BY <2>1 DEF WokenNext
  <2>3. TurnTypeOK'
    BY <1>1, <1>2, <1>4, <2>1 DEF TurnInv, TurnTypeOK
  <2>4. CurrentIsIn'
    BY <1>1, <1>2, <1>3, <1>4, <2>1 DEF TurnInv, CurrentIsIn
  <2>5. QueueWaits' /\ CameInTurn'
    BY <1>2, <2>1, <2>2 DEF TurnInv, QueueWaits, CameInTurn
  <2> QED
    BY <2>3, <2>4, <2>5 DEF TurnInv
<1>5. CASE ~(ref > 1) /\ thread_queue = <<>>
  <2>1. /\ current_thread' = Nobody /\ thread_state' = [thread_state EXCEPT ![t] = "out"]
        /\ thread_queue' = thread_queue
    BY <1>5 DEF Leave, Goto
  <2>2. WokenNext' = WokenNext
    BY <1>3, <2>1 DEF WokenNext
  <2>3. TurnTypeOK'
    BY <1>1, <1>2, <1>3, <2>1 DEF TurnInv, TurnTypeOK
  <2>4. CurrentIsIn'
    BY <1>1, <1>2, <1>3, <1>5, <2>1 DEF TurnInv, CurrentIsIn
  <2>5. QueueWaits' /\ CameInTurn'
    BY <1>2, <1>5, <2>1, <2>2 DEF TurnInv, QueueWaits, CameInTurn
  <2> QED
    BY <2>3, <2>4, <2>5 DEF TurnInv
<1>6. CASE ~(ref > 1) /\ thread_queue # <<>>
  <2> DEFINE h == Head(thread_queue)
             r == Tail(thread_queue)
  <2>1. /\ current_thread' = h /\ thread_queue' = r
        /\ thread_state' = [thread_state EXCEPT ![t] = "out", ![h] = "woken"]
    BY <1>6 DEF Leave
  <2>2. /\ h \in Thread /\ r \in Seq(Thread) /\ thread_queue = <<h>> \o r
        /\ 1 \in DOMAIN thread_queue /\ thread_queue[1] = h
        /\ \A i \in DOMAIN r : i + 1 \in DOMAIN thread_queue /\ i + 1 # 1 /\ r[i] = thread_queue[i + 1]
    BY <1>1, <1>6, FirstOfQueue
  <2> HIDE DEF h, r
  <2>3. thread_state[h] = "waiting" /\ h # t
    BY <1>2, <2>2 DEF TurnInv, QueueWaits
  <2>4. /\ thread_state' \in [Thread -> {"out", "in", "waiting", "woken"}]
        /\ \A u \in Thread : thread_state'[u] = IF u = h THEN "woken" ELSE IF u = t THEN "out"
                                               ELSE thread_state[u]
    BY <1>1, <2>1, <2>2, <2>3
  <2>5. TurnTypeOK'
    BY <1>1, <1>2, <1>3, <2>1, <2>2, <2>4 DEF TurnTypeOK
  <2>6. CurrentIsIn'
    BY <1>1, <1>2, <1>3, <1>6, <2>1, <2>2, <2>4 DEF TurnInv, CurrentIsIn
  <2>7. QueueWaits'
    <3>1. ASSUME NEW i \in DOMAIN r PROVE thread_state'[r[i]] = "waiting"
      <4>1. i + 1 \in DOMAIN thread_queue /\ i + 1 # 1 /\ r[i] = thread_queue[i + 1] /\ r[i] \in Thread
        BY <2>2
      <4>2. thread_state[r[i]] = "waiting" /\ r[i] # h
        BY <2>2, <4>1 DEF TurnInv, QueueWaits
      <4> QED
        BY <1>2, <2>4, <4>1, <4>2
    <3>2. ASSUME NEW i \in DOMAIN r, NEW j \in DOMAIN r, r[i] = r[j] PROVE i = j
      <4>1. i + 1 = j + 1
        BY <2>2, <3>2 DEF TurnInv, QueueWaits
      <4>2. i \in Nat /\ j \in Nat
        BY <2>2
      <4> QED
        BY <4>1, <4>2
    <3> QED
      BY <2>1, <3>1, <3>2 DEF QueueWaits
  <2>8. CameInTurn'
    <3>1. WokenNext' = <<h>>
      BY <1>1, <2>1, <2>2, <2>4 DEF WokenNext
    <3>2. came = (entered \o <<>>) \o (<<h>> \o r)
      BY <1>3, <2>2 DEF TurnInv, CameInTurn
    <3>3. entered \o <<>> = entered /\ (entered \o <<h>>) \o r = entered \o (<<h>> \o r)
      <4>1. <<h>> \in Seq(Thread)
        BY <2>2
      <4> QED
        BY <1>1, <2>2, <4>1, JoinNone, JoinThree
    <3> QED
      BY <1>2, <2>1, <3>1, <3>2, <3>3 DEF CameInTurn
  <2> QED
    BY <2>5, <2>6, <2>7, <2>8 DEF TurnInv
<1> QED
  BY <1>4, <1>5, <1>6

LEMMA TurnStep_Keeps == TurnInv /\ [TurnNext]_csVars => TurnInv'
<1> SUFFICES ASSUME TurnInv, [TurnNext]_csVars PROVE TurnInv'
  OBVIOUS
<1>1. CASE UNCHANGED csVars
  BY <1>1 DEF csVars, TurnInv, TurnTypeOK, CurrentIsIn, QueueWaits, CameInTurn, WokenNext
<1>2. CASE TurnNext
  BY <1>2, QueueKeeps, EnterKeeps, WaitReturnsKeeps, LeaveKeeps DEF TurnNext
<1> QED
  BY <1>1, <1>2

LEMMA TurnInvServes == TurnInv => ServesInTurn
<1> SUFFICES ASSUME TurnInv PROVE ServesInTurn
  OBVIOUS
<1>1. OneAtATime
  <2>1. ASSUME NEW t \in Thread, NEW u \in Thread, {thread_state[t], thread_state[u]} \subseteq {"in", "woken"}
        PROVE  t = u
    BY <2>1 DEF TurnInv, CurrentIsIn
  <2>2. ASSUME NEW t \in Thread, thread_state[t] = "woken" PROVE ref = 0
    BY <2>2 DEF TurnInv, TurnTypeOK, CurrentIsIn
  <2> QED
    BY <2>1, <2>2 DEF OneAtATime
<1>2. InTurn
  <2>1. entered \in Seq(Thread) /\ thread_queue \in Seq(Thread) /\ WokenNext \in Seq(Thread)
    BY DEF TurnInv, TurnTypeOK, WokenNext
  <2>2. came = (entered \o WokenNext) \o thread_queue
    BY DEF TurnInv, CameInTurn
  <2>3. ASSUME NEW s \in Seq(Thread), NEW u \in Seq(Thread), NEW v \in Seq(Thread)
        PROVE  IsPrefix(s, (s \o u) \o v)
    BY DEF IsPrefix
  <2> QED
    BY <2>1, <2>2, <2>3 DEF InTurn
<1> QED
  BY <1>1, <1>2 DEF ServesInTurn

\* Coroutines are in a critical section of mtask.queue one at a time, and those that had
\* to wait enter in the order in which they called, however deep their calls nest.
THEOREM QueueServes == TurnSpec => []ServesInTurn
<1>1. TurnInit => TurnInv
  BY TurnInitially
<1>2. TurnInv /\ [TurnNext]_csVars => TurnInv'
  BY TurnStep_Keeps
<1>3. TurnInv => ServesInTurn
  BY TurnInvServes
<1> QED
  BY <1>1, <1>2, <1>3, PTL DEF TurnSpec

-----------------------------------------------------------------------------
(* The service manager.                                                    *)

LEMMA WhoIsAsked ==
  /\ \A a \in Asker : Asked(a) \in Remote \cup {SERVICE}
  /\ \A a \in Asker : Asked(a) \in Remote => a \notin Remote /\ Asked(a) # a /\ Asked(a) \in Asker
  /\ SERVICE \notin Asker
BY ManagerAssumption DEF Asked, Asker

LEMMA MgrInitially == MgrInit => MgrInv
<1> SUFFICES ASSUME MgrInit PROVE MgrInv
  OBVIOUS
<1>1. MgrTypeOK
  BY DEF MgrInit, MgrTypeOK
<1>2. OneRequests
  BY WhoIsAsked DEF MgrInit, OneRequests, Asker
<1>3. OneAnswer
  BY DEF MgrInit, OneAnswer, Reply
<1> QED
  BY <1>1, <1>2, <1>3 DEF MgrInv

LEMMA AskKeeps ==
  ASSUME MgrInv, NEW c \in Client, NEW what \in {"LAUNCH", "QUERY"}, Ask(c, what)
  PROVE  MgrInv'
<1>1. /\ c \in Asker /\ c \notin Remote /\ asking[c] = "idle" /\ asking' = [asking EXCEPT ![c] = "asked"]
      /\ asking \in [Asker -> {"idle", "asked", "requests", "waits", "woken"} \cup Reply]
      /\ UNCHANGED <<service, launch, waiting, launched>>
  BY ManagerAssumption DEF Ask, Asker, MgrInv, MgrTypeOK
<1>2. MgrTypeOK'
  BY <1>1 DEF MgrInv, MgrTypeOK
<1>3. OneRequests'
  <2>1. \A m \in Remote : m \in Asker /\ m # c
    BY <1>1 DEF Asker
  <2>2. \A m \in Remote \cup {SERVICE} : \A i \in DOMAIN waiting[m] : waiting[m][i] \in Asker
    BY DEF MgrInv, MgrTypeOK
  <2> QED
    BY <1>1, <2>1, <2>2 DEF MgrInv, OneRequests
<1>4. OneAnswer'
  BY <1>1 DEF MgrInv, OneAnswer, Reply
<1> QED
  BY <1>2, <1>3, <1>4 DEF MgrInv

\* What a state of the manager says about one that asks it.
LEMMA MgrTyped ==
  ASSUME MgrInv
  PROVE  /\ service \in [Remote \cup {SERVICE} -> {"nil", "table"} \cup Reply]
         /\ launch \in [Remote \cup {SERVICE} -> BOOLEAN]
         /\ waiting \in [Remote \cup {SERVICE} -> Seq(Asker)]
         /\ asking \in [Asker -> {"idle", "asked", "requests", "waits", "woken"} \cup Reply]
         /\ launched \in Nat
         /\ \A m \in Remote : m \in Asker /\ (asking[m] \in {"asked", "requests", "waits", "woken"} => launch[m])
         /\ \A m \in Remote \cup {SERVICE} : \A i \in DOMAIN waiting[m] : waiting[m][i] \in Asker
<1>1. \A m \in Remote : asking[m] \in {"asked", "requests", "waits", "woken"} => launch[m]
  BY DEF MgrInv, OneRequests, Reply
<1> QED
  BY <1>1 DEF MgrInv, MgrTypeOK, Asker

LEMMA KnownKeeps ==
  ASSUME MgrInv, NEW a \in Asker, Known(a)
  PROVE  MgrInv'
<1> DEFINE m == Asked(a)
<1>1. /\ asking[a] = "asked" /\ service[m] \in Reply /\ asking' = [asking EXCEPT ![a] = service[m]]
      /\ UNCHANGED <<service, launch, waiting, launched>> /\ m \in Remote \cup {SERVICE}
  BY WhoIsAsked DEF Known
<1> HIDE DEF m
<1>2. MgrTypeOK'
  BY <1>1 DEF MgrInv, MgrTypeOK
<1>3. OneRequests'
  <2>1. /\ \A b \in Asker : asking'[b] = IF b = a THEN service[m] ELSE asking[b]
        /\ service[m] \notin {"requests", "waits"}
    BY <1>1, MgrTyped DEF Reply
  <2>2. \A x \in Remote \cup {SERVICE} : \A i \in DOMAIN waiting'[x] :
          asking'[waiting'[x][i]] = "waits" /\ Asked(waiting'[x][i]) = x
    BY <1>1, <2>1, MgrTyped DEF MgrInv, OneRequests
  <2>3. \A x \in Remote : ~launch'[x] => asking'[x] \in {"idle"} \cup Reply
    BY <1>1, <2>1, MgrTyped DEF MgrInv, OneRequests
  <2>4. \A b \in Asker : asking'[b] = "requests" => asking[b] = "requests"
    BY <2>1
  <2> QED
    BY <1>1, <2>2, <2>3, <2>4 DEF MgrInv, OneRequests
<1>4. OneAnswer'
  <2>1. \A b \in Asker : asking'[b] = IF b = a THEN service[m] ELSE asking[b]
    BY <1>1, MgrTyped
  <2>2. service[m] = service[SERVICE]
    BY <1>1 DEF MgrInv, OneAnswer
  <2> QED
    BY <1>1, <2>1, <2>2 DEF MgrInv, OneAnswer, Reply
<1> QED
  BY <1>2, <1>3, <1>4 DEF MgrInv

LEMMA RunKeeps ==
  ASSUME MgrInv, NEW a \in Asker, Run(a)
  PROVE  MgrInv'
<1> DEFINE m == Asked(a)
<1>1. /\ asking[a] = "asked" /\ service[m] \in {"nil", "table"} /\ ~launch[m]
      /\ service' = [service EXCEPT ![m] = "table"] /\ launch' = [launch EXCEPT ![m] = TRUE]
      /\ UNCHANGED waiting /\ m \in Remote \cup {SERVICE}
      /\ m \in Remote => a \notin Remote /\ m # a /\ m \in Asker
      /\ m = SERVICE => launched' = launched + 1 /\ asking' = [asking EXCEPT ![a] = "requests"]
      /\ m # SERVICE => launched' = launched /\ asking' = [asking EXCEPT ![a] = "requests", ![m] = "asked"]
  BY WhoIsAsked DEF Run, Launches, Open
<1> HIDE DEF m
<1>2. m # SERVICE => asking[m] \in {"idle"} \cup Reply
  BY <1>1 DEF MgrInv, OneRequests
<1>3. \A b \in Asker : asking'[b] = IF b = a THEN "requests"
                                   ELSE IF b = m THEN "asked" ELSE asking[b]
  BY <1>1, MgrTyped, WhoIsAsked
<1>4. /\ \A x \in Remote \cup {SERVICE} : launch'[x] = IF x = m THEN TRUE ELSE launch[x]
      /\ \A x \in Remote \cup {SERVICE} : service'[x] = IF x = m THEN "table" ELSE service[x]
  BY <1>1, MgrTyped
<1>5. MgrTypeOK'
  BY <1>1, <1>3, MgrTyped DEF MgrTypeOK
<1>6. OneRequests'
  <2>1. \A x \in Remote \cup {SERVICE} : launch'[x] => service'[x] = "table"
    BY <1>4 DEF MgrInv, OneRequests
  <2>2. \A b \in Asker : asking'[b] = "requests" => b = a \/ (asking[b] = "requests" /\ Asked(b) # m)
    BY <1>1, <1>3 DEF MgrInv, OneRequests
  <2>3. \A b \in Asker : asking'[b] = "requests" => launch'[Asked(b)]
    <3>1. \A b \in Asker : asking[b] = "requests" => launch[Asked(b)]
      BY DEF MgrInv, OneRequests
    <3>2. Asked(a) = m
      BY DEF m
    <3> QED
      BY <1>4, <2>2, <3>1, <3>2, WhoIsAsked
  <2>4. \A b, c \in Asker : {asking'[b], asking'[c]} = {"requests"} /\ Asked(b) = Asked(c) => b = c
    BY <2>2 DEF MgrInv, OneRequests, m
  <2>5. \A x \in Remote : ~launch'[x] => asking'[x] \in {"idle"} \cup Reply
    <3>1. \A x \in Remote : x \in Asker /\ (asking[x] = "asked" => launch[x])
      BY MgrTyped
    <3>2. \A x \in Remote : ~launch[x] => asking[x] \in {"idle"} \cup Reply
      BY DEF MgrInv, OneRequests
    <3> QED
      BY <1>1, <1>3, <1>4, <3>1, <3>2
  <2>6. \A x \in Remote \cup {SERVICE} : \A i \in DOMAIN waiting'[x] :
          asking'[waiting'[x][i]] = "waits" /\ Asked(waiting'[x][i]) = x
    <3>1. ASSUME NEW x \in Remote \cup {SERVICE}, NEW i \in DOMAIN waiting[x]
          PROVE  waiting[x][i] # a /\ (m # SERVICE => waiting[x][i] # m)
      BY <1>1, <1>2 DEF MgrInv, OneRequests, Reply
    <3> SUFFICES ASSUME NEW x \in Remote \cup {SERVICE}, NEW i \in DOMAIN waiting[x]
                 PROVE  asking'[waiting[x][i]] = "waits" /\ Asked(waiting[x][i]) = x
      BY <1>1
    <3>2. waiting[x][i] \in Asker /\ SERVICE \notin Asker
      BY WhoIsAsked, MgrTyped
    <3>3. asking[waiting[x][i]] = "waits" /\ Asked(waiting[x][i]) = x
      BY DEF MgrInv, OneRequests
    <3> QED
      BY <1>3, <3>1, <3>2, <3>3
  <2> QED
    BY <2>1, <2>3, <2>4, <2>5, <2>6 DEF OneRequests
<1>7. OneAnswer'
  <2>1. /\ \A b \in Asker : asking'[b] \in Reply => asking[b] \in Reply /\ asking'[b] = asking[b]
        /\ \A b \in Asker : asking'[b] = "woken" => asking[b] = "woken"
    BY <1>3 DEF Reply
  <2>2. CASE m = SERVICE
    <3>1. service[SERVICE] \notin Reply /\ ~launch[SERVICE] /\ launched = 0 /\ launched' = 1
      BY <1>1, <2>2 DEF MgrInv, OneAnswer, Reply
    <3>2. /\ \A b \in Asker : asking[b] \notin Reply \cup {"woken"}
          /\ \A x \in Remote : service'[x] = service[x] /\ service[x] \notin Reply
      BY <1>4, <2>2, <3>1, ManagerAssumption DEF MgrInv, OneAnswer
    <3>3. \A b \in Asker : asking'[b] \notin Reply \cup {"woken"}
      BY <2>1, <3>2
    <3> QED
      BY <1>4, <2>2, <3>1, <3>2, <3>3 DEF OneAnswer
  <2>3. CASE m # SERVICE
    <3>1. service'[SERVICE] = service[SERVICE] /\ launch'[SERVICE] = launch[SERVICE] /\ launched' = launched
      <4>1. SERVICE \in Remote \cup {SERVICE}
        OBVIOUS
      <4> QED
        BY <1>1, <1>4, <2>3, <4>1
    <3>2. \A x \in Remote : service'[x] \in Reply => service'[x] = service[x]
      BY <1>4 DEF Reply
    <3>3. \A b \in Asker : service[Asked(b)] = "handle" => service'[Asked(b)] = "handle"
      BY <1>1, <1>4, WhoIsAsked
    <3> QED
      BY <2>1, <3>1, <3>2, <3>3 DEF MgrInv, OneAnswer
  <2> QED
    BY <2>2, <2>3
<1> QED
  BY <1>5, <1>6, <1>7 DEF MgrInv

LEMMA WaitKeeps ==
  ASSUME MgrInv, NEW a \in Asker, Wait(a)
  PROVE  MgrInv'
<1> DEFINE m == Asked(a)
<1>1. /\ asking[a] = "asked" /\ service[m] \in {"nil", "table"}
      /\ service' = [service EXCEPT ![m] = "table"]
      /\ waiting' = [waiting EXCEPT ![m] = Append(waiting[m], a)]
      /\ asking' = [asking EXCEPT ![a] = "waits"]
      /\ UNCHANGED <<launch, launched>> /\ m \in Remote \cup {SERVICE}
  BY WhoIsAsked DEF Wait, Open
<1> HIDE DEF m
<1>2. /\ \A b \in Asker : asking'[b] = IF b = a THEN "waits" ELSE asking[b]
      /\ \A x \in Remote \cup {SERVICE} : service'[x] = IF x = m THEN "table" ELSE service[x]
  BY <1>1, MgrTyped
<1>3. MgrTypeOK'
  BY <1>1, MgrTyped DEF MgrTypeOK
<1>4. OneRequests'
  <2>1. \A x \in Remote \cup {SERVICE} : launch'[x] => service'[x] = "table"
    BY <1>1, <1>2 DEF MgrInv, OneRequests
  <2>2. \A b \in Asker : asking'[b] = "requests" => asking[b] = "requests"
    BY <1>2
  <2>3. \A x \in Remote : ~launch'[x] => asking'[x] \in {"idle"} \cup Reply
    <3>1. \A x \in Remote : x \in Asker /\ (asking[x] = "asked" => launch[x])
      BY MgrTyped
    <3>2. \A x \in Remote : ~launch[x] => asking[x] \in {"idle"} \cup Reply
      BY DEF MgrInv, OneRequests
    <3> QED
      BY <1>1, <1>2, <3>1, <3>2
  <2>4. ASSUME NEW x \in Remote \cup {SERVICE}, NEW i \in DOMAIN waiting'[x]
        PROVE  asking'[waiting'[x][i]] = "waits" /\ Asked(waiting'[x][i]) = x
    <3>1. \/ i \in DOMAIN waiting[x] /\ waiting'[x][i] = waiting[x][i]
          \/ x = m /\ waiting'[x][i] = a
      BY <1>1, MgrTyped
    <3>2. CASE i \in DOMAIN waiting[x] /\ waiting'[x][i] = waiting[x][i]
      <4>1. asking[waiting[x][i]] = "waits" /\ Asked(waiting[x][i]) = x
        BY <3>2 DEF MgrInv, OneRequests
      <4>2. waiting[x][i] \in Asker
        BY <3>2, MgrTyped
      <4> QED
        BY <1>2, <3>2, <4>1, <4>2
    <3>3. CASE x = m /\ waiting'[x][i] = a
      BY <1>2, <3>3 DEF m
    <3> QED
      BY <3>1, <3>2, <3>3
  <2>5. \A b \in Asker : asking'[b] = "requests" => launch'[Asked(b)]
    BY <1>1, <2>2 DEF MgrInv, OneRequests
  <2>6. \A b, c \in Asker : {asking'[b], asking'[c]} = {"requests"} /\ Asked(b) = Asked(c) => b = c
    BY <2>2 DEF MgrInv, OneRequests
  <2> QED
    BY <2>1, <2>3, <2>4, <2>5, <2>6 DEF OneRequests
<1>5. OneAnswer'
  <2>1. /\ \A b \in Asker : asking'[b] \in Reply => asking'[b] = asking[b]
        /\ \A b \in Asker : asking'[b] = "woken" => asking[b] = "woken"
        /\ \A x \in Remote \cup {SERVICE} : service'[x] \in Reply => service'[x] = service[x]
        /\ \A x \in Remote \cup {SERVICE} : service[x] \in Reply => service'[x] = service[x]
    BY <1>1, <1>2 DEF Reply
  <2>2. \A b \in Asker : service[Asked(b)] = "handle" => service'[Asked(b)] = "handle"
    BY <1>1, <1>2, WhoIsAsked
  <2>3. launched' = IF launch'[SERVICE] \/ service'[SERVICE] \in Reply THEN 1 ELSE 0
    BY <1>1, <2>1 DEF MgrInv, OneAnswer
  <2>4. \A x \in Remote : service'[x] \in Reply => service'[x] = service'[SERVICE]
    BY <2>1 DEF MgrInv, OneAnswer
  <2>5. \A b \in Asker : asking'[b] \in Reply => asking'[b] = service'[SERVICE]
    BY <2>1 DEF MgrInv, OneAnswer
  <2>6. \A b \in Asker : asking'[b] = "woken" =>
          /\ service'[SERVICE] \in Reply
          /\ service'[SERVICE] = "handle" => service'[Asked(b)] = "handle"
    BY <2>1, <2>2 DEF MgrInv, OneAnswer
  <2> QED
    BY <2>3, <2>4, <2>5, <2>6 DEF OneAnswer
<1> QED
  BY <1>3, <1>4, <1>5 DEF MgrInv

\* The end of request, with what the global manager says or has said.
LEMMA RequestKeeps ==
  ASSUME MgrInv, NEW a \in Asker, NEW how \in Reply, asking[a] = "requests", Request(a, how),
         Asked(a) # SERVICE => asking[Asked(a)] = how
  PROVE  MgrInv'
<1> DEFINE m == Asked(a)
<1>1. /\ service' = [service EXCEPT ![m] = Outcome(m, how)]
      /\ launch' = [launch EXCEPT ![m] = FALSE] /\ waiting' = [waiting EXCEPT ![m] = <<>>]
      /\ asking' = [b \in Asker |-> IF b = a THEN how
                                   ELSE IF b \in Woken(m) THEN "woken" ELSE asking[b]]
      /\ UNCHANGED launched /\ m \in Remote \cup {SERVICE} /\ (m # SERVICE => asking[m] = how)
      /\ m # SERVICE => m # a /\ m \in Asker
  BY WhoIsAsked DEF Request
<1>2. launch[m] /\ service[m] = "table"
  BY <1>1 DEF MgrInv, OneRequests
<1>3. \A b \in Asker : b \in Woken(m) => asking[b] = "waits" /\ Asked(b) = m
  <2>1. ASSUME NEW b \in Asker, b \in Woken(m) PROVE \E i \in DOMAIN waiting[m] : waiting[m][i] = b
    BY <2>1 DEF Woken, ToSet
  <2> QED
    BY <1>1, <2>1 DEF MgrInv, OneRequests
<1>4. \A b \in Asker : asking[b] = "requests" /\ Asked(b) = m => b = a
  BY DEF MgrInv, OneRequests
<1> HIDE DEF m
<1>5. /\ \A x \in Remote \cup {SERVICE} : service'[x] = IF x = m THEN Outcome(m, how) ELSE service[x]
      /\ \A x \in Remote \cup {SERVICE} : launch'[x] = (x # m /\ launch[x])
      /\ \A x \in Remote \cup {SERVICE} : x # m => waiting'[x] = waiting[x]
      /\ waiting'[m] = <<>>
      /\ \A b \in Asker : asking'[b] = IF b = a THEN how
                                      ELSE IF b \in Woken(m) THEN "woken" ELSE asking[b]
  BY <1>1, MgrTyped
<1>6. /\ Outcome(m, how) \in {"nil"} \cup Reply
      /\ Outcome(m, how) \in Reply => Outcome(m, how) = how
      /\ m = SERVICE \/ how = "handle" => Outcome(m, how) = how
  BY DEF Outcome, Reply
<1>7. MgrTypeOK'
  <2>1. service' \in [Remote \cup {SERVICE} -> {"nil", "table"} \cup Reply]
    BY <1>1, <1>6, MgrTyped
  <2>2. asking' \in [Asker -> {"idle", "asked", "requests", "waits", "woken"} \cup Reply]
    BY <1>1, MgrTyped
  <2>3. launch' \in [Remote \cup {SERVICE} -> BOOLEAN] /\ waiting' \in [Remote \cup {SERVICE} -> Seq(Asker)]
    BY <1>1, MgrTyped
  <2> QED
    BY <1>1, <2>1, <2>2, <2>3, MgrTyped DEF MgrTypeOK
<1>8. OneRequests'
  <2>1. \A x \in Remote \cup {SERVICE} : launch'[x] => service'[x] = "table"
    BY <1>5 DEF MgrInv, OneRequests
  <2>2. \A b \in Asker : asking'[b] = "requests" => asking[b] = "requests" /\ Asked(b) # m
    BY <1>4, <1>5 DEF Reply
  <2>3. \A b \in Asker : asking'[b] = "requests" => launch'[Asked(b)]
    BY <1>5, <2>2, WhoIsAsked DEF MgrInv, OneRequests
  <2>4. \A b, c \in Asker : {asking'[b], asking'[c]} = {"requests"} /\ Asked(b) = Asked(c) => b = c
    BY <2>2 DEF MgrInv, OneRequests
  <2>5. ASSUME NEW x \in Remote, ~launch'[x] PROVE asking'[x] \in {"idle"} \cup Reply
    <3>1. x \in Asker
      BY MgrTyped
    <3>2. asking[x] \in {"idle"} \cup Reply
      <4>1. CASE x = m
        BY <1>1, <4>1, ManagerAssumption
      <4>2. CASE x # m
        BY <1>5, <2>5, <4>2 DEF MgrInv, OneRequests
      <4> QED
        BY <4>1, <4>2
    <3>3. x \notin Woken(m)
      BY <1>3, <3>1, <3>2 DEF Reply
    <3> QED
      BY <1>5, <3>1, <3>2, <3>3
  <2>6. ASSUME NEW x \in Remote \cup {SERVICE}, NEW i \in DOMAIN waiting'[x]
        PROVE  asking'[waiting'[x][i]] = "waits" /\ Asked(waiting'[x][i]) = x
    <3>1. x # m /\ i \in DOMAIN waiting[x] /\ waiting'[x][i] = waiting[x][i] /\ waiting[x][i] \in Asker
      BY <1>5, <2>6, MgrTyped
    <3>2. asking[waiting[x][i]] = "waits" /\ Asked(waiting[x][i]) = x
      BY <3>1 DEF MgrInv, OneRequests
    <3>3. waiting[x][i] \notin Woken(m) /\ waiting[x][i] # a
      BY <1>3, <3>1, <3>2
    <3> QED
      BY <1>5, <3>1, <3>2, <3>3
  <2> QED
    BY <2>1, <2>3, <2>4, <2>5, <2>6 DEF OneRequests
<1>9. OneAnswer'
  <2>1. /\ \A b \in Asker : asking'[b] \in Reply => (b = a /\ asking'[b] = how) \/ asking'[b] = asking[b]
        /\ \A b \in Asker : asking'[b] = "woken" => Asked(b) = m \/ asking[b] = "woken"
    BY <1>3, <1>5 DEF Reply
  <2>2. CASE m = SERVICE
    <3>1. launched = 1 /\ service[SERVICE] \notin Reply /\ service'[SERVICE] = how
      BY <1>2, <1>5, <1>6, <2>2 DEF MgrInv, OneAnswer, Reply
    <3>2. /\ \A b \in Asker : asking[b] \notin Reply \cup {"woken"}
          /\ \A x \in Remote : service'[x] = service[x] /\ service[x] \notin Reply
      BY <1>5, <2>2, <3>1, ManagerAssumption DEF MgrInv, OneAnswer
    <3>3. \A b \in Asker : asking'[b] \in Reply => asking'[b] = how
      BY <2>1, <3>2
    <3>4. \A b \in Asker : asking'[b] = "woken" => Asked(b) = SERVICE
      BY <2>1, <2>2, <3>2
    <3> QED
      BY <1>1, <3>1, <3>2, <3>3, <3>4 DEF OneAnswer
  <2>3. CASE m # SERVICE
    <3>1. /\ service'[SERVICE] = service[SERVICE] /\ launch'[SERVICE] = launch[SERVICE] /\ launched' = launched
          /\ how = service[SERVICE]
      <4>1. SERVICE \in Remote \cup {SERVICE} /\ SERVICE # m
        BY <2>3
      <4>2. how = service[SERVICE]
        BY <1>1, <2>3 DEF MgrInv, OneAnswer
      <4> QED
        BY <1>1, <1>5, <4>1, <4>2
    <3>2. \A x \in Remote : service'[x] \in Reply => service'[x] = service[SERVICE]
      BY <1>5, <1>6, <3>1 DEF MgrInv, OneAnswer
    <3>3. \A b \in Asker : asking'[b] \in Reply => asking'[b] = service[SERVICE]
      BY <2>1, <3>1 DEF MgrInv, OneAnswer
    <3>4. ASSUME NEW b \in Asker, asking'[b] = "woken", service[SERVICE] = "handle"
          PROVE  service'[Asked(b)] = "handle"
      <4>1. CASE Asked(b) = m
        BY <1>1, <1>5, <1>6, <3>1, <3>4, <4>1
      <4>2. CASE Asked(b) # m
        BY <1>5, <2>1, <3>4, <4>2, WhoIsAsked DEF MgrInv, OneAnswer
      <4> QED
        BY <4>1, <4>2
    <3>5. launched' = IF launch'[SERVICE] \/ service'[SERVICE] \in Reply THEN 1 ELSE 0
      BY <3>1 DEF MgrInv, OneAnswer
    <3> QED
      BY <3>1, <3>2, <3>3, <3>4, <3>5 DEF OneAnswer
  <2> QED
    BY <2>2, <2>3
<1> QED
  BY <1>7, <1>8, <1>9 DEF MgrInv

LEMMA WaitforResumesKeeps ==
  ASSUME MgrInv, NEW a \in Asker, WaitforResumes(a)
  PROVE  MgrInv'
<1> DEFINE m == Asked(a)
           how == IF service[m] = "handle" THEN "handle" ELSE "error"
<1>1. /\ asking[a] = "woken" /\ asking' = [asking EXCEPT ![a] = how]
      /\ UNCHANGED <<service, launch, waiting, launched>> /\ m \in Remote \cup {SERVICE}
  BY WhoIsAsked DEF WaitforResumes
<1>2. how \in Reply
  BY DEF Reply
<1>3. how = service[SERVICE]
  BY <1>1 DEF MgrInv, OneAnswer, Reply
<1> HIDE DEF how, m
<1>4. \A b \in Asker : asking'[b] = IF b = a THEN how ELSE asking[b]
  BY <1>1, MgrTyped
<1>5. MgrTypeOK'
  BY <1>1, <1>2 DEF MgrInv, MgrTypeOK
<1>6. OneRequests'
  <2>1. \A x \in Remote \cup {SERVICE} : \A i \in DOMAIN waiting'[x] :
          asking'[waiting'[x][i]] = "waits" /\ Asked(waiting'[x][i]) = x
    BY <1>1, <1>4, MgrTyped DEF MgrInv, OneRequests
  <2>2. \A x \in Remote : ~launch'[x] => asking'[x] \in {"idle"} \cup Reply
    BY <1>1, <1>2, <1>4, MgrTyped DEF MgrInv, OneRequests
  <2>3. \A b \in Asker : asking'[b] = "requests" => asking[b] = "requests"
    BY <1>2, <1>4 DEF Reply
  <2> QED
    BY <1>1, <2>1, <2>2, <2>3 DEF MgrInv, OneRequests
<1>7. OneAnswer'
  <2>1. \A b \in Asker : asking'[b] = "woken" => asking[b] = "woken"
    BY <1>2, <1>4 DEF Reply
  <2> QED
    BY <1>1, <1>3, <1>4, <2>1 DEF MgrInv, OneAnswer
<1> QED
  BY <1>5, <1>6, <1>7 DEF MgrInv

LEMMA MgrStep_Keeps == MgrInv /\ [MgrNext]_smVars => MgrInv'
<1> SUFFICES ASSUME MgrInv, [MgrNext]_smVars PROVE MgrInv'
  OBVIOUS
<1>1. CASE UNCHANGED smVars
  <2>1. UNCHANGED <<service, launch, waiting, asking, launched>>
    BY <1>1 DEF smVars
  <2>2. MgrTypeOK' /\ OneRequests'
    BY <2>1 DEF MgrInv, MgrTypeOK, OneRequests
  <2>3. OneAnswer'
    BY <2>1 DEF MgrInv, OneAnswer
  <2> QED
    BY <2>2, <2>3 DEF MgrInv
<1>2. ASSUME NEW a \in Asker, Launched(a) PROVE MgrInv'
  BY <1>2, RequestKeeps DEF Launched
<1>3. ASSUME NEW a \in Asker, Replied(a) PROVE MgrInv'
  BY <1>3, RequestKeeps DEF Replied
<1>4. CASE MgrProgress
  BY <1>2, <1>3, <1>4, KnownKeeps, RunKeeps, WaitKeeps, WaitforResumesKeeps DEF MgrProgress, MgrStep
<1>5. CASE \E c \in Client, what \in {"LAUNCH", "QUERY"} : Ask(c, what)
  BY <1>5, AskKeeps
<1> QED
  BY <1>1, <1>4, <1>5 DEF MgrNext

\* However many clients ask for a unique service, of whichever manager and while others
\* ask, the global manager launches it once and all of them get the same answer.
THEOREM ServiceIsUnique == MgrSpec => []OneForAll
<1>1. MgrInit => MgrInv
  BY MgrInitially
<1>2. MgrInv /\ [MgrNext]_smVars => MgrInv'
  BY MgrStep_Keeps
<1>3. MgrInv => OneForAll
  <2> SUFFICES ASSUME MgrInv PROVE OneForAll
    OBVIOUS
  <2>1. LaunchedOnce
    BY DEF MgrInv, OneAnswer, LaunchedOnce
  <2>2. AnswersAgree
    BY DEF MgrInv, OneAnswer, AnswersAgree
  <2> QED
    BY <2>1, <2>2 DEF OneForAll
<1> QED
  BY <1>1, <1>2, <1>3, PTL DEF MgrSpec
-----------------------------------------------------------------------------
(* The nodes of a network.                                                 *)

\* What a node is told, when the master writes one more message or the node reads one.
LEMMA ToldMore ==
  ASSUME NEW list \in Seq(MasterMessage), NEW m \in MasterMessage
  PROVE  /\ Append(list, m) \in Seq(MasterMessage)
         /\ \A b : Tells(Append(list, m), b) => Tells(list, b) \/ m = Message("C", b)
         /\ TellsOnce(list) /\ (m.type = "C" => ~Tells(list, m.of)) => TellsOnce(Append(list, m))
<1>1. /\ Append(list, m) \in Seq(MasterMessage)
      /\ \A i \in DOMAIN Append(list, m) : \/ i \in DOMAIN list /\ Append(list, m)[i] = list[i]
                                           \/ i = Len(list) + 1 /\ Append(list, m)[i] = m
  OBVIOUS
<1>2. \A b : Tells(Append(list, m), b) => Tells(list, b) \/ m = Message("C", b)
  BY <1>1 DEF Tells
<1>3. ASSUME TellsOnce(list), m.type = "C" => ~Tells(list, m.of) PROVE TellsOnce(Append(list, m))
  <2>1. m.type = "C" => m = Message("C", m.of)
    BY DEF MasterMessage, Message
  <2>2. m.type = "C" => \A i \in DOMAIN list : list[i] # m
    BY <1>3, <2>1 DEF Tells
  <2> QED
    BY <1>1, <1>3, <2>2 DEF TellsOnce
<1> QED
  BY <1>1, <1>2, <1>3

LEMMA ToldLess ==
  ASSUME NEW list \in Seq(MasterMessage), list # <<>>
  PROVE  /\ Tail(list) \in Seq(MasterMessage) /\ Head(list) \in MasterMessage
         /\ \A b : Tells(Tail(list), b) => Tells(list, b)
         /\ TellsOnce(list) => TellsOnce(Tail(list))
         /\ \A b : Head(list) = Message("C", b) => Tells(list, b)
         /\ \A b : Head(list) = Message("C", b) /\ TellsOnce(list) => ~Tells(Tail(list), b)
<1>1. /\ Tail(list) \in Seq(MasterMessage) /\ Head(list) \in MasterMessage
      /\ 1 \in DOMAIN list /\ list[1] = Head(list)
      /\ \A i \in DOMAIN Tail(list) : /\ i \in Nat /\ i + 1 # 1 /\ i + 1 \in DOMAIN list
                                      /\ Tail(list)[i] = list[i + 1]
  OBVIOUS
<1>2. \A b : Tells(Tail(list), b) => Tells(list, b)
  BY <1>1 DEF Tells
<1>3. ASSUME TellsOnce(list) PROVE TellsOnce(Tail(list))
  <2> SUFFICES ASSUME NEW i \in DOMAIN Tail(list), NEW j \in DOMAIN Tail(list),
                      Tail(list)[i] = Tail(list)[j] /\ Tail(list)[i].type = "C"
               PROVE  i = j
    BY DEF TellsOnce
  <2>1. i + 1 = j + 1
    BY <1>1, <1>3 DEF TellsOnce
  <2> QED
    BY <1>1, <2>1
<1>4. \A b : Head(list) = Message("C", b) => Tells(list, b)
  BY <1>1 DEF Tells
<1>5. ASSUME NEW b, Head(list) = Message("C", b) /\ TellsOnce(list) PROVE ~Tells(Tail(list), b)
  <2>1. SUFFICES ASSUME NEW i \in DOMAIN Tail(list), Tail(list)[i] = Message("C", b) PROVE FALSE
    BY DEF Tells
  <2>2. list[1] = list[i + 1] /\ list[1].type = "C" /\ i + 1 \in DOMAIN list
    BY <1>1, <1>5, <2>1 DEF Message
  <2> QED
    BY <1>1, <1>5, <2>2 DEF TellsOnce
<1> QED
  BY <1>1, <1>2, <1>3, <1>4, <1>5

LEMMA SlaveTyped ==
  ASSUME SlaveInv
  PROVE  /\ slave_node \in [Slave -> {"none", "up", "down"}]
         /\ toSlave \in [Slave -> Seq(MasterMessage)]
         /\ counted \in [Slave -> SUBSET Slave]
         /\ slaves \in [Slave -> [Slave -> {"nil", "fd", "false"}]]
         /\ connect_queue \in [Slave -> SUBSET Slave]
         /\ opening \in [Slave -> SUBSET (Slave \X {"master", "ready"})]
         /\ backlog \subseteq Slave \X Slave /\ links \subseteq Slave \X Slave
         /\ \A x \in Slave : TellsOnce(toSlave[x])
BY DEF SlaveInv, SlaveTypeOK

LEMMA SlaveInitially == SlaveInit => SlaveInv
<1> SUFFICES ASSUME SlaveInit PROVE SlaveInv
  OBVIOUS
<1>1. SlaveTypeOK
  BY DEF SlaveInit, SlaveTypeOK
<1>2. \A a, b \in Slave : ~Connecting(a, b)
  BY DEF SlaveInit, Connecting, Tells, Opening, Joined
<1>3. EarlierConnects
  BY <1>2 DEF SlaveInit, EarlierConnects
<1>4. \A a, b \in Slave : ConnectsOnce(a, b)
  BY <1>2 DEF SlaveInit, ConnectsOnce, Connecting
<1>5. \A a \in Slave : TellsOnce(toSlave[a])
  BY DEF SlaveInit, TellsOnce
<1> QED
  BY <1>1, <1>3, <1>4, <1>5 DEF SlaveInv

\* A step leaves nothing to do between a and b that was not to be done before.
Fewer(a, b) ==
  /\ Tells(toSlave[a], b)' => Tells(toSlave[a], b)
  /\ b \in connect_queue'[a] => b \in connect_queue[a]
  /\ \A co \in {"master", "ready"} : <<b, co>> \in opening'[a] => <<b, co>> \in opening[a]
  /\ <<a, b>> \in backlog' => <<a, b>> \in backlog
  /\ <<a, b>> \in links' => <<a, b>> \in links

\* Steps that count nobody, and go on with what was to be done or leave it.
LEMMA GoesOnKeeps ==
  ASSUME SlaveInv, SlaveTypeOK', counted' = counted,
         \A x \in Slave : slave_node[x] # "none" => slave_node'[x] # "none",
         \A x \in Slave : TellsOnce(toSlave[x])',
         \A x, y \in Slave : Fewer(x, y) \/ (Connecting(x, y) /\ ConnectsOnce(x, y)')
  PROVE  SlaveInv'
<1>1. ASSUME NEW x \in Slave, NEW y \in Slave, Connecting(x, y)' PROVE Connecting(x, y)
  BY <1>1 DEF Fewer, Connecting, Opening, Joined
<1>2. ASSUME NEW x \in Slave, NEW y \in Slave PROVE ConnectsOnce(x, y)'
  <2>1. ConnectsOnce(x, y)
    BY DEF SlaveInv
  <2>2. CASE Fewer(x, y)
    BY <2>1, <2>2 DEF Fewer, ConnectsOnce, Opening, Joined
  <2> QED
    BY <2>2
<1>3. EarlierConnects'
  BY <1>1 DEF SlaveInv, EarlierConnects
<1> QED
  BY <1>2, <1>3 DEF SlaveInv

\* The master counts those that are up, and tells them.
LEMMA ReportSlaveKeeps ==
  ASSUME SlaveInv, NEW a \in Slave, ReportSlave(a)
  PROVE  SlaveInv'
<1>1. /\ slave_node[a] = "none" /\ toSlave' = [Told("C", a) EXCEPT ![a] = <<Message("W", a)>>]
      /\ counted' = [counted EXCEPT ![a] = Up] /\ slave_node' = [slave_node EXCEPT ![a] = "up"]
      /\ UNCHANGED <<slaves, connect_queue, opening, backlog, links>>
  BY DEF ReportSlave
<1>2. /\ a \notin Up /\ Up \subseteq Slave /\ \A x \in Up : slave_node[x] = "up"
      /\ Message("C", a) \in MasterMessage /\ Message("W", a) \in MasterMessage
      /\ Message("C", a).type = "C" /\ Message("C", a).of = a
  BY <1>1 DEF Up, Message, MasterMessage
<1>3. \A x \in Slave : ~Connecting(x, a) /\ ~Connecting(a, x) /\ a \notin counted[x] /\ x \notin counted[a]
  BY <1>1 DEF SlaveInv, EarlierConnects
<1>4. \A x \in Slave : toSlave'[x] = IF x = a THEN <<Message("W", a)>>
                                     ELSE IF x \in Up THEN Append(toSlave[x], Message("C", a))
                                     ELSE toSlave[x]
  BY <1>1 DEF Told
<1>5. ASSUME NEW x \in Slave
      PROVE  /\ toSlave'[x] \in Seq(MasterMessage) /\ TellsOnce(toSlave'[x])
             /\ \A y \in Slave : Tells(toSlave'[x], y) => Tells(toSlave[x], y) \/ (x \in Up /\ y = a)
             /\ \A y \in Slave : Tells(toSlave'[x], y) => x # a
  <2>1. CASE x = a
    <3>1. toSlave'[x] = <<Message("W", a)>>
      BY <1>4, <2>1
    <3>2. /\ <<Message("W", a)>> \in Seq(MasterMessage) /\ TellsOnce(<<Message("W", a)>>)
          /\ \A y : ~Tells(<<Message("W", a)>>, y)
      BY <1>2 DEF TellsOnce, Tells, Message
    <3> QED
      BY <3>1, <3>2
  <2>2. CASE x # a /\ x \in Up
    <3>1. toSlave'[x] = Append(toSlave[x], Message("C", a)) /\ toSlave[x] \in Seq(MasterMessage)
          /\ TellsOnce(toSlave[x]) /\ ~Tells(toSlave[x], a)
      BY <1>3, <1>4, <2>2, SlaveTyped DEF Connecting
    <3>2. /\ Append(toSlave[x], Message("C", a)) \in Seq(MasterMessage)
          /\ \A b : Tells(Append(toSlave[x], Message("C", a)), b) => Tells(toSlave[x], b) \/ Message("C", a) = Message("C", b)
          /\ TellsOnce(Append(toSlave[x], Message("C", a)))
      BY <1>2, <3>1, ToldMore
    <3>3. \A b : Message("C", a) = Message("C", b) => a = b
      BY DEF Message
    <3> QED
      BY <2>2, <3>1, <3>2, <3>3
  <2>3. CASE x # a /\ x \notin Up
    BY <1>4, <2>3, SlaveTyped
  <2> QED
    BY <2>1, <2>2, <2>3
<1>6. SlaveTypeOK'
  <2>1. toSlave' \in [Slave -> Seq(MasterMessage)]
    <3>1. DOMAIN toSlave' = Slave /\ toSlave' = [x \in Slave |-> toSlave'[x]]
      BY <1>1 DEF Told
    <3> QED
      BY <1>5, <3>1
  <2> QED
    BY <1>1, <1>2, <2>1, SlaveTyped DEF SlaveTypeOK
<1>7. \A x, y \in Slave : Connecting(x, y)' => Connecting(x, y) \/ (x \in Up /\ y = a)
  BY <1>1, <1>5 DEF Connecting, Opening, Joined
<1>8. /\ \A y \in Slave : counted'[y] = IF y = a THEN Up ELSE counted[y]
      /\ \A y \in Slave : slave_node'[y] = IF y = a THEN "up" ELSE slave_node[y]
  BY <1>1, SlaveTyped
<1>9. EarlierConnects'
  <2>1. ASSUME NEW x \in Slave, NEW y \in Slave, Connecting(x, y)' PROVE x \in counted'[y]
    <3>1. CASE y = a
      BY <1>3, <1>7, <1>8, <2>1, <3>1
    <3>2. CASE y # a
      BY <1>7, <1>8, <2>1, <3>2 DEF SlaveInv, EarlierConnects
    <3> QED
      BY <3>1, <3>2
  <2>2. ASSUME NEW x \in Slave, NEW y \in Slave, x \in counted'[y]
        PROVE  y \notin counted'[x] /\ slave_node'[x] # "none" /\ slave_node'[y] # "none"
    <3>1. CASE y = a
      BY <1>2, <1>3, <1>8, <2>2, <3>1
    <3>2. CASE y # a
      <4>1. x \in counted[y] /\ x # a
        BY <1>3, <1>8, <2>2, <3>2
      <4>2. y \notin counted[x] /\ slave_node[x] # "none" /\ slave_node[y] # "none"
        BY <4>1 DEF SlaveInv, EarlierConnects
      <4> QED
        BY <1>8, <3>2, <4>1, <4>2
    <3> QED
      BY <3>1, <3>2
  <2> QED
    BY <2>1, <2>2 DEF EarlierConnects
<1>10. ASSUME NEW x \in Slave, NEW y \in Slave PROVE ConnectsOnce(x, y)'
  <2>1. CASE y = a
    <3>1. y \notin connect_queue'[x] /\ ~Opening(x, y)' /\ ~Joined(x, y)'
      BY <1>1, <1>3, <2>1 DEF Connecting, Opening, Joined
    <3> QED
      BY <3>1 DEF ConnectsOnce, Opening, Joined
  <2>2. CASE y # a
    <3>1. Tells(toSlave[x], y)' => Tells(toSlave[x], y)
      BY <1>5, <2>2
    <3>2. ConnectsOnce(x, y)
      BY DEF SlaveInv
    <3> QED
      BY <1>1, <3>1, <3>2 DEF ConnectsOnce, Opening, Joined
  <2> QED
    BY <2>1, <2>2
<1> QED
  BY <1>5, <1>6, <1>9, <1>10 DEF SlaveInv

LEMMA SlaveIsDownKeeps ==
  ASSUME SlaveInv, NEW a \in Slave, SlaveIsDown(a)
  PROVE  SlaveInv'
<1>1. /\ slave_node' = [slave_node EXCEPT ![a] = "down"] /\ toSlave' = Told("D", a)
      /\ UNCHANGED <<counted, slaves, connect_queue, opening, backlog, links>>
  BY DEF SlaveIsDown
<1>2. Message("D", a) \in MasterMessage /\ Message("D", a).type # "C" /\ \A b : Message("D", a) # Message("C", b)
  BY DEF Message, MasterMessage
<1>3. ASSUME NEW x \in Slave
      PROVE  /\ toSlave'[x] \in Seq(MasterMessage) /\ TellsOnce(toSlave'[x])
             /\ \A y \in Slave : Tells(toSlave'[x], y) => Tells(toSlave[x], y)
  <2>1. toSlave'[x] = toSlave[x] \/ toSlave'[x] = Append(toSlave[x], Message("D", a))
    BY <1>1 DEF Told
  <2>2. toSlave[x] \in Seq(MasterMessage) /\ TellsOnce(toSlave[x])
    BY SlaveTyped
  <2>3. /\ Append(toSlave[x], Message("D", a)) \in Seq(MasterMessage)
        /\ TellsOnce(Append(toSlave[x], Message("D", a)))
        /\ \A b : Tells(Append(toSlave[x], Message("D", a)), b) => Tells(toSlave[x], b) \/ Message("D", a) = Message("C", b)
    BY <1>2, <2>2, ToldMore
  <2> QED
    BY <1>2, <2>1, <2>2, <2>3
<1>4. SlaveTypeOK'
  <2>1. toSlave' \in [Slave -> Seq(MasterMessage)]
    <3>1. toSlave' = [x \in Slave |-> toSlave'[x]]
      BY <1>1 DEF Told
    <3> QED
      BY <1>3, <3>1
  <2> QED
    BY <1>1, <2>1, SlaveTyped DEF SlaveTypeOK
<1>5. \A x, y \in Slave : Fewer(x, y)
  BY <1>1, <1>3 DEF Fewer
<1>6. \A x \in Slave : slave_node[x] # "none" => slave_node'[x] # "none"
  BY <1>1, SlaveTyped
<1>7. \A x \in Slave : TellsOnce(toSlave[x])'
  BY <1>3
<1> QED
  BY <1>1, <1>4, <1>5, <1>6, <1>7, GoesOnKeeps

\* A node reads a message.
LEMMA ReadTyped ==
  ASSUME SlaveInv, NEW a \in Slave, toSlave[a] # <<>>, Read(a)
  PROVE  /\ toSlave' \in [Slave -> Seq(MasterMessage)] /\ Head(toSlave[a]) \in MasterMessage
         /\ \A x \in Slave : TellsOnce(toSlave[x])'
         /\ \A x, y \in Slave : Tells(toSlave[x], y)' => Tells(toSlave[x], y)
         /\ \A y \in Slave : Head(toSlave[a]) = Message("C", y) => Tells(toSlave[a], y) /\ ~Tells(toSlave[a], y)'
<1>1. /\ \A x \in Slave : toSlave'[x] = IF x = a THEN Tail(toSlave[a]) ELSE toSlave[x]
      /\ toSlave[a] \in Seq(MasterMessage) /\ TellsOnce(toSlave[a])
      /\ toSlave' = [toSlave EXCEPT ![a] = Tail(toSlave[a])]
  BY SlaveTyped DEF Read
<1>2. /\ Tail(toSlave[a]) \in Seq(MasterMessage) /\ Head(toSlave[a]) \in MasterMessage
      /\ \A b : Tells(Tail(toSlave[a]), b) => Tells(toSlave[a], b)
      /\ TellsOnce(Tail(toSlave[a]))
      /\ \A b : Head(toSlave[a]) = Message("C", b) => Tells(toSlave[a], b)
      /\ \A b : Head(toSlave[a]) = Message("C", b) => ~Tells(Tail(toSlave[a]), b)
  BY <1>1, ToldLess
<1>3. toSlave' \in [Slave -> Seq(MasterMessage)]
  BY <1>1, <1>2, SlaveTyped
<1>4. \A x \in Slave : TellsOnce(toSlave[x])'
  BY <1>1, <1>2, SlaveTyped
<1>5. \A x, y \in Slave : Tells(toSlave[x], y)' => Tells(toSlave[x], y)
  BY <1>1, <1>2
<1>6. ASSUME NEW y \in Slave, Head(toSlave[a]) = Message("C", y)
      PROVE  Tells(toSlave[a], y) /\ ~Tells(toSlave[a], y)'
  <2>1. toSlave'[a] = Tail(toSlave[a])
    BY <1>1
  <2> QED
    BY <1>2, <1>6, <2>1
<1> QED
  BY <1>2, <1>3, <1>4, <1>5, <1>6

LEMMA WelcomeKeeps ==
  ASSUME SlaveInv, NEW a \in Slave, Welcome(a)
  PROVE  SlaveInv'
<1>1. /\ toSlave[a] # <<>> /\ Read(a)
      /\ UNCHANGED <<slave_node, counted, slaves, connect_queue, opening, backlog, links>>
  BY DEF Welcome, Reads
<1>2. /\ toSlave' \in [Slave -> Seq(MasterMessage)] /\ \A x \in Slave : TellsOnce(toSlave[x])'
      /\ \A x, y \in Slave : Tells(toSlave[x], y)' => Tells(toSlave[x], y)
  BY <1>1, ReadTyped
<1>3. SlaveTypeOK'
  BY <1>1, <1>2, SlaveTyped DEF SlaveTypeOK
<1>4. \A x, y \in Slave : Fewer(x, y)
  BY <1>1, <1>2 DEF Fewer
<1> QED
  BY <1>1, <1>2, <1>3, <1>4, GoesOnKeeps

LEMMA MonitorConnectKeeps ==
  ASSUME SlaveInv, NEW a \in Slave, MonitorConnect(a)
  PROVE  SlaveInv'
<1>1. toSlave[a] # <<>> /\ Head(toSlave[a]).type = "C" /\ Read(a)
  BY DEF MonitorConnect, Reads
<1>2. /\ toSlave' \in [Slave -> Seq(MasterMessage)] /\ Head(toSlave[a]) \in MasterMessage
      /\ \A x \in Slave : TellsOnce(toSlave[x])'
      /\ \A x, y \in Slave : Tells(toSlave[x], y)' => Tells(toSlave[x], y)
      /\ \A y \in Slave : Head(toSlave[a]) = Message("C", y) => Tells(toSlave[a], y) /\ ~Tells(toSlave[a], y)'
  BY <1>1, ReadTyped
<1>3. PICK b \in Slave : Head(toSlave[a]).of = b /\ Tells(toSlave[a], b) /\ ~Tells(toSlave[a], b)'
  <2>1. Head(toSlave[a]).of \in Slave /\ Head(toSlave[a]) = Message("C", Head(toSlave[a]).of)
    BY <1>1, <1>2 DEF MasterMessage, Message
  <2> QED
    BY <1>2, <2>1
<1>4. UNCHANGED <<slave_node, counted, slaves, backlog, links>>
  BY DEF MonitorConnect
<1>5. \/ connect_queue' = [connect_queue EXCEPT ![a] = connect_queue[a] \cup {b}] /\ opening' = opening
      \/ opening' = [opening EXCEPT ![a] = opening[a] \cup {<<b, "master">>}] /\ connect_queue' = connect_queue
      \/ opening' = opening /\ connect_queue' = connect_queue
  BY <1>3 DEF MonitorConnect, Opens
<1>6. SlaveTypeOK'
  <2>1. connect_queue' \in [Slave -> SUBSET Slave]
    <3>1. connect_queue \in [Slave -> SUBSET Slave] /\ connect_queue[a] \cup {b} \in SUBSET Slave
      BY SlaveTyped
    <3> QED
      BY <1>5, <3>1
  <2>2. opening' \in [Slave -> SUBSET (Slave \X {"master", "ready"})]
    <3>1. opening \in [Slave -> SUBSET (Slave \X {"master", "ready"})] /\ <<b, "master">> \in Slave \X {"master", "ready"}
      BY SlaveTyped
    <3> QED
      BY <1>5, <3>1
  <2> QED
    BY <1>2, <1>4, <2>1, <2>2, SlaveTyped DEF SlaveTypeOK
<1>7. Connecting(a, b) /\ b \notin connect_queue[a] /\ ~Opening(a, b) /\ ~Joined(a, b)
  BY <1>3 DEF Connecting, SlaveInv, ConnectsOnce
<1>8. /\ \A x \in Slave : connect_queue'[x] # connect_queue[x] => x = a /\ opening' = opening
      /\ \A x, y \in Slave : y \in connect_queue'[x] => y \in connect_queue[x] \/ (x = a /\ y = b)
      /\ \A x, y \in Slave, co \in {"master", "ready"} : <<y, co>> \in opening'[x] =>
           <<y, co>> \in opening[x] \/ (x = a /\ y = b /\ co = "master" /\ connect_queue' = connect_queue)
  BY <1>5, SlaveTyped
<1>9. ConnectsOnce(a, b)'
  <2>1. <<b, "ready">> \notin opening'[a] /\ ~Joined(a, b)'
    BY <1>4, <1>7, <1>8 DEF Opening, Joined
  <2>2. b \in connect_queue'[a] => <<b, "master">> \notin opening'[a]
    BY <1>7, <1>8 DEF Opening
  <2> QED
    BY <1>3, <2>1, <2>2 DEF ConnectsOnce, Opening, Joined
<1>10. ASSUME NEW x \in Slave, NEW y \in Slave, x # a \/ y # b PROVE Fewer(x, y)
  BY <1>2, <1>4, <1>8, <1>10 DEF Fewer
<1> QED
  BY <1>2, <1>4, <1>6, <1>7, <1>9, <1>10, GoesOnKeeps

LEMMA MonitorDisconnectKeeps ==
  ASSUME SlaveInv, NEW a \in Slave, MonitorDisconnect(a)
  PROVE  SlaveInv'
<1>1. /\ toSlave[a] # <<>> /\ Read(a)
      /\ slaves' = [slaves EXCEPT ![a][Head(toSlave[a]).of] = "false"]
      /\ UNCHANGED <<slave_node, counted, connect_queue, opening, backlog, links>>
  BY DEF MonitorDisconnect, Reads
<1>2. /\ toSlave' \in [Slave -> Seq(MasterMessage)] /\ \A x \in Slave : TellsOnce(toSlave[x])'
      /\ \A x, y \in Slave : Tells(toSlave[x], y)' => Tells(toSlave[x], y)
      /\ Head(toSlave[a]).of \in Slave
  BY <1>1, ReadTyped DEF MasterMessage
<1>3. SlaveTypeOK'
  BY <1>1, <1>2, SlaveTyped DEF SlaveTypeOK
<1>4. \A x, y \in Slave : Fewer(x, y)
  BY <1>1, <1>2 DEF Fewer
<1> QED
  BY <1>1, <1>2, <1>3, <1>4, GoesOnKeeps

LEMMA ConnectQueuedKeeps ==
  ASSUME SlaveInv, NEW a \in Slave, ConnectQueued(a)
  PROVE  SlaveInv'
<1>1. PICK b \in connect_queue[a] :
        /\ connect_queue' = [connect_queue EXCEPT ![a] = connect_queue[a] \ {b}]
        /\ IF slaves[a][b] = "nil" THEN Opens(a, b, "ready") ELSE UNCHANGED opening
  BY DEF ConnectQueued
<1>2. /\ opening' = [opening EXCEPT ![a] = opening[a] \cup {<<b, "ready">>}] \/ opening' = opening
      /\ UNCHANGED <<slave_node, toSlave, counted, slaves, backlog, links>>
  BY <1>1 DEF ConnectQueued, Opens
<1>3. b \in Slave
  BY SlaveTyped
<1>4. SlaveTypeOK'
  BY <1>1, <1>2, <1>3, SlaveTyped DEF SlaveTypeOK
<1>5. Connecting(a, b) /\ ~Tells(toSlave[a], b) /\ ~Opening(a, b) /\ ~Joined(a, b)
  BY <1>3 DEF Connecting, SlaveInv, ConnectsOnce
<1>6. ConnectsOnce(a, b)'
  BY <1>1, <1>2, <1>3, <1>5, SlaveTyped DEF ConnectsOnce, Opening, Joined
<1>7. ASSUME NEW x \in Slave, NEW y \in Slave, x # a \/ y # b PROVE Fewer(x, y)
  BY <1>1, <1>2, <1>3, <1>7, SlaveTyped DEF Fewer
<1>8. \A x \in Slave : TellsOnce(toSlave[x])'
  BY <1>2, SlaveTyped
<1> QED
  BY <1>2, <1>4, <1>5, <1>6, <1>7, <1>8, GoesOnKeeps

LEMMA OpenedKeeps ==
  ASSUME SlaveInv, NEW a \in Slave, NEW b \in Slave, NEW co \in {"master", "ready"}, Opened(a, b, co)
  PROVE  SlaveInv'
<1>1. /\ <<b, co>> \in opening[a] /\ opening' = [opening EXCEPT ![a] = opening[a] \ {<<b, co>>}]
      /\ \/ slaves' = [slaves EXCEPT ![a][b] = "fd"] /\ backlog' = backlog \cup {<<a, b>>}
         \/ slaves' = slaves /\ backlog' = backlog
      /\ UNCHANGED <<slave_node, toSlave, counted, connect_queue, links>>
  BY DEF Opened
<1>2. SlaveTypeOK'
  <2>1. slaves' \in [Slave -> [Slave -> {"nil", "fd", "false"}]]
    <3>1. /\ slaves \in [Slave -> [Slave -> {"nil", "fd", "false"}]]
          /\ [slaves[a] EXCEPT ![b] = "fd"] \in [Slave -> {"nil", "fd", "false"}]
      BY SlaveTyped
    <3>2. slaves' = slaves \/ slaves' = [slaves EXCEPT ![a] = [slaves[a] EXCEPT ![b] = "fd"]]
      BY <1>1
    <3> QED
      BY <3>1, <3>2
  <2>2. opening' \in [Slave -> SUBSET (Slave \X {"master", "ready"})] /\ backlog' \subseteq Slave \X Slave
    BY <1>1, SlaveTyped
  <2> QED
    BY <1>1, <2>1, <2>2, SlaveTyped DEF SlaveTypeOK
<1>3. Opening(a, b)
  BY <1>1 DEF Opening
<1>4. /\ Connecting(a, b) /\ ~Tells(toSlave[a], b) /\ b \notin connect_queue[a] /\ ~Joined(a, b)
      /\ ~(<<b, "master">> \in opening[a] /\ <<b, "ready">> \in opening[a])
  BY <1>3 DEF Connecting, SlaveInv, ConnectsOnce
<1>5. ~Opening(a, b)'
  BY <1>1, <1>4, SlaveTyped DEF Opening
<1>6. ConnectsOnce(a, b)'
  BY <1>1, <1>4, <1>5 DEF ConnectsOnce, Opening, Joined
<1>7. ASSUME NEW x \in Slave, NEW y \in Slave, x # a \/ y # b PROVE Fewer(x, y)
  BY <1>1, <1>7, SlaveTyped DEF Fewer
<1>8. \A x \in Slave : TellsOnce(toSlave[x])'
  BY <1>1, SlaveTyped
<1> QED
  BY <1>1, <1>2, <1>4, <1>6, <1>7, <1>8, GoesOnKeeps

LEMMA AcceptSlaveKeeps ==
  ASSUME SlaveInv, NEW a \in Slave, NEW b \in Slave, AcceptSlave(a, b)
  PROVE  SlaveInv'
<1>1. /\ <<b, a>> \in backlog
      /\ \/ slaves' = [slaves EXCEPT ![a][b] = "fd"] /\ links' \subseteq links \cup {<<b, a>>}
         \/ slaves' = slaves /\ links' = links
      /\ backlog' \subseteq backlog \ {<<b, a>>}
      /\ UNCHANGED <<slave_node, toSlave, counted, connect_queue, opening>>
  BY DEF AcceptSlave
<1>2. SlaveTypeOK'
  <2>1. slaves' \in [Slave -> [Slave -> {"nil", "fd", "false"}]]
    <3>1. /\ slaves \in [Slave -> [Slave -> {"nil", "fd", "false"}]]
          /\ [slaves[a] EXCEPT ![b] = "fd"] \in [Slave -> {"nil", "fd", "false"}]
      BY SlaveTyped
    <3>2. slaves' = slaves \/ slaves' = [slaves EXCEPT ![a] = [slaves[a] EXCEPT ![b] = "fd"]]
      BY <1>1
    <3> QED
      BY <3>1, <3>2
  <2>2. backlog' \subseteq Slave \X Slave /\ links' \subseteq Slave \X Slave
    BY <1>1, SlaveTyped
  <2> QED
    BY <1>1, <2>1, <2>2, SlaveTyped DEF SlaveTypeOK
<1>3. Joined(b, a)
  BY <1>1 DEF Joined
<1>4. Connecting(b, a) /\ ~Tells(toSlave[b], a) /\ a \notin connect_queue[b] /\ ~Opening(b, a)
  BY <1>3 DEF Connecting, SlaveInv, ConnectsOnce
<1>5. ConnectsOnce(b, a)'
  <2>1. <<b, a>> \notin backlog'
    BY <1>1
  <2>2. ~Tells(toSlave[b], a)' /\ a \notin connect_queue'[b] /\ ~Opening(b, a)'
    BY <1>1, <1>4 DEF Opening
  <2> QED
    BY <2>1, <2>2 DEF ConnectsOnce, Opening
<1>6. ASSUME NEW x \in Slave, NEW y \in Slave, x # b \/ y # a PROVE Fewer(x, y)
  BY <1>1, <1>6 DEF Fewer
<1>7. \A x \in Slave : TellsOnce(toSlave[x])'
  BY <1>1, SlaveTyped
<1> QED
  BY <1>1, <1>2, <1>4, <1>5, <1>6, <1>7, GoesOnKeeps

\* Steps that only lose connections, or note that they are lost.
LEMMA LosesKeeps ==
  ASSUME SlaveInv, slaves' \in [Slave -> [Slave -> {"nil", "fd", "false"}]],
         opening' \in [Slave -> SUBSET (Slave \X {"master", "ready"})],
         \A x \in Slave : opening'[x] \subseteq opening[x],
         backlog' \subseteq backlog, links' \subseteq links,
         UNCHANGED <<slave_node, toSlave, counted, connect_queue>>
  PROVE  SlaveInv'
<1>1. SlaveTypeOK'
  BY SlaveTyped DEF SlaveTypeOK
<1>2. \A x, y \in Slave : Fewer(x, y)
  BY DEF Fewer
<1>3. \A x \in Slave : TellsOnce(toSlave[x])'
  BY SlaveTyped
<1> QED
  BY <1>1, <1>2, <1>3, GoesOnKeeps

LEMMA LostKeeps ==
  ASSUME SlaveInv, NEW a \in Slave, NEW b \in Slave,
         AcceptSlaveFails(a, b) \/ HarborDown(a, b) \/ Die(a) \/ Join(a)
  PROVE  SlaveInv'
<1>1. /\ slaves' = slaves \/ slaves' = [slaves EXCEPT ![a][b] = "false"]
      /\ opening' = opening \/ opening' = [opening EXCEPT ![a] = {}]
      /\ backlog' \subseteq backlog /\ links' \subseteq links
      /\ UNCHANGED <<slave_node, toSlave, counted, connect_queue>>
  <2>1. CASE AcceptSlaveFails(a, b)
    BY <2>1 DEF AcceptSlaveFails
  <2>2. CASE HarborDown(a, b)
    BY <2>2 DEF HarborDown
  <2>3. CASE Die(a)
    BY <2>3 DEF Die
  <2>4. CASE Join(a)
    BY <2>4 DEF Join
  <2> QED
    BY <2>1, <2>2, <2>3, <2>4
<1>2. /\ slaves' \in [Slave -> [Slave -> {"nil", "fd", "false"}]]
      /\ opening' \in [Slave -> SUBSET (Slave \X {"master", "ready"})]
      /\ \A x \in Slave : opening'[x] \subseteq opening[x]
  <2>1. slaves' \in [Slave -> [Slave -> {"nil", "fd", "false"}]]
    <3>1. /\ slaves \in [Slave -> [Slave -> {"nil", "fd", "false"}]]
          /\ [slaves[a] EXCEPT ![b] = "false"] \in [Slave -> {"nil", "fd", "false"}]
      BY SlaveTyped
    <3>2. slaves' = slaves \/ slaves' = [slaves EXCEPT ![a] = [slaves[a] EXCEPT ![b] = "false"]]
      BY <1>1
    <3> QED
      BY <3>1, <3>2
  <2>2. opening' \in [Slave -> SUBSET (Slave \X {"master", "ready"})] /\ \A x \in Slave : opening'[x] \subseteq opening[x]
    BY <1>1, SlaveTyped
  <2> QED
    BY <2>1, <2>2
<1> QED
  BY <1>1, <1>2, LosesKeeps

LEMMA SlaveStep_Keeps == SlaveInv /\ [SlaveNext]_slVars => SlaveInv'
<1> SUFFICES ASSUME SlaveInv, [SlaveNext]_slVars PROVE SlaveInv'
  OBVIOUS
<1>1. CASE UNCHANGED slVars
  <2>1. UNCHANGED <<slave_node, toSlave, counted, slaves, connect_queue, opening, backlog, links>>
    BY <1>1 DEF slVars
  <2> QED
    BY <2>1, LosesKeeps, SlaveTyped
<1>2. ASSUME NEW a \in Slave, SlaveStep(a) PROVE SlaveInv'
  <2>1. CASE \/ ReportSlave(a) \/ SlaveIsDown(a) \/ Welcome(a)
             \/ MonitorConnect(a) \/ MonitorDisconnect(a) \/ ConnectQueued(a)
    BY <2>1, ReportSlaveKeeps, SlaveIsDownKeeps, WelcomeKeeps, MonitorConnectKeeps,
       MonitorDisconnectKeeps, ConnectQueuedKeeps
  <2>2. ASSUME NEW b \in Slave,
               \/ AcceptSlave(a, b) \/ AcceptSlaveFails(a, b) \/ HarborDown(a, b)
               \/ \E co \in {"master", "ready"} : Opened(a, b, co)
        PROVE  SlaveInv'
    BY <2>2, AcceptSlaveKeeps, LostKeeps, OpenedKeeps
  <2> QED
    BY <1>2, <2>1, <2>2 DEF SlaveStep
<1>3. ASSUME NEW a \in Slave, Join(a) \/ Die(a) PROVE SlaveInv'
  BY <1>3, LostKeeps
<1> QED
  BY <1>1, <1>2, <1>3 DEF SlaveNext, SlaveProgress

\* A set that has at most one element.
LEMMA AtMostOne ==
  ASSUME NEW x, NEW S, S \subseteq {x}
  PROVE  Cardinality(S) = IF S = {} THEN 0 ELSE 1
<1>1. S = {} \/ S = {x}
  OBVIOUS
<1> QED
  BY <1>1, FS_EmptySet, FS_Singleton

\* If b has nothing to do about a, whatever a has to do about b is there once.
LEMMA OneWay ==
  ASSUME SlaveInv, NEW a \in Slave, NEW b \in Slave, a # b, ~Connecting(b, a)
  PROVE  /\ Cardinality({<<a, b>>, <<b, a>>} \cap links) + Cardinality({<<a, b>>, <<b, a>>} \cap backlog)
              + Cardinality({o \in opening[a] : o[1] = b}) + Cardinality({o \in opening[b] : o[1] = a}) <= 1
         /\ Cardinality({<<a, b>>, <<b, a>>} \cap links) + Cardinality({<<a, b>>, <<b, a>>} \cap backlog)
              + Cardinality({o \in opening[b] : o[1] = a}) + Cardinality({o \in opening[a] : o[1] = b}) <= 1
<1> DEFINE L == {<<a, b>>, <<b, a>>} \cap links
           B == {<<a, b>>, <<b, a>>} \cap backlog
           O == {o \in opening[a] : o[1] = b}
           R == {o \in opening[b] : o[1] = a}
<1>1. /\ opening[a] \subseteq Slave \X {"master", "ready"} /\ opening[b] \subseteq Slave \X {"master", "ready"}
      /\ ConnectsOnce(a, b)
  BY SlaveTyped DEF SlaveInv
<1>2. R = {}
  BY <1>1 DEF Connecting, Opening
<1>3. L \subseteq {<<a, b>>} /\ B \subseteq {<<a, b>>}
  BY DEF Connecting, Joined
<1>4. O \subseteq {<<b, "master">>} \/ O \subseteq {<<b, "ready">>}
  <2>1. \A o \in O : o = <<b, "master">> \/ o = <<b, "ready">>
    BY <1>1
  <2>2. <<b, "master">> \notin O \/ <<b, "ready">> \notin O
    BY <1>1 DEF ConnectsOnce
  <2> QED
    BY <2>1, <2>2
<1>5. (L = {} \/ B = {}) /\ (O = {} \/ (L = {} /\ B = {}))
  <2>1. L # {} => <<a, b>> \in links
    BY <1>3
  <2>2. B # {} => <<a, b>> \in backlog
    BY <1>3
  <2>3. O # {} => Opening(a, b)
    BY <1>4 DEF Opening
  <2> QED
    BY <1>1, <2>1, <2>2, <2>3 DEF ConnectsOnce, Joined
<1> HIDE DEF L, B, O, R
<1>6. /\ Cardinality(L) = IF L = {} THEN 0 ELSE 1
      /\ Cardinality(B) = IF B = {} THEN 0 ELSE 1
  BY <1>3, AtMostOne
<1>7. Cardinality(O) = IF O = {} THEN 0 ELSE 1
  BY <1>4, AtMostOne
<1>8. Cardinality(R) = 0
  BY <1>2, FS_EmptySet
<1>9. /\ Cardinality(L) + Cardinality(B) + Cardinality(O) + Cardinality(R) <= 1
      /\ Cardinality(L) + Cardinality(B) + Cardinality(R) + Cardinality(O) <= 1
  BY <1>5, <1>6, <1>7, <1>8
<1> QED
  BY <1>9 DEF L, B, O, R

LEMMA SlaveInvOneConnection == SlaveInv => OneConnection
<1> SUFFICES ASSUME SlaveInv, NEW a \in Slave, NEW b \in Slave, a # b
             PROVE  Cardinality({<<a, b>>, <<b, a>>} \cap links) + Cardinality({<<a, b>>, <<b, a>>} \cap backlog)
                      + Cardinality({o \in opening[a] : o[1] = b}) + Cardinality({o \in opening[b] : o[1] = a}) <= 1
  BY DEF OneConnection
<1>1. CASE ~Connecting(b, a)
  BY <1>1, OneWay
<1>2. CASE ~Connecting(a, b)
  <2>1. Cardinality({<<b, a>>, <<a, b>>} \cap links) + Cardinality({<<b, a>>, <<a, b>>} \cap backlog)
          + Cardinality({o \in opening[a] : o[1] = b}) + Cardinality({o \in opening[b] : o[1] = a}) <= 1
    BY <1>2, OneWay
  <2>2. {<<b, a>>, <<a, b>>} = {<<a, b>>, <<b, a>>}
    OBVIOUS
  <2> QED
    BY <2>1, <2>2
<1>3. ~Connecting(a, b) \/ ~Connecting(b, a)
  BY DEF SlaveInv, EarlierConnects
<1> QED
  BY <1>1, <1>2, <1>3

\* In whichever order nodes join, hear of each other and die, two of them never have or
\* open two connections: the one that was counted when the other joined connects to it.
THEOREM NodesConnectOnce == SlaveSpec => []OneConnection
<1>1. SlaveInit => SlaveInv
  BY SlaveInitially
<1>2. SlaveInv /\ [SlaveNext]_slVars => SlaveInv'
  BY SlaveStep_Keeps
<1>3. SlaveInv => OneConnection
  BY SlaveInvOneConnection
<1> QED
  BY <1>1, <1>2, <1>3, PTL DEF SlaveSpec
=============================================================================
