---------------------------- MODULE SocketProofs ----------------------------
(***************************************************************************)
(* Machine-checked proof about the slots of socket_server.c, for any       *)
(* number of slots, ids and services: as long as no slot is taken in one   *)
(* of the two windows that Quiet closes, every command, event and message  *)
(* is for the socket that it names.                                        *)
(***************************************************************************)
EXTENDS SocketServer, SequenceTheorems, FiniteSetTheorems, TLAPS

Busy(s) == svc_pc[s] # "idle"
Sets(s, i) == svc_pc[s] = "set" /\ HASH_ID(new[s]) = i
Makes(k) == pipe[k].cmd \in {"O", "L"}
SlotRec == [type : SocketType, id : Id, buffered : BOOLEAN, writing : BOOLEAN]
CommandRec == [cmd : {"O", "L", "S", "K", "D"}, id : Id]
EventRec == [slot : Slot \cup {NULL}, of : Id, read : BOOLEAN, write : BOOLEAN]
Phase == {"unknown", "none", "open", "closing", "ended", "wrong"}
Polled == {"LISTEN", "CONNECTING", "CONNECTED", "HALFCLOSE"}

\* What is known of a socket of a type.
KnownOf(type) ==
  IF type \in {"PLISTEN", "PACCEPT", "CONNECTING"} THEN "none"
  ELSE IF type = "HALFCLOSE" THEN "closing" ELSE "open"

\* Ids are given out once: an id that is being reserved is nobody else's, and was in
\* no command.
IdsFresh ==
  /\ \A s \in Svc : Busy(s) => new[s] \in 1 .. alloc_id /\ phase[new[s]] = "unknown"
  /\ \A s, u \in Svc : s # u /\ Busy(s) /\ Busy(u) => new[s] # new[u]
  /\ \A n \in Id : n > alloc_id \/ n = 0 => phase[n] = "unknown"
  /\ \A k \in DOMAIN pipe : phase[pipe[k].id] # "unknown"

\* A reserved slot is that of the one service that is about to store its id, or of the one
\* command that will make it a socket.
ReservedOnce ==
  /\ \A s \in Svc : svc_pc[s] = "set" => slot[HASH_ID(new[s])].type = "RESERVE"
  /\ \A s, u \in Svc : svc_pc[s] = "set" /\ Sets(u, HASH_ID(new[s])) => s = u
  /\ \A k \in DOMAIN pipe : Makes(k) =>
       /\ slot[HASH_ID(pipe[k].id)].type = "RESERVE"
       /\ slot[HASH_ID(pipe[k].id)].id = pipe[k].id
       /\ phase[pipe[k].id] = "none"
       /\ \A s \in Svc : ~Sets(s, HASH_ID(pipe[k].id))
  /\ \A i \in Slot : slot[i].type = "RESERVE" =>
       \/ \E s \in Svc : Sets(s, i)
       \/ \E k \in DOMAIN pipe : Makes(k) /\ HASH_ID(pipe[k].id) = i

\* The command that makes a socket comes before all others for it.
MadeFirst ==
  \A j, k \in DOMAIN pipe : Makes(j) /\ pipe[k].id = pipe[j].id => j <= k

\* An event is for the socket that has the slot, or for the one that was closed in this
\* turn and is about to be cleared; and there is one for each slot.
EventsKept ==
  /\ \A k \in DOMAIN ev : ev[k].slot # NULL =>
       /\ slot[ev[k].slot].id = ev[k].of
       /\ \/ slot[ev[k].slot].type \in Polled
          \/ /\ slot[ev[k].slot].type = "INVALID"
             /\ sock_pc = "clear" /\ closed = ev[k].of /\ HASH_ID(closed) = ev[k].slot
  /\ \A j, k \in DOMAIN ev : j # k /\ ev[j].slot = ev[k].slot => ev[j].slot = NULL

\* What the service of a socket was told is what the type of the socket says.
ToldAsTyped ==
  /\ \A i \in Slot : slot[i].type \notin {"INVALID", "RESERVE"} =>
       /\ HASH_ID(slot[i].id) = i
       /\ phase[slot[i].id] = KnownOf(slot[i].type)
  /\ MessagesInOrder

\* A socket that connects is watched: what is sent to it meanwhile goes out.
Watched ==
  BufferedIsWatched /\ \A i \in Slot : slot[i].type = "CONNECTING" => slot[i].writing

SocketInv ==
  /\ SocketTypeOK /\ IdsFresh /\ ReservedOnce /\ MadeFirst /\ EventsKept
  /\ ToldAsTyped /\ Watched /\ NoAssertionFails
-----------------------------------------------------------------------------
(* Types.                                                                  *)

\* The slot of an id.
LEMMA HashType == \A n \in Id : HASH_ID(n) \in Slot
BY SocketAssumption DEF HASH_ID, Id, Slot

\* What the types say of single elements.
LEMMA Typed ==
  ASSUME SocketTypeOK
  PROVE  /\ \A i \in Slot : /\ slot[i] \in SlotRec
                            /\ slot[i].type \in SocketType /\ slot[i].id \in Id
                            /\ slot[i].buffered \in BOOLEAN /\ slot[i].writing \in BOOLEAN
         /\ DOMAIN pipe = 1 .. Len(pipe) /\ Len(pipe) \in Nat
         /\ \A k \in DOMAIN pipe : /\ pipe[k].cmd \in {"O", "L", "S", "K", "D"}
                                   /\ pipe[k].id \in Id
         /\ DOMAIN ev = 1 .. Len(ev) /\ Len(ev) \in Nat
         /\ \A k \in DOMAIN ev : /\ ev[k] \in EventRec
                                 /\ ev[k].slot \in Slot \cup {NULL} /\ ev[k].of \in Id
                                 /\ ev[k].read \in BOOLEAN /\ ev[k].write \in BOOLEAN
         /\ \A s \in Svc : svc_pc[s] \in {"idle", "swap", "set"} /\ new[s] \in Id
         /\ \A n \in Id : phase[n] \in Phase
<1> USE DEF SocketTypeOK
<1>1. \A i \in Slot : /\ slot[i] \in SlotRec
                      /\ slot[i].type \in SocketType /\ slot[i].id \in Id
                      /\ slot[i].buffered \in BOOLEAN /\ slot[i].writing \in BOOLEAN
  BY DEF SlotRec
<1>2. /\ DOMAIN pipe = 1 .. Len(pipe) /\ Len(pipe) \in Nat
      /\ \A k \in DOMAIN pipe : pipe[k].cmd \in {"O", "L", "S", "K", "D"} /\ pipe[k].id \in Id
  <2> DEFINE Commands == [cmd : {"O", "L", "S", "K", "D"}, id : Id]
  <2>1. \A c \in Commands : c.cmd \in {"O", "L", "S", "K", "D"} /\ c.id \in Id
    OBVIOUS
  <2>2. pipe \in Seq(Commands)
    OBVIOUS
  <2> HIDE DEF Commands
  <2>3. \A k \in DOMAIN pipe : pipe[k] \in Commands
    BY <2>2
  <2> QED
    BY <2>1, <2>2, <2>3, LenProperties
<1>3. /\ DOMAIN ev = 1 .. Len(ev) /\ Len(ev) \in Nat
      /\ \A k \in DOMAIN ev : /\ ev[k] \in EventRec
                              /\ ev[k].slot \in Slot \cup {NULL} /\ ev[k].of \in Id
                              /\ ev[k].read \in BOOLEAN /\ ev[k].write \in BOOLEAN
  <2>1. \A e \in EventRec : /\ e.slot \in Slot \cup {NULL} /\ e.of \in Id
                            /\ e.read \in BOOLEAN /\ e.write \in BOOLEAN
    BY DEF EventRec
  <2>2. ev \in Seq(EventRec)
    BY DEF EventRec
  <2> HIDE DEF SocketTypeOK
  <2>3. \A k \in DOMAIN ev : ev[k] \in EventRec
    BY <2>2
  <2> QED
    BY <2>1, <2>2, <2>3, LenProperties
<1>4. \A s \in Svc : svc_pc[s] \in {"idle", "swap", "set"} /\ new[s] \in Id
  OBVIOUS
<1>5. \A n \in Id : phase[n] \in Phase
  BY DEF Phase
<1> QED
  BY <1>1, <1>2, <1>3, <1>4, <1>5

\* A queue without its first element.
LEMMA TailOf ==
  ASSUME NEW S, NEW q \in Seq(S), q # <<>>
  PROVE  /\ Tail(q) \in Seq(S) /\ Len(q) \in Nat \ {0} /\ Len(Tail(q)) = Len(q) - 1
         /\ DOMAIN Tail(q) = 1 .. Len(q) - 1
         /\ \A k \in DOMAIN Tail(q) : Tail(q)[k] = q[k + 1] /\ k + 1 \in DOMAIN q
         /\ 1 \in DOMAIN q /\ Head(q) = q[1] /\ Head(q) \in S
<1>1. Len(q) \in Nat \ {0} /\ Head(q) = q[1] /\ q[1] \in S
  BY EmptySeq
<1>2. /\ Tail(q) \in Seq(S) /\ Len(Tail(q)) = Len(q) - 1
      /\ \A k \in 1 .. Len(q) - 1 : Tail(q)[k] = q[k + 1]
  BY HeadTailProperties
<1> QED
  BY <1>1, <1>2, LenProperties
-----------------------------------------------------------------------------
(* Steps of the socket thread.                                             *)

\* The pipe is left alone, or a command is taken that makes no socket.
PipeKept == \/ pipe' = pipe
            \/ pipe # <<>> /\ pipe' = Tail(pipe) /\ ~Makes(1)

\* The events are left alone, or the first is done, wholly or but for its write.
EventsGoOn ==
  \/ ev' = ev
  \/ ev # <<>> /\ ev' = Tail(ev)
  \/ ev # <<>> /\ ev' = <<[Head(ev) EXCEPT !.read = FALSE]>> \o Tail(ev)

\* What every step of the thread leaves as it is, but for its own position.
ThreadGoesOn ==
  /\ sock_pc # "clear" /\ sock_pc' \in {"poll", "event", "clear"} /\ closed' \in Id
  /\ checkctrl' \in BOOLEAN
  /\ UNCHANGED <<alloc_id, services, aborted>>

\* Each event that is left was there.
LEMMA EventsWereThere ==
  ASSUME SocketTypeOK, EventsGoOn
  PROVE  /\ ev' \in Seq(EventRec)
         /\ DOMAIN ev' \subseteq Int
         /\ \E d \in {0, 1} :
              /\ d = 1 <=> ev' # ev /\ ev' = Tail(ev)
              /\ \A k \in DOMAIN ev' :
                   /\ k + d \in DOMAIN ev
                   /\ ev'[k].slot = ev[k + d].slot /\ ev'[k].of = ev[k + d].of
<1>0. ev \in Seq(EventRec)
  BY DEF SocketTypeOK, EventRec
<1>1. CASE ev' = ev
  <2>1. \A k \in DOMAIN ev' : k + 0 = k
    BY <1>0, <1>1
  <2> QED
    BY <1>0, <1>1, <2>1
<1>2. CASE ev # <<>> /\ ev' = Tail(ev)
  <2>1. ev' # ev
    BY <1>0, <1>2, TailOf
  <2> QED
    BY <1>0, <1>2, <2>1, TailOf
<1>3. CASE ev # <<>> /\ ev' = <<[Head(ev) EXCEPT !.read = FALSE]>> \o Tail(ev)
  <2> DEFINE h == [Head(ev) EXCEPT !.read = FALSE]
  <2>1. h \in EventRec /\ h.slot = ev[1].slot /\ h.of = ev[1].of
    <3>1. Head(ev) = ev[1] /\ Head(ev) \in EventRec
      BY <1>0, <1>3, TailOf
    <3> QED
      BY <3>1 DEF EventRec
  <2>2. <<h>> \in Seq(EventRec) /\ Len(<<h>>) = 1 /\ <<h>>[1] = h
    BY <2>1
  <2> HIDE DEF h
  <2>3. /\ ev' \in Seq(EventRec) /\ Len(ev') = Len(ev)
        /\ \A k \in 1 .. Len(ev') : ev'[k] = IF k <= 1 THEN <<h>>[k] ELSE Tail(ev)[k - 1]
    BY <1>0, <1>3, <2>2, TailOf, ConcatProperties DEF h
  <2>4. \A k \in DOMAIN ev' :
          /\ k \in DOMAIN ev
          /\ ev'[k].slot = ev[k].slot /\ ev'[k].of = ev[k].of
    <3> SUFFICES ASSUME NEW k \in DOMAIN ev'
                 PROVE  /\ k \in DOMAIN ev
                        /\ ev'[k].slot = ev[k].slot /\ ev'[k].of = ev[k].of
      OBVIOUS
    <3>1. DOMAIN ev' = 1 .. Len(ev) /\ DOMAIN ev = 1 .. Len(ev) /\ Len(ev) \in Nat \ {0}
      BY <1>0, <1>3, <2>3, TailOf, LenProperties
    <3>2. CASE k = 1
      BY <2>1, <2>2, <2>3, <3>1, <3>2
    <3>3. CASE k # 1
      <4>1. k - 1 \in DOMAIN Tail(ev) /\ (k - 1) + 1 = k
        BY <1>0, <1>3, <3>1, <3>3, TailOf
      <4>2. Tail(ev)[k - 1] = ev[k]
        BY <1>0, <1>3, <4>1, TailOf
      <4> QED
        BY <2>3, <3>1, <3>3, <4>1, <4>2
    <3> QED
      BY <3>2, <3>3
  <2>5. ~(ev' # ev /\ ev' = Tail(ev))
    <3>1. Len(ev') = Len(ev) /\ Len(ev) \in Nat /\ Len(Tail(ev)) = Len(ev) - 1
      BY <1>0, <1>3, <2>3, TailOf
    <3> QED
      BY <3>1
  <2>6. \A k \in DOMAIN ev' : k + 0 = k
    BY <2>3
  <2>7. DOMAIN ev' \subseteq Int
    BY <2>3
  <2> QED
    BY <2>3, <2>4, <2>5, <2>6, <2>7
<1> QED
  BY <1>1, <1>2, <1>3 DEF EventsGoOn

\* Each command that is left was there.
LEMMA CommandsWereThere ==
  ASSUME SocketTypeOK, pipe' = pipe \/ (pipe # <<>> /\ pipe' = Tail(pipe))
  PROVE  /\ pipe' \in Seq(CommandRec)
         /\ DOMAIN pipe' \subseteq Int /\ DOMAIN pipe \subseteq Int
         /\ \E d \in {0, 1} :
              /\ d = 0 => pipe' = pipe
              /\ d = 1 => pipe # <<>> /\ pipe' = Tail(pipe) /\ 1 \in DOMAIN pipe
              /\ \A k \in DOMAIN pipe' : k + d \in DOMAIN pipe /\ pipe'[k] = pipe[k + d]
              /\ \A k \in DOMAIN pipe : (d = 1 => k # 1) =>
                   \E j \in DOMAIN pipe' : k = j + d
<1>0. pipe \in Seq(CommandRec)
  BY DEF SocketTypeOK, CommandRec
<1>1. CASE pipe' = pipe
  <2>1. \A k \in DOMAIN pipe : k \in Int /\ k + 0 = k
    BY <1>0
  <2> QED
    BY <1>0, <1>1, <2>1
<1>2. CASE pipe # <<>> /\ pipe' = Tail(pipe)
  <2>1. /\ pipe' \in Seq(CommandRec) /\ Len(pipe) \in Nat \ {0}
        /\ DOMAIN pipe' = 1 .. Len(pipe) - 1 /\ 1 \in DOMAIN pipe
        /\ \A k \in DOMAIN pipe' : k + 1 \in DOMAIN pipe /\ pipe'[k] = pipe[k + 1]
    BY <1>0, <1>2, TailOf
  <2>2. DOMAIN pipe = 1 .. Len(pipe)
    BY <1>0, LenProperties
  <2>3. ASSUME NEW k \in DOMAIN pipe, k # 1
        PROVE  \E j \in DOMAIN pipe' : k = j + 1
    <3>1. k - 1 \in DOMAIN pipe' /\ k = (k - 1) + 1
      BY <2>1, <2>2, <2>3
    <3> QED
      BY <3>1
  <2>4. DOMAIN pipe' \subseteq Int /\ DOMAIN pipe \subseteq Int
    BY <2>1, <2>2
  <2>5. \E d \in {0, 1} :
          /\ d = 0 => pipe' = pipe
          /\ d = 1 => pipe # <<>> /\ pipe' = Tail(pipe) /\ 1 \in DOMAIN pipe
          /\ \A k \in DOMAIN pipe' : k + d \in DOMAIN pipe /\ pipe'[k] = pipe[k + d]
          /\ \A k \in DOMAIN pipe : (d = 1 => k # 1) => \E j \in DOMAIN pipe' : k = j + d
    <3> WITNESS 1 \in {0, 1}
    <3> QED
      BY <1>2, <2>1, <2>3
  <2> QED
    BY <2>1, <2>4, <2>5
<1> QED
  BY <1>1, <1>2

\* Ids stay as they are when nobody reserves one.
LEMMA IdsStayFresh ==
  ASSUME SocketTypeOK, IdsFresh,
         UNCHANGED <<alloc_id, services>>,
         pipe' = pipe \/ (pipe # <<>> /\ pipe' = Tail(pipe)),
         \A n \in Id : phase'[n] # phase[n] => phase[n] # "unknown" /\ phase'[n] # "unknown"
  PROVE  IdsFresh'
<1>0. alloc_id' = alloc_id /\ svc_pc' = svc_pc /\ new' = new
  BY DEF services
<1>1. PICK d \in {0, 1} :
        \A k \in DOMAIN pipe' : k + d \in DOMAIN pipe /\ pipe'[k] = pipe[k + d]
  BY CommandsWereThere
<1>2. \A s \in Svc : Busy(s) => new[s] \in 1 .. alloc_id /\ phase'[new[s]] = "unknown"
  BY Typed DEF IdsFresh
<1>3. \A n \in Id : n > alloc_id \/ n = 0 => phase'[n] = "unknown"
  BY DEF IdsFresh
<1>4. \A k \in DOMAIN pipe' : phase'[pipe'[k].id] # "unknown"
  <2> TAKE k \in DOMAIN pipe'
  <2>1. k + d \in DOMAIN pipe /\ pipe'[k] = pipe[k + d]
    BY <1>1
  <2>2. pipe[k + d].id \in Id /\ phase[pipe[k + d].id] # "unknown"
    BY <2>1, Typed DEF IdsFresh
  <2> QED
    BY <2>1, <2>2
<1> QED
  BY <1>0, <1>2, <1>3, <1>4 DEF IdsFresh, Busy

\* Commands that are taken leave the others in order.
LEMMA StaysMadeFirst ==
  ASSUME SocketTypeOK, MadeFirst, pipe' = pipe \/ (pipe # <<>> /\ pipe' = Tail(pipe))
  PROVE  MadeFirst'
<1>1. PICK d \in {0, 1} :
        \A k \in DOMAIN pipe' : k + d \in DOMAIN pipe /\ pipe'[k] = pipe[k + d]
  BY CommandsWereThere
<1>2. ASSUME NEW j \in DOMAIN pipe', NEW k \in DOMAIN pipe',
             pipe'[j].cmd \in {"O", "L"}, pipe'[k].id = pipe'[j].id
      PROVE  j <= k
  <2>1. j + d <= k + d
    BY <1>1, <1>2 DEF MadeFirst, Makes
  <2>2. j \in Int /\ k \in Int
    BY CommandsWereThere
  <2> QED
    BY <2>1, <2>2
<1> QED
  BY <1>2 DEF MadeFirst, Makes

\* The slots stay as they are: an event is skipped, a command is for a socket that is
\* gone, or nothing comes of either.
SlotsStay ==
  /\ ThreadGoesOn /\ PipeKept /\ EventsGoOn
  /\ slot' = slot
  /\ \/ phase' = phase
     \/ \E n \in Id : Gone(n) /\ phase[n] # "unknown" /\ phase' = [phase EXCEPT ![n] = "ended"]

LEMMA SlotsStayKeeps ==
  ASSUME SocketInv, SlotsStay
  PROVE  SocketInv'
<1> USE DEF SocketInv
<1>0. /\ alloc_id' = alloc_id /\ svc_pc' = svc_pc /\ new' = new /\ ops' = ops
      /\ aborted' = aborted /\ slot' = slot
      /\ sock_pc # "clear" /\ sock_pc' \in {"poll", "event", "clear"} /\ closed' \in Id
      /\ checkctrl' \in BOOLEAN
      /\ pipe' = pipe \/ (pipe # <<>> /\ pipe' = Tail(pipe))
  BY DEF SlotsStay, ThreadGoesOn, services, PipeKept
<1>1. /\ phase' \in [Id -> Phase]
      /\ \A n \in Id : phase'[n] # phase[n] =>
           phase[n] # "unknown" /\ phase'[n] = "ended" /\ Gone(n)
  <2>1. phase \in [Id -> Phase]
    BY DEF SocketTypeOK, Phase
  <2>2. CASE phase' = phase
    BY <2>1, <2>2
  <2>3. ASSUME NEW n \in Id, Gone(n), phase[n] # "unknown", phase' = [phase EXCEPT ![n] = "ended"]
        PROVE  /\ phase' \in [Id -> Phase]
               /\ \A m \in Id : phase'[m] # phase[m] =>
                    phase[m] # "unknown" /\ phase'[m] = "ended" /\ Gone(m)
    <3>1. "ended" \in Phase
      BY DEF Phase
    <3> QED
      BY <2>1, <2>3, <3>1
  <2> QED
    BY <2>2, <2>3 DEF SlotsStay
<1>2. SocketTypeOK'
  <2>1. ev' \in Seq(EventRec) /\ pipe' \in Seq(CommandRec)
    BY <1>0, EventsWereThere, CommandsWereThere DEF SlotsStay
  <2> QED
    BY <1>0, <1>1, <2>1 DEF SocketTypeOK, EventRec, CommandRec, Phase
<1>3. IdsFresh'
  BY <1>0, <1>1, IdsStayFresh DEF services
<1>4. MadeFirst'
  BY <1>0, StaysMadeFirst
<1>5. ReservedOnce'
  <2>1. PICK d \in {0, 1} :
          /\ d = 0 => pipe' = pipe
          /\ d = 1 => pipe # <<>> /\ pipe' = Tail(pipe) /\ 1 \in DOMAIN pipe
          /\ \A k \in DOMAIN pipe' : k + d \in DOMAIN pipe /\ pipe'[k] = pipe[k + d]
          /\ \A k \in DOMAIN pipe : (d = 1 => k # 1) => \E j \in DOMAIN pipe' : k = j + d
    BY <1>0, CommandsWereThere
  <2>2. d = 1 => ~Makes(1)
    <3>1. d = 1 => pipe' # pipe
      BY <2>1, TailOf DEF SocketTypeOK
    <3> QED
      BY <2>1, <3>1 DEF SlotsStay, PipeKept
  <2>3. ASSUME NEW k \in DOMAIN pipe', pipe'[k].cmd \in {"O", "L"}
        PROVE  /\ slot[HASH_ID(pipe'[k].id)].type = "RESERVE"
               /\ slot[HASH_ID(pipe'[k].id)].id = pipe'[k].id
               /\ phase'[pipe'[k].id] = "none"
               /\ \A s \in Svc : ~Sets(s, HASH_ID(pipe'[k].id))
    <3>1. k + d \in DOMAIN pipe /\ pipe'[k] = pipe[k + d] /\ Makes(k + d)
      BY <2>1, <2>3 DEF Makes
    <3>2. /\ slot[HASH_ID(pipe'[k].id)].type = "RESERVE"
          /\ slot[HASH_ID(pipe'[k].id)].id = pipe'[k].id
          /\ phase[pipe'[k].id] = "none" /\ pipe'[k].id \in Id
          /\ \A s \in Svc : ~Sets(s, HASH_ID(pipe'[k].id))
      BY <3>1, Typed DEF ReservedOnce
    <3>3. ~Gone(pipe'[k].id)
      BY <3>2 DEF Gone
    <3> QED
      BY <1>1, <3>2, <3>3
  <2>4. ASSUME NEW i \in Slot, slot[i].type = "RESERVE"
        PROVE  \/ \E s \in Svc : Sets(s, i)
               \/ \E k \in DOMAIN pipe' : pipe'[k].cmd \in {"O", "L"} /\ HASH_ID(pipe'[k].id) = i
    <3>1. CASE \E k \in DOMAIN pipe : Makes(k) /\ HASH_ID(pipe[k].id) = i
      <4>1. PICK k \in DOMAIN pipe : Makes(k) /\ HASH_ID(pipe[k].id) = i
        BY <3>1
      <4>2. PICK j \in DOMAIN pipe' : k = j + d
        BY <2>1, <2>2, <4>1
      <4> QED
        BY <2>1, <4>1, <4>2 DEF Makes
    <3> QED
      BY <2>4, <3>1 DEF ReservedOnce
  <2> QED
    BY <1>0, <2>3, <2>4 DEF ReservedOnce, Makes, Sets
<1>6. EventsKept'
  <2>1. PICK d \in {0, 1} :
          \A k \in DOMAIN ev' :
            /\ k + d \in DOMAIN ev
            /\ ev'[k].slot = ev[k + d].slot /\ ev'[k].of = ev[k + d].of
    BY EventsWereThere DEF SlotsStay
  <2>2. \A k \in DOMAIN ev' : ev'[k].slot # NULL =>
          slot[ev'[k].slot].id = ev'[k].of /\ slot[ev'[k].slot].type \in Polled
    BY <1>0, <2>1 DEF EventsKept
  <2>3. \A j, k \in DOMAIN ev' : j # k /\ ev'[j].slot = ev'[k].slot => ev'[j].slot = NULL
    <3> SUFFICES ASSUME NEW j \in DOMAIN ev', NEW k \in DOMAIN ev', j # k,
                        ev'[j].slot = ev'[k].slot
                 PROVE  ev'[j].slot = NULL
      OBVIOUS
    <3>1. j + d # k + d
      BY EventsWereThere DEF SlotsStay
    <3> QED
      BY <2>1, <3>1 DEF EventsKept
  <2> QED
    BY <1>0, <2>2, <2>3 DEF EventsKept
<1>7. ToldAsTyped'
  <2>1. ASSUME NEW i \in Slot, slot[i].type \notin {"INVALID", "RESERVE"}
        PROVE  HASH_ID(slot[i].id) = i /\ phase'[slot[i].id] = KnownOf(slot[i].type)
    <3>1. HASH_ID(slot[i].id) = i /\ phase[slot[i].id] = KnownOf(slot[i].type)
      BY <2>1 DEF ToldAsTyped
    <3>2. slot[i].id \in Id /\ ~Gone(slot[i].id)
      BY <2>1, <3>1, Typed DEF Gone
    <3> QED
      BY <1>1, <3>1, <3>2
  <2>2. \A n \in Id : phase'[n] # "wrong"
    BY <1>1 DEF ToldAsTyped, MessagesInOrder
  <2> QED
    BY <1>0, <2>1, <2>2 DEF ToldAsTyped, MessagesInOrder
<1>8. Watched' /\ NoAssertionFails'
  BY <1>0 DEF Watched, BufferedIsWatched, NoAssertionFails
<1> QED
  BY <1>2, <1>3, <1>4, <1>5, <1>6, <1>7, <1>8

\* The socket of slot i changes, with what its service is told; a command that makes a
\* socket finds it reserved, all else finds it made.
SocketMoves(i) ==
  /\ ThreadGoesOn /\ EventsGoOn
  /\ slot[i].type # "INVALID"
  /\ \/ slot[i].type # "RESERVE" /\ PipeKept
     \/ pipe # <<>> /\ pipe' = Tail(pipe) /\ Makes(1) /\ HASH_ID(pipe[1].id) = i
  /\ slot' \in [Slot -> SlotRec] /\ slot'[i].id = slot[i].id
  /\ \A j \in Slot : j # i => slot'[j] = slot[j]
  /\ phase' \in [Id -> Phase] /\ phase'[slot[i].id] \notin {"unknown", "wrong"}
  /\ \A n \in Id : n # slot[i].id => phase'[n] = phase[n]
  /\ slot'[i].type # "RESERVE"
  /\ slot'[i].type # "INVALID" => phase'[slot[i].id] = KnownOf(slot'[i].type)
  /\ slot'[i].buffered => slot'[i].type \in {"CONNECTING", "CONNECTED", "HALFCLOSE"}
                          /\ slot'[i].writing
  /\ slot'[i].type = "CONNECTING" => slot'[i].writing
  /\ slot[i].type \in Polled /\ slot'[i].type \notin Polled =>
       \/ slot'[i].type = "INVALID" /\ sock_pc' = "clear" /\ closed' = slot[i].id
       \/ ev # <<>> /\ Head(ev).slot = i /\ ev' = Tail(ev)

\* The slot of a socket that is there is that of its id.
LEMMA OwnSlot ==
  ASSUME SocketInv, NEW i \in Slot, slot[i].type # "INVALID",
         slot[i].type = "RESERVE" => 1 \in DOMAIN pipe /\ Makes(1) /\ HASH_ID(pipe[1].id) = i
  PROVE  /\ HASH_ID(slot[i].id) = i /\ slot[i].id \in Id
         /\ phase[slot[i].id] # "unknown"
         /\ slot[i].type = "RESERVE" =>
              slot[i].id = pipe[1].id /\ \A s \in Svc : ~Sets(s, i)
<1> USE DEF SocketInv
<1>1. CASE slot[i].type = "RESERVE"
  BY <1>1, Typed DEF ReservedOnce
<1>2. CASE slot[i].type # "RESERVE"
  BY <1>2, Typed DEF ToldAsTyped, KnownOf
<1> QED
  BY <1>1, <1>2

LEMMA SocketMovesKeeps ==
  ASSUME SocketInv, NEW i \in Slot, SocketMoves(i)
  PROVE  SocketInv'
<1> USE DEF SocketInv
<1> DEFINE id == slot[i].id
<1>0. /\ alloc_id' = alloc_id /\ svc_pc' = svc_pc /\ new' = new /\ ops' = ops
      /\ aborted' = aborted
      /\ sock_pc # "clear" /\ sock_pc' \in {"poll", "event", "clear"} /\ closed' \in Id
      /\ checkctrl' \in BOOLEAN
      /\ pipe' = pipe \/ (pipe # <<>> /\ pipe' = Tail(pipe))
  BY DEF SocketMoves, ThreadGoesOn, services, PipeKept
<1>1. PICK d \in {0, 1} :
        /\ d = 0 => pipe' = pipe
        /\ d = 1 => pipe # <<>> /\ pipe' = Tail(pipe) /\ 1 \in DOMAIN pipe
        /\ \A k \in DOMAIN pipe' : k + d \in DOMAIN pipe /\ pipe'[k] = pipe[k + d]
        /\ \A k \in DOMAIN pipe : (d = 1 => k # 1) => \E j \in DOMAIN pipe' : k = j + d
  BY <1>0, CommandsWereThere
<1>2. /\ d = 1 <=> pipe # <<>> /\ pipe' = Tail(pipe)
      /\ slot[i].type = "RESERVE" =>
           d = 1 /\ 1 \in DOMAIN pipe /\ Makes(1) /\ HASH_ID(pipe[1].id) = i
      /\ slot[i].type # "RESERVE" /\ d = 1 => ~Makes(1)
  <2>1. pipe # <<>> => Tail(pipe) # pipe
    BY TailOf DEF SocketTypeOK
  <2>2. d = 1 <=> pipe # <<>> /\ pipe' = Tail(pipe)
    BY <1>1, <2>1
  <2>3. CASE slot[i].type # "RESERVE" /\ PipeKept
    BY <2>1, <2>2, <2>3 DEF PipeKept
  <2>4. CASE pipe # <<>> /\ pipe' = Tail(pipe) /\ Makes(1) /\ HASH_ID(pipe[1].id) = i
    <3>1. slot[i].type = "RESERVE"
      BY <1>1, <2>2, <2>4 DEF ReservedOnce
    <3> QED
      BY <1>1, <2>2, <2>4, <3>1
  <2> QED
    BY <2>3, <2>4 DEF SocketMoves
<1>3. /\ HASH_ID(id) = i /\ id \in Id /\ phase[id] # "unknown"
      /\ slot[i].type = "RESERVE" => id = pipe[1].id /\ \A s \in Svc : ~Sets(s, i)
  BY <1>2, OwnSlot DEF SocketMoves
<1>4. /\ slot' \in [Slot -> SlotRec] /\ slot'[i].id = id
      /\ \A j \in Slot : j # i => slot'[j] = slot[j]
      /\ phase' \in [Id -> Phase] /\ phase'[id] \notin {"unknown", "wrong"}
      /\ \A n \in Id : n # id => phase'[n] = phase[n]
      /\ slot'[i].type # "RESERVE"
      /\ slot'[i].type # "INVALID" => phase'[id] = KnownOf(slot'[i].type)
  BY DEF SocketMoves
<1> HIDE DEF id
<1>5. SocketTypeOK'
  <2>1. ev' \in Seq(EventRec) /\ pipe' \in Seq(CommandRec)
    BY <1>0, EventsWereThere, CommandsWereThere DEF SocketMoves
  <2>2. \A j \in Slot : HASH_ID(slot'[j].id) = j \/ slot'[j].id = 0
    BY <1>3, <1>4 DEF SocketTypeOK
  <2> QED
    BY <1>0, <1>4, <2>1, <2>2 DEF SocketTypeOK, SlotRec, EventRec, CommandRec, Phase
<1>6. IdsFresh'
  <2>1. \A n \in Id : phase'[n] # phase[n] => phase[n] # "unknown" /\ phase'[n] # "unknown"
    BY <1>3, <1>4
  <2> QED
    BY <1>0, <2>1, IdsStayFresh DEF services
<1>7. MadeFirst'
  BY <1>0, StaysMadeFirst
<1>8. ReservedOnce'
  <2>1. ASSUME NEW s \in Svc, svc_pc[s] = "set"
        PROVE  slot'[HASH_ID(new[s])].type = "RESERVE"
    <3>1. slot[HASH_ID(new[s])].type = "RESERVE" /\ HASH_ID(new[s]) \in Slot
      BY <2>1, Typed, HashType DEF ReservedOnce
    <3>2. HASH_ID(new[s]) # i
      BY <1>2, <1>3, <2>1, <3>1 DEF Sets
    <3> QED
      BY <1>4, <3>1, <3>2
  <2>2. ASSUME NEW k \in DOMAIN pipe', pipe'[k].cmd \in {"O", "L"}
        PROVE  /\ slot'[HASH_ID(pipe'[k].id)].type = "RESERVE"
               /\ slot'[HASH_ID(pipe'[k].id)].id = pipe'[k].id
               /\ phase'[pipe'[k].id] = "none"
               /\ \A s \in Svc : ~Sets(s, HASH_ID(pipe'[k].id))
    <3>1. k + d \in DOMAIN pipe /\ pipe'[k] = pipe[k + d] /\ Makes(k + d)
      BY <1>1, <2>2 DEF Makes
    <3> DEFINE n == pipe'[k].id
    <3>2. /\ slot[HASH_ID(n)].type = "RESERVE" /\ slot[HASH_ID(n)].id = n
          /\ phase[n] = "none" /\ n \in Id /\ HASH_ID(n) \in Slot
          /\ \A s \in Svc : ~Sets(s, HASH_ID(n))
      BY <3>1, Typed, HashType DEF ReservedOnce
    <3>3. HASH_ID(n) # i
      <4>1. SUFFICES ASSUME HASH_ID(n) = i PROVE FALSE
        OBVIOUS
      <4>2. d = 1 /\ 1 \in DOMAIN pipe /\ pipe[1].id = pipe[k + d].id
        BY <1>2, <1>3, <3>1, <3>2, <4>1 DEF id
      <4>3. k + 1 <= 1
        BY <3>1, <4>2 DEF MadeFirst
      <4>4. pipe' \in Seq(CommandRec) /\ k \in Nat \ {0}
        BY <1>0, CommandsWereThere
      <4> QED
        BY <4>3, <4>4
    <3>4. n # id
      BY <1>3, <3>3
    <3> QED
      BY <1>4, <3>2, <3>3, <3>4
  <2>3. ASSUME NEW j \in Slot, slot'[j].type = "RESERVE"
        PROVE  \/ \E s \in Svc : Sets(s, j)
               \/ \E k \in DOMAIN pipe' : pipe'[k].cmd \in {"O", "L"} /\ HASH_ID(pipe'[k].id) = j
    <3>1. j # i /\ slot[j].type = "RESERVE"
      BY <1>4, <2>3
    <3>2. CASE \E k \in DOMAIN pipe : Makes(k) /\ HASH_ID(pipe[k].id) = j
      <4>1. PICK k \in DOMAIN pipe : Makes(k) /\ HASH_ID(pipe[k].id) = j
        BY <3>2
      <4>2. d = 1 => k # 1
        BY <1>2, <3>1, <4>1
      <4>3. PICK l \in DOMAIN pipe' : k = l + d
        BY <1>1, <4>1, <4>2
      <4> QED
        BY <1>1, <4>1, <4>3 DEF Makes
    <3> QED
      BY <3>1, <3>2 DEF ReservedOnce
  <2>4. \A s, u \in Svc : svc_pc[s] = "set" /\ Sets(u, HASH_ID(new[s])) => s = u
    BY DEF ReservedOnce
  <2> QED
    BY <1>0, <2>1, <2>2, <2>3, <2>4 DEF ReservedOnce, Makes, Sets
<1>9. EventsKept'
  <2>1. PICK e \in {0, 1} :
          /\ e = 1 <=> ev' # ev /\ ev' = Tail(ev)
          /\ \A k \in DOMAIN ev' :
               /\ k + e \in DOMAIN ev
               /\ ev'[k].slot = ev[k + e].slot /\ ev'[k].of = ev[k + e].of
    BY EventsWereThere DEF SocketMoves
  <2>2. ASSUME NEW k \in DOMAIN ev', ev'[k].slot # NULL
        PROVE  /\ slot'[ev'[k].slot].id = ev'[k].of
               /\ \/ slot'[ev'[k].slot].type \in Polled
                  \/ /\ slot'[ev'[k].slot].type = "INVALID"
                     /\ sock_pc' = "clear" /\ closed' = ev'[k].of
                     /\ HASH_ID(closed') = ev'[k].slot
    <3> DEFINE j == ev'[k].slot
    <3>1. /\ j \in Slot /\ k + e \in DOMAIN ev /\ ev[k + e].slot = j
          /\ slot[j].id = ev'[k].of /\ slot[j].type \in Polled
      BY <1>0, <2>1, <2>2, Typed DEF EventsKept
    <3>2. CASE j # i
      BY <1>4, <3>1, <3>2
    <3>3. CASE j = i /\ slot'[i].type \in Polled
      BY <1>4, <3>1, <3>3 DEF id
    <3>4. CASE j = i /\ slot'[i].type = "INVALID" /\ sock_pc' = "clear" /\ closed' = id
      BY <1>3, <1>4, <3>1, <3>4 DEF id
    <3>5. CASE j = i /\ ev # <<>> /\ Head(ev).slot = i /\ ev' = Tail(ev)
      <4>1. ev' # ev /\ Head(ev) = ev[1] /\ 1 \in DOMAIN ev /\ k \in Int /\ k # 0
        BY <3>5, TailOf DEF SocketTypeOK
      <4>2. k + e # 1
        BY <2>1, <3>5, <4>1
      <4>3. ev[1].slot = NULL
        BY <3>1, <3>5, <4>1, <4>2 DEF EventsKept
      <4> QED
        BY <2>2, <3>5, <4>1, <4>3
    <3> QED
      BY <3>1, <3>2, <3>3, <3>4, <3>5 DEF SocketMoves, id
  <2>3. ASSUME NEW j \in DOMAIN ev', NEW k \in DOMAIN ev', j # k, ev'[j].slot = ev'[k].slot
        PROVE  ev'[j].slot = NULL
    <3>1. j + e # k + e
      BY <2>3, EventsWereThere DEF SocketMoves
    <3> QED
      BY <2>1, <2>3, <3>1 DEF EventsKept
  <2> QED
    BY <2>2, <2>3 DEF EventsKept
<1>10. ToldAsTyped'
  <2>1. ASSUME NEW j \in Slot, slot'[j].type \notin {"INVALID", "RESERVE"}
        PROVE  HASH_ID(slot'[j].id) = j /\ phase'[slot'[j].id] = KnownOf(slot'[j].type)
    <3>1. CASE j = i
      BY <1>3, <1>4, <2>1, <3>1
    <3>2. CASE j # i
      <4>1. HASH_ID(slot[j].id) = j /\ phase[slot[j].id] = KnownOf(slot[j].type)
        BY <1>4, <2>1, <3>2 DEF ToldAsTyped
      <4>2. slot[j].id \in Id /\ slot[j].id # id
        BY <1>3, <3>2, <4>1, Typed
      <4> QED
        BY <1>4, <3>2, <4>1, <4>2
    <3> QED
      BY <3>1, <3>2
  <2>2. \A n \in Id : phase'[n] # "wrong"
    BY <1>3, <1>4 DEF ToldAsTyped, MessagesInOrder
  <2> QED
    BY <2>1, <2>2 DEF ToldAsTyped, MessagesInOrder
<1>11. Watched'
  <2>1. ASSUME NEW j \in Slot
        PROVE  /\ slot'[j].buffered => slot'[j].type \in {"CONNECTING", "CONNECTED", "HALFCLOSE"}
                                       /\ slot'[j].writing
               /\ slot'[j].type = "CONNECTING" => slot'[j].writing
    <3>1. CASE j = i
      BY <3>1 DEF SocketMoves
    <3>2. CASE j # i
      BY <1>4, <3>2 DEF Watched, BufferedIsWatched
    <3> QED
      BY <3>1, <3>2
  <2> QED
    BY <2>1 DEF Watched, BufferedIsWatched
<1>12. NoAssertionFails'
  BY <1>0 DEF NoAssertionFails
<1> QED
  BY <1>5, <1>6, <1>7, <1>8, <1>9, <1>10, <1>11, <1>12
-----------------------------------------------------------------------------
(* Steps of the services.                                                  *)

\* A queue with one element more.
LEMMA AppendOf ==
  ASSUME NEW S, NEW q \in Seq(S), NEW e \in S
  PROVE  /\ Append(q, e) \in Seq(S)
         /\ DOMAIN q = 1 .. Len(q) /\ Len(q) \in Nat
         /\ DOMAIN Append(q, e) = 1 .. Len(q) + 1
         /\ \A k \in DOMAIN Append(q, e) :
              Append(q, e)[k] = IF k <= Len(q) THEN q[k] ELSE e
BY AppendProperties, LenProperties

\* Events are untouched by services, and so is what they meet in slots that are taken.
LEMMA EventsUntouched ==
  ASSUME SocketTypeOK, EventsKept, UNCHANGED <<ev, sock_pc, closed>>,
         \A i \in Slot : /\ slot[i].type \in Polled => slot'[i] = slot[i]
                         /\ slot[i].type = "INVALID" /\ sock_pc = "clear" /\ HASH_ID(closed) = i
                              => slot'[i] = slot[i]
  PROVE  EventsKept'
<1>1. \A k \in DOMAIN ev : ev[k].slot # NULL => ev[k].slot \in Slot
  BY Typed
<1> QED
  BY <1>1 DEF EventsKept

\* reserve_id, the next id.
LEMMA ReserveNextKeeps ==
  ASSUME SocketInv, NEW s \in Svc, ReserveNext(s)
  PROVE  SocketInv'
<1> USE DEF SocketInv
<1>0. /\ svc_pc[s] = "idle" /\ alloc_id' = alloc_id + 1 /\ alloc_id + 1 \in Id
      /\ slot' = slot /\ ops' = ops /\ pipe' = pipe /\ phase' = phase /\ ev' = ev
      /\ checkctrl' = checkctrl /\ sock_pc' = sock_pc /\ closed' = closed /\ aborted' = aborted
  BY SocketAssumption DEF ReserveNext, threadVars, SocketTypeOK, Id
<1>1. \/ svc_pc' = svc_pc /\ new' = new
      \/ svc_pc' = [svc_pc EXCEPT ![s] = "swap"] /\ new' = [new EXCEPT ![s] = alloc_id + 1]
  BY DEF ReserveNext
<1>2. alloc_id \in Nat /\ alloc_id + 1 > alloc_id /\ alloc_id + 1 # 0
  BY DEF SocketTypeOK, Id
<1>3. SocketTypeOK'
  <2>1. alloc_id' \in Id
    BY <1>0
  <2>2. svc_pc' \in [Svc -> {"idle", "swap", "set"}] /\ new' \in [Svc -> Id]
    BY <1>0, <1>1 DEF SocketTypeOK
  <2> QED
    BY <1>0, <2>1, <2>2 DEF SocketTypeOK
<1>4. phase[alloc_id + 1] = "unknown"
  BY <1>0, <1>2 DEF IdsFresh
<1>5. ASSUME NEW u \in Svc
      PROVE  /\ svc_pc'[u] = "set" <=> svc_pc[u] = "set"
             /\ svc_pc[u] = "set" => new'[u] = new[u]
             /\ svc_pc'[u] # "idle" => /\ new'[u] \in 1 .. alloc_id'
                                       /\ phase[new'[u]] = "unknown"
             /\ svc_pc'[u] # "idle" /\ svc_pc[u] # "idle" => new'[u] = new[u] /\ new[u] \in 1 .. alloc_id
             /\ svc_pc'[u] # "idle" /\ svc_pc[u] = "idle" => u = s /\ new'[u] = alloc_id + 1
  <2>1. svc_pc[u] # "idle" => new[u] \in 1 .. alloc_id /\ phase[new[u]] = "unknown"
    BY DEF IdsFresh, Busy
  <2>2. CASE svc_pc' = svc_pc /\ new' = new
    BY <1>0, <1>2, <2>1, <2>2
  <2>3. CASE /\ svc_pc' = [svc_pc EXCEPT ![s] = "swap"]
             /\ new' = [new EXCEPT ![s] = alloc_id + 1]
    <3>1. CASE u = s
      <4>1. svc_pc'[u] = "swap" /\ new'[u] = alloc_id + 1
        BY <2>3, <3>1 DEF SocketTypeOK
      <4> QED
        BY <1>0, <1>2, <1>4, <3>1, <4>1
    <3>2. CASE u # s
      <4>1. svc_pc'[u] = svc_pc[u] /\ new'[u] = new[u]
        BY <2>3, <3>2 DEF SocketTypeOK
      <4> QED
        BY <1>0, <1>2, <2>1, <3>2, <4>1
    <3> QED
      BY <3>1, <3>2
  <2> QED
    BY <1>1, <2>2, <2>3
<1>6. IdsFresh'
  <2>1. \A t, u \in Svc : t # u /\ svc_pc'[t] # "idle" /\ svc_pc'[u] # "idle" => new'[t] # new'[u]
    <3> SUFFICES ASSUME NEW t \in Svc, NEW u \in Svc, t # u,
                        svc_pc'[t] # "idle", svc_pc'[u] # "idle"
                 PROVE  new'[t] # new'[u]
      OBVIOUS
    <3>1. CASE svc_pc[t] # "idle" /\ svc_pc[u] # "idle"
      BY <1>5, <3>1 DEF IdsFresh, Busy
    <3>2. CASE svc_pc[t] = "idle"
      <4>1. new'[t] = alloc_id + 1 /\ new'[u] \in 1 .. alloc_id
        BY <1>5, <3>2
      <4> QED
        BY <1>2, <4>1
    <3>3. CASE svc_pc[u] = "idle"
      <4>1. new'[u] = alloc_id + 1 /\ new'[t] \in 1 .. alloc_id
        BY <1>5, <3>3
      <4> QED
        BY <1>2, <4>1
    <3> QED
      BY <3>1, <3>2, <3>3
  <2>2. \A n \in Id : n > alloc_id' \/ n = 0 => phase[n] = "unknown"
    BY <1>0, <1>2 DEF IdsFresh, Id
  <2> QED
    BY <1>0, <1>5, <2>1, <2>2 DEF IdsFresh, Busy
<1>7. ReservedOnce'
  BY <1>0, <1>5 DEF ReservedOnce, Sets, Makes
<1>8. MadeFirst' /\ ToldAsTyped' /\ Watched' /\ NoAssertionFails'
  BY <1>0 DEF MadeFirst, Makes, ToldAsTyped, MessagesInOrder, Watched, BufferedIsWatched,
              NoAssertionFails
<1>9. EventsKept'
  BY <1>0, EventsUntouched
<1> QED
  BY <1>3, <1>6, <1>7, <1>8, <1>9

\* reserve_id, the compare-and-swap.
LEMMA ReserveSwapKeeps ==
  ASSUME SocketInv, Quiet, NEW s \in Svc, ReserveSwap(s)
  PROVE  SocketInv'
<1> USE DEF SocketInv
<1> DEFINE i == HASH_ID(new[s])
<1>0. /\ svc_pc[s] = "swap" /\ alloc_id' = alloc_id /\ new' = new
      /\ ops' = ops /\ pipe' = pipe /\ phase' = phase /\ ev' = ev
      /\ checkctrl' = checkctrl /\ sock_pc' = sock_pc /\ closed' = closed /\ aborted' = aborted
      /\ ~Closing(i) /\ i \in Slot
  BY Typed, HashType DEF ReserveSwap, threadVars
<1> HIDE DEF i
<1>1. CASE slot[i].type = "INVALID"
  <2>1. slot' = As(i, "RESERVE") /\ svc_pc' = [svc_pc EXCEPT ![s] = "set"]
    BY <1>1 DEF ReserveSwap, i
  <2>2. /\ slot' \in [Slot -> SlotRec] /\ slot'[i].type = "RESERVE" /\ slot'[i].id = slot[i].id
        /\ slot'[i].buffered = slot[i].buffered /\ slot'[i].writing = slot[i].writing
        /\ \A j \in Slot : j # i => slot'[j] = slot[j]
    <3>1. slot \in [Slot -> SlotRec] /\ slot[i] \in SlotRec
      BY <1>0 DEF SocketTypeOK, SlotRec
    <3>2. slot' = [slot EXCEPT ![i] = [slot[i] EXCEPT !.type = "RESERVE"]]
      BY <2>1 DEF As
    <3>3. [slot[i] EXCEPT !.type = "RESERVE"] \in SlotRec
      BY <3>1 DEF SlotRec, SocketType
    <3>4. slot'[i] = [slot[i] EXCEPT !.type = "RESERVE"]
      BY <1>0, <3>1, <3>2
    <3> QED
      BY <1>0, <3>1, <3>2, <3>3, <3>4 DEF SlotRec
  <2>3. \A u \in Svc : svc_pc'[u] = IF u = s THEN "set" ELSE svc_pc[u]
    BY <2>1 DEF SocketTypeOK
  <2>4. SocketTypeOK'
    <3>1. svc_pc' \in [Svc -> {"idle", "swap", "set"}]
      BY <2>1 DEF SocketTypeOK
    <3>2. \A j \in Slot : HASH_ID(slot'[j].id) = j \/ slot'[j].id = 0
      BY <2>2 DEF SocketTypeOK
    <3> QED
      BY <1>0, <2>2, <3>1, <3>2 DEF SocketTypeOK, SlotRec
  <2>5. IdsFresh'
    <3>1. \A u \in Svc : svc_pc'[u] # "idle" <=> svc_pc[u] # "idle"
      BY <1>0, <2>3
    <3> QED
      BY <1>0, <3>1 DEF IdsFresh, Busy
  <2>6. ReservedOnce'
    <3>1. \A u \in Svc : svc_pc[u] = "set" => HASH_ID(new[u]) # i
      BY <1>1 DEF ReservedOnce
    <3>2. \A k \in DOMAIN pipe : Makes(k) => HASH_ID(pipe[k].id) # i /\ HASH_ID(pipe[k].id) \in Slot
      BY <1>1, Typed, HashType DEF ReservedOnce
    <3>3. \A u \in Svc : svc_pc'[u] = "set" => slot'[HASH_ID(new[u])].type = "RESERVE"
      BY <2>2, <2>3, <3>1, Typed, HashType DEF ReservedOnce, i
    <3>4. \A t, u \in Svc : svc_pc'[t] = "set" /\ svc_pc'[u] = "set"
                              /\ HASH_ID(new[t]) = HASH_ID(new[u]) => t = u
      BY <2>3, <3>1 DEF ReservedOnce, Sets, i
    <3>5. \A k \in DOMAIN pipe : Makes(k) =>
            /\ slot'[HASH_ID(pipe[k].id)].type = "RESERVE"
            /\ slot'[HASH_ID(pipe[k].id)].id = pipe[k].id
            /\ phase[pipe[k].id] = "none"
            /\ \A u \in Svc : ~(svc_pc'[u] = "set" /\ HASH_ID(new[u]) = HASH_ID(pipe[k].id))
      BY <2>2, <2>3, <3>2 DEF ReservedOnce, Sets, i
    <3>6. \A j \in Slot : slot'[j].type = "RESERVE" =>
            \/ \E u \in Svc : svc_pc'[u] = "set" /\ HASH_ID(new[u]) = j
            \/ \E k \in DOMAIN pipe : Makes(k) /\ HASH_ID(pipe[k].id) = j
      <4> SUFFICES ASSUME NEW j \in Slot, slot'[j].type = "RESERVE"
                   PROVE  \/ \E u \in Svc : svc_pc'[u] = "set" /\ HASH_ID(new[u]) = j
                          \/ \E k \in DOMAIN pipe : Makes(k) /\ HASH_ID(pipe[k].id) = j
        OBVIOUS
      <4>1. CASE j = i
        BY <2>3, <4>1 DEF i
      <4>2. CASE j # i
        BY <1>0, <2>2, <2>3, <4>2 DEF ReservedOnce, Sets
      <4> QED
        BY <4>1, <4>2
    <3> QED
      BY <1>0, <3>3, <3>4, <3>5, <3>6 DEF ReservedOnce, Sets, Makes
  <2>7. MadeFirst' /\ NoAssertionFails'
    BY <1>0 DEF MadeFirst, Makes, NoAssertionFails
  <2>8. EventsKept'
    BY <1>0, <1>1, <2>2, EventsUntouched DEF Closing, Polled
  <2>9. ToldAsTyped'
    BY <1>0, <2>2 DEF ToldAsTyped, MessagesInOrder
  <2>10. Watched'
    BY <1>1, <2>2 DEF Watched, BufferedIsWatched
  <2> QED
    BY <2>4, <2>5, <2>6, <2>7, <2>8, <2>9, <2>10
<1>2. CASE slot[i].type # "INVALID"
  <2>1. slot' = slot /\ svc_pc' = [svc_pc EXCEPT ![s] = "idle"]
    BY <1>2 DEF ReserveSwap, i
  <2>2. \A u \in Svc : svc_pc'[u] = IF u = s THEN "idle" ELSE svc_pc[u]
    BY <2>1 DEF SocketTypeOK
  <2>3. SocketTypeOK'
    <3>1. svc_pc' \in [Svc -> {"idle", "swap", "set"}]
      BY <2>1 DEF SocketTypeOK
    <3> QED
      BY <1>0, <2>1, <3>1 DEF SocketTypeOK
  <2>4. IdsFresh'
    BY <1>0, <2>2 DEF IdsFresh, Busy
  <2>5. ReservedOnce'
    <3>1. \A u \in Svc : svc_pc'[u] = "set" <=> svc_pc[u] = "set"
      BY <1>0, <2>2
    <3> QED
      BY <1>0, <2>1, <3>1 DEF ReservedOnce, Sets, Makes
  <2>6. MadeFirst' /\ ToldAsTyped' /\ Watched' /\ NoAssertionFails'
    BY <1>0, <2>1 DEF MadeFirst, Makes, ToldAsTyped, MessagesInOrder, Watched,
                      BufferedIsWatched, NoAssertionFails
  <2>7. EventsKept'
    BY <1>0, <2>1, EventsUntouched
  <2> QED
    BY <2>3, <2>4, <2>5, <2>6, <2>7
<1> QED
  BY <1>1, <1>2

\* reserve_id stores the id, and the command for it is sent.
LEMMA ReserveSetKeeps ==
  ASSUME SocketInv, NEW s \in Svc, ReserveSet(s)
  PROVE  SocketInv'
<1> USE DEF SocketInv
<1> DEFINE n == new[s]
           i == HASH_ID(n)
<1>0. /\ svc_pc[s] = "set" /\ alloc_id' = alloc_id
      /\ svc_pc' = [svc_pc EXCEPT ![s] = "idle"] /\ new' = [new EXCEPT ![s] = 0]
      /\ slot' = [slot EXCEPT ![i].id = n]
      /\ phase' = [phase EXCEPT ![n] = "none"]
      /\ ops' = ops + 1 /\ ev' = ev
      /\ checkctrl' = checkctrl /\ sock_pc' = sock_pc /\ closed' = closed /\ aborted' = aborted
  BY DEF ReserveSet, threadVars
<1>1. PICK c \in {"O", "L"} : pipe' = Append(pipe, [cmd |-> c, id |-> n])
  BY DEF ReserveSet, Command
<1>2. /\ n \in Id /\ i \in Slot /\ phase[n] = "unknown" /\ slot[i].type = "RESERVE"
      /\ 0 \in Id
  BY <1>0, Typed, HashType, SocketAssumption DEF IdsFresh, ReservedOnce, Busy, Id
<1> DEFINE e == [cmd |-> c, id |-> n]
<1>3. /\ pipe \in Seq(CommandRec) /\ e \in CommandRec
  BY <1>2 DEF SocketTypeOK, CommandRec
<1>4. /\ pipe' \in Seq(CommandRec) /\ Len(pipe) \in Nat
      /\ DOMAIN pipe = 1 .. Len(pipe) /\ DOMAIN pipe' = 1 .. Len(pipe) + 1
      /\ \A k \in DOMAIN pipe' : pipe'[k] = IF k <= Len(pipe) THEN pipe[k] ELSE e
  <2> HIDE DEF e
  <2>1. pipe' = Append(pipe, e)
    BY <1>1 DEF e
  <2> QED
    BY <1>3, <2>1, AppendOf
<1>5. /\ e.cmd \in {"O", "L"} /\ e.id = n
  OBVIOUS
<1> HIDE DEF e
<1>6. \A u \in Svc : /\ svc_pc'[u] = IF u = s THEN "idle" ELSE svc_pc[u]
                     /\ new'[u] = IF u = s THEN 0 ELSE new[u]
  BY <1>0 DEF SocketTypeOK
<1>7. /\ phase' \in [Id -> Phase] /\ phase'[n] = "none"
      /\ \A m \in Id : m # n => phase'[m] = phase[m]
  BY <1>0, <1>2 DEF SocketTypeOK, Phase
<1> HIDE DEF n, i
<1>8. /\ slot' \in [Slot -> SlotRec] /\ slot'[i].id = n /\ slot'[i].type = "RESERVE"
      /\ slot'[i].buffered = slot[i].buffered /\ slot'[i].writing = slot[i].writing
      /\ \A j \in Slot : j # i => slot'[j] = slot[j]
  <2>1. slot \in [Slot -> SlotRec] /\ slot[i] \in SlotRec
    BY <1>2 DEF SocketTypeOK, SlotRec
  <2>2. slot' = [slot EXCEPT ![i] = [slot[i] EXCEPT !.id = n]]
    BY <1>0 DEF i, n
  <2>3. [slot[i] EXCEPT !.id = n] \in SlotRec
    BY <1>2, <2>1 DEF SlotRec
  <2>4. slot'[i] = [slot[i] EXCEPT !.id = n]
    BY <1>2, <2>1, <2>2
  <2> QED
    BY <1>2, <2>1, <2>2, <2>3, <2>4 DEF SlotRec
<1>9. SocketTypeOK'
  <2>1. \A j \in Slot : HASH_ID(slot'[j].id) = j \/ slot'[j].id = 0
    BY <1>8 DEF SocketTypeOK, i
  <2>2. svc_pc' \in [Svc -> {"idle", "swap", "set"}] /\ new' \in [Svc -> Id]
    BY <1>0, <1>2 DEF SocketTypeOK
  <2>3. ops' \in Nat
    BY <1>0 DEF SocketTypeOK
  <2> QED
    BY <1>0, <1>4, <1>7, <1>8, <2>1, <2>2, <2>3 DEF SocketTypeOK, SlotRec, CommandRec, Phase
<1>10. \A k \in DOMAIN pipe : pipe[k].id # n /\ pipe[k].id \in Id
  BY <1>2, Typed DEF IdsFresh
<1>11. IdsFresh'
  <2>1. ASSUME NEW u \in Svc, svc_pc'[u] # "idle"
        PROVE  u # s /\ svc_pc[u] # "idle" /\ new'[u] = new[u] /\ new[u] # n
               /\ new[u] \in 1 .. alloc_id /\ phase[new[u]] = "unknown" /\ new[u] \in Id
    BY <1>0, <1>6, <2>1, Typed DEF IdsFresh, Busy, n
  <2>2. \A u \in Svc : svc_pc'[u] # "idle" => new'[u] \in 1 .. alloc_id /\ phase'[new'[u]] = "unknown"
    BY <1>7, <2>1
  <2>3. \A t, u \in Svc : t # u /\ svc_pc'[t] # "idle" /\ svc_pc'[u] # "idle" => new'[t] # new'[u]
    BY <2>1 DEF IdsFresh, Busy
  <2>4. \A m \in Id : m > alloc_id \/ m = 0 => phase'[m] = "unknown"
    <3>1. n \in 1 .. alloc_id /\ alloc_id \in Nat
      BY <1>0 DEF IdsFresh, Busy, SocketTypeOK, Id, n
    <3> QED
      BY <1>7, <3>1 DEF IdsFresh, Id
  <2>5. \A k \in DOMAIN pipe' : phase'[pipe'[k].id] # "unknown"
    <3> TAKE k \in DOMAIN pipe'
    <3>1. CASE k <= Len(pipe)
      BY <1>4, <1>7, <1>10, <3>1 DEF IdsFresh
    <3>2. CASE ~(k <= Len(pipe))
      BY <1>4, <1>5, <1>7, <3>2
    <3> QED
      BY <3>1, <3>2
  <2> QED
    BY <1>0, <2>2, <2>3, <2>4, <2>5 DEF IdsFresh, Busy
<1>12. ReservedOnce'
  <2>1. \A u \in Svc : svc_pc'[u] = "set" =>
          u # s /\ svc_pc[u] = "set" /\ new'[u] = new[u] /\ HASH_ID(new[u]) # i
    BY <1>0, <1>6 DEF ReservedOnce, Sets, i, n
  <2>2. \A u \in Svc : svc_pc'[u] = "set" => slot'[HASH_ID(new'[u])].type = "RESERVE"
    BY <1>8, <2>1, Typed, HashType DEF ReservedOnce
  <2>3. \A t, u \in Svc : svc_pc'[t] = "set" /\ svc_pc'[u] = "set"
                            /\ HASH_ID(new'[u]) = HASH_ID(new'[t]) => t = u
    BY <2>1 DEF ReservedOnce, Sets
  <2>4. ASSUME NEW k \in DOMAIN pipe', pipe'[k].cmd \in {"O", "L"}
        PROVE  /\ slot'[HASH_ID(pipe'[k].id)].type = "RESERVE"
               /\ slot'[HASH_ID(pipe'[k].id)].id = pipe'[k].id
               /\ phase'[pipe'[k].id] = "none"
               /\ \A u \in Svc : ~(svc_pc'[u] = "set" /\ HASH_ID(new'[u]) = HASH_ID(pipe'[k].id))
    <3>1. CASE k <= Len(pipe)
      <4>1. k \in DOMAIN pipe /\ pipe'[k] = pipe[k] /\ Makes(k)
        BY <1>4, <2>4, <3>1 DEF Makes
      <4>2. HASH_ID(pipe[k].id) # i /\ HASH_ID(pipe[k].id) \in Slot
        BY <1>0, <4>1, Typed, HashType DEF ReservedOnce, Sets, i, n
      <4>3. \A u \in Svc : ~(svc_pc'[u] = "set" /\ HASH_ID(new'[u]) = HASH_ID(pipe[k].id))
        BY <2>1, <4>1 DEF ReservedOnce, Sets
      <4> QED
        BY <1>7, <1>8, <1>10, <4>1, <4>2, <4>3 DEF ReservedOnce
    <3>2. CASE ~(k <= Len(pipe))
      <4>1. pipe'[k].id = n
        BY <1>4, <1>5, <3>2
      <4> QED
        BY <1>7, <1>8, <2>1, <4>1 DEF i
    <3> QED
      BY <3>1, <3>2
  <2>5. ASSUME NEW j \in Slot, slot'[j].type = "RESERVE"
        PROVE  \/ \E u \in Svc : svc_pc'[u] = "set" /\ HASH_ID(new'[u]) = j
               \/ \E k \in DOMAIN pipe' : pipe'[k].cmd \in {"O", "L"} /\ HASH_ID(pipe'[k].id) = j
    <3>1. CASE j = i
      <4>1. Len(pipe) + 1 \in DOMAIN pipe' /\ pipe'[Len(pipe) + 1] = e
        BY <1>4
      <4> QED
        BY <1>5, <3>1, <4>1 DEF i
    <3>2. CASE j # i
      <4>1. slot[j].type = "RESERVE"
        BY <1>8, <2>5, <3>2
      <4>2. CASE \E u \in Svc : Sets(u, j)
        <5>1. PICK u \in Svc : Sets(u, j)
          BY <4>2
        <5>2. u # s
          BY <3>2, <5>1 DEF Sets, i, n
        <5> QED
          BY <1>6, <5>1, <5>2 DEF Sets
      <4>3. CASE \E k \in DOMAIN pipe : Makes(k) /\ HASH_ID(pipe[k].id) = j
        <5>1. PICK k \in DOMAIN pipe : Makes(k) /\ HASH_ID(pipe[k].id) = j
          BY <4>3
        <5>2. k \in DOMAIN pipe' /\ pipe'[k] = pipe[k]
          BY <1>4
        <5> QED
          BY <5>1, <5>2 DEF Makes
      <4> QED
        BY <4>1, <4>2, <4>3 DEF ReservedOnce
    <3> QED
      BY <3>1, <3>2
  <2> QED
    BY <2>2, <2>3, <2>4, <2>5 DEF ReservedOnce, Sets, Makes
<1>13. MadeFirst'
  <2> SUFFICES ASSUME NEW j \in DOMAIN pipe', NEW k \in DOMAIN pipe',
                      pipe'[j].cmd \in {"O", "L"}, pipe'[k].id = pipe'[j].id
               PROVE  j <= k
    BY DEF MadeFirst, Makes
  <2>1. CASE k <= Len(pipe) /\ j <= Len(pipe)
    BY <1>4, <2>1 DEF MadeFirst, Makes
  <2>2. CASE k <= Len(pipe) /\ ~(j <= Len(pipe))
    BY <1>4, <1>5, <1>10, <2>2
  <2>3. CASE ~(k <= Len(pipe))
    BY <1>4, <2>3
  <2> QED
    BY <2>1, <2>2, <2>3
<1>14. EventsKept'
  BY <1>0, <1>2, <1>8, EventsUntouched DEF Polled
<1>15. ToldAsTyped'
  <2>1. ASSUME NEW j \in Slot, slot'[j].type \notin {"INVALID", "RESERVE"}
        PROVE  HASH_ID(slot'[j].id) = j /\ phase'[slot'[j].id] = KnownOf(slot'[j].type)
    <3>1. slot'[j] = slot[j]
      BY <1>8, <2>1
    <3>2. phase[slot[j].id] = KnownOf(slot[j].type) /\ HASH_ID(slot[j].id) = j
      BY <2>1, <3>1 DEF ToldAsTyped
    <3>3. slot[j].id # n /\ slot[j].id \in Id
      BY <1>2, <3>2, Typed DEF KnownOf
    <3> QED
      BY <1>7, <3>1, <3>2, <3>3
  <2>2. \A m \in Id : phase'[m] # "wrong"
    BY <1>7 DEF ToldAsTyped, MessagesInOrder
  <2> QED
    BY <2>1, <2>2 DEF ToldAsTyped, MessagesInOrder
<1>16. Watched'
  BY <1>2, <1>8 DEF Watched, BufferedIsWatched
<1>17. NoAssertionFails'
  BY <1>0 DEF NoAssertionFails
<1> QED
  BY <1>9, <1>11, <1>12, <1>13, <1>14, <1>15, <1>16, <1>17

\* A command for a socket that services know.
LEMMA RequestKeeps ==
  ASSUME SocketInv, NEW cmd \in {"S", "K", "D"}, NEW n \in Id, Request(cmd, n)
  PROVE  SocketInv'
<1> USE DEF SocketInv
<1> DEFINE e == [cmd |-> cmd, id |-> n]
<1>0. /\ alloc_id' = alloc_id /\ svc_pc' = svc_pc /\ new' = new /\ slot' = slot
      /\ phase' = phase /\ ops' = ops + 1 /\ ev' = ev /\ phase[n] # "unknown"
      /\ checkctrl' = checkctrl /\ sock_pc' = sock_pc /\ closed' = closed /\ aborted' = aborted
      /\ pipe' = Append(pipe, e)
  BY DEF Request, Command, threadVars
<1>1. pipe \in Seq(CommandRec) /\ e \in CommandRec /\ e.cmd \notin {"O", "L"} /\ e.id = n
  BY DEF SocketTypeOK, CommandRec
<1> HIDE DEF e
<1>2. /\ pipe' \in Seq(CommandRec) /\ Len(pipe) \in Nat
      /\ DOMAIN pipe = 1 .. Len(pipe) /\ DOMAIN pipe' = 1 .. Len(pipe) + 1
      /\ \A k \in DOMAIN pipe' : pipe'[k] = IF k <= Len(pipe) THEN pipe[k] ELSE e
  BY <1>0, <1>1, AppendOf
<1>3. SocketTypeOK'
  <2>1. ops' \in Nat
    BY <1>0 DEF SocketTypeOK
  <2> QED
    BY <1>0, <1>2, <2>1 DEF SocketTypeOK, CommandRec
<1>4. \A k \in DOMAIN pipe' :
        \/ k \in DOMAIN pipe /\ pipe'[k] = pipe[k]
        \/ k = Len(pipe) + 1 /\ pipe'[k].cmd \notin {"O", "L"} /\ pipe'[k].id = n
  BY <1>1, <1>2
<1>5. IdsFresh'
  <2>1. \A k \in DOMAIN pipe' : phase[pipe'[k].id] # "unknown"
    BY <1>0, <1>4 DEF IdsFresh
  <2> QED
    BY <1>0, <2>1 DEF IdsFresh, Busy
<1>6. ReservedOnce'
  <2>1. \A k \in DOMAIN pipe' : pipe'[k].cmd \in {"O", "L"} =>
          k \in DOMAIN pipe /\ pipe'[k] = pipe[k] /\ Makes(k)
    BY <1>4 DEF Makes
  <2>2. \A k \in DOMAIN pipe : Makes(k) =>
          k \in DOMAIN pipe' /\ pipe'[k] = pipe[k] /\ pipe'[k].cmd \in {"O", "L"}
    BY <1>2 DEF Makes
  <2>3. \A k \in DOMAIN pipe' : pipe'[k].cmd \in {"O", "L"} =>
          /\ slot[HASH_ID(pipe'[k].id)].type = "RESERVE"
          /\ slot[HASH_ID(pipe'[k].id)].id = pipe'[k].id
          /\ phase[pipe'[k].id] = "none"
          /\ \A s \in Svc : ~Sets(s, HASH_ID(pipe'[k].id))
    BY <2>1 DEF ReservedOnce
  <2>4. \A i \in Slot : slot[i].type = "RESERVE" =>
          \/ \E s \in Svc : Sets(s, i)
          \/ \E k \in DOMAIN pipe' : pipe'[k].cmd \in {"O", "L"} /\ HASH_ID(pipe'[k].id) = i
    BY <2>2 DEF ReservedOnce
  <2> QED
    BY <1>0, <2>3, <2>4 DEF ReservedOnce, Sets, Makes
<1>7. MadeFirst'
  <2> SUFFICES ASSUME NEW j \in DOMAIN pipe', NEW k \in DOMAIN pipe',
                      pipe'[j].cmd \in {"O", "L"}, pipe'[k].id = pipe'[j].id
               PROVE  j <= k
    BY DEF MadeFirst, Makes
  <2>1. j \in DOMAIN pipe /\ pipe'[j] = pipe[j]
    BY <1>4
  <2>2. CASE k \in DOMAIN pipe /\ pipe'[k] = pipe[k]
    BY <2>1, <2>2 DEF MadeFirst, Makes
  <2>3. CASE k = Len(pipe) + 1
    BY <1>2, <2>1, <2>3
  <2> QED
    BY <1>4, <2>2, <2>3
<1>8. ToldAsTyped' /\ Watched' /\ NoAssertionFails'
  BY <1>0 DEF ToldAsTyped, MessagesInOrder, Watched, BufferedIsWatched, NoAssertionFails
<1>9. EventsKept'
  BY <1>0, EventsUntouched
<1> QED
  BY <1>3, <1>5, <1>6, <1>7, <1>8, <1>9
-----------------------------------------------------------------------------
(* Steps of the socket thread that are neither.                            *)

\* clear_closed_event.
LEMMA ClearKeeps ==
  ASSUME SocketInv, ClearClosedEvent
  PROVE  SocketInv'
<1> USE DEF SocketInv
<1> DEFINE Stale(e) == e.slot # NULL /\ slot[e.slot].type = "INVALID" /\ slot[e.slot].id = closed
<1>0. /\ alloc_id' = alloc_id /\ svc_pc' = svc_pc /\ new' = new /\ slot' = slot /\ ops' = ops
      /\ phase' = phase /\ pipe' = pipe /\ sock_pc' = "poll"
      /\ checkctrl' = checkctrl /\ closed' = closed /\ aborted' = aborted
      /\ ev' = [k \in DOMAIN ev |-> IF Stale(ev[k]) THEN [ev[k] EXCEPT !.slot = NULL] ELSE ev[k]]
  BY DEF ClearClosedEvent, services
<1>1. /\ DOMAIN ev' = DOMAIN ev /\ DOMAIN ev = 1 .. Len(ev) /\ Len(ev) \in Nat
      /\ \A k \in DOMAIN ev : /\ ev'[k] \in EventRec
                              /\ Stale(ev[k]) => ev'[k].slot = NULL
                              /\ ~Stale(ev[k]) => ev'[k] = ev[k]
  <2>1. DOMAIN ev' = DOMAIN ev /\ DOMAIN ev = 1 .. Len(ev) /\ Len(ev) \in Nat
    BY <1>0, Typed
  <2>2. ASSUME NEW k \in DOMAIN ev
        PROVE  /\ ev'[k] \in EventRec
               /\ Stale(ev[k]) => ev'[k].slot = NULL
               /\ ~Stale(ev[k]) => ev'[k] = ev[k]
    <3>1. ev[k] \in EventRec
      BY Typed
    <3>2. ev'[k] = IF Stale(ev[k]) THEN [ev[k] EXCEPT !.slot = NULL] ELSE ev[k]
      BY <1>0
    <3> HIDE DEF Stale
    <3>3. CASE Stale(ev[k])
      BY <3>1, <3>2, <3>3 DEF EventRec
    <3>4. CASE ~Stale(ev[k])
      BY <3>1, <3>2, <3>4
    <3> QED
      BY <3>3, <3>4
  <2> HIDE DEF Stale
  <2> QED
    BY <2>1, <2>2
<1>2. SocketTypeOK'
  <2>1. ev' \in Seq(EventRec)
    <3>1. ev' \in [1 .. Len(ev) -> EventRec]
      <4> HIDE DEF Stale
      <4>1. ev' = [k \in DOMAIN ev |-> ev'[k]]
        BY <1>0
      <4> QED
        BY <1>1, <4>1
    <3> QED
      BY <1>1, <3>1, SeqDef
  <2> QED
    BY <1>0, <2>1 DEF SocketTypeOK, EventRec
<1>3. IdsFresh' /\ ReservedOnce' /\ MadeFirst'
  BY <1>0 DEF IdsFresh, Busy, ReservedOnce, Sets, Makes, MadeFirst
<1>4. ToldAsTyped' /\ Watched' /\ NoAssertionFails'
  BY <1>0 DEF ToldAsTyped, MessagesInOrder, Watched, BufferedIsWatched, NoAssertionFails
<1>5. EventsKept'
  <2>1. \A k \in DOMAIN ev : ev'[k].slot # NULL => ev'[k] = ev[k] /\ ~Stale(ev[k])
    BY <1>1
  <2>2. ASSUME NEW k \in DOMAIN ev, ev'[k].slot # NULL
        PROVE  slot[ev'[k].slot].id = ev'[k].of /\ slot[ev'[k].slot].type \in Polled
    BY <2>1, <2>2 DEF EventsKept
  <2>3. \A j, k \in DOMAIN ev : j # k /\ ev'[j].slot = ev'[k].slot => ev'[j].slot = NULL
    BY <2>1 DEF EventsKept
  <2> QED
    BY <1>0, <1>1, <2>2, <2>3 DEF EventsKept
<1> QED
  BY <1>2, <1>3, <1>4, <1>5

\* sp_wait reports each slot once.
LEMMA OnceEach ==
  ASSUME NEW I \in SUBSET Slot, NEW S,
         NEW q \in [1 .. Cardinality(I) -> S],
         {q[k].slot : k \in DOMAIN q} = I
  PROVE  /\ Cardinality(I) \in Nat
         /\ \A j, k \in DOMAIN q : j # k => q[j].slot # q[k].slot
<1>1. IsFiniteSet(I)
  <2>1. MAX_SOCKET - 1 \in Int
    BY SocketAssumption
  <2>2. IsFiniteSet(Slot)
    BY <2>1, FS_Interval DEF Slot
  <2> QED
    BY <2>2, FS_Subset
<1> DEFINE n == Cardinality(I)
           f == [k \in 1 .. n |-> q[k].slot]
<1>2. n \in Nat
  BY <1>1, FS_CardinalityType
<1>3. f \in Surjection(1 .. n, I)
  <2>1. DOMAIN q = 1 .. n
    OBVIOUS
  <2> HIDE DEF n
  <2> QED
    BY <2>1 DEF Surjection
<1>4. IsFiniteSet(1 .. n) /\ Cardinality(1 .. n) = n
  <2> HIDE DEF n
  <2> QED
    BY <1>2, FS_Interval
<1>5. f \in Injection(1 .. n, I)
  <2> HIDE DEF f
  <2> QED
    BY <1>3, <1>4, FS_SurjSameCardinalityImpliesInj
<1>6. ASSUME NEW j \in 1 .. n, NEW k \in 1 .. n, j # k
      PROVE  q[j].slot # q[k].slot
  <2> HIDE DEF n
  <2>1. f[j] = q[j].slot /\ f[k] = q[k].slot
    BY <1>6
  <2> HIDE DEF f
  <2>2. f[j] # f[k]
    BY <1>5, <1>6 DEF Injection, IsInjective
  <2> QED
    BY <2>1, <2>2
<1> QED
  BY <1>2, <1>6

LEMMA WaitKeeps ==
  ASSUME SocketInv, Wait
  PROVE  SocketInv'
<1> USE DEF SocketInv
<1>0. /\ alloc_id' = alloc_id /\ svc_pc' = svc_pc /\ new' = new /\ slot' = slot /\ ops' = ops
      /\ phase' = phase /\ pipe' = pipe
      /\ checkctrl' = TRUE /\ closed' = closed /\ aborted' = aborted
  BY DEF Wait, services
<1>1. PICK I \in SUBSET {i \in Slot : Event(i) # {}} :
        \E q \in [1 .. Cardinality(I) -> UNION {Event(i) : i \in I}] :
          /\ {q[k].slot : k \in DOMAIN q} = I
          /\ ev' = q
          /\ sock_pc' = IF I = {} THEN "poll" ELSE "event"
  BY DEF Wait
<1>2. /\ ev' \in [1 .. Cardinality(I) -> UNION {Event(i) : i \in I}]
      /\ {ev'[k].slot : k \in DOMAIN ev'} = I
      /\ sock_pc' \in {"poll", "event"}
  BY <1>1
<1>3. I \in SUBSET Slot
  BY <1>1
<1>4. /\ Cardinality(I) \in Nat
      /\ \A j, k \in DOMAIN ev' : j # k => ev'[j].slot # ev'[k].slot
  BY <1>2, <1>3, OnceEach
<1>5. ASSUME NEW i \in Slot, NEW e \in Event(i)
      PROVE  e \in EventRec /\ e.slot = i /\ e.of = slot[i].id /\ slot[i].type \in Polled
  BY <1>5, Typed DEF Event, EventRec, Polled
<1>6. ASSUME NEW k \in DOMAIN ev'
      PROVE  /\ ev'[k] \in EventRec
             /\ slot[ev'[k].slot].id = ev'[k].of /\ slot[ev'[k].slot].type \in Polled
  <2>1. PICK i \in I : ev'[k] \in Event(i)
    BY <1>2
  <2> QED
    BY <1>3, <1>5, <2>1
<1>7. SocketTypeOK'
  <2>1. ev' \in [1 .. Cardinality(I) -> EventRec]
    BY <1>2, <1>6
  <2>2. ev' \in Seq(EventRec)
    BY <1>4, <2>1, SeqDef
  <2> QED
    BY <1>0, <1>2, <2>2 DEF SocketTypeOK, EventRec
<1>8. IdsFresh' /\ ReservedOnce' /\ MadeFirst'
  BY <1>0 DEF IdsFresh, Busy, ReservedOnce, Sets, Makes, MadeFirst
<1>9. ToldAsTyped' /\ Watched' /\ NoAssertionFails'
  BY <1>0 DEF ToldAsTyped, MessagesInOrder, Watched, BufferedIsWatched, NoAssertionFails
<1>10. EventsKept'
  BY <1>0, <1>4, <1>6 DEF EventsKept
<1> QED
  BY <1>7, <1>8, <1>9, <1>10

\* report_accept, with an id and a slot for the connection.
Accepts(i, n) ==
  /\ slot[i].type = "LISTEN" /\ sock_pc # "clear"
  /\ n > alloc_id /\ n <= MaxId /\ slot[HASH_ID(n)].type = "INVALID"
  /\ alloc_id' = n
  /\ slot' = [slot EXCEPT ![HASH_ID(n)] =
                [type |-> "PACCEPT", id |-> n, buffered |-> FALSE, writing |-> FALSE]]
  /\ phase' = [phase EXCEPT ![n] = "none", ![slot[i].id] = After(@, "ACCEPT")]
  /\ EventsGoOn /\ sock_pc' = "poll"
  /\ UNCHANGED <<services, pipe, checkctrl, closed, aborted>>

LEMMA AcceptsKeeps ==
  ASSUME SocketInv, NEW i \in Slot, NEW n \in Int, Accepts(i, n)
  PROVE  SocketInv'
<1> USE DEF SocketInv
<1>0. /\ alloc_id' = n /\ svc_pc' = svc_pc /\ new' = new /\ ops' = ops /\ pipe' = pipe
      /\ sock_pc # "clear" /\ sock_pc' = "poll"
      /\ checkctrl' = checkctrl /\ closed' = closed /\ aborted' = aborted
  BY DEF Accepts, services
<1>1. /\ n \in Id /\ n > alloc_id /\ alloc_id \in Nat /\ phase[n] = "unknown"
      /\ n # 0 /\ HASH_ID(n) \in Slot
  <2>1. n \in Id /\ n > alloc_id /\ alloc_id \in Nat
    BY SocketAssumption DEF Accepts, SocketTypeOK, Id
  <2> QED
    BY <2>1, HashType DEF IdsFresh
<1> DEFINE j == HASH_ID(n)
           id == slot[i].id
<1>2. id \in Id /\ phase[id] = "open" /\ id # n /\ j \in Slot /\ slot[j].type = "INVALID"
  <2>1. slot[i].type = "LISTEN" /\ slot[j].type = "INVALID"
    BY DEF Accepts
  <2>2. phase[id] = "open" /\ id \in Id
    BY <2>1, Typed DEF ToldAsTyped, KnownOf
  <2> QED
    BY <1>1, <2>1, <2>2
<1>3. /\ phase' \in [Id -> Phase] /\ phase'[n] = "none"
      /\ \A m \in Id : m # n => phase'[m] = phase[m]
  <2>1. After("open", "ACCEPT") = "open"
    BY DEF After
  <2>2. phase \in [Id -> Phase]
    BY DEF SocketTypeOK, Phase
  <2>3. phase' = [phase EXCEPT ![n] = "none", ![id] = After(@, "ACCEPT")]
    BY DEF Accepts
  <2>4. "none" \in Phase /\ "open" \in Phase
    BY DEF Phase
  <2> HIDE DEF id
  <2>5. phase'[id] = After(phase[id], "ACCEPT") /\ phase'[n] = "none"
    BY <1>1, <1>2, <2>2, <2>3
  <2>6. DOMAIN phase' = Id /\ \A m \in Id : m # n /\ m # id => phase'[m] = phase[m]
    BY <1>1, <1>2, <2>2, <2>3
  <2>7. \A m \in Id : phase'[m] \in Phase /\ (m # n => phase'[m] = phase[m])
    BY <1>2, <2>1, <2>2, <2>4, <2>5, <2>6
  <2>8. phase' = [m \in Id |-> phase'[m]]
    BY <2>3, <2>2, <2>6
  <2> QED
    BY <2>5, <2>7, <2>8
<1>4. /\ slot' \in [Slot -> SlotRec] /\ slot'[j].type = "PACCEPT" /\ slot'[j].id = n
      /\ ~slot'[j].buffered
      /\ \A k \in Slot : k # j => slot'[k] = slot[k]
  <2>1. slot \in [Slot -> SlotRec]
    BY DEF SocketTypeOK, SlotRec
  <2> DEFINE r == [type |-> "PACCEPT", id |-> n, buffered |-> FALSE, writing |-> FALSE]
  <2>2. slot' = [slot EXCEPT ![j] = r]
    BY DEF Accepts
  <2>3. r \in SlotRec /\ r.type = "PACCEPT" /\ r.id = n /\ ~r.buffered
    BY <1>1 DEF SlotRec, SocketType
  <2> HIDE DEF r, j
  <2> QED
    BY <1>2, <2>1, <2>2, <2>3
<1> HIDE DEF id
<1>5. SocketTypeOK'
  <2>1. ev' \in Seq(EventRec)
    BY EventsWereThere DEF Accepts
  <2>2. \A k \in Slot : HASH_ID(slot'[k].id) = k \/ slot'[k].id = 0
    BY <1>4 DEF SocketTypeOK
  <2> HIDE DEF j
  <2> QED
    BY <1>0, <1>1, <1>3, <1>4, <2>1, <2>2 DEF SocketTypeOK, SlotRec, EventRec, Phase
<1>6. IdsFresh'
  <2>1. ASSUME NEW s \in Svc, svc_pc[s] # "idle"
        PROVE  new[s] \in 1 .. n /\ phase'[new[s]] = "unknown"
    <3>1. new[s] \in 1 .. alloc_id /\ phase[new[s]] = "unknown" /\ new[s] \in Id
      BY <2>1, Typed DEF IdsFresh, Busy
    <3>2. new[s] # n
      BY <1>1, <3>1
    <3> QED
      BY <1>1, <1>3, <3>1, <3>2
  <2>2. ASSUME NEW m \in Id, m > n \/ m = 0
        PROVE  phase'[m] = "unknown"
    <3>1. m # n /\ (m > alloc_id \/ m = 0)
      BY <1>1, <2>2 DEF Id
    <3> QED
      BY <1>3, <3>1 DEF IdsFresh
  <2>3. \A k \in DOMAIN pipe : phase'[pipe[k].id] # "unknown"
    BY <1>3, Typed DEF IdsFresh
  <2> QED
    BY <1>0, <2>1, <2>2, <2>3 DEF IdsFresh, Busy
<1>7. ReservedOnce'
  <2>1. \A s \in Svc : svc_pc[s] = "set" => slot'[HASH_ID(new[s])].type = "RESERVE"
    BY <1>2, <1>4, Typed, HashType DEF ReservedOnce
  <2>2. ASSUME NEW k \in DOMAIN pipe, Makes(k)
        PROVE  /\ slot'[HASH_ID(pipe[k].id)].type = "RESERVE"
               /\ slot'[HASH_ID(pipe[k].id)].id = pipe[k].id
               /\ phase'[pipe[k].id] = "none"
    <3>1. HASH_ID(pipe[k].id) \in Slot /\ HASH_ID(pipe[k].id) # j /\ pipe[k].id \in Id
      BY <1>2, <2>2, Typed, HashType DEF ReservedOnce
    <3> HIDE DEF j
    <3> QED
      BY <1>1, <1>3, <1>4, <2>2, <3>1 DEF ReservedOnce
  <2>3. \A k \in Slot : slot'[k].type = "RESERVE" => slot[k].type = "RESERVE"
    BY <1>4
  <2> HIDE DEF j
  <2> QED
    BY <1>0, <2>1, <2>2, <2>3 DEF ReservedOnce, Sets, Makes
<1>8. MadeFirst' /\ NoAssertionFails'
  BY <1>0 DEF MadeFirst, Makes, NoAssertionFails
<1>9. EventsKept'
  <2>1. PICK d \in {0, 1} :
          \A k \in DOMAIN ev' :
            /\ k + d \in DOMAIN ev
            /\ ev'[k].slot = ev[k + d].slot /\ ev'[k].of = ev[k + d].of
    BY EventsWereThere DEF Accepts
  <2>2. ASSUME NEW k \in DOMAIN ev', ev'[k].slot # NULL
        PROVE  slot'[ev'[k].slot].id = ev'[k].of /\ slot'[ev'[k].slot].type \in Polled
    <3>1. /\ ev'[k].slot \in Slot /\ slot[ev'[k].slot].id = ev'[k].of
          /\ slot[ev'[k].slot].type \in Polled
      BY <1>0, <2>1, <2>2, Typed DEF EventsKept
    <3>2. ev'[k].slot # j
      BY <1>2, <3>1 DEF Polled
    <3> HIDE DEF j
    <3> QED
      BY <1>4, <3>1, <3>2
  <2>3. ASSUME NEW l \in DOMAIN ev', NEW k \in DOMAIN ev', l # k, ev'[l].slot = ev'[k].slot
        PROVE  ev'[l].slot = NULL
    <3>1. l + d # k + d
      BY <2>3, EventsWereThere DEF Accepts
    <3> QED
      BY <2>1, <2>3, <3>1 DEF EventsKept
  <2> QED
    BY <2>2, <2>3 DEF EventsKept
<1>10. ToldAsTyped'
  <2>1. ASSUME NEW k \in Slot, slot'[k].type \notin {"INVALID", "RESERVE"}
        PROVE  HASH_ID(slot'[k].id) = k /\ phase'[slot'[k].id] = KnownOf(slot'[k].type)
    <3>1. CASE k = j
      BY <1>3, <1>4, <3>1 DEF KnownOf
    <3>2. CASE k # j
      <4>1. slot'[k] = slot[k]
        BY <1>4, <3>2
      <4>2. HASH_ID(slot[k].id) = k /\ phase[slot[k].id] = KnownOf(slot[k].type) /\ slot[k].id \in Id
        BY <2>1, <4>1, Typed DEF ToldAsTyped
      <4>3. slot[k].id # n
        BY <3>2, <4>2
      <4> QED
        BY <1>3, <4>1, <4>2, <4>3
    <3> QED
      BY <3>1, <3>2
  <2>2. \A m \in Id : phase'[m] # "wrong"
    BY <1>3 DEF ToldAsTyped, MessagesInOrder
  <2> QED
    BY <2>1, <2>2 DEF ToldAsTyped, MessagesInOrder
<1>11. Watched'
  <2>1. ASSUME NEW k \in Slot
        PROVE  /\ slot'[k].buffered => slot'[k].type \in {"CONNECTING", "CONNECTED", "HALFCLOSE"}
                                       /\ slot'[k].writing
               /\ slot'[k].type = "CONNECTING" => slot'[k].writing
    <3>1. CASE k = j
      BY <1>4, <3>1
    <3>2. CASE k # j
      BY <1>4, <3>2 DEF Watched, BufferedIsWatched
    <3> QED
      BY <3>1, <3>2
  <2> QED
    BY <2>1 DEF Watched, BufferedIsWatched
<1> QED
  BY <1>5, <1>6, <1>7, <1>8, <1>9, <1>10, <1>11
-----------------------------------------------------------------------------
(* Slots.                                                                  *)

\* The type of slot i changes and nothing else.
LEMMA ChangesType ==
  ASSUME SocketTypeOK, NEW i \in Slot, NEW type \in SocketType, NEW T, T = As(i, type)
  PROVE  /\ T \in [Slot -> SlotRec]
         /\ T[i].type = type /\ T[i].id = slot[i].id
         /\ T[i].buffered = slot[i].buffered /\ T[i].writing = slot[i].writing
         /\ \A j \in Slot : j # i => T[j] = slot[j]
<1> DEFINE r == [slot[i] EXCEPT !.type = type]
<1>1. slot \in [Slot -> SlotRec] /\ slot[i] \in SlotRec
  BY DEF SocketTypeOK, SlotRec
<1>2. /\ r \in SlotRec /\ r.type = type /\ r.id = slot[i].id
      /\ r.buffered = slot[i].buffered /\ r.writing = slot[i].writing
  BY <1>1 DEF SlotRec
<1>3. T = [slot EXCEPT ![i] = r]
  BY DEF As
<1> HIDE DEF r
<1>4. T[i] = r
  BY <1>1, <1>3
<1> QED
  BY <1>1, <1>2, <1>3, <1>4

\* force_close leaves an empty slot with the id.
LEMMA ForcesClosed ==
  ASSUME SocketTypeOK, NEW i \in Slot
  PROVE  /\ ForceClosed(i) \in [Slot -> SlotRec]
         /\ ForceClosed(i)[i].id = slot[i].id /\ ForceClosed(i)[i].type = "INVALID"
         /\ ~ForceClosed(i)[i].buffered
         /\ \A j \in Slot : j # i => ForceClosed(i)[j] = slot[j]
<1> DEFINE r == [slot[i] EXCEPT !.type = "INVALID", !.buffered = FALSE, !.writing = FALSE]
<1>1. slot \in [Slot -> SlotRec] /\ slot[i] \in SlotRec
  BY DEF SocketTypeOK, SlotRec
<1>2. r \in SlotRec /\ r.type = "INVALID" /\ r.id = slot[i].id /\ ~r.buffered
  BY <1>1 DEF SlotRec, SocketType
<1>3. ForceClosed(i) = [slot EXCEPT ![i] = r]
  BY <1>1 DEF ForceClosed
<1> HIDE DEF r
<1>4. ForceClosed(i)[i] = r
  BY <1>1, <1>3
<1> QED
  BY <1>1, <1>2, <1>3, <1>4

\* What is buffered in a slot, and whether it is written from.
SetsLists(S, T, i, b, w) ==
  \/ T = [S EXCEPT ![i].buffered = b, ![i].writing = w]
  \/ T = [S EXCEPT ![i].buffered = b] /\ w = S[i].writing
  \/ T = [S EXCEPT ![i].writing = w] /\ b = S[i].buffered

LEMMA ChangesLists ==
  ASSUME NEW S \in [Slot -> SlotRec], NEW i \in Slot, NEW b \in BOOLEAN, NEW w \in BOOLEAN,
         NEW T, SetsLists(S, T, i, b, w)
  PROVE  /\ T \in [Slot -> SlotRec]
         /\ T[i].type = S[i].type /\ T[i].id = S[i].id
         /\ T[i].buffered = b /\ T[i].writing = w
         /\ \A j \in Slot : j # i => T[j] = S[j]
<1> DEFINE r == [S[i] EXCEPT !.buffered = b, !.writing = w]
<1>1. S[i] \in SlotRec
  OBVIOUS
<1>2. /\ r \in SlotRec /\ r.type = S[i].type /\ r.id = S[i].id
      /\ r.buffered = b /\ r.writing = w
  BY <1>1 DEF SlotRec
<1>3. T = [S EXCEPT ![i] = r]
  <2>1. CASE T = [S EXCEPT ![i].buffered = b, ![i].writing = w]
    BY <1>1, <2>1
  <2>2. CASE T = [S EXCEPT ![i].buffered = b] /\ w = S[i].writing
    <3>1. r = [S[i] EXCEPT !.buffered = b]
      BY <1>1, <2>2 DEF SlotRec
    <3> HIDE DEF r
    <3> QED
      BY <2>2, <3>1
  <2>3. CASE T = [S EXCEPT ![i].writing = w] /\ b = S[i].buffered
    <3>1. r = [S[i] EXCEPT !.writing = w]
      BY <1>1, <2>3 DEF SlotRec
    <3> HIDE DEF r
    <3> QED
      BY <2>3, <3>1
  <2> QED
    BY <2>1, <2>2, <2>3 DEF SetsLists
<1> HIDE DEF r
<1>4. T[i] = r
  BY <1>3
<1> QED
  BY <1>2, <1>3, <1>4
-----------------------------------------------------------------------------
(* Every step is one of these.                                             *)

\* Nothing comes of a command or an event.
LEMMA SilentStays ==
  ASSUME SocketInv, sock_pc # "clear", Silent, slot' = slot, PipeKept, EventsGoOn,
         UNCHANGED <<alloc_id, services>>, checkctrl' \in BOOLEAN
  PROVE  SocketInv'
<1>1. SlotsStay
  BY DEF SlotsStay, Silent, GoOn, ThreadGoesOn, SocketInv, SocketTypeOK
<1> QED
  BY <1>1, SlotsStayKeeps

\* Services are told of the end of a socket that is gone.
LEMMA GoneStays ==
  ASSUME SocketInv, sock_pc # "clear", NEW n \in Id, Gone(n), phase[n] # "unknown",
         NEW kind \in {"CLOSE", "ERROR"}, Return(kind, n), slot' = slot,
         PipeKept, UNCHANGED <<alloc_id, services, ev, checkctrl>>
  PROVE  SocketInv'
<1>1. phase' = [phase EXCEPT ![n] = "ended"]
  BY DEF Return, Told, After
<1>2. SlotsStay
  BY <1>1 DEF SlotsStay, Return, ThreadGoesOn, EventsGoOn, SocketInv, SocketTypeOK
<1> QED
  BY <1>2, SlotsStayKeeps

\* What a message does to what is known of an id.
LEMMA TellsOne ==
  ASSUME SocketTypeOK, NEW n \in Id, NEW kind, Told(kind, n), NEW p \in Phase,
         After(phase[n], kind) = p
  PROVE  /\ phase' \in [Id -> Phase] /\ phase'[n] = p
         /\ \A m \in Id : m # n => phase'[m] = phase[m]
<1>1. phase \in [Id -> Phase] /\ phase' = [phase EXCEPT ![n] = p]
  BY DEF SocketTypeOK, Phase, Told
<1> QED
  BY <1>1

\* The end of a socket that is there: force_close and the message about it.
LEMMA EndMoves ==
  ASSUME SocketInv, NEW i \in Slot, NEW kind \in {"CLOSE", "ERROR"},
         slot[i].type \notin {"INVALID", "RESERVE"}, End(i, kind),
         sock_pc # "clear", PipeKept, EventsGoOn,
         UNCHANGED <<alloc_id, services>>, checkctrl' \in BOOLEAN
  PROVE  SocketInv'
<1> USE DEF SocketInv
<1> DEFINE id == slot[i].id
<1>1. slot' = ForceClosed(i) /\ Return(kind, id)
  BY DEF End
<1>2. id \in Id /\ "ended" \in Phase
  BY Typed DEF Phase
<1>3. After(phase[id], kind) = "ended"
  BY DEF After
<1> HIDE DEF id
<1>4. /\ phase' \in [Id -> Phase] /\ phase'[id] = "ended"
      /\ \A m \in Id : m # id => phase'[m] = phase[m]
      /\ sock_pc' = "clear" /\ closed' = id /\ aborted' = aborted
  BY <1>1, <1>2, <1>3, TellsOne DEF Return
<1>5. /\ slot' \in [Slot -> SlotRec] /\ slot'[i].id = id /\ slot'[i].type = "INVALID"
      /\ ~slot'[i].buffered
      /\ \A j \in Slot : j # i => slot'[j] = slot[j]
  BY <1>1, ForcesClosed DEF id
<1>6. SocketMoves(i)
  BY <1>2, <1>4, <1>5 DEF SocketMoves, ThreadGoesOn, id
<1> QED
  BY <1>6, SocketMovesKeeps

-----------------------------------------------------------------------------
(* Commands.                                                               *)

\* ctrl_cmd takes the first command.
TakesCommand ==
  /\ sock_pc = "poll" /\ pipe # <<>> /\ pipe' = Tail(pipe)
  /\ UNCHANGED <<alloc_id, services, ev, checkctrl>>

\* The first command.
LEMMA FirstCommand ==
  ASSUME SocketInv, pipe # <<>>
  PROVE  /\ 1 \in DOMAIN pipe /\ Head(pipe) = pipe[1] /\ pipe[1].id \in Id
         /\ pipe[1].cmd \in {"O", "L", "S", "K", "D"}
         /\ HASH_ID(pipe[1].id) \in Slot /\ phase[pipe[1].id] # "unknown"
<1>1. 1 \in DOMAIN pipe /\ Head(pipe) = pipe[1]
  BY TailOf DEF SocketInv, SocketTypeOK
<1> QED
  BY <1>1, Typed, HashType DEF SocketInv, IdsFresh

\* The socket that a command is for is there: it is the one that was made by the
\* command before it.
LEMMA CommandFinds ==
  ASSUME SocketInv, pipe # <<>>, ~Makes(1),
         ~Between(HASH_ID(pipe[1].id)), ~Gone(pipe[1].id)
  PROVE  LET i == HASH_ID(pipe[1].id)
         IN slot[i].type \notin {"INVALID", "RESERVE"} /\ slot[i].id = pipe[1].id
<1> DEFINE i == HASH_ID(pipe[1].id)
<1>1. slot[i].type # "INVALID" /\ slot[i].id = pipe[1].id /\ i \in Slot /\ 1 \in DOMAIN pipe
  BY FirstCommand DEF Gone
<1>2. SUFFICES ASSUME slot[i].type = "RESERVE" PROVE FALSE
  BY <1>1
<1>3. ~\E s \in Svc : Sets(s, i)
  BY DEF Between, Sets
<1>4. PICK k \in DOMAIN pipe : Makes(k) /\ HASH_ID(pipe[k].id) = i
  BY <1>1, <1>2, <1>3 DEF SocketInv, ReservedOnce
<1>5. pipe[k].id = pipe[1].id
  BY <1>1, <1>4 DEF SocketInv, ReservedOnce
<1>6. k <= 1 /\ k \in 1 .. Len(pipe) /\ Len(pipe) \in Nat
  BY <1>1, <1>4, <1>5, Typed DEF SocketInv, MadeFirst
<1>7. k = 1
  BY <1>6
<1> QED
  BY <1>4, <1>7

\* open_socket and listen_socket find the slot that was reserved for them.
LEMMA MakesKeeps ==
  ASSUME SocketInv, TakesCommand, Makes(1), Open(pipe[1].id) \/ Listen(pipe[1].id)
  PROVE  SocketInv'
<1> USE DEF SocketInv
<1> DEFINE n == pipe[1].id
           i == HASH_ID(n)
<1>1. /\ n \in Id /\ i \in Slot /\ slot[i].type = "RESERVE" /\ slot[i].id = n
      /\ phase[n] = "none" /\ ~slot[i].buffered /\ slot[i].buffered \in BOOLEAN
  BY FirstCommand, Typed DEF TakesCommand, ReservedOnce, Watched, BufferedIsWatched
<1>2. ~NewFdFails(i)
  BY <1>1 DEF NewFdFails
<1>3. /\ sock_pc # "clear" /\ UNCHANGED <<alloc_id, services, ev, checkctrl>>
      /\ checkctrl' \in BOOLEAN
      /\ pipe # <<>> /\ pipe' = Tail(pipe) /\ HASH_ID(pipe[1].id) = i
  BY DEF TakesCommand, SocketTypeOK
<1>4. \/ slot' = As(i, "INVALID") /\ Return("ERROR", n)
      \/ slot' = As(i, "CONNECTED") /\ Return("OPEN", n)
      \/ slot' = [As(i, "CONNECTING") EXCEPT ![i].writing = TRUE] /\ Silent
      \/ slot' = As(i, "PLISTEN") /\ Silent
  BY <1>2 DEF Open, Listen, OpenFailed
<1> HIDE DEF n, i
<1>5. /\ slot \in [Slot -> SlotRec] /\ phase \in [Id -> Phase]
      /\ {"ended", "open", "none"} \subseteq Phase
      /\ "INVALID" \in SocketType /\ "CONNECTED" \in SocketType
      /\ "CONNECTING" \in SocketType /\ "PLISTEN" \in SocketType
  BY DEF SocketTypeOK, SlotRec, Phase, SocketType
<1>6. CASE slot' = As(i, "INVALID") /\ Return("ERROR", n)
  <2>1. After(phase[n], "ERROR") = "ended"
    BY DEF After
  <2>2. /\ phase' \in [Id -> Phase] /\ phase'[n] = "ended"
        /\ \A m \in Id : m # n => phase'[m] = phase[m]
        /\ sock_pc' = "clear" /\ closed' = n /\ aborted' = aborted
    BY <1>1, <1>5, <1>6, <2>1, TellsOne DEF Return
  <2>3. /\ slot' \in [Slot -> SlotRec] /\ slot'[i].id = n /\ slot'[i].type = "INVALID"
        /\ ~slot'[i].buffered
        /\ \A j \in Slot : j # i => slot'[j] = slot[j]
    BY <1>1, <1>5, <1>6, ChangesType
  <2>4. SocketMoves(i)
    BY <1>1, <1>3, <2>2, <2>3 DEF SocketMoves, ThreadGoesOn, EventsGoOn
  <2> QED
    BY <1>1, <2>4, SocketMovesKeeps
<1>7. CASE slot' = As(i, "CONNECTED") /\ Return("OPEN", n)
  <2>1. After(phase[n], "OPEN") = "open"
    BY <1>1 DEF After
  <2>2. /\ phase' \in [Id -> Phase] /\ phase'[n] = "open"
        /\ \A m \in Id : m # n => phase'[m] = phase[m]
        /\ sock_pc' = "poll" /\ closed' = closed /\ aborted' = aborted
    BY <1>1, <1>5, <1>7, <2>1, TellsOne DEF Return, GoOn
  <2>3. /\ slot' \in [Slot -> SlotRec] /\ slot'[i].id = n /\ slot'[i].type = "CONNECTED"
        /\ ~slot'[i].buffered
        /\ \A j \in Slot : j # i => slot'[j] = slot[j]
    BY <1>1, <1>5, <1>7, ChangesType
  <2>4. closed' \in Id
    BY <2>2 DEF SocketTypeOK
  <2>5. SocketMoves(i)
    BY <1>1, <1>3, <2>2, <2>3, <2>4 DEF SocketMoves, ThreadGoesOn, EventsGoOn, KnownOf, Polled
  <2> QED
    BY <1>1, <2>5, SocketMovesKeeps
<1>8. CASE slot' = [As(i, "CONNECTING") EXCEPT ![i].writing = TRUE] /\ Silent
  <2>1. /\ phase' = phase /\ sock_pc' = "poll" /\ closed' \in Id /\ aborted' = aborted
    BY <1>8 DEF Silent, GoOn, SocketTypeOK
  <2> DEFINE S == As(i, "CONNECTING")
  <2>2. /\ S \in [Slot -> SlotRec] /\ S[i].type = "CONNECTING" /\ S[i].id = n
        /\ S[i].buffered = slot[i].buffered
        /\ \A j \in Slot : j # i => S[j] = slot[j]
    BY <1>1, <1>5, ChangesType
  <2>3. /\ slot' \in [Slot -> SlotRec] /\ slot'[i].id = n /\ slot'[i].type = "CONNECTING"
        /\ ~slot'[i].buffered /\ slot'[i].writing = TRUE
        /\ \A j \in Slot : j # i => slot'[j] = slot[j]
    <3> DEFINE w == TRUE
    <3>1. S \in [Slot -> SlotRec] /\ SetsLists(S, slot', i, S[i].buffered, w)
      BY <1>8, <2>2 DEF SetsLists
    <3>2. S[i].buffered \in BOOLEAN /\ w \in BOOLEAN
      BY <1>1, <2>2
    <3> HIDE DEF S, w
    <3>3. /\ slot' \in [Slot -> SlotRec] /\ slot'[i].type = S[i].type /\ slot'[i].id = S[i].id
          /\ slot'[i].buffered = S[i].buffered /\ slot'[i].writing = w
          /\ \A j \in Slot : j # i => slot'[j] = S[j]
      BY <1>1, <3>1, <3>2, ChangesLists
    <3> QED
      BY <1>1, <2>2, <3>3 DEF w
  <2>4. SocketMoves(i)
    BY <1>1, <1>3, <1>5, <2>1, <2>3 DEF SocketMoves, ThreadGoesOn, EventsGoOn, KnownOf, Polled
  <2> QED
    BY <1>1, <2>4, SocketMovesKeeps
<1>9. CASE slot' = As(i, "PLISTEN") /\ Silent
  <2>1. /\ phase' = phase /\ sock_pc' = "poll" /\ closed' \in Id /\ aborted' = aborted
    BY <1>9 DEF Silent, GoOn, SocketTypeOK
  <2>2. /\ slot' \in [Slot -> SlotRec] /\ slot'[i].id = n /\ slot'[i].type = "PLISTEN"
        /\ ~slot'[i].buffered
        /\ \A j \in Slot : j # i => slot'[j] = slot[j]
    BY <1>1, <1>5, <1>9, ChangesType
  <2>3. SocketMoves(i)
    BY <1>1, <1>3, <1>5, <2>1, <2>2 DEF SocketMoves, ThreadGoesOn, EventsGoOn, KnownOf, Polled
  <2> QED
    BY <1>1, <2>3, SocketMovesKeeps
<1> QED
  BY <1>4, <1>6, <1>7, <1>8, <1>9

\* start_socket.
LEMMA StartKeeps ==
  ASSUME SocketInv, TakesCommand, ~Makes(1), ~Between(HASH_ID(pipe[1].id)), Start(pipe[1].id)
  PROVE  SocketInv'
<1> USE DEF SocketInv
<1> DEFINE n == pipe[1].id
           i == HASH_ID(n)
<1>1. n \in Id /\ i \in Slot /\ phase[n] # "unknown"
  BY FirstCommand DEF TakesCommand
<1>2. /\ sock_pc # "clear" /\ UNCHANGED <<alloc_id, services, ev, checkctrl>>
      /\ checkctrl' \in BOOLEAN /\ PipeKept /\ EventsGoOn
  BY DEF TakesCommand, SocketTypeOK, PipeKept, EventsGoOn
<1>3. CASE Gone(n)
  <2>1. Return("ERROR", n) /\ slot' = slot
    BY <1>3 DEF Start
  <2> HIDE DEF n
  <2> QED
    BY <1>1, <1>2, <1>3, <2>1, GoneStays
<1>4. CASE ~Gone(n)
  <2>1. slot[i].type \notin {"INVALID", "RESERVE"} /\ slot[i].id = n
    BY <1>4, CommandFinds DEF TakesCommand
  <2>2. phase[n] = KnownOf(slot[i].type) /\ slot[i].type \in SocketType
    BY <1>1, <2>1, Typed DEF ToldAsTyped
  <2>3. \/ /\ slot[i].type \in {"PACCEPT", "PLISTEN"}
           /\ slot' = As(i, "INVALID") /\ Return("ERROR", n)
        \/ /\ slot[i].type \in {"PACCEPT", "PLISTEN"}
           /\ slot' = As(i, IF slot[i].type = "PACCEPT" THEN "CONNECTED" ELSE "LISTEN")
           /\ Return("OPEN", n)
        \/ slot[i].type = "CONNECTED" /\ Return("OPEN", n) /\ slot' = slot
        \/ Silent /\ slot' = slot
    BY <1>4 DEF Start
  <2> HIDE DEF n, i
  <2>4. /\ slot \in [Slot -> SlotRec] /\ {"ended", "open"} \subseteq Phase
        /\ "INVALID" \in SocketType /\ "CONNECTED" \in SocketType /\ "LISTEN" \in SocketType
    BY DEF SocketTypeOK, SlotRec, Phase, SocketType
  <2>5. slot[i].type \in {"PACCEPT", "PLISTEN"} => ~slot[i].buffered
    BY <1>1 DEF Watched, BufferedIsWatched
  <2>6. CASE /\ slot[i].type \in {"PACCEPT", "PLISTEN"}
             /\ slot' = As(i, "INVALID") /\ Return("ERROR", n)
    <3>1. After(phase[n], "ERROR") = "ended"
      BY DEF After
    <3>2. /\ phase' \in [Id -> Phase] /\ phase'[n] = "ended"
          /\ \A m \in Id : m # n => phase'[m] = phase[m]
          /\ sock_pc' = "clear" /\ closed' = n /\ aborted' = aborted
      BY <1>1, <2>4, <2>6, <3>1, TellsOne DEF Return
    <3>3. /\ slot' \in [Slot -> SlotRec] /\ slot'[i].id = n /\ slot'[i].type = "INVALID"
          /\ ~slot'[i].buffered
          /\ \A j \in Slot : j # i => slot'[j] = slot[j]
      BY <1>1, <2>1, <2>4, <2>5, <2>6, ChangesType
    <3>4. SocketMoves(i)
      BY <1>1, <1>2, <2>1, <3>2, <3>3 DEF SocketMoves, ThreadGoesOn
    <3> QED
      BY <1>1, <3>4, SocketMovesKeeps
  <2>7. CASE /\ slot[i].type \in {"PACCEPT", "PLISTEN"}
             /\ slot' = As(i, IF slot[i].type = "PACCEPT" THEN "CONNECTED" ELSE "LISTEN")
             /\ Return("OPEN", n)
    <3> DEFINE type == IF slot[i].type = "PACCEPT" THEN "CONNECTED" ELSE "LISTEN"
    <3>1. After(phase[n], "OPEN") = "open"
      BY <2>2, <2>7 DEF After, KnownOf
    <3>2. /\ phase' \in [Id -> Phase] /\ phase'[n] = "open"
          /\ \A m \in Id : m # n => phase'[m] = phase[m]
          /\ sock_pc' = "poll" /\ closed' \in Id /\ aborted' = aborted
      BY <1>1, <2>4, <2>7, <3>1, TellsOne DEF Return, GoOn, SocketTypeOK
    <3>3. type \in {"CONNECTED", "LISTEN"} /\ type \in SocketType /\ slot' = As(i, type)
      BY <2>4, <2>7
    <3> HIDE DEF type
    <3>4. /\ slot' \in [Slot -> SlotRec] /\ slot'[i].id = n /\ slot'[i].type \in {"CONNECTED", "LISTEN"}
          /\ ~slot'[i].buffered
          /\ \A j \in Slot : j # i => slot'[j] = slot[j]
      BY <1>1, <2>1, <2>5, <2>7, <3>3, ChangesType
    <3>5. SocketMoves(i)
      BY <1>1, <1>2, <2>1, <2>7, <3>2, <3>4 DEF SocketMoves, ThreadGoesOn, KnownOf, Polled
    <3> QED
      BY <1>1, <3>5, SocketMovesKeeps
  <2>8. CASE slot[i].type = "CONNECTED" /\ Return("OPEN", n) /\ slot' = slot
    <3>1. After(phase[n], "OPEN") = "open"
      BY <2>2, <2>8 DEF After, KnownOf
    <3>2. /\ phase' \in [Id -> Phase] /\ phase'[n] = "open"
          /\ \A m \in Id : m # n => phase'[m] = phase[m]
          /\ sock_pc' = "poll" /\ closed' \in Id /\ aborted' = aborted
      BY <1>1, <2>4, <2>8, <3>1, TellsOne DEF Return, GoOn, SocketTypeOK
    <3>3. SocketMoves(i)
      BY <1>1, <1>2, <2>1, <2>4, <2>8, <3>2
         DEF SocketMoves, ThreadGoesOn, KnownOf, Polled, Watched, BufferedIsWatched
    <3> QED
      BY <1>1, <3>3, SocketMovesKeeps
  <2>9. CASE Silent /\ slot' = slot
    BY <1>2, <2>9, SilentStays
  <2> QED
    BY <2>3, <2>6, <2>7, <2>8, <2>9
<1> QED
  BY <1>3, <1>4

\* close_socket.
LEMMA CloseKeeps ==
  ASSUME SocketInv, TakesCommand, ~Makes(1), ~Between(HASH_ID(pipe[1].id)), Close(pipe[1].id)
  PROVE  SocketInv'
<1> USE DEF SocketInv
<1> DEFINE n == pipe[1].id
           i == HASH_ID(n)
<1>1. n \in Id /\ i \in Slot /\ phase[n] # "unknown"
  BY FirstCommand DEF TakesCommand
<1>2. /\ sock_pc # "clear" /\ UNCHANGED <<alloc_id, services, ev, checkctrl>>
      /\ checkctrl' \in BOOLEAN /\ PipeKept /\ EventsGoOn
  BY DEF TakesCommand, SocketTypeOK, PipeKept, EventsGoOn
<1>3. CASE Gone(n)
  <2>1. Return("CLOSE", n) /\ slot' = slot
    BY <1>3 DEF Close
  <2> HIDE DEF n
  <2> QED
    BY <1>1, <1>2, <1>3, <2>1, GoneStays
<1>4. CASE ~Gone(n)
  <2>1. slot[i].type \notin {"INVALID", "RESERVE"} /\ slot[i].id = n
    BY <1>4, CommandFinds DEF TakesCommand
  <2>2. \/ End(i, "CLOSE")
        \/ /\ slot[i].buffered
           /\ slot' = As(i, "HALFCLOSE")
           /\ Told("HALFCLOSE", n) /\ GoOn /\ aborted' = aborted
    BY <1>4 DEF Close
  <2> HIDE DEF n, i
  <2>3. CASE End(i, "CLOSE")
    BY <1>1, <1>2, <2>1, <2>3, EndMoves
  <2>4. CASE /\ slot[i].buffered
             /\ slot' = As(i, "HALFCLOSE")
             /\ Told("HALFCLOSE", n) /\ GoOn /\ aborted' = aborted
    <3>1. /\ slot[i].type \in {"CONNECTING", "CONNECTED", "HALFCLOSE"} /\ slot[i].writing
          /\ phase[n] = KnownOf(slot[i].type)
      BY <1>1, <2>1, <2>4 DEF Watched, BufferedIsWatched, ToldAsTyped
    <3>2. After(phase[n], "HALFCLOSE") = "closing" /\ "closing" \in Phase
      BY <3>1 DEF After, KnownOf, Phase
    <3>3. /\ phase' \in [Id -> Phase] /\ phase'[n] = "closing"
          /\ \A m \in Id : m # n => phase'[m] = phase[m]
          /\ sock_pc' = "poll" /\ closed' \in Id /\ aborted' = aborted
      BY <1>1, <2>4, <3>2, TellsOne DEF GoOn, SocketTypeOK
    <3>4. "HALFCLOSE" \in SocketType
      BY DEF SocketType
    <3>5. /\ slot' \in [Slot -> SlotRec] /\ slot'[i].id = n /\ slot'[i].type = "HALFCLOSE"
          /\ slot'[i].writing
          /\ \A j \in Slot : j # i => slot'[j] = slot[j]
      BY <1>1, <2>1, <2>4, <3>1, <3>4, ChangesType
    <3>6. SocketMoves(i)
      BY <1>1, <1>2, <2>1, <3>3, <3>5 DEF SocketMoves, ThreadGoesOn, KnownOf, Polled
    <3> QED
      BY <1>1, <3>6, SocketMovesKeeps
  <2> QED
    BY <2>2, <2>3, <2>4
<1> QED
  BY <1>3, <1>4

\* The write lists of slot i change, and whether it is written from; its service is told
\* nothing.
LEMMA ListsKeep ==
  ASSUME SocketInv, NEW i \in Slot, NEW b \in BOOLEAN, NEW w \in BOOLEAN,
         \/ slot' = [slot EXCEPT ![i].buffered = b, ![i].writing = w]
         \/ slot' = [slot EXCEPT ![i].buffered = b] /\ w = slot[i].writing,
         slot[i].type \notin {"INVALID", "RESERVE"},
         b => slot[i].type \in {"CONNECTING", "CONNECTED", "HALFCLOSE"} /\ w,
         slot[i].type = "CONNECTING" => w,
         Silent, sock_pc # "clear", PipeKept, EventsGoOn,
         UNCHANGED <<alloc_id, services>>, checkctrl' \in BOOLEAN
  PROVE  SocketInv'
<1> USE DEF SocketInv
<1>1. slot \in [Slot -> SlotRec] /\ phase \in [Id -> Phase]
  BY DEF SocketTypeOK, SlotRec, Phase
<1>0. SetsLists(slot, slot', i, b, w)
  BY DEF SetsLists
<1>2. /\ slot' \in [Slot -> SlotRec]
      /\ slot'[i].type = slot[i].type /\ slot'[i].id = slot[i].id
      /\ slot'[i].buffered = b /\ slot'[i].writing = w
      /\ \A j \in Slot : j # i => slot'[j] = slot[j]
  BY <1>1, <1>0, ChangesLists
<1>3. /\ phase' = phase /\ phase[slot[i].id] = KnownOf(slot[i].type)
      /\ phase[slot[i].id] \notin {"unknown", "wrong"}
  BY DEF Silent, ToldAsTyped, KnownOf
<1>4. sock_pc' = "poll" /\ closed' \in Id /\ aborted' = aborted
  BY DEF Silent, GoOn, SocketTypeOK
<1>5. SocketMoves(i)
  BY <1>1, <1>2, <1>3, <1>4 DEF SocketMoves, ThreadGoesOn
<1> QED
  BY <1>5, SocketMovesKeeps

\* send_socket.
LEMMA SendKeeps ==
  ASSUME SocketInv, TakesCommand, ~Makes(1), ~Between(HASH_ID(pipe[1].id)), Send(pipe[1].id)
  PROVE  SocketInv'
<1> USE DEF SocketInv
<1> DEFINE n == pipe[1].id
           i == HASH_ID(n)
<1>1. n \in Id /\ i \in Slot /\ phase[n] # "unknown"
  BY FirstCommand DEF TakesCommand
<1>2. /\ sock_pc # "clear" /\ UNCHANGED <<alloc_id, services, ev, checkctrl>>
      /\ checkctrl' \in BOOLEAN /\ PipeKept /\ EventsGoOn
  BY DEF TakesCommand, SocketTypeOK, PipeKept, EventsGoOn
<1>3. ASSUME ~Gone(n)
      PROVE  slot[i].type \notin {"INVALID", "RESERVE"} /\ slot[i].id = n
  BY <1>3, CommandFinds DEF TakesCommand
<1>4. slot[i].type \in SocketType /\ slot[i].writing \in BOOLEAN
  BY <1>1, Typed
<1>5. \/ Silent /\ slot' = slot
      \/ /\ ~Gone(n) /\ slot[i].type = "CONNECTED"
         /\ slot' = [slot EXCEPT ![i].buffered = TRUE, ![i].writing = @ \/ TRUE] /\ Silent
      \/ ~Gone(n) /\ End(i, "CLOSE")
      \/ /\ ~Gone(n)
         /\ slot[i].type \in {"CONNECTING", "CONNECTED"}
         /\ slot[i].type = "CONNECTED" => slot[i].buffered
         /\ slot' = [slot EXCEPT ![i].buffered = TRUE, ![i].writing = @ \/ FALSE] /\ Silent
  <2>1. CASE Gone(n) \/ slot[i].type \in {"HALFCLOSE", "PACCEPT", "PLISTEN", "LISTEN"}
    BY <2>1 DEF Send
  <2>2. CASE ~Gone(n) /\ slot[i].type = "CONNECTED" /\ ~slot[i].buffered
    BY <2>2 DEF Send
  <2>3. CASE /\ ~Gone(n) /\ slot[i].type \in {"CONNECTING", "CONNECTED"}
             /\ slot[i].type = "CONNECTED" => slot[i].buffered
    <3>1. slot' = [slot EXCEPT ![i].buffered = TRUE, ![i].writing = @ \/ FALSE] /\ Silent
      BY <2>3 DEF Send
    <3> QED
      BY <2>3, <3>1
  <2> QED
    BY <1>3, <1>4, <2>1, <2>2, <2>3 DEF SocketType
<1> HIDE DEF n, i
<1>6. CASE Silent /\ slot' = slot
  BY <1>2, <1>6, SilentStays
<1>7. CASE /\ ~Gone(n) /\ slot[i].type = "CONNECTED"
           /\ slot' = [slot EXCEPT ![i].buffered = TRUE, ![i].writing = @ \/ TRUE] /\ Silent
  <2>1. slot' = [slot EXCEPT ![i].buffered = TRUE, ![i].writing = TRUE]
    BY <1>7
  <2> QED
    BY <1>1, <1>2, <1>7, <2>1, ListsKeep
<1>8. CASE ~Gone(n) /\ End(i, "CLOSE")
  BY <1>1, <1>2, <1>3, <1>8, EndMoves
<1>9. CASE /\ ~Gone(n)
           /\ slot[i].type \in {"CONNECTING", "CONNECTED"}
           /\ slot[i].type = "CONNECTED" => slot[i].buffered
           /\ slot' = [slot EXCEPT ![i].buffered = TRUE, ![i].writing = @ \/ FALSE] /\ Silent
  <2>1. slot[i].writing = TRUE
    BY <1>1, <1>4, <1>9 DEF Watched, BufferedIsWatched
  <2>2. slot' = [slot EXCEPT ![i].buffered = TRUE, ![i].writing = TRUE]
    BY <1>1, <1>9, <2>1 DEF SocketTypeOK
  <2> QED
    BY <1>1, <1>2, <1>9, <2>2, ListsKeep
<1> QED
  BY <1>5, <1>6, <1>7, <1>8, <1>9

LEMMA CtrlCmdKeeps ==
  ASSUME SocketInv, Quiet, CtrlCmd
  PROVE  SocketInv'
<1> DEFINE n == pipe[1].id
<1>1. pipe # <<>>
  BY DEF CtrlCmd
<1>2. Head(pipe) = pipe[1] /\ pipe[1].cmd \in {"O", "L", "S", "K", "D"}
  BY <1>1, FirstCommand
<1>3. ~Between(HASH_ID(n)) /\ TakesCommand
  BY <1>2 DEF CtrlCmd, TakesCommand
<1>4. CASE pipe[1].cmd = "O"
  BY <1>2, <1>3, <1>4, MakesKeeps DEF CtrlCmd, Makes
<1>5. CASE pipe[1].cmd = "L"
  BY <1>2, <1>3, <1>5, MakesKeeps DEF CtrlCmd, Makes
<1>6. CASE pipe[1].cmd = "S"
  BY <1>2, <1>3, <1>6, StartKeeps DEF CtrlCmd, Makes
<1>7. CASE pipe[1].cmd = "K"
  BY <1>2, <1>3, <1>7, CloseKeeps DEF CtrlCmd, Makes
<1>8. CASE pipe[1].cmd = "D"
  BY <1>2, <1>3, <1>8, SendKeeps DEF CtrlCmd, Makes
<1> QED
  BY <1>2, <1>4, <1>5, <1>6, <1>7, <1>8

\* has_cmd finds the pipe empty.
LEMMA NoCmdKeeps ==
  ASSUME SocketInv, NoCmd
  PROVE  SocketInv'
<1> USE DEF SocketInv
<1>0. /\ alloc_id' = alloc_id /\ svc_pc' = svc_pc /\ new' = new /\ slot' = slot /\ ops' = ops
      /\ phase' = phase /\ pipe' = pipe /\ ev' = ev
      /\ checkctrl' = FALSE /\ sock_pc' = sock_pc /\ closed' = closed /\ aborted' = aborted
  BY DEF NoCmd, services
<1>1. SocketTypeOK'
  BY <1>0 DEF SocketTypeOK
<1>2. IdsFresh' /\ ReservedOnce' /\ MadeFirst' /\ EventsKept'
  BY <1>0 DEF IdsFresh, Busy, ReservedOnce, Sets, Makes, MadeFirst, EventsKept
<1>3. ToldAsTyped' /\ Watched' /\ NoAssertionFails'
  BY <1>0 DEF ToldAsTyped, MessagesInOrder, Watched, BufferedIsWatched, NoAssertionFails
<1> QED
  BY <1>1, <1>2, <1>3
-----------------------------------------------------------------------------
(* Events.                                                                 *)

\* The event that is handled is for the socket that has the slot.
LEMMA FirstEvent ==
  ASSUME SocketInv, NEW i \in Slot, AtEvent(i)
  PROVE  /\ sock_pc # "clear" /\ ev # <<>> /\ Head(ev).slot = i
         /\ slot[i].type \in Polled /\ slot[i].id \in Id
         /\ slot[i].type \notin {"INVALID", "RESERVE"}
         /\ phase[slot[i].id] = KnownOf(slot[i].type)
         /\ {"open", "ended"} \subseteq Phase
         /\ "CONNECTED" \in SocketType
         /\ slot \in [Slot -> SlotRec] /\ phase \in [Id -> Phase]
<1> USE DEF SocketInv
<1>1. sock_pc # "clear" /\ ev # <<>> /\ Head(ev).slot = i
  BY DEF AtEvent
<1>2. 1 \in DOMAIN ev /\ Head(ev) = ev[1]
  BY <1>1, TailOf DEF SocketTypeOK
<1>3. i # NULL
  BY SocketAssumption DEF NULL, Slot
<1>4. slot[i].type \in Polled
  BY <1>1, <1>2, <1>3 DEF EventsKept
<1>5. slot[i].type \notin {"INVALID", "RESERVE"}
  BY <1>4 DEF Polled
<1>6. slot[i].id \in Id /\ phase[slot[i].id] = KnownOf(slot[i].type)
  BY <1>5, Typed DEF ToldAsTyped
<1> QED
  BY <1>1, <1>4, <1>5, <1>6 DEF Phase, SocketType, SocketTypeOK, SlotRec

LEMMA SkipKeeps ==
  ASSUME SocketInv, NEW i, Skip(i)
  PROVE  SocketInv'
<1>1. /\ sock_pc # "clear" /\ Silent /\ slot' = slot /\ ev # <<>> /\ ev' = Tail(ev)
      /\ UNCHANGED <<alloc_id, services>> /\ pipe' = pipe /\ checkctrl' = checkctrl
  BY DEF Skip, AtEvent, Rest
<1>2. checkctrl' \in BOOLEAN
  BY <1>1 DEF SocketInv, SocketTypeOK
<1> QED
  BY <1>1, <1>2, SilentStays DEF PipeKept, EventsGoOn

\* report_connect.
LEMMA ReportConnectKeeps ==
  ASSUME SocketInv, NEW i \in Slot, ReportConnect(i)
  PROVE  SocketInv'
<1> USE DEF SocketInv
<1> DEFINE id == slot[i].id
<1>1. /\ sock_pc # "clear" /\ ev # <<>> /\ Head(ev).slot = i /\ ev' = Tail(ev)
      /\ slot[i].type = "CONNECTING" /\ id \in Id /\ phase[id] = "none"
      /\ {"open", "ended"} \subseteq Phase /\ "CONNECTED" \in SocketType
      /\ slot \in [Slot -> SlotRec] /\ phase \in [Id -> Phase]
  BY FirstEvent DEF ReportConnect, Rest, KnownOf
<1>2. /\ UNCHANGED <<alloc_id, services>> /\ pipe' = pipe /\ checkctrl' \in BOOLEAN
      /\ PipeKept /\ EventsGoOn
  BY <1>1 DEF ReportConnect, SocketTypeOK, PipeKept, EventsGoOn
<1>3. \/ slot' = ForceClosed(i) /\ ReturnUncleared("ERROR", id)
      \/ /\ slot' = [As(i, "CONNECTED") EXCEPT ![i].writing = @ /\ slot[i].buffered]
         /\ Return("OPEN", id)
  BY DEF ReportConnect
<1>4. CASE slot' = ForceClosed(i) /\ ReturnUncleared("ERROR", id)
  <2>1. After(phase[id], "ERROR") = "ended" /\ "ended" \in Phase
    BY <1>1 DEF After
  <2> HIDE DEF id
  <2>2. /\ phase' \in [Id -> Phase] /\ phase'[id] = "ended"
        /\ \A m \in Id : m # id => phase'[m] = phase[m]
        /\ sock_pc' = "poll" /\ closed' \in Id /\ aborted' = aborted
    BY <1>1, <1>4, <2>1, TellsOne DEF ReturnUncleared, GoOn, SocketTypeOK
  <2>3. /\ slot' \in [Slot -> SlotRec] /\ slot'[i].id = id /\ slot'[i].type = "INVALID"
        /\ ~slot'[i].buffered
        /\ \A j \in Slot : j # i => slot'[j] = slot[j]
    BY <1>4, ForcesClosed DEF id
  <2>4. SocketMoves(i)
    BY <1>1, <1>2, <2>2, <2>3 DEF SocketMoves, ThreadGoesOn, id
  <2> QED
    BY <2>4, SocketMovesKeeps
<1>5. CASE /\ slot' = [As(i, "CONNECTED") EXCEPT ![i].writing = @ /\ slot[i].buffered]
           /\ Return("OPEN", id)
  <2>1. After(phase[id], "OPEN") = "open" /\ "open" \in Phase
    BY <1>1 DEF After
  <2> HIDE DEF id
  <2>2. /\ phase' \in [Id -> Phase] /\ phase'[id] = "open"
        /\ \A m \in Id : m # id => phase'[m] = phase[m]
        /\ sock_pc' = "poll" /\ closed' \in Id /\ aborted' = aborted
    BY <1>1, <1>5, <2>1, TellsOne DEF Return, GoOn, SocketTypeOK
  <2> DEFINE S == As(i, "CONNECTED")
             w == S[i].writing /\ slot[i].buffered
  <2>3. /\ S \in [Slot -> SlotRec] /\ S[i].type = "CONNECTED" /\ S[i].id = id
        /\ S[i].buffered = slot[i].buffered /\ S[i].writing = slot[i].writing
        /\ \A j \in Slot : j # i => S[j] = slot[j]
    BY <1>1, ChangesType DEF id
  <2>4. slot' = [S EXCEPT ![i].writing = w] /\ S[i].buffered \in BOOLEAN /\ w \in BOOLEAN
    BY <1>5, <2>3, Typed
  <2>5. slot[i].writing = TRUE /\ (slot[i].buffered => w = TRUE)
    BY <1>1, <2>3, <2>4, Typed DEF Watched
  <2> HIDE DEF S, w
  <2>0. SetsLists(S, slot', i, S[i].buffered, w)
    BY <2>4 DEF SetsLists
  <2>6. /\ slot' \in [Slot -> SlotRec] /\ slot'[i].type = S[i].type /\ slot'[i].id = S[i].id
        /\ slot'[i].buffered = S[i].buffered /\ slot'[i].writing = w
        /\ \A j \in Slot : j # i => slot'[j] = S[j]
    BY <2>3, <2>4, <2>0, ChangesLists
  <2>7. /\ slot' \in [Slot -> SlotRec] /\ slot'[i].type = "CONNECTED" /\ slot'[i].id = id
        /\ slot'[i].buffered => slot'[i].writing
        /\ \A j \in Slot : j # i => slot'[j] = slot[j]
    BY <2>3, <2>5, <2>6
  <2>8. SocketMoves(i)
    BY <1>1, <1>2, <2>2, <2>7 DEF SocketMoves, ThreadGoesOn, KnownOf, Polled, id
  <2> QED
    BY <2>8, SocketMovesKeeps
<1> QED
  BY <1>3, <1>4, <1>5

\* report_accept.
LEMMA ReportAcceptKeeps ==
  ASSUME SocketInv, NEW i \in Slot, ReportAccept(i)
  PROVE  SocketInv'
<1> USE DEF SocketInv
<1>1. /\ sock_pc # "clear" /\ ev # <<>> /\ ev' = Tail(ev) /\ slot[i].type = "LISTEN"
      /\ UNCHANGED services /\ pipe' = pipe /\ checkctrl' = checkctrl
      /\ PipeKept /\ EventsGoOn /\ checkctrl' \in BOOLEAN
  BY FirstEvent DEF ReportAccept, Rest, PipeKept, EventsGoOn, SocketTypeOK
<1>2. CASE Silent /\ UNCHANGED <<slot, alloc_id>>
  BY <1>1, <1>2, SilentStays
<1>3. CASE ~(Silent /\ UNCHANGED <<slot, alloc_id>>)
  <2>1. PICK n \in alloc_id + 1 .. alloc_id + MAX_SOCKET :
          /\ n <= MaxId /\ slot[HASH_ID(n)].type = "INVALID"
          /\ alloc_id' = n
          /\ slot' = [slot EXCEPT ![HASH_ID(n)] =
                        [type |-> "PACCEPT", id |-> n, buffered |-> FALSE, writing |-> FALSE]]
          /\ phase' = [phase EXCEPT ![n] = "none", ![slot[i].id] = After(@, "ACCEPT")]
          /\ GoOn /\ aborted' = aborted
    BY <1>3 DEF ReportAccept
  <2>2. n \in Int /\ n > alloc_id
    BY SocketAssumption DEF SocketTypeOK, Id
  <2>3. Accepts(i, n)
    BY <1>1, <2>1, <2>2 DEF Accepts, GoOn
  <2> QED
    BY <2>2, <2>3, AcceptsKeeps
<1> QED
  BY <1>2, <1>3

\* forward_message_tcp.
LEMMA ForwardMessageKeeps ==
  ASSUME SocketInv, NEW i \in Slot, ForwardMessage(i)
  PROVE  SocketInv'
<1> USE DEF SocketInv
<1> DEFINE id == slot[i].id
<1>1. /\ sock_pc # "clear" /\ ev # <<>> /\ id \in Id /\ phase[id] = KnownOf(slot[i].type)
      /\ slot[i].type \in {"CONNECTED", "HALFCLOSE"}
      /\ {"open", "ended"} \subseteq Phase /\ slot \in [Slot -> SlotRec]
      /\ phase \in [Id -> Phase]
  BY FirstEvent DEF ForwardMessage, Established, Polled
<1>2. /\ UNCHANGED <<alloc_id, services>> /\ pipe' = pipe /\ checkctrl' \in BOOLEAN
      /\ PipeKept /\ EventsGoOn
  BY <1>1 DEF ForwardMessage, RestOrWrite, Rest, SocketTypeOK, PipeKept, EventsGoOn
<1>3. \/ Silent /\ slot' = slot
      \/ DataTold(i) /\ GoOn /\ aborted' = aborted
      \/ End(i, "ERROR")
      \/ End(i, "CLOSE")
  BY DEF ForwardMessage
<1> HIDE DEF id
<1>4. CASE Silent /\ slot' = slot
  BY <1>1, <1>2, <1>4, SilentStays
<1>5. CASE End(i, "ERROR") \/ End(i, "CLOSE")
  <2>1. slot[i].type \notin {"INVALID", "RESERVE"}
    BY <1>1
  <2> QED
    BY <1>1, <1>2, <1>5, <2>1, EndMoves
<1>6. CASE DataTold(i) /\ GoOn /\ aborted' = aborted
  <2>1. CASE slot[i].type = "HALFCLOSE"
    <3>1. Silent /\ slot' = slot
      BY <1>6, <2>1 DEF DataTold, Silent
    <3> QED
      BY <1>1, <1>2, <3>1, SilentStays
  <2>2. CASE slot[i].type = "CONNECTED"
    <3>1. Told("DATA", id) /\ slot' = slot
      BY <1>6, <2>2 DEF DataTold, id
    <3>2. phase[id] = "open" /\ After(phase[id], "DATA") = "open" /\ "open" \in Phase
      BY <1>1, <2>2 DEF KnownOf, After
    <3>3. /\ phase' \in [Id -> Phase] /\ phase'[id] = "open"
          /\ \A m \in Id : m # id => phase'[m] = phase[m]
      BY <1>1, <3>1, <3>2, TellsOne
    <3>4. sock_pc' = "poll" /\ closed' \in Id /\ aborted' = aborted
      BY <1>6 DEF GoOn, SocketTypeOK
    <3>5. SocketMoves(i)
      BY <1>1, <1>2, <2>2, <3>1, <3>3, <3>4
         DEF SocketMoves, ThreadGoesOn, KnownOf, Polled, Watched, BufferedIsWatched, id
    <3> QED
      BY <3>5, SocketMovesKeeps
  <2> QED
    BY <1>1, <2>1, <2>2
<1> QED
  BY <1>3, <1>4, <1>5, <1>6

\* send_buffer.
LEMMA SendBufferKeeps ==
  ASSUME SocketInv, NEW i \in Slot, SendAll(i) \/ SendSome(i)
  PROVE  SocketInv'
<1> USE DEF SocketInv
<1>1. /\ sock_pc # "clear" /\ ev # <<>> /\ slot[i].type \in {"CONNECTED", "HALFCLOSE"}
      /\ slot[i].writing \in BOOLEAN
  BY FirstEvent, Typed DEF SendAll, SendSome, SendEvent, Established, Polled
<1>2. /\ UNCHANGED <<alloc_id, services>> /\ pipe' = pipe /\ checkctrl' \in BOOLEAN
      /\ PipeKept /\ EventsGoOn
  BY <1>1 DEF SendAll, SendSome, SendEvent, Rest, SocketTypeOK, PipeKept, EventsGoOn
<1>3. \/ End(i, "CLOSE")
      \/ slot' = [slot EXCEPT ![i].buffered = FALSE, ![i].writing = FALSE] /\ Silent
      \/ slot' = [slot EXCEPT ![i].buffered = FALSE] /\ Silent
      \/ slot' = slot /\ Silent
  BY DEF SendAll, SendSome, ListsEmpty
<1>4. slot[i].type \notin {"INVALID", "RESERVE", "CONNECTING"}
  BY <1>1
<1>5. CASE End(i, "CLOSE")
  BY <1>1, <1>2, <1>4, <1>5, EndMoves
<1>6. CASE slot' = [slot EXCEPT ![i].buffered = FALSE, ![i].writing = FALSE] /\ Silent
  BY <1>1, <1>2, <1>4, <1>6, ListsKeep
<1>7. CASE slot' = [slot EXCEPT ![i].buffered = FALSE] /\ Silent
  BY <1>1, <1>2, <1>4, <1>7, ListsKeep
<1>8. CASE slot' = slot /\ Silent
  BY <1>1, <1>2, <1>8, SilentStays
<1> QED
  BY <1>3, <1>5, <1>6, <1>7, <1>8
-----------------------------------------------------------------------------
(* The theorems.                                                           *)

\* What SocketsApart says of a reserved slot, counted.
LEMMA AwaitedByOne ==
  ASSUME SocketInv
  PROVE  ReservedIsAwaited
<1> USE DEF SocketInv
<1> SUFFICES ASSUME NEW i \in Slot, slot[i].type = "RESERVE"
             PROVE  Cardinality({s \in Svc : svc_pc[s] = "set" /\ HASH_ID(new[s]) = i})
                      + Cardinality({k \in DOMAIN pipe :
                          pipe[k].cmd \in {"O", "L"} /\ HASH_ID(pipe[k].id) = i}) = 1
  BY DEF ReservedIsAwaited
<1> DEFINE Setting == {s \in Svc : svc_pc[s] = "set" /\ HASH_ID(new[s]) = i}
           Making == {k \in DOMAIN pipe : pipe[k].cmd \in {"O", "L"} /\ HASH_ID(pipe[k].id) = i}
<1>1. CASE \E s \in Svc : Sets(s, i)
  <2>1. PICK s \in Svc : Sets(s, i)
    BY <1>1
  <2>2. Setting = {s}
    BY <2>1 DEF ReservedOnce, Sets
  <2>3. Making = {}
    BY <2>1 DEF ReservedOnce, Makes
  <2> HIDE DEF Setting, Making
  <2>4. Cardinality(Setting) = 1 /\ Cardinality(Making) = 0
    BY <2>2, <2>3, FS_Singleton, FS_EmptySet
  <2> QED
    BY <2>4 DEF Setting, Making
<1>2. CASE ~\E s \in Svc : Sets(s, i)
  <2>1. PICK k \in DOMAIN pipe : Makes(k) /\ HASH_ID(pipe[k].id) = i
    BY <1>2 DEF ReservedOnce
  <2>2. Setting = {}
    BY <1>2 DEF Sets
  <2>3. ASSUME NEW j \in DOMAIN pipe, Makes(j), HASH_ID(pipe[j].id) = i
        PROVE  j = k
    <3>1. pipe[j].id = slot[i].id /\ pipe[k].id = slot[i].id
      BY <2>1, <2>3 DEF ReservedOnce
    <3>2. j <= k /\ k <= j /\ j \in Int /\ k \in Int
      BY <2>1, <2>3, <3>1, Typed DEF MadeFirst
    <3> QED
      BY <3>2
  <2>4. Making = {k}
    BY <2>1, <2>3 DEF Makes
  <2> HIDE DEF Setting, Making
  <2>5. Cardinality(Setting) = 0 /\ Cardinality(Making) = 1
    BY <2>2, <2>4, FS_Singleton, FS_EmptySet
  <2> QED
    BY <2>5 DEF Setting, Making
<1> QED
  BY <1>1, <1>2

LEMMA SocketInitInv == SocketInit => SocketInv
<1> SUFFICES ASSUME SocketInit PROVE SocketInv
  OBVIOUS
<1> USE DEF SocketInit
<1>1. SocketTypeOK
  <2>1. 0 \in Id /\ "INVALID" \in SocketType
    BY SocketAssumption DEF Id, SocketType
  <2>2. /\ slot \in [Slot -> [type : SocketType, id : Id, buffered : BOOLEAN, writing : BOOLEAN]]
        /\ \A i \in Slot : slot[i].id = 0
    BY <2>1
  <2>3. /\ svc_pc \in [Svc -> {"idle", "swap", "set"}] /\ new \in [Svc -> Id]
        /\ phase \in [Id -> {"unknown", "none", "open", "closing", "ended", "wrong"}]
    BY <2>1
  <2>4. /\ alloc_id \in Id /\ sock_pc \in {"poll", "event", "clear"} /\ closed \in Id
        /\ checkctrl \in BOOLEAN /\ aborted \in BOOLEAN /\ ops \in Nat
    BY <2>1
  <2>5. /\ pipe \in Seq([cmd : {"O", "L", "S", "K", "D"}, id : Id])
        /\ ev \in Seq([slot : Slot \cup {NULL}, of : Id, read : BOOLEAN, write : BOOLEAN])
    <3> DEFINE C == [cmd : {"O", "L", "S", "K", "D"}, id : Id]
               E == [slot : Slot \cup {NULL}, of : Id, read : BOOLEAN, write : BOOLEAN]
    <3>1. pipe = <<>> /\ ev = <<>>
      OBVIOUS
    <3> HIDE DEF C, E, SocketInit
    <3>2. pipe \in Seq(C) /\ ev \in Seq(E)
      BY <3>1
    <3> QED
      BY <3>2 DEF C, E
  <2> HIDE DEF SocketInit
  <2> QED
    BY <2>2, <2>3, <2>4, <2>5 DEF SocketTypeOK
<1>2. \A i \in Slot : slot[i].type = "INVALID" /\ ~slot[i].buffered
  OBVIOUS
<1>3. \A n \in Id : phase[n] = "unknown"
  OBVIOUS
<1>4. (\A s \in Svc : svc_pc[s] = "idle") /\ DOMAIN pipe = {} /\ DOMAIN ev = {}
  OBVIOUS
<1> HIDE DEF SocketInit
<1>5. IdsFresh /\ ReservedOnce /\ MadeFirst
  BY <1>2, <1>3, <1>4 DEF IdsFresh, Busy, ReservedOnce, Sets, MadeFirst
<1>6. EventsKept /\ ToldAsTyped /\ Watched
  BY <1>2, <1>3, <1>4 DEF EventsKept, ToldAsTyped, MessagesInOrder, Watched, BufferedIsWatched
<1>7. NoAssertionFails
  BY DEF SocketInit, NoAssertionFails
<1> QED
  BY <1>1, <1>5, <1>6, <1>7 DEF SocketInv

LEMMA SocketStepKeeps ==
  ASSUME Quiet, SocketInv, [SocketNext]_socketVars
  PROVE  SocketInv'
<1>1. CASE UNCHANGED socketVars
  BY <1>1 DEF socketVars, services, SocketInv, SocketTypeOK, IdsFresh, Busy, ReservedOnce, Sets,
              Makes, MadeFirst, EventsKept, ToldAsTyped, MessagesInOrder, Watched,
              BufferedIsWatched, NoAssertionFails
<1>2. ASSUME NEW s \in Svc, ServiceStep(s) PROVE SocketInv'
  BY <1>2, ReserveNextKeeps, ReserveSwapKeeps, ReserveSetKeeps DEF ServiceStep
<1>3. ASSUME NEW cmd \in {"S", "K", "D"}, NEW n \in Id, Request(cmd, n) PROVE SocketInv'
  BY <1>3, RequestKeeps
<1>4. CASE CtrlCmd \/ NoCmd \/ ClearClosedEvent \/ Wait
  BY <1>4, CtrlCmdKeeps, NoCmdKeeps, ClearKeeps, WaitKeeps
<1>5. ASSUME NEW i, Skip(i) PROVE SocketInv'
  BY <1>5, SkipKeeps
<1>6. ASSUME NEW i \in Slot,
             \/ ReportConnect(i) \/ ReportAccept(i) \/ ForwardMessage(i)
             \/ SendAll(i) \/ SendSome(i)
      PROVE  SocketInv'
  BY <1>6, ReportConnectKeeps, ReportAcceptKeeps, ForwardMessageKeeps, SendBufferKeeps
<1> QED
  BY <1>1, <1>2, <1>3, <1>4, <1>5, <1>6 DEF SocketNext, SocketThread

\* As long as no service takes a slot between the close of its last socket and the clearing
\* of that socket's events, and ctrl_cmd reads no id that is being replaced, everything that
\* the module says of sockets holds together.
THEOREM SocketInvariance ==
  ASSUME Quiet
  PROVE  SocketSpec => []SocketInv
<1>1. SocketInv /\ [SocketNext]_socketVars => SocketInv'
  BY SocketStepKeeps
<1> QED
  BY <1>1, SocketInitInv, PTL DEF SocketSpec

\* Then every event is for the socket that has the slot, each reserved slot has the one
\* thread or command that makes it a socket, services hear of sockets in order, data in the
\* write lists goes out, and no assertion of force_close or new_fd fails.
THEOREM SocketsStayApart ==
  ASSUME Quiet
  PROVE  SocketSpec => []SocketsApart
<1>1. SocketInv => SocketsApart
  <2> SUFFICES ASSUME SocketInv PROVE SocketsApart
    OBVIOUS
  <2>1. EventsFollow
    <3>1. \A k \in DOMAIN ev : ev[k].slot # NULL => slot[ev[k].slot].id = ev[k].of
      BY DEF SocketInv, EventsKept
    <3> QED
      BY <3>1 DEF EventsFollow
  <2> QED
    BY <2>1, AwaitedByOne DEF SocketInv, SocketsApart, ToldAsTyped, Watched
<1> QED
  BY <1>1, SocketInvariance, PTL
=============================================================================
