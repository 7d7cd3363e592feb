---------------------------- MODULE SocketServer ----------------------------
(***************************************************************************)
(* The slots of mtask-src/socket_server.c.  Services reserve slots from    *)
(* their own threads and write commands to a pipe; the socket thread reads *)
(* the pipe and the events of the poll, opens, accepts, reads, writes and  *)
(* closes, and tells services what happened.  An id outlives its slot: the *)
(* slot of id is id % MAX_SOCKET, and the next id of it is MAX_SOCKET on.  *)
(* What is in the write lists is left to module SendBuffer; here they are  *)
(* empty or not.  TCP sockets only.                                        *)
(***************************************************************************)
EXTENDS Integers, Sequences, FiniteSets

CONSTANTS
  Svc,           \* services, each with a thread of its own
  MAX_SOCKET,
  MaxId,         \* bound: ids that are given out
  MaxOps,        \* bound: commands that services send
  Quiet          \* no slot is taken while the socket thread closes its last
                 \* socket or reads the id that is being replaced

ASSUME SocketAssumption ==
  /\ MAX_SOCKET \in Nat \ {0}
  /\ MaxId \in Nat /\ MaxOps \in Nat
  /\ Quiet \in BOOLEAN

VARIABLES
  slot,          \* type, id, buffered: a list has data, writing: sp_write is on
  alloc_id,
  svc_pc, new,       \* where a service is in reserve_id, and with which id
  pipe,
  ops,           \* commands that were sent
  ev,            \* the events of the last sp_wait from event_index on, each with
                 \* the slot, and the id it was reported for
  checkctrl,
  sock_pc, closed,   \* where the socket thread is; the id clear_closed_event is for
  phase,         \* what the services were told of each id
  aborted        \* an assertion failed

services == <<svc_pc, new, ops>>
socketVars == <<slot, alloc_id, services, pipe, ev, checkctrl, sock_pc, closed, phase, aborted>>

Id    == 0 .. MaxId
Slot  == 0 .. MAX_SOCKET - 1
HASH_ID(n) == n % MAX_SOCKET
NULL == -1       \* the slot of an event that was cleared

As(i, type) == [slot EXCEPT ![i].type = type]

\* socket_server_create.
SocketInit ==
  /\ slot = [i \in Slot |-> [type |-> "INVALID", id |-> 0, buffered |-> FALSE, writing |-> FALSE]]
  /\ alloc_id = 0
  /\ svc_pc = [s \in Svc |-> "idle"] /\ new = [s \in Svc |-> 0] /\ ops = 0
  /\ pipe = <<>> /\ ev = <<>> /\ checkctrl = TRUE
  /\ sock_pc = "poll" /\ closed = 0
  /\ phase = [n \in Id |-> "unknown"]
  /\ aborted = FALSE

-----------------------------------------------------------------------------
(* Services.                                                               *)

Command(cmd, n) == [cmd |-> cmd, id |-> n]

threadVars == <<ev, checkctrl, sock_pc, closed, aborted>>

\* The socket thread has closed a socket of slot i and its events are not cleared.
Closing(i) == sock_pc = "clear" /\ HASH_ID(closed) = i

\* reserve_id: the next id, whose slot may be taken: then the one after it.
ReserveNext(s) ==
  /\ svc_pc[s] = "idle" /\ alloc_id < MaxId /\ ops < MaxOps
  /\ alloc_id' = alloc_id + 1
  /\ IF slot[HASH_ID(alloc_id + 1)].type = "INVALID"
     THEN svc_pc' = [svc_pc EXCEPT ![s] = "swap"] /\ new' = [new EXCEPT ![s] = alloc_id + 1]
     ELSE UNCHANGED <<svc_pc, new>>
  /\ UNCHANGED <<slot, ops, pipe, phase, threadVars>>

\* The compare-and-swap of the type.
ReserveSwap(s) ==
  /\ svc_pc[s] = "swap"
  /\ LET i == HASH_ID(new[s])
     IN /\ Quiet => ~Closing(i)
        /\ IF slot[i].type = "INVALID"
           THEN slot' = As(i, "RESERVE") /\ svc_pc' = [svc_pc EXCEPT ![s] = "set"]
           ELSE svc_pc' = [svc_pc EXCEPT ![s] = "idle"] /\ UNCHANGED slot
  /\ UNCHANGED <<alloc_id, new, ops, pipe, phase, threadVars>>

\* The id is stored, and socket_server_connect or socket_server_listen sends its
\* command and returns the id.
ReserveSet(s) ==
  /\ svc_pc[s] = "set"
  /\ slot' = [slot EXCEPT ![HASH_ID(new[s])].id = new[s]]
  /\ \E cmd \in {"O", "L"} : pipe' = Append(pipe, Command(cmd, new[s]))
  /\ phase' = [phase EXCEPT ![new[s]] = "none"]
  /\ svc_pc' = [svc_pc EXCEPT ![s] = "idle"] /\ new' = [new EXCEPT ![s] = 0]
  /\ ops' = ops + 1
  /\ UNCHANGED <<alloc_id, threadVars>>

\* socket_server_start, socket_server_close and socket_server_send, which first
\* looks whether the socket is there.
Request(cmd, n) ==
  /\ ops < MaxOps /\ phase[n] # "unknown"
  /\ cmd = "D" => slot[HASH_ID(n)].id = n /\ slot[HASH_ID(n)].type # "INVALID"
  /\ pipe' = Append(pipe, Command(cmd, n))
  /\ ops' = ops + 1
  /\ UNCHANGED <<slot, alloc_id, svc_pc, new, phase, threadVars>>

-----------------------------------------------------------------------------
(* The socket thread.                                                      *)

\* What services know of an id after a message; nothing may come after its end,
\* and after a close that waits for the write lists only the end.
After(known, kind) ==
  CASE kind \in {"CLOSE", "ERROR"}    -> "ended"
    [] kind = "OPEN" /\ known \in {"none", "open"} -> "open"
    [] kind \in {"DATA", "ACCEPT"} /\ known = "open" -> "open"
    [] kind = "HALFCLOSE" /\ known # "ended" -> "closing"
    [] OTHER -> "wrong"

Told(kind, n) == phase' = [phase EXCEPT ![n] = After(@, kind)]
GoOn == sock_pc' = "poll" /\ UNCHANGED closed
Silent == GoOn /\ UNCHANGED <<phase, aborted>>

\* socket_server_poll returns a message; after a close or an error the events of
\* the socket are cleared.
Return(kind, n) ==
  /\ Told(kind, n)
  /\ IF kind \in {"CLOSE", "ERROR"} THEN sock_pc' = "clear" /\ closed' = n ELSE GoOn
  /\ UNCHANGED aborted

ReturnUncleared(kind, n) == Told(kind, n) /\ GoOn /\ UNCHANGED aborted

Abort == aborted' = TRUE /\ GoOn /\ UNCHANGED <<slot, phase>>

\* force_close.
ForceClosed(i) ==
  [slot EXCEPT ![i].type = "INVALID", ![i].buffered = FALSE, ![i].writing = FALSE]

\* The socket of slot i is closed; force_close asserts that it is not reserved.
End(i, kind) ==
  IF slot[i].type = "RESERVE" THEN Abort
  ELSE slot' = ForceClosed(i) /\ Return(kind, slot[i].id)

Gone(n) == slot[HASH_ID(n)].type = "INVALID" \/ slot[HASH_ID(n)].id # n

\* new_fd asserts that the slot is reserved and its write lists are empty.
NewFdFails(i) == slot[i].type # "RESERVE" \/ slot[i].buffered

OpenFailed(i) == As(i, "INVALID")

\* open_socket.
Open(n) ==
  LET i == HASH_ID(n)
  IN IF NewFdFails(i) THEN Abort
     ELSE \/ slot' = OpenFailed(i) /\ Return("ERROR", n)
          \/ slot' = As(i, "CONNECTED") /\ Return("OPEN", n)
          \/ slot' = [As(i, "CONNECTING") EXCEPT ![i].writing = TRUE] /\ Silent

\* listen_socket.
Listen(n) ==
  LET i == HASH_ID(n)
  IN IF NewFdFails(i) THEN Abort ELSE slot' = As(i, "PLISTEN") /\ Silent

\* start_socket; sp_add may fail.
Start(n) ==
  LET i == HASH_ID(n)
  IN IF Gone(n) THEN Return("ERROR", n) /\ UNCHANGED slot
     ELSE CASE slot[i].type \in {"PACCEPT", "PLISTEN"} ->
                 \/ slot' = As(i, "INVALID") /\ Return("ERROR", n)
                 \/ /\ slot' = As(i, IF slot[i].type = "PACCEPT" THEN "CONNECTED" ELSE "LISTEN")
                    /\ Return("OPEN", n)
            [] slot[i].type = "CONNECTED" -> Return("OPEN", n) /\ UNCHANGED slot
            [] OTHER -> Silent /\ UNCHANGED slot

\* close_socket: at once, or when what is in the write lists was sent.
Close(n) ==
  LET i == HASH_ID(n)
  IN IF Gone(n) THEN Return("CLOSE", n) /\ UNCHANGED slot
     ELSE \/ End(i, "CLOSE")
          \/ /\ slot[i].buffered
             /\ slot' = As(i, "HALFCLOSE")
             /\ Told("HALFCLOSE", n) /\ GoOn /\ UNCHANGED aborted

\* send_socket.
Send(n) ==
  LET i == HASH_ID(n)
      Buffer(on) == slot' = [slot EXCEPT ![i].buffered = TRUE, ![i].writing = @ \/ on]
  IN IF Gone(n) \/ slot[i].type \in {"HALFCLOSE", "PACCEPT", "PLISTEN", "LISTEN"}
     THEN Silent /\ UNCHANGED slot
     ELSE IF slot[i].type = "CONNECTED" /\ ~slot[i].buffered
          THEN \/ Silent /\ UNCHANGED slot
               \/ Buffer(TRUE) /\ Silent
               \/ End(i, "CLOSE")
          ELSE Buffer(FALSE) /\ Silent

\* A service is about to store the id of the slot.
Between(i) == \E s \in Svc : svc_pc[s] = "set" /\ HASH_ID(new[s]) = i

\* ctrl_cmd.
CtrlCmd ==
  /\ sock_pc = "poll" /\ checkctrl /\ pipe # <<>>
  /\ Quiet => ~Between(HASH_ID(Head(pipe).id))
  /\ LET n == Head(pipe).id
     IN CASE Head(pipe).cmd = "O" -> Open(n)
          [] Head(pipe).cmd = "L" -> Listen(n)
          [] Head(pipe).cmd = "S" -> Start(n)
          [] Head(pipe).cmd = "K" -> Close(n)
          [] Head(pipe).cmd = "D" -> Send(n)
  /\ pipe' = Tail(pipe)
  /\ UNCHANGED <<alloc_id, services, ev, checkctrl>>

\* has_cmd finds the pipe empty.
NoCmd ==
  /\ sock_pc = "poll" /\ checkctrl /\ pipe = <<>>
  /\ checkctrl' = FALSE
  /\ UNCHANGED <<slot, alloc_id, services, pipe, ev, sock_pc, closed, phase, aborted>>

\* clear_closed_event leaves the events in place.
ClearClosedEvent_Not ==
  /\ sock_pc = "clear"
  /\ sock_pc' = "poll"
  /\ UNCHANGED <<slot, alloc_id, services, pipe, ev, checkctrl, closed, phase, aborted>>

\* clear_closed_event: after the socket was closed and not in one step with it.
ClearClosedEvent ==
  /\ sock_pc = "clear"
  /\ sock_pc' = "poll"
  /\ LET Stale(e) == /\ e.slot # NULL
                     /\ slot[e.slot].type = "INVALID" /\ slot[e.slot].id = closed
     IN ev' = [k \in DOMAIN ev |->
                 IF Stale(ev[k]) THEN [ev[k] EXCEPT !.slot = NULL] ELSE ev[k]]
  /\ UNCHANGED <<slot, alloc_id, services, pipe, checkctrl, closed, phase, aborted>>

\* What the poll may report of a slot: writing only where sp_write turned it on.
Event(i) ==
  {e \in [slot : {i}, of : {slot[i].id}, read : BOOLEAN, write : BOOLEAN] :
     /\ e.read \/ e.write
     /\ e.write => slot[i].writing
     /\ slot[i].type \in {"LISTEN", "CONNECTING", "CONNECTED", "HALFCLOSE"}}

\* sp_wait; the first event is gone to without a look at the pipe, unless it is
\* the pipe's own.
Wait ==
  /\ sock_pc = "poll" /\ ~checkctrl /\ ev = <<>>
  /\ \E I \in SUBSET {i \in Slot : Event(i) # {}} :
       \E q \in [1 .. Cardinality(I) -> UNION {Event(i) : i \in I}] :
         /\ {q[k].slot : k \in DOMAIN q} = I
         /\ I = {} => pipe # <<>>
         /\ ev' = q
         /\ sock_pc' = IF I = {} THEN "poll" ELSE "event"
  /\ checkctrl' = TRUE
  /\ UNCHANGED <<slot, alloc_id, services, pipe, closed, phase, aborted>>

\* The event at event_index, of slot i, is handled; reading first, when both are to
\* be done.
AtEvent(i) ==
  /\ sock_pc = "event" \/ (sock_pc = "poll" /\ ~checkctrl)
  /\ ev # <<>> /\ Head(ev).slot = i
Rest == ev' = Tail(ev)
RestOrWrite ==
  IF Head(ev).write THEN ev' = <<[Head(ev) EXCEPT !.read = FALSE]>> \o Tail(ev) ELSE Rest

Ignored(i) == i # NULL => slot[i].type = "INVALID"
Established(i) == slot[i].type \notin {"INVALID", "CONNECTING", "LISTEN"}

Skip(i) ==
  /\ AtEvent(i) /\ Ignored(i) /\ Rest
  /\ Silent
  /\ UNCHANGED <<slot, alloc_id, services, pipe, checkctrl>>

\* report_connect.
ReportConnect(i) ==
  /\ AtEvent(i) /\ Rest
  /\ slot[i].type = "CONNECTING"
  /\ \/ slot' = ForceClosed(i) /\ ReturnUncleared("ERROR", slot[i].id)
     \/ /\ slot' = [As(i, "CONNECTED") EXCEPT ![i].writing = @ /\ slot[i].buffered]
        /\ Return("OPEN", slot[i].id)
  /\ UNCHANGED <<alloc_id, services, pipe, checkctrl>>

\* report_accept: the first id whose slot is free, or the connection is dropped.
ReportAccept(i) ==
  /\ AtEvent(i) /\ Rest
  /\ slot[i].type = "LISTEN"
  /\ LET Free == {n \in alloc_id + 1 .. alloc_id + MAX_SOCKET :
                    n <= MaxId /\ slot[HASH_ID(n)].type = "INVALID"}
     IN \/ Silent /\ UNCHANGED <<slot, alloc_id>>
        \/ \E n \in Free :
             /\ \A m \in Free : n <= m
             /\ alloc_id' = n
             /\ slot' = [slot EXCEPT ![HASH_ID(n)] =
                           [type |-> "PACCEPT", id |-> n, buffered |-> FALSE, writing |-> FALSE]]
             /\ phase' = [phase EXCEPT ![n] = "none", ![slot[i].id] = After(@, "ACCEPT")]
             /\ GoOn /\ UNCHANGED aborted
  /\ UNCHANGED <<services, pipe, checkctrl>>

\* forward_message_tcp discards data after a close.
DataTold(i) ==
  /\ IF slot[i].type = "HALFCLOSE" THEN UNCHANGED phase ELSE Told("DATA", slot[i].id)
  /\ UNCHANGED slot

\* forward_message_tcp; a reserved slot has no file, or that of its last socket.
ForwardMessage(i) ==
  /\ AtEvent(i) /\ RestOrWrite
  /\ Established(i) /\ Head(ev).read
  /\ \/ slot[i].type # "RESERVE" /\ Silent /\ UNCHANGED slot
     \/ slot[i].type # "RESERVE" /\ DataTold(i) /\ GoOn /\ UNCHANGED aborted
     \/ End(i, "ERROR")
     \/ End(i, "CLOSE")
  /\ UNCHANGED <<alloc_id, services, pipe, checkctrl>>

\* A socket that is to be closed is left as it is when its lists are empty.
ListsEmpty_StaysOpen(i) ==
  slot' = [slot EXCEPT ![i].buffered = FALSE, ![i].writing = FALSE] /\ Silent

\* Step 4 of send_buffer: the event is turned off, a socket that is to be closed ends.
ListsEmpty(i) ==
  IF slot[i].type = "HALFCLOSE" THEN End(i, "CLOSE")
  ELSE slot' = [slot EXCEPT ![i].buffered = FALSE, ![i].writing = FALSE] /\ Silent

SendEvent(i) ==
  AtEvent(i) /\ Established(i) /\ ~Head(ev).read /\ Head(ev).write /\ Rest

\* send_buffer: all, a part, or an error.  When the low list was sent too, step 4
\* is left to the next event.
SendAll(i) ==
  /\ SendEvent(i)
  /\ \/ ListsEmpty(i)
     \/ slot[i].buffered /\ slot' = [slot EXCEPT ![i].buffered = FALSE] /\ Silent
  /\ UNCHANGED <<alloc_id, services, pipe, checkctrl>>
SendSome(i) ==
  /\ SendEvent(i) /\ slot[i].buffered
  /\ \/ Silent /\ UNCHANGED slot
     \/ End(i, "CLOSE")
  /\ UNCHANGED <<alloc_id, services, pipe, checkctrl>>

ServiceStep(s) == ReserveNext(s) \/ ReserveSwap(s) \/ ReserveSet(s)
SocketThread ==
  \/ CtrlCmd \/ NoCmd \/ ClearClosedEvent \/ Wait \/ \E i \in Slot \cup {NULL} : Skip(i)
  \/ \E i \in Slot : \/ ReportConnect(i) \/ ReportAccept(i) \/ ForwardMessage(i)
                     \/ SendAll(i) \/ SendSome(i)

SocketNext ==
  /\ ~aborted
  /\ \/ \E s \in Svc : ServiceStep(s)
     \/ \E cmd \in {"S", "K", "D"}, n \in Id : Request(cmd, n)
     \/ SocketThread

Reports(i) == Wait /\ \E k \in DOMAIN ev' : ev'[k].slot = i /\ ev'[k].write

\* The socket thread and each service go on; a file that can be written to is
\* reported in the end, and takes all data in the end.
SocketSpec ==
  /\ SocketInit /\ [][SocketNext]_socketVars
  /\ WF_socketVars(~aborted /\ SocketThread) /\ \A s \in Svc : WF_socketVars(~aborted /\ (ReserveSwap(s) \/ ReserveSet(s)))
  /\ \A i \in Slot : SF_socketVars(~aborted /\ Reports(i)) /\ SF_socketVars(~aborted /\ SendAll(i))
-----------------------------------------------------------------------------
(* Properties.                                                             *)

SocketType == {"INVALID", "RESERVE", "PLISTEN", "LISTEN", "CONNECTING", "CONNECTED",
               "HALFCLOSE", "PACCEPT"}

\* Types of the state; a slot holds an id of its own.
SocketTypeOK ==
  /\ slot \in [Slot -> [type : SocketType, id : Id, buffered : BOOLEAN, writing : BOOLEAN]]
  /\ \A i \in Slot : HASH_ID(slot[i].id) = i \/ slot[i].id = 0
  /\ alloc_id \in Id
  /\ svc_pc \in [Svc -> {"idle", "swap", "set"}] /\ new \in [Svc -> Id]
  /\ sock_pc \in {"poll", "event", "clear"} /\ closed \in Id
  /\ pipe \in Seq([cmd : {"O", "L", "S", "K", "D"}, id : Id])
  /\ ev \in Seq([slot : Slot \cup {NULL}, of : Id, read : BOOLEAN, write : BOOLEAN])
  /\ checkctrl \in BOOLEAN /\ aborted \in BOOLEAN /\ ops \in Nat
  /\ phase \in [Id -> {"unknown", "none", "open", "closing", "ended", "wrong"}]

\* An event that is still to be handled is for the socket that has the slot, so
\* no socket is read, accepted from or reported connected for its predecessor.
EventsFollow ==
  \A k \in DOMAIN ev :
    ev[k].slot # NULL =>
      slot[ev[k].slot].type = "INVALID" \/ slot[ev[k].slot].id = ev[k].of

\* A reserved slot has exactly one thread or command that will make it a socket
\* or give it back.
ReservedIsAwaited ==
  \A i \in Slot : slot[i].type = "RESERVE" =>
    Cardinality({s \in Svc : svc_pc[s] = "set" /\ HASH_ID(new[s]) = i})
      + Cardinality({k \in DOMAIN pipe : pipe[k].cmd \in {"O", "L"} /\ HASH_ID(pipe[k].id) = i}) = 1

\* A service is told nothing of a socket after its end, nor data after it closed
\* the socket, nor data or connections before it was told that it is open.
MessagesInOrder == \A n \in Id : phase[n] # "wrong"

\* Write lists that hold data are written from, and free slots have none.
BufferedIsWatched ==
  \A i \in Slot : slot[i].buffered => slot[i].type \in {"CONNECTING", "CONNECTED", "HALFCLOSE"}
                                      /\ slot[i].writing

\* A socket that a service closed while data was waiting ends, once the peer took
\* the data or is gone, whatever it was when the close came.
HalfClosedEnds == \A i \in Slot : []<>(slot[i].type # "HALFCLOSE")

\* socket_server.c:332, assert(s->type != SOCKET_TYPE_RESERVE), and the assertions
\* of new_fd.
NoAssertionFails == ~aborted

\* Whatever comes between, messages, events, commands and data are for the socket
\* that they name.
SocketsApart ==
  SocketTypeOK /\ EventsFollow /\ ReservedIsAwaited /\ MessagesInOrder /\ BufferedIsWatched /\ NoAssertionFails
=============================================================================
