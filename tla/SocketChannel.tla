----------------------------- MODULE SocketChannel -----------------------------
(***************************************************************************)
(* lualib/socketchannel.lua over lualib/socket.lua: coroutines of one      *)
(* service send requests on a connection that is made when one is needed;  *)
(* a coroutine forked with the connection reads the responses, in the order*)
(* of the requests or by session, and errors wake those who wait.  Only    *)
(* one coroutine runs at a time, until it yields.                          *)
(***************************************************************************)
EXTENDS Integers, Sequences, SequencesExt, FiniteSets

CONSTANTS
  Requests,   \* coroutines with one request each, in the order in which they make it
  User,       \* the coroutine that calls close and changehost
  MaxConn,    \* bound: connections, each with the dispatcher of its number
  MaxCalls,   \* bound: requests and calls of close and changehost, together
  NULL

VARIABLES
  mode,                    \* responses come in order, or have a session
  sock, closed,            \* __sock, 0 for false, and __closed
  connecting, connector,   \* __connecting: who waits, and who connects
  thread,                  \* __thread, with __request
  got,                     \* __result: the request a response was made for, or an error
  conns,                   \* connections made so far
  connected,               \* s of socket.lua: none, opening, up, down or gone
  net,                     \* of the socket thread: open, lost, told of, or ending
  co, closing,             \* s.co and s.closing
  buffer,                  \* responses that came
  unanswered,              \* requests the other side has
  pc, on, cur,             \* where a coroutine is suspended, its connection, its request
  woken, running,          \* wakeup_session, and who goes on without a yield
  calls, cut               \* calls so far; one of User came with requests in flight

channel  == <<sock, closed, connecting, connector, thread, got>>
sockets  == <<conns, connected, net, co, closing, buffer, unanswered>>
user     == <<calls, cut>>
scVars   == <<mode, channel, sockets, pc, on, cur, woken, running, user>>

Req == ToSet(Requests)
Conn == 1 .. MaxConn
Coroutine == Req \cup Conn \cup {User}

Init ==
  /\ mode \in {"order", "session"}
  /\ sock = 0 /\ closed = FALSE /\ connecting = <<>> /\ connector = NULL
  /\ thread = <<>> /\ got = [r \in Req |-> "nothing"]
  /\ conns = 0
  /\ connected = [c \in Conn |-> "none"] /\ net = [c \in Conn |-> "open"]
  /\ co = [c \in Conn |-> NULL] /\ closing = [c \in Conn |-> NULL]
  /\ buffer = [c \in Conn |-> <<>>] /\ unanswered = [c \in Conn |-> <<>>]
  /\ pc = [x \in Coroutine |-> IF x \in Conn THEN "none" ELSE "idle"]
  /\ on = [x \in Coroutine |-> 0] /\ cur = [c \in Conn |-> NULL]
  /\ woken = {} /\ running = NULL
  /\ calls = 0 /\ cut = FALSE

Goto(x, where) == pc' = [pc EXCEPT ![x] = where]

\* The service takes its next message when no coroutine is to run: those that were
\* woken and forked go first, as no error is thrown that they do not catch.
AtRest == running = NULL /\ woken = {} /\ \A c \in Conn : pc[c] # "loop"

\* wakeup_all and the request a dispatcher holds.
Pending(x) == ToSet(thread) \cup (IF x \in Conn THEN {cur[x]} \ {NULL} ELSE {})

\* Those that were woken are left in the queue.
Left_Kept == thread

\* wakeup_all leaves nobody in the queue.
Left == <<>>

\* close_channel_socket, of s: socket.close of a connection that is up waits for its
\* end, behind the one who reads or in its place.  Any other is left at once.
StartClose(x, s, p) ==
  /\ pc' = [p EXCEPT ![x] = "closing"] /\ on' = [on EXCEPT ![x] = s]
  /\ sock' = 0
  /\ IF s # 0 /\ connected[s] = "up"
     THEN /\ net' = [net EXCEPT ![s] = IF @ = "open" THEN "ending" ELSE @]
          /\ IF co[s] # NULL
             THEN closing' = [closing EXCEPT ![s] = x] /\ UNCHANGED co
             ELSE co' = [co EXCEPT ![s] = x] /\ UNCHANGED closing
          /\ running' = NULL
     ELSE running' = x /\ UNCHANGED <<net, co, closing>>

\* The end of close_channel_socket, and what a request and a dispatcher do then.
CloseReturns(x) ==
  /\ pc[x] = "closing" /\ (running = x \/ (running = NULL /\ x \in woken))
  /\ connected' = IF on[x] = 0 THEN connected ELSE [connected EXCEPT ![on[x]] = "gone"]
  /\ IF x = User
     THEN Goto(x, "idle") /\ woken' = woken \ {x} /\ UNCHANGED <<thread, got>>
     ELSE /\ Goto(x, IF x \in Req THEN "failed" ELSE "loop")
          /\ thread' = Left
          /\ got' = [r \in Req |-> IF r \in Pending(x) THEN "error" ELSE got[r]]
          /\ woken' = (woken \ {x}) \cup Pending(x)
  /\ cur' = IF x \in Conn THEN [cur EXCEPT ![x] = NULL] ELSE cur
  /\ running' = IF x \in Conn THEN x ELSE NULL
  /\ UNCHANGED <<mode, sock, closed, connecting, connector, conns, net, co, closing,
                 buffer, unanswered, on, user>>

-----------------------------------------------------------------------------
(* Requests.                                                               *)

\* channel:request when there is a connection s: it is written and waits, unless
\* the socket thread has dropped the socket.
Write(r, s, p) ==
  IF net[s] = "open"
  THEN /\ unanswered' = [unanswered EXCEPT ![s] = Append(@, r)]
       /\ thread' = Append(thread, r)
       /\ pc' = [p EXCEPT ![r] = "waits"] /\ sock' = s
       /\ UNCHANGED <<on, net, co, closing, running>>
  ELSE StartClose(r, s, p) /\ UNCHANGED <<unanswered, thread>>

Fails(r) == Goto(r, "failed") /\ UNCHANGED <<sock, thread, net, co, closing, unanswered, on, running>>

\* channel:request and block_connect.
Request(r) ==
  /\ AtRest /\ calls < MaxCalls /\ calls' = calls + 1
  /\ pc[r] = "idle" /\ r = Requests[1 + Cardinality({q \in Req : pc[q] # "idle"})]
  /\ \/ sock # 0 /\ Write(r, sock, pc) /\ UNCHANGED <<connecting, connector, conns, connected>>
     \/ sock = 0 /\ closed /\ Fails(r) /\ UNCHANGED <<connecting, connector, conns, connected>>
     \/ /\ sock = 0 /\ ~closed /\ connector # NULL
        /\ connecting' = Append(connecting, r) /\ Goto(r, "connecting")
        /\ UNCHANGED <<sock, connector, thread, conns, connected, net, co, closing,
                       unanswered, on, running>>
     \/ /\ sock = 0 /\ ~closed /\ connector = NULL /\ conns < MaxConn
        /\ connector' = r /\ conns' = conns + 1
        /\ connected' = [connected EXCEPT ![conns'] = "opening"]
        /\ co' = [co EXCEPT ![conns'] = r]
        /\ Goto(r, "opening") /\ on' = [on EXCEPT ![r] = conns']
        /\ net' = [c \in Conn |-> IF net[c] = "lost" THEN "told" ELSE net[c]]
        /\ UNCHANGED <<sock, connecting, thread, closing, unanswered, running>>
  /\ UNCHANGED <<mode, closed, got, buffer, cur, woken, cut>>

\* connect_once and block_connect go on; those that wait are woken.  A channel that
\* was closed meanwhile has a connection all the same.
Opened(r) ==
  /\ running = NULL /\ r \in woken /\ pc[r] = "opening"
  /\ connector' = NULL /\ connecting' = <<>>
  /\ woken' = (woken \ {r}) \cup ToSet(connecting)
  /\ LET c == on[r]
     IN IF connected[c] = "up"
        THEN Write(r, c, [pc EXCEPT ![c] = "loop"]) /\ UNCHANGED connected
        ELSE Fails(r) /\ connected' = [connected EXCEPT ![c] = "gone"]
  /\ UNCHANGED <<mode, closed, got, conns, buffer, cur, user>>

\* mtask.wait in block_connect returns.
Connected(r) ==
  /\ running = NULL /\ r \in woken /\ pc[r] = "connecting"
  /\ woken' = woken \ {r}
  /\ IF sock # 0 THEN Write(r, sock, pc) ELSE Fails(r)
  /\ UNCHANGED <<mode, closed, connecting, connector, got, conns, connected, buffer, cur, user>>

\* mtask.wait in wait_for_response returns.
Answered(r) ==
  /\ running = NULL /\ r \in woken /\ pc[r] = "waits"
  /\ woken' = woken \ {r}
  /\ Goto(r, IF got[r] = "error" THEN "failed" ELSE "done")
  /\ UNCHANGED <<mode, channel, sockets, on, cur, running, user>>

-----------------------------------------------------------------------------
(* The dispatchers.                                                        *)

\* A response is read from c.  In order it is for request q, by session for its own
\* if that still waits.
Receive(i, c, q) ==
  LET x == Head(buffer[c])
      for == IF mode = "order" THEN {q} ELSE {x} \cap ToSet(thread)
  IN /\ buffer' = [buffer EXCEPT ![c] = Tail(@)]
     /\ got' = [r \in Req |-> IF r \in for THEN x ELSE got[r]]
     /\ thread' = IF mode = "order" THEN (IF q = cur[i] THEN thread ELSE Tail(thread))
                  ELSE SelectSeq(thread, LAMBDA r : r # x)
     /\ woken' = (woken \ {i}) \cup for \cup (IF pc[i] = "reads" THEN {closing[c]} \ {NULL} ELSE {})
     /\ cur' = [cur EXCEPT ![i] = NULL]
     /\ Goto(i, "loop") /\ running' = i

NextInOrder == IF mode = "order" /\ thread # <<>> THEN Head(thread) ELSE NULL

\* The next turn of the loop of dispatch_by_order or dispatch_by_session.  A socket
\* that another coroutine reads fails an assertion, in socket.block outside pcall.
Loop(i) ==
  /\ pc[i] = "loop" /\ running \in {NULL, i}
  /\ LET q == NextInOrder
         blocks == mode = "order" /\ q = NULL
     IN IF sock = 0 \/ (blocks /\ connected[sock] = "up" /\ co[sock] # NULL)
        THEN /\ Goto(i, "over") /\ running' = NULL
             /\ UNCHANGED <<sock, thread, got, net, co, closing, buffer, on, cur, woken>>
        ELSE IF ~blocks /\ buffer[sock] # <<>>
        THEN Receive(i, sock, q) /\ UNCHANGED <<sock, net, co, closing, on>>
        ELSE /\ cur' = [cur EXCEPT ![i] = q]
             /\ thread' = IF q = NULL THEN thread ELSE Tail(thread)
             /\ IF connected[sock] = "up" /\ co[sock] = NULL
                THEN /\ co' = [co EXCEPT ![sock] = i]
                     /\ Goto(i, "reads") /\ on' = [on EXCEPT ![i] = sock] /\ running' = NULL
                     /\ UNCHANGED <<sock, net, closing>>
                ELSE StartClose(i, sock, pc)
             /\ UNCHANGED <<got, buffer, woken>>
  /\ UNCHANGED <<mode, closed, connecting, connector, conns, connected, unanswered, user>>

\* suspend returns in socket.read or socket.block, and a close that waits behind it too.
ReadReturns(i) ==
  /\ running = NULL /\ i \in woken /\ pc[i] = "reads"
  /\ LET c == on[i]
         blocks == mode = "order" /\ cur[i] = NULL
         closer == {closing[c]} \ {NULL}
     IN IF blocks /\ connected[c] = "up"
        THEN /\ Goto(i, "loop") /\ running' = i /\ woken' = (woken \ {i}) \cup closer
             /\ UNCHANGED <<sock, thread, got, net, co, closing, buffer, on, cur>>
        ELSE IF ~blocks /\ buffer[c] # <<>>
        THEN Receive(i, c, cur[i]) /\ UNCHANGED <<sock, net, co, closing, on>>
        ELSE /\ StartClose(i, sock, pc) /\ woken' = (woken \ {i}) \cup closer
             /\ UNCHANGED <<thread, got, buffer, cur>>
  /\ UNCHANGED <<mode, closed, connecting, connector, conns, connected, unanswered, user>>

-----------------------------------------------------------------------------
(* Messages of the socket thread, between the runs of coroutines.          *)

WakeCo(c) == woken' = woken \cup ({co[c]} \ {NULL}) /\ co' = [co EXCEPT ![c] = NULL]

\* CONNECT, or ERROR.  It comes behind the CLOSE of a connection that was lost
\* before this one was asked for, as one thread sends both.
OpenEnds(c, how) ==
  /\ AtRest /\ connected[c] = "opening"
  /\ \A d \in Conn : net[d] = "told" => connected[d] # "up"
  /\ connected' = [connected EXCEPT ![c] = how]
  /\ WakeCo(c)
  /\ UNCHANGED <<mode, channel, conns, net, closing, buffer, unanswered, pc, on, cur, running, user>>

\* The socket thread finds the connection broken.
Lost(c) ==
  /\ running = NULL /\ connected[c] = "up" /\ net[c] = "open"
  /\ net' = [net EXCEPT ![c] = "lost"]
  /\ UNCHANGED <<mode, channel, conns, connected, co, closing, buffer, unanswered,
                 pc, on, cur, woken, running, user>>

\* DATA, which may still come when the connection is lost or closed.
Data(c) ==
  /\ AtRest /\ connected[c] = "up"
  /\ \E k \in DOMAIN unanswered[c] :
       /\ mode = "order" => k = 1
       /\ buffer' = [buffer EXCEPT ![c] = Append(@, unanswered[c][k])]
       /\ unanswered' = [unanswered EXCEPT ![c] = RemoveAt(@, k)]
  /\ IF co[c] \in Conn THEN IF pc[co[c]] = "reads" THEN WakeCo(c) ELSE UNCHANGED <<woken, co>>
     ELSE UNCHANGED <<woken, co>>
  /\ UNCHANGED <<mode, channel, conns, connected, net, closing, pc, on, cur, running, user>>

\* CLOSE.
Close(c) ==
  /\ AtRest /\ connected[c] = "up" /\ net[c] # "open"
  /\ connected' = [connected EXCEPT ![c] = "down"]
  /\ WakeCo(c)
  /\ UNCHANGED <<mode, channel, conns, net, closing, buffer, unanswered, pc, on, cur, running, user>>

-----------------------------------------------------------------------------
InFlight == thread # <<>> \/ \E c \in Conn : cur[c] # NULL

\* channel:changehost, and channel:close.
Use ==
  /\ AtRest /\ pc[User] = "idle" /\ calls < MaxCalls /\ ~closed
  /\ calls' = calls + 1 /\ cut' = (cut \/ InFlight)
  /\ closed' \in BOOLEAN
  /\ StartClose(User, sock, pc)
  /\ UNCHANGED <<mode, connecting, connector, thread, got, conns, connected, buffer,
                 unanswered, cur, woken>>

Runs(x) ==
  \/ CloseReturns(x)
  \/ x \in Req /\ (Opened(x) \/ Connected(x) \/ Answered(x))
  \/ x \in Conn /\ (Loop(x) \/ ReadReturns(x))

\* What goes on without anybody who asks for it: coroutines run, connections begin
\* and end, and the other side answers.
Progress ==
  \/ \E x \in Coroutine : Runs(x)
  \/ \E c \in Conn : OpenEnds(c, "up") \/ OpenEnds(c, "down") \/ Data(c) \/ Close(c)

Next == Progress \/ Use \/ (\E r \in Req : Request(r)) \/ (\E c \in Conn : Lost(c))
-----------------------------------------------------------------------------
(* Properties.                                                             *)

\* A request is given the response made for it or an error, never that of another,
\* also when connections are lost and made anew, unless the user of the channel
\* closed it, or changed the host, with requests in flight.
OwnResponse == ~cut => \A r \in Req : got[r] \in {"nothing", "error", r}

\* A request that waits is in the queue or in the hands of a dispatcher, once.
WaitsOnce ==
  \A r \in Req : pc[r] = "waits" /\ r \notin woken =>
    Cardinality({k \in DOMAIN thread : thread[k] = r}) + Cardinality({c \in Conn : cur[c] = r}) = 1

\* A request comes to an end, by a response or an error, with the same exception.
EveryRequestEnds == []<>(cut \/ \A r \in Req : pc[r] \in {"idle", "done", "failed"})

\* A request ends, with its own response or an error.
RequestsEnd == [](OwnResponse /\ WaitsOnce) /\ EveryRequestEnds
=============================================================================
