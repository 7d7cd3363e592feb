------------------------------- MODULE Clusterd --------------------------------
(***************************************************************************)
(* service/clusterd.lua of a node that others call: each of them numbers   *)
(* its requests, from 1, and has a socket channel to this one.  Requests   *)
(* and answers too large for one package are cut (mtask_lua_cluster.c) and *)
(* their parts sent with low priority, so that others may come between;    *)
(* this node collects the parts by their session.  A package goes to the   *)
(* network when it is received: two lists of a connection keep its place.  *)
(***************************************************************************)
EXTENDS Integers, Sequences, SequencesExt, FiniteSets

CONSTANTS
  Request,      \* of all nodes
  From, Parts,  \* the node of each, and its parts, 0 for one package
  MaxConn       \* bound: connections

VARIABLES
  node_session, session,    \* of a node, and of a request that was packed
  channel, sock, opener,    \* of a node: has node_channel, its connection, and who makes one
  conns,                    \* connections so far
  broken, ended,            \* those that their node lost, and those this node saw close
  state, on,                \* of a request: where its coroutine is, and on which connection
  high, low,                \* packages to this node, by connection
  large_request,            \* of a session: the address and what was collected
  served,                   \* what services were called with
  back_high, back_low,      \* packages of answers, by connection
  result,                   \* __result_data of a request
  clashed                   \* sessions that two nodes used while one sent its parts

clusterVars == <<node_session, session, channel, sock, opener, conns, broken, ended, state, on, high,
                 low, large_request, served, back_high, back_low, result, clashed>>
callerVars  == <<node_session, session, channel, sock, opener, conns, broken, state, on>>
backVars    == <<back_high, back_low>>
hostVars    == <<ended, large_request, served, clashed>>

Node == {From[r] : r \in Request}
Conn == 1 .. MaxConn
None == [addr |-> "none", of |-> "none", items |-> <<>>]

Init ==
  /\ node_session = [n \in Node |-> 1] /\ session = [r \in Request |-> 0]
  /\ channel = [n \in Node |-> FALSE] /\ sock = [n \in Node |-> 0]
  /\ opener = [n \in Node |-> FALSE] /\ conns = 0
  /\ broken = {} /\ ended = {}
  /\ state = [r \in Request |-> "idle"] /\ on = [r \in Request |-> 0]
  /\ high = [c \in Conn |-> <<>>] /\ low = [c \in Conn |-> <<>>]
  /\ large_request = [s \in 1 .. Cardinality(Request) |-> None]
  /\ served = <<>>
  /\ back_high = [c \in Conn |-> <<>>] /\ back_low = [c \in Conn |-> <<>>]
  /\ result = [r \in Request |-> <<>>]
  /\ clashed = {}

-----------------------------------------------------------------------------
(* The node that calls.                                                    *)

\* Item 0 of a request is its size, the others are its data.
Package(r, kind, s, k) == [kind |-> kind, session |-> s, of |-> r, item |-> <<r, k>>]

\* packrequest: one package, or the size and the parts, the last one marked.
Packed(r, s) ==
  IF Parts[r] = 0 THEN <<Package(r, "whole", s, 1)>>
  ELSE <<Package(r, "size", s, 0)>>
       \o [k \in 1 .. Parts[r] |-> Package(r, IF k < Parts[r] THEN "part" ELSE "last", s, k)]

\* channel:request on c: a large request goes out with low priority.
Write(r, c, s) ==
  /\ state' = [state EXCEPT ![r] = "waits"] /\ on' = [on EXCEPT ![r] = c]
  /\ IF Parts[r] = 0
     THEN high' = [high EXCEPT ![c] = @ \o Packed(r, s)] /\ UNCHANGED low
     ELSE low' = [low EXCEPT ![c] = @ \o Packed(r, s)] /\ UNCHANGED high

\* The session of the node's request after r.
After(r) == node_session[From[r]] + 1

\* send_request: with a connection, or behind one that makes it, or making it, on a
\* channel of its own as long as node_channel has none.
Send(r) ==
  LET n == From[r]
      s == node_session[n]
  IN /\ state[r] = "idle"
     /\ session' = [session EXCEPT ![r] = s]
     /\ node_session' = [node_session EXCEPT ![n] = After(r)]
     /\ \/ sock[n] # 0 /\ Write(r, sock[n], s) /\ UNCHANGED <<opener, conns>>
        \/ /\ sock[n] = 0 /\ channel[n] /\ opener[n]
           /\ state' = [state EXCEPT ![r] = "behind"]
           /\ UNCHANGED <<opener, conns, on, high, low>>
        \/ /\ sock[n] = 0 /\ ~(channel[n] /\ opener[n]) /\ conns < MaxConn
           /\ conns' = conns + 1 /\ opener' = [opener EXCEPT ![n] = channel[n]]
           /\ state' = [state EXCEPT ![r] = "opens"] /\ on' = [on EXCEPT ![r] = conns']
           /\ UNCHANGED <<high, low>>
     /\ UNCHANGED <<channel, sock, broken, hostVars, backVars, result>>

\* The connection is made, or refused.
Opened(r) ==
  LET n == From[r]
  IN /\ state[r] = "opens"
     /\ opener' = [opener EXCEPT ![n] = FALSE]
     /\ \/ /\ channel' = [channel EXCEPT ![n] = TRUE] /\ sock' = [sock EXCEPT ![n] = on[r]]
           /\ Write(r, on[r], session[r])
        \/ /\ state' = [state EXCEPT ![r] = "failed"]
           /\ UNCHANGED <<channel, sock, on, high, low>>
     /\ UNCHANGED <<node_session, session, conns, broken, hostVars, backVars, result>>

\* mtask.wait in block_connect returns.
Behind(r) ==
  LET n == From[r]
  IN /\ state[r] = "behind" /\ ~opener[n]
     /\ IF sock[n] # 0 THEN Write(r, sock[n], session[r])
        ELSE state' = [state EXCEPT ![r] = "failed"] /\ UNCHANGED <<on, high, low>>
     /\ UNCHANGED <<node_session, session, channel, sock, opener, conns, broken, hostVars,
                    backVars, result>>

Waits(c) == {r \in Request : state[r] = "waits" /\ on[r] = c}
Connected(c) == c \notin broken /\ Waits(c) \cup {n \in Node : sock[n] = c} # {}

\* The end of a connection comes to the node that made it: wakeup_all.  What is on the
\* way to it is lost, and so is what is sent from now on.
Lost(c) ==
  /\ Connected(c)
  /\ broken' = broken \cup {c}
  /\ sock' = [n \in Node |-> IF sock[n] = c THEN 0 ELSE sock[n]]
  /\ state' = [r \in Request |-> IF r \in Waits(c) THEN "failed" ELSE state[r]]
  /\ back_high' = [back_high EXCEPT ![c] = <<>>] /\ back_low' = [back_low EXCEPT ![c] = <<>>]
  /\ result' = [r \in Request |-> IF r \in Waits(c) THEN <<>> ELSE result[r]]
  /\ UNCHANGED <<node_session, session, channel, opener, conns, on, high, low, hostVars>>

\* dispatch_by_session reads a package of an answer.
Response(c) ==
  /\ c \notin broken /\ back_high[c] \o back_low[c] # <<>>
  /\ LET p == Head(back_high[c] \o back_low[c])
         whose == {r \in Waits(c) : session[r] = p.session}
     IN /\ IF back_high[c] # <<>>
           THEN back_high' = [back_high EXCEPT ![c] = Tail(@)] /\ UNCHANGED back_low
           ELSE back_low' = [back_low EXCEPT ![c] = Tail(@)] /\ UNCHANGED back_high
        /\ result' = [r \in Request |-> IF r \in whose /\ p.ok THEN Append(result[r], p.item)
                                        ELSE result[r]]
        /\ state' = [r \in Request |-> IF r \notin whose \/ p.padding THEN state[r]
                                       ELSE IF p.ok THEN "done" ELSE "failed"]
  /\ UNCHANGED <<node_session, session, channel, sock, opener, conns, broken, on, high, low,
                 hostVars>>

-----------------------------------------------------------------------------
(* This node.                                                              *)

IsSize(item) == item[2] = 0

\* cluster.concat: the data up to the next size, if it has the size that comes first;
\* nothing otherwise.
Concat(items) ==
  LET sizes == {k \in 2 .. Len(items) : IsSize(items[k])}
      stop == CHOOSE k \in sizes \cup {Len(items) + 1} : \A j \in sizes : k <= j
  IN IF IsSize(items[1]) /\ stop - 2 = Parts[items[1][1]] THEN SubSeq(items, 2, stop - 1) ELSE <<>>

\* packresponse of an error that is found at once.
Refused(c, s) ==
  [back_high EXCEPT ![c] = IF c \in broken THEN @
     ELSE Append(@, [session |-> s, ok |-> FALSE, padding |-> FALSE, item |-> <<0, 1>>])]

\* command.socket with data: a part is collected; a whole request is the message or all
\* that was collected, and a service is called with it.
Data(c) ==
  /\ c \notin ended /\ high[c] \o low[c] # <<>>
  /\ LET p == Head(high[c] \o low[c])
         req == large_request[p.session]
         first == [addr |-> IF p.kind = "size" THEN p.of ELSE "none", of |-> p.of, items |-> <<>>]
         all == Append(IF req = None THEN <<>> ELSE req.items, p.item)
         msg == IF req = None THEN <<p.item>> ELSE Concat(all)
         addr == IF req # None THEN req.addr ELSE IF p.kind = "whole" THEN p.of ELSE "none"
     IN /\ IF high[c] # <<>>
           THEN high' = [high EXCEPT ![c] = Tail(@)] /\ UNCHANGED low
           ELSE low' = [low EXCEPT ![c] = Tail(@)] /\ UNCHANGED high
        /\ clashed' = IF req # None /\ From[req.of] # From[p.of] THEN clashed \cup {p.session}
                      ELSE clashed
        /\ IF p.kind \in {"size", "part"}
           THEN /\ large_request' = [large_request EXCEPT ![p.session] =
                                       [(IF req = None THEN first ELSE req) EXCEPT !.items = all]]
                /\ UNCHANGED <<served, back_high>>
           ELSE /\ large_request' = [large_request EXCEPT ![p.session] = None]
                /\ IF msg = <<>> \/ addr = "none"
                   THEN back_high' = Refused(c, p.session) /\ UNCHANGED served
                   ELSE /\ served' = Append(served, [addr |-> addr, items |-> msg, done |-> FALSE,
                                                     session |-> p.session, fd |-> c])
                        /\ UNCHANGED back_high
  /\ UNCHANGED <<callerVars, ended, back_low, result>>

Answer(a, kind) ==
  [session |-> served[a].session, ok |-> kind # "error", padding |-> kind \in {"size", "part"},
   item |-> <<a, CASE kind = "size" -> 0 [] kind = "last" -> 2 [] OTHER -> 1>>]

\* The last part has the priority of what is small.
Answered_Mixed(a) ==
  /\ a \in DOMAIN served /\ ~served[a].done
  /\ served' = [served EXCEPT ![a].done = TRUE]
  /\ LET c == served[a].fd
     IN IF c \in broken THEN UNCHANGED backVars
        ELSE /\ back_low' = [back_low EXCEPT ![c] = @ \o <<Answer(a, "size"), Answer(a, "part")>>]
             /\ back_high' = [back_high EXCEPT ![c] = Append(@, Answer(a, "last"))]
  /\ UNCHANGED <<callerVars, high, low, ended, large_request, result, clashed>>

\* rawcall returns or throws: an error, a small answer or one in two parts, which go out
\* with low priority.  The connection may have ended.
Answered(a) ==
  /\ a \in DOMAIN served /\ ~served[a].done
  /\ served' = [served EXCEPT ![a].done = TRUE]
  /\ LET c == served[a].fd
     IN IF c \in broken THEN UNCHANGED backVars
        ELSE \/ \E kind \in {"error", "whole"} :
                  back_high' = [back_high EXCEPT ![c] = Append(@, Answer(a, kind))] /\ UNCHANGED back_low
             \/ /\ back_low' = [back_low EXCEPT ![c] =
                     @ \o <<Answer(a, "size"), Answer(a, "part"), Answer(a, "last")>>]
                /\ UNCHANGED back_high
  /\ UNCHANGED <<callerVars, high, low, ended, large_request, result, clashed>>

\* command.socket with close or error: what came before the end was received, and the
\* rest is lost.
Ended(c) ==
  /\ c \in broken \ ended
  /\ ended' = ended \cup {c}
  /\ high' = [high EXCEPT ![c] = <<>>] /\ low' = [low EXCEPT ![c] = <<>>]
  /\ large_request' = [s \in DOMAIN large_request |-> None]
  /\ UNCHANGED <<callerVars, served, backVars, result, clashed>>

Progress ==
  \/ \E r \in Request : Opened(r) \/ Behind(r)
  \/ \E c \in Conn : Response(c) \/ Data(c) \/ Ended(c)
  \/ \E a \in 1 .. Cardinality(Request) : Answered(a)

Next == Progress \/ (\E r \in Request : Send(r)) \/ (\E c \in Conn : Lost(c))
-----------------------------------------------------------------------------
(* Properties.  Two nodes that use one session, while the parts of either  *)
(* arrive, break all of them: the node that is called tells requests apart *)
(* by the session alone.                                                   *)

Whole(r) == [k \in 1 .. (IF Parts[r] = 0 THEN 1 ELSE Parts[r]) |-> <<r, k>>]

\* A service is called with the parts of one request, its own, all of them and in order.
ServedWhole ==
  \A a \in DOMAIN served :
    served[a].session \notin clashed => served[a].items = Whole(served[a].addr)

\* A request gets all of the answer that was made to it.
OwnAnswer ==
  \A r \in Request :
    state[r] = "done" /\ session[r] \notin clashed =>
      /\ \E a \in DOMAIN served :
           /\ served[a].items = Whole(r)
           /\ result[r] \in {<< <<a, 1>> >>, << <<a, 0>>, <<a, 1>>, <<a, 2>> >>}

\* As long as no connection ends nothing is refused but what a service refuses.
RefusedForAReason ==
  ended = {} => \A c \in Conn : \A k \in DOMAIN back_high[c] :
    LET p == back_high[c][k] IN p.item[1] = 0 => p.session \in clashed

\* Every request ends, with an answer or an error: again and again none is under way.
EveryCallEnds == []<>(\A r \in Request : state[r] \in {"idle", "done", "failed"})

\* A call of another node is served whole and answered, by its own answer.
CallsAnswered == [](ServedWhole /\ OwnAnswer /\ RefusedForAReason) /\ EveryCallEnds
=============================================================================
