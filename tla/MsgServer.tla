------------------------------- MODULE MsgServer -------------------------------
(***************************************************************************)
(* lualib/snax/msgserver.lua on lualib/snax/gateserver.lua, for one user:  *)
(* a client that lost its connection makes another, with a greater index,  *)
(* and repeats the requests it has no answer to.  A request is handled by  *)
(* a coroutine that yields; its response is kept for the one who repeats   *)
(* it.  Requests and the ends of connections arrive in any order, those of *)
(* an old connection after those of a new one too.                         *)
(***************************************************************************)
EXTENDS Integers, Sequences, FiniteSets

CONSTANTS
  Fds,              \* connections, 1, 2, ...: the client counts its index with them
  ClientSession,    \* sessions of the client
  expired_number,   \* responses that are kept
  MaxRun            \* bound: calls of the request handler

ASSUME MsgAssumption ==
  /\ Fds \subseteq Nat \ {0}
  /\ expired_number \in Nat \ {0}

VARIABLES
  gate,         \* connection[fd] of gateserver: nil yet, true, false, or nil again
  handshake,    \* connections that have not sent their first package
  connection,   \* those of the user
  online,       \* user_online has the user
  version, fd, index,   \* of the user
  responses,    \* u.response: the number of the entry of a session, 0 for nil
  entry, runs,  \* the entries, with a coroutine each until the fd is nil
  requests,     \* of a session, what its client did and got
  since         \* how many responses were sent after that of a session

msgVars == <<gate, handshake, connection, online, version, fd, index, responses, entry, runs,
             requests, since>>
userVars  == <<online, version, fd>>
cacheVars == <<index, responses, entry, runs, requests, since>>
connVars  == <<gate, handshake, connection>>

\* The user has logged in.
MsgInit ==
  /\ gate = [f \in Fds |-> "none"]
  /\ handshake = {} /\ connection = {}
  /\ online = TRUE /\ version = 0 /\ fd = 0 /\ index = 0
  /\ responses = [s \in ClientSession |-> 0]
  /\ entry = <<>> /\ runs = 0
  /\ requests = [s \in ClientSession |->
                   [use |-> 0, on |-> {}, last |-> 0, answer |-> 0, conflict |-> FALSE]]
  /\ since = [s \in ClientSession |-> expired_number]

\* MSG.open and handler.connect.
Open(f) ==
  /\ gate[f] = "none" /\ \A e \in Fds : e < f => gate[e] # "none"
  /\ gate' = [gate EXCEPT ![f] = "true"] /\ handshake' = handshake \cup {f}
  /\ UNCHANGED <<connection, userVars, cacheVars>>

\* gateserver.closeclient.
Closed(f) == IF gate[f] = "true" THEN [gate EXCEPT ![f] = "false"] ELSE gate

\* The first package of a connection; do_auth accepts an index greater than the last.
Auth(f) ==
  /\ gate[f] = "true" /\ f \in handshake
  /\ handshake' = handshake \ {f}
  /\ IF online /\ f > version
     THEN /\ version' = f /\ fd' = f /\ connection' = connection \cup {f}
          /\ UNCHANGED gate
     ELSE gate' = Closed(f) /\ UNCHANGED <<version, fd, connection>>
  /\ UNCHANGED <<online, cacheVars>>

\* MSG.close or MSG.error, after the client or the server closed the connection.
Close(f) ==
  /\ gate[f] \in {"true", "false"}
  /\ gate' = [gate EXCEPT ![f] = "gone"]
  /\ handshake' = handshake \ {f} /\ connection' = connection \ {f}
  /\ fd' = IF f \in connection THEN 0 ELSE fd
  /\ UNCHANGED <<online, version, cacheVars>>

\* server.logout.
Logout ==
  /\ online /\ online' = FALSE
  /\ IF fd = 0 THEN UNCHANGED <<gate, connection>>
     ELSE gate' = Closed(fd) /\ connection' = connection \ {fd}
  /\ UNCHANGED <<handshake, version, fd, cacheVars>>

\* Made, or repeated, before the last expired_number.
Expired(e) == e.index < expired_number

\* retire_response, when the index has come to next.
Retire(next, cache, sent) ==
  IF next < expired_number * 2 THEN index' = next /\ responses' = cache /\ entry' = sent
  ELSE LET complete == {s \in ClientSession : cache[s] # 0 /\ sent[cache[s]].fd = 0}
           kept == {s \in complete : ~Expired(sent[cache[s]])}
           ages == {0} \cup {sent[cache[s]].index - expired_number : s \in kept}
       IN /\ index' = 1 + (CHOOSE a \in ages : \A b \in ages : b <= a)
          /\ responses' = [s \in ClientSession |-> IF s \in complete \ kept THEN 0 ELSE cache[s]]
          /\ entry' = [p \in DOMAIN sent |->
               IF \E s \in kept : cache[s] = p
               THEN [sent[p] EXCEPT !.index = @ - expired_number] ELSE sent[p]]

\* The client is at the other end, it has not made another connection.
Used(f) == gate[f] = "true" /\ f \in connection /\ \A e \in Fds : e > f => gate[e] = "none"

\* The end of do_request: the response of p goes to f, if it is still there.
Send(p, f, sent, asks) ==
  LET s == sent[p].session
  IN /\ Retire(index + 1, responses, [sent EXCEPT ![p].fd = 0])
     /\ since' = [x \in ClientSession |->
          IF x = s /\ sent[p].use = asks[s].use THEN 0
          ELSE IF x # s /\ since[x] < expired_number THEN since[x] + 1 ELSE since[x]]
     /\ requests' = IF f = asks[s].last /\ Used(f)
                 THEN [asks EXCEPT ![s].answer = sent[p].use] ELSE asks

\* A package of the connection comes, with a request of session s.  A client uses a
\* session for the next request where it got the response, and repeats the request on
\* another connection.  Of an old connection only repetitions may still come.
IsNew(f, s) == requests[s].use = 0 \/ (requests[s].last = f /\ requests[s].answer # 0)
Comes(f, s) ==
  /\ gate[f] = "true" /\ f \in connection
  /\ f \in requests[s].on => IsNew(f, s) /\ f = version

AskedOn(f, s) ==
  [requests EXCEPT ![s].use = IF IsNew(f, s) THEN @ + 1 ELSE @,
                ![s].on = IF IsNew(f, s) THEN {f} ELSE @ \cup {f},
                ![s].last = f, ![s].answer = 0]

Entry(s) == entry[responses[s]]
Current(s) == responses[s] # 0 /\ Entry(s).version = version

\* The session is in use by the same connection.
Conflict(f, s) ==
  /\ Comes(f, s) /\ Current(s) /\ Entry(s).fd # 0
  /\ responses' = [responses EXCEPT ![s] = 0]
  /\ gate' = Closed(f)
  /\ requests' = [AskedOn(f, s) EXCEPT ![s].conflict = TRUE]
  /\ UNCHANGED <<handshake, connection, userVars, index, entry, runs, since>>

NewEntry(f, s) ==
  [session |-> s, use |-> AskedOn(f, s)[s].use, fd |-> f, from |-> f, version |-> 0, index |-> 0]

\* The request handler is called; it yields.
Run(f, s) ==
  /\ Comes(f, s) /\ runs < MaxRun
  /\ responses[s] = 0 \/ (Current(s) /\ Entry(s).fd = 0)
  /\ runs' = runs + 1
  /\ entry' = Append(entry, NewEntry(f, s))
  /\ responses' = [responses EXCEPT ![s] = runs']
  /\ requests' = AskedOn(f, s)
  /\ since' = [since EXCEPT ![s] = expired_number]
  /\ UNCHANGED <<connVars, userVars, index>>

\* The response will go where the request came from first.
Join_First(f, s) ==
  /\ Comes(f, s) /\ responses[s] # 0 /\ ~Current(s) /\ Entry(s).fd # 0
  /\ entry' = [entry EXCEPT ![responses[s]].from = f,
                            ![responses[s]].version = version, ![responses[s]].index = index]
  /\ requests' = AskedOn(f, s)
  /\ UNCHANGED <<connVars, userVars, index, responses, runs, since>>

\* Already requested, and the handler runs: its response will go to this connection.
Join(f, s) ==
  /\ Comes(f, s) /\ responses[s] # 0 /\ ~Current(s) /\ Entry(s).fd # 0
  /\ entry' = [entry EXCEPT ![responses[s]].fd = f, ![responses[s]].from = f,
                            ![responses[s]].version = version, ![responses[s]].index = index]
  /\ requests' = AskedOn(f, s)
  /\ UNCHANGED <<connVars, userVars, index, responses, runs, since>>

\* The response that is kept is sent again.
Resend(f, s) ==
  /\ Comes(f, s) /\ responses[s] # 0 /\ ~Current(s) /\ Entry(s).fd = 0
  /\ Send(responses[s], f, [entry EXCEPT ![responses[s]].from = f,
                             ![responses[s]].version = version, ![responses[s]].index = index],
          AskedOn(f, s))
  /\ UNCHANGED <<connVars, userVars, runs>>

\* The request handler returns, or throws an error: that is a response too.
Handled(p) ==
  /\ p \in DOMAIN entry /\ entry[p].fd # 0
  /\ Send(p, entry[p].fd, [entry EXCEPT ![p].version = version, ![p].index = index], requests)
  /\ UNCHANGED <<connVars, userVars, runs>>

MsgNext ==
  \/ Logout
  \/ \E f \in Fds : Open(f) \/ Auth(f) \/ Close(f)
  \/ \E f \in Fds, s \in ClientSession : Conflict(f, s) \/ Run(f, s) \/ Join(f, s) \/ Resend(f, s)
  \/ \E p \in 1 .. MaxRun : Handled(p)

MsgSpec == MsgInit /\ [][MsgNext]_msgVars
-----------------------------------------------------------------------------
(* Properties, of sessions that did not come to a conflict: that closes the*)
(* connection and forgets the entry, though its handler runs.              *)

\* The connection that repeated a request last gets the response, when the handler
\* returns if it has not yet.
AnswerComes ==
  \A s \in ClientSession :
    LET f == requests[s].last
    IN f # 0 /\ requests[s].answer = 0 /\ Used(f) =>
         \E p \in DOMAIN entry : entry[p].session = s /\ entry[p].fd = f

\* The client gets the response of the request it made last with the session.
OwnResponse ==
  \A s \in ClientSession : ~requests[s].conflict => requests[s].answer \in {0, requests[s].use}

\* A request that the user repeats on the last connection is handled again only if its
\* response is too old to be kept, or came when the user was on a connection that had
\* not asked for it: then the repetition is taken for a new request.
HandlesOnce ==
  LET again == entry'[runs']
      same == {p \in DOMAIN entry : entry[p].session = again.session /\ entry[p].use = again.use}
      e == entry[CHOOSE p \in same : \A q \in same : q <= p]
  IN runs' > runs /\ same # {} /\ again.from = version /\ ~requests[again.session].conflict
       => e.fd = 0 /\ (since[again.session] >= expired_number \/ e.version # e.from)

HandledOnce == [][HandlesOnce]_msgVars

\* The last responses are in the cache, however many were repeated or came late.
ResponsesKept ==
  \A s \in ClientSession :
    since[s] < expired_number /\ ~requests[s].conflict => responses[s] # 0 /\ Entry(s).fd = 0

\* No more are.
ResponsesRetired ==
  Cardinality({s \in ClientSession : responses[s] # 0 /\ Entry(s).fd = 0}) < 2 * expired_number

\* A request is handled once, and its response comes to who asked last.
RequestsAnswered ==
  [](AnswerComes /\ OwnResponse /\ ResponsesKept /\ ResponsesRetired) /\ HandledOnce
=============================================================================
