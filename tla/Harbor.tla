------------------------------- MODULE Harbor -------------------------------
(***************************************************************************)
(* The harbor service of a node, service-src/mtask_service_harbor.c: what  *)
(* it does with messages for services of other nodes, by handle or by      *)
(* name, until the other harbor is connected and the name is known.  The   *)
(* cslave of the node connects harbors and answers for names; it and the   *)
(* other harbors are left open here.                                       *)
(***************************************************************************)
EXTENDS Integers, Sequences, Functions

CONSTANTS
  Harbor, Self,     \* nodes, and the one of this service
  Name, Home,       \* global names, and the node each will be registered on
  MaxMsg            \* bound: messages for other nodes

ASSUME HarborAssumption ==
  /\ Self \in Harbor /\ Home \in [Name -> Harbor] /\ MaxMsg \in Nat

VARIABLES
  fd, status, queue,    \* struct slave of every harbor: connected, STATUS_, queue
  value, nameq,         \* the hash map: whether a name is known, what waits for it
  sent,                 \* the addresses of the messages that came
  wire,                 \* what was sent on each connection
  here,                 \* messages for a service of this node
  dropped, errors       \* messages that were freed, and whose sources were told

nameVars == <<value, nameq>>
endVars  == <<here, dropped, errors>>
harborVars == <<fd, status, queue, nameVars, sent, wire, endVars>>

Peer == Harbor \ {Self}
ByHandle(h) == <<"handle", h>>
ByName(n)   == <<"name", n>>
Address     == {ByHandle(h) : h \in Peer} \cup {ByName(n) : n \in Name}

\* harbor_create.
HarborInit ==
  /\ fd = [h \in Harbor |-> FALSE] /\ status = [h \in Harbor |-> "WAIT"]
  /\ queue = [h \in Harbor |-> <<>>]
  /\ value = [n \in Name |-> FALSE] /\ nameq = [n \in Name |-> <<>>]
  /\ sent = <<>>
  /\ wire = [h \in Harbor |-> <<>>]
  /\ here = <<>> /\ dropped = {} /\ errors = {}

New(address) == Len(sent) < MaxMsg /\ sent' = Append(sent, address)
Number == Len(sent) + 1

\* Messages wait for a connection only when there is none.
Waits_Unchecked(h) == ~fd[h]

\* Messages wait as long as the other side has not said who it is.
Waits(h) == ~fd[h] \/ status[h] = "HANDSHAKE"

\* remote_send_handle.
RemoteSendHandle(h, k) ==
  /\ IF h = Self
     THEN here' = Append(here, k) /\ UNCHANGED <<queue, wire, errors>>
     ELSE IF Waits(h)
     THEN IF status[h] = "DOWN"
          THEN errors' = errors \cup {k} /\ UNCHANGED <<queue, wire, here>>
          ELSE queue' = [queue EXCEPT ![h] = Append(@, k)] /\ UNCHANGED <<wire, here, errors>>
     ELSE wire' = [wire EXCEPT ![h] = Append(@, k)] /\ UNCHANGED <<queue, here, errors>>
  /\ UNCHANGED dropped

\* A message for a handle.
SendHandle(h) ==
  /\ New(ByHandle(h))
  /\ RemoteSendHandle(h, Number)
  /\ UNCHANGED <<fd, status, nameVars>>

\* remote_send_name: the message waits, and the cslave is asked.
SendName(n) ==
  /\ New(ByName(n))
  /\ IF value[n] THEN RemoteSendHandle(Home[n], Number) /\ UNCHANGED nameq
     ELSE nameq' = [nameq EXCEPT ![n] = Append(@, Number)] /\ UNCHANGED <<queue, wire, endVars>>
  /\ UNCHANGED <<fd, status, value>>

\* dispatch_name_queue: on the connection if there is one, even before the other
\* side said who it is, and behind what waits for the connection if there is none.
DispatchNameQueue(n) ==
  LET h == Home[n]
  IN /\ IF ~fd[h]
        THEN IF status[h] = "DOWN"
             THEN dropped' = dropped \cup Range(nameq[n]) /\ UNCHANGED <<queue, wire>>
             ELSE queue' = [queue EXCEPT ![h] = @ \o nameq[n]] /\ UNCHANGED <<wire, dropped>>
        ELSE wire' = [wire EXCEPT ![h] = @ \o nameq[n]] /\ UNCHANGED <<queue, dropped>>
     /\ nameq' = [nameq EXCEPT ![n] = <<>>]

\* The command N of the cslave: update_name.
UpdateName(n) ==
  /\ ~value[n]
  /\ value' = [value EXCEPT ![n] = TRUE]
  /\ DispatchNameQueue(n)
  /\ UNCHANGED <<fd, status, sent, here, errors>>

\* dispatch_queue.
DispatchQueue(h) ==
  /\ wire' = [wire EXCEPT ![h] = @ \o queue[h]]
  /\ queue' = [queue EXCEPT ![h] = <<>>]

\* The command S: this side connected and waits for the id of the other.
Connect(h) ==
  /\ ~fd[h]
  /\ fd' = [fd EXCEPT ![h] = TRUE] /\ status' = [status EXCEPT ![h] = "HANDSHAKE"]
  /\ UNCHANGED <<queue, nameVars, sent, wire, endVars>>

\* The command A: the cslave has read the id of the other side.
Accept(h) ==
  /\ ~fd[h]
  /\ fd' = [fd EXCEPT ![h] = TRUE] /\ status' = [status EXCEPT ![h] = "HEADER"]
  /\ DispatchQueue(h)
  /\ UNCHANGED <<nameVars, sent, endVars>>

\* push_socket_data, the first byte: the id of the other side.
Handshake(h) ==
  /\ status[h] = "HANDSHAKE"
  /\ status' = [status EXCEPT ![h] = "HEADER"]
  /\ DispatchQueue(h)
  /\ UNCHANGED <<fd, nameVars, sent, endVars>>

\* close_harbor leaves the queue.
CloseHarbor_Queue(h) ==
  /\ status' = [status EXCEPT ![h] = "DOWN"]
  /\ UNCHANGED <<queue, dropped>>

\* close_harbor.
CloseHarbor(h) ==
  /\ status' = [status EXCEPT ![h] = "DOWN"]
  /\ dropped' = dropped \cup Range(queue[h])
  /\ queue' = [queue EXCEPT ![h] = <<>>]

\* push_socket_data: another id, or a message of 2^24 bytes or more.
BadData(h) ==
  /\ status[h] \in {"HANDSHAKE", "HEADER"} /\ CloseHarbor(h)
  /\ UNCHANGED <<fd, nameVars, sent, wire, here, errors>>

HarborNext ==
  \/ \E h \in Peer : SendHandle(h) \/ Connect(h) \/ Accept(h) \/ Handshake(h) \/ BadData(h)
  \/ \E n \in Name : SendName(n) \/ UpdateName(n)

HarborSpec == HarborInit /\ [][HarborNext]_harborVars
-----------------------------------------------------------------------------
(* Properties.                                                             *)

\* All that is on the way to a harbor, in the order in which it leaves.
OnTheWay(h) == wire[h] \o queue[h]

\* A message is on a connection, in a queue, delivered here, or freed.
Place == ({"wire", "queue"} \X Harbor) \cup ({"name"} \X Name)
           \cup {<<"here", Self>>, <<"dropped", Self>>, <<"errors", Self>>}

Holds(p) ==
  CASE p[1] = "wire"    -> Range(wire[p[2]])
    [] p[1] = "queue"   -> Range(queue[p[2]])
    [] p[1] = "name"    -> Range(nameq[p[2]])
    [] p[1] = "here"    -> Range(here)
    [] p[1] = "dropped" -> dropped
    [] p[1] = "errors"  -> errors

\* No message is lost or sent twice: every one is in one place, and once.
EachInOnePlace ==
  /\ \A k \in DOMAIN sent : \E p \in Place : \A q \in Place : k \in Holds(q) <=> q = p
  /\ \A h \in Harbor : IsInjective(wire[h]) /\ IsInjective(queue[h])
  /\ \A n \in Name : IsInjective(nameq[n])
  /\ IsInjective(here)

\* Messages of one address leave in the order they came, whether they waited for
\* the name, for the connection, for the handshake or not at all.
InOrder ==
  \A h \in Harbor : LET s == OnTheWay(h)
                    IN \A i, j \in DOMAIN s : i < j /\ sent[s[i]] = sent[s[j]] => s[i] < s[j]

\* Nothing waits for a connection that is there, or gone, nor for a name that is known.
NothingStranded ==
  /\ \A h \in Harbor : status[h] \in {"HEADER", "DOWN"} => queue[h] = <<>>
  /\ \A n \in Name : value[n] => nameq[n] = <<>>

\* A harbor forwards every message once and in order, as soon as it can.
MessagesForwarded == EachInOnePlace /\ InOrder /\ NothingStranded
=============================================================================
