--------------------------------- MODULE Gate ----------------------------------
(***************************************************************************)
(* service-src/mtask_service_gate.c: the gate finds the connection of a    *)
(* socket in a table of ids (hashid.h), collects what comes from it        *)
(* (databuffer.h) and forwards each package, a header of two bytes and as  *)
(* many bytes as it says, to the broker, the agent of the connection or    *)
(* the watchdog.  It handles one message at a time.                        *)
(***************************************************************************)
EXTENDS Packages

CONSTANTS
  Socket,         \* ids of sockets, each for one connection
  Cap, HashCap,   \* max_connection, and the size of hash
  Agent, NULL

VARIABLES
  id, next, hash, count,   \* struct hashid
  conn,                    \* the connections: socket, agent, buffer
  phase,                   \* of a socket, as the gate was told of it
  came,                    \* bytes of a socket that were received
  broker, watchdog,        \* whether there is one
  forwarded,               \* of a socket: what was forwarded, and to whom
  agents,                  \* the agents it was given
  kept                     \* sockets with a package that nobody was there to take

gateVars  == <<id, next, hash, count, conn, phase, came, broker, watchdog, forwarded, agents, kept>>
tableVars == <<id, next, hash, count>>

Slot == 0 .. Cap - 1
Empty == [header |-> 0, offset |-> 0, size |-> 0, list |-> <<>>]
Unused == [socket |-> -1, agent |-> NULL, buffer |-> Empty]

\* gate_init.
Init ==
  /\ id = [i \in Slot |-> -1] /\ next = [i \in Slot |-> -1]
  /\ hash = [h \in 0 .. HashCap - 1 |-> -1] /\ count = 0
  /\ conn = [i \in Slot |-> Unused]
  /\ phase = [s \in Socket |-> "none"] /\ came = [s \in Socket |-> 0]
  /\ broker = FALSE /\ watchdog \in BOOLEAN
  /\ forwarded = [s \in Socket |-> <<>>] /\ agents = [s \in Socket |-> {}]
  /\ kept = {}

-----------------------------------------------------------------------------
(* The table of ids.                                                       *)

\* The chain of a hash value from slot i on.
Chain(i) ==
  LET f[n \in 0 .. Cap] == IF n = 0 THEN <<i>>
                           ELSE LET c == f[n - 1] IN IF Last(c) = -1 THEN c ELSE Append(c, next[Last(c)])
  IN SelectSeq(f[Cap], LAMBDA j : j # -1)

ChainOf(s) == Chain(hash[s % HashCap])

\* hashid_lookup.
Lookup(s) ==
  LET found == {k \in DOMAIN ChainOf(s) : id[ChainOf(s)[k]] = s}
  IN IF found = {} THEN -1 ELSE ChainOf(s)[CHOOSE k \in found : \A j \in found : k <= j]

\* hashid_remove of an id that is there.
RemoveId(s) ==
  LET i == Lookup(s)
  IN /\ hash' = [hash EXCEPT ![s % HashCap] = IF @ = i THEN next[i] ELSE @]
     /\ next' = [j \in Slot |-> IF j = i THEN -1 ELSE IF next[j] = i THEN next[i] ELSE next[j]]
     /\ id' = [id EXCEPT ![i] = -1]
     /\ count' = count - 1

\* The place of a new id: the first that is free from its own on.
Place(s) ==
  LET free == {k \in Slot : id[(k + s) % Cap] = -1}
  IN ((CHOOSE k \in free : \A j \in free : k <= j) + s) % Cap

\* hashid_insert.
Insert(s) ==
  /\ id' = [id EXCEPT ![Place(s)] = s]
  /\ next' = [next EXCEPT ![Place(s)] = hash[s % HashCap]]
  /\ hash' = [hash EXCEPT ![s % HashCap] = Place(s)]
  /\ count' = count + 1

-----------------------------------------------------------------------------
(* databuffer.h: messages, as the first byte and how many, and the offset  *)
(* in the first of them.                                                   *)

Push(db, first, n) == [db EXCEPT !.list = Append(@, [first |-> first, n |-> n]), !.size = @ + n]

RECURSIVE Read(_, _)
RECURSIVE Read_Offset(_, _)

\* The offset stays when a message has been read to its end.
Read_Offset(db, n) ==
  LET m == Head(db.list)
      left == m.n - db.offset
      part == [k \in 1 .. (IF left < n THEN left ELSE n) |-> m.first + db.offset + k - 1]
  IN IF left > n
     THEN [data |-> part, db |-> [db EXCEPT !.offset = @ + n, !.size = @ - n]]
     ELSE LET rest == [db EXCEPT !.list = Tail(@), !.size = @ - left]
          IN IF left = n THEN [data |-> part, db |-> rest]
             ELSE LET r == Read_Offset([rest EXCEPT !.offset = 0], n - left)
                  IN [data |-> part \o r.data, db |-> r.db]

\* databuffer_read of n bytes.
Read(db, n) ==
  LET m == Head(db.list)
      left == m.n - db.offset
      part == [k \in 1 .. (IF left < n THEN left ELSE n) |-> m.first + db.offset + k - 1]
  IN IF left > n
     THEN [data |-> part, db |-> [db EXCEPT !.offset = @ + n, !.size = @ - n]]
     ELSE LET rest == [db EXCEPT !.list = Tail(@), !.size = @ - left, !.offset = 0]
          IN IF left = n THEN [data |-> part, db |-> rest]
             ELSE LET r == Read(rest, n - left)
                  IN [data |-> part \o r.data, db |-> r.db]

\* databuffer_readheader: the buffer with its header, once that is there.
WithHeader(s, db) ==
  IF db.header # 0 \/ db.size < 2 THEN db
  ELSE LET r == Read(db, 2) IN [r.db EXCEPT !.header = 256 * Value(s, r.data[1]) + Value(s, r.data[2])]

\* An empty package ends the loop as an incomplete one does.
Drain_Empty(s, db, to) ==
  LET f[n \in 0 .. Stream(s)] ==
        IF n = 0 THEN [db |-> db, out |-> <<>>, more |-> TRUE]
        ELSE LET was == f[n - 1]
                 b == WithHeader(s, was.db)
                 r == Read(b, b.header)
             IN IF ~was.more THEN was
                ELSE IF b.header = 0 \/ b.size < b.header THEN [was EXCEPT !.db = b, !.more = FALSE]
                ELSE IF to = {} THEN [was EXCEPT !.db = [b EXCEPT !.header = 0]]
                ELSE [was EXCEPT !.db = [r.db EXCEPT !.header = 0], !.out = Append(@, r.data)]
  IN f[Stream(s)]

\* The loop of dispatch_message: packages are read while they are complete; one that
\* nobody takes is left where it is, and only its header is forgotten.
Drain(s, db, to) ==
  LET f[n \in 0 .. Stream(s)] ==
        IF n = 0 THEN [db |-> db, out |-> <<>>, more |-> TRUE]
        ELSE LET was == f[n - 1]
                 b == WithHeader(s, was.db)
                 r == Read(b, b.header)
             IN IF ~was.more THEN was
                ELSE IF (was.db.header = 0 /\ was.db.size < 2) \/ b.size < b.header
                     THEN [was EXCEPT !.db = b, !.more = FALSE]
                ELSE IF b.header = 0 THEN [was EXCEPT !.db = b]
                ELSE IF to = {} THEN [was EXCEPT !.db = [b EXCEPT !.header = 0]]
                ELSE [was EXCEPT !.db = [r.db EXCEPT !.header = 0], !.out = Append(@, r.data)]
  IN f[Stream(s)]

\* _forward: whom to.
To(c) ==
  IF broker THEN {"broker"} ELSE IF conn[c].agent # NULL THEN {conn[c].agent}
  ELSE IF watchdog THEN {"watchdog"} ELSE {}

-----------------------------------------------------------------------------
(* Messages of the socket thread.                                          *)

\* ACCEPT.
Accept(s) ==
  /\ phase[s] = "none"
  /\ IF count = Cap
     THEN phase' = [phase EXCEPT ![s] = "over"] /\ UNCHANGED <<tableVars, conn>>
     ELSE /\ Insert(s)
          /\ conn' = [conn EXCEPT ![Place(s)].socket = s]
          /\ phase' = [phase EXCEPT ![s] = "open"]
  /\ UNCHANGED <<came, broker, watchdog, forwarded, agents, kept>>

\* DATA: n bytes more.
Data(s, n) ==
  /\ phase[s] = "open" /\ came[s] + n <= Stream(s)
  /\ LET c == Lookup(s)
         to == To(c)
         d == Drain(s, Push(conn[c].buffer, came[s] + 1, n), to)
         who == IF to = {} THEN NULL ELSE CHOOSE w \in to : TRUE
     IN /\ conn' = [conn EXCEPT ![c].buffer = d.db]
        /\ forwarded' = [forwarded EXCEPT ![s] =
             @ \o [k \in DOMAIN d.out |-> [data |-> d.out[k], to |-> who]]]
        /\ kept' = IF to = {} /\ Complete(s, came[s] + n) # Complete(s, came[s]) THEN kept \cup {s} ELSE kept
  /\ came' = [came EXCEPT ![s] = @ + n]
  /\ UNCHANGED <<tableVars, phase, broker, watchdog, agents>>

\* CLOSE or ERROR.
Close(s) ==
  /\ phase[s] = "open" /\ phase' = [phase EXCEPT ![s] = "over"]
  /\ RemoveId(s)
  /\ conn' = [conn EXCEPT ![Lookup(s)] = Unused]
  /\ UNCHANGED <<came, broker, watchdog, forwarded, agents, kept>>

\* The text command forward, also of a connection that is no more.
Forward(s, a) ==
  /\ a \notin agents[s]
  /\ IF Lookup(s) = -1 THEN UNCHANGED <<conn, agents>>
     ELSE /\ conn' = [conn EXCEPT ![Lookup(s)].agent = a]
          /\ agents' = [agents EXCEPT ![s] = @ \cup {a}]
  /\ UNCHANGED <<tableVars, phase, came, broker, watchdog, forwarded, kept>>

\* The text command broker.
Broker ==
  /\ ~broker /\ broker' = TRUE
  /\ UNCHANGED <<tableVars, conn, phase, came, watchdog, forwarded, agents, kept>>

Next ==
  \/ Broker
  \/ \E s \in Socket : \/ Accept(s) \/ Close(s)
                       \/ \E n \in 1 .. Stream(s) : Data(s, n)
                       \/ \E a \in Agent : Forward(s, a)
-----------------------------------------------------------------------------
(* Properties.                                                             *)

\* The table finds every connection at its place, and nothing else.
TableFinds ==
  /\ \A s \in Socket :
       IF phase[s] = "open" THEN Lookup(s) # -1 /\ conn[Lookup(s)].socket = s ELSE Lookup(s) = -1
  /\ count = Cardinality({s \in Socket : phase[s] = "open"})

\* What was forwarded of a connection are the packages that came, whole and in order,
\* all that are complete, however they were cut on the way.
PackagesForwarded ==
  \A s \in Socket \ kept :
    LET full == SelectSeq([k \in 1 .. Cardinality(Complete(s, came[s])) |-> Contents(s, k)],
                          LAMBDA p : p # <<>>)
    IN [k \in DOMAIN forwarded[s] |-> forwarded[s][k].data] = full

\* An agent gets packages of a connection it was given, not of the one that has the
\* place since.
ToOwnAgent ==
  \A s \in Socket : \A k \in DOMAIN forwarded[s] :
    forwarded[s][k].to \in Agent => forwarded[s][k].to \in agents[s]

\* A connection's packages are forwarded whole and in order, for itself.
ConnectionsForwarded == TableFinds /\ PackagesForwarded /\ ToOwnAgent
=============================================================================
