-------------------------------- MODULE Slaves --------------------------------
(***************************************************************************)
(* How the nodes of a network find each other: service/cmaster.lua on the  *)
(* node of the master and service/cslave.lua on every node.  A node that   *)
(* joins is told how many nodes will connect to it, and every node that is *)
(* there is told of the new one.  Nodes may die.                           *)
(***************************************************************************)
EXTENDS Integers, Sequences, FiniteSets

CONSTANTS Slave,
          MaxDead    \* bound: nodes that die

VARIABLES
  slave_node,       \* of the master: no entry, its connection, or 0
  toSlave,          \* what the master has written to each node
  phase,            \* of a node: off, sent H, waits, ready or dead
  counted,          \* the number it got with W, and the nodes that were counted
  slaves,           \* of a node: nil, a connection or false for every other
  connect_queue,    \* of a node: whom it connects to when it is ready
  opening,          \* of a node: whom it is connecting to, in which coroutine
  backlog, links    \* connections that were not accepted yet and those that were

slVars == <<slave_node, toSlave, phase, counted, slaves, connect_queue, opening, backlog, links>>

SlaveInit ==
  /\ slave_node = [a \in Slave |-> "none"]
  /\ toSlave = [a \in Slave |-> <<>>]
  /\ phase = [a \in Slave |-> "off"]
  /\ counted = [a \in Slave |-> {}]
  /\ slaves = [a \in Slave |-> [b \in Slave |-> "nil"]]
  /\ connect_queue = [a \in Slave |-> {}]
  /\ opening = [a \in Slave |-> {}]
  /\ backlog = {} /\ links = {}

Up == {a \in Slave : slave_node[a] = "up"}
Dead == {a \in Slave : phase[a] = "dead"}
Message(t, a) == [type |-> t, of |-> a]

\* The messages of a node of which the master tells all that are up.
Told(t, a) ==
  [b \in Slave |-> IF b \in Up \ {a} THEN Append(toSlave[b], Message(t, a)) ELSE toSlave[b]]

\* The node listens, connects to the master and says H.
Join(a) ==
  /\ phase[a] = "off"
  /\ phase' = [phase EXCEPT ![a] = "sent"]
  /\ UNCHANGED <<slave_node, toSlave, counted, slaves, connect_queue, opening, backlog, links>>

\* handshake and report_slave.
ReportSlave(a) ==
  /\ phase[a] = "sent" /\ slave_node[a] = "none"
  /\ toSlave' = [Told("C", a) EXCEPT ![a] = <<Message("W", a)>>]
  /\ counted' = [counted EXCEPT ![a] = Up]
  /\ slave_node' = [slave_node EXCEPT ![a] = "up"]
  /\ UNCHANGED <<phase, slaves, connect_queue, opening, backlog, links>>

\* monitor_slave: the connection of a node ends.
SlaveIsDown(a) ==
  /\ a \in Dead /\ slave_node[a] = "up"
  /\ slave_node' = [slave_node EXCEPT ![a] = "down"]
  /\ toSlave' = Told("D", a)
  /\ UNCHANGED <<phase, counted, slaves, connect_queue, opening, backlog, links>>

Reads(a, t) == toSlave[a] # <<>> /\ Head(toSlave[a]).type = t
Read(a) == toSlave' = [toSlave EXCEPT ![a] = Tail(@)]

\* The answer W: there is something to wait for, or not.
Welcome(a) ==
  /\ phase[a] = "sent" /\ Reads(a, "W") /\ Read(a)
  /\ phase' = [phase EXCEPT ![a] = IF counted[a] = {} THEN "ready" ELSE "waits"]
  /\ UNCHANGED <<slave_node, counted, slaves, connect_queue, opening, backlog, links>>

Opens(a, b, co) == opening' = [opening EXCEPT ![a] = @ \cup {<<b, co>>}]
IsOpening(a, co) == \E b \in Slave : <<b, co>> \in opening[a]

\* monitor_master reads the next message when connect_slave has returned.
Monitors(a) == phase[a] \in {"waits", "ready"} /\ ~IsOpening(a, "master")

\* A node that waits keeps it, and connects.
MonitorConnect_Both(a) ==
  /\ Monitors(a) /\ Reads(a, "C") /\ Read(a)
  /\ LET b == Head(toSlave[a]).of
     IN /\ connect_queue' = [connect_queue EXCEPT ![a] = IF phase[a] = "waits" THEN @ \cup {b} ELSE @]
        /\ IF slaves[a][b] = "nil" THEN Opens(a, b, "master") ELSE UNCHANGED opening
  /\ UNCHANGED <<slave_node, phase, counted, slaves, backlog, links>>

\* C: kept until the node is ready.
MonitorConnect(a) ==
  /\ Monitors(a) /\ Reads(a, "C") /\ Read(a)
  /\ LET b == Head(toSlave[a]).of
     IN IF phase[a] = "waits"
        THEN connect_queue' = [connect_queue EXCEPT ![a] = @ \cup {b}] /\ UNCHANGED opening
        ELSE /\ IF slaves[a][b] = "nil" THEN Opens(a, b, "master") ELSE UNCHANGED opening
             /\ UNCHANGED connect_queue
  /\ UNCHANGED <<slave_node, phase, counted, slaves, backlog, links>>

\* D, of a node that is dead: its connection, if there is one, is closed already.
MonitorDisconnect(a) ==
  /\ Monitors(a) /\ Reads(a, "D") /\ Read(a)
  /\ slaves' = [slaves EXCEPT ![a][Head(toSlave[a]).of] = "false"]
  /\ UNCHANGED <<slave_node, phase, counted, connect_queue, opening, backlog, links>>

\* The queue is thrown away before it is gone through.
ConnectQueued_Lost(a) ==
  /\ phase[a] = "ready" /\ connect_queue[a] # {} /\ ~IsOpening(a, "ready")
  /\ connect_queue' = [connect_queue EXCEPT ![a] = {}]
  /\ UNCHANGED <<slave_node, toSlave, phase, counted, slaves, opening, backlog, links>>

\* ready: connect_slave for the next one of the queue.
ConnectQueued(a) ==
  /\ phase[a] = "ready" /\ ~IsOpening(a, "ready")
  /\ \E b \in connect_queue[a] :
       /\ connect_queue' = [connect_queue EXCEPT ![a] = @ \ {b}]
       /\ IF slaves[a][b] = "nil" THEN Opens(a, b, "ready") ELSE UNCHANGED opening
  /\ UNCHANGED <<slave_node, toSlave, phase, counted, slaves, backlog, links>>

Listens(b) == phase[b] \in {"sent", "waits"}

\* socket.open returns in connect_slave, with a connection or without.
Opened(a, b, co) ==
  /\ <<b, co>> \in opening[a]
  /\ opening' = [opening EXCEPT ![a] = @ \ {<<b, co>>}]
  /\ IF Listens(b)
     THEN slaves' = [slaves EXCEPT ![a][b] = "fd"] /\ backlog' = backlog \cup {<<a, b>>}
     ELSE UNCHANGED <<slaves, backlog>>
  /\ UNCHANGED <<slave_node, toSlave, phase, counted, connect_queue, links>>

\* The entries of slaves are counted, those that are false too.
Enough(sl, a) == Cardinality({b \in Slave : sl[a][b] # "nil"}) >= Cardinality(counted[a])

\* accept_slave, when the id of the other node was read.  The last one that was
\* awaited ends the wait, and slave_fd is closed with what it has not accepted.
AcceptSlave(a, b) ==
  /\ phase[a] = "waits" /\ <<b, a>> \in backlog
  /\ IF slaves[a][b] = "nil"
     THEN /\ slaves' = [slaves EXCEPT ![a][b] = "fd"]
          /\ links' = links \cup (IF b \in Dead THEN {} ELSE {<<b, a>>})
     ELSE UNCHANGED <<slaves, links>>
  /\ LET ready == Enough(slaves', a)
     IN /\ phase' = [phase EXCEPT ![a] = IF ready THEN "ready" ELSE @]
        /\ backlog' = backlog \ (IF ready THEN {<<c, a>> : c \in Slave} ELSE {<<b, a>>})
  /\ UNCHANGED <<slave_node, toSlave, counted, connect_queue, opening>>

\* accept_slave of a connection that was closed before the id came.
AcceptSlaveFails(a, b) ==
  /\ phase[a] = "waits" /\ <<b, a>> \in backlog /\ b \in Dead
  /\ LET ready == Enough(slaves, a)
     IN /\ phase' = [phase EXCEPT ![a] = IF ready THEN "ready" ELSE @]
        /\ backlog' = backlog \ (IF ready THEN {<<c, a>> : c \in Slave} ELSE {<<b, a>>})
  /\ UNCHANGED <<slave_node, toSlave, counted, slaves, connect_queue, opening, links>>

\* D of the harbor service, whose connection was closed.
HarborDown(a, b) ==
  /\ a \notin Dead /\ slaves[a][b] = "fd"
  /\ {<<a, b>>, <<b, a>>} \cap (links \cup backlog) = {}
  /\ slaves' = [slaves EXCEPT ![a][b] = "false"]
  /\ UNCHANGED <<slave_node, toSlave, phase, counted, connect_queue, opening, backlog, links>>

\* A node dies, and its connections with it.
Die(a) ==
  /\ phase[a] \in {"waits", "ready"} /\ Cardinality(Dead) < MaxDead
  /\ phase' = [phase EXCEPT ![a] = "dead"]
  /\ opening' = [opening EXCEPT ![a] = {}]
  /\ links' = {l \in links : l[1] # a /\ l[2] # a}
  /\ backlog' = {l \in backlog : l[2] # a}
  /\ UNCHANGED <<slave_node, toSlave, counted, slaves, connect_queue>>

\* What goes on without a node being started or dying.
SlaveStep(a) ==
  \/ ReportSlave(a) \/ SlaveIsDown(a) \/ Welcome(a)
  \/ MonitorConnect(a) \/ MonitorDisconnect(a) \/ ConnectQueued(a)
  \/ \E b \in Slave : \/ AcceptSlave(a, b) \/ AcceptSlaveFails(a, b) \/ HarborDown(a, b)
                      \/ \E co \in {"master", "ready"} : Opened(a, b, co)

SlaveProgress == \E a \in Slave : SlaveStep(a)

SlaveNext == SlaveProgress \/ \E a \in Slave : Join(a) \/ Die(a)

SlaveSpec == SlaveInit /\ [][SlaveNext]_slVars
-----------------------------------------------------------------------------
(* Properties.                                                             *)

\* Two nodes have one connection at a time, whichever of them is told of the other.
OneConnection ==
  \A a, b \in Slave : a # b =>
    Cardinality({<<a, b>>, <<b, a>>} \cap links) + Cardinality({<<a, b>>, <<b, a>>} \cap backlog)
      + Cardinality({o \in opening[a] : o[1] = b}) + Cardinality({o \in opening[b] : o[1] = a}) <= 1

\* A node that joins does not wait for ever, though those it waits for wait for
\* others.  (If one of them dies it may.)
EveryoneReady == []<>(Dead # {} \/ \A a \in Slave : phase[a] \notin {"sent", "waits"})

\* Any two nodes become connected and know it, in whichever order they join.
AllLinked ==
  []<>(\/ Dead # {}
       \/ \A a, b \in Slave : a # b /\ {phase[a], phase[b]} \subseteq {"waits", "ready"} =>
                              {slaves[a][b], slaves[b][a]} = {"fd"})
=============================================================================
