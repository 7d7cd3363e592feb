----------------------------- MODULE MCServices -----------------------------
(***************************************************************************)
(* Instances for TLC of the services that coroutines and messages make: the*)
(* harbor, mtask.queue, the service manager, the nodes of a network,       *)
(* multicast, sockets, socket channels and the gate.  They share no state  *)
(* here: a behaviour is one of a single component, part, and the others    *)
(* stay as they began.                                                     *)
(***************************************************************************)
EXTENDS Naturals, Sequences, Multicast, Harbor, CriticalSection, ServiceMgr, Slaves

CONSTANTS
  h1, h2, h3,         \* nodes, of which h1 has the harbor service
  n1, n2,             \* names
  t1, t2, t3,         \* coroutines
  q1, q2, q3, q4,     \* who asks for a unique service, two of them another manager
  m1,                 \* that manager
  r1, r2, r3, outsider,  \* requests on a socket channel, and who closes it
  a1                  \* an agent

VARIABLES
  part,
  mode, sock, closed, connecting, connector, thread, got, conns, connected, net, co, closing,
  buffer, unanswered, pc, on, cur, woken, running, calls, cut,
  id, next, hash, count, conn, socket_phase, received, broker, watchdog, forwarded, agents, kept,
  pool, open, reader, closer, read_required, bytes, reads, co_run, co_woken, turns, server, asked, msgs, came_in

\* A name on another node, and one on this.
HomeOf == [s \in {n1, n2} |-> IF s = n1 THEN h2 ELSE h1]

\* Two ask the global manager.
ManagerOf == [c \in {q1, q2, q3, q4} |-> IF c \in {q1, q2} THEN m1 ELSE SERVICE]

SC == INSTANCE SocketChannel WITH
        Requests <- <<r1, r2, r3>>, User <- outsider, MaxConn <- 2, MaxCalls <- 3

\* Ids that have one place in the hash and, but one, in the table.
GA == INSTANCE Gate WITH
        Socket <- {1, 17, 33}, Cap <- 2, HashCap <- 16, Agent <- {a1},
        Sizes <- [s \in {1, 17, 33} |-> IF s = 1 THEN <<0, 2>> ELSE IF s = 17 THEN <<>> ELSE <<1>>],
        phase <- socket_phase, came <- received

\* Three coroutines that share a socket.
LS == INSTANCE LuaSocket WITH
        Co <- {t1, t2, t3}, SIZE <- 2, buffer_limit <- 1, MaxData <- 2, MaxCalls <- 6,
        connected <- open, co <- reader, closing <- closer, buffer <- bytes, state <- reads,
        run <- co_run, woken <- co_woken, calls <- turns, sent <- came_in

channelVars == <<mode, sock, closed, connecting, connector, thread, got, conns, connected, net, co,
                 closing, buffer, unanswered, pc, on, cur, woken, running, calls, cut>>
gateVars    == <<id, next, hash, count, conn, socket_phase, received, broker, watchdog, forwarded, agents,
                 kept>>
readVars    == <<pool, open, reader, closer, read_required, bytes, reads, co_run, co_woken, turns,
                 server, asked, msgs, came_in>>
vars == <<part, harborVars, csVars, smVars, slVars, mcVars, channelVars, gateVars,
          readVars>>

Init ==
  /\ part \in {"harbor", "queue", "manager", "slaves", "multicast", "channel", "gate", "reader"}
  /\ HarborInit /\ TurnInit /\ MgrInit /\ SlaveInit /\ GroupInit /\ SC!Init /\ GA!Init /\ LS!Init
  /\ part # "channel" => mode = "order"
  /\ part # "gate" => watchdog

Next ==
  \/ /\ part = "harbor" /\ HarborNext
     /\ UNCHANGED <<part, csVars, smVars, slVars, mcVars, channelVars, gateVars, readVars>>
  \/ /\ part = "queue" /\ TurnNext
     /\ UNCHANGED <<part, harborVars, smVars, slVars, mcVars, channelVars, gateVars, readVars>>
  \/ /\ part = "manager" /\ MgrNext
     /\ UNCHANGED <<part, harborVars, csVars, slVars, mcVars, channelVars, gateVars, readVars>>
  \/ /\ part = "slaves" /\ SlaveNext
     /\ UNCHANGED <<part, harborVars, csVars, smVars, mcVars, channelVars, gateVars, readVars>>
  \/ /\ part = "multicast" /\ GroupNext
     /\ UNCHANGED <<part, harborVars, csVars, smVars, slVars, channelVars, gateVars, readVars>>
  \/ /\ part = "channel" /\ SC!Next
     /\ UNCHANGED <<part, harborVars, csVars, smVars, slVars, mcVars, gateVars, readVars>>
  \/ /\ part = "gate" /\ GA!Next
     /\ UNCHANGED <<part, harborVars, csVars, smVars, slVars, mcVars, channelVars, readVars>>
  \/ /\ part = "reader" /\ LS!Next
     /\ UNCHANGED <<part, harborVars, csVars, smVars, slVars, mcVars, channelVars, gateVars>>

\* Coroutines that can run do; the functions they call return; what was asked for over
\* the network is answered, or its connection ends.
Spec ==
  /\ Init /\ [][Next]_vars
  /\ \A t \in {t1, t2, t3} : /\ WF_csVars(part = "queue" /\ TurnStep(t))
                             /\ SF_csVars(part = "queue" /\ Outermost(t))
  /\ WF_smVars(part = "manager" /\ MgrProgress)
  /\ WF_slVars(part = "slaves" /\ SlaveProgress)
  /\ WF_channelVars(part = "channel" /\ SC!Progress)
  /\ WF_readVars(part = "reader" /\ LS!Progress)
-----------------------------------------------------------------------------
(* The properties of the components, by the names they have there.         *)

\* Who waits for a critical section enters it, who asks for a unique service is answered,
\* and any two nodes become ready and connected.
EveryoneServed == EveryoneEnters /\ AllAnswered /\ EveryoneReady /\ AllLinked

\* A request on a socket channel ends, with its own response or an error.
RequestsEnd == SC!RequestsEnd

\* The gate forwards the packages of a connection whole, in order and for itself.
ConnectionsForwarded == GA!ConnectionsForwarded

\* Who waits for a socket goes on, when what was asked for comes or the socket ends.
WaitersGoOn == LS!WaitersGoOn

\* A socket's buffer is cleared after the last read (not so).
ReadersFirst == LS!ReadersFirst
=============================================================================
