---------------------------- MODULE MCScheduler -----------------------------
(***************************************************************************)
(* Instances for TLC of the scheduler of a Lua service, of a service whose *)
(* handlers yield, the gate server and the message server on it, of shared *)
(* data and of clusterd.  They share no state here: a behaviour is one of a*)
(* single component, part, and the others stay as they began.              *)
(***************************************************************************)
EXTENDS Scheduler, MsgServer, ShareData

CONSTANTS c1, c2, c3, x, r1, l1, l2, l3, n1, n2

VARIABLES part, node_session, packed, channel, sock, opener, conns, broken, ended, asker, on, high, low,
          large_request, served, back_high, back_low, result, clashed,
          uncomplete, packages, clients, client_number, phase, came, turn, loops, forked, handled

Asker == [r \in Request |-> x]

CL == INSTANCE Clusterd WITH
        Request <- {l1, l2, l3}, From <- [r \in {l1, l2, l3} |-> IF r = l3 THEN n2 ELSE n1],
        Parts <- [r \in {l1, l2, l3} |-> IF r = l1 THEN 2 ELSE IF r = l2 THEN 0 ELSE 1],
        MaxConn <- 2, session <- packed, state <- asker

clusterVars == <<node_session, packed, channel, sock, opener, conns, broken, ended, asker, on, high,
                 low, large_request, served, back_high, back_low, result, clashed>>

\* A client with an empty package, one with an empty and a longer one, one that only comes.
GS == INSTANCE GateServer WITH
        Fd <- 1 .. 3, QUEUESIZE <- 1, maxclient <- 2, MaxBlocked <- 1,
        Sizes <- <<<<1, 0>>, <<0>>, <<>>>>, queue <- packages, connection <- clients,
        run <- turn, forks <- forked

gateVars == <<uncomplete, packages, clients, client_number, phase, came, turn, loops, forked, handled>>

PartsInit ==
  /\ part \in {"scheduler", "server", "data", "cluster", "gate"}
  /\ Init /\ MsgInit /\ ShareInit /\ CL!Init /\ GS!Init

PartsNext ==
  \/ part = "scheduler" /\ Next /\ UNCHANGED <<part, msgVars, shareVars, clusterVars, gateVars>>
  \/ part = "server" /\ MsgNext /\ UNCHANGED <<part, vars, shareVars, clusterVars, gateVars>>
  \/ part = "data" /\ ShareNext /\ UNCHANGED <<part, vars, msgVars, clusterVars, gateVars>>
  \/ part = "cluster" /\ CL!Next /\ UNCHANGED <<part, vars, msgVars, shareVars, gateVars>>
  \/ part = "gate" /\ GS!Next /\ UNCHANGED <<part, vars, msgVars, shareVars, clusterVars>>

\* The fairness of Scheduler and of Clusterd, in their own behaviours.
PartsSpec ==
  /\ PartsInit /\ [][PartsNext]_<<part, vars, msgVars, shareVars, clusterVars, gateVars>>
  /\ WF_vars(part = "scheduler" /\ Queues)
  /\ WF_vars(part = "scheduler" /\ Finish)
  /\ WF_vars(part = "scheduler" /\ Nudge)
  /\ WF_clusterVars(part = "cluster" /\ CL!Progress)
-----------------------------------------------------------------------------
(* The properties of the instances, by the names they have there.          *)

\* A call of another node is served whole and answered, by its own answer.
CallsAnswered == CL!CallsAnswered

\* The clients of a gate server are there, and served, until their end.
ClientsServed == GS!ClientsServed
=============================================================================
