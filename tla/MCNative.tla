----------------------------- MODULE MCNative -------------------------------
(***************************************************************************)
(* Instances for TLC of the small components, most in C, that share no     *)
(* state: the read-write lock, the buffer of a message queue, the timer    *)
(* wheel, the slots of the socket server and the write lists of a socket,  *)
(* the monitor and the objects shared by stm.  A behaviour is one of a     *)
(* single component, part, and the others stay as they began.              *)
(***************************************************************************)
EXTENDS RwLock, RingQueue, Stm, SocketServer, TimerWheel, Monitor

CONSTANTS t1, t2, t3, t4, m1, m2, a, b, h1, h2, none, r1, r2, s1, s2

VARIABLES
  part,
  protocol, type, high, low, wb_size, writing, broken, given, wire

\* A word of 5 bits: near and each of the 4 levels have 2 slots.  One timer waits in
\* any level, and one is set and goes off while the other waits.
DelayOf == [e \in {a, b} |-> IF e = a THEN 15 ELSE 1]

SB == INSTANCE SendBuffer WITH MaxPackage <- 3, MaxSize <- 2

lockVars   == <<write, read, pc>>
bufferVars == <<protocol, type, high, low, wb_size, writing, broken, given, wire>>

PartsInit ==
  /\ part \in {"lock", "ring", "timer", "buffer", "monitor", "stm", "socket"}
  /\ Init /\ RingInit /\ TimerInit /\ MonitorInit /\ StmInit /\ SocketInit
  /\ part # "buffer" => protocol = "TCP" /\ type = "CONNECTED"
  /\ SB!Init

PartsNext ==
  \/ /\ part = "lock" /\ Next
     /\ UNCHANGED <<part, ringVars, timerVars, bufferVars, monitorVars, stmVars, socketVars>>
  \/ /\ part = "ring" /\ RingNext
     /\ UNCHANGED <<part, lockVars, timerVars, bufferVars, monitorVars, stmVars, socketVars>>
  \/ /\ part = "timer" /\ TimerNext
     /\ UNCHANGED <<part, lockVars, ringVars, bufferVars, monitorVars, stmVars, socketVars>>
  \/ /\ part = "buffer" /\ SB!Next
     /\ UNCHANGED <<part, lockVars, ringVars, timerVars, monitorVars, stmVars, socketVars>>
  \/ /\ part = "monitor" /\ MonitorNext
     /\ UNCHANGED <<part, lockVars, ringVars, timerVars, bufferVars, stmVars, socketVars>>
  \/ /\ part = "stm" /\ StmNext
     /\ UNCHANGED <<part, lockVars, ringVars, timerVars, bufferVars, monitorVars, socketVars>>
  \/ /\ part = "socket" /\ SocketNext
     /\ UNCHANGED <<part, lockVars, ringVars, timerVars, bufferVars, monitorVars, stmVars>>

\* The fairness of each component, in its own behaviours.
PartsSpec ==
  /\ PartsInit
  /\ [][PartsNext]_<<part, lockVars, ringVars, timerVars, bufferVars, monitorVars, stmVars,
                     socketVars>>
  /\ \A t \in Thread : /\ WF_lockVars(part = "lock" /\ ReaderStep(t))
                       /\ WF_lockVars(part = "lock" /\ WriterStep(t))
  /\ WF_timerVars(part = "timer" /\ TimerThread)
  /\ WF_bufferVars(part = "buffer" /\ SB!Connected)
  /\ WF_bufferVars(part = "buffer" /\ SB!NothingToSend)
  /\ WF_bufferVars(part = "buffer" /\ SB!Progress)
  /\ WF_monitorVars(part = "monitor" /\ MonitorThread)
  /\ WF_monitorVars(part = "monitor" /\ Entered)
  /\ WF_socketVars(part = "socket" /\ ~aborted /\ SocketThread)
  /\ \A s \in Svc : WF_socketVars(part = "socket" /\ ~aborted /\ (ReserveSwap(s) \/ ReserveSet(s)))
  /\ \A i \in Slot : /\ SF_socketVars(part = "socket" /\ ~aborted /\ Reports(i))
                     /\ SF_socketVars(part = "socket" /\ ~aborted /\ SendAll(i))
-----------------------------------------------------------------------------
(* The properties of the components, by the names they have there.         *)

\* What was given to a socket goes out whole, in order, what is urgent first, and all of it.
SentInOrder == SB!SentInOrder

\* Nobody waits for ever: writers get the lock, a socket that is half closed ends, every
\* timer goes off, and a callback that does not return is reported.
NobodyIsForgotten == WriterEnters /\ HalfClosedEnds /\ EveryTimerFires /\ EndlessIsReported
=============================================================================
