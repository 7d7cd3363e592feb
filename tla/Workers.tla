------------------------------ MODULE Workers ------------------------------
(***************************************************************************)
(* The threads of mtask-src/mtask_start.c: workers that dispatch and sleep,*)
(* the timer and socket threads that push messages and wake workers, the   *)
(* monitor thread, and how they all end once no service is left.           *)
(*                                                                         *)
(* Dispatching is module Dispatch with each runtime call in one step: what *)
(* matters here is only who is asleep while a queue is listed.  The mutex  *)
(* and the condition variable are at full detail, m->sleep and m->quit are *)
(* read without the mutex where the code does so, and a signal may find    *)
(* nobody waiting.                                                         *)
(***************************************************************************)
EXTENDS Integers, Sequences, FiniteSets

CONSTANTS
  Worker,     \* worker threads; m->count of them
  Weight,     \* the weight of each worker
  Service,    \* services, each alive at most once
  Boot,       \* services launched before the threads start
  Endless,    \* services whose callback may never return
  Reserved,   \* the harbor service: kept, not counted, and launching nothing
  MaxLen,     \* bound: messages in a queue
  NULL

ASSUME WorkersAssumption ==
  /\ IsFiniteSet(Worker)
  /\ Weight \in [Worker -> -1 .. 3]
  /\ IsFiniteSet(Service)
  /\ Boot \subseteq Service /\ Boot # {}
  /\ Endless \subseteq Service /\ Reserved \subseteq Service
  /\ MaxLen \in Nat
  /\ NULL \notin Service \cup Worker

VARIABLES
  life,            \* "unborn", "alive" or "dead" (retired)
  len,             \* messages in the queue of each service
  glist,           \* the global list of queues
  pc, q, left,     \* workers: where, the queue held, n - i of the batch
  sleep, quit,     \* m->sleep, m->quit
  mutex,           \* the worker that holds m->mutex
  timer, socket, monitor,  \* where those threads are
  exitSent         \* the exit command is in the pipe of the socket server

svcVars  == <<life, len, glist>>
workVars == <<pc, q, left>>
condVars == <<sleep, quit, mutex>>
restVars == <<timer, socket, monitor, exitSent>>
vars     == <<svcVars, workVars, condVars, restVars>>

\* A worker between mtask_handle_grab and mtask_context_release.
InBatch(w) == pc[w] \in {"pop", "callback"}

\* A count of the registered services only: no reference of a worker.
Living_Registered == {s \in Service \ Reserved : life[s] = "alive"}

\* The services whose context exists: mtask_context_total counts them, but
\* not the one that mtask_context_reserve took out of the count.
Living == {s \in Service \ Reserved :
             life[s] = "alive" \/ \E w \in Worker : InBatch(w) /\ q[w] = s}
Total == Cardinality(Living)

Flagged(s) == \/ \E i \in DOMAIN glist : glist[i] = s
              \/ \E w \in Worker : q[w] = s

Listed(s) == IF Flagged(s) THEN glist ELSE Append(glist, s)

\* mtask_context_push: dropped if the handle is not registered.
CanPush(s) == life[s] = "alive" /\ len[s] < MaxLen
Push(s) == /\ len' = [len EXCEPT ![s] = @ + 1]
           /\ glist' = Listed(s)
           /\ UNCHANGED life

First == IF glist = <<>> THEN NULL ELSE Head(glist)
Rest  == IF glist = <<>> THEN <<>> ELSE Tail(glist)

Init ==
  /\ life = [s \in Service |-> IF s \in Boot THEN "alive" ELSE "unborn"]
  /\ len \in [Service -> 0 .. MaxLen]
  /\ \A s \in Service \ Boot : len[s] = 0
  /\ glist \in [1 .. Cardinality(Boot) -> Boot]
  /\ \A s \in Boot : \E i \in DOMAIN glist : glist[i] = s
  /\ pc = [w \in Worker |-> "loop"]
  /\ q = [w \in Worker |-> NULL]
  /\ left = [w \in Worker |-> 0]
  /\ sleep = 0 /\ quit = FALSE /\ mutex = NULL
  /\ timer = "update" /\ socket = "poll" /\ monitor = "check"
  /\ exitSent = FALSE
-----------------------------------------------------------------------------
(* A worker dispatches.                                                    *)

Goto(w, p) == pc' = [pc EXCEPT ![w] = p]

\* while (!m->quit): read without the mutex.
Loop(w) ==
  /\ pc[w] = "loop"
  /\ Goto(w, IF quit THEN "exited" ELSE IF q[w] = NULL THEN "fetch" ELSE "grab")
  /\ UNCHANGED <<svcVars, q, left, condVars, restVars>>

\* q = mtask_globalmq_pop(), and NULL if there is none.
Fetch(w) ==
  /\ pc[w] = "fetch"
  /\ q' = [q EXCEPT ![w] = First]
  /\ glist' = Rest
  /\ Goto(w, IF First = NULL THEN "lock" ELSE "grab")
  /\ UNCHANGED <<life, len, left, condVars, restVars>>

Grab(w) ==
  /\ pc[w] = "grab"
  /\ Goto(w, IF life[q[w]] = "alive" THEN "pop"
             ELSE IF q[w] \in Reserved THEN "giveback" ELSE "drop")
  /\ UNCHANGED <<svcVars, q, left, condVars, restVars>>

\* mtask_mq_release without the mark, which comes when the context is deleted:
\* that of a reserved context is deleted by mtask_harbor_exit, after the end.
GiveBack(w) ==
  /\ pc[w] = "giveback"
  /\ q' = [q EXCEPT ![w] = Head(Append(glist, q[w]))]
  /\ glist' = Tail(Append(glist, q[w]))
  /\ Goto(w, "loop")
  /\ UNCHANGED <<life, len, left, condVars, restVars>>

\* drop_message, one message: the error goes to its source, if there is one.
DropMessage(w) ==
  LET dropped == [len EXCEPT ![q[w]] = @ - 1]
  IN /\ pc[w] = "drop" /\ len[q[w]] > 0
     /\ \/ /\ len' = dropped
           /\ UNCHANGED glist
        \/ \E s \in Service : /\ CanPush(s)
                              /\ len' = [dropped EXCEPT ![s] = @ + 1]
                              /\ glist' = Listed(s)
     /\ UNCHANGED <<life, workVars, condVars, restVars>>

\* return mtask_globalmq_pop() without the queue held before.
LetGo(w) ==
  /\ q' = [q EXCEPT ![w] = First]
  /\ glist' = Rest
  /\ left' = [left EXCEPT ![w] = 0]
  /\ Goto(w, IF First = NULL THEN "lock" ELSE "loop")
  /\ UNCHANGED <<life, len>>

DropQueue(w) ==
  /\ pc[w] = "drop" /\ len[q[w]] = 0
  /\ LetGo(w)
  /\ UNCHANGED <<condVars, restVars>>

\* n >>= weight.
Shift(n, weight) == n \div (<<1, 2, 4, 8>>[weight + 1])

\* n of the dispatch loop, set after the first pop; left counts down from it.
BatchAfter(w, length) ==
  IF Weight[w] < 0 \/ Shift(length, Weight[w]) = 0 THEN 0 ELSE Shift(length, Weight[w]) - 1

PopMessage(w) ==
  /\ pc[w] = "pop" /\ len[q[w]] > 0
  /\ len' = [len EXCEPT ![q[w]] = @ - 1]
  /\ left' = [left EXCEPT ![w] = IF @ = 0 THEN BatchAfter(w, len[q[w]] - 1) ELSE @ - 1]
  /\ Goto(w, "callback")
  /\ UNCHANGED <<life, glist, q, condVars, restVars>>

PopNothing(w) ==
  /\ pc[w] = "pop" /\ len[q[w]] = 0
  /\ LetGo(w)
  /\ UNCHANGED <<condVars, restVars>>

\* What a callback does: send, launch, exit or kill.
Call(w) ==
  /\ pc[w] = "callback"
  /\ \E s \in Service :
       \/ CanPush(s) /\ Push(s)
       \/ /\ q[w] \notin Reserved
          /\ life[s] = "unborn"
          /\ life' = [life EXCEPT ![s] = "alive"]
          /\ glist' = Append(glist, s)
          /\ UNCHANGED len
       \/ /\ life[s] = "alive"
          /\ life' = [life EXCEPT ![s] = "dead"]
          /\ glist' = Listed(s)
          /\ UNCHANGED len
  /\ UNCHANGED <<workVars, condVars, restVars>>

\* The callback returns; at the end of the batch the queue is kept or swapped.
Return(w) ==
  /\ pc[w] = "callback"
  /\ IF left[w] > 0
     THEN /\ Goto(w, "pop")
          /\ UNCHANGED <<q, glist>>
     ELSE /\ Goto(w, "loop")
          /\ IF First = NULL
             THEN UNCHANGED <<q, glist>>
             ELSE /\ q' = [q EXCEPT ![w] = First]
                  /\ glist' = Append(Rest, q[w])
  /\ UNCHANGED <<life, len, left, condVars, restVars>>

DispatchStep(w) ==
  \/ Loop(w)
  \/ Fetch(w)
  \/ Grab(w)
  \/ GiveBack(w)
  \/ DropMessage(w)
  \/ DropQueue(w)
  \/ PopMessage(w)
  \/ PopNothing(w)
-----------------------------------------------------------------------------
(* A worker sleeps.                                                        *)

Lock(w) ==
  /\ pc[w] = "lock" /\ mutex = NULL
  /\ mutex' = w
  /\ sleep' = sleep + 1
  /\ Goto(w, "check")
  /\ UNCHANGED <<svcVars, q, left, quit, restVars>>

\* if (!m->quit), with the mutex.
CheckQuit(w) ==
  /\ pc[w] = "check"
  /\ Goto(w, IF quit THEN "unlock" ELSE "wait")
  /\ UNCHANGED <<svcVars, q, left, condVars, restVars>>

\* pthread_cond_wait lets the mutex go and waits, in one step.
Wait(w) ==
  /\ pc[w] = "wait"
  /\ mutex' = NULL
  /\ Goto(w, "waiting")
  /\ UNCHANGED <<svcVars, q, left, sleep, quit, restVars>>

SpuriousWakeup(w) ==
  /\ pc[w] = "waiting"
  /\ Goto(w, "woken")
  /\ UNCHANGED <<svcVars, q, left, condVars, restVars>>

\* pthread_cond_wait returns with the mutex.
Wake(w) ==
  /\ pc[w] = "woken" /\ mutex = NULL
  /\ mutex' = w
  /\ Goto(w, "unlock")
  /\ UNCHANGED <<svcVars, q, left, sleep, quit, restVars>>

\* -- m->sleep and pthread_mutex_unlock.
Unlock(w) ==
  /\ pc[w] = "unlock"
  /\ sleep' = sleep - 1
  /\ mutex' = NULL
  /\ Goto(w, "loop")
  /\ UNCHANGED <<svcVars, q, left, quit, restVars>>

\* pthread_cond_signal: wakes one worker that waits, if there is one.
Signal ==
  LET Waiting == {w \in Worker : pc[w] = "waiting"}
  IN IF Waiting = {} THEN UNCHANGED pc ELSE \E w \in Waiting : Goto(w, "woken")

\* wakeup: does it signal?  m->sleep is read without the mutex.
WakesUp(busy) == sleep >= Cardinality(Worker) - busy
-----------------------------------------------------------------------------
(* The timer thread.                                                       *)

\* mtask_updatetime, one time-out; there may be any number of them, or none.
TimeOut ==
  /\ timer = "update"
  /\ \E s \in Service : CanPush(s) /\ Push(s)
  /\ UNCHANGED <<workVars, condVars, restVars>>

\* CHECK_ABORT.
TimerCheck ==
  /\ timer = "update"
  /\ timer' = IF Total = 0 THEN "exit" ELSE "wakeup"
  /\ UNCHANGED <<svcVars, workVars, condVars, socket, monitor, exitSent>>

\* thread_timer that calls wakeup(m, 0), as the socket thread does.
TimerWakeup_AllAsleep ==
  /\ timer = "wakeup"
  /\ timer' = IF WakesUp(0) THEN "signal" ELSE "update"
  /\ UNCHANGED <<svcVars, workVars, condVars, socket, monitor, exitSent>>

\* wakeup(m, m->count-1).
TimerWakeup ==
  /\ timer = "wakeup"
  /\ timer' = IF WakesUp(Cardinality(Worker) - 1) THEN "signal" ELSE "update"
  /\ UNCHANGED <<svcVars, workVars, condVars, socket, monitor, exitSent>>

TimerSignal ==
  /\ timer = "signal"
  /\ Signal
  /\ timer' = "update"
  /\ UNCHANGED <<svcVars, q, left, condVars, socket, monitor, exitSent>>

\* thread_timer that leaves the socket thread to find out by itself.
SocketExit_Silent ==
  /\ timer = "exit"
  /\ timer' = "quit"
  /\ UNCHANGED <<svcVars, workVars, condVars, socket, monitor, exitSent>>

\* mtask_socket_exit.
SocketExit ==
  /\ timer = "exit"
  /\ exitSent' = TRUE
  /\ timer' = "quit"
  /\ UNCHANGED <<svcVars, workVars, condVars, socket, monitor>>

\* thread_timer that sets m->quit and broadcasts without the mutex.
Quit_Unlocked ==
  /\ timer = "quit"
  /\ quit' = TRUE
  /\ pc' = [w \in Worker |-> IF pc[w] = "waiting" THEN "woken" ELSE pc[w]]
  /\ timer' = "exited"
  /\ UNCHANGED <<svcVars, q, left, sleep, mutex, socket, monitor, exitSent>>

\* The critical section that sets m->quit and wakes every worker.
Quit ==
  /\ timer = "quit" /\ mutex = NULL
  /\ quit' = TRUE
  /\ pc' = [w \in Worker |-> IF pc[w] = "waiting" THEN "woken" ELSE pc[w]]
  /\ timer' = "exited"
  /\ UNCHANGED <<svcVars, q, left, sleep, mutex, socket, monitor, exitSent>>

TimerStep == \/ TimerCheck
             \/ TimerWakeup
             \/ TimerSignal
             \/ SocketExit
-----------------------------------------------------------------------------
(* The socket thread and the monitor thread.                               *)

\* mtask_socket_poll with an event: its message is pushed if the service
\* still lives; r < 0 if there are more events or the event is unknown.
PollEvent ==
  /\ socket = "poll"
  /\ \/ \E s \in Service : CanPush(s) /\ Push(s)
     \/ UNCHANGED svcVars
  /\ socket' \in {"more", "wakeup"}
  /\ UNCHANGED <<workVars, condVars, timer, monitor, exitSent>>

\* mtask_socket_poll returns 0.
PollExit ==
  /\ socket = "poll" /\ exitSent
  /\ socket' = "exited"
  /\ UNCHANGED <<svcVars, workVars, condVars, timer, monitor, exitSent>>

\* CHECK_ABORT.
SocketCheck ==
  /\ socket = "more"
  /\ socket' = IF Total = 0 THEN "exited" ELSE "poll"
  /\ UNCHANGED <<svcVars, workVars, condVars, timer, monitor, exitSent>>

\* wakeup(m, 0).
SocketWakeup ==
  /\ socket = "wakeup"
  /\ socket' = IF WakesUp(0) THEN "signal" ELSE "poll"
  /\ UNCHANGED <<svcVars, workVars, condVars, timer, monitor, exitSent>>

SocketSignal ==
  /\ socket = "signal"
  /\ Signal
  /\ socket' = "poll"
  /\ UNCHANGED <<svcVars, q, left, condVars, timer, monitor, exitSent>>

SocketStep == SocketCheck \/ SocketWakeup \/ SocketSignal

\* CHECK_ABORT; what the thread watches is left out.
MonitorCheck ==
  /\ monitor = "check" /\ Total = 0
  /\ monitor' = "exited"
  /\ UNCHANGED <<svcVars, workVars, condVars, timer, socket, exitSent>>
-----------------------------------------------------------------------------
\* The main thread has joined all the others; it frees m.
AllExited ==
  /\ \A w \in Worker : pc[w] = "exited"
  /\ timer = "exited" /\ socket = "exited" /\ monitor = "exited"

Joined == AllExited /\ UNCHANGED vars

SleepStep(w) == \/ CheckQuit(w)
                \/ Wait(w)
                \/ Unlock(w)

WorkerStep(w) == \/ DispatchStep(w)
                 \/ Call(w)
                 \/ Return(w)
                 \/ Lock(w)
                 \/ Wake(w)
                 \/ SpuriousWakeup(w)
                 \/ SleepStep(w)

Next == \/ \E w \in Worker : WorkerStep(w)
        \/ TimeOut \/ TimerStep \/ Quit
        \/ PollEvent \/ PollExit \/ SocketStep
        \/ MonitorCheck
        \/ Joined

\* Threads are scheduled, callbacks return unless they are endless ones, and
\* a thread that keeps asking for the mutex gets it.  A message that leaves
\* the pipe of the socket server is not overtaken for ever.  Nothing is said
\* of callbacks' calls, network events, time-outs and spurious wakeups.
Fairness ==
  /\ \A w \in Worker :
       /\ WF_vars(DispatchStep(w) \/ SleepStep(w))
       /\ WF_vars(q[w] \notin Endless /\ Return(w))
       /\ SF_vars(Lock(w))
       /\ SF_vars(Wake(w))
  /\ WF_vars(TimerStep) /\ SF_vars(Quit)
  /\ SF_vars(PollExit) /\ WF_vars(SocketStep)
  /\ WF_vars(MonitorCheck)

Spec == Init /\ [][Next]_vars /\ Fairness
-----------------------------------------------------------------------------
(* Properties.                                                             *)

WorkerPc == {"loop", "fetch", "grab", "drop", "giveback", "pop", "callback",
             "lock", "check", "wait", "waiting", "woken", "unlock", "exited"}

\* Every variable has its type; a queue is held exactly where one is needed.
TypeOK ==
  /\ life \in [Service -> {"unborn", "alive", "dead"}]
  /\ len \in [Service -> 0 .. MaxLen]
  /\ glist \in Seq(Service)
  /\ pc \in [Worker -> WorkerPc]
  /\ q \in [Worker -> Service \cup {NULL}]
  /\ left \in [Worker -> Nat]
  /\ sleep \in Nat /\ quit \in BOOLEAN
  /\ mutex \in Worker \cup {NULL}
  /\ timer \in {"update", "wakeup", "signal", "exit", "quit", "exited"}
  /\ socket \in {"poll", "more", "wakeup", "signal", "exited"}
  /\ monitor \in {"check", "exited"}
  /\ exitSent \in BOOLEAN

\* m->sleep, which wakeup reads without the mutex, counts the workers between
\* ++ m->sleep and -- m->sleep.
Sleeping == {w \in Worker : pc[w] \in {"check", "wait", "waiting", "woken", "unlock"}}
SleepExact == sleep = Cardinality(Sleeping)

\* Once thread_timer has broadcast m->quit no worker waits on the condition
\* variable, and none will: nobody would wake it.
NoneWaitsAfterQuit == quit => \A w \in Worker : pc[w] # "waiting"

\* Sleepers are counted exactly, and none sleeps on when the threads have to end.
SleepSound == TypeOK /\ SleepExact /\ NoneWaitsAfterQuit

\* The threads stop only when no service is left, and none is launched after
\* that: the thread that counted 0 contexts counted those in callbacks.
ShutdownIsFinal ==
  (timer \in {"exit", "quit", "exited"} \/ socket = "exited" \/ monitor = "exited")
    => Living = {}

\* A queue in the global list is taken by a worker, even if every signal of
\* the socket thread was lost and all workers but one are in endless
\* callbacks: the timer thread wakes one as soon as one is asleep.
ListedIsTaken ==
  \A s \in Service :
    []<>(quit \/ \A i \in DOMAIN glist : glist[i] # s)

\* When the last service is gone for good every thread ends, and mtask_start
\* returns; the reserved service may still have its queue in a worker's hands.
ShutdownCompletes == []<>(Living # {} \/ AllExited)
=============================================================================
