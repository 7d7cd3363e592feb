# A verification of mtask

mtask is an actor runtime: C threads take message queues of *services* from a
global list and run the services' callbacks; most services are Lua programs
that schedule coroutines over those callbacks. This directory holds TLA+ models
of the runtime, the TLC instances that check them and TLAPS proofs about them.
Every definition is translated from a place in `src/`; `PROJECT.json` maps each
one to its lines, lists the runs, and for every checked property one plausible
bug of the code that the run would catch.

## 1. The system and its parts

| Part (source) | State | Operations | Hard behaviour | What makes it correct |
|---|---|---|---|---|
| Message queues (`mtask-src/mtask_mq.c`) | circular buffer, `in_global`, `release`, overload; list of queues | create, push, pop, mark, release | push against last pop, mark against dispatch, drop | a queue with messages is in exactly one place; order; growth keeps messages |
| Contexts (`mtask_server.c`) | `ref`, `init`, session counter, count of contexts | new, send, push, grab, release, retire, dispatch | every call interleaves with every other; a service dies while it is used | one callback at a time; exact references; every message settles once |
| Handle table (`mtask_handle.c`) | hash slots, `handle_index`, sorted names | register, grab, retire, retireall, name, find | growth and reuse while services launch and die | behaves as a map of handles and of names |
| Read-write lock (`rwlock.h`) | `write`, `read` | read, write, unlock | spinning without a queue | exclusion; a waiting writer enters |
| Threads (`mtask_start.c`) | `sleep`, `quit`, mutex, condition | dispatch, sleep, wake up, quit | lost signals; quit against sleep | listed queues are taken; shutdown ends every thread |
| Timer (`mtask_timer.c`) | wheel of 256 + 4 x 64 lists, tick count | add, shift, execute | dispatch outside the lock; 32-bit wrap | each timer fires once, at its tick |
| Monitor (`mtask_monitor.c`) | versions, source, destination | trigger, check | unlocked fields | an endless callback is reported |
| Socket server (`socket_server.c`, `mtask_socket.c`) | slots, write lists, command pipe, event batch | open, listen, accept, start, send, close | slot reuse, partial writes, half close, unlocked slot reads | order, no loss before close, one close message, ids never confused |
| Harbor (`mtask_service_harbor.c`, `mtask_harbor.c`) | slaves with status and queue, names with queue | send, name, connect, handshake, disconnect | messages before the handshake or the name | order, nothing forgotten |
| `cmaster`, `cslave` | slaves, names, connect queue | register, query, connect, accept | yields between test and set | one connection per pair, names agree |
| Gate (`mtask_service_gate.c`, `hashid.h`, `databuffer.h`) | connections, buffers | open, data, forward, kick | table at its limit | ids found, packages whole |
| Lua scheduler (`mtask.lua`, `snlua`) | coroutines by session, wakeups, errors | call, ret, response, sleep, wait, wakeup, fork, exit | resumption order, errors against answers | a call is resumed once; a request is answered once |
| `mtask.queue`, `mqueue` | current coroutine, waiting ones | enter, leave | errors inside, reentry | exclusion, FIFO, nobody forgotten |
| `socketchannel.lua`, `socket.lua` | requests and waiting coroutines, buffer | connect, request, response, close | reconnection, stale answers | an answer reaches who asked; every waiter wakes |
| `launcher`, `service_mgr`, snax | pending launches, waiters | launch, confirm, remove, query | death before confirmation; concurrent queries | one answer per request; one instance per name |
| `multicastd` | groups, remote groups | new, subscribe, publish, delete | yields, cross-node order, shared memory counts | references match deliveries |
| `sharedatad`, stm | versions, counts, monitors | new, update, query, confirm | counts against updates | nothing freed in use, monitors told |
| `datacenterd` | tree, wait tree | query, update, wait | wait against update | waiters wake with the value |
| `clusterd` | sessions, large requests | open, request, register | parts of several requests | responses match requests |
| gate server, message server (`snax/gateserver.lua`, `netpack`, `snax/msgserver.lua`), login | connections, packages that came in part, response cache | open, data, close, request, logout | handlers that yield, reconnection, repeated requests | packages are handled in order; a request runs once |

How they interact: callbacks and the socket and timer threads *push* messages
through the handle table; queues link contexts to workers over the global list;
`delete_context` hands its queue over to whichever worker takes it next; every
Lua part is a service on top of this and sees only messages. `mtask.lua` turns
messages into coroutines that yield, so that the Lua parts interleave although a
service runs on one thread at a time: between two yields a coroutine is alone,
and that is the step of every Lua module here.

## 2. How the development is laid out

From the bottom up:

1. `MessageQueue`, `Dispatch`, with `Mailbox` as what they implement: the core.
2. `HandleStorage` (implements `HandleMap`), `RwLock`, `RingQueue` (implements
   `Fifo`), `TimerWheel` (implements `Deadlines`), `Workers`, `Monitor`: what the
   core takes for granted.
3. `SocketServer` and `SendBuffer`: slots and ids, and what is in the write lists
   of one slot.
4. `Scheduler`: `mtask.lua`, on whose steps the services are written:
   `CriticalSection`, `ServiceMgr`, `Multicast` (with shared packages),
   `ShareData`, `Stm`, `LuaSocket`, `SocketChannel`, `GateServer` and `Gate` (with
   `Packages`, what their clients send), `MsgServer`.
5. Several nodes: `Slaves` (how they connect), `Harbor` (what one sends to
   others), `Clusterd` (calls between clusters).

Proofs are in modules of their own: `DispatchProofs` (Dispatch and its refinement of
Mailbox), `WorkersProofs`, `HandleStorageProofs`, `SchedulerProofs`, `NativeProofs`
(RwLock, RingQueue, Stm, TimerWheel, Monitor), `SocketProofs` (SocketServer),
`ServiceProofs` (ShareData, Multicast, Harbor) and `CoordinationProofs`
(CriticalSection, ServiceMgr, Slaves); section 5 has the arguments. The modules are
written for that: constants with their bounds and assumptions, invariants as
conjunctions of named parts, and no RECURSIVE operator except in Gate and GateServer,
whose parsing of packages stays with TLC. The binary search and the compaction of
names in HandleStorage and `move_list` of the timer are recursive functions for that
reason. Components that are proved or checked together have distinct names for their
variables and specifications (`RingSpec`, `TimerSpec`, `MgrSpec`, ...), so that one
module can extend all of them.

Each component states its properties as a few *conjunctions of named parts*, one
for every distinct promise (`SentInOrder`, `SessionsAgree`, `OneForAll`, ...),
which are what a run checks; the parts stand above it, each with its comment.

The small components share no state, so three MC modules check several of them in
one run: a variable `part` chooses one of them in the initial state, only its
actions are taken and the variables of the others stay as they began. The states
of such a run are the sum, not the product, of those of its components, and their
properties hold in the behaviours of other parts as they hold initially.
Fairness is stated per part.

## 3. What each module models

**MessageQueue** has the queues of `mtask_mq.c` one operator per critical
section: `MqPush`, `MqPop`, `MqPopEmpty` (which clears `in_global`),
`MqMarkRelease`, `MqGiveBack`/`MqStartDrop` (the two ways of
`mtask_mq_release`), `MqFree`, `GlobalPush`, `GlobalPop`. A queue and its
context are named by their service; the circular buffer is a sequence.

**Dispatch** composes it with the contexts of `mtask_server.c`. `pc[t]` is the
place of a thread in its main routine, `sub[t]` the runtime call it is inside
of: `mtask_context_push` is `Grab`, `Push`, `Release`; the last release goes on
to `Delete`; `Retire` ends in a release. The dispatch loop is `Take`,
`GrabQueueOwner`, `PopMessage`/`PopEmpty`, `Length` (the batch size, read in a
critical section of its own), the callback, `EndBatch`, `PushBack` or
`TakeNext`. Callbacks send (`CbSend`), kill any service or themselves
(`CbRetire`), launch (`CbLaunch` to `Offer` or `FailRetire`) or return. A
retired queue is given back until its mark is there (`MqReleaseGiveBack`), then
dropped message by message with an error to each source (`DropMessage`).
`Outside` threads are the socket and timer threads. Deliberate abstractions:
creating the context, registering its handle and creating its queue is one step
(`HandleStorage` takes it apart); a service without a callback function is one
whose messages are handled by being freed; the message to `monitor_exit` and
those of `mtask_error` are ordinary sends and not sent again; handles are not
reused (again `HandleStorage`).

**Mailbox** is what a service is promised: messages are accepted in one order
while it exists, handled one at a time in that order once it is open, and given
back when it closed. `ImplementsMailbox` in Dispatch states that Dispatch,
fairness included, implements it: phase and contents of the box are read off
the queue, the registration and the workers' local variables.

**HandleStorage** is the table itself, with slots, rehash, the search for a free
handle from `handle_index` on, the sorted array of names with its binary search,
and `mtask_handle_retireall` in single passes (`RaStart`, `RaRead`, `RaRetire`,
`RaPassEnds`). `Assign` is a step of its own, because `ctx->handle` is stored by
`mtask_context_new` after `mtask_handle_register` has unlocked; the launching thread
keeps its own reference until then, so `Free` waits for it. **HandleMap** is the plain
directory it implements, over `Address`, the handles without 0: for a lookup of a
name 0 means "none", and `retireall` passes over it.

**RwLock** is `rwlock.h` one atomic instruction per action; it is why an action
of HandleStorage may be a whole critical section. Memory is taken to be
sequentially consistent, as the full barriers of `__sync` make it on x86; the
`USE_PTHREAD_LOCK` variant is the system's own lock and not modelled.

**Workers** has the threads of `mtask_start.c`: `Loop`, dispatching in the steps
`Fetch` to `Return` (Dispatch with each runtime call in one step), then `Lock`,
`CheckQuit`, `Wait`, `Wake`, `Unlock`; the timer thread (`TimeOut`,
`TimerCheck`, `TimerWakeup`, `TimerSignal`, `SocketExit`, `Quit`), the socket
thread (`PollEvent`, `PollExit`, `SocketCheck`, ...) and the monitor thread's
exit. `wakeup` reads `m->sleep` in one step and signals in the next, without the
mutex, as the code does, so a signal can be lost in every way the code loses it;
spurious wakeups happen. `Reserved` is the harbor service, which
`mtask_context_reserve` takes out of the count and keeps until after the join;
`Endless` services may never return from a callback.

**RingQueue** is the array behind one queue: `PushFits` and `PushExpands` are
`mtask_mq_push` with and without `expand_queue`, `Pop` and `PopNothing`
`mtask_mq_pop`, `TakeOverload` `mtask_mq_overload`, each one critical section (the
last without the lock, but only the worker that pops calls it, and `mtask_mq_push`
leaves the word alone). The doubling loop of the threshold is `Raised`. It
implements **Fifo**, which is what MessageQueue takes a queue to be.

**TimerWheel** has the lists `near` and `t` as one function of places, and the
timer thread in the sections between lock and unlock: `BeforeShift` (the first
`timer_execute`, the shift and the taking of the list now due are one section if
the first finds nothing), `DispatchList` for each message pushed without the lock,
`AfterShift` when it locks again. `Place` is `add_node`, the bit masks written as
divisions by `Span`, the ticks that one slot of a level stands for; `Shifted` is
`timer_shift` and `Going` the loop of `move_list`. `Timeout` may come between any two
sections. `TIME_NEAR` and `TIME_LEVEL` are parameters and the clock wraps at `Word`,
what the levels reach, as 2^32 is for 256 and 64 slots. A time is an `int`, so at most
half a word: `MaxDelay` is bounded by that, per timer. A negative time, which
`cmd_timeout` lets through, is not an input.
**Deadlines** is what it implements: ticks to go, and who is ahead of whom.

**Monitor** is one worker's words and the monitor thread: `Enter`/`Entered` and
`Exit`/`Exited` are the two unlocked writes of `mtask_monitor_trigger`, `Check`,
`Same`, `Changed` and `Report` the reads and the mark of `mtask_monitor_check`,
`Endless` what `cmd_endless` reads and resets.

**SocketServer** has the slots. Services reserve one in the three steps of
`reserve_id` (`ReserveNext`, `ReserveSwap`, `ReserveSet`, after which the command
is in the pipe) and write other commands (`Request`). The socket thread handles a
command (`CtrlCmd`: `Open`, `Listen`, `Start`, `Close`, `Send`, each with its ways to
fail), clears the events of a socket it has just closed (`ClearClosedEvent`), waits
(`Wait` picks any events for any registered files; one that is cleared stays in the
list with slot `NULL`, as `e->s` is set) and handles one event a step
(`ReportConnect`, `ReportAccept`, `ForwardMessage`, `SendAll`, `SendSome`, `Skip`).
`phase` is what the services were told of an id. **SendBuffer** is one slot with its
two lists byte by byte: `SendNow` and `SendLater` are `send_socket`, `SendBuffer` is
the four steps of `send_buffer` with whatever the kernel takes, `CloseLater` the
half close.

**Stm** has one object, its lock, its copies with their counts, a writer and its
readers; a reader's lookup is `Grab`, `Look`, `Count`, `Unlock`, `Compare`, since
copy and count are read in separate instructions. `MCNative` extends all of these but
SendBuffer, which it instantiates.

**Scheduler** is one Lua service: an action is what happens between two yields.
Messages resume a coroutine (`Ask`, `Response`, `Failure`, `Nudge`), which goes on
with one of `Call`, `Sleep`, `Wait`, `Wakeup`, `Fork`, `Ret`, `MakeResponse`,
`Throw`, `Exit`, `Finish`; after each yield come `DispatchWakeup`, `DispatchError`
and at the end `DispatchFork`, as in `suspend` and `mtask.dispatch_message`.
`Throw` unwinds the round where it is, what remains in the queues waits for the next
message; `thrown` says that this happened. `Down` is the death of a service that
asks or is called. Messages with session 0 only resume somebody to run code
(`Nudge`); a callee answers by itself; errors that this service sends on exit to
those it called are not followed.

**CriticalSection** is `mtask.queue`: `Queue` and `Enter` are the call, nested,
free or taken, `Resume` the return of `mtask.wait`, `Leave` the return of the
function, also by an error. **ServiceMgr** has the global manager, managers of other
nodes and clients whose `LAUNCH` and `QUERY` become coroutines there.
**Multicast** has one channel, the node that owns it and another: the commands with
the calls between them (`SubFar`, `Subr`, `SubGoesOn` are one subscription), packages
with their counts, the loop that sends one (`SendOne`), and subscribers that close
packages on their own threads. **ShareData** has the server, its collector and two
clients with what they query, box, are told of and let go. **LuaSocket** is one TCP
socket of `socket.lua`: the coroutines that start, read and close it, `suspend` and
`wakeup`, and the messages of the socket thread. **SocketChannel** is a channel
whose responses come in order or carry a session (`mode`): requests, the connection, its dispatcher, the errors
that wake those who wait, `close` and `changehost`; it uses sockets as LuaSocket has
them for one reader. **Packages** is what comes from a client: packages behind
headers of two bytes, cut anywhere. **Gate** takes them apart with the buffer of a
connection found in the hash of ids and forwards them; **GateServer** does it with
`netpack`'s queue of packages and handlers that yield, throw and close clients.
**MsgServer** is on that: a user, the connections it makes one after another and the
cache of responses.

**Slaves** is `cmaster` and the `cslave` of every node: `Join`, the handshake, who is
told of whom, `Connect` and `Accept`, the queue of those to connect to, the death of
nodes; the harbor is told of every connection (`links`). **Harbor** is the C service
of one node: messages by handle and by name, the queues for names and for slaves,
connection, handshake, bad data and disconnection. **Clusterd** is the called node
of a cluster: requests and answers in one package or in parts of low priority, sent
by two nodes over socket channels that number their sessions alike.

The `MC*` modules only name model values and weights for TLC and put the parts
side by side. Definitions with an underscore (`Release_Early`, `Quit_Unlocked`, ...)
are not part of any specification: they are the bugs each property is tried against.

## 4. What the runs check

| Run | What it shows | Properties |
|---|---|---|
| `dispatch_safety` | contexts live once, callbacks are alone, queues are in one place, references are exact, nothing is used after it was freed, outcomes are final | `LifeCycle`, `HandlerAlone`, `QueueInOnePlace`, `RefCountExact`, `NoUseAfterFree`, `OutcomeIsFinal` |
| `dispatch_live` | every message settles, retired queues are freed, Mailbox is implemented | `AllSettles`, `ImplementsMailbox` |
| `handle` | slots and names are sound, HandleMap is implemented, `retireall` retires all that was there | `TableSound`, `ImplementsHandleMap`, `AbortRetiresAll` |
| `workers` | sleepers are counted, nobody waits after quit, shutdown is final, a listed queue is taken though a callback may be endless | `SleepSound`, `ShutdownIsFinal`, `ListedIsTaken` |
| `workers_shutdown` | all threads end | `ShutdownCompletes` |
| `native` | lock, ring, timer wheel, sockets and their write lists, monitor, stm; writers enter, timers go off, half-closed sockets end and endless callbacks are reported (`NobodyIsForgotten`) | `LockSound`, `ImplementsFifo`, `TimersInPlace`, `ImplementsDeadlines`, `SocketsApart`, `SentInOrder`, `ReportIsCurrent`, `CopiesShared`, `NobodyIsForgotten` |
| `scheduler` | `mtask.lua`, gate server, message server, shared data, clusterd | `SessionsAgree`, `CallersTold`, `AllResume`, `ClientsServed`, `RequestsAnswered`, `ObjectsShared`, `CallsAnswered` |
| `services` | harbor, `mtask.queue`, service manager, nodes, multicast, sockets, socket channels, gate | `MessagesForwarded`, `ServesInTurn`, `OneForAll`, `OneConnection`, `EveryoneServed`, `GroupsAgree`, `WaitersGoOn`, `RequestsEnd`, `ConnectionsForwarded` |
| `handle_rehash_race`, `handle_zero`, `socket_race`, `services_close` | the findings of section 6 | `RehashAssertion`, `ZeroReserved`, `NoAssertionFails`, `ReadersFirst` |

### Bounds, and why they are enough

* Dispatch: 3 services (1 launched at run time), 2 workers of weight -1 and 0, 1
  outside thread, 3 messages, 1 call per callback; for liveness 2 services. Two
  workers are the smallest number at which a queue can be in two places, and an
  outside thread beside them gives each runtime call a third party; three messages
  let a queue be refilled after it was emptied, with one more on the way; a service
  launched at run time meets every stage of a launch with traffic.
* Handles: 3 contexts, 2 names, 4 handles, a table from 2 to 4 slots: handles wrap
  and the table doubles once. `OneNameAtAbort` keeps one name while `retireall` goes
  on, because names play no part in it. There is one launcher at a time except in
  `handle_rehash_race`: that finding would otherwise end every run. With several
  launchers, where no assertion fails, the same properties are proved (section 5).
* Workers: 2 workers, 2 services, one message in a queue.
* The lock has 4 threads; the ring 2 messages, growing from 2 to 4; the timer 2
  timers with delays up to 15 and 1 in a word of 5 bits, `near` and 4 levels of 2
  lists, so that a timer waits in any level and through the wrap while another is set
  and goes off. The proofs of section 5 are for any number of slots.
* SocketServer has 2 services, 2 slots, ids up to 3 and 3 commands: one slot is used
  again while events and commands for its first socket are on the way. With `Quiet`
  no slot is taken while the socket thread closes a socket in it or the id is being
  replaced; without it the assertion of `socket_race` fails, and properties that come
  after an abort would say nothing.
* SendBuffer: 3 packages of up to 2 bytes, so that one of them is sent in part while
  others of either priority wait. Monitor: 2 services, 3 callbacks. Stm: 2 readers and
  3 copies, so that the last one is replaced while it is looked at.
* Scheduler: 3 coroutines, one caller that is also called, 2 sessions, 2 uncaught
  errors. MsgServer: 3 connections, 2 sessions, 2 handler runs, a cache that keeps 1
  expired response. ShareData: 2 clients, 3 objects, 1 deletion. Clusterd: 3
  requests of 2 nodes with 2, 0 and 1 parts and 2 connections. GateServer: 3 clients
  of which 2 may be there, streams with an empty package and one of a byte, a queue of
  1 that has to grow, 1 handler blocked in a loop.
* Harbor: 3 nodes, 2 names, 3 messages. CriticalSection: 3 coroutines, 2 levels of
  calls, 4 waits. ServiceMgr: 4 clients, 2 of them through another node. Slaves: 3
  nodes, 1 death (with 4 nodes see the observations). Multicast: 1 subscriber on the
  owner's node and 2 on the other, 4 subscriptions, 1 publication. LuaSocket: 3
  coroutines, 2 bytes, 6 calls: a reader, one that closes and one more.
  SocketChannel: 3 requests, 2 connections, 3 calls. Gate: 3 sockets, which share a
  bucket of the hash, for a table of 2.

The bounds are constants (`MaxSend`, `MaxOps`, `MaxLen`, `MaxCap`, `MaxDiff`,
`MaxDelay`, `MaxId`, ...), each marked "bound" where it is declared. Where they are
used up a model comes to rest, which is why `CHECK_DEADLOCK FALSE` is said of
Dispatch, of the three runs of small components and of the violation runs. Workers
ends in `Joined`, an explicit stutter, and HandleStorage never ends: their deadlock
check is on. For the invariants that are proved nothing depends on these numbers.

### Fairness

* Threads are scheduled (weak fairness of each thread's steps), spin locks are held
  for a bounded time, and callbacks return: the code does not work otherwise, and
  `mtask_monitor.c` exists to report callbacks that do not. Workers drops that
  assumption for `Endless` services. A thread that keeps asking for the mutex gets it
  (strong fairness of `Lock`, `Wake`, `Quit`), and the exit command in the socket
  server's pipe is read in the end although events may come before it (strong
  fairness of `PollExit`).
* The timer thread goes on; the clock it reads goes on (`UpdateTime` is its step).
  So do the monitor thread and a worker that has written one of its two words.
* The socket thread and the services' threads go on. A file that can be written to
  is reported in the end, and takes all that is in the lists in the end, though other
  events come before (strong fairness of `Reports` and `SendAll` of each slot). In
  SendBuffer: a connection that is being made comes to be or fails, and a socket that
  was reported takes a byte or more (`Progress`).
* A Lua service handles its messages, a coroutine yields or ends (`Finish`), and
  the queues of `mtask.lua` are gone through at the next message, which comes
  (`Nudge`). In CriticalSection who has the section leaves it (strong fairness of
  `Outermost`, since calls may nest again and again).
* In ServiceMgr, Slaves, LuaSocket, SocketChannel and Clusterd everything that is
  not a new request or a failure is one action `Progress` with weak fairness; its
  steps are finitely many between two of the others, so that it means: what is on its
  way arrives, and coroutines that can run do.
* Nothing is assumed of sends, launches, network events, time-outs, deaths, losses
  of connections or spurious wakeups.

Most liveness properties have the form `[]<>P`. What waits does so in a state that
is left only by what it waits for, so that "again and again nobody waits" is the
same as a leads-to for everyone, and costs TLC less.

## 5. What is proved

TLAPS checks the following for every value of the constants: any number of
threads, services, contexts, messages, coroutines, readers, timers, slots, clients,
nodes. What is assumed of the constants is named at the head of each module and
evaluated by TLC in every run: weights between -1 and 3 and a `NULL` that is no service
and no message (Dispatch); a number of handles that is a power of two as far as doubling
needs it and a harbor that is a multiple of it, as in `mtask_handle.h` (HandleStorage);
two slots or more in every list of the wheel and times of at most half a word, since
they are `int` (TimerWheel); one slot or more for sockets (SocketServer); connections that
are counted from 1 and one kept response or more (MsgServer); finite sets
where something is counted (RwLock, Scheduler, Stm, ShareData, Multicast); model values
that are none of the others (CriticalSection, ServiceMgr, Harbor).

*DispatchProofs.* `IInv == TypeOK /\ Locals /\ RefCountExact /\ Memory /\
QueueInOnePlace /\ InitDone` is inductive. `RefCountExact` is not so by itself:
that a reference protects a context needs `Memory` (a context is live as long as
its count is positive, is deleted by one thread, and its queue is marked in the
same step), that a queue is in one place needs to know which variables a thread
at a given place holds (`Locals`), and that a queue that is not marked is not
freed. `InitDone` ties registration, the launching thread and `ctx->init`. From
it follow `TypeCorrect`, `QueuesPlaced`, `ReferencesCounted`, `HandlersAlone`
(two callbacks of one service would mean one queue held twice),
`NoneUsedAfterFree`, `QueuesMarkedOnce` and `DispatchesAfterInit`; the last two with
the types are `LivesOnce`, the property `LifeCycle` of the run. The proof has one
lemma per group of actions and conjunct.

The second half of the module is about messages. `InOnePlace`: a message
that is on its way is in the hands of one thread or at one place of one queue, and
has no outcome yet; inductive together with the invariant above, it is `MessagesOnce`.
`OutcomesFinal` (the property `OutcomeIsFinal`) follows: what was handled is never
reported as lost afterwards, nor the other way round, because whoever decides about
a message has the only one. `BoxInv` adds which places of a thread have a message to
handle (`Handling`) and that a queue that is not there has no messages
(`EmptyOutside`). With it `TakesMailboxSteps` is the safety half of the refinement of
Mailbox: the core begins as a mailbox does and every step is one of the mailbox or
none. Its other half, the mailbox's fairness, is `ImplementsMailbox` less this
theorem, and TLC's.

*WorkersProofs.* `IInv` is `TypeOK`, `HasQueue`, `MutexHeld`, `SleepExact`,
`QuitSeen` and `ShutdownIsFinal`. The heart is `QuitSeen`: a worker that has seen
`m->quit` unset keeps the mutex until it waits, so the broadcast, which needs the
mutex, cannot fall between. `ShutdownIsFinal` needs that callbacks hold a
counted context, so that at a count of 0 nobody is left to launch.
Theorems: `NobodyLeftWaiting`, `ShutdownFinal`, `SleepersCounted`, `TypeCorrect`,
and `SleepIsSound`, which is the property `SleepSound` of the run.

*NativeProofs*, the lock. `LockInv` adds to exclusion that `lock->read` is exact and
that the word is set exactly while one thread has it. Theorems: `Excludes`,
`ReadersCounted`, `TypeCorrect`, and all three as `LockIsSound`.

*NativeProofs*, the ring. `RingInv` is the types of the ring and that every slot between
`head` and `tail` holds a message. One lemma per action shows what becomes of the
length and of the place of the i-th message, and that the mapped contents are the
sequence `Fifo` would have; `RingIsQueue` is the refinement, `RingWellFormed` the
bounds of the indices and of what the slots hold.

*NativeProofs*, stm. The counts of objects and copies are cardinalities: `Referred` (the
object's count is that of the readers that know it, and the writer), `CopiesExact` (a
copy's count is that of the readers that have it, those that are about to, and the
object), `Locked` and `Taken`, that what a reader is about to count itself into is still
what is published, since the writer cannot exchange it under the lock. `Shared` is the
property `CopiesShared`.

*NativeProofs*, the timer. `WheelInv` says of what waits, in the lists or in the batch in
hand, that it is in place, that it has at most half a word to go, and that a timer is
there once (`Waiting`); that the list of the current tick is empty, and that the place
`unshifted` is never reached. The argument rests on what the places are: a node is in the
finest level in whose round the current tick is (`PlaceIs`), so a tick changes the place
of a node only if it is in the slot that is moved (`PlaceKept`), and that slot is the
coarsest that starts (`TurnedIs`); half a word is what keeps a node from being taken for
one of the round before (`NotInPast`). What `move_list` leaves is found by induction
along its list. Induction theorems that take an operator cannot be used here, so it goes
by well-foundedness, over the set of lengths for which the statement holds
(`SetInduction`, with `RecursionExists` for the function and `GoingIs` for its result);
`MoveIs` and `MovedNodes` say what that means for the wheel: no node is lost, doubled or
overtaken by another of its tick. `TimersFound` is the property `TimersInPlace` and
`TimersKeepTime` the refinement of Deadlines without its fairness, the property
`ImplementsDeadlines`: every timer goes off at its tick, those of one tick in order.

*NativeProofs*, the monitor. That the destination is the service that is called, at any
moment, is why `MarksTheCurrent` (`ReportIsCurrent`) holds though the count that was
compared may be that of an earlier call.

*HandleStorageProofs.* `IInv` is `TypeOK`, that the size of the table divides the
number of handles (`Fits`), `Named` (the array is sorted), `Slots`, `Launches` and
`Sweep`. The first part of the module proves what the code's algorithms do in any
state with these: the probe for a free slot visits every slot (`FreeHandleIs`), a
growth whose assertion holds keeps every context and leaves room (`RehashedIs`), the
binary search finds a name or the place to insert it (`SearchFinds`, by induction on
the width of the range, written out as sets of numbers), insertion and compaction
keep the array sorted (`InsertedIs`, `KeptIs`). `Slots` must admit that a context is in
the wrong slot: only slot 0, where a growth puts a context that has no handle yet
(section 6); a registration may then make it known later, with the next growth.
`Launches` says that nobody else uses a context that is being launched. `Sweep` is
the reason why `mtask_handle_retireall` is right: what is left to retire is in none of
the slots that a pass which has retired nothing has gone through, because a growth
moves contexts to the same slot or a later one (`ModDouble`). Theorems: `TableIsSound`
(the property `TableSound`), `AbortMissesNobody` (`AbortRetiresAll`), and
`DirectoryImplemented`, the whole refinement of HandleMap (`ImplementsHandleMap`).

*SchedulerProofs.* `IInv` joins the types with `Agree` and `InTurn`. That a session
leads to the coroutine that waits for it is not inductive alone: a session must not
be given out twice (`NotYet`), be owed once and by the service that is called
(`OwedOnce`), and one in the error queue must be of a call that nobody who is there
still owes (`FailedCalls`). `InTurn` says which queues are empty at which place of
`dispatch_message`, as long as no error is on its way. `Sessions` is the property
`SessionsAgree`. `Promises` adds what is known of requests: that who is served is
watched, that an answered closure answered; from `IInv /\ Promises` comes `Answers`,
the property `CallersTold`.

*SchedulerProofs*, the message server. `MsgInv` says, of a session that did not come to a
conflict, that its handler runs for its last entry only, which is the one in the cache and
of the request the client made last, and that an answer came on the newest connection
(`InOrder`); otherwise a repetition could be taken for a new request, or get the response
of the one before. That the last `expired_number` responses survive `retire_response` is a
distance: an entry's index is at most the number of later responses behind the user's, and
retiring keeps or shortens distances (`RetireKeeps`, which needs that a bounded set of
numbers has a greatest, `HasGreatest`). That fewer than `2 * expired_number` are kept is
that complete responses have different indexes below the next (`Indexed`). `UserServed` is
the property `RequestsAnswered`.

*SocketProofs.* `SocketInv` describes the slots from every side. `IdsFresh`: an id is
given out once and was in no command before. `ReservedOnce`: a reserved slot is that of
the one service that is about to store its id, or of the one command that will make it a
socket. `MadeFirst`: that command is before all others for the id. `EventsKept`: an event
is for the socket that has the slot, or for the one that was closed in this turn and
whose events are about to be cleared. `ToldAsTyped`: what the service was told of a
socket is what its type says. `Watched`: what is buffered is written in the end.
`SocketsStayApart` is the property `SocketsApart` under the assumption `Quiet`: no slot is
taken between the close of its last socket and `clear_closed_event`, and `ctrl_cmd` reads
no id that is being replaced. Without it the property is false, as `socket_race` shows;
the two windows are the only ones.

*ServiceProofs*, shared data. `ShareInv` is that the count of an object is that of the
clients which have it in a box, were answered it or will confirm it (`ObjectsCounted`,
`Counts`), that a client's boxes are of different objects of which the last is what its
monitor heard of (`BoxesApart`), and that whoever waits is in the list of those who will
be told (`WatcherListed`). `SharedObjectsKept` is `ObjectsShared`.

*ServiceProofs*, multicast. `GroupInv` counts members and packages and follows the
messages between the two nodes: a subscriber that asks is in one message
(`OneQuestion`), the end of a subscription is sent after all that was asked
(`EndsFirst`), the owner has the other node in its table as long as that has subscribers
or a message says that it is changing (`RemoteKnown`), and of a deleted channel the
message that says so is behind all others (`DeleteIsLast`). `overtaken` is set when an
unsubscription is sent while a subscription has no answer yet, and then the two nodes may
disagree (section 6): the last three parts, `SubscribersReached` and `DeletedForgotten`
except it; the counts do not. `NodesAgreeOnGroups` is `GroupsAgree`.

*ServiceProofs*, the harbor. `HarborInv`: each message is in one place and once
(`OneHolder`, `IsInjective`), the messages of one address are in the order in which they
came wherever they are, and those on the connection before those in the queue
(`ListsOrdered`, `Behind`), and what waits for a name is for that name, and nothing for it
went further (`NamesFirst`). `HarborForwards` is `MessagesForwarded`.

*CoordinationProofs.* For `mtask.queue`, `CurrentIsIn`, `QueueWaits` and `CameInTurn`:
those that had to wait are, in this order, those that went on, the one that was woken,
and the queue; `QueueServes` is `ServesInTurn`. For the service manager `OneRequests`, one
coroutine of a manager requests while the others wait in its table, and `OneAnswer`, the
global manager's entry is the answer of all; `ServiceIsUnique` is `OneForAll`. For the
nodes `EarlierConnects`, that a node connects to those that were counted when it joined
and so never both ways, `TellsOnce` and `ConnectsOnce`; `NodesConnectOnce` is
`OneConnection`.

Only model-checked, and why:

* everything about liveness, with the fairness halves of the refinements of Mailbox and
  of Deadlines: fairness and ENABLED are outside the prover;
* `ClientsServed` and `ConnectionsForwarded`: Gate and GateServer parse with RECURSIVE
  operators;
* `SentInOrder` of SendBuffer, whose state is described by folds over lists, and
  `CallsAnswered` and `RequestsEnd`, whose safety parts come together with liveness;
* the four properties of section 6 that are false.

## 6. What was found

* **The rehash assertion can fail** (`handle_rehash_race`). `mtask_handle.c:60`
  asserts that no two contexts hash to one slot of the grown table, but a context
  whose launch has not yet executed `mtask_server.c:144` still has handle 0. Two
  such contexts collide; a single one is put where no lookup finds it.
* **Handle 0 can be given out** (`handle_zero`). `mtask_handle.c:251` reserves 0,
  but line 43 only masks: without a harbor number the handle after `HANDLE_MASK`
  is 0, to which `mtask_send` drops everything.
* **A reserved slot can be closed** (`socket_race`). `reserve_id` takes a slot at
  `socket_server.c:247` and stores the id at line 248. A close of the slot's last id
  that the socket thread reads between the two passes the test of the id and fails
  `assert(s->type != SOCKET_TYPE_RESERVE)` at line 332.
* **close does not wait for the last read** (`services_close`). `socket.lua:35` says
  that it does. A reader that data wakes while another coroutine waits to close wakes
  that one too; if it then reads again, close clears the buffer and forgets the
  socket, and the reader is suspended for ever. `WaitersGoOn` excepts this state
  (`LeftBehind`) and a close while the socket is being opened, which leaves the opener
  suspended and the connection unclosed.

Seen while modelling, and no run of their own: a property excepts them, or they are
outside the models, as said.

*Runtime.* `mtask_context_new` writes `ctx->init` and logs through `ctx` after its own
reference is gone; a service retired in that window has been freed (`NoUseAfterFree`
excepts `SetInit`). A callback of a retired service can still name it
(`mtask_handle.c:235`). A signal of the socket thread may be lost, and the queue then
waits for the timer's next turn, 2.5 ms later (`ListedIsTaken` holds because of it).
The monitor may report a callback that has just been entered, since `destination` is
written before `version`. In stm two readers that give the object up at once: the
second frees it while the first still has to unlock it (`mtask_lua_stm.c:75`;
`ObjectKept` excepts it).

*Sockets.* If `sp_add` fails in `start_socket` the descriptor is leaked. A `BIND`
socket closed while data waits never becomes writable. A UDP package that fails with
an error other than a full buffer stays at the head of the list and is tried for
ever. A close by a service that is not the owner gets no `CLOSE`. A slot reserved
between `force_close` and `clear_closed_event` keeps the events of its last socket
(`Quiet` keeps this out). User objects whose data do not begin at their buffer make
`list_uncomplete` true and the assertion of `send_buffer` fail; nothing in the
repository makes such objects. In `socket.lua`, `close` asserts something of
`s.lock_set` while `lock` uses `s.lock`.

*Gates.* A gate without broker, agent or watchdog does not read a package, but forgets
its header, so that its contents are taken for headers (`kept` in Gate). A client of
gateserver that was refused for `maxclient` still gets `handler.disconnect`; `lclear`
leaks packages that came in part; after `expand_queue` a loop that was blocked goes on
with the old, emptied queue. In msgserver a response that comes after the user
reconnected, but before it repeats the request, is filed under the new version, and the
repetition is taken for a new request (`HandledOnce` excepts it; `examples/login/client.lua:163`
expects otherwise); the end of an old connection clears `u.fd` although a newer one is
there (line 156).

*Services.* A query through another manager sets `s.launch` there first, so a later
launch through it waits for the query and nothing is launched; a remote error is
answered as success with handle nil. In multicast an unsubscription between the
answers to two overlapping subscriptions undoes the second (`GroupsAgree` excepts it); a
publication to nobody leaks its package; a package is unpacked again for remote nodes
after local subscribers may have freed it (line 85). In sharedata an update whose
`CMD.new` throws has taken the old object out and forgets the watchers (`failed`); the
pointer answered by `CMD.monitor` and `CMD.update` has no reference of its own (`undef`);
`CMD.confirm` tests an address that may be in use again. On a channel, `close` or
`changehost` with requests in flight lets the next connection answer an old request
(`RequestsEnd` excepts it); a channel closed while connecting is connected all the
same. In datacenterd an update above a path that is waited for wakes nobody, and
branch tables stay in the wait queue, so that a later wait for one fails an assertion.

*Nodes.* In the harbor, messages moved from a name's queue to that of a slave that is
not connected do not get the handle (lines 357-364 against 371); messages for a name
that turns out to be local go to the node's own queue and are never sent; after a
connection closes the status stays and later messages are lost silently. In cslave a
node of 4 may become ready, when another dies, before all it awaited have connected,
and waits for ever when the last one it awaited dies (`EveryoneReady` is checked with 3
nodes and excepts this); cmaster keeps the first registration of a name and
broadcasts the second. In clusterd two nodes number their sessions alike and
`large_request` is keyed by session only: parts of one node's request are mixed with, or
refused because of, another's (`clashed` excepts them in `CallsAnswered`), and the end
of any connection forgets the parts of all (line 171).

## 7. What is not modelled

In modelled files: the text commands of `mtask_server.c` that only read or log,
session numbers of contexts, `mtask_context_dispatchall` (only before `exit(1)`), tracing,
the log line of an overload; in `socket_server.c` the binding of descriptors, UDP
addresses and options, several services on one socket; in `socket.lua` accepting, UDP,
locks, and `shutdown` and `abandon` called from outside; in `socketchannel.lua`
authentication, backup hosts and the endless reconnection; in `mtask.lua` how handlers
are found, the functions that start a service, and statistics; names and monitoring in
`cmaster`/`cslave`; the address list, names, proxies and listening of clusterd; the
conversion of shared tables; the checks of the handshake and second logins in
msgserver. Messages are identifiers with the fields that decide their way.

Parts not modelled:

* the launcher answers each launch once in handlers that do not yield, and Dispatch has
  launches that fail or die; snax services only wrap a service; the login server is an
  exchange with one client whose state lives in one coroutine;
* datacenterd is a tree in one service whose handlers do not yield: an order of its
  messages is all there is to interleave. mqueue is deprecated by its own first line;
* the encodings (seri, sproto, bson, crypt, sha1, int64) and the database and web
  clients are sequential transformations of bytes, or formats of other systems;
* the debug tools, module loading, environment, logging, error, daemon and malloc hook
  are introspection and I/O with little state;
* `3rd/` (Lua, lpeg, md5), the examples, the tests and `mtask_web` are not this
  program's own logic. They are most of the lines of the repository (the Lua
  interpreter alone has 19 thousand lines of C), so the lines that `map` names are a
  small share of the whole tree whatever is modelled of the runtime and its services.
