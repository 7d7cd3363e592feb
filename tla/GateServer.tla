------------------------------- MODULE GateServer --------------------------------
(***************************************************************************)
(* lualib/snax/gateserver.lua with netpack: packages are cut out of what   *)
(* comes from the sockets, one that comes alone is handled at once, and    *)
(* several wait in a queue that coroutines empty.  Handlers may yield,     *)
(* throw and close clients.  The sockets here share a bucket of the hash of*)
(* uncomplete packages.                                                    *)
(***************************************************************************)
EXTENDS Packages

CONSTANTS
  Fd,
  QUEUESIZE, maxclient,
  MaxBlocked           \* bound: handlers that have yielded in a loop

VARIABLES
  uncomplete,          \* the bucket
  queue,               \* struct queue: cap, head, tail and the packages
  connection, client_number,
  phase, came,         \* of a socket, as the server was told of it; its bytes
  run,                 \* what runs: a loop, forks, or nothing
  loops,               \* coroutines whose handler yielded, in a loop on this queue
  forks,               \* dispatch_queue, forked
  handled              \* packages of a socket that handler.message was called with

serverVars == <<uncomplete, queue, connection, client_number, phase, came, run, loops, forks, handled>>
clientVars == <<connection, client_number, phase>>
packVars   == <<uncomplete, queue, came>>

Init ==
  /\ uncomplete = <<>>
  /\ queue = [cap |-> QUEUESIZE, head |-> 0, tail |-> 0, slot |-> <<>>]
  /\ connection = [s \in Fd |-> "nil"] /\ client_number = 0
  /\ phase = [s \in Fd |-> "none"] /\ came = [s \in Fd |-> 0]
  /\ run = "idle" /\ loops = 0 /\ forks = 0
  /\ handled = [s \in Fd |-> <<>>]

-----------------------------------------------------------------------------
(* netpack.                                                                *)

\* expand_queue, when the package that was pushed has filled it.
Expanded(q) ==
  [cap |-> q.cap + QUEUESIZE, head |-> 0, tail |-> q.cap,
   slot |-> [i \in 0 .. q.cap - 1 |-> q.slot[(q.head + i) % q.cap]]]

\* push_data.
PushData(q, p) ==
  LET new == [q EXCEPT !.tail = (@ + 1) % q.cap,
                       !.slot = [i \in DOMAIN @ \cup {q.tail} |-> IF i = q.tail THEN p ELSE @[i]]]
  IN IF new.head = new.tail THEN Expanded(new) ELSE new

Size(s, b) == 256 * Value(s, b[1]) + Value(s, b[2])
Rest(b, n) == SubSeq(b, n + 1, Len(b))

\* save_uncomplete: in front of the others.
Saved(st, uc) == [st EXCEPT !.un = <<uc>> \o @]
Uncomplete(s, read, size, header, data) ==
  [id |-> s, read |-> read, size |-> size, header |-> header, data |-> data]

\* push_more: all packages of b, and what is left of it.
RECURSIVE PushMore(_, _, _)
PushMore(st, s, b) ==
  IF Len(b) = 1 THEN Saved(st, Uncomplete(s, -1, 0, Value(s, b[1]), <<>>))
  ELSE LET size == Size(s, b)
           data == Rest(b, 2)
           new == [st EXCEPT !.q = PushData(@, [id |-> s, data |-> SubSeq(data, 1, size)])]
       IN IF Len(data) < size THEN Saved(st, Uncomplete(s, Len(data), size, 0, data))
          ELSE IF Len(data) = size THEN new ELSE PushMore(new, s, Rest(data, size))

NoPackage == [type |-> "none"]
More == [type |-> "more"]
One(s, data) == [type |-> "data", id |-> s, data |-> data]

\* filter_data_ with an uncomplete package: fill it.
Filled(st, uc, s, b) ==
  LET was == IF uc.read >= 0 THEN uc
             ELSE [uc EXCEPT !.read = 0, !.size = 256 * uc.header + Value(s, b[1])]
      data == IF uc.read >= 0 THEN b ELSE Rest(b, 1)
      need == was.size - was.read
      whole == was.data \o SubSeq(data, 1, need)
  IN IF Len(data) < need
     THEN <<Saved(st, [was EXCEPT !.read = @ + Len(data), !.data = @ \o data]), NoPackage>>
     ELSE IF Len(data) = need THEN <<st, One(s, whole)>>
     ELSE <<PushMore([st EXCEPT !.q = PushData(@, [id |-> s, data |-> whole])], s, Rest(data, need)), More>>

\* and without one.
Unfilled(st, s, b) ==
  IF Len(b) > 1 /\ Len(b) = 2 + Size(s, b) THEN <<st, One(s, Rest(b, 2))>>
  ELSE <<PushMore(st, s, b), IF Len(b) > 1 /\ Len(b) > 2 + Size(s, b) THEN More ELSE NoPackage>>

\* find_uncomplete, which takes it out.
Without(s) == SelectSeq(uncomplete, LAMBDA uc : uc.id # s)

Filter(s, b) ==
  LET mine == SelectSeq(uncomplete, LAMBDA uc : uc.id = s)
      st == [un |-> Without(s), q |-> queue]
  IN IF mine = <<>> THEN Unfilled(st, s, b) ELSE Filled(st, mine[1], s, b)

-----------------------------------------------------------------------------
(* The server.                                                             *)

\* dispatch_msg: a package of a client that was closed is dropped.
Dispatch(s, data) ==
  handled' = IF connection[s] = "true" THEN [handled EXCEPT ![s] = Append(@, data)] ELSE handled

\* A socket message with data: a package alone is handled in its own coroutine.
Data(s, n) ==
  /\ run = "idle" /\ phase[s] = "open" /\ came[s] + n <= Stream(s)
  /\ came' = [came EXCEPT ![s] = @ + n]
  /\ LET f == Filter(s, [i \in 1 .. n |-> came[s] + i])
     IN /\ uncomplete' = f[1].un /\ queue' = f[1].q
        /\ loops' = IF queue'.cap # queue.cap THEN 0 ELSE loops
        /\ IF f[2].type = "data" THEN Dispatch(s, f[2].data) ELSE UNCHANGED handled
        /\ run' = IF f[2].type = "more" THEN "queue" ELSE "forks"
  /\ UNCHANGED <<clientVars, forks>>

\* The handler returns, and the loop goes on; or it yields or throws, and the
\* coroutine does not.
HandlerEnds ==
  \/ run' = "loop" /\ UNCHANGED loops
  \/ run' = "forks" /\ loops < MaxBlocked /\ loops' = loops + 1
  \/ run' = "forks" /\ UNCHANGED loops

\* netpack.pop, and the handler.
Pop ==
  LET p == queue.slot[queue.head]
  IN /\ queue' = [queue EXCEPT !.head = (@ + 1) % queue.cap,
                              !.slot = [i \in DOMAIN @ \ {queue.head} |-> @[i]]]
     /\ Dispatch(p.id, p.data)
     /\ HandlerEnds

IsEmpty == queue.head = queue.tail

\* No other coroutine is made.
DispatchQueue_Alone ==
  /\ run = "queue"
  /\ IF IsEmpty THEN run' = "forks" /\ UNCHANGED <<queue, handled, loops>> ELSE Pop
  /\ UNCHANGED <<clientVars, uncomplete, came, forks>>

\* dispatch_queue up to its loop: another one is forked before the handler is called.
DispatchQueue ==
  /\ run = "queue"
  /\ IF IsEmpty THEN run' = "forks" /\ UNCHANGED <<queue, handled, loops, forks>>
     ELSE forks' = forks + 1 /\ Pop
  /\ UNCHANGED <<clientVars, uncomplete, came>>

\* The loop of dispatch_queue.
Loop ==
  /\ run = "loop"
  /\ IF IsEmpty THEN run' = "forks" /\ UNCHANGED <<queue, handled, loops>> ELSE Pop
  /\ UNCHANGED <<clientVars, uncomplete, came, forks>>

\* What was forked runs when the coroutine that ran does no more.
Forks ==
  /\ run = "forks"
  /\ IF forks > 0 THEN forks' = forks - 1 /\ run' = "queue" ELSE run' = "idle" /\ UNCHANGED forks
  /\ UNCHANGED <<clientVars, packVars, loops, handled>>

\* A handler that yielded returns.
Resume ==
  /\ run = "idle" /\ loops > 0 /\ loops' = loops - 1 /\ run' = "loop"
  /\ UNCHANGED <<clientVars, packVars, forks, handled>>

\* MSG.open.
Open(s) ==
  /\ run = "idle" /\ phase[s] = "none"
  /\ IF client_number >= maxclient
     THEN phase' = [phase EXCEPT ![s] = "refused"] /\ UNCHANGED <<connection, client_number>>
     ELSE /\ phase' = [phase EXCEPT ![s] = "open"]
          /\ connection' = [connection EXCEPT ![s] = "true"]
          /\ client_number' = client_number + 1
  /\ UNCHANGED <<packVars, run, loops, forks, handled>>

\* gateserver.closeclient, by a command or by a handler.
CloseClient(s) ==
  /\ run \in {"idle", "loop"} /\ connection[s] = "true"
  /\ connection' = [connection EXCEPT ![s] = "false"]
  /\ UNCHANGED <<client_number, phase, packVars, run, loops, forks, handled>>

\* A socket message with the end: close_uncomplete, and handler.disconnect, which may yield.
Close(s) ==
  /\ run = "idle" /\ phase[s] \in {"open", "refused"}
  /\ phase' = [phase EXCEPT ![s] = "ends"]
  /\ uncomplete' = Without(s)
  /\ UNCHANGED <<queue, came, connection, client_number, run, loops, forks, handled>>

\* close_fd.
CloseFd(s) ==
  /\ run = "idle" /\ phase[s] = "ends"
  /\ phase' = [phase EXCEPT ![s] = "over"]
  /\ connection' = [connection EXCEPT ![s] = "nil"]
  /\ client_number' = IF connection[s] # "nil" THEN client_number - 1 ELSE client_number
  /\ UNCHANGED <<packVars, run, loops, forks, handled>>

Next ==
  \/ DispatchQueue \/ Loop \/ Forks \/ Resume
  \/ \E s \in Fd : \/ \E n \in 1 .. Stream(s) : Data(s, n)
                   \/ Open(s) \/ CloseClient(s) \/ Close(s) \/ CloseFd(s)
-----------------------------------------------------------------------------
(* Properties.                                                             *)

\* The handler is called with the packages of a client, whole and in the order they
\* came; when the server is at rest with all of them, though other handlers yielded or
\* threw, and though the client may be closed while its packages wait.
PackagesHandled ==
  \A s \in Fd :
    LET full == [k \in 1 .. Cardinality(Complete(s, came[s])) |-> Contents(s, k)]
    IN IsPrefix(handled[s], full) /\ (run = "idle" /\ connection[s] = "true" => handled[s] = full)

\* What came of a package is kept for a client that may send the rest, once.
UncompleteOwned ==
  \A i, j \in DOMAIN uncomplete :
    phase[uncomplete[i].id] = "open" /\ (uncomplete[i].id = uncomplete[j].id => i = j)

\* Clients are counted until their end has come, those too that were closed here, and
\* those that were refused never.
ClientsCounted ==
  /\ client_number = Cardinality({s \in Fd : connection[s] # "nil"})
  /\ client_number <= maxclient
  /\ \A s \in Fd : phase[s] \in {"none", "refused", "over"} => connection[s] = "nil"

\* A client's packages, what came of the next one and the client itself are there from
\* its acceptance to its end.
ClientsServed == PackagesHandled /\ UncompleteOwned /\ ClientsCounted
=============================================================================
