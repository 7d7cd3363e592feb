----------------------------- MODULE LuaSocket ------------------------------
(***************************************************************************)
(* lualib/socket.lua: one TCP socket of a Lua service, whose coroutines    *)
(* start it, wait for data and close it, and the messages of the socket    *)
(* thread.  Between two messages coroutines run one at a time, those that  *)
(* were woken before the next message.                                     *)
(***************************************************************************)
EXTENDS Integers, Sequences, SequencesExt

CONSTANTS
  Co,             \* coroutines that use the socket
  SIZE,           \* bytes that socket.read asks for
  buffer_limit,
  MaxData,        \* bound: bytes that come
  MaxCalls,       \* bound: calls on the socket, and messages that resume a coroutine
  NULL

VARIABLES
  pool,           \* the socket is in socket_pool
  connected, co, closing, read_required, buffer,   \* its fields
  state,          \* of a coroutine: what it waits in
  run, woken,     \* the coroutine that runs; wakeup_session
  calls,
  server, asked,  \* the socket for the socket thread; close commands are in its pipe
  msgs, sent      \* messages for the service; bytes in them so far

fieldVars  == <<pool, connected, co, closing, read_required, buffer>>
serverVars == <<server, asked, msgs, sent>>
vars == <<fieldVars, state, run, woken, calls, serverVars>>

Kind    == {"some", "size", "line", "all", "block"}
Waiting == Kind \cup {"connect", "close", "closing"}

Init ==
  /\ pool = FALSE /\ connected = FALSE /\ co = NULL /\ closing = NULL
  /\ read_required = "none" /\ buffer = <<>>
  /\ state = [c \in Co |-> "idle"] /\ run = NULL /\ woken = {} /\ calls = 0
  /\ server = "new" /\ asked = FALSE /\ msgs = <<>> /\ sent = 0

-----------------------------------------------------------------------------
(* The coroutines.                                                         *)

HasLine == \E i \in DOMAIN buffer : buffer[i] = "newline"

\* A call that takes from the buffer what is there.
Satisfied(kind) ==
  CASE kind = "some" -> buffer # <<>>
    [] kind = "size" -> Len(buffer) >= SIZE
    [] kind = "line" -> HasLine
    [] OTHER -> FALSE

\* What it leaves; all is taken when there is not enough.
Rest(kind) ==
  CASE kind = "block" -> buffer
    [] kind = "size" /\ Satisfied("size") -> SubSeq(buffer, SIZE + 1, Len(buffer))
    [] kind = "line" /\ HasLine ->
         SubSeq(buffer, SelectInSeq(buffer, LAMBDA b : b = "newline") + 1, Len(buffer))
    [] OTHER -> <<>>

\* suspend: the coroutine waits in s.co, and the assertion that nobody else does.
Suspend(c, kind) ==
  /\ IF co = NULL THEN co' = c /\ state' = [state EXCEPT ![c] = kind]
     ELSE state' = [state EXCEPT ![c] = "failed"] /\ UNCHANGED co
  /\ run' = NULL

\* A coroutine is resumed by a message that is none of the socket's.
Begin(c) ==
  /\ run = NULL /\ woken = {} /\ state[c] = "idle" /\ calls < MaxCalls
  /\ run' = c /\ calls' = calls + 1
  /\ UNCHANGED <<fieldVars, state, woken, serverVars>>

\* It does something else, or ends.
Leave(c) ==
  /\ run = c /\ run' = NULL
  /\ UNCHANGED <<fieldVars, state, woken, calls, serverVars>>

\* socket.start.
Start(c) ==
  /\ run = c /\ server = "new"
  /\ server' = "starts" /\ pool' = TRUE
  /\ Suspend(c, "connect")
  /\ calls' = calls + 1
  /\ UNCHANGED <<connected, closing, read_required, buffer, woken, asked, msgs, sent>>

\* read, readline, readall and block, of a socket in the pool.
Read(c, kind) ==
  /\ run = c /\ pool /\ calls < MaxCalls /\ calls' = calls + 1
  /\ IF Satisfied(kind) \/ ~connected
     THEN /\ buffer' = Rest(kind)
          /\ UNCHANGED <<co, read_required, state, run>>
     ELSE IF read_required # "none"
     THEN /\ state' = [state EXCEPT ![c] = "failed"] /\ run' = NULL
          /\ UNCHANGED <<co, read_required, buffer>>
     ELSE /\ read_required' = kind
          /\ Suspend(c, kind)
          /\ UNCHANGED buffer
  /\ UNCHANGED <<pool, connected, closing, woken, serverVars>>

\* The end of close: the buffer is cleared.
Shutdown == pool' = FALSE /\ connected' = FALSE /\ buffer' = <<>>

\* socket.close.
Close(c) ==
  /\ run = c /\ pool /\ calls < MaxCalls /\ calls' = calls + 1
  /\ IF ~connected
     THEN Shutdown /\ UNCHANGED <<co, closing, state, run, asked>>
     ELSE /\ asked' = TRUE
          /\ IF co = NULL THEN Suspend(c, "close") /\ UNCHANGED closing
             ELSE /\ IF closing = NULL THEN closing' = c /\ state' = [state EXCEPT ![c] = "closing"]
                     ELSE state' = [state EXCEPT ![c] = "failed"] /\ UNCHANGED closing
                  /\ run' = NULL /\ UNCHANGED co
          /\ UNCHANGED <<pool, connected, buffer>>
  /\ UNCHANGED <<read_required, woken, server, msgs, sent>>

\* Who waits to close is left to the end of the socket.
AfterWait_Alone(c) == woken \ {c}

\* The end of suspend wakes who waits to close.
AfterWait(c) ==
  (woken \ {c}) \cup (IF state[c] # "closing" /\ closing # NULL /\ state[closing] = "closing"
                      THEN {closing} ELSE {})

\* dispatch_wakeup: what follows the wait.
Resume(c) ==
  /\ run = NULL /\ c \in woken
  /\ run' = c /\ state' = [state EXCEPT ![c] = "idle"]
  /\ woken' = AfterWait(c)
  /\ CASE state[c] \in {"close", "closing"} -> Shutdown
       [] state[c] = "connect" -> pool' = (pool /\ connected) /\ UNCHANGED <<connected, buffer>>
       [] OTHER -> buffer' = Rest(state[c]) /\ UNCHANGED <<pool, connected>>
  /\ UNCHANGED <<co, closing, read_required, calls, serverVars>>

-----------------------------------------------------------------------------
(* The messages.                                                           *)

\* wakeup.
Wakeup == co' = NULL /\ woken' = (IF co = NULL THEN woken ELSE woken \cup {co})

\* What data has to come for a coroutine to be woken.
Enough(read, b) ==
  CASE read \in {"some", "block"} -> TRUE
    [] read = "size" -> Len(b) >= SIZE
    [] read = "line" -> \E i \in DOMAIN b : b[i] = "newline"
    [] OTHER -> FALSE

\* socket_message[1].
Data(byte) ==
  LET full == Append(buffer, byte)
  IN IF read_required \notin {"some", "size", "block"} /\ Len(full) > buffer_limit
     THEN buffer' = <<>> /\ asked' = TRUE /\ UNCHANGED <<co, woken, read_required>>
     ELSE /\ buffer' = full /\ UNCHANGED asked
          /\ IF Enough(read_required, full) THEN read_required' = "none" /\ Wakeup
             ELSE UNCHANGED <<read_required, co, woken>>

\* socket_message[2], [3] and [5].
Message ==
  /\ run = NULL /\ woken = {} /\ msgs # <<>>
  /\ msgs' = Tail(msgs)
  /\ IF ~pool THEN UNCHANGED <<connected, co, read_required, buffer, woken, asked>>
     ELSE IF Head(msgs) \in {"byte", "newline"} THEN Data(Head(msgs)) /\ UNCHANGED connected
     ELSE /\ connected' = (Head(msgs) = "CONNECT")
          /\ Wakeup /\ UNCHANGED <<read_required, buffer, asked>>
  /\ UNCHANGED <<pool, closing, state, run, calls, server, sent>>

\* What the socket thread tells: SocketServer says in which order.
Tells(m, to) == msgs' = Append(msgs, m) /\ server' = to
Started ==
  /\ server = "starts" /\ (Tells("CONNECT", "open") \/ Tells("ERROR", "ended"))
  /\ UNCHANGED <<fieldVars, state, run, woken, calls, asked, sent>>
Received ==
  /\ server = "open" /\ sent < MaxData /\ sent' = sent + 1
  /\ \E byte \in {"byte", "newline"} : Tells(byte, "open")
  /\ UNCHANGED <<fieldVars, state, run, woken, calls, asked>>
PeerEnds ==
  /\ server = "open" /\ Tells("CLOSE", "ended")
  /\ UNCHANGED <<fieldVars, state, run, woken, calls, asked, sent>>
CloseCommand ==
  /\ asked /\ asked' = FALSE /\ Tells("CLOSE", "ended")
  /\ UNCHANGED <<fieldVars, state, run, woken, calls, sent>>

Call(c) == Start(c) \/ Close(c) \/ \E kind \in Kind : Read(c, kind)
Progress == \/ Message \/ CloseCommand
            \/ \E c \in Co : Resume(c) \/ Leave(c)

Next ==
  \/ Progress \/ Started \/ Received \/ PeerEnds
  \/ \E c \in Co : Begin(c) \/ Call(c)

\* The service handles its messages, and the socket thread its commands; coroutines yield.
Spec == Init /\ [][Next]_vars /\ WF_vars(Progress)
-----------------------------------------------------------------------------
(* Properties.                                                             *)

\* A socket was forgotten while a coroutine waits in s.co: socket.close ends so when a
\* reader that was woken by data waits again, and when the socket is being opened.
LeftBehind == ~pool /\ co # NULL

\* A coroutine that waits is woken, or the one that a message or a reader wakes; and
\* a reader is woken as soon as what it asked for has come.
WaiterKnown ==
  \A c \in Co \ woken :
    /\ state[c] \in Kind \cup {"connect", "close"} => co = c
    /\ state[c] = "closing" => closing = c /\ (co # NULL \/ woken # {})
    /\ state[c] \in Kind /\ pool => read_required = state[c] /\ ~Satisfied(state[c])

\* Nobody waits for a socket that has ended: its last message wakes a reader, the end
\* of the reader's wait wakes who closes, and what came before is read.
WaitersGoOn ==
  /\ [](LeftBehind \/ WaiterKnown)
  /\ []<>(LeftBehind \/ server # "ended" \/ \A c \in Co : state[c] \notin Waiting)

\* socket.lua:35, "socket.close() will wait last socket buffer operation before clear the
\* buffer": once it is cleared and forgotten nobody is inside of a read.
ReadersFirst == ~pool => \A c \in Co : state[c] \notin Kind \ {"block"}
=============================================================================
