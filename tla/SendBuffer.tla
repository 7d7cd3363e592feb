----------------------------- MODULE SendBuffer -----------------------------
(***************************************************************************)
(* What mtask-src/socket_server.c does to send the packages of one socket: *)
(* two lists by priority, written when the socket is writable, as many     *)
(* bytes at a time as the kernel takes, or whole packages on UDP; a close  *)
(* waits for the lists.                                                    *)
(***************************************************************************)
EXTENDS Integers, Sequences, SequencesExt

CONSTANTS
  MaxPackage,     \* bound: packages of a behaviour
  MaxSize         \* bound: bytes of a package

VARIABLES
  protocol,       \* TCP or UDP
  type,           \* of the socket
  high, low,      \* packages with the bytes they have left
  wb_size,
  writing,        \* sp_write is on
  broken,         \* the connection failed
  given,          \* what send_socket took on: size and priority of each package
  wire            \* the packages the kernel took bytes of, and how many

vars == <<protocol, type, high, low, wb_size, writing, broken, given, wire>>

HIGH == "high"
LOW == "low"

\* A connection, being made or made, or a UDP socket.
Init ==
  /\ protocol \in {"TCP", "UDP"}
  /\ type \in {"CONNECTING", "CONNECTED"} /\ (protocol = "UDP" => type = "CONNECTED")
  /\ high = <<>> /\ low = <<>> /\ wb_size = 0
  /\ writing = (type = "CONNECTING")
  /\ broken = FALSE /\ given = <<>> /\ wire = <<>>

Bytes(list) == FoldLeft(LAMBDA sum, b : sum + b.left, 0, list)

\* A list after the kernel took n bytes of it: whole packages, then a part of one.
Remaining(list, n) ==
  FoldLeft(LAMBDA acc, b : IF acc.n >= b.left THEN [acc EXCEPT !.n = @ - b.left]
                           ELSE [n |-> 0, rest |-> Append(acc.rest, [b EXCEPT !.left = @ - acc.n])],
           [n |-> n, rest |-> <<>>], list).rest

Whole(b) == b.left = given[b.package].size
Allowed(list, n) == protocol = "UDP" => \A b \in ToSet(Remaining(list, n)) : Whole(b)

\* The wire after k bytes more of a package.
Wired(w, package, k) ==
  IF k = 0 THEN w
  ELSE IF w # <<>> /\ Last(w).package = package
       THEN [w EXCEPT ![Len(w)].n = @ + k]
       ELSE Append(w, [package |-> package, n |-> k])

\* The wire after n bytes of a list.
ListWired(w, list, n) ==
  FoldLeft(LAMBDA acc, b : LET k == IF acc.n >= b.left THEN b.left ELSE acc.n
                           IN [n |-> acc.n - k, w |-> Wired(acc.w, b.package, k)],
           [n |-> n, w |-> w], list).w

\* Only the high list is looked at.
send_buffer_empty_High == high = <<>>

send_buffer_empty == high = <<>> /\ low = <<>>

\* force_close frees the lists.
ForceClose ==
  /\ type' = "INVALID" /\ high' = <<>> /\ low' = <<>> /\ writing' = FALSE
  /\ UNCHANGED <<protocol, wb_size, given>>

-----------------------------------------------------------------------------
New(size, priority) == Len(given) < MaxPackage /\ given' = Append(given, [size |-> size, priority |-> priority])
Buffer(left) == [package |-> Len(given) + 1, left |-> left]

\* append_sendbuffer and its variants count what is left to send.
Added(size, left) == wb_size' = wb_size + left

\* send_socket writes at once when nothing waits: what the kernel does not take
\* of a TCP package goes to the high list, whatever its priority.
SendNow(size, priority) ==
  /\ type = "CONNECTED" /\ send_buffer_empty
  /\ New(size, priority)
  /\ \E n \in IF protocol = "TCP" THEN 0 .. size ELSE {0, size} :
       /\ wire' = Wired(wire, Len(given) + 1, n)
       /\ IF n = size THEN UNCHANGED <<high, low, wb_size, writing>>
          ELSE /\ IF protocol = "TCP" \/ priority = HIGH
                  THEN high' = Append(high, Buffer(size - n)) /\ UNCHANGED low
                  ELSE low' = Append(low, Buffer(size)) /\ UNCHANGED high
               /\ Added(size, size - n)
               /\ writing' = TRUE
  /\ UNCHANGED <<protocol, type, broken>>

\* send_socket puts a package behind those that wait.
SendLater(size, priority) ==
  /\ type = "CONNECTING" \/ (type = "CONNECTED" /\ ~send_buffer_empty)
  /\ New(size, priority)
  /\ IF priority = HIGH THEN high' = Append(high, Buffer(size)) /\ UNCHANGED low
                        ELSE low' = Append(low, Buffer(size)) /\ UNCHANGED high
  /\ Added(size, size)
  /\ UNCHANGED <<protocol, type, writing, broken, wire>>

\* report_connect stops waiting for the socket to be writable.
Connected_Quiet ==
  /\ type = "CONNECTING"
  /\ type' = "CONNECTED" /\ writing' = FALSE
  /\ UNCHANGED <<protocol, high, low, wb_size, broken, given, wire>>

\* report_connect.
Connected ==
  /\ type = "CONNECTING"
  /\ type' = "CONNECTED" /\ writing' = ~send_buffer_empty
  /\ UNCHANGED <<protocol, high, low, wb_size, broken, given, wire>>

\* The connection fails, a read ends or fails, or a write fails.
Broken ==
  /\ type # "INVALID"
  /\ ForceClose /\ broken' = TRUE /\ UNCHANGED wire

\* raise_uncomplete: a package that was sent in part becomes the high list.
Raised(list) ==
  IF list # <<>> /\ ~Whole(Head(list)) THEN high' = <<Head(list)>> /\ low' = Tail(list)
  ELSE high' = <<>> /\ low' = list

\* Steps 1 to 3 of send_buffer: the high list, and then, if it is empty, the low.
SendLists(n, m) ==
  /\ m > 0 => n = Bytes(high)
  /\ IF n = Bytes(high) THEN Raised(Remaining(low, m))
                        ELSE high' = Remaining(high, n) /\ UNCHANGED low
  /\ wire' = ListWired(ListWired(wire, high, n), low, m)
  /\ wb_size' = wb_size - n - m

Taken == {<<n, m>> \in (0 .. Bytes(high)) \X (0 .. Bytes(low)) : Allowed(high, n) /\ Allowed(low, m)}

\* send_buffer for an event.
SendBuffer ==
  /\ writing /\ type \in {"CONNECTED", "HALFCLOSE"}
  /\ ~send_buffer_empty
  /\ \E t \in Taken : SendLists(t[1], t[2])
  /\ IF low = <<>> /\ high' = <<>> /\ type = "HALFCLOSE"
     THEN type' = "INVALID" /\ writing' = FALSE
     ELSE UNCHANGED type /\ writing' = (low # <<>> \/ high' # <<>>)
  /\ UNCHANGED <<protocol, broken, given>>

\* send_buffer for an event that finds both lists empty: step 4.
NothingToSend ==
  /\ writing /\ type \in {"CONNECTED", "HALFCLOSE"} /\ send_buffer_empty
  /\ IF type = "HALFCLOSE" THEN ForceClose /\ UNCHANGED <<broken, wire>>
     ELSE writing' = FALSE /\ UNCHANGED <<protocol, type, high, low, wb_size, broken, given, wire>>

\* close_socket when nothing waits.
CloseNow ==
  /\ type # "INVALID" /\ send_buffer_empty
  /\ ForceClose /\ UNCHANGED <<broken, wire>>

\* close_socket sends what it can and leaves the rest to events; a connection
\* that is not made takes nothing.
CloseLater ==
  /\ type # "INVALID" /\ ~send_buffer_empty
  /\ \E t \in Taken : /\ type = "CONNECTING" => t = <<0, 0>>
                      /\ SendLists(t[1], t[2])
  /\ type' = IF high' = <<>> /\ low' = <<>> THEN "INVALID" ELSE "HALFCLOSE"
  /\ writing' = (writing /\ type' # "INVALID")
  /\ UNCHANGED <<protocol, broken, given>>

Next ==
  \/ \E size \in 1 .. MaxSize, priority \in {HIGH, LOW} :
       SendNow(size, priority) \/ SendLater(size, priority)
  \/ Connected \/ Broken \/ SendBuffer \/ NothingToSend \/ CloseNow \/ CloseLater

Progress == SendBuffer /\ wire' # wire

\* A connection is made or fails, and the peer takes data in the end.
Spec == Init /\ [][Next]_vars /\ WF_vars(Connected) /\ WF_vars(NothingToSend) /\ WF_vars(Progress)
-----------------------------------------------------------------------------
(* Properties.                                                             *)

Wire(p) == {k \in DOMAIN wire : wire[k].package = p}
IsSent(p) == \E k \in Wire(p) : wire[k].n = given[p].size
Started(w, p) == \E k \in DOMAIN w : w[k].package = p

\* Types of the state.
TypeOK ==
  /\ protocol \in {"TCP", "UDP"}
  /\ type \in {"CONNECTING", "CONNECTED", "HALFCLOSE", "INVALID"}
  /\ \A b \in ToSet(high) \cup ToSet(low) : b.package \in DOMAIN given /\ b.left \in 1 .. MaxSize
  /\ writing \in BOOLEAN /\ broken \in BOOLEAN

\* The bytes of a package are together: none is begun before the last is complete.
PackagesWhole ==
  \A k \in DOMAIN wire : wire[k].n = given[wire[k].package].size
                         \/ (k = Len(wire) /\ protocol = "TCP")

\* Packages of one priority are sent in the order they were given, none twice.
OrderInPriority ==
  \A i, j \in DOMAIN wire : i < j =>
    /\ wire[i].package # wire[j].package
    /\ given[wire[i].package].priority = given[wire[j].package].priority
         => wire[i].package < wire[j].package

\* wb_size, which socket_server_send returns and the warning is about, is exact.
SizeExact == type # "INVALID" => wb_size = Bytes(high) + Bytes(low)

\* A package that waits with low priority is begun only when every package of
\* high priority is complete; one that found nothing waiting goes to the high list
\* with what is left of it.
HighFirst ==
  [][\A p \in DOMAIN given : (\E b \in ToSet(low) : b.package = p) /\ ~Started(wire, p) /\ Started(wire', p)
       => \A q \in DOMAIN given : given[q].priority = HIGH => IsSent(q)']_vars

\* A socket that its service closed, and whose connection did not fail, has sent
\* every package it took on.
ClosedAfterAll == type = "INVALID" /\ ~broken => \A p \in DOMAIN given : IsSent(p)

\* A package that was taken on is sent, or the socket is gone.
EverySent == []<>(type = "INVALID" \/ \A p \in DOMAIN given : IsSent(p))

\* What was given to a socket goes out whole and in order, is counted, and all of it is
\* sent before the socket ends, what is urgent first.
SentInOrder ==
  /\ [](TypeOK /\ PackagesWhole /\ OrderInPriority /\ SizeExact /\ ClosedAfterAll)
  /\ HighFirst /\ EverySent
=============================================================================
