----------------------------- MODULE TimerWheel -----------------------------
(***************************************************************************)
(* The timer of mtask-src/mtask_timer.c: lists of nodes by how far off they*)
(* are, the nearest by tick and four levels of coarser ones, moved down as *)
(* time goes on.  Workers set timers at any moment at which the timer      *)
(* thread does not have the lock, and so also while it dispatches.  Ticks  *)
(* are counted in a word that wraps, as long as the levels reach.          *)
(***************************************************************************)
EXTENDS Integers, Sequences, SequencesExt

CONSTANTS
  Timer,                    \* the (handle, session) pairs of timers
  TIME_NEAR, TIME_LEVEL,    \* slots of near and of each level
  MaxDelay,                 \* bound: the longest time each timer is set for
  MaxDiff                   \* bound: ticks the clock is ahead at one mtask_updatetime

\* Ticks of one slot of level l; the word is 2^32, and a time is an int.
Span[l \in 0 .. 4] == IF l = 0 THEN TIME_NEAR ELSE Span[l - 1] * TIME_LEVEL
Word == Span[4]

ASSUME TimerAssumption ==
  /\ TIME_NEAR \in Nat \ {0, 1} /\ TIME_LEVEL \in Nat \ {0, 1} /\ MaxDiff \in Nat
  /\ \A e \in Timer : MaxDelay[e] \in Nat /\ 2 * MaxDelay[e] <= Word

VARIABLES
  list,       \* near and t: <<Near, i>> is near[i], <<l, i>> is t[l][i]
  time,       \* T->time
  timer_pc,   \* where the timer thread is in timer_update
  batch,      \* the list dispatch_list is going through
  todo,       \* timer_updates left in this mtask_updatetime
  fired       \* the last timer whose message was pushed

timerVars == <<list, time, timer_pc, batch, todo, fired>>

Near == -1
Places == ({Near} \X (0 .. TIME_NEAR - 1)) \cup ((0 .. 3) \X (0 .. TIME_LEVEL - 1))

\* timer_create_timer.
TimerInit ==
  /\ list = [p \in Places |-> <<>>]
  /\ time = 0 /\ timer_pc = "idle" /\ batch = <<>> /\ todo = 0 /\ fired = <<>>

\* add_node: the list for an expiry, the finest whose round now is in.
Place(expire, now) ==
  IF expire \div TIME_NEAR = now \div TIME_NEAR THEN <<Near, expire % TIME_NEAR>>
  ELSE LET level == CHOOSE l \in 0 .. 3 :
             /\ l = 3 \/ expire \div Span[l + 1] = now \div Span[l + 1]
             /\ \A k \in 0 .. l - 1 : expire \div Span[k + 1] # now \div Span[k + 1]
       IN <<level, (expire \div Span[level]) % TIME_LEVEL>>

\* link puts a node first.
AddNode_First(ls, node, now) ==
  [ls EXCEPT ![Place(node.expire, now)] = <<node>> \o @]

\* add_node and link: a node goes to the end of its list.
AddNode(ls, node, now) ==
  [ls EXCEPT ![Place(node.expire, now)] = Append(@, node)]

\* The nodes of a list that belong to place p now, in their order.
Going(nodes, p, now) ==
  LET f[n \in 0 .. Len(nodes)] ==
        IF n = 0 THEN <<>>
        ELSE IF Place(nodes[n].expire, now) = p THEN Append(f[n - 1], nodes[n]) ELSE f[n - 1]
  IN f[Len(nodes)]

\* move_list: the nodes of a list are added again.
MoveList(ls, p, now) ==
  [q \in Places |-> (IF q = p THEN <<>> ELSE ls[q]) \o Going(ls[p], q, now)]

\* The wrap of the clock moves nothing.
Shifted_NoWrap(ls, ct) ==
  LET Turned == {l \in 0 .. 3 : ct % Span[l] = 0 /\ (ct \div Span[l]) % TIME_LEVEL # 0}
  IN IF Turned = {} THEN ls
     ELSE LET l == CHOOSE l \in Turned : TRUE
          IN MoveList(ls, <<l, (ct \div Span[l]) % TIME_LEVEL>>, ct)

\* timer_shift at its new time: the coarsest slot that starts now is moved down.
Shifted(ls, ct) ==
  LET Turned == {l \in 0 .. 3 : ct % Span[l] = 0 /\ (ct \div Span[l]) % TIME_LEVEL # 0}
  IN IF ct = 0 THEN MoveList(ls, <<3, 0>>, ct)
     ELSE IF Turned = {} THEN ls
     ELSE LET l == CHOOSE l \in Turned : TRUE
          IN MoveList(ls, <<l, (ct \div Span[l]) % TIME_LEVEL>>, ct)

SlotOf(now) == <<Near, now % TIME_NEAR>>

IsIn(e, s) == \E i \in DOMAIN s : s[i].timer = e
IsSet(e) == IsIn(e, batch) \/ \E p \in Places : IsIn(e, list[p])

Expiry(d) == (d + time) % Word

\* mtask_timeout with a time of 0: the message is pushed at once.
TimeoutNow(e) ==
  /\ ~IsSet(e)
  /\ fired' = <<e>>
  /\ UNCHANGED <<list, time, timer_pc, batch, todo>>

\* mtask_timeout with a time, by whichever worker: an int above 0.
Timeout(e, d) ==
  /\ ~IsSet(e)
  /\ list' = AddNode(list, [timer |-> e, expire |-> Expiry(d)], time)
  /\ UNCHANGED <<time, timer_pc, batch, todo, fired>>

\* mtask_updatetime finds the clock some ticks on; a clock that went back costs
\* no ticks.  The wall clock, current and starttime, has no part in timers.
UpdateTime ==
  /\ timer_pc = "idle" /\ todo = 0
  /\ todo' \in 1 .. MaxDiff
  /\ UNCHANGED <<list, time, timer_pc, batch, fired>>

\* timer_execute has the lock and takes the list of the current tick, if any,
\* to go through it without the lock; if there is none timer_update ends.
Execute(ls) ==
  /\ batch' = ls[SlotOf(time')]
  /\ list' = [ls EXCEPT ![SlotOf(time')] = <<>>]
  /\ timer_pc' = IF batch' = <<>> THEN "idle" ELSE "shifted"
  /\ UNCHANGED fired

\* timer_shift and the second timer_execute, without a break between them.
Shift ==
  /\ time' = (time + 1) % Word
  /\ todo' = todo - 1
  /\ Execute(Shifted(list, (time + 1) % Word))

\* The list at the current slot before the shift, if it ever has a node.
ExecuteFirst ==
  /\ batch' = list[SlotOf(time)]
  /\ list' = [list EXCEPT ![SlotOf(time)] = <<>>]
  /\ timer_pc' = "unshifted"
  /\ UNCHANGED <<time, todo, fired>>

\* timer_update locks, or timer_execute does again, before the shift.
BeforeShift ==
  /\ timer_pc \in {"idle", "unshifted"} /\ batch = <<>>
  /\ timer_pc = "idle" => todo > 0
  /\ IF list[SlotOf(time)] # <<>> THEN ExecuteFirst ELSE Shift

\* dispatch_list pushes the message of one node.
DispatchList ==
  /\ batch # <<>>
  /\ fired' = <<Head(batch).timer>>
  /\ batch' = Tail(batch)
  /\ UNCHANGED <<list, time, timer_pc, todo>>

\* timer_execute locks again after the list and looks for what was added.
AfterShift ==
  /\ timer_pc = "shifted" /\ batch = <<>>
  /\ UNCHANGED <<time, todo>>
  /\ Execute(list)

TimerNext ==
  \/ \E e \in Timer : TimeoutNow(e) \/ \E d \in 1 .. MaxDelay[e] : Timeout(e, d)
  \/ UpdateTime \/ BeforeShift \/ DispatchList \/ AfterShift

TimerThread == UpdateTime \/ BeforeShift \/ DispatchList \/ AfterShift

\* The timer thread runs and the clock goes on.
TimerSpec == TimerInit /\ [][TimerNext]_timerVars /\ WF_timerVars(TimerThread)
-----------------------------------------------------------------------------
(* Properties.                                                             *)

TimerNode == [timer : Timer, expire : 0 .. Word - 1]

\* Types of the state; an expiry is a tick of the word.
TimerTypeOK ==
  /\ list \in [Places -> Seq(TimerNode)]
  /\ time \in 0 .. Word - 1
  /\ timer_pc \in {"idle", "unshifted", "shifted"}
  /\ batch \in Seq(TimerNode)
  /\ todo \in 0 .. MaxDiff
  /\ fired \in {<<>>} \cup {<<e>> : e \in Timer}

\* Every node is, at every moment, in the list add_node would put it into now,
\* though timer_shift moves only one slot of one level at a tick.
InPlace == \A p \in Places : \A i \in DOMAIN list[p] : p = Place(list[p][i].expire, time)

\* The timer_execute before the shift never finds a node: what its comment calls
\* rare was dispatched at the tick before or is pushed by mtask_timeout itself.
NothingDueAtRest == timer_pc # "shifted" => list[SlotOf(time)] = <<>> /\ batch = <<>>

\* The nodes of each place that have to go off: the batch was of the current one.
Coming == [p \in Places |-> (IF p = SlotOf(time) THEN batch ELSE <<>>) \o list[p]]

\* The ticks a timer has to go, by the node it has in the list for its expiry.
LeftOf(e) ==
  LET Nodes == {node \in UNION {ToSet(Coming[p]) : p \in Places} : node.timer = e}
  IN IF Nodes = {} THEN -1 ELSE ((CHOOSE node \in Nodes : TRUE).expire - time) % Word

\* The pairs of nodes of one expiry, in the order of their list.
AheadIn(s) ==
  UNION {{<<s[i].timer, s[j].timer>> : j \in {k \in i + 1 .. Len(s) : s[k].expire = s[i].expire}}
         : i \in DOMAIN s}

\* Every timer goes off at its tick, across every move between levels and the
\* wrap of the clock, and timers of one tick in the order they were set.
D == INSTANCE Deadlines WITH
       Horizon <- Word,
       left <- [e \in Timer |-> LeftOf(e)],
       ahead <- UNION {AheadIn(Coming[p]) : p \in Places}
ImplementsDeadlines == D!Spec

\* Every timer goes off, whatever level it waits in.
EveryTimerFires == \A e \in Timer : []<>~IsSet(e)

\* Timers wait where they will be looked for, and none is overdue.
TimersInPlace == TimerTypeOK /\ InPlace /\ NothingDueAtRest
=============================================================================
