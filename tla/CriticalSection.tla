--------------------------- MODULE CriticalSection ---------------------------
(***************************************************************************)
(* mtask.queue, lualib/mtask/queue.lua: coroutines of one service take     *)
(* turns to run a function that may yield, call the queue again and fail.  *)
(* What a coroutine does between two yields is one step.                   *)
(***************************************************************************)
EXTENDS Integers, Sequences, SequencesExt

CONSTANTS
  Thread, Nobody,
  MaxRef,       \* bound: how deep calls nest
  MaxWaits      \* bound: calls that have to wait

ASSUME TurnAssumption == Nobody \notin Thread

VARIABLES
  current_thread, ref, thread_queue,
  thread_state,     \* threads are out, in, waiting, or woken and not resumed yet
  came, entered     \* those that had to wait and those that went on, in order

csVars == <<current_thread, ref, thread_queue, thread_state, came, entered>>

TurnInit ==
  /\ current_thread = Nobody /\ ref = 0 /\ thread_queue = <<>>
  /\ thread_state = [t \in Thread |-> "out"]
  /\ came = <<>> /\ entered = <<>>

Goto(t, where) == thread_state' = [thread_state EXCEPT ![t] = where]

\* Another thread is inside, or has been woken to go in.
Busy(t) == current_thread \notin {Nobody, t}

\* The call of a thread that has to wait.
Queue(t) ==
  /\ thread_state[t] = "out" /\ Busy(t) /\ Len(came) < MaxWaits
  /\ thread_queue' = Append(thread_queue, t)
  /\ Goto(t, "waiting")
  /\ came' = Append(came, t)
  /\ UNCHANGED <<current_thread, ref, entered>>

\* The call of a thread that need not wait, which may be inside already.
Enter(t) ==
  /\ thread_state[t] \in {"out", "in"} /\ ~Busy(t) /\ ref < MaxRef
  /\ current_thread' = t /\ ref' = ref + 1
  /\ Goto(t, "in")
  /\ UNCHANGED <<thread_queue, came, entered>>

\* mtask.wait returns.
WaitReturns(t) ==
  /\ thread_state[t] = "woken"
  /\ current_thread' = t /\ ref' = ref + 1
  /\ Goto(t, "in")
  /\ entered' = Append(entered, t)
  /\ UNCHANGED <<thread_queue, came>>

\* Nobody is current until the one that is woken runs.
Leave_Frees(t) ==
  /\ thread_state[t] = "in"
  /\ ref' = ref - 1
  /\ IF ref > 1 THEN UNCHANGED <<current_thread, thread_queue, thread_state>>
     ELSE /\ current_thread' = Nobody
          /\ thread_queue' = IF thread_queue = <<>> THEN <<>> ELSE Tail(thread_queue)
          /\ thread_state' = [u \in Thread |-> IF u = t THEN "out"
                                        ELSE IF thread_queue # <<>> /\ u = Head(thread_queue)
                                        THEN "woken" ELSE thread_state[u]]
  /\ UNCHANGED <<came, entered>>

\* The function returns or fails, and the next one is woken.
Leave(t) ==
  /\ thread_state[t] = "in"
  /\ ref' = ref - 1
  /\ IF ref > 1 THEN UNCHANGED <<current_thread, thread_queue, thread_state>>
     ELSE IF thread_queue = <<>>
     THEN current_thread' = Nobody /\ Goto(t, "out") /\ UNCHANGED thread_queue
     ELSE /\ current_thread' = Head(thread_queue) /\ thread_queue' = Tail(thread_queue)
          /\ thread_state' = [thread_state EXCEPT ![t] = "out", ![Head(thread_queue)] = "woken"]
  /\ UNCHANGED <<came, entered>>

TurnNext == \E t \in Thread : Queue(t) \/ Enter(t) \/ WaitReturns(t) \/ Leave(t)

TurnSpec == TurnInit /\ [][TurnNext]_csVars

\* One that is woken is resumed, as Scheduler shows, and functions return: the
\* outermost does so too, after any number of calls that nest in it.
TurnStep(t) == WaitReturns(t) \/ Leave(t)
Outermost(t) == ref = 1 /\ Leave(t)
-----------------------------------------------------------------------------
(* Properties.                                                             *)

\* One thread at a time is inside or on its way in, and the assertion ref == 0 of
\* one that was woken holds.
OneAtATime ==
  /\ \A t, u \in Thread : {thread_state[t], thread_state[u]} \subseteq {"in", "woken"} => t = u
  /\ \A t \in Thread : thread_state[t] = "woken" => ref = 0

\* Threads that had to wait go on in the order in which they called.
InTurn == IsPrefix(entered, came)

\* Threads enter alone, and in the order in which they came.
ServesInTurn == OneAtATime /\ InTurn

\* A thread that waits goes in.
EveryoneEnters == \A t \in Thread : []<>(thread_state[t] \notin {"waiting", "woken"})
=============================================================================
