----------------------------- MODULE Deadlines ------------------------------
(***************************************************************************)
(* What timers promise: one set for d ticks goes off d ticks later, neither*)
(* earlier nor later, and those due at one tick in the order in which they *)
(* were set.  External to the code: TimerWheel implements it.              *)
(***************************************************************************)
EXTENDS Integers

CONSTANTS Timer, Horizon   \* no timer is set for Horizon ticks or more

VARIABLES
  left,    \* the ticks a timer has to go, Off if it is not set
  ahead,   \* <<x, y>>: both are due at one tick and x was set before y
  fired    \* the last timer that went off

vars == <<left, ahead, fired>>

Off == -1

Init == left = [e \in Timer |-> Off] /\ ahead = {} /\ fired = <<>>

\* A timer for no ticks goes off at once.
SetNow(e) == left[e] = Off /\ fired' = <<e>> /\ UNCHANGED <<left, ahead>>

\* The delay is any, and is what left' has for the timer.
Set(e) ==
  /\ left[e] = Off
  /\ left'[e] \in 1 .. Horizon - 1
  /\ left' = [left EXCEPT ![e] = left'[e]]
  /\ ahead' = ahead \cup {<<x, e>> : x \in {y \in Timer : left[y] = left'[e]}}
  /\ UNCHANGED fired

\* Time goes on only when all that are due have gone off.
Tick ==
  /\ \A e \in Timer : left[e] # 0
  /\ left' = [e \in Timer |-> IF left[e] = Off THEN Off ELSE left[e] - 1]
  /\ UNCHANGED <<ahead, fired>>

GoOff(e) ==
  /\ left[e] = 0
  /\ \A x \in Timer : <<x, e>> \notin ahead
  /\ left' = [left EXCEPT ![e] = Off]
  /\ ahead' = {pair \in ahead : pair[1] # e}
  /\ fired' = <<e>>

Next ==
  \/ \E e \in Timer : SetNow(e) \/ Set(e) \/ GoOff(e)
  \/ Tick

Spec == Init /\ [][Next]_vars
=============================================================================
