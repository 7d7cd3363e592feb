------------------------------ MODULE Monitor -------------------------------
(***************************************************************************)
(* The monitor of one worker, mtask-src/mtask_monitor.c: the worker notes  *)
(* what it calls and counts, with no lock; the monitor thread, every five  *)
(* seconds, takes a count that has not changed for a callback that does    *)
(* not return.  An action is one access to a word that both use.           *)
(***************************************************************************)
EXTENDS Integers

CONSTANTS
  Ctx,            \* handles of services
  None,           \* no handle: 0
  MaxCalls        \* bound: callbacks of a behaviour

VARIABLES
  version, check_version, destination,
  wpc, callee,    \* where the worker is, and in which call
  mpc,            \* where the monitor thread is in mtask_monitor_check
  endless         \* the contexts that are marked

worker  == <<wpc, callee>>
monitor == <<check_version, mpc, endless>>
monitorVars    == <<version, destination, worker, monitor>>

\* mtask_monitor_new.
MonitorInit ==
  /\ version = 0 /\ check_version = 0 /\ destination = None
  /\ wpc = "idle" /\ callee = None /\ mpc = "idle" /\ endless = {}

-----------------------------------------------------------------------------
\* mtask_monitor_trigger before the callback: the words, and then the count.
Enter(h) ==
  /\ wpc = "idle" /\ version < 2 * MaxCalls
  /\ destination' = h /\ callee' = h
  /\ wpc' = "entering"
  /\ UNCHANGED <<version, monitor>>

Entered ==
  /\ wpc = "entering"
  /\ version' = version + 1
  /\ wpc' = "called"
  /\ UNCHANGED <<destination, callee, monitor>>

\* The worker counts and leaves the words as they are.
Exit_Kept ==
  /\ wpc = "called"
  /\ callee' = None
  /\ wpc' = "leaving"
  /\ UNCHANGED <<version, destination, monitor>>

\* The callback returns, if it does: mtask_monitor_trigger(sm, 0, 0).
Exit ==
  /\ wpc = "called"
  /\ destination' = None /\ callee' = None
  /\ wpc' = "leaving"
  /\ UNCHANGED <<version, monitor>>

Exited ==
  /\ wpc = "leaving"
  /\ version' = version + 1
  /\ wpc' = "idle"
  /\ UNCHANGED <<destination, callee, monitor>>

\* The command ENDLESS of the service that is called.
Endless ==
  /\ wpc = "called" /\ callee \in endless
  /\ endless' = endless \ {callee}
  /\ UNCHANGED <<version, destination, worker, check_version, mpc>>

\* mtask_monitor_check compares; every word is read again where it is used.
Check ==
  /\ mpc = "idle"
  /\ mpc' = IF version = check_version THEN "same" ELSE "changed"
  /\ UNCHANGED <<version, destination, worker, check_version, endless>>

Changed ==
  /\ mpc = "changed"
  /\ check_version' = version
  /\ mpc' = "idle"
  /\ UNCHANGED <<version, destination, worker, endless>>

Same ==
  /\ mpc = "same"
  /\ mpc' = IF destination = None THEN "idle" ELSE "report"
  /\ UNCHANGED <<version, destination, worker, check_version, endless>>

\* mtask_context_endless; no context has handle 0.
Report ==
  /\ mpc = "report"
  /\ endless' = endless \cup ({destination} \ {None})
  /\ mpc' = "idle"
  /\ UNCHANGED <<version, destination, worker, check_version>>

MonitorThread == Check \/ Changed \/ Same \/ Report
MonitorNext == (\E h \in Ctx : Enter(h)) \/ Entered \/ Exit \/ Exited \/ Endless \/ MonitorThread

\* The monitor thread goes on; a callback may never return.
MonitorSpec == MonitorInit /\ [][MonitorNext]_monitorVars /\ WF_monitorVars(MonitorThread) /\ WF_monitorVars(Entered)
-----------------------------------------------------------------------------
(* Properties.                                                             *)

\* A callback that does not return marks its service, whatever the worker did
\* before and at whatever moments the monitor thread looked.
EndlessIsReported == \A h \in Ctx : []<>(callee # h \/ h \in endless)

\* A service is marked only while this worker calls it or is about to, and not
\* when it has returned, though the word may be that of a later call than the one
\* whose count was compared.
ReportIsCurrent == [][\A h \in endless' \ endless : callee = h]_monitorVars

=============================================================================
