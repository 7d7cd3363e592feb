------------------------------ MODULE ServiceMgr ------------------------------
(***************************************************************************)
(* service/service_mgr.lua: unique services.  One name, the global manager *)
(* SERVICE that launches it and managers of other nodes that ask the       *)
(* global one on behalf of their clients.  What a coroutine does between   *)
(* two yields is one step.                                                 *)
(***************************************************************************)
EXTENDS Integers, Sequences, SequencesExt

CONSTANTS
  Client, Remote,   \* who asks, and the managers of other nodes
  SERVICE,        \* the global manager
  Manager         \* the manager each client asks

ASSUME ManagerAssumption ==
  /\ Client \cap Remote = {} /\ SERVICE \notin Client \cup Remote
  /\ Manager \in [Client -> Remote \cup {SERVICE}]

VARIABLES
  service,    \* nil, a table, a handle or an error, in every manager
  launch,     \* s.launch of the table
  waiting,    \* the coroutines in the table
  command,    \* what each client asks for
  asking,     \* what its coroutine in the manager does, or what it was answered
  launched    \* how often newservice was called

smVars == <<service, launch, waiting, command, asking, launched>>

Asker == Client \cup Remote
Asked(a) == IF a \in Remote THEN SERVICE ELSE Manager[a]
Reply == {"handle", "error"}

MgrInit ==
  /\ service = [m \in Remote \cup {SERVICE} |-> "nil"]
  /\ launch = [m \in Remote \cup {SERVICE} |-> FALSE]
  /\ waiting = [m \in Remote \cup {SERVICE} |-> <<>>]
  /\ command = [a \in Asker |-> "none"]
  /\ asking = [a \in Asker |-> "idle"]
  /\ launched = 0

\* GLAUNCH or GQUERY.
Ask(c, what) ==
  /\ asking[c] = "idle"
  /\ command' = [command EXCEPT ![c] = what] /\ asking' = [asking EXCEPT ![c] = "asked"]
  /\ UNCHANGED <<service, launch, waiting, launched>>

\* waitfor has a function to run: only a query to the global manager has none.
Func(a) == Asked(a) \in Remote \/ command[a] = "LAUNCH"

\* It is not tested.
Launches_Again(a) == Func(a)

\* s.launch is tested before request is called, which yields.
Launches(a) == ~launch[Asked(a)] /\ Func(a)

Known(a) ==
  /\ asking[a] = "asked" /\ service[Asked(a)] \in Reply
  /\ asking' = [asking EXCEPT ![a] = service[Asked(a)]]
  /\ UNCHANGED <<service, launch, waiting, command, launched>>

Open(m) == service' = [service EXCEPT ![m] = "table"]

\* waitfor runs the function: newservice, or the same question to the global manager.
Run(a) ==
  /\ asking[a] = "asked" /\ service[Asked(a)] \in {"nil", "table"} /\ Launches(a)
  /\ Open(Asked(a)) /\ launch' = [launch EXCEPT ![Asked(a)] = TRUE]
  /\ IF Asked(a) = SERVICE
     THEN /\ launched' = launched + 1
          /\ asking' = [asking EXCEPT ![a] = "requests"]
          /\ UNCHANGED command
     ELSE /\ asking' = [asking EXCEPT ![a] = "requests", ![Asked(a)] = "asked"]
          /\ command' = [command EXCEPT ![Asked(a)] = command[a]]
          /\ UNCHANGED launched
  /\ UNCHANGED waiting

\* waitfor waits.
Wait(a) ==
  /\ asking[a] = "asked" /\ service[Asked(a)] \in {"nil", "table"} /\ ~Launches(a)
  /\ Open(Asked(a)) /\ waiting' = [waiting EXCEPT ![Asked(a)] = Append(@, a)]
  /\ asking' = [asking EXCEPT ![a] = "waits"]
  /\ UNCHANGED <<launch, command, launched>>

\* What request keeps.  The global manager answers nil for an error, and a handle
\* nil, which request takes for a success, leaves no entry in the other manager.
Outcome(m, how) == IF how = "error" /\ m # SERVICE THEN "nil" ELSE how

Woken(m) == ToSet(waiting[m])

\* The end of request, in the coroutine of a.
Request(a, how) ==
  LET m == Asked(a)
  IN /\ service' = [service EXCEPT ![m] = Outcome(m, how)]
     /\ launch' = [launch EXCEPT ![m] = FALSE] /\ waiting' = [waiting EXCEPT ![m] = <<>>]
     /\ asking' = [b \in Asker |-> IF b = a THEN how
                                  ELSE IF b \in Woken(m) THEN "woken" ELSE asking[b]]
     /\ UNCHANGED <<command, launched>>

\* newservice returns or fails.
Launched(a) ==
  asking[a] = "requests" /\ Asked(a) = SERVICE /\ \E how \in Reply : Request(a, how)

\* The global manager answers, and may be asked again.
Replied(a) ==
  LET m == Asked(a)
  IN /\ asking[a] = "requests" /\ m # SERVICE /\ asking[m] \in Reply
     /\ Request(a, asking[m])

\* mtask.wait returns in waitfor.
WaitforResumes(a) ==
  /\ asking[a] = "woken"
  /\ asking' = [asking EXCEPT ![a] = IF service[Asked(a)] = "handle" THEN "handle" ELSE "error"]
  /\ UNCHANGED <<service, launch, waiting, command, launched>>

MgrStep(a) == Known(a) \/ Run(a) \/ Wait(a) \/ Launched(a) \/ Replied(a) \/ WaitforResumes(a)

\* What goes on once it was asked for.
MgrProgress == \E a \in Asker : MgrStep(a)

MgrNext == MgrProgress \/ \E c \in Client, what \in {"LAUNCH", "QUERY"} : Ask(c, what)

MgrSpec == MgrInit /\ [][MgrNext]_smVars
-----------------------------------------------------------------------------
(* Properties.                                                             *)

\* A unique service is launched once, however many ask for it and wherever.
LaunchedOnce == launched <= 1

\* All are answered alike, those that came before the launch, during and after it.
AnswersAgree == \A a, b \in Asker : {asking[a], asking[b]} \subseteq Reply => asking[a] = asking[b]

\* One service is launched, and all are told of it alike.
OneForAll == LaunchedOnce /\ AnswersAgree

\* Once the global manager is launching everyone who has asked is answered, through
\* whichever manager.  Without a launch a query may wait for ever, and so may
\* the launches that its manager then takes for the same question.
AllAnswered == []<>(launched = 0 \/ \A c \in Client : asking[c] \in Reply \cup {"idle"})
=============================================================================
