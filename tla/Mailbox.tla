------------------------------ MODULE Mailbox -------------------------------
(***************************************************************************)
(* What mtask promises a service: a mailbox that is served one message at  *)
(* a time and in order, from the end of its launch until it is closed; a   *)
(* mailbox that is closed hands nothing more to the service, accepts       *)
(* nothing more, and gives back every message it still has.                *)
(* Module Dispatch implements it with workers, queues and references.      *)
(***************************************************************************)
EXTENDS Sequences

CONSTANTS Service, Message, NULL

VARIABLES
  phase,     \* "none", "starting", "open", "closing" or "gone"
  inbox,     \* accepted and not yet handled
  busy       \* the message the service is handling, or NULL

vars == <<phase, inbox, busy>>

TypeOK ==
  /\ phase \in [Service -> {"none", "starting", "open", "closing", "gone"}]
  /\ inbox \in [Service -> Seq(Message)]
  /\ busy \in [Service -> Message \cup {NULL}]

Init ==
  /\ phase \in [Service -> {"none", "open"}]
  /\ inbox = [s \in Service |-> <<>>]
  /\ busy = [s \in Service |-> NULL]

Create(s) == /\ phase[s] = "none"
             /\ phase' = [phase EXCEPT ![s] = "starting"]
             /\ UNCHANGED <<inbox, busy>>

Open(s) == /\ phase[s] = "starting"
           /\ phase' = [phase EXCEPT ![s] = "open"]
           /\ UNCHANGED <<inbox, busy>>

Accept(s, m) == /\ phase[s] \in {"starting", "open"}
                /\ inbox' = [inbox EXCEPT ![s] = Append(@, m)]
                /\ UNCHANGED <<phase, busy>>

Handle(s) == /\ phase[s] = "open" /\ busy[s] = NULL /\ inbox[s] # <<>>
             /\ busy' = [busy EXCEPT ![s] = Head(inbox[s])]
             /\ inbox' = [inbox EXCEPT ![s] = Tail(@)]
             /\ UNCHANGED phase

Done(s) == /\ busy[s] # NULL
           /\ busy' = [busy EXCEPT ![s] = NULL]
           /\ UNCHANGED <<phase, inbox>>

Close(s) == /\ phase[s] \in {"starting", "open"} /\ busy[s] = NULL
            /\ phase' = [phase EXCEPT ![s] = "closing"]
            /\ UNCHANGED <<inbox, busy>>

GiveBack(s) == /\ phase[s] = "closing" /\ inbox[s] # <<>>
               /\ inbox' = [inbox EXCEPT ![s] = Tail(@)]
               /\ UNCHANGED <<phase, busy>>

Free(s) == /\ phase[s] = "closing" /\ inbox[s] = <<>>
           /\ phase' = [phase EXCEPT ![s] = "gone"]
           /\ UNCHANGED <<inbox, busy>>

Next == \E s \in Service :
          \/ Create(s) \/ Open(s) \/ (\E m \in Message : Accept(s, m))
          \/ Handle(s) \/ Done(s) \/ Close(s) \/ GiveBack(s) \/ Free(s)

\* A mailbox with messages is served or closed, and a closed one is emptied.
Fairness ==
  \A s \in Service :
    /\ WF_vars(inbox[s] # <<>> /\ (Handle(s) \/ Close(s)))
    /\ WF_vars(Done(s))
    /\ WF_vars(GiveBack(s) \/ Free(s))

Spec == Init /\ [][Next]_vars /\ Fairness
=============================================================================
