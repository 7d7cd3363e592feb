------------------------------- MODULE Multicast -------------------------------
(***************************************************************************)
(* service/multicastd.lua on two nodes and one channel: near is the node   *)
(* that owns the channel, far another one that subscribes to it.  Packages *)
(* are shared by the subscribers of a node, with a reference count         *)
(* (lualib-src/mtask_lua_multicast.c), and run on other threads.           *)
(***************************************************************************)
EXTENDS Integers, Sequences, FiniteSets

CONSTANTS
  Near, Far,    \* services of the two nodes
  MaxOps,       \* bound: subscriptions and their ends
  MaxPub,       \* bound: messages published
  NULL

ASSUME GroupAssumption ==
  /\ IsFiniteSet(Near) /\ IsFiniteSet(Far) /\ Near \cap Far = {}
  /\ MaxOps \in Nat /\ MaxPub \in Nat
  /\ \A services \in SUBSET (Near \cup Far) : services # NULL

VARIABLES
  group,            \* channel[c] of a node: NULL or its subscribers
  channel_n,        \* channel_n[c]
  channel_remote,   \* of near: nil, and whether far is in the table
  toNear, toFar,    \* messages between the two multicastd, in order
  sub,              \* of a service: no, in the call of SUB, or yes
  pack,             \* per node, the packages of the messages
  loop,             \* of a node: the package publish sends, and whom to
  ops, pubs,
  overtaken         \* a USUBR was sent while a SUBR had no answer

mcVars == <<group, channel_n, channel_remote, toNear, toFar, sub, pack, loop, ops, pubs, overtaken>>

Node == {"near", "far"}
Of(s) == IF s \in Near THEN "near" ELSE "far"
Idle == [p |-> 0, rest |-> {}]
None == [state |-> "none", reference |-> 0, out |-> {}]

GroupInit ==
  /\ group = [d \in Node |-> IF d = "near" THEN {} ELSE NULL]
  /\ channel_n = [d \in Node |-> 0]
  /\ channel_remote = "nil"
  /\ toNear = <<>> /\ toFar = <<>>
  /\ sub = [s \in Near \cup Far |-> "no"]
  /\ pack = [d \in Node |-> [p \in 1 .. MaxPub |-> None]]
  /\ loop = [d \in Node |-> Idle]
  /\ ops = 0 /\ pubs = 0 /\ overtaken = FALSE

\* multicastd handles one message after the other; publish does not yield.
AtRest(d) == loop[d] = Idle

M(type, of) == [type |-> type, of |-> of]
Op == ops < MaxOps /\ ops' = ops + 1
packages == <<pack, loop, pubs>>

\* The end of SUB.
Joined(d, s) ==
  /\ group' = [group EXCEPT ![d] = (IF @ = NULL THEN {} ELSE @) \cup {s}]
  /\ channel_n' = [channel_n EXCEPT ![d] =
       IF group[d] = NULL THEN 1 ELSE IF s \in group[d] THEN @ ELSE @ + 1]

\* SUB on the node of the channel, of a service that may have subscribed already:
\* nothing happens when the channel was deleted.
SubNear(s) ==
  /\ s \in Near /\ AtRest("near") /\ Op
  /\ sub' = [sub EXCEPT ![s] = "yes"]
  /\ IF group["near"] = NULL THEN UNCHANGED <<group, channel_n>> ELSE Joined("near", s)
  /\ UNCHANGED <<channel_remote, toNear, toFar, packages, overtaken>>

\* SUB on another node, which may have to ask first.
SubFar(s) ==
  /\ s \in Far /\ sub[s] # "calls" /\ AtRest("far") /\ Op
  /\ IF group["far"] = NULL
     THEN /\ sub' = [sub EXCEPT ![s] = "calls"] /\ toNear' = Append(toNear, M("SUBR", s))
          /\ UNCHANGED <<group, channel_n>>
     ELSE /\ sub' = [sub EXCEPT ![s] = "yes"] /\ Joined("far", s)
          /\ UNCHANGED toNear
  /\ UNCHANGED <<channel_remote, toFar, packages, overtaken>>

ReadNear(type) == AtRest("near") /\ toNear # <<>> /\ Head(toNear).type = type
ReadFar(type) == AtRest("far") /\ toFar # <<>> /\ Head(toFar).type = type

\* SUBR.
Subr ==
  /\ ReadNear("SUBR") /\ toNear' = Tail(toNear)
  /\ channel_remote' = IF group["near"] = NULL THEN channel_remote ELSE "in"
  /\ toFar' = Append(toFar, M(IF group["near"] = NULL THEN "none" ELSE "nil", Head(toNear).of))
  /\ UNCHANGED <<group, channel_n, sub, ops, packages, overtaken>>

\* SUB goes on with the answer; there may be a channel by now.
SubGoesOn ==
  /\ \/ ReadFar("nil") /\ Joined("far", Head(toFar).of)
     \/ ReadFar("none") /\ UNCHANGED <<group, channel_n>>
  /\ toFar' = Tail(toFar)
  /\ sub' = [sub EXCEPT ![Head(toFar).of] = "yes"]
  /\ UNCHANGED <<channel_remote, toNear, ops, packages, overtaken>>

Calls == \E s \in Far : sub[s] = "calls"

\* The last subscriber of another node leaves without a word to the owner.
LeavesFar_Silent(s) ==
  /\ group' = [group EXCEPT !["far"] = IF @ = {s} THEN NULL ELSE @ \ {s}]
  /\ channel_n' = [channel_n EXCEPT !["far"] = @ - 1]
  /\ UNCHANGED <<toNear, overtaken>>

\* USUB of a subscriber on another node.
LeavesFar(s) ==
  /\ group' = [group EXCEPT !["far"] = IF @ = {s} THEN NULL ELSE @ \ {s}]
  /\ channel_n' = [channel_n EXCEPT !["far"] = @ - 1]
  /\ IF group["far"] = {s}
     THEN toNear' = Append(toNear, M("USUBR", NULL)) /\ overtaken' = (overtaken \/ Calls)
     ELSE UNCHANGED <<toNear, overtaken>>

\* USUB: the assertion of a channel that was deleted meanwhile fails.
Usub(s) ==
  /\ sub[s] = "yes" /\ AtRest(Of(s)) /\ Op
  /\ sub' = [sub EXCEPT ![s] = "no"]
  /\ IF group[Of(s)] = NULL \/ s \notin group[Of(s)]
     THEN UNCHANGED <<group, channel_n, toNear, overtaken>>
     ELSE IF s \in Far THEN LeavesFar(s)
     ELSE /\ group' = [group EXCEPT !["near"] = @ \ {s}]
          /\ channel_n' = [channel_n EXCEPT !["near"] = @ - 1]
          /\ UNCHANGED <<toNear, overtaken>>
  /\ UNCHANGED <<channel_remote, toFar, packages>>

\* USUBR: the assertion of a table that was deleted meanwhile fails.
Usubr ==
  /\ ReadNear("USUBR") /\ toNear' = Tail(toNear)
  /\ channel_remote' = IF channel_remote = "nil" THEN "nil" ELSE "out"
  /\ UNCHANGED <<group, channel_n, toFar, sub, ops, packages, overtaken>>

\* DEL, of a service of this node or passed on by the other.
Del ==
  /\ AtRest("near") /\ group["near"] # NULL
  /\ group' = [group EXCEPT !["near"] = NULL] /\ channel_n' = [channel_n EXCEPT !["near"] = 0]
  /\ channel_remote' = "nil"
  /\ toFar' = IF channel_remote = "in" THEN Append(toFar, M("DELR", NULL)) ELSE toFar
  /\ UNCHANGED <<toNear, sub, ops, packages, overtaken>>

\* DELR.
Delr ==
  /\ ReadFar("DELR") /\ toFar' = Tail(toFar)
  /\ group' = [group EXCEPT !["far"] = NULL] /\ channel_n' = [channel_n EXCEPT !["far"] = 0]
  /\ UNCHANGED <<channel_remote, toNear, sub, ops, packages, overtaken>>

-----------------------------------------------------------------------------
(* Packages.                                                               *)

\* publish: the package of a channel that is gone is freed at once.
Publish(d, p) ==
  IF group[d] = NULL
  THEN /\ pack' = [pack EXCEPT ![d][p] = [None EXCEPT !.state = "freed"]]
       /\ UNCHANGED loop
  ELSE /\ pack' = [pack EXCEPT ![d][p] =
                     [state |-> "live", reference |-> channel_n[d], out |-> {}]]
       /\ loop' = [loop EXCEPT ![d] = [p |-> p, rest |-> group[d]]]

\* PUB of a service of the node of the channel.
PubNear ==
  /\ AtRest("near") /\ pubs < MaxPub /\ pubs' = pubs + 1
  /\ Publish("near", pubs + 1)
  /\ UNCHANGED <<group, channel_n, channel_remote, toNear, toFar, sub, ops, overtaken>>

\* PUB on the other node: mc.remote takes the data of the package.
PubFar ==
  /\ AtRest("far") /\ pubs < MaxPub /\ pubs' = pubs + 1
  /\ toNear' = Append(toNear, M("PUB", pubs + 1))
  /\ UNCHANGED <<group, channel_n, channel_remote, toFar, sub, pack, loop, ops, overtaken>>

\* A message of the other node: mc.packremote makes a package of it.
PubRemote ==
  /\ \/ /\ ReadNear("PUB") /\ Publish("near", Head(toNear).of)
        /\ toNear' = Tail(toNear) /\ UNCHANGED toFar
     \/ /\ ReadFar("PUB") /\ Publish("far", Head(toFar).of)
        /\ toFar' = Tail(toFar) /\ UNCHANGED toNear
  /\ UNCHANGED <<group, channel_n, channel_remote, sub, ops, pubs, overtaken>>

\* The loop of publish: a message for one subscriber.
SendOne(d) ==
  /\ \E s \in loop[d].rest :
       /\ loop' = [loop EXCEPT ![d].rest = @ \ {s}]
       /\ pack' = [pack EXCEPT ![d][loop[d].p].out = @ \cup {s}]
  /\ UNCHANGED <<group, channel_n, channel_remote, toNear, toFar, sub, ops, pubs, overtaken>>

\* The end of publish: the data is read again for the other node.
SendRemote(d) ==
  /\ ~AtRest(d) /\ loop[d].rest = {}
  /\ loop' = [loop EXCEPT ![d] = Idle]
  /\ toFar' = IF d = "near" /\ channel_remote = "in"
              THEN Append(toFar, M("PUB", loop[d].p)) ELSE toFar
  /\ UNCHANGED <<group, channel_n, channel_remote, toNear, sub, pack, ops, pubs, overtaken>>

\* A package is freed when its last but one message is handled.
LastReader_Early(reference) == reference <= 1

\* mc_closelocal: the count after it is counted down.
LastReader(reference) == reference <= 0

\* A subscriber has handled its message, or drops it: mc.close.
Close(d, p, s) ==
  /\ s \in pack[d][p].out
  /\ pack' = [pack EXCEPT ![d][p] =
       [state |-> IF LastReader(@.reference - 1) THEN "freed" ELSE @.state,
        reference |-> @.reference - 1, out |-> @.out \ {s}]]
  /\ UNCHANGED <<group, channel_n, channel_remote, toNear, toFar, sub, loop, ops, pubs, overtaken>>

GroupNext ==
  \/ \E s \in Near \cup Far : SubNear(s) \/ SubFar(s) \/ Usub(s)
  \/ Subr \/ SubGoesOn \/ Usubr \/ Del \/ Delr
  \/ PubNear \/ PubFar \/ PubRemote
  \/ \E d \in Node : \/ SendOne(d) \/ SendRemote(d)
                     \/ \E p \in 1 .. MaxPub, s \in Near \cup Far : Close(d, p, s)

GroupSpec == GroupInit /\ [][GroupNext]_mcVars
-----------------------------------------------------------------------------
(* Properties.                                                             *)

\* The count of a package is that of the messages which lead to it and will be
\* sent, through every change of the group: it is freed with the last and no sooner.
ReferenceExact ==
  \A d \in Node, p \in 1 .. MaxPub :
    LET q == pack[d][p]
        all == q.out \cup (IF loop[d].p = p THEN loop[d].rest ELSE {})
    IN /\ q.state = "live" => q.reference = Cardinality(all)
       /\ q.state = "freed" => all = {}

Quiet == toNear = <<>> /\ toFar = <<>>

\* With nothing on the way the owner sends to another node only if it has
\* subscribers, and a subscriber of another node is sent what is published.  This
\* fails after an unsubscription between the answers to two subscriptions.
SubscribersReached ==
  Quiet /\ group["near"] # NULL /\ ~overtaken =>
    (channel_remote = "in" <=> group["far"] # NULL)

\* A channel that was deleted is forgotten by the other node, with the same exception.
DeletedForgotten ==
  Quiet /\ group["near"] = NULL /\ ~overtaken => group["far"] = NULL

\* Both nodes agree on who is to be sent what is published, and its memory is freed
\* by the last.
GroupsAgree == ReferenceExact /\ SubscribersReached /\ DeletedForgotten
=============================================================================
