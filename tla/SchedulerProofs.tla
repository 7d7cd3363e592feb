--------------------------- MODULE SchedulerProofs --------------------------
(***************************************************************************)
(* Machine-checked proofs that the scheduler of a Lua service resumes the  *)
(* right coroutines and answers whoever asked, for any number of           *)
(* coroutines, services, requests, sessions and errors, and that a message *)
(* server handles a request once and answers who asked last, for any number*)
(* of connections, sessions and kept responses.                            *)
(***************************************************************************)
EXTENDS Scheduler, MsgServer, FiniteSetTheorems, FunctionTheorems, WellFoundedInduction,
        SequenceTheorems, TLAPS

Kind == {"pool", "run", "call", "sleep", "wait", "timeout", "fork", "dead"}

\* What a coroutine is suspended in, and which coroutine runs: those that have a
\* session wait for a message or a wakeup.
Places ==
  /\ at \in [Co -> [kind : Kind, session : 0 .. MaxSession, to : Service \cup {NULL}]]
  /\ \A co \in Co : at[co].session = 0 <=> at[co].kind \in {"pool", "run", "fork", "dead"}
  /\ pc = "code" => at[running] = Running
  /\ gone \subseteq Service
  /\ sessions \in 0 .. MaxSession

\* Sessions are given out once.
NotYet ==
  /\ \A s \in Session : s > sessions => session_id_coroutine[s] = NULL
  /\ \A o \in owed : o.session <= sessions
  /\ \A i \in DOMAIN error_queue : error_queue[i] <= sessions

\* A session is owed once, by the service that is called; a waiting coroutine
\* is owed nothing.
OwedOnce ==
  /\ \A o, p \in owed : o.session = p.session => o = p
  /\ \A co \in Co, o \in owed : at[co].session = o.session =>
       at[co].kind # "wait" /\ (at[co].kind = "call" => o.of = at[co].to)

\* A session in the error queue is of a call, or of a coroutine that was resumed
\* already, and nobody who is there owes it any more.
FailedCalls ==
  \A i \in DOMAIN error_queue :
    /\ \/ session_id_coroutine[error_queue[i]] = NULL
       \/ \E co \in Co : session_id_coroutine[error_queue[i]] = co /\ at[co].kind = "call"
    /\ \A o \in owed : o.session = error_queue[i] => o.of \in gone

\* While no error is on its way, who waits to be woken sleeps, and each queue is
\* empty after its turn.
InTurn ==
  ~ thrown =>
    /\ pc \in {"code", "wakeup"} => \A co \in wakeup_session : Asleep(co)
    /\ pc \in {"errors", "forks", "idle"} => wakeup_session = {}
    /\ pc \in {"forks", "idle"} => error_queue = <<>>

Agree == /\ Places
         /\ SessionsLead
         /\ NotYet
         /\ OwedOnce
         /\ FailedCalls
         /\ AnswersExpected

IInv == /\ TypeOK
        /\ thrown \in BOOLEAN
        /\ Agree
        /\ InTurn

\* An answered closure answered, and a tested one is of a service that is down.
ClosuresUsed ==
  \A r \in Request :
    /\ response[r] = "used" /\ From[r] \notin dead_service => replied[r] # {}
    /\ response[r] = "tested" => From[r] \in dead_service

ClosureType ==
  /\ response \in [Request -> {"none", "open", "used", "tested"}]
  /\ replied \in [Request -> SUBSET {"response", "error"}]

Promises == ClosureType /\ ClosuresUsed /\ ServedAreWatched /\ NobodyLeftBehind

CInv == IInv /\ Promises
-----------------------------------------------------------------------------
(* Sessions, places and answers.                                           *)

Resting == {"pool", "run", "fork", "dead"}

\* A coroutine that is resumed leaves its session, and nothing else changes.
LEMMA Resumed ==
  ASSUME IInv, NEW co \in Co,
         pc' = "code", running' = co, at' = [at EXCEPT ![co] = Running],
         session_id_coroutine' \in [Session -> Co \cup {NULL, BREAK}],
         \A s \in Session : s # at[co].session =>
           session_id_coroutine'[s] = session_id_coroutine[s],
         at[co].session \in Session =>
           \/ session_id_coroutine'[at[co].session] = NULL
           \/ session_id_coroutine'[at[co].session] = BREAK /\ at[co].kind # "call",
         owed' \subseteq owed, UNCHANGED <<gone, sessions>>,
         \A i \in DOMAIN error_queue' : \E j \in DOMAIN error_queue :
           error_queue'[i] = error_queue[j],
         \A o \in owed' : o.session = at[co].session /\ o.of \notin gone =>
           session_id_coroutine'[o.session] # NULL
  PROVE  Agree'
<1> USE SchedulerAssumption DEF IInv, Agree
<1>1. /\ at'[co] = Running /\ Running.session = 0 /\ Running.kind = "run"
      /\ \A d \in Co \ {co} : at'[d] = at[d]
      /\ Running \in [kind : Kind, session : 0 .. MaxSession, to : Service \cup {NULL}]
  BY DEF Places, Running, Where, Kind
<1>2. Places'
  <2>1. at' \in [Co -> [kind : Kind, session : 0 .. MaxSession, to : Service \cup {NULL}]]
    BY <1>1 DEF Places
  <2> QED
    BY <1>1, <2>1 DEF Places
<1>3. SessionsLead'
  <2> SUFFICES ASSUME NEW d \in Co, NEW s \in Session
               PROVE  session_id_coroutine'[s] = d <=> at'[d].session = s
    BY DEF SessionsLead
  <2>1. s \in Nat /\ s # 0
    BY DEF Session
  <2>2. CASE s = at[co].session
    <3>1. session_id_coroutine'[s] \in {NULL, BREAK}
      BY <2>2
    <3>2. session_id_coroutine[s] = co
      BY <2>2 DEF SessionsLead
    <3>3. at'[d].session # s
      BY <1>1, <2>1, <3>2 DEF SessionsLead
    <3> QED
      BY <3>1, <3>3
  <2>3. CASE s # at[co].session
    <3>1. session_id_coroutine'[s] = session_id_coroutine[s] /\ session_id_coroutine[s] # co
      BY <2>3 DEF SessionsLead
    <3> QED
      BY <1>1, <2>1, <3>1 DEF SessionsLead
  <2> QED
    BY <2>2, <2>3
<1>4. NotYet'
  <2>1. ASSUME NEW s \in Session, s > sessions
        PROVE  session_id_coroutine'[s] = NULL
    <3>1. session_id_coroutine[s] = NULL
      BY <2>1 DEF NotYet
    <3>2. at[co].session # s
      BY <3>1 DEF SessionsLead
    <3> QED
      BY <3>1, <3>2
  <2> QED
    BY <2>1 DEF NotYet
<1>5. OwedOnce'
  <2>1. \A o \in owed' : o.session # 0
    BY DEF TypeOK, Session
  <2> QED
    BY <1>1, <2>1 DEF OwedOnce
<1>6. FailedCalls'
  <2> SUFFICES ASSUME NEW i \in DOMAIN error_queue'
               PROVE  /\ \/ session_id_coroutine'[error_queue'[i]] = NULL
                         \/ \E d \in Co : /\ session_id_coroutine'[error_queue'[i]] = d
                                          /\ at'[d].kind = "call"
                      /\ \A o \in owed' : o.session = error_queue'[i] => o.of \in gone'
    BY DEF FailedCalls
  <2>1. PICK j \in DOMAIN error_queue : error_queue'[i] = error_queue[j]
    OBVIOUS
  <2>2. error_queue[j] \in Session
    BY DEF TypeOK
  <2> DEFINE s == error_queue[j]
  <2>3. \A o \in owed' : o.session = s => o.of \in gone'
    BY DEF FailedCalls
  <2>4. CASE s = at[co].session
    <3>1. session_id_coroutine[s] = co
      BY <2>2, <2>4 DEF SessionsLead
    <3>2. at[co].kind = "call"
      BY <3>1 DEF FailedCalls
    <3> QED
      BY <2>1, <2>2, <2>3, <2>4, <3>2
  <2>5. CASE s # at[co].session
    <3>1. session_id_coroutine'[s] = session_id_coroutine[s] /\ session_id_coroutine[s] # co
      BY <2>2, <2>5 DEF SessionsLead
    <3>2. \/ session_id_coroutine'[s] = NULL
          \/ \E d \in Co : session_id_coroutine'[s] = d /\ at'[d].kind = "call"
      BY <1>1, <3>1 DEF FailedCalls
    <3> QED
      BY <2>1, <2>3, <3>2
  <2> QED
    BY <2>4, <2>5
<1>7. AnswersExpected'
  <2> SUFFICES ASSUME NEW o \in owed', o.of \notin gone
               PROVE  session_id_coroutine'[o.session] # NULL
    BY DEF AnswersExpected
  <2>1. o.session \in Session
    BY DEF TypeOK
  <2> QED
    BY <2>1 DEF AnswersExpected
<1> QED
  BY <1>2, <1>3, <1>4, <1>5, <1>6, <1>7

\* Steps in which no session begins or ends: coroutines without a session may
\* change places, answers may be consumed and calls may fail.
LEMMA NoSession ==
  ASSUME IInv,
         at' \in [Co -> [kind : Kind, session : 0 .. MaxSession, to : Service \cup {NULL}]],
         \A d \in Co : \/ at'[d] = at[d]
                       \/ /\ at[d].session = 0 /\ at'[d].session = 0
                          /\ at'[d].kind \in Resting,
         pc' = "code" => at'[running'] = Running,
         UNCHANGED <<session_id_coroutine, sessions>>,
         owed' \subseteq owed, gone \subseteq gone', gone' \subseteq Service,
         \A i \in DOMAIN error_queue' :
           \/ \E j \in DOMAIN error_queue : error_queue'[i] = error_queue[j]
           \/ /\ error_queue'[i] <= sessions
              /\ \E co \in Co : session_id_coroutine[error_queue'[i]] = co /\ at[co].kind = "call"
              /\ \A o \in owed' : o.session = error_queue'[i] => o.of \in gone'
  PROVE  Agree'
<1> USE SchedulerAssumption DEF IInv, Agree
<1>1. \A d \in Co : at'[d].session = at[d].session
  OBVIOUS
<1>2. \A d \in Co : at[d].session # 0 => at'[d] = at[d]
  OBVIOUS
<1>3. \A d \in Co : at[d].kind = "call" => at'[d].kind = "call"
  BY <1>2 DEF Places
<1>4. Places'
  BY DEF Places, Resting
<1>5. SessionsLead'
  BY <1>1 DEF SessionsLead
<1>6. NotYet'
  BY DEF NotYet
<1>7. OwedOnce'
  <2>1. \A o \in owed' : o.session # 0
    BY DEF TypeOK, Session
  <2> QED
    BY <1>1, <1>2, <2>1 DEF OwedOnce
<1>8. FailedCalls'
  BY <1>3 DEF FailedCalls
<1>9. AnswersExpected'
  BY DEF AnswersExpected
<1> QED
  BY <1>4, <1>5, <1>6, <1>7, <1>8, <1>9

\* A coroutine without a session begins to wait in a new one.
LEMMA SessionBegins ==
  ASSUME IInv, NEW co \in Co, at[co].session = 0,
         NEW kind \in {"call", "sleep", "wait", "timeout"}, NEW to \in Service \cup {NULL},
         Fresh,
         at' = [at EXCEPT ![co] = Where(kind, New, to)],
         session_id_coroutine' = [session_id_coroutine EXCEPT ![New] = co],
         owed' = IF kind = "wait" THEN owed ELSE owed \cup {Owed(New, to)},
         UNCHANGED <<gone, error_queue>>,
         pc' = "code" => at'[running'] = Running
  PROVE  /\ Agree'
         /\ session_id_coroutine' \in [Session -> Co \cup {NULL, BREAK}]
         /\ owed' \subseteq [session : Session, of : Service \cup {NULL}]
<1> USE SchedulerAssumption DEF IInv, Agree
<1>1. New \in Session /\ New # 0 /\ New > sessions /\ sessions' = New /\ sessions \in Nat
  BY DEF New, Fresh, Session, Places
<1> HIDE DEF New
<1>2. session_id_coroutine[New] = NULL
  BY <1>1 DEF NotYet
<1>3. /\ session_id_coroutine'[New] = co
      /\ \A s \in Session \ {New} : session_id_coroutine'[s] = session_id_coroutine[s]
      /\ session_id_coroutine' \in [Session -> Co \cup {NULL, BREAK}]
  BY <1>1 DEF TypeOK
<1>4. /\ at'[co].kind = kind /\ at'[co].session = New /\ at'[co].to = to
      /\ \A d \in Co \ {co} : at'[d] = at[d]
  BY DEF Places, Where
<1>5. owed' \subseteq [session : Session, of : Service \cup {NULL}]
  BY <1>1 DEF TypeOK, Owed
<1>6. \A d \in Co : at[d].session # New
  BY <1>1, <1>2 DEF SessionsLead
<1>7. \A o \in owed : o.session # New
  BY <1>1 DEF NotYet, TypeOK, Session
<1>8. Places'
  <2>1. at' \in [Co -> [kind : Kind, session : 0 .. MaxSession, to : Service \cup {NULL}]]
    <3>1. Where(kind, New, to) \in [kind : Kind, session : 0 .. MaxSession, to : Service \cup {NULL}]
      BY <1>1 DEF Where, Kind, Session
    <3> QED
      BY <3>1 DEF Places
  <2>2. \A d \in Co : at'[d].session = 0 <=> at'[d].kind \in {"pool", "run", "fork", "dead"}
    BY <1>1, <1>4 DEF Places
  <2>3. sessions' \in 0 .. MaxSession
    BY <1>1 DEF Session
  <2> QED
    BY <2>1, <2>2, <2>3 DEF Places
<1>9. SessionsLead'
  <2> SUFFICES ASSUME NEW d \in Co, NEW s \in Session
               PROVE  session_id_coroutine'[s] = d <=> at'[d].session = s
    BY DEF SessionsLead
  <2>1. s # 0
    BY DEF Session
  <2>2. CASE s = New
    BY <1>3, <1>4, <1>6, <2>2
  <2>3. CASE s # New
    BY <1>3, <1>4, <2>1, <2>3 DEF SessionsLead
  <2> QED
    BY <2>2, <2>3
<1>10. NotYet'
  <2>1. \A s \in Session : s > New => s # New /\ s > sessions
    BY <1>1 DEF Session
  <2>2. \A s \in Session : s > New => session_id_coroutine'[s] = NULL
    BY <1>3, <2>1 DEF NotYet
  <2>3. \A o \in owed' : o.session <= New
    BY <1>1 DEF NotYet, Owed, TypeOK, Session
  <2>4. \A i \in DOMAIN error_queue' : error_queue'[i] <= New
    <3>1. \A i \in DOMAIN error_queue : error_queue[i] \in Int
      BY DEF TypeOK, Session
    <3> QED
      BY <1>1, <3>1 DEF NotYet, Session
  <2> QED
    BY <1>1, <2>2, <2>3, <2>4 DEF NotYet
<1>11. OwedOnce'
  <2>1. \A o \in owed' : o \in owed \/ (o.session = New /\ o = Owed(New, to) /\ o.of = to /\ kind # "wait")
    BY DEF Owed
  <2>2. \A o, p \in owed' : o.session = p.session => o = p
    BY <1>7, <2>1 DEF OwedOnce
  <2>3. ASSUME NEW d \in Co, NEW o \in owed', at'[d].session = o.session
        PROVE  at'[d].kind # "wait" /\ (at'[d].kind = "call" => o.of = at'[d].to)
    BY <1>4, <1>6, <1>7, <2>1, <2>3 DEF OwedOnce
  <2> QED
    BY <2>2, <2>3 DEF OwedOnce
<1>12. FailedCalls'
  <2> SUFFICES ASSUME NEW i \in DOMAIN error_queue
               PROVE  /\ \/ session_id_coroutine'[error_queue[i]] = NULL
                         \/ \E d \in Co : /\ session_id_coroutine'[error_queue[i]] = d
                                          /\ at'[d].kind = "call"
                      /\ \A o \in owed' : o.session = error_queue[i] => o.of \in gone
    BY DEF FailedCalls
  <2>1. error_queue[i] \in Session /\ error_queue[i] # New
    BY <1>1 DEF TypeOK, NotYet, Session
  <2>2. session_id_coroutine'[error_queue[i]] # co
    BY <1>3, <2>1 DEF SessionsLead, Session
  <2>3. \A o \in owed' : o.session = error_queue[i] => o \in owed
    BY <2>1 DEF Owed
  <2> QED
    BY <1>3, <1>4, <2>1, <2>2, <2>3 DEF FailedCalls
<1>13. AnswersExpected'
  <2> SUFFICES ASSUME NEW o \in owed', o.of \notin gone
               PROVE  session_id_coroutine'[o.session] # NULL
    BY DEF AnswersExpected
  <2>1. CASE o.session = New
    BY <1>3, <2>1
  <2>2. CASE o.session # New
    <3>1. o \in owed
      BY <2>2 DEF Owed
    <3> QED
      BY <1>3, <2>2, <3>1 DEF AnswersExpected, TypeOK
  <2> QED
    BY <2>1, <2>2
<1> QED
  BY <1>3, <1>5, <1>8, <1>9, <1>10, <1>11, <1>12, <1>13
-----------------------------------------------------------------------------
(* The steps, one lemma for each kind of step.                             *)

\* A coroutine of the pool that is taken waits for nothing.
LEMMA SpareIsPooled ==
  ASSUME Pool # {}
  PROVE  Spare \in Co /\ at[Spare] = Pooled
BY DEF Spare, Pool

\* A request is given to a coroutine of the pool.
LEMMA AskKeeps ==
  ASSUME IInv, NEW r \in Request, Ask(r)
  PROVE  IInv'
<1> USE SchedulerAssumption DEF IInv
<1>1. PICK co \in Co : co = Spare /\ at[co] = Pooled
  BY SpareIsPooled DEF Ask
<1>2. at[co].session = 0 /\ at[co].kind = "pool" /\ 0 \notin Session
  BY <1>1 DEF Pooled, Where, Session
<1>3. /\ pc' = "code" /\ running' = co /\ at' = [at EXCEPT ![co] = Running]
      /\ UNCHANGED <<session_id_coroutine, dead_service, sessions, wakeup_session, error_queue,
                     owed, gone, thrown>>
      /\ serving' = [serving EXCEPT ![co] = r]
      /\ watching_service' = [watching_service EXCEPT ![From[r]] = @ + 1]
      /\ pc = "idle"
  BY <1>1, <1>2 DEF Ask, Resume, queues, errors
<1>4. Agree'
  BY <1>2, <1>3, Resumed DEF Agree, AnswersExpected, TypeOK
<1>5. TypeOK'
  <2>1. \A d \in Co : at'[d].kind \in Kind
    BY <1>4 DEF Agree, Places
  <2>2. watching_service' \in [Service -> Nat]
    BY <1>3 DEF TypeOK
  <2> QED
    BY <1>3, <2>1, <2>2 DEF TypeOK, Kind
<1>6. InTurn'
  BY <1>3 DEF InTurn
<1> QED
  BY <1>3, <1>4, <1>5, <1>6

\* A response reaches who waits for it.
LEMMA ResponseKeeps ==
  ASSUME IInv, NEW s \in Session, Response(s)
  PROVE  IInv'
<1> USE SchedulerAssumption DEF IInv
<1>1. PICK x \in (Service \ gone) \cup {NULL} :
        Owed(s, x) \in owed /\ owed' = owed \ {Owed(s, x)}
  BY DEF Response
<1>2. \A o \in owed' : o.session # s
  BY <1>1 DEF Agree, OwedOnce, Owed
<1>3. /\ pc = "idle"
      /\ UNCHANGED <<dead_service, sessions, wakeup_session, error_queue, serving,
                     watching_service, gone>>
  BY DEF Response, queues, asked
<1>4. s # 0 /\ s \in Nat
  BY DEF Session
<1>5. CASE session_id_coroutine[s] = BREAK
  <2>1. session_id_coroutine' = Forget(s) /\ UNCHANGED <<pc, running, at, thrown>>
    BY <1>5 DEF Response
  <2>2. /\ session_id_coroutine' \in [Session -> Co \cup {NULL, BREAK}]
        /\ session_id_coroutine'[s] = NULL
        /\ \A t \in Session \ {s} : session_id_coroutine'[t] = session_id_coroutine[t]
    BY <2>1 DEF Forget, TypeOK
  <2>3. Places' /\ OwedOnce'
    BY <1>1, <1>3, <2>1 DEF Agree, Places, OwedOnce
  <2>4. SessionsLead'
    <3>1. \A co \in Co : at[co].session # s
      BY <1>5 DEF Agree, SessionsLead
    <3> QED
      BY <2>1, <2>2, <3>1 DEF Agree, SessionsLead
  <2>5. NotYet'
    BY <1>1, <1>3, <2>2 DEF Agree, NotYet
  <2>6. FailedCalls'
    <3>1. \A i \in DOMAIN error_queue : error_queue[i] \in Session
      BY DEF TypeOK
    <3> QED
      BY <1>1, <1>3, <2>1, <2>2, <3>1 DEF Agree, FailedCalls
  <2>7. AnswersExpected'
    BY <1>1, <1>2, <1>3, <2>2 DEF Agree, AnswersExpected, TypeOK
  <2>8. TypeOK'
    BY <1>1, <1>3, <2>1, <2>2 DEF TypeOK
  <2>9. InTurn'
    BY <1>3, <2>1 DEF InTurn
  <2> QED
    BY <2>1, <2>3, <2>4, <2>5, <2>6, <2>7, <2>8, <2>9 DEF Agree
<1>6. CASE session_id_coroutine[s] = NULL
  <2>1. Unwind /\ UNCHANGED <<at, session_id_coroutine>>
    BY <1>6 DEF Response
  <2>2. Agree'
    BY <1>1, <1>3, <2>1, NoSession DEF Unwind, Agree, Places
  <2>3. TypeOK'
    BY <1>1, <1>3, <2>1 DEF TypeOK, Unwind
  <2>4. InTurn' /\ thrown' \in BOOLEAN
    BY <2>1 DEF InTurn, Unwind
  <2> QED
    BY <2>2, <2>3, <2>4
<1>7. CASE session_id_coroutine[s] \in Co
  <2> DEFINE co == session_id_coroutine[s]
  <2>1. Resume(co, Forget(s)) /\ UNCHANGED thrown
    BY <1>7 DEF Response
  <2>2. at[co].session = s
    BY <1>7 DEF Agree, SessionsLead
  <2>3. /\ pc' = "code" /\ running' = co /\ at' = [at EXCEPT ![co] = Running]
        /\ session_id_coroutine' = Forget(s)
    BY <2>1, <2>2 DEF Resume, Forget, TypeOK
  <2>4. /\ session_id_coroutine' \in [Session -> Co \cup {NULL, BREAK}]
        /\ session_id_coroutine'[s] = NULL
        /\ \A t \in Session \ {s} : session_id_coroutine'[t] = session_id_coroutine[t]
    BY <2>3 DEF Forget, TypeOK
  <2>5. Agree'
    <3>1. PICK d \in Co : d = session_id_coroutine[s]
      BY <1>7
    <3>2. at[d].session = s /\ pc' = "code" /\ running' = d /\ at' = [at EXCEPT ![d] = Running]
      BY <2>2, <2>3, <3>1
    <3>3. owed' \subseteq owed /\ UNCHANGED <<gone, sessions, error_queue>>
      BY <1>1, <1>3
    <3> HIDE DEF co
    <3> QED
      BY <1>2, <2>4, <3>2, <3>3, Resumed
  <2>6. TypeOK'
    <3>1. \A d \in Co : at'[d].kind \in Kind
      BY <2>5 DEF Agree, Places
    <3> QED
      BY <1>1, <1>3, <1>7, <2>3, <2>4, <3>1 DEF TypeOK, Kind
  <2>7. InTurn'
    BY <1>3, <2>1, <2>3 DEF InTurn
  <2> QED
    BY <2>1, <2>5, <2>6, <2>7
<1> QED
  BY <1>5, <1>6, <1>7 DEF TypeOK

\* The sessions that wait for a service are finitely many numbers.
LEMMA CallsFinite ==
  ASSUME IInv, NEW x \in Service
  PROVE  /\ Calls(x) \subseteq Session
         /\ IsFiniteSet(Calls(x)) /\ Cardinality(Calls(x)) \in Nat
         /\ \A s \in Calls(x) : \E co \in Co :
              at[co].kind = "call" /\ at[co].to = x /\ at[co].session = s
<1>1. Calls(x) \subseteq Session
  BY SchedulerAssumption DEF Calls, IInv, Agree, Places, Session
<1>2. IsFiniteSet(Session)
  BY SchedulerAssumption, FS_Interval DEF Session
<1> QED
  BY <1>1, <1>2, FS_Subset, FS_CardinalityType DEF Calls

\* A failed call goes to the error queue, when its coroutine still waits.
LEMMA FailureKeeps ==
  ASSUME IInv, NEW s \in Session, Failure(s)
  PROVE  IInv'
<1> USE SchedulerAssumption DEF IInv
<1>1. PICK x \in Service : Owed(s, x) \in owed /\ owed' = owed \ {Owed(s, x)}
  BY DEF Failure
<1>2. \A o \in owed' : o.session # s
  BY <1>1 DEF Agree, OwedOnce, Owed
<1>3. /\ pc' = "wakeup" /\ running' = NULL /\ pc = "idle"
      /\ UNCHANGED <<at, session_id_coroutine, dead_service, sessions, wakeup_session,
                     serving, watching_service, gone, thrown>>
      /\ error_queue' = IF Watched(s) THEN Append(error_queue, s) ELSE error_queue
  BY DEF Failure, AfterYield, asked, errors
<1>4. \A i \in DOMAIN error_queue' :
        \/ \E j \in DOMAIN error_queue : error_queue'[i] = error_queue[j]
        \/ Watched(s) /\ error_queue'[i] = s
  BY <1>3 DEF TypeOK
<1>5. Watched(s) => \E co \in Co : session_id_coroutine[s] = co /\ at[co].kind = "call"
  BY DEF Watched, Agree, SessionsLead
<1>6. s <= sessions
  BY <1>1 DEF Agree, NotYet, Owed
<1>7. Agree'
  BY <1>1, <1>2, <1>3, <1>4, <1>5, <1>6, NoSession DEF Agree, Places
<1>8. TypeOK'
  BY <1>1, <1>3 DEF TypeOK
<1>9. InTurn'
  BY <1>3 DEF InTurn
<1> QED
  BY <1>3, <1>7, <1>8, <1>9

\* The calls of a service that went down go to the error queue.
LEMMA DownKeeps ==
  ASSUME IInv, NEW x \in Service, Down(x)
  PROVE  IInv'
<1> USE SchedulerAssumption DEF IInv
<1>1. /\ pc' = "wakeup" /\ running' = NULL /\ pc = "idle"
      /\ UNCHANGED <<at, session_id_coroutine, sessions, wakeup_session, serving,
                     watching_service, thrown>>
      /\ owed' \subseteq owed
      /\ gone' = gone \cup {x}
      /\ dead_service' = dead_service \cup {x}
  BY DEF Down, AfterYield, asked, errors
<1>2. PICK w \in Orders(Calls(x)) : error_queue' = error_queue \o w
  BY DEF Down
<1>3. w \in [1 .. Cardinality(Calls(x)) -> Calls(x)] /\ Cardinality(Calls(x)) \in Nat
  BY <1>2, CallsFinite DEF Orders
<1>4. w \in Seq(Session) /\ \A k \in DOMAIN w : w[k] \in Calls(x)
  BY <1>3, CallsFinite
<1>5. error_queue \in Seq(Session)
  BY DEF TypeOK
<1>6. \A i \in DOMAIN error_queue' :
        \/ \E j \in DOMAIN error_queue : error_queue'[i] = error_queue[j]
        \/ \E k \in DOMAIN w : error_queue'[i] = w[k]
  <2> SUFFICES ASSUME NEW i \in 1 .. Len(error_queue) + Len(w)
               PROVE  \/ \E j \in DOMAIN error_queue : error_queue'[i] = error_queue[j]
                      \/ \E k \in DOMAIN w : error_queue'[i] = w[k]
    BY <1>2, <1>4, <1>5
  <2>1. CASE i <= Len(error_queue)
    <3>1. i \in DOMAIN error_queue /\ error_queue'[i] = error_queue[i]
      BY <1>2, <1>4, <1>5, <2>1
    <3> QED
      BY <3>1
  <2>2. CASE i > Len(error_queue)
    <3>1. /\ i - Len(error_queue) \in DOMAIN w
          /\ error_queue'[i] = w[i - Len(error_queue)]
      BY <1>2, <1>4, <1>5, <2>2
    <3> QED
      BY <3>1
  <2> QED
    BY <1>4, <1>5, <2>1, <2>2
<1>7. ASSUME NEW s \in Calls(x)
      PROVE  /\ s <= sessions
             /\ \E co \in Co : session_id_coroutine[s] = co /\ at[co].kind = "call"
             /\ \A o \in owed' : o.session = s => o.of \in gone'
  <2>1. PICK co \in Co : at[co].kind = "call" /\ at[co].to = x /\ at[co].session = s
    BY CallsFinite
  <2>2. s \in Session
    BY CallsFinite
  <2>3. session_id_coroutine[s] = co
    BY <2>1, <2>2 DEF Agree, SessionsLead
  <2>4. s <= sessions
    BY <2>2, <2>3 DEF Agree, NotYet, Session, Places
  <2>5. \A o \in owed' : o.session = s => o.of = x
    BY <1>1, <2>1 DEF Agree, OwedOnce
  <2> QED
    BY <1>1, <2>1, <2>3, <2>4, <2>5
<1>8. Agree'
  <2>1. \A i \in DOMAIN error_queue' :
          \/ \E j \in DOMAIN error_queue : error_queue'[i] = error_queue[j]
          \/ error_queue'[i] \in Calls(x)
    BY <1>4, <1>6
  <2>2. gone \subseteq gone' /\ gone' \subseteq Service
    BY <1>1 DEF Agree, Places
  <2> QED
    BY <1>1, <1>7, <2>1, <2>2, NoSession DEF Agree, Places
<1>9. TypeOK'
  BY <1>1, <1>2, <1>4 DEF TypeOK
<1>10. InTurn'
  BY <1>1 DEF InTurn
<1> QED
  BY <1>1, <1>8, <1>9, <1>10

\* A coroutine that yields waits in a session of its own.
LEMMA YieldKeeps ==
  ASSUME IInv, NEW kind \in {"call", "sleep", "wait"}, NEW to \in Service \cup {NULL},
         Yield(kind, to)
  PROVE  IInv'
<1> USE SchedulerAssumption DEF IInv
<1>1. running \in Co /\ at[running] = Running /\ at[running].session = 0
  BY DEF Yield, Runs, TypeOK, Agree, Places, Running, Where
<1>2. /\ Fresh
      /\ at' = [at EXCEPT ![running] = Where(kind, New, to)]
      /\ session_id_coroutine' = [session_id_coroutine EXCEPT ![New] = running]
      /\ owed' = IF kind = "wait" THEN owed ELSE owed \cup {Owed(New, to)}
      /\ pc' = "wakeup" /\ running' = NULL /\ pc = "code"
      /\ UNCHANGED <<dead_service, wakeup_session, error_queue, serving, watching_service, gone,
                     thrown>>
  BY DEF Yield, Runs, AfterYield, queues, asked, errors
<1>3. /\ Agree'
      /\ session_id_coroutine' \in [Session -> Co \cup {NULL, BREAK}]
      /\ owed' \subseteq [session : Session, of : Service \cup {NULL}]
  BY <1>1, <1>2, SessionBegins
<1>4. TypeOK'
  <2>1. \A d \in Co : at'[d].kind \in Kind
    BY <1>3 DEF Agree, Places
  <2> QED
    BY <1>2, <1>3, <2>1 DEF TypeOK, Kind
<1>5. InTurn'
  <2>1. \A d \in Co \ {running} : at'[d] = at[d]
    BY <1>2 DEF Agree, Places
  <2>2. ~ Asleep(running)
    BY <1>1 DEF Asleep, Running, Where
  <2> QED
    BY <1>2, <2>1, <2>2 DEF InTurn, Asleep, TypeOK
<1> QED
  BY <1>2, <1>3, <1>4, <1>5

\* A timeout waits in a session, with a coroutine of the pool.
LEMMA TimeoutKeeps ==
  ASSUME IInv, Timeout
  PROVE  IInv'
<1> USE SchedulerAssumption DEF IInv
<1>1. PICK co \in Co : co = Spare /\ at[co] = Pooled
  BY SpareIsPooled DEF Timeout
<1>2. at[co].session = 0 /\ at[co].kind = "pool"
  BY <1>1 DEF Pooled, Where
<1>3. /\ Fresh
      /\ at' = [at EXCEPT ![co] = Where("timeout", New, NULL)]
      /\ session_id_coroutine' = [session_id_coroutine EXCEPT ![New] = co]
      /\ owed' = owed \cup {Owed(New, NULL)}
      /\ pc = "code"
      /\ UNCHANGED <<pc, running, dead_service, wakeup_session, error_queue, serving,
                     watching_service, gone, thrown>>
  BY <1>1 DEF Timeout, Runs, queues, asked, errors
<1>4. at[running] = Running /\ running # co /\ at'[running] = Running
  BY <1>2, <1>3 DEF TypeOK, Agree, Places, Running, Where
<1>5. /\ Agree'
      /\ session_id_coroutine' \in [Session -> Co \cup {NULL, BREAK}]
      /\ owed' \subseteq [session : Session, of : Service \cup {NULL}]
  BY <1>2, <1>3, <1>4, SessionBegins
<1>6. TypeOK'
  <2>1. \A d \in Co : at'[d].kind \in Kind
    BY <1>5 DEF Agree, Places
  <2> QED
    BY <1>3, <1>5, <2>1 DEF TypeOK, Kind
<1>7. InTurn'
  <2>1. \A d \in Co \ {co} : at'[d] = at[d]
    BY <1>3 DEF Agree, Places
  <2>2. ~ Asleep(co)
    BY <1>2 DEF Asleep
  <2> QED
    BY <1>3, <2>1, <2>2 DEF InTurn, Asleep, TypeOK
<1> QED
  BY <1>3, <1>5, <1>6, <1>7

\* A message whose coroutine ends at once.
LEMMA NudgeKeeps ==
  ASSUME IInv, Nudge
  PROVE  IInv'
<1> USE SchedulerAssumption DEF IInv
<1>1. /\ pc' = "wakeup" /\ running' = NULL /\ pc = "idle"
      /\ UNCHANGED <<at, session_id_coroutine, dead_service, sessions, wakeup_session,
                     error_queue, serving, watching_service, owed, gone, thrown>>
  BY DEF Nudge, AfterYield, queues, asked, peers, errors
<1>2. Agree'
  BY <1>1, NoSession DEF Agree, Places
<1>3. TypeOK'
  BY <1>1 DEF TypeOK
<1>4. InTurn'
  BY <1>1 DEF InTurn
<1> QED
  BY <1>1, <1>2, <1>3, <1>4

\* A forked coroutine is one of the pool and has no session.
LEMMA ForkKeeps ==
  ASSUME IInv, Fork
  PROVE  IInv'
<1> USE SchedulerAssumption DEF IInv
<1>1. PICK co \in Co : co = Spare /\ at[co] = Pooled
  BY SpareIsPooled DEF Fork
<1>2. /\ at' = [at EXCEPT ![co] = Where("fork", 0, NULL)]
      /\ pc = "code"
      /\ UNCHANGED <<pc, running, session_id_coroutine, dead_service, sessions, wakeup_session,
                     error_queue, serving, watching_service, owed, gone, thrown>>
  BY <1>1 DEF Fork, Runs, queues, asked, peers, errors
<1>3. at[running] = Running /\ running # co /\ at'[running] = Running
  BY <1>1, <1>2 DEF TypeOK, Agree, Places, Running, Pooled, Where
<1>4. /\ at[co].session = 0 /\ at[co].kind = "pool"
      /\ at'[co].session = 0 /\ at'[co].kind = "fork"
      /\ \A d \in Co \ {co} : at'[d] = at[d]
  BY <1>1, <1>2 DEF Agree, Places, Pooled, Where
<1>5. at' \in [Co -> [kind : Kind, session : 0 .. MaxSession, to : Service \cup {NULL}]]
  <2>1. Where("fork", 0, NULL) \in [kind : Kind, session : 0 .. MaxSession, to : Service \cup {NULL}]
    BY DEF Where, Kind
  <2> QED
    BY <1>2, <2>1 DEF Agree, Places
<1>6. Agree'
  BY <1>2, <1>3, <1>4, <1>5, NoSession DEF Agree, Places, Resting
<1>7. TypeOK'
  BY <1>2, <1>5 DEF TypeOK, Kind
<1>8. InTurn'
  BY <1>2, <1>4 DEF InTurn, Asleep, TypeOK
<1> QED
  BY <1>2, <1>6, <1>7, <1>8

\* A coroutine that sleeps is put among those to be woken.
LEMMA WakeupKeeps ==
  ASSUME IInv, NEW co \in Co, Wakeup(co)
  PROVE  IInv'
<1> USE SchedulerAssumption DEF IInv
<1>1. /\ wakeup_session' = wakeup_session \cup {co} /\ Asleep(co) /\ pc = "code"
      /\ UNCHANGED <<pc, running, at, session_id_coroutine, dead_service, sessions,
                     error_queue, serving, watching_service, owed, gone, thrown>>
  BY DEF Wakeup, Runs, asked, peers, errors
<1>2. Agree'
  BY <1>1, NoSession DEF Agree, Places
<1>3. TypeOK'
  BY <1>1 DEF TypeOK
<1>4. InTurn'
  BY <1>1 DEF InTurn, Asleep
<1> QED
  BY <1>1, <1>2, <1>3, <1>4

\* One service fewer is watched at most once less.
LEMMA ReleasedType ==
  ASSUME NEW w \in [Service -> Nat], NEW x \in Service
  PROVE  Released(w, x) \in [Service -> Nat]
<1>1. (IF w[x] > 0 THEN w[x] - 1 ELSE 0) \in Nat
  OBVIOUS
<1> QED
  BY <1>1 DEF Released

\* Answers do not disturb who waits.
LEMMA AnswerKeeps ==
  ASSUME IInv, pc = "code",
         UNCHANGED <<pc, running, at, session_id_coroutine, dead_service, sessions, queues,
                     serving, owed, gone, thrown>>,
         watching_service' \in [Service -> Nat]
  PROVE  IInv'
<1> USE SchedulerAssumption DEF IInv
<1>1. UNCHANGED <<wakeup_session, error_queue>>
  BY DEF queues
<1>2. Agree'
  BY <1>1, NoSession DEF Agree, Places
<1>3. TypeOK'
  BY <1>1 DEF TypeOK
<1>4. InTurn'
  BY <1>1 DEF InTurn, Asleep
<1> QED
  BY <1>2, <1>3, <1>4

\* mtask.ret and mtask.response, the closure that is used, and the one that is tested.
LEMMA AnswersKeep ==
  ASSUME IInv,
         \/ Ret \/ MakeResponse
         \/ \E r \in Request : Respond(r, "response") \/ Respond(r, "error") \/ Test(r)
  PROVE  IInv'
<1>1. watching_service \in [Service -> Nat]
  BY DEF IInv, TypeOK
<1>2. CASE Ret
  BY <1>1, <1>2, AnswerKeeps DEF Ret, Runs, peers, errors
<1>3. CASE MakeResponse
  <2>1. running \in Co
    BY <1>3, SchedulerAssumption DEF MakeResponse, Runs, IInv, TypeOK
  <2>2. serving[running] \in Request
    BY <1>3, <2>1 DEF MakeResponse, IInv, TypeOK
  <2>3. watching_service' \in [Service -> Nat]
    BY <1>1, <1>3, <2>2, SchedulerAssumption DEF MakeResponse
  <2> QED
    BY <1>3, <2>3, AnswerKeeps DEF MakeResponse, Runs, peers, errors
<1>4. ASSUME NEW r \in Request, NEW how \in {"response", "error"}, Respond(r, how)
      PROVE  IInv'
  BY <1>1, <1>4, SchedulerAssumption, ReleasedType, AnswerKeeps DEF Respond, Runs, peers, errors
<1>5. ASSUME NEW r \in Request, Test(r)
      PROVE  IInv'
  BY <1>1, <1>5, SchedulerAssumption, ReleasedType, AnswerKeeps DEF Test, Runs, peers, errors
<1> QED
  BY <1>2, <1>3, <1>4, <1>5

\* The coroutine that runs ends: it waits for nothing, and may be taken again.
LEMMA EndKeeps ==
  ASSUME IInv, Finish \/ Throw \/ Exit
  PROVE  IInv'
<1> USE SchedulerAssumption DEF IInv
<1>1. /\ pc = "code" /\ running \in Co /\ at[running] = Running
      /\ at[running].session = 0 /\ ~ Asleep(running)
  BY DEF Finish, Throw, Exit, Runs, TypeOK, Agree, Places, Running, Where, Asleep
<1>2. UNCHANGED <<session_id_coroutine, dead_service, sessions, wakeup_session, error_queue, owed, gone>>
  BY DEF Finish, Throw, Exit, queues, peers
<1>3. /\ running' = NULL /\ pc' # "code"
      /\ \/ pc' \in {"wakeup", "quit"} /\ thrown' = thrown
         \/ pc' = "forks" /\ thrown' = TRUE
  BY DEF Finish, Throw, Exit, AfterYield, Unwind, errors
<1>4. at' = at \/ \E kind \in {"pool", "dead"} : at' = [at EXCEPT ![running] = Where(kind, 0, NULL)]
  BY DEF Finish, Throw, Exit, Pooled
<1>5. /\ at' \in [Co -> [kind : Kind, session : 0 .. MaxSession, to : Service \cup {NULL}]]
      /\ \A d \in Co \ {running} : at'[d] = at[d]
      /\ at'[running].session = 0
      /\ at'[running].kind \in Resting
  <2>1. CASE at' = at
    BY <1>1, <2>1 DEF Agree, Places, Resting, Running, Where
  <2>2. ASSUME NEW kind \in {"pool", "dead"}, at' = [at EXCEPT ![running] = Where(kind, 0, NULL)]
        PROVE  /\ at' \in [Co -> [kind : Kind, session : 0 .. MaxSession, to : Service \cup {NULL}]]
               /\ \A d \in Co \ {running} : at'[d] = at[d]
               /\ at'[running].session = 0
               /\ at'[running].kind \in Resting
    <3>1. /\ Where(kind, 0, NULL) \in [kind : Kind, session : 0 .. MaxSession, to : Service \cup {NULL}]
          /\ Where(kind, 0, NULL).session = 0 /\ Where(kind, 0, NULL).kind = kind
      BY DEF Where, Kind
    <3> QED
      BY <1>1, <2>2, <3>1 DEF Agree, Places, Resting
  <2> QED
    BY <1>4, <2>1, <2>2
<1>6. Agree'
  BY <1>1, <1>2, <1>3, <1>5, NoSession DEF Agree, Places
<1>7. TypeOK'
  <2>1. serving' \in [Co -> Request \cup {NULL}]
    BY DEF Finish, Throw, Exit, TypeOK
  <2>2. watching_service' \in [Service -> Nat]
    <3>1. CASE Finish
      BY <1>1, <3>1, ReleasedType DEF Finish, TypeOK
    <3>2. CASE Throw \/ Exit
      BY <3>2 DEF Throw, Exit, TypeOK
    <3> QED
      BY <3>1, <3>2
  <2> QED
    BY <1>2, <1>3, <1>5, <2>1, <2>2 DEF TypeOK, Kind
<1>8. InTurn'
  <2>1. \A d \in Co : Asleep(d) => Asleep(d)'
    BY <1>1, <1>5 DEF Asleep
  <2> QED
    BY <1>1, <1>2, <1>3, <2>1 DEF InTurn, TypeOK
<1> QED
  BY <1>3, <1>6, <1>7, <1>8

\* A woken coroutine leaves its session, with a mark when an answer is to come.
LEMMA DispatchWakeupKeeps ==
  ASSUME IInv, DispatchWakeup
  PROVE  IInv'
<1> USE SchedulerAssumption DEF IInv
<1>1. /\ pc = "wakeup"
      /\ UNCHANGED <<dead_service, sessions, error_queue, serving, watching_service, owed, gone,
                     thrown>>
  BY DEF DispatchWakeup, asked, peers, errors
<1>2. ASSUME wakeup_session' \subseteq wakeup_session, pc' = "errors",
             ~ thrown => wakeup_session' = {},
             UNCHANGED <<running, at, session_id_coroutine>>
      PROVE  IInv'
  <2>1. Agree'
    BY <1>1, <1>2, NoSession DEF Agree, Places
  <2>2. TypeOK'
    BY <1>1, <1>2 DEF TypeOK
  <2>3. InTurn'
    BY <1>1, <1>2 DEF InTurn
  <2> QED
    BY <1>1, <2>1, <2>2, <2>3
<1>3. CASE wakeup_session = {}
  BY <1>2, <1>3 DEF DispatchWakeup
<1>4. ASSUME NEW co \in wakeup_session, wakeup_session' = wakeup_session \ {co},
             ~ Asleep(co), pc' = "errors",
             UNCHANGED <<running, at, session_id_coroutine>>
      PROVE  IInv'
  BY <1>1, <1>2, <1>4 DEF InTurn
<1>5. ASSUME NEW co \in wakeup_session, wakeup_session' = wakeup_session \ {co},
             Asleep(co), Resume(co, Broken(at[co].session))
      PROVE  IInv'
  <2>1. PICK s \in Session : s = at[co].session
    <3>1. co \in Co /\ at[co].kind \in {"sleep", "wait"}
      BY <1>5 DEF Asleep, TypeOK
    <3>2. at[co].session \in 0 .. MaxSession /\ at[co].session # 0
      BY <3>1 DEF Agree, Places
    <3> QED
      BY <3>2 DEF Session
  <2>2. /\ co \in Co /\ pc' = "code" /\ running' = co
        /\ at' = [at EXCEPT ![co] = Running]
        /\ at[co].kind # "call"
    BY <1>5 DEF Resume, TypeOK, Asleep
  <2>3. /\ session_id_coroutine' \in [Session -> Co \cup {NULL, BREAK}]
        /\ session_id_coroutine'[s] = IF at[co].kind = "wait" THEN NULL ELSE BREAK
        /\ \A t \in Session \ {s} : session_id_coroutine'[t] = session_id_coroutine[t]
    BY <1>5, <2>1 DEF Resume, Broken, TypeOK
  <2>4. \A o \in owed : o.session = s => at[co].kind # "wait"
    BY <2>1, <2>2 DEF Agree, OwedOnce
  <2>5. Agree'
    BY <1>1, <2>1, <2>2, <2>3, <2>4, Resumed
  <2>6. TypeOK'
    <3>1. \A d \in Co : at'[d].kind \in Kind
      BY <2>5 DEF Agree, Places
    <3>2. wakeup_session' \subseteq Co
      BY <1>5 DEF TypeOK
    <3> QED
      BY <1>1, <2>2, <2>3, <3>1, <3>2 DEF TypeOK, Kind
  <2>7. InTurn'
    <3>1. \A d \in Co \ {co} : at'[d] = at[d]
      BY <2>2 DEF Agree, Places
    <3> QED
      BY <1>1, <1>5, <2>2, <3>1 DEF InTurn, Asleep, TypeOK
  <2> QED
    BY <1>1, <2>5, <2>6, <2>7
<1> QED
  BY <1>3, <1>4, <1>5 DEF DispatchWakeup

\* A failed call is taken from the head of its queue and its coroutine resumed; one
\* whose coroutine was resumed already throws.
LEMMA DispatchErrorKeeps ==
  ASSUME IInv, DispatchError
  PROVE  IInv'
<1> USE SchedulerAssumption DEF IInv
<1>1. /\ pc = "errors"
      /\ UNCHANGED <<dead_service, sessions, wakeup_session, serving, watching_service, owed, gone>>
  BY DEF DispatchError, asked, peers
<1>2. CASE error_queue = <<>>
  <2>1. pc' = "forks" /\ UNCHANGED <<running, at, session_id_coroutine, error_queue, thrown>>
    BY <1>2 DEF DispatchError
  <2>2. Agree'
    BY <1>1, <2>1, NoSession DEF Agree, Places
  <2>3. TypeOK'
    BY <1>1, <2>1 DEF TypeOK
  <2>4. InTurn'
    BY <1>1, <1>2, <2>1 DEF InTurn
  <2> QED
    BY <2>1, <2>2, <2>3, <2>4
<1>3. CASE error_queue # <<>>
  <2>1. error_queue \in Seq(Session)
    BY DEF TypeOK
  <2>2. PICK s \in Session : s = Head(error_queue) /\ s = error_queue[1] /\ 1 \in DOMAIN error_queue
    BY <1>3, <2>1
  <2>3. /\ error_queue' = Tail(error_queue)
        /\ IF session_id_coroutine[s] = NULL
           THEN Unwind /\ UNCHANGED <<at, session_id_coroutine>>
           ELSE Resume(session_id_coroutine[s], Forget(s)) /\ UNCHANGED thrown
    BY <1>3, <2>2 DEF DispatchError
  <2>4. /\ error_queue' \in Seq(Session)
        /\ \A i \in DOMAIN error_queue' : \E j \in DOMAIN error_queue : error_queue'[i] = error_queue[j]
    <3>1. /\ error_queue' \in Seq(Session)
          /\ \A i \in DOMAIN error_queue' : /\ i + 1 \in DOMAIN error_queue
                                           /\ error_queue'[i] = error_queue[i + 1]
      BY <1>3, <2>1, <2>3
    <3> QED
      BY <3>1
  <2>5. CASE session_id_coroutine[s] = NULL
    <3>1. Unwind /\ UNCHANGED <<at, session_id_coroutine>>
      BY <2>3, <2>5
    <3>2. Agree'
      BY <1>1, <2>4, <3>1, NoSession DEF Unwind, Agree, Places
    <3>3. TypeOK'
      BY <1>1, <2>4, <3>1 DEF TypeOK, Unwind
    <3>4. InTurn' /\ thrown' \in BOOLEAN
      BY <3>1 DEF InTurn, Unwind
    <3> QED
      BY <3>2, <3>3, <3>4
  <2>6. CASE session_id_coroutine[s] # NULL
    <3>1. PICK co \in Co : session_id_coroutine[s] = co /\ at[co].kind = "call"
      BY <2>2, <2>6 DEF Agree, FailedCalls
    <3>2. Resume(co, Forget(s)) /\ UNCHANGED thrown
      BY <2>3, <2>6, <3>1
    <3>3. at[co].session = s /\ \A o \in owed : o.session = s => o.of \in gone
      BY <2>2, <3>1 DEF Agree, SessionsLead, FailedCalls
    <3>4. /\ pc' = "code" /\ running' = co /\ at' = [at EXCEPT ![co] = Running]
          /\ session_id_coroutine' \in [Session -> Co \cup {NULL, BREAK}]
          /\ session_id_coroutine'[s] = NULL
          /\ \A t \in Session \ {s} : session_id_coroutine'[t] = session_id_coroutine[t]
      BY <3>1, <3>2 DEF Resume, Forget, TypeOK
    <3>5. Agree'
      BY <1>1, <2>4, <3>3, <3>4, Resumed
    <3>6. TypeOK'
      <4>1. \A d \in Co : at'[d].kind \in Kind
        BY <3>5 DEF Agree, Places
      <4> QED
        BY <1>1, <2>4, <3>4, <4>1 DEF TypeOK, Kind
    <3>7. InTurn'
      BY <1>1, <3>2, <3>4 DEF InTurn
    <3> QED
      BY <3>2, <3>5, <3>6, <3>7
  <2> QED
    BY <2>5, <2>6
<1> QED
  BY <1>2, <1>3

\* Forked coroutines run, and the service goes on to the next message.
LEMMA DispatchForkKeeps ==
  ASSUME IInv, DispatchFork
  PROVE  IInv'
<1> USE SchedulerAssumption DEF IInv
<1>1. /\ pc = "forks"
      /\ UNCHANGED <<dead_service, sessions, wakeup_session, error_queue, serving,
                     watching_service, owed, gone>>
  BY DEF DispatchFork, queues, asked, peers
<1>2. CASE \A co \in Co : at[co].kind # "fork"
  <2>1. /\ pc' = "idle"
        /\ thrown' = (thrown /\ (wakeup_session # {} \/ error_queue # <<>>))
        /\ UNCHANGED <<running, at, session_id_coroutine>>
    BY <1>2 DEF DispatchFork
  <2>2. Agree'
    BY <1>1, <2>1, NoSession DEF Agree, Places
  <2>3. TypeOK'
    BY <1>1, <2>1 DEF TypeOK
  <2>4. InTurn'
    BY <1>1, <2>1 DEF InTurn
  <2> QED
    BY <2>1, <2>2, <2>3, <2>4
<1>3. ASSUME NEW co \in Co, at[co].kind = "fork", Resume(co, session_id_coroutine), UNCHANGED thrown
      PROVE  IInv'
  <2>1. /\ pc' = "code" /\ running' = co /\ at' = [at EXCEPT ![co] = Running]
        /\ session_id_coroutine' = session_id_coroutine
    BY <1>3 DEF Resume
  <2>2. at[co].session = 0 /\ 0 \notin Session
    BY <1>3 DEF Agree, Places, Session
  <2>3. Agree'
    BY <1>1, <2>1, <2>2, Resumed DEF Agree, AnswersExpected, TypeOK
  <2>4. TypeOK'
    <3>1. \A d \in Co : at'[d].kind \in Kind
      BY <2>3 DEF Agree, Places
    <3> QED
      BY <1>1, <2>1, <3>1 DEF TypeOK, Kind
  <2>5. InTurn'
    BY <1>1, <1>3, <2>1 DEF InTurn
  <2> QED
    BY <1>3, <2>3, <2>4, <2>5
<1> QED
  BY <1>2, <1>3 DEF DispatchFork
-----------------------------------------------------------------------------
(* The invariant.                                                          *)

\* A service begins with nobody waiting.
LEMMA InitKeeps ==
  ASSUME Init
  PROVE  IInv
<1> USE SchedulerAssumption DEF Init
<1>1. TypeOK /\ thrown \in BOOLEAN
  <2>1. session_id_coroutine \in [Session -> Co \cup {NULL, BREAK}]
    OBVIOUS
  <2>2. serving \in [Co -> Request \cup {NULL}] /\ watching_service \in [Service -> Nat]
    OBVIOUS
  <2>3. \A co \in Co : at[co].kind = "pool"
    BY DEF Pooled, Where
  <2>4. error_queue \in Seq(Session)
    OBVIOUS
  <2> QED
    BY <2>1, <2>2, <2>3, <2>4 DEF TypeOK
<1>2. Places
  <2>1. Pooled \in [kind : Kind, session : 0 .. MaxSession, to : Service \cup {NULL}]
    BY DEF Pooled, Where, Kind
  <2> QED
    BY <2>1 DEF Places, Pooled, Where
<1>3. SessionsLead
  BY DEF SessionsLead, Session, Pooled, Where
<1>4. NotYet /\ OwedOnce /\ FailedCalls /\ AnswersExpected
  BY DEF NotYet, OwedOnce, FailedCalls, AnswersExpected
<1>5. InTurn
  BY DEF InTurn
<1> QED
  BY <1>1, <1>2, <1>3, <1>4, <1>5 DEF IInv, Agree

\* Every step keeps the invariant.
LEMMA StepKeeps ==
  ASSUME IInv, [Next]_vars
  PROVE  IInv'
<1>1. CASE UNCHANGED vars
  <2>1. UNCHANGED <<pc, running, at, session_id_coroutine, dead_service, sessions, wakeup_session,
                    error_queue, serving, watching_service, owed, gone, thrown>>
    BY <1>1 DEF vars, queues, asked, peers, errors
  <2>2. Agree'
    BY <2>1 DEF IInv, Agree, Places, SessionsLead, NotYet, OwedOnce, FailedCalls, AnswersExpected
  <2>3. TypeOK' /\ InTurn'
    BY <2>1 DEF IInv, TypeOK, InTurn, Asleep
  <2> QED
    BY <2>1, <2>2, <2>3 DEF IInv
<1>2. ASSUME NEW s \in Session, Response(s) \/ Failure(s)
      PROVE  IInv'
  BY <1>2, ResponseKeeps, FailureKeeps
<1>3. ASSUME NEW x \in Service, Down(x)
      PROVE  IInv'
  BY <1>3, DownKeeps
<1>4. ASSUME NEW x \in Service, Call(x)
      PROVE  IInv'
  BY <1>4, YieldKeeps DEF Call
<1>5. CASE Sleep \/ Wait
  BY <1>5, YieldKeeps DEF Sleep, Wait
<1>6. CASE \E r \in Request : Ask(r)
  BY <1>6, AskKeeps
<1>7. CASE \E co \in Co : Wakeup(co)
  BY <1>7, WakeupKeeps
<1>8. CASE Nudge \/ Timeout \/ Fork
  BY <1>8, NudgeKeeps, TimeoutKeeps, ForkKeeps
<1>9. CASE DispatchWakeup \/ DispatchError \/ DispatchFork
  BY <1>9, DispatchWakeupKeeps, DispatchErrorKeeps, DispatchForkKeeps
<1> QED
  BY <1>1, <1>2, <1>3, <1>4, <1>5, <1>6, <1>7, <1>8, <1>9, AnswersKeep, EndKeeps DEF Next

\* Sessions, those who wait for them and those who owe an answer agree in every state.
THEOREM Invariance == Spec => []IInv
BY InitKeeps, StepKeeps, PTL DEF Spec

\* A session leads to the coroutine that waits for it and to no other, an answer that
\* comes is expected, and no wakeup and no failed call outlives its round, unless an
\* error was thrown: SessionsAgree, of coroutine_resume, dispatch_message and the queues
\* of mtask.lua.
THEOREM Sessions == Spec => []SessionsAgree
<1>1. IInv => SessionsAgree
  BY DEF IInv, Agree, InTurn, SessionsAgree, DrainedAtRest
<1> QED
  BY <1>1, Invariance, PTL
-----------------------------------------------------------------------------
(* Whoever asked is answered, or its death is noticed.                     *)

\* The coroutines that serve a request of a service, and its closures that are kept.
ServedOf(x) == {co \in Co : serving[co] # NULL /\ From[serving[co]] = x}
KeptOf(x) == {r \in Request : response[r] = "open" /\ From[r] = x}

\* They are finitely many.
LEMMA ReasonsFinite ==
  ASSUME NEW x
  PROVE  /\ IsFiniteSet(ServedOf(x)) /\ Cardinality(ServedOf(x)) \in Nat
         /\ IsFiniteSet(KeptOf(x)) /\ Cardinality(KeptOf(x)) \in Nat
<1>1. ServedOf(x) \subseteq Co /\ KeptOf(x) \subseteq Request
  BY DEF ServedOf, KeptOf
<1> QED
  BY <1>1, SchedulerAssumption, FS_Subset, FS_CardinalityType

\* The same after a step.
LEMMA ReasonsFinitePrime ==
  ASSUME NEW x
  PROVE  /\ Cardinality(ServedOf(x)') \in Nat
         /\ Cardinality(KeptOf(x)') \in Nat
<1>1. ServedOf(x)' \subseteq Co /\ KeptOf(x)' \subseteq Request
  BY DEF ServedOf, KeptOf
<1> QED
  BY <1>1, SchedulerAssumption, FS_Subset, FS_CardinalityType

\* A set that is no larger, that gained one element, and that lost one.
LEMMA Counts ==
  ASSUME NEW S, IsFiniteSet(S), NEW T
  PROVE  /\ T \subseteq S => Cardinality(T) <= Cardinality(S)
         /\ \A e : T \subseteq S \cup {e} => Cardinality(T) <= Cardinality(S) + 1
         /\ \A e \in S : T \subseteq S \ {e} => Cardinality(T) <= Cardinality(S) - 1
<1>1. T \subseteq S => Cardinality(T) <= Cardinality(S)
  BY FS_Subset
<1>2. ASSUME NEW e, T \subseteq S \cup {e}
      PROVE  Cardinality(T) <= Cardinality(S) + 1
  <2>1. /\ IsFiniteSet(S \cup {e})
        /\ Cardinality(S \cup {e}) = IF e \in S THEN Cardinality(S) ELSE Cardinality(S) + 1
    BY FS_AddElement
  <2>2. Cardinality(T) <= Cardinality(S \cup {e}) /\ Cardinality(T) \in Nat
    BY <1>2, <2>1, FS_Subset, FS_CardinalityType
  <2>3. Cardinality(S) \in Nat
    BY FS_CardinalityType
  <2> QED
    BY <2>1, <2>2, <2>3
<1>3. ASSUME NEW e \in S, T \subseteq S \ {e}
      PROVE  Cardinality(T) <= Cardinality(S) - 1
  <2>1. IsFiniteSet(S \ {e}) /\ Cardinality(S \ {e}) = Cardinality(S) - 1
    BY FS_RemoveElement
  <2> QED
    BY <1>3, <2>1, FS_Subset
<1> QED
  BY <1>1, <1>2, <1>3

\* A service is watched once for each reason.
Watching(x) == watching_service[x] >= Cardinality(ServedOf(x)) + Cardinality(KeptOf(x))

LEMMA WatchedForEach ==
  ServedAreWatched <=> \A x \in Service : Watching(x)
BY DEF ServedAreWatched, Watching, ServedOf, KeptOf

LEMMA WatchedForEachPrime ==
  ServedAreWatched' <=> \A x \in Service : Watching(x)'
BY DEF ServedAreWatched, Watching, ServedOf, KeptOf

\* A service is still watched often enough when it has no new reason to be.
LEMMA StillWatched ==
  ASSUME NEW x \in Service, Watching(x), TypeOK, TypeOK',
         ServedOf(x)' \subseteq ServedOf(x), KeptOf(x)' \subseteq KeptOf(x),
         watching_service'[x] >= watching_service[x]
  PROVE  Watching(x)'
<1>1. /\ Cardinality(ServedOf(x)') <= Cardinality(ServedOf(x))
      /\ Cardinality(KeptOf(x)') <= Cardinality(KeptOf(x))
  BY ReasonsFinite, Counts
<1>2. watching_service[x] \in Nat /\ watching_service'[x] \in Nat
  BY DEF TypeOK
<1> QED
  BY <1>1, <1>2, ReasonsFinite, ReasonsFinitePrime DEF Watching

\* Steps that answer nobody and serve nobody else.
LEMMA AsideKeeps ==
  ASSUME CInv, UNCHANGED asked, dead_service \subseteq dead_service', pc' # "quit"
  PROVE  Promises'
<1> USE DEF CInv, Promises
<1>1. UNCHANGED <<serving, response, replied, watching_service>>
  BY DEF asked
<1>2. ClosureType' /\ ClosuresUsed'
  BY <1>1 DEF ClosureType, ClosuresUsed
<1>3. ServedAreWatched'
  BY <1>1 DEF ServedAreWatched
<1> QED
  BY <1>2, <1>3 DEF NobodyLeftBehind

\* A request that comes is watched by its coroutine.
LEMMA AskPromises ==
  ASSUME CInv, IInv', NEW r \in Request, Ask(r)
  PROVE  Promises'
<1> USE SchedulerAssumption DEF CInv, Promises
<1>1. PICK co \in Co : co = Spare
  BY SpareIsPooled DEF Ask
<1>2. /\ serving' = [serving EXCEPT ![co] = r]
      /\ watching_service' = [watching_service EXCEPT ![From[r]] = @ + 1]
      /\ UNCHANGED <<response, replied, dead_service>> /\ pc' = "code"
  BY <1>1 DEF Ask, Resume
<1>3. ASSUME NEW x \in Service
      PROVE  Watching(x)'
  <2>1. Watching(x) /\ serving \in [Co -> Request \cup {NULL}] /\ watching_service \in [Service -> Nat]
    BY WatchedForEach DEF IInv, TypeOK
  <2>2. KeptOf(x)' = KeptOf(x)
    BY <1>2 DEF KeptOf
  <2>3. CASE x = From[r]
    <3>1. watching_service'[x] = watching_service[x] + 1
      BY <1>2, <2>1, <2>3
    <3>2. ServedOf(x)' \subseteq ServedOf(x) \cup {co}
      BY <1>2, <2>1 DEF ServedOf
    <3>3. Cardinality(ServedOf(x)') <= Cardinality(ServedOf(x)) + 1
      BY <3>2, ReasonsFinite, Counts
    <3> QED
      BY <2>1, <2>2, <3>1, <3>3, ReasonsFinite, ReasonsFinitePrime DEF Watching
  <2>4. CASE x # From[r]
    <3>1. watching_service'[x] = watching_service[x] /\ watching_service[x] \in Nat
      BY <1>2, <2>1, <2>4
    <3>2. ServedOf(x)' \subseteq ServedOf(x)
      BY <1>2, <2>1, <2>4 DEF ServedOf
    <3> QED
      BY <2>1, <2>2, <3>1, <3>2, StillWatched DEF IInv
  <2> QED
    BY <2>3, <2>4
<1>4. ServedAreWatched'
  BY <1>3, WatchedForEachPrime
<1>5. ClosureType' /\ ClosuresUsed' /\ NobodyLeftBehind'
  BY <1>2 DEF ClosureType, ClosuresUsed, NobodyLeftBehind
<1> QED
  BY <1>4, <1>5

\* An answer of mtask.ret stays with what was answered before.
LEMMA RetPromises ==
  ASSUME CInv, IInv', Ret
  PROVE  Promises'
<1> USE SchedulerAssumption DEF CInv, Promises
<1>1. /\ UNCHANGED <<serving, response, watching_service, dead_service>> /\ pc' # "quit"
      /\ replied' = Answered(serving[running], "response")
  BY DEF Ret, Runs
<1>2. ClosureType' /\ ClosuresUsed'
  <2>1. /\ replied' \in [Request -> SUBSET {"response", "error"}]
        /\ \A r \in Request : replied[r] \subseteq replied'[r]
    BY <1>1 DEF Answered, Told, ClosureType
  <2> QED
    BY <1>1, <2>1 DEF ClosureType, ClosuresUsed
<1>3. ServedAreWatched'
  BY <1>1 DEF ServedAreWatched
<1> QED
  BY <1>1, <1>2, <1>3 DEF NobodyLeftBehind

\* A closure that is made is one more reason to watch.
LEMMA MakePromises ==
  ASSUME CInv, IInv', MakeResponse
  PROVE  Promises'
<1> USE SchedulerAssumption DEF CInv, Promises
<1>1. running \in Co /\ serving[running] # NULL
  BY DEF MakeResponse, Runs, IInv, TypeOK
<1>2. PICK r \in Request : r = serving[running]
  BY <1>1 DEF IInv, TypeOK
<1>3. /\ response' = [response EXCEPT ![r] = "open"]
      /\ watching_service' = [watching_service EXCEPT ![From[r]] = @ + 1]
      /\ UNCHANGED <<serving, replied, dead_service>> /\ pc' # "quit"
  BY <1>2 DEF MakeResponse, Runs
<1>4. ASSUME NEW x \in Service
      PROVE  Watching(x)'
  <2>1. Watching(x) /\ watching_service \in [Service -> Nat]
    BY WatchedForEach DEF IInv, TypeOK
  <2>2. ServedOf(x)' = ServedOf(x)
    BY <1>3 DEF ServedOf
  <2>3. CASE x = From[r]
    <3>1. watching_service'[x] = watching_service[x] + 1
      BY <1>3, <2>1, <2>3
    <3>2. KeptOf(x)' \subseteq KeptOf(x) \cup {r}
      BY <1>3 DEF KeptOf, ClosureType
    <3>3. Cardinality(KeptOf(x)') <= Cardinality(KeptOf(x)) + 1
      BY <3>2, ReasonsFinite, Counts
    <3> QED
      BY <2>1, <2>2, <3>1, <3>3, ReasonsFinite, ReasonsFinitePrime DEF Watching
  <2>4. CASE x # From[r]
    <3>1. watching_service'[x] = watching_service[x] /\ watching_service[x] \in Nat
      BY <1>3, <2>1, <2>4
    <3>2. KeptOf(x)' \subseteq KeptOf(x)
      BY <1>3, <2>4 DEF KeptOf, ClosureType
    <3> QED
      BY <2>1, <2>2, <3>1, <3>2, StillWatched DEF IInv
  <2> QED
    BY <2>3, <2>4
<1>5. ServedAreWatched'
  BY <1>4, WatchedForEachPrime
<1>6. ClosureType' /\ ClosuresUsed' /\ NobodyLeftBehind'
  BY <1>3 DEF ClosureType, ClosuresUsed, NobodyLeftBehind
<1> QED
  BY <1>5, <1>6

\* A closure that is used, or tested, is no reason any more.
LEMMA ClosurePromises ==
  ASSUME CInv, IInv', NEW r \in Request, response[r] = "open",
         \/ /\ response' = [response EXCEPT ![r] = "used"]
            /\ \E how \in {"response", "error"} : replied' = Answered(r, how)
         \/ /\ response' = [response EXCEPT ![r] = "tested"] /\ From[r] \in dead_service
            /\ replied' = replied,
         watching_service' = Released(watching_service, From[r]),
         UNCHANGED <<serving, dead_service>>, pc' # "quit"
  PROVE  Promises'
<1> USE SchedulerAssumption DEF CInv, Promises
<1>1. ASSUME NEW x \in Service
      PROVE  Watching(x)'
  <2>1. Watching(x) /\ watching_service \in [Service -> Nat]
    BY WatchedForEach DEF IInv, TypeOK
  <2>2. ServedOf(x)' = ServedOf(x)
    BY DEF ServedOf
  <2>3. CASE x = From[r]
    <3>1. watching_service'[x] = IF watching_service[x] > 0 THEN watching_service[x] - 1 ELSE 0
      BY <2>1, <2>3 DEF Released
    <3>2. r \in KeptOf(x) /\ KeptOf(x)' \subseteq KeptOf(x) \ {r}
      BY <2>3 DEF KeptOf, ClosureType
    <3>3. Cardinality(KeptOf(x)') <= Cardinality(KeptOf(x)) - 1
      BY <3>2, ReasonsFinite, Counts
    <3>4. watching_service[x] \in Nat
      BY <2>1
    <3> QED
      BY <2>1, <2>2, <3>1, <3>3, <3>4, ReasonsFinite, ReasonsFinitePrime DEF Watching
  <2>4. CASE x # From[r]
    <3>1. watching_service'[x] = watching_service[x] /\ watching_service[x] \in Nat
      BY <2>1, <2>4 DEF Released
    <3>2. KeptOf(x)' \subseteq KeptOf(x)
      BY DEF KeptOf, ClosureType
    <3> QED
      BY <2>1, <2>2, <3>1, <3>2, StillWatched DEF IInv
  <2> QED
    BY <2>3, <2>4
<1>2. ServedAreWatched'
  BY <1>1, WatchedForEachPrime
<1>3. /\ replied' \in [Request -> SUBSET {"response", "error"}]
      /\ \A q \in Request : replied[q] \subseteq replied'[q]
      /\ response'[r] = "used" /\ From[r] \notin dead_service => replied'[r] # {}
      /\ response'[r] = "tested" => From[r] \in dead_service
  BY DEF Answered, Told, ClosureType
<1>4. ClosureType' /\ ClosuresUsed' /\ NobodyLeftBehind'
  BY <1>3 DEF ClosureType, ClosuresUsed, NobodyLeftBehind
<1> QED
  BY <1>2, <1>4

\* A coroutine that ends serves nobody.
LEMMA FinishPromises ==
  ASSUME CInv, IInv', Finish
  PROVE  Promises'
<1> USE SchedulerAssumption DEF CInv, Promises
<1>1. PICK co \in Co : co = running
  BY DEF Finish, Runs, IInv, TypeOK
<1>2. /\ serving' = [serving EXCEPT ![co] = NULL]
      /\ watching_service' = IF serving[co] = NULL THEN watching_service
                             ELSE Released(watching_service, From[serving[co]])
      /\ UNCHANGED <<response, replied, dead_service>> /\ pc' # "quit"
  BY <1>1 DEF Finish, AfterYield
<1>3. serving \in [Co -> Request \cup {NULL}] /\ watching_service \in [Service -> Nat]
  BY DEF IInv, TypeOK
<1>4. ASSUME NEW x \in Service
      PROVE  Watching(x)'
  <2>1. Watching(x) /\ watching_service[x] \in Nat
    BY <1>3, WatchedForEach
  <2>2. KeptOf(x)' = KeptOf(x)
    BY <1>2 DEF KeptOf
  <2>3. CASE serving[co] # NULL /\ x = From[serving[co]]
    <3>1. watching_service'[x] = IF watching_service[x] > 0 THEN watching_service[x] - 1 ELSE 0
      BY <1>2, <1>3, <2>3 DEF Released
    <3>2. co \in ServedOf(x) /\ ServedOf(x)' \subseteq ServedOf(x) \ {co}
      BY <1>2, <1>3, <2>3 DEF ServedOf
    <3>3. Cardinality(ServedOf(x)') <= Cardinality(ServedOf(x)) - 1
      BY <3>2, ReasonsFinite, Counts
    <3> QED
      BY <2>1, <2>2, <3>1, <3>3, ReasonsFinite, ReasonsFinitePrime DEF Watching
  <2>4. CASE ~ (serving[co] # NULL /\ x = From[serving[co]])
    <3>1. watching_service'[x] = watching_service[x]
      BY <1>2, <1>3, <2>4 DEF Released
    <3>2. ServedOf(x)' \subseteq ServedOf(x)
      BY <1>2, <1>3 DEF ServedOf
    <3> QED
      BY <2>1, <2>2, <3>1, <3>2, StillWatched DEF IInv
  <2> QED
    BY <2>3, <2>4
<1>5. ServedAreWatched'
  BY <1>4, WatchedForEachPrime
<1>6. ClosureType' /\ ClosuresUsed' /\ NobodyLeftBehind'
  BY <1>2 DEF ClosureType, ClosuresUsed, NobodyLeftBehind
<1> QED
  BY <1>5, <1>6

\* One that fails is watched for still, which does no harm.
LEMMA ThrowPromises ==
  ASSUME CInv, IInv', Throw
  PROVE  Promises'
<1> USE SchedulerAssumption DEF CInv, Promises
<1>1. PICK co \in Co : co = running
  BY DEF Throw, Runs, IInv, TypeOK
<1>2. /\ serving' = [serving EXCEPT ![co] = NULL]
      /\ replied' = IF serving[co] = NULL THEN replied ELSE Told(serving[co], "error")
      /\ UNCHANGED <<response, watching_service, dead_service>> /\ pc' # "quit"
  BY <1>1 DEF Throw, Unwind
<1>3. serving \in [Co -> Request \cup {NULL}] /\ watching_service \in [Service -> Nat]
  BY DEF IInv, TypeOK
<1>4. ASSUME NEW x \in Service
      PROVE  Watching(x)'
  <2>1. Watching(x) /\ watching_service[x] \in Nat
    BY <1>3, WatchedForEach
  <2>2. KeptOf(x)' = KeptOf(x) /\ ServedOf(x)' \subseteq ServedOf(x)
    BY <1>2, <1>3 DEF KeptOf, ServedOf
  <2> QED
    BY <1>2, <2>1, <2>2, StillWatched DEF IInv
<1>5. ServedAreWatched'
  BY <1>4, WatchedForEachPrime
<1>6. /\ replied' \in [Request -> SUBSET {"response", "error"}]
      /\ \A q \in Request : replied[q] \subseteq replied'[q]
  BY <1>2 DEF Told, ClosureType
<1>7. ClosureType' /\ ClosuresUsed' /\ NobodyLeftBehind'
  BY <1>2, <1>6 DEF ClosureType, ClosuresUsed, NobodyLeftBehind
<1> QED
  BY <1>5, <1>7

\* A service that exits answers everybody.
LEMMA ExitPromises ==
  ASSUME CInv, IInv', Exit
  PROVE  Promises'
<1> USE SchedulerAssumption DEF CInv, Promises
<1>1. /\ response' = [r \in Request |-> IF response[r] = "open" THEN "used" ELSE response[r]]
      /\ UNCHANGED <<serving, watching_service, dead_service>>
  BY DEF Exit
<1>2. ASSUME NEW r \in Request
      PROVE  /\ replied'[r] =
                   (IF r \in Served THEN Told(r, "error")[r] ELSE {}) \cup
                   (IF response[r] = "open" THEN Answered(r, "error")[r] ELSE replied[r])
             /\ Told(r, "error")[r] = replied[r] \cup {"error"}
             /\ Answered(r, "error")[r] = IF From[r] \in dead_service THEN replied[r]
                                          ELSE replied[r] \cup {"error"}
             /\ replied[r] \in SUBSET {"response", "error"}
  BY DEF Exit, Told, Answered, ClosureType
<1>3. replied' \in [Request -> SUBSET {"response", "error"}]
  <2>1. \A r \in Request : replied'[r] \in SUBSET {"response", "error"}
    BY <1>2
  <2>2. replied' = [r \in Request |-> replied'[r]]
    BY DEF Exit
  <2> QED
    BY <2>1, <2>2
<1>4. ClosureType'
  BY <1>1, <1>3 DEF ClosureType
<1>5. ASSUME NEW r \in Request
      PROVE  /\ response'[r] = "used" /\ From[r] \notin dead_service => replied'[r] # {}
             /\ response'[r] = "tested" => From[r] \in dead_service
             /\ r \in Served => replied'[r] # {}
             /\ response'[r] \in {"none", "used", "tested"}
  <2>1. /\ response[r] \in {"none", "open", "used", "tested"}
        /\ response'[r] = IF response[r] = "open" THEN "used" ELSE response[r]
    BY <1>1 DEF ClosureType
  <2>2. r \in Served => "error" \in replied'[r]
    BY <1>2
  <2>3. response[r] = "open" /\ From[r] \notin dead_service => "error" \in replied'[r]
    BY <1>2
  <2>4. response[r] # "open" => replied[r] \subseteq replied'[r]
    BY <1>2
  <2> QED
    BY <2>1, <2>2, <2>3, <2>4 DEF ClosuresUsed
<1>6. ClosuresUsed'
  BY <1>1, <1>5 DEF ClosuresUsed
<1>7. NobodyLeftBehind'
  <2>1. Served' = Served
    BY <1>1 DEF Served
  <2> QED
    BY <1>1, <1>5, <2>1 DEF NobodyLeftBehind
<1>8. ASSUME NEW x \in Service
      PROVE  Watching(x)'
  <2>1. Watching(x) /\ watching_service[x] \in Nat
    BY WatchedForEach DEF IInv, TypeOK
  <2>2. KeptOf(x)' \subseteq KeptOf(x) /\ ServedOf(x)' = ServedOf(x)
    BY <1>1 DEF KeptOf, ServedOf
  <2> QED
    BY <1>1, <2>1, <2>2, StillWatched DEF IInv
<1>9. ServedAreWatched'
  BY <1>8, WatchedForEachPrime
<1> QED
  BY <1>4, <1>6, <1>7, <1>9

\* Every step keeps what was promised.
LEMMA StepPromises ==
  ASSUME CInv, [Next]_vars
  PROVE  CInv'
<1>1. IInv'
  BY StepKeeps DEF CInv
<1>2. CASE UNCHANGED vars
  <2>1. UNCHANGED <<pc, dead_service, serving, response, replied, watching_service>>
    BY <1>2 DEF vars, asked
  <2>2. ClosureType' /\ ClosuresUsed' /\ ServedAreWatched'
    BY <2>1 DEF CInv, Promises, ClosureType, ClosuresUsed, ServedAreWatched
  <2>3. NobodyLeftBehind'
    BY <2>1 DEF CInv, Promises, NobodyLeftBehind, Served
  <2> QED
    BY <1>1, <2>2, <2>3 DEF CInv, Promises
<1>3. ASSUME NEW s \in Session, Response(s) \/ Failure(s)
      PROVE  CInv'
  <2>1. UNCHANGED <<asked, dead_service>> /\ pc' # "quit"
    BY <1>3 DEF Response, Failure, Unwind, Resume, AfterYield
  <2> QED
    BY <1>1, <2>1, AsideKeeps DEF CInv
<1>4. ASSUME NEW x \in Service, Down(x) \/ Call(x)
      PROVE  CInv'
  <2>1. UNCHANGED asked /\ dead_service \subseteq dead_service' /\ pc' # "quit"
    BY <1>4 DEF Down, Call, Yield, AfterYield
  <2> QED
    BY <1>1, <2>1, AsideKeeps DEF CInv
<1>5. CASE \/ \E co \in Co : Wakeup(co)
           \/ Nudge \/ Sleep \/ Wait \/ Timeout \/ Fork
  <2>1. UNCHANGED <<asked, dead_service>> /\ pc' # "quit"
    BY <1>5 DEF Wakeup, Nudge, Sleep, Wait, Timeout, Fork, Yield, AfterYield, Runs
  <2> QED
    BY <1>1, <2>1, AsideKeeps DEF CInv
<1>6. CASE DispatchWakeup \/ DispatchError \/ DispatchFork
  <2>1. UNCHANGED <<asked, dead_service>>
    BY <1>6 DEF DispatchWakeup, DispatchError, DispatchFork
  <2>2. pc' # "quit"
    BY <1>6 DEF DispatchWakeup, DispatchError, DispatchFork, Resume, Unwind
  <2> QED
    BY <1>1, <2>1, <2>2, AsideKeeps DEF CInv
<1>7. ASSUME NEW r \in Request, Respond(r, "response") \/ Respond(r, "error") \/ Test(r)
      PROVE  CInv'
  <2>1. pc' # "quit"
    BY <1>7 DEF Respond, Test, Runs
  <2>2. CASE Respond(r, "response") \/ Respond(r, "error")
    BY <1>1, <2>1, <2>2, ClosurePromises DEF Respond, CInv
  <2>3. CASE Test(r)
    BY <1>1, <2>1, <2>3, ClosurePromises DEF Test, CInv
  <2> QED
    BY <1>7, <2>2, <2>3
<1>8. CASE \/ \E r \in Request : Ask(r)
           \/ Ret \/ MakeResponse \/ Finish \/ Throw \/ Exit
  BY <1>1, <1>8, AskPromises, RetPromises, MakePromises, FinishPromises, ThrowPromises,
     ExitPromises DEF CInv
<1> QED
  BY <1>2, <1>3, <1>4, <1>5, <1>6, <1>7, <1>8 DEF Next

\* A service begins with no request and no closure.
LEMMA InitPromises ==
  ASSUME Init
  PROVE  CInv
<1>1. IInv
  BY InitKeeps
<1>2. ClosureType /\ ClosuresUsed /\ NobodyLeftBehind
  BY DEF Init, ClosureType, ClosuresUsed, NobodyLeftBehind
<1>3. ASSUME NEW x \in Service
      PROVE  Watching(x)
  <2>1. ServedOf(x) = {} /\ KeptOf(x) = {}
    BY DEF Init, ServedOf, KeptOf
  <2> QED
    BY <2>1, FS_EmptySet DEF Watching, Init
<1> QED
  BY <1>1, <1>2, <1>3, WatchedForEach DEF CInv, Promises

\* The death of whoever is served is noticed, and a service that exits answers every
\* request that it began and did not finish: CallersTold, of dispatch_message, mtask.ret,
\* mtask.response and mtask.exit.
THEOREM Answers == Spec => []CallersTold
<1>1. CInv => CallersTold
  BY DEF CInv, Promises, CallersTold
<1> QED
  BY <1>1, InitPromises, StepPromises, PTL DEF Spec
-----------------------------------------------------------------------------
(* The message server.                                                     *)

\* An entry, and what the client of a session did and got.
EntryType ==
  [session : ClientSession, use : Nat \ {0}, fd : Fds \cup {0}, from : Fds, version : Nat,
   index : Nat]
AskType ==
  [use : Nat, on : SUBSET Fds, last : Fds \cup {0}, answer : Nat, conflict : BOOLEAN]

MsgTypes ==
  /\ gate \in [Fds -> {"none", "true", "false", "gone"}]
  /\ handshake \subseteq Fds /\ connection \subseteq Fds
  /\ online \in BOOLEAN /\ version \in Fds \cup {0} /\ fd \in Fds \cup {0}
  /\ index \in 0 .. 2 * expired_number - 1
  /\ runs \in Nat /\ entry \in [1 .. runs -> EntryType]
  /\ responses \in [ClientSession -> 0 .. runs]
  /\ requests \in [ClientSession -> AskType]
  /\ since \in [ClientSession -> 0 .. expired_number]

\* The version of a user is its newest connection; a client asks on connections
\* that were opened and authorised.
Connected ==
  /\ connection \cap handshake = {}
  /\ \A f \in connection \cup handshake : gate[f] # "none"
  /\ version # 0 => gate[version] # "none"
  /\ \A f \in connection : f <= version
  /\ \A s \in ClientSession : LET f == requests[s].last IN
       f # 0 => gate[f] # "none" /\ f \notin handshake /\ f \in requests[s].on

\* The entries of a session are of its uses, and the one in the cache is of its session.
Entered ==
  /\ \A p \in 1 .. runs : entry[p].use <= requests[entry[p].session].use
  /\ \A s \in ClientSession : responses[s] # 0 => Entry(s).session = s

\* The entries of a session, and whether the response that is kept for it is complete.
Of(s) == {p \in 1 .. runs : entry[p].session = s}
Complete(s) == responses[s] # 0 /\ Entry(s).fd = 0

\* The handler of a session runs for its last entry only, which is in the cache and of
\* the last use; an answer is of it, and of the last version; a response that is among
\* the last expired_number is complete, and so near to the index.
InOrder(s) ==
  /\ \A p \in Of(s) : entry[p].fd # 0 => responses[s] = p
  /\ responses[s] # 0 => /\ Entry(s).use = requests[s].use
                         /\ Entry(s).from \in requests[s].on
                         /\ \A p \in Of(s) : p <= responses[s]
  /\ requests[s].answer # 0 => /\ requests[s].answer = requests[s].use
                               /\ \A p \in Of(s) : entry[p].fd = 0
                               /\ responses[s] # 0 => Entry(s).version = requests[s].last
  /\ since[s] < expired_number => Complete(s) /\ Entry(s).index + since[s] + 1 >= index

\* Complete responses have indexes of their own, less than the next.
Indexed ==
  /\ \A s \in ClientSession : Complete(s) => Entry(s).index < index
  /\ \A s, t \in ClientSession :
       s # t /\ Complete(s) /\ Complete(t) => Entry(s).index # Entry(t).index

\* The inductive invariant.
MsgInv ==
  /\ MsgTypes /\ Connected /\ Entered /\ AnswerComes /\ Indexed
  /\ \A s \in ClientSession : ~requests[s].conflict => InOrder(s)

-----------------------------------------------------------------------------
\* The order of the numbers.
NumberOrder == {ss \in Nat \X Nat : ss[1] < ss[2]}

LEMMA NumbersOrdered == IsWellFoundedOn(NumberOrder, Nat)
BY NatLessThanWellFounded DEF OpToRel, NumberOrder

\* A set of numbers below a bound has a greatest one.
LEMMA HasGreatest ==
  ASSUME NEW S \in SUBSET Nat, S # {}, NEW b \in Nat, \A n \in S : n <= b
  PROVE  \E m \in S : \A n \in S : n <= m
<1> DEFINE T == {b - n : n \in S}
<1>1. T \subseteq Nat /\ T # {}
  <2>1. \A n \in S : n \in Nat /\ b - n \in Nat
    OBVIOUS
  <2>2. PICK n \in S : TRUE
    OBVIOUS
  <2>3. b - n \in T
    BY <2>2
  <2> QED
    BY <2>1, <2>3
<1>2. PICK x \in T : \A y \in T : ~(<<y, x>> \in NumberOrder)
  <2> HIDE DEF T
  <2> QED
    BY <1>1, NumbersOrdered, WFMin
<1>3. \A y \in T : x <= y
  <2> HIDE DEF T
  <2>1. \A y \in T : y \in Nat /\ x \in Nat /\ ~(y < x)
    BY <1>1, <1>2 DEF NumberOrder
  <2> QED
    BY <2>1
<1>4. PICK m \in S : x = b - m
  BY <1>2
<1>5. \A n \in S : n <= m
  <2> TAKE n \in S
  <2>1. b - n \in T
    OBVIOUS
  <2>2. n \in Nat /\ m \in Nat /\ b - m <= b - n
    BY <1>3, <1>4, <2>1
  <2> QED
    BY <2>2
<1> QED
  BY <1>5

\* A session whose response is complete, with what is kept and sent.
Ready(cache, sent) == {s \in ClientSession : cache[s] # 0 /\ sent[cache[s]].fd = 0}

\* A cache of n entries, where those that are ready have an index of their own below next.
Settled(n, cache, sent, next) ==
  /\ n \in Nat /\ next \in 1 .. 2 * expired_number
  /\ cache \in [ClientSession -> 0 .. n] /\ sent \in [1 .. n -> EntryType]
  /\ \A s \in Ready(cache, sent) : sent[cache[s]].index < next
  /\ \A s, t \in Ready(cache, sent) : s # t => sent[cache[s]].index # sent[cache[t]].index

\* After it: the entries are as they were but for the index; the responses whose index
\* was among the last expired_number are there, with the distances they had to the index.
Kept(n, cache, sent, next) ==
  /\ index' \in 0 .. 2 * expired_number - 1
  /\ entry' \in [1 .. n -> EntryType]
  /\ responses' \in [ClientSession -> 0 .. n]
  /\ \A p \in 1 .. n : /\ entry'[p].session = sent[p].session
                       /\ entry'[p].use = sent[p].use
                       /\ entry'[p].fd = sent[p].fd
                       /\ entry'[p].from = sent[p].from
                       /\ entry'[p].version = sent[p].version
  /\ \A s \in ClientSession :
       /\ responses'[s] = cache[s] \/ (responses'[s] = 0 /\ s \in Ready(cache, sent))
       /\ s \in Ready(cache, sent) /\ sent[cache[s]].index + expired_number >= next =>
            /\ responses'[s] = cache[s]
            /\ entry'[cache[s]].index - sent[cache[s]].index >= index' - next
  /\ \A s \in Ready(responses', entry') : entry'[responses'[s]].index < index'
  /\ \A s, t \in Ready(responses', entry') :
       s # t => entry'[responses'[s]].index # entry'[responses'[t]].index

\* retire_response keeps the last expired_number responses, and their order.
LEMMA RetireKeeps ==
  ASSUME NEW STATE n, NEW STATE cache, NEW STATE sent, NEW STATE next,
         Settled(n, cache, sent, next), Retire(next, cache, sent)
  PROVE  Kept(n, cache, sent, next)
<1>0. /\ n \in Nat /\ next \in 1 .. 2 * expired_number
      /\ cache \in [ClientSession -> 0 .. n] /\ sent \in [1 .. n -> EntryType]
      /\ \A s \in Ready(cache, sent) : sent[cache[s]].index < next
      /\ \A s, t \in Ready(cache, sent) : s # t => sent[cache[s]].index # sent[cache[t]].index
  BY DEF Settled
<1> USE <1>0
<1> USE MsgAssumption
<1>1. CASE next < expired_number * 2
  <2>1. index' = next /\ responses' = cache /\ entry' = sent
    BY <1>1 DEF Retire
  <2>2. \A s \in Ready(cache, sent) : sent[cache[s]].index \in Nat
    BY DEF Ready, EntryType
  <2> QED
    BY <1>1, <2>1, <2>2 DEF Kept
<1>2. CASE ~(next < expired_number * 2)
  <2> DEFINE complete == Ready(cache, sent)
             kept == {s \in complete : ~Expired(sent[cache[s]])}
             ages == {0} \cup {sent[cache[s]].index - expired_number : s \in kept}
             m == CHOOSE a \in ages : \A b \in ages : b <= a
             Moved(p) == \E s \in kept : cache[s] = p
  <2>1. /\ index' = 1 + m
        /\ responses' = [s \in ClientSession |-> IF s \in complete \ kept THEN 0 ELSE cache[s]]
        /\ entry' = [p \in 1 .. n |-> IF Moved(p)
                       THEN [sent[p] EXCEPT !.index = @ - expired_number] ELSE sent[p]]
    BY <1>2 DEF Retire, Ready
  <2>2. next = 2 * expired_number
    BY <1>2
  <2>3. \A s \in complete : s \in ClientSession /\ cache[s] \in 1 .. n
    BY DEF Ready
  <2>4. \A s \in kept : /\ s \in complete
                        /\ sent[cache[s]].index - expired_number \in 0 .. expired_number - 1
    BY <2>2, <2>3 DEF Expired, EntryType
  <2>5. m \in ages /\ \A a \in ages : a <= m
    <3>1. ages \in SUBSET Nat /\ ages # {} /\ \A a \in ages : a <= expired_number - 1
      BY <2>4
    <3> HIDE DEF ages
    <3>2. expired_number - 1 \in Nat
      OBVIOUS
    <3>3. \E a \in ages : \A b \in ages : b <= a
      BY <3>1, <3>2, HasGreatest
    <3> QED
      BY <3>3
  <2> HIDE DEF m
  <2>6. m \in 0 .. expired_number - 1
    <3>1. \A a \in ages : a \in 0 .. expired_number - 1
      BY <2>4
    <3> QED
      BY <2>5, <3>1
  <2>7. \A s \in complete : s \in kept <=> sent[cache[s]].index >= expired_number
    BY <2>3 DEF Expired, EntryType
  <2>8. \A s \in kept : sent[cache[s]].index - expired_number <= m
    BY <2>5
  <2> HIDE DEF ages
  <2>9. index' \in 0 .. 2 * expired_number - 1
    BY <2>1, <2>6
  <2>10. responses' \in [ClientSession -> 0 .. n]
    BY <2>1
  <2>11. ASSUME NEW p \in 1 .. n
         PROVE  /\ entry'[p] \in EntryType
                /\ entry'[p].session = sent[p].session /\ entry'[p].use = sent[p].use
                /\ entry'[p].fd = sent[p].fd /\ entry'[p].from = sent[p].from
                /\ entry'[p].version = sent[p].version
                /\ Moved(p) => entry'[p].index = sent[p].index - expired_number
    <3>1. CASE Moved(p)
      <4>1. entry'[p] = [sent[p] EXCEPT !.index = @ - expired_number]
        BY <2>1, <3>1
      <4>2. sent[p].index - expired_number \in Nat
        BY <2>4, <3>1
      <4>3. sent[p] \in EntryType
        OBVIOUS
      <4> HIDE DEF Moved, kept, complete
      <4> QED
        BY <4>1, <4>2, <4>3 DEF EntryType
    <3>2. CASE ~Moved(p)
      BY <2>1, <3>2
    <3> QED
      BY <3>1, <3>2
  <2>12. \A s \in kept : /\ s \in complete /\ responses'[s] = cache[s] /\ cache[s] \in 1 .. n
                         /\ entry'[cache[s]].index = sent[cache[s]].index - expired_number
    BY <2>1, <2>3, <2>11
  <2>13. \A s \in Ready(responses', entry') : s \in kept
    <3> SUFFICES ASSUME NEW s \in Ready(responses', entry') PROVE s \in kept
      OBVIOUS
    <3>1. s \in ClientSession /\ responses'[s] # 0 /\ entry'[responses'[s]].fd = 0
      BY DEF Ready
    <3>2. s \notin complete \ kept /\ responses'[s] = cache[s]
      BY <2>1, <3>1
    <3>3. cache[s] \in 1 .. n /\ sent[cache[s]].fd = 0
      BY <2>11, <3>1, <3>2
    <3> QED
      BY <3>1, <3>2, <3>3 DEF Ready
  <2>14. entry' \in [1 .. n -> EntryType]
    <3>1. DOMAIN entry' = 1 .. n /\ entry' = [p \in 1 .. n |-> entry'[p]]
      BY <2>1
    <3> QED
      BY <2>11, <3>1
  <2>15. ASSUME NEW s \in ClientSession
         PROVE  /\ responses'[s] = cache[s] \/ (responses'[s] = 0 /\ s \in Ready(cache, sent))
                /\ s \in Ready(cache, sent) /\ sent[cache[s]].index + expired_number >= next =>
                     /\ responses'[s] = cache[s]
                     /\ entry'[cache[s]].index - sent[cache[s]].index >= index' - next
    <3>1. responses'[s] = cache[s] \/ (responses'[s] = 0 /\ s \in Ready(cache, sent))
      BY <2>1
    <3>2. ASSUME s \in Ready(cache, sent), sent[cache[s]].index + expired_number >= next
          PROVE  /\ responses'[s] = cache[s]
                 /\ entry'[cache[s]].index - sent[cache[s]].index >= index' - next
      <4>1. cache[s] \in 1 .. n /\ sent[cache[s]].index \in Nat
        BY <2>3, <3>2 DEF EntryType
      <4>2. s \in kept
        BY <2>2, <2>7, <3>2, <4>1
      <4>3. index' = 1 + m /\ m <= expired_number - 1
        BY <2>1, <2>6
      <4> QED
        BY <2>2, <2>6, <2>12, <4>1, <4>2, <4>3
    <3> QED
      BY <3>1, <3>2
  <2>16. ASSUME NEW s \in Ready(responses', entry')
         PROVE  entry'[responses'[s]].index < index'
    <3>1. s \in kept
      BY <2>13
    <3>2. entry'[responses'[s]].index = sent[cache[s]].index - expired_number
      BY <2>12, <3>1
    <3>3. sent[cache[s]].index - expired_number \in Int /\ m \in Int
      BY <2>4, <2>6, <3>1
    <3>4. index' = 1 + m /\ sent[cache[s]].index - expired_number <= m
      BY <2>1, <2>8, <3>1
    <3> QED
      BY <3>2, <3>3, <3>4
  <2>17. \A s, t \in Ready(responses', entry') :
           s # t => entry'[responses'[s]].index # entry'[responses'[t]].index
    <3> SUFFICES ASSUME NEW s \in kept, NEW t \in kept, s # t
                 PROVE  entry'[responses'[s]].index # entry'[responses'[t]].index
      BY <2>13
    <3>1. sent[cache[s]].index \in Nat /\ sent[cache[t]].index \in Nat
      BY <2>12 DEF EntryType
    <3> QED
      BY <2>12, <3>1
  <2> HIDE DEF kept, complete, Moved
  <2> QED
    BY <2>9, <2>10, <2>11, <2>14, <2>15, <2>16, <2>17 DEF Kept
<1> QED
  BY <1>1, <1>2

\* A used connection is the newest, and the version of the user.
LEMMA UsedIsVersion ==
  ASSUME MsgTypes, Connected, NEW f \in Fds, Used(f)
  PROVE  f = version
<1> USE MsgAssumption
<1>1. f \in connection /\ f <= version /\ \A e \in Fds : e > f => gate[e] = "none"
  BY DEF Used, Connected
<1>2. version \in Fds /\ f \in Nat \ {0} /\ version \in Nat
  BY <1>1 DEF MsgTypes
<1>3. gate[version] # "none"
  BY <1>2 DEF Connected
<1> QED
  BY <1>1, <1>2, <1>3

\* What is known of the entry p that is sent on f, and of what the client of its session
\* s has asked by then.
Sending(p, f, s, sent, asks) ==
  /\ p \in 1 .. runs /\ s = entry[p].session
  /\ sent \in [1 .. runs -> EntryType] /\ asks \in [ClientSession -> AskType]
  /\ \A q \in 1 .. runs : q # p => sent[q] = entry[q]
  /\ sent[p].session = s /\ sent[p].use = entry[p].use
  /\ sent[p].version = version /\ sent[p].index = index
  /\ \A t \in ClientSession : t # s => asks[t] = requests[t]
  /\ asks[s].conflict = requests[s].conflict
  /\ ~asks[s].conflict => /\ responses[s] = p /\ asks[s].use = entry[p].use
                          /\ sent[p].from \in asks[s].on /\ asks[s].answer = 0
  /\ requests[s].use <= asks[s].use
  /\ asks[s].last # 0 => /\ gate[asks[s].last] # "none" /\ asks[s].last \notin handshake
                         /\ asks[s].last \in asks[s].on
  /\ asks[s].last = f \/ (asks = requests /\ entry[p].fd = f)

\* A response that is sent, at the end of the handler or again, is in its place in the
\* cache, and what the others had there they have.
LEMMA SendKeeps ==
  ASSUME MsgInv, NEW p, NEW f \in Fds, NEW s \in ClientSession,
         NEW STATE sent, NEW STATE asks, Sending(p, f, s, sent, asks),
         Send(p, f, sent, asks), UNCHANGED <<connVars, userVars, runs>>
  PROVE  MsgInv'
<1>a. /\ p \in 1 .. runs /\ s = entry[p].session
      /\ sent \in [1 .. runs -> EntryType] /\ asks \in [ClientSession -> AskType]
      /\ \A q \in 1 .. runs : q # p => sent[q] = entry[q]
      /\ sent[p].session = s /\ sent[p].use = entry[p].use
      /\ sent[p].version = version /\ sent[p].index = index
      /\ \A t \in ClientSession : t # s => asks[t] = requests[t]
      /\ asks[s].conflict = requests[s].conflict
      /\ ~asks[s].conflict => /\ responses[s] = p /\ asks[s].use = entry[p].use
                              /\ sent[p].from \in asks[s].on /\ asks[s].answer = 0
      /\ requests[s].use <= asks[s].use
      /\ asks[s].last # 0 => /\ gate[asks[s].last] # "none" /\ asks[s].last \notin handshake
                             /\ asks[s].last \in asks[s].on
      /\ asks[s].last = f \/ (asks = requests /\ entry[p].fd = f)
  BY DEF Sending
<1> USE <1>a
<1> DEFINE done == [sent EXCEPT ![p].fd = 0]
<1>0. /\ MsgTypes /\ Connected /\ Entered /\ AnswerComes /\ Indexed
      /\ \A t \in ClientSession : ~requests[t].conflict => InOrder(t)
  BY DEF MsgInv
<1>1. /\ index \in 0 .. 2 * expired_number - 1 /\ index + 1 \in 1 .. 2 * expired_number
      /\ runs \in Nat /\ entry \in [1 .. runs -> EntryType]
      /\ responses \in [ClientSession -> 0 .. runs]
      /\ requests \in [ClientSession -> AskType]
      /\ since \in [ClientSession -> 0 .. expired_number]
  BY <1>0, MsgAssumption DEF MsgTypes
<1>2. /\ done \in [1 .. runs -> EntryType]
      /\ \A q \in 1 .. runs : q # p => done[q] = entry[q]
      /\ done[p] = [sent[p] EXCEPT !.fd = 0]
  BY DEF EntryType
<1>3. /\ done[p].session = s /\ done[p].use = entry[p].use /\ done[p].fd = 0
      /\ done[p].from = sent[p].from /\ done[p].version = version /\ done[p].index = index
  BY <1>2 DEF EntryType
<1>4. /\ Retire(index + 1, responses, done)
      /\ since' = [x \in ClientSession |->
          IF x = s /\ sent[p].use = asks[s].use THEN 0
          ELSE IF x # s /\ since[x] < expired_number THEN since[x] + 1 ELSE since[x]]
      /\ requests' = IF f = asks[s].last /\ Used(f)
                     THEN [asks EXCEPT ![s].answer = sent[p].use] ELSE asks
  BY DEF Send
<1> HIDE DEF done
<1>5. \A t \in ClientSession :
        responses[t] # 0 => responses[t] \in 1 .. runs /\ Entry(t).session = t
  BY <1>0, <1>1 DEF Entered
<1>6. \A t \in ClientSession : responses[t] = p => t = s
  BY <1>5 DEF Entry
<1>7. \A t \in Ready(responses, done) :
        /\ t \in ClientSession /\ responses[t] \in 1 .. runs
        /\ responses[t] = p \/ (responses[t] # p /\ Complete(t) /\ done[responses[t]] = Entry(t))
  BY <1>2, <1>5 DEF Ready, Complete, Entry
<1>8. \A t \in Ready(responses, done) : done[responses[t]].index < index + 1
  <2> SUFFICES ASSUME NEW t \in Ready(responses, done)
               PROVE  done[responses[t]].index < index + 1
    OBVIOUS
  <2>1. CASE responses[t] = p
    BY <1>1, <1>3, <2>1
  <2>2. CASE responses[t] # p
    <3>1. Complete(t) /\ done[responses[t]] = Entry(t) /\ responses[t] \in 1 .. runs
      BY <1>7, <2>2
    <3>2. Entry(t).index < index /\ Entry(t).index \in Nat
      BY <1>0, <1>1, <1>7, <3>1 DEF Indexed, Entry, EntryType
    <3> QED
      BY <1>1, <3>1, <3>2
  <2> QED
    BY <2>1, <2>2
<1>9. \A t, u \in Ready(responses, done) :
        t # u => done[responses[t]].index # done[responses[u]].index
  <2>1. ASSUME NEW t \in Ready(responses, done), responses[t] # p
        PROVE  done[responses[t]].index < index /\ done[responses[t]].index = Entry(t).index
    BY <1>0, <1>7, <2>1 DEF Indexed
  <2> SUFFICES ASSUME NEW t \in Ready(responses, done), NEW u \in Ready(responses, done), t # u
               PROVE  done[responses[t]].index # done[responses[u]].index
    OBVIOUS
  <2>2. CASE responses[t] = p
    BY <1>1, <1>3, <1>6, <1>7, <2>1, <2>2
  <2>3. CASE responses[u] = p
    BY <1>1, <1>3, <1>6, <1>7, <2>1, <2>3
  <2>4. CASE responses[t] # p /\ responses[u] # p
    BY <1>0, <1>7, <2>1, <2>4 DEF Indexed
  <2> QED
    BY <2>2, <2>3, <2>4
<1>11. /\ index' \in 0 .. 2 * expired_number - 1
       /\ entry' \in [1 .. runs -> EntryType]
       /\ responses' \in [ClientSession -> 0 .. runs]
       /\ \A q \in 1 .. runs : /\ entry'[q].session = done[q].session
                               /\ entry'[q].use = done[q].use
                               /\ entry'[q].fd = done[q].fd
                               /\ entry'[q].from = done[q].from
                               /\ entry'[q].version = done[q].version
       /\ \A t \in ClientSession :
            /\ responses'[t] = responses[t] \/ (responses'[t] = 0 /\ t \in Ready(responses, done))
            /\ t \in Ready(responses, done)
                 /\ done[responses[t]].index + expired_number >= index + 1 =>
                 /\ responses'[t] = responses[t]
                 /\ entry'[responses[t]].index - done[responses[t]].index >= index' - (index + 1)
       /\ \A t \in Ready(responses', entry') : entry'[responses'[t]].index < index'
       /\ \A t, u \in Ready(responses', entry') :
            t # u => entry'[responses'[t]].index # entry'[responses'[u]].index
  <2>1. Settled(runs, responses, done, index + 1)
    BY <1>1, <1>2, <1>8, <1>9 DEF Settled
  <2>2. Kept(runs, responses, done, index + 1)
    BY <1>4, <2>1, RetireKeeps
  <2> QED
    BY <2>2 DEF Kept
<1>12. /\ \A q \in 1 .. runs : /\ entry'[q].session = entry[q].session
                               /\ entry'[q].use = entry[q].use
                               /\ q # p => /\ entry'[q].fd = entry[q].fd
                                           /\ entry'[q].from = entry[q].from
                                           /\ entry'[q].version = entry[q].version
       /\ entry'[p].fd = 0 /\ entry'[p].from = sent[p].from /\ entry'[p].version = version
  <2>1. ASSUME NEW q \in 1 .. runs
        PROVE  /\ entry'[q].session = done[q].session /\ entry'[q].use = done[q].use
               /\ entry'[q].fd = done[q].fd /\ entry'[q].from = done[q].from
               /\ entry'[q].version = done[q].version
    BY <1>11
  <2>2. /\ entry'[p].fd = 0 /\ entry'[p].from = sent[p].from /\ entry'[p].version = version
        /\ entry'[p].session = s /\ entry'[p].use = entry[p].use
    BY <1>3, <2>1
  <2> QED
    BY <1>2, <2>1, <2>2
<1>13. /\ requests' \in [ClientSession -> AskType]
       /\ \A t \in ClientSession : t # s => requests'[t] = requests[t]
       /\ requests'[s].use = asks[s].use /\ requests'[s].on = asks[s].on
       /\ requests'[s].last = asks[s].last /\ requests'[s].conflict = asks[s].conflict
       /\ requests'[s].answer = IF f = asks[s].last /\ Used(f) THEN entry[p].use ELSE asks[s].answer
  <2>1. entry[p].use \in Nat
    BY <1>1 DEF EntryType
  <2>2. CASE f = asks[s].last /\ Used(f)
    <3>1. requests' = [asks EXCEPT ![s] = [asks[s] EXCEPT !.answer = entry[p].use]]
      BY <1>4, <2>2
    <3>2. asks[s] \in AskType
      OBVIOUS
    <3> QED
      BY <2>1, <2>2, <3>1, <3>2 DEF AskType
  <2>3. CASE ~(f = asks[s].last /\ Used(f))
    BY <1>4, <2>3
  <2> QED
    BY <2>2, <2>3
<1>14. /\ gate' = gate /\ handshake' = handshake /\ connection' = connection /\ online' = online
       /\ version' = version /\ fd' = fd /\ runs' = runs /\ \A e : Used(e)' = Used(e)
  BY DEF connVars, userVars, Used
<1>15. MsgTypes'
  <2>1. since' \in [ClientSession -> 0 .. expired_number]
    <3>1. \A x \in ClientSession : since[x] \in 0 .. expired_number
      BY <1>1
    <3> QED
      BY <1>4, <3>1, MsgAssumption
  <2> QED
    BY <1>0, <1>11, <1>13, <1>14, <2>1 DEF MsgTypes
<1>16. Connected'
  <2>1. ASSUME NEW t \in ClientSession
        PROVE  requests[t].last # 0 =>
                 /\ gate[requests[t].last] # "none" /\ requests[t].last \notin handshake
                 /\ requests[t].last \in requests[t].on
    BY <1>0 DEF Connected
  <2>2. ASSUME NEW t \in ClientSession
        PROVE  requests'[t].last # 0 =>
                 /\ gate[requests'[t].last] # "none" /\ requests'[t].last \notin handshake
                 /\ requests'[t].last \in requests'[t].on
    BY <1>13, <2>1
  <2> QED
    BY <1>0, <1>14, <2>2 DEF Connected
<1>17. Entered'
  <2>1. \A q \in 1 .. runs : entry[q].session \in ClientSession /\ entry[q].use \in Nat
    BY <1>1 DEF EntryType
  <2>2. \A t \in ClientSession : requests[t].use <= requests'[t].use /\ requests[t].use \in Nat
                                 /\ requests'[t].use \in Nat
    <3> TAKE t \in ClientSession
    <3>1. requests[t] \in AskType /\ requests'[t] \in AskType
      BY <1>1, <1>13
    <3>2. requests[t].use \in Nat /\ requests'[t].use \in Nat
      BY <3>1 DEF AskType
    <3>3. CASE t = s
      BY <1>13, <3>2, <3>3
    <3>4. CASE t # s
      BY <1>13, <3>2, <3>4
    <3> QED
      BY <3>2, <3>3, <3>4
  <2>3. \A q \in 1 .. runs : entry[q].use <= requests[entry[q].session].use
    BY <1>0 DEF Entered
  <2>4. \A q \in 1 .. runs : entry'[q].use <= requests'[entry'[q].session].use
    BY <1>12, <2>1, <2>2, <2>3
  <2>5. \A t \in ClientSession : responses'[t] # 0 => entry'[responses'[t]].session = t
    BY <1>5, <1>11, <1>12 DEF Entry
  <2> QED
    BY <1>14, <2>4, <2>5 DEF Entered, Entry
<1>18. AnswerComes'
  <2> SUFFICES ASSUME NEW t \in ClientSession, requests'[t].last # 0, requests'[t].answer = 0,
                      Used(requests'[t].last)
               PROVE  \E q \in 1 .. runs : entry'[q].session = t /\ entry'[q].fd = requests'[t].last
    BY <1>11, <1>14 DEF AnswerComes
  <2>1. ASSUME requests'[t].last = requests[t].last, requests[t].answer = 0
        PROVE  \E q \in 1 .. runs : entry[q].session = t /\ entry[q].fd = requests[t].last
    BY <1>0, <1>1, <2>1 DEF AnswerComes
  <2>2. CASE t # s
    <3>1. PICK q \in 1 .. runs : entry[q].session = t /\ entry[q].fd = requests[t].last
      BY <1>13, <2>1, <2>2
    <3> QED
      BY <1>12, <1>13, <2>2, <3>1
  <2>3. CASE t = s
    <3>1. f # asks[s].last
      <4>1. entry[p].use # 0
        BY <1>1 DEF EntryType
      <4> QED
        BY <1>13, <2>3, <4>1
    <3>2. asks = requests /\ entry[p].fd = f
      BY <3>1
    <3>3. PICK q \in 1 .. runs : entry[q].session = t /\ entry[q].fd = requests[t].last
      BY <1>13, <2>1, <2>3, <3>1, <3>2
    <3> QED
      BY <1>12, <1>13, <2>3, <3>1, <3>2, <3>3
  <2> QED
    BY <2>2, <2>3
<1>19. \A t \in ClientSession : Complete(t)' <=> t \in Ready(responses', entry')
  BY DEF Complete, Ready, Entry
<1>20. Indexed'
  BY <1>11, <1>19 DEF Indexed, Entry
<1>21. ASSUME NEW t \in ClientSession, ~requests'[t].conflict
       PROVE  InOrder(t)'
  <2>1. ~requests[t].conflict /\ InOrder(t)
    BY <1>0, <1>13, <1>21
  <2>2. Of(t)' = Of(t) /\ Of(t) \subseteq 1 .. runs /\ \A q \in Of(t) : entry[q].session = t
    BY <1>12, <1>14 DEF Of
  <2>3. CASE t # s
    <3>1. p \notin Of(t) /\ responses[t] # p
      BY <1>6, <2>2, <2>3
    <3>2. requests'[t] = requests[t]
      BY <1>13, <2>3
    <3>3. \A q \in Of(t) : entry'[q].fd # 0 => responses'[t] = q
      <4> SUFFICES ASSUME NEW q \in Of(t), entry'[q].fd # 0 PROVE responses'[t] = q
        OBVIOUS
      <4>1. entry[q].fd # 0 /\ q # p /\ responses[t] = q /\ done[q].fd # 0
        BY <1>2, <1>12, <2>1, <2>2, <3>1 DEF InOrder
      <4>2. t \notin Ready(responses, done)
        BY <4>1 DEF Ready
      <4> QED
        BY <1>11, <4>1, <4>2
    <3>4. ASSUME responses'[t] # 0
          PROVE  /\ responses'[t] = responses[t] /\ responses[t] \in 1 .. runs
                 /\ entry'[responses'[t]].use = Entry(t).use
                 /\ entry'[responses'[t]].from = Entry(t).from
                 /\ entry'[responses'[t]].version = Entry(t).version
                 /\ entry'[responses'[t]].fd = Entry(t).fd
      BY <1>5, <1>11, <1>12, <3>1, <3>4 DEF Entry
    <3>5. ASSUME since'[t] < expired_number
          PROVE  Complete(t)' /\ entry'[responses'[t]].index + since'[t] + 1 >= index'
      <4>1. since[t] < expired_number /\ since'[t] = since[t] + 1 /\ since[t] \in Nat
        BY <1>1, <1>4, <2>3, <3>5
      <4>2. Complete(t) /\ Entry(t).index + since[t] + 1 >= index /\ responses[t] \in 1 .. runs
        BY <1>5, <2>1, <4>1 DEF InOrder, Complete
      <4>3. t \in Ready(responses, done) /\ done[responses[t]] = Entry(t)
        BY <1>2, <3>1, <4>2 DEF Ready, Complete, Entry
      <4>4. Entry(t).index \in Nat /\ Entry(t).index + expired_number >= index + 1
        <5>1. entry[responses[t]] \in EntryType
          BY <1>1, <4>2
        <5>2. Entry(t).index \in Nat
          BY <5>1 DEF Entry, EntryType
        <5> QED
          BY <1>1, <3>5, <4>1, <4>2, <5>2, MsgAssumption
      <4>5. /\ responses'[t] = responses[t]
            /\ entry'[responses[t]].index - Entry(t).index >= index' - (index + 1)
        BY <1>11, <4>3, <4>4
      <4>6. entry'[responses[t]].index \in Nat
        BY <1>11, <4>2 DEF EntryType
      <4>7. Complete(t)'
        BY <1>12, <3>1, <4>2, <4>5 DEF Complete, Entry
      <4> QED
        BY <1>1, <1>11, <4>1, <4>2, <4>4, <4>5, <4>6, <4>7
    <3>6. \A q \in Of(t) : entry'[q].fd = entry[q].fd
      BY <1>12, <2>2, <3>1
    <3> HIDE DEF Ready
    <3> QED
      BY <2>1, <2>2, <3>2, <3>3, <3>4, <3>5, <3>6 DEF InOrder, Entry
  <2>4. CASE t = s
    <3>1. /\ responses[s] = p /\ asks[s].use = entry[p].use
          /\ sent[p].from \in asks[s].on /\ asks[s].answer = 0
      BY <1>13, <1>21, <2>4
    <3>2. s \in Ready(responses, done) /\ done[responses[s]].index = index
      BY <1>3, <3>1 DEF Ready
    <3>3. responses'[s] = p /\ entry'[p].index - index >= index' - (index + 1)
      <4>1. index + expired_number >= index + 1
        BY <1>1, MsgAssumption
      <4> QED
        BY <1>11, <3>1, <3>2, <4>1
    <3>4. since'[s] = 0
      BY <1>4, <3>1
    <3>5. Complete(s)' /\ entry'[p].index + since'[s] + 1 >= index'
      <4>1. entry'[p].index \in Nat
        BY <1>11 DEF EntryType
      <4>2. entry'[p].index + since'[s] + 1 >= index'
        <5>1. index \in Nat /\ index' \in Nat
          BY <1>1, <1>11
        <5> QED
          BY <3>3, <3>4, <4>1, <5>1
      <4>3. p # 0 /\ entry'[p].fd = 0
        BY <1>1, <1>12
      <4> QED
        BY <3>3, <4>2, <4>3 DEF Complete, Entry
    <3>6. \A q \in Of(s) : entry'[q].fd = 0 /\ q <= p
      BY <1>12, <2>1, <2>2, <2>4, <3>1 DEF InOrder
    <3>7. requests'[s].answer # 0 => /\ requests'[s].answer = requests'[s].use
                                     /\ version = requests'[s].last
      BY <1>0, <1>13, <3>1, UsedIsVersion
    <3>8. /\ entry'[p].use = entry[p].use /\ entry'[p].from = sent[p].from
          /\ entry'[p].version = version
          /\ requests'[s].use = entry[p].use /\ requests'[s].on = asks[s].on
      BY <1>12, <1>13, <3>1
    <3>9. InOrder(s)'
      BY <2>2, <2>4, <3>1, <3>3, <3>5, <3>6, <3>7, <3>8 DEF InOrder, Entry
    <3> QED
      BY <2>4, <3>9
  <2> QED
    BY <2>3, <2>4
<1> QED
  BY <1>15, <1>16, <1>17, <1>18, <1>20, <1>21 DEF MsgInv

\* Connections come and go without a request.
LEMMA ConnectionKeeps ==
  ASSUME MsgInv, UNCHANGED cacheVars, MsgTypes', Connected',
         \A f \in Fds : Used(f)' => Used(f) \/ f \in handshake
  PROVE  MsgInv'
<1>1. /\ index' = index /\ responses' = responses /\ entry' = entry /\ runs' = runs
      /\ requests' = requests /\ since' = since
  BY DEF cacheVars
<1>2. /\ MsgTypes /\ Connected /\ Entered /\ AnswerComes /\ Indexed
      /\ \A t \in ClientSession : ~requests[t].conflict => InOrder(t)
  BY DEF MsgInv
<1>3. Entered' /\ Indexed' /\ \A t \in ClientSession : ~requests'[t].conflict => InOrder(t)'
  BY <1>1, <1>2 DEF Entered, Indexed, InOrder, Complete, Entry, Of
<1>4. AnswerComes'
  <2> SUFFICES ASSUME NEW s \in ClientSession, requests[s].last # 0, requests[s].answer = 0,
                      Used(requests[s].last)'
               PROVE  \E p \in DOMAIN entry : entry[p].session = s /\ entry[p].fd = requests[s].last
    BY <1>1 DEF AnswerComes
  <2>1. requests[s].last \in Fds /\ requests[s].last \notin handshake
    BY <1>2 DEF MsgTypes, AskType, Connected
  <2>2. Used(requests[s].last)
    BY <1>1, <2>1 DEF Used
  <2> QED
    BY <1>2, <2>2 DEF AnswerComes
<1> QED
  BY <1>3, <1>4 DEF MsgInv

LEMMA OpenKeeps == ASSUME MsgInv, NEW f \in Fds, Open(f) PROVE MsgInv'
<1>1. MsgTypes /\ Connected
  BY DEF MsgInv
<1>2. /\ gate[f] = "none" /\ gate' = [gate EXCEPT ![f] = "true"] /\ handshake' = handshake \cup {f}
      /\ UNCHANGED cacheVars /\ connection' = connection /\ online' = online /\ version' = version
      /\ fd' = fd
      /\ index' = index /\ responses' = responses /\ entry' = entry /\ runs' = runs
      /\ requests' = requests /\ since' = since
  BY DEF Open, userVars, cacheVars
<1>3. MsgTypes'
  BY <1>1, <1>2 DEF MsgTypes
<1>4. \A e \in Fds : gate[e] # "none" => gate'[e] # "none" /\ e # f
  BY <1>1, <1>2 DEF MsgTypes
<1>5. Connected'
  <2>1. connection' \cap handshake' = {}
    BY <1>1, <1>2 DEF Connected
  <2>2. \A e \in connection' \cup handshake' : gate'[e] # "none"
    BY <1>1, <1>2, <1>4 DEF Connected, MsgTypes
  <2>3. version' # 0 => gate'[version'] # "none"
    BY <1>1, <1>2, <1>4 DEF Connected, MsgTypes
  <2>4. ASSUME NEW s \in ClientSession, requests[s].last # 0
        PROVE  /\ gate'[requests[s].last] # "none" /\ requests[s].last \notin handshake'
               /\ requests[s].last \in requests[s].on
    <3>1. requests[s].last \in Fds
      BY <1>1, <2>4 DEF MsgTypes, AskType
    <3> QED
      BY <1>1, <1>2, <1>4, <2>4, <3>1 DEF Connected
  <2> QED
    BY <1>1, <1>2, <2>1, <2>2, <2>3, <2>4 DEF Connected
<1>6. \A e \in Fds : Used(e)' => Used(e)
  <2> SUFFICES ASSUME NEW e \in Fds, Used(e)' PROVE Used(e)
    OBVIOUS
  <2>1. e \in connection /\ e # f
    BY <1>1, <1>2 DEF Used, Connected
  <2> QED
    BY <1>1, <1>2, <1>4, <2>1 DEF Used, MsgTypes
<1> QED
  BY <1>2, <1>3, <1>5, <1>6, ConnectionKeeps

\* Closing a connection opens none.
LEMMA ClosedIs ==
  ASSUME MsgTypes, NEW f \in Fds
  PROVE  /\ Closed(f) \in [Fds -> {"none", "true", "false", "gone"}]
         /\ \A e \in Fds : (Closed(f)[e] = "none" <=> gate[e] = "none")
                           /\ (Closed(f)[e] = "true" => gate[e] = "true" /\ e # f)
BY DEF MsgTypes, Closed

LEMMA AuthKeeps == ASSUME MsgInv, NEW f \in Fds, Auth(f) PROVE MsgInv'
<1>1. MsgTypes /\ Connected
  BY DEF MsgInv
<1>2. /\ gate[f] = "true" /\ f \in handshake /\ handshake' = handshake \ {f}
      /\ online' = online /\ UNCHANGED cacheVars
      /\ index' = index /\ responses' = responses /\ entry' = entry /\ runs' = runs
      /\ requests' = requests /\ since' = since
  BY DEF Auth, cacheVars
<1>3. \/ /\ f > version /\ version' = f /\ fd' = f /\ connection' = connection \cup {f}
         /\ gate' = gate
      \/ /\ gate' = Closed(f) /\ version' = version /\ fd' = fd /\ connection' = connection
  BY DEF Auth
<1>4. /\ gate' \in [Fds -> {"none", "true", "false", "gone"}]
      /\ \A e \in Fds : (gate'[e] = "none" <=> gate[e] = "none")
                        /\ (gate'[e] = "true" => gate[e] = "true")
  BY <1>1, <1>3, ClosedIs DEF MsgTypes
<1>5. /\ connection' \subseteq connection \cup {f} /\ version' \in Fds \cup {0}
      /\ fd' \in Fds \cup {0} /\ handshake' \subseteq Fds /\ connection' \subseteq Fds
  BY <1>1, <1>2, <1>3 DEF MsgTypes
<1>6. MsgTypes'
  BY <1>1, <1>2, <1>4, <1>5 DEF MsgTypes
<1>7. Connected'
  <2>1. connection' \cap handshake' = {}
    BY <1>1, <1>2, <1>5 DEF Connected
  <2>2. \A e \in connection' \cup handshake' : gate'[e] # "none"
    <3>1. \A e \in connection' \cup handshake' : e \in Fds /\ e \in connection \cup handshake
      BY <1>2, <1>5
    <3> QED
      BY <1>1, <1>4, <3>1 DEF Connected
  <2>3. version' # 0 => gate'[version'] # "none"
    BY <1>1, <1>2, <1>3, <1>4, <1>5 DEF Connected
  <2>4. \A e \in connection' : e <= version'
    <3>1. \A e \in connection : e <= version /\ e \in Nat
      BY <1>1, MsgAssumption DEF Connected, MsgTypes
    <3>2. f \in Nat /\ version \in Nat
      BY <1>1, MsgAssumption DEF MsgTypes
    <3> QED
      BY <1>3, <3>1, <3>2
  <2>5. ASSUME NEW s \in ClientSession, requests[s].last # 0
        PROVE  /\ gate'[requests[s].last] # "none" /\ requests[s].last \notin handshake'
               /\ requests[s].last \in requests[s].on
    <3>1. requests[s].last \in Fds
      BY <1>1, <2>5 DEF MsgTypes, AskType
    <3> QED
      BY <1>1, <1>2, <1>4, <2>5, <3>1 DEF Connected
  <2> QED
    BY <1>2, <2>1, <2>2, <2>3, <2>4, <2>5 DEF Connected
<1>8. \A e \in Fds : Used(e)' => Used(e) \/ e \in handshake
  BY <1>2, <1>4, <1>5 DEF Used
<1> QED
  BY <1>2, <1>6, <1>7, <1>8, ConnectionKeeps

\* Connections that are only closed, by the client, or by the logout of the user.
LEMMA ClosingKeeps ==
  ASSUME MsgInv, UNCHANGED cacheVars, version' = version,
         gate' \in [Fds -> {"none", "true", "false", "gone"}],
         \A e \in Fds : (gate'[e] = "none" <=> gate[e] = "none")
                        /\ (gate'[e] = "true" => gate[e] = "true"),
         handshake' \subseteq handshake, connection' \subseteq connection,
         online' \in BOOLEAN, fd' \in Fds \cup {0}
  PROVE  MsgInv'
<1>1. MsgTypes /\ Connected
  BY DEF MsgInv
<1>2. /\ index' = index /\ responses' = responses /\ entry' = entry /\ runs' = runs
      /\ requests' = requests /\ since' = since
  BY DEF cacheVars
<1>3. MsgTypes'
  BY <1>1, <1>2 DEF MsgTypes
<1>4. Connected'
  <2>1. connection' \cap handshake' = {} /\ \A e \in connection' : e <= version'
    BY <1>1 DEF Connected
  <2>2. \A e \in connection' \cup handshake' : gate'[e] # "none"
    BY <1>1 DEF Connected, MsgTypes
  <2>3. version' # 0 => gate'[version'] # "none"
    BY <1>1 DEF Connected, MsgTypes
  <2>4. ASSUME NEW s \in ClientSession, requests[s].last # 0
        PROVE  /\ gate'[requests[s].last] # "none" /\ requests[s].last \notin handshake'
               /\ requests[s].last \in requests[s].on
    <3>1. requests[s].last \in Fds
      BY <1>1, <2>4 DEF MsgTypes, AskType
    <3> QED
      BY <1>1, <2>4, <3>1 DEF Connected
  <2> QED
    BY <1>2, <2>1, <2>2, <2>3, <2>4 DEF Connected
<1>5. \A e \in Fds : Used(e)' => Used(e)
  BY DEF Used
<1> QED
  BY <1>3, <1>4, <1>5, ConnectionKeeps

LEMMA CloseKeeps == ASSUME MsgInv, NEW f \in Fds, Close(f) PROVE MsgInv'
<1>1. MsgTypes
  BY DEF MsgInv
<1>2. /\ gate[f] \in {"true", "false"} /\ gate' = [gate EXCEPT ![f] = "gone"]
      /\ handshake' = handshake \ {f} /\ connection' = connection \ {f}
      /\ fd' \in {0, fd} /\ online' = online /\ version' = version /\ UNCHANGED cacheVars
  BY DEF Close
<1>3. /\ gate' \in [Fds -> {"none", "true", "false", "gone"}]
      /\ \A e \in Fds : (gate'[e] = "none" <=> gate[e] = "none")
                        /\ (gate'[e] = "true" => gate[e] = "true")
  BY <1>1, <1>2 DEF MsgTypes
<1>4. /\ handshake' \subseteq handshake /\ connection' \subseteq connection
      /\ online' \in BOOLEAN /\ fd' \in Fds \cup {0}
  BY <1>1, <1>2 DEF MsgTypes
<1> QED
  BY <1>2, <1>3, <1>4, ClosingKeeps

LEMMA LogoutKeeps == ASSUME MsgInv, Logout PROVE MsgInv'
<1>1. MsgTypes
  BY DEF MsgInv
<1>2. /\ online' = FALSE /\ handshake' = handshake /\ version' = version /\ fd' = fd
      /\ UNCHANGED cacheVars
  BY DEF Logout
<1>3. \/ gate' = gate /\ connection' = connection
      \/ fd \in Fds /\ gate' = Closed(fd) /\ connection' = connection \ {fd}
  BY <1>1 DEF Logout, MsgTypes
<1>4. /\ gate' \in [Fds -> {"none", "true", "false", "gone"}]
      /\ \A e \in Fds : (gate'[e] = "none" <=> gate[e] = "none")
                        /\ (gate'[e] = "true" => gate[e] = "true")
  BY <1>1, <1>3, ClosedIs DEF MsgTypes
<1>5. /\ handshake' \subseteq handshake /\ connection' \subseteq connection
      /\ online' \in BOOLEAN /\ fd' \in Fds \cup {0}
  BY <1>1, <1>2, <1>3 DEF MsgTypes
<1> QED
  BY <1>2, <1>4, <1>5, ClosingKeeps

\* What a session is when a request comes on f.
AskAgain(a, u, o, f) == [a EXCEPT !.use = u, !.on = o, !.last = f, !.answer = 0]

LEMMA AskIs ==
  ASSUME NEW STATE a, a \in AskType, NEW STATE u, u \in Nat, NEW STATE o, o \in SUBSET Fds,
         NEW f \in Fds
  PROVE  /\ AskAgain(a, u, o, f) \in AskType
         /\ AskAgain(a, u, o, f).use = u /\ AskAgain(a, u, o, f).on = o
         /\ AskAgain(a, u, o, f).last = f /\ AskAgain(a, u, o, f).answer = 0
         /\ AskAgain(a, u, o, f).conflict = a.conflict
<1> DEFINE b1 == [a EXCEPT !.use = u]
           b2 == [b1 EXCEPT !.on = o]
           b3 == [b2 EXCEPT !.last = f]
           b4 == [b3 EXCEPT !.answer = 0]
<1>1. b1 \in AskType /\ b1.use = u /\ b1.conflict = a.conflict
  BY DEF AskType
<1>2. b2 \in AskType /\ b2.use = u /\ b2.on = o /\ b2.conflict = a.conflict
  <2> HIDE DEF b1
  <2> QED
    BY <1>1 DEF AskType
<1>3. b3 \in AskType /\ b3.use = u /\ b3.on = o /\ b3.last = f /\ b3.conflict = a.conflict
  <2> HIDE DEF b2
  <2> QED
    BY <1>2 DEF AskType
<1>4. b4 \in AskType /\ b4.use = u /\ b4.on = o /\ b4.last = f /\ b4.answer = 0
      /\ b4.conflict = a.conflict
  <2> HIDE DEF b3
  <2> QED
    BY <1>3 DEF AskType
<1> QED
  BY <1>4 DEF AskAgain

\* What a client has done when its request comes.
LEMMA AskedOnIs ==
  ASSUME MsgTypes, Connected, NEW f \in Fds, NEW s \in ClientSession, Comes(f, s)
  PROVE  /\ AskedOn(f, s) \in [ClientSession -> AskType]
         /\ \A t \in ClientSession : t # s => AskedOn(f, s)[t] = requests[t]
         /\ IsNew(f, s) => AskedOn(f, s)[s].use = requests[s].use + 1
         /\ ~IsNew(f, s) => /\ AskedOn(f, s)[s].use = requests[s].use
                            /\ AskedOn(f, s)[s].on = requests[s].on \cup {f}
         /\ f \in AskedOn(f, s)[s].on
         /\ requests[s].use <= AskedOn(f, s)[s].use
         /\ AskedOn(f, s)[s].last = f /\ AskedOn(f, s)[s].answer = 0
         /\ AskedOn(f, s)[s].conflict = requests[s].conflict
         /\ requests[s].use \in Nat /\ f \in connection
         /\ gate[f] # "none" /\ f \notin handshake
         /\ f \in requests[s].on => IsNew(f, s) /\ f = version
<1> DEFINE use == IF IsNew(f, s) THEN requests[s].use + 1 ELSE requests[s].use
           on == IF IsNew(f, s) THEN {f} ELSE requests[s].on \cup {f}
<1>1. requests \in [ClientSession -> AskType] /\ requests[s] \in AskType
  BY DEF MsgTypes
<1>2. /\ DOMAIN AskedOn(f, s) = ClientSession
      /\ \A t \in ClientSession : t # s => AskedOn(f, s)[t] = requests[t]
      /\ AskedOn(f, s)[s] =
           [requests[s] EXCEPT !.use = use, !.on = on, !.last = f, !.answer = 0]
  BY <1>1 DEF AskedOn
<1>3. /\ requests[s].use \in Nat /\ requests[s].on \subseteq Fds /\ requests[s].conflict \in BOOLEAN
        /\ use \in Nat /\ on \in SUBSET Fds
  BY <1>1 DEF AskType
<1> HIDE DEF use, on
<1>4. /\ AskedOn(f, s)[s] \in AskType
      /\ AskedOn(f, s)[s].use = use /\ AskedOn(f, s)[s].on = on
      /\ AskedOn(f, s)[s].last = f /\ AskedOn(f, s)[s].answer = 0
      /\ AskedOn(f, s)[s].conflict = requests[s].conflict
  <2>1. AskedOn(f, s)[s] = AskAgain(requests[s], use, on, f)
    BY <1>2 DEF AskAgain
  <2> QED
    BY <1>1, <1>3, <2>1, AskIs
<1>6. AskedOn(f, s) \in [ClientSession -> AskType]
  <2>1. AskedOn(f, s) = [t \in ClientSession |-> AskedOn(f, s)[t]]
    BY <1>1 DEF AskedOn
  <2> QED
    BY <1>1, <1>2, <1>4, <2>1
<1>5. f \in connection /\ gate[f] # "none" /\ f \notin handshake
      /\ (f \in requests[s].on => IsNew(f, s) /\ f = version)
  BY DEF Comes, Connected
<1> QED
  BY <1>2, <1>3, <1>4, <1>5, <1>6 DEF use, on

\* A session that did not come to a conflict is in the cache as its client used it: the
\* request that comes is not new if the entry is of another version.
LEMMA NotCurrent ==
  ASSUME MsgInv, NEW f \in Fds, NEW s \in ClientSession, Comes(f, s),
         responses[s] # 0, ~Current(s), ~requests[s].conflict
  PROVE  ~IsNew(f, s)
<1>1. MsgTypes /\ Connected /\ Entered /\ InOrder(s)
  BY DEF MsgInv
<1>2. responses[s] \in 1 .. runs /\ Entry(s) \in EntryType /\ requests[s] \in AskType
  BY <1>1 DEF MsgTypes, Entry
<1>3. requests[s].use # 0
  BY <1>1, <1>2 DEF InOrder, EntryType
<1>4. ASSUME requests[s].last = f, requests[s].answer # 0
      PROVE  FALSE
  <2>1. f \in requests[s].on
    BY <1>1, <1>4, MsgAssumption DEF Connected
  <2>2. f = version
    BY <1>1, <2>1, AskedOnIs
  <2> QED
    BY <1>1, <1>4, <2>2 DEF InOrder, Current
<1> QED
  BY <1>3, <1>4 DEF IsNew

\* A request changes the state of its own session only.
LEMMA RequestKeeps ==
  ASSUME MsgInv, NEW f \in Fds, NEW s \in ClientSession, MsgTypes', Connected',
         \A t \in ClientSession : t # s =>
           /\ requests'[t] = requests[t] /\ since'[t] = since[t] /\ responses'[t] = responses[t]
           /\ Of(t)' = Of(t) /\ \A p \in Of(t) : entry'[p] = entry[p],
         index' = index,
         \A g \in Fds : Used(g)' => Used(g),
         \A p \in 1 .. runs' : entry'[p].session = s => entry'[p].use <= requests'[s].use,
         responses'[s] # 0 => entry'[responses'[s]].session = s,
         ~Complete(s)',
         Used(f)' => \E p \in 1 .. runs' : entry'[p].session = s /\ entry'[p].fd = f,
         requests'[s].last = f,
         ~requests'[s].conflict => InOrder(s)'
  PROVE  MsgInv'
<1>1. /\ MsgTypes /\ Connected /\ Entered /\ AnswerComes /\ Indexed
      /\ \A t \in ClientSession : ~requests[t].conflict => InOrder(t)
  BY DEF MsgInv
<1>2. /\ entry \in [1 .. runs -> EntryType] /\ entry' \in [1 .. runs' -> EntryType]
      /\ responses \in [ClientSession -> 0 .. runs]
  BY <1>1 DEF MsgTypes
<1>3. ASSUME NEW t \in ClientSession, t # s, responses[t] # 0
      PROVE  responses[t] \in Of(t) /\ Entry(t)' = Entry(t) /\ Entry(t).session = t
  <2>1. responses[t] \in Of(t) /\ Entry(t).session = t
    BY <1>1, <1>2, <1>3 DEF Entered, Of, Entry
  <2> QED
    BY <1>3, <2>1 DEF Entry
<1>4. ASSUME NEW t \in ClientSession, t # s
      PROVE  Complete(t)' <=> Complete(t)
  BY <1>3, <1>4 DEF Complete
<1>5. Entered'
  <2>1. ASSUME NEW p \in 1 .. runs', entry'[p].session # s
        PROVE  entry'[p].use <= requests'[entry'[p].session].use
    <3> DEFINE t == entry'[p].session
    <3>1. t \in ClientSession /\ t # s
      BY <1>2, <2>1 DEF EntryType
    <3>2. p \in Of(t)
      BY <3>1 DEF Of
    <3>3. entry'[p] = entry[p] /\ p \in 1 .. runs /\ entry[p].session = t
      BY <3>1, <3>2 DEF Of
    <3> QED
      BY <1>1, <3>1, <3>3 DEF Entered
  <2>2. ASSUME NEW t \in ClientSession, responses'[t] # 0
        PROVE  entry'[responses'[t]].session = t
    BY <1>3, <2>2 DEF Entry
  <2> QED
    BY <2>1, <2>2 DEF Entered, Entry
<1>6. AnswerComes'
  <2> SUFFICES ASSUME NEW t \in ClientSession, requests'[t].last # 0, requests'[t].answer = 0,
                      Used(requests[t].last)'
               PROVE  \E p \in 1 .. runs' :
                        entry'[p].session = t /\ entry'[p].fd = requests'[t].last
    BY <1>2 DEF AnswerComes
  <2>1. CASE t = s
    BY <2>1 DEF Used
  <2>2. CASE t # s
    <3>1. requests'[t] = requests[t] /\ requests[t].last \in Fds
      BY <1>1, <2>2 DEF MsgTypes, AskType
    <3>2. Used(requests[t].last)
      BY <3>1 DEF Used
    <3>3. PICK p \in 1 .. runs : entry[p].session = t /\ entry[p].fd = requests[t].last
      BY <1>1, <1>2, <3>1, <3>2 DEF AnswerComes
    <3>4. p \in Of(t) /\ p \in Of(t)' /\ entry'[p] = entry[p]
      BY <2>2, <3>3 DEF Of
    <3> QED
      BY <3>1, <3>3, <3>4 DEF Of
  <2> QED
    BY <2>1, <2>2
<1>7. Indexed'
  BY <1>1, <1>3, <1>4 DEF Indexed, Complete
<1>8. ASSUME NEW t \in ClientSession, ~requests'[t].conflict
      PROVE  InOrder(t)'
  <2>1. CASE t = s
    BY <1>8, <2>1
  <2>2. CASE t # s
    <3>1. InOrder(t) /\ requests'[t] = requests[t] /\ since'[t] = since[t]
          /\ responses'[t] = responses[t] /\ Of(t)' = Of(t)
      BY <1>1, <1>8, <2>2
    <3>2. \A p \in Of(t) : entry'[p] = entry[p]
      BY <2>2
    <3>3. CASE responses[t] = 0
      BY <1>4, <2>2, <3>1, <3>2, <3>3 DEF InOrder, Complete
    <3>4. CASE responses[t] # 0
      BY <1>3, <1>4, <2>2, <3>1, <3>2, <3>4 DEF InOrder
    <3> QED
      BY <3>3, <3>4
  <2> QED
    BY <2>1, <2>2
<1> QED
  BY <1>5, <1>6, <1>7, <1>8 DEF MsgInv

\* A request comes on a connection that is there.
LEMMA AskingConnected ==
  ASSUME MsgTypes, Connected, NEW f \in Fds, NEW s \in ClientSession, Comes(f, s),
         \A e \in Fds : gate'[e] = "none" <=> gate[e] = "none",
         handshake' = handshake, connection' = connection, version' = version,
         requests'[s].last = f, f \in requests'[s].on,
         \A t \in ClientSession : t # s => requests'[t] = requests[t]
  PROVE  Connected'
<1>1. f \in connection /\ gate'[f] # "none" /\ f \notin handshake
  BY DEF Comes, Connected, MsgTypes
<1>2. ASSUME NEW t \in ClientSession, requests'[t].last # 0
      PROVE  /\ gate'[requests'[t].last] # "none" /\ requests'[t].last \notin handshake'
             /\ requests'[t].last \in requests'[t].on
  <2>1. CASE t = s
    BY <1>1, <2>1
  <2>2. CASE t # s
    <3>1. requests'[t] = requests[t] /\ requests[t].last \in Fds
      BY <1>2, <2>2 DEF MsgTypes, AskType
    <3> QED
      BY <1>2, <3>1 DEF Connected
  <2> QED
    BY <2>1, <2>2
<1> QED
  BY <1>2 DEF Connected, MsgTypes

LEMMA ConflictKeeps ==
  ASSUME MsgInv, NEW f \in Fds, NEW s \in ClientSession, Conflict(f, s)
  PROVE  MsgInv'
<1>0. MsgTypes /\ Connected /\ Entered
  BY DEF MsgInv
<1>1. /\ Comes(f, s) /\ responses' = [responses EXCEPT ![s] = 0] /\ gate' = Closed(f)
      /\ requests' = [AskedOn(f, s) EXCEPT ![s].conflict = TRUE]
      /\ handshake' = handshake /\ connection' = connection /\ online' = online
      /\ version' = version /\ fd' = fd /\ index' = index /\ entry' = entry /\ runs' = runs
      /\ since' = since
  BY DEF Conflict, userVars
<1>2. /\ AskedOn(f, s) \in [ClientSession -> AskType]
      /\ \A t \in ClientSession : t # s => AskedOn(f, s)[t] = requests[t]
      /\ AskedOn(f, s)[s].last = f /\ f \in AskedOn(f, s)[s].on
      /\ requests[s].use \in Nat /\ requests[s].use <= AskedOn(f, s)[s].use
  BY <1>0, <1>1, AskedOnIs
<1>3. /\ requests' \in [ClientSession -> AskType]
      /\ \A t \in ClientSession : t # s => requests'[t] = requests[t]
      /\ requests'[s].last = f /\ f \in requests'[s].on /\ requests'[s].conflict
      /\ requests'[s].use = AskedOn(f, s)[s].use
  <2>1. requests' = [AskedOn(f, s) EXCEPT ![s] = [AskedOn(f, s)[s] EXCEPT !.conflict = TRUE]]
    BY <1>1
  <2> HIDE DEF AskType
  <2>2. AskedOn(f, s)[s] \in AskType
    BY <1>2
  <2>3. /\ [AskedOn(f, s)[s] EXCEPT !.conflict = TRUE] \in AskType
        /\ [AskedOn(f, s)[s] EXCEPT !.conflict = TRUE].last = AskedOn(f, s)[s].last
        /\ [AskedOn(f, s)[s] EXCEPT !.conflict = TRUE].on = AskedOn(f, s)[s].on
        /\ [AskedOn(f, s)[s] EXCEPT !.conflict = TRUE].use = AskedOn(f, s)[s].use
        /\ [AskedOn(f, s)[s] EXCEPT !.conflict = TRUE].conflict
    BY <2>2 DEF AskType
  <2> QED
    BY <1>2, <2>1, <2>3
<1>4. MsgTypes'
  <2>1. gate' \in [Fds -> {"none", "true", "false", "gone"}]
    BY <1>0, <1>1, ClosedIs
  <2>2. responses' \in [ClientSession -> 0 .. runs']
    BY <1>0, <1>1 DEF MsgTypes
  <2> QED
    BY <1>0, <1>1, <1>3, <2>1, <2>2 DEF MsgTypes
<1>5. \A e \in Fds : (gate'[e] = "none" <=> gate[e] = "none")
                     /\ (gate'[e] = "true" => gate[e] = "true" /\ e # f)
  BY <1>0, <1>1, ClosedIs
<1>6. Connected'
  BY <1>0, <1>1, <1>3, <1>5, AskingConnected
<1>7. \A g \in Fds : (Used(g)' => Used(g)) /\ ~Used(f)'
  BY <1>1, <1>5 DEF Used
<1>8. \A t \in ClientSession : t # s =>
        /\ requests'[t] = requests[t] /\ since'[t] = since[t] /\ responses'[t] = responses[t]
        /\ Of(t)' = Of(t) /\ \A p \in Of(t) : entry'[p] = entry[p]
  BY <1>0, <1>1, <1>3 DEF Of, MsgTypes
<1>9. responses'[s] = 0 /\ ~Complete(s)'
  BY <1>0, <1>1 DEF Complete, MsgTypes
<1>10. \A p \in 1 .. runs' : entry'[p].session = s => entry'[p].use <= requests'[s].use
  <2> SUFFICES ASSUME NEW p \in 1 .. runs, entry[p].session = s
               PROVE  entry[p].use <= requests'[s].use
    BY <1>1
  <2>1. entry[p].use <= requests[s].use /\ entry[p].use \in Nat
    BY <1>0 DEF Entered, MsgTypes, EntryType
  <2>2. requests'[s].use \in Nat
    BY <1>3 DEF AskType
  <2> QED
    BY <1>2, <1>3, <2>1, <2>2
<1> QED
  BY <1>1, <1>3, <1>4, <1>6, <1>7, <1>8, <1>9, <1>10, RequestKeeps

LEMMA RunAppends ==
  ASSUME MsgTypes, Connected, NEW f \in Fds, NEW s \in ClientSession, Run(f, s)
  PROVE  /\ requests' \in [ClientSession -> AskType]
         /\ \A t \in ClientSession : t # s => requests'[t] = requests[t]
         /\ requests'[s].use = entry'[runs'].use
         /\ requests'[s].last = f /\ requests'[s].answer = 0 /\ f \in requests'[s].on
         /\ requests'[s].conflict = requests[s].conflict
         /\ IsNew(f, s) => requests'[s].use = requests[s].use + 1
         /\ ~IsNew(f, s) => requests'[s].use = requests[s].use
         /\ requests[s].use \in Nat /\ requests[s].use <= requests'[s].use
         /\ requests'[s].use \in Nat
         /\ entry' \in [1 .. runs' -> EntryType] /\ \A p \in 1 .. runs : entry'[p] = entry[p]
         /\ entry'[runs'].session = s /\ entry'[runs'].fd = f /\ entry'[runs'].from = f
         /\ runs \in Nat /\ runs' = runs + 1
<1> DEFINE new == NewEntry(f, s)
<1>1. /\ Comes(f, s) /\ runs' = runs + 1 /\ entry' = Append(entry, new)
      /\ requests' = AskedOn(f, s)
  BY DEF Run
<1>2. /\ requests' \in [ClientSession -> AskType]
      /\ \A t \in ClientSession : t # s => requests'[t] = requests[t]
      /\ IsNew(f, s) => requests'[s].use = requests[s].use + 1
      /\ ~IsNew(f, s) => requests'[s].use = requests[s].use
      /\ f \in requests'[s].on
      /\ requests'[s].last = f /\ requests'[s].answer = 0
      /\ requests'[s].conflict = requests[s].conflict
      /\ requests[s].use \in Nat
  BY <1>1, AskedOnIs
<1>3. requests[s].use <= requests'[s].use /\ requests'[s].use \in Nat \ {0}
  BY <1>2 DEF IsNew
<1>4. /\ new \in EntryType /\ new.session = s /\ new.use = requests'[s].use /\ new.fd = f
      /\ new.from = f
  BY <1>1, <1>3 DEF NewEntry, EntryType
<1> HIDE DEF new
<1>5. /\ runs \in Nat /\ entry \in [1 .. runs -> EntryType]
  BY DEF MsgTypes
<1>6. /\ entry' \in [1 .. runs' -> EntryType] /\ entry'[runs'] = new
      /\ \A p \in 1 .. runs : entry'[p] = entry[p]
  <2>1. entry \in Seq(EntryType) /\ Len(entry) = runs
    BY <1>5
  <2>2. /\ Append(entry, new) \in Seq(EntryType) /\ Len(Append(entry, new)) = runs + 1
        /\ \A p \in 1 .. runs : Append(entry, new)[p] = entry[p]
        /\ Append(entry, new)[runs + 1] = new
    BY <1>4, <2>1, AppendProperties
  <2>3. Append(entry, new) \in [1 .. runs + 1 -> EntryType]
    BY <2>2, LenProperties
  <2> QED
    BY <1>1, <2>2, <2>3
<1> QED
  BY <1>1, <1>2, <1>3, <1>4, <1>5, <1>6

LEMMA RunKeeps ==
  ASSUME MsgInv, NEW f \in Fds, NEW s \in ClientSession, Run(f, s)
  PROVE  MsgInv'
<1>0. MsgTypes /\ Connected /\ Entered
  BY DEF MsgInv
<1>1. /\ Comes(f, s)
      /\ responses' = [responses EXCEPT ![s] = runs']
      /\ since' = [since EXCEPT ![s] = expired_number]
      /\ gate' = gate /\ handshake' = handshake /\ connection' = connection /\ online' = online
      /\ version' = version /\ fd' = fd /\ index' = index
  BY DEF Run, connVars, userVars
<1>2. /\ requests' \in [ClientSession -> AskType]
      /\ \A t \in ClientSession : t # s => requests'[t] = requests[t]
      /\ requests'[s].use = entry'[runs'].use
      /\ requests'[s].last = f /\ requests'[s].answer = 0 /\ f \in requests'[s].on
      /\ requests'[s].conflict = requests[s].conflict
      /\ requests[s].use \in Nat /\ requests[s].use <= requests'[s].use
      /\ requests'[s].use \in Nat
      /\ entry' \in [1 .. runs' -> EntryType] /\ \A p \in 1 .. runs : entry'[p] = entry[p]
      /\ entry'[runs'].session = s /\ entry'[runs'].fd = f /\ entry'[runs'].from = f
      /\ runs \in Nat /\ runs' = runs + 1
  BY <1>0, RunAppends
<1>5. /\ entry \in [1 .. runs -> EntryType]
      /\ responses \in [ClientSession -> 0 .. runs]
      /\ since \in [ClientSession -> 0 .. expired_number]
  BY <1>0 DEF MsgTypes
<1>7. MsgTypes'
  <2>1. responses' \in [ClientSession -> 0 .. runs']
    BY <1>1, <1>2, <1>5
  <2>2. since' \in [ClientSession -> 0 .. expired_number]
    BY <1>1, <1>2, <1>5, MsgAssumption
  <2> QED
    BY <1>0, <1>1, <1>2, <1>5, <2>1, <2>2 DEF MsgTypes
<1>8. Connected'
  BY <1>0, <1>1, <1>2, AskingConnected
<1>9. \A p \in 1 .. runs' : p = runs' \/ (p \in 1 .. runs /\ entry'[p] = entry[p])
  BY <1>1, <1>2, <1>5
<1>10. ASSUME NEW t \in ClientSession, t # s
       PROVE  /\ requests'[t] = requests[t] /\ since'[t] = since[t] /\ responses'[t] = responses[t]
              /\ Of(t)' = Of(t) /\ \A p \in Of(t) : entry'[p] = entry[p]
  <2>1. Of(t)' = Of(t)
    BY <1>1, <1>2, <1>5, <1>9, <1>10 DEF Of
  <2> QED
    BY <1>1, <1>2, <1>5, <1>10, <2>1 DEF Of
<1>11. \A p \in 1 .. runs' : entry'[p].session = s => entry'[p].use <= requests'[s].use
  <2> SUFFICES ASSUME NEW p \in 1 .. runs', entry'[p].session = s
               PROVE  entry'[p].use <= requests'[s].use
    OBVIOUS
  <2>1. CASE p = runs'
    BY <1>2, <2>1
  <2>2. CASE p \in 1 .. runs /\ entry'[p] = entry[p]
    <3>1. entry[p].use <= requests[s].use /\ entry[p].use \in Nat
      BY <1>0, <2>2 DEF Entered, MsgTypes, EntryType
    <3> QED
      BY <1>2, <2>2, <3>1
  <2> QED
    BY <1>9, <2>1, <2>2
<1>12. responses'[s] = runs' /\ runs' \in 1 .. runs' /\ f # 0 /\ ~Complete(s)'
  BY <1>1, <1>2, <1>5, MsgAssumption DEF Complete, Entry
<1>13. ASSUME ~requests'[s].conflict
       PROVE  InOrder(s)'
  <2>1. InOrder(s)
    BY <1>2, <1>13 DEF MsgInv
  <2>2. \A p \in Of(s) : entry[p].fd = 0
    <3>1. responses[s] = 0 \/ Entry(s).fd = 0
      BY DEF Run
    <3> QED
      BY <1>5, <2>1, <3>1 DEF InOrder, Of, Entry
  <2>3. ASSUME NEW p \in Of(s)'
        PROVE  p <= runs' /\ (entry'[p].fd # 0 => runs' = p)
    <3>1. p \in 1 .. runs' /\ entry'[p].session = s
      BY DEF Of
    <3>2. CASE p \in 1 .. runs /\ entry'[p] = entry[p]
      BY <1>1, <1>2, <1>5, <2>2, <3>1, <3>2 DEF Of
    <3> QED
      BY <1>1, <1>2, <1>5, <1>9, <3>1, <3>2
  <2>4. since'[s] = expired_number
    BY <1>1, <1>2, <1>5
  <2> QED
    BY <1>2, <1>12, <2>3, <2>4, MsgAssumption DEF InOrder, Entry
<1>14. \A g : Used(g)' => Used(g)
  BY <1>1 DEF Used
<1>15. /\ responses'[s] # 0 => entry'[responses'[s]].session = s
       /\ \E p \in 1 .. runs' : entry'[p].session = s /\ entry'[p].fd = f
  BY <1>2, <1>12
<1> QED
  BY <1>1, <1>2, <1>7, <1>8, <1>10, <1>11, <1>12, <1>13, <1>14, <1>15, RequestKeeps

\* The entry of a request that comes again, or whose handler returned.
Again(e, c, f) == [e EXCEPT ![c].from = f, ![c].version = version, ![c].index = index]

IsAgain(r, e, c, f) ==
  /\ r \in [1 .. runs -> EntryType]
  /\ \A q \in 1 .. runs : q # c => r[q] = e[q]
  /\ r[c].session = e[c].session /\ r[c].use = e[c].use /\ r[c].fd = e[c].fd /\ r[c].from = f
  /\ r[c].version = version /\ r[c].index = index

LEMMA AgainIs ==
  ASSUME MsgTypes, NEW STATE e, e \in [1 .. runs -> EntryType], NEW STATE c, c \in 1 .. runs,
         NEW STATE f, f \in Fds
  PROVE  IsAgain(Again(e, c, f), e, c, f)
<1> DEFINE b1 == [e EXCEPT ![c].from = f]
           b2 == [b1 EXCEPT ![c].version = version]
           b3 == [b2 EXCEPT ![c].index = index]
<1>0. version \in Nat /\ index \in Nat
  BY MsgAssumption DEF MsgTypes
<1>1. /\ b1 \in [1 .. runs -> EntryType] /\ \A q \in 1 .. runs : q # c => b1[q] = e[q]
      /\ b1[c].session = e[c].session /\ b1[c].use = e[c].use /\ b1[c].fd = e[c].fd
      /\ b1[c].from = f
  BY DEF EntryType
<1>2. /\ b2 \in [1 .. runs -> EntryType] /\ \A q \in 1 .. runs : q # c => b2[q] = e[q]
      /\ b2[c].session = e[c].session /\ b2[c].use = e[c].use /\ b2[c].fd = e[c].fd
      /\ b2[c].from = f /\ b2[c].version = version
  <2> HIDE DEF b1
  <2> QED
    BY <1>0, <1>1 DEF EntryType
<1>3. /\ b3 \in [1 .. runs -> EntryType] /\ \A q \in 1 .. runs : q # c => b3[q] = e[q]
      /\ b3[c].session = e[c].session /\ b3[c].use = e[c].use /\ b3[c].fd = e[c].fd
      /\ b3[c].from = f /\ b3[c].version = version /\ b3[c].index = index
  <2> HIDE DEF b2
  <2> QED
    BY <1>0, <1>2 DEF EntryType
<1> QED
  BY <1>3 DEF Again, IsAgain

LEMMA JoinKeeps ==
  ASSUME MsgInv, NEW f \in Fds, NEW s \in ClientSession, Join(f, s)
  PROVE  MsgInv'
<1> DEFINE c == responses[s]
           away == [entry EXCEPT ![c].fd = f]
<1>0. MsgTypes /\ Connected /\ Entered
  BY DEF MsgInv
<1>1. /\ Comes(f, s) /\ responses[s] # 0 /\ ~Current(s) /\ Entry(s).fd # 0
      /\ entry' = [entry EXCEPT ![c].fd = f, ![c].from = f, ![c].version = version,
                                ![c].index = index]
      /\ requests' = AskedOn(f, s)
      /\ gate' = gate /\ handshake' = handshake /\ connection' = connection /\ online' = online
      /\ version' = version /\ fd' = fd /\ index' = index /\ responses' = responses
      /\ runs' = runs /\ since' = since
  BY DEF Join, connVars, userVars
<1>2. /\ requests' \in [ClientSession -> AskType]
      /\ \A t \in ClientSession : t # s => requests'[t] = requests[t]
      /\ ~IsNew(f, s) => /\ requests'[s].use = requests[s].use
                         /\ requests'[s].on = requests[s].on \cup {f}
      /\ f \in requests'[s].on
      /\ requests'[s].last = f /\ requests'[s].answer = 0
      /\ requests'[s].conflict = requests[s].conflict
      /\ requests[s].use \in Nat /\ requests[s].use <= requests'[s].use
  BY <1>0, <1>1, AskedOnIs
<1>3. /\ runs \in Nat /\ entry \in [1 .. runs -> EntryType]
      /\ responses \in [ClientSession -> 0 .. runs] /\ c \in 1 .. runs
      /\ since \in [ClientSession -> 0 .. expired_number]
  BY <1>0, <1>1 DEF MsgTypes
<1>4. /\ away \in [1 .. runs -> EntryType] /\ \A q \in 1 .. runs : q # c => away[q] = entry[q]
      /\ away[c].session = entry[c].session /\ away[c].use = entry[c].use /\ away[c].fd = f
  BY <1>3 DEF EntryType
<1>5. entry' = Again(away, c, f)
  BY <1>1 DEF Again
<1> HIDE DEF away, c
<1>6. /\ entry' \in [1 .. runs -> EntryType] /\ \A q \in 1 .. runs : q # c => entry'[q] = entry[q]
      /\ entry'[c].session = entry[c].session /\ entry'[c].use = entry[c].use /\ entry'[c].fd = f
      /\ entry'[c].from = f
  <2>1. IsAgain(entry', away, c, f)
    BY <1>0, <1>3, <1>4, <1>5, AgainIs
  <2> QED
    BY <1>4, <2>1 DEF IsAgain
<1>7. \A q \in 1 .. runs : entry'[q].session = entry[q].session /\ entry'[q].use = entry[q].use
  BY <1>6
<1>8. entry[c].session = s /\ f # 0
  BY <1>0, <1>1, MsgAssumption DEF Entered, Entry, c
<1>9. MsgTypes'
  BY <1>0, <1>1, <1>2, <1>6 DEF MsgTypes
<1>10. Connected'
  BY <1>0, <1>1, <1>2, AskingConnected
<1>11. \A t \in ClientSession : Of(t)' = Of(t)
  BY <1>1, <1>7 DEF Of
<1>12. ASSUME NEW t \in ClientSession, t # s
       PROVE  /\ requests'[t] = requests[t] /\ since'[t] = since[t] /\ responses'[t] = responses[t]
              /\ Of(t)' = Of(t) /\ \A p \in Of(t) : entry'[p] = entry[p]
  BY <1>1, <1>2, <1>6, <1>8, <1>11, <1>12 DEF Of
<1>13. \A p \in 1 .. runs' : entry'[p].session = s => entry'[p].use <= requests'[s].use
  <2> SUFFICES ASSUME NEW p \in 1 .. runs, entry[p].session = s
               PROVE  entry[p].use <= requests'[s].use
    BY <1>1, <1>7
  <2>1. entry[p].use <= requests[s].use /\ entry[p].use \in Nat
    BY <1>0 DEF Entered, MsgTypes, EntryType
  <2>2. requests'[s].use \in Nat
    BY <1>2 DEF AskType
  <2> QED
    BY <1>2, <2>1, <2>2
<1>14. ~Complete(s)' /\ entry'[responses'[s]].session = s
  BY <1>1, <1>6, <1>8 DEF Complete, Entry, c
<1>15. ASSUME ~requests'[s].conflict
       PROVE  InOrder(s)'
  <2>1. InOrder(s) /\ ~IsNew(f, s)
    BY <1>1, <1>2, <1>15, NotCurrent DEF MsgInv
  <2>2. \A p \in Of(s) : entry[p].fd # 0 => p = c
    BY <2>1 DEF InOrder, c
  <2>3. \A p \in Of(s) : entry'[p].fd # 0 => p = c
    BY <1>6, <2>2 DEF Of
  <2>4. ~(since'[s] < expired_number)
    BY <1>1, <2>1 DEF InOrder, Complete
  <2>5. entry[c].use = requests[s].use /\ \A p \in Of(s) : p <= c
    BY <1>1, <2>1 DEF InOrder, Entry, c
  <2> QED
    BY <1>1, <1>2, <1>6, <1>11, <2>1, <2>3, <2>4, <2>5 DEF InOrder, Entry, c
<1>16. \A g : Used(g)' => Used(g)
  BY <1>1 DEF Used
<1>17. \E p \in 1 .. runs' : entry'[p].session = s /\ entry'[p].fd = f
  BY <1>1, <1>3, <1>6, <1>8
<1> QED
  BY <1>1, <1>2, <1>9, <1>10, <1>12, <1>13, <1>14, <1>15, <1>16, <1>17, RequestKeeps

LEMMA ResendKeeps ==
  ASSUME MsgInv, NEW f \in Fds, NEW s \in ClientSession, Resend(f, s)
  PROVE  MsgInv'
<1> PICK c : c = responses[s]
  OBVIOUS
<1> DEFINE sent == Again(entry, c, f)
           asks == AskedOn(f, s)
<1>0. MsgTypes /\ Connected /\ Entered
  BY DEF MsgInv
<1>1. /\ Comes(f, s) /\ responses[s] # 0 /\ ~Current(s) /\ Entry(s).fd = 0
      /\ Send(c, f, sent, asks) /\ UNCHANGED <<connVars, userVars, runs>>
  BY DEF Resend, Again
<1>2. /\ c \in 1 .. runs /\ entry \in [1 .. runs -> EntryType] /\ entry[c].session = s
  BY <1>0, <1>1 DEF MsgTypes, Entered, Entry
<1>3. /\ sent \in [1 .. runs -> EntryType]
      /\ \A q \in 1 .. runs : q # c => sent[q] = entry[q]
      /\ sent[c].session = s /\ sent[c].use = entry[c].use /\ sent[c].from = f
      /\ sent[c].version = version /\ sent[c].index = index
  <2>1. IsAgain(sent, entry, c, f)
    BY <1>0, <1>2, AgainIs
  <2> HIDE DEF sent
  <2> QED
    BY <1>2, <2>1 DEF IsAgain
<1>4. /\ asks \in [ClientSession -> AskType]
      /\ \A t \in ClientSession : t # s => asks[t] = requests[t]
      /\ ~IsNew(f, s) => asks[s].use = requests[s].use
      /\ f \in asks[s].on /\ requests[s].use <= asks[s].use
      /\ asks[s].last = f /\ asks[s].answer = 0 /\ asks[s].conflict = requests[s].conflict
      /\ gate[f] # "none" /\ f \notin handshake
  BY <1>0, <1>1, AskedOnIs
<1>5. ASSUME ~asks[s].conflict
      PROVE  asks[s].use = entry[c].use
  <2>1. InOrder(s) /\ ~IsNew(f, s)
    BY <1>1, <1>4, <1>5, NotCurrent DEF MsgInv
  <2> QED
    BY <1>1, <1>4, <2>1 DEF InOrder, Entry
<1> HIDE DEF sent, asks
<1>6. ~asks[s].conflict => /\ responses[s] = c /\ asks[s].use = entry[c].use
                           /\ sent[c].from \in asks[s].on /\ asks[s].answer = 0
  BY <1>3, <1>4, <1>5
<1>7. Sending(c, f, s, sent, asks)
  BY <1>2, <1>3, <1>4, <1>6 DEF Sending
<1> QED
  BY <1>1, <1>7, SendKeeps

LEMMA HandledKeeps ==
  ASSUME MsgInv, NEW p, Handled(p)
  PROVE  MsgInv'
<1> PICK s, f : s = entry[p].session /\ f = entry[p].fd
  OBVIOUS
<1> DEFINE sent == [entry EXCEPT ![p].version = version, ![p].index = index]
<1>0. MsgTypes /\ Connected /\ Entered
  BY DEF MsgInv
<1>1. /\ p \in 1 .. runs /\ f # 0 /\ Send(p, f, sent, requests)
      /\ UNCHANGED <<connVars, userVars, runs>> /\ entry \in [1 .. runs -> EntryType]
      /\ requests \in [ClientSession -> AskType]
  BY <1>0 DEF Handled, MsgTypes
<1>2. s \in ClientSession /\ f \in Fds /\ entry[p].from \in Fds /\ entry[p] \in EntryType
  BY <1>1 DEF EntryType
<1>3. sent = Again(entry, p, entry[p].from)
  <2>1. [entry EXCEPT ![p].from = entry[p].from] = entry
    BY <1>1, <1>2 DEF EntryType
  <2> QED
    BY <2>1 DEF Again
<1>4. /\ sent \in [1 .. runs -> EntryType]
      /\ \A q \in 1 .. runs : q # p => sent[q] = entry[q]
      /\ sent[p].session = s /\ sent[p].use = entry[p].use /\ sent[p].from = entry[p].from
      /\ sent[p].version = version /\ sent[p].index = index
  <2>1. IsAgain(sent, entry, p, entry[p].from)
    BY <1>0, <1>1, <1>2, <1>3, AgainIs
  <2> QED
    BY <2>1 DEF IsAgain
<1> HIDE DEF sent
<1>5. ASSUME ~requests[s].conflict
      PROVE  /\ responses[s] = p /\ requests[s].use = entry[p].use
             /\ sent[p].from \in requests[s].on /\ requests[s].answer = 0
  <2>1. InOrder(s) /\ p \in Of(s)
    BY <1>1, <1>2, <1>5 DEF MsgInv, Of
  <2>2. responses[s] = p /\ p # 0
    BY <1>0, <1>1, <2>1 DEF InOrder
  <2> QED
    BY <1>1, <1>4, <2>1, <2>2 DEF InOrder, Entry
<1>6. requests[s].last # 0 =>
        /\ gate[requests[s].last] # "none" /\ requests[s].last \notin handshake
        /\ requests[s].last \in requests[s].on
  BY <1>0, <1>2 DEF Connected
<1>7. requests[s].use <= requests[s].use
  BY <1>1, <1>2 DEF AskType
<1> QED
  <2>1. Sending(p, f, s, sent, requests)
    BY <1>1, <1>2, <1>4, <1>5, <1>6, <1>7 DEF Sending
  <2> QED
    BY <1>1, <1>2, <2>1, SendKeeps

LEMMA MsgKept == MsgInv /\ [MsgNext]_msgVars => MsgInv'
<1> SUFFICES ASSUME MsgInv, [MsgNext]_msgVars PROVE MsgInv'
  OBVIOUS
<1>1. CASE Logout
  BY <1>1, LogoutKeeps
<1>2. ASSUME NEW f \in Fds, Open(f) \/ Auth(f) \/ Close(f)
      PROVE  MsgInv'
  BY <1>2, OpenKeeps, AuthKeeps, CloseKeeps
<1>3. ASSUME NEW f \in Fds, NEW s \in ClientSession,
             Conflict(f, s) \/ Run(f, s) \/ Join(f, s) \/ Resend(f, s)
      PROVE  MsgInv'
  BY <1>3, ConflictKeeps, RunKeeps, JoinKeeps, ResendKeeps
<1>4. ASSUME NEW p \in 1 .. MaxRun, Handled(p)
      PROVE  MsgInv'
  BY <1>4, HandledKeeps
<1>5. CASE UNCHANGED msgVars
  <2>1. /\ gate' = gate /\ handshake' = handshake /\ connection' = connection
        /\ online' = online /\ version' = version /\ fd' = fd /\ requests' = requests
        /\ index' = index /\ runs' = runs /\ entry' = entry /\ responses' = responses
        /\ since' = since
    BY <1>5 DEF msgVars
  <2>2. UNCHANGED cacheVars
    BY <2>1 DEF cacheVars
  <2>3. MsgTypes' /\ Connected' /\ \A f \in Fds : Used(f)' => Used(f) \/ f \in handshake
    BY <2>1 DEF MsgInv, MsgTypes, Connected, Used
  <2> QED
    BY <2>2, <2>3, ConnectionKeeps
<1> QED
  BY <1>1, <1>2, <1>3, <1>4, <1>5 DEF MsgNext

\* The user has made no connection yet.
LEMMA MsgStarts == MsgInit => MsgInv
<1> SUFFICES ASSUME MsgInit PROVE MsgInv
  OBVIOUS
<1>1. /\ gate = [f \in Fds |-> "none"] /\ handshake = {} /\ connection = {} /\ online = TRUE
      /\ version = 0 /\ fd = 0 /\ index = 0 /\ responses = [s \in ClientSession |-> 0]
      /\ entry = <<>> /\ runs = 0
      /\ \A s \in ClientSession : /\ requests[s] \in AskType /\ requests[s].use = 0
                                  /\ requests[s].last = 0 /\ requests[s].answer = 0
      /\ requests \in [ClientSession -> AskType]
      /\ since = [s \in ClientSession |-> expired_number]
  BY DEF MsgInit, AskType
<1>2. entry \in [1 .. runs -> EntryType]
  BY <1>1, EmptySeq, LenProperties
<1>3. MsgTypes
  BY <1>1, <1>2, MsgAssumption DEF MsgTypes
<1>4. Connected /\ Entered /\ AnswerComes /\ Indexed
  BY <1>1 DEF Connected, Entered, AnswerComes, Indexed, Complete
<1>5. \A s \in ClientSession : InOrder(s)
  BY <1>1, MsgAssumption DEF InOrder, Of
<1> QED
  BY <1>3, <1>4, <1>5 DEF MsgInv

\* The indexes of the complete responses are different, and less than the index.
LEMMA RetiredInTime == MsgInv => ResponsesRetired
<1> SUFFICES ASSUME MsgInv PROVE ResponsesRetired
  OBVIOUS
<1> DEFINE S == {s \in ClientSession : responses[s] # 0 /\ Entry(s).fd = 0}
           T == 0 .. index - 1
           h == [s \in S |-> Entry(s).index]
<1>1. MsgTypes /\ Indexed
  BY DEF MsgInv
<1>2. \A s \in S : Complete(s) /\ Entry(s).index \in Nat
  BY <1>1 DEF Complete, Entry, MsgTypes, EntryType
<1>3. h \in [S -> T]
  BY <1>1, <1>2, MsgAssumption DEF Indexed, MsgTypes
<1>4. \A s, t \in S : h[s] = h[t] => s = t
  BY <1>1, <1>2 DEF Indexed
<1>5. h \in Injection(S, T)
  <2> HIDE DEF S, T, h
  <2> QED
    BY <1>3, <1>4, Fun_IsInj
<1>6. IsFiniteSet(T) /\ Cardinality(T) = index /\ index \in Nat /\ index < 2 * expired_number
  <2>1. index \in 0 .. 2 * expired_number - 1 /\ expired_number \in Nat \ {0}
    BY <1>1, MsgAssumption DEF MsgTypes
  <2>2. 0 \in Int /\ index - 1 \in Int
    BY <2>1
  <2>3. IsFiniteSet(0 .. index - 1)
        /\ Cardinality(0 .. index - 1) = IF 0 > index - 1 THEN 0 ELSE index - 1 - 0 + 1
    BY <2>2, FS_Interval
  <2> QED
    BY <2>1, <2>3
<1>7. IsFiniteSet(S) /\ Cardinality(S) <= Cardinality(T)
  <2> HIDE DEF S, T, h
  <2> QED
    BY <1>5, <1>6, FS_Injection
<1>8. Cardinality(S) \in Nat
  <2> HIDE DEF S
  <2> QED
    BY <1>7, FS_CardinalityType
<1> HIDE DEF S, T
<1>9. Cardinality(S) < 2 * expired_number
  BY <1>6, <1>7, <1>8, MsgAssumption
<1> QED
  BY <1>9 DEF ResponsesRetired, S

\* The handler is called again for the new, or for what was answered elsewhere.
LEMMA RunsOnce ==
  ASSUME MsgInv, NEW f \in Fds, NEW s \in ClientSession, Run(f, s)
  PROVE  HandlesOnce
<1> DEFINE again == entry'[runs']
           same == {p \in DOMAIN entry :
                      entry[p].session = again.session /\ entry[p].use = again.use}
           m == CHOOSE p \in same : \A q \in same : q <= p
<1> SUFFICES ASSUME same # {}, again.from = version, ~requests[again.session].conflict
             PROVE  entry[m].fd = 0 /\ (since[again.session] >= expired_number
                                        \/ entry[m].version # entry[m].from)
  BY DEF HandlesOnce
<1>0. MsgTypes /\ Connected /\ Entered
  BY DEF MsgInv
<1>1. /\ runs \in Nat /\ entry \in [1 .. runs -> EntryType] /\ DOMAIN entry = 1 .. runs
      /\ responses \in [ClientSession -> 0 .. runs]
      /\ since \in [ClientSession -> 0 .. expired_number]
  BY <1>0 DEF MsgTypes
<1>2. /\ Comes(f, s)
      /\ responses[s] = 0 \/ (Current(s) /\ Entry(s).fd = 0)
  BY DEF Run
<1>3. /\ again.session = s /\ again.from = f /\ again.use = requests'[s].use
      /\ IsNew(f, s) => requests'[s].use = requests[s].use + 1
      /\ ~IsNew(f, s) => requests'[s].use = requests[s].use
      /\ requests[s].use \in Nat
  BY <1>0, RunAppends
<1>4. same \subseteq 1 .. runs /\ \A p \in same : p \in Of(s) /\ entry[p].use = again.use
  BY <1>1, <1>3 DEF Of
<1>5. m \in same /\ \A q \in same : q <= m
  <2>1. same \in SUBSET Nat /\ \A q \in same : q <= runs
    BY <1>1, <1>4
  <2> HIDE DEF same
  <2>2. \E p \in same : \A q \in same : q <= p
    BY <1>1, <2>1, HasGreatest
  <2> QED
    BY <2>2
<1> HIDE DEF m, again
<1>6. InOrder(s)
  BY <1>3 DEF MsgInv
<1>7. \A p \in Of(s) : entry[p].fd = 0
  BY <1>1, <1>2, <1>6 DEF InOrder, Of, Entry
<1>8. ~IsNew(f, s) /\ again.use = requests[s].use
  <2>1. entry[m].use <= requests[s].use /\ entry[m].use \in Nat
    BY <1>0, <1>1, <1>4, <1>5 DEF Entered, EntryType, Of
  <2> QED
    BY <1>3, <1>4, <1>5, <2>1
<1>9. ASSUME since[s] < expired_number
      PROVE  entry[m].version # entry[m].from
  <2>1. responses[s] # 0 /\ Current(s)
    BY <1>2, <1>6, <1>9 DEF InOrder, Complete
  <2>2. responses[s] \in same
    BY <1>0, <1>1, <1>3, <1>6, <1>8, <2>1 DEF InOrder, Entered, Entry
  <2>3. m = responses[s]
    <3>1. m <= responses[s] /\ responses[s] <= m
      BY <1>4, <1>5, <1>6, <2>1, <2>2 DEF InOrder
    <3> QED
      BY <1>1, <1>4, <1>5, <2>2, <3>1
  <2>4. entry[m].version = version /\ entry[m].from \in requests[s].on
    BY <1>6, <2>1, <2>3 DEF InOrder, Current, Entry
  <2>5. f \notin requests[s].on
    BY <1>0, <1>2, <1>8, AskedOnIs
  <2> QED
    BY <1>3, <2>4, <2>5
<1>10. since[s] >= expired_number \/ since[s] < expired_number
  BY <1>1, MsgAssumption
<1> QED
  BY <1>3, <1>4, <1>5, <1>7, <1>9, <1>10

\* Only Run calls the handler.
LEMMA HandlesOnceHolds == MsgInv /\ [MsgNext]_msgVars => [HandlesOnce]_msgVars
<1> SUFFICES ASSUME MsgInv, MsgNext PROVE HandlesOnce
  OBVIOUS
<1>1. ASSUME runs' = runs PROVE HandlesOnce
  <2>1. runs \in Nat
    BY DEF MsgInv, MsgTypes
  <2> QED
    BY <1>1, <2>1 DEF HandlesOnce
<1>2. ASSUME NEW f \in Fds, NEW s \in ClientSession, Run(f, s) PROVE HandlesOnce
  BY <1>2, RunsOnce
<1>3. \/ runs' = runs
      \/ \E f \in Fds, s \in ClientSession : Run(f, s)
  BY DEF MsgNext, Logout, Open, Auth, Close, Conflict, Join, Resend, Handled, cacheVars
<1> QED
  BY <1>1, <1>2, <1>3

\* A request to a message server is handled once, and its response comes to the
\* connection that asked last, from a cache of the last responses, whatever connections
\* are made and lost meanwhile.
THEOREM UserServed == MsgSpec => RequestsAnswered
<1>1. MsgInit => MsgInv
  BY MsgStarts
<1>2. MsgInv /\ [MsgNext]_msgVars => MsgInv'
  BY MsgKept
<1>3. MsgInv => AnswerComes /\ OwnResponse /\ ResponsesKept /\ ResponsesRetired
  <2> SUFFICES ASSUME MsgInv PROVE OwnResponse /\ ResponsesKept
    BY RetiredInTime DEF MsgInv
  <2>1. \A s \in ClientSession : ~requests[s].conflict => InOrder(s)
    BY DEF MsgInv
  <2> QED
    BY <2>1 DEF OwnResponse, ResponsesKept, InOrder, Complete
<1>4. MsgInv /\ [MsgNext]_msgVars => [HandlesOnce]_msgVars
  BY HandlesOnceHolds
<1> QED
  BY <1>1, <1>2, <1>3, <1>4, PTL DEF MsgSpec, RequestsAnswered, HandledOnce
=============================================================================
