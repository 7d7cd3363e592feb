----------------------------- MODULE Scheduler ------------------------------
(***************************************************************************)
(* One Lua service as lualib/mtask.lua runs it: coroutines that call,      *)
(* sleep, answer and wake each other, resumed by messages and by the queues*)
(* of wakeups, errors and forks that mtask.lua goes through after a        *)
(* coroutine has yielded.  An error thrown by a coroutine leaves that      *)
(* round where it is.  Other services are the environment: they ask,       *)
(* answer, fail and go down.                                               *)
(***************************************************************************)
EXTENDS Integers, Sequences, FiniteSets

CONSTANTS
  Co,            \* coroutine objects
  Service,       \* the services that ask and are called
  Request,       \* requests to this service
  From,          \* the service each request is from
  MaxSession,    \* bound: sessions of calls, sleeps and timeouts
  MaxThrow,      \* bound: errors that no coroutine catches
  BREAK, NULL

ASSUME SchedulerAssumption ==
  /\ IsFiniteSet(Co) /\ IsFiniteSet(Request)
  /\ From \in [Request -> Service]
  /\ MaxSession \in Nat
  /\ {NULL, BREAK} \cap Co = {} /\ BREAK # NULL
  /\ NULL \notin Request

VARIABLES
  pc,                    \* what runs: a coroutine, a queue, or nothing
  running,               \* the coroutine that runs
  at,                    \* what each coroutine is suspended in
  session_id_coroutine,
  serving,               \* session_coroutine_id and session_coroutine_address
  session_response,
  response,              \* the state of the closure made for a request
  wakeup_session,
  error_queue,
  watching_service,
  dead_service,
  sessions,              \* how many were given out
  owed,                  \* sessions that a callee, or the timer, has to answer
  arrived, replied,      \* requests that came, and the answers sent to each
  gone,                  \* services that went down
  thrown, throws         \* an error left queues behind; errors so far

queues == <<wakeup_session, error_queue>>
asked  == <<serving, session_response, response, watching_service, replied>>
peers  == <<owed, arrived, gone>>
errors == <<thrown, throws>>
vars   == <<pc, running, at, session_id_coroutine, dead_service, sessions,
            queues, asked, peers, errors>>

Session == 1 .. MaxSession
Where(kind, session, to) == [kind |-> kind, session |-> session, to |-> to]
Pooled == Where("pool", 0, NULL)
Running == Where("run", 0, NULL)

Init ==
  /\ pc = "idle" /\ running = NULL
  /\ at = [co \in Co |-> Pooled]
  /\ session_id_coroutine = [s \in Session |-> NULL]
  /\ serving = [co \in Co |-> NULL]
  /\ session_response = [co \in Co |-> "none"]
  /\ response = [r \in Request |-> "none"]
  /\ wakeup_session = {} /\ error_queue = <<>>
  /\ watching_service = [x \in Service |-> 0]
  /\ dead_service = {} /\ sessions = 0
  /\ owed = {} /\ arrived = {} /\ gone = {}
  /\ replied = [r \in Request |-> {}]
  /\ thrown = FALSE /\ throws = 0

\* watching_session: the service a session waits for, if a call does.
Calls(x) == {at[co].session : co \in {d \in Co : at[d].kind = "call" /\ at[d].to = x}}
Watched(s) == \E co \in Co : at[co].kind = "call" /\ at[co].session = s

Asleep(co) == at[co].kind \in {"sleep", "wait"}     \* sleep_session[co]

\* release_watching; nil is 0.
Released(watching, x) == [watching EXCEPT ![x] = IF @ > 0 THEN @ - 1 ELSE 0]

\* session_id_coroutine[session] = nil.
Forget(s) == [session_id_coroutine EXCEPT ![s] = NULL]

\* The session of a sleeper that is woken is forgotten.
Broken_Forgotten(s) == Forget(s)

\* dispatch_wakeup leaves a mark for the answer to come.
Broken(s) == [session_id_coroutine EXCEPT ![s] = BREAK]

\* coroutine.resume, with what the coroutine does first: mtask.wait and
\* yield_call clean up behind themselves.
Resume(co, sic) ==
  /\ pc' = "code" /\ running' = co
  /\ at' = [at EXCEPT ![co] = Running]
  /\ session_id_coroutine' =
       IF at[co].kind = "wait" THEN [sic EXCEPT ![at[co].session] = NULL] ELSE sic

\* The end of suspend: dispatch_wakeup and dispatch_error_queue.
AfterYield == pc' = "wakeup" /\ running' = NULL

\* co_create: a coroutine of the pool, it does not matter which.
Pool == {co \in Co : at[co] = Pooled}
Spare == CHOOSE co \in Pool : TRUE

\* An error reaches the pcall of dispatch_message.
Unwind == pc' = "forks" /\ running' = NULL /\ thrown' = TRUE

-----------------------------------------------------------------------------
(* Messages: dispatch_message, when nothing runs.                          *)

\* A request gets a coroutine of its own.
Ask(r) ==
  /\ pc = "idle" /\ r \notin arrived /\ From[r] \notin gone
  /\ Pool # {}
  /\ Resume(Spare, session_id_coroutine)
  /\ serving' = [serving EXCEPT ![Spare] = r]
  /\ watching_service' = [watching_service EXCEPT ![From[r]] = @ + 1]
  /\ arrived' = arrived \cup {r}
  /\ UNCHANGED <<dead_service, sessions, queues, session_response, response, replied,
                 owed, gone, errors>>

Owed(s, x) == [session |-> s, of |-> x]

\* A response, of a service that is there or of the timer.
Response(s) ==
  /\ pc = "idle"
  /\ \E x \in (Service \ gone) \cup {NULL} : Owed(s, x) \in owed /\ owed' = owed \ {Owed(s, x)}
  /\ LET co == session_id_coroutine[s]
     IN CASE co = BREAK -> /\ session_id_coroutine' = Forget(s)
                           /\ UNCHANGED <<pc, running, at, thrown>>
          [] co = NULL -> Unwind /\ UNCHANGED <<at, session_id_coroutine>>
          [] OTHER -> Resume(co, Forget(s)) /\ UNCHANGED thrown
  /\ UNCHANGED <<dead_service, sessions, queues, asked, arrived, gone, throws>>

\* PTYPE_ERROR for a session, of a callee that failed or exits.  Its coroutine
\* ends at once.
Failure(s) ==
  /\ pc = "idle"
  /\ \E x \in Service : Owed(s, x) \in owed /\ owed' = owed \ {Owed(s, x)}
  /\ error_queue' = IF Watched(s) THEN Append(error_queue, s) ELSE error_queue
  /\ AfterYield
  /\ UNCHANGED <<at, session_id_coroutine, dead_service, sessions, wakeup_session,
                 asked, arrived, gone, errors>>

\* Sessions that are put into error_queue in any order.
Orders(S) == {q \in [1 .. Cardinality(S) -> S] : \A i, j \in DOMAIN q : q[i] = q[j] => i = j}

\* PTYPE_ERROR of session 0: a service that had called exits, or the message of a
\* call was dropped with the queue of the callee.  There may be several of one
\* service, and watching_service[x] is never nil here.
Down(x) ==
  /\ pc = "idle"
  /\ \/ x \notin gone /\ (\E r \in arrived : From[r] = x) /\ UNCHANGED owed
     \/ \E s \in Session : Owed(s, x) \in owed /\ owed' = owed \ {Owed(s, x)}
  /\ gone' = gone \cup {x}
  /\ dead_service' = dead_service \cup {x}
  /\ \E q \in Orders(Calls(x)) : error_queue' = error_queue \o q
  /\ AfterYield
  /\ UNCHANGED <<at, session_id_coroutine, sessions, wakeup_session, asked,
                 arrived, errors>>

\* Any other message whose coroutine ends at once.
Nudge ==
  /\ pc = "idle"
  /\ AfterYield
  /\ UNCHANGED <<at, session_id_coroutine, dead_service, sessions, queues, asked,
                 peers, errors>>

-----------------------------------------------------------------------------
(* What a coroutine does while it runs.                                    *)

Runs == pc = "code"

\* mtask_context_newsession.
New == sessions + 1

Fresh == sessions < MaxSession /\ sessions' = sessions + 1

\* mtask.call, mtask.sleep and mtask.wait: the coroutine yields.
Yield(kind, to) ==
  /\ Runs /\ Fresh
  /\ at' = [at EXCEPT ![running] = Where(kind, New, to)]
  /\ session_id_coroutine' = [session_id_coroutine EXCEPT ![New] = running]
  /\ owed' = IF kind = "wait" THEN owed ELSE owed \cup {Owed(New, to)}
  /\ AfterYield
  /\ UNCHANGED <<dead_service, queues, asked, arrived, gone, errors>>

Call(x) == x \notin gone /\ Yield("call", x)
Sleep == Yield("sleep", NULL)
Wait == Yield("wait", NULL)

\* mtask.timeout.
Timeout ==
  /\ Runs /\ Fresh /\ Pool # {}
  /\ at' = [at EXCEPT ![Spare] = Where("timeout", New, NULL)]
  /\ session_id_coroutine' = [session_id_coroutine EXCEPT ![New] = Spare]
  /\ owed' = owed \cup {Owed(New, NULL)}
  /\ UNCHANGED <<pc, running, dead_service, queues, asked, arrived, gone, errors>>

\* mtask.fork.
Fork ==
  /\ Runs /\ Pool # {}
  /\ at' = [at EXCEPT ![Spare] = Where("fork", 0, NULL)]
  /\ UNCHANGED <<pc, running, session_id_coroutine, dead_service, sessions, queues,
                 asked, peers, errors>>

\* mtask.wakeup.
Wakeup(co) ==
  /\ Runs /\ Asleep(co) /\ co \notin wakeup_session
  /\ wakeup_session' = wakeup_session \cup {co}
  /\ UNCHANGED <<pc, running, at, session_id_coroutine, dead_service, sessions,
                 error_queue, asked, peers, errors>>

Told(r, how) == [replied EXCEPT ![r] = @ \cup {how}]

Answered(r, how) == IF From[r] \in dead_service THEN replied ELSE Told(r, how)

\* mtask.ret: RETURN, and the coroutine goes on.
Ret ==
  /\ Runs /\ serving[running] # NULL /\ session_response[running] = "none"
  /\ session_response' = [session_response EXCEPT ![running] = "ret"]
  /\ replied' = Answered(serving[running], "response")
  /\ UNCHANGED <<pc, running, at, session_id_coroutine, dead_service, sessions, queues,
                 serving, response, watching_service, peers, errors>>

\* mtask.response: RESPONSE, a closure to answer with later.
MakeResponse ==
  /\ Runs /\ serving[running] # NULL /\ session_response[running] = "none"
  /\ session_response' = [session_response EXCEPT ![running] = "closure"]
  /\ response' = [response EXCEPT ![serving[running]] = "open"]
  /\ watching_service' = [watching_service EXCEPT ![From[serving[running]]] = @ + 1]
  /\ UNCHANGED <<pc, running, at, session_id_coroutine, dead_service, sessions, queues,
                 serving, replied, peers, errors>>

\* The closure answers, from whichever coroutine.
Respond(r, how) ==
  /\ Runs /\ response[r] = "open"
  /\ replied' = Answered(r, how)
  /\ response' = [response EXCEPT ![r] = "used"]
  /\ watching_service' = Released(watching_service, From[r])
  /\ UNCHANGED <<pc, running, at, session_id_coroutine, dead_service, sessions, queues,
                 serving, session_response, peers, errors>>

\* The closure stays as it is after "TEST".
Test_Again(r) ==
  /\ Runs /\ response[r] = "open" /\ From[r] \in dead_service
  /\ watching_service' = Released(watching_service, From[r])
  /\ UNCHANGED <<pc, running, at, session_id_coroutine, dead_service, sessions, queues,
                 serving, session_response, response, replied, peers, errors>>

\* The closure is asked with "TEST" and its service is down: it is not used again.
Test(r) ==
  /\ Runs /\ response[r] = "open" /\ From[r] \in dead_service
  /\ response' = [response EXCEPT ![r] = "tested"]
  /\ watching_service' = Released(watching_service, From[r])
  /\ UNCHANGED <<pc, running, at, session_id_coroutine, dead_service, sessions, queues,
                 serving, session_response, replied, peers, errors>>

\* The coroutine returns: EXIT, back to the pool.
Finish ==
  /\ Runs
  /\ at' = [at EXCEPT ![running] = Pooled]
  /\ watching_service' = IF serving[running] = NULL THEN watching_service
                         ELSE Released(watching_service, From[serving[running]])
  /\ serving' = [serving EXCEPT ![running] = NULL]
  /\ session_response' = [session_response EXCEPT ![running] = "none"]
  /\ AfterYield
  /\ UNCHANGED <<session_id_coroutine, dead_service, sessions, queues, response,
                 replied, peers, errors>>

\* The coroutine fails: its request is answered with an error, and the error
\* goes on, past the wakeups and errors that wait, to the pcall.
Throw ==
  /\ Runs /\ throws < MaxThrow
  /\ throws' = throws + 1
  /\ at' = [at EXCEPT ![running] = Where("dead", 0, NULL)]
  /\ replied' = IF serving[running] = NULL THEN replied 
                ELSE Told(serving[running], "error")
  /\ serving' = [serving EXCEPT ![running] = NULL]
  /\ Unwind
  /\ UNCHANGED <<session_id_coroutine, dead_service, sessions, queues,
                 session_response, response, watching_service, peers>>

Served == {serving[co] : co \in Co} \ {NULL}

\* mtask.exit: an error to every request that has a coroutine, whatever the
\* service, and to every closure that was not used.
Exit ==
  /\ Runs
  /\ replied' = [r \in Request |->
       (IF r \in Served THEN Told(r, "error")[r] ELSE {}) \cup
       (IF response[r] = "open" THEN Answered(r, "error")[r] ELSE replied[r])]
  /\ response' = [r \in Request |-> IF response[r] = "open" THEN "used" ELSE response[r]]
  /\ pc' = "quit" /\ running' = NULL
  /\ UNCHANGED <<at, session_id_coroutine, dead_service, sessions, queues, serving,
                 session_response, watching_service, peers, errors>>

-----------------------------------------------------------------------------
(* The queues.                                                             *)

\* dispatch_wakeup: one that does not sleep any more ends the round.
DispatchWakeup ==
  /\ pc = "wakeup"
  /\ IF wakeup_session = {}
     THEN pc' = "errors" /\ UNCHANGED <<running, at, session_id_coroutine, wakeup_session>>
     ELSE \E co \in wakeup_session :
            /\ wakeup_session' = wakeup_session \ {co}
            /\ IF Asleep(co)
               THEN Resume(co, Broken(at[co].session))
               ELSE pc' = "errors" /\ UNCHANGED <<running, at, session_id_coroutine>>
  /\ UNCHANGED <<dead_service, sessions, error_queue, asked, peers, errors>>

\* The entry is removed after its coroutine was resumed.
DispatchError_Late ==
  /\ pc = "errors"
  /\ IF error_queue = <<>>
     THEN pc' = "forks" /\ UNCHANGED <<running, at, session_id_coroutine, error_queue, thrown>>
     ELSE LET s == Head(error_queue)
              co == session_id_coroutine[s]
          IN IF co = NULL THEN Unwind /\ UNCHANGED <<at, session_id_coroutine, error_queue>>
             ELSE Resume(co, Forget(s)) /\ error_queue' = Tail(error_queue) /\ UNCHANGED thrown
  /\ UNCHANGED <<dead_service, sessions, wakeup_session, asked, peers, throws>>

\* dispatch_error_queue: resuming a session that has no coroutine throws.
DispatchError ==
  /\ pc = "errors"
  /\ IF error_queue = <<>>
     THEN pc' = "forks" /\ UNCHANGED <<running, at, session_id_coroutine, error_queue, thrown>>
     ELSE LET s == Head(error_queue)
              co == session_id_coroutine[s]
          IN /\ error_queue' = Tail(error_queue)
             /\ IF co = NULL THEN Unwind /\ UNCHANGED <<at, session_id_coroutine>>
                ELSE Resume(co, Forget(s)) /\ UNCHANGED thrown
  /\ UNCHANGED <<dead_service, sessions, wakeup_session, asked, peers, throws>>

\* dispatch_message runs the forked coroutines, and ends.
DispatchFork ==
  /\ pc = "forks"
  /\ LET Forked == {co \in Co : at[co].kind = "fork"}
     IN IF Forked = {}
        THEN /\ pc' = "idle"
             /\ thrown' = (thrown /\ (wakeup_session # {} \/ error_queue # <<>>))
             /\ UNCHANGED <<running, at, session_id_coroutine>>
        ELSE \E co \in Forked : Resume(co, session_id_coroutine) /\ UNCHANGED thrown
  /\ UNCHANGED <<dead_service, sessions, queues, asked, peers, throws>>

Next ==
  \/ \E r \in Request : Ask(r) \/ Respond(r, "response") \/ Respond(r, "error") \/ Test(r)
  \/ \E s \in Session : Response(s) \/ Failure(s)
  \/ \E x \in Service : Down(x) \/ Call(x)
  \/ \E co \in Co : Wakeup(co)
  \/ Nudge \/ Sleep \/ Wait \/ Timeout \/ Fork \/ Ret \/ MakeResponse \/ Finish \/ Throw
  \/ Exit \/ DispatchWakeup \/ DispatchError \/ DispatchFork

Queues == DispatchWakeup \/ DispatchError \/ DispatchFork

\* Coroutines come to an end or yield, the queues are gone through, and there is
\* always another message.
Spec == Init /\ [][Next]_vars /\ WF_vars(Queues) /\ WF_vars(Finish) /\ WF_vars(Nudge)
-----------------------------------------------------------------------------
(* Properties.                                                             *)

\* Types of the state.
TypeOK ==
  /\ pc \in {"idle", "code", "wakeup", "errors", "forks", "quit"}
  /\ running \in Co \cup {NULL} /\ (running # NULL <=> pc = "code")
  /\ \A co \in Co : at[co].kind \in {"pool", "run", "call", "sleep", "wait", "timeout", "fork", "dead"}
  /\ session_id_coroutine \in [Session -> Co \cup {NULL, BREAK}]
  /\ serving \in [Co -> Request \cup {NULL}]
  /\ wakeup_session \subseteq Co
  /\ error_queue \in Seq(Session)
  /\ watching_service \in [Service -> Nat]
  /\ dead_service \subseteq gone
  /\ owed \subseteq [session : Session, of : Service \cup {NULL}]

\* A session leads to the coroutine that waits for it and to no other, so a
\* message never resumes a coroutine that is suspended in something else.
SessionsLead ==
  \A co \in Co, s \in Session :
    session_id_coroutine[s] = co <=> at[co].session = s

\* The timer and the services that are there answer sessions somebody still
\* expects, BREAK standing for the sleepers that were woken: no answer is unknown.
AnswersExpected ==
  \A o \in owed : o.of \notin gone => session_id_coroutine[o.session] # NULL

\* Unless an error was thrown, no wakeup and no failed call is left behind when
\* the service goes on to the next message.
DrainedAtRest == pc = "idle" /\ ~thrown => wakeup_session = {} /\ error_queue = <<>>

\* A service is watched as long as one of its requests is being served or a
\* closure for it is kept: its death will be noticed.
ServedAreWatched ==
  \A x \in Service : watching_service[x] >=
    Cardinality({co \in Co : serving[co] # NULL /\ From[serving[co]] = x})
      + Cardinality({r \in Request : response[r] = "open" /\ From[r] = x})

\* When a service exits nobody waits for it in vain: every request that was begun
\* and not finished is answered, by an error if by nothing else.
NobodyLeftBehind ==
  pc = "quit" => \A r \in Request :
    (r \in Served \/ response[r] # "none") /\ From[r] \notin dead_service => replied[r] # {}

\* A sleeper that was woken is resumed and a call that failed returns, even when
\* the round that should have done it was cut short by an error.
WokenResume == \A co \in Co : []<>(co \notin wakeup_session \/ pc = "quit")
FailedReturn ==
  \A s \in Session : []<>(pc = "quit" \/ \A i \in DOMAIN error_queue : error_queue[i] # s)

\* Sessions, those who wait for them and those who owe an answer agree.
SessionsAgree == TypeOK /\ SessionsLead /\ AnswersExpected /\ DrainedAtRest

\* Whoever called this service is answered, or its death is noticed.
CallersTold == ServedAreWatched /\ NobodyLeftBehind

\* Whoever was woken, or waits for what failed, goes on.
AllResume == WokenResume /\ FailedReturn
=============================================================================
