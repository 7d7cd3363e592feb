------------------------------ MODULE ShareData --------------------------------
(***************************************************************************)
(* service/sharedatad.lua and its clients (lualib/sharedata.lua and        *)
(* sharedata/corelib.lua) for one name: every update makes a new object,   *)
(* which clients on other threads read directly.  Objects count references *)
(* (lualib-src/mtask_lua_sharedata.c): the pool has one, every pointer on  *)
(* its way to a client that queries one, and every box a client made, until*)
(* its collector frees the box.  The service runs one command at a time,   *)
(* and the messages of a client arrive in the order it sent them.          *)
(***************************************************************************)
EXTENDS Integers, FiniteSets

CONSTANTS
  Client,
  MaxObj,       \* bound: objects made
  MaxDelete     \* bound: deletions, and updates that fail

ASSUME ShareAssumption == IsFiniteSet(Client) /\ MaxObj \in Nat /\ MaxDelete \in Nat

VARIABLES
  pool,         \* pool[name].obj, 0 for nil
  made, deletes,
  ref, dirty,   \* of every object
  old,          \* objects with objmap[obj] = true
  deleted,      \* objects that are no more
  watch,        \* pool[name].watch: clients whose monitor waits for a response
  client_at,    \* what the last message between a client and the service was
  known, ptr,   \* newobj of the client's monitor, and the pointer in a response
  root, next,   \* of a client: the object of its box, and that of the update it was told
  garbage,      \* its boxes that nothing refers to any more, by object
  undef,        \* clients that boxed an object that was deleted
  failed        \* an update failed after it took the old object out of the pool

shareVars == <<pool, made, deletes, ref, dirty, old, deleted, watch, client_at, known, ptr,
               root, next, garbage, undef, failed>>
objVars  == <<made, deletes, dirty, old, deleted, failed>>
boxVars  == <<root, next, garbage, undef>>
hostVars == <<pool, objVars, watch>>

Obj == 1 .. MaxObj
Zero == [c \in Client |-> 0]

ShareInit ==
  /\ pool = 0 /\ made = 0 /\ deletes = 0
  /\ ref = [o \in Obj |-> 0] /\ dirty = {} /\ old = {} /\ deleted = {}
  /\ watch = {} /\ client_at = [c \in Client |-> "none"]
  /\ known = Zero /\ ptr = Zero /\ root = Zero /\ next = Zero
  /\ garbage = [c \in Client |-> {}] /\ undef = {} /\ failed = FALSE

Inc(counts, o) == [counts EXCEPT ![o] = @ + 1]
Dec(counts, o) == [counts EXCEPT ![o] = @ - 1]

-----------------------------------------------------------------------------
(* The service.                                                            *)

\* CMD.new; it throws an error if there is one.
NewObject ==
  /\ pool = 0 /\ made < MaxObj
  /\ made' = made + 1 /\ pool' = made'
  /\ ref' = Inc(ref, made')
  /\ UNCHANGED <<deletes, dirty, old, deleted, failed, watch, client_at, known, ptr, boxVars>>

\* A response to every monitor that waits, with o.
TellAll(o) ==
  /\ client_at' = [c \in Client |-> IF c \in watch THEN "told" ELSE client_at[c]]
  /\ ptr' = [c \in Client |-> IF c \in watch THEN o ELSE ptr[c]]
  /\ watch' = {}

\* CMD.delete: the monitors are told nil.
Delete ==
  /\ pool # 0 /\ deletes < MaxDelete
  /\ deletes' = deletes + 1 /\ pool' = 0
  /\ old' = old \cup {pool} /\ ref' = Dec(ref, pool)
  /\ TellAll(0)
  /\ UNCHANGED <<made, dirty, deleted, failed, known, boxVars>>

\* CMD.update of what is there; CMD.update of nothing is CMD.new.
Update ==
  /\ pool # 0 /\ made < MaxObj
  /\ made' = made + 1 /\ pool' = made'
  /\ old' = old \cup {pool} /\ ref' = Inc(Dec(ref, pool), made')
  /\ dirty' = dirty \cup {pool}
  /\ TellAll(made')
  /\ UNCHANGED <<deletes, deleted, failed, known, boxVars>>

\* CMD.new of CMD.update throws an error: the new value cannot be loaded.
UpdateFails ==
  /\ pool # 0 /\ deletes < MaxDelete
  /\ deletes' = deletes + 1 /\ pool' = 0
  /\ old' = old \cup {pool} /\ ref' = Dec(ref, pool)
  /\ watch' = {} /\ failed' = TRUE
  /\ UNCHANGED <<made, dirty, deleted, client_at, known, ptr, boxVars>>

\* A round of collectobj, every ten minutes.
Collect ==
  LET gone == {o \in old : ref[o] <= 0}
  IN /\ gone # {}
     /\ old' = old \ gone /\ deleted' = deleted \cup gone
     /\ UNCHANGED <<pool, made, deletes, ref, dirty, failed, watch, client_at, known, ptr, boxVars>>

RespondWith(c, o) == ptr' = [ptr EXCEPT ![c] = o]

\* CMD.query, an error if there is no such name.
QueryRead(c) ==
  /\ client_at[c] = "query"
  /\ IF pool = 0 THEN client_at' = [client_at EXCEPT ![c] = "over"] /\ UNCHANGED <<ref, ptr>>
     ELSE /\ client_at' = [client_at EXCEPT ![c] = "found"]
          /\ RespondWith(c, pool) /\ ref' = Inc(ref, pool)
  /\ UNCHANGED <<hostVars, known, boxVars>>

\* CMD.confirm; what was deleted is not in objmap.
Confirm(c) ==
  /\ client_at[c] = "confirm"
  /\ ref' = IF known[c] \in deleted THEN ref ELSE Dec(ref, known[c])
  /\ client_at' = [client_at EXCEPT ![c] = "monitor"]
  /\ UNCHANGED <<hostVars, known, ptr, boxVars>>

\* The client will hear of the next update, whatever it has.
MonitorRead_Trusting(c) ==
  /\ client_at[c] = "monitor"
  /\ IF pool = 0 THEN client_at' = [client_at EXCEPT ![c] = "over"] /\ UNCHANGED watch
     ELSE client_at' = [client_at EXCEPT ![c] = "watched"] /\ watch' = watch \cup {c}
  /\ UNCHANGED <<pool, ref, objVars, known, ptr, boxVars>>

\* CMD.monitor: an error, the object that is new to the client, or no response yet.
MonitorRead(c) ==
  /\ client_at[c] = "monitor"
  /\ \/ pool = 0 /\ client_at' = [client_at EXCEPT ![c] = "over"] /\ UNCHANGED <<watch, ptr>>
     \/ /\ pool # 0 /\ known[c] # pool
        /\ client_at' = [client_at EXCEPT ![c] = "told"] /\ RespondWith(c, pool) /\ UNCHANGED watch
     \/ /\ pool # 0 /\ known[c] = pool
        /\ client_at' = [client_at EXCEPT ![c] = "watched"]
        /\ watch' = watch \cup {c} /\ UNCHANGED ptr
  /\ UNCHANGED <<pool, ref, objVars, known, boxVars>>
-----------------------------------------------------------------------------
(* A client.                                                               *)

\* sharedata.query.
Query(c) ==
  /\ client_at[c] = "none"
  /\ client_at' = [client_at EXCEPT ![c] = "query"]
  /\ UNCHANGED <<hostVars, ref, known, ptr, boxVars>>

\* Its rest: the box, the confirmation, and the fork that calls monitor.
Box(c) ==
  /\ client_at[c] = "found"
  /\ root' = [root EXCEPT ![c] = ptr[c]] /\ ref' = Inc(ref, ptr[c])
  /\ client_at' = [client_at EXCEPT ![c] = "confirm"]
  /\ known' = [known EXCEPT ![c] = ptr[c]] /\ ptr' = [ptr EXCEPT ![c] = 0]
  /\ UNCHANGED <<hostVars, next, garbage, undef>>

\* The monitor of the client is told: nil ends it; sd.update asserts that the object
\* is dirty, boxes the new one and lets go of an update that was not used.
MonitorTold(c) ==
  /\ client_at[c] = "told"
  /\ known' = [known EXCEPT ![c] = ptr[c]] /\ ptr' = [ptr EXCEPT ![c] = 0]
  /\ IF ptr[c] = 0 \/ root[c] \notin dirty
     THEN client_at' = [client_at EXCEPT ![c] = "over"] /\ UNCHANGED <<ref, boxVars>>
     ELSE IF ptr[c] \in deleted
     THEN client_at' = [client_at EXCEPT ![c] = "over"] /\ undef' = undef \cup {c}
          /\ UNCHANGED <<ref, root, next, garbage>>
     ELSE /\ client_at' = [client_at EXCEPT ![c] = "monitor"]
          /\ next' = [next EXCEPT ![c] = ptr[c]] /\ ref' = Inc(ref, ptr[c])
          /\ garbage' = [garbage EXCEPT ![c] = IF next[c] = 0 THEN @ ELSE @ \cup {next[c]}]
          /\ UNCHANGED <<root, undef>>
  /\ UNCHANGED hostVars

\* getcobj, at any access.
Use(c) ==
  /\ root[c] \in dirty /\ next[c] # 0
  /\ root' = [root EXCEPT ![c] = next[c]] /\ next' = [next EXCEPT ![c] = 0]
  /\ garbage' = [garbage EXCEPT ![c] = @ \cup {root[c]}]
  /\ UNCHANGED <<hostVars, ref, client_at, known, ptr, undef>>

\* The collector of the client frees a box: releaseobj.
Free(c) ==
  \E o \in garbage[c] :
    /\ ref' = Dec(ref, o) /\ garbage' = [garbage EXCEPT ![c] = @ \ {o}]
    /\ UNCHANGED <<hostVars, client_at, known, ptr, root, next, undef>>

ShareNext ==
  \/ NewObject \/ Delete \/ Update \/ UpdateFails \/ Collect
  \/ \E c \in Client : \/ QueryRead(c) \/ Confirm(c) \/ MonitorRead(c)
                       \/ Query(c) \/ Box(c) \/ MonitorTold(c) \/ Use(c) \/ Free(c)

ShareSpec == ShareInit /\ [][ShareNext]_shareVars
-----------------------------------------------------------------------------
(* Properties.                                                             *)

\* What a client has boxed, and what it was sent by query.
Has(c) ==
  LET queried == IF client_at[c] = "found" THEN {ptr[c]} ELSE {}
  IN  ({root[c], next[c]} \cup garbage[c] \cup queried) \ {0}

\* An object that a client can reach is not deleted.
ObjectsKept == \A c \in Client : Has(c) \cap deleted = {}

\* The count of an object is what is left of those who have it: none is kept for ever.
ObjectsCounted ==
  \A o \in 1 .. made :
    ref[o] = (IF pool = o THEN 1 ELSE 0)
             + Cardinality({c \in Client : root[c] = o}) + Cardinality({c \in Client : next[c] = o})
             + Cardinality({c \in Client : o \in garbage[c]})
             + Cardinality({c \in Client : client_at[c] = "found" /\ ptr[c] = o})
             + Cardinality({c \in Client : client_at[c] = "confirm" /\ known[c] = o})

\* A client that waits to be told of an update has the last object, or will have it
\* when it looks: it missed none while it asked for the first or learned of another.
UpToDate ==
  ~failed => \A c \in Client :
    client_at[c] = "watched" => known[c] = pool /\ pool = (IF next[c] # 0 THEN next[c] ELSE root[c])

\* Clients have the last object, and every object as long as they have it.
ObjectsShared == ObjectsKept /\ ObjectsCounted /\ UpToDate
=============================================================================
