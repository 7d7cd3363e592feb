--------------------------- MODULE HandleStorage ----------------------------
(***************************************************************************)
(* The handle table of mtask-src/mtask_handle.c: contexts hashed by handle *)
(* into a power of two of slots, and the sorted array of local names.      *)
(* Every action is one critical section of the table's read-write lock     *)
(* (module RwLock); ctx->handle is assigned by mtask_context_new after     *)
(* mtask_handle_register has let go of the lock.                           *)
(*                                                                         *)
(* Bounds: HANDLE_MASK and DEFAULT_SLOT_SIZE are parameters, so that the   *)
(* handles wrap and the table grows in small instances.  Contexts are      *)
(* memory: once freed, the same one is allocated again.                    *)
(***************************************************************************)
EXTENDS Integers, Sequences

CONSTANTS
  Ctx,               \* contexts (addresses)
  Launcher,          \* threads that launch services
  Name,              \* local names; strcmp is <
  HANDLE_MASK,
  DEFAULT_SLOT_SIZE,
  Aborts,            \* whether ABORT is called in a behaviour
  Harbor,            \* (harbor & 0xff) << HANDLE_REMOTE_SHIFT
  NULL

ASSUME HandleAssumption ==
  /\ Name \subseteq Nat
  /\ HANDLE_MASK \in Nat /\ DEFAULT_SLOT_SIZE \in Nat \ {0}
  /\ (HANDLE_MASK + 1) % DEFAULT_SLOT_SIZE = 0
  /\ \A s \in 1 .. HANDLE_MASK :      \* a power of two, as far as that is needed
       (HANDLE_MASK + 1) % s = 0 => (HANDLE_MASK + 1) % (2 * s) = 0
  /\ Harbor \in Nat /\ Harbor % (HANDLE_MASK + 1) = 0
  /\ Aborts \in BOOLEAN
  /\ NULL \notin Ctx

VARIABLES
  slot_size, slot, handle_index,
  name,              \* the sorted array: [name, handle]
  handle,            \* ctx->handle, 0 until it is assigned
  st,                \* life of a context: "none", "known" or "retired"
  pc, ctx, got,      \* launchers: where, which context, the handle returned
  ra, ra_i, ra_h, ra_any,  \* the thread inside mtask_handle_retireall
  ra_todo            \* history: handles bound when it began, not retired yet

tableVars == <<slot_size, slot, handle_index>>
launchVars == <<pc, ctx, got>>
raVars == <<ra, ra_i, ra_h, ra_any>>
vars == <<tableVars, name, handle, st, launchVars, raVars, ra_todo>>

Handle == {Harbor + i : i \in 0 .. HANDLE_MASK}

\* 0 is no service's address.
Address == Handle \ {0}

Init ==
  /\ slot_size = DEFAULT_SLOT_SIZE
  /\ slot = [k \in 0 .. slot_size - 1 |-> NULL]
  /\ handle_index = 1
  /\ name = <<>>
  /\ handle = [c \in Ctx |-> 0]
  /\ st = [c \in Ctx |-> "none"]
  /\ pc = [t \in Launcher |-> "idle"]
  /\ ctx = [t \in Launcher |-> NULL]
  /\ got = [t \in Launcher |-> 0]
  /\ ra = "idle" /\ ra_i = 0 /\ ra_h = 0 /\ ra_any = FALSE
  /\ ra_todo = {}
-----------------------------------------------------------------------------
(* Launching.                                                              *)

\* mtask_context_new up to the call: ctx->handle = 0.
Create(t) ==
  /\ pc[t] = "idle"
  /\ \E c \in Ctx : /\ st[c] = "none"
                    /\ st' = [st EXCEPT ![c] = "known"]
                    /\ ctx' = [ctx EXCEPT ![t] = c]
  /\ pc' = [pc EXCEPT ![t] = "register"]
  /\ UNCHANGED <<tableVars, name, handle, got, raVars, ra_todo>>

Full == \A k \in DOMAIN slot : slot[k] # NULL

\* Where slot k goes when the table doubles.
NewHash(k) == handle[slot[k]] % (2 * slot_size)

\* assert(new_slot[hash] == NULL), for every slot.
RehashFits == \A j, k \in DOMAIN slot : NewHash(j) = NewHash(k) => j = k

\* The table of twice the size, every context at the index of its handle.
Rehashed ==
  [k \in 0 .. 2 * slot_size - 1 |->
     IF \E j \in DOMAIN slot : NewHash(j) = k
     THEN slot[CHOOSE j \in DOMAIN slot : NewHash(j) = k]
     ELSE NULL]

\* The handle that the search for a free slot ends with.
FreeHandle(size, table) ==
  LET Probe(i) == (i + handle_index) % (HANDLE_MASK + 1)
      Free(i)  == table[Probe(i) % size] = NULL
  IN Probe(CHOOSE i \in 0 .. size - 1 : Free(i) /\ \A j \in 0 .. i - 1 : ~ Free(j))

\* mtask_handle_register.  The process aborts where an assertion fails.
Register(t) ==
  LET size  == IF Full THEN 2 * slot_size ELSE slot_size
      table == IF Full THEN Rehashed ELSE slot
      h     == FreeHandle(size, table)
  IN /\ pc[t] = "register"
     /\ Full => RehashFits /\ 2 * slot_size - 1 <= HANDLE_MASK
     /\ slot_size' = size
     /\ slot' = [table EXCEPT ![h % size] = ctx[t]]
     /\ handle_index' = h + 1
     /\ got' = [got EXCEPT ![t] = h + Harbor]
     /\ pc' = [pc EXCEPT ![t] = "assign"]
     /\ UNCHANGED <<name, handle, st, ctx, raVars, ra_todo>>

\* ctx->handle = <the result>, outside of the lock.
Assign(t) ==
  /\ pc[t] = "assign"
  /\ handle' = [handle EXCEPT ![ctx[t]] = got[t]]
  /\ pc' = [pc EXCEPT ![t] = "idle"]
  /\ ctx' = [ctx EXCEPT ![t] = NULL]
  /\ got' = [got EXCEPT ![t] = 0]
  /\ UNCHANGED <<tableVars, name, st, raVars, ra_todo>>
-----------------------------------------------------------------------------
(* Lookups: what they return in a state.                                   *)

\* mtask_handle_grab
GrabOf(h) ==
  LET c == slot[h % slot_size]
  IN IF c # NULL /\ handle[c] = h THEN c ELSE NULL

\* The binary search of mtask_handle_findname and _insert_name over name[p[1]+1]
\* .. name[p[2]+1]: either the index that holds n, or where to insert it.
Search(n) ==
  LET search[p \in (0 .. Len(name)) \X (-1 .. Len(name) - 1)] ==
        LET mid == (p[1] + p[2]) \div 2
        IN IF p[1] > p[2] THEN [found |-> FALSE, at |-> p[1]]
           ELSE IF name[mid + 1].name = n THEN [found |-> TRUE, at |-> mid]
           ELSE IF name[mid + 1].name < n THEN search[<<mid + 1, p[2]>>]
           ELSE search[<<p[1], mid - 1>>]
  IN search[<<0, Len(name) - 1>>]

FindName(n) ==
  LET r == Search(n) IN IF r.found THEN name[r.at + 1].handle ELSE 0
-----------------------------------------------------------------------------
(* Retiring and naming.                                                    *)

\* mtask_handle_retire that forgets to take the names of the handle away.
RetireHandle_KeepNames(h) ==
  /\ IF GrabOf(h) # NULL
     THEN /\ slot' = [slot EXCEPT ![h % slot_size] = NULL]
          /\ st' = [st EXCEPT ![GrabOf(h)] = "retired"]
          /\ ra_todo' = ra_todo \ {h}
     ELSE UNCHANGED <<slot, st, ra_todo>>
  /\ UNCHANGED <<slot_size, handle_index, name>>

\* The names that are not h's, moved together.
Kept(h) ==
  LET kept[i \in 0 .. Len(name)] ==
        IF i = 0 THEN <<>>
        ELSE IF name[i].handle = h THEN kept[i - 1] ELSE Append(kept[i - 1], name[i])
  IN kept[Len(name)]

\* The critical section of mtask_handle_retire.
RetireHandle(h) ==
  /\ IF GrabOf(h) # NULL
     THEN /\ slot' = [slot EXCEPT ![h % slot_size] = NULL]
          /\ st' = [st EXCEPT ![GrabOf(h)] = "retired"]
          /\ name' = Kept(h)
          /\ ra_todo' = ra_todo \ {h}
     ELSE UNCHANGED <<slot, st, name, ra_todo>>
  /\ UNCHANGED <<slot_size, handle_index>>

\* EXIT and KILL, with any handle.
Retire == \E h \in Handle :
            RetireHandle(h) /\ UNCHANGED <<handle, launchVars, raVars>>

\* The last reference goes, not before the launching thread let go of its own; the
\* memory may be used again.
Free(c) ==
  /\ st[c] = "retired" /\ \A t \in Launcher : ctx[t] # c
  /\ st' = [st EXCEPT ![c] = "none"]
  /\ handle' = [handle EXCEPT ![c] = 0]
  /\ UNCHANGED <<tableVars, name, launchVars, raVars, ra_todo>>

\* An insertion that does not shift the names behind it.
InsertAt_Last(i, e) == Append(name, e)

\* _insert_name_before
InsertAt(i, e) == SubSeq(name, 1, i) \o <<e>> \o SubSeq(name, i + 1, Len(name))

\* mtask_handle_namehandle: a service names itself, retired or not.
NameHandle(n, c) ==
  /\ handle[c] # 0
  /\ ~ Search(n).found
  /\ name' = InsertAt(Search(n).at, [name |-> n, handle |-> handle[c]])
  /\ UNCHANGED <<tableVars, handle, st, launchVars, raVars, ra_todo>>
-----------------------------------------------------------------------------
(* mtask_handle_retireall (ABORT): passes over the slots until one retires *)
(* nothing.                                                                *)

\* A pass that starts at slot 1.
RaStart_Skip ==
  /\ Aborts /\ ra = "idle"
  /\ ra' = "read" /\ ra_i' = 1 /\ ra_any' = FALSE
  /\ ra_todo' = {h \in Address : GrabOf(h) # NULL}
  /\ UNCHANGED <<tableVars, name, handle, st, launchVars, ra_h>>

RaStart ==
  /\ Aborts /\ ra = "idle"
  /\ ra' = "read" /\ ra_i' = 0 /\ ra_any' = FALSE
  /\ ra_todo' = {h \in Address : GrabOf(h) # NULL}
  /\ UNCHANGED <<tableVars, name, handle, st, launchVars, ra_h>>

\* The handle in slot i, under the read lock; an empty slot, or a context
\* that has no handle yet, is passed over.
RaRead ==
  /\ ra = "read" /\ ra_i < slot_size
  /\ LET c == slot[ra_i]
     IN IF c # NULL /\ handle[c] # 0
        THEN ra' = "retire" /\ ra_h' = handle[c] /\ UNCHANGED ra_i
        ELSE ra_i' = ra_i + 1 /\ UNCHANGED <<ra, ra_h>>
  /\ UNCHANGED <<tableVars, name, handle, st, launchVars, ra_any, ra_todo>>

RaRetire ==
  /\ ra = "retire"
  /\ RetireHandle(ra_h)
  /\ ra_any' = (ra_any \/ GrabOf(ra_h) # NULL)
  /\ ra' = "read" /\ ra_i' = ra_i + 1 /\ ra_h' = 0
  /\ UNCHANGED <<handle, launchVars>>

RaPassEnds ==
  /\ ra = "read" /\ ra_i >= slot_size
  /\ ra' = IF ra_any THEN "read" ELSE "idle"
  /\ ra_i' = 0 /\ ra_any' = FALSE
  /\ UNCHANGED <<tableVars, name, handle, st, launchVars, ra_h, ra_todo>>
-----------------------------------------------------------------------------
LaunchStep(t) == Create(t) \/ Register(t) \/ Assign(t)

RaStep == RaStart \/ RaRead \/ RaRetire \/ RaPassEnds

Next == \/ \E t \in Launcher : LaunchStep(t)
        \/ Retire
        \/ \E c \in Ctx : Free(c)
        \/ \E n \in Name, c \in Ctx : NameHandle(n, c)
        \/ RaStep

Spec == Init /\ [][Next]_vars
-----------------------------------------------------------------------------
TypeOK ==
  /\ slot_size \in 1 .. HANDLE_MASK + 1
  /\ slot \in [0 .. slot_size - 1 -> Ctx \cup {NULL}]
  /\ handle_index \in 1 .. HANDLE_MASK + 1
  /\ name \in Seq([name : Name, handle : Handle])
  /\ handle \in [Ctx -> Handle \cup {0}]
  /\ st \in [Ctx -> {"none", "known", "retired"}]
  /\ pc \in [Launcher -> {"idle", "register", "assign"}]
  /\ ctx \in [Launcher -> Ctx \cup {NULL}]
  /\ got \in [Launcher -> Handle \cup {0}]
  /\ ra \in {"idle", "read", "retire"}
  /\ ra_i \in 0 .. HANDLE_MASK + 1
  /\ ra_h \in Handle \cup {0}
  /\ ra_any \in BOOLEAN
  /\ ra_todo \subseteq Handle

\* The array of names stays sorted and free of duplicates, whatever is
\* retired from its middle: the binary searches rely on it.
NamesSorted ==
  \A i, j \in DOMAIN name : i < j => name[i].name < name[j].name

\* Slots, handles and names are as the searches in them expect.
TableSound == TypeOK /\ NamesSorted

\* mtask_handle_retireall has retired every service that was there when it
\* began, although slots move (the table grows), empty and fill meanwhile.
AbortRetiresAll ==
  [][ra # "idle" /\ ra' = "idle" => ra_todo' = {}]_vars

\* The table and the array implement the directory: a lookup finds what was
\* bound or named last, also after the table grew and the handles wrapped.
D == INSTANCE HandleMap WITH
       Handle <- Address,
       owner <- [h \in Address |-> GrabOf(h)],
       named <- [n \in Name |-> IF FindName(n) = 0 THEN NULL ELSE FindName(n)]

ImplementsHandleMap == D!Spec

\* mtask_handle.c:60, assert(new_slot[hash] == NULL).
RehashAssertion == \A t \in Launcher : pc[t] = "register" /\ Full => RehashFits

\* mtask_handle.c:251, "reserve 0 for system".
ZeroReserved == \A t \in Launcher : pc[t] = "assign" => got[t] # 0
=============================================================================
