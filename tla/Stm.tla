---------------------------------- MODULE Stm ----------------------------------
(***************************************************************************)
(* lualib-src/mtask_lua_stm.c: a service publishes copies of a message,    *)
(* others read the last one, each on its own thread.  An object is shared  *)
(* by all of them, a copy by those that have read it, both counted; the    *)
(* read-write lock of the object is the one of module RwLock.  What is     *)
(* freed is freed in the step that counts down to 0.                       *)
(***************************************************************************)
EXTENDS Integers, FiniteSets

CONSTANTS
  Reader,       \* services that get a reader of the object
  MaxCopy       \* bound: messages published

VARIABLES
  freed,        \* obj was freed
  refer,        \* obj->reference
  copy,         \* obj->copy, 0 for NULL
  lock,         \* readers that have the lock
  held,         \* copy->reference of every copy
  copies,       \* how many were made
  at,           \* where a service is: the writer is 0
  old,          \* oldcopy of the writer
  ret, last     \* of a reader: what stm_copy takes, and lastcopy

stmVars == <<freed, refer, copy, lock, held, copies, at, old, ret, last>>

Copy == 1 .. MaxCopy
Writer == 0

ASSUME StmAssumption ==
  /\ IsFiniteSet(Reader) /\ Writer \notin Reader
  /\ MaxCopy \in Nat \ {0}

\* stm_new.
StmInit ==
  /\ freed = FALSE /\ refer = 1 /\ copy = 1 /\ lock = {}
  /\ held = [c \in Copy |-> IF c = 1 THEN 1 ELSE 0] /\ copies = 1
  /\ at = [s \in Reader \cup {Writer} |-> IF s = Writer THEN "rest" ELSE "none"]
  /\ old = 0
  /\ ret = [r \in Reader |-> 0] /\ last = [r \in Reader |-> 0]

GoesTo(s, where) == at' = [at EXCEPT ![s] = where]

\* stm_releasecopy; nothing for NULL.
Released(c) == IF c = 0 THEN held ELSE [held EXCEPT ![c] = @ - 1]

\* lcopy, and the message that takes the pointer to the reader: lnewreader.
Grab(r) ==
  /\ at[Writer] = "rest" /\ at[r] = "none"
  /\ refer' = refer + 1
  /\ GoesTo(r, "rest")
  /\ UNCHANGED <<freed, copy, lock, held, copies, old, ret, last>>

\* stm_update: the copy is exchanged under the write lock.
Update ==
  /\ at[Writer] = "rest" /\ copies < MaxCopy /\ lock = {}
  /\ copies' = copies + 1 /\ copy' = copies'
  /\ held' = [held EXCEPT ![copies'] = 1]
  /\ old' = copy /\ GoesTo(Writer, "updated")
  /\ UNCHANGED <<freed, refer, lock, ret, last>>

\* The end of stm_update, without the lock.
ReleaseOld ==
  /\ at[Writer] = "updated"
  /\ held' = Released(old) /\ old' = 0
  /\ GoesTo(Writer, "rest")
  /\ UNCHANGED <<freed, refer, copy, lock, copies, ret, last>>

\* stm_release, in the write lock.
Release ==
  /\ at[Writer] = "rest" /\ lock = {}
  /\ held' = Released(copy) /\ copy' = 0
  /\ refer' = refer - 1 /\ freed' = (refer' <= 0)
  /\ GoesTo(Writer, "gone")
  /\ UNCHANGED <<lock, copies, old, ret, last>>

\* rwlock_rlock, of stm_copy or stm_releasereader.
Lock(r, where) == lock' = lock \cup {r} /\ GoesTo(r, where)

\* stm_copy looks at obj->copy without the lock.
Look_Unlocked(r) ==
  /\ at[r] = "rest"
  /\ ret' = [ret EXCEPT ![r] = copy] /\ GoesTo(r, "counts")
  /\ UNCHANGED <<freed, refer, copy, lock, held, copies, old, last>>

\* lread: stm_copy looks at obj->copy with the lock.
Look(r) ==
  /\ at[r] = "rest" /\ Lock(r, "counts")
  /\ ret' = [ret EXCEPT ![r] = copy]
  /\ UNCHANGED <<freed, refer, copy, held, copies, old, last>>

\* It counts itself in, whose count may not be 0.
Count(r) ==
  /\ at[r] = "counts"
  /\ held' = IF ret[r] = 0 THEN held ELSE [held EXCEPT ![ret[r]] = @ + 1]
  /\ GoesTo(r, "unlocks")
  /\ UNCHANGED <<freed, refer, copy, lock, copies, old, ret, last>>

\* rwlock_runlock.
Unlock(r) ==
  /\ at[r] \in {"unlocks", "leaves"}
  /\ lock' = lock \ {r}
  /\ GoesTo(r, IF at[r] = "unlocks" THEN "compares" ELSE "drops")
  /\ UNCHANGED <<freed, refer, copy, held, copies, old, ret, last>>

\* The rest of lread: one of the two is released, the same if nothing is new.
Compare(r) ==
  /\ at[r] = "compares"
  /\ held' = Released(last[r])
  /\ last' = [last EXCEPT ![r] = ret[r]] /\ ret' = [ret EXCEPT ![r] = 0]
  /\ GoesTo(r, "rest")
  /\ UNCHANGED <<freed, refer, copy, lock, copies, old>>

\* ldeletereader: stm_releasereader with the lock.
Leave(r) ==
  /\ at[r] = "rest" /\ Lock(r, "counts out")
  /\ UNCHANGED <<freed, refer, copy, held, copies, old, ret, last>>

\* The last one frees the object, and its lock with it.
CountOut(r) ==
  /\ at[r] = "counts out"
  /\ refer' = refer - 1
  /\ IF refer' = 0 THEN freed' = TRUE /\ lock' = lock \ {r} /\ GoesTo(r, "drops")
     ELSE GoesTo(r, "leaves") /\ UNCHANGED <<freed, lock>>
  /\ UNCHANGED <<copy, held, copies, old, ret, last>>

\* The end of ldeletereader.
Drop(r) ==
  /\ at[r] = "drops"
  /\ held' = Released(last[r]) /\ last' = [last EXCEPT ![r] = 0]
  /\ GoesTo(r, "gone")
  /\ UNCHANGED <<freed, refer, copy, lock, copies, old, ret>>

StmNext ==
  \/ Update \/ ReleaseOld \/ Release
  \/ \E r \in Reader : \/ Grab(r) \/ Look(r) \/ Count(r) \/ Unlock(r) \/ Compare(r)
                       \/ Leave(r) \/ CountOut(r) \/ Drop(r)

StmSpec == StmInit /\ [][StmNext]_stmVars
-----------------------------------------------------------------------------
(* Properties.                                                             *)

\* The object is freed by the last one that knows it: nobody uses it after that,
\* except a reader that has counted itself out and has still to give the lock back.
\* Another reader may count itself out and free the object before it does.
ObjectKept ==
  freed => \A s \in Reader \cup {Writer} : at[s] \in {"none", "leaves", "drops", "gone"}

\* Nobody takes, reads or has a copy that was freed: the count of a copy is that of
\* those who have it, and was not 0 when one more looked at it.
CopiesCounted ==
  \A c \in Copy :
    LET has == {r \in Reader : last[r] = c}
        takes == {r \in Reader : ret[r] = c /\ at[r] \in {"unlocks", "compares"}}
    IN /\ held[c] = Cardinality(has) + Cardinality(takes)
                      + (IF c \in {copy, old} THEN 1 ELSE 0)
       /\ \A r \in Reader : ret[r] = c /\ at[r] = "counts" => held[c] > 0

\* When all are gone everything is freed.
NothingLeaks ==
  (\A s \in Reader \cup {Writer} : at[s] \in {"none", "gone"}) /\ at[Writer] = "gone" =>
    freed /\ \A c \in Copy : held[c] = 0

\* Objects and copies are there as long as somebody has them, and no longer.
CopiesShared == ObjectKept /\ CopiesCounted /\ NothingLeaks
=============================================================================
