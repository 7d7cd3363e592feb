------------------------------- MODULE RwLock -------------------------------
(***************************************************************************)
(* The spinning read-write lock of mtask-src/rwlock.h (the build without   *)
(* USE_PTHREAD_LOCK), which guards the handle table: a word that the       *)
(* writer swaps to 1 and a count that every reader adds itself to before   *)
(* it looks at the word again.  An action is one atomic instruction or one *)
(* read of a word; the memory is sequentially consistent, as the full      *)
(* barriers of the __sync builtins make it on x86.                         *)
(***************************************************************************)
EXTENDS Integers, FiniteSets

CONSTANT Thread

ASSUME RwLockAssumption == IsFiniteSet(Thread)

VARIABLES
  write, read,  \* the words of struct rwlock
  pc            \* where each thread is

vars == <<write, read, pc>>

Goto(t, p) == pc' = [pc EXCEPT ![t] = p]

Init ==
  /\ write = 0 /\ read = 0
  /\ pc = [t \in Thread |-> "idle"]
-----------------------------------------------------------------------------
(* rwlock_rlock and rwlock_runlock.                                        *)

StartRead(t) ==
  /\ pc[t] = "idle"
  /\ Goto(t, "r_spin")
  /\ UNCHANGED <<write, read>>

\* while(lock->write): the turns of the loop that see 1 change nothing.
ReaderSpin(t) ==
  /\ pc[t] = "r_spin" /\ write = 0
  /\ Goto(t, "r_inc")
  /\ UNCHANGED <<write, read>>

ReaderEnter(t) ==
  /\ pc[t] = "r_inc"
  /\ read' = read + 1
  /\ Goto(t, "r_test")
  /\ UNCHANGED write

\* A reader that does not look at the word again.
ReaderTest_Trusting(t) ==
  /\ pc[t] = "r_test"
  /\ Goto(t, "reading")
  /\ UNCHANGED <<write, read>>

\* if (lock->write), the second look.
ReaderTest(t) ==
  /\ pc[t] = "r_test"
  /\ Goto(t, IF write = 1 THEN "r_dec" ELSE "reading")
  /\ UNCHANGED <<write, read>>

ReaderBack(t) ==
  /\ pc[t] = "r_dec"
  /\ read' = read - 1
  /\ Goto(t, "r_spin")
  /\ UNCHANGED write

ReadUnlock(t) ==
  /\ pc[t] = "reading"
  /\ read' = read - 1
  /\ Goto(t, "idle")
  /\ UNCHANGED write
-----------------------------------------------------------------------------
(* rwlock_wlock and rwlock_wunlock.                                        *)

StartWrite(t) ==
  /\ pc[t] = "idle"
  /\ Goto(t, "w_swap")
  /\ UNCHANGED <<write, read>>

\* __sync_lock_test_and_set: a swap of 1 for 1 changes nothing and spins.
WriterSwap(t) ==
  /\ pc[t] = "w_swap" /\ write = 0
  /\ write' = 1
  /\ Goto(t, "w_wait")
  /\ UNCHANGED read

\* while(lock->read).
WriterWait(t) ==
  /\ pc[t] = "w_wait" /\ read = 0
  /\ Goto(t, "writing")
  /\ UNCHANGED <<write, read>>

WriteUnlock(t) ==
  /\ pc[t] = "writing"
  /\ write' = 0
  /\ Goto(t, "idle")
  /\ UNCHANGED read
-----------------------------------------------------------------------------
ReaderStep(t) == \/ ReaderSpin(t)
                 \/ ReaderEnter(t)
                 \/ ReaderTest(t)
                 \/ ReaderBack(t)
                 \/ ReadUnlock(t)

WriterStep(t) == \/ WriterSwap(t)
                 \/ WriterWait(t)
                 \/ WriteUnlock(t)

Step(t) == \/ StartRead(t)
           \/ StartWrite(t)
           \/ ReaderStep(t)
           \/ WriterStep(t)

Next == \E t \in Thread : Step(t)

\* Threads are scheduled and leave the sections they are in; nothing makes
\* them lock again.
Spec == /\ Init /\ [][Next]_vars
        /\ \A t \in Thread : WF_vars(ReaderStep(t)) /\ WF_vars(WriterStep(t))
-----------------------------------------------------------------------------
(* Properties.                                                             *)

Pc == {"idle", "r_spin", "r_inc", "r_test", "r_dec", "reading",
       "w_swap", "w_wait", "writing"}

TypeOK ==
  /\ write \in {0, 1}
  /\ read \in Nat
  /\ pc \in [Thread -> Pc]

\* A writer is alone in its section: no reader and no other writer.
MutualExclusion ==
  \A t, u \in Thread :
    pc[t] = "writing" /\ u # t => pc[u] \notin {"writing", "reading"}

\* A writer that has the word enters: readers that come later stay out, and
\* those that were about to enter go back.
WriterEnters == \A t \in Thread : []<>(pc[t] # "w_wait")

\* lock->read counts the readers between their increment and decrement.
Counted == {t \in Thread : pc[t] \in {"r_test", "r_dec", "reading"}}
ReadExact == read = Cardinality(Counted)

\* The lock keeps writers alone and counts its readers.
LockSound == TypeOK /\ MutualExclusion /\ ReadExact
=============================================================================
