------------------------------- MODULE RWLock -------------------------------
(***************************************************************************)
(* The reader-writer lock of a storage server's files, semaphore by        *)
(* semaphore (src/StorageServers/client_request_helper.c:12-51).           *)
(*                                                                         *)
(* A step runs from one semaphore operation that can block, or that lets   *)
(* another thread run, to the next.  `readers` is only touched while       *)
(* `lock` is held, so counting belongs to the step that takes `lock`.      *)
(***************************************************************************)
EXTENDS Naturals, FiniteSets

CONSTANT Thread

VARIABLES
  readers,     \* rwlock.readers
  lock,        \* value of the semaphore rwlock.lock
  writeLock,   \* value of the semaphore rwlock.writeLock
  pc           \* where each thread is

vars == <<readers, lock, writeLock, pc>>

(* "entering"  in acquire_readlock, about to wait for lock (13)            *)
(* "gate"      holds lock as the first reader, waits for writeLock (16)    *)
(* "admitted"  holds lock, about to post it (18)                           *)
(* "releasing" in release_readlock, about to wait for lock (27)            *)
(* "leaving"   holds lock, about to post it (32)                           *)
(* "wanting"   in acquire_writelock, waits for writeLock (41)              *)
Location == {"idle", "entering", "gate", "admitted", "reading", "releasing",
             "leaving", "wanting", "writing"}

At(L) == {t \in Thread : pc[t] \in L}

TypeOK == /\ readers \in Nat
          /\ lock \in {0, 1}
          /\ writeLock \in {0, 1}
          /\ pc \in [Thread -> Location]

Init == /\ readers = 0
        /\ lock = 1
        /\ writeLock = 1
        /\ pc = [t \in Thread |-> "idle"]

Goto(t, from, to) == pc[t] = from /\ pc' = [pc EXCEPT ![t] = to]

-----------------------------------------------------------------------------
FirstReader(n) == n = 1

LastReader(n) == n = 0

CallAcquireRead(t) == Goto(t, "idle", "entering") /\ UNCHANGED <<readers, lock, writeLock>>

CountIn(t) ==
  /\ lock = 1 /\ lock' = 0
  /\ readers' = readers + 1
  /\ Goto(t, "entering", IF FirstReader(readers + 1) THEN "gate" ELSE "admitted")
  /\ UNCHANGED writeLock

PassGate(t) ==
  /\ writeLock = 1 /\ writeLock' = 0
  /\ Goto(t, "gate", "admitted")
  /\ UNCHANGED <<readers, lock>>

FinishAcquireRead(t) ==
  /\ Goto(t, "admitted", "reading")
  /\ lock' = lock + 1
  /\ UNCHANGED <<readers, writeLock>>

CallReleaseRead(t) == Goto(t, "reading", "releasing") /\ UNCHANGED <<readers, lock, writeLock>>

CountOut(t) ==
  /\ lock = 1 /\ lock' = 0
  /\ readers' = readers - 1
  /\ writeLock' = IF LastReader(readers - 1) THEN writeLock + 1 ELSE writeLock
  /\ Goto(t, "releasing", "leaving")

FinishReleaseRead(t) ==
  /\ Goto(t, "leaving", "idle")
  /\ lock' = lock + 1
  /\ UNCHANGED <<readers, writeLock>>

CallAcquireWrite(t) == Goto(t, "idle", "wanting") /\ UNCHANGED <<readers, lock, writeLock>>

AcquireWrite(t) ==
  /\ writeLock = 1 /\ writeLock' = 0
  /\ Goto(t, "wanting", "writing")
  /\ UNCHANGED <<readers, lock>>

ReleaseWrite(t) ==
  /\ Goto(t, "writing", "idle")
  /\ writeLock' = writeLock + 1
  /\ UNCHANGED <<readers, lock>>

(* What a thread does once it has called in: it may be kept waiting by a   *)
(* semaphore, but it does not stop by itself, and it gives the lock back.  *)
Proceed(t) ==
  \/ CountIn(t) \/ PassGate(t) \/ FinishAcquireRead(t)
  \/ CallReleaseRead(t) \/ CountOut(t) \/ FinishReleaseRead(t)
  \/ AcquireWrite(t) \/ ReleaseWrite(t)

Next == \E t \in Thread : CallAcquireRead(t) \/ CallAcquireWrite(t) \/ Proceed(t)

Spec == Init /\ [][Next]_vars

-----------------------------------------------------------------------------
Reading == At({"reading"})
Writing == At({"writing"})

(* No thread reads a file while another writes it, and no two write it: what *)
(* read_file_in_ss and write_file_in_ss rely on between acquire and release. *)
Exclusion ==
  /\ \A t, u \in Writing : t = u
  /\ Writing # {} => Reading = {}

(* The three semaphores together are a reader-writer lock: readers come in *)
(* and leave in any order, and a writer is alone.                          *)
Abstract == INSTANCE SharedExclusive WITH reading <- Reading, writing <- Writing
SharedExclusiveLock == Abstract!Spec
=============================================================================
