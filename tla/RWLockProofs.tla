---------------------------- MODULE RWLockProofs ----------------------------
(***************************************************************************)
(* The reader-writer lock keeps readers and writers apart for any finite   *)
(* set of threads.  What makes exclusion inductive is who owns each        *)
(* semaphore: `lock` belongs to the one thread that counts, `writeLock` to *)
(* the writer or to the readers that passed the gate, and `readers` is the *)
(* number of threads counted in.                                           *)
(***************************************************************************)
EXTENDS RWLock, FiniteSetTheorems, TLAPS

Counting == At({"gate", "admitted", "leaving"})            \* own lock
Passed   == At({"admitted", "reading", "releasing"})       \* own writeLock
Counted  == At({"gate", "admitted", "reading", "releasing"})

LockOwned == /\ \A t, u \in Counting : t = u
             /\ lock = 1 <=> Counting = {}

WriteLockOwned == /\ writeLock = 1 <=> Passed \union Writing = {}
                  /\ Writing # {} => Passed = {}
                  /\ \A t, u \in Writing : t = u

(* A reader at the gate is the only one counted: a later one would have    *)
(* needed lock.                                                            *)
GateAlone == \A t \in At({"gate"}) : Counted = {t}

IInv == /\ TypeOK
        /\ LockOwned
        /\ WriteLockOwned
        /\ GateAlone
        /\ readers = Cardinality(Counted)


(* The threads counted in are finitely many, and one more or one less      *)
(* changes their number by one.                                            *)
LEMMA CountedSize ==
  ASSUME IsFiniteSet(Thread), NEW S \in SUBSET Thread, NEW t \in Thread
  PROVE  /\ IsFiniteSet(S)
         /\ Cardinality(S) \in Nat
         /\ t \notin S => Cardinality(S \union {t}) = Cardinality(S) + 1
         /\ t \in S => Cardinality(S \ {t}) = Cardinality(S) - 1
         /\ Cardinality(S) = 0 <=> S = {}
  BY FS_Subset, FS_CardinalityType, FS_AddElement, FS_RemoveElement, FS_EmptySet

LEMMA InitInv == Init => IInv
  BY FS_EmptySet
  DEF Init, IInv, TypeOK, Location, LockOwned, WriteLockOwned, GateAlone,
      Counting, Passed, Counted, Writing, At

(* Every step leaves each semaphore with its owner.                        *)
LEMMA StepInv ==
  ASSUME IsFiniteSet(Thread), IInv, NEW t \in Thread,
         CallAcquireRead(t) \/ CallAcquireWrite(t) \/ Proceed(t)
  PROVE  IInv'
<1> USE DEF At, Goto, Location
<1>0. /\ Counted \in SUBSET Thread /\ Counted' \in SUBSET Thread
      /\ pc \in [Thread -> Location] /\ readers \in Nat
      /\ lock \in {0, 1} /\ writeLock \in {0, 1}
  BY DEF Counted, IInv, TypeOK
<1>1. CASE CallAcquireRead(t)
  <2>1. Counted' = Counted
    BY <1>0, <1>1 DEF CallAcquireRead, Counted
  <2> QED
    BY <1>0, <1>1, <2>1 DEF CallAcquireRead, IInv, TypeOK, LockOwned, WriteLockOwned,
       GateAlone, Counting, Passed, Counted, Writing
<1>2. CASE CountIn(t)
  <2>1. Counted' = Counted \union {t} /\ t \notin Counted
    BY <1>0, <1>2 DEF CountIn, Counted, FirstReader
  <2>2. readers' = Cardinality(Counted')
    BY <1>0, <1>2, <2>1, CountedSize DEF CountIn, IInv
  <2>3. readers + 1 = 1 <=> Counted = {}
    <3>1. Cardinality(Counted) \in Nat /\ (Cardinality(Counted) = 0 <=> Counted = {})
      BY <1>0, CountedSize
    <3>2. readers = Cardinality(Counted)
      BY DEF IInv
    <3> QED
      BY <3>1, <3>2
  <2>4. Counting = {} /\ Counted = Passed
    BY <1>0, <1>2 DEF CountIn, IInv, LockOwned, Counting, Passed, Counted
  <2>5. Counting' = {t}
    BY <1>0, <1>2, <2>4 DEF CountIn, Counting
  <2>6. LockOwned' /\ TypeOK'
    BY <1>0, <1>2, <2>5 DEF CountIn, LockOwned, TypeOK
  <2>7. CASE readers + 1 = 1
    <3>1. pc'[t] = "gate" /\ Passed' = Passed /\ Writing' = Writing /\ Counted' = {t}
      BY <1>0, <1>2, <2>1, <2>3, <2>7 DEF CountIn, FirstReader, Passed, Writing
    <3>2. WriteLockOwned'
      BY <1>2, <3>1 DEF CountIn, IInv, WriteLockOwned
    <3>3. GateAlone'
      BY <2>5, <3>1 DEF GateAlone, Counting
    <3> QED
      BY <2>2, <2>6, <3>2, <3>3 DEF IInv
  <2>8. CASE readers + 1 # 1
    <3>1. /\ pc'[t] = "admitted" /\ Passed' = Passed \union {t} /\ Writing' = Writing
      BY <1>0, <1>2, <2>8 DEF CountIn, FirstReader, Passed, Writing
    <3>2. WriteLockOwned'
      BY <1>2, <2>3, <2>4, <2>8, <3>1 DEF CountIn, IInv, WriteLockOwned
    <3>3. GateAlone'
      BY <1>0, <1>2, <2>5, <3>1 DEF GateAlone, Counting
    <3> QED
      BY <2>2, <2>6, <3>2, <3>3 DEF IInv
  <2> QED
    BY <2>7, <2>8
<1>3. CASE PassGate(t)
  <2>1. Counted' = Counted
    BY <1>0, <1>3 DEF PassGate, Counted
  <2> QED
    BY <1>0, <1>3, <2>1 DEF PassGate, IInv, TypeOK, LockOwned, WriteLockOwned,
       GateAlone, Counting, Passed, Counted, Writing
<1>4. CASE FinishAcquireRead(t)
  <2>1. Counted' = Counted
    BY <1>0, <1>4 DEF FinishAcquireRead, Counted
  <2> QED
    BY <1>0, <1>4, <2>1 DEF FinishAcquireRead, IInv, TypeOK, LockOwned, WriteLockOwned,
       GateAlone, Counting, Passed, Counted, Writing
<1>5. CASE CallReleaseRead(t)
  <2>1. Counted' = Counted
    BY <1>0, <1>5 DEF CallReleaseRead, Counted
  <2> QED
    BY <1>0, <1>5, <2>1 DEF CallReleaseRead, IInv, TypeOK, LockOwned, WriteLockOwned,
       GateAlone, Counting, Passed, Counted, Writing
<1>6. CASE CountOut(t)
  <2>1. Counted' = Counted \ {t} /\ t \in Counted
    BY <1>0, <1>6 DEF CountOut, Counted
  <2>2. readers' = Cardinality(Counted')
    BY <1>0, <1>6, <2>1, CountedSize DEF CountOut, IInv
  <2>3. readers - 1 = 0 <=> Counted' = {}
    BY <1>0, <1>6, <2>2, CountedSize DEF CountOut
  <2>4. Counting = {} /\ Counted = Passed /\ Counted' = Passed'
    BY <1>0, <1>6 DEF CountOut, IInv, LockOwned, Counting, Passed, Counted
  <2>5. Counting' = {t}
    BY <1>0, <1>6, <2>4 DEF CountOut, Counting
  <2>6. writeLock = 0 /\ Writing = {} /\ Writing' = {}
    BY <1>0, <1>6, <2>1, <2>4 DEF CountOut, IInv, WriteLockOwned, Writing
  <2>7. LockOwned' /\ TypeOK'
    <3>1. readers' \in Nat
      BY <1>0, <2>2, CountedSize
    <3>2. writeLock' \in {0, 1} /\ pc' \in [Thread -> Location]
      BY <1>0, <1>6, <2>6 DEF CountOut
    <3> QED
      BY <1>6, <2>5, <3>1, <3>2 DEF CountOut, LockOwned, TypeOK
  <2>8. WriteLockOwned'
    BY <1>0, <1>6, <2>3, <2>4, <2>6 DEF CountOut, LastReader, WriteLockOwned
  <2>9. GateAlone'
    BY <1>0, <1>6, <2>4 DEF CountOut, GateAlone, Counting
  <2> QED
    BY <2>2, <2>7, <2>8, <2>9 DEF IInv
<1>7. CASE FinishReleaseRead(t)
  <2>1. Counted' = Counted
    BY <1>0, <1>7 DEF FinishReleaseRead, Counted
  <2> QED
    BY <1>0, <1>7, <2>1 DEF FinishReleaseRead, IInv, TypeOK, LockOwned, WriteLockOwned,
       GateAlone, Counting, Passed, Counted, Writing
<1>8. CASE CallAcquireWrite(t) \/ AcquireWrite(t) \/ ReleaseWrite(t)
  <2>1. Counted' = Counted
    BY <1>0, <1>8 DEF CallAcquireWrite, AcquireWrite, ReleaseWrite, Counted
  <2> QED
    BY <1>0, <1>8, <2>1 DEF CallAcquireWrite, AcquireWrite, ReleaseWrite, IInv, TypeOK,
       LockOwned, WriteLockOwned, GateAlone, Counting, Passed, Counted, Writing
<1> QED
  BY <1>1, <1>2, <1>3, <1>4, <1>5, <1>6, <1>7, <1>8 DEF Proceed

LEMMA Inductive == ASSUME IsFiniteSet(Thread) PROVE Spec => []IInv
<1>1. IInv /\ [Next]_vars => IInv'
  <2>1. CASE UNCHANGED vars
    BY <2>1 DEF vars, IInv, TypeOK, LockOwned, WriteLockOwned, GateAlone, Counting,
       Passed, Counted, Writing, At
  <2> QED
    BY <2>1, StepInv DEF Next
<1> QED
  BY InitInv, <1>1, PTL DEF Spec

(* The semaphores stay binary and the count natural, for any threads.      *)
THEOREM RWLockTypeCorrect == ASSUME IsFiniteSet(Thread) PROVE Spec => []TypeOK
  BY Inductive, PTL DEF IInv

LEMMA InvExclusion == IInv => Exclusion
  BY DEF IInv, WriteLockOwned, Exclusion, Reading, Writing, Passed, At

(* No reader is inside with a writer, and no two writers are.              *)
THEOREM RWLockExcludes == ASSUME IsFiniteSet(Thread) PROVE Spec => []Exclusion
  BY Inductive, InvExclusion, PTL

(* The semaphores implement the promise of structs.h:117-124.              *)
THEOREM RWLockImplements == ASSUME IsFiniteSet(Thread) PROVE Spec => SharedExclusiveLock
<1>1. Init => Abstract!Init
  BY DEF Init, Abstract!Init, Reading, Writing, At
<1>2. IInv /\ IInv' /\ [Next]_vars => [Abstract!Next]_(Abstract!vars)
  <2> SUFFICES ASSUME IInv, IInv', [Next]_vars
               PROVE  [Abstract!Next]_(Abstract!vars)
    OBVIOUS
  <2>0. pc \in [Thread -> Location] /\ Exclusion
    BY InvExclusion DEF IInv, TypeOK
  <2>1. ASSUME NEW t \in Thread, FinishAcquireRead(t)
        PROVE  Abstract!StartRead(t)
    BY <2>0, <2>1 DEF FinishAcquireRead, Goto, Abstract!StartRead, Reading, Writing, At,
       IInv, WriteLockOwned, Passed, Location
  <2>2. ASSUME NEW t \in Thread, CallReleaseRead(t)
        PROVE  Abstract!EndRead(t)
    BY <2>0, <2>2 DEF CallReleaseRead, Goto, Abstract!EndRead, Reading, Writing, At, Location
  <2>3. ASSUME NEW t \in Thread, AcquireWrite(t)
        PROVE  Abstract!StartWrite(t)
    BY <2>0, <2>3 DEF AcquireWrite, Goto, Abstract!StartWrite, Reading, Writing, At,
       IInv, WriteLockOwned, Passed, Location
  <2>4. ASSUME NEW t \in Thread, ReleaseWrite(t)
        PROVE  Abstract!EndWrite(t)
    BY <2>0, <2>4 DEF ReleaseWrite, Goto, Abstract!EndWrite, Reading, Writing, At,
       Exclusion, Location
  <2>5. ASSUME NEW t \in Thread,
               CallAcquireRead(t) \/ CallAcquireWrite(t) \/ CountIn(t) \/ PassGate(t)
                 \/ CountOut(t) \/ FinishReleaseRead(t)
        PROVE  UNCHANGED Abstract!vars
    BY <2>0, <2>5 DEF CallAcquireRead, CallAcquireWrite, CountIn, PassGate, CountOut,
       FinishReleaseRead, Goto, Abstract!vars, Reading, Writing, At, Location
  <2>6. CASE UNCHANGED vars
    BY <2>6 DEF vars, Abstract!vars, Reading, Writing, At
  <2> QED
    BY <2>1, <2>2, <2>3, <2>4, <2>5, <2>6 DEF Next, Proceed, Abstract!Next
<1> QED
  BY <1>1, <1>2, Inductive, PTL DEF Spec, SharedExclusiveLock, Abstract!Spec
=============================================================================
