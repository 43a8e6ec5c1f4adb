-------------------------- MODULE RecursiveLockProofs --------------------------
(***************************************************************************)
(* Proofs about RecursiveLock for every set of threads and every nesting   *)
(* depth: mutual exclusion, agreement of the words with what the guest was *)
(* told, absence of lost wake-ups, and refinement of the abstract mutex;   *)
(* then the same about its two uses, the critical section that is          *)
(* initialized and deleted, and the mutex object whose waits time out and  *)
(* whose owner may end.                                                    *)
(***************************************************************************)
EXTENDS MCLocks, FiniteSetTheorems, TLAPS

\* futex_wake releases waiters only, and with a positive count at least one
\* when there is one.
LEMMA WakeReleases ==
  ASSUME NEW W, NEW nr \in Nat, NEW S \in futex_wake(W, nr)
  PROVE  /\ S \subseteq W
         /\ nr > 0 /\ W # {} => S # {}
<1>1. S \subseteq W
  BY DEF futex_wake
<1>2. ASSUME nr > 0, W # {}, S = {} PROVE FALSE
  <2>1. Cardinality({}) = 0
    BY FS_EmptySet
  <2>2. Cardinality(S) = nr \/ S = W
    BY DEF futex_wake
  <2> QED
    BY <1>2, <2>1, <2>2
<1> QED
  BY <1>1, <1>2

\* The initial state satisfies the inductive invariant.
LEMMA InitLockInv == Init => LockInv
<1> SUFFICES ASSUME Init PROVE LockInv
  OBVIOUS
<1> USE NoThreadAssumption
<1>1. TypeOK
  BY DEF Init, TypeOK, PcValues
<1>2. \A t \in Thread : ~Holding(t)
  BY DEF Init, Holding
<1>3. OneHolder /\ HolderHasWord /\ OwnerNamesHolder
  BY <1>2 DEF Init, OneHolder, HolderHasWord, OwnerNamesHolder
<1>4. CounterIsDepth
  BY DEF Init, CounterIsDepth
<1>5. NoLostWakeup
  BY DEF Init, NoLostWakeup, Asleep
<1> QED
  BY <1>1, <1>3, <1>4, <1>5 DEF LockInv

\* Every step preserves the inductive invariant.
LEMMA NextLockInv == LockInv /\ [Next]_vars => LockInv'
<1> SUFFICES ASSUME LockInv, [Next]_vars PROVE LockInv'
  OBVIOUS
<1> USE NoThreadAssumption, MaxRecursionAssumption
<1> USE DEF LockInv, TypeOK, PcValues, OneHolder, HolderHasWord,
            OwnerNamesHolder, CounterIsDepth, NoLostWakeup, Asleep, Holding,
            Goto
<1>1. ASSUME NEW t \in Thread, Enter(t) PROVE LockInv'
  BY <1>1 DEF Enter
<1>2. ASSUME NEW t \in Thread, EnterRecurse(t) PROVE LockInv'
  BY <1>2 DEF EnterRecurse
<1>3. ASSUME NEW t \in Thread, EnterCas(t) PROVE LockInv'
  <2>1. CASE lock = 0
    BY <1>3, <2>1 DEF EnterCas
  <2>2. CASE lock # 0
    BY <1>3, <2>2 DEF EnterCas
  <2> QED
    BY <2>1, <2>2
<1>4. ASSUME NEW t \in Thread, EnterStoreOwner(t) PROVE LockInv'
  BY <1>4 DEF EnterStoreOwner
<1>5. ASSUME NEW t \in Thread, EnterStoreRecursion(t) PROVE LockInv'
  BY <1>5 DEF EnterStoreRecursion
<1>6. ASSUME NEW t \in Thread, FutexWait(t) PROVE LockInv'
  BY <1>6 DEF FutexWait
<1>7. ASSUME NEW t \in Thread, SpuriousWake(t) PROVE LockInv'
  BY <1>7 DEF SpuriousWake
<1>8. ASSUME NEW t \in Thread, Leave(t) PROVE LockInv'
  BY <1>8 DEF Leave
<1>9. ASSUME NEW t \in Thread, LeaveDecrement(t) PROVE LockInv'
  <2>1. held[t] > 0 /\ recursion = held[t] /\ held[t] \in Nat
    BY <1>9 DEF LeaveDecrement
  <2> QED
    BY <1>9, <2>1 DEF LeaveDecrement
<1>10. ASSUME NEW t \in Thread, LeaveClearOwner(t) PROVE LockInv'
  BY <1>10 DEF LeaveClearOwner
<1>11. ASSUME NEW t \in Thread, LeaveUnlock(t) PROVE LockInv'
  BY <1>11 DEF LeaveUnlock
<1>12. ASSUME NEW t \in Thread, LeaveWake(t) PROVE LockInv'
  <2>1. PICK S \in futex_wake(Asleep, 1) :
          pc' = [u \in Thread |-> IF u = t THEN "idle"
                                  ELSE IF u \in S THEN "cas" ELSE pc[u]]
    BY <1>12 DEF LeaveWake
  <2>2. S \subseteq Asleep /\ (Asleep # {} => S # {})
    BY <2>1, WakeReleases
  <2>3. UNCHANGED <<lock, owner, recursion, held>> /\ pc[t] = "wake"
    BY <1>12 DEF LeaveWake
  <2>4. \A u \in Thread : Holding(u)' = Holding(u)
    BY <2>1, <2>2, <2>3
  <2>5. NoLostWakeup'
    BY <2>1, <2>2, <2>3
  <2>6. TypeOK' /\ CounterIsDepth'
    BY <2>1, <2>2, <2>3
  <2>7. OneHolder' /\ HolderHasWord' /\ OwnerNamesHolder'
    BY <2>1, <2>2, <2>3, <2>4
  <2> QED
    BY <2>5, <2>6, <2>7
<1>13. CASE UNCHANGED vars
  BY <1>13 DEF vars
<1> QED
  BY <1>1, <1>2, <1>3, <1>4, <1>5, <1>6, <1>7, <1>8, <1>9, <1>10, <1>11,
     <1>12, <1>13 DEF Next, Step, CallStep

\* The inductive invariant holds in every reachable state.
THEOREM LockInvariant == Spec => []LockInv
BY InitLockInv, NextLockInv, PTL DEF Spec

\* Every word keeps its type: leave never takes the recursion counter below 0.
THEOREM LockTypeOK == Spec => []TypeOK
<1>1. LockInv => TypeOK
  BY DEF LockInv
<1> QED
  BY <1>1, LockInvariant, PTL

\* No two threads are ever inside the section.
THEOREM LockMutualExclusion == Spec => []MutualExclusion
<1>1. LockInv => MutualExclusion
  BY DEF LockInv, OneHolder, Holding, MutualExclusion
<1> QED
  BY <1>1, LockInvariant, PTL

\* Owner, counter and lock word say what the guest was told.
THEOREM LockWordsAgree == Spec => []WordsAgree
<1>1. LockInv => WordsAgree
  BY DEF LockInv, HolderHasWord, OwnerNamesHolder, CounterIsDepth, Holding,
         WordsAgree
<1> QED
  BY <1>1, LockInvariant, PTL

\* The lock is never free with a blocked thread and nobody to wake it.
THEOREM LockNoLostWakeup == Spec => []NoLostWakeup
<1>1. LockInv => NoLostWakeup
  BY DEF LockInv
<1> QED
  BY <1>1, LockInvariant, PTL

\* A thread is stored as owner over nobody else.
THEOREM LockOwnerStoredOverNone == Spec => OwnerStoredOverNone
<1>1. LockInv /\ [Next]_vars
        => [owner' \in Thread => owner = NoThread \/ owner' = owner]_vars
  <2> SUFFICES ASSUME LockInv, Next, owner' \in Thread, owner' # owner
               PROVE  owner = NoThread
    OBVIOUS
  <2>1. PICK t \in Thread : EnterStoreOwner(t)
    BY NoThreadAssumption
       DEF Next, Step, CallStep, Enter, Leave, SpuriousWake, EnterRecurse,
           EnterCas, EnterStoreRecursion, FutexWait, LeaveDecrement,
           LeaveClearOwner, LeaveUnlock, LeaveWake
  <2>2. Holding(t) /\ pc[t] = "store_owner"
    BY <2>1 DEF EnterStoreOwner, Holding
  <2> QED
    BY <2>2 DEF LockInv, TypeOK, OneHolder, OwnerNamesHolder
<1> QED
  BY <1>1, LockInvariant, PTL DEF Spec, OwnerStoredOverNone

\* A grant of the lock is an abstract Acquire, the decrement of the counter an
\* abstract Release, and every other step leaves the abstract state alone.
LEMMA StepRefines == LockInv /\ [Next]_vars => [Abstract!Next]_held
<1> SUFFICES ASSUME LockInv, [Next]_vars PROVE [Abstract!Next]_held
  OBVIOUS
<1> USE DEF LockInv, TypeOK, OneHolder, CounterIsDepth, Holding
<1>1. ASSUME NEW t \in Thread, EnterRecurse(t) \/ EnterStoreRecursion(t)
      PROVE  Abstract!Acquire(t)
  BY <1>1 DEF EnterRecurse, EnterStoreRecursion, Abstract!Acquire
<1>2. ASSUME NEW t \in Thread, LeaveDecrement(t)
      PROVE  Abstract!Release(t)
  BY <1>2 DEF LeaveDecrement, Abstract!Release
<1>3. ASSUME NEW t \in Thread, Step(t),
             ~(EnterRecurse(t) \/ EnterStoreRecursion(t) \/ LeaveDecrement(t))
      PROVE  UNCHANGED held
  BY <1>3 DEF Step, CallStep, Enter, Leave, SpuriousWake, EnterCas,
              EnterStoreOwner, FutexWait, LeaveClearOwner, LeaveUnlock,
              LeaveWake
<1>4. CASE UNCHANGED vars
  BY <1>4 DEF vars
<1> QED
  BY <1>1, <1>2, <1>3, <1>4 DEF Next, Abstract!Next

\* The lock implements the abstract recursive mutex.
THEOREM LockImplementsMutex == Spec => ImplementsMutex
<1>1. Init => Abstract!Init
  BY DEF Init, Abstract!Init
<1> QED
  BY <1>1, StepRefines, LockInvariant, PTL DEF Spec, ImplementsMutex, Abstract!Spec

-----------------------------------------------------------------------------
(* The critical section: the lock, initialized and deleted by the guest *)

\* The lock keeps its invariant when the guest initializes and deletes the
\* section: a fresh box is a free lock, and nobody is inside the old one.
LEMMA NextSectionInv == LockInv /\ [CSNext]_csVars => LockInv'
<1> SUFFICES ASSUME LockInv, [CSNext]_csVars PROVE LockInv'
  OBVIOUS
<1>1. CASE initialize_critical_section
  BY <1>1, NoThreadAssumption
     DEF initialize_critical_section, Quiescent, LockInv, TypeOK, PcValues, OneHolder,
         HolderHasWord, OwnerNamesHolder, CounterIsDepth, NoLostWakeup, Asleep, Holding
<1>2. CASE UNCHANGED vars
  BY <1>2, NextLockInv
<1>3. ASSUME NEW t \in Thread, Step(t) PROVE LockInv'
  BY <1>3, NextLockInv DEF Next
<1> QED
  BY <1>1, <1>2, <1>3 DEF CSNext, delete_critical_section, CSCall, csVars

\* A step of the locks is a step of the section or leaves it alone.
LEMMA SectionSteps ==
  [SectionNext \/ MutexNext \/ AddressNext]_allVars => [CSNext]_csVars
BY DEF SectionNext, MutexNext, AddressNext, allVars, csVars, vars

\* The lock's invariant over every use of a critical section.
LEMMA SectionInvariant == MCSpec => []LockInv
<1>1. MCInit => LockInv
  BY InitLockInv DEF MCInit, CSInit
<1> QED
  BY <1>1, NextSectionInv, SectionSteps, PTL DEF MCSpec

\* No two threads are inside a section, however often the guest initializes
\* and deletes it between its uses.
THEOREM SectionMutualExclusion == MCSpec => []MutualExclusion
<1>1. LockInv => MutualExclusion
  BY DEF LockInv, OneHolder, Holding, MutualExclusion
<1> QED
  BY <1>1, SectionInvariant, PTL

\* A wake-up is never lost in a section the guest initializes and deletes.
THEOREM SectionNoLostWakeup == MCSpec => []NoLostWakeup
<1>1. LockInv => NoLostWakeup
  BY DEF LockInv
<1> QED
  BY <1>1, SectionInvariant, PTL

\* A section that is initialized and deleted between its uses implements the
\* abstract recursive mutex.
THEOREM SectionImplementsMutex == MCSpec => ImplementsMutex
<1>1. MCInit => Abstract!Init
  BY DEF MCInit, CSInit, Init, Abstract!Init
<1>2. LockInv /\ [CSNext]_csVars => [Abstract!Next]_held
  <2> SUFFICES ASSUME LockInv, CSNext, ~UNCHANGED held PROVE Abstract!Next
    BY DEF csVars, vars
  <2>1. PICK t \in Thread : Step(t)
    BY DEF CSNext, initialize_critical_section, delete_critical_section, CSCall, csVars, vars
  <2> QED
    BY <2>1, StepRefines DEF Next
<1> QED
  BY <1>1, <1>2, SectionSteps, SectionInvariant, PTL
     DEF MCSpec, ImplementsMutex, Abstract!Spec

-----------------------------------------------------------------------------
(* The mutex object: timeouts, an initial owner, an owner that ends *)

\* A mutex is created free or owned by its creator.
LEMMA InitMutexInv == Mutex!MutexInit => Mutex!MutexInv
<1> SUFFICES ASSUME Mutex!MutexInit PROVE Mutex!MutexInv
  OBVIOUS
<1> USE NoThreadAssumption
<1> USE DEF Mutex!Keeping, Mutex!Kept, Mutex!Holding
<1>1. CASE Mutex!Init
  <2> USE <1>1 DEF Mutex!Init, Mutex!MutexInit
  <2>1. Mutex!MutexTypeOK
    BY DEF Mutex!MutexTypeOK, Mutex!TypeOK, Mutex!PcValues
  <2>2. Mutex!OneKeeper /\ Mutex!KeeperHasWord /\ Mutex!OwnerNamesKeeper
    BY DEF Mutex!OneKeeper, Mutex!KeeperHasWord, Mutex!OwnerNamesKeeper
  <2>3. Mutex!CounterIsKept
    BY DEF Mutex!CounterIsKept
  <2>4. Mutex!NoLostWakeup
    BY DEF Mutex!NoLostWakeup, Mutex!Asleep
  <2> QED
    BY <2>1, <2>2, <2>3, <2>4 DEF Mutex!MutexInv
<1>2. CASE ~Mutex!Init
  <2>1. PICK t \in Thread :
          /\ mx_lock = 1 /\ mx_owner = t /\ mx_recursion = 1
          /\ mx_pc = [u \in Thread |-> "idle"]
          /\ mx_held = [u \in Thread |-> IF u = t THEN 1 ELSE 0]
          /\ mx_left = [u \in Thread |-> 0]
    BY <1>2 DEF Mutex!MutexInit, Mutex!create_mutex_w
  <2>2. Mutex!MutexTypeOK
    BY <2>1 DEF Mutex!MutexInit, Mutex!MutexTypeOK, Mutex!TypeOK, Mutex!PcValues
  <2>3. Mutex!OneKeeper /\ Mutex!KeeperHasWord /\ Mutex!OwnerNamesKeeper
    BY <2>1 DEF Mutex!OneKeeper, Mutex!KeeperHasWord, Mutex!OwnerNamesKeeper
  <2>4. Mutex!CounterIsKept
    BY <2>1 DEF Mutex!CounterIsKept
  <2>5. Mutex!NoLostWakeup
    BY <2>1 DEF Mutex!NoLostWakeup, Mutex!Asleep
  <2> QED
    BY <2>2, <2>3, <2>4, <2>5 DEF Mutex!MutexInv
<1> QED
  BY <1>1, <1>2

\* The release of a mutex object wakes somebody asleep on it, if anybody is.
LEMMA MutexWakeReleases ==
  ASSUME NEW W, NEW S \in Mutex!futex_wake(W, 1)
  PROVE  S \subseteq W /\ (W # {} => S # {})
<1>1. \A V : Mutex!Cardinality(V) = Cardinality(V)
  BY DEF Mutex!Cardinality, Cardinality, Mutex!IsFiniteSet, IsFiniteSet
<1>2. S \in futex_wake(W, 1)
  BY <1>1 DEF futex_wake, Mutex!futex_wake
<1> QED
  BY <1>2, WakeReleases

\* Every step of a mutex object preserves its invariant.
LEMMA NextMutexInv == Mutex!MutexInv /\ [Mutex!MutexNext]_mxVars => Mutex!MutexInv'
<1> SUFFICES ASSUME Mutex!MutexInv, [Mutex!MutexNext]_mxVars PROVE Mutex!MutexInv'
  OBVIOUS
<1> USE NoThreadAssumption, MaxRecursionAssumption
<1> USE DEF Mutex!MutexInv, Mutex!MutexTypeOK, Mutex!TypeOK, Mutex!PcValues,
            Mutex!OneKeeper, Mutex!KeeperHasWord, Mutex!OwnerNamesKeeper,
            Mutex!CounterIsKept, Mutex!NoLostWakeup, Mutex!Asleep,
            Mutex!Keeping, Mutex!Kept, Mutex!Holding, Mutex!Goto
<1>1. ASSUME NEW t \in Thread, Mutex!acquire(t) PROVE Mutex!MutexInv'
  BY <1>1 DEF Mutex!acquire, Mutex!Enter
<1>2. ASSUME NEW t \in Thread, Mutex!Expire(t) PROVE Mutex!MutexInv'
  BY <1>2 DEF Mutex!Expire
<1>3. ASSUME NEW t \in Thread, Mutex!ThreadExit(t) PROVE Mutex!MutexInv'
  BY <1>3 DEF Mutex!ThreadExit
<1>4. ASSUME NEW t \in Thread, Mutex!LockStep(t) PROVE Mutex!MutexInv'
  <2> USE DEF Mutex!LockStep
  <2>1. CASE Mutex!Leave(t)
    BY <1>4, <2>1 DEF Mutex!Leave
  <2>2. CASE Mutex!SpuriousWake(t)
    BY <1>4, <2>2 DEF Mutex!SpuriousWake
  <2>3. CASE Mutex!EnterRecurse(t)
    BY <1>4, <2>3 DEF Mutex!EnterRecurse
  <2>4. CASE Mutex!EnterCas(t)
    BY <1>4, <2>4 DEF Mutex!EnterCas
  <2>5. CASE Mutex!EnterStoreOwner(t)
    BY <1>4, <2>5 DEF Mutex!EnterStoreOwner
  <2>6. CASE Mutex!EnterStoreRecursion(t)
    BY <1>4, <2>6 DEF Mutex!EnterStoreRecursion
  <2>7. CASE Mutex!FutexWait(t)
    BY <1>4, <2>7 DEF Mutex!FutexWait
  <2>8. CASE Mutex!LeaveDecrement(t)
    BY <1>4, <2>8 DEF Mutex!LeaveDecrement
  <2>9. CASE Mutex!LeaveClearOwner(t)
    BY <1>4, <2>9 DEF Mutex!LeaveClearOwner
  <2>10. CASE Mutex!LeaveUnlock(t)
    BY <1>4, <2>10 DEF Mutex!LeaveUnlock
  <2>11. CASE Mutex!LeaveWake(t)
    <3> HIDE DEF Mutex!Asleep, Mutex!NoLostWakeup, Mutex!CounterIsKept,
                 Mutex!OwnerNamesKeeper, Mutex!KeeperHasWord, Mutex!OneKeeper,
                 Mutex!MutexInv, Mutex!LockStep
    <3>1. PICK S \in Mutex!futex_wake(Mutex!Asleep, 1) :
            mx_pc' = [u \in Thread |-> IF u = t THEN "idle"
                                       ELSE IF u \in S THEN "cas" ELSE mx_pc[u]]
      BY <2>11 DEF Mutex!LeaveWake
    <3>2. S \subseteq Mutex!Asleep /\ (Mutex!Asleep # {} => S # {})
      BY <3>1, MutexWakeReleases
    <3> QED
      BY <1>4, <2>11, <3>1, <3>2
         DEF Mutex!LeaveWake, Mutex!Asleep, Mutex!NoLostWakeup, Mutex!CounterIsKept,
             Mutex!OwnerNamesKeeper, Mutex!KeeperHasWord, Mutex!OneKeeper,
             Mutex!MutexInv, Mutex!LockStep
  <2> QED
    BY <1>4, <2>1, <2>2, <2>3, <2>4, <2>5, <2>6, <2>7, <2>8, <2>9, <2>10, <2>11
       DEF Mutex!CallStep
<1>5. CASE UNCHANGED mxVars
  BY <1>5 DEF mxVars
<1> QED
  BY <1>1, <1>2, <1>3, <1>4, <1>5 DEF Mutex!MutexNext

\* A mutex excludes, with timeouts, an initial owner and owners that end: what
\* an owner leaves behind keeps everybody away but a thread that inherits its
\* id, and the words always say who has how much to return.
THEOREM MutexObjectExclusion == MCSpec => []MutexExclusion
<1>1. MCInit => Mutex!MutexInv
  BY InitMutexInv DEF MCInit
<1>2. [SectionNext \/ MutexNext \/ AddressNext]_allVars => [Mutex!MutexNext]_mxVars
  BY DEF SectionNext, MutexNext, AddressNext, allVars, mxVars
<1>3. Mutex!MutexInv => MutexExclusion
  BY NoThreadAssumption
     DEF Mutex!MutexInv, Mutex!MutexTypeOK, Mutex!TypeOK, Mutex!OneKeeper,
         Mutex!KeeperHasWord, Mutex!OwnerNamesKeeper, Mutex!CounterIsKept,
         Mutex!Keeping, Mutex!Kept, Mutex!Holding, Mutex!MutexExclusion, MutexExclusion
<1> QED
  BY <1>1, <1>2, <1>3, NextMutexInv, PTL DEF MCSpec

\* No wake-up is lost on a mutex whose waiters time out: one that a release has
\* woken tries the lock before it looks at the clock.
THEOREM MutexNoLostWakeup == MCSpec => []Mutex!NoLostWakeup
<1>1. MCInit => Mutex!MutexInv
  BY InitMutexInv DEF MCInit
<1>2. [SectionNext \/ MutexNext \/ AddressNext]_allVars => [Mutex!MutexNext]_mxVars
  BY DEF SectionNext, MutexNext, AddressNext, allVars, mxVars
<1>3. Mutex!MutexInv => Mutex!NoLostWakeup
  BY DEF Mutex!MutexInv
<1> QED
  BY <1>1, <1>2, <1>3, NextMutexInv, PTL DEF MCSpec
=============================================================================
