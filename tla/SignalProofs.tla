---------------------------- MODULE SignalProofs ----------------------------
(***************************************************************************)
(* Proofs about Event, Semaphore and SrwLock for every finite set of       *)
(* threads, number of signals, width of the count and release counts: one  *)
(* grant per signal and no lost wake-up; conserved units, each with a      *)
(* taker; exclusion, a word that is an exact account of the holders, and   *)
(* no stranded reader or writer.                                           *)
(***************************************************************************)
EXTENDS MCSignals, FiniteSetTheorems, TLAPS

\* futex_wake releases waiters only, and with a positive count at least one
\* when there is one.
LEMMA WakeReleases ==
  ASSUME NEW W, NEW nr \in Nat, NEW S \in futex_wake(W, nr)
  PROVE  /\ S \subseteq W
         /\ nr > 0 /\ W # {} => S # {}
<1>1. S \subseteq W
  BY DEF futex_wake
<1>2. ASSUME nr > 0, W # {}, S = {} PROVE FALSE
  <2>1. Cardinality({}) = 0
    BY FS_EmptySet
  <2>2. Cardinality(S) = nr \/ S = W
    BY DEF futex_wake
  <2> QED
    BY <1>2, <2>1, <2>2
<1> QED
  BY <1>1, <1>2

\* futex_wake for everybody releases every waiter: there are never as many
\* threads as i32::MAX.
LEMMA WakeAllReleases ==
  ASSUME NEW T, IsFiniteSet(T), Cardinality(T) < AllWaiters,
         NEW W \in SUBSET T, NEW S \in futex_wake(W, AllWaiters)
  PROVE  S = W
<1>1. S \subseteq T
  BY DEF futex_wake
<1>2. Cardinality(S) <= Cardinality(T) /\ Cardinality(S) \in Nat /\ Cardinality(T) \in Nat
  BY <1>1, FS_Subset, FS_CardinalityType
<1>3. Cardinality(S) # AllWaiters
  BY <1>2 DEF AllWaiters
<1> QED
  BY <1>3 DEF futex_wake

\* The instances of the futex module are this one.
LEMMA EvFutex == \A W, nr : Ev!futex_wake(W, nr) = futex_wake(W, nr)
<1>1. \A W : Ev!Cardinality(W) = Cardinality(W)
  BY DEF Ev!Cardinality, Cardinality, Ev!IsFiniteSet, IsFiniteSet
<1> QED
  BY <1>1 DEF futex_wake, Ev!futex_wake

LEMMA SemCardinality == \A W : Sem!Cardinality(W) = Cardinality(W)
BY DEF Sem!Cardinality, Cardinality, Sem!IsFiniteSet, IsFiniteSet

LEMMA SemFutex == \A W, nr : Sem!futex_wake(W, nr) = futex_wake(W, nr)
BY SemCardinality DEF futex_wake, Sem!futex_wake

-----------------------------------------------------------------------------
(* The reader/writer lock *)

\* The readers are a finite set, too small to reach the writer flag.
LEMMA ReadersBound ==
  /\ IsFiniteSet(Readers)
  /\ Cardinality(Readers) \in Nat
  /\ Cardinality(Readers) < SRW_WRITER
  /\ SRW_WRITER \in Nat \ {0}
<1>1. Readers \subseteq Thread
  BY DEF Readers
<1>2. Cardinality(Thread) \in Nat
  BY SrwWriterAssumption, ThreadAssumption, FS_CardinalityType
<1>3. IsFiniteSet(Readers) /\ Cardinality(Readers) <= Cardinality(Thread)
  BY <1>1, SrwWriterAssumption, ThreadAssumption, FS_Subset
<1>4. Cardinality(Readers) \in Nat
  BY <1>3, FS_CardinalityType
<1> QED
  BY <1>2, <1>3, <1>4, SrwWriterAssumption, ThreadAssumption

\* What the word tells: zero means that nobody holds the lock, a word below
\* the flag that no writer does.
LEMMA WordTells ==
  ASSUME SrwInv
  PROVE  /\ state = 0 => Readers = {} /\ Writers = {}
         /\ state # SRW_WRITER => Writers = {} /\ state = Cardinality(Readers)
         /\ Writers = {} => state # SRW_WRITER
<1>1. Writers = {} => state = Cardinality(Readers) /\ state # SRW_WRITER
  BY ReadersBound DEF SrwInv, WordIsHolders
<1>2. Writers # {} => state = SRW_WRITER
  BY DEF SrwInv, WordIsHolders
<1>3. Cardinality(Readers) = 0 => Readers = {}
  BY ReadersBound, FS_EmptySet
<1> QED
  BY <1>1, <1>2, <1>3, ReadersBound

\* The initial state satisfies the inductive invariant.
LEMMA InitSrwInv == Init => SrwInv
<1> SUFFICES ASSUME Init PROVE SrwInv
  OBVIOUS
<1>1. TypeOK
  BY ReadersBound DEF Init, TypeOK, PcValues
<1>2. Readers = {} /\ Writers = {} /\ ExAsleep = {} /\ ShAsleep = {}
  BY DEF Init, Readers, Writers, ExAsleep, ShAsleep
<1>3. WordIsHolders
  BY <1>2, FS_EmptySet DEF Init, WordIsHolders
<1>4. PcMatchesMode
  BY DEF Init, PcMatchesMode
<1> QED
  BY <1>1, <1>2, <1>3, <1>4
  DEF SrwInv, Exclusion, ReadersNotStranded, WritersNotStranded

\* The steps that change neither the word nor the holders, and move only the
\* thread that takes them.
LEMMA QuietStep ==
  ASSUME SrwInv, NEW t \in Thread,
         \/ Acquire(t) \/ ExLoad(t) \/ ExWait(t)
         \/ ShLoad(t) \/ ShWait(t) \/ SpuriousWake(t)
  PROVE  SrwInv'
<1> USE DEF Acquire, acquire_exclusive, acquire_shared, ExLoad, ExWait, ShLoad,
            ShWait, SpuriousWake, Goto, Forget, Resume, HasWriter
<1>1. UNCHANGED <<state, mode>>
  OBVIOUS
<1>2. TypeOK'
  BY ReadersBound DEF SrwInv, TypeOK, PcValues
<1>3. Readers' = Readers /\ Writers' = Writers
  BY <1>1 DEF Readers, Writers
<1>4. Exclusion' /\ WordIsHolders'
  BY <1>1, <1>3 DEF SrwInv, Exclusion, WordIsHolders
<1>5. PcMatchesMode'
  BY ReadersBound DEF SrwInv, TypeOK, PcValues, PcMatchesMode
<1>6. ReadersNotStranded'
  BY DEF SrwInv, TypeOK, PcValues, PcMatchesMode, ReadersNotStranded, ShAsleep
<1>7. WritersNotStranded'
  BY DEF SrwInv, TypeOK, PcValues, PcMatchesMode, WritersNotStranded, ExAsleep
<1> QED
  BY <1>2, <1>4, <1>5, <1>6, <1>7 DEF SrwInv

\* acquire_exclusive's compare-exchange.
LEMMA ExCasStep ==
  ASSUME SrwInv, NEW t \in Thread, ExCas(t) PROVE SrwInv'
<1>1. pc[t] = "ex_cas" /\ s' = [s EXCEPT ![t] = 0]
  BY DEF ExCas, Forget
<1>2. CASE state = 0 /\ state' = SRW_WRITER /\ mode' = [mode EXCEPT ![t] = "exclusive"]
           /\ pc' = [pc EXCEPT ![t] = "idle"]
  <2>1. Readers = {} /\ Writers = {}
    BY <1>2, WordTells
  <2>2. TypeOK'
    BY <1>1, <1>2, ReadersBound DEF SrwInv, TypeOK, PcValues
  <2>3. Writers' = {t} /\ \A u \in Thread : mode'[u] # "none" => u = t
    BY <1>2, <2>1 DEF Readers, Writers, SrwInv, TypeOK
  <2>4. Exclusion' /\ WordIsHolders'
    BY <1>2, <2>3 DEF Exclusion, WordIsHolders
  <2>5. PcMatchesMode'
    BY <1>1, <1>2 DEF SrwInv, TypeOK, PcMatchesMode
  <2>6. ReadersNotStranded' /\ WritersNotStranded'
    BY <1>2, ReadersBound DEF ReadersNotStranded, WritersNotStranded
  <2> QED
    BY <2>2, <2>4, <2>5, <2>6 DEF SrwInv
<1>3. CASE pc' = [pc EXCEPT ![t] = "ex_load"] /\ UNCHANGED <<state, mode>>
  <2>1. TypeOK'
    BY <1>1, <1>3, ReadersBound DEF SrwInv, TypeOK, PcValues
  <2>2. Readers' = Readers /\ Writers' = Writers /\ ExAsleep' = ExAsleep /\ ShAsleep' = ShAsleep
    BY <1>1, <1>3 DEF Readers, Writers, ExAsleep, ShAsleep, SrwInv, TypeOK
  <2>3. Exclusion' /\ WordIsHolders'
    BY <1>3, <2>2 DEF SrwInv, Exclusion, WordIsHolders
  <2>4. PcMatchesMode'
    BY <1>1, <1>3 DEF SrwInv, TypeOK, PcMatchesMode
  <2>5. ReadersNotStranded'
    BY <1>1, <1>3, <2>2 DEF SrwInv, TypeOK, ReadersNotStranded
  <2>6. WritersNotStranded'
    BY <1>1, <1>3, <2>2 DEF SrwInv, TypeOK, WritersNotStranded
  <2> QED
    BY <2>1, <2>3, <2>4, <2>5, <2>6 DEF SrwInv
<1> QED
  BY <1>2, <1>3 DEF ExCas, Goto

\* acquire_shared's compare-exchange.
LEMMA ShCasStep ==
  ASSUME SrwInv, NEW t \in Thread, ShCas(t) PROVE SrwInv'
<1>1. pc[t] = "sh_cas" /\ s' = [s EXCEPT ![t] = 0] /\ s[t] < SRW_WRITER
      /\ mode[t] = "none"
  BY DEF ShCas, Forget, SrwInv, PcMatchesMode
<1>2. CASE state = s[t] /\ state' = s[t] + 1 /\ mode' = [mode EXCEPT ![t] = "shared"]
           /\ pc' = [pc EXCEPT ![t] = "idle"]
  <2>1. Writers = {} /\ state = Cardinality(Readers) /\ state # SRW_WRITER
    BY <1>1, <1>2, WordTells, ReadersBound DEF SrwInv, TypeOK
  <2>2. TypeOK'
    BY <1>1, <1>2, ReadersBound DEF SrwInv, TypeOK, PcValues
  <2>3. Writers' = {} /\ Readers' = Readers \cup {t} /\ t \notin Readers
    BY <1>1, <1>2, <2>1 DEF Readers, Writers, SrwInv, TypeOK
  <2>4. Cardinality(Readers \cup {t}) = Cardinality(Readers) + 1
    BY <2>3, ReadersBound, FS_AddElement
  <2>5. Exclusion' /\ WordIsHolders'
    BY <1>2, <2>1, <2>3, <2>4 DEF Exclusion, WordIsHolders
  <2>6. PcMatchesMode'
    BY <1>1, <1>2 DEF SrwInv, TypeOK, PcMatchesMode
  <2>7. ReadersNotStranded'
    BY <1>1, <1>2, <2>1 DEF SrwInv, TypeOK, ReadersNotStranded, ShAsleep
  <2>8. WritersNotStranded'
    BY <1>2, <2>1, ReadersBound DEF WritersNotStranded
  <2> QED
    BY <2>2, <2>5, <2>6, <2>7, <2>8 DEF SrwInv
<1>3. CASE pc' = [pc EXCEPT ![t] = "sh_load"] /\ UNCHANGED <<state, mode>>
  <2>1. TypeOK'
    BY <1>1, <1>3, ReadersBound DEF SrwInv, TypeOK, PcValues
  <2>2. Readers' = Readers /\ Writers' = Writers /\ ExAsleep' = ExAsleep /\ ShAsleep' = ShAsleep
    BY <1>1, <1>3 DEF Readers, Writers, ExAsleep, ShAsleep, SrwInv, TypeOK
  <2>3. Exclusion' /\ WordIsHolders'
    BY <1>3, <2>2 DEF SrwInv, Exclusion, WordIsHolders
  <2>4. PcMatchesMode'
    BY <1>1, <1>3 DEF SrwInv, TypeOK, PcMatchesMode
  <2>5. ReadersNotStranded'
    BY <1>1, <1>3, <2>2 DEF SrwInv, TypeOK, ReadersNotStranded
  <2>6. WritersNotStranded'
    BY <1>1, <1>3, <2>2 DEF SrwInv, TypeOK, WritersNotStranded
  <2> QED
    BY <2>1, <2>3, <2>4, <2>5, <2>6 DEF SrwInv
<1> QED
  BY <1>2, <1>3 DEF ShCas, Goto

\* release_exclusive: nobody holds the lock any more.
LEMMA ReleaseExclusiveStep ==
  ASSUME SrwInv, NEW t \in Thread, release_exclusive(t) PROVE SrwInv'
<1>1. /\ pc[t] = "idle" /\ mode[t] = "exclusive"
      /\ state' = 0 /\ s' = s
      /\ mode' = [mode EXCEPT ![t] = "none"]
      /\ pc' = [pc EXCEPT ![t] = "wake_all"]
  BY DEF release_exclusive, Goto
<1>2. TypeOK'
  BY <1>1, ReadersBound DEF SrwInv, TypeOK, PcValues
<1>3. Writers' = {} /\ Readers' = {}
  BY <1>1 DEF SrwInv, TypeOK, Exclusion, Writers, Readers
<1>4. Exclusion' /\ WordIsHolders'
  BY <1>1, <1>3, FS_EmptySet DEF Exclusion, WordIsHolders
<1>5. PcMatchesMode'
  BY <1>1 DEF SrwInv, TypeOK, PcMatchesMode
<1>6. pc'[t] = "wake_all"
  BY <1>1 DEF SrwInv, TypeOK
<1> QED
  BY <1>2, <1>4, <1>5, <1>6 DEF SrwInv, ReadersNotStranded, WritersNotStranded

\* release_shared: one reader fewer, and the last one is to wake somebody.
LEMMA ReleaseSharedStep ==
  ASSUME SrwInv, NEW t \in Thread, release_shared(t) PROVE SrwInv'
<1>1. /\ pc[t] = "idle" /\ mode[t] = "shared"
      /\ state' = state - 1 /\ s' = s
      /\ mode' = [mode EXCEPT ![t] = "none"]
      /\ pc' = [pc EXCEPT ![t] = IF state % SRW_WRITER = 1 THEN "wake_one" ELSE "idle"]
  BY DEF release_shared, Goto
<1>2. Writers = {} /\ t \in Readers
  BY <1>1 DEF SrwInv, Exclusion, Writers, Readers
<1>3. state = Cardinality(Readers) /\ state # SRW_WRITER
  BY <1>2, WordTells
<1>4. Writers' = {} /\ Readers' = Readers \ {t}
  BY <1>1, <1>2 DEF Writers, Readers, SrwInv, TypeOK
<1>5. Cardinality(Readers \ {t}) = Cardinality(Readers) - 1
  BY <1>2, ReadersBound, FS_RemoveElement
<1>6. Cardinality(Readers \ {t}) \in Nat
  BY ReadersBound, FS_RemoveElement, FS_CardinalityType
<1>7. state' = 0 => state % SRW_WRITER = 1
  <2> SUFFICES ASSUME state' = 0 PROVE 1 % SRW_WRITER = 1
    BY <1>1, <1>3, ReadersBound
  <2>1. 1 < SRW_WRITER
    BY <1>1, <1>3, ReadersBound
  <2> QED
    BY <2>1, ReadersBound
<1>8. TypeOK'
  BY <1>1, <1>3, <1>5, <1>6, ReadersBound DEF SrwInv, TypeOK, PcValues
<1>9. Exclusion' /\ WordIsHolders'
  BY <1>1, <1>3, <1>4, <1>5 DEF Exclusion, WordIsHolders
<1>10. PcMatchesMode'
  BY <1>1 DEF SrwInv, TypeOK, PcMatchesMode
<1>11. ReadersNotStranded'
  BY <1>1, <1>3 DEF SrwInv, TypeOK, ReadersNotStranded, ShAsleep
<1>12. WritersNotStranded'
  BY <1>1, <1>7 DEF SrwInv, TypeOK, WritersNotStranded
<1> QED
  BY <1>8, <1>9, <1>10, <1>11, <1>12 DEF SrwInv

\* A wake: after a wake for everybody nobody sleeps; a wake for one reaches a
\* writer unless a wake for everybody is still to come.
LEMMA SrwWakeStep ==
  ASSUME SrwInv, NEW t \in Thread, WakeAll(t) \/ WakeOne(t) PROVE SrwInv'
<1> DEFINE Sleepers == ExAsleep \cup ShAsleep
<1>0. PICK nr \in {1, AllWaiters} : \E W \in futex_wake(Sleepers, nr) :
        /\ pc' = [u \in Thread |-> IF u = t THEN "idle"
                                   ELSE IF u \in W THEN Resume(u) ELSE pc[u]]
        /\ UNCHANGED <<state, s, mode>>
        /\ pc[t] = IF nr = 1 THEN "wake_one" ELSE "wake_all"
  <2>1. CASE WakeAll(t)
    <3>1. AllWaiters # 1 /\ AllWaiters \in {1, AllWaiters}
      BY DEF AllWaiters
    <3>2. Wake(t, "wake_all", AllWaiters)
      BY <2>1 DEF WakeAll
    <3> QED
      BY <3>1, <3>2, Zenon DEF Wake
  <2>2. CASE WakeOne(t)
    <3>1. Wake(t, "wake_one", 1)
      BY <2>2 DEF WakeOne
    <3> QED
      BY <3>1, Zenon DEF Wake
  <2> QED
    BY <2>1, <2>2
<1>1. PICK W \in futex_wake(Sleepers, nr) :
        /\ pc' = [u \in Thread |-> IF u = t THEN "idle"
                                   ELSE IF u \in W THEN Resume(u) ELSE pc[u]]
        /\ UNCHANGED <<state, s, mode>>
        /\ pc[t] = IF nr = 1 THEN "wake_one" ELSE "wake_all"
  BY <1>0
<1>2. W \subseteq Sleepers /\ (Sleepers # {} => W # {}) /\ t \notin Sleepers
  BY <1>1, WakeReleases DEF AllWaiters, ExAsleep, ShAsleep
<1>3. TypeOK'
  BY <1>1 DEF SrwInv, TypeOK, PcValues, Resume
<1>4. Exclusion' /\ WordIsHolders'
  BY <1>1 DEF SrwInv, Exclusion, WordIsHolders, Readers, Writers
<1>5. PcMatchesMode'
  BY <1>1, <1>2 DEF SrwInv, TypeOK, PcMatchesMode, Resume, ExAsleep, ShAsleep
<1>6. ExAsleep' \subseteq ExAsleep /\ ShAsleep' \subseteq ShAsleep
  BY <1>1 DEF ExAsleep, ShAsleep, Resume
<1>7. CASE nr = AllWaiters
  <2>1. Sleepers \subseteq Thread
    BY DEF ExAsleep, ShAsleep
  <2>2. W = Sleepers
    <3>1. Cardinality(W) # AllWaiters
      <4>1. W \subseteq Thread
        BY <1>2, <2>1
      <4>2. Cardinality(W) <= Cardinality(Thread) /\ Cardinality(W) \in Nat
            /\ Cardinality(Thread) \in Nat
        BY <4>1, SrwWriterAssumption, ThreadAssumption, FS_Subset, FS_CardinalityType
      <4> QED
        BY <4>2, SrwWriterAssumption, ThreadAssumption DEF AllWaiters
    <3> QED
      BY <1>1, <1>7, <3>1 DEF futex_wake
  <2>3. ExAsleep' = {} /\ ShAsleep' = {}
    BY <1>1, <2>2 DEF ExAsleep, ShAsleep, Resume
  <2> QED
    BY <1>3, <1>4, <1>5, <2>3 DEF SrwInv, ReadersNotStranded, WritersNotStranded
<1>8. CASE nr = 1
  <2>1. ASSUME NEW u \in Thread, pc[u] = "wake_all" PROVE pc'[u] = "wake_all"
    BY <1>1, <1>2, <1>8, <2>1 DEF ExAsleep, ShAsleep, AllWaiters
  <2>2. ReadersNotStranded'
    BY <1>1, <1>6, <2>1 DEF SrwInv, ReadersNotStranded
  <2>3. WritersNotStranded'
    <3> SUFFICES ASSUME state = 0, ExAsleep # {}
                 PROVE \E u \in Thread : pc'[u] \in {"wake_all", "ex_load"}
      BY <1>1, <1>6 DEF WritersNotStranded
    <3>1. CASE ShAsleep # {}
      BY <2>1, <3>1, ReadersBound DEF SrwInv, ReadersNotStranded
    <3>2. CASE ShAsleep = {}
      <4>1. PICK u \in W : u \in ExAsleep /\ u # t
        BY <1>2, <3>2
      <4>2. u \in Thread /\ pc'[u] = "ex_load"
        BY <1>1, <4>1 DEF ExAsleep, Resume
      <4> QED
        BY <4>2
    <3> QED
      BY <3>1, <3>2
  <2> QED
    BY <1>3, <1>4, <1>5, <2>2, <2>3 DEF SrwInv
<1> QED
  BY <1>7, <1>8

\* Every step preserves the inductive invariant.
LEMMA NextSrwInv == SrwInv /\ [Next]_vars => SrwInv'
<1> SUFFICES ASSUME SrwInv, [Next]_vars PROVE SrwInv'
  OBVIOUS
<1>1. CASE Next
  BY <1>1, QuietStep, ExCasStep, ShCasStep, ReleaseExclusiveStep, ReleaseSharedStep,
     SrwWakeStep
  DEF Next, Step, CallStep, Release
<1>2. CASE UNCHANGED vars
  BY <1>2 DEF vars, SrwInv, TypeOK, Exclusion, WordIsHolders, PcMatchesMode,
              ReadersNotStranded, WritersNotStranded, Readers, Writers, ExAsleep, ShAsleep
<1> QED
  BY <1>1, <1>2

\* The inductive invariant holds in every reachable state.
THEOREM SrwInvariant == Spec => []SrwInv
BY InitSrwInv, NextSrwInv, PTL DEF Spec

\* A writer holds the lock alone.
THEOREM SrwExclusion == Spec => []Exclusion
<1>1. SrwInv => Exclusion
  BY DEF SrwInv
<1> QED
  BY <1>1, SrwInvariant, PTL

\* The lock word is exactly the state of the holders.
THEOREM SrwWordIsHolders == Spec => []WordIsHolders
<1>1. SrwInv => WordIsHolders
  BY DEF SrwInv
<1> QED
  BY <1>1, SrwInvariant, PTL

\* No reader sleeps without a writer to wake it.
THEOREM SrwReadersNotStranded == Spec => []ReadersNotStranded
<1>1. SrwInv => ReadersNotStranded
  BY DEF SrwInv
<1> QED
  BY <1>1, SrwInvariant, PTL

\* No writer sleeps on a free lock with nobody on the way.
THEOREM SrwWritersNotStranded == Spec => []WritersNotStranded
<1>1. SrwInv => WritersNotStranded
  BY DEF SrwInv
<1> QED
  BY <1>1, SrwInvariant, PTL

-----------------------------------------------------------------------------
(* The event *)

\* The initial state satisfies the inductive invariant.
LEMMA InitEventInv == Ev!Init => Ev!EventInv
BY DEF Ev!Init, Ev!EventInv, Ev!TypeOK, Ev!PcValues, Ev!OneGrantPerSignal, Ev!NoLostSignal, Ev!Asleep

\* set and pulse: state' = 1, and the caller is about to wake.
LEMMA SignalStep ==
  ASSUME Ev!EventInv, NEW t \in Thread, NEW l \in {"set_wake", "pulse_wake"}, Ev!Signal(t, l)
  PROVE  Ev!EventInv'
<1>1. Ev!TypeOK' /\ Ev!OneGrantPerSignal'
  BY DEF Ev!EventInv, Ev!TypeOK, Ev!PcValues, Ev!OneGrantPerSignal, Ev!Signal, Ev!Goto
<1>2. ev_pc'[t] = l
  BY DEF Ev!EventInv, Ev!TypeOK, Ev!Signal, Ev!Goto
<1>3. Ev!NoLostSignal'
  BY <1>2 DEF Ev!NoLostSignal
<1> QED
  BY <1>1, <1>3 DEF Ev!EventInv

\* The wake: everybody of a manual-reset event goes; of an auto-reset event a
\* waiter, if there is one, is on its way to the word.
LEMMA EventWakeStep ==
  ASSUME Ev!EventInv, NEW t \in Thread, NEW from \in {"set_wake", "pulse_wake"},
         NEW l \in {"idle", "pulse_clear"}, Ev!Wake(t, from, l)
  PROVE  Ev!EventInv'
<1>1. PICK S \in futex_wake(Ev!Asleep, Ev!WakeCount) :
        ev_pc' = [u \in Thread |-> IF u = t THEN l
                                ELSE IF u \in S THEN "load" ELSE ev_pc[u]]
  BY EvFutex DEF Ev!Wake
<1>2. Ev!WakeCount \in Nat /\ Ev!WakeCount > 0
  BY DEF Ev!WakeCount, Ev!AllWaiters, Ev!EventInv, Ev!TypeOK
<1>3. S \subseteq Ev!Asleep /\ (Ev!Asleep # {} => S # {})
  BY <1>1, <1>2, WakeReleases
<1>4. UNCHANGED <<ev_state, ev_manual_reset, ev_signals, ev_grants>> /\ ev_pc[t] = from
  BY DEF Ev!Wake
<1>5. t \notin S /\ S \subseteq Thread
  BY <1>3, <1>4 DEF Ev!Asleep
<1>6. Ev!TypeOK'
  BY <1>1, <1>4, <1>5 DEF Ev!EventInv, Ev!TypeOK, Ev!PcValues
<1>7. Ev!OneGrantPerSignal'
  BY <1>4 DEF Ev!EventInv, Ev!OneGrantPerSignal
<1>8. Ev!NoLostSignal'
  <2>1. CASE ev_manual_reset
    <3>1. S \in futex_wake(Ev!Asleep, AllWaiters)
      BY <1>1, <2>1 DEF Ev!WakeCount, Ev!AllWaiters, AllWaiters
    <3>2. S = Ev!Asleep
      BY <3>1, WakeAllReleases, ThreadAssumption DEF Ev!Asleep
    <3>3. Ev!Asleep' = {}
      BY <1>1, <3>2 DEF Ev!Asleep
    <3> QED
      BY <3>3 DEF Ev!NoLostSignal
  <2>2. CASE ~ev_manual_reset
    <3>1. Ev!Asleep' \subseteq Ev!Asleep
      BY <1>1 DEF Ev!Asleep
    <3>2. ASSUME NEW u \in S PROVE ev_pc'[u] = "load"
      BY <1>1, <1>5
    <3> QED
      BY <1>3, <1>4, <1>5, <2>2, <3>1, <3>2 DEF Ev!NoLostSignal
  <2> QED
    BY <2>1, <2>2 DEF Ev!EventInv, Ev!TypeOK
<1> QED
  BY <1>6, <1>7, <1>8 DEF Ev!EventInv

\* Every step preserves the inductive invariant.
LEMMA NextEventInv == Ev!EventInv /\ [Ev!Next]_(Ev!vars) => Ev!EventInv'
<1> SUFFICES ASSUME Ev!EventInv, [Ev!Next]_(Ev!vars) PROVE Ev!EventInv'
  OBVIOUS
<1>1. ASSUME NEW t \in Thread, Ev!set(t) PROVE Ev!EventInv'
  BY <1>1, SignalStep DEF Ev!set
<1>2. ASSUME NEW t \in Thread, Ev!pulse(t) PROVE Ev!EventInv'
  BY <1>2, SignalStep DEF Ev!pulse
<1>3. ASSUME NEW t \in Thread, Ev!SetWake(t) PROVE Ev!EventInv'
  BY <1>3, EventWakeStep DEF Ev!SetWake
<1>4. ASSUME NEW t \in Thread, Ev!PulseWake(t) PROVE Ev!EventInv'
  BY <1>4, EventWakeStep DEF Ev!PulseWake
<1> USE DEF Ev!EventInv, Ev!TypeOK, Ev!PcValues, Ev!OneGrantPerSignal, Ev!NoLostSignal,
            Ev!Asleep, Ev!Goto, Ev!unchangedHistory
<1>5. ASSUME NEW t \in Thread, Ev!reset(t) PROVE Ev!EventInv'
  BY <1>5 DEF Ev!reset
<1>6. ASSUME NEW t \in Thread, Ev!PulseClear(t) PROVE Ev!EventInv'
  BY <1>6 DEF Ev!PulseClear
<1>7. ASSUME NEW t \in Thread, Ev!wait(t) PROVE Ev!EventInv'
  BY <1>7 DEF Ev!wait
<1>8. ASSUME NEW t \in Thread, Ev!Load(t) PROVE Ev!EventInv'
  BY <1>8 DEF Ev!Load, Ev!Granted
<1>9. ASSUME NEW t \in Thread, Ev!Cas(t) PROVE Ev!EventInv'
  BY <1>9 DEF Ev!Cas, Ev!Granted
<1>10. ASSUME NEW t \in Thread, Ev!Expire(t) PROVE Ev!EventInv'
  BY <1>10 DEF Ev!Expire
<1>11. ASSUME NEW t \in Thread, Ev!FutexWait(t) PROVE Ev!EventInv'
  BY <1>11 DEF Ev!FutexWait
<1>12. ASSUME NEW t \in Thread, Ev!SpuriousWake(t) PROVE Ev!EventInv'
  BY <1>12 DEF Ev!SpuriousWake
<1>13. CASE UNCHANGED Ev!vars
  BY <1>13 DEF Ev!vars
<1> QED
  BY <1>1, <1>2, <1>3, <1>4, <1>5, <1>6, <1>7, <1>8, <1>9, <1>10, <1>11,
     <1>12, <1>13 DEF Ev!Next, Ev!Step, Ev!CallStep

\* The inductive invariant holds in every reachable state.
THEOREM EventInvariant == Ev!Spec => []Ev!EventInv
BY InitEventInv, NextEventInv, PTL DEF Ev!Spec

\* An auto-reset event lets through no more waits than it was signaled.
THEOREM EventOneGrantPerSignal == Ev!Spec => []OneGrantPerSignal
<1>1. Ev!EventInv => OneGrantPerSignal
  BY DEF Ev!EventInv, OneGrantPerSignal
<1> QED
  BY <1>1, EventInvariant, PTL

\* A signaled event never has a blocked waiter with nobody on the way.
THEOREM EventNoLostSignal == Ev!Spec => []NoLostSignal
<1>1. Ev!EventInv => NoLostSignal
  BY DEF Ev!EventInv, NoLostSignal
<1> QED
  BY <1>1, EventInvariant, PTL

-----------------------------------------------------------------------------
(* The semaphore *)

\* Running is a finite set.
LEMMA RunningFinite ==
  /\ IsFiniteSet(Sem!Running)
  /\ Cardinality(Sem!Running) \in Nat
<1>1. Sem!Running \subseteq Thread
  BY DEF Sem!Running
<1> QED
  BY <1>1, ThreadAssumption, FS_Subset, FS_CardinalityType

\* A thread that starts running adds one, a thread that stops takes one away.
LEMMA RunningPlus ==
  ASSUME NEW t \in Thread, Sem!Running' = Sem!Running \cup {t}, t \notin Sem!Running
  PROVE  Cardinality(Sem!Running)' = Cardinality(Sem!Running) + 1
<1>1. Cardinality(Sem!Running \cup {t}) = Cardinality(Sem!Running) + 1
  BY RunningFinite, FS_AddElement
<1> QED
  BY <1>1

LEMMA RunningMinus ==
  ASSUME NEW t \in Thread, Sem!Running' = Sem!Running \ {t}, t \in Sem!Running
  PROVE  Cardinality(Sem!Running)' = Cardinality(Sem!Running) - 1
<1>1. Cardinality(Sem!Running \ {t}) = Cardinality(Sem!Running) - 1
  BY RunningFinite, FS_RemoveElement
<1> QED
  BY <1>1

\* So is PendingWakes, and a release of k units in progress is k of them.
LEMMA PendingFinite ==
  /\ IsFiniteSet(Sem!PendingWakes)
  /\ Cardinality(Sem!PendingWakes) \in Nat
<1>1. IsFiniteSet(1 .. (CountModulus - 1))
  BY CountModulusAssumption, FS_Interval
<1>2. IsFiniteSet(Thread \X (1 .. (CountModulus - 1)))
  BY <1>1, ThreadAssumption, FS_Product
<1>3. Sem!PendingWakes \subseteq Thread \X (1 .. (CountModulus - 1))
  BY DEF Sem!PendingWakes
<1> QED
  BY <1>2, <1>3, FS_Subset, FS_CardinalityType

LEMMA WakesOfOne ==
  ASSUME NEW t \in Thread, NEW k \in Nat
  PROVE  IsFiniteSet({t} \X (1 .. k)) /\ Cardinality({t} \X (1 .. k)) = k
<1>1. IsFiniteSet(1 .. k) /\ Cardinality(1 .. k) = k
  BY FS_Interval
<1>2. IsFiniteSet({t}) /\ Cardinality({t}) = 1
  BY FS_Singleton
<1>3. IsFiniteSet({t} \X (1 .. k)) /\ Cardinality({t} \X (1 .. k)) = 1 * k
  BY <1>1, <1>2, FS_Product
<1> QED
  BY <1>3

\* The initial state satisfies the inductive invariant.
LEMMA InitSemaphoreInv == Sem!Init => Sem!SemaphoreInv
<1> SUFFICES ASSUME Sem!Init PROVE Sem!SemaphoreInv
  OBVIOUS
<1>1. Sem!TypeOK
  BY CountModulusAssumption, CountsAssumption DEF Sem!Init, Sem!TypeOK, Sem!PcValues
<1>2. Sem!UnitsConserved
  BY <1>1 DEF Sem!Init, Sem!TypeOK, Sem!UnitsConserved
<1>3. Sem!SnapshotPositive /\ Sem!EveryUnitHasATaker
  BY DEF Sem!Init, Sem!SnapshotPositive, Sem!EveryUnitHasATaker, Sem!Asleep
<1> QED
  BY <1>1, <1>2, <1>3 DEF Sem!SemaphoreInv

\* release: count, given and announced go up together.
LEMMA SemaphoreReleaseStep ==
  ASSUME Sem!SemaphoreInv, NEW t \in Thread, Sem!release(t) PROVE Sem!SemaphoreInv'
<1> USE DEF Sem!SemaphoreInv, Sem!TypeOK
<1>1. PICK k \in ReleaseCounts :
        /\ sm_count' = Sem!WrappingAdd(sm_count, k)
        /\ sm_lost' = sm_lost + (sm_count + k - Sem!WrappingAdd(sm_count, k))
        /\ sm_given' = sm_given + k
        /\ sm_n' = [sm_n EXCEPT ![t] = k]
  BY DEF Sem!release
<1>2. sm_pc[t] = "idle" /\ sm_pc' = [sm_pc EXCEPT ![t] = "wake"] /\ UNCHANGED <<sm_c, sm_grants>>
  BY DEF Sem!release, Sem!Goto
<1>3. k \in 0 .. (CountModulus - 1) /\ CountModulus \in Nat
  BY CountsAssumption, CountModulusAssumption
<1>4. /\ Sem!WrappingAdd(sm_count, k) \in 0 .. (CountModulus - 1)
      /\ Sem!WrappingAdd(sm_count, k) <= sm_count + k
  BY <1>3 DEF Sem!WrappingAdd
<1>5. Sem!TypeOK'
  BY <1>1, <1>2, <1>3, <1>4 DEF Sem!PcValues
<1>6. Sem!UnitsConserved'
  BY <1>1, <1>2, <1>3, <1>4 DEF Sem!UnitsConserved
<1>7. Sem!SnapshotPositive'
  BY <1>2 DEF Sem!SnapshotPositive
<1>8. Sem!EveryUnitHasATaker'
  <2>1. Sem!Running' = Sem!Running /\ Sem!Asleep' = Sem!Asleep
    BY <1>2 DEF Sem!Running, Sem!Asleep
  <2> DEFINE Added == {t} \X (1 .. k)
  <2>2. Sem!PendingWakes' = Sem!PendingWakes \cup Added /\ Sem!PendingWakes \cap Added = {}
    BY <1>1, <1>2, <1>3 DEF Sem!PendingWakes
  <2>3. IsFiniteSet(Added) /\ Cardinality(Added) = k
    BY <1>3, WakesOfOne
  <2> HIDE DEF Added
  <2>4. Cardinality(Sem!PendingWakes \cup Added) = Cardinality(Sem!PendingWakes) + k - Cardinality({})
    BY <2>2, <2>3, PendingFinite, FS_Union
  <2>5. Cardinality(Sem!PendingWakes)' = Cardinality(Sem!PendingWakes) + k
    BY <1>3, <2>2, <2>4, PendingFinite, FS_EmptySet
  <2> QED
    BY <1>1, <1>3, <1>4, <2>1, <2>5, RunningFinite, PendingFinite, SemCardinality DEF Sem!EveryUnitHasATaker
<1> QED
  BY <1>5, <1>6, <1>7, <1>8

\* The wake: it lets go as many waiters as it announced, or everybody.
LEMMA SemaphoreWakeStep ==
  ASSUME Sem!SemaphoreInv, NEW t \in Thread, Sem!Wake(t) PROVE Sem!SemaphoreInv'
<1> USE DEF Sem!SemaphoreInv, Sem!TypeOK
<1>1. PICK S \in futex_wake(Sem!Asleep, sm_n[t]) :
        sm_pc' = [u \in Thread |-> IF u = t THEN "idle"
                                ELSE IF u \in S THEN "load" ELSE sm_pc[u]]
  BY SemFutex DEF Sem!Wake
<1>2. /\ sm_pc[t] = "wake"
      /\ sm_n' = [sm_n EXCEPT ![t] = 0]
      /\ UNCHANGED <<sm_count, sm_c, sm_given, sm_grants, sm_lost>>
  BY DEF Sem!Wake
<1>3. S \subseteq Sem!Asleep /\ (S = Sem!Asleep \/ Cardinality(S) = sm_n[t])
  BY <1>1 DEF futex_wake
<1>4. S \subseteq Thread /\ t \notin S /\ S \cap Sem!Running = {}
  BY <1>2, <1>3 DEF Sem!Asleep, Sem!Running
<1>5. Sem!TypeOK'
  BY <1>1, <1>2, CountModulusAssumption DEF Sem!PcValues
<1>6. Sem!UnitsConserved'
  BY <1>2 DEF Sem!UnitsConserved
<1>7. Sem!SnapshotPositive'
  BY <1>1, <1>2 DEF Sem!SnapshotPositive
<1>8. Sem!EveryUnitHasATaker'
  <2>1. CASE S = Sem!Asleep
    <3>1. Sem!Asleep' = {}
      BY <1>1, <2>1 DEF Sem!Asleep
    <3> QED
      BY <3>1 DEF Sem!EveryUnitHasATaker
  <2>2. CASE Cardinality(S) = sm_n[t] /\ S # Sem!Asleep
    <3>1. Sem!Running' = Sem!Running \cup S
      BY <1>1, <1>2, <1>3, <1>4 DEF Sem!Running, Sem!Asleep
    <3>2. IsFiniteSet(S)
      BY <1>4, ThreadAssumption, FS_Subset
    <3>3. Cardinality(Sem!Running \cup S) =
            Cardinality(Sem!Running) + Cardinality(S) - Cardinality(Sem!Running \cap S)
      BY <3>2, RunningFinite, FS_Union
    <3>4. Cardinality(Sem!Running \cap S) = 0
      BY <1>4, FS_EmptySet
    <3>5. sm_n[t] \in Nat
      BY CountModulusAssumption
    <3>6. Cardinality(Sem!Running)' = Cardinality(Sem!Running) + sm_n[t]
      BY <2>2, <3>1, <3>3, <3>4, <3>5, RunningFinite
    <3>7. Sem!Asleep # {}
      BY <1>3, <2>2
    <3> DEFINE Gone == {t} \X (1 .. sm_n[t])
    <3>8. Sem!PendingWakes' = Sem!PendingWakes \ Gone /\ Sem!PendingWakes \cap Gone = Gone
      BY <1>1, <1>2, <1>3, <1>4, CountModulusAssumption DEF Sem!PendingWakes, Sem!Asleep
    <3>9. Cardinality(Gone) = sm_n[t]
      BY <3>5, WakesOfOne
    <3> HIDE DEF Gone
    <3>10. Cardinality(Sem!PendingWakes)' = Cardinality(Sem!PendingWakes) - sm_n[t]
      <4>1. Cardinality(Sem!PendingWakes \ Gone) =
              Cardinality(Sem!PendingWakes) - Cardinality(Sem!PendingWakes \cap Gone)
        BY PendingFinite, FS_Difference
      <4> QED
        BY <3>8, <3>9, <4>1
    <3> QED
      BY <1>2, <3>5, <3>6, <3>7, <3>10, RunningFinite, PendingFinite, SemCardinality
      DEF Sem!EveryUnitHasATaker
  <2> QED
    BY <1>3, <2>1, <2>2
<1> QED
  BY <1>5, <1>6, <1>7, <1>8

\* The compare-exchange: a unit and its taker go together, or nothing does.
LEMMA SemaphoreCasStep ==
  ASSUME Sem!SemaphoreInv, NEW t \in Thread, Sem!Cas(t) PROVE Sem!SemaphoreInv'
<1> USE DEF Sem!SemaphoreInv, Sem!TypeOK
<1>1. sm_pc[t] = "cas" /\ sm_c' = [sm_c EXCEPT ![t] = 0] /\ UNCHANGED <<sm_n, sm_given, sm_lost>>
  BY DEF Sem!Cas
<1>2. sm_c[t] > 0 /\ sm_c[t] \in Nat
  BY <1>1, CountModulusAssumption DEF Sem!SnapshotPositive
<1>3. CASE sm_count = sm_c[t] /\ sm_count' = sm_c[t] - 1 /\ sm_grants' = sm_grants + 1
           /\ sm_pc' = [sm_pc EXCEPT ![t] = "idle"]
  <2>1. Sem!TypeOK'
    BY <1>1, <1>2, <1>3, CountModulusAssumption DEF Sem!PcValues
  <2>2. Sem!UnitsConserved'
    BY <1>1, <1>2, <1>3, CountModulusAssumption DEF Sem!UnitsConserved
  <2>3. Sem!SnapshotPositive'
    BY <1>1, <1>3 DEF Sem!SnapshotPositive
  <2>4. Sem!Running' = Sem!Running \ {t} /\ t \in Sem!Running /\ Sem!Asleep' = Sem!Asleep
    BY <1>1, <1>3 DEF Sem!Running, Sem!Asleep
  <2>5. Cardinality(Sem!Running)' = Cardinality(Sem!Running) - 1
    BY <2>4, RunningMinus
  <2>6. Sem!PendingWakes' = Sem!PendingWakes
    BY <1>1, <1>3 DEF Sem!PendingWakes
  <2>7. Sem!EveryUnitHasATaker'
    BY <1>1, <1>2, <1>3, <2>4, <2>5, <2>6, RunningFinite, PendingFinite, SemCardinality DEF Sem!EveryUnitHasATaker
  <2> QED
    BY <2>1, <2>2, <2>3, <2>7
<1>4. CASE sm_pc' = [sm_pc EXCEPT ![t] = "load"] /\ UNCHANGED <<sm_count, sm_grants>>
  <2>1. Sem!TypeOK'
    BY <1>1, <1>4, CountModulusAssumption DEF Sem!PcValues
  <2>2. Sem!UnitsConserved'
    BY <1>1, <1>4 DEF Sem!UnitsConserved
  <2>3. Sem!SnapshotPositive'
    BY <1>1, <1>4 DEF Sem!SnapshotPositive
  <2>4. Sem!Running' = Sem!Running /\ Sem!Asleep' = Sem!Asleep /\ Sem!PendingWakes' = Sem!PendingWakes
    BY <1>1, <1>4 DEF Sem!Running, Sem!Asleep, Sem!PendingWakes
  <2>5. Sem!EveryUnitHasATaker'
    BY <1>1, <1>4, <2>4, SemCardinality DEF Sem!EveryUnitHasATaker
  <2> QED
    BY <2>1, <2>2, <2>3, <2>5
<1> QED
  BY <1>3, <1>4 DEF Sem!Cas, Sem!Goto

\* The load: a waiter that finds no unit stops running, and no unit needs it.
LEMMA SemaphoreLoadStep ==
  ASSUME Sem!SemaphoreInv, NEW t \in Thread, Sem!Load(t) PROVE Sem!SemaphoreInv'
<1> USE DEF Sem!SemaphoreInv, Sem!TypeOK
<1>1. /\ sm_pc[t] = "load"
      /\ sm_c' = [sm_c EXCEPT ![t] = sm_count]
      /\ sm_pc' = [sm_pc EXCEPT ![t] = IF sm_count > 0 THEN "cas" ELSE "check"]
      /\ UNCHANGED <<sm_count, sm_n, sm_given, sm_grants, sm_lost>>
  BY DEF Sem!Load, Sem!Goto
<1>2. Sem!TypeOK'
  BY <1>1 DEF Sem!PcValues
<1>3. Sem!UnitsConserved'
  BY <1>1 DEF Sem!UnitsConserved
<1>4. Sem!SnapshotPositive'
  BY <1>1 DEF Sem!SnapshotPositive
<1>5. Sem!Asleep' = Sem!Asleep /\ Sem!PendingWakes' = Sem!PendingWakes
  BY <1>1 DEF Sem!Asleep, Sem!PendingWakes
<1>6. Sem!EveryUnitHasATaker'
  <2>1. CASE sm_count > 0
    <3>1. Sem!Running' = Sem!Running
      BY <1>1, <2>1 DEF Sem!Running
    <3> QED
      BY <1>1, <1>5, <3>1, SemCardinality DEF Sem!EveryUnitHasATaker
  <2>2. CASE sm_count = 0
    <3>1. Sem!Running' = Sem!Running \ {t} /\ t \in Sem!Running
      BY <1>1, <2>2 DEF Sem!Running
    <3>2. Cardinality(Sem!Running)' \in Nat
      <4>1. IsFiniteSet(Sem!Running \ {t})
        BY RunningFinite, FS_Difference
      <4> QED
        BY <3>1, <4>1, FS_CardinalityType
    <3> QED
      BY <1>1, <1>5, <2>2, <3>2, PendingFinite, SemCardinality DEF Sem!EveryUnitHasATaker
  <2> QED
    BY <2>1, <2>2, CountModulusAssumption
<1> QED
  BY <1>2, <1>3, <1>4, <1>6

\* The steps that change nothing but a program counter.  A waiter blocks only
\* when the count is zero.
LEMMA SemaphorePcStep ==
  ASSUME Sem!SemaphoreInv, NEW t \in Thread,
         Sem!wait(t) \/ Sem!Expire(t) \/ Sem!FutexWait(t) \/ Sem!SpuriousWake(t)
  PROVE  Sem!SemaphoreInv'
<1> USE DEF Sem!SemaphoreInv, Sem!TypeOK
<1>1. PICK l \in {"idle", "load", "asleep"} : sm_pc' = [sm_pc EXCEPT ![t] = l]
  BY DEF Sem!wait, Sem!Expire, Sem!FutexWait, Sem!SpuriousWake, Sem!Goto
<1>2. UNCHANGED <<sm_count, sm_c, sm_n, sm_given, sm_grants, sm_lost>> /\ sm_pc[t] \in {"idle", "check", "asleep"}
  BY DEF Sem!wait, Sem!Expire, Sem!FutexWait, Sem!SpuriousWake
<1>3. l = "asleep" => sm_count = 0
  BY <1>1 DEF Sem!wait, Sem!Expire, Sem!FutexWait, Sem!SpuriousWake, Sem!Goto
<1>4. Sem!TypeOK' /\ Sem!UnitsConserved' /\ Sem!SnapshotPositive'
  BY <1>1, <1>2 DEF Sem!PcValues, Sem!UnitsConserved, Sem!SnapshotPositive
<1>5. Sem!PendingWakes' = Sem!PendingWakes
  BY <1>1, <1>2 DEF Sem!PendingWakes
<1>6. Cardinality(Sem!Running)' >= Cardinality(Sem!Running) /\ Cardinality(Sem!Running)' \in Nat
  <2>1. CASE l = "load"
    <3>1. Sem!Running' = Sem!Running \cup {t} /\ t \notin Sem!Running
      BY <1>1, <1>2, <2>1 DEF Sem!Running
    <3>2. Cardinality(Sem!Running)' = Cardinality(Sem!Running) + 1
      BY <3>1, RunningPlus
    <3> QED
      BY <3>2, RunningFinite
  <2>2. CASE l # "load"
    <3>1. Sem!Running' = Sem!Running
      BY <1>1, <1>2, <2>2 DEF Sem!Running
    <3> QED
      BY <3>1, RunningFinite
  <2> QED
    BY <2>1, <2>2
<1>7. Sem!EveryUnitHasATaker'
  <2>1. CASE sm_count = 0
    BY <1>2, <1>5, <1>6, <2>1, PendingFinite, SemCardinality DEF Sem!EveryUnitHasATaker
  <2>2. CASE sm_count # 0
    <3>1. Sem!Asleep' \subseteq Sem!Asleep
      BY <1>1, <1>3, <2>2 DEF Sem!Asleep
    <3> QED
      BY <1>2, <1>5, <1>6, <3>1, RunningFinite, PendingFinite, CountModulusAssumption, SemCardinality
      DEF Sem!EveryUnitHasATaker
  <2> QED
    BY <2>1, <2>2
<1> QED
  BY <1>4, <1>7

\* Every step preserves the inductive invariant.
LEMMA NextSemaphoreInv == Sem!SemaphoreInv /\ [Sem!Next]_(Sem!vars) => Sem!SemaphoreInv'
<1> SUFFICES ASSUME Sem!SemaphoreInv, [Sem!Next]_(Sem!vars) PROVE Sem!SemaphoreInv'
  OBVIOUS
<1>1. CASE Sem!Next
  BY <1>1, SemaphoreReleaseStep, SemaphoreWakeStep, SemaphoreCasStep, SemaphoreLoadStep, SemaphorePcStep DEF Sem!Next, Sem!Step, Sem!CallStep
<1>2. CASE UNCHANGED Sem!vars
  BY <1>2 DEF Sem!vars, Sem!SemaphoreInv, Sem!TypeOK, Sem!UnitsConserved, Sem!SnapshotPositive,
              Sem!EveryUnitHasATaker, Sem!Asleep, Sem!Running, Sem!PendingWakes
<1> QED
  BY <1>1, <1>2

\* The inductive invariant holds in every reachable state.
THEOREM SemaphoreInvariant == Sem!Spec => []Sem!SemaphoreInv
BY InitSemaphoreInv, NextSemaphoreInv, PTL DEF Sem!Spec

\* Racing compare-exchanges and a wrapping fetch_add neither create units nor
\* lose them unaccounted for.
THEOREM SemaphoreUnitsConserved == Sem!Spec => []UnitsConserved
<1>1. Sem!SemaphoreInv => UnitsConserved
  BY DEF Sem!SemaphoreInv, UnitsConserved
<1> QED
  BY <1>1, SemaphoreInvariant, PTL

\* Every available unit has a taker while a waiter is blocked.
THEOREM SemaphoreEveryUnitHasATaker == Sem!Spec => []EveryUnitHasATaker
<1>1. Sem!SemaphoreInv => EveryUnitHasATaker
  BY DEF Sem!SemaphoreInv, EveryUnitHasATaker
<1> QED
  BY <1>1, SemaphoreInvariant, PTL
=============================================================================
