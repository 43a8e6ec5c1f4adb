-------------------------------- MODULE SrwLock --------------------------------
(***************************************************************************)
(* The slim reader/writer lock (SrwInner, ntapi/src/sync.rs): the shared   *)
(* and exclusive acquisitions and releases of one initialized SRWLOCK, one *)
(* action per atomic access.                                               *)
(*                                                                         *)
(* The guest keeps to the Windows contract: it releases what it holds, in  *)
(* the mode it holds it, and does not acquire a lock it already holds.     *)
(***************************************************************************)
EXTENDS SyncParameters

VARIABLES
  state,   \* the futex word: SRW_WRITER, or the number of readers
  pc,      \* where each thread is in the code
  s,       \* s[t]: the word t loaded last
  mode     \* history: what the guest was granted and has not given back

vars == <<state, pc, s, mode>>

PcValues == {"idle", "ex_load", "ex_cas", "ex_wait", "ex_asleep",
             "sh_load", "sh_cas", "sh_wait", "sh_asleep",
             "wake_all", "wake_one"}

ExAsleep == {t \in Thread : pc[t] = "ex_asleep"}
ShAsleep == {t \in Thread : pc[t] = "sh_asleep"}
Readers == {t \in Thread : mode[t] = "shared"}
Writers == {t \in Thread : mode[t] = "exclusive"}

HasWriter(word) == word >= SRW_WRITER     \* word & SRW_WRITER != 0

Goto(t, l) == pc' = [pc EXCEPT ![t] = l]

\* The loaded word is compared once and not read again.
Forget(t) == s' = [s EXCEPT ![t] = 0]

\* InitializeSRWLock.
Init ==
  /\ state = 0
  /\ pc = [t \in Thread |-> "idle"]
  /\ s = [t \in Thread |-> 0]
  /\ mode = [t \in Thread |-> "none"]

-----------------------------------------------------------------------------
(* acquire_exclusive *)

acquire_exclusive(t) ==
  /\ pc[t] = "idle" /\ mode[t] = "none"
  /\ Goto(t, "ex_load")
  /\ UNCHANGED <<state, s, mode>>

ExLoad(t) ==
  /\ pc[t] = "ex_load"
  /\ s' = [s EXCEPT ![t] = state]
  /\ Goto(t, IF state = 0 THEN "ex_cas" ELSE "ex_wait")
  /\ UNCHANGED <<state, mode>>

\* A mutated form: the flag is or-ed into whatever the word holds by now.
ExCas_Or(t) ==
  /\ pc[t] = "ex_cas"
  /\ state' = IF HasWriter(state) THEN state ELSE state + SRW_WRITER
  /\ mode' = [mode EXCEPT ![t] = "exclusive"]
  /\ Goto(t, "idle")
  /\ UNCHANGED s

ExCas(t) ==
  /\ pc[t] = "ex_cas"
  /\ \/ /\ state = 0
        /\ state' = SRW_WRITER
        /\ mode' = [mode EXCEPT ![t] = "exclusive"]
        /\ Goto(t, "idle")
     \/ /\ state # 0
        /\ Goto(t, "ex_load")
        /\ UNCHANGED <<state, mode>>
  /\ Forget(t)

-----------------------------------------------------------------------------
(* acquire_shared *)

acquire_shared(t) ==
  /\ pc[t] = "idle" /\ mode[t] = "none"
  /\ Goto(t, "sh_load")
  /\ UNCHANGED <<state, s, mode>>

ShLoad(t) ==
  /\ pc[t] = "sh_load"
  /\ s' = [s EXCEPT ![t] = state]
  /\ Goto(t, IF HasWriter(state) THEN "sh_wait" ELSE "sh_cas")
  /\ UNCHANGED <<state, mode>>

\* A mutated form: the incremented snapshot is stored back blindly.
ShCas_Store(t) ==
  /\ pc[t] = "sh_cas"
  /\ state' = s[t] + 1
  /\ mode' = [mode EXCEPT ![t] = "shared"]
  /\ Goto(t, "idle")
  /\ UNCHANGED s

ShCas(t) ==
  /\ pc[t] = "sh_cas"
  /\ \/ /\ state = s[t]
        /\ state' = s[t] + 1
        /\ mode' = [mode EXCEPT ![t] = "shared"]
        /\ Goto(t, "idle")
     \/ /\ state # s[t]
        /\ Goto(t, "sh_load")
        /\ UNCHANGED <<state, mode>>
  /\ Forget(t)

-----------------------------------------------------------------------------
(* futex_wait(&state, s): the word loaded last is the expected value *)

ExWait(t) ==
  /\ pc[t] = "ex_wait"
  /\ Goto(t, IF state = s[t] THEN "ex_asleep" ELSE "ex_load")
  /\ Forget(t)
  /\ UNCHANGED <<state, mode>>

ShWait(t) ==
  /\ pc[t] = "sh_wait"
  /\ Goto(t, IF state = s[t] THEN "sh_asleep" ELSE "sh_load")
  /\ Forget(t)
  /\ UNCHANGED <<state, mode>>

\* Where a thread that returns from futex_wait goes on.
Resume(u) == IF pc[u] = "ex_asleep" THEN "ex_load" ELSE "sh_load"

\* EINTR.
SpuriousWake(t) ==
  /\ pc[t] \in {"ex_asleep", "sh_asleep"}
  /\ Goto(t, Resume(t))
  /\ UNCHANGED <<state, s, mode>>

-----------------------------------------------------------------------------
(* release_exclusive, release_shared *)

release_exclusive(t) ==
  /\ pc[t] = "idle" /\ mode[t] = "exclusive"
  /\ state' = 0
  /\ mode' = [mode EXCEPT ![t] = "none"]
  /\ Goto(t, "wake_all")
  /\ UNCHANGED s

\* A mutated form: the last reader wakes nobody.
release_shared_NoWake(t) ==
  /\ pc[t] = "idle" /\ mode[t] = "shared"
  /\ state' = state - 1
  /\ mode' = [mode EXCEPT ![t] = "none"]
  /\ UNCHANGED <<pc, s>>

\* fetch_sub; the last reader wakes one waiter.
release_shared(t) ==
  /\ pc[t] = "idle" /\ mode[t] = "shared"
  /\ state' = state - 1
  /\ mode' = [mode EXCEPT ![t] = "none"]
  /\ Goto(t, IF state % SRW_WRITER = 1 THEN "wake_one" ELSE "idle")
  /\ UNCHANGED s

Wake(t, from, nr) ==
  /\ pc[t] = from
  /\ \E W \in futex_wake(ExAsleep \cup ShAsleep, nr) :
       pc' = [u \in Thread |-> IF u = t THEN "idle"
                               ELSE IF u \in W THEN Resume(u) ELSE pc[u]]
  /\ UNCHANGED <<state, s, mode>>

\* A mutated form: the writer wakes one waiter only.
WakeAll_One(t) == Wake(t, "wake_all", 1)

WakeAll(t) == Wake(t, "wake_all", AllWaiters)

WakeOne(t) == Wake(t, "wake_one", 1)

-----------------------------------------------------------------------------

CallStep(t) ==
  \/ ExLoad(t) \/ ExCas(t) \/ ExWait(t)
  \/ ShLoad(t) \/ ShCas(t) \/ ShWait(t)
  \/ WakeAll(t) \/ WakeOne(t)

Release(t) == release_exclusive(t) \/ release_shared(t)

Acquire(t) == acquire_exclusive(t) \/ acquire_shared(t)

Step(t) == Acquire(t) \/ Release(t) \/ SpuriousWake(t) \/ CallStep(t)

Next == \E t \in Thread : Step(t)

Spec == Init /\ [][Next]_vars

\* A call in progress runs on (the scheduler is fair to runnable threads), and
\* the guest gives back what it holds.
Fairness == \A t \in Thread : WF_vars(CallStep(t)) /\ WF_vars(Release(t))

FairSpec == Spec /\ Fairness

-----------------------------------------------------------------------------
(* srw_inner turns a call away without blocking when the SRWLOCK still      *)
(* holds the value it is statically initialized with (SRWLOCK_INIT, zero).  *)

\* Every call on a zero SRWLOCK returns at once; there is no word to change.
CallOnZeroSlot(t) ==
  /\ pc[t] = "idle"
  /\ \/ /\ mode[t] = "none"
        /\ \E m \in {"shared", "exclusive"} : mode' = [mode EXCEPT ![t] = m]
     \/ /\ mode[t] # "none"
        /\ mode' = [mode EXCEPT ![t] = "none"]
  /\ UNCHANGED <<state, pc, s>>

StaticSpec == Init /\ [][\E t \in Thread : CallOnZeroSlot(t)]_vars

-----------------------------------------------------------------------------
(* Properties *)

TypeOK ==
  /\ state \in 0 .. SRW_WRITER
  /\ pc \in [Thread -> PcValues]
  /\ s \in [Thread -> 0 .. SRW_WRITER]
  /\ mode \in [Thread -> {"none", "shared", "exclusive"}]

\* A writer is alone: no other writer and no reader holds the lock with it.
Exclusion ==
  \A w \in Writers : \A t \in Thread : mode[t] # "none" => t = w

\* The word is exactly the state of the holders: the writer flag and nothing
\* else for a writer, the number of readers otherwise.  So the flag never
\* lingers and no reader is counted twice or forgotten.
WordIsHolders ==
  state = IF Writers # {} THEN SRW_WRITER ELSE Cardinality(Readers)

\* A reader sleeps only while there is a writer, or with that writer's
\* wake-everybody on its way: the wake of the last reader, which reaches one
\* waiter, is never needed by a reader and never wasted on one.
ReadersNotStranded ==
  ShAsleep # {} => \/ state = SRW_WRITER
                   \/ \E t \in Thread : pc[t] = "wake_all"

\* No wake-up is lost: while the lock is free and a writer is blocked, a wake
\* is on its way or another writer is about to look at the word.
WritersNotStranded ==
  state = 0 /\ ExAsleep # {} =>
    \E t \in Thread :
      pc[t] \in {"wake_all", "wake_one", "ex_load", "ex_cas", "ex_wait"}

\* The inductive invariant of the proofs.
PcMatchesMode ==
  \A t \in Thread :
    /\ mode[t] # "none" => pc[t] = "idle"
    /\ pc[t] = "sh_wait" => s[t] = SRW_WRITER
    /\ pc[t] = "sh_cas" => s[t] < SRW_WRITER
    /\ pc[t] = "ex_wait" => s[t] # 0
SrwInv ==
  /\ TypeOK
  /\ Exclusion
  /\ WordIsHolders
  /\ PcMatchesMode
  /\ ReadersNotStranded
  /\ WritersNotStranded

\* Once the guest starts no more acquisitions, everybody who is waiting gets
\* the lock in the end: no combination of one-waiter and all-waiter wakes
\* leaves a thread asleep.
WaitersDrain ==
  <>[][\A t \in Thread : ~Acquire(t)]_vars => <>[](\A t \in Thread : pc[t] = "idle")
=============================================================================
