----------------------------- MODULE RecursiveLock -----------------------------
(***************************************************************************)
(* The recursive futex lock at the heart of CRITICAL_SECTION               *)
(* (CriticalSectionInner, ntapi/src/sync.rs) and, line for line apart from *)
(* the deadline, of the mutex object (MutexInner).  Every atomic load,     *)
(* store, fetch_add and compare_exchange is a step of its own, so the      *)
(* threads interleave wherever the machine lets them.                      *)
(*                                                                         *)
(* The owner word is accessed with Relaxed ordering.  The code only asks   *)
(* whether it equals the caller's own id, and only the caller ever stores  *)
(* or clears that value, so coherence alone gives the answer that the      *)
(* interleaving below gives.                                               *)
(***************************************************************************)
EXTENDS SyncParameters

VARIABLES
  lock,        \* the futex word: 0 free, 1 held
  owner,       \* the owner word
  recursion,   \* the recursion counter
  pc,          \* where each thread is in the code
  held         \* history: acquisitions a thread was granted and has not returned

vars == <<lock, owner, recursion, pc, held>>

\* Threads blocked in futex_wait on the lock word.
Asleep == {t \in Thread : pc[t] = "asleep"}

PcValues == {"idle", "recurse", "cas", "store_owner", "store_recursion",
             "wait", "asleep", "decrement", "clear_owner", "unlock", "wake"}

Init ==
  /\ lock = 0
  /\ owner = NoThread
  /\ recursion = 0
  /\ pc = [t \in Thread |-> "idle"]
  /\ held = [t \in Thread |-> 0]

Goto(t, l) == pc' = [pc EXCEPT ![t] = l]

-----------------------------------------------------------------------------
(* enter / acquire *)

\* A mutated form: the re-entry check is missing, every caller goes to the CAS.
Enter_NoFastPath(t) ==
  /\ pc[t] = "idle"
  /\ held[t] < MaxRecursion
  /\ Goto(t, "cas")
  /\ UNCHANGED <<lock, owner, recursion, held>>

Enter(t) ==
  /\ pc[t] = "idle"
  /\ held[t] < MaxRecursion
  /\ Goto(t, IF owner = t THEN "recurse" ELSE "cas")
  /\ UNCHANGED <<lock, owner, recursion, held>>

\* The fast path: a re-entrant acquisition bumps the counter and returns.
EnterRecurse(t) ==
  /\ pc[t] = "recurse"
  /\ recursion' = recursion + 1
  /\ held' = [held EXCEPT ![t] = @ + 1]
  /\ Goto(t, "idle")
  /\ UNCHANGED <<lock, owner>>

\* A mutated form: a plain load and store instead of a compare-exchange that
\* can fail: the caller goes on whatever the word holds.
EnterCas_Store(t) ==
  /\ pc[t] = "cas"
  /\ lock' = 1
  /\ Goto(t, "store_owner")
  /\ UNCHANGED <<owner, recursion, held>>

EnterCas(t) ==
  /\ pc[t] = "cas"
  /\ IF lock = 0
       THEN lock' = 1 /\ Goto(t, "store_owner")
       ELSE lock' = lock /\ Goto(t, "wait")
  /\ UNCHANGED <<owner, recursion, held>>

EnterStoreOwner(t) ==
  /\ pc[t] = "store_owner"
  /\ owner' = t
  /\ Goto(t, "store_recursion")
  /\ UNCHANGED <<lock, recursion, held>>

EnterStoreRecursion(t) ==
  /\ pc[t] = "store_recursion"
  /\ recursion' = 1
  /\ held' = [held EXCEPT ![t] = @ + 1]
  /\ Goto(t, "idle")
  /\ UNCHANGED <<lock, owner>>

\* A mutated form: the wait does not compare the word before it blocks.
FutexWait_NoCompare(t) ==
  /\ pc[t] = "wait"
  /\ Goto(t, "asleep")
  /\ UNCHANGED <<lock, owner, recursion, held>>

\* futex_wait(&lock, 1): block only while the word is still 1.
FutexWait(t) ==
  /\ pc[t] = "wait"
  /\ Goto(t, IF lock = 1 THEN "asleep" ELSE "cas")
  /\ UNCHANGED <<lock, owner, recursion, held>>

\* The kernel may return from FUTEX_WAIT for no reason of ours (EINTR).
SpuriousWake(t) ==
  /\ pc[t] = "asleep"
  /\ Goto(t, "cas")
  /\ UNCHANGED <<lock, owner, recursion, held>>

-----------------------------------------------------------------------------
(* leave / release *)

\* A mutated form: whoever calls leave gives the lock back.
Leave_NoOwnerTest(t) ==
  /\ pc[t] = "idle"
  /\ Goto(t, "decrement")
  /\ UNCHANGED <<lock, owner, recursion, held>>

\* A caller that does not own the lock gets out unchanged.
Leave(t) ==
  /\ pc[t] = "idle"
  /\ Goto(t, IF owner = t THEN "decrement" ELSE "idle")
  /\ UNCHANGED <<lock, owner, recursion, held>>

\* (A thread that inherited an abandoned mutex returns what it was not granted.)
LeaveDecrement(t) ==
  /\ pc[t] = "decrement"
  /\ recursion' = recursion - 1
  /\ held' = [held EXCEPT ![t] = IF @ > 0 THEN @ - 1 ELSE 0]
  /\ Goto(t, IF recursion - 1 = 0 THEN "clear_owner" ELSE "idle")
  /\ UNCHANGED <<lock, owner>>

\* A mutated form: the lock word is freed first and the owner cleared after.
LeaveClearOwner_Late(t) ==
  /\ pc[t] = "clear_owner"
  /\ lock' = 0
  /\ Goto(t, "unlock")
  /\ UNCHANGED <<owner, recursion, held>>

LeaveClearOwner(t) ==
  /\ pc[t] = "clear_owner"
  /\ owner' = NoThread
  /\ Goto(t, "unlock")
  /\ UNCHANGED <<lock, recursion, held>>

LeaveUnlock(t) ==
  /\ pc[t] = "unlock"
  /\ lock' = 0
  /\ Goto(t, "wake")
  /\ UNCHANGED <<owner, recursion, held>>

\* futex_wake(&lock, 1); the woken thread retries its compare-exchange.
LeaveWake(t) ==
  /\ pc[t] = "wake"
  /\ \E S \in futex_wake(Asleep, 1) :
       pc' = [u \in Thread |-> IF u = t THEN "idle"
                               ELSE IF u \in S THEN "cas" ELSE pc[u]]
  /\ UNCHANGED <<lock, owner, recursion, held>>

-----------------------------------------------------------------------------

\* The steps of a call in progress: the thread itself takes them.
CallStep(t) ==
  \/ EnterRecurse(t) \/ EnterCas(t) \/ EnterStoreOwner(t)
  \/ EnterStoreRecursion(t) \/ FutexWait(t)
  \/ LeaveDecrement(t) \/ LeaveClearOwner(t) \/ LeaveUnlock(t) \/ LeaveWake(t)

Step(t) == Enter(t) \/ Leave(t) \/ SpuriousWake(t) \/ CallStep(t)

Next == \E t \in Thread : Step(t)

Spec == Init /\ [][Next]_vars

\* A call in progress runs on (the scheduler is fair to runnable threads), and
\* a guest that keeps coming back to its outermost level finally leaves it.
Fairness ==
  \A t \in Thread :
    /\ WF_vars(CallStep(t) \/ Leave(t))
    /\ SF_vars(held[t] = 1 /\ Leave(t))

-----------------------------------------------------------------------------
(* Properties *)

TypeOK ==
  /\ lock \in {0, 1}
  /\ owner \in Thread \cup {NoThread}
  /\ recursion \in Nat
  /\ pc \in [Thread -> PcValues]
  /\ held \in [Thread -> Nat]

\* The thread has won the lock word and not given it back yet.
Holding(t) ==
  \/ held[t] > 0
  \/ pc[t] \in {"store_owner", "store_recursion", "recurse", "decrement",
                "clear_owner", "unlock"}

\* No two threads are ever inside the section: the compare-exchange, the
\* owner test and the order of the two stores in leave keep them apart.
MutualExclusion ==
  \A t, u \in Thread : held[t] > 0 /\ held[u] > 0 => t = u

\* What the words say is what the guest was told: a thread between calls that
\* holds the section n times over is the owner, the counter says n, the lock
\* word is taken; and no other thread is named as owner.
WordsAgree ==
  \A t \in Thread : pc[t] = "idle" =>
    /\ owner = t <=> held[t] > 0
    /\ held[t] > 0 => recursion = held[t] /\ lock = 1

\* No wake-up is lost: while the lock is free and somebody is blocked on it,
\* a thread is on its way to the futex_wake or to another compare-exchange.
NoLostWakeup ==
  lock = 0 /\ Asleep # {} =>
    \E t \in Thread : pc[t] \in {"wake", "cas"}

\* Why the lock is right, as an inductive invariant.  The lock word has one
\* holder; the owner word names it, except between winning the word and the
\* owner store, and between the owner clear and the unlock.
OneHolder ==
  \A t, u \in Thread : Holding(t) /\ Holding(u) => t = u
HolderHasWord ==
  \A t \in Thread : Holding(t) => lock = 1
OwnerNamesHolder ==
  \A t \in Thread :
    owner = t <=> Holding(t) /\ pc[t] \notin {"store_owner", "unlock"}
CounterIsDepth ==
  \A t \in Thread :
    /\ held[t] > 0 => recursion = held[t]
    /\ pc[t] \in {"recurse", "decrement"} => held[t] > 0
    /\ pc[t] \notin {"idle", "recurse", "decrement"} => held[t] = 0

LockInv ==
  /\ TypeOK
  /\ OneHolder
  /\ HolderHasWord
  /\ OwnerNamesHolder
  /\ CounterIsDepth
  /\ NoLostWakeup

\* Whoever waits for the lock, somebody gets it: the lock is never left free
\* with every contender blocked.
SomeoneAcquires ==
  (\E t \in Thread : pc[t] \in {"wait", "asleep", "cas"})
    ~> (\E t \in Thread : pc[t] = "store_owner")

\* The lock word is handed over only after the previous holder cleared the
\* owner word: a new owner is stored over NoThread, never over another thread.
OwnerStoredOverNone ==
  [][owner' \in Thread => owner = NoThread \/ owner' = owner]_vars

\* The lock implements the abstract recursive mutex.
Abstract == INSTANCE RecursiveMutexSpec
ImplementsMutex == Abstract!Spec
=============================================================================
