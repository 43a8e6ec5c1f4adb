------------------------------ MODULE MutexObject ------------------------------
(***************************************************************************)
(* The mutex object (MutexInner, CreateMutexW, ReleaseMutex and            *)
(* WaitForSingleObject on a mutex, ntapi/src/sync.rs): the lock of         *)
(* RecursiveLock with a deadline, created free or owned by its creator.    *)
(* release is leave with a Boolean result, so RecursiveLock's steps model  *)
(* it; acquire differs in the deadline test between the failed             *)
(* compare-exchange and the futex_wait.                                    *)
(*                                                                         *)
(* A thread is named by its gettid value, which Linux hands to a new       *)
(* thread once the old one has ended: ThreadExit models both at once.  An  *)
(* owner that ends leaves its acquisitions behind; the code does not tell  *)
(* the thread that inherits its id from the one that ended.                *)
(***************************************************************************)
EXTENDS RecursiveLock

VARIABLES
  infinite,    \* infinite[t]: t's wait was called with INFINITE
  left         \* history: left[t], acquisitions that threads with id t ended with
               \* and that nobody has returned since

mutexVars == <<vars, infinite, left>>

\* CreateMutexW(initial_owner): free, or owned once by the creating thread.
create_mutex_w ==
  \/ Init
  \/ \E t \in Thread :
       /\ lock = 1 /\ owner = t /\ recursion = 1
       /\ pc = [u \in Thread |-> "idle"]
       /\ held = [u \in Thread |-> IF u = t THEN 1 ELSE 0]

MutexInit ==
  /\ create_mutex_w
  /\ infinite = [t \in Thread |-> TRUE]
  /\ left = [t \in Thread |-> 0]

acquire(t) ==
  /\ Enter(t)
  /\ \E b \in BOOLEAN : infinite' = [infinite EXCEPT ![t] = b]
  /\ UNCHANGED left

\* A mutated form: the deadline is tested before the compare-exchange.
Expire_BeforeCas(t) ==
  /\ pc[t] \in {"wait", "cas"}
  /\ ~infinite[t]
  /\ Goto(t, "idle")
  /\ UNCHANGED <<lock, owner, recursion, held, infinite, left>>

\* The compare-exchange failed and the deadline has passed: WAIT_TIMEOUT.
Expire(t) ==
  /\ pc[t] = "wait"
  /\ ~infinite[t]
  /\ Goto(t, "idle")
  /\ UNCHANGED <<lock, owner, recursion, held, infinite, left>>

\* Every other step is the lock's; futex_wait's own timeout looks like
\* SpuriousWake, since the caller only sees that the wait returned.  A release
\* returns what the caller was granted, or else what it inherited.
LockStep(t) ==
  /\ Leave(t) \/ SpuriousWake(t) \/ CallStep(t)
  /\ left' = IF pc[t] = "decrement" /\ held[t] = 0
               THEN [left EXCEPT ![t] = @ - 1] ELSE left
  /\ UNCHANGED infinite

\* The thread ends and a new one starts under its id.  The mutex is not told.
\* (Bound: not again before what it left has been returned.)
ThreadExit(t) ==
  /\ pc[t] = "idle"
  /\ held[t] > 0 /\ left[t] = 0
  /\ held' = [held EXCEPT ![t] = 0]
  /\ left' = [left EXCEPT ![t] = held[t]]
  /\ UNCHANGED <<lock, owner, recursion, pc, infinite>>

MutexNext ==
  \E t \in Thread : acquire(t) \/ Expire(t) \/ LockStep(t) \/ ThreadExit(t)

MutexSpec == MutexInit /\ [][MutexNext]_mutexVars

\* As for the lock.  Nothing is assumed of timeouts: a timed wait may expire
\* at its deadline test or go to sleep.
MutexFairness ==
  \A t \in Thread :
    /\ WF_mutexVars(LockStep(t) /\ pc[t] # "asleep")
    /\ SF_mutexVars(held[t] = 1 /\ LockStep(t) /\ pc[t] = "idle")

-----------------------------------------------------------------------------
(* Properties *)

MutexTypeOK ==
  TypeOK /\ infinite \in [Thread -> BOOLEAN] /\ left \in [Thread -> Nat]

\* What is still to be returned under the id t.
Kept(t) == held[t] + left[t]

\* Mutual exclusion with timeouts, an initial owner and owners that end.  A
\* mutex that is abandoned goes to nobody but a thread that inherits its
\* owner's id, until one has returned what was left; and whether the thread
\* that is to return it was granted it or inherited it, the words say who it is
\* and how often it has to.
MutexExclusion ==
  /\ \A t, u \in Thread : Kept(t) > 0 /\ Kept(u) > 0 => t = u
  /\ \A t \in Thread : pc[t] = "idle" =>
       /\ owner = t <=> Kept(t) > 0
       /\ Kept(t) > 0 => recursion = Kept(t) /\ lock = 1

\* Why it holds, as an inductive invariant: LockInv with what was left behind.
Keeping(t) == Kept(t) > 0 \/ Holding(t)
OneKeeper == \A t, u \in Thread : Keeping(t) /\ Keeping(u) => t = u
KeeperHasWord == \A t \in Thread : Keeping(t) => lock = 1
OwnerNamesKeeper ==
  \A t \in Thread :
    owner = t <=> Keeping(t) /\ pc[t] \notin {"store_owner", "unlock"}
CounterIsKept ==
  \A t \in Thread :
    /\ Kept(t) > 0 => recursion = Kept(t)
    /\ pc[t] \in {"recurse", "decrement"} => Kept(t) > 0
    /\ pc[t] \notin {"idle", "recurse", "decrement"} => Kept(t) = 0

MutexInv ==
  /\ MutexTypeOK
  /\ OneKeeper
  /\ KeeperHasWord
  /\ OwnerNamesKeeper
  /\ CounterIsKept
  /\ NoLostWakeup

\* A thread blocked with INFINITE is never left behind on a mutex whose owners
\* release it: a timed waiter that a release has woken and that runs into its
\* deadline does not take the wake-up with it (the loop tries the lock before
\* it tests the clock).
InfiniteWaitProgress ==
  (\E t \in Thread : infinite[t] /\ pc[t] \in {"wait", "asleep", "cas"})
    ~> \E t \in Thread : left[t] > 0 \/ pc[t] = "store_owner"
=============================================================================
