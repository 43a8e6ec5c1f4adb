------------------------------- MODULE Semaphore -------------------------------
(***************************************************************************)
(* The counting semaphore (SemaphoreInner, ntapi/src/sync.rs): the waits   *)
(* and releases of one semaphore object, one action per atomic access.     *)
(*                                                                         *)
(* The count is a 32-bit word: fetch_add wraps around.  The maximum given  *)
(* to CreateSemaphoreW is not stored, so nothing but the width of the word *)
(* bounds the count.  The previous count that ReleaseSemaphore copies out  *)
(* is a load of its own that nothing in the semaphore depends on; it is    *)
(* left out.                                                               *)
(***************************************************************************)
EXTENDS SyncParameters

VARIABLES
  count,      \* the futex word: units available
  pc,         \* where each thread is in the code
  c,          \* c[t]: the count t loaded for its compare-exchange
  n,          \* n[t]: the release count t's wake is to announce
  given,      \* history: units the creation and the releases put in
  grants,     \* history: waits that returned WAIT_OBJECT_0
  lost        \* history: units that wrapped around and are gone

vars == <<count, pc, c, n, given, grants, lost>>

PcValues == {"idle", "load", "cas", "check", "asleep", "wake"}

Asleep == {t \in Thread : pc[t] = "asleep"}

Goto(t, l) == pc' = [pc EXCEPT ![t] = l]

\* CreateSemaphoreW(initial, maximum).
Init ==
  /\ count \in InitialCounts
  /\ pc = [t \in Thread |-> "idle"]
  /\ c = [t \in Thread |-> 0]
  /\ n = [t \in Thread |-> 0]
  /\ given = count
  /\ grants = 0
  /\ lost = 0

-----------------------------------------------------------------------------
(* wait *)

wait(t) ==
  /\ pc[t] = "idle"
  /\ Goto(t, "load")
  /\ UNCHANGED <<count, c, n, given, grants, lost>>

Load(t) ==
  /\ pc[t] = "load"
  /\ c' = [c EXCEPT ![t] = count]
  /\ Goto(t, IF count > 0 THEN "cas" ELSE "check")
  /\ UNCHANGED <<count, n, given, grants, lost>>

\* A mutated form: the loaded count is decremented and stored back blindly.
Cas_Store(t) ==
  /\ pc[t] = "cas"
  /\ count' = c[t] - 1
  /\ grants' = grants + 1
  /\ Goto(t, "idle")
  /\ c' = [c EXCEPT ![t] = 0]
  /\ UNCHANGED <<n, given, lost>>

\* A mutated form: the count is decremented whatever it is by now.
Cas_Sub(t) ==
  /\ pc[t] = "cas"
  /\ count' = count - 1
  /\ grants' = grants + 1
  /\ Goto(t, "idle")
  /\ c' = [c EXCEPT ![t] = 0]
  /\ UNCHANGED <<n, given, lost>>

\* A mutated form: a waiter that lost the race goes back to sleep instead of
\* looking at the count again.
Cas_Sleep(t) ==
  /\ pc[t] = "cas"
  /\ \/ /\ count = c[t]
        /\ count' = c[t] - 1
        /\ grants' = grants + 1
        /\ Goto(t, "idle")
     \/ /\ count # c[t]
        /\ Goto(t, "asleep")
        /\ UNCHANGED <<count, grants>>
  /\ c' = [c EXCEPT ![t] = 0]
  /\ UNCHANGED <<n, given, lost>>

Cas(t) ==
  /\ pc[t] = "cas"
  /\ \/ /\ count = c[t]
        /\ count' = c[t] - 1
        /\ grants' = grants + 1
        /\ Goto(t, "idle")
     \/ /\ count # c[t]
        /\ Goto(t, "load")
        /\ UNCHANGED <<count, grants>>
  /\ c' = [c EXCEPT ![t] = 0]
  /\ UNCHANGED <<n, given, lost>>

\* No unit and past the deadline: WAIT_TIMEOUT.  (A wait with INFINITE is one
\* that never takes this step.)
Expire(t) ==
  /\ pc[t] = "check"
  /\ Goto(t, "idle")
  /\ UNCHANGED <<count, c, n, given, grants, lost>>

\* futex_wait(&count, 0, remaining).
FutexWait(t) ==
  /\ pc[t] = "check"
  /\ Goto(t, IF count = 0 THEN "asleep" ELSE "load")
  /\ UNCHANGED <<count, c, n, given, grants, lost>>

\* EINTR, or the timeout of a timed wait.
SpuriousWake(t) ==
  /\ pc[t] = "asleep"
  /\ Goto(t, "load")
  /\ UNCHANGED <<count, c, n, given, grants, lost>>

-----------------------------------------------------------------------------
(* release *)

\* fetch_add wraps around.
WrappingAdd(a, b) == IF a + b < CountModulus THEN a + b ELSE a + b - CountModulus

\* ReleaseSemaphore(k): fetch_add, then the wake.
release(t) ==
  /\ pc[t] = "idle"
  /\ \E k \in ReleaseCounts :
       /\ given + k <= MaxReleased
       /\ count' = WrappingAdd(count, k)
       /\ lost' = lost + (count + k - WrappingAdd(count, k))
       /\ given' = given + k
       /\ n' = [n EXCEPT ![t] = k]
  /\ Goto(t, "wake")
  /\ UNCHANGED <<c, grants>>

\* A mutated form: one waiter is woken however many units were released.
Wake_One(t) ==
  /\ pc[t] = "wake"
  /\ \E S \in futex_wake(Asleep, 1) :
       pc' = [u \in Thread |-> IF u = t THEN "idle"
                               ELSE IF u \in S THEN "load" ELSE pc[u]]
  /\ n' = [n EXCEPT ![t] = 0]
  /\ UNCHANGED <<count, c, given, grants, lost>>

\* futex_wake(&count, k).
Wake(t) ==
  /\ pc[t] = "wake"
  /\ \E S \in futex_wake(Asleep, n[t]) :
       pc' = [u \in Thread |-> IF u = t THEN "idle"
                               ELSE IF u \in S THEN "load" ELSE pc[u]]
  /\ n' = [n EXCEPT ![t] = 0]
  /\ UNCHANGED <<count, c, given, grants, lost>>

-----------------------------------------------------------------------------

CallStep(t) ==
  Load(t) \/ Cas(t) \/ FutexWait(t) \/ Wake(t)

Step(t) ==
  wait(t) \/ release(t) \/ Expire(t) \/ SpuriousWake(t) \/ CallStep(t)

Next == \E t \in Thread : Step(t)

Spec == Init /\ [][Next]_vars

\* A call in progress runs on: the scheduler is fair to runnable threads.
Fairness == \A t \in Thread : WF_vars(CallStep(t))

FairSpec == Spec /\ Fairness

-----------------------------------------------------------------------------
(* Properties *)

TypeOK ==
  /\ count \in 0 .. (CountModulus - 1)
  /\ pc \in [Thread -> PcValues]
  /\ c \in [Thread -> 0 .. (CountModulus - 1)]
  /\ n \in [Thread -> 0 .. (CountModulus - 1)]
  /\ given \in Nat
  /\ grants \in Nat
  /\ lost \in Nat

\* No unit is granted twice and none vanishes while threads race for the
\* count: what was given is available, was granted, or went in a wrap-around.
UnitsConserved == count + grants + lost = given

\* The wake-ups that the releases in progress are still to give, one for each
\* unit they added, and the waiters awake and about to look at the count.
PendingWakes ==
  {w \in Thread \X (1 .. (CountModulus - 1)) : pc[w[1]] = "wake" /\ w[2] <= n[w[1]]}
Running == {t \in Thread : pc[t] \in {"load", "cas"}}

\* Every unit finds its waiter: while anybody is blocked, each available unit
\* has a taker, a waiter that is already awake or one that the futex_wake of a
\* release in progress will let go (FUTEX_WAKE for a release of k units wakes
\* k waiters, and a waiter that loses the race looks at the count again).
EveryUnitHasATaker ==
  Asleep # {} => count <= Cardinality(PendingWakes) + Cardinality(Running)

\* The inductive invariant of the proofs.  A waiter at its compare-exchange
\* loaded a positive count: the decrement does not underflow.
SnapshotPositive == \A t \in Thread : pc[t] = "cas" => c[t] > 0
SemaphoreInv == TypeOK /\ UnitsConserved /\ SnapshotPositive /\ EveryUnitHasATaker

\* Units do not lie idle beside blocked threads: they are taken, or every
\* blocked thread comes back.
UnitsTaken == (count > 0 /\ Asleep # {}) ~> (count = 0 \/ Asleep = {})
=============================================================================
