-------------------------- MODULE RecursiveMutexSpec --------------------------
(***************************************************************************)
(* What a recursive lock promises its callers, without saying how: one     *)
(* thread at a time holds it, as many times over as it likes, and only     *)
(* that thread can give it back.  docs/architecture.md asks this of both   *)
(* the critical section and the mutex ("recursive mutexes").               *)
(***************************************************************************)
EXTENDS Integers

CONSTANT Thread      \* the guest threads

VARIABLE held        \* held[t]: acquisitions of t that it has not released

Init == held = [t \in Thread |-> 0]

Acquire(t) ==
  /\ \A u \in Thread \ {t} : held[u] = 0
  /\ held' = [held EXCEPT ![t] = @ + 1]

Release(t) ==
  /\ held[t] > 0
  /\ held' = [held EXCEPT ![t] = @ - 1]

Next == \E t \in Thread : Acquire(t) \/ Release(t)

Spec == Init /\ [][Next]_held
=============================================================================
