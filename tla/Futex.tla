-------------------------------- MODULE Futex --------------------------------
(***************************************************************************)
(* The wait queue of one futex word, as ntapi/src/futex.rs uses it.        *)
(*                                                                         *)
(* A module that models a futex-based primitive keeps the threads blocked  *)
(* in FUTEX_WAIT as the threads whose program counter says so.  The kernel *)
(* compares the word and enqueues the caller in one step, so futex_wait is *)
(* one action: it blocks when the word still has the expected value and    *)
(* returns to the caller's loop otherwise.  A blocked thread also returns  *)
(* on EINTR or on its timeout; futex.rs discards the return code, so the   *)
(* three cases look the same to the caller, which checks again.            *)
(***************************************************************************)
EXTENDS Integers, FiniteSets

\* The nr argument that stands for "everybody": i32::MAX.
AllWaiters == 2147483647

\* futex_wake(word, nr): the sets of waiters one call may release.  Which nr
\* waiters the kernel picks is its own business; when there are fewer than
\* nr, all of them go.
futex_wake(waiters, nr) ==
  {S \in SUBSET waiters : Cardinality(S) = nr
                            \/ (Cardinality(S) < nr /\ S = waiters)}
=============================================================================
