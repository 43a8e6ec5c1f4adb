------------------------------- MODULE MCLocks -------------------------------
(***************************************************************************)
(* The recursive lock in its two uses under one model check, a critical    *)
(* section or a mutex object, and the waits on an address.  A behaviour    *)
(* exercises one of them.                                                  *)
(***************************************************************************)
EXTENDS CriticalSection

VARIABLES
  kind,
  mx_lock, mx_owner, mx_recursion, mx_pc, mx_held, mx_infinite, mx_left,
  aw_value, aw_pc, aw_wait, aw_size, aw_stores, aw_single

Mutex == INSTANCE MutexObject WITH
  lock <- mx_lock, owner <- mx_owner, recursion <- mx_recursion, pc <- mx_pc,
  held <- mx_held, infinite <- mx_infinite, left <- mx_left

Address == INSTANCE AddressWait WITH
  value <- aw_value, pc <- aw_pc, wait <- aw_wait, size <- aw_size,
  stores <- aw_stores, single <- aw_single

awVars == <<aw_value, aw_pc, aw_wait, aw_size, aw_stores, aw_single>>
mxVars ==
  <<mx_lock, mx_owner, mx_recursion, mx_pc, mx_held, mx_infinite, mx_left>>
allVars == <<kind, csVars, mxVars, awVars>>

\* What is not in use stands at one of its initial states.
MCInit ==
  /\ kind \in {"section", "mutex", "address"}
  /\ CSInit
  /\ Mutex!MutexInit /\ (kind # "mutex" => mx_lock = 0)
  /\ Address!AddressInit /\ (kind # "address" => ~aw_single /\ aw_size = 4)

SectionNext == kind = "section" /\ CSNext /\ UNCHANGED <<kind, mxVars, awVars>>
MutexNext == kind = "mutex" /\ Mutex!MutexNext /\ UNCHANGED <<kind, csVars, awVars>>
AddressNext == kind = "address" /\ Address!AddressNext /\ UNCHANGED <<kind, csVars, mxVars>>

MCSpec ==
  /\ MCInit /\ [][SectionNext \/ MutexNext \/ AddressNext]_allVars
  /\ Fairness /\ Mutex!MutexFairness /\ Address!AddressFairness

-----------------------------------------------------------------------------
(* The properties of the critical section are RecursiveLock's; these are    *)
(* the ones of MutexObject and AddressWait.                                 *)

\* Mutex object: exclusion, also of a mutex whose owner ended (and the types).
MutexExclusion == Mutex!MutexTypeOK /\ Mutex!MutexExclusion
\* Infinite waits are not left behind: on a mutex that is not abandoned, on an
\* address once its value has changed.
InfiniteWaitProgress == Mutex!InfiniteWaitProgress /\ Address!ChangedWaitReturns
=============================================================================
