------------------------------ MODULE MCSignals ------------------------------
(***************************************************************************)
(* The event, the semaphore and the slim reader/writer lock under one      *)
(* model check.  They share no word; a behaviour exercises one of them.    *)
(***************************************************************************)
EXTENDS SrwLock

VARIABLES
  kind,
  ev_state, ev_manual_reset, ev_pc, ev_signals, ev_grants,
  sm_count, sm_pc, sm_c, sm_n, sm_given, sm_grants, sm_lost

Ev == INSTANCE Event WITH
  state <- ev_state, manual_reset <- ev_manual_reset, pc <- ev_pc,
  signals <- ev_signals, grants <- ev_grants

Sem == INSTANCE Semaphore WITH
  count <- sm_count, pc <- sm_pc, c <- sm_c, n <- sm_n,
  given <- sm_given, grants <- sm_grants, lost <- sm_lost

evVars == <<ev_state, ev_manual_reset, ev_pc, ev_signals, ev_grants>>
smVars == <<sm_count, sm_pc, sm_c, sm_n, sm_given, sm_grants, sm_lost>>
allVars == <<kind, vars, evVars, smVars>>

\* What is not in use stands at one of its initial states.
MCInit ==
  /\ kind \in {"event", "semaphore", "srw"}
  /\ Init
  /\ Ev!Init /\ (kind # "event" => ev_state = 0 /\ ev_manual_reset)
  /\ Sem!Init /\ (kind # "semaphore" => sm_count = 0)

EventNext == kind = "event" /\ Ev!Next /\ UNCHANGED <<kind, vars, smVars>>
SemaphoreNext == kind = "semaphore" /\ Sem!Next /\ UNCHANGED <<kind, vars, evVars>>
SrwNext == kind = "srw" /\ Next /\ UNCHANGED <<kind, evVars, smVars>>

MCSpec ==
  /\ MCInit /\ [][EventNext \/ SemaphoreNext \/ SrwNext]_allVars
  /\ Ev!Fairness /\ Sem!Fairness /\ Fairness

-----------------------------------------------------------------------------
(* The properties of the reader/writer lock are SrwLock's; these are Event's *)
(* and Semaphore's.                                                          *)

\* Event: every signal of an auto-reset event releases at most one wait.
OneGrantPerSignal == Ev!OneGrantPerSignal
\* Event: no waiter sleeps beside a signal with nobody on the way.
NoLostSignal == Ev!NoLostSignal
\* Event: a manual-reset event that stays signaled lets every waiter through.
ManualReleasesAll == Ev!ManualReleasesAll
\* Semaphore: no unit is granted twice and none vanishes, except by wrapping.
UnitsConserved == Sem!UnitsConserved
\* Semaphore: while anybody sleeps, each available unit has a taker.
EveryUnitHasATaker == Sem!EveryUnitHasATaker
\* Semaphore: units do not lie idle beside blocked threads.
UnitsTaken == Sem!UnitsTaken
=============================================================================
