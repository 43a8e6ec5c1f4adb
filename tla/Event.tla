--------------------------------- MODULE Event ---------------------------------
(***************************************************************************)
(* The event object (EventInner, ntapi/src/sync.rs): SetEvent, ResetEvent, *)
(* PulseEvent and WaitForSingleObject on one event, manual- or auto-reset, *)
(* one action per atomic access.                                           *)
(***************************************************************************)
EXTENDS SyncParameters

VARIABLES
  state,          \* the futex word: 0 unsignaled, 1 signaled
  manual_reset,   \* fixed at creation
  pc,             \* where each thread is in the code
  signals,        \* history: signals given (a signaled creation counts as one)
  grants          \* history: waits an auto-reset event let through

vars == <<state, manual_reset, pc, signals, grants>>
unchangedHistory == UNCHANGED <<manual_reset, signals, grants>>

PcValues == {"idle", "load", "cas", "check", "asleep",
             "set_wake", "pulse_wake", "pulse_clear"}

Asleep == {t \in Thread : pc[t] = "asleep"}

Goto(t, l) == pc' = [pc EXCEPT ![t] = l]

\* CreateEventW(manual_reset, initial).
Init ==
  /\ state \in {0, 1}
  /\ manual_reset \in BOOLEAN
  /\ pc = [t \in Thread |-> "idle"]
  /\ signals = state
  /\ grants = 0

-----------------------------------------------------------------------------
(* set, reset, pulse *)

Signal(t, next) ==
  /\ pc[t] = "idle"
  /\ signals < MaxSignals
  /\ state' = 1
  /\ signals' = signals + 1
  /\ Goto(t, next)
  /\ UNCHANGED <<manual_reset, grants>>

\* set stores 1 and then wakes.
set(t) == Signal(t, "set_wake")

\* How many waiters set and pulse wake: all of a manual-reset event's, one of
\* an auto-reset event's, which will consume the signal.
WakeCount == IF manual_reset THEN AllWaiters ELSE 1

\* A mutated form: one waiter is woken whatever the kind of event.
Wake_One(t, from, next) ==
  /\ pc[t] = from
  /\ \E S \in futex_wake(Asleep, 1) :
       pc' = [u \in Thread |-> IF u = t THEN next
                               ELSE IF u \in S THEN "load" ELSE pc[u]]
  /\ UNCHANGED <<state, manual_reset, signals, grants>>

\* futex_wake(&state, all or one); woken threads look at the word again.
Wake(t, from, next) ==
  /\ pc[t] = from
  /\ \E S \in futex_wake(Asleep, WakeCount) :
       pc' = [u \in Thread |-> IF u = t THEN next
                               ELSE IF u \in S THEN "load" ELSE pc[u]]
  /\ UNCHANGED <<state, manual_reset, signals, grants>>

SetWake(t) == Wake(t, "set_wake", "idle")

reset(t) ==
  /\ pc[t] = "idle"
  /\ state' = 0
  /\ UNCHANGED pc
  /\ unchangedHistory

\* pulse: store 1, wake, store 0.
pulse(t) == Signal(t, "pulse_wake")

PulseWake(t) == Wake(t, "pulse_wake", "pulse_clear")

PulseClear(t) ==
  /\ pc[t] = "pulse_clear"
  /\ state' = 0
  /\ Goto(t, "idle")
  /\ unchangedHistory

-----------------------------------------------------------------------------
(* wait *)

wait(t) ==
  /\ pc[t] = "idle"
  /\ Goto(t, "load")
  /\ UNCHANGED <<state, manual_reset, signals, grants>>

\* The wait returns WAIT_OBJECT_0.
Granted(t) ==
  /\ Goto(t, "idle")
  /\ grants' = IF manual_reset THEN grants ELSE grants + 1
  /\ UNCHANGED <<manual_reset, signals>>

Load(t) ==
  /\ pc[t] = "load"
  /\ \/ /\ state = 1 /\ manual_reset
        /\ Granted(t)
     \/ /\ ~(state = 1 /\ manual_reset)
        /\ Goto(t, IF state = 1 THEN "cas" ELSE "check")
        /\ unchangedHistory
  /\ UNCHANGED state

\* A mutated form: the signal is consumed by a subtraction, so two threads
\* that both saw it both return.
Cas_Sub(t) ==
  /\ pc[t] = "cas"
  /\ state' = state - 1
  /\ Granted(t)

\* Consume the signal, or look again when another thread stole it.
Cas(t) ==
  /\ pc[t] = "cas"
  /\ state' = 0
  /\ \/ state = 1 /\ Granted(t)
     \/ state = 0 /\ Goto(t, "load") /\ unchangedHistory

\* Unsignaled and past the deadline: WAIT_TIMEOUT.  (A wait with INFINITE is
\* one that never takes this step.)
Expire(t) ==
  /\ pc[t] = "check"
  /\ Goto(t, "idle")
  /\ UNCHANGED state
  /\ unchangedHistory

\* A mutated form: the wait blocks without comparing the word.
FutexWait_NoCompare(t) ==
  /\ pc[t] = "check"
  /\ Goto(t, "asleep")
  /\ UNCHANGED state
  /\ unchangedHistory

\* futex_wait(&state, 0, remaining).
FutexWait(t) ==
  /\ pc[t] = "check"
  /\ Goto(t, IF state = 0 THEN "asleep" ELSE "load")
  /\ UNCHANGED state
  /\ unchangedHistory

\* EINTR, or the timeout of a timed wait.
SpuriousWake(t) ==
  /\ pc[t] = "asleep"
  /\ Goto(t, "load")
  /\ UNCHANGED state
  /\ unchangedHistory

-----------------------------------------------------------------------------

CallStep(t) ==
  \/ SetWake(t) \/ PulseWake(t) \/ PulseClear(t)
  \/ Load(t) \/ Cas(t) \/ FutexWait(t)

Step(t) ==
  \/ set(t) \/ reset(t) \/ pulse(t) \/ wait(t)
  \/ Expire(t) \/ SpuriousWake(t) \/ CallStep(t)

Next == \E t \in Thread : Step(t)

Spec == Init /\ [][Next]_vars

\* A call in progress runs on: the scheduler is fair to runnable threads.
Fairness == \A t \in Thread : WF_vars(CallStep(t))

FairSpec == Spec /\ Fairness

-----------------------------------------------------------------------------
(* Properties *)

TypeOK ==
  /\ state \in {0, 1}
  /\ manual_reset \in BOOLEAN
  /\ pc \in [Thread -> PcValues]
  /\ signals \in Nat
  /\ grants \in Nat

\* Auto-reset: every signal releases at most one wait.  The signals given
\* cover the grants and the one still pending in the word.
OneGrantPerSignal == ~manual_reset => grants + state <= signals

\* No wake-up is lost: while the event is signaled and a thread is blocked on
\* it, a wake is on its way (for a manual-reset event that is the only way)
\* or a running waiter is about to take the signal.
NoLostSignal ==
  state = 1 /\ Asleep # {} =>
    \E t \in Thread :
      \/ pc[t] \in {"set_wake", "pulse_wake"}
      \/ ~manual_reset /\ pc[t] \in {"load", "cas"}

\* The inductive invariant of the proofs.
EventInv == TypeOK /\ OneGrantPerSignal /\ NoLostSignal

\* A manual-reset event that stays signaled lets every waiter through.
ManualReleasesAll ==
  manual_reset /\ <>[](state = 1) =>
    \A t \in Thread : (pc[t] \in {"load", "check", "asleep"}) ~> (pc[t] = "idle")
=============================================================================
