----------------------------- MODULE AddressWait -----------------------------
(***************************************************************************)
(* WaitOnAddress, WakeByAddressSingle and WakeByAddressAll                 *)
(* (ntapi/src/sync.rs): a wait on 4 bytes sleeps on the guest's own word   *)
(* as a futex, a wait on 1, 2 or 8 bytes looks at it once a millisecond.   *)
(* The guest stores to the word and then wakes.                            *)
(***************************************************************************)
EXTENDS SyncParameters

VARIABLES
  value,    \* the word at the address, one of two values
  pc,       \* pc[t]: where thread t is in the code
  wait,     \* wait[t]: what t's wait compares with, and whether it is infinite
  size,     \* the bytes of the word: 4, or 8 for the other sizes
  stores,   \* bound: MaxSignals of them
  single    \* the guest wakes with WakeByAddressSingle

addressVars == <<value, pc, wait, size, stores, single>>

Value == {0, 1}
Wait == [compare : Value, infinite : BOOLEAN]
NoWait == [compare |-> 0, infinite |-> TRUE]

Waiting(t) == pc[t] \in {"check", "futex", "asleep", "nap"}
Sleepers == {t \in Thread : pc[t] = "asleep"}

AddressInit ==
  /\ value = 0
  /\ pc = [t \in Thread |-> "idle"]
  /\ wait = [t \in Thread |-> NoWait]
  /\ size \in {4, 8}
  /\ stores = 0
  /\ single \in BOOLEAN

Goto(t, label) == pc' = [pc EXCEPT ![t] = label]

-----------------------------------------------------------------------------
\* A guest that wakes one waiter has one at a time.
wait_on_address(t) ==
  /\ pc[t] = "idle"
  /\ single => \A u \in Thread : ~Waiting(u)
  /\ \E w \in Wait : wait' = [wait EXCEPT ![t] = w]
  /\ Goto(t, "check")
  /\ UNCHANGED <<value, size, stores, single>>

\* The word differs: TRUE.  Or the deadline has passed: FALSE.  Or wait.
Check(t) ==
  /\ pc[t] = "check"
  /\ \/ /\ value # wait[t].compare \/ ~wait[t].infinite
        /\ Goto(t, "idle") /\ wait' = [wait EXCEPT ![t] = NoWait]
     \/ /\ value = wait[t].compare
        /\ Goto(t, IF size = 4 THEN "futex" ELSE "nap") /\ UNCHANGED wait
  /\ UNCHANGED <<value, size, stores, single>>

\* futex_wait compares and sleeps in one step of the kernel.
FutexWait(t) ==
  /\ pc[t] = "futex"
  /\ Goto(t, IF value = wait[t].compare THEN "asleep" ELSE "check")
  /\ UNCHANGED <<value, wait, size, stores, single>>

\* nanosleep, of a millisecond or up to the deadline, then the next turn.
Nap(t) ==
  /\ pc[t] = "nap"
  /\ Goto(t, "check")
  /\ UNCHANGED <<value, wait, size, stores, single>>

\* futex_wait returns on a signal or on its time-out as well.
SpuriousWake(t) ==
  /\ pc[t] = "asleep"
  /\ Goto(t, "check")
  /\ UNCHANGED <<value, wait, size, stores, single>>

-----------------------------------------------------------------------------
\* The guest stores the other value and is about to wake.
Store(t) ==
  /\ pc[t] = "idle" /\ stores < MaxSignals
  /\ value' = 1 - value
  /\ stores' = stores + 1
  /\ Goto(t, "wake")
  /\ UNCHANGED <<wait, size, single>>

WakeUp(t, nr) ==
  /\ pc[t] = "wake"
  /\ \E S \in futex_wake(Sleepers, nr) :
       pc' = [u \in Thread |-> IF u = t THEN "idle" ELSE IF u \in S THEN "check" ELSE pc[u]]
  /\ UNCHANGED <<value, wait, size, stores, single>>

wake_by_address_single(t) == single /\ WakeUp(t, 1)
wake_by_address_all(t) == ~single /\ WakeUp(t, AllWaiters)

CallStep(t) ==
  \/ Check(t) \/ FutexWait(t) \/ Nap(t)
  \/ wake_by_address_single(t) \/ wake_by_address_all(t)

AddressNext ==
  \E t \in Thread : wait_on_address(t) \/ CallStep(t) \/ SpuriousWake(t) \/ Store(t)

AddressFairness == \A t \in Thread : WF_addressVars(CallStep(t))

-----------------------------------------------------------------------------
\* An infinite wait returns once the word differs and stays different, however
\* the stores and wakes of other threads fall between its test of the word, its
\* sleep and its next turn, on words of the futex's size and on others.
ChangedWaitReturns ==
  \A t \in Thread :
    Waiting(t) /\ value # wait[t].compare ~> pc[t] = "idle" \/ value = wait[t].compare
=============================================================================
