----------------------------- MODULE WaitMultiple -----------------------------
(***************************************************************************)
(* WaitForSingleObject and WaitForMultipleObjects (ntapi/src/sync.rs) over *)
(* a handful of objects of every kind.  WaitForMultipleObjects polls: it   *)
(* makes a zero-timeout WaitForSingleObject on each handle in turn, sleeps *)
(* a millisecond and starts over.  A zero-timeout wait takes effect at one *)
(* compare-exchange (see Event, Semaphore and RecursiveLock for the steps  *)
(* around it), so a poll is one action here; between two polls the other   *)
(* threads signal and consume.                                             *)
(***************************************************************************)
EXTENDS Integers, Sequences, SequencesExt

CONSTANTS
  Thread,      \* the guest threads
  Object,      \* the objects named by the handles
  Kind,        \* Kind[o]: what kind of object o is
  Lists,       \* inputs: the handle arrays a guest passes
  MaxGiven,    \* bound: how often the guest signals an object
  MaxDepth     \* bound: how often a thread's passes nest a mutex

ASSUME KindAssumption ==
  /\ Kind \in [Object -> {"auto", "manual", "semaphore", "mutex", "thread", "file"}]
  /\ Lists \subseteq Seq(Object) \ {<<>>}
  /\ MaxGiven \in Nat
  /\ MaxDepth \in Nat

VARIABLES
  sig,      \* sig[o]: an event's state, a semaphore's count, 1 for a free mutex
  depth,    \* depth[o][t]: how many times over t holds the mutex o
  pc,       \* where each thread is: idle, poll, slept, or returned
  call,     \* call[t]: the handle array, bWaitAll, INFINITE or not, the next index
  all_signaled,  \* all_signaled[t]: the flag of the current pass
  ret,      \* ret[t]: what the last call returned
  took,     \* history: took[t][o], how often t's call took from o (up to TookCap)
  given     \* history: given[o], how often o was signaled

vars == <<sig, depth, pc, call, all_signaled, ret, took, given>>

NoCall == [list |-> <<>>, wait_all |-> FALSE, infinite |-> FALSE, i |-> 1]
Nothing == [o \in Object |-> 0]

\* Bound: once, or more than once, is all the properties tell apart.
TookCap == 2

Init ==
  /\ sig = [o \in Object |-> IF Kind[o] = "mutex" THEN 1 ELSE 0]
  /\ depth = [o \in Object |-> [t \in Thread |-> 0]]
  /\ pc = [t \in Thread |-> "idle"]
  /\ call = [t \in Thread |-> NoCall]
  /\ all_signaled = [t \in Thread |-> TRUE]
  /\ ret = [t \in Thread |-> "none"]
  /\ took = [t \in Thread |-> Nothing]
  /\ given = Nothing

-----------------------------------------------------------------------------
(* wait_for_single_object(h, 0): what it returns and what it changes *)

Signaled(t, o) ==
  CASE Kind[o] \in {"auto", "manual", "semaphore"} -> sig[o] > 0
    [] Kind[o] = "mutex"  -> sig[o] = 1 \/ depth[o][t] > 0
    [] Kind[o] = "thread" -> TRUE      \* reported as signaled, finished or not
    [] OTHER -> FALSE

\* Anything but an event, a mutex, a semaphore or a thread: WAIT_FAILED.
Waitable(o) == Kind[o] # "file"

\* A mutated form: an auto-reset event is left signaled.
Consume_KeepEvent(t, o) ==
  /\ sig' = IF Kind[o] \in {"semaphore", "mutex"} /\ sig[o] > 0
              THEN [sig EXCEPT ![o] = @ - 1] ELSE sig
  /\ depth' = IF Kind[o] = "mutex" THEN [depth EXCEPT ![o][t] = @ + 1] ELSE depth

\* An auto-reset event and a semaphore lose a signal, a mutex is locked or
\* entered once more, a manual-reset event and a thread stay as they are.
Consume(t, o) ==
  /\ sig' = IF Kind[o] \in {"auto", "semaphore", "mutex"} /\ sig[o] > 0
              THEN [sig EXCEPT ![o] = @ - 1] ELSE sig
  /\ depth' = IF Kind[o] = "mutex" THEN [depth EXCEPT ![o][t] = @ + 1] ELSE depth

-----------------------------------------------------------------------------
(* wait_for_multiple_objects *)

\* A pass takes a mutex of its list once: passes start below the bound only.
BelowBound(t) == \A o \in Object : depth[o][t] < MaxDepth

wait_for_multiple_objects(t) ==
  /\ pc[t] = "idle" /\ BelowBound(t)
  /\ \E l \in Lists, b, inf \in BOOLEAN :
       call' = [call EXCEPT ![t] =
                  [list |-> l, wait_all |-> b, infinite |-> inf, i |-> 1]]
  /\ pc' = [pc EXCEPT ![t] = "poll"]
  /\ UNCHANGED <<sig, depth, all_signaled, ret, took, given>>

Return(t, r) ==
  /\ pc' = [pc EXCEPT ![t] = "returned"]
  /\ ret' = [ret EXCEPT ![t] = r]

Current(t) == call[t].list[call[t].i]

\* On to the next handle.
Advance(t) == call' = [call EXCEPT ![t].i = @ + 1]

\* The poll found the object signaled: bWaitAny returns its index, bWaitAll
\* goes on with the next one.
PollSignaled(t) ==
  /\ pc[t] = "poll" /\ call[t].i <= Len(call[t].list)
  /\ Waitable(Current(t)) /\ Signaled(t, Current(t))
  /\ Consume(t, Current(t))
  /\ took' = [took EXCEPT ![t][Current(t)] = IF @ < TookCap THEN @ + 1 ELSE @]
  /\ \/ /\ ~call[t].wait_all
        /\ Return(t, "object")
        /\ UNCHANGED call
     \/ /\ call[t].wait_all
        /\ Advance(t)
        /\ UNCHANGED <<pc, ret>>
  /\ UNCHANGED <<all_signaled, given>>

PollTimeout(t) ==
  /\ pc[t] = "poll" /\ call[t].i <= Len(call[t].list)
  /\ Waitable(Current(t)) /\ ~Signaled(t, Current(t))
  /\ all_signaled' = [all_signaled EXCEPT ![t] = FALSE]
  /\ Advance(t)
  /\ UNCHANGED <<sig, depth, pc, ret, took, given>>

PollFailed(t) ==
  /\ pc[t] = "poll" /\ call[t].i <= Len(call[t].list)
  /\ ~Waitable(Current(t))
  /\ Return(t, "failed")
  /\ UNCHANGED <<sig, depth, call, all_signaled, took, given>>

\* The end of a pass: everything signaled, out of time, or a short sleep.
EndOfPass(t) ==
  /\ pc[t] = "poll" /\ call[t].i > Len(call[t].list)
  /\ IF call[t].wait_all /\ all_signaled[t]
       THEN Return(t, "all")
       ELSE \/ ~call[t].infinite /\ Return(t, "timeout")
            \/ pc' = [pc EXCEPT ![t] = "slept"] /\ UNCHANGED ret
  /\ UNCHANGED <<sig, depth, call, all_signaled, took, given>>

\* A mutated form: the next pass does not start over.
NextPass_KeepIndex(t) ==
  /\ pc[t] = "slept" /\ BelowBound(t)
  /\ pc' = [pc EXCEPT ![t] = "poll"]
  /\ all_signaled' = [all_signaled EXCEPT ![t] = TRUE]
  /\ UNCHANGED <<sig, depth, call, ret, took, given>>

NextPass(t) ==
  /\ pc[t] = "slept" /\ BelowBound(t)
  /\ pc' = [pc EXCEPT ![t] = "poll"]
  /\ call' = [call EXCEPT ![t].i = 1]
  /\ all_signaled' = [all_signaled EXCEPT ![t] = TRUE]
  /\ UNCHANGED <<sig, depth, ret, took, given>>

\* The guest goes on with the result.
Done(t) ==
  /\ pc[t] = "returned"
  /\ pc' = [pc EXCEPT ![t] = "idle"]
  /\ call' = [call EXCEPT ![t] = NoCall]
  /\ all_signaled' = [all_signaled EXCEPT ![t] = TRUE]
  /\ ret' = [ret EXCEPT ![t] = "none"]
  /\ took' = [took EXCEPT ![t] = Nothing]
  /\ UNCHANGED <<sig, depth, given>>

-----------------------------------------------------------------------------
(* The other side: SetEvent, ReleaseSemaphore, ReleaseMutex *)

Signals == FoldFunction(+, 0, given)

SignalObject(t, o) ==
  /\ pc[t] = "idle"
  /\ Kind[o] \in {"auto", "manual", "semaphore"}
  /\ Signals < MaxGiven
  /\ sig' = [sig EXCEPT ![o] = IF Kind[o] = "semaphore" THEN @ + 1 ELSE 1]
  /\ given' = [given EXCEPT ![o] = @ + 1]
  /\ UNCHANGED <<depth, pc, call, all_signaled, ret, took>>

ReleaseMutex(t, o) ==
  /\ pc[t] = "idle"
  /\ Kind[o] = "mutex" /\ depth[o][t] > 0
  /\ depth' = [depth EXCEPT ![o][t] = @ - 1]
  /\ sig' = [sig EXCEPT ![o] = IF depth[o][t] = 1 THEN 1 ELSE 0]
  /\ UNCHANGED <<pc, call, all_signaled, ret, took, given>>

-----------------------------------------------------------------------------

CallStep(t) ==
  \/ PollSignaled(t) \/ PollTimeout(t) \/ PollFailed(t)
  \/ EndOfPass(t) \/ NextPass(t)

Next ==
  \E t \in Thread :
    \/ wait_for_multiple_objects(t) \/ CallStep(t) \/ Done(t)
    \/ \E o \in Object : SignalObject(t, o) \/ ReleaseMutex(t, o)

\* A call in progress runs on.
Spec == Init /\ [][Next]_vars /\ \A t \in Thread : WF_vars(CallStep(t))

-----------------------------------------------------------------------------
(* Properties *)

TypeOK ==
  /\ sig \in [Object -> Nat]
  /\ depth \in [Object -> [Thread -> Nat]]
  /\ pc \in [Thread -> {"idle", "poll", "slept", "returned"}]
  /\ all_signaled \in [Thread -> BOOLEAN]
  /\ ret \in [Thread -> {"none", "object", "all", "timeout", "failed"}]
  /\ took \in [Thread -> [Object -> Nat]]
  /\ given \in [Object -> Nat]

TakenBy(t) == {o \in Object : took[t][o] > 0}

\* What a call that has returned took.
ReportsTaken ==
  \A t \in Thread : pc[t] = "returned" =>
    /\ ~call[t].wait_all =>
         took[t] = [o \in Object |->
                      IF ret[t] = "object" /\ o = Current(t) THEN 1 ELSE 0]
    /\ ret[t] = "all" => ToSet(call[t].list) \subseteq TakenBy(t) /\ all_signaled[t]
AutoTakenOnce ==
  \A o \in Object : Kind[o] = "auto" =>
    \A t, u \in Thread : t # u => took[t][o] + took[u][o] + sig[o] <= given[o]

\* A call takes what it reports, and nothing twice.  A wait for any object takes
\* from the object whose index it returns and from no other, once; one that
\* times out or fails takes nothing.  A wait for all that succeeds found each of
\* them signaled in its last pass.  An auto-reset event is consumed at most as
\* often as it was set, however the polls of several threads interleave.
TakesWhatItReports == TypeOK /\ ReportsTaken /\ AutoTakenOnce

\* Why it holds, as an inductive invariant.  A call in progress that waits for
\* any object has taken nothing yet; a pass that has found everything signaled
\* has taken from each of the handles it is past.
Calls == [list : Seq(Object), wait_all : BOOLEAN, infinite : BOOLEAN, i : Nat \ {0}]
AnyTakesNothing ==
  \A t \in Thread :
    pc[t] = "idle" \/ (pc[t] # "returned" /\ ~call[t].wait_all) => took[t] = Nothing
AllTakesAsItGoes ==
  \A t \in Thread : pc[t] = "poll" /\ call[t].wait_all /\ all_signaled[t] =>
    \A j \in DOMAIN call[t].list : j < call[t].i => took[t][call[t].list[j]] > 0
WaitInv ==
  /\ TakesWhatItReports
  /\ call \in [Thread -> Calls]
  /\ AnyTakesNothing
  /\ AllTakesAsItGoes

\* An infinite wait for any of some objects returns when one of them stays
\* signaled: the poll comes round to it.
AnyReturns ==
  \A t \in Thread :
    (/\ pc[t] \in {"poll", "slept"} /\ call[t].infinite /\ ~call[t].wait_all
     /\ \E o \in ToSet(call[t].list) : Kind[o] = "manual" /\ sig[o] = 1)
      ~> (pc[t] = "returned")

\* "for `bWaitAll` it waits for every object to be signaled": a call that has
\* found every one of its objects signaled returns.
AllReturns ==
  \A t \in Thread :
    (/\ pc[t] \in {"poll", "slept"} /\ call[t].infinite /\ call[t].wait_all
     /\ ToSet(call[t].list) \subseteq TakenBy(t))
      ~> (pc[t] = "returned")
=============================================================================
