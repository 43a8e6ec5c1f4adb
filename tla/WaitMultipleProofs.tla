-------------------------- MODULE WaitMultipleProofs --------------------------
(***************************************************************************)
(* Proofs about WaitMultiple for every set of threads, objects and handle  *)
(* arrays: what a call took is what it reports, however the polls of the   *)
(* threads interleave.                                                     *)
(***************************************************************************)
EXTENDS WaitMultiple, TLAPS

\* A poll is about an object of the call's handle array.
LEMMA PollsAnObject ==
  ASSUME WaitInv, NEW t \in Thread, call[t].i <= Len(call[t].list)
  PROVE  /\ call[t].i \in DOMAIN call[t].list
         /\ Current(t) \in Object
BY DEF WaitInv, Calls, Current

\* A call that moves to another index is still a call.
LEMMA IndexedCall ==
  ASSUME NEW c \in Calls, NEW j \in Nat \ {0}
  PROVE  [c EXCEPT !.i = j] \in Calls
BY DEF Calls

\* The initial state satisfies the inductive invariant.
LEMMA InitWaitInv == Init => WaitInv
<1> SUFFICES ASSUME Init PROVE WaitInv
  OBVIOUS
<1> USE DEF Init, Nothing, NoCall
<1>1. TypeOK
  BY DEF TypeOK
<1>2. call \in [Thread -> Calls]
  <2>1. NoCall \in Calls
    BY DEF Calls
  <2> QED
    BY <2>1
<1>3. TakesWhatItReports
  BY <1>1 DEF TakesWhatItReports, ReportsTaken, AutoTakenOnce
<1> QED
  BY <1>2, <1>3 DEF WaitInv, AnyTakesNothing, AllTakesAsItGoes

\* Every step preserves the inductive invariant.
LEMMA NextWaitInv == WaitInv /\ [Next]_vars => WaitInv'
<1> SUFFICES ASSUME WaitInv, [Next]_vars PROVE WaitInv'
  OBVIOUS
<1> USE KindAssumption
<1> USE DEF WaitInv, TakesWhatItReports
<1>1. ASSUME NEW t \in Thread, wait_for_multiple_objects(t) PROVE WaitInv'
  <2> USE <1>1 DEF TypeOK, wait_for_multiple_objects
  <2>1. TypeOK'
    OBVIOUS
  <2>2. (call \in [Thread -> Calls])'
    BY DEF Calls
  <2>3. ReportsTaken'
    BY DEF ReportsTaken, AnyTakesNothing, Nothing, Current, TakenBy
  <2>4. AutoTakenOnce'
    BY DEF AutoTakenOnce
  <2>5. AnyTakesNothing'
    BY DEF AnyTakesNothing, Nothing
  <2>6. AllTakesAsItGoes'
    BY DEF AllTakesAsItGoes, Calls
  <2> QED
    BY <2>1, <2>2, <2>3, <2>4, <2>5, <2>6
<1>2. ASSUME NEW t \in Thread, PollSignaled(t) PROVE WaitInv'
  <2>1. PICK c \in Object : c = Current(t)
    BY <1>2, PollsAnObject DEF PollSignaled
  <2>2. /\ took' \in [Thread -> [Object -> Nat]]
        /\ took'[t][c] = IF took[t][c] < 2 THEN took[t][c] + 1 ELSE took[t][c]
        /\ \A u \in Thread, o \in Object : u # t \/ o # c => took'[u][o] = took[u][o]
    BY <1>2, <2>1 DEF PollSignaled, TypeOK, TookCap
  <2>3. /\ sig' \in [Object -> Nat]
        /\ Kind[c] = "auto" => sig[c] > 0 /\ sig'[c] = sig[c] - 1
        /\ \A o \in Object \ {c} : sig'[o] = sig[o]
    BY <1>2, <2>1 DEF PollSignaled, Signaled, Consume, TypeOK
  <2>4. depth' \in [Object -> [Thread -> Nat]]
    BY <1>2, <2>1 DEF PollSignaled, Consume, TypeOK
  <2>5. TypeOK'
    BY <1>2, <2>2, <2>3, <2>4 DEF PollSignaled, Return, TypeOK
  <2>6. AutoTakenOnce'
    <3> SUFFICES ASSUME NEW o \in Object, Kind[o] = "auto",
                        NEW u \in Thread, NEW v \in Thread, u # v
                 PROVE  took'[u][o] + took'[v][o] + sig'[o] <= given[o]
      BY <1>2 DEF PollSignaled, AutoTakenOnce
    <3>1. /\ took[u][o] \in Nat /\ took[v][o] \in Nat /\ sig[o] \in Nat /\ given[o] \in Nat
          /\ took[u][o] + took[v][o] + sig[o] <= given[o]
      BY DEF TypeOK, AutoTakenOnce
    <3>2. CASE o # c
      BY <2>2, <2>3, <3>1, <3>2
    <3>3. CASE o = c /\ u = t
      <4>1. /\ took'[u][o] \in {took[u][o], took[u][o] + 1} /\ took'[v][o] = took[v][o]
            /\ sig'[o] = sig[o] - 1
        BY <2>2, <2>3, <3>3
      <4> QED
        BY ONLY <3>1, <4>1
    <3>4. CASE o = c /\ v = t
      <4>1. /\ took'[v][o] \in {took[v][o], took[v][o] + 1} /\ took'[u][o] = took[u][o]
            /\ sig'[o] = sig[o] - 1
        BY <2>2, <2>3, <3>4
      <4> QED
        BY ONLY <3>1, <4>1
    <3>5. CASE o = c /\ u # t /\ v # t
      BY <2>2, <2>3, <3>1, <3>5
    <3> QED
      BY <3>2, <3>3, <3>4, <3>5
  <2>7. CASE ~call[t].wait_all
    <3>1. /\ pc' = [pc EXCEPT ![t] = "returned"] /\ ret' = [ret EXCEPT ![t] = "object"]
          /\ call' = call /\ all_signaled' = all_signaled
      BY <1>2, <2>7 DEF PollSignaled, Return
    <3>2. took[t] = [o \in Object |-> 0]
      BY <1>2, <2>7 DEF PollSignaled, AnyTakesNothing, Nothing
    <3>3. took'[t] = [o \in Object |-> IF o = c THEN 1 ELSE 0]
      BY <2>2, <3>2
    <3>4. \A u \in Thread \ {t} : took'[u] = took[u]
      BY <2>2 DEF TypeOK
    <3>5. ReportsTaken'
      <4> SUFFICES ASSUME NEW u \in Thread, pc'[u] = "returned"
                   PROVE  /\ ~call[u].wait_all =>
                               took'[u] = [o \in Object |->
                                  IF ret'[u] = "object" /\ o = Current(u) THEN 1 ELSE 0]
                          /\ ret'[u] = "all" =>
                               ToSet(call[u].list) \subseteq TakenBy(u)' /\ all_signaled[u]
        BY <3>1 DEF ReportsTaken, Current, TakenBy
      <4>1. CASE u = t
        BY <2>1, <3>1, <3>3, <4>1 DEF TypeOK
      <4>2. CASE u # t
        BY <3>1, <3>4, <4>2 DEF ReportsTaken, TakenBy, TypeOK
      <4> QED
        BY <4>1, <4>2
    <3>6. AnyTakesNothing' /\ AllTakesAsItGoes'
      BY <3>1, <3>4 DEF AnyTakesNothing, AllTakesAsItGoes, Nothing, TypeOK
    <3> QED
      BY <2>5, <2>6, <3>1, <3>5, <3>6
  <2>8. CASE call[t].wait_all
    <3>1. pc' = pc /\ ret' = ret /\ all_signaled' = all_signaled
      BY <1>2, <2>8 DEF PollSignaled
    <3>2. call' = [call EXCEPT ![t] = [call[t] EXCEPT !.i = call[t].i + 1]]
      BY <1>2, <2>8 DEF PollSignaled, Advance
    <3>3. call[t] \in Calls /\ call[t].i + 1 \in Nat \ {0}
      BY DEF Calls
    <3>4. call' \in [Thread -> Calls]
      BY <3>2, <3>3, IndexedCall
    <3>5. /\ call'[t].list = call[t].list /\ call'[t].wait_all = call[t].wait_all
          /\ call'[t].i = call[t].i + 1
          /\ \A u \in Thread \ {t} : call'[u] = call[u]
      BY <3>2 DEF Calls
    <3>6. \A u \in Thread \ {t} : took'[u] = took[u]
      BY <2>2 DEF TypeOK
    <3>7. \A o \in Object : took[t][o] > 0 => took'[t][o] > 0
      <4>1. \A o \in Object : took[t][o] \in Nat
        BY DEF TypeOK
      <4>2. \A o \in Object \ {c} : took'[t][o] = took[t][o]
        BY <2>2
      <4>3. took'[t][c] >= took[t][c]
        BY <2>2, <4>1
      <4> QED
        BY <2>2, <4>1, <4>2, <4>3
    <3>8. took'[t][c] > 0
      <4>1. took[t][c] \in Nat
        BY DEF TypeOK
      <4> QED
        BY <2>2, <4>1
    <3>9. pc[t] = "poll"
      BY <1>2 DEF PollSignaled
    <3>10. ReportsTaken'
      BY <3>1, <3>5, <3>6, <3>9 DEF ReportsTaken, Current, TakenBy
    <3>11. AnyTakesNothing'
      BY <2>8, <3>1, <3>5, <3>6, <3>9 DEF AnyTakesNothing, Nothing
    <3>12. AllTakesAsItGoes'
      <4> SUFFICES ASSUME NEW u \in Thread, (pc[u] = "poll")', call'[u].wait_all, all_signaled'[u],
                          NEW j \in DOMAIN call'[u].list, j < call'[u].i
                   PROVE  took'[u][call'[u].list[j]] > 0
        BY DEF AllTakesAsItGoes
      <4>1. CASE u # t
        BY <3>1, <3>5, <3>6, <4>1 DEF AllTakesAsItGoes
      <4>2. CASE u = t /\ j = call[t].i
        BY <2>1, <3>5, <3>8, <4>2 DEF Current
      <4>3. CASE u = t /\ j < call[t].i
        <5>1. took[t][call[t].list[j]] > 0 /\ call[t].list[j] \in Object
          BY <2>8, <3>1, <3>5, <3>9, <4>3 DEF AllTakesAsItGoes, Calls
        <5> QED
          BY <3>5, <3>7, <4>3, <5>1
      <4> QED
        BY <3>5, <4>1, <4>2, <4>3 DEF Calls
    <3> QED
      BY <2>5, <2>6, <3>4, <3>10, <3>11, <3>12
  <2> QED
    BY <2>7, <2>8
<1>3. ASSUME NEW t \in Thread, PollTimeout(t) PROVE WaitInv'
  <2> /\ call[t].i \in DOMAIN call[t].list
      /\ Current(t) \in Object
    BY <1>3, PollsAnObject DEF PollTimeout
  <2>0. call[t] \in Calls /\ call[t].i + 1 \in Nat \ {0}
    BY DEF Calls
  <2> USE <1>3 DEF TypeOK, PollTimeout, Advance
  <2>1. TypeOK'
    OBVIOUS
  <2>2. call' \in [Thread -> Calls]
    BY <2>0, IndexedCall
  <2>3. ReportsTaken'
    BY DEF ReportsTaken, AnyTakesNothing, Nothing, Current, TakenBy
  <2>4. AutoTakenOnce'
    BY DEF AutoTakenOnce
  <2>5. AnyTakesNothing'
    BY DEF AnyTakesNothing, Nothing
  <2>6. AllTakesAsItGoes'
    BY DEF AllTakesAsItGoes
  <2> QED
    BY <2>1, <2>2, <2>3, <2>4, <2>5, <2>6
<1>4. ASSUME NEW t \in Thread, PollFailed(t) PROVE WaitInv'
  <2> USE <1>4 DEF TypeOK, PollFailed, Return
  <2>1. TypeOK'
    OBVIOUS
  <2>2. (call \in [Thread -> Calls])'
    BY DEF Calls
  <2>3. ReportsTaken'
    BY DEF ReportsTaken, AnyTakesNothing, Nothing, Current, TakenBy
  <2>4. AutoTakenOnce'
    BY DEF AutoTakenOnce
  <2>5. AnyTakesNothing'
    BY DEF AnyTakesNothing, Nothing
  <2>6. AllTakesAsItGoes'
    BY DEF AllTakesAsItGoes
  <2> QED
    BY <2>1, <2>2, <2>3, <2>4, <2>5, <2>6
<1>5. ASSUME NEW t \in Thread, EndOfPass(t) PROVE WaitInv'
  <2> USE <1>5 DEF TypeOK, EndOfPass, Return
  <2>1. TypeOK'
    OBVIOUS
  <2>2. (call \in [Thread -> Calls])'
    BY DEF Calls
  <2>3. ReportsTaken'
    <3>1. \A u \in Thread \ {t} : pc'[u] = pc[u] /\ ret'[u] = ret[u]
      OBVIOUS
    <3>2. ASSUME pc'[t] = "returned", ~call[t].wait_all
          PROVE  took[t] = Nothing /\ ret'[t] = "timeout"
      BY <3>2 DEF AnyTakesNothing
    <3>3. ASSUME pc'[t] = "returned", ret'[t] = "all"
          PROVE  ToSet(call[t].list) \subseteq TakenBy(t) /\ all_signaled[t]
      <4>1. call[t].wait_all /\ all_signaled[t] /\ call[t].i > Len(call[t].list)
        BY <3>3
      <4>2. \A j \in DOMAIN call[t].list :
              took[t][call[t].list[j]] > 0 /\ call[t].list[j] \in Object
        <5>1. call[t].list \in Seq(Object) /\ call[t].i \in Nat
          BY DEF Calls
        <5>2. \A j \in DOMAIN call[t].list : j < call[t].i /\ call[t].list[j] \in Object
          BY ONLY <4>1, <5>1
        <5> QED
          BY <4>1, <5>2 DEF AllTakesAsItGoes
      <4> QED
        BY <4>1, <4>2 DEF ToSet, TakenBy
    <3> QED
      BY <3>1, <3>2, <3>3 DEF ReportsTaken, Nothing, Current, TakenBy
  <2>4. AutoTakenOnce'
    BY DEF AutoTakenOnce
  <2>5. AnyTakesNothing'
    BY DEF AnyTakesNothing, Nothing
  <2>6. AllTakesAsItGoes'
    BY DEF AllTakesAsItGoes
  <2> QED
    BY <2>1, <2>2, <2>3, <2>4, <2>5, <2>6
<1>6. ASSUME NEW t \in Thread, NextPass(t) PROVE WaitInv'
  <2> USE <1>6 DEF TypeOK, NextPass
  <2>1. TypeOK'
    OBVIOUS
  <2>2. call' \in [Thread -> Calls]
    <3>1. call[t] \in Calls /\ 1 \in Nat \ {0}
      OBVIOUS
    <3>2. [call[t] EXCEPT !.i = 1] \in Calls
      BY ONLY <3>1, IndexedCall
    <3> QED
      BY <3>2
  <2>3. ReportsTaken'
    BY DEF ReportsTaken, AnyTakesNothing, Nothing, Current, TakenBy
  <2>4. AutoTakenOnce'
    BY DEF AutoTakenOnce
  <2>5. AnyTakesNothing'
    BY DEF AnyTakesNothing, Nothing
  <2>6. AllTakesAsItGoes'
    BY DEF AllTakesAsItGoes, Calls
  <2> QED
    BY <2>1, <2>2, <2>3, <2>4, <2>5, <2>6
<1>7. ASSUME NEW t \in Thread, Done(t) PROVE WaitInv'
  <2> USE <1>7 DEF TypeOK, Done, NoCall
  <2>1. TypeOK' /\ \A u \in Thread, o \in Object : took'[u][o] <= took[u][o]
    BY DEF Nothing
  <2>2. call' \in [Thread -> Calls]
    <3>1. NoCall \in Calls
      BY DEF Calls
    <3> QED
      BY <3>1
  <2>3. ReportsTaken'
    BY DEF ReportsTaken, AnyTakesNothing, Nothing, Current, TakenBy
  <2>4. AutoTakenOnce'
    BY <2>1 DEF AutoTakenOnce
  <2>5. AnyTakesNothing'
    BY DEF AnyTakesNothing, Nothing
  <2>6. AllTakesAsItGoes'
    BY DEF AllTakesAsItGoes
  <2> QED
    BY <2>1, <2>2, <2>3, <2>4, <2>5, <2>6
<1>8. ASSUME NEW t \in Thread, NEW o \in Object, SignalObject(t, o) PROVE WaitInv'
  <2> USE <1>8 DEF TypeOK, SignalObject
  <2>1. TypeOK'
    OBVIOUS
  <2>2. (call \in [Thread -> Calls])'
    BY DEF Calls
  <2>3. ReportsTaken'
    BY DEF ReportsTaken, AnyTakesNothing, Nothing, Current, TakenBy
  <2>4. AutoTakenOnce'
    <3> SUFFICES ASSUME NEW p \in Object, Kind[p] = "auto",
                        NEW u \in Thread, NEW v \in Thread, u # v
                 PROVE  took[u][p] + took[v][p] + sig'[p] <= given'[p]
      BY DEF AutoTakenOnce
    <3>1. /\ took[u][p] \in Nat /\ took[v][p] \in Nat /\ sig[p] \in Nat /\ given[p] \in Nat
          /\ took[u][p] + took[v][p] + sig[p] <= given[p]
      BY DEF AutoTakenOnce
    <3>2. \/ sig'[p] = sig[p] /\ given'[p] = given[p]
          \/ sig'[p] = 1 /\ given'[p] = given[p] + 1
      OBVIOUS
    <3> QED
      BY ONLY <3>1, <3>2
  <2>5. AnyTakesNothing'
    BY DEF AnyTakesNothing, Nothing
  <2>6. AllTakesAsItGoes'
    BY DEF AllTakesAsItGoes
  <2> QED
    BY <2>1, <2>2, <2>3, <2>4, <2>5, <2>6
<1>9. ASSUME NEW t \in Thread, NEW o \in Object, ReleaseMutex(t, o) PROVE WaitInv'
  <2> USE <1>9 DEF TypeOK, ReleaseMutex
  <2>1. TypeOK'
    OBVIOUS
  <2>2. (call \in [Thread -> Calls])'
    BY DEF Calls
  <2>3. ReportsTaken'
    BY DEF ReportsTaken, AnyTakesNothing, Nothing, Current, TakenBy
  <2>4. AutoTakenOnce'
    BY DEF AutoTakenOnce
  <2>5. AnyTakesNothing'
    BY DEF AnyTakesNothing, Nothing
  <2>6. AllTakesAsItGoes'
    BY DEF AllTakesAsItGoes
  <2> QED
    BY <2>1, <2>2, <2>3, <2>4, <2>5, <2>6
<1>10. CASE UNCHANGED vars
  BY <1>10 DEF vars, TypeOK, ReportsTaken, AutoTakenOnce, AnyTakesNothing,
              AllTakesAsItGoes, TakenBy, Current
<1> QED
  BY <1>1, <1>2, <1>3, <1>4, <1>5, <1>6, <1>7, <1>8, <1>9, <1>10
     DEF Next, CallStep

\* A call takes what it reports: a wait for any object takes from the one it
\* names and from no other, a wait for all that succeeds has taken from each,
\* and an auto-reset event lets at most one waiter through per signal.
THEOREM WaitTakesWhatItReports == Spec => []TakesWhatItReports
<1>1. WaitInv => TakesWhatItReports
  BY DEF WaitInv
<1> QED
  BY <1>1, InitWaitInv, NextWaitInv, PTL DEF Spec
=============================================================================
