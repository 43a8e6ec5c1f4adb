---------------------------------- MODULE Tls ----------------------------------
(***************************************************************************)
(* Thread-local storage (TlsAlloc, TlsFree, TlsGetValue, TlsSetValue in    *)
(* ntapi/src/thread.rs): a fixed array of slots, each with a lock around   *)
(* its in_use flag and a lock around a map from Linux thread ids to        *)
(* values.  TlsAlloc tries the slots one after the other; TlsFree holds    *)
(* the slot's flag locked while it empties the map.                        *)
(*                                                                         *)
(* Guest threads end and the kernel gives their ids to new threads; the    *)
(* code has no hook for that.  The guest keeps to the Windows contract: it *)
(* uses an index only between the TlsAlloc that returned it and its        *)
(* TlsFree, and frees it once.                                             *)
(***************************************************************************)
EXTENDS ProcessParameters

Slot == 0 .. (SlotCount - 1)
NoSlot == -1
Index == NoSlot .. SlotCount

VARIABLES
  in_use,    \* in_use[s]: slot s is allocated
  locked,    \* locked[s]: a TlsFree is inside slot s, holding its flag
  values,    \* values[s][tid]: what the map holds, 0 when it holds nothing
  pc,        \* where each thread is
  index,     \* index[tid]: the slot TlsAlloc tries next, or TlsFree is in
  guest,     \* history: slot -> number of the TlsAlloc that returned it, 0 when free
  allocs,    \* history: TlsAlloc calls that returned an index
  wrote,     \* history: wrote[s][tid], what the present thread stored under its index
  left,      \* history: left[s][tid], what threads that had the id left there
  exits      \* history: threads that ended

vars == <<in_use, locked, values, pc, index, guest, allocs, wrote, left, exits>>

Empty == [s \in Slot |-> [t \in Thread |-> 0]]

Init ==
  /\ in_use = [s \in Slot |-> FALSE]
  /\ locked = [s \in Slot |-> FALSE]
  /\ values = Empty
  /\ pc = [t \in Thread |-> "idle"]
  /\ index = [t \in Thread |-> NoSlot]
  /\ guest = [s \in Slot |-> 0]
  /\ allocs = 0
  /\ wrote = Empty
  /\ left = Empty
  /\ exits = 0

-----------------------------------------------------------------------------
(* tls_alloc *)

tls_alloc(t) ==
  /\ pc[t] = "idle"
  /\ allocs + Cardinality({u \in Thread : pc[u] = "scan"}) < MaxIndexes
  /\ pc' = [pc EXCEPT ![t] = "scan"]
  /\ index' = [index EXCEPT ![t] = 0]
  /\ UNCHANGED <<in_use, locked, values, guest, allocs, wrote, left, exits>>

\* A mutated form: the flag is tested without its lock, so that a TlsFree
\* still busy with the slot's values does not keep the slot back.
AllocSlot_Unlocked(t) ==
  LET s == index[t] IN
  /\ pc[t] = "scan" /\ s < SlotCount /\ ~in_use[s]
  /\ in_use' = [in_use EXCEPT ![s] = TRUE]
  /\ guest' = [guest EXCEPT ![s] = allocs + 1]
  /\ allocs' = allocs + 1
  /\ wrote' = [wrote EXCEPT ![s] = [u \in Thread |-> 0]]
  /\ left' = [left EXCEPT ![s] = [u \in Thread |-> 0]]
  /\ pc' = [pc EXCEPT ![t] = "idle"]
  /\ index' = [index EXCEPT ![t] = NoSlot]
  /\ UNCHANGED <<locked, values, exits>>

\* The slot is free: take it.
AllocSlot(t) ==
  LET s == index[t] IN
  /\ pc[t] = "scan" /\ s < SlotCount /\ ~locked[s] /\ ~in_use[s]
  /\ in_use' = [in_use EXCEPT ![s] = TRUE]
  /\ guest' = [guest EXCEPT ![s] = allocs + 1]
  /\ allocs' = allocs + 1
  /\ wrote' = [wrote EXCEPT ![s] = [u \in Thread |-> 0]]
  /\ left' = [left EXCEPT ![s] = [u \in Thread |-> 0]]
  /\ pc' = [pc EXCEPT ![t] = "idle"]
  /\ index' = [index EXCEPT ![t] = NoSlot]
  /\ UNCHANGED <<locked, values, exits>>

\* The slot is taken: try the next one.
AllocNext(t) ==
  LET s == index[t] IN
  /\ pc[t] = "scan" /\ s < SlotCount /\ ~locked[s] /\ in_use[s]
  /\ index' = [index EXCEPT ![t] = s + 1]
  /\ UNCHANGED <<in_use, locked, values, pc, guest, allocs, wrote, left, exits>>

\* No slot left: TLS_OUT_OF_INDEXES.
AllocFailed(t) ==
  /\ pc[t] = "scan" /\ index[t] = SlotCount
  /\ pc' = [pc EXCEPT ![t] = "idle"]
  /\ index' = [index EXCEPT ![t] = NoSlot]
  /\ UNCHANGED <<in_use, locked, values, guest, allocs, wrote, left, exits>>

-----------------------------------------------------------------------------
(* tls_free: clear the flag, then the map, under the flag's lock *)

tls_free(t, s) ==
  /\ pc[t] = "idle"
  /\ guest[s] # 0 /\ in_use[s] /\ ~locked[s]
  /\ in_use' = [in_use EXCEPT ![s] = FALSE]
  /\ locked' = [locked EXCEPT ![s] = TRUE]
  /\ guest' = [guest EXCEPT ![s] = 0]
  /\ pc' = [pc EXCEPT ![t] = "clear"]
  /\ index' = [index EXCEPT ![t] = s]
  /\ UNCHANGED <<values, allocs, wrote, left, exits>>

FreeClear(t) ==
  LET s == index[t] IN
  /\ pc[t] = "clear"
  /\ values' = [values EXCEPT ![s] = [u \in Thread |-> 0]]
  /\ locked' = [locked EXCEPT ![s] = FALSE]
  /\ pc' = [pc EXCEPT ![t] = "idle"]
  /\ index' = [index EXCEPT ![t] = NoSlot]
  /\ UNCHANGED <<in_use, guest, allocs, wrote, left, exits>>

-----------------------------------------------------------------------------
(* tls_set_value, tls_get_value *)

\* The map is keyed by the caller's thread id; in_use is not consulted.
tls_set_value(t, s) ==
  /\ pc[t] = "idle"
  /\ guest[s] # 0
  /\ values' = [values EXCEPT ![s][t] = guest[s]]
  /\ wrote' = [wrote EXCEPT ![s][t] = guest[s]]
  /\ UNCHANGED <<in_use, locked, pc, index, guest, allocs, left, exits>>

tls_get_value(t, s) == values[s][t]

-----------------------------------------------------------------------------
(* External: a thread ends and its id goes to a new thread.  Nothing in
   thread.rs runs then. *)

ThreadReplaced(t) ==
  /\ pc[t] = "idle"
  /\ exits < MaxExits
  /\ exits' = exits + 1
  /\ left' = [s \in Slot |-> [left[s] EXCEPT ![t] = values[s][t]]]
  /\ wrote' = [s \in Slot |-> [wrote[s] EXCEPT ![t] = 0]]
  /\ UNCHANGED <<in_use, locked, values, pc, index, guest, allocs>>

-----------------------------------------------------------------------------

Next ==
  \E t \in Thread :
    \/ tls_alloc(t) \/ AllocSlot(t) \/ AllocNext(t) \/ AllocFailed(t)
    \/ FreeClear(t) \/ ThreadReplaced(t)
    \/ \E s \in Slot : tls_free(t, s) \/ tls_set_value(t, s)

Spec == Init /\ [][Next]_vars

-----------------------------------------------------------------------------
(* Properties *)

TypeOK ==
  /\ in_use \in [Slot -> BOOLEAN]
  /\ locked \in [Slot -> BOOLEAN]
  /\ values \in [Slot -> [Thread -> Nat]]
  /\ pc \in [Thread -> {"idle", "scan", "clear"}]
  /\ index \in [Thread -> Index]
  /\ guest \in [Slot -> Nat]
  /\ allocs \in Nat
  /\ wrote \in [Slot -> [Thread -> Nat]]
  /\ left \in [Slot -> [Thread -> Nat]]
  /\ exits \in Nat

\* A thread reads from its index what it stored there since the index was
\* allocated; if it stored nothing, what an earlier thread of the same id left
\* under the same allocation, and null without one.  No value of an earlier
\* owner of the slot or of another thread id shows through, whoever frees and
\* allocates in between.
ReadsOwnValue ==
  \A s \in Slot, t \in Thread : guest[s] # 0 =>
    tls_get_value(t, s) = IF wrote[s][t] # 0 THEN wrote[s][t] ELSE left[s][t]

\* Why it holds, as an inductive invariant.  A slot the guest may use is
\* allocated and no TlsFree is in it; a TlsFree has its slot to itself, with
\* the flag cleared; a slot that TlsAlloc may take has an empty map.
GuestSlotsInUse == \A s \in Slot : guest[s] # 0 => in_use[s]
LockedNotInUse == \A s \in Slot : locked[s] => ~in_use[s]
ClearersApart ==
  /\ \A t \in Thread : pc[t] = "clear" => index[t] \in Slot /\ locked[index[t]]
  /\ \A t, u \in Thread : pc[t] = "clear" /\ pc[u] = "clear" /\ index[t] = index[u] => t = u
ScansInRange == \A t \in Thread : pc[t] = "scan" => index[t] >= 0
FreeIsEmpty ==
  \A s \in Slot : ~in_use[s] /\ ~locked[s] => \A t \in Thread : values[s][t] = 0
TlsInv ==
  /\ TypeOK
  /\ GuestSlotsInUse
  /\ LockedNotInUse
  /\ ClearersApart
  /\ ScansInRange
  /\ FreeIsEmpty
  /\ ReadsOwnValue
=============================================================================
