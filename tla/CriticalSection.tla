---------------------------- MODULE CriticalSection ----------------------------
(***************************************************************************)
(* CRITICAL_SECTION as the guest sees it (ntapi/src/sync.rs): the lock of  *)
(* RecursiveLock behind a pointer kept in the first eight bytes of the     *)
(* guest's struct.  Initialize boxes a fresh lock, Delete drops the box    *)
(* and zeroes the slot; Enter and Leave of a zero slot do nothing.         *)
(*                                                                         *)
(* Guest contract (quoted in cs_inner): nobody initializes or deletes a    *)
(* section that a thread is still using.  Sequences such as a second       *)
(* delete or an initialize over a live box are left to the guest.          *)
(***************************************************************************)
EXTENDS RecursiveLock

VARIABLES
  slot,     \* the pointer in the guest's struct: 0 or a box
  boxes     \* how many boxes were allocated

csVars == <<vars, slot, boxes>>

\* No thread is inside a call and none holds the section.
Quiescent == \A t \in Thread : pc[t] = "idle" /\ held[t] = 0

CSInit ==
  /\ Init
  /\ slot = 0
  /\ boxes = 0

initialize_critical_section ==
  /\ Quiescent
  /\ boxes < MaxBoxes
  /\ boxes' = boxes + 1
  /\ slot' = boxes + 1
  /\ lock' = 0 /\ owner' = NoThread /\ recursion' = 0
  /\ UNCHANGED <<pc, held>>

\* A zero slot is left alone; otherwise the box is dropped, the slot zeroed.
delete_critical_section ==
  /\ Quiescent
  /\ slot # 0
  /\ slot' = 0
  /\ UNCHANGED <<vars, boxes>>

\* cs_inner: calls on a zero slot return at once, the others run the lock.
CSCall(t) ==
  \/ slot # 0 /\ Step(t) /\ UNCHANGED <<slot, boxes>>
  \/ slot = 0 /\ UNCHANGED csVars

CSNext ==
  \/ initialize_critical_section
  \/ delete_critical_section
  \/ \E t \in Thread : CSCall(t)

CSSpec == CSInit /\ [][CSNext]_csVars

-----------------------------------------------------------------------------
(* Properties *)

CSTypeOK ==
  /\ TypeOK
  /\ slot \in 0..MaxBoxes
  /\ boxes \in 0..MaxBoxes

=============================================================================
