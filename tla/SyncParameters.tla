---------------------------- MODULE SyncParameters ----------------------------
(***************************************************************************)
(* The parameters of the synchronization primitives of ntapi/src/sync.rs:  *)
(* the guest threads that use them, the widths of their words and the      *)
(* bounds of their models.                                                 *)
(***************************************************************************)
EXTENDS Futex

CONSTANTS
  Thread,          \* the guest threads (each is its gettid value)
  NoThread,        \* the owner word's 0
  MaxRecursion,    \* bound: how deep a guest nests its acquisitions
  MaxBoxes,        \* bound: how many times the guest initializes a section
  MaxSignals,      \* bound: how many times the guest sets or pulses an event
  CountModulus,    \* the number of values of a semaphore's word, 2^32 in the code
  InitialCounts,   \* inputs: the initial counts a guest passes
  ReleaseCounts,   \* inputs: the release counts a guest passes
  MaxReleased,     \* bound: the units released in all
  SRW_WRITER       \* the writer flag, bit 31 of the word: above any reader count

ASSUME NoThreadAssumption == NoThread \notin Thread
ASSUME ThreadAssumption == IsFiniteSet(Thread) /\ Cardinality(Thread) < AllWaiters
ASSUME MaxRecursionAssumption == MaxRecursion \in Nat \ {0}
ASSUME MaxBoxesAssumption == MaxBoxes \in Nat \ {0}
ASSUME MaxSignalsAssumption == MaxSignals \in Nat
ASSUME CountModulusAssumption == CountModulus \in Nat \ {0, 1}
ASSUME CountsAssumption ==
  /\ InitialCounts \subseteq 0 .. (CountModulus - 1)
  /\ ReleaseCounts \subseteq 0 .. (CountModulus - 1)
  /\ MaxReleased \in Nat
ASSUME SrwWriterAssumption == SRW_WRITER \in Nat /\ Cardinality(Thread) < SRW_WRITER
=============================================================================
