-------------------------- MODULE ProcessParameters --------------------------
(***************************************************************************)
(* The parameters of the process-wide tables of ntapi: handles             *)
(* (handle.rs), thread-local storage (thread.rs) and virtual memory        *)
(* (memory.rs), and of the registry of win32-kernel32 (registry.rs).       *)
(***************************************************************************)
EXTENDS Integers, FiniteSets

CONSTANTS
  Thread,         \* the guest threads (each is its gettid value)
  MaxFd,          \* descriptors are 3 .. MaxFd (0, 1 and 2 are the stdio fds)
  MaxHandle,      \* bound: how many handles are created in all
  SlotCount,      \* TLS_MINIMUM_AVAILABLE, 64 in the code
  MaxIndexes,     \* bound: how many TLS indexes are allocated in all
  MaxExits,       \* bound: how many threads end in all
  PageCount,      \* the size of the address space
  MaxPages,       \* inputs: the largest region a guest asks for
  WinProt,        \* inputs: the PAGE_ constants a guest passes
  MaxRegions,     \* bound: how many regions are allocated in all
  MaxKeyHandles,  \* bound: how many registry handles are minted in all
  MaxKeyCalls     \* bound: registry calls start while the log is no longer

ASSUME FdAssumption == MaxFd \in Nat /\ MaxFd >= 3
ASSUME HandleAssumption == MaxHandle \in Nat \ {0}
ASSUME SlotCountAssumption == SlotCount \in Nat \ {0}
ASSUME TlsBoundsAssumption == MaxIndexes \in Nat /\ MaxExits \in Nat
ASSUME PageAssumption ==
  PageCount \in Nat \ {0} /\ MaxPages \in 1 .. PageCount /\ MaxRegions \in Nat
ASSUME RegistryAssumption == MaxKeyHandles \in Nat /\ MaxKeyCalls \in Nat
ASSUME WinProtAssumption ==
  WinProt \subseteq {"PAGE_NOACCESS", "PAGE_READONLY", "PAGE_READWRITE",
                     "PAGE_EXECUTE", "PAGE_EXECUTE_READ", "PAGE_EXECUTE_READWRITE"}
=============================================================================
