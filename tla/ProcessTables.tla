---------------------------- MODULE ProcessTables ----------------------------
(***************************************************************************)
(* The process-wide tables that the threads of a guest share: handles,     *)
(* thread-local storage, virtual memory, loaded modules and the registry.  *)
(* Each table has locks and system calls of its own and none uses another, *)
(* so a step of the process is a step of one of them.                      *)
(***************************************************************************)
EXTENDS ProcessParameters, Sequences

\* The parameters of the module list, see DllRegistry.
CONSTANTS Path, Name, Candidates, Base, NoBase, MaxNesting

ASSUME CandidatesAssumption == Candidates \in [Name -> Seq(Path)]
ASSUME NestingAssumption == MaxNesting \in Nat \ {0}
ASSUME NoBaseAssumption == NoBase \notin Base
ASSUME PathAssumption == "none" \notin Path

VARIABLES
  ht_objects, ht_next, ht_kernel, ht_opens, ht_pc, ht_h, ht_fd, ht_file, ht_io,
  tls_in_use, tls_locked, tls_values, tls_pc, tls_index, tls_guest,
  tls_allocs, tls_wrote, tls_left, tls_exits,
  vm_regions, vm_kernel, vm_allocs, vm_pc, vm_op, vm_reported, vm_mixed, vm_orphans,
  dll_MODULES, dll_image, dll_stack, dll_lookup, dll_zombie, dll_leaked, dll_raced,
  reg_keys, reg_handles, reg_next, reg_pc, reg_call, reg_answer, reg_log

Handles == INSTANCE HandleTable WITH
  objects <- ht_objects, next <- ht_next, kernel <- ht_kernel,
  opens <- ht_opens, pc <- ht_pc, h <- ht_h, fd <- ht_fd, file <- ht_file,
  io <- ht_io
Storage == INSTANCE Tls WITH
  in_use <- tls_in_use, locked <- tls_locked, values <- tls_values,
  pc <- tls_pc, index <- tls_index, guest <- tls_guest, allocs <- tls_allocs,
  wrote <- tls_wrote, left <- tls_left, exits <- tls_exits
Memory == INSTANCE VirtualMemory WITH
  regions <- vm_regions, kernel <- vm_kernel, allocs <- vm_allocs,
  pc <- vm_pc, op <- vm_op, reported <- vm_reported, mixed <- vm_mixed,
  orphans <- vm_orphans
Modules == INSTANCE DllRegistry WITH
  MODULES <- dll_MODULES, image <- dll_image, stack <- dll_stack,
  lookup <- dll_lookup, zombie <- dll_zombie, leaked <- dll_leaked,
  raced <- dll_raced
Keys == INSTANCE Registry WITH
  keys <- reg_keys, handles <- reg_handles, next <- reg_next, pc <- reg_pc,
  call <- reg_call, answer <- reg_answer, log <- reg_log

handleVars ==
  <<ht_objects, ht_next, ht_kernel, ht_opens, ht_pc, ht_h, ht_fd, ht_file,
    ht_io>>
tlsVars ==
  <<tls_in_use, tls_locked, tls_values, tls_pc, tls_index, tls_guest,
    tls_allocs, tls_wrote, tls_left, tls_exits>>
memoryVars ==
  <<vm_regions, vm_kernel, vm_allocs, vm_pc, vm_op, vm_reported, vm_mixed, vm_orphans>>
moduleVars ==
  <<dll_MODULES, dll_image, dll_stack, dll_lookup, dll_zombie, dll_leaked, dll_raced>>
keyVars ==
  <<reg_keys, reg_handles, reg_next, reg_pc, reg_call, reg_answer, reg_log>>
tableVars == <<handleVars, tlsVars, memoryVars, moduleVars, keyVars>>

TablesInit ==
  Handles!Init /\ Storage!Init /\ Memory!Init /\ Modules!Init /\ Keys!Init

HandlesNext ==
  Handles!Next /\ UNCHANGED <<tlsVars, memoryVars, moduleVars, keyVars>>
StorageNext ==
  Storage!Next /\ UNCHANGED <<handleVars, memoryVars, moduleVars, keyVars>>
MemoryNext ==
  Memory!Next /\ UNCHANGED <<handleVars, tlsVars, moduleVars, keyVars>>
ModulesNext ==
  Modules!Next /\ UNCHANGED <<handleVars, tlsVars, memoryVars, keyVars>>
KeysNext ==
  Keys!Next /\ UNCHANGED <<handleVars, tlsVars, memoryVars, moduleVars>>

TablesNext ==
  HandlesNext \/ StorageNext \/ MemoryNext \/ ModulesNext \/ KeysNext

\* The process with all its tables in use at once.
TablesSpec == TablesInit /\ [][TablesNext]_tableVars

-----------------------------------------------------------------------------
(* The properties, stated in the tables' modules. *)

\* Handles: an open descriptor has one owner, a handle or a call in progress,
\* and none leaks; reads and writes reach the file the guest named, though the
\* descriptor is resolved under the lock and used after it (handle.rs).
FilesReached ==
  Handles!TypeOK /\ Handles!DescriptorsOwnedOnce /\ Handles!IoReachesItsFile

\* Thread-local storage: a thread reads what threads of its id stored under the
\* same allocation of the index, whoever frees and allocates meanwhile (thread.rs).
ReadsOwnValue == Storage!TypeOK /\ Storage!ReadsOwnValue

\* Virtual memory: the table of regions and the kernel's mappings agree, whatever
\* the interleaving, and VirtualQuery and VirtualProtect report the protections
\* the kernel has (memory.rs).
RegionsMatchKernel ==
  Memory!TypeOK /\ Memory!RegionsMatchMappings /\ Memory!ProtectionsReported

\* Modules: a path is on the list once unless its loads overlapped, whatever may
\* still read an image finds it mapped, and only a failed bind leaves one behind
\* (dllmod.rs).
ModulesSound ==
  /\ Modules!TypeOK
  /\ Modules!LoadedOnce /\ Modules!ModulesMapped /\ Modules!OnlyBindFailuresLeak

\* Registry: whatever two threads do between a call's two locks, calls answer as
\* if each were executed whole (registry.rs).
AnswersInOrder == Keys!TypeOK /\ Keys!AnswersInOrder
=============================================================================
