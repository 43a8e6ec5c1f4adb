----------------------------- MODULE VirtualMemory -----------------------------
(***************************************************************************)
(* VirtualAlloc, VirtualFree, VirtualProtect and VirtualQuery              *)
(* (ntapi/src/memory.rs): a table of regions, guarded by a lock, kept      *)
(* beside the kernel's page mappings, which the code changes with mmap,    *)
(* mprotect and munmap outside that lock.  A system call is one step, a    *)
(* table access is one step.  The kernel places a mapping at any free run  *)
(* of pages.                                                               *)
(*                                                                         *)
(* In Spec the guest releases the regions it was given and protects them   *)
(* or parts of them, from several threads at once, but releases none that  *)
(* a call is at work on; DecommitSpec lets it decommit too.                *)
(***************************************************************************)
EXTENDS ProcessParameters

Page == 0 .. (PageCount - 1)
Run(base, n) == base .. (base + n - 1)

Prot == SUBSET {"R", "W", "X"}
WinPage == {"PAGE_NOACCESS", "PAGE_READONLY", "PAGE_READWRITE",
            "PAGE_EXECUTE", "PAGE_EXECUTE_READ", "PAGE_EXECUTE_READWRITE"}

\* A page that is not mapped, and one mapped for allocation id.
Unmapped == [id |-> 0, prot |-> {}]
Mapped(id, p) == [id |-> id, prot |-> p]

VARIABLES
  regions,   \* the table: base -> [id, size, prot]; id is history
  kernel,    \* kernel[page]: what is mapped there
  allocs,    \* history: mmap calls made for VirtualAlloc
  pc,        \* where each thread is
  op,        \* op[t]: the call t is in: base, size, prot, id, and the old prot
  reported,  \* history: the old protection t's VirtualProtect reports, and the true one
  mixed,     \* history: regions protected in part, or by two calls at once, and
             \* not as a whole by one call since
  orphans    \* history: allocations whose munmap failed after the table, or the
             \* call that made them, had given them up

vars == <<regions, kernel, allocs, pc, op, reported, mixed, orphans>>

NoOp == [base |-> 0, size |-> 0, prot |-> {}, id |-> 0, old |-> {}, was |-> {}]
NoReport == [win |-> "none", was |-> {}]

Init ==
  /\ regions = [b \in {} |-> [id |-> 0, size |-> 0, prot |-> {}]]
  /\ kernel = [p \in Page |-> Unmapped]
  /\ allocs = 0
  /\ pc = [t \in Thread |-> "idle"]
  /\ op = [t \in Thread |-> NoOp]
  /\ reported = [t \in Thread |-> NoReport]
  /\ mixed = {} /\ orphans = {}

Goto(t, l, o) ==
  /\ pc' = [pc EXCEPT ![t] = l]
  /\ op' = [op EXCEPT ![t] = o]

Return(t) == Goto(t, "idle", NoOp)

-----------------------------------------------------------------------------
(* Protection flags *)

win_prot_to_linux(prot) ==
  (IF prot \in {"PAGE_READWRITE", "PAGE_EXECUTE_READWRITE"} THEN {"R", "W"} ELSE {})
    \cup (IF prot \in {"PAGE_READONLY", "PAGE_EXECUTE_READ"} THEN {"R"} ELSE {})
    \cup (IF prot \in {"PAGE_EXECUTE", "PAGE_EXECUTE_READ", "PAGE_EXECUTE_READWRITE"}
            THEN {"X"} ELSE {})

linux_prot_to_win(p) ==
  CASE p = {}              -> "PAGE_NOACCESS"
    [] p = {"R"}           -> "PAGE_READONLY"
    [] p = {"R", "W"}      -> "PAGE_READWRITE"
    [] p = {"R", "X"}      -> "PAGE_EXECUTE_READ"
    [] p = {"R", "W", "X"} -> "PAGE_EXECUTE_READWRITE"
    [] p = {"X"}           -> "PAGE_EXECUTE"
    [] OTHER               -> "PAGE_READWRITE"

-----------------------------------------------------------------------------
(* The kernel's side *)

Map(pages, id, p) ==
  kernel' = [x \in Page |-> IF x \in pages THEN Mapped(id, p) ELSE kernel[x]]
Unmap(pages) ==
  kernel' = [x \in Page |-> IF x \in pages THEN Unmapped ELSE kernel[x]]
Protect(pages, p) ==
  kernel' = [x \in Page |-> IF x \in pages THEN [kernel[x] EXCEPT !.prot = p]
                                           ELSE kernel[x]]
FreeRun(pages) == pages \subseteq Page /\ \A x \in pages : kernel[x].id = 0

-----------------------------------------------------------------------------
(* virtual_alloc: mmap, mprotect, insert *)

AllocMap(t) ==
  /\ pc[t] = "idle"
  /\ allocs < MaxRegions
  /\ \E base \in Page, n \in 1 .. MaxPages, w \in WinProt :
       /\ FreeRun(Run(base, n))
       /\ Map(Run(base, n), allocs + 1, {"R", "W"})
       /\ Goto(t, IF win_prot_to_linux(w) # {"R", "W"} THEN "alloc_protect" ELSE "alloc_insert",
               [NoOp EXCEPT !.base = base, !.size = n,
                            !.prot = win_prot_to_linux(w), !.id = allocs + 1])
  /\ allocs' = allocs + 1
  /\ UNCHANGED <<regions, reported, mixed, orphans>>

OpPages(t) == Run(op[t].base, op[t].size)

\* munmap of what the call has: when it fails the mapping stays.
GiveBack(t) ==
  \/ Unmap(OpPages(t)) /\ UNCHANGED orphans
  \/ UNCHANGED kernel /\ orphans' = orphans \cup {op[t].id}

AllocProtect(t) ==
  /\ pc[t] = "alloc_protect"
  /\ Protect(OpPages(t), op[t].prot)
  /\ Goto(t, "alloc_insert", op[t])
  /\ UNCHANGED <<regions, allocs, reported, mixed, orphans>>

\* A mutated form: a failed mprotect leaves the mapping behind.
AllocProtectFailed_Leak(t) ==
  /\ pc[t] = "alloc_protect"
  /\ Return(t)
  /\ UNCHANGED <<regions, kernel, allocs, reported, mixed, orphans>>

\* mprotect failed: the mapping is given back and NULL returned.
AllocProtectFailed(t) ==
  /\ pc[t] = "alloc_protect"
  /\ GiveBack(t)
  /\ Return(t)
  /\ UNCHANGED <<regions, allocs, reported, mixed>>

AllocInsert(t) ==
  /\ pc[t] = "alloc_insert"
  /\ regions' = [b \in DOMAIN regions \cup {op[t].base} |->
                   IF b = op[t].base
                     THEN [id |-> op[t].id, size |-> op[t].size, prot |-> op[t].prot]
                     ELSE regions[b]]
  /\ Return(t)
  /\ UNCHANGED <<kernel, allocs, reported, mixed, orphans>>

-----------------------------------------------------------------------------
(* virtual_free(MEM_RELEASE): remove, munmap *)

\* A call is at work on the region.
Busy(b) ==
  \E t \in Thread : pc[t] # "idle" /\ OpPages(t) \cap Run(b, regions[b].size) # {}

Forget(b) == regions' = [x \in DOMAIN regions \ {b} |-> regions[x]]

ReleaseRemove(t, b) ==
  /\ pc[t] = "idle"
  /\ b \in DOMAIN regions /\ ~Busy(b)
  /\ Forget(b)
  /\ Goto(t, "release_unmap",
          [NoOp EXCEPT !.base = b, !.size = regions[b].size, !.id = regions[b].id])
  /\ UNCHANGED <<kernel, allocs, reported, mixed, orphans>>

\* FALSE when munmap fails; the table has forgotten the region all the same.
ReleaseUnmap(t) ==
  /\ pc[t] = "release_unmap"
  /\ GiveBack(t)
  /\ Return(t)
  /\ UNCHANGED <<regions, allocs, reported, mixed>>

-----------------------------------------------------------------------------
(* virtual_free(MEM_DECOMMIT): munmap, then mmap(MAP_FIXED, PROT_NONE) *)

virtual_decommit(t, b) ==
  /\ pc[t] = "idle"
  /\ b \in DOMAIN regions /\ ~Busy(b)
  /\ Goto(t, "decommit_unmap",
          [NoOp EXCEPT !.base = b, !.size = regions[b].size, !.id = regions[b].id])
  /\ UNCHANGED <<regions, kernel, allocs, reported, mixed, orphans>>

DecommitUnmap(t) ==
  /\ pc[t] = "decommit_unmap"
  /\ Unmap(OpPages(t))
  /\ Goto(t, "decommit_map", op[t])
  /\ UNCHANGED <<regions, allocs, reported, mixed, orphans>>

\* MAP_FIXED replaces whatever is mapped there by now.
DecommitMap(t) ==
  /\ pc[t] = "decommit_map"
  /\ Map(OpPages(t), op[t].id, {})
  /\ Return(t)
  /\ UNCHANGED <<regions, allocs, reported, mixed, orphans>>

\* FALSE: the region is as it was, or has been unmapped and stays in the table.
DecommitFailed(t) ==
  /\ pc[t] \in {"decommit_unmap", "decommit_map"}
  /\ Return(t)
  /\ UNCHANGED <<regions, kernel, allocs, reported, mixed, orphans>>

-----------------------------------------------------------------------------
(* virtual_protect: read the old protection, mprotect, update the table *)

\* The region that contains a page: the last base not above it, if it reaches.
containing(p) ==
  {b \in DOMAIN regions : b <= p /\ p < b + regions[b].size
                            /\ \A c \in DOMAIN regions : c <= p => c <= b}

Protecting(t) == pc[t] \in {"protect", "protect_update"}
\* Another call is protecting the region at b.
ProtectedByOthers(t, b) ==
  \E u \in Thread \ {t} : Protecting(u) /\ op[u].base \in Run(b, regions[b].size)

\* Any run of pages of the region at b, with any protection; other calls may be
\* protecting pages of it, but none decommits it.
virtual_protect(t, b) ==
  /\ pc[t] = "idle"
  /\ b \in DOMAIN regions /\ (Busy(b) => ProtectedByOthers(t, b))
  /\ \E base \in Run(b, regions[b].size), w \in WinProt :
       \E n \in 1 .. (b + regions[b].size - base) :
         Goto(t, "protect",
              [NoOp EXCEPT !.base = base, !.size = n, !.prot = win_prot_to_linux(w),
                 !.old = regions[CHOOSE c \in containing(base) : TRUE].prot,
                 !.was = kernel[base].prot])
  /\ mixed' = IF ProtectedByOthers(t, b) THEN mixed \cup {regions[b].id} ELSE mixed
  /\ UNCHANGED <<regions, kernel, allocs, reported, orphans>>

\* mprotect, and the old protection is copied out.  (A region of mixed
\* protections has no one old protection: what is reported then is not recorded.)
ProtectPages(t) ==
  LET b == CHOOSE c \in containing(op[t].base) : TRUE
      r == regions[b]
  IN
  /\ pc[t] = "protect"
  /\ Protect(OpPages(t), op[t].prot)
  /\ Goto(t, "protect_update", [op[t] EXCEPT !.old = {}, !.was = {}])
  /\ reported' = [reported EXCEPT ![t] =
                    IF r.id \in mixed THEN NoReport
                    ELSE [win |-> linux_prot_to_win(op[t].old), was |-> op[t].was]]
  /\ mixed' = IF op[t].size = r.size /\ ~ProtectedByOthers(t, b)
              THEN mixed \ {r.id} ELSE mixed \cup {r.id}
  /\ UNCHANGED <<regions, allocs, orphans>>

\* mprotect failed: FALSE, and nothing has changed.
ProtectFailed(t) ==
  /\ pc[t] = "protect"
  /\ Return(t)
  /\ UNCHANGED <<regions, kernel, allocs, reported, mixed, orphans>>

\* Only a region that starts at the protected page is updated, as a whole.
ProtectUpdate(t) ==
  /\ pc[t] = "protect_update"
  /\ regions' = [b \in DOMAIN regions |->
                   IF b = op[t].base THEN [regions[b] EXCEPT !.prot = op[t].prot]
                                     ELSE regions[b]]
  /\ Return(t)
  /\ reported' = [reported EXCEPT ![t] = NoReport]
  /\ UNCHANGED <<kernel, allocs, mixed, orphans>>

-----------------------------------------------------------------------------
(* virtual_query: what is reported for a page *)

virtual_query(p) ==
  {[base |-> b, size |-> regions[b].size, protect |-> linux_prot_to_win(regions[b].prot)] :
     b \in containing(p)}

-----------------------------------------------------------------------------

Next ==
  \E t \in Thread :
    \/ AllocMap(t) \/ AllocProtect(t) \/ AllocProtectFailed(t) \/ AllocInsert(t)
    \/ \E b \in Page : ReleaseRemove(t, b) \/ virtual_protect(t, b)
    \/ ReleaseUnmap(t)
    \/ ProtectPages(t) \/ ProtectFailed(t) \/ ProtectUpdate(t)

Spec == Init /\ [][Next]_vars

DecommitSpec ==
  Init /\ [][Next \/ \E t \in Thread :
                       \/ DecommitUnmap(t) \/ DecommitMap(t) \/ DecommitFailed(t)
                       \/ \E b \in Page : virtual_decommit(t, b)]_vars

-----------------------------------------------------------------------------
(* Properties *)

TypeOK ==
  /\ DOMAIN regions \subseteq Page
  /\ \A b \in DOMAIN regions :
       regions[b] \in [id : Nat, size : 1 .. MaxPages, prot : Prot]
  /\ kernel \in [Page -> [id : Nat, prot : Prot]]
  /\ allocs \in Nat
  /\ pc \in [Thread -> {"idle", "alloc_protect", "alloc_insert", "release_unmap",
                        "decommit_unmap", "decommit_map", "protect", "protect_update"}]
  /\ op \in [Thread -> [base : Nat, size : Nat, prot : Prot, id : Nat, old : Prot, was : Prot]]
  /\ reported \in [Thread -> [win : {"none"} \cup WinPage, was : Prot]]

\* "the address range stays reserved": nobody else's mapping is ever placed
\* inside a region of the table.
RegionsAreReserved ==
  \A b \in DOMAIN regions : \A p \in Run(b, regions[b].size) :
    kernel[p].id \in {0, regions[b].id}

\* The table and the kernel agree, however the calls interleave (none releases a
\* region another is at work on) and whichever munmap or mprotect fails.  Every
\* region in the table is mapped with its own pages: no other call's mapping or
\* unmapping reaches into it.  Every mapped page belongs to a region in the
\* table, to a call that is still allocating or releasing it, or to an
\* allocation whose own munmap failed: no other path leaks a mapping.
RegionsMatchMappings ==
  /\ \A b \in DOMAIN regions : \A p \in Run(b, regions[b].size) :
       kernel[p].id = regions[b].id /\ regions[b].id \notin orphans
  /\ \A p \in Page : kernel[p].id # 0 =>
       \/ \E b \in DOMAIN regions : regions[b].id = kernel[p].id
       \/ \E t \in Thread : pc[t] # "idle" /\ op[t].id = kernel[p].id
       \/ kernel[p].id \in orphans

\* The guest is told the protections the kernel has.  VirtualQuery tells the
\* truth about every page of a region nobody is in the middle of changing (the
\* table has one protection for a region, so a region protected in part, or by
\* two calls at once, is out of its reach until one call protects it as a
\* whole); and a guest that restores the old protection VirtualProtect reported
\* for any other region gets back what the pages had.
ProtectionsReported ==
  /\ \A b \in DOMAIN regions : ~Busy(b) /\ regions[b].id \notin mixed =>
       \A p \in Run(b, regions[b].size) : \E q \in virtual_query(p) :
         /\ q.base = b
         /\ win_prot_to_linux(q.protect) = kernel[p].prot
  /\ \A t \in Thread : reported[t].win # "none" =>
       win_prot_to_linux(reported[t].win) = reported[t].was

-----------------------------------------------------------------------------
(* Why RegionsMatchKernel holds, as an inductive invariant.  Every allocation *)
(* has an id of its own, kept by its region or by the call that is making or  *)
(* releasing it, and its pages are exactly the ones the kernel maps for it.   *)
(* A call that protects is inside one region, alone unless the region is      *)
(* mixed.  The table's protection is the kernel's, except while a whole       *)
(* region waits for its update.                                               *)

Pages(b) == Run(b, regions[b].size)
Owning(t) == pc[t] \in {"alloc_protect", "alloc_insert", "release_unmap"}
\* The region at b is the one t protects.
Inside(t, b) == Protecting(t) /\ op[t].base \in Pages(b)
\* What VirtualAlloc and VirtualProtect can ask the kernel for.
Representable == {win_prot_to_linux(w) : w \in WinPage}

IdsApart ==
  /\ \A b \in DOMAIN regions : regions[b].id \in 1 .. allocs
  /\ \A t \in Thread : Owning(t) => op[t].id \in 1 .. allocs
  /\ \A b, c \in DOMAIN regions : regions[b].id = regions[c].id => b = c
  /\ \A t, u \in Thread : Owning(t) /\ Owning(u) /\ op[t].id = op[u].id => t = u
  /\ \A b \in DOMAIN regions, t \in Thread : Owning(t) => regions[b].id # op[t].id
  /\ orphans \subseteq 1 .. allocs
  /\ \A b \in DOMAIN regions : regions[b].id \notin orphans
  /\ \A t \in Thread : Owning(t) => op[t].id \notin orphans
OwnPagesMapped ==
  /\ \A b \in DOMAIN regions : \A p \in Pages(b) : p \in Page /\ kernel[p].id = regions[b].id
  /\ \A t \in Thread : Owning(t) =>
       \A p \in OpPages(t) : p \in Page /\ kernel[p].id = op[t].id
MappedPagesOwned ==
  \A p \in Page : kernel[p].id # 0 =>
    \/ \E b \in DOMAIN regions : p \in Pages(b)
    \/ \E t \in Thread : Owning(t) /\ p \in OpPages(t)
    \/ kernel[p].id \in orphans
OpsInPlace ==
  /\ \A t \in Thread : pc[t] = "idle" \/ Owning(t) \/ Protecting(t)
  /\ \A t \in Thread : Owning(t) => op[t].base \in Page /\ op[t].size \in 1 .. MaxPages
  /\ \A t \in Thread : Protecting(t) =>
       /\ op[t].size > 0
       /\ \E b \in DOMAIN regions : OpPages(t) \subseteq Pages(b)
  /\ \A t, u \in Thread, b \in DOMAIN regions :
       Inside(t, b) /\ Inside(u, b) /\ regions[b].id \notin mixed => t = u
ProtectionsKnown ==
  /\ \A b \in DOMAIN regions : regions[b].prot \in Representable
  /\ \A t \in Thread : pc[t] # "idle" => op[t].prot \in Representable /\ op[t].old \in Representable
  /\ \A t \in Thread : pc[t] = "alloc_insert" => \A p \in OpPages(t) : kernel[p].prot = op[t].prot
Settled ==
  \A b \in DOMAIN regions :
    /\ regions[b].id \notin mixed
    /\ \A t \in Thread : pc[t] = "protect_update" => ~Inside(t, b)
    => \A p \in Pages(b) : kernel[p].prot = regions[b].prot
UpdatesWhole ==
  \A t \in Thread, b \in DOMAIN regions :
    pc[t] = "protect_update" /\ Inside(t, b) /\ regions[b].id \notin mixed =>
      op[t].base = b /\ \A p \in Pages(b) : kernel[p].prot = op[t].prot
OldIsTrue ==
  \A t \in Thread, b \in DOMAIN regions :
    pc[t] = "protect" /\ Inside(t, b) /\ regions[b].id \notin mixed => op[t].old = op[t].was
ReportsTrue ==
  \A t \in Thread : reported[t].win # "none" =>
    win_prot_to_linux(reported[t].win) = reported[t].was
MemoryInv ==
  /\ TypeOK
  /\ IdsApart
  /\ OwnPagesMapped
  /\ MappedPagesOwned
  /\ OpsInPlace
  /\ ProtectionsKnown
  /\ Settled
  /\ UpdatesWhole
  /\ OldIsTrue
  /\ ReportsTrue
=============================================================================
