------------------------------ MODULE DllRegistry ------------------------------
(***************************************************************************)
(* The process module list and the calls that use it: LoadLibrary with its *)
(* search path (win32-kernel32/src/dllload.rs), load_dll_ex, FreeLibrary   *)
(* and GetProcAddress (pe-loader/src/dllmod.rs).                           *)
(*                                                                         *)
(* The list is guarded by a lock, taken for each lookup, push and removal  *)
(* by itself: a load looks the path up, and much later, after DllMain has  *)
(* run, registers the module.  DllMain is guest code: it may call back     *)
(* into LoadLibrary, so a thread has a stack of loads in progress.         *)
(*                                                                         *)
(* Nothing keeps two loads of one path apart; raced remembers the paths    *)
(* this happened to.                                                       *)
(***************************************************************************)
EXTENDS ProcessParameters, Sequences, SequencesExt

CONSTANTS
  Path,          \* canonical DLL paths
  Name,          \* what a guest passes to LoadLibrary
  Candidates,    \* Candidates[n]: the paths the search order tries for n
  Base,          \* addresses the kernel can map an image at
  NoBase,        \* no address
  MaxNesting     \* bound: loads in progress on one thread

VARIABLES
  MODULES,   \* the list: [base, path, initialized]
  image,     \* image[b]: the path mapped at b, "none" when nothing is
  stack,     \* stack[t]: the loads in progress on t, the innermost last
  lookup,    \* lookup[t]: the module a GetProcAddress on t holds, NoBase if none
  zombie,    \* modules off the list that a GetProcAddress keeps alive
  leaked,    \* history: bases that a failed bind left mapped
  raced      \* history: paths two loads of which were in progress at once

vars == <<MODULES, image, stack, lookup, zombie, leaked, raced>>

Init ==
  /\ MODULES = <<>>
  /\ image = [b \in Base |-> "none"]
  /\ stack = [t \in Thread |-> <<>>]
  /\ lookup = [t \in Thread |-> NoBase]
  /\ zombie = {}
  /\ leaked = {}
  /\ raced = {}

Loaded == {MODULES[i].base : i \in DOMAIN MODULES}

Top(t) == Last(stack[t])
SetTop(t, f) == stack' = [stack EXCEPT ![t] = Append(Front(@), f)]
Pop(t) == stack' = [stack EXCEPT ![t] = Front(@)]

InFlight(p) ==
  \E t \in Thread : \E i \in DOMAIN stack[t] :
    stack[t][i].path = p /\ stack[t][i].stage # "search"

\* Guest code of t is running: no call in progress, or inside a DllMain.
GuestRuns(t) ==
  /\ lookup[t] = NoBase
  /\ stack[t] # <<>> => Top(t).stage = "dll_main"

-----------------------------------------------------------------------------
(* LoadLibrary: load_with_search tries one candidate path after the other *)

LoadLibrary(t, n, run) ==
  /\ GuestRuns(t)
  /\ Len(stack[t]) < MaxNesting
  /\ stack' = [stack EXCEPT ![t] =
       Append(@, [rest |-> Candidates[n], path |-> "none", run |-> run,
                  base |-> NoBase, stage |-> "search"])]
  /\ UNCHANGED <<MODULES, image, lookup, zombie, leaked, raced>>

\* This candidate failed: go on with the next one.
TryNext(t) ==
  SetTop(t, [Top(t) EXCEPT !.path = "none", !.base = NoBase, !.stage = "search"])

NotFound(t) ==
  /\ stack[t] # <<>> /\ Top(t).stage = "search" /\ Top(t).rest = <<>>
  /\ Pop(t)
  /\ UNCHANGED <<MODULES, image, lookup, zombie, leaked, raced>>

-----------------------------------------------------------------------------
(* load_dll_ex *)

\* The file is loaded already: the load returns the module on the list.
AlreadyLoaded(t) ==
  /\ stack[t] # <<>> /\ Top(t).stage = "search" /\ Top(t).rest # <<>>
  /\ \E i \in DOMAIN MODULES : MODULES[i].path = Head(Top(t).rest)
  /\ Pop(t)
  /\ UNCHANGED <<MODULES, image, lookup, zombie, leaked, raced>>

LookupMiss(t) ==
  /\ stack[t] # <<>> /\ Top(t).stage = "search" /\ Top(t).rest # <<>>
  /\ \A i \in DOMAIN MODULES : MODULES[i].path # Head(Top(t).rest)
  /\ SetTop(t, [Top(t) EXCEPT !.path = Head(Top(t).rest), !.rest = Tail(@),
                              !.stage = "read"])
  /\ raced' = IF InFlight(Head(Top(t).rest)) THEN raced \cup {Head(Top(t).rest)} ELSE raced
  /\ UNCHANGED <<MODULES, image, lookup, zombie, leaked>>

\* The file cannot be read, is not a PE image or not a DLL.
ReadFailed(t) ==
  /\ stack[t] # <<>> /\ Top(t).stage = "read"
  /\ TryNext(t)
  /\ UNCHANGED <<MODULES, image, lookup, zombie, leaked, raced>>

\* map_image_anywhere.
MapImage(t) ==
  /\ stack[t] # <<>> /\ Top(t).stage = "read"
  /\ \E b \in Base :
       /\ image[b] = "none"
       /\ image' = [image EXCEPT ![b] = Top(t).path]
       /\ SetTop(t, [Top(t) EXCEPT !.base = b, !.stage = "bind"])
  /\ UNCHANGED <<MODULES, lookup, zombie, leaked, raced>>

\* Relocations, thunk arena, stack or entry point: an error after the image is
\* mapped returns with `?`, and nothing unmaps it.
BindFailed(t) ==
  /\ stack[t] # <<>> /\ Top(t).stage = "bind"
  /\ leaked' = leaked \cup {Top(t).base}
  /\ TryNext(t)
  /\ UNCHANGED <<MODULES, image, lookup, zombie, raced>>

BindImports(t) ==
  /\ stack[t] # <<>> /\ Top(t).stage = "bind"
  /\ SetTop(t, [Top(t) EXCEPT !.stage = IF Top(t).run THEN "dll_main" ELSE "register"])
  /\ UNCHANGED <<MODULES, image, lookup, zombie, leaked, raced>>

\* DllMain(DLL_PROCESS_ATTACH) returned TRUE.
DllMainTrue(t) ==
  /\ stack[t] # <<>> /\ Top(t).stage = "dll_main"
  /\ lookup[t] = NoBase
  /\ SetTop(t, [Top(t) EXCEPT !.stage = "register"])
  /\ UNCHANGED <<MODULES, image, lookup, zombie, leaked, raced>>

\* DllMain returned FALSE: unmap, fail.
DllMainFalse(t) ==
  /\ stack[t] # <<>> /\ Top(t).stage = "dll_main"
  /\ lookup[t] = NoBase
  /\ image' = [image EXCEPT ![Top(t).base] = "none"]
  /\ TryNext(t)
  /\ UNCHANGED <<MODULES, lookup, zombie, leaked, raced>>

Register(t) ==
  /\ stack[t] # <<>> /\ Top(t).stage = "register"
  /\ MODULES' = Append(MODULES, [base |-> Top(t).base, path |-> Top(t).path,
                                 initialized |-> Top(t).run])
  /\ Pop(t)
  /\ UNCHANGED <<image, lookup, zombie, leaked, raced>>

-----------------------------------------------------------------------------
(* free_library, get_proc_address *)

Position(b) == CHOOSE i \in DOMAIN MODULES : MODULES[i].base = b

\* A mutated form: the image is unmapped whoever still uses the module.
FreeLibrary_Eager(t, b) ==
  /\ GuestRuns(t)
  /\ b \in Loaded
  /\ MODULES' = RemoveAt(MODULES, Position(b))
  /\ image' = [image EXCEPT ![b] = "none"]
  /\ UNCHANGED <<stack, lookup, zombie, leaked, raced>>

\* The module leaves the list; the last reference to it unmaps the image.
FreeLibrary(t, b) ==
  /\ GuestRuns(t)
  /\ b \in Loaded
  /\ MODULES' = RemoveAt(MODULES, Position(b))
  /\ IF \E u \in Thread : lookup[u] = b
       THEN zombie' = zombie \cup {b} /\ UNCHANGED image
       ELSE image' = [image EXCEPT ![b] = "none"] /\ UNCHANGED zombie
  /\ UNCHANGED <<stack, lookup, leaked, raced>>

\* GetProcAddress: find_by_handle takes a reference, the export table and the
\* mapped image are read, the reference is given back.
GetProcAddress(t, b) ==
  /\ GuestRuns(t)
  /\ b \in Loaded
  /\ lookup' = [lookup EXCEPT ![t] = b]
  /\ UNCHANGED <<MODULES, image, stack, zombie, leaked, raced>>

LookupDone(t) ==
  /\ lookup[t] # NoBase
  /\ lookup' = [lookup EXCEPT ![t] = NoBase]
  /\ IF lookup[t] \in zombie /\ \A u \in Thread \ {t} : lookup[u] # lookup[t]
       THEN /\ image' = [image EXCEPT ![lookup[t]] = "none"]
            /\ zombie' = zombie \ {lookup[t]}
       ELSE UNCHANGED <<image, zombie>>
  /\ UNCHANGED <<MODULES, stack, leaked, raced>>

-----------------------------------------------------------------------------

LoadStep(t) ==
  \/ NotFound(t) \/ AlreadyLoaded(t) \/ LookupMiss(t) \/ ReadFailed(t)
  \/ MapImage(t) \/ BindFailed(t) \/ BindImports(t)
  \/ DllMainTrue(t) \/ DllMainFalse(t) \/ Register(t) \/ LookupDone(t)

GuestStep(t) ==
  \/ \E n \in Name, run \in BOOLEAN : LoadLibrary(t, n, run)
  \/ \E b \in Base : FreeLibrary(t, b) \/ GetProcAddress(t, b)

Next == \E t \in Thread : LoadStep(t) \/ GuestStep(t)

Spec == Init /\ [][Next]_vars

-----------------------------------------------------------------------------
(* Properties *)

LoadedModule == [base : Base, path : Path, initialized : BOOLEAN]
Stages == {"search", "read", "bind", "dll_main", "register"}
Frame == [rest : Seq(Path), path : Path \cup {"none"}, run : BOOLEAN,
          base : Base \cup {NoBase}, stage : Stages]

TypeOK ==
  /\ MODULES \in Seq(LoadedModule)
  /\ image \in [Base -> Path \cup {"none"}]
  /\ stack \in [Thread -> Seq(Frame)]
  /\ lookup \in [Thread -> Base \cup {NoBase}]
  /\ zombie \subseteq Base
  /\ leaked \subseteq Base
  /\ raced \subseteq Path

\* "Loading is idempotent: loading an already-loaded path returns the existing
\* module handle": a path is on the list once, whatever was freed and loaded
\* again, under whichever name, inside whichever DllMain; unless two loads of
\* the path overlapped, which the look-up cannot see.
LoadedOnce ==
  \A i, j \in DOMAIN MODULES :
    i # j /\ MODULES[i].path = MODULES[j].path => MODULES[i].path \in raced

\* Every module on the list, in a lookup or past its mapping in a load has its
\* own image mapped at its base, through failures, unloads and reuse of
\* addresses, and no two of them share a base: GetProcAddress reads a mapped
\* image even when another thread frees the library at the same time.
ModulesMapped ==
  /\ \A m \in ToSet(MODULES) : image[m.base] = m.path
  /\ \A i, j \in DOMAIN MODULES : MODULES[i].base = MODULES[j].base => i = j
  /\ \A t \in Thread : \A i \in DOMAIN stack[t] :
       stack[t][i].base # NoBase => /\ image[stack[t][i].base] = stack[t][i].path
                                    /\ stack[t][i].base \notin Loaded
  /\ \A t \in Thread : lookup[t] # NoBase => image[lookup[t]] # "none"

\* A mapped image belongs to a module on the list, to one that a lookup keeps
\* alive or to a load in progress; all that is left behind are the images of
\* loads whose bind failed.  No DllMain failure, no unload and no unload racing
\* a lookup leaks one.
OnlyBindFailuresLeak ==
  \A b \in Base : image[b] # "none" =>
    \/ b \in Loaded \cup leaked
    \/ \E t \in Thread : lookup[t] = b
    \/ \E t \in Thread : \E i \in DOMAIN stack[t] : stack[t][i].base = b

-----------------------------------------------------------------------------
(* Why the three hold, as an inductive invariant.  A base has one owner: a    *)
(* module on the list, a load in progress, the lookups that keep a removed    *)
(* module alive, or the failed bind that left it.  A path that was not raced  *)
(* is in one load or in one module.                                           *)

\* A load has a path once it has looked one up, and a base while it is mapped.
Shaped(f) ==
  /\ f.base # NoBase <=> f.stage \in {"bind", "dll_main", "register"}
  /\ f.path # "none" <=> f.stage # "search"
FramesShaped == \A t \in Thread : \A i \in DOMAIN stack[t] : Shaped(stack[t][i])
BasesApart ==
  /\ Loaded \cap zombie = {} /\ Loaded \cap leaked = {} /\ zombie \cap leaked = {}
  /\ \A i, j \in DOMAIN MODULES : MODULES[i].base = MODULES[j].base => i = j
  /\ \A t \in Thread : \A i \in DOMAIN stack[t] :
       stack[t][i].base \notin Loaded \cup zombie \cup leaked
  /\ \A t, u \in Thread : \A i \in DOMAIN stack[t], j \in DOMAIN stack[u] :
       stack[t][i].base = stack[u][j].base /\ stack[t][i].base # NoBase => t = u /\ i = j
ImagesInPlace ==
  /\ \A i \in DOMAIN MODULES : image[MODULES[i].base] = MODULES[i].path
  /\ \A t \in Thread : \A i \in DOMAIN stack[t] :
       stack[t][i].base # NoBase => image[stack[t][i].base] = stack[t][i].path
  /\ \A b \in zombie \cup leaked : image[b] # "none"
LookupsHeld ==
  /\ \A t \in Thread : lookup[t] # NoBase => lookup[t] \in Loaded \cup zombie
  /\ \A b \in zombie : \E t \in Thread : lookup[t] = b
LoadsApart ==
  /\ \A t, u \in Thread : \A i \in DOMAIN stack[t], j \in DOMAIN stack[u] :
       /\ stack[t][i].stage # "search" /\ stack[u][j].stage # "search"
       /\ stack[t][i].path = stack[u][j].path
       => (t = u /\ i = j) \/ stack[t][i].path \in raced
  /\ \A t \in Thread : \A i \in DOMAIN stack[t], k \in DOMAIN MODULES :
       stack[t][i].stage # "search" /\ stack[t][i].path = MODULES[k].path
         => stack[t][i].path \in raced
ModulesInv ==
  /\ TypeOK
  /\ FramesShaped
  /\ BasesApart
  /\ ImagesInPlace
  /\ LookupsHeld
  /\ OnlyBindFailuresLeak
  /\ LoadsApart
  /\ LoadedOnce
=============================================================================
