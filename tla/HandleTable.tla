------------------------------ MODULE HandleTable ------------------------------
(***************************************************************************)
(* The process-global handle table (ntapi/src/handle.rs) over the kernel's *)
(* file descriptor table, and the calls that go through it: opening,       *)
(* closing, reading and writing files (ntapi/src/process.rs), creating     *)
(* synchronization objects and resolving handles to them.                  *)
(*                                                                         *)
(* The table is guarded by a lock, so one table access is one step; the    *)
(* system calls happen outside the lock, each as a step of its own.  The   *)
(* kernel hands out the lowest free descriptor.                            *)
(*                                                                         *)
(* The guest keeps to one rule in Spec: it does not close a handle while   *)
(* another of its threads is reading or writing through it.                *)
(***************************************************************************)
EXTENDS ProcessParameters

Fd == 3 .. MaxFd
FirstHandle == 10                   \* 0x0001_0000 in the code
Handle == FirstHandle .. (FirstHandle + MaxHandle - 1)
NextHandle == FirstHandle .. (FirstHandle + MaxHandle)
PseudoHandle == {0, 1, 2, -1, -2}   \* stdio, current process, current thread
NoFd == -1
NoHandle == 9                       \* a value no table entry and no call uses

VARIABLES
  objects,   \* the table: a function from open handles to objects
  next,      \* the handle the next object gets
  kernel,    \* kernel[fd]: 0 when closed, else the number of the open(2) call
  opens,     \* history: how many open(2) calls there were
  pc,        \* where each thread is
  h,         \* h[t]: the handle t's call is about
  fd,        \* fd[t]: the descriptor t's call carries
  file,      \* history: file[hd], the open(2) call handle hd was made for
  io         \* history: io[t] = <<handle, open(2) call>> t's last read or write reached

vars == <<objects, next, kernel, opens, pc, h, fd, file, io>>

Sync == [kind |-> "sync", fd |-> NoFd]        \* an event, mutex, semaphore...
FileObject(f) == [kind |-> "file", fd |-> f]

FreeFds == {f \in Fd : kernel[f] = 0}
FileOf(f) == IF f \in Fd THEN kernel[f] ELSE 0

Init ==
  /\ objects = [x \in {} |-> Sync]
  /\ next = FirstHandle
  /\ kernel = [f \in Fd |-> 0]
  /\ opens = 0
  /\ pc = [t \in Thread |-> "idle"]
  /\ h = [t \in Thread |-> NoHandle]
  /\ fd = [t \in Thread |-> NoFd]
  /\ file = [x \in Handle |-> 0]
  /\ io = [t \in Thread |-> <<NoHandle, 0>>]

Goto(t, l, hd, f) ==
  /\ pc' = [pc EXCEPT ![t] = l]
  /\ h' = [h EXCEPT ![t] = hd]
  /\ fd' = [fd EXCEPT ![t] = f]

Return(t) == Goto(t, "idle", NoHandle, NoFd)

-----------------------------------------------------------------------------
(* The table *)

\* create: the object gets the next handle, a number never used before.
create(obj) ==
  /\ next \in Handle
  /\ objects' = [x \in DOMAIN objects \cup {next} |->
                   IF x = next THEN obj ELSE objects[x]]
  /\ next' = next + 1

\* remove, the table side of close.
remove(hd) == objects' = [x \in DOMAIN objects \ {hd} |-> objects[x]]

\* with_object(handle, |o| o.fd) for a file, resolve_fd: stdio passes through,
\* anything that is not a file is -1.
resolve_fd(hd) ==
  IF hd \in {0, 1, 2} THEN hd
  ELSE IF hd \in DOMAIN objects THEN objects[hd].fd ELSE NoFd

-----------------------------------------------------------------------------
(* open_file_handle: open(2), then create *)

OpenFd(t) ==
  /\ pc[t] = "idle"
  /\ next + Cardinality({u \in Thread : pc[u] = "create"}) \in Handle
  /\ \E f \in FreeFds :
       /\ \A g \in FreeFds : f <= g
       /\ kernel' = [kernel EXCEPT ![f] = opens + 1]
       /\ Goto(t, "create", NoHandle, f)
  /\ opens' = opens + 1
  /\ UNCHANGED <<objects, next, file, io>>

CreateFile(t) ==
  /\ pc[t] = "create"
  /\ create(FileObject(fd[t]))
  /\ file' = [file EXCEPT ![next] = FileOf(fd[t])]
  /\ Return(t)
  /\ UNCHANGED <<kernel, opens, io>>

\* CreateEventW, CreateMutexW, CreateSemaphoreW, CreateThread.
CreateSync(t) ==
  /\ pc[t] = "idle"
  /\ create(Sync)
  /\ UNCHANGED <<kernel, opens, pc, h, fd, file, io>>

-----------------------------------------------------------------------------
(* close: pseudo-handles are left alone, a handle that is not in the table is
   refused, an object is removed under the lock and dropped after it *)

InUse(hd) == \E t \in Thread : pc[t] = "io" /\ h[t] = hd

\* A mutated form: the object is looked up and dropped, and the entry stays.
close_KeepEntry(t, hd) ==
  /\ pc[t] = "idle"
  /\ ~InUse(hd)
  /\ hd \in DOMAIN objects
  /\ objects' = objects
  /\ IF objects[hd].kind = "file"
       THEN Goto(t, "drop", hd, objects[hd].fd)
       ELSE UNCHANGED <<pc, h, fd>>
  /\ UNCHANGED <<next, kernel, opens, file, io>>

close(t, hd) ==
  /\ pc[t] = "idle"
  /\ ~InUse(hd)
  /\ hd \in DOMAIN objects
  /\ remove(hd)
  /\ IF objects[hd].kind = "file"
       THEN Goto(t, "drop", hd, objects[hd].fd)
       ELSE UNCHANGED <<pc, h, fd>>
  /\ UNCHANGED <<next, kernel, opens, file, io>>

\* Drop of a FileObject: close(2), harmless when the descriptor is closed.
Drop(t) ==
  /\ pc[t] = "drop"
  /\ kernel' = [kernel EXCEPT ![fd[t]] = 0]
  /\ Return(t)
  /\ UNCHANGED <<objects, next, opens, file, io>>

-----------------------------------------------------------------------------
(* read_file, write_file: resolve the handle, then the system call *)

StartIo(t, hd) ==
  /\ pc[t] = "idle"
  /\ resolve_fd(hd) \in Fd
  /\ Goto(t, "io", hd, resolve_fd(hd))
  /\ UNCHANGED <<objects, next, kernel, opens, file, io>>

\* The system call reaches whatever the descriptor names now.
DoIo(t) ==
  /\ pc[t] = "io"
  /\ io' = [io EXCEPT ![t] = <<h[t], FileOf(fd[t])>>]
  /\ Return(t)
  /\ UNCHANGED <<objects, next, kernel, opens, file>>

-----------------------------------------------------------------------------
(* SetEvent, WaitForSingleObject, GetThreadId...: with_object(clone_ref)    *)
(* copies the object out of the table.  For a synchronization object the    *)
(* copy is one more reference.  For a file it is a second FileObject with   *)
(* the same descriptor, dropped when the call finds it is the wrong kind.   *)

CallOnFileHandle(t, hd) ==
  /\ pc[t] = "idle"
  /\ hd \in DOMAIN objects
  /\ objects[hd].kind = "file"
  /\ Goto(t, "drop", hd, objects[hd].fd)
  /\ UNCHANGED <<objects, next, kernel, opens, file, io>>

-----------------------------------------------------------------------------

Next ==
  \E t \in Thread :
    \/ OpenFd(t) \/ CreateFile(t) \/ CreateSync(t) \/ Drop(t) \/ DoIo(t)
    \/ \E hd \in Handle : close(t, hd) \/ StartIo(t, hd)

Spec == Init /\ [][Next]_vars

\* A guest that passes a file handle to a synchronization call: on Windows the
\* call fails (or waits for the file) and the file stays open.
AnyHandleSpec ==
  Init /\ [][Next \/ \E t \in Thread, hd \in Handle : CallOnFileHandle(t, hd)]_vars

-----------------------------------------------------------------------------
(* Properties *)

TypeOK ==
  /\ DOMAIN objects \subseteq Handle
  /\ \A x \in DOMAIN objects : objects[x] \in {Sync} \cup {FileObject(f) : f \in Fd}
  /\ next \in NextHandle
  /\ kernel \in [Fd -> Nat]
  /\ opens \in Nat
  /\ pc \in [Thread -> {"idle", "create", "drop", "io"}]
  /\ h \in [Thread -> Handle \cup {NoHandle}]
  /\ fd \in [Thread -> Fd \cup {NoFd}]
  /\ file \in [Handle -> Nat]
  /\ io \in [Thread -> (Handle \cup {NoHandle}) \X Nat]

OpenFiles == {x \in DOMAIN objects : objects[x].kind = "file"}

\* Every open descriptor belongs to exactly one handle or one call in
\* progress: none is shared, none leaks when threads open and close at once.
Carries(t) == pc[t] \in {"create", "drop"}
FdOwners(f) ==
  {<<"handle", x>> : x \in {y \in OpenFiles : objects[y].fd = f}}
    \cup {<<"call", t>> : t \in {u \in Thread : Carries(u) /\ fd[u] = f}}
DescriptorsOwnedOnce ==
  \A f \in Fd :
    IF kernel[f] = 0 THEN FdOwners(f) = {}
                     ELSE \E o \in FdOwners(f) : FdOwners(f) = {o}

\* Data goes to the file the guest named, though the descriptor is resolved
\* under the lock and used after it.
IoReachesItsFile ==
  \A t \in Thread : io[t][1] \in Handle => io[t][2] = file[io[t][1]]

\* "Closing an invalid fd is a no-op error, so a double-close is harmless": the
\* descriptor a FileObject closes is its own, or closed already.
DoubleCloseHarmless ==
  \A t \in Thread : pc[t] = "drop" => kernel[fd[t]] \in {0, file[h[t]]}

-----------------------------------------------------------------------------
(* Why FilesReached holds, as an inductive invariant.  Handles are given out  *)
(* in order; the descriptor of an open file handle names the file the handle  *)
(* was made for; no two handles and calls have one descriptor, and each open  *)
(* descriptor has one of them; a read or write in progress keeps its handle.  *)

HandlesInOrder ==
  /\ \A x \in DOMAIN objects : x < next
  /\ \A t \in Thread : io[t][1] \in Handle => io[t][1] < next
FilesOpen ==
  /\ \A x \in OpenFiles : kernel[objects[x].fd] = file[x] /\ file[x] # 0
  /\ \A t \in Thread : Carries(t) => fd[t] \in Fd /\ kernel[fd[t]] # 0
OwnersApart ==
  /\ \A x, y \in OpenFiles : objects[x].fd = objects[y].fd => x = y
  /\ \A t, u \in Thread : Carries(t) /\ Carries(u) /\ fd[t] = fd[u] => t = u
  /\ \A x \in OpenFiles, t \in Thread : Carries(t) => objects[x].fd # fd[t]
NoneLeaks ==
  \A f \in Fd : kernel[f] # 0 =>
    \/ \E x \in OpenFiles : objects[x].fd = f
    \/ \E t \in Thread : Carries(t) /\ fd[t] = f
IoKeepsHandle ==
  \A t \in Thread : pc[t] = "io" => h[t] \in OpenFiles /\ objects[h[t]].fd = fd[t]
HandleInv ==
  /\ TypeOK
  /\ HandlesInOrder
  /\ FilesOpen
  /\ OwnersApart
  /\ NoneLeaks
  /\ IoKeepsHandle
  /\ IoReachesItsFile
=============================================================================
