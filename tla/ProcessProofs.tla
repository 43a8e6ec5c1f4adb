---------------------------- MODULE ProcessProofs ----------------------------
(***************************************************************************)
(* Proofs about a process.  Its tables, for every set of threads and any   *)
(* size of the tables: thread-local storage, the handle table, virtual     *)
(* memory, the module list and the registry.  The load of its PE image,    *)
(* for every image a linker makes and every base the kernel may choose:    *)
(* page protections and addresses.                                         *)
(***************************************************************************)
EXTENDS PeImage, ProcessTables, SequenceTheorems, FiniteSetTheorems, TLAPS

-----------------------------------------------------------------------------
(* Thread-local storage *)

\* Where a scan of the slots may stand: at a slot, after the last, or nowhere.
LEMMA IndexRange ==
  /\ Storage!NoSlot \in Storage!Index /\ 0 \in Storage!Index
  /\ \A s \in Storage!Slot : s \in Storage!Index /\ s + 1 \in Storage!Index /\ s + 1 >= 0
  /\ \A i \in Storage!Index : i >= 0 /\ i < SlotCount => i \in Storage!Slot
BY SlotCountAssumption DEF Storage!Index, Storage!Slot, Storage!NoSlot

\* An empty array of slots satisfies the invariant.
LEMMA InitTlsInv == Storage!Init => Storage!TlsInv
BY IndexRange
   DEF Storage!Init, Storage!TlsInv, Storage!TypeOK, Storage!GuestSlotsInUse,
       Storage!LockedNotInUse, Storage!ClearersApart, Storage!ScansInRange,
       Storage!FreeIsEmpty, Storage!ReadsOwnValue, Storage!tls_get_value, Storage!Empty

\* Every step of the slots preserves the invariant.
LEMMA NextTlsInv == Storage!TlsInv /\ [Storage!Next]_tlsVars => Storage!TlsInv'
<1> SUFFICES ASSUME Storage!TlsInv, [Storage!Next]_tlsVars PROVE Storage!TlsInv'
  OBVIOUS
<1> USE IndexRange
<1> USE DEF Storage!TlsInv, Storage!TypeOK
<1>1. ASSUME NEW t \in Thread, Storage!tls_alloc(t) PROVE Storage!TlsInv'
  <2> USE <1>1 DEF Storage!tls_alloc
  <2>1. Storage!TypeOK'
    OBVIOUS
  <2>2. Storage!GuestSlotsInUse' /\ Storage!LockedNotInUse'
    BY DEF Storage!GuestSlotsInUse, Storage!LockedNotInUse, Storage!ClearersApart
  <2>3. Storage!ClearersApart' /\ Storage!ScansInRange'
    BY DEF Storage!ClearersApart, Storage!ScansInRange
  <2>4. Storage!FreeIsEmpty'
    BY DEF Storage!FreeIsEmpty
  <2>5. Storage!ReadsOwnValue'
    BY DEF Storage!ReadsOwnValue, Storage!tls_get_value
  <2> QED
    BY <2>1, <2>2, <2>3, <2>4, <2>5
<1>2. ASSUME NEW t \in Thread, Storage!AllocSlot(t) PROVE Storage!TlsInv'
  <2> tls_index[t] \in Storage!Slot
    BY <1>2 DEF Storage!AllocSlot, Storage!ScansInRange
  <2> USE <1>2 DEF Storage!AllocSlot
  <2>1. Storage!TypeOK'
    OBVIOUS
  <2>2. Storage!GuestSlotsInUse' /\ Storage!LockedNotInUse'
    BY DEF Storage!GuestSlotsInUse, Storage!LockedNotInUse, Storage!ClearersApart
  <2>3. Storage!ClearersApart' /\ Storage!ScansInRange'
    BY DEF Storage!ClearersApart, Storage!ScansInRange
  <2>4. Storage!FreeIsEmpty'
    BY DEF Storage!FreeIsEmpty
  <2>5. Storage!ReadsOwnValue'
    BY DEF Storage!ReadsOwnValue, Storage!FreeIsEmpty, Storage!tls_get_value
  <2> QED
    BY <2>1, <2>2, <2>3, <2>4, <2>5
<1>3. ASSUME NEW t \in Thread, Storage!AllocNext(t) PROVE Storage!TlsInv'
  <2> tls_index[t] \in Storage!Slot
    BY <1>3 DEF Storage!AllocNext, Storage!ScansInRange
  <2> USE <1>3 DEF Storage!AllocNext
  <2>1. Storage!TypeOK'
    OBVIOUS
  <2>2. Storage!GuestSlotsInUse' /\ Storage!LockedNotInUse'
    BY DEF Storage!GuestSlotsInUse, Storage!LockedNotInUse, Storage!ClearersApart
  <2>3. Storage!ClearersApart' /\ Storage!ScansInRange'
    BY DEF Storage!ClearersApart, Storage!ScansInRange
  <2>4. Storage!FreeIsEmpty'
    BY DEF Storage!FreeIsEmpty
  <2>5. Storage!ReadsOwnValue'
    BY DEF Storage!ReadsOwnValue, Storage!tls_get_value
  <2> QED
    BY <2>1, <2>2, <2>3, <2>4, <2>5
<1>4. ASSUME NEW t \in Thread, Storage!AllocFailed(t) PROVE Storage!TlsInv'
  <2> USE <1>4 DEF Storage!AllocFailed
  <2>1. Storage!TypeOK'
    OBVIOUS
  <2>2. Storage!GuestSlotsInUse' /\ Storage!LockedNotInUse'
    BY DEF Storage!GuestSlotsInUse, Storage!LockedNotInUse, Storage!ClearersApart
  <2>3. Storage!ClearersApart' /\ Storage!ScansInRange'
    BY DEF Storage!ClearersApart, Storage!ScansInRange
  <2>4. Storage!FreeIsEmpty'
    BY DEF Storage!FreeIsEmpty
  <2>5. Storage!ReadsOwnValue'
    BY DEF Storage!ReadsOwnValue, Storage!tls_get_value
  <2> QED
    BY <2>1, <2>2, <2>3, <2>4, <2>5
<1>5. ASSUME NEW t \in Thread, Storage!FreeClear(t) PROVE Storage!TlsInv'
  <2> tls_index[t] \in Storage!Slot /\ tls_guest[tls_index[t]] = 0
    BY <1>5 DEF Storage!FreeClear, Storage!ClearersApart, Storage!LockedNotInUse,
                Storage!GuestSlotsInUse
  <2> USE <1>5 DEF Storage!FreeClear
  <2>1. Storage!TypeOK'
    OBVIOUS
  <2>2. Storage!GuestSlotsInUse' /\ Storage!LockedNotInUse'
    BY DEF Storage!GuestSlotsInUse, Storage!LockedNotInUse, Storage!ClearersApart
  <2>3. Storage!ClearersApart' /\ Storage!ScansInRange'
    BY DEF Storage!ClearersApart, Storage!ScansInRange
  <2>4. Storage!FreeIsEmpty'
    BY DEF Storage!FreeIsEmpty
  <2>5. Storage!ReadsOwnValue'
    BY DEF Storage!ReadsOwnValue, Storage!tls_get_value
  <2> QED
    BY <2>1, <2>2, <2>3, <2>4, <2>5
<1>6. ASSUME NEW t \in Thread, Storage!ThreadReplaced(t) PROVE Storage!TlsInv'
  <2> USE <1>6 DEF Storage!ThreadReplaced
  <2>1. Storage!TypeOK'
    OBVIOUS
  <2>2. Storage!GuestSlotsInUse' /\ Storage!LockedNotInUse'
    BY DEF Storage!GuestSlotsInUse, Storage!LockedNotInUse, Storage!ClearersApart
  <2>3. Storage!ClearersApart' /\ Storage!ScansInRange'
    BY DEF Storage!ClearersApart, Storage!ScansInRange
  <2>4. Storage!FreeIsEmpty'
    BY DEF Storage!FreeIsEmpty
  <2>5. Storage!ReadsOwnValue'
    BY DEF Storage!ReadsOwnValue, Storage!tls_get_value
  <2> QED
    BY <2>1, <2>2, <2>3, <2>4, <2>5
<1>7. ASSUME NEW t \in Thread, NEW s \in Storage!Slot, Storage!tls_free(t, s)
      PROVE  Storage!TlsInv'
  <2> USE <1>7 DEF Storage!tls_free
  <2>1. Storage!TypeOK'
    OBVIOUS
  <2>2. Storage!GuestSlotsInUse' /\ Storage!LockedNotInUse'
    BY DEF Storage!GuestSlotsInUse, Storage!LockedNotInUse, Storage!ClearersApart
  <2>3. Storage!ClearersApart' /\ Storage!ScansInRange'
    BY DEF Storage!ClearersApart, Storage!ScansInRange
  <2>4. Storage!FreeIsEmpty'
    BY DEF Storage!FreeIsEmpty
  <2>5. Storage!ReadsOwnValue'
    BY DEF Storage!ReadsOwnValue, Storage!tls_get_value
  <2> QED
    BY <2>1, <2>2, <2>3, <2>4, <2>5
<1>8. ASSUME NEW t \in Thread, NEW s \in Storage!Slot, Storage!tls_set_value(t, s)
      PROVE  Storage!TlsInv'
  <2> USE <1>8 DEF Storage!tls_set_value
  <2>1. Storage!TypeOK'
    OBVIOUS
  <2>2. Storage!GuestSlotsInUse' /\ Storage!LockedNotInUse'
    BY DEF Storage!GuestSlotsInUse, Storage!LockedNotInUse, Storage!ClearersApart
  <2>3. Storage!ClearersApart' /\ Storage!ScansInRange'
    BY DEF Storage!ClearersApart, Storage!ScansInRange
  <2>4. Storage!FreeIsEmpty'
    BY DEF Storage!FreeIsEmpty, Storage!GuestSlotsInUse
  <2>5. Storage!ReadsOwnValue'
    BY DEF Storage!ReadsOwnValue, Storage!tls_get_value
  <2> QED
    BY <2>1, <2>2, <2>3, <2>4, <2>5
<1>9. CASE UNCHANGED tlsVars
  BY <1>9 DEF tlsVars, Storage!GuestSlotsInUse, Storage!LockedNotInUse,
              Storage!ClearersApart, Storage!ScansInRange, Storage!FreeIsEmpty,
              Storage!ReadsOwnValue, Storage!tls_get_value, Storage!GuestSlotsInUse, Storage!LockedNotInUse,
              Storage!ClearersApart, Storage!ScansInRange, Storage!FreeIsEmpty,
              Storage!ReadsOwnValue, Storage!tls_get_value
<1> QED
  BY <1>1, <1>2, <1>3, <1>4, <1>5, <1>6, <1>7, <1>8, <1>9 DEF Storage!Next

\* A step of the process is a step of the slots or leaves them alone.
LEMMA TlsSteps == [TablesNext]_tableVars => [Storage!Next]_tlsVars
BY DEF TablesNext, HandlesNext, StorageNext, MemoryNext, ModulesNext, KeysNext,
       tableVars, tlsVars

\* A thread reads from an index what it stored there since the index was
\* allocated, or what a thread of its id left; never what an earlier owner of
\* the slot or another thread stored.
THEOREM TlsReadsOwnValue == TablesSpec => []ReadsOwnValue
<1>1. TablesInit => Storage!TlsInv
  BY InitTlsInv DEF TablesInit
<1>2. Storage!TlsInv => ReadsOwnValue
  BY DEF Storage!TlsInv, ReadsOwnValue
<1> QED
  BY <1>1, <1>2, NextTlsInv, TlsSteps, PTL DEF TablesSpec

-----------------------------------------------------------------------------
(* The handle table *)

\* The numbers that are handles and descriptors, and those that are not.
LEMMA HandleRange ==
  /\ Handles!NoHandle \notin Handles!Handle
  /\ Handles!NoFd \notin Handles!Fd
  /\ \A x \in Handles!Handle : x \in Int /\ x \notin {0, 1, 2}
  /\ Handles!FirstHandle \in Handles!NextHandle
  /\ \A x \in Handles!NextHandle : x \in Int /\ (x \in Handles!Handle => x + 1 \in Handles!NextHandle)
BY HandleAssumption
   DEF Handles!Handle, Handles!NextHandle, Handles!FirstHandle, Handles!NoHandle,
       Handles!NoFd, Handles!Fd

\* An entry of an open file has a descriptor.
LEMMA FileEntries ==
  ASSUME Handles!HandleInv, NEW x \in Handles!OpenFiles
  PROVE  x \in Handles!Handle /\ ht_objects[x].fd \in Handles!Fd
BY DEF Handles!HandleInv, Handles!TypeOK, Handles!OpenFiles, Handles!Sync, Handles!FileObject

\* create adds one entry, under a handle that was never used.
LEMMA CreateAdds ==
  ASSUME Handles!HandleInv, NEW obj, Handles!create(obj)
  PROVE  /\ ht_next \in Handles!Handle /\ ht_next \notin DOMAIN ht_objects
         /\ ht_next' = ht_next + 1 /\ ht_next' \in Handles!NextHandle
         /\ DOMAIN ht_objects' = DOMAIN ht_objects \cup {ht_next}
         /\ ht_objects'[ht_next] = obj
         /\ \A x \in DOMAIN ht_objects : ht_objects'[x] = ht_objects[x]
<1> USE HandleRange DEF Handles!HandleInv, Handles!TypeOK, Handles!create
<1>1. ht_next \notin DOMAIN ht_objects
  BY DEF Handles!HandlesInOrder
<1> QED
  BY <1>1

\* An empty table satisfies the invariant.
LEMMA InitHandleInv == Handles!Init => Handles!HandleInv
<1> SUFFICES ASSUME Handles!Init PROVE Handles!HandleInv
  OBVIOUS
<1> USE HandleRange DEF Handles!Init
<1>1. Handles!TypeOK
  BY DEF Handles!TypeOK
<1>2. Handles!OpenFiles = {} /\ \A t \in Thread : ~Handles!Carries(t)
  BY DEF Handles!OpenFiles, Handles!Carries
<1>3. Handles!HandlesInOrder /\ Handles!IoKeepsHandle /\ Handles!IoReachesItsFile
  BY DEF Handles!HandlesInOrder, Handles!IoKeepsHandle, Handles!IoReachesItsFile
<1>4. Handles!FilesOpen /\ Handles!OwnersApart /\ Handles!NoneLeaks
  BY <1>2 DEF Handles!FilesOpen, Handles!OwnersApart, Handles!NoneLeaks
<1> QED
  BY <1>1, <1>3, <1>4 DEF Handles!HandleInv

\* Every step of the handle table preserves the invariant.
LEMMA NextHandleInv == Handles!HandleInv /\ [Handles!Next]_handleVars => Handles!HandleInv'
<1> SUFFICES ASSUME Handles!HandleInv, [Handles!Next]_handleVars PROVE Handles!HandleInv'
  OBVIOUS
<1> USE HandleRange
<1> USE DEF Handles!HandleInv, Handles!Goto, Handles!Return
<1>1. ASSUME NEW t \in Thread, Handles!OpenFd(t) PROVE Handles!HandleInv'
  <2>1. PICK f \in Handles!Fd :
          /\ ht_kernel[f] = 0
          /\ ht_kernel' = [ht_kernel EXCEPT ![f] = ht_opens + 1]
          /\ Handles!Goto(t, "create", Handles!NoHandle, f)
    BY <1>1 DEF Handles!OpenFd, Handles!FreeFds
  <2>2. UNCHANGED <<ht_objects, ht_next, ht_file, ht_io>> /\ ht_pc[t] = "idle"
        /\ ht_opens' = ht_opens + 1
    BY <1>1 DEF Handles!OpenFd
  <2>3. Handles!TypeOK'
    BY <2>1, <2>2 DEF Handles!TypeOK
  <2>4. /\ Handles!OpenFiles' = Handles!OpenFiles
        /\ \A x \in Handles!OpenFiles : ht_objects[x].fd \in Handles!Fd \ {f}
    BY <2>1, <2>2, FileEntries DEF Handles!OpenFiles, Handles!FilesOpen
  <2>5. Handles!Carries(t)' /\ ht_fd'[t] = f /\ ~Handles!Carries(t) /\ ht_pc'[t] = "create"
    BY <2>1, <2>2 DEF Handles!TypeOK, Handles!Carries
  <2>6. \A u \in Thread \ {t} :
          /\ ht_pc'[u] = ht_pc[u] /\ ht_h'[u] = ht_h[u] /\ ht_fd'[u] = ht_fd[u]
          /\ Handles!Carries(u)' = Handles!Carries(u)
    BY <2>1 DEF Handles!TypeOK, Handles!Carries
  <2>7. \A u \in Thread : Handles!Carries(u) => ht_fd[u] \in Handles!Fd \ {f}
    BY <2>1 DEF Handles!FilesOpen
  <2>8. /\ ht_kernel'[f] # 0
        /\ \A g \in Handles!Fd \ {f} : ht_kernel'[g] = ht_kernel[g]
    BY <2>1 DEF Handles!TypeOK
  <2>9. Handles!FilesOpen'
    BY <2>2, <2>4, <2>5, <2>6, <2>7, <2>8 DEF Handles!FilesOpen
  <2>10. Handles!OwnersApart'
    BY <2>2, <2>4, <2>5, <2>6, <2>7 DEF Handles!OwnersApart
  <2>11. Handles!NoneLeaks'
    <3> SUFFICES ASSUME NEW g \in Handles!Fd, ht_kernel'[g] # 0
                 PROVE  \/ \E x \in Handles!OpenFiles : ht_objects[x].fd = g
                        \/ \E u \in Thread : Handles!Carries(u)' /\ ht_fd'[u] = g
      BY <2>2, <2>4 DEF Handles!NoneLeaks, Handles!Carries
    <3>1. CASE g = f
      BY <2>5, <3>1
    <3>2. CASE g # f
      BY <2>5, <2>6, <2>8, <3>2 DEF Handles!NoneLeaks
    <3> QED
      BY <3>1, <3>2
  <2>12. Handles!HandlesInOrder' /\ Handles!IoKeepsHandle' /\ Handles!IoReachesItsFile'
    BY <2>2, <2>4, <2>5, <2>6
       DEF Handles!HandlesInOrder, Handles!IoKeepsHandle, Handles!IoReachesItsFile
  <2> QED
    BY <2>3, <2>9, <2>10, <2>11, <2>12
<1>2. ASSUME NEW t \in Thread, Handles!CreateFile(t) PROVE Handles!HandleInv'
  <2> DEFINE n == ht_next
             f == ht_fd[t]
  <2>1. /\ ht_pc[t] = "create" /\ Handles!Return(t) /\ UNCHANGED <<ht_kernel, ht_opens, ht_io>>
        /\ Handles!create(Handles!FileObject(f))
        /\ ht_file' = [ht_file EXCEPT ![n] = Handles!FileOf(f)]
    BY <1>2 DEF Handles!CreateFile
  <2>2. /\ n \in Handles!Handle /\ n \notin DOMAIN ht_objects
        /\ ht_next' = n + 1 /\ ht_next' \in Handles!NextHandle
        /\ DOMAIN ht_objects' = DOMAIN ht_objects \cup {n}
        /\ ht_objects'[n] = Handles!FileObject(f)
        /\ \A x \in DOMAIN ht_objects : ht_objects'[x] = ht_objects[x]
    BY <2>1, CreateAdds
  <2>3. Handles!Carries(t) /\ f \in Handles!Fd /\ ht_kernel[f] # 0
    BY <2>1 DEF Handles!Carries, Handles!FilesOpen
  <2> HIDE DEF n, f
  <2>4. Handles!TypeOK'
    BY <2>1, <2>2, <2>3 DEF Handles!TypeOK, Handles!FileOf, f
  <2>5. /\ n \notin Handles!OpenFiles /\ Handles!OpenFiles' = Handles!OpenFiles \cup {n}
        /\ ht_objects'[n].fd = f
        /\ \A x \in Handles!OpenFiles : ht_objects'[x] = ht_objects[x]
    BY <2>2 DEF Handles!OpenFiles, Handles!FileObject
  <2>6. /\ ht_file'[n] = ht_kernel[f]
        /\ \A x \in Handles!Handle \ {n} : ht_file'[x] = ht_file[x]
    BY <2>1, <2>2, <2>3 DEF Handles!TypeOK, Handles!FileOf
  <2>7. ~Handles!Carries(t)' /\ ht_pc'[t] = "idle"
    BY <2>1 DEF Handles!TypeOK, Handles!Carries
  <2>8. \A u \in Thread \ {t} :
          /\ ht_pc'[u] = ht_pc[u] /\ ht_h'[u] = ht_h[u] /\ ht_fd'[u] = ht_fd[u]
          /\ Handles!Carries(u)' = Handles!Carries(u)
    BY <2>1 DEF Handles!TypeOK, Handles!Carries
  <2>9. \A x \in Handles!OpenFiles : x \in Handles!Handle \ {n} /\ ht_objects[x].fd # f
    BY <2>3, <2>5, FileEntries DEF Handles!OwnersApart, f
  <2>10. \A u \in Thread \ {t} : Handles!Carries(u) => ht_fd[u] # f
    BY <2>3 DEF Handles!OwnersApart, f
  <2>11. Handles!FilesOpen'
    BY <2>1, <2>3, <2>5, <2>6, <2>7, <2>8, <2>9 DEF Handles!FilesOpen
  <2>12. Handles!OwnersApart'
    BY <2>5, <2>7, <2>8, <2>9, <2>10 DEF Handles!OwnersApart
  <2>13. Handles!NoneLeaks'
    BY <2>1, <2>5, <2>7, <2>8 DEF Handles!NoneLeaks, f
  <2>14. Handles!HandlesInOrder'
    <3>1. \A x \in DOMAIN ht_objects : x \in Int /\ x < n
      BY DEF Handles!HandlesInOrder, Handles!TypeOK, n
    <3>2. \A u \in Thread : ht_io[u][1] \in Handles!Handle => ht_io[u][1] \in Int /\ ht_io[u][1] < n
      BY DEF Handles!HandlesInOrder, n
    <3> QED
      BY <2>1, <2>2, <3>1, <3>2 DEF Handles!HandlesInOrder
  <2>15. Handles!IoKeepsHandle'
    BY <2>5, <2>7, <2>8 DEF Handles!IoKeepsHandle
  <2>16. Handles!IoReachesItsFile'
    BY <2>1, <2>2, <2>6 DEF Handles!IoReachesItsFile, Handles!HandlesInOrder, n
  <2> QED
    BY <2>4, <2>11, <2>12, <2>13, <2>14, <2>15, <2>16
<1>3. ASSUME NEW t \in Thread, Handles!CreateSync(t) PROVE Handles!HandleInv'
  <2>1. /\ UNCHANGED <<ht_kernel, ht_opens, ht_pc, ht_h, ht_fd, ht_file, ht_io>>
        /\ Handles!create(Handles!Sync)
    BY <1>3 DEF Handles!CreateSync
  <2>2. /\ ht_next \in Handles!Handle /\ ht_next \notin DOMAIN ht_objects
        /\ ht_next' = ht_next + 1 /\ ht_next' \in Handles!NextHandle
        /\ DOMAIN ht_objects' = DOMAIN ht_objects \cup {ht_next}
        /\ ht_objects'[ht_next] = Handles!Sync
        /\ \A x \in DOMAIN ht_objects : ht_objects'[x] = ht_objects[x]
    BY <2>1, CreateAdds
  <2>3. Handles!TypeOK'
    BY <2>1, <2>2 DEF Handles!TypeOK
  <2>4. /\ Handles!OpenFiles' = Handles!OpenFiles
        /\ \A x \in Handles!OpenFiles : ht_objects'[x] = ht_objects[x]
        /\ \A u \in Thread : Handles!Carries(u)' = Handles!Carries(u)
    BY <2>1, <2>2 DEF Handles!OpenFiles, Handles!Sync, Handles!Carries
  <2>5. Handles!FilesOpen' /\ Handles!OwnersApart'
    BY <2>1, <2>4 DEF Handles!FilesOpen, Handles!OwnersApart
  <2>6. Handles!NoneLeaks' /\ Handles!IoKeepsHandle' /\ Handles!IoReachesItsFile'
    BY <2>1, <2>4 DEF Handles!NoneLeaks, Handles!IoKeepsHandle, Handles!IoReachesItsFile
  <2>7. Handles!HandlesInOrder'
    <3>1. \A x \in DOMAIN ht_objects : x \in Int /\ x < ht_next
      BY DEF Handles!HandlesInOrder, Handles!TypeOK
    <3>2. \A u \in Thread : ht_io[u][1] \in Handles!Handle
                              => ht_io[u][1] \in Int /\ ht_io[u][1] < ht_next
      BY DEF Handles!HandlesInOrder
    <3> QED
      BY <2>1, <2>2, <3>1, <3>2 DEF Handles!HandlesInOrder
  <2> QED
    BY <2>3, <2>5, <2>6, <2>7
<1>4. ASSUME NEW t \in Thread, Handles!Drop(t) PROVE Handles!HandleInv'
  <2> DEFINE f == ht_fd[t]
  <2>1. /\ ht_pc[t] = "drop" /\ Handles!Return(t)
        /\ ht_kernel' = [ht_kernel EXCEPT ![f] = 0]
        /\ UNCHANGED <<ht_objects, ht_next, ht_opens, ht_file, ht_io>>
    BY <1>4 DEF Handles!Drop
  <2>2. Handles!Carries(t) /\ f \in Handles!Fd
    BY <2>1 DEF Handles!Carries, Handles!FilesOpen
  <2> HIDE DEF f
  <2>3. Handles!TypeOK'
    BY <2>1, <2>2 DEF Handles!TypeOK
  <2>4. /\ Handles!OpenFiles' = Handles!OpenFiles
        /\ \A x \in Handles!OpenFiles : ht_objects[x].fd \in Handles!Fd \ {f}
    BY <2>1, <2>2, FileEntries DEF Handles!OpenFiles, Handles!OwnersApart, f
  <2>5. ~Handles!Carries(t)' /\ ht_pc'[t] = "idle"
    BY <2>1 DEF Handles!TypeOK, Handles!Carries
  <2>6. \A u \in Thread \ {t} :
          /\ ht_pc'[u] = ht_pc[u] /\ ht_h'[u] = ht_h[u] /\ ht_fd'[u] = ht_fd[u]
          /\ Handles!Carries(u)' = Handles!Carries(u)
    BY <2>1 DEF Handles!TypeOK, Handles!Carries
  <2>7. \A u \in Thread \ {t} : Handles!Carries(u) => ht_fd[u] \in Handles!Fd \ {f}
    BY <2>2 DEF Handles!OwnersApart, Handles!FilesOpen, f
  <2>8. /\ ht_kernel'[f] = 0
        /\ \A g \in Handles!Fd \ {f} : ht_kernel'[g] = ht_kernel[g]
    BY <2>1, <2>2 DEF Handles!TypeOK
  <2>9. Handles!FilesOpen' /\ Handles!OwnersApart'
    BY <2>1, <2>4, <2>5, <2>6, <2>7, <2>8 DEF Handles!FilesOpen, Handles!OwnersApart
  <2>10. Handles!NoneLeaks'
    BY <2>1, <2>4, <2>5, <2>6, <2>8 DEF Handles!NoneLeaks, f
  <2>11. Handles!HandlesInOrder' /\ Handles!IoKeepsHandle' /\ Handles!IoReachesItsFile'
    BY <2>1, <2>4, <2>5, <2>6
       DEF Handles!HandlesInOrder, Handles!IoKeepsHandle, Handles!IoReachesItsFile
  <2> QED
    BY <2>3, <2>9, <2>10, <2>11
<1>5. ASSUME NEW t \in Thread, Handles!DoIo(t) PROVE Handles!HandleInv'
  <2>1. /\ ht_pc[t] = "io" /\ Handles!Return(t)
        /\ ht_io' = [ht_io EXCEPT ![t] = <<ht_h[t], Handles!FileOf(ht_fd[t])>>]
        /\ UNCHANGED <<ht_objects, ht_next, ht_kernel, ht_opens, ht_file>>
    BY <1>5 DEF Handles!DoIo
  <2>2. /\ ht_h[t] \in Handles!OpenFiles /\ ht_h[t] \in Handles!Handle
        /\ ht_objects[ht_h[t]].fd = ht_fd[t] /\ ht_fd[t] \in Handles!Fd
    BY <2>1, FileEntries DEF Handles!IoKeepsHandle
  <2>3. Handles!FileOf(ht_fd[t]) = ht_file[ht_h[t]] /\ ht_file[ht_h[t]] \in Nat
    BY <2>2 DEF Handles!FileOf, Handles!FilesOpen, Handles!TypeOK
  <2>4. Handles!TypeOK'
    BY <2>1, <2>2, <2>3 DEF Handles!TypeOK
  <2>5. Handles!OpenFiles' = Handles!OpenFiles
    BY <2>1 DEF Handles!OpenFiles
  <2>6. ~Handles!Carries(t) /\ ~Handles!Carries(t)' /\ ht_pc'[t] = "idle"
    BY <2>1 DEF Handles!TypeOK, Handles!Carries
  <2>7. \A u \in Thread \ {t} :
          /\ ht_pc'[u] = ht_pc[u] /\ ht_h'[u] = ht_h[u] /\ ht_fd'[u] = ht_fd[u]
          /\ Handles!Carries(u)' = Handles!Carries(u)
    BY <2>1 DEF Handles!TypeOK, Handles!Carries
  <2>8. Handles!FilesOpen' /\ Handles!OwnersApart' /\ Handles!NoneLeaks' /\ Handles!IoKeepsHandle'
    BY <2>1, <2>5, <2>6, <2>7
       DEF Handles!FilesOpen, Handles!OwnersApart, Handles!NoneLeaks, Handles!IoKeepsHandle
  <2>9. /\ ht_io'[t] = <<ht_h[t], ht_file[ht_h[t]]>> /\ ht_h[t] < ht_next
        /\ \A u \in Thread \ {t} : ht_io'[u] = ht_io[u]
    BY <2>1, <2>2, <2>3 DEF Handles!TypeOK, Handles!HandlesInOrder, Handles!OpenFiles
  <2>10. Handles!HandlesInOrder' /\ Handles!IoReachesItsFile'
    BY <2>1, <2>9 DEF Handles!HandlesInOrder, Handles!IoReachesItsFile
  <2> QED
    BY <2>4, <2>8, <2>10
<1>6. ASSUME NEW t \in Thread, NEW hd \in Handles!Handle, Handles!close(t, hd)
      PROVE  Handles!HandleInv'
  <2>1. /\ ht_pc[t] = "idle" /\ hd \in DOMAIN ht_objects
        /\ \A u \in Thread : ht_pc[u] = "io" => ht_h[u] # hd
        /\ UNCHANGED <<ht_next, ht_kernel, ht_opens, ht_file, ht_io>>
    BY <1>6 DEF Handles!close, Handles!InUse
  <2>2. /\ DOMAIN ht_objects' = DOMAIN ht_objects \ {hd}
        /\ \A x \in DOMAIN ht_objects \ {hd} : ht_objects'[x] = ht_objects[x]
    BY <1>6 DEF Handles!close, Handles!remove
  <2>3. /\ Handles!OpenFiles' = Handles!OpenFiles \ {hd}
        /\ \A x \in Handles!OpenFiles \ {hd} : ht_objects'[x] = ht_objects[x]
    BY <2>2 DEF Handles!OpenFiles
  <2>4. Handles!HandlesInOrder' /\ Handles!IoReachesItsFile'
    BY <2>1, <2>2 DEF Handles!HandlesInOrder, Handles!IoReachesItsFile
  <2>5. ~Handles!Carries(t)
    BY <2>1 DEF Handles!Carries
  <2>6. CASE ht_objects[hd].kind = "file"
    <3>1. Handles!Goto(t, "drop", hd, ht_objects[hd].fd)
      BY <1>6, <2>6 DEF Handles!close
    <3>2. hd \in Handles!OpenFiles /\ ht_objects[hd].fd \in Handles!Fd
      BY <2>1, <2>6, FileEntries DEF Handles!OpenFiles
    <3>3. Handles!TypeOK'
      BY <2>1, <2>2, <3>1, <3>2 DEF Handles!TypeOK
    <3>4. Handles!Carries(t)' /\ ht_fd'[t] = ht_objects[hd].fd /\ ht_pc'[t] = "drop"
      BY <3>1 DEF Handles!TypeOK, Handles!Carries
    <3>5. \A u \in Thread \ {t} :
            /\ ht_pc'[u] = ht_pc[u] /\ ht_h'[u] = ht_h[u] /\ ht_fd'[u] = ht_fd[u]
            /\ Handles!Carries(u)' = Handles!Carries(u)
      BY <3>1 DEF Handles!TypeOK, Handles!Carries
    <3>6. Handles!FilesOpen' /\ Handles!OwnersApart'
      BY <2>1, <2>3, <2>5, <3>2, <3>4, <3>5 DEF Handles!FilesOpen, Handles!OwnersApart
    <3>7. Handles!NoneLeaks'
      BY <2>1, <2>3, <2>5, <3>2, <3>4, <3>5 DEF Handles!NoneLeaks
    <3>8. Handles!IoKeepsHandle'
      BY <2>1, <2>3, <3>4, <3>5 DEF Handles!IoKeepsHandle
    <3> QED
      BY <2>4, <3>3, <3>6, <3>7, <3>8
  <2>7. CASE ht_objects[hd].kind # "file"
    <3>1. UNCHANGED <<ht_pc, ht_h, ht_fd>> /\ hd \notin Handles!OpenFiles
      BY <1>6, <2>7 DEF Handles!close, Handles!OpenFiles
    <3>2. Handles!TypeOK'
      BY <2>1, <2>2, <3>1 DEF Handles!TypeOK
    <3>3. \A u \in Thread : Handles!Carries(u)' = Handles!Carries(u)
      BY <3>1 DEF Handles!Carries
    <3>4. Handles!FilesOpen' /\ Handles!OwnersApart' /\ Handles!NoneLeaks' /\ Handles!IoKeepsHandle'
      BY <2>1, <2>3, <3>1, <3>3
         DEF Handles!FilesOpen, Handles!OwnersApart, Handles!NoneLeaks, Handles!IoKeepsHandle
    <3> QED
      BY <2>4, <3>2, <3>4
  <2> QED
    BY <2>6, <2>7
<1>7. ASSUME NEW t \in Thread, NEW hd \in Handles!Handle, Handles!StartIo(t, hd)
      PROVE  Handles!HandleInv'
  <2>1. /\ ht_pc[t] = "idle"
        /\ UNCHANGED <<ht_objects, ht_next, ht_kernel, ht_opens, ht_file, ht_io>>
    BY <1>7 DEF Handles!StartIo
  <2>2. /\ hd \in Handles!OpenFiles /\ ht_objects[hd].fd \in Handles!Fd
        /\ Handles!Goto(t, "io", hd, ht_objects[hd].fd)
    <3>1. hd \in DOMAIN ht_objects /\ Handles!resolve_fd(hd) = ht_objects[hd].fd
          /\ ht_objects[hd].fd \in Handles!Fd
      BY <1>7 DEF Handles!StartIo, Handles!resolve_fd
    <3>2. ht_objects[hd].kind = "file"
      BY <3>1 DEF Handles!TypeOK, Handles!Sync, Handles!FileObject
    <3> QED
      BY <1>7, <3>1, <3>2 DEF Handles!StartIo, Handles!OpenFiles
  <2>3. Handles!TypeOK'
    BY <2>1, <2>2 DEF Handles!TypeOK
  <2>4. /\ ~Handles!Carries(t) /\ ~Handles!Carries(t)'
        /\ ht_h'[t] = hd /\ ht_fd'[t] = ht_objects[hd].fd
    BY <2>1, <2>2 DEF Handles!TypeOK, Handles!Carries
  <2>5. \A u \in Thread \ {t} :
          /\ ht_pc'[u] = ht_pc[u] /\ ht_h'[u] = ht_h[u] /\ ht_fd'[u] = ht_fd[u]
          /\ Handles!Carries(u)' = Handles!Carries(u)
    BY <2>2 DEF Handles!TypeOK, Handles!Carries
  <2>6. Handles!OpenFiles' = Handles!OpenFiles
    BY <2>1 DEF Handles!OpenFiles
  <2>7. Handles!FilesOpen' /\ Handles!OwnersApart' /\ Handles!NoneLeaks'
    BY <2>1, <2>4, <2>5, <2>6 DEF Handles!FilesOpen, Handles!OwnersApart, Handles!NoneLeaks
  <2>8. Handles!HandlesInOrder' /\ Handles!IoKeepsHandle' /\ Handles!IoReachesItsFile'
    BY <2>1, <2>2, <2>4, <2>5, <2>6
       DEF Handles!HandlesInOrder, Handles!IoKeepsHandle, Handles!IoReachesItsFile
  <2> QED
    BY <2>3, <2>7, <2>8
<1>8. CASE UNCHANGED handleVars
  BY <1>8 DEF handleVars, Handles!TypeOK, Handles!HandlesInOrder, Handles!FilesOpen,
              Handles!OwnersApart, Handles!NoneLeaks, Handles!IoKeepsHandle,
              Handles!IoReachesItsFile, Handles!Carries, Handles!OpenFiles
<1> QED
  BY <1>1, <1>2, <1>3, <1>4, <1>5, <1>6, <1>7, <1>8 DEF Handles!Next

\* A step of the process is a step of the handle table or leaves it alone.
LEMMA HandleSteps == [TablesNext]_tableVars => [Handles!Next]_handleVars
BY DEF TablesNext, HandlesNext, StorageNext, MemoryNext, ModulesNext, KeysNext,
       tableVars, handleVars

\* Every open descriptor has one owner and none leaks, and a read or write
\* reaches the file its handle was opened for.
THEOREM HandleFilesReached == TablesSpec => []FilesReached
<1>1. TablesInit => Handles!HandleInv
  BY InitHandleInv DEF TablesInit
<1>2. Handles!HandleInv => Handles!DescriptorsOwnedOnce
  <2> SUFFICES ASSUME Handles!HandleInv, NEW f \in Handles!Fd
               PROVE  IF ht_kernel[f] = 0 THEN Handles!FdOwners(f) = {}
                      ELSE \E o \in Handles!FdOwners(f) : Handles!FdOwners(f) = {o}
    BY DEF Handles!DescriptorsOwnedOnce
  <2> USE DEF Handles!HandleInv, Handles!FdOwners
  <2>1. CASE ht_kernel[f] = 0
    BY <2>1 DEF Handles!FilesOpen
  <2>2. ASSUME NEW x \in Handles!OpenFiles, ht_objects[x].fd = f
        PROVE  Handles!FdOwners(f) = {<<"handle", x>>}
    BY <2>2 DEF Handles!OwnersApart
  <2>3. ASSUME NEW t \in Thread, Handles!Carries(t), ht_fd[t] = f
        PROVE  Handles!FdOwners(f) = {<<"call", t>>}
    BY <2>3 DEF Handles!OwnersApart
  <2> QED
    BY <2>1, <2>2, <2>3 DEF Handles!NoneLeaks
<1>3. Handles!HandleInv => FilesReached
  BY <1>2 DEF Handles!HandleInv, FilesReached
<1> QED
  BY <1>1, <1>3, NextHandleInv, HandleSteps, PTL DEF TablesSpec

-----------------------------------------------------------------------------
(* Virtual memory *)

\* What can be asked for is reported as it was asked for: the conversions
\* between the two kinds of protection flags undo each other.
LEMMA ProtectionRoundTrip ==
  /\ \A w \in WinProt : Memory!win_prot_to_linux(w) \in Memory!Representable
  /\ \A p \in Memory!Representable :
       /\ p \in Memory!Prot
       /\ Memory!linux_prot_to_win(p) \in Memory!WinPage
       /\ Memory!win_prot_to_linux(Memory!linux_prot_to_win(p)) = p
  /\ {} \in Memory!Representable
<1>1. \A w \in WinProt : Memory!win_prot_to_linux(w) \in Memory!Representable
  BY WinProtAssumption DEF Memory!Representable, Memory!WinPage
<1>2. ASSUME NEW w \in Memory!WinPage
      PROVE  /\ Memory!win_prot_to_linux(w) \in Memory!Prot
             /\ Memory!linux_prot_to_win(Memory!win_prot_to_linux(w)) = w
  <2>1. CASE w = "PAGE_NOACCESS"
    <3>1. Memory!win_prot_to_linux(w) = {}
      BY <2>1 DEF Memory!win_prot_to_linux
    <3> QED
      BY <2>1, <3>1 DEF Memory!linux_prot_to_win, Memory!Prot
  <2>2. CASE w = "PAGE_READONLY"
    <3>1. Memory!win_prot_to_linux(w) = {"R"}
      BY <2>2 DEF Memory!win_prot_to_linux
    <3> QED
      BY <2>2, <3>1 DEF Memory!linux_prot_to_win, Memory!Prot
  <2>3. CASE w = "PAGE_READWRITE"
    <3>1. Memory!win_prot_to_linux(w) = {"R", "W"}
      BY <2>3 DEF Memory!win_prot_to_linux
    <3> QED
      BY <2>3, <3>1 DEF Memory!linux_prot_to_win, Memory!Prot
  <2>4. CASE w = "PAGE_EXECUTE"
    <3>1. Memory!win_prot_to_linux(w) = {"X"}
      BY <2>4 DEF Memory!win_prot_to_linux
    <3> QED
      BY <2>4, <3>1 DEF Memory!linux_prot_to_win, Memory!Prot
  <2>5. CASE w = "PAGE_EXECUTE_READ"
    <3>1. Memory!win_prot_to_linux(w) = {"R", "X"}
      BY <2>5 DEF Memory!win_prot_to_linux
    <3> QED
      BY <2>5, <3>1 DEF Memory!linux_prot_to_win, Memory!Prot
  <2>6. CASE w = "PAGE_EXECUTE_READWRITE"
    <3>1. Memory!win_prot_to_linux(w) = {"R", "W", "X"}
      BY <2>6 DEF Memory!win_prot_to_linux
    <3> QED
      BY <2>6, <3>1 DEF Memory!linux_prot_to_win, Memory!Prot
  <2> QED
    BY <2>1, <2>2, <2>3, <2>4, <2>5, <2>6 DEF Memory!WinPage
<1>3. {} \in Memory!Representable
  <2>1. Memory!win_prot_to_linux("PAGE_NOACCESS") = {}
    BY DEF Memory!win_prot_to_linux
  <2> QED
    BY <2>1 DEF Memory!Representable, Memory!WinPage
<1> QED
  BY <1>1, <1>2, <1>3 DEF Memory!Representable

\* A region is at least its base page, and none of its pages is outside memory.
LEMMA RegionPages ==
  ASSUME Memory!MemoryInv, NEW b \in DOMAIN vm_regions
  PROVE  /\ b \in Nat /\ b \in Memory!Page /\ b \in Memory!Pages(b)
         /\ vm_regions[b].size \in 1 .. MaxPages /\ vm_regions[b].id \in 1 .. vm_allocs
         /\ vm_regions[b].size \in Nat
         /\ \A p \in Memory!Pages(b) : p \in Memory!Page /\ p \in Nat /\ vm_kernel[p].id = vm_regions[b].id
BY SMTT(30), PageAssumption
   DEF Memory!MemoryInv, Memory!TypeOK, Memory!Page, Memory!Pages, Memory!Run, Memory!OwnPagesMapped, Memory!IdsApart

\* Regions do not share a page.
LEMMA OneRegion ==
  ASSUME Memory!MemoryInv, NEW b \in DOMAIN vm_regions, NEW c \in DOMAIN vm_regions,
         NEW p \in Memory!Pages(b), p \in Memory!Pages(c)
  PROVE  b = c
BY DEF Memory!MemoryInv, Memory!OwnPagesMapped, Memory!IdsApart

\* An allocation in the making, or one being released, shares no page with a
\* region, nor with another such call.
LEMMA OwnersDisjoint ==
  ASSUME Memory!MemoryInv, NEW t \in Thread, Memory!Owning(t), NEW p \in Memory!OpPages(t)
  PROVE  /\ p \in Memory!Page
         /\ \A b \in DOMAIN vm_regions : p \notin Memory!Pages(b)
         /\ \A u \in Thread \ {t} : Memory!Owning(u) => p \notin Memory!OpPages(u)
BY DEF Memory!MemoryInv, Memory!OwnPagesMapped, Memory!IdsApart

\* The lookup by address finds the region a page is in.
LEMMA ContainingRegion ==
  ASSUME Memory!MemoryInv, NEW b \in DOMAIN vm_regions, NEW p \in Memory!Pages(b)
  PROVE  Memory!containing(p) = {b} /\ (CHOOSE c \in Memory!containing(p) : TRUE) = b
<1>1. b \in Memory!containing(p)
  <2>1. p \in Nat /\ b \in Nat /\ b <= p /\ p < b + vm_regions[b].size
    BY RegionPages DEF Memory!Pages, Memory!Run
  <2>2. ASSUME NEW c \in DOMAIN vm_regions, c <= p PROVE c <= b
    <3>1. c \in Nat /\ c \in Memory!Pages(c) /\ vm_regions[b].size \in Nat
      BY RegionPages
    <3>2. CASE c > b
      <4>1. c \in Memory!Pages(b)
        BY <2>1, <2>2, <3>1, <3>2 DEF Memory!Pages, Memory!Run
      <4> QED
        BY <3>1, <3>2, <4>1, OneRegion
    <3> QED
      BY <2>1, <3>1, <3>2
  <2> QED
    BY <2>1, <2>2 DEF Memory!containing
<1>2. ASSUME NEW c \in Memory!containing(p) PROVE c = b
  <2>1. c \in DOMAIN vm_regions /\ c <= p /\ p < c + vm_regions[c].size
    BY DEF Memory!containing
  <2>2. p \in Memory!Pages(c)
    BY <2>1, RegionPages DEF Memory!Pages, Memory!Run
  <2> QED
    BY <2>1, <2>2, OneRegion
<1>3. Memory!containing(p) = {b}
  BY <1>1, <1>2
<1> QED
  BY <1>3

\* Nobody protects a region that is not busy.
LEMMA NotBusy ==
  ASSUME Memory!MemoryInv, NEW b \in DOMAIN vm_regions, ~Memory!Busy(b), NEW t \in Thread
  PROVE  ~Memory!Inside(t, b)
<1> SUFFICES ASSUME Memory!Inside(t, b) PROVE FALSE
  OBVIOUS
<1>1. Memory!Protecting(t) /\ vm_op[t].base \in Memory!Pages(b) /\ vm_pc[t] # "idle"
  BY DEF Memory!Inside, Memory!Protecting
<1>2. vm_op[t].base \in Nat /\ vm_op[t].size \in Nat /\ vm_op[t].size > 0
  BY <1>1 DEF Memory!MemoryInv, Memory!OpsInPlace, Memory!TypeOK
<1>3. vm_op[t].base \in Memory!OpPages(t)
  BY <1>2 DEF Memory!OpPages, Memory!Run
<1> QED
  BY <1>1, <1>3 DEF Memory!Busy, Memory!Pages

\* A step that leaves the regions and their pages alone, by a thread that does
\* not protect, changes nothing for the regions.
LEMMA RegionsUntouched ==
  ASSUME Memory!MemoryInv, NEW t \in Thread, ~Memory!Protecting(t),
         vm_regions' = vm_regions, vm_mixed' = vm_mixed,
         \A b \in DOMAIN vm_regions : \A p \in Memory!Pages(b) : vm_kernel'[p] = vm_kernel[p],
         \A u \in Thread \ {t} : vm_pc'[u] = vm_pc[u] /\ vm_op'[u] = vm_op[u],
         \/ vm_pc'[t] = "idle"
         \/ Memory!Owning(t)' /\ vm_op'[t].base \in Memory!Page /\ vm_op'[t].size \in 1 .. MaxPages
  PROVE  Memory!OpsInPlace' /\ Memory!Settled' /\ Memory!UpdatesWhole' /\ Memory!OldIsTrue'
<1>1. ~Memory!Protecting(t)'
  BY DEF Memory!Owning, Memory!Protecting
<1>2. \A b \in DOMAIN vm_regions : Memory!Pages(b)' = Memory!Pages(b)
  BY DEF Memory!Pages
<1>3. \A u \in Thread \ {t} :
        /\ Memory!Owning(u)' = Memory!Owning(u) /\ Memory!Protecting(u)' = Memory!Protecting(u)
        /\ Memory!OpPages(u)' = Memory!OpPages(u)
  BY DEF Memory!Owning, Memory!Protecting, Memory!OpPages
<1>4. \A b \in DOMAIN vm_regions : ~Memory!Inside(t, b) /\ ~Memory!Inside(t, b)'
  BY <1>1 DEF Memory!Inside
<1>5. \A u \in Thread \ {t}, b \in DOMAIN vm_regions : Memory!Inside(u, b)' = Memory!Inside(u, b)
  BY <1>2, <1>3 DEF Memory!Inside
<1>6. Memory!OpsInPlace'
  <2>1. \A u \in Thread : vm_pc'[u] = "idle" \/ Memory!Owning(u)' \/ Memory!Protecting(u)'
    BY <1>3 DEF Memory!MemoryInv, Memory!OpsInPlace
  <2>2. \A u \in Thread : Memory!Owning(u)' => vm_op'[u].base \in Memory!Page /\ vm_op'[u].size \in 1 .. MaxPages
    <3>1. Memory!Owning(t)' => vm_pc'[t] # "idle"
      BY DEF Memory!Owning
    <3> QED
      BY <1>3, <3>1 DEF Memory!MemoryInv, Memory!OpsInPlace
  <2>3. ASSUME NEW u \in Thread, Memory!Protecting(u)'
        PROVE  vm_op'[u].size > 0 /\ \E b \in DOMAIN vm_regions : Memory!OpPages(u)' \subseteq Memory!Pages(b)'
    <3>1. u # t /\ Memory!Protecting(u)
      BY <1>1, <1>3, <2>3
    <3>2. vm_op[u].size > 0 /\ \E b \in DOMAIN vm_regions : Memory!OpPages(u) \subseteq Memory!Pages(b)
      BY <3>1 DEF Memory!MemoryInv, Memory!OpsInPlace
    <3> QED
      BY <1>2, <1>3, <3>1, <3>2
  <2>4. \A u, v \in Thread, b \in DOMAIN vm_regions :
          Memory!Inside(u, b)' /\ Memory!Inside(v, b)' /\ vm_regions[b].id \notin vm_mixed => u = v
    BY <1>4, <1>5 DEF Memory!MemoryInv, Memory!OpsInPlace
  <2> QED
    BY <2>1, <2>2, <2>3, <2>4 DEF Memory!OpsInPlace
<1>7. Memory!Settled'
  BY <1>2, <1>4, <1>5 DEF Memory!MemoryInv, Memory!Settled
<1>8. Memory!UpdatesWhole' /\ Memory!OldIsTrue'
  BY <1>2, <1>4, <1>5 DEF Memory!MemoryInv, Memory!UpdatesWhole, Memory!OldIsTrue
<1> QED
  BY <1>6, <1>7, <1>8

\* An address space with nothing mapped satisfies the invariant.
LEMMA InitMemoryInv == Memory!Init => Memory!MemoryInv
<1> SUFFICES ASSUME Memory!Init PROVE Memory!MemoryInv
  OBVIOUS
<1> USE DEF Memory!Init
<1>1. Memory!TypeOK
  BY DEF Memory!TypeOK, Memory!Unmapped, Memory!NoOp, Memory!NoReport, Memory!Prot
<1>2. \A t \in Thread : ~Memory!Owning(t) /\ ~Memory!Protecting(t) /\ vm_pc[t] = "idle"
  BY DEF Memory!Owning, Memory!Protecting
<1>3. Memory!IdsApart /\ Memory!OwnPagesMapped /\ Memory!MappedPagesOwned /\ Memory!OpsInPlace
  BY <1>2 DEF Memory!IdsApart, Memory!OwnPagesMapped, Memory!MappedPagesOwned, Memory!OpsInPlace, Memory!Inside, Memory!Unmapped
<1>4. Memory!ProtectionsKnown /\ Memory!Settled /\ Memory!UpdatesWhole /\ Memory!OldIsTrue /\ Memory!ReportsTrue
  BY DEF Memory!ProtectionsKnown, Memory!Settled, Memory!UpdatesWhole, Memory!OldIsTrue, Memory!ReportsTrue, Memory!NoReport
<1> QED
  BY <1>1, <1>3, <1>4 DEF Memory!MemoryInv

\* virtual_alloc's mmap takes free pages under an id of its own.
LEMMA AllocMapInv ==
  ASSUME Memory!MemoryInv, NEW t \in Thread, Memory!AllocMap(t)
  PROVE  Memory!MemoryInv'
<1> USE DEF Memory!MemoryInv
<1>1. PICK lo \in Memory!Page, n \in 1 .. MaxPages, w \in WinProt :
        /\ Memory!FreeRun(Memory!Run(lo, n))
        /\ Memory!Map(Memory!Run(lo, n), vm_allocs + 1, {"R", "W"})
        /\ Memory!Goto(t, IF Memory!win_prot_to_linux(w) # {"R", "W"} THEN "alloc_protect" ELSE "alloc_insert",
                [Memory!NoOp EXCEPT !.base = lo, !.size = n,
                              !.prot = Memory!win_prot_to_linux(w), !.id = vm_allocs + 1])
  BY DEF Memory!AllocMap
<1>2. /\ vm_pc[t] = "idle" /\ vm_allocs' = vm_allocs + 1 /\ vm_allocs \in Nat
      /\ UNCHANGED <<vm_regions, vm_reported, vm_mixed, vm_orphans>>
  BY DEF Memory!AllocMap, Memory!TypeOK
<1> DEFINE K == Memory!Run(lo, n)
           r == Memory!win_prot_to_linux(w)
<1>3. K \subseteq Memory!Page /\ \A p \in K : vm_kernel[p].id = 0
  BY <1>1 DEF Memory!FreeRun
<1>4. r \in Memory!Representable /\ r \in Memory!Prot
  BY ProtectionRoundTrip
<1>5. /\ vm_op'[t] = [base |-> lo, size |-> n, prot |-> r, id |-> vm_allocs + 1,
                    old |-> {}, was |-> {}]
      /\ vm_pc'[t] \in {"alloc_protect", "alloc_insert"}
      /\ vm_pc'[t] = "alloc_insert" => r = {"R", "W"}
      /\ \A u \in Thread \ {t} : vm_pc'[u] = vm_pc[u] /\ vm_op'[u] = vm_op[u]
  BY <1>1 DEF Memory!Goto, Memory!NoOp, Memory!TypeOK
<1>6. Memory!Owning(t)' /\ ~Memory!Owning(t) /\ ~Memory!Protecting(t) /\ Memory!OpPages(t)' = K
  BY <1>2, <1>5 DEF Memory!Owning, Memory!Protecting, Memory!OpPages
<1>7. \A u \in Thread \ {t} : Memory!Owning(u)' = Memory!Owning(u) /\ Memory!OpPages(u)' = Memory!OpPages(u)
  BY <1>5 DEF Memory!Owning, Memory!OpPages
<1>8. /\ \A p \in K : vm_kernel'[p] = [id |-> vm_allocs + 1, prot |-> {"R", "W"}]
      /\ \A p \in Memory!Page \ K : vm_kernel'[p] = vm_kernel[p]
      /\ vm_kernel' = [p \in Memory!Page |-> IF p \in K THEN [id |-> vm_allocs + 1, prot |-> {"R", "W"}]
                                     ELSE vm_kernel[p]]
  BY <1>1, <1>3 DEF Memory!Map, Memory!Mapped
<1>9. /\ lo \in Nat /\ n \in Nat /\ n \in 1 .. MaxPages
  BY PageAssumption DEF Memory!Page
<1> HIDE DEF K, r
<1>10. Memory!TypeOK'
  <2>1. [base |-> lo, size |-> n, prot |-> r, id |-> vm_allocs + 1, old |-> {}, was |-> {}]
          \in [base : Nat, size : Nat, prot : Memory!Prot, id : Nat, old : Memory!Prot, was : Memory!Prot]
    BY <1>2, <1>4, <1>9 DEF Memory!Prot
  <2>2. vm_op' \in [Thread -> [base : Nat, size : Nat, prot : Memory!Prot, id : Nat, old : Memory!Prot, was : Memory!Prot]]
    BY <1>1, <1>5, <2>1 DEF Memory!Goto, Memory!TypeOK
  <2>3. vm_pc' \in [Thread -> {"idle", "alloc_protect", "alloc_insert", "release_unmap",
                             "decommit_unmap", "decommit_map", "protect",
                             "protect_update"}]
    BY <1>1, <1>5 DEF Memory!Goto, Memory!TypeOK
  <2>4. vm_kernel' \in [Memory!Page -> [id : Nat, prot : Memory!Prot]]
    BY <1>2, <1>8 DEF Memory!TypeOK, Memory!Prot
  <2> QED
    BY <1>2, <2>2, <2>3, <2>4 DEF Memory!TypeOK
<1>11. \A b \in DOMAIN vm_regions :
         /\ Memory!Pages(b)' = Memory!Pages(b)
         /\ \A p \in Memory!Pages(b) : p \in Memory!Page \ K /\ vm_kernel'[p] = vm_kernel[p]
  BY <1>2, <1>3, <1>8, RegionPages DEF Memory!Pages
<1>12. \A u \in Thread : Memory!Owning(u) => \A p \in Memory!OpPages(u) : p \in Memory!Page \ K
  BY <1>2, <1>3 DEF Memory!OwnPagesMapped, Memory!IdsApart
<1>13. Memory!IdsApart'
  BY <1>2, <1>5, <1>6, <1>7 DEF Memory!IdsApart
<1>14. Memory!OwnPagesMapped'
  <2>1. \A b \in DOMAIN vm_regions : \A p \in Memory!Pages(b) : p \in Memory!Page /\ vm_kernel'[p].id = vm_regions[b].id
    BY <1>11 DEF Memory!OwnPagesMapped
  <2>2. ASSUME NEW u \in Thread, Memory!Owning(u)', NEW p \in Memory!OpPages(u)'
        PROVE  p \in Memory!Page /\ vm_kernel'[p].id = vm_op'[u].id
    <3>1. CASE u = t
      BY <1>3, <1>5, <1>6, <1>8, <3>1
    <3>2. CASE u # t
      BY <1>5, <1>7, <1>8, <1>12, <3>2, <2>2 DEF Memory!OwnPagesMapped
    <3> QED
      BY <3>1, <3>2
  <2> QED
    BY <1>2, <1>11, <2>1, <2>2 DEF Memory!OwnPagesMapped
<1>15. Memory!MappedPagesOwned'
  BY <1>2, <1>6, <1>7, <1>8, <1>11 DEF Memory!MappedPagesOwned
<1>16. Memory!ProtectionsKnown'
  <2>1. ASSUME NEW u \in Thread, vm_pc'[u] = "alloc_insert", NEW p \in Memory!OpPages(u)'
        PROVE  vm_kernel'[p].prot = vm_op'[u].prot
    <3>1. CASE u = t
      <4>1. vm_op'[t].prot = {"R", "W"} /\ p \in K
        BY <1>5, <1>6, <2>1, <3>1
      <4> QED
        BY <1>8, <3>1, <4>1
    <3>2. CASE u # t
      <4>1. Memory!Owning(u) /\ vm_pc[u] = "alloc_insert" /\ p \in Memory!OpPages(u)
        BY <1>5, <1>7, <2>1, <3>2 DEF Memory!Owning
      <4>2. p \in Memory!Page \ K
        BY <1>12, <4>1
      <4> QED
        BY <1>5, <1>8, <3>2, <4>1, <4>2 DEF Memory!ProtectionsKnown
    <3> QED
      BY <3>1, <3>2
  <2>2. ASSUME NEW u \in Thread, vm_pc'[u] # "idle"
        PROVE  vm_op'[u].prot \in Memory!Representable /\ vm_op'[u].old \in Memory!Representable
    <3>1. CASE u = t
      <4>1. vm_op'[t].prot = r /\ vm_op'[t].old = {}
        BY <1>5
      <4>2. {} \in Memory!Representable
        BY ProtectionRoundTrip
      <4> HIDE DEF r
      <4> QED
        BY <1>4, <3>1, <4>1, <4>2
    <3>2. CASE u # t
      BY <1>5, <2>2, <3>2 DEF Memory!ProtectionsKnown
    <3> QED
      BY <3>1, <3>2
  <2> QED
    BY <1>2, <2>1, <2>2 DEF Memory!ProtectionsKnown
<1>17. Memory!OpsInPlace' /\ Memory!Settled' /\ Memory!UpdatesWhole' /\ Memory!OldIsTrue'
  BY <1>2, <1>5, <1>6, <1>11, RegionsUntouched
<1>18. Memory!ReportsTrue'
  BY <1>2 DEF Memory!ReportsTrue
<1> QED
  BY <1>10, <1>13, <1>14, <1>15, <1>16, <1>17, <1>18

\* virtual_alloc's mprotect changes the pages of its own mapping.
LEMMA AllocProtectInv ==
  ASSUME Memory!MemoryInv, NEW t \in Thread, Memory!AllocProtect(t)
  PROVE  Memory!MemoryInv'
<1> USE DEF Memory!MemoryInv
<1>1. /\ vm_pc[t] = "alloc_protect" /\ Memory!Protect(Memory!OpPages(t), vm_op[t].prot)
      /\ Memory!Goto(t, "alloc_insert", vm_op[t])
      /\ UNCHANGED <<vm_regions, vm_allocs, vm_reported, vm_mixed, vm_orphans>>
  BY DEF Memory!AllocProtect
<1>2. /\ vm_pc'[t] = "alloc_insert" /\ vm_op'[t] = vm_op[t]
      /\ \A u \in Thread \ {t} : vm_pc'[u] = vm_pc[u] /\ vm_op'[u] = vm_op[u]
  BY <1>1 DEF Memory!Goto, Memory!TypeOK
<1>3. /\ Memory!Owning(t) /\ Memory!Owning(t)' /\ ~Memory!Protecting(t)
      /\ \A u \in Thread : Memory!Owning(u)' = Memory!Owning(u) /\ Memory!OpPages(u)' = Memory!OpPages(u)
  BY <1>1, <1>2 DEF Memory!Owning, Memory!Protecting, Memory!OpPages
<1>4. vm_op[t].prot \in Memory!Representable /\ vm_op[t].prot \in Memory!Prot
  BY <1>1 DEF Memory!ProtectionsKnown, Memory!TypeOK
<1>5. /\ \A p \in Memory!Page : vm_kernel'[p].id = vm_kernel[p].id
      /\ \A p \in Memory!Page \ Memory!OpPages(t) : vm_kernel'[p] = vm_kernel[p]
      /\ \A p \in Memory!OpPages(t) : p \in Memory!Page /\ vm_kernel'[p].prot = vm_op[t].prot
      /\ vm_kernel' \in [Memory!Page -> [id : Nat, prot : Memory!Prot]]
  BY <1>1, <1>3, <1>4, OwnersDisjoint DEF Memory!Protect, Memory!TypeOK
<1>6. Memory!TypeOK'
  BY <1>1, <1>5 DEF Memory!Goto, Memory!TypeOK
<1>7. \A b \in DOMAIN vm_regions :
        /\ Memory!Pages(b)' = Memory!Pages(b)
        /\ \A p \in Memory!Pages(b) : p \in Memory!Page /\ vm_kernel'[p] = vm_kernel[p]
  BY <1>1, <1>3, <1>5, RegionPages, OwnersDisjoint DEF Memory!Pages
<1>8. Memory!IdsApart'
  BY <1>1, <1>2, <1>3 DEF Memory!IdsApart
<1>9. Memory!OwnPagesMapped' /\ Memory!MappedPagesOwned'
  BY <1>1, <1>2, <1>3, <1>5, <1>7 DEF Memory!OwnPagesMapped, Memory!MappedPagesOwned
<1>10. Memory!ProtectionsKnown'
  <2>1. ASSUME NEW u \in Thread, vm_pc'[u] = "alloc_insert", NEW p \in Memory!OpPages(u)
        PROVE  vm_kernel'[p].prot = vm_op'[u].prot
    <3>1. CASE u = t
      BY <1>2, <1>5, <2>1, <3>1
    <3>2. CASE u # t
      <4>1. Memory!Owning(u) /\ vm_pc[u] = "alloc_insert"
        BY <1>2, <2>1, <3>2 DEF Memory!Owning
      <4>2. p \in Memory!Page \ Memory!OpPages(t)
        BY <1>3, <3>2, <4>1, OwnersDisjoint
      <4> QED
        BY <1>2, <1>5, <3>2, <4>1, <4>2 DEF Memory!ProtectionsKnown
    <3> QED
      BY <3>1, <3>2
  <2> QED
    BY <1>1, <1>2, <1>3, <2>1 DEF Memory!ProtectionsKnown
<1>11. Memory!OpsInPlace' /\ Memory!Settled' /\ Memory!UpdatesWhole' /\ Memory!OldIsTrue'
  <2>1. vm_op'[t].base \in Memory!Page /\ vm_op'[t].size \in 1 .. MaxPages
    BY <1>2, <1>3 DEF Memory!OpsInPlace
  <2> QED
    BY <1>1, <1>2, <1>3, <1>7, <2>1, RegionsUntouched
<1>12. Memory!ReportsTrue'
  BY <1>1 DEF Memory!ReportsTrue
<1> QED
  BY <1>6, <1>8, <1>9, <1>10, <1>11, <1>12

\* munmap of what a call owns, at the end of a release or of a failed
\* allocation, unmaps exactly that.
LEMMA UnmapInv ==
  ASSUME Memory!MemoryInv, NEW t \in Thread, Memory!Owning(t), Memory!Unmap(Memory!OpPages(t)), Memory!Return(t),
         UNCHANGED <<vm_regions, vm_allocs, vm_reported, vm_mixed, vm_orphans>>
  PROVE  Memory!MemoryInv'
<1> USE DEF Memory!MemoryInv
<1>1. /\ vm_pc'[t] = "idle" /\ vm_op'[t] = Memory!NoOp
      /\ \A u \in Thread \ {t} : vm_pc'[u] = vm_pc[u] /\ vm_op'[u] = vm_op[u]
  BY DEF Memory!Return, Memory!Goto, Memory!TypeOK
<1>2. /\ ~Memory!Owning(t)' /\ ~Memory!Protecting(t)
      /\ \A u \in Thread \ {t} : Memory!Owning(u)' = Memory!Owning(u) /\ Memory!OpPages(u)' = Memory!OpPages(u)
  BY <1>1 DEF Memory!Owning, Memory!Protecting, Memory!OpPages
<1>3. /\ \A p \in Memory!Page \ Memory!OpPages(t) : vm_kernel'[p] = vm_kernel[p]
      /\ \A p \in Memory!OpPages(t) : p \in Memory!Page /\ vm_kernel'[p].id = 0
      /\ vm_kernel' \in [Memory!Page -> [id : Nat, prot : Memory!Prot]]
  BY OwnersDisjoint DEF Memory!Unmap, Memory!Unmapped, Memory!TypeOK, Memory!Prot
<1>4. Memory!TypeOK'
  <2>1. Memory!NoOp \in [base : Nat, size : Nat, prot : Memory!Prot, id : Nat, old : Memory!Prot, was : Memory!Prot]
    BY DEF Memory!NoOp, Memory!Prot
  <2> QED
    BY <1>3, <2>1 DEF Memory!Return, Memory!Goto, Memory!TypeOK
<1>5. \A b \in DOMAIN vm_regions :
        /\ Memory!Pages(b)' = Memory!Pages(b)
        /\ \A p \in Memory!Pages(b) : p \in Memory!Page /\ vm_kernel'[p] = vm_kernel[p]
  BY <1>3, RegionPages, OwnersDisjoint DEF Memory!Pages
<1>6. \A u \in Thread \ {t} : Memory!Owning(u) =>
        \A p \in Memory!OpPages(u) : p \in Memory!Page /\ vm_kernel'[p] = vm_kernel[p]
  BY <1>3, OwnersDisjoint
<1>7. Memory!IdsApart'
  BY <1>1, <1>2 DEF Memory!IdsApart
<1>8. Memory!OwnPagesMapped'
  BY <1>1, <1>2, <1>5, <1>6 DEF Memory!OwnPagesMapped
<1>9. Memory!MappedPagesOwned'
  BY <1>2, <1>3, <1>5 DEF Memory!MappedPagesOwned
<1>10. Memory!ProtectionsKnown'
  BY <1>1, <1>2, <1>6 DEF Memory!ProtectionsKnown, Memory!Owning
<1>11. Memory!OpsInPlace' /\ Memory!Settled' /\ Memory!UpdatesWhole' /\ Memory!OldIsTrue'
  BY <1>1, <1>2, <1>5, RegionsUntouched
<1>12. Memory!ReportsTrue'
  BY DEF Memory!ReportsTrue
<1> QED
  BY <1>4, <1>7, <1>8, <1>9, <1>10, <1>11, <1>12

\* When that munmap fails the pages stay, under an allocation nobody owns now.
LEMMA UnmapFailedInv ==
  ASSUME Memory!MemoryInv, NEW t \in Thread, Memory!Owning(t), Memory!Return(t),
         vm_orphans' = vm_orphans \cup {vm_op[t].id},
         UNCHANGED <<vm_regions, vm_kernel, vm_allocs, vm_reported, vm_mixed>>
  PROVE  Memory!MemoryInv'
<1> USE DEF Memory!MemoryInv
<1>1. /\ vm_pc'[t] = "idle" /\ vm_op'[t] = Memory!NoOp
      /\ \A u \in Thread \ {t} : vm_pc'[u] = vm_pc[u] /\ vm_op'[u] = vm_op[u]
  BY DEF Memory!Return, Memory!Goto, Memory!TypeOK
<1>2. /\ ~Memory!Owning(t)' /\ ~Memory!Protecting(t)
      /\ \A u \in Thread \ {t} : Memory!Owning(u)' = Memory!Owning(u) /\ Memory!OpPages(u)' = Memory!OpPages(u)
  BY <1>1 DEF Memory!Owning, Memory!Protecting, Memory!OpPages
<1>3. Memory!TypeOK'
  <2>1. Memory!NoOp \in [base : Nat, size : Nat, prot : Memory!Prot, id : Nat, old : Memory!Prot, was : Memory!Prot]
    BY DEF Memory!NoOp, Memory!Prot
  <2> QED
    BY <2>1 DEF Memory!Return, Memory!Goto, Memory!TypeOK
<1>4. \A b \in DOMAIN vm_regions : Memory!Pages(b)' = Memory!Pages(b)
  BY DEF Memory!Pages
<1>5. Memory!IdsApart'
  <2>1. vm_orphans' \subseteq 1 .. vm_allocs
    BY DEF Memory!IdsApart
  <2>2. \A b \in DOMAIN vm_regions : vm_regions[b].id \notin vm_orphans'
    BY DEF Memory!IdsApart
  <2>3. \A u \in Thread \ {t} : Memory!Owning(u) => vm_op[u].id \notin vm_orphans'
    BY DEF Memory!IdsApart
  <2> QED
    BY <1>1, <1>2, <2>1, <2>2, <2>3 DEF Memory!IdsApart
<1>6. Memory!OwnPagesMapped'
  BY <1>1, <1>2, <1>4 DEF Memory!OwnPagesMapped
<1>7. Memory!MappedPagesOwned'
  <2>1. \A p \in Memory!OpPages(t) : vm_kernel[p].id \in vm_orphans'
    BY DEF Memory!OwnPagesMapped
  <2> QED
    BY <1>1, <1>2, <1>4, <2>1 DEF Memory!MappedPagesOwned
<1>8. Memory!ProtectionsKnown'
  BY <1>1, <1>2 DEF Memory!ProtectionsKnown, Memory!Owning
<1>9. Memory!OpsInPlace' /\ Memory!Settled' /\ Memory!UpdatesWhole' /\ Memory!OldIsTrue'
  BY <1>1, <1>2, <1>4, RegionsUntouched
<1>10. Memory!ReportsTrue'
  BY DEF Memory!ReportsTrue
<1> QED
  BY <1>3, <1>5, <1>6, <1>7, <1>8, <1>9, <1>10

\* So giving back what a call owns keeps the invariant, either way.
LEMMA GiveBackInv ==
  ASSUME Memory!MemoryInv, NEW t \in Thread, Memory!Owning(t), Memory!GiveBack(t), Memory!Return(t),
         UNCHANGED <<vm_regions, vm_allocs, vm_reported, vm_mixed>>
  PROVE  Memory!MemoryInv'
<1>1. CASE Memory!Unmap(Memory!OpPages(t)) /\ UNCHANGED vm_orphans
  BY <1>1, UnmapInv
<1>2. CASE UNCHANGED vm_kernel /\ vm_orphans' = vm_orphans \cup {vm_op[t].id}
  BY <1>2, UnmapFailedInv
<1> QED
  BY <1>1, <1>2 DEF Memory!GiveBack

\* A call that protects is in one region.
LEMMA ProtectedRegion ==
  ASSUME Memory!MemoryInv, NEW t \in Thread, Memory!Protecting(t)
  PROVE  /\ \E b \in DOMAIN vm_regions :
              /\ Memory!OpPages(t) \subseteq Memory!Pages(b)
              /\ Memory!Inside(t, b)
              /\ \A c \in DOMAIN vm_regions : Memory!Inside(t, c) => c = b
         /\ vm_op[t].base \in Memory!OpPages(t) /\ vm_op[t].base \in Nat /\ vm_op[t].size \in Nat
<1>1. PICK b \in DOMAIN vm_regions : vm_op[t].size > 0 /\ Memory!OpPages(t) \subseteq Memory!Pages(b)
  BY DEF Memory!MemoryInv, Memory!OpsInPlace
<1>2. vm_op[t].base \in Nat /\ vm_op[t].size \in Nat
  BY DEF Memory!MemoryInv, Memory!TypeOK
<1>3. vm_op[t].base \in Memory!OpPages(t)
  BY <1>1, <1>2 DEF Memory!OpPages, Memory!Run
<1>4. Memory!Inside(t, b)
  BY <1>1, <1>3 DEF Memory!Inside
<1>5. \A c \in DOMAIN vm_regions : Memory!Inside(t, c) => c = b
  BY <1>1, <1>3, OneRegion DEF Memory!Inside
<1> QED
  BY <1>1, <1>2, <1>3, <1>4, <1>5

\* virtual_alloc's insert hands the mapping over to the table.
LEMMA AllocInsertInv ==
  ASSUME Memory!MemoryInv, NEW t \in Thread, Memory!AllocInsert(t)
  PROVE  Memory!MemoryInv'
<1> USE DEF Memory!MemoryInv
<1>0. PICK B : B = vm_op[t].base
  OBVIOUS
<1> DEFINE R == [id |-> vm_op[t].id, size |-> vm_op[t].size, prot |-> vm_op[t].prot]
<1>1. /\ vm_pc[t] = "alloc_insert"
      /\ vm_regions' = [b \in DOMAIN vm_regions \cup {B} |-> IF b = B THEN R ELSE vm_regions[b]]
      /\ Memory!Return(t)
      /\ UNCHANGED <<vm_kernel, vm_allocs, vm_reported, vm_mixed, vm_orphans>>
  BY <1>0 DEF Memory!AllocInsert
<1>2. /\ vm_pc'[t] = "idle" /\ vm_op'[t] = Memory!NoOp
      /\ \A u \in Thread \ {t} : vm_pc'[u] = vm_pc[u] /\ vm_op'[u] = vm_op[u]
  BY <1>1 DEF Memory!Return, Memory!Goto, Memory!TypeOK
<1>3. /\ Memory!Owning(t) /\ ~Memory!Owning(t)' /\ ~Memory!Protecting(t) /\ ~Memory!Protecting(t)'
      /\ \A u \in Thread \ {t} :
           /\ Memory!Owning(u)' = Memory!Owning(u) /\ Memory!Protecting(u)' = Memory!Protecting(u)
           /\ Memory!OpPages(u)' = Memory!OpPages(u)
  BY <1>1, <1>2 DEF Memory!Owning, Memory!Protecting, Memory!OpPages
<1>4. /\ B \in Memory!Page /\ B \in Nat /\ vm_op[t].size \in 1 .. MaxPages /\ vm_op[t].size \in Nat
      /\ vm_op[t].id \in 1 .. vm_allocs /\ vm_op[t].id \in Nat /\ vm_op[t].prot \in Memory!Prot
      /\ vm_op[t].prot \in Memory!Representable
  BY <1>0, <1>1, <1>3 DEF Memory!OpsInPlace, Memory!IdsApart, Memory!ProtectionsKnown, Memory!TypeOK
<1>5. B \in Memory!OpPages(t)
  BY <1>0, <1>4 DEF Memory!OpPages, Memory!Run
<1>6. B \notin DOMAIN vm_regions
  BY <1>3, <1>5, OwnersDisjoint, RegionPages
<1>7. /\ DOMAIN vm_regions' = DOMAIN vm_regions \cup {B}
      /\ vm_regions'[B] = R
      /\ \A b \in DOMAIN vm_regions : b # B /\ vm_regions'[b] = vm_regions[b]
  BY <1>1, <1>6
<1>8. /\ Memory!Pages(B)' = Memory!OpPages(t)
      /\ \A b \in DOMAIN vm_regions : Memory!Pages(b)' = Memory!Pages(b)
  <2>1. Memory!Pages(B)' = Memory!Run(B, vm_regions'[B].size)
    BY DEF Memory!Pages
  <2>2. Memory!OpPages(t) = Memory!Run(B, vm_op[t].size)
    BY <1>0 DEF Memory!OpPages
  <2>3. \A b \in DOMAIN vm_regions : Memory!Pages(b)' = Memory!Run(b, vm_regions'[b].size) /\ Memory!Pages(b) = Memory!Run(b, vm_regions[b].size)
    BY DEF Memory!Pages
  <2> QED
    BY <1>7, <2>1, <2>2, <2>3
<1>9. R.id = vm_op[t].id /\ R.size = vm_op[t].size /\ R.prot = vm_op[t].prot
  OBVIOUS
<1>10. Memory!TypeOK'
  <2>1. Memory!NoOp \in [base : Nat, size : Nat, prot : Memory!Prot, id : Nat, old : Memory!Prot, was : Memory!Prot]
    BY DEF Memory!NoOp, Memory!Prot
  <2>2. R \in [id : Nat, size : 1 .. MaxPages, prot : Memory!Prot]
    BY <1>4
  <2>3. DOMAIN vm_regions' \subseteq Memory!Page
    BY <1>4, <1>7 DEF Memory!TypeOK
  <2>4. \A b \in DOMAIN vm_regions' : vm_regions'[b] \in [id : Nat, size : 1 .. MaxPages, prot : Memory!Prot]
    BY <1>7, <2>2 DEF Memory!TypeOK
  <2> QED
    BY <1>1, <2>1, <2>3, <2>4 DEF Memory!Return, Memory!Goto, Memory!TypeOK
<1> HIDE DEF R
<1>11. ASSUME NEW u \in Thread
       PROVE  ~Memory!Inside(u, B)' /\ \A b \in DOMAIN vm_regions : Memory!Inside(u, b)' = Memory!Inside(u, b)
  <2>1. CASE u = t
    BY <1>3, <2>1 DEF Memory!Inside
  <2>2. CASE u # t
    <3>1. \A b \in DOMAIN vm_regions : Memory!Inside(u, b)' = Memory!Inside(u, b)
      BY <1>2, <1>3, <1>8, <2>2 DEF Memory!Inside
    <3>2. ASSUME Memory!Inside(u, B)' PROVE FALSE
      <4>1. Memory!Protecting(u) /\ vm_op[u].base \in Memory!OpPages(t)
        BY <1>2, <1>3, <1>8, <2>2, <3>2 DEF Memory!Inside
      <4>2. PICK b \in DOMAIN vm_regions : Memory!OpPages(u) \subseteq Memory!Pages(b)
        BY <4>1, ProtectedRegion
      <4>3. vm_op[u].base \in Memory!Pages(b)
        BY <4>1, <4>2, ProtectedRegion
      <4> QED
        BY <1>3, <4>1, <4>3, OwnersDisjoint
    <3> QED
      BY <3>1, <3>2
  <2> QED
    BY <2>1, <2>2
<1>12. Memory!IdsApart'
  <2>1. \A b \in DOMAIN vm_regions' : vm_regions'[b].id \in 1 .. vm_allocs
    BY <1>4, <1>7, <1>9 DEF Memory!IdsApart
  <2>2. \A b, c \in DOMAIN vm_regions' : vm_regions'[b].id = vm_regions'[c].id => b = c
    BY <1>3, <1>7, <1>9 DEF Memory!IdsApart
  <2>3. \A b \in DOMAIN vm_regions', u \in Thread : Memory!Owning(u)' => vm_regions'[b].id # vm_op'[u].id
    BY <1>2, <1>3, <1>7, <1>9 DEF Memory!IdsApart
  <2>4. \A u, v \in Thread : Memory!Owning(u)' /\ Memory!Owning(v)' /\ vm_op'[u].id = vm_op'[v].id => u = v
    BY <1>2, <1>3 DEF Memory!IdsApart
  <2>5. \A u \in Thread : Memory!Owning(u)' => vm_op'[u].id \in 1 .. vm_allocs
    BY <1>2, <1>3 DEF Memory!IdsApart
  <2>6. /\ \A b \in DOMAIN vm_regions' : vm_regions'[b].id \notin vm_orphans
        /\ \A u \in Thread : Memory!Owning(u)' => vm_op'[u].id \notin vm_orphans
    BY <1>2, <1>3, <1>7, <1>9 DEF Memory!IdsApart
  <2> QED
    BY <1>1, <2>1, <2>2, <2>3, <2>4, <2>5, <2>6 DEF Memory!IdsApart
<1>13. Memory!OwnPagesMapped'
  <2>1. ASSUME NEW b \in DOMAIN vm_regions', NEW p \in Memory!Pages(b)'
        PROVE  p \in Memory!Page /\ vm_kernel[p].id = vm_regions'[b].id
    <3>1. CASE b = B
      BY <1>3, <1>7, <1>8, <1>9, <2>1, <3>1 DEF Memory!OwnPagesMapped
    <3>2. CASE b # B
      BY <1>7, <1>8, <2>1, <3>2 DEF Memory!OwnPagesMapped
    <3> QED
      BY <3>1, <3>2
  <2>2. \A u \in Thread : Memory!Owning(u)' =>
          \A p \in Memory!OpPages(u)' : p \in Memory!Page /\ vm_kernel[p].id = vm_op'[u].id
    BY <1>2, <1>3 DEF Memory!OwnPagesMapped
  <2> QED
    BY <1>1, <2>1, <2>2 DEF Memory!OwnPagesMapped
<1>14. Memory!MappedPagesOwned'
  BY <1>1, <1>3, <1>7, <1>8 DEF Memory!MappedPagesOwned
<1>15. Memory!OpsInPlace'
  <2>1. \A u \in Thread : vm_pc'[u] = "idle" \/ Memory!Owning(u)' \/ Memory!Protecting(u)'
    BY <1>2, <1>3 DEF Memory!OpsInPlace
  <2>2. \A u \in Thread : Memory!Owning(u)' => vm_op'[u].base \in Memory!Page /\ vm_op'[u].size \in 1 .. MaxPages
    BY <1>2, <1>3 DEF Memory!OpsInPlace
  <2>3. ASSUME NEW u \in Thread, Memory!Protecting(u)'
        PROVE  vm_op'[u].size > 0 /\ \E b \in DOMAIN vm_regions' : Memory!OpPages(u)' \subseteq Memory!Pages(b)'
    <3>1. u # t /\ Memory!Protecting(u)
      BY <1>3, <2>3
    <3>2. vm_op[u].size > 0 /\ \E b \in DOMAIN vm_regions : Memory!OpPages(u) \subseteq Memory!Pages(b)
      BY <3>1 DEF Memory!OpsInPlace
    <3> QED
      BY <1>2, <1>3, <1>7, <1>8, <3>1, <3>2
  <2>4. \A u, v \in Thread, b \in DOMAIN vm_regions' :
          Memory!Inside(u, b)' /\ Memory!Inside(v, b)' /\ vm_regions'[b].id \notin vm_mixed' => u = v
    BY <1>1, <1>7, <1>11 DEF Memory!OpsInPlace
  <2> QED
    BY <2>1, <2>2, <2>3, <2>4 DEF Memory!OpsInPlace
<1>16. Memory!ProtectionsKnown'
  <2>1. \A b \in DOMAIN vm_regions' : vm_regions'[b].prot \in Memory!Representable
    BY <1>4, <1>7, <1>9 DEF Memory!ProtectionsKnown
  <2>2. \A u \in Thread : vm_pc'[u] # "idle" => vm_op'[u].prot \in Memory!Representable /\ vm_op'[u].old \in Memory!Representable
    BY <1>2 DEF Memory!ProtectionsKnown
  <2>3. \A u \in Thread : vm_pc'[u] = "alloc_insert" => \A p \in Memory!OpPages(u)' : vm_kernel[p].prot = vm_op'[u].prot
    BY <1>2, <1>3 DEF Memory!ProtectionsKnown
  <2> QED
    BY <1>1, <2>1, <2>2, <2>3 DEF Memory!ProtectionsKnown
<1>17. Memory!Settled'
  <2>1. SUFFICES ASSUME NEW b \in DOMAIN vm_regions', vm_regions'[b].id \notin vm_mixed',
                        \A u \in Thread : vm_pc'[u] = "protect_update" => ~Memory!Inside(u, b)',
                        NEW p \in Memory!Pages(b)'
                 PROVE  vm_kernel'[p].prot = vm_regions'[b].prot
    BY DEF Memory!Settled
  <2>2. CASE b = B
    BY <1>1, <1>7, <1>8, <1>9, <2>1, <2>2 DEF Memory!ProtectionsKnown
  <2>3. CASE b # B
    <3>1. b \in DOMAIN vm_regions /\ vm_regions'[b] = vm_regions[b] /\ Memory!Pages(b)' = Memory!Pages(b)
      BY <1>7, <1>8, <2>3
    <3>2. \A u \in Thread : vm_pc[u] = "protect_update" => ~Memory!Inside(u, b)
      BY <1>1, <1>2, <1>11, <2>1, <3>1
    <3> QED
      BY <1>1, <2>1, <3>1, <3>2 DEF Memory!Settled
  <2> QED
    BY <2>2, <2>3
<1>18. Memory!UpdatesWhole'
  <2>1. SUFFICES ASSUME NEW u \in Thread, NEW b \in DOMAIN vm_regions', vm_pc'[u] = "protect_update",
                        Memory!Inside(u, b)', vm_regions'[b].id \notin vm_mixed'
                 PROVE  vm_op'[u].base = b /\ \A p \in Memory!Pages(b)' : vm_kernel'[p].prot = vm_op'[u].prot
    BY DEF Memory!UpdatesWhole
  <2>2. u # t /\ b \in DOMAIN vm_regions /\ Memory!Inside(u, b)
    BY <1>2, <1>7, <1>11, <2>1
  <2> QED
    BY <1>1, <1>2, <1>7, <1>8, <2>1, <2>2 DEF Memory!UpdatesWhole
<1>19. Memory!OldIsTrue'
  <2>1. SUFFICES ASSUME NEW u \in Thread, NEW b \in DOMAIN vm_regions', vm_pc'[u] = "protect",
                        Memory!Inside(u, b)', vm_regions'[b].id \notin vm_mixed'
                 PROVE  vm_op'[u].old = vm_op'[u].was
    BY DEF Memory!OldIsTrue
  <2>2. u # t /\ b \in DOMAIN vm_regions /\ Memory!Inside(u, b)
    BY <1>2, <1>7, <1>11, <2>1
  <2> QED
    BY <1>1, <1>2, <1>7, <2>1, <2>2 DEF Memory!OldIsTrue
<1>20. Memory!ReportsTrue'
  BY <1>1 DEF Memory!ReportsTrue
<1> QED
  BY <1>10, <1>12, <1>13, <1>14, <1>15, <1>16, <1>17, <1>18, <1>19, <1>20

\* virtual_free's removal hands the mapping over to the call.
LEMMA ReleaseRemoveInv ==
  ASSUME Memory!MemoryInv, NEW t \in Thread, NEW B \in Memory!Page, Memory!ReleaseRemove(t, B)
  PROVE  Memory!MemoryInv'
<1> USE DEF Memory!MemoryInv
<1>1. /\ vm_pc[t] = "idle" /\ B \in DOMAIN vm_regions /\ ~Memory!Busy(B)
      /\ vm_regions' = [x \in DOMAIN vm_regions \ {B} |-> vm_regions[x]]
      /\ Memory!Goto(t, "release_unmap",
               [Memory!NoOp EXCEPT !.base = B, !.size = vm_regions[B].size, !.id = vm_regions[B].id])
      /\ UNCHANGED <<vm_kernel, vm_allocs, vm_reported, vm_mixed, vm_orphans>>
  BY DEF Memory!ReleaseRemove, Memory!Forget
<1>2. PICK o : o = [Memory!NoOp EXCEPT !.base = B, !.size = vm_regions[B].size, !.id = vm_regions[B].id]
  OBVIOUS
<1>3. /\ vm_pc'[t] = "release_unmap" /\ vm_op'[t] = o
      /\ \A u \in Thread \ {t} : vm_pc'[u] = vm_pc[u] /\ vm_op'[u] = vm_op[u]
      /\ vm_op' = [vm_op EXCEPT ![t] = o] /\ vm_pc' = [vm_pc EXCEPT ![t] = "release_unmap"]
      /\ o.base = B /\ o.size = vm_regions[B].size /\ o.id = vm_regions[B].id /\ o.prot = {} /\ o.old = {}
      /\ o \in [base : Nat, size : Nat, prot : Memory!Prot, id : Nat, old : Memory!Prot, was : Memory!Prot]
      /\ vm_regions[B].size \in 1 .. MaxPages /\ vm_regions[B].id \in 1 .. vm_allocs
  <2>1. B \in Nat /\ vm_regions[B].size \in Nat /\ vm_regions[B].id \in Nat
    BY <1>1, RegionPages DEF Memory!TypeOK
  <2>2. o = [base |-> B, size |-> vm_regions[B].size, prot |-> {}, id |-> vm_regions[B].id,
             old |-> {}, was |-> {}]
    BY <1>2 DEF Memory!NoOp
  <2>3. vm_op' = [vm_op EXCEPT ![t] = o] /\ vm_pc' = [vm_pc EXCEPT ![t] = "release_unmap"]
    BY <1>1, <1>2 DEF Memory!Goto
  <2>4. /\ vm_pc'[t] = "release_unmap" /\ vm_op'[t] = o
        /\ \A u \in Thread \ {t} : vm_pc'[u] = vm_pc[u] /\ vm_op'[u] = vm_op[u]
    BY <2>3 DEF Memory!TypeOK
  <2>5. /\ o.base = B /\ o.size = vm_regions[B].size /\ o.id = vm_regions[B].id /\ o.prot = {} /\ o.old = {}
        /\ o \in [base : Nat, size : Nat, prot : Memory!Prot, id : Nat, old : Memory!Prot, was : Memory!Prot]
    BY <2>1, <2>2 DEF Memory!Prot
  <2> QED
    BY <1>1, <2>3, <2>4, <2>5, RegionPages
<1>4. /\ ~Memory!Owning(t) /\ Memory!Owning(t)' /\ ~Memory!Protecting(t) /\ ~Memory!Protecting(t)'
      /\ \A u \in Thread \ {t} :
           /\ Memory!Owning(u)' = Memory!Owning(u) /\ Memory!Protecting(u)' = Memory!Protecting(u)
           /\ Memory!OpPages(u)' = Memory!OpPages(u)
  BY <1>1, <1>3 DEF Memory!Owning, Memory!Protecting, Memory!OpPages
<1>5. /\ DOMAIN vm_regions' = DOMAIN vm_regions \ {B}
      /\ \A b \in DOMAIN vm_regions' : b # B /\ vm_regions'[b] = vm_regions[b] /\ Memory!Pages(b)' = Memory!Pages(b)
      /\ Memory!OpPages(t)' = Memory!Pages(B)
  BY <1>1, <1>3 DEF Memory!Pages, Memory!OpPages
<1>6. \A u \in Thread, b \in DOMAIN vm_regions' : Memory!Inside(u, b)' = Memory!Inside(u, b)
  BY <1>3, <1>4, <1>5 DEF Memory!Inside
<1>7. Memory!TypeOK'
  <2>1. DOMAIN vm_regions' \subseteq Memory!Page
    BY <1>5 DEF Memory!TypeOK
  <2>2. \A b \in DOMAIN vm_regions' : vm_regions'[b] \in [id : Nat, size : 1 .. MaxPages, prot : Memory!Prot]
    BY <1>5 DEF Memory!TypeOK
  <2> QED
    BY <1>1, <1>3, <2>1, <2>2 DEF Memory!TypeOK
<1>8. Memory!IdsApart'
  <2>1. \A b \in DOMAIN vm_regions' : vm_regions'[b].id \in 1 .. vm_allocs
    BY <1>5 DEF Memory!IdsApart
  <2>2. \A b, c \in DOMAIN vm_regions' : vm_regions'[b].id = vm_regions'[c].id => b = c
    BY <1>5 DEF Memory!IdsApart
  <2>3. \A b \in DOMAIN vm_regions', u \in Thread : Memory!Owning(u)' => vm_regions'[b].id # vm_op'[u].id
    BY <1>1, <1>3, <1>4, <1>5 DEF Memory!IdsApart
  <2>4. \A u, v \in Thread : Memory!Owning(u)' /\ Memory!Owning(v)' /\ vm_op'[u].id = vm_op'[v].id => u = v
    BY <1>1, <1>3, <1>4 DEF Memory!IdsApart
  <2>5. \A u \in Thread : Memory!Owning(u)' => vm_op'[u].id \in 1 .. vm_allocs
    BY <1>3, <1>4 DEF Memory!IdsApart
  <2>6. /\ \A b \in DOMAIN vm_regions' : vm_regions'[b].id \notin vm_orphans
        /\ \A u \in Thread : Memory!Owning(u)' => vm_op'[u].id \notin vm_orphans
    BY <1>1, <1>3, <1>4, <1>5 DEF Memory!IdsApart
  <2> QED
    BY <1>1, <2>1, <2>2, <2>3, <2>4, <2>5, <2>6 DEF Memory!IdsApart
<1>9. Memory!OwnPagesMapped'
  <2>1. \A b \in DOMAIN vm_regions' : \A p \in Memory!Pages(b)' : p \in Memory!Page /\ vm_kernel[p].id = vm_regions'[b].id
    BY <1>5 DEF Memory!OwnPagesMapped
  <2>2. ASSUME NEW u \in Thread, Memory!Owning(u)', NEW p \in Memory!OpPages(u)'
        PROVE  p \in Memory!Page /\ vm_kernel[p].id = vm_op'[u].id
    <3>1. CASE u = t
      BY <1>1, <1>3, <1>5, <2>2, <3>1 DEF Memory!OwnPagesMapped
    <3>2. CASE u # t
      BY <1>3, <1>4, <2>2, <3>2 DEF Memory!OwnPagesMapped
    <3> QED
      BY <3>1, <3>2
  <2> QED
    BY <1>1, <2>1, <2>2 DEF Memory!OwnPagesMapped
<1>10. Memory!MappedPagesOwned'
  <2>1. SUFFICES ASSUME NEW p \in Memory!Page, vm_kernel[p].id # 0
                 PROVE  \/ \E b \in DOMAIN vm_regions' : p \in Memory!Pages(b)'
                        \/ \E u \in Thread : Memory!Owning(u)' /\ p \in Memory!OpPages(u)'
                        \/ vm_kernel[p].id \in vm_orphans
    BY <1>1 DEF Memory!MappedPagesOwned
  <2>2. CASE \E b \in DOMAIN vm_regions : p \in Memory!Pages(b)
    BY <1>4, <1>5, <2>2
  <2>3. CASE \E u \in Thread : Memory!Owning(u) /\ p \in Memory!OpPages(u)
    BY <1>4, <2>3
  <2> QED
    BY <2>1, <2>2, <2>3 DEF Memory!MappedPagesOwned
<1>11. Memory!OpsInPlace'
  <2>1. \A u \in Thread : vm_pc'[u] = "idle" \/ Memory!Owning(u)' \/ Memory!Protecting(u)'
    BY <1>3, <1>4 DEF Memory!OpsInPlace
  <2>2. \A u \in Thread : Memory!Owning(u)' => vm_op'[u].base \in Memory!Page /\ vm_op'[u].size \in 1 .. MaxPages
    BY <1>3, <1>4 DEF Memory!OpsInPlace
  <2>3. ASSUME NEW u \in Thread, Memory!Protecting(u)'
        PROVE  vm_op'[u].size > 0 /\ \E b \in DOMAIN vm_regions' : Memory!OpPages(u)' \subseteq Memory!Pages(b)'
    <3>1. u # t /\ Memory!Protecting(u)
      BY <1>4, <2>3
    <3>2. PICK b \in DOMAIN vm_regions : Memory!OpPages(u) \subseteq Memory!Pages(b) /\ Memory!Inside(u, b)
      BY <3>1, ProtectedRegion
    <3>3. b # B
      BY <1>1, <3>2, NotBusy
    <3>4. vm_op[u].size > 0
      BY <3>1 DEF Memory!OpsInPlace
    <3> QED
      BY <1>3, <1>4, <1>5, <3>1, <3>2, <3>3, <3>4
  <2>4. \A u, v \in Thread, b \in DOMAIN vm_regions' :
          Memory!Inside(u, b)' /\ Memory!Inside(v, b)' /\ vm_regions'[b].id \notin vm_mixed' => u = v
    BY <1>1, <1>5, <1>6 DEF Memory!OpsInPlace
  <2> QED
    BY <2>1, <2>2, <2>3, <2>4 DEF Memory!OpsInPlace
<1>12. Memory!ProtectionsKnown'
  <2>1. \A b \in DOMAIN vm_regions' : vm_regions'[b].prot \in Memory!Representable
    BY <1>5 DEF Memory!ProtectionsKnown
  <2>2. \A u \in Thread : vm_pc'[u] # "idle" => vm_op'[u].prot \in Memory!Representable /\ vm_op'[u].old \in Memory!Representable
    BY <1>3, ProtectionRoundTrip DEF Memory!ProtectionsKnown
  <2>3. \A u \in Thread : vm_pc'[u] = "alloc_insert" => \A p \in Memory!OpPages(u)' : vm_kernel[p].prot = vm_op'[u].prot
    BY <1>3, <1>4 DEF Memory!ProtectionsKnown
  <2> QED
    BY <1>1, <2>1, <2>2, <2>3 DEF Memory!ProtectionsKnown
<1>13. Memory!Settled'
  <2>1. SUFFICES ASSUME NEW b \in DOMAIN vm_regions', vm_regions'[b].id \notin vm_mixed',
                        \A u \in Thread : vm_pc'[u] = "protect_update" => ~Memory!Inside(u, b)',
                        NEW p \in Memory!Pages(b)'
                 PROVE  vm_kernel'[p].prot = vm_regions'[b].prot
    BY DEF Memory!Settled
  <2>2. b \in DOMAIN vm_regions /\ vm_regions'[b] = vm_regions[b] /\ Memory!Pages(b)' = Memory!Pages(b)
    BY <1>5
  <2>3. \A u \in Thread : vm_pc[u] = "protect_update" => ~Memory!Inside(u, b)
    BY <1>1, <1>3, <1>6, <2>1
  <2> QED
    BY <1>1, <2>1, <2>2, <2>3 DEF Memory!Settled
<1>14. Memory!UpdatesWhole' /\ Memory!OldIsTrue'
  <2>1. \A u \in Thread : vm_pc'[u] \in {"protect", "protect_update"} =>
          u # t /\ vm_pc[u] = vm_pc'[u] /\ vm_op'[u] = vm_op[u]
    BY <1>3
  <2>2. Memory!UpdatesWhole'
    BY <1>1, <1>5, <1>6, <2>1 DEF Memory!UpdatesWhole
  <2>3. Memory!OldIsTrue'
    BY <1>1, <1>5, <1>6, <2>1 DEF Memory!OldIsTrue
  <2> QED
    BY <2>2, <2>3
<1>15. Memory!ReportsTrue'
  BY <1>1 DEF Memory!ReportsTrue
<1> QED
  BY <1>7, <1>8, <1>9, <1>10, <1>11, <1>12, <1>13, <1>14, <1>15

\* virtual_protect enters a region and, when alone there, reads the protection
\* its pages have.
LEMMA VirtualProtectInv ==
  ASSUME Memory!MemoryInv, NEW t \in Thread, NEW B \in Memory!Page, Memory!virtual_protect(t, B)
  PROVE  Memory!MemoryInv'
<1> USE DEF Memory!MemoryInv
<1>1. /\ vm_pc[t] = "idle" /\ B \in DOMAIN vm_regions
      /\ UNCHANGED <<vm_regions, vm_kernel, vm_allocs, vm_reported, vm_orphans>>
      /\ vm_mixed' = IF Memory!ProtectedByOthers(t, B)
                     THEN vm_mixed \cup {vm_regions[B].id} ELSE vm_mixed
  BY DEF Memory!virtual_protect
<1>2. PICK lo \in Memory!Run(B, vm_regions[B].size), w \in WinProt :
        \E n \in 1 .. (B + vm_regions[B].size - lo) :
          Memory!Goto(t, "protect",
                [Memory!NoOp EXCEPT !.base = lo, !.size = n, !.prot = Memory!win_prot_to_linux(w),
                   !.old = vm_regions[CHOOSE c \in Memory!containing(lo) : TRUE].prot,
                   !.was = vm_kernel[lo].prot])
  BY DEF Memory!virtual_protect
<1>3. PICK n \in 1 .. (B + vm_regions[B].size - lo) :
        Memory!Goto(t, "protect",
              [Memory!NoOp EXCEPT !.base = lo, !.size = n, !.prot = Memory!win_prot_to_linux(w),
                 !.old = vm_regions[CHOOSE c \in Memory!containing(lo) : TRUE].prot,
                 !.was = vm_kernel[lo].prot])
  BY <1>2
<1>4. PICK o : o = [Memory!NoOp EXCEPT !.base = lo, !.size = n, !.prot = Memory!win_prot_to_linux(w),
                      !.old = vm_regions[CHOOSE c \in Memory!containing(lo) : TRUE].prot,
                      !.was = vm_kernel[lo].prot]
  OBVIOUS
<1>5. lo \in Memory!Pages(B) /\ lo \in Memory!Page /\ lo \in Nat
  BY <1>1, RegionPages DEF Memory!Pages
<1>6. /\ o.base = lo /\ o.size = n /\ o.prot = Memory!win_prot_to_linux(w)
      /\ o.old = vm_regions[B].prot /\ o.was = vm_kernel[lo].prot
      /\ o \in [base : Nat, size : Nat, prot : Memory!Prot, id : Nat, old : Memory!Prot, was : Memory!Prot]
  <2>1. (CHOOSE c \in Memory!containing(lo) : TRUE) = B
    BY <1>1, <1>5, ContainingRegion
  <2>2. o = [base |-> lo, size |-> n, prot |-> Memory!win_prot_to_linux(w), id |-> 0,
             old |-> vm_regions[B].prot, was |-> vm_kernel[lo].prot]
    <3>1. o = [Memory!NoOp EXCEPT !.base = lo, !.size = n, !.prot = Memory!win_prot_to_linux(w),
                 !.old = vm_regions[B].prot, !.was = vm_kernel[lo].prot]
      BY <1>4, <2>1
    <3> QED
      BY <3>1 DEF Memory!NoOp
  <2>3. n \in Nat
    OBVIOUS
  <2>4. vm_regions[B].prot \in Memory!Prot /\ vm_kernel[lo].prot \in Memory!Prot
    BY <1>1, <1>5 DEF Memory!TypeOK
  <2>5. Memory!win_prot_to_linux(w) \in Memory!Prot
    BY ProtectionRoundTrip
  <2> QED
    BY <1>5, <2>2, <2>3, <2>4, <2>5
<1>7. /\ vm_pc'[t] = "protect" /\ vm_op'[t] = o
      /\ \A u \in Thread \ {t} : vm_pc'[u] = vm_pc[u] /\ vm_op'[u] = vm_op[u]
      /\ vm_op' = [vm_op EXCEPT ![t] = o] /\ vm_pc' = [vm_pc EXCEPT ![t] = "protect"]
  <2>1. vm_op' = [vm_op EXCEPT ![t] = o] /\ vm_pc' = [vm_pc EXCEPT ![t] = "protect"]
    BY <1>3, <1>4 DEF Memory!Goto
  <2> QED
    BY <2>1 DEF Memory!TypeOK
<1>8. /\ ~Memory!Owning(t) /\ ~Memory!Owning(t)' /\ ~Memory!Protecting(t) /\ Memory!Protecting(t)'
      /\ \A u \in Thread \ {t} :
           /\ Memory!Owning(u)' = Memory!Owning(u) /\ Memory!Protecting(u)' = Memory!Protecting(u)
           /\ Memory!OpPages(u)' = Memory!OpPages(u)
  BY <1>1, <1>7 DEF Memory!Owning, Memory!Protecting, Memory!OpPages
<1>9. \A b \in DOMAIN vm_regions : Memory!Pages(b)' = Memory!Pages(b)
  BY <1>1 DEF Memory!Pages
<1>10. Memory!OpPages(t)' \subseteq Memory!Pages(B)
  <2>1. Memory!OpPages(t)' = Memory!Run(lo, n)
    BY <1>6, <1>7 DEF Memory!OpPages
  <2>2. B \in Nat /\ vm_regions[B].size \in Nat /\ lo >= B
    BY <1>1, <1>5, RegionPages DEF Memory!Run
  <2> QED
    BY SMTT(30), <1>5, <2>1, <2>2 DEF Memory!Run, Memory!Pages
<1>11. /\ Memory!Inside(t, B)'
       /\ \A b \in DOMAIN vm_regions : Memory!Inside(t, b)' => b = B
       /\ \A u \in Thread \ {t}, b \in DOMAIN vm_regions : Memory!Inside(u, b)' = Memory!Inside(u, b)
       /\ vm_regions[B].id \notin vm_mixed' => \A u \in Thread \ {t} : ~Memory!Inside(u, B)
       /\ \A b \in DOMAIN vm_regions : vm_regions[b].id \notin vm_mixed' =>
            vm_regions[b].id \notin vm_mixed
  <2>1. Memory!Inside(t, B)'
    BY <1>1, <1>5, <1>6, <1>7, <1>8, <1>9 DEF Memory!Inside
  <2>2. \A b \in DOMAIN vm_regions : Memory!Inside(t, b)' => b = B
    BY <1>1, <1>5, <1>6, <1>7, <1>9, OneRegion DEF Memory!Inside
  <2>3. \A u \in Thread \ {t}, b \in DOMAIN vm_regions : Memory!Inside(u, b)' = Memory!Inside(u, b)
    BY <1>7, <1>8, <1>9 DEF Memory!Inside
  <2>4. vm_regions[B].id \notin vm_mixed' => \A u \in Thread \ {t} : ~Memory!Inside(u, B)
    BY <1>1 DEF Memory!ProtectedByOthers, Memory!Inside, Memory!Pages
  <2>5. \A b \in DOMAIN vm_regions : vm_regions[b].id \notin vm_mixed' =>
          vm_regions[b].id \notin vm_mixed
    BY <1>1
  <2> QED
    BY <2>1, <2>2, <2>3, <2>4, <2>5
<1>12. Memory!TypeOK'
  BY <1>1, <1>6, <1>7 DEF Memory!TypeOK
<1>13. Memory!IdsApart'
  BY <1>1, <1>7, <1>8 DEF Memory!IdsApart
<1>14. Memory!OwnPagesMapped' /\ Memory!MappedPagesOwned'
  <2>1. Memory!OwnPagesMapped'
    BY <1>1, <1>7, <1>8, <1>9 DEF Memory!OwnPagesMapped
  <2>2. Memory!MappedPagesOwned'
    BY <1>1, <1>7, <1>8, <1>9 DEF Memory!MappedPagesOwned
  <2> QED
    BY <2>1, <2>2
<1>15. Memory!OpsInPlace'
  <2>1. \A u \in Thread : vm_pc'[u] = "idle" \/ Memory!Owning(u)' \/ Memory!Protecting(u)'
    BY <1>7, <1>8 DEF Memory!OpsInPlace
  <2>2. \A u \in Thread : Memory!Owning(u)' => vm_op'[u].base \in Memory!Page /\ vm_op'[u].size \in 1 .. MaxPages
    BY <1>7, <1>8 DEF Memory!OpsInPlace
  <2>3. ASSUME NEW u \in Thread, Memory!Protecting(u)'
        PROVE  vm_op'[u].size > 0 /\ \E b \in DOMAIN vm_regions : Memory!OpPages(u)' \subseteq Memory!Pages(b)'
    <3>1. CASE u = t
      BY <1>1, <1>6, <1>7, <1>9, <1>10, <3>1
    <3>2. CASE u # t
      <4>1. vm_op[u].size > 0 /\ \E b \in DOMAIN vm_regions : Memory!OpPages(u) \subseteq Memory!Pages(b)
        BY <1>8, <2>3, <3>2 DEF Memory!OpsInPlace
      <4> QED
        BY <1>7, <1>8, <1>9, <3>2, <4>1
    <3> QED
      BY <3>1, <3>2
  <2>4. \A u, v \in Thread, b \in DOMAIN vm_regions :
          Memory!Inside(u, b)' /\ Memory!Inside(v, b)' /\ vm_regions[b].id \notin vm_mixed' => u = v
    BY <1>11 DEF Memory!OpsInPlace
  <2> QED
    BY <1>1, <2>1, <2>2, <2>3, <2>4 DEF Memory!OpsInPlace
<1>16. Memory!ProtectionsKnown'
  <2>1. \A u \in Thread : vm_pc'[u] # "idle" => vm_op'[u].prot \in Memory!Representable /\ vm_op'[u].old \in Memory!Representable
    BY <1>1, <1>6, <1>7, ProtectionRoundTrip DEF Memory!ProtectionsKnown
  <2>2. \A u \in Thread : vm_pc'[u] = "alloc_insert" => \A p \in Memory!OpPages(u)' : vm_kernel[p].prot = vm_op'[u].prot
    BY <1>7, <1>8 DEF Memory!ProtectionsKnown
  <2> QED
    BY <1>1, <2>1, <2>2 DEF Memory!ProtectionsKnown
<1>17. Memory!Settled'
  <2>1. SUFFICES ASSUME NEW b \in DOMAIN vm_regions, vm_regions[b].id \notin vm_mixed',
                        \A u \in Thread : vm_pc'[u] = "protect_update" => ~Memory!Inside(u, b)',
                        NEW p \in Memory!Pages(b)
                 PROVE  vm_kernel[p].prot = vm_regions[b].prot
    BY <1>1, <1>9 DEF Memory!Settled
  <2>2. \A u \in Thread : vm_pc[u] = "protect_update" => ~Memory!Inside(u, b)
    BY <1>1, <1>7, <1>11, <2>1
  <2> QED
    BY <1>11, <2>1, <2>2 DEF Memory!Settled
<1>18. Memory!UpdatesWhole'
  <2>1. \A u \in Thread : vm_pc'[u] = "protect_update" => u # t
    BY <1>7
  <2> QED
    BY <1>1, <1>7, <1>9, <1>11, <2>1 DEF Memory!UpdatesWhole
<1>19. Memory!OldIsTrue'
  <2>1. SUFFICES ASSUME NEW u \in Thread, NEW b \in DOMAIN vm_regions, vm_pc'[u] = "protect",
                        Memory!Inside(u, b)', vm_regions[b].id \notin vm_mixed'
                 PROVE  vm_op'[u].old = vm_op'[u].was
    BY <1>1 DEF Memory!OldIsTrue
  <2>2. CASE u = t
    <3>1. b = B /\ \A v \in Thread : vm_pc[v] = "protect_update" => ~Memory!Inside(v, B)
      BY <1>1, <1>11, <2>1, <2>2
    <3>2. vm_kernel[lo].prot = vm_regions[B].prot
      BY <1>1, <1>5, <1>11, <2>1, <2>2, <3>1 DEF Memory!Settled
    <3> QED
      BY <1>6, <1>7, <2>2, <3>2
  <2>3. CASE u # t
    BY <1>7, <1>11, <2>1, <2>3 DEF Memory!OldIsTrue
  <2> QED
    BY <2>2, <2>3
<1>20. Memory!ReportsTrue'
  BY <1>1 DEF Memory!ReportsTrue
<1> QED
  BY <1>12, <1>13, <1>14, <1>15, <1>16, <1>17, <1>18, <1>19, <1>20

\* A protecting call that goes on, or returns, keeps its pages and its region.
LEMMA ProtectingStep ==
  ASSUME Memory!MemoryInv, NEW t \in Thread, Memory!Protecting(t), DOMAIN vm_regions' = DOMAIN vm_regions,
         \A b \in DOMAIN vm_regions : /\ vm_regions'[b].id = vm_regions[b].id
                                    /\ vm_regions'[b].size = vm_regions[b].size,
         \A p \in Memory!Page : vm_kernel'[p].id = vm_kernel[p].id,
         \A u \in Thread \ {t} : vm_pc'[u] = vm_pc[u] /\ vm_op'[u] = vm_op[u],
         \/ vm_pc'[t] = "idle"
         \/ /\ Memory!Protecting(t)'
            /\ vm_op'[t].base = vm_op[t].base /\ vm_op'[t].size = vm_op[t].size,
         \A b \in DOMAIN vm_regions : vm_regions[b].id \notin vm_mixed' =>
           \/ vm_regions[b].id \notin vm_mixed
           \/ \A u, v \in Thread : Memory!Inside(u, b) /\ Memory!Inside(v, b) => u = v,
         vm_allocs' = vm_allocs, vm_orphans' = vm_orphans
  PROVE  /\ Memory!IdsApart' /\ Memory!OwnPagesMapped' /\ Memory!MappedPagesOwned' /\ Memory!OpsInPlace'
         /\ \A b \in DOMAIN vm_regions : Memory!Pages(b)' = Memory!Pages(b)
         /\ \A u \in Thread, b \in DOMAIN vm_regions : Memory!Inside(u, b)' => Memory!Inside(u, b)
         /\ \A u \in Thread \ {t}, b \in DOMAIN vm_regions : Memory!Inside(u, b)' = Memory!Inside(u, b)
<1> USE DEF Memory!MemoryInv
<1>1. \A b \in DOMAIN vm_regions : Memory!Pages(b)' = Memory!Pages(b)
  BY DEF Memory!Pages
<1>2. /\ ~Memory!Owning(t) /\ ~Memory!Owning(t)'
      /\ \A u \in Thread \ {t} :
           /\ Memory!Owning(u)' = Memory!Owning(u) /\ Memory!Protecting(u)' = Memory!Protecting(u)
           /\ Memory!OpPages(u)' = Memory!OpPages(u)
  BY DEF Memory!Owning, Memory!Protecting, Memory!OpPages
<1>3. \A u \in Thread : Memory!Protecting(u)' =>
        /\ Memory!Protecting(u) /\ Memory!OpPages(u)' = Memory!OpPages(u)
        /\ vm_op'[u].base = vm_op[u].base /\ vm_op'[u].size = vm_op[u].size
  BY <1>2 DEF Memory!Protecting, Memory!OpPages
<1>4. \A u \in Thread, b \in DOMAIN vm_regions : Memory!Inside(u, b)' => Memory!Inside(u, b)
  BY <1>1, <1>3 DEF Memory!Inside
<1>5. \A u \in Thread \ {t}, b \in DOMAIN vm_regions : Memory!Inside(u, b)' = Memory!Inside(u, b)
  BY <1>1, <1>2 DEF Memory!Inside
<1>6. Memory!IdsApart'
  BY <1>2 DEF Memory!IdsApart
<1>7. Memory!OwnPagesMapped'
  BY <1>1, <1>2 DEF Memory!OwnPagesMapped
<1>8. Memory!MappedPagesOwned'
  BY <1>1, <1>2 DEF Memory!MappedPagesOwned
<1>9. Memory!OpsInPlace'
  <2>1. \A u \in Thread : vm_pc'[u] = "idle" \/ Memory!Owning(u)' \/ Memory!Protecting(u)'
    BY <1>2 DEF Memory!OpsInPlace
  <2>2. \A u \in Thread : Memory!Owning(u)' => vm_op'[u].base \in Memory!Page /\ vm_op'[u].size \in 1 .. MaxPages
    BY <1>2 DEF Memory!OpsInPlace
  <2>3. ASSUME NEW u \in Thread, Memory!Protecting(u)'
        PROVE  vm_op'[u].size > 0 /\ \E b \in DOMAIN vm_regions : Memory!OpPages(u)' \subseteq Memory!Pages(b)'
    <3>1. vm_op[u].size > 0 /\ \E b \in DOMAIN vm_regions : Memory!OpPages(u) \subseteq Memory!Pages(b)
      BY <1>3, <2>3 DEF Memory!OpsInPlace
    <3> QED
      BY <1>1, <1>3, <2>3, <3>1
  <2>4. \A u, v \in Thread, b \in DOMAIN vm_regions :
          Memory!Inside(u, b)' /\ Memory!Inside(v, b)' /\ vm_regions'[b].id \notin vm_mixed' => u = v
    BY <1>4 DEF Memory!OpsInPlace
  <2> QED
    BY <2>1, <2>2, <2>3, <2>4 DEF Memory!OpsInPlace
<1> QED
  BY <1>1, <1>4, <1>5, <1>6, <1>7, <1>8, <1>9

\* mprotect changes pages of one region only; a whole region's pages then have
\* the protection its update is about to record.
LEMMA ProtectPagesInv ==
  ASSUME Memory!MemoryInv, NEW t \in Thread, Memory!ProtectPages(t)
  PROVE  Memory!MemoryInv'
<1> USE DEF Memory!MemoryInv
<1>1. vm_pc[t] = "protect" /\ Memory!Protecting(t)
  BY DEF Memory!ProtectPages, Memory!Protecting
<1>2. PICK B \in DOMAIN vm_regions :
        /\ Memory!OpPages(t) \subseteq Memory!Pages(B) /\ Memory!Inside(t, B)
        /\ \A c \in DOMAIN vm_regions : Memory!Inside(t, c) => c = B
  BY <1>1, ProtectedRegion
<1>3. vm_op[t].base \in Memory!Pages(B) /\ vm_op[t].base \in Nat /\ vm_op[t].size \in Nat
  BY <1>1, <1>2, ProtectedRegion
<1>4. (CHOOSE b \in Memory!containing(vm_op[t].base) : TRUE) = B
  BY <1>3, ContainingRegion
<1> DEFINE rid == vm_regions[B].id
<1>5. /\ Memory!Protect(Memory!OpPages(t), vm_op[t].prot)
      /\ Memory!Goto(t, "protect_update", [vm_op[t] EXCEPT !.old = {}, !.was = {}])
      /\ vm_reported' = [vm_reported EXCEPT ![t] =
                         IF rid \in vm_mixed THEN Memory!NoReport
                         ELSE [win |-> Memory!linux_prot_to_win(vm_op[t].old), was |-> vm_op[t].was]]
      /\ vm_mixed' = IF vm_op[t].size = vm_regions[B].size /\ ~Memory!ProtectedByOthers(t, B)
                     THEN vm_mixed \ {rid} ELSE vm_mixed \cup {rid}
      /\ UNCHANGED <<vm_regions, vm_allocs, vm_orphans>>
  BY <1>4 DEF Memory!ProtectPages
<1>6. /\ vm_pc'[t] = "protect_update"
      /\ vm_pc' = [vm_pc EXCEPT ![t] = "protect_update"]
      /\ \A u \in Thread \ {t} : vm_pc'[u] = vm_pc[u] /\ vm_op'[u] = vm_op[u]
      /\ vm_op'[t].base = vm_op[t].base /\ vm_op'[t].size = vm_op[t].size
      /\ vm_op'[t].prot = vm_op[t].prot /\ vm_op'[t].old = {}
      /\ vm_op' \in [Thread -> [base : Nat, size : Nat, prot : Memory!Prot, id : Nat,
                                old : Memory!Prot, was : Memory!Prot]]
  <2>1. PICK o : o = [vm_op[t] EXCEPT !.old = {}, !.was = {}]
    OBVIOUS
  <2>2. vm_op[t] \in [base : Nat, size : Nat, prot : Memory!Prot, id : Nat, old : Memory!Prot, was : Memory!Prot]
    BY DEF Memory!TypeOK
  <2>3. {} \in Memory!Prot
    BY DEF Memory!Prot
  <2>4. /\ o.base = vm_op[t].base /\ o.size = vm_op[t].size
        /\ o.prot = vm_op[t].prot /\ o.old = {}
        /\ o \in [base : Nat, size : Nat, prot : Memory!Prot, id : Nat, old : Memory!Prot, was : Memory!Prot]
    BY <2>1, <2>2, <2>3
  <2>5. vm_op' = [vm_op EXCEPT ![t] = o] /\ vm_pc' = [vm_pc EXCEPT ![t] = "protect_update"]
    BY <1>5, <2>1 DEF Memory!Goto
  <2> QED
    BY <2>4, <2>5 DEF Memory!TypeOK
<1>7. /\ vm_op[t].prot \in Memory!Representable /\ vm_op[t].prot \in Memory!Prot
      /\ vm_op[t].old \in Memory!Representable /\ vm_op[t].was \in Memory!Prot
  BY <1>1 DEF Memory!ProtectionsKnown, Memory!TypeOK
<1>8. Memory!OpPages(t) \subseteq Memory!Page
  BY <1>2, RegionPages
<1>9. /\ \A p \in Memory!Page : vm_kernel'[p].id = vm_kernel[p].id
      /\ \A p \in Memory!Page \ Memory!OpPages(t) : vm_kernel'[p] = vm_kernel[p]
      /\ \A p \in Memory!OpPages(t) : vm_kernel'[p].prot = vm_op[t].prot
      /\ vm_kernel' \in [Memory!Page -> [id : Nat, prot : Memory!Prot]]
  <2>1. ASSUME NEW p \in Memory!Page
        PROVE  /\ vm_kernel'[p].id = vm_kernel[p].id
               /\ vm_kernel'[p] \in [id : Nat, prot : Memory!Prot]
               /\ p \in Memory!OpPages(t) => vm_kernel'[p].prot = vm_op[t].prot
               /\ p \notin Memory!OpPages(t) => vm_kernel'[p] = vm_kernel[p]
    <3>1. vm_kernel[p] \in [id : Nat, prot : Memory!Prot]
      BY DEF Memory!TypeOK
    <3>2. vm_kernel'[p] = IF p \in Memory!OpPages(t) THEN [vm_kernel[p] EXCEPT !.prot = vm_op[t].prot] ELSE vm_kernel[p]
      BY <1>5 DEF Memory!Protect
    <3> QED
      BY <1>7, <3>1, <3>2
  <2>2. vm_kernel' = [p \in Memory!Page |-> vm_kernel'[p]]
    BY <1>5 DEF Memory!Protect
  <2> QED
    BY <1>8, <2>1, <2>2
<1>11. rid \notin vm_mixed' => /\ vm_op[t].size = vm_regions[B].size
                               /\ \A u \in Thread \ {t} : ~Memory!Inside(u, B)
  BY <1>5 DEF Memory!ProtectedByOthers, Memory!Inside, Memory!Pages
<1>10. /\ Memory!IdsApart' /\ Memory!OwnPagesMapped' /\ Memory!MappedPagesOwned' /\ Memory!OpsInPlace'
       /\ \A b \in DOMAIN vm_regions : Memory!Pages(b)' = Memory!Pages(b)
       /\ \A u \in Thread, b \in DOMAIN vm_regions : Memory!Inside(u, b)' => Memory!Inside(u, b)
       /\ \A u \in Thread \ {t}, b \in DOMAIN vm_regions : Memory!Inside(u, b)' = Memory!Inside(u, b)
  <2>1. Memory!Protecting(t)'
    BY <1>6 DEF Memory!Protecting
  <2>2. ASSUME NEW b \in DOMAIN vm_regions, vm_regions[b].id \notin vm_mixed'
        PROVE  \/ vm_regions[b].id \notin vm_mixed
               \/ \A u, v \in Thread : Memory!Inside(u, b) /\ Memory!Inside(v, b) => u = v
    BY <1>5, <1>11, <2>2 DEF Memory!IdsApart
  <2> QED
    BY <1>1, <1>5, <1>6, <1>9, <2>1, <2>2, ProtectingStep
<1>12. \A b \in DOMAIN vm_regions \ {B} :
         /\ vm_regions[b].id # rid
         /\ vm_regions[b].id \in vm_mixed' <=> vm_regions[b].id \in vm_mixed
         /\ \A p \in Memory!Pages(b) : vm_kernel'[p] = vm_kernel[p]
  <2>1. \A b \in DOMAIN vm_regions \ {B} : vm_regions[b].id # rid
    BY DEF Memory!IdsApart
  <2>2. \A b \in DOMAIN vm_regions \ {B} : vm_regions[b].id \in vm_mixed' <=> vm_regions[b].id \in vm_mixed
    BY <1>5, <2>1
  <2>3. \A b \in DOMAIN vm_regions \ {B} : \A p \in Memory!Pages(b) : p \in Memory!Page \ Memory!OpPages(t)
    BY <1>2, RegionPages, OneRegion
  <2> QED
    BY <1>9, <2>1, <2>2, <2>3
<1>13. Memory!TypeOK' /\ Memory!ReportsTrue'
  <2>1. rid \notin vm_mixed => vm_op[t].old = vm_op[t].was
    BY <1>1, <1>2 DEF Memory!OldIsTrue
  <2>2. /\ Memory!linux_prot_to_win(vm_op[t].old) \in Memory!WinPage
        /\ Memory!win_prot_to_linux(Memory!linux_prot_to_win(vm_op[t].old)) = vm_op[t].old
    BY <1>7, ProtectionRoundTrip
  <2>3. PICK q : q = IF rid \in vm_mixed THEN Memory!NoReport
                     ELSE [win |-> Memory!linux_prot_to_win(vm_op[t].old), was |-> vm_op[t].was]
    OBVIOUS
  <2>4. /\ q \in [win : {"none"} \cup Memory!WinPage, was : Memory!Prot]
        /\ q.win # "none" => Memory!win_prot_to_linux(q.win) = q.was
    <3>1. CASE rid \in vm_mixed
      BY <2>3, <3>1 DEF Memory!NoReport, Memory!Prot
    <3>2. CASE rid \notin vm_mixed
      <4>1. q = [win |-> Memory!linux_prot_to_win(vm_op[t].old), was |-> vm_op[t].was]
        BY <2>3, <3>2
      <4> QED
        BY <1>7, <2>1, <2>2, <3>2, <4>1
    <3> QED
      BY <3>1, <3>2
  <2>5. vm_reported' = [vm_reported EXCEPT ![t] = q]
    BY <1>5, <2>3
  <2>6. /\ vm_reported' \in [Thread -> [win : {"none"} \cup Memory!WinPage, was : Memory!Prot]]
        /\ \A u \in Thread : vm_reported'[u] = IF u = t THEN q ELSE vm_reported[u]
    BY <2>4, <2>5 DEF Memory!TypeOK
  <2>7. Memory!ReportsTrue'
    BY <2>4, <2>6 DEF Memory!ReportsTrue
  <2>8. vm_pc' \in [Thread -> {"idle", "alloc_protect", "alloc_insert", "release_unmap",
                             "decommit_unmap", "decommit_map", "protect",
                             "protect_update"}]
    BY <1>6 DEF Memory!TypeOK
  <2>9. Memory!TypeOK'
    BY <1>5, <1>6, <1>9, <2>6, <2>8 DEF Memory!TypeOK
  <2> QED
    BY <2>7, <2>9
<1>14. Memory!ProtectionsKnown'
  <2>1. ASSUME NEW u \in Thread, vm_pc'[u] = "alloc_insert", NEW p \in Memory!OpPages(u)
        PROVE  vm_kernel'[p].prot = vm_op[u].prot
    <3>1. u # t /\ vm_pc[u] = "alloc_insert" /\ Memory!Owning(u)
      BY <1>6, <2>1 DEF Memory!Owning
    <3>2. p \in Memory!Page \ Memory!OpPages(t)
      BY <1>2, <3>1, OwnersDisjoint
    <3> QED
      BY <1>9, <3>1, <3>2 DEF Memory!ProtectionsKnown
  <2>2. {} \in Memory!Representable
    BY ProtectionRoundTrip
  <2>3. \A u \in Thread : vm_pc'[u] # "idle" => vm_op'[u].prot \in Memory!Representable /\ vm_op'[u].old \in Memory!Representable
    BY <1>6, <1>7, <2>2 DEF Memory!ProtectionsKnown
  <2>4. \A u \in Thread : Memory!OpPages(u)' = Memory!OpPages(u) /\ vm_op'[u].prot = vm_op[u].prot
    BY <1>6 DEF Memory!OpPages
  <2>5. \A b \in DOMAIN vm_regions : vm_regions[b].prot \in Memory!Representable
    BY DEF Memory!ProtectionsKnown
  <2> QED
    BY <1>5, <2>1, <2>3, <2>4, <2>5 DEF Memory!ProtectionsKnown
<1>15. Memory!Settled'
  <2>1. SUFFICES ASSUME NEW b \in DOMAIN vm_regions, vm_regions[b].id \notin vm_mixed',
                        \A u \in Thread : vm_pc'[u] = "protect_update" => ~Memory!Inside(u, b)',
                        NEW p \in Memory!Pages(b)
                 PROVE  vm_kernel'[p].prot = vm_regions[b].prot
    BY <1>5, <1>10 DEF Memory!Settled
  <2>2. b # B
    <3>1. Memory!Inside(t, B)'
      BY <1>3, <1>6, <1>10 DEF Memory!Inside, Memory!Protecting
    <3> QED
      BY <1>6, <2>1, <3>1
  <2>3. \A u \in Thread : vm_pc[u] = "protect_update" => ~Memory!Inside(u, b)
    BY <1>1, <1>6, <1>10, <2>1
  <2> QED
    BY <1>12, <2>1, <2>2, <2>3 DEF Memory!Settled
<1>16. Memory!UpdatesWhole'
  <2>1. SUFFICES ASSUME NEW u \in Thread, NEW b \in DOMAIN vm_regions, vm_pc'[u] = "protect_update",
                        Memory!Inside(u, b)', vm_regions[b].id \notin vm_mixed'
                 PROVE  vm_op[u].base = b /\ \A p \in Memory!Pages(b) : vm_kernel'[p].prot = vm_op[u].prot
    BY <1>5, <1>6, <1>10 DEF Memory!UpdatesWhole
  <2>2. CASE b = B
    <3>1. u = t /\ vm_op[t].size = vm_regions[B].size
      BY <1>5, <1>10, <1>11, <2>1, <2>2
    <3>2. vm_op[t].base = B
      <4>1. B \in Nat /\ vm_regions[B].size \in Nat /\ vm_regions[B].size > 0
        BY RegionPages
      <4>2. vm_op[t].base + vm_op[t].size - 1 \in Memory!OpPages(t)
        BY <1>3, <3>1, <4>1 DEF Memory!OpPages, Memory!Run
      <4>3. vm_op[t].base + vm_op[t].size - 1 \in Memory!Pages(B)
        BY <1>2, <4>2
      <4> QED
        BY <1>3, <3>1, <4>1, <4>3 DEF Memory!Pages, Memory!Run
    <3>3. Memory!OpPages(t) = Memory!Pages(B)
      BY <3>1, <3>2 DEF Memory!OpPages, Memory!Pages
    <3> QED
      BY <1>9, <2>2, <3>1, <3>2, <3>3
  <2>3. CASE b # B
    <3>1. u # t
      BY <1>2, <1>10, <2>1, <2>3
    <3> QED
      BY <1>6, <1>10, <1>12, <2>1, <2>3, <3>1 DEF Memory!UpdatesWhole
  <2> QED
    BY <2>2, <2>3
<1>17. Memory!OldIsTrue'
  <2>1. SUFFICES ASSUME NEW u \in Thread, NEW b \in DOMAIN vm_regions, vm_pc'[u] = "protect",
                        Memory!Inside(u, b)', vm_regions[b].id \notin vm_mixed'
                 PROVE  vm_op[u].old = vm_op[u].was
    BY <1>5, <1>6 DEF Memory!OldIsTrue
  <2>2. u # t /\ vm_pc[u] = "protect" /\ Memory!Inside(u, b)
    BY <1>6, <1>10, <2>1
  <2>3. b # B
    BY <1>11, <2>1, <2>2
  <2> QED
    BY <1>12, <2>1, <2>2, <2>3 DEF Memory!OldIsTrue
<1> QED
  BY <1>10, <1>13, <1>14, <1>15, <1>16, <1>17

\* A failed mprotect has changed nothing.
LEMMA ProtectFailedInv ==
  ASSUME Memory!MemoryInv, NEW t \in Thread, Memory!ProtectFailed(t)
  PROVE  Memory!MemoryInv'
<1> USE DEF Memory!MemoryInv
<1>1. /\ vm_pc[t] = "protect" /\ Memory!Protecting(t) /\ Memory!Return(t)
      /\ UNCHANGED <<vm_regions, vm_kernel, vm_allocs, vm_reported, vm_mixed, vm_orphans>>
  BY DEF Memory!ProtectFailed, Memory!Protecting
<1>2. /\ vm_pc'[t] = "idle"
      /\ \A u \in Thread \ {t} : vm_pc'[u] = vm_pc[u] /\ vm_op'[u] = vm_op[u]
  BY <1>1 DEF Memory!Return, Memory!Goto, Memory!TypeOK
<1>3. /\ Memory!IdsApart' /\ Memory!OwnPagesMapped' /\ Memory!MappedPagesOwned' /\ Memory!OpsInPlace'
      /\ \A b \in DOMAIN vm_regions : Memory!Pages(b)' = Memory!Pages(b)
      /\ \A u \in Thread, b \in DOMAIN vm_regions : Memory!Inside(u, b)' => Memory!Inside(u, b)
      /\ \A u \in Thread \ {t}, b \in DOMAIN vm_regions : Memory!Inside(u, b)' = Memory!Inside(u, b)
  BY <1>1, <1>2, ProtectingStep
<1>4. Memory!TypeOK'
  <2>1. Memory!NoOp \in [base : Nat, size : Nat, prot : Memory!Prot, id : Nat, old : Memory!Prot, was : Memory!Prot]
    BY DEF Memory!NoOp, Memory!Prot
  <2> QED
    BY <1>1, <2>1 DEF Memory!Return, Memory!Goto, Memory!TypeOK
<1>5. Memory!ProtectionsKnown'
  BY <1>1, <1>2 DEF Memory!ProtectionsKnown, Memory!OpPages
<1>6. Memory!Settled'
  <2>1. SUFFICES ASSUME NEW b \in DOMAIN vm_regions, vm_regions[b].id \notin vm_mixed,
                        \A u \in Thread : vm_pc'[u] = "protect_update" => ~Memory!Inside(u, b)',
                        NEW p \in Memory!Pages(b)
                 PROVE  vm_kernel[p].prot = vm_regions[b].prot
    BY <1>1, <1>3 DEF Memory!Settled
  <2>2. \A u \in Thread : vm_pc[u] = "protect_update" => ~Memory!Inside(u, b)
    BY <1>1, <1>2, <1>3, <2>1
  <2> QED
    BY <2>1, <2>2 DEF Memory!Settled
<1>7. Memory!UpdatesWhole'
  BY <1>1, <1>2, <1>3 DEF Memory!UpdatesWhole
<1>8. Memory!OldIsTrue'
  BY <1>1, <1>2, <1>3 DEF Memory!OldIsTrue
<1>9. Memory!ReportsTrue'
  BY <1>1 DEF Memory!ReportsTrue
<1> QED
  BY <1>3, <1>4, <1>5, <1>6, <1>7, <1>8, <1>9

\* The update writes what the kernel has into the table, for a region that was
\* protected as a whole.
LEMMA ProtectUpdateInv ==
  ASSUME Memory!MemoryInv, NEW t \in Thread, Memory!ProtectUpdate(t)
  PROVE  Memory!MemoryInv'
<1> USE DEF Memory!MemoryInv
<1>1. /\ vm_pc[t] = "protect_update" /\ Memory!Protecting(t) /\ Memory!Return(t)
      /\ vm_regions' = [b \in DOMAIN vm_regions |->
                        IF b = vm_op[t].base THEN [vm_regions[b] EXCEPT !.prot = vm_op[t].prot]
                                           ELSE vm_regions[b]]
      /\ vm_reported' = [vm_reported EXCEPT ![t] = Memory!NoReport]
      /\ UNCHANGED <<vm_kernel, vm_allocs, vm_mixed, vm_orphans>>
  BY DEF Memory!ProtectUpdate, Memory!Protecting
<1>2. /\ vm_pc'[t] = "idle"
      /\ \A u \in Thread \ {t} : vm_pc'[u] = vm_pc[u] /\ vm_op'[u] = vm_op[u]
  BY <1>1 DEF Memory!Return, Memory!Goto, Memory!TypeOK
<1>3. PICK B \in DOMAIN vm_regions :
        Memory!Inside(t, B) /\ \A c \in DOMAIN vm_regions : Memory!Inside(t, c) => c = B
  BY <1>1, ProtectedRegion
<1>4. vm_op[t].prot \in Memory!Representable /\ vm_op[t].prot \in Memory!Prot
  BY <1>1 DEF Memory!ProtectionsKnown, Memory!TypeOK
<1>5. /\ DOMAIN vm_regions' = DOMAIN vm_regions
      /\ \A b \in DOMAIN vm_regions : 
           /\ vm_regions'[b].id = vm_regions[b].id /\ vm_regions'[b].size = vm_regions[b].size
           /\ vm_regions'[b].prot = IF b = vm_op[t].base THEN vm_op[t].prot ELSE vm_regions[b].prot
           /\ vm_regions'[b] \in [id : Nat, size : 1 .. MaxPages, prot : Memory!Prot]
  <2>1. DOMAIN vm_regions' = DOMAIN vm_regions
    BY <1>1
  <2>2. ASSUME NEW b \in DOMAIN vm_regions
        PROVE  /\ vm_regions'[b].id = vm_regions[b].id /\ vm_regions'[b].size = vm_regions[b].size
               /\ vm_regions'[b].prot = IF b = vm_op[t].base THEN vm_op[t].prot ELSE vm_regions[b].prot
               /\ vm_regions'[b] \in [id : Nat, size : 1 .. MaxPages, prot : Memory!Prot]
    <3>1. vm_regions[b] \in [id : Nat, size : 1 .. MaxPages, prot : Memory!Prot]
      BY DEF Memory!TypeOK
    <3>2. vm_regions'[b] = IF b = vm_op[t].base THEN [vm_regions[b] EXCEPT !.prot = vm_op[t].prot]
                                           ELSE vm_regions[b]
      BY <1>1
    <3> QED
      BY <1>4, <3>1, <3>2
  <2> QED
    BY <2>1, <2>2
<1>6. /\ Memory!IdsApart' /\ Memory!OwnPagesMapped' /\ Memory!MappedPagesOwned' /\ Memory!OpsInPlace'
      /\ \A b \in DOMAIN vm_regions : Memory!Pages(b)' = Memory!Pages(b)
      /\ \A u \in Thread, b \in DOMAIN vm_regions : Memory!Inside(u, b)' => Memory!Inside(u, b)
      /\ \A u \in Thread \ {t}, b \in DOMAIN vm_regions : Memory!Inside(u, b)' = Memory!Inside(u, b)
  BY <1>1, <1>2, <1>5, ProtectingStep
<1>7. Memory!TypeOK'
  <2>1. Memory!NoOp \in [base : Nat, size : Nat, prot : Memory!Prot, id : Nat, old : Memory!Prot, was : Memory!Prot]
    BY DEF Memory!NoOp, Memory!Prot
  <2>2. Memory!NoReport \in [win : {"none"} \cup Memory!WinPage, was : Memory!Prot]
    BY DEF Memory!NoReport, Memory!Prot
  <2> QED
    BY <1>1, <1>5, <2>1, <2>2 DEF Memory!Return, Memory!Goto, Memory!TypeOK
<1>8. Memory!ProtectionsKnown'
  <2>1. \A b \in DOMAIN vm_regions : vm_regions'[b].prot \in Memory!Representable
    BY <1>4, <1>5 DEF Memory!ProtectionsKnown
  <2>2. \A u \in Thread : vm_pc'[u] # "idle" => vm_op'[u].prot \in Memory!Representable /\ vm_op'[u].old \in Memory!Representable
    BY <1>2 DEF Memory!ProtectionsKnown
  <2>3. \A u \in Thread : vm_pc'[u] = "alloc_insert" => \A p \in Memory!OpPages(u)' : vm_kernel[p].prot = vm_op'[u].prot
    BY <1>2 DEF Memory!ProtectionsKnown, Memory!OpPages
  <2> QED
    BY <1>1, <1>5, <2>1, <2>2, <2>3 DEF Memory!ProtectionsKnown
<1>9. Memory!Settled'
  <2>1. SUFFICES ASSUME NEW b \in DOMAIN vm_regions, vm_regions[b].id \notin vm_mixed,
                        \A u \in Thread : vm_pc'[u] = "protect_update" => ~Memory!Inside(u, b)',
                        NEW p \in Memory!Pages(b)
                 PROVE  vm_kernel[p].prot = vm_regions'[b].prot
    BY <1>1, <1>5, <1>6 DEF Memory!Settled
  <2>2. CASE b = B
    <3>1. vm_op[t].base = B /\ \A x \in Memory!Pages(B) : vm_kernel[x].prot = vm_op[t].prot
      BY <1>1, <1>3, <2>1, <2>2 DEF Memory!UpdatesWhole
    <3> QED
      BY <1>5, <2>1, <2>2, <3>1
  <2>3. CASE b # B
    <3>1. \A u \in Thread : vm_pc[u] = "protect_update" => ~Memory!Inside(u, b)
      BY <1>2, <1>3, <1>6, <2>1, <2>3
    <3>2. b # vm_op[t].base
      BY <1>1, <1>3, <2>3, RegionPages DEF Memory!Inside
    <3>3. vm_regions'[b].prot = vm_regions[b].prot
      BY <1>5, <3>2
    <3> QED
      BY <2>1, <3>1, <3>3 DEF Memory!Settled
  <2> QED
    BY <2>2, <2>3
<1>10. Memory!UpdatesWhole'
  BY <1>1, <1>2, <1>5, <1>6 DEF Memory!UpdatesWhole
<1>11. Memory!OldIsTrue'
  BY <1>1, <1>2, <1>5, <1>6 DEF Memory!OldIsTrue
<1>12. Memory!ReportsTrue'
  BY <1>1 DEF Memory!ReportsTrue, Memory!NoReport, Memory!TypeOK
<1> QED
  BY <1>6, <1>7, <1>8, <1>9, <1>10, <1>11, <1>12

\* Every step of a call on virtual memory keeps the invariant.
LEMMA NextMemoryInv == Memory!MemoryInv /\ [Memory!Next]_memoryVars => Memory!MemoryInv'
<1> SUFFICES ASSUME Memory!MemoryInv, [Memory!Next]_memoryVars PROVE Memory!MemoryInv'
  OBVIOUS
<1>1. CASE UNCHANGED memoryVars
  <2>1. UNCHANGED <<vm_regions, vm_kernel, vm_allocs, vm_pc, vm_op, vm_reported, vm_mixed, vm_orphans>>
    BY <1>1 DEF memoryVars
  <2>2. Memory!TypeOK'
    BY <2>1 DEF Memory!MemoryInv, Memory!TypeOK
  <2>3. Memory!IdsApart'
    BY <2>1 DEF Memory!MemoryInv, Memory!IdsApart, Memory!Owning
  <2>4. Memory!OwnPagesMapped'
    BY <2>1 DEF Memory!MemoryInv, Memory!OwnPagesMapped, Memory!Owning, Memory!Pages, Memory!OpPages
  <2>5. Memory!MappedPagesOwned'
    BY <2>1 DEF Memory!MemoryInv, Memory!MappedPagesOwned, Memory!Owning, Memory!Pages, Memory!OpPages
  <2>6. Memory!OpsInPlace'
    BY <2>1 DEF Memory!MemoryInv, Memory!OpsInPlace, Memory!Owning, Memory!Protecting, Memory!Inside, Memory!Pages, Memory!OpPages
  <2>7. Memory!ProtectionsKnown'
    BY <2>1 DEF Memory!MemoryInv, Memory!ProtectionsKnown, Memory!OpPages
  <2>8. Memory!Settled'
    BY <2>1 DEF Memory!MemoryInv, Memory!Settled, Memory!Inside, Memory!Protecting, Memory!Pages
  <2>9. Memory!UpdatesWhole'
    BY <2>1 DEF Memory!MemoryInv, Memory!UpdatesWhole, Memory!Inside, Memory!Protecting, Memory!Pages
  <2>10. Memory!OldIsTrue'
    BY <2>1 DEF Memory!MemoryInv, Memory!OldIsTrue, Memory!Inside, Memory!Protecting, Memory!Pages
  <2>11. Memory!ReportsTrue'
    BY <2>1 DEF Memory!MemoryInv, Memory!ReportsTrue
  <2> QED
    BY <2>2, <2>3, <2>4, <2>5, <2>6, <2>7, <2>8, <2>9, <2>10, <2>11 DEF Memory!MemoryInv
<1>2. CASE Memory!Next
  <2>1. PICK t \in Thread :
          \/ Memory!AllocMap(t) \/ Memory!AllocProtect(t) \/ Memory!AllocProtectFailed(t) \/ Memory!AllocInsert(t)
          \/ \E b \in Memory!Page : Memory!ReleaseRemove(t, b) \/ Memory!virtual_protect(t, b)
          \/ Memory!ReleaseUnmap(t)
          \/ Memory!ProtectPages(t) \/ Memory!ProtectFailed(t) \/ Memory!ProtectUpdate(t)
    BY <1>2 DEF Memory!Next
  <2>2. CASE Memory!AllocMap(t)
    BY <2>2, AllocMapInv
  <2>3. CASE Memory!AllocProtect(t)
    BY <2>3, AllocProtectInv
  <2>4. CASE Memory!AllocProtectFailed(t)
    BY <2>4, GiveBackInv DEF Memory!AllocProtectFailed, Memory!Owning
  <2>5. CASE Memory!AllocInsert(t)
    BY <2>5, AllocInsertInv
  <2>6. CASE \E b \in Memory!Page : Memory!ReleaseRemove(t, b)
    BY <2>6, ReleaseRemoveInv
  <2>7. CASE \E b \in Memory!Page : Memory!virtual_protect(t, b)
    BY <2>7, VirtualProtectInv
  <2>8. CASE Memory!ReleaseUnmap(t)
    BY <2>8, GiveBackInv DEF Memory!ReleaseUnmap, Memory!Owning
  <2>9. CASE Memory!ProtectPages(t)
    BY <2>9, ProtectPagesInv
  <2>10. CASE Memory!ProtectFailed(t)
    BY <2>10, ProtectFailedInv
  <2>11. CASE Memory!ProtectUpdate(t)
    BY <2>11, ProtectUpdateInv
  <2> QED
    BY <2>1, <2>2, <2>3, <2>4, <2>5, <2>6, <2>7, <2>8, <2>9, <2>10, <2>11
<1> QED
  BY <1>1, <1>2

\* What the invariant says of the table and of what the guest is told.
LEMMA MemoryInvSuffices == Memory!MemoryInv => RegionsMatchKernel
<1> SUFFICES ASSUME Memory!MemoryInv PROVE Memory!TypeOK /\ Memory!RegionsMatchMappings /\ Memory!ProtectionsReported
  BY DEF RegionsMatchKernel
<1> USE DEF Memory!MemoryInv
<1>1. Memory!RegionsMatchMappings
  <2>1. \A b \in DOMAIN vm_regions : \A p \in Memory!Run(b, vm_regions[b].size) : vm_kernel[p].id = vm_regions[b].id
    BY DEF Memory!OwnPagesMapped, Memory!Pages
  <2>2. ASSUME NEW p \in Memory!Page, vm_kernel[p].id # 0
        PROVE  \/ \E b \in DOMAIN vm_regions : vm_regions[b].id = vm_kernel[p].id
               \/ \E t \in Thread : vm_pc[t] # "idle" /\ vm_op[t].id = vm_kernel[p].id
               \/ vm_kernel[p].id \in vm_orphans
    <3>1. CASE \E b \in DOMAIN vm_regions : p \in Memory!Pages(b)
      BY <3>1 DEF Memory!OwnPagesMapped
    <3>2. CASE \E t \in Thread : Memory!Owning(t) /\ p \in Memory!OpPages(t)
      BY <3>2 DEF Memory!OwnPagesMapped, Memory!Owning
    <3> QED
      BY <2>2, <3>1, <3>2 DEF Memory!MappedPagesOwned
  <2>3. \A b \in DOMAIN vm_regions : vm_regions[b].id \notin vm_orphans
    BY DEF Memory!IdsApart
  <2> QED
    BY <2>1, <2>2, <2>3 DEF Memory!RegionsMatchMappings
<1>2. Memory!ProtectionsReported
  <2>1. ASSUME NEW b \in DOMAIN vm_regions, ~Memory!Busy(b), vm_regions[b].id \notin vm_mixed,
               NEW p \in Memory!Pages(b)
        PROVE  \E q \in Memory!virtual_query(p) :
                 q.base = b /\ Memory!win_prot_to_linux(q.protect) = vm_kernel[p].prot
    <3>1. Memory!containing(p) = {b}
      BY ContainingRegion
    <3>2. vm_kernel[p].prot = vm_regions[b].prot
      BY <2>1, NotBusy DEF Memory!Settled
    <3>3. Memory!win_prot_to_linux(Memory!linux_prot_to_win(vm_regions[b].prot)) = vm_regions[b].prot
      BY ProtectionRoundTrip DEF Memory!ProtectionsKnown
    <3> DEFINE q == [base |-> b, size |-> vm_regions[b].size,
                     protect |-> Memory!linux_prot_to_win(vm_regions[b].prot)]
    <3>4. q \in Memory!virtual_query(p)
      BY <3>1 DEF Memory!virtual_query
    <3>5. q.base = b /\ q.protect = Memory!linux_prot_to_win(vm_regions[b].prot)
      OBVIOUS
    <3> HIDE DEF q
    <3> QED
      BY <3>2, <3>3, <3>4, <3>5
  <2> QED
    BY <2>1 DEF Memory!ProtectionsReported, Memory!Pages, Memory!ReportsTrue
<1> QED
  BY <1>1, <1>2

\* A step of the process is a step of virtual memory, or leaves it alone.
LEMMA MemorySteps == [TablesNext]_tableVars => [Memory!Next]_memoryVars
BY DEF TablesNext, HandlesNext, StorageNext, MemoryNext, ModulesNext, KeysNext,
       tableVars, memoryVars

\* However the system calls and the table accesses of VirtualAlloc,
\* VirtualFree(MEM_RELEASE) and VirtualProtect interleave, two threads
\* protecting one region included, and whichever munmap or mprotect fails: a
\* region of the table is mapped, and by its own allocation; no mapping is lost
\* but one whose munmap failed; and VirtualQuery and VirtualProtect report the
\* protections the kernel has, mixed regions aside.  (Of a guest that
\* decommits, it is false: run virtual_decommit.)
THEOREM MemoryRegionsMatchKernel == TablesSpec => []RegionsMatchKernel
<1>1. TablesInit => Memory!MemoryInv
  BY InitMemoryInv DEF TablesInit
<1> QED
  BY <1>1, NextMemoryInv, MemoryInvSuffices, MemorySteps, PTL DEF TablesSpec

-----------------------------------------------------------------------------
(* The module list *)

\* What the calls do to a sequence: its last element replaced, dropped or
\* pushed, and one element removed.
LEMMA ReplaceLast ==
  ASSUME NEW S, NEW s \in Seq(S), s # <<>>, NEW f \in S
  PROVE  /\ Append(Modules!Front(s), f) \in Seq(S)
         /\ DOMAIN Append(Modules!Front(s), f) = DOMAIN s /\ Len(s) \in DOMAIN s
         /\ \A i \in DOMAIN s : Append(Modules!Front(s), f)[i] = IF i = Len(s) THEN f ELSE s[i]
BY DEF Modules!Front

LEMMA DropLast ==
  ASSUME NEW S, NEW s \in Seq(S), s # <<>>
  PROVE  /\ Modules!Front(s) \in Seq(S)
         /\ DOMAIN Modules!Front(s) = DOMAIN s \ {Len(s)} /\ Len(s) \in DOMAIN s
         /\ \A i \in DOMAIN Modules!Front(s) : Modules!Front(s)[i] = s[i]
         /\ Modules!Last(s) = s[Len(s)] /\ Modules!Last(s) \in S
BY DEF Modules!Front, Modules!Last

LEMMA PushLast ==
  ASSUME NEW S, NEW s \in Seq(S), NEW f \in S
  PROVE  /\ Append(s, f) \in Seq(S)
         /\ DOMAIN Append(s, f) = DOMAIN s \cup {Len(s) + 1} /\ Len(s) + 1 \notin DOMAIN s
         /\ \A i \in DOMAIN s : Append(s, f)[i] = s[i]
         /\ Append(s, f)[Len(s) + 1] = f
OBVIOUS

LEMMA RemoveOne ==
  ASSUME NEW S, NEW s \in Seq(S), NEW k \in DOMAIN s
  PROVE  /\ Modules!RemoveAt(s, k) \in Seq(S)
         /\ \A i \in DOMAIN Modules!RemoveAt(s, k) :
              \E j \in DOMAIN s \ {k} :
                Modules!RemoveAt(s, k)[i] = s[j] /\ j = IF i < k THEN i ELSE i + 1
         /\ \A j \in DOMAIN s \ {k} :
              \E i \in DOMAIN Modules!RemoveAt(s, k) : Modules!RemoveAt(s, k)[i] = s[j]
<1> DEFINE a == SubSeq(s, 1, k - 1)
           z == SubSeq(s, k + 1, Len(s))
<1>1. k \in 1 .. Len(s) /\ Len(s) \in Nat /\ DOMAIN s = 1 .. Len(s)
  OBVIOUS
<1>2. /\ a \in Seq(S) /\ Len(a) = k - 1
      /\ \A i \in 1 .. (k - 1) : a[i] = s[i]
  BY <1>1
<1>3. /\ z \in Seq(S) /\ Len(z) = Len(s) - k
      /\ \A i \in 1 .. (Len(s) - k) : z[i] = s[i + k]
  BY <1>1
<1>4. Modules!RemoveAt(s, k) = a \o z
  BY DEF Modules!RemoveAt
<1> HIDE DEF a, z
<1>5. /\ a \o z \in Seq(S) /\ Len(a \o z) = Len(s) - 1 /\ DOMAIN (a \o z) = 1 .. (Len(s) - 1)
      /\ \A i \in 1 .. (Len(s) - 1) : (a \o z)[i] = IF i < k THEN a[i] ELSE z[i - (k - 1)]
  <2>1. a \o z \in Seq(S) /\ Len(a \o z) = Len(a) + Len(z)
    BY <1>2, <1>3, ConcatProperties
  <2>2. Len(a) + Len(z) = Len(s) - 1 /\ Len(s) - 1 \in Nat
    BY <1>1, <1>2, <1>3
  <2>3. DOMAIN (a \o z) = 1 .. Len(a \o z)
    BY <2>1
  <2>4. ASSUME NEW i \in 1 .. (Len(s) - 1)
        PROVE  (a \o z)[i] = IF i < k THEN a[i] ELSE z[i - (k - 1)]
    <3>1. (a \o z)[i] = IF i <= Len(a) THEN a[i] ELSE z[i - Len(a)]
      BY <1>2, <1>3, <2>2
    <3>2. i <= Len(a) <=> i < k
      BY <1>1, <1>2
    <3> QED
      BY <1>2, <3>1, <3>2
  <2> QED
    BY <2>1, <2>2, <2>3, <2>4
<1>6. \A i \in 1 .. (Len(s) - 1) : (a \o z)[i] = IF i < k THEN s[i] ELSE s[i + 1]
  <2>1. ASSUME NEW i \in 1 .. (Len(s) - 1), ~(i < k) PROVE z[i - (k - 1)] = s[i + 1]
    <3>1. i - (k - 1) \in 1 .. (Len(s) - k) /\ (i - (k - 1)) + k = i + 1
      BY <1>1, <2>1
    <3> QED
      BY <1>3, <3>1
  <2>2. ASSUME NEW i \in 1 .. (Len(s) - 1), i < k PROVE a[i] = s[i]
    BY <1>1, <1>2, <2>2
  <2> QED
    BY <1>5, <2>1, <2>2
<1>7. ASSUME NEW j \in DOMAIN s \ {k}
      PROVE  \E i \in DOMAIN (a \o z) : (a \o z)[i] = s[j]
  <2>1. CASE j < k
    <3>1. j \in 1 .. (Len(s) - 1)
      BY <1>1, <2>1
    <3> QED
      BY <1>5, <1>6, <2>1, <3>1
  <2>2. CASE j > k
    <3>1. j - 1 \in 1 .. (Len(s) - 1) /\ ~(j - 1 < k) /\ (j - 1) + 1 = j
      BY <1>1, <2>2
    <3> QED
      BY <1>5, <1>6, <3>1
  <2> QED
    BY <1>1, <2>1, <2>2
<1>8. ASSUME NEW i \in DOMAIN (a \o z)
      PROVE  \E j \in DOMAIN s \ {k} : (a \o z)[i] = s[j] /\ j = IF i < k THEN i ELSE i + 1
  <2>1. i \in 1 .. (Len(s) - 1)
    BY <1>5
  <2>2. (IF i < k THEN i ELSE i + 1) \in DOMAIN s \ {k}
    BY <1>1, <2>1
  <2> QED
    BY <1>6, <2>1, <2>2
<1> QED
  BY <1>4, <1>5, <1>7, <1>8

\* The innermost load of t.
LEMMA TopFrame ==
  ASSUME Modules!ModulesInv, NEW t \in Thread, dll_stack[t] # <<>>
  PROVE  /\ Modules!Top(t) = dll_stack[t][Len(dll_stack[t])] /\ Modules!Top(t) \in Modules!Frame
         /\ Len(dll_stack[t]) \in DOMAIN dll_stack[t]
BY DropLast DEF Modules!ModulesInv, Modules!TypeOK, Modules!Top

LEMMA SetTopEffect ==
  ASSUME Modules!ModulesInv, NEW t \in Thread, dll_stack[t] # <<>>, NEW f \in Modules!Frame, Modules!SetTop(t, f)
  PROVE  /\ dll_stack' \in [Thread -> Seq(Modules!Frame)]
         /\ \A u \in Thread : DOMAIN dll_stack'[u] = DOMAIN dll_stack[u]
         /\ \A u \in Thread : \A i \in DOMAIN dll_stack[u] :
              dll_stack'[u][i] = IF u = t /\ i = Len(dll_stack[t]) THEN f ELSE dll_stack[u][i]
<1>1. dll_stack \in [Thread -> Seq(Modules!Frame)]
  BY DEF Modules!ModulesInv, Modules!TypeOK
<1>2. dll_stack' = [dll_stack EXCEPT ![t] = Append(Modules!Front(dll_stack[t]), f)]
  BY DEF Modules!SetTop
<1>3. /\ Append(Modules!Front(dll_stack[t]), f) \in Seq(Modules!Frame)
      /\ DOMAIN Append(Modules!Front(dll_stack[t]), f) = DOMAIN dll_stack[t]
      /\ \A i \in DOMAIN dll_stack[t] :
           Append(Modules!Front(dll_stack[t]), f)[i] = IF i = Len(dll_stack[t]) THEN f ELSE dll_stack[t][i]
  BY <1>1, ReplaceLast
<1> QED
  BY <1>1, <1>2, <1>3

LEMMA PopEffect ==
  ASSUME Modules!ModulesInv, NEW t \in Thread, dll_stack[t] # <<>>, Modules!Pop(t)
  PROVE  /\ dll_stack' \in [Thread -> Seq(Modules!Frame)]
         /\ \A u \in Thread \ {t} : dll_stack'[u] = dll_stack[u]
         /\ DOMAIN dll_stack'[t] = DOMAIN dll_stack[t] \ {Len(dll_stack[t])}
         /\ \A i \in DOMAIN dll_stack'[t] : dll_stack'[t][i] = dll_stack[t][i]
<1>1. dll_stack \in [Thread -> Seq(Modules!Frame)]
  BY DEF Modules!ModulesInv, Modules!TypeOK
<1>2. dll_stack' = [dll_stack EXCEPT ![t] = Modules!Front(dll_stack[t])]
  BY DEF Modules!Pop
<1>3. /\ Modules!Front(dll_stack[t]) \in Seq(Modules!Frame)
      /\ DOMAIN Modules!Front(dll_stack[t]) = DOMAIN dll_stack[t] \ {Len(dll_stack[t])}
      /\ \A i \in DOMAIN Modules!Front(dll_stack[t]) : Modules!Front(dll_stack[t])[i] = dll_stack[t][i]
  BY <1>1, DropLast
<1> QED
  BY <1>1, <1>2, <1>3

\* A module on the list has a base and a path.
LEMMA ListedModules ==
  ASSUME Modules!ModulesInv
  PROVE  \A i \in DOMAIN dll_MODULES :
           /\ dll_MODULES[i] \in Modules!LoadedModule
           /\ dll_MODULES[i].base \in Base /\ dll_MODULES[i].path \in Path
<1>1. dll_MODULES \in Seq(Modules!LoadedModule)
  BY DEF Modules!ModulesInv, Modules!TypeOK
<1>2. \A i \in DOMAIN dll_MODULES : dll_MODULES[i] \in Modules!LoadedModule
  BY <1>1
<1> QED
  BY <1>2 DEF Modules!LoadedModule

\* A step of loads that keeps what each of them has mapped.
LEMMA BasesKept ==
  ASSUME Modules!ModulesInv, UNCHANGED <<dll_MODULES, dll_image, dll_lookup, dll_zombie, dll_leaked>>,
         \A u \in Thread : \A i \in DOMAIN dll_stack'[u] :
           \/ dll_stack'[u][i].base = NoBase
           \/ /\ i \in DOMAIN dll_stack[u]
              /\ dll_stack'[u][i].base = dll_stack[u][i].base
              /\ dll_stack'[u][i].path = dll_stack[u][i].path,
         \A u \in Thread : \A i \in DOMAIN dll_stack[u] :
           \/ dll_stack[u][i].base = NoBase
           \/ i \in DOMAIN dll_stack'[u] /\ dll_stack'[u][i].base = dll_stack[u][i].base
  PROVE  Modules!BasesApart' /\ Modules!ImagesInPlace' /\ Modules!LookupsHeld' /\ Modules!OnlyBindFailuresLeak'
<1> USE DEF Modules!ModulesInv
<1>1. Modules!Loaded' = Modules!Loaded
  BY DEF Modules!Loaded
<1>2. NoBase \notin Modules!Loaded \cup dll_zombie \cup dll_leaked
  <2>1. Modules!Loaded \subseteq Base
    BY ListedModules DEF Modules!Loaded
  <2> QED
    BY <2>1, NoBaseAssumption DEF Modules!TypeOK
<1>3. Modules!BasesApart'
  <2>1. \A t \in Thread : \A i \in DOMAIN dll_stack'[t] :
          dll_stack'[t][i].base \notin Modules!Loaded \cup dll_zombie \cup dll_leaked
    BY <1>2 DEF Modules!BasesApart
  <2>2. \A t, u \in Thread : \A i \in DOMAIN dll_stack'[t], j \in DOMAIN dll_stack'[u] :
          dll_stack'[t][i].base = dll_stack'[u][j].base /\ dll_stack'[t][i].base # NoBase => t = u /\ i = j
    BY DEF Modules!BasesApart
  <2> QED
    BY <1>1, <2>1, <2>2 DEF Modules!BasesApart
<1>4. Modules!ImagesInPlace'
  BY DEF Modules!ImagesInPlace
<1>5. Modules!LookupsHeld'
  BY <1>1 DEF Modules!LookupsHeld
<1>6. Modules!OnlyBindFailuresLeak'
  <2>1. SUFFICES ASSUME NEW b \in Base, dll_image[b] # "none", b \notin Modules!Loaded \cup dll_leaked,
                        \A t \in Thread : dll_lookup[t] # b
                 PROVE  \E t \in Thread : \E i \in DOMAIN dll_stack'[t] : dll_stack'[t][i].base = b
    BY <1>1 DEF Modules!OnlyBindFailuresLeak
  <2>2. PICK t \in Thread : \E i \in DOMAIN dll_stack[t] : dll_stack[t][i].base = b
    BY <2>1 DEF Modules!OnlyBindFailuresLeak
  <2> QED
    BY <2>2, NoBaseAssumption
<1> QED
  BY <1>3, <1>4, <1>5, <1>6

\* A step of loads that takes up no path.
LEMMA PathsKept ==
  ASSUME Modules!ModulesInv, dll_MODULES' = dll_MODULES, dll_raced' = dll_raced,
         \A u \in Thread : \A i \in DOMAIN dll_stack'[u] :
           \/ dll_stack'[u][i].stage = "search"
           \/ /\ i \in DOMAIN dll_stack[u] /\ dll_stack[u][i].stage # "search"
              /\ dll_stack'[u][i].path = dll_stack[u][i].path
  PROVE  Modules!LoadsApart' /\ Modules!LoadedOnce'
<1>1. Modules!LoadedOnce'
  BY DEF Modules!ModulesInv, Modules!LoadedOnce
<1>2. \A t, u \in Thread : \A i \in DOMAIN dll_stack'[t], j \in DOMAIN dll_stack'[u] :
        /\ dll_stack'[t][i].stage # "search" /\ dll_stack'[u][j].stage # "search"
        /\ dll_stack'[t][i].path = dll_stack'[u][j].path
        => (t = u /\ i = j) \/ dll_stack'[t][i].path \in dll_raced
  BY DEF Modules!ModulesInv, Modules!LoadsApart
<1>3. \A t \in Thread : \A i \in DOMAIN dll_stack'[t], k \in DOMAIN dll_MODULES :
        dll_stack'[t][i].stage # "search" /\ dll_stack'[t][i].path = dll_MODULES[k].path
          => dll_stack'[t][i].path \in dll_raced
  BY DEF Modules!ModulesInv, Modules!LoadsApart
<1> QED
  BY <1>1, <1>2, <1>3 DEF Modules!LoadsApart

\* A process without modules satisfies the invariant.
LEMMA InitModulesInv == Modules!Init => Modules!ModulesInv
<1> SUFFICES ASSUME Modules!Init PROVE Modules!ModulesInv
  OBVIOUS
<1> USE DEF Modules!Init
<1>1. dll_MODULES = <<>> /\ DOMAIN dll_MODULES = {} /\ Modules!Loaded = {}
  BY DEF Modules!Loaded
<1>2. \A t \in Thread : dll_stack[t] = <<>> /\ DOMAIN dll_stack[t] = {}
  OBVIOUS
<1>3. Modules!TypeOK
  BY DEF Modules!TypeOK
<1>4. Modules!FramesShaped /\ Modules!BasesApart /\ Modules!ImagesInPlace
  BY <1>1, <1>2 DEF Modules!FramesShaped, Modules!BasesApart, Modules!ImagesInPlace
<1>5. Modules!LookupsHeld /\ Modules!OnlyBindFailuresLeak
  BY <1>1, <1>2 DEF Modules!LookupsHeld, Modules!OnlyBindFailuresLeak
<1>6. Modules!LoadsApart /\ Modules!LoadedOnce
  BY <1>1, <1>2 DEF Modules!LoadsApart, Modules!LoadedOnce
<1> QED
  BY <1>3, <1>4, <1>5, <1>6 DEF Modules!ModulesInv

\* A step of loads that maps, lists and takes up nothing.
LEMMA QuietLoadInv ==
  ASSUME Modules!ModulesInv, UNCHANGED <<dll_MODULES, dll_image, dll_lookup, dll_zombie, dll_leaked, dll_raced>>,
         dll_stack' \in [Thread -> Seq(Modules!Frame)],
         \A u \in Thread : \A i \in DOMAIN dll_stack'[u] :
           \/ i \in DOMAIN dll_stack[u] /\ dll_stack'[u][i] = dll_stack[u][i]
           \/ /\ dll_stack'[u][i].stage = "search" /\ Modules!Shaped(dll_stack'[u][i])
           \/ /\ i \in DOMAIN dll_stack[u] /\ dll_stack[u][i].stage # "search"
              /\ dll_stack'[u][i].base = dll_stack[u][i].base
              /\ dll_stack'[u][i].path = dll_stack[u][i].path
              /\ Modules!Shaped(dll_stack'[u][i]),
         \A u \in Thread : \A i \in DOMAIN dll_stack[u] :
           \/ dll_stack[u][i].base = NoBase
           \/ i \in DOMAIN dll_stack'[u] /\ dll_stack'[u][i].base = dll_stack[u][i].base
  PROVE  Modules!ModulesInv'
<1>1. Modules!TypeOK'
  BY DEF Modules!ModulesInv, Modules!TypeOK
<1>2. Modules!FramesShaped'
  BY DEF Modules!ModulesInv, Modules!FramesShaped
<1>3. \A u \in Thread : \A i \in DOMAIN dll_stack'[u] :
        \/ dll_stack'[u][i].base = NoBase
        \/ /\ i \in DOMAIN dll_stack[u]
           /\ dll_stack'[u][i].base = dll_stack[u][i].base
           /\ dll_stack'[u][i].path = dll_stack[u][i].path
  BY DEF Modules!Shaped
<1>4. \A u \in Thread : \A i \in DOMAIN dll_stack'[u] :
        \/ dll_stack'[u][i].stage = "search"
        \/ /\ i \in DOMAIN dll_stack[u] /\ dll_stack[u][i].stage # "search"
           /\ dll_stack'[u][i].path = dll_stack[u][i].path
  OBVIOUS
<1>5. Modules!BasesApart' /\ Modules!ImagesInPlace' /\ Modules!LookupsHeld' /\ Modules!OnlyBindFailuresLeak'
  BY <1>3, BasesKept
<1>6. Modules!LoadsApart' /\ Modules!LoadedOnce'
  BY <1>4, PathsKept
<1> QED
  BY <1>1, <1>2, <1>5, <1>6 DEF Modules!ModulesInv

\* LoadLibrary starts a search.
LEMMA LoadLibraryInv ==
  ASSUME Modules!ModulesInv, NEW t \in Thread, NEW n \in Name, NEW run \in BOOLEAN,
         Modules!LoadLibrary(t, n, run)
  PROVE  Modules!ModulesInv'
<1>1. PICK f : f = [rest |-> Candidates[n], path |-> "none", run |-> run,
                    base |-> NoBase, stage |-> "search"]
  OBVIOUS
<1>2. /\ f \in Modules!Frame /\ f.stage = "search" /\ Modules!Shaped(f)
  BY <1>1, CandidatesAssumption DEF Modules!Frame, Modules!Stages, Modules!Shaped
<1>3. /\ dll_stack' = [dll_stack EXCEPT ![t] = Append(dll_stack[t], f)]
      /\ UNCHANGED <<dll_MODULES, dll_image, dll_lookup, dll_zombie, dll_leaked, dll_raced>>
  BY <1>1 DEF Modules!LoadLibrary
<1>4. dll_stack \in [Thread -> Seq(Modules!Frame)]
  BY DEF Modules!ModulesInv, Modules!TypeOK
<1>5. /\ dll_stack'[t] = Append(dll_stack[t], f)
      /\ \A u \in Thread \ {t} : dll_stack'[u] = dll_stack[u]
      /\ DOMAIN dll_stack' = Thread
  BY <1>3, <1>4
<1>6. /\ dll_stack'[t] \in Seq(Modules!Frame)
      /\ DOMAIN dll_stack'[t] = DOMAIN dll_stack[t] \cup {Len(dll_stack[t]) + 1}
      /\ \A i \in DOMAIN dll_stack[t] : dll_stack'[t][i] = dll_stack[t][i]
      /\ dll_stack'[t][Len(dll_stack[t]) + 1] = f
  BY <1>2, <1>4, <1>5, PushLast
<1>7. dll_stack' \in [Thread -> Seq(Modules!Frame)]
  BY <1>3, <1>4, <1>5, <1>6
<1> QED
  BY <1>2, <1>3, <1>5, <1>6, <1>7, QuietLoadInv

\* A search that ends, with nothing or with a module on the list.
LEMMA SearchEndsInv ==
  ASSUME Modules!ModulesInv, NEW t \in Thread, dll_stack[t] # <<>>, Modules!Top(t).stage = "search", Modules!Pop(t),
         UNCHANGED <<dll_MODULES, dll_image, dll_lookup, dll_zombie, dll_leaked, dll_raced>>
  PROVE  Modules!ModulesInv'
<1>1. dll_stack[t][Len(dll_stack[t])].base = NoBase
  BY TopFrame DEF Modules!ModulesInv, Modules!FramesShaped, Modules!Shaped
<1> QED
  BY ZenonT(60), <1>1, PopEffect, QuietLoadInv

\* A candidate that fails before it is mapped: the next one is tried.
LEMMA ReadFailedInv ==
  ASSUME Modules!ModulesInv, NEW t \in Thread, Modules!ReadFailed(t)
  PROVE  Modules!ModulesInv'
<1>1. /\ dll_stack[t] # <<>> /\ Modules!Top(t).stage = "read" /\ Modules!TryNext(t)
      /\ UNCHANGED <<dll_MODULES, dll_image, dll_lookup, dll_zombie, dll_leaked, dll_raced>>
  BY DEF Modules!ReadFailed
<1>2. PICK f : f = [Modules!Top(t) EXCEPT !.path = "none", !.base = NoBase, !.stage = "search"]
  OBVIOUS
<1>3. f \in Modules!Frame /\ f.stage = "search" /\ Modules!Shaped(f) /\ Modules!SetTop(t, f)
  BY <1>1, <1>2, TopFrame DEF Modules!TryNext, Modules!Frame, Modules!Stages, Modules!Shaped
<1>4. dll_stack[t][Len(dll_stack[t])].base = NoBase
  BY <1>1, TopFrame DEF Modules!ModulesInv, Modules!FramesShaped, Modules!Shaped
<1> QED
  BY <1>1, <1>3, <1>4, SetTopEffect, QuietLoadInv

\* A load that is mapped and goes on.
LEMMA LoadGoesOnInv ==
  ASSUME Modules!ModulesInv, NEW t \in Thread, dll_stack[t] # <<>>, Modules!Top(t).stage \in {"bind", "dll_main"},
         NEW g \in {"dll_main", "register"}, Modules!SetTop(t, [Modules!Top(t) EXCEPT !.stage = g]),
         UNCHANGED <<dll_MODULES, dll_image, dll_lookup, dll_zombie, dll_leaked, dll_raced>>
  PROVE  Modules!ModulesInv'
<1>1. PICK f : f = [Modules!Top(t) EXCEPT !.stage = g]
  OBVIOUS
<1>2. /\ f \in Modules!Frame /\ f.base = Modules!Top(t).base /\ f.path = Modules!Top(t).path /\ f.stage = g
      /\ Modules!SetTop(t, f)
  BY <1>1, TopFrame DEF Modules!Frame, Modules!Stages
<1>3. Modules!Shaped(Modules!Top(t))
  BY TopFrame DEF Modules!ModulesInv, Modules!FramesShaped
<1>4. Modules!Shaped(f) /\ Modules!Top(t).stage # "search"
  BY <1>2, <1>3 DEF Modules!Shaped
<1> QED
  BY <1>2, <1>4, TopFrame, SetTopEffect, QuietLoadInv

\* The look-up that misses takes up the path, and marks it raced if another
\* load has it.
LEMMA LookupMissInv ==
  ASSUME Modules!ModulesInv, NEW t \in Thread, Modules!LookupMiss(t)
  PROVE  Modules!ModulesInv'
<1> USE DEF Modules!ModulesInv
<1>1. PICK p : p = Head(Modules!Top(t).rest)
  OBVIOUS
<1>2. /\ dll_stack[t] # <<>> /\ Modules!Top(t).stage = "search" /\ Modules!Top(t).rest # <<>>
      /\ \A i \in DOMAIN dll_MODULES : dll_MODULES[i].path # p
      /\ Modules!SetTop(t, [Modules!Top(t) EXCEPT !.path = p, !.rest = Tail(Modules!Top(t).rest), !.stage = "read"])
      /\ dll_raced' = IF Modules!InFlight(p) THEN dll_raced \cup {p} ELSE dll_raced
      /\ UNCHANGED <<dll_MODULES, dll_image, dll_lookup, dll_zombie, dll_leaked>>
  BY <1>1 DEF Modules!LookupMiss
<1>3. PICK f : f = [Modules!Top(t) EXCEPT !.path = p, !.rest = Tail(Modules!Top(t).rest), !.stage = "read"]
  OBVIOUS
<1>4. Modules!Top(t) \in Modules!Frame /\ Modules!Top(t).rest \in Seq(Path) /\ Modules!Shaped(Modules!Top(t))
  BY <1>2, TopFrame DEF Modules!FramesShaped, Modules!Frame
<1>5. p \in Path /\ Tail(Modules!Top(t).rest) \in Seq(Path)
  BY <1>1, <1>2, <1>4
<1>6. f \in Modules!Frame /\ f.path = p /\ f.stage = "read" /\ f.base = Modules!Top(t).base
  BY <1>3, <1>4, <1>5 DEF Modules!Frame, Modules!Stages
<1>7. Modules!Shaped(f) /\ f.base = NoBase /\ Modules!Top(t).base = NoBase
  BY <1>2, <1>4, <1>5, <1>6, PathAssumption DEF Modules!Shaped
<1>8. /\ dll_stack' \in [Thread -> Seq(Modules!Frame)]
      /\ \A u \in Thread : DOMAIN dll_stack'[u] = DOMAIN dll_stack[u]
      /\ \A u \in Thread : \A i \in DOMAIN dll_stack[u] :
           dll_stack'[u][i] = IF u = t /\ i = Len(dll_stack[t]) THEN f ELSE dll_stack[u][i]
  BY <1>2, <1>3, <1>6, SetTopEffect
<1>9. Modules!TypeOK'
  BY <1>2, <1>5, <1>8 DEF Modules!TypeOK
<1>10. Modules!FramesShaped'
  BY <1>7, <1>8 DEF Modules!FramesShaped
<1>11. Modules!BasesApart' /\ Modules!ImagesInPlace' /\ Modules!LookupsHeld' /\ Modules!OnlyBindFailuresLeak'
  BY <1>2, <1>7, <1>8, TopFrame, BasesKept
<1>12. Modules!LoadedOnce'
  BY <1>2 DEF Modules!LoadedOnce
<1>13. Modules!LoadsApart'
  <2>1. ASSUME NEW u \in Thread, NEW i \in DOMAIN dll_stack[u], ~(u = t /\ i = Len(dll_stack[t])),
               dll_stack[u][i].stage # "search", dll_stack[u][i].path = p
        PROVE  p \in dll_raced'
    BY <1>2, <2>1 DEF Modules!InFlight
  <2>2. ASSUME NEW u \in Thread, NEW v \in Thread,
               NEW i \in DOMAIN dll_stack[u], NEW j \in DOMAIN dll_stack[v],
               dll_stack'[u][i].stage # "search", dll_stack'[v][j].stage # "search",
               dll_stack'[u][i].path = dll_stack'[v][j].path
        PROVE  (u = v /\ i = j) \/ dll_stack'[u][i].path \in dll_raced'
    <3>1. CASE u = t /\ i = Len(dll_stack[t])
      BY <1>6, <1>8, <2>1, <2>2, <3>1
    <3>2. CASE v = t /\ j = Len(dll_stack[t])
      BY <1>6, <1>8, <2>1, <2>2, <3>2
    <3>3. CASE ~(u = t /\ i = Len(dll_stack[t])) /\ ~(v = t /\ j = Len(dll_stack[t]))
      BY <1>2, <1>8, <2>2, <3>3 DEF Modules!LoadsApart
    <3> QED
      BY <3>1, <3>2, <3>3
  <2>3. ASSUME NEW u \in Thread, NEW i \in DOMAIN dll_stack[u], NEW k \in DOMAIN dll_MODULES,
               dll_stack'[u][i].stage # "search", dll_stack'[u][i].path = dll_MODULES[k].path
        PROVE  dll_stack'[u][i].path \in dll_raced'
    <3>1. CASE u = t /\ i = Len(dll_stack[t])
      BY <1>2, <1>6, <1>8, <2>3, <3>1
    <3>2. CASE ~(u = t /\ i = Len(dll_stack[t]))
      BY <1>2, <1>8, <2>3, <3>2 DEF Modules!LoadsApart
    <3> QED
      BY <3>1, <3>2
  <2> QED
    BY <1>2, <1>8, <2>2, <2>3 DEF Modules!LoadsApart
<1> QED
  BY <1>9, <1>10, <1>11, <1>12, <1>13

\* No owner of a base is NoBase, and every list of owners is of bases.
LEMMA OwnedBases ==
  ASSUME Modules!ModulesInv
  PROVE  /\ Modules!Loaded \subseteq Base /\ dll_zombie \subseteq Base /\ dll_leaked \subseteq Base
         /\ \A t \in Thread : \A i \in DOMAIN dll_stack[t] :
              /\ dll_stack[t][i] \in Modules!Frame /\ Modules!Shaped(dll_stack[t][i])
              /\ dll_stack[t][i].base \in Base \cup {NoBase}
              /\ dll_stack[t][i].base # NoBase => dll_stack[t][i].path \in Path
<1>1. Modules!Loaded \subseteq Base
  BY ListedModules DEF Modules!Loaded
<1>2. \A t \in Thread : dll_stack[t] \in Seq(Modules!Frame)
  BY DEF Modules!ModulesInv, Modules!TypeOK
<1>3. \A t \in Thread : \A i \in DOMAIN dll_stack[t] : dll_stack[t][i] \in Modules!Frame /\ Modules!Shaped(dll_stack[t][i])
  BY <1>2 DEF Modules!ModulesInv, Modules!FramesShaped
<1>4. \A f \in Modules!Frame : f.base \in Base \cup {NoBase} /\ f.path \in Path \cup {"none"}
  BY DEF Modules!Frame
<1>5. \A f \in Modules!Frame : Modules!Shaped(f) /\ f.base # NoBase => f.path # "none"
  BY DEF Modules!Shaped
<1> QED
  BY <1>1, <1>3, <1>4, <1>5 DEF Modules!ModulesInv, Modules!TypeOK

\* map_image_anywhere maps the file at a base nobody has.
LEMMA MapImageInv ==
  ASSUME Modules!ModulesInv, NEW t \in Thread, Modules!MapImage(t)
  PROVE  Modules!ModulesInv'
<1> USE DEF Modules!ModulesInv
<1>1. PICK b \in Base :
        /\ dll_image[b] = "none"
        /\ dll_image' = [dll_image EXCEPT ![b] = Modules!Top(t).path]
        /\ Modules!SetTop(t, [Modules!Top(t) EXCEPT !.base = b, !.stage = "bind"])
  BY DEF Modules!MapImage
<1>2. /\ dll_stack[t] # <<>> /\ Modules!Top(t).stage = "read"
      /\ UNCHANGED <<dll_MODULES, dll_lookup, dll_zombie, dll_leaked, dll_raced>>
  BY DEF Modules!MapImage
<1>3. PICK f : f = [Modules!Top(t) EXCEPT !.base = b, !.stage = "bind"]
  OBVIOUS
<1>4. PICK n : n = Len(dll_stack[t])
  OBVIOUS
<1>5. n \in DOMAIN dll_stack[t] /\ Modules!Top(t) = dll_stack[t][n] /\ Modules!Top(t) \in Modules!Frame /\ Modules!Shaped(Modules!Top(t))
  BY <1>2, <1>4, TopFrame DEF Modules!FramesShaped
<1>6. f \in Modules!Frame /\ f.path = Modules!Top(t).path /\ f.stage = "bind" /\ f.base = b
  BY <1>3, <1>5 DEF Modules!Frame, Modules!Stages
<1>7. Modules!Top(t).path # "none" /\ Modules!Top(t).path \in Path /\ Modules!Top(t).base = NoBase
  BY <1>2, <1>5 DEF Modules!Shaped, Modules!Frame
<1>8. Modules!Shaped(f)
  BY <1>6, <1>7, NoBaseAssumption DEF Modules!Shaped
<1>9. /\ dll_stack' \in [Thread -> Seq(Modules!Frame)]
      /\ \A u \in Thread : DOMAIN dll_stack'[u] = DOMAIN dll_stack[u]
      /\ \A u \in Thread : \A i \in DOMAIN dll_stack[u] :
           dll_stack'[u][i] = IF u = t /\ i = n THEN f ELSE dll_stack[u][i]
  BY <1>1, <1>2, <1>3, <1>4, <1>6, SetTopEffect
<1>10. Modules!Loaded' = Modules!Loaded
  BY <1>2 DEF Modules!Loaded
<1>11. /\ b \notin Modules!Loaded /\ b \notin dll_zombie /\ b \notin dll_leaked
       /\ \A u \in Thread : \A i \in DOMAIN dll_stack[u] : dll_stack[u][i].base # b
  <2>1. b \notin Modules!Loaded
    BY <1>1, ListedModules, PathAssumption DEF Modules!Loaded, Modules!ImagesInPlace
  <2>2. b \notin dll_zombie /\ b \notin dll_leaked
    BY <1>1 DEF Modules!ImagesInPlace
  <2>3. \A u \in Thread : \A i \in DOMAIN dll_stack[u] : dll_stack[u][i].base # b
    BY <1>1, OwnedBases, PathAssumption, NoBaseAssumption DEF Modules!ImagesInPlace
  <2> QED
    BY <2>1, <2>2, <2>3
<1>12. /\ dll_image' \in [Base -> Path \cup {"none"}] /\ dll_image'[b] = f.path
       /\ \A c \in Base \ {b} : dll_image'[c] = dll_image[c]
  BY <1>1, <1>6, <1>7 DEF Modules!TypeOK
<1>13. Modules!TypeOK'
  BY <1>2, <1>9, <1>12 DEF Modules!TypeOK
<1>14. Modules!FramesShaped'
  BY <1>8, <1>9 DEF Modules!FramesShaped
<1>15. Modules!BasesApart'
  <2>1. \A u \in Thread : \A i \in DOMAIN dll_stack'[u] :
          dll_stack'[u][i].base \notin Modules!Loaded \cup dll_zombie \cup dll_leaked
    BY <1>6, <1>9, <1>11 DEF Modules!BasesApart
  <2>2. \A u, v \in Thread : \A i \in DOMAIN dll_stack'[u], j \in DOMAIN dll_stack'[v] :
          dll_stack'[u][i].base = dll_stack'[v][j].base /\ dll_stack'[u][i].base # NoBase => u = v /\ i = j
    BY <1>6, <1>9, <1>11 DEF Modules!BasesApart
  <2> QED
    BY <1>2, <1>10, <2>1, <2>2 DEF Modules!BasesApart
<1>16. Modules!ImagesInPlace'
  <2>1. \A i \in DOMAIN dll_MODULES : dll_image'[dll_MODULES[i].base] = dll_MODULES[i].path
    <3>1. \A i \in DOMAIN dll_MODULES : dll_MODULES[i].base \in Base \ {b}
      BY <1>11, ListedModules DEF Modules!Loaded
    <3> QED
      BY <1>12, <3>1 DEF Modules!ImagesInPlace
  <2>2. ASSUME NEW u \in Thread, NEW i \in DOMAIN dll_stack[u], dll_stack'[u][i].base # NoBase
        PROVE  dll_image'[dll_stack'[u][i].base] = dll_stack'[u][i].path
    <3>1. CASE u = t /\ i = n
      BY <1>6, <1>9, <1>12, <3>1
    <3>2. CASE ~(u = t /\ i = n)
      <4>1. dll_stack'[u][i] = dll_stack[u][i]
        BY <1>9, <3>2
      <4>2. dll_stack[u][i].base \in Base \ {b}
        BY <1>11, <2>2, <4>1, OwnedBases
      <4> QED
        BY <1>12, <2>2, <4>1, <4>2 DEF Modules!ImagesInPlace
    <3> QED
      BY <3>1, <3>2
  <2>3. \A c \in dll_zombie \cup dll_leaked : dll_image'[c] # "none"
    BY <1>11, <1>12, OwnedBases DEF Modules!ImagesInPlace
  <2> QED
    BY <1>2, <1>9, <2>1, <2>2, <2>3 DEF Modules!ImagesInPlace
<1>17. Modules!LookupsHeld'
  BY <1>2, <1>10 DEF Modules!LookupsHeld
<1>18. Modules!OnlyBindFailuresLeak'
  <2>1. SUFFICES ASSUME NEW c \in Base, dll_image'[c] # "none", c \notin Modules!Loaded \cup dll_leaked,
                        \A u \in Thread : dll_lookup[u] # c
                 PROVE  \E u \in Thread : \E i \in DOMAIN dll_stack'[u] : dll_stack'[u][i].base = c
    BY <1>2, <1>10 DEF Modules!OnlyBindFailuresLeak
  <2>2. CASE c = b
    BY <1>5, <1>6, <1>9, <2>2
  <2>3. CASE c # b
    <3>1. PICK u \in Thread : \E i \in DOMAIN dll_stack[u] : dll_stack[u][i].base = c
      BY <1>12, <2>1, <2>3 DEF Modules!OnlyBindFailuresLeak
    <3> QED
      BY <1>5, <1>7, <1>9, <3>1, NoBaseAssumption
  <2> QED
    BY <2>2, <2>3
<1>19. Modules!LoadsApart' /\ Modules!LoadedOnce'
  BY <1>2, <1>5, <1>6, <1>9, PathsKept
<1> QED
  BY <1>13, <1>14, <1>15, <1>16, <1>17, <1>18, <1>19

\* A failed bind leaves its image mapped, and goes on to the next candidate.
LEMMA BindFailedInv ==
  ASSUME Modules!ModulesInv, NEW t \in Thread, Modules!BindFailed(t)
  PROVE  Modules!ModulesInv'
<1> USE DEF Modules!ModulesInv
<1>1. /\ dll_stack[t] # <<>> /\ Modules!Top(t).stage = "bind" /\ Modules!TryNext(t)
      /\ dll_leaked' = dll_leaked \cup {Modules!Top(t).base}
      /\ UNCHANGED <<dll_MODULES, dll_image, dll_lookup, dll_zombie, dll_raced>>
  BY DEF Modules!BindFailed
<1>2. PICK f : f = [Modules!Top(t) EXCEPT !.path = "none", !.base = NoBase, !.stage = "search"]
  OBVIOUS
<1>3. PICK n : n = Len(dll_stack[t])
  OBVIOUS
<1>4. PICK b : b = Modules!Top(t).base
  OBVIOUS
<1>5. n \in DOMAIN dll_stack[t] /\ Modules!Top(t) = dll_stack[t][n] /\ Modules!Top(t) \in Modules!Frame /\ Modules!Shaped(Modules!Top(t))
  BY <1>1, <1>3, TopFrame DEF Modules!FramesShaped
<1>6. f \in Modules!Frame /\ f.stage = "search" /\ f.base = NoBase /\ Modules!Shaped(f) /\ Modules!SetTop(t, f)
  BY <1>1, <1>2, <1>5 DEF Modules!TryNext, Modules!Frame, Modules!Stages, Modules!Shaped
<1>7. /\ dll_stack[t][n].base = b /\ b \in Base /\ b # NoBase
      /\ dll_leaked' = dll_leaked \cup {b} /\ dll_image[b] # "none"
  <2>1. dll_stack[t][n].base = b /\ b # NoBase
    BY <1>1, <1>4, <1>5 DEF Modules!Shaped
  <2>2. b \in Base /\ dll_stack[t][n].path \in Path
    BY <1>5, <2>1, OwnedBases
  <2>3. dll_image[b] = dll_stack[t][n].path
    BY <1>5, <2>1 DEF Modules!ImagesInPlace
  <2> QED
    BY <1>1, <1>4, <2>1, <2>2, <2>3, PathAssumption
<1>8. /\ dll_stack' \in [Thread -> Seq(Modules!Frame)]
      /\ \A u \in Thread : DOMAIN dll_stack'[u] = DOMAIN dll_stack[u]
      /\ \A u \in Thread : \A i \in DOMAIN dll_stack[u] :
           dll_stack'[u][i] = IF u = t /\ i = n THEN f ELSE dll_stack[u][i]
  BY <1>1, <1>3, <1>6, SetTopEffect
<1>9. Modules!Loaded' = Modules!Loaded
  BY <1>1 DEF Modules!Loaded
<1>10. Modules!TypeOK'
  BY <1>1, <1>7, <1>8 DEF Modules!TypeOK
<1>11. Modules!FramesShaped'
  BY <1>6, <1>8 DEF Modules!FramesShaped
<1>12. Modules!BasesApart'
  <2>1. b \notin Modules!Loaded /\ b \notin dll_zombie
    BY <1>5, <1>7 DEF Modules!BasesApart
  <2>2. ASSUME NEW u \in Thread, NEW i \in DOMAIN dll_stack[u]
        PROVE  dll_stack'[u][i].base \notin Modules!Loaded \cup dll_zombie \cup dll_leaked'
    <3>1. CASE u = t /\ i = n
      BY <1>6, <1>7, <1>8, <3>1, OwnedBases, NoBaseAssumption
    <3>2. CASE ~(u = t /\ i = n)
      BY <1>5, <1>7, <1>8, <3>2 DEF Modules!BasesApart
    <3> QED
      BY <3>1, <3>2
  <2>3. \A u, v \in Thread : \A i \in DOMAIN dll_stack'[u], j \in DOMAIN dll_stack'[v] :
          dll_stack'[u][i].base = dll_stack'[v][j].base /\ dll_stack'[u][i].base # NoBase => u = v /\ i = j
    BY <1>6, <1>8 DEF Modules!BasesApart
  <2> QED
    BY <1>1, <1>7, <1>8, <1>9, <2>1, <2>2, <2>3 DEF Modules!BasesApart
<1>13. Modules!ImagesInPlace'
  BY <1>1, <1>6, <1>7, <1>8 DEF Modules!ImagesInPlace
<1>14. Modules!LookupsHeld'
  BY <1>1, <1>9 DEF Modules!LookupsHeld
<1>15. Modules!OnlyBindFailuresLeak'
  <2>1. SUFFICES ASSUME NEW c \in Base, dll_image[c] # "none", c \notin Modules!Loaded \cup dll_leaked',
                        \A u \in Thread : dll_lookup[u] # c
                 PROVE  \E u \in Thread : \E i \in DOMAIN dll_stack'[u] : dll_stack'[u][i].base = c
    BY <1>1, <1>9 DEF Modules!OnlyBindFailuresLeak
  <2>2. PICK u \in Thread : \E i \in DOMAIN dll_stack[u] : dll_stack[u][i].base = c
    BY <1>7, <2>1 DEF Modules!OnlyBindFailuresLeak
  <2>3. PICK i \in DOMAIN dll_stack[u] : dll_stack[u][i].base = c
    BY <2>2
  <2>4. ~(u = t /\ i = n)
    BY <1>7, <2>1, <2>3
  <2>5. i \in DOMAIN dll_stack'[u] /\ dll_stack'[u][i].base = c
    BY <1>8, <2>3, <2>4
  <2> QED
    BY <2>5
<1>16. Modules!LoadsApart' /\ Modules!LoadedOnce'
  BY <1>1, <1>6, <1>8, PathsKept
<1> QED
  BY <1>10, <1>11, <1>12, <1>13, <1>14, <1>15, <1>16

\* A DllMain that returns FALSE unmaps the image of its load, and no other.
LEMMA DllMainFalseInv ==
  ASSUME Modules!ModulesInv, NEW t \in Thread, Modules!DllMainFalse(t)
  PROVE  Modules!ModulesInv'
<1> USE DEF Modules!ModulesInv
<1>1. /\ dll_stack[t] # <<>> /\ Modules!Top(t).stage = "dll_main" /\ Modules!TryNext(t)
      /\ dll_image' = [dll_image EXCEPT ![Modules!Top(t).base] = "none"]
      /\ UNCHANGED <<dll_MODULES, dll_lookup, dll_zombie, dll_leaked, dll_raced>>
  BY DEF Modules!DllMainFalse
<1>2. PICK f : f = [Modules!Top(t) EXCEPT !.path = "none", !.base = NoBase, !.stage = "search"]
  OBVIOUS
<1>3. PICK n : n = Len(dll_stack[t])
  OBVIOUS
<1>4. PICK b : b = Modules!Top(t).base
  OBVIOUS
<1>5. n \in DOMAIN dll_stack[t] /\ Modules!Top(t) = dll_stack[t][n] /\ Modules!Top(t) \in Modules!Frame /\ Modules!Shaped(Modules!Top(t))
  BY <1>1, <1>3, TopFrame DEF Modules!FramesShaped
<1>6. f \in Modules!Frame /\ f.stage = "search" /\ f.base = NoBase /\ Modules!Shaped(f) /\ Modules!SetTop(t, f)
  BY <1>1, <1>2, <1>5 DEF Modules!TryNext, Modules!Frame, Modules!Stages, Modules!Shaped
<1>7. dll_stack[t][n].base = b /\ b \in Base /\ b # NoBase
  <2>1. dll_stack[t][n].base = b /\ b # NoBase
    BY <1>1, <1>4, <1>5 DEF Modules!Shaped
  <2> QED
    BY <1>5, <2>1, OwnedBases
<1>8. /\ dll_stack' \in [Thread -> Seq(Modules!Frame)]
      /\ \A u \in Thread : DOMAIN dll_stack'[u] = DOMAIN dll_stack[u]
      /\ \A u \in Thread : \A i \in DOMAIN dll_stack[u] :
           dll_stack'[u][i] = IF u = t /\ i = n THEN f ELSE dll_stack[u][i]
  BY <1>1, <1>3, <1>6, SetTopEffect
<1>9. Modules!Loaded' = Modules!Loaded
  BY <1>1 DEF Modules!Loaded
<1>10. /\ dll_image' \in [Base -> Path \cup {"none"}] /\ dll_image'[b] = "none"
       /\ \A c \in Base \ {b} : dll_image'[c] = dll_image[c]
  BY <1>1, <1>4, <1>7 DEF Modules!TypeOK
<1>11. /\ b \notin Modules!Loaded /\ b \notin dll_zombie /\ b \notin dll_leaked
       /\ \A u \in Thread : \A i \in DOMAIN dll_stack[u] :
            ~(u = t /\ i = n) => dll_stack[u][i].base # b
  BY <1>5, <1>7 DEF Modules!BasesApart
<1>12. Modules!TypeOK'
  BY <1>1, <1>8, <1>10 DEF Modules!TypeOK
<1>13. Modules!FramesShaped'
  BY <1>6, <1>8 DEF Modules!FramesShaped
<1>14. Modules!BasesApart'
  <2>1. ASSUME NEW u \in Thread, NEW i \in DOMAIN dll_stack[u]
        PROVE  dll_stack'[u][i].base \notin Modules!Loaded \cup dll_zombie \cup dll_leaked
    <3>1. CASE u = t /\ i = n
      BY <1>6, <1>8, <3>1, OwnedBases, NoBaseAssumption
    <3>2. CASE ~(u = t /\ i = n)
      BY <1>8, <3>2 DEF Modules!BasesApart
    <3> QED
      BY <3>1, <3>2
  <2>2. \A u, v \in Thread : \A i \in DOMAIN dll_stack'[u], j \in DOMAIN dll_stack'[v] :
          dll_stack'[u][i].base = dll_stack'[v][j].base /\ dll_stack'[u][i].base # NoBase => u = v /\ i = j
    BY <1>6, <1>8 DEF Modules!BasesApart
  <2> QED
    BY <1>1, <1>8, <1>9, <2>1, <2>2 DEF Modules!BasesApart
<1>15. Modules!ImagesInPlace'
  <2>1. \A i \in DOMAIN dll_MODULES : dll_image'[dll_MODULES[i].base] = dll_MODULES[i].path
    <3>1. \A i \in DOMAIN dll_MODULES : dll_MODULES[i].base \in Base \ {b}
      BY <1>11, ListedModules DEF Modules!Loaded
    <3> QED
      BY <1>10, <3>1 DEF Modules!ImagesInPlace
  <2>2. ASSUME NEW u \in Thread, NEW i \in DOMAIN dll_stack[u], dll_stack'[u][i].base # NoBase
        PROVE  dll_image'[dll_stack'[u][i].base] = dll_stack'[u][i].path
    <3>1. ~(u = t /\ i = n) /\ dll_stack'[u][i] = dll_stack[u][i]
      BY <1>6, <1>8, <2>2
    <3>2. dll_stack[u][i].base \in Base \ {b}
      BY <1>11, <2>2, <3>1, OwnedBases
    <3> QED
      BY <1>10, <2>2, <3>1, <3>2 DEF Modules!ImagesInPlace
  <2>3. \A c \in dll_zombie \cup dll_leaked : dll_image'[c] # "none"
    BY <1>10, <1>11, OwnedBases DEF Modules!ImagesInPlace
  <2> QED
    BY <1>1, <1>8, <2>1, <2>2, <2>3 DEF Modules!ImagesInPlace
<1>16. Modules!LookupsHeld'
  BY <1>1, <1>9 DEF Modules!LookupsHeld
<1>17. Modules!OnlyBindFailuresLeak'
  <2>1. SUFFICES ASSUME NEW c \in Base, dll_image'[c] # "none", c \notin Modules!Loaded \cup dll_leaked,
                        \A u \in Thread : dll_lookup[u] # c
                 PROVE  \E u \in Thread : \E i \in DOMAIN dll_stack'[u] : dll_stack'[u][i].base = c
    BY <1>1, <1>9 DEF Modules!OnlyBindFailuresLeak
  <2>2. c # b
    BY <1>10, <2>1
  <2>3. PICK u \in Thread : \E i \in DOMAIN dll_stack[u] : dll_stack[u][i].base = c
    BY <1>10, <2>1, <2>2 DEF Modules!OnlyBindFailuresLeak
  <2> QED
    BY <1>7, <1>8, <2>2, <2>3
<1>18. Modules!LoadsApart' /\ Modules!LoadedOnce'
  BY <1>1, <1>6, <1>8, PathsKept
<1> QED
  BY <1>12, <1>13, <1>14, <1>15, <1>16, <1>17, <1>18

\* Registering hands the mapped image over to the list.
LEMMA RegisterInv ==
  ASSUME Modules!ModulesInv, NEW t \in Thread, Modules!Register(t)
  PROVE  Modules!ModulesInv'
<1> USE DEF Modules!ModulesInv
<1>1. PICK m : m = [base |-> Modules!Top(t).base, path |-> Modules!Top(t).path, initialized |-> Modules!Top(t).run]
  OBVIOUS
<1>2. /\ dll_stack[t] # <<>> /\ Modules!Top(t).stage = "register" /\ Modules!Pop(t)
      /\ dll_MODULES' = Append(dll_MODULES, m)
      /\ UNCHANGED <<dll_image, dll_lookup, dll_zombie, dll_leaked, dll_raced>>
  BY <1>1 DEF Modules!Register
<1>3. PICK n : n = Len(dll_stack[t])
  OBVIOUS
<1>4. n \in DOMAIN dll_stack[t] /\ Modules!Top(t) = dll_stack[t][n] /\ Modules!Top(t) \in Modules!Frame /\ Modules!Shaped(Modules!Top(t))
  BY <1>2, <1>3, TopFrame DEF Modules!FramesShaped
<1>5. PICK b : b = Modules!Top(t).base
  OBVIOUS
<1>6. /\ dll_stack[t][n].base = b /\ b # NoBase /\ b \in Base /\ dll_stack[t][n].path \in Path
      /\ dll_stack[t][n].stage # "search"
  <2>1. dll_stack[t][n].base = b /\ b # NoBase /\ dll_stack[t][n].stage # "search"
    BY <1>2, <1>4, <1>5 DEF Modules!Shaped
  <2> QED
    BY <1>4, <2>1, OwnedBases
<1>7. m \in Modules!LoadedModule /\ m.base = b /\ m.path = dll_stack[t][n].path
  BY <1>1, <1>4, <1>5, <1>6 DEF Modules!LoadedModule, Modules!Frame
<1>8. PICK k : k = Len(dll_MODULES) + 1
  OBVIOUS
<1>9. /\ dll_MODULES' \in Seq(Modules!LoadedModule)
      /\ DOMAIN dll_MODULES' = DOMAIN dll_MODULES \cup {k} /\ k \notin DOMAIN dll_MODULES
      /\ \A i \in DOMAIN dll_MODULES : dll_MODULES'[i] = dll_MODULES[i]
      /\ dll_MODULES'[k] = m
  <2>1. dll_MODULES \in Seq(Modules!LoadedModule)
    BY DEF Modules!TypeOK
  <2> QED
    BY <1>2, <1>7, <1>8, <2>1, PushLast
<1>10. Modules!Loaded' = Modules!Loaded \cup {b}
  BY <1>7, <1>9 DEF Modules!Loaded
<1>11. /\ dll_stack' \in [Thread -> Seq(Modules!Frame)]
       /\ \A u \in Thread : \A i \in DOMAIN dll_stack'[u] :
            /\ i \in DOMAIN dll_stack[u] /\ dll_stack'[u][i] = dll_stack[u][i]
            /\ ~(u = t /\ i = n)
       /\ \A u \in Thread : \A i \in DOMAIN dll_stack[u] :
            ~(u = t /\ i = n) => i \in DOMAIN dll_stack'[u]
  BY <1>2, <1>3, PopEffect
<1>12. Modules!TypeOK'
  BY <1>2, <1>9, <1>11 DEF Modules!TypeOK
<1>13. Modules!FramesShaped'
  BY <1>11 DEF Modules!FramesShaped
<1>14. Modules!BasesApart'
  <2>1. b \notin Modules!Loaded /\ b \notin dll_zombie /\ b \notin dll_leaked
    BY <1>4, <1>6 DEF Modules!BasesApart
  <2>2. \A i, j \in DOMAIN dll_MODULES' : dll_MODULES'[i].base = dll_MODULES'[j].base => i = j
    <3>1. \A i \in DOMAIN dll_MODULES : dll_MODULES[i].base # b
      BY <2>1 DEF Modules!Loaded
    <3> QED
      BY <1>7, <1>9, <3>1 DEF Modules!BasesApart
  <2>3. \A u \in Thread : \A i \in DOMAIN dll_stack'[u] :
          dll_stack'[u][i].base \notin Modules!Loaded' \cup dll_zombie \cup dll_leaked
    BY <1>4, <1>6, <1>10, <1>11 DEF Modules!BasesApart
  <2>4. \A u, v \in Thread : \A i \in DOMAIN dll_stack'[u], j \in DOMAIN dll_stack'[v] :
          dll_stack'[u][i].base = dll_stack'[v][j].base /\ dll_stack'[u][i].base # NoBase => u = v /\ i = j
    BY <1>11 DEF Modules!BasesApart
  <2>5. /\ Modules!Loaded' \cap dll_zombie = {} /\ Modules!Loaded' \cap dll_leaked = {} /\ dll_zombie \cap dll_leaked = {}
    BY <1>10, <2>1 DEF Modules!BasesApart
  <2> QED
    BY <1>2, <2>2, <2>3, <2>4, <2>5 DEF Modules!BasesApart
<1>15. Modules!ImagesInPlace'
  <2>1. dll_image[b] = m.path
    BY <1>4, <1>6, <1>7 DEF Modules!ImagesInPlace
  <2>2. \A i \in DOMAIN dll_MODULES' : dll_image[dll_MODULES'[i].base] = dll_MODULES'[i].path
    BY <1>7, <1>9, <2>1 DEF Modules!ImagesInPlace
  <2>3. \A u \in Thread : \A i \in DOMAIN dll_stack'[u] :
          dll_stack'[u][i].base # NoBase => dll_image[dll_stack'[u][i].base] = dll_stack'[u][i].path
    BY <1>11 DEF Modules!ImagesInPlace
  <2>4. \A c \in dll_zombie \cup dll_leaked : dll_image[c] # "none"
    BY DEF Modules!ImagesInPlace
  <2> QED
    BY <1>2, <2>2, <2>3, <2>4 DEF Modules!ImagesInPlace
<1>16. Modules!LookupsHeld'
  BY <1>2, <1>10 DEF Modules!LookupsHeld
<1>17. Modules!OnlyBindFailuresLeak'
  <2>1. SUFFICES ASSUME NEW c \in Base, dll_image[c] # "none", c \notin Modules!Loaded' \cup dll_leaked,
                        \A u \in Thread : dll_lookup[u] # c
                 PROVE  \E u \in Thread : \E i \in DOMAIN dll_stack'[u] : dll_stack'[u][i].base = c
    BY <1>2 DEF Modules!OnlyBindFailuresLeak
  <2>2. PICK u \in Thread : \E i \in DOMAIN dll_stack[u] : dll_stack[u][i].base = c
    BY <1>10, <2>1 DEF Modules!OnlyBindFailuresLeak
  <2> QED
    BY <1>6, <1>10, <1>11, <2>1, <2>2
<1>18. Modules!LoadsApart'
  <2>1. \A u, v \in Thread : \A i \in DOMAIN dll_stack'[u], j \in DOMAIN dll_stack'[v] :
          /\ dll_stack'[u][i].stage # "search" /\ dll_stack'[v][j].stage # "search"
          /\ dll_stack'[u][i].path = dll_stack'[v][j].path
          => (u = v /\ i = j) \/ dll_stack'[u][i].path \in dll_raced
    BY <1>11 DEF Modules!LoadsApart
  <2>2. ASSUME NEW u \in Thread, NEW i \in DOMAIN dll_stack'[u], NEW j \in DOMAIN dll_MODULES',
               dll_stack'[u][i].stage # "search", dll_stack'[u][i].path = dll_MODULES'[j].path
        PROVE  dll_stack'[u][i].path \in dll_raced
    <3>1. CASE j = k
      BY <1>4, <1>6, <1>7, <1>9, <1>11, <2>2, <3>1 DEF Modules!LoadsApart
    <3>2. CASE j # k
      BY <1>9, <1>11, <2>2, <3>2 DEF Modules!LoadsApart
    <3> QED
      BY <3>1, <3>2
  <2> QED
    BY <1>2, <2>1, <2>2 DEF Modules!LoadsApart
<1>19. Modules!LoadedOnce'
  <2>1. \A i \in DOMAIN dll_MODULES : dll_MODULES[i].path = m.path => m.path \in dll_raced
    BY <1>4, <1>6, <1>7 DEF Modules!LoadsApart
  <2> QED
    BY <1>2, <1>9, <2>1 DEF Modules!LoadedOnce
<1> QED
  BY <1>12, <1>13, <1>14, <1>15, <1>16, <1>17, <1>18, <1>19

\* FreeLibrary takes one module off the list, and its image away unless a
\* lookup still reads it.
LEMMA FreeLibraryInv ==
  ASSUME Modules!ModulesInv, NEW t \in Thread, NEW b \in Base, Modules!FreeLibrary(t, b)
  PROVE  Modules!ModulesInv'
<1> USE DEF Modules!ModulesInv
<1>1. /\ b \in Modules!Loaded /\ dll_MODULES' = Modules!RemoveAt(dll_MODULES, Modules!Position(b))
      /\ IF \E u \in Thread : dll_lookup[u] = b
           THEN dll_zombie' = dll_zombie \cup {b} /\ UNCHANGED dll_image
           ELSE dll_image' = [dll_image EXCEPT ![b] = "none"] /\ UNCHANGED dll_zombie
      /\ UNCHANGED <<dll_stack, dll_lookup, dll_leaked, dll_raced>>
  BY DEF Modules!FreeLibrary
<1>2. PICK k : k = Modules!Position(b)
  OBVIOUS
<1>3. k \in DOMAIN dll_MODULES /\ dll_MODULES[k].base = b
  BY <1>1, <1>2 DEF Modules!Loaded, Modules!Position
<1>4. /\ dll_MODULES' \in Seq(Modules!LoadedModule)
      /\ \A i \in DOMAIN dll_MODULES' :
           \E j \in DOMAIN dll_MODULES \ {k} :
             dll_MODULES'[i] = dll_MODULES[j] /\ j = IF i < k THEN i ELSE i + 1
      /\ \A j \in DOMAIN dll_MODULES \ {k} : \E i \in DOMAIN dll_MODULES' : dll_MODULES'[i] = dll_MODULES[j]
  <2>1. dll_MODULES \in Seq(Modules!LoadedModule)
    BY DEF Modules!TypeOK
  <2>2. dll_MODULES' = Modules!RemoveAt(dll_MODULES, k)
    BY <1>1, <1>2
  <2>3. /\ Modules!RemoveAt(dll_MODULES, k) \in Seq(Modules!LoadedModule)
        /\ \A i \in DOMAIN Modules!RemoveAt(dll_MODULES, k) :
             \E j \in DOMAIN dll_MODULES \ {k} :
               Modules!RemoveAt(dll_MODULES, k)[i] = dll_MODULES[j] /\ j = IF i < k THEN i ELSE i + 1
        /\ \A j \in DOMAIN dll_MODULES \ {k} :
             \E i \in DOMAIN Modules!RemoveAt(dll_MODULES, k) : Modules!RemoveAt(dll_MODULES, k)[i] = dll_MODULES[j]
    BY <1>3, <2>1, RemoveOne
  <2> QED
    BY <2>2, <2>3
<1>5. Modules!Loaded' = Modules!Loaded \ {b}
  <2>1. \A j \in DOMAIN dll_MODULES \ {k} : dll_MODULES[j].base # b
    BY <1>3 DEF Modules!BasesApart
  <2> QED
    BY <1>3, <1>4, <2>1 DEF Modules!Loaded
<1>6. /\ \A i, j \in DOMAIN dll_MODULES' : dll_MODULES'[i].base = dll_MODULES'[j].base => i = j
      /\ \A i, j \in DOMAIN dll_MODULES' : i # j /\ dll_MODULES'[i].path = dll_MODULES'[j].path
           => dll_MODULES'[i].path \in dll_raced
  <2>1. SUFFICES ASSUME NEW i \in DOMAIN dll_MODULES', NEW j \in DOMAIN dll_MODULES', i # j
                 PROVE  /\ dll_MODULES'[i].base # dll_MODULES'[j].base
                        /\ dll_MODULES'[i].path = dll_MODULES'[j].path => dll_MODULES'[i].path \in dll_raced
    OBVIOUS
  <2>2. PICK x \in DOMAIN dll_MODULES \ {k} :
          dll_MODULES'[i] = dll_MODULES[x] /\ x = IF i < k THEN i ELSE i + 1
    BY <1>4
  <2>3. PICK y \in DOMAIN dll_MODULES \ {k} :
          dll_MODULES'[j] = dll_MODULES[y] /\ y = IF j < k THEN j ELSE j + 1
    BY <1>4
  <2>4. x # y
    <3>1. i \in Int /\ j \in Int /\ k \in Int
      <4>1. dll_MODULES \in Seq(Modules!LoadedModule)
        BY DEF Modules!TypeOK
      <4>2. k \in Int
        BY <1>3, <4>1
      <4>3. \A m \in DOMAIN dll_MODULES' : m \in Int
        BY <1>4
      <4> QED
        BY <4>2, <4>3
    <3> QED
      BY <2>1, <2>2, <2>3, <3>1
  <2> QED
    BY <2>2, <2>3, <2>4 DEF Modules!BasesApart, Modules!LoadedOnce
<1>7. /\ b \notin dll_zombie /\ b \notin dll_leaked
      /\ \A u \in Thread : \A i \in DOMAIN dll_stack[u] : dll_stack[u][i].base # b
  BY <1>1 DEF Modules!BasesApart
<1>8. /\ dll_image' \in [Base -> Path \cup {"none"}]
      /\ \A c \in Base \ {b} : dll_image'[c] = dll_image[c]
      /\ dll_zombie' \subseteq Base
      /\ dll_image[b] # "none"
  <2>1. dll_image[b] = dll_MODULES[k].path
    BY <1>3 DEF Modules!ImagesInPlace
  <2>2. dll_image[b] # "none"
    BY <1>3, <2>1, ListedModules, PathAssumption
  <2> QED
    BY <1>1, <2>2 DEF Modules!TypeOK
<1>9. \/ /\ \E u \in Thread : dll_lookup[u] = b
         /\ dll_zombie' = dll_zombie \cup {b} /\ dll_image' = dll_image
      \/ /\ \A u \in Thread : dll_lookup[u] # b
         /\ dll_zombie' = dll_zombie /\ dll_image'[b] = "none"
  BY <1>1 DEF Modules!TypeOK
<1>10. Modules!TypeOK'
  BY <1>1, <1>4, <1>8 DEF Modules!TypeOK
<1>11. Modules!FramesShaped'
  BY <1>1 DEF Modules!FramesShaped
<1>12. Modules!BasesApart'
  <2>1. Modules!Loaded' \cap dll_zombie' = {} /\ Modules!Loaded' \cap dll_leaked = {} /\ dll_zombie' \cap dll_leaked = {}
    BY <1>5, <1>7, <1>9 DEF Modules!BasesApart
  <2>2. \A u \in Thread : \A i \in DOMAIN dll_stack[u] :
          dll_stack[u][i].base \notin Modules!Loaded' \cup dll_zombie' \cup dll_leaked
    BY <1>5, <1>7, <1>9 DEF Modules!BasesApart
  <2> QED
    BY <1>1, <1>6, <2>1, <2>2 DEF Modules!BasesApart
<1>13. Modules!ImagesInPlace'
  <2>1. ASSUME NEW i \in DOMAIN dll_MODULES' PROVE dll_image'[dll_MODULES'[i].base] = dll_MODULES'[i].path
    <3>1. PICK j \in DOMAIN dll_MODULES \ {k} : dll_MODULES'[i] = dll_MODULES[j]
      BY <1>4
    <3>2. dll_MODULES[j].base \in Base \ {b}
      BY <1>3, ListedModules DEF Modules!BasesApart
    <3> QED
      BY <1>8, <3>1, <3>2 DEF Modules!ImagesInPlace
  <2>2. ASSUME NEW u \in Thread, NEW i \in DOMAIN dll_stack[u], dll_stack[u][i].base # NoBase
        PROVE  dll_image'[dll_stack[u][i].base] = dll_stack[u][i].path
    <3>1. dll_stack[u][i].base \in Base \ {b}
      BY <1>7, <2>2, OwnedBases
    <3> QED
      BY <1>8, <2>2, <3>1 DEF Modules!ImagesInPlace
  <2>3. \A c \in dll_zombie' \cup dll_leaked : dll_image'[c] # "none"
    BY <1>7, <1>8, <1>9, OwnedBases DEF Modules!ImagesInPlace
  <2> QED
    BY <1>1, <2>1, <2>2, <2>3 DEF Modules!ImagesInPlace
<1>14. Modules!LookupsHeld'
  BY <1>1, <1>5, <1>9 DEF Modules!LookupsHeld
<1>15. Modules!OnlyBindFailuresLeak'
  <2>1. SUFFICES ASSUME NEW c \in Base, dll_image'[c] # "none", c \notin Modules!Loaded' \cup dll_leaked,
                        \A u \in Thread : dll_lookup[u] # c
                 PROVE  \E u \in Thread : \E i \in DOMAIN dll_stack[u] : dll_stack[u][i].base = c
    BY <1>1 DEF Modules!OnlyBindFailuresLeak
  <2>2. c # b
    BY <1>9, <2>1
  <2> QED
    BY <1>5, <1>8, <2>1, <2>2 DEF Modules!OnlyBindFailuresLeak
<1>16. Modules!LoadsApart'
  <2>1. \A u \in Thread : \A i \in DOMAIN dll_stack[u], j \in DOMAIN dll_MODULES' :
          dll_stack[u][i].stage # "search" /\ dll_stack[u][i].path = dll_MODULES'[j].path
            => dll_stack[u][i].path \in dll_raced
    BY <1>4 DEF Modules!LoadsApart
  <2> QED
    BY <1>1, <2>1 DEF Modules!LoadsApart
<1>17. Modules!LoadedOnce'
  BY <1>1, <1>6 DEF Modules!LoadedOnce
<1> QED
  BY <1>10, <1>11, <1>12, <1>13, <1>14, <1>15, <1>16, <1>17

\* GetProcAddress takes a reference to a module on the list.
LEMMA GetProcAddressInv ==
  ASSUME Modules!ModulesInv, NEW t \in Thread, NEW b \in Base, Modules!GetProcAddress(t, b)
  PROVE  Modules!ModulesInv'
<1> USE DEF Modules!ModulesInv
<1>1. /\ dll_lookup[t] = NoBase /\ b \in Modules!Loaded
      /\ dll_lookup' = [dll_lookup EXCEPT ![t] = b]
      /\ UNCHANGED <<dll_MODULES, dll_image, dll_stack, dll_zombie, dll_leaked, dll_raced>>
  BY DEF Modules!GetProcAddress, Modules!GuestRuns
<1>2. /\ dll_lookup' \in [Thread -> Base \cup {NoBase}] /\ dll_lookup'[t] = b
      /\ \A u \in Thread \ {t} : dll_lookup'[u] = dll_lookup[u]
  BY <1>1 DEF Modules!TypeOK
<1>3. Modules!Loaded' = Modules!Loaded
  BY <1>1 DEF Modules!Loaded
<1>4. Modules!TypeOK'
  BY <1>1, <1>2 DEF Modules!TypeOK
<1>5. Modules!FramesShaped' /\ Modules!BasesApart' /\ Modules!ImagesInPlace'
  BY <1>1, <1>3 DEF Modules!FramesShaped, Modules!BasesApart, Modules!ImagesInPlace
<1>6. Modules!LookupsHeld'
  BY <1>1, <1>2, <1>3, OwnedBases, NoBaseAssumption DEF Modules!LookupsHeld
<1>7. Modules!OnlyBindFailuresLeak'
  <2>1. ASSUME NEW c \in Base, NEW u \in Thread, dll_lookup[u] = c PROVE dll_lookup'[u] = c
    BY <1>1, <1>2, <2>1, NoBaseAssumption
  <2> QED
    BY <1>1, <1>3, <2>1 DEF Modules!OnlyBindFailuresLeak
<1>8. Modules!LoadsApart' /\ Modules!LoadedOnce'
  BY <1>1 DEF Modules!LoadsApart, Modules!LoadedOnce
<1> QED
  BY <1>4, <1>5, <1>6, <1>7, <1>8

\* The end of a lookup unmaps a module that is off the list, if no other
\* lookup reads it.
LEMMA LookupDoneInv ==
  ASSUME Modules!ModulesInv, NEW t \in Thread, Modules!LookupDone(t)
  PROVE  Modules!ModulesInv'
<1> USE DEF Modules!ModulesInv
<1>1. PICK b : b = dll_lookup[t]
  OBVIOUS
<1>2. /\ b # NoBase /\ dll_lookup' = [dll_lookup EXCEPT ![t] = NoBase]
      /\ IF b \in dll_zombie /\ \A u \in Thread \ {t} : dll_lookup[u] # b
           THEN /\ dll_image' = [dll_image EXCEPT ![b] = "none"]
                /\ dll_zombie' = dll_zombie \ {b}
           ELSE UNCHANGED <<dll_image, dll_zombie>>
      /\ UNCHANGED <<dll_MODULES, dll_stack, dll_leaked, dll_raced>>
  BY <1>1 DEF Modules!LookupDone
<1>3. /\ b \in Base /\ b \in Modules!Loaded \cup dll_zombie
      /\ dll_lookup' \in [Thread -> Base \cup {NoBase}] /\ dll_lookup'[t] = NoBase
      /\ \A u \in Thread \ {t} : dll_lookup'[u] = dll_lookup[u]
  BY <1>1, <1>2 DEF Modules!TypeOK, Modules!LookupsHeld
<1>4. Modules!Loaded' = Modules!Loaded
  BY <1>2 DEF Modules!Loaded
<1>5. \/ /\ b \in dll_zombie /\ \A u \in Thread \ {t} : dll_lookup[u] # b
         /\ dll_image' \in [Base -> Path \cup {"none"}] /\ dll_image'[b] = "none"
         /\ \A c \in Base \ {b} : dll_image'[c] = dll_image[c]
         /\ dll_zombie' = dll_zombie \ {b}
      \/ /\ b \in Modules!Loaded \/ \E u \in Thread \ {t} : dll_lookup[u] = b
         /\ dll_image' = dll_image /\ dll_zombie' = dll_zombie
  BY <1>2, <1>3 DEF Modules!TypeOK
<1>6. Modules!TypeOK'
  BY <1>2, <1>3, <1>5 DEF Modules!TypeOK
<1>7. Modules!FramesShaped'
  BY <1>2 DEF Modules!FramesShaped
<1>8. Modules!BasesApart'
  BY <1>2, <1>4, <1>5 DEF Modules!BasesApart
<1>9. Modules!ImagesInPlace'
  <2>1. CASE dll_image' = dll_image /\ dll_zombie' = dll_zombie
    BY <1>2, <2>1 DEF Modules!ImagesInPlace
  <2>2. CASE /\ b \in dll_zombie /\ dll_zombie' = dll_zombie \ {b}
             /\ \A c \in Base \ {b} : dll_image'[c] = dll_image[c]
    <3>1. \A i \in DOMAIN dll_MODULES : dll_MODULES[i].base \in Base \ {b}
      BY <2>2, ListedModules DEF Modules!BasesApart, Modules!Loaded
    <3>2. \A u \in Thread : \A i \in DOMAIN dll_stack[u] :
            dll_stack[u][i].base # NoBase => dll_stack[u][i].base \in Base \ {b}
      BY <2>2, OwnedBases DEF Modules!BasesApart
    <3>3. \A c \in dll_zombie' \cup dll_leaked : c \in Base \ {b}
      BY <2>2, OwnedBases DEF Modules!BasesApart
    <3> QED
      BY <1>2, <2>2, <3>1, <3>2, <3>3 DEF Modules!ImagesInPlace
  <2> QED
    BY <1>5, <2>1, <2>2
<1>10. Modules!LookupsHeld'
  <2>1. \A u \in Thread : dll_lookup'[u] # NoBase => dll_lookup'[u] \in Modules!Loaded \cup dll_zombie'
    BY <1>3, <1>5 DEF Modules!LookupsHeld
  <2>2. ASSUME NEW c \in dll_zombie' PROVE \E u \in Thread : dll_lookup'[u] = c
    <3>1. PICK u \in Thread : dll_lookup[u] = c
      BY <1>5 DEF Modules!LookupsHeld
    <3>2. CASE c = b
      BY <1>3, <1>5, <3>2 DEF Modules!BasesApart
    <3>3. CASE c # b
      BY <1>1, <1>3, <3>1, <3>3
    <3> QED
      BY <3>2, <3>3
  <2> QED
    BY <1>4, <2>1, <2>2 DEF Modules!LookupsHeld
<1>11. Modules!OnlyBindFailuresLeak'
  <2>1. SUFFICES ASSUME NEW c \in Base, dll_image'[c] # "none", c \notin Modules!Loaded \cup dll_leaked,
                        \A u \in Thread : dll_lookup'[u] # c
                 PROVE  \E u \in Thread : \E i \in DOMAIN dll_stack[u] : dll_stack[u][i].base = c
    BY <1>2, <1>4 DEF Modules!OnlyBindFailuresLeak
  <2>2. c # b
    BY <1>3, <1>5, <2>1
  <2>3. \A u \in Thread : dll_lookup[u] # c
    BY <1>1, <1>3, <2>1, <2>2
  <2> QED
    BY <1>5, <2>1, <2>2, <2>3 DEF Modules!OnlyBindFailuresLeak
<1>12. Modules!LoadsApart' /\ Modules!LoadedOnce'
  BY <1>2 DEF Modules!LoadsApart, Modules!LoadedOnce
<1> QED
  BY <1>6, <1>7, <1>8, <1>9, <1>10, <1>11, <1>12

\* Every step of a load, an unload or a lookup keeps the invariant.
LEMMA NextModulesInv == Modules!ModulesInv /\ [Modules!Next]_moduleVars => Modules!ModulesInv'
<1> SUFFICES ASSUME Modules!ModulesInv, [Modules!Next]_moduleVars PROVE Modules!ModulesInv'
  OBVIOUS
<1>1. CASE UNCHANGED moduleVars
  <2>1. UNCHANGED <<dll_MODULES, dll_image, dll_stack, dll_lookup, dll_zombie, dll_leaked, dll_raced>>
    BY <1>1 DEF moduleVars
  <2>2. Modules!Loaded' = Modules!Loaded
    BY <2>1 DEF Modules!Loaded
  <2>3. Modules!TypeOK' /\ Modules!FramesShaped'
    BY <2>1 DEF Modules!ModulesInv, Modules!TypeOK, Modules!FramesShaped
  <2>4. Modules!BasesApart' /\ Modules!ImagesInPlace'
    BY <2>1, <2>2 DEF Modules!ModulesInv, Modules!BasesApart, Modules!ImagesInPlace
  <2>5. Modules!LookupsHeld' /\ Modules!OnlyBindFailuresLeak'
    BY <2>1, <2>2 DEF Modules!ModulesInv, Modules!LookupsHeld, Modules!OnlyBindFailuresLeak
  <2>6. Modules!LoadsApart' /\ Modules!LoadedOnce'
    BY <2>1 DEF Modules!ModulesInv, Modules!LoadsApart, Modules!LoadedOnce
  <2> QED
    BY <2>3, <2>4, <2>5, <2>6 DEF Modules!ModulesInv
<1>2. CASE Modules!Next
  <2>1. PICK t \in Thread : Modules!LoadStep(t) \/ Modules!GuestStep(t)
    BY <1>2 DEF Modules!Next
  <2>2. CASE Modules!NotFound(t)
    BY <2>2, SearchEndsInv DEF Modules!NotFound
  <2>3. CASE Modules!AlreadyLoaded(t)
    BY <2>3, SearchEndsInv DEF Modules!AlreadyLoaded
  <2>4. CASE Modules!LookupMiss(t)
    BY <2>4, LookupMissInv
  <2>5. CASE Modules!ReadFailed(t)
    BY <2>5, ReadFailedInv
  <2>6. CASE Modules!MapImage(t)
    BY <2>6, MapImageInv
  <2>7. CASE Modules!BindFailed(t)
    BY <2>7, BindFailedInv
  <2>8. CASE Modules!BindImports(t)
    <3>1. PICK g \in {"dll_main", "register"} : g = IF Modules!Top(t).run THEN "dll_main" ELSE "register"
      OBVIOUS
    <3>2. /\ dll_stack[t] # <<>> /\ Modules!Top(t).stage \in {"bind", "dll_main"}
          /\ Modules!SetTop(t, [Modules!Top(t) EXCEPT !.stage = g])
          /\ UNCHANGED <<dll_MODULES, dll_image, dll_lookup, dll_zombie, dll_leaked, dll_raced>>
      BY <2>8, <3>1 DEF Modules!BindImports
    <3> QED
      BY <3>2, LoadGoesOnInv
  <2>9. CASE Modules!DllMainTrue(t)
    BY <2>9, LoadGoesOnInv DEF Modules!DllMainTrue
  <2>10. CASE Modules!DllMainFalse(t)
    BY <2>10, DllMainFalseInv
  <2>11. CASE Modules!Register(t)
    BY <2>11, RegisterInv
  <2>12. CASE Modules!LookupDone(t)
    BY <2>12, LookupDoneInv
  <2>13. CASE Modules!GuestStep(t)
    <3>1. CASE \E n \in Name, run \in BOOLEAN : Modules!LoadLibrary(t, n, run)
      BY <3>1, LoadLibraryInv
    <3>2. CASE \E b \in Base : Modules!FreeLibrary(t, b) \/ Modules!GetProcAddress(t, b)
      BY <3>2, FreeLibraryInv, GetProcAddressInv
    <3> QED
      BY <2>13, <3>1, <3>2 DEF Modules!GuestStep
  <2> QED
    BY <2>1, <2>2, <2>3, <2>4, <2>5, <2>6, <2>7, <2>8, <2>9, <2>10, <2>11, <2>12, <2>13
       DEF Modules!LoadStep
<1> QED
  BY <1>1, <1>2

\* What the invariant says of the list, of lookups and of what stays mapped.
LEMMA ModulesInvSuffices == Modules!ModulesInv => ModulesSound
<1> SUFFICES ASSUME Modules!ModulesInv PROVE Modules!ModulesMapped
  BY DEF ModulesSound, Modules!ModulesInv
<1> USE DEF Modules!ModulesInv
<1>1. \A m \in Modules!ToSet(dll_MODULES) : dll_image[m.base] = m.path
  BY DEF Modules!ImagesInPlace, Modules!ToSet
<1>2. \A t \in Thread : \A i \in DOMAIN dll_stack[t] :
        dll_stack[t][i].base # NoBase => /\ dll_image[dll_stack[t][i].base] = dll_stack[t][i].path
                                      /\ dll_stack[t][i].base \notin Modules!Loaded
  BY DEF Modules!ImagesInPlace, Modules!BasesApart
<1>3. ASSUME NEW t \in Thread, dll_lookup[t] # NoBase PROVE dll_image[dll_lookup[t]] # "none"
  <2>1. CASE dll_lookup[t] \in Modules!Loaded
    BY <2>1, ListedModules, PathAssumption DEF Modules!Loaded, Modules!ImagesInPlace
  <2>2. CASE dll_lookup[t] \in dll_zombie
    BY <2>2 DEF Modules!ImagesInPlace
  <2> QED
    BY <1>3, <2>1, <2>2 DEF Modules!LookupsHeld
<1> QED
  BY <1>1, <1>2, <1>3 DEF Modules!ModulesMapped, Modules!BasesApart

\* A step of the process is a step of the module list, or leaves it alone.
LEMMA ModulesSteps == [TablesNext]_tableVars => [Modules!Next]_moduleVars
BY DEF TablesNext, HandlesNext, StorageNext, MemoryNext, ModulesNext, KeysNext,
       tableVars, moduleVars

\* However loads nest, fail, race and are freed under a lookup: a path is on
\* the list once unless its loads overlapped, whatever may still be read is
\* mapped at a base of its own, and only a failed bind leaves an image behind.
THEOREM ModuleListSound == TablesSpec => []ModulesSound
<1>1. TablesInit => Modules!ModulesInv
  BY InitModulesInv DEF TablesInit
<1> QED
  BY <1>1, NextModulesInv, ModulesInvSuffices, ModulesSteps, PTL DEF TablesSpec

-----------------------------------------------------------------------------
(* The registry *)

\* The letters of a path are not the separator, and names are text.
LEMMA Letters ==
  /\ Keys!Separator # "a" /\ Keys!Separator # "b" /\ Keys!Separator # "HKLM"
  /\ <<Keys!Separator>> \in Keys!Text /\ <<"HKLM">> \in Keys!Text
  /\ \A x \in Keys!ShortName : x \in Keys!Text /\ Len(x) \in {1, 2} /\ ~Keys!Contains(x, Keys!Separator)
  /\ \A x \in Keys!Subkey : x \in Keys!Text
<1>1. Keys!Separator # "a" /\ Keys!Separator # "b" /\ Keys!Separator # "HKLM"
  BY DEF Keys!Separator
<1>2. <<Keys!Separator>> \in Keys!Text /\ <<"HKLM">> \in Keys!Text
  BY DEF Keys!Text
<1>3. \A x \in Keys!ShortName : x \in Keys!Text /\ Len(x) \in {1, 2}
  <2>1. <<"a">> \in Keys!Text /\ Len(<<"a">>) = 1
    BY DEF Keys!Text
  <2>2. <<"b">> \in Keys!Text /\ Len(<<"b">>) = 1
    BY DEF Keys!Text
  <2>3. <<"a", "b">> \in Keys!Text /\ Len(<<"a", "b">>) = 2
    BY DEF Keys!Text
  <2> QED
    BY <2>1, <2>2, <2>3 DEF Keys!ShortName
<1>4. \A x \in Keys!ShortName : ~Keys!Contains(x, Keys!Separator)
  <2>1. ~Keys!Contains(<<"a">>, Keys!Separator)
    BY <1>1 DEF Keys!Contains
  <2>2. ~Keys!Contains(<<"b">>, Keys!Separator)
    BY <1>1 DEF Keys!Contains
  <2>3. ~Keys!Contains(<<"a", "b">>, Keys!Separator)
    BY <1>1 DEF Keys!Contains
  <2> QED
    BY <2>1, <2>2, <2>3 DEF Keys!ShortName
<1>5. \A x \in Keys!Subkey : x \in Keys!Text
  <2>1. <<>> \in Keys!Text
    BY EmptySeq DEF Keys!Text
  <2>2. <<"a">> \in Keys!Text
    BY DEF Keys!Text
  <2>3. <<"a", "b">> \in Keys!Text
    BY DEF Keys!Text
  <2>4. <<"a", Keys!Separator, "b">> \in Keys!Text
    BY DEF Keys!Text
  <2> QED
    BY <2>1, <2>2, <2>3, <2>4 DEF Keys!Subkey
<1> QED
  BY <1>1, <1>2, <1>3, <1>4, <1>5

\* A part of a sequence, element by element.
LEMMA PartOf ==
  ASSUME NEW S, NEW s \in Seq(S), NEW m \in Nat \ {0}, NEW n \in Nat, n <= Len(s), m <= n + 1
  PROVE  /\ SubSeq(s, m, n) \in Seq(S)
         /\ Len(SubSeq(s, m, n)) = n + 1 - m
         /\ \A i \in 1 .. (n + 1 - m) : SubSeq(s, m, n)[i] = s[m + i - 1]
<1>1. \A i \in m .. n : s[i] \in S
  <2>1. \A i \in m .. n : i \in 1 .. Len(s)
    BY LenProperties
  <2> QED
    BY <2>1, ElementOfSeq
<1>2. /\ SubSeq(s, m, n) \in Seq(S)
      /\ Len(SubSeq(s, m, n)) = IF m <= n THEN n - m + 1 ELSE 0
      /\ \A i \in 1 .. n - m + 1 : SubSeq(s, m, n)[i] = s[m + i - 1]
  BY <1>1, SubSeqProperties
<1>3. n - m + 1 = n + 1 - m /\ (m > n => n + 1 - m = 0)
  OBVIOUS
<1> QED
  BY <1>2, <1>3

\* A prefix, element by element.
LEMMA PrefixElements ==
  ASSUME NEW S, NEW r \in Seq(S), NEW q \in Seq(S)
  PROVE  Keys!IsPrefix(r, q) <=> Len(r) <= Len(q) /\ \A i \in 1 .. Len(r) : q[i] = r[i]
<1>1. Len(r) \in Nat /\ Len(q) \in Nat
  BY LenProperties
<1>2. SubSeq(r, 1, Len(r)) = r
  BY SubSeqFull
<1>3. ASSUME Len(r) <= Len(q)
      PROVE  SubSeq(q, 1, Len(r)) = r <=> \A i \in 1 .. Len(r) : q[i] = r[i]
  <2>1. /\ SubSeq(q, 1, Len(r)) \in Seq(S) /\ Len(SubSeq(q, 1, Len(r))) = Len(r)
        /\ \A i \in 1 .. Len(r) : SubSeq(q, 1, Len(r))[i] = q[i]
    <3>1. Len(r) + 1 - 1 = Len(r) /\ \A i \in 1 .. Len(r) : 1 + i - 1 = i
      BY <1>1
    <3>2. /\ SubSeq(q, 1, Len(r)) \in Seq(S) /\ Len(SubSeq(q, 1, Len(r))) = Len(r) + 1 - 1
          /\ \A i \in 1 .. (Len(r) + 1 - 1) : SubSeq(q, 1, Len(r))[i] = q[1 + i - 1]
      BY <1>1, <1>3, PartOf
    <3> QED
      BY <3>1, <3>2
  <2>2. ASSUME \A i \in 1 .. Len(r) : q[i] = r[i] PROVE SubSeq(q, 1, Len(r)) = r
    BY <2>1, <2>2, SeqEqual
  <2> QED
    BY <2>1, <2>2
<1> QED
  BY <1>1, <1>2, <1>3 DEF Keys!IsPrefix

\* A text and a separator begin another text: it is one component further.
LEMMA BelowElements ==
  ASSUME NEW above \in Keys!Text, NEW q \in Keys!Text
  PROVE  /\ Len(above) \in Nat /\ Len(q) \in Nat
         /\ above \o <<Keys!Separator>> \in Keys!Text /\ Len(above \o <<Keys!Separator>>) = Len(above) + 1
         /\ Keys!IsPrefix(above \o <<Keys!Separator>>, q) <=>
              /\ Len(above) < Len(q) /\ q[Len(above) + 1] = Keys!Separator
              /\ \A i \in 1 .. Len(above) : q[i] = above[i]
<1> DEFINE r == above \o <<Keys!Separator>>
<1>1. Len(above) \in Nat /\ Len(q) \in Nat
  BY LenProperties DEF Keys!Text
<1>2. /\ r \in Keys!Text /\ Len(r) = Len(above) + 1
      /\ \A i \in 1 .. Len(above) : r[i] = above[i]
      /\ r[Len(above) + 1] = Keys!Separator
  <2>1. PICK w : w = <<Keys!Separator>>
    OBVIOUS
  <2>2. w \in Keys!Text /\ Len(w) = 1 /\ w[1] = Keys!Separator
    BY <2>1, Letters
  <2>3. /\ above \o w \in Keys!Text /\ Len(above \o w) = Len(above) + 1
        /\ \A i \in 1 .. (Len(above) + 1) :
             (above \o w)[i] = IF i <= Len(above) THEN above[i] ELSE w[i - Len(above)]
    <3>1. above \in Seq({"HKLM", Keys!Separator, "a", "b"}) /\ w \in Seq({"HKLM", Keys!Separator, "a", "b"})
      BY <2>2 DEF Keys!Text
    <3>2. /\ above \o w \in Seq({"HKLM", Keys!Separator, "a", "b"})
          /\ Len(above \o w) = Len(above) + Len(w)
          /\ \A i \in 1 .. Len(above) + Len(w) :
               (above \o w)[i] = IF i <= Len(above) THEN above[i] ELSE w[i - Len(above)]
      BY <3>1, ConcatProperties
    <3> QED
      BY <2>2, <3>2 DEF Keys!Text
  <2>4. (Len(above) + 1) - Len(above) = 1
    BY <1>1
  <2> QED
    BY <1>1, <2>1, <2>2, <2>3, <2>4
<1> HIDE DEF r
<1>3. Keys!IsPrefix(r, q) <=> Len(r) <= Len(q) /\ \A i \in 1 .. Len(r) : q[i] = r[i]
  BY <1>2, PrefixElements DEF Keys!Text
<1>4. Keys!IsPrefix(r, q) <=>
        /\ Len(above) < Len(q) /\ q[Len(above) + 1] = Keys!Separator
        /\ \A i \in 1 .. Len(above) : q[i] = above[i]
  BY <1>1, <1>2, <1>3
<1> QED
  BY <1>1, <1>2, <1>4 DEF r

\* The text comparison of RegDeleteTree finds the key and the keys below it.
LEMMA TreeIsBelow ==
  ASSUME NEW above \in Keys!Text, above # <<>>, NEW q \in Keys!Text
  PROVE  Keys!InTree(above, q) <=>
           \/ q = above
           \/ \E k \in 1 .. (Len(q) - 1) : SubSeq(q, 1, k) = above /\ q[k + 1] = Keys!Separator
<1>1. Len(above) \in Nat \ {0} /\ Len(q) \in Nat
  BY EmptySeq, LenProperties DEF Keys!Text
<1>2. ASSUME NEW k \in 1 .. (Len(q) - 1)
      PROVE  /\ Len(SubSeq(q, 1, k)) = k /\ SubSeq(q, 1, k) \in Keys!Text
             /\ \A i \in 1 .. k : SubSeq(q, 1, k)[i] = q[i]
  <2>1. k \in Nat /\ k <= Len(q) /\ k + 1 - 1 = k /\ \A i \in 1 .. k : 1 + i - 1 = i
    BY <1>1
  <2>2. /\ SubSeq(q, 1, k) \in Keys!Text /\ Len(SubSeq(q, 1, k)) = k + 1 - 1
        /\ \A i \in 1 .. (k + 1 - 1) : SubSeq(q, 1, k)[i] = q[1 + i - 1]
    BY SMTT(30), <2>1, PartOf DEF Keys!Text
  <2> QED
    BY <2>1, <2>2
<1>3. ASSUME Keys!IsPrefix(above \o <<Keys!Separator>>, q)
      PROVE  \E k \in 1 .. (Len(q) - 1) : SubSeq(q, 1, k) = above /\ q[k + 1] = Keys!Separator
  <2>1. /\ Len(above) < Len(q) /\ q[Len(above) + 1] = Keys!Separator
        /\ \A i \in 1 .. Len(above) : q[i] = above[i]
    BY <1>3, BelowElements
  <2>2. Len(above) \in 1 .. (Len(q) - 1)
    BY <1>1, <2>1
  <2>3. SubSeq(q, 1, Len(above)) = above
    BY <1>2, <2>1, <2>2, SeqEqual DEF Keys!Text
  <2> QED
    BY <2>1, <2>2, <2>3
<1>4. ASSUME NEW k \in 1 .. (Len(q) - 1), SubSeq(q, 1, k) = above, q[k + 1] = Keys!Separator
      PROVE  Keys!IsPrefix(above \o <<Keys!Separator>>, q)
  <2>1. Len(above) = k /\ \A i \in 1 .. k : q[i] = above[i]
    BY <1>2, <1>4
  <2>2. /\ Len(above) < Len(q) /\ q[Len(above) + 1] = Keys!Separator
        /\ \A i \in 1 .. Len(above) : q[i] = above[i]
    BY <1>1, <1>4, <2>1
  <2> QED
    BY <2>2, BelowElements
<1> QED
  BY <1>3, <1>4 DEF Keys!InTree

\* A text put together of two, and taken apart again.
LEMMA RestOf ==
  ASSUME NEW r \in Keys!Text, NEW x \in Keys!Text
  PROVE  /\ r \o x \in Keys!Text /\ Len(r \o x) = Len(r) + Len(x)
         /\ \A i \in 1 .. Len(r) : (r \o x)[i] = r[i]
         /\ \A i \in 1 .. Len(x) : (r \o x)[Len(r) + i] = x[i]
         /\ SubSeq(r \o x, Len(r) + 1, Len(r \o x)) = x
<1> DEFINE q == r \o x
<1>1. Len(r) \in Nat /\ Len(x) \in Nat
  BY LenProperties DEF Keys!Text
<1>2. /\ q \in Keys!Text /\ Len(q) = Len(r) + Len(x)
      /\ \A i \in 1 .. Len(r) + Len(x) : q[i] = IF i <= Len(r) THEN r[i] ELSE x[i - Len(r)]
  BY ConcatProperties DEF Keys!Text
<1> HIDE DEF q
<1>3. /\ \A i \in 1 .. Len(r) : q[i] = r[i]
      /\ \A i \in 1 .. Len(x) : q[Len(r) + i] = x[i]
  <2>1. \A i \in 1 .. Len(x) : /\ Len(r) + i \in 1 .. (Len(r) + Len(x)) /\ ~(Len(r) + i <= Len(r))
                               /\ (Len(r) + i) - Len(r) = i
    BY <1>1
  <2> QED
    BY <1>1, <1>2, <2>1
<1>4. SubSeq(q, Len(r) + 1, Len(q)) = x
  <2> DEFINE w == SubSeq(q, Len(r) + 1, Len(q))
  <2>1. /\ w \in Keys!Text /\ Len(w) = Len(q) + 1 - (Len(r) + 1)
        /\ \A i \in 1 .. (Len(q) + 1 - (Len(r) + 1)) : w[i] = q[(Len(r) + 1) + i - 1]
    BY <1>1, <1>2, PartOf DEF Keys!Text
  <2>2. Len(q) + 1 - (Len(r) + 1) = Len(x) /\ \A i \in 1 .. Len(x) : (Len(r) + 1) + i - 1 = Len(r) + i
    BY <1>1, <1>2
  <2> HIDE DEF w
  <2>3. w = x
    <3>1. Len(w) = Len(x) /\ \A i \in 1 .. Len(x) : w[i] = q[Len(r) + i]
      BY <2>1, <2>2
    <3>2. \A i \in 1 .. Len(w) : w[i] = x[i]
      BY <1>3, <3>1
    <3> QED
      BY <2>1, <3>1, <3>2, SeqEqual DEF Keys!Text
  <2> QED
    BY <2>3 DEF w
<1> QED
  BY <1>2, <1>3, <1>4 DEF q

\* A key is counted below path exactly when it is path and one name further.
LEMMA DirectIsName ==
  ASSUME NEW path \in Keys!Text, NEW q, Keys!EndsInName(q)
  PROVE  (/\ Keys!IsPrefix(path \o <<Keys!Separator>>, q)
          /\ SubSeq(q, Len(path) + 2, Len(q)) # <<>>
          /\ ~Keys!Contains(SubSeq(q, Len(path) + 2, Len(q)), Keys!Separator))
           <=> \E name \in Keys!ShortName : q = path \o <<Keys!Separator>> \o name
<1> DEFINE r == path \o <<Keys!Separator>>
           rest == SubSeq(q, Len(path) + 2, Len(q))
<1>1. /\ q \in Keys!Text /\ Len(q) \in Nat /\ Len(path) \in Nat /\ DOMAIN q = 1 .. Len(q)
      /\ r \in Keys!Text /\ Len(r) = Len(path) + 1
  BY BelowElements, LenProperties DEF Keys!EndsInName, Keys!Text
<1>2. ASSUME Keys!IsPrefix(r, q), rest # <<>>, ~Keys!Contains(rest, Keys!Separator)
      PROVE  \E name \in Keys!ShortName : q = r \o name
  <2>1. Len(path) < Len(q) /\ q[Len(path) + 1] = Keys!Separator
    BY <1>1, <1>2, BelowElements
  <2>2. /\ rest \in Keys!Text /\ Len(rest) = Len(q) + 1 - (Len(path) + 2)
        /\ \A i \in 1 .. (Len(q) + 1 - (Len(path) + 2)) : rest[i] = q[(Len(path) + 2) + i - 1]
    <3>1. /\ Len(path) + 2 \in Nat \ {0} /\ Len(path) + 2 <= Len(q) + 1
          /\ Len(q) \in Nat /\ Len(q) <= Len(q)
      BY <1>1, <2>1
    <3>2. q \in Seq({"HKLM", Keys!Separator, "a", "b"})
      BY <1>1 DEF Keys!Text
    <3> QED
      BY <3>1, <3>2, PartOf DEF Keys!Text
  <2> HIDE DEF rest
  <2>3. ASSUME NEW j \in ((Len(path) + 1) + 1) .. Len(q) PROVE q[j] # Keys!Separator
    <3>1. j - (Len(path) + 1) \in 1 .. (Len(q) + 1 - (Len(path) + 2))
      BY <1>1
    <3>2. rest[j - (Len(path) + 1)] = q[j]
      <4>1. (Len(path) + 2) + (j - (Len(path) + 1)) - 1 = j
        BY <1>1
      <4> QED
        BY <2>2, <3>1, <4>1
    <3>3. j - (Len(path) + 1) \in 1 .. Len(rest)
      BY <2>2, <3>1
    <3> QED
      BY <1>2, <3>2, <3>3 DEF Keys!Contains
  <2>4. SubSeq(q, (Len(path) + 1) + 1, Len(q)) \in Keys!ShortName
    <3>1. Len(path) + 1 \in DOMAIN q
      BY <1>1, <2>1
    <3> QED
      BY <2>1, <2>3, <3>1 DEF Keys!EndsInName
  <2>5. (Len(path) + 1) + 1 = Len(path) + 2
    BY <1>1
  <2>6. rest \in Keys!ShortName
    BY ZenonT(30), <2>4, <2>5 DEF rest
  <2>7. q = r \o rest
    <3>1. /\ r \o rest \in Keys!Text /\ Len(r \o rest) = Len(r) + Len(rest)
          /\ \A i \in 1 .. Len(r) : (r \o rest)[i] = r[i]
          /\ \A i \in 1 .. Len(rest) : (r \o rest)[Len(r) + i] = rest[i]
      BY <1>1, <2>2, RestOf
    <3> HIDE DEF r
    <3>2. \A i \in 1 .. Len(r) : q[i] = r[i]
      <4>1. Keys!IsPrefix(r, q) <=> Len(r) <= Len(q) /\ \A i \in 1 .. Len(r) : q[i] = r[i]
        BY <1>1, PrefixElements DEF Keys!Text
      <4> QED
        BY <1>2, <4>1
    <3>3. ASSUME NEW i \in 1 .. Len(q) PROVE q[i] = (r \o rest)[i]
      <4>1. CASE i <= Len(r)
        BY <1>1, <3>1, <3>2, <4>1
      <4>2. CASE i > Len(r)
        <5>1. i - Len(r) \in 1 .. Len(rest) /\ Len(r) + (i - Len(r)) = i
          BY <1>1, <2>2, <4>2
        <5>2. (r \o rest)[i] = rest[i - Len(r)]
          BY <3>1, <5>1
        <5>3. i - Len(r) \in 1 .. (Len(q) + 1 - (Len(path) + 2))
              /\ (Len(path) + 2) + (i - Len(r)) - 1 = i
          BY <1>1, <4>2
        <5> QED
          BY <2>2, <5>2, <5>3
      <4>3. i \in Nat /\ Len(r) \in Nat
        BY <1>1
      <4>4. i <= Len(r) \/ i > Len(r)
        BY <4>3
      <4> QED
        BY <4>1, <4>2, <4>4
    <3>4. Len(r \o rest) = Len(q)
      BY <1>1, <2>1, <2>2, <3>1
    <3> QED
      BY <1>1, <3>1, <3>3, <3>4, SeqEqual DEF Keys!Text
  <2> QED
    BY <2>6, <2>7
<1>3. ASSUME NEW name \in Keys!ShortName, q = r \o name
      PROVE  Keys!IsPrefix(r, q) /\ rest # <<>> /\ ~Keys!Contains(rest, Keys!Separator)
  <2>1. name \in Keys!Text /\ Len(name) \in {1, 2} /\ ~Keys!Contains(name, Keys!Separator)
    BY Letters
  <2>2. /\ SubSeq(q, Len(r) + 1, Len(q)) = name /\ Len(q) = Len(r) + Len(name)
        /\ \A i \in 1 .. Len(r) : q[i] = r[i]
    BY <1>1, <1>3, <2>1, RestOf
  <2>3. rest = name
    <3>1. Len(path) + 2 = Len(r) + 1
      BY <1>1
    <3> QED
      BY <2>2, <3>1
  <2>4. Keys!IsPrefix(r, q)
    <3> HIDE DEF r
    <3>1. Keys!IsPrefix(r, q) <=> Len(r) <= Len(q) /\ \A i \in 1 .. Len(r) : q[i] = r[i]
      BY <1>1, PrefixElements DEF Keys!Text
    <3>2. Len(r) <= Len(q)
      BY <1>1, <2>1, <2>2
    <3> QED
      BY <2>2, <3>1, <3>2
  <2>5. name # <<>>
    BY <2>1, EmptySeq
  <2> QED
    BY <2>1, <2>3, <2>4, <2>5
<1> QED
  BY <1>2, <1>3

\* A name put behind a text and a separator is the last component.
LEMMA NameBelow ==
  ASSUME NEW parent \in Keys!Text, NEW name \in Keys!ShortName
  PROVE  Keys!EndsInName(parent \o <<Keys!Separator>> \o name)
<1>1. PICK r : r = parent \o <<Keys!Separator>>
  OBVIOUS
<1>2. /\ r \in Keys!Text /\ Len(r) \in Nat /\ Len(r) > 0 /\ r[Len(r)] = Keys!Separator
  <2>1. PICK w : w = <<Keys!Separator>>
    OBVIOUS
  <2>2. w \in Keys!Text /\ Len(w) = 1 /\ w[1] = Keys!Separator /\ Len(parent) \in Nat
    BY <2>1, Letters, LenProperties DEF Keys!Text
  <2>3. /\ parent \o w \in Keys!Text /\ Len(parent \o w) = Len(parent) + Len(w)
        /\ \A i \in 1 .. Len(w) : (parent \o w)[Len(parent) + i] = w[i]
    BY <2>2, RestOf
  <2> QED
    BY <1>1, <2>1, <2>2, <2>3
<1>3. name \in Keys!Text /\ Len(name) \in {1, 2} /\ ~Keys!Contains(name, Keys!Separator)
  BY Letters
<1>4. PICK q : q = r \o name
  OBVIOUS
<1>5. /\ q \in Keys!Text /\ Len(q) = Len(r) + Len(name)
      /\ \A i \in 1 .. Len(r) : q[i] = r[i]
      /\ \A i \in 1 .. Len(name) : q[Len(r) + i] = name[i]
      /\ SubSeq(q, Len(r) + 1, Len(q)) = name
  BY <1>2, <1>3, <1>4, RestOf
<1>6. q # <<>> /\ DOMAIN q = 1 .. Len(q)
  BY <1>2, <1>3, <1>5, EmptySeq, LenProperties DEF Keys!Text
<1>7. ASSUME NEW k \in 1 .. Len(q), q[k] = Keys!Separator,
             \A j \in (k + 1) .. Len(q) : q[j] # Keys!Separator
      PROVE  k = Len(r)
  <2>1. ~(k < Len(r))
    <3>1. ASSUME k < Len(r) PROVE Len(r) \in (k + 1) .. Len(q)
      BY <1>2, <1>3, <1>5, <3>1
    <3>2. q[Len(r)] = Keys!Separator
      BY <1>2, <1>5
    <3> QED
      BY <1>7, <3>1, <3>2
  <2>2. ~(k > Len(r))
    <3>1. ASSUME k > Len(r) PROVE k - Len(r) \in 1 .. Len(name) /\ Len(r) + (k - Len(r)) = k
      BY <1>2, <1>3, <1>5, <3>1
    <3>2. \A i \in 1 .. Len(name) : name[i] # Keys!Separator
      BY <1>3 DEF Keys!Contains
    <3> QED
      BY <1>5, <1>7, <3>1, <3>2
  <2>3. k \in Int /\ Len(r) \in Int
    BY <1>2
  <2> QED
    BY <2>1, <2>2, <2>3
<1> QED
  BY <1>1, <1>4, <1>5, <1>6, <1>7 DEF Keys!EndsInName

\* The path of a call ends in a name, as the handle's path does.
LEMMA SubkeyEndsInName ==
  ASSUME NEW p, Keys!EndsInName(p), NEW sub \in Keys!Subkey, sub # <<>>
  PROVE  Keys!EndsInName(p \o <<Keys!Separator>> \o sub)
<1>1. p \in Keys!Text
  BY DEF Keys!EndsInName
<1>2. CASE sub \in Keys!ShortName
  BY <1>1, <1>2, NameBelow
<1>3. CASE sub = <<"a", Keys!Separator, "b">>
  <2>1. PICK a, m, b, r : a = <<"a">> /\ m = <<Keys!Separator>> /\ b = <<"b">> /\ r = p \o m
    OBVIOUS
  <2>2. a \in Keys!Text /\ m \in Keys!Text /\ b \in Keys!Text /\ r \in Keys!Text
    <3>1. a \in Keys!Text /\ b \in Keys!Text /\ m \in Keys!Text
      BY <2>1, Letters DEF Keys!ShortName
    <3> QED
      BY <1>1, <2>1, <3>1, RestOf
  <2>3. sub = (a \o m) \o b
    BY <1>3, <2>1
  <2>4. a \o m \in Keys!Text /\ r \o a \in Keys!Text
    BY <2>2, RestOf
  <2>5. r \o sub = ((r \o a) \o m) \o b
    <3>1. r \o ((a \o m) \o b) = (r \o (a \o m)) \o b
      BY SMTT(30), <2>2, <2>4, ConcatAssociative DEF Keys!Text
    <3>2. r \o (a \o m) = (r \o a) \o m
      BY SMTT(30), <2>2, ConcatAssociative DEF Keys!Text
    <3> QED
      BY <2>3, <3>1, <3>2
  <2>6. Keys!EndsInName((r \o a) \o <<Keys!Separator>> \o <<"b">>)
    BY <2>4, NameBelow DEF Keys!ShortName
  <2> QED
    BY <2>1, <2>5, <2>6
<1> QED
  BY <1>2, <1>3 DEF Keys!Subkey, Keys!ShortName

\* The root ends in a name, and so does the path seeded.
LEMMA RootEndsInName == Keys!EndsInName(<<"HKLM">>) /\ Keys!EndsInName(Keys!Seeded)
<1>1. Keys!EndsInName(<<"HKLM">>)
  <2>1. <<"HKLM">> # <<>> /\ \A k \in DOMAIN <<"HKLM">> : <<"HKLM">>[k] # Keys!Separator
    BY Letters
  <2> QED
    BY <2>1, Letters DEF Keys!EndsInName
<1>2. Keys!Seeded = <<"HKLM">> \o <<Keys!Separator>> \o <<"a", Keys!Separator, "b">>
  BY DEF Keys!Seeded
<1>3. <<"a", Keys!Separator, "b">> \in Keys!Subkey /\ <<"a", Keys!Separator, "b">> # <<>>
  BY DEF Keys!Subkey
<1> QED
  BY <1>1, <1>2, <1>3, SubkeyEndsInName

\* The log with one call more.
LEMMA LogGrows ==
  ASSUME reg_log \in Seq(Keys!Event), NEW c \in Keys!Event, reg_log' = Append(reg_log, c),
         NEW n, n = Len(reg_log)
  PROVE  /\ n \in Nat /\ Len(reg_log') = n + 1 /\ reg_log' \in Seq(Keys!Event)
         /\ DOMAIN reg_log = 1 .. n /\ DOMAIN reg_log' = 1 .. (n + 1)
         /\ reg_log'[n + 1] = c /\ \A i \in 1 .. n : reg_log'[i] = reg_log[i]
<1>1. n \in Nat /\ DOMAIN reg_log = 1 .. n
  BY LenProperties
<1>2. /\ Append(reg_log, c) \in Seq(Keys!Event) /\ Len(Append(reg_log, c)) = n + 1
      /\ Append(reg_log, c)[n + 1] = c /\ \A i \in 1 .. n : Append(reg_log, c)[i] = reg_log[i]
  BY AppendProperties
<1>3. DOMAIN reg_log' = 1 .. (n + 1)
  BY <1>2, LenProperties
<1> QED
  BY <1>1, <1>2, <1>3

\* What one call more leaves of a path, and of what the calls before it left.
LEMMA LogStands ==
  ASSUME reg_log \in Seq(Keys!Event), NEW c \in Keys!Event, reg_log' = Append(reg_log, c),
         NEW n, n = Len(reg_log), NEW p
  PROVE  /\ Keys!KeyIn(n, p)' <=> Keys!KeyIn(n, p)
         /\ Keys!KeyIn(n + 1, p)' <=>
              ~Keys!Deletes(c, p) /\ (Keys!KeyIn(n, p) \/ (c.op \in Keys!Makes /\ c.path = p))
         /\ Keys!Stores(n + 1, p)' =
              IF Keys!Deletes(c, p) THEN {}
              ELSE Keys!Stores(n, p) \cup (IF c.op = "set" /\ c.path = p THEN {n + 1} ELSE {})
<1>1. /\ n \in Nat /\ reg_log'[n + 1] = c /\ \A i \in 1 .. n : reg_log'[i] = reg_log[i]
  BY LogGrows
<1>2. ASSUME NEW i \in 1 .. n
      PROVE  /\ Keys!Standing(i, n, p)' <=> Keys!Standing(i, n, p)
             /\ Keys!Standing(i, n + 1, p)' <=> ~Keys!Deletes(c, p) /\ Keys!Standing(i, n, p)
  <2>1. \A j \in i .. n : j \in 1 .. n
    BY <1>1
  <2>2. \A j : j \in i .. (n + 1) <=> j \in i .. n \/ j = n + 1
    BY <1>1
  <2>3. reg_log'[i] = reg_log[i] /\ \A j \in i .. n : reg_log'[j] = reg_log[j]
    BY <1>1, <2>1
  <2>4. Keys!Standing(i, n, p)' <=> Keys!Standing(i, n, p)
    BY <2>3 DEF Keys!Standing
  <2>5. Keys!Standing(i, n + 1, p)' <=> ~Keys!Deletes(c, p) /\ Keys!Standing(i, n, p)
    BY <1>1, <2>2, <2>3 DEF Keys!Standing
  <2> QED
    BY <2>4, <2>5
<1>3. Keys!Standing(n + 1, n + 1, p)' <=> c.path = p /\ c.op \in Keys!Makes /\ ~Keys!Deletes(c, p)
  <2>1. \A j : j \in (n + 1) .. (n + 1) <=> j = n + 1
    BY <1>1
  <2> QED
    BY <1>1, <2>1 DEF Keys!Standing
<1>4. \A i : i \in 1 .. (n + 1) <=> i \in 1 .. n \/ i = n + 1
  BY <1>1
<1>5. Keys!KeyIn(n, p)' <=> Keys!KeyIn(n, p)
  BY <1>2 DEF Keys!KeyIn
<1>6. Keys!KeyIn(n + 1, p)' <=>
        ~Keys!Deletes(c, p) /\ (Keys!KeyIn(n, p) \/ (c.op \in Keys!Makes /\ c.path = p))
  <2>1. Keys!KeyIn(n + 1, p)' <=> \E i \in 1 .. (n + 1) : Keys!Standing(i, n + 1, p)'
    BY DEF Keys!KeyIn
  <2>2. Keys!KeyIn(n, p) <=> \E i \in 1 .. n : Keys!Standing(i, n, p)
    BY DEF Keys!KeyIn
  <2>3. (\E i \in 1 .. (n + 1) : Keys!Standing(i, n + 1, p)') <=>
          (\E i \in 1 .. n : Keys!Standing(i, n + 1, p)') \/ Keys!Standing(n + 1, n + 1, p)'
    BY <1>4
  <2>4. (\E i \in 1 .. n : Keys!Standing(i, n + 1, p)') <=> ~Keys!Deletes(c, p) /\ Keys!KeyIn(n, p)
    <3>1. ASSUME NEW i \in 1 .. n
          PROVE  Keys!Standing(i, n + 1, p)' <=> ~Keys!Deletes(c, p) /\ Keys!Standing(i, n, p)
      BY <1>2
    <3> QED
      BY <2>2, <3>1
  <2> QED
    <3>1. Keys!KeyIn(n + 1, p)' <=>
            (~Keys!Deletes(c, p) /\ Keys!KeyIn(n, p)) \/ Keys!Standing(n + 1, n + 1, p)'
      BY <2>1, <2>3, <2>4
    <3> QED
      BY <1>3, <3>1, Zenon
<1>7. Keys!Stores(n + 1, p)' =
        IF Keys!Deletes(c, p) THEN {}
        ELSE Keys!Stores(n, p) \cup (IF c.op = "set" /\ c.path = p THEN {n + 1} ELSE {})
  <2>1. ASSUME NEW i
        PROVE  i \in Keys!Stores(n + 1, p)' <=>
                 i \in 1 .. (n + 1) /\ reg_log'[i].op = "set" /\ Keys!Standing(i, n + 1, p)'
    BY DEF Keys!Stores
  <2>2. ASSUME NEW i
        PROVE  i \in Keys!Stores(n, p) <=> i \in 1 .. n /\ reg_log[i].op = "set" /\ Keys!Standing(i, n, p)
    BY DEF Keys!Stores
  <2>3. "set" \in Keys!Makes
    BY DEF Keys!Makes, Keys!Opens
  <2>4. ASSUME NEW i
        PROVE  i \in Keys!Stores(n + 1, p)' <=>
                 ~Keys!Deletes(c, p) /\ (i \in Keys!Stores(n, p) \/ (i = n + 1 /\ c.op = "set" /\ c.path = p))
    <3>1. CASE i \in 1 .. n
      <4>1. i # n + 1
        BY <1>1, <3>1
      <4> QED
        BY <1>1, <1>2, <1>4, <2>1, <2>2, <3>1, <4>1
    <3>2. CASE i = n + 1
      <4>1. i \notin 1 .. n
        BY <1>1, <3>2
      <4> QED
        BY <1>1, <1>3, <1>4, <2>1, <2>2, <2>3, <3>2, <4>1
    <3>3. CASE i \notin 1 .. n /\ i # n + 1
      BY <1>4, <2>1, <2>2, <3>3
    <3> QED
      BY <3>1, <3>2, <3>3
  <2> QED
    BY <2>4
<1> QED
  BY <1>5, <1>6, <1>7

\* The latest of a path's stores is one of them.
LEMMA LatestIs ==
  ASSUME Keys!LatestKnown, reg_log \in Seq(Keys!Event), NEW n, n = Len(reg_log), NEW p, Keys!Stores(n, p) # {}
  PROVE  /\ Keys!Latest(n, p) \in Keys!Stores(n, p) /\ Keys!Latest(n, p) \in 1 .. n
         /\ \A j \in Keys!Stores(n, p) : j <= Keys!Latest(n, p)
<1>1. DOMAIN reg_log = 1 .. n
  BY LenProperties
<1>2. \A i \in Keys!Stores(n, p) : i \in 1 .. n /\ reg_log[i].path = p
  BY DEF Keys!Stores, Keys!Standing
<1>3. p \in {reg_log[i].path : i \in DOMAIN reg_log}
  BY <1>1, <1>2
<1>4. \E i \in Keys!Stores(n, p) : \A j \in Keys!Stores(n, p) : j <= i
  BY <1>3 DEF Keys!LatestKnown
<1> HIDE DEF Keys!Stores
<1>5. Keys!Latest(n, p) \in Keys!Stores(n, p) /\ \A j \in Keys!Stores(n, p) : j <= Keys!Latest(n, p)
  BY <1>4 DEF Keys!Latest
<1> QED
  BY <1>2, <1>5

\* A path has a key if the log leaves one, with the value the log leaves.
LEMMA LogRead ==
  ASSUME Keys!KeysFromLog, NEW n, n = Len(reg_log), NEW p
  PROVE  /\ p \in DOMAIN reg_keys <=> Keys!KeyIn(n, p)
         /\ Keys!ValueIn(n, p) = IF p \in DOMAIN reg_keys THEN reg_keys[p] ELSE 0
         /\ p \notin DOMAIN reg_keys => Keys!Stores(n, p) = {}
<1>1. p \in Keys!KeysIn(n) <=> Keys!KeyIn(n, p)
  BY DEF Keys!KeysIn, Keys!KeyIn, Keys!Standing
<1>2. p \in DOMAIN reg_keys <=> Keys!KeyIn(n, p)
  BY <1>1 DEF Keys!KeysFromLog
<1>3. ~Keys!KeyIn(n, p) => Keys!Stores(n, p) = {}
  BY DEF Keys!Stores, Keys!KeyIn
<1>4. ASSUME p \in DOMAIN reg_keys PROVE Keys!ValueIn(n, p) = reg_keys[p]
  BY <1>4 DEF Keys!KeysFromLog
<1>5. ASSUME p \notin DOMAIN reg_keys PROVE Keys!ValueIn(n, p) = 0
  BY <1>2, <1>3, <1>5 DEF Keys!ValueIn
<1> QED
  BY <1>2, <1>3, <1>4, <1>5

\* Of two sets of calls that are equal the latest is the same.
LEMMA SameLatest ==
  ASSUME NEW n, NEW m, NEW p, Keys!Stores(m, p)' = Keys!Stores(n, p)
  PROVE  Keys!Latest(m, p)' = Keys!Latest(n, p)
<1>1. Keys!Latest(n, p) = CHOOSE i \in Keys!Stores(n, p) : \A j \in Keys!Stores(n, p) : j <= i
  BY Zenon DEF Keys!Latest
<1>2. Keys!Latest(m, p)' = CHOOSE i \in Keys!Stores(m, p)' : \A j \in Keys!Stores(m, p)' : j <= i
  BY Zenon DEF Keys!Latest
<1> HIDE DEF Keys!Stores, Keys!Latest
<1> QED
  BY <1>1, <1>2, Zenon

\* What a call in the log does to the keys is what it does to the map: then the
\* keys stay the ones the log leaves, with their values.
LEMMA LogStep ==
  ASSUME Keys!KeysFromLog, Keys!LatestKnown, reg_log \in Seq(Keys!Event),
         NEW c \in Keys!Event, reg_log' = Append(reg_log, c),
         \A p : p \in DOMAIN reg_keys' <=>
                  ~Keys!Deletes(c, p) /\ (p \in DOMAIN reg_keys \/ (c.op \in Keys!Makes /\ c.path = p)),
         \A p \in DOMAIN reg_keys' :
           reg_keys'[p] = IF c.op = "set" /\ c.path = p THEN c.arg
                       ELSE IF p \in DOMAIN reg_keys THEN reg_keys[p] ELSE 0
  PROVE  Keys!KeysFromLog' /\ Keys!LatestKnown'
<1>1. PICK n : n = Len(reg_log)
  OBVIOUS
<1>2. /\ n \in Nat /\ Len(reg_log') = n + 1 /\ DOMAIN reg_log = 1 .. n
      /\ reg_log'[n + 1] = c /\ \A i \in 1 .. n : reg_log'[i] = reg_log[i]
  BY <1>1, LogGrows
<1>3. ASSUME NEW p
      PROVE  /\ Keys!KeyIn(n + 1, p)' <=>
                  ~Keys!Deletes(c, p) /\ (Keys!KeyIn(n, p) \/ (c.op \in Keys!Makes /\ c.path = p))
             /\ Keys!Stores(n + 1, p)' =
                  IF Keys!Deletes(c, p) THEN {}
                  ELSE Keys!Stores(n, p) \cup (IF c.op = "set" /\ c.path = p THEN {n + 1} ELSE {})
  BY <1>1, LogStands
<1>4. ASSUME NEW p PROVE p \in DOMAIN reg_keys' <=> Keys!KeyIn(n + 1, p)'
  <2>1. p \in DOMAIN reg_keys <=> Keys!KeyIn(n, p)
    BY <1>1, LogRead
  <2> QED
    BY <1>3, <2>1
<1>5. DOMAIN reg_keys' = Keys!KeysIn(n + 1)'
  <2>1. ASSUME NEW p PROVE p \in Keys!KeysIn(n + 1)' <=> Keys!KeyIn(n + 1, p)'
    BY DEF Keys!KeysIn, Keys!KeyIn, Keys!Standing
  <2>2. ASSUME NEW p PROVE p \in DOMAIN reg_keys' <=> p \in Keys!KeysIn(n + 1)'
    BY <1>4, <2>1
  <2> QED
    BY <2>2
<1>6. ASSUME NEW p, Keys!Stores(n, p) # {}
      PROVE  /\ Keys!Latest(n, p) \in Keys!Stores(n, p) /\ Keys!Latest(n, p) \in 1 .. n
             /\ \A j \in Keys!Stores(n, p) : j <= Keys!Latest(n, p)
  BY <1>1, <1>6, LatestIs
<1>7. ASSUME NEW p \in DOMAIN reg_keys', c.op = "set", c.path = p
      PROVE  Keys!ValueIn(n + 1, p)' = c.arg
  <2>1. ~Keys!Deletes(c, p) /\ Keys!Stores(n + 1, p)' = Keys!Stores(n, p) \cup {n + 1}
    BY <1>3, <1>7
  <2>2. \A j \in Keys!Stores(n, p) : j \in 1 .. n
    BY DEF Keys!Stores
  <2>3. PICK S : S = Keys!Stores(n + 1, p)'
    OBVIOUS
  <2>4. n + 1 \in S /\ \A j \in S : j \in Nat /\ j <= n + 1
    BY <1>2, <2>1, <2>2, <2>3
  <2>5. Keys!Latest(n + 1, p)' = CHOOSE i \in S : \A j \in S : j <= i
    BY <2>3, Zenon DEF Keys!Latest
  <2>6. Keys!Latest(n + 1, p)' \in S /\ \A j \in S : j <= Keys!Latest(n + 1, p)'
    BY <2>4, <2>5
  <2>7. Keys!Latest(n + 1, p)' = n + 1
    BY <1>2, <2>4, <2>6
  <2>8. Keys!ValueIn(n + 1, p)' = reg_log'[Keys!Latest(n + 1, p)'].arg
    BY <2>3, <2>4 DEF Keys!ValueIn
  <2> QED
    BY <1>2, <2>7, <2>8
<1>8. ASSUME NEW p \in DOMAIN reg_keys', ~(c.op = "set" /\ c.path = p)
      PROVE  Keys!ValueIn(n + 1, p)' = Keys!ValueIn(n, p)
  <2>1. ~Keys!Deletes(c, p) /\ Keys!Stores(n + 1, p)' = Keys!Stores(n, p)
    BY <1>3, <1>8
  <2>2. Keys!Latest(n + 1, p)' = Keys!Latest(n, p)
    BY <2>1, SameLatest
  <2>3. CASE Keys!Stores(n, p) = {}
    BY <2>1, <2>3 DEF Keys!ValueIn
  <2>4. CASE Keys!Stores(n, p) # {}
    <3>1. reg_log'[Keys!Latest(n, p)] = reg_log[Keys!Latest(n, p)]
      BY <1>2, <1>6, <2>4
    <3>2. Keys!ValueIn(n, p) = reg_log[Keys!Latest(n, p)].arg
      BY <2>4 DEF Keys!ValueIn
    <3>3. Keys!ValueIn(n + 1, p)' = reg_log'[Keys!Latest(n + 1, p)'].arg
      BY <2>1, <2>4 DEF Keys!ValueIn
    <3> QED
      BY <2>2, <3>1, <3>2, <3>3
  <2> QED
    BY <2>3, <2>4
<1>9. ASSUME NEW p \in DOMAIN reg_keys' PROVE reg_keys'[p] = Keys!ValueIn(n + 1, p)'
  <2>1. CASE c.op = "set" /\ c.path = p
    BY <1>7, <2>1
  <2>2. CASE ~(c.op = "set" /\ c.path = p)
    <3>1. Keys!ValueIn(n, p) = IF p \in DOMAIN reg_keys THEN reg_keys[p] ELSE 0
      BY <1>1, LogRead
    <3> QED
      BY <1>8, <2>2, <3>1
  <2> QED
    BY <2>1, <2>2
<1>10. Keys!KeysFromLog'
  BY <1>2, <1>5, <1>9 DEF Keys!KeysFromLog
<1>11. ASSUME NEW p, Keys!Stores(n + 1, p)' # {}
       PROVE  \E i \in Keys!Stores(n + 1, p)' : \A j \in Keys!Stores(n + 1, p)' : j <= i
  <2>1. ~Keys!Deletes(c, p)
    BY <1>3, <1>11
  <2>2. CASE c.op = "set" /\ c.path = p
    <3>1. Keys!Stores(n + 1, p)' = Keys!Stores(n, p) \cup {n + 1}
      BY <1>3, <2>1, <2>2
    <3>2. \A j \in Keys!Stores(n, p) : j \in 1 .. n
      BY DEF Keys!Stores
    <3>3. \A j \in Keys!Stores(n + 1, p)' : j <= n + 1
      BY <1>2, <3>1, <3>2
    <3> QED
      BY <3>1, <3>3
  <2>3. CASE ~(c.op = "set" /\ c.path = p)
    <3>1. Keys!Stores(n + 1, p)' = Keys!Stores(n, p)
      BY <1>3, <2>1, <2>3
    <3> QED
      BY <1>6, <1>11, <3>1
  <2> QED
    BY <2>2, <2>3
<1>12. Keys!LatestKnown'
  BY <1>2, <1>11 DEF Keys!LatestKnown
<1> QED
  BY <1>10, <1>12

\* A call that changes no key reads the same log.
LEMMA LogStays ==
  ASSUME reg_log' = reg_log, NEW n, NEW p
  PROVE  /\ Keys!KeyIn(n, p)' <=> Keys!KeyIn(n, p)
         /\ Keys!Stores(n, p)' = Keys!Stores(n, p)
         /\ Keys!ValueIn(n, p)' = Keys!ValueIn(n, p)
         /\ Keys!KeysIn(n)' = Keys!KeysIn(n)
<1>1. ASSUME NEW i, NEW q PROVE Keys!Standing(i, n, q)' <=> Keys!Standing(i, n, q)
  BY DEF Keys!Standing
<1>2. ASSUME NEW q PROVE Keys!KeyIn(n, q)' <=> Keys!KeyIn(n, q)
  BY <1>1 DEF Keys!KeyIn
<1>3. Keys!Stores(n, p)' = Keys!Stores(n, p)
  BY <1>1 DEF Keys!Stores
<1>4. Keys!Latest(n, p)' = Keys!Latest(n, p)
  BY <1>3, SameLatest
<1>5. Keys!ValueIn(n, p)' = Keys!ValueIn(n, p)
  BY <1>3, <1>4 DEF Keys!ValueIn
<1>6. Keys!KeysIn(n)' = Keys!KeysIn(n)
  BY <1>2 DEF Keys!KeysIn
<1> QED
  BY <1>2, <1>3, <1>5, <1>6

\* Then the keys are still the ones the log leaves.
LEMMA KeysStay ==
  ASSUME Keys!KeysFromLog, Keys!LatestKnown, reg_log' = reg_log, reg_keys' = reg_keys
  PROVE  Keys!KeysFromLog' /\ Keys!LatestKnown'
<1>1. PICK n : n = Len(reg_log)
  OBVIOUS
<1>2. Keys!KeysFromLog'
  BY <1>1, LogStays DEF Keys!KeysFromLog
<1>3. Keys!LatestKnown'
  BY <1>1, LogStays DEF Keys!LatestKnown
<1> QED
  BY <1>2, <1>3

\* What one call more leaves of the handles, and of what the calls before it left.
LEMMA LogHolds ==
  ASSUME reg_log \in Seq(Keys!Event), NEW c \in Keys!Event, reg_log' = Append(reg_log, c),
         NEW n, n = Len(reg_log), NEW h
  PROVE  /\ \A m \in 0 .. n : \A i \in 1 .. m : Keys!Holding(i, m, h)' <=> Keys!Holding(i, m, h)
         /\ \A i \in 1 .. n :
              Keys!Holding(i, n + 1, h)' <=> Keys!Holding(i, n, h) /\ ~(c.op = "close" /\ c.h = h)
         /\ Keys!Holding(n + 1, n + 1, h)' <=> c.op \in Keys!Opens /\ c.h = h
         /\ \A m \in 0 .. n : Keys!OpenIn(m, h)' <=> Keys!OpenIn(m, h)
         /\ \A m \in 0 .. n : \A sub, p : Keys!Names(m, h, sub, p)' <=> Keys!Names(m, h, sub, p)
<1>1. /\ n \in Nat /\ reg_log'[n + 1] = c /\ \A i \in 1 .. n : reg_log'[i] = reg_log[i]
  BY LogGrows
<1>2. ASSUME NEW m \in 0 .. n, NEW i \in 1 .. m
      PROVE  /\ Keys!Holding(i, m, h)' <=> Keys!Holding(i, m, h)
             /\ reg_log'[i] = reg_log[i]
  <2>1. i \in 1 .. n /\ \A j \in i .. m : j \in 1 .. n
    BY <1>1
  <2>2. reg_log'[i] = reg_log[i] /\ \A j \in i .. m : reg_log'[j] = reg_log[j]
    BY <1>1, <2>1
  <2> QED
    BY <2>2 DEF Keys!Holding
<1>3. ASSUME NEW i \in 1 .. n
      PROVE  Keys!Holding(i, n + 1, h)' <=> Keys!Holding(i, n, h) /\ ~(c.op = "close" /\ c.h = h)
  <2>1. /\ \A j : j \in i .. (n + 1) <=> j \in i .. n \/ j = n + 1
        /\ \A j \in i .. n : j \in 1 .. n
    BY <1>1
  <2>2. reg_log'[i] = reg_log[i] /\ \A j \in i .. n : reg_log'[j] = reg_log[j]
    BY <1>1, <2>1
  <2> QED
    BY <1>1, <2>1, <2>2 DEF Keys!Holding
<1>4. Keys!Holding(n + 1, n + 1, h)' <=> c.op \in Keys!Opens /\ c.h = h
  <2>1. \A j : j \in (n + 1) .. (n + 1) <=> j = n + 1
    BY <1>1
  <2>2. c.op \in Keys!Opens => c.op # "close"
    BY DEF Keys!Opens
  <2> QED
    BY <1>1, <2>1, <2>2 DEF Keys!Holding
<1>5. \A m \in 0 .. n : Keys!OpenIn(m, h)' <=> Keys!OpenIn(m, h)
  BY <1>2 DEF Keys!OpenIn
<1>6. \A m \in 0 .. n : \A sub, p : Keys!Names(m, h, sub, p)' <=> Keys!Names(m, h, sub, p)
  BY <1>2 DEF Keys!Names
<1> QED
  BY <1>2, <1>3, <1>4, <1>5, <1>6

\* A call that is not in the log reads the same handles in it.
LEMMA LogHoldsStill ==
  ASSUME reg_log' = reg_log, NEW n, NEW h
  PROVE  /\ \A i : Keys!Holding(i, n, h)' <=> Keys!Holding(i, n, h)
         /\ Keys!OpenIn(n, h)' <=> Keys!OpenIn(n, h)
         /\ \A sub, p : Keys!Names(n, h, sub, p)' <=> Keys!Names(n, h, sub, p)
<1>1. \A i : Keys!Holding(i, n, h)' <=> Keys!Holding(i, n, h)
  BY DEF Keys!Holding
<1> QED
  BY <1>1 DEF Keys!OpenIn, Keys!Names

\* What a call in the log does to the handles is what it does to the table: then
\* the open handles stay the ones the log leaves, and a call between its locks
\* keeps what it was given.
LEMMA HandlesStep ==
  ASSUME Keys!HandlesFromLog, Keys!CallsAddressed, Keys!TypeOK,
         NEW c \in Keys!Event, reg_log' = Append(reg_log, c),
         IF c.op \in Keys!Opens THEN c.h = reg_next /\ reg_next' = reg_next + 1
                                ELSE c.h < reg_next /\ reg_next' = reg_next,
         \A h : h \in DOMAIN reg_handles' <=>
                  \/ c.op \in Keys!Opens /\ c.h = h
                  \/ h \in DOMAIN reg_handles /\ ~(c.op = "close" /\ c.h = h),
         \A h \in DOMAIN reg_handles' :
           reg_handles'[h] = IF c.op \in Keys!Opens /\ c.h = h THEN c.path ELSE reg_handles[h],
         \A u \in Thread : reg_pc'[u] # "idle" => reg_pc[u] # "idle" /\ reg_call'[u] = reg_call[u]
  PROVE  Keys!HandlesFromLog' /\ Keys!CallsAddressed'
<1>1. PICK n : n = Len(reg_log)
  OBVIOUS
<1>2. reg_log \in Seq(Keys!Event) /\ reg_next \in Nat /\ reg_next \in 1 .. (MaxKeyHandles + 1)
  BY RegistryAssumption DEF Keys!TypeOK
<1>3. /\ n \in Nat /\ Len(reg_log') = n + 1 /\ DOMAIN reg_log = 1 .. n /\ DOMAIN reg_log' = 1 .. (n + 1)
      /\ reg_log'[n + 1] = c /\ \A i \in 1 .. n : reg_log'[i] = reg_log[i]
  BY <1>1, <1>2, LogGrows
<1>4. \A i \in 1 .. n : reg_log[i].h < reg_next /\ reg_log[i].h \in Nat
  <2>1. \A i \in 1 .. n : reg_log[i] \in Keys!Event
    BY <1>2, <1>3, ElementOfSeq
  <2>2. \A i \in 1 .. n : reg_log[i].h \in Nat
    BY <2>1, RegistryAssumption DEF Keys!Event, Keys!Handle
  <2> QED
    BY <1>3, <2>2 DEF Keys!HandlesFromLog
<1>5. \A i : i \in 1 .. (n + 1) <=> i \in 1 .. n \/ i = n + 1
  BY <1>3
<1>6. ASSUME NEW h
      PROVE  /\ \A i \in 1 .. n :
                  Keys!Holding(i, n + 1, h)' <=> Keys!Holding(i, n, h) /\ ~(c.op = "close" /\ c.h = h)
             /\ Keys!Holding(n + 1, n + 1, h)' <=> c.op \in Keys!Opens /\ c.h = h
             /\ \A m \in 0 .. n : Keys!OpenIn(m, h)' <=> Keys!OpenIn(m, h)
             /\ \A m \in 0 .. n : \A sub, p : Keys!Names(m, h, sub, p)' <=> Keys!Names(m, h, sub, p)
  BY <1>1, <1>2, LogHolds
<1>7. reg_next' \in Nat /\ reg_next <= reg_next' /\ DOMAIN reg_handles \subseteq 1 .. (reg_next - 1)
  BY <1>2 DEF Keys!TypeOK
<1>8. \A i \in DOMAIN reg_log' : reg_log'[i].h < reg_next'
  <2>1. c.h < reg_next'
    BY <1>2
  <2> QED
    BY <1>2, <1>3, <1>4, <1>5, <1>7, <2>1
<1>9. ASSUME NEW h \in 1 .. (reg_next' - 1)
      PROVE  Keys!OpenIn(n + 1, h)' <=> h \in DOMAIN reg_handles'
  <2>1. h # Keys!Root
    BY DEF Keys!Root
  <2>2. Keys!OpenIn(n + 1, h)' <=>
          (c.op \in Keys!Opens /\ c.h = h) \/ (Keys!OpenIn(n, h) /\ ~(c.op = "close" /\ c.h = h))
    BY <1>5, <1>6, <2>1 DEF Keys!OpenIn
  <2>3. CASE c.op \in Keys!Opens /\ c.h = h
    BY <2>2, <2>3
  <2>4. CASE ~(c.op \in Keys!Opens /\ c.h = h)
    <3>1. h \in 1 .. (reg_next - 1)
      BY <1>2, <2>4
    <3>2. Keys!OpenIn(n, h) <=> h \in DOMAIN reg_handles
      BY <1>1, <3>1 DEF Keys!HandlesFromLog
    <3> QED
      BY <2>2, <2>4, <3>2
  <2> QED
    BY <2>3, <2>4
<1>10. ASSUME NEW i \in DOMAIN reg_log', NEW h \in DOMAIN reg_handles', Keys!Holding(i, n + 1, h)'
       PROVE  reg_log'[i].path = reg_handles'[h]
  <2>1. CASE i = n + 1
    BY <1>3, <1>6, <1>10, <2>1
  <2>2. CASE i \in 1 .. n
    <3>1. Keys!Holding(i, n, h)
      BY <1>6, <1>10, <2>2
    <3>2. reg_log[i].h = h
      BY <3>1 DEF Keys!Holding
    <3>3. ~(c.op \in Keys!Opens /\ c.h = h)
      BY <1>2, <1>4, <2>2, <3>2
    <3>4. h \in DOMAIN reg_handles /\ reg_handles'[h] = reg_handles[h]
      BY <1>10, <3>3
    <3>5. reg_log[i].path = reg_handles[h]
      BY <1>1, <1>3, <2>2, <3>1, <3>4 DEF Keys!HandlesFromLog
    <3> QED
      BY <1>3, <2>2, <3>4, <3>5
  <2> QED
    BY <1>3, <1>5, <2>1, <2>2
<1>11. Keys!HandlesFromLog'
  BY <1>3, <1>8, <1>9, <1>10 DEF Keys!HandlesFromLog
<1>12. ASSUME NEW u \in Thread, reg_pc'[u] # "idle"
       PROVE  /\ reg_call'[u].h < reg_next' /\ reg_call'[u].from <= n + 1
              /\ Keys!OpenIn(reg_call[u].from, reg_call[u].h)'
              /\ Keys!Names(reg_call[u].from, reg_call[u].h, reg_call[u].sub, reg_call[u].path)'
              /\ Keys!Known(reg_call[u].h)' => reg_call'[u].path = Keys!build_path(reg_call[u].h, reg_call[u].sub)'
  <2>1. PICK k : k = reg_call[u]
    OBVIOUS
  <2>2. k \in Keys!Call /\ reg_call'[u] = k
    BY <1>12, <2>1 DEF Keys!TypeOK
  <2>3. k.h \in Nat /\ k.from \in Nat
    BY <2>2, RegistryAssumption DEF Keys!Call, Keys!Handle
  <2>4. /\ k.h < reg_next /\ k.from <= n /\ Keys!OpenIn(k.from, k.h)
        /\ Keys!Names(k.from, k.h, k.sub, k.path)
        /\ Keys!Known(k.h) => k.path = Keys!build_path(k.h, k.sub)
    BY <1>1, <1>12, <2>1 DEF Keys!CallsAddressed
  <2>5. Keys!OpenIn(k.from, k.h)' /\ Keys!Names(k.from, k.h, k.sub, k.path)'
    <3>1. k.from \in 0 .. n
      BY <1>3, <2>3, <2>4
    <3> QED
      BY <1>6, <2>4, <3>1
  <2>6. ~(c.op \in Keys!Opens /\ c.h = k.h)
    BY <1>2, <2>3, <2>4
  <2>7. k.h \in DOMAIN reg_handles' => k.h \in DOMAIN reg_handles /\ reg_handles'[k.h] = reg_handles[k.h]
    BY <2>6
  <2>8. Keys!Known(k.h)' => k.path = Keys!build_path(k.h, k.sub)'
    BY <2>4, <2>7 DEF Keys!Known, Keys!build_path, Keys!resolve_path
  <2>9. k.h < reg_next' /\ k.from <= n + 1
    BY <1>2, <1>3, <1>7, <2>3, <2>4
  <2> QED
    BY <2>2, <2>5, <2>8, <2>9
<1>13. Keys!CallsAddressed'
  BY <1>3, <1>12 DEF Keys!CallsAddressed
<1> QED
  BY <1>11, <1>13

\* A call that is not in the log leaves the handles as they are.
LEMMA HandlesStay ==
  ASSUME Keys!HandlesFromLog, Keys!CallsAddressed,
         reg_log' = reg_log, reg_handles' = reg_handles, reg_next' = reg_next,
         \A u \in Thread : reg_pc'[u] # "idle" => reg_pc[u] # "idle" /\ reg_call'[u] = reg_call[u]
  PROVE  Keys!HandlesFromLog' /\ Keys!CallsAddressed'
<1>1. PICK n : n = Len(reg_log)
  OBVIOUS
<1>2. Keys!HandlesFromLog'
  BY <1>1, LogHoldsStill DEF Keys!HandlesFromLog
<1>3. ASSUME NEW u \in Thread, reg_pc'[u] # "idle"
      PROVE  /\ reg_call'[u].h < reg_next' /\ reg_call'[u].from <= n
             /\ Keys!OpenIn(reg_call[u].from, reg_call[u].h)'
             /\ Keys!Names(reg_call[u].from, reg_call[u].h, reg_call[u].sub, reg_call[u].path)'
             /\ Keys!Known(reg_call[u].h)' => reg_call'[u].path = Keys!build_path(reg_call[u].h, reg_call[u].sub)'
  <2>1. PICK k : k = reg_call[u]
    OBVIOUS
  <2>2. /\ reg_call'[u] = k /\ k.h < reg_next /\ k.from <= n /\ Keys!OpenIn(k.from, k.h)
        /\ Keys!Names(k.from, k.h, k.sub, k.path)
        /\ Keys!Known(k.h) => k.path = Keys!build_path(k.h, k.sub)
    BY <1>1, <1>3, <2>1 DEF Keys!CallsAddressed
  <2>3. Keys!OpenIn(k.from, k.h)' /\ Keys!Names(k.from, k.h, k.sub, k.path)'
    BY <2>2, LogHoldsStill
  <2>4. Keys!Known(k.h)' => k.path = Keys!build_path(k.h, k.sub)'
    BY <2>2 DEF Keys!Known, Keys!build_path, Keys!resolve_path
  <2> QED
    BY <2>2, <2>3, <2>4
<1>4. Keys!CallsAddressed'
  BY <1>1, <1>3 DEF Keys!CallsAddressed
<1> QED
  BY <1>2, <1>4

\* What an open handle and a subkey name is the path the code builds.
LEMMA NamesNow ==
  ASSUME Keys!KeysInv, NEW n, n = Len(reg_log), NEW h \in 0 .. (reg_next - 1), NEW sub
  PROVE  /\ Keys!Known(h) <=> Keys!OpenIn(n, h)
         /\ Keys!Known(h) => Keys!Names(n, h, sub, Keys!build_path(h, sub))
<1> USE DEF Keys!KeysInv
<1>1. reg_next \in Nat /\ reg_log \in Seq(Keys!Event) /\ DOMAIN reg_log = 1 .. n
  BY RegistryAssumption, LenProperties DEF Keys!TypeOK
<1>2. CASE h = Keys!Root
  BY <1>2 DEF Keys!Known, Keys!OpenIn, Keys!Names, Keys!build_path, Keys!resolve_path
<1>3. CASE h # Keys!Root
  <2>1. h \in 1 .. (reg_next - 1)
    BY <1>1, <1>3 DEF Keys!Root
  <2>2. Keys!OpenIn(n, h) <=> h \in DOMAIN reg_handles
    BY <2>1 DEF Keys!HandlesFromLog
  <2>3. Keys!Known(h) <=> h \in DOMAIN reg_handles
    BY <1>3 DEF Keys!Known
  <2>4. ASSUME h \in DOMAIN reg_handles PROVE Keys!Names(n, h, sub, Keys!build_path(h, sub))
    <3>1. PICK i \in 1 .. n : Keys!Holding(i, n, h)
      BY <1>3, <2>2, <2>4 DEF Keys!OpenIn
    <3>2. reg_log[i].path = reg_handles[h]
      BY <1>1, <2>4, <3>1 DEF Keys!HandlesFromLog
    <3> QED
      BY <1>3, <3>1, <3>2 DEF Keys!Names, Keys!build_path, Keys!resolve_path
  <2> QED
    BY <2>2, <2>3, <2>4
<1> QED
  BY <1>2, <1>3

\* A call's answer is about the key that its handle named.
LEMMA AnswerAddressed ==
  ASSUME Keys!KeysInv, NEW t \in Thread, reg_pc[t] # "idle",
         \/ reg_log' = reg_log
         \/ \E c \in Keys!Event : reg_log' = Append(reg_log, c),
         reg_answer'.h = reg_call[t].h, reg_answer'.sub = reg_call[t].sub,
         reg_answer'.from = reg_call[t].from, reg_answer'.path = reg_call[t].path,
         reg_answer'.at = Len(reg_log), reg_answer'.status # "invalid"
  PROVE  Keys!Addressed(reg_answer)'
<1> USE DEF Keys!KeysInv
<1>1. PICK n, k : n = Len(reg_log) /\ k = reg_call[t]
  OBVIOUS
<1>2. /\ reg_log \in Seq(Keys!Event) /\ n \in Nat /\ reg_next \in Nat /\ k.h \in Nat /\ k.from \in Nat
  <2>1. k \in Keys!Call
    BY <1>1 DEF Keys!TypeOK
  <2>2. k.h \in Nat /\ k.from \in Nat
    BY <2>1, RegistryAssumption DEF Keys!Call, Keys!Handle
  <2> QED
    BY <1>1, <2>2, RegistryAssumption, LenProperties DEF Keys!TypeOK
<1>3. /\ k.h < reg_next /\ k.from <= n /\ Keys!OpenIn(k.from, k.h)
      /\ Keys!Names(k.from, k.h, k.sub, k.path)
      /\ Keys!Known(k.h) => k.path = Keys!build_path(k.h, k.sub)
  BY <1>1 DEF Keys!CallsAddressed
<1>4. \A m \in 0 .. n : /\ Keys!OpenIn(m, k.h)' <=> Keys!OpenIn(m, k.h)
                        /\ Keys!Names(m, k.h, k.sub, k.path)' <=> Keys!Names(m, k.h, k.sub, k.path)
  <2>1. CASE reg_log' = reg_log
    BY <2>1, LogHoldsStill
  <2>2. CASE \E c \in Keys!Event : reg_log' = Append(reg_log, c)
    <3>1. PICK c \in Keys!Event : reg_log' = Append(reg_log, c)
      BY <2>2
    <3> QED
      BY <1>1, <1>2, <3>1, LogHolds
  <2> QED
    BY <2>1, <2>2
<1>5. Keys!OpenIn(n, k.h) => Keys!Names(n, k.h, k.sub, k.path)
  <2>1. k.h \in 0 .. (reg_next - 1)
    BY <1>2, <1>3
  <2> QED
    BY <1>1, <1>3, <2>1, NamesNow
<1>6. k.from \in 0 .. n /\ n \in 0 .. n
  BY <1>2, <1>3
<1>7. Keys!OpenIn(k.from, k.h)' /\ (Keys!OpenIn(n, k.h)' => Keys!Names(n, k.h, k.sub, k.path)')
      /\ Keys!Names(k.from, k.h, k.sub, k.path)'
  BY <1>3, <1>4, <1>5, <1>6
<1>8. PICK a : a = reg_answer'
  OBVIOUS
<1>9. a.h = k.h /\ a.sub = k.sub /\ a.from = k.from /\ a.path = k.path /\ a.at = n /\ a.status # "invalid"
  BY <1>1, <1>8
<1>10. Keys!Addressed(a)'
  BY <1>7, <1>9 DEF Keys!Addressed
<1> QED
  BY <1>8, <1>10

\* The registry begins with the key it is seeded with, as its log says.
LEMMA InitKeysInv == Keys!Init => Keys!KeysInv
<1> SUFFICES ASSUME Keys!Init PROVE Keys!KeysInv
  OBVIOUS
<1>1. PICK c : c = [op |-> "set", path |-> Keys!Seeded, arg |-> 1, h |-> Keys!Root]
  OBVIOUS
<1>2. /\ Keys!EndsInName(Keys!Seeded) /\ Keys!Seeded \in Keys!Text
      /\ c \in Keys!Event /\ c.op = "set" /\ c.path = Keys!Seeded /\ c.arg = 1 /\ c.h = 0
  BY <1>1, RootEndsInName, RegistryAssumption DEF Keys!EndsInName, Keys!Event, Keys!Makes, Keys!Handle, Keys!Root
<1>3. /\ reg_log = <<c>> /\ reg_log \in Seq(Keys!Event) /\ Len(reg_log) = 1 /\ DOMAIN reg_log = {1} /\ reg_log[1] = c
  BY <1>1, <1>2 DEF Keys!Init
<1>4. /\ DOMAIN reg_keys = {Keys!Seeded} /\ reg_keys[Keys!Seeded] = 1
      /\ reg_handles = <<>> /\ reg_next = 1 /\ DOMAIN reg_handles = {}
      /\ reg_pc = [t \in Thread |-> "idle"] /\ reg_call = [t \in Thread |-> Keys!NoCall]
      /\ reg_answer = Keys!NoAnswer
  BY DEF Keys!Init
<1>5. Keys!NoCall \in Keys!Call /\ Keys!NoCall.op = "none" /\ Keys!NoAnswer.op = "none"
  <2>1. <<>> \in Keys!Text
    BY EmptySeq DEF Keys!Text
  <2> QED
    BY <2>1, RegistryAssumption DEF Keys!NoCall, Keys!NoAnswer, Keys!Call, Keys!Handle, Keys!Root, Keys!Subkey
<1>6. Keys!TypeOK
  <2>1. reg_next \in 1 .. (MaxKeyHandles + 1)
    BY <1>4, RegistryAssumption
  <2> QED
    BY <1>2, <1>3, <1>4, <1>5, <2>1 DEF Keys!TypeOK, Keys!Value
<1>7. Keys!PathsNamed /\ Keys!CallsInPlace
  BY <1>2, <1>4, <1>5 DEF Keys!PathsNamed, Keys!CallsInPlace
<1>8. \A p : ~Keys!Deletes(c, p)
  BY <1>2 DEF Keys!Deletes, Keys!Removes
<1>9. ASSUME NEW p PROVE Keys!Standing(1, 1, p) <=> p = Keys!Seeded
  <2>1. \A j \in 1 .. 1 : j = 1
    OBVIOUS
  <2>2. "set" \in Keys!Makes
    BY DEF Keys!Makes
  <2> QED
    BY <1>2, <1>3, <1>8, <2>1, <2>2 DEF Keys!Standing
<1>10. \A i : i \in 1 .. 1 <=> i = 1
  OBVIOUS
<1>11. ASSUME NEW p PROVE Keys!KeyIn(1, p) <=> p = Keys!Seeded
  BY <1>9, <1>10 DEF Keys!KeyIn
<1>12. Keys!KeysIn(1) = {Keys!Seeded}
  BY <1>2, <1>3, <1>10, <1>11 DEF Keys!KeysIn
<1>13. Keys!Stores(1, Keys!Seeded) = {1}
  BY <1>2, <1>3, <1>9, <1>10 DEF Keys!Stores
<1>14. Keys!ValueIn(1, Keys!Seeded) = 1
  <2>1. Keys!Latest(1, Keys!Seeded) = CHOOSE i \in {1} : \A j \in {1} : j <= i
    BY <1>13, Zenon DEF Keys!Latest
  <2>2. Keys!Latest(1, Keys!Seeded) = 1
    BY <2>1
  <2> QED
    BY <1>2, <1>3, <1>13, <2>2 DEF Keys!ValueIn
<1>15. Keys!KeysFromLog
  BY <1>3, <1>4, <1>12, <1>14 DEF Keys!KeysFromLog
<1>16. Keys!LatestKnown
  <2>1. \A i \in DOMAIN reg_log : reg_log[i].path = Keys!Seeded
    BY <1>2, <1>3
  <2> QED
    BY <1>3, <1>13, <2>1 DEF Keys!LatestKnown
<1>17. Keys!AnswersInOrder
  BY <1>4, <1>5 DEF Keys!AnswersInOrder, Keys!Right, Keys!Removes
<1>18. Keys!HandlesFromLog
  BY <1>2, <1>3, <1>4 DEF Keys!HandlesFromLog
<1>19. Keys!CallsAddressed
  BY <1>4 DEF Keys!CallsAddressed
<1> QED
  BY <1>6, <1>7, <1>15, <1>16, <1>17, <1>18, <1>19 DEF Keys!KeysInv

\* No answer is a right one.
LEMMA NoAnswerRight ==
  ASSUME reg_answer' = Keys!NoAnswer PROVE Keys!AnswersInOrder'
<1>1. reg_answer'.op = "none"
  BY DEF Keys!NoAnswer
<1> QED
  BY <1>1 DEF Keys!AnswersInOrder, Keys!Right, Keys!Removes

\* A call is in place between its locks when its handle was open.
LEMMA BeginInv ==
  ASSUME Keys!KeysInv, NEW t \in Thread, NEW h \in 0 .. (reg_next - 1),
         NEW op \in Keys!Makes \cup Keys!Removes \cup {"query", "info"}, NEW sub \in Keys!Subkey,
         NEW arg \in 0 .. 2, op = "set" => arg \in Keys!Value, Keys!Begin(t, op, h, sub, arg)
  PROVE  Keys!KeysInv'
<1> USE DEF Keys!KeysInv
<1>1. /\ Keys!Known(h) /\ reg_pc' = [reg_pc EXCEPT ![t] = "work"]
      /\ reg_call' = [reg_call EXCEPT ![t] = [op |-> op, path |-> Keys!build_path(h, sub), arg |-> arg,
                                              h |-> h, sub |-> sub, from |-> Len(reg_log)]]
      /\ reg_answer' = Keys!NoAnswer
      /\ reg_keys' = reg_keys /\ reg_handles' = reg_handles /\ reg_next' = reg_next /\ reg_log' = reg_log
  BY DEF Keys!Begin
<1>2. Keys!EndsInName(Keys!resolve_path(h))
  BY <1>1, RootEndsInName DEF Keys!Known, Keys!resolve_path, Keys!PathsNamed
<1>3. PICK path : path = Keys!build_path(h, sub)
  OBVIOUS
<1>4. Keys!EndsInName(path)
  <2>1. CASE sub = <<>>
    BY <1>2, <1>3, <2>1 DEF Keys!build_path, Keys!Below
  <2>2. CASE sub # <<>>
    BY <1>2, <1>3, <2>2, SubkeyEndsInName DEF Keys!build_path, Keys!Below
  <2> QED
    BY <2>1, <2>2
<1>5. PICK c, n : n = Len(reg_log) /\ c = [op |-> op, path |-> path, arg |-> arg, h |-> h, sub |-> sub, from |-> n]
  OBVIOUS
<1>6. /\ c \in Keys!Call /\ c.op = op /\ c.path = path /\ c.arg = arg
      /\ c.h = h /\ c.sub = sub /\ c.from = n /\ n \in Nat /\ h < reg_next
  <2>1. n \in Nat
    BY <1>5, LenProperties DEF Keys!TypeOK
  <2>2. h \in Keys!Handle /\ h < reg_next
    BY RegistryAssumption DEF Keys!TypeOK, Keys!Handle
  <2> QED
    BY <1>4, <1>5, <2>1, <2>2 DEF Keys!EndsInName, Keys!Call
<1>7. /\ reg_pc' \in [Thread -> {"idle", "work", "values"}] /\ reg_call' \in [Thread -> Keys!Call]
      /\ reg_pc'[t] = "work" /\ reg_call'[t] = c
      /\ \A u \in Thread \ {t} : reg_pc'[u] = reg_pc[u] /\ reg_call'[u] = reg_call[u]
  BY <1>1, <1>3, <1>5, <1>6 DEF Keys!TypeOK
<1>8. Keys!TypeOK'
  BY <1>1, <1>7 DEF Keys!TypeOK
<1>9. Keys!PathsNamed'
  BY <1>1, <1>4, <1>6, <1>7 DEF Keys!PathsNamed
<1>10. Keys!CallsInPlace'
  <2>1. op # "none"
    BY DEF Keys!Makes, Keys!Opens, Keys!Removes
  <2> QED
    BY <1>6, <1>7, <2>1 DEF Keys!CallsInPlace
<1>11. Keys!KeysFromLog' /\ Keys!LatestKnown'
  BY <1>1, KeysStay
<1>12. Keys!AnswersInOrder'
  BY <1>1, NoAnswerRight
<1>13. Keys!HandlesFromLog'
  BY <1>1, LogHoldsStill DEF Keys!HandlesFromLog
<1>14. Keys!CallsAddressed'
  <2>1. /\ Keys!OpenIn(n, h) /\ Keys!Names(n, h, sub, path)
    BY <1>1, <1>3, <1>5, NamesNow
  <2>2. ASSUME NEW u \in Thread, reg_pc'[u] # "idle"
        PROVE  /\ reg_call'[u].h < reg_next /\ reg_call'[u].from <= n
               /\ Keys!OpenIn(reg_call'[u].from, reg_call'[u].h)
               /\ Keys!Names(reg_call'[u].from, reg_call'[u].h, reg_call'[u].sub, reg_call'[u].path)
               /\ Keys!Known(reg_call'[u].h) => reg_call'[u].path = Keys!build_path(reg_call'[u].h, reg_call'[u].sub)
    <3>1. CASE u = t
      BY <1>3, <1>6, <1>7, <2>1, <3>1
    <3>2. CASE u # t
      BY <1>5, <1>7, <2>2, <3>2 DEF Keys!CallsAddressed
    <3> QED
      BY <3>1, <3>2
  <2>3. ASSUME NEW u \in Thread, reg_pc'[u] # "idle"
        PROVE  /\ reg_call'[u].h < reg_next' /\ reg_call'[u].from <= Len(reg_log')
               /\ Keys!OpenIn(reg_call[u].from, reg_call[u].h)'
               /\ Keys!Names(reg_call[u].from, reg_call[u].h, reg_call[u].sub, reg_call[u].path)'
               /\ Keys!Known(reg_call[u].h)' => reg_call'[u].path = Keys!build_path(reg_call[u].h, reg_call[u].sub)'
    <3>1. PICK k : k = reg_call'[u]
      OBVIOUS
    <3>2. /\ Keys!OpenIn(k.from, k.h)' <=> Keys!OpenIn(k.from, k.h)
          /\ Keys!Names(k.from, k.h, k.sub, k.path)' <=> Keys!Names(k.from, k.h, k.sub, k.path)
      BY <1>1, LogHoldsStill
    <3>3. /\ Keys!Known(k.h)' <=> Keys!Known(k.h)
          /\ Keys!build_path(k.h, k.sub)' = Keys!build_path(k.h, k.sub)
      BY <1>1 DEF Keys!Known, Keys!build_path, Keys!resolve_path
    <3> QED
      BY <1>1, <1>5, <2>2, <2>3, <3>1, <3>2, <3>3
  <2> QED
    BY <2>3 DEF Keys!CallsAddressed
<1> QED
  BY <1>8, <1>9, <1>10, <1>11, <1>12, <1>13, <1>14

\* A handle that is not open gets no further, and that is the answer.
LEMMA RefusedInv ==
  ASSUME Keys!KeysInv, NEW t \in Thread, NEW h \in 0 .. (reg_next - 1), Keys!Refused(t, h)
  PROVE  Keys!KeysInv'
<1> USE DEF Keys!KeysInv
<1>1. PICK n : n = Len(reg_log)
  OBVIOUS
<1>2. /\ ~Keys!Known(h) /\ reg_keys' = reg_keys /\ reg_next' = reg_next /\ reg_handles' = reg_handles
      /\ reg_pc' = reg_pc /\ reg_call' = reg_call /\ reg_log' = reg_log
      /\ reg_answer' = [op |-> "refused", path |-> <<>>, arg |-> 0, h |-> h, sub |-> <<>>,
                        from |-> n, status |-> "invalid", out |-> 0, at |-> n]
  BY <1>1 DEF Keys!Refused
<1>3. Keys!TypeOK'
  BY <1>2 DEF Keys!TypeOK
<1>4. Keys!PathsNamed' /\ Keys!CallsInPlace'
  BY <1>2 DEF Keys!PathsNamed, Keys!CallsInPlace
<1>5. Keys!KeysFromLog' /\ Keys!LatestKnown'
  BY <1>2, KeysStay
<1>6. Keys!HandlesFromLog' /\ Keys!CallsAddressed'
  BY <1>2, HandlesStay
<1>7. Keys!AnswersInOrder'
  <2>1. ~Keys!OpenIn(n, h)'
    <3>1. ~Keys!OpenIn(n, h)
      BY <1>1, <1>2, NamesNow
    <3> QED
      BY <1>2, <3>1, LogHoldsStill
  <2>2. PICK a : a = reg_answer'
    OBVIOUS
  <2>3. a.op = "refused" /\ a.h = h /\ a.from = n /\ a.status = "invalid"
    BY <1>2, <2>2
  <2>4. Keys!Addressed(a)'
    BY <2>1, <2>3 DEF Keys!Addressed
  <2>5. Keys!Right(a)'
    BY <2>3, <2>4 DEF Keys!Right, Keys!Removes
  <2> QED
    BY <2>2, <2>5 DEF Keys!AnswersInOrder
<1> QED
  BY <1>3, <1>4, <1>5, <1>6, <1>7

\* Closing a handle takes its path away, from nobody who has looked it up.
LEMMA CloseInv ==
  ASSUME Keys!KeysInv, NEW t \in Thread, NEW h, Keys!reg_close_key(t, h)
  PROVE  Keys!KeysInv'
<1> USE DEF Keys!KeysInv
<1>1. PICK c : c = [op |-> "close", path |-> <<>>, arg |-> 0, h |-> h]
  OBVIOUS
<1>2. /\ h \in DOMAIN reg_handles /\ reg_answer' = Keys!NoAnswer /\ reg_keys' = reg_keys /\ reg_next' = reg_next
      /\ reg_pc' = reg_pc /\ reg_call' = reg_call /\ reg_log' = Append(reg_log, c)
      /\ reg_handles' = [g \in DOMAIN reg_handles \ {h} |-> reg_handles[g]]
  BY <1>1 DEF Keys!reg_close_key
<1>3. /\ reg_next \in Nat /\ reg_next <= MaxKeyHandles + 1 /\ DOMAIN reg_handles \subseteq 1 .. (reg_next - 1)
      /\ reg_log \in Seq(Keys!Event)
  BY RegistryAssumption DEF Keys!TypeOK
<1>4. c \in Keys!Event /\ c.op = "close" /\ c.h = h /\ h < reg_next
  <2>1. h \in Keys!Handle /\ h < reg_next
    BY <1>2, <1>3, RegistryAssumption DEF Keys!Handle
  <2>2. <<>> \in Keys!Text
    BY EmptySeq DEF Keys!Text
  <2> QED
    BY <1>1, <2>1, <2>2 DEF Keys!Event
<1>5. /\ DOMAIN reg_handles' = DOMAIN reg_handles \ {h}
      /\ \A g \in DOMAIN reg_handles' : reg_handles'[g] = reg_handles[g]
  BY <1>2
<1>6. Keys!TypeOK'
  <2>1. reg_log' \in Seq(Keys!Event)
    BY <1>2, <1>3, <1>4, AppendProperties
  <2> QED
    BY <1>2, <1>5, <2>1 DEF Keys!TypeOK
<1>7. Keys!PathsNamed' /\ Keys!CallsInPlace'
  BY <1>2, <1>5 DEF Keys!PathsNamed, Keys!CallsInPlace
<1>8. c.op \notin Keys!Makes /\ c.op # "set" /\ c.op \notin Keys!Opens /\ \A p : ~Keys!Deletes(c, p)
  BY <1>4 DEF Keys!Makes, Keys!Opens, Keys!Removes, Keys!Deletes
<1>9. Keys!KeysFromLog' /\ Keys!LatestKnown'
  <2>1. \A p : p \in DOMAIN reg_keys' <=>
                 ~Keys!Deletes(c, p) /\ (p \in DOMAIN reg_keys \/ (c.op \in Keys!Makes /\ c.path = p))
    BY <1>2, <1>8
  <2>2. \A p \in DOMAIN reg_keys' :
          reg_keys'[p] = IF c.op = "set" /\ c.path = p THEN c.arg
                      ELSE IF p \in DOMAIN reg_keys THEN reg_keys[p] ELSE 0
    BY <1>2, <1>8
  <2> QED
    BY <1>2, <1>3, <1>4, <2>1, <2>2, LogStep
<1>10. Keys!HandlesFromLog' /\ Keys!CallsAddressed'
  BY <1>2, <1>4, <1>5, <1>8, HandlesStep
<1>11. Keys!AnswersInOrder'
  BY <1>2, NoAnswerRight
<1> QED
  BY <1>6, <1>7, <1>9, <1>10, <1>11

\* A call that answers is over, and the answer says which it was.
LEMMA Answered ==
  ASSUME Keys!KeysInv, NEW t \in Thread, NEW status, NEW out, Keys!Answer(t, status, out)
  PROVE  /\ reg_pc' \in [Thread -> {"idle", "work", "values"}] /\ reg_call' \in [Thread -> Keys!Call]
         /\ Keys!CallsInPlace'
         /\ \A u \in Thread : reg_pc'[u] # "idle" => Keys!EndsInName(reg_call'[u].path)
         /\ reg_answer'.op = reg_call[t].op /\ reg_answer'.path = reg_call[t].path
         /\ reg_answer'.arg = reg_call[t].arg /\ reg_answer'.status = status
         /\ reg_answer'.out = out /\ reg_answer'.at = Len(reg_log)
         /\ reg_answer'.h = reg_call[t].h /\ reg_answer'.sub = reg_call[t].sub
         /\ reg_answer'.from = reg_call[t].from
         /\ \A u \in Thread : reg_pc'[u] # "idle" => reg_pc[u] # "idle" /\ reg_call'[u] = reg_call[u]
<1> USE DEF Keys!KeysInv
<1>1. Keys!NoCall \in Keys!Call /\ Keys!NoCall.op = "none"
  <2>1. <<>> \in Keys!Text
    BY EmptySeq DEF Keys!Text
  <2> QED
    BY <2>1, RegistryAssumption DEF Keys!NoCall, Keys!Call, Keys!Handle, Keys!Root, Keys!Subkey
<1>2. /\ reg_pc' = [reg_pc EXCEPT ![t] = "idle"] /\ reg_call' = [reg_call EXCEPT ![t] = Keys!NoCall]
      /\ reg_answer' = [op |-> reg_call[t].op, path |-> reg_call[t].path, arg |-> reg_call[t].arg,
                     h |-> reg_call[t].h, sub |-> reg_call[t].sub, from |-> reg_call[t].from,
                     status |-> status, out |-> out, at |-> Len(reg_log)]
  BY DEF Keys!Answer
<1>3. /\ reg_pc' \in [Thread -> {"idle", "work", "values"}] /\ reg_call' \in [Thread -> Keys!Call]
      /\ reg_pc'[t] = "idle" /\ reg_call'[t] = Keys!NoCall
      /\ \A u \in Thread \ {t} : reg_pc'[u] = reg_pc[u] /\ reg_call'[u] = reg_call[u]
  BY <1>1, <1>2 DEF Keys!TypeOK
<1>4. Keys!CallsInPlace'
  BY <1>1, <1>3 DEF Keys!CallsInPlace
<1>5. \A u \in Thread : reg_pc'[u] # "idle" => Keys!EndsInName(reg_call'[u].path)
  BY <1>3 DEF Keys!PathsNamed
<1> QED
  BY <1>2, <1>3, <1>4, <1>5

\* The call a thread is between the locks of.
LEMMA CallInPlace ==
  ASSUME Keys!KeysInv, NEW t \in Thread, reg_pc[t] # "idle"
  PROVE  /\ reg_call[t] \in Keys!Call /\ Keys!EndsInName(reg_call[t].path) /\ reg_call[t].path \in Keys!Text
         /\ reg_call[t].path # <<>> /\ reg_call[t].arg \in 0 .. 2
BY DEF Keys!KeysInv, Keys!TypeOK, Keys!PathsNamed, Keys!Call, Keys!EndsInName

\* A handle minted for the path of a call leads to a path that ends in a name.
LEMMA MintedInPlace ==
  ASSUME Keys!KeysInv, NEW path, Keys!EndsInName(path), Keys!mint(path)
  PROVE  /\ DOMAIN reg_handles' \subseteq 1 .. (reg_next' - 1)
         /\ \A h \in DOMAIN reg_handles' : reg_handles'[h] \in Keys!Text /\ Keys!EndsInName(reg_handles'[h])
         /\ reg_next' \in 1 .. (MaxKeyHandles + 1)
<1> USE DEF Keys!KeysInv
<1>1. /\ reg_next \in 1 .. (MaxKeyHandles + 1) /\ reg_next <= MaxKeyHandles /\ reg_next' = reg_next + 1
      /\ DOMAIN reg_handles \subseteq 1 .. (reg_next - 1) /\ MaxKeyHandles \in Nat
      /\ reg_handles' = [h \in DOMAIN reg_handles \cup {reg_next} |-> IF h = reg_next THEN path ELSE reg_handles[h]]
  BY RegistryAssumption DEF Keys!mint, Keys!TypeOK
<1>2. reg_next' \in 1 .. (MaxKeyHandles + 1)
  BY <1>1
<1>3. DOMAIN reg_handles' \subseteq 1 .. (reg_next' - 1)
  <2>1. DOMAIN reg_handles' = DOMAIN reg_handles \cup {reg_next}
    BY <1>1
  <2>2. \A h \in 1 .. (reg_next - 1) : h \in 1 .. (reg_next' - 1)
    BY <1>1
  <2>3. reg_next \in 1 .. (reg_next' - 1)
    BY <1>1
  <2> QED
    BY <1>1, <2>1, <2>2, <2>3
<1>4. \A h \in DOMAIN reg_handles' : reg_handles'[h] \in Keys!Text /\ Keys!EndsInName(reg_handles'[h])
  <2>1. path \in Keys!Text /\ \A h \in DOMAIN reg_handles : reg_handles[h] \in Keys!Text /\ Keys!EndsInName(reg_handles[h])
    BY DEF Keys!PathsNamed, Keys!EndsInName
  <2>2. \A h \in DOMAIN reg_handles' : reg_handles'[h] = path \/ (h \in DOMAIN reg_handles /\ reg_handles'[h] = reg_handles[h])
    BY <1>1
  <2> QED
    BY <2>1, <2>2
<1> QED
  BY <1>2, <1>3, <1>4

\* Opening and creating a key: it is there afterwards, and whoever is told it
\* is new comes after calls that left none.
LEMMA CreateInv ==
  ASSUME Keys!KeysInv, NEW t \in Thread, Keys!reg_open_key_w(t) \/ Keys!reg_create_key_ex_w(t)
  PROVE  Keys!KeysInv'
<1> USE DEF Keys!KeysInv
<1>0. PICK c : c = [op |-> reg_call[t].op, path |-> reg_call[t].path, arg |-> reg_call[t].arg, h |-> reg_next]
  OBVIOUS
<1>1. PICK status :
        /\ status = reg_answer'.status
        /\ c = [op |-> reg_call[t].op, path |-> reg_call[t].path, arg |-> reg_call[t].arg, h |-> reg_next]
        /\ c.op = reg_call[t].op /\ c.path = reg_call[t].path /\ c.arg = reg_call[t].arg /\ c.h = reg_next
  BY <1>0
<1>2. /\ reg_pc[t] # "idle" /\ c.op \in {"open", "create"}
      /\ reg_keys' = [p \in DOMAIN reg_keys \cup {c.path} |-> IF p \in DOMAIN reg_keys THEN reg_keys[p] ELSE 0]
      /\ Keys!mint(c.path) /\ reg_log' = Append(reg_log, c)
  BY <1>1 DEF Keys!reg_open_key_w, Keys!reg_create_key_ex_w, Keys!Working, Keys!Entry, Keys!Logged
<1>3. /\ Keys!Answer(t, status, 0) /\ status # "invalid"
      /\ c.op = "create" => status = IF c.path \in DOMAIN reg_keys THEN "existing" ELSE "new"
  <2>1. CASE Keys!reg_open_key_w(t)
    <3>1. Keys!Answer(t, "ok", 0) /\ c.op = "open"
      BY <1>1, <2>1 DEF Keys!reg_open_key_w, Keys!Working
    <3>2. status = "ok"
      BY <1>1, <3>1, Answered
    <3> QED
      BY <3>1, <3>2
  <2>2. CASE Keys!reg_create_key_ex_w(t)
    <3>1. PICK s : s = IF c.path \in DOMAIN reg_keys THEN "existing" ELSE "new"
      OBVIOUS
    <3>2. Keys!Answer(t, s, 0)
      BY <1>1, <2>2, <3>1 DEF Keys!reg_create_key_ex_w
    <3>3. status = s
      BY <1>1, <3>2, Answered
    <3> QED
      BY <3>1, <3>2, <3>3
  <2> QED
    BY <2>1, <2>2
<1>4. c \in Keys!Event /\ Keys!EndsInName(c.path) /\ c.path \in Keys!Text
  <2>1. reg_next \in Keys!Handle
    BY <1>2, RegistryAssumption DEF Keys!mint, Keys!TypeOK, Keys!Handle
  <2>2. c.op \in Keys!Makes
    BY <1>2 DEF Keys!Makes, Keys!Opens
  <2> QED
    BY <1>1, <1>2, <2>1, <2>2, CallInPlace DEF Keys!Event
<1>5. /\ reg_pc' \in [Thread -> {"idle", "work", "values"}] /\ reg_call' \in [Thread -> Keys!Call]
      /\ Keys!CallsInPlace'
      /\ \A u \in Thread : reg_pc'[u] # "idle" => Keys!EndsInName(reg_call'[u].path)
      /\ reg_answer'.op = c.op /\ reg_answer'.path = c.path
      /\ reg_answer'.status = status /\ reg_answer'.at = Len(reg_log)
      /\ reg_answer'.h = reg_call[t].h /\ reg_answer'.sub = reg_call[t].sub /\ reg_answer'.from = reg_call[t].from
      /\ \A u \in Thread : reg_pc'[u] # "idle" => reg_pc[u] # "idle" /\ reg_call'[u] = reg_call[u]
  BY <1>1, <1>3, Answered
<1>6. /\ DOMAIN reg_handles' \subseteq 1 .. (reg_next' - 1)
      /\ \A h \in DOMAIN reg_handles' : reg_handles'[h] \in Keys!Text /\ Keys!EndsInName(reg_handles'[h])
      /\ reg_next' \in 1 .. (MaxKeyHandles + 1)
  BY <1>2, <1>4, MintedInPlace
<1>7. /\ DOMAIN reg_keys' = DOMAIN reg_keys \cup {c.path}
      /\ \A p \in DOMAIN reg_keys' : reg_keys'[p] = IF p \in DOMAIN reg_keys THEN reg_keys[p] ELSE 0
  BY <1>2
<1>8. reg_log \in Seq(Keys!Event) /\ reg_log' \in Seq(Keys!Event)
  <2>1. reg_log \in Seq(Keys!Event)
    BY DEF Keys!TypeOK
  <2> QED
    BY <1>2, <1>4, <2>1, AppendProperties
<1>9. Keys!TypeOK'
  <2>1. \A p \in DOMAIN reg_keys' : p \in Keys!Text /\ reg_keys'[p] \in {0} \cup Keys!Value
    BY <1>4, <1>7 DEF Keys!TypeOK
  <2> QED
    BY <1>5, <1>6, <1>8, <2>1 DEF Keys!TypeOK
<1>10. Keys!PathsNamed'
  BY <1>4, <1>5, <1>6, <1>7 DEF Keys!PathsNamed
<1>11. Keys!KeysFromLog' /\ Keys!LatestKnown'
  <2>1. c.op \in Keys!Makes /\ c.op # "set" /\ \A p : ~Keys!Deletes(c, p)
    BY <1>2 DEF Keys!Makes, Keys!Opens, Keys!Removes, Keys!Deletes
  <2>2. \A p : p \in DOMAIN reg_keys' <=>
                 ~Keys!Deletes(c, p) /\ (p \in DOMAIN reg_keys \/ (c.op \in Keys!Makes /\ c.path = p))
    BY <1>7, <2>1
  <2>3. \A p \in DOMAIN reg_keys' :
          reg_keys'[p] = IF c.op = "set" /\ c.path = p THEN c.arg
                      ELSE IF p \in DOMAIN reg_keys THEN reg_keys[p] ELSE 0
    BY <1>7, <2>1
  <2> QED
    BY <1>2, <1>4, <1>8, <2>2, <2>3, LogStep
<1>12. Keys!AnswersInOrder'
  <2>1. PICK n : n = Len(reg_log)
    OBVIOUS
  <2>2. Keys!KeyIn(n, c.path)' <=> Keys!KeyIn(n, c.path)
    BY <1>2, <1>4, <1>8, <2>1, LogStands
  <2>3. c.path \in DOMAIN reg_keys <=> Keys!KeyIn(n, c.path)
    BY <2>1, LogRead
  <2>4. c.op = "create" => ((status = "new") <=> ~Keys!KeyIn(n, c.path)')
    BY <1>3, <2>2, <2>3
  <2>5. reg_answer'.at = n
    BY <1>5, <2>1
  <2>6. Keys!Addressed(reg_answer)'
    <3>1. reg_answer'.status # "invalid"
      BY <1>3, <1>5, <1>2
    <3> QED
      BY <1>1, <1>2, <1>4, <1>5, <3>1, AnswerAddressed
  <2> QED
    BY <1>2, <1>5, <2>4, <2>5, <2>6 DEF Keys!AnswersInOrder, Keys!Right, Keys!Removes
<1>13. Keys!HandlesFromLog' /\ Keys!CallsAddressed'
  <2>1. c.op \in Keys!Opens
    BY <1>2 DEF Keys!Opens
  <2>2. reg_next' = reg_next + 1
    BY <1>2 DEF Keys!mint
  <2>3. \A h : h \in DOMAIN reg_handles' <=> h \in DOMAIN reg_handles \/ h = reg_next
    BY <1>2 DEF Keys!mint
  <2>4. \A h \in DOMAIN reg_handles' : reg_handles'[h] = IF h = reg_next THEN c.path ELSE reg_handles[h]
    BY <1>2 DEF Keys!mint
  <2>5. c.op # "close" /\ c.h = reg_next
    BY <1>1, <1>2
  <2> QED
    BY <1>2, <1>4, <1>5, <2>1, <2>2, <2>3, <2>4, <2>5, HandlesStep
<1> QED
  BY <1>5, <1>9, <1>10, <1>11, <1>12, <1>13

\* Setting a value: the key is there afterwards and holds it.
LEMMA SetInv ==
  ASSUME Keys!KeysInv, NEW t \in Thread, Keys!reg_set_value_ex_w(t)
  PROVE  Keys!KeysInv'
<1> USE DEF Keys!KeysInv
<1>0. PICK c : c = [op |-> reg_call[t].op, path |-> reg_call[t].path, arg |-> reg_call[t].arg, h |-> Keys!Root]
  OBVIOUS
<1>1. /\ c = [op |-> reg_call[t].op, path |-> reg_call[t].path, arg |-> reg_call[t].arg, h |-> Keys!Root]
      /\ c.op = reg_call[t].op /\ c.path = reg_call[t].path /\ c.arg = reg_call[t].arg /\ c.h = Keys!Root
  BY <1>0
<1>2. /\ reg_pc[t] # "idle" /\ c.op = "set"
      /\ reg_keys' = [p \in DOMAIN reg_keys \cup {c.path} |-> IF p = c.path THEN c.arg ELSE reg_keys[p]]
      /\ Keys!Answer(t, "ok", 0) /\ reg_log' = Append(reg_log, c)
      /\ reg_handles' = reg_handles /\ reg_next' = reg_next
  BY <1>1 DEF Keys!reg_set_value_ex_w, Keys!Working, Keys!Logged
<1>3. c \in Keys!Event /\ Keys!EndsInName(c.path) /\ c.path \in Keys!Text /\ c.arg \in Keys!Value
  <2>1. 0 \in Keys!Handle
    BY RegistryAssumption DEF Keys!Handle
  <2>2. c.op \in Keys!Makes \cup Keys!Removes
    BY <1>2 DEF Keys!Makes, Keys!Opens, Keys!Removes
  <2> QED
    BY <1>1, <1>2, <2>1, <2>2, CallInPlace DEF Keys!Event, Keys!Root, Keys!CallsInPlace
<1>4. /\ reg_pc' \in [Thread -> {"idle", "work", "values"}] /\ reg_call' \in [Thread -> Keys!Call]
      /\ Keys!CallsInPlace'
      /\ \A u \in Thread : reg_pc'[u] # "idle" => Keys!EndsInName(reg_call'[u].path)
      /\ reg_answer'.op = c.op /\ reg_answer'.path = c.path
      /\ reg_answer'.status = "ok" /\ reg_answer'.at = Len(reg_log)
      /\ reg_answer'.h = reg_call[t].h /\ reg_answer'.sub = reg_call[t].sub /\ reg_answer'.from = reg_call[t].from
      /\ \A u \in Thread : reg_pc'[u] # "idle" => reg_pc[u] # "idle" /\ reg_call'[u] = reg_call[u]
  BY <1>1, <1>2, Answered
<1>5. /\ DOMAIN reg_keys' = DOMAIN reg_keys \cup {c.path}
      /\ \A p \in DOMAIN reg_keys' : reg_keys'[p] = IF p = c.path THEN c.arg ELSE reg_keys[p]
  BY <1>2
<1>6. reg_log \in Seq(Keys!Event) /\ reg_log' \in Seq(Keys!Event)
  <2>1. reg_log \in Seq(Keys!Event)
    BY DEF Keys!TypeOK
  <2> QED
    BY <1>2, <1>3, <2>1, AppendProperties
<1>7. Keys!TypeOK'
  <2>1. \A p \in DOMAIN reg_keys' : p \in Keys!Text /\ reg_keys'[p] \in {0} \cup Keys!Value
    BY <1>3, <1>5 DEF Keys!TypeOK
  <2> QED
    BY <1>2, <1>4, <1>6, <2>1 DEF Keys!TypeOK
<1>8. Keys!PathsNamed'
  BY <1>2, <1>3, <1>4, <1>5 DEF Keys!PathsNamed
<1>9. Keys!KeysFromLog' /\ Keys!LatestKnown'
  <2>1. c.op \in Keys!Makes /\ \A p : ~Keys!Deletes(c, p)
    BY <1>2 DEF Keys!Makes, Keys!Removes, Keys!Deletes
  <2>2. \A p : p \in DOMAIN reg_keys' <=>
                 ~Keys!Deletes(c, p) /\ (p \in DOMAIN reg_keys \/ (c.op \in Keys!Makes /\ c.path = p))
    BY <1>5, <2>1
  <2>3. \A p \in DOMAIN reg_keys' :
          reg_keys'[p] = IF c.op = "set" /\ c.path = p THEN c.arg
                      ELSE IF p \in DOMAIN reg_keys THEN reg_keys[p] ELSE 0
    BY <1>2, <1>5
  <2> QED
    BY <1>2, <1>3, <1>6, <2>2, <2>3, LogStep
<1>10. Keys!AnswersInOrder'
  <2>1. Keys!Addressed(reg_answer)'
    BY <1>1, <1>2, <1>3, <1>4, AnswerAddressed
  <2> QED
    BY <1>2, <1>4, <2>1 DEF Keys!AnswersInOrder, Keys!Right, Keys!Removes
<1>11. Keys!HandlesFromLog' /\ Keys!CallsAddressed'
  <2>1. c.op \notin Keys!Opens /\ c.op # "close" /\ c.h < reg_next /\ reg_next' = reg_next
    BY <1>1, <1>2 DEF Keys!Opens, Keys!Root, Keys!TypeOK
  <2> QED
    BY <1>2, <1>3, <1>4, <2>1, HandlesStep
<1> QED
  BY <1>4, <1>7, <1>8, <1>9, <1>10, <1>11

\* Deleting a key, or the tree at it: what goes is what the log says goes.
LEMMA DeleteInv ==
  ASSUME Keys!KeysInv, NEW t \in Thread, Keys!reg_delete_key_w(t) \/ Keys!reg_delete_tree_w(t)
  PROVE  Keys!KeysInv'
<1> USE DEF Keys!KeysInv
<1>0. PICK c : c = [op |-> reg_call[t].op, path |-> reg_call[t].path, arg |-> reg_call[t].arg, h |-> Keys!Root]
  OBVIOUS
<1>1. PICK status :
        /\ c = [op |-> reg_call[t].op, path |-> reg_call[t].path, arg |-> reg_call[t].arg, h |-> Keys!Root]
        /\ c.op = reg_call[t].op /\ c.path = reg_call[t].path /\ c.arg = reg_call[t].arg /\ c.h = Keys!Root
        /\ status = IF c.path \in DOMAIN reg_keys THEN "ok" ELSE "not found"
  BY <1>0
<1>2. /\ reg_pc[t] # "idle" /\ c.op \in {"delete", "tree"}
      /\ reg_keys' = [p \in {q \in DOMAIN reg_keys : IF c.op = "delete" THEN q # c.path ELSE ~Keys!InTree(c.path, q)}
                     |-> reg_keys[p]]
      /\ Keys!Answer(t, status, 0) /\ reg_log' = Append(reg_log, c)
      /\ reg_handles' = reg_handles /\ reg_next' = reg_next
  <2>1. CASE Keys!reg_delete_key_w(t)
    <3>1. DOMAIN reg_keys \ {c.path} = {q \in DOMAIN reg_keys : q # c.path}
      OBVIOUS
    <3>2. /\ reg_pc[t] # "idle" /\ c.op = "delete" /\ reg_keys' = [p \in DOMAIN reg_keys \ {c.path} |-> reg_keys[p]]
          /\ Keys!Answer(t, status, 0) /\ reg_log' = Append(reg_log, c)
          /\ reg_handles' = reg_handles /\ reg_next' = reg_next
      BY <1>1, <2>1 DEF Keys!reg_delete_key_w, Keys!Working, Keys!Logged
    <3> QED
      BY <3>1, <3>2
  <2>2. CASE Keys!reg_delete_tree_w(t)
    <3>1. /\ reg_pc[t] # "idle" /\ c.op = "tree"
          /\ reg_keys' = [p \in {q \in DOMAIN reg_keys : ~Keys!InTree(c.path, q)} |-> reg_keys[p]]
          /\ Keys!Answer(t, status, 0) /\ reg_log' = Append(reg_log, c)
          /\ reg_handles' = reg_handles /\ reg_next' = reg_next
      BY <1>1, <2>2 DEF Keys!reg_delete_tree_w, Keys!Working, Keys!Logged
    <3>2. {q \in DOMAIN reg_keys : ~Keys!InTree(c.path, q)} =
            {q \in DOMAIN reg_keys : IF c.op = "delete" THEN q # c.path ELSE ~Keys!InTree(c.path, q)}
      BY <3>1
    <3> QED
      BY <3>1, <3>2
  <2> QED
    BY <2>1, <2>2
<1>3. c \in Keys!Event /\ c.path \in Keys!Text /\ c.path # <<>>
  <2>1. 0 \in Keys!Handle
    BY RegistryAssumption DEF Keys!Handle
  <2>2. c.op \in Keys!Makes \cup Keys!Removes
    BY <1>2 DEF Keys!Makes, Keys!Opens, Keys!Removes
  <2> QED
    BY <1>1, <1>2, <2>1, <2>2, CallInPlace DEF Keys!Event, Keys!Root
<1>4. /\ reg_pc' \in [Thread -> {"idle", "work", "values"}] /\ reg_call' \in [Thread -> Keys!Call]
      /\ Keys!CallsInPlace'
      /\ \A u \in Thread : reg_pc'[u] # "idle" => Keys!EndsInName(reg_call'[u].path)
      /\ reg_answer'.op = c.op /\ reg_answer'.path = c.path
      /\ reg_answer'.status = status /\ reg_answer'.at = Len(reg_log)
      /\ reg_answer'.h = reg_call[t].h /\ reg_answer'.sub = reg_call[t].sub /\ reg_answer'.from = reg_call[t].from
      /\ \A u \in Thread : reg_pc'[u] # "idle" => reg_pc[u] # "idle" /\ reg_call'[u] = reg_call[u]
  BY <1>1, <1>2, Answered
<1>5. ASSUME NEW q \in DOMAIN reg_keys
      PROVE  Keys!Deletes(c, q) <=> IF c.op = "delete" THEN q = c.path ELSE Keys!InTree(c.path, q)
  <2>1. q \in Keys!Text
    BY DEF Keys!TypeOK
  <2>2. Keys!InTree(c.path, q) <=>
          \/ q = c.path
          \/ \E k \in 1 .. (Len(q) - 1) : SubSeq(q, 1, k) = c.path /\ q[k + 1] = Keys!Separator
    BY <1>3, <2>1, TreeIsBelow
  <2>3. Keys!Deletes(c, q) <=>
          \/ c.path = q
          \/ /\ c.op = "tree"
             /\ \E k \in 1 .. (Len(q) - 1) : SubSeq(q, 1, k) = c.path /\ q[k + 1] = Keys!Separator
    BY <1>2 DEF Keys!Deletes, Keys!Removes
  <2> QED
    BY <1>2, <2>2, <2>3
<1>6. /\ \A p : p \in DOMAIN reg_keys' <=> p \in DOMAIN reg_keys /\ ~Keys!Deletes(c, p)
      /\ \A p \in DOMAIN reg_keys' : p \in DOMAIN reg_keys /\ reg_keys'[p] = reg_keys[p]
  <2>1. DOMAIN reg_keys' = {q \in DOMAIN reg_keys : IF c.op = "delete" THEN q # c.path ELSE ~Keys!InTree(c.path, q)}
    BY <1>2
  <2>2. \A p \in DOMAIN reg_keys' : reg_keys'[p] = reg_keys[p]
    BY <1>2
  <2> QED
    BY <1>5, <2>1, <2>2
<1>7. reg_log \in Seq(Keys!Event) /\ reg_log' \in Seq(Keys!Event)
  <2>1. reg_log \in Seq(Keys!Event)
    BY DEF Keys!TypeOK
  <2> QED
    BY <1>2, <1>3, <2>1, AppendProperties
<1>8. Keys!TypeOK'
  <2>1. \A p \in DOMAIN reg_keys' : p \in Keys!Text /\ reg_keys'[p] \in {0} \cup Keys!Value
    BY <1>6 DEF Keys!TypeOK
  <2> QED
    BY <1>2, <1>4, <1>7, <2>1 DEF Keys!TypeOK
<1>9. Keys!PathsNamed'
  BY <1>2, <1>4, <1>6 DEF Keys!PathsNamed
<1>10. Keys!KeysFromLog' /\ Keys!LatestKnown'
  <2>1. c.op \notin Keys!Makes /\ c.op # "set"
    BY <1>2 DEF Keys!Makes, Keys!Opens
  <2>2. \A p : p \in DOMAIN reg_keys' <=>
                 ~Keys!Deletes(c, p) /\ (p \in DOMAIN reg_keys \/ (c.op \in Keys!Makes /\ c.path = p))
    BY <1>6, <2>1
  <2>3. \A p \in DOMAIN reg_keys' :
          reg_keys'[p] = IF c.op = "set" /\ c.path = p THEN c.arg
                      ELSE IF p \in DOMAIN reg_keys THEN reg_keys[p] ELSE 0
    BY <1>6, <2>1
  <2> QED
    BY <1>2, <1>3, <1>7, <2>2, <2>3, LogStep
<1>11. Keys!AnswersInOrder'
  <2>1. PICK n : n = Len(reg_log)
    OBVIOUS
  <2>2. Keys!KeyIn(n, c.path)' <=> Keys!KeyIn(n, c.path)
    BY <1>2, <1>3, <1>7, <2>1, LogStands
  <2>3. c.path \in DOMAIN reg_keys <=> Keys!KeyIn(n, c.path)
    BY <2>1, LogRead
  <2>4. (status = "ok") <=> Keys!KeyIn(n, c.path)'
    BY <1>1, <2>2, <2>3
  <2>5. reg_answer'.at = n
    BY <1>4, <2>1
  <2>6. Keys!Addressed(reg_answer)'
    <3>1. reg_answer'.status # "invalid"
      BY <1>1, <1>4
    <3> QED
      BY <1>1, <1>2, <1>3, <1>4, <3>1, AnswerAddressed
  <2> QED
    BY <1>2, <1>4, <2>4, <2>5, <2>6 DEF Keys!AnswersInOrder, Keys!Right
<1>12. Keys!HandlesFromLog' /\ Keys!CallsAddressed'
  <2>1. c.op \notin Keys!Opens /\ c.op # "close"
    BY <1>2 DEF Keys!Opens
  <2>2. c.h < reg_next /\ reg_next' = reg_next
    <3>1. reg_next \in 1 .. (MaxKeyHandles + 1)
      BY DEF Keys!TypeOK
    <3>2. c.h = 0
      BY <1>1, Zenon DEF Keys!Root
    <3>3. reg_next' = reg_next
      BY <1>2
    <3> QED
      BY <3>1, <3>2, <3>3, RegistryAssumption
  <2> QED
    BY <1>2, <1>3, <1>4, <2>1, <2>2, HandlesStep
<1> QED
  BY <1>4, <1>8, <1>9, <1>10, <1>11, <1>12

\* Reading a value, or whether there is one: what is read is what the log leaves.
LEMMA ReadInv ==
  ASSUME Keys!KeysInv, NEW t \in Thread, Keys!reg_query_value_ex_w(t) \/ Keys!CountValues(t)
  PROVE  Keys!KeysInv'
<1> USE DEF Keys!KeysInv
<1>1. PICK c, v, status, out :
        /\ c = reg_call[t] /\ v = (IF c.path \in DOMAIN reg_keys THEN reg_keys[c.path] ELSE 0)
        /\ status = reg_answer'.status /\ out = reg_answer'.out
  OBVIOUS
<1>2. /\ reg_pc[t] # "idle" /\ c.op \in {"query", "info"}
      /\ reg_keys' = reg_keys /\ reg_handles' = reg_handles /\ reg_next' = reg_next /\ reg_log' = reg_log
  BY <1>1 DEF Keys!reg_query_value_ex_w, Keys!CountValues, Keys!Working, Keys!CallsInPlace
<1>3. /\ c \in Keys!Call /\ c.path \in Keys!Text /\ c.arg \in 0 .. 2 /\ v \in 0 .. 2
  <2>1. v \in 0 .. 2
    BY <1>1 DEF Keys!TypeOK, Keys!Value
  <2> QED
    BY <1>1, <1>2, <2>1, CallInPlace
<1>4. PICK s, o :
        /\ Keys!Answer(t, s, o) /\ s # "invalid"
        /\ c.op = "query" => /\ o = v
                             /\ s = IF v = 0 THEN "not found" ELSE IF c.arg = 0 THEN "length"
                                    ELSE IF v > c.arg THEN "more" ELSE "copied"
        /\ c.op = "info" => o = IF v = 0 THEN 0 ELSE 1
  <2>1. CASE Keys!reg_query_value_ex_w(t)
    <3>1. c.op = "query"
      BY <1>1, <2>1 DEF Keys!reg_query_value_ex_w, Keys!Working
    <3>2. CASE v = 0
      <4>1. Keys!Answer(t, "not found", 0)
        BY <1>1, <2>1, <3>2 DEF Keys!reg_query_value_ex_w
      <4> QED
        BY <3>1, <3>2, <4>1
    <3>3. CASE v # 0
      <4>1. PICK s : s = IF c.arg = 0 THEN "length" ELSE IF v > c.arg THEN "more" ELSE "copied"
        OBVIOUS
      <4>2. c.path \in DOMAIN reg_keys /\ reg_keys[c.path] = v
        BY <1>1, <3>3
      <4>3. Keys!Answer(t, s, v)
        BY <1>1, <2>1, <3>3, <4>1, <4>2 DEF Keys!reg_query_value_ex_w
      <4> QED
        BY <3>1, <3>3, <4>1, <4>3
    <3> QED
      BY <3>2, <3>3
  <2>2. CASE Keys!CountValues(t)
    <3>1. c.op = "info"
      BY <1>1, <2>2 DEF Keys!CountValues, Keys!CallsInPlace
    <3>2. PICK o : o = IF v = 0 THEN 0 ELSE 1
      OBVIOUS
    <3>3. Keys!Answer(t, "ok", o)
      BY <1>1, <2>2, <3>2 DEF Keys!CountValues
    <3> QED
      BY <3>1, <3>2, <3>3
  <2> QED
    BY <2>1, <2>2
<1>5. /\ reg_pc' \in [Thread -> {"idle", "work", "values"}] /\ reg_call' \in [Thread -> Keys!Call]
      /\ Keys!CallsInPlace'
      /\ \A u \in Thread : reg_pc'[u] # "idle" => Keys!EndsInName(reg_call'[u].path)
      /\ reg_answer'.op = c.op /\ reg_answer'.path = c.path /\ reg_answer'.arg = c.arg
      /\ reg_answer'.status = s /\ reg_answer'.out = o /\ reg_answer'.at = Len(reg_log)
      /\ reg_answer'.h = reg_call[t].h /\ reg_answer'.sub = reg_call[t].sub /\ reg_answer'.from = reg_call[t].from
      /\ \A u \in Thread : reg_pc'[u] # "idle" => reg_pc[u] # "idle" /\ reg_call'[u] = reg_call[u]
  <2>1. Keys!Answer(t, s, o)
    BY <1>4
  <2> QED
    BY <1>1, <2>1, Answered
<1>6. Keys!TypeOK'
  BY <1>2, <1>5 DEF Keys!TypeOK
<1>7. Keys!PathsNamed'
  BY <1>2, <1>5 DEF Keys!PathsNamed
<1>8. Keys!KeysFromLog' /\ Keys!LatestKnown'
  BY <1>2, KeysStay
<1>9. Keys!AnswersInOrder'
  <2>1. PICK n : n = Len(reg_log)
    OBVIOUS
  <2>2. Keys!ValueIn(n, c.path)' = v
    <3>1. Keys!ValueIn(n, c.path) = v
      BY <1>1, <2>1, LogRead
    <3>2. Keys!ValueIn(n, c.path)' = Keys!ValueIn(n, c.path)
      BY <1>2, LogStays
    <3> QED
      BY <3>1, <3>2
  <2>3. c.op = "query" => /\ (s = "not found") <=> (v = 0)
                          /\ (s = "copied") <=> (v # 0 /\ c.arg >= v)
    <3>1. ASSUME c.op = "query" PROVE s = IF v = 0 THEN "not found" ELSE IF c.arg = 0 THEN "length"
                                          ELSE IF v > c.arg THEN "more" ELSE "copied"
      BY <1>4, <3>1
    <3>2. (v # 0 /\ c.arg >= v) <=> ~(v = 0 \/ c.arg = 0 \/ v > c.arg)
      BY <1>3
    <3> QED
      BY <3>1, <3>2
  <2>4. reg_answer'.at = n
    BY <1>5, <2>1
  <2> HIDE DEF Keys!ValueIn
  <2>5. /\ reg_answer'.op \notin {"create", "subkeys"} /\ reg_answer'.op \notin Keys!Removes
    BY <1>2, <1>5 DEF Keys!Removes
  <2>6. reg_answer'.op = "query" =>
          LET w == Keys!ValueIn(reg_answer.at, reg_answer.path)' IN
          /\ reg_answer'.out = w
          /\ (reg_answer'.status = "not found") <=> (w = 0)
          /\ (reg_answer'.status = "copied") <=> (w # 0 /\ reg_answer'.arg >= w)
    <3>1. Keys!ValueIn(reg_answer.at, reg_answer.path)' = v
      BY <1>5, <2>2, <2>4
    <3> QED
      BY <1>4, <1>5, <2>3, <3>1
  <2>7. reg_answer'.op = "info" => reg_answer'.out = IF Keys!ValueIn(reg_answer.at, reg_answer.path)' = 0 THEN 0 ELSE 1
    <3>1. Keys!ValueIn(reg_answer.at, reg_answer.path)' = v
      BY <1>5, <2>2, <2>4
    <3> QED
      BY <1>4, <1>5, <3>1
  <2>8. Keys!Addressed(reg_answer)'
    BY <1>1, <1>2, <1>4, <1>5, AnswerAddressed
  <2> QED
    BY <2>5, <2>6, <2>7, <2>8 DEF Keys!AnswersInOrder, Keys!Right
<1>10. Keys!HandlesFromLog' /\ Keys!CallsAddressed'
  BY <1>2, <1>5, HandlesStay
<1> QED
  BY <1>5, <1>6, <1>7, <1>8, <1>9, <1>10

\* RegQueryInfoKey counts the keys exactly one name below the path.
LEMMA InfoInv ==
  ASSUME Keys!KeysInv, NEW t \in Thread, Keys!reg_query_info_key_w(t)
  PROVE  Keys!KeysInv'
<1> USE DEF Keys!KeysInv
<1>1. PICK c, n : c = reg_call[t] /\ n = Len(reg_log)
  OBVIOUS
<1>2. /\ reg_pc[t] # "idle" /\ c.op = "info" /\ reg_pc' = [reg_pc EXCEPT ![t] = "values"]
      /\ reg_answer' = [op |-> "subkeys", path |-> c.path, arg |-> 0,
                     h |-> c.h, sub |-> c.sub, from |-> c.from, status |-> "ok",
                     out |-> Keys!Cardinality(Keys!DirectSubkeys(c.path)), at |-> n]
      /\ reg_call' = reg_call
      /\ reg_keys' = reg_keys /\ reg_handles' = reg_handles /\ reg_next' = reg_next /\ reg_log' = reg_log
  <2>1. /\ reg_pc[t] # "idle" /\ reg_call[t].op = "info" /\ reg_pc' = [reg_pc EXCEPT ![t] = "values"]
        /\ reg_call' = reg_call
        /\ reg_keys' = reg_keys /\ reg_handles' = reg_handles /\ reg_next' = reg_next /\ reg_log' = reg_log
    BY DEF Keys!reg_query_info_key_w, Keys!Working
  <2>2. reg_answer' = [op |-> "subkeys", path |-> reg_call[t].path, arg |-> 0,
                    h |-> reg_call[t].h, sub |-> reg_call[t].sub, from |-> reg_call[t].from, status |-> "ok",
                    out |-> Keys!Cardinality(Keys!DirectSubkeys(reg_call[t].path)), at |-> Len(reg_log)]
    BY Zenon DEF Keys!reg_query_info_key_w
  <2>3. reg_answer' = [op |-> "subkeys", path |-> c.path, arg |-> 0,
                     h |-> c.h, sub |-> c.sub, from |-> c.from, status |-> "ok",
                    out |-> Keys!Cardinality(Keys!DirectSubkeys(c.path)), at |-> n]
    BY <1>1, <2>2, Zenon
  <2> QED
    BY <1>1, <2>1, <2>3
<1>3. c.path \in Keys!Text
  BY <1>1, <1>2, CallInPlace
<1>4. /\ reg_pc' \in [Thread -> {"idle", "work", "values"}] /\ reg_pc'[t] = "values"
      /\ \A u \in Thread \ {t} : reg_pc'[u] = reg_pc[u]
  BY <1>2 DEF Keys!TypeOK
<1>5. Keys!TypeOK'
  BY <1>2, <1>4 DEF Keys!TypeOK
<1>6. Keys!PathsNamed' /\ Keys!CallsInPlace'
  BY <1>1, <1>2, <1>4 DEF Keys!PathsNamed, Keys!CallsInPlace
<1>7. Keys!KeysFromLog' /\ Keys!LatestKnown'
  BY <1>2, KeysStay
<1>8. Keys!DirectSubkeys(c.path) = Keys!SubkeysIn(n, c.path)
  <2>1. ASSUME NEW q \in DOMAIN reg_keys
        PROVE  q \in Keys!DirectSubkeys(c.path) <=>
                 \E name \in Keys!ShortName : q = c.path \o <<Keys!Separator>> \o name
    <3>1. Keys!EndsInName(q)
      BY DEF Keys!PathsNamed
    <3>2. q \in Keys!DirectSubkeys(c.path) <=>
            /\ Keys!IsPrefix(c.path \o <<Keys!Separator>>, q)
            /\ SubSeq(q, Len(c.path) + 2, Len(q)) # <<>>
            /\ ~Keys!Contains(SubSeq(q, Len(c.path) + 2, Len(q)), Keys!Separator)
      BY DEF Keys!DirectSubkeys
    <3>3. (/\ Keys!IsPrefix(c.path \o <<Keys!Separator>>, q)
           /\ SubSeq(q, Len(c.path) + 2, Len(q)) # <<>>
           /\ ~Keys!Contains(SubSeq(q, Len(c.path) + 2, Len(q)), Keys!Separator))
            <=> \E name \in Keys!ShortName : q = c.path \o <<Keys!Separator>> \o name
      BY <1>3, <3>1, DirectIsName
    <3> QED
      BY <3>2, <3>3
  <2>2. DOMAIN reg_keys = Keys!KeysIn(n)
    BY <1>1 DEF Keys!KeysFromLog
  <2>3. Keys!DirectSubkeys(c.path) \subseteq DOMAIN reg_keys
    BY DEF Keys!DirectSubkeys
  <2>4. ASSUME NEW q
        PROVE  q \in Keys!SubkeysIn(n, c.path) <=>
                 /\ q \in DOMAIN reg_keys
                 /\ \E name \in Keys!ShortName : q = c.path \o <<Keys!Separator>> \o name
    BY <2>2 DEF Keys!SubkeysIn
  <2>5. ASSUME NEW q PROVE q \in Keys!DirectSubkeys(c.path) <=> q \in Keys!SubkeysIn(n, c.path)
    BY <2>1, <2>3, <2>4
  <2> QED
    BY <2>5
<1>9. Keys!SubkeysIn(n, c.path)' = Keys!SubkeysIn(n, c.path)
  <2>1. Keys!KeysIn(n)' = Keys!KeysIn(n)
    BY <1>2, LogStays
  <2> QED
    BY <2>1 DEF Keys!SubkeysIn
<1>10. Keys!AnswersInOrder'
  <2>1. /\ reg_answer'.op = "subkeys" /\ reg_answer'.path = c.path /\ reg_answer'.at = n
        /\ reg_answer'.h = c.h /\ reg_answer'.sub = c.sub /\ reg_answer'.from = c.from
        /\ reg_answer'.status # "invalid"
    BY <1>2
  <2>2. reg_answer'.out = Keys!Cardinality(Keys!SubkeysIn(n, c.path)')
    BY <1>2, <1>8, <1>9
  <2>3. reg_answer'.op \notin Keys!Removes
    BY <2>1 DEF Keys!Removes
  <2>4. reg_answer'.out = Keys!Cardinality(Keys!SubkeysIn(reg_answer.at, reg_answer.path))'
    BY <2>1, <2>2
  <2>5. Keys!Addressed(reg_answer)'
    BY <1>1, <1>2, <2>1, AnswerAddressed
  <2> QED
    BY <2>1, <2>3, <2>4, <2>5, Zenon DEF Keys!AnswersInOrder, Keys!Right
<1>11. Keys!HandlesFromLog' /\ Keys!CallsAddressed'
  <2>1. \A u \in Thread : reg_pc'[u] # "idle" => reg_pc[u] # "idle" /\ reg_call'[u] = reg_call[u]
    BY <1>2, <1>4
  <2> QED
    BY <1>2, <2>1, HandlesStay
<1> QED
  BY <1>5, <1>6, <1>7, <1>10, <1>11

\* Every step of a registry call keeps the invariant.
LEMMA NextKeysInv == Keys!KeysInv /\ [Keys!Next]_keyVars => Keys!KeysInv'
<1> SUFFICES ASSUME Keys!KeysInv, [Keys!Next]_keyVars PROVE Keys!KeysInv'
  OBVIOUS
<1>1. CASE UNCHANGED keyVars
  <2> USE DEF Keys!KeysInv
  <2>1. /\ reg_keys' = reg_keys /\ reg_handles' = reg_handles /\ reg_next' = reg_next /\ reg_pc' = reg_pc
        /\ reg_call' = reg_call /\ reg_answer' = reg_answer /\ reg_log' = reg_log
    BY <1>1 DEF keyVars
  <2>2. Keys!TypeOK' /\ Keys!PathsNamed' /\ Keys!CallsInPlace'
    BY <2>1 DEF Keys!TypeOK, Keys!PathsNamed, Keys!CallsInPlace
  <2>3. Keys!KeysFromLog' /\ Keys!LatestKnown'
    BY <2>1, KeysStay
  <2>4. Keys!AnswersInOrder'
    <3>1. PICK a : a = reg_answer
      OBVIOUS
    <3>2. /\ Keys!KeyIn(a.at, a.path)' <=> Keys!KeyIn(a.at, a.path)
          /\ Keys!ValueIn(a.at, a.path)' = Keys!ValueIn(a.at, a.path)
          /\ Keys!KeysIn(a.at)' = Keys!KeysIn(a.at)
      BY <2>1, LogStays
    <3>3. Keys!SubkeysIn(a.at, a.path)' = Keys!SubkeysIn(a.at, a.path)
      BY <3>2 DEF Keys!SubkeysIn
    <3>6. /\ Keys!OpenIn(a.at, a.h)' <=> Keys!OpenIn(a.at, a.h)
          /\ Keys!OpenIn(a.from, a.h)' <=> Keys!OpenIn(a.from, a.h)
          /\ \A m : Keys!Names(m, a.h, a.sub, a.path)' <=> Keys!Names(m, a.h, a.sub, a.path)
      BY <2>1, LogHoldsStill
    <3>7. Keys!Addressed(a)' <=> Keys!Addressed(a)
      BY <3>6 DEF Keys!Addressed
    <3>4. Keys!Right(a)
      BY <3>1 DEF Keys!AnswersInOrder
    <3>5. Keys!Right(a)'
      BY <3>2, <3>3, <3>4, <3>7 DEF Keys!Right
    <3> QED
      BY <2>1, <3>1, <3>5 DEF Keys!AnswersInOrder
  <2>5. Keys!HandlesFromLog' /\ Keys!CallsAddressed'
    BY <2>1, HandlesStay
  <2> QED
    BY <2>2, <2>3, <2>4, <2>5
<1>2. CASE Keys!Next
  <2>1. PICK t \in Thread :
          \/ \E h \in 0 .. (reg_next - 1) :
               \/ \E op \in {"open", "create", "delete", "tree"}, sub \in Keys!Subkey :
                    Keys!Begin(t, op, h, sub, 0)
               \/ \E v \in Keys!Value : Keys!Begin(t, "set", h, <<>>, v)
               \/ \E room \in Keys!Room : Keys!Begin(t, "query", h, <<>>, room)
               \/ Keys!Begin(t, "info", h, <<>>, 0)
               \/ Keys!Refused(t, h)
               \/ Keys!reg_close_key(t, h)
          \/ Keys!reg_open_key_w(t) \/ Keys!reg_create_key_ex_w(t)
          \/ Keys!reg_query_value_ex_w(t) \/ Keys!reg_set_value_ex_w(t)
          \/ Keys!reg_delete_key_w(t) \/ Keys!reg_delete_tree_w(t)
          \/ Keys!reg_query_info_key_w(t) \/ Keys!CountValues(t)
    BY <1>2 DEF Keys!Next
  <2>2. <<>> \in Keys!Subkey
    BY DEF Keys!Subkey
  <2>3. ASSUME NEW h \in 0 .. (reg_next - 1), NEW op \in {"open", "create", "delete", "tree"},
               NEW sub \in Keys!Subkey, Keys!Begin(t, op, h, sub, 0)
        PROVE  Keys!KeysInv'
    <3>1. op \in Keys!Makes \cup Keys!Removes \cup {"query", "info"} /\ op # "set" /\ 0 \in 0 .. 2
      BY DEF Keys!Makes, Keys!Opens, Keys!Removes
    <3> QED
      BY <2>3, <3>1, BeginInv
  <2>4. ASSUME NEW h \in 0 .. (reg_next - 1), NEW v \in Keys!Value, Keys!Begin(t, "set", h, <<>>, v)
        PROVE  Keys!KeysInv'
    <3>1. "set" \in Keys!Makes \cup Keys!Removes \cup {"query", "info"} /\ v \in 0 .. 2
      BY DEF Keys!Makes, Keys!Opens, Keys!Value
    <3> QED
      BY <2>2, <2>4, <3>1, BeginInv
  <2>5. ASSUME NEW h \in 0 .. (reg_next - 1), NEW room \in Keys!Room, Keys!Begin(t, "query", h, <<>>, room)
        PROVE  Keys!KeysInv'
    <3>1. "query" \in Keys!Makes \cup Keys!Removes \cup {"query", "info"} /\ room \in 0 .. 2 /\ "query" # "set"
      BY DEF Keys!Room
    <3> QED
      BY <2>2, <2>5, <3>1, BeginInv
  <2>6. ASSUME NEW h \in 0 .. (reg_next - 1), Keys!Begin(t, "info", h, <<>>, 0)
        PROVE  Keys!KeysInv'
    <3>1. "info" \in Keys!Makes \cup Keys!Removes \cup {"query", "info"} /\ 0 \in 0 .. 2 /\ "info" # "set"
      OBVIOUS
    <3> QED
      BY <2>2, <2>6, <3>1, BeginInv
  <2>7. ASSUME NEW h \in 0 .. (reg_next - 1), Keys!Refused(t, h) \/ Keys!reg_close_key(t, h)
        PROVE  Keys!KeysInv'
    BY <2>7, RefusedInv, CloseInv
  <2>8. CASE Keys!reg_open_key_w(t) \/ Keys!reg_create_key_ex_w(t)
    BY <2>8, CreateInv
  <2>9. CASE Keys!reg_query_value_ex_w(t) \/ Keys!CountValues(t)
    BY <2>9, ReadInv
  <2>10. CASE Keys!reg_set_value_ex_w(t)
    BY <2>10, SetInv
  <2>11. CASE Keys!reg_delete_key_w(t) \/ Keys!reg_delete_tree_w(t)
    BY <2>11, DeleteInv
  <2>12. CASE Keys!reg_query_info_key_w(t)
    BY <2>12, InfoInv
  <2> QED
    BY <2>1, <2>3, <2>4, <2>5, <2>6, <2>7, <2>8, <2>9, <2>10, <2>11, <2>12
<1> QED
  BY <1>1, <1>2

\* A step of the process is a step of the registry, or leaves it alone.
LEMMA KeysSteps == [TablesNext]_tableVars => [Keys!Next]_keyVars
BY DEF TablesNext, HandlesNext, StorageNext, MemoryNext, ModulesNext, KeysNext,
       tableVars, keyVars

\* Whatever happens between a call's two locks, for any number of threads and
\* calls, closes of the handle in use included: the registry answers as one
\* that executes whole calls in the order of their second lock, each on the key
\* its handle names then, or named last before it was closed.
THEOREM RegistryAnswersInOrder == TablesSpec => []AnswersInOrder
<1>1. TablesInit => Keys!KeysInv
  BY InitKeysInv DEF TablesInit
<1>2. Keys!KeysInv => AnswersInOrder
  BY DEF Keys!KeysInv, AnswersInOrder
<1> QED
  BY <1>1, <1>2, NextKeysInv, KeysSteps, PTL DEF TablesSpec

-----------------------------------------------------------------------------
(* The image: cells and pages *)

\* A cell lies in its page.
LEMMA PageFacts ==
  /\ PageCells \in Nat \ {0}
  /\ \A c \in Nat : PageOf(c) \in Nat /\ PageOf(c) * PageCells <= c
                    /\ c < (PageOf(c) + 1) * PageCells
<1>1. PageCells \in Nat \ {0}
  BY ImagesAssumption
<1> QED
  BY <1>1 DEF PageOf

\* p is the page of c when c lies in it.
LEMMA PageUnique ==
  ASSUME NEW c \in Nat, NEW p \in Nat, p * PageCells <= c, c < (p + 1) * PageCells
  PROVE  PageOf(c) = p
<1>1. PageCells \in Nat \ {0} /\ PageOf(c) \in Nat
      /\ PageOf(c) * PageCells <= c /\ c < (PageOf(c) + 1) * PageCells
  BY PageFacts
<1>2. ASSUME NEW m \in Nat, NEW n \in Nat, m < n PROVE (m + 1) * PageCells <= n * PageCells
  BY <1>1, <1>2
<1>3. ~(PageOf(c) < p)
  BY <1>1, <1>2
<1>4. ~(p < PageOf(c))
  BY <1>1, <1>2
<1> QED
  BY <1>1, <1>3, <1>4

\* Later cells are on later pages.
LEMMA PagesInOrder ==
  ASSUME NEW c \in Nat, NEW d \in Nat, c <= d
  PROVE  PageOf(c) <= PageOf(d)
<1>1. PageCells \in Nat \ {0} /\ PageOf(c) \in Nat /\ PageOf(d) \in Nat
      /\ PageOf(c) * PageCells <= c /\ d < (PageOf(d) + 1) * PageCells
  BY PageFacts
<1>2. ASSUME NEW m \in Nat, NEW n \in Nat, m < n PROVE (m + 1) * PageCells <= n * PageCells
  BY <1>1, <1>2
<1> QED
  BY <1>1, <1>2

\* The image takes whole pages.
LEMMA MappedNat ==
  ASSUME NEW image \in Images
  PROVE  /\ MappedSize(image) \in Nat
         /\ \E k \in Nat : MappedSize(image) = k * PageCells
<1>1. PageCells \in Nat \ {0} /\ image.size \in Nat
  BY ImagesAssumption
<1>2. image.size + PageCells - 1 \in Nat
  BY <1>1
<1>3. PageOf(image.size + PageCells - 1) \in Nat
  BY <1>2, PageFacts
<1>4. MappedSize(image) = PageOf(image.size + PageCells - 1) * PageCells
  BY DEF MappedSize, round_up, PageOf
<1> QED
  BY <1>1, <1>3, <1>4

\* A page that the pages of a section reach has a cell of it.
LEMMA SpanCell ==
  ASSUME NEW s, s.va \in Nat, s.vsz \in Nat, s.vsz # 0, NEW p \in Nat,
         PageOf(s.va) <= p, p * PageCells < s.va + s.vsz
  PROVE  \E d \in Cells(s) : PageOf(d) = p
<1>1. PageCells \in Nat \ {0} /\ PageOf(s.va) \in Nat
      /\ PageOf(s.va) * PageCells <= s.va /\ s.va < (PageOf(s.va) + 1) * PageCells
  BY PageFacts
<1>2. CASE PageOf(s.va) = p
  BY <1>2 DEF Cells
<1>3. CASE PageOf(s.va) < p
  <2>1. (PageOf(s.va) + 1) * PageCells <= p * PageCells
    BY <1>1, <1>3
  <2>2. p * PageCells \in Nat /\ p * PageCells < (p + 1) * PageCells
    BY <1>1
  <2>3. PageOf(p * PageCells) = p
    BY <2>2, PageUnique
  <2>4. p * PageCells \in Cells(s)
    <3>1. (PageOf(s.va) + 1) * PageCells \in Nat
      BY <1>1
    <3> QED
      BY <1>1, <2>1, <2>2, <3>1 DEF Cells
  <2> QED
    BY <2>3, <2>4
<1> QED
  BY <1>1, <1>2, <1>3

\* The pages of an image are the pages of its cells.
LEMMA ImagePages ==
  ASSUME NEW image \in Images, NEW c \in 0..(MappedSize(image) - 1)
  PROVE  MappedSize(image) \in Nat /\ PageOf(c) \in Pages(MappedSize(image))
<1>1. PageCells \in Nat \ {0} /\ image.size \in Nat
  BY ImagesAssumption
<1>2. PICK k \in Nat : MappedSize(image) = k * PageCells
  BY MappedNat
<1>3. MappedSize(image) \in Nat
  BY <1>1, <1>2
<1>4. PageOf(MappedSize(image)) = k
  BY <1>1, <1>2, <1>3, PageUnique
<1>5. PageOf(c) \in Nat /\ PageOf(c) * PageCells <= c
  BY <1>3, PageFacts
<1>6. PageOf(c) < k
  <2>1. SUFFICES ASSUME k <= PageOf(c) PROVE FALSE
    BY <1>5
  <2>2. k * PageCells <= PageOf(c) * PageCells
    BY <1>1, <1>5, <2>1
  <2> QED
    BY <1>1, <1>2, <1>3, <1>5, <2>2
<1> QED
  BY <1>3, <1>4, <1>5, <1>6 DEF Pages

-----------------------------------------------------------------------------
(* The image: what is left of a list *)

\* What is left of a list, and how much of it is done.
Rest(all, rest) ==
  /\ rest \in Seq(Range(all)) /\ Len(rest) <= Len(all)
  /\ \A j \in DOMAIN rest : rest[j] = all[Len(all) - Len(rest) + j]
\* How many entries the rest leaves out: the ones already dealt with.
Done(all, rest) == Len(all) - Len(rest)

\* At first all is left.
LEMMA RestAll ==
  ASSUME NEW S, NEW all \in Seq(S)
  PROVE  Rest(all, all) /\ Done(all, all) = 0
<1>1. all \in Seq(Range(all))
  BY DEF Range
<1>2. Len(all) \in Nat /\ DOMAIN all = 1..Len(all)
  OBVIOUS
<1>3. \A j \in DOMAIN all : Len(all) - Len(all) + j = j
  BY <1>2
<1> QED
  BY <1>1, <1>2, <1>3 DEF Rest, Done

\* The next one is taken off.
LEMMA RestTail ==
  ASSUME NEW S, NEW all \in Seq(S), NEW rest, Rest(all, rest), rest # <<>>
  PROVE  /\ Rest(all, Tail(rest)) /\ Done(all, Tail(rest)) = Done(all, rest) + 1
         /\ Done(all, rest) \in Nat /\ Done(all, rest) + 1 \in DOMAIN all
         /\ Head(rest) = all[Done(all, rest) + 1]
<1>1. rest \in Seq(Range(all)) /\ Len(rest) <= Len(all) /\ Len(all) \in Nat
      /\ \A j \in DOMAIN rest : rest[j] = all[Len(all) - Len(rest) + j]
  BY DEF Rest
<1>2. /\ Len(rest) \in Nat /\ Len(rest) > 0 /\ DOMAIN rest = 1..Len(rest)
      /\ Tail(rest) \in Seq(Range(all)) /\ Len(Tail(rest)) = Len(rest) - 1
      /\ DOMAIN Tail(rest) = 1..(Len(rest) - 1)
      /\ \A j \in DOMAIN Tail(rest) : Tail(rest)[j] = rest[j + 1]
      /\ Head(rest) = rest[1]
  BY <1>1, HeadTailProperties, EmptySeq
<1>3. \A j \in DOMAIN Tail(rest) : Tail(rest)[j] = all[Len(all) - Len(Tail(rest)) + j]
  <2>1. SUFFICES ASSUME NEW j \in DOMAIN Tail(rest)
                 PROVE  Tail(rest)[j] = all[Len(all) - Len(Tail(rest)) + j]
    OBVIOUS
  <2>2. j + 1 \in DOMAIN rest /\ j \in Nat
    BY <1>2
  <2>3. Len(all) - Len(rest) + (j + 1) = Len(all) - Len(Tail(rest)) + j
    BY <1>1, <1>2, <2>2
  <2> QED
    BY <1>1, <1>2, <2>2, <2>3
<1>4. Head(rest) = all[Len(all) - Len(rest) + 1]
  BY <1>1, <1>2
<1>5. Len(all) - Len(rest) \in Nat /\ Len(all) - Len(rest) + 1 \in DOMAIN all
  BY <1>1, <1>2
<1> QED
  BY <1>1, <1>2, <1>3, <1>4, <1>5 DEF Rest, Done

\* Nothing is left when all is done.
LEMMA RestNone ==
  ASSUME NEW S, NEW all \in Seq(S), NEW rest, Rest(all, rest), rest = <<>>
  PROVE  Done(all, rest) = Len(all)
BY DEF Rest, Done

-----------------------------------------------------------------------------
(* The image: protections *)

\* The phases of a load that has an image in memory.
Mapped == {"protect", "relocate", "build", "bind", "stack", "tls", "ready", "callbacks", "exited"}

\* Every page has its section's protection, but those with import slots and
\* those a relocation could not protect again.
Protected ==
  \A i \in DOMAIN Sections : \A c \in Cells(Sections[i]) :
    prot[PageOf(c)] = IF Opened(PageOf(c)) THEN RW ELSE section_prot(Sections[i])

\* The sections so far have theirs, the others are still as they were mapped.
Protecting ==
  \A i \in DOMAIN Sections : \A c \in Cells(Sections[i]) :
    prot[PageOf(c)] = IF i <= Done(Sections, todo) THEN section_prot(Sections[i]) ELSE RW

\* No page is ever writable and executable; while map_image protects, the
\* sections so far have their protection; from then on every section does.
ProtInv ==
  /\ img \in Images
  /\ \A p \in DOMAIN prot : ~({"w", "x"} \subseteq prot[p])
  /\ phase \in Mapped => /\ img.size # 0
                         /\ DOMAIN mem = 0..(MappedSize(img) - 1)
                         /\ DOMAIN prot = Pages(MappedSize(img))
                         \* an access that writes also reads
                         /\ \A p \in DOMAIN prot : "w" \in prot[p] => prot[p] = RW
  /\ phase \in {"start", "protect", "relocate", "build"} => DOMAIN bound = {}
  /\ phase \in {"start", "protect"} => unrestored = {}
  /\ phase = "protect" => Rest(Sections, todo) /\ Protecting
  /\ phase = "relocate" => Rest(Relocations(img), todo)
  /\ phase \in Mapped \ {"protect"} => Protected

\* Once the image is mapped `size` is what it should be.
LEMMA MappedFacts ==
  ASSUME ProtInv, phase \in Mapped
  PROVE  /\ size = MappedSize(img) /\ size \in Nat
         /\ SectionsApart(img) /\ RelocatesSections(img) /\ AddressesRelocated(img)
         /\ \A c \in 0..(MappedSize(img) - 1) : PageOf(c) \in DOMAIN prot
         /\ \A i \in DOMAIN Sections : \A c \in Cells(Sections[i]) :
              c \in 0..(MappedSize(img) - 1)
<1>1. /\ img \in Images /\ img.size # 0 /\ DOMAIN mem = 0..(MappedSize(img) - 1)
      /\ DOMAIN prot = Pages(MappedSize(img))
  BY DEF ProtInv
<1>2. SectionsApart(img) /\ RelocatesSections(img) /\ AddressesRelocated(img)
  BY <1>1, ImagesAssumption
<1>3. MappedSize(img) \in Nat
  BY <1>1, MappedNat
<1>4. size = MappedSize(img)
  BY <1>1, <1>3, FS_Interval DEF size
<1>5. \A c \in 0..(MappedSize(img) - 1) : PageOf(c) \in DOMAIN prot
  BY <1>1, ImagePages
<1>6. ASSUME NEW i \in DOMAIN Sections, NEW c \in Cells(Sections[i])
      PROVE  c \in 0..(MappedSize(img) - 1)
  <2> Sections[i] \in SectionHeader
    BY <1>2 DEF SectionsApart, Sections
  <2>1. Sections[i].va \in Nat /\ Sections[i].vsz \in Nat
    BY DEF SectionHeader
  <2>2. c \in Nat /\ c < Sections[i].va + Sections[i].vsz /\ Sections[i].vsz > 0
    BY <2>1 DEF Cells
  <2>3. Sections[i].va + Sections[i].vsz <= MappedSize(img)
    BY <1>2, <2>2 DEF SectionsApart, Sections
  <2> QED
    BY <1>3, <2>1, <2>2, <2>3
<1> QED
  BY <1>2, <1>3, <1>4, <1>5, <1>6

\* No section is writable and executable, and a writable one is RW.
LEMMA SectionProt ==
  ASSUME NEW s
  PROVE  /\ ~({"w", "x"} \subseteq section_prot(s)) /\ ~({"w", "x"} \subseteq section_prot(s) \cup {"r"})
         /\ "w" \in section_prot(s) => section_prot(s) = RW
         /\ "w" \in section_prot(s) \cup {"r"} => section_prot(s) \cup {"r"} = RW
         /\ ~({"w", "x"} \subseteq RW)
BY DEF section_prot, RW

\* Cells on one page are of one section.
LEMMA OneSection ==
  ASSUME SectionsApart(img), NEW i \in DOMAIN Sections, NEW j \in DOMAIN Sections,
         NEW c \in Cells(Sections[i]), NEW d \in Cells(Sections[j]), PageOf(c) = PageOf(d)
  PROVE  i = j
BY DEF SectionsApart, Sections

\* map_image: pages are readable and writable before any section is protected.
LEMMA MapImageProt ==
  ASSUME ProtInv, map_image
  PROVE  ProtInv'
<1>1. UNCHANGED <<img, bound, unrestored>> /\ phase = "start" /\ img \in Images /\ DOMAIN bound = {}
  BY DEF map_image, ProtInv
<1>2. CASE phase' = "failed"
  <2>1. UNCHANGED prot
    BY <1>2 DEF map_image
  <2> QED
    BY <1>1, <1>2, <2>1 DEF ProtInv, Mapped
<1>3. CASE phase' # "failed"
  <2>1. /\ phase' = "protect" /\ todo' = Sections
        /\ mem' = Contents(img, MappedSize(img))
        /\ prot' = [p \in Pages(MappedSize(img)) |-> RW]
        /\ MappedSize(img) # 0
    BY <1>3 DEF map_image, MappedSize
  <2>2. img.size # 0
    <3>1. SUFFICES ASSUME img.size = 0 PROVE MappedSize(img) = 0
      BY <2>1
    <3>2. PageCells \in Nat \ {0}
      BY ImagesAssumption
    <3>3. PageOf(PageCells - 1) = 0
      BY <3>2, PageUnique
    <3>4. MappedSize(img) = PageOf(PageCells - 1) * PageCells
      BY <3>1, <3>2 DEF MappedSize, round_up, PageOf
    <3> QED
      BY <3>2, <3>3, <3>4
  <2>3. SectionsApart(img)
    BY <1>1, <2>2, ImagesAssumption
  <2>4. Sections \in Seq(SectionHeader)
    BY <2>3 DEF SectionsApart, Sections
  <2>5. Rest(Sections, Sections) /\ Done(Sections, Sections) = 0
    BY <2>4, RestAll
  <2>6. Rest(Sections', todo') /\ Done(Sections', todo') = 0 /\ Sections' = Sections
    BY <1>1, <2>1, <2>5 DEF Sections
  <2>7. DOMAIN mem' = 0..(MappedSize(img) - 1)
    BY <2>1 DEF Contents
  <2>8. ASSUME NEW i \in DOMAIN Sections, NEW c \in Cells(Sections[i])
        PROVE  prot'[PageOf(c)] = RW /\ ~(i <= 0)
    <3>1. Sections[i] \in SectionHeader /\ i \in 1..Len(Sections)
      BY <2>4
    <3>2. Sections[i].va \in Nat /\ Sections[i].vsz \in Nat
      BY <3>1 DEF SectionHeader
    <3>3. c \in Nat /\ c < Sections[i].va + Sections[i].vsz /\ Sections[i].vsz > 0
      BY <3>2 DEF Cells
    <3>4. Sections[i].va + Sections[i].vsz <= MappedSize(img)
      BY <2>3, <3>3 DEF SectionsApart, Sections
    <3>5. MappedSize(img) \in Nat
      BY <2>1, <1>1, MappedNat
    <3>6. c \in 0..(MappedSize(img) - 1)
      BY <3>2, <3>3, <3>4, <3>5
    <3>7. PageOf(c) \in Pages(MappedSize(img))
      BY <1>1, <3>6, ImagePages
    <3> QED
      BY <2>1, <3>1, <3>7
  <2>9. Protecting'
    BY <2>6, <2>8 DEF Protecting
  <2>10. \A p \in DOMAIN prot' : prot'[p] = RW
    BY <2>1
  <2>11. DOMAIN prot' = Pages(MappedSize(img)) /\ MappedSize(img)' = MappedSize(img)
    BY <1>1, <2>1 DEF MappedSize
  <2> QED
    BY <1>1, <2>1, <2>2, <2>6, <2>7, <2>9, <2>10, <2>11, SectionProt DEF ProtInv, Mapped
<1> QED
  BY <1>2, <1>3

\* protect_section: the next section gets its protection, the others keep theirs.
LEMMA ProtectSection ==
  ASSUME ProtInv, protect_section
  PROVE  ProtInv'
<1>1. UNCHANGED <<img, bound, mem, unrestored>> /\ phase = "protect" /\ todo # <<>> /\ img \in Images
  BY DEF protect_section, ProtInv
<1>2. CASE phase' = "failed"
  <2>1. UNCHANGED prot
    BY <1>1, <1>2 DEF protect_section
  <2> QED
    BY <1>1, <1>2, <2>1 DEF ProtInv, Mapped
<1>3. CASE phase' # "failed"
  <2> DEFINE sec == Head(todo)
             span == {p \in DOMAIN prot : PageOf(sec.va) <= p /\ p * PageCells < sec.va + sec.vsz}
             skip == sec.vsz = 0 \/ sec.va >= size \/ section_prot(sec) = RW
             done == Done(Sections, todo)
  <2>1. /\ prot' = IF skip THEN prot
                   ELSE [p \in DOMAIN prot |-> IF p \in span THEN section_prot(sec) ELSE prot[p]]
        /\ todo' = Tail(todo) /\ phase' = "protect"
    BY <1>1, <1>3 DEF protect_section
  <2>2. /\ size = MappedSize(img) /\ size \in Nat /\ SectionsApart(img)
        /\ \A c \in 0..(MappedSize(img) - 1) : PageOf(c) \in DOMAIN prot
        /\ \A i \in DOMAIN Sections : \A c \in Cells(Sections[i]) : c \in 0..(MappedSize(img) - 1)
    BY <1>1, MappedFacts DEF Mapped
  <2>3. Sections \in Seq(SectionHeader) /\ Rest(Sections, todo) /\ Protecting
    BY <1>1, <2>2 DEF SectionsApart, Sections, ProtInv
  <2>4. /\ Rest(Sections, Tail(todo)) /\ Done(Sections, Tail(todo)) = done + 1
        /\ done \in Nat /\ done + 1 \in DOMAIN Sections /\ sec = Sections[done + 1]
    BY <1>1, <2>3, RestTail
  <2>5. sec \in SectionHeader /\ sec.va \in Nat /\ sec.vsz \in Nat
    <3>1. sec \in SectionHeader
      BY <2>3, <2>4
    <3> QED
      BY <3>1 DEF SectionHeader
  <2> HIDE DEF sec, done
  <2>6. DOMAIN prot' = DOMAIN prot
        /\ \A p \in DOMAIN prot' : prot'[p] = prot[p] \/ prot'[p] = section_prot(sec)
    BY <2>1
  <2>7. \A i \in DOMAIN Sections : i \in Nat
    BY <2>3
  <2>8. ASSUME NEW i \in DOMAIN Sections, NEW c \in Cells(Sections[i])
        PROVE  prot'[PageOf(c)] = IF i <= done + 1 THEN section_prot(Sections[i]) ELSE RW
    <3>1. /\ c \in Nat /\ c \in 0..(size - 1) /\ PageOf(c) \in DOMAIN prot
          /\ PageOf(c) \in Nat /\ PageOf(c) * PageCells <= c
      BY <2>2, PageFacts
    <3>2. prot[PageOf(c)] = IF i <= done THEN section_prot(Sections[i]) ELSE RW
      BY <2>3 DEF Protecting, done
    <3>3. CASE i = done + 1
      <4>1. sec.va <= c /\ c < sec.va + sec.vsz
        BY <2>4, <2>5, <3>3 DEF Cells
      <4>2. sec.vsz # 0 /\ ~(sec.va >= size)
        BY <2>2, <2>5, <3>1, <4>1
      <4>3. PageOf(c) \in span
        <5>1. PageOf(sec.va) <= PageOf(c)
          BY <2>5, <3>1, <4>1, PagesInOrder
        <5>2. PageOf(c) * PageCells < sec.va + sec.vsz
          BY <2>5, <3>1, <4>1, PageFacts
        <5> QED
          BY <3>1, <5>1, <5>2
      <4>4. CASE section_prot(sec) = RW
        <5>1. prot'[PageOf(c)] = RW
          <6>1. ~(i <= done)
            BY <2>4, <3>3
          <6> QED
            BY <2>1, <3>2, <4>4, <6>1
        <5> QED
          BY <2>4, <3>3, <4>4, <5>1
      <4>5. CASE section_prot(sec) # RW
        <5>1. prot'[PageOf(c)] = section_prot(sec)
          BY <2>1, <3>1, <4>2, <4>3, <4>5
        <5> QED
          BY <2>4, <3>3, <5>1
      <4> QED
        BY <4>4, <4>5
    <3>4. CASE i # done + 1
      <4>1. sec.vsz # 0 => PageOf(c) \notin span
        <5>1. SUFFICES ASSUME sec.vsz # 0, PageOf(c) \in span PROVE FALSE
          OBVIOUS
        <5>2. PageOf(sec.va) <= PageOf(c) /\ PageOf(c) * PageCells < sec.va + sec.vsz
          BY <5>1
        <5>3. PICK d \in Cells(sec) : PageOf(d) = PageOf(c)
          BY <2>5, <3>1, <5>1, <5>2, SpanCell
        <5> QED
          BY <2>2, <2>4, <3>4, <5>3, OneSection
      <4>2. prot'[PageOf(c)] = prot[PageOf(c)]
        BY <2>1, <3>1, <4>1
      <4>3. i <= done + 1 <=> i <= done
        BY <2>4, <2>7, <3>4
      <4> QED
        BY <3>2, <4>2, <4>3
    <3> QED
      BY <3>3, <3>4
  <2>9. Rest(Sections, todo') /\ Done(Sections, todo') = done + 1 /\ Sections' = Sections
    BY <1>1, <2>1, <2>4 DEF Sections
  <2>10. Protecting'
    BY <2>8, <2>9 DEF Protecting
  <2>11. MappedSize(img)' = MappedSize(img)
    BY <1>1 DEF MappedSize
  <2>12. \A p \in DOMAIN prot' : ~({"w", "x"} \subseteq prot'[p]) /\ ("w" \in prot'[p] => prot'[p] = RW)
    BY <1>1, <2>6, SectionProt DEF ProtInv, Mapped
  <2> HIDE DEF span, skip
  <2> QED
    BY <1>1, <2>1, <2>6, <2>9, <2>10, <2>11, <2>12 DEF ProtInv, Mapped
<1> QED
  BY <1>2, <1>3

\* A page is protected again as its section is.
LEMMA Restored ==
  ASSUME SectionsApart(img), NEW i \in DOMAIN Sections, NEW c \in Cells(Sections[i])
  PROVE  RestoreProt(c) = section_prot(Sections[i]) \cup {"r"}
<1> DEFINE I == {j \in 1..Len(Sections) : Covers(Sections[j], c)}
<1>1. Sections \in Seq(SectionHeader)
  BY DEF SectionsApart, Sections
<1>2. \A j \in DOMAIN Sections : Sections[j].va \in Nat /\ Sections[j].vsz \in Nat
  <2>1. \A j \in DOMAIN Sections : Sections[j] \in SectionHeader
    BY <1>1
  <2> QED
    BY <2>1 DEF SectionHeader
<1>3. c \in Nat
  BY <1>2 DEF Cells
<1>4. \A j \in DOMAIN Sections : Covers(Sections[j], c) <=> c \in Cells(Sections[j])
  BY <1>2, <1>3 DEF Covers, Cells
<1>5. DOMAIN Sections = 1..Len(Sections)
  BY <1>1
<1>6. \A j \in DOMAIN Sections : c \in Cells(Sections[j]) => j = i
  BY OneSection
<1>7. I = {i}
  BY <1>4, <1>5, <1>6
<1>8. i \in Nat /\ i # 0
  BY <1>5
<1>9. Min(I) = i
  BY <1>7, <1>8 DEF Min
<1>10. SelectInSeq(Sections, LAMBDA s : Covers(s, c)) = IF I # {} THEN Min(I) ELSE 0
  BY DEF SelectInSeq
<1> HIDE DEF I
<1>11. SelectInSeq(Sections, LAMBDA s : Covers(s, c)) = i
  BY <1>7, <1>9, <1>10
<1> QED
  BY <1>8, <1>11 DEF RestoreProt

\* begin_relocations: the sections are all protected.
LEMMA BeginProt ==
  ASSUME ProtInv, begin_relocations
  PROVE  ProtInv'
<1>1. /\ UNCHANGED <<img, bound, mem, prot, unrestored>> /\ phase = "protect" /\ todo = <<>>
      /\ \/ phase' \in {"build", "failed"} /\ todo' = todo
         \/ phase' = "relocate" /\ todo' = Relocations(img)
  BY DEF begin_relocations
<1>2. SectionsApart(img) /\ RelocatesSections(img) /\ img.size # 0
  BY <1>1, MappedFacts DEF Mapped, ProtInv
<1>3. Sections \in Seq(SectionHeader) /\ Rest(Sections, todo) /\ Protecting
  BY <1>1, <1>2 DEF SectionsApart, Sections, ProtInv
<1>4. Done(Sections, todo) = Len(Sections) /\ \A i \in DOMAIN Sections : i <= Len(Sections)
  BY <1>1, <1>3, RestNone
<1>5. DOMAIN bound = {} /\ unrestored = {}
  BY <1>1 DEF ProtInv
<1>6. Protected
  BY <1>3, <1>4, <1>5 DEF Protected, Protecting, Opened
<1>7. Protected' /\ MappedSize(img)' = MappedSize(img)
  BY <1>1, <1>6 DEF Protected, Opened, Sections, MappedSize
<1>8. phase' = "relocate" => Rest(Relocations(img), todo')
  BY <1>1, <1>2, RestAll DEF RelocatesSections
<1>9. Relocations(img)' = Relocations(img)
  BY <1>1 DEF Relocations
<1> QED
  BY <1>1, <1>5, <1>7, <1>8, <1>9 DEF ProtInv, Mapped

\* apply_relocation: the page is writable in between, and then as its section
\* is, or left writable.
LEMMA RelocateProt ==
  ASSUME ProtInv, apply_relocation
  PROVE  ProtInv'
<1>1. UNCHANGED <<img, bound>> /\ phase = "relocate" /\ todo # <<>>
  BY DEF apply_relocation
<1>2. CASE phase' = "failed"
  <2>1. UNCHANGED prot
    BY <1>1, <1>2 DEF apply_relocation
  <2> QED
    BY <1>1, <1>2, <2>1 DEF ProtInv, Mapped
<1>3. CASE phase' # "failed"
  <2>1. PICK entry : entry = Head(todo)
    OBVIOUS
  <2>2. /\ ~(entry.typ = Overflow \/ (entry.typ # 0 /\ Target(entry) >= size))
        /\ IF entry.typ = 0 THEN UNCHANGED <<mem, prot, unrestored>>
           ELSE /\ mem' = [mem EXCEPT ![Target(entry)] = apply_one_reloc(@, entry.typ)]
                /\ Reprotect(Target(entry))
        /\ todo' = Tail(todo) /\ phase' = "relocate"
    BY <1>1, <1>3, <2>1 DEF apply_relocation
  <2>3. /\ size = MappedSize(img) /\ size \in Nat /\ SectionsApart(img) /\ RelocatesSections(img)
        /\ \A c \in 0..(MappedSize(img) - 1) : PageOf(c) \in DOMAIN prot
        /\ \A i \in DOMAIN Sections : \A c \in Cells(Sections[i]) : c \in 0..(MappedSize(img) - 1)
        /\ Rest(Relocations(img), todo) /\ Protected /\ DOMAIN bound = {}
    BY <1>1, MappedFacts DEF Mapped, ProtInv
  <2>4. Relocations(img) \in Seq(RelocEntry)
    BY <2>3 DEF RelocatesSections
  <2>5. /\ Rest(Relocations(img), Tail(todo))
        /\ Done(Relocations(img), todo) + 1 \in DOMAIN Relocations(img)
        /\ entry = Relocations(img)[Done(Relocations(img), todo) + 1]
    BY <1>1, <2>1, <2>3, <2>4, RestTail
  <2>6. Rest(Relocations(img)', todo') /\ MappedSize(img)' = MappedSize(img) /\ Sections' = Sections
    BY <1>1, <2>2, <2>5 DEF Relocations, MappedSize, Sections
  <2>7. CASE entry.typ = 0
    <3>1. UNCHANGED <<mem, prot, unrestored>>
      BY <2>2, <2>7
    <3>2. Protected'
      BY <1>1, <2>3, <2>6, <3>1 DEF Protected, Opened
    <3> QED
      BY <1>1, <2>2, <2>6, <3>1, <3>2 DEF ProtInv, Mapped
  <2>8. CASE entry.typ # 0
    <3>1. entry \in RelocEntry
      BY <2>4, <2>5
    <3>2. Target(entry) \in Nat /\ Target(entry) < MappedSize(img)
      BY <2>2, <2>3, <2>8, <3>1 DEF Target, RelocEntry
    <3>3. PICK j \in DOMAIN Sections : /\ Target(entry) \in Cells(Sections[j])
                                       /\ "r" \in section_prot(Sections[j])
      BY <2>2, <2>3, <2>5, <2>8, <3>2 DEF RelocatesSections, Sections
    <3>4. RestoreProt(Target(entry)) = section_prot(Sections[j])
      BY <2>3, <3>3, Restored
    <3>5. PICK page : page = PageOf(Target(entry))
      OBVIOUS
    <3>6. DOMAIN mem' = DOMAIN mem
      BY <2>2, <2>8
    <3>7. \/ /\ prot' = [prot EXCEPT ![page] = section_prot(Sections[j])]
             /\ unrestored' = unrestored \ {page}
          \/ /\ prot' = [prot EXCEPT ![page] = RW]
             /\ unrestored' = unrestored \cup {page}
      BY <2>2, <2>8, <3>4, <3>5 DEF Reprotect
    <3>8. /\ Protected'
          /\ DOMAIN prot' = DOMAIN prot
          /\ \A p \in DOMAIN prot' : \/ prot'[p] \in {prot[p], RW}
                                    \/ prot'[p] = section_prot(Sections[j])
      <4>1. /\ DOMAIN prot' = DOMAIN prot
            /\ \A p \in DOMAIN prot : p # page => prot'[p] = prot[p]
            /\ page \in DOMAIN prot =>
                 prot'[page] = IF page \in unrestored' THEN RW ELSE section_prot(Sections[j])
            /\ \A p : p # page => (p \in unrestored' <=> p \in unrestored)
        BY <3>7
      <4>2. \A p : Opened(p)' <=> p \in unrestored'
        BY <1>1, <2>3 DEF Opened
      <4>3. \A p : Opened(p) <=> p \in unrestored
        BY <2>3 DEF Opened
      <4>4. ASSUME NEW i \in DOMAIN Sections, NEW c \in Cells(Sections[i])
            PROVE  prot'[PageOf(c)] = IF PageOf(c) \in unrestored'
                                      THEN RW ELSE section_prot(Sections[i])
        <5>1. PageOf(c) \in DOMAIN prot
          BY <2>3
        <5>2. prot[PageOf(c)] = IF PageOf(c) \in unrestored
                                THEN RW ELSE section_prot(Sections[i])
          BY <2>3, <4>3 DEF Protected
        <5>3. PageOf(c) = page => i = j
          BY <2>3, <3>3, <3>5, OneSection
        <5> QED
          BY <4>1, <5>1, <5>2, <5>3
      <4>5. Protected'
        BY <2>6, <4>2, <4>4 DEF Protected
      <4> QED
        BY <4>1, <4>5
    <3>9. \A p \in DOMAIN prot' : ~({"w", "x"} \subseteq prot'[p]) /\ ("w" \in prot'[p] => prot'[p] = RW)
      BY <1>1, <3>8, SectionProt DEF ProtInv, Mapped
    <3> QED
      BY <1>1, <2>2, <2>6, <3>6, <3>8, <3>9 DEF ProtInv, Mapped
  <2> QED
    BY <2>7, <2>8
<1> QED
  BY <1>2, <1>3


\* write_iat: the page of a slot stays writable.
LEMMA BindProt ==
  ASSUME ProtInv, write_iat
  PROVE  ProtInv'
<1>1. UNCHANGED <<img, mem, unrestored>> /\ phase = "bind"
  BY DEF write_iat
<1>2. PICK imp, page : imp = Head(todo) /\ page = PageOf(imp.slot)
  OBVIOUS
<1>3. \/ UNCHANGED <<bound, prot>> /\ phase' = "bind"
      \/ UNCHANGED <<bound, prot>> /\ phase' = "crashed"
      \/ /\ prot' = [prot EXCEPT ![page] = RW]
         /\ DOMAIN bound' = DOMAIN bound \cup {imp.slot} /\ phase' = "bind"
      \/ /\ UNCHANGED prot /\ "w" \in prot[page]
         /\ DOMAIN bound' = DOMAIN bound \cup {imp.slot} /\ phase' = "bind"
  BY <1>1, <1>2 DEF write_iat
<1>4. /\ \A c \in 0..(MappedSize(img) - 1) : PageOf(c) \in DOMAIN prot
      /\ \A i \in DOMAIN Sections : \A c \in Cells(Sections[i]) : c \in 0..(MappedSize(img) - 1)
      /\ Protected /\ \A p \in DOMAIN prot : "w" \in prot[p] => prot[p] = RW
  BY <1>1, MappedFacts DEF Mapped, ProtInv
<1>5. MappedSize(img)' = MappedSize(img) /\ Sections' = Sections
  BY <1>1 DEF MappedSize, Sections
<1>6. CASE UNCHANGED <<bound, prot>>
  <2>1. Protected'
    BY <1>1, <1>4, <1>5, <1>6 DEF Protected, Opened
  <2> QED
    BY <1>1, <1>3, <1>5, <1>6, <2>1 DEF ProtInv, Mapped
<1>7. CASE ~UNCHANGED <<bound, prot>>
  <2>1. /\ phase' = "bind"
        /\ DOMAIN bound' = DOMAIN bound \cup {imp.slot}
        /\ \/ prot' = [prot EXCEPT ![page] = RW]
           \/ prot' = prot /\ "w" \in prot[page]
    BY <1>3, <1>7
  <2>2. DOMAIN bound' = {imp.slot} \cup DOMAIN bound
    BY <2>1
  <2>3. /\ DOMAIN prot' = DOMAIN prot
        /\ page \in DOMAIN prot => prot'[page] = RW
        /\ \A p \in DOMAIN prot : p # page => prot'[p] = prot[p]
    BY <1>4, <2>1
  <2>4. ASSUME NEW i \in DOMAIN Sections, NEW c \in Cells(Sections[i])
        PROVE  prot'[PageOf(c)] = IF Opened(PageOf(c))' THEN RW ELSE section_prot(Sections[i])
    <3>1. PageOf(c) \in DOMAIN prot
      BY <1>4
    <3>2. prot[PageOf(c)] = IF Opened(PageOf(c)) THEN RW ELSE section_prot(Sections[i])
      BY <1>4 DEF Protected
    <3>3. CASE PageOf(c) = page
      BY <1>2, <2>2, <2>3, <3>1, <3>3 DEF Opened
    <3>4. CASE PageOf(c) # page
      <4>1. prot'[PageOf(c)] = prot[PageOf(c)]
        BY <2>3, <3>1, <3>4
      <4>2. Opened(PageOf(c))' <=> Opened(PageOf(c))
        BY <1>1, <1>2, <2>2, <3>4 DEF Opened
      <4> QED
        BY <3>2, <4>1, <4>2
    <3> QED
      BY <3>3, <3>4
  <2>5. Protected'
    BY <1>5, <2>4 DEF Protected
  <2>6. \A p \in DOMAIN prot' : prot'[p] = prot[p] \/ prot'[p] = RW
    BY <2>3
  <2>7. \A p \in DOMAIN prot' : ~({"w", "x"} \subseteq prot'[p]) /\ ("w" \in prot'[p] => prot'[p] = RW)
    BY <1>1, <1>4, <2>3, <2>6, SectionProt DEF ProtInv
  <2> QED
    BY <1>1, <1>5, <2>1, <2>3, <2>5, <2>7 DEF ProtInv, Mapped
<1> QED
  BY <1>6, <1>7

\* The other steps leave protections and slots alone.
LEMMA KeepProt ==
  ASSUME ProtInv, UNCHANGED <<img, prot, bound, unrestored>>, DOMAIN mem' = DOMAIN mem,
         phase \in Mapped \ {"protect"},
         phase' \in (Mapped \ {"protect", "relocate", "build"}) \cup {"failed", "crashed"}
  PROVE  ProtInv'
<1>1. Protected' /\ MappedSize(img)' = MappedSize(img)
  BY DEF ProtInv, Protected, Opened, Sections, MappedSize
<1> QED
  BY <1>1 DEF ProtInv, Mapped

\* The steps that neither write the image nor change a protection.
LEMMA OtherProt ==
  ASSUME ProtInv,
         \/ build_table \/ seal_thunks \/ Stack_new \/ setup_tls
         \/ set_thread_gs_base \/ run_callback \/ run_entrypoint
  PROVE  ProtInv'
<1>1. UNCHANGED <<img, prot, bound, unrestored>>
  BY DEF build_table, seal_thunks, Stack_new, setup_tls, set_thread_gs_base, run_callback,
         run_entrypoint
<1>2. DOMAIN mem' = DOMAIN mem
  <2>1. CASE setup_tls
    <3>1. \/ mem' = mem
          \/ \E dir : mem' = [mem EXCEPT ![Rva(dir.address_of_index)] = 0]
      BY <2>1 DEF setup_tls
    <3> QED
      BY <3>1
  <2>2. CASE ~setup_tls
    BY <2>2 DEF build_table, seal_thunks, Stack_new, set_thread_gs_base, run_callback,
                run_entrypoint
  <2> QED
    BY <2>1, <2>2
<1>3. phase \in Mapped \ {"protect"}
  BY DEF build_table, seal_thunks, Stack_new, setup_tls, set_thread_gs_base, run_callback,
         run_entrypoint, Mapped
<1>4. phase' \in (Mapped \ {"protect", "relocate", "build"}) \cup {"failed", "crashed"}
  <2>1. CASE build_table \/ Stack_new \/ set_thread_gs_base
    BY <2>1 DEF build_table, Stack_new, set_thread_gs_base, Mapped
  <2>2. CASE seal_thunks
    BY <2>2 DEF seal_thunks, Mapped
  <2>3. CASE setup_tls
    BY <2>3 DEF setup_tls, Mapped
  <2>4. CASE run_callback \/ run_entrypoint
    BY <2>4 DEF run_callback, run_entrypoint, Execute, Mapped
  <2> QED
    BY <2>1, <2>2, <2>3, <2>4
<1> QED
  BY <1>1, <1>2, <1>3, <1>4, KeepProt

\* Every step of a load preserves the invariant of the protections.
LEMMA NextProt == ProtInv /\ [ImageNext]_imageVars => ProtInv'
<1>1. SUFFICES ASSUME ProtInv, [ImageNext]_imageVars PROVE ProtInv'
  OBVIOUS
<1>2. CASE UNCHANGED imageVars
  BY <1>1, <1>2 DEF imageVars, ProtInv, Protected, Opened, Protecting, Sections,
                    MappedSize, Relocations
<1> QED
  BY <1>1, <1>2, MapImageProt, ProtectSection, BeginProt, RelocateProt, BindProt, OtherProt
     DEF ImageNext

\* So does the start of a load.
LEMMA InitProt == ImageInit => ProtInv
BY DEF ImageInit, ProtInv, Mapped

(* No page of the image is ever writable and executable, and once the guest  *)
(* runs every page has its section's protection, or is readable and writable *)
(* for its import slots or because protecting it again failed (section_prot, *)
(* the mprotect loops of map_image, of apply_relocations and of write_iat),  *)
(* wherever the image was mapped and whichever call failed.                  *)
THEOREM ImageProtectionsDeclared == ImageSpec => []ProtectionsDeclared
<1>1. ProtInv => ProtectionsDeclared
  BY DEF ProtInv, ProtectionsDeclared, Protected, Mapped, Cells
<1> QED
  BY <1>1, InitProt, NextProt, PTL DEF ImageSpec

-----------------------------------------------------------------------------
(* The image: addresses *)

\* The cells where the linker put an address, and all of them moved to the base.
Pointer == DOMAIN img.pointers
Rebased == \A p \in Pointer : mem[p] = base + img.pointers[p]

\* Entry k of the relocations is the one of cell p.
Relocates(k, p) == Relocations(img)[k].typ # 0 /\ Target(Relocations(img)[k]) = p

\* The addresses of the entries so far are moved, the others are not.
Rebasing ==
  \A p \in Pointer : \A k \in DOMAIN Relocations(img) :
    Relocates(k, p) =>
      mem[p] = (IF k <= Done(Relocations(img), todo) THEN base ELSE img.preferred)
               + img.pointers[p]

\* As linked while map_image protects, moved up to the entry that is next while
\* apply_relocations runs, and moved from then on.
PointerInv ==
  /\ phase \in Mapped => base \in Bases \cup {img.preferred}
  /\ phase = "protect" => \A p \in Pointer : mem[p] = img.preferred + img.pointers[p]
  /\ phase = "relocate" => Rebasing
  /\ phase \in Mapped \ {"protect", "relocate"} => Rebased

\* What the linker says of the addresses.
LEMMA PointerFacts ==
  ASSUME ProtInv, phase \in Mapped, base \in Bases \cup {img.preferred}
  PROVE  /\ base \in Nat /\ img.preferred \in Nat /\ 2 ^ Width \in Nat \ {0} /\ img.tls \in Nat
         /\ \A p \in Pointer : /\ img.pointers[p] \in Nat
                               /\ p \in DOMAIN mem
                               /\ base + img.pointers[p] < 2 ^ Width
                               /\ img.preferred + img.pointers[p] < 2 ^ Width
                               /\ img.reloc.rva # 0 /\ img.reloc.size # 0
         /\ \A p \in Pointer : \E k \in DOMAIN Relocations(img) :
              /\ Relocations(img)[k].typ = 10
              /\ \A j \in DOMAIN Relocations(img) : Relocates(j, p) <=> j = k
<1>1. AddressesRelocated(img) /\ img \in Images /\ DOMAIN mem = 0..(MappedSize(img) - 1)
  BY MappedFacts DEF ProtInv
<1>2. base \in Nat /\ img.preferred \in Nat /\ 2 ^ Width \in Nat \ {0} /\ img.tls \in Nat
  BY <1>1, ImagesAssumption
<1>3. \A p \in Pointer : img.pointers[p] \in Nat
  BY <1>1 DEF AddressesRelocated, Pointer
<1>4. \A p \in Pointer : /\ p \in DOMAIN mem
                         /\ base + img.pointers[p] < 2 ^ Width
                         /\ img.preferred + img.pointers[p] < 2 ^ Width
                         /\ img.reloc.rva # 0 /\ img.reloc.size # 0
  BY <1>1 DEF AddressesRelocated, Pointer
<1>5. \A p \in Pointer : \E k \in DOMAIN Relocations(img) :
        /\ Relocations(img)[k].typ = 10
        /\ \A j \in DOMAIN Relocations(img) : Relocates(j, p) <=> j = k
  BY <1>1 DEF AddressesRelocated, Pointer, Relocates
<1> QED
  BY <1>2, <1>3, <1>4, <1>5

\* A 64-bit relocation moves an address that fits.
LEMMA MovesAddress ==
  ASSUME NEW v \in Nat, v < 2 ^ Width, 2 ^ Width \in Nat \ {0}, delta \in Int,
         v + delta \in Nat, v + delta < 2 ^ Width
  PROVE  apply_one_reloc(v, 10) = v + delta
<1>1. PICK M : M = 2 ^ Width
  OBVIOUS
<1>2. \A x \in Nat : x < M => x % M = x
  BY <1>1
<1>3. Wrap(v, Width) = v /\ Wrap(v + delta, Width) = v + delta
  BY <1>1, <1>2 DEF Wrap
<1>4. Patched(v, Width) = v + delta
  BY <1>3 DEF Patched
<1>5. apply_one_reloc(v, 10) = Patched(v, Width)
  BY DEF apply_one_reloc
<1> QED
  BY <1>4, <1>5

\* map_image copies the addresses as they were linked.
LEMMA MapImagePointers ==
  ASSUME ProtInv, ProtInv', map_image
  PROVE  PointerInv'
<1>1. CASE phase' = "failed"
  BY <1>1 DEF PointerInv, Mapped
<1>2. CASE phase' # "failed"
  <2>1. /\ phase' = "protect" /\ UNCHANGED img
        /\ mem' = Contents(img, MappedSize(img))
        /\ \E free \in BOOLEAN : base' \in MappedAt(free)
    BY <1>2 DEF map_image, MappedSize
  <2>2. base' \in Bases \cup {img.preferred}
    BY <2>1 DEF MappedAt
  <2>3. img \in Images /\ img.size # 0
    BY <2>1 DEF ProtInv, Mapped
  <2>4. AddressesRelocated(img)
    BY <2>3, ImagesAssumption
  <2>5. \A p \in Pointer : mem'[p] = img.preferred + img.pointers[p]
    BY <2>1, <2>4 DEF AddressesRelocated, Pointer
  <2> QED
    BY <2>1, <2>2, <2>5 DEF PointerInv, Mapped, Pointer
<1> QED
  BY <1>1, <1>2

\* The relocations start with none moved, or the base is the preferred one.
LEMMA BeginPointers ==
  ASSUME ProtInv, PointerInv, begin_relocations
  PROVE  PointerInv'
<1>1. UNCHANGED <<img, base, mem>> /\ phase = "protect"
  BY DEF begin_relocations
<1>2. base \in Bases \cup {img.preferred} /\ \A p \in Pointer : mem[p] = img.preferred + img.pointers[p]
  BY <1>1 DEF PointerInv, Mapped
<1>3. phase \in Mapped
  BY <1>1 DEF Mapped
<1>4. CASE phase' = "build"
  <2>1. ~NeedsRelocation
    BY <1>4 DEF begin_relocations
  <2>2. \A p \in Pointer : base = img.preferred
    BY <1>2, <1>3, <2>1, PointerFacts DEF NeedsRelocation, delta
  <2>3. Rebased
    BY <1>2, <2>2 DEF Rebased
  <2> QED
    BY <1>1, <1>2, <1>4, <2>3 DEF PointerInv, Mapped, Rebased, Pointer
<1>5. CASE phase' = "relocate"
  <2>1. todo' = Relocations(img) /\ Relocations(img)' = Relocations(img)
    BY <1>1, <1>5 DEF begin_relocations, Relocations
  <2>2. Relocations(img) \in Seq(RelocEntry)
    BY <1>3, MappedFacts DEF RelocatesSections
  <2>3. Done(Relocations(img), todo') = 0
    BY <2>1, <2>2, RestAll
  <2>4. \A k \in DOMAIN Relocations(img) : ~(k <= 0)
    BY <2>2
  <2>5. Pointer' = Pointer
    BY <1>1 DEF Pointer
  <2>6. Rebasing'
    BY <1>1, <1>2, <2>1, <2>3, <2>4, <2>5 DEF Rebasing
  <2> QED
    BY <1>1, <1>2, <1>5, <2>6 DEF PointerInv, Mapped
<1>6. CASE phase' = "failed"
  BY <1>6 DEF PointerInv, Mapped
<1> QED
  BY <1>4, <1>5, <1>6 DEF begin_relocations

\* An entry moves its own address and no other.
LEMMA RelocatePointers ==
  ASSUME ProtInv, PointerInv, apply_relocation
  PROVE  PointerInv'
<1>1. UNCHANGED <<img, base>> /\ phase = "relocate" /\ todo # <<>>
  BY DEF apply_relocation
<1>2. CASE phase' = "failed"
  BY <1>2 DEF PointerInv, Mapped
<1>3. CASE phase' # "failed"
  <2>1. PICK entry : entry = Head(todo)
    OBVIOUS
  <2>2. /\ IF entry.typ = 0 THEN UNCHANGED <<mem, prot>>
           ELSE mem' = [mem EXCEPT ![Target(entry)] = apply_one_reloc(mem[Target(entry)], entry.typ)]
        /\ todo' = Tail(todo) /\ phase' = "relocate"
    BY <1>1, <1>3, <2>1 DEF apply_relocation
  <2>3. phase \in Mapped /\ base \in Bases \cup {img.preferred} /\ Rebasing
        /\ Rest(Relocations(img), todo)
    BY <1>1 DEF PointerInv, Mapped, ProtInv
  <2>4. Relocations(img) \in Seq(RelocEntry)
    BY <2>3, MappedFacts DEF RelocatesSections
  <2>5. PICK done : done = Done(Relocations(img), todo)
    OBVIOUS
  <2>6. /\ Done(Relocations(img), todo') = done + 1 /\ done \in Nat
        /\ done + 1 \in DOMAIN Relocations(img) /\ entry = Relocations(img)[done + 1]
        /\ \A k \in DOMAIN Relocations(img) : k \in Nat
    BY <1>1, <2>1, <2>2, <2>3, <2>4, <2>5, RestTail
  <2>7. ASSUME NEW p \in Pointer, NEW k \in DOMAIN Relocations(img), Relocates(k, p)
        PROVE  mem'[p] = (IF k <= done + 1 THEN base ELSE img.preferred) + img.pointers[p]
    <3>1. /\ base \in Nat /\ img.preferred \in Nat /\ 2 ^ Width \in Nat \ {0}
          /\ img.pointers[p] \in Nat /\ p \in DOMAIN mem
          /\ base + img.pointers[p] < 2 ^ Width /\ img.preferred + img.pointers[p] < 2 ^ Width
      BY <2>3, PointerFacts
    <3>2. /\ Relocations(img)[k].typ = 10
          /\ \A j \in DOMAIN Relocations(img) : Relocates(j, p) => j = k
      BY <2>3, <2>7, PointerFacts
    <3>3. mem[p] = (IF k <= done THEN base ELSE img.preferred) + img.pointers[p]
      BY <2>3, <2>5, <2>7 DEF Rebasing
    <3>4. CASE k = done + 1
      <4>1. entry.typ = 10 /\ Target(entry) = p
        BY <2>6, <2>7, <3>2, <3>4 DEF Relocates
      <4>2. mem'[p] = apply_one_reloc(mem[p], 10)
        BY <2>2, <3>1, <4>1
      <4>3. mem[p] = img.preferred + img.pointers[p] /\ ~(k <= done) /\ k <= done + 1
        BY <2>6, <3>3, <3>4
      <4>4. delta \in Int /\ mem[p] \in Nat /\ mem[p] + delta = base + img.pointers[p]
        BY <3>1, <4>3 DEF delta
      <4>5. mem[p] + delta \in Nat
        BY <3>1, <4>4
      <4>6. apply_one_reloc(mem[p], 10) = mem[p] + delta
        BY <3>1, <4>3, <4>4, <4>5, MovesAddress
      <4> QED
        BY <4>2, <4>3, <4>4, <4>6
    <3>5. CASE k # done + 1
      <4>1. entry.typ # 0 => Target(entry) # p
        BY <2>6, <3>2, <3>5 DEF Relocates
      <4>2. mem'[p] = mem[p]
        BY <2>2, <3>1, <4>1
      <4>3. k <= done + 1 <=> k <= done
        BY <2>6, <3>5
      <4> QED
        BY <3>3, <4>2, <4>3
    <3> QED
      BY <3>4, <3>5
  <2>8. Pointer' = Pointer /\ Relocations(img)' = Relocations(img)
    BY <1>1 DEF Pointer, Relocations
  <2>9. \A p, k : Relocates(k, p)' <=> Relocates(k, p)
    BY <2>8 DEF Relocates
  <2>10. Rebasing'
    BY <1>1, <2>6, <2>7, <2>8, <2>9 DEF Rebasing
  <2> QED
    BY <1>1, <2>2, <2>3, <2>10 DEF PointerInv, Mapped
<1> QED
  BY <1>2, <1>3

\* Building the thunks leaves the image alone.
LEMMA BuildPointers ==
  ASSUME ProtInv, PointerInv, build_table
  PROVE  PointerInv'
<1>1. UNCHANGED <<img, base, mem>> /\ phase' \in {"bind", "failed"}
      /\ (phase = "build" \/ (phase = "relocate" /\ todo = <<>>))
  BY DEF build_table
<1>2. base \in Bases \cup {img.preferred} /\ phase \in Mapped
  BY <1>1 DEF PointerInv, Mapped
<1>3. Rebased
  <2>1. CASE phase = "build"
    BY <2>1 DEF PointerInv, Mapped
  <2>2. CASE phase = "relocate" /\ todo = <<>>
    <3>1. Relocations(img) \in Seq(RelocEntry) /\ Rest(Relocations(img), todo) /\ Rebasing
      BY <1>2, <2>2, MappedFacts DEF RelocatesSections, ProtInv, PointerInv
    <3>2. \A k \in DOMAIN Relocations(img) : k <= Done(Relocations(img), todo)
      BY <2>2, <3>1, RestNone
    <3>3. \A p \in Pointer : \E k \in DOMAIN Relocations(img) : Relocates(k, p)
      BY <1>2, PointerFacts
    <3> QED
      BY <3>1, <3>2, <3>3 DEF Rebased, Rebasing
  <2> QED
    BY <1>1, <2>1, <2>2
<1>4. Rebased'
  BY <1>1, <1>3 DEF Rebased, Pointer
<1> QED
  BY <1>1, <1>2, <1>4 DEF PointerInv, Mapped

\* setup_tls: the cell of the index is none that holds an address.
LEMMA TlsPointersStay ==
  ASSUME ProtInv, PointerInv, setup_tls
  PROVE  PointerInv'
<1>1. UNCHANGED <<img, base>> /\ phase = "tls" /\ phase' \in {"ready", "failed", "crashed"}
  BY DEF setup_tls
<1>2. phase \in Mapped /\ base \in Bases \cup {img.preferred} /\ Rebased
  BY <1>1 DEF PointerInv, Mapped
<1>3. \A p \in Pointer : mem'[p] = mem[p]
  <2>1. CASE mem' = mem
    BY <2>1
  <2>2. CASE mem' # mem
    <3>1. PICK dir \in read_tls_directory :
            img.tls # 0 /\ mem' = [mem EXCEPT ![Rva(dir.address_of_index)] = 0]
      BY <2>2 DEF setup_tls
    <3>2. img.tls + TlsDirSize <= size /\ dir.address_of_index = mem[img.tls + 2]
      <4>1. size \in Nat /\ img.tls \in Nat
        BY <1>2, MappedFacts, PointerFacts
      <4>2. ~(img.tls + TlsDirSize > size) /\ dir.address_of_index = mem[img.tls + 2]
        BY <3>1 DEF read_tls_directory
      <4> QED
        BY <4>1, <4>2 DEF TlsDirSize
    <3>3. SUFFICES ASSUME NEW p \in Pointer PROVE Rva(dir.address_of_index) # p
      BY <1>2, <3>1, PointerFacts
    <3>4. img.pointers # <<>>
      BY <3>3 DEF Pointer
    <3>5. img.tls + 2 \in Pointer /\ img.pointers[img.tls + 2] \notin Pointer
      BY <1>2, <3>1, <3>2, <3>4, MappedFacts DEF AddressesRelocated, Pointer
    <3>6. base \in Nat /\ img.pointers[img.tls + 2] \in Nat
      BY <1>2, <3>5, PointerFacts
    <3>7. dir.address_of_index = base + img.pointers[img.tls + 2]
      BY <1>2, <3>2, <3>5 DEF Rebased
    <3>8. Rva(dir.address_of_index) = img.pointers[img.tls + 2]
      BY <3>6, <3>7 DEF Rva, Minus, Larger
    <3> QED
      BY <3>3, <3>5, <3>8
  <2> QED
    BY <2>1, <2>2
<1>4. Rebased'
  BY <1>1, <1>2, <1>3 DEF Rebased, Pointer
<1> QED
  BY <1>1, <1>2, <1>4 DEF PointerInv, Mapped

\* The other steps leave the image's contents alone.
LEMMA OtherPointers ==
  ASSUME PointerInv,
         \/ protect_section \/ write_iat \/ seal_thunks \/ Stack_new
         \/ set_thread_gs_base \/ run_callback \/ run_entrypoint
  PROVE  PointerInv'
<1>1. UNCHANGED <<img, base, mem>>
  BY DEF protect_section, write_iat, seal_thunks, Stack_new, set_thread_gs_base, run_callback,
         run_entrypoint
<1>2. \/ phase = "protect" /\ phase' \in {"protect", "failed"}
      \/ /\ phase \in Mapped \ {"protect", "relocate"}
         /\ phase' \in (Mapped \ {"protect", "relocate"}) \cup {"failed", "crashed"}
  <2>1. CASE protect_section
    BY <2>1 DEF protect_section
  <2>2. CASE write_iat
    BY <2>2 DEF write_iat, Mapped
  <2>3. CASE seal_thunks
    BY <2>3 DEF seal_thunks, Mapped
  <2>4. CASE Stack_new \/ set_thread_gs_base
    BY <2>4 DEF Stack_new, set_thread_gs_base, Mapped
  <2>5. CASE run_callback \/ run_entrypoint
    BY <2>5 DEF run_callback, run_entrypoint, Execute, Mapped
  <2> QED
    BY <2>1, <2>2, <2>3, <2>4, <2>5
<1>3. Rebased => Rebased'
  BY <1>1 DEF Rebased, Pointer
<1>4. Pointer' = Pointer
  BY <1>1 DEF Pointer
<1> QED
  BY <1>1, <1>2, <1>3, <1>4 DEF PointerInv, Mapped

\* Every step of a load preserves the invariant of the addresses.
LEMMA NextPointers == ProtInv /\ PointerInv /\ [ImageNext]_imageVars => PointerInv'
<1>1. SUFFICES ASSUME ProtInv, PointerInv, [ImageNext]_imageVars PROVE PointerInv'
  OBVIOUS
<1>2. CASE UNCHANGED imageVars
  BY <1>1, <1>2 DEF imageVars, PointerInv, Rebased, Rebasing, Pointer, Relocates, Relocations
<1>3. ProtInv'
  BY <1>1, NextProt
<1> QED
  BY <1>1, <1>2, <1>3, MapImagePointers, BeginPointers, RelocatePointers, BuildPointers,
     TlsPointersStay, OtherPointers DEF ImageNext

(* Every address the linker put in the image is moved exactly once, at the   *)
(* preferred base and at any other the kernel may choose (apply_relocations, *)
(* apply_one_reloc), and storing the TLS index overwrites none.              *)
THEOREM ImagePointersRebased == ImageSpec => []PointersRebased
<1>1. ImageInit => PointerInv
  BY DEF ImageInit, PointerInv, Mapped
<1>2. PointerInv => PointersRebased
  BY DEF PointerInv, PointersRebased, Rebased, Pointer, Mapped
<1> QED
  BY <1>1, <1>2, InitProt, NextProt, NextPointers, PTL DEF ImageSpec
==============================================================================
