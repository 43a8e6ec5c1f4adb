----------------------------- MODULE MCGraphics -----------------------------
(***************************************************************************)
(* The graphics layers under one model check: the DXGI swap chain, and the *)
(* Direct3D 11 and 12 devices behind their COM interfaces.  They meet only *)
(* in the Vulkan device, so a behaviour exercises one of them; of each     *)
(* device either the life of its objects, from nothing, or the work of its *)
(* context or lists, from a guest that has created what it needs.          *)
(***************************************************************************)
EXTENDS Integers, Sequences

CONSTANTS
  BufferCount, ChainHandles,        \* the swap chain and its bound
  Objects11, Frames11,              \* bounds: handles of the D3D11 foci
  Objects12, Lists12,               \* bounds: handles of the D3D12 foci
  Resource, List, Allocator, State, \* slots and states of the D3D12 objects
  r1, l1, l2, a1,                   \* the ones a D3D12 guest has when it starts its work
  MaxCommands, MaxRefs

ASSUME GraphicsAssumption ==
  /\ BufferCount \in Nat \ {0}
  /\ {ChainHandles, Objects11, Frames11, Objects12, Lists12, MaxCommands, MaxRefs} \subseteq Nat
  /\ Objects11 <= Frames11 /\ Objects12 <= Lists12
  /\ 6 <= Frames11 /\ 10 <= Lists12    \* the handles of the guests that start with some

ASSUME SlotAssumption ==
  /\ Resource \cap List = {} /\ Resource \cap Allocator = {} /\ List \cap Allocator = {}
  /\ (Resource \cup List \cup Allocator) \cap {"heap", "queue", "device", "root", "pso"} = {}
  /\ r1 \in Resource /\ {l1, l2} \subseteq List /\ l1 # l2 /\ a1 \in Allocator

VARIABLES
  focus,
  sc, sc_job, sc_live, sc_destroys, sc_next, sc_device, sc_headless, sc_leaked,
  x_live, x_next, x_twice, x_leaked, x_pool, x_orphans, x_back, x_tex, x_rtv, x_buf,
  x_shader, x_ctx, x_submits, x_ref,
  y_live, y_next, y_twice, y_leaked, y_res, y_heap, y_root, y_pso, y_pool, y_list,
  y_cb, y_layout, y_state, y_dangling, y_ref

Chain == INSTANCE SwapChain WITH
  MaxHandles <- ChainHandles, job <- sc_job, live <- sc_live, destroys <- sc_destroys,
  next <- sc_next, device <- sc_device, headless <- sc_headless, leaked <- sc_leaked
D11 == INSTANCE D3D11Com WITH
  MaxHandles <- Frames11, live <- x_live, next <- x_next, twice <- x_twice,
  leaked <- x_leaked, pool <- x_pool, orphans <- x_orphans, back <- x_back, tex <- x_tex,
  rtv <- x_rtv, buf <- x_buf, shader <- x_shader, ctx <- x_ctx, submits <- x_submits,
  ref <- x_ref
D12 == INSTANCE D3D12Com WITH
  MaxHandles <- Lists12,
  live <- y_live, next <- y_next, twice <- y_twice, leaked <- y_leaked, res <- y_res,
  heap <- y_heap, root <- y_root, pso <- y_pso, pool <- y_pool, list <- y_list,
  cb <- y_cb, layout <- y_layout, state <- y_state,   dangling <- y_dangling, ref <- y_ref

chainVars == <<sc, sc_job, sc_live, sc_destroys, sc_next, sc_device, sc_headless, sc_leaked>>
d11Vars ==
  <<x_live, x_next, x_twice, x_leaked, x_pool, x_orphans, x_back, x_tex, x_rtv, x_buf,
    x_shader, x_ctx, x_submits, x_ref>>
d12Vars ==
  <<y_live, y_next, y_twice, y_leaked, y_res, y_heap, y_root, y_pso, y_pool, y_list,
    y_cb, y_layout, y_state, y_dangling, y_ref>>
vars == <<focus, chainVars, d11Vars, d12Vars>>

Init ==
  /\ focus \in {"chain", "objects11", "frames11", "objects12", "pipelines12", "lists12"}
  /\ Chain!Init
  /\ IF focus = "frames11" THEN D11!Prepared ELSE D11!Init
  /\ IF focus = "lists12" THEN D12!Prepared(r1, l1, l2, a1) ELSE D12!Init

ChainNext == focus = "chain" /\ Chain!Next /\ UNCHANGED <<focus, d11Vars, d12Vars>>

Objects11Next ==
  /\ focus = "objects11" /\ D11!ObjectMethods /\ x_next' <= Objects11 + 1
  /\ UNCHANGED <<focus, chainVars, d12Vars>>

Frames11Next ==
  /\ focus = "frames11" /\ D11!ContextMethods
  /\ UNCHANGED <<focus, chainVars, d12Vars>>

Objects12Next ==
  /\ focus = "objects12"
  /\ D12!DeviceMethods \/ D12!Counting \/ D12!Resets \/ D12!cmdlist_close(l1)
  /\ y_next' <= Objects12 + 1 /\ y_ref'[l2] = 0
  /\ UNCHANGED <<focus, chainVars, d11Vars>>

Pipelines12Next ==
  /\ focus = "pipelines12"
  /\ D12!NativeMethods \/ D12!device_create_committed_resource(r1)
  /\ y_next' <= Objects12 + 1
  /\ UNCHANGED <<focus, chainVars, d11Vars>>

Lists12Next ==
  /\ focus = "lists12"
  /\ D12!ListMethods \/ D12!Execute \/ D12!Resets
  /\ UNCHANGED <<focus, chainVars, d11Vars>>

Next ==
  \/ ChainNext \/ Objects11Next \/ Frames11Next
  \/ Objects12Next \/ Pipelines12Next \/ Lists12Next

Spec == Init /\ [][Next]_vars

-----------------------------------------------------------------------------
(* The properties, stated in the layers' modules. *)

\* No Vulkan handle is destroyed twice, in whatever order a guest creates, binds,
\* resets, resizes and releases and whichever call fails on the way; but for the
\* buffer a failed reset leaves in its list.  (With the types of every layer.)
DestroyedOnce ==
  /\ Chain!TypeOK /\ D11!TypeOK /\ D12!TypeOK
  /\ Chain!DestroyedOnce /\ D11!DestroyedOnce /\ D12!DestroyedOnce

\* When a device goes, every handle created from it is gone but those that a
\* failed creation left behind.
NothingElseOutlivesDevice ==
  /\ Chain!NothingElseOutlivesDevice
  /\ D11!NothingElseOutlivesDevice
  /\ D12!NothingElseOutlivesDevice

\* What stands behind a pointer the guest holds is alive: a swapchain's surface,
\* a context's or a list's buffer and the pool it came from, a view, a resource.
PointersReachLiveHandles ==
  /\ Chain!SurfaceOutlivesSwapchain
  /\ D11!PointersReachLiveHandles
  /\ D12!PointersReachLiveHandles

\* D3D11: commands go into a buffer that is recording unless a flush has failed.
RecordedWhileRecording == D11!RecordedWhileRecording

\* D3D11: what Flush submits names live handles only ("tear them down at flush").
SubmitsExecutable == D11!SubmitsExecutable

\* D3D12: an image is in the layout of the state its guest knows it to be in.
LayoutIsState == D12!LayoutIsState
=============================================================================
