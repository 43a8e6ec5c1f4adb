------------------------------ MODULE D3D11Com ------------------------------
(***************************************************************************)
(* The COM interfaces a guest sees of the Direct3D 11 layer                *)
(* (crates/d3d11-com): the exports that create the objects, the slots of   *)
(* their vtables, and the reference counts.  The device keeps the          *)
(* context's pointer for GetImmediateContext and does not count it.        *)
(***************************************************************************)
EXTENDS D3D11, Functions

CONSTANT MaxRefs     \* bound: references a guest holds beyond the first, in all

VARIABLES
  ref       \* ref[o]: the reference count of interface pointer o

vars == <<vkVars, d3d11Vars, ref>>

Object == {"device", "context", "swapchain", "tex", "rtv", "buf", "Vertex", "Pixel", "state"}

Live(o) == ref[o] > 0
Extra == SumFunction([o \in Object |-> IF Live(o) THEN ref[o] - 1 ELSE 0])

Init == D3D11Init /\ ref = [o \in Object |-> 0]

-----------------------------------------------------------------------------
(* The exports *)

\* With a chain the handles are its image, the pool and the command buffer.
\* A step that fails drops what the others made.
d3d11_create_device_and_swap_chain ==
  /\ next = 1
  /\ Vk(3, {}, {})
  /\ back' = next /\ pool' = next + 1 /\ ctx' = NewContext(next + 2)
  /\ ref' = [ref EXCEPT !["device"] = 1, !["context"] = 1, !["swapchain"] = 1]
  /\ UNCHANGED <<orphans, tex, rtv, buf, shader, submits>>

d3d11_create_device ==
  /\ next = 1
  /\ Vk(2, {}, {})
  /\ pool' = next /\ ctx' = NewContext(next + 1)
  /\ ref' = [ref EXCEPT !["device"] = 1, !["context"] = 1]
  /\ UNCHANGED <<orphans, back, tex, rtv, buf, shader, submits>>

-----------------------------------------------------------------------------
(* The vtables *)

Counts(o) == ~Live(o) /\ ref' = [ref EXCEPT ![o] = 1]
NoCount == UNCHANGED ref

\* A texture that borrows the image; a chain whose resize failed has none.
swapchain_get_buffer ==
  /\ Live("swapchain") /\ back # Null /\ Counts("tex")
  /\ tex' = [kind |-> "texture", image |-> back, memory |-> Null]
  /\ UNCHANGED <<vkVars, pool, orphans, back, rtv, buf, shader, ctx, submits>>

\* The guest has let go of the buffers first, and nothing recorded names them
\* (the DXGI contract).  The old buffers are gone when their successors are made;
\* the error of that is logged.
swapchain_resize_buffers ==
  /\ Live("swapchain") /\ ~Live("tex") /\ ~Live("rtv")
  /\ ctx # None => back \notin ctx.uses
  /\ \/ Vk(1, {back} \ {Null}, {}) /\ back' = next
     \/ VkDestroy({back} \ {Null}) /\ back' = Null
  /\ NoCount
  /\ UNCHANGED <<pool, orphans, tex, rtv, buf, shader, ctx, submits>>

device_create_render_target_view == Live("tex") /\ Counts("rtv") /\ create_rtv
device_create_shader(stage) == Counts(stage) /\ create_shader(stage)
device_create_buffer ==
  \/ \E usage \in BufferUsage : Counts("buf") /\ create_buffer(usage)
  \/ \E k \in 1 .. 6 : ~Live("buf") /\ NoCount /\ create_buffer_failed(k)

\* Input layouts and the rasterizer, blend, depth and sampler states have
\* nothing behind them.
device_create_state == Counts("state") /\ UNCHANGED <<vkVars, d3d11Vars>>

\* com_add_ref on the pointer the device kept, for which it holds no reference.
\* Once the context was released that pointer is to freed memory: the count is
\* written there, and what a guest gets that goes on with it is undefined.
device_get_immediate_context ==
  /\ Live("device")
  /\ \/ Live("context") /\ Extra < MaxRefs /\ ref' = [ref EXCEPT !["context"] = @ + 1]
     \/ ~Live("context") /\ UNCHANGED ref
  /\ UNCHANGED <<vkVars, d3d11Vars>>

DeviceMethods ==
  /\ Live("device")
  /\ \/ device_create_render_target_view \/ device_create_buffer \/ device_create_state
     \/ \E stage \in Stage : device_create_shader(stage)

context_om_set_render_targets == Live("rtv") /\ om_set_render_targets
context_clear_render_target_view == Live("rtv") /\ clear_render_target_view
context_set_shader(stage) == Live(stage) /\ set_shader(stage)
context_ia_set_vertex_buffers == Live("buf") /\ ia_set_vertex_buffers
context_draw == \E indexed \in BOOLEAN : draw_internal(indexed)
context_flush == flush \/ flush_failed

ContextMethods ==
  /\ Live("context") /\ NoCount
  /\ \/ context_om_set_render_targets \/ context_clear_render_target_view
     \/ \E stage \in Stage : context_set_shader(stage)
     \/ context_ia_set_vertex_buffers \/ context_draw \/ context_flush

\* Methods of crates/d3d11 that no slot reaches.
NativeMethods ==
  /\ Live("device")
  /\ \/ ~Live("tex") /\ create_texture_2d /\ ref' = [ref EXCEPT !["tex"] = IF tex' = None THEN 0 ELSE 1]
     \/ Live("context") /\ Live("buf") /\ ia_set_index_buffer /\ UNCHANGED ref

-----------------------------------------------------------------------------
(* IUnknown *)

com_add_ref(o) ==
  /\ Live(o) /\ Extra < MaxRefs
  /\ ref' = [ref EXCEPT ![o] = @ + 1]
  /\ UNCHANGED <<vkVars, d3d11Vars>>

Drop(o) ==
  CASE o = "device" -> drop_device(Live("context"))
    [] o = "context" -> drop_context(Live("device"))
    [] o = "swapchain" ->
         VkDestroy({back} \ {Null}) /\ back' = Null
           /\ UNCHANGED <<pool, orphans, tex, rtv, buf, shader, ctx, submits>>
    [] o = "tex" -> drop_texture
    [] o = "rtv" -> drop_rtv
    [] o = "buf" -> drop_buffer
    [] o \in Stage -> drop_shader(o)
    [] OTHER -> UNCHANGED <<vkVars, d3d11Vars>>

\* What the guest keeps.  Neither a binding nor a view counts as a reference, so
\* what is bound, recorded or viewed is released after the context or the view.
Uses(image) == (ctx # None /\ image \in ctx.uses) \/ (rtv # None /\ rtv.image = image)
Needed(o) ==
  CASE o \in Stage -> ctx # None /\ ctx.bound[o] # Null
    [] o = "buf" -> ctx # None /\ buf.buffer \in {ctx.vertex_buffer, ctx.index_buffer}
    [] o = "tex" -> Uses(tex.image)
    [] o = "swapchain" -> Uses(back) \/ (tex # None /\ tex.image = back)
    [] OTHER -> FALSE

com_release(o) ==
  /\ Live(o) /\ ~Needed(o)
  /\ ref' = [ref EXCEPT ![o] = @ - 1]
  /\ IF ref[o] = 1 THEN Drop(o) ELSE UNCHANGED <<vkVars, d3d11Vars>>
 

\* A guest that is about to draw: a device with a chain, a view of its buffer,
\* both shaders, bound; what Init reaches without an error.
Prepared ==
  /\ live = 1 .. 6 /\ next = 7 /\ twice = {} /\ leaked = {}
  /\ back = 1 /\ pool = 2 /\ orphans = {}
  /\ tex = [kind |-> "texture", image |-> 1, memory |-> Null]
  /\ rtv = [kind |-> "rtv", view |-> 4, image |-> 1]
  /\ buf = None
  /\ shader = [s \in Stage |-> IF s = "Vertex" THEN 5 ELSE 6]
  /\ ctx = [NewContext(3) EXCEPT !.bound = shader]
  /\ submits = {}
  /\ ref = [o \in Object |-> IF o \in {"buf", "state"} THEN 0 ELSE 1]

\* Everything but the recording of frames.
ObjectMethods ==
  \/ d3d11_create_device_and_swap_chain \/ d3d11_create_device
  \/ swapchain_get_buffer \/ swapchain_resize_buffers
  \/ DeviceMethods \/ NativeMethods \/ device_get_immediate_context
  \/ NoCount /\ Live("context") /\ context_om_set_render_targets
  \/ \E o \in Object : com_add_ref(o) \/ com_release(o)

Next == ObjectMethods \/ ContextMethods

Spec == Init /\ [][Next]_vars

-----------------------------------------------------------------------------
(* Properties *)

TypeOK ==
  /\ VkTypeOK
  /\ ref \in [Object -> Nat]
  /\ orphans \subseteq live
  /\ submits \subseteq BOOLEAN

\* No Vulkan handle is destroyed twice, in whatever order a guest binds,
\* resizes and releases and wherever a call fails.
DestroyedOnce == twice = {}

\* When the guest has given back every pointer, all that is left of the
\* device's handles is what failed calls left.
NothingElseOutlivesDevice == (\A o \in Object : ref[o] = 0) => live = leaked

\* What stands behind a live pointer is alive; the context's buffer and the
\* pool it came from also after the guest has released the device.
PointersReachLiveHandles ==
  /\ Live("context") => {pool, ctx.command_buffer} \cup ctx.target \subseteq live
  /\ Live("device") => pool \in live
  /\ Live("rtv") => rtv.view \in live
  /\ Live("buf") => {buf.buffer, buf.memory} \subseteq live
  /\ \A s \in Stage : Live(s) => shader[s] \in live

\* begin_recording: "the primary command buffer is not currently recording; we
\* reset it each frame".  Commands go into a buffer that is recording, from one
\* frame to the next, unless a flush has failed.
RecordedWhileRecording == ctx # None /\ ctx.misplaced => ctx.failed

\* What Flush submits names live handles only: what a draw made for its commands
\* is kept until then ("tear them down at flush").
SubmitsExecutable == FALSE \notin submits
=============================================================================
