-------------------------------- MODULE D3D11 --------------------------------
(***************************************************************************)
(* The Direct3D 11 layer (crates/d3d11): a device with one command pool,   *)
(* textures, views, shaders, buffers, and the immediate context, which     *)
(* records into one command buffer until Flush submits it.  The driver's   *)
(* side is the state of that buffer and the handles its commands name.     *)
(* Bindings are copies of handles: nothing keeps what is bound alive.      *)
(***************************************************************************)
EXTENDS VulkanHandles

VARIABLES
  pool,     \* the device's command pool, Null without a device
  orphans,  \* command buffers a failed upload left in the pool
  back,     \* the swap chain's back buffer, Null without a chain
  tex,      \* the texture: an image, with memory when it is not borrowed
  rtv,      \* the render-target view
  buf,      \* the buffer
  shader,   \* shader[stage]: the module
  ctx,      \* the immediate context
  submits   \* history: for each submission, whether the buffer was executable

d3d11Vars == <<pool, orphans, back, tex, rtv, buf, shader, ctx, submits>>

None == [kind |-> "none"]
Stage == {"Vertex", "Pixel"}
BufferUsage == {"Vertex", "Index", "Constant"}
NoShader == [s \in Stage |-> Null]

D3D11Init ==
  /\ VkInit
  /\ pool = Null /\ orphans = {} /\ back = Null
  /\ tex = None /\ rtv = None /\ buf = None
  /\ shader = NoShader
  /\ ctx = None
  /\ submits = {}

-----------------------------------------------------------------------------
(* Device *)

\* Image and memory; an error after the first or the second call leaves them.
create_texture_2d ==
  /\ tex = None
  /\ \/ /\ Vk(2, {}, {})
        /\ tex' = [kind |-> "texture", image |-> next, memory |-> next + 1]
     \/ (VkLeak(1) \/ VkLeak(2)) /\ UNCHANGED tex
  /\ UNCHANGED <<pool, orphans, back, rtv, buf, shader, ctx, submits>>

create_rtv ==
  /\ tex # None
  /\ Vk(1, {}, {})
  /\ rtv' = [kind |-> "rtv", view |-> next, image |-> tex.image]
  /\ UNCHANGED <<pool, orphans, back, tex, buf, shader, ctx, submits>>

create_shader(stage) ==
  /\ Vk(1, {}, {})
  /\ shader' = [shader EXCEPT ![stage] = next]
  /\ UNCHANGED <<pool, orphans, back, tex, rtv, buf, ctx, submits>>

\* Buffer and memory.  The staging buffer, its memory, the command buffer and
\* the fence of upload_to_device_local are gone on return.
create_buffer(usage) ==
  /\ Vk(2, {}, {})
  /\ buf' = [kind |-> "buffer", buffer |-> next, memory |-> next + 1, usage |-> usage]
  /\ UNCHANGED <<pool, orphans, back, tex, rtv, shader, ctx, submits>>

\* The first k of buffer, memory, staging buffer, staging memory, command buffer
\* and fence exist when a call fails, and stay; the command buffer is the pool's.
create_buffer_failed(k) ==
  /\ Vk(k, {}, (next .. (next + k - 1)) \ {next + 4})
  /\ orphans' = IF k >= 5 THEN orphans \cup {next + 4} ELSE orphans
  /\ UNCHANGED <<pool, back, tex, rtv, buf, shader, ctx, submits>>

-----------------------------------------------------------------------------
(* The immediate context *)

NewContext(cmd) ==
  [kind |-> "context", command_buffer |-> cmd, target |-> {}, bound |-> NoShader,
   vertex_buffer |-> Null, index_buffer |-> Null, recording |-> FALSE, drew |-> FALSE,
   buffer |-> "initial", uses |-> {}, failed |-> FALSE, misplaced |-> FALSE]

begin_recording(c) ==
  IF c.recording THEN c ELSE [c EXCEPT !.recording = TRUE, !.buffer = "recording", !.uses = {}]

\* A command goes into the buffer, whatever state that is in.
Record(c, handles) ==
  [c EXCEPT !.uses = @ \cup handles, !.misplaced = @ \/ c.buffer # "recording"]

Began == begin_recording(ctx)

OldTarget == ctx.target

\* The last target is destroyed, then a render pass and a framebuffer are made;
\* when the framebuffer fails the render pass is left.
om_set_render_targets ==
  /\ rtv # None
  /\ \/ Vk(2, OldTarget, {}) /\ ctx' = [Began EXCEPT !.target = {next, next + 1}]
     \/ Vk(0, OldTarget, {}) /\ ctx' = [Began EXCEPT !.target = {}]
     \/ Vk(1, OldTarget, {next}) /\ ctx' = [Began EXCEPT !.target = {}]
  /\ UNCHANGED <<pool, orphans, back, tex, rtv, buf, shader, submits>>

clear_render_target_view ==
  /\ rtv # None
  /\ ctx' = Record(Began, {rtv.image})
  /\ UNCHANGED <<vkVars, pool, orphans, back, tex, rtv, buf, shader, submits>>

\* vs_set_shader, ps_set_shader: the module's handle is copied.
set_shader(stage) ==
  /\ shader[stage] # Null
  /\ ctx' = [ctx EXCEPT !.bound[stage] = shader[stage]]
  /\ UNCHANGED <<vkVars, pool, orphans, back, tex, rtv, buf, shader, submits>>

\* A buffer of another usage is ignored.
ia_set_vertex_buffers ==
  /\ buf # None /\ buf.usage = "Vertex"
  /\ ctx' = [ctx EXCEPT !.vertex_buffer = buf.buffer]
  /\ UNCHANGED <<vkVars, pool, orphans, back, tex, rtv, buf, shader, submits>>

ia_set_index_buffer ==
  /\ buf # None /\ buf.usage = "Index"
  /\ ctx' = [ctx EXCEPT !.index_buffer = buf.buffer]
  /\ UNCHANGED <<vkVars, pool, orphans, back, tex, rtv, buf, shader, submits>>

\* The pipeline is a handle of its own; its layout is destroyed before the draw.
build_pipeline(c) == {next} \cup c.target

\* draw and draw_indexed.  Without a target or a shader, or when the pipeline
\* fails, only the recording has begun.  The pipeline is destroyed on return.
draw_internal(indexed) ==
  /\ \/ /\ ctx.target # {} /\ \A s \in Stage : ctx.bound[s] # Null
        /\ next <= MaxHandles
        /\ next' = next + 1
        /\ ctx' = [Record(Began, build_pipeline(ctx)
                     \cup ({ctx.vertex_buffer, IF indexed THEN ctx.index_buffer ELSE Null} \ {Null}))
                     EXCEPT !.drew = TRUE]
     \/ ctx' = Began /\ UNCHANGED next
  /\ UNCHANGED <<live, twice, leaked, pool, orphans, back, tex, rtv, buf, shader, submits>>

\* A mutated form: the flag of the frame is not taken back.
AfterFlush_Recording(c) == [c EXCEPT !.drew = FALSE, !.buffer = "initial", !.uses = {}]
AfterFlush(c) ==
  [c EXCEPT !.recording = FALSE, !.drew = FALSE, !.buffer = "initial", !.uses = {}]

flush ==
  /\ ctx.recording
  /\ ctx.buffer = "recording"
  /\ submits' = submits \cup {ctx.uses \subseteq live}
  /\ ctx' = AfterFlush(ctx)
  /\ UNCHANGED <<vkVars, pool, orphans, back, tex, rtv, buf, shader>>

\* An error returns with `recording` set: at the end of the buffer or at the
\* fence, or with the fence left behind, at the submission or the wait.
flush_failed ==
  /\ ctx.recording
  /\ \/ \E b \in {"invalid", "executable"} :
          ctx' = [ctx EXCEPT !.buffer = b, !.failed = TRUE] /\ UNCHANGED vkVars
     \/ \E b \in {"executable", "pending"} :
          ctx' = [ctx EXCEPT !.buffer = b, !.failed = TRUE] /\ VkLeak(1)
  /\ UNCHANGED <<pool, orphans, back, tex, rtv, buf, shader, submits>>

-----------------------------------------------------------------------------
(* Destructors *)

\* The Arc<Device> is held by the device's pointer and by the context.
DropPool(held) == IF held THEN {} ELSE {pool} \cup orphans

drop_device(contextLives) ==
  LET D == DropPool(contextLives)
  IN /\ VkDestroy(D)
     /\ pool' = IF D = {} THEN pool ELSE Null
     /\ orphans' = IF D = {} THEN orphans ELSE {}
     /\ UNCHANGED <<back, tex, rtv, buf, shader, ctx, submits>>

drop_context(deviceLives) ==
  LET D == DropPool(deviceLives)
  IN /\ VkDestroy(ctx.target \cup {ctx.command_buffer} \cup D)
     /\ pool' = IF D = {} THEN pool ELSE Null
     /\ orphans' = IF D = {} THEN orphans ELSE {}
     /\ ctx' = None
     /\ UNCHANGED <<back, tex, rtv, buf, shader, submits>>

\* A mutated form: the borrowed image goes with its texture.
drop_texture_Borrowed ==
  /\ VkDestroy({tex.image, tex.memory} \ {Null})
  /\ tex' = None
  /\ UNCHANGED <<pool, orphans, back, rtv, buf, shader, ctx, submits>>

\* An image borrowed from the swap chain is not destroyed.
drop_texture ==
  /\ VkDestroy(IF tex.memory = Null THEN {} ELSE {tex.image, tex.memory})
  /\ tex' = None
  /\ UNCHANGED <<pool, orphans, back, rtv, buf, shader, ctx, submits>>

drop_rtv ==
  /\ VkDestroy({rtv.view})
  /\ rtv' = None
  /\ UNCHANGED <<pool, orphans, back, tex, buf, shader, ctx, submits>>

drop_shader(stage) ==
  /\ VkDestroy({shader[stage]})
  /\ shader' = [shader EXCEPT ![stage] = Null]
  /\ UNCHANGED <<pool, orphans, back, tex, rtv, buf, ctx, submits>>

drop_buffer ==
  /\ VkDestroy({buf.buffer, buf.memory})
  /\ buf' = None
  /\ UNCHANGED <<pool, orphans, back, tex, rtv, shader, ctx, submits>>
=============================================================================
