-------------------------------- MODULE D3D12 --------------------------------
(***************************************************************************)
(* The Direct3D 12 layer (crates/d3d12): committed resources, one RTV      *)
(* descriptor heap, root signature and pipeline state, command allocators, *)
(* command lists, the queue.  An object is a slot that is empty or holds   *)
(* the Vulkan handles the Rust value owns.  A creation makes several       *)
(* Vulkan calls, each of which may fail; what a failure leaves behind is   *)
(* part of the step.  The driver's side is modelled as far as the layer    *)
(* relies on it: the contents of a command buffer, whether it was          *)
(* submitted, and the layout every image is in.                            *)
(***************************************************************************)
EXTENDS VulkanHandles, Sequences, Functions

CONSTANTS
  Resource, List, Allocator,   \* slots for objects
  State,        \* inputs: the resource states a guest names
  MaxCommands   \* bound: commands in all command buffers together

VARIABLES
  res,      \* res[r]: the resource
  heap,     \* slot 0 of the descriptor heap: the RTV, or Empty
  root,     \* the root signature's layout, Null without one
  pso,      \* the pipeline state
  pool,     \* pool[a]: the allocator's command pool, Null when it is dropped
  list,     \* list[l]: the command list
  cb,       \* cb[h]: what command buffer h holds
  layout,   \* layout[h]: the layout image h is in
  state,    \* state[h]: the D3D12 state its guest knows image h to be in
  dangling  \* history: freed buffers that a failed reset left in their list

d3d12Vars ==
  <<res, heap, root, pso, pool, list, cb, layout, state, dangling>>

None == [kind |-> "none"]
Empty == [view |-> Null, image |-> Null]
NoPso == [pipeline |-> Null, render_pass |-> Null]

D3D12Init ==
  /\ VkInit
  /\ res = [r \in Resource |-> None]
  /\ heap = Empty
  /\ root = Null
  /\ pso = None
  /\ pool = [a \in Allocator |-> Null]
  /\ list = [l \in List |-> None]
  /\ cb = <<>>
  /\ layout = <<>>
  /\ state = <<>>
  /\ dangling = {}

-----------------------------------------------------------------------------
(* ResourceStates *)

vk_image_layout(s) ==
  CASE s \in {"Common", "GenericRead"} -> "GENERAL"
    [] s = "Present" -> "PRESENT_SRC"
    [] s = "RenderTarget" -> "COLOR_ATTACHMENT"
    [] s = "CopyDest" -> "TRANSFER_DST"
    [] s = "CopySource" -> "TRANSFER_SRC"
    [] s = "Undefined" -> "UNDEFINED"

-----------------------------------------------------------------------------
(* Resources *)

\* What is kept for each handle, with a new handle and without some.
With(f, new, v) == [h \in DOMAIN f \cup {new} |-> IF h = new THEN v ELSE f[h]]
Without(f, S) == [h \in DOMAIN f \ S |-> f[h]]

\* Image and memory; an error after the first or the second call leaves them.
\* The image starts UNDEFINED whatever state the guest asked for.
create_committed_image(r, s) ==
  /\ Vk(2, {}, {})
  /\ res' = [res EXCEPT ![r] = [kind |-> "image", handle |-> next, memory |-> next + 1,
                                host_visible |-> FALSE, mapped |-> FALSE]]
  /\ layout' = With(layout, next, "UNDEFINED")
  /\ state' = With(state, next, s)
  /\ UNCHANGED <<heap, root, pso, pool, list, cb, dangling>>

create_committed_buffer(r, host_visible) ==
  /\ Vk(2, {}, {})
  /\ res' = [res EXCEPT ![r] = [kind |-> "buffer", handle |-> next, memory |-> next + 1,
                                host_visible |-> host_visible, mapped |-> FALSE]]
  /\ UNCHANGED <<heap, root, pso, pool, list, cb, layout, state, dangling>>

\* find_memory_type or allocate_memory fails, or the bind does.
create_committed_failed ==
  /\ VkLeak(1) \/ VkLeak(2)
  /\ UNCHANGED d3d12Vars

map(r) ==
  /\ res[r] # None /\ res[r].host_visible /\ ~res[r].mapped
  /\ res' = [res EXCEPT ![r].mapped = TRUE]
  /\ UNCHANGED <<vkVars, heap, root, pso, pool, list, cb, layout, state, dangling>>

unmap(r) ==
  /\ res[r] # None /\ res[r].mapped
  /\ res' = [res EXCEPT ![r].mapped = FALSE]
  /\ UNCHANGED <<vkVars, heap, root, pso, pool, list, cb, layout, state, dangling>>

drop_resource(r) ==
  /\ VkDestroy({res[r].handle, res[r].memory})
  /\ layout' = Without(layout, {res[r].handle})
  /\ state' = Without(state, {res[r].handle})
  /\ res' = [res EXCEPT ![r] = None]
  /\ UNCHANGED <<heap, root, pso, pool, list, cb, dangling>>

-----------------------------------------------------------------------------
(* The RTV heap, root signature and pipeline state *)

\* A mutated form: the view that was in the slot is overwritten.
create_render_target_view_Forgets(r) ==
  /\ res[r] # None /\ res[r].kind = "image"
  /\ Vk(1, {}, {})
  /\ heap' = [view |-> next, image |-> res[r].handle]
  /\ UNCHANGED <<res, root, pso, pool, list, cb, layout, state, dangling>>

\* The new view is made first; the one in the slot is destroyed.
create_render_target_view(r) ==
  /\ res[r] # None /\ res[r].kind = "image"
  /\ Vk(1, {heap.view} \ {Null}, {})
  /\ heap' = [view |-> next, image |-> res[r].handle]
  /\ UNCHANGED <<res, root, pso, pool, list, cb, layout, state, dangling>>

drop_heap ==
  /\ VkDestroy({heap.view} \ {Null})
  /\ heap' = Empty
  /\ UNCHANGED <<res, root, pso, pool, list, cb, layout, state, dangling>>

create_root_signature ==
  /\ root = Null
  /\ Vk(1, {}, {})
  /\ root' = next
  /\ UNCHANGED <<res, heap, pso, pool, list, cb, layout, state, dangling>>

drop_root_signature ==
  /\ root # Null
  /\ VkDestroy({root})
  /\ root' = Null
  /\ UNCHANGED <<res, heap, pso, pool, list, cb, layout, state, dangling>>

\* make_render_pass, the shader module, the layout (the root signature's, or
\* one of its own), the pipeline.
create_pipeline_state ==
  /\ pso = None
  /\ \E own \in IF root = Null THEN {TRUE} ELSE BOOLEAN :
       /\ Vk(IF own THEN 4 ELSE 3, {}, {})
       /\ pso' = [kind |-> "pso", render_pass |-> next, module |-> next + 1,
                  pipeline |-> next + 2, own |-> IF own THEN {next + 3} ELSE {}]
  /\ UNCHANGED <<res, heap, root, pool, list, cb, layout, state, dangling>>

\* A failed pipeline is torn down; a failure before it leaves the render pass
\* (a shader module fails) or that and the module (the layout fails).
create_pipeline_state_failed ==
  /\ pso = None
  /\ VkLeak(1) \/ VkLeak(2)
  /\ UNCHANGED d3d12Vars

drop_pipeline_state ==
  /\ pso # None
  /\ VkDestroy({pso.pipeline, pso.render_pass, pso.module} \cup pso.own)
  /\ pso' = None
  /\ UNCHANGED <<res, heap, root, pool, list, cb, layout, state, dangling>>

-----------------------------------------------------------------------------
(* Allocators and lists *)

\* The Arc: the pool goes with the allocator's last holder, an interface
\* pointer (held) or a list.
PoolUser(a, held, ls) == held \/ \E l \in List : ls[l] # None /\ ls[l].allocator = a

\* A mutated form: the pool goes when the allocator object does.
DropPool_Early(a, held, ls) == IF held THEN {} ELSE {pool[a]} \ {Null}
DropPool(a, held, ls) == IF PoolUser(a, held, ls) THEN {} ELSE {pool[a]} \ {Null}

create_command_allocator(a) ==
  /\ Vk(1, {}, {})
  /\ pool' = [pool EXCEPT ![a] = next]
  /\ UNCHANGED <<res, heap, root, pso, list, cb, layout, state, dangling>>

Recording == [commands |-> <<>>, spent |-> FALSE]
\* Submitted (the buffers are ONE_TIME_SUBMIT), reset with its pool or never begun:
\* not to be executed until it is recorded anew.
Spent(c) == [c EXCEPT !.spent = TRUE]
Target(l) == list[l].target

create_command_list(l, a) ==
  /\ Vk(1, {}, {})
  /\ list' = [list EXCEPT ![l] = [kind |-> "list", allocator |-> a, command_buffer |-> next,
                                  target |-> Empty, pipeline |-> NoPso,
                                  recording |-> TRUE, closed |-> FALSE]]
  /\ cb' = With(cb, next, Recording)
  /\ UNCHANGED <<res, heap, root, pso, pool, layout, state, dangling>>

\* The buffer was allocated and begin_command_buffer failed.
create_command_list_failed ==
  /\ VkLeak(1)
  /\ UNCHANGED d3d12Vars

\* A guest drops a list whose reset failed.
Usable(l) == list[l] # None /\ list[l].command_buffer \in DOMAIN cb

require_recording(l) == Usable(l) /\ ~list[l].closed /\ list[l].recording

\* end_command_buffer may fail, which leaves the list as it was.
close(l) ==
  /\ require_recording(l)
  /\ list' = [list EXCEPT ![l].recording = FALSE, ![l].closed = TRUE]
  /\ UNCHANGED <<vkVars, res, heap, root, pso, pool, cb, layout, state, dangling>>

\* The old buffer goes back to the old pool, a new one comes from a's; the list
\* lets go of the old allocator.
reset(l, a, held) ==
  LET ls == [list EXCEPT ![l] = [@ EXCEPT !.allocator = a, !.command_buffer = next,
                                 !.target = Empty, !.pipeline = NoPso,
                                 !.recording = TRUE, !.closed = FALSE]]
      old == list[l].allocator
      dropped == DropPool(old, held, ls)
  IN /\ Usable(l)
     /\ Vk(1, {list[l].command_buffer} \cup dropped, {})
     /\ list' = ls
     /\ pool' = [pool EXCEPT ![old] = IF dropped = {} THEN @ ELSE Null]
     /\ cb' = With(Without(cb, {list[l].command_buffer}), next, Recording)
     /\ UNCHANGED <<res, heap, root, pso, layout, state, dangling>>

\* The old buffer is freed, then allocate_command_buffers fails: the list keeps
\* the freed handle, under the new allocator.
reset_failed(l, a, held) ==
  LET ls == [list EXCEPT ![l].allocator = a]
      old == list[l].allocator
      dropped == DropPool(old, held, ls)
  IN /\ Usable(l)
     /\ VkDestroy({list[l].command_buffer} \cup dropped)
     /\ list' = ls
     /\ pool' = [pool EXCEPT ![old] = IF dropped = {} THEN @ ELSE Null]
     /\ cb' = Without(cb, {list[l].command_buffer})
     /\ dangling' = dangling \cup {list[l].command_buffer}
     /\ UNCHANGED <<res, heap, root, pso, layout, state>>

\* The new buffer is in place when begin_command_buffer fails: it holds nothing
\* and is not recording, while the flags and bindings are those of the old one.
reset_not_begun(l, a, held) ==
  LET ls == [list EXCEPT ![l] = [@ EXCEPT !.allocator = a, !.command_buffer = next]]
      old == list[l].allocator
      dropped == DropPool(old, held, ls)
  IN /\ Usable(l)
     /\ Vk(1, {list[l].command_buffer} \cup dropped, {})
     /\ list' = ls
     /\ pool' = [pool EXCEPT ![old] = IF dropped = {} THEN @ ELSE Null]
     /\ cb' = With(Without(cb, {list[l].command_buffer}), next, Spent(Recording))
     /\ UNCHANGED <<res, heap, root, pso, layout, state, dangling>>

\* CommandAllocator::reset: the buffers of the pool are empty again and not recorded.
reset_allocator(a) ==
  /\ pool[a] # Null
  /\ cb' = [h \in DOMAIN cb |->
              IF \E l \in List : list[l] # None /\ list[l].allocator = a
                                 /\ list[l].command_buffer = h
                THEN Spent(Recording) ELSE cb[h]]
  /\ UNCHANGED <<vkVars, res, heap, root, pso, pool, list, layout, state, dangling>>

set_pipeline_state(l) ==
  /\ Usable(l) /\ pso # None
  /\ list' = [list EXCEPT ![l].pipeline = [pipeline |-> pso.pipeline,
                                           render_pass |-> pso.render_pass]]
  /\ UNCHANGED <<vkVars, res, heap, root, pso, pool, cb, layout, state, dangling>>

\* The handles in the descriptor are copied.
set_render_targets(l) ==
  /\ Usable(l) /\ heap # Empty
  /\ list' = [list EXCEPT ![l].target = heap]
  /\ UNCHANGED <<vkVars, res, heap, root, pso, pool, cb, layout, state, dangling>>

Record(l, c) ==
  /\ SumFunction([h \in DOMAIN cb |-> Len(cb[h].commands)]) < MaxCommands
  /\ cb' = [cb EXCEPT ![list[l].command_buffer].commands = Append(@, c)]

\* A mutated form: the transition back is left out.
ClearLayout_NoReturn == "TRANSFER_DST"
\* UNDEFINED -> TRANSFER_DST, clear, -> COLOR_ATTACHMENT.
ClearLayout == "COLOR_ATTACHMENT"

clear_render_target_view(l) ==
  /\ require_recording(l) /\ heap # Empty
  /\ Record(l, [op |-> "clear", image |-> heap.image, before |-> "RenderTarget",
                after |-> "RenderTarget", uses |-> {heap.image}])
  /\ UNCHANGED <<vkVars, res, heap, root, pso, pool, list, layout, state, dangling>>

\* A barrier on a buffer changes no layout.
resource_barrier(l, r, s1, s2) ==
  /\ require_recording(l) /\ res[r] # None
  /\ Record(l, [op |-> IF res[r].kind = "image" THEN "barrier" ELSE "buffer",
                image |-> res[r].handle, before |-> s1, after |-> s2,
                uses |-> {res[r].handle}])
  /\ UNCHANGED <<vkVars, res, heap, root, pso, pool, list, layout, state, dangling>>

\* The framebuffer is made for the draw and destroyed when it is recorded.
draw_instanced(l) ==
  /\ require_recording(l) /\ Target(l) # Empty /\ list[l].pipeline # NoPso
  /\ next <= MaxHandles
  /\ next' = next + 1
  /\ Record(l, [op |-> "draw", image |-> Target(l).image, before |-> "RenderTarget",
                after |-> "RenderTarget",
                uses |-> {next, Target(l).view, Target(l).image,
                          list[l].pipeline.pipeline, list[l].pipeline.render_pass}])
  /\ UNCHANGED <<live, twice, leaked, res, heap, root, pso, pool, list, layout, state, dangling>>

drop_list(l, held) ==
  LET a == list[l].allocator
      ls == [list EXCEPT ![l] = None]
  IN /\ VkDestroy({list[l].command_buffer} \cup DropPool(a, held, ls))
     /\ cb' = Without(cb, {list[l].command_buffer})
     /\ pool' = [pool EXCEPT ![a] = IF DropPool(a, held, ls) = {} THEN @ ELSE Null]
     /\ list' = ls
     /\ UNCHANGED <<res, heap, root, pso, layout, state, dangling>>

drop_allocator(a) ==
  /\ VkDestroy(DropPool(a, FALSE, list))
  /\ pool' = [pool EXCEPT ![a] = IF DropPool(a, FALSE, list) = {} THEN @ ELSE Null]
  /\ UNCHANGED <<res, heap, root, pso, list, cb, layout, state, dangling>>

-----------------------------------------------------------------------------
(* The queue *)

\* The commands of a submission stand at <<i, j>>, the j-th of the i-th list, and
\* run list after list.
Recorded(l) == cb[list[l].command_buffer].commands
Position(ls) == UNION {{<<i, j>> : j \in DOMAIN Recorded(ls[i])} : i \in DOMAIN ls}
Command(ls, p) == Recorded(ls[p[1]])[p[2]]
Earlier(p, q) == p[1] < q[1] \/ (p[1] = q[1] /\ p[2] < q[2])

\* Those that set the layout of image h, and the last of some (none of none).
On(ls, h) ==
  {p \in Position(ls) : Command(ls, p).op # "buffer" /\ Command(ls, p).image = h}
Last(P) == {p \in P : \A q \in P : q = p \/ Earlier(q, p)}

\* What the driver does: the last command on an image decides its layout.
LayoutAfter(c) == IF c.op = "clear" THEN ClearLayout ELSE vk_image_layout(c.after)
Layouts(ls) ==
  [h \in DOMAIN layout |->
     IF Last(On(ls, h)) = {} THEN layout[h]
     ELSE LayoutAfter(Command(ls, CHOOSE p \in Last(On(ls, h)) : TRUE))]

\* The state image h is in once the commands at P, of those on it, have run.
StateAfter(ls, h, P) ==
  IF Last(P) = {} THEN state[h] ELSE Command(ls, CHOOSE p \in Last(P) : TRUE).after
States(ls) == [h \in DOMAIN state |-> StateAfter(ls, h, On(ls, h))]

\* The guest names the states the resources are in (resource_barrier: "the
\* caller is responsible ... the standard D3D12 contract").
Truthful(ls) ==
  \A h \in DOMAIN state : \A p \in On(ls, h) :
    Command(ls, p).before = StateAfter(ls, h, {q \in On(ls, h) : Earlier(q, p)})

ReadyToExecute(ls) == \A i \in DOMAIN ls : Usable(ls[i]) /\ list[ls[i]].closed

\* Submit, wait on the fence, destroy it: the commands have run on return.
\* A failed submission changes nothing here.
execute_command_lists(ls) ==
  /\ ReadyToExecute(ls)
  /\ Truthful(ls)
  /\ layout' = Layouts(ls)
  /\ state' = States(ls)
  /\ cb' = [h \in DOMAIN cb |-> IF \E i \in DOMAIN ls : list[ls[i]].command_buffer = h
                                 THEN Spent(cb[h]) ELSE cb[h]]
  /\ UNCHANGED <<vkVars, res, heap, root, pso, pool, list, dangling>>
=============================================================================
