------------------------------ MODULE D3D12Com ------------------------------
(***************************************************************************)
(* The COM interfaces a guest sees of the Direct3D 12 layer                *)
(* (crates/d3d12-com): every native object sits behind an interface        *)
(* pointer with a reference count, and the last Release drops it.  A CPU   *)
(* descriptor handle is the heap's pointer, so a heap has one slot.        *)
(*                                                                         *)
(* The last group of actions are methods of crates/d3d12 that no vtable    *)
(* slot reaches; native clients of that crate call them.                   *)
(***************************************************************************)
EXTENDS D3D12

CONSTANT MaxRefs     \* bound: references a guest holds beyond the first, in all

VARIABLE ref         \* ref[o]: the reference count of interface pointer o

comVars == <<vkVars, d3d12Vars, ref>>

Object == Resource \cup List \cup Allocator \cup {"heap", "queue", "device"}

Live(o) == ref[o] > 0

\* D3D12CreateDevice made the device; everything else is yet to be created.
Init == D3D12Init /\ ref = [o \in Object |-> IF o = "device" THEN 1 ELSE 0]

\* A method of the device that puts a new object behind pointer o.
Creates(o) == Live("device") /\ ~Live(o) /\ ref' = [ref EXCEPT ![o] = 1]
Fails(o) == Live("device") /\ ~Live(o) /\ UNCHANGED ref

device_create_command_queue ==
  Creates("queue") /\ UNCHANGED <<vkVars, d3d12Vars>>

device_create_command_allocator(a) ==
  Creates(a) /\ pool[a] = Null /\ create_command_allocator(a)

device_create_command_list(l, a) ==
  /\ Live(a)
  /\ \/ Creates(l) /\ create_command_list(l, a)
     \/ Fails(l) /\ create_command_list_failed

device_create_descriptor_heap ==
  Creates("heap") /\ UNCHANGED <<vkVars, d3d12Vars>>

device_create_render_target_view(r) ==
  /\ Live("device") /\ Live(r) /\ Live("heap")
  /\ create_render_target_view(r)
  /\ UNCHANGED ref

device_create_committed_resource(r) ==
  \/ Creates(r) /\ \E s \in State : create_committed_image(r, s)
  \/ Creates(r) /\ \E host_visible \in BOOLEAN : create_committed_buffer(r, host_visible)
  \/ Fails(r) /\ create_committed_failed

\* The guest submits a list once for each recording, before it resets its allocator
\* and never after a reset of the list that failed.
OncePerRecording(ls) ==
  /\ \A i \in DOMAIN ls : Usable(ls[i]) /\ ~cb[list[ls[i]].command_buffer].spent
  /\ \A i, j \in DOMAIN ls : ls[i] = ls[j] => i = j

queue_execute_command_lists(ls) ==
  /\ Live("queue") /\ \A i \in DOMAIN ls : Live(ls[i]) /\ Usable(ls[i])
  /\ execute_command_lists(ls)
  /\ UNCHANGED ref

cmdlist_close(l) == Live(l) /\ close(l) /\ UNCHANGED ref

cmdlist_set_pipeline_state(l) == Live(l) /\ set_pipeline_state(l) /\ UNCHANGED ref

cmdlist_set_render_targets(l) ==
  Live(l) /\ Live("heap") /\ set_render_targets(l) /\ UNCHANGED ref

\* A view is used while its image is there (the D3D12 contract).
cmdlist_clear_render_target_view(l) ==
  /\ Live(l) /\ Live("heap") /\ heap.image \in live
  /\ clear_render_target_view(l)
  /\ UNCHANGED ref

cmdlist_resource_barrier(l, r, s1, s2) ==
  Live(l) /\ Live(r) /\ resource_barrier(l, r, s1, s2) /\ UNCHANGED ref

cmdlist_draw_instanced(l) == Live(l) /\ draw_instanced(l) /\ UNCHANGED ref

com_add_ref(o) ==
  /\ Live(o)
  /\ SumFunction([p \in Object |-> IF Live(p) THEN ref[p] - 1 ELSE 0]) < MaxRefs
  /\ ref' = [ref EXCEPT ![o] = @ + 1]
  /\ UNCHANGED <<vkVars, d3d12Vars>>

\* drop_fn: the destructor of what is behind the pointer.
Drop(o) ==
  CASE o \in Resource -> drop_resource(o)
    [] o \in List -> drop_list(o, Live(list[o].allocator))
    [] o \in Allocator -> drop_allocator(o)
    [] o = "heap" -> drop_heap
    [] OTHER -> UNCHANGED <<vkVars, d3d12Vars>>

\* A guest keeps what an unexecuted recording refers to (the D3D12 contract).
NeededByRecording(o) ==
  o \in Resource /\ res[o] # None /\ \E h \in DOMAIN cb :
    /\ ~cb[h].spent
    /\ \E i \in DOMAIN cb[h].commands : res[o].handle \in cb[h].commands[i].uses

com_release(o) ==
  /\ Live(o) /\ ~NeededByRecording(o)
  /\ ref' = [ref EXCEPT ![o] = @ - 1]
  /\ IF ref[o] = 1 THEN Drop(o) ELSE UNCHANGED <<vkVars, d3d12Vars>>

DeviceMethods ==
  \/ device_create_command_queue \/ device_create_descriptor_heap
  \/ \E a \in Allocator : device_create_command_allocator(a)
  \/ \E l \in List, a \in Allocator : device_create_command_list(l, a)
  \/ \E r \in Resource :
       device_create_render_target_view(r) \/ device_create_committed_resource(r)

ListMethods ==
  \E l \in List :
    \/ cmdlist_close(l) \/ cmdlist_set_pipeline_state(l) \/ cmdlist_set_render_targets(l)
    \/ cmdlist_clear_render_target_view(l) \/ cmdlist_draw_instanced(l)
    \/ \E r \in Resource, s1, s2 \in State : cmdlist_resource_barrier(l, r, s1, s2)

Submissions == {<<l>> : l \in List} \cup {<<l, m>> : l, m \in List}

Resets ==
  /\ UNCHANGED ref
  /\ \/ \E l \in List, a \in Allocator :
          /\ Live(l) /\ Live(a) /\ Usable(l)
          /\ \/ reset(l, a, Live(list[l].allocator))
             \/ reset_failed(l, a, Live(list[l].allocator))
             \/ reset_not_begun(l, a, Live(list[l].allocator))
     \/ \E a \in Allocator :
          \* Not while a list records into it (the contract of Reset).
          /\ \A l \in List : list[l] # None /\ list[l].allocator = a => ~list[l].recording
          /\ reset_allocator(a)

NativeMethods ==
  /\ UNCHANGED ref
  /\ \/ create_root_signature \/ drop_root_signature
     \/ create_pipeline_state \/ create_pipeline_state_failed \/ drop_pipeline_state
     \/ \E r \in Resource : map(r) \/ unmap(r)

\* A guest in the middle of its work, after one call of each creating method and
\* a second one for the second list: what Init reaches without an error.
Prepared(r, l, m, a) ==
  LET fresh(h) == [kind |-> "list", allocator |-> a, command_buffer |-> h, target |-> Empty,
                   pipeline |-> NoPso, recording |-> TRUE, closed |-> FALSE]
  IN /\ live = 1 .. 10 /\ next = 11 /\ twice = {} /\ leaked = {}
     /\ res = [x \in Resource |-> IF x # r THEN None ELSE
                 [kind |-> "image", handle |-> 1, memory |-> 2,
                  host_visible |-> FALSE, mapped |-> FALSE]]
     /\ heap = [view |-> 3, image |-> 1]
     /\ root = Null
     /\ pso = [kind |-> "pso", render_pass |-> 7, module |-> 8, pipeline |-> 9, own |-> {10}]
     /\ pool = [x \in Allocator |-> IF x = a THEN 4 ELSE Null]
     /\ list = [x \in List |-> IF x = l THEN fresh(5) ELSE IF x = m THEN fresh(6) ELSE None]
     /\ cb = [h \in {5, 6} |-> Recording]
     /\ layout = [h \in {1} |-> "UNDEFINED"] /\ state = [h \in {1} |-> "RenderTarget"]
     /\ dangling = {}
     /\ ref = [o \in Object |-> IF o \in {r, l, m, a, "heap", "queue", "device"} THEN 1 ELSE 0]

Execute == \E ls \in Submissions : OncePerRecording(ls) /\ queue_execute_command_lists(ls)

Counting == \E o \in Object : com_add_ref(o) \/ com_release(o)

Next == DeviceMethods \/ ListMethods \/ NativeMethods \/ Resets \/ Execute \/ Counting

Spec == Init /\ [][Next]_comVars

-----------------------------------------------------------------------------
(* Properties *)

TypeOK ==
  /\ VkTypeOK
  /\ ref \in [Object -> Nat]
  /\ DOMAIN layout \subseteq live /\ DOMAIN state = DOMAIN layout
  /\ DOMAIN cb \subseteq live

\* No Vulkan handle is destroyed twice, whatever is released, overwritten or
\* reset in whatever order; but for the buffer a failed reset leaves in its
\* list, which the list's destructor frees again.
DestroyedOnce == twice \subseteq dangling

\* When the guest has given back every pointer and the native objects are gone,
\* all that is left of the device's handles is what failed creations left.
NothingElseOutlivesDevice ==
  (\A o \in Object : ref[o] = 0) /\ root = Null /\ pso = None => live = leaked

\* What stands behind a live pointer is alive: a resource's image and memory,
\* the view in a heap, and for a list its buffer and the pool it came from,
\* also when the guest has released the allocator.
PointersReachLiveHandles ==
  /\ \A r \in Resource : Live(r) => {res[r].handle, res[r].memory} \subseteq live
  /\ heap # Empty => Live("heap") /\ heap.view \in live
  /\ \A l \in List : Live(l) =>
       /\ pool[list[l].allocator] \in live
       /\ list[l].command_buffer \in live \cup dangling

\* An image that has left UNDEFINED is in the layout of the state its guest
\* knows it to be in, whatever clears and barriers of whichever lists ran in
\* whatever order: the next barrier's old layout is right.
LayoutIsState ==
  \A h \in DOMAIN layout :
    layout[h] # "UNDEFINED" => layout[h] = vk_image_layout(state[h])
=============================================================================
