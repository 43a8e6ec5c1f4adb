----------------------------- MODULE SwapChain -----------------------------
(* The DXGI swap chain of nigg-dxgi: a surface, a Vulkan swapchain and its  *)
(* images, or images of its own when no surface can be had, created, shown, *)
(* resized and dropped while every Vulkan call may fail.  A handle is a     *)
(* number, 0 the null handle; the module keeps the set of handles that were *)
(* created and not destroyed, so that the clean-up of every error path can  *)
(* be accounted for.  The driver owns the images of a Vulkan swapchain.     *)
EXTENDS Integers, SequencesExt

CONSTANTS
    BufferCount,    \* images of a swap chain (buffer_count)
    MaxHandles      \* bound: handles created

VARIABLES
    sc,        \* the SwapChain, or NoChain before creation and after drop
    job,       \* the creation under way: constructor locals, or NoJob
    live,      \* handles created and not destroyed
    destroys,  \* history: how often each handle was destroyed
    next,      \* the next handle
    device,    \* "up", or "down" once VkCtx was dropped
    headless,  \* VK_EXT_headless_surface is there (has_headless_surface)
    leaked     \* history: handles a failed offscreen creation left behind

vars == <<sc, job, live, destroys, next, device, headless, leaked>>

Null == 0
Handle == 1..MaxHandles
Windowed == "Windowed"
Headless == "Headless"
Offscreen == "Offscreen"
Mode == {Windowed, Headless, Offscreen}
NoChain == [mode |-> "none"]
NoJob == [step |-> "none"]
Handles == Handle \cup {Null}
Chain == [mode : Mode, surface : Handles, swapchain : Handles, images : Seq(Handle),
          memory : Seq(Handle), current : Nat]
Job == [step : {"surface", "query", "create", "images", "image", "memory", "bind", "fallback"},
        mode : Mode, surface : Handles, swapchain : Handles, images : Seq(Handle),
        memory : Seq(Handle)]

TypeOK ==
    /\ sc \in Chain \cup {NoChain}
    /\ job \in Job \cup {NoJob}
    /\ live \subseteq Handle
    /\ destroys \in [Handle -> Nat]
    /\ next \in 1..(MaxHandles + 1)
    /\ device \in {"up", "down"}
    /\ headless \in BOOLEAN
    /\ leaked \subseteq Handle

Init ==
    /\ sc = NoChain
    /\ job = NoJob
    /\ live = {}
    /\ destroys = [h \in Handle |-> 0]
    /\ next = 1
    /\ device = "up"
    /\ headless \in BOOLEAN
    /\ leaked = {}

\* Destroying a set of handles; the null handle is never passed on.
Destroy(S) ==
    /\ live' = live \ S
    /\ destroys' = [h \in Handle |-> IF h \in S THEN destroys[h] + 1 ELSE destroys[h]]

Keep == UNCHANGED <<live, destroys>>
New == next <= MaxHandles /\ next' = next + 1
NewLive == New /\ live' = live \cup {next} /\ UNCHANGED destroys
NewImages == [i \in 1..BufferCount |-> next + i]

Start(mode, surface, step) ==
    job' = [step |-> step, mode |-> mode, surface |-> surface, swapchain |-> Null,
            images |-> <<>>, memory |-> <<>>]

Idle == job = NoJob /\ device = "up"

-----------------------------------------------------------------------------
(* Creation.                                                                 *)

\* new_headless or new_offscreen: the end of SwapChain::new, the rest of a resize.
StartInvisible ==
    IF headless THEN Start(Headless, Null, "surface") ELSE Start(Offscreen, Null, "image")

\* On the X11 window of the caller, or without one.
create_swap_chain ==
    /\ Idle
    /\ sc = NoChain
    /\ Start(Windowed, Null, "surface") \/ StartInvisible
    /\ Keep
    /\ UNCHANGED <<sc, next, device, headless, leaked>>

\* The surface of the window could not be brought up: fall back.
Fallback ==
    /\ job.step = "fallback"
    /\ StartInvisible
    /\ Keep
    /\ UNCHANGED <<sc, next, device, headless, leaked>>

\* What an error on the way to a Vulkan swapchain does next.  The constructor of
\* a windowed chain degrades; everything else, a resize included, fails.
GiveUp ==
    /\ UNCHANGED <<sc, next, device, headless, leaked>>
    /\ job' = IF job.mode = Windowed /\ sc = NoChain
              THEN [job EXCEPT !.step = "fallback", !.surface = Null, !.swapchain = Null]
              ELSE NoJob

SurfaceFailed == job.step = "surface" /\ Keep /\ GiveUp

SurfaceOk ==
    /\ job.step = "surface"
    /\ NewLive
    /\ job' = [job EXCEPT !.step = "query", !.surface = next]
    /\ UNCHANGED <<sc, device, headless, leaked>>

\* Support, formats and capabilities of the surface.
QueryFailed ==
    /\ job.step = "query"
    /\ Destroy({job.surface} \ {Null})
    /\ GiveUp

QueryOk ==
    /\ job.step = "query"
    /\ job' = [job EXCEPT !.step = "create"]
    /\ Keep
    /\ UNCHANGED <<sc, next, device, headless, leaked>>

CreateFailed ==
    /\ job.step = "create"
    /\ Destroy({job.surface} \ {Null})
    /\ GiveUp

CreateOk ==
    /\ job.step = "create"
    /\ NewLive
    /\ job' = [job EXCEPT !.step = "images", !.swapchain = next]
    /\ UNCHANGED <<sc, device, headless, leaked>>

ImagesFailed ==
    /\ job.step = "images"
    /\ Destroy({job.surface, job.swapchain} \ {Null})
    /\ GiveUp

Created(images) ==
    /\ sc' = [mode |-> job.mode, surface |-> job.surface, swapchain |-> job.swapchain,
              images |-> images, memory |-> job.memory, current |-> 0]
    /\ job' = NoJob

ImagesOk ==
    /\ job.step = "images"
    /\ next + BufferCount <= MaxHandles
    /\ next' = next + BufferCount + 1
    /\ Created(NewImages)
    /\ Keep
    /\ UNCHANGED <<device, headless, leaked>>

\* new_offscreen: image, memory and binding of one buffer after another; an
\* error returns with what was created so far.
ImageCreated ==
    /\ job.step = "image"
    /\ Len(job.images) < BufferCount
    /\ NewLive
    /\ job' = [job EXCEPT !.step = "memory", !.images = Append(@, next)]
    /\ UNCHANGED <<sc, device, headless, leaked>>

MemoryAllocated ==
    /\ job.step = "memory"
    /\ NewLive
    /\ job' = [job EXCEPT !.step = "bind", !.memory = Append(@, next)]
    /\ UNCHANGED <<sc, device, headless, leaked>>

ImageBound ==
    /\ job.step = "bind"
    /\ job' = [job EXCEPT !.step = "image"]
    /\ Keep
    /\ UNCHANGED <<sc, next, device, headless, leaked>>

OffscreenFailed ==
    /\ \/ job.step \in {"memory", "bind"}
       \/ job.step = "image" /\ Len(job.images) < BufferCount
    /\ leaked' = leaked \cup ToSet(job.images) \cup ToSet(job.memory)
    /\ job' = NoJob
    /\ Keep
    /\ UNCHANGED <<sc, next, device, headless>>

OffscreenCreated ==
    /\ job.step = "image"
    /\ Len(job.images) = BufferCount
    /\ Created(job.images)
    /\ Keep
    /\ UNCHANGED <<next, device, headless, leaked>>

-----------------------------------------------------------------------------
(* Use.                                                                      *)

Usable == Idle /\ sc # NoChain

\* Whichever image of a Vulkan swapchain the driver gives; the current one
\* offscreen.
acquire_next ==
    /\ Usable
    /\ sc.images # <<>>
    /\ \E i \in 0..(Len(sc.images) - 1) :
         /\ sc.mode = Offscreen => i = sc.current % Len(sc.images)
         /\ sc' = [sc EXCEPT !.current = i]
    /\ Keep
    /\ UNCHANGED <<job, next, device, headless, leaked>>

Wrapped(current, count) == (current + 1) % (IF count > 1 THEN count ELSE 1)

\* The error of a present is returned before the index moves on.
PresentFailed ==
    /\ Usable
    /\ sc.mode # Offscreen
    /\ UNCHANGED vars

present ==
    /\ Usable
    /\ sc' = [sc EXCEPT !.current = Wrapped(@, Len(sc.images))]
    /\ Keep
    /\ UNCHANGED <<job, next, device, headless, leaked>>

\* destroy_resources: the offscreen buffers or the swapchain, then the surface.
Owned(chain) ==
    ({chain.surface, chain.swapchain} \ {Null})
        \cup ToSet(chain.memory)
        \cup (IF chain.mode = Offscreen THEN ToSet(chain.images) ELSE {})

Emptied(chain) ==
    [chain EXCEPT !.surface = Null, !.swapchain = Null, !.images = <<>>, !.memory = <<>>]

\* The surface is taken out of the chain first, so that it survives.
ResizeWindowed ==
    /\ sc.mode = Windowed
    /\ Start(Windowed, sc.surface, "query")
    /\ Destroy(Owned([sc EXCEPT !.surface = Null]))
    /\ sc' = Emptied(sc)

ResizeInvisible ==
    /\ sc.mode # Windowed
    /\ StartInvisible
    /\ Destroy(Owned(sc))
    /\ sc' = Emptied(sc)

\* A failed windowed resize leaves no surface; the guest drops such a chain.
resize_buffers ==
    /\ Usable
    /\ sc.mode = Windowed => sc.surface # Null
    /\ ResizeWindowed \/ ResizeInvisible
    /\ UNCHANGED <<next, device, headless, leaked>>

drop ==
    /\ Usable
    /\ Destroy(Owned(sc))
    /\ sc' = NoChain
    /\ UNCHANGED <<job, next, device, headless, leaked>>

\* The last owner of the VkCtx goes: destroy_device, destroy_instance.
drop_ctx ==
    /\ Idle
    /\ sc = NoChain
    /\ device' = "down"
    /\ Keep
    /\ UNCHANGED <<sc, job, next, headless, leaked>>

Next ==
    \/ create_swap_chain \/ Fallback
    \/ SurfaceFailed \/ SurfaceOk \/ QueryFailed \/ QueryOk
    \/ CreateFailed \/ CreateOk \/ ImagesFailed \/ ImagesOk
    \/ ImageCreated \/ MemoryAllocated \/ ImageBound \/ OffscreenFailed \/ OffscreenCreated
    \/ acquire_next \/ present \/ PresentFailed \/ resize_buffers \/ drop \/ drop_ctx

Spec == Init /\ [][Next]_vars

-----------------------------------------------------------------------------
(* Properties.                                                               *)

(* No handle is destroyed twice, whichever step of a creation or a resize   *)
(* fails and whatever is resized or dropped afterwards (destroy_resources:  *)
(* "destroyed exactly once").                                               *)
DestroyedOnce == \A h \in Handle : destroys[h] <= 1

(* A Vulkan swapchain never outlives its surface: the surface a resize      *)
(* keeps is in the hands of the new creation while the old chain is empty.  *)
SurfaceOutlivesSwapchain ==
    /\ sc # NoChain /\ sc.swapchain # Null => {sc.surface, sc.swapchain} \subseteq live
    /\ job # NoJob /\ job.swapchain # Null => {job.surface, job.swapchain} \subseteq live

(* When the device is destroyed, every handle created from it is gone but   *)
(* those of an offscreen creation that failed half-way: the clean-up of      *)
(* every other error path is complete (VkCtx::drop relies on it).            *)
NothingElseOutlivesDevice == device = "down" => live = leaked

=============================================================================
