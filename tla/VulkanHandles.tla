---------------------------- MODULE VulkanHandles ----------------------------
(***************************************************************************)
(* The Vulkan device as the Direct3D layers use it: a source of handles    *)
(* (images, memory, views, pools, command buffers, pipelines ...) that are *)
(* created and destroyed one by one.  A handle is a number that is never   *)
(* used again, so a stale copy of one cannot be mistaken for another.      *)
(***************************************************************************)
EXTENDS Integers, FiniteSets

CONSTANT MaxHandles   \* bound: how many handles are created in all

VARIABLES
  live,     \* handles created and not destroyed
  next,     \* the next handle
  twice,    \* history: handles destroyed when they were not alive
  leaked    \* history: handles a failed creation left behind

vkVars == <<live, next, twice, leaked>>

Handle == 1 .. MaxHandles
Null == 0

VkInit == live = {} /\ next = 1 /\ twice = {} /\ leaked = {}

VkTypeOK ==
  /\ live \subseteq Handle
  /\ next \in 1 .. (MaxHandles + 1)
  /\ twice \subseteq Handle
  /\ leaked \subseteq Handle

\* One call of a layer makes n handles, destroys those in D, forgets those in L.
Vk(n, D, L) ==
  /\ next + n - 1 <= MaxHandles
  /\ next' = next + n
  /\ live' = (live \ D) \cup (next .. (next + n - 1))
  /\ twice' = twice \cup (D \ live)
  /\ leaked' = leaked \cup L

\* A creation of several handles that fails once k of them are there and does
\* not destroy them.
VkLeak(k) == Vk(k, {}, next .. (next + k - 1))

VkDestroy(D) == Vk(0, D, {})
=============================================================================
