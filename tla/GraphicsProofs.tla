--------------------------- MODULE GraphicsProofs ---------------------------
(***************************************************************************)
(* Proofs about the graphics layers, for every number of buffers and       *)
(* handles and every set of D3D12 resources, lists and allocators.  The    *)
(* argument is the same for the three layers: every handle that is alive   *)
(* has exactly one owner (an object of the layer), or was left behind by a *)
(* call that failed; a destructor destroys what its object owns.           *)
(***************************************************************************)
EXTENDS MCGraphics, SequenceTheorems, TLAPS

\* own[p] are the handles owner p is to destroy.
Accounted(own, live, leaked, next) ==
  /\ next \in Nat \ {0}
  /\ live \subseteq 1 .. (next - 1)
  /\ leaked \subseteq live
  /\ \A p \in DOMAIN own : own[p] \subseteq live /\ own[p] \cap leaked = {}
  /\ \A p, q \in DOMAIN own : p # q => own[p] \cap own[q] = {}
  /\ \A h \in live : h \in leaked \/ \E p \in DOMAIN own : h \in own[p]

\* The owners lose what is destroyed, D, and share the new handles, F, but for
\* those that are left behind, L.
HandsOver(own, own2, F, D, L) ==
  /\ DOMAIN own2 = DOMAIN own
  /\ L \subseteq F
  /\ \A p \in DOMAIN own :
       own2[p] \subseteq (own[p] \ D) \cup (F \ L) /\ own[p] \subseteq own2[p] \cup D
  /\ \A p, q \in DOMAIN own : p # q => \A h \in F : ~(h \in own2[p] /\ h \in own2[q])
  /\ \A h \in F : h \in L \/ \E p \in DOMAIN own : h \in own2[p]

\* The common case: owner o loses D and gains G of the new handles.
OneOwner(own, own2, o, F, D, L, G) ==
  /\ o \in DOMAIN own /\ DOMAIN own2 = DOMAIN own
  /\ D \subseteq own[o]
  /\ G \cup L = F /\ G \cap L = {}
  /\ own2[o] = (own[o] \ D) \cup G
  /\ \A p \in DOMAIN own : p # o => own2[p] = own[p]

-----------------------------------------------------------------------------
(* The Direct3D 11 layer: who owns what *)

Textures11 == [kind : {"texture"}, image : Nat, memory : Nat]
Views11 == [kind : {"rtv"}, view : Nat, image : Nat]
Buffers11 == [kind : {"buffer"}, buffer : Nat, memory : Nat, usage : D11!BufferUsage]
Contexts11 ==
  [kind : {"context"}, command_buffer : Nat, target : SUBSET Nat, bound : [D11!Stage -> Nat],
   vertex_buffer : Nat, index_buffer : Nat, recording : BOOLEAN, drew : BOOLEAN,
   buffer : {"initial", "recording", "invalid", "executable", "pending"},
   uses : SUBSET Nat, failed : BOOLEAN, misplaced : BOOLEAN]

Types11 ==
  /\ x_pool \in Nat /\ x_back \in Nat /\ x_orphans \subseteq Nat
  /\ x_tex \in Textures11 \cup {D11!None}
  /\ x_rtv \in Views11 \cup {D11!None}
  /\ x_buf \in Buffers11 \cup {D11!None}
  /\ x_shader \in [D11!Stage -> Nat]
  /\ x_ctx \in Contexts11 \cup {D11!None}
  /\ x_ref \in [D11!Object -> Nat]
  /\ x_submits \subseteq BOOLEAN

\* A borrowed image is the swap chain's.
OwnedTexture(tex) ==
  IF tex = D11!None THEN {} ELSE IF tex.memory = 0 THEN {} ELSE {tex.image, tex.memory}

Owner11 == {"device", "swapchain", "tex", "rtv", "buf", "Vertex", "Pixel", "context"}
Own11 ==
  [p \in Owner11 |->
     CASE p = "device" -> ({x_pool} \ {0}) \cup x_orphans
       [] p = "swapchain" -> {x_back} \ {0}
       [] p = "tex" -> OwnedTexture(x_tex)
       [] p = "rtv" -> IF x_rtv = D11!None THEN {} ELSE {x_rtv.view}
       [] p = "buf" -> IF x_buf = D11!None THEN {} ELSE {x_buf.buffer, x_buf.memory}
       [] p = "Vertex" -> {x_shader["Vertex"]} \ {0}
       [] p = "Pixel" -> {x_shader["Pixel"]} \ {0}
       [] p = "context" -> IF x_ctx = D11!None THEN {} ELSE x_ctx.target \cup {x_ctx.command_buffer}]

Owners11 ==
  Accounted(Own11, x_live, x_leaked, x_next) /\ x_twice = {} /\ x_next <= Frames11 + 1

\* A slot is filled while the interface pointer is live; the pool while the
\* device's pointer or the context holds it.
Links11 ==
  /\ D11!Live("tex") <=> x_tex # D11!None
  /\ D11!Live("rtv") <=> x_rtv # D11!None
  /\ D11!Live("buf") <=> x_buf # D11!None
  /\ D11!Live("context") <=> x_ctx # D11!None
  /\ x_back # 0 => D11!Live("swapchain")
  /\ \A s \in D11!Stage : D11!Live(s) <=> x_shader[s] # 0
  /\ D11!Live("device") \/ D11!Live("context") <=> x_pool # 0
  /\ x_orphans # {} => x_pool # 0
  /\ x_ctx # D11!None => x_ctx.command_buffer \notin x_ctx.target

\* The images a view may be of: the back buffer and the texture's.
Images11 ==
  ({x_back} \ {0}) \cup (IF x_tex = D11!None THEN {} ELSE {x_tex.image})

\* What is viewed and borrowed is there.
Named11 ==
  /\ x_tex # D11!None /\ x_tex.memory = 0 => x_back # 0 /\ x_tex.image = x_back
  /\ x_rtv # D11!None => x_rtv.image \in Images11

\* The flag and the buffer agree unless a flush has failed.
Recording11 ==
  x_ctx # D11!None =>
    /\ x_ctx.drew => x_ctx.recording
    /\ x_ctx.recording /\ ~x_ctx.failed => x_ctx.buffer = "recording"
    /\ x_ctx.misplaced => x_ctx.failed

Inv11 == Types11 /\ Owners11 /\ Links11 /\ Named11 /\ Recording11

-----------------------------------------------------------------------------
(* Accounting for handles *)

\* A call makes n handles, destroys D, which no failed call left, and leaves L of
\* the new ones behind: every handle has one owner again.
LEMMA AccountStep ==
  ASSUME NEW own, NEW own2, NEW live, NEW leaked, NEW next, NEW n \in Nat, NEW D, NEW L,
         Accounted(own, live, leaked, next),
         HandsOver(own, own2, next .. (next + n - 1), D, L),
         D \cap leaked = {}
  PROVE  Accounted(own2, (live \ D) \cup (next .. (next + n - 1)), leaked \cup L, next + n)
<1> DEFINE P == DOMAIN own
           live2 == (live \ D) \cup (next .. (next + n - 1))
           leaked2 == leaked \cup L
           next2 == next + n
           F == next .. (next + n - 1)
<1>1. next \in Nat \ {0} /\ live \subseteq 1 .. (next - 1) /\ leaked \subseteq live
  BY DEF Accounted
<1>2. next2 \in Nat \ {0} /\ F \subseteq 1 .. (next2 - 1) /\ live \subseteq 1 .. (next2 - 1)
  BY <1>1
<1>3. \A h \in live : h \notin F
  BY <1>1
<1>4. /\ \A p \in P : own[p] \subseteq live /\ own[p] \cap leaked = {}
      /\ \A p, q \in P : p # q => own[p] \cap own[q] = {}
      /\ \A h \in live : h \in leaked \/ \E p \in P : h \in own[p]
  BY DEF Accounted
<1>5. live2 = (live \ D) \cup F /\ leaked2 = leaked \cup L /\ L \subseteq F
  BY DEF HandsOver
<1>6. /\ \A p \in P : own2[p] \subseteq (own[p] \ D) \cup (F \ L)
      /\ \A p, q \in P : p # q => \A h \in F : ~(h \in own2[p] /\ h \in own2[q])
      /\ \A h \in F : h \in L \/ \E p \in P : h \in own2[p]
      /\ \A p \in P : own[p] \subseteq own2[p] \cup D
      /\ DOMAIN own2 = P
  BY DEF HandsOver
<1> HIDE DEF F, live2, leaked2, next2, P
<1>7. live2 \subseteq 1 .. (next2 - 1) /\ leaked2 \subseteq live2
  BY <1>1, <1>2, <1>5
<1>8. \A p \in P : own2[p] \subseteq live2 /\ own2[p] \cap leaked2 = {}
  <2>1. SUFFICES ASSUME NEW p \in P, NEW h \in own2[p]
                 PROVE  h \in live2 /\ h \notin leaked2
    OBVIOUS
  <2>2. CASE h \in own[p] /\ h \notin D
    BY <2>2, <1>3, <1>4, <1>5
  <2>3. CASE h \in F /\ h \notin L
    BY <2>3, <1>1, <1>3, <1>5
  <2> QED
    BY <2>2, <2>3, <1>6
<1>9. \A p, q \in P : p # q => own2[p] \cap own2[q] = {}
  <2>1. SUFFICES ASSUME NEW p \in P, NEW q \in P, p # q,
                        NEW h, h \in own2[p], h \in own2[q]
                 PROVE  FALSE
    OBVIOUS
  <2>2. h \notin F
    BY <2>1, <1>6
  <2>3. h \in own[p] /\ h \in own[q]
    BY <2>1, <2>2, <1>6
  <2> QED
    BY <2>1, <2>3, <1>4
<1>10. \A h \in live2 : h \in leaked2 \/ \E p \in P : h \in own2[p]
  <2>1. SUFFICES ASSUME NEW h \in live2, h \notin leaked2
                 PROVE  \E p \in P : h \in own2[p]
    OBVIOUS
  <2>2. CASE h \in F
    BY <2>1, <2>2, <1>5, <1>6
  <2>3. CASE h \in live /\ h \notin D
    BY <2>1, <2>3, <1>4, <1>5, <1>6
  <2> QED
    BY <2>2, <2>3, <1>5
<1>11. Accounted(own2, live2, leaked2, next2)
  BY <1>2, <1>6, <1>7, <1>8, <1>9, <1>10 DEF Accounted
<1> QED
  BY <1>11 DEF live2, leaked2, next2, F

\* Numbers may be used up.
LEMMA AccountLater ==
  ASSUME NEW own, NEW live, NEW leaked, NEW next, NEW next2 \in Nat,
         Accounted(own, live, leaked, next), next <= next2
  PROVE  Accounted(own, live, leaked, next2)
BY DEF Accounted

\* The common step: one owner loses D and gains G of the new handles, the others
\* of which are left behind.
LEMMA AccountOne ==
  ASSUME NEW own, NEW own2, NEW o, NEW live, NEW leaked, NEW next,
         NEW n \in Nat, NEW D, NEW L, NEW G,
         Accounted(own, live, leaked, next),
         OneOwner(own, own2, o, next .. (next + n - 1), D, L, G)
  PROVE  /\ Accounted(own2, (live \ D) \cup (next .. (next + n - 1)), leaked \cup L, next + n)
         /\ D \subseteq live
<1> DEFINE F == next .. (next + n - 1)
<1>1. /\ \A p \in DOMAIN own : own[p] \subseteq live /\ own[p] \cap leaked = {}
      /\ \A p, q \in DOMAIN own : p # q => own[p] \cap own[q] = {}
  BY DEF Accounted
<1>2. live \subseteq 1 .. (next - 1) /\ next \in Nat
  BY DEF Accounted
<1>3. \A p \in DOMAIN own : \A h \in own[p] : h \notin F
  BY <1>1, <1>2
<1> HIDE DEF F
<1>4. /\ o \in DOMAIN own /\ DOMAIN own2 = DOMAIN own
      /\ D \subseteq own[o]
      /\ G \cup L = F /\ G \cap L = {}
      /\ own2[o] = (own[o] \ D) \cup G
      /\ \A p \in DOMAIN own : p # o => own2[p] = own[p]
  BY DEF F, OneOwner
<1>5. HandsOver(own, own2, F, D, L)
  <2>1. ASSUME NEW p \in DOMAIN own
        PROVE  own2[p] \subseteq (own[p] \ D) \cup (F \ L) /\ own[p] \subseteq own2[p] \cup D
    <3>1. CASE p = o
      BY <3>1, <1>4
    <3>2. CASE p # o
      BY <3>2, <1>1, <1>4
    <3> QED
      BY <3>1, <3>2
  <2>2. \A p, q \in DOMAIN own : p # q => \A h \in F : ~(h \in own2[p] /\ h \in own2[q])
    BY <1>3, <1>4
  <2>3. \A h \in F : h \in L \/ \E p \in DOMAIN own : h \in own2[p]
    BY <1>4
  <2> QED
    BY <1>4, <2>1, <2>2, <2>3 DEF HandsOver
<1>6. D \cap leaked = {} /\ D \subseteq live
  BY <1>1, <1>4
<1> QED
  BY <1>5, <1>6, AccountStep DEF F

-----------------------------------------------------------------------------
(* The Direct3D 11 layer: steps *)

\* What each owner owns, before and after a step.
LEMMA Own11At ==
         /\ DOMAIN Own11 = Owner11
         /\ Own11["device"] = ({x_pool} \ {0}) \cup x_orphans
         /\ Own11["swapchain"] = {x_back} \ {0}
         /\ Own11["tex"] = OwnedTexture(x_tex)
         /\ Own11["rtv"] = IF x_rtv = D11!None THEN {} ELSE {x_rtv.view}
         /\ Own11["buf"] = IF x_buf = D11!None THEN {} ELSE {x_buf.buffer, x_buf.memory}
         /\ Own11["Vertex"] = {x_shader["Vertex"]} \ {0}
         /\ Own11["Pixel"] = {x_shader["Pixel"]} \ {0}
         /\ Own11["context"] = IF x_ctx = D11!None THEN {}
                               ELSE x_ctx.target \cup {x_ctx.command_buffer}
BY DEF Own11, Owner11

LEMMA Own11AtNext ==
         /\ DOMAIN Own11' = Owner11
         /\ Own11'["device"] = ({x_pool'} \ {0}) \cup x_orphans'
         /\ Own11'["swapchain"] = {x_back'} \ {0}
         /\ Own11'["tex"] = OwnedTexture(x_tex')
         /\ Own11'["rtv"] = IF x_rtv' = D11!None THEN {} ELSE {x_rtv'.view}
         /\ Own11'["buf"] = IF x_buf' = D11!None THEN {} ELSE {x_buf'.buffer, x_buf'.memory}
         /\ Own11'["Vertex"] = {x_shader'["Vertex"]} \ {0}
         /\ Own11'["Pixel"] = {x_shader'["Pixel"]} \ {0}
         /\ Own11'["context"] = IF x_ctx' = D11!None THEN {}
                               ELSE x_ctx'.target \cup {x_ctx'.command_buffer}
BY DEF Own11, Owner11

\* One owner changes.
LEMMA Owner11Step ==
  ASSUME Owners11, NEW o, NEW n \in Nat, NEW D, NEW L, NEW G,
         D11!Vk(n, D, L),
         OneOwner(Own11, Own11', o, x_next .. (x_next + n - 1), D, L, G)
  PROVE  Owners11'
<1>1. DOMAIN Own11 = Owner11 /\ DOMAIN Own11' = Owner11
  BY Own11At, Own11AtNext
<1>2. /\ x_live' = (x_live \ D) \cup (x_next .. (x_next + n - 1))
      /\ x_leaked' = x_leaked \cup L
      /\ x_next' = x_next + n
      /\ x_next + n - 1 <= Frames11
      /\ x_twice' = x_twice \cup (D \ x_live)
  BY DEF D11!Vk
<1>3. Accounted(Own11, x_live, x_leaked, x_next)
  BY DEF Owners11
<1>4. /\ Accounted(Own11', (x_live \ D) \cup (x_next .. (x_next + n - 1)),
                   x_leaked \cup L, x_next + n)
      /\ D \subseteq x_live
  BY <1>3, AccountOne
<1>5. x_twice' = {}
  BY <1>2, <1>4 DEF Owners11
<1>6. x_next \in Nat /\ Frames11 \in Nat
  BY <1>3, GraphicsAssumption DEF Accounted
<1>7. x_next + n <= Frames11 + 1
  BY <1>2, <1>6
<1> QED
  BY <1>2, <1>4, <1>5, <1>7 DEF Owners11

\* Nothing but the context's bindings and flags changes hands.
LEMMA Same11 ==
  ASSUME Owners11, Own11' = Own11, UNCHANGED <<x_live, x_twice, x_leaked>>,
         x_next' \in Nat, x_next <= x_next', x_next' <= Frames11 + 1
  PROVE  Owners11'
BY AccountLater DEF Owners11

\* What the invariant says of the handles at hand.
LEMMA Facts11 ==
  ASSUME Inv11
  PROVE  /\ x_next \in Nat \ {0} /\ Frames11 \in Nat
         /\ x_live \subseteq 1 .. (x_next - 1) /\ 0 \notin x_live
         /\ x_leaked \subseteq x_live
         /\ Images11 \subseteq x_live
         /\ \A p \in Owner11 : Own11[p] \subseteq x_live
         /\ \A p, q \in Owner11 : p # q => Own11[p] \cap Own11[q] = {}
         /\ \A h \in x_live : h \in x_leaked \/ \E p \in Owner11 : h \in Own11[p]
<1>1. Accounted(Own11, x_live, x_leaked, x_next) /\ DOMAIN Own11 = Owner11
  BY Own11At DEF Inv11, Owners11
<1>2. x_next \in Nat \ {0} /\ x_live \subseteq 1 .. (x_next - 1)
  BY <1>1 DEF Accounted
<1>3. Own11["swapchain"] \subseteq x_live /\ Own11["tex"] \subseteq x_live
  BY <1>1 DEF Accounted, Owner11
<1>4. Images11 \subseteq x_live
  <2>1. {x_back} \ {0} \subseteq x_live
    BY <1>3, Own11At
  <2>2. x_tex # D11!None => x_tex.image \in x_live
    <3>1. CASE x_tex = D11!None
      BY <3>1
    <3>2. CASE x_tex # D11!None /\ x_tex.memory = 0
      BY <2>1, <3>2 DEF Inv11, Named11
    <3>3. CASE x_tex # D11!None /\ x_tex.memory # 0
      BY <1>3, <3>3, Own11At DEF OwnedTexture
    <3> QED
      BY <3>1, <3>2, <3>3
  <2> QED
    BY <2>1, <2>2 DEF Images11
<1> QED
  BY <1>1, <1>2, <1>4, GraphicsAssumption DEF Accounted

\* A step on one object that leaves the context alone.
LEMMA ObjectStep11 ==
  ASSUME Inv11, NEW o, NEW n \in Nat, NEW D, NEW L, NEW G,
         D11!Vk(n, D, L),
         OneOwner(Own11, Own11', o, x_next .. (x_next + n - 1), D, L, G),
         UNCHANGED <<x_ctx, x_submits>>,
         Types11', Links11', Named11'
  PROVE  Inv11'
<1>1. Owners11'
  BY Owner11Step DEF Inv11
<1>2. Recording11'
  BY DEF Inv11, Recording11
<1> QED
  BY <1>1, <1>2 DEF Inv11

\* An object is not None.
LEMMA NotNone11 ==
  /\ D11!None \notin Textures11 /\ D11!None \notin Views11
  /\ D11!None \notin Buffers11 /\ D11!None \notin Contexts11
BY DEF D11!None, Textures11, Views11, Buffers11, Contexts11

\* A creation that puts one object into an empty slot of the device.
LEMMA CreateRtv11 ==
  ASSUME Inv11, D11!Live("device"), D11!device_create_render_target_view
  PROVE  Inv11'
<1>1. /\ x_ref["rtv"] = 0 /\ x_ref' = [x_ref EXCEPT !["rtv"] = 1]
      /\ x_tex # D11!None
      /\ D11!Vk(1, {}, {})
      /\ x_rtv' = [kind |-> "rtv", view |-> x_next, image |-> x_tex.image]
      /\ UNCHANGED <<x_pool, x_orphans, x_back, x_tex, x_buf, x_shader, x_ctx, x_submits>>
  BY DEF D11!device_create_render_target_view, D11!Counts, D11!Live, D11!create_rtv,
         Inv11, Types11, D11!Object
<1>2. x_next \in Nat \ {0} /\ x_live \subseteq 1 .. (x_next - 1)
  BY Facts11
<1>3. x_tex.image \in Nat /\ x_rtv' \in Views11 /\ x_rtv' # D11!None /\ x_rtv = D11!None
  <2>1. x_tex \in Textures11
    BY <1>1 DEF Inv11, Types11
  <2>2. x_tex.image \in Nat /\ x_rtv' \in Views11
    BY <1>1, <1>2, <2>1 DEF Textures11, Views11
  <2>3. x_rtv = D11!None
    BY <1>1 DEF Inv11, Links11, D11!Live
  <2> QED
    BY <2>2, <2>3, NotNone11
<1>4. OneOwner(Own11, Own11', "rtv", x_next .. (x_next + 1 - 1), {}, {}, {x_next})
  <2>1. Own11["rtv"] = {} /\ Own11'["rtv"] = {x_next}
    BY <1>1, <1>3, Own11At, Own11AtNext
  <2>2. \A p \in Owner11 : p # "rtv" => Own11'[p] = Own11[p]
    BY ZenonT(60), <1>1, Own11At, Own11AtNext DEF Owner11
  <2> QED
    BY <1>2, <2>1, <2>2, Own11At, Own11AtNext DEF OneOwner, Owner11
<1>5. Types11'
  BY <1>1, <1>3 DEF Inv11, Types11, D11!Object
<1>6. Links11'
  BY <1>1, <1>2, <1>3 DEF Inv11, Types11, Links11, D11!Live, D11!Object, D11!Stage
<1>7. Named11'
  BY <1>1, <1>3 DEF Inv11, Named11, Images11
<1> QED
  BY <1>1, <1>4, <1>5, <1>6, <1>7, ObjectStep11

\* A call that makes and destroys nothing.
LEMMA Vk11Idle ==
  ASSUME Inv11, UNCHANGED <<x_live, x_next, x_twice, x_leaked>>
  PROVE  D11!Vk(0, {}, {})
<1>1. x_next \in Nat /\ Frames11 \in Nat /\ x_next <= Frames11 + 1
  BY Facts11 DEF Inv11, Owners11
<1> QED
  BY <1>1 DEF D11!Vk

\* No owner changes.
LEMMA SameOwners11 ==
  ASSUME Inv11, \A p \in Owner11 : Own11'[p] = Own11[p]
  PROVE  OneOwner(Own11, Own11', "device", x_next .. (x_next + 0 - 1), {}, {}, {})
<1>1. x_next \in Nat
  BY Facts11
<1> QED
  BY <1>1, Own11At, Own11AtNext DEF OneOwner, Owner11

LEMMA CreateShader11 ==
  ASSUME Inv11, D11!Live("device"), NEW stage \in D11!Stage, D11!device_create_shader(stage)
  PROVE  Inv11'
<1>1. /\ x_ref[stage] = 0 /\ x_ref' = [x_ref EXCEPT ![stage] = 1]
      /\ D11!Vk(1, {}, {})
      /\ x_shader' = [x_shader EXCEPT ![stage] = x_next]
      /\ UNCHANGED <<x_pool, x_orphans, x_back, x_tex, x_rtv, x_buf, x_ctx, x_submits>>
  BY DEF D11!device_create_shader, D11!Counts, D11!Live, D11!create_shader,
         Inv11, Types11, D11!Object, D11!Stage
<1>2. x_next \in Nat \ {0} /\ x_shader \in [D11!Stage -> Nat] /\ x_shader[stage] = 0
  BY <1>1, Facts11 DEF Inv11, Types11, Links11, D11!Live
<1>3. stage = "Vertex" \/ stage = "Pixel"
  BY DEF D11!Stage
<1>4. OneOwner(Own11, Own11', stage, x_next .. (x_next + 1 - 1), {}, {}, {x_next})
  <2>1. Own11[stage] = {} /\ Own11'[stage] = {x_next}
    BY <1>1, <1>2, <1>3, Own11At, Own11AtNext
  <2>2. \A p \in Owner11 : p # stage => Own11'[p] = Own11[p]
    <3>0. UNCHANGED <<x_pool, x_orphans, x_back, x_tex, x_rtv, x_buf, x_ctx>>
      BY <1>1
    <3>1. \A s \in D11!Stage : s # stage => x_shader'[s] = x_shader[s]
      BY <1>1, <1>2
    <3>2. CASE stage = "Vertex"
      <4>1. x_shader'["Pixel"] = x_shader["Pixel"]
        BY <3>1, <3>2 DEF D11!Stage
      <4> QED
        BY ZenonT(60), <3>0, <3>2, <4>1, Own11At, Own11AtNext DEF Owner11
    <3>3. CASE stage = "Pixel"
      <4>1. x_shader'["Vertex"] = x_shader["Vertex"]
        BY <3>1, <3>3 DEF D11!Stage
      <4> QED
        BY ZenonT(60), <3>0, <3>3, <4>1, Own11At, Own11AtNext DEF Owner11
    <3> QED
      BY <1>3, <3>2, <3>3
  <2> QED
    BY <1>2, <1>3, <2>1, <2>2, Own11At, Own11AtNext DEF OneOwner, Owner11
<1>5. Types11'
  BY <1>1, <1>2 DEF Inv11, Types11, D11!Object, D11!Stage
<1>6. Links11'
  BY <1>1, <1>2, <1>3 DEF Inv11, Types11, Links11, D11!Live, D11!Object, D11!Stage
<1>7. Named11'
  BY <1>1 DEF Inv11, Named11, Images11
<1> QED
  BY <1>1, <1>4, <1>5, <1>6, <1>7, ObjectStep11

LEMMA CreateBuffer11 ==
  ASSUME Inv11, D11!Live("device"), D11!device_create_buffer
  PROVE  Inv11'
<1>1. x_next \in Nat \ {0} /\ x_buf = D11!None
  <2>1. x_ref["buf"] = 0
    BY DEF D11!device_create_buffer, D11!Counts, D11!Live, Inv11, Types11, D11!Object
  <2> QED
    BY <2>1, Facts11 DEF Inv11, Links11, D11!Live
<1>2. ASSUME NEW usage \in D11!BufferUsage, D11!Counts("buf"), D11!create_buffer(usage)
      PROVE  Inv11'
  <2>1. /\ x_ref' = [x_ref EXCEPT !["buf"] = 1]
        /\ D11!Vk(2, {}, {})
        /\ x_buf' = [kind |-> "buffer", buffer |-> x_next, memory |-> x_next + 1,
                     usage |-> usage]
        /\ UNCHANGED <<x_pool, x_orphans, x_back, x_tex, x_rtv, x_shader, x_ctx, x_submits>>
    BY <1>2 DEF D11!Counts, D11!create_buffer
  <2>2. x_buf' \in Buffers11 /\ x_buf' # D11!None
    BY <1>1, <2>1, NotNone11 DEF Buffers11
  <2>3. OneOwner(Own11, Own11', "buf", x_next .. (x_next + 2 - 1), {}, {}, {x_next, x_next + 1})
    <3>1. Own11["buf"] = {} /\ Own11'["buf"] = {x_next, x_next + 1}
      BY <1>1, <2>1, <2>2, Own11At, Own11AtNext
    <3>2. \A p \in Owner11 : p # "buf" => Own11'[p] = Own11[p]
      BY ZenonT(60), <2>1, Own11At, Own11AtNext DEF Owner11
    <3>3. x_next .. (x_next + 2 - 1) = {x_next, x_next + 1}
      BY <1>1
    <3> QED
      BY <3>1, <3>2, <3>3, Own11At, Own11AtNext DEF OneOwner, Owner11
  <2>4. Types11'
    BY <2>1, <2>2 DEF Inv11, Types11, D11!Object
  <2>5. Links11'
    BY <1>1, <2>1, <2>2 DEF Inv11, Types11, Links11, D11!Live, D11!Object, D11!Stage
  <2>6. Named11'
    BY <2>1 DEF Inv11, Named11, Images11
  <2> QED
    BY <2>1, <2>3, <2>4, <2>5, <2>6, ObjectStep11
<1>3. ASSUME NEW k \in 1 .. 6, D11!create_buffer_failed(k), UNCHANGED x_ref
      PROVE  Inv11'
  <2> DEFINE F == x_next .. (x_next + k - 1)
             L == F \ {x_next + 4}
             G == IF k >= 5 THEN {x_next + 4} ELSE {}
  <2>1. /\ D11!Vk(k, {}, L)
        /\ x_orphans' = x_orphans \cup G
        /\ UNCHANGED <<x_pool, x_back, x_tex, x_rtv, x_buf, x_shader, x_ctx, x_submits>>
    BY <1>3 DEF D11!create_buffer_failed
  <2>2. G \cup L = F /\ G \cap L = {} /\ G \subseteq Nat
    BY <1>1
  <2>3. x_pool # 0 /\ k \in Nat
    BY DEF Inv11, Links11
  <2> HIDE DEF L, G
  <2>4. OneOwner(Own11, Own11', "device", F, {}, L, G)
    <3>1. Own11'["device"] = (Own11["device"] \ {}) \cup G
      BY <2>1, Own11At, Own11AtNext
    <3>2. \A p \in Owner11 : p # "device" => Own11'[p] = Own11[p]
      BY ZenonT(60), <2>1, Own11At, Own11AtNext DEF Owner11
    <3> QED
      BY <2>2, <3>1, <3>2, Own11At, Own11AtNext DEF OneOwner, Owner11
  <2>5. Types11'
    BY <1>3, <2>1, <2>2 DEF Inv11, Types11
  <2>6. Links11'
    BY <1>3, <2>1, <2>3 DEF Inv11, Links11, D11!Live
  <2>7. Named11'
    BY <2>1 DEF Inv11, Named11, Images11
  <2> QED
    BY <2>1, <2>3, <2>4, <2>5, <2>6, <2>7, ObjectStep11
<1> QED
  BY <1>2, <1>3 DEF D11!device_create_buffer, D11!NoCount

LEMMA CreateTexture11 ==
  ASSUME Inv11, D11!Live("device"), ~D11!Live("tex"), D11!create_texture_2d,
         x_ref' = [x_ref EXCEPT !["tex"] = IF x_tex' = D11!None THEN 0 ELSE 1]
  PROVE  Inv11'
<1>1. x_next \in Nat \ {0} /\ x_tex = D11!None /\ x_ref["tex"] = 0
  BY Facts11 DEF D11!create_texture_2d, D11!Live, Inv11, Types11, D11!Object
<1>2. UNCHANGED <<x_pool, x_orphans, x_back, x_rtv, x_buf, x_shader, x_ctx, x_submits>>
  BY DEF D11!create_texture_2d
<1>3. ASSUME D11!Vk(2, {}, {}),
             x_tex' = [kind |-> "texture", image |-> x_next, memory |-> x_next + 1]
      PROVE  Inv11'
  <2>1. x_tex' \in Textures11 /\ x_tex' # D11!None /\ x_tex'.memory # 0
    BY <1>1, <1>3, NotNone11 DEF Textures11
  <2>2. OneOwner(Own11, Own11', "tex", x_next .. (x_next + 2 - 1), {}, {}, {x_next, x_next + 1})
    <3>1. Own11["tex"] = {} /\ Own11'["tex"] = {x_next, x_next + 1}
      BY <1>1, <1>3, <2>1, Own11At, Own11AtNext DEF OwnedTexture
    <3>2. \A p \in Owner11 : p # "tex" => Own11'[p] = Own11[p]
      BY ZenonT(60), <1>2, Own11At, Own11AtNext DEF Owner11
    <3>3. x_next .. (x_next + 2 - 1) = {x_next, x_next + 1}
      BY <1>1
    <3> QED
      BY <3>1, <3>2, <3>3, Own11At, Own11AtNext DEF OneOwner, Owner11
  <2>3. x_ref' = [x_ref EXCEPT !["tex"] = 1]
    BY <2>1
  <2>4. Types11'
    BY <1>2, <2>1, <2>3 DEF Inv11, Types11, D11!Object
  <2>5. Links11'
    BY <1>1, <1>2, <2>1, <2>3 DEF Inv11, Types11, Links11, D11!Live, D11!Object, D11!Stage
  <2>6. Named11'
    BY <1>1, <1>2, <2>1 DEF Inv11, Named11, Images11
  <2> QED
    BY <1>2, <1>3, <2>2, <2>4, <2>5, <2>6, ObjectStep11
<1>4. ASSUME NEW k \in {1, 2}, D11!VkLeak(k), UNCHANGED x_tex
      PROVE  Inv11'
  <2> DEFINE F == x_next .. (x_next + k - 1)
  <2>1. D11!Vk(k, {}, F) /\ k \in Nat
    BY <1>4 DEF D11!VkLeak
  <2>2. OneOwner(Own11, Own11', "tex", F, {}, F, {})
    BY SMTT(30), <1>2, <1>4, Own11At, Own11AtNext DEF OneOwner, Owner11
  <2>3. x_ref' = x_ref
    BY <1>1, <1>4 DEF Inv11, Types11, D11!Object
  <2>4. Types11' /\ Links11' /\ Named11'
    BY <1>2, <1>4, <2>3 DEF Inv11, Types11, Links11, Named11, Images11, D11!Live
  <2> QED
    BY <1>2, <2>1, <2>2, <2>4, ObjectStep11
<1> QED
  BY <1>3, <1>4 DEF D11!create_texture_2d

LEMMA GetBuffer11 ==
  ASSUME Inv11, D11!swapchain_get_buffer
  PROVE  Inv11'
<1>1. /\ x_ref["swapchain"] > 0 /\ x_ref["tex"] = 0
      /\ x_ref' = [x_ref EXCEPT !["tex"] = 1]
      /\ x_back # 0
      /\ x_tex' = [kind |-> "texture", image |-> x_back, memory |-> 0]
      /\ UNCHANGED <<x_live, x_next, x_twice, x_leaked, x_pool, x_orphans, x_back, x_rtv,
                     x_buf, x_shader, x_ctx, x_submits>>
  BY DEF D11!swapchain_get_buffer, D11!Counts, D11!Live, D11!Null, D11!vkVars, Inv11, Types11,
         D11!Object
<1>2. x_tex = D11!None /\ x_back # 0 /\ x_back \in Nat
  BY <1>1 DEF Inv11, Types11, Links11, D11!Live
<1>3. x_tex' \in Textures11 /\ x_tex' # D11!None /\ x_tex'.memory = 0 /\ x_tex'.image = x_back
  BY <1>1, <1>2, NotNone11 DEF Textures11
<1>4. \A p \in Owner11 : Own11'[p] = Own11[p]
  <2>1. OwnedTexture(x_tex) = {} /\ OwnedTexture(x_tex') = {}
    BY <1>2, <1>3 DEF OwnedTexture
  <2>2. UNCHANGED <<x_pool, x_orphans, x_back, x_rtv, x_buf, x_shader, x_ctx>>
    BY <1>1
  <2> QED
    BY SMTT(30), <2>1, <2>2, Own11At, Own11AtNext DEF Owner11
<1>5. Types11'
  BY <1>1, <1>3 DEF Inv11, Types11, D11!Object
<1>6. Links11'
  BY <1>1, <1>2, <1>3 DEF Inv11, Types11, Links11, D11!Live, D11!Object, D11!Stage
<1>7. Named11'
  BY <1>1, <1>2, <1>3 DEF Inv11, Named11, Images11
<1> QED
  BY <1>1, <1>4, <1>5, <1>6, <1>7, Vk11Idle, SameOwners11, ObjectStep11

LEMMA ResizeBuffers11 ==
  ASSUME Inv11, D11!swapchain_resize_buffers
  PROVE  Inv11'
<1>1. PICK n \in {0, 1} :
        /\ D11!Vk(n, {x_back} \ {0}, {})
        /\ x_back' = IF n = 1 THEN x_next ELSE 0
  BY DEF D11!swapchain_resize_buffers, D11!VkDestroy, D11!Null
<1>2. /\ x_ref["swapchain"] > 0 /\ x_ref["tex"] = 0 /\ x_ref["rtv"] = 0
      /\ x_ctx # D11!None => x_back \notin x_ctx.uses
      /\ UNCHANGED <<x_ref, x_pool, x_orphans, x_tex, x_rtv, x_buf, x_shader, x_ctx, x_submits>>
  BY DEF D11!swapchain_resize_buffers, D11!NoCount, D11!Live, Inv11, Types11, D11!Object
<1>3. x_tex = D11!None /\ x_rtv = D11!None /\ x_next \in Nat \ {0} /\ n \in Nat /\ x_back' \in Nat
  BY <1>1, <1>2, Facts11 DEF Inv11, Links11, D11!Live
<1>4. OneOwner(Own11, Own11', "swapchain", x_next .. (x_next + n - 1), {x_back} \ {0}, {},
               {x_back'} \ {0})
  <2>1. Own11["swapchain"] = {x_back} \ {0} /\ Own11'["swapchain"] = {x_back'} \ {0}
    BY Own11At, Own11AtNext
  <2>2. \A p \in Owner11 : p # "swapchain" => Own11'[p] = Own11[p]
    BY ZenonT(60), <1>2, Own11At, Own11AtNext DEF Owner11
  <2>3. {x_back'} \ {0} = x_next .. (x_next + n - 1)
    <3>1. CASE n = 1
      <4>1. x_next .. (x_next + n - 1) = {x_next}
        BY <1>3, <3>1
      <4> QED
        BY <1>1, <1>3, <3>1, <4>1
    <3>2. CASE n = 0
      <4>1. x_next .. (x_next + n - 1) = {}
        BY <1>3, <3>2
      <4> QED
        BY <1>1, <3>2, <4>1
    <3> QED
      BY <3>1, <3>2
  <2>4. "swapchain" \in Owner11 /\ DOMAIN Own11 = Owner11 /\ DOMAIN Own11' = Owner11
    BY Own11At, Own11AtNext DEF Owner11
  <2> QED
    BY <2>1, <2>2, <2>3, <2>4 DEF OneOwner
<1>5. Types11'
  BY <1>2, <1>3 DEF Inv11, Types11
<1>6. Links11'
  BY <1>2, <1>3 DEF Inv11, Links11, D11!Live
<1>7. Named11'
  BY <1>2, <1>3 DEF Inv11, Named11, Images11
<1> QED
  BY <1>1, <1>2, <1>3, <1>4, <1>5, <1>6, <1>7, ObjectStep11

\* Only counts change, and no pointer that matters comes or goes.
LEMMA Count11 ==
  ASSUME Inv11, x_ref' \in [D11!Object -> Nat],
         \A o \in D11!Object \ {"state"} : x_ref'[o] > 0 <=> x_ref[o] > 0,
         UNCHANGED <<x_live, x_next, x_twice, x_leaked, x_pool, x_orphans, x_back, x_tex, x_rtv,
                     x_buf, x_shader, x_ctx, x_submits>>
  PROVE  Inv11'
<1>1. \A p \in Owner11 : Own11'[p] = Own11[p]
  BY ZenonT(60), Own11At, Own11AtNext DEF Owner11
<1>2. Types11'
  BY DEF Inv11, Types11
<1>3. Links11'
  BY DEF Inv11, Links11, D11!Live, D11!Object, D11!Stage
<1>4. Named11'
  BY DEF Inv11, Named11, Images11
<1> QED
  BY <1>1, <1>2, <1>3, <1>4, Vk11Idle, SameOwners11, ObjectStep11

LEMMA AddRef11 ==
  ASSUME Inv11, NEW o \in D11!Object, D11!Live(o),
         x_ref' = [x_ref EXCEPT ![o] = @ + 1], UNCHANGED <<D11!vkVars, D11!d3d11Vars>>
  PROVE  Inv11'
<1>1. x_ref \in [D11!Object -> Nat] /\ x_ref[o] > 0
  BY DEF Inv11, Types11, D11!Live
<1>2. x_ref' \in [D11!Object -> Nat]
  BY <1>1
<1>3. \A p \in D11!Object \ {"state"} : x_ref'[p] > 0 <=> x_ref[p] > 0
  BY <1>1
<1> QED
  BY <1>2, <1>3, Count11 DEF D11!vkVars, D11!d3d11Vars

LEMMA CreateState11 ==
  ASSUME Inv11, D11!device_create_state
  PROVE  Inv11'
<1>1. x_ref \in [D11!Object -> Nat] /\ x_ref' = [x_ref EXCEPT !["state"] = 1]
  BY DEF Inv11, Types11, D11!device_create_state, D11!Counts
<1>2. x_ref' \in [D11!Object -> Nat]
  BY <1>1
<1>3. \A p \in D11!Object \ {"state"} : x_ref'[p] > 0 <=> x_ref[p] > 0
  BY <1>1
<1> QED
  BY <1>2, <1>3, Count11 DEF D11!device_create_state, D11!vkVars, D11!d3d11Vars

\* Several owners change.
LEMMA Owners11Step ==
  ASSUME Owners11, NEW n \in Nat, NEW D, NEW L,
         D11!Vk(n, D, L),
         HandsOver(Own11, Own11', x_next .. (x_next + n - 1), D, L),
         \A h \in D : h \in x_live /\ h \notin x_leaked
  PROVE  Owners11'
<1>1. /\ x_live' = (x_live \ D) \cup (x_next .. (x_next + n - 1))
      /\ x_leaked' = x_leaked \cup L
      /\ x_next' = x_next + n
      /\ x_next + n - 1 <= Frames11
      /\ x_twice' = x_twice \cup (D \ x_live)
  BY DEF D11!Vk
<1>2. Accounted(Own11, x_live, x_leaked, x_next)
  BY DEF Owners11
<1>3. D \cap x_leaked = {}
  OBVIOUS
<1>4. Accounted(Own11', (x_live \ D) \cup (x_next .. (x_next + n - 1)),
                x_leaked \cup L, x_next + n)
  BY <1>2, <1>3, AccountStep
<1>5. x_twice' = {}
  BY <1>1 DEF Owners11
<1>6. x_next \in Nat /\ Frames11 \in Nat
  BY <1>2, GraphicsAssumption DEF Accounted
<1>7. x_next + n <= Frames11 + 1
  BY <1>1, <1>6
<1> QED
  BY <1>1, <1>4, <1>5, <1>7 DEF Owners11

\* The last Release of a pointer that is not the context's.
LEMMA DropTexture11 ==
  ASSUME Inv11, x_ref["tex"] = 1, ~D11!Needed("tex"), x_ref' = [x_ref EXCEPT !["tex"] = 0],
         D11!drop_texture
  PROVE  Inv11'
<1>1. /\ D11!Vk(0, IF x_tex.memory = 0 THEN {} ELSE {x_tex.image, x_tex.memory}, {})
      /\ x_tex' = D11!None
      /\ UNCHANGED <<x_pool, x_orphans, x_back, x_rtv, x_buf, x_shader, x_ctx, x_submits>>
  BY DEF D11!drop_texture, D11!VkDestroy, D11!Null
<1>2. x_tex # D11!None /\ x_next \in Nat
  BY Facts11 DEF Inv11, Links11, D11!Live
<1>3. OneOwner(Own11, Own11', "tex", x_next .. (x_next + 0 - 1), OwnedTexture(x_tex), {}, {})
  <2>1. Own11["tex"] = OwnedTexture(x_tex) /\ Own11'["tex"] = {}
    BY <1>1, Own11At, Own11AtNext DEF OwnedTexture
  <2>2. \A p \in Owner11 : p # "tex" => Own11'[p] = Own11[p]
    BY ZenonT(60), <1>1, Own11At, Own11AtNext DEF Owner11
  <2> QED
    BY <1>2, <2>1, <2>2, Own11At, Own11AtNext DEF OneOwner, Owner11
<1>4. D11!Vk(0, OwnedTexture(x_tex), {})
  BY <1>1, <1>2 DEF OwnedTexture
<1>5. Types11'
  BY <1>1 DEF Inv11, Types11, D11!Object
<1>6. Links11'
  BY <1>1, <1>2 DEF Inv11, Types11, Links11, D11!Live, D11!Object, D11!Stage
<1>7. Named11'
  <2>1. /\ x_ctx # D11!None => x_tex.image \notin x_ctx.uses
        /\ x_rtv # D11!None => x_rtv.image # x_tex.image
    BY DEF D11!Needed, D11!Uses, D11!Stage
  <2> QED
    BY <1>1, <1>2, <2>1 DEF Inv11, Named11, Images11
<1> QED
  BY <1>1, <1>3, <1>4, <1>5, <1>6, <1>7, ObjectStep11

LEMMA DropSwapchain11 ==
  ASSUME Inv11, x_ref["swapchain"] = 1, ~D11!Needed("swapchain"),
         x_ref' = [x_ref EXCEPT !["swapchain"] = 0], D11!Vk(0, {x_back} \ {0}, {}), x_back' = 0,
         UNCHANGED <<x_pool, x_orphans, x_tex, x_rtv, x_buf, x_shader, x_ctx, x_submits>>
  PROVE  Inv11'
<1>1. x_next \in Nat
  BY Facts11
<1>2. OneOwner(Own11, Own11', "swapchain", x_next .. (x_next + 0 - 1), {x_back} \ {0}, {}, {})
  <2>1. Own11["swapchain"] = {x_back} \ {0} /\ Own11'["swapchain"] = {}
    BY Own11At, Own11AtNext
  <2>2. \A p \in Owner11 : p # "swapchain" => Own11'[p] = Own11[p]
    BY ZenonT(60), Own11At, Own11AtNext DEF Owner11
  <2> QED
    BY <1>1, <2>1, <2>2, Own11At, Own11AtNext DEF OneOwner, Owner11
<1>3. Types11'
  BY DEF Inv11, Types11, D11!Object
<1>4. Links11'
  BY <1>1 DEF Inv11, Types11, Links11, D11!Live, D11!Object, D11!Stage
<1>5. Named11'
  <2>1. /\ x_ctx # D11!None => x_back \notin x_ctx.uses
        /\ x_rtv # D11!None => x_rtv.image # x_back
        /\ x_tex # D11!None => x_tex.image # x_back
    BY DEF D11!Needed, D11!Uses, D11!Stage
  <2> QED
    BY <2>1 DEF Inv11, Named11, Images11
<1> QED
  BY <1>2, <1>3, <1>4, <1>5, ObjectStep11

LEMMA DropRtv11 ==
  ASSUME Inv11, x_ref["rtv"] = 1, x_ref' = [x_ref EXCEPT !["rtv"] = 0], D11!drop_rtv
  PROVE  Inv11'
<1>1. /\ D11!Vk(0, {x_rtv.view}, {})
      /\ x_rtv' = D11!None
      /\ UNCHANGED <<x_pool, x_orphans, x_back, x_tex, x_buf, x_shader, x_ctx, x_submits>>
  BY DEF D11!drop_rtv, D11!VkDestroy
<1>2. x_rtv # D11!None /\ x_next \in Nat
  BY Facts11 DEF Inv11, Links11, D11!Live
<1>3. OneOwner(Own11, Own11', "rtv", x_next .. (x_next + 0 - 1), {x_rtv.view}, {}, {})
  <2>1. Own11["rtv"] = {x_rtv.view} /\ Own11'["rtv"] = {}
    BY <1>1, <1>2, Own11At, Own11AtNext
  <2>2. \A p \in Owner11 : p # "rtv" => Own11'[p] = Own11[p]
    BY ZenonT(60), <1>1, Own11At, Own11AtNext DEF Owner11
  <2> QED
    BY <1>2, <2>1, <2>2, Own11At, Own11AtNext DEF OneOwner, Owner11
<1>4. Types11'
  BY <1>1 DEF Inv11, Types11, D11!Object
<1>5. Links11'
  BY <1>1, <1>2 DEF Inv11, Types11, Links11, D11!Live, D11!Object, D11!Stage
<1>6. Named11'
  BY <1>1 DEF Inv11, Named11, Images11
<1> QED
  BY <1>1, <1>3, <1>4, <1>5, <1>6, ObjectStep11

LEMMA DropBuffer11 ==
  ASSUME Inv11, x_ref["buf"] = 1, x_ref' = [x_ref EXCEPT !["buf"] = 0], D11!drop_buffer
  PROVE  Inv11'
<1>1. /\ D11!Vk(0, {x_buf.buffer, x_buf.memory}, {})
      /\ x_buf' = D11!None
      /\ UNCHANGED <<x_pool, x_orphans, x_back, x_tex, x_rtv, x_shader, x_ctx, x_submits>>
  BY DEF D11!drop_buffer, D11!VkDestroy
<1>2. x_buf # D11!None /\ x_next \in Nat
  BY Facts11 DEF Inv11, Links11, D11!Live
<1>3. OneOwner(Own11, Own11', "buf", x_next .. (x_next + 0 - 1),
               {x_buf.buffer, x_buf.memory}, {}, {})
  <2>1. Own11["buf"] = {x_buf.buffer, x_buf.memory} /\ Own11'["buf"] = {}
    BY <1>1, <1>2, Own11At, Own11AtNext
  <2>2. \A p \in Owner11 : p # "buf" => Own11'[p] = Own11[p]
    BY <1>1, Own11At, Own11AtNext DEF Owner11
  <2> QED
    BY <1>2, <2>1, <2>2, Own11At, Own11AtNext DEF OneOwner, Owner11
<1>4. Types11'
  BY <1>1 DEF Inv11, Types11, D11!Object
<1>5. Links11'
  BY <1>1, <1>2 DEF Inv11, Types11, Links11, D11!Live, D11!Object, D11!Stage
<1>6. Named11'
  BY <1>1 DEF Inv11, Named11, Images11
<1> QED
  BY <1>1, <1>3, <1>4, <1>5, <1>6, ObjectStep11

LEMMA DropShader11 ==
  ASSUME Inv11, NEW stage \in D11!Stage, x_ref[stage] = 1,
         x_ref' = [x_ref EXCEPT ![stage] = 0], D11!drop_shader(stage)
  PROVE  Inv11'
<1>1. /\ D11!Vk(0, {x_shader[stage]}, {})
      /\ x_shader' = [x_shader EXCEPT ![stage] = 0]
      /\ UNCHANGED <<x_pool, x_orphans, x_back, x_tex, x_rtv, x_buf, x_ctx, x_submits>>
  BY DEF D11!drop_shader, D11!VkDestroy, D11!Null
<1>2. x_shader[stage] # 0 /\ x_next \in Nat /\ x_shader \in [D11!Stage -> Nat]
  BY Facts11 DEF Inv11, Types11, Links11, D11!Live
<1>3. stage = "Vertex" \/ stage = "Pixel"
  BY DEF D11!Stage
<1>4. OneOwner(Own11, Own11', stage, x_next .. (x_next + 0 - 1), {x_shader[stage]}, {}, {})
  <2>1. Own11[stage] = {x_shader[stage]} /\ Own11'[stage] = {}
    BY <1>1, <1>2, <1>3, Own11At, Own11AtNext
  <2>2. \A p \in Owner11 : p # stage => Own11'[p] = Own11[p]
    <3>0. UNCHANGED <<x_pool, x_orphans, x_back, x_tex, x_rtv, x_buf, x_ctx>>
      BY <1>1
    <3>1. \A s \in D11!Stage : s # stage => x_shader'[s] = x_shader[s]
      BY <1>1, <1>2
    <3>2. CASE stage = "Vertex"
      <4>1. x_shader'["Pixel"] = x_shader["Pixel"]
        BY <3>1, <3>2 DEF D11!Stage
      <4> QED
        BY ZenonT(60), <3>0, <3>2, <4>1, Own11At, Own11AtNext DEF Owner11
    <3>3. CASE stage = "Pixel"
      <4>1. x_shader'["Vertex"] = x_shader["Vertex"]
        BY <3>1, <3>3 DEF D11!Stage
      <4> QED
        BY ZenonT(60), <3>0, <3>3, <4>1, Own11At, Own11AtNext DEF Owner11
    <3> QED
      BY <1>3, <3>2, <3>3
  <2> QED
    BY <1>2, <1>3, <2>1, <2>2, Own11At, Own11AtNext DEF OneOwner, Owner11
<1>5. Types11'
  BY <1>1, <1>2 DEF Inv11, Types11, D11!Object, D11!Stage
<1>6. Links11'
  BY <1>1, <1>2, <1>3 DEF Inv11, Types11, Links11, D11!Live, D11!Object, D11!Stage
<1>7. Named11'
  BY <1>1 DEF Inv11, Named11, Images11
<1> QED
  BY <1>1, <1>4, <1>5, <1>6, <1>7, ObjectStep11

LEMMA DropDevice11 ==
  ASSUME Inv11, x_ref["device"] = 1, x_ref' = [x_ref EXCEPT !["device"] = 0],
         D11!drop_device(D11!Live("context"))
  PROVE  Inv11'
<1> DEFINE D == D11!DropPool(D11!Live("context"))
<1>1. /\ D11!Vk(0, D, {})
      /\ x_pool' = IF D = {} THEN x_pool ELSE 0
      /\ x_orphans' = IF D = {} THEN x_orphans ELSE {}
      /\ UNCHANGED <<x_back, x_tex, x_rtv, x_buf, x_shader, x_ctx, x_submits>>
  BY DEF D11!drop_device, D11!VkDestroy, D11!Null
<1>2. x_pool # 0 /\ x_next \in Nat
  BY Facts11 DEF Inv11, Links11, D11!Live
<1>3. D = IF D11!Live("context") THEN {} ELSE {x_pool} \cup x_orphans
  BY DEF D11!DropPool
<1>4. /\ D \subseteq Own11["device"]
      /\ Own11'["device"] = (Own11["device"] \ D) \cup {}
  BY <1>1, <1>2, <1>3, Own11At, Own11AtNext
<1>5. OneOwner(Own11, Own11', "device", x_next .. (x_next + 0 - 1), D, {}, {})
  <2>1. \A p \in Owner11 : p # "device" => Own11'[p] = Own11[p]
    BY ZenonT(60), <1>1, Own11At, Own11AtNext DEF Owner11
  <2> QED
    BY <1>2, <1>4, <2>1, Own11At, Own11AtNext DEF OneOwner, Owner11
<1>6. Types11'
  BY <1>1 DEF Inv11, Types11, D11!Object
<1>7. Links11'
  <2>1. x_pool' # 0 <=> D11!Live("context")
    BY <1>1, <1>2, <1>3
  <2>2. x_orphans' # {} => x_pool' # 0
    BY <1>1, <1>2, <1>3
  <2>3. \A o \in D11!Object : o # "device" => x_ref'[o] = x_ref[o]
    BY DEF Inv11, Types11
  <2>4. x_ref'["device"] = 0
    BY DEF Inv11, Types11, D11!Object
  <2>5. UNCHANGED <<x_back, x_tex, x_rtv, x_buf, x_shader, x_ctx>>
    BY <1>1
  <2> QED
    BY <2>1, <2>2, <2>3, <2>4, <2>5 DEF Inv11, Links11, D11!Live, D11!Object, D11!Stage
<1>8. Named11'
  BY <1>1 DEF Inv11, Named11, Images11
<1> QED
  BY <1>1, <1>5, <1>6, <1>7, <1>8, ObjectStep11

\* The context goes, and with it the pool when the device's pointer is gone.
LEMMA DropContext11 ==
  ASSUME Inv11, x_ref["context"] = 1, x_ref' = [x_ref EXCEPT !["context"] = 0],
         D11!drop_context(D11!Live("device"))
  PROVE  Inv11'
<1> DEFINE P == D11!DropPool(D11!Live("device"))
           C == x_ctx.target \cup {x_ctx.command_buffer}
<1>1. /\ D11!Vk(0, C \cup P, {})
      /\ x_pool' = IF P = {} THEN x_pool ELSE 0
      /\ x_orphans' = IF P = {} THEN x_orphans ELSE {}
      /\ x_ctx' = D11!None
      /\ UNCHANGED <<x_back, x_tex, x_rtv, x_buf, x_shader, x_submits>>
  BY DEF D11!drop_context, D11!VkDestroy, D11!Null
<1>2. x_pool # 0 /\ x_ctx # D11!None /\ x_next \in Nat
  BY Facts11 DEF Inv11, Links11, D11!Live
<1>3. P = IF D11!Live("device") THEN {} ELSE {x_pool} \cup x_orphans
  BY DEF D11!DropPool
<1>4. /\ Own11["context"] = C /\ Own11'["context"] = {}
      /\ P \subseteq Own11["device"] /\ Own11'["device"] = Own11["device"] \ P
  BY <1>1, <1>2, <1>3, Own11At, Own11AtNext
<1>5. \A p \in Owner11 : p \notin {"context", "device"} => Own11'[p] = Own11[p]
  BY <1>1, Own11At, Own11AtNext DEF Owner11
<1>6. /\ \A p, q \in Owner11 : p # q => Own11[p] \cap Own11[q] = {}
      /\ \A p \in Owner11 : Own11[p] \subseteq x_live /\ Own11[p] \cap x_leaked = {}
  BY Own11At DEF Inv11, Owners11, Accounted
<1>7. DOMAIN Own11 = Owner11 /\ DOMAIN Own11' = Owner11 /\ "context" \in Owner11
      /\ "device" \in Owner11
  BY Own11At, Own11AtNext DEF Owner11
<1> HIDE DEF P, C
<1>8. HandsOver(Own11, Own11', x_next .. (x_next + 0 - 1), C \cup P, {})
  <2>1. ASSUME NEW p \in Owner11
        PROVE  /\ Own11'[p] \subseteq Own11[p] \ (C \cup P)
               /\ Own11[p] \subseteq Own11'[p] \cup (C \cup P)
    <3>1. CASE p = "context"
      BY <1>4, <3>1
    <3>2. CASE p = "device"
      <4>1. Own11["device"] \cap C = {}
        BY <1>4, <1>6, <1>7
      <4> QED
        BY <1>4, <3>2, <4>1
    <3>3. CASE p \notin {"context", "device"}
      <4>1. Own11[p] \cap C = {} /\ Own11[p] \cap Own11["device"] = {}
        BY <1>4, <1>6, <1>7, <3>3
      <4> QED
        BY <1>4, <1>5, <3>3, <4>1
    <3> QED
      BY <3>1, <3>2, <3>3
  <2>2. x_next .. (x_next + 0 - 1) = {}
    BY <1>2
  <2> QED
    BY <1>7, <2>1, <2>2 DEF HandsOver
<1>9. \A h \in C \cup P : h \in x_live /\ h \notin x_leaked
  BY <1>4, <1>6, <1>7
<1>10. Owners11'
  BY <1>1, <1>8, <1>9, Owners11Step DEF Inv11
<1>11. Types11'
  BY <1>1 DEF Inv11, Types11, D11!Object
<1>12. Links11'
  <2>1. x_pool' # 0 <=> D11!Live("device")
    BY <1>1, <1>2, <1>3
  <2>2. x_orphans' # {} => x_pool' # 0
    BY <1>1, <1>2, <1>3
  <2>3. \A o \in D11!Object : o # "context" => x_ref'[o] = x_ref[o]
    BY DEF Inv11, Types11
  <2>4. x_ref'["context"] = 0
    BY DEF Inv11, Types11, D11!Object
  <2>5. UNCHANGED <<x_back, x_tex, x_rtv, x_buf, x_shader>> /\ x_ctx' = D11!None
    BY <1>1
  <2> QED
    BY <2>1, <2>2, <2>3, <2>4, <2>5 DEF Inv11, Links11, D11!Live, D11!Object, D11!Stage
<1>13. Named11' /\ Recording11'
  BY <1>1 DEF Inv11, Named11, Images11, Recording11
<1> QED
  BY <1>10, <1>11, <1>12, <1>13 DEF Inv11

\* Release.
LEMMA Release11 ==
  ASSUME Inv11, NEW o \in D11!Object, D11!com_release(o)
  PROVE  Inv11'
<1>1. x_ref \in [D11!Object -> Nat] /\ x_ref[o] > 0 /\ ~D11!Needed(o)
      /\ x_ref' = [x_ref EXCEPT ![o] = @ - 1]
  BY DEF D11!com_release, D11!Live, Inv11, Types11
<1>2. CASE x_ref[o] # 1
  <2>1. x_ref' \in [D11!Object -> Nat]
    BY <1>1, <1>2
  <2>2. \A p \in D11!Object \ {"state"} : x_ref'[p] > 0 <=> x_ref[p] > 0
    BY <1>1, <1>2
  <2>3. UNCHANGED <<D11!vkVars, D11!d3d11Vars>>
    BY <1>2 DEF D11!com_release
  <2> QED
    BY <2>1, <2>2, <2>3, Count11 DEF D11!vkVars, D11!d3d11Vars
<1>3. CASE x_ref[o] = 1
  <2>1. x_ref' = [x_ref EXCEPT ![o] = 0]
    BY <1>1, <1>3
  <2>2. D11!Drop(o)
    BY <1>3 DEF D11!com_release
  <2>3. CASE o = "device"
    BY <1>1, <1>3, <2>1, <2>2, <2>3, DropDevice11 DEF D11!Drop, D11!Stage
  <2>4. CASE o = "context"
    BY <1>1, <1>3, <2>1, <2>2, <2>4, DropContext11 DEF D11!Drop, D11!Stage
  <2>5. CASE o = "swapchain"
    BY <1>1, <1>3, <2>1, <2>2, <2>5, DropSwapchain11 DEF D11!Drop, D11!Stage, D11!VkDestroy, D11!Null
  <2>6. CASE o = "tex"
    BY <1>1, <1>3, <2>1, <2>2, <2>6, DropTexture11 DEF D11!Drop, D11!Stage
  <2>7. CASE o = "rtv"
    BY <1>1, <1>3, <2>1, <2>2, <2>7, DropRtv11 DEF D11!Drop, D11!Stage
  <2>8. CASE o = "buf"
    BY <1>1, <1>3, <2>1, <2>2, <2>8, DropBuffer11 DEF D11!Drop, D11!Stage
  <2>9. CASE o \in D11!Stage
    <3>1. D11!drop_shader(o)
      BY <2>2, <2>9 DEF D11!Drop, D11!Stage
    <3> QED
      BY <1>1, <1>3, <2>1, <2>9, <3>1, DropShader11
  <2>10. CASE o = "state"
    <3>1. UNCHANGED <<D11!vkVars, D11!d3d11Vars>>
      BY <2>2, <2>10 DEF D11!Drop, D11!Stage
    <3>2. x_ref' \in [D11!Object -> Nat]
      BY <1>1, <2>1
    <3>3. \A p \in D11!Object \ {"state"} : x_ref'[p] > 0 <=> x_ref[p] > 0
      BY <1>1, <2>1, <2>10
    <3> QED
      BY <3>1, <3>2, <3>3, Count11 DEF D11!vkVars, D11!d3d11Vars
  <2> QED
    BY <2>3, <2>4, <2>5, <2>6, <2>7, <2>8, <2>9, <2>10 DEF D11!Object, D11!Stage
<1> QED
  BY <1>2, <1>3

\* D3D11CreateDevice: the device and its context, when nothing was made yet; with
\* a swap chain also its image.
LEMMA CreateDevice11 ==
  ASSUME Inv11, D11!d3d11_create_device \/ D11!d3d11_create_device_and_swap_chain
  PROVE  Inv11'
<1>1. PICK chain \in BOOLEAN :
        /\ x_next = 1
        /\ D11!Vk(IF chain THEN 3 ELSE 2, {}, {})
        /\ x_back' = IF chain THEN 1 ELSE x_back
        /\ x_pool' = IF chain THEN 2 ELSE 1
        /\ x_ctx' = D11!NewContext(IF chain THEN 3 ELSE 2)
        /\ x_ref' = IF chain
                      THEN [x_ref EXCEPT !["device"] = 1, !["context"] = 1, !["swapchain"] = 1]
                      ELSE [x_ref EXCEPT !["device"] = 1, !["context"] = 1]
        /\ UNCHANGED <<x_orphans, x_tex, x_rtv, x_buf, x_shader, x_submits>>
  <2>1. CASE D11!d3d11_create_device
    <3>1. /\ x_next = 1 /\ x_next + 1 = 2
          /\ D11!Vk(2, {}, {})
          /\ x_pool' = x_next /\ x_ctx' = D11!NewContext(x_next + 1)
          /\ x_ref' = [x_ref EXCEPT !["device"] = 1, !["context"] = 1]
          /\ UNCHANGED <<x_orphans, x_back, x_tex, x_rtv, x_buf, x_shader, x_submits>>
      BY <2>1 DEF D11!d3d11_create_device
    <3> WITNESS FALSE \in BOOLEAN
    <3> QED
      BY <3>1
  <2>2. CASE D11!d3d11_create_device_and_swap_chain
    <3>1. /\ x_next = 1 /\ x_next + 1 = 2 /\ x_next + 2 = 3
          /\ D11!Vk(3, {}, {})
          /\ x_back' = x_next /\ x_pool' = x_next + 1 /\ x_ctx' = D11!NewContext(x_next + 2)
          /\ x_ref' = [x_ref EXCEPT !["device"] = 1, !["context"] = 1, !["swapchain"] = 1]
          /\ UNCHANGED <<x_orphans, x_tex, x_rtv, x_buf, x_shader, x_submits>>
      BY <2>2 DEF D11!d3d11_create_device_and_swap_chain
    <3> WITNESS TRUE \in BOOLEAN
    <3> QED
      BY <3>1
  <2> QED
    BY <2>1, <2>2
<1> DEFINE n == IF chain THEN 3 ELSE 2
           c == IF chain THEN 3 ELSE 2
<1>2. x_live = {} /\ x_leaked = {} /\ \A p \in Owner11 : Own11[p] = {}
  <2>1. x_live \subseteq 1 .. (x_next - 1)
    BY Facts11
  <2>2. x_live = {}
    BY <1>1, <2>1
  <2> QED
    BY <2>2, Facts11
<1>3. /\ x_orphans = {} /\ x_pool = 0 /\ x_back = 0 /\ x_ctx = D11!None
      /\ x_tex = D11!None /\ x_rtv = D11!None
  <2>1. Own11["device"] = {} /\ Own11["swapchain"] = {} /\ Own11["context"] = {}
        /\ Own11["rtv"] = {} /\ Own11["tex"] = {}
    BY <1>2 DEF Owner11
  <2>2. x_orphans = {} /\ x_pool = 0 /\ x_back = 0 /\ x_ctx = D11!None /\ x_rtv = D11!None
    BY <2>1, Own11At
  <2>3. x_tex # D11!None => x_tex.image \in {x_back}
    BY <2>1, Own11At DEF OwnedTexture, Inv11, Named11
  <2>4. x_tex = D11!None
    BY <2>1, <2>2, Own11At DEF OwnedTexture, Inv11, Named11
  <2> QED
    BY <2>2, <2>4
<1>4. /\ x_ctx' \in Contexts11 /\ x_ctx' # D11!None
      /\ x_ctx'.target = {} /\ x_ctx'.command_buffer = c /\ ~x_ctx'.drew
      /\ x_ctx'.uses = {} /\ ~x_ctx'.recording /\ ~x_ctx'.misplaced
  <2>1. [s \in D11!Stage |-> 0] \in [D11!Stage -> Nat]
    OBVIOUS
  <2>2. c \in Nat /\ x_ctx' = D11!NewContext(c)
    BY <1>1
  <2> HIDE DEF c
  <2>3. x_ctx' \in Contexts11
    BY <2>1, <2>2 DEF D11!NewContext, D11!NoShader, D11!Null, Contexts11
  <2> QED
    BY <2>2, <2>3, NotNone11 DEF D11!NewContext
<1>5. HandsOver(Own11, Own11', x_next .. (x_next + n - 1), {}, {})
  <2>1. /\ Own11'["device"] = IF chain THEN {2} ELSE {1}
        /\ Own11'["swapchain"] = IF chain THEN {1} ELSE {}
        /\ Own11'["context"] = {c}
    BY <1>1, <1>3, <1>4, Own11AtNext
  <2>2. \A p \in Owner11 : p \notin {"device", "swapchain", "context"} => Own11'[p] = {}
    <3>1. \A p \in Owner11 : p \notin {"device", "swapchain", "context"} => Own11'[p] = Own11[p]
      BY <1>1, Own11At, Own11AtNext DEF Owner11
    <3> QED
      BY <1>2, <3>1
  <2>3. x_next .. (x_next + n - 1) = IF chain THEN {1, 2, 3} ELSE {1, 2}
    <3>1. x_next = 1 /\ 1 .. (1 + 3 - 1) = {1, 2, 3} /\ 1 .. (1 + 2 - 1) = {1, 2}
      BY <1>1
    <3> QED
      BY <3>1
  <2>4. DOMAIN Own11 = Owner11 /\ DOMAIN Own11' = Owner11
    BY Own11At, Own11AtNext
  <2>5. {"device", "swapchain", "context"} \subseteq Owner11
    BY DEF Owner11
  <2>6. CASE chain
    <3>1. c = 3
      BY <2>6
    <3>2. \A p \in Owner11 : Own11'[p] = IF p = "device" THEN {2} ELSE
                                         IF p = "swapchain" THEN {1} ELSE
                                         IF p = "context" THEN {3} ELSE {}
      BY <2>1, <2>2, <2>6, <3>1
    <3> HIDE DEF n, c
    <3> QED
      BY <1>2, <2>3, <2>4, <2>5, <2>6, <3>2 DEF HandsOver
  <2>7. CASE ~chain
    <3>1. c = 2
      BY <2>7
    <3>2. \A p \in Owner11 : Own11'[p] = IF p = "device" THEN {1} ELSE
                                         IF p = "context" THEN {2} ELSE {}
      BY <2>1, <2>2, <2>7, <3>1
    <3> HIDE DEF n, c
    <3> QED
      BY <1>2, <2>3, <2>4, <2>5, <2>7, <3>2 DEF HandsOver
  <2> QED
    BY <2>6, <2>7
<1>6. Owners11'
  <2>1. n \in Nat /\ \A h \in {} : h \in x_live /\ h \notin x_leaked
    OBVIOUS
  <2>2. D11!Vk(n, {}, {})
    BY <1>1
  <2> HIDE DEF n
  <2> QED
    BY <1>5, <2>1, <2>2, Owners11Step DEF Inv11
<1>7. Types11'
  BY <1>1, <1>4 DEF Inv11, Types11, D11!Object
<1>8. Links11'
  <2>1. /\ x_ref'["device"] = 1 /\ x_ref'["context"] = 1
        /\ x_ref'["swapchain"] = IF chain THEN 1 ELSE x_ref["swapchain"]
        /\ \A o \in D11!Object : o \notin {"device", "context", "swapchain"} => x_ref'[o] = x_ref[o]
    BY <1>1 DEF Inv11, Types11, D11!Object
  <2>2. x_ctx' # D11!None /\ x_ctx'.target = {} /\ x_pool' # 0 /\ x_back' = IF chain THEN 1 ELSE x_back
    BY <1>1, <1>4
  <2>3. UNCHANGED <<x_tex, x_rtv, x_buf, x_shader>>
    BY <1>1
  <2> QED
    BY <2>1, <2>2, <2>3 DEF Inv11, Links11, D11!Live, D11!Object, D11!Stage
<1>9. Named11' /\ Recording11'
  BY <1>1, <1>3, <1>4 DEF Inv11, Named11, Images11, Recording11
<1> QED
  BY <1>6, <1>7, <1>8, <1>9 DEF Inv11

-----------------------------------------------------------------------------
(* The Direct3D 11 layer: the context *)

\* begin_recording leaves what the context owns; the frame starts with no uses.
LEMMA Began11 ==
  ASSUME Inv11, x_ctx # D11!None
  PROVE  /\ x_ctx \in Contexts11 /\ D11!Began \in Contexts11
         /\ D11!Began.target = x_ctx.target
         /\ D11!Began.command_buffer = x_ctx.command_buffer
         /\ D11!Began.recording
         /\ D11!Began.drew = x_ctx.drew
         /\ D11!Began.uses \subseteq x_ctx.uses
         /\ D11!Began.drew => D11!Began.uses = x_ctx.uses
         /\ D11!Began.failed = x_ctx.failed /\ D11!Began.misplaced = x_ctx.misplaced
         /\ ~D11!Began.failed => D11!Began.buffer = "recording"
<1>1. x_ctx \in Contexts11
  BY DEF Inv11, Types11
<1>2. CASE x_ctx.recording
  <2>1. D11!Began = x_ctx
    BY <1>2 DEF D11!Began, D11!begin_recording
  <2> QED
    BY <1>1, <1>2, <2>1 DEF Inv11, Recording11
<1>3. CASE ~x_ctx.recording
  <2>1. D11!Began = [x_ctx EXCEPT !.recording = TRUE, !.buffer = "recording", !.uses = {}]
    BY <1>3 DEF D11!Began, D11!begin_recording
  <2>2. ~x_ctx.drew
    BY <1>3 DEF Inv11, Recording11
  <2>3. D11!Began \in Contexts11
    BY <1>1, <2>1 DEF Contexts11
  <2> QED
    BY <1>1, <2>1, <2>2, <2>3 DEF Contexts11
<1> QED
  BY <1>2, <1>3

\* A step of the context: it stays, its buffer too, and everything else.
LEMMA ContextStep11 ==
  ASSUME Inv11, x_ctx # D11!None, x_ctx' \in Contexts11,
         x_ctx'.command_buffer = x_ctx.command_buffer,
         x_ctx'.command_buffer \notin x_ctx'.target,
         UNCHANGED <<x_pool, x_orphans, x_back, x_tex, x_rtv, x_buf, x_shader, x_ref>>,
         Owners11', Recording11', x_submits' \subseteq BOOLEAN
  PROVE  Inv11'
<1>1. Types11'
  BY DEF Inv11, Types11
<1>2. Links11'
  BY NotNone11 DEF Inv11, Links11, D11!Live
<1>3. Named11'
  BY NotNone11 DEF Inv11, Named11, Images11
<1> QED
  BY <1>1, <1>2, <1>3 DEF Inv11

\* The owners stay when the context keeps its target.
LEMMA ContextOwners11 ==
  ASSUME Inv11, x_ctx # D11!None, x_ctx' \in Contexts11,
         x_ctx'.command_buffer = x_ctx.command_buffer, x_ctx'.target = x_ctx.target,
         UNCHANGED <<x_pool, x_orphans, x_back, x_tex, x_rtv, x_buf, x_shader>>
  PROVE  \A p \in Owner11 : Own11'[p] = Own11[p]
BY ZenonT(60), Own11At, Own11AtNext, NotNone11 DEF Owner11

\* Commands and bindings that make no handle.
LEMMA ContextIdle11 ==
  ASSUME Inv11, x_ctx # D11!None, x_ctx' \in Contexts11,
         x_ctx'.command_buffer = x_ctx.command_buffer, x_ctx'.target = x_ctx.target,
         UNCHANGED <<x_live, x_next, x_twice, x_leaked, x_pool, x_orphans, x_back, x_tex,
                     x_rtv, x_buf, x_shader, x_ref, x_submits>>,
         Recording11'
  PROVE  Inv11'
<1>1. Owners11'
  BY ContextOwners11, SameOwners11, Vk11Idle, Owner11Step DEF Inv11
<1>2. x_submits' \subseteq BOOLEAN
  BY DEF Inv11, Types11
<1>3. x_ctx'.command_buffer \notin x_ctx'.target
  BY DEF Inv11, Links11
<1> QED
  BY <1>1, <1>2, <1>3, ContextStep11

LEMMA Clear11 ==
  ASSUME Inv11, x_ctx # D11!None, UNCHANGED x_ref, D11!clear_render_target_view
  PROVE  Inv11'
<1>1. /\ x_rtv # D11!None
      /\ x_ctx' = D11!Record(D11!Began, {x_rtv.image})
      /\ UNCHANGED <<x_live, x_next, x_twice, x_leaked, x_pool, x_orphans, x_back, x_tex,
                     x_rtv, x_buf, x_shader, x_submits>>
  BY DEF D11!clear_render_target_view, D11!vkVars
<1>2. x_rtv.image \in Images11 /\ x_rtv.image \in Nat
  BY <1>1 DEF Inv11, Named11, Types11, Views11
<1>3. PICK c : c = D11!Began
  OBVIOUS
<1>4. /\ c \in Contexts11 /\ c.target = x_ctx.target
      /\ c.command_buffer = x_ctx.command_buffer
      /\ c.recording /\ c.drew = x_ctx.drew /\ c.uses \subseteq x_ctx.uses
      /\ c.drew => c.uses = x_ctx.uses
      /\ c.failed = x_ctx.failed /\ c.misplaced = x_ctx.misplaced
      /\ ~c.failed => c.buffer = "recording"
  BY <1>3, Began11
<1>5. x_ctx' = [c EXCEPT !.uses = @ \cup {x_rtv.image},
                         !.misplaced = @ \/ c.buffer # "recording"]
  BY <1>1, <1>3 DEF D11!Record
<1>6. /\ x_ctx' \in Contexts11
      /\ x_ctx'.command_buffer = c.command_buffer /\ x_ctx'.target = c.target
      /\ x_ctx'.recording /\ x_ctx'.drew = c.drew /\ x_ctx'.uses = c.uses \cup {x_rtv.image}
      /\ x_ctx'.failed = c.failed /\ x_ctx'.buffer = c.buffer
      /\ x_ctx'.misplaced = (c.misplaced \/ c.buffer # "recording")
  BY <1>2, <1>4, <1>5 DEF Contexts11
<1>7. Recording11'
  BY <1>4, <1>6 DEF Inv11, Recording11
<1> QED
  BY <1>1, <1>4, <1>6, <1>7, ContextIdle11

\* set_shader, ia_set_vertex_buffers, ia_set_index_buffer: only bindings change.
LEMMA Bind11 ==
  ASSUME Inv11, x_ctx # D11!None, UNCHANGED x_ref,
         \/ \E stage \in D11!Stage : D11!set_shader(stage)
         \/ D11!ia_set_vertex_buffers
         \/ D11!ia_set_index_buffer
  PROVE  Inv11'
<1>1. x_ctx \in Contexts11
  BY DEF Inv11, Types11
<1>2. UNCHANGED <<x_live, x_next, x_twice, x_leaked, x_pool, x_orphans, x_back, x_tex,
                  x_rtv, x_buf, x_shader, x_submits>>
  BY DEF D11!set_shader, D11!ia_set_vertex_buffers, D11!ia_set_index_buffer, D11!vkVars
<1>3. /\ x_ctx' \in Contexts11
      /\ x_ctx'.command_buffer = x_ctx.command_buffer /\ x_ctx'.target = x_ctx.target
      /\ x_ctx'.recording = x_ctx.recording /\ x_ctx'.drew = x_ctx.drew
      /\ x_ctx'.uses = x_ctx.uses /\ x_ctx'.failed = x_ctx.failed
      /\ x_ctx'.buffer = x_ctx.buffer /\ x_ctx'.misplaced = x_ctx.misplaced
  <2>1. CASE \E stage \in D11!Stage : D11!set_shader(stage)
    <3>0. PICK stage \in D11!Stage : x_ctx' = [x_ctx EXCEPT !.bound[stage] = x_shader[stage]]
      BY <2>1 DEF D11!set_shader
    <3>1. x_shader[stage] \in Nat
      BY DEF Inv11, Types11
    <3>2. PICK b : b = [x_ctx.bound EXCEPT ![stage] = x_shader[stage]]
      OBVIOUS
    <3>3. b \in [D11!Stage -> Nat]
      BY <1>1, <3>1, <3>2 DEF Contexts11
    <3>4. x_ctx' = [x_ctx EXCEPT !.bound = b]
      BY <3>0, <3>2
    <3> QED
      BY <1>1, <3>3, <3>4 DEF Contexts11
  <2>2. CASE D11!ia_set_vertex_buffers
    <3>0. x_buf # D11!None /\ x_ctx' = [x_ctx EXCEPT !.vertex_buffer = x_buf.buffer]
      BY <2>2 DEF D11!ia_set_vertex_buffers
    <3>1. x_buf.buffer \in Nat
      BY <3>0 DEF Inv11, Types11, Buffers11
    <3> QED
      BY <1>1, <3>0, <3>1 DEF Contexts11
  <2>3. CASE D11!ia_set_index_buffer
    <3>0. x_buf # D11!None /\ x_ctx' = [x_ctx EXCEPT !.index_buffer = x_buf.buffer]
      BY <2>3 DEF D11!ia_set_index_buffer
    <3>1. x_buf.buffer \in Nat
      BY <3>0 DEF Inv11, Types11, Buffers11
    <3> QED
      BY <1>1, <3>0, <3>1 DEF Contexts11
  <2> QED
    BY <2>1, <2>2, <2>3
<1>4. Recording11'
  BY <1>3 DEF Inv11, Recording11
<1> QED
  BY <1>2, <1>3, <1>4, ContextIdle11

LEMMA SetTargets11 ==
  ASSUME Inv11, x_ctx # D11!None, UNCHANGED x_ref, D11!om_set_render_targets
  PROVE  Inv11'
<1>1. x_next \in Nat \ {0} /\ x_live \subseteq 1 .. (x_next - 1)
  BY Facts11
<1>2. PICK n \in {0, 1, 2}, G \in SUBSET Nat, L \in SUBSET Nat :
        /\ G \cup L = x_next .. (x_next + n - 1) /\ G \cap L = {}
        /\ D11!Vk(n, x_ctx.target, L)
        /\ x_ctx' = [D11!Began EXCEPT !.target = G]
  <2>1. x_next .. (x_next + 2 - 1) = {x_next, x_next + 1}
        /\ x_next .. (x_next + 0 - 1) = {} /\ x_next .. (x_next + 1 - 1) = {x_next}
        /\ {x_next, x_next + 1} \in SUBSET Nat /\ {x_next} \in SUBSET Nat
    BY <1>1
  <2>2. CASE D11!Vk(2, x_ctx.target, {}) /\ x_ctx' = [D11!Began EXCEPT !.target = {x_next, x_next + 1}]
    <3>1. {x_next, x_next + 1} \in SUBSET Nat
      BY <1>1
    <3> WITNESS 2 \in {0, 1, 2}, {x_next, x_next + 1} \in SUBSET Nat, {} \in SUBSET Nat
    <3> QED
      BY <2>1, <2>2
  <2>3. CASE D11!Vk(0, x_ctx.target, {}) /\ x_ctx' = [D11!Began EXCEPT !.target = {}]
    <3> WITNESS 0 \in {0, 1, 2}, {} \in SUBSET Nat, {} \in SUBSET Nat
    <3> QED
      BY <2>1, <2>3
  <2>4. CASE D11!Vk(1, x_ctx.target, {x_next}) /\ x_ctx' = [D11!Began EXCEPT !.target = {}]
    <3>1. {x_next} \in SUBSET Nat
      BY <1>1
    <3> WITNESS 1 \in {0, 1, 2}, {} \in SUBSET Nat, {x_next} \in SUBSET Nat
    <3> QED
      BY <2>1, <2>4
  <2> QED
    BY <2>2, <2>3, <2>4 DEF D11!om_set_render_targets, D11!OldTarget
<1>3. UNCHANGED <<x_pool, x_orphans, x_back, x_tex, x_rtv, x_buf, x_shader, x_submits>>
  BY DEF D11!om_set_render_targets
<1>4. PICK c : c = D11!Began
  OBVIOUS
<1>5. /\ c \in Contexts11 /\ c.target = x_ctx.target
      /\ c.command_buffer = x_ctx.command_buffer
      /\ c.recording /\ c.drew = x_ctx.drew /\ c.uses \subseteq x_ctx.uses
      /\ c.drew => c.uses = x_ctx.uses
      /\ c.failed = x_ctx.failed /\ c.misplaced = x_ctx.misplaced
      /\ ~c.failed => c.buffer = "recording"
  BY <1>4, Began11
<1>6. G \subseteq Nat /\ G \subseteq x_next .. (x_next + n - 1) /\ n \in Nat
  BY <1>1, <1>2
<1>7. /\ x_ctx' \in Contexts11 /\ x_ctx' # D11!None
      /\ x_ctx'.command_buffer = c.command_buffer /\ x_ctx'.target = G
      /\ x_ctx'.recording /\ x_ctx'.drew = c.drew /\ x_ctx'.uses = c.uses
      /\ x_ctx'.failed = c.failed /\ x_ctx'.buffer = c.buffer
      /\ x_ctx'.misplaced = c.misplaced
  <2>1. x_ctx' = [c EXCEPT !.target = G]
    BY <1>2, <1>4
  <2>2. x_ctx' \in Contexts11
    BY <1>5, <1>6, <2>1 DEF Contexts11
  <2> QED
    BY <1>5, <2>1, <2>2, NotNone11 DEF Contexts11
<1>8. x_ctx.command_buffer \notin x_ctx.target
  BY DEF Inv11, Links11
<1>9. x_ctx.command_buffer \in x_live
  <2>1. Own11["context"] \subseteq x_live
    BY Facts11 DEF Owner11
  <2> QED
    BY <2>1, Own11At
<1>10. x_ctx'.command_buffer \notin x_ctx'.target
  <2>1. \A h \in x_live : h \notin x_next .. (x_next + n - 1)
    BY <1>1, <1>6
  <2> QED
    BY <1>5, <1>6, <1>7, <1>9, <2>1
<1>11. OneOwner(Own11, Own11', "context", x_next .. (x_next + n - 1), x_ctx.target, L, G)
  <2>1. /\ Own11["context"] = x_ctx.target \cup {x_ctx.command_buffer}
        /\ Own11'["context"] = G \cup {x_ctx.command_buffer}
    BY <1>5, <1>7, Own11At, Own11AtNext
  <2>2. \A p \in Owner11 : p # "context" => Own11'[p] = Own11[p]
    BY <1>3, Own11At, Own11AtNext DEF Owner11
  <2>3. Own11'["context"] = (Own11["context"] \ x_ctx.target) \cup G
    BY <1>8, <2>1
  <2>4. x_ctx.target \subseteq Own11["context"]
    BY <2>1
  <2>5. "context" \in DOMAIN Own11 /\ DOMAIN Own11' = DOMAIN Own11 /\ DOMAIN Own11 = Owner11
    BY Own11At, Own11AtNext DEF Owner11
  <2> QED
    BY <1>2, <2>2, <2>3, <2>4, <2>5 DEF OneOwner
<1>12. Owners11'
  BY <1>2, <1>6, <1>11, Owner11Step DEF Inv11
<1>13. x_submits' \subseteq BOOLEAN
  BY <1>3 DEF Inv11, Types11
<1>14. Recording11'
  BY <1>5, <1>7 DEF Inv11, Recording11
<1> QED
  BY <1>3, <1>5, <1>7, <1>10, <1>12, <1>13, <1>14, ContextStep11

\* A draw: the number of its pipeline is used up.
LEMMA Draw11 ==
  ASSUME Inv11, x_ctx # D11!None, UNCHANGED x_ref, NEW indexed \in BOOLEAN,
         D11!draw_internal(indexed)
  PROVE  Inv11'
<1>1. UNCHANGED <<x_live, x_twice, x_leaked, x_pool, x_orphans, x_back, x_tex, x_rtv, x_buf,
                  x_shader, x_submits>>
  BY DEF D11!draw_internal
<1>2. x_next \in Nat \ {0} /\ x_live \subseteq 1 .. (x_next - 1) /\ Frames11 \in Nat
  BY Facts11
<1>3. PICK c : c = D11!Began
  OBVIOUS
<1>4. /\ c \in Contexts11 /\ c.target = x_ctx.target
      /\ c.command_buffer = x_ctx.command_buffer
      /\ c.recording /\ c.drew = x_ctx.drew /\ c.uses \subseteq x_ctx.uses
      /\ c.drew => c.uses = x_ctx.uses
      /\ c.failed = x_ctx.failed /\ c.misplaced = x_ctx.misplaced
      /\ ~c.failed => c.buffer = "recording"
  BY <1>3, Began11
<1>5. CASE x_ctx' = D11!Began /\ UNCHANGED x_next
  <2>1. x_ctx' = c
    BY <1>3, <1>5
  <2>2. Recording11'
    BY <1>4, <2>1 DEF Inv11, Recording11
  <2> QED
    BY <1>1, <1>4, <1>5, <2>1, <2>2, ContextIdle11
<1>6. CASE x_ctx' # D11!Began \/ x_next' # x_next
  <2> DEFINE U == {x_next} \cup x_ctx.target
                     \cup ({x_ctx.vertex_buffer, IF indexed THEN x_ctx.index_buffer ELSE 0} \ {0})
  <2>1. /\ x_next <= Frames11 /\ x_next' = x_next + 1
        /\ x_ctx' = [D11!Record(D11!Began, U) EXCEPT !.drew = TRUE]
    BY <1>6 DEF D11!draw_internal, D11!build_pipeline, D11!Null
  <2>2. U \subseteq Nat /\ x_next \in U
    <3>1. x_ctx \in Contexts11
      BY DEF Inv11, Types11
    <3> QED
      BY <1>2, <3>1 DEF Contexts11
  <2> HIDE DEF U
  <2>3. x_ctx' = [c EXCEPT !.uses = @ \cup U, !.misplaced = @ \/ c.buffer # "recording",
                           !.drew = TRUE]
    BY <1>3, <1>4, <2>1 DEF D11!Record, Contexts11
  <2>4. /\ x_ctx' \in Contexts11
        /\ x_ctx'.command_buffer = c.command_buffer /\ x_ctx'.target = c.target
        /\ x_ctx'.recording /\ x_ctx'.drew /\ x_ctx'.uses = c.uses \cup U
        /\ x_ctx'.failed = c.failed /\ x_ctx'.buffer = c.buffer
        /\ x_ctx'.misplaced = (c.misplaced \/ c.buffer # "recording")
    BY <1>4, <2>2, <2>3 DEF Contexts11
  <2>5. Recording11'
    BY <1>4, <2>4 DEF Inv11, Recording11
  <2>6. Owners11'
    <3>1. \A p \in Owner11 : Own11'[p] = Own11[p]
      BY <1>1, <1>4, <2>4, ContextOwners11
    <3>2. Own11' = Own11
      BY <3>1 DEF Own11
    <3> QED
      BY <1>1, <1>2, <2>1, <3>2, Same11 DEF Inv11
  <2>7. x_submits' \subseteq BOOLEAN
    BY <1>1 DEF Inv11, Types11
  <2>8. x_ctx'.command_buffer \notin x_ctx'.target
    BY <1>4, <2>4 DEF Inv11, Links11
  <2> QED
    BY <1>1, <1>4, <2>4, <2>5, <2>6, <2>7, <2>8, ContextStep11
<1> QED
  BY <1>5, <1>6

\* A submission starts the next frame afresh.
LEMMA Flush11 ==
  ASSUME Inv11, x_ctx # D11!None, UNCHANGED x_ref, D11!flush
  PROVE  Inv11'
<1>1. /\ x_submits' = x_submits \cup {x_ctx.uses \subseteq x_live}
      /\ x_ctx' = [x_ctx EXCEPT !.recording = FALSE, !.drew = FALSE, !.buffer = "initial",
                                !.uses = {}]
      /\ UNCHANGED <<x_live, x_next, x_twice, x_leaked, x_pool, x_orphans, x_back, x_tex,
                     x_rtv, x_buf, x_shader>>
  BY DEF D11!flush, D11!AfterFlush, D11!vkVars
<1>2. x_ctx \in Contexts11
  BY DEF Inv11, Types11
<1>3. /\ x_ctx' \in Contexts11
      /\ x_ctx'.command_buffer = x_ctx.command_buffer /\ x_ctx'.target = x_ctx.target
      /\ ~x_ctx'.recording /\ ~x_ctx'.drew /\ x_ctx'.uses = {}
      /\ x_ctx'.failed = x_ctx.failed /\ x_ctx'.misplaced = x_ctx.misplaced
  BY <1>1, <1>2 DEF Contexts11
<1>4. Recording11'
  BY <1>3 DEF Inv11, Recording11
<1>5. Owners11'
  BY <1>1, <1>3, ContextOwners11, SameOwners11, Vk11Idle, Owner11Step DEF Inv11
<1>6. x_submits' \subseteq BOOLEAN
  BY <1>1 DEF Inv11, Types11
<1>7. x_ctx'.command_buffer \notin x_ctx'.target
  BY <1>3 DEF Inv11, Links11
<1> QED
  BY <1>1, <1>3, <1>4, <1>5, <1>6, <1>7, ContextStep11

\* A flush that fails marks the context; it may leave a fence.
LEMMA FlushFailed11 ==
  ASSUME Inv11, x_ctx # D11!None, UNCHANGED x_ref, D11!flush_failed
  PROVE  Inv11'
<1>1. PICK b \in {"invalid", "executable", "pending"}, n \in {0, 1} :
        /\ x_ctx' = [x_ctx EXCEPT !.buffer = b, !.failed = TRUE]
        /\ D11!Vk(n, {}, x_next .. (x_next + n - 1))
  <2>1. CASE \E b \in {"invalid", "executable"} :
               x_ctx' = [x_ctx EXCEPT !.buffer = b, !.failed = TRUE] /\ UNCHANGED D11!vkVars
    <3>1. D11!Vk(0, {}, {})
      BY <2>1, Vk11Idle DEF D11!vkVars
    <3>2. x_next .. (x_next + 0 - 1) = {}
      BY Facts11
    <3> QED
      BY <2>1, <3>1, <3>2
  <2>2. CASE \E b \in {"executable", "pending"} :
               x_ctx' = [x_ctx EXCEPT !.buffer = b, !.failed = TRUE] /\ D11!VkLeak(1)
    BY <2>2 DEF D11!VkLeak
  <2> QED
    BY <2>1, <2>2 DEF D11!flush_failed
<1>2. UNCHANGED <<x_pool, x_orphans, x_back, x_tex, x_rtv, x_buf, x_shader, x_submits>>
  BY DEF D11!flush_failed
<1>3. x_ctx \in Contexts11 /\ n \in Nat /\ x_next \in Nat
  BY Facts11 DEF Inv11, Types11
<1>4. /\ x_ctx' \in Contexts11
      /\ x_ctx'.command_buffer = x_ctx.command_buffer /\ x_ctx'.target = x_ctx.target
      /\ x_ctx'.recording = x_ctx.recording /\ x_ctx'.drew = x_ctx.drew
      /\ x_ctx'.uses = x_ctx.uses /\ x_ctx'.failed /\ x_ctx'.misplaced = x_ctx.misplaced
  BY <1>1, <1>3 DEF Contexts11
<1>5. \A p \in Owner11 : Own11'[p] = Own11[p]
  BY <1>2, <1>4, ContextOwners11
<1>6. OneOwner(Own11, Own11', "device", x_next .. (x_next + n - 1), {},
               x_next .. (x_next + n - 1), {})
  BY <1>5, Own11At, Own11AtNext DEF OneOwner, Owner11
<1>7. Owners11'
  BY <1>1, <1>3, <1>6, Owner11Step DEF Inv11
<1>8. x_submits' \subseteq BOOLEAN
  BY <1>2 DEF Inv11, Types11
<1>9. Recording11'
  BY <1>4 DEF Inv11, Recording11
<1>11. x_ctx'.command_buffer \notin x_ctx'.target
  BY <1>4 DEF Inv11, Links11
<1> QED
  BY <1>2, <1>4, <1>7, <1>8, <1>9, <1>11, ContextStep11

\* Stuttering.
LEMMA Stutter11 ==
  ASSUME Inv11, UNCHANGED d11Vars
  PROVE  Inv11'
<1>1. x_ref' \in [D11!Object -> Nat] /\ \A o \in D11!Object \ {"state"} : x_ref'[o] > 0 <=> x_ref[o] > 0
  BY DEF Inv11, Types11, d11Vars
<1> QED
  BY <1>1, Count11 DEF d11Vars

\* Every step of the Direct3D 11 layer.
LEMMA Next11 ==
  ASSUME Inv11, D11!Next
  PROVE  Inv11'
<1>1. CASE D11!d3d11_create_device_and_swap_chain \/ D11!d3d11_create_device
  BY <1>1, CreateDevice11
<1>2. CASE D11!swapchain_get_buffer
  BY <1>2, GetBuffer11
<1>3. CASE D11!swapchain_resize_buffers
  BY <1>3, ResizeBuffers11
<1>4. CASE D11!DeviceMethods
  BY <1>4, CreateRtv11, CreateBuffer11, CreateState11, CreateShader11 DEF D11!DeviceMethods
<1>5. CASE D11!NativeMethods
  <2>1. D11!Live("context") => x_ctx # D11!None
    BY DEF Inv11, Links11
  <2> QED
    BY <1>5, <2>1, CreateTexture11, Bind11 DEF D11!NativeMethods
<1>6. CASE D11!device_get_immediate_context
  <2>1. "context" \in D11!Object
    BY DEF D11!Object
  <2> QED
    BY <1>6, <2>1, AddRef11, Stutter11
       DEF D11!device_get_immediate_context, D11!vkVars, D11!d3d11Vars, d11Vars
<1>7. CASE D11!NoCount /\ D11!Live("context") /\ D11!context_om_set_render_targets
  <2>1. D11!Live("context") => x_ctx # D11!None
    BY DEF Inv11, Links11
  <2> QED
    BY <1>7, <2>1, SetTargets11 DEF D11!context_om_set_render_targets, D11!NoCount
<1>8. CASE \E o \in D11!Object : D11!com_add_ref(o) \/ D11!com_release(o)
  BY <1>8, AddRef11, Release11 DEF D11!com_add_ref
<1>9. CASE D11!ContextMethods
  <2>1. x_ctx # D11!None /\ UNCHANGED x_ref
    BY <1>9 DEF D11!ContextMethods, D11!NoCount, Inv11, Links11
  <2>2. CASE D11!context_om_set_render_targets
    BY <2>1, <2>2, SetTargets11 DEF D11!context_om_set_render_targets
  <2>3. CASE D11!context_clear_render_target_view
    BY <2>1, <2>3, Clear11 DEF D11!context_clear_render_target_view
  <2>4. CASE \E stage \in D11!Stage : D11!context_set_shader(stage)
    BY <2>1, <2>4, Bind11 DEF D11!context_set_shader
  <2>5. CASE D11!context_ia_set_vertex_buffers
    BY <2>1, <2>5, Bind11 DEF D11!context_ia_set_vertex_buffers
  <2>6. CASE D11!context_draw
    BY <2>1, <2>6, Draw11 DEF D11!context_draw
  <2>7. CASE D11!context_flush
    BY <2>1, <2>7, Flush11, FlushFailed11 DEF D11!context_flush
  <2> QED
    BY <1>9, <2>2, <2>3, <2>4, <2>5, <2>6, <2>7 DEF D11!ContextMethods
<1> QED
  BY <1>1, <1>2, <1>3, <1>4, <1>5, <1>6, <1>7, <1>8, <1>9 DEF D11!Next, D11!ObjectMethods

\* A guest without a device.
LEMMA Init11 ==
  ASSUME D11!Init
  PROVE  Inv11
<1> USE DEF D11!Init, D11!D3D11Init, D11!VkInit, D11!Null
<1>1. Frames11 \in Nat
  BY GraphicsAssumption
<1>2. Types11
  BY DEF Types11, D11!NoShader, D11!Object
<1>3. \A p \in Owner11 : Own11[p] = {}
  BY Own11At DEF Owner11, OwnedTexture, D11!NoShader, D11!Stage
<1>4. Owners11
  BY <1>1, <1>3, Own11At DEF Owners11, Accounted
<1>5. Links11
  BY DEF Links11, D11!Live, D11!NoShader, D11!Object, D11!Stage
<1>6. Named11 /\ Recording11
  BY DEF Named11, Recording11
<1> QED
  BY <1>2, <1>4, <1>5, <1>6 DEF Inv11

\* A guest that is about to draw.
LEMMA Prepared11 ==
  ASSUME D11!Prepared
  PROVE  Inv11
<1>1. Frames11 \in Nat /\ 6 <= Frames11
  BY GraphicsAssumption
<1>2. /\ x_live = 1 .. 6 /\ x_next = 7 /\ x_twice = {} /\ x_leaked = {}
      /\ x_back = 1 /\ x_pool = 2 /\ x_orphans = {}
      /\ x_tex = [kind |-> "texture", image |-> 1, memory |-> 0]
      /\ x_rtv = [kind |-> "rtv", view |-> 4, image |-> 1]
      /\ x_buf = D11!None
      /\ x_shader = [s \in D11!Stage |-> IF s = "Vertex" THEN 5 ELSE 6]
      /\ x_ctx = [D11!NewContext(3) EXCEPT !.bound = x_shader]
      /\ x_submits = {}
      /\ x_ref = [o \in D11!Object |-> IF o \in {"buf", "state"} THEN 0 ELSE 1]
  BY DEF D11!Prepared, D11!Null
<1>3. x_tex \in Textures11 /\ x_rtv \in Views11 /\ x_tex # D11!None /\ x_rtv # D11!None
      /\ x_tex.memory = 0 /\ x_tex.image = 1 /\ x_rtv.view = 4 /\ x_rtv.image = 1
  BY <1>2, NotNone11 DEF Textures11, Views11
<1>4. x_shader["Vertex"] = 5 /\ x_shader["Pixel"] = 6 /\ x_shader \in [D11!Stage -> Nat]
  BY <1>2 DEF D11!Stage
<1>5. /\ x_ctx \in Contexts11 /\ x_ctx # D11!None /\ x_ctx.target = {} /\ x_ctx.command_buffer = 3
      /\ ~x_ctx.drew /\ x_ctx.uses = {} /\ ~x_ctx.recording /\ ~x_ctx.misplaced
  <2>1. D11!NewContext(3) \in Contexts11
    BY DEF D11!NewContext, D11!NoShader, D11!Null, Contexts11
  <2>2. x_ctx \in Contexts11
    BY <1>2, <1>4, <2>1 DEF Contexts11
  <2> QED
    BY <1>2, <2>1, <2>2, NotNone11 DEF D11!NewContext
<1>6. Types11
  BY <1>2, <1>3, <1>4, <1>5 DEF Types11, D11!Object
<1>7. \A p \in Owner11 : Own11[p] =
        IF p = "device" THEN {2} ELSE IF p = "swapchain" THEN {1} ELSE IF p = "rtv" THEN {4}
        ELSE IF p = "Vertex" THEN {5} ELSE IF p = "Pixel" THEN {6}
        ELSE IF p = "context" THEN {3} ELSE {}
  <2>1. Own11["device"] = {2} /\ Own11["swapchain"] = {1} /\ Own11["tex"] = {}
    BY <1>2, <1>3, Own11At DEF OwnedTexture
  <2>2. Own11["rtv"] = {4} /\ Own11["buf"] = {}
    BY <1>2, <1>3, Own11At
  <2>3. Own11["Vertex"] = {5} /\ Own11["Pixel"] = {6} /\ Own11["context"] = {3}
    BY <1>4, <1>5, Own11At
  <2> QED
    BY <2>1, <2>2, <2>3 DEF Owner11
<1>8. Accounted(Own11, 1 .. 6, {}, 7)
  <2>1. DOMAIN Own11 = Owner11
    BY Own11At
  <2>2. \A h \in 1 .. 6 : \E p \in Owner11 : h \in Own11[p]
    <3>1. \A h \in 1 .. 6 : h = 1 \/ h = 2 \/ h = 3 \/ h = 4 \/ h = 5 \/ h = 6
      OBVIOUS
    <3>2. {"device", "swapchain", "rtv", "Vertex", "Pixel", "context"} \subseteq Owner11
      BY DEF Owner11
    <3> QED
      BY <1>7, <3>1, <3>2
  <2>3. \A p \in Owner11 : Own11[p] \subseteq 1 .. 6
    BY <1>7
  <2>4. \A p, q \in Owner11 : p # q => Own11[p] \cap Own11[q] = {}
    BY <1>7
  <2>5. 1 .. 6 \subseteq 1 .. (7 - 1) /\ 7 \in Nat \ {0}
    OBVIOUS
  <2> QED
    BY <2>1, <2>2, <2>3, <2>4, <2>5 DEF Accounted
<1>9. Owners11
  BY <1>1, <1>2, <1>8 DEF Owners11
<1>10. Links11
  BY <1>2, <1>3, <1>4, <1>5 DEF Links11, D11!Live, D11!Object, D11!Stage
<1>11. Named11 /\ Recording11
  BY <1>2, <1>3, <1>5 DEF Named11, Images11, Recording11
<1> QED
  BY <1>6, <1>9, <1>10, <1>11 DEF Inv11

\* What the invariant gives.
LEMMA Safe11 ==
  ASSUME Inv11
  PROVE  /\ D11!TypeOK /\ D11!DestroyedOnce /\ D11!NothingElseOutlivesDevice
         /\ D11!PointersReachLiveHandles /\ D11!RecordedWhileRecording
<1>1. /\ x_next \in Nat \ {0} /\ Frames11 \in Nat
      /\ x_live \subseteq 1 .. (x_next - 1)
      /\ x_leaked \subseteq x_live
      /\ \A p \in Owner11 : Own11[p] \subseteq x_live
      /\ \A h \in x_live : h \in x_leaked \/ \E p \in Owner11 : h \in Own11[p]
      /\ x_next <= Frames11 + 1 /\ x_twice = {}
  BY Facts11 DEF Inv11, Owners11
<1>2. D11!TypeOK
  <2>1. D11!VkTypeOK
    BY <1>1 DEF D11!VkTypeOK, D11!Handle
  <2>2. x_orphans \subseteq x_live
    BY <1>1, Own11At DEF Owner11
  <2>3. x_submits \subseteq BOOLEAN
    BY DEF Inv11, Types11
  <2> QED
    BY <2>1, <2>2, <2>3 DEF D11!TypeOK, Inv11, Types11
<1>3. D11!NothingElseOutlivesDevice
  <2>1. ASSUME \A o \in D11!Object : x_ref[o] = 0
        PROVE  x_live = x_leaked
    <3>1. /\ x_tex = D11!None /\ x_rtv = D11!None /\ x_buf = D11!None /\ x_ctx = D11!None
          /\ x_back = 0 /\ x_pool = 0 /\ x_orphans = {}
          /\ x_shader["Vertex"] = 0 /\ x_shader["Pixel"] = 0
      BY <2>1 DEF Inv11, Links11, D11!Live, D11!Object, D11!Stage
    <3>2. \A p \in Owner11 : Own11[p] = {}
      BY <3>1, Own11At DEF Owner11, OwnedTexture
    <3> QED
      BY <1>1, <3>2
  <2> QED
    BY <2>1 DEF D11!NothingElseOutlivesDevice
<1>4. D11!PointersReachLiveHandles
  <2>1. D11!Live("context") => {x_pool, x_ctx.command_buffer} \cup x_ctx.target \subseteq x_live
    BY <1>1, Own11At DEF Owner11, Inv11, Links11
  <2>2. D11!Live("device") => x_pool \in x_live
    BY <1>1, Own11At DEF Owner11, Inv11, Links11
  <2>3. D11!Live("rtv") => x_rtv.view \in x_live
    BY <1>1, Own11At DEF Owner11, Inv11, Links11
  <2>4. D11!Live("buf") => {x_buf.buffer, x_buf.memory} \subseteq x_live
    BY <1>1, Own11At DEF Owner11, Inv11, Links11
  <2>5. \A s \in D11!Stage : D11!Live(s) => x_shader[s] \in x_live
    BY <1>1, Own11At DEF Owner11, Inv11, Links11, D11!Stage
  <2> QED
    BY <2>1, <2>2, <2>3, <2>4, <2>5 DEF D11!PointersReachLiveHandles
<1>5. D11!DestroyedOnce /\ D11!RecordedWhileRecording
  BY <1>1 DEF D11!DestroyedOnce, D11!RecordedWhileRecording, Inv11, Recording11
<1> QED
  BY <1>2, <1>3, <1>4, <1>5


-----------------------------------------------------------------------------
(* The swap chain *)

\* What a creation under way has made: what its error paths and its result answer for.
Made(job) ==
  ({job.surface, job.swapchain} \ {0}) \cup Chain!ToSet(job.images) \cup Chain!ToSet(job.memory)

Held(chain, job) ==
  (IF chain = Chain!NoChain THEN {} ELSE Chain!Owned(chain))
    \cup (IF job = Chain!NoJob THEN {} ELSE Made(job))

\* A live handle is held by the chain or the creation under way, or was left
\* behind; one that is alive or yet to come was never destroyed, the others once.
Books(held, live, leaked, next, destroys) ==
  /\ live = held \cup leaked /\ held \cap leaked = {}
  /\ next \in 1 .. (ChainHandles + 1)
  /\ live \subseteq 1 .. (next - 1)
  /\ destroys \in [Chain!Handle -> Nat]
  /\ \A h \in Chain!Handle : destroys[h] <= 1
  /\ \A h \in Chain!Handle : h \in live \/ h >= next => destroys[h] = 0

\* How far a creation is says what it has made.
JobShape(job) ==
  /\ job.step \in {"surface", "fallback"} => job.surface = 0 /\ job.swapchain = 0
  /\ job.step \in {"query", "create"} => job.surface # 0 /\ job.swapchain = 0
  /\ job.step = "images" => job.surface # 0 /\ job.swapchain # 0 /\ job.surface # job.swapchain
  /\ job.step \in {"surface", "fallback", "query", "create", "images"} =>
       job.images = <<>> /\ job.memory = <<>> /\ job.mode # "Offscreen"
  /\ job.step \in {"image", "memory", "bind"} =>
       job.mode = "Offscreen" /\ job.surface = 0 /\ job.swapchain = 0

ChainShape(chain) ==
  /\ chain.mode = "Offscreen" => chain.surface = 0 /\ chain.swapchain = 0
  /\ chain.mode # "Offscreen" => chain.memory = <<>>
  /\ chain.swapchain # 0 => chain.surface # 0 /\ chain.surface # chain.swapchain

ChainInv ==
  /\ sc \in Chain!Chain \cup {Chain!NoChain}
  /\ sc_job \in Chain!Job \cup {Chain!NoJob}
  /\ sc_device \in {"up", "down"} /\ sc_headless \in BOOLEAN
  /\ Books(Held(sc, sc_job), sc_live, sc_leaked, sc_next, sc_destroys)
  /\ sc_job # Chain!NoJob => JobShape(sc_job)
  /\ sc # Chain!NoChain => ChainShape(sc)
  /\ sc # Chain!NoChain /\ sc_job # Chain!NoJob => Chain!Owned(sc) = {}
  /\ sc_device = "down" => sc = Chain!NoChain /\ sc_job = Chain!NoJob

LEMMA ChainConstants == ChainHandles \in Nat /\ BufferCount \in Nat \ {0}
BY GraphicsAssumption

\* Nothing is created or destroyed, but numbers may be used up.
LEMMA BooksKeep ==
  ASSUME NEW held, NEW live, NEW leaked, NEW next, NEW destroys, NEW next2,
         Books(held, live, leaked, next, destroys),
         next2 \in 1 .. (ChainHandles + 1), next <= next2
  PROVE  Books(held, live, leaked, next2, destroys)
<1>1. next \in Nat /\ next2 \in Nat /\ ChainHandles \in Nat
  BY ChainConstants DEF Books
<1>2. live \subseteq 1 .. (next2 - 1)
  BY <1>1 DEF Books
<1> QED
  BY <1>1, <1>2 DEF Books, Chain!Handle

LEMMA BooksDestroy ==
  ASSUME NEW held, NEW live, NEW leaked, NEW next, NEW destroys, NEW D, NEW live2, NEW destroys2,
         Books(held, live, leaked, next, destroys), D \subseteq held,
         live2 = live \ D,
         destroys2 = [h \in Chain!Handle |-> IF h \in D THEN destroys[h] + 1 ELSE destroys[h]]
  PROVE  Books(held \ D, live2, leaked, next, destroys2)
<1>1. /\ live = held \cup leaked /\ held \cap leaked = {}
      /\ next \in 1 .. (ChainHandles + 1)
      /\ live \subseteq 1 .. (next - 1)
      /\ destroys \in [Chain!Handle -> Nat]
      /\ \A h \in Chain!Handle : destroys[h] <= 1
      /\ \A h \in Chain!Handle : h \in live \/ h >= next => destroys[h] = 0
  BY DEF Books
<1>2. live \ D = (held \ D) \cup leaked /\ (held \ D) \cap leaked = {}
  BY <1>1
<1>3. destroys2 \in [Chain!Handle -> Nat]
  BY <1>1
<1>4. ASSUME NEW h \in Chain!Handle
      PROVE  destroys2[h] <= 1
  <2>1. h \in D => destroys[h] = 0
    BY <1>1
  <2>2. destroys2[h] = IF h \in D THEN destroys[h] + 1 ELSE destroys[h]
    OBVIOUS
  <2> QED
    BY <1>1, <2>1, <2>2
<1>5. \A h \in D : h \in 1 .. (next - 1)
  BY <1>1
<1>6. ASSUME NEW h \in Chain!Handle, h \in live \ D \/ h >= next
      PROVE  destroys2[h] = 0
  <2>1. h \notin D
    BY <1>1, <1>5, <1>6, ChainConstants DEF Chain!Handle
  <2> QED
    BY <2>1, <1>1, <1>6
<1>7. live \ D \subseteq 1 .. (next - 1)
  BY <1>1
<1> QED
  BY <1>1, <1>2, <1>3, <1>4, <1>6, <1>7 DEF Books

LEMMA BooksNew ==
  ASSUME NEW held, NEW live, NEW leaked, NEW next, NEW destroys,
         Books(held, live, leaked, next, destroys), next <= ChainHandles
  PROVE  Books(held \cup {next}, live \cup {next}, leaked, next + 1, destroys)
<1>1. /\ live = held \cup leaked /\ held \cap leaked = {}
      /\ next \in 1 .. (ChainHandles + 1) /\ next \in Nat /\ ChainHandles \in Nat
      /\ live \subseteq 1 .. (next - 1)
      /\ destroys \in [Chain!Handle -> Nat]
      /\ \A h \in Chain!Handle : destroys[h] <= 1
      /\ \A h \in Chain!Handle : h \in live \/ h >= next => destroys[h] = 0
  BY ChainConstants DEF Books
<1>2. next \notin live /\ next + 1 \in 1 .. (ChainHandles + 1)
      /\ live \cup {next} \subseteq 1 .. ((next + 1) - 1)
  BY <1>1
<1>3. live \cup {next} = (held \cup {next}) \cup leaked /\ (held \cup {next}) \cap leaked = {}
  BY <1>1, <1>2
<1>4. \A h \in Chain!Handle : h \in live \cup {next} \/ h >= next + 1 => destroys[h] = 0
  BY <1>1 DEF Chain!Handle
<1> QED
  BY <1>1, <1>2, <1>3, <1>4 DEF Books

\* An offscreen creation that fails leaves what it has made.
LEMMA BooksLeak ==
  ASSUME NEW held, NEW live, NEW leaked, NEW next, NEW destroys,
         Books(held, live, leaked, next, destroys)
  PROVE  Books({}, live, leaked \cup held, next, destroys)
BY DEF Books

\* The handles in a sequence.
LEMMA ToSetEmpty == Chain!ToSet(<<>>) = {}
BY DEF Chain!ToSet

LEMMA ToSetAppend ==
  ASSUME NEW S, NEW s \in Seq(S), NEW e
  PROVE  Chain!ToSet(Append(s, e)) = Chain!ToSet(s) \cup {e}
<1>1. DOMAIN s = 1 .. Len(s) /\ Len(s) \in Nat
  OBVIOUS
<1>2. /\ DOMAIN Append(s, e) = 1 .. (Len(s) + 1)
      /\ \A i \in 1 .. Len(s) : Append(s, e)[i] = s[i]
      /\ Append(s, e)[Len(s) + 1] = e
  OBVIOUS
<1>3. \A i \in 1 .. (Len(s) + 1) : i \in 1 .. Len(s) \/ i = Len(s) + 1
  BY <1>1
<1>4. \A i \in 1 .. Len(s) : i \in 1 .. (Len(s) + 1)
  BY <1>1
<1>5. Len(s) + 1 \in 1 .. (Len(s) + 1)
  BY <1>1
<1> QED
  BY <1>1, <1>2, <1>3, <1>4, <1>5, Zenon DEF Chain!ToSet

\* What a value of each kind is not.
LEMMA ChainNot ==
  /\ \A c \in Chain!Chain : c # Chain!NoChain
  /\ \A j \in Chain!Job : j # Chain!NoJob
  /\ Chain!NoJob.step = "none" /\ Chain!NoChain.mode = "none"
<1>1. \A c \in Chain!Chain : c.mode # "none"
  BY DEF Chain!Chain, Chain!Mode, Chain!Windowed, Chain!Headless, Chain!Offscreen
<1>2. \A j \in Chain!Job : j.step # "none"
  BY DEF Chain!Job
<1> QED
  BY <1>1, <1>2 DEF Chain!NoChain, Chain!NoJob

\* The invariant, unfolded.
LEMMA ChainFacts ==
  ASSUME ChainInv
  PROVE  /\ sc_job # Chain!NoJob <=> sc_job \in Chain!Job
         /\ sc # Chain!NoChain <=> sc \in Chain!Chain
         /\ sc_job.step # "none" => sc_job \in Chain!Job
         /\ Books(Held(sc, sc_job), sc_live, sc_leaked, sc_next, sc_destroys)
         /\ sc_next \in 1 .. (ChainHandles + 1) /\ sc_next \in Nat
         /\ sc_job \in Chain!Job => JobShape(sc_job) /\ Held(sc, sc_job) = Made(sc_job)
                                    /\ sc_device = "up"
BY ChainNot, ChainConstants DEF ChainInv, Held, Books

\* A creation starts with nothing but the surface it is given.
LEMMA Started ==
  ASSUME NEW mode \in Chain!Mode, NEW surface \in Chain!Handles,
         NEW step \in {"surface", "query", "image"}, Chain!Start(mode, surface, step)
  PROVE  /\ sc_job' \in Chain!Job /\ sc_job'.step = step /\ sc_job'.mode = mode
         /\ sc_job'.surface = surface /\ sc_job'.swapchain = 0
         /\ sc_job'.images = <<>> /\ sc_job'.memory = <<>>
         /\ Made(sc_job') = {surface} \ {0}
<1>1. sc_job' = [step |-> step, mode |-> mode, surface |-> surface, swapchain |-> 0,
                 images |-> <<>>, memory |-> <<>>]
  BY DEF Chain!Start, Chain!Null
<1>2. 0 \in Chain!Handles /\ <<>> \in Seq(Chain!Handle)
  BY DEF Chain!Handles, Chain!Null
<1>3. sc_job' \in Chain!Job
  BY <1>1, <1>2 DEF Chain!Job
<1>4. /\ sc_job'.step = step /\ sc_job'.mode = mode
      /\ sc_job'.surface = surface /\ sc_job'.swapchain = 0
      /\ sc_job'.images = <<>> /\ sc_job'.memory = <<>>
  BY <1>1
<1> QED
  BY <1>3, <1>4, ToSetEmpty DEF Made

LEMMA StartedInvisible ==
  ASSUME Chain!StartInvisible
  PROVE  sc_job' \in Chain!Job /\ JobShape(sc_job') /\ Made(sc_job') = {}
<1>1. 0 \in Chain!Handles /\ "Headless" \in Chain!Mode /\ "Offscreen" \in Chain!Mode
  BY DEF Chain!Handles, Chain!Null, Chain!Mode, Chain!Headless, Chain!Offscreen
<1>2. \/ Chain!Start("Headless", 0, "surface")
      \/ Chain!Start("Offscreen", 0, "image")
  BY DEF Chain!StartInvisible, Chain!Headless, Chain!Offscreen, Chain!Null
<1>3. CASE Chain!Start("Headless", 0, "surface")
  BY <1>1, <1>3, Started DEF JobShape
<1>4. CASE Chain!Start("Offscreen", 0, "image")
  BY <1>1, <1>4, Started DEF JobShape
<1> QED
  BY <1>2, <1>3, <1>4

\* A creation goes on: a step that leaves the chain, the device and what was left
\* behind alone.
LEMMA JobStep ==
  ASSUME ChainInv, UNCHANGED <<sc, sc_device, sc_headless, sc_leaked>>,
         sc_job \in Chain!Job, sc_job' \in Chain!Job, JobShape(sc_job'),
         Books(Made(sc_job'), sc_live', sc_leaked', sc_next', sc_destroys')
  PROVE  ChainInv'
<1>1. Held(sc', sc_job') = Made(sc_job')
  BY ChainNot DEF Held, ChainInv
<1> QED
  BY <1>1, ChainNot DEF ChainInv

\* The end of a creation that failed: nothing that it made is left, and a chain
\* that was resized is empty.
LEMMA JobFailed ==
  ASSUME ChainInv, Chain!GiveUp, sc_job \in Chain!Job,
         sc_job.images = <<>>, sc_job.memory = <<>>,
         Books({}, sc_live', sc_leaked', sc_next', sc_destroys')
  PROVE  ChainInv'
<1>1. UNCHANGED <<sc, sc_next, sc_device, sc_headless, sc_leaked>>
  BY DEF Chain!GiveUp
<1>2. CASE sc_job' = Chain!NoJob
  <2>1. Held(sc', sc_job') = {}
    BY <1>1, <1>2, ChainNot DEF Held, ChainInv
  <2> QED
    BY <1>1, <1>2, <2>1, ChainNot DEF ChainInv
<1>3. CASE sc_job.mode = "Windowed"
           /\ sc_job' = [sc_job EXCEPT !.step = "fallback", !.surface = 0, !.swapchain = 0]
  <2>1. sc_job' \in Chain!Job
    BY <1>3 DEF Chain!Job, Chain!Handles, Chain!Null
  <2>2. /\ sc_job'.step = "fallback" /\ sc_job'.surface = 0 /\ sc_job'.swapchain = 0
        /\ sc_job'.mode = "Windowed" /\ sc_job'.images = <<>> /\ sc_job'.memory = <<>>
    BY <1>3 DEF Chain!Job
  <2>3. JobShape(sc_job') /\ Made(sc_job') = {}
    BY <2>2, ToSetEmpty DEF JobShape, Made
  <2> QED
    BY <1>1, <2>1, <2>3, JobStep
<1> QED
  BY <1>2, <1>3 DEF Chain!GiveUp, Chain!Windowed, Chain!Null

LEMMA ChainCreate ==
  ASSUME ChainInv, Chain!create_swap_chain
  PROVE  ChainInv'
<1>1. /\ sc = Chain!NoChain /\ sc_job = Chain!NoJob /\ sc_device = "up"
      /\ UNCHANGED <<sc, sc_next, sc_device, sc_headless, sc_leaked, sc_live, sc_destroys>>
  BY DEF Chain!create_swap_chain, Chain!Idle, Chain!Keep
<1>2. sc_job' \in Chain!Job /\ JobShape(sc_job') /\ Made(sc_job') = {}
  <2>1. CASE Chain!Start("Windowed", 0, "surface")
    <3>1. 0 \in Chain!Handles /\ "Windowed" \in Chain!Mode
      BY DEF Chain!Handles, Chain!Null, Chain!Mode, Chain!Windowed
    <3> QED
      BY <2>1, <3>1, Started DEF JobShape
  <2> QED
    BY <2>1, StartedInvisible DEF Chain!create_swap_chain, Chain!Windowed, Chain!Null
<1>3. Held(sc', sc_job') = {} /\ Held(sc, sc_job) = {}
  BY <1>1, <1>2, ChainNot DEF Held
<1> QED
  BY <1>1, <1>2, <1>3, ChainNot DEF ChainInv

LEMMA ChainFallback ==
  ASSUME ChainInv, Chain!Fallback
  PROVE  ChainInv'
<1>1. /\ sc_job.step = "fallback"
      /\ UNCHANGED <<sc, sc_next, sc_device, sc_headless, sc_leaked, sc_live, sc_destroys>>
  BY DEF Chain!Fallback, Chain!Keep
<1>2. sc_job \in Chain!Job /\ JobShape(sc_job)
  BY <1>1, ChainFacts
<1>3. Made(sc_job) = {}
  BY <1>1, <1>2, ToSetEmpty DEF JobShape, Made
<1>4. sc_job' \in Chain!Job /\ JobShape(sc_job') /\ Made(sc_job') = {}
  BY StartedInvisible DEF Chain!Fallback
<1> QED
  BY <1>1, <1>2, <1>3, <1>4, ChainFacts, JobStep

\* A Vulkan call on the way to a swapchain fails: what is there is destroyed.
LEMMA ChainFailed ==
  ASSUME ChainInv,
         Chain!SurfaceFailed \/ Chain!QueryFailed \/ Chain!CreateFailed \/ Chain!ImagesFailed
  PROVE  ChainInv'
<1>1. Chain!GiveUp /\ sc_job.step \in {"surface", "query", "create", "images"}
  BY DEF Chain!SurfaceFailed, Chain!QueryFailed, Chain!CreateFailed, Chain!ImagesFailed
<1>2. sc_job \in Chain!Job /\ JobShape(sc_job) /\ Held(sc, sc_job) = Made(sc_job)
      /\ Books(Made(sc_job), sc_live, sc_leaked, sc_next, sc_destroys)
  BY <1>1, ChainFacts
<1>3. sc_job.images = <<>> /\ sc_job.memory = <<>>
      /\ Made(sc_job) = {sc_job.surface, sc_job.swapchain} \ {0}
  BY <1>1, <1>2, ToSetEmpty DEF JobShape, Made
<1>4. UNCHANGED <<sc_next, sc_leaked>>
  BY <1>1 DEF Chain!GiveUp
<1>5. CASE Chain!SurfaceFailed
  <2>1. Made(sc_job) = {} /\ UNCHANGED <<sc_live, sc_destroys>>
    BY <1>2, <1>3, <1>5 DEF JobShape, Chain!SurfaceFailed, Chain!Keep
  <2> QED
    BY <1>1, <1>2, <1>3, <1>4, <2>1, JobFailed
<1>6. CASE Chain!QueryFailed \/ Chain!CreateFailed \/ Chain!ImagesFailed
  <2>1. Chain!Destroy(Made(sc_job))
    <3>1. CASE Chain!QueryFailed \/ Chain!CreateFailed
      <4>1. sc_job.swapchain = 0 /\ Chain!Destroy({sc_job.surface} \ {0})
        BY <1>2, <3>1 DEF Chain!QueryFailed, Chain!CreateFailed, JobShape, Chain!Null
      <4>2. Made(sc_job) = {sc_job.surface} \ {0}
        BY <1>3, <4>1
      <4> QED
        BY <4>1, <4>2
    <3>2. CASE Chain!ImagesFailed
      BY <1>3, <3>2 DEF Chain!ImagesFailed, Chain!Null
    <3> QED
      BY <1>6, <3>1, <3>2
  <2>2. Books(Made(sc_job) \ Made(sc_job), sc_live', sc_leaked, sc_next, sc_destroys')
    <3>1. PICK M : M = Made(sc_job)
      OBVIOUS
    <3>2. /\ sc_live' = sc_live \ M
          /\ sc_destroys' =
               [h \in Chain!Handle |-> IF h \in M THEN sc_destroys[h] + 1 ELSE sc_destroys[h]]
      BY <2>1, <3>1 DEF Chain!Destroy
    <3>3. M \subseteq M /\ Books(M, sc_live, sc_leaked, sc_next, sc_destroys)
      BY <1>2, <3>1
    <3>4. Books(M \ M, sc_live', sc_leaked, sc_next, sc_destroys')
      BY <3>2, <3>3, BooksDestroy
    <3> QED
      BY <3>1, <3>4
  <2>3. Made(sc_job) \ Made(sc_job) = {}
    OBVIOUS
  <2> QED
    BY <1>1, <1>2, <1>3, <1>4, <2>2, <2>3, JobFailed
<1> QED
  BY <1>5, <1>6

\* A Vulkan call on the way to a swapchain succeeds.
LEMMA ChainCreated ==
  ASSUME ChainInv, Chain!SurfaceOk \/ Chain!CreateOk
  PROVE  ChainInv'
<1>1. /\ sc_job.step \in {"surface", "create"}
      /\ sc_next <= ChainHandles /\ sc_next' = sc_next + 1
      /\ sc_live' = sc_live \cup {sc_next}
      /\ UNCHANGED <<sc_destroys, sc, sc_device, sc_headless, sc_leaked>>
  BY DEF Chain!SurfaceOk, Chain!CreateOk, Chain!NewLive, Chain!New
<1>2. sc_job \in Chain!Job /\ JobShape(sc_job)
      /\ Books(Made(sc_job), sc_live, sc_leaked, sc_next, sc_destroys)
  BY <1>1, ChainFacts
<1>3. /\ sc_next \in Chain!Handles /\ sc_next # 0
      /\ \A h \in Made(sc_job) : h # sc_next
  BY <1>1, <1>2, ChainConstants DEF Books, Chain!Handles, Chain!Handle
<1>4. Books(Made(sc_job) \cup {sc_next}, sc_live', sc_leaked', sc_next', sc_destroys')
  BY <1>1, <1>2, BooksNew
<1>5. sc_job.images = <<>> /\ sc_job.memory = <<>>
      /\ Made(sc_job) = {sc_job.surface, sc_job.swapchain} \ {0}
      /\ sc_job.swapchain = 0 /\ sc_job.mode # "Offscreen"
  BY <1>1, <1>2, ToSetEmpty DEF JobShape, Made
<1>6. CASE Chain!SurfaceOk
  <2>1. sc_job.step = "surface" /\ sc_job' = [sc_job EXCEPT !.step = "query", !.surface = sc_next]
    BY <1>6 DEF Chain!SurfaceOk
  <2>2. sc_job' \in Chain!Job
    BY <1>2, <1>3, <2>1 DEF Chain!Job
  <2>3. /\ sc_job'.step = "query" /\ sc_job'.surface = sc_next /\ sc_job'.swapchain = 0
        /\ sc_job'.images = <<>> /\ sc_job'.memory = <<>> /\ sc_job'.mode # "Offscreen"
    BY <1>2, <1>5, <2>1 DEF Chain!Job
  <2>4. sc_job.surface = 0
    BY <1>2, <2>1 DEF JobShape
  <2>5. JobShape(sc_job')
    BY <1>3, <2>3 DEF JobShape
  <2>6. Made(sc_job') = Made(sc_job) \cup {sc_next}
    BY <1>3, <1>5, <2>3, <2>4, ToSetEmpty DEF Made
  <2> QED
    BY <1>1, <1>2, <1>4, <2>2, <2>5, <2>6, JobStep
<1>7. CASE Chain!CreateOk
  <2>1. sc_job.step = "create" /\ sc_job' = [sc_job EXCEPT !.step = "images", !.swapchain = sc_next]
    BY <1>7 DEF Chain!CreateOk
  <2>2. sc_job' \in Chain!Job
    BY <1>2, <1>3, <2>1 DEF Chain!Job
  <2>3. /\ sc_job'.step = "images" /\ sc_job'.surface = sc_job.surface
        /\ sc_job'.swapchain = sc_next
        /\ sc_job'.images = <<>> /\ sc_job'.memory = <<>> /\ sc_job'.mode # "Offscreen"
    BY <1>2, <1>5, <2>1 DEF Chain!Job
  <2>4. sc_job.surface # 0 /\ sc_job.surface # sc_next
    BY <1>2, <1>3, <1>5, <2>1 DEF JobShape
  <2>5. JobShape(sc_job')
    BY <1>3, <2>3, <2>4 DEF JobShape
  <2>6. Made(sc_job') = Made(sc_job) \cup {sc_next}
    BY <1>3, <1>5, <2>3, <2>4, ToSetEmpty DEF Made
  <2> QED
    BY <1>1, <1>2, <1>4, <2>2, <2>5, <2>6, JobStep
<1> QED
  BY <1>6, <1>7

\* An image or its memory is created offscreen.
LEMMA ChainAppended ==
  ASSUME ChainInv, Chain!ImageCreated \/ Chain!MemoryAllocated
  PROVE  ChainInv'
<1>1. /\ sc_job.step \in {"image", "memory"}
      /\ sc_next <= ChainHandles /\ sc_next' = sc_next + 1
      /\ sc_live' = sc_live \cup {sc_next}
      /\ UNCHANGED <<sc_destroys, sc, sc_device, sc_headless, sc_leaked>>
  BY DEF Chain!ImageCreated, Chain!MemoryAllocated, Chain!NewLive, Chain!New
<1>2. sc_job \in Chain!Job /\ JobShape(sc_job)
      /\ Books(Made(sc_job), sc_live, sc_leaked, sc_next, sc_destroys)
  BY <1>1, ChainFacts
<1>3. sc_next \in Chain!Handle
  BY <1>1, <1>2, ChainConstants DEF Books, Chain!Handle
<1>4. Books(Made(sc_job) \cup {sc_next}, sc_live', sc_leaked', sc_next', sc_destroys')
  BY <1>1, <1>2, BooksNew
<1>5. /\ sc_job.images \in Seq(Chain!Handle) /\ sc_job.memory \in Seq(Chain!Handle)
      /\ sc_job.surface = 0 /\ sc_job.swapchain = 0 /\ sc_job.mode = "Offscreen"
  BY <1>1, <1>2 DEF JobShape, Chain!Job
<1>6. CASE Chain!ImageCreated
  <2>1. sc_job' = [sc_job EXCEPT !.step = "memory", !.images = Append(sc_job.images, sc_next)]
    BY <1>2, <1>6 DEF Chain!ImageCreated, Chain!Job
  <2>2. Append(sc_job.images, sc_next) \in Seq(Chain!Handle)
    BY <1>3, <1>5
  <2>3. sc_job' \in Chain!Job
    BY <1>2, <2>1, <2>2 DEF Chain!Job
  <2>4. /\ sc_job'.step = "memory" /\ sc_job'.surface = 0 /\ sc_job'.swapchain = 0
        /\ sc_job'.images = Append(sc_job.images, sc_next) /\ sc_job'.memory = sc_job.memory
        /\ sc_job'.mode = "Offscreen"
    BY <1>2, <1>5, <2>1 DEF Chain!Job
  <2>5. JobShape(sc_job')
    BY <2>4 DEF JobShape
  <2>6. Chain!ToSet(sc_job'.images) = Chain!ToSet(sc_job.images) \cup {sc_next}
    BY <1>5, <2>4, ToSetAppend
  <2>7. Made(sc_job') = Made(sc_job) \cup {sc_next}
    BY <1>5, <2>4, <2>6 DEF Made
  <2> QED
    BY <1>1, <1>2, <1>4, <2>3, <2>5, <2>7, JobStep
<1>7. CASE Chain!MemoryAllocated
  <2>1. sc_job' = [sc_job EXCEPT !.step = "bind", !.memory = Append(sc_job.memory, sc_next)]
    BY <1>2, <1>7 DEF Chain!MemoryAllocated, Chain!Job
  <2>2. Append(sc_job.memory, sc_next) \in Seq(Chain!Handle)
    BY <1>3, <1>5
  <2>3. sc_job' \in Chain!Job
    BY <1>2, <2>1, <2>2 DEF Chain!Job
  <2>4. /\ sc_job'.step = "bind" /\ sc_job'.surface = 0 /\ sc_job'.swapchain = 0
        /\ sc_job'.images = sc_job.images /\ sc_job'.memory = Append(sc_job.memory, sc_next)
        /\ sc_job'.mode = "Offscreen"
    BY <1>2, <1>5, <2>1 DEF Chain!Job
  <2>5. JobShape(sc_job')
    BY <2>4 DEF JobShape
  <2>6. Chain!ToSet(sc_job'.memory) = Chain!ToSet(sc_job.memory) \cup {sc_next}
    BY <1>5, <2>4, ToSetAppend
  <2>7. Made(sc_job') = Made(sc_job) \cup {sc_next}
    BY <1>5, <2>4, <2>6 DEF Made
  <2> QED
    BY <1>1, <1>2, <1>4, <2>3, <2>5, <2>7, JobStep
<1> QED
  BY <1>6, <1>7

\* A step of a creation that creates nothing.
LEMMA ChainProceeds ==
  ASSUME ChainInv, Chain!QueryOk \/ Chain!ImageBound
  PROVE  ChainInv'
<1>1. /\ sc_job.step \in {"query", "bind"}
      /\ UNCHANGED <<sc, sc_next, sc_device, sc_headless, sc_leaked, sc_live, sc_destroys>>
      /\ \/ sc_job.step = "query" /\ sc_job' = [sc_job EXCEPT !.step = "create"]
         \/ sc_job.step = "bind" /\ sc_job' = [sc_job EXCEPT !.step = "image"]
  BY DEF Chain!QueryOk, Chain!ImageBound, Chain!Keep
<1>2. sc_job \in Chain!Job /\ JobShape(sc_job)
      /\ Books(Made(sc_job), sc_live, sc_leaked, sc_next, sc_destroys)
  BY <1>1, ChainFacts
<1>3. sc_job' \in Chain!Job
  BY <1>1, <1>2 DEF Chain!Job
<1>4. /\ sc_job'.surface = sc_job.surface /\ sc_job'.swapchain = sc_job.swapchain
      /\ sc_job'.images = sc_job.images /\ sc_job'.memory = sc_job.memory
      /\ sc_job'.mode = sc_job.mode
      /\ \/ sc_job.step = "query" /\ sc_job'.step = "create"
         \/ sc_job.step = "bind" /\ sc_job'.step = "image"
  BY <1>1, <1>2 DEF Chain!Job
<1>5. JobShape(sc_job') /\ Made(sc_job') = Made(sc_job)
  BY <1>2, <1>4 DEF JobShape, Made
<1> QED
  BY <1>1, <1>2, <1>3, <1>5, JobStep

\* An offscreen creation fails.
LEMMA ChainAbandoned ==
  ASSUME ChainInv, Chain!OffscreenFailed
  PROVE  ChainInv'
<1>1. /\ sc_job.step \in {"image", "memory", "bind"}
      /\ sc_leaked' = sc_leaked \cup Chain!ToSet(sc_job.images) \cup Chain!ToSet(sc_job.memory)
      /\ sc_job' = Chain!NoJob
      /\ UNCHANGED <<sc, sc_next, sc_device, sc_headless, sc_live, sc_destroys>>
  BY DEF Chain!OffscreenFailed, Chain!Keep
<1>2. sc_job \in Chain!Job /\ JobShape(sc_job) /\ sc_device = "up"
      /\ Books(Made(sc_job), sc_live, sc_leaked, sc_next, sc_destroys)
  BY <1>1, ChainFacts
<1>3. sc_leaked' = sc_leaked \cup Made(sc_job)
  BY <1>1, <1>2 DEF JobShape, Made
<1>4. Books({}, sc_live', sc_leaked', sc_next', sc_destroys')
  BY <1>1, <1>2, <1>3, BooksLeak
<1>5. Held(sc', sc_job') = {}
  BY <1>1, <1>2, ChainNot DEF Held, ChainInv
<1> QED
  BY <1>1, <1>2, <1>4, <1>5, ChainNot DEF ChainInv

\* A creation is complete: what it made is the chain's.
LEMMA ChainCompleted ==
  ASSUME ChainInv, Chain!ImagesOk \/ Chain!OffscreenCreated
  PROVE  ChainInv'
<1>1. /\ sc_job.step \in {"images", "image"} /\ sc_job' = Chain!NoJob
      /\ UNCHANGED <<sc_device, sc_headless, sc_leaked, sc_live, sc_destroys>>
  BY DEF Chain!ImagesOk, Chain!OffscreenCreated, Chain!Created, Chain!Keep
<1>2. sc_job \in Chain!Job /\ JobShape(sc_job) /\ sc_device = "up"
      /\ Books(Made(sc_job), sc_live, sc_leaked, sc_next, sc_destroys)
      /\ sc_next \in Nat
  BY <1>1, ChainFacts
<1>3. PICK images \in Seq(Chain!Handle) :
        /\ sc' = [mode |-> sc_job.mode, surface |-> sc_job.surface,
                  swapchain |-> sc_job.swapchain, images |-> images,
                  memory |-> sc_job.memory, current |-> 0]
        /\ sc_job.step = "image" => images = sc_job.images
  <2>1. CASE Chain!ImagesOk
    <3>1. /\ sc_next + BufferCount <= ChainHandles
          /\ Chain!Created([i \in 1 .. BufferCount |-> sc_next + i])
          /\ sc_job.step = "images"
      BY <2>1 DEF Chain!ImagesOk, Chain!NewImages
    <3>2. \A i \in 1 .. BufferCount : sc_next + i \in Chain!Handle
      BY <1>2, <3>1, ChainConstants DEF Chain!Handle
    <3>3. [i \in 1 .. BufferCount |-> sc_next + i] \in Seq(Chain!Handle)
      BY <3>2, ChainConstants
    <3> QED
      BY <3>1, <3>3 DEF Chain!Created
  <2>2. CASE Chain!OffscreenCreated
    BY <1>2, <2>2 DEF Chain!OffscreenCreated, Chain!Created, Chain!Job
  <2> QED
    BY <2>1, <2>2
<1>4. sc' \in Chain!Chain
  BY <1>2, <1>3 DEF Chain!Job, Chain!Chain
<1>5. /\ sc'.mode = sc_job.mode /\ sc'.surface = sc_job.surface
      /\ sc'.swapchain = sc_job.swapchain /\ sc'.images = images /\ sc'.memory = sc_job.memory
  BY <1>3
<1>6. ChainShape(sc')
  BY <1>1, <1>2, <1>5 DEF JobShape, ChainShape
<1>7. Chain!Owned(sc') = Made(sc_job)
  BY <1>1, <1>2, <1>3, <1>5, ToSetEmpty
     DEF JobShape, Chain!Owned, Made, Chain!Offscreen, Chain!Null
<1>8. Held(sc', sc_job') = Made(sc_job)
  BY <1>1, <1>4, <1>7, ChainNot DEF Held
<1>9. Books(Made(sc_job), sc_live', sc_leaked', sc_next', sc_destroys')
  <2>1. CASE Chain!ImagesOk
    <3>1. sc_next + BufferCount <= ChainHandles /\ sc_next' = sc_next + BufferCount + 1
      BY <2>1 DEF Chain!ImagesOk
    <3>2. sc_next' \in 1 .. (ChainHandles + 1) /\ sc_next <= sc_next'
      BY <1>2, <3>1, ChainConstants
    <3> QED
      BY <1>1, <1>2, <3>2, BooksKeep
  <2>2. CASE Chain!OffscreenCreated
    BY <1>1, <1>2, <2>2 DEF Chain!OffscreenCreated
  <2> QED
    BY <2>1, <2>2
<1> QED
  BY <1>1, <1>2, <1>4, <1>6, <1>8, <1>9, ChainNot DEF ChainInv

\* The index of the current image moves.
LEMMA ChainMoves ==
  ASSUME ChainInv, Chain!acquire_next \/ Chain!present
  PROVE  ChainInv'
<1>1. /\ sc_job = Chain!NoJob /\ sc_device = "up" /\ sc # Chain!NoChain
      /\ UNCHANGED <<sc_job, sc_next, sc_device, sc_headless, sc_leaked, sc_live, sc_destroys>>
  BY DEF Chain!acquire_next, Chain!present, Chain!Usable, Chain!Idle, Chain!Keep
<1>2. sc \in Chain!Chain /\ ChainShape(sc)
  BY <1>1 DEF ChainInv
<1>3. PICK i \in Nat : sc' = [sc EXCEPT !.current = i]
  <2>1. Len(sc.images) \in Nat /\ sc.current \in Nat
    BY <1>2 DEF Chain!Chain
  <2>2. CASE Chain!acquire_next
    BY <2>1, <2>2 DEF Chain!acquire_next
  <2>3. CASE Chain!present
    <3>1. \A n \in Nat \ {0} : (sc.current + 1) % n \in Nat
      BY <2>1
    <3>2. Chain!Wrapped(sc.current, Len(sc.images)) \in Nat
      BY <2>1, <3>1 DEF Chain!Wrapped
    <3> QED
      BY <1>2, <2>3, <3>2 DEF Chain!present, Chain!Chain
  <2> QED
    BY <2>2, <2>3
<1>4. sc' \in Chain!Chain
  BY <1>2, <1>3 DEF Chain!Chain
<1>5. /\ sc'.mode = sc.mode /\ sc'.surface = sc.surface /\ sc'.swapchain = sc.swapchain
      /\ sc'.images = sc.images /\ sc'.memory = sc.memory
  BY <1>2, <1>3 DEF Chain!Chain
<1>6. ChainShape(sc') /\ Chain!Owned(sc') = Chain!Owned(sc)
  BY <1>2, <1>5 DEF ChainShape, Chain!Owned
<1>7. Held(sc', sc_job') = Held(sc, sc_job)
  BY <1>1, <1>2, <1>4, <1>6, ChainNot DEF Held
<1> QED
  BY <1>1, <1>4, <1>6, <1>7, ChainNot DEF ChainInv

\* What a chain owns is destroyed, but for what goes to the creation of its successor.
LEMMA ChainDestroyed ==
  ASSUME ChainInv, sc_job = Chain!NoJob, sc_device = "up", sc \in Chain!Chain,
         NEW D, D \subseteq Chain!Owned(sc), Chain!Destroy(D),
         UNCHANGED <<sc_next, sc_device, sc_headless, sc_leaked>>,
         sc' \in Chain!Chain \cup {Chain!NoChain}, sc_job' \in Chain!Job \cup {Chain!NoJob},
         sc_job' \in Chain!Job => JobShape(sc_job'),
         sc' \in Chain!Chain => ChainShape(sc') /\ Chain!Owned(sc') = {},
         Held(sc', sc_job') = Chain!Owned(sc) \ D
  PROVE  ChainInv'
<1>1. PICK S : S = Chain!Owned(sc)
  OBVIOUS
<1>2. Books(S, sc_live, sc_leaked, sc_next, sc_destroys)
  <2>1. Held(sc, sc_job) = S
    BY <1>1, ChainNot DEF Held
  <2> QED
    BY <2>1 DEF ChainInv
<1>3. /\ sc_live' = sc_live \ D
      /\ sc_destroys' =
           [h \in Chain!Handle |-> IF h \in D THEN sc_destroys[h] + 1 ELSE sc_destroys[h]]
  BY DEF Chain!Destroy
<1>4. Books(S \ D, sc_live', sc_leaked, sc_next, sc_destroys')
  <2>1. D \subseteq S
    BY <1>1
  <2> QED
    BY <1>2, <1>3, <2>1, BooksDestroy
<1>5. Books(Held(sc', sc_job'), sc_live', sc_leaked', sc_next', sc_destroys')
  BY <1>1, <1>4
<1> QED
  BY <1>5, ChainNot DEF ChainInv

LEMMA ChainEmptied ==
  ASSUME NEW c \in Chain!Chain
  PROVE  /\ Chain!Emptied(c) \in Chain!Chain /\ ChainShape(Chain!Emptied(c))
         /\ Chain!Owned(Chain!Emptied(c)) = {}
<1>1. PICK e : e = Chain!Emptied(c)
  OBVIOUS
<1>2. e = [c EXCEPT !.surface = 0, !.swapchain = 0, !.images = <<>>, !.memory = <<>>]
  BY <1>1 DEF Chain!Emptied, Chain!Null
<1>3. 0 \in Chain!Handles /\ <<>> \in Seq(Chain!Handle)
  BY DEF Chain!Handles, Chain!Null
<1>4. e \in Chain!Chain
  BY <1>2, <1>3 DEF Chain!Chain
<1>5. e.surface = 0 /\ e.swapchain = 0 /\ e.images = <<>> /\ e.memory = <<>>
  BY <1>2 DEF Chain!Chain
<1>6. ChainShape(e) /\ Chain!Owned(e) = {}
  BY <1>5, ToSetEmpty DEF ChainShape, Chain!Owned, Chain!Null
<1> QED
  BY <1>1, <1>4, <1>6

LEMMA ChainResized ==
  ASSUME ChainInv, Chain!resize_buffers
  PROVE  ChainInv'
<1>1. /\ sc_job = Chain!NoJob /\ sc_device = "up" /\ sc # Chain!NoChain
      /\ sc.mode = "Windowed" => sc.surface # 0
      /\ UNCHANGED <<sc_next, sc_device, sc_headless, sc_leaked>>
      /\ sc' = Chain!Emptied(sc)
  BY DEF Chain!resize_buffers, Chain!Usable, Chain!Idle, Chain!ResizeWindowed,
         Chain!ResizeInvisible, Chain!Windowed, Chain!Null
<1>2. sc \in Chain!Chain /\ ChainShape(sc)
  BY <1>1 DEF ChainInv
<1>3. sc' \in Chain!Chain /\ ChainShape(sc') /\ Chain!Owned(sc') = {}
  BY <1>1, <1>2, ChainEmptied
<1>4. CASE Chain!ResizeWindowed
  <2>1. /\ sc.mode = "Windowed" /\ Chain!Start("Windowed", sc.surface, "query")
        /\ Chain!Destroy(Chain!Owned([sc EXCEPT !.surface = 0]))
    BY <1>4 DEF Chain!ResizeWindowed, Chain!Windowed, Chain!Null
  <2>2. PICK c : c = [sc EXCEPT !.surface = 0]
    OBVIOUS
  <2>3. /\ c.surface = 0 /\ c.swapchain = sc.swapchain /\ c.memory = sc.memory
        /\ c.images = sc.images /\ c.mode = "Windowed"
    BY <1>2, <2>1, <2>2 DEF Chain!Chain
  <2>4. sc.surface # 0 /\ sc.memory = <<>> /\ sc.surface # sc.swapchain
    BY <1>1, <1>2, <2>1 DEF ChainShape
  <2>5. PICK D : D = Chain!Owned(c)
    OBVIOUS
  <2>6. D = {sc.swapchain} \ {0} /\ Chain!Owned(sc) = {sc.surface, sc.swapchain} \ {0}
    BY <2>1, <2>3, <2>4, <2>5, ToSetEmpty DEF Chain!Owned, Chain!Offscreen, Chain!Null
  <2>7. D \subseteq Chain!Owned(sc) /\ Chain!Owned(sc) \ D = {sc.surface}
    BY <2>4, <2>6
  <2>8. "Windowed" \in Chain!Mode /\ sc.surface \in Chain!Handles
    BY <1>2 DEF Chain!Mode, Chain!Windowed, Chain!Chain
  <2>9. sc_job' \in Chain!Job /\ JobShape(sc_job') /\ Made(sc_job') = {sc.surface}
    BY <2>1, <2>4, <2>8, Started DEF JobShape
  <2>10. Held(sc', sc_job') = Chain!Owned(sc) \ D
    BY <1>3, <2>7, <2>9, ChainNot DEF Held
  <2>11. Chain!Destroy(D)
    BY <2>1, <2>2, <2>5
  <2> QED
    BY <1>1, <1>2, <1>3, <2>7, <2>9, <2>10, <2>11, ChainDestroyed
<1>5. CASE Chain!ResizeInvisible
  <2>1. Chain!StartInvisible /\ Chain!Destroy(Chain!Owned(sc))
    BY <1>5 DEF Chain!ResizeInvisible
  <2>2. sc_job' \in Chain!Job /\ JobShape(sc_job') /\ Made(sc_job') = {}
    BY <2>1, StartedInvisible
  <2>3. Held(sc', sc_job') = Chain!Owned(sc) \ Chain!Owned(sc)
    BY <1>3, <2>2, ChainNot DEF Held
  <2> QED
    BY <1>1, <1>2, <1>3, <2>1, <2>2, <2>3, ChainDestroyed
<1> QED
  BY <1>4, <1>5 DEF Chain!resize_buffers

LEMMA ChainDropped ==
  ASSUME ChainInv, Chain!drop
  PROVE  ChainInv'
<1>1. /\ sc_job = Chain!NoJob /\ sc_device = "up" /\ sc # Chain!NoChain
      /\ UNCHANGED <<sc_job, sc_next, sc_device, sc_headless, sc_leaked>>
      /\ sc' = Chain!NoChain /\ Chain!Destroy(Chain!Owned(sc))
  BY DEF Chain!drop, Chain!Usable, Chain!Idle
<1>2. sc \in Chain!Chain
  BY <1>1 DEF ChainInv
<1>3. Held(sc', sc_job') = Chain!Owned(sc) \ Chain!Owned(sc)
  BY <1>1 DEF Held
<1>4. sc' \notin Chain!Chain /\ sc_job' \notin Chain!Job
  BY <1>1, ChainNot
<1> QED
  BY <1>1, <1>2, <1>3, <1>4, ChainDestroyed

\* Every step of the swap chain.
LEMMA ChainNextInv ==
  ASSUME ChainInv, Chain!Next
  PROVE  ChainInv'
<1>1. CASE Chain!drop_ctx
  <2>1. /\ sc = Chain!NoChain /\ sc_job = Chain!NoJob /\ sc_device' = "down"
        /\ UNCHANGED <<sc, sc_job, sc_next, sc_headless, sc_leaked, sc_live, sc_destroys>>
    BY <1>1 DEF Chain!drop_ctx, Chain!Idle, Chain!Keep
  <2> QED
    BY <2>1 DEF ChainInv
<1>2. CASE Chain!PresentFailed
  BY <1>2 DEF Chain!PresentFailed, Chain!vars, ChainInv
<1> QED
  BY <1>1, <1>2, ChainCreate, ChainFallback, ChainFailed, ChainCreated, ChainAppended,
     ChainProceeds, ChainAbandoned, ChainCompleted, ChainMoves, ChainResized, ChainDropped
     DEF Chain!Next

LEMMA ChainInitInv ==
  ASSUME Chain!Init
  PROVE  ChainInv
<1>1. Held(sc, sc_job) = {}
  BY DEF Chain!Init, Held
<1>2. sc_next = 1 /\ sc_live = {} /\ sc_leaked = {}
      /\ sc_destroys = [h \in Chain!Handle |-> 0]
  BY DEF Chain!Init
<1>3. Books({}, sc_live, sc_leaked, sc_next, sc_destroys)
  BY <1>2, ChainConstants DEF Books
<1> QED
  BY <1>1, <1>3 DEF Chain!Init, ChainInv

\* What the invariant gives.
LEMMA ChainSafe ==
  ASSUME ChainInv
  PROVE  /\ Chain!TypeOK /\ Chain!DestroyedOnce /\ Chain!NothingElseOutlivesDevice
         /\ Chain!SurfaceOutlivesSwapchain
<1>1. /\ sc_live = Held(sc, sc_job) \cup sc_leaked
      /\ sc_next \in 1 .. (ChainHandles + 1) /\ sc_next \in Nat
      /\ sc_live \subseteq 1 .. (sc_next - 1)
      /\ sc_destroys \in [Chain!Handle -> Nat]
      /\ \A h \in Chain!Handle : sc_destroys[h] <= 1
  BY ChainConstants DEF ChainInv, Books
<1>2. Chain!TypeOK
  <2>1. sc_live \subseteq Chain!Handle
    BY <1>1, ChainConstants DEF Chain!Handle
  <2> QED
    BY <1>1, <2>1 DEF Chain!TypeOK, ChainInv
<1>3. Chain!NothingElseOutlivesDevice
  BY <1>1 DEF Chain!NothingElseOutlivesDevice, ChainInv, Held
<1>4. Chain!SurfaceOutlivesSwapchain
  <2>1. ASSUME sc # Chain!NoChain, sc.swapchain # 0
        PROVE  {sc.surface, sc.swapchain} \subseteq sc_live
    <3>1. sc.surface # 0
      BY <2>1 DEF ChainInv, ChainShape
    <3> QED
      BY <1>1, <2>1, <3>1 DEF Held, Chain!Owned, Chain!Null
  <2>2. ASSUME sc_job # Chain!NoJob, sc_job.swapchain # 0
        PROVE  {sc_job.surface, sc_job.swapchain} \subseteq sc_live
    <3>1. sc_job \in Chain!Job /\ JobShape(sc_job)
      BY <2>2 DEF ChainInv
    <3>2. sc_job.surface # 0
      BY <2>2, <3>1 DEF JobShape, Chain!Job
    <3> QED
      BY <1>1, <2>2, <3>2 DEF Held, Made
  <2> QED
    BY <2>1, <2>2 DEF Chain!SurfaceOutlivesSwapchain, Chain!Null
<1> QED
  BY <1>1, <1>2, <1>3, <1>4 DEF Chain!DestroyedOnce


-----------------------------------------------------------------------------
(* The Direct3D 12 layer: who owns what *)

Resources12 ==
  [kind : {"image", "buffer"}, handle : Nat, memory : Nat, host_visible : BOOLEAN,
   mapped : BOOLEAN]
Descriptors12 == [view : Nat, image : Nat]
Pipelines12 ==
  [kind : {"pso"}, render_pass : Nat, module : Nat, pipeline : Nat, own : SUBSET Nat]
Lists12Of ==
  [kind : {"list"}, allocator : Allocator, command_buffer : Nat, target : Descriptors12,
   pipeline : [pipeline : Nat, render_pass : Nat], recording : BOOLEAN, closed : BOOLEAN]
Commands12 ==
  [op : {"clear", "barrier", "buffer", "draw"}, image : Nat,
   before : State \cup {"RenderTarget"}, after : State \cup {"RenderTarget"}, uses : SUBSET Nat]
Buffers12 == [commands : Seq(Commands12), spent : BOOLEAN]

Types12 ==
  /\ y_res \in [Resource -> Resources12 \cup {D12!None}]
  /\ y_heap \in Descriptors12 /\ y_root \in Nat
  /\ y_pso \in Pipelines12 \cup {D12!None}
  /\ y_pool \in [Allocator -> Nat]
  /\ y_list \in [List -> Lists12Of \cup {D12!None}]
  /\ y_cb \in [DOMAIN y_cb -> Buffers12]
  /\ y_ref \in [D12!Object -> Nat]

OfResource(r) == IF r = D12!None THEN {} ELSE {r.handle, r.memory}
\* A list whose reset failed has no buffer, but the name of one.
OfList(l, buffers) == IF l = D12!None THEN {} ELSE {l.command_buffer} \cap buffers
OfPso(p) == IF p = D12!None THEN {} ELSE {p.pipeline, p.render_pass, p.module} \cup p.own

Owner12 == Resource \cup List \cup Allocator \cup {"heap", "root", "pso"}
Own12 ==
  [p \in Owner12 |->
     IF p \in Resource THEN OfResource(y_res[p])
     ELSE IF p \in List THEN OfList(y_list[p], DOMAIN y_cb)
     ELSE IF p \in Allocator THEN {y_pool[p]} \ {0}
     ELSE IF p = "heap" THEN {y_heap.view} \ {0}
     ELSE IF p = "root" THEN {y_root} \ {0}
     ELSE OfPso(y_pso)]

\* Only the buffer a failed reset has freed is ever destroyed again.
Owners12 ==
  /\ Accounted(Own12, y_live, y_leaked, y_next)
  /\ y_next <= Lists12 + 1
  /\ y_dangling \subseteq 1 .. (y_next - 1) /\ y_dangling \cap y_live = {}
  /\ y_twice \subseteq y_dangling

\* An allocator's pool is there while its pointer or a list holds it.
UsesPool(a) == \E l \in List : y_list[l] # D12!None /\ y_list[l].allocator = a

\* A slot is filled while the interface pointer is live.
Links12 ==
  /\ \A r \in Resource : D12!Live(r) <=> y_res[r] # D12!None
  /\ \A l \in List : D12!Live(l) <=> y_list[l] # D12!None
  /\ \A a \in Allocator : y_pool[a] # 0 <=> D12!Live(a) \/ UsesPool(a)
  /\ y_heap = D12!Empty \/ (D12!Live("heap") /\ y_heap.view # 0)

\* Every buffer is some list's, and every list has a buffer or had one.
Buffered12 ==
  /\ \A l \in List : y_list[l] # D12!None => y_list[l].command_buffer \in DOMAIN y_cb \cup y_dangling
  /\ \A h \in DOMAIN y_cb : \E l \in List : y_list[l] # D12!None /\ y_list[l].command_buffer = h

Handles12 == {y_res[r].handle : r \in {s \in Resource : y_res[s] # D12!None}}
Images12 ==
  {y_res[r].handle : r \in {s \in Resource : y_res[s] # D12!None /\ y_res[s].kind = "image"}}

\* Layout and state are known of the images there are; a view whose image is
\* alive is a view of one of them.
Known12 ==
  /\ DOMAIN y_layout = Images12 /\ DOMAIN y_state = Images12
  /\ D12!LayoutIsState
  /\ y_heap.image < y_next
  /\ y_heap # D12!Empty /\ y_heap.image \in y_live => y_heap.image \in Images12

\* What is recorded and to be executed names resources that are there; a draw
\* names its framebuffer, which is gone.
CommandOk(c, spent, handles, live, next) ==
  /\ c.op = "clear" => c.after = "RenderTarget"
  /\ c.op # "draw" /\ ~spent => c.uses \subseteq handles
  /\ c.op = "draw" => \E u \in c.uses : u \in Nat /\ u < next /\ u \notin live
BufferOk(b, handles, live, next) ==
  \A i \in DOMAIN b.commands : CommandOk(b.commands[i], b.spent, handles, live, next)

Recorded12 ==
  \A h \in DOMAIN y_cb : BufferOk(y_cb[h], Handles12, y_live, y_next)

Inv12 == Types12 /\ Owners12 /\ Links12 /\ Buffered12 /\ Known12 /\ Recorded12

-----------------------------------------------------------------------------
(* The Direct3D 12 layer: steps *)

\* The slots of the objects are told apart.
LEMMA Slots12 ==
  /\ \A r \in Resource : r \notin List /\ r \notin Allocator
  /\ \A l \in List : l \notin Resource /\ l \notin Allocator
  /\ \A a \in Allocator : a \notin Resource /\ a \notin List
  /\ \A s \in {"heap", "queue", "device", "root", "pso"} :
       s \notin Resource /\ s \notin List /\ s \notin Allocator
  /\ \A r \in Resource : r \in D12!Object /\ r \in Owner12
  /\ \A l \in List : l \in D12!Object /\ l \in Owner12
  /\ \A a \in Allocator : a \in D12!Object /\ a \in Owner12
  /\ {"heap", "queue", "device"} \subseteq D12!Object
  /\ {"heap", "root", "pso"} \subseteq Owner12
BY SlotAssumption DEF D12!Object, Owner12

\* What each owner owns, before and after a step.
LEMMA Own12At ==
         /\ DOMAIN Own12 = Owner12
         /\ \A r \in Resource : Own12[r] = OfResource(y_res[r])
         /\ \A l \in List : Own12[l] = OfList(y_list[l], DOMAIN y_cb)
         /\ \A a \in Allocator : Own12[a] = {y_pool[a]} \ {0}
         /\ Own12["heap"] = {y_heap.view} \ {0}
         /\ Own12["root"] = {y_root} \ {0}
         /\ Own12["pso"] = OfPso(y_pso)
BY Slots12 DEF Own12

LEMMA Own12AtNext ==
         /\ DOMAIN Own12' = Owner12
         /\ \A r \in Resource : Own12'[r] = OfResource(y_res'[r])
         /\ \A l \in List : Own12'[l] = OfList(y_list'[l], DOMAIN y_cb')
         /\ \A a \in Allocator : Own12'[a] = {y_pool'[a]} \ {0}
         /\ Own12'["heap"] = {y_heap'.view} \ {0}
         /\ Own12'["root"] = {y_root'} \ {0}
         /\ Own12'["pso"] = OfPso(y_pso')
BY Slots12 DEF Own12

\* The owners but o are left alone.
LEMMA Others12 ==
  ASSUME NEW o,
         \A r \in Resource : r # o => y_res'[r] = y_res[r],
         \A l \in List : l # o => OfList(y_list'[l], DOMAIN y_cb') = OfList(y_list[l], DOMAIN y_cb),
         \A a \in Allocator : a # o => y_pool'[a] = y_pool[a],
         "heap" # o => y_heap' = y_heap,
         "root" # o => y_root' = y_root,
         "pso" # o => y_pso' = y_pso
  PROVE  \A p \in Owner12 : p # o => Own12'[p] = Own12[p]
<1>1. SUFFICES ASSUME NEW p \in Owner12, p # o PROVE Own12'[p] = Own12[p]
  OBVIOUS
<1>2. CASE p \in Resource
  BY <1>1, <1>2, Own12At, Own12AtNext
<1>3. CASE p \in List
  BY <1>1, <1>3, Own12At, Own12AtNext
<1>4. CASE p \in Allocator
  <2>1. Own12[p] = {y_pool[p]} \ {0} /\ Own12'[p] = {y_pool'[p]} \ {0}
    BY <1>4, Own12At, Own12AtNext
  <2>2. y_pool'[p] = y_pool[p]
    BY <1>1, <1>4
  <2> QED
    BY <2>1, <2>2
<1>5. CASE p = "heap"
  <2>1. Own12[p] = {y_heap.view} \ {0} /\ Own12'[p] = {y_heap'.view} \ {0}
    BY <1>5, Own12At, Own12AtNext
  <2> QED
    BY <1>1, <1>5, <2>1
<1>6. CASE p = "root"
  <2>1. Own12[p] = {y_root} \ {0} /\ Own12'[p] = {y_root'} \ {0}
    BY <1>6, Own12At, Own12AtNext
  <2> QED
    BY <1>1, <1>6, <2>1
<1>7. CASE p = "pso"
  <2>1. Own12[p] = OfPso(y_pso) /\ Own12'[p] = OfPso(y_pso')
    BY <1>7, Own12At, Own12AtNext
  <2> QED
    BY <1>1, <1>7, <2>1
<1> QED
  BY <1>2, <1>3, <1>4, <1>5, <1>6, <1>7 DEF Owner12

\* A handle that is gone stays so.
Gone12 == \A h \in Nat : h < y_next /\ h \notin y_live => h < y_next' /\ h \notin y_live'

\* What the invariant says of the handles at hand.
LEMMA Facts12 ==
  ASSUME Inv12
  PROVE  /\ y_next \in Nat \ {0} /\ Lists12 \in Nat
         /\ y_live \subseteq 1 .. (y_next - 1) /\ 0 \notin y_live /\ y_next \notin y_live
         /\ y_leaked \subseteq y_live
         /\ \A p \in Owner12 : Own12[p] \subseteq y_live /\ Own12[p] \cap y_leaked = {}
         /\ \A p, q \in Owner12 : p # q => Own12[p] \cap Own12[q] = {}
         /\ \A h \in y_live : h \in y_leaked \/ \E p \in Owner12 : h \in Own12[p]
         /\ Images12 \subseteq Handles12 /\ Handles12 \subseteq y_live
         /\ DOMAIN y_cb \subseteq y_live
<1>1. Accounted(Own12, y_live, y_leaked, y_next) /\ DOMAIN Own12 = Owner12
  BY Own12At DEF Inv12, Owners12
<1>2. y_next \in Nat \ {0} /\ y_live \subseteq 1 .. (y_next - 1) /\ Lists12 \in Nat
  BY <1>1, GraphicsAssumption DEF Accounted
<1>3. 0 \notin y_live /\ y_next \notin y_live
  BY <1>2
<1>4. /\ y_leaked \subseteq y_live
      /\ \A p \in Owner12 : Own12[p] \subseteq y_live /\ Own12[p] \cap y_leaked = {}
      /\ \A p, q \in Owner12 : p # q => Own12[p] \cap Own12[q] = {}
      /\ \A h \in y_live : h \in y_leaked \/ \E p \in Owner12 : h \in Own12[p]
  BY <1>1 DEF Accounted
<1>5. Images12 \subseteq Handles12
  BY DEF Images12, Handles12
<1>6. Handles12 \subseteq y_live
  <2>1. ASSUME NEW r \in Resource, y_res[r] # D12!None
        PROVE  y_res[r].handle \in y_live
    <3>1. Own12[r] = {y_res[r].handle, y_res[r].memory}
      BY <2>1, Own12At DEF OfResource
    <3> QED
      BY <1>4, <3>1, Slots12
  <2> QED
    BY <2>1 DEF Handles12
<1>7. DOMAIN y_cb \subseteq y_live
  <2>1. SUFFICES ASSUME NEW h \in DOMAIN y_cb PROVE h \in y_live
    OBVIOUS
  <2>2. PICK l \in List : y_list[l] # D12!None /\ y_list[l].command_buffer = h
    BY DEF Inv12, Buffered12
  <2>3. h \in Own12[l]
    BY ZenonT(60), <2>2, Own12At DEF OfList
  <2> QED
    BY <1>4, <2>3, Slots12
<1> QED
  BY <1>2, <1>3, <1>4, <1>5, <1>6, <1>7

\* One call: the owners share what it makes and destroys.  Only the buffer a
\* failed reset has left may be destroyed again.
LEMMA Owner12Step ==
  ASSUME Owners12, NEW n \in Nat, NEW D, NEW L,
         D12!Vk(n, D, L),
         HandsOver(Own12, Own12', y_next .. (y_next + n - 1), D, L),
         D \cap y_leaked = {}, D \subseteq y_live \cup y_dangling,
         y_dangling \subseteq y_dangling', y_dangling' \subseteq y_dangling \cup D
  PROVE  Owners12' /\ Gone12
<1>1. /\ y_live' = (y_live \ D) \cup (y_next .. (y_next + n - 1))
      /\ y_leaked' = y_leaked \cup L
      /\ y_next' = y_next + n
      /\ y_next + n - 1 <= Lists12
      /\ y_twice' = y_twice \cup (D \ y_live)
  BY DEF D12!Vk
<1>2. Accounted(Own12, y_live, y_leaked, y_next)
      /\ y_dangling \subseteq 1 .. (y_next - 1) /\ y_dangling \cap y_live = {}
      /\ y_twice \subseteq y_dangling
  BY DEF Owners12
<1>3. Accounted(Own12', (y_live \ D) \cup (y_next .. (y_next + n - 1)),
                y_leaked \cup L, y_next + n)
  BY <1>2, AccountStep
<1>4. y_next \in Nat \ {0} /\ Lists12 \in Nat /\ y_live \subseteq 1 .. (y_next - 1)
  BY <1>2, GraphicsAssumption DEF Accounted
<1>5. y_next' <= Lists12 + 1
  BY <1>1, <1>4
<1>6. \A h \in 1 .. (y_next - 1) : h \notin y_next .. (y_next + n - 1) /\ h \in 1 .. (y_next' - 1)
  BY <1>1, <1>4
<1>7. y_dangling' \subseteq 1 .. (y_next' - 1)
  BY <1>2, <1>4, <1>6
<1>8. y_dangling' \cap y_live' = {}
  <2>1. SUFFICES ASSUME NEW h \in y_dangling', h \in y_live' PROVE FALSE
    OBVIOUS
  <2>2. h \in 1 .. (y_next - 1)
    BY <1>2, <1>4
  <2>3. h \in y_live \ D
    BY <1>1, <1>6, <2>1, <2>2
  <2> QED
    BY <1>2, <2>1, <2>3
<1>9. y_twice' \subseteq y_dangling'
  BY <1>1, <1>2
<1>10. Gone12
  BY <1>1, <1>4 DEF Gone12
<1> QED
  BY <1>1, <1>3, <1>5, <1>7, <1>8, <1>9, <1>10 DEF Owners12

LEMMA Owner12One ==
  ASSUME Owners12, NEW o, NEW n \in Nat, NEW D, NEW L, NEW G,
         D12!Vk(n, D, L), UNCHANGED y_dangling,
         OneOwner(Own12, Own12', o, y_next .. (y_next + n - 1), D, L, G)
  PROVE  Owners12' /\ Gone12
<1>1. /\ y_live' = (y_live \ D) \cup (y_next .. (y_next + n - 1))
      /\ y_leaked' = y_leaked \cup L
      /\ y_next' = y_next + n
      /\ y_next + n - 1 <= Lists12
      /\ y_twice' = y_twice \cup (D \ y_live)
  BY DEF D12!Vk
<1>2. Accounted(Own12, y_live, y_leaked, y_next)
      /\ y_dangling \subseteq 1 .. (y_next - 1) /\ y_dangling \cap y_live = {}
      /\ y_twice \subseteq y_dangling
  BY DEF Owners12
<1>3. /\ Accounted(Own12', (y_live \ D) \cup (y_next .. (y_next + n - 1)),
                   y_leaked \cup L, y_next + n)
      /\ D \subseteq y_live
  BY <1>2, AccountOne
<1>4. y_next \in Nat \ {0} /\ Lists12 \in Nat /\ y_live \subseteq 1 .. (y_next - 1)
  BY <1>2, GraphicsAssumption DEF Accounted
<1>5. y_next' <= Lists12 + 1
  BY <1>1, <1>4
<1>6. \A h \in 1 .. (y_next - 1) : h \notin y_next .. (y_next + n - 1) /\ h \in 1 .. (y_next' - 1)
  BY <1>1, <1>4
<1>7. y_dangling' \subseteq 1 .. (y_next' - 1)
  BY <1>2, <1>6
<1>8. y_dangling' \cap y_live' = {}
  BY <1>1, <1>2, <1>6
<1>9. y_twice' \subseteq y_dangling'
  BY <1>1, <1>2, <1>3
<1>10. Gone12
  BY <1>1, <1>4 DEF Gone12
<1> QED
  BY <1>1, <1>3, <1>5, <1>7, <1>8, <1>9, <1>10 DEF Owners12

LEMMA Longer12 ==
  ASSUME NEW m \in Nat, NEW n \in Nat, m <= n
  PROVE  1 .. (m - 1) \subseteq 1 .. (n - 1)
OBVIOUS

\* No handle changes hands, though numbers may be used up.
LEMMA Same12 ==
  ASSUME Owners12, \A p \in Owner12 : Own12'[p] = Own12[p],
         UNCHANGED <<y_live, y_twice, y_leaked, y_dangling>>,
         y_next' \in Nat, y_next <= y_next', y_next' <= Lists12 + 1
  PROVE  Owners12' /\ Gone12
<1>1. Accounted(Own12, y_live, y_leaked, y_next)
  BY DEF Owners12
<1>2. Accounted(Own12, y_live, y_leaked, y_next')
  BY <1>1, AccountLater
<1>3. Accounted(Own12', y_live, y_leaked, y_next')
  BY ZenonT(60), <1>2, Own12At, Own12AtNext DEF Accounted
<1>4. y_next \in Nat
  BY <1>1 DEF Accounted
<1>5. y_dangling \subseteq 1 .. (y_next' - 1)
  BY <1>4, Longer12 DEF Owners12
<1>6. Gone12
  BY <1>4 DEF Gone12
<1> QED
  BY <1>3, <1>5, <1>6 DEF Owners12

\* A buffer that is left alone stays in order.
LEMMA BufferStays ==
  ASSUME NEW b, NEW handles, NEW handles2, Gone12,
         BufferOk(b, handles, y_live, y_next),
         ~b.spent => \A i \in DOMAIN b.commands :
                       b.commands[i].uses \subseteq handles => b.commands[i].uses \subseteq handles2
  PROVE  BufferOk(b, handles2, y_live', y_next')
<1>1. SUFFICES ASSUME NEW i \in DOMAIN b.commands
               PROVE  CommandOk(b.commands[i], b.spent, handles2, y_live', y_next')
  BY DEF BufferOk
<1>2. CommandOk(b.commands[i], b.spent, handles, y_live, y_next)
  BY DEF BufferOk
<1>3. b.commands[i].op = "clear" => b.commands[i].after = "RenderTarget"
  BY <1>2 DEF CommandOk
<1>4. b.commands[i].op # "draw" /\ ~b.spent => b.commands[i].uses \subseteq handles2
  BY <1>2 DEF CommandOk
<1>5. b.commands[i].op = "draw" =>
        \E u \in b.commands[i].uses : u \in Nat /\ u < y_next' /\ u \notin y_live'
  BY <1>2 DEF CommandOk, Gone12
<1> QED
  BY <1>3, <1>4, <1>5 DEF CommandOk

LEMMA Recorded12Step ==
  ASSUME Recorded12, Gone12, UNCHANGED y_cb, Handles12 \subseteq Handles12'
  PROVE  Recorded12'
<1>1. ASSUME NEW h \in DOMAIN y_cb
      PROVE  BufferOk(y_cb[h], Handles12', y_live', y_next')
  <2>1. BufferOk(y_cb[h], Handles12, y_live, y_next)
    BY DEF Recorded12
  <2> QED
    BY <2>1, BufferStays
<1> QED
  BY <1>1 DEF Recorded12

\* The images and the view are left alone.
LEMMA Known12Step ==
  ASSUME Inv12, UNCHANGED <<y_res, y_heap, y_layout, y_state>>,
         Gone12, y_next' \in Nat, y_next <= y_next'
  PROVE  Known12' /\ Handles12' = Handles12
<1>1. Images12' = Images12 /\ Handles12' = Handles12
  BY DEF Images12, Handles12
<1>2. y_heap.image \in Nat /\ y_next \in Nat
  BY Facts12 DEF Inv12, Types12, Descriptors12
<1>3. y_heap.image < y_next'
  BY <1>2 DEF Inv12, Known12
<1>4. y_heap.image \in y_live' => y_heap.image \in y_live
  BY <1>2 DEF Gone12, Inv12, Known12
<1>5. D12!LayoutIsState'
  BY DEF D12!LayoutIsState, Inv12, Known12
<1> QED
  BY <1>1, <1>3, <1>4, <1>5 DEF Inv12, Known12

\* A step that leaves images, view, lists and buffers alone.
LEMMA ObjectStep12 ==
  ASSUME Inv12, NEW o, NEW n \in Nat, NEW D, NEW L, NEW G,
         D12!Vk(n, D, L),
         OneOwner(Own12, Own12', o, y_next .. (y_next + n - 1), D, L, G),
         UNCHANGED <<y_res, y_heap, y_layout, y_state, y_list, y_cb, y_dangling>>,
         Types12', Links12'
  PROVE  Inv12'
<1>1. Owners12' /\ Gone12
  BY Owner12One DEF Inv12
<1>2. y_next' \in Nat /\ y_next <= y_next'
  BY Facts12 DEF D12!Vk
<1>3. Known12' /\ Handles12' = Handles12
  BY <1>1, <1>2, Known12Step
<1>4. Recorded12'
  BY <1>1, <1>3, Recorded12Step DEF Inv12
<1>5. Buffered12'
  BY DEF Inv12, Buffered12
<1> QED
  BY <1>1, <1>3, <1>4, <1>5 DEF Inv12

\* A step that leaves lists and buffers alone and keeps the resources.
LEMMA ResourceStep12 ==
  ASSUME Inv12, NEW o, NEW n \in Nat, NEW D, NEW L, NEW G,
         D12!Vk(n, D, L),
         OneOwner(Own12, Own12', o, y_next .. (y_next + n - 1), D, L, G),
         UNCHANGED <<y_list, y_cb, y_dangling>>,
         Types12', Links12', Known12', Handles12 \subseteq Handles12'
  PROVE  Inv12'
<1>1. Owners12' /\ Gone12
  BY Owner12One DEF Inv12
<1>2. Recorded12'
  BY <1>1, Recorded12Step DEF Inv12
<1>3. Buffered12'
  BY DEF Inv12, Buffered12
<1> QED
  BY <1>1, <1>2, <1>3 DEF Inv12

\* An object is not None.
LEMMA NotNone12 ==
  /\ D12!None \notin Resources12 /\ D12!None \notin Pipelines12 /\ D12!None \notin Lists12Of
  /\ D12!Empty \in Descriptors12 /\ D12!Empty.view = 0 /\ D12!Empty.image = 0
  /\ D12!NoPso \in [pipeline : Nat, render_pass : Nat]
BY DEF D12!None, D12!Empty, D12!NoPso, D12!Null, Resources12, Pipelines12, Lists12Of, Descriptors12

\* Reference counts alone.
LEMMA Count12 ==
  ASSUME Inv12, UNCHANGED <<y_live, y_next, y_twice, y_leaked>>,
         UNCHANGED <<y_res, y_heap, y_root, y_pso, y_pool, y_list, y_cb, y_layout, y_state,
                     y_dangling>>,
         y_ref' \in [D12!Object -> Nat],
         \A o \in Resource \cup List \cup Allocator : y_ref'[o] > 0 <=> y_ref[o] > 0,
         y_ref["heap"] > 0 => y_ref'["heap"] > 0
  PROVE  Inv12'
<1>1. Types12'
  BY DEF Inv12, Types12
<1>2. \A p \in Owner12 : Own12'[p] = Own12[p]
  BY DEF Own12
<1>3. y_next \in Nat /\ y_next <= Lists12 + 1
  BY Facts12 DEF Inv12, Owners12
<1>4. Owners12' /\ Gone12
  BY <1>2, <1>3, Same12 DEF Inv12
<1>5. Known12' /\ Handles12' = Handles12
  BY <1>3, <1>4, Known12Step
<1>6. Recorded12'
  BY <1>4, <1>5, Recorded12Step DEF Inv12
<1>7. Buffered12'
  BY DEF Inv12, Buffered12
<1>8. Links12'
  <2>1. \A r \in Resource : y_ref'[r] > 0 <=> y_res[r] # D12!None
    BY DEF Inv12, Links12, D12!Live
  <2>2. \A l \in List : y_ref'[l] > 0 <=> y_list[l] # D12!None
    BY DEF Inv12, Links12, D12!Live
  <2>3. \A a \in Allocator : UsesPool(a)' <=> UsesPool(a)
    BY DEF UsesPool
  <2>4. \A a \in Allocator : y_pool[a] # 0 <=> y_ref'[a] > 0 \/ UsesPool(a)'
    BY <2>3 DEF Inv12, Links12, D12!Live
  <2>5. y_heap = D12!Empty \/ (y_ref'["heap"] > 0 /\ y_heap.view # 0)
    BY DEF Inv12, Links12, D12!Live
  <2> QED
    BY <2>1, <2>2, <2>4, <2>5 DEF Links12, D12!Live
<1> QED
  BY <1>1, <1>4, <1>5, <1>6, <1>7, <1>8 DEF Inv12

\* The first reference to a new object.
LEMMA Creates12 ==
  ASSUME y_ref \in [D12!Object -> Nat], NEW o \in D12!Object, D12!Creates(o)
  PROVE  /\ y_ref' \in [D12!Object -> Nat] /\ y_ref'[o] = 1
         /\ \A p \in D12!Object : p # o => y_ref'[p] = y_ref[p]
         /\ y_ref[o] = 0
BY DEF D12!Creates, D12!Live

LEMMA Counting12 ==
  ASSUME Inv12,
         \/ D12!device_create_command_queue \/ D12!device_create_descriptor_heap
         \/ \E o \in D12!Object : D12!com_add_ref(o)
  PROVE  Inv12'
<1> USE DEF D12!vkVars, D12!d3d12Vars
<1>1. y_ref \in [D12!Object -> Nat]
  BY DEF Inv12, Types12
<1>2. CASE D12!device_create_command_queue
  <2>1. D12!Creates("queue") /\ UNCHANGED <<D12!vkVars, D12!d3d12Vars>>
    BY <1>2 DEF D12!device_create_command_queue
  <2>2. /\ y_ref' \in [D12!Object -> Nat]
        /\ \A p \in D12!Object : p # "queue" => y_ref'[p] = y_ref[p]
    BY <1>1, <2>1, Creates12, Slots12
  <2>3. \A o \in Resource \cup List \cup Allocator : o \in D12!Object /\ o # "queue"
    BY Slots12
  <2>4. /\ \A o \in Resource \cup List \cup Allocator : y_ref'[o] > 0 <=> y_ref[o] > 0
        /\ y_ref["heap"] > 0 => y_ref'["heap"] > 0
    BY <2>2, <2>3, Slots12
  <2> QED
    BY <2>1, <2>2, <2>4, Count12
<1>3. CASE D12!device_create_descriptor_heap
  <2>1. D12!Creates("heap") /\ UNCHANGED <<D12!vkVars, D12!d3d12Vars>>
    BY <1>3 DEF D12!device_create_descriptor_heap
  <2>2. /\ y_ref' \in [D12!Object -> Nat] /\ y_ref'["heap"] = 1
        /\ \A p \in D12!Object : p # "heap" => y_ref'[p] = y_ref[p]
    BY <1>1, <2>1, Creates12, Slots12
  <2>3. \A o \in Resource \cup List \cup Allocator : o \in D12!Object /\ o # "heap"
    BY Slots12
  <2>4. /\ \A o \in Resource \cup List \cup Allocator : y_ref'[o] > 0 <=> y_ref[o] > 0
        /\ y_ref["heap"] > 0 => y_ref'["heap"] > 0
    BY <2>2, <2>3
  <2> QED
    BY <2>1, <2>2, <2>4, Count12
<1>4. ASSUME NEW o \in D12!Object, D12!com_add_ref(o)
      PROVE  Inv12'
  <2>1. /\ y_ref[o] > 0 /\ y_ref' = [y_ref EXCEPT ![o] = y_ref[o] + 1]
        /\ UNCHANGED <<D12!vkVars, D12!d3d12Vars>>
    BY <1>1, <1>4 DEF D12!com_add_ref, D12!Live
  <2>2. y_ref' \in [D12!Object -> Nat]
        /\ \A p \in D12!Object : y_ref'[p] > 0 <=> y_ref[p] > 0
    BY <1>1, <2>1
  <2>3. \A p \in Resource \cup List \cup Allocator \cup {"heap"} : p \in D12!Object
    BY Slots12
  <2> QED
    BY <2>1, <2>2, <2>3, Count12
<1> QED
  BY <1>2, <1>3, <1>4

LEMMA CreateAllocator12 ==
  ASSUME Inv12, NEW a \in Allocator, D12!device_create_command_allocator(a)
  PROVE  Inv12'
<1>1. /\ D12!Creates(a) /\ y_pool[a] = 0
      /\ D12!Vk(1, {}, {})
      /\ y_pool' = [y_pool EXCEPT ![a] = y_next]
      /\ UNCHANGED <<y_res, y_heap, y_root, y_pso, y_list, y_cb, y_layout, y_state,
                     y_dangling>>
  BY DEF D12!device_create_command_allocator, D12!create_command_allocator, D12!Null
<1>2. y_next \in Nat \ {0}
  BY Facts12
<1>3. y_ref \in [D12!Object -> Nat] /\ y_pool \in [Allocator -> Nat] /\ a \in D12!Object
  BY Slots12 DEF Inv12, Types12
<1>4. /\ y_ref' \in [D12!Object -> Nat] /\ y_ref'[a] = 1
      /\ \A p \in D12!Object : p # a => y_ref'[p] = y_ref[p]
  BY <1>1, <1>3, Creates12
<1>5. /\ y_pool' \in [Allocator -> Nat] /\ y_pool'[a] = y_next
      /\ \A b \in Allocator : b # a => y_pool'[b] = y_pool[b]
  BY <1>1, <1>2, <1>3
<1>6. OneOwner(Own12, Own12', a, y_next .. (y_next + 1 - 1), {}, {}, {y_next})
  <2>1. Own12[a] = {} /\ Own12'[a] = {y_next}
    BY <1>1, <1>2, <1>5, Own12At, Own12AtNext
  <2>2. \A p \in Owner12 : p # a => Own12'[p] = Own12[p]
    BY <1>1, <1>5, Others12
  <2> QED
    BY <1>2, <2>1, <2>2, Own12At, Own12AtNext, Slots12 DEF OneOwner
<1>7. Types12'
  BY <1>1, <1>4, <1>5 DEF Inv12, Types12
<1>8. Links12'
  <2>1. \A r \in Resource : r # a /\ r \in D12!Object
    BY Slots12
  <2>2. \A l \in List : l # a /\ l \in D12!Object
    BY Slots12
  <2>3. "heap" # a /\ "heap" \in D12!Object
    BY Slots12
  <2>4. \A b \in Allocator : UsesPool(b)' <=> UsesPool(b)
    BY <1>1 DEF UsesPool
  <2>5. \A b \in Allocator : y_pool'[b] # 0 <=> y_ref'[b] > 0 \/ UsesPool(b)'
    BY <1>2, <1>4, <1>5, <2>4, Slots12 DEF Inv12, Links12, D12!Live
  <2>6. \A r \in Resource : y_ref'[r] > 0 <=> y_res'[r] # D12!None
    BY <1>1, <1>4, <2>1 DEF Inv12, Links12, D12!Live
  <2>7. \A l \in List : y_ref'[l] > 0 <=> y_list'[l] # D12!None
    BY <1>1, <1>4, <2>2 DEF Inv12, Links12, D12!Live
  <2>8. y_heap' = D12!Empty \/ (y_ref'["heap"] > 0 /\ y_heap'.view # 0)
    BY <1>1, <1>4, <2>3 DEF Inv12, Links12, D12!Live
  <2> QED
    BY <2>5, <2>6, <2>7, <2>8 DEF Links12, D12!Live
<1> QED
  BY <1>1, <1>6, <1>7, <1>8, ObjectStep12

\* A creation that fails and leaves k handles behind.
LEMMA Failed12 ==
  ASSUME Inv12, NEW k \in Nat, D12!VkLeak(k), UNCHANGED D12!d3d12Vars, UNCHANGED y_ref
  PROVE  Inv12'
<1> USE DEF D12!d3d12Vars
<1>1. D12!Vk(k, {}, y_next .. (y_next + k - 1))
  BY DEF D12!VkLeak
<1>2. \A p \in Owner12 : Own12'[p] = Own12[p]
  BY DEF Own12
<1>3. PICK F : F = y_next .. (y_next + k - 1)
  OBVIOUS
<1>4. OneOwner(Own12, Own12', "root", F, {}, F, {})
  BY <1>2, Own12At, Own12AtNext, Slots12 DEF OneOwner
<1>5. Types12' /\ Links12'
  BY DEF Inv12, Types12, Links12, D12!Live, UsesPool
<1> QED
  BY <1>1, <1>3, <1>4, <1>5, ObjectStep12

\* The root signature and the pipeline state.
LEMMA Native12 ==
  ASSUME Inv12, UNCHANGED y_ref, NEW o \in {"root", "pso"}, NEW n \in Nat, NEW D, NEW G,
         D12!Vk(n, D, {}),
         UNCHANGED <<y_res, y_heap, y_pool, y_list, y_cb, y_layout, y_state, y_dangling>>,
         y_root' \in Nat, y_pso' \in Pipelines12 \cup {D12!None},
         o = "root" => y_pso' = y_pso,
         o = "pso" => y_root' = y_root,
         D \subseteq Own12[o], G = y_next .. (y_next + n - 1), Own12'[o] = (Own12[o] \ D) \cup G
  PROVE  Inv12'
<1>1. \A p \in Owner12 : p # o => Own12'[p] = Own12[p]
  BY Others12
<1>2. OneOwner(Own12, Own12', o, y_next .. (y_next + n - 1), D, {}, G)
  BY <1>1, Own12At, Own12AtNext, Slots12 DEF OneOwner
<1>3. Types12'
  BY DEF Inv12, Types12
<1>4. Links12'
  BY DEF Inv12, Links12, D12!Live, UsesPool
<1> QED
  BY <1>2, <1>3, <1>4, ObjectStep12

LEMMA Root12 ==
  ASSUME Inv12, UNCHANGED y_ref, D12!create_root_signature \/ D12!drop_root_signature
  PROVE  Inv12'
<1>1. y_next \in Nat \ {0}
  BY Facts12
<1>2. y_pso \in Pipelines12 \cup {D12!None} /\ y_root \in Nat
  BY DEF Inv12, Types12
<1>3. CASE D12!create_root_signature
  <2>1. /\ y_root = 0 /\ y_root' = y_next /\ D12!Vk(1, {}, {})
        /\ UNCHANGED <<y_res, y_heap, y_pso, y_pool, y_list, y_cb, y_layout, y_state,
                       y_dangling>>
    BY <1>3 DEF D12!create_root_signature, D12!Null
  <2>2. Own12["root"] = {} /\ Own12'["root"] = {y_next} /\ {y_next} = y_next .. (y_next + 1 - 1)
    BY <1>1, <2>1, Own12At, Own12AtNext
  <2>3. Own12'["root"] = (Own12["root"] \ {}) \cup {y_next} /\ {} \subseteq Own12["root"]
    BY <2>2
  <2> QED
    BY <1>1, <1>2, <2>1, <2>2, <2>3, Native12
<1>4. CASE D12!drop_root_signature
  <2>1. /\ y_root # 0 /\ y_root' = 0 /\ D12!Vk(0, {y_root}, {})
        /\ UNCHANGED <<y_res, y_heap, y_pso, y_pool, y_list, y_cb, y_layout, y_state,
                       y_dangling>>
    BY <1>4 DEF D12!drop_root_signature, D12!Null, D12!VkDestroy
  <2>2. Own12["root"] = {y_root} /\ Own12'["root"] = {} /\ {} = y_next .. (y_next + 0 - 1)
    BY <1>1, <2>1, Own12At, Own12AtNext
  <2>3. Own12'["root"] = (Own12["root"] \ {y_root}) \cup {} /\ {y_root} \subseteq Own12["root"]
    BY <2>2
  <2> QED
    BY <1>1, <1>2, <2>1, <2>2, <2>3, Native12
<1> QED
  BY <1>3, <1>4

LEMMA CreatePso12 ==
  ASSUME Inv12, UNCHANGED y_ref, D12!create_pipeline_state
  PROVE  Inv12'
<1>1. y_next \in Nat \ {0} /\ y_root \in Nat
  BY Facts12 DEF Inv12, Types12
<1>2. /\ y_pso = D12!None
      /\ UNCHANGED <<y_res, y_heap, y_root, y_pool, y_list, y_cb, y_layout, y_state,
                     y_dangling>>
  BY DEF D12!create_pipeline_state
<1>3. PICK own \in BOOLEAN :
        /\ D12!Vk(IF own THEN 4 ELSE 3, {}, {})
        /\ y_pso' = [kind |-> "pso", render_pass |-> y_next, module |-> y_next + 1,
                     pipeline |-> y_next + 2, own |-> IF own THEN {y_next + 3} ELSE {}]
  BY DEF D12!create_pipeline_state
<1>4. PICK n \in {3, 4} : n = IF own THEN 4 ELSE 3
  OBVIOUS
<1>5. PICK G : G = {y_next, y_next + 1, y_next + 2} \cup (IF own THEN {y_next + 3} ELSE {})
  OBVIOUS
<1>6. G = y_next .. (y_next + n - 1)
  BY <1>1, <1>4, <1>5
<1>7. y_pso' \in Pipelines12
  BY <1>1, <1>3 DEF Pipelines12
<1>8. OfPso(y_pso') = G
  <2>1. /\ y_pso'.render_pass = y_next /\ y_pso'.module = y_next + 1
        /\ y_pso'.pipeline = y_next + 2 /\ y_pso'.own = IF own THEN {y_next + 3} ELSE {}
    BY <1>3
  <2> QED
    BY <1>5, <1>7, <2>1, NotNone12 DEF OfPso
<1>9. Own12["pso"] = {} /\ Own12'["pso"] = G
  BY <1>2, <1>8, Own12At, Own12AtNext DEF OfPso
<1>10. Own12'["pso"] = (Own12["pso"] \ {}) \cup G /\ {} \subseteq Own12["pso"]
  BY <1>9
<1>11. D12!Vk(n, {}, {}) /\ n \in Nat
  BY <1>3, <1>4
<1> QED
  BY <1>1, <1>2, <1>6, <1>7, <1>10, <1>11, Native12

LEMMA DropPso12 ==
  ASSUME Inv12, UNCHANGED y_ref, D12!drop_pipeline_state
  PROVE  Inv12'
<1>1. y_next \in Nat \ {0} /\ y_root \in Nat
  BY Facts12 DEF Inv12, Types12
<1>2. PICK D : D = {y_pso.pipeline, y_pso.render_pass, y_pso.module} \cup y_pso.own
  OBVIOUS
<1>3. /\ y_pso # D12!None /\ y_pso' = D12!None /\ D12!Vk(0, D, {})
      /\ UNCHANGED <<y_res, y_heap, y_root, y_pool, y_list, y_cb, y_layout, y_state,
                     y_dangling>>
  BY <1>2 DEF D12!drop_pipeline_state, D12!VkDestroy
<1>4. Own12["pso"] = D /\ Own12'["pso"] = {}
  BY <1>2, <1>3, Own12At, Own12AtNext DEF OfPso
<1>5. Own12'["pso"] = (Own12["pso"] \ D) \cup {} /\ D \subseteq Own12["pso"]
      /\ {} = y_next .. (y_next + 0 - 1)
  BY <1>1, <1>4
<1> QED
  BY <1>1, <1>3, <1>5, Native12

\* The view in the heap.
LEMMA CreateView12 ==
  ASSUME Inv12, NEW r \in Resource, D12!device_create_render_target_view(r)
  PROVE  Inv12'
<1>1. /\ D12!Live("heap") /\ y_res[r] # D12!None /\ y_res[r].kind = "image"
      /\ D12!Vk(1, {y_heap.view} \ {0}, {})
      /\ y_heap' = [view |-> y_next, image |-> y_res[r].handle]
      /\ UNCHANGED <<y_res, y_root, y_pso, y_pool, y_list, y_cb, y_layout, y_state,
                     y_dangling>>
      /\ UNCHANGED y_ref
  BY DEF D12!device_create_render_target_view, D12!create_render_target_view, D12!Null
<1>2. y_next \in Nat \ {0} /\ y_live \subseteq 1 .. (y_next - 1) /\ Handles12 \subseteq y_live
  BY Facts12
<1>3. y_res[r] \in Resources12
  BY <1>1 DEF Inv12, Types12
<1>4. y_heap' \in Descriptors12 /\ y_heap'.view = y_next /\ y_heap'.image = y_res[r].handle
  BY <1>1, <1>2, <1>3 DEF Resources12, Descriptors12
<1>5. y_res[r].handle \in Images12 /\ y_res[r].handle \in Handles12
  BY <1>1 DEF Images12, Handles12
<1>6. OneOwner(Own12, Own12', "heap", y_next .. (y_next + 1 - 1), {y_heap.view} \ {0}, {}, {y_next})
  <2>1. Own12["heap"] = {y_heap.view} \ {0} /\ Own12'["heap"] = {y_next}
    BY <1>2, <1>4, Own12At, Own12AtNext
  <2>2. \A p \in Owner12 : p # "heap" => Own12'[p] = Own12[p]
    BY <1>1, Others12
  <2>3. Own12'["heap"] = (Own12["heap"] \ ({y_heap.view} \ {0})) \cup {y_next}
    BY <2>1
  <2> QED
    BY <1>2, <2>1, <2>2, <2>3, Own12At, Own12AtNext, Slots12 DEF OneOwner
<1>7. Types12'
  BY <1>1, <1>4 DEF Inv12, Types12
<1>8. Links12'
  BY <1>1, <1>2, <1>4 DEF Inv12, Links12, D12!Live, UsesPool
<1>9. Images12' = Images12 /\ Handles12' = Handles12
  BY <1>1 DEF Images12, Handles12
<1>10. Known12'
  <2>1. y_heap'.image < y_next'
    <3>1. y_next' = y_next + 1
      BY <1>1 DEF D12!Vk
    <3>2. y_res[r].handle \in 1 .. (y_next - 1)
      BY <1>2, <1>5
    <3> QED
      BY <1>2, <1>4, <3>1, <3>2
  <2>2. D12!LayoutIsState'
    BY <1>1 DEF D12!LayoutIsState, Inv12, Known12
  <2> QED
    BY <1>1, <1>4, <1>5, <1>9, <2>1, <2>2 DEF Inv12, Known12
<1> QED
  BY <1>1, <1>6, <1>7, <1>8, <1>9, <1>10, ResourceStep12

LEMMA DropHeap12 ==
  ASSUME Inv12, D12!drop_heap, y_ref' = [y_ref EXCEPT !["heap"] = 0]
  PROVE  Inv12'
<1>1. /\ D12!Vk(0, {y_heap.view} \ {0}, {}) /\ y_heap' = D12!Empty
      /\ UNCHANGED <<y_res, y_root, y_pso, y_pool, y_list, y_cb, y_layout, y_state,
                     y_dangling>>
  BY DEF D12!drop_heap, D12!VkDestroy, D12!Null
<1>2. y_next \in Nat \ {0} /\ y_next' = y_next
  BY <1>1, Facts12 DEF D12!Vk
<1>3. y_ref' \in [D12!Object -> Nat]
      /\ \A p \in D12!Object : p # "heap" => y_ref'[p] = y_ref[p]
  BY Slots12 DEF Inv12, Types12
<1>4. y_heap' \in Descriptors12 /\ y_heap'.view = 0 /\ y_heap'.image = 0
  BY <1>1, NotNone12
<1>5. OneOwner(Own12, Own12', "heap", y_next .. (y_next + 0 - 1), {y_heap.view} \ {0}, {}, {})
  <2>1. Own12["heap"] = {y_heap.view} \ {0} /\ Own12'["heap"] = {}
    BY <1>4, Own12At, Own12AtNext
  <2>2. \A p \in Owner12 : p # "heap" => Own12'[p] = Own12[p]
    BY <1>1, Others12
  <2>3. Own12'["heap"] = (Own12["heap"] \ ({y_heap.view} \ {0})) \cup {}
    BY <2>1
  <2>4. y_next .. (y_next + 0 - 1) = {}
    BY <1>2
  <2> QED
    BY <2>1, <2>2, <2>3, <2>4, Own12At, Own12AtNext, Slots12 DEF OneOwner
<1>6. Types12'
  BY <1>1, <1>3, <1>4 DEF Inv12, Types12
<1>7. Links12'
  <2>1. \A o \in Resource \cup List \cup Allocator : y_ref'[o] = y_ref[o]
    BY <1>3, Slots12
  <2> QED
    BY <1>1, <2>1 DEF Inv12, Links12, D12!Live, UsesPool
<1>8. Images12' = Images12 /\ Handles12' = Handles12
  BY <1>1 DEF Images12, Handles12
<1>9. D12!LayoutIsState'
  BY <1>1 DEF D12!LayoutIsState, Inv12, Known12
<1>10. Known12'
  BY <1>1, <1>2, <1>4, <1>8, <1>9 DEF Inv12, Known12
<1> QED
  BY <1>1, <1>5, <1>6, <1>7, <1>8, <1>10, ResourceStep12

\* A slot gets a resource or loses it.
LEMMA Slot12 ==
  ASSUME Inv12, NEW r \in Resource, NEW v \in Resources12 \cup {D12!None},
         y_res' = [y_res EXCEPT ![r] = v]
  PROVE  /\ y_res' \in [Resource -> Resources12 \cup {D12!None}]
         /\ y_res'[r] = v /\ \A s \in Resource : s # r => y_res'[s] = y_res[s]
BY DEF Inv12, Types12

\* The links of the other objects when only resource r has changed.
LEMMA ResourceLinks12 ==
  ASSUME Inv12, NEW r \in Resource, UNCHANGED <<y_heap, y_pool, y_list>>,
         y_ref' \in [D12!Object -> Nat],
         \A p \in D12!Object : p # r => y_ref'[p] = y_ref[p],
         \A s \in Resource : s # r => y_res'[s] = y_res[s],
         y_ref'[r] > 0 <=> y_res'[r] # D12!None
  PROVE  Links12'
<1>1. \A o \in List \cup Allocator \cup {"heap"} : o # r /\ o \in D12!Object
  BY Slots12
<1>2. \A s \in Resource : y_ref'[s] > 0 <=> y_res'[s] # D12!None
  <2>1. ASSUME NEW s \in Resource, s # r
        PROVE  y_ref'[s] > 0 <=> y_res'[s] # D12!None
    <3>1. y_ref'[s] = y_ref[s] /\ y_res'[s] = y_res[s]
      BY <2>1, Slots12
    <3> QED
      BY <3>1 DEF Inv12, Links12, D12!Live
  <2> QED
    BY <2>1
<1>3. \A o \in List \cup Allocator \cup {"heap"} : y_ref'[o] = y_ref[o]
  BY <1>1
<1>4. \A a \in Allocator : UsesPool(a)' <=> UsesPool(a)
  BY DEF UsesPool
<1>5. \A l \in List : y_ref'[l] > 0 <=> y_list'[l] # D12!None
  BY <1>3 DEF Inv12, Links12, D12!Live
<1>6. \A a \in Allocator : y_pool'[a] # 0 <=> y_ref'[a] > 0 \/ UsesPool(a)'
  BY <1>3, <1>4 DEF Inv12, Links12, D12!Live
<1>7. y_heap' = D12!Empty \/ (y_ref'["heap"] > 0 /\ y_heap'.view # 0)
  BY <1>3 DEF Inv12, Links12, D12!Live
<1> QED
  BY <1>2, <1>5, <1>6, <1>7 DEF Links12, D12!Live

\* A committed resource: image or buffer, and its memory.
LEMMA CreateCommitted12 ==
  ASSUME Inv12, NEW r \in Resource, D12!Creates(r), NEW v,
         D12!Vk(2, {}, {}),
         v \in Resources12, v.handle = y_next, v.memory = y_next + 1,
         y_res' = [y_res EXCEPT ![r] = v],
         UNCHANGED <<y_heap, y_root, y_pso, y_pool, y_list, y_cb, y_dangling>>,
         v.kind = "image" => \E s : /\ y_layout' = D12!With(y_layout, y_next, "UNDEFINED")
                                    /\ y_state' = D12!With(y_state, y_next, s),
         v.kind = "buffer" => UNCHANGED <<y_layout, y_state>>
  PROVE  Inv12'
<1>1. y_next \in Nat \ {0} /\ y_live \subseteq 1 .. (y_next - 1)
  BY Facts12
<1>2. /\ y_res' \in [Resource -> Resources12 \cup {D12!None}]
      /\ y_res'[r] = v /\ \A s \in Resource : s # r => y_res'[s] = y_res[s]
  BY Slot12
<1>3. y_ref \in [D12!Object -> Nat] /\ r \in D12!Object
  BY Slots12 DEF Inv12, Types12
<1>4. /\ y_ref' \in [D12!Object -> Nat] /\ y_ref'[r] = 1 /\ y_ref[r] = 0
      /\ \A p \in D12!Object : p # r => y_ref'[p] = y_ref[p]
  BY <1>3, Creates12
<1>5. v # D12!None /\ y_res[r] = D12!None
  BY <1>4, NotNone12 DEF Inv12, Links12, D12!Live
<1>6. OneOwner(Own12, Own12', r, y_next .. (y_next + 2 - 1), {}, {}, {y_next, y_next + 1})
  <2>1. Own12[r] = {} /\ Own12'[r] = {y_next, y_next + 1}
    BY <1>2, <1>5, Own12At, Own12AtNext DEF OfResource
  <2>2. \A p \in Owner12 : p # r => Own12'[p] = Own12[p]
    BY <1>2, Others12
  <2>3. y_next .. (y_next + 2 - 1) = {y_next, y_next + 1}
    BY <1>1
  <2> QED
    BY <2>1, <2>2, <2>3, Own12At, Own12AtNext, Slots12 DEF OneOwner
<1>7. Types12'
  BY <1>2, <1>4 DEF Inv12, Types12
<1>8. Links12'
  BY <1>2, <1>4, <1>5, ResourceLinks12
<1>9. Handles12 \subseteq Handles12'
  <2>1. ASSUME NEW s \in Resource, y_res[s] # D12!None
        PROVE  y_res'[s] # D12!None /\ y_res'[s].handle = y_res[s].handle
    BY <1>2, <1>5, <2>1
  <2> QED
    BY <2>1 DEF Handles12
<1>10. Known12'
  <2>1. Images12' = IF v.kind = "image" THEN Images12 \cup {y_next} ELSE Images12
    <3>1. ASSUME NEW s \in Resource, s # r
          PROVE  y_res'[s] = y_res[s]
      BY <1>2, <3>1
    <3>2. y_res'[r].handle = y_next /\ y_res'[r].kind = v.kind
      BY <1>2
    <3> QED
      BY <1>2, <1>5, <3>1, <3>2 DEF Images12
  <2>2. y_heap \in Descriptors12 /\ y_heap.image \in Nat /\ y_heap.image < y_next
    BY DEF Inv12, Types12, Known12, Descriptors12
  <2>3. y_next' = y_next + 2 /\ y_live' = y_live \cup {y_next, y_next + 1}
    BY <1>1 DEF D12!Vk
  <2>4. y_heap.image < y_next' /\ (y_heap.image \in y_live' => y_heap.image \in y_live)
    BY <1>1, <2>2, <2>3
  <2>5. y_heap' # D12!Empty /\ y_heap'.image \in y_live' => y_heap'.image \in Images12'
    BY <2>1, <2>4 DEF Inv12, Known12
  <2>6. /\ DOMAIN y_layout' = Images12' /\ DOMAIN y_state' = Images12'
        /\ D12!LayoutIsState'
    <3>1. CASE v.kind = "image"
      <4>1. PICK s : /\ y_layout' = D12!With(y_layout, y_next, "UNDEFINED")
                     /\ y_state' = D12!With(y_state, y_next, s)
        BY <3>1
      <4>2. /\ DOMAIN y_layout' = DOMAIN y_layout \cup {y_next}
            /\ DOMAIN y_state' = DOMAIN y_state \cup {y_next}
            /\ y_layout'[y_next] = "UNDEFINED"
            /\ \A h \in DOMAIN y_layout : h # y_next => y_layout'[h] = y_layout[h]
            /\ \A h \in DOMAIN y_state : h # y_next => y_state'[h] = y_state[h]
        BY <4>1 DEF D12!With
      <4>3. DOMAIN y_layout = Images12 /\ DOMAIN y_state = Images12
        BY DEF Inv12, Known12
      <4>4. D12!LayoutIsState'
        BY <4>2, <4>3 DEF D12!LayoutIsState, Inv12, Known12
      <4> QED
        BY <2>1, <3>1, <4>2, <4>3, <4>4
    <3>2. CASE v.kind = "buffer"
      BY <2>1, <3>2 DEF Inv12, Known12, D12!LayoutIsState
    <3> QED
      BY <3>1, <3>2 DEF Resources12
  <2> QED
    BY <2>4, <2>5, <2>6 DEF Known12
<1> QED
  BY <1>6, <1>7, <1>8, <1>9, <1>10, ResourceStep12

LEMMA Committed12 ==
  ASSUME Inv12, NEW r \in Resource, D12!device_create_committed_resource(r)
  PROVE  Inv12'
<1>1. y_next \in Nat
  BY Facts12
<1>2. ASSUME D12!Creates(r), NEW s, D12!create_committed_image(r, s)
      PROVE  Inv12'
  <2>1. PICK v : v = [kind |-> "image", handle |-> y_next, memory |-> y_next + 1,
                      host_visible |-> FALSE, mapped |-> FALSE]
    OBVIOUS
  <2>2. v \in Resources12 /\ v.handle = y_next /\ v.memory = y_next + 1 /\ v.kind = "image"
    BY <1>1, <2>1 DEF Resources12
  <2>3. /\ D12!Vk(2, {}, {}) /\ y_res' = [y_res EXCEPT ![r] = v]
        /\ y_layout' = D12!With(y_layout, y_next, "UNDEFINED")
        /\ y_state' = D12!With(y_state, y_next, s)
        /\ UNCHANGED <<y_heap, y_root, y_pso, y_pool, y_list, y_cb, y_dangling>>
    BY <1>2, <2>1 DEF D12!create_committed_image
  <2> QED
    BY <1>2, <2>2, <2>3, CreateCommitted12
<1>3. ASSUME D12!Creates(r), NEW visible \in BOOLEAN, D12!create_committed_buffer(r, visible)
      PROVE  Inv12'
  <2>1. PICK v : v = [kind |-> "buffer", handle |-> y_next, memory |-> y_next + 1,
                      host_visible |-> visible, mapped |-> FALSE]
    OBVIOUS
  <2>2. v \in Resources12 /\ v.handle = y_next /\ v.memory = y_next + 1 /\ v.kind = "buffer"
    BY <1>1, <2>1 DEF Resources12
  <2>3. /\ D12!Vk(2, {}, {}) /\ y_res' = [y_res EXCEPT ![r] = v]
        /\ UNCHANGED <<y_heap, y_root, y_pso, y_pool, y_list, y_cb, y_dangling>>
        /\ UNCHANGED <<y_layout, y_state>>
    BY <1>3, <2>1 DEF D12!create_committed_buffer
  <2> QED
    BY <1>3, <2>2, <2>3, CreateCommitted12
<1>4. CASE D12!Fails(r) /\ D12!create_committed_failed
  BY <1>4, Failed12 DEF D12!Fails, D12!create_committed_failed
<1> QED
  BY <1>2, <1>3, <1>4 DEF D12!device_create_committed_resource

\* Mapping a buffer.
LEMMA Map12 ==
  ASSUME Inv12, UNCHANGED y_ref, NEW r \in Resource, D12!map(r) \/ D12!unmap(r)
  PROVE  Inv12'
<1>1. /\ y_res[r] # D12!None
      /\ \E m \in BOOLEAN : y_res' = [y_res EXCEPT ![r].mapped = m]
      /\ UNCHANGED <<y_live, y_next, y_twice, y_leaked>>
      /\ UNCHANGED <<y_heap, y_root, y_pso, y_pool, y_list, y_cb, y_layout, y_state,
                     y_dangling>>
  BY DEF D12!map, D12!unmap, D12!vkVars
<1>2. PICK m \in BOOLEAN : y_res' = [y_res EXCEPT ![r].mapped = m]
  BY <1>1
<1>3. y_res[r] \in Resources12 /\ y_res \in [Resource -> Resources12 \cup {D12!None}]
  BY <1>1 DEF Inv12, Types12
<1>4. PICK v : v = [y_res[r] EXCEPT !.mapped = m]
  OBVIOUS
<1>5. /\ v \in Resources12 /\ v.handle = y_res[r].handle /\ v.memory = y_res[r].memory
      /\ v.kind = y_res[r].kind /\ y_res' = [y_res EXCEPT ![r] = v]
  BY <1>2, <1>3, <1>4 DEF Resources12
<1>6. /\ y_res' \in [Resource -> Resources12 \cup {D12!None}]
      /\ y_res'[r] = v /\ \A s \in Resource : s # r => y_res'[s] = y_res[s]
  BY <1>5, Slot12
<1>7. v # D12!None
  BY <1>5, NotNone12
<1>8. \A p \in Owner12 : Own12'[p] = Own12[p]
  <2>1. Own12'[r] = Own12[r]
    <3>1. Own12[r] = {y_res[r].handle, y_res[r].memory}
      BY <1>1, Own12At DEF OfResource
    <3>2. Own12'[r] = {v.handle, v.memory}
      BY <1>6, <1>7, Own12AtNext DEF OfResource
    <3> QED
      BY <1>5, <3>1, <3>2
  <2>2. \A p \in Owner12 : p # r => Own12'[p] = Own12[p]
    BY <1>1, <1>6, Others12
  <2> QED
    BY <2>1, <2>2
<1>9. y_next \in Nat /\ y_next <= Lists12 + 1
  BY Facts12 DEF Inv12, Owners12
<1>10. Owners12' /\ Gone12
  BY <1>1, <1>8, <1>9, Same12 DEF Inv12
<1>11. Images12' = Images12 /\ Handles12' = Handles12
  <2>1. ASSUME NEW s \in Resource
        PROVE  /\ y_res'[s] # D12!None <=> y_res[s] # D12!None
               /\ y_res'[s] # D12!None =>
                    y_res'[s].handle = y_res[s].handle /\ y_res'[s].kind = y_res[s].kind
    BY <1>1, <1>5, <1>6, <1>7
  <2> QED
    BY <2>1 DEF Images12, Handles12
<1>12. Known12'
  BY <1>1, <1>11 DEF Inv12, Known12, D12!LayoutIsState
<1>13. Recorded12'
  BY <1>1, <1>10, <1>11, Recorded12Step DEF Inv12
<1>14. Buffered12'
  BY <1>1 DEF Inv12, Buffered12
<1>15. Types12'
  BY <1>1, <1>6 DEF Inv12, Types12
<1>16. Links12'
  <2>1. y_ref' \in [D12!Object -> Nat] /\ \A p \in D12!Object : p # r => y_ref'[p] = y_ref[p]
    BY DEF Inv12, Types12
  <2>2. y_ref'[r] > 0 <=> y_res'[r] # D12!None
    BY <1>1, <1>6, <1>7 DEF Inv12, Links12, D12!Live
  <2> QED
    BY <1>1, <1>6, <2>1, <2>2, ResourceLinks12
<1> QED
  BY <1>10, <1>12, <1>13, <1>14, <1>15, <1>16 DEF Inv12

\* The last reference to a resource that no recording still needs.
LEMMA DropResource12 ==
  ASSUME Inv12, NEW r \in Resource, y_ref[r] > 0, ~D12!NeededByRecording(r),
         D12!drop_resource(r), y_ref' = [y_ref EXCEPT ![r] = 0]
  PROVE  Inv12'
<1>1. /\ D12!Vk(0, {y_res[r].handle, y_res[r].memory}, {})
      /\ y_layout' = D12!Without(y_layout, {y_res[r].handle})
      /\ y_state' = D12!Without(y_state, {y_res[r].handle})
      /\ y_res' = [y_res EXCEPT ![r] = D12!None]
      /\ UNCHANGED <<y_heap, y_root, y_pso, y_pool, y_list, y_cb, y_dangling>>
  BY DEF D12!drop_resource, D12!VkDestroy
<1>2. y_next \in Nat \ {0} /\ Handles12 \subseteq y_live /\ Images12 \subseteq Handles12
  BY Facts12
<1>3. y_res[r] # D12!None
  BY DEF Inv12, Links12, D12!Live
<1>4. /\ y_res' \in [Resource -> Resources12 \cup {D12!None}]
      /\ y_res'[r] = D12!None /\ \A s \in Resource : s # r => y_res'[s] = y_res[s]
  BY <1>1, Slot12
<1>5. /\ y_ref' \in [D12!Object -> Nat] /\ y_ref'[r] = 0
      /\ \A p \in D12!Object : p # r => y_ref'[p] = y_ref[p]
  BY Slots12 DEF Inv12, Types12
<1>6. Own12[r] = {y_res[r].handle, y_res[r].memory} /\ Own12'[r] = {}
  BY <1>3, <1>4, Own12At, Own12AtNext DEF OfResource
<1>7. OneOwner(Own12, Own12', r, y_next .. (y_next + 0 - 1),
               {y_res[r].handle, y_res[r].memory}, {}, {})
  <2>1. \A p \in Owner12 : p # r => Own12'[p] = Own12[p]
    BY <1>1, <1>4, Others12
  <2>2. y_next .. (y_next + 0 - 1) = {}
    BY <1>2
  <2> QED
    BY <1>6, <2>1, <2>2, Own12At, Own12AtNext, Slots12 DEF OneOwner
<1>8. Owners12' /\ Gone12
  BY <1>1, <1>7, Owner12One DEF Inv12
<1>9. Types12'
  BY <1>1, <1>4, <1>5 DEF Inv12, Types12
<1>10. Links12'
  BY <1>1, <1>4, <1>5, ResourceLinks12
<1>11. Buffered12'
  BY <1>1 DEF Inv12, Buffered12
\* No other resource has its handle.
<1>12. ASSUME NEW s \in Resource, s # r, y_res[s] # D12!None
       PROVE  y_res[s].handle # y_res[r].handle
  <2>1. Own12[s] = {y_res[s].handle, y_res[s].memory}
    BY <1>12, Own12At DEF OfResource
  <2>2. Own12[s] \cap Own12[r] = {}
    BY <1>12, Facts12, Slots12
  <2> QED
    BY <1>6, <2>1, <2>2
<1>13. /\ Images12' = Images12 \ {y_res[r].handle}
       /\ Handles12' = Handles12 \ {y_res[r].handle}
  <2>1. ASSUME NEW s \in Resource, s # r
        PROVE  y_res'[s] = y_res[s]
    BY <1>4, <2>1
  <2> QED
    BY <1>3, <1>4, <1>12, <2>1 DEF Images12, Handles12
<1>14. Known12'
  <2>1. /\ DOMAIN y_layout' = Images12' /\ DOMAIN y_state' = Images12'
        /\ \A h \in DOMAIN y_layout' : y_layout'[h] = y_layout[h] /\ y_state'[h] = y_state[h]
    BY <1>1, <1>13 DEF D12!Without, Inv12, Known12
  <2>2. D12!LayoutIsState'
    BY <1>13, <2>1 DEF D12!LayoutIsState, Inv12, Known12
  <2>3. y_next' = y_next /\ y_live' = y_live \ {y_res[r].handle, y_res[r].memory}
    BY <1>1, <1>2 DEF D12!Vk
  <2>4. y_heap'.image < y_next'
    BY <1>1, <2>3 DEF Inv12, Known12
  <2>5. y_heap' # D12!Empty /\ y_heap'.image \in y_live' => y_heap'.image \in Images12'
    BY <1>1, <1>13, <2>3 DEF Inv12, Known12
  <2> QED
    BY <2>1, <2>2, <2>4, <2>5 DEF Known12
<1>15. Recorded12'
  <2>1. ASSUME NEW h \in DOMAIN y_cb
        PROVE  BufferOk(y_cb[h], Handles12', y_live', y_next')
    <3>1. BufferOk(y_cb[h], Handles12, y_live, y_next)
      BY DEF Inv12, Recorded12
    <3>2. ~y_cb[h].spent =>
            \A i \in DOMAIN y_cb[h].commands : y_res[r].handle \notin y_cb[h].commands[i].uses
      BY <1>3 DEF D12!NeededByRecording
    <3>3. ~y_cb[h].spent => \A i \in DOMAIN y_cb[h].commands :
             y_cb[h].commands[i].uses \subseteq Handles12 =>
               y_cb[h].commands[i].uses \subseteq Handles12'
      BY <1>13, <3>2
    <3> QED
      BY <1>8, <3>1, <3>3, BufferStays
  <2> QED
    BY <1>1, <2>1 DEF Inv12, Recorded12
<1> QED
  BY <1>8, <1>9, <1>10, <1>11, <1>14, <1>15 DEF Inv12

LEMMA DropAllocator12 ==
  ASSUME Inv12, NEW a \in Allocator, y_ref[a] > 0,
         D12!drop_allocator(a), y_ref' = [y_ref EXCEPT ![a] = 0]
  PROVE  Inv12'
<1>1. PICK D : D = D12!DropPool(a, FALSE, y_list)
  OBVIOUS
<1>2. /\ D12!Vk(0, D, {})
      /\ y_pool' = [y_pool EXCEPT ![a] = IF D = {} THEN y_pool[a] ELSE 0]
      /\ UNCHANGED <<y_res, y_heap, y_root, y_pso, y_list, y_cb, y_layout, y_state,
                     y_dangling>>
  BY <1>1 DEF D12!drop_allocator, D12!VkDestroy, D12!Null, Inv12, Types12
<1>3. y_next \in Nat \ {0}
  BY Facts12
<1>4. y_pool \in [Allocator -> Nat] /\ y_pool[a] # 0 /\ y_ref \in [D12!Object -> Nat]
  BY DEF Inv12, Types12, Links12, D12!Live
<1>5. D = IF UsesPool(a) THEN {} ELSE {y_pool[a]}
  BY <1>1, <1>4 DEF D12!DropPool, D12!PoolUser, UsesPool, D12!Null
<1>6. /\ y_pool' \in [Allocator -> Nat] /\ y_pool'[a] = IF UsesPool(a) THEN y_pool[a] ELSE 0
      /\ \A b \in Allocator : b # a => y_pool'[b] = y_pool[b]
  BY <1>2, <1>4, <1>5
<1>7. /\ y_ref' \in [D12!Object -> Nat] /\ y_ref'[a] = 0
      /\ \A p \in D12!Object : p # a => y_ref'[p] = y_ref[p]
  BY <1>4, Slots12
<1>8. OneOwner(Own12, Own12', a, y_next .. (y_next + 0 - 1), D, {}, {})
  <2>1. Own12[a] = {y_pool[a]} /\ Own12'[a] = {y_pool[a]} \ D
    <3>1. Own12[a] = {y_pool[a]} \ {0} /\ Own12'[a] = {y_pool'[a]} \ {0}
      BY Own12At, Own12AtNext
    <3> QED
      BY <1>4, <1>5, <1>6, <3>1
  <2>2. \A p \in Owner12 : p # a => Own12'[p] = Own12[p]
    BY <1>2, <1>6, Others12
  <2>3. y_next .. (y_next + 0 - 1) = {}
    BY <1>3
  <2>4. D \subseteq {y_pool[a]}
    BY <1>5
  <2> QED
    BY <2>1, <2>2, <2>3, <2>4, Own12At, Own12AtNext, Slots12 DEF OneOwner
<1>9. Types12'
  BY <1>2, <1>6, <1>7 DEF Inv12, Types12
<1>10. Links12'
  <2>1. \A o \in Resource \cup List \cup {"heap"} : y_ref'[o] = y_ref[o]
    BY <1>7, Slots12
  <2>2. \A b \in Allocator : UsesPool(b)' <=> UsesPool(b)
    BY <1>2 DEF UsesPool
  <2>3. \A b \in Allocator : y_pool'[b] # 0 <=> y_ref'[b] > 0 \/ UsesPool(b)'
    <3>1. ASSUME NEW b \in Allocator, b # a
          PROVE  y_pool'[b] # 0 <=> y_ref'[b] > 0 \/ UsesPool(b)'
      <4>1. y_pool'[b] = y_pool[b] /\ y_ref'[b] = y_ref[b]
        BY <1>6, <1>7, <3>1, Slots12
      <4> QED
        BY <2>2, <4>1 DEF Inv12, Links12, D12!Live
    <3>2. y_pool'[a] # 0 <=> y_ref'[a] > 0 \/ UsesPool(a)'
      BY <1>4, <1>6, <1>7, <2>2
    <3> QED
      BY <3>1, <3>2
  <2>4. \A r \in Resource : y_ref'[r] > 0 <=> y_res'[r] # D12!None
    BY <1>2, <2>1 DEF Inv12, Links12, D12!Live
  <2>5. \A l \in List : y_ref'[l] > 0 <=> y_list'[l] # D12!None
    BY <1>2, <2>1 DEF Inv12, Links12, D12!Live
  <2>6. y_heap' = D12!Empty \/ (y_ref'["heap"] > 0 /\ y_heap'.view # 0)
    BY <1>2, <2>1 DEF Inv12, Links12, D12!Live
  <2> QED
    BY <2>3, <2>4, <2>5, <2>6 DEF Links12, D12!Live
<1> QED
  BY <1>2, <1>8, <1>9, <1>10, ObjectStep12

\* A slot gets a list, a changed list or loses it.
LEMMA ListSlot12 ==
  ASSUME Inv12, NEW l \in List, NEW v \in Lists12Of \cup {D12!None},
         y_list' = [y_list EXCEPT ![l] = v]
  PROVE  /\ y_list' \in [List -> Lists12Of \cup {D12!None}]
         /\ y_list'[l] = v /\ \A m \in List : m # l => y_list'[m] = y_list[m]
BY DEF Inv12, Types12

\* What a list names was created.
LEMMA Named12 ==
  ASSUME Inv12, NEW l \in List, y_list[l] # D12!None
  PROVE  /\ y_list[l] \in Lists12Of /\ y_list[l].allocator \in Allocator
         /\ y_list[l].command_buffer \in 1 .. (y_next - 1)
         /\ y_list[l].command_buffer # y_next
         /\ y_list[l].command_buffer \in y_live \cup y_dangling
<1>1. y_list[l] \in Lists12Of
  BY DEF Inv12, Types12
<1>2. y_list[l].command_buffer \in DOMAIN y_cb \cup y_dangling
  BY DEF Inv12, Buffered12
<1>3. y_next \in Nat /\ DOMAIN y_cb \subseteq y_live /\ y_live \subseteq 1 .. (y_next - 1)
      /\ y_dangling \subseteq 1 .. (y_next - 1)
  BY Facts12 DEF Inv12, Owners12
<1>4. y_list[l].command_buffer \in 1 .. (y_next - 1)
  BY <1>2, <1>3
<1>5. y_list[l].command_buffer # y_next
  BY <1>3, <1>4
<1> QED
  BY <1>1, <1>2, <1>3, <1>4, <1>5 DEF Lists12Of

\* The buffers that are new or changed are empty.
LEMMA Recorded12Change ==
  ASSUME Recorded12, Gone12, Handles12' = Handles12,
         \A h \in DOMAIN y_cb' : \/ h \in DOMAIN y_cb /\ y_cb'[h] = y_cb[h]
                                 \/ DOMAIN y_cb'[h].commands = {}
  PROVE  Recorded12'
<1>1. ASSUME NEW h \in DOMAIN y_cb'
      PROVE  BufferOk(y_cb'[h], Handles12', y_live', y_next')
  <2>1. CASE h \in DOMAIN y_cb /\ y_cb'[h] = y_cb[h]
    <3>1. BufferOk(y_cb[h], Handles12, y_live, y_next)
      BY <2>1 DEF Recorded12
    <3>2. BufferOk(y_cb[h], Handles12', y_live', y_next')
      BY <3>1, BufferStays
    <3> QED
      BY <2>1, <3>2
  <2>2. CASE DOMAIN y_cb'[h].commands = {}
    BY <2>2 DEF BufferOk
  <2> QED
    BY <2>1, <2>2
<1> QED
  BY <1>1 DEF Recorded12

LEMMA Fresh12 ==
  /\ D12!Recording \in Buffers12 /\ DOMAIN D12!Recording.commands = {} /\ ~D12!Recording.spent
  /\ D12!Recording.commands = <<>>
BY DEF D12!Recording, Buffers12

\* A buffer that is submitted keeps its commands.
LEMMA Spent12 ==
  ASSUME NEW b \in Buffers12
  PROVE  /\ D12!Spent(b) \in Buffers12 /\ D12!Spent(b).commands = b.commands
         /\ D12!Spent(b).spent = TRUE
BY DEF D12!Spent, Buffers12

\* A step on the lists, put together.
LEMMA ListStep12 ==
  ASSUME Inv12, UNCHANGED <<y_res, y_heap, y_layout, y_state>>, y_next' \in Nat, y_next <= y_next',
         Types12', Owners12', Gone12, Links12', Buffered12', Recorded12'
  PROVE  Inv12'
BY Known12Step DEF Inv12

\* The links of the other objects when lists and pools have changed.
LEMMA ListLinks12 ==
  ASSUME Inv12, UNCHANGED <<y_res, y_heap>>,
         \A o \in Resource \cup {"heap"} : y_ref'[o] = y_ref[o],
         \A l \in List : y_ref'[l] > 0 <=> y_list'[l] # D12!None,
         \A a \in Allocator : y_pool'[a] # 0 <=> y_ref'[a] > 0 \/ UsesPool(a)'
  PROVE  Links12'
BY DEF Inv12, Links12, D12!Live

LEMMA CreateList12 ==
  ASSUME Inv12, NEW l \in List, NEW a \in Allocator, D12!device_create_command_list(l, a)
  PROVE  Inv12'
<1>1. CASE D12!Fails(l) /\ D12!create_command_list_failed
  BY <1>1, Failed12 DEF D12!Fails, D12!create_command_list_failed
<1>2. CASE D12!Creates(l) /\ D12!create_command_list(l, a)
  <2>1. PICK v : v = [kind |-> "list", allocator |-> a, command_buffer |-> y_next,
                      target |-> D12!Empty, pipeline |-> D12!NoPso,
                      recording |-> TRUE, closed |-> FALSE]
    OBVIOUS
  <2>2. /\ D12!Live(a) /\ D12!Creates(l) /\ D12!Vk(1, {}, {})
        /\ y_list' = [y_list EXCEPT ![l] = v]
        /\ y_cb' = D12!With(y_cb, y_next, D12!Recording)
        /\ UNCHANGED <<y_res, y_heap, y_root, y_pso, y_pool, y_layout, y_state, y_dangling>>
    BY <1>2, <2>1 DEF D12!device_create_command_list, D12!create_command_list
  <2>3. y_next \in Nat \ {0} /\ DOMAIN y_cb \subseteq y_live /\ y_next \notin y_live
    BY Facts12
  <2>4. v \in Lists12Of /\ v # D12!None /\ v.allocator = a /\ v.command_buffer = y_next
    <3>1. D12!Empty \in Descriptors12 /\ D12!NoPso \in [pipeline : Nat, render_pass : Nat]
      BY NotNone12
    <3>2. v \in Lists12Of
      BY <2>1, <2>3, <3>1 DEF Lists12Of
    <3>3. v.allocator = a /\ v.command_buffer = y_next
      BY <2>1
    <3> QED
      BY <3>2, <3>3, NotNone12
  <2>5. /\ y_list' \in [List -> Lists12Of \cup {D12!None}]
        /\ y_list'[l] = v /\ \A m \in List : m # l => y_list'[m] = y_list[m]
    BY <2>2, <2>4, ListSlot12
  <2>6. y_ref \in [D12!Object -> Nat] /\ l \in D12!Object /\ y_cb \in [DOMAIN y_cb -> Buffers12]
    BY Slots12 DEF Inv12, Types12
  <2>7. /\ y_ref' \in [D12!Object -> Nat] /\ y_ref'[l] = 1 /\ y_ref[l] = 0
        /\ \A p \in D12!Object : p # l => y_ref'[p] = y_ref[p]
    BY <2>2, <2>6, Creates12
  <2>8. y_list[l] = D12!None
    BY <2>7 DEF Inv12, Links12, D12!Live
  <2>9. /\ DOMAIN y_cb' = DOMAIN y_cb \cup {y_next} /\ y_cb'[y_next] = D12!Recording
        /\ \A h \in DOMAIN y_cb : y_cb'[h] = y_cb[h]
        /\ y_cb' \in [DOMAIN y_cb' -> Buffers12]
    <3>1. /\ DOMAIN y_cb' = DOMAIN y_cb \cup {y_next}
          /\ y_cb' = [h \in DOMAIN y_cb \cup {y_next} |-> IF h = y_next THEN D12!Recording ELSE y_cb[h]]
      BY <2>2 DEF D12!With
    <3>2. \A h \in DOMAIN y_cb : h # y_next
      BY <2>3
    <3> QED
      BY <2>6, <3>1, <3>2, Fresh12
  <2>10. OneOwner(Own12, Own12', l, y_next .. (y_next + 1 - 1), {}, {}, {y_next})
    <3>1. Own12[l] = {} /\ Own12'[l] = {y_next}
      <4>1. Own12[l] = {}
        BY <2>8, Own12At DEF OfList
      <4>2. Own12'[l] = {y_next}
        BY <2>4, <2>5, <2>9, Own12AtNext DEF OfList
      <4> QED
        BY <4>1, <4>2
    <3>2. ASSUME NEW m \in List, m # l
          PROVE  OfList(y_list'[m], DOMAIN y_cb') = OfList(y_list[m], DOMAIN y_cb)
      BY <2>5, <2>9, <3>2, Named12 DEF OfList
    <3>3. /\ \A r \in Resource : y_res'[r] = y_res[r]
          /\ \A b \in Allocator : y_pool'[b] = y_pool[b]
          /\ y_heap' = y_heap /\ y_root' = y_root /\ y_pso' = y_pso
      BY <2>2
    <3>4. \A p \in Owner12 : p # l => Own12'[p] = Own12[p]
      BY ZenonT(60), <3>2, <3>3, Others12
    <3> QED
      BY <2>3, <3>1, <3>4, Own12At, Own12AtNext, Slots12 DEF OneOwner
  <2>11. Owners12' /\ Gone12
    BY <2>2, <2>10, Owner12One DEF Inv12
  <2>12. y_next' \in Nat /\ y_next <= y_next'
    BY <2>2, <2>3 DEF D12!Vk
  <2>13. Types12'
    BY <2>2, <2>5, <2>7, <2>9 DEF Inv12, Types12
  <2>14. Links12'
    <3>1. \A o \in Resource \cup Allocator \cup {"heap"} : y_ref'[o] = y_ref[o]
      BY <2>7, Slots12
    <3>2. \A m \in List : y_ref'[m] > 0 <=> y_list'[m] # D12!None
      BY <2>4, <2>5, <2>7, Slots12 DEF Inv12, Links12, D12!Live
    <3>3. \A b \in Allocator : UsesPool(b)' <=> UsesPool(b) \/ b = a
      BY <2>4, <2>5, <2>8 DEF UsesPool
    <3>4. y_pool[a] # 0
      BY <2>2 DEF Inv12, Links12
    <3>5. \A b \in Allocator : y_pool'[b] # 0 <=> y_ref'[b] > 0 \/ UsesPool(b)'
      BY <2>2, <3>1, <3>3, <3>4 DEF Inv12, Links12, D12!Live
    <3> QED
      BY <2>2, <3>1, <3>2, <3>5, ListLinks12
  <2>15. Buffered12'
    <3>1. ASSUME NEW m \in List, y_list'[m] # D12!None
          PROVE  y_list'[m].command_buffer \in DOMAIN y_cb' \cup y_dangling'
      BY <2>2, <2>4, <2>5, <2>9, <3>1 DEF Inv12, Buffered12
    <3>2. ASSUME NEW h \in DOMAIN y_cb'
          PROVE  \E m \in List : y_list'[m] # D12!None /\ y_list'[m].command_buffer = h
      <4>1. CASE h = y_next
        BY <2>4, <2>5, <4>1
      <4>2. CASE h \in DOMAIN y_cb
        BY <2>5, <2>8, <4>2 DEF Inv12, Buffered12
      <4> QED
        BY <2>9, <4>1, <4>2
    <3> QED
      BY <3>1, <3>2 DEF Buffered12
  <2>16. Recorded12'
    <3>1. Handles12' = Handles12
      BY <2>2 DEF Handles12
    <3>2. \A h \in DOMAIN y_cb' : \/ h \in DOMAIN y_cb /\ y_cb'[h] = y_cb[h]
                                  \/ DOMAIN y_cb'[h].commands = {}
      BY <2>9, Fresh12
    <3> QED
      BY <2>2, <2>11, <3>1, <3>2, Recorded12Change DEF Inv12
  <2> QED
    BY <2>2, <2>11, <2>12, <2>13, <2>14, <2>15, <2>16, ListStep12
<1> QED
  BY <1>1, <1>2 DEF D12!device_create_command_list

\* A list's flags and bindings change.
LEMMA EditList12 ==
  ASSUME Inv12, NEW l \in List, y_list[l] # D12!None, NEW v \in Lists12Of,
         v.allocator = y_list[l].allocator, v.command_buffer = y_list[l].command_buffer,
         y_list' = [y_list EXCEPT ![l] = v],
         UNCHANGED <<y_live, y_next, y_twice, y_leaked>>,
         UNCHANGED <<y_res, y_heap, y_root, y_pso, y_pool, y_cb, y_layout, y_state,
                     y_dangling>>,
         UNCHANGED y_ref
  PROVE  Inv12'
<1>1. /\ y_list' \in [List -> Lists12Of \cup {D12!None}]
      /\ y_list'[l] = v /\ \A m \in List : m # l => y_list'[m] = y_list[m]
  BY ListSlot12
<1>2. v # D12!None
  BY NotNone12
<1>3. \A m \in List : /\ y_list'[m] # D12!None <=> y_list[m] # D12!None
                      /\ y_list'[m] # D12!None =>
                           /\ y_list'[m].allocator = y_list[m].allocator
                           /\ y_list'[m].command_buffer = y_list[m].command_buffer
  BY <1>1, <1>2
<1>4. \A p \in Owner12 : Own12'[p] = Own12[p]
  <2>1. \A m \in List : OfList(y_list'[m], DOMAIN y_cb') = OfList(y_list[m], DOMAIN y_cb)
    BY <1>3 DEF OfList
  <2>2. "root" \notin List /\ "root" \notin Resource /\ "root" \notin Allocator
    BY Slots12
  <2>3. \A p \in Owner12 : p # "root" => Own12'[p] = Own12[p]
    BY <2>1, Others12
  <2>4. Own12'["root"] = Own12["root"]
    BY Own12At, Own12AtNext
  <2> QED
    BY <2>3, <2>4
<1>5. y_next \in Nat /\ y_next <= Lists12 + 1
  BY Facts12 DEF Inv12, Owners12
<1>6. Owners12' /\ Gone12
  BY <1>4, <1>5, Same12 DEF Inv12
<1>7. Types12'
  BY <1>1 DEF Inv12, Types12
<1>8. Links12'
  <2>1. \A a \in Allocator : UsesPool(a)' <=> UsesPool(a)
    BY <1>3 DEF UsesPool
  <2>2. \A m \in List : y_ref'[m] > 0 <=> y_list'[m] # D12!None
    BY <1>3 DEF Inv12, Links12, D12!Live
  <2>3. \A a \in Allocator : y_pool'[a] # 0 <=> y_ref'[a] > 0 \/ UsesPool(a)'
    BY <2>1 DEF Inv12, Links12, D12!Live
  <2> QED
    BY <2>2, <2>3, ListLinks12
<1>9. Buffered12'
  BY <1>3 DEF Inv12, Buffered12
<1>10. Recorded12'
  BY <1>6, Recorded12Step DEF Inv12, Handles12
<1> QED
  BY <1>5, <1>6, <1>7, <1>8, <1>9, <1>10, ListStep12

LEMMA Edits12 ==
  ASSUME Inv12, NEW l \in List,
         D12!cmdlist_close(l) \/ D12!cmdlist_set_pipeline_state(l) \/ D12!cmdlist_set_render_targets(l)
  PROVE  Inv12'
<1> USE DEF D12!vkVars
<1>1. /\ y_list[l] # D12!None
      /\ UNCHANGED <<y_live, y_next, y_twice, y_leaked>>
      /\ UNCHANGED <<y_res, y_heap, y_root, y_pso, y_pool, y_cb, y_layout, y_state,
                     y_dangling>>
      /\ UNCHANGED y_ref
  BY DEF D12!cmdlist_close, D12!cmdlist_set_pipeline_state, D12!cmdlist_set_render_targets,
         D12!close, D12!set_pipeline_state, D12!set_render_targets, D12!require_recording,
         D12!Usable
<1>2. y_list[l] \in Lists12Of /\ y_list \in [List -> Lists12Of \cup {D12!None}]
  BY <1>1 DEF Inv12, Types12
<1>3. \E v \in Lists12Of : /\ v.allocator = y_list[l].allocator
                           /\ v.command_buffer = y_list[l].command_buffer
                           /\ y_list' = [y_list EXCEPT ![l] = v]
  <2>1. CASE D12!cmdlist_close(l)
    <3>1. y_list' = [y_list EXCEPT ![l].recording = FALSE, ![l].closed = TRUE]
      BY <2>1 DEF D12!cmdlist_close, D12!close
    <3>2. PICK v : v = [y_list[l] EXCEPT !.recording = FALSE, !.closed = TRUE]
      OBVIOUS
    <3>3. v \in Lists12Of /\ v.allocator = y_list[l].allocator
          /\ v.command_buffer = y_list[l].command_buffer
      BY <1>2, <3>2 DEF Lists12Of
    <3>4. y_list' = [y_list EXCEPT ![l] = v]
      BY <1>2, <3>1, <3>2
    <3> QED
      BY <3>3, <3>4
  <2>2. CASE D12!cmdlist_set_pipeline_state(l)
    <3>1. PICK q : q = [pipeline |-> y_pso.pipeline, render_pass |-> y_pso.render_pass]
      OBVIOUS
    <3>2. y_pso # D12!None /\ y_list' = [y_list EXCEPT ![l].pipeline = q]
      BY <2>2, <3>1 DEF D12!cmdlist_set_pipeline_state, D12!set_pipeline_state
    <3>3. y_pso \in Pipelines12
      BY <3>2 DEF Inv12, Types12
    <3>4. q \in [pipeline : Nat, render_pass : Nat]
      BY <3>1, <3>3 DEF Pipelines12
    <3>5. PICK v : v = [y_list[l] EXCEPT !.pipeline = q]
      OBVIOUS
    <3>6. v \in Lists12Of /\ v.allocator = y_list[l].allocator
          /\ v.command_buffer = y_list[l].command_buffer
      BY <1>2, <3>4, <3>5 DEF Lists12Of
    <3>7. y_list' = [y_list EXCEPT ![l] = v]
      BY <1>2, <3>2, <3>5
    <3> QED
      BY <3>6, <3>7
  <2>3. CASE D12!cmdlist_set_render_targets(l)
    <3>1. y_list' = [y_list EXCEPT ![l].target = y_heap]
      BY <2>3 DEF D12!cmdlist_set_render_targets, D12!set_render_targets
    <3>2. PICK v : v = [y_list[l] EXCEPT !.target = y_heap]
      OBVIOUS
    <3>3. y_heap \in Descriptors12
      BY DEF Inv12, Types12
    <3>4. v \in Lists12Of /\ v.allocator = y_list[l].allocator
          /\ v.command_buffer = y_list[l].command_buffer
      BY <1>2, <3>2, <3>3 DEF Lists12Of
    <3>5. y_list' = [y_list EXCEPT ![l] = v]
      BY <1>2, <3>1, <3>2
    <3> QED
      BY <3>4, <3>5
  <2> QED
    BY <2>1, <2>2, <2>3
<1>4. PICK v \in Lists12Of : /\ v.allocator = y_list[l].allocator
                             /\ v.command_buffer = y_list[l].command_buffer
                             /\ y_list' = [y_list EXCEPT ![l] = v]
  BY <1>3
<1> QED
  BY <1>1, <1>4, EditList12

\* A command is recorded into the buffer of list l.
LEMMA Record12 ==
  ASSUME Inv12, NEW l \in List, D12!Usable(l), NEW c \in Commands12, D12!Record(l, c),
         CommandOk(c, FALSE, Handles12, y_live, y_next'),
         y_next' \in Nat, y_next <= y_next', y_next' <= Lists12 + 1,
         UNCHANGED <<y_live, y_twice, y_leaked>>,
         UNCHANGED <<y_res, y_heap, y_root, y_pso, y_pool, y_list, y_layout, y_state,
                     y_dangling>>,
         UNCHANGED y_ref
  PROVE  Inv12'
<1>1. PICK h : h = y_list[l].command_buffer
  OBVIOUS
<1>2. h \in DOMAIN y_cb /\ y_cb \in [DOMAIN y_cb -> Buffers12] /\ y_cb[h] \in Buffers12
  BY <1>1 DEF D12!Usable, Inv12, Types12
<1>3. y_cb' = [y_cb EXCEPT ![h].commands = Append(y_cb[h].commands, c)]
  BY <1>1, <1>2 DEF D12!Record
<1>4. PICK b : b = [y_cb[h] EXCEPT !.commands = Append(y_cb[h].commands, c)]
  OBVIOUS
<1>5. y_cb[h].commands \in Seq(Commands12)
  BY <1>2 DEF Buffers12
<1>6. PICK s \in Seq(Commands12) : s = y_cb[h].commands
  BY <1>5
<1>7. Append(s, c) \in Seq(Commands12)
  BY <1>6
<1>8. b \in Buffers12 /\ b.commands = Append(s, c) /\ b.spent = y_cb[h].spent
  BY <1>2, <1>4, <1>6, <1>7 DEF Buffers12
<1>9. /\ DOMAIN y_cb' = DOMAIN y_cb /\ y_cb'[h] = b
      /\ \A g \in DOMAIN y_cb : g # h => y_cb'[g] = y_cb[g]
      /\ y_cb' \in [DOMAIN y_cb' -> Buffers12]
  BY <1>2, <1>3, <1>4, <1>8
<1>10. \A p \in Owner12 : Own12'[p] = Own12[p]
  BY <1>9 DEF Own12
<1>11. Owners12' /\ Gone12
  BY <1>10, Same12 DEF Inv12
<1>12. Types12'
  BY <1>9 DEF Inv12, Types12
<1>13. Links12'
  BY DEF Inv12, Links12, D12!Live, UsesPool
<1>14. Buffered12'
  BY <1>9 DEF Inv12, Buffered12
<1>15. Recorded12'
  <2>1. Handles12' = Handles12
    BY DEF Handles12
  <2>2. ASSUME NEW g \in DOMAIN y_cb
        PROVE  BufferOk(y_cb[g], Handles12, y_live', y_next')
    <3>1. BufferOk(y_cb[g], Handles12, y_live, y_next)
      BY DEF Inv12, Recorded12
    <3> QED
      BY <1>11, <3>1, BufferStays
  <2>3. BufferOk(b, Handles12, y_live', y_next')
    <3>1. SUFFICES ASSUME NEW i \in DOMAIN b.commands
                   PROVE  CommandOk(b.commands[i], b.spent, Handles12, y_live', y_next')
      BY DEF BufferOk
    <3>2. /\ DOMAIN s = 1 .. Len(s) /\ Len(s) \in Nat
          /\ DOMAIN Append(s, c) = 1 .. (Len(s) + 1)
          /\ Append(s, c)[Len(s) + 1] = c
          /\ \A j \in 1 .. Len(s) : Append(s, c)[j] = s[j]
      BY <1>6
    <3>3. i \in 1 .. Len(s) \/ i = Len(s) + 1
      BY <1>8, <3>1, <3>2
    <3>4. CASE i \in 1 .. Len(s)
      <4>1. b.commands[i] = y_cb[h].commands[i] /\ i \in DOMAIN y_cb[h].commands
        BY <1>6, <1>8, <3>2, <3>4
      <4>2. CommandOk(y_cb[h].commands[i], y_cb[h].spent, Handles12, y_live', y_next')
        BY <1>2, <2>2, <4>1 DEF BufferOk
      <4> QED
        BY <1>8, <4>1, <4>2
    <3>5. CASE i = Len(s) + 1
      <4>1. b.commands[i] = c
        BY <1>8, <3>2, <3>5
      <4>2. CommandOk(c, b.spent, Handles12, y_live', y_next')
        BY DEF CommandOk
      <4> QED
        BY <4>1, <4>2
    <3> QED
      BY <3>3, <3>4, <3>5
  <2>4. ASSUME NEW g \in DOMAIN y_cb'
        PROVE  BufferOk(y_cb'[g], Handles12', y_live', y_next')
    BY <1>9, <2>1, <2>2, <2>3
  <2> QED
    BY <2>4 DEF Inv12, Recorded12
<1> QED
  BY <1>11, <1>12, <1>13, <1>14, <1>15, ListStep12

LEMMA Recording12 ==
  ASSUME Inv12, NEW l \in List,
         \/ D12!cmdlist_clear_render_target_view(l) \/ D12!cmdlist_draw_instanced(l)
         \/ \E r \in Resource, s1, s2 \in State : D12!cmdlist_resource_barrier(l, r, s1, s2)
  PROVE  Inv12'
<1> USE DEF D12!vkVars
<1>1. y_next \in Nat \ {0} /\ Images12 \subseteq Handles12 /\ Lists12 \in Nat
      /\ y_next \notin y_live /\ y_next <= Lists12 + 1
  BY Facts12 DEF Inv12, Owners12
<1>2. y_heap \in Descriptors12 /\ y_heap.image \in Nat
  BY DEF Inv12, Types12, Descriptors12
<1>3. CASE D12!cmdlist_clear_render_target_view(l)
  <2>1. PICK c : c = [op |-> "clear", image |-> y_heap.image, before |-> "RenderTarget",
                      after |-> "RenderTarget", uses |-> {y_heap.image}]
    OBVIOUS
  <2>2. /\ D12!Usable(l) /\ D12!Record(l, c) /\ y_heap # D12!Empty /\ y_heap.image \in y_live
        /\ UNCHANGED <<y_live, y_next, y_twice, y_leaked>>
        /\ UNCHANGED <<y_res, y_heap, y_root, y_pso, y_pool, y_list, y_layout, y_state,
                       y_dangling>>
        /\ UNCHANGED y_ref
    BY <1>3, <2>1 DEF D12!cmdlist_clear_render_target_view, D12!clear_render_target_view,
                      D12!require_recording
  <2>3. c \in Commands12
    BY <1>2, <2>1 DEF Commands12
  <2>4. c.op = "clear" /\ c.after = "RenderTarget" /\ c.uses = {y_heap.image}
    BY <2>1
  <2>5. y_heap.image \in Handles12
    BY <1>1, <2>2 DEF Inv12, Known12
  <2>6. CommandOk(c, FALSE, Handles12, y_live, y_next')
    BY <2>4, <2>5 DEF CommandOk
  <2>7. y_next' \in Nat /\ y_next <= y_next' /\ y_next' <= Lists12 + 1
    BY <1>1, <2>2
  <2> QED
    BY <2>2, <2>3, <2>6, <2>7, Record12
<1>4. CASE D12!cmdlist_draw_instanced(l)
  <2>1. PICK t : t = y_list[l].target
    OBVIOUS
  <2>2. PICK q : q = y_list[l].pipeline
    OBVIOUS
  <2>3. PICK c : c = [op |-> "draw", image |-> t.image, before |-> "RenderTarget",
                      after |-> "RenderTarget",
                      uses |-> {y_next, t.view, t.image, q.pipeline, q.render_pass}]
    OBVIOUS
  <2>4. /\ D12!Usable(l) /\ D12!Record(l, c) /\ y_next <= Lists12 /\ y_next' = y_next + 1
        /\ UNCHANGED <<y_live, y_twice, y_leaked>>
        /\ UNCHANGED <<y_res, y_heap, y_root, y_pso, y_pool, y_list, y_layout, y_state,
                       y_dangling>>
        /\ UNCHANGED y_ref
    BY <1>4, <2>1, <2>2, <2>3 DEF D12!cmdlist_draw_instanced, D12!draw_instanced,
                                  D12!require_recording, D12!Target
  <2>5. y_list[l] \in Lists12Of
    BY <2>4 DEF D12!Usable, Inv12, Types12
  <2>6. t.image \in Nat /\ t.view \in Nat /\ q.pipeline \in Nat /\ q.render_pass \in Nat
    BY <2>1, <2>2, <2>5 DEF Lists12Of, Descriptors12
  <2>7. c \in Commands12
    BY <1>1, <2>3, <2>6 DEF Commands12
  <2>8. c.op = "draw" /\ y_next \in c.uses
    BY <2>3
  <2>9. y_next < y_next' /\ y_next' \in Nat /\ y_next <= y_next' /\ y_next' <= Lists12 + 1
    BY <1>1, <2>4
  <2>10. CommandOk(c, FALSE, Handles12, y_live, y_next')
    BY <1>1, <2>8, <2>9 DEF CommandOk
  <2> QED
    BY <2>4, <2>7, <2>9, <2>10, Record12
<1>5. ASSUME NEW r \in Resource, NEW s1 \in State, NEW s2 \in State,
             D12!cmdlist_resource_barrier(l, r, s1, s2)
      PROVE  Inv12'
  <2>1. PICK c : c = [op |-> IF y_res[r].kind = "image" THEN "barrier" ELSE "buffer",
                      image |-> y_res[r].handle, before |-> s1, after |-> s2,
                      uses |-> {y_res[r].handle}]
    OBVIOUS
  <2>2. /\ D12!Usable(l) /\ D12!Record(l, c) /\ y_res[r] # D12!None
        /\ UNCHANGED <<y_live, y_next, y_twice, y_leaked>>
        /\ UNCHANGED <<y_res, y_heap, y_root, y_pso, y_pool, y_list, y_layout, y_state,
                       y_dangling>>
        /\ UNCHANGED y_ref
    BY <1>5, <2>1 DEF D12!cmdlist_resource_barrier, D12!resource_barrier, D12!require_recording
  <2>3. y_res[r].handle \in Nat
    BY <2>2 DEF Inv12, Types12, Resources12
  <2>4. c \in Commands12
    BY <2>1, <2>3 DEF Commands12
  <2>5. c.op # "clear" /\ c.op # "draw" /\ c.uses = {y_res[r].handle}
    BY <2>1
  <2>6. y_res[r].handle \in Handles12
    BY <2>2 DEF Handles12
  <2>7. CommandOk(c, FALSE, Handles12, y_live, y_next')
    BY <2>5, <2>6 DEF CommandOk
  <2>8. y_next' \in Nat /\ y_next <= y_next' /\ y_next' <= Lists12 + 1
    BY <1>1, <2>2
  <2> QED
    BY <2>2, <2>4, <2>7, <2>8, Record12
<1> QED
  BY <1>3, <1>4, <1>5

\* The pool of an allocator that list l lets go of is destroyed when nobody else
\* holds it.
LEMMA DropPool12 ==
  ASSUME Inv12, NEW l \in List, y_list[l] # D12!None, NEW a, a = y_list[l].allocator,
         NEW D, D = IF D12!Live(a) \/ UsesPool(a)' THEN {} ELSE {y_pool[a]} \ {0},
         y_pool' = [y_pool EXCEPT ![a] = IF D = {} THEN y_pool[a] ELSE 0]
  PROVE  /\ a \in Allocator /\ y_pool[a] # 0
         /\ D \in {{}, {y_pool[a]}}
         /\ D = {} <=> D12!Live(a) \/ UsesPool(a)'
         /\ y_pool' \in [Allocator -> Nat]
         /\ y_pool'[a] = IF D = {} THEN y_pool[a] ELSE 0
         /\ \A b \in Allocator : b # a => y_pool'[b] = y_pool[b]
         /\ Own12[a] = {y_pool[a]} /\ Own12'[a] = {y_pool[a]} \ D
<1>1. a \in Allocator
  BY Named12
<1>2. y_pool \in [Allocator -> Nat] /\ y_pool[a] # 0
  BY <1>1 DEF Inv12, Types12, Links12, UsesPool
<1>3. D = IF D12!Live(a) \/ UsesPool(a)' THEN {} ELSE {y_pool[a]}
  BY <1>2
<1>4. /\ y_pool' \in [Allocator -> Nat]
      /\ y_pool'[a] = IF D = {} THEN y_pool[a] ELSE 0
      /\ \A b \in Allocator : b # a => y_pool'[b] = y_pool[b]
  BY <1>1, <1>2
<1>5. Own12[a] = {y_pool[a]} \ {0} /\ Own12'[a] = {y_pool'[a]} \ {0}
  BY <1>1, Own12At, Own12AtNext
<1>6. Own12[a] = {y_pool[a]} /\ Own12'[a] = {y_pool[a]} \ D
  BY <1>2, <1>3, <1>4, <1>5
<1> QED
  BY <1>1, <1>2, <1>3, <1>4, <1>6

\* What a step does that lets go of list l's buffer and of its hold on allocator
\* a, and puts the buffers in G in the list's place.
LEMMA LetGo12 ==
  ASSUME Inv12, NEW l \in List, NEW a \in Allocator, NEW h, NEW P, NEW n \in Nat, NEW G,
         G = y_next .. (y_next + n - 1),
         D12!Vk(n, {h} \cup P, {}),
         Own12[l] = {h} \cap DOMAIN y_cb, h \in y_live \cup y_dangling,
         h \in DOMAIN y_cb \/ h \notin y_live,
         P \subseteq Own12[a], Own12'[a] = Own12[a] \ P,
         Own12'[l] = G,
         \A p \in Owner12 : p # l /\ p # a => Own12'[p] = Own12[p],
         y_dangling \subseteq y_dangling', y_dangling' \subseteq y_dangling \cup {h}
  PROVE  Owners12' /\ Gone12
<1>1. /\ \A p \in Owner12 : Own12[p] \subseteq y_live /\ Own12[p] \cap y_leaked = {}
      /\ \A p, q \in Owner12 : p # q => Own12[p] \cap Own12[q] = {}
      /\ y_leaked \subseteq y_live /\ y_live \subseteq 1 .. (y_next - 1) /\ y_next \in Nat
  BY Facts12
<1>2. l \in Owner12 /\ a \in Owner12 /\ l # a
  BY Slots12
<1>3. \A g \in G : g \notin y_live
  BY <1>1
<1>4. PICK D : D = {h} \cup P
  OBVIOUS
<1>5. D \cap y_leaked = {}
  <2>1. h \notin y_leaked
    <3>1. CASE h \in DOMAIN y_cb
      BY <1>1, <1>2, <3>1
    <3>2. CASE h \notin y_live
      BY <1>1, <3>2
    <3> QED
      BY <3>1, <3>2
  <2> QED
    BY <1>1, <1>2, <1>4, <2>1
<1>6. D \subseteq y_live \cup y_dangling
  BY <1>1, <1>2, <1>4
<1>7. \A p \in Owner12 : p # l /\ p # a => Own12[p] \cap D = {}
  <2>1. ASSUME NEW p \in Owner12, p # l, p # a
        PROVE  Own12[p] \cap D = {}
    <3>1. h \notin Own12[p]
      <4>1. CASE h \in DOMAIN y_cb
        <5>1. h \in Own12[l]
          BY <4>1
        <5> QED
          BY <1>1, <1>2, <2>1, <5>1
      <4>2. CASE h \notin y_live
        BY <1>1, <4>2
      <4> QED
        BY <4>1, <4>2
    <3>2. Own12[p] \cap Own12[a] = {}
      BY <1>1, <1>2, <2>1
    <3> QED
      BY <1>4, <3>1, <3>2
  <2> QED
    BY <2>1
<1>8. Own12[l] \subseteq D /\ h \notin Own12[a]
  <2>1. h \notin Own12[a]
    <3>1. CASE h \in DOMAIN y_cb
      <4>1. h \in Own12[l]
        BY <3>1
      <4> QED
        BY <1>1, <1>2, <4>1
    <3>2. CASE h \notin y_live
      BY <1>1, <1>2, <3>2
    <3> QED
      BY <3>1, <3>2
  <2> QED
    BY <1>4, <2>1
<1>9. HandsOver(Own12, Own12', G, D, {})
  <2>1. ASSUME NEW p \in Owner12
        PROVE  Own12'[p] \subseteq (Own12[p] \ D) \cup (G \ {}) /\ Own12[p] \subseteq Own12'[p] \cup D
    <3>1. CASE p = l
      BY <1>8, <3>1
    <3>2. CASE p = a
      BY <1>4, <1>8, <3>2
    <3>3. CASE p # l /\ p # a
      BY <1>7, <3>3
    <3> QED
      BY <3>1, <3>2, <3>3
  <2>2. ASSUME NEW p \in Owner12, p # l, NEW g \in G
        PROVE  g \notin Own12'[p]
    <3>1. Own12'[p] \subseteq Own12[p]
      BY <2>2
    <3> QED
      BY <1>1, <1>3, <3>1
  <2>3. \A p, q \in Owner12 : p # q => \A g \in G : ~(g \in Own12'[p] /\ g \in Own12'[q])
    BY <2>2
  <2>4. \A g \in G : g \in {} \/ \E p \in Owner12 : g \in Own12'[p]
    BY <1>2
  <2>5. DOMAIN Own12 = Owner12 /\ DOMAIN Own12' = Owner12
    BY Own12At, Own12AtNext
  <2> QED
    BY <2>1, <2>3, <2>4, <2>5 DEF HandsOver
<1>10. y_dangling' \subseteq y_dangling \cup D
  BY <1>4
<1>11. D12!Vk(n, D, {}) /\ HandsOver(Own12, Own12', y_next .. (y_next + n - 1), D, {})
  BY <1>4, <1>9
<1> QED
  BY <1>5, <1>6, <1>10, <1>11, Owner12Step DEF Inv12

\* Two lists do not share a buffer.
LEMMA Apart12 ==
  ASSUME Inv12, NEW l \in List, NEW m \in List, l # m, y_list[l] # D12!None,
         NEW h, h = y_list[l].command_buffer
  PROVE  /\ OfList(y_list[m], DOMAIN y_cb \ {h}) = OfList(y_list[m], DOMAIN y_cb)
         /\ h \in DOMAIN y_cb /\ y_list[m] # D12!None => y_list[m].command_buffer # h
<1>1. Own12[l] \cap Own12[m] = {}
  BY Facts12, Slots12
<1>2. h \in DOMAIN y_cb => h \in Own12[l]
  BY ZenonT(60), Own12At DEF OfList
<1>3. ASSUME h \in DOMAIN y_cb, y_list[m] # D12!None, y_list[m].command_buffer = h
      PROVE  FALSE
  <2>1. h \in Own12[m]
    BY ZenonT(60), <1>3, Own12At DEF OfList
  <2> QED
    BY <1>1, <1>2, <1>3, <2>1
<1> QED
  BY <1>3 DEF OfList

\* The buffers without one, and with a new one in its place.
LEMMA Removed12 ==
  ASSUME Inv12, NEW h, y_cb' = D12!Without(y_cb, {h})
  PROVE  /\ y_cb' \in [DOMAIN y_cb' -> Buffers12]
         /\ \A g \in DOMAIN y_cb' : \/ g \in DOMAIN y_cb /\ y_cb'[g] = y_cb[g]
                                    \/ DOMAIN y_cb'[g].commands = {}
         /\ DOMAIN y_cb' = DOMAIN y_cb \ {h}
<1>1. y_cb \in [DOMAIN y_cb -> Buffers12]
  BY DEF Inv12, Types12
<1> QED
  BY <1>1 DEF D12!Without

LEMMA Replaced12 ==
  ASSUME Inv12, NEW h, NEW b \in Buffers12, DOMAIN b.commands = {},
         y_cb' = D12!With(D12!Without(y_cb, {h}), y_next, b)
  PROVE  /\ y_cb' \in [DOMAIN y_cb' -> Buffers12]
         /\ \A g \in DOMAIN y_cb' : \/ g \in DOMAIN y_cb /\ y_cb'[g] = y_cb[g]
                                    \/ DOMAIN y_cb'[g].commands = {}
         /\ DOMAIN y_cb' = (DOMAIN y_cb \ {h}) \cup {y_next}
<1>1. y_cb \in [DOMAIN y_cb -> Buffers12]
  BY DEF Inv12, Types12
<1>2. PICK f : f = D12!Without(y_cb, {h})
  OBVIOUS
<1>3. DOMAIN f = DOMAIN y_cb \ {h} /\ \A g \in DOMAIN f : f[g] = y_cb[g]
  BY <1>2 DEF D12!Without
<1>4. y_cb' = [g \in DOMAIN f \cup {y_next} |-> IF g = y_next THEN b ELSE f[g]]
  BY <1>2 DEF D12!With
<1>5. /\ DOMAIN y_cb' = DOMAIN f \cup {y_next} /\ y_cb'[y_next] = b
      /\ \A g \in DOMAIN f : g # y_next => y_cb'[g] = f[g]
  BY <1>4
<1>6. \A g \in DOMAIN y_cb' : y_cb'[g] \in Buffers12
  BY <1>1, <1>3, <1>5
<1>7. y_cb' \in [DOMAIN y_cb' -> Buffers12]
  BY <1>4, <1>6
<1>8. \A g \in DOMAIN y_cb' : \/ g \in DOMAIN y_cb /\ y_cb'[g] = y_cb[g]
                              \/ DOMAIN y_cb'[g].commands = {}
  BY <1>3, <1>5
<1> QED
  BY <1>3, <1>5, <1>7, <1>8

\* A list is given a new allocator: the pools after it.
LEMMA PoolLinks12 ==
  ASSUME Inv12, NEW l \in List, y_list[l] # D12!None, NEW old, old = y_list[l].allocator,
         NEW a \in Allocator, D12!Live(a), NEW D,
         y_list'[l] # D12!None, y_list'[l].allocator = a,
         \A m \in List : m # l => y_list'[m] = y_list[m],
         y_pool[old] # 0,
         D = {} <=> D12!Live(old) \/ UsesPool(old)',
         y_pool'[old] = IF D = {} THEN y_pool[old] ELSE 0,
         \A b \in Allocator : b # old => y_pool'[b] = y_pool[b],
         UNCHANGED <<y_res, y_heap>>, UNCHANGED y_ref
  PROVE  Links12'
<1>1. ASSUME NEW b \in Allocator
      PROVE  y_pool'[b] # 0 <=> y_ref'[b] > 0 \/ UsesPool(b)'
  <2>1. CASE b = old
    BY <2>1 DEF D12!Live
  <2>2. CASE b # old
    <3>1. UsesPool(b)' <=> UsesPool(b) \/ b = a
      BY <2>2 DEF UsesPool
    <3>2. b = a => y_pool[b] # 0
      BY DEF Inv12, Links12
    <3>3. y_pool'[b] = y_pool[b]
      BY <2>2
    <3> QED
      BY <3>1, <3>2, <3>3 DEF Inv12, Links12, D12!Live
  <2> QED
    BY <2>1, <2>2
<1>2. \A m \in List : y_ref'[m] > 0 <=> y_list'[m] # D12!None
  BY DEF Inv12, Links12, D12!Live
<1> QED
  BY <1>1, <1>2, ListLinks12

\* A list gets the new buffer b from allocator a's pool: reset, whole or not begun.
LEMMA Renewed12 ==
  ASSUME Inv12, UNCHANGED y_ref, NEW l \in List, NEW a \in Allocator, D12!Live(a), D12!Usable(l),
         NEW old, old = y_list[l].allocator, NEW h, h = y_list[l].command_buffer,
         NEW v \in Lists12Of, v.allocator = a, v.command_buffer = y_next,
         NEW ls, ls = [y_list EXCEPT ![l] = v],
         NEW D, D = D12!DropPool(old, D12!Live(old), ls),
         NEW b \in Buffers12, DOMAIN b.commands = {},
         D12!Vk(1, {h} \cup D, {}),
         y_list' = ls,
         y_pool' = [y_pool EXCEPT ![old] = IF D = {} THEN y_pool[old] ELSE 0],
         y_cb' = D12!With(D12!Without(y_cb, {h}), y_next, b),
         UNCHANGED <<y_res, y_heap, y_root, y_pso, y_layout, y_state, y_dangling>>
  PROVE  Inv12'
<1>1. old = y_list[l].allocator
  OBVIOUS
<1>2. h = y_list[l].command_buffer
  OBVIOUS
<1>4. D12!Usable(l) /\ y_list[l] # D12!None /\ h \in DOMAIN y_cb
  BY <1>2 DEF D12!Usable
<1>5. y_list \in [List -> Lists12Of \cup {D12!None}] /\ y_list[l] \in Lists12Of
      /\ old \in Allocator /\ y_pool \in [Allocator -> Nat]
  BY <1>1, <1>4, Named12 DEF Inv12, Types12
<1>6. ls = [y_list EXCEPT ![l] = v]
  OBVIOUS
<1>8. D = D12!DropPool(old, D12!Live(old), ls)
  OBVIOUS
<1>9. /\ D12!Vk(1, {h} \cup D, {})
      /\ y_list' = ls
      /\ y_pool' = [y_pool EXCEPT ![old] = IF D = {} THEN y_pool[old] ELSE 0]
      /\ y_cb' = D12!With(D12!Without(y_cb, {h}), y_next, b)
      /\ UNCHANGED <<y_res, y_heap, y_root, y_pso, y_layout, y_state, y_dangling>>
  OBVIOUS
<1>10. y_next \in Nat \ {0} /\ DOMAIN y_cb \subseteq y_live /\ y_next \notin y_live
  BY Facts12
<1>11. v \in Lists12Of /\ v # D12!None /\ v.allocator = a /\ v.command_buffer = y_next
  BY NotNone12
<1>12. /\ y_list' \in [List -> Lists12Of \cup {D12!None}]
       /\ y_list'[l] = v /\ \A m \in List : m # l => y_list'[m] = y_list[m]
  BY <1>6, <1>9, <1>11, ListSlot12
<1>13. /\ y_cb' \in [DOMAIN y_cb' -> Buffers12]
       /\ DOMAIN y_cb' = (DOMAIN y_cb \ {h}) \cup {y_next}
       /\ \A g \in DOMAIN y_cb' : \/ g \in DOMAIN y_cb /\ y_cb'[g] = y_cb[g]
                                  \/ DOMAIN y_cb'[g].commands = {}
  BY <1>9, <1>10, Replaced12
<1>14. /\ y_pool[old] # 0 /\ D \in {{}, {y_pool[old]}}
       /\ D = {} <=> D12!Live(old) \/ UsesPool(old)'
       /\ y_pool' \in [Allocator -> Nat]
       /\ y_pool'[old] = IF D = {} THEN y_pool[old] ELSE 0
       /\ \A c \in Allocator : c # old => y_pool'[c] = y_pool[c]
       /\ Own12[old] = {y_pool[old]} /\ Own12'[old] = {y_pool[old]} \ D
  <2>1. UsesPool(old)' <=> \E m \in List : ls[m] # D12!None /\ ls[m].allocator = old
    BY <1>9 DEF UsesPool
  <2>2. D = IF D12!Live(old) \/ UsesPool(old)' THEN {} ELSE {y_pool[old]} \ {0}
    BY <1>8, <2>1 DEF D12!DropPool, D12!PoolUser, D12!Null
  <2> QED
    BY <1>1, <1>4, <1>9, <2>2, DropPool12
<1>15. Owners12' /\ Gone12
  <2>1. Own12[l] = {h} \cap DOMAIN y_cb
    BY <1>2, <1>4, Own12At DEF OfList
  <2>2. Own12'[l] = y_next .. (y_next + 1 - 1)
    <3>1. Own12'[l] = {y_next}
      BY <1>11, <1>12, <1>13, Own12AtNext DEF OfList
    <3> QED
      BY <1>10, <3>1
  <2>3. \A p \in Owner12 : p # l /\ p # old => Own12'[p] = Own12[p]
    <3>1. ASSUME NEW m \in List, m # l
          PROVE  OfList(y_list'[m], DOMAIN y_cb') = OfList(y_list[m], DOMAIN y_cb)
      <4>1. OfList(y_list[m], DOMAIN y_cb \ {h}) = OfList(y_list[m], DOMAIN y_cb)
        BY <1>2, <1>4, <3>1, Apart12
      <4>2. y_list[m] # D12!None => y_list[m].command_buffer # y_next
        BY Named12
      <4>3. OfList(y_list[m], (DOMAIN y_cb \ {h}) \cup {y_next}) = OfList(y_list[m], DOMAIN y_cb \ {h})
        BY <4>2 DEF OfList
      <4> QED
        BY <1>12, <1>13, <3>1, <4>1, <4>3
    <3>2. ASSUME NEW p \in Owner12, p # l, p # old
          PROVE  Own12'[p] = Own12[p]
      <4>1. CASE p \in List
        <5>1. Own12[p] = OfList(y_list[p], DOMAIN y_cb)
          BY <4>1, Own12At
        <5>2. Own12'[p] = OfList(y_list'[p], DOMAIN y_cb')
          BY <4>1, Own12AtNext
        <5> QED
          BY <3>1, <3>2, <4>1, <5>1, <5>2
      <4>2. CASE p \in Allocator
        <5>1. Own12[p] = {y_pool[p]} \ {0} /\ Own12'[p] = {y_pool'[p]} \ {0}
          BY <4>2, Own12At, Own12AtNext
        <5>2. y_pool'[p] = y_pool[p]
          BY <1>14, <3>2, <4>2
        <5> QED
          BY <5>1, <5>2
      <4>3. CASE p \notin List /\ p \notin Allocator
        BY <1>9, <4>3 DEF Own12
      <4> QED
        BY <4>1, <4>2, <4>3
    <3> QED
      BY <3>2
  <2>4. h \in y_live \cup y_dangling
    BY <1>4, <1>10
  <2>5. D \subseteq Own12[old] /\ Own12'[old] = Own12[old] \ D
    BY <1>14
  <2>6. y_dangling \subseteq y_dangling' /\ y_dangling' \subseteq y_dangling \cup {h}
    BY <1>9
  <2>7. 1 \in Nat
    OBVIOUS
  <2>8. D12!Vk(1, {h} \cup D, {})
    BY <1>9
  <2> QED
    BY ZenonT(60), <1>4, <1>5, <2>1, <2>2, <2>3, <2>4, <2>5, <2>6, <2>7, <2>8, LetGo12
<1>16. y_next' \in Nat /\ y_next <= y_next'
  BY <1>9, <1>10 DEF D12!Vk
<1>17. Types12'
  BY <1>9, <1>12, <1>13, <1>14 DEF Inv12, Types12
<1>18. Links12'
  <2>1. y_list'[l] # D12!None /\ y_list'[l].allocator = a
    BY <1>11, <1>12
  <2>2. UNCHANGED <<y_res, y_heap>>
    BY <1>9
  <2>3. \A m \in List : m # l => y_list'[m] = y_list[m]
    BY <1>12
  <2>4. y_pool[old] # 0 /\ (D = {} <=> D12!Live(old) \/ UsesPool(old)')
    BY <1>14
  <2>5. /\ y_pool'[old] = IF D = {} THEN y_pool[old] ELSE 0
        /\ \A c \in Allocator : c # old => y_pool'[c] = y_pool[c]
    BY <1>14
  <2>6. ASSUME NEW c \in Allocator
        PROVE  y_pool'[c] # 0 <=> y_ref'[c] > 0 \/ UsesPool(c)'
    <3>1. y_ref' = y_ref /\ (y_pool[c] # 0 <=> y_ref[c] > 0 \/ UsesPool(c))
      BY DEF Inv12, Links12, D12!Live
    <3>2. CASE c = old
      BY <2>4, <2>5, <3>1, <3>2 DEF D12!Live
    <3>3. CASE c # old
      <4>1. UsesPool(c)' <=> UsesPool(c) \/ c = a
        BY <1>1, <2>1, <2>3, <3>3 DEF UsesPool
      <4>2. c = a => y_pool[c] # 0
        BY <3>1 DEF D12!Live
      <4> QED
        BY <2>5, <3>1, <3>3, <4>1, <4>2
    <3> QED
      BY <3>2, <3>3
  <2>7. \A m \in List : y_ref'[m] > 0 <=> y_list'[m] # D12!None
    BY <1>4, <2>1, <2>3 DEF Inv12, Links12, D12!Live
  <2>8. \A o \in Resource \cup {"heap"} : y_ref'[o] = y_ref[o]
    OBVIOUS
  <2> QED
    BY <2>2, <2>6, <2>7, <2>8, ListLinks12
<1>19. Buffered12'
  <2>1. ASSUME NEW m \in List, y_list'[m] # D12!None
        PROVE  y_list'[m].command_buffer \in DOMAIN y_cb' \cup y_dangling'
    <3>1. CASE m = l
      BY <1>11, <1>12, <1>13, <3>1
    <3>2. CASE m # l
      <4>1. y_list'[m] = y_list[m] /\ y_list[m] # D12!None
        BY <1>12, <2>1, <3>2
      <4>2. y_list[m].command_buffer # h
        BY <1>2, <1>4, <3>2, <4>1, Apart12
      <4> QED
        BY <1>9, <1>13, <4>1, <4>2 DEF Inv12, Buffered12
    <3> QED
      BY <3>1, <3>2
  <2>2. ASSUME NEW g \in DOMAIN y_cb'
        PROVE  \E m \in List : y_list'[m] # D12!None /\ y_list'[m].command_buffer = g
    <3>1. CASE g = y_next
      BY <1>11, <1>12, <3>1
    <3>2. CASE g \in DOMAIN y_cb /\ g # h
      <4>1. PICK m \in List : y_list[m] # D12!None /\ y_list[m].command_buffer = g
        BY <3>2 DEF Inv12, Buffered12
      <4>2. m # l
        BY <1>2, <3>2, <4>1
      <4> QED
        BY <1>12, <4>1, <4>2
    <3> QED
      BY <1>13, <3>1, <3>2
  <2> QED
    BY <2>1, <2>2 DEF Buffered12
<1>20. Recorded12'
  <2>1. Handles12' = Handles12
    BY <1>9 DEF Handles12
  <2> QED
    BY <1>9, <1>13, <1>15, <2>1, Recorded12Change DEF Inv12
<1> QED
  BY <1>9, <1>15, <1>16, <1>17, <1>18, <1>19, <1>20, ListStep12

LEMMA Reset12 ==
  ASSUME Inv12, UNCHANGED y_ref, NEW l \in List, NEW a \in Allocator, D12!Live(a),
         \/ D12!reset(l, a, D12!Live(y_list[l].allocator))
         \/ D12!reset_not_begun(l, a, D12!Live(y_list[l].allocator))
  PROVE  Inv12'
<1>1. PICK old : old = y_list[l].allocator
  OBVIOUS
<1>2. PICK h : h = y_list[l].command_buffer
  OBVIOUS
<1>3. D12!Usable(l) /\ y_list[l] # D12!None
  BY DEF D12!reset, D12!reset_not_begun, D12!Usable
<1>4. y_list[l] \in Lists12Of
  BY <1>3, Named12 DEF Inv12, Types12
<1>5. y_next \in Nat
  BY Facts12
<1>6. CASE D12!reset(l, a, D12!Live(y_list[l].allocator))
  <2>1. PICK v : v = [y_list[l] EXCEPT !.allocator = a, !.command_buffer = y_next,
                                       !.target = D12!Empty, !.pipeline = D12!NoPso,
                                       !.recording = TRUE, !.closed = FALSE]
    OBVIOUS
  <2>2. D12!Empty \in Descriptors12 /\ D12!NoPso \in [pipeline : Nat, render_pass : Nat]
    BY NotNone12
  <2>3. v \in Lists12Of /\ v.allocator = a /\ v.command_buffer = y_next
    BY <1>4, <1>5, <2>1, <2>2 DEF Lists12Of
  <2>4. PICK ls : ls = [y_list EXCEPT ![l] = v]
    OBVIOUS
  <2>5. ls = [y_list EXCEPT ![l] = [@ EXCEPT !.allocator = a, !.command_buffer = y_next,
                                             !.target = D12!Empty, !.pipeline = D12!NoPso,
                                             !.recording = TRUE, !.closed = FALSE]]
    BY <2>1, <2>4
  <2>6. PICK D : D = D12!DropPool(old, D12!Live(old), ls)
    OBVIOUS
  <2>7. /\ D12!Vk(1, {h} \cup D, {})
        /\ y_list' = ls
        /\ y_pool' = [y_pool EXCEPT ![old] = IF D = {} THEN y_pool[old] ELSE 0]
        /\ y_cb' = D12!With(D12!Without(y_cb, {h}), y_next, D12!Recording)
        /\ UNCHANGED <<y_res, y_heap, y_root, y_pso, y_layout, y_state, y_dangling>>
    BY <1>1, <1>2, <1>6, <2>5, <2>6 DEF D12!reset, D12!Null
  <2>8. D12!Recording \in Buffers12 /\ DOMAIN D12!Recording.commands = {}
    BY Fresh12
  <2> QED
    BY ZenonT(60), <1>1, <1>2, <1>3, <2>3, <2>4, <2>6, <2>7, <2>8, Renewed12
<1>7. CASE D12!reset_not_begun(l, a, D12!Live(y_list[l].allocator))
  <2>1. PICK v : v = [y_list[l] EXCEPT !.allocator = a, !.command_buffer = y_next]
    OBVIOUS
  <2>3. v \in Lists12Of /\ v.allocator = a /\ v.command_buffer = y_next
    BY <1>4, <1>5, <2>1 DEF Lists12Of
  <2>4. PICK ls : ls = [y_list EXCEPT ![l] = v]
    OBVIOUS
  <2>5. ls = [y_list EXCEPT ![l] = [@ EXCEPT !.allocator = a, !.command_buffer = y_next]]
    BY <2>1, <2>4
  <2>6. PICK D : D = D12!DropPool(old, D12!Live(old), ls)
    OBVIOUS
  <2>7. /\ D12!Vk(1, {h} \cup D, {})
        /\ y_list' = ls
        /\ y_pool' = [y_pool EXCEPT ![old] = IF D = {} THEN y_pool[old] ELSE 0]
        /\ y_cb' = D12!With(D12!Without(y_cb, {h}), y_next, D12!Spent(D12!Recording))
        /\ UNCHANGED <<y_res, y_heap, y_root, y_pso, y_layout, y_state, y_dangling>>
    BY <1>1, <1>2, <1>7, <2>5, <2>6 DEF D12!reset_not_begun, D12!Null
  <2>8. PICK b : b = D12!Spent(D12!Recording)
    OBVIOUS
  <2>9. b \in Buffers12 /\ DOMAIN b.commands = {}
    BY <2>8, Fresh12, Spent12
  <2>10. /\ D12!Vk(1, {h} \cup D, {})
         /\ y_list' = ls
         /\ y_pool' = [y_pool EXCEPT ![old] = IF D = {} THEN y_pool[old] ELSE 0]
         /\ y_cb' = D12!With(D12!Without(y_cb, {h}), y_next, b)
         /\ UNCHANGED <<y_res, y_heap, y_root, y_pso, y_layout, y_state, y_dangling>>
    BY <2>7, <2>8
  <2> QED
    BY ZenonT(60), <1>1, <1>2, <1>3, <2>3, <2>4, <2>6, <2>9, <2>10, Renewed12
<1> QED
  BY <1>6, <1>7

\* The owners but a list and an allocator.
LEMMA OtherOwners12 ==
  ASSUME Inv12, NEW l \in List, NEW a \in Allocator, y_list[l] # D12!None,
         NEW h, h = y_list[l].command_buffer,
         DOMAIN y_cb' = DOMAIN y_cb \ {h},
         \A m \in List : m # l => y_list'[m] = y_list[m],
         \A b \in Allocator : b # a => y_pool'[b] = y_pool[b],
         UNCHANGED <<y_res, y_heap, y_root, y_pso>>
  PROVE  \A p \in Owner12 : p # l /\ p # a => Own12'[p] = Own12[p]
<1>1. SUFFICES ASSUME NEW p \in Owner12, p # l, p # a
               PROVE  Own12'[p] = Own12[p]
  OBVIOUS
<1>2. CASE p \in List
  <2>1. OfList(y_list[p], DOMAIN y_cb \ {h}) = OfList(y_list[p], DOMAIN y_cb)
    BY <1>1, <1>2, Apart12
  <2>2. Own12[p] = OfList(y_list[p], DOMAIN y_cb) /\ Own12'[p] = OfList(y_list'[p], DOMAIN y_cb')
    BY <1>2, Own12At, Own12AtNext
  <2> QED
    BY <1>1, <1>2, <2>1, <2>2
<1>3. CASE p \in Allocator
  <2>1. Own12[p] = {y_pool[p]} \ {0} /\ Own12'[p] = {y_pool'[p]} \ {0}
    BY <1>3, Own12At, Own12AtNext
  <2>2. y_pool'[p] = y_pool[p]
    BY <1>1, <1>3
  <2> QED
    BY <2>1, <2>2
<1>4. CASE p \notin List /\ p \notin Allocator
  BY <1>4 DEF Own12
<1> QED
  BY <1>2, <1>3, <1>4

LEMMA ResetFailed12 ==
  ASSUME Inv12, UNCHANGED y_ref, NEW l \in List, NEW a \in Allocator, D12!Live(a),
         D12!reset_failed(l, a, D12!Live(y_list[l].allocator))
  PROVE  Inv12'
<1>1. PICK old : old = y_list[l].allocator
  OBVIOUS
<1>2. PICK h : h = y_list[l].command_buffer
  OBVIOUS
<1>3. PICK v : v = [y_list[l] EXCEPT !.allocator = a]
  OBVIOUS
<1>4. D12!Usable(l) /\ y_list[l] # D12!None /\ h \in DOMAIN y_cb
  BY <1>2 DEF D12!reset_failed, D12!Usable
<1>5. y_list \in [List -> Lists12Of \cup {D12!None}] /\ y_list[l] \in Lists12Of
      /\ old \in Allocator /\ y_pool \in [Allocator -> Nat]
  BY <1>1, <1>4, Named12 DEF Inv12, Types12
<1>6. PICK ls : ls = [y_list EXCEPT ![l] = v]
  OBVIOUS
<1>7. ls = [y_list EXCEPT ![l].allocator = a]
  BY <1>3, <1>5, <1>6
<1>8. PICK D : D = D12!DropPool(old, D12!Live(old), ls)
  OBVIOUS
<1>9. /\ D12!Vk(0, {h} \cup D, {})
      /\ y_list' = ls
      /\ y_pool' = [y_pool EXCEPT ![old] = IF D = {} THEN y_pool[old] ELSE 0]
      /\ y_cb' = D12!Without(y_cb, {h})
      /\ y_dangling' = y_dangling \cup {h}
      /\ UNCHANGED <<y_res, y_heap, y_root, y_pso, y_layout, y_state>>
  BY <1>1, <1>2, <1>5, <1>7, <1>8 DEF D12!reset_failed, D12!Null, D12!VkDestroy
<1>10. y_next \in Nat \ {0} /\ DOMAIN y_cb \subseteq y_live
  BY Facts12
<1>11. v \in Lists12Of /\ v # D12!None /\ v.allocator = a /\ v.command_buffer = h
  <2>1. v \in Lists12Of
    BY <1>3, <1>5 DEF Lists12Of
  <2>2. v.allocator = a /\ v.command_buffer = h
    BY <1>2, <1>3, <1>5 DEF Lists12Of
  <2> QED
    BY <2>1, <2>2, NotNone12
<1>12. /\ y_list' \in [List -> Lists12Of \cup {D12!None}]
       /\ y_list'[l] = v /\ \A m \in List : m # l => y_list'[m] = y_list[m]
  BY <1>6, <1>9, <1>11, ListSlot12
<1>13. /\ y_cb' \in [DOMAIN y_cb' -> Buffers12]
       /\ DOMAIN y_cb' = DOMAIN y_cb \ {h}
       /\ \A g \in DOMAIN y_cb' : \/ g \in DOMAIN y_cb /\ y_cb'[g] = y_cb[g]
                                  \/ DOMAIN y_cb'[g].commands = {}
  BY <1>9, Removed12
<1>14. /\ y_pool[old] # 0 /\ D \in {{}, {y_pool[old]}}
       /\ D = {} <=> D12!Live(old) \/ UsesPool(old)'
       /\ y_pool' \in [Allocator -> Nat]
       /\ y_pool'[old] = IF D = {} THEN y_pool[old] ELSE 0
       /\ \A b \in Allocator : b # old => y_pool'[b] = y_pool[b]
       /\ Own12[old] = {y_pool[old]} /\ Own12'[old] = {y_pool[old]} \ D
  <2>1. UsesPool(old)' <=> \E m \in List : ls[m] # D12!None /\ ls[m].allocator = old
    BY <1>9 DEF UsesPool
  <2>2. D = IF D12!Live(old) \/ UsesPool(old)' THEN {} ELSE {y_pool[old]} \ {0}
    BY <1>8, <2>1 DEF D12!DropPool, D12!PoolUser, D12!Null
  <2>3. y_pool' = [y_pool EXCEPT ![old] = IF D = {} THEN y_pool[old] ELSE 0]
    BY <1>9
  <2> QED
    BY <1>1, <1>4, <2>2, <2>3, DropPool12
<1>15. Owners12' /\ Gone12
  <2>1. Own12[l] = {h} \cap DOMAIN y_cb
    BY <1>2, <1>4, Own12At DEF OfList
  <2>2. Own12'[l] = y_next .. (y_next + 0 - 1)
    <3>1. Own12'[l] = {}
      BY <1>11, <1>12, <1>13, Own12AtNext DEF OfList
    <3> QED
      BY <1>10, <3>1
  <2>3. \A p \in Owner12 : p # l /\ p # old => Own12'[p] = Own12[p]
    <3>1. /\ DOMAIN y_cb' = DOMAIN y_cb \ {h}
          /\ \A m \in List : m # l => y_list'[m] = y_list[m]
          /\ \A b \in Allocator : b # old => y_pool'[b] = y_pool[b]
      BY <1>12, <1>13, <1>14
    <3>2. UNCHANGED <<y_res, y_heap, y_root, y_pso>>
      BY <1>9
    <3> QED
      BY <1>2, <1>4, <1>5, <3>1, <3>2, OtherOwners12
  <2>4. h \in y_live \cup y_dangling
    BY <1>4, <1>10
  <2>5. D \subseteq Own12[old] /\ Own12'[old] = Own12[old] \ D
    BY <1>14
  <2> QED
    BY <1>4, <1>5, <1>9, <2>1, <2>2, <2>3, <2>4, <2>5, LetGo12
<1>16. y_next' \in Nat /\ y_next <= y_next'
  BY <1>9, <1>10 DEF D12!Vk
<1>17. Types12'
  BY <1>9, <1>12, <1>13, <1>14 DEF Inv12, Types12
<1>18. Links12'
  BY <1>1, <1>4, <1>9, <1>11, <1>12, <1>14, PoolLinks12
<1>19. Buffered12'
  <2>1. ASSUME NEW m \in List, y_list'[m] # D12!None
        PROVE  y_list'[m].command_buffer \in DOMAIN y_cb' \cup y_dangling'
    <3>1. CASE m = l
      BY <1>9, <1>11, <1>12, <3>1
    <3>2. CASE m # l
      <4>1. y_list'[m] = y_list[m] /\ y_list[m] # D12!None
        BY <1>12, <2>1, <3>2
      <4> QED
        BY <1>9, <1>13, <4>1 DEF Inv12, Buffered12
    <3> QED
      BY <3>1, <3>2
  <2>2. ASSUME NEW g \in DOMAIN y_cb'
        PROVE  \E m \in List : y_list'[m] # D12!None /\ y_list'[m].command_buffer = g
    <3>1. PICK m \in List : y_list[m] # D12!None /\ y_list[m].command_buffer = g
      BY <1>13 DEF Inv12, Buffered12
    <3>2. m # l
      BY <1>2, <1>13, <3>1
    <3> QED
      BY <1>12, <3>1, <3>2
  <2> QED
    BY <2>1, <2>2 DEF Buffered12
<1>20. Recorded12'
  <2>1. Handles12' = Handles12
    BY <1>9 DEF Handles12
  <2> QED
    BY <1>9, <1>13, <1>15, <2>1, Recorded12Change DEF Inv12
<1> QED
  BY <1>9, <1>15, <1>16, <1>17, <1>18, <1>19, <1>20, ListStep12

LEMMA DropList12 ==
  ASSUME Inv12, NEW l \in List, y_ref[l] > 0, y_ref' = [y_ref EXCEPT ![l] = 0],
         D12!drop_list(l, D12!Live(y_list[l].allocator))
  PROVE  Inv12'
<1>1. PICK old : old = y_list[l].allocator
  OBVIOUS
<1>2. PICK h : h = y_list[l].command_buffer
  OBVIOUS
<1>3. y_list[l] # D12!None
  BY DEF Inv12, Links12, D12!Live
<1>4. y_list \in [List -> Lists12Of \cup {D12!None}]
      /\ old \in Allocator /\ y_pool \in [Allocator -> Nat] /\ y_ref \in [D12!Object -> Nat]
      /\ h \in y_live \cup y_dangling
  BY <1>1, <1>2, <1>3, Named12 DEF Inv12, Types12
<1>5. PICK ls : ls = [y_list EXCEPT ![l] = D12!None]
  OBVIOUS
<1>6. PICK D : D = D12!DropPool(old, D12!Live(old), ls)
  OBVIOUS
<1>7. /\ D12!Vk(0, {h} \cup D, {})
      /\ y_list' = ls
      /\ y_pool' = [y_pool EXCEPT ![old] = IF D = {} THEN y_pool[old] ELSE 0]
      /\ y_cb' = D12!Without(y_cb, {h})
      /\ UNCHANGED <<y_res, y_heap, y_root, y_pso, y_layout, y_state, y_dangling>>
  BY <1>1, <1>2, <1>4, <1>5, <1>6 DEF D12!drop_list, D12!Null, D12!VkDestroy
<1>8. y_next \in Nat \ {0} /\ DOMAIN y_cb \subseteq y_live
  BY Facts12
<1>9. /\ y_list' \in [List -> Lists12Of \cup {D12!None}]
      /\ y_list'[l] = D12!None /\ \A m \in List : m # l => y_list'[m] = y_list[m]
  BY <1>5, <1>7, ListSlot12
<1>10. /\ y_cb' \in [DOMAIN y_cb' -> Buffers12]
       /\ DOMAIN y_cb' = DOMAIN y_cb \ {h}
       /\ \A g \in DOMAIN y_cb' : \/ g \in DOMAIN y_cb /\ y_cb'[g] = y_cb[g]
                                  \/ DOMAIN y_cb'[g].commands = {}
  BY <1>7, Removed12
<1>11. /\ y_pool[old] # 0 /\ D \in {{}, {y_pool[old]}}
       /\ D = {} <=> D12!Live(old) \/ UsesPool(old)'
       /\ y_pool' \in [Allocator -> Nat]
       /\ y_pool'[old] = IF D = {} THEN y_pool[old] ELSE 0
       /\ \A b \in Allocator : b # old => y_pool'[b] = y_pool[b]
       /\ Own12[old] = {y_pool[old]} /\ Own12'[old] = {y_pool[old]} \ D
  <2>1. UsesPool(old)' <=> \E m \in List : ls[m] # D12!None /\ ls[m].allocator = old
    BY <1>7 DEF UsesPool
  <2>2. D = IF D12!Live(old) \/ UsesPool(old)' THEN {} ELSE {y_pool[old]} \ {0}
    BY <1>6, <2>1 DEF D12!DropPool, D12!PoolUser, D12!Null
  <2>3. y_pool' = [y_pool EXCEPT ![old] = IF D = {} THEN y_pool[old] ELSE 0]
    BY <1>7
  <2> QED
    BY SMTT(30), <1>1, <1>3, <2>2, <2>3, DropPool12
<1>12. /\ y_ref' \in [D12!Object -> Nat] /\ y_ref'[l] = 0
       /\ \A p \in D12!Object : p # l => y_ref'[p] = y_ref[p]
  BY <1>4, Slots12
<1>13. Owners12' /\ Gone12
  <2>1. Own12[l] = {h} \cap DOMAIN y_cb
    BY <1>2, <1>3, Own12At DEF OfList
  <2>2. Own12'[l] = y_next .. (y_next + 0 - 1)
    <3>1. Own12'[l] = {}
      BY <1>9, Own12AtNext DEF OfList
    <3> QED
      BY <1>8, <3>1
  <2>3. \A p \in Owner12 : p # l /\ p # old => Own12'[p] = Own12[p]
    <3>1. /\ DOMAIN y_cb' = DOMAIN y_cb \ {h}
          /\ \A m \in List : m # l => y_list'[m] = y_list[m]
          /\ \A b \in Allocator : b # old => y_pool'[b] = y_pool[b]
      BY <1>9, <1>10, <1>11
    <3>2. UNCHANGED <<y_res, y_heap, y_root, y_pso>>
      BY <1>7
    <3> QED
      BY <1>2, <1>3, <1>4, <3>1, <3>2, OtherOwners12
  <2>4. h \in DOMAIN y_cb \/ h \notin y_live
    BY <1>2, <1>3 DEF Inv12, Buffered12, Owners12
  <2>5. D \subseteq Own12[old] /\ Own12'[old] = Own12[old] \ D
    BY <1>11
  <2> QED
    BY <1>4, <1>7, <2>1, <2>2, <2>3, <2>4, <2>5, LetGo12
<1>14. y_next' \in Nat /\ y_next <= y_next'
  BY <1>7, <1>8 DEF D12!Vk
<1>15. Types12'
  BY <1>7, <1>9, <1>10, <1>11, <1>12 DEF Inv12, Types12
<1>16. Links12'
  <2>1. \A o \in Resource \cup Allocator \cup {"heap"} : y_ref'[o] = y_ref[o]
    BY <1>12, Slots12
  <2>2. \A m \in List : y_ref'[m] > 0 <=> y_list'[m] # D12!None
    BY <1>9, <1>12, Slots12 DEF Inv12, Links12, D12!Live
  <2>3. ASSUME NEW b \in Allocator
        PROVE  y_pool'[b] # 0 <=> y_ref'[b] > 0 \/ UsesPool(b)'
    <3>1. CASE b = old
      BY <1>11, <2>1, <3>1 DEF D12!Live
    <3>2. CASE b # old
      <4>1. UsesPool(b)' <=> UsesPool(b)
        BY <1>1, <1>9, <3>2 DEF UsesPool
      <4>2. y_pool'[b] = y_pool[b] /\ y_ref'[b] = y_ref[b]
        BY <1>11, <2>1, <3>2
      <4> QED
        BY <4>1, <4>2 DEF Inv12, Links12, D12!Live
    <3> QED
      BY <3>1, <3>2
  <2> QED
    BY <1>7, <2>1, <2>2, <2>3, ListLinks12
<1>17. Buffered12'
  <2>1. ASSUME NEW m \in List, y_list'[m] # D12!None
        PROVE  y_list'[m].command_buffer \in DOMAIN y_cb' \cup y_dangling'
    <3>1. m # l
      BY <1>9, <2>1
    <3>2. y_list'[m] = y_list[m] /\ y_list[m] # D12!None
      BY <1>9, <2>1, <3>1
    <3>3. h \in DOMAIN y_cb => y_list[m].command_buffer # h
      BY <1>2, <1>3, <3>1, <3>2, Apart12
    <3> QED
      BY <1>7, <1>10, <3>2, <3>3 DEF Inv12, Buffered12
  <2>2. ASSUME NEW g \in DOMAIN y_cb'
        PROVE  \E m \in List : y_list'[m] # D12!None /\ y_list'[m].command_buffer = g
    <3>1. PICK m \in List : y_list[m] # D12!None /\ y_list[m].command_buffer = g
      BY <1>10 DEF Inv12, Buffered12
    <3>2. m # l
      BY <1>2, <1>10, <3>1
    <3> QED
      BY <1>9, <3>1, <3>2
  <2> QED
    BY <2>1, <2>2 DEF Buffered12
<1>18. Recorded12'
  <2>1. Handles12' = Handles12
    BY <1>7 DEF Handles12
  <2> QED
    BY <1>7, <1>10, <1>13, <2>1, Recorded12Change DEF Inv12
<1> QED
  BY <1>7, <1>13, <1>14, <1>15, <1>16, <1>17, <1>18, ListStep12

\* A step on what the buffers hold.
LEMMA Contents12 ==
  ASSUME Inv12, y_cb' \in [DOMAIN y_cb -> Buffers12],
         UNCHANGED <<y_live, y_next, y_twice, y_leaked>>,
         UNCHANGED <<y_res, y_heap, y_root, y_pso, y_pool, y_list, y_dangling>>,
         UNCHANGED y_ref, Known12', Recorded12'
  PROVE  Inv12'
<1>1. DOMAIN y_cb' = DOMAIN y_cb
  OBVIOUS
<1>2. \A p \in Owner12 : Own12'[p] = Own12[p]
  BY <1>1 DEF Own12
<1>3. y_next \in Nat /\ y_next <= Lists12 + 1
  BY Facts12 DEF Inv12, Owners12
<1>4. Owners12'
  BY <1>2, <1>3, Same12 DEF Inv12
<1>5. Types12'
  BY <1>1 DEF Inv12, Types12
<1>6. Links12'
  BY DEF Inv12, Links12, D12!Live, UsesPool
<1>7. Buffered12'
  BY <1>1 DEF Inv12, Buffered12
<1> QED
  BY <1>4, <1>5, <1>6, <1>7 DEF Inv12

LEMMA ResetAllocator12 ==
  ASSUME Inv12, UNCHANGED y_ref, NEW a \in Allocator, D12!reset_allocator(a)
  PROVE  Inv12'
<1> DEFINE From(h) == \E l \in List : y_list[l] # D12!None /\ y_list[l].allocator = a
                                       /\ y_list[l].command_buffer = h
<1>1. /\ y_cb' = [h \in DOMAIN y_cb |-> IF From(h) THEN D12!Spent(D12!Recording) ELSE y_cb[h]]
      /\ UNCHANGED <<y_live, y_next, y_twice, y_leaked>>
      /\ UNCHANGED <<y_res, y_heap, y_root, y_pso, y_pool, y_list, y_layout, y_state,
                     y_dangling>>
  BY DEF D12!reset_allocator, D12!vkVars
<1>2. y_cb \in [DOMAIN y_cb -> Buffers12]
  BY DEF Inv12, Types12
<1>3. D12!Spent(D12!Recording) \in Buffers12 /\ DOMAIN D12!Spent(D12!Recording).commands = {}
  BY Fresh12, Spent12
<1> HIDE DEF From
<1>4. y_cb' \in [DOMAIN y_cb -> Buffers12]
  BY <1>1, <1>2, <1>3
<1>5. \A h \in DOMAIN y_cb' : \/ h \in DOMAIN y_cb /\ y_cb'[h] = y_cb[h]
                              \/ DOMAIN y_cb'[h].commands = {}
  BY <1>1, <1>3
<1>6. y_next \in Nat
  BY Facts12
<1>7. Gone12
  BY <1>1 DEF Gone12
<1>8. Known12' /\ Handles12' = Handles12
  BY <1>1, <1>6, <1>7, Known12Step
<1>9. Recorded12'
  BY <1>1, <1>5, <1>7, <1>8, Recorded12Change DEF Inv12
<1> QED
  BY <1>1, <1>4, <1>8, <1>9, Contents12

\* What is submitted: where its commands stand and what they are.
LEMMA Position12 ==
  ASSUME Inv12, NEW ls, \A i \in DOMAIN ls : ls[i] \in List /\ D12!Usable(ls[i]),
         NEW h, NEW p \in D12!On(ls, h)
  PROVE  D12!LayoutAfter(D12!Command(ls, p)) = D12!vk_image_layout(D12!Command(ls, p).after)
<1>1. p \in D12!Position(ls)
  BY DEF D12!On
<1>2. PICK i \in DOMAIN ls : \E j \in DOMAIN D12!Recorded(ls[i]) : p = <<i, j>>
  BY <1>1 DEF D12!Position
<1>3. PICK j \in DOMAIN D12!Recorded(ls[i]) : p = <<i, j>>
  BY <1>2
<1>4. PICK g : g = y_list[ls[i]].command_buffer
  OBVIOUS
<1>5. g \in DOMAIN y_cb
  BY <1>4 DEF D12!Usable
<1>6. D12!Recorded(ls[i]) = y_cb[g].commands
  BY <1>4 DEF D12!Recorded
<1>7. D12!Command(ls, p) = y_cb[g].commands[j]
  BY <1>3, <1>6 DEF D12!Command
<1>8. CommandOk(y_cb[g].commands[j], y_cb[g].spent, Handles12, y_live, y_next)
  BY <1>3, <1>5, <1>6 DEF Inv12, Recorded12, BufferOk
<1>9. PICK c : c = D12!Command(ls, p)
  OBVIOUS
<1>10. c.op = "clear" => c.after = "RenderTarget"
  BY <1>7, <1>8, <1>9 DEF CommandOk
<1>11. D12!LayoutAfter(c) = D12!vk_image_layout(c.after)
  <2>1. CASE c.op = "clear"
    <3>1. D12!vk_image_layout("RenderTarget") = "COLOR_ATTACHMENT"
      BY DEF D12!vk_image_layout
    <3> QED
      BY <1>10, <2>1, <3>1 DEF D12!LayoutAfter, D12!ClearLayout
  <2>2. CASE c.op # "clear"
    BY <2>2 DEF D12!LayoutAfter
  <2> QED
    BY <2>1, <2>2
<1> QED
  BY <1>9, <1>11

\* The submission leaves every image in the layout of its state.
LEMMA Submitted12 ==
  ASSUME Inv12, NEW ls, \A i \in DOMAIN ls : ls[i] \in List /\ D12!Usable(ls[i]),
         y_layout' = D12!Layouts(ls), y_state' = D12!States(ls)
  PROVE  D12!LayoutIsState' /\ DOMAIN y_layout' = DOMAIN y_layout /\ DOMAIN y_state' = DOMAIN y_state
<1>1. /\ DOMAIN y_layout' = DOMAIN y_layout /\ DOMAIN y_state' = DOMAIN y_state
      /\ DOMAIN y_layout = DOMAIN y_state
  BY DEF D12!Layouts, D12!States, Inv12, Known12
<1>2. ASSUME NEW h \in DOMAIN y_layout, y_layout'[h] # "UNDEFINED"
      PROVE  y_layout'[h] = D12!vk_image_layout(y_state'[h])
  <2>1. CASE D12!Last(D12!On(ls, h)) = {}
    <3>1. y_layout'[h] = y_layout[h] /\ y_state'[h] = y_state[h]
      BY <1>1, <2>1 DEF D12!Layouts, D12!States, D12!StateAfter
    <3> QED
      BY <1>2, <3>1 DEF Inv12, Known12, D12!LayoutIsState
  <2>2. CASE D12!Last(D12!On(ls, h)) # {}
    <3>1. PICK p : p = CHOOSE q \in D12!Last(D12!On(ls, h)) : TRUE
      OBVIOUS
    <3>2. p \in D12!Last(D12!On(ls, h))
      BY <2>2, <3>1
    <3>3. p \in D12!On(ls, h)
      BY <3>2 DEF D12!Last
    <3>4. y_layout'[h] = D12!LayoutAfter(D12!Command(ls, p))
      BY <2>2, <3>1 DEF D12!Layouts
    <3>5. y_state'[h] = D12!Command(ls, p).after
      BY <1>1, <2>2, <3>1 DEF D12!States, D12!StateAfter
    <3> QED
      BY <3>3, <3>4, <3>5, Position12
  <2> QED
    BY <2>1, <2>2
<1> QED
  BY <1>1, <1>2 DEF D12!LayoutIsState

LEMMA Execute12 ==
  ASSUME Inv12, NEW ls \in D12!Submissions, D12!OncePerRecording(ls),
         D12!queue_execute_command_lists(ls)
  PROVE  Inv12'
<1>1. \A i \in DOMAIN ls : ls[i] \in List
  BY DEF D12!Submissions
<1>2. \A i \in DOMAIN ls : /\ D12!Usable(ls[i]) /\ y_list[ls[i]].closed
                           /\ ~y_cb[y_list[ls[i]].command_buffer].spent
  BY DEF D12!OncePerRecording, D12!queue_execute_command_lists, D12!execute_command_lists,
         D12!ReadyToExecute
<1> DEFINE Sent(h) == \E i \in DOMAIN ls : y_list[ls[i]].command_buffer = h
<1>3. /\ y_layout' = D12!Layouts(ls) /\ y_state' = D12!States(ls)
      /\ y_cb' = [h \in DOMAIN y_cb |-> IF Sent(h) THEN D12!Spent(y_cb[h]) ELSE y_cb[h]]
      /\ UNCHANGED <<y_live, y_next, y_twice, y_leaked>>
      /\ UNCHANGED <<y_res, y_heap, y_root, y_pso, y_pool, y_list, y_dangling>>
      /\ UNCHANGED y_ref
  BY DEF D12!queue_execute_command_lists, D12!execute_command_lists, D12!vkVars
<1> HIDE DEF Sent
<1>4. y_cb \in [DOMAIN y_cb -> Buffers12]
  BY DEF Inv12, Types12
<1>5. /\ y_cb' \in [DOMAIN y_cb -> Buffers12]
      /\ \A h \in DOMAIN y_cb : /\ y_cb'[h].commands = y_cb[h].commands
                                /\ ~y_cb'[h].spent => ~y_cb[h].spent
  <2>1. ASSUME NEW h \in DOMAIN y_cb
        PROVE  /\ y_cb'[h] \in Buffers12 /\ y_cb'[h].commands = y_cb[h].commands
               /\ ~y_cb'[h].spent => ~y_cb[h].spent
    <3>1. y_cb[h] \in Buffers12
      BY <1>4
    <3>2. CASE Sent(h)
      <4>1. y_cb'[h] = D12!Spent(y_cb[h])
        BY <1>3, <3>2
      <4> QED
        BY <3>1, <4>1, Spent12
    <3>3. CASE ~Sent(h)
      BY <1>3, <3>1, <3>3
    <3> QED
      BY <3>2, <3>3
  <2>2. y_cb' \in [DOMAIN y_cb -> Buffers12]
    BY <1>3, <2>1
  <2> QED
    BY <2>1, <2>2
<1>6. Images12' = Images12 /\ Handles12' = Handles12
  BY <1>3 DEF Images12, Handles12
<1>7. Known12'
  <2>1. D12!LayoutIsState' /\ DOMAIN y_layout' = DOMAIN y_layout /\ DOMAIN y_state' = DOMAIN y_state
    BY <1>1, <1>2, <1>3, Submitted12
  <2> QED
    BY <1>3, <1>6, <2>1 DEF Inv12, Known12
<1>8. \A h \in DOMAIN y_cb : BufferOk(y_cb'[h], Handles12', y_live', y_next')
  <2>1. SUFFICES ASSUME NEW h \in DOMAIN y_cb, NEW i \in DOMAIN y_cb'[h].commands
                 PROVE  CommandOk(y_cb'[h].commands[i], y_cb'[h].spent, Handles12', y_live', y_next')
    BY DEF BufferOk
  <2>2. i \in DOMAIN y_cb[h].commands /\ y_cb'[h].commands[i] = y_cb[h].commands[i]
    BY <1>5, <2>1
  <2>3. CommandOk(y_cb[h].commands[i], y_cb[h].spent, Handles12, y_live, y_next)
    BY <2>2 DEF Inv12, Recorded12, BufferOk
  <2>4. CommandOk(y_cb[h].commands[i], y_cb'[h].spent, Handles12, y_live, y_next)
    BY <1>5, <2>3 DEF CommandOk
  <2> QED
    BY <1>3, <1>6, <2>2, <2>4
<1>10. Recorded12'
  BY <1>5, <1>8 DEF Recorded12
<1> QED
  BY <1>3, <1>5, <1>7, <1>10, Contents12


\* Release: the last one drops what is behind the pointer.
LEMMA Release12 ==
  ASSUME Inv12, NEW o \in D12!Object, D12!com_release(o)
  PROVE  Inv12'
<1>1. y_ref \in [D12!Object -> Nat] /\ y_ref[o] > 0 /\ ~D12!NeededByRecording(o)
      /\ y_ref' = [y_ref EXCEPT ![o] = @ - 1]
  BY DEF D12!com_release, D12!Live, Inv12, Types12
<1>2. CASE y_ref[o] # 1
  <2>1. y_ref' \in [D12!Object -> Nat]
    BY <1>1, <1>2
  <2>2. \A p \in D12!Object : y_ref'[p] > 0 <=> y_ref[p] > 0
    BY <1>1, <1>2
  <2>3. \A p \in Resource \cup List \cup Allocator : y_ref'[p] > 0 <=> y_ref[p] > 0
    BY <2>2, Slots12
  <2>4. y_ref["heap"] > 0 => y_ref'["heap"] > 0
    BY <2>2, Slots12
  <2>5. UNCHANGED <<D12!vkVars, D12!d3d12Vars>>
    BY <1>2 DEF D12!com_release
  <2> QED
    BY <2>1, <2>3, <2>4, <2>5, Count12 DEF D12!vkVars, D12!d3d12Vars
<1>3. CASE y_ref[o] = 1
  <2>1. y_ref' = [y_ref EXCEPT ![o] = 0]
    BY <1>1, <1>3
  <2>2. D12!Drop(o)
    BY <1>3 DEF D12!com_release
  <2>3. CASE o \in Resource
    <3>1. D12!drop_resource(o)
      BY <2>2, <2>3, Slots12 DEF D12!Drop
    <3> QED
      BY <1>1, <2>1, <2>3, <3>1, DropResource12
  <2>4. CASE o \in List
    <3>1. D12!drop_list(o, D12!Live(y_list[o].allocator))
      BY <2>2, <2>4, Slots12 DEF D12!Drop
    <3> QED
      BY <1>1, <2>1, <2>4, <3>1, DropList12
  <2>5. CASE o \in Allocator
    <3>1. D12!drop_allocator(o)
      BY <2>2, <2>5, Slots12 DEF D12!Drop
    <3> QED
      BY <1>1, <2>1, <2>5, <3>1, DropAllocator12
  <2>6. CASE o = "heap"
    <3>1. D12!drop_heap
      BY <2>2, <2>6, Slots12 DEF D12!Drop
    <3> QED
      BY <2>1, <2>6, <3>1, DropHeap12
  <2>7. CASE o \in {"queue", "device"}
    <3>1. o \notin Resource /\ o \notin List /\ o \notin Allocator /\ o # "heap"
      BY <2>7, Slots12
    <3>2. UNCHANGED <<D12!vkVars, D12!d3d12Vars>>
      BY <2>2, <3>1 DEF D12!Drop
    <3>3. y_ref' \in [D12!Object -> Nat]
      BY <1>1, <2>1
    <3>4. \A p \in Resource \cup List \cup Allocator : y_ref'[p] > 0 <=> y_ref[p] > 0
      BY <1>1, <2>1, <3>1, Slots12
    <3>5. y_ref["heap"] > 0 => y_ref'["heap"] > 0
      BY <1>1, <2>1, <3>1, Slots12
    <3> QED
      BY <3>2, <3>3, <3>4, <3>5, Count12 DEF D12!vkVars, D12!d3d12Vars
  <2> QED
    BY <2>3, <2>4, <2>5, <2>6, <2>7 DEF D12!Object
<1> QED
  BY <1>2, <1>3

\* Every step of the Direct3D 12 layer.
LEMMA Next12 ==
  ASSUME Inv12, D12!Next
  PROVE  Inv12'
<1>1. CASE D12!DeviceMethods
  <2>1. CASE D12!device_create_command_queue \/ D12!device_create_descriptor_heap
    BY <2>1, Counting12
  <2>2. CASE \E a \in Allocator : D12!device_create_command_allocator(a)
    BY <2>2, CreateAllocator12
  <2>3. CASE \E l \in List, a \in Allocator : D12!device_create_command_list(l, a)
    BY <2>3, CreateList12
  <2>4. CASE \E r \in Resource : \/ D12!device_create_render_target_view(r)
                                 \/ D12!device_create_committed_resource(r)
    BY <2>4, CreateView12, Committed12
  <2> QED
    BY <1>1, <2>1, <2>2, <2>3, <2>4 DEF D12!DeviceMethods
<1>2. CASE D12!ListMethods
  BY <1>2, Edits12, Recording12 DEF D12!ListMethods
<1>3. CASE D12!NativeMethods
  <2>1. UNCHANGED y_ref
    BY <1>3 DEF D12!NativeMethods
  <2>2. CASE D12!create_root_signature \/ D12!drop_root_signature
    BY <2>1, <2>2, Root12
  <2>3. CASE D12!create_pipeline_state
    BY <2>1, <2>3, CreatePso12
  <2>4. CASE D12!create_pipeline_state_failed
    BY <2>1, <2>4, Failed12 DEF D12!create_pipeline_state_failed
  <2>5. CASE D12!drop_pipeline_state
    BY <2>1, <2>5, DropPso12
  <2>6. CASE \E r \in Resource : D12!map(r) \/ D12!unmap(r)
    BY <2>1, <2>6, Map12
  <2> QED
    BY <1>3, <2>2, <2>3, <2>4, <2>5, <2>6 DEF D12!NativeMethods
<1>4. CASE D12!Resets
  <2>1. UNCHANGED y_ref
    BY <1>4 DEF D12!Resets
  <2>2. CASE \E l \in List, a \in Allocator :
               /\ D12!Live(a)
               /\ \/ D12!reset(l, a, D12!Live(y_list[l].allocator))
                  \/ D12!reset_not_begun(l, a, D12!Live(y_list[l].allocator))
    BY <2>1, <2>2, Reset12
  <2>3. CASE \E l \in List, a \in Allocator :
               D12!Live(a) /\ D12!reset_failed(l, a, D12!Live(y_list[l].allocator))
    BY <2>1, <2>3, ResetFailed12
  <2>4. CASE \E a \in Allocator : D12!reset_allocator(a)
    BY <2>1, <2>4, ResetAllocator12
  <2> QED
    BY <1>4, <2>2, <2>3, <2>4 DEF D12!Resets
<1>5. CASE D12!Execute
  BY <1>5, Execute12 DEF D12!Execute
<1>6. CASE D12!Counting
  BY <1>6, Counting12, Release12 DEF D12!Counting
<1> QED
  BY <1>1, <1>2, <1>3, <1>4, <1>5, <1>6 DEF D12!Next

\* Stuttering.
LEMMA Stutter12 ==
  ASSUME Inv12, UNCHANGED d12Vars
  PROVE  Inv12'
<1>1. y_ref' \in [D12!Object -> Nat] /\ y_ref' = y_ref
  BY DEF Inv12, Types12, d12Vars
<1> QED
  BY <1>1, Count12 DEF d12Vars

\* A guest with a device and nothing else.
LEMMA Init12 ==
  ASSUME D12!Init
  PROVE  Inv12
<1> USE DEF D12!Init, D12!D3D12Init, D12!VkInit, D12!Null
<1>1. Lists12 \in Nat /\ 10 <= Lists12
  BY GraphicsAssumption
<1>2. y_ref \in [D12!Object -> Nat]
      /\ \A o \in Resource \cup List \cup Allocator \cup {"heap"} : y_ref[o] = 0
  BY Slots12 DEF D12!Object
<1>3. DOMAIN y_cb = {} /\ DOMAIN y_layout = {} /\ DOMAIN y_state = {}
  OBVIOUS
<1>4. Types12
  BY <1>2, <1>3, NotNone12 DEF Types12
<1>5. \A p \in Owner12 : Own12[p] = {}
  <2>1. \A r \in Resource : Own12[r] = {}
    BY Own12At DEF OfResource
  <2>2. \A l \in List : Own12[l] = {}
    BY Own12At DEF OfList
  <2>3. \A a \in Allocator : Own12[a] = {}
    BY Own12At
  <2>4. Own12["heap"] = {} /\ Own12["root"] = {} /\ Own12["pso"] = {}
    BY Own12At, NotNone12 DEF OfPso
  <2> QED
    BY <2>1, <2>2, <2>3, <2>4 DEF Owner12
<1>6. Owners12
  BY <1>1, <1>5, Own12At DEF Owners12, Accounted
<1>7. Links12
  <2>1. \A a \in Allocator : ~UsesPool(a) /\ y_pool[a] = 0
    BY DEF UsesPool
  <2>2. (\A r \in Resource : y_res[r] = D12!None) /\ (\A l \in List : y_list[l] = D12!None)
    OBVIOUS
  <2>3. y_heap = D12!Empty
    OBVIOUS
  <2> HIDE DEF D12!Init, D12!Null
  <2>4. \A o \in Resource \cup List \cup Allocator \cup {"heap"} : ~D12!Live(o)
    BY <1>2 DEF D12!Live
  <2> QED
    BY <2>1, <2>2, <2>3, <2>4 DEF Links12
<1>8. Buffered12
  BY <1>3 DEF Buffered12
<1>9. Known12
  BY <1>3, NotNone12 DEF Known12, Images12, D12!LayoutIsState
<1>10. Recorded12
  BY <1>3 DEF Recorded12
<1> QED
  BY <1>4, <1>6, <1>7, <1>8, <1>9, <1>10 DEF Inv12

\* A guest that is about to record.
LEMMA Prepared12 ==
  ASSUME D12!Prepared(r1, l1, l2, a1)
  PROVE  Inv12
<1> DEFINE fresh(h) == [kind |-> "list", allocator |-> a1, command_buffer |-> h,
                        target |-> D12!Empty, pipeline |-> D12!NoPso,
                        recording |-> TRUE, closed |-> FALSE]
<1>1. Lists12 \in Nat /\ 10 <= Lists12
  BY GraphicsAssumption
<1>2. r1 \in Resource /\ l1 \in List /\ l2 \in List /\ l1 # l2 /\ a1 \in Allocator
  BY SlotAssumption
<1>3. /\ y_live = 1 .. 10 /\ y_next = 11 /\ y_twice = {} /\ y_leaked = {}
      /\ y_dangling = {} /\ y_root = 0
  BY DEF D12!Prepared, D12!Null
<1>4. /\ y_res \in [Resource -> Resources12 \cup {D12!None}]
      /\ y_res[r1] \in Resources12
      /\ y_res[r1].kind = "image" /\ y_res[r1].handle = 1 /\ y_res[r1].memory = 2
      /\ \A r \in Resource : r # r1 => y_res[r] = D12!None
  <2>1. y_res = [x \in Resource |-> IF x # r1 THEN D12!None ELSE
                   [kind |-> "image", handle |-> 1, memory |-> 2,
                    host_visible |-> FALSE, mapped |-> FALSE]]
    BY DEF D12!Prepared
  <2> QED
    BY <1>2, <2>1 DEF Resources12
<1>5. /\ y_heap \in Descriptors12 /\ y_heap.view = 3 /\ y_heap.image = 1
      /\ y_pso \in Pipelines12 /\ y_pso.render_pass = 7 /\ y_pso.module = 8
      /\ y_pso.pipeline = 9 /\ y_pso.own = {10}
  <2>1. /\ y_heap = [view |-> 3, image |-> 1]
        /\ y_pso = [kind |-> "pso", render_pass |-> 7, module |-> 8, pipeline |-> 9, own |-> {10}]
    BY DEF D12!Prepared
  <2> QED
    BY <2>1 DEF Descriptors12, Pipelines12
<1>6. /\ y_pool \in [Allocator -> Nat] /\ y_pool[a1] = 4
      /\ \A a \in Allocator : a # a1 => y_pool[a] = 0
  <2>1. y_pool = [x \in Allocator |-> IF x = a1 THEN 4 ELSE 0]
    BY DEF D12!Prepared, D12!Null
  <2> QED
    BY <1>2, <2>1
<1>7. \A h \in Nat : /\ fresh(h) \in Lists12Of /\ fresh(h) # D12!None
                     /\ fresh(h).allocator = a1 /\ fresh(h).command_buffer = h
  <2>1. \A h \in Nat : fresh(h) \in Lists12Of
    BY <1>2, NotNone12 DEF Lists12Of
  <2> QED
    BY <2>1, NotNone12
<1>8. y_list = [x \in List |-> IF x = l1 THEN fresh(5) ELSE IF x = l2 THEN fresh(6) ELSE D12!None]
  BY DEF D12!Prepared
<1> HIDE DEF fresh
<1>9. /\ y_list \in [List -> Lists12Of \cup {D12!None}]
      /\ y_list[l1] # D12!None /\ y_list[l1].allocator = a1 /\ y_list[l1].command_buffer = 5
      /\ y_list[l2] # D12!None /\ y_list[l2].allocator = a1 /\ y_list[l2].command_buffer = 6
      /\ \A l \in List : l # l1 /\ l # l2 => y_list[l] = D12!None
  BY <1>2, <1>7, <1>8
<1>10. /\ DOMAIN y_cb = {5, 6} /\ y_cb \in [DOMAIN y_cb -> Buffers12]
       /\ \A h \in DOMAIN y_cb : DOMAIN y_cb[h].commands = {}
  <2>1. y_cb = [h \in {5, 6} |-> D12!Recording]
    BY DEF D12!Prepared
  <2> QED
    BY <2>1, Fresh12
<1>11. DOMAIN y_layout = {1} /\ DOMAIN y_state = {1} /\ y_layout[1] = "UNDEFINED"
  BY DEF D12!Prepared
<1>12. /\ y_ref \in [D12!Object -> Nat]
       /\ \A o \in D12!Object : y_ref[o] > 0 <=> o \in {r1, l1, l2, a1, "heap", "queue", "device"}
  BY DEF D12!Prepared
<1>13. Types12
  BY <1>3, <1>4, <1>5, <1>6, <1>9, <1>10, <1>12 DEF Types12
<1>14. /\ Own12[r1] = {1, 2} /\ Own12["heap"] = {3} /\ Own12[a1] = {4}
       /\ Own12[l1] = {5} /\ Own12[l2] = {6} /\ Own12["pso"] = {7, 8, 9, 10}
       /\ \A p \in Owner12 : p \notin {r1, "heap", a1, l1, l2, "pso"} => Own12[p] = {}
  <2>1. Own12[r1] = {1, 2} /\ \A r \in Resource : r # r1 => Own12[r] = {}
    BY <1>2, <1>4, Own12At, NotNone12 DEF OfResource
  <2>2. /\ Own12[l1] = {5} /\ Own12[l2] = {6}
        /\ \A l \in List : l # l1 /\ l # l2 => Own12[l] = {}
    BY <1>2, <1>9, <1>10, Own12At DEF OfList
  <2>3. Own12[a1] = {4} /\ \A a \in Allocator : a # a1 => Own12[a] = {}
    BY <1>2, <1>6, Own12At
  <2>4. Own12["heap"] = {3} /\ Own12["root"] = {}
    BY <1>3, <1>5, Own12At
  <2>5. Own12["pso"] = {7, 8, 9, 10}
    BY <1>5, Own12At, NotNone12 DEF OfPso
  <2> QED
    BY <2>1, <2>2, <2>3, <2>4, <2>5 DEF Owner12
<1>15. Accounted(Own12, 1 .. 10, {}, 11)
  <2>1. DOMAIN Own12 = Owner12 /\ {r1, "heap", a1, l1, l2, "pso"} \subseteq Owner12
    BY <1>2, Own12At, Slots12
  <2>2. \A h \in 1 .. 10 : \E p \in Owner12 : h \in Own12[p]
    <3>1. \A h \in 1 .. 10 : \/ h = 1 \/ h = 2 \/ h = 3 \/ h = 4 \/ h = 5
                             \/ h = 6 \/ h = 7 \/ h = 8 \/ h = 9 \/ h = 10
      OBVIOUS
    <3> QED
      BY <1>14, <2>1, <3>1
  <2>3. \A p \in Owner12 : Own12[p] \subseteq 1 .. 10
    BY <1>14
  <2>4. \A p, q \in Owner12 : p # q => Own12[p] \cap Own12[q] = {}
    BY <1>14
  <2>5. 1 .. 10 \subseteq 1 .. (11 - 1) /\ 11 \in Nat \ {0}
    OBVIOUS
  <2> QED
    BY <2>1, <2>2, <2>3, <2>4, <2>5 DEF Accounted
<1>16. Owners12
  BY <1>1, <1>3, <1>15 DEF Owners12
<1>17. Links12
  <2>1. \A r \in Resource : D12!Live(r) <=> y_res[r] # D12!None
    BY <1>2, <1>4, <1>12, Slots12, NotNone12 DEF D12!Live
  <2>2. \A l \in List : D12!Live(l) <=> y_list[l] # D12!None
    BY <1>2, <1>9, <1>12, Slots12 DEF D12!Live
  <2>3. \A a \in Allocator : y_pool[a] # 0 <=> D12!Live(a) \/ UsesPool(a)
    <3>1. \A a \in Allocator : UsesPool(a) <=> a = a1
      BY <1>2, <1>9 DEF UsesPool
    <3>2. \A a \in Allocator : D12!Live(a) <=> a = a1
      BY <1>2, <1>12, Slots12 DEF D12!Live
    <3> QED
      BY <1>6, <3>1, <3>2
  <2>4. D12!Live("heap") /\ y_heap.view # 0
    BY <1>5, <1>12, Slots12 DEF D12!Live
  <2> QED
    BY <2>1, <2>2, <2>3, <2>4 DEF Links12
<1>18. Buffered12
  BY <1>2, <1>9, <1>10 DEF Buffered12
<1>19. Known12
  <2>1. Images12 = {1}
    BY <1>2, <1>4, NotNone12 DEF Images12
  <2> QED
    BY <1>3, <1>5, <1>11, <2>1 DEF Known12, D12!LayoutIsState
<1>20. Recorded12
  BY <1>3, <1>10 DEF Recorded12, BufferOk
<1> QED
  BY <1>13, <1>16, <1>17, <1>18, <1>19, <1>20 DEF Inv12

\* What the invariant gives.
LEMMA Safe12 ==
  ASSUME Inv12
  PROVE  /\ D12!TypeOK /\ D12!DestroyedOnce /\ D12!NothingElseOutlivesDevice
         /\ D12!PointersReachLiveHandles /\ D12!LayoutIsState
<1>1. /\ y_next \in Nat \ {0} /\ Lists12 \in Nat
      /\ y_live \subseteq 1 .. (y_next - 1) /\ y_leaked \subseteq y_live
      /\ \A p \in Owner12 : Own12[p] \subseteq y_live
      /\ \A h \in y_live : h \in y_leaked \/ \E p \in Owner12 : h \in Own12[p]
      /\ y_next <= Lists12 + 1 /\ y_twice \subseteq y_dangling
      /\ y_dangling \subseteq 1 .. (y_next - 1)
      /\ Images12 \subseteq y_live /\ DOMAIN y_cb \subseteq y_live
  BY Facts12 DEF Inv12, Owners12
<1>2. D12!TypeOK
  <2>1. D12!VkTypeOK
    <3>1. 1 .. (y_next - 1) \subseteq 1 .. Lists12
      BY <1>1
    <3> QED
      BY <1>1, <3>1 DEF D12!VkTypeOK, D12!Handle
  <2>3. /\ DOMAIN y_layout \subseteq y_live /\ DOMAIN y_state = DOMAIN y_layout
        /\ y_ref \in [D12!Object -> Nat]
    BY <1>1 DEF Inv12, Known12, Types12
  <2> QED
    BY <1>1, <2>1, <2>3 DEF D12!TypeOK
<1>3. D12!NothingElseOutlivesDevice
  <2>1. ASSUME \A o \in D12!Object : y_ref[o] = 0, y_root = 0, y_pso = D12!None
        PROVE  y_live = y_leaked
    <3>1. \A o \in D12!Object : ~D12!Live(o)
      BY <2>1 DEF D12!Live
    <3>2. \A r \in Resource : Own12[r] = {}
      BY <3>1, Own12At, Slots12 DEF Inv12, Links12, OfResource
    <3>3. \A l \in List : y_list[l] = D12!None
      BY <3>1, Slots12 DEF Inv12, Links12
    <3>4. \A l \in List : Own12[l] = {}
      BY <3>3, Own12At DEF OfList
    <3>5. \A a \in Allocator : ~UsesPool(a)
      BY <3>3 DEF UsesPool
    <3>6. \A a \in Allocator : Own12[a] = {}
      BY <3>1, <3>5, Own12At, Slots12 DEF Inv12, Links12
    <3>7. Own12["heap"] = {} /\ Own12["root"] = {} /\ Own12["pso"] = {}
      BY <2>1, <3>1, Own12At, Slots12, NotNone12 DEF Inv12, Links12, OfPso
    <3>8. \A p \in Owner12 : Own12[p] = {}
      BY <3>2, <3>4, <3>6, <3>7 DEF Owner12
    <3> QED
      BY <1>1, <3>8
  <2> QED
    BY <2>1 DEF D12!NothingElseOutlivesDevice, D12!Null
<1>4. D12!PointersReachLiveHandles
  <2>1. ASSUME NEW r \in Resource, D12!Live(r)
        PROVE  {y_res[r].handle, y_res[r].memory} \subseteq y_live
    <3>1. y_res[r] # D12!None
      BY <2>1 DEF Inv12, Links12
    <3>2. Own12[r] = {y_res[r].handle, y_res[r].memory}
      BY <3>1, Own12At DEF OfResource
    <3> QED
      BY <1>1, <3>2, Slots12
  <2>2. ASSUME y_heap # D12!Empty
        PROVE  D12!Live("heap") /\ y_heap.view \in y_live
    <3>1. D12!Live("heap") /\ y_heap.view # 0
      BY <2>2 DEF Inv12, Links12
    <3>2. y_heap.view \in Own12["heap"]
      BY <3>1, Own12At
    <3> QED
      BY <1>1, <3>1, <3>2, Slots12
  <2>3. ASSUME NEW l \in List, D12!Live(l)
        PROVE  /\ y_pool[y_list[l].allocator] \in y_live
               /\ y_list[l].command_buffer \in y_live \cup y_dangling
    <3>1. y_list[l] # D12!None
      BY <2>3 DEF Inv12, Links12
    <3>2. y_list[l].command_buffer \in y_live \cup y_dangling /\ y_list[l].allocator \in Allocator
      BY <3>1, Named12
    <3>3. UsesPool(y_list[l].allocator)
      BY <3>1 DEF UsesPool
    <3>4. y_pool[y_list[l].allocator] # 0
      BY <3>2, <3>3 DEF Inv12, Links12
    <3>5. y_pool[y_list[l].allocator] \in Own12[y_list[l].allocator]
      BY <3>2, <3>4, Own12At
    <3> QED
      BY <1>1, <3>2, <3>5, Slots12
  <2> QED
    BY <2>1, <2>2, <2>3 DEF D12!PointersReachLiveHandles
<1>5. D12!DestroyedOnce /\ D12!LayoutIsState
  BY <1>1 DEF D12!DestroyedOnce, Inv12, Known12
<1> QED
  BY <1>2, <1>3, <1>4, <1>5

-----------------------------------------------------------------------------
(* Theorems: each layer by itself, whatever calls come in whatever order *)

LEMMA ChainStutter ==
  ASSUME ChainInv, UNCHANGED chainVars
  PROVE  ChainInv'
BY DEF ChainInv, chainVars

(* The swap chain (create_swap_chain, resize_buffers, drop and their error   *)
(* paths): every Vulkan handle is destroyed at most once, only what an       *)
(* unfinished off-screen creation made outlives the device, and a swapchain  *)
(* never outlives its surface.                                               *)
THEOREM SwapChainLayer ==
  Chain!Spec => [](/\ Chain!TypeOK /\ Chain!DestroyedOnce /\ Chain!NothingElseOutlivesDevice
                   /\ Chain!SurfaceOutlivesSwapchain)
<1>1. Chain!Init => ChainInv
  BY ChainInitInv
<1>2. ChainInv /\ [Chain!Next]_(Chain!vars) => ChainInv'
  BY ChainNextInv, ChainStutter DEF Chain!vars, chainVars
<1> QED
  BY <1>1, <1>2, ChainSafe, PTL DEF Chain!Spec

(* The Direct3D 11 layer behind its COM interfaces, every method of device,  *)
(* context and swap chain, AddRef and Release included: no handle is         *)
(* destroyed twice, none is forgotten, none is dead behind a live pointer;   *)
(* commands go into a recording buffer.                                      *)
THEOREM D3D11Layer ==
  D11!Spec => [](/\ D11!TypeOK /\ D11!DestroyedOnce /\ D11!NothingElseOutlivesDevice
                 /\ D11!PointersReachLiveHandles /\ D11!RecordedWhileRecording)
<1>1. D11!Init => Inv11
  BY Init11
<1>2. Inv11 /\ [D11!Next]_(D11!vars) => Inv11'
  BY Next11, Stutter11 DEF D11!vars, D11!vkVars, D11!d3d11Vars, d11Vars
<1> QED
  BY <1>1, <1>2, Safe11, PTL DEF D11!Spec

(* The Direct3D 12 layer behind its COM interfaces and its native methods:   *)
(* the same, and every image is in the layout of the state its guest knows   *)
(* it to be in after every ExecuteCommandLists.                              *)
THEOREM D3D12Layer ==
  D12!Spec => [](/\ D12!TypeOK /\ D12!DestroyedOnce /\ D12!NothingElseOutlivesDevice
                 /\ D12!PointersReachLiveHandles /\ D12!LayoutIsState)
<1>1. D12!Init => Inv12
  BY Init12
<1>2. Inv12 /\ [D12!Next]_(D12!comVars) => Inv12'
  BY Next12, Stutter12 DEF D12!comVars, D12!vkVars, D12!d3d12Vars, d12Vars
<1> QED
  BY <1>1, <1>2, Safe12, PTL DEF D12!Spec

-----------------------------------------------------------------------------
(* Theorems: the layers under one roof, as the runs check them *)

GraphicsInv == ChainInv /\ Inv11 /\ Inv12

LEMMA InitGraphics == Init => GraphicsInv
<1>1. SUFFICES ASSUME Init PROVE GraphicsInv
  OBVIOUS
<1>2. ChainInv
  BY <1>1, ChainInitInv DEF Init
<1>3. Inv11
  BY <1>1, Init11, Prepared11 DEF Init
<1>4. Inv12
  BY <1>1, Init12, Prepared12 DEF Init
<1> QED
  BY <1>2, <1>3, <1>4 DEF GraphicsInv

LEMMA NextGraphics == GraphicsInv /\ [Next]_vars => GraphicsInv'
<1>1. SUFFICES ASSUME ChainInv, Inv11, Inv12, [Next]_vars PROVE ChainInv' /\ Inv11' /\ Inv12'
  BY DEF GraphicsInv
<1>2. CASE ChainNext
  BY <1>1, <1>2, ChainNextInv, Stutter11, Stutter12 DEF ChainNext
<1>3. CASE Objects11Next \/ Frames11Next
  <2>1. D11!Next /\ UNCHANGED chainVars /\ UNCHANGED d12Vars
    BY <1>3 DEF Objects11Next, Frames11Next, D11!Next
  <2> QED
    BY <1>1, <2>1, Next11, ChainStutter, Stutter12
<1>4. CASE Objects12Next \/ Pipelines12Next \/ Lists12Next
  <2>1. UNCHANGED chainVars /\ UNCHANGED d11Vars
    BY <1>4 DEF Objects12Next, Pipelines12Next, Lists12Next
  <2>2. D12!cmdlist_close(l1) => D12!Next
    BY SlotAssumption DEF D12!Next, D12!ListMethods
  <2>3. D12!device_create_committed_resource(r1) => D12!Next
    BY SlotAssumption DEF D12!Next, D12!DeviceMethods
  <2>4. \/ D12!DeviceMethods \/ D12!Counting \/ D12!Resets \/ D12!NativeMethods \/ D12!ListMethods
        \/ D12!Execute \/ D12!cmdlist_close(l1) \/ D12!device_create_committed_resource(r1)
    BY <1>4 DEF Objects12Next, Pipelines12Next, Lists12Next
  <2>5. D12!Next
    BY <2>2, <2>3, <2>4 DEF D12!Next
  <2> QED
    BY <1>1, <2>1, <2>5, Next12, ChainStutter, Stutter11
<1>5. CASE UNCHANGED vars
  <2>1. UNCHANGED chainVars /\ UNCHANGED d11Vars /\ UNCHANGED d12Vars
    BY <1>5 DEF vars
  <2> QED
    BY <1>1, <2>1, ChainStutter, Stutter11, Stutter12
<1> QED
  BY <1>1, <1>2, <1>3, <1>4, <1>5 DEF Next

LEMMA GraphicsAlways == Spec => []GraphicsInv
BY InitGraphics, NextGraphics, PTL DEF Spec

(* No Vulkan handle is destroyed twice by the destructors and the error      *)
(* paths of the three layers (drop of Swapchain, Device, Context, Resource,  *)
(* CommandList, CommandAllocator ...), but for the buffer that a failed      *)
(* ID3D12GraphicsCommandList::Reset leaves in its list.                      *)
THEOREM HandlesDestroyedOnce == Spec => []DestroyedOnce
<1>1. GraphicsInv => DestroyedOnce
  BY ChainSafe, Safe11, Safe12 DEF GraphicsInv, DestroyedOnce
<1> QED
  BY <1>1, GraphicsAlways, PTL

(* When the guest has released everything, only handles that a failed        *)
(* creation left behind are alive: no destructor and no overwritten slot     *)
(* forgets one.                                                              *)
THEOREM NoHandleForgotten == Spec => []NothingElseOutlivesDevice
<1>1. GraphicsInv => NothingElseOutlivesDevice
  BY ChainSafe, Safe11, Safe12 DEF GraphicsInv, NothingElseOutlivesDevice
<1> QED
  BY <1>1, GraphicsAlways, PTL

(* Behind a live interface pointer are live handles, also after resizes,     *)
(* resets, failed calls and the release of the objects it came from.         *)
THEOREM LivePointersLiveHandles == Spec => []PointersReachLiveHandles
<1>1. GraphicsInv => PointersReachLiveHandles
  BY ChainSafe, Safe11, Safe12 DEF GraphicsInv, PointersReachLiveHandles
<1> QED
  BY <1>1, GraphicsAlways, PTL

(* A D3D11 context records its commands into a buffer that is recording,     *)
(* until a flush fails (ensure_recording, flush).                            *)
THEOREM CommandsRecorded == Spec => []RecordedWhileRecording
<1>1. GraphicsInv => RecordedWhileRecording
  BY Safe11 DEF GraphicsInv, RecordedWhileRecording
<1> QED
  BY <1>1, GraphicsAlways, PTL

(* Clears and barriers of whichever lists, submitted in whatever order,      *)
(* leave every image in the layout of the state its guest knows              *)
(* (clear_render_target_view, resource_barrier, execute_command_lists).      *)
THEOREM ImagesInTheirLayout == Spec => []LayoutIsState
<1>1. GraphicsInv => LayoutIsState
  BY Safe12 DEF GraphicsInv, LayoutIsState
<1> QED
  BY <1>1, GraphicsAlways, PTL
=============================================================================
