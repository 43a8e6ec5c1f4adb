-------------------------- MODULE MessageLoopProofs --------------------------
(***************************************************************************)
(* Proofs about MessageLoop for every set of threads and classes and every *)
(* bound: a window is created before its procedure sees any other message  *)
(* and destroyed once, however the exports are nested.                     *)
(***************************************************************************)
EXTENDS MessageLoop, SequenceTheorems, FiniteSetTheorems, WellFoundedInduction, TLAPS

-----------------------------------------------------------------------------
(* Numbers and sequences *)

\* The order of the naturals, as a relation, is well founded.
LEMMA NaturalOrder ==
  \E R : IsWellFoundedOn(R, Nat) /\ (\A x, y \in Nat : <<x, y>> \in R <=> x < y)
<1>1. IsWellFoundedOn(OpToRel(<, Nat), Nat)
  BY NatLessThanWellFounded, Zenon
<1>2. \A x, y \in Nat : <<x, y>> \in OpToRel(<, Nat) <=> x < y
  BY DEF OpToRel
<1> QED
  BY <1>1, <1>2, Zenon

\* A search that finds anything finds a first position (First).
LEMMA FirstExists ==
  ASSUME NEW S, S \subseteq Nat, S # {}
  PROVE  First(S) \in S
<1>1. PICK R : IsWellFoundedOn(R, Nat) /\ (\A x, y \in Nat : <<x, y>> \in R <=> x < y)
  BY NaturalOrder, Zenon
<1>2. IsWellFoundedOn(R, Nat)
  BY <1>1
<1>3. PICK x \in S : \A y \in S : ~(<<y, x>> \in R)
  BY <1>2, WFMin, Zenon
<1>4. \A y \in S : ~(y < x)
  BY <1>1, <1>3, Zenon
<1>5. \A y \in S : x <= y
  BY <1>4, SMT
<1> QED
  BY <1>5 DEF First

\* What the calls do to a sequence: its last element replaced, dropped or
\* pushed, and one element removed.
LEMMA ReplaceLast ==
  ASSUME NEW S, NEW s \in Seq(S), s # <<>>, NEW f \in S
  PROVE  /\ Append(Front(s), f) \in Seq(S)
         /\ DOMAIN Append(Front(s), f) = DOMAIN s /\ Len(s) \in DOMAIN s
         /\ \A i \in DOMAIN s : Append(Front(s), f)[i] = IF i = Len(s) THEN f ELSE s[i]
BY DEF Front

LEMMA DropLast ==
  ASSUME NEW S, NEW s \in Seq(S), s # <<>>
  PROVE  /\ Front(s) \in Seq(S)
         /\ DOMAIN Front(s) = DOMAIN s \ {Len(s)} /\ Len(s) \in DOMAIN s
         /\ \A i \in DOMAIN Front(s) : Front(s)[i] = s[i]
         /\ Last(s) = s[Len(s)] /\ Last(s) \in S
BY DEF Front, Last

LEMMA PushLast ==
  ASSUME NEW S, NEW s \in Seq(S), NEW f \in S
  PROVE  /\ Append(s, f) \in Seq(S)
         /\ DOMAIN Append(s, f) = DOMAIN s \cup {Len(s) + 1} /\ Len(s) + 1 \notin DOMAIN s
         /\ \A i \in DOMAIN s : Append(s, f)[i] = s[i]
         /\ Append(s, f)[Len(s) + 1] = f
OBVIOUS

LEMMA RemoveOne ==
  ASSUME NEW S, NEW s \in Seq(S), NEW k \in DOMAIN s
  PROVE  /\ RemoveAt(s, k) \in Seq(S)
         /\ \A i \in DOMAIN RemoveAt(s, k) :
              \E j \in DOMAIN s \ {k} :
                RemoveAt(s, k)[i] = s[j] /\ j = IF i < k THEN i ELSE i + 1
         /\ \A j \in DOMAIN s \ {k} :
              \E i \in DOMAIN RemoveAt(s, k) : RemoveAt(s, k)[i] = s[j]
<1> DEFINE a == SubSeq(s, 1, k - 1)
           z == SubSeq(s, k + 1, Len(s))
<1>1. k \in 1 .. Len(s) /\ Len(s) \in Nat /\ DOMAIN s = 1 .. Len(s)
  OBVIOUS
<1>2. /\ a \in Seq(S) /\ Len(a) = k - 1
      /\ \A i \in 1 .. (k - 1) : a[i] = s[i]
  BY <1>1
<1>3. /\ z \in Seq(S) /\ Len(z) = Len(s) - k
      /\ \A i \in 1 .. (Len(s) - k) : z[i] = s[i + k]
  BY <1>1
<1>4. RemoveAt(s, k) = a \o z
  BY DEF RemoveAt
<1> HIDE DEF a, z
<1>5. /\ a \o z \in Seq(S) /\ Len(a \o z) = Len(s) - 1 /\ DOMAIN (a \o z) = 1 .. (Len(s) - 1)
      /\ \A i \in 1 .. (Len(s) - 1) : (a \o z)[i] = IF i < k THEN a[i] ELSE z[i - (k - 1)]
  <2>1. a \o z \in Seq(S) /\ Len(a \o z) = Len(a) + Len(z)
    BY <1>2, <1>3, ConcatProperties
  <2>2. Len(a) + Len(z) = Len(s) - 1 /\ Len(s) - 1 \in Nat
    BY <1>1, <1>2, <1>3
  <2>3. DOMAIN (a \o z) = 1 .. Len(a \o z)
    BY <2>1
  <2>4. ASSUME NEW i \in 1 .. (Len(s) - 1)
        PROVE  (a \o z)[i] = IF i < k THEN a[i] ELSE z[i - (k - 1)]
    <3>1. (a \o z)[i] = IF i <= Len(a) THEN a[i] ELSE z[i - Len(a)]
      BY SMTT(30), <1>2, <1>3, <2>2
    <3>2. i <= Len(a) <=> i < k
      BY <1>1, <1>2
    <3> QED
      BY <1>2, <3>1, <3>2
  <2> QED
    BY <2>1, <2>2, <2>3, <2>4
<1>6. \A i \in 1 .. (Len(s) - 1) : (a \o z)[i] = IF i < k THEN s[i] ELSE s[i + 1]
  <2>1. ASSUME NEW i \in 1 .. (Len(s) - 1), ~(i < k) PROVE z[i - (k - 1)] = s[i + 1]
    <3>1. i - (k - 1) \in 1 .. (Len(s) - k) /\ (i - (k - 1)) + k = i + 1
      BY <1>1, <2>1
    <3> QED
      BY <1>3, <3>1
  <2>2. ASSUME NEW i \in 1 .. (Len(s) - 1), i < k PROVE a[i] = s[i]
    BY <1>1, <1>2, <2>2
  <2> QED
    BY <1>5, <2>1, <2>2
<1>7. ASSUME NEW j \in DOMAIN s \ {k}
      PROVE  \E i \in DOMAIN (a \o z) : (a \o z)[i] = s[j]
  <2>1. CASE j < k
    <3>1. j \in 1 .. (Len(s) - 1)
      BY <1>1, <2>1
    <3> QED
      BY <1>5, <1>6, <2>1, <3>1
  <2>2. CASE j > k
    <3>1. j - 1 \in 1 .. (Len(s) - 1) /\ ~(j - 1 < k) /\ (j - 1) + 1 = j
      BY <1>1, <2>2
    <3> QED
      BY <1>5, <1>6, <3>1
  <2> QED
    BY <1>1, <2>1, <2>2
<1>8. ASSUME NEW i \in DOMAIN (a \o z)
      PROVE  \E j \in DOMAIN s \ {k} : (a \o z)[i] = s[j] /\ j = IF i < k THEN i ELSE i + 1
  <2>1. i \in 1 .. (Len(s) - 1)
    BY <1>5
  <2>2. (IF i < k THEN i ELSE i + 1) \in DOMAIN s \ {k}
    BY <1>1, <2>1
  <2> QED
    BY <1>6, <2>1, <2>2
<1> QED
  BY <1>4, <1>5, <1>7, <1>8
-----------------------------------------------------------------------------
(* One thread: its tables s and its activations k *)

\* Two ways a step leaves a thread's windows and messages alone: it changes no
\* handle or procedure and adds no WM_DESTROY, to the queue or to what its
\* activations retrieved.
Harmless(s, e) ==
  /\ DOMAIN e.windows = DOMAIN s.windows
  /\ \A i \in DOMAIN s.windows :
       e.windows[i].hwnd = s.windows[i].hwnd /\ e.windows[i].proc = s.windows[i].proc
  /\ \A i \in DOMAIN e.queue :
       IsDestroy(e.queue[i]) => i \in DOMAIN s.queue /\ e.queue[i] = s.queue[i]
Fewer(k, l) ==
  \A i \in DOMAIN l : IsDestroy(l[i].got) => i \in DOMAIN k /\ l[i].got = k[i].got

\* The windows of e are windows of s.
Inherits(s, e) ==
  \A i \in DOMAIN e.windows : \E j \in DOMAIN s.windows :
    e.windows[i].hwnd = s.windows[j].hwnd /\ e.windows[i].proc = s.windows[j].proc

\* The handles a thread has or is destroying.
Held(s, k) == Owned(s) \cup Doomed(s, k)

\* Harmless changes keep the handles of a thread apart.
LEMMA CalmStep ==
  ASSUME NEW s, NEW e, NEW k, NEW l, Harmless(s, e), Fewer(k, l), Once(s, k)
  PROVE  /\ Once(e, l)
         /\ Owned(e) = Owned(s)
         /\ Doomed(e, l) \subseteq Doomed(s, k)
         /\ Held(e, l) \subseteq Held(s, k)
         /\ Inherits(s, e)
<1>1. Owned(e) = Owned(s)
  BY DEF Harmless, Owned
<1>2. Doomed(e, l) \subseteq Doomed(s, k)
  BY DEF Harmless, Fewer, Doomed
<1>3. Inherits(s, e)
  BY DEF Harmless, Inherits
<1>4. \A i, j \in DOMAIN e.windows : e.windows[i].hwnd = e.windows[j].hwnd => i = j
  BY DEF Harmless, Once
<1>5. \A i, j \in DOMAIN e.queue : IsDestroy(e.queue[i]) /\ e.queue[j] = e.queue[i] => i = j
  BY DEF Harmless, Once
<1>6. \A i, j \in DOMAIN l : IsDestroy(l[i].got) /\ l[j].got = l[i].got => i = j
  BY DEF Fewer, Once
<1>7. \A i \in DOMAIN e.queue, j \in DOMAIN l : IsDestroy(e.queue[i]) => l[j].got # e.queue[i]
  BY DEF Harmless, Fewer, Once
<1>8. Owned(e) \cap Doomed(e, l) = {}
  BY <1>1, <1>2 DEF Once
<1> QED
  BY <1>1, <1>2, <1>3, <1>4, <1>5, <1>6, <1>7, <1>8 DEF Once, Held

\* A thread that changes nothing changes nothing harmful.
LEMMA NothingChanges ==
  ASSUME NEW s, NEW k
  PROVE  Harmless(s, s) /\ Fewer(k, k) /\ Inherits(s, s)
BY DEF Harmless, Fewer, Inherits

\* What the parts of a thread's tables are.
LEMMA StateParts ==
  ASSUME NEW s \in State
  PROVE  /\ s.classes \in Seq(ClassEntry) /\ s.windows \in Seq(WindowEntry)
         /\ s.queue \in Seq(Msg) /\ s.quit \in BOOLEAN
         /\ \A i \in DOMAIN s.windows : s.windows[i] \in WindowEntry /\ i \in Nat
         /\ \A i \in DOMAIN s.queue : s.queue[i] \in Msg
BY DEF State

\* post_message_internal adds one message to the queue.
LEMMA PostAppends ==
  ASSUME NEW s \in State, NEW w \in Hwnd \cup {NoWindow}, NEW m \in Message
  PROVE  LET e == post_message_internal(s, w, m)
         IN  /\ e \in State /\ e.windows = s.windows
             /\ e.queue = Append(s.queue, [hwnd |-> w, message |-> m])
<1>1. [hwnd |-> w, message |-> m] \in Msg
  BY DEF Msg
<1>2. Append(s.queue, [hwnd |-> w, message |-> m]) \in Seq(Msg)
  BY <1>1, StateParts, AppendProperties
<1> QED
  BY <1>2 DEF post_message_internal, State

\* A posted message other than WM_DESTROY is harmless.
LEMMA PostHarmless ==
  ASSUME NEW s \in State, NEW w \in Hwnd \cup {NoWindow}, NEW m \in Message,
         m # "WM_DESTROY"
  PROVE  /\ post_message_internal(s, w, m) \in State
         /\ Harmless(s, post_message_internal(s, w, m))
<1>1. PICK e : e = post_message_internal(s, w, m)
  OBVIOUS
<1>2. /\ e \in State /\ e.windows = s.windows
      /\ e.queue = Append(s.queue, [hwnd |-> w, message |-> m])
  BY <1>1, PostAppends
<1>3. [hwnd |-> w, message |-> m] \in Msg /\ ~IsDestroy([hwnd |-> w, message |-> m])
  BY DEF Msg, IsDestroy
<1>4. s.queue \in Seq(Msg)
  BY StateParts
<1>5. \A i \in DOMAIN e.queue : IsDestroy(e.queue[i]) => i \in DOMAIN s.queue /\ e.queue[i] = s.queue[i]
  BY <1>2, <1>3, <1>4, PushLast
<1> QED
  BY <1>1, <1>2, <1>5 DEF Harmless

\* Marking a window for painting, or as painted, is harmless (SetPaint).
LEMMA PaintHarmless ==
  ASSUME NEW s \in State, NEW w, NEW b \in BOOLEAN
  PROVE  SetPaint(s, w, b) \in State /\ Harmless(s, SetPaint(s, w, b))
<1> DEFINE v == [i \in DOMAIN s.windows |->
                   IF s.windows[i].hwnd = w THEN [s.windows[i] EXCEPT !.paint_pending = b]
                   ELSE s.windows[i]]
<1>1. /\ s.windows \in Seq(WindowEntry) /\ DOMAIN s.windows = 1 .. Len(s.windows)
      /\ Len(s.windows) \in Nat
      /\ \A i \in DOMAIN s.windows : s.windows[i] \in WindowEntry
  BY StateParts, LenProperties
<1>2. \A i \in DOMAIN s.windows :
        v[i] \in WindowEntry /\ v[i].hwnd = s.windows[i].hwnd /\ v[i].proc = s.windows[i].proc
  BY <1>1 DEF WindowEntry
<1>3. v \in [1 .. Len(s.windows) -> WindowEntry]
  BY <1>1, <1>2
<1>4. DOMAIN v = DOMAIN s.windows
  OBVIOUS
<1>5. SetPaint(s, w, b) = [s EXCEPT !.windows = v]
  BY DEF SetPaint
<1> HIDE DEF v
<1>6. v \in Seq(WindowEntry)
  BY <1>1, <1>3, SeqDef
<1>7. [s EXCEPT !.windows = v] \in State
  BY <1>6 DEF State
<1>8. [s EXCEPT !.windows = v].windows = v /\ [s EXCEPT !.windows = v].queue = s.queue
  BY DEF State
<1> QED
  BY <1>2, <1>4, <1>5, <1>7, <1>8 DEF Harmless

\* destroy_window on a live window: the window goes, one WM_DESTROY is queued.
LEMMA DestroyKeeps ==
  ASSUME NEW s \in State, NEW k \in Seq(Frame), NEW w, Live(s, w), Once(s, k)
  PROVE  /\ destroy(s, w) \in State
         /\ Once(destroy(s, w), k)
         /\ Held(destroy(s, w), k) \subseteq Held(s, k)
         /\ Inherits(s, destroy(s, w))
<1>1. /\ s.windows \in Seq(WindowEntry) /\ s.queue \in Seq(Msg)
      /\ \A i \in DOMAIN s.windows : s.windows[i] \in WindowEntry /\ i \in Nat
  BY StateParts
<1>2. PICK p : p = First(Positions(s, w))
  OBVIOUS
<1>3. p \in DOMAIN s.windows /\ s.windows[p].hwnd = w
  <2>1. Positions(s, w) \subseteq Nat /\ Positions(s, w) # {}
    BY <1>1 DEF Positions, Live
  <2> QED
    BY <1>2, <2>1, FirstExists DEF Positions
<1>4. w \in Hwnd
  BY <1>1, <1>3 DEF WindowEntry
<1>5. PICK v : v = RemoveAt(s.windows, p)
  OBVIOUS
<1>6. /\ v \in Seq(WindowEntry)
      /\ \A i \in DOMAIN v : \E j \in DOMAIN s.windows \ {p} :
           v[i] = s.windows[j] /\ j = IF i < p THEN i ELSE i + 1
      /\ \A i \in DOMAIN v : i \in Nat
  <2>1. /\ v \in Seq(WindowEntry)
        /\ \A i \in DOMAIN v : \E j \in DOMAIN s.windows \ {p} :
             v[i] = s.windows[j] /\ j = IF i < p THEN i ELSE i + 1
    <3>1. PICK o : o = s.windows
      OBVIOUS
    <3>2. o \in Seq(WindowEntry) /\ p \in DOMAIN o
      BY <1>1, <1>3, <3>1
    <3>3. /\ RemoveAt(o, p) \in Seq(WindowEntry)
          /\ \A i \in DOMAIN RemoveAt(o, p) : \E j \in DOMAIN o \ {p} :
               RemoveAt(o, p)[i] = o[j] /\ j = IF i < p THEN i ELSE i + 1
      BY <3>2, RemoveOne
    <3> QED
      BY <1>5, <3>1, <3>3
  <2>2. \A i \in DOMAIN v : i \in Nat
    BY <2>1, LenProperties
  <2> QED
    BY <2>1, <2>2
<1>7. PICK d : d = [hwnd |-> w, message |-> "WM_DESTROY"]
  OBVIOUS
<1>8. d \in Msg /\ IsDestroy(d) /\ d.hwnd = w
  BY <1>4, <1>7 DEF Msg, Message, IsDestroy
<1>9. PICK q : q = Append(s.queue, d)
  OBVIOUS
<1>10. /\ q \in Seq(Msg) /\ DOMAIN q = DOMAIN s.queue \cup {Len(s.queue) + 1}
       /\ Len(s.queue) + 1 \notin DOMAIN s.queue
       /\ \A i \in DOMAIN s.queue : q[i] = s.queue[i]
       /\ q[Len(s.queue) + 1] = d
  BY <1>1, <1>8, <1>9, PushLast
<1>11. PICK e : e = destroy(s, w)
  OBVIOUS
<1>12. e \in State /\ e.windows = v /\ e.queue = q
  <2>1. PICK s0 : s0 = [s EXCEPT !.windows = v]
    OBVIOUS
  <2>2. s0 \in State /\ s0.windows = v /\ s0.queue = s.queue
    BY <1>6, <2>1 DEF State
  <2>3. e = post_message_internal(s0, w, "WM_DESTROY")
    BY <1>2, <1>5, <1>11, <2>1 DEF destroy
  <2>4. "WM_DESTROY" \in Message
    BY DEF Message
  <2> QED
    BY SMTT(30), <1>4, <1>7, <1>9, <2>2, <2>3, <2>4, PostAppends
<1>13. Inherits(s, e)
  BY <1>6, <1>12 DEF Inherits
<1>14. Owned(e) \subseteq Owned(s) \ {w}
  <2>1. ASSUME NEW i \in DOMAIN v PROVE v[i].hwnd \in Owned(s) \ {w}
    <3>1. PICK j \in DOMAIN s.windows \ {p} : v[i] = s.windows[j]
      BY <1>6
    <3>2. s.windows[j].hwnd # s.windows[p].hwnd
      BY <1>3 DEF Once
    <3> QED
      BY <1>3, <3>1, <3>2 DEF Owned
  <2> QED
    BY <1>12, <2>1 DEF Owned
<1>15. Doomed(e, k) \subseteq Doomed(s, k) \cup {w}
  BY <1>8, <1>10, <1>12 DEF Doomed
<1>16. w \in Owned(s) /\ w \notin Doomed(s, k)
  BY <1>3 DEF Owned, Once
<1>17. \A i \in DOMAIN s.queue : s.queue[i] # d
  BY <1>8, <1>16 DEF Doomed
<1>18. \A j \in DOMAIN k : k[j].got # d
  BY <1>8, <1>16 DEF Doomed
<1>19. \A i, j \in DOMAIN e.windows : e.windows[i].hwnd = e.windows[j].hwnd => i = j
  <2> SUFFICES ASSUME NEW i \in DOMAIN v, NEW j \in DOMAIN v, v[i].hwnd = v[j].hwnd
               PROVE  i = j
    BY <1>12
  <2>1. PICK x \in DOMAIN s.windows \ {p} : v[i] = s.windows[x] /\ x = IF i < p THEN i ELSE i + 1
    BY <1>6
  <2>2. PICK y \in DOMAIN s.windows \ {p} : v[j] = s.windows[y] /\ y = IF j < p THEN j ELSE j + 1
    BY <1>6
  <2>3. x = y
    BY <2>1, <2>2 DEF Once
  <2>4. i \in Nat /\ j \in Nat /\ p \in Nat /\ x # p /\ y # p
    BY <1>1, <1>3, <1>6
  <2> QED
    BY <2>1, <2>2, <2>3, <2>4
<1>20. \A i, j \in DOMAIN e.queue : IsDestroy(e.queue[i]) /\ e.queue[j] = e.queue[i] => i = j
  <2> SUFFICES ASSUME NEW i \in DOMAIN q, NEW j \in DOMAIN q, IsDestroy(q[i]), q[j] = q[i]
               PROVE  i = j
    BY <1>12
  <2>1. CASE i \in DOMAIN s.queue /\ j \in DOMAIN s.queue
    BY <1>10, <2>1 DEF Once
  <2>2. CASE i \notin DOMAIN s.queue \/ j \notin DOMAIN s.queue
    BY <1>10, <1>17, <2>2
  <2> QED
    BY <2>1, <2>2
<1>21. \A i \in DOMAIN e.queue, j \in DOMAIN k : IsDestroy(e.queue[i]) => k[j].got # e.queue[i]
  BY <1>10, <1>12, <1>18 DEF Once
<1>22. Owned(e) \cap Doomed(e, k) = {}
  BY <1>14, <1>15 DEF Once
<1>23. Once(e, k)
  BY <1>19, <1>20, <1>21, <1>22 DEF Once
<1>24. Held(e, k) \subseteq Held(s, k)
  BY <1>14, <1>15, <1>16 DEF Held
<1> QED
  BY <1>11, <1>12, <1>13, <1>23, <1>24

\* The default handling of any message.
LEMMA DefaultKeeps ==
  ASSUME NEW s \in State, NEW k \in Seq(Frame), NEW w, NEW m, Once(s, k)
  PROVE  LET e == def_window_proc_w_impl(s, w, m)
         IN  e \in State /\ Once(e, k) /\ Held(e, k) \subseteq Held(s, k) /\ Inherits(s, e)
<1>1. PICK e : e = def_window_proc_w_impl(s, w, m)
  OBVIOUS
<1>2. CASE m = "WM_CLOSE" /\ Live(s, w)
  <2>1. e = destroy(s, w)
    BY <1>1, <1>2 DEF def_window_proc_w_impl
  <2> QED
    BY <1>1, <1>2, <2>1, DestroyKeeps
<1>3. CASE ~(m = "WM_CLOSE" /\ Live(s, w))
  <2>1. e \in State /\ Harmless(s, e)
    <3>1. CASE m = "WM_DESTROY"
      <4>1. e = [s EXCEPT !.quit = TRUE]
        BY <1>1, <3>1 DEF def_window_proc_w_impl
      <4>2. e \in State /\ e.windows = s.windows /\ e.queue = s.queue
        BY <4>1 DEF State
      <4> QED
        BY <4>2 DEF Harmless
    <3>2. CASE m = "WM_PAINT"
      <4>1. e = SetPaint(s, w, FALSE)
        BY <1>1, <3>2 DEF def_window_proc_w_impl
      <4> QED
        BY <4>1, PaintHarmless
    <3>3. CASE m \notin {"WM_DESTROY", "WM_PAINT"}
      <4>1. e = s
        BY <1>1, <1>3, <3>3 DEF def_window_proc_w_impl, destroy
      <4> QED
        BY <4>1, NothingChanges
    <3> QED
      BY <3>1, <3>2, <3>3
  <2>2. Fewer(k, k)
    BY NothingChanges
  <2> QED
    BY <1>1, <2>1, <2>2, CalmStep
<1> QED
  BY <1>2, <1>3

\* Retrieving the head of the queue, by an activation that holds no message.
LEMMA TakeKeeps ==
  ASSUME NEW s \in State, NEW k \in Seq(Frame), k # <<>>, Last(k).got = NoMsg,
         s.queue # <<>>, Once(s, k), NEW e \in State, NEW l \in Seq(Frame),
         e.windows = s.windows, e.queue = Tail(s.queue),
         DOMAIN l = DOMAIN k, Len(k) \in DOMAIN k,
         \A i \in DOMAIN k : i # Len(k) => l[i] = k[i],
         l[Len(k)].got = Head(s.queue)
  PROVE  Once(e, l) /\ Held(e, l) \subseteq Held(s, k) /\ Inherits(s, e)
<1>1. PICK q : q = s.queue
  OBVIOUS
<1>2. /\ q \in Seq(Msg) /\ q # <<>> /\ 1 \in DOMAIN q /\ Head(q) = q[1]
      /\ \A i \in DOMAIN Tail(q) : i \in Nat /\ i + 1 \in DOMAIN q /\ Tail(q)[i] = q[i + 1]
  BY <1>1, StateParts
<1>3. Owned(e) = Owned(s)
  BY DEF Owned
<1>4. ~IsDestroy(k[Len(k)].got)
  BY DEF Last, IsDestroy, NoMsg
<1>5. Doomed(e, l) \subseteq Doomed(s, k)
  <2>1. ASSUME NEW i \in DOMAIN e.queue, IsDestroy(e.queue[i])
        PROVE  e.queue[i].hwnd \in Doomed(s, k)
    <3>1. i + 1 \in DOMAIN q /\ e.queue[i] = q[i + 1]
      BY <1>1, <1>2
    <3> QED
      BY <1>1, <2>1, <3>1 DEF Doomed
  <2>2. ASSUME NEW i \in DOMAIN l, IsDestroy(l[i].got)
        PROVE  l[i].got.hwnd \in Doomed(s, k)
    <3>1. CASE i = Len(k)
      BY <1>1, <1>2, <2>2, <3>1 DEF Doomed
    <3>2. CASE i # Len(k)
      BY <2>2, <3>2 DEF Doomed
    <3> QED
      BY <3>1, <3>2
  <2> QED
    BY <2>1, <2>2 DEF Doomed
<1>6. Inherits(s, e)
  BY DEF Inherits
<1>7. \A i, j \in DOMAIN e.queue : IsDestroy(e.queue[i]) /\ e.queue[j] = e.queue[i] => i = j
  <2> SUFFICES ASSUME NEW i \in DOMAIN Tail(q), NEW j \in DOMAIN Tail(q),
                      IsDestroy(Tail(q)[i]), Tail(q)[j] = Tail(q)[i]
               PROVE  i = j
    BY <1>1
  <2>1. i + 1 = j + 1
    BY <1>1, <1>2 DEF Once
  <2> QED
    BY <1>2, <2>1
<1>8. \A i, j \in DOMAIN l : IsDestroy(l[i].got) /\ l[j].got = l[i].got => i = j
  <2> SUFFICES ASSUME NEW i \in DOMAIN k, NEW j \in DOMAIN k,
                      IsDestroy(l[i].got), l[j].got = l[i].got, i # j
               PROVE  FALSE
    OBVIOUS
  <2>1. CASE i # Len(k) /\ j # Len(k)
    BY <2>1 DEF Once
  <2>2. CASE i = Len(k)
    <3>1. IsDestroy(q[1]) /\ k[j].got = q[1]
      BY <1>1, <1>2, <2>2
    <3> QED
      BY <1>1, <1>2, <3>1 DEF Once
  <2>3. CASE j = Len(k)
    <3>1. IsDestroy(q[1]) /\ k[i].got = q[1]
      BY <1>1, <1>2, <2>3
    <3> QED
      BY <1>1, <1>2, <3>1 DEF Once
  <2> QED
    BY <2>1, <2>2, <2>3
<1>9. \A i \in DOMAIN e.queue, j \in DOMAIN l : IsDestroy(e.queue[i]) => l[j].got # e.queue[i]
  <2> SUFFICES ASSUME NEW i \in DOMAIN Tail(q), NEW j \in DOMAIN k,
                      IsDestroy(Tail(q)[i]), l[j].got = Tail(q)[i]
               PROVE  FALSE
    BY <1>1
  <2>1. i + 1 \in DOMAIN q /\ IsDestroy(q[i + 1]) /\ l[j].got = q[i + 1] /\ i + 1 # 1
    BY <1>2
  <2>2. CASE j = Len(k)
    <3>1. q[1] = q[i + 1]
      BY <1>1, <1>2, <2>1, <2>2
    <3> QED
      BY <1>1, <1>2, <2>1, <3>1 DEF Once
  <2>3. CASE j # Len(k)
    BY <1>1, <2>1, <2>3 DEF Once
  <2> QED
    BY <2>2, <2>3
<1>10. Owned(e) \cap Doomed(e, l) = {}
  BY <1>3, <1>5 DEF Once
<1>11. \A i, j \in DOMAIN e.windows : e.windows[i].hwnd = e.windows[j].hwnd => i = j
  BY DEF Once
<1>12. Once(e, l)
  BY <1>7, <1>8, <1>9, <1>10, <1>11 DEF Once
<1> QED
  BY <1>3, <1>5, <1>6, <1>12 DEF Held

-----------------------------------------------------------------------------
(* All threads *)

\* A step of thread t that leaves it with tables e and activations l keeps the
\* inductive invariant, when it keeps t's own handles apart, takes new ones
\* only from NEXT_HWND, hands over only the WM_DESTROYs it gives up, and
\* leaves no procedure of a window behind without its WM_CREATE.
LEMMA StepKeeps ==
  ASSUME LoopInv, NEW t \in Thread, NEW e \in State, NEW l \in Seq(Frame),
         l # <<>>, l[1].kind = "main",
         state' = [state EXCEPT ![t] = e], stack' = [stack EXCEPT ![t] = l],
         \/ next' = next
         \/ next <= MaxIds /\ next' = next + 1,
         ended' \subseteq Thread,
         calls' = calls \/ Call(t),
         events' = events \/ (events < MaxEvents /\ events' = events + 1),
         forwards' = forwards,
         delivered \subseteq delivered',
         delivered' \subseteq [hwnd : Hwnd \cup {NoWindow}, message : Message,
                               by : {"proc", "default"}],
         Once(e, l),
         Held(e, l) \subseteq Held(state[t], stack[t]) \cup {x \in {next} : next < next'},
         Finished' \subseteq Finished \cup (Held(state[t], stack[t]) \ Held(e, l)),
         \A d \in delivered' : IsDestroy(d) => d.by = "default",
         \A d \in delivered' : d.by = "proc" => Handled(d.hwnd, "WM_CREATE", "proc")',
         \A i \in DOMAIN e.windows : e.windows[i].proc =>
           \/ Handled(e.windows[i].hwnd, "WM_CREATE", "proc")'
           \/ Creating(l, e.windows[i].hwnd),
         \A i \in DOMAIN l : \A j \in DOMAIN l[i].left : l[i].left[j] # "WM_DESTROY"
  PROVE  LoopInv'
<1>1. /\ state'[t] = e /\ stack'[t] = l
      /\ \A u \in Thread : u # t => state'[u] = state[u] /\ stack'[u] = stack[u]
      /\ next \in Nat /\ next \in 1 .. (MaxIds + 1) /\ MaxIds \in Nat
      /\ next' \in 1 .. (MaxIds + 1) /\ next' \in Nat /\ next <= next'
  BY LoopAssumption DEF LoopInv, TypeOK
<1>2. TypeOK'
  <2>1. state' \in [Thread -> State] /\ stack' \in [Thread -> Seq(Frame)]
    BY DEF LoopInv, TypeOK
  <2>2. \A u \in Thread : stack'[u] # <<>> /\ stack'[u][1].kind = "main"
    BY <1>1 DEF LoopInv, TypeOK
  <2>3. calls' \in [Thread -> Nat] /\ \A u \in Thread : calls'[u] <= MaxCalls[u]
    <3>1. MaxCalls \in [Thread -> Nat]
      BY LoopAssumption DEF MaxCalls
    <3>2. calls \in [Thread -> Nat] /\ \A u \in Thread : calls[u] <= MaxCalls[u]
      BY DEF LoopInv, TypeOK
    <3>3. CASE calls' = calls
      BY <3>2, <3>3
    <3>4. CASE Call(t)
      <4>1. calls[t] < MaxCalls[t] /\ calls' = [calls EXCEPT ![t] = @ + 1]
        BY <3>4 DEF Call
      <4>2. calls' \in [Thread -> Nat]
        BY <3>2, <4>1
      <4>3. \A u \in Thread : calls'[u] = IF u = t THEN calls[t] + 1 ELSE calls[u]
        BY <3>2, <4>1
      <4>4. calls[t] \in Nat /\ MaxCalls[t] \in Nat
        BY <3>1, <3>2
      <4>5. calls[t] + 1 <= MaxCalls[t]
        BY <4>1, <4>4
      <4> QED
        BY <3>2, <4>2, <4>3, <4>5
    <3> QED
      BY <3>3, <3>4
  <2>4. events' \in 0 .. MaxEvents
    BY SMTT(30), LoopAssumption DEF LoopInv, TypeOK
  <2>5. forwards' \in BOOLEAN
    BY DEF LoopInv, TypeOK
  <2> QED
    BY <1>1, <2>1, <2>2, <2>3, <2>4, <2>5 DEF TypeOK
<1>3. /\ Mine(t)' = Held(e, l) /\ Mine(t) = Held(state[t], stack[t])
      /\ \A u \in Thread : u # t => Mine(u)' = Mine(u)
  <2>1. Mine(t)' = Owned(state'[t]) \cup Doomed(state'[t], stack'[t])
    BY DEF Mine, Owned, Doomed
  <2>2. \A u \in Thread : Mine(u)' = Owned(state'[u]) \cup Doomed(state'[u], stack'[u])
    BY DEF Mine, Owned, Doomed
  <2> QED
    BY <1>1, <2>1, <2>2 DEF Mine, Held
<1>4. /\ \A u \in Thread : Mine(u) \subseteq (1 .. (next - 1)) \ Finished
      /\ \A u, v \in Thread : u # v => Mine(u) \cap Mine(v) = {}
      /\ Finished \subseteq 1 .. (next - 1)
      /\ \A u \in Thread : Once(state[u], stack[u])
  BY DEF LoopInv, HandlesApart
<1>5. 1 .. (next - 1) \subseteq 1 .. (next' - 1) /\ next \notin 1 .. (next - 1)
      /\ (next < next' => next \in 1 .. (next' - 1))
  BY <1>1
<1>6. Finished' \subseteq 1 .. (next' - 1)
  BY <1>3, <1>4, <1>5
<1>7. ASSUME NEW u \in Thread PROVE Mine(u)' \subseteq (1 .. (next' - 1)) \ Finished'
  <2>1. CASE u = t
    <3>1. \A x \in Held(e, l) : x \in 1 .. (next' - 1)
      BY <1>3, <1>4, <1>5
    <3>2. \A x \in Held(e, l) : x \notin Finished
      BY <1>3, <1>4, <1>5
    <3> QED
      BY <1>3, <2>1, <3>1, <3>2
  <2>2. CASE u # t
    <3>1. Mine(u) \cap Mine(t) = {}
      BY <1>4, <2>2
    <3> QED
      BY <1>3, <1>4, <1>5, <2>2, <3>1
  <2> QED
    BY <2>1, <2>2
<1>8. ASSUME NEW u \in Thread, NEW v \in Thread, u # v PROVE Mine(u)' \cap Mine(v)' = {}
  <2>1. \A x \in Thread : x # t => Held(e, l) \cap Mine(x) = {}
    BY <1>3, <1>4, <1>5
  <2> QED
    BY <1>3, <1>4, <1>8, <2>1
<1>9. \A u \in Thread : Once(state[u], stack[u])'
  <2>1. ASSUME NEW u \in Thread PROVE Once(state[u], stack[u])'
    <3>1. Once(state'[u], stack'[u])
      BY <1>1, <1>4
    <3> QED
      BY <3>1 DEF Once, Owned, Doomed
  <2> QED
    BY <2>1
<1>10. HandlesApart'
  BY <1>6, <1>7, <1>8, <1>9 DEF HandlesApart, IsDestroy
<1>11. CreatedFirst'
  <2>1. ASSUME NEW u \in Thread, NEW i \in DOMAIN state'[u].windows, state'[u].windows[i].proc
        PROVE  \/ Handled(state[u].windows[i].hwnd, "WM_CREATE", "proc")'
               \/ Creating(stack[u], state[u].windows[i].hwnd)'
    <3>1. CASE u = t
      BY ZenonT(60), <1>1, <2>1, <3>1 DEF Handled, Creating
    <3>2. CASE u # t
      BY SMTT(30), <1>1, <2>1, <3>2 DEF LoopInv, CreatedFirst, Handled, Creating
    <3> QED
      BY <3>1, <3>2
  <2> QED
    BY <2>1 DEF CreatedFirst
<1>12. CreationLeft'
  BY <1>1 DEF LoopInv, CreationLeft
<1> QED
  BY <1>2, <1>10, <1>11, <1>12 DEF LoopInv

\* Activations a thread can have: the main loop first, and no WM_DESTROY among
\* the messages a CreateWindowExW still has to send.
Activations(l) ==
  /\ l \in Seq(Frame) /\ l # <<>> /\ l[1].kind = "main"
  /\ \A i \in DOMAIN l : \A j \in DOMAIN l[i].left : l[i].left[j] # "WM_DESTROY"

\* What the invariant says of one thread.
LEMMA ThreadParts ==
  ASSUME LoopInv, NEW t \in Thread
  PROVE  /\ state[t] \in State /\ Activations(stack[t]) /\ Once(state[t], stack[t])
         /\ stack[t] \in Seq(Frame) /\ stack[t] # <<>>
         /\ Len(stack[t]) \in DOMAIN stack[t] /\ Top(t) = stack[t][Len(stack[t])]
         /\ Top(t) \in Frame
         /\ Held(state[t], stack[t]) \subseteq (1 .. (next - 1)) \ Finished
         /\ next \in Nat /\ 1 .. (next - 1) \subseteq Hwnd
         /\ forwards \in BOOLEAN
<1>1. state[t] \in State /\ stack[t] \in Seq(Frame) /\ stack[t] # <<>> /\ stack[t][1].kind = "main"
  BY DEF LoopInv, TypeOK
<1>2. Activations(stack[t])
  BY <1>1 DEF LoopInv, CreationLeft, Activations
<1>3. Len(stack[t]) \in DOMAIN stack[t] /\ Top(t) = stack[t][Len(stack[t])] /\ Top(t) \in Frame
  BY <1>1 DEF Top, Last
<1>4. Once(state[t], stack[t]) /\ Held(state[t], stack[t]) \subseteq (1 .. (next - 1)) \ Finished
  BY DEF LoopInv, HandlesApart, Mine, Held
<1>5. next \in Nat /\ 1 .. (next - 1) \subseteq Hwnd /\ forwards \in BOOLEAN
  BY LoopAssumption DEF LoopInv, TypeOK, Hwnd
<1> QED
  BY <1>1, <1>2, <1>3, <1>4, <1>5

\* A frame pushed without a retrieved message.
LEMMA PushFrame ==
  ASSUME NEW k, Activations(k), NEW kind \in {"proc", "create"},
         NEW w \in Hwnd \cup {NoWindow}, NEW m \in Message, NEW left \in Seq(Message),
         \A j \in DOMAIN left : left[j] # "WM_DESTROY"
  PROVE  LET l == Append(k, NewFrame(kind, w, m, left))
         IN  /\ Activations(l) /\ Fewer(k, l) /\ Last(l) = NewFrame(kind, w, m, left)
<1>1. PICK f : f = NewFrame(kind, w, m, left)
  OBVIOUS
<1>2. f \in Frame /\ f.left = left /\ f.got = NoMsg
  BY <1>1 DEF NewFrame, Frame
<1>3. ~IsDestroy(f.got)
  BY <1>2 DEF IsDestroy, NoMsg
<1>4. k \in Seq(Frame) /\ k # <<>> /\ 1 \in DOMAIN k
  BY DEF Activations
<1>5. PICK l : l = Append(k, f)
  OBVIOUS
<1>6. /\ l \in Seq(Frame) /\ DOMAIN l = DOMAIN k \cup {Len(k) + 1}
      /\ \A i \in DOMAIN k : l[i] = k[i]
      /\ l[Len(k) + 1] = f
  BY <1>2, <1>4, <1>5, PushLast
<1>7. l # <<>> /\ Len(l) = Len(k) + 1
  BY <1>2, <1>4, <1>5
<1>8. Fewer(k, l)
  BY <1>3, <1>6 DEF Fewer
<1>9. Activations(l)
  BY <1>2, <1>4, <1>6, <1>7 DEF Activations
<1> QED
  BY <1>1, <1>5, <1>6, <1>7, <1>8, <1>9 DEF Last

\* The running activation changed in place.
LEMMA ChangeTop ==
  ASSUME NEW k, Activations(k), NEW f \in Frame, f.kind = Last(k).kind,
         \A j \in DOMAIN f.left : f.left[j] # "WM_DESTROY"
  PROVE  LET l == Append(Front(k), f)
         IN  /\ Activations(l)
             /\ DOMAIN l = DOMAIN k /\ Len(k) \in DOMAIN k
             /\ \A i \in DOMAIN k : i # Len(k) => l[i] = k[i]
             /\ l[Len(k)] = f /\ Last(l) = f
             /\ (IsDestroy(f.got) => f.got = Last(k).got) => Fewer(k, l)
<1>1. k \in Seq(Frame) /\ k # <<>> /\ 1 \in DOMAIN k /\ Len(k) \in DOMAIN k /\ Last(k) = k[Len(k)]
  BY DEF Activations, Last
<1>2. PICK l : l = Append(Front(k), f)
  OBVIOUS
<1>3. /\ l \in Seq(Frame) /\ DOMAIN l = DOMAIN k
      /\ \A i \in DOMAIN k : l[i] = IF i = Len(k) THEN f ELSE k[i]
  BY <1>1, <1>2, ReplaceLast
<1>4. l # <<>> /\ Len(l) = Len(k)
  BY <1>1, <1>3
<1>5. Activations(l)
  BY <1>1, <1>3, <1>4 DEF Activations
<1>6. (IsDestroy(f.got) => f.got = Last(k).got) => Fewer(k, l)
  BY <1>1, <1>3 DEF Fewer
<1> QED
  BY <1>1, <1>2, <1>3, <1>4, <1>5, <1>6 DEF Last

\* The running activation returns; the main loop never does.
LEMMA PopFrame ==
  ASSUME NEW k, Activations(k), Last(k).kind # "main"
  PROVE  Activations(Front(k)) /\ Fewer(k, Front(k))
<1>1. k \in Seq(Frame) /\ k # <<>> /\ 1 \in DOMAIN k /\ Len(k) \in DOMAIN k /\ Last(k) = k[Len(k)]
  BY DEF Activations, Last
<1>2. PICK l : l = Front(k)
  OBVIOUS
<1>3. /\ l \in Seq(Frame) /\ DOMAIN l = DOMAIN k \ {Len(k)}
      /\ \A i \in DOMAIN l : l[i] = k[i]
  BY <1>1, <1>2, DropLast
<1>4. 1 \in DOMAIN l
  BY <1>1, <1>3 DEF Activations
<1>5. l # <<>>
  <2>1. DOMAIN l = 1 .. Len(l) /\ Len(l) \in Nat
    BY <1>3, LenProperties
  <2>2. Len(l) # 0
    BY <1>4, <2>1
  <2> QED
    BY <2>2, EmptySeq
<1> QED
  BY <1>2, <1>3, <1>4, <1>5 DEF Activations, Fewer

\* A step that delivers nothing and gives out no handle to a window.
LEMMA QuietStep ==
  ASSUME LoopInv, NEW t \in Thread, NEW e \in State, NEW l, Activations(l),
         state' = [state EXCEPT ![t] = e], stack' = [stack EXCEPT ![t] = l],
         \/ next' = next
         \/ next <= MaxIds /\ next' = next + 1,
         ended' \subseteq Thread,
         calls' = calls \/ Call(t),
         events' = events \/ (events < MaxEvents /\ events' = events + 1),
         forwards' = forwards, delivered' = delivered,
         Once(e, l), Held(e, l) \subseteq Held(state[t], stack[t]), Inherits(state[t], e),
         \A w : Creating(stack[t], w) => Creating(l, w)
  PROVE  LoopInv'
<1>1. delivered' \subseteq [hwnd : Hwnd \cup {NoWindow}, message : Message,
                            by : {"proc", "default"}]
  BY DEF LoopInv, TypeOK
<1>2. Finished' = Finished
  BY DEF Finished, IsDestroy
<1>3. \A d \in delivered' : IsDestroy(d) => d.by = "default"
  BY DEF LoopInv, HandlesApart
<1>4. \A d \in delivered' : d.by = "proc" => Handled(d.hwnd, "WM_CREATE", "proc")'
  BY DEF LoopInv, CreatedFirst, Handled
<1>5. \A i \in DOMAIN e.windows : e.windows[i].proc =>
        \/ Handled(e.windows[i].hwnd, "WM_CREATE", "proc")'
        \/ Creating(l, e.windows[i].hwnd)
  <2> SUFFICES ASSUME NEW i \in DOMAIN e.windows, e.windows[i].proc
               PROVE  \/ Handled(e.windows[i].hwnd, "WM_CREATE", "proc")'
                      \/ Creating(l, e.windows[i].hwnd)
    OBVIOUS
  <2>1. PICK j \in DOMAIN state[t].windows :
          /\ e.windows[i].hwnd = state[t].windows[j].hwnd
          /\ e.windows[i].proc = state[t].windows[j].proc
    BY DEF Inherits
  <2>2. \/ Handled(e.windows[i].hwnd, "WM_CREATE", "proc")
        \/ Creating(stack[t], e.windows[i].hwnd)
    BY <2>1 DEF LoopInv, CreatedFirst
  <2> QED
    BY <2>2 DEF Handled
<1>6. l \in Seq(Frame) /\ l # <<>> /\ l[1].kind = "main"
      /\ \A i \in DOMAIN l : \A j \in DOMAIN l[i].left : l[i].left[j] # "WM_DESTROY"
  BY DEF Activations
<1> QED
  BY <1>1, <1>2, <1>3, <1>4, <1>5, <1>6, StepKeeps

\* Delivering a message on top of the activations stk: a procedure sees it only
\* when it has seen WM_CREATE or this is it, and a WM_DESTROY is one that stk
\* no longer holds.
LEMMA DeliverKeeps ==
  ASSUME LoopInv, NEW t \in Thread, NEW w \in Hwnd \cup {NoWindow}, NEW m \in Message,
         NEW stk, Activations(stk), Fewer(stack[t], stk), Deliver(t, w, m, stk),
         next' = next, ended' = ended, events' = events, forwards' = forwards,
         calls' = calls \/ Call(t),
         m = "WM_DESTROY" => /\ w \in Doomed(state[t], stack[t])
                             /\ w \notin Doomed(state[t], stk),
         \A i \in DOMAIN state[t].windows : state[t].windows[i].proc =>
           \/ Handled(state[t].windows[i].hwnd, "WM_CREATE", "proc")
           \/ state[t].windows[i].hwnd = w /\ m = "WM_CREATE"
  PROVE  LoopInv'
<1>1. PICK s : s = state[t]
  OBVIOUS
<1>2. PICK k : k = stack[t]
  OBVIOUS
<1>3. /\ s \in State /\ Once(s, k) /\ Held(s, k) \subseteq (1 .. (next - 1)) \ Finished
      /\ ended \subseteq Thread
      /\ stk \in Seq(Frame)
  BY <1>1, <1>2, ThreadParts DEF LoopInv, TypeOK, Activations
<1>4. Once(s, stk) /\ Held(s, stk) \subseteq Held(s, k)
  BY <1>1, <1>2, <1>3, NothingChanges, CalmStep
<1>5. \A d \in delivered :
        /\ d.by = "proc" => Handled(d.hwnd, "WM_CREATE", "proc")
        /\ IsDestroy(d) => d.by = "default"
  BY DEF LoopInv, CreatedFirst, HandlesApart
<1>6. delivered \subseteq [hwnd : Hwnd \cup {NoWindow}, message : Message,
                           by : {"proc", "default"}]
  BY DEF LoopInv, TypeOK
<1>7. CASE HasProc(s, w)
  <2>1. PICK p \in DOMAIN s.windows : s.windows[p].hwnd = w /\ s.windows[p].proc
    BY <1>7 DEF HasProc, Positions
  <2>2. m # "WM_DESTROY"
    BY <1>1, <1>2, <1>3, <2>1 DEF Once, Owned
  <2>3. PICK d : d = [hwnd |-> w, message |-> m, by |-> "proc"]
    OBVIOUS
  <2>4. PICK l : l = Append(stk, NewFrame("proc", w, m, <<>>))
    OBVIOUS
  <2>5. /\ stack' = [stack EXCEPT ![t] = l] /\ delivered' = delivered \cup {d} /\ state' = state
    BY <1>1, <1>7, <2>3, <2>4 DEF Deliver
  <2>6. Activations(l) /\ Fewer(stk, l)
    <3>1. <<>> \in Seq(Message) /\ \A j \in DOMAIN <<>> : <<>>[j] # "WM_DESTROY"
      OBVIOUS
    <3> QED
      BY <2>4, <3>1, PushFrame
  <2>7. Once(s, l) /\ Held(s, l) \subseteq Held(s, stk)
    BY <1>4, <2>6, NothingChanges, CalmStep
  <2>8. state' = [state EXCEPT ![t] = s]
    BY <1>1, <2>5 DEF LoopInv, TypeOK
  <2>9. Handled(w, "WM_CREATE", "proc")'
    <3>1. \/ Handled(w, "WM_CREATE", "proc")
          \/ m = "WM_CREATE"
      BY <1>1, <2>1
    <3> QED
      BY <2>3, <2>5, <3>1 DEF Handled
  <2>10. \A x : Handled(x, "WM_CREATE", "proc") => Handled(x, "WM_CREATE", "proc")'
    BY <2>5 DEF Handled
  <2>11. Finished' = Finished
    BY <2>2, <2>3, <2>5 DEF Finished, IsDestroy
  <2>12. \A x \in delivered' :
           /\ x.by = "proc" => Handled(x.hwnd, "WM_CREATE", "proc")'
           /\ IsDestroy(x) => x.by = "default"
    BY <1>5, <2>2, <2>3, <2>5, <2>9, <2>10 DEF IsDestroy
  <2>13. delivered' \subseteq [hwnd : Hwnd \cup {NoWindow}, message : Message,
                               by : {"proc", "default"}]
    BY <1>6, <2>3, <2>5
  <2>14. \A i \in DOMAIN s.windows : s.windows[i].proc =>
           \/ Handled(s.windows[i].hwnd, "WM_CREATE", "proc")'
           \/ Creating(l, s.windows[i].hwnd)
    BY <1>1, <2>9, <2>10
  <2>15. /\ l \in Seq(Frame) /\ l # <<>> /\ l[1].kind = "main"
         /\ \A i \in DOMAIN l : \A j \in DOMAIN l[i].left : l[i].left[j] # "WM_DESTROY"
    BY <2>6 DEF Activations
  <2>16. delivered \subseteq delivered' /\ Held(s, l) \subseteq Held(state[t], stack[t])
    BY <1>1, <1>2, <1>4, <2>5, <2>7
  <2> QED
    BY <1>3, <2>5, <2>7, <2>8, <2>11, <2>12, <2>13, <2>14, <2>15, <2>16, StepKeeps
<1>8. CASE ~HasProc(s, w)
  <2>1. PICK d : d = [hwnd |-> w, message |-> m, by |-> "default"]
    OBVIOUS
  <2>2. PICK e : e = def_window_proc_w_impl(s, w, m)
    OBVIOUS
  <2>3. /\ stack' = [stack EXCEPT ![t] = stk] /\ delivered' = delivered \cup {d}
        /\ state' = [state EXCEPT ![t] = e]
    BY <1>1, <1>8, <2>1, <2>2 DEF Deliver
  <2>4. e \in State /\ Once(e, stk) /\ Held(e, stk) \subseteq Held(s, stk) /\ Inherits(s, e)
    BY <1>3, <1>4, <2>2, DefaultKeeps
  <2>5. \A x : Handled(x, "WM_CREATE", "proc") => Handled(x, "WM_CREATE", "proc")'
    BY <2>3 DEF Handled
  <2>6. \A x \in delivered' :
          /\ x.by = "proc" => Handled(x.hwnd, "WM_CREATE", "proc")'
          /\ IsDestroy(x) => x.by = "default"
    BY <1>5, <2>1, <2>3, <2>5
  <2>7. delivered' \subseteq [hwnd : Hwnd \cup {NoWindow}, message : Message,
                              by : {"proc", "default"}]
    BY <1>6, <2>1, <2>3
  <2>8. \A i \in DOMAIN e.windows : e.windows[i].proc =>
          Handled(e.windows[i].hwnd, "WM_CREATE", "proc")'
    <3> SUFFICES ASSUME NEW i \in DOMAIN e.windows, e.windows[i].proc
                 PROVE  Handled(e.windows[i].hwnd, "WM_CREATE", "proc")'
      OBVIOUS
    <3>1. PICK j \in DOMAIN s.windows :
            e.windows[i].hwnd = s.windows[j].hwnd /\ e.windows[i].proc = s.windows[j].proc
      BY <2>4 DEF Inherits
    <3>2. s.windows[j].hwnd # w
      BY <1>8, <3>1 DEF HasProc, Positions
    <3>3. Handled(s.windows[j].hwnd, "WM_CREATE", "proc")
      BY <1>1, <3>1, <3>2
    <3> QED
      BY <2>5, <3>1, <3>3
  <2>9. Finished' \subseteq Finished \cup (Held(s, k) \ Held(e, stk))
    <3>1. CASE m # "WM_DESTROY"
      BY <2>1, <2>3, <3>1 DEF Finished, IsDestroy
    <3>2. CASE m = "WM_DESTROY"
      <4>1. Finished' \subseteq Finished \cup {w}
        BY <2>1, <2>3 DEF Finished, IsDestroy
      <4>2. w \in Held(s, k) /\ w \notin Held(s, stk)
        BY <1>1, <1>2, <1>3, <3>2 DEF Held, Once
      <4> QED
        BY <2>4, <4>1, <4>2
    <3> QED
      BY <3>1, <3>2
  <2>10. /\ stk \in Seq(Frame) /\ stk # <<>> /\ stk[1].kind = "main"
         /\ \A i \in DOMAIN stk : \A j \in DOMAIN stk[i].left : stk[i].left[j] # "WM_DESTROY"
    BY DEF Activations
  <2>11. delivered \subseteq delivered' /\ Held(e, stk) \subseteq Held(state[t], stack[t])
    BY <1>1, <1>2, <1>4, <2>3, <2>4
  <2>12. Finished' \subseteq Finished \cup (Held(state[t], stack[t]) \ Held(e, stk))
    BY <1>1, <1>2, <2>9
  <2> QED
    BY <1>3, <2>3, <2>4, <2>6, <2>7, <2>8, <2>10, <2>11, <2>12, StepKeeps
<1> QED
  BY <1>7, <1>8

\* While guest code runs, no CreateWindowExW of the thread is about to begin.
LEMMA NoCreation ==
  ASSUME LoopInv, NEW t \in Thread, Top(t).kind # "create" \/ Top(t).left # CreationMessages
  PROVE  /\ \A w : ~Creating(stack[t], w)
         /\ \A i \in DOMAIN state[t].windows : state[t].windows[i].proc =>
              Handled(state[t].windows[i].hwnd, "WM_CREATE", "proc")
<1>1. \A w : ~Creating(stack[t], w)
  BY DEF Creating, Top
<1> QED
  BY <1>1 DEF LoopInv, CreatedFirst

\* A step of thread t that changes nothing but what is harmless in its tables.
LEMMA HarmlessStep ==
  ASSUME LoopInv, NEW t \in Thread, NEW e \in State, Harmless(state[t], e),
         state' = [state EXCEPT ![t] = e], stack' = stack,
         \/ next' = next
         \/ next <= MaxIds /\ next' = next + 1,
         ended' \subseteq Thread,
         calls' = calls \/ Call(t),
         events' = events \/ (events < MaxEvents /\ events' = events + 1),
         forwards' = forwards, delivered' = delivered
  PROVE  LoopInv'
<1>1. Once(state[t], stack[t]) /\ Activations(stack[t])
  BY ThreadParts
<1>2. Fewer(stack[t], stack[t])
  BY NothingChanges
<1>3. Once(e, stack[t]) /\ Held(e, stack[t]) \subseteq Held(state[t], stack[t]) /\ Inherits(state[t], e)
  BY <1>1, <1>2, CalmStep
<1>4. stack' = [stack EXCEPT ![t] = stack[t]]
  BY DEF LoopInv, TypeOK
<1> QED
  BY <1>1, <1>3, <1>4, QuietStep

\* Registering a class.
LEMMA RegisterInv ==
  ASSUME LoopInv, NEW t \in Thread, register_class_ex_w(t), forwards' = forwards
  PROVE  LoopInv'
<1>1. PICK n \in Class, p \in BOOLEAN :
        state' = [state EXCEPT ![t].classes =
                    Append(@, [atom |-> next % AtomSpace, name |-> n, proc |-> p])]
  BY DEF register_class_ex_w
<1>2. next % AtomSpace \in 0 .. (AtomSpace - 1)
  <2>1. next \in Nat /\ AtomSpace \in Nat /\ AtomSpace > 0
    BY LoopAssumption, ThreadParts
  <2> QED
    BY <2>1
<1>3. PICK c : c = [atom |-> next % AtomSpace, name |-> n, proc |-> p]
  OBVIOUS
<1>4. c \in ClassEntry
  BY <1>2, <1>3 DEF ClassEntry
<1>5. PICK s : s = state[t]
  OBVIOUS
<1>6. s \in State /\ s.classes \in Seq(ClassEntry)
  BY <1>5, ThreadParts, StateParts
<1>7. PICK e : e = [s EXCEPT !.classes = Append(@, c)]
  OBVIOUS
<1>8. Append(s.classes, c) \in Seq(ClassEntry)
  BY <1>4, <1>6, AppendProperties
<1>9. e \in State /\ e.windows = s.windows /\ e.queue = s.queue
  BY <1>6, <1>7, <1>8 DEF State
<1>10. Harmless(s, e)
  BY <1>9 DEF Harmless
<1>11. state' = [state EXCEPT ![t] = e]
  BY <1>1, <1>3, <1>5, <1>7
<1> QED
  BY <1>5, <1>9, <1>10, <1>11, HarmlessStep
     DEF register_class_ex_w, LoopInv, TypeOK

\* Unregistering a class.
LEMMA UnregisterInv ==
  ASSUME LoopInv, NEW t \in Thread, unregister_class_w(t), forwards' = forwards
  PROVE  LoopInv'
<1>1. PICK n \in Class :
        /\ Named(state[t], n) # {}
        /\ state' = [state EXCEPT ![t].classes = RemoveAt(@, First(Named(state[t], n)))]
  BY DEF unregister_class_w
<1>2. PICK s : s = state[t]
  OBVIOUS
<1>3. s \in State /\ s.classes \in Seq(ClassEntry)
  BY <1>2, ThreadParts, StateParts
<1>4. PICK p : p = First(Named(s, n))
  OBVIOUS
<1>5. p \in DOMAIN s.classes
  <2>1. Named(s, n) \subseteq DOMAIN s.classes /\ DOMAIN s.classes \subseteq Nat
    BY <1>3, LenProperties DEF Named
  <2>2. Named(s, n) # {} /\ Named(s, n) \subseteq Nat
    BY <1>1, <1>2, <2>1
  <2> QED
    BY <1>4, <2>1, <2>2, FirstExists
<1>6. RemoveAt(s.classes, p) \in Seq(ClassEntry)
  BY <1>3, <1>5, RemoveOne
<1>7. PICK e : e = [s EXCEPT !.classes = RemoveAt(@, p)]
  OBVIOUS
<1>8. e \in State /\ e.windows = s.windows /\ e.queue = s.queue
  BY <1>3, <1>6, <1>7 DEF State
<1>9. Harmless(s, e)
  BY <1>8 DEF Harmless
<1>10. state' = [state EXCEPT ![t] = e]
  BY <1>1, <1>2, <1>4, <1>7
<1> QED
  BY <1>2, <1>8, <1>9, <1>10, HarmlessStep DEF unregister_class_w, LoopInv, TypeOK

\* DestroyWindow.
LEMMA DestroyInv ==
  ASSUME LoopInv, NEW t \in Thread, destroy_window(t), forwards' = forwards
  PROVE  LoopInv'
<1>1. PICK w \in 1 .. (next - 1) :
        Live(state[t], w) /\ state' = [state EXCEPT ![t] = destroy(@, w)]
  BY DEF destroy_window
<1>2. PICK e : e = destroy(state[t], w)
  OBVIOUS
<1>3. /\ e \in State /\ Once(e, stack[t])
      /\ Held(e, stack[t]) \subseteq Held(state[t], stack[t]) /\ Inherits(state[t], e)
  BY <1>1, <1>2, ThreadParts, DestroyKeeps
<1>4. state' = [state EXCEPT ![t] = e] /\ stack' = [stack EXCEPT ![t] = stack[t]]
  BY <1>1, <1>2 DEF destroy_window, LoopInv, TypeOK
<1> QED
  BY <1>3, <1>4, ThreadParts, QuietStep DEF destroy_window, LoopInv, TypeOK

\* InvalidateRect, PostMessageW and PostQuitMessage, and an event of the
\* display server.
LEMMA InvalidateInv ==
  ASSUME LoopInv, NEW t \in Thread, invalidate_rect(t), forwards' = forwards
  PROVE  LoopInv'
<1>1. PICK w \in 1 .. (next - 1) : state' = [state EXCEPT ![t] = SetPaint(@, w, TRUE)]
  BY DEF invalidate_rect
<1>2. SetPaint(state[t], w, TRUE) \in State /\ Harmless(state[t], SetPaint(state[t], w, TRUE))
  BY ThreadParts, PaintHarmless
<1> QED
  BY <1>1, <1>2, HarmlessStep DEF invalidate_rect, LoopInv, TypeOK

LEMMA PostInv ==
  ASSUME LoopInv, NEW t \in Thread, post_message_w(t), forwards' = forwards
  PROVE  LoopInv'
<1>1. PICK w \in 1 .. (next - 1), m \in GuestMessage :
        state' = [state EXCEPT ![t] = post_message_internal(@, w, m)]
  BY DEF post_message_w
<1>2. w \in Hwnd \cup {NoWindow} /\ m \in Message /\ m # "WM_DESTROY"
  BY ThreadParts DEF GuestMessage, Message
<1>3. /\ post_message_internal(state[t], w, m) \in State
      /\ Harmless(state[t], post_message_internal(state[t], w, m))
  BY <1>2, ThreadParts, PostHarmless
<1> QED
  BY <1>1, <1>3, HarmlessStep DEF post_message_w, LoopInv, TypeOK

LEMMA PostQuitInv ==
  ASSUME LoopInv, NEW t \in Thread, post_quit_message(t), forwards' = forwards
  PROVE  LoopInv'
<1>1. PICK e : e = [state[t] EXCEPT !.quit = TRUE]
  OBVIOUS
<1>2. e \in State /\ e.windows = state[t].windows /\ e.queue = state[t].queue
  BY <1>1, ThreadParts DEF State
<1>3. Harmless(state[t], e)
  BY <1>2 DEF Harmless
<1>4. state' = [state EXCEPT ![t] = e]
  BY <1>1 DEF post_quit_message
<1> QED
  BY <1>2, <1>3, <1>4, HarmlessStep DEF post_quit_message, LoopInv, TypeOK

\* The events waiting for a window's host window are no concern of the invariant.
LEMMA PendingHarmless ==
  ASSUME NEW s \in State, NEW i \in DOMAIN s.windows, NEW q \in Seq(HostEvent)
  PROVE  LET e == [s EXCEPT !.windows[i].pending = q]
         IN  e \in State /\ Harmless(s, e) /\ e.queue = s.queue
<1>1. PICK v : v = s.windows
  OBVIOUS
<1>2. v \in Seq(WindowEntry) /\ v[i] \in WindowEntry /\ i \in DOMAIN v /\ i \in 1 .. Len(v)
  BY <1>1, StateParts, LenProperties
<1>3. PICK f : f = [v[i] EXCEPT !.pending = q]
  OBVIOUS
<1>4. f \in WindowEntry /\ f.hwnd = v[i].hwnd /\ f.proc = v[i].proc
  BY <1>2, <1>3 DEF WindowEntry
<1>5. PICK x : x = [v EXCEPT ![i] = f]
  OBVIOUS
<1>6. /\ x \in Seq(WindowEntry) /\ DOMAIN x = DOMAIN v
      /\ \A j \in DOMAIN v : x[j] = IF j = i THEN f ELSE v[j]
  BY <1>2, <1>4, <1>5, ExceptSeq
<1>7. PICK e : e = [s EXCEPT !.windows = x]
  OBVIOUS
<1>8. e = [s EXCEPT !.windows[i].pending = q]
  BY <1>1, <1>3, <1>5, <1>7 DEF State
<1>9. e \in State /\ e.windows = x /\ e.queue = s.queue
  BY <1>6, <1>7 DEF State
<1>10. Harmless(s, e)
  BY <1>1, <1>4, <1>6, <1>9 DEF Harmless
<1> QED
  BY <1>8, <1>9, <1>10

LEMMA HostSendsInv ==
  ASSUME LoopInv, NEW t \in Thread, HostSends(t), forwards' = forwards
  PROVE  LoopInv'
<1>1. PICK i \in HostWindows(state[t]), v \in HostEvent :
        state' = [state EXCEPT ![t].windows[i].pending = Append(@, v)]
  BY DEF HostSends
<1>2. PICK s : s = state[t]
  OBVIOUS
<1>3. s \in State /\ i \in DOMAIN s.windows /\ s.windows[i] \in WindowEntry
  BY <1>2, ThreadParts, StateParts DEF HostWindows
<1>4. PICK q : q = Append(s.windows[i].pending, v)
  OBVIOUS
<1>5. q \in Seq(HostEvent)
  BY <1>3, <1>4, AppendProperties DEF WindowEntry
<1>6. PICK e : e = [s EXCEPT !.windows[i].pending = q]
  OBVIOUS
<1>7. e \in State /\ Harmless(s, e)
  BY <1>3, <1>5, <1>6, PendingHarmless
<1>8. state' = [state EXCEPT ![t] = e]
  BY <1>1, <1>2, <1>3, <1>4, <1>6 DEF LoopInv, TypeOK, State
<1> QED
  BY <1>2, <1>7, <1>8, HarmlessStep DEF HostSends, LoopInv, TypeOK

\* CreateWindowExW gives its window a handle no thread has had.
LEMMA CreateInv ==
  ASSUME LoopInv, NEW t \in Thread, create_window_ex_w(t), forwards' = forwards
  PROVE  LoopInv'
<1>1. PICK s : s = state[t]
  OBVIOUS
<1>2. PICK k : k = stack[t]
  OBVIOUS
<1>3. /\ s \in State /\ Activations(k) /\ Once(s, k) /\ k \in Seq(Frame)
      /\ Held(s, k) \subseteq (1 .. (next - 1)) \ Finished /\ next \in Nat
  BY <1>1, <1>2, ThreadParts
<1>4. s.windows \in Seq(WindowEntry) /\ s.classes \in Seq(ClassEntry)
  BY <1>3, StateParts
<1>5. PICK n \in Class, host \in BOOLEAN :
        /\ Named(s, n) # {}
        /\ state' = [state EXCEPT ![t].windows =
                       Append(@, [hwnd |-> next, proc |-> ClassOf(s, n).proc, host |-> host,
                                  paint_pending |-> FALSE, pending |-> <<>>])]
        /\ stack' = [stack EXCEPT ![t] =
                       IF ClassOf(s, n).proc
                       THEN Append(@, NewFrame("create", next, "WM_NULL", CreationMessages))
                       ELSE @]
  BY <1>1 DEF create_window_ex_w
<1>6. PICK proc : proc = ClassOf(s, n).proc
  OBVIOUS
<1>7. proc \in BOOLEAN
  <2>1. PICK cs : cs = s.classes
    OBVIOUS
  <2>2. cs \in Seq(ClassEntry) /\ DOMAIN cs \subseteq Nat /\ \A i \in DOMAIN cs : cs[i] \in ClassEntry
    BY <1>4, <2>1, LenProperties
  <2>3. PICK a : a = First(Named(s, n))
    OBVIOUS
  <2>4. Named(s, n) \subseteq DOMAIN cs /\ Named(s, n) \subseteq Nat
    BY <2>1, <2>2 DEF Named
  <2>5. a \in DOMAIN cs
    BY <1>5, <2>3, <2>4, FirstExists
  <2>6. PICK S : S = WithAtom(s, cs[a].atom)
    OBVIOUS
  <2>7. a \in S /\ S \subseteq DOMAIN cs
    BY <2>1, <2>5, <2>6 DEF WithAtom
  <2>8. S \subseteq Nat /\ S # {}
    BY <2>2, <2>7
  <2>9. First(S) \in DOMAIN cs
    BY <2>7, <2>8, FirstExists
  <2>10. ClassOf(s, n) = cs[First(S)]
    BY <2>1, <2>3, <2>6 DEF ClassOf
  <2> QED
    BY <1>6, <2>2, <2>9, <2>10 DEF ClassEntry
<1>8. next <= MaxIds /\ next' = next + 1 /\ next \in Hwnd
  BY LoopAssumption DEF create_window_ex_w, LoopInv, TypeOK, Hwnd
<1>9. PICK win : win = [hwnd |-> next, proc |-> proc, host |-> host,
                        paint_pending |-> FALSE, pending |-> <<>>]
  OBVIOUS
<1>10. win \in WindowEntry /\ win.hwnd = next /\ win.proc = proc
  BY <1>7, <1>8, <1>9 DEF WindowEntry
<1>11. PICK v : v = Append(s.windows, win)
  OBVIOUS
<1>12. /\ v \in Seq(WindowEntry) /\ DOMAIN v = DOMAIN s.windows \cup {Len(s.windows) + 1}
       /\ Len(s.windows) + 1 \notin DOMAIN s.windows
       /\ \A i \in DOMAIN s.windows : v[i] = s.windows[i]
       /\ v[Len(s.windows) + 1] = win
  BY <1>4, <1>10, <1>11, PushLast
<1>13. PICK e : e = [s EXCEPT !.windows = v]
  OBVIOUS
<1>14. e \in State /\ e.windows = v /\ e.queue = s.queue
  BY <1>3, <1>12, <1>13 DEF State
<1>15. state' = [state EXCEPT ![t] = e]
  BY <1>1, <1>5, <1>6, <1>9, <1>11, <1>13 DEF LoopInv, TypeOK
<1>16. PICK l : l = IF proc THEN Append(k, NewFrame("create", next, "WM_NULL", CreationMessages))
                    ELSE k
  OBVIOUS
<1>17. stack' = [stack EXCEPT ![t] = l]
  BY <1>2, <1>5, <1>6, <1>16
<1>18. Activations(l) /\ Fewer(k, l) /\ (proc => Creating(l, next))
  <2>1. CASE proc
    <3>1. /\ CreationMessages \in Seq(Message)
          /\ \A j \in DOMAIN CreationMessages : CreationMessages[j] # "WM_DESTROY"
      BY DEF CreationMessages, Message
    <3>2. "WM_NULL" \in Message
      BY DEF Message
    <3>3. /\ Activations(l) /\ Fewer(k, l)
          /\ Last(l) = NewFrame("create", next, "WM_NULL", CreationMessages)
      BY <1>3, <1>8, <1>16, <2>1, <3>1, <3>2, PushFrame
    <3> QED
      BY <3>3 DEF Creating, NewFrame
  <2>2. CASE ~proc
    BY <1>3, <1>16, <2>2, NothingChanges
  <2> QED
    BY <2>1, <2>2
<1>19. Once(s, l) /\ Held(s, l) \subseteq Held(s, k)
  BY <1>3, <1>18, NothingChanges, CalmStep
<1>20. next \notin Held(s, k) /\ next \notin Held(s, l)
  BY <1>3, <1>19
<1>21. Owned(e) = Owned(s) \cup {next}
  BY <1>10, <1>12, <1>14 DEF Owned
<1>22. Doomed(e, l) = Doomed(s, l)
  BY <1>14 DEF Doomed
<1>23. Held(e, l) \subseteq Held(s, k) \cup {next}
  BY <1>19, <1>21, <1>22 DEF Held
<1>24. Once(e, l)
  <2>1. \A i, j \in DOMAIN v : v[i].hwnd = v[j].hwnd => i = j
    <3>1. \A i \in DOMAIN s.windows : s.windows[i].hwnd # next
      BY <1>20 DEF Held, Owned
    <3>2. \A i, j \in DOMAIN s.windows : s.windows[i].hwnd = s.windows[j].hwnd => i = j
      BY <1>19 DEF Once
    <3> QED
      BY <1>10, <1>12, <3>1, <3>2
  <2>2. Owned(e) \cap Doomed(e, l) = {}
    BY <1>19, <1>20, <1>21, <1>22 DEF Once, Held
  <2> QED
    BY <1>14, <1>19, <2>1, <2>2 DEF Once
<1>25. delivered' = delivered /\ ended' = ended /\ events' = events /\ Call(t)
  BY DEF create_window_ex_w
<1>26. Finished' = Finished
  BY <1>25 DEF Finished, IsDestroy
<1>27. \A i \in DOMAIN e.windows : e.windows[i].proc =>
         \/ Handled(e.windows[i].hwnd, "WM_CREATE", "proc")'
         \/ Creating(l, e.windows[i].hwnd)
  <2>1. Top(t).kind # "create"
    BY <1>25 DEF Call, GuestRuns
  <2>2. \A i \in DOMAIN s.windows : s.windows[i].proc =>
          Handled(s.windows[i].hwnd, "WM_CREATE", "proc")
    BY <1>1, <2>1, NoCreation
  <2>3. \A w : Handled(w, "WM_CREATE", "proc") => Handled(w, "WM_CREATE", "proc")'
    BY <1>25 DEF Handled
  <2> QED
    BY <1>10, <1>12, <1>14, <1>18, <2>2, <2>3
<1>28. /\ l \in Seq(Frame) /\ l # <<>> /\ l[1].kind = "main"
       /\ \A i \in DOMAIN l : \A j \in DOMAIN l[i].left : l[i].left[j] # "WM_DESTROY"
  BY <1>18 DEF Activations
<1>29. \A d \in delivered' :
         /\ IsDestroy(d) => d.by = "default"
         /\ d.by = "proc" => Handled(d.hwnd, "WM_CREATE", "proc")'
  BY <1>25 DEF LoopInv, HandlesApart, CreatedFirst, Handled
<1>30. /\ delivered' \subseteq [hwnd : Hwnd \cup {NoWindow}, message : Message,
                                by : {"proc", "default"}]
       /\ ended' \subseteq Thread /\ delivered \subseteq delivered'
  BY <1>25 DEF LoopInv, TypeOK
<1>31. Held(e, l) \subseteq Held(state[t], stack[t]) \cup {x \in {next} : next < next'}
  BY <1>1, <1>2, <1>3, <1>8, <1>23
<1> QED
  BY <1>8, <1>14, <1>15, <1>17, <1>24, <1>25, <1>26, <1>27, <1>28, <1>29, <1>30, <1>31, StepKeeps

\* The activations after the running one retrieved, gave up or handled a
\* message (Got), and when it is no CreateWindowExW.
LEMMA GotTop ==
  ASSUME LoopInv, NEW t \in Thread, GuestRuns(t), NEW m \in Msg \cup {NoMsg}
  PROVE  /\ Activations(Got(t, m)) /\ Got(t, m) \in Seq(Frame)
         /\ DOMAIN Got(t, m) = DOMAIN stack[t]
         /\ \A i \in DOMAIN stack[t] : i # Len(stack[t]) => Got(t, m)[i] = stack[t][i]
         /\ Got(t, m)[Len(stack[t])].got = m
         /\ ~IsDestroy(m) => Fewer(stack[t], Got(t, m))
<1>1. PICK k : k = stack[t]
  OBVIOUS
<1>2. Activations(k) /\ Len(k) \in DOMAIN k /\ Top(t) = k[Len(k)] /\ Top(t) \in Frame /\ Top(t) = Last(k)
  BY <1>1, ThreadParts DEF Last
<1>3. PICK f : f = [Top(t) EXCEPT !.got = m]
  OBVIOUS
<1>4. f \in Frame /\ f.kind = Last(k).kind /\ f.left = Top(t).left /\ f.got = m
  BY <1>2, <1>3 DEF Frame
<1>5. \A j \in DOMAIN f.left : f.left[j] # "WM_DESTROY"
  BY <1>2, <1>4 DEF Activations
<1>6. Got(t, m) = Append(Front(k), f)
  BY <1>1, <1>3 DEF Got, WithTop
<1>7. PICK l : l = Append(Front(k), f)
  OBVIOUS
<1>8. /\ Activations(l) /\ DOMAIN l = DOMAIN k
      /\ \A i \in DOMAIN k : i # Len(k) => l[i] = k[i]
      /\ l[Len(k)] = f
      /\ (IsDestroy(f.got) => f.got = Last(k).got) => Fewer(k, l)
  BY <1>2, <1>4, <1>5, <1>7, ChangeTop
<1> QED
  BY <1>1, <1>4, <1>6, <1>7, <1>8 DEF Activations

\* GetMessageW and PeekMessageW retrieve a message of the queue.
LEMMA TakeQueuedInv ==
  ASSUME LoopInv, NEW t \in Thread, TakeQueued(t), GuestRuns(t), Top(t).got = NoMsg,
         next' = next, ended' \subseteq Thread, events' = events, delivered' = delivered,
         forwards' = forwards, calls' = calls \/ Call(t)
  PROVE  LoopInv'
<1>1. PICK s : s = state[t]
  OBVIOUS
<1>2. PICK k : k = stack[t]
  OBVIOUS
<1>3. /\ s \in State /\ Once(s, k) /\ k \in Seq(Frame) /\ k # <<>> /\ Len(k) \in DOMAIN k
      /\ Last(k).got = NoMsg /\ s.queue # <<>> /\ s.queue \in Seq(Msg)
  <2>1. s.queue # <<>> /\ Last(k) = Top(t)
    BY <1>1, <1>2 DEF TakeQueued, Top
  <2>2. s \in State /\ Once(s, k) /\ k \in Seq(Frame) /\ k # <<>> /\ Len(k) \in DOMAIN k
    BY <1>1, <1>2, ThreadParts
  <2> QED
    BY <2>1, <2>2, StateParts
<1>4. PICK m : m = Head(s.queue)
  OBVIOUS
<1>5. m \in Msg /\ Tail(s.queue) \in Seq(Msg)
  BY <1>3, <1>4, HeadTailProperties
<1>6. PICK e : e = [s EXCEPT !.queue = Tail(@)]
  OBVIOUS
<1>7. e \in State /\ e.windows = s.windows /\ e.queue = Tail(s.queue)
  BY <1>3, <1>5, <1>6 DEF State
<1>8. PICK l : l = Got(t, m)
  OBVIOUS
<1>9. state' = [state EXCEPT ![t] = e] /\ stack' = [stack EXCEPT ![t] = l]
  BY <1>1, <1>4, <1>6, <1>8 DEF TakeQueued
<1>10. /\ Activations(l) /\ l \in Seq(Frame) /\ DOMAIN l = DOMAIN k
       /\ \A i \in DOMAIN k : i # Len(k) => l[i] = k[i]
       /\ l[Len(k)].got = Head(s.queue)
  BY <1>2, <1>4, <1>5, <1>8, GotTop
<1>11. Once(e, l) /\ Held(e, l) \subseteq Held(s, k) /\ Inherits(s, e)
  BY <1>3, <1>7, <1>10, TakeKeeps
<1>12. \A w : ~Creating(stack[t], w)
  BY NoCreation DEF GuestRuns
<1> QED
  BY <1>1, <1>2, <1>7, <1>9, <1>10, <1>11, <1>12, QuietStep

\* They retrieve an event of the display server.
LEMMA TakeHostEventInv ==
  ASSUME LoopInv, NEW t \in Thread, TakeHostEvent(t), GuestRuns(t),
         next' = next, ended' \subseteq Thread, events' = events, delivered' = delivered,
         forwards' = forwards, calls' = calls \/ Call(t)
  PROVE  LoopInv'
<1>1. PICK s : s = state[t]
  OBVIOUS
<1>2. PICK i \in Polled(s) :
        /\ state' = [state EXCEPT ![t].windows[i].pending = Tail(@)]
        /\ stack' = [stack EXCEPT ![t] =
             Got(t, translate_event_to_msg(s.windows[i].hwnd, Head(s.windows[i].pending)))]
  BY <1>1 DEF TakeHostEvent
<1>3. /\ s \in State /\ i \in DOMAIN s.windows /\ s.windows[i] \in WindowEntry
      /\ s.windows[i].pending # <<>> /\ s.windows[i].pending \in Seq(HostEvent)
      /\ s.windows[i].hwnd \in Hwnd
  <2>1. s \in State /\ i \in DOMAIN s.windows /\ s.windows[i].pending # <<>>
    BY <1>1, ThreadParts DEF Polled, HostWindows
  <2>2. s.windows[i] \in WindowEntry
    BY <2>1, StateParts
  <2> QED
    BY <2>1, <2>2 DEF WindowEntry
<1>4. PICK q : q = Tail(s.windows[i].pending)
  OBVIOUS
<1>5. q \in Seq(HostEvent)
  BY <1>3, <1>4, HeadTailProperties
<1>6. PICK m : m = translate_event_to_msg(s.windows[i].hwnd, Head(s.windows[i].pending))
  OBVIOUS
<1>7. m \in Msg /\ ~IsDestroy(m)
  BY <1>3, <1>6 DEF translate_event_to_msg, Msg, Message, IsDestroy
<1>8. PICK e : e = [s EXCEPT !.windows[i].pending = q]
  OBVIOUS
<1>9. e \in State /\ Harmless(s, e)
  BY <1>3, <1>5, <1>8, PendingHarmless
<1>10. state' = [state EXCEPT ![t] = e]
  BY <1>1, <1>2, <1>3, <1>4, <1>8 DEF LoopInv, TypeOK, State
<1>11. PICK l : l = Got(t, m)
  OBVIOUS
<1>12. Activations(l) /\ Fewer(stack[t], l) /\ stack' = [stack EXCEPT ![t] = l]
  BY <1>2, <1>6, <1>7, <1>11, GotTop
<1>13. Once(s, stack[t])
  BY <1>1, ThreadParts
<1>14. Once(e, l) /\ Held(e, l) \subseteq Held(s, stack[t]) /\ Inherits(s, e)
  BY <1>9, <1>12, <1>13, CalmStep
<1>15. \A w : ~Creating(stack[t], w)
  BY NoCreation DEF GuestRuns
<1> QED
  BY <1>1, <1>9, <1>10, <1>12, <1>14, <1>15, QuietStep

\* A step that only changes the activations of t, with nothing new retrieved.
LEMMA FrameStep ==
  ASSUME LoopInv, NEW t \in Thread, NEW l, Activations(l), Fewer(stack[t], l),
         Top(t).kind # "create" \/ Top(t).left # CreationMessages,
         state' = state, stack' = [stack EXCEPT ![t] = l],
         next' = next, ended' \subseteq Thread, events' = events, delivered' = delivered,
         forwards' = forwards, calls' = calls \/ Call(t)
  PROVE  LoopInv'
<1>1. state[t] \in State /\ Once(state[t], stack[t])
  BY ThreadParts
<1>2. Harmless(state[t], state[t])
  BY NothingChanges
<1>3. /\ Once(state[t], l) /\ Held(state[t], l) \subseteq Held(state[t], stack[t])
      /\ Inherits(state[t], state[t])
  BY <1>1, <1>2, CalmStep
<1>4. state' = [state EXCEPT ![t] = state[t]]
  BY DEF LoopInv, TypeOK
<1>5. \A w : ~Creating(stack[t], w)
  BY NoCreation
<1> QED
  BY <1>1, <1>3, <1>4, <1>5, QuietStep

\* GetMessageW.
LEMMA GetInv ==
  ASSUME LoopInv, NEW t \in Thread, get_message_w(t), forwards' = forwards
  PROVE  LoopInv'
<1>1. /\ GuestRuns(t) /\ Top(t).got = NoMsg /\ (calls' = calls \/ Call(t))
      /\ next' = next /\ delivered' = delivered /\ events' = events
  BY DEF get_message_w
<1>2. ended \subseteq Thread
  BY DEF LoopInv, TypeOK
<1>3. CASE GetQueued(t)
  <2>1. TakeQueued(t) /\ ended' \subseteq Thread
    BY <1>2, <1>3 DEF GetQueued, LeaveLoop
  <2> QED
    BY <1>1, <2>1, TakeQueuedInv
<1>4. CASE GetQuit(t)
  <2>1. state' = state /\ stack' = stack /\ ended' \subseteq Thread
    BY <1>2, <1>4 DEF GetQuit, LeaveLoop
  <2>2. state' = [state EXCEPT ![t] = state[t]] /\ state[t] \in State
    BY <2>1 DEF LoopInv, TypeOK
  <2>3. Harmless(state[t], state[t])
    BY NothingChanges
  <2> QED
    BY <1>1, <2>1, <2>2, <2>3, HarmlessStep
<1>5. CASE GetHostEvent(t)
  <2>1. TakeHostEvent(t) /\ ended' \subseteq Thread
    BY <1>2, <1>5 DEF GetHostEvent
  <2> QED
    BY <1>1, <2>1, TakeHostEventInv
<1>6. CASE GetNothing(t)
  <2>1. PICK m : m = [hwnd |-> NoWindow, message |-> "WM_NULL"]
    OBVIOUS
  <2>2. m \in Msg /\ ~IsDestroy(m)
    BY <2>1 DEF Msg, Message, IsDestroy
  <2>3. stack' = [stack EXCEPT ![t] = Got(t, m)] /\ state' = state /\ ended' \subseteq Thread
    BY <1>2, <1>6, <2>1 DEF GetNothing
  <2>4. Activations(Got(t, m)) /\ Fewer(stack[t], Got(t, m))
    BY <1>1, <2>2, GotTop
  <2>5. Top(t).kind # "create"
    BY <1>1 DEF GuestRuns
  <2> QED
    BY <1>1, <2>3, <2>4, <2>5, FrameStep
<1> QED
  BY <1>3, <1>4, <1>5, <1>6 DEF get_message_w

\* PeekMessageW.
LEMMA PeekInv ==
  ASSUME LoopInv, NEW t \in Thread, peek_message_w(t), forwards' = forwards
  PROVE  LoopInv'
<1>1. /\ GuestRuns(t) /\ Top(t).got = NoMsg /\ Call(t) /\ next' = next
      /\ delivered' = delivered /\ events' = events /\ ended' \subseteq Thread
  BY DEF peek_message_w, Call, LoopInv, TypeOK
<1>2. TakeQueued(t) \/ TakeHostEvent(t)
  BY DEF peek_message_w
<1> QED
  BY <1>1, <1>2, TakeQueuedInv, TakeHostEventInv

\* The guest drops a message, or its procedure or CreateWindowExW returns.
LEMMA DiscardInv ==
  ASSUME LoopInv, NEW t \in Thread, Discard(t), forwards' = forwards
  PROVE  LoopInv'
<1>1. Activations(Got(t, NoMsg)) /\ Fewer(stack[t], Got(t, NoMsg))
  BY GotTop DEF Discard, IsDestroy, NoMsg
<1>2. Top(t).kind # "create"
  BY DEF Discard, GuestRuns
<1> QED
  BY <1>1, <1>2, FrameStep DEF Discard, LoopInv, TypeOK

LEMMA ReturnInv ==
  ASSUME LoopInv, NEW t \in Thread, ProcReturns(t) \/ CreateReturns(t), forwards' = forwards
  PROVE  LoopInv'
<1>1. Activations(stack[t]) /\ Last(stack[t]).kind # "main"
  BY ThreadParts DEF ProcReturns, CreateReturns, Top
<1>2. Activations(Front(stack[t])) /\ Fewer(stack[t], Front(stack[t]))
  BY <1>1, PopFrame
<1>3. Top(t).kind # "create" \/ Top(t).left # CreationMessages
  BY DEF ProcReturns, CreateReturns, CreationMessages
<1>4. /\ stack' = [stack EXCEPT ![t] = Front(stack[t])] /\ state' = state /\ next' = next
      /\ ended' \subseteq Thread /\ events' = events /\ delivered' = delivered /\ calls' = calls
  BY DEF ProcReturns, CreateReturns, LoopInv, TypeOK
<1> QED
  BY <1>2, <1>3, <1>4, FrameStep

\* A window procedure passes its message to DefWindowProcW.
LEMMA ForwardInv ==
  ASSUME LoopInv, NEW t \in Thread, def_window_proc_w(t), forwards' = forwards
  PROVE  LoopInv'
<1>1. PICK k : k = stack[t]
  OBVIOUS
<1>2. /\ state[t] \in State /\ Activations(k) /\ Once(state[t], k)
      /\ k \in Seq(Frame) /\ Len(k) \in DOMAIN k
      /\ Top(t) = k[Len(k)] /\ Top(t) \in Frame /\ Top(t) = Last(k)
  BY <1>1, ThreadParts DEF Last
<1>3. PICK f : f = [Top(t) EXCEPT !.forwarded = TRUE]
  OBVIOUS
<1>4. f \in Frame /\ f.kind = Last(k).kind /\ f.left = Top(t).left /\ f.got = Last(k).got
  BY <1>2, <1>3 DEF Frame
<1>5. \A j \in DOMAIN f.left : f.left[j] # "WM_DESTROY"
  BY <1>2, <1>4 DEF Activations
<1>6. PICK l : l = Append(Front(k), f)
  OBVIOUS
<1>7. Activations(l) /\ Fewer(k, l)
  BY <1>2, <1>4, <1>5, <1>6, ChangeTop
<1>8. PICK e : e = def_window_proc_w_impl(state[t], Top(t).hwnd, Top(t).message)
  OBVIOUS
<1>9. state' = [state EXCEPT ![t] = e] /\ stack' = [stack EXCEPT ![t] = l]
  BY <1>1, <1>3, <1>6, <1>8 DEF def_window_proc_w, WithTop
<1>10. Once(state[t], l) /\ Held(state[t], l) \subseteq Held(state[t], k) /\ l \in Seq(Frame)
  <2>1. Harmless(state[t], state[t])
    BY NothingChanges
  <2> QED
    BY <1>2, <1>7, <2>1, CalmStep DEF Activations
<1>11. /\ e \in State /\ Once(e, l) /\ Held(e, l) \subseteq Held(state[t], l)
       /\ Inherits(state[t], e)
  BY <1>2, <1>8, <1>10, DefaultKeeps
<1>12. \A w : ~Creating(stack[t], w)
  BY NoCreation DEF def_window_proc_w
<1>13. Held(e, l) \subseteq Held(state[t], stack[t])
  BY <1>1, <1>10, <1>11
<1> QED
  BY <1>7, <1>9, <1>11, <1>12, <1>13, QuietStep DEF def_window_proc_w, LoopInv, TypeOK

\* SendMessageW and UpdateWindow.
LEMMA SendInv ==
  ASSUME LoopInv, NEW t \in Thread, send_message_w(t) \/ update_window(t), forwards' = forwards
  PROVE  LoopInv'
<1>1. PICK w \in 1 .. (next - 1), m \in GuestMessage \cup {"WM_PAINT"} :
        Deliver(t, w, m, stack[t])
  BY DEF send_message_w, update_window
<1>2. w \in Hwnd \cup {NoWindow} /\ m \in Message /\ m # "WM_DESTROY"
  BY ThreadParts DEF GuestMessage, Message
<1>3. Activations(stack[t])
  BY ThreadParts
<1>4. Fewer(stack[t], stack[t])
  BY NothingChanges
<1>5. next' = next /\ ended' = ended /\ events' = events /\ Call(t)
  BY DEF send_message_w, update_window
<1>6. Top(t).kind # "create"
  BY <1>5 DEF Call, GuestRuns
<1>7. \A i \in DOMAIN state[t].windows : state[t].windows[i].proc =>
        Handled(state[t].windows[i].hwnd, "WM_CREATE", "proc")
  BY <1>6, NoCreation
<1> QED
  BY <1>1, <1>2, <1>3, <1>4, <1>5, <1>7, DeliverKeeps

\* DispatchMessageW: the message was retrieved by this activation only, so a
\* WM_DESTROY it hands over is gone from the thread.
LEMMA DispatchInv ==
  ASSUME LoopInv, NEW t \in Thread, dispatch_message_w(t), forwards' = forwards
  PROVE  LoopInv'
<1>1. PICK m : m = Top(t).got
  OBVIOUS
<1>2. /\ GuestRuns(t) /\ m # NoMsg /\ Deliver(t, m.hwnd, m.message, Got(t, NoMsg))
      /\ next' = next /\ ended' = ended /\ events' = events /\ calls' = calls
  BY <1>1 DEF dispatch_message_w
<1>3. PICK k : k = stack[t]
  OBVIOUS
<1>4. /\ Once(state[t], k) /\ Len(k) \in DOMAIN k /\ Top(t) = k[Len(k)] /\ Top(t) \in Frame
  BY <1>3, ThreadParts
<1>5. m \in Msg /\ m.hwnd \in Hwnd \cup {NoWindow} /\ m.message \in Message
  BY <1>1, <1>2, <1>4 DEF Frame, Msg
<1>6. PICK l : l = Got(t, NoMsg)
  OBVIOUS
<1>7. /\ Activations(l) /\ DOMAIN l = DOMAIN k
      /\ \A i \in DOMAIN k : i # Len(k) => l[i] = k[i]
      /\ l[Len(k)].got = NoMsg /\ ~IsDestroy(NoMsg)
      /\ Fewer(k, l)
  BY <1>2, <1>3, <1>6, GotTop DEF IsDestroy, NoMsg
<1>8. ASSUME m.message = "WM_DESTROY"
      PROVE  m.hwnd \in Doomed(state[t], k) /\ m.hwnd \notin Doomed(state[t], l)
  <2>1. IsDestroy(m) /\ k[Len(k)].got = m
    BY <1>1, <1>4, <1>8 DEF IsDestroy
  <2>2. m.hwnd \in Doomed(state[t], k)
    BY <1>4, <2>1 DEF Doomed
  <2>3. \A x \in Msg : IsDestroy(x) /\ x.hwnd = m.hwnd => x = m
    BY <1>5, <2>1 DEF Msg, IsDestroy
  <2>4. ASSUME NEW i \in DOMAIN state[t].queue, IsDestroy(state[t].queue[i])
        PROVE  state[t].queue[i].hwnd # m.hwnd
    <3>1. state[t].queue[i] \in Msg
      BY ThreadParts, StateParts
    <3>2. state[t].queue[i] # m
      BY <1>4, <2>1, <2>4 DEF Once
    <3> QED
      BY <2>3, <2>4, <3>1, <3>2
  <2>5. ASSUME NEW i \in DOMAIN l, IsDestroy(l[i].got)
        PROVE  l[i].got.hwnd # m.hwnd
    <3>1. i # Len(k) /\ l[i] = k[i] /\ i \in DOMAIN k
      BY <1>7, <2>5
    <3>2. k[i].got \in Msg
      <4>1. k[i] \in Frame
        BY <1>3, <3>1, ThreadParts, ElementOfSeq, LenProperties
      <4> QED
        BY <1>7, <2>5, <3>1, <4>1 DEF Frame
    <3>3. k[i].got # m
      BY <1>4, <2>1, <3>1 DEF Once
    <3> QED
      BY <2>3, <2>5, <3>1, <3>2, <3>3
  <2> QED
    BY <2>2, <2>4, <2>5 DEF Doomed
<1>9. Top(t).kind # "create"
  BY <1>2 DEF GuestRuns
<1>10. \A i \in DOMAIN state[t].windows : state[t].windows[i].proc =>
         Handled(state[t].windows[i].hwnd, "WM_CREATE", "proc")
  BY <1>9, NoCreation
<1> QED
  BY <1>2, <1>3, <1>5, <1>6, <1>7, <1>8, <1>10, DeliverKeeps

\* CreateWindowExW sends its next message, WM_CREATE first.
LEMMA SendNextInv ==
  ASSUME LoopInv, NEW t \in Thread, SendNext(t), forwards' = forwards
  PROVE  LoopInv'
<1>1. PICK k : k = stack[t]
  OBVIOUS
<1>2. /\ Activations(k) /\ Len(k) \in DOMAIN k
      /\ Top(t) = k[Len(k)] /\ Top(t) \in Frame /\ Top(t) = Last(k)
  BY <1>1, ThreadParts DEF Last
<1>3. PICK a : a = Top(t).left
  OBVIOUS
<1>4. a \in Seq(Message) /\ a # <<>> /\ \A j \in DOMAIN a : a[j] # "WM_DESTROY"
  <2>1. \A j \in DOMAIN a : a[j] # "WM_DESTROY"
    BY <1>2, <1>3 DEF Activations
  <2> QED
    BY <1>2, <1>3, <2>1 DEF SendNext, Frame
<1>5. /\ Head(a) \in Message /\ Head(a) # "WM_DESTROY" /\ Tail(a) \in Seq(Message)
      /\ \A j \in DOMAIN Tail(a) : Tail(a)[j] # "WM_DESTROY"
  BY <1>4
<1>6. PICK f : f = [Top(t) EXCEPT !.left = Tail(@)]
  OBVIOUS
<1>7. f \in Frame /\ f.kind = Last(k).kind /\ f.left = Tail(a) /\ f.got = Last(k).got
  BY <1>2, <1>3, <1>5, <1>6 DEF Frame
<1>8. PICK l : l = Append(Front(k), f)
  OBVIOUS
<1>9. Activations(l) /\ Fewer(k, l)
  <2>1. \A j \in DOMAIN f.left : f.left[j] # "WM_DESTROY"
    BY <1>5, <1>7
  <2>2. IsDestroy(f.got) => f.got = Last(k).got
    BY <1>7
  <2> QED
    BY <1>2, <1>7, <1>8, <2>1, <2>2, ChangeTop
<1>10. /\ Deliver(t, Top(t).hwnd, Head(a), l) /\ next' = next /\ ended' = ended
       /\ events' = events /\ calls' = calls
  BY <1>1, <1>3, <1>6, <1>8 DEF SendNext, WithTop
<1>11. Top(t).hwnd \in Hwnd \cup {NoWindow}
  BY <1>2 DEF Frame
<1>12. ASSUME NEW i \in DOMAIN state[t].windows, state[t].windows[i].proc
       PROVE  \/ Handled(state[t].windows[i].hwnd, "WM_CREATE", "proc")
              \/ state[t].windows[i].hwnd = Top(t).hwnd /\ Head(a) = "WM_CREATE"
  <2>1. \/ Handled(state[t].windows[i].hwnd, "WM_CREATE", "proc")
        \/ Creating(k, state[t].windows[i].hwnd)
    BY <1>1, <1>12 DEF LoopInv, CreatedFirst
  <2> QED
    BY <1>2, <1>3, <2>1 DEF Creating, CreationMessages
<1> QED
  BY <1>1, <1>5, <1>9, <1>10, <1>11, <1>12, DeliverKeeps

-----------------------------------------------------------------------------
(* The theorem *)

LEMMA InitLoopInv == Init => LoopInv
<1> SUFFICES ASSUME Init PROVE LoopInv
  OBVIOUS
<1>1. PICK s : s = [classes |-> <<>>, windows |-> <<>>, queue |-> <<>>, quit |-> FALSE]
  OBVIOUS
<1>2. PICK f : f = NewFrame("main", NoWindow, "WM_NULL", <<>>)
  OBVIOUS
<1>3. s \in State /\ s.windows = <<>> /\ s.queue = <<>>
  BY <1>1 DEF State
<1>4. f \in Frame /\ f.kind = "main" /\ f.got = NoMsg /\ f.left = <<>>
  BY <1>2 DEF NewFrame, Frame, Message
<1>5. /\ state = [t \in Thread |-> s] /\ stack = [t \in Thread |-> <<f>>]
  BY <1>1, <1>2 DEF Init
<1>6. <<f>> \in Seq(Frame) /\ <<f>> # <<>> /\ <<f>>[1] = f /\ DOMAIN <<f>> = {1}
  BY <1>4
<1>7. TypeOK
  <2>1. /\ state \in [Thread -> State] /\ stack \in [Thread -> Seq(Frame)]
        /\ \A t \in Thread : stack[t] # <<>> /\ stack[t][1].kind = "main"
    BY <1>3, <1>4, <1>5, <1>6
  <2>2. MaxIds \in Nat /\ MaxEvents \in Nat /\ \A t \in Thread : MaxCalls[t] \in Nat
    BY LoopAssumption DEF MaxCalls
  <2>3. next \in 1 .. (MaxIds + 1) /\ events \in 0 .. MaxEvents
    BY <2>2 DEF Init
  <2>4. calls \in [Thread -> Nat] /\ \A t \in Thread : calls[t] <= MaxCalls[t]
    BY <2>2 DEF Init
  <2>5. ended = {} /\ delivered = {} /\ forwards \in BOOLEAN
    BY DEF Init
  <2> QED
    BY <2>1, <2>3, <2>4, <2>5 DEF TypeOK
<1>8. Owned(s) = {} /\ Doomed(s, <<f>>) = {}
  BY <1>3, <1>4, <1>6 DEF Owned, Doomed, IsDestroy, NoMsg
<1>9. Once(s, <<f>>)
  BY <1>3, <1>4, <1>6, <1>8 DEF Once
<1>10. delivered = {} /\ Finished = {} /\ next = 1
  BY DEF Init, Finished
<1>11. HandlesApart
  BY <1>5, <1>8, <1>9, <1>10 DEF HandlesApart, Mine
<1>12. CreatedFirst
  BY <1>3, <1>5, <1>10 DEF CreatedFirst
<1>13. CreationLeft
  BY <1>4, <1>5, <1>6 DEF CreationLeft
<1> QED
  BY <1>7, <1>11, <1>12, <1>13 DEF LoopInv

\* Every step preserves the invariant.
LEMMA NextLoopInv == LoopInv /\ [Next]_vars => LoopInv'
<1> SUFFICES ASSUME LoopInv, [Next]_vars PROVE LoopInv'
  OBVIOUS
<1>1. CASE Next
  <2>1. PICK t \in Thread :
          \/ register_class_ex_w(t) \/ unregister_class_w(t) \/ create_window_ex_w(t)
          \/ destroy_window(t) \/ invalidate_rect(t) \/ update_window(t)
          \/ send_message_w(t) \/ post_message_w(t) \/ post_quit_message(t)
          \/ get_message_w(t) \/ peek_message_w(t) \/ dispatch_message_w(t)
          \/ Discard(t) \/ def_window_proc_w(t) \/ ProcReturns(t) \/ SendNext(t)
          \/ CreateReturns(t) \/ HostSends(t)
    BY <1>1 DEF Next
  <2>2. forwards' = forwards
    BY <1>1 DEF Next
  <2> QED
    BY <2>1, <2>2, RegisterInv, UnregisterInv, CreateInv, DestroyInv, InvalidateInv, SendInv,
       PostInv, PostQuitInv, GetInv, PeekInv, DispatchInv, DiscardInv, ForwardInv, ReturnInv,
       SendNextInv, HostSendsInv
<1>2. CASE UNCHANGED vars
  <2> USE <1>2 DEF vars, LoopInv
  <2>1. TypeOK'
    BY DEF TypeOK
  <2>2. HandlesApart'
    <3>1. \A t \in Thread : Mine(t)' = Mine(t)
      BY DEF Mine, Owned, Doomed, IsDestroy
    <3>2. Finished' = Finished
      BY DEF Finished, IsDestroy
    <3>3. \A t \in Thread : Once(state[t], stack[t])' <=> Once(state[t], stack[t])
      BY DEF Once, Owned, Doomed, IsDestroy
    <3>4. \A d \in delivered' : IsDestroy(d)' <=> IsDestroy(d)
      BY DEF IsDestroy
    <3> QED
      BY <3>1, <3>2, <3>3, <3>4 DEF HandlesApart
  <2>3. CreatedFirst'
    BY DEF CreatedFirst, Handled, Creating
  <2>4. CreationLeft'
    BY DEF CreationLeft
  <2> QED
    BY <2>1, <2>2, <2>3, <2>4
<1> QED
  BY <1>1, <1>2

\* The invariant says what the property says: every WM_DESTROY of a window is
\* in one place only.
LEMMA LoopInvSuffices == LoopInv => CreatedAndDestroyedOnce
<1> SUFFICES ASSUME LoopInv, NEW w \in Hwnd
             PROVE  LET inFlight == UNION {DestroysInFlight(t, w) : t \in Thread}
                        handled == {d \in delivered : d.hwnd = w /\ d.message = "WM_DESTROY"}
                    IN  /\ Cardinality(inFlight) + Cardinality(handled) <= 1
                        /\ (\E t \in Thread : Live(state[t], w)) => inFlight \cup handled = {}
  BY DEF CreatedAndDestroyedOnce, LoopInv, CreatedFirst
<1> DEFINE inFlight == UNION {DestroysInFlight(t, w) : t \in Thread}
           handled == {d \in delivered : d.hwnd = w /\ d.message = "WM_DESTROY"}
           wd == [hwnd |-> w, message |-> "WM_DESTROY"]
<1>1. \A t \in Thread : DestroysInFlight(t, w) # {} => w \in Doomed(state[t], stack[t])
  BY DEF DestroysInFlight, Doomed, IsDestroy
<1>2. handled # {} => w \in Finished
  BY DEF Finished, IsDestroy
<1>3. \A t \in Thread : Live(state[t], w) => w \in Owned(state[t])
  BY DEF Live, Positions, Owned
<1>4. ASSUME NEW x \in inFlight, NEW y \in inFlight PROVE x = y
  <2>1. PICK t \in Thread : x \in DestroysInFlight(t, w)
    OBVIOUS
  <2>2. PICK u \in Thread : y \in DestroysInFlight(u, w)
    OBVIOUS
  <2>3. w \in Mine(t) /\ w \in Mine(u)
    BY <1>1, <2>1, <2>2 DEF Mine
  <2>4. t = u
    BY <2>3 DEF LoopInv, HandlesApart
  <2>5. Once(state[t], stack[t]) /\ IsDestroy(wd)
    BY DEF LoopInv, HandlesApart, IsDestroy
  <2>6. \/ \E i \in DOMAIN state[t].queue : x = <<"queue", t, i>> /\ state[t].queue[i] = wd
        \/ \E i \in DOMAIN stack[t] : x = <<"got", t, i>> /\ stack[t][i].got = wd
    BY <2>1 DEF DestroysInFlight
  <2>7. \/ \E i \in DOMAIN state[t].queue : y = <<"queue", t, i>> /\ state[t].queue[i] = wd
        \/ \E i \in DOMAIN stack[t] : y = <<"got", t, i>> /\ stack[t][i].got = wd
    BY <2>2, <2>4 DEF DestroysInFlight
  <2> HIDE DEF wd, inFlight
  <2> QED
    BY <2>5, <2>6, <2>7 DEF Once
<1>5. handled \subseteq {[hwnd |-> w, message |-> "WM_DESTROY", by |-> "default"]}
  <2> SUFFICES ASSUME NEW d \in handled
               PROVE  d = [hwnd |-> w, message |-> "WM_DESTROY", by |-> "default"]
    OBVIOUS
  <2>1. d \in [hwnd : Hwnd \cup {NoWindow}, message : Message, by : {"proc", "default"}]
    BY DEF LoopInv, TypeOK
  <2>2. d.by = "default"
    BY DEF LoopInv, HandlesApart, IsDestroy
  <2> QED
    BY <2>1, <2>2
<1>6. \A t \in Thread : Mine(t) \cap Finished = {} /\ Owned(state[t]) \cap Doomed(state[t], stack[t]) = {}
  BY DEF LoopInv, HandlesApart, Once
<1>7. \A t, u \in Thread : t # u => Mine(t) \cap Mine(u) = {}
  BY DEF LoopInv, HandlesApart
<1>8. inFlight # {} => \E t \in Thread : w \in Doomed(state[t], stack[t])
  BY <1>1
<1> HIDE DEF inFlight, handled
<1>9. inFlight = {} \/ handled = {}
  BY <1>2, <1>6, <1>8 DEF Mine
<1>10. \A S : (\A x, y \in S : x = y) => Cardinality(S) = 0 \/ Cardinality(S) = 1
  <2> SUFFICES ASSUME NEW S, \A x, y \in S : x = y
               PROVE  Cardinality(S) = 0 \/ Cardinality(S) = 1
    OBVIOUS
  <2>1. CASE S = {}
    BY <2>1, FS_EmptySet
  <2>2. CASE S # {}
    <3>1. PICK x : S = {x}
      BY <2>2
    <3> QED
      BY <3>1, FS_Singleton
  <2> QED
    BY <2>1, <2>2
<1>11. Cardinality({}) = 0
  BY FS_EmptySet
<1>12. Cardinality(inFlight) = 0 \/ Cardinality(inFlight) = 1
  BY <1>4, <1>10
<1>13. Cardinality(handled) = 0 \/ Cardinality(handled) = 1
  BY <1>5, <1>10
<1>14. Cardinality(inFlight) + Cardinality(handled) <= 1
  BY <1>9, <1>11, <1>12, <1>13
<1>15. (\E t \in Thread : Live(state[t], w)) => inFlight \cup handled = {}
  <2> SUFFICES ASSUME NEW t \in Thread, Live(state[t], w) PROVE inFlight = {} /\ handled = {}
    OBVIOUS
  <2>1. w \in Owned(state[t]) /\ w \in Mine(t)
    BY <1>3 DEF Mine
  <2>2. handled = {}
    BY <1>2, <1>6, <2>1
  <2>3. inFlight = {}
    BY <1>6, <1>7, <1>8, <2>1 DEF Mine
  <2> QED
    BY <2>2, <2>3
<1> QED
  BY <1>14, <1>15 DEF inFlight, handled

(* A window's messages begin with WM_CREATE and end with one WM_DESTROY      *)
(* (create_window_ex_w, destroy_window, def_window_proc_w_impl), for every   *)
(* number of threads, windows and calls, and however deep the guest's window *)
(* procedures nest.                                                          *)
THEOREM WindowCreatedAndDestroyedOnce == Spec => []CreatedAndDestroyedOnce
<1>1. LoopInv => CreatedAndDestroyedOnce
  BY LoopInvSuffices
<1> QED
  BY <1>1, InitLoopInv, NextLoopInv, PTL DEF Spec
=============================================================================
