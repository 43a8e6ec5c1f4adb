---------------------------- MODULE MessageLoop ----------------------------
(* The windowing and message loop of win32-user32: every thread has a table *)
(* of classes and windows and a queue of posted messages (the thread-local  *)
(* STATE), the guest runs a GetMessage/DispatchMessage loop, and its window *)
(* procedures are called back from inside the exports and may call any      *)
(* export themselves.  A thread is therefore a stack of activations: the    *)
(* guest's main loop, window procedures, and a CreateWindowExW that has not *)
(* sent all of its messages yet.  Captions, sizes and visibility are caches *)
(* no message depends on and are left out; the host window is the queue of  *)
(* events the display server has for it.                                    *)
EXTENDS Naturals, Sequences, SequencesExt, FiniteSets

CONSTANTS
    Thread,      \* guest threads
    Looper,      \* the threads that run a message loop
    Class,       \* class names
    AtomSpace,   \* atoms a u16 with the top bit set can tell apart
    MaxIds,      \* bound: window handles and atoms given out
    LooperCalls, \* bound: exports a thread with a loop calls beside it
    OtherCalls,  \* bound: exports a thread without a loop calls
    MaxEvents    \* bound: events the display server sends

ASSUME LoopAssumption ==
    /\ {AtomSpace, MaxIds, LooperCalls, OtherCalls, MaxEvents} \subseteq Nat
    /\ AtomSpace > 0
    /\ Looper \subseteq Thread

VARIABLES
    state,      \* STATE of every thread: classes, windows, queue, quit_code
    stack,      \* the activations of every thread, the running one last
    next,       \* NEXT_HWND
    ended,      \* threads whose main loop saw GetMessageW return 0
    delivered,  \* history: who handled which message of which window
    calls,      \* export calls each thread made beside its main loop
    events,     \* events the display server sent
    forwards    \* a well-behaved guest: it dispatches every message it retrieves
                \* and its window procedures pass everything to DefWindowProcW

vars == <<state, stack, next, ended, delivered, calls, events, forwards>>

MaxCalls == [t \in Thread |-> IF t \in Looper THEN LooperCalls ELSE OtherCalls]

NoWindow == 0
Hwnd == 1..MaxIds
Message == {"WM_NULL", "WM_CREATE", "WM_DESTROY", "WM_MOVE", "WM_SIZE", "WM_PAINT",
            "WM_CLOSE", "WM_QUIT", "WM_SHOWWINDOW", "WM_KEYDOWN"}
Msg == [hwnd : Hwnd \cup {NoWindow}, message : Message]
NoMsg == [hwnd |-> NoWindow, message |-> "none"]
HostEvent == {"Input", "Close"}            \* Input: resize, keyboard and mouse
GuestMessage == {"WM_CLOSE", "WM_QUIT"}    \* what the guest posts and sends

ClassEntry == [atom : 0..(AtomSpace - 1), name : Class, proc : BOOLEAN]
WindowEntry == [hwnd : Hwnd, proc : BOOLEAN, host : BOOLEAN, paint_pending : BOOLEAN,
                pending : Seq(HostEvent)]
State == [classes : Seq(ClassEntry), windows : Seq(WindowEntry), queue : Seq(Msg),
          quit : BOOLEAN]
Frame == [kind : {"main", "proc", "create"}, hwnd : Hwnd \cup {NoWindow},
          message : Message, got : Msg \cup {NoMsg}, left : Seq(Message), forwarded : BOOLEAN]

TypeOK ==
    /\ state \in [Thread -> State]
    /\ stack \in [Thread -> Seq(Frame)]
    /\ \A t \in Thread : stack[t] # <<>> /\ stack[t][1].kind = "main"
    /\ next \in 1..(MaxIds + 1)
    /\ ended \subseteq Thread
    /\ delivered \subseteq [hwnd : Hwnd \cup {NoWindow}, message : Message,
                            by : {"proc", "default"}]
    /\ calls \in [Thread -> Nat]
    /\ \A t \in Thread : calls[t] <= MaxCalls[t]
    /\ events \in 0..MaxEvents
    /\ forwards \in BOOLEAN

NewFrame(kind, w, m, left) ==
    [kind |-> kind, hwnd |-> w, message |-> m, got |-> NoMsg, left |-> left,
     forwarded |-> FALSE]

Init ==
    /\ state = [t \in Thread |->
                  [classes |-> <<>>, windows |-> <<>>, queue |-> <<>>, quit |-> FALSE]]
    /\ stack = [t \in Thread |-> <<NewFrame("main", NoWindow, "WM_NULL", <<>>)>>]
    /\ next = 1
    /\ ended = {}
    /\ delivered = {}
    /\ calls = [t \in Thread |-> 0]
    /\ events = 0
    /\ forwards \in BOOLEAN

-----------------------------------------------------------------------------
(* The thread's tables.                                                      *)

Positions(s, w) == {i \in DOMAIN s.windows : s.windows[i].hwnd = w}
Live(s, w) == Positions(s, w) # {}
HasProc(s, w) == \E i \in Positions(s, w) : s.windows[i].proc
First(S) == CHOOSE i \in S : \A j \in S : i <= j

post_message_internal(s, w, m) ==
    [s EXCEPT !.queue = Append(@, [hwnd |-> w, message |-> m])]

destroy_Unchecked(s, w) ==
    post_message_internal([s EXCEPT !.windows = SelectSeq(@, LAMBDA e : e.hwnd # w)],
                          w, "WM_DESTROY")

destroy_NoPost(s, w) == [s EXCEPT !.windows = SelectSeq(@, LAMBDA e : e.hwnd # w)]

destroy(s, w) ==
    IF Live(s, w)
    THEN post_message_internal([s EXCEPT !.windows = RemoveAt(@, First(Positions(s, w)))],
                               w, "WM_DESTROY")
    ELSE s

SetPaint(s, w, b) ==
    [s EXCEPT !.windows = [i \in DOMAIN @ |->
        IF @[i].hwnd = w THEN [@[i] EXCEPT !.paint_pending = b] ELSE @[i]]]

def_window_proc_w_impl(s, w, m) ==
    CASE m = "WM_DESTROY" -> [s EXCEPT !.quit = TRUE]
      [] m = "WM_CLOSE" -> destroy(s, w)
      [] m = "WM_PAINT" -> SetPaint(s, w, FALSE)
      [] OTHER -> s

\* The classes find_class_by_name and then the search by atom settle on.
Named(s, n) == {i \in DOMAIN s.classes : s.classes[i].name = n}
WithAtom(s, a) == {i \in DOMAIN s.classes : s.classes[i].atom = a}
ClassOf(s, n) == s.classes[First(WithAtom(s, s.classes[First(Named(s, n))].atom))]

\* Closing is one message of its own; the others are told apart by data only.
translate_event_to_msg(w, e) ==
    [hwnd |-> w, message |-> IF e = "Close" THEN "WM_CLOSE" ELSE "WM_KEYDOWN"]

\* Only the first window that has a host window is asked for its events.
HostWindows(s) == {i \in DOMAIN s.windows : s.windows[i].host}
Polled(s) == {i \in HostWindows(s) : i = First(HostWindows(s)) /\ s.windows[i].pending # <<>>}

-----------------------------------------------------------------------------
(* Activations.                                                              *)

Top(t) == Last(stack[t])
GuestRuns(t) == Top(t).kind \in {"main", "proc"}
WithTop(t, f) == Append(Front(stack[t]), f)
Got(t, m) == WithTop(t, [Top(t) EXCEPT !.got = m])

\* A call of an export by guest code of t, outside the main loop itself.
Call(t) ==
    /\ GuestRuns(t)
    /\ calls[t] < MaxCalls[t]
    /\ calls' = [calls EXCEPT ![t] = @ + 1]

\* send_message_internal and the body of dispatch_message_w: run the window's
\* procedure on top of the activations stk, or the default handling.
Deliver(t, w, m, stk) ==
    IF HasProc(state[t], w)
    THEN /\ stack' = [stack EXCEPT ![t] = Append(stk, NewFrame("proc", w, m, <<>>))]
         /\ delivered' = delivered \cup {[hwnd |-> w, message |-> m, by |-> "proc"]}
         /\ UNCHANGED state
    ELSE /\ stack' = [stack EXCEPT ![t] = stk]
         /\ delivered' = delivered \cup {[hwnd |-> w, message |-> m, by |-> "default"]}
         /\ state' = [state EXCEPT ![t] = def_window_proc_w_impl(@, w, m)]

send_message_w(t) ==
    /\ Call(t)
    /\ \E w \in 1..(next - 1), m \in GuestMessage : Deliver(t, w, m, stack[t])
    /\ UNCHANGED <<next, ended, events>>

update_window(t) ==
    /\ Call(t)
    /\ \E w \in 1..(next - 1) : Deliver(t, w, "WM_PAINT", stack[t])
    /\ UNCHANGED <<next, ended, events>>

-----------------------------------------------------------------------------
(* Classes and windows.                                                      *)

register_class_ex_w(t) ==
    /\ Call(t)
    /\ next <= MaxIds
    /\ \E n \in Class, p \in BOOLEAN :
         state' = [state EXCEPT ![t].classes =
                     Append(@, [atom |-> next % AtomSpace, name |-> n, proc |-> p])]
    /\ next' = next + 1
    /\ UNCHANGED <<stack, ended, delivered, events>>

unregister_class_w(t) ==
    /\ Call(t)
    /\ \E n \in Class :
         /\ Named(state[t], n) # {}
         /\ state' = [state EXCEPT ![t].classes = RemoveAt(@, First(Named(state[t], n)))]
    /\ UNCHANGED <<stack, next, ended, delivered, events>>

CreationMessages == <<"WM_CREATE", "WM_SIZE", "WM_MOVE", "WM_SHOWWINDOW">>

\* Opening the host window fails on a headless host; the handle is valid anyway.
create_window_ex_w(t) ==
    /\ Call(t)
    /\ next <= MaxIds
    /\ \E n \in Class, host \in BOOLEAN :
         /\ Named(state[t], n) # {}
         /\ LET proc == ClassOf(state[t], n).proc
            IN  /\ state' = [state EXCEPT ![t].windows =
                               Append(@, [hwnd |-> next, proc |-> proc, host |-> host,
                                          paint_pending |-> FALSE, pending |-> <<>>])]
                /\ stack' = [stack EXCEPT ![t] =
                               IF proc
                               THEN Append(@, NewFrame("create", next, "WM_NULL",
                                                       CreationMessages))
                               ELSE @]
    /\ next' = next + 1
    /\ UNCHANGED <<ended, delivered, events>>

\* CreateWindowExW sends the next of its messages, then returns the handle.
SendNext(t) ==
    /\ Top(t).kind = "create"
    /\ Top(t).left # <<>>
    /\ Deliver(t, Top(t).hwnd, Head(Top(t).left),
               WithTop(t, [Top(t) EXCEPT !.left = Tail(@)]))
    /\ UNCHANGED <<next, ended, calls, events>>

CreateReturns(t) ==
    /\ Top(t).kind = "create"
    /\ Top(t).left = <<>>
    /\ stack' = [stack EXCEPT ![t] = Front(@)]
    /\ UNCHANGED <<state, next, ended, delivered, calls, events>>

destroy_window(t) ==
    /\ Call(t)
    /\ \E w \in 1..(next - 1) :
         /\ Live(state[t], w)
         /\ state' = [state EXCEPT ![t] = destroy(@, w)]
    /\ UNCHANGED <<stack, next, ended, delivered, events>>

invalidate_rect(t) ==
    /\ Call(t)
    /\ \E w \in 1..(next - 1) : state' = [state EXCEPT ![t] = SetPaint(@, w, TRUE)]
    /\ UNCHANGED <<stack, next, ended, delivered, events>>

-----------------------------------------------------------------------------
(* The message loop.                                                         *)

post_message_w(t) ==
    /\ Call(t)
    /\ \E w \in 1..(next - 1), m \in GuestMessage :
         state' = [state EXCEPT ![t] = post_message_internal(@, w, m)]
    /\ UNCHANGED <<stack, next, ended, delivered, events>>

post_quit_message(t) ==
    /\ Call(t)
    /\ state' = [state EXCEPT ![t].quit = TRUE]
    /\ UNCHANGED <<stack, next, ended, delivered, events>>

TakeQueued(t) ==
    /\ state[t].queue # <<>>
    /\ state' = [state EXCEPT ![t].queue = Tail(@)]
    /\ LET m == Head(state[t].queue)
       IN  stack' = [stack EXCEPT ![t] = Got(t, m)]

TakeHostEvent(t) ==
    \E i \in Polled(state[t]) :
        LET win == state[t].windows[i]
        IN  /\ state' = [state EXCEPT ![t].windows[i].pending = Tail(@)]
            /\ stack' = [stack EXCEPT ![t] =
                           Got(t, translate_event_to_msg(win.hwnd, Head(win.pending)))]

\* GetMessageW found WM_QUIT and returned 0: the guest leaves its loop.
LeaveLoop(t) == ended' = IF Top(t).kind = "main" THEN ended \cup {t} ELSE ended

GetQueued(t) ==
    /\ TakeQueued(t)
    /\ IF Head(state[t].queue).message = "WM_QUIT" THEN LeaveLoop(t) ELSE UNCHANGED ended

GetQuit_ReturnsOne(t) ==
    /\ state[t].queue = <<>>
    /\ state[t].quit
    /\ UNCHANGED <<state, stack, ended>>

GetQuit(t) ==
    /\ state[t].queue = <<>>
    /\ state[t].quit
    /\ LeaveLoop(t)
    /\ UNCHANGED <<state, stack>>

GetHostEvent(t) ==
    /\ state[t].queue = <<>>
    /\ ~state[t].quit
    /\ TakeHostEvent(t)
    /\ UNCHANGED ended

GetNothing(t) ==
    /\ state[t].queue = <<>>
    /\ ~state[t].quit
    /\ Polled(state[t]) = {}
    /\ stack' = [stack EXCEPT ![t] = Got(t, [hwnd |-> NoWindow, message |-> "WM_NULL"])]
    /\ UNCHANGED <<state, ended>>

\* The main loop calls GetMessageW again and again, a window procedure (a
\* modal loop) within the bound on calls.
get_message_w(t) ==
    /\ GuestRuns(t)
    /\ Top(t).got = NoMsg
    /\ IF Top(t).kind = "main" THEN t \in Looper /\ UNCHANGED calls ELSE Call(t)
    /\ \/ GetQueued(t)
       \/ GetQuit(t)
       \/ GetHostEvent(t)
       \/ GetNothing(t)
    /\ UNCHANGED <<next, delivered, events>>

peek_message_w(t) ==
    /\ Call(t)
    /\ Top(t).got = NoMsg
    /\ \/ TakeQueued(t)
       \/ state[t].queue = <<>> /\ TakeHostEvent(t)
    /\ UNCHANGED <<next, ended, delivered, events>>

dispatch_message_w(t) ==
    /\ GuestRuns(t)
    /\ Top(t).got # NoMsg
    /\ Deliver(t, Top(t).got.hwnd, Top(t).got.message, Got(t, NoMsg))
    /\ UNCHANGED <<next, ended, calls, events>>

\* The guest filters a message it retrieved.
Discard(t) ==
    /\ ~forwards
    /\ GuestRuns(t)
    /\ Top(t).got # NoMsg
    /\ stack' = [stack EXCEPT ![t] = Got(t, NoMsg)]
    /\ UNCHANGED <<state, next, ended, delivered, calls, events>>

\* A window procedure passes its message on, and returns.
def_window_proc_w(t) ==
    /\ Top(t).kind = "proc"
    /\ ~Top(t).forwarded
    /\ state' = [state EXCEPT ![t] = def_window_proc_w_impl(@, Top(t).hwnd, Top(t).message)]
    /\ stack' = [stack EXCEPT ![t] = WithTop(t, [Top(t) EXCEPT !.forwarded = TRUE])]
    /\ UNCHANGED <<next, ended, delivered, calls, events>>

ProcReturns(t) ==
    /\ Top(t).kind = "proc"
    /\ Top(t).got = NoMsg
    /\ forwards => Top(t).forwarded
    /\ stack' = [stack EXCEPT ![t] = Front(@)]
    /\ UNCHANGED <<state, next, ended, delivered, calls, events>>

\* The display server has an event for a host window.
HostSends(t) ==
    /\ events < MaxEvents
    /\ \E i \in HostWindows(state[t]), e \in HostEvent :
         state' = [state EXCEPT ![t].windows[i].pending = Append(@, e)]
    /\ events' = events + 1
    /\ UNCHANGED <<stack, next, ended, delivered, calls>>

Loop(t) ==
    \/ Top(t).kind = "main" /\ get_message_w(t)
    \/ dispatch_message_w(t)
    \/ forwards /\ def_window_proc_w(t)
    \/ ProcReturns(t)
    \/ SendNext(t)
    \/ CreateReturns(t)

Next ==
    /\ UNCHANGED forwards
    /\ \E t \in Thread :
        \/ register_class_ex_w(t)
        \/ unregister_class_w(t)
        \/ create_window_ex_w(t)
        \/ destroy_window(t)
        \/ invalidate_rect(t)
        \/ update_window(t)
        \/ send_message_w(t)
        \/ post_message_w(t)
        \/ post_quit_message(t)
        \/ get_message_w(t)
        \/ peek_message_w(t)
        \/ dispatch_message_w(t)
        \/ Discard(t)
        \/ def_window_proc_w(t)
        \/ ProcReturns(t)
        \/ SendNext(t)
        \/ CreateReturns(t)
        \/ HostSends(t)

\* A guest thread keeps running its loop, its window procedures return, and
\* CreateWindowExW runs to its end; nothing makes the guest call anything else.
Spec ==
    /\ Init /\ [][Next]_vars
    /\ \A t \in Thread : WF_vars(Loop(t) /\ UNCHANGED forwards)
-----------------------------------------------------------------------------
(* Properties.                                                               *)

Handled(w, m, by) == [hwnd |-> w, message |-> m, by |-> by] \in delivered

DestroysInFlight(t, w) ==
    {<<"queue", t, i>> : i \in {j \in DOMAIN state[t].queue :
         state[t].queue[j] = [hwnd |-> w, message |-> "WM_DESTROY"]}}
    \cup {<<"got", t, i>> : i \in {j \in DOMAIN stack[t] :
         stack[t][j].got = [hwnd |-> w, message |-> "WM_DESTROY"]}}

(* A window's messages begin with one creation and end with one            *)
(* destruction.  Its procedure sees WM_CREATE before any other message,     *)
(* whatever the guest posts, sends, creates or destroys from inside its     *)
(* procedures and whatever the display server reports meanwhile             *)
(* (create_window_ex_w: without it the procedure "crashes on the first      *)
(* message").  While it lives there is no WM_DESTROY for it, and afterwards *)
(* there is at most one, queued, retrieved or handled, however              *)
(* DestroyWindow, WM_CLOSE and the default handling are nested and on       *)
(* whichever thread they run (destroy_window removes, then posts).          *)
CreatedAndDestroyedOnce ==
    /\ TypeOK
    /\ \A d \in delivered : d.by = "proc" => Handled(d.hwnd, "WM_CREATE", "proc")
    /\ \A w \in Hwnd :
        LET inFlight == UNION {DestroysInFlight(t, w) : t \in Thread}
            handled == {d \in delivered : d.hwnd = w /\ d.message = "WM_DESTROY"}
        IN  /\ Cardinality(inFlight) + Cardinality(handled) <= 1
            /\ (\E t \in Thread : Live(state[t], w)) => inFlight \cup handled = {}

(* Why it holds, as an inductive invariant.  A window handle given out is    *)
(* owned (a thread has the window), doomed (its WM_DESTROY is queued or      *)
(* retrieved) or finished (the message was handled), and only one of these,  *)
(* on one thread and in one place.  A window with a procedure has seen       *)
(* WM_CREATE, or its thread is in the CreateWindowExW about to send it.      *)

IsDestroy(m) == m.message = "WM_DESTROY"
Owned(s) == {s.windows[i].hwnd : i \in DOMAIN s.windows}
Doomed(s, k) ==
    {s.queue[i].hwnd : i \in {j \in DOMAIN s.queue : IsDestroy(s.queue[j])}}
    \cup {k[i].got.hwnd : i \in {j \in DOMAIN k : IsDestroy(k[j].got)}}
Finished == {d.hwnd : d \in {e \in delivered : IsDestroy(e)}}

\* On one thread, with its state s and activations k.
Once(s, k) ==
    /\ \A i, j \in DOMAIN s.windows : s.windows[i].hwnd = s.windows[j].hwnd => i = j
    /\ \A i, j \in DOMAIN s.queue : IsDestroy(s.queue[i]) /\ s.queue[j] = s.queue[i] => i = j
    /\ \A i, j \in DOMAIN k : IsDestroy(k[i].got) /\ k[j].got = k[i].got => i = j
    /\ \A i \in DOMAIN s.queue, j \in DOMAIN k :
         IsDestroy(s.queue[i]) => k[j].got # s.queue[i]
    /\ Owned(s) \cap Doomed(s, k) = {}
Mine(t) == Owned(state[t]) \cup Doomed(state[t], stack[t])
HandlesApart ==
    /\ \A t \in Thread : Once(state[t], stack[t])
    /\ \A t \in Thread : Mine(t) \subseteq (1..(next - 1)) \ Finished
    /\ \A t, u \in Thread : t # u => Mine(t) \cap Mine(u) = {}
    /\ Finished \subseteq 1..(next - 1)
    /\ \A d \in delivered : IsDestroy(d) => d.by = "default"

Creating(k, w) ==
    Last(k).kind = "create" /\ Last(k).hwnd = w /\ Last(k).left = CreationMessages
CreatedFirst ==
    /\ \A d \in delivered : d.by = "proc" => Handled(d.hwnd, "WM_CREATE", "proc")
    /\ \A t \in Thread : \A i \in DOMAIN state[t].windows :
         state[t].windows[i].proc =>
           \/ Handled(state[t].windows[i].hwnd, "WM_CREATE", "proc")
           \/ Creating(stack[t], state[t].windows[i].hwnd)
CreationLeft ==
    \A t \in Thread : \A i \in DOMAIN stack[t] :
        \A j \in DOMAIN stack[t][i].left : stack[t][i].left[j] # "WM_DESTROY"
LoopInv == TypeOK /\ HandlesApart /\ CreatedFirst /\ CreationLeft

(* The quit flag ends the main loop: once PostQuitMessage was called, by    *)
(* the guest or by the default handling of WM_DESTROY, GetMessageW returns  *)
(* 0 to the loop when the queue has drained.                                *)
QuitEndsLoop == \A t \in Looper : state[t].quit ~> t \in ended

(* Closing ends the program: a WM_CLOSE queued for a live window, with      *)
(* procedures that forward to DefWindowProcW, leads through DestroyWindow,  *)
(* the queued WM_DESTROY and PostQuitMessage to the end of the loop.        *)
CloseEndsLoop ==
    \A t \in Looper :
        (/\ forwards
         /\ \E m \in Range(state[t].queue) : m.message = "WM_CLOSE" /\ Live(state[t], m.hwnd))
            ~> t \in ended
=============================================================================
