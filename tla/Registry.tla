------------------------------- MODULE Registry -------------------------------
(***************************************************************************)
(* The in-memory registry of advapi32 (win32-kernel32/src/registry.rs): a  *)
(* map from full paths to values, a table of fake handles, and one lock.   *)
(* Every call takes the lock at least twice: once to turn its handle into  *)
(* a path, and again to work on the key of that path.  Between the two     *)
(* another thread may close the handle or delete the key.                  *)
(*                                                                         *)
(* A path is its text, a sequence of letters and separators, because       *)
(* whether a key lies below another is decided by comparing text.  A       *)
(* stored value is the number of its bytes; a key has one value name.      *)
(***************************************************************************)
EXTENDS ProcessParameters, Sequences, SequencesExt

\* HKEY_LOCAL_MACHINE, and the subkeys the guest names: none at all, two names
\* of which one begins with the other, and a name of two components.
Root == 0
Separator == "\\"
Subkey == {<<>>, <<"a">>, <<"a", "b">>, <<"a", Separator, "b">>}

\* Bytes of a value, and room in the caller's buffer (0: the length only).
Value == 1 .. 2
Room == 0 .. 2

VARIABLES
  keys,     \* keys[path]: the key's value, 0 when it has none
  handles,  \* handles[h]: the path of an open handle
  next,     \* the handle minted next
  pc,       \* where each thread is
  call,     \* call[t]: the call's name, path and argument; and as history the
            \* handle and subkey it was given, and the length of the log then
  answer,   \* history: the answer just given, after how many calls of the log
  log       \* history: the calls that took effect, in order, with the handle
            \* they opened or closed

vars == <<keys, handles, next, pc, call, answer, log>>

NoCall == [op |-> "none", path |-> <<>>, arg |-> 0, h |-> Root, sub |-> <<>>, from |-> 0]
NoAnswer == [op |-> "none", path |-> <<>>, arg |-> 0, h |-> Root, sub |-> <<>>, from |-> 0,
             status |-> "", out |-> 0, at |-> 0]

\* seed_security_defaults stores its values before the guest runs; here one
\* of one byte under a\b.
Seeded == <<"HKLM", Separator, "a", Separator, "b">>

Init ==
  /\ keys = [p \in {Seeded} |-> 1]
  /\ handles = <<>>
  /\ next = 1
  /\ pc = [t \in Thread |-> "idle"]
  /\ call = [t \in Thread |-> NoCall]
  /\ answer = NoAnswer
  /\ log = <<[op |-> "set", path |-> Seeded, arg |-> 1, h |-> Root]>>

-----------------------------------------------------------------------------
(* The first lock: from a handle to a path *)

Known(h) == h = Root \/ h \in DOMAIN handles

resolve_path(h) == IF h = Root THEN <<"HKLM">> ELSE handles[h]

Below(base, sub) == IF sub = <<>> THEN base ELSE base \o <<Separator>> \o sub

build_path(parent, sub) == Below(resolve_path(parent), sub)

\* The calls in the log that may change a key (closes are bounded by the handles).
KeyCalls == {i \in DOMAIN log : log[i].op # "close"}

\* A thread enters a call with a handle that is open.
Begin(t, op, h, sub, arg) ==
  /\ pc[t] = "idle"
  /\ Cardinality(KeyCalls) <= MaxKeyCalls
  /\ Known(h)
  /\ pc' = [pc EXCEPT ![t] = "work"]
  /\ call' = [call EXCEPT ![t] = [op |-> op, path |-> build_path(h, sub), arg |-> arg,
                                  h |-> h, sub |-> sub, from |-> Len(log)]]
  /\ answer' = NoAnswer
  /\ UNCHANGED <<keys, handles, next, log>>

\* ERROR_INVALID_HANDLE
Refused(t, h) ==
  /\ pc[t] = "idle"
  /\ ~Known(h)
  /\ answer' = [op |-> "refused", path |-> <<>>, arg |-> 0, h |-> h, sub |-> <<>>,
                from |-> Len(log), status |-> "invalid", out |-> 0, at |-> Len(log)]
  /\ UNCHANGED <<keys, handles, next, pc, call, log>>

-----------------------------------------------------------------------------
(* The second lock: the work on the path *)

Working(t, op) == pc[t] = "work" /\ call[t].op = op

\* The call answers, and is in the log if it may change a key.
Answer(t, status, out) ==
  /\ pc' = [pc EXCEPT ![t] = "idle"]
  /\ call' = [call EXCEPT ![t] = NoCall]
  /\ answer' =
       [op |-> call[t].op, path |-> call[t].path, arg |-> call[t].arg,
        h |-> call[t].h, sub |-> call[t].sub, from |-> call[t].from,
        status |-> status, out |-> out, at |-> Len(log)]

\* The call, with the handle it minted (Root: none).
Logged(t, h) ==
  log' = Append(log, [op |-> call[t].op, path |-> call[t].path, arg |-> call[t].arg, h |-> h])

\* The key's entry, made empty if it is absent.
Entry(path) ==
  [p \in DOMAIN keys \cup {path} |-> IF p \in DOMAIN keys THEN keys[p] ELSE 0]

mint(path) ==
  /\ next <= MaxKeyHandles
  /\ handles' = [h \in DOMAIN handles \cup {next} |-> IF h = next THEN path ELSE handles[h]]
  /\ next' = next + 1

\* RegOpenKey creates the key it does not find.
reg_open_key_w(t) ==
  LET path == call[t].path IN
  /\ Working(t, "open")
  /\ keys' = Entry(path)
  /\ mint(path)
  /\ Answer(t, "ok", 0)
  /\ Logged(t, next)

reg_create_key_ex_w(t) ==
  LET path == call[t].path IN
  /\ Working(t, "create")
  /\ keys' = Entry(path)
  /\ mint(path)
  /\ Answer(t, IF path \in DOMAIN keys THEN "existing" ELSE "new", 0)
  /\ Logged(t, next)

\* One lock; roots and unknown handles are left alone, with success.
reg_close_key(t, h) ==
  /\ pc[t] = "idle"
  /\ h \in DOMAIN handles
  /\ handles' = [g \in DOMAIN handles \ {h} |-> handles[g]]
  /\ log' = Append(log, [op |-> "close", path |-> <<>>, arg |-> 0, h |-> h])
  /\ answer' = NoAnswer
  /\ UNCHANGED <<keys, next, pc, call>>

\* The length is reported whenever there is a value; the bytes are copied when
\* they fit (what the status is when they do not, its comments disagree on).
reg_query_value_ex_w(t) ==
  LET path == call[t].path
      room == call[t].arg
  IN
  /\ Working(t, "query")
  /\ \/ /\ path \notin DOMAIN keys
        /\ Answer(t, "not found", 0)
     \/ /\ path \in DOMAIN keys
        /\ keys[path] = 0
        /\ Answer(t, "not found", 0)
     \/ /\ path \in DOMAIN keys
        /\ keys[path] # 0
        /\ Answer(t, IF room = 0 THEN "length"
                     ELSE IF keys[path] > room THEN "more" ELSE "copied",
                  keys[path])
  /\ UNCHANGED <<keys, handles, next, log>>

reg_set_value_ex_w(t) ==
  LET path == call[t].path IN
  /\ Working(t, "set")
  /\ keys' = [p \in DOMAIN keys \cup {path} |-> IF p = path THEN call[t].arg ELSE keys[p]]
  /\ Answer(t, "ok", 0)
  /\ Logged(t, Root)
  /\ UNCHANGED <<handles, next>>

\* Only the key itself: keys below it and handles to it stay.
reg_delete_key_w(t) ==
  LET path == call[t].path IN
  /\ Working(t, "delete")
  /\ keys' = [p \in DOMAIN keys \ {path} |-> keys[p]]
  /\ Answer(t, IF path \in DOMAIN keys THEN "ok" ELSE "not found", 0)
  /\ Logged(t, Root)
  /\ UNCHANGED <<handles, next>>

\* A mutated form: the text below is compared without the separator.
InTree_Text(base, path) == IsPrefix(base, path)

InTree(base, path) == path = base \/ IsPrefix(base \o <<Separator>>, path)

\* The keys below go whether or not the base was there.
reg_delete_tree_w(t) ==
  LET base == call[t].path IN
  /\ Working(t, "tree")
  /\ keys' = [p \in {q \in DOMAIN keys : ~InTree(base, q)} |-> keys[p]]
  /\ Answer(t, IF base \in DOMAIN keys THEN "ok" ELSE "not found", 0)
  /\ Logged(t, Root)
  /\ UNCHANGED <<handles, next>>

\* Keys exactly one component below.
DirectSubkeys(path) ==
  {p \in DOMAIN keys :
     /\ IsPrefix(path \o <<Separator>>, p)
     /\ LET rest == SubSeq(p, Len(path) + 2, Len(p)) IN
        rest # <<>> /\ ~Contains(rest, Separator)}

\* RegQueryInfoKey counts subkeys under one lock and values under another.
reg_query_info_key_w(t) ==
  /\ Working(t, "info")
  /\ pc' = [pc EXCEPT ![t] = "values"]
  /\ answer' =
       [op |-> "subkeys", path |-> call[t].path, arg |-> 0,
        h |-> call[t].h, sub |-> call[t].sub, from |-> call[t].from, status |-> "ok",
        out |-> Cardinality(DirectSubkeys(call[t].path)), at |-> Len(log)]
  /\ UNCHANGED <<keys, handles, next, call, log>>

CountValues(t) ==
  LET path == call[t].path IN
  /\ pc[t] = "values"
  /\ Answer(t, "ok", IF path \in DOMAIN keys /\ keys[path] # 0 THEN 1 ELSE 0)
  /\ UNCHANGED <<keys, handles, next, log>>

-----------------------------------------------------------------------------

Next ==
  \E t \in Thread :
    \/ \E h \in 0 .. (next - 1) :
         \/ \E op \in {"open", "create", "delete", "tree"}, sub \in Subkey :
              Begin(t, op, h, sub, 0)
         \/ \E v \in Value : Begin(t, "set", h, <<>>, v)
         \/ \E room \in Room : Begin(t, "query", h, <<>>, room)
         \/ Begin(t, "info", h, <<>>, 0)
         \/ Refused(t, h)
         \/ reg_close_key(t, h)
    \/ reg_open_key_w(t) \/ reg_create_key_ex_w(t)
    \/ reg_query_value_ex_w(t) \/ reg_set_value_ex_w(t)
    \/ reg_delete_key_w(t) \/ reg_delete_tree_w(t)
    \/ reg_query_info_key_w(t) \/ CountValues(t)

Spec == Init /\ [][Next]_vars

-----------------------------------------------------------------------------
(* Properties.  Everything is read off the log alone.  A path has a key if a
   call made one and no later call deleted it, and its value is the one stored
   last since then; a handle names the path of the call that opened it, until
   it is closed. *)

Text == Seq({"HKLM", Separator, "a", "b"})
Opens == {"open", "create"}
Makes == Opens \cup {"set"}
Removes == {"delete", "tree"}
Handle == 0 .. MaxKeyHandles
Call == [op : Makes \cup Removes \cup {"query", "info", "none"}, path : Text, arg : 0 .. 2,
         h : Handle, sub : Subkey, from : Nat]
Event == [op : Makes \cup Removes \cup {"close"}, path : Text, arg : 0 .. 2, h : Handle]

TypeOK ==
  /\ DOMAIN keys \subseteq Text
  /\ \A p \in DOMAIN keys : keys[p] \in {0} \cup Value
  /\ DOMAIN handles \subseteq 1 .. (next - 1)
  /\ \A h \in DOMAIN handles : handles[h] \in Text
  /\ next \in 1 .. (MaxKeyHandles + 1)
  /\ pc \in [Thread -> {"idle", "work", "values"}]
  /\ call \in [Thread -> Call]
  /\ log \in Seq(Event)

\* The call c deletes the path p: it is the path named, or has further components.
Deletes(c, p) ==
  \/ c.op \in Removes /\ c.path = p
  \/ /\ c.op = "tree"
     /\ \E k \in 1 .. (Len(p) - 1) : SubSeq(p, 1, k) = c.path /\ p[k + 1] = Separator

Standing(i, n, p) ==
  /\ log[i].path = p
  /\ log[i].op \in Makes
  /\ \A j \in i .. n : ~Deletes(log[j], p)

KeyIn(n, p) == \E i \in 1 .. n : Standing(i, n, p)

Stores(n, p) == {i \in 1 .. n : log[i].op = "set" /\ Standing(i, n, p)}
Latest(n, p) == CHOOSE i \in Stores(n, p) : \A j \in Stores(n, p) : j <= i

ValueIn(n, p) == IF Stores(n, p) = {} THEN 0 ELSE log[Latest(n, p)].arg

KeysIn(n) == {p \in {log[i].path : i \in 1 .. n} : KeyIn(n, p)}

ShortName == {<<"a">>, <<"b">>, <<"a", "b">>}
SubkeysIn(n, p) ==
  {q \in KeysIn(n) : \E name \in ShortName : q = p \o <<Separator>> \o name}

\* The i-th call opened h, and no call up to the n-th closed it since.
Holding(i, n, h) ==
  /\ log[i].op \in Opens /\ log[i].h = h
  /\ \A j \in i .. n : log[j].op = "close" => log[j].h # h

OpenIn(n, h) == h = Root \/ \E i \in 1 .. n : Holding(i, n, h)

\* After n calls the handle h and the subkey name the path p.
Names(n, h, sub, p) ==
  \/ h = Root /\ p = Below(<<"HKLM">>, sub)
  \/ h # Root /\ \E i \in 1 .. n : Holding(i, n, h) /\ p = Below(log[i].path, sub)

\* The answer a is about the key that was named: by its handle when the call is
\* carried out, or, if that has been closed since the call began, by its handle
\* then; and a call is refused exactly if its handle is not open when it begins.
Addressed(a) ==
  /\ (a.status = "invalid") <=> ~OpenIn(a.from, a.h)
  /\ a.status # "invalid" =>
       Names(IF OpenIn(a.at, a.h) THEN a.at ELSE a.from, a.h, a.sub, a.path)

\* The answer a is the one of a registry in which the a.at calls have been
\* executed whole.
Right(a) ==
  /\ a.op # "none" => Addressed(a)
  /\ a.op = "create" => ((a.status = "new") <=> ~KeyIn(a.at, a.path))
  /\ a.op \in Removes => ((a.status = "ok") <=> KeyIn(a.at, a.path))
  /\ a.op = "query" =>
       LET v == ValueIn(a.at, a.path) IN
       /\ a.out = v
       /\ (a.status = "not found") <=> (v = 0)
       /\ (a.status = "copied") <=> (v # 0 /\ a.arg >= v)
  /\ a.op = "subkeys" => a.out = Cardinality(SubkeysIn(a.at, a.path))
  /\ a.op = "info" => a.out = IF ValueIn(a.at, a.path) = 0 THEN 0 ELSE 1

\* Whatever two threads do between a call's two locks, opening, closing and
\* deleting included: a call whose handle stays open answers as one executed
\* whole, handle and all, at its second lock, and one whose handle another
\* thread closes in between answers as on the key the handle named when it
\* began, and on no other key, whatever has been opened since.  So a query sees
\* the value stored last and nothing deleted, exactly one creator of a key is
\* told it is new, a delete finds what is there, deleting a tree takes the keys
\* below it and no key whose name merely begins the same, and a call that
\* begins after its handle was closed is refused.
AnswersInOrder == Right(answer)

-----------------------------------------------------------------------------
(* Why AnswersInOrder holds, as an inductive invariant: the keys and the open *)
(* handles are the ones the log leaves, whatever calls are between their      *)
(* locks; no handle is minted twice, so what a call in progress was given     *)
(* keeps its path.  That the keys below a key are counted right needs that    *)
(* every path in use ends in a name.                                          *)

EndsInName(p) ==
  /\ p \in Text /\ p # <<>>
  /\ \A k \in DOMAIN p :
       p[k] = Separator /\ (\A j \in (k + 1) .. Len(p) : p[j] # Separator)
         => SubSeq(p, k + 1, Len(p)) \in ShortName

PathsNamed ==
  /\ \A p \in DOMAIN keys : EndsInName(p)
  /\ \A h \in DOMAIN handles : EndsInName(handles[h])
  /\ \A t \in Thread : pc[t] # "idle" => EndsInName(call[t].path)
CallsInPlace ==
  /\ \A t \in Thread : pc[t] = "work" => call[t].op # "none"
  /\ \A t \in Thread : pc[t] = "values" => call[t].op = "info"
  /\ \A t \in Thread : call[t].op = "set" => call[t].arg \in Value
KeysFromLog ==
  /\ DOMAIN keys = KeysIn(Len(log))
  /\ \A p \in DOMAIN keys : keys[p] = ValueIn(Len(log), p)
LatestKnown ==
  \A p \in {log[i].path : i \in DOMAIN log} : Stores(Len(log), p) # {} =>
    \E i \in Stores(Len(log), p) : \A j \in Stores(Len(log), p) : j <= i
HandlesFromLog ==
  /\ \A i \in DOMAIN log : log[i].h < next
  /\ \A h \in 1 .. (next - 1) : OpenIn(Len(log), h) <=> h \in DOMAIN handles
  /\ \A i \in DOMAIN log, h \in DOMAIN handles :
       Holding(i, Len(log), h) => log[i].path = handles[h]
CallsAddressed ==
  \A t \in Thread : pc[t] # "idle" =>
    /\ call[t].h < next /\ call[t].from <= Len(log)
    /\ OpenIn(call[t].from, call[t].h)
    /\ Names(call[t].from, call[t].h, call[t].sub, call[t].path)
    /\ Known(call[t].h) => call[t].path = build_path(call[t].h, call[t].sub)
KeysInv ==
  /\ TypeOK
  /\ PathsNamed
  /\ CallsInPlace
  /\ KeysFromLog
  /\ LatestKnown
  /\ HandlesFromLog
  /\ CallsAddressed
  /\ AnswersInOrder
=============================================================================
