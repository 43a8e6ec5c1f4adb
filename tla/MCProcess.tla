------------------------------ MODULE MCProcess ------------------------------
(***************************************************************************)
(* A process under one model check: the main image loaded and started, its *)
(* exception table searched and unwound, a shader compiled, a path taken   *)
(* apart, and the tables its threads share (ProcessTables).  None of them  *)
(* uses another, so a behaviour exercises one table, or one image.         *)
(***************************************************************************)
EXTENDS PeImage, ProcessTables

U == INSTANCE Unwind

VARIABLES subject,   \* what a behaviour is about
          input,     \* the table and address, or the codes, of an unwind; the text to lex; the paths
          shader     \* the shader being compiled

\* The shader compiler, as MCShaders takes it.
CONSTANTS Reparsed(_), Compiled(_, _), Executed(_), Returns(_, _)

S == INSTANCE MCShaders
L == INSTANCE HlslLexer

CONSTANT MAX_PATH
P == INSTANCE ShellPaths

MCReparsed(decls) == S!ParsedBack(decls)
MCCompiled(decls, stage) == S!codegen(decls, stage)
MCExecuted(g) == S!Run(g)
MCReturns(decls, stage) == S!Returned(decls, stage)

-----------------------------------------------------------------------------
(* Images as a linker makes them.  Pages of 8 cells: headers, code, constants *)
(* with the TLS directory, callbacks and import slots, data, relocations.  *)

MCBases == {136, 280}
MCPreferred == 200

\* Cell -> rva of the address it holds.
TlsPointers(callbacks) ==
  (16 :> 33) @@ (17 :> 35) @@ (18 :> 32) @@ (19 :> 21) @@
  [i \in 21..(20 + Len(callbacks)) |-> callbacks[i - 20]]
DataPointers == (28 :> 9) @@ (33 :> 28)

Section(va, vsz, raw, rsz, flags) ==
  [va |-> va, vsz |-> vsz, raw |-> raw, rsz |-> rsz, flags |-> flags, debug |-> FALSE]

\* An image with these TLS callbacks and imports.  The last section has two
\* cells of raw data and is zero beyond them, in the file and in the image.
Linked(callbacks, imports) ==
  LET pointers == TlsPointers(callbacks) @@ DataPointers
      value == [c \in 0..41 |->
                  IF c \in DOMAIN pointers THEN MCPreferred + pointers[c]
                  ELSE IF c = 20 THEN 1 ELSE 0]
      cells == SelectSeq([i \in 1..42 |-> i - 1], LAMBDA c : c \in DOMAIN pointers)
      Entry(c) == [page |-> 8 * (c \div 8), offset |-> c % 8, typ |-> 10]
  IN [size |-> 48, headers |-> 8, preferred |-> MCPreferred,
      file |-> [i \in 1..42 |-> value[i - 1]],
      sections |-> << Section(8, 8, 8, 8, {"r", "x", "w"}),
                      Section(16, 16, 16, 16, {"r"}),
                      Section(32, 8, 32, 4, {"r", "w"}),
                      Section(40, 8, 40, 2, {"r"}) >>,
      reloc |-> [rva |-> 40, size |-> 2,
                 blocks |-> << [i \in DOMAIN cells |-> Entry(cells[i])],
                               << [page |-> 40, offset |-> 0, typ |-> 0] >> >>],
      pointers |-> pointers, callbacks |-> callbacks, template |-> 3,
      imports |-> imports, pdata |-> [rva |-> 29, size |-> 24],
      tls |-> 16, entry |-> 8]

Import(dll, sym, slot) == [dll |-> dll, sym |-> sym, slot |-> slot]

Whole == Linked(<<9, 10>>,
  << Import("kernel32", "ExitProcess", 24), Import("api-ms-win-core", "CreateWindow", 25),
     Import("msvcp140", "new", 26), Import("api-ms-win-crt", "_fmode", 27) >>)
Unusual == Linked(<<10>>,
  << Import("vcruntime140", "Unwind", 24), Import("vcruntime140", "memset", 25),
     Import("api-ms-win-crt", "strlen", 26), Import("physx", "PxInit", 27),
     Import("lua", "missing", 99) >>)
Bad(i) == [Unusual EXCEPT !.pointers = <<>>, !.imports = <<>>,
                          !.reloc.blocks = << <<i>> >>]

MCImages ==
  { Whole, Unusual,
    \* no relocations and no TLS; two images the loader refuses at another base
    [Whole EXCEPT !.reloc.rva = 0, !.tls = 0, !.template = 0, !.pointers = <<>>,
              !.callbacks = <<>>],
    [Whole EXCEPT !.reloc.size = 9],
    Bad([page |-> 0, offset |-> 0, typ |-> Overflow]),
    Bad([page |-> 48, offset |-> 1, typ |-> 10]),
    \* 32-bit and 16-bit relocations, and types the loader skips
    [Unusual EXCEPT !.pointers = <<>>, !.tls = 47, !.template = 0, !.callbacks = <<>>,
       !.reloc.blocks = << [i \in 1..3 |-> [page |-> 24, offset |-> 4, typ |-> i + 1]] >>],
    \* TLS without relocations; an index, a callback and an entry in the wrong
    \* section
    [Linked(<<>>, <<>>) EXCEPT !.reloc.rva = 0, !.template = 0, !.pointers = <<>>],
    [Unusual EXCEPT !.file[19] = MCPreferred + 29, !.pointers[18] = 29, !.imports = <<>>],
    Linked(<<9, 29>>, <<>>), [Whole EXCEPT !.entry = 32],
    \* a debug section marked executable, an empty image
    [Whole EXCEPT !.sections = Append(@, [Section(48, 0, 0, 0, {"x"}) EXCEPT !.debug = TRUE])],
    [Whole EXCEPT !.size = 0] }

Export(dll, sym, n_args) == [dll |-> dll, sym |-> sym, n_args |-> n_args, noreturn |-> FALSE]
MCSpecs ==
  << [Export("kernel32", "ExitProcess", 1) EXCEPT !.noreturn = TRUE],
     Export("kernel32", "CreateWindow", 12), Export("kernel32", "WriteFile", 5),
     Export("msvcp140", "new", 1), Export("vcruntime140", "memset", 3),
     Export("ntdll", "Unwind", 6), Export("ucrtbase", "strlen", 1) >>
MCDataSymbols == {<<"msvcrt", "_fmode">>}
MCApiSets == {"api-ms-win-core"}
MCOnDisk == {<<"msvcp140", "new">>, <<"physx", "PxInit">>}

-----------------------------------------------------------------------------
(* Exception tables and unwind codes. *)

\* Tables of functions in order, with and without gaps.
FunctionTables ==
  {<<>>} \cup
  { SelectSeq([i \in 1..3 |-> [begin |-> 4 * i + g, end |-> 4 * i + 4 - h]],
              LAMBDA f : f.begin # 8 + skip) :
    g \in 0..1, h \in 0..1, skip \in {0, 9} }

\* Unwind information: every two codes, and three with long operands, under
\* every kind of header.
Words == {op + 16 * info : op \in 0..10, info \in {0, 1, 5, 15}} \cup {256}
Codes == {<<>>} \cup [1..1 -> Words] \cup [1..2 -> Words] \cup {<<1, 258, w>> : w \in Words}
UnwindInfos ==
  { [unwind_data |-> 400, version |-> 1, flags |-> {"EHANDLER"}, codes |-> codes,
     frame_reg |-> fr, frame_offset |-> 2] : codes \in Codes, fr \in {0, 5} } \cup
  { [unwind_data |-> data, version |-> version, flags |-> flags, codes |-> <<80>>,
     frame_reg |-> 0, frame_offset |-> 0] :
    data \in {0, 400}, version \in 0..3, flags \in SUBSET {"EHANDLER", "UHANDLER", "CHAININFO"} }

-----------------------------------------------------------------------------
\* Sources of at most MaxText characters.
MaxText == 4
Characters == {"1", "0", ".", "e", "x", "u", " ", "/", "*", "=", "\n"}

imagesVars == <<imageVars, subject, input, shader>>

ImagesInit ==
  /\ ImageInit
  /\ input = <<>> /\ S!ShaderInit
  /\ \/ subject = "image"
     \/ subject \in {"unwind", "shader", "text", "path"} /\ img = Whole /\ soft

ImageStep ==
  /\ subject = "image" /\ ImageNext
  /\ UNCHANGED <<subject, input, shader>>
ChooseLookup ==
  /\ subject = "unwind" /\ input = <<>>
  /\ \E t \in FunctionTables, pc \in 97..122 : input' = [table |-> t, pc |-> pc]
  /\ UNCHANGED <<imageVars, subject, shader>>
ChooseUnwindInfo ==
  /\ subject = "unwind" /\ input = <<>>
  /\ \E u \in UnwindInfos : input' = [info |-> u]
  /\ UNCHANGED <<imageVars, subject, shader>>

CompileExpression ==
  /\ subject = "shader" /\ S!CompileExpression
  /\ UNCHANGED <<imageVars, subject, input>>
CompileShader ==
  /\ subject = "shader" /\ S!CompileShader
  /\ UNCHANGED <<imageVars, subject, input>>

ChooseText ==
  /\ subject = "text" /\ Len(input) < MaxText
  /\ \E c \in Characters : input' = Append(input, c)
  /\ UNCHANGED <<imageVars, subject, shader>>

\* Every path of three characters, with one of two, and their doubles, which
\* are longer than a buffer of MAX_PATH.
Texts(n) == UNION {[1..k -> DOMAIN P!Code] : k \in 0..n}
ChoosePath ==
  /\ subject = "path" /\ input = <<>>
  /\ \E p \in Texts(3), m \in Texts(2), twice \in BOOLEAN :
       input' = [path |-> IF twice THEN p \o p ELSE p, more |-> m]
  /\ UNCHANGED <<imageVars, subject, shader>>

ImagesNext ==
  \/ ImageStep \/ ChooseLookup \/ ChooseUnwindInfo \/ ChooseText \/ ChoosePath
  \/ CompileExpression \/ CompileShader

\* UnwindClimbsStack: the binary search finds exactly the function an address
\* is in, and whatever unwind codes its entry names, unwinding goes up the stack
\* and takes the return address and every register from it (seh.rs).
UnwindClimbsStack ==
  subject = "unwind" /\ input # <<>> =>
    IF "info" \in DOMAIN input THEN U!Climbs(input.info)
    ELSE U!FindsFunction(input.table, 100, 20, input.pc)

\* ReadsAsWritten: a source is refused only if it is malformed, its tokens are in
\* order and apart, what lies between two of them is blank or a comment, and none
\* stops where it could go on (lexer.rs; numbers with a suffix aside); and what
\* HLSL writes for a tree parses to that tree (parser.rs; nothing is said of an
\* `if` without `else` before a keyword).
ReadsAsWritten ==
  /\ subject = "text" => L!Tiles(input)
  /\ S!ParsesAsWritten

\* RunsAsWritten: the SPIR-V of a shader that writes its conversions and samples
\* no texture runs well typed from block to block and leaves in its output what
\* the source returns (codegen.rs).
RunsAsWritten == S!RunsAsWritten

\* TestedShadersCompile: the compiler's own test shaders are parsed as written
\* and run well typed to what they return (docs/compatibility.md:31-34).
TestedShadersCompile == S!TestedShadersCompile

\* PathsCompose: directory, name and extension of a path are its parts, what
\* is appended keeps its name and its extension and can be removed again, a
\* buffer of MAX_PATH is never overrun, PathCombine and PathIsRelative agree on
\* what is absolute, and searching agrees with comparing (shlwapi.rs).
PathsCompose ==
  subject = "path" /\ input # <<>> =>
    /\ P!Splits(input.path)
    /\ Len(input.path) < MAX_PATH => P!Appends(input.path, input.more)
    /\ P!Combines(input.path, input.more)
    /\ P!Searches(input.path, input.more)

-----------------------------------------------------------------------------
(* The process *)

\* Two DLLs, one of which is found under two names.
CONSTANTS p1, p2, n1, n2
MCCandidates == (n1 :> <<p1>>) @@ (n2 :> <<p2, p1>>)

VARIABLE focus    \* the table, or the images, a behaviour exercises

vars == <<focus, imagesVars, tableVars>>

Init ==
  /\ focus \in {"images", "handles", "storage", "memory", "modules", "registry"}
  /\ ImagesInit /\ (focus # "images" => subject = "text")
  /\ TablesInit

Next ==
  \/ focus = "images" /\ ImagesNext /\ UNCHANGED <<focus, tableVars>>
  \/ focus = "handles" /\ HandlesNext /\ UNCHANGED <<focus, imagesVars>>
  \/ focus = "storage" /\ StorageNext /\ UNCHANGED <<focus, imagesVars>>
  \/ focus = "memory" /\ MemoryNext /\ UNCHANGED <<focus, imagesVars>>
  \/ focus = "modules" /\ ModulesNext /\ UNCHANGED <<focus, imagesVars>>
  \/ focus = "registry" /\ KeysNext /\ UNCHANGED <<focus, imagesVars>>

Spec == Init /\ [][Next]_vars

Symmetry == Permutations(Thread)
=============================================================================
