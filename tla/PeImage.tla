------------------------------- MODULE PeImage -------------------------------
(***************************************************************************)
(* Loading and starting the main image: sections mapped and protected,     *)
(* relocations applied, imports bound to trampolines, TEB, stack and       *)
(* static TLS set up, TLS callbacks and the entry point run                *)
(* (pe-loader/src/{lib,mapping,imports,tls,teb}.rs, runtime/src/lib.rs).   *)
(*                                                                         *)
(* Memory is counted in cells of 8 bytes, an aligned pointer each, and     *)
(* PageCells of them are a page.  Integers are cut to Width bits for a     *)
(* cell, half of them for a DWORD and a quarter for a WORD.  Every loop of *)
(* the loader that makes system calls takes one step per turn, off the     *)
(* list `todo`.                                                            *)
(***************************************************************************)
EXTENDS ThunkArena, FiniteSets, FiniteSetsExt

CONSTANTS
  PageCells,  \* cells in a page
  Width,      \* bits in a cell
  Images,     \* the files that are loaded
  Bases,      \* addresses the kernel may choose
  Specs,      \* the implemented exports: sequence of [dll, sym, n_args, noreturn]
  DataSymbols,\* (dll, symbol) of the exported variables
  ApiSets,    \* pseudo DLLs that repeat kernel32
  OnDisk,     \* (dll, symbol) a bundled DLL exports
  Capacity    \* initial bytes of the arena

VARIABLES
  img,        \* the file
  soft,       \* NIGG_SOFT_STUBS
  phase, todo,
  base, mem, prot,      \* the mapping: its address, contents, protections
  arena, table, soft_stub, bound,
  pdata,      \* entries of the exception table, once installed
  stack, teb, tls,
  gs, ran,    \* the gs base, and what the guest has run
  unrestored  \* history: the pages a relocation left writable, with a warning

imageVars == <<img, soft, phase, todo, base, mem, prot, arena, table, soft_stub,
               bound, pdata, stack, teb, tls, gs, ran, unrestored>>

None == "none"
Wrap(v, bits) == v % (2 ^ bits)
Minus(a, b) == Larger(0, a - b)   \* saturating_sub

-----------------------------------------------------------------------------
(* Mapping (mapping.rs). *)

size == Cardinality(DOMAIN mem)
Sections == img.sections

\* Write is dropped from executable sections, and execute from debug ones.
section_prot(sec) ==
  LET x == IF "x" \in sec.flags THEN {"x"} ELSE {}
      r == IF "r" \in sec.flags \/ x = {} THEN {"r"} ELSE {}
      w == IF "w" \in sec.flags /\ x = {} THEN {"w"} ELSE {}
  IN (x \cup r \cup w) \ (IF sec.debug THEN {"x"} ELSE {})

\* The cells of a section.
Covers(s, c) == s.va <= c /\ c < s.va + s.vsz

\* What the mapping of n cells holds: headers, then each section's raw data
\* over zeroes, the later section where two overlap.
Contents(image, n) ==
  LET Raw(s, off) == IF off < s.rsz /\ s.raw + off < Len(image.file)
                     THEN image.file[s.raw + off + 1] ELSE 0
  IN [c \in 0..(n - 1) |->
        LET over == {i \in DOMAIN image.sections : Covers(image.sections[i], c)}
        IN IF over # {} THEN LET s == image.sections[Max(over)] IN Raw(s, c - s.va)
           ELSE IF c < image.headers /\ c < Len(image.file) THEN image.file[c + 1]
           ELSE 0]

PageOf(c) == c \div PageCells
Pages(n) == 0..(PageOf(n) - 1)

\* MAP_FIXED_NOREPLACE at the preferred base, an address of the kernel's
\* choice when that is taken.
MappedAt(preferred_free) ==
  IF img.preferred # 0 /\ preferred_free THEN {img.preferred}
  ELSE Bases \ {img.preferred}

\* The mapping is made, or a system call or an empty image ends the load.
map_image ==
  /\ phase = "start"
  /\ LET n == round_up(img.size, PageCells)
     IN IF n = 0
        THEN phase' = "failed" /\ UNCHANGED <<base, mem, prot, todo>>
        ELSE \/ /\ phase' = "protect" /\ todo' = Sections
                /\ \E free \in BOOLEAN : base' \in MappedAt(free)
                /\ mem' = Contents(img, n)
                /\ prot' = [p \in Pages(n) |-> RW]
             \/ phase' = "failed" /\ UNCHANGED <<base, mem, prot, todo>>
  /\ UNCHANGED <<img, soft, arena, table, soft_stub, bound, pdata, stack, teb, tls,
                 gs, ran, unrestored>>

\* Where the file has the byte of an rva: an offset, or none.
rva_to_file_offset(rva) ==
  LET Holds(s) == /\ s.va <= rva /\ rva < s.va + Larger(s.vsz, s.rsz)
                  /\ rva - s.va < s.rsz /\ s.raw + rva - s.va < Len(img.file)
      i == SelectInSeq(Sections, Holds)
  IN IF i = 0 THEN {} ELSE {Sections[i].raw + rva - Sections[i].va}
delta == base - img.preferred
NeedsRelocation == img.reloc.rva # 0 /\ img.reloc.size # 0 /\ delta # 0
RelocationsInFile ==
  \E start \in rva_to_file_offset(img.reloc.rva) :
    start + img.reloc.size <= Len(img.file)

\* Sections get their protection in order; RW ones have it already.  Then the
\* relocations begin, unless there is nothing to do.
protect_section ==
  /\ phase = "protect" /\ todo # <<>>
  /\ LET sec == Head(todo)
         span == {p \in DOMAIN prot : /\ PageOf(sec.va) <= p
                                      /\ p * PageCells < sec.va + sec.vsz}
         skip == sec.vsz = 0 \/ sec.va >= size \/ section_prot(sec) = RW
     IN \/ /\ prot' = IF skip THEN prot
                      ELSE [p \in DOMAIN prot |->
                              IF p \in span THEN section_prot(sec) ELSE prot[p]]
           /\ todo' = Tail(todo)
           /\ phase' = phase
        \/ ~skip /\ phase' = "failed" /\ UNCHANGED <<prot, todo>>
  /\ UNCHANGED <<img, soft, base, mem, arena, table, soft_stub, bound, pdata, stack,
                 teb, tls, gs, ran, unrestored>>

\* The entries of all blocks.
Relocations(image) == FlattenSeq(image.reloc.blocks)

begin_relocations ==
  /\ phase = "protect" /\ todo = <<>>
  /\ IF ~NeedsRelocation THEN phase' = "build" /\ todo' = todo
     ELSE IF ~RelocationsInFile THEN phase' = "failed" /\ todo' = todo
     ELSE phase' = "relocate" /\ todo' = Relocations(img)
  /\ UNCHANGED <<img, soft, base, mem, prot, arena, table, soft_stub, bound, pdata,
                 stack, teb, tls, gs, ran, unrestored>>

-----------------------------------------------------------------------------
(* Relocations (mapping.rs). *)

\* DIR64, HIGHLOW and LOW add the delta to a cell, its low half or its low
\* quarter; the other types are skipped.
Patched(v, bits) == (v - Wrap(v, bits)) + Wrap(Wrap(v, bits) + delta, bits)
apply_one_reloc_Preferred(v, typ) ==
  IF typ = 10 THEN Wrap(v - base, Width) ELSE v
apply_one_reloc(v, typ) ==
  CASE typ = 10 -> Patched(v, Width)
    [] typ = 3  -> Patched(v, Width \div 2)
    [] typ = 2  -> Patched(v, Width \div 4)
    [] OTHER    -> v

\* The protection a patched page goes back to: its section's, readable.
RestoreProt_Kept(rva) == RW
RestoreProt(rva) ==
  LET i == SelectInSeq(Sections, LAMBDA s : Covers(s, rva))
  IN IF i = 0 THEN RW ELSE section_prot(Sections[i]) \cup {"r"}

\* An entry is padding, malformed, outside the image, or made writable, patched
\* and protected again; making it writable may fail.  When protecting it again
\* fails, the page stays writable: the loader warns and goes on.
Overflow == -1   \* a block whose size is wrong
Target(entry) == entry.page + entry.offset
Reprotect(target) ==
  LET page == PageOf(target)
  IN \/ /\ prot' = [prot EXCEPT ![page] = RestoreProt(target)]
        /\ unrestored' = unrestored \ {page}
     \/ /\ prot' = [prot EXCEPT ![page] = RW]
        /\ unrestored' = unrestored \cup {page}
apply_relocation ==
  /\ phase = "relocate" /\ todo # <<>>
  /\ LET entry == Head(todo)
         target == Target(entry)
         fails == entry.typ = Overflow \/ (entry.typ # 0 /\ target >= size)
     IN \/ /\ ~fails
           /\ IF entry.typ = 0 THEN UNCHANGED <<mem, prot, unrestored>>
              ELSE /\ mem' = [mem EXCEPT ![target] = apply_one_reloc(@, entry.typ)]
                   /\ Reprotect(target)
           /\ todo' = Tail(todo)
           /\ phase' = phase
        \/ /\ fails \/ entry.typ # 0
           /\ phase' = "failed" /\ UNCHANGED <<mem, prot, todo, unrestored>>
  /\ UNCHANGED <<img, soft, base, arena, table, soft_stub, bound, pdata, stack, teb,
                 tls, gs, ran>>

-----------------------------------------------------------------------------
(* The table of exports and the bindings (imports.rs). *)

\* A thunk per implemented export and one for the soft stub; the pseudo DLLs
\* share kernel32's; variables are named by their address.
forwarded ==
  {<<a, Specs[i].sym>> : a \in ApiSets,
                         i \in {j \in DOMAIN Specs : Specs[j].dll = "kernel32"}}
import_specs == [name \in {<<Specs[i].dll, Specs[i].sym>> : i \in DOMAIN Specs} |->
                   LET Names(spec) == <<spec.dll, spec.sym>> = name
                   IN SelectLastInSeq(Specs, Names)]
Built ==
  LET Add(acc, spec) ==
        LET made == IF spec.noreturn THEN make_thunk_noreturn(acc.arena, spec.n_args)
                    ELSE make_thunk(acc.arena, spec.n_args)
        IN [arena |-> made.arena, thunks |-> Append(acc.thunks, made.thunk)]
      all == FoldLeft(Add, [arena |-> with_capacity(Capacity), thunks |-> <<>>], Specs)
      Thunk(name) == [kind |-> "thunk", spec |-> Specs[import_specs[name]],
                      thunk |-> all.thunks[import_specs[name]]]
      stub == make_thunk(all.arena, 0)
  IN [arena |-> stub.arena,
      soft_stub |-> [kind |-> "soft", thunk |-> stub.thunk],
      table |-> [name \in DOMAIN import_specs \cup forwarded \cup DataSymbols |->
                   IF name \in DataSymbols THEN [kind |-> "data", name |-> name]
                   ELSE IF name \in forwarded THEN Thunk(<<"kernel32", name[2]>>)
                   ELSE Thunk(name)]]

\* The arena or one of its thunks cannot be allocated: an error or a panic.
build_table ==
  /\ phase = "build" \/ (phase = "relocate" /\ todo = <<>>)
  /\ \/ /\ arena' = Built.arena /\ table' = Built.table
        /\ soft_stub' = Built.soft_stub
        /\ phase' = "bind" /\ todo' = img.imports
     \/ phase' = "failed" /\ UNCHANGED <<arena, table, soft_stub, todo>>
  /\ UNCHANGED <<img, soft, base, mem, prot, bound, pdata, stack, teb, tls, gs, ran,
                 unrestored>>

stubbed == IF soft THEN soft_stub ELSE [kind |-> "trap"]
try_resolve_from_disk(dll, sym) == <<dll, sym>> \in OnDisk
FromDisk(dll, sym) == [kind |-> "disk", name |-> <<dll, sym>>]

\* The C++ runtime is preferred from disk; the CRT's API sets, and the
\* exception support of vcruntime, are looked up under other names.
resolve(dll, sym) ==
  IF <<dll, sym>> \in DOMAIN table
  THEN IF dll \in {"vcruntime140", "msvcp140"} /\ try_resolve_from_disk(dll, sym)
       THEN FromDisk(dll, sym) ELSE table[<<dll, sym>>]
  ELSE IF dll = "api-ms-win-crt"
  THEN IF <<"ucrtbase", sym>> \in DOMAIN table THEN table[<<"ucrtbase", sym>>]
       ELSE IF <<"msvcrt", sym>> \in DOMAIN table THEN table[<<"msvcrt", sym>>]
       ELSE stubbed
  ELSE IF dll = "vcruntime140"
  THEN IF <<"ntdll", sym>> \in DOMAIN table THEN table[<<"ntdll", sym>>] ELSE stubbed
  ELSE IF try_resolve_from_disk(dll, sym) THEN FromDisk(dll, sym)
  ELSE stubbed

\* A slot outside the image is left out.  The slot's page is made writable and
\* stays so; when that fails the write faults on a read-only page.
write_iat ==
  /\ phase = "bind" /\ todo # <<>>
  /\ LET imp == Head(todo)
         page == PageOf(imp.slot)
     IN IF imp.slot >= size
        THEN UNCHANGED <<bound, prot>> /\ todo' = Tail(todo) /\ phase' = phase
        ELSE \E rc \in {"ok", "failed"} :
               /\ prot' = IF rc = "ok" THEN [prot EXCEPT ![page] = RW] ELSE prot
               /\ IF rc = "ok" \/ "w" \in prot[page]
                  THEN /\ bound' = [slot \in DOMAIN bound \cup {imp.slot} |->
                                   IF slot = imp.slot THEN resolve(imp.dll, imp.sym)
                                   ELSE bound[slot]]
                       /\ todo' = Tail(todo) /\ phase' = phase
                  ELSE phase' = "crashed" /\ UNCHANGED <<bound, todo>>
  /\ UNCHANGED <<img, soft, base, mem, arena, table, soft_stub, pdata, stack, teb,
                 tls, gs, ran, unrestored>>

ExceptionTableInImage ==
  /\ img.pdata.rva > 0 /\ img.pdata.size >= 12
  /\ img.pdata.rva + img.pdata.size \div 8 <= size

\* finalize, then the exception table when its directory is in the image.
seal_thunks ==
  /\ phase = "bind" /\ todo = <<>>
  /\ \E done \in 0..Live(arena) :
       /\ arena' = finalize(arena, done)
       /\ phase' = IF arena'.sealed THEN "stack" ELSE "failed"
       /\ pdata' = IF arena'.sealed /\ ExceptionTableInImage
                   THEN img.pdata.size \div 12 ELSE pdata
  /\ UNCHANGED <<img, soft, todo, base, mem, prot, table, soft_stub, bound, stack,
                 teb, tls, gs, ran, unrestored>>

-----------------------------------------------------------------------------
(* Stack, TEB and static TLS (runtime/src/lib.rs, teb.rs, tls.rs). *)

\* The blocks guest code reads through gs, zero but for these fields.
TebPeb_new(image_base) ==
  [StackBase |-> "stack", Self |-> "teb", PEB |-> "peb", ImageBase |-> image_base,
   TlsPointer |-> None]

\* The stack and its guard page: when the guard cannot be made the stack is
\* unmapped again.
Stack_new ==
  /\ phase = "stack"
  /\ \/ /\ stack' = "guarded" /\ phase' = "tls"
        /\ teb' = TebPeb_new(base)
     \/ phase' = "failed" /\ UNCHANGED <<stack, teb>>
  /\ UNCHANGED <<img, soft, todo, base, mem, prot, arena, table, soft_stub, bound,
                 pdata, tls, gs, ran, unrestored>>

TlsDirSize == 5

\* The directory, unless it is unusable; its cells hold addresses, moved by the
\* relocations.
read_tls_directory ==
  LET at == img.tls
  IN IF at + TlsDirSize > size THEN {}
     ELSE LET dir == [raw_data_start |-> mem[at], raw_data_end |-> mem[at + 1],
                      address_of_index |-> mem[at + 2],
                      address_of_callbacks |-> mem[at + 3],
                      size_of_zero_fill |-> mem[at + 4]]
          IN IF dir.raw_data_end < dir.raw_data_start THEN {} ELSE {dir}

Rva(va) == Minus(va, base)
raw_size(dir) == dir.raw_data_end - dir.raw_data_start
TemplateInImage(dir) ==
  raw_size(dir) = 0 \/ Rva(dir.raw_data_start) + raw_size(dir) <= size
IndexInImage(dir) ==
  dir.address_of_index = 0 \/ Rva(dir.address_of_index) < size

\* The thread's copy: the template, then zeroes.
TlsData(dir) ==
  [i \in 1..Larger(1, raw_size(dir) + dir.size_of_zero_fill) |->
     IF i <= raw_size(dir) THEN mem[Rva(dir.raw_data_start) + i - 1] ELSE 0]

MaxCallbacks == 64

\* The array up to its null, the image's end or the limit, without the
\* addresses outside the image.
collect_callbacks(dir) ==
  LET first == Rva(dir.address_of_callbacks)
      Ends(i) == first + i >= size \/ mem[first + i] = 0
      n == Min({i \in 0..Minus(size, first) : Ends(i)} \cup {MaxCallbacks})
  IN IF dir.address_of_callbacks = 0 THEN <<>>
     ELSE SelectSeq([i \in 1..n |-> Rva(mem[first + i - 1])], LAMBDA rva : rva < size)

\* An unusable directory is ignored; a template or an index outside the image
\* fails the load; the index is written to a page that may be read-only.
setup_tls ==
  /\ phase = "tls"
  /\ LET dirs == IF img.tls = 0 THEN {} ELSE read_tls_directory
     IN \/ dirs = {} /\ phase' = "ready" /\ UNCHANGED <<mem, tls, teb, todo>>
        \/ \E dir \in dirs :
             LET index == Rva(dir.address_of_index)
                 indexed == dir.address_of_index # 0
             IN \/ /\ ~TemplateInImage(dir) \/ ~IndexInImage(dir)
                   /\ phase' = "failed" /\ UNCHANGED <<mem, tls, teb, todo>>
                \/ /\ TemplateInImage(dir) /\ IndexInImage(dir)
                   /\ indexed /\ "w" \notin prot[PageOf(index)]
                   /\ phase' = "crashed" /\ UNCHANGED <<mem, tls, teb, todo>>
                \/ /\ TemplateInImage(dir) /\ IndexInImage(dir)
                   /\ indexed => "w" \in prot[PageOf(index)]
                   /\ tls' = TlsData(dir)
                   /\ mem' = IF indexed THEN [mem EXCEPT ![index] = 0] ELSE mem
                   /\ teb' = [teb EXCEPT !.TlsPointer = "tls"]
                   /\ todo' = collect_callbacks(dir)
                   /\ phase' = "ready"
  /\ UNCHANGED <<img, soft, base, prot, arena, table, soft_stub, bound, pdata, stack,
                 gs, ran, unrestored>>

-----------------------------------------------------------------------------
(* PeImage::run. *)

set_thread_gs_base ==
  /\ phase = "ready"
  /\ \/ gs' = "teb" /\ phase' = "callbacks"
     \/ gs' = gs /\ phase' = "failed"
  /\ UNCHANGED <<img, soft, todo, base, mem, prot, arena, table, soft_stub, bound,
                 pdata, stack, teb, tls, ran, unrestored>>

\* Guest code at an address that is not executable faults.
Execute(rva, what) ==
  IF "x" \in prot[PageOf(rva)]
  THEN ran' = Append(ran, what) /\ phase' = phase
  ELSE ran' = ran /\ phase' = "crashed"

run_callback ==
  /\ phase = "callbacks" /\ todo # <<>>
  /\ Execute(Head(todo), [what |-> "callback", rva |-> Head(todo)])
  /\ todo' = Tail(todo)
  /\ UNCHANGED <<img, soft, base, mem, prot, arena, table, soft_stub, bound, pdata,
                 stack, teb, tls, gs, unrestored>>
\* The entry point returns the exit code; PeImage is dropped when the process exits.
run_entrypoint ==
  /\ phase = "callbacks" /\ todo = <<>>
  /\ IF img.entry < size /\ "x" \in prot[PageOf(img.entry)]
     THEN ran' = Append(ran, [what |-> "entry", rva |-> img.entry]) /\ phase' = "exited"
     ELSE ran' = ran /\ phase' = "crashed"
  /\ UNCHANGED <<img, soft, todo, base, mem, prot, arena, table, soft_stub, bound,
                 pdata, stack, teb, tls, gs, unrestored>>

-----------------------------------------------------------------------------
(* What a linker makes (the PE format): the loader relies on it. *)

MappedSize(image) == round_up(image.size, PageCells)
Cells(s) == s.va..(s.va + s.vsz - 1)
SectionHeader ==
  [va : Nat, vsz : Nat, raw : Nat, rsz : Nat, flags : SUBSET {"r", "w", "x"}, debug : BOOLEAN]
RelocEntry == [page : Nat, offset : Nat, typ : Int]

\* Sections lie in the image, each on pages of its own.
SectionsApart(image) ==
  /\ image.sections \in Seq(SectionHeader)
  /\ \A i \in DOMAIN image.sections :
       image.sections[i].vsz > 0 =>
         image.sections[i].va + image.sections[i].vsz <= MappedSize(image)
  /\ \A i, j \in DOMAIN image.sections :
       \A c \in Cells(image.sections[i]), d \in Cells(image.sections[j]) :
         PageOf(c) = PageOf(d) => i = j

\* A relocation patches a cell of a section that can be read.
RelocatesSections(image) ==
  /\ Relocations(image) \in Seq(RelocEntry)
  /\ \A k \in DOMAIN Relocations(image) :
       LET entry == Relocations(image)[k]
       IN entry.typ \notin {0, Overflow} /\ Target(entry) < MappedSize(image) =>
            \E i \in DOMAIN image.sections :
              /\ Target(entry) \in Cells(image.sections[i])
              /\ "r" \in section_prot(image.sections[i])

\* Every address in the file is meant for the preferred base, fits a cell
\* wherever the image goes, and is relocated by one entry; the TLS directory
\* has the address of its index, which is none of these.
AddressesRelocated(image) ==
  /\ image.pointers \in [DOMAIN image.pointers -> Nat]
  /\ \A p \in DOMAIN image.pointers :
       /\ p \in 0..(MappedSize(image) - 1)
       /\ Contents(image, MappedSize(image))[p] = image.preferred + image.pointers[p]
       /\ \A b \in Bases \cup {image.preferred} : b + image.pointers[p] < 2 ^ Width
       /\ image.reloc.rva # 0 /\ image.reloc.size # 0
       /\ \E k \in DOMAIN Relocations(image) :
            /\ Relocations(image)[k].typ = 10
            /\ \A j \in DOMAIN Relocations(image) :
                 Relocations(image)[j].typ # 0 /\ Target(Relocations(image)[j]) = p <=> j = k
  /\ image.pointers # <<>> /\ image.tls # 0 /\ image.tls + TlsDirSize <= MappedSize(image) =>
       /\ image.tls + 2 \in DOMAIN image.pointers
       /\ image.pointers[image.tls + 2] \notin DOMAIN image.pointers

ASSUME ImagesAssumption ==
  /\ PageCells \in Nat \ {0} /\ 2 ^ Width \in Nat \ {0} /\ Bases \subseteq Nat
  /\ \A image \in Images :
       /\ image.size \in Nat /\ image.preferred \in Nat /\ image.tls \in Nat
       /\ image.size # 0 => /\ SectionsApart(image) /\ RelocatesSections(image)
                            /\ AddressesRelocated(image)

-----------------------------------------------------------------------------
ImageInit ==
  /\ img \in Images /\ soft \in BOOLEAN
  /\ phase = "start" /\ todo = <<>>
  /\ base = 0 /\ mem = <<>> /\ prot = <<>>
  /\ arena = None /\ table = <<>> /\ soft_stub = None /\ bound = <<>>
  /\ pdata = 0 /\ stack = None /\ teb = None /\ tls = <<>>
  /\ gs = None /\ ran = <<>> /\ unrestored = {}

ImageNext ==
  \/ map_image \/ protect_section \/ begin_relocations \/ apply_relocation
  \/ build_table \/ write_iat \/ seal_thunks
  \/ Stack_new \/ setup_tls
  \/ set_thread_gs_base \/ run_callback \/ run_entrypoint

ImageSpec == ImageInit /\ [][ImageNext]_imageVars

-----------------------------------------------------------------------------
(* Properties. *)

\* PointersRebased: once the relocations are applied, every address the linker
\* put in the image points to the same place of the image where it is mapped,
\* moved exactly once, at the preferred base and at any other; storing the TLS
\* index overwrites none of them.
PointersRebased ==
  phase \in {"bind", "stack", "tls", "ready", "callbacks", "exited"} =>
    \A p \in DOMAIN img.pointers : mem[p] = base + img.pointers[p]

\* The pages left writable.
Opened(page) ==
  page \in unrestored \/ \E slot \in DOMAIN bound : PageOf(slot) = page

\* ProtectionsDeclared: no page is ever writable and executable, and once the
\* image runs every page has the protection of its section, although mapping,
\* relocating and binding each change protections; a page with import slots is
\* left writable.
ProtectionsDeclared ==
  /\ \A p \in DOMAIN prot : ~({"w", "x"} \subseteq prot[p])
  /\ phase \in {"ready", "callbacks", "exited"} =>
       \A i \in DOMAIN Sections : \A c \in Sections[i].va..(Sections[i].va + Sections[i].vsz - 1) :
         prot[PageOf(c)] = IF Opened(PageOf(c)) THEN RW ELSE section_prot(Sections[i])

\* GuestStartsReady: when guest code runs, gs names the TEB, the thread has its
\* copy of the TLS template, every import slot holds a variable, a bundled
\* DLL's export, a trap, or a trampoline that is mapped, executable and hands
\* its callee the arguments of that very import; and the callbacks run in the
\* order of their array, all of them before the entry point.
GuestStartsReady ==
  ran # <<>> =>
    /\ gs = "teb" /\ stack = "guarded" /\ teb.ImageBase = base
    /\ img.template # 0 => teb.TlsPointer = "tls" /\ Len(tls) = img.template
    /\ \A i \in DOMAIN img.imports :
         LET imp == img.imports[i]
         IN /\ imp.slot < size => imp.slot \in DOMAIN bound
            /\ imp.slot < size /\ bound[imp.slot].kind \in {"thunk", "soft"} =>
                 Callable(arena, bound[imp.slot].thunk)
            /\ imp.slot < size /\ bound[imp.slot].kind = "thunk" =>
                 LET spec == bound[imp.slot].spec
                 IN /\ spec.sym = imp.sym
                    /\ Translates(bound[imp.slot].thunk.code, spec.n_args, spec.noreturn)
    /\ LET done == [i \in DOMAIN ran |-> ran[i].rva]
       IN IsPrefix(done, Append(img.callbacks, img.entry))
=============================================================================
