-------------------------------- MODULE Unwind --------------------------------
(***************************************************************************)
(* Finding the entry of a function in the exception table and walking its  *)
(* unwind codes (pe-loader/src/seh.rs).                                    *)
(***************************************************************************)
EXTENDS Integers, Sequences

-----------------------------------------------------------------------------
(* RtlLookupFunctionEntry. *)

\* The binary search: the number of entries that begin at or below rva, as the
\* loop narrows lo and hi.
RECURSIVE Search(_, _, _, _)
Search(entries, rva, lo, hi) ==
  IF lo >= hi THEN lo
  ELSE LET mid == lo + (hi - lo) \div 2
       IN IF entries[mid + 1].begin <= rva THEN Search(entries, rva, mid + 1, hi)
          ELSE Search(entries, rva, lo, mid)

\* The entry's index from 1; 0 is NULL.
lookup_function_entry_Closed(entries, image_base, image_size, pc) ==
  IF \/ entries = <<>> \/ pc < image_base \/ pc >= image_base + image_size
  THEN 0
  ELSE LET rva == pc - image_base
           lo == Search(entries, rva, 0, Len(entries))
       IN IF lo = 0 THEN 0 ELSE IF rva <= entries[lo].end THEN lo ELSE 0
lookup_function_entry(entries, image_base, image_size, pc) ==
  IF \/ entries = <<>> \/ pc < image_base \/ pc >= image_base + image_size
  THEN 0
  ELSE LET rva == pc - image_base
           lo == Search(entries, rva, 0, Len(entries))
       IN IF lo = 0 THEN 0 ELSE IF rva < entries[lo].end THEN lo ELSE 0

-----------------------------------------------------------------------------
(* RtlVirtualUnwind.  A context holds the registers by their numbers and rip; *)
(* rsp is register 4.  Unwind codes are words of 16 bits as they lie in the   *)
(* image, numbers of any meaning.                                            *)

rsp == 4
\* nonvolatile_offset: the registers a code can restore.
nonvolatile == {3} \cup 5..15

\* The word of 8 bytes at an address of the guest's stack: every place holds
\* another.
Stored(at) == 1000000 + at
Restore(ctx, r, v) == IF r \in nonvolatile THEN [ctx EXCEPT !.reg[r] = v] ELSE ctx

\* A word's low byte: UWOP_* in the low half, a register or a size in the other.
Opcode(code) ==
  LET names == << "PUSH_NONVOL", "ALLOC_LARGE", "ALLOC_SMALL", "SET_FPREG", "SAVE_NONVOL",
                  "SAVE_NONVOL_FAR", "EPILOG", "SAVE_XMM128", "SAVE_XMM128_FAR" >>
  IN IF code % 16 < Len(names) THEN names[(code % 16) + 1] ELSE "unknown"
OpInfo(code) == (code \div 16) % 16

\* How many words a code takes as its operand.
Operands(code) ==
  CASE Opcode(code) = "ALLOC_LARGE" -> IF OpInfo(code) = 0 THEN 1 ELSE 2
    [] Opcode(code) \in {"SAVE_NONVOL", "SAVE_XMM128"} -> 1
    [] Opcode(code) \in {"SAVE_NONVOL_FAR", "SAVE_XMM128_FAR"} -> 2
    [] OTHER -> 0

\* One code undone: a register popped or loaded, an allocation freed; the others
\* leave the context alone.
Undo(ctx, code, operand) ==
  LET at == ctx.reg[rsp]
      r == OpInfo(code)
  IN CASE Opcode(code) = "PUSH_NONVOL" -> [Restore(ctx, r, Stored(at)) EXCEPT !.reg[rsp] = @ + 8]
       [] Opcode(code) = "ALLOC_SMALL" -> [ctx EXCEPT !.reg[rsp] = @ + 8 * r + 8]
       [] Opcode(code) = "ALLOC_LARGE" ->
            [ctx EXCEPT !.reg[rsp] = @ + (IF r = 0 THEN 8 * operand ELSE operand)]
       [] Opcode(code) \in {"SAVE_NONVOL", "SAVE_NONVOL_FAR"} ->
            Restore(ctx, r, Stored(at + 8 * operand))
       [] OTHER -> ctx

\* From the last word to the first, each code's operand in the words before it;
\* a code without room for its operand ends the walk.
RECURSIVE Walk(_, _, _)
Walk(ctx, codes, idx) ==
  IF idx = 0 THEN ctx
  ELSE LET n == Operands(codes[idx])
           operand == CASE n = 0 -> 0 [] n = 1 -> codes[idx - 1]
                        [] n = 2 -> 65536 * codes[idx - 2] + codes[idx - 1]
       IN IF idx - 1 < n THEN ctx
          ELSE Walk(Undo(ctx, codes[idx], operand), codes, idx - 1 - n)

\* rsp is first taken from the frame register, then the codes are undone, then
\* the return address is popped.  The establisher frame is the rsp after that;
\* the handler is read behind the codes, handler is where.
virtual_unwind(info, ctx) ==
  IF info.unwind_data = 0 \/ info.version \notin {1, 2}
  THEN [ctx |-> ctx, frame |-> 0, handler |-> 0]
  ELSE LET entry == IF info.frame_reg = 0 THEN ctx
                    ELSE [ctx EXCEPT !.reg[rsp] =
                            ctx.reg[info.frame_reg] - 16 * info.frame_offset]
           undone == Walk(entry, info.codes, Len(info.codes))
           caller == [undone EXCEPT !.rip = Stored(undone.reg[rsp]), !.reg[rsp] = @ + 8]
       IN [ctx |-> caller, frame |-> caller.reg[rsp],
           handler |-> IF info.flags \cap {"EHANDLER", "UHANDLER"} = {} THEN 0
                       ELSE info.unwind_data + 4 + 2 * Len(info.codes)]

-----------------------------------------------------------------------------
(* Reference. *)

\* A thread stopped in a function's body.
InBody == [reg |-> [r \in 0..15 |-> IF r = rsp THEN 4096 ELSE IF r = 5 THEN 8192 ELSE r], rip |-> 1]

\* Whatever the codes say, unwinding goes up the stack by a word at least and
\* returns to the word below, every register it restores comes from the stack
\* above the frame, and none but those a callee keeps is restored.
Climbs(info) ==
  LET caller == virtual_unwind(info, InBody)
      base == IF info.frame_reg = 0 THEN InBody.reg[rsp]
              ELSE InBody.reg[info.frame_reg] - 16 * info.frame_offset
      ctx == caller.ctx
  IN IF info.unwind_data = 0 \/ info.version \notin {1, 2} THEN ctx = InBody
     ELSE /\ ctx.reg[rsp] > base /\ ctx.rip = Stored(ctx.reg[rsp] - 8)
          /\ caller.frame = ctx.reg[rsp]
          /\ \A r \in (0..15) \ {rsp} :
               ctx.reg[r] # InBody.reg[r] => r \notin {0, 1, 2} /\ ctx.reg[r] >= Stored(base)
          \* a function whose prolog does nothing
          /\ info.codes = <<>> => ctx.reg[rsp] = base + 8 /\ \A r \in nonvolatile : ctx.reg[r] = InBody.reg[r]

\* An entry is found exactly for an address inside a function of the image.
FindsFunction(entries, image_base, image_size, pc) ==
  LET found == lookup_function_entry(entries, image_base, image_size, pc)
      In(i) == /\ pc \in image_base..(image_base + image_size - 1)
               /\ entries[i].begin <= pc - image_base
               /\ pc - image_base < entries[i].end
  IN IF found # 0 THEN In(found) ELSE \A i \in DOMAIN entries : ~In(i)
=============================================================================
