----------------------------- MODULE ThunkArena -----------------------------
(***************************************************************************)
(* Win64 to System V trampolines: the code they are made of, what running  *)
(* it does to the argument registers, and the arena that holds them        *)
(* (pe-loader/src/thunk.rs).                                               *)
(*                                                                         *)
(* An arena is a value: its blocks in the order they were mapped, the last *)
(* one live and the others retired, each with its protection.  Code is a   *)
(* sequence of instructions with their length in bytes; registers and the  *)
(* stack, counted in words of 8 bytes, hold argument numbers.              *)
(***************************************************************************)
EXTENDS Integers, Sequences, SequencesExt

CONSTANT PageBytes   \* the size of a page

round_up(n, unit) == ((n + unit - 1) \div unit) * unit

Larger(a, b) == IF a < b THEN b ELSE a

-----------------------------------------------------------------------------
(* The code of a trampoline. *)

\* The registers of arguments 1 to 4 move, each source before it is overwritten.
Shuffle ==
  << <<"mov", "rdi", "rcx", 3>>, <<"mov", "rsi", "rdx", 3>>,
     <<"mov", "rdx", "r8", 3>>, <<"mov", "rcx", "r9", 3>> >>
\* Arguments 5 and 6 come from the Windows stack, `at` words above rsp.
LoadFiveAndSix(n_args, at) ==
  (IF n_args >= 5 THEN << <<"load", "r8", at, 8>> >> ELSE <<>>) \o
  (IF n_args >= 6 THEN << <<"load", "r9", at + 1, 8>> >> ELSE <<>>)

\* System V stack arguments, and the words reserved so that the call is aligned.
StackArgs(n_args) == Larger(0, n_args - 6)
frame(n_args) ==
  StackArgs(n_args) + (IF StackArgs(n_args) % 2 = 0 THEN 1 ELSE 0)

emit_returning(n_args) ==
  LET words == frame(n_args)
      Copy(i) == << <<"load", "rax", 9 + words + i, 8>>,
                    <<"store", "rax", i, 8>> >>
  IN << <<"push", "rdi", 1>>, <<"push", "rsi", 1>>, <<"sub", words, 7>> >>
     \o Shuffle
     \o LoadFiveAndSix(n_args, 7 + words)
     \o FlattenSeq([i \in 1..StackArgs(n_args) |-> Copy(i - 1)])
     \o << <<"call", 12>>, <<"add", words, 7>>,
           <<"pop", "rsi", 1>>, <<"pop", "rdi", 1>>, <<"ret", 1>> >>

emit_noreturn(n_args) ==
  Shuffle \o LoadFiveAndSix(n_args, 5) \o << <<"jmp", 12>> >>

Bytes(code) ==
  FoldSeq(LAMBDA instruction, sum : instruction[Len(instruction)] + sum, 0, code)

-----------------------------------------------------------------------------
(* The arena. *)

RW == {"r", "w"}
RX == {"r", "x"}

with_capacity(capacity) ==
  [blocks |-> << [len |-> round_up(Larger(capacity, PageBytes), PageBytes),
                  prot |-> RW, mapped |-> TRUE] >>,
   cursor |-> 0, sealed |-> FALSE]

Live(arena) == Len(arena.blocks)

\* The old block is retired, not unmapped, and the cursor starts over.
grow_Unmaps(arena, need) ==
  [blocks |-> Append(
     [b \in 1..Live(arena) |-> [arena.blocks[b] EXCEPT !.mapped = FALSE]],
     [len |-> round_up(Larger(need, 2 * arena.blocks[Live(arena)].len), PageBytes),
      prot |-> RW, mapped |-> TRUE]),
   cursor |-> 0, sealed |-> FALSE]
grow(arena, need) ==
  [blocks |-> Append(arena.blocks,
     [len |-> round_up(Larger(need, 2 * arena.blocks[Live(arena)].len), PageBytes),
      prot |-> RW, mapped |-> TRUE]),
   cursor |-> 0, sealed |-> FALSE]

\* The arena after n bytes are reserved, and where they are.
alloc(arena, n) ==
  LET aligned == round_up(arena.cursor, 16)
      roomy == IF aligned + n > arena.blocks[Live(arena)].len
               THEN grow(arena, aligned + n) ELSE arena
      off == round_up(roomy.cursor, 16)
  IN [arena |-> [roomy EXCEPT !.cursor = off + n],
      block |-> Live(roomy), off |-> off]

Place(arena, code) ==
  LET at == alloc(arena, Bytes(code))
  IN [arena |-> at.arena,
      thunk |-> [block |-> at.block, off |-> at.off, code |-> code]]

make_thunk(arena, n_args) == Place(arena, emit_returning(n_args))
make_thunk_noreturn(arena, n_args) == Place(arena, emit_noreturn(n_args))

\* mprotect seals the blocks in order; it may fail after `done` of them.
finalize(arena, done) ==
  IF arena.sealed THEN arena
  ELSE [arena EXCEPT
          !.blocks = [b \in DOMAIN @ |->
                        IF b <= done THEN [@[b] EXCEPT !.prot = RX] ELSE @[b]],
          !.sealed = done = Live(arena)]

\* A call through the pointer reaches the code.
Callable(arena, thunk) ==
  /\ arena.blocks[thunk.block].mapped
  /\ arena.blocks[thunk.block].prot = RX
  /\ thunk.off + Bytes(thunk.code) <= arena.blocks[thunk.block].len

-----------------------------------------------------------------------------
(* Running a trampoline. *)

EntryRsp == 101   \* in words: odd, since the caller's call pushed an address

\* Windows leaves arguments 1 to 4 in registers and the rest above the shadow
\* space; other words hold something that is no argument.
AtEntry(n_args) ==
  [reg |-> [r \in {"rax", "rcx", "rdx", "r8", "r9", "rdi", "rsi"} |->
              CASE r = "rcx" -> 1 [] r = "rdx" -> 2 [] r = "r8" -> 3
                [] r = "r9" -> 4 [] OTHER -> r],
   stack |-> [w \in 40..(EntryRsp + 4 + n_args) |->
                IF w > EntryRsp + 4 THEN w - EntryRsp ELSE "other"],
   rsp |-> EntryRsp, seen |-> <<>>, aligned |-> FALSE, returned |-> FALSE]

\* What the System V callee finds, and the registers it may overwrite.
Enter(m) ==
  [m EXCEPT
     !.seen = << m.reg["rdi"], m.reg["rsi"], m.reg["rdx"], m.reg["rcx"],
                 m.reg["r8"], m.reg["r9"] >> \o
              [i \in 1..34 |-> IF m.rsp + i - 1 \in DOMAIN m.stack
                               THEN m.stack[m.rsp + i - 1] ELSE "other"],
     !.reg = [r \in DOMAIN m.reg |-> IF r = "rax" THEN "result" ELSE "other"]]

Step(m, i) ==
  CASE i[1] = "mov"   -> [m EXCEPT !.reg[i[2]] = m.reg[i[3]]]
    [] i[1] = "load"  -> [m EXCEPT !.reg[i[2]] = m.stack[m.rsp + i[3]]]
    [] i[1] = "store" -> [m EXCEPT !.stack[m.rsp + i[3]] = m.reg[i[2]]]
    [] i[1] = "push"  -> [m EXCEPT !.rsp = @ - 1,
                                   !.stack[m.rsp - 1] = m.reg[i[2]]]
    [] i[1] = "pop"   -> [m EXCEPT !.rsp = @ + 1,
                                   !.reg[i[2]] = m.stack[m.rsp]]
    [] i[1] = "sub"   -> [m EXCEPT !.rsp = @ - i[2]]
    [] i[1] = "add"   -> [m EXCEPT !.rsp = @ + i[2]]
    [] i[1] = "call"  -> [Enter(m) EXCEPT !.aligned = m.rsp % 2 = 0]
    [] i[1] = "jmp"   -> [Enter([m EXCEPT !.rsp = @ + 1])
                            EXCEPT !.aligned = m.rsp % 2 = 1]
    [] i[1] = "ret"   -> [m EXCEPT !.returned = m.rsp = EntryRsp]

Run(code, n_args) == FoldLeft(Step, AtEntry(n_args), code)

\* The callee sees every argument in its place on an aligned stack, and a
\* trampoline that returns gives the caller its result, rdi, rsi and rsp back.
Translates(code, n_args, noreturn) ==
  LET m == Run(code, n_args)
  IN /\ \A a \in 1..n_args : m.seen[a] = a
     /\ m.aligned
     /\ noreturn \/ /\ m.returned
                    /\ m.reg["rax"] = "result"
                    /\ m.reg["rdi"] = "rdi"
                    /\ m.reg["rsi"] = "rsi"
=============================================================================
