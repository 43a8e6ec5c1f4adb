---------------------------- MODULE HlslCodegen -----------------------------
(***************************************************************************)
(* Code generation of the HLSL compiler (crates/hlsl-compiler, codegen.rs): *)
(* the tree of a shader to SPIR-V.  A context holds the ids, constants,     *)
(* variables and blocks emitted so far; every emit operator returns the     *)
(* context after it, with the value of an expression in val.  A type id is  *)
(* the type itself (the builder gives one id per type), an error stays.     *)
(***************************************************************************)
EXTENDS HlslParser, FiniteSets, TLC

Type(k, r, c) == [k |-> k, r |-> r, c |-> c]
Scalar(k) == Type(k, 1, 1)
Vector(k, n) == Type(k, n, 1)
Struct(name) == Type(name, 0, 0)
Opaque == {"Texture2D", "SamplerState"}
TypeOf(word) ==
  CASE word \in ScalarTypes -> Scalar(word)
    [] word = "float2" -> Vector("float", 2) [] word = "float3" -> Vector("float", 3)
    [] word = "float4" -> Vector("float", 4) [] word = "float4x4" -> Type("float", 4, 4)
    [] word = "int2" -> Vector("int", 2) [] word = "uint2" -> Vector("uint", 2)
    [] word = "bool2" -> Vector("bool", 2) [] word = "void" -> Type("void", 0, 0)
    [] OTHER -> Struct(word)

IsScalar(ty) == ty.k \in ScalarTypes /\ ty.r = 1 /\ ty.c = 1
IsVector(ty) == ty.k \in ScalarTypes /\ ty.r > 1 /\ ty.c = 1
IsMatrix(ty) == ty.c > 1
is_composite(ty) == IsVector(ty) \/ IsMatrix(ty)
IsStruct(g, ty) == ty.k \in DOMAIN g.structs

ComponentOf == [x |-> 0, y |-> 1, z |-> 2, w |-> 3]
\* decode_swizzle, for the member names the shaders use.
decode_swizzle(s) ==
  CASE s \in DOMAIN ComponentOf -> <<ComponentOf[s]>>
    [] s = "xy" -> <<0, 1>> [] s = "yx" -> <<1, 0>> [] s = "wzyx" -> <<3, 2, 1, 0>>
    [] OTHER -> <<>>

-----------------------------------------------------------------------------
(* The context and the SPIR-V builder. *)

None_ == [id |-> 0, ty |-> Type("void", 0, 0)]

Ctx(stage) ==
  [stage |-> stage, next |-> 1, constants |-> <<>>, variables |-> <<>>, blocks |-> <<>>,
   open |-> FALSE, locals |-> <<>>, structs |-> <<>>, globals |-> <<>>, members |-> <<>>,
   decorations |-> <<>>, out |-> None_, interface |-> <<>>, err |-> FALSE, val |-> None_]

\* An instruction of this name (arithmetic and extended ones have a prefix).
I(op) == <<"", op>>

cg_err(g) == [g EXCEPT !.err = TRUE, !.val = None_]
id(g) == g.next
Fresh(g, n) == [g EXCEPT !.next = @ + n]

Define(f, key, value) == (key :> value) @@ f

\* rspirv: an instruction outside a block, and a block inside a block, fail.
push_block_inst(g, inst) ==
  IF ~g.open THEN cg_err(g)
  ELSE [g EXCEPT !.blocks[Len(g.blocks)].insts = Append(@, inst)]
Inst(op, result, ty, args) == [op |-> op, id |-> result, ty |-> ty, args |-> args]
\* An instruction with a result.
Emit(g, op, ty, args) ==
  [push_block_inst(Fresh(g, 1), Inst(op, id(g), ty, args)) EXCEPT !.val = [id |-> id(g), ty |-> ty]]
\* An instruction that ends its block.
Terminate(g, op, args) ==
  [push_block_inst(g, Inst(I(op), 0, None_.ty, args)) EXCEPT !.open = FALSE]
begin_block(g, label) ==
  IF g.open THEN cg_err(g)
  ELSE [g EXCEPT !.blocks = Append(@, [label |-> label, insts |-> <<>>]), !.open = TRUE]
is_terminated(g) == ~g.open
store(g, ptr, value) == push_block_inst(g, Inst(I("Store"), 0, None_.ty, <<ptr, value>>))
\* A branch to a label unless the block has ended.
FallTo(g, label) == IF is_terminated(g) THEN g ELSE Terminate(g, "Branch", <<label>>)

\* A constant: its type and its components.
const_op(g, k, v) ==
  [Fresh(g, 1) EXCEPT !.constants = Define(@, id(g), [k |-> k, c |-> <<v>>]),
                      !.val = [id |-> id(g), ty |-> Scalar(k)]]

\* A variable of a storage class; a local one is hoisted to the entry block.
Variable(g, class, ty) ==
  [Fresh(g, 1) EXCEPT !.variables = Define(@, id(g), [class |-> class, ty |-> ty]),
                      !.val = [id |-> id(g), ty |-> ty]]
alloc_local(g, ty) == IF ty.k \in Opaque THEN cg_err(g) ELSE Variable(g, "Function", ty)

-----------------------------------------------------------------------------
(* Declarations. *)

Typed(members) == [i \in DOMAIN members |-> [name |-> members[i].v, ty |-> TypeOf(members[i].ty),
                                            semantic |-> members[i].a[1]]]
register_struct(g, d) ==
  IF d.v \in DOMAIN g.structs THEN g
  ELSE [g EXCEPT !.structs = Define(@, d.v, Typed(d.a))]

\* Each member of a constant buffer is a name of its own.
emit_cbuffer(g, d) ==
  LET var == Variable([g EXCEPT !.structs = Define(@, d.v, Typed(d.a))], "Uniform", Struct(d.v))
      index == FoldLeft(LAMBDA h, i : const_op(h, "int", i - 1), var, [i \in DOMAIN d.a |-> i])
      MemberOf(name) == CHOOSE i \in DOMAIN d.a : d.a[i].v = name
      names == {d.a[i].v : i \in DOMAIN d.a}
  IN [index EXCEPT
        !.globals = [m \in names |-> [ptr |-> id(g), ty |-> TypeOf(d.a[MemberOf(m)].ty)]] @@
                    Define(@, d.v, [ptr |-> id(g), ty |-> Struct(d.v)]),
        !.members = [m \in names |-> [ptr |-> id(g), index |-> id(g) + MemberOf(m)]] @@ @]

emit_global_var(g, d) ==
  IF d.ty \notin Opaque THEN cg_err(g)
  ELSE [Variable(g, "UniformConstant", Struct(d.ty)) EXCEPT
          !.globals = Define(@, d.v, [ptr |-> id(g), ty |-> Struct(d.ty)])]

emit_globals(g, decls) ==
  FoldLeft(LAMBDA h, d : CASE d.n = "Struct" -> register_struct(h, d)
                           [] d.n = "CBuffer" -> emit_cbuffer(h, d)
                           [] d.n = "GlobalVar" -> emit_global_var(h, d)
                           [] OTHER -> h, g, decls)

\* What feeds or takes an input or an output: a built-in, or a location.
PositionBuiltin(g, is_output) ==
  <<IF ~is_output /\ g.stage = "Pixel" THEN "FragCoord" ELSE "Position", 0>>
decorate_io_var(g, semantic, is_output) ==
  IF semantic = "SV_Position" THEN PositionBuiltin(g, is_output) ELSE <<"Location", 0>>
\* Mutant: a built-in member uses up a location.
decorate_struct_io_Counted(g, members, is_output) ==
  [i \in DOMAIN members |->
     IF members[i].semantic = "SV_Position" THEN PositionBuiltin(g, is_output)
     ELSE <<"Location", i - 1>>]
\* Members of a struct: locations in order.
decorate_struct_io(g, members, is_output) ==
  LET Located(i) == members[i].semantic \notin {"SV_Position", "SV_Target"}
  IN [i \in DOMAIN members |->
        CASE members[i].semantic = "SV_Position" -> PositionBuiltin(g, is_output)
          [] members[i].semantic = "SV_Target" -> <<"Location", 0>>
          [] OTHER -> <<"Location", Cardinality({j \in 1..(i - 1) : Located(j)})>>]

\* The variable of a parameter or of the result, decorated and in the interface.
InterfaceVariable(g, class, ty, semantic) ==
  LET is_output == class = "Output"
      decoration == IF IsStruct(g, ty) THEN decorate_struct_io(g, g.structs[ty.k], is_output)
                    ELSE <<decorate_io_var(g, semantic, is_output)>>
  IN [Variable(g, class, ty) EXCEPT !.decorations = Define(@, id(g), decoration),
                                    !.interface = Append(@, id(g))]

emit_inputs(g, params) ==
  LET One(h, p) ==
        LET ty == TypeOf(p.ty)
        IN IF IsStruct(h, ty) \/ IsScalar(ty) \/ IsVector(ty)
           THEN [InterfaceVariable(h, "Input", ty, p.a[1]) EXCEPT
                   !.globals = Define(@, p.v, [ptr |-> id(h), ty |-> ty])]
           ELSE cg_err(h)
  IN FoldLeft(One, g, params)

emit_output(g, main) ==
  LET ty == TypeOf(main.ty)
  IN IF IsStruct(g, ty) \/ ty = Vector("float", 4)
     THEN LET h == InterfaceVariable(g, "Output", ty, main.a[2]) IN [h EXCEPT !.out = h.val]
     ELSE cg_err(g)

-----------------------------------------------------------------------------
(* Expressions. *)

\* The texts of the literals the shaders use; a float counts halves.
Number(text) ==
  CASE text \in {"0", "0.0", "false"} -> 0 [] text \in {"1", "0.5", "true"} -> 1
    [] text \in {"2", "1.0"} -> 2 [] text = "3" -> 3 [] text = "2.0" -> 4
LiteralKind == [Int |-> "int", Uint |-> "uint", Float |-> "float", Bool |-> "bool"]

Comparisons == {"==", "!=", "<", "<=", ">", ">="}
CompareOp(op, is_float) ==
  LET name == ("==" :> "Equal") @@ ("!=" :> "NotEqual") @@ ("<" :> "LessThan") @@
              ("<=" :> "LessThanEqual") @@ (">" :> "GreaterThan") @@ (">=" :> "GreaterThanEqual")
  IN <<IF is_float THEN "FOrd" ELSE IF op \in {"==", "!="} THEN "I" ELSE "S", name[op]>>
\* emit_arith: the operation for an operator and a result type, if there is one.
ArithOp(op, ty) ==
  LET name == ("+" :> "Add") @@ ("-" :> "Sub") @@ ("*" :> "Mul") @@ ("/" :> "Div")
      kind == CASE ty.k = "float" -> "F"
                [] op # "/" /\ (ty.k \in {"int", "uint"} \/ IsVector(ty)) -> "I"
                [] op = "/" /\ ty.k = "int" -> "S" [] op = "/" /\ ty.k = "uint" -> "U"
                [] OTHER -> "none"
  IN IF op \in DOMAIN name /\ ~IsMatrix(ty) THEN <<kind, name[op]>> ELSE <<"none", "">>
ElementOp == ("+=" :> "+") @@ ("-=" :> "-") @@ ("*=" :> "*") @@ ("/=" :> "/")

\* GLSL.std.450 instructions of the intrinsics: how many arguments.
Intrinsics ==
  [abs |-> 1, sqrt |-> 1, rsqrt |-> 1, sin |-> 1, cos |-> 1, tan |-> 1, asin |-> 1, acos |-> 1,
   atan |-> 1, exp |-> 1, log |-> 1, normalize |-> 1, length |-> 1, floor |-> 1, ceil |-> 1,
   frac |-> 1, cross |-> 2, pow |-> 2, min |-> 2, max |-> 2, clamp |-> 3, lerp |-> 3]

emit_arith(g, op, lhs, rhs) ==
  LET ty == IF is_composite(lhs.ty) THEN lhs.ty ELSE rhs.ty
      inst == ArithOp(op, ty)
  IN IF inst[1] = "none" THEN cg_err(g) ELSE Emit(g, inst, ty, <<lhs.id, rhs.id>>)

emit_comparison(g, op, lhs, rhs) ==
  LET ty == IF IsVector(lhs.ty) THEN Vector("bool", lhs.ty.r) ELSE Scalar("bool")
      is_float == lhs.ty.k = "float" /\ ~IsMatrix(lhs.ty)
  IN Emit(g, CompareOp(op, is_float), ty, <<lhs.id, rhs.id>>)

emit_logical(g, op, lhs, rhs) ==
  Emit(g, <<"Logical", IF op = "&&" THEN "And" ELSE "Or">>, Scalar("bool"), <<lhs.id, rhs.id>>)

\* Conversions between scalar types; the others leave the value as it is.
coerce_scalar(g, val, kind) ==
  LET op == CASE val.ty.k = "int" -> "ConvertSToF" [] val.ty.k = "uint" -> "ConvertUToF"
              [] val.ty.k = "float" /\ kind = "int" -> "ConvertFToS"
              [] val.ty.k = "float" /\ kind = "uint" -> "ConvertFToU" [] OTHER -> "none"
  IN IF val.ty = Scalar(kind) \/ op = "none" THEN [g EXCEPT !.val = val]
     ELSE Emit(g, I(op), Scalar(kind), <<val.id>>)
coerce(g, val, target) ==
  IF val.ty # target /\ IsScalar(val.ty) /\ IsScalar(target) THEN coerce_scalar(g, val, target.k)
  ELSE [g EXCEPT !.val = val]
coerce_to_bool(g, val) ==
  CASE val.ty = Scalar("bool") -> [g EXCEPT !.val = val]
    [] val.ty.k = "bool" /\ IsVector(val.ty) -> Emit(g, I("Any"), Scalar("bool"), <<val.id>>)
    [] OTHER -> cg_err(g)

Named(seq, name) == SelectSeq(seq, LAMBDA l : l.name = name)
MemberIndex(members, name) ==
  LET at == {i \in DOMAIN members : members[i].name = name} IN IF at = {} THEN 0 ELSE Min(at)

\* An addressable place, its pointer and type in val: the latest local of the
\* name, a member of a constant buffer, any other global.
RECURSIVE emit_place(_, _)
emit_place(g, e) ==
  LET local == Named(g.locals, e.v)
      base == emit_place(g, e.a[1])
      members == base.structs[base.val.ty.k]
      index == MemberIndex(members, e.v)
      counted == const_op(base, "int", index - 1)
  IN CASE e.n = "Ident" /\ local # <<>> -> [g EXCEPT !.val = [id |-> Last(local).ptr, ty |-> Last(local).ty]]
       [] e.n = "Ident" /\ local = <<>> /\ e.v \in DOMAIN g.members ->
            Emit(g, I("AccessChain"), g.globals[e.v].ty, <<g.members[e.v].ptr, g.members[e.v].index>>)
       [] e.n = "Ident" /\ local = <<>> /\ e.v \in DOMAIN g.globals \ DOMAIN g.members ->
            [g EXCEPT !.val = [id |-> g.globals[e.v].ptr, ty |-> g.globals[e.v].ty]]
       [] e.n = "Member" ->
            IF IsStruct(base, base.val.ty) /\ index > 0
            THEN Emit(counted, I("AccessChain"), members[index].ty, <<base.val.id, counted.val.id>>)
            ELSE cg_err(base)
       [] OTHER -> cg_err(g)
Load(g) == Emit(g, I("Load"), g.val.ty, <<g.val.id>>)

emit_swizzle(g, base, member) ==
  LET comps == decode_swizzle(member)
  IN CASE comps = <<>> -> cg_err(g)
       [] Len(comps) = 1 -> Emit(g, I("CompositeExtract"), Scalar(base.ty.k), <<base.id>> \o comps)
       [] OTHER -> Emit(g, I("VectorShuffle"), Vector(base.ty.k, Len(comps)), <<base.id>> \o comps)

\* A scalar constant in the shape of a type.
broadcast_const(g, const, ty) ==
  IF IsScalar(ty) THEN [g EXCEPT !.val = const]
  ELSE Emit(g, I("CompositeConstruct"), Vector("float", ty.r), [i \in 1..ty.r |-> const.id])
\* saturate: FClamp between 0 and 1.
glsl_unarylike_or_clamp(g, x, lo, hi) ==
  LET low == broadcast_const(g, lo, x.ty)
      high == broadcast_const(low, hi, x.ty)
  IN Emit(high, <<"Ext", "clamp">>, x.ty, <<x.id, low.val.id, high.val.id>>)

\* The type of a product: a matrix and a vector, a vector and a matrix, two
\* matrices, or component by component.
MulType(a, b) ==
  CASE IsMatrix(a) /\ IsVector(b) -> Vector("float", a.r)
    [] IsVector(a) /\ IsMatrix(b) -> Vector("float", b.c)
    [] IsMatrix(a) /\ IsMatrix(b) -> Type("float", a.r, b.c)
    [] OTHER -> a

\* infer_type, on the expressions whose members are asked for: the type alone.
RECURSIVE infer_type(_, _)
infer_type(g, e) ==
  LET local == Named(g.locals, e.v)
      inner == infer_type(g, e.a[1])
      index == MemberIndex(g.structs[inner.k], e.v)
      comps == decode_swizzle(e.v)
  IN CASE e.n = "Literal" -> Scalar(LiteralKind[e.ty])
       [] e.n = "Construct" -> TypeOf(e.v)
       [] e.n = "Cast" -> TypeOf(e.ty)
       [] e.n = "Ident" /\ local # <<>> -> Last(local).ty
       [] e.n = "Ident" /\ local = <<>> /\ e.v \in DOMAIN g.globals -> g.globals[e.v].ty
       [] e.n = "Member" /\ IsStruct(g, inner) /\ index > 0 -> g.structs[inner.k][index].ty
       [] e.n = "Member" /\ IsVector(inner) /\ comps # <<>> -> Type(inner.k, Len(comps), 1)
       [] e.n = "MethodCall" /\ e.v = "Sample" -> Vector("float", 4)
       [] e.n = "Unary" -> inner
       [] e.n = "Call" /\ e.v = "length" -> Scalar("float")
       [] e.n = "Call" /\ e.v = "dot" -> Scalar(inner.k)
       [] e.n = "Call" /\ e.v \in {"saturate"} \cup (DOMAIN Intrinsics \ {"length", "asin", "acos", "atan"}) -> inner
       [] e.n = "Call" /\ e.v = "mul" -> MulType(inner, infer_type(g, e.a[2]))
       [] e.n = "Binary" /\ e.v \in Comparisons ->
            IF IsVector(inner) THEN Vector("bool", inner.r) ELSE Scalar("bool")
       [] e.n = "Binary" /\ e.v \in {"&&", "||"} -> Scalar("bool")
       [] e.n = "Binary" /\ e.v \notin Comparisons \cup {"&&", "||"} ->
            IF is_composite(inner) THEN inner ELSE infer_type(g, e.a[2])
       [] OTHER -> None_.ty

RECURSIVE emit_expr(_, _), emit_args(_, _, _)

\* The arguments in order: the context after them and their values.
emit_args(g, args, vals) ==
  IF args = <<>> THEN [g |-> g, vals |-> vals]
  ELSE LET h == emit_expr(g, Head(args)) IN emit_args(h, Tail(args), Append(vals, h.val))
Ids(vals) == [i \in DOMAIN vals |-> vals[i].id]

emit_member(g, base, member) ==
  LET ty == infer_type(g, base)
      vec == emit_expr(g, base)
  IN CASE IsStruct(g, ty) -> Load(emit_place(g, Node("Member", member, "", <<base>>)))
       [] IsVector(ty) -> emit_swizzle(vec, vec.val, member)
       [] OTHER -> cg_err(g)

emit_construct(g, ty, args) ==
  LET all == emit_args(g, args, <<>>)
      Construct(ids) == Emit(all.g, I("CompositeConstruct"), ty, ids)
  IN CASE ty = Scalar("float") /\ Len(args) = 1 -> all.g
       [] IsScalar(ty) /\ ty.k # "float" /\ Len(args) = 1 -> coerce_scalar(all.g, all.vals[1], ty.k)
       [] IsVector(ty) /\ Len(args) = 1 ->
            IF IsScalar(all.vals[1].ty) THEN Construct([i \in 1..ty.r |-> all.vals[1].id])
            ELSE cg_err(all.g)
       [] IsVector(ty) /\ Len(args) # 1 -> Construct(Ids(all.vals))
       [] OTHER -> cg_err(g)

emit_binary(g, op, lhs, rhs) ==
  LET place == emit_place(g, lhs)
      value == emit_expr(place, rhs)
      converted == coerce(value, value.val, place.val.ty)
      current == Load(place)
      operand == emit_expr(current, rhs)
      updated == emit_arith(operand, ElementOp[op], [id |-> current.val.id, ty |-> place.val.ty], operand.val)
      left == emit_expr(g, lhs)
      right == emit_expr(left, rhs)
  IN CASE op = "=" -> store(converted, place.val.id, converted.val.id)
       [] op \in AssignOps \ {"="} -> store(updated, place.val.id, updated.val.id)
       [] op \in Comparisons -> emit_comparison(right, op, left.val, right.val)
       [] op \in {"&&", "||"} -> emit_logical(right, op, left.val, right.val)
       [] OTHER -> emit_arith(right, op, left.val, right.val)

emit_unary(g, op, expr) ==
  LET h == emit_expr(g, expr)
      ty == h.val.ty
      inst == CASE op = "-" /\ ty.k = "float" -> "FNegate"
                [] op = "-" /\ ty.k # "float" -> "SNegate"
                [] op = "!" /\ ty.k = "bool" -> "LogicalNot" [] OTHER -> "Not"
  IN IF op = "-" /\ (IsMatrix(ty) \/ ty = Scalar("bool")) THEN cg_err(h)
     ELSE Emit(h, I(inst), ty, <<h.val.id>>)

emit_cast(g, ty, expr) ==
  LET h == emit_expr(g, expr)
      kinds == {h.val.ty.k, ty.k}
  IN CASE h.val.ty = ty -> h
       [] IsScalar(h.val.ty) /\ IsScalar(ty) /\ kinds \in {{"int", "float"}, {"uint", "float"}} ->
            coerce_scalar(h, h.val, ty.k)
       [] OTHER -> cg_err(h)

emit_mul(g, args) ==
  LET all == emit_args(g, args, <<>>)
      a == all.vals[1]
      b == all.vals[2]
      Product(op) == Emit(all.g, I(op), MulType(a.ty, b.ty), <<a.id, b.id>>)
  IN CASE Len(args) # 2 -> cg_err(g)
       [] IsMatrix(a.ty) /\ IsVector(b.ty) ->
            IF b.ty.r = a.ty.c THEN Product("MatrixTimesVector") ELSE cg_err(all.g)
       [] IsVector(a.ty) /\ IsMatrix(b.ty) ->
            IF a.ty.r = b.ty.c THEN Product("VectorTimesMatrix") ELSE cg_err(all.g)
       [] IsMatrix(a.ty) /\ IsMatrix(b.ty) -> Product("MatrixTimesMatrix")
       [] OTHER -> emit_arith(all.g, "*", a, b)

emit_call(g, name, args) ==
  LET all == emit_args(g, args, <<>>)
      zero == const_op(all.g, "float", 0)
      one == const_op(zero, "float", 2)
      ty == IF name = "length" THEN Scalar("float") ELSE Last(all.vals).ty
  IN CASE name = "saturate" /\ Len(args) = 1 ->
            glsl_unarylike_or_clamp(one, all.vals[1], zero.val, one.val)
       [] name = "dot" /\ Len(args) = 2 ->
            Emit(all.g, I("Dot"), Scalar(all.vals[1].ty.k), Ids(all.vals))
       [] name = "mul" -> emit_mul(g, args)
       [] name \in DOMAIN Intrinsics /\ Len(args) = Intrinsics[name] ->
            Emit(all.g, <<"Ext", name>>, ty, Ids(all.vals))
       [] OTHER -> cg_err(g)

\* tex.Sample(sampler, coordinate).
emit_method_call(g, base, method, args) ==
  LET image == Load(emit_place(g, base))
      sampler == emit_expr(image, args[1])
      coord == emit_expr(sampler, args[2])
      sampled == Emit(coord, I("SampledImage"), Struct("Texture2D"), <<image.val.id, sampler.val.id>>)
  IN IF method # "Sample" \/ Len(args) # 2 THEN cg_err(g)
     ELSE Emit(sampled, I("ImageSample"), Vector("float", 4), <<sampled.val.id, coord.val.id>>)

emit_expr(g, e) ==
  CASE e.n = "Literal" -> const_op(g, LiteralKind[e.ty], Number(e.v))
    [] e.n = "Ident" -> Load(emit_place(g, e))
    [] e.n = "Construct" -> emit_construct(g, TypeOf(e.v), e.a)
    [] e.n = "Member" -> emit_member(g, e.a[1], e.v)
    [] e.n = "Call" -> emit_call(g, e.v, e.a)
    [] e.n = "MethodCall" -> emit_method_call(g, e.a[1], e.v, Tail(e.a))
    [] e.n = "Binary" -> emit_binary(g, e.v, e.a[1], e.a[2])
    [] e.n = "Unary" -> emit_unary(g, e.v, e.a[1])
    [] OTHER -> emit_cast(g, TypeOf(e.ty), e.a[1])

-----------------------------------------------------------------------------
(* Statements: structured blocks. *)

RECURSIVE emit_stmt(_, _), emit_block(_, _)

emit_block(g, stmts) ==
  IF stmts = <<>> THEN g
  ELSE LET h == emit_stmt(g, Head(stmts))
       IN IF is_terminated(h) THEN h ELSE emit_block(h, Tail(stmts))

emit_if(g, cond, then, else) ==
  LET c == emit_expr(g, cond)
      b == coerce_to_bool(c, c.val)
      then_label == id(b)
      merge_label == id(b) + 1
      else_label == IF else = <<>> THEN merge_label ELSE id(b) + 2
      head == Terminate(Fresh(b, 2 + Len(else)), "BranchConditional", <<b.val.id, then_label, else_label>>)
      yes == FallTo(emit_block(begin_block(head, then_label), then), merge_label)
      no == IF else = <<>> THEN yes
            ELSE FallTo(emit_block(begin_block(yes, else_label), Head(else)), merge_label)
  IN begin_block(no, merge_label)

emit_for(g, init, cond, update, body) ==
  LET start == IF init = None THEN g ELSE emit_stmt(g, init)
      header == id(start)
      body_label == header + 1
      continue == header + 2
      merge == header + 3
      head == begin_block(Terminate(Fresh(start, 4), "Branch", <<header>>), header)
      c == emit_expr(head, cond)
      b == coerce_to_bool(c, c.val)
      enter == IF cond = None THEN Terminate(head, "Branch", <<body_label>>)
               ELSE Terminate(b, "BranchConditional", <<b.val.id, body_label, merge>>)
      run == FallTo(emit_block(begin_block(enter, body_label), body), continue)
      again == begin_block(run, continue)
      step == IF update = None THEN again ELSE emit_expr(again, update)
  IN IF is_terminated(start) THEN start
     ELSE begin_block(Terminate(step, "Branch", <<header>>), merge)

emit_stmt(g, s) ==
  LET value == emit_expr(g, s.a[1])
      returned == IF s.a = <<>> THEN g ELSE store(value, value.out.id, value.val.id)
      local == alloc_local(g, TypeOf(s.ty))
      init == emit_expr(local, s.a[1])
      declared == IF s.a[1] = None THEN local ELSE store(init, local.val.id, init.val.id)
      entry == [name |-> s.v, ptr |-> local.val.id, ty |-> local.val.ty]
  IN CASE s.n = "Return" -> Terminate(returned, "Return", <<>>)
       [] s.n = "VarDecl" -> [declared EXCEPT !.locals = Append(@, entry)]
       [] s.n = "Expr" -> value
       [] s.n = "If" -> emit_if(g, s.a[1], s.a[2].a, IF Len(s.a) = 3 THEN <<s.a[3].a>> ELSE <<>>)
       [] s.n = "For" -> emit_for(g, s.a[1], s.a[2], s.a[3], s.a[4].a)
       [] OTHER -> emit_block(g, s.a)

\* Each parameter is a local copy of its input; then the body and a return.
emit_function_body(g, main) ==
  LET Copy(h, p) ==
        LET input == h.globals[p.v]
            local == alloc_local(h, input.ty)
            loaded == Emit(local, I("Load"), input.ty, <<input.ptr>>)
        IN [store(loaded, local.val.id, loaded.val.id) EXCEPT
              !.locals = Append(@, [name |-> p.v, ptr |-> local.val.id, ty |-> input.ty])]
      body == emit_block(FoldLeft(Copy, g, main.a[1].a), main.a[3].a)
  IN IF is_terminated(body) THEN body ELSE Terminate(body, "Return", <<>>)

\* Inputs, output, then the function with its first block.
emit_main(g, main) ==
  LET io == emit_output(emit_inputs(g, main.a[1].a), main)
      begun == begin_block(Fresh(io, 2), id(io) + 1)
  IN IF io.err THEN io ELSE emit_function_body(begun, main)

codegen(decls, stage) ==
  LET g == emit_globals(Ctx(stage), decls)
      mains == SelectSeq(decls, LAMBDA d : d.n = "Function" /\ d.v = "main" /\ d.a[3] # None)
  IN IF mains = <<>> THEN cg_err(g) ELSE emit_main(g, Head(mains))
=============================================================================
