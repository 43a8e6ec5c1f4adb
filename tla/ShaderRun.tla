----------------------------- MODULE ShaderRun ------------------------------
(***************************************************************************)
(* What a shader means, twice: the SPIR-V its compilation emits, run block  *)
(* by block, and its tree, evaluated as HLSL says.  A value is its kind and *)
(* its components, integers; a float counts halves, so that a float and an  *)
(* integer operation give different results.                               *)
(***************************************************************************)
EXTENDS HlslCodegen

Value(k, c) == [k |-> k, c |-> c]
Zeros(n) == [i \in 1..n |-> 0]
Magnitude(a) == IF a < 0 THEN -a ELSE a
Trunc(a, b) ==
  IF b = 0 THEN 0
  ELSE LET q == Magnitude(a) \div Magnitude(b) IN IF (a < 0) # (b < 0) THEN -q ELSE q
Sum(f) == FoldLeft(LAMBDA acc, x : acc + x, 0, f)
BoolOf(b) == IF b THEN 1 ELSE 0

RECURSIVE Initial(_, _), Get(_, _), Put(_, _, _)

\* The value of an input, a uniform or an output before the shader runs, from
\* where the pipeline feeds it.
Source(where) == CASE where[1] = "Location" -> 2 + where[2] [] where[1] = "Uniform" -> 1 - where[2]
                   [] where[1] = "FragCoord" -> 7 [] OTHER -> 9
Fed(where, ty) == Value(ty.k, [i \in 1..(ty.r * ty.c) |-> Source(where) + i])
Initial(g, ty) ==
  IF IsStruct(g, ty)
  THEN Value(ty.k, [i \in DOMAIN g.structs[ty.k] |-> Initial(g, g.structs[ty.k][i].ty)])
  ELSE Value(ty.k, Zeros(ty.r * ty.c))

Get(v, path) == IF path = <<>> THEN v ELSE Get(v.c[Head(path) + 1], Tail(path))
Put(v, path, new) ==
  IF path = <<>> THEN new ELSE [v EXCEPT !.c[Head(path) + 1] = Put(@, Tail(path), new)]

-----------------------------------------------------------------------------
(* Operations on components, shared: addition is addition on both sides.   *)

\* A scalar argument stands for a vector of it.
Intrinsic(name, a, i) ==
  LET At(n) == IF Len(a[n].c) = 1 THEN a[n].c[1] ELSE a[n].c[i]
      x == At(1) y == At(2) z == At(3)
  IN CASE name = "abs" -> Magnitude(x) [] name = "min" -> IF x < y THEN x ELSE y
       [] name = "max" -> IF x > y THEN x ELSE y
       [] name = "clamp" -> IF x < y THEN y ELSE IF x > z THEN z ELSE x
       [] name = "floor" -> x - (x % 2)
       [] name = "lerp" -> x + ((y - x) * z) \div 2
       [] OTHER -> x
DotProduct(a, b) == Sum([i \in DOMAIN a |-> a[i] * b[i]]) \div 2
\* A matrix is its columns, one after the other.
Row(m, i) == [j \in 1..4 |-> m[4 * (j - 1) + i]]
Column(m, j) == [i \in 1..4 |-> m[4 * (j - 1) + i]]
Sampled(coord) == Value("float", [i \in 1..4 |-> coord.c[1] - coord.c[2] + i])

-----------------------------------------------------------------------------
(* Running SPIR-V: st is the values of the ids, the contents of the         *)
(* variables, and whether every operand had the type its operation wants.   *)

Wants == [F |-> {"float"}, FOrd |-> {"float"}, I |-> {"int", "uint"}, S |-> {"int", "uint"},
          U |-> {"uint"}, Logical |-> {"bool"}, Ext |-> {"float"}]
WellTyped(op, args) ==
  /\ op[1] \in DOMAIN Wants =>
       \A a \in ToSet(args) : a.k \in Wants[op[1]] /\ a.k = args[1].k /\ Len(a.c) = Len(args[1].c)
  /\ op[2] \in {"ConvertSToF", "SNegate"} => args[1].k \in {"int", "uint"}
  /\ op[2] = "ConvertUToF" => args[1].k = "uint"
  /\ op[2] \in {"ConvertFToS", "ConvertFToU", "FNegate", "Dot"} => args[1].k = "float"
  /\ op[2] \in {"LogicalNot", "Any"} => args[1].k = "bool"
  /\ op[2] = "Not" => args[1].k \in {"int", "uint"}
  \* The variable of a texture is of a sampled image already (codegen.rs:323).
  /\ op[2] = "SampledImage" => args[1].k = "Image"

Calc(op, x, y) ==
  CASE op[2] = "Add" -> x + y [] op[2] = "Sub" -> x - y
    [] op[2] = "Mul" -> IF op[1] = "F" THEN (x * y) \div 2 ELSE x * y
    [] op[2] = "Div" -> IF op[1] = "F" THEN Trunc(2 * x, y) ELSE Trunc(x, y)
    [] op[2] = "Equal" -> BoolOf(x = y) [] op[2] = "NotEqual" -> BoolOf(x # y)
    [] op[2] = "LessThan" -> BoolOf(x < y) [] op[2] = "LessThanEqual" -> BoolOf(x <= y)
    [] op[2] = "GreaterThan" -> BoolOf(x > y) [] op[2] = "GreaterThanEqual" -> BoolOf(x >= y)
    [] op[2] = "And" -> BoolOf(x = 1 /\ y = 1) [] OTHER -> BoolOf(x = 1 \/ y = 1)
CalcOne(op, x) ==
  CASE op \in {"FNegate", "SNegate"} -> -x [] op = "Not" -> -1 - x [] op = "LogicalNot" -> 1 - x
    [] op \in {"ConvertSToF", "ConvertUToF"} -> 2 * x [] OTHER -> Trunc(x, 2)

\* The components an instruction gives, from the values and ids of its operands.
Components(op, args, ids) ==
  CASE op[1] = "Ext" -> [i \in DOMAIN args[1].c |-> Intrinsic(op[2], args, i)]
    [] op[1] \in {"F", "I", "S", "U", "FOrd", "Logical"} ->
         [i \in DOMAIN args[1].c |-> Calc(op, args[1].c[i], args[2].c[i])]
    [] op[2] = "CompositeConstruct" -> FlattenSeq([i \in DOMAIN args |-> args[i].c])
    [] op[2] \in {"CompositeExtract", "VectorShuffle"} ->
         [i \in 1..(Len(ids) - 1) |-> args[1].c[ids[i + 1] + 1]]
    [] op[2] = "Any" -> <<BoolOf(\E i \in DOMAIN args[1].c : args[1].c[i] = 1)>>
    [] op[2] = "Dot" -> <<DotProduct(args[1].c, args[2].c)>>
    [] op[2] = "MatrixTimesVector" -> [i \in 1..4 |-> DotProduct(Row(args[1].c, i), args[2].c)]
    [] op[2] = "VectorTimesMatrix" -> [i \in 1..4 |-> DotProduct(args[1].c, Column(args[2].c, i))]
    [] op[2] = "SampledImage" -> <<>>
    [] op[2] = "ImageSample" -> Sampled(args[2]).c
    [] OTHER -> [i \in DOMAIN args[1].c |-> CalcOne(op[2], args[1].c[i])]

\* One instruction that does not end its block.
Step(g, st, inst) ==
  LET At(p) == IF p \in DOMAIN g.variables THEN <<p>> ELSE st.env[p].c
      ValueOf(i) == IF i \in DOMAIN g.constants THEN g.constants[i] ELSE st.env[i]
      args == [i \in DOMAIN inst.args |->
                 IF inst.op[2] \in {"CompositeExtract", "VectorShuffle"} /\ i > 1 THEN None_
                 ELSE ValueOf(inst.args[i])]
      Result(v) == [st EXCEPT !.env = Define(@, inst.id, v)]
      at == At(inst.args[1])
      old == Get(st.mem[at[1]], Tail(at))
      new == ValueOf(inst.args[2])
      made == Value(inst.ty.k, Components(inst.op, args, inst.args))
      chain == Append(at, g.constants[inst.args[2]].c[1])
  IN CASE inst.op[2] = "AccessChain" -> Result(Value("pointer", chain))
       [] inst.op[2] = "Load" ->
            [Result(old) EXCEPT !.ok = @ /\ old.k = inst.ty.k]
       [] inst.op[2] = "Store" ->
            [st EXCEPT !.mem[at[1]] = Put(@, Tail(at), new),
                       !.ok = @ /\ old.k = new.k /\ Len(old.c) = Len(new.c)]
       [] OTHER -> IF WellTyped(inst.op, args) THEN Result(made) ELSE [st EXCEPT !.ok = FALSE]

Labelled(g, label) == {i \in DOMAIN g.blocks : g.blocks[i].label = label}

\* From a label to the return; a run takes at most fuel blocks.
RECURSIVE Blocks(_, _, _, _)
Blocks(g, st, label, fuel) ==
  LET insts == g.blocks[CHOOSE i \in Labelled(g, label) : TRUE].insts
      end == Last(insts)
      after == FoldLeft(LAMBDA s, inst : IF s.ok THEN Step(g, s, inst) ELSE s, st, Front(insts))
      test == IF end.args[1] \in DOMAIN g.constants THEN g.constants[end.args[1]] ELSE after.env[end.args[1]]
  IN IF fuel = 0 \/ Cardinality(Labelled(g, label)) # 1 THEN [st EXCEPT !.ok = FALSE]
     ELSE CASE ~after.ok \/ end.op[2] = "Return" -> after
            [] end.op[2] = "Branch" -> Blocks(g, after, end.args[1], fuel - 1)
            [] OTHER -> Blocks(g, after, end.args[IF test = Value("bool", <<1>>) THEN 2 ELSE 3], fuel - 1)

Contents(g, var) ==
  LET v == g.variables[var]
      Where(i) == IF v.class = "Uniform" THEN <<"Uniform", i - 1>> ELSE g.decorations[var][i]
  IN CASE v.class \in {"Input", "Uniform"} /\ IsStruct(g, v.ty) ->
            Value(v.ty.k, [i \in DOMAIN g.structs[v.ty.k] |-> Fed(Where(i), g.structs[v.ty.k][i].ty)])
       [] v.class = "Input" /\ ~IsStruct(g, v.ty) -> Fed(Where(1), v.ty)
       [] OTHER -> Initial(g, v.ty)
MaxBlocks == 40
Run(g) ==
  LET st == [env |-> <<>>, mem |-> [v \in DOMAIN g.variables |-> Contents(g, v)], ok |-> TRUE]
      end == Blocks(g, st, g.blocks[1].label, MaxBlocks)
  IN [ok |-> end.ok, out |-> end.mem[g.out.id]]

-----------------------------------------------------------------------------
(* Evaluating the tree: env is the value of every name; s is env, and what   *)
(* was returned if anything was.                                           *)

RECURSIVE Eval(_, _), EvalAll(_, _, _), Exec(_, _), Loop(_, _, _)

Converted(v, kind) ==
  CASE v.k = kind -> v
    [] kind = "float" -> Value(kind, <<2 * v.c[1]>>)
    [] v.k = "float" -> Value(kind, <<Trunc(v.c[1], 2)>>)
    [] OTHER -> Value(kind, v.c)

Meaning(op, k, x, y) ==
  CASE op = "+" -> x + y [] op = "-" -> x - y
    [] op = "*" -> IF k = "float" THEN (x * y) \div 2 ELSE x * y
    [] op = "/" -> IF k = "float" THEN Trunc(2 * x, y) ELSE Trunc(x, y)
    [] op = "==" -> BoolOf(x = y) [] op = "!=" -> BoolOf(x # y) [] op = "<" -> BoolOf(x < y)
    [] op = "<=" -> BoolOf(x <= y) [] op = ">" -> BoolOf(x > y) [] op = ">=" -> BoolOf(x >= y)
    [] op = "&&" -> BoolOf(x = 1 /\ y = 1) [] OTHER -> BoolOf(x = 1 \/ y = 1)
Combine(op, a, b) ==
  Value(IF op \in Comparisons \cup {"&&", "||"} THEN "bool" ELSE a.k,
        [i \in DOMAIN a.c |-> Meaning(op, a.k, a.c[i], b.c[i])])

\* An lvalue is a name and, for a struct, a member's index.
Assigned(env, target, v) ==
  IF target.n = "Ident" THEN [env EXCEPT ![target.v].value = Converted(v, @.k)]
  ELSE LET name == target.a[1].v
           i == MemberIndex(env[name].members, target.v)
       IN [env EXCEPT ![name].value.c[i] = v]

EvalAll(args, env, vals) ==
  IF args = <<>> THEN [vals |-> vals, env |-> env]
  ELSE LET e == Eval(Head(args), env) IN EvalAll(Tail(args), e.env, Append(vals, e.value))

CallValue(name, a) ==
  CASE name = "dot" -> Value("float", <<DotProduct(a[1].c, a[2].c)>>)
    [] name = "saturate" ->
         Value("float", [i \in DOMAIN a[1].c |-> IF a[1].c[i] < 0 THEN 0 ELSE IF a[1].c[i] > 2 THEN 2 ELSE a[1].c[i]])
    [] name = "mul" /\ Len(a[1].c) = 16 -> Value("float", [i \in 1..4 |-> DotProduct(Row(a[1].c, i), a[2].c)])
    [] name = "mul" /\ Len(a[2].c) = 16 -> Value("float", [i \in 1..4 |-> DotProduct(a[1].c, Column(a[2].c, i))])
    [] OTHER -> Value("float", [i \in DOMAIN a[1].c |-> Intrinsic(name, a, i)])

Eval(e, env) ==
  LET all == EvalAll(e.a, env, <<>>)
      v == all.vals
      right == Eval(e.a[2], env)
      new == IF e.v = "=" THEN right.value ELSE Combine(ElementOp[e.v], Eval(e.a[1], env).value, right.value)
      stored == Assigned(right.env, e.a[1], new)
      base == Eval(e.a[1], env).value
      Result(x) == [value |-> x, env |-> all.env]
      n == TypeOf(e.v).r
  IN CASE e.n = "Literal" -> [value |-> Value(LiteralKind[e.ty], <<Number(e.v)>>), env |-> env]
       [] e.n = "Ident" -> [value |-> env[e.v].value, env |-> env]
       [] e.n = "Binary" /\ e.v \in AssignOps -> [value |-> Eval(e.a[1], stored).value, env |-> stored]
       [] e.n = "Binary" /\ e.v \notin AssignOps -> Result(Combine(e.v, v[1], v[2]))
       [] e.n = "Unary" -> Result(Value(v[1].k, [i \in DOMAIN v[1].c |->
            CASE e.v = "-" -> -v[1].c[i] [] e.v = "!" -> 1 - v[1].c[i] [] OTHER -> -1 - v[1].c[i]]))
       [] e.n = "Cast" -> Result(Converted(v[1], e.ty))
       [] e.n = "Construct" -> Result(Value(TypeOf(e.v).k,
            IF Len(v) = 1 THEN [i \in 1..n |-> v[1].c[1]] ELSE FlattenSeq([i \in DOMAIN v |-> v[i].c])))
       [] e.n = "Member" /\ base.k \notin ScalarTypes -> Result(base.c[MemberIndex(env[e.a[1].v].members, e.v)])
       [] e.n = "Member" /\ base.k \in ScalarTypes ->
            LET comps == decode_swizzle(e.v)
            IN Result(Value(base.k, [i \in DOMAIN comps |-> base.c[comps[i] + 1]]))
       [] e.n = "Call" -> Result(CallValue(e.v, v))
       [] OTHER -> Result(Sampled(v[3]))

\* A name, its value and, if it is a struct, its members.
Binding_(structs, ty, value) ==
  [value |-> value, members |-> IF ty.k \in DOMAIN structs THEN structs[ty.k] ELSE <<>>]

Exec(stmts, s) ==
  IF stmts = <<>> \/ s.ret # <<>> THEN s
  ELSE LET st == Head(stmts)
           e == Eval(st.a[1], s.env)
           ty == TypeOf(st.ty)
           declared == IF st.a[1] = None THEN [value |-> Initial(s, ty), env |-> s.env] ELSE e
           named == Define(declared.env, st.v, Binding_(s.structs, ty, declared.value))
           started == IF st.a[1] = None THEN s ELSE Exec(<<st.a[1]>>, s)
           next == CASE st.n = "Return" -> [s EXCEPT !.env = e.env, !.ret = <<e.value>>]
                     [] st.n = "VarDecl" -> [s EXCEPT !.env = named]
                     [] st.n = "Expr" -> [s EXCEPT !.env = e.env]
                     [] st.n = "If" ->
                          IF 1 \in ToSet(e.value.c) THEN Exec(st.a[2].a, [s EXCEPT !.env = e.env])
                          ELSE Exec(IF Len(st.a) = 3 THEN st.a[3].a ELSE <<>>, [s EXCEPT !.env = e.env])
                     [] st.n = "For" -> Loop(st, started, MaxBlocks)
                     [] OTHER -> Exec(st.a, s)
       IN Exec(Tail(stmts), next)

Loop(for, s, fuel) ==
  LET c == IF for.a[2] = None THEN [value |-> Value("bool", <<1>>), env |-> s.env] ELSE Eval(for.a[2], s.env)
      once == Exec(for.a[4].a, [s EXCEPT !.env = c.env])
      again == IF for.a[3] = None \/ once.ret # <<>> THEN once
               ELSE [once EXCEPT !.env = Eval(for.a[3], once.env).env]
  IN IF fuel = 0 \/ s.ret # <<>> \/ c.value.c[1] # 1 THEN [s EXCEPT !.env = c.env]
     ELSE Loop(for, again, fuel - 1)

\* Where the pipeline feeds a parameter: the position, or the locations of the
\* members that have no system value, in order.
Feeding(stage, semantics, i) ==
  IF semantics[i] = "SV_Position" THEN <<IF stage = "Pixel" THEN "FragCoord" ELSE "Position", 0>>
  ELSE <<"Location", Len(SelectSeq(SubSeq(semantics, 1, i - 1), LAMBDA x : x # "SV_Position"))>>
Argument(stage, structs, p) ==
  LET ty == TypeOf(p.ty)
      members == structs[ty.k]
      semantics == [i \in DOMAIN members |-> members[i].semantic]
  IN Binding_(structs, ty,
       IF ty.k \in DOMAIN structs
       THEN Value(ty.k, [i \in DOMAIN members |-> Fed(Feeding(stage, semantics, i), members[i].ty)])
       ELSE Fed(Feeding(stage, p.a, 1), ty))
Uniforms(decls) ==
  LET all == FlattenSeq([d \in DOMAIN decls |->
               IF decls[d].n # "CBuffer" THEN <<>>
               ELSE [i \in DOMAIN decls[d].a |->
                       [name |-> decls[d].a[i].v, ty |-> TypeOf(decls[d].a[i].ty), i |-> i]]])
  IN [n \in {all[i].name : i \in DOMAIN all} |->
        LET m == CHOOSE x \in ToSet(all) : x.name = n
        IN [value |-> Fed(<<"Uniform", m.i - 1>>, m.ty), members |-> <<>>]]

\* What main returns.
Returned(decls, stage) ==
  LET structs == FoldLeft(LAMBDA f, d : IF d.n = "Struct" THEN Define(f, d.v, Typed(d.a)) ELSE f, <<>>, decls)
      main == CHOOSE d \in ToSet(decls) : d.n = "Function" /\ d.v = "main" /\ d.a[3] # None
      params == FoldLeft(LAMBDA f, p : Define(f, p.v, Argument(stage, structs, p)), <<>>, main.a[1].a)
      opaque == [n \in {d.v : d \in {x \in ToSet(decls) : x.n = "GlobalVar"}} |->
                   [value |-> Value("opaque", <<>>), members |-> <<>>]]
      s == [env |-> params @@ Uniforms(decls) @@ opaque, ret |-> <<>>, structs |-> structs]
  IN Exec(main.a[3].a, s).ret
=============================================================================
