----------------------------- MODULE MCShaders ------------------------------
(***************************************************************************)
(* Shaders for the compiler: expressions of every pair of operators, and    *)
(* whole shaders made of a few statements that a result depends on.         *)
(***************************************************************************)
EXTENDS ShaderRun

L == INSTANCE HlslLexer

Id(x) == Node("Ident", x, "", <<>>)
Lit(kind, text) == Node("Literal", text, kind, <<>>)
Bin(op, l, r) == Node("Binary", op, "", <<l, r>>)
Un(op, e) == Node("Unary", op, "", <<e>>)
Cast(ty, e) == Node("Cast", "", ty, <<e>>)
Dot(e, m) == Node("Member", m, "", <<e>>)
Call(f, args) == Node(IF f \in TypeWords THEN "Construct" ELSE "Call", f, "", args)
Do(e) == Node("Expr", "", "", <<e>>)
Block(stmts) == Node("Block", "", "", stmts)
Decl(ty, x, e) == Node("VarDecl", x, ty, <<e>>)
If(c, then) == Node("If", "", "", <<c, Block(then)>>)
IfElse(c, then, else) == Node("If", "", "", <<c, Block(then), Block(else)>>)
For(init, c, update, body) == Node("For", "", "", <<init, c, update, Block(body)>>)
Return(e) == Node("Return", "", "", <<e>>)
Param(ty, x, semantic) == Node("Param", x, ty, <<semantic>>)
Main(ty, params, semantic, body) ==
  Node("Function", "main", ty, <<Node("Params", "", "", params), semantic, Block(body)>>)

-----------------------------------------------------------------------------
(* Expressions of two operators, in both shapes. *)

BinaryOps == AssignOps \cup UNION {Ladder[i] : i \in DOMAIN Ladder}
Sampler == Node("MethodCall", "Sample", "", <<Id("t"), Id("s"), Id("a")>>)
Simple == {Lit("Int", "1"), Id("a"), Sampler}
Single ==
  { Bin(op, Id("b"), Lit("Float", "1.0")) : op \in BinaryOps } \cup
  { Un(op, Id("b")) : op \in UnaryOps } \cup
  { Cast("int", Id("b")), Cast("float4", Id("b")), Dot(Id("b"), "xy"), Sampler,
    Call("f", <<>>), Call("float4", <<Id("b"), Bin("=", Id("c"), Id("d"))>>) }
Double ==
  { Bin(op, l, Id("a")) : op \in BinaryOps, l \in Single } \cup
  { Bin(op, Id("a"), r) : op \in BinaryOps, r \in Single } \cup
  { Un(op, e) : op \in UnaryOps, e \in Single } \cup { Cast("int", e) : e \in Single } \cup
  { Dot(e, "x") : e \in Single } \cup { Call("g", <<e, Id("a")>>) : e \in Single }

\* One expression as the whole of a shader.
Trivial(e) == << Main("float4", <<>>, "SV_Target", <<Return(e)>>) >>

-----------------------------------------------------------------------------
(* Shaders that compute. *)

Zero == Lit("Float", "0.0")
Half == Lit("Float", "0.5")
One == Lit("Float", "1.0")
Two == Lit("Float", "2.0")
X == Id("x")
N == Id("n")
Set(op, e) == Do(Bin(op, X, e))
Counted(limit, body) ==
  For(Decl("int", "n", Lit("Int", "0")), Bin("<", N, Lit("Int", limit)),
      Bin("+=", N, Lit("Int", "1")), body)

\* Statements on the local float x; the value of input p decides the branches.
Assignments ==
  { Set(op, e) : op \in AssignOps,
                 e \in {Two, Bin("/", X, Two), Call("max", <<X, One>>), Dot(Id("p"), "y")} }
Conditions ==
  { Bin(op, X, Dot(Id("p"), "x")) : op \in Comparisons } \cup
  { Un("!", Bin("&&", Bin(">", X, Zero), Bin("<", X, Two))),
    Bin("<", Id("p"), Call("float4", <<X>>)) }
Nested(s, t) ==
  { If(c, <<s>>) : c \in Conditions } \cup
  { IfElse(c, <<s>>, <<t>>) : c \in Conditions } \cup
  { Counted("3", <<s, t>>), Block(<<s, t>>),
    Counted("2", <<If(Bin("==", N, Lit("Int", "1")), <<s>>), t>>),
    For(None, None, Bin("+=", X, One), <<t, If(Bin(">=", X, One), <<s, Return(Call("float4", <<X>>))>>)>>) }

Result == Return(Call("float4", <<X, X, Zero, One>>))
Pixel(body) ==
  << Main("float4", <<Param("float4", "p", "SV_Position")>>, "SV_Target",
          <<Decl("float", "x", Half)>> \o body) >>
ControlFlow ==
  { Pixel(<<n, Result>>) : n \in UNION {Nested(s, t) : s \in Assignments, t \in {Set("=", Call("min", <<X, One>>)), Set("+=", X)}} } \cup
  { Pixel(<<IfElse(c, <<Result>>, <<Set("=", Two), Return(Call("float4", <<X>>))>>), Result>>) : c \in Conditions } \cup
  { Pixel(<<IfElse(c, <<If(d, <<Result>>), Set("=", Two)>>, <<Set("=", Zero)>>), Set("+=", One), Result>>) :
      c \in Conditions, d \in Conditions }

\* Values of other types and shapes.
Numbers ==
  { Pixel(<<Decl("int", "i", Lit("Int", "3")), Decl("uint", "u", Lit("Uint", "2")), Do(Bin("=", X, e)), Result>>) :
    e \in { Cast("float", Bin("/", Id("i"), Lit("Int", "2"))), Id("i"), Id("u"),
            Cast("float", Bin("*", Id("u"), Lit("Uint", "3"))), Un("-", Cast("float", Un("-", Id("i")))),
            Cast("float", Un("~", Id("i"))), Call("dot", <<Id("p"), Call("float4", <<Half>>)>>),
            Call("abs", <<Un("-", Dot(Id("p"), "w"))>>), Call("clamp", <<X, One, Two>>),
            Call("saturate", <<Dot(Call("saturate", <<Dot(Id("p"), "wzyx")>>), "y")>>),
            Dot(Bin("+", Id("p"), Call("float4", <<Dot(Id("p"), "yx"), Dot(Id("p"), "xy")>>)), "z") } }
Resources ==
  << Node("CBuffer", "Consts", "b0", <<Param("float4", "color", ""), Param("float4x4", "m", ""), Param("float", "k", "")>>),
     Node("GlobalVar", "tex", "Texture2D", <<"t0">>), Node("GlobalVar", "smp", "SamplerState", <<"s0">>) >>
VsOut == Node("Struct", "VSOut", "", <<Param("float4", "pos", "SV_Position"), Param("float2", "uv", "TEXCOORD0"),
                                       Param("float4", "tint", "COLOR0")>>)
Interface ==
  { Resources \o << VsOut, Main("float4", <<Param("VSOut", "i", "")>>, "SV_Target", <<Return(e)>>) >> :
    e \in { Bin("*", Dot(Id("i"), "tint"), Id("color")), Bin("+", Dot(Id("i"), "tint"), Call("float4", <<Id("k")>>)),
            Call("mul", <<Id("m"), Id("color")>>), Dot(Dot(Id("i"), "pos"), "wzyx"),
            Call("float4", <<Dot(Dot(Id("i"), "uv"), "y"), Id("k"), Dot(Id("i"), "uv")>>) } }
Transform ==
  { Resources \o << VsOut,
      Main("VSOut", <<Param("VSOut", "v", "")>>, "",
           << Decl("VSOut", "o", None), Do(Bin("=", Dot(Id("o"), "pos"), e)),
              Do(Bin("=", Dot(Id("o"), "uv"), Dot(Dot(Id("v"), "uv"), "yx"))), Return(Id("o")) >>) >> :
    e \in { Call("mul", <<Dot(Id("v"), "pos"), Id("m")>>), Dot(Id("v"), "tint"),
            Call("float4", <<Dot(Id("v"), "uv"), Id("k"), One>>) } }

\* Refused: no main, a result of another type, an unknown name, operator % and
\* a cast the compiler does not know.
Prototype == Node("Function", "main", "float4", <<Node("Params", "", "", <<>>), "", None>>)
Refused ==
  { << Prototype >>, << Main("float", <<>>, "SV_Target", <<Return(One)>>) >>,
    Trivial(Id("unknown")), Pixel(<<Set("=", Bin("%", X, Two)), Result>>),
    Pixel(<<Return(Cast("float4", X))>>), Pixel(<<If(X, <<>>), Set("=", One), Result>>),
    << Node("GlobalVar", "g", "float", <<"">>), Main("float4", <<>>, "", <<Return(One)>>) >> }

\* Three shaders the compiler's tests compile: an early return
\* (tests/control_flow.rs:39), a blend by a scalar (tests/intrinsics.rs:50) and a
\* sampled texture (tests/fixtures/shaders/texture.hlsl).
Pos == Id("pos")
TestedPixel(body) == << Main("float4", <<Param("float4", "pos", "SV_Position")>>, "SV_Target", body) >>
Tested ==
  { TestedPixel(<<If(Bin(">", Dot(Pos, "x"), Zero), <<Return(Call("float4", <<One, One, One, One>>))>>),
                  Return(Call("float4", <<Zero, Zero, Zero, One>>))>>),
    TestedPixel(<<Return(Call("lerp", <<Pos, Pos, Half>>))>>),
    Tail(Resources) \o
      << Main("float4", <<Param("float2", "uv", "TEXCOORD0")>>, "SV_Target",
           <<Return(Node("MethodCall", "Sample", "", <<Id("tex"), Id("smp"), Id("uv")>>))>>) >> }

-----------------------------------------------------------------------------
\* An if without else, followed by a statement that begins with a keyword.
StartsWithKeyword(s) ==
  s.n \in {"Return", "If", "For"} \/ (s.n = "VarDecl" /\ s.ty \in TypeKeywords)
RECURSIVE Dangling(_)
Dangling(stmts) ==
  \E i \in DOMAIN stmts :
    LET s == stmts[i]
    IN \/ s.n = "If" /\ Len(s.a) = 2 /\ i < Len(stmts) /\ StartsWithKeyword(stmts[i + 1])
       \/ s.n \in {"If", "For", "Block"} /\
          \E b \in {s} \cup {s.a[j] : j \in DOMAIN s.a} : b.n = "Block" /\ Dangling(b.a)
Body(decls) == Last(decls).a[3].a

Computing == ControlFlow \cup Numbers \cup Interface \cup Transform
Stage(decls) == IF Last(decls).ty = "VSOut" THEN "Vertex" ELSE "Pixel"

\* The compiler and the machine, parameters here: parse of a tree's text,
\* codegen, the run of its output, and what the source returns.
CONSTANTS Reparsed(_), Compiled(_, _), Executed(_), Returns(_, _)

VARIABLES shader     \* the shader being compiled and what to expect; none at first

ShaderInit == shader = <<>>
Choose(expected, shaders) ==
  shader = <<>> /\ \E s \in shaders : shader' = [expected |-> expected, decls |-> s]

CompileExpression == Choose("tree", {Trivial(e) : e \in Single \cup Double})
CompileShader == Choose("result", Computing) \/ Choose("error", Refused) \/ Choose("tested", Tested)

\* The tokens of a text, its words classified by the lexer.
Lexed(tokens) ==
  [i \in DOMAIN tokens |->
     IF tokens[i].t \in {"Ident", "Keyword", "Semantic", "Bool"} THEN L!classify_ident(tokens[i].v)
     ELSE tokens[i]]

ParsedBack(decls) == parse(Lexed(WrittenUnit(decls)))

\* ParsesAsWritten: what HLSL writes for a tree parses to that tree: words of
\* lexer.rs, precedence, associativity, casts, calls, statements and
\* declarations of parser.rs.  Nothing is said of an `if` without `else` before
\* a statement that begins with a keyword (see TestedShadersCompile).
ParsesAsWritten ==
  shader # <<>> =>
    \/ shader.expected \in {"result", "tested"} /\ Dangling(Body(shader.decls))
    \/ Reparsed(shader.decls) = shader.decls

\* The shader's code runs well typed and leaves in the output what it returns.
RunsToResult ==
  LET stage == Stage(shader.decls)
      g == Compiled(shader.decls, stage)
  IN ~g.err /\ Executed(g) = [ok |-> TRUE, out |-> Head(Returns(shader.decls, stage))]

\* RunsAsWritten: the SPIR-V of a shader has every block begun once and ended,
\* operands of the types the operations want, and leaves in the output what the
\* source returns; a shader codegen.rs has no code for is refused.  The shaders
\* write every conversion but that of an assignment, and sample no texture.
RunsAsWritten ==
  shader # <<>> =>
    /\ shader.expected = "result" => RunsToResult
    /\ shader.expected = "error" => Compiled(shader.decls, Stage(shader.decls)).err

\* TestedShadersCompile: a shader of the compiler's tests is parsed as it is
\* written, and its code runs well typed to what the source returns; control
\* flow, intrinsics and `.Sample` are supported (docs/compatibility.md:31-34).
TestedShadersCompile ==
  shader # <<>> /\ shader.expected = "tested" =>
    Reparsed(shader.decls) = shader.decls /\ RunsToResult
=============================================================================
