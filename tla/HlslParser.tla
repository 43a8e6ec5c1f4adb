----------------------------- MODULE HlslParser -----------------------------
(***************************************************************************)
(* The recursive-descent parser of the HLSL compiler (crates/hlsl-compiler, *)
(* parser.rs), from tokens to a tree, and a reference: the tokens a tree is *)
(* written with.  A token is its kind and its text; a parser is the tokens, *)
(* the index, and the struct names seen, and index 0 stands for a parse     *)
(* error: no rule accepts anything there, so an error ends the parse.       *)
(***************************************************************************)
EXTENDS Integers, SequencesExt

Token(kind, text) == [t |-> kind, v |-> text]
Op(text) == Token(text, text)
Ident(name) == Token("Ident", name)
Keyword(word) == Token("Keyword", word)
Eof == Token("Eof", "")
NoToken == Token("Error", "")

\* A node of the tree: kind, name or operator, type or register, children.
Node(n, v, ty, a) == [n |-> n, v |-> v, ty |-> ty, a |-> a]
None == Node("None", "", "", <<>>)

ScalarTypes == {"float", "int", "uint", "bool"}
TypeKeywords == ScalarTypes \cup {"void", "SamplerState", "Texture2D"}
\* decode_type_word: the words of a kind and a shape, as the lexer leaves them.
TypeWords == {"float2", "float3", "float4", "float4x4", "int2", "uint2", "bool2"}
Modifiers == {"in", "out", "inout", "uniform"}

-----------------------------------------------------------------------------
(* Token helpers. *)

Parser(toks) == [toks |-> toks, i |-> 1, structs |-> {}]
Failed(p) == [p EXCEPT !.i = 0]
peek(p) == IF p.i = 0 THEN NoToken ELSE p.toks[p.i]
Sees(p, kinds) == peek(p).t \in kinds
bump(p) == IF Sees(p, {"Eof", "Error"}) THEN p ELSE [p EXCEPT !.i = @ + 1]

\* eat and expect compare the kinds of two tokens: asked for one keyword, they
\* take any keyword.
eat(p, want) == IF Sees(p, {want.t}) THEN bump(p) ELSE p
expect(p, want) == IF Sees(p, {want.t}) THEN bump(p) ELSE Failed(p)
Eats(p, want) == Sees(p, {want.t})

expect_ident(p) == IF Sees(p, {"Ident"}) THEN bump(p) ELSE Failed(p)
Done(p, e) == [p |-> p, e |-> e]

RECURSIVE skip_until(_, _)
skip_until(p, kind) ==
  IF Sees(p, {kind, "Eof", "Error"}) THEN bump(p) ELSE skip_until(bump(p), kind)

\* The text between a colon and what follows, or nothing.
parse_optional_semantic(p) ==
  IF ~Eats(p, Op(":")) THEN Done(p, "")
  ELSE LET q == bump(p)
       IN Done(bump(q), IF Sees(q, {"Semantic", "Ident"}) THEN peek(q).v ELSE "")

parse_optional_register(p) ==
  LET colon == bump(p)
      word == bump(colon)
      reg == bump(word)
  IN CASE ~Eats(p, Op(":")) -> Done(p, "")
       [] ~Eats(colon, Keyword("register")) -> Done(colon, "")
       [] ~Eats(word, Op("(")) -> Done(word, "")
       [] OTHER -> Done(skip_until(bump(reg), ")"),
                        IF Sees(reg, {"Ident"}) THEN peek(reg).v ELSE "")

type_token_len(p) ==
  IF \/ peek(p) \in {Keyword(w) : w \in TypeKeywords}
     \/ peek(p) \in {Ident(w) : w \in TypeWords \cup p.structs}
  THEN 1 ELSE 0
peek_is_type(p) == type_token_len(p) > 0
looks_like_var_decl(p) ==
  peek_is_type(p) /\ Sees([p EXCEPT !.i = @ + type_token_len(p)], {"Ident"})

parse_type(p) ==
  LET q == bump(p)
  IN CASE ~peek_is_type(p) -> Done(Failed(p), "")
       [] peek(p).v = "Texture2D" /\ Eats(q, Op("<")) ->
            Done(skip_until(bump(q), ">"), "Texture2D")
       [] OTHER -> Done(q, peek(p).v)

-----------------------------------------------------------------------------
(* Expressions: assignment, then six levels of left-associative operators. *)

AssignOps == {"=", "+=", "-=", "*=", "/="}
Ladder ==
  << {"||"}, {"&&"}, {"==", "!="}, {"<", "<=", ">", ">="}, {"+", "-"}, {"*", "/", "%"} >>
UnaryOps == {"-", "!", "~"}
Literals == {"Int", "Uint", "Float", "Bool"}

RECURSIVE parse_assign(_), parse_level(_, _), More(_, _, _), parse_unary(_),
          parse_postfix(_, _), parse_args(_, _)

parse_expr(p) == parse_assign(p)

parse_assign(p) ==
  LET lhs == parse_level(p, 1)
      rhs == parse_assign(bump(lhs.p))
  IN IF Sees(lhs.p, AssignOps)
     THEN Done(rhs.p, Node("Binary", peek(lhs.p).t, "", <<lhs.e, rhs.e>>))
     ELSE lhs

\* Mutant: operators group to the right.
parse_level_Right(p, level) ==
  IF level > Len(Ladder) THEN parse_unary(p)
  ELSE LET lhs == parse_level(p, level + 1)
           rhs == parse_level(bump(lhs.p), level)
       IN IF Sees(lhs.p, Ladder[level])
          THEN Done(rhs.p, Node("Binary", peek(lhs.p).t, "", <<lhs.e, rhs.e>>)) ELSE lhs
\* parse_or, parse_and, parse_equality, parse_rel, parse_add and parse_mul: an
\* operand of the next level, then operators of this one.
parse_level(p, level) ==
  IF level > Len(Ladder) THEN parse_unary(p)
  ELSE LET lhs == parse_level(p, level + 1) IN More(lhs.p, level, lhs.e)
More(p, level, lhs) ==
  IF ~Sees(p, Ladder[level]) THEN Done(p, lhs)
  ELSE LET rhs == parse_level(bump(p), level + 1)
       IN More(rhs.p, level, Node("Binary", peek(p).t, "", <<lhs, rhs.e>>))

parse_primary(p) ==
  LET here == peek(p)
      q == bump(p)
      cast == parse_type(q)
      operand == parse_unary(bump(cast.p))
      inner == parse_expr(IF peek_is_type(q) THEN cast.p ELSE q)
      args == parse_args(bump(q), <<>>)
      call == Done(expect(args.p, Op(")")),
                   Node(IF here.v \in TypeWords THEN "Construct" ELSE "Call", here.v, "", args.e))
  IN CASE here.t \in Literals -> Done(q, Node("Literal", here.v, here.t, <<>>))
       [] here.t = "(" /\ peek_is_type(q) /\ Eats(cast.p, Op(")")) ->
            Done(operand.p, Node("Cast", "", cast.e, <<operand.e>>))
       [] here.t = "(" -> Done(expect(inner.p, Op(")")), inner.e)
       [] here.t = "Ident" -> IF Eats(q, Op("(")) THEN call ELSE Done(q, Node("Ident", here.v, "", <<>>))
       [] OTHER -> Done(Failed(p), None)

parse_unary(p) ==
  IF Sees(p, UnaryOps)
  THEN LET e == parse_unary(bump(p)) IN Done(e.p, Node("Unary", peek(p).t, "", <<e.e>>))
  ELSE LET e == parse_primary(p) IN parse_postfix(e.p, e.e)

parse_postfix(p, e) ==
  IF ~Sees(p, {"."}) THEN Done(p, e)
  ELSE LET name == bump(p)
           q == expect_ident(name)
           args == parse_args(bump(q), <<>>)
       IN IF Eats(q, Op("("))
          THEN parse_postfix(expect(args.p, Op(")")),
                             Node("MethodCall", peek(name).v, "", <<e>> \o args.e))
          ELSE parse_postfix(q, Node("Member", peek(name).v, "", <<e>>))

parse_args(p, args) ==
  IF args = <<>> /\ Sees(p, {")"}) THEN Done(p, args)
  ELSE LET e == parse_expr(p)
       IN IF Eats(e.p, Op(",")) THEN parse_args(bump(e.p), Append(args, e.e))
          ELSE Done(e.p, Append(args, e.e))

-----------------------------------------------------------------------------
(* Statements. *)

RECURSIVE parse_stmt(_), parse_block_body(_, _)

parse_var_decl(p) ==
  LET ty == parse_type(p)
      semantic == parse_optional_semantic(expect_ident(ty.p))
      init == parse_expr(bump(semantic.p))
      Decl(e) == Node("VarDecl", peek(ty.p).v, ty.e, <<e>>)
  IN IF Eats(semantic.p, Op("=")) THEN Done(init.p, Decl(init.e)) ELSE Done(semantic.p, Decl(None))

\* A declaration or an expression, without its semicolon.
DeclOrExpr(p) ==
  IF looks_like_var_decl(p) THEN parse_var_decl(p)
  ELSE LET e == parse_expr(p) IN Done(e.p, Node("Expr", "", "", <<e.e>>))

Closed(r, token) == Done(expect(r.p, token), r.e)

parse_block_body(p, stmts) ==
  IF Sees(p, {"}", "Eof", "Error"}) THEN Done(p, Node("Block", "", "", stmts))
  ELSE LET s == parse_stmt(p) IN parse_block_body(s.p, Append(stmts, s.e))

parse_block_or_stmt(p) ==
  IF Eats(p, Op("{")) THEN Closed(parse_block_body(bump(p), <<>>), Op("}"))
  ELSE LET s == parse_stmt(p) IN Done(s.p, Node("Block", "", "", <<s.e>>))

parse_return(p) ==
  LET q == expect(p, Keyword("return"))
      e == Closed(parse_expr(q), Op(";"))
  IN IF Eats(q, Op(";")) THEN Done(bump(q), Node("Return", "", "", <<>>))
     ELSE Done(e.p, Node("Return", "", "", <<e.e>>))

parse_if(p) ==
  LET cond == Closed(parse_expr(expect(expect(p, Keyword("if")), Op("("))), Op(")"))
      then == parse_block_or_stmt(cond.p)
      else == parse_block_or_stmt(bump(then.p))
  IN IF Eats(then.p, Keyword("else"))
     THEN Done(else.p, Node("If", "", "", <<cond.e, then.e, else.e>>))
     ELSE Done(then.p, Node("If", "", "", <<cond.e, then.e>>))

parse_for(p) ==
  LET start == expect(expect(p, Keyword("for")), Op("("))
      Optional(q, r, end) == IF Sees(q, {end.t}) THEN Done(bump(q), None) ELSE Closed(r, end)
      init == Optional(start, DeclOrExpr(start), Op(";"))
      cond == Optional(init.p, parse_expr(init.p), Op(";"))
      update == Optional(cond.p, parse_expr(cond.p), Op(")"))
      body == parse_block_or_stmt(update.p)
  IN Done(body.p, Node("For", "", "", <<init.e, cond.e, update.e, body.e>>))

parse_stmt(p) ==
  CASE peek(p) = Keyword("return") -> parse_return(p)
    [] peek(p) = Keyword("if") -> parse_if(p)
    [] peek(p) = Keyword("for") -> parse_for(p)
    [] Sees(p, {"{"}) -> Closed(parse_block_body(bump(p), <<>>), Op("}"))
    [] OTHER -> Closed(DeclOrExpr(p), Op(";"))

-----------------------------------------------------------------------------
(* Declarations. *)

RECURSIVE parse_members(_, _), parse_params(_, _), parse_unit(_, _)

\* Type, name and semantic of a member or a parameter.
Element(p) ==
  LET ty == parse_type(p)
      semantic == parse_optional_semantic(expect_ident(ty.p))
  IN Done(semantic.p, Node("Param", peek(ty.p).v, ty.e, <<semantic.e>>))

parse_members(p, members) ==
  IF Sees(p, {"}", "Error"}) THEN Done(bump(p), members)
  ELSE LET m == Closed(Element(p), Op(";")) IN parse_members(m.p, Append(members, m.e))

eat_modifier_word(p) == IF peek(p) \in {Ident(w) : w \in Modifiers} THEN bump(p) ELSE p

parse_params(p, params) ==
  IF params = <<>> /\ Sees(p, {")"}) THEN Done(p, params)
  ELSE LET e == Element(eat_modifier_word(p))
       IN IF Eats(e.p, Op(",")) THEN parse_params(bump(e.p), Append(params, e.e))
          ELSE Done(e.p, Append(params, e.e))

parse_struct(p) ==
  LET name == expect(p, Keyword("struct"))
      members == parse_members(expect(expect_ident(name), Op("{")), <<>>)
      end == expect(members.p, Op(";"))
  IN Done([end EXCEPT !.structs = @ \cup {peek(name).v}],
          Node("Struct", peek(name).v, "", members.e))

parse_cbuffer(p) ==
  LET name == expect(p, Keyword("cbuffer"))
      register == parse_optional_register(expect_ident(name))
      members == parse_members(expect(register.p, Op("{")), <<>>)
  IN Done(expect(members.p, Op(";")), Node("CBuffer", peek(name).v, register.e, members.e))

parse_function_or_global_var(p) ==
  LET ty == parse_type(p)
      name == peek(ty.p).v
      q == expect_ident(ty.p)
      params == parse_params(bump(q), <<>>)
      semantic == parse_optional_semantic(expect(params.p, Op(")")))
      body == Closed(parse_block_body(expect(semantic.p, Op("{")), <<>>), Op("}"))
      register == parse_optional_register(q)
      Function(b) ==
        Node("Function", name, ty.e, <<Node("Params", "", "", params.e), semantic.e, b>>)
  IN CASE Sees(q, {"("}) /\ Eats(semantic.p, Op(";")) -> Done(bump(semantic.p), Function(None))
       [] Sees(q, {"("}) -> Done(body.p, Function(body.e))
       [] Sees(q, {":", ";"}) ->
            Done(expect(register.p, Op(";")), Node("GlobalVar", name, ty.e, <<register.e>>))
       [] OTHER -> Done(Failed(q), None)

parse_decl(p) ==
  CASE peek(p) = Keyword("struct") -> parse_struct(p)
    [] peek(p) = Keyword("cbuffer") -> parse_cbuffer(p)
    [] OTHER -> parse_function_or_global_var(p)

parse_unit(p, decls) ==
  IF Sees(p, {"Eof", "Error"}) THEN Done(p, decls)
  ELSE LET d == parse_decl(p) IN parse_unit(d.p, Append(decls, d.e))

\* The declarations, or "error" as the only one.
parse(toks) ==
  LET unit == parse_unit(Parser(toks), <<>>)
  IN IF unit.p.i = 0 THEN <<Node("Error", "", "", <<>>)>> ELSE unit.e

-----------------------------------------------------------------------------
(* Reference: how HLSL writes a tree, with the parentheses the precedence and *)
(* the associativity of its operators ask for and no others.               *)

Binding(op) ==
  CASE op \in AssignOps -> 1 [] op = "||" -> 2 [] op = "&&" -> 3
    [] op \in {"==", "!="} -> 4 [] op \in {"<", "<=", ">", ">="} -> 5
    [] op \in {"+", "-"} -> 6 [] OTHER -> 7
Tightness(e) ==
  CASE e.n = "Binary" -> Binding(e.v) [] e.n \in {"Unary", "Cast"} -> 8 [] OTHER -> 9

TypeToken(w) == IF w \in TypeKeywords THEN Keyword(w) ELSE Ident(w)
Commas(seqs) == FoldLeft(LAMBDA acc, s : IF acc = <<>> THEN s ELSE acc \o <<Op(",")>> \o s, <<>>, seqs)

RECURSIVE Written(_), WrittenStmt(_)

\* An operand of an operator that binds with strength t.
Operand(e, t) == IF Tightness(e) >= t THEN Written(e) ELSE <<Op("(")>> \o Written(e) \o <<Op(")")>>
List(es) == <<Op("(")>> \o Commas([i \in DOMAIN es |-> Written(es[i])]) \o <<Op(")")>>

Written(e) ==
  CASE e.n = "Literal" -> <<Token(e.ty, e.v)>>
    [] e.n = "Ident" -> <<Ident(e.v)>>
    [] e.n = "Binary" /\ e.v \in AssignOps -> Operand(e.a[1], 2) \o <<Op(e.v)>> \o Operand(e.a[2], 1)
    [] e.n = "Binary" /\ e.v \notin AssignOps ->
         Operand(e.a[1], Binding(e.v)) \o <<Op(e.v)>> \o Operand(e.a[2], Binding(e.v) + 1)
    [] e.n = "Unary" -> <<Op(e.v)>> \o Operand(e.a[1], 8)
    [] e.n = "Cast" -> <<Op("("), TypeToken(e.ty), Op(")")>> \o Operand(e.a[1], 8)
    [] e.n = "Member" -> Operand(e.a[1], 9) \o <<Op("."), Ident(e.v)>>
    [] e.n = "MethodCall" -> Operand(e.a[1], 9) \o <<Op("."), Ident(e.v)>> \o List(Tail(e.a))
    [] OTHER -> <<Ident(e.v)>> \o List(e.a)

WrittenAll(stmts) == FlattenSeq([i \in DOMAIN stmts |-> WrittenStmt(stmts[i])])
Braces(block) == <<Op("{")>> \o WrittenAll(block.a) \o <<Op("}")>>
WithColon(text, token) == IF text = "" THEN <<>> ELSE <<Op(":"), token>>
OrNone(e, tokens) == IF e = None THEN <<>> ELSE tokens

\* A statement without its semicolon.
Bare(s) ==
  CASE s = None -> <<>>
    [] s.n = "VarDecl" -> <<TypeToken(s.ty), Ident(s.v)>> \o
                          OrNone(s.a[1], <<Op("=")>> \o Written(s.a[1]))
    [] OTHER -> Written(s.a[1])
WrittenStmt(s) ==
  CASE s.n = "Return" -> <<Keyword("return")>> \o
                         (IF s.a = <<>> THEN <<>> ELSE Written(s.a[1])) \o <<Op(";")>>
    [] s.n = "If" -> <<Keyword("if"), Op("(")>> \o Written(s.a[1]) \o <<Op(")")>> \o Braces(s.a[2]) \o
                     (IF Len(s.a) = 2 THEN <<>> ELSE <<Keyword("else")>> \o Braces(s.a[3]))
    [] s.n = "For" -> <<Keyword("for"), Op("(")>> \o Bare(s.a[1]) \o <<Op(";")>> \o
                      OrNone(s.a[2], Written(s.a[2])) \o <<Op(";")>> \o
                      OrNone(s.a[3], Written(s.a[3])) \o <<Op(")")>> \o Braces(s.a[4])
    [] s.n = "Block" -> Braces(s)
    [] OTHER -> Bare(s) \o <<Op(";")>>

Elements(members) ==
  [i \in DOMAIN members |->
     <<TypeToken(members[i].ty), Ident(members[i].v)>> \o
     WithColon(members[i].a[1], Token("Semantic", members[i].a[1]))]
Members(members) ==
  <<Op("{")>> \o FlattenSeq([i \in DOMAIN members |-> Elements(members)[i] \o <<Op(";")>>]) \o <<Op("}")>>
Register(reg) ==
  IF reg = "" THEN <<>> ELSE <<Op(":"), Keyword("register"), Op("("), Ident(reg), Op(")")>>
WrittenDecl(d) ==
  CASE d.n = "Struct" -> <<Keyword("struct"), Ident(d.v)>> \o Members(d.a) \o <<Op(";")>>
    [] d.n = "CBuffer" -> <<Keyword("cbuffer"), Ident(d.v)>> \o Register(d.ty) \o Members(d.a) \o <<Op(";")>>
    [] d.n = "GlobalVar" -> <<TypeToken(d.ty), Ident(d.v)>> \o Register(d.a[1]) \o <<Op(";")>>
    [] OTHER -> <<TypeToken(d.ty), Ident(d.v), Op("(")>> \o Commas(Elements(d.a[1].a)) \o <<Op(")")>> \o
                WithColon(d.a[2], Token("Semantic", d.a[2])) \o
                (IF d.a[3] = None THEN <<Op(";")>> ELSE Braces(d.a[3]))
WrittenUnit(decls) == FlattenSeq([i \in DOMAIN decls |-> WrittenDecl(decls[i])]) \o <<Eof>>
=============================================================================
