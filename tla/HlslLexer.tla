----------------------------- MODULE HlslLexer ------------------------------
(***************************************************************************)
(* The lexer of the HLSL compiler (crates/hlsl-compiler, lexer.rs), over a   *)
(* source of a few kinds of characters, and a reference for what it may      *)
(* skip and where it may cut.  A position is an index of the source; a lexer *)
(* is the source, the position, the tokens (kind and span) and whether it    *)
(* failed.                                                                 *)
(***************************************************************************)
EXTENDS Integers, SequencesExt

Digit == {"0", "1"}
Hex == Digit \cup {"a", "e", "f"}
Letter == {"a", "e", "f", "u", "x", "_"}
Blank == {" ", "\n"}
Punctuation ==
  {"(", ")", "{", "}", "[", "]", ",", ";", ":", ".", "=", "<", ">", "+", "-", "*", "/", "%",
   "!", "~", "&", "|", "^"}
TwoChars ==
  {<<"=", "=">>, <<"!", "=">>, <<"<", "=">>, <<">", "=">>, <<"&", "&">>, <<"|", "|">>,
   <<"+", "=">>, <<"-", "=">>, <<"*", "=">>, <<"/", "=">>}

Lexer(src) == [src |-> src, pos |-> 1, tokens |-> <<>>, err |-> FALSE]
AtEnd(x) == x.pos > Len(x.src)
peek_is(x, off) == IF x.pos + off > Len(x.src) THEN "" ELSE x.src[x.pos + off]
Advance(x, n) == [x EXCEPT !.pos = @ + n]
LexError(x) == [x EXCEPT !.err = TRUE]
\* A token from start to the position.
emit(x, start, kind) ==
  [x EXCEPT !.tokens = Append(@, [kind |-> kind, start |-> start, end |-> x.pos])]

RECURSIVE While(_, _), BlockComment(_), SkipLine(_), skip_ws_and_comments(_), Decimal(_, _, _)

While(x, chars) == IF peek_is(x, 0) \in chars THEN While(Advance(x, 1), chars) ELSE x

SkipLine(x) == IF AtEnd(x) \/ peek_is(x, 0) = "\n" THEN x ELSE SkipLine(Advance(x, 1))
\* To after the end of a comment, which has to come before the last character.
BlockComment(x) ==
  CASE x.pos + 1 > Len(x.src) -> LexError(x)
    [] peek_is(x, 0) = "*" /\ peek_is(x, 1) = "/" -> Advance(x, 2)
    [] OTHER -> BlockComment(Advance(x, 1))

skip_ws_and_comments(x) ==
  CASE AtEnd(x) \/ x.err -> x
    [] peek_is(x, 0) \in Blank -> skip_ws_and_comments(Advance(x, 1))
    [] peek_is(x, 0) = "/" /\ peek_is(x, 1) = "/" -> skip_ws_and_comments(SkipLine(Advance(x, 2)))
    [] peek_is(x, 0) = "/" /\ peek_is(x, 1) = "*" -> skip_ws_and_comments(BlockComment(Advance(x, 2)))
    [] OTHER -> x

consume_uint_suffix(x) == IF peek_is(x, 0) = "u" THEN Advance(x, 1) ELSE x
consume_float_suffix(x) == IF peek_is(x, 0) = "f" THEN Advance(x, 1) ELSE x
Text(x, start) == SubSeq(x.src, start, x.pos - 1)

\* Digits, one point and one exponent; then float tells whether it had either.
Decimal(x, dot, exp) ==
  LET c == peek_is(x, 0)
      signed == IF peek_is(x, 1) \in {"+", "-"} THEN 2 ELSE 1
  IN CASE c \in Digit -> Decimal(Advance(x, 1), dot, exp)
       [] c = "." /\ ~dot /\ ~exp -> Decimal(Advance(x, 1), TRUE, exp)
       [] c = "e" /\ ~exp -> Decimal(Advance(x, signed), TRUE, TRUE)
       [] OTHER -> [x |-> x, float |-> dot \/ exp]

\* The text, suffix included, is what Rust parses: a float ends in a digit or
\* a point, an integer in a digit.
number(x, start) ==
  LET hex == While(Advance(x, 2), Hex)
      hex_end == consume_uint_suffix(hex)
      dec == Decimal(x, FALSE, FALSE)
      float_end == consume_float_suffix(dec.x)
      int_end == consume_uint_suffix(dec.x)
  IN CASE peek_is(x, 0) = "0" /\ peek_is(x, 1) = "x" ->
            IF hex.pos = start + 2 THEN LexError(hex)
            ELSE emit(hex_end, start, IF hex_end = hex THEN "Int" ELSE "Uint")
       [] dec.float ->
            IF Last(Text(float_end, start)) \in Digit \cup {"."} THEN emit(float_end, start, "Float")
            ELSE LexError(float_end)
       [] OTHER -> IF int_end = dec.x THEN emit(int_end, start, "Int") ELSE LexError(int_end)

ident(x, start) == emit(While(x, Letter \cup Digit), start, "Word")

op(x, start) ==
  CASE <<peek_is(x, 0), peek_is(x, 1)>> \in TwoChars -> emit(Advance(x, 2), start, "Op")
    [] peek_is(x, 0) \in Punctuation /\ <<peek_is(x, 0), peek_is(x, 1)>> \notin TwoChars ->
         emit(Advance(x, 1), start, "Op")
    [] OTHER -> LexError(x)

RECURSIVE run(_)
run(x) ==
  LET y == skip_ws_and_comments(x)
      c == peek_is(y, 0)
  IN CASE x.err -> x
       [] y.err \/ AtEnd(y) -> y
       [] c \in Digit \/ (c = "." /\ peek_is(y, 1) \in Digit) -> run(number(y, y.pos))
       [] c \in Letter -> run(ident(y, y.pos))
       [] OTHER -> run(op(y, y.pos))
lex(src) == run(Lexer(src))

-----------------------------------------------------------------------------
(* Words: keywords, truth values, semantics, and identifiers (type words    *)
(* among them).                                                            *)

Keywords ==
  {"void", "float", "int", "uint", "bool", "struct", "return", "if", "else", "for",
   "SamplerState", "Texture2D", "cbuffer", "register"}
\* is_semantic, of the words the shaders use.
Semantics == {"SV_Target", "SV_Position", "TEXCOORD0", "COLOR0"}
classify_ident(text) ==
  [t |-> CASE text \in Keywords -> "Keyword" [] text \in {"true", "false"} -> "Bool"
           [] text \in Semantics -> "Semantic" [] OTHER -> "Ident",
   v |-> text]

-----------------------------------------------------------------------------
(* Reference: what may lie between tokens, and where tokens may meet.       *)

RECURSIVE Skippable(_)
Skippable(text) ==
  \/ text = <<>>
  \/ Head(text) \in Blank /\ Skippable(Tail(text))
  \/ /\ Len(text) >= 2 /\ SubSeq(text, 1, 2) = <<"/", "/">>
     /\ \E n \in 2..Len(text) : /\ \A i \in 3..n : text[i] # "\n"
                                /\ n < Len(text) => text[n + 1] = "\n"
                                /\ Skippable(SubSeq(text, n + 1, Len(text)))
  \/ \E n \in 4..Len(text) :
       /\ SubSeq(text, 1, 2) = <<"/", "*">> /\ SubSeq(text, n - 1, n) = <<"*", "/">>
       /\ \A m \in 4..(n - 1) : SubSeq(text, m - 1, m) # <<"*", "/">>
       /\ Skippable(SubSeq(text, n + 1, Len(text)))

\* What HLSL refuses too: a comment that does not end, a hexadecimal number or
\* an exponent without digits.
Malformed(src) ==
  \/ \E i \in 1..(Len(src) - 1) :
       /\ SubSeq(src, i, i + 1) = <<"/", "*">>
       /\ \A j \in (i + 2)..(Len(src) - 1) : SubSeq(src, j, j + 1) # <<"*", "/">>
  \/ \E i \in 1..(Len(src) - 1) :
       SubSeq(src, i, i + 1) = <<"0", "x">> /\ (i + 2 <= Len(src) => src[i + 2] \notin Hex)
  \/ \E i \in 2..Len(src) :
       /\ src[i - 1] \in Digit \cup {"."} /\ src[i] = "e"
       /\ i < Len(src) => src[i + 1] \notin Digit \cup {"+", "-"}

\* A decimal number with a suffix, which number does not take off the text that
\* it parses: such a literal is an error.
Suffixed(src) ==
  \E i \in 2..Len(src) : src[i - 1] \in Digit \cup {"."} /\ src[i] \in {"u", "f"}

\* Every text without suffixes is cut into tokens unless it is malformed: each
\* character is in one token or may be skipped, and two tokens meet only where
\* neither the word nor the operator goes on.
Tiles(src) ==
  LET x == lex(src)
      n == Len(x.tokens)
      From(i) == IF i = 0 THEN 1 ELSE x.tokens[i].end
      To(i) == IF i = n THEN Len(src) + 1 ELSE x.tokens[i + 1].start
  IN IF x.err THEN Malformed(src) \/ Suffixed(src)
     ELSE \A i \in 0..n :
            /\ i > 0 => x.tokens[i].start < x.tokens[i].end
            /\ From(i) <= To(i) /\ Skippable(SubSeq(src, From(i), To(i) - 1))
            /\ i \in 1..(n - 1) /\ From(i) = To(i) =>
                 /\ ~(x.tokens[i].kind = "Word" /\ src[To(i)] \in Letter \cup Digit)
                 /\ ~(x.tokens[i].kind = "Op" /\ To(i) - x.tokens[i].start = 1 /\
                      <<src[To(i) - 1], src[To(i)]>> \in TwoChars)
=============================================================================
