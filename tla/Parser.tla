------------------------------- MODULE Parser -------------------------------
(***************************************************************************)
(* The parser (parser.go) by precedence.  Its state is the index of the    *)
(* current token, the groups counted so far and the flags in force, with   *)
(* the node read last and the error that stopped it.                       *)
(***************************************************************************)
EXTENDS Lexer, Lowering

NoFlags == [caseInsensitive |-> FALSE, dotAll |-> FALSE, unicodeMode |-> FALSE]

\* Precedences.
LOWEST    == 1
UNION_    == 2
CONCAT    == 4
POSTFIX   == 6

TokenAt(toks, i) == IF i \in DOMAIN toks THEN toks[i] ELSE Token("EOF", <<>>, 0)

Cur(toks, s)  == TokenAt(toks, s.i)
Peek(toks, s) == TokenAt(toks, s.i + 1).type

Read(s, node) == [s EXCEPT !.node = node]
Fail(s, code) == [s EXCEPT !.err = code]
NextTok(s)    == [s EXCEPT !.i = @ + 1]

StartOfExpression ==
  {"Literal", "LParen", "NonCapParen", "CharClass", "Escape", "Dot", "LookAhead",
   "LookBehind", "InlineFlags", "Start", "End", "WordBoundary", "NotWordBoundary",
   "BeginText", "EndText", "EndTextOptionalNewline", "Comma", "LBrace", "RBrace"}

Infix == {"Union", "Star", "Plus", "Question", "LBrace"}

\* A count may begin an expression, and binds no tighter than one.
PeekPrecedence(type) ==
  IF type \in StartOfExpression THEN CONCAT
  ELSE IF type = "Union" THEN UNION_
  ELSE IF type \in {"Star", "Plus", "Question"} THEN POSTFIX
  ELSE LOWEST

----------------------------------------------------------------------------
(* Flags.                                                                  *)

FlagOf == [i |-> "caseInsensitive", I |-> "caseInsensitive", s |-> "dotAll", S |-> "dotAll",
           u |-> "unicodeMode", U |-> "unicodeMode"]

\* Letters behind a - are turned off; others are ignored.
RECURSIVE ApplyFlags(_, _, _)
ApplyFlags(flags, letters, enable) ==
  IF letters = <<>> THEN flags
  ELSE LET c == Head(letters)
       IN  IF c = "-" THEN ApplyFlags(flags, Tail(letters), FALSE)
           ELSE IF c \in DOMAIN FlagOf
           THEN ApplyFlags([flags EXCEPT ![FlagOf[c]] = enable], Tail(letters), enable)
           ELSE ApplyFlags(flags, Tail(letters), enable)

ApplyInlineFlags(flags, letters) == ApplyFlags(flags, letters, TRUE)

----------------------------------------------------------------------------
(* Expressions of one token.                                               *)

AnchorNode(type, unicodeMode) ==
  CASE type = "Start"     -> Start
    [] type = "End"       -> End
    [] type = "BeginText" -> BeginText
    [] type = "EndText"   -> EndText
    [] type = "EndTextOptionalNewline" -> EndTextOptionalNewline
    [] type = "WordBoundary"    -> WordBoundary(unicodeMode)
    [] type = "NotWordBoundary" -> NotWordBoundary(unicodeMode)

EscapeNode(c, flags) ==
  IF c \in PerlClass
  THEN IF flags.unicodeMode THEN UnicodeEscape(c) ELSE Class(PerlBytes(c))
  ELSE LiteralRune(EscapedRune(c), flags)

DotNode(flags) ==
  IF flags.unicodeMode THEN AnyRune(~flags.dotAll)
  ELSE IF flags.dotAll THEN AnyByte ELSE Any

Punctuation == [Comma |-> 44, LBrace |-> 123, RBrace |-> 125]

AtomNode(tok, flags) ==
  CASE tok.type = "Literal"   -> LiteralRune(Rune[tok.text[1]], flags)
    [] tok.type = "Escape"    -> EscapeNode(tok.text[1], flags)
    [] tok.type = "CharClass" -> CharClass(tok.text, flags)
    [] tok.type = "Dot"       -> DotNode(flags)
    [] tok.type \in Anchor    -> AnchorNode(tok.type, flags.unicodeMode)
    [] tok.type \in DOMAIN Punctuation -> LowerRune(Punctuation[tok.type])

AtomTypes == {"Literal", "Escape", "CharClass", "Dot"} \cup Anchor \cup DOMAIN Punctuation

----------------------------------------------------------------------------
(* Expressions.                                                            *)

RECURSIVE ParseExpression(_, _, _)

\* What an opening parenthesis encloses, read from its first token on.
Enclosed(toks, s) ==
  LET inner == ParseExpression(toks, s, LOWEST)
  IN  IF inner.err # "none" THEN inner
      ELSE IF Peek(toks, inner) # "RParen" THEN Fail(inner, "ErrMissingParen")
      ELSE NextTok(inner)

ParseLook(toks, s, type) ==
  LET inner == Enclosed(toks, NextTok(s))
  IN  Read(inner, IF type = "LookAhead" THEN LookAhead(inner.node) ELSE LookBehind(inner.node))

\* A group has the number of its opening parenthesis.
ParseGroup(toks, s) ==
  LET id    == s.groups + 1
      in    == NextTok([s EXCEPT !.groups = id])
      inner == IF Cur(toks, in).type = "RParen" THEN Read(in, Empty) ELSE Enclosed(toks, in)
  IN  Read(inner, Group(id, inner.node))

\* Mutant: the flags of the group kept behind it.
FlagsLeak(outer, inner) == inner

RestoreFlags(outer, inner) == [inner EXCEPT !.flags = outer.flags]

ParseNonCapGroup(toks, s) ==
  LET in    == NextTok([s EXCEPT !.flags = ApplyInlineFlags(@, Cur(toks, s).text)])
      inner == IF Cur(toks, in).type = "RParen" THEN Read(in, Empty) ELSE Enclosed(toks, in)
  IN  RestoreFlags(s, inner)

ParseInlineFlags(toks, s) ==
  Read([s EXCEPT !.flags = ApplyInlineFlags(@, Cur(toks, s).text)], Empty)

EndsAlternative == {"RParen", "Union", "EOF"}

\* The alternatives behind the bar that is the current token, up to the last one.
RECURSIVE ParseUnion(_, _)
ParseUnion(toks, s) ==
  LET right == IF Peek(toks, s) \in EndsAlternative THEN Read(s, Empty)
               ELSE ParseExpression(toks, NextTok(s), UNION_)
      acc   == Read(right, NewUnion(s.node, right.node))
  IN  IF right.err # "none" THEN right
      ELSE IF Peek(toks, acc) = "Union" THEN ParseUnion(toks, NextTok(acc))
      ELSE acc

\* A bar with nothing before it.
ParseEmptyLeftUnion(toks, s) ==
  LET right == IF Peek(toks, s) \in EndsAlternative THEN Read(s, Empty)
               ELSE ParseExpression(toks, NextTok(s), UNION_)
  IN  Read(right, NewUnion(Empty, right.node))

\* Mutant: a quantifier that stands alone repeats nothing.
QuantifiesNothing(s, type) == Read(s, Empty)

NoPrefix(s, type) ==
  Fail(s, IF type \in {"Star", "Plus", "Question"} THEN "ErrMissingRepeatArgument"
          ELSE "ErrInternalError")

ParsePrefix(toks, s) ==
  LET tok == Cur(toks, s)
  IN  CASE tok.type \in AtomTypes     -> Read(s, AtomNode(tok, s.flags))
        [] tok.type = "LParen"        -> ParseGroup(toks, s)
        [] tok.type = "NonCapParen"   -> ParseNonCapGroup(toks, s)
        [] tok.type = "InlineFlags"   -> ParseInlineFlags(toks, s)
        [] tok.type \in {"LookAhead", "LookBehind"} -> ParseLook(toks, s, tok.type)
        [] tok.type = "Union"         -> ParseEmptyLeftUnion(toks, s)
        [] OTHER                      -> NoPrefix(s, tok.type)

\* External (strconv.Atoi): the value of a sequence of digits.
Value(digits) == SeqExt!FoldLeft(LAMBDA n, c : 10 * n + Rune[c] - 48, 0, digits)

\* {n}, {n,} and {n,m}, from the brace on; the lexer lets no other count through.
ParseBoundedRepeat(toks, s) ==
  LET n      == Value(TokenAt(toks, s.i + 1).text)
      comma  == TokenAt(toks, s.i + 2).type = "Comma"
      closed == TokenAt(toks, s.i + 3).type = "RBrace"
      m      == Value(TokenAt(toks, s.i + 3).text)
  IN  IF ~comma THEN [s EXCEPT !.i = @ + 2, !.node = NewRepeat(@, n, n)]
      ELSE IF closed
      THEN [s EXCEPT !.i = @ + 3,
              !.node = IF n = 0 THEN Star(@) ELSE NewConcat(NewRepeat(@, n, n), Star(@))]
      ELSE IF n > m THEN Fail(s, "ErrInvalidRepeatSize")
      ELSE [s EXCEPT !.i = @ + 4, !.node = NewRepeat(@, n, m)]

ParseInfix(toks, s) ==
  LET type == Cur(toks, s).type
  IN  CASE type = "Union"    -> ParseUnion(toks, s)
        [] type = "Star"     -> Read(s, Star(s.node))
        [] type = "Plus"     -> Read(s, NewConcat(s.node, Star(s.node)))
        [] type = "Question" -> Read(s, NewUnion(s.node, Empty))
        [] type = "LBrace"   -> ParseBoundedRepeat(toks, s)

ParseImplicitConcat(toks, s) ==
  LET right == ParseExpression(toks, NextTok(s), CONCAT)
  IN  Read(right, NewConcat(s.node, right.node))

\* The operators behind s.node that bind tighter than prec.
RECURSIVE ParseOperators(_, _, _)
ParseOperators(toks, s, prec) ==
  LET type == Peek(toks, s)
  IN  IF s.err # "none" \/ prec >= PeekPrecedence(type) THEN s
      ELSE ParseOperators(toks,
             IF type \in Infix THEN ParseInfix(toks, NextTok(s))
             ELSE ParseImplicitConcat(toks, s), prec)

ParseExpression(toks, s, prec) == ParseOperators(toks, ParsePrefix(toks, s), prec)

Parse(toks) ==
  LET s == [i |-> 1, groups |-> 0, flags |-> NoFlags, node |-> Empty, err |-> "none"]
  IN  IF toks[1].type = "EOF" THEN s ELSE ParseExpression(toks, s, LOWEST)

\* The tree compile builds its automata from, or its error (compiler.go).
Outcome(last, s) ==
  CASE last = Token("Error", <<"[">>, last.end)  -> [node |-> False, err |-> "ErrMissingBracket"]
    [] last = Token("Error", <<"\\">>, last.end) -> [node |-> False, err |-> "ErrTrailingBackslash"]
    [] OTHER -> [node |-> IF s.err = "none" THEN s.node ELSE False, err |-> s.err]

CompileTokens(toks) == Outcome(toks[Len(toks)], Parse(toks))

Compile(in) == CompileTokens(LexAll(in))

=============================================================================
