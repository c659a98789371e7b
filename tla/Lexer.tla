------------------------------- MODULE Lexer -------------------------------
(***************************************************************************)
(* The lexer (lexer.go).  An expression is a sequence of characters, each  *)
(* a string.  A token is its type, its text (the character of a literal or *)
(* an escape, the content of a class, the digits of a number, the letters  *)
(* of flags) and the offset behind it.                                     *)
(***************************************************************************)
EXTENDS Integers, Sequences

CONSTANT Letter   \* the characters that are letters of ASCII

Digit == {"0", "1", "2", "3", "4", "5", "6", "7", "8", "9"}

Token(type, text, end) == [type |-> type, text |-> text, end |-> end]

\* Is there a character c at offset p?
IsAt(in, p, c) == p < Len(in) /\ in[p + 1] = c

\* The characters from offset p up to q, and those of a closed span.
Text(in, p, q) == SubSeq(in, p + 1, q)

\* The first offset from p on at which there is none of the characters of S, and
\* the first at which there is one.
RECURSIVE SpanEnd(_, _, _)
SpanEnd(in, p, S) == IF p < Len(in) /\ in[p + 1] \in S THEN SpanEnd(in, p + 1, S) ELSE p

FirstOf(in, p, c) == SpanEnd(in, p, {in[i] : i \in DOMAIN in} \ {c})

\* A character that may be followed by a ?, which is read over.
SkipLazy(in, p) == IF IsAt(in, p, "?") THEN p + 1 ELSE p

FlagLetters(in) ==
  {c \in {in[i] : i \in DOMAIN in} : c = "-" \/ c \in Letter}

\* (?i) and (?i:, read from p on.  With any other character among the letters the
\* ( stands alone; at the end of the expression what was read is lost.
Flags(in, open, p) ==
  LET q == SpanEnd(in, p, FlagLetters(in))
  IN  IF IsAt(in, q, ":") THEN Token("NonCapParen", Text(in, p, q), q + 1)
      ELSE IF IsAt(in, q, ")") THEN Token("InlineFlags", Text(in, p, q), q + 1)
      ELSE Token("LParen", <<>>, IF q < Len(in) THEN open ELSE p)

\* (?<name> and (?P<name>, read from the < or the P on.  A name that is not closed
\* takes the rest of the expression.
NamedOrFlags(in, open, p) ==
  LET lt    == IF IsAt(in, p, "P") THEN p + 1 ELSE p
      close == FirstOf(in, lt + 1, ">")
  IN  IF ~IsAt(in, lt, "<") THEN Flags(in, open, lt)
      ELSE IF IsAt(in, close, ">") THEN Token("LParen", <<>>, close + 1)
      ELSE Flags(in, open, close)

\* What a ( at the offset before p begins.
Opening(in, p) ==
  IF ~IsAt(in, p, "?") THEN Token("LParen", <<>>, p)
  ELSE IF IsAt(in, p + 1, ":") THEN Token("NonCapParen", <<>>, p + 2)
  ELSE IF IsAt(in, p + 1, "=") THEN Token("LookAhead", <<>>, p + 2)
  ELSE IF IsAt(in, p + 1, "<") /\ IsAt(in, p + 2, "=") THEN Token("LookBehind", <<>>, p + 3)
  ELSE NamedOrFlags(in, p, p + 1)

\* Is what follows a { a count?
IsLookaheadRepeat(in, p) ==
  LET q == SpanEnd(in, p, Digit)
  IN  /\ q > p
      /\ \/ IsAt(in, q, "}")
         \/ IsAt(in, q, ",") /\ IsAt(in, SpanEnd(in, q + 1, Digit), "}")

\* The end of a class: the first ] that is not escaped.
RECURSIVE ClassEnd(_, _)
ClassEnd(in, p) ==
  IF p >= Len(in) \/ IsAt(in, p, "]") THEN p
  ELSE ClassEnd(in, IF IsAt(in, p, "\\") THEN p + 2 ELSE p + 1)

LexCharacterClass(in, p) ==
  LET q == ClassEnd(in, p)
  IN  IF IsAt(in, q, "]") THEN Token("CharClass", Text(in, p, q), q + 1)
      ELSE Token("Error", <<"[">>, Len(in))

\* \p{name} and \pL.  A name that is not closed takes the rest of the expression.
PropertyEscape(in, p) ==
  LET close == FirstOf(in, p + 1, "}")
  IN  IF IsAt(in, p + 1, "{")
      THEN IF IsAt(in, close, "}") THEN Token("CharClass", Text(in, p - 1, close + 1), close + 1)
           ELSE Token("Escape", Text(in, p, p + 1), Len(in))
      ELSE IF p + 1 < Len(in) THEN Token("CharClass", Text(in, p - 1, p + 2), p + 2)
      ELSE Token("Escape", Text(in, p, p + 1), p + 1)

AnchorEscape ==
  [b |-> "WordBoundary", B |-> "NotWordBoundary", A |-> "BeginText", z |-> "EndText",
   Z |-> "EndTextOptionalNewline"]

\* What follows a backslash.
Escaped(in, p) ==
  IF p >= Len(in) THEN Token("Error", <<"\\">>, p)
  ELSE IF in[p + 1] \in DOMAIN AnchorEscape THEN Token(AnchorEscape[in[p + 1]], <<>>, p + 1)
  ELSE IF in[p + 1] \in {"p", "P"} THEN PropertyEscape(in, p)
  ELSE Token("Escape", Text(in, p, p + 1), p + 1)

\* The characters that mean the same wherever they stand.
Single ==
  [c \in {"|", "^", "$", ")", "."} |->
     CASE c = "|" -> "Union" [] c = "^" -> "Start" [] c = "$" -> "End"
       [] c = ")" -> "RParen" [] c = "." -> "Dot"]

Quantifier == [c \in {"*", "+", "?"} |->
                 CASE c = "*" -> "Star" [] c = "+" -> "Plus" [] c = "?" -> "Question"]

\* The token at offset p, behind one of type last.  Inside a count the digits, the
\* comma and the closing brace are no literals.
NextToken(in, p, last) ==
  LET c == in[p + 1]
  IN  CASE c \in DOMAIN Single     -> Token(Single[c], <<>>, p + 1)
        [] c \in DOMAIN Quantifier -> Token(Quantifier[c], <<>>, SkipLazy(in, p + 1))
        [] c = "("  -> Opening(in, p + 1)
        [] c = "["  -> LexCharacterClass(in, p + 1)
        [] c = "\\" -> Escaped(in, p + 1)
        [] c = "{" /\ IsLookaheadRepeat(in, p + 1) -> Token("LBrace", <<>>, p + 1)
        [] c = "}" /\ last \in {"Number", "Comma", "LBrace"} ->
             Token("RBrace", <<>>, SkipLazy(in, p + 1))
        [] c = "," /\ last \in {"Number", "LBrace"} -> Token("Comma", <<>>, p + 1)
        [] c \in Digit /\ last \in {"LBrace", "Comma"} ->
             LET q == SpanEnd(in, p, Digit) IN Token("Number", Text(in, p, q), q)
        [] OTHER    -> Token("Literal", <<c>>, p + 1)

\* The tokens from offset p on, up to the end or the first error.
RECURSIVE LexFrom(_, _, _)
LexFrom(in, p, last) ==
  IF p >= Len(in) THEN <<Token("EOF", <<>>, p)>>
  ELSE LET t == NextToken(in, p, last)
       IN  <<t>> \o (IF t.type = "Error" THEN <<>> ELSE LexFrom(in, t.end, t.type))

LexAll(in) == LexFrom(in, 0, "none")

=============================================================================
