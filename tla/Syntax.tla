------------------------------- MODULE Syntax -------------------------------
(***************************************************************************)
(* An expression is written piece by piece on a keyboard, between what the *)
(* keyboard puts before and after it, and compiled after each piece.  With *)
(* as many pieces as the keyboard allows one starts anew.  A keyboard for  *)
(* classes writes what stands between the brackets.                        *)
(***************************************************************************)
EXTENDS Reading

CONSTANTS Keyboard,    \* names a record [before, pieces, after, flags, class, most]
          Probe        \* the runes with which classes are tried

VARIABLES keyboard,   \* the name of the keyboard in use
          written,    \* the pieces
          compiled    \* the tree or the error

vars == <<keyboard, written, compiled>>

board == Keyboard[keyboard]

Expression(k, ps) ==
  Keyboard[k].before \o SeqExt!FlattenSeq([i \in DOMAIN ps |-> ps[i].text])
    \o Keyboard[k].after

Init ==
  /\ keyboard \in DOMAIN Keyboard
  /\ written = <<>>
  /\ compiled = Compile(Expression(keyboard, <<>>))

Write(p) ==
  /\ Len(written) < board.most
  /\ written' = Append(written, p)
  /\ compiled' = Compile(Expression(keyboard, Append(written, p)))
  /\ UNCHANGED keyboard

StartAnew ==
  /\ Len(written) = board.most
  /\ written' = <<>>
  /\ compiled' = Compile(Expression(keyboard, <<>>))
  /\ UNCHANGED keyboard

Next == StartAnew \/ \E p \in board.pieces : Write(p)

Spec == Init /\ [][Next]_vars

----------------------------------------------------------------------------

\* The pieces keep their bounds: none but the last is torn, and no ( runs into a ?.
Separate ==
  \A i \in 1..Len(written) - 1 :
    /\ written[i].kind # "torn"
    /\ ~(written[i].text = <<"(">> /\ written[i + 1].text = <<"?">>)

IsCount(p) == p.kind = "times" /\ p.text[1] = "{"

\* Every count stands behind the first item of its alternative.
CountsFollowFirstItem ==
  \A i \in DOMAIN written : IsCount(written[i]) =>
    \E lo \in 1..i - 1 :
      /\ lo = 1 \/ written[lo - 1].kind \in {"bar", "open"}
      /\ Len(Items(written, lo, i)) = 1
      /\ Bars(written, lo, i) = {}
      /\ Depth(written, lo, i) = 0

ReadsWell == compiled.err = "none" => compiled.node = AsWritten(written)

\* Whatever is written, the tree is the one the rules of precedence, grouping and
\* flags give: repetition before sequence before alternation, empty alternatives
\* where a bar stands alone, groups numbered by their opening parentheses, flags up
\* to the end of the group without a number they stand in (parseExpression and its
\* handlers).  A quantifier behind a quantifier, which is accepted, repeats what is
\* repeated; expressions with an unexpected parenthesis are left out.
ReadsAsWritten ==
  ~board.class /\ Separate /\ CountsFollowFirstItem /\ ~UnexpectedParen(written) => ReadsWell

\* Nothing well-formed is refused.  Of the malformed, what is torn is refused by the
\* lexer whatever else is wrong, and the parser takes nothing for a repetition of
\* nothing and leaves no parenthesis open, as far as it reads.  Two failures it does
\* not report, though error.go:24 and :31 declare them: a quantifier of a quantifier,
\* and a parenthesis that closes nothing, unless that comes first.  Of these nothing
\* is claimed.
RejectsMalformed ==
  ~board.class /\ Separate /\ CountsFollowFirstItem =>
    /\ compiled.err # "none" => Malformed(written)
    /\ Torn(written) => compiled.err # "none"
    /\ Unfinished(written) /\ ~UnexpectedParen(written) => compiled.err # "none"

\* A count binds to the item before it and to no more.  The parser gives it the
\* precedence of a sequence, so that it repeats all of the alternative before it.
RepeatBindsItem == Separate /\ ~Malformed(written) => ReadsWell

----------------------------------------------------------------------------

\* What classes are spelled with here: no named set is the end of a range, no
\* property in braces comes first and not alone or not closed, and where case is
\* ignored the runes outside ASCII are of the kind that keeps its variants.
IsSet(ps, i)  == Is(ps, i, "set")
IsDash(ps, i) == i \in DOMAIN ps /\ ps[i].text = Dash

Spells(p, c) == \E k \in DOMAIN p.text : p.text[k] = c

SetsStandAlone ==
  /\ \A i \in DOMAIN written :
       IsSet(written, i) => ~IsDash(written, i - 1) /\ ~IsDash(written, i + 1)
  /\ IsSet(written, 1) /\ Spells(written[1], "{") => Len(written) = 1 /\ Spells(written[1], "}")

Wide(p) == p.kind = "rune" /\ p.runes \cap ASCII = {}

FoldsAreKept ==
  board.flags.caseInsensitive => \A i \in DOMAIN written : ~Wide(written[i])

\* What is no rune: nothing, a part of one, two of them, an encoding that is longer
\* than it needs to be, a surrogate.
NoRune ==
  {<<>>, <<192, 128>>, <<224, 128, 128>>, <<237, 160, 128>>}
    \cup {SubSeq(EncodeRune(r), 1, Len(EncodeRune(r)) - 1) : r \in Probe}
    \cup {SubSeq(EncodeRune(r), 2, Len(EncodeRune(r))) : r \in Probe}
    \cup {EncodeRune(r) \o EncodeRune(r) : r \in Probe}

MatchesAll(n, w) == Matches(n, w, 0, Len(w))

\* A class matches the encodings of the runes it denotes, whole and one at a time:
\* not half a rune, not two, not a rune of which it has only the first bytes.
ClassesDenoteTheirRunes ==
  board.class /\ written # <<>> /\ SetsStandAlone /\ FoldsAreKept =>
    /\ \A r \in Probe :
         MatchesAll(compiled.node, EncodeRune(r)) <=> Denotes(written, board.flags, r)
    /\ \A w \in NoRune : ~MatchesAll(compiled.node, w)

=============================================================================
