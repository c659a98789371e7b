---------------------------- MODULE MatchContext ----------------------------
(***************************************************************************)
(* The context of a position in the input (match_context.go): which of the *)
(* nine facts an anchor or a word boundary may ask about hold there.  A    *)
(* matchContext is the set of its true fields, so that the zero value of   *)
(* the struct is {}, and the 16-bit mask matchContextToMask packs is the   *)
(* same set: the packing gives each field a bit of its own.                *)
(*                                                                         *)
(* Inputs are sequences of byte values.  The runes are the ASCII ones and  *)
(* those of two bytes, the shortest multi-byte encoding; any other byte    *)
(* sequence decodes to RuneError with size 1, as in unicode/utf8.          *)
(***************************************************************************)
EXTENDS Integers, Sequences

Newline == 10

CtxBit == {"AtStart", "AtEnd", "PrevIsWord", "NextIsWord", "PrevIsASCIIWord",
           "NextIsASCIIWord", "PrevIsNewline", "NextIsNewline",
           "AtEndAfterOptionalNewline"}

NoContext == {}

\* U+FFFD, the rune that stands for an invalid encoding.
RuneError == 65533

IsContinuation(b) == b \in 128..191
IsLead(b)         == b \in 194..223

\* External (unicode/utf8): the rune that begins at byte offset pos.
DecodeRune(s, pos) ==
  LET b == s[pos + 1]
  IN  IF b < 128 THEN [rune |-> b, size |-> 1]
      ELSE IF IsLead(b) /\ pos + 1 < Len(s) /\ IsContinuation(s[pos + 2])
      THEN [rune |-> (b - 192) * 64 + s[pos + 2] - 128, size |-> 2]
      ELSE [rune |-> RuneError, size |-> 1]

\* External (unicode/utf8): the rune that ends at byte offset pos.
DecodeLastRune(s, pos) ==
  IF s[pos] < 128 THEN s[pos]
  ELSE IF pos > 1 /\ DecodeRune(SubSeq(s, 1, pos), pos - 2).size = 2
  THEN DecodeRune(s, pos - 2).rune
  ELSE RuneError

IsASCIIWordRune(r) ==
  r \in {95} \cup 48..57 \cup 65..90 \cup 97..122

\* Latin-1's letters stand for the Unicode letters, digits, marks and
\* connectors that the tables of package unicode hold.
IsWordRune(r) ==
  \/ IsASCIIWordRune(r)
  \/ r \in ({170, 181, 186} \cup 192..255) \ {215, 247}

InsideRune(s, pos) ==
  pos > 0 /\ pos < Len(s) /\ IsContinuation(s[pos + 1])

Facts(field, holds) == IF holds THEN {field} ELSE {}

\* Mutant: the end of the text missed by one.
TextEndsOffByOne(s, pos) == Facts("AtStart", pos = 0) \cup Facts("AtEnd", pos > Len(s))

TextEnds(s, pos) == Facts("AtStart", pos = 0) \cup Facts("AtEnd", pos >= Len(s))

BeforePos(s, pos) ==
  IF pos = 0 THEN {}
  ELSE LET prev == DecodeLastRune(s, pos)
       IN  Facts("PrevIsWord", IsWordRune(prev))
             \cup Facts("PrevIsASCIIWord", IsASCIIWordRune(prev))
             \cup Facts("PrevIsNewline", prev = Newline)

AfterPos(s, pos) ==
  IF pos >= Len(s) THEN {"AtEndAfterOptionalNewline"}
  ELSE LET next == DecodeRune(s, pos)
       IN  Facts("NextIsWord", IsWordRune(next.rune))
             \cup Facts("NextIsASCIIWord", IsASCIIWordRune(next.rune))
             \cup Facts("NextIsNewline", next.rune = Newline)
             \cup Facts("AtEndAfterOptionalNewline",
                        next.rune = Newline /\ pos + next.size = Len(s))

\* A position inside a rune looks like the middle of a word on both sides, so
\* that no boundary can hold there.
MakeMatchContext(s, pos) ==
  IF InsideRune(s, pos)
  THEN {"PrevIsWord", "NextIsWord", "PrevIsASCIIWord", "NextIsASCIIWord"}
  ELSE TextEnds(s, pos) \cup BeforePos(s, pos) \cup AfterPos(s, pos)

=============================================================================
