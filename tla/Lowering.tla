------------------------------ MODULE Lowering ------------------------------
(***************************************************************************)
(* From runes to bytes (utf8_lowering.go and the literals of parser.go).   *)
(* The automata read bytes: a rune becomes the concatenation of the bytes  *)
(* of its UTF-8 encoding, a set of runes the tree of a trie of encodings.  *)
(* What the code caches here is a pure function of its key and is computed *)
(* anew.                                                                   *)
(*                                                                         *)
(* A character of an expression is a string, Rune[c] its code point.  The  *)
(* name of a Unicode property is one character.                            *)
(***************************************************************************)
EXTENDS Ast

CONSTANTS Rune,        \* Rune[c]: the code point of character c
          FoldClass,   \* sets of runes that differ in case only
          NormalName,  \* NormalName[c]: the property name c as an identifier
          Table        \* Table[name]: the ranges <<low, high, stride>> of package unicode

SeqExt == INSTANCE SequencesExt

ASCII   == 0..127
MaxRune == 1114111

\* External (unicode/utf8): surrogates have no encoding.
ValidRune(r) == r \in 0..55295 \/ r \in 57344..MaxRune

Continuation(r, shift) == 128 + ((r \div shift) % 64)

\* External (unicode/utf8): the bytes of a rune.
EncodeRune(r) ==
  IF r < 128 THEN <<r>>
  ELSE IF r < 2048 THEN <<192 + r \div 64, Continuation(r, 1)>>
  ELSE IF r < 65536 THEN <<224 + r \div 4096, Continuation(r, 64), Continuation(r, 1)>>
  ELSE <<240 + r \div 262144, Continuation(r, 4096), Continuation(r, 64), Continuation(r, 1)>>

\* External (unicode.SimpleFold): the runes that differ from r in case, and r.
Folds(r) == {r} \cup UNION {S \in FoldClass : r \in S}

RECURSIVE Ascending(_)
Ascending(S) ==
  IF S = {} THEN <<>> ELSE LET low == Min(S) IN <<low>> \o Ascending(S \ {low})

\* The nodes of parts one after the other, and any one of them: from the left.
RECURSIVE SeqNode(_)
SeqNode(parts) ==
  IF parts = <<>> THEN Empty
  ELSE IF Len(parts) = 1 THEN parts[1]
  ELSE NewConcat(SeqNode(SeqExt!Front(parts)), SeqExt!Last(parts))

RECURSIVE UnionNodes(_)
UnionNodes(parts) ==
  IF parts = <<>> THEN False
  ELSE IF Len(parts) = 1 THEN parts[1]
  ELSE NewUnion(UnionNodes(SeqExt!Front(parts)), SeqExt!Last(parts))

LowerBytes(bs) == SeqNode([i \in DOMAIN bs |-> Lit(bs[i])])

LowerRune(r) == LowerBytes(EncodeRune(r))

Nodes(runes) == LET rs == Ascending(runes) IN [i \in DOMAIN rs |-> LowerRune(rs[i])]

----------------------------------------------------------------------------
(* Sets of runes.                                                          *)

\* The shapes of the encodings of more than one byte: no overlong ones, no
\* surrogates, nothing above MaxRune.
Tail80 == 128..191
Shapes ==
  << <<194..223, Tail80>>,
     <<{224}, 160..191, Tail80>>, <<225..236, Tail80, Tail80>>,
     <<{237}, 128..159, Tail80>>, <<238..239, Tail80, Tail80>>,
     <<{240}, 144..191, Tail80, Tail80>>, <<241..243, Tail80, Tail80, Tail80>>,
     <<{244}, 128..143, Tail80, Tail80>> >>

AnyRune(excludeNewline) ==
  UnionNodes(<<ByteClass(IF excludeNewline THEN ASCII \ {Newline} ELSE ASCII)>> \o
             [i \in DOMAIN Shapes |->
                SeqNode([j \in DOMAIN Shapes[i] |-> ByteClass(Shapes[i][j])])])

\* The tree of a trie of encodings, byte by byte in ascending order.
RECURSIVE TrieNode(_)
TrieNode(S) ==
  LET firsts == Ascending({s[1] : s \in S \ {<<>>}})
  IN  UnionNodes((IF <<>> \in S THEN <<Empty>> ELSE <<>>) \o
                 [k \in DOMAIN firsts |->
                    NewConcat(Lit(firsts[k]),
                              TrieNode({Tail(s) : s \in {t \in S : t # <<>> /\ t[1] = firsts[k]}}))])

RunesNode(S) == TrieNode({EncodeRune(r) : r \in {x \in S : ValidRune(x)}})

Strided(range) == {r \in range[1]..range[2] : (r - range[1]) % range[3] = 0}

\* A range without gaps is one trie; one with gaps has a trie for each rune.
RuneTable(ranges) ==
  UnionNodes(SeqExt!FlattenSeq(
    [k \in DOMAIN ranges |->
       LET runes == Ascending(Strided(ranges[k]))
       IN  IF ranges[k][3] = 1 THEN <<RunesNode(Strided(ranges[k]))>>
           ELSE [i \in DOMAIN runes |-> RunesNode({runes[i]})]]))

RuneTables(tables) ==
  RunesNode(UNION {UNION {Strided(t[k]) : k \in DOMAIN t} : t \in tables})

----------------------------------------------------------------------------
(* Unicode properties.                                                     *)

\* The tables a normalised name stands for.  All numbers are digits here and all
\* separators are white space.
NamedTable ==
  [l |-> "Letter", letter |-> "Letter", lu |-> "Upper", uppercaseletter |-> "Upper",
   ll |-> "Lower", lowercaseletter |-> "Lower",
   lt |-> "Title", titlecaseletter |-> "Title", titlecase |-> "Title",
   lm |-> "Lm", modifierletter |-> "Lm", lo |-> "Lo", otherletter |-> "Lo",
   m |-> "Mark", mark |-> "Mark", mn |-> "Mn", mc |-> "Mc", me |-> "Me",
   nd |-> "Digit", digit |-> "Digit", number |-> "Digit", n |-> "Digit",
   nl |-> "Nl", no |-> "No",
   z |-> "White_Space", zs |-> "White_Space", zl |-> "White_Space", zp |-> "White_Space",
   whitespace |-> "White_Space", space |-> "White_Space", pc |-> "Pc"]

LowerOrUpper == {"llorlu", "lowerorupper", "lowercaseoruppercase"}
JoinControl  == << <<8204, 8205, 1>> >>

\* Package unicode may have a table of the property, besides that of the category.
Uppercase == Table[IF "Uppercase" \in DOMAIN Table THEN "Uppercase" ELSE "Upper"]
Lowercase == Table[IF "Lowercase" \in DOMAIN Table THEN "Lowercase" ELSE "Lower"]

\* The ranges of a property; those of an unknown name are none.
RangesOf(name) ==
  CASE name = "uppercase"   -> Uppercase
    [] name = "lowercase"   -> Lowercase
    [] name = "joincontrol" -> JoinControl
    [] name \in DOMAIN NamedTable -> Table[NamedTable[name]]
    [] OTHER -> IF name \in DOMAIN Table THEN Table[name] ELSE <<>>

\* The property an escape names.
UnicodeProperty(name) ==
  IF name \in LowerOrUpper THEN RuneTables({Lowercase, Uppercase, Table["Title"]})
  ELSE RuneTable(RangesOf(name))

\* Mutant: any bytes but those of the set, a part of a rune or several runes.
AnythingBut(node) == NewComplement(node)

\* One rune that is not in the set.
OtherRune(node) == NewIntersect(AnyRune(FALSE), NewComplement(node))

\* \d and its like when (?u) is on, the capitals being what the others are not.
EscapeProperties ==
  [d |-> <<"nd">>, s |-> <<"whitespace">>, w |-> <<"l", "m", "n", "pc", "joincontrol">>,
   D |-> <<"nd">>, S |-> <<"whitespace">>, W |-> <<"l", "m", "n", "pc", "joincontrol">>]

OneRune(node, inverted) == IF inverted THEN OtherRune(node) ELSE node

UnicodeEscape(c) ==
  LET names == EscapeProperties[c]
  IN  OneRune(UnionNodes([i \in DOMAIN names |-> UnicodeProperty(names[i])]),
              c \in {"D", "S", "W"})

----------------------------------------------------------------------------
(* Perl classes, which are about bytes (compiler.go).                      *)

PerlClass == {"d", "D", "s", "S", "w", "W"}
Upper == 65..90
Lower == 97..122

PerlBytes(c) ==
  CASE c = "d" -> 48..57
    [] c = "s" -> {9, 10, 13, 32}
    [] c = "w" -> Lower \cup Upper \cup 48..57 \cup {95}
    [] c = "D" -> 0..255 \ 48..57
    [] c = "S" -> 0..255 \ {9, 10, 13, 32}
    [] c = "W" -> 0..255 \ (Lower \cup Upper \cup 48..57 \cup {95})

----------------------------------------------------------------------------
(* Literals.                                                               *)

Control == [n |-> 10, r |-> 13, t |-> 9, v |-> 11, f |-> 12, a |-> 7]

EscapedRune(c) == IF c \in DOMAIN Control THEN Control[c] ELSE Rune[c]

\* The other case of a letter of ASCII.
ASCIIFolds(r) ==
  {r} \cup (IF r \in Lower THEN {r - 32} ELSE {}) \cup (IF r \in Upper THEN {r + 32} ELSE {})

LiteralRune(r, flags) ==
  UnionNodes(IF ~flags.caseInsensitive THEN <<LowerRune(r)>>
             ELSE IF flags.unicodeMode THEN Nodes(Folds(r))
             ELSE <<LowerRune(r)>> \o Nodes(ASCIIFolds(r) \ {r}))

----------------------------------------------------------------------------
(* Classes.  A part of a class adds bytes and nodes to it; last is the      *)
(* index of its last character.                                            *)

Part(bytes, nodes, last) == [bytes |-> bytes, nodes |-> nodes, last |-> last]

\* What runes add when case is ignored.  Without (?u) those outside ASCII add nothing.
RunesFolded(runes, flags, last) ==
  LET folds == UNION {IF flags.unicodeMode THEN Folds(r) ELSE ASCIIFolds(r) : r \in runes}
  IN  Part(folds \cap ASCII, IF flags.unicodeMode THEN Nodes(folds \ ASCII) ELSE <<>>, last)

Atom(node, last) == [node |-> node, last |-> last]

\* The escape at cs[i].  A property whose brace is not closed is the literal p.
EscapedToken(cs, i) ==
  LET c        == cs[i + 1]
      property == c \in {"p", "P"} /\ i + 2 <= Len(cs)
      braced   == property /\ cs[i + 2] = "{"
      closing  == {j \in i + 3 .. Len(cs) : cs[j] = "}"}
      Named(k, last) == Atom(OneRune(UnicodeProperty(NormalName[cs[k]]), c = "P"), last)
  IN  CASE c \in PerlClass             -> Atom(Class(PerlBytes(c)), i + 1)
        [] braced /\ closing # {}      -> Named(i + 3, Min(closing))
        [] property /\ ~braced         -> Named(i + 2, i + 2)
        [] OTHER                       -> Atom(LowerRune(EscapedRune(c)), i + 1)

IsEscape(cs, i) == cs[i] = "\\" /\ i < Len(cs)

ClassAtom(cs, i) == IF IsEscape(cs, i) THEN EscapedToken(cs, i) ELSE Atom(LowerRune(Rune[cs[i]]), i)

\* The rune of the same character as an end of a range, where \d is a d.
AtomLast(cs, i) == IF IsEscape(cs, i) THEN i + 1 ELSE i
AtomRune(cs, i) == IF IsEscape(cs, i) THEN EscapedRune(cs[i + 1]) ELSE Rune[cs[i]]

BeginsRange(cs, i) == AtomLast(cs, i) + 2 <= Len(cs) /\ cs[AtomLast(cs, i) + 1] = "-"

\* A range whose ends are in the wrong order is turned round.
RangePart(r1, r2, last, flags) ==
  LET runes == IF r1 < r2 THEN r1..r2 ELSE r2..r1
  IN  IF flags.caseInsensitive THEN RunesFolded(runes, flags, last)
      ELSE IF runes \subseteq ASCII THEN Part(runes, <<>>, last)
      ELSE Part({}, <<RunesNode(runes)>>, last)

AtomPart(atom, flags) ==
  IF atom.node[1] # "Lit" THEN Part({}, <<atom.node>>, atom.last)
  ELSE IF flags.caseInsensitive THEN RunesFolded({atom.node[2]}, flags, atom.last)
  ELSE Part({atom.node[2]}, <<>>, atom.last)

\* What begins at cs[i], a range or an atom.
ClassPart(cs, i, flags) ==
  LET to == AtomLast(cs, i) + 2
  IN  IF BeginsRange(cs, i)
      THEN RangePart(AtomRune(cs, i), AtomRune(cs, to), AtomLast(cs, to), flags)
      ELSE AtomPart(ClassAtom(cs, i), flags)

RECURSIVE AllParts(_, _, _)
AllParts(cs, flags, p) ==
  IF p.last >= Len(cs) THEN p
  ELSE LET q == ClassPart(cs, p.last + 1, flags)
       IN  AllParts(cs, flags, Part(p.bytes \cup q.bytes, p.nodes \o q.nodes, q.last))

\* A class with nothing in it matches nothing, even when it is negated.
ClassNode(p, negate) ==
  IF p.bytes = {} /\ p.nodes = <<>> THEN False
  ELSE OneRune(UnionNodes(p.nodes \o (IF p.bytes = {} THEN <<>> ELSE <<ByteClass(p.bytes)>>)),
               negate)

\* A class whose text begins with a braced property is that property alone, and the
\* literal p alone if the brace is not closed.
IsProperty(cs) == Len(cs) > 2 /\ cs[1] = "\\" /\ cs[2] \in {"p", "P"} /\ cs[3] = "{"

CharClass(cs, flags) ==
  LET negate == cs # <<>> /\ cs[1] = "^"
  IN  IF IsProperty(cs) THEN EscapedToken(cs, 1).node
      ELSE ClassNode(AllParts(cs, flags, Part({}, <<>>, IF negate THEN 1 ELSE 0)), negate)

=============================================================================
