------------------------------ MODULE Compiler ------------------------------
(***************************************************************************)
(* What compile (compiler.go) makes of a parsed tree: the classes of bytes *)
(* no node tells apart, the roots of the three automata, and the filters   *)
(* with which a search skips ahead.  Strings are sequences of bytes.       *)
(***************************************************************************)
EXTENDS Ast

CONSTANT Byte   \* the byte values, 0..255 in the code

SeqExt == INSTANCE SequencesExt

maxPrefixAnyClassSize == 8

----------------------------------------------------------------------------
(* Minterms.                                                               *)

\* Mutant: a character class taken to tell no bytes apart.
NoClassPredicate(n) == IF n[1] = "Lit" THEN {{n[2]}} ELSE {}

\* The predicate of a node that reads one byte, as the set of bytes it reads.
LeafPredicate(n) ==
  IF n[1] \in {"False", "Empty", "Tag"} THEN {} ELSE {{b \in Byte : Reads(n, b)}}

RECURSIVE ExtractPredicates(_)
ExtractPredicates(n) ==
  CASE n[1] \in Leaf   -> LeafPredicate(n)
    [] n[1] \in Wrap   -> ExtractPredicates(Child(n))
    [] n[1] \in Binary -> ExtractPredicates(n[2]) \cup ExtractPredicates(n[3])
    [] OTHER           -> {}

\* ByteToClass, a class being named by the byte that stands for it in
\* ClassToByte: the classes are split predicate by predicate and never
\* reordered inside, so that is the least byte of the class.
MintermTable(n) ==
  LET preds == ExtractPredicates(n)
  IN  [b \in Byte |-> Min({d \in Byte : \A p \in preds : (d \in p) = (b \in p)})]

----------------------------------------------------------------------------
(* Filters.                                                                *)

RECURSIVE IsExactLiteral(_)
IsExactLiteral(n) ==
  \/ n[1] = "Lit"
  \/ n[1] = "Concat" /\ IsExactLiteral(n[2]) /\ IsExactLiteral(n[3])

\* Mutant: the literal chain followed past a class or an alternation.
FollowAlways(left, n, right) == left \o right

\* The prefix of a concatenation goes on when all of its left side is literal.
ConcatPrefix(left, n, right) == IF IsExactLiteral(n[2]) THEN left \o right ELSE left

RECURSIVE ExtractLiteralPrefix(_)
ExtractLiteralPrefix(n) ==
  CASE n[1] = "Lit"    -> <<n[2]>>
    [] n[1] = "Concat" ->
         ConcatPrefix(ExtractLiteralPrefix(n[2]), n, ExtractLiteralPrefix(n[3]))
    [] n[1] = "Group"  -> ExtractLiteralPrefix(n[3])
    [] n[1] = "Repeat" /\ n[3] > 0 -> ExtractLiteralPrefix(n[2])
    [] OTHER           -> <<>>

DedupeStartClass(str) ==
  SelectSeq([i \in DOMAIN str |-> IF \E j \in 1..i - 1 : str[j] = str[i] THEN -1 ELSE str[i]],
            LAMBDA b : b # -1)

\* Mutant: the union's other branch forgotten.
LeftClassOnly(left, right) == left

UnionStartClass(left, right) ==
  IF <<>> \in {left, right} THEN <<>> ELSE DedupeStartClass(left \o right)

\* The bytes a match may begin with, or <<>> for no filter.
RECURSIVE ExtractStartClass(_)
ExtractStartClass(n) ==
  CASE n[1] = "Lit"    -> <<n[2]>>
    [] n[1] = "Class"  -> IF Cardinality(n[2]) > maxPrefixAnyClassSize THEN <<>> ELSE SeqExt!SetToSortSeq(n[2], <)
    [] n[1] = "Union"  -> UnionStartClass(ExtractStartClass(n[2]), ExtractStartClass(n[3]))
    [] n[1] = "Concat" /\ ~Nullable(n[2], NoContext) -> ExtractStartClass(n[2])
    [] n[1] = "Group"  -> ExtractStartClass(n[3])
    [] n[1] = "Repeat" /\ n[3] > 0 -> ExtractStartClass(n[2])
    [] OTHER           -> <<>>

Quotes == {<<39, 34>>, <<34, 39>>}
LetterA == 65

\* keys: does the text of the expression mention both ASIA and AKIA?
ExtractEarlyByteGate(prefixAny, keys) ==
  IF prefixAny \in Quotes /\ keys THEN [byte |-> LetterA, offset |-> 1]
  ELSE [byte |-> 0, offset |-> 0]

Unanchored(n) == NewConcat(Star(AnyByte), n)

\* The compiled expression; the automata begin with no more than their roots.
Compile(n, keys) ==
  LET prefix    == ExtractLiteralPrefix(n)
      prefixAny == IF prefix = <<>> THEN ExtractStartClass(n) ELSE <<>>
      gate      == ExtractEarlyByteGate(prefixAny, keys)
  IN  [forward |-> n, unanchored |-> Unanchored(n), reverse |-> Reverse(n),
       byteToClass |-> MintermTable(n),
       prefix |-> prefix, prefixAny |-> prefixAny,
       earlyByte |-> gate.byte, earlyLiteralOffset |-> gate.offset,
       hasAssertions |-> ContainsAssertions(n)]

=============================================================================
