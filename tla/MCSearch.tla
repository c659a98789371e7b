------------------------------ MODULE MCSearch ------------------------------
(***************************************************************************)
(* Searches for real expressions in short texts.  A configuration picks    *)
(* the expressions and the texts; the tables follow from the trees.        *)
(***************************************************************************)
EXTENDS Searching, MCTrees

CONSTANT Exprs

A == Lit(97)
B0 == Lit(98)
C0 == Lit(99)
Quote == Class({34, 39})
Key == NewConcat(Lit(65), NewUnion(Lit(75), Lit(83)))
EAcute == NewConcat(Lit(195), Lit(169))
EGrave == NewConcat(Lit(195), Lit(168))

\* No assertions: a literal prefix, a start class, the early-byte gate, no
\* filter, nullable or not, with automata that fit in the limit and with automata
\* that do not.
Plain ==
  <<NewConcat(A, NewConcat(Star(C0), B0)),
    NewUnion(NewConcat(A, B0), B0),
    NewConcat(Star(NewUnion(A, B0)), NewConcat(A, NewUnion(A, B0))),
    Group(1, NewRepeat(A, 2, 3)),
    NewUnion(Star(B0), NewConcat(A, C0)),
    NewUnion(NewConcat(A, Star(NewConcat(B0, NewConcat(C0, C0)))), NewConcat(B0, B0)),
    NewConcat(Quote, Key)>>

PlainTexts ==
  {<<>>, <<97, 98, 99, 99>>, <<98, 98>>, <<97, 97, 98>>, <<97, 97, 97>>, <<99, 97, 99, 98>>,
   <<39, 75, 39, 65, 75>>}

\* The alternative that begins later ends first.
Late == <<NewUnion(NewConcat(A, NewConcat(B0, C0)), B0)>>

LateTexts == {<<97, 98, 99>>, <<99, 97, 98, 99>>}

Anchored ==
  <<NewConcat(A, End), NewUnion(Start, NewConcat(A, End)),
    NewConcat(Start, NewConcat(NewRepeat(Group(1, A), 2, 2), End))>>

AnchoredTexts == {<<>>, <<97>>, <<97, 97>>, <<98, 97>>, <<97, Newline, 97>>}

Mixed      == Plain \o Anchored
MixedTexts == PlainTexts \cup AnchoredTexts

Accented == <<NewUnion(EAcute, EGrave)>>

AccentedTexts == {<<195, 169>>, <<97, 195, 168>>}

Bytes    == UNION {{s[i] : i \in DOMAIN s} : s \in Input} \cup {97}
Contexts == ContextsOf(Exprs, Input)
Matched  == SpanTable(Exprs, Input)
T        == Tables(RootsOf(Exprs), Bytes, Contexts, 3, Exprs, DOMAIN Exprs)

\* In the run's report of what each expression cost, TLC unfolds a constant
\* wherever it is used; behind a LET it does not, and the report fits in memory.
MCByte      == LET bytes == Bytes IN bytes
MCContext   == LET contexts == Contexts IN contexts
MCTree      == LET t == T IN DOMAIN t.trees
MCFalseTree == 1
MCDeriv     == LET t == T IN t.deriv
MCNull      == LET t == T IN t.null
MCMask      == LET t == T IN t.mask
MCFP        == LET t == T IN t.fp
MCCompiled  == LET t == T IN t.compiled
MCTexts     == [n \in DOMAIN Exprs |->
                  IF ContainsAssertions(Exprs[n]) THEN Input \cap AnchoredTexts
                  ELSE Input \ (AnchoredTexts \ PlainTexts)]
MCSpans     == LET spans == Matched IN spans
MCMaxLen    == LET lengths == {Len(s) : s \in Input} IN Max(lengths)

\* But for the accented expressions the filters lose no match here: what is proved
\* of expressions with such filters is proved of these.
ASSUME FiltersAssumption == Exprs # Accented => \A n \in Expression : FiltersKeepMatches(n)

=============================================================================
