---------------------------- MODULE MCDerivatives ----------------------------
(***************************************************************************)
(* Every expression of depth two over a few leaves and anchors, and those  *)
(* of depth three whose outer operator is a union or a concatenation, each *)
(* read on short inputs of ASCII letters, a newline and the bytes of one   *)
(* two-byte letter.                                                        *)
(***************************************************************************)
EXTENDS Derivatives

A == 97
B == 98
EAcute == <<195, 169>>

MCByte == {A, B, 45, Newline, 195, 169}

Atoms == {Empty, Lit(A), Class({A, B}), Start, End, WordBoundary(FALSE)}

MoreAtoms == {Any, AnyByte, BeginText, EndText, EndTextOptionalNewline,
              WordBoundary(TRUE), NotWordBoundary(TRUE), NotWordBoundary(FALSE)}

Unary(S) ==
  UNION {{Star(x), NewComplement(x), NewRepeat(x, 0, 2), NewRepeat(x, 1, 2),
          NewRepeat(x, 2, 3), Group(1, x)} : x \in S}

Pairs(S, T) ==
  UNION {{NewUnion(x, y), NewConcat(x, y), NewIntersect(x, y)} : x \in S, y \in T}

Depth2 == Atoms \cup MoreAtoms \cup Unary(Atoms) \cup Pairs(Atoms, Atoms)

Depth3 ==
  LET S == {Lit(A), Class({A, B}), Start, End, Star(Lit(B)), NewRepeat(Lit(A), 0, 2)}
  IN  Unary(Pairs(S, Atoms)) \cup Pairs(Pairs(S, Atoms), S)

\* With the prefix of a search, which may read a newline and go on.
MCTerms == Depth2 \cup Depth3 \cup {Unanchored(n) : n \in Depth2}

MCWords ==
  {<<>>, <<A>>, <<10>>, <<A, B>>, <<A, 10>>, <<10, A>>, EAcute, <<A, A, 10>>,
   <<A, 45, B>>, <<A, 10, A>>, EAcute \o <<A>>, <<45>> \o EAcute, <<B, A, A>>, <<A, B, A, 10>>}

=============================================================================
