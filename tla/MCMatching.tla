----------------------------- MODULE MCMatching -----------------------------
(***************************************************************************)
(* The automaton over the trees of Ast.tla: expressions whose automata fit *)
(* in the limit and that do not, with anchors and without, and False.      *)
(***************************************************************************)
EXTENDS Matching, MCTrees

A == Lit(97)
B0 == Lit(98)
MCByte == {97, 98}

\* The contexts of a few positions, and the one of the loops that pass none.
MCContext ==
  {NoContext, MakeMatchContext(<<97>>, 0), MakeMatchContext(<<97, 98>>, 1),
   MakeMatchContext(<<97, Newline>>, 1)}

Expressions ==
  {False,
   NewConcat(Star(NewUnion(A, B0)), NewConcat(A, B0)),
   NewConcat(Star(AnyByte), NewRepeat(A, 2, 3)),
   NewUnion(NewConcat(Start, NewConcat(A, B0)), NewConcat(B0, End)),
   NewConcat(WordBoundary(FALSE), NewConcat(NewUnion(A, Empty), Star(B0)))}

T == Tables(Expressions, Byte, MCContext, FpMod, <<>>, {})

\* In the run's report of what each expression cost, TLC unfolds a constant
\* wherever it is used; behind a LET it does not, and the report fits in memory.
MCTree      == LET t == T IN DOMAIN t.trees
MCFalseTree == 1
MCRoots     == LET t == T IN {Number(t.trees, x) : x \in Expressions}
MCDeriv     == LET t == T IN t.deriv
MCNull      == LET t == T IN t.null
MCMask      == LET t == T IN t.mask
MCFP        == LET t == T IN t.fp

=============================================================================
