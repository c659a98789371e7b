---------------------------- MODULE MCConcurrent ----------------------------
(***************************************************************************)
(* Two goroutines that share an engine.                                    *)
(***************************************************************************)
EXTENDS Concurrent, MCTrees

CONSTANT Exprs

A == Lit(97)
B0 == Lit(98)
C0 == Lit(99)

\* One with a literal prefix, one without, and one that never takes the fast path.
Shared ==
  <<NewConcat(A, NewConcat(Star(C0), B0)),
    NewUnion(NewConcat(A, NewConcat(B0, C0)), B0),
    NewConcat(WordBoundary(FALSE), NewConcat(A, B0))>>

SharedQuestions ==
  {<<"Match", <<97, 98>>, 0>>, <<"FindStringIndex", <<99, 97, 98>>, 0>>,
   <<"findStringIndexFrom", <<97, 98, 97, 98>>, 2>>}

\* The unanchored automaton counts to one and fits in the limit; the reversed
\* one remembers which of the last bytes were an a, and does not.
Outgrown == <<NewConcat(Class({97, 98}), NewConcat(A, Star(Class({97, 98}))))>>

OutgrownQuestions ==
  {<<"FindStringIndex", <<97, 97>>, 0>>, <<"FindStringIndex", <<98, 97>>, 0>>}

MCInput == {q[2] : q \in Question}

Bytes    == UNION {{s[i] : i \in DOMAIN s} : s \in MCInput}
Contexts == ContextsOf(Exprs, MCInput)
Matched  == SpanTable(Exprs, MCInput)
T        == Tables(RootsOf(Exprs), Bytes, Contexts, 3, Exprs, {})

\* In the run's report of what each expression cost, TLC unfolds a constant
\* wherever it is used; behind a LET it does not, and the report fits in memory.
MCByte      == LET bytes == Bytes IN bytes
MCContext   == LET contexts == Contexts IN contexts
MCTree      == LET t == T IN DOMAIN t.trees
MCFalseTree == 1
MCDeriv     == LET t == T IN t.deriv
MCNull      == LET t == T IN t.null
MCMask      == LET t == T IN t.mask
MCFP        == LET t == T IN t.fp
MCCompiled  == LET t == T IN t.compiled
MCSpans     == LET spans == Matched IN spans
MCMaxLen    == LET lengths == {Len(s) : s \in MCInput} IN Max(lengths)

\* The filters lose no match here: what is proved of expressions with such filters
\* is proved of these.
ASSUME FiltersAssumption == \A n \in Expression : FiltersKeepMatches(n)

=============================================================================
