------------------------------ MODULE MCTrees ------------------------------
(***************************************************************************)
(* The trees of Ast.tla as values for the constants of LazyDFA.tla.  They  *)
(* are numbered, since TLC looks a number up faster than a tree; a list of *)
(* trees is closed under derivatives and begins with False.                *)
(***************************************************************************)
EXTENDS Compiler, Language

\* The contexts that a derivative of t may depend on.
FactsAsked(t, contexts) == IF ContainsAssertions(t) THEN contexts ELSE {NoContext}

\* All derivatives of the trees of todo, in the order in which they are found.
RECURSIVE Closure(_, _, _, _)
Closure(todo, done, bytes, contexts) ==
  IF todo = {} THEN done
  ELSE LET t    == CHOOSE x \in todo : TRUE
           more == Append(done, t)
           new  == {Derivative(t, b, c) : b \in bytes, c \in FactsAsked(t, contexts)}
       IN  Closure((todo \cup new) \ {more[i] : i \in DOMAIN more},
                   more, bytes, contexts)

TreesOf(roots, bytes, contexts) ==
  Closure(roots \ {False}, <<False>>, bytes, contexts)

Number(trees, t) == CHOOSE i \in DOMAIN trees : trees[i] = t

\* TLC keeps a function as the rule it was defined by, and applies the rule
\* anew at each use, until it has compared the function with another one.
Tabulated(S) == CHOOSE f \in S : f = f

\* The constants of LazyDFA.tla, and the compiled expressions, over numbered
\* trees.  The automata's buckets may collide more often than the fingerprints
\* that sort operands: a sort that left too much undecided would let the
\* derivatives of an expression grow without end.
Tables(roots, bytes, contexts, buckets, exprs, keys) ==
  Tabulated({[
    trees |-> trees,
    deriv |-> [i \in DOMAIN trees |-> [b \in bytes |->
                 LET next == [c \in FactsAsked(trees[i], contexts) |->
                                LET d == Derivative(trees[i], b, c) IN Number(trees, d)]
                     all  == Tabulated({next})
                 IN  [c \in contexts |-> IF c \in DOMAIN all THEN all[c] ELSE all[NoContext]]]],
    null  |-> [i \in DOMAIN trees |-> [c \in contexts |-> Nullable(trees[i], c)]],
    mask  |-> [i \in DOMAIN trees |-> RequiredContextMask(trees[i])],
    fp    |-> [i \in DOMAIN trees |-> FingerPrint(trees[i]) % buckets],
    compiled |->
      [k \in DOMAIN exprs |->
         LET c == Compile(exprs[k], k \in keys)
         IN  [c EXCEPT !.forward = Number(trees, @), !.unanchored = Number(trees, @),
                       !.reverse = Number(trees, @)]]] :
    trees \in {TreesOf(roots, bytes, contexts)}})

RootsOf(exprs) ==
  UNION {{exprs[k], Unanchored(exprs[k]), Reverse(exprs[k])} : k \in DOMAIN exprs}

\* The contexts a search may ask in: those of the texts' positions, and those of
\* the second pass at the end of a match.
ContextsOf(exprs, texts) ==
  {NoContext, {"AtStart"}, {"AtStart", "AtEnd"}} \cup
  (IF \E k \in DOMAIN exprs : ContainsAssertions(exprs[k])
   THEN UNION {{MakeMatchContext(s, i) : i \in 0..Len(s)} : s \in texts} ELSE {})

SpanTable(exprs, texts) ==
  Tabulated({[k \in DOMAIN exprs |-> [s \in inputs |->
    {x \in (0..Len(s)) \X (0..Len(s)) : x[1] <= x[2] /\ Matches(exprs[k], s, x[1], x[2])}]] :
    inputs \in {texts}})

=============================================================================
