------------------------------- MODULE LazyDFA -------------------------------
(***************************************************************************)
(* The type lazyDFA of compiler.go and its methods, as operators on a      *)
(* record.  Several components hold such records: a search drives three,   *)
(* a concurrent engine shares them between goroutines.                     *)
(*                                                                         *)
(* States are numbered from 1, as TLA+ sequences are: state 1 is the       *)
(* code's 0, state 2 its deadStateID 1, and 0 in a row is the code's -1.   *)
(* A matchContext is the set of the facts true in it (MatchContext.tla),   *)
(* and the code's requiredCtxMask[s], computed once from the state's tree, *)
(* is Mask of that tree.                                                   *)
(*                                                                         *)
(* What the automaton needs of the syntax trees comes as constants, so     *)
(* that what is proved holds for every algebra of trees that satisfies the *)
(* assumptions; the model-checked instances take the trees of Ast.tla.     *)
(***************************************************************************)
EXTENDS Integers, Sequences

CONSTANTS
  Tree,       \* syntax trees
  FalseTree,  \* the tree that matches nothing
  Minterm,    \* classes of bytes no tree tells apart
  Context,    \* the contexts positions may have, sets of facts
  Deriv,      \* Deriv[t][m][c]: derivative of t by a byte of m in context c
  Null,       \* Null[t][c]: is t nullable in context c?
  Mask,       \* Mask[t]: the facts t may ask about
  FP,         \* FP[t]: fingerprint of t; equal for equal trees, and for some others
  maxLazyDFAStates

NoFacts == {}

ASSUME TreeAssumption ==
  /\ FalseTree \in Tree
  /\ NoFacts \in Context
  /\ Deriv \in [Tree -> [Minterm -> [Context -> Tree]]]
  /\ Null \in [Tree -> [Context -> BOOLEAN]]
  /\ FP \in [Tree -> Nat]
  /\ DOMAIN Mask = Tree
  /\ maxLazyDFAStates \in Nat

\* The derivative of False is False, and it accepts nothing.
ASSUME FalseAssumption ==
  /\ \A m \in Minterm, c \in Context : Deriv[FalseTree][m][c] = FalseTree
  /\ \A c \in Context : Null[FalseTree][c] = FALSE

\* A tree depends on its context through its mask only (Derivatives!MaskIsEnough
\* checks that the code's trees do).
ASSUME MaskAssumption ==
  \A t \in Tree, c, d \in Context :
    c \cap Mask[t] = d \cap Mask[t] =>
      /\ Null[t][c] = Null[t][d]
      /\ \A m \in Minterm : Deriv[t][m][c] = Deriv[t][m][d]

RootState == 1
DeadState == 2
Uncached  == 0
NoState   == 0

----------------------------------------------------------------------------
(* The steps in which the code adds a state, in their order.  Each slice    *)
(* grows by one assignment of its own.                                      *)

EmptyRow == [m \in Minterm |-> Uncached]
DeadRow  == [m \in Minterm |-> DeadState]

\* Mutants: the match bit of a new state left at its zero value; the row of a
\* new state left to be made on demand.
AppendNoMatch(d, b) == [d EXCEPT !.isMatch = Append(@, FALSE)]
AppendNoRow(d)      == d

AppendTree(d, t)  == [d EXCEPT !.asts = Append(@, t)]
AppendMatch(d, b) == [d EXCEPT !.isMatch = Append(@, b)]
AppendRow(d)      == [d EXCEPT !.rows = Append(@, EmptyRow)]

\* Mutant: the state indexed under the fingerprint of another tree.
IndexUnderFalse(d, s) == [d EXCEPT !.index[FP[FalseTree]] = @ \cup {s}]

IndexState(d, s) == [d EXCEPT !.index[FP[d.asts[s]]] = @ \cup {s}]

NewState(d, t, c) ==
  LET s == Len(d.asts) + 1
  IN  AppendRow(AppendMatch(IndexState(AppendTree(d, t), s), Null[t][c]))

NewLazyDFA(root) ==
  LET empty == [asts    |-> <<root, FalseTree>>,
                isMatch |-> <<Null[root][NoFacts], FALSE>>,
                rows    |-> <<EmptyRow, DeadRow>>,
                masked  |-> [key \in {} |-> Uncached],
                index   |-> [f \in {FP[t] : t \in Tree} |-> {}]]
  IN  IndexState(IndexState(empty, RootState), DeadState)

----------------------------------------------------------------------------

\* Mutants: the bucket's first entry taken without comparing the trees; a
\* bucket searched no further than its first entry.
LookupByFingerprint(d, t) ==
  LET hits == d.index[FP[t]]
  IN  IF hits = {} THEN NoState
      ELSE CHOOSE s \in hits : \A r \in hits : s <= r

LookupFirstOnly(d, t) ==
  LET s == LookupByFingerprint(d, t)
  IN  IF s # NoState /\ d.asts[s] = t THEN s ELSE NoState

\* The first state of the bucket, in the order of insertion, that holds t.
LookupState(d, t) ==
  LET hits == {s \in d.index[FP[t]] : d.asts[s] = t}
  IN  IF hits = {} THEN NoState
      ELSE CHOOSE s \in hits : \A r \in hits : s <= r

\* Mutant: one cache row for all contexts.
CachedInDenseRow(d, s, k, m) == d.rows[s][m]

\* The cached successor: the dense row serves the contexts of which the state
\* asks nothing, a row per masked context the others.
CachedNext(d, s, k, m) ==
  IF k = NoFacts THEN d.rows[s][m]
  ELSE IF <<s, k, m>> \in DOMAIN d.masked THEN d.masked[<<s, k, m>>]
  ELSE Uncached

SetNext(d, s, k, m, to) ==
  IF k = NoFacts THEN [d EXCEPT !.rows[s][m] = to]
  ELSE [d EXCEPT !.masked =
          [key \in DOMAIN d.masked \cup {<<s, k, m>>} |->
             IF key = <<s, k, m>> THEN to ELSE d.masked[key]]]

\* Mutant: the limit missed by one.
HasRoomOffByOne(d) == Len(d.asts) <= maxLazyDFAStates

HasRoom(d) == Len(d.asts) < maxLazyDFAStates

\* Mutant: the cache emptied at the limit, as RE2 does.
FlushAtLimit(d, s, k, m) == [dfa |-> NewLazyDFA(d.asts[RootState]), to |-> DeadState]

\* At the limit the successor is the dead state; only the dense path caches it.
LoseNext(d, s, k, m) ==
  [dfa |-> IF k = NoFacts THEN SetNext(d, s, k, m, DeadState) ELSE d,
   to  |-> DeadState]

\* Mutant: the derivative of the masked path taken in the empty context.
NoContextSeen(k, c) == NoFacts

\* The context the derivative is taken in.
ContextSeen(k, c) == IF k = NoFacts THEN NoFacts ELSE c

\* The successor computed from the tree: an existing state with that tree, a
\* new one while there is room.
ComputeNext(d, s, m, c, k) ==
  LET seen == ContextSeen(k, c)
      t    == Deriv[d.asts[s]][m][seen]
      old  == LookupState(d, t)
      new  == Len(d.asts) + 1
  IN  IF old # NoState THEN [dfa |-> SetNext(d, s, k, m, old), to |-> old]
      ELSE IF ~HasRoom(d) THEN LoseNext(d, s, k, m)
      ELSE [dfa |-> SetNext(NewState(d, t, seen), s, k, m, new), to |-> new]

GetNextState(d, s, m, c) ==
  IF s = DeadState \/ s > Len(d.rows) THEN [dfa |-> d, to |-> DeadState]
  ELSE LET k  == c \cap Mask[d.asts[s]]
           to == CachedNext(d, s, k, m)
       IN  IF to # Uncached THEN [dfa |-> d, to |-> to]
           ELSE ComputeNext(d, s, m, c, k)

\* Mutant: a transition not computed yet taken for the dead state.
UncachedIsDead(d, s, m, c) ==
  IF s \in 1..Len(d.rows) /\ d.rows[s][m] # Uncached THEN d.rows[s][m] ELSE DeadState

\* The read-only lookup of the fast path; Uncached when it cannot answer.
GetNextStateCached(d, s, m, c) ==
  IF s = DeadState THEN DeadState
  ELSE IF c # NoFacts \/ s \notin 1..Len(d.rows) THEN Uncached
  ELSE d.rows[s][m]

IsAccepting(d, s) == s \in 1..Len(d.isMatch) /\ d.isMatch[s]

IsAcceptingWithContext(d, s, c) == s \in 1..Len(d.asts) /\ Null[d.asts[s]][c]

=============================================================================
