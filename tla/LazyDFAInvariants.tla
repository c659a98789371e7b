------------------------- MODULE LazyDFAInvariants -------------------------
(***************************************************************************)
(* What is true of a lazyDFA d whenever no method of it is running.        *)
(* Everything that holds an automaton, for one caller or for many, relies  *)
(* on these facts.                                                         *)
(***************************************************************************)
EXTENDS LazyDFA

State(d) == 1..Len(d.asts)
Prints == {FP[t] : t \in Tree}
Known(d) == {d.asts[s] : s \in State(d)}

\* A lazyDFA has these slices and maps and no others.
IsLazyDFA(d) ==
  d = [asts |-> d.asts, isMatch |-> d.isMatch, rows |-> d.rows,
       masked |-> d.masked, index |-> d.index]

\* The three slices a state number indexes have one length, and state 1 is the
\* dead one.
WellFormed(d) ==
  /\ IsLazyDFA(d)
  /\ d.asts \in Seq(Tree)
  /\ Len(d.asts) >= 2
  /\ d.isMatch \in Seq(BOOLEAN)
  /\ d.rows \in Seq([Minterm -> {Uncached} \cup State(d)])
  /\ Len(d.isMatch) = Len(d.asts)
  /\ Len(d.rows) = Len(d.asts)
  /\ d.masked \in [DOMAIN d.masked -> State(d)]
  /\ \A key \in DOMAIN d.masked : key[1] \in State(d)
  /\ d.index \in [Prints -> SUBSET State(d)]
  /\ d.asts[DeadState] = FalseTree
  /\ d.rows[DeadState] = DeadRow

\* Every state is in the bucket of its tree's fingerprint, and nowhere else.
Indexed(d) ==
  \A f \in Prints :
    d.index[f] = {s \in State(d) : FP[d.asts[s]] = f}

\* No tree is a state twice; but for the root of an expression that is False
\* itself, which is state 0 beside state 1.
Distinct(d) ==
  \A r, s \in State(d) :
    d.asts[r] = d.asts[s] => r = s \/ {r, s} = {RootState, DeadState}

\* A successor that is right for tree t, or lost at the limit for good.
Successor(d, to, t) ==
  \/ d.asts[to] = t
  \/ to = DeadState /\ ~HasRoom(d) /\ t \notin Known(d)

RowsRight(d) ==
  \A s \in State(d), m \in Minterm :
    d.rows[s][m] # Uncached =>
      Successor(d, d.rows[s][m], Deriv[d.asts[s]][m][NoFacts])

MaskedRight(d) ==
  \A key \in DOMAIN d.masked, c \in Context :
    LET t == d.asts[key[1]]
    IN  c \cap Mask[t] = key[2] => d.asts[d.masked[key]] = Deriv[t][key[3]][c]

MatchRight(d) ==
  \A s \in State(d) :
    Mask[d.asts[s]] = NoFacts => d.isMatch[s] = Null[d.asts[s]][NoFacts]

\* The root and the dead state are always there.
WithinLimit(d) == Len(d.asts) <= maxLazyDFAStates \/ Len(d.asts) = 2

Sound(d) ==
  /\ WellFormed(d)
  /\ Indexed(d)
  /\ Distinct(d)
  /\ RowsRight(d)
  /\ MaskedRight(d)
  /\ MatchRight(d)
  /\ WithinLimit(d)

\* From d to e a state number keeps its tree and its match bit, a cached
\* transition its target.
Grows(d, e) ==
  /\ Len(d.asts) <= Len(e.asts)
  /\ \A s \in State(d) :
       /\ e.asts[s] = d.asts[s]
       /\ e.isMatch[s] = d.isMatch[s]
       /\ \A m \in Minterm : d.rows[s][m] # Uncached => e.rows[s][m] = d.rows[s][m]
  /\ \A key \in DOMAIN d.masked :
       key \in DOMAIN e.masked /\ e.masked[key] = d.masked[key]

\* What a byte of whose class the derivative is t does to the states: t is
\* reached, or learned, or lost.
Moves(d, e, to, t) ==
  \/ t \in Known(d) /\ e.asts = d.asts /\ to \in State(d) /\ d.asts[to] = t
  \/ /\ t \notin Known(d) /\ HasRoom(d)
     /\ e.asts = Append(d.asts, t) /\ to = Len(d.asts) + 1
  \/ t \notin Known(d) /\ ~HasRoom(d) /\ e.asts = d.asts /\ to = DeadState

=============================================================================
