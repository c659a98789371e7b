--------------------------- MODULE LazyDFAProofs ---------------------------
(***************************************************************************)
(* Every method of lazyDFA keeps what LazyDFAInvariants.tla says, for all  *)
(* trees, contexts and limits that meet the assumptions of LazyDFA.tla.    *)
(***************************************************************************)
EXTENDS LazyDFAInvariants, TLAPS

\* What one entry does to the index.
LEMMA IndexShape ==
  ASSUME NEW asts, NEW isMatch, NEW rows, NEW masked, NEW index, NEW s
  PROVE  IndexState([asts |-> asts, isMatch |-> isMatch, rows |-> rows,
                     masked |-> masked, index |-> index], s)
         = [asts |-> asts, isMatch |-> isMatch, rows |-> rows, masked |-> masked,
            index |-> [index EXCEPT ![FP[asts[s]]] = @ \cup {s}]]
<1> DEFINE d == [asts |-> asts, isMatch |-> isMatch, rows |-> rows, masked |-> masked,
                 index |-> index]
<1>1. IndexState(d, s)
        = [d EXCEPT !.index = [d.index EXCEPT ![FP[d.asts[s]]] = d.index[FP[d.asts[s]]] \cup {s}]]
  BY Zenon DEF IndexState
<1>2. d.asts = asts /\ d.index = index
  OBVIOUS
<1>3. \A x : [d EXCEPT !.index = x]
             = [asts |-> asts, isMatch |-> isMatch, rows |-> rows, masked |-> masked,
                index |-> x]
  BY SMT
<1> HIDE DEF d
<1>4. IndexState(d, s)
        = [asts |-> asts, isMatch |-> isMatch, rows |-> rows, masked |-> masked,
           index |-> [index EXCEPT ![FP[asts[s]]] = index[FP[asts[s]]] \cup {s}]]
  BY <1>1, <1>2, <1>3, Zenon
<1> QED
  BY <1>4, Zenon DEF d

\* A new automaton is sound: newLazyDFA builds the root, the dead state and
\* their index entries.
LEMMA NewSound ==
  ASSUME NEW root \in Tree
  PROVE  /\ Sound(NewLazyDFA(root))
         /\ NewLazyDFA(root).asts = <<root, FalseTree>>
<1> DEFINE d == NewLazyDFA(root)
           asts == <<root, FalseTree>>
           isMatch == <<Null[root][NoFacts], FALSE>>
           rows == <<EmptyRow, DeadRow>>
           masked == [key \in {} |-> Uncached]
           index0 == [f \in Prints |-> {}]
           index1 == [index0 EXCEPT ![FP[root]] = @ \cup {1}]
           index2 == [index1 EXCEPT ![FP[FalseTree]] = @ \cup {2}]
<1>1. d = [asts |-> asts, isMatch |-> isMatch, rows |-> rows, masked |-> masked,
           index |-> index2]
  <2>1. asts[1] = root /\ asts[2] = FalseTree
    OBVIOUS
  <2> HIDE DEF asts, isMatch, rows, masked, index0, index1
  <2>2. d = IndexState(IndexState([asts |-> asts, isMatch |-> isMatch, rows |-> rows,
                                   masked |-> masked, index |-> index0], 1), 2)
    BY DEF NewLazyDFA, asts, isMatch, rows, masked, index0, Prints, RootState, DeadState
  <2>3. IndexState([asts |-> asts, isMatch |-> isMatch, rows |-> rows,
                    masked |-> masked, index |-> index0], 1)
        = [asts |-> asts, isMatch |-> isMatch, rows |-> rows, masked |-> masked,
           index |-> [index0 EXCEPT ![FP[asts[1]]] = @ \cup {1}]]
    BY IndexShape
  <2>4. IndexState([asts |-> asts, isMatch |-> isMatch, rows |-> rows,
                    masked |-> masked, index |-> index1], 2)
        = [asts |-> asts, isMatch |-> isMatch, rows |-> rows, masked |-> masked,
           index |-> [index1 EXCEPT ![FP[asts[2]]] = @ \cup {2}]]
    BY IndexShape
  <2> QED
    BY <2>1, <2>2, <2>3, <2>4 DEF index1
<1> HIDE DEF d
<1>2. /\ FP[root] \in Prints /\ FP[FalseTree] \in Prints
      /\ Len(d.asts) = 2 /\ State(d) = {1, 2}
      /\ d.asts[1] = root /\ d.asts[2] = FalseTree
  <2>1. FP[root] \in Prints /\ FP[FalseTree] \in Prints
    BY TreeAssumption DEF Prints
  <2>2. d.asts = <<root, FalseTree>>
    BY <1>1
  <2>3. Len(d.asts) = 2 /\ d.asts[1] = root /\ d.asts[2] = FalseTree
    BY <2>2
  <2>4. State(d) = {1, 2}
    BY <2>3 DEF State
  <2> QED
    BY <2>1, <2>3, <2>4
<1>3. \A f \in Prints : index2[f] = {s \in {1, 2} : FP[d.asts[s]] = f}
  BY <1>2
<1>4. index2 \in [Prints -> SUBSET {1, 2}]
  BY <1>2
<1>5. WellFormed(d)
  <2>1. IsLazyDFA(d)
    BY <1>1 DEF IsLazyDFA
  <2>2. d.asts \in Seq(Tree)
    BY <1>1, TreeAssumption
  <2>3. d.isMatch \in Seq(BOOLEAN) /\ Len(d.isMatch) = 2
    BY <1>1, TreeAssumption
  <2>4. /\ d.rows \in Seq([Minterm -> {Uncached} \cup State(d)])
        /\ Len(d.rows) = 2 /\ d.rows[2] = DeadRow
    <3>1. EmptyRow \in [Minterm -> {Uncached} \cup State(d)]
      BY DEF EmptyRow
    <3>2. DeadRow \in [Minterm -> {Uncached} \cup State(d)]
      BY <1>2 DEF DeadRow, DeadState
    <3> DEFINE Row == [Minterm -> {Uncached} \cup State(d)]
    <3>3. d.rows = <<EmptyRow, DeadRow>>
      BY <1>1
    <3>4. EmptyRow \in Row /\ DeadRow \in Row
      BY <3>1, <3>2
    <3> HIDE DEF Row
    <3>5. d.rows \in Seq(Row) /\ Len(d.rows) = 2 /\ d.rows[2] = DeadRow
      BY <3>3, <3>4
    <3> QED
      BY <3>5 DEF Row
  <2>5. d.masked \in [DOMAIN d.masked -> State(d)] /\ DOMAIN d.masked = {}
    BY <1>1
  <2>6. d.index \in [Prints -> SUBSET State(d)]
    BY <1>1, <1>2, <1>4
  <2> QED
    BY <1>2, <2>1, <2>2, <2>3, <2>4, <2>5, <2>6 DEF WellFormed, DeadState
<1>6. Indexed(d)
  BY <1>1, <1>2, <1>3 DEF Indexed
<1>7. Distinct(d)
  BY <1>2 DEF Distinct, RootState, DeadState
<1>8. RowsRight(d)
  <2>1. \A m \in Minterm : d.rows[1][m] = Uncached /\ d.rows[2][m] = 2
    BY <1>1 DEF EmptyRow, DeadRow, DeadState
  <2> QED
    BY <1>2, <2>1, FalseAssumption, TreeAssumption DEF RowsRight, Successor, Uncached
<1>9. MaskedRight(d)
  BY <1>1 DEF MaskedRight
<1>10. MatchRight(d)
  <2>1. d.isMatch[1] = Null[root][NoFacts] /\ d.isMatch[2] = FALSE
    BY <1>1
  <2>2. Null[FalseTree][NoFacts] = FALSE
    BY FalseAssumption, TreeAssumption
  <2> QED
    BY <1>2, <2>1, <2>2 DEF MatchRight
<1>11. WithinLimit(d)
  BY <1>2 DEF WithinLimit
<1>12. d.asts = <<root, FalseTree>>
  BY <1>1
<1>13. Sound(d)
  BY <1>5, <1>6, <1>7, <1>8, <1>9, <1>10, <1>11 DEF Sound
<1> QED
  BY <1>12, <1>13 DEF d

\* lookupState finds the state of a tree exactly when there is one.
LEMMA LookupFinds ==
  ASSUME NEW d, Sound(d), NEW t \in Tree
  PROVE  \/ LookupState(d, t) = NoState /\ t \notin Known(d)
         \/ LookupState(d, t) \in State(d) /\ d.asts[LookupState(d, t)] = t
<1> DEFINE hits == {s \in d.index[FP[t]] : d.asts[s] = t}
<1>1. hits = {s \in State(d) : d.asts[s] = t}
  <2>1. d.index[FP[t]] = {s \in State(d) : FP[d.asts[s]] = FP[t]}
    BY DEF Sound, Indexed, Prints
  <2> QED
    BY <2>1
<1>2. CASE hits = {}
  BY <1>1, <1>2 DEF LookupState, Known
<1>3. CASE hits # {}
  <2>1. \E s \in hits : \A r \in hits : s <= r
    <3>1. CASE 1 \in hits
      BY <1>1, <3>1 DEF State
    <3>2. CASE 1 \notin hits
      <4>1. PICK s \in hits : TRUE
        BY <1>3
      <4>2. \A r \in hits : r = s
        BY <1>1, <3>2, <4>1 DEF Sound, Distinct, RootState, DeadState
      <4> QED
        BY <1>1, <4>1, <4>2 DEF State
    <3> QED
      BY <3>1, <3>2
  <2>2. LookupState(d, t) \in hits
    BY <1>3, <2>1 DEF LookupState
  <2> QED
    BY <1>1, <2>2
<1> QED
  BY <1>2, <1>3

\* What newState does to each slice.
LEMMA NewStateShape ==
  ASSUME NEW d, WellFormed(d), NEW t \in Tree, NEW c \in Context
  PROVE  NewState(d, t, c) =
           [asts    |-> Append(d.asts, t),
            isMatch |-> Append(d.isMatch, Null[t][c]),
            rows    |-> Append(d.rows, EmptyRow),
            masked  |-> d.masked,
            index   |-> [d.index EXCEPT ![FP[t]] = @ \cup {Len(d.asts) + 1}]]
<1> DEFINE asts == d.asts
           isMatch == d.isMatch
           rows == d.rows
           masked == d.masked
           index == d.index
           longer == Append(asts, t)
           newIndex == [index EXCEPT ![FP[t]] = @ \cup {Len(asts) + 1}]
<1>1. d = [asts |-> asts, isMatch |-> isMatch, rows |-> rows, masked |-> masked,
           index |-> index]
  BY DEF WellFormed, IsLazyDFA
<1>2. longer[Len(asts) + 1] = t
  BY DEF WellFormed
<1> HIDE DEF asts, isMatch, rows, masked, index, longer
<1>3. AppendTree(d, t) = [asts |-> longer, isMatch |-> isMatch, rows |-> rows,
                          masked |-> masked, index |-> index]
  <2>1. AppendTree(d, t) = [d EXCEPT !.asts = longer]
    BY Zenon DEF AppendTree, longer, asts
  <2>2. [[asts |-> asts, isMatch |-> isMatch, rows |-> rows, masked |-> masked,
          index |-> index] EXCEPT !.asts = longer]
        = [asts |-> longer, isMatch |-> isMatch, rows |-> rows, masked |-> masked,
           index |-> index]
    BY SMT
  <2> QED
    BY <1>1, <2>1, <2>2, Zenon
<1>4. IndexState(AppendTree(d, t), Len(asts) + 1)
        = [asts |-> longer, isMatch |-> isMatch, rows |-> rows, masked |-> masked,
           index |-> newIndex]
  BY <1>2, <1>3, IndexShape
<1>5. Len(d.asts) = Len(asts)
  BY DEF asts
<1>6. NewState(d, t, c) = [asts |-> longer, isMatch |-> Append(isMatch, Null[t][c]),
                           rows |-> Append(rows, EmptyRow), masked |-> masked,
                           index |-> newIndex]
  <2> DEFINE indexed == IndexState(AppendTree(d, t), Len(asts) + 1)
             matched == AppendMatch(indexed, Null[t][c])
  <2>1. indexed = [asts |-> longer, isMatch |-> isMatch, rows |-> rows,
                   masked |-> masked, index |-> newIndex]
    BY <1>4
  <2>2. NewState(d, t, c) = AppendRow(matched)
    BY <1>5 DEF NewState
  <2> HIDE DEF indexed, newIndex
  <2>3. matched = [asts |-> longer, isMatch |-> Append(isMatch, Null[t][c]),
                   rows |-> rows, masked |-> masked, index |-> newIndex]
    <3> DEFINE longerMatch == Append(isMatch, Null[t][c])
    <3>1. indexed.isMatch = isMatch
      BY <2>1
    <3>2. matched = [indexed EXCEPT !.isMatch = longerMatch]
      BY <3>1, Zenon DEF AppendMatch
    <3> HIDE DEF matched, longerMatch
    <3>3. [[asts |-> longer, isMatch |-> isMatch, rows |-> rows, masked |-> masked,
            index |-> newIndex] EXCEPT !.isMatch = longerMatch]
          = [asts |-> longer, isMatch |-> longerMatch, rows |-> rows, masked |-> masked,
             index |-> newIndex]
      BY SMT
    <3>4. matched = [asts |-> longer, isMatch |-> longerMatch, rows |-> rows,
                     masked |-> masked, index |-> newIndex]
      BY <2>1, <3>2, <3>3, Zenon
    <3> QED
      BY <3>4, Zenon DEF longerMatch
  <2> HIDE DEF matched
  <2> DEFINE longerMatch == Append(isMatch, Null[t][c])
  <2> HIDE DEF longerMatch
  <2>4. AppendRow([asts |-> longer, isMatch |-> longerMatch, rows |-> rows,
                   masked |-> masked, index |-> newIndex])
          = [asts |-> longer, isMatch |-> longerMatch, rows |-> Append(rows, EmptyRow),
             masked |-> masked, index |-> newIndex]
    BY DEF AppendRow
  <2> QED
    BY <2>2, <2>3, <2>4 DEF longerMatch
<1> QED
  BY <1>6 DEF asts, isMatch, rows, masked, index, longer, newIndex

\* Adding a state that is not known yet, while there is room, keeps the
\* automaton sound.
LEMMA NewStateSound ==
  ASSUME NEW d, Sound(d), HasRoom(d), NEW t \in Tree, NEW c \in Context,
         t \notin Known(d)
  PROVE  LET e == NewState(d, t, c)
         IN  /\ Sound(e)
             /\ Grows(d, e)
             /\ e.asts = Append(d.asts, t)
             /\ Len(e.asts) = Len(d.asts) + 1
             /\ e.asts[Len(d.asts) + 1] = t
             /\ e.rows[Len(d.asts) + 1] = EmptyRow
             /\ e.masked = d.masked
             /\ \A s \in State(d) : e.asts[s] = d.asts[s] /\ e.rows[s] = d.rows[s]
<1> DEFINE e == NewState(d, t, c)
           n == Len(d.asts)
<1>1. WellFormed(d)
  BY DEF Sound
<1>2. e = [asts |-> Append(d.asts, t), isMatch |-> Append(d.isMatch, Null[t][c]),
           rows |-> Append(d.rows, EmptyRow), masked |-> d.masked,
           index |-> [d.index EXCEPT ![FP[t]] = @ \cup {n + 1}]]
  BY <1>1, NewStateShape
<1> HIDE DEF e
<1>2a. e.masked = d.masked /\ e.asts = Append(d.asts, t)
  BY <1>2
<1>3. /\ n \in Nat /\ n >= 2 /\ n < maxLazyDFAStates
      /\ Len(e.asts) = n + 1
      /\ State(d) = 1..n /\ State(e) = 1..(n + 1)
  BY <1>1, <1>2, TreeAssumption DEF WellFormed, State, HasRoom
<1>4. /\ \A s \in State(d) : /\ e.asts[s] = d.asts[s] /\ e.rows[s] = d.rows[s]
                             /\ e.isMatch[s] = d.isMatch[s]
      /\ e.asts[n + 1] = t /\ e.rows[n + 1] = EmptyRow /\ e.isMatch[n + 1] = Null[t][c]
      /\ State(e) = State(d) \cup {n + 1}
      /\ n + 1 \notin State(d)
  <2>1. e.asts = Append(d.asts, t) /\ d.asts \in Seq(Tree)
    BY <1>1, <1>2 DEF WellFormed
  <2>2. e.rows = Append(d.rows, EmptyRow) /\ Len(d.rows) = n
        /\ d.rows \in Seq([Minterm -> {Uncached} \cup State(d)])
    BY <1>1, <1>2 DEF WellFormed
  <2>3. e.isMatch = Append(d.isMatch, Null[t][c]) /\ Len(d.isMatch) = n
        /\ d.isMatch \in Seq(BOOLEAN)
    BY <1>1, <1>2 DEF WellFormed
  <2>4. \A s \in 1..n : e.asts[s] = d.asts[s]
    BY <1>3, <2>1
  <2>5. \A s \in 1..n : e.rows[s] = d.rows[s]
    BY <1>3, <2>2
  <2>6. \A s \in 1..n : e.isMatch[s] = d.isMatch[s]
    BY <1>3, <2>3
  <2>7. e.asts[n + 1] = t /\ e.rows[n + 1] = EmptyRow /\ e.isMatch[n + 1] = Null[t][c]
    <3>1. e.asts[n + 1] = t
      BY <1>3, <2>1
    <3>2. e.rows[n + 1] = EmptyRow
      BY <1>3, <2>2
    <3>3. e.isMatch[n + 1] = Null[t][c]
      BY <1>3, <2>3
    <3> QED
      BY <3>1, <3>2, <3>3
  <2>8. State(e) = State(d) \cup {n + 1} /\ n + 1 \notin State(d)
    BY <1>3
  <2>9. \A s \in State(d) : /\ e.asts[s] = d.asts[s] /\ e.rows[s] = d.rows[s]
                            /\ e.isMatch[s] = d.isMatch[s]
    BY <1>3, <2>4, <2>5, <2>6
  <2> QED
    BY <2>7, <2>8, <2>9
<1>5. \A s \in State(d) : d.asts[s] # t
  BY DEF Known
<1>6. WellFormed(e)
  <2>1. IsLazyDFA(e)
    BY <1>2 DEF IsLazyDFA
  <2>2. e.asts \in Seq(Tree) /\ e.isMatch \in Seq(BOOLEAN)
    BY <1>1, <1>2, TreeAssumption DEF WellFormed
  <2>3. e.rows \in Seq([Minterm -> {Uncached} \cup State(e)])
    <3>1. d.rows \in Seq([Minterm -> {Uncached} \cup State(e)])
      <4>1. \A s \in 1..n : d.rows[s] \in [Minterm -> {Uncached} \cup State(e)]
        BY <1>1, <1>4 DEF WellFormed
      <4> QED
        BY <1>1, <1>3, <4>1 DEF WellFormed
    <3>2. EmptyRow \in [Minterm -> {Uncached} \cup State(e)]
      BY DEF EmptyRow
    <3> DEFINE Row == [Minterm -> {Uncached} \cup State(e)]
    <3>3. e.rows = Append(d.rows, EmptyRow)
      BY <1>2
    <3> HIDE DEF Row
    <3>4. e.rows \in Seq(Row)
      BY <3>1, <3>2, <3>3 DEF Row
    <3> QED
      BY <3>4 DEF Row
  <2>4. Len(e.isMatch) = n + 1 /\ Len(e.rows) = n + 1
    BY <1>1, <1>2 DEF WellFormed
  <2>5. e.masked \in [DOMAIN e.masked -> State(e)]
    BY <1>1, <1>2a, <1>4 DEF WellFormed
  <2>6. e.index \in [Prints -> SUBSET State(e)]
    <3>1. d.index \in [Prints -> SUBSET State(d)]
      BY <1>1 DEF WellFormed
    <3> QED
      BY <1>2, <1>4, <3>1
  <2>7. e.asts[DeadState] = FalseTree /\ e.rows[DeadState] = DeadRow
    BY <1>1, <1>3, <1>4 DEF WellFormed, DeadState
  <2>8. \A key \in DOMAIN e.masked : key[1] \in State(e)
    BY <1>1, <1>2a, <1>4 DEF WellFormed
  <2> QED
    BY <1>3, <2>1, <2>2, <2>3, <2>4, <2>5, <2>6, <2>7, <2>8 DEF WellFormed
<1>7. Indexed(e)
  <2> SUFFICES ASSUME NEW f \in Prints
               PROVE  e.index[f] = {s \in State(e) : FP[e.asts[s]] = f}
    BY DEF Indexed
  <2>1. d.index[f] = {s \in State(d) : FP[d.asts[s]] = f}
    BY DEF Sound, Indexed
  <2>2. e.index[f] = IF f = FP[t] THEN d.index[f] \cup {n + 1} ELSE d.index[f]
    BY <1>1, <1>2 DEF WellFormed
  <2> QED
    BY <1>4, <2>1, <2>2
<1>8. Distinct(e)
  <2> SUFFICES ASSUME NEW r \in State(e), NEW s \in State(e), e.asts[r] = e.asts[s]
               PROVE  r = s \/ {r, s} = {RootState, DeadState}
    BY DEF Distinct
  <2>1. CASE r \in State(d) /\ s \in State(d)
    BY <1>4, <2>1 DEF Sound, Distinct
  <2>2. CASE r = n + 1 \/ s = n + 1
    BY <1>4, <1>5, <2>2
  <2> QED
    BY <1>4, <2>1, <2>2
<1>9. RowsRight(e)
  <2> SUFFICES ASSUME NEW s \in State(e), NEW m \in Minterm, e.rows[s][m] # Uncached
               PROVE  Successor(e, e.rows[s][m], Deriv[e.asts[s]][m][NoFacts])
    BY DEF RowsRight
  <2>1. s \in State(d)
    BY <1>4 DEF EmptyRow
  <2>2. Successor(d, d.rows[s][m], Deriv[d.asts[s]][m][NoFacts])
    BY <1>4, <2>1 DEF Sound, RowsRight
  <2>3. d.asts[d.rows[s][m]] = Deriv[d.asts[s]][m][NoFacts]
    BY <2>2 DEF Successor
  <2>4. d.rows[s][m] \in State(d)
    <3>1. d.rows[s] \in [Minterm -> {Uncached} \cup State(d)]
      BY <1>1, <1>3, <2>1 DEF WellFormed
    <3> QED
      BY <1>4, <2>1, <3>1
  <2> QED
    BY <1>4, <2>1, <2>3, <2>4 DEF Successor
<1>10. MaskedRight(e)
  <2> SUFFICES ASSUME NEW key \in DOMAIN e.masked, NEW cc \in Context,
                      cc \cap Mask[e.asts[key[1]]] = key[2]
               PROVE  e.asts[e.masked[key]] = Deriv[e.asts[key[1]]][key[3]][cc]
    BY DEF MaskedRight
  <2>1. e.masked = d.masked
    BY <1>2a
  <2>2. key[1] \in State(d) /\ d.masked[key] \in State(d)
    BY <1>1, <2>1 DEF WellFormed
  <2>3. e.asts[key[1]] = d.asts[key[1]] /\ e.asts[d.masked[key]] = d.asts[d.masked[key]]
    BY <1>4, <2>2
  <2>4. d.asts[d.masked[key]] = Deriv[d.asts[key[1]]][key[3]][cc]
    BY <2>1, <2>3 DEF Sound, MaskedRight
  <2> QED
    BY <2>1, <2>3, <2>4
<1>11. MatchRight(e)
  <2>1. Mask[t] = NoFacts => Null[t][c] = Null[t][NoFacts]
    <3>1. Mask[t] = NoFacts => c \cap Mask[t] = NoFacts \cap Mask[t]
      BY DEF NoFacts
    <3>2. NoFacts \in Context
      BY TreeAssumption
    <3>3. \A x, y \in Context : x \cap Mask[t] = y \cap Mask[t] => Null[t][x] = Null[t][y]
      BY MaskAssumption
    <3> QED
      BY <3>1, <3>2, <3>3
  <2> SUFFICES ASSUME NEW s \in State(e), Mask[e.asts[s]] = NoFacts
               PROVE  e.isMatch[s] = Null[e.asts[s]][NoFacts]
    BY DEF MatchRight
  <2>2. CASE s = n + 1
    BY <1>4, <2>1, <2>2
  <2>3. CASE s \in State(d)
    BY <1>4, <2>3 DEF Sound, MatchRight
  <2> QED
    BY <1>4, <2>2, <2>3
<1>12. WithinLimit(e)
  BY <1>3, TreeAssumption DEF WithinLimit
<1>13. Grows(d, e)
  BY <1>2a, <1>3, <1>4 DEF Grows
<1> QED
  BY <1>2a, <1>3, <1>4, <1>6, <1>7, <1>8, <1>9, <1>10, <1>11, <1>12, <1>13 DEF Sound, e

\* What setting a transition does to the slice or the map it goes to.
LEMMA SetRowShape ==
  ASSUME NEW d, WellFormed(d), NEW s, NEW m, NEW to
  PROVE  SetNext(d, s, NoFacts, m, to) =
           [asts |-> d.asts, isMatch |-> d.isMatch, rows |-> [d.rows EXCEPT ![s][m] = to],
            masked |-> d.masked, index |-> d.index]
<1> DEFINE asts == d.asts
           isMatch == d.isMatch
           rows == d.rows
           masked == d.masked
           index == d.index
<1>1. d = [asts |-> asts, isMatch |-> isMatch, rows |-> rows, masked |-> masked,
           index |-> index]
  BY DEF WellFormed, IsLazyDFA
<1> HIDE DEF asts, isMatch, rows, masked, index
<1>2. [[asts |-> asts, isMatch |-> isMatch, rows |-> rows, masked |-> masked,
        index |-> index] EXCEPT !.rows[s][m] = to]
      = [asts |-> asts, isMatch |-> isMatch, rows |-> [rows EXCEPT ![s][m] = to],
         masked |-> masked, index |-> index]
  OBVIOUS
<1>3. SetNext(d, s, NoFacts, m, to)
        = [asts |-> asts, isMatch |-> isMatch, rows |-> [rows EXCEPT ![s][m] = to],
           masked |-> masked, index |-> index]
  BY <1>1, <1>2 DEF SetNext
<1> QED
  BY <1>3 DEF asts, isMatch, rows, masked, index

\* The masked map with one more entry.
WithEntry(masked, new, to) ==
  [key \in DOMAIN masked \cup {new} |-> IF key = new THEN to ELSE masked[key]]

LEMMA SetMaskedShape ==
  ASSUME NEW d, WellFormed(d), NEW s, NEW k, k # NoFacts, NEW m, NEW to
  PROVE  SetNext(d, s, k, m, to) =
           [asts |-> d.asts, isMatch |-> d.isMatch, rows |-> d.rows,
            masked |-> WithEntry(d.masked, <<s, k, m>>, to), index |-> d.index]
<1> DEFINE asts == d.asts
           isMatch == d.isMatch
           rows == d.rows
           masked == d.masked
           index == d.index
           entered == WithEntry(masked, <<s, k, m>>, to)
<1>1. d = [asts |-> asts, isMatch |-> isMatch, rows |-> rows, masked |-> masked,
           index |-> index]
  BY DEF WellFormed, IsLazyDFA
<1>2. SetNext(d, s, k, m, to) = [d EXCEPT !.masked = entered]
  BY DEF SetNext, WithEntry
<1> HIDE DEF asts, isMatch, rows, masked, index, entered
<1>3. [[asts |-> asts, isMatch |-> isMatch, rows |-> rows, masked |-> masked,
        index |-> index] EXCEPT !.masked = entered]
      = [asts |-> asts, isMatch |-> isMatch, rows |-> rows, masked |-> entered,
         index |-> index]
  OBVIOUS
<1>4. SetNext(d, s, k, m, to)
        = [asts |-> asts, isMatch |-> isMatch, rows |-> rows, masked |-> entered,
           index |-> index]
  BY <1>1, <1>2, <1>3
<1> QED
  BY <1>4 DEF asts, isMatch, rows, masked, index, entered

\* Facts about the states alone do not depend on what is cached.
LEMMA StatesAlone ==
  ASSUME NEW d, Sound(d), NEW e,
         e.asts = d.asts, e.isMatch = d.isMatch, e.index = d.index
  PROVE  /\ State(e) = State(d) /\ Known(e) = Known(d) /\ (HasRoom(e) <=> HasRoom(d))
         /\ Indexed(e) /\ Distinct(e) /\ MatchRight(e) /\ WithinLimit(e)
<1>1. State(e) = State(d) /\ Known(e) = Known(d) /\ (HasRoom(e) <=> HasRoom(d))
  BY DEF State, Known, HasRoom
<1>2. Indexed(e)
  BY <1>1 DEF Sound, Indexed
<1>3. Distinct(e)
  BY <1>1 DEF Sound, Distinct
<1>4. MatchRight(e)
  BY <1>1 DEF Sound, MatchRight
<1>5. WithinLimit(e)
  BY DEF Sound, WithinLimit
<1> QED
  BY <1>1, <1>2, <1>3, <1>4, <1>5

\* Caching a right successor in a dense row keeps the automaton sound.
LEMMA SetRowSound ==
  ASSUME NEW d, Sound(d), NEW s \in State(d), s # DeadState, NEW m \in Minterm,
         NEW to \in State(d), d.rows[s][m] = Uncached,
         Successor(d, to, Deriv[d.asts[s]][m][NoFacts])
  PROVE  LET e == SetNext(d, s, NoFacts, m, to)
         IN  Sound(e) /\ Grows(d, e) /\ e.asts = d.asts
<1> DEFINE e == SetNext(d, s, NoFacts, m, to)
<1>1. WellFormed(d)
  BY DEF Sound
<1>2. e = [asts |-> d.asts, isMatch |-> d.isMatch, rows |-> [d.rows EXCEPT ![s][m] = to],
           masked |-> d.masked, index |-> d.index]
  BY <1>1, SetRowShape
<1> HIDE DEF e
<1>3. /\ e.asts = d.asts /\ e.isMatch = d.isMatch /\ e.masked = d.masked
      /\ e.index = d.index /\ e.rows = [d.rows EXCEPT ![s][m] = to]
  BY <1>2
<1>4. /\ State(e) = State(d) /\ Known(e) = Known(d) /\ (HasRoom(e) <=> HasRoom(d))
      /\ Indexed(e) /\ Distinct(e) /\ MatchRight(e) /\ WithinLimit(e)
  BY <1>3, StatesAlone
<1>5. DOMAIN d.rows = State(d) /\ Len(d.rows) = Len(d.asts) /\ Len(d.asts) \in Nat
      /\ \A r \in State(d) : d.rows[r] \in [Minterm -> {Uncached} \cup State(d)]
  BY <1>1 DEF WellFormed, State
<1>6. \A r \in State(d), p \in Minterm :
        e.rows[r][p] = IF r = s /\ p = m THEN to ELSE d.rows[r][p]
  BY <1>3, <1>5
<1>7. WellFormed(e)
  <2>1. IsLazyDFA(e)
    BY <1>2 DEF IsLazyDFA
  <2> DEFINE Row == [Minterm -> {Uncached} \cup State(d)]
  <2>2. [d.rows[s] EXCEPT ![m] = to] \in Row
    BY <1>5
  <2>3. d.rows \in Seq(Row)
    BY <1>1 DEF WellFormed
  <2> HIDE DEF Row
  <2>4. e.rows = [d.rows EXCEPT ![s] = [d.rows[s] EXCEPT ![m] = to]]
    BY <1>3
  <2>5. e.rows \in Seq(Row) /\ Len(e.rows) = Len(d.rows)
    BY <1>5, <2>2, <2>3, <2>4
  <2>6. e.rows \in Seq([Minterm -> {Uncached} \cup State(e)])
    BY <1>4, <2>5 DEF Row
  <2>7. e.rows[DeadState] = DeadRow
    BY <1>1, <1>5, <2>4 DEF WellFormed, DeadState, State
  <2> QED
    BY <1>1, <1>3, <1>4, <1>5, <2>1, <2>5, <2>6, <2>7 DEF WellFormed
<1>8. RowsRight(e)
  <2> SUFFICES ASSUME NEW r \in State(d), NEW p \in Minterm, e.rows[r][p] # Uncached
               PROVE  Successor(d, e.rows[r][p], Deriv[d.asts[r]][p][NoFacts])
    <3> SUFFICES ASSUME NEW r \in State(e), NEW p \in Minterm, e.rows[r][p] # Uncached
                 PROVE  Successor(e, e.rows[r][p], Deriv[e.asts[r]][p][NoFacts])
      BY DEF RowsRight
    <3>1. Successor(d, e.rows[r][p], Deriv[d.asts[r]][p][NoFacts])
      BY <1>4
    <3> QED
      BY <1>3, <1>4, <3>1 DEF Successor
  <2>1. CASE r = s /\ p = m
    <3>1. e.rows[r][p] = to
      BY <1>6, <2>1
    <3> QED
      BY <2>1, <3>1
  <2>2. CASE ~(r = s /\ p = m)
    BY <1>6, <2>2 DEF Sound, RowsRight
  <2> QED
    BY <2>1, <2>2
<1>9. MaskedRight(e)
  <2> SUFFICES ASSUME NEW key \in DOMAIN e.masked, NEW cc \in Context,
                      cc \cap Mask[e.asts[key[1]]] = key[2]
               PROVE  e.asts[e.masked[key]] = Deriv[e.asts[key[1]]][key[3]][cc]
    BY DEF MaskedRight
  <2>1. e.asts = d.asts /\ e.masked = d.masked
    BY <1>3
  <2>2. d.asts[d.masked[key]] = Deriv[d.asts[key[1]]][key[3]][cc]
    BY <2>1 DEF Sound, MaskedRight
  <2> QED
    BY <2>1, <2>2
<1>10. Grows(d, e)
  BY <1>3, <1>5, <1>6 DEF Grows
<1> QED
  BY <1>3, <1>4, <1>7, <1>8, <1>9, <1>10 DEF Sound, e

\* Caching a right successor under a masked context keeps the automaton sound:
\* it is right for all contexts that the mask takes for the same.
LEMMA SetMaskedSound ==
  ASSUME NEW d, Sound(d), NEW s \in State(d), NEW m \in Minterm, NEW c \in Context,
         c \cap Mask[d.asts[s]] # NoFacts, NEW to \in State(d),
         <<s, c \cap Mask[d.asts[s]], m>> \notin DOMAIN d.masked,
         d.asts[to] = Deriv[d.asts[s]][m][c]
  PROVE  LET e == SetNext(d, s, c \cap Mask[d.asts[s]], m, to)
         IN  Sound(e) /\ Grows(d, e) /\ e.asts = d.asts
<1> DEFINE k == c \cap Mask[d.asts[s]]
           e == SetNext(d, s, k, m, to)
           new == <<s, k, m>>
<1>1. WellFormed(d)
  BY DEF Sound
<1>2. e = [asts |-> d.asts, isMatch |-> d.isMatch, rows |-> d.rows,
           masked |-> WithEntry(d.masked, new, to), index |-> d.index]
  BY <1>1, SetMaskedShape
<1>0. new[1] = s
  OBVIOUS
<1> HIDE DEF e
<1>3. /\ e.asts = d.asts /\ e.isMatch = d.isMatch /\ e.rows = d.rows
      /\ e.index = d.index /\ e.masked = WithEntry(d.masked, new, to)
  BY <1>2
<1>3a. e.asts = d.asts /\ e.isMatch = d.isMatch /\ e.rows = d.rows
  BY <1>3
<1>4. /\ State(e) = State(d) /\ Known(e) = Known(d) /\ (HasRoom(e) <=> HasRoom(d))
      /\ Indexed(e) /\ Distinct(e) /\ MatchRight(e) /\ WithinLimit(e)
  BY <1>3, StatesAlone
<1>5. /\ DOMAIN e.masked = DOMAIN d.masked \cup {new}
      /\ e.masked[new] = to
      /\ \A key \in DOMAIN d.masked : key # new /\ e.masked[key] = d.masked[key]
  <2> HIDE DEF new
  <2>1. new \notin DOMAIN d.masked
    BY DEF new
  <2> QED
    BY <1>3, <2>1 DEF WithEntry
<1>6. WellFormed(e)
  <2>1. IsLazyDFA(e)
    BY <1>2 DEF IsLazyDFA
  <2>2. e.masked \in [DOMAIN e.masked -> State(e)]
    <3>1. e.masked = [key \in DOMAIN e.masked |-> e.masked[key]]
      BY <1>3 DEF WithEntry
    <3>2. \A key \in DOMAIN e.masked : e.masked[key] \in State(e)
      BY <1>1, <1>4, <1>5 DEF WellFormed
    <3> QED
      BY <3>1, <3>2
  <2>3. \A key \in DOMAIN e.masked : key[1] \in State(e)
    BY <1>0, <1>1, <1>4, <1>5 DEF WellFormed
  <2> QED
    BY <1>1, <1>3, <1>4, <2>1, <2>2, <2>3 DEF WellFormed
<1>7. RowsRight(e)
  BY <1>3, <1>4 DEF Sound, RowsRight, Successor
<1>8. MaskedRight(e)
  <2> SUFFICES ASSUME NEW key \in DOMAIN e.masked, NEW cc \in Context,
                      cc \cap Mask[d.asts[key[1]]] = key[2]
               PROVE  d.asts[e.masked[key]] = Deriv[d.asts[key[1]]][key[3]][cc]
    <3> SUFFICES ASSUME NEW key \in DOMAIN e.masked, NEW cc \in Context,
                        cc \cap Mask[e.asts[key[1]]] = key[2]
                 PROVE  e.asts[e.masked[key]] = Deriv[e.asts[key[1]]][key[3]][cc]
      BY DEF MaskedRight
    <3> QED
      BY <1>3a
  <2>1. CASE key = new
    <3>1. key[1] = s /\ key[3] = m /\ key[2] = c \cap Mask[d.asts[s]]
      BY <2>1
    <3>2. d.asts[s] \in Tree
      BY <1>1 DEF WellFormed, State
    <3>3. Deriv[d.asts[s]][m][cc] = Deriv[d.asts[s]][m][c]
      BY <3>1, <3>2, MaskAssumption
    <3>4. e.masked[key] = to
      BY <1>5, <2>1
    <3> HIDE DEF new
    <3> QED
      BY <3>1, <3>3, <3>4
  <2>2. CASE key # new
    <3> HIDE DEF new
    <3>1. key \in DOMAIN d.masked /\ e.masked[key] = d.masked[key]
      BY <1>5, <2>2
    <3> QED
      BY <3>1 DEF Sound, MaskedRight
  <2> QED
    BY <2>1, <2>2
<1>9. Grows(d, e)
  BY <1>1, <1>3a, <1>5 DEF Grows, WellFormed
<1> QED
  BY <1>3, <1>4, <1>6, <1>7, <1>8, <1>9 DEF Sound, e

----------------------------------------------------------------------------

\* A tree that asks nothing of its context has one derivative by a byte.
LEMMA NothingAsked ==
  ASSUME NEW t \in Tree, NEW m \in Minterm, NEW c \in Context,
         c \cap Mask[t] = NoFacts
  PROVE  Deriv[t][m][c] = Deriv[t][m][NoFacts]
<1>1. NoFacts \in Context
  BY TreeAssumption
<1>2. c \cap Mask[t] = NoFacts \cap Mask[t]
  BY DEF NoFacts
<1> QED
  BY <1>1, <1>2, MaskAssumption

LEMMA GrowsTransitive ==
  ASSUME NEW d, NEW e, NEW f, Len(d.asts) \in Nat, Len(e.asts) \in Nat,
         Len(f.asts) \in Nat, Grows(d, e), Grows(e, f)
  PROVE  Grows(d, f)
<1>1. Len(d.asts) <= Len(e.asts) /\ Len(e.asts) <= Len(f.asts)
  BY DEF Grows
<1>2. ASSUME NEW s \in State(d)
      PROVE  /\ f.asts[s] = d.asts[s] /\ f.isMatch[s] = d.isMatch[s]
             /\ \A m \in Minterm : d.rows[s][m] # Uncached => f.rows[s][m] = d.rows[s][m]
  <2>1. s \in State(e)
    BY <1>1 DEF State
  <2>2. /\ e.asts[s] = d.asts[s] /\ e.isMatch[s] = d.isMatch[s]
        /\ \A m \in Minterm : d.rows[s][m] # Uncached => e.rows[s][m] = d.rows[s][m]
    BY DEF Grows
  <2>3. /\ f.asts[s] = e.asts[s] /\ f.isMatch[s] = e.isMatch[s]
        /\ \A m \in Minterm : e.rows[s][m] # Uncached => f.rows[s][m] = e.rows[s][m]
    BY <2>1 DEF Grows
  <2> QED
    BY <2>2, <2>3
<1>3. \A key \in DOMAIN d.masked : key \in DOMAIN f.masked /\ f.masked[key] = d.masked[key]
  BY DEF Grows
<1> QED
  BY <1>1, <1>2, <1>3 DEF Grows

\* Computing a successor that is not cached.
LEMMA ComputeNextSound ==
  ASSUME NEW d, Sound(d), NEW s \in State(d), s # DeadState,
         NEW m \in Minterm, NEW c \in Context,
         CachedNext(d, s, c \cap Mask[d.asts[s]], m) = Uncached
  PROVE  LET r == ComputeNext(d, s, m, c, c \cap Mask[d.asts[s]])
         IN  /\ Sound(r.dfa)
             /\ Grows(d, r.dfa)
             /\ Moves(d, r.dfa, r.to, Deriv[d.asts[s]][m][c])
<1> DEFINE k    == c \cap Mask[d.asts[s]]
           seen == ContextSeen(k, c)
           t    == Deriv[d.asts[s]][m][seen]
           old  == LookupState(d, t)
           new  == Len(d.asts) + 1
           r    == ComputeNext(d, s, m, c, k)
<1>1. WellFormed(d) /\ d.asts[s] \in Tree /\ Len(d.asts) \in Nat /\ Len(d.asts) >= 2
  BY DEF Sound, WellFormed, State
<1>2. seen \in Context /\ t \in Tree
  <2>1. seen \in Context
    BY TreeAssumption DEF ContextSeen
  <2> HIDE DEF seen
  <2>2. t \in Tree
    <3>1. Deriv[d.asts[s]] \in [Minterm -> [Context -> Tree]]
      BY <1>1, TreeAssumption
    <3> QED
      BY <2>1, <3>1
  <2> QED
    BY <2>1, <2>2
<1>3. t = Deriv[d.asts[s]][m][c]
  <2>1. CASE k = NoFacts
    <3>1. seen = NoFacts
      BY <2>1 DEF ContextSeen
    <3>2. Deriv[d.asts[s]][m][c] = Deriv[d.asts[s]][m][NoFacts]
      BY <1>1, <2>1, NothingAsked
    <3> HIDE DEF seen
    <3> QED
      BY <3>1, <3>2
  <2>2. CASE k # NoFacts
    BY <2>2 DEF ContextSeen
  <2> QED
    BY <2>1, <2>2
<1>4. \/ old = NoState /\ t \notin Known(d)
      \/ old \in State(d) /\ d.asts[old] = t
  BY <1>2, LookupFinds
<1>5. k = NoFacts => d.rows[s][m] = Uncached
  BY DEF CachedNext
<1>6. k # NoFacts => <<s, k, m>> \notin DOMAIN d.masked
  <2> SUFFICES ASSUME k # NoFacts, <<s, k, m>> \in DOMAIN d.masked
               PROVE  FALSE
    OBVIOUS
  <2>1. d.masked[<<s, k, m>>] \in State(d)
    BY <1>1 DEF WellFormed
  <2>2. d.masked[<<s, k, m>>] = Uncached
    BY DEF CachedNext
  <2> QED
    BY <2>1, <2>2 DEF State, Uncached
<1>7. r = IF old # NoState THEN [dfa |-> SetNext(d, s, k, m, old), to |-> old]
          ELSE IF ~HasRoom(d) THEN LoseNext(d, s, k, m)
          ELSE [dfa |-> SetNext(NewState(d, t, seen), s, k, m, new), to |-> new]
  BY DEF ComputeNext
<1>8. seen = IF k = NoFacts THEN NoFacts ELSE c
  BY DEF ContextSeen
<1> HIDE DEF seen, t, old, r
<1>9. CASE old # NoState
  <2>1. old \in State(d) /\ d.asts[old] = t /\ t \in Known(d)
    BY <1>4, <1>9 DEF Known
  <2>2. r.dfa = SetNext(d, s, k, m, old) /\ r.to = old
    BY <1>7, <1>9
  <2>3. CASE k = NoFacts
    <3>1. Successor(d, old, Deriv[d.asts[s]][m][NoFacts])
      BY <1>8, <2>1, <2>3 DEF Successor, t
    <3>2. r.dfa = SetNext(d, s, NoFacts, m, old)
      BY <2>2, <2>3
    <3>3. d.rows[s][m] = Uncached
      BY <1>5, <2>3
    <3>4. Sound(r.dfa) /\ Grows(d, r.dfa) /\ r.dfa.asts = d.asts
      BY <2>1, <3>1, <3>2, <3>3, SetRowSound
    <3> QED
      BY <1>3, <2>1, <2>2, <3>4 DEF Moves, r
  <2>4. CASE k # NoFacts
    <3>1. Sound(r.dfa) /\ Grows(d, r.dfa) /\ r.dfa.asts = d.asts
      BY <1>3, <1>6, <2>1, <2>2, <2>4, SetMaskedSound
    <3> QED
      BY <1>3, <2>1, <2>2, <3>1 DEF Moves, r
  <2> QED
    BY <2>3, <2>4
<1>10. CASE old = NoState /\ ~HasRoom(d)
  <2>1. t \notin Known(d)
    BY <1>4, <1>10 DEF State, NoState
  <2>2. r = LoseNext(d, s, k, m)
    BY <1>7, <1>10
  <2>3. r.to = DeadState /\ DeadState \in State(d)
    BY <1>1, <2>2 DEF LoseNext, DeadState, State
  <2>4. CASE k = NoFacts
    <3>1. r.dfa = SetNext(d, s, NoFacts, m, DeadState)
      BY <2>2, <2>4 DEF LoseNext
    <3>2. Successor(d, DeadState, Deriv[d.asts[s]][m][NoFacts])
      BY <1>8, <1>10, <2>1, <2>4 DEF Successor, t
    <3>3. Sound(r.dfa) /\ Grows(d, r.dfa) /\ r.dfa.asts = d.asts
      BY <1>5, <2>3, <2>4, <3>1, <3>2, SetRowSound
    <3> QED
      BY <1>3, <1>10, <2>1, <2>3, <3>3 DEF Moves, r
  <2>5. CASE k # NoFacts
    <3>1. r.dfa = d
      BY <2>2, <2>5 DEF LoseNext
    <3>2. Grows(d, d)
      BY <1>1 DEF Grows
    <3> QED
      BY <1>3, <1>10, <2>1, <2>3, <3>1, <3>2 DEF Moves, r
  <2> QED
    BY <2>4, <2>5
<1>11. CASE old = NoState /\ HasRoom(d)
  <2> DEFINE d2 == NewState(d, t, seen)
  <2>1. t \notin Known(d)
    BY <1>4, <1>11 DEF State, NoState
  <2>2. r.dfa = SetNext(d2, s, k, m, new) /\ r.to = new
    BY <1>7, <1>11
  <2>3. /\ Sound(d2) /\ Grows(d, d2) /\ d2.asts = Append(d.asts, t)
        /\ Len(d2.asts) = new /\ d2.asts[new] = t /\ d2.masked = d.masked
        /\ \A q \in State(d) : d2.asts[q] = d.asts[q] /\ d2.rows[q] = d.rows[q]
    BY <1>2, <1>11, <2>1, NewStateSound
  <2> HIDE DEF d2
  <2>4. s \in State(d2) /\ new \in State(d2)
    BY <1>1, <2>3 DEF State
  <2>5. d2.asts[s] = d.asts[s] /\ d2.rows[s] = d.rows[s]
    BY <2>3
  <2>6. Sound(r.dfa) /\ Grows(d2, r.dfa) /\ r.dfa.asts = d2.asts
    <3>1. CASE k = NoFacts
      <4>1. Successor(d2, new, Deriv[d2.asts[s]][m][NoFacts])
        BY <1>8, <2>3, <2>5, <3>1 DEF Successor, t
      <4>2. d2.rows[s][m] = Uncached
        BY <1>5, <2>5, <3>1
      <4>3. r.dfa = SetNext(d2, s, NoFacts, m, new)
        BY <2>2, <3>1
      <4>4. LET f == SetNext(d2, s, NoFacts, m, new)
            IN  Sound(f) /\ Grows(d2, f) /\ f.asts = d2.asts
        BY <2>3, <2>4, <4>1, <4>2, SetRowSound
      <4> QED
        BY <4>3, <4>4
    <3>2. CASE k # NoFacts
      <4>1. c \cap Mask[d2.asts[s]] = k
        BY <2>5
      <4>2. <<s, k, m>> \notin DOMAIN d2.masked
        BY <1>6, <2>3, <3>2
      <4>3. d2.asts[new] = Deriv[d2.asts[s]][m][c]
        BY <1>3, <2>3, <2>5
      <4>4. r.dfa = SetNext(d2, s, c \cap Mask[d2.asts[s]], m, new)
        BY <2>2, <4>1
      <4>5. <<s, c \cap Mask[d2.asts[s]], m>> \notin DOMAIN d2.masked
        BY <4>1, <4>2
      <4>6. c \cap Mask[d2.asts[s]] # NoFacts
        BY <3>2, <4>1
      <4>7. Sound(d2)
        BY <2>3
      <4> HIDE DEF k, new
      <4>8. LET e == SetNext(d2, s, c \cap Mask[d2.asts[s]], m, new)
            IN  Sound(e) /\ Grows(d2, e) /\ e.asts = d2.asts
        BY <2>4, <4>3, <4>5, <4>6, <4>7, SetMaskedSound
      <4> QED
        BY <4>4, <4>8
    <3> QED
      BY <3>1, <3>2
  <2>7. Grows(d, r.dfa)
    <3>1. Len(d2.asts) \in Nat /\ Len(r.dfa.asts) \in Nat
      BY <1>1, <2>3, <2>6
    <3> QED
      BY <1>1, <2>3, <2>6, <3>1, GrowsTransitive
  <2> QED
    BY <1>3, <1>11, <2>1, <2>2, <2>3, <2>6, <2>7 DEF Moves, r
<1> QED
  BY <1>9, <1>10, <1>11 DEF r

\* getNextState keeps an automaton sound and never takes back what it has
\* cached; it leads to the derivative, but for the loss at the limit.
THEOREM GetNextStateSound ==
  ASSUME NEW d, Sound(d), NEW s \in State(d), NEW m \in Minterm, NEW c \in Context
  PROVE  LET r == GetNextState(d, s, m, c)
         IN  /\ Sound(r.dfa)
             /\ Grows(d, r.dfa)
             /\ r.to \in State(r.dfa)
             /\ Moves(d, r.dfa, r.to, Deriv[d.asts[s]][m][c])
<1> DEFINE r == GetNextState(d, s, m, c)
           k == c \cap Mask[d.asts[s]]
           to == CachedNext(d, s, k, m)
           t == Deriv[d.asts[s]][m][c]
<1>1. /\ WellFormed(d) /\ Len(d.rows) = Len(d.asts) /\ Len(d.asts) \in Nat
      /\ Len(d.asts) >= 2 /\ d.asts[s] \in Tree /\ s <= Len(d.rows)
      /\ d.asts[DeadState] = FalseTree /\ DeadState \in State(d)
      /\ ~(s > Len(d.rows))
  BY DEF Sound, WellFormed, State, DeadState
<1>2. Grows(d, d)
  BY <1>1 DEF Grows
<1>3. CASE s = DeadState
  <2>1. r = [dfa |-> d, to |-> DeadState]
    BY <1>3 DEF GetNextState
  <2>2. t = FalseTree /\ FalseTree \in Known(d)
    BY <1>1, <1>3, FalseAssumption DEF Known
  <2> QED
    BY <1>1, <1>2, <1>3, <2>1, <2>2 DEF Moves
<1>4. CASE s # DeadState /\ to # Uncached
  <2>1. r = [dfa |-> d, to |-> to]
    BY <1>1, <1>4 DEF GetNextState
  <2>2. to \in State(d) /\ Successor(d, to, t)
    <3>1. CASE k = NoFacts
      <4>1. to = d.rows[s][m]
        BY <3>1 DEF CachedNext
      <4>2. t = Deriv[d.asts[s]][m][NoFacts]
        BY <1>1, <3>1, NothingAsked
      <4>3. d.rows[s] \in [Minterm -> {Uncached} \cup State(d)]
        BY <1>1 DEF WellFormed, State
      <4> QED
        BY <1>4, <4>1, <4>2, <4>3 DEF Sound, RowsRight
    <3>2. CASE k # NoFacts
      <4> DEFINE key == <<s, k, m>>
      <4>1. key \in DOMAIN d.masked /\ to = d.masked[key]
        BY <1>4, <3>2 DEF CachedNext
      <4>2. to \in State(d)
        BY <1>1, <4>1 DEF WellFormed
      <4>3. d.asts[d.masked[key]] = t
        BY <4>1 DEF Sound, MaskedRight
      <4> QED
        BY <4>1, <4>2, <4>3 DEF Successor
    <3> QED
      BY <3>1, <3>2
  <2>3. Moves(d, d, to, t)
    BY <2>2 DEF Moves, Successor, Known
  <2> QED
    BY <1>2, <2>1, <2>2, <2>3
<1>5. CASE s # DeadState /\ to = Uncached
  <2>1. r = ComputeNext(d, s, m, c, k)
    BY <1>1, <1>5 DEF GetNextState
  <2>2. Sound(r.dfa) /\ Grows(d, r.dfa) /\ Moves(d, r.dfa, r.to, t)
    BY <1>5, <2>1, ComputeNextSound
  <2>3. r.to \in State(r.dfa)
    <3> HIDE DEF r
    <3>1. CASE r.dfa.asts = d.asts
      BY <1>1, <2>2, <3>1 DEF Moves, State
    <3>2. CASE r.dfa.asts = Append(d.asts, t) /\ r.to = Len(d.asts) + 1
      BY <1>1, <3>2 DEF WellFormed, State
    <3> QED
      BY <2>2, <3>1, <3>2 DEF Moves
  <2> QED
    BY <2>2, <2>3
<1> QED
  BY <1>3, <1>4, <1>5

=============================================================================
