--------------------------- MODULE MatchingProofs ---------------------------
(***************************************************************************)
(* The automaton stays sound however it is run, and implements the         *)
(* automaton of derivatives, for all trees, contexts and limits.           *)
(***************************************************************************)
EXTENDS Matching, LazyDFAProofs

\* The inductive invariant: what the runs check, all at once.  No part of it is
\* inductive alone: a row is right because lookupState finds trees, lookupState
\* finds trees because the index is exact, and the index is exact because the
\* slices have one length.
Inv == Sound(dfa) /\ st \in State(dfa)

LEMMA InitInv == Init => Inv
<1> SUFFICES ASSUME NEW root \in Roots, dfa = NewLazyDFA(root), st = RootState
             PROVE  Inv
  BY DEF Init
<1>1. root \in Tree
  BY RootsAssumption
<1>2. Sound(dfa) /\ dfa.asts = <<root, FalseTree>>
  BY <1>1, NewSound
<1>3. st \in State(dfa)
  <2>1. Len(dfa.asts) = 2
    BY <1>2
  <2> QED
    BY <2>1 DEF State, RootState
<1> QED
  BY <1>2, <1>3 DEF Inv

\* One byte read: the automaton grows, and moves as its derivative says.
LEMMA ReadByteSound ==
  ASSUME Inv, NEW m \in Minterm, NEW c \in Context, ReadByte(m, c)
  PROVE  /\ Inv'
         /\ Grows(dfa, dfa')
         /\ Moves(dfa, dfa', st', Deriv[dfa.asts[st]][m][c])
<1> DEFINE r == GetNextState(dfa, st, m, c)
<1>1. dfa' = r.dfa /\ st' = r.to
  BY DEF ReadByte
<1>2. /\ Sound(r.dfa) /\ Grows(dfa, r.dfa) /\ r.to \in State(r.dfa)
      /\ Moves(dfa, r.dfa, r.to, Deriv[dfa.asts[st]][m][c])
  BY GetNextStateSound DEF Inv
<1> QED
  BY <1>1, <1>2 DEF Inv

LEMMA NextCallSound ==
  ASSUME Inv, NextCall
  PROVE  Inv' /\ dfa' = dfa
<1>1. Len(dfa.asts) \in Nat /\ Len(dfa.asts) >= 2
  BY DEF Inv, Sound, WellFormed
<1> QED
  BY <1>1 DEF Inv, NextCall, State, RootState

LEMMA StepInv == Inv /\ [Next]_vars => Inv'
<1> SUFFICES ASSUME Inv, [Next]_vars
             PROVE  Inv'
  OBVIOUS
<1>1. ASSUME NEW m \in Minterm, NEW c \in Context, ReadByte(m, c)
      PROVE  Inv'
  BY <1>1, ReadByteSound
<1>2. CASE NextCall
  BY <1>2, NextCallSound
<1>3. CASE UNCHANGED vars
  BY <1>3 DEF vars, Inv
<1> QED
  BY <1>1, <1>2, <1>3 DEF Next

\* All that the runs of Matching check of single states holds in every reachable
\* state of every automaton.
THEOREM Invariance == Spec => []Inv
<1>1. Init => Inv
  BY InitInv
<1>2. Inv /\ [Next]_vars => Inv'
  BY StepInv
<1> QED
  BY <1>1, <1>2, PTL DEF Spec

\* The automaton is well-formed between any two calls of its methods.
THEOREM TypeCorrect == Spec => []TypeOK
<1>1. Inv => TypeOK
  BY DEF Inv, Sound, TypeOK
<1> QED
  BY <1>1, Invariance, PTL

\* lookupState's buckets list every state, once, under its fingerprint.
THEOREM IndexCorrect == Spec => []IndexIsExact
<1>1. Inv => IndexIsExact
  BY DEF Inv, Sound, IndexIsExact
<1> QED
  BY <1>1, Invariance, PTL

\* Colliding fingerprints neither merge two trees nor double one.
THEOREM DistinctCorrect == Spec => []StatesDistinct
<1>1. Inv => StatesDistinct
  BY DEF Inv, Sound, StatesDistinct
<1> QED
  BY <1>1, Invariance, PTL

\* Whatever a dense row holds is the derivative, or a loss at the limit.
THEOREM DenseCorrect == Spec => []DenseSound
<1>1. Inv => DenseSound
  BY DEF Inv, Sound, DenseSound
<1> QED
  BY <1>1, Invariance, PTL

\* Whatever a masked row holds is the derivative in all contexts it serves.
THEOREM MaskedCorrect == Spec => []MaskedSound
<1>1. Inv => MaskedSound
  BY DEF Inv, Sound, MaskedSound
<1> QED
  BY <1>1, Invariance, PTL

\* isMatch answers for the states that need no context.
THEOREM MatchBitCorrect == Spec => []MatchBitSound
<1>1. Inv => MatchBitSound
  BY DEF Inv, Sound, MatchBitSound
<1> QED
  BY <1>1, Invariance, PTL

\* maxLazyDFAStates bounds the memory of an automaton.
THEOREM CapCorrect == Spec => []CapRespected
<1>1. Inv => CapRespected
  BY DEF Inv, Sound, CapRespected
<1> QED
  BY <1>1, Invariance, PTL

\* The successor returned is the tree's derivative, from the cache or not.
THEOREM ReadsCorrect == Spec => []ReadsDerivative
<1>1. Inv => ReadsDerivative
  <2> SUFFICES ASSUME Inv, NEW m \in Minterm, NEW c \in Context
               PROVE  LET r == GetNextState(dfa, st, m, c)
                      IN  Moves(dfa, r.dfa, r.to, Deriv[dfa.asts[st]][m][c])
    BY DEF ReadsDerivative
  <2> QED
    BY GetNextStateSound DEF Inv
<1> QED
  BY <1>1, Invariance, PTL

\* No step takes back a state or a transition.
THEOREM GrowthCorrect == Spec => CacheOnlyGrows
<1>1. Inv /\ [Next]_vars => [Grows(dfa, dfa')]_dfa
  <2> SUFFICES ASSUME Inv, [Next]_vars
               PROVE  [Grows(dfa, dfa')]_dfa
    OBVIOUS
  <2>1. ASSUME NEW m \in Minterm, NEW c \in Context, ReadByte(m, c)
        PROVE  Grows(dfa, dfa')
    BY <2>1, ReadByteSound
  <2>2. CASE NextCall
    BY <2>2, NextCallSound
  <2>3. CASE UNCHANGED vars
    BY <2>3 DEF vars
  <2> QED
    BY <2>1, <2>2, <2>3 DEF Next
<1> QED
  BY <1>1, Invariance, PTL DEF Spec, CacheOnlyGrows

----------------------------------------------------------------------------

LEMMA InitRefines == Init => B!Init
<1> SUFFICES ASSUME NEW root \in Roots, dfa = NewLazyDFA(root), st = RootState
             PROVE  B!Init
  BY DEF Init
<1>1. root \in Tree
  BY RootsAssumption
<1>2. dfa.asts = <<root, FalseTree>>
  BY <1>1, NewSound
<1>3. Len(dfa.asts) = 2 /\ dfa.asts[1] = root /\ dfa.asts[2] = FalseTree
  BY <1>2
<1>4. Known(dfa) = {root, FalseTree}
  BY <1>3 DEF Known, State
<1>5. maxLazyDFAStates - Len(dfa.asts) = maxLazyDFAStates - 2
  BY <1>3
<1> QED
  BY <1>1, <1>3, <1>4, <1>5 DEF B!Init, RootState

\* Reaching, learning and losing a derivative are what Brzozowski.tla calls by
\* these names.
LEMMA ReadByteRefines ==
  ASSUME Inv, NEW m \in Minterm, NEW c \in Context, ReadByte(m, c)
  PROVE  B!Read
<1> DEFINE t == Deriv[dfa.asts[st]][m][c]
           n == Len(dfa.asts)
<1>1. Moves(dfa, dfa', st', t)
  BY ReadByteSound
<1>2. /\ WellFormed(dfa) /\ n \in Nat /\ n >= 2 /\ dfa.asts \in Seq(Tree)
      /\ maxLazyDFAStates \in Nat /\ State(dfa) = 1..n
  <2>1. WellFormed(dfa)
    BY DEF Inv, Sound
  <2>2. n \in Nat /\ n >= 2 /\ dfa.asts \in Seq(Tree)
    BY <2>1 DEF WellFormed
  <2> QED
    BY <2>1, <2>2, TreeAssumption DEF State
<1>3. HasRoom(dfa) <=> maxLazyDFAStates - n > 0
  BY <1>2 DEF HasRoom
<1> HIDE DEF t
<1>4. CASE t \in Known(dfa) /\ dfa'.asts = dfa.asts /\ st' \in State(dfa)
           /\ dfa.asts[st'] = t
  <2>1. Known(dfa)' = Known(dfa)
    BY <1>4 DEF Known, State
  <2>2. B!Reach(t)
    BY <1>4, <2>1 DEF B!Reach
  <2> QED
    BY <2>2 DEF B!Read, t
<1>5. CASE t \notin Known(dfa) /\ HasRoom(dfa) /\ dfa'.asts = Append(dfa.asts, t)
           /\ st' = n + 1
  <2>1. /\ Len(dfa'.asts) = n + 1 /\ dfa'.asts[n + 1] = t
        /\ \A s \in 1..n : dfa'.asts[s] = dfa.asts[s]
    BY <1>2, <1>5
  <2>2. Known(dfa)' = Known(dfa) \cup {t}
    <3>1. Known(dfa)' = {dfa'.asts[s] : s \in 1..(n + 1)}
      BY <2>1 DEF Known, State
    <3>2. 1..(n + 1) = 1..n \cup {n + 1}
      BY <1>2
    <3>3. Known(dfa) = {dfa.asts[s] : s \in 1..n}
      BY DEF Known, State
    <3> QED
      BY <2>1, <3>1, <3>2, <3>3
  <2>3. dfa'.asts[RootState] = dfa.asts[RootState]
    BY <1>2, <2>1 DEF RootState
  <2>4. maxLazyDFAStates - Len(dfa'.asts) = (maxLazyDFAStates - n) - 1
    BY <1>2, <2>1
  <2>5. B!Learn(t)
    BY <1>3, <1>5, <2>1, <2>2, <2>3, <2>4 DEF B!Learn
  <2> QED
    BY <2>5 DEF B!Read, t
<1>6. CASE t \notin Known(dfa) /\ ~HasRoom(dfa) /\ dfa'.asts = dfa.asts
           /\ st' = DeadState
  <2>1. Known(dfa)' = Known(dfa)
    BY <1>6 DEF Known, State
  <2>2. dfa'.asts[st'] = FalseTree
    BY <1>2, <1>6 DEF WellFormed
  <2>3. maxLazyDFAStates - n <= 0
    BY <1>2, <1>3, <1>6
  <2>4. B!Lose(t)
    BY <1>6, <2>1, <2>2, <2>3 DEF B!Lose
  <2> QED
    BY <2>4 DEF B!Read, t
<1> QED
  BY <1>1, <1>4, <1>5, <1>6 DEF Moves

\* State numbers, rows and buckets are no more than a memory: every run of the
\* automaton is a run of the bounded automaton of derivatives.
THEOREM Refinement == Spec => Implements
<1>1. Init => B!Init
  BY InitRefines
<1>2. Inv /\ [Next]_vars => [B!Next]_B!vars
  <2> SUFFICES ASSUME Inv, [Next]_vars
               PROVE  [B!Next]_B!vars
    OBVIOUS
  <2>1. ASSUME NEW m \in Minterm, NEW c \in Context, ReadByte(m, c)
        PROVE  B!Next
    BY <2>1, ReadByteRefines DEF B!Next
  <2>2. CASE NextCall
    <3>1. dfa' = dfa /\ st' = RootState
      BY <2>2 DEF NextCall
    <3>2. B!Restart
      BY <3>1 DEF B!Restart, Known, State
    <3> QED
      BY <3>2 DEF B!Next
  <2>3. CASE UNCHANGED vars
    <3>1. dfa' = dfa /\ st' = st
      BY <2>3 DEF vars
    <3>2. UNCHANGED B!vars
      BY <3>1 DEF B!vars, Known, State
    <3> QED
      BY <3>2
  <2> QED
    BY <2>1, <2>2, <2>3 DEF Next
<1> QED
  BY <1>1, <1>2, Invariance, PTL DEF Spec, Implements, B!Spec

=============================================================================
