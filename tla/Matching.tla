------------------------------ MODULE Matching ------------------------------
(***************************************************************************)
(* A matching loop over one lazyDFA: call after call, byte after byte, the *)
(* automaton is read and, where it has never been, built.  The calls share *)
(* the automaton, so a call runs on what earlier calls have cached.        *)
(***************************************************************************)
EXTENDS LazyDFAInvariants

CONSTANT Roots   \* the expressions an automaton may be built for

ASSUME RootsAssumption == Roots \subseteq Tree

VARIABLES dfa,   \* the automaton
          st     \* the state the current call is in

vars == <<dfa, st>>

Init == /\ \E root \in Roots : dfa = NewLazyDFA(root)
        /\ st = RootState

\* The loop's body: one more byte, in the context of its position.
ReadByte(m, c) ==
  LET r == GetNextState(dfa, st, m, c)
  IN  /\ dfa' = r.dfa
      /\ st' = r.to

\* The next call begins; a call may end after any byte.
NextCall == /\ st' = RootState
            /\ UNCHANGED dfa

Next == \/ \E m \in Minterm, c \in Context : ReadByte(m, c)
        \/ NextCall

Spec == Init /\ [][Next]_vars

----------------------------------------------------------------------------

\* Type correctness: the automaton is well-formed, the call is in a state of it.
TypeOK == WellFormed(dfa) /\ st \in State(dfa)

\* Every state is in the bucket of its tree's fingerprint, and nowhere else: a
\* state missing from its bucket would be created again and again.
IndexIsExact == Indexed(dfa)

\* No tree is a state twice, fingerprint collisions or not: lookupState compares
\* trees, not fingerprints.
StatesDistinct == Distinct(dfa)

\* Every cached transition of a dense row leads to the derivative of its
\* state's tree, unless the automaton was full when it was computed.
DenseSound == RowsRight(dfa)

\* A transition cached under a masked context is right for every context with
\* these masked facts, not only for the one it was computed in.
MaskedSound == MaskedRight(dfa)

\* isMatch is right for each state that asks nothing of its context; for the
\* others it holds the nullability in the context of their creation, and the
\* matching loops read isAcceptingWithContext instead.
MatchBitSound == MatchRight(dfa)

\* The automaton never outgrows the limit.
CapRespected == WithinLimit(dfa)

\* Whatever is cached by whichever path, a byte takes the call to the derivative
\* in the context of its position, known or learned now; and to the dead state
\* only if that is its derivative or the automaton is full.
ReadsDerivative ==
  \A m \in Minterm, c \in Context :
    LET r == GetNextState(dfa, st, m, c)
    IN  Moves(dfa, r.dfa, r.to, Deriv[dfa.asts[st]][m][c])

\* What a caller may hold on to while others run the automaton: a state number
\* keeps its tree and its match bit, a cached transition its target.
CacheOnlyGrows == [][Grows(dfa, dfa')]_dfa

\* The automaton implements the bounded automaton of derivatives: its state
\* numbers, rows and buckets are no more than a memory of it.
B == INSTANCE Brzozowski WITH
       root     <- dfa.asts[RootState],
       residual <- dfa.asts[st],
       known    <- Known(dfa),
       room     <- maxLazyDFAStates - Len(dfa.asts),
       Limit    <- maxLazyDFAStates

Implements == B!Spec

=============================================================================
