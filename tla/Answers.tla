------------------------------ MODULE Answers ------------------------------
(***************************************************************************)
(* What the answers of an engine are measured by: the matches of its       *)
(* expression in a text, given as a constant.                              *)
(***************************************************************************)
EXTENDS Search

CONSTANTS Input,   \* the texts searched
          Spans,   \* Spans[n][s]: the matches <<i, j>> of expression n in s
          None,    \* no question, no answer
          MaxLen   \* the length of the longest text

Expression == DOMAIN Compiled

\* A match lies in its text.
ASSUME SpansAssumption ==
  /\ Spans \in [Expression -> [Input -> SUBSET (Nat \X Nat)]]
  /\ \A n \in Expression, s \in Input :
       \A x \in Spans[n][s] : x[1] <= x[2] /\ x[2] <= Len(s)

\* Texts consist of bytes, and their positions have the contexts an expression
\* with assertions is asked in.
ASSUME InputAssumption ==
  /\ Input \subseteq Seq(Minterm)
  /\ MaxLen \in Nat /\ \A s \in Input : Len(s) <= MaxLen
  /\ \A n \in Expression, s \in Input :
       \A i \in 0..Len(s) : Ctx(Compiled[n], s, i) \in Context

\* None is neither a question nor an answer.
ASSUME AbsentAssumption == None \notin Seq(Int) \cup (Input \X Nat)

\* Without assertions in the expression no tree of its automata asks about its
\* context: a derivative asks about no more than what it is derived from.
ASSUME PlainAssumption ==
  /\ \A n \in Expression : ~Compiled[n].hasAssertions =>
       \A t \in {Compiled[n].forward, Compiled[n].unanchored, Compiled[n].reverse} :
         Mask[t] = NoFacts
  /\ Mask[FalseTree] = NoFacts
  /\ \A t \in Tree, m \in Minterm, c \in Context :
       Mask[t] = NoFacts => Mask[Deriv[t][m][c]] = NoFacts

\* The derivative of tree t of expression n by the byte of s at i.
DerivAt(n, t, s, i) ==
  Deriv[t][Compiled[n].byteToClass[s[i + 1]]][Ctx(Compiled[n], s, i)]

\* What is left of t when s has been read from i to j.
Residual(n, t, s, i) ==
  LET left[j \in i..Len(s)] == IF j = i THEN t ELSE DerivAt(n, left[j - 1], s, j - 1)
  IN  left

\* The same when s has been read backwards, from j to i.
ResidualBack(n, t, s, j) ==
  LET left[i \in 0..j] == IF i = j THEN t ELSE DerivAt(n, left[i + 1], s, i)
  IN  left

Accepted(n, t, s, i, j)     == Null[Residual(n, t, s, i)[j]][Ctx(Compiled[n], s, j)]
AcceptedBack(n, t, s, i, j) == Null[ResidualBack(n, t, s, j)[i]][NoContext]

\* The three trees of an expression and the language: a match is what leaves a
\* nullable tree, the unanchored tree lets any bytes go before it, and the reversed
\* one reads it backwards.  (Derivatives!DerivativeIsSound, AcceptsExactly and
\* ReverseIsSound check that the code's trees do.  Of anchors in the reversed tree
\* nothing is assumed: it asks them in contexts of the text that is not reversed.)
ASSUME DerivativeAssumption ==
  \A n \in Expression, s \in Input : \A i \in 0..Len(s) : \A j \in i..Len(s) :
    LET p == Compiled[n]
    IN  /\ Accepted(n, p.forward, s, i, j) <=> <<i, j>> \in Spans[n][s]
        /\ Accepted(n, p.unanchored, s, i, j) <=> \E k \in i..j : <<k, j>> \in Spans[n][s]
        /\ ~p.hasAssertions =>
             (AcceptedBack(n, p.reverse, s, i, j) <=> <<i, j>> \in Spans[n][s])

Automata(e) == {e.forward, e.unanchored, e.reverse}

\* The automaton a call is in.
Running(e, r) == CASE r.ph = "back"                 -> e.reverse
                   [] r.ph \in {"longest", "match"} -> e.forward
                   [] OTHER                         -> e.unanchored

Full(e) == \E d \in Automata(e) : ~HasRoom(d)

SpansFrom(n, s, from) == {x \in Spans[n][s] : x[1] >= from}

\* The filters of an expression lose no match: none begins before the first
\* position they let through, and an expression that has them matches no empty
\* text.  (They do lose one where a start class has bytes above 127.)
FiltersKeepMatches(n) ==
  \A s \in Input : \A from \in 0..Len(s) - 1 :
    LET starts == StartPositions(Compiled[n], s, from)
    IN  \A x \in SpansFrom(n, s, from) :
          /\ starts # {}
          /\ Least(starts) <= x[1]
          /\ Least(starts) # from => x[1] < x[2]

\* What a search means to return: of the matches at or after from, those that
\* end first; of these the leftmost start; from there the longest match.
FirstEnding(n, s, from) ==
  LET spans == SpansFrom(n, s, from)
      end   == Least({x[2] : x \in spans})
      start == Least({x[1] : x \in {y \in spans : y[2] = end}})
      ends  == {x[2] : x \in {y \in spans : y[1] = start}}
  IN  IF spans = {} THEN Nil
      ELSE <<start, CHOOSE j \in ends : \A k \in ends : j >= k>>

\* What a search may return once an automaton is full.
PoorerLocations(n, s, from) ==
  {Nil} \cup SpansFrom(n, s, from) \cup {<<i, NoPos>> : i \in 0..Len(s)}

\* Match asks whether the whole text is a match (regexp.go:91, api_test.go:53); with
\* assertions, whether the text holds one (regexp.go:84).  The documentation says
\* the latter of both (api.go:9, regexp.go:74): for abc|b and the text ab it
\* promises true, and the code answers false.
MatchAnswer(n, s) ==
  Verdict(IF Compiled[n].hasAssertions THEN Spans[n][s] # {} ELSE <<0, Len(s)>> \in Spans[n][s])

=============================================================================
