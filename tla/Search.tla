------------------------------- MODULE Search -------------------------------
(***************************************************************************)
(* One search (findStringIndexFrom of regexp.go) as a machine of its own:  *)
(* an engine e, which is the compiled expression and its three automata,   *)
(* and a call r, which is the local state of the function.  Skip ahead;    *)
(* run the unanchored automaton to the first end of a match; run the       *)
(* reversed one back to the leftmost start for that end; run the forward   *)
(* one to the longest match from that start.                               *)
(*                                                                         *)
(* Each operator is one iteration of a loop, or what follows a loop, and   *)
(* gives the engine and the call after it: the engine may have grown.      *)
(***************************************************************************)
EXTENDS LazyDFA, MatchContext, FiniteSets

CONSTANT Compiled   \* Compiled[n]: what compile has made of expression n

\* Bytes of one minterm go by the byte that stands for them.
ASSUME CompiledAssumption ==
  Compiled \in [DOMAIN Compiled ->
    [forward : Tree, unanchored : Tree, reverse : Tree, byteToClass : [Minterm -> Minterm],
     prefix : Seq(Nat), prefixAny : Seq(Nat), earlyByte : Nat,
     earlyLiteralOffset : Nat, hasAssertions : BOOLEAN]]

NoPos == -1
Nil   == <<>>   \* the nil slice

Least(S) == CHOOSE x \in S : \A y \in S : x <= y

NewEngine(n) ==
  [pat        |-> n,
   forward    |-> NewLazyDFA(Compiled[n].forward),
   unanchored |-> NewLazyDFA(Compiled[n].unanchored),
   reverse    |-> NewLazyDFA(Compiled[n].reverse)]

NewCall(s, from) ==
  [ph |-> "begin", s |-> s, from |-> from, pos |-> from, st |-> RootState,
   firstEnd |-> NoPos, start |-> NoPos, end |-> NoPos, loc |-> Nil]

Return(r, loc) == [r EXCEPT !.ph = "done", !.loc = loc]

\* A Boolean answer, to stand beside the locations.
Verdict(b) == IF b THEN <<1>> ELSE <<0>>

----------------------------------------------------------------------------
(* Skipping ahead.                                                         *)

\* External (strings.Index): the offsets from i on where sub occurs.
Occurrences(s, sub, i) ==
  {p \in i..Len(s) - Len(sub) : SubSeq(s, p + 1, p + Len(sub)) = sub}

\* The offsets a range loop over s[i:] visits, one for each rune.
RuneStarts(s, i) ==
  LET visited[p \in i..Len(s)] ==
        p = i \/ \E q \in {p - 1, p - 2} :
                   q >= i /\ visited[q] /\ DecodeRune(s, q).size = p - q
  IN  {p \in i..Len(s) - 1 : visited[p]}

\* External (strings.IndexAny): both arguments are taken for text in UTF-8, so
\* that a byte above 127 in chars is an encoding error and finds errors only.
AnyOccurrences(s, chars, i) ==
  {p \in RuneStarts(s, i) :
     LET d == DecodeRune(s, p)
     IN  IF d.rune = RuneError
         THEN \E k \in RuneStarts(chars, 0) : DecodeRune(chars, k).rune = RuneError
         ELSE Occurrences(chars, SubSeq(s, p + 1, p + d.size), 0) # {}}

Candidates(p, s, i) ==
  IF p.prefix # <<>> THEN Occurrences(s, p.prefix, i)
  ELSE IF p.prefixAny # <<>> THEN AnyOccurrences(s, p.prefixAny, i)
  ELSE {i}

GatePasses(p, s, i) ==
  \/ p.earlyByte = 0 \/ <<>> = p.prefix \o p.prefixAny
  \/ i + p.earlyLiteralOffset < Len(s) /\ s[i + p.earlyLiteralOffset + 1] = p.earlyByte

\* Where the scan begins; a gated expression tries one candidate after another.
StartPositions(p, s, i) == {q \in Candidates(p, s, i) : GatePasses(p, s, q)}

----------------------------------------------------------------------------
(* The three passes.                                                       *)

Ctx(p, s, i) == IF p.hasAssertions THEN MakeMatchContext(s, i) ELSE NoContext

Accepts(p, d, st, s, i) ==
  IF p.hasAssertions THEN IsAcceptingWithContext(d, st, MakeMatchContext(s, i))
  ELSE IsAccepting(d, st)

\* One byte read by the automaton d of expression p.
ReadAt(p, d, r, i) ==
  GetNextState(d, r.st, p.byteToClass[r.s[i + 1]], Ctx(p, r.s, i))

Begin(e, r) ==
  LET p      == Compiled[e.pat]
      starts == StartPositions(p, r.s, r.from)
  IN  IF r.s = <<>> \/ r.from = Len(r.s)
      THEN Return(r, IF Accepts(p, e.forward, RootState, r.s, Len(r.s))
                     THEN <<Len(r.s), Len(r.s)>> ELSE Nil)
      ELSE IF r.from > Len(r.s) THEN Return(r, Nil)
      ELSE IF starts = {} THEN Return(r, Nil)
      ELSE [r EXCEPT !.ph = "scan", !.pos = Least(starts),
                     !.firstEnd = IF Accepts(p, e.unanchored, RootState, r.s, r.from)
                                  THEN r.from ELSE NoPos]

\* Mutant: the end of a match taken for the byte after it.
EndOffByOne(r, end) == [r EXCEPT !.firstEnd = IF end < Len(r.s) THEN end + 1 ELSE end]

EndFound(r, end) == [r EXCEPT !.firstEnd = end]

\* The loop of the first pass, and the nil return after it.
ScanForward(e, r) ==
  LET p    == Compiled[e.pat]
      next == ReadAt(p, e.unanchored, r, r.pos)
  IN  IF r.firstEnd # NoPos
      THEN [e |-> e, r |-> [r EXCEPT !.ph = "back", !.pos = r.firstEnd, !.st = RootState]]
      ELSE IF r.pos >= Len(r.s) THEN [e |-> e, r |-> Return(r, Nil)]
      ELSE IF p.hasAssertions /\ Accepts(p, e.forward, RootState, r.s, r.pos)
      THEN [e |-> e, r |-> EndFound(r, r.pos)]
      ELSE [e |-> [e EXCEPT !.unanchored = next.dfa],
            r |-> IF Accepts(p, next.dfa, next.to, r.s, r.pos + 1)
                  THEN EndFound([r EXCEPT !.st = next.to], r.pos + 1)
                  ELSE IF next.to = DeadState THEN Return(r, Nil)
                  ELSE [r EXCEPT !.st = next.to, !.pos = @ + 1]]

\* At the first end no byte has been read backwards: the context in which the
\* second pass asks its root.
BackContext(r) ==
  Facts("AtStart", TRUE) \cup Facts("AtEnd", r.firstEnd >= Len(r.s) \/ r.firstEnd = r.from)

EmptyAtEnd(e, r) ==
  IF Compiled[e.pat].hasAssertions THEN IsAcceptingWithContext(e.reverse, RootState, BackContext(r))
  ELSE IsAccepting(e.reverse, RootState)

\* Mutants: an empty match at the start not looked for; the third pass entered in
\* the state in which the second one has stopped.
EnterNotAsking(e, r, start) ==
  [r EXCEPT !.ph = "longest", !.start = start, !.pos = start, !.st = RootState]

EnterInState(e, r, start) ==
  [r EXCEPT !.ph = "longest", !.start = start, !.pos = start]

\* The third pass begins at the start the second one has found.
EnterLongest(e, r, start) ==
  [r EXCEPT !.ph = "longest", !.start = start, !.pos = start, !.st = RootState,
            !.end = IF Accepts(Compiled[e.pat], e.forward, RootState, r.s, start)
                    THEN start ELSE NoPos]

EndBack(e, r) ==
  IF r.start # NoPos THEN EnterLongest(e, r, r.start)
  ELSE IF EmptyAtEnd(e, r) THEN EnterLongest(e, r, r.firstEnd)
  ELSE Return(r, Nil)

\* Mutant: the first start found kept, which is the last one of the input.
KeepFirstStart(r, at) == IF r.start = NoPos THEN [r EXCEPT !.start = at] ELSE r

StartFound(r, at) == [r EXCEPT !.start = at]

ScanBack(e, r) ==
  LET p    == Compiled[e.pat]
      at   == r.pos - 1
      next == ReadAt(p, e.reverse, r, at)
      read == [r EXCEPT !.st = next.to, !.pos = at]
  IN  IF r.pos <= r.from THEN [e |-> e, r |-> EndBack(e, r)]
      ELSE [e |-> [e EXCEPT !.reverse = next.dfa],
            r |-> IF next.to = DeadState THEN EndBack(e, r)
                  ELSE IF Accepts(p, next.dfa, next.to, r.s, at)
                  THEN StartFound(read, at)
                  ELSE read]

\* Mutants: the end taken for that of the byte before; the position forgotten.
LongerOffByOne(r, end) == [r EXCEPT !.end = end - 1]
Stay(r, to)            == [r EXCEPT !.st = to]

Advance(r, to) == [r EXCEPT !.st = to, !.pos = @ + 1]

LongerFound(r, end) == [r EXCEPT !.end = end]

\* The loop of the third pass; its dead state ends it one iteration later.
ScanLongest(e, r) ==
  LET p    == Compiled[e.pat]
      next == ReadAt(p, e.forward, r, r.pos)
      read == Advance(r, next.to)
  IN  IF r.pos >= Len(r.s) \/ r.st = DeadState
      THEN [e |-> e, r |-> Return(r, <<r.start, r.end>>)]
      ELSE [e |-> [e EXCEPT !.forward = next.dfa],
            r |-> IF Accepts(p, next.dfa, next.to, r.s, r.pos + 1)
                  THEN LongerFound(read, r.pos + 1)
                  ELSE read]

----------------------------------------------------------------------------
(* Match: the forward automaton over the whole text, without an early exit; *)
(* a search where there are assertions.                                    *)

BeginMatch(e, r) ==
  IF Compiled[e.pat].hasAssertions THEN Begin(e, r) ELSE [r EXCEPT !.ph = "match"]

MatchNext(e, r) ==
  LET next == ReadAt(Compiled[e.pat], e.forward, r, r.pos)
  IN  IF r.pos >= Len(r.s)
      THEN [e |-> e, r |-> Return(r, Verdict(IsAccepting(e.forward, r.st)))]
      ELSE [e |-> [e EXCEPT !.forward = next.dfa], r |-> Advance(r, next.to)]

\* What Match makes of the answer of its search.
MatchReply(e, loc) == IF Compiled[e.pat].hasAssertions THEN Verdict(loc # Nil) ELSE loc

\* The next step of whatever call it is.
Step(e, r) ==
  CASE r.ph = "scan"    -> ScanForward(e, r)
    [] r.ph = "back"    -> ScanBack(e, r)
    [] r.ph = "longest" -> ScanLongest(e, r)
    [] r.ph = "match"   -> MatchNext(e, r)

=============================================================================
