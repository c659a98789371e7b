-------------------------- MODULE ConcurrentProofs --------------------------
(***************************************************************************)
(* For any number of goroutines, texts and expressions that meet the       *)
(* assumptions of Answers.tla: the lock discipline of concurrent.go keeps  *)
(* readers and writers of the automata apart, the automata stay sound, and *)
(* what a goroutine is told is what its expression alone would say.        *)
(***************************************************************************)
EXTENDS Concurrent, SearchProofs

----------------------------------------------------------------------------
(* The passes over cached transitions.                                     *)

\* A transition that is cached is the one the automaton would take, and taking it
\* changes nothing.
LEMMA CachedReads ==
  ASSUME NEW e, IsEngine(e), ~Compiled[e.pat].hasAssertions,
         NEW root, NEW d, AutomatonOf(e.pat, root, d),
         NEW r, r.st \in State(d), NEW i, CachedAt(e, d, r, i) # Uncached
  PROVE  ReadAt(Compiled[e.pat], d, r, i) = [dfa |-> d, to |-> CachedAt(e, d, r, i)]
<1> DEFINE m == Compiled[e.pat].byteToClass[r.s[i + 1]]
<1>1. /\ Len(d.rows) = Len(d.asts) /\ Len(d.asts) \in Nat
      /\ Mask[d.asts[r.st]] = NoFacts
  BY DEF AutomatonOf, AsksNothing, Sound, WellFormed
<1>2. ReadAt(Compiled[e.pat], d, r, i) = GetNextState(d, r.st, m, NoFacts)
  BY DEF ReadAt, Ctx, NoContext, NoFacts
<1>3. CachedAt(e, d, r, i) = GetNextStateCached(d, r.st, m, NoFacts)
  BY DEF CachedAt, NoContext, NoFacts
<1> HIDE DEF m
<1>4. CASE r.st = DeadState
  BY <1>2, <1>3, <1>4 DEF GetNextState, GetNextStateCached
<1>5. CASE r.st # DeadState
  <2>1. r.st \in 1..Len(d.rows) /\ ~(r.st > Len(d.rows))
    BY <1>1 DEF State
  <2>2. CachedAt(e, d, r, i) = d.rows[r.st][m]
    BY <1>3, <1>5, <2>1 DEF GetNextStateCached
  <2>3. NoFacts \cap Mask[d.asts[r.st]] = NoFacts
    BY DEF NoFacts
  <2> QED
    BY <1>2, <1>5, <2>1, <2>2, <2>3 DEF GetNextState, CachedNext
<1> QED
  BY <1>4, <1>5

LEMMA ScanCachedIs ==
  ASSUME NEW e, IsEngine(e), ~Compiled[e.pat].hasAssertions,
         NEW r, IsCall(r), r.ph = "scan", Scanning(e, r)
  PROVE  LET q == ScanCached(e, r)
         IN  q.ph = "miss" \/ ScanForward(e, r) = [e |-> e, r |-> q]
<1> DEFINE p    == Compiled[e.pat]
           to   == CachedAt(e, e.unanchored, r, r.pos)
           next == ReadAt(p, e.unanchored, r, r.pos)
           q    == ScanCached(e, r)
<1>1. Miss(r).ph = "miss"
  BY DEF Miss, IsCall, CallField
<1>2. CASE r.firstEnd # NoPos
  BY <1>2 DEF ScanCached, ScanForward
<1>3. CASE r.firstEnd = NoPos /\ r.pos >= Len(r.s)
  BY <1>3 DEF ScanCached, ScanForward
<1>4. CASE r.firstEnd = NoPos /\ ~(r.pos >= Len(r.s)) /\ to = Uncached
  BY <1>1, <1>4 DEF ScanCached
<1>5. CASE r.firstEnd = NoPos /\ ~(r.pos >= Len(r.s)) /\ to # Uncached
  <2>1. r.st \in State(e.unanchored) /\ AutomatonOf(e.pat, p.unanchored, e.unanchored)
    BY DEF Scanning, IsEngine
  <2>2. next = [dfa |-> e.unanchored, to |-> to]
    BY <1>5, <2>1, CachedReads
  <2>3. next.dfa = e.unanchored /\ next.to = to
    BY <2>2
  <2>4. Accepts(p, e.unanchored, to, r.s, r.pos + 1) = IsAccepting(e.unanchored, to)
    BY DEF Accepts
  <2>5. [e EXCEPT !.unanchored = e.unanchored] = e
    BY DEF IsEngine
  <2>6. q = IF IsAccepting(e.unanchored, to) THEN EndFound([r EXCEPT !.st = to], r.pos + 1)
            ELSE IF to = DeadState THEN Return(r, Nil) ELSE Advance(r, to)
    BY <1>5 DEF ScanCached
  <2>7. ScanForward(e, r) =
          [e |-> [e EXCEPT !.unanchored = next.dfa],
           r |-> IF Accepts(p, next.dfa, next.to, r.s, r.pos + 1)
                 THEN EndFound([r EXCEPT !.st = next.to], r.pos + 1)
                 ELSE IF next.to = DeadState THEN Return(r, Nil) ELSE Advance(r, next.to)]
    BY <1>5 DEF ScanForward, Advance
  <2>8. ScanForward(e, r) = [e |-> e, r |-> q]
    <3> HIDE DEF q, next, to
    <3> QED
      BY <2>3, <2>4, <2>5, <2>6, <2>7, Zenon
  <2> QED
    BY <2>8
<1> QED
  BY <1>2, <1>3, <1>4, <1>5

LEMMA LongestCachedIs ==
  ASSUME NEW e, IsEngine(e), ~Compiled[e.pat].hasAssertions,
         NEW r, IsCall(r), r.ph = "longest", Extending(e, r)
  PROVE  LET q == LongestCached(e, r)
         IN  q.ph = "miss" \/ ScanLongest(e, r) = [e |-> e, r |-> q]
<1> DEFINE p    == Compiled[e.pat]
           to   == CachedAt(e, e.forward, r, r.pos)
           next == ReadAt(p, e.forward, r, r.pos)
           q    == LongestCached(e, r)
           ends == r.pos >= Len(r.s) \/ r.st = DeadState
<1>1. Miss(r).ph = "miss"
  BY DEF Miss, IsCall, CallField
<1>2. ~(r.pos < 0)
  <2>1. r.from \in Nat /\ r.start \in r.from..r.firstEnd /\ r.pos \in r.start..Len(r.s)
    BY SpansFacts DEF Extending, StartKnown
  <2> QED
    BY <2>1
<1>3. CASE ends
  BY <1>3 DEF LongestCached, ScanLongest
<1>4. CASE ~ends /\ to = Uncached
  BY <1>1, <1>2, <1>4 DEF LongestCached
<1>5. CASE ~ends /\ to # Uncached
  <2>1. r.st \in State(e.forward) /\ AutomatonOf(e.pat, p.forward, e.forward)
    BY DEF Extending, IsEngine, Stands
  <2>2. next = [dfa |-> e.forward, to |-> to]
    BY <1>5, <2>1, CachedReads
  <2>3. next.dfa = e.forward /\ next.to = to
    BY <2>2
  <2>4. Accepts(p, e.forward, to, r.s, r.pos + 1) = IsAccepting(e.forward, to)
    BY DEF Accepts
  <2>5. [e EXCEPT !.forward = e.forward] = e
    BY DEF IsEngine
  <2>6. q = IF IsAccepting(e.forward, to) THEN LongerFound(Advance(r, to), r.pos + 1)
            ELSE Advance(r, to)
    BY <1>2, <1>5 DEF LongestCached
  <2>7. ScanLongest(e, r) =
          [e |-> [e EXCEPT !.forward = next.dfa],
           r |-> IF Accepts(p, next.dfa, next.to, r.s, r.pos + 1)
                 THEN LongerFound(Advance(r, next.to), r.pos + 1)
                 ELSE Advance(r, next.to)]
    BY <1>5 DEF ScanLongest
  <2>8. ScanLongest(e, r) = [e |-> e, r |-> q]
    <3> HIDE DEF q, next, to
    <3> QED
      BY <2>3, <2>4, <2>5, <2>6, <2>7, Zenon
  <2> QED
    BY <2>8
<1> QED
  BY <1>3, <1>4, <1>5

LEMMA MatchCachedIs ==
  ASSUME NEW e, IsEngine(e), ~Compiled[e.pat].hasAssertions,
         NEW r, IsCall(r), r.ph = "match", Reading(e, r)
  PROVE  LET q == MatchCached(e, r)
         IN  q.ph = "miss" \/ MatchNext(e, r) = [e |-> e, r |-> q]
<1> DEFINE p    == Compiled[e.pat]
           to   == CachedAt(e, e.forward, r, r.pos)
           next == ReadAt(p, e.forward, r, r.pos)
           q    == MatchCached(e, r)
<1>1. Miss(r).ph = "miss"
  BY DEF Miss, IsCall, CallField
<1>2. CASE r.pos >= Len(r.s)
  BY <1>2 DEF MatchCached, MatchNext
<1>3. CASE ~(r.pos >= Len(r.s)) /\ to = Uncached
  BY <1>1, <1>3 DEF MatchCached
<1>4. CASE ~(r.pos >= Len(r.s)) /\ to # Uncached
  <2>1. r.st \in State(e.forward) /\ AutomatonOf(e.pat, p.forward, e.forward)
    BY DEF Reading, IsEngine, Stands
  <2>2. next = [dfa |-> e.forward, to |-> to]
    BY <1>4, <2>1, CachedReads
  <2>3. next.dfa = e.forward /\ next.to = to
    BY <2>2
  <2>4. [e EXCEPT !.forward = e.forward] = e
    BY DEF IsEngine
  <2>5. q = Advance(r, to)
    BY <1>4 DEF MatchCached
  <2>6. MatchNext(e, r) = [e |-> [e EXCEPT !.forward = next.dfa], r |-> Advance(r, next.to)]
    BY <1>4 DEF MatchNext
  <2>7. MatchNext(e, r) = [e |-> e, r |-> q]
    <3> HIDE DEF q, next, to
    <3> QED
      BY <2>3, <2>4, <2>5, <2>6, Zenon
  <2> QED
    BY <2>7
<1> QED
  BY <1>2, <1>3, <1>4

\* A start that is lost: the position is negative, and the next step indexes the
\* text with it.
LostStart(e, r) ==
  /\ IsCall(r)
  /\ r.ph = "longest"
  /\ r.pos = NoPos
  /\ r.st = RootState
  /\ ~HasRoom(e.reverse)

\* Where the full search gives up the cached one goes on, which it comes to only
\* in a reverse automaton that is full.
LEMMA EndBackCachedFits ==
  ASSUME NEW e, IsEngine(e), ~Compiled[e.pat].hasAssertions,
         NEW r, IsCall(r), Backing(e, r),
         HasRoom(e.reverse) => \A i \in r.from..r.pos - 1 : ~StartsAt(e, r, i)
  PROVE  LET q == EndBackCached(e, r)
         IN  \/ SearchCall(e, q) /\ q.ph # "begin" /\ q.s = r.s /\ q.from = r.from
             \/ LostStart(e, q)
<1> DEFINE q == EndBackCached(e, r)
<1>1. EmptyAtEnd(e, r) = IsAccepting(e.reverse, RootState)
  BY DEF EmptyAtEnd
<1>2. CASE r.start # NoPos \/ EmptyAtEnd(e, r)
  <2>1. q = EndBack(e, r)
    BY <1>1, <1>2 DEF EndBackCached, EndBack
  <2>2. SearchCall(e, EndBack(e, r)) /\ EndBack(e, r).ph # "begin"
        /\ EndBack(e, r).s = r.s /\ EndBack(e, r).from = r.from
    BY EndBackFits
  <2> QED
    BY <2>1, <2>2
<1>3. CASE r.start = NoPos /\ ~EmptyAtEnd(e, r)
  <2>1. ~HasRoom(e.reverse)
    BY <1>3, StartIsFound
  <2>2. q = EnterLongest(e, r, NoPos)
    BY <1>1, <1>3 DEF EndBackCached
  <2>3. LostStart(e, EnterLongest(e, r, NoPos))
    BY <2>1 DEF LostStart, EnterLongest, IsCall, CallField
  <2> QED
    BY <2>2, <2>3
<1> QED
  BY <1>2, <1>3

LEMMA BackCachedFits ==
  ASSUME NEW e, IsEngine(e), ~Compiled[e.pat].hasAssertions,
         NEW r, IsCall(r), r.ph = "back", Backing(e, r), r.from = 0
  PROVE  LET q == BackCached(e, r)
         IN  \/ q.ph = "miss"
             \/ SearchCall(e, q) /\ q.ph # "begin" /\ q.s = r.s /\ q.from = r.from
             \/ LostStart(e, q)
<1> DEFINE p    == Compiled[e.pat]
           at   == r.pos - 1
           to   == CachedAt(e, e.reverse, r, at)
           next == ReadAt(p, e.reverse, r, at)
           q    == BackCached(e, r)
           read == [r EXCEPT !.st = to, !.pos = at]
<1>1. Miss(r).ph = "miss"
  BY DEF Miss, IsCall, CallField
<1>2. r.pos \in Nat /\ r.st \in State(e.reverse) /\ AutomatonOf(e.pat, p.reverse, e.reverse)
  <2>1. r.firstEnd \in r.from..Len(r.s) /\ r.pos \in r.from..r.firstEnd
    BY DEF Backing, EndKnown
  <2> QED
    BY <2>1 DEF Backing, IsEngine
<1>3. CASE r.pos = 0
  <2>1. q = EndBackCached(e, r)
    BY <1>3 DEF BackCached
  <2>2. r.from..r.pos - 1 = {}
    BY <1>3
  <2> QED
    BY <2>1, <2>2, EndBackCachedFits
<1>4. CASE r.pos # 0 /\ to = Uncached
  BY <1>1, <1>2, <1>4 DEF BackCached
<1>5. CASE r.pos # 0 /\ to # Uncached
  <2>1. r.pos > r.from /\ ~(r.pos <= 0) /\ ~(r.pos <= r.from)
    BY <1>2, <1>5
  <2>2. next = [dfa |-> e.reverse, to |-> to]
    BY <1>2, <1>5, CachedReads
  <2>3. next.dfa = e.reverse /\ next.to = to
    BY <2>2
  <2>4. CASE to = DeadState
    <3>1. q = EndBackCached(e, r)
      BY <1>5, <2>1, <2>4 DEF BackCached
    <3>2. ASSUME HasRoom(e.reverse), NEW i \in r.from..r.pos - 1
          PROVE  ~StartsAt(e, r, i)
      BY <2>1, <2>3, <2>4, <3>2, NothingBefore
    <3> QED
      BY <3>1, <3>2, EndBackCachedFits
  <2>5. CASE to # DeadState
    <3>1. q = IF IsAccepting(e.reverse, to) THEN StartFound(read, at) ELSE read
      BY <1>5, <2>1, <2>5 DEF BackCached
    <3>2. Accepts(p, e.reverse, to, r.s, at) = IsAccepting(e.reverse, to)
      BY DEF Accepts
    <3>3. [e EXCEPT !.reverse = e.reverse] = e
      BY DEF IsEngine
    <3>4. ScanBack(e, r) =
            [e |-> [e EXCEPT !.reverse = next.dfa],
             r |-> IF next.to = DeadState THEN EndBack(e, r)
                   ELSE IF Accepts(p, next.dfa, next.to, r.s, at)
                   THEN StartFound([r EXCEPT !.st = next.to, !.pos = at], at)
                   ELSE [r EXCEPT !.st = next.to, !.pos = at]]
      BY <2>1 DEF ScanBack
    <3>5. ScanBack(e, r) = [e |-> e, r |-> q]
      <4>1. ScanBack(e, r) =
              [e |-> e,
               r |-> IF to = DeadState THEN EndBack(e, r)
                     ELSE IF IsAccepting(e.reverse, to)
                     THEN StartFound(read, at) ELSE read]
        <5> HIDE DEF q, next, to, at
        <5> QED
          BY <2>3, <3>2, <3>3, <3>4, Zenon
      <4> HIDE DEF q, next, to, read, at
      <4> QED
        BY <2>5, <3>1, <4>1
    <3>6. LET step == ScanBack(e, r)
          IN  Follows(e, r, step.e, step.r) /\ SearchCall(step.e, step.r)
      BY ScanBackFits
    <3> QED
      BY <3>5, <3>6 DEF Follows
  <2> QED
    BY <2>4, <2>5
<1> QED
  BY <1>3, <1>4, <1>5

\* The literal prefix alone lets at least the positions through that all filters do.
LEMMA BeginCachedFits ==
  ASSUME NEW e, IsEngine(e), NEW r, IsCall(r), Begun(e, r), r.from = 0
  PROVE  LET q == BeginCached(e, r)
         IN  \/ q.ph = "miss"
             \/ /\ ~Compiled[e.pat].hasAssertions
                /\ SearchCall(e, q) /\ q.ph # "begin" /\ q.s = r.s /\ q.from = r.from
<1> DEFINE n      == e.pat
           p      == Compiled[n]
           spans  == SpansFrom(n, r.s, 0)
           passed == StartPositions(p, r.s, 0)
           starts == IF p.prefix # <<>> THEN Occurrences(r.s, p.prefix, 0) ELSE {0}
           q      == BeginCached(e, r)
<1>1. /\ n \in Expression /\ r.s \in Input /\ Len(r.s) \in Nat
      /\ \A x \in spans : x[1] \in Nat
      /\ r.pos = 0 /\ r.firstEnd = NoPos /\ r.start = NoPos /\ r.end = NoPos
      /\ r.from # Len(r.s) <=> r.s # <<>>
  <2>1. Len(r.s) = 0 <=> r.s = <<>>
    BY InputAssumption, SpansFacts
  <2> QED
    BY <2>1, SpansFacts DEF Begun
<1>2. Miss(r).ph = "miss"
  BY DEF Miss, IsCall, CallField
<1>3. CASE p.hasAssertions
  BY <1>2, <1>3 DEF BeginCached
<1>4. CASE ~p.hasAssertions /\ r.s = <<>>
  <2>1. /\ Len(r.s) = 0 /\ r.from = Len(r.s)
        /\ Accepts(p, e.forward, RootState, r.s, Len(r.s)) = IsAccepting(e.forward, RootState)
    BY <1>1, <1>4 DEF Accepts
  <2>2. q = Return(r, IF Accepts(p, e.forward, RootState, r.s, Len(r.s))
                      THEN <<Len(r.s), Len(r.s)>> ELSE Nil)
    BY <1>4, <2>1 DEF BeginCached
  <2> HIDE DEF q
  <2>3. SearchCall(e, q)
    BY <2>1, <2>2, EndOfText
  <2> QED
    BY <1>4, <2>2, <2>3, ReturnIs DEF q
<1>5. CASE ~p.hasAssertions /\ r.s # <<>>
  <2>1. /\ starts \subseteq 0..Len(r.s)
        /\ passed \subseteq starts \/ p.prefix = <<>>
    <3>1. Len(p.prefix) \in Nat
      BY <1>1, CompiledAssumption DEF Expression
    <3>2. Occurrences(r.s, p.prefix, 0) \subseteq 0..Len(r.s)
      <4> DEFINE sub == p.prefix
                 len == Len(r.s)
      <4>1. Len(sub) \in Nat /\ len \in Nat
        BY <1>1, <3>1
      <4>2. Occurrences(r.s, sub, 0) \subseteq 0..len - Len(sub)
        BY Zenon DEF Occurrences
      <4> HIDE DEF sub, len
      <4>3. 0..len - Len(sub) \subseteq 0..len
        BY <4>1
      <4> QED
        BY <4>2, <4>3 DEF sub, len
    <3>3. passed \subseteq Candidates(p, r.s, 0)
      BY Zenon DEF StartPositions
    <3>4. p.prefix # <<>> => Candidates(p, r.s, 0) = Occurrences(r.s, p.prefix, 0)
      BY DEF Candidates
    <3>5. 0 \in 0..Len(r.s)
      BY <1>1
    <3> HIDE DEF passed
    <3> QED
      BY <3>2, <3>3, <3>4, <3>5
  <2>2. FiltersKeepMatches(n) =>
          \A x \in spans : /\ passed # {} /\ Least(passed) <= x[1]
                           /\ Least(passed) # 0 => x[1] < x[2]
    <3>1. r.from \in 0..Len(r.s) - 1
      BY <1>1, <1>5
    <3> QED
      BY <1>1, <3>1, Zenon DEF FiltersKeepMatches
  <2>3. CASE starts = {}
    <3>1. q = Return(r, Nil)
      BY <1>5, <2>3 DEF BeginCached
    <3>2. FiltersKeepMatches(n) => SpansFrom(n, r.s, r.from) = {}
      <4>1. passed = {}
        BY <2>1, <2>3
      <4> QED
        BY <2>2, <4>1
    <3> HIDE DEF q
    <3>3. SearchCall(e, q)
      BY <1>1, <3>1, <3>2, GivesUp
    <3> QED
      BY <1>5, <3>1, <3>3, ReturnIs DEF q
  <2>4. CASE starts # {}
    <3> DEFINE first == Least(starts)
               known == IF IsAccepting(e.unanchored, RootState) THEN 0 ELSE NoPos
    <3>1. first \in starts /\ \A y \in starts : first <= y
      <4>1. starts \in SUBSET Nat
        BY <1>1, <2>1
      <4> HIDE DEF starts
      <4> QED
        BY <2>4, <4>1, LeastIs
    <3>2. first \in r.from..Len(r.s)
      BY <1>1, <2>1, <3>1
    <3>3. FiltersKeepMatches(n) =>
            \A x \in SpansFrom(n, r.s, r.from) :
              first <= x[1] /\ (first # r.from => x[1] < x[2])
      <4> SUFFICES ASSUME FiltersKeepMatches(n), NEW x \in spans
                   PROVE  first <= x[1] /\ (first # 0 => x[1] < x[2])
        OBVIOUS
      <4>1. passed # {} /\ Least(passed) <= x[1] /\ (Least(passed) # 0 => x[1] < x[2])
        BY <2>2
      <4>2. Least(passed) \in passed /\ passed \subseteq 0..Len(r.s)
        <5>1. passed \subseteq 0..Len(r.s)
          <6>1. 0 \in 0..Len(r.s)
            BY <1>1
          <6> QED
            BY <1>1, <6>1, StartsInText
        <5>2. passed \in SUBSET Nat
          BY <5>1
        <5> HIDE DEF passed
        <5> QED
          BY <4>1, <5>1, <5>2, LeastIs
      <4>3. first <= Least(passed)
        <5>1. CASE passed \subseteq starts
          BY <3>1, <4>2, <5>1
        <5>2. CASE p.prefix = <<>>
          <6>1. first = 0
            BY <3>1, <5>2
          <6> QED
            BY <4>2, <6>1
        <5> QED
          BY <2>1, <5>1, <5>2
      <4> HIDE DEF first, passed
      <4> QED
        BY <1>1, <2>1, <3>1, <4>1, <4>2, <4>3
    <3>4. known = IF Accepts(p, e.unanchored, RootState, r.s, r.from)
                  THEN r.from ELSE NoPos
      BY <1>5 DEF Accepts
    <3>5. q = [r EXCEPT !.ph = "scan", !.pos = first, !.firstEnd = known]
      BY <1>5, <2>4 DEF BeginCached
    <3>6. /\ IsCall(q) /\ q.ph = "scan" /\ q.s = r.s /\ q.from = r.from /\ q.pos = first
          /\ q.st = RootState /\ q.firstEnd = known /\ q.start = NoPos /\ q.end = NoPos
      BY <3>5 DEF IsCall, CallField, Begun
    <3>7. SearchCall(e, q)
      <4> HIDE DEF first, q, known
      <4> QED
        BY <1>1, <1>5, <3>2, <3>3, <3>4, <3>6, ScanBegins
    <3> QED
      BY <1>5, <3>6, <3>7
  <2> QED
    BY <2>3, <2>4
<1> QED
  BY <1>3, <1>4, <1>5

----------------------------------------------------------------------------
(* The calls of a goroutine, under either lock.                            *)

\* Under the write lock a call is one of the engine itself.
WriterCall(e, q, r) ==
  /\ r.ph # "begin"
  /\ r.s = q[2]
  /\ r.from = q[3]
  /\ IF q[1] = "Match" /\ ~Compiled[e.pat].hasAssertions THEN MatchCall(e, r)
     ELSE SearchCall(e, r)

\* Under the read lock it is one too, unless it misses a transition or has lost
\* its start.
ReaderCall(e, q, r) ==
  \/ r.ph = "miss"
  \/ r.ph = "panic" /\ ~HasRoom(e.reverse)
  \/ LostStart(e, r)
  \/ ~Compiled[e.pat].hasAssertions /\ WriterCall(e, q, r)

LEMMA QuestionFacts ==
  ASSUME NEW q \in Question
  PROVE  /\ q \in {"Match", "FindStringIndex", "findStringIndexFrom"} \X Input \X (0..MaxLen)
         /\ q[2] \in Input /\ Len(q[2]) \in Nat /\ q[3] \in 0..Len(q[2])
         /\ q[1] # "findStringIndexFrom" => q[3] = 0
         /\ q # None
<1>1. q \in {"Match", "FindStringIndex", "findStringIndexFrom"} \X Input \X (0..MaxLen)
      /\ q[3] <= Len(q[2]) /\ (q[1] # "findStringIndexFrom" => q[3] = 0) /\ q # None
  BY QuestionAssumption
<1>2. q[2] \in Input /\ q[3] \in 0..MaxLen
  BY <1>1
<1>3. Len(q[2]) \in Nat /\ MaxLen \in Nat
  BY <1>2, InputAssumption
<1> QED
  BY <1>1, <1>2, <1>3

LEMMA CallStarts ==
  ASSUME NEW e, NEW q \in Question
  PROVE  LET r == NewCall(q[2], q[3])
         IN  IsCall(r) /\ Begun(e, r) /\ r.s = q[2] /\ r.from = q[3]
BY QuestionFacts DEF NewCall, IsCall, CallField, Begun

LEMMA WriterStarts ==
  ASSUME NEW e, IsEngine(e), NEW q \in Question
  PROVE  LET r == NewCall(q[2], q[3])
         IN  WriterCall(e, q, IF q[1] = "Match" THEN BeginMatch(e, r) ELSE Begin(e, r))
<1> DEFINE r == NewCall(q[2], q[3])
<1>1. IsCall(r) /\ Begun(e, r) /\ r.s = q[2] /\ r.from = q[3]
  BY CallStarts
<1>2. q[1] = "Match" => q[3] = 0
  BY QuestionFacts
<1> HIDE DEF r
<1>3. CASE q[1] = "Match" /\ ~Compiled[e.pat].hasAssertions
  <2>1. Follows(e, r, e, BeginMatch(e, r)) /\ MatchCall(e, BeginMatch(e, r))
    BY <1>1, <1>2, <1>3, MatchBegins
  <2> QED
    BY <1>1, <1>3, <2>1 DEF Follows, WriterCall, r
<1>4. CASE ~(q[1] = "Match" /\ ~Compiled[e.pat].hasAssertions)
  <2>1. Follows(e, r, e, Begin(e, r)) /\ SearchCall(e, Begin(e, r))
    BY <1>1, BeginFits
  <2>2. (IF q[1] = "Match" THEN BeginMatch(e, r) ELSE Begin(e, r)) = Begin(e, r)
    BY <1>4 DEF BeginMatch
  <2> QED
    BY <1>1, <1>4, <2>1, <2>2 DEF Follows, WriterCall, r
<1> QED
  BY <1>3, <1>4

LEMMA ReaderStarts ==
  ASSUME NEW e, IsEngine(e), NEW q \in Question, q[1] # "findStringIndexFrom"
  PROVE  LET r == NewCall(q[2], q[3])
         IN  ReaderCall(e, q, IF q[1] = "Match" THEN BeginMatchCached(e, r)
                              ELSE BeginCached(e, r))
<1> DEFINE r == NewCall(q[2], q[3])
<1>1. IsCall(r) /\ Begun(e, r) /\ r.s = q[2] /\ r.from = q[3]
  BY CallStarts
<1>2. q[3] = 0
  BY QuestionFacts
<1> HIDE DEF r
<1>3. CASE q[1] = "Match" /\ Compiled[e.pat].hasAssertions
  <2>1. BeginMatchCached(e, r).ph = "miss"
    BY <1>1, <1>3 DEF BeginMatchCached, Miss, IsCall, CallField
  <2> QED
    BY <1>3, <2>1 DEF ReaderCall, r
<1>4. CASE q[1] = "Match" /\ ~Compiled[e.pat].hasAssertions
  <2>1. BeginMatchCached(e, r) = BeginMatch(e, r)
    BY <1>4 DEF BeginMatchCached, BeginMatch
  <2>2. WriterCall(e, q, BeginMatch(e, r))
    BY <1>4, WriterStarts DEF r
  <2> QED
    BY <1>4, <2>1, <2>2 DEF ReaderCall, r
<1>5. CASE q[1] # "Match"
  <2>1. \/ BeginCached(e, r).ph = "miss"
        \/ /\ ~Compiled[e.pat].hasAssertions
           /\ SearchCall(e, BeginCached(e, r)) /\ BeginCached(e, r).ph # "begin"
           /\ BeginCached(e, r).s = r.s /\ BeginCached(e, r).from = r.from
    BY <1>1, <1>2, BeginCachedFits
  <2> QED
    BY <1>1, <1>5, <2>1 DEF ReaderCall, WriterCall, r
<1> QED
  BY <1>3, <1>4, <1>5

LEMMA WriterSteps ==
  ASSUME NEW e, IsEngine(e), NEW q, NEW r, WriterCall(e, q, r), r.ph # "done"
  PROVE  LET step == Step(e, r)
         IN  Follows(e, r, step.e, step.r) /\ WriterCall(step.e, q, step.r)
<1> DEFINE step == Step(e, r)
           plain == q[1] = "Match" /\ ~Compiled[e.pat].hasAssertions
<1>1. CASE plain
  <2>1. IsCall(r) /\ r.ph = "match" /\ Reading(e, r)
    BY <1>1 DEF WriterCall, MatchCall
  <2>2. step = MatchNext(e, r)
    BY <2>1 DEF Step
  <2> HIDE DEF step
  <2>3. Follows(e, r, step.e, step.r) /\ MatchCall(step.e, step.r)
    BY <1>1, <2>1, <2>2, MatchNextFits
  <2> QED
    BY <1>1, <2>3 DEF WriterCall, Follows, step
<1>2. CASE ~plain
  <2>1. SearchCall(e, r) /\ IsCall(r)
    BY <1>2 DEF WriterCall, SearchCall
  <2>2. Follows(e, r, step.e, step.r) /\ SearchCall(step.e, step.r)
    <3>1. CASE r.ph = "scan"
      <4>1. step = ScanForward(e, r) /\ Scanning(e, r)
        BY <2>1, <3>1 DEF Step, SearchCall
      <4> HIDE DEF step
      <4> QED
        BY <2>1, <3>1, <4>1, ScanForwardFits
    <3>2. CASE r.ph = "back"
      <4>1. step = ScanBack(e, r) /\ Backing(e, r)
        BY <2>1, <3>2 DEF Step, SearchCall
      <4> HIDE DEF step
      <4> QED
        BY <2>1, <3>2, <4>1, ScanBackFits
    <3>3. CASE r.ph = "longest"
      <4>1. step = ScanLongest(e, r) /\ Extending(e, r)
        BY <2>1, <3>3 DEF Step, SearchCall
      <4> HIDE DEF step
      <4> QED
        BY <2>1, <3>3, <4>1, ScanLongestFits
    <3> QED
      BY <2>1, <3>1, <3>2, <3>3 DEF SearchCall, WriterCall
  <2> HIDE DEF step
  <2> QED
    BY <1>2, <2>2 DEF WriterCall, Follows, step
<1> QED
  BY <1>1, <1>2

LEMMA ReaderSteps ==
  ASSUME NEW e, IsEngine(e), NEW q, q[3] = 0, NEW r, ReaderCall(e, q, r),
         r.ph \notin {"done", "miss", "panic"}
  PROVE  ReaderCall(e, q, StepCached(e, r))
<1> DEFINE step == StepCached(e, r)
           plain == q[1] = "Match"
<1>1. CASE LostStart(e, r)
  <2>1. /\ IsCall(r) /\ r.ph = "longest" /\ r.pos = -1 /\ r.st # DeadState
        /\ ~HasRoom(e.reverse) /\ Len(r.s) \in Nat
    BY <1>1, SpansFacts DEF LostStart, NoPos, RootState, DeadState
  <2>2. step = LongestCached(e, r)
    BY <2>1 DEF StepCached
  <2>3. step = Panic(r)
    BY <2>1, <2>2 DEF LongestCached
  <2>4. Panic(r).ph = "panic"
    BY <2>1 DEF Panic, IsCall, CallField
  <2> QED
    BY <2>1, <2>3, <2>4 DEF ReaderCall
<1>2. CASE ~Compiled[e.pat].hasAssertions /\ WriterCall(e, q, r) /\ plain
  <2>1. IsCall(r) /\ r.ph = "match" /\ Reading(e, r) /\ MatchCall(e, r)
    BY <1>2 DEF WriterCall, MatchCall
  <2>2. step = MatchCached(e, r)
    BY <2>1 DEF StepCached
  <2>3. step.ph = "miss" \/ MatchNext(e, r) = [e |-> e, r |-> step]
    BY <1>2, <2>1, <2>2, MatchCachedIs
  <2>4. LET full == MatchNext(e, r)
        IN  Follows(e, r, full.e, full.r) /\ MatchCall(full.e, full.r)
    BY <1>2, <2>1, MatchNextFits
  <2> QED
    BY <1>2, <2>3, <2>4 DEF ReaderCall, WriterCall, Follows
<1>3. CASE ~Compiled[e.pat].hasAssertions /\ WriterCall(e, q, r) /\ ~plain
  <2>1. IsCall(r) /\ SearchCall(e, r) /\ r.from = 0
    BY <1>3 DEF WriterCall, SearchCall
  <2>2. CASE r.ph = "scan"
    <3>1. step = ScanCached(e, r) /\ Scanning(e, r)
      BY <2>1, <2>2 DEF StepCached, SearchCall
    <3>2. step.ph = "miss" \/ ScanForward(e, r) = [e |-> e, r |-> step]
      BY <1>3, <2>1, <2>2, <3>1, ScanCachedIs
    <3>3. LET full == ScanForward(e, r)
          IN  Follows(e, r, full.e, full.r) /\ SearchCall(full.e, full.r)
      BY <2>1, <2>2, <3>1, ScanForwardFits
    <3> QED
      BY <1>3, <3>2, <3>3 DEF ReaderCall, WriterCall, Follows
  <2>3. CASE r.ph = "back"
    <3>1. step = BackCached(e, r) /\ Backing(e, r)
      BY <2>1, <2>3 DEF StepCached, SearchCall
    <3>2. \/ step.ph = "miss"
          \/ SearchCall(e, step) /\ step.ph # "begin" /\ step.s = r.s /\ step.from = r.from
          \/ LostStart(e, step)
      BY <1>3, <2>1, <2>3, <3>1, BackCachedFits
    <3> QED
      BY <1>3, <3>2 DEF ReaderCall, WriterCall
  <2>4. CASE r.ph = "longest"
    <3>1. step = LongestCached(e, r) /\ Extending(e, r)
      BY <2>1, <2>4 DEF StepCached, SearchCall
    <3>2. step.ph = "miss" \/ ScanLongest(e, r) = [e |-> e, r |-> step]
      BY <1>3, <2>1, <2>4, <3>1, LongestCachedIs
    <3>3. LET full == ScanLongest(e, r)
          IN  Follows(e, r, full.e, full.r) /\ SearchCall(full.e, full.r)
      BY <2>1, <2>4, <3>1, ScanLongestFits
    <3> QED
      BY <1>3, <3>2, <3>3 DEF ReaderCall, WriterCall, Follows
  <2> QED
    BY <1>3, <2>1, <2>2, <2>3, <2>4 DEF SearchCall, WriterCall
<1> QED
  BY <1>1, <1>2, <1>3 DEF ReaderCall

----------------------------------------------------------------------------
(* What a goroutine is told.                                               *)

Reply(e, q, r) == IF q[1] = "Match" THEN MatchReply(e, r.loc) ELSE r.loc

\* A reply is right: that of the expression, or a poorer one where an automaton is
\* full, where there are anchors, or where the filters lose matches.
MayBePoorer(e) ==
  Full(e) \/ Compiled[e.pat].hasAssertions \/ ~FiltersKeepMatches(e.pat)

RightReply(e, q, a) ==
  a \in {ByText(e.pat, q)} \cup (IF MayBePoorer(e) THEN ByFullEngine(e.pat, q) ELSE {})

LEMMA PairIsSeq ==
  ASSUME NEW i \in Int, NEW j \in Int
  PROVE  <<i, j>> \in Seq(Int)
OBVIOUS

LEMMA VerdictIs ==
  ASSUME NEW b \in BOOLEAN
  PROVE  Verdict(b) \in Seq(Int) /\ Verdict(b) # None
<1>1. <<1>> \in Seq(Int) /\ <<0>> \in Seq(Int)
  OBVIOUS
<1>2. Verdict(b) = <<1>> \/ Verdict(b) = <<0>>
  BY DEF Verdict
<1> QED
  BY <1>1, <1>2, AbsentAssumption

\* Every answer of a search is a sequence of numbers.
LEMMA AnswerIsSeq ==
  ASSUME NEW e, IsEngine(e), NEW r, IsCall(r), IsAnswer(e, r)
  PROVE  r.loc \in Seq(Int)
<1>1. r.from \in 0..Len(r.s) /\ Len(r.s) \in Nat
      /\ \A x \in SpansFrom(e.pat, r.s, r.from) : x = <<x[1], x[2]>> /\ x[1] \in Nat /\ x[2] \in Nat
  BY SpansFacts
<1>2. CASE r.loc = Nil
  BY <1>2 DEF Nil
<1>3. CASE r.loc \in SpansFrom(e.pat, r.s, r.from)
  <2>1. r.loc = <<r.loc[1], r.loc[2]>> /\ r.loc[1] \in Int /\ r.loc[2] \in Int
    BY <1>1, <1>3
  <2>2. <<r.loc[1], r.loc[2]>> \in Seq(Int)
    BY <2>1, PairIsSeq
  <2> QED
    BY <2>1, <2>2, Zenon
<1>4. ASSUME NEW i \in r.from..Len(r.s), r.loc = <<i, NoPos>>
      PROVE  r.loc \in Seq(Int)
  <2>1. i \in Int /\ NoPos \in Int
    BY <1>1 DEF NoPos
  <2>2. <<i, NoPos>> \in Seq(Int)
    BY <2>1, PairIsSeq
  <2> QED
    BY <1>4, <2>2, Zenon
<1> QED
  BY <1>2, <1>3, <1>4 DEF IsAnswer

LEMMA MatchReplies ==
  ASSUME NEW e, IsEngine(e), NEW q \in Question, q[1] = "Match",
         NEW r, WriterCall(e, q, r), r.ph = "done"
  PROVE  /\ r.loc \in Seq(Int)
         /\ Reply(e, q, r) # None
         /\ RightReply(e, q, Reply(e, q, r))
<1> DEFINE n == e.pat
           a == Reply(e, q, r)
           here == <<0, Len(r.s)>> \in Spans[n][r.s]
           some == Spans[n][r.s] # {}
<1>1. r.s = q[2]
  BY DEF WriterCall
<1>2. CASE ~Compiled[n].hasAssertions
  <2>1. MatchAnswered(e, r) /\ a = r.loc
    BY <1>2 DEF WriterCall, MatchCall, Reply, MatchReply
  <2>2. MatchAnswer(n, r.s) = Verdict(here)
    BY <1>2 DEF MatchAnswer
  <2>3. r.loc \in {Verdict(FALSE), Verdict(here)} /\ (HasRoom(e.forward) => r.loc = Verdict(here))
    BY <2>1, <2>2 DEF MatchAnswered
  <2>4. /\ ByText(n, q) = Verdict(here)
        /\ ByFullEngine(n, q) = {Verdict(FALSE)}
    BY <1>1, <2>2 DEF ByText, ByFullEngine
  <2>5. ~Full(e) => HasRoom(e.forward)
    BY DEF Full, Automata
  <2>6. r.loc \in Seq(Int) /\ r.loc # None
    <3>1. Verdict(FALSE) \in Seq(Int) /\ Verdict(FALSE) # None
      BY VerdictIs
    <3>2. Verdict(here) \in Seq(Int) /\ Verdict(here) # None
      <4>1. here \in BOOLEAN
        OBVIOUS
      <4> HIDE DEF here
      <4> QED
        BY <4>1, VerdictIs
    <3> HIDE DEF here
    <3> QED
      BY <2>3, <3>1, <3>2
  <2> HIDE DEF a, here
  <2> QED
    BY <2>1, <2>3, <2>4, <2>5, <2>6 DEF RightReply, MayBePoorer, a
<1>3. CASE Compiled[n].hasAssertions
  <2>1. Answered(e, r) /\ IsCall(r)
    BY <1>3 DEF WriterCall, SearchCall
  <2>2. a = Verdict(r.loc # Nil)
    BY <1>3 DEF Reply, MatchReply
  <2>3. /\ ByText(n, q) = Verdict(some)
        /\ ByFullEngine(n, q) = {Verdict(FALSE)}
    BY <1>1, <1>3 DEF ByText, ByFullEngine, MatchAnswer
  <2>4. r.loc # Nil => some
    BY <2>1, SpansFacts DEF Answered
  <2>5. a \in {ByText(n, q)} \cup ByFullEngine(n, q)
    BY <2>2, <2>3, <2>4
  <2>6. a # None
    BY <2>2, VerdictIs
  <2>7. r.loc \in Seq(Int)
    BY <2>1, AnswerIsSeq DEF Answered
  <2> HIDE DEF a
  <2> QED
    BY <1>3, <2>5, <2>6, <2>7 DEF RightReply, MayBePoorer, a
<1> QED
  BY <1>2, <1>3

LEMMA SearchReplies ==
  ASSUME NEW e, IsEngine(e), NEW q \in Question, q[1] # "Match",
         NEW r, WriterCall(e, q, r), r.ph = "done"
  PROVE  /\ r.loc \in Seq(Int)
         /\ Reply(e, q, r) # None
         /\ RightReply(e, q, Reply(e, q, r))
<1> DEFINE n == e.pat
<1>1. /\ r.s = q[2] /\ r.from = q[3] /\ Answered(e, r) /\ IsCall(r)
      /\ Reply(e, q, r) = r.loc
  BY DEF WriterCall, SearchCall, Reply
<1>2. /\ ByText(n, q) = FirstEnding(n, r.s, r.from)
      /\ ByFullEngine(n, q) = PoorerLocations(n, r.s, r.from)
  BY <1>1 DEF ByText, ByFullEngine
<1>3. \/ r.loc = Nil
      \/ r.loc \in SpansFrom(n, r.s, r.from)
      \/ \E i \in r.from..Len(r.s) : r.loc = <<i, NoPos>>
  BY <1>1 DEF Answered, IsAnswer
<1>4. r.from \in 0..Len(r.s) /\ Len(r.s) \in Nat
  BY <1>1, SpansFacts
<1>5. r.loc \in PoorerLocations(n, r.s, r.from)
  <2>1. r.from..Len(r.s) \subseteq 0..Len(r.s)
    BY <1>4
  <2> QED
    BY <1>3, <2>1 DEF PoorerLocations
<1>6. r.loc \in Seq(Int)
  BY <1>1, AnswerIsSeq DEF Answered
<1>7. r.loc # None
  BY <1>6, AbsentAssumption
<1>8. FiltersKeepMatches(n) /\ ~Full(e) /\ ~Compiled[n].hasAssertions
        => r.loc = FirstEnding(n, r.s, r.from)
  BY <1>1 DEF Answered, ExactAnswer
<1> QED
  BY <1>1, <1>2, <1>5, <1>6, <1>7, <1>8 DEF RightReply, MayBePoorer

LEMMA Replies ==
  ASSUME NEW e, IsEngine(e), NEW q \in Question,
         NEW r, WriterCall(e, q, r), r.ph = "done"
  PROVE  /\ r.loc \in Seq(Int)
         /\ Reply(e, q, r) # None
         /\ RightReply(e, q, Reply(e, q, r))
BY MatchReplies, SearchReplies

----------------------------------------------------------------------------
(* The lock.                                                               *)

At == {"idle", "rlock", "reading", "lock", "announced", "writing"}

\* What the lock knows of the goroutines, and what a writer relies on: that it has
\* waited for the readers, and that none has come in since.
LockInv ==
  /\ lock = [readers |-> lock.readers, writer |-> lock.writer]
  /\ pc \in [Goroutine -> At]
  /\ lock.readers = {g \in Goroutine : pc[g] = "reading"}
  /\ lock.writer \in Goroutine \cup {None}
  /\ \A g \in Goroutine : pc[g] \in {"announced", "writing"} <=> lock.writer = g
  /\ \A g \in Goroutine : pc[g] = "writing" => lock.readers = {}

LEMMA LockInit == Init => LockInv
BY NoneAssumption DEF Init, LockInv, Unlocked, At

LEMMA LockStep == LockInv /\ [Next]_vars => LockInv'
<1> SUFFICES ASSUME LockInv, [Next]_vars
             PROVE  LockInv'
  OBVIOUS
<1> DEFINE readers == lock.readers
           writer == lock.writer
<1>0. lock = [readers |-> readers, writer |-> writer]
  BY DEF LockInv
<1> USE DEF LockInv, Go, At
<1>1. ASSUME NEW g \in Goroutine, NEW q \in Question, Ask(g, q)
      PROVE  LockInv'
  BY <1>1 DEF Ask
<1>2. ASSUME NEW g \in Goroutine, RLock(g)
      PROVE  LockInv'
  <2>1. lock' = [readers |-> readers \cup {g}, writer |-> writer]
    <3> HIDE DEF readers, writer
    <3> QED
      BY <1>0, <1>2 DEF RLock, readers
  <2>2. \A h \in Goroutine : pc[h] \notin {"announced", "writing"}
    BY <1>2, NoneAssumption DEF RLock, Open
  <2>3. pc' = [pc EXCEPT ![g] = "reading"]
    BY <1>2 DEF RLock
  <2>4. {h \in Goroutine : pc'[h] = "reading"} = readers \cup {g}
    BY <2>3
  <2> QED
    BY <2>1, <2>2, <2>3, <2>4
<1>3. ASSUME NEW g \in Goroutine, Read(g)
      PROVE  LockInv'
  BY <1>3 DEF Read
<1>4. ASSUME NEW g \in Goroutine, RUnlock(g)
      PROVE  LockInv'
  <2>1. lock' = [readers |-> readers \ {g}, writer |-> writer]
    <3> HIDE DEF readers, writer
    <3>1. lock' = [lock EXCEPT !.readers = lock.readers \ {g}]
      BY <1>4, Zenon DEF RUnlock
    <3> QED
      BY <1>0, <3>1 DEF readers
  <2>2. pc[g] = "reading" /\ pc' = [pc EXCEPT ![g] = IF call[g].ph = "done" THEN "idle" ELSE "lock"]
    BY <1>4 DEF RUnlock
  <2>3. {h \in Goroutine : pc'[h] = "reading"} = readers \ {g}
    BY <2>2
  <2> QED
    BY <2>1, <2>2, <2>3
<1>5. ASSUME NEW g \in Goroutine, Announce(g)
      PROVE  LockInv'
  <2>1. lock' = [readers |-> readers, writer |-> g]
    BY <1>0, <1>5 DEF Announce
  <2>2. \A h \in Goroutine : pc[h] \notin {"announced", "writing"}
    BY <1>5, NoneAssumption DEF Announce, Open
  <2> QED
    BY <1>5, <2>1, <2>2 DEF Announce
<1>6. ASSUME NEW g \in Goroutine, Lock(g)
      PROVE  LockInv'
  BY <1>6 DEF Lock, Drained
<1>7. ASSUME NEW g \in Goroutine, Write(g)
      PROVE  LockInv'
  BY <1>7 DEF Write
<1>8. ASSUME NEW g \in Goroutine, Unlock(g)
      PROVE  LockInv'
  <2>1. lock' = [readers |-> readers, writer |-> None]
    BY <1>0, <1>8 DEF Unlock
  <2>2. \A h \in Goroutine : h # g => pc[h] \notin {"announced", "writing"}
    BY <1>8 DEF Unlock
  <2> QED
    BY <1>8, <2>1, <2>2, NoneAssumption DEF Unlock
<1>9. CASE UNCHANGED vars
  BY <1>9 DEF vars
<1> QED
  BY <1>1, <1>2, <1>3, <1>4, <1>5, <1>6, <1>7, <1>8, <1>9 DEF Next, Enter, Run

\* No automaton is read while it grows: the read lock covers the whole cached
\* pass, the write lock the whole of the other one.
THEOREM NoRaceEver == Spec => []NoRace
<1>1. Init => LockInv
  BY LockInit
<1>2. LockInv /\ [Next]_vars => LockInv'
  BY LockStep
<1>3. LockInv => NoRace
  BY DEF LockInv, NoRace
<1> QED
  BY <1>1, <1>2, <1>3, PTL DEF Spec

----------------------------------------------------------------------------
(* The invariant.                                                          *)

\* A goroutine at at, with question q and call r: what it has found counts only
\* while it holds a lock.
GoroutineInv(e, at, q, r) ==
  /\ at # "idle" => q \in Question
  /\ at \in {"rlock", "reading"} => q[1] # "findStringIndexFrom"
  /\ at = "reading" => ReaderCall(e, q, r)
  /\ at = "writing" => WriterCall(e, q, r)
  /\ r.ph = "panic" => at = "reading"
  /\ at = "idle" /\ q # None =>
       r.loc \in Seq(Int) /\ RightReply(e, q, Reply(e, q, r))

Inv ==
  /\ IsEngine(engine)
  /\ LockInv
  /\ asked \in [Goroutine -> Question \cup {None}]
  /\ call = [g \in Goroutine |-> call[g]]
  /\ \A g \in Goroutine : GoroutineInv(engine, pc[g], asked[g], call[g])

LEMMA InvInit == Init => Inv
<1> SUFFICES ASSUME Init
             PROVE  Inv
  OBVIOUS
<1>1. IsEngine(engine)
  BY NewEngineFits DEF Init
<1>2. LockInv
  BY LockInit
<1>3. \A g \in Goroutine : GoroutineInv(engine, pc[g], asked[g], call[g])
  BY DEF Init, GoroutineInv, NewCall
<1> QED
  BY <1>1, <1>2, <1>3 DEF Init, Inv

\* A cached pass that has come to its end has answered as the engine would.
LEMMA ReaderDone ==
  ASSUME NEW e, NEW q, NEW r, ReaderCall(e, q, r), r.ph = "done"
  PROVE  WriterCall(e, q, r)
BY DEF ReaderCall, LostStart

LEMMA WriterLives ==
  ASSUME NEW e, NEW q, NEW r, WriterCall(e, q, r)
  PROVE  r.ph # "panic"
BY DEF WriterCall, MatchCall, SearchCall

\* A right reply stays right: an automaton that is full stays so.
LEMMA RightStays ==
  ASSUME NEW e, NEW f, f.pat = e.pat, Full(e) => Full(f),
         NEW q, NEW r, RightReply(e, q, Reply(e, q, r))
  PROVE  RightReply(f, q, Reply(f, q, r))
BY DEF RightReply, MayBePoorer, Reply, MatchReply

\* One goroutine moves and leaves the engine alone.
LEMMA OneMoves ==
  ASSUME Inv, LockInv', engine' = engine, NEW g \in Goroutine,
         NEW at, pc' = [pc EXCEPT ![g] = at],
         NEW q \in Question, asked' = [asked EXCEPT ![g] = q],
         NEW r, call' = [call EXCEPT ![g] = r],
         GoroutineInv(engine, at, q, r)
  PROVE  Inv'
<1>1. /\ IsEngine(engine') /\ asked' \in [Goroutine -> Question \cup {None}]
      /\ call' = [h \in Goroutine |-> call'[h]]
  BY DEF Inv
<1>2. ASSUME NEW h \in Goroutine
      PROVE  GoroutineInv(engine', pc'[h], asked'[h], call'[h])
  <2>1. pc \in [Goroutine -> At] /\ asked \in [Goroutine -> Question \cup {None}]
        /\ call = [x \in Goroutine |-> call[x]]
    BY DEF Inv, LockInv
  <2>2. CASE h = g
    <3>1. pc'[h] = at /\ asked'[h] = q /\ call'[h] = r
      BY <2>1, <2>2
    <3> QED
      BY <3>1
  <2>3. CASE h # g
    <3>1. pc'[h] = pc[h] /\ asked'[h] = asked[h] /\ call'[h] = call[h]
      BY <2>1, <2>3
    <3> QED
      BY <3>1 DEF Inv
  <2> QED
    BY <2>2, <2>3
<1> QED
  BY <1>1, <1>2 DEF Inv

LEMMA InvStep == Inv /\ [Next]_vars => Inv'
<1> SUFFICES ASSUME Inv, [Next]_vars
             PROVE  Inv'
  OBVIOUS
<1>1. LockInv /\ LockInv' /\ IsEngine(engine)
  BY LockStep DEF Inv
<1>2. /\ pc \in [Goroutine -> At] /\ asked \in [Goroutine -> Question \cup {None}]
      /\ call = [x \in Goroutine |-> call[x]]
  BY DEF Inv, LockInv
<1>3. ASSUME NEW g \in Goroutine
      PROVE  /\ GoroutineInv(engine, pc[g], asked[g], call[g])
             /\ pc[g] # "idle" => asked[g] \in Question /\ asked = [asked EXCEPT ![g] = asked[g]]
             /\ call = [call EXCEPT ![g] = call[g]]
  BY <1>2, <1>3 DEF Inv, GoroutineInv
<1>4. ASSUME NEW g \in Goroutine, NEW q \in Question, Ask(g, q)
      PROVE  Inv'
  <2> DEFINE at == IF q[1] = "findStringIndexFrom" THEN "lock" ELSE "rlock"
  <2>1. GoroutineInv(engine, at, q, call[g])
    BY <1>3, <1>4 DEF Ask, GoroutineInv
  <2>2. engine' = engine /\ pc' = [pc EXCEPT ![g] = at] /\ asked' = [asked EXCEPT ![g] = q]
        /\ call' = [call EXCEPT ![g] = call[g]]
    BY <1>3, <1>4 DEF Ask, Go
  <2> QED
    BY <1>1, <2>1, <2>2, OneMoves
<1>5. ASSUME NEW g \in Goroutine, RLock(g)
      PROVE  Inv'
  <2> DEFINE q == asked[g]
             r == IF q[1] = "Match" THEN BeginMatchCached(engine, NewCall(q[2], q[3]))
                  ELSE BeginCached(engine, NewCall(q[2], q[3]))
  <2>1. pc[g] = "rlock" /\ q \in Question /\ q[1] # "findStringIndexFrom"
    BY <1>3, <1>5 DEF RLock, GoroutineInv
  <2>2. ReaderCall(engine, q, r)
    BY <1>1, <2>1, ReaderStarts
  <2>3. GoroutineInv(engine, "reading", q, r)
    BY <2>1, <2>2 DEF GoroutineInv
  <2>4. engine' = engine /\ pc' = [pc EXCEPT ![g] = "reading"]
        /\ asked' = [asked EXCEPT ![g] = q] /\ call' = [call EXCEPT ![g] = r]
    BY <1>3, <1>5, <2>1 DEF RLock, Go, Starting
  <2> QED
    BY <1>1, <2>1, <2>3, <2>4, OneMoves
<1>6. ASSUME NEW g \in Goroutine, Read(g)
      PROVE  Inv'
  <2> DEFINE q == asked[g]
             r == StepCached(engine, call[g])
  <2>1. /\ pc[g] = "reading" /\ q \in Question /\ q[1] # "findStringIndexFrom"
        /\ ReaderCall(engine, q, call[g]) /\ call[g].ph \notin {"done", "miss", "panic"}
    BY <1>3, <1>6 DEF Read, GoroutineInv
  <2>2. ReaderCall(engine, q, r)
    BY <1>1, <2>1, QuestionFacts, ReaderSteps
  <2>3. GoroutineInv(engine, "reading", q, r)
    BY <2>1, <2>2 DEF GoroutineInv
  <2>4. engine' = engine /\ pc' = [pc EXCEPT ![g] = "reading"]
        /\ asked' = [asked EXCEPT ![g] = q] /\ call' = [call EXCEPT ![g] = r]
    BY <1>2, <1>3, <1>6, <2>1 DEF Read
  <2> QED
    BY <1>1, <2>1, <2>3, <2>4, OneMoves
<1>7. ASSUME NEW g \in Goroutine, RUnlock(g)
      PROVE  Inv'
  <2> DEFINE q == asked[g]
             at == IF call[g].ph = "done" THEN "idle" ELSE "lock"
  <2>1. pc[g] = "reading" /\ q \in Question /\ ReaderCall(engine, q, call[g])
    BY <1>3, <1>7 DEF RUnlock, GoroutineInv
  <2>2. call[g].ph = "done" =>
          call[g].loc \in Seq(Int) /\ RightReply(engine, q, Reply(engine, q, call[g]))
    BY <1>1, <2>1, ReaderDone, Replies
  <2>3. GoroutineInv(engine, at, q, call[g])
    BY <1>7, <2>1, <2>2 DEF RUnlock, GoroutineInv
  <2>4. engine' = engine /\ pc' = [pc EXCEPT ![g] = at]
        /\ asked' = [asked EXCEPT ![g] = q] /\ call' = [call EXCEPT ![g] = call[g]]
    BY <1>3, <1>7, <2>1 DEF RUnlock, Go
  <2> QED
    BY <1>1, <2>1, <2>3, <2>4, OneMoves
<1>8. ASSUME NEW g \in Goroutine, Announce(g)
      PROVE  Inv'
  <2>1. pc[g] = "lock" /\ asked[g] \in Question
    BY <1>3, <1>8 DEF Announce
  <2>2. GoroutineInv(engine, "announced", asked[g], call[g])
    BY <1>3, <2>1 DEF GoroutineInv
  <2>3. engine' = engine /\ pc' = [pc EXCEPT ![g] = "announced"]
        /\ asked' = [asked EXCEPT ![g] = asked[g]] /\ call' = [call EXCEPT ![g] = call[g]]
    BY <1>3, <1>8, <2>1 DEF Announce, Go
  <2> QED
    BY <1>1, <2>1, <2>2, <2>3, OneMoves
<1>9. ASSUME NEW g \in Goroutine, Lock(g)
      PROVE  Inv'
  <2> DEFINE q == asked[g]
             r == IF q[1] = "Match" THEN BeginMatch(engine, NewCall(q[2], q[3]))
                  ELSE Begin(engine, NewCall(q[2], q[3]))
  <2>1. pc[g] = "announced" /\ q \in Question
    BY <1>3, <1>9 DEF Lock
  <2>2. WriterCall(engine, q, r)
    BY <1>1, <2>1, WriterStarts
  <2>3. GoroutineInv(engine, "writing", q, r)
    BY <2>1, <2>2, WriterLives DEF GoroutineInv
  <2>4. engine' = engine /\ pc' = [pc EXCEPT ![g] = "writing"]
        /\ asked' = [asked EXCEPT ![g] = q] /\ call' = [call EXCEPT ![g] = r]
    BY <1>3, <1>9, <2>1 DEF Lock, Go, Starting
  <2> QED
    BY <1>1, <2>1, <2>3, <2>4, OneMoves
<1>10. ASSUME NEW g \in Goroutine, Write(g)
       PROVE  Inv'
  <2> DEFINE q == asked[g]
             step == Step(engine, call[g])
  <2>1. /\ pc[g] = "writing" /\ q \in Question
        /\ WriterCall(engine, q, call[g]) /\ call[g].ph # "done"
    BY <1>3, <1>10 DEF Write, GoroutineInv
  <2>2. Follows(engine, call[g], step.e, step.r) /\ WriterCall(step.e, q, step.r)
    BY <1>1, <2>1, WriterSteps
  <2>3. engine' = step.e /\ call' = [call EXCEPT ![g] = step.r] /\ pc' = pc /\ asked' = asked
    BY <1>10 DEF Write
  <2> HIDE DEF step
  <2>4. ASSUME NEW h \in Goroutine
        PROVE  GoroutineInv(engine', pc'[h], asked'[h], call'[h])
    <3>1. CASE h = g
      <4>1. pc'[h] = "writing" /\ asked'[h] = q /\ call'[h] = step.r
        BY <1>2, <2>1, <2>3, <3>1
      <4> QED
        BY <2>1, <2>2, <2>3, <4>1, WriterLives DEF GoroutineInv
    <3>2. CASE h # g
      <4>1. pc'[h] = pc[h] /\ asked'[h] = asked[h] /\ call'[h] = call[h]
        BY <1>2, <2>3, <3>2
      <4>2. pc[h] \notin {"reading", "writing"}
        BY <1>1, <2>1, <3>2 DEF LockInv
      <4>3. GoroutineInv(engine, pc[h], asked[h], call[h])
        BY <1>3
      <4>4. asked[h] # None /\ pc[h] = "idle" =>
              RightReply(engine', asked[h], Reply(engine', asked[h], call[h]))
        BY <2>2, <2>3, <4>3, RightStays DEF GoroutineInv, Follows
      <4> QED
        BY <4>1, <4>2, <4>3, <4>4 DEF GoroutineInv
    <3> QED
      BY <3>1, <3>2
  <2> QED
    BY <1>1, <1>2, <2>2, <2>3, <2>4 DEF Inv, Follows
<1>11. ASSUME NEW g \in Goroutine, Unlock(g)
       PROVE  Inv'
  <2> DEFINE q == asked[g]
  <2>1. /\ pc[g] = "writing" /\ q \in Question
        /\ WriterCall(engine, q, call[g]) /\ call[g].ph = "done"
    BY <1>3, <1>11 DEF Unlock, GoroutineInv
  <2>2. call[g].loc \in Seq(Int) /\ RightReply(engine, q, Reply(engine, q, call[g]))
    BY <1>1, <2>1, Replies
  <2>3. GoroutineInv(engine, "idle", q, call[g])
    BY <2>1, <2>2 DEF GoroutineInv
  <2>4. engine' = engine /\ pc' = [pc EXCEPT ![g] = "idle"]
        /\ asked' = [asked EXCEPT ![g] = q] /\ call' = [call EXCEPT ![g] = call[g]]
    BY <1>3, <1>11, <2>1 DEF Unlock, Go
  <2> QED
    BY <1>1, <2>1, <2>3, <2>4, OneMoves
<1>12. CASE UNCHANGED vars
  BY <1>1, <1>12 DEF Inv, vars
<1> QED
  BY <1>4, <1>5, <1>6, <1>7, <1>8, <1>9, <1>10, <1>11, <1>12 DEF Next, Enter, Run

LEMMA Invariance == Spec => []Inv
BY InvInit, InvStep, PTL DEF Spec

\* Type correctness; the lock knows who is in it.
THEOREM TypeCorrect == Spec => []TypeOK
<1>1. Inv => TypeOK
  BY DEF Inv, IsEngine, LockInv, At, TypeOK
<1> QED
  BY <1>1, Invariance, PTL

\* Whatever the goroutines ask, and in whatever order their passes come, the shared
\* automata are sound: each cached transition is the one the trees have.
THEOREM EnginesAreSound == Spec => []EngineSound
<1>1. Inv => EngineSound
  BY DEF Inv, IsEngine, AutomatonOf, EngineSound, Automata
<1> QED
  BY <1>1, Invariance, PTL

\* A call panics only once the reversed automaton is full.
THEOREM PanicsOnlyFull == Spec => [](HasRoom(engine.reverse) => Parity)
<1>1. Inv => (HasRoom(engine.reverse) => Parity)
  BY DEF Inv, GoroutineInv, ReaderCall, LostStart, WriterCall, MatchCall, SearchCall, Parity
<1> QED
  BY <1>1, Invariance, PTL

\* Whatever a goroutine is told, of whatever expression, is the answer meant, or a
\* poorer one (no match, a match, the start of one) where an automaton is full, where
\* there are anchors, or where the filters lose matches, as those of search_accent.
THEOREM RepliesAreRight ==
  Spec => [](\A g \in Goroutine : Told(g) # None => RightReply(engine, asked[g], Told(g)))
<1>1. Inv => \A g \in Goroutine : Told(g) # None => RightReply(engine, asked[g], Told(g))
  <2> SUFFICES ASSUME Inv, NEW g \in Goroutine, Told(g) # None
               PROVE  RightReply(engine, asked[g], Told(g))
    OBVIOUS
  <2>1. pc[g] = "idle" /\ asked[g] # None /\ Told(g) = Reply(engine, asked[g], call[g])
    BY DEF Told, Reply
  <2> QED
    BY <2>1 DEF Inv, GoroutineInv
<1> QED
  BY <1>1, Invariance, PTL

----------------------------------------------------------------------------
(* The wrapper implements an expression that answers at once.              *)

\* Of such an expression an engine that is not full answers exactly.
Exact(n) == FiltersKeepMatches(n) /\ ~Compiled[n].hasAssertions

\* What the others have been told is not touched.
LEMMA OthersKeep ==
  ASSUME engine'.pat = engine.pat, NEW h,
         pc'[h] = pc[h], asked'[h] = asked[h], call'[h] = call[h]
  PROVE  Told(h)' = Told(h)
BY DEF Told, MatchReply

LEMMA Silent ==
  ASSUME \A h \in Goroutine : Told(h)' = Told(h), asked' = asked,
         engine'.pat = engine.pat, Full(engine') <=> Full(engine)
  PROVE  UNCHANGED R!vars
<1>1. [h \in Goroutine |-> Told(h)]' = [h \in Goroutine |-> Told(h)]
  OBVIOUS
<1>2. Full(engine') = Full(engine)
  BY DEF Full
<1> QED
  BY <1>1, <1>2, Zenon DEF R!vars

LEMMA ToldInit == Init => R!Init
<1> SUFFICES ASSUME Init
             PROVE  R!Init
  OBVIOUS
<1>1. engine.pat \in Expression
  BY NewEngineFits DEF Init
<1>2. \A g \in Goroutine : Told(g) = None
  BY DEF Init, Told
<1> QED
  BY <1>1, <1>2 DEF Init, R!Init, Full

LEMMA AskRefines ==
  ASSUME Inv, NEW g \in Goroutine, NEW q \in Question, Ask(g, q)
  PROVE  R!Ask(g, q)
<1>1. /\ engine' = engine /\ call' = call /\ pc[g] = "idle"
      /\ pc' = [pc EXCEPT ![g] = IF q[1] = "findStringIndexFrom" THEN "lock" ELSE "rlock"]
      /\ asked' = [asked EXCEPT ![g] = q]
      /\ pc \in [Goroutine -> At] /\ asked \in [Goroutine -> Question \cup {None}]
  BY DEF Ask, Go, Inv, LockInv
<1>2. asked[g] = None \/ Told(g) # None
  <2> SUFFICES ASSUME asked[g] # None
               PROVE  Told(g) # None
    OBVIOUS
  <2>1. call[g].loc \in Seq(Int)
    BY <1>1 DEF Inv, GoroutineInv
  <2>2. Told(g) = Verdict(call[g].loc # Nil) \/ Told(g) = call[g].loc
    BY <1>1 DEF Told, MatchReply
  <2> QED
    BY <2>1, <2>2, VerdictIs, AbsentAssumption
<1>3. Told(g)' = None
  BY <1>1 DEF Told
<1>4. ASSUME NEW h \in Goroutine, h # g
      PROVE  Told(h)' = Told(h)
  BY <1>1, <1>4, OthersKeep
<1>5. [h \in Goroutine |-> Told(h)]' = [[h \in Goroutine |-> Told(h)] EXCEPT ![g] = None]
  BY <1>3, <1>4
<1> QED
  BY <1>1, <1>2, <1>5 DEF R!Ask

\* A goroutine that returns is told its answer in this step.
LEMMA TellRefines ==
  ASSUME Exact(engine.pat), Inv, NEW g \in Goroutine, pc[g] # "idle", engine' = engine, call' = call,
         asked' = asked, pc' = [pc EXCEPT ![g] = "idle"],
         asked[g] \in Question, WriterCall(engine, asked[g], call[g]), call[g].ph = "done"
  PROVE  R!Tell(g)
<1> DEFINE q == asked[g]
           n == engine.pat
           a == Reply(engine, q, call[g])
           answer == [m \in Expression |-> [k \in Question |-> ByText(m, k)]]
           poorer == [m \in Expression |-> [k \in Question |-> ByFullEngine(m, k)]]
<1>1. /\ IsEngine(engine) /\ n \in Expression /\ pc \in [Goroutine -> At]
  BY DEF Inv, IsEngine, LockInv
<1>2. a # None /\ RightReply(engine, q, a)
  BY <1>1, Replies
<1>3. q # None
  BY QuestionFacts
<1>4. Told(g) = None
  BY DEF Told
<1>5. Told(g)' = a
  <2>1. pc'[g] = "idle"
    BY <1>1
  <2> QED
    BY <1>3, <2>1 DEF Told, Reply
<1>6. ASSUME NEW h \in Goroutine, h # g
      PROVE  Told(h)' = Told(h)
  BY <1>1, <1>6, OthersKeep
<1>7. [h \in Goroutine |-> Told(h)]' = [[h \in Goroutine |-> Told(h)] EXCEPT ![g] = a]
  BY <1>5, <1>6
<1>8. answer[n][q] = ByText(n, q) /\ poorer[n][q] = ByFullEngine(n, q)
  BY <1>1
<1> HIDE DEF a, answer, poorer
<1>9. a \in {answer[n][q]} \cup (IF Full(engine) THEN poorer[n][q] ELSE {})
  BY <1>1, <1>2, <1>8 DEF RightReply, MayBePoorer, Exact
<1> QED
  BY <1>3, <1>4, <1>7, <1>9 DEF R!Tell, answer, poorer

LEMMA StepRefines ==
  ASSUME Exact(engine.pat), Inv, Next
  PROVE  R!Next \/ UNCHANGED R!vars
<1>1. pc \in [Goroutine -> At] /\ IsEngine(engine) /\ call = [h \in Goroutine |-> call[h]]
      /\ asked \in [Goroutine -> Question \cup {None}]
  BY DEF Inv, LockInv
<1>2. ASSUME NEW g \in Goroutine
      PROVE  GoroutineInv(engine, pc[g], asked[g], call[g])
  BY <1>2 DEF Inv
<1>3. ASSUME NEW g \in Goroutine, NEW q \in Question, Ask(g, q)
      PROVE  R!Next
  BY <1>3, AskRefines DEF R!Next
<1>4. ASSUME NEW g \in Goroutine, engine' = engine, asked' = asked,
             \A h \in Goroutine : h # g => pc'[h] = pc[h] /\ call'[h] = call[h],
             pc[g] # "idle", pc'[g] # "idle"
      PROVE  UNCHANGED R!vars
  <2>1. Told(g) = None /\ Told(g)' = None
    BY <1>4 DEF Told
  <2>2. ASSUME NEW h \in Goroutine
        PROVE  Told(h)' = Told(h)
    BY <1>4, <2>1, <2>2, OthersKeep
  <2> QED
    BY <1>4, <2>2, Silent
<1>5. ASSUME NEW g \in Goroutine, RLock(g)
      PROVE  UNCHANGED R!vars
  BY <1>1, <1>4, <1>5 DEF RLock, Go
<1>6. ASSUME NEW g \in Goroutine, Read(g)
      PROVE  UNCHANGED R!vars
  BY <1>1, <1>4, <1>6 DEF Read
<1>7. ASSUME NEW g \in Goroutine, RUnlock(g)
      PROVE  R!Next \/ UNCHANGED R!vars
  <2>1. CASE call[g].ph = "done"
    <3>1. pc[g] = "reading" /\ asked[g] \in Question /\ ReaderCall(engine, asked[g], call[g])
      BY <1>2, <1>7 DEF RUnlock, GoroutineInv
    <3>2. WriterCall(engine, asked[g], call[g])
      BY <2>1, <3>1, ReaderDone
    <3>3. R!Tell(g)
      BY <1>7, <2>1, <3>1, <3>2, TellRefines DEF RUnlock, Go
    <3> QED
      BY <3>3 DEF R!Next
  <2>2. CASE call[g].ph # "done"
    BY <1>1, <1>4, <1>7, <2>2 DEF RUnlock, Go
  <2> QED
    BY <2>1, <2>2
<1>8. ASSUME NEW g \in Goroutine, Announce(g)
      PROVE  UNCHANGED R!vars
  BY <1>1, <1>4, <1>8 DEF Announce, Go
<1>9. ASSUME NEW g \in Goroutine, Lock(g)
      PROVE  UNCHANGED R!vars
  BY <1>1, <1>4, <1>9 DEF Lock, Go
<1>10. ASSUME NEW g \in Goroutine, Write(g)
       PROVE  R!Next \/ UNCHANGED R!vars
  <2> DEFINE step == Step(engine, call[g])
  <2>1. /\ pc[g] = "writing" /\ call[g].ph # "done"
        /\ WriterCall(engine, asked[g], call[g])
    BY <1>2, <1>10 DEF Write, GoroutineInv
  <2>2. Follows(engine, call[g], step.e, step.r)
    BY <1>1, <2>1, WriterSteps
  <2>3. engine' = step.e /\ pc' = pc /\ asked' = asked /\ call' = [call EXCEPT ![g] = step.r]
    BY <1>10 DEF Write
  <2> HIDE DEF step
  <2>4. engine'.pat = engine.pat /\ (Full(engine) => Full(engine'))
    BY <2>2, <2>3 DEF Follows
  <2>5. ASSUME NEW h \in Goroutine
        PROVE  Told(h)' = Told(h)
    <3>1. CASE h = g
      BY <2>1, <2>3, <3>1 DEF Told
    <3>2. CASE h # g
      BY <1>1, <2>3, <2>4, <3>2, OthersKeep
    <3> QED
      BY <3>1, <3>2
  <2>6. CASE Full(engine) \/ ~Full(engine')
    BY <2>3, <2>4, <2>5, <2>6, Silent
  <2>7. CASE ~Full(engine) /\ Full(engine')
    <3>1. R!Fill
      BY <2>3, <2>4, <2>5, <2>7 DEF R!Fill
    <3> QED
      BY <3>1 DEF R!Next
  <2> QED
    BY <2>6, <2>7
<1>11. ASSUME NEW g \in Goroutine, Unlock(g)
       PROVE  R!Next
  <2>1. pc[g] = "writing" /\ asked[g] \in Question /\ WriterCall(engine, asked[g], call[g])
        /\ call[g].ph = "done"
    BY <1>2, <1>11 DEF Unlock, GoroutineInv
  <2>2. R!Tell(g)
    BY <1>11, <2>1, TellRefines DEF Unlock, Go
  <2> QED
    BY <2>2 DEF R!Next
<1> QED
  BY <1>3, <1>5, <1>6, <1>7, <1>8, <1>9, <1>10, <1>11 DEF Next, Enter, Run

\* The goroutines see one expression that answers at once and always the same: not
\* the order of their calls, nor who filled the cache, nor which of the two passes
\* has answered shows.  (What holds of an expression with anchors is RepliesAreRight.)
THEOREM Refinement == Spec /\ Exact(engine.pat) => Implements
<1>1. Exact(engine.pat) /\ Inv /\ [Next]_vars => [R!Next]_R!vars
  <2> SUFFICES ASSUME Exact(engine.pat), Inv, [Next]_vars
               PROVE  R!Next \/ UNCHANGED R!vars
    OBVIOUS
  <2>1. CASE Next
    BY <2>1, StepRefines
  <2>2. CASE UNCHANGED vars
    <3>1. \A h \in Goroutine : Told(h)' = Told(h)
      BY <2>2, OthersKeep DEF vars
    <3> QED
      BY <2>2, <3>1, Silent DEF vars
  <2> QED
    BY <2>1, <2>2
<1>2. Exact(engine.pat) /\ Inv /\ [Next]_vars => Exact(engine.pat)'
  <2> SUFFICES ASSUME Inv, [Next]_vars
               PROVE  engine'.pat = engine.pat
    BY DEF Exact
  <2>1. ASSUME NEW g \in Goroutine, Write(g)
        PROVE  engine'.pat = engine.pat
    <3>1. WriterCall(engine, asked[g], call[g]) /\ call[g].ph # "done" /\ IsEngine(engine)
      BY <2>1 DEF Write, Inv, GoroutineInv
    <3>2. engine' = Step(engine, call[g]).e
      BY <2>1 DEF Write
    <3> QED
      BY <3>1, <3>2, WriterSteps DEF Follows
  <2>2. CASE engine' = engine
    BY <2>2
  <2> QED
    BY <2>1, <2>2 DEF Next, Enter, Run, Ask, RLock, Read, RUnlock, Announce, Lock, Unlock, vars
<1> QED
  BY <1>1, <1>2, ToldInit, Invariance, PTL DEF Spec, Implements, R!Spec

=============================================================================
