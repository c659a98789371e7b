----------------------------- MODULE LoopProofs -----------------------------
(***************************************************************************)
(* What the calls return, for all expressions, texts, counts and           *)
(* goroutines: no match between two of them is left out, the pieces and    *)
(* the matches are the text, and the answers are those that                *)
(* IterationMeaning.tla says they are.                                     *)
(***************************************************************************)
EXTENDS IterationProofs, IterationMeaning, WellFoundedInduction, FiniteSetTheorems

\* Does a match of p lie in s between two offsets?
Missed(p, s, from, to) == \E x \in Spans[p][s] : x[1] >= from /\ x[1] < to /\ x[2] <= to

SpansFrom(p, s, pos) == {x \in Spans[p][s] : x[1] >= pos}

\* An expression whose searches are as they are meant to be.
Seeks(p) == ~Program[p].hasAssertions /\ FindsFirst(p)

\* Methods that return pieces of the text.
Pieced == Looping \ {"FindAll"}

\* A search begins where the last match left off.
Placed(r) == r.ph = "search" => r.pos = After(r, Len(r.found))

\* NothingBetween, for one call: between its matches, and after the last one.
Gapless(p, r) ==
  \A k \in 1..Len(r.found) : ~Missed(p, r.s, After(r, k - 1), r.found[k][1])
AtEnd(p, r) == Exhausted(r) => ~Missed(p, r.s, After(r, Len(r.found)), Len(r.s) + 1)

\* There is a piece before each match, from where the one before left off.
Before(r) ==
  /\ Len(r.out) >= Len(r.found)
  /\ \A i \in 1..Len(r.found) : r.out[i] = <<After(r, i - 1), r.found[i][1]>>

\* The last piece goes to the end of the text; it begins behind the last match,
\* or where that left off.  There is none where nothing is left of the text.
Rest(r) ==
  LET n == Len(r.found)
  IN  \/ Len(r.out) = n /\ After(r, n) > Len(r.s)
      \/ /\ Len(r.out) = n + 1
         /\ \/ r.out[n + 1] = <<After(r, n), Len(r.s)>>
            \/ n > 0 /\ r.out[n + 1] = <<r.found[n][2], Len(r.s)>>

Pieces(r) ==
  r.op \in Pieced =>
    /\ r.ph = "search" => Before(r) /\ Len(r.out) = Len(r.found)
    /\ r.ph = "done" => (r.op = "Split" /\ r.n = 0) \/ (Before(r) /\ Rest(r))

\* The invariant of a call.
Orderly(p, r) ==
  /\ Placed(r)
  /\ Seeks(p) => Gapless(p, r) /\ AtEnd(p, r)
  /\ Pieces(r)

----------------------------------------------------------------------------
(* What a search finds.                                                    *)

\* Nothing that ends before a match begins has been passed over.
LEMMA EarliestSkipsNone ==
  ASSUME NEW s \in Input, NEW pos \in Nat, NEW spans \in SUBSET Location(s, pos),
         NEW loc, Earliest(spans, loc), loc # Nil,
         NEW x \in spans, x[1] < loc[1], x[2] <= loc[1]
  PROVE  FALSE
<1>1. PICK y \in spans : y[1] = loc[1] /\ y[2] <= x[2] /\ (x[2] = y[2] => y[1] <= x[1])
  BY DEF Earliest
<1>2. Len(s) \in Nat
  BY InputTexts
<1>3. /\ x[1] \in Nat /\ x[2] \in Nat /\ y[1] \in Nat /\ y[2] \in Nat
      /\ y[1] <= y[2]
  BY <1>2 DEF Location
<1> QED
  BY <1>1, <1>3

\* A search of what is cut off finds what a search of the whole text finds.
LEMMA EarliestMoves ==
  ASSUME NEW s \in Input, NEW pos \in Nat, NEW spans \in SUBSET Location(s, pos), NEW loc,
         Earliest({<<x[1] - pos, x[2] - pos>> : x \in spans}, loc)
  PROVE  Earliest(spans, Shift(loc, pos))
<1> DEFINE cut == {<<x[1] - pos, x[2] - pos>> : x \in spans}
<1>1. \A x \in spans : /\ x[1] \in Nat /\ x[2] \in Nat /\ x = <<x[1], x[2]>>
                       /\ <<x[1] - pos, x[2] - pos>> \in cut
  BY InputTexts DEF Location
<1>2. \A z \in cut : \E x \in spans : z = <<x[1] - pos, x[2] - pos>>
  OBVIOUS
<1>3. Earliest(cut, loc)
  OBVIOUS
<1>4. \A z \in cut : <<z[1] + pos, z[2] + pos>> \in spans /\ z[1] \in Int /\ z[2] \in Int
  BY <1>1, <1>2
<1> HIDE DEF cut
<1>5. CASE loc = Nil
  BY <1>1, <1>3, <1>5 DEF Earliest, Shift
<1>6. CASE loc # Nil
  <2> DEFINE to == <<loc[1] + pos, loc[2] + pos>>
  <2>1. loc \in cut /\ \A z \in cut : z[1] = loc[1] => z[2] <= loc[2]
    BY <1>3, <1>6 DEF Earliest
  <2>2. PICK y \in cut : /\ y[1] = loc[1]
                         /\ \A z \in cut : y[2] <= z[2] /\ (z[2] = y[2] => y[1] <= z[1])
    BY <1>3, <1>6 DEF Earliest
  <2>3. to \in spans /\ loc[1] \in Int /\ loc[2] \in Int /\ to[1] = loc[1] + pos
        /\ to[2] = loc[2] + pos
    BY <1>4, <2>1
  <2> DEFINE first == <<y[1] + pos, y[2] + pos>>
  <2>4. first \in spans /\ y[1] \in Int /\ y[2] \in Int
        /\ first[1] = y[1] + pos /\ first[2] = y[2] + pos
    BY <1>4
  <2>5. Shift(loc, pos) = to /\ to # Nil
    BY <1>6 DEF Shift, Nil
  <2> HIDE DEF to, first
  <2>6. ASSUME NEW x \in spans
        PROVE  /\ first[2] <= x[2] /\ (x[2] = first[2] => first[1] <= x[1])
               /\ x[1] = to[1] => x[2] <= to[2]
    <3> DEFINE z == <<x[1] - pos, x[2] - pos>>
    <3>1. z \in cut /\ x[1] \in Nat /\ x[2] \in Nat /\ z[1] = x[1] - pos /\ z[2] = x[2] - pos
      BY <1>1
    <3> HIDE DEF z
    <3>2. /\ y[2] <= z[2] /\ (z[2] = y[2] => y[1] <= z[1])
          /\ z[1] = loc[1] => z[2] <= loc[2]
      BY <2>1, <2>2, <3>1
    <3> QED
      BY <2>3, <2>4, <3>1, <3>2
  <2>7. first[1] = to[1]
    BY <2>2, <2>3, <2>4
  <2>8. Earliest(spans, to)
    BY <2>3, <2>4, <2>5, <2>6, <2>7 DEF Earliest
  <2> QED
    BY <2>5, <2>8
<1> QED
  BY <1>5, <1>6

\* What a search of either kind finds is what it is meant to find.
LEMMA FoundIsEarliest ==
  ASSUME NEW p \in Pattern, NEW r, Ready(r), Seeks(p)
  PROVE  /\ SpansFrom(p, r.s, r.pos) \in SUBSET Location(r.s, r.pos)
         /\ Earliest(SpansFrom(p, r.s, r.pos), Find[p][r.s][r.pos])
         /\ Earliest(SpansFrom(p, r.s, r.pos), FindInSuffix(p, r))
<1>1. r \in CallType /\ r.pos <= Len(r.s)
  BY DEF Ready, Sane
<1>2. r.s \in Input /\ Len(r.s) \in Nat /\ r.pos \in 0..Len(r.s) /\ r.pos \in Nat
  BY <1>1, CallFields
<1> DEFINE s == r.s
           pos == r.pos
           rest == Suffix(s, pos)
           spans == SpansFrom(p, s, pos)
<1>3. FindInSuffix(p, r) = Shift(Find[p][rest][0], pos)
  BY DEF FindInSuffix
<1> HIDE DEF s, pos, rest
<1>4. s \in Input /\ Len(s) \in Nat /\ pos \in 0..Len(s) /\ pos \in Nat
  BY <1>2 DEF s, pos
<1>5. rest \in Input /\ Len(rest) \in Nat
  BY <1>4, IterationAssumption, InputTexts DEF rest
<1>6. spans \in SUBSET Location(s, pos)
  <2>1. Spans[p][s] \subseteq Location(s, 0)
    BY <1>4, SpansAssumption
  <2> QED
    BY <1>4, <2>1 DEF Location, SpansFrom
<1>7. Earliest(spans, Find[p][s][pos])
  BY <1>4, Zenon DEF Seeks, FindsFirst, SpansFrom
<1>8. Earliest(spans, Shift(Find[p][rest][0], pos))
  <2> DEFINE cut == {<<x[1] - pos, x[2] - pos>> : x \in spans}
  <2>1. Spans[p][rest] = cut
    BY <1>4, SpansAssumption, Zenon DEF Seeks, SpansFrom, rest
  <2>2. {x \in Spans[p][rest] : x[1] >= 0} = Spans[p][rest]
    <3>1. Spans[p][rest] \subseteq Location(rest, 0)
      BY <1>5, SpansAssumption
    <3> QED
      BY <1>5, <3>1 DEF Location
  <2>3. 0 \in 0..Len(rest)
    BY <1>5
  <2>4. Earliest({x \in Spans[p][rest] : x[1] >= 0}, Find[p][rest][0])
    BY <1>5, <2>3, Zenon DEF Seeks, FindsFirst
  <2> HIDE DEF spans
  <2>5. Earliest(cut, Find[p][rest][0])
    BY <2>1, <2>2, <2>4
  <2> QED
    BY <1>4, <1>6, <2>5, EarliestMoves
<1> QED
  BY <1>3, <1>6, <1>7, <1>8 DEF s, pos

\* A search passes over no match.
LEMMA SearchSkipsNone ==
  ASSUME NEW p \in Pattern, NEW r, Ready(r), Seeks(p),
         NEW loc \in {Find[p][r.s][r.pos], FindInSuffix(p, r)}
  PROVE  /\ loc = Nil => ~Missed(p, r.s, r.pos, Len(r.s) + 1)
         /\ loc # Nil => ~Missed(p, r.s, r.pos, loc[1])
<1> DEFINE spans == SpansFrom(p, r.s, r.pos)
<1>1. spans \in SUBSET Location(r.s, r.pos) /\ Earliest(spans, loc)
  BY FoundIsEarliest
<1>2. r.s \in Input /\ r.pos \in Nat
  BY CallFields DEF Ready, Sane
<1>3. \A from, to : Missed(p, r.s, r.pos, to) => \E x \in spans : x[1] < to /\ x[2] <= to
  BY DEF Missed, SpansFrom
<1> HIDE DEF spans
<1>4. loc = Nil => spans = {}
  BY <1>1 DEF Earliest
<1> QED
  BY <1>1, <1>2, <1>3, <1>4, EarliestSkipsNone

----------------------------------------------------------------------------
(* A call's steps.                                                         *)

LEMMA AfterSame ==
  ASSUME NEW r, NEW q, q.s = r.s, NEW k, k # 0 => q.found[k] = r.found[k]
  PROVE  After(q, k) = After(r, k)
BY DEF After

\* What is said of matches and pieces is said of the text, the matches and the
\* pieces alone.
LEMMA SameText ==
  ASSUME NEW p, NEW r, NEW q, q.s = r.s, q.found = r.found, q.out = r.out
  PROVE  /\ \A k : After(q, k) = After(r, k)
         /\ Gapless(p, r) => Gapless(p, q)
         /\ Before(r) => Before(q)
<1>1. \A k : After(q, k) = After(r, k)
  BY DEF After
<1> QED
  BY <1>1 DEF Gapless, Before

\* Where the search goes on after a match is where the match leaves off.
LEMMA ResumeIsAfter ==
  ASSUME NEW r, NEW loc, Hits(r, loc)
  PROVE  Resume(r, loc) = After(r, Len(r.found))
<1>1. /\ r \in CallType /\ loc \in Location(r.s, r.pos) /\ Len(r.found) > 0
      /\ loc = r.found[Len(r.found)]
  BY DEF Hits, Sane, LastFound
<1>2. r.s \in Input /\ Len(r.s) \in Nat /\ r.pos \in Nat
  BY <1>1, CallFields
<1>3. loc[1] \in Nat /\ loc[1] >= r.pos /\ loc[1] <= Len(r.s)
  BY <1>1, <1>2 DEF Location
<1>4. AdvancePosAfterEmptyMatch(r.s, loc[1]) > r.pos
      /\ AdvancePosAfterEmptyMatch(r.s, loc[1]) \in Nat
  <2>1. CASE loc[1] < Len(r.s)
    <3>1. DecodeRune(r.s, loc[1]).size \in {1, 2}
      BY <1>2, <1>3, <2>1, RuneSize
    <3> QED
      BY <1>2, <1>3, <2>1, <3>1 DEF AdvancePosAfterEmptyMatch
  <2>2. CASE loc[1] >= Len(r.s)
    BY <1>2, <1>3, <2>2 DEF AdvancePosAfterEmptyMatch
  <2> QED
    BY <1>2, <1>3, <2>1, <2>2
<1> QED
  BY <1>1, <1>2, <1>4 DEF Resume, After

\* No match begins behind the text.
LEMMA NoneBehindText ==
  ASSUME NEW p \in Pattern, NEW s \in Input, NEW from \in Nat, from > Len(s), NEW to
  PROVE  ~Missed(p, s, from, to)
<1>1. Spans[p][s] \subseteq Location(s, 0) /\ Len(s) \in Nat
  BY SpansAssumption, InputTexts
<1> QED
  BY <1>1 DEF Missed, Location

\* After a match the call goes on behind it, or the text is at its end, or there
\* are matches enough.
LEMMA OnwardOrderly ==
  ASSUME NEW p \in Pattern, NEW r, NEW loc, Hits(r, loc),
         Seeks(p) => Gapless(p, r),
         r.op \in Pieced => Before(r) /\ Len(r.out) = Len(r.found)
  PROVE  Orderly(p, Onward(r, loc))
<1> DEFINE n == Len(r.found)
           pos == Resume(r, loc)
           moved == [r EXCEPT !.pos = pos]
           ph == IF moved.pos <= Len(moved.s) /\ ~Enough(moved) THEN "search" ELSE "done"
           q == [moved EXCEPT !.ph = ph]
<1>1. r \in CallType
  BY DEF Hits, Sane
<1>2. r.s \in Input /\ Len(r.s) \in Nat
  BY <1>1, CallFields
<1>3. pos \in Nat /\ pos = After(r, n)
  BY ResumeBehindMatch, ResumeIsAfter
<1>4. Onward(r, loc) = q
  BY DEF Onward, TopOfLoop
<1> HIDE DEF pos
<1>5. /\ moved \in CallType /\ moved.pos = pos
      /\ moved.s = r.s /\ moved.op = r.op /\ moved.n = r.n
      /\ moved.found = r.found /\ moved.out = r.out
  BY <1>1, <1>3, SetPos
<1> HIDE DEF moved
<1>6. ph \in {"search", "done"} /\ ph \in {"search", "run", "done"}
      /\ (ph = "done" => pos > Len(r.s) \/ Enough(r))
  BY <1>2, <1>3, <1>5 DEF Enough
<1> HIDE DEF ph
<1>7. /\ q.ph = ph /\ q.pos = pos
      /\ q.s = r.s /\ q.op = r.op /\ q.n = r.n
      /\ q.found = r.found /\ q.out = r.out
  BY <1>5, <1>6, SetPh
<1> HIDE DEF q
<1>8. /\ \A k : After(q, k) = After(r, k)
      /\ Gapless(p, r) => Gapless(p, q)
      /\ Before(r) => Before(q)
  BY <1>7, SameText
<1>9. Placed(q)
  BY <1>3, <1>7, <1>8 DEF Placed
<1>10. AtEnd(p, q)
  <2> SUFFICES ASSUME Exhausted(q)
               PROVE  ~Missed(p, q.s, After(q, Len(q.found)), Len(q.s) + 1)
    BY DEF AtEnd
  <2>1. ph = "done" /\ ~Enough(r)
    BY <1>7 DEF Exhausted, Enough
  <2>2. pos > Len(r.s)
    BY <1>6, <2>1
  <2> QED
    BY <1>2, <1>3, <1>7, <1>8, <2>2, NoneBehindText
<1>11. Pieces(q)
  <2> SUFFICES ASSUME r.op \in Pieced
               PROVE  Before(q) /\ Len(q.out) = n /\ (ph = "done" => Rest(q))
    BY <1>7 DEF Pieces
  <2>1. Before(q) /\ Len(q.out) = n
    BY <1>7, <1>8
  <2>2. ~Enough(r)
    BY DEF Enough, Pieced, Looping
  <2>3. ph = "done" => Rest(q)
    BY <1>3, <1>6, <1>7, <1>8, <2>1, <2>2 DEF Rest
  <2> QED
    BY <2>1, <2>3
<1> QED
  BY <1>4, <1>8, <1>9, <1>10, <1>11 DEF Orderly

\* The match that a search finds.
LEMMA NextGap ==
  ASSUME NEW p \in Pattern, NEW r, Ready(r), r.ph = "search", Orderly(p, r),
         NEW loc \in {Find[p][r.s][r.pos], FindInSuffix(p, r)}, loc # Nil,
         NEW q, q.s = r.s, q.found = Append(r.found, loc)
  PROVE  /\ \A k \in 0..Len(r.found) : After(q, k) = After(r, k)
         /\ Len(q.found) = Len(r.found) + 1 /\ q.found[Len(r.found) + 1] = loc
         /\ \A k \in 1..Len(r.found) : q.found[k] = r.found[k]
         /\ r.pos = After(r, Len(r.found))
         /\ Seeks(p) => Gapless(p, q)
<1> DEFINE n == Len(r.found)
<1>1. r.found \in Seq(Pair) /\ n \in Nat
  BY CallFields DEF Ready, Sane
<1>2. /\ Len(q.found) = n + 1 /\ q.found[n + 1] = loc
      /\ \A k \in 1..n : q.found[k] = r.found[k]
  BY <1>1
<1>3. \A k \in 0..n : After(q, k) = After(r, k)
  <2> SUFFICES ASSUME NEW k \in 0..n
               PROVE  After(q, k) = After(r, k)
    OBVIOUS
  <2>1. k # 0 => k \in 1..n
    BY <1>1
  <2> QED
    BY <1>2, <2>1, AfterSame
<1>4. r.pos = After(r, n)
  BY DEF Orderly, Placed
<1>5. ASSUME Seeks(p)
      PROVE  Gapless(p, q)
  <2> SUFFICES ASSUME NEW k \in 1..n + 1
               PROVE  ~Missed(p, r.s, After(q, k - 1), q.found[k][1])
    BY <1>2 DEF Gapless
  <2>1. CASE k \in 1..n
    <3>1. k - 1 \in 0..n
      BY <1>1, <2>1
    <3>2. ~Missed(p, r.s, After(r, k - 1), r.found[k][1])
      BY <1>5, <2>1 DEF Orderly, Gapless
    <3> QED
      BY <1>2, <1>3, <2>1, <3>1, <3>2
  <2>2. CASE k = n + 1
    <3>1. ~Missed(p, r.s, r.pos, loc[1])
      BY <1>5, SearchSkipsNone
    <3>2. k - 1 = n /\ n \in 0..n
      BY <1>1, <2>2
    <3>3. After(q, k - 1) = r.pos
      BY <1>3, <1>4, <3>2
    <3> QED
      BY <1>2, <2>2, <3>1, <3>3
  <2> QED
    BY <1>1, <2>1, <2>2
<1> QED
  BY <1>2, <1>3, <1>4, <1>5

\* No further match.
LEMMA LastSearchOrderly ==
  ASSUME NEW p \in Pattern, NEW r, Ready(r), r.ph = "search", Orderly(p, r),
         Nil \in {Find[p][r.s][r.pos], FindInSuffix(p, r)}
  PROVE  Orderly(p, LastSearch(r))
<1> DEFINE n == Len(r.found)
           piece == <<r.pos, Len(r.s)>>
           out == IF r.op \in Pieced THEN Append(r.out, piece) ELSE r.out
           q == [r EXCEPT !.ph = "done", !.out = out]
<1>1. r \in CallType
  BY DEF Ready, Sane
<1>2. /\ r.out \in Seq(Pair \cup Row) /\ r.found \in Seq(Pair)
      /\ Len(r.out) \in Nat /\ n \in Nat /\ r.pos \in Nat /\ Len(r.s) \in Nat
  BY <1>1, CallFields
<1>3. r.pos = After(r, n) /\ piece = <<After(r, n), Len(r.s)>>
  BY DEF Orderly, Placed
<1>4. piece \in Pair \cup Row
  BY <1>2 DEF Pair
<1> HIDE DEF piece
<1>5. r.op \in Pieced =>
        /\ Len(out) = Len(r.out) + 1
        /\ out[Len(r.out) + 1] = piece
        /\ \A k \in 1..Len(r.out) : out[k] = r.out[k]
  BY <1>2, <1>4
<1>6. LastSearch(r) = q
  BY DEF LastSearch, Pieced, piece
<1> HIDE DEF out
<1>7. /\ q.ph = "done" /\ q.out = out
      /\ q.s = r.s /\ q.op = r.op /\ q.n = r.n /\ q.found = r.found
  BY <1>1 DEF CallType
<1> HIDE DEF q
<1>8. \A k : After(q, k) = After(r, k)
  BY <1>7, Zenon DEF After
<1>9. Placed(q)
  BY <1>7 DEF Placed
<1>10. ASSUME Seeks(p)
       PROVE  Gapless(p, q) /\ AtEnd(p, q)
  <2>1. ~Missed(p, r.s, r.pos, Len(r.s) + 1)
    BY <1>10, SearchSkipsNone
  <2>2. Gapless(p, r)
    BY <1>10 DEF Orderly
  <2> QED
    BY <1>3, <1>7, <1>8, <2>1, <2>2, Zenon DEF Gapless, AtEnd
<1>11. Pieces(q)
  <2> SUFFICES ASSUME r.op \in Pieced
               PROVE  Before(q) /\ Rest(q)
    BY <1>7 DEF Pieces
  <2>1. Before(r) /\ Len(r.out) = n
    BY DEF Orderly, Pieces
  <2>2. Before(q)
    BY <1>2, <1>5, <1>7, <1>8, <2>1 DEF Before
  <2>3. Rest(q)
    BY <1>2, <1>3, <1>5, <1>7, <1>8, <2>1 DEF Rest
  <2> QED
    BY <2>2, <2>3
<1> QED
  BY <1>6, <1>9, <1>10, <1>11 DEF Orderly

\* A match in a loop.
LEMMA LoopMatchOrderly ==
  ASSUME NEW p \in Pattern, NEW r, Ready(r), r.ph = "search", r.op \in Looping,
         Orderly(p, r), NEW loc \in {Find[p][r.s][r.pos], FindInSuffix(p, r)}, loc # Nil
  PROVE  Orderly(p, LoopMatch(r, loc))
<1> DEFINE n == Len(r.found)
           found == Append(r.found, loc)
           piece == Piece(r, loc)
           out == IF r.op = "FindAll" THEN r.out ELSE Append(r.out, piece)
           more == [r EXCEPT !.found = found, !.out = out]
           rest == <<loc[2], Len(r.s)>>
           last == Append(more.out, rest)
           q == [more EXCEPT !.ph = "done", !.out = last]
<1>1. r \in CallType
  BY DEF Ready, Sane
<1>2. /\ r.out \in Seq(Pair \cup Row) /\ r.found \in Seq(Pair)
      /\ r.pos \in Nat /\ Len(r.s) \in Nat /\ n \in Nat /\ Len(r.out) \in Nat
  BY <1>1, CallFields
<1>3. loc \in Location(r.s, r.pos)
  BY FoundFromPos
<1>4. loc \in Pair /\ loc[1] \in Nat /\ loc[2] \in Nat
  BY <1>2, <1>3 DEF Location, Pair
<1>5. piece = <<r.pos, loc[1]>> /\ piece \in Pair \cup Row /\ rest \in Pair \cup Row
  BY <1>2, <1>4 DEF Piece, Pair
<1>6. LoopMatch(r, loc) = IF r.op = "Split" /\ r.n > 0 /\ Len(more.found) >= r.n - 1
                          THEN q ELSE Onward(more, loc)
  BY DEF LoopMatch
<1> HIDE DEF piece, rest
<1>7. found \in Seq(Pair) /\ out \in Seq(Pair \cup Row)
  BY <1>2, <1>4, <1>5
<1>8. r.op # "FindAll" =>
        /\ Len(out) = Len(r.out) + 1
        /\ out[Len(r.out) + 1] = piece
        /\ \A k \in 1..Len(r.out) : out[k] = r.out[k]
  BY <1>2, <1>5
<1> HIDE DEF found, out
<1>9. /\ more \in CallType
      /\ more.found = found /\ more.out = out
      /\ more.s = r.s /\ more.op = r.op /\ more.n = r.n /\ more.pos = r.pos
  BY <1>1, <1>7 DEF CallType
<1> HIDE DEF more
<1>10. Hits(more, loc)
  BY <1>3, <1>9, NextMatch DEF found
<1>11. /\ \A k \in 0..n : After(more, k) = After(r, k)
       /\ Len(more.found) = n + 1 /\ more.found[n + 1] = loc
       /\ \A k \in 1..n : more.found[k] = r.found[k]
       /\ r.pos = After(r, n)
       /\ Seeks(p) => Gapless(p, more)
  BY <1>9, NextGap DEF found
<1>12. r.op \in Pieced => Before(more) /\ Len(more.out) = Len(more.found)
  <2> SUFFICES ASSUME r.op \in Pieced
               PROVE  /\ Len(more.out) = Len(more.found)
                      /\ \A i \in 1..n + 1 :
                           more.out[i] = <<After(more, i - 1), more.found[i][1]>>
    BY <1>2, <1>11 DEF Before
  <2>1. r.op # "FindAll" /\ Before(r) /\ Len(r.out) = n
    BY DEF Orderly, Pieces, Pieced
  <2>2. Len(out) = n + 1 /\ out[n + 1] = piece /\ \A k \in 1..n : out[k] = r.out[k]
    BY <1>8, <2>1
  <2>3. ASSUME NEW i \in 1..n
        PROVE  out[i] = <<After(more, i - 1), more.found[i][1]>>
    <3>1. i - 1 \in 0..n
      BY <1>2
    <3> QED
      BY <1>11, <2>1, <2>2, <3>1 DEF Before
  <2>4. out[n + 1] = <<After(more, n), more.found[n + 1][1]>>
    BY <1>2, <1>5, <1>11, <2>2
  <2> QED
    BY <1>2, <1>9, <1>11, <2>2, <2>3, <2>4
<1>13. Orderly(p, Onward(more, loc))
  BY <1>9, <1>10, <1>11, <1>12, OnwardOrderly
<1>14. ASSUME r.op = "Split", r.n > 0, Len(more.found) >= r.n - 1
       PROVE  Orderly(p, q)
  <2>1. r.op \in Pieced
    BY <1>14 DEF Pieced, Looping
  <2>2. /\ Len(last) = n + 2 /\ last[n + 2] = rest
        /\ \A k \in 1..n + 1 : last[k] = more.out[k]
    BY <1>2, <1>5, <1>7, <1>9, <1>11, <1>12, <2>1
  <2> HIDE DEF last
  <2>3. /\ q.ph = "done" /\ q.out = last
        /\ q.s = more.s /\ q.op = more.op /\ q.n = more.n /\ q.found = more.found
    BY <1>9 DEF CallType
  <2> HIDE DEF q
  <2>4. \A k : After(q, k) = After(more, k)
    BY <2>3, Zenon DEF After
  <2>5. Before(q)
    <3>1. Len(q.found) = n + 1 /\ Len(q.out) >= n + 1
      BY <1>2, <1>11, <2>2, <2>3
    <3>2. ASSUME NEW i \in 1..n + 1
          PROVE  q.out[i] = <<After(q, i - 1), q.found[i][1]>>
      <4>1. more.out[i] = <<After(more, i - 1), more.found[i][1]>>
        BY <1>11, <1>12, <2>1 DEF Before
      <4>2. q.out[i] = more.out[i] /\ After(q, i - 1) = After(more, i - 1)
        BY <2>2, <2>3, <2>4
      <4> QED
        BY <2>3, <4>1, <4>2, Zenon
    <3> HIDE DEF n
    <3> QED
      BY <3>1, <3>2 DEF Before
  <2>6. Rest(q)
    BY <1>2, <1>9, <1>11, <2>2, <2>3 DEF Rest, rest
  <2>7. Pieces(q)
    BY <2>3, <2>5, <2>6 DEF Pieces
  <2>8. r.n \in Int
    BY <1>1, CallFields
  <2>9. AtEnd(p, q)
    BY <1>2, <1>9, <1>11, <1>14, <2>3, <2>8 DEF AtEnd, Exhausted
  <2>10. Seeks(p) => Gapless(p, q)
    BY <1>11, <2>3, <2>4, Zenon DEF Gapless
  <2>11. Placed(q)
    BY <2>3 DEF Placed
  <2> QED
    BY <2>7, <2>9, <2>10, <2>11 DEF Orderly
<1> HIDE DEF q
<1> QED
  BY <1>6, <1>13, <1>14

LEMMA TurnOrderly ==
  ASSUME NEW p \in Pattern, NEW r, Ready(r), r.ph = "search", r.op \in Looping,
         Orderly(p, r)
  PROVE  Orderly(p, Turn(p, r))
<1> DEFINE loc == Located(p, r)
<1>1. loc \in {Find[p][r.s][r.pos], FindInSuffix(p, r)}
  BY DEF Located
<1>2. Turn(p, r) = IF loc = Nil THEN LastSearch(r) ELSE LoopMatch(r, loc)
  BY DEF Turn
<1> HIDE DEF loc
<1> QED
  BY <1>1, <1>2, LastSearchOrderly, LoopMatchOrderly

\* A row more.
LEMMA FinishedOrderly ==
  ASSUME NEW p \in Pattern, NEW r, Hits(r, LastFound(r)), r.op \in Submatch,
         Seeks(p) => Gapless(p, r), NEW row \in Row
  PROVE  Orderly(p, Finished(r, row))
<1> DEFINE out == Append(r.out, row)
           more == [r EXCEPT !.out = out]
           loc == LastFound(r)
           q == [more EXCEPT !.ph = "done"]
<1>1. r \in CallType
  BY DEF Hits, Sane
<1>2. out \in Seq(Pair \cup Row)
  BY <1>1, CallFields
<1> HIDE DEF out
<1>3. /\ more \in CallType
      /\ more.s = r.s /\ more.op = r.op /\ more.n = r.n
      /\ more.pos = r.pos /\ more.found = r.found
  BY <1>1, <1>2 DEF CallType
<1>4. Finished(r, row) = IF r.op = "FindSubmatch" THEN q ELSE Onward(more, loc)
  BY DEF Finished, LastFound, out
<1> HIDE DEF more
<1>5. Hits(more, loc)
  BY <1>3 DEF Hits, Sane, InOrder, LastFound
<1>6. \A k : After(more, k) = After(r, k)
  BY <1>3, Zenon DEF After
<1>7. Seeks(p) => Gapless(p, more)
  BY <1>3, <1>6, Zenon DEF Gapless
<1>8. more.op \notin Pieced
  BY <1>3 DEF Submatch, Pieced, Looping
<1>9. Orderly(p, Onward(more, loc))
  BY <1>5, <1>7, <1>8, OnwardOrderly
<1>10. ASSUME r.op = "FindSubmatch"
       PROVE  Orderly(p, q)
  <2>1. /\ q.ph = "done" /\ q.s = more.s /\ q.op = more.op /\ q.found = more.found
    BY <1>3, SetPh
  <2> HIDE DEF q
  <2>2. \A k : After(q, k) = After(more, k)
    BY <2>1, Zenon DEF After
  <2>3. Seeks(p) => Gapless(p, q)
    BY <1>7, <2>1, <2>2, Zenon DEF Gapless
  <2> QED
    BY <1>3, <1>8, <1>10, <2>1, <2>3 DEF Orderly, Placed, AtEnd, Exhausted, Pieces
<1> HIDE DEF q
<1> QED
  BY <1>4, <1>9, <1>10

\* A match whose groups are to be found.
LEMMA MatchedOrderly ==
  ASSUME NEW p \in Pattern, NEW r, Ready(r), r.ph = "search", r.op \in Submatch,
         Orderly(p, r), NEW loc \in {Find[p][r.s][r.pos], FindInSuffix(p, r)}, loc # Nil
  PROVE  Orderly(p, Matched(p, r, loc))
<1> DEFINE found == Append(r.found, loc)
           more == [r EXCEPT !.found = found]
           captures == Program[p].captures
           q == [more EXCEPT !.ph = "run", !.at = 0, !.st = Root, !.slots = NoSlots(captures)]
<1>1. r \in CallType
  BY DEF Ready, Sane
<1>2. r.found \in Seq(Pair) /\ r.pos \in Nat /\ Len(r.s) \in Nat
  BY <1>1, CallFields
<1>3. loc \in Location(r.s, r.pos)
  BY FoundFromPos
<1>4. loc \in Pair /\ loc[1] <= loc[2]
  BY <1>2, <1>3 DEF Location, Pair
<1>5. found \in Seq(Pair)
  BY <1>2, <1>4
<1>6. Matched(p, r, loc) = IF captures = 0 THEN Finished(more, Whole(loc)) ELSE q
  BY DEF Matched
<1> HIDE DEF found
<1>7. /\ more \in CallType
      /\ more.found = found
      /\ more.s = r.s /\ more.op = r.op /\ more.pos = r.pos
  BY <1>1, <1>5 DEF CallType
<1> HIDE DEF more
<1>8. Hits(more, loc) /\ LastFound(more) = loc
  BY <1>3, <1>7, NextMatch DEF found, LastFound
<1>9. Seeks(p) => Gapless(p, more)
  BY <1>7, NextGap DEF found
<1>10. Orderly(p, Finished(more, Whole(loc)))
  <2>1. Whole(loc) \in Row
    BY <1>4, WholeRow
  <2> QED
    BY <1>7, <1>8, <1>9, <2>1, FinishedOrderly
<1>11. Orderly(p, q)
  <2>1. q.ph = "run" /\ q.s = more.s /\ q.op = more.op /\ q.found = more.found
    BY <1>7 DEF CallType
  <2> HIDE DEF q
  <2>2. \A k : After(q, k) = After(more, k)
    BY <2>1, Zenon DEF After
  <2>3. Seeks(p) => Gapless(p, q)
    BY <1>9, <2>1, <2>2, Zenon DEF Gapless
  <2>4. q.op \notin Pieced
    BY <1>7, <2>1 DEF Submatch, Pieced, Looping
  <2> QED
    BY <2>1, <2>3, <2>4 DEF Orderly, Placed, AtEnd, Exhausted, Pieces
<1> HIDE DEF q
<1> QED
  BY <1>6, <1>10, <1>11

\* A run over a match touches neither the matches nor the pieces, until a row is
\* made of it.
LEMMA RunOrderly ==
  ASSUME NEW p \in Pattern, NEW r, Running(p, r), r.ph = "run", Orderly(p, r), NEW d
  PROVE  /\ Orderly(p, RunByte(p, d, r).r)
         /\ Orderly(p, RunEnd(d, r).r)
<1> DEFINE loc == LastFound(r)
           byte == RunByte(p, d, r).r
           row == Moved(Marked(d, r), loc)
           stop == [r EXCEPT !.ph = "done"]
<1>1. r \in CallType /\ Hits(r, loc) /\ r.op \in Submatch /\ r.op \notin Pieced
  BY DEF Running, Hits, Sane, Submatch, Pieced, Looping
<1>2. Seeks(p) => Gapless(p, r)
  BY DEF Orderly
<1>3. Orderly(p, byte)
  <2>1. /\ byte.ph = r.ph /\ byte.s = r.s /\ byte.op = r.op /\ byte.found = r.found
    BY <1>1 DEF RunByte, CallType
  <2> HIDE DEF byte
  <2>2. \A k : After(byte, k) = After(r, k)
    BY <2>1, Zenon DEF After
  <2>3. Seeks(p) => Gapless(p, byte)
    BY <1>2, <2>1, <2>2, Zenon DEF Gapless
  <2> QED
    BY <1>1, <2>1, <2>3 DEF Orderly, Placed, AtEnd, Exhausted, Pieces
<1>4. row \in Row /\ Whole(loc) \in Row
  <2>1. loc[1] \in Nat /\ loc[1] <= loc[2] /\ loc \in Pair
        /\ Len(Span(r)) = loc[2] - loc[1]
    BY <1>1, SpanIs
  <2>2. /\ Marked(d, r) \in [0..Program[p].captures -> Pair]
        /\ InSpan(Marked(d, r), r.at)
        /\ r.at \in Nat /\ r.at <= loc[2] - loc[1]
    BY <1>1, <2>1, MarkedInSpan, CallFields DEF Running
  <2>3. Program[p].captures \in Nat
    BY IterationAssumption
  <2> QED
    BY <2>1, <2>2, <2>3, MovedInMatch, WholeRow
<1>5. Orderly(p, Finished(r, row)) /\ Orderly(p, Finished(r, Whole(loc)))
  BY <1>1, <1>2, <1>4, FinishedOrderly
<1>6. ASSUME r.op = "FindSubmatch"
      PROVE  Orderly(p, stop)
  <2>1. stop.ph = "done" /\ stop.s = r.s /\ stop.op = r.op /\ stop.found = r.found
    BY <1>1 DEF CallType
  <2> HIDE DEF stop
  <2>2. \A k : After(stop, k) = After(r, k)
    BY <2>1, Zenon DEF After
  <2>3. Seeks(p) => Gapless(p, stop)
    BY <1>2, <2>1, <2>2, Zenon DEF Gapless
  <2> QED
    BY <1>1, <1>6, <2>1, <2>3 DEF Orderly, Placed, AtEnd, Exhausted, Pieces
<1>7. RunEnd(d, r).r = IF Accepting(d, r) /\ r.st # Dead THEN Finished(r, row)
                       ELSE IF r.op = "FindSubmatch" THEN stop
                       ELSE Finished(r, Whole(loc))
  BY DEF RunEnd, LastFound
<1> HIDE DEF row, stop, loc
<1>8. Orderly(p, RunEnd(d, r).r)
  <2>1. CASE Accepting(d, r) /\ r.st # Dead
    BY <1>5, <1>7, <2>1
  <2>2. CASE ~(Accepting(d, r) /\ r.st # Dead) /\ r.op = "FindSubmatch"
    BY <1>6, <1>7, <2>2
  <2>3. CASE ~(Accepting(d, r) /\ r.st # Dead) /\ r.op # "FindSubmatch"
    BY <1>5, <1>7, <2>3
  <2> QED
    BY <2>1, <2>2, <2>3
<1> QED
  BY <1>3, <1>8

\* A new call; of those that return at once, Split has a piece or none.
LEMMA NewCallOrderly ==
  ASSUME NEW p \in Pattern, NEW ask \in Request, NEW way
  PROVE  Orderly(p, NewCall(ask, way))
<1> DEFINE n == Count(ask, way)
           first == [op |-> ask.op, s |-> ask.s, n |-> n, ph |-> "search", pos |-> 0,
                     found |-> <<>>, out |-> <<>>, at |-> 0, st |-> Root,
                     slots |-> NoSlots(0)]
           atOnce == [first EXCEPT !.ph = "done",
                                   !.out = IF ask.n = 0 THEN <<>> ELSE <<<<0, Len(ask.s)>>>>]
           q == NewCall(ask, way)
<1>1. ask.s \in Input /\ Len(ask.s) \in Nat /\ ask.op \in Looping \cup Submatch
  BY IterationAssumption, InputTexts
<1>2. q = IF ask.op = "Split" /\ ask.n \in {0, 1} THEN atOnce ELSE TopOfLoop(first)
  BY DEF NewCall
<1>3. /\ q.s = ask.s /\ q.op = ask.op /\ q.n = n /\ q.found = <<>>
      /\ q.ph = "search" => q.pos = 0
      /\ \/ q.out = <<>>
         \/ q.out = <<<<0, Len(ask.s)>>>> /\ q.ph = "done"
      /\ q.ph \in {"search", "done"}
  BY <1>2 DEF TopOfLoop
<1>4. q.ph = "done" =>
        \/ ask.op = "Split" /\ ask.n = 0 /\ q.n = 0
        \/ ask.op = "Split" /\ ask.n = 1 /\ q.n = 1 /\ q.out = <<<<0, Len(ask.s)>>>>
        \/ Enough(q)
  BY <1>1, <1>2 DEF TopOfLoop, Enough, Count
<1> HIDE DEF q
<1>5. After(q, 0) = 0 /\ Len(q.found) = 0
  BY <1>3 DEF After
<1>6. Placed(q) /\ Gapless(p, q) /\ Before(q)
  BY <1>3, <1>5 DEF Placed, Gapless, Before
<1>7. ~Exhausted(q)
  BY <1>3, <1>4, <1>5 DEF Exhausted
<1>8. Pieces(q)
  <2>1. q.op \in Pieced => ~Enough(q)
    BY DEF Enough, Pieced, Looping
  <2>2. q.out = <<>> => Len(q.out) = 0
    OBVIOUS
  <2>3. q.out = <<<<0, Len(ask.s)>>>> => Rest(q)
    <3>1. <<0, Len(q.s)>> = <<After(q, 0), Len(q.s)>>
      BY <1>5
    <3> DEFINE piece == <<0, Len(q.s)>>
    <3>2. Len(<<piece>>) = 0 + 1 /\ <<piece>>[0 + 1] = piece
      OBVIOUS
    <3> HIDE DEF piece
    <3>3. ASSUME q.out = <<piece>>
          PROVE  Len(q.out) = 0 + 1 /\ q.out[0 + 1] = piece
      BY <3>2, <3>3
    <3>4. q.out = <<piece>> => Rest(q)
      BY <1>5, <3>1, <3>3 DEF Rest, piece
    <3> QED
      BY <1>3, <3>4 DEF piece
  <2>4. q.op \in Pieced /\ q.ph = "search" => Len(q.out) = Len(q.found)
    BY <1>3, <1>5, <2>2
  <2>5. q.op \in Pieced /\ q.ph = "done" => (q.op = "Split" /\ q.n = 0) \/ Rest(q)
    <3> SUFFICES ASSUME q.op \in Pieced, q.ph = "done"
                 PROVE  (q.op = "Split" /\ q.n = 0) \/ Rest(q)
      OBVIOUS
    <3>1. CASE ask.op = "Split" /\ ask.n = 0 /\ q.n = 0
      BY <1>3, <3>1
    <3>2. CASE ask.op = "Split" /\ ask.n = 1 /\ q.n = 1 /\ q.out = <<<<0, Len(ask.s)>>>>
      BY <2>3, <3>2
    <3>3. CASE Enough(q)
      BY <2>1, <3>3
    <3> QED
      BY <1>4, <3>1, <3>2, <3>3
  <2> SUFFICES ASSUME q.op \in Pieced
               PROVE  /\ q.ph = "search" => Before(q) /\ Len(q.out) = Len(q.found)
                      /\ q.ph = "done" => (q.op = "Split" /\ q.n = 0) \/ (Before(q) /\ Rest(q))
    BY DEF Pieces
  <2>6. Before(q)
    BY <1>6
  <2> QED
    BY <2>4, <2>5, <2>6, Zenon
<1> QED
  BY <1>6, <1>7, <1>8 DEF Orderly, AtEnd, q

----------------------------------------------------------------------------
(* All calls.                                                              *)

OrderlyInv == \A g \in Caller : Called(g) \/ pc[g] # "idle" => Orderly(pat, call[g])

\* How the call of a goroutine may change in a step: it stays, a call begins,
\* a search is made, or a byte of a match is run over.
LEMMA CallMoves ==
  ASSUME Inv, [Next]_vars, NEW g \in Caller
  PROVE  /\ pat' = pat
         /\ \/ call'[g] = call[g] /\ (pc[g] = "idle" => pc'[g] = "idle")
            \/ \E q \in Request : \E way : call'[g] = NewCall(q, way)
            \/ /\ pc[g] # "idle" /\ Ready(call[g]) /\ call[g].ph = "search"
               /\ \/ call[g].op \in Looping /\ call'[g] = Turn(pat, call[g])
                  \/ /\ call[g].op \in Submatch
                     /\ \E loc \in {Find[pat][call[g].s][call[g].pos],
                                    FindInSuffix(pat, call[g])} :
                          call'[g] = IF loc = Nil THEN LastSearch(call[g])
                                     ELSE Matched(pat, call[g], loc)
            \/ /\ pc[g] # "idle" /\ Running(pat, call[g]) /\ call[g].ph = "run"
               /\ \E d : call'[g] \in {RunByte(pat, d, call[g]).r, RunEnd(d, call[g]).r}
<1>1. pat' = pat
  BY Zenon DEF Next, Proceed, Call, ReturnAtOnce, Loop, RLock, Read, Miss, ReadTurn, Lock, Write, WriteSearch,
         WriteRun, Unlock, vars
<1>2. /\ call \in [Caller -> CallType \cup {None}]
      /\ \A h \in Caller : pc[h] # "idle" => CallInv(pat, call[h]) /\ call[h] \in CallType
  BY DEF Inv, CallerInv, CallInv, Sane
<1> DEFINE Stays == call'[g] = call[g] /\ (pc[g] = "idle" => pc'[g] = "idle")
           Begins == \E q \in Request : \E way : call'[g] = NewCall(q, way)
           Searches ==
             /\ pc[g] # "idle" /\ Ready(call[g]) /\ call[g].ph = "search"
             /\ \/ call[g].op \in Looping /\ call'[g] = Turn(pat, call[g])
                \/ /\ call[g].op \in Submatch
                   /\ \E loc \in {Find[pat][call[g].s][call[g].pos],
                                  FindInSuffix(pat, call[g])} :
                        call'[g] = IF loc = Nil THEN LastSearch(call[g])
                                   ELSE Matched(pat, call[g], loc)
           Runs ==
             /\ pc[g] # "idle" /\ Running(pat, call[g]) /\ call[g].ph = "run"
             /\ \E d : call'[g] \in {RunByte(pat, d, call[g]).r, RunEnd(d, call[g]).r}
           Moves(h) == h = g => Stays \/ Begins \/ Searches \/ Runs
<1>5. \A h \in Caller : \A r : call' = [call EXCEPT ![h] = r] =>
        /\ h # g => call'[g] = call[g]
        /\ h = g => call'[g] = r
  BY <1>2
<1> SUFFICES Stays \/ Begins \/ Searches \/ Runs
  BY <1>1, Zenon
<1>6. ASSUME NEW h \in Caller, h # g, Proceed(h) \/ \E q \in Request : Call(h, q)
      PROVE  Stays
  <2>1. /\ call' = call \/ \E r : call' = [call EXCEPT ![h] = r]
        /\ pc' = pc \/ \E to : pc' = [pc EXCEPT ![h] = to]
    BY <1>6, Zenon DEF Proceed, Call, ReturnAtOnce, Loop, RLock, Read, Miss, ReadTurn, Lock, Write,
       WriteSearch, WriteRun, Unlock, RUnlock, Go, Do
  <2>2. pc'[g] = pc[g]
    BY <1>6, <2>1 DEF Inv, LockInv
  <2> QED
    BY <1>5, <1>6, <2>1, <2>2, Zenon
<1>7. ASSUME NEW q \in Request, Call(g, q)
      PROVE  Begins
  <2>1. call' = [call EXCEPT ![g] = NewCall(q, q.way)]
    BY <1>7, Zenon DEF Call, Do
  <2>2. call'[g] = NewCall(q, q.way)
    BY <1>5, <2>1, Zenon
  <2> QED
    BY <2>2, Zenon
<1>8. ASSUME Lock(g)
      PROVE  Begins
  <2>1. call' = [call EXCEPT ![g] = NewCall(asked[g], "engine")] /\ pc[g] = "lock"
    BY <1>8, Zenon DEF Lock, Do
  <2>2. call'[g] = NewCall(asked[g], "engine") /\ asked[g] \in Request
    BY <1>5, <2>1, Mover
  <2> QED
    BY <2>2, Zenon
<1>9. ASSUME ReturnAtOnce(g) \/ RLock(g) \/ Miss(g) \/ Unlock(g) \/ UNCHANGED vars
      PROVE  Stays
  <2>1. /\ call' = call
        /\ pc[g] \in {"loop", "rlock", "reading", "writing"} \/ pc' = pc
    BY <1>9, Zenon DEF ReturnAtOnce, RLock, Miss, Unlock, vars
  <2> QED
    BY <2>1
<1>10. ASSUME Loop(g)
       PROVE  Searches
  <2>1. /\ pc[g] = "loop" /\ call[g].ph = "search"
        /\ call' = [call EXCEPT ![g] = Turn(pat, call[g])]
    BY <1>10, Zenon DEF Loop, Do
  <2>2. call'[g] = Turn(pat, call[g])
    BY <1>5, <2>1, Zenon
  <2>3. CallerInv(g) /\ pc[g] # "idle"
    BY <2>1 DEF Inv
  <2>4. CallInv(pat, call[g]) /\ call[g].ph = "search" /\ call[g].op \in Looping
    BY <2>1, <2>3 DEF CallerInv
  <2>5. Ready(call[g])
    BY <2>3, <2>4 DEF CallInv
  <2> QED
    BY <2>2, <2>3, <2>4, <2>5, Zenon
<1>11. ASSUME ReadTurn(g)
       PROVE  Stays \/ Searches
  <2> DEFINE r == CachedTurn(pat, call[g])
             loc == FindInSuffix(pat, call[g])
  <2>1. pc[g] = "reading" /\ call' = [call EXCEPT ![g] = r]
    BY <1>11, Zenon DEF ReadTurn, Hit, Do
  <2>2. call'[g] = r
    BY <1>5, <2>1, Zenon
  <2>3. CallerInv(g) /\ pc[g] # "idle"
    BY <2>1 DEF Inv
  <2>4. /\ CallInv(pat, call[g]) /\ call[g].op \in Submatch /\ call[g].ph # "run"
        /\ call[g] \in CallType
    BY <1>2, <2>1, <2>3 DEF CallerInv
  <2>5. CASE call[g].ph = "done"
    BY <2>1, <2>2, <2>5 DEF CachedTurn
  <2>6. CASE call[g].ph = "search"
    <3>1. r = IF loc = Nil THEN LastSearch(call[g]) ELSE Matched(pat, call[g], loc)
      BY <2>6 DEF CachedTurn
    <3>2. Ready(call[g])
      BY <2>4, <2>6 DEF CallInv
    <3>3. loc \in {Find[pat][call[g].s][call[g].pos], FindInSuffix(pat, call[g])}
      OBVIOUS
    <3> HIDE DEF r, loc
    <3> QED
      BY <2>2, <2>3, <2>4, <2>6, <3>1, <3>2, <3>3, Zenon
  <2>7. call[g].ph \in {"search", "run", "done"}
    BY <2>4, CallFields
  <2> QED
    BY <2>4, <2>5, <2>6, <2>7
<1>12. ASSUME WriteSearch(g)
       PROVE  Searches
  <2> DEFINE r == IF call[g].op \in Looping THEN Turn(pat, call[g])
                  ELSE SubmatchTurn(pat, call[g])
             loc == Find[pat][call[g].s][call[g].pos]
  <2>1. pc[g] = "writing" /\ call[g].ph = "search" /\ call' = [call EXCEPT ![g] = r]
    BY <1>12, Zenon DEF WriteSearch, Do
  <2>2. call'[g] = r
    BY <1>5, <2>1, Zenon
  <2>3. CallInv(pat, call[g]) /\ call[g] \in CallType
    BY <1>2, <2>1
  <2>4. Ready(call[g]) /\ call[g].op \in Looping \cup Submatch
    BY <2>1, <2>3, CallFields DEF CallInv
  <2>5. CASE call[g].op \in Looping
    BY <2>1, <2>2, <2>3, <2>4, <2>5, Zenon
  <2>6. CASE call[g].op \notin Looping
    <3>1. r = IF loc = Nil THEN LastSearch(call[g]) ELSE Matched(pat, call[g], loc)
      BY <2>6 DEF SubmatchTurn
    <3>2. loc \in {Find[pat][call[g].s][call[g].pos], FindInSuffix(pat, call[g])}
      OBVIOUS
    <3>3. call[g].op \in Submatch
      BY <2>4, <2>6
    <3> HIDE DEF r, loc
    <3> QED
      BY <2>1, <2>2, <2>3, <2>4, <3>1, <3>2, <3>3, Zenon
  <2> QED
    BY <2>5, <2>6
<1>13. ASSUME WriteRun(g)
       PROVE  Runs
  <2> DEFINE next == IF call[g].at < Len(Span(call[g])) THEN RunByte(pat, tdfa, call[g])
                     ELSE RunEnd(tdfa, call[g])
  <2>1. /\ pc[g] = "writing" /\ call[g].ph = "run"
        /\ call' = [call EXCEPT ![g] = next.r]
    BY <1>13, Zenon DEF WriteRun, Do
  <2>2. call'[g] = next.r
    BY <1>5, <2>1, Zenon
  <2>3. next.r \in {RunByte(pat, tdfa, call[g]).r, RunEnd(tdfa, call[g]).r}
    OBVIOUS
  <2>4. Running(pat, call[g])
    BY <1>2, <2>1 DEF CallInv
  <2> HIDE DEF next
  <2> QED
    BY <2>1, <2>2, <2>3, <2>4, Zenon
<1> HIDE DEF Stays, Begins, Searches, Runs
<1>14. CASE UNCHANGED vars
  BY <1>9, <1>14
<1>15. CASE Next
  <2>1. PICK h \in Caller : Proceed(h) \/ \E q \in Request : Call(h, q)
    BY <1>15, Zenon DEF Next
  <2>2. CASE h # g
    BY <1>6, <2>1, <2>2
  <2>3. CASE h = g
    BY <1>7, <1>8, <1>9, <1>10, <1>11, <1>12, <1>13, <2>1, <2>3, Zenon DEF Proceed, Read, Write
  <2> QED
    BY <2>2, <2>3
<1> QED
  BY <1>14, <1>15

LEMMA OrderlyStep == Inv /\ OrderlyInv /\ [Next]_vars => OrderlyInv'
<1> SUFFICES ASSUME Inv, OrderlyInv, [Next]_vars
             PROVE  OrderlyInv'
  OBVIOUS
<1>0. ASSUME NEW g \in Caller
      PROVE  pat' = pat
  BY CallMoves
<1> SUFFICES ASSUME NEW g \in Caller, Called(g)' \/ pc'[g] # "idle"
             PROVE  Orderly(pat, call'[g])
  BY <1>0 DEF OrderlyInv
<1> DEFINE r == call[g]
<1>1. pat \in Pattern
  BY DEF Inv
<1>2. Called(g) \/ pc[g] # "idle" => Orderly(pat, r)
  BY DEF OrderlyInv
<1>3. CASE call'[g] = call[g] /\ (pc[g] = "idle" => pc'[g] = "idle")
  BY <1>2, <1>3 DEF Called
<1>4. CASE \E q \in Request : \E way : call'[g] = NewCall(q, way)
  BY <1>1, <1>4, NewCallOrderly
<1>5. CASE /\ pc[g] # "idle" /\ Ready(r) /\ r.ph = "search"
           /\ r.op \in Looping /\ call'[g] = Turn(pat, r)
  BY <1>1, <1>2, <1>5, TurnOrderly
<1>6. CASE /\ pc[g] # "idle" /\ Ready(r) /\ r.ph = "search" /\ r.op \in Submatch
           /\ \E loc \in {Find[pat][r.s][r.pos], FindInSuffix(pat, r)} :
                call'[g] = IF loc = Nil THEN LastSearch(r) ELSE Matched(pat, r, loc)
  <2>1. PICK loc \in {Find[pat][r.s][r.pos], FindInSuffix(pat, r)} :
          call'[g] = IF loc = Nil THEN LastSearch(r) ELSE Matched(pat, r, loc)
    BY <1>6
  <2> HIDE DEF r
  <2>2. CASE loc = Nil
    BY <1>1, <1>2, <1>6, <2>1, <2>2, LastSearchOrderly
  <2>3. CASE loc # Nil
    BY <1>1, <1>2, <1>6, <2>1, <2>3, MatchedOrderly
  <2> QED
    BY <2>2, <2>3
<1>7. CASE /\ pc[g] # "idle" /\ Running(pat, r) /\ r.ph = "run"
           /\ \E d : call'[g] \in {RunByte(pat, d, r).r, RunEnd(d, r).r}
  BY <1>1, <1>2, <1>7, RunOrderly
<1> QED
  BY <1>3, <1>4, <1>5, <1>6, <1>7, CallMoves, Zenon

THEOREM OrderlyAlways == Spec => [](Inv /\ OrderlyInv)
<1>1. Init => OrderlyInv
  BY DEF Init, OrderlyInv, Called
<1> QED
  BY <1>1, InvAlways, OrderlyStep, PTL DEF Spec

\* NothingBetween: the loops and the submatch methods leave no match out, between
\* two that they return or after the last one, if a search leaves none out
\* (regexp.go 358-882, concurrent.go 222-720).  Where a search does, in an engine
\* that is full or whose filters lose matches, so may they.
THEOREM NothingLeftOut == Spec => [](FindsFirst(pat) => NothingBetween)
<1>1. Inv /\ OrderlyInv => (FindsFirst(pat) => NothingBetween)
  <2> SUFFICES ASSUME Inv, OrderlyInv, FindsFirst(pat),
                      NEW g \in Caller, Called(g), ~Program[pat].hasAssertions
               PROVE  LET r == call[g]
                          missed(from, to) == \E x \in Spans[pat][r.s] :
                                                x[1] >= from /\ x[1] < to /\ x[2] <= to
                      IN  /\ \A k \in DOMAIN r.found : ~missed(After(r, k - 1), r.found[k][1])
                          /\ Exhausted(r) => ~missed(After(r, Len(r.found)), Len(r.s) + 1)
    BY Zenon DEF NothingBetween
  <2> DEFINE r == call[g]
  <2>1. Gapless(pat, r) /\ AtEnd(pat, r)
    BY DEF OrderlyInv, Orderly, Seeks
  <2>2. DOMAIN r.found = 1..Len(r.found)
    BY CallFields DEF Inv, CallerInv, CallInv, Sane
  <2> HIDE DEF r
  <2>3. /\ \A k \in 1..Len(r.found) : ~Missed(pat, r.s, After(r, k - 1), r.found[k][1])
        /\ Exhausted(r) => ~Missed(pat, r.s, After(r, Len(r.found)), Len(r.s) + 1)
    BY <2>1, Zenon DEF Gapless, AtEnd
  <2> QED
    BY <2>2, <2>3, Zenon DEF r, Missed
<1> QED
  BY <1>1, OrderlyAlways, PTL

----------------------------------------------------------------------------
(* The pieces and the matches are the text.                                *)

LEMMA LeastNumber ==
  ASSUME NEW S \in SUBSET Nat, S # {}
  PROVE  \E x \in S : \A y \in S : x <= y
<1> DEFINE less == {ss \in Nat \X Nat : ss[1] < ss[2]}
<1>1. IsWellFoundedOn(less, Nat)
  BY NatLessThanWellFounded DEF OpToRel
<1> HIDE DEF less
<1>2. PICK x \in S : \A y \in S : ~(<<y, x>> \in less)
  BY <1>1, WFMin
<1>3. \A a, b \in Nat : b < a => <<b, a>> \in less
  BY DEF less
<1>4. \A y \in S : ~(y < x)
  BY <1>2, <1>3
<1> QED
  BY <1>4

LEMMA GreatestNumber ==
  ASSUME NEW n \in Nat, NEW S \in SUBSET (0..n), S # {}
  PROVE  \E x \in S : \A y \in S : y <= x
<1> DEFINE T == {n - y : y \in S}
<1>1. T \in SUBSET Nat /\ T # {}
  <2>1. \A y \in S : n - y \in Nat
    OBVIOUS
  <2> QED
    BY <2>1
<1>2. PICK x \in S : \A z \in T : n - x <= z
  BY <1>1, LeastNumber
<1>3. \A y \in S : n - x <= n - y /\ y \in 0..n
  BY <1>2
<1> QED
  BY <1>3

\* A set of one element, or none, and its size.
LEMMA OneOrNone ==
  ASSUME NEW x
  PROVE  Cardinality({}) = 0 /\ Cardinality({x}) = 1
BY FS_EmptySet, FS_Singleton

\* Where the text goes on after a match: behind it, and still in the text if
\* there is more of it.
LEMMA AfterBounds ==
  ASSUME NEW r \in CallType, InOrder(r), NEW k \in 1..Len(r.found)
  PROVE  /\ r.found[k][1] \in Nat /\ r.found[k][2] \in Nat /\ After(r, k) \in Nat
         /\ r.found[k][1] <= r.found[k][2] /\ r.found[k][2] <= Len(r.s)
         /\ r.found[k][2] <= After(r, k)
         /\ r.found[k][1] < After(r, k)
         /\ r.found[k][1] < r.found[k][2] => After(r, k) = r.found[k][2]
         /\ r.found[k][1] < Len(r.s) => After(r, k) <= Len(r.s)
<1> DEFINE loc == r.found[k]
<1>1. r.s \in Input /\ Len(r.s) \in Nat /\ Len(r.found) \in Nat
  BY CallFields
<1>2. loc \in Location(r.s, 0)
  BY DEF InOrder
<1>3. /\ loc[1] \in Nat /\ loc[2] \in Nat /\ loc[1] <= loc[2] /\ loc[2] <= Len(r.s)
  BY <1>1, <1>2 DEF Location
<1>4. k # 0
  BY <1>1
<1>5. After(r, k) = IF loc[1] = loc[2] THEN AdvancePosAfterEmptyMatch(r.s, loc[1]) ELSE loc[2]
  BY <1>4 DEF After
<1> HIDE DEF loc
<1>6. CASE loc[1] < Len(r.s)
  <2>1. DecodeRune(r.s, loc[1]).size \in {1, 2}
        /\ loc[1] + DecodeRune(r.s, loc[1]).size <= Len(r.s)
    BY <1>1, <1>3, <1>6, RuneSize
  <2>2. AdvancePosAfterEmptyMatch(r.s, loc[1]) \in loc[1] + 1..Len(r.s)
    BY <1>1, <1>3, <1>6, <2>1 DEF AdvancePosAfterEmptyMatch
  <2> QED
    BY <1>1, <1>3, <1>5, <2>2 DEF loc
<1>7. CASE loc[1] = Len(r.s)
  BY <1>1, <1>3, <1>5, <1>7 DEF AdvancePosAfterEmptyMatch, loc
<1> QED
  BY <1>1, <1>3, <1>6, <1>7

\* Each byte lies in the last match that begins at or before it, or in the piece
\* behind that, or in the rune that an empty match is followed by.
LEMMA ByteAccounted ==
  ASSUME NEW r \in CallType, InOrder(r), Before(r), Rest(r), NEW k \in 0..Len(r.s) - 1
  PROVE  LET pieces  == {i \in DOMAIN r.out : Covers(r.out[i], k)}
             matches == {i \in DOMAIN r.found : Covers(r.found[i], k)}
         IN  \/ Cardinality(pieces) + Cardinality(matches) = 1
             \/ /\ pieces \cup matches = {}
                /\ \E i \in DOMAIN r.found :
                     Covers(<<r.found[i][1], After(r, i)>>, k) /\ r.found[i][1] = r.found[i][2]
<1> DEFINE n == Len(r.found)
           From(i) == r.found[i][1]
           To(i) == r.found[i][2]
           On(i) == After(r, i)
           pieces  == {i \in DOMAIN r.out : Covers(r.out[i], k)}
           matches == {i \in DOMAIN r.found : Covers(r.found[i], k)}
           begun == {i \in 0..n : i = 0 \/ From(i) <= k}
<1>1. /\ n \in Nat /\ Len(r.s) \in Nat /\ k \in Nat /\ k < Len(r.s)
      /\ DOMAIN r.found = 1..n /\ DOMAIN r.out = 1..Len(r.out) /\ Len(r.out) \in {n, n + 1}
  BY CallFields DEF Rest
<1>2. \A i \in 1..n : /\ From(i) \in Nat /\ To(i) \in Nat /\ On(i) \in Nat
                      /\ From(i) <= To(i) /\ To(i) <= Len(r.s) /\ To(i) <= On(i) /\ From(i) < On(i)
                      /\ From(i) < To(i) => On(i) = To(i)
  BY AfterBounds
<1>3. On(0) = 0
  BY DEF After
<1>4. \A i, j \in 1..n : i < j => From(i) < From(j) /\ To(i) <= From(j)
  BY DEF InOrder
<1>5. \A i \in 1..n : r.out[i] = <<On(i - 1), From(i)>>
  BY DEF Before
<1>6. \/ Len(r.out) = n /\ On(n) > Len(r.s)
      \/ Len(r.out) = n + 1 /\ r.out[n + 1] = <<On(n), Len(r.s)>>
      \/ Len(r.out) = n + 1 /\ n > 0 /\ r.out[n + 1] = <<To(n), Len(r.s)>>
  BY DEF Rest
<1>7. /\ \A i \in 1..n : i \in matches <=> From(i) <= k /\ k < To(i)
      /\ \A i \in matches : i \in 1..n
  BY <1>1 DEF Covers
<1>8. /\ \A i \in 1..n : i \in pieces <=> On(i - 1) <= k /\ k < From(i)
      /\ \A i \in pieces : i \in 1..n \/ i = n + 1
      /\ n + 1 \in pieces <=>
           \/ Len(r.out) = n + 1 /\ r.out[n + 1] = <<On(n), Len(r.s)>> /\ On(n) <= k
           \/ Len(r.out) = n + 1 /\ n > 0 /\ r.out[n + 1] = <<To(n), Len(r.s)>> /\ To(n) <= k
  <2>1. \A i \in 1..n : i \in DOMAIN r.out
    BY <1>1
  <2>2. \A i \in 1..n : i \in pieces <=> On(i - 1) <= k /\ k < From(i)
    <3> SUFFICES ASSUME NEW i \in 1..n
                 PROVE  i \in pieces <=> On(i - 1) <= k /\ k < From(i)
      OBVIOUS
    <3>1. i \in pieces <=> Covers(<<On(i - 1), From(i)>>, k)
      BY <1>5, <2>1
    <3> HIDE DEF On, From, pieces
    <3> QED
      BY <3>1 DEF Covers
  <2>3. \A i \in pieces : i \in 1..n \/ i = n + 1
    BY <1>1
  <2>4. n + 1 \in pieces <=> Len(r.out) = n + 1 /\ Covers(r.out[n + 1], k)
    BY <1>1
  <2> HIDE DEF On, To, pieces
  <2> QED
    BY <1>1, <1>6, <2>2, <2>3, <2>4 DEF Covers
<1>9. PICK m \in begun : \A i \in begun : i <= m
  <2>1. 0 \in begun /\ begun \in SUBSET (0..n)
    BY <1>1
  <2> HIDE DEF begun
  <2> QED
    BY <1>1, <2>1, GreatestNumber
<1>10. /\ m \in 0..n /\ (m # 0 => m \in 1..n /\ From(m) <= k)
       /\ \A i \in 1..n : i > m => From(i) > k
       /\ m < n => m + 1 \in 1..n
  <2> HIDE DEF From, n
  <2>1. m \in 0..n /\ (m = 0 \/ From(m) <= k)
    BY <1>9
  <2>2. m # 0 => m \in 1..n
    BY <1>1, <2>1
  <2>3. ASSUME NEW i \in 1..n, i > m
        PROVE  From(i) > k
    <3>1. i \in 0..n /\ i \notin begun
      BY <1>1, <1>9, <2>1, <2>3
    <3>2. ~(From(i) <= k)
      BY <3>1
    <3>3. From(i) \in Nat
      BY <1>2
    <3> QED
      BY <1>1, <3>2, <3>3
  <2>4. m < n => m + 1 \in 1..n
    BY <1>1, <2>1
  <2> HIDE DEF begun
  <2> QED
    BY <2>1, <2>2, <2>3, <2>4
<1>11. DOMAIN r.found = 1..n
  BY <1>1
<1> HIDE DEF begun, matches, pieces, From, To, On, n
<1>12. \A i \in matches : i = m
  <2> SUFFICES ASSUME NEW i \in matches, i # m
               PROVE  FALSE
    OBVIOUS
  <2>1. i \in 1..n /\ From(i) <= k /\ k < To(i)
    BY <1>7
  <2>2. i < m
    BY <1>1, <1>2, <1>10, <2>1
  <2>3. To(i) <= From(m) /\ m \in 1..n /\ From(m) <= k
    BY <1>1, <1>4, <1>10, <2>1, <2>2
  <2> QED
    BY <1>1, <1>2, <2>1, <2>3
<1>13. \A i \in pieces : i = m + 1
  <2> SUFFICES ASSUME NEW i \in pieces, i # m + 1
               PROVE  FALSE
    OBVIOUS
  <2>1. CASE i \in 1..n
    <3>1. On(i - 1) <= k /\ k < From(i)
      BY <1>8, <2>1
    <3>2. i > m
      <4>1. CASE m = 0
        BY <1>1, <2>1, <4>1
      <4>2. CASE m # 0 /\ i = m
        BY <1>1, <1>2, <1>10, <3>1, <4>2
      <4>3. CASE m # 0 /\ i < m
        <5>1. From(i) < From(m) /\ From(m) <= k /\ m \in 1..n
          BY <1>4, <1>10, <2>1, <4>3
        <5> QED
          BY <1>1, <1>2, <2>1, <3>1, <5>1
      <4> QED
        BY <1>1, <1>10, <2>1, <4>1, <4>2, <4>3
    <3>3. i - 1 \in 1..n /\ i - 1 > m
      BY <1>1, <1>10, <2>1, <3>2
    <3> QED
      BY <1>1, <1>2, <1>10, <3>1, <3>3
  <2>2. CASE i = n + 1
    <3>1. m < n /\ n \in 1..n
      BY <1>1, <1>10, <2>2
    <3>2. From(n) > k
      BY <1>10, <3>1
    <3> QED
      BY <1>1, <1>2, <1>8, <2>2, <3>1, <3>2
  <2> QED
    BY <1>8, <2>1, <2>2
<1>14. CASE m \in matches
  <2>1. m \in 1..n /\ k < To(m)
    BY <1>7, <1>14
  <2>2. m + 1 \notin pieces
    <3>1. CASE m + 1 \in 1..n
      <4>1. (m + 1) - 1 = m
        BY <1>1, <2>1
      <4> QED
        BY <1>1, <1>2, <1>8, <2>1, <3>1, <4>1
    <3>2. CASE m = n
      BY <1>1, <1>2, <1>8, <2>1, <3>2
    <3> QED
      BY <1>1, <1>10, <3>1, <3>2
  <2>3. matches = {m} /\ pieces = {}
    BY <1>12, <1>13, <1>14, <2>2
  <2>4. Cardinality(pieces) = 0 /\ Cardinality(matches) = 1
    BY <2>3, OneOrNone
  <2> QED
    BY <2>4 DEF pieces, matches
<1>15. CASE m \notin matches /\ m + 1 \in pieces
  <2>1. matches = {} /\ pieces = {m + 1}
    BY <1>12, <1>13, <1>15
  <2>2. Cardinality(pieces) = 1 /\ Cardinality(matches) = 0
    BY <2>1, OneOrNone
  <2> QED
    BY <2>2 DEF pieces, matches
<1>16. CASE m \notin matches /\ m + 1 \notin pieces
  <2>1. matches = {} /\ pieces = {}
    BY <1>12, <1>13, <1>16
  <2>2. On(m) > k
    <3>1. On(m) \in Nat
      BY <1>2, <1>3, <1>10
    <3>2. CASE m < n
      <4>1. m + 1 \in 1..n /\ (m + 1) - 1 = m /\ From(m + 1) > k
        BY <1>1, <1>10, <3>2
      <4>2. ~(On((m + 1) - 1) <= k /\ k < From(m + 1))
        BY <1>8, <1>16, <4>1
      <4> QED
        BY <1>1, <1>2, <3>1, <4>1, <4>2
    <3>3. CASE m = n
      <4>1. CASE On(n) > Len(r.s)
        BY <1>1, <3>1, <3>3, <4>1
      <4>2. CASE Len(r.out) = n + 1 /\ r.out[n + 1] = <<On(n), Len(r.s)>>
        BY <1>1, <1>8, <1>16, <3>1, <3>3, <4>2
      <4>3. CASE Len(r.out) = n + 1 /\ n > 0 /\ r.out[n + 1] = <<To(n), Len(r.s)>>
        <5>1. n \in 1..n /\ To(n) \in Nat
          BY <1>1, <1>2, <4>3
        <5>2. To(n) > k
          BY <1>1, <1>8, <1>16, <3>3, <4>3, <5>1
        <5> QED
          BY <1>1, <1>2, <3>1, <3>3, <5>1, <5>2
      <4> QED
        BY <1>6, <4>1, <4>2, <4>3
    <3> QED
      BY <1>1, <1>10, <3>2, <3>3
  <2>3. m \in 1..n /\ From(m) <= k
    BY <1>1, <1>3, <1>10, <2>2
  <2>4. To(m) <= k
    BY <1>1, <1>2, <1>7, <1>16, <2>3
  <2>5. From(m) = To(m)
    <3>1. /\ From(m) \in Nat /\ To(m) \in Nat /\ On(m) \in Nat /\ From(m) <= To(m)
          /\ From(m) < To(m) => On(m) = To(m)
      BY <1>2, <2>3
    <3> QED
      BY <1>1, <2>2, <2>4, <3>1
  <2>6. Covers(<<From(m), On(m)>>, k)
    BY <2>2, <2>3 DEF Covers
  <2>7. \E i \in DOMAIN r.found :
          Covers(<<r.found[i][1], After(r, i)>>, k) /\ r.found[i][1] = r.found[i][2]
    BY <1>11, <2>3, <2>5, <2>6 DEF From, To, On
  <2> QED
    BY <2>1, <2>7 DEF pieces, matches
<1> QED
  BY <1>14, <1>15, <1>16

\* TextAccounted: the pieces that Split and ReplaceAll return and the matches
\* between them hold each byte of the text once, but for the rune behind an empty
\* match (regexp.go 755-882, concurrent.go 409-597).
THEOREM TextAlwaysAccounted == Spec => []TextAccounted
<1>1. Inv /\ OrderlyInv => TextAccounted
  <2> SUFFICES ASSUME Inv, OrderlyInv, NEW g \in Caller,
                      Called(g) /\ call[g].ph = "done" /\ call[g].op \in Looping \ {"FindAll"}
                        /\ (call[g].op = "Split" => call[g].n # 0),
                      NEW k \in 0..Len(call[g].s) - 1
               PROVE  LET r == call[g]
                          pieces  == {i \in DOMAIN r.out : Covers(r.out[i], k)}
                          matches == {i \in DOMAIN r.found : Covers(r.found[i], k)}
                      IN  \/ Cardinality(pieces) + Cardinality(matches) = 1
                          \/ /\ pieces \cup matches = {}
                             /\ \E i \in DOMAIN r.found :
                                  /\ Covers(<<r.found[i][1], After(r, i)>>, k)
                                  /\ r.found[i][1] = r.found[i][2]
    BY Zenon DEF TextAccounted
  <2>1. call[g] \in CallType /\ InOrder(call[g])
    BY DEF Inv, CallerInv, CallInv, Sane
  <2>2. Before(call[g]) /\ Rest(call[g])
    BY DEF OrderlyInv, Orderly, Pieces, Pieced
  <2> QED
    BY <2>1, <2>2, ByteAccounted, Zenon
<1> QED
  BY <1>1, OrderlyAlways, PTL

----------------------------------------------------------------------------
(* The reading of a span exists, and the run of the tagged automaton       *)
(* follows it.                                                             *)

Unread(p) == [tree |-> Program[p].root, slots |-> NoSlots(Program[p].captures)]

\* f is a reading of the first n bytes.
Reads(p, span, n, f) ==
  f = [at \in 0..n |-> IF at = 0 THEN Unread(p) ELSE ReadOn(p, span, f[at - 1], at - 1)]

Readable(p, span, n) == \E f : Reads(p, span, n, f)

LEMMA ReadingExists ==
  ASSUME NEW p, NEW span, NEW N \in Nat
  PROVE  Readable(p, span, N)
<1> DEFINE Bad == {n \in Nat : ~Readable(p, span, n)}
<1> SUFFICES ASSUME N \in Bad
             PROVE  FALSE
  OBVIOUS
<1>1. PICK n \in Bad : \A m \in Bad : n <= m
  BY SmallestExists
<1>2. n # 0
  <2>1. Reads(p, span, 0, [at \in 0..0 |-> Unread(p)])
    BY DEF Reads
  <2>2. Readable(p, span, 0)
    BY <2>1 DEF Readable
  <2> QED
    BY <1>1, <2>2
<1>3. n \in Nat /\ n - 1 \in Nat /\ n - 1 \notin Bad
  BY <1>1, <1>2
<1>4. PICK g : Reads(p, span, n - 1, g)
  BY <1>3 DEF Readable
<1> DEFINE h == [at \in 0..n |-> IF at = n THEN ReadOn(p, span, g[n - 1], n - 1) ELSE g[at]]
<1>5. ASSUME NEW at \in 0..n
      PROVE  h[at] = IF at = 0 THEN Unread(p) ELSE ReadOn(p, span, h[at - 1], at - 1)
  <2>1. CASE at = n
    <3>1. n - 1 \in 0..n /\ n - 1 # n
      BY <1>3
    <3>2. h[n - 1] = g[n - 1]
      BY <3>1
    <3> QED
      BY <1>2, <2>1, <3>2
  <2>2. CASE at # n
    <3>1. at \in 0..n - 1
      BY <1>3, <2>2
    <3>2. g[at] = IF at = 0 THEN Unread(p) ELSE ReadOn(p, span, g[at - 1], at - 1)
      BY <1>4, <3>1 DEF Reads
    <3>3. at # 0 => at - 1 \in 0..n /\ at - 1 # n
      BY <1>3, <2>2
    <3>4. at # 0 => h[at - 1] = g[at - 1]
      BY <3>3
    <3> QED
      BY <2>2, <3>2, <3>4
  <2> QED
    BY <2>1, <2>2
<1>6. h = [at \in 0..n |-> h[at]]
  OBVIOUS
<1>7. Reads(p, span, n, h)
  <2> HIDE DEF h
  <2> QED
    BY <1>5, <1>6 DEF Reads
<1> HIDE DEF h
<1>8. Readable(p, span, n)
  BY <1>7 DEF Readable
<1> QED
  BY <1>1, <1>8

\* A span unread, and one more byte of it read.
LEMMA ReadingSteps ==
  ASSUME NEW p, NEW span, Len(span) \in Nat
  PROVE  /\ Reading(p, span)[0] = Unread(p)
         /\ \A at \in 0..Len(span) - 1 :
              Reading(p, span)[at + 1] = ReadOn(p, span, Reading(p, span)[at], at)
<1> DEFINE N == Len(span)
           f == Reading(p, span)
<1>1. f = CHOOSE g : Reads(p, span, N, g)
  BY Zenon DEF Reading, Unread, Reads
<1>2. \E g : Reads(p, span, N, g)
  BY ReadingExists DEF Readable
<1> HIDE DEF f
<1>3. Reads(p, span, N, f)
  BY <1>1, <1>2, Zenon
<1>4. \A at \in 0..N : f[at] = IF at = 0 THEN Unread(p)
                               ELSE ReadOn(p, span, f[at - 1], at - 1)
  BY <1>3 DEF Reads
<1>5. ASSUME NEW at \in 0..N - 1
      PROVE  f[at + 1] = ReadOn(p, span, f[at], at)
  <2>1. at + 1 \in 0..N /\ at + 1 # 0 /\ (at + 1) - 1 = at
    OBVIOUS
  <2>2. f[at + 1] = ReadOn(p, span, f[(at + 1) - 1], (at + 1) - 1)
    BY <1>4, <2>1
  <2> QED
    BY <2>1, <2>2
<1>6. f[0] = Unread(p)
  BY <1>4
<1> QED
  BY <1>5, <1>6 DEF f

----------------------------------------------------------------------------
(* The matches: a call finds those of its answer, one by one.              *)

Sought(p, q) == Answer[p][q][1]

\* Call r was made for request q.
For(q, r) == r.s = q.s /\ r.op = q.op /\ r.n \in {q.n, Count(q, "engine")}

\* The matches found so far are the first of those sought.
LeadsTo(p, q, r) ==
  /\ Len(r.found) <= Len(Sought(p, q))
  /\ \A k \in 1..Len(r.found) : r.found[k] = Sought(p, q)[k]

\* There are not enough of them yet.
Short(q, r) == Wanted(q) >= 0 => Len(r.found) < Wanted(q)

\* An expression whose answers are as they are meant to be.
Means(p) == Seeks(p) /\ AnswersAsMeant(p)

\* At most one location is the earliest.
LEMMA EarliestUnique ==
  ASSUME NEW s \in Input, NEW pos \in Nat, NEW spans \in SUBSET Location(s, pos),
         NEW a, Earliest(spans, a), NEW b, Earliest(spans, b)
  PROVE  a = b
<1>1. Len(s) \in Nat
  BY InputTexts
<1>2. \A x \in spans : x = <<x[1], x[2]>> /\ x[1] \in Nat /\ x[2] \in Nat /\ x # Nil
  BY <1>1 DEF Location, Nil
<1>3. CASE a = Nil
  BY <1>3 DEF Earliest
<1>4. CASE b = Nil
  BY <1>4 DEF Earliest
<1>5. CASE a # Nil /\ b # Nil
  <2>1. a \in spans /\ b \in spans
    BY <1>5 DEF Earliest
  <2>2. PICK y \in spans : y[1] = a[1] /\ \A x \in spans : y[2] <= x[2] /\ (x[2] = y[2] => y[1] <= x[1])
    BY <1>5 DEF Earliest
  <2>3. PICK z \in spans : z[1] = b[1] /\ \A x \in spans : z[2] <= x[2] /\ (x[2] = z[2] => z[1] <= x[1])
    BY <1>5 DEF Earliest
  <2>4. y[2] <= z[2] /\ z[2] <= y[2] /\ y[2] \in Nat /\ z[2] \in Nat /\ y[1] \in Nat /\ z[1] \in Nat
    BY <1>2, <2>2, <2>3
  <2>5. y[2] = z[2]
    BY <2>4
  <2>6. y[1] <= z[1] /\ z[1] <= y[1]
    BY <2>2, <2>3, <2>5
  <2>7. a[1] = b[1]
    BY <2>2, <2>3, <2>4, <2>6
  <2>8. a[2] <= b[2] /\ b[2] <= a[2]
    BY <1>5, <2>1, <2>7 DEF Earliest
  <2>9. a[2] = b[2]
    BY <1>2, <2>1, <2>8
  <2> QED
    BY <1>2, <2>1, <2>7, <2>9
<1> QED
  BY <1>3, <1>4, <1>5

\* The answer of an expression without assertions.
LEMMA AnswerIs ==
  ASSUME NEW p \in Pattern, NEW q \in Request, Means(p)
  PROVE  /\ q.s \in Input /\ Len(q.s) \in Nat /\ q.n \in Int /\ q.op \in Looping \cup Submatch
         /\ Wanted(q) \in Int
         /\ Successors(p, q, Sought(p, q))
         /\ Sought(p, q) \in Seq(Location(q.s, 0)) /\ Len(Sought(p, q)) \in Nat
         /\ Answer[p][q] = <<Sought(p, q), ResultMeant(p, q, Sought(p, q))>>
<1>1. q.s \in Input /\ Len(q.s) \in Nat /\ q.n \in Int /\ q.op \in Looping \cup Submatch
  BY IterationAssumption, InputTexts
<1>2. Wanted(q) \in Int
  BY <1>1 DEF Wanted
<1>3. /\ Successors(p, q, Sought(p, q))
      /\ Answer[p][q] = <<Sought(p, q), ResultMeant(p, q, Sought(p, q))>>
  BY Zenon DEF Means, Seeks, AnswersAsMeant, Sought
<1>4. Sought(p, q) \in Seq(Location(q.s, 0))
  BY <1>3 DEF Successors
<1> QED
  BY <1>1, <1>2, <1>3, <1>4

\* A search finds the match sought next, or none where there is none.
LEMMA NextIsMeant ==
  ASSUME NEW p \in Pattern, NEW q \in Request, Means(p), NEW r, For(q, r),
         Ready(r), r.ph = "search", Placed(r), LeadsTo(p, q, r), Short(q, r),
         NEW loc \in {Find[p][r.s][r.pos], FindInSuffix(p, r)}
  PROVE  /\ loc = Nil => Len(r.found) = Len(Sought(p, q))
         /\ loc # Nil => /\ Len(r.found) < Len(Sought(p, q))
                         /\ Sought(p, q)[Len(r.found) + 1] = loc
<1> DEFINE n == Len(r.found)
           a == Sought(p, q)
           m == [s |-> q.s, found |-> a]
<1>1. r \in CallType /\ r.s \in Input /\ Len(r.s) \in Nat /\ r.pos \in Nat /\ n \in Nat
  BY CallFields DEF Ready, Sane
<1>2. /\ Wanted(q) \in Int /\ a \in Seq(Location(r.s, 0)) /\ Len(a) \in Nat
      /\ Successors(p, q, a)
  BY AnswerIs DEF For
<1>3. Earliest(SpansFrom(p, r.s, r.pos), loc)
      /\ SpansFrom(p, r.s, r.pos) \in SUBSET Location(r.s, r.pos)
  BY FoundIsEarliest DEF Means
<1>4. n <= Len(a) /\ \A k \in 1..n : r.found[k] = a[k]
  BY DEF LeadsTo
<1>5. After(m, n) = r.pos
  <2>1. n # 0 => n \in 1..n
    BY <1>1
  <2>2. m.s = r.s /\ (n # 0 => m.found[n] = r.found[n])
    BY <1>4, <2>1 DEF For
  <2> HIDE DEF m
  <2>3. After(m, n) = After(r, n)
    BY <2>2, AfterSame
  <2> QED
    BY <2>3 DEF Placed
<1>6. Ahead(p, m, n) = SpansFrom(p, r.s, r.pos)
  BY <1>5 DEF Ahead, SpansFrom, For
<1>7. CASE n = Len(a)
  <2>1. Len(a) # Wanted(q)
    BY <1>1, <1>2, <1>7 DEF Short
  <2>2. SpansFrom(p, r.s, r.pos) = {}
    BY <1>2, <1>6, <1>7, <2>1 DEF Successors
  <2> QED
    BY <1>3, <1>7, <2>2 DEF Earliest
<1>8. CASE n < Len(a)
  <2>1. n + 1 \in DOMAIN a /\ (n + 1) - 1 = n
    BY <1>1, <1>2, <1>8
  <2>2. Earliest(Ahead(p, m, (n + 1) - 1), a[n + 1])
    BY <1>2, <2>1 DEF Successors
  <2>3. Earliest(SpansFrom(p, r.s, r.pos), a[n + 1])
    BY <1>6, <2>1, <2>2
  <2>4. a[n + 1] = loc
    BY <1>1, <1>3, <2>3, EarliestUnique
  <2>5. a[n + 1] # Nil
    BY <1>2, <2>1 DEF Location, Nil
  <2> QED
    BY <1>8, <2>4, <2>5
<1> QED
  BY <1>1, <1>2, <1>4, <1>7, <1>8

\* Counts: one below 0 stands for all, or for one match more than there can be.
LEMMA CountIs ==
  ASSUME NEW q \in Request, NEW r, For(q, r)
  PROVE  /\ r.n \in Int
         /\ q.n >= 0 => r.n = q.n
         /\ r.op \notin {"FindAll", "FindAllSubmatch"} => r.n = q.n
         /\ r.n >= 0 => r.n = q.n \/ r.n = Len(r.s) + 1
<1>1. q.s \in Input /\ Len(q.s) \in Nat /\ q.n \in Int
  BY IterationAssumption, InputTexts
<1> QED
  BY <1>1 DEF For, Count

\* After a match that is not the last one sought the call goes on; after the last
\* one it is done, or finds no more.
LEMMA OnwardMeant ==
  ASSUME NEW p \in Pattern, NEW q \in Request, Means(p), NEW r, NEW loc, Hits(r, loc),
         For(q, r), LeadsTo(p, q, r), r.op # "FindSubmatch", Wanted(q) # 0,
         r.op = "Split" => ~(r.n > 0 /\ Len(r.found) >= r.n - 1)
  PROVE  LET o == Onward(r, loc)
         IN  /\ o.s = r.s /\ o.op = r.op /\ o.n = r.n /\ o.found = r.found /\ o.out = r.out
             /\ o.ph \in {"search", "done"}
             /\ o.ph = "search" => Short(q, r)
             /\ o.ph = "done" => /\ Len(r.found) = Len(Sought(p, q))
                                 /\ After(r, Len(r.found)) > Len(r.s) \/ Enough(r)
<1> DEFINE n == Len(r.found)
           a == Sought(p, q)
           m == [s |-> q.s, found |-> a]
           pos == Resume(r, loc)
           moved == [r EXCEPT !.pos = pos]
           ph == IF moved.pos <= Len(moved.s) /\ ~Enough(moved) THEN "search" ELSE "done"
           o == [moved EXCEPT !.ph = ph]
<1>1. /\ r \in CallType /\ r.s \in Input /\ Len(r.s) \in Nat /\ n \in Nat /\ n > 0
      /\ r.op \in Looping \cup Submatch
  BY CallFields DEF Hits, Sane
<1>2. /\ Wanted(q) \in Int /\ a \in Seq(Location(r.s, 0)) /\ Len(a) \in Nat
      /\ Successors(p, q, a) /\ q.n \in Int
  BY AnswerIs DEF For
<1>3. pos = After(r, n) /\ pos \in Nat
  BY ResumeIsAfter, ResumeBehindMatch
<1>4. Onward(r, loc) = o
  BY DEF Onward, TopOfLoop
<1> HIDE DEF pos
<1>5. /\ moved \in CallType
      /\ moved.pos = pos
      /\ moved.s = r.s /\ moved.op = r.op /\ moved.n = r.n
      /\ moved.found = r.found /\ moved.out = r.out
  BY <1>1, <1>3, SetPos
<1> HIDE DEF moved
<1>6. Enough(moved) = Enough(r)
  BY <1>5, Zenon DEF Enough
<1>7. ph \in {"search", "done"} /\ (ph = "search" <=> pos <= Len(r.s) /\ ~Enough(r))
  BY <1>5, <1>6
<1> HIDE DEF ph
<1>8. /\ o.ph = ph
      /\ o.s = r.s /\ o.op = r.op /\ o.n = r.n /\ o.found = r.found /\ o.out = r.out
  BY <1>5, <1>7 DEF CallType
<1> HIDE DEF o
<1>9. n <= Len(a) /\ \A k \in 1..n : r.found[k] = a[k]
  BY DEF LeadsTo
<1>10. After(m, n) = pos
  <2>1. n \in 1..n
    BY <1>1
  <2>2. m.s = r.s /\ m.found[n] = r.found[n]
    BY <1>9, <2>1 DEF For
  <2> HIDE DEF m
  <2>3. After(m, n) = After(r, n)
    BY <2>2, AfterSame
  <2> QED
    BY <1>3, <2>3
<1>11. pos > Len(r.s) => n = Len(a)
  <2> SUFFICES ASSUME pos > Len(r.s), n < Len(a)
               PROVE  FALSE
    BY <1>1, <1>2, <1>9
  <2>1. n + 1 \in DOMAIN a /\ (n + 1) - 1 = n
    BY <1>1, <1>2
  <2>2. Earliest(Ahead(p, m, n), a[n + 1]) /\ a[n + 1] \in Location(r.s, 0)
    BY <1>2, <2>1 DEF Successors
  <2>3. a[n + 1] # Nil
    BY <2>2 DEF Location, Nil
  <2>4. a[n + 1] \in Ahead(p, m, n)
    BY <2>2, <2>3 DEF Earliest
  <2>5. a[n + 1][1] >= pos
    BY <1>10, <2>4 DEF Ahead
  <2> QED
    BY <1>1, <1>3, <2>2, <2>5 DEF Location
<1>12. /\ r.n \in Int
       /\ q.n >= 0 => r.n = q.n
       /\ r.op \notin {"FindAll", "FindAllSubmatch"} => r.n = q.n
       /\ r.n >= 0 => r.n = q.n \/ r.n = Len(r.s) + 1
  BY CountIs
<1>13. Enough(r) => n = Len(a)
  <2> SUFFICES ASSUME Enough(r)
               PROVE  n = Len(a)
    OBVIOUS
  <2>1. r.op \in {"FindAll", "FindAllSubmatch"} /\ r.n >= 0 /\ n >= r.n
    BY DEF Enough
  <2>2. CASE r.n = q.n
    <3>1. Wanted(q) = q.n
      BY <2>1 DEF Wanted, For
    <3>2. Len(a) <= q.n
      BY <1>2, <2>1, <2>2, <3>1 DEF Successors
    <3> QED
      BY <1>1, <1>2, <1>9, <2>1, <2>2, <3>2
  <2>3. CASE r.n = Len(r.s) + 1
    <3>1. n \in 1..n /\ InOrder(r)
      BY <1>1 DEF Hits, Sane
    <3>2. r.found[n] \in Location(r.s, 0) /\ r.found[n][1] >= n - 1
      BY <3>1 DEF InOrder
    <3>3. r.found[n][1] <= r.found[n][2] /\ r.found[n][2] <= Len(r.s)
          /\ r.found[n][1] \in Nat /\ r.found[n][2] \in Nat
      BY <1>1, <3>2 DEF Location
    <3>4. pos > loc[1] /\ loc = r.found[n]
      BY ResumeBehindMatch DEF Hits, LastFound, pos
    <3> QED
      BY <1>1, <1>3, <1>11, <2>1, <2>3, <3>2, <3>3, <3>4
  <2> QED
    BY <1>12, <2>1, <2>2, <2>3
<1>14. ph = "search" => Short(q, r)
  <2> SUFFICES ASSUME ph = "search", Wanted(q) >= 0
               PROVE  n < Wanted(q)
    BY DEF Short
  <2>1. ~Enough(r)
    BY <1>7
  <2>2. CASE r.op \in {"FindAll", "FindAllSubmatch"}
    <3>1. Wanted(q) = q.n
      BY <2>2 DEF Wanted, For
    <3> QED
      BY <1>1, <1>2, <1>12, <2>1, <2>2, <3>1 DEF Enough
  <2>3. CASE r.op = "Split"
    <3>1. r.n = q.n
      BY <1>12, <2>3
    <3>2. q.n > 0 /\ Wanted(q) = q.n - 1
      BY <1>2, <2>3 DEF Wanted, For
    <3> QED
      BY <1>1, <1>2, <2>3, <3>1, <3>2
  <2>4. CASE r.op \in {"ReplaceAll", "ReplaceAllString"}
    BY <2>4 DEF Wanted, For
  <2> QED
    BY <1>1, <2>2, <2>3, <2>4 DEF Looping, Submatch
<1>15. ph = "done" => n = Len(a) /\ (After(r, n) > Len(r.s) \/ Enough(r))
  BY <1>1, <1>3, <1>7, <1>11, <1>13
<1> QED
  BY <1>4, <1>7, <1>8, <1>14, <1>15

----------------------------------------------------------------------------
(* The results: the pieces and rows that belong to the matches.            *)

\* Has the call the answer of q, or one that a full automaton may give?
Answered(p, q, full, r) ==
  <<r.found, r.out>> \in {Answer[p][q]} \cup (IF full THEN PoorerThan(Answer[p][q], q) ELSE {})

\* The rows so far; groups go missing only if the automaton is full.
RowsMeant(p, full, r) ==
  r.op = "FindAllSubmatch" =>
    \A k \in 1..Len(r.out) :
      \/ r.out[k] = RowOfAll(p, r.s, r.found[k])
      \/ full /\ r.out[k] = Whole(r.found[k])

\* Call r is on its way to the answer of q.
Toward(p, q, full, r) ==
  /\ For(q, r)
  /\ LeadsTo(p, q, r)
  /\ r.ph = "search" => Short(q, r)
  /\ r.op = "FindAll" => r.out = <<>>
  /\ RowsMeant(p, full, r)
  /\ r.ph = "done" => Answered(p, q, full, r)

LEMMA FoundAll ==
  ASSUME NEW p \in Pattern, NEW q \in Request, Means(p), NEW r \in CallType,
         LeadsTo(p, q, r), Len(r.found) = Len(Sought(p, q))
  PROVE  r.found = Sought(p, q)
<1>1. r.found \in Seq(Pair) /\ Sought(p, q) \in Seq(Location(q.s, 0))
  BY CallFields, AnswerIs
<1>2. \A k \in 1..Len(r.found) : r.found[k] = Sought(p, q)[k]
  BY DEF LeadsTo
<1> QED
  BY <1>1, <1>2

\* The pieces of a call that is done are those meant.
LEMMA PiecesAre ==
  ASSUME NEW q, NEW r \in CallType, r.s = q.s, r.op = q.op, r.op \in Pieced,
         ~(q.op = "Split" /\ q.n = 0), Before(r),
         NEW left,
         left = IF q.op = "Split" /\ Len(r.found) > 0 /\ Len(r.found) = q.n - 1
                THEN r.found[Len(r.found)][2] ELSE After(r, Len(r.found)),
         \/ /\ left <= Len(r.s) /\ Len(r.out) = Len(r.found) + 1
            /\ r.out[Len(r.found) + 1] = <<left, Len(r.s)>>
         \/ ~(left <= Len(r.s)) /\ Len(r.out) = Len(r.found)
  PROVE  r.out = PiecesMeant(q, r.found)
<1> DEFINE n == Len(r.found)
           m == [s |-> q.s, found |-> r.found]
           N == IF left <= Len(r.s) THEN n + 1 ELSE n
           meant == [k \in 1..N |-> IF k <= n THEN <<After(m, k - 1), r.found[k][1]>>
                                    ELSE <<left, Len(r.s)>>]
<1>1. r.out \in Seq(Pair \cup Row) /\ n \in Nat /\ Len(r.out) = N
  BY CallFields
<1>2. \A k : After(m, k) = After(r, k)
  <2>1. m.s = r.s /\ m.found = r.found
    OBVIOUS
  <2> HIDE DEF m
  <2> QED
    BY <2>1, Zenon DEF After
<1>3. PiecesMeant(q, r.found) = meant
  <2>1. After(m, n) = After(r, n) /\ q.op # "FindAll"
    BY <1>2 DEF Pieced
  <2>2. left = IF q.op = "Split" /\ n > 0 /\ n = q.n - 1 THEN r.found[n][2] ELSE After(m, n)
    BY <2>1
  <2> QED
    BY <2>1, <2>2, Zenon DEF PiecesMeant
<1>4. ASSUME NEW k \in 1..N
      PROVE  r.out[k] = IF k <= n THEN <<After(m, k - 1), r.found[k][1]>>
                        ELSE <<left, Len(r.s)>>
  <2>1. CASE k <= n
    <3>1. k \in 1..n
      BY <1>1, <2>1
    <3> QED
      BY <1>2, <2>1, <3>1 DEF Before
  <2>2. CASE ~(k <= n)
    <3>1. k = n + 1 /\ left <= Len(r.s)
      BY <1>1, <2>2
    <3> QED
      BY <2>2, <3>1
  <2> QED
    BY <2>1, <2>2
<1> HIDE DEF m
<1>5. r.out = [k \in 1..N |-> r.out[k]]
  BY <1>1
<1>6. r.out = meant
  BY <1>4, <1>5
<1> QED
  BY <1>3, <1>6

\* The rows of a call that is done are those meant, or those of a full automaton.
LEMMA RowsAre ==
  ASSUME NEW p \in Pattern, NEW q \in Request, Means(p), NEW r \in CallType, For(q, r),
         r.op = "FindAllSubmatch", NEW full \in BOOLEAN, RowsMeant(p, full, r),
         r.found = Sought(p, q), Len(r.out) = Len(r.found)
  PROVE  Answered(p, q, full, r)
<1> DEFINE n == Len(r.found)
           rows == [k \in DOMAIN r.found |-> RowOfAll(p, q.s, r.found[k])]
           lost == {k \in DOMAIN rows : r.out[k] # rows[k]}
           poorer == [k \in DOMAIN rows |-> IF k \in lost THEN Whole(r.found[k]) ELSE rows[k]]
<1>1. r.out \in Seq(Pair \cup Row) /\ n \in Nat /\ r.found \in Seq(Pair)
  BY CallFields
<1>2. DOMAIN r.found = 1..n /\ DOMAIN rows = 1..n /\ r.out = [k \in 1..n |-> r.out[k]]
  BY <1>1
<1>3. q.op = "FindAllSubmatch" /\ q.s = r.s
  BY DEF For
<1>4. Answer[p][q] = <<r.found, rows>>
  <2>1. Answer[p][q] = <<r.found, ResultMeant(p, q, r.found)>>
    BY AnswerIs
  <2>2. ResultMeant(p, q, r.found) = rows
    BY <1>3 DEF ResultMeant, Looping
  <2> QED
    BY <2>1, <2>2
<1>5. \A k \in 1..n : r.out[k] = rows[k] \/ (full /\ r.out[k] = Whole(r.found[k]))
  BY <1>2, <1>3 DEF RowsMeant
<1> DEFINE a == <<r.found, rows>>
<1>6. a[1] = r.found /\ a[2] = rows
  OBVIOUS
<1>7. \A gone \in SUBSET DOMAIN a[2] : <<a[1], RowsWithout(a, gone)>> \in PoorerThan(a, q)
  <2>1. q.op # "FindSubmatch" /\ q.op \notin Looping
    BY <1>3 DEF Looping
  <2> HIDE DEF a
  <2>2. PoorerThan(a, q) = {<<a[1], RowsWithout(a, gone)>> : gone \in SUBSET DOMAIN a[2]}
    BY <1>3, <2>1, Zenon DEF PoorerThan
  <2> QED
    BY <2>2
<1> HIDE DEF rows
<1>8. r.out = poorer /\ (~full => r.out = rows)
  <2>1. \A k \in 1..n : r.out[k] = IF k \in lost THEN Whole(r.found[k]) ELSE rows[k]
    BY <1>2, <1>5
  <2>2. ~full => \A k \in 1..n : r.out[k] = rows[k]
    BY <1>5
  <2>3. rows = [k \in 1..n |-> rows[k]]
    BY <1>2 DEF rows
  <2>4. poorer = [k \in 1..n |-> r.out[k]]
    BY <1>2, <2>1
  <2>5. ~full => r.out = rows
    BY <1>2, <2>2, <2>3
  <2> QED
    BY <1>2, <2>4, <2>5
<1>9. lost \in SUBSET DOMAIN rows
  OBVIOUS
<1>10. <<r.found, poorer>> \in PoorerThan(a, q)
  <2>1. RowsWithout(a, lost) = poorer
    BY <1>6, Zenon DEF RowsWithout
  <2> HIDE DEF lost, a, poorer
  <2> QED
    BY <1>6, <1>7, <1>9, <2>1
<1> HIDE DEF poorer, lost
<1>11. CASE full
  BY <1>4, <1>8, <1>10, <1>11 DEF Answered
<1>12. CASE ~full
  BY <1>4, <1>8, <1>12 DEF Answered
<1> QED
  BY <1>11, <1>12

\* Calls that agree in their text, matches and so on are as far on their way.
LEMMA SameWay ==
  ASSUME NEW p, NEW q, NEW full, NEW r, NEW o,
         o.s = r.s, o.op = r.op, o.n = r.n, o.found = r.found
  PROVE  /\ For(q, r) => For(q, o)
         /\ LeadsTo(p, q, r) => LeadsTo(p, q, o)
         /\ Short(q, r) => Short(q, o)
         /\ o.out = r.out /\ RowsMeant(p, full, r) => RowsMeant(p, full, o)
BY Zenon DEF For, LeadsTo, Short, RowsMeant

\* A loop that is done with its pieces has the answer.
LEMMA PiecesAnswer ==
  ASSUME NEW p \in Pattern, NEW q \in Request, Means(p), NEW r \in CallType, For(q, r),
         NEW full, r.op \in Looping, r.found = Sought(p, q),
         r.out = PiecesMeant(q, r.found)
  PROVE  Answered(p, q, full, r)
<1>1. Answer[p][q] = <<r.found, ResultMeant(p, q, r.found)>>
  BY AnswerIs
<1>2. q.op \in Looping /\ q.op \notin {"FindSubmatch", "FindAllSubmatch"}
  BY DEF For, Looping
<1>3. ResultMeant(p, q, r.found) = r.out
  BY <1>2 DEF ResultMeant
<1> QED
  BY <1>1, <1>3 DEF Answered

\* No further match.
LEMMA LastSearchMeant ==
  ASSUME NEW p \in Pattern, NEW q \in Request, Means(p), NEW full \in BOOLEAN,
         NEW r, Ready(r), r.ph = "search", Orderly(p, r), Toward(p, q, full, r),
         Nil \in {Find[p][r.s][r.pos], FindInSuffix(p, r)}
  PROVE  Toward(p, q, full, LastSearch(r))
<1> DEFINE n == Len(r.found)
           piece == <<r.pos, Len(r.s)>>
           out == IF r.op \in Pieced THEN Append(r.out, piece) ELSE r.out
           o == [r EXCEPT !.ph = "done", !.out = out]
<1>1. /\ r \in CallType /\ r.out \in Seq(Pair \cup Row) /\ r.found \in Seq(Pair)
      /\ Len(r.out) \in Nat /\ n \in Nat /\ r.pos \in Nat /\ Len(r.s) \in Nat
      /\ r.pos <= Len(r.s) /\ r.op \in Looping \cup Submatch
  BY CallFields DEF Ready, Sane
<1>2. For(q, r) /\ LeadsTo(p, q, r) /\ Short(q, r) /\ RowsMeant(p, full, r)
      /\ (r.op = "FindAll" => r.out = <<>>)
  BY DEF Toward
<1>3. n = Len(Sought(p, q))
  BY <1>2, NextIsMeant DEF Orderly
<1>4. r.found = Sought(p, q)
  BY <1>1, <1>2, <1>3, FoundAll
<1>5. piece \in Pair \cup Row
  BY <1>1 DEF Pair
<1> HIDE DEF piece
<1>6. /\ r.op \in Pieced => /\ Len(out) = Len(r.out) + 1
                            /\ out[Len(r.out) + 1] = piece
                            /\ \A k \in 1..Len(r.out) : out[k] = r.out[k]
      /\ r.op \notin Pieced => out = r.out
      /\ out \in Seq(Pair \cup Row)
  BY <1>1, <1>5
<1>7. LastSearch(r) = o
  BY DEF LastSearch, Pieced, piece
<1> HIDE DEF out
<1>8. /\ o \in CallType /\ o.ph = "done" /\ o.out = out
      /\ o.s = r.s /\ o.op = r.op /\ o.n = r.n /\ o.found = r.found
  BY <1>1, <1>6 DEF CallType
<1> HIDE DEF o
<1>9. For(q, o) /\ LeadsTo(p, q, o)
  BY <1>2, <1>8, SameWay
<1>10. RowsMeant(p, full, o)
  <2>1. r.op = "FindAllSubmatch" => r.op \notin Pieced
    BY DEF Pieced, Looping
  <2> QED
    BY <1>2, <1>6, <1>8, <2>1, Zenon DEF RowsMeant
<1>11. o.op = "FindAll" => o.out = <<>>
  BY <1>2, <1>6, <1>8 DEF Pieced
<1>12. Answer[p][q] = <<o.found, ResultMeant(p, q, o.found)>>
  BY <1>4, <1>8, AnswerIs
<1>13. CASE r.op \in Pieced
  <2>1. q.op = r.op /\ (q.op = "Split" => r.n = q.n) /\ q.n \in Int
    BY <1>2, CountIs, AnswerIs DEF For
  <2>2. ~(q.op = "Split" /\ q.n = 0) /\ ~(q.op = "Split" /\ n > 0 /\ n = q.n - 1)
    BY <1>1, <1>2, <2>1 DEF Short, Wanted
  <2>3. Before(r) /\ Len(r.out) = n /\ r.pos = After(r, n)
    BY <1>13 DEF Orderly, Pieces, Placed
  <2>4. \A k : After(o, k) = After(r, k)
    BY <1>8, Zenon DEF After
  <2>5. Before(o)
    BY <1>1, <1>6, <1>8, <1>13, <2>3, <2>4 DEF Before
  <2>6. After(o, n) <= Len(o.s) /\ Len(o.out) = n + 1 /\ o.out[n + 1] = <<After(o, n), Len(o.s)>>
    BY <1>1, <1>6, <1>8, <1>13, <2>3, <2>4 DEF piece
  <2>7. o.out = PiecesMeant(q, o.found)
    BY <1>2, <1>8, <1>13, <2>1, <2>2, <2>5, <2>6, PiecesAre DEF For
  <2>8. o.op \in Looping
    BY <1>8, <1>13 DEF Pieced
  <2>9. Answered(p, q, full, o)
    BY <1>4, <1>8, <1>9, <2>7, <2>8, PiecesAnswer
  <2> QED
    BY <1>7, <1>8, <1>9, <1>10, <1>11, <2>9 DEF Toward
<1>14. CASE r.op = "FindAll"
  <2>1. o.out = PiecesMeant(q, o.found)
    BY <1>2, <1>8, <1>11, <1>14 DEF PiecesMeant, For
  <2>2. Answered(p, q, full, o)
    BY <1>4, <1>8, <1>9, <1>14, <2>1, PiecesAnswer DEF Looping
  <2> QED
    BY <1>7, <1>8, <1>9, <1>10, <1>11, <2>2 DEF Toward
<1>15. CASE r.op = "FindSubmatch"
  <2>1. q.op = "FindSubmatch" /\ r.op \in Submatch /\ r.op \notin Pieced
    BY <1>2, <1>15 DEF For, Submatch, Pieced, Looping
  <2>2. n = 0
    BY <1>1, <1>2, <2>1 DEF Short, Wanted
  <2>3. Len(r.out) = 0
    BY <2>1, <2>2 DEF Ready, RowsOf
  <2>4. r.out = <<>> /\ r.found = <<>>
    BY <1>1, <2>2, <2>3
  <2>5. DOMAIN o.found = {} /\ o.out = <<>>
    BY <1>6, <1>8, <2>1, <2>4
  <2>6. {i \in DOMAIN o.found : GroupsFound(p, q.s, o.found[i])} = {}
    BY <2>5
  <2>7. ResultMeant(p, q, o.found) = [k \in {} |-> RowMeant(p, q.s, o.found[k])]
    BY <2>1, <2>6, Zenon DEF ResultMeant, Looping
  <2>8. ResultMeant(p, q, o.found) = <<>>
    BY <2>7
  <2>9. Answered(p, q, full, o)
    BY <1>12, <2>5, <2>8 DEF Answered
  <2> QED
    BY <1>7, <1>8, <1>9, <1>10, <1>11, <2>9 DEF Toward
<1>16. CASE r.op = "FindAllSubmatch"
  <2>1. r.op \in Submatch /\ r.op \notin Pieced
    BY <1>16 DEF Submatch, Pieced, Looping
  <2>2. Len(o.out) = Len(o.found)
    BY <1>1, <1>6, <1>8, <2>1 DEF Ready, RowsOf
  <2>3. Answered(p, q, full, o)
    BY <1>4, <1>8, <1>9, <1>10, <1>16, <2>2, RowsAre
  <2> QED
    BY <1>7, <1>8, <1>9, <1>10, <1>11, <2>3 DEF Toward
<1> QED
  BY <1>1, <1>13, <1>14, <1>15, <1>16 DEF Looping, Submatch, Pieced

\* The match sought, appended to those found.
LEMMA OneMoreFound ==
  ASSUME NEW p \in Pattern, NEW q \in Request, Means(p), NEW r, For(q, r), Ready(r),
         r.ph = "search", Placed(r), LeadsTo(p, q, r), Short(q, r),
         NEW loc \in {Find[p][r.s][r.pos], FindInSuffix(p, r)}, loc # Nil,
         NEW o, o.s = r.s, o.op = r.op, o.n = r.n, o.found = Append(r.found, loc)
  PROVE  /\ For(q, o) /\ LeadsTo(p, q, o) /\ Wanted(q) # 0
         /\ Wanted(q) >= 0 => Len(o.found) <= Wanted(q)
<1> DEFINE n == Len(r.found)
<1>1. r.found \in Seq(Pair) /\ n \in Nat /\ Len(Sought(p, q)) \in Nat /\ Wanted(q) \in Int
  BY CallFields, AnswerIs DEF Ready, Sane
<1>2. n < Len(Sought(p, q)) /\ Sought(p, q)[n + 1] = loc
  BY NextIsMeant
<1>3. Len(o.found) = n + 1 /\ o.found[n + 1] = loc /\ \A k \in 1..n : o.found[k] = r.found[k]
  BY <1>1
<1>4. LeadsTo(p, q, o)
  BY <1>1, <1>2, <1>3 DEF LeadsTo
<1>5. For(q, o)
  BY Zenon DEF For
<1> QED
  BY <1>1, <1>3, <1>4, <1>5 DEF Short

\* A match in a loop.
LEMMA LoopMatchMeant ==
  ASSUME NEW p \in Pattern, NEW q \in Request, Means(p), NEW full \in BOOLEAN,
         NEW r, Ready(r), r.ph = "search", r.op \in Looping, Orderly(p, r),
         Toward(p, q, full, r),
         NEW loc \in {Find[p][r.s][r.pos], FindInSuffix(p, r)}, loc # Nil
  PROVE  Toward(p, q, full, LoopMatch(r, loc))
<1> DEFINE n == Len(r.found)
           found == Append(r.found, loc)
           piece == Piece(r, loc)
           out == IF r.op = "FindAll" THEN r.out ELSE Append(r.out, piece)
           more == [r EXCEPT !.found = found, !.out = out]
           rest == <<loc[2], Len(r.s)>>
           last == Append(more.out, rest)
           o == [more EXCEPT !.ph = "done", !.out = last]
<1>1. /\ r \in CallType
      /\ r.out \in Seq(Pair \cup Row) /\ r.found \in Seq(Pair)
      /\ r.pos \in Nat /\ Len(r.s) \in Nat /\ n \in Nat /\ Len(r.out) \in Nat
  BY CallFields DEF Ready, Sane
<1>2. loc \in Location(r.s, r.pos)
  BY FoundFromPos
<1>3. loc \in Pair /\ loc[1] \in Nat /\ loc[2] \in Nat /\ loc[2] <= Len(r.s)
  BY <1>1, <1>2 DEF Location, Pair
<1>4. piece = <<r.pos, loc[1]>> /\ piece \in Pair \cup Row /\ rest \in Pair \cup Row
  BY <1>1, <1>3 DEF Piece, Pair
<1>5. LoopMatch(r, loc) = IF r.op = "Split" /\ r.n > 0 /\ Len(more.found) >= r.n - 1
                          THEN o ELSE Onward(more, loc)
  BY DEF LoopMatch
<1> HIDE DEF piece, rest
<1>6. found \in Seq(Pair) /\ out \in Seq(Pair \cup Row)
  BY <1>1, <1>3, <1>4
<1>7. r.op # "FindAll" =>
        /\ Len(out) = Len(r.out) + 1
        /\ out[Len(r.out) + 1] = piece
        /\ \A k \in 1..Len(r.out) : out[k] = r.out[k]
  BY <1>1, <1>4
<1>8. r.op = "FindAll" => out = r.out
  OBVIOUS
<1> HIDE DEF found, out
<1>9. /\ more \in CallType
      /\ more.found = found /\ more.out = out
      /\ more.s = r.s /\ more.op = r.op /\ more.n = r.n /\ more.pos = r.pos
  BY <1>1, <1>6 DEF CallType
<1> HIDE DEF more
<1>10. Hits(more, loc)
  BY <1>2, <1>9, NextMatch DEF found
<1>11. /\ \A k \in 0..n : After(more, k) = After(r, k)
       /\ Len(more.found) = n + 1 /\ more.found[n + 1] = loc
       /\ \A k \in 1..n : more.found[k] = r.found[k]
       /\ r.pos = After(r, n)
  BY <1>9, NextGap DEF found
<1>12. r.op \in Pieced => Before(more) /\ Len(more.out) = Len(more.found)
  <2> SUFFICES ASSUME r.op \in Pieced
               PROVE  /\ Len(more.out) = Len(more.found)
                      /\ \A i \in 1..n + 1 :
                           more.out[i] = <<After(more, i - 1), more.found[i][1]>>
    BY <1>1, <1>11 DEF Before
  <2>1. r.op # "FindAll" /\ Before(r) /\ Len(r.out) = n
    BY DEF Orderly, Pieces, Pieced
  <2>2. Len(out) = n + 1 /\ out[n + 1] = piece /\ \A k \in 1..n : out[k] = r.out[k]
    BY <1>7, <2>1
  <2>3. ASSUME NEW i \in 1..n
        PROVE  out[i] = <<After(more, i - 1), more.found[i][1]>>
    <3>1. i - 1 \in 0..n
      BY <1>1
    <3> QED
      BY <1>11, <2>1, <2>2, <3>1 DEF Before
  <2>4. out[n + 1] = <<After(more, n), more.found[n + 1][1]>>
    BY <1>1, <1>4, <1>11, <2>2
  <2> QED
    BY <1>1, <1>9, <1>11, <2>2, <2>3, <2>4
<1>13. For(q, r) /\ LeadsTo(p, q, r) /\ Short(q, r) /\ Placed(r)
       /\ (r.op = "FindAll" => r.out = <<>>)
  BY DEF Toward, Orderly
<1>14. /\ For(q, more) /\ LeadsTo(p, q, more) /\ Wanted(q) # 0
       /\ Wanted(q) >= 0 => Len(more.found) <= Wanted(q)
  BY <1>9, <1>13, OneMoreFound DEF found
<1>15. /\ more.op \in Looping /\ more.op # "FindSubmatch" /\ more.op # "FindAllSubmatch"
       /\ (more.op = "FindAll" => more.out = <<>>)
  BY <1>8, <1>9, <1>13 DEF Looping
<1>16. q.op = r.op /\ q.s = r.s /\ q.n \in Int /\ Wanted(q) \in Int
       /\ (r.op = "Split" => r.n = q.n)
  BY <1>13, CountIs, AnswerIs DEF For
<1>17. ASSUME ~(r.op = "Split" /\ r.n > 0 /\ Len(more.found) >= r.n - 1)
       PROVE  Toward(p, q, full, Onward(more, loc))
  <2> DEFINE w == Onward(more, loc)
  <2>1. /\ w.s = more.s /\ w.op = more.op /\ w.n = more.n /\ w.found = more.found
        /\ w.out = more.out
        /\ w.ph \in {"search", "done"}
        /\ w.ph = "search" => Short(q, more)
        /\ w.ph = "done" => /\ Len(more.found) = Len(Sought(p, q))
                            /\ After(more, Len(more.found)) > Len(more.s) \/ Enough(more)
    BY <1>9, <1>10, <1>14, <1>15, <1>17, OnwardMeant
  <2>2. w \in CallType
    <3>1. /\ r.op \in Submatch => FALSE
      BY DEF Looping, Submatch
    <3>2. CallInv(p, Onward(more, loc))
      BY <1>9, <1>10, <3>1, OnwardInv DEF RowsOf
    <3> QED
      BY <3>2 DEF CallInv, Sane
  <2> HIDE DEF w
  <2>3. For(q, w) /\ LeadsTo(p, q, w) /\ (w.ph = "search" => Short(q, w))
    BY <1>14, <2>1, SameWay
  <2>4. RowsMeant(p, full, w) /\ (w.op = "FindAll" => w.out = <<>>) /\ w.op \in Looping
    BY <1>15, <2>1 DEF RowsMeant
  <2>5. ASSUME w.ph = "done"
        PROVE  Answered(p, q, full, w)
    <3>1. w.found = Sought(p, q)
      BY <2>1, <2>2, <2>3, <2>5, FoundAll
    <3>2. w.out = PiecesMeant(q, w.found)
      <4>1. CASE w.op = "FindAll"
        BY <2>3, <2>4, <4>1 DEF PiecesMeant, For
      <4>2. CASE w.op # "FindAll"
        <5>1. w.op \in Pieced /\ r.op \in Pieced
          BY <1>9, <2>1, <2>4, <4>2 DEF Pieced
        <5>2. ~Enough(more)
          BY <1>9, <5>1 DEF Enough, Pieced, Looping
        <5>3. After(w, n + 1) > Len(w.s) /\ Before(w)
              /\ Len(w.found) = n + 1 /\ Len(w.out) = n + 1
          <6>1. Len(more.found) = n + 1 /\ Before(more) /\ Len(more.out) = n + 1
                /\ After(more, n + 1) > Len(more.s)
            BY <1>11, <1>12, <2>1, <2>5, <5>1, <5>2
          <6>2. After(w, n + 1) = After(more, n + 1) /\ Before(w)
            BY <2>1, <6>1, SameText
          <6> QED
            BY <2>1, <6>1, <6>2
        <5>4. ~(q.op = "Split" /\ n + 1 > 0 /\ n + 1 = q.n - 1)
              /\ ~(q.op = "Split" /\ q.n = 0)
          BY <1>1, <1>11, <1>14, <1>16, <1>17 DEF Wanted
        <5>5. After(w, n + 1) \in Nat
          <6>1. Resume(more, loc) = After(more, n + 1) /\ Resume(more, loc) \in Nat
            BY <1>10, <1>11, ResumeIsAfter, ResumeBehindMatch
          <6>2. After(w, n + 1) = After(more, n + 1)
            BY <2>1, SameText
          <6> QED
            BY <6>1, <6>2
        <5>6. Len(w.s) \in Nat /\ w.s = q.s /\ w.op = q.op
          BY <1>1, <1>9, <2>1, <2>3 DEF For
        <5>7. ~(After(w, n + 1) <= Len(w.s))
          BY <5>3, <5>5, <5>6
        <5> QED
          BY <2>2, <5>1, <5>3, <5>4, <5>6, <5>7, PiecesAre
      <4> QED
        BY <4>1, <4>2
    <3> QED
      BY <2>2, <2>3, <2>4, <3>1, <3>2, PiecesAnswer
  <2>6. Toward(p, q, full, w)
    BY <2>3, <2>4, <2>5 DEF Toward
  <2> QED
    BY <2>6 DEF w
<1>18. ASSUME r.op = "Split", r.n > 0, Len(more.found) >= r.n - 1
       PROVE  Toward(p, q, full, o)
  <2>1. r.op \in Pieced
    BY <1>18 DEF Pieced, Looping
  <2>2. /\ Len(last) = n + 2 /\ last[n + 2] = rest
        /\ \A k \in 1..n + 1 : last[k] = more.out[k]
        /\ last \in Seq(Pair \cup Row)
    BY <1>1, <1>4, <1>6, <1>9, <1>11, <1>12, <2>1
  <2> HIDE DEF last
  <2>3. /\ o \in CallType /\ o.ph = "done" /\ o.out = last
        /\ o.s = more.s /\ o.op = more.op /\ o.n = more.n /\ o.found = more.found
    BY <1>9, <2>2 DEF CallType
  <2> HIDE DEF o
  <2>4. \A k : After(o, k) = After(more, k)
    BY <2>3, Zenon DEF After
  <2>5. Before(o)
    <3>1. Len(o.found) = n + 1 /\ Len(o.out) >= n + 1
      BY <1>1, <1>11, <2>2, <2>3
    <3>2. ASSUME NEW i \in 1..n + 1
          PROVE  o.out[i] = <<After(o, i - 1), o.found[i][1]>>
      <4>1. more.out[i] = <<After(more, i - 1), more.found[i][1]>>
        BY <1>11, <1>12, <2>1 DEF Before
      <4>2. o.out[i] = more.out[i] /\ After(o, i - 1) = After(more, i - 1)
        BY <2>2, <2>3, <2>4
      <4> QED
        BY <2>3, <4>1, <4>2, Zenon
    <3> HIDE DEF n
    <3> QED
      BY <3>1, <3>2 DEF Before
  <2>6. Wanted(q) = q.n - 1 /\ q.n > 0 /\ n + 1 = q.n - 1
    <3>1. q.op = "Split" /\ q.n = r.n
      BY <1>16, <1>18
    <3>2. q.n > 0 /\ Wanted(q) = q.n - 1
      BY <1>18, <3>1 DEF Wanted
    <3> QED
      BY <1>1, <1>11, <1>14, <1>16, <1>18, <3>1, <3>2
  <2>7. For(q, o) /\ LeadsTo(p, q, o)
    BY <1>14, <2>3, SameWay
  <2>8. o.found = Sought(p, q)
    <3>1. Len(Sought(p, q)) <= Wanted(q) /\ Len(Sought(p, q)) \in Nat
      <4>1. Successors(p, q, Sought(p, q)) /\ Len(Sought(p, q)) \in Nat
        BY AnswerIs
      <4>2. Wanted(q) >= 0
        BY <1>1, <2>6
      <4> QED
        BY <4>1, <4>2 DEF Successors
    <3>2. Len(o.found) = Len(Sought(p, q))
      BY <1>1, <1>11, <2>3, <2>6, <2>7, <3>1 DEF LeadsTo
    <3> QED
      BY <2>3, <2>7, <3>2, FoundAll
  <2>9. o.out = PiecesMeant(q, o.found)
    <3>1. loc[2] = IF q.op = "Split" /\ n + 1 > 0 /\ n + 1 = q.n - 1
                   THEN o.found[n + 1][2] ELSE After(o, n + 1)
      BY <1>1, <1>11, <1>16, <1>18, <2>3, <2>6
    <3>2. loc[2] <= Len(o.s) /\ Len(o.out) = (n + 1) + 1 /\ o.out[(n + 1) + 1] = <<loc[2], Len(o.s)>>
      BY <1>1, <1>3, <1>9, <2>2, <2>3 DEF rest
    <3>3. o.s = q.s /\ o.op = q.op /\ o.op \in Pieced /\ Len(o.found) = n + 1
          /\ ~(q.op = "Split" /\ q.n = 0)
      BY <1>9, <1>11, <1>16, <2>1, <2>3, <2>6
    <3> QED
      BY <2>3, <2>5, <3>1, <3>2, <3>3, PiecesAre
  <2>10. o.op \in Looping /\ o.op # "FindAll" /\ RowsMeant(p, full, o)
    BY <1>9, <1>18, <2>3 DEF RowsMeant, Looping
  <2>11. Answered(p, q, full, o)
    BY <2>3, <2>7, <2>8, <2>9, <2>10, PiecesAnswer
  <2> QED
    BY <2>3, <2>7, <2>10, <2>11 DEF Toward
<1> HIDE DEF o
<1> QED
  BY <1>5, <1>17, <1>18

LEMMA TurnMeant ==
  ASSUME NEW p \in Pattern, NEW q \in Request, Means(p), NEW full \in BOOLEAN,
         NEW r, Ready(r), r.ph = "search", r.op \in Looping, Orderly(p, r),
         Toward(p, q, full, r)
  PROVE  Toward(p, q, full, Turn(p, r))
<1> DEFINE loc == Located(p, r)
<1>1. loc \in {Find[p][r.s][r.pos], FindInSuffix(p, r)}
  BY DEF Located
<1>2. Turn(p, r) = IF loc = Nil THEN LastSearch(r) ELSE LoopMatch(r, loc)
  BY DEF Turn
<1> HIDE DEF loc
<1> QED
  BY <1>1, <1>2, LastSearchMeant, LoopMatchMeant

\* A new call, also one that is done at once.
LEMMA NewCallMeant ==
  ASSUME NEW p \in Pattern, NEW q \in Request, Means(p), NEW full \in BOOLEAN,
         NEW way \in {"wrapper", "engine"}
  PROVE  Toward(p, q, full, NewCall(q, way))
<1> DEFINE n == Count(q, way)
           first == [op |-> q.op, s |-> q.s, n |-> n, ph |-> "search", pos |-> 0,
                     found |-> <<>>, out |-> <<>>, at |-> 0, st |-> Root,
                     slots |-> NoSlots(0)]
           atOnce == [first EXCEPT !.ph = "done",
                                   !.out = IF q.n = 0 THEN <<>> ELSE <<<<0, Len(q.s)>>>>]
           o == NewCall(q, way)
           a == Sought(p, q)
<1>1. /\ q.s \in Input /\ Len(q.s) \in Nat /\ q.op \in Looping \cup Submatch
      /\ q.n \in Int /\ Wanted(q) \in Int /\ Len(a) \in Nat
      /\ Wanted(q) >= 0 => Len(a) <= Wanted(q)
  BY AnswerIs DEF Successors
<1>2. o = IF q.op = "Split" /\ q.n \in {0, 1} THEN atOnce ELSE TopOfLoop(first)
  BY DEF NewCall
<1>3. /\ o.s = q.s /\ o.op = q.op /\ o.n = n /\ o.found = <<>>
      /\ o.out # <<>> => q.op = "Split"
      /\ o.ph \in {"search", "done"}
  BY <1>2 DEF TopOfLoop
<1>4. o.ph = "done" =>
        \/ q.op = "Split" /\ q.n = 0 /\ o.out = <<>>
        \/ q.op = "Split" /\ q.n = 1 /\ o.out = <<<<0, Len(q.s)>>>>
        \/ q.op \in {"FindAll", "FindAllSubmatch"} /\ q.n = 0 /\ o.out = <<>>
  BY <1>1, <1>2 DEF TopOfLoop, Enough, Count
<1>5. o.ph = "search" => ~(q.op = "Split" /\ q.n \in {0, 1})
                         /\ ~(q.op \in {"FindAll", "FindAllSubmatch"} /\ q.n = 0)
  BY <1>1, <1>2 DEF TopOfLoop, Enough, Count
<1>6. o \in CallType
  BY NewCallInv DEF CallInv, Sane
<1> HIDE DEF o
<1>7. Len(o.found) = 0 /\ DOMAIN o.found = {}
  BY <1>3
<1>8. For(q, o) /\ LeadsTo(p, q, o)
  <2>1. n \in {q.n, Count(q, "engine")}
    BY DEF Count
  <2> QED
    BY <1>1, <1>3, <1>7, <2>1 DEF For, LeadsTo
<1>9. o.ph = "search" => Short(q, o)
  BY <1>1, <1>5, <1>7 DEF Short, Wanted, Looping, Submatch
<1>10. (o.op = "FindAll" => o.out = <<>>) /\ RowsMeant(p, full, o)
  <2>1. o.op = "FindAllSubmatch" => o.out = <<>>
    BY <1>3
  <2>2. o.out = <<>> => Len(o.out) = 0
    OBVIOUS
  <2> QED
    BY <1>3, <2>1, <2>2 DEF RowsMeant
<1>11. ASSUME o.ph = "done"
       PROVE  Answered(p, q, full, o)
  <2>1. Wanted(q) = 0
    BY <1>4, <1>11 DEF Wanted
  <2>2. Len(o.found) = Len(Sought(p, q))
    BY <1>1, <1>7, <2>1
  <2>3. o.found = Sought(p, q)
    BY <1>6, <1>8, <2>2, FoundAll
  <2>4. CASE q.op = "Split" /\ q.n = 0 /\ o.out = <<>>
    <3>1. o.out = PiecesMeant(q, o.found)
      BY <2>4 DEF PiecesMeant
    <3> QED
      BY <1>3, <1>6, <1>8, <2>3, <2>4, <3>1, PiecesAnswer DEF Looping
  <2>5. CASE q.op = "Split" /\ q.n = 1 /\ o.out = <<<<0, Len(q.s)>>>>
    <3>1. After(o, 0) = 0 /\ Before(o)
      BY <1>7, <2>5 DEF After, Before
    <3> DEFINE piece == <<0, Len(q.s)>>
    <3>2. o.out = <<piece>>
      BY <2>5
    <3>3. piece = <<0, Len(o.s)>>
      BY <1>3
    <3> HIDE DEF piece
    <3>4. Len(o.out) = 0 + 1 /\ o.out[0 + 1] = piece
      BY <3>2
    <3>5. o.op \in Pieced /\ ~(q.op = "Split" /\ q.n = 0)
      BY <1>3, <2>5 DEF Pieced, Looping
    <3>6. o.out = PiecesMeant(q, o.found)
      <4> DEFINE left == 0
      <4>1. left = IF q.op = "Split" /\ Len(o.found) > 0 /\ Len(o.found) = q.n - 1
                   THEN o.found[Len(o.found)][2] ELSE After(o, Len(o.found))
        BY <1>7, <3>1
      <4>2. /\ left <= Len(o.s) /\ Len(o.out) = Len(o.found) + 1
            /\ o.out[Len(o.found) + 1] = <<left, Len(o.s)>>
        BY <1>1, <1>3, <1>7, <3>3, <3>4
      <4> HIDE DEF left
      <4> QED
        BY <1>3, <1>6, <3>1, <3>5, <4>1, <4>2, PiecesAre
    <3> QED
      BY <1>3, <1>6, <1>8, <2>3, <2>5, <3>6, PiecesAnswer DEF Looping
  <2>6. CASE q.op = "FindAll" /\ q.n = 0 /\ o.out = <<>>
    <3>1. o.out = PiecesMeant(q, o.found)
      BY <2>6 DEF PiecesMeant
    <3> QED
      BY <1>3, <1>6, <1>8, <2>3, <2>6, <3>1, PiecesAnswer DEF Looping
  <2>7. CASE q.op = "FindAllSubmatch" /\ q.n = 0 /\ o.out = <<>>
    <3>1. Len(o.out) = 0
      BY <2>7
    <3>2. Len(o.out) = Len(o.found)
      BY <1>7, <3>1
    <3> QED
      BY <1>3, <1>6, <1>8, <1>10, <2>3, <2>7, <3>2, RowsAre
  <2> QED
    BY <1>4, <1>11, <2>4, <2>5, <2>6, <2>7
<1>12. Toward(p, q, full, o)
  BY <1>8, <1>9, <1>10, <1>11 DEF Toward
<1> QED
  BY <1>12 DEF o

\* A row more.  The row of a single match is there only if its groups are found.
LEMMA FinishedMeant ==
  ASSUME NEW p \in Pattern, NEW q \in Request, Means(p), NEW full \in BOOLEAN,
         NEW r, Hits(r, LastFound(r)), r.op \in Submatch, RowsOf(r, 1), For(q, r),
         LeadsTo(p, q, r), RowsMeant(p, full, r), Wanted(q) # 0,
         NEW row \in Row, InMatch(row, LastFound(r)),
         r.op = "FindSubmatch" =>
           GroupsFound(p, r.s, LastFound(r)) /\ row = RowMeant(p, r.s, LastFound(r)),
         r.op = "FindAllSubmatch" =>
           \/ row = RowOfAll(p, r.s, LastFound(r))
           \/ full /\ row = Whole(LastFound(r))
  PROVE  Toward(p, q, full, Finished(r, row))
<1> DEFINE loc == LastFound(r)
           n == Len(r.found)
           out == Append(r.out, row)
           more == [r EXCEPT !.out = out]
           o == [more EXCEPT !.ph = "done"]
<1>1. /\ r \in CallType /\ r.out \in Seq(Pair \cup Row) /\ Len(r.out) \in Nat
      /\ r.found \in Seq(Pair) /\ n \in Nat /\ n > 0 /\ loc = r.found[n]
  BY CallFields DEF Hits, Sane, LastFound
<1>2. out \in Seq(Pair \cup Row) /\ Len(out) = Len(r.out) + 1 /\ out[Len(r.out) + 1] = row
      /\ \A k \in 1..Len(r.out) : out[k] = r.out[k]
  BY <1>1
<1>3. Len(r.out) = n - 1
  BY <1>1 DEF RowsOf
<1> HIDE DEF out
<1>4. Finished(r, row) = IF r.op = "FindSubmatch" THEN o ELSE Onward(more, loc)
  BY DEF Finished, LastFound, out
<1>5. /\ more \in CallType
      /\ more.s = r.s /\ more.op = r.op /\ more.n = r.n /\ more.out = out
      /\ more.pos = r.pos /\ more.found = r.found
  BY <1>1, <1>2 DEF CallType
<1> HIDE DEF more
<1>6. Hits(more, loc) /\ LastFound(more) = loc
  BY <1>5 DEF Hits, Sane, InOrder, LastFound
<1>7. For(q, more) /\ LeadsTo(p, q, more)
  BY <1>5, SameWay
<1>8. RowsMeant(p, full, more)
  <2> SUFFICES ASSUME r.op = "FindAllSubmatch", NEW k \in 1..n
               PROVE  \/ out[k] = RowOfAll(p, r.s, r.found[k])
                      \/ full /\ out[k] = Whole(r.found[k])
    BY <1>1, <1>2, <1>3, <1>5 DEF RowsMeant
  <2>1. CASE k \in 1..n - 1
    BY <1>2, <1>3, <2>1 DEF RowsMeant
  <2>2. CASE k = n
    BY <1>1, <1>2, <1>3, <2>2
  <2> QED
    BY <1>1, <2>1, <2>2
<1>9. r.op # "FindAll"
  BY DEF Submatch
<1>10. CASE r.op = "FindSubmatch"
  <2>1. /\ o \in CallType /\ o.ph = "done" /\ o.s = more.s /\ o.op = more.op /\ o.n = more.n
        /\ o.found = more.found /\ o.out = more.out
    BY <1>5, SetPh
  <2> HIDE DEF o
  <2>2. q.op = "FindSubmatch" /\ Wanted(q) = 1 /\ q.s = r.s
    BY <1>10 DEF For, Wanted
  <2>3. Len(Sought(p, q)) <= 1 /\ Len(Sought(p, q)) \in Nat
    <3>1. Successors(p, q, Sought(p, q)) /\ Len(Sought(p, q)) \in Nat
      BY AnswerIs
    <3> QED
      BY <2>2, <3>1 DEF Successors
  <2>4. n = 1 /\ Len(Sought(p, q)) = 1
    <3> DEFINE N == Len(Sought(p, q))
    <3>1. n <= N /\ N <= 1 /\ N \in Nat /\ n \in Nat /\ n > 0
      BY <1>1, <2>3 DEF LeadsTo
    <3> HIDE DEF n, N
    <3>2. n = 1 /\ N = 1
      BY <3>1
    <3> QED
      BY <3>2 DEF N
  <2>5. For(q, o) /\ LeadsTo(p, q, o) /\ RowsMeant(p, full, o) /\ o.op # "FindAll"
    BY <1>5, <1>7, <1>8, <1>9, <2>1, SameWay
  <2>6. r.found = Sought(p, q)
    BY <1>1, <2>4, FoundAll
  <2>7. Answer[p][q] = <<r.found, ResultMeant(p, q, r.found)>>
    BY <2>6, AnswerIs
  <2>8. ResultMeant(p, q, r.found) = [k \in {1} |-> row]
    <3>1. {i \in DOMAIN r.found : GroupsFound(p, q.s, r.found[i])} = {1}
      BY <1>1, <1>10, <2>2, <2>4
    <3>2. ResultMeant(p, q, r.found) = [k \in {1} |-> RowMeant(p, q.s, r.found[k])]
      BY <2>2, <3>1, Zenon DEF ResultMeant, Looping
    <3>3. \A k \in {1} : RowMeant(p, q.s, r.found[k]) = row
      BY <1>1, <1>10, <2>2, <2>4
    <3> HIDE DEF loc
    <3> QED
      BY <3>2, <3>3
  <2>9. out = [k \in {1} |-> row]
    <3>1. Len(out) = 1 /\ out[1] = row
      BY <1>2, <1>3, <2>4
    <3>2. out = [k \in 1..1 |-> out[k]] /\ 1..1 = {1}
      BY <1>2, <3>1
    <3> QED
      BY <3>1, <3>2
  <2>10. Answered(p, q, full, o)
    BY <1>5, <2>1, <2>7, <2>8, <2>9 DEF Answered
  <2>11. Toward(p, q, full, o)
    BY <2>1, <2>5, <2>10 DEF Toward
  <2> QED
    BY <1>4, <1>10, <2>11
<1>11. CASE r.op # "FindSubmatch"
  <2> DEFINE w == Onward(more, loc)
  <2>1. r.op = "FindAllSubmatch"
    BY <1>11 DEF Submatch
  <2>2. /\ w.s = more.s /\ w.op = more.op /\ w.n = more.n /\ w.found = more.found
        /\ w.out = more.out
        /\ w.ph \in {"search", "done"}
        /\ w.ph = "search" => Short(q, more)
        /\ w.ph = "done" => Len(more.found) = Len(Sought(p, q))
    BY <1>5, <1>6, <1>7, <2>1, OnwardMeant
  <2>3. w \in CallType
    <3>1. RowsOf(more, 0)
      <4>1. Len(out) = n - 0
        BY <1>1, <1>2, <1>3
      <4>2. ASSUME NEW k \in 1..n
            PROVE  InMatch(out[k], r.found[k])
        <5>1. CASE k \in 1..n - 1
          BY <1>2, <1>3, <5>1 DEF RowsOf
        <5>2. CASE k = n
          BY <1>1, <1>2, <1>3, <5>2
        <5> QED
          BY <1>1, <5>1, <5>2
      <4> QED
        BY <1>5, <4>1, <4>2 DEF RowsOf
    <3>2. CallInv(p, Onward(more, loc))
      BY <1>6, <3>1, OnwardInv
    <3> QED
      BY <3>2 DEF CallInv, Sane
  <2> HIDE DEF w
  <2>4. For(q, w) /\ LeadsTo(p, q, w) /\ (w.ph = "search" => Short(q, w))
        /\ RowsMeant(p, full, w)
    BY <1>7, <1>8, <2>2, SameWay
  <2>5. ASSUME w.ph = "done"
        PROVE  Answered(p, q, full, w)
    <3>1. w.found = Sought(p, q)
      BY <2>2, <2>3, <2>4, <2>5, FoundAll
    <3>2. Len(w.out) = Len(w.found) /\ w.op = "FindAllSubmatch"
      BY <1>1, <1>2, <1>3, <1>5, <2>1, <2>2
    <3> QED
      BY <2>3, <2>4, <3>1, <3>2, RowsAre
  <2>6. w.op # "FindAll"
    BY <1>5, <2>1, <2>2
  <2>7. Toward(p, q, full, w)
    BY <2>4, <2>5, <2>6 DEF Toward
  <2> QED
    BY <1>4, <1>11, <2>7 DEF w
<1> QED
  BY <1>10, <1>11

----------------------------------------------------------------------------
(* The groups: the run over a match follows the reading of it.             *)

\* The automaton is where the reading is and has the slots it has; or it is in the
\* dead state, because nothing is accepted any more or there was no room.
Followed(p, d, r, w) ==
  \/ r.st = Dead /\ (w.tree = DeadTree \/ Full(d))
  \/ /\ r.st # Dead
     /\ d.asts[r.st] = w.tree
     /\ w.tree # DeadTree =>
          /\ DOMAIN w.slots = 0..Program[p].captures
          /\ \A i \in 1..Program[p].captures : r.slots[i] = w.slots[i]

RunMeant(p, d, r) ==
  Program[p].captures # 0 /\ Followed(p, d, r, Reading(p, Span(r))[r.at])

\* A run begins.
LEMMA RunBegins ==
  ASSUME NEW p \in Pattern, NEW d, d.asts[Root] = Program[p].root, NEW r,
         Hits(r, LastFound(r)), Program[p].captures # 0,
         r.at = 0, r.st = Root, r.slots = NoSlots(Program[p].captures)
  PROVE  RunMeant(p, d, r)
<1>1. Len(Span(r)) \in Nat
  BY SpanIs
<1>2. Reading(p, Span(r))[r.at] = Unread(p)
  BY <1>1, ReadingSteps
<1>3. /\ Unread(p).tree = Program[p].root
      /\ Unread(p).slots = r.slots /\ DOMAIN Unread(p).slots = 0..Program[p].captures
  BY DEF Unread, NoSlots
<1>4. Root # Dead
  BY DEF Root, Dead
<1>5. Followed(p, d, r, Unread(p))
  BY <1>3, <1>4 DEF Followed
<1> QED
  BY <1>2, <1>5 DEF RunMeant

\* The dead tree stays dead.
LEMMA DeadStaysDead ==
  ASSUME NEW b \in Letter, NEW c \in Situation
  PROVE  LET ways == Configs[DeadTree][b][c]
         IN  /\ ways \in Seq(ConfigType)
             /\ ways # <<>> => ways[1].next = DeadTree
<1> DEFINE ways == Configs[DeadTree][b][c]
<1>1. ways \in Seq(ConfigType)
  <2>1. Configs[DeadTree] \in [Letter -> [Situation -> Seq(ConfigType)]]
    BY TagTreeAssumption DEF ConfigType
  <2> QED
    BY <2>1
<1>2. \A i \in DOMAIN ways : ways[i].next = DeadTree
  BY DeadTreeAssumption
<1> HIDE DEF ways
<1>3. ways # <<>> => 1 \in DOMAIN ways
  BY <1>1
<1> QED
  BY <1>1, <1>2, <1>3 DEF ways

\* What ReadOn reads: slots of groups are told apart by their own tags alone.
LEMMA TagsApart ==
  ASSUME NEW captures \in Nat, NEW slots, DOMAIN slots = 0..captures,
         NEW other, DOMAIN other = 0..captures,
         \A i \in 1..captures : slots[i] = other[i], NEW tags, NEW at
  PROVE  /\ DOMAIN ApplyTags(other, tags, at) = 0..captures
         /\ \A i \in 1..captures : ApplyTags(slots, tags, at)[i] = ApplyTags(other, tags, at)[i]
<1> DEFINE Has(i, isStart) == \E k \in DOMAIN tags : tags[k] = [id |-> i, isStart |-> isStart]
           Slot(x, i) == <<IF Has(i, TRUE) THEN at ELSE x[i][1],
                           IF Has(i, FALSE) THEN at + 1 ELSE x[i][2]>>
<1>1. /\ ApplyTags(slots, tags, at) = [i \in 0..captures |-> Slot(slots, i)]
      /\ ApplyTags(other, tags, at) = [i \in 0..captures |-> Slot(other, i)]
  BY Zenon DEF ApplyTags
<1>2. \A i \in 1..captures : Slot(slots, i) = Slot(other, i)
  BY Zenon
<1>3. \A i \in 1..captures : i \in 0..captures
  OBVIOUS
<1> HIDE DEF Slot
<1> QED
  BY <1>1, <1>2, <1>3

\* A byte of the match.
LEMMA RunByteMeant ==
  ASSUME NEW p \in Pattern, NEW r, Running(p, r), r.ph = "run", r.at < Len(Span(r)),
         NEW d, Shape(d), Exact(p, d), r.st \in 1..Len(d.asts), RunMeant(p, d, r)
  PROVE  RunMeant(p, RunByte(p, d, r).dfa, RunByte(p, d, r).r)
<1> DEFINE span == Span(r)
           b == Program[p].byteToClass[span[r.at + 1]]
           c == MakeMatchContext(span, r.at)
           step == NextTagged(d, r.st, b, c)
           marked == Marked(d, r)
           slots == ApplyTags(marked, step.tr.tags, r.at)
           q == [r EXCEPT !.slots = slots, !.st = step.tr.next, !.at = @ + 1]
           captures == Program[p].captures
           w == Reading(p, span)[r.at]
           ways == Configs[w.tree][b][c]
           v == Reading(p, span)[r.at + 1]
<1>1. RunByte(p, d, r) = [dfa |-> step.dfa, r |-> q]
  BY Zenon DEF RunByte
<1>2. r \in CallType /\ r.at \in Nat /\ Hits(r, LastFound(r)) /\ captures \in Nat
  BY CallFields, IterationAssumption DEF Running, Hits, Sane
<1>3. /\ q.slots = slots /\ q.st = step.tr.next /\ q.at = r.at + 1
      /\ q.s = r.s /\ q.found = r.found
  <2> HIDE DEF slots, step
  <2> QED
    BY <1>2 DEF CallType
<1>4. Span(q) = span
  <2> HIDE DEF q
  <2> QED
    BY <1>3 DEF Span
<1>5. b \in Letter /\ c \in Situation /\ Len(span) \in Nat
  <2>1. /\ span \in Seq(Letter) /\ Len(span) \in Nat
        /\ \A at \in 0..Len(span) : MakeMatchContext(span, at) \in Situation
    BY <1>2, SpanIs
  <2>2. r.at + 1 \in 1..Len(span) /\ r.at \in 0..Len(span)
    BY <1>2, <2>1
  <2> HIDE DEF span
  <2>3. span[r.at + 1] \in Letter
    BY <2>1, <2>2
  <2>4. Program[p].byteToClass \in [Letter -> Letter]
    BY IterationAssumption
  <2> QED
    BY <2>1, <2>2, <2>3, <2>4
<1>6. v = IF ways = <<>> THEN [tree |-> DeadTree, slots |-> w.slots]
          ELSE [tree |-> ways[1].next, slots |-> ApplyTags(w.slots, ways[1].tags, r.at)]
  <2>1. r.at \in 0..Len(span) - 1
    BY <1>2, <1>5
  <2>2. v = ReadOn(p, span, w, r.at)
    BY <1>5, <2>1, ReadingSteps
  <2> HIDE DEF v, w
  <2> QED
    BY <2>2, Zenon DEF ReadOn
<1>7. captures # 0 /\ Followed(p, d, r, w)
  BY DEF RunMeant
<1>8. marked \in [0..captures -> Pair] /\ \A i \in 1..captures : marked[i] = r.slots[i]
  <2>1. marked \in [0..captures -> Pair]
    BY MarkedInSpan
  <2>2. r.slots \in [0..captures -> Pair]
    BY DEF Running
  <2>3. ASSUME NEW i \in 1..captures
        PROVE  marked[i] = r.slots[i]
    <3>1. i # 0 /\ i \in 0..captures
      BY <1>2
    <3> HIDE DEF captures
    <3> QED
      BY <2>2, <3>1 DEF Marked
  <2> QED
    BY <2>1, <2>3
<1>9. /\ r.st = Dead => step = [dfa |-> d, tr |-> Lost]
      /\ r.st # Dead => Follows(step.dfa, d.asts[r.st], b, step.tr)
      /\ Extends(d, step.dfa) /\ Shape(step.dfa)
  <2>1. r.st = Dead => step = [dfa |-> d, tr |-> Lost]
    BY DEF NextTagged
  <2> HIDE DEF step, b, c
  <2>2. r.st # Dead => Follows(step.dfa, d.asts[r.st], b, step.tr)
    BY <1>5, NextTaggedRight DEF Exact, step
  <2>3. Extends(d, step.dfa) /\ Shape(step.dfa)
    BY <1>5, NextTaggedSound DEF step
  <2> QED
    BY <2>1, <2>2, <2>3
<1> HIDE DEF v, w, step, b, c, span, captures, marked, ways
<1>10. ASSUME w.tree = DeadTree
       PROVE  v.tree = DeadTree
  <2>1. ways = <<>> \/ ways[1].next = DeadTree
    BY <1>5, <1>10, DeadStaysDead DEF ways
  <2> QED
    BY <1>6, <2>1
<1> HIDE DEF slots, q
<1>11. ASSUME r.st = Dead
       PROVE  Followed(p, step.dfa, q, v)
  <2>1. q.st = Dead /\ step.dfa = d
    BY <1>3, <1>9, <1>11 DEF Lost, Transition
  <2>2. w.tree = DeadTree \/ Full(d)
    BY <1>7, <1>11 DEF Followed
  <2> QED
    BY <1>10, <2>1, <2>2 DEF Followed
<1>12. ASSUME r.st # Dead
       PROVE  Followed(p, step.dfa, q, v)
  <2>1. /\ d.asts[r.st] = w.tree
        /\ w.tree # DeadTree =>
             DOMAIN w.slots = 0..captures /\ \A i \in 1..captures : r.slots[i] = w.slots[i]
    BY <1>7, <1>12 DEF Followed, captures
  <2>2. Follows(step.dfa, w.tree, b, step.tr)
    BY <1>9, <1>12, <2>1
  <2>3. CASE q.st = Dead
    <3>1. \/ Full(step.dfa)
          \/ ways = <<>> \/ ways[1].next = DeadTree
      BY <1>3, <1>5, <2>2, <2>3 DEF Follows, ways
    <3>2. Full(step.dfa) \/ v.tree = DeadTree
      BY <1>6, <3>1
    <3> QED
      BY <2>3, <3>2 DEF Followed
  <2>4. CASE q.st # Dead
    <3>1. /\ ways # <<>>
          /\ step.dfa.asts[q.st] = ways[1].next /\ step.tr.tags = ways[1].tags
      BY <1>3, <1>5, <2>2, <2>4 DEF Follows, IsFirst, ways
    <3>2. v.tree = ways[1].next /\ v.slots = ApplyTags(w.slots, ways[1].tags, r.at)
      BY <1>6, <3>1
    <3>3. ASSUME v.tree # DeadTree
          PROVE  /\ DOMAIN v.slots = 0..captures
                 /\ \A i \in 1..captures : q.slots[i] = v.slots[i]
      <4>1. w.tree # DeadTree
        BY <1>10, <3>3
      <4>2. DOMAIN w.slots = 0..captures /\ \A i \in 1..captures : marked[i] = w.slots[i]
        BY <1>8, <2>1, <4>1
      <4>3. q.slots = ApplyTags(marked, ways[1].tags, r.at)
        BY <1>3, <3>1 DEF slots
      <4>4. DOMAIN marked = 0..captures
        BY <1>8
      <4> DEFINE tags == ways[1].tags
      <4>5. /\ DOMAIN ApplyTags(w.slots, tags, r.at) = 0..captures
            /\ \A i \in 1..captures :
                 ApplyTags(marked, tags, r.at)[i] = ApplyTags(w.slots, tags, r.at)[i]
        BY <1>2, <4>2, <4>4, TagsApart
      <4> QED
        BY <3>2, <4>3, <4>5
    <3>4. step.dfa.asts[q.st] = v.tree
      BY <3>1, <3>2
    <3> QED
      BY <2>4, <3>3, <3>4 DEF Followed, captures
  <2> QED
    BY <2>3, <2>4
<1>13. Followed(p, step.dfa, q, v)
  BY <1>11, <1>12
<1>14. v = Reading(p, Span(q))[q.at]
  BY <1>3, <1>4 DEF v
<1>15. RunMeant(p, step.dfa, q)
  BY <1>7, <1>13, <1>14 DEF RunMeant, captures
<1>16. RunByte(p, d, r).dfa = step.dfa /\ RunByte(p, d, r).r = q
  BY <1>1
<1> QED
  BY <1>15, <1>16

\* The whole of the match: its groups are found if they are there and there was room.
LEMMA RunMeansGroups ==
  ASSUME NEW p \in Pattern, NEW r, Running(p, r), ~(r.at < Len(Span(r))), NEW d,
         RunMeant(p, d, r)
  PROVE  /\ Accepting(d, r) /\ r.st # Dead =>
              /\ GroupsFound(p, r.s, LastFound(r))
              /\ Moved(Marked(d, r), LastFound(r)) = RowMeant(p, r.s, LastFound(r))
         /\ ~(Accepting(d, r) /\ r.st # Dead) =>
              Full(d) \/ ~GroupsFound(p, r.s, LastFound(r))
<1> DEFINE span == Span(r)
           loc == LastFound(r)
           captures == Program[p].captures
           w == Reading(p, span)[Len(span)]
           marked == Marked(d, r)
<1>1. /\ r \in CallType /\ r.at \in Nat /\ Hits(r, LastFound(r)) /\ captures \in Nat
      /\ Len(span) \in Nat
  BY CallFields, IterationAssumption, SpanIs DEF Running, Hits, Sane
<1>2. r.at = Len(span)
  BY <1>1 DEF Running
<1>3. SpanOf(r.s, loc) = span
  BY Zenon DEF SpanOf, Span, LastFound
<1>4. captures # 0 /\ Followed(p, d, r, w)
  BY <1>2 DEF RunMeant
<1> DEFINE c == MakeMatchContext(span, Len(span))
<1>5. c \in Situation
  <2>1. \A at \in 0..Len(span) : MakeMatchContext(span, at) \in Situation
    BY <1>1, SpanIs
  <2>2. Len(span) \in 0..Len(span)
    BY <1>1
  <2> QED
    BY <2>1, <2>2
<1>6. GroupsFound(p, r.s, loc) <=> TagNull[w.tree][c]
  BY <1>3, <1>4, Zenon DEF GroupsFound
<1>7. RowMeant(p, r.s, loc) = Moved(w.slots, loc)
  <2>1. RowMeant(p, r.s, loc) = InText(w.slots, loc)
    BY <1>3, <1>4, Zenon DEF RowMeant
  <2> QED
    BY <2>1, Zenon DEF InText, Moved
<1>8. Accepting(d, r) <=> TagNull[d.asts[r.st]][c]
  BY <1>2, Zenon DEF Accepting, AcceptsTagged
<1>9. ~TagNull[DeadTree][c]
  BY <1>5, DeadTreeAssumption
<1>10. marked \in [0..captures -> Pair] /\ \A i \in 1..captures : marked[i] = r.slots[i]
  <2>1. marked \in [0..captures -> Pair]
    BY MarkedInSpan
  <2>2. r.slots \in [0..captures -> Pair]
    BY DEF Running
  <2>3. ASSUME NEW i \in 1..captures
        PROVE  marked[i] = r.slots[i]
    <3>1. i # 0 /\ i \in 0..captures
      BY <1>1
    <3> HIDE DEF captures
    <3> QED
      BY <2>2, <3>1 DEF Marked
  <2> QED
    BY <2>1, <2>3
<1> HIDE DEF w, c, span, marked, captures
<1>11. ASSUME Accepting(d, r), r.st # Dead
       PROVE  GroupsFound(p, r.s, loc) /\ Moved(marked, loc) = RowMeant(p, r.s, loc)
  <2>1. d.asts[r.st] = w.tree
    BY <1>4, <1>11 DEF Followed
  <2>2. TagNull[w.tree][c] /\ w.tree # DeadTree
    BY <1>8, <1>9, <1>11, <2>1
  <2>3. DOMAIN w.slots = 0..captures /\ \A i \in 1..captures : r.slots[i] = w.slots[i]
    BY <1>4, <1>11, <2>2 DEF Followed, captures
  <2>4. \A i \in 0..captures : i # 0 => marked[i] = w.slots[i]
    <3>1. \A i \in 0..captures : i # 0 => i \in 1..captures
      BY <1>1
    <3> QED
      BY <1>10, <2>3, <3>1
  <2>5. DOMAIN marked = DOMAIN w.slots
    BY <1>10, <2>3
  <2>6. Moved(marked, loc) = Moved(w.slots, loc)
    <3> DEFINE Slot(x, i) == IF i = 0 THEN loc
                             ELSE IF x[i][1] >= 0 THEN <<x[i][1] + loc[1], x[i][2] + loc[1]>>
                             ELSE x[i]
    <3>1. /\ Moved(marked, loc) = [i \in 0..captures |-> Slot(marked, i)]
          /\ Moved(w.slots, loc) = [i \in 0..captures |-> Slot(w.slots, i)]
      BY <2>3, <2>5, Zenon DEF Moved
    <3>2. \A i \in 0..captures : Slot(marked, i) = Slot(w.slots, i)
      BY <2>4, Zenon
    <3> HIDE DEF Slot
    <3> QED
      BY <3>1, <3>2
  <2> QED
    BY <1>6, <1>7, <2>2, <2>6
<1>12. ASSUME ~(Accepting(d, r) /\ r.st # Dead)
       PROVE  Full(d) \/ ~GroupsFound(p, r.s, loc)
  <2>1. CASE r.st = Dead
    BY <1>4, <1>6, <1>9, <2>1 DEF Followed
  <2>2. CASE r.st # Dead
    BY <1>4, <1>6, <1>8, <1>12, <2>2 DEF Followed
  <2> QED
    BY <2>1, <2>2
<1> QED
  BY <1>11, <1>12 DEF marked

\* The end of a match: the row of it, or none for want of room.
LEMMA RunEndMeant ==
  ASSUME NEW p \in Pattern, NEW q \in Request, Means(p), NEW full \in BOOLEAN,
         NEW r, Running(p, r), r.ph = "run", ~(r.at < Len(Span(r))),
         NEW d, Full(d) => full, RunMeant(p, d, r), Toward(p, q, full, r)
  PROVE  Toward(p, q, full, RunEnd(d, r).r)
<1> DEFINE loc == LastFound(r)
           n == Len(r.found)
           row == Moved(Marked(d, r), loc)
           stop == [r EXCEPT !.ph = "done"]
           accepts == Accepting(d, r) /\ r.st # Dead
<1>1. /\ r \in CallType /\ Hits(r, loc) /\ r.op \in Submatch /\ RowsOf(r, 1)
      /\ n \in Nat /\ n > 0 /\ loc = r.found[n]
      /\ r.found \in Seq(Pair) /\ r.out \in Seq(Pair \cup Row)
  BY CallFields DEF Running, Hits, Sane, LastFound
<1>2. For(q, r) /\ LeadsTo(p, q, r) /\ RowsMeant(p, full, r)
  BY DEF Toward
<1>3. /\ Successors(p, q, Sought(p, q)) /\ Len(Sought(p, q)) \in Nat /\ Wanted(q) \in Int
      /\ n <= Len(Sought(p, q))
  BY <1>2, AnswerIs DEF LeadsTo
<1>4. Wanted(q) # 0
  <2> SUFFICES ASSUME Wanted(q) = 0
               PROVE  FALSE
    OBVIOUS
  <2>1. Len(Sought(p, q)) <= 0
    BY <1>3 DEF Successors
  <2> DEFINE N == Len(Sought(p, q))
  <2>2. n <= N /\ N <= 0 /\ N \in Nat /\ n \in Nat /\ n > 0
    BY <1>1, <1>3, <2>1
  <2> HIDE DEF n, N
  <2> QED
    BY <2>2
<1>5. /\ row \in Row /\ InMatch(row, loc)
      /\ Whole(loc) \in Row /\ InMatch(Whole(loc), loc)
  <2>1. loc[1] \in Nat /\ loc[1] <= loc[2] /\ loc \in Pair
        /\ Len(Span(r)) = loc[2] - loc[1]
    BY <1>1, SpanIs
  <2>2. /\ Marked(d, r) \in [0..Program[p].captures -> Pair]
        /\ InSpan(Marked(d, r), r.at)
        /\ r.at \in Nat /\ r.at <= loc[2] - loc[1]
    BY <1>1, <2>1, MarkedInSpan, CallFields DEF Running
  <2>3. Program[p].captures \in Nat
    BY IterationAssumption
  <2> QED
    BY <2>1, <2>2, <2>3, MovedInMatch, WholeRow
<1>6. /\ accepts => GroupsFound(p, r.s, loc) /\ row = RowMeant(p, r.s, loc)
      /\ ~accepts => full \/ ~GroupsFound(p, r.s, loc)
  BY RunMeansGroups
<1>7. RunEnd(d, r).r = IF accepts THEN Finished(r, row)
                       ELSE IF r.op = "FindSubmatch" THEN stop
                       ELSE Finished(r, Whole(loc))
  BY DEF RunEnd, LastFound
<1> HIDE DEF row, loc, accepts
<1>8. ASSUME accepts
      PROVE  Toward(p, q, full, Finished(r, row))
  <2>1. row = RowOfAll(p, r.s, loc)
    BY <1>6, <1>8 DEF RowOfAll
  <2> QED
    BY <1>1, <1>2, <1>4, <1>5, <1>6, <1>8, <2>1, FinishedMeant DEF loc
<1>9. ASSUME ~accepts, r.op # "FindSubmatch"
      PROVE  Toward(p, q, full, Finished(r, Whole(loc)))
  <2>1. Whole(loc) = RowOfAll(p, r.s, loc) \/ full
    BY <1>6, <1>9 DEF RowOfAll
  <2> QED
    BY <1>1, <1>2, <1>4, <1>5, <1>9, <2>1, FinishedMeant DEF loc
<1>10. ASSUME ~accepts, r.op = "FindSubmatch"
       PROVE  Toward(p, q, full, stop)
  <2>1. /\ stop \in CallType /\ stop.ph = "done" /\ stop.s = r.s /\ stop.op = r.op
        /\ stop.n = r.n /\ stop.found = r.found /\ stop.out = r.out
    BY <1>1, SetPh
  <2> HIDE DEF stop
  <2>2. q.op = "FindSubmatch" /\ Wanted(q) = 1 /\ q.s = r.s
    BY <1>2, <1>10 DEF For, Wanted
  <2>3. n = 1 /\ Len(Sought(p, q)) = 1
    <3> DEFINE N == Len(Sought(p, q))
    <3>1. N <= 1
      BY <1>3, <2>2 DEF Successors
    <3>2. n <= N /\ N <= 1 /\ N \in Nat /\ n \in Nat /\ n > 0
      BY <1>1, <1>3, <3>1
    <3> HIDE DEF n, N
    <3>3. n = 1 /\ N = 1
      BY <3>2
    <3> QED
      BY <3>3 DEF N
  <2>4. For(q, stop) /\ LeadsTo(p, q, stop) /\ RowsMeant(p, full, stop) /\ stop.op # "FindAll"
    BY <1>2, <1>10, <2>1, SameWay
  <2>5. r.found = Sought(p, q)
    BY <1>1, <1>2, <2>3, FoundAll
  <2>6. r.out = <<>>
    <3>1. Len(r.out) = 0
      BY <1>1, <2>3 DEF RowsOf
    <3> QED
      BY <1>1, <3>1
  <2> DEFINE a == <<r.found, ResultMeant(p, q, r.found)>>
  <2>7. Answer[p][q] = a
    BY <2>5, AnswerIs
  <2>8. CASE full
    <3>1. a[1] = r.found
      OBVIOUS
    <3>2. q.op # "FindAllSubmatch" /\ q.op \notin Looping
      BY <2>2 DEF Looping
    <3> HIDE DEF a
    <3>3. PoorerThan(a, q) = {<<r.found, <<>>>>}
      BY <2>2, <3>1, <3>2, Zenon DEF PoorerThan
    <3>4. Answered(p, q, full, stop)
      BY <2>1, <2>6, <2>7, <2>8, <3>3 DEF Answered
    <3> QED
      BY <2>1, <2>4, <3>4 DEF Toward
  <2>9. CASE ~full
    <3>1. {i \in DOMAIN r.found : GroupsFound(p, q.s, r.found[i])} = {}
      BY <1>1, <1>6, <1>10, <2>2, <2>3, <2>9
    <3>2. ResultMeant(p, q, r.found) = [k \in {} |-> RowMeant(p, q.s, r.found[k])]
      BY <2>2, <3>1, Zenon DEF ResultMeant, Looping
    <3>3. ResultMeant(p, q, r.found) = <<>>
      BY <3>2
    <3>4. Answered(p, q, full, stop)
      BY <2>1, <2>6, <2>7, <3>3 DEF Answered
    <3> QED
      BY <2>1, <2>4, <3>4 DEF Toward
  <2> QED
    BY <2>8, <2>9
<1> HIDE DEF stop
<1>11. CASE accepts
  BY <1>7, <1>8, <1>11
<1>12. CASE ~accepts /\ r.op = "FindSubmatch"
  BY <1>7, <1>10, <1>12
<1>13. CASE ~accepts /\ r.op # "FindSubmatch"
  BY <1>7, <1>9, <1>13
<1> QED
  BY <1>11, <1>12, <1>13

\* A match whose groups are to be found, with the automaton in d or a new one.
LEMMA MatchedMeant ==
  ASSUME NEW p \in Pattern, NEW q \in Request, Means(p), NEW full \in BOOLEAN,
         NEW r, Ready(r), r.ph = "search", r.op \in Submatch, Orderly(p, r),
         Toward(p, q, full, r),
         NEW loc \in {Find[p][r.s][r.pos], FindInSuffix(p, r)}, loc # Nil
  PROVE  /\ Toward(p, q, full, Matched(p, r, loc))
         /\ Matched(p, r, loc).ph = "run" =>
              \A d : d.asts[Root] = Program[p].root => RunMeant(p, d, Matched(p, r, loc))
<1> DEFINE found == Append(r.found, loc)
           more == [r EXCEPT !.found = found]
           captures == Program[p].captures
           o == [more EXCEPT !.ph = "run", !.at = 0, !.st = Root, !.slots = NoSlots(captures)]
<1>1. /\ r \in CallType /\ r.found \in Seq(Pair) /\ r.pos \in Nat /\ Len(r.s) \in Nat
      /\ Len(r.out) \in Nat /\ Len(r.found) \in Nat
  BY CallFields DEF Ready, Sane
<1>2. loc \in Location(r.s, r.pos)
  BY FoundFromPos
<1>3. loc \in Pair /\ loc[1] <= loc[2]
  BY <1>1, <1>2 DEF Location, Pair
<1>4. found \in Seq(Pair)
  BY <1>1, <1>3
<1>5. Matched(p, r, loc) = IF captures = 0 THEN Finished(more, Whole(loc)) ELSE o
  BY DEF Matched
<1> HIDE DEF found
<1>6. /\ more \in CallType
      /\ more.found = found /\ more.out = r.out
      /\ more.s = r.s /\ more.op = r.op /\ more.pos = r.pos /\ more.n = r.n
  BY <1>1, <1>4 DEF CallType
<1> HIDE DEF more
<1>7. /\ Hits(more, loc) /\ LastFound(more) = loc
      /\ Len(found) = Len(r.found) + 1
      /\ \A k \in 1..Len(r.found) : found[k] = r.found[k]
  BY <1>2, <1>6, NextMatch DEF found, LastFound
<1>8. RowsOf(more, 1)
  <2>1. Len(r.out) = Len(r.found) /\ \A k \in 1..Len(r.out) : InMatch(r.out[k], r.found[k])
    BY <1>1 DEF Ready, RowsOf
  <2> QED
    BY <1>1, <1>6, <1>7, <2>1 DEF RowsOf
<1>9. For(q, r) /\ LeadsTo(p, q, r) /\ Short(q, r) /\ Placed(r) /\ RowsMeant(p, full, r)
  BY DEF Toward, Orderly
<1>10. For(q, more) /\ LeadsTo(p, q, more) /\ Wanted(q) # 0
  BY <1>6, <1>9, OneMoreFound DEF found
<1>11. RowsMeant(p, full, more) /\ more.op # "FindAll"
  <2>1. \A k \in 1..Len(r.out) : more.found[k] = r.found[k]
    BY <1>1, <1>6, <1>7 DEF Ready, RowsOf
  <2> QED
    BY <1>6, <1>9, <2>1 DEF RowsMeant, Submatch
<1>12. CASE captures = 0
  <2>1. Whole(loc) \in Row /\ InMatch(Whole(loc), loc)
    BY <1>3, WholeRow
  <2>2. GroupsFound(p, r.s, loc) /\ Whole(loc) = RowMeant(p, r.s, loc)
        /\ Whole(loc) = RowOfAll(p, r.s, loc)
    BY <1>12, Zenon DEF GroupsFound, RowMeant, RowOfAll
  <2>3. Toward(p, q, full, Finished(more, Whole(loc)))
    BY <1>6, <1>7, <1>8, <1>10, <1>11, <2>1, <2>2, FinishedMeant
  <2>4. Finished(more, Whole(loc)).ph \in {"search", "done"}
    BY <1>6, <1>7, <1>8, <2>1, FinishedInv
  <2> QED
    BY <1>5, <1>12, <2>3, <2>4
<1>13. CASE captures # 0
  <2> DEFINE slots == NoSlots(captures)
  <2>1. /\ o.ph = "run" /\ o.at = 0 /\ o.st = Root /\ o.slots = slots
        /\ o.s = more.s /\ o.op = more.op /\ o.n = more.n
        /\ o.found = more.found /\ o.out = more.out
    <3> HIDE DEF slots
    <3>1. o = [more EXCEPT !.ph = "run", !.at = 0, !.st = Root, !.slots = slots]
      BY DEF slots
    <3> QED
      BY <1>6, <3>1 DEF CallType
  <2>2. Matched(p, r, loc) = o
    BY <1>5, <1>13
  <2>3. Running(p, o)
    <3>1. CallInv(p, Matched(p, r, loc))
      BY <1>2, MatchedInv
    <3> HIDE DEF o
    <3> QED
      BY <2>1, <2>2, <3>1 DEF CallInv
  <2> HIDE DEF o
  <2>4. Hits(o, LastFound(o))
    BY <2>3 DEF Running
  <2>5. For(q, o) /\ LeadsTo(p, q, o) /\ RowsMeant(p, full, o) /\ o.op # "FindAll"
    BY <1>10, <1>11, <2>1, SameWay
  <2>6. Toward(p, q, full, o)
    BY <2>1, <2>5 DEF Toward
  <2>7. ASSUME NEW d, d.asts[Root] = Program[p].root
        PROVE  RunMeant(p, d, o)
    BY <1>13, <2>1, <2>4, <2>7, RunBegins
  <2> QED
    BY <2>2, <2>6, <2>7
<1> QED
  BY <1>12, <1>13

----------------------------------------------------------------------------
(* All calls, step by step.                                                *)

\* Goroutine g, once it has asked: its call goes for the answer, and has it when it
\* has returned.
MeantOf(g) ==
  asked[g] # None =>
    /\ Toward(pat, asked[g], Crowded, call[g])
    /\ call[g].ph = "run" => RunMeant(pat, tdfa, call[g])
    /\ pc[g] = "idle" => call[g].ph = "done"

MeantInv == Means(pat) => \A g \in Caller : MeantOf(g)

LEMMA ShapeIsSome ==
  ASSUME NEW d, Shape(d)
  PROVE  d # None
<1>1. d \in LazyTDFA
  <2>1. /\ d = [asts |-> d.asts, rows |-> d.rows] /\ d.asts \in Seq(TagTree)
        /\ d.rows \in Seq([Letter -> TransitionType])
    BY DEF Shape
  <2> QED
    BY <2>1 DEF LazyTDFA, TransitionType
<1> QED
  BY <1>1, IterationAssumption

\* An automaton that is full stays full.
LEMMA CrowdedStays ==
  ASSUME Inv, [Next]_vars, Crowded
  PROVE  Crowded'
<1>1. CASE tdfa' = tdfa
  BY <1>1 DEF Crowded
<1>2. CASE tdfa' # tdfa
  <2>1. PICK g \in Caller : WriteSearch(g) \/ WriteRun(g)
    BY <1>2, Zenon DEF Next, Proceed, Call, ReturnAtOnce, Loop, RLock, Read, Miss, ReadTurn,
       Lock, Write, Unlock, vars
  <2>2. CASE WriteSearch(g)
    <3>1. tdfa' = tdfa \/ tdfa' = Tagged(pat)
      BY <2>2, Zenon DEF WriteSearch
    <3> QED
      BY <1>2, <3>1, TaggedBuilt DEF Crowded
  <2>3. CASE WriteRun(g)
    <3>1. Shape(tdfa') /\ Len(tdfa.asts) <= Len(tdfa'.asts) /\ Shape(tdfa)
      BY <2>3, WriteRunStep DEF Extends, Crowded, Inv, TaggedInv
    <3>2. tdfa' # None /\ Len(tdfa.asts) \in Nat /\ Len(tdfa'.asts) \in Nat
      BY <3>1, ShapeIsSome DEF Shape
    <3> QED
      BY <3>1, <3>2, TagTreeAssumption DEF Crowded
  <2> QED
    BY <2>1, <2>2, <2>3
<1> QED
  BY <1>1, <1>2

\* What a call may return when the automaton is not full it may also return when it is.
LEMMA TowardStill ==
  ASSUME NEW p, NEW q, NEW full \in BOOLEAN, NEW fuller \in BOOLEAN, full => fuller,
         NEW r, Toward(p, q, full, r)
  PROVE  Toward(p, q, fuller, r)
<1>1. RowsMeant(p, full, r) => RowsMeant(p, fuller, r)
  BY DEF RowsMeant
<1>2. Answered(p, q, full, r) => Answered(p, q, fuller, r)
  BY DEF Answered
<1> QED
  BY <1>1, <1>2, Zenon DEF Toward

LEMMA RunByteToward ==
  ASSUME NEW p, NEW q, NEW full, NEW d, NEW r \in CallType, r.ph = "run", Toward(p, q, full, r)
  PROVE  Toward(p, q, full, RunByte(p, d, r).r) /\ RunByte(p, d, r).r.ph = "run"
<1> DEFINE o == RunByte(p, d, r).r
<1>1. /\ o.ph = r.ph /\ o.s = r.s /\ o.op = r.op /\ o.n = r.n
      /\ o.found = r.found /\ o.out = r.out
  BY DEF RunByte, CallType
<1> HIDE DEF o
<1>2. For(q, o) /\ LeadsTo(p, q, o) /\ RowsMeant(p, full, o)
  BY <1>1, SameWay DEF Toward
<1> QED
  BY <1>1, <1>2 DEF Toward, o

LEMMA OnePattern == [Next]_vars => pat' = pat
BY Zenon DEF Next, Proceed, Call, ReturnAtOnce, Loop, RLock, Read, Miss, ReadTurn, Lock, Write,
   WriteSearch, WriteRun, Unlock, vars

\* Goroutine g is left with call r for request q.
LEMMA LeftWith ==
  ASSUME Inv, [Next]_vars, NEW g \in Caller, NEW q, asked'[g] = q, NEW r, call'[g] = r,
         Toward(pat, q, Crowded, r), r.ph = "run" => RunMeant(pat, tdfa', r),
         pc'[g] = "idle" => r.ph = "done"
  PROVE  MeantOf(g)'
<1>1. Crowded \in BOOLEAN /\ Crowded' \in BOOLEAN
  BY DEF Crowded
<1>2. Crowded => Crowded'
  BY CrowdedStays
<1> DEFINE full == Crowded
           fuller == Crowded'
<1>3. full \in BOOLEAN /\ fuller \in BOOLEAN /\ (full => fuller) /\ Toward(pat, q, full, r)
  BY <1>1, <1>2
<1> HIDE DEF full, fuller
<1>4. Toward(pat, q, fuller, r)
  BY <1>3, TowardStill
<1>5. Toward(pat, q, Crowded', r)
  BY <1>4 DEF fuller
<1>6. pat' = pat
  BY OnePattern
<1> QED
  BY <1>5, <1>6, Zenon DEF MeantOf

\* A step of another goroutine.
LEMMA OthersMeant ==
  ASSUME Inv, [Next]_vars, NEW g \in Caller, MeantOf(g), NEW h \in Caller, h # g,
         Proceed(h) \/ \E q \in Request : Call(h, q)
  PROVE  MeantOf(g)'
<1>1. /\ call' = call \/ \E r : call' = [call EXCEPT ![h] = r]
      /\ pc' = pc \/ \E to : pc' = [pc EXCEPT ![h] = to]
      /\ asked' = asked \/ \E q : asked' = [asked EXCEPT ![h] = q]
  BY Zenon DEF Proceed, Call, ReturnAtOnce, Loop, RLock, Read, Miss, ReadTurn, Lock, Write,
     WriteSearch, WriteRun, Unlock, RUnlock, Go, Do
<1>2. call'[g] = call[g] /\ pc'[g] = pc[g] /\ asked'[g] = asked[g]
  BY <1>1 DEF Inv, LockInv
<1>3. CASE asked[g] = None
  BY <1>2, <1>3 DEF MeantOf
<1>4. CASE asked[g] # None
  <2>1. /\ Toward(pat, asked[g], Crowded, call[g])
        /\ call[g].ph = "run" => RunMeant(pat, tdfa, call[g])
        /\ pc[g] = "idle" => call[g].ph = "done"
    BY <1>4 DEF MeantOf
  <2>2. ASSUME call[g].ph = "run"
        PROVE  tdfa' = tdfa
    <3>1. pc[g] = "writing"
      BY <2>1, <2>2 DEF Inv, CallerInv
    <3>2. pc[h] # "writing"
      BY <3>1 DEF Inv, LockInv
    <3> QED
      BY <3>2, Zenon DEF Proceed, Call, ReturnAtOnce, Loop, RLock, Read, Miss, ReadTurn, Lock,
         Write, WriteSearch, WriteRun, Unlock
  <2>3. call[g].ph = "run" => RunMeant(pat, tdfa', call[g])
    BY <2>1, <2>2
  <2> QED
    BY <1>2, <2>1, <2>3, LeftWith
<1> QED
  BY <1>3, <1>4

\* A step of the goroutine itself that leaves its call alone.
LEMMA SameCallMeant ==
  ASSUME Inv, [Next]_vars, NEW g \in Caller, MeantOf(g),
         ReturnAtOnce(g) \/ RLock(g) \/ Miss(g) \/ Unlock(g)
  PROVE  MeantOf(g)'
<1>1. /\ call' = call /\ asked' = asked /\ tdfa' = tdfa /\ pc[g] # "idle"
      /\ \/ call[g].ph = "done"
         \/ \E to \in {"reading", "lock"} : pc' = [pc EXCEPT ![g] = to]
  BY Zenon DEF ReturnAtOnce, RLock, Miss, Unlock, RUnlock, Go
<1>2. asked[g] # None
  BY <1>1, Mover, IterationAssumption
<1>3. pc'[g] = "idle" => call[g].ph = "done"
  BY <1>1 DEF Inv, LockInv
<1> QED
  BY <1>1, <1>2, <1>3, LeftWith DEF MeantOf

\* A call begins, or begins over.
LEMMA BeginMeant ==
  ASSUME Inv, [Next]_vars, Means(pat), NEW g \in Caller,
         NEW q \in Request, NEW way \in {"wrapper", "engine"},
         asked' = [asked EXCEPT ![g] = q], call' = [call EXCEPT ![g] = NewCall(q, way)],
         NEW to, to # "idle", pc' = [pc EXCEPT ![g] = to]
  PROVE  MeantOf(g)'
<1> DEFINE r == NewCall(q, way)
<1>1. asked'[g] = q /\ call'[g] = r /\ pc'[g] # "idle"
  BY DEF Inv, LockInv
<1>2. Crowded \in BOOLEAN /\ pat \in Pattern
  BY DEF Crowded, Inv
<1> DEFINE full == Crowded
<1> HIDE DEF full
<1>3. Toward(pat, q, full, r)
  BY <1>2, NewCallMeant DEF full
<1>4. r.ph # "run"
  BY NewCallInv
<1> HIDE DEF r
<1> QED
  BY <1>1, <1>3, <1>4, LeftWith DEF full

LEMMA CallMeant ==
  ASSUME Inv, [Next]_vars, Means(pat), NEW g \in Caller, NEW q \in Request, Call(g, q)
  PROVE  MeantOf(g)'
<1>1. q.way \in {"wrapper", "engine"}
  BY IterationAssumption
<1> DEFINE to == Entry(q)
<1>2. /\ asked' = [asked EXCEPT ![g] = q]
      /\ call' = [call EXCEPT ![g] = NewCall(q, q.way)]
      /\ pc' = [pc EXCEPT ![g] = to]
  BY Zenon DEF Call, Do, Go
<1>3. to # "idle"
  BY DEF Entry
<1> HIDE DEF to
<1> QED
  BY <1>1, <1>2, <1>3, BeginMeant

LEMMA LockMeant ==
  ASSUME Inv, [Next]_vars, Means(pat), NEW g \in Caller, Lock(g)
  PROVE  MeantOf(g)'
<1>1. /\ asked' = asked /\ call' = [call EXCEPT ![g] = NewCall(asked[g], "engine")]
      /\ pc' = [pc EXCEPT ![g] = "writing"] /\ pc[g] # "idle"
  BY Zenon DEF Lock, Do, Go
<1>2. asked[g] \in Request /\ asked = [asked EXCEPT ![g] = asked[g]]
  BY <1>1, Mover
<1> QED
  BY <1>1, <1>2, BeginMeant

\* What is known of a goroutine inside a method.
LEMMA Inside ==
  ASSUME Inv, OrderlyInv, NEW g \in Caller, MeantOf(g), pc[g] # "idle"
  PROVE  /\ asked[g] \in Request /\ pat \in Pattern /\ call[g] \in CallType
         /\ CallInv(pat, call[g]) /\ Orderly(pat, call[g])
         /\ Toward(pat, asked[g], Crowded, call[g])
         /\ call[g].ph = "run" => RunMeant(pat, tdfa, call[g])
         /\ call[g].ph = "search" => Ready(call[g])
<1>1. asked[g] \in Request /\ call[g] \in CallType /\ CallInv(pat, call[g])
  BY Mover
<1>2. asked[g] # None
  BY <1>1, IterationAssumption
<1> QED
  BY <1>1, <1>2 DEF MeantOf, Inv, OrderlyInv, CallInv

\* The goroutine moves on to call r.
LEMMA MovesTo ==
  ASSUME Inv, [Next]_vars, NEW g \in Caller, asked' = asked,
         NEW r, call' = [call EXCEPT ![g] = r], Toward(pat, asked[g], Crowded, r),
         r.ph = "run" => RunMeant(pat, tdfa', r), pc'[g] = "idle" => r.ph = "done"
  PROVE  MeantOf(g)'
<1>1. call'[g] = r
  BY DEF Inv
<1> DEFINE q == asked[g]
<1>2. asked'[g] = q /\ Toward(pat, q, Crowded, r)
  OBVIOUS
<1> HIDE DEF q
<1> QED
  BY <1>1, <1>2, LeftWith

LEMMA LoopMeant ==
  ASSUME Inv, OrderlyInv, [Next]_vars, Means(pat), NEW g \in Caller, MeantOf(g), Loop(g)
  PROVE  MeantOf(g)'
<1> DEFINE r == Turn(pat, call[g])
<1>1. /\ pc[g] = "loop" /\ call[g].ph = "search" /\ asked' = asked
      /\ call' = [call EXCEPT ![g] = r]
      /\ pc' = [pc EXCEPT ![g] = IF r.ph = "done" THEN "idle" ELSE "loop"]
  BY Zenon DEF Loop, Do, Go
<1>2. call[g].op \in Looping
  BY <1>1 DEF Inv, CallerInv
<1> DEFINE c == call[g]
           q == asked[g]
           full == Crowded
<1>3. /\ q \in Request /\ pat \in Pattern /\ full \in BOOLEAN
      /\ Ready(c) /\ c.ph = "search" /\ c.op \in Looping /\ Orderly(pat, c)
      /\ Toward(pat, q, full, c)
  BY <1>1, <1>2, Inside DEF Crowded
<1>4. r = Turn(pat, c)
  OBVIOUS
<1> HIDE DEF r, c, q, full
<1>5. Toward(pat, q, full, r) /\ r.ph \in {"search", "done"}
  BY <1>3, <1>4, TurnMeant, TurnInv
<1>6. pc'[g] = "idle" => r.ph = "done"
  BY <1>1, <1>5 DEF Inv, LockInv
<1> QED
  BY <1>1, <1>5, <1>6, MovesTo DEF q, full

LEMMA ReadTurnMeant ==
  ASSUME Inv, OrderlyInv, [Next]_vars, Means(pat), NEW g \in Caller, MeantOf(g), ReadTurn(g)
  PROVE  MeantOf(g)'
<1> DEFINE r == CachedTurn(pat, call[g])
           loc == FindInSuffix(pat, call[g])
           c == call[g]
           q == asked[g]
           full == Crowded
<1>1. /\ pc[g] = "reading" /\ asked' = asked
      /\ call' = [call EXCEPT ![g] = r] /\ r.ph # "run"
      /\ r.ph = "done" \/ pc' = pc
  <2>1. /\ pc[g] = "reading" /\ UNCHANGED <<pat, tdfa, asked>>
        /\ \E x \in {r} : /\ x.ph # "run"
                          /\ Do(g, x)
                          /\ IF x.ph = "done" THEN RUnlock(g, "idle") ELSE UNCHANGED <<lock, pc>>
    BY Zenon DEF ReadTurn, Hit
  <2> HIDE DEF r
  <2>2. /\ r.ph # "run" /\ Do(g, r)
        /\ IF r.ph = "done" THEN RUnlock(g, "idle") ELSE UNCHANGED <<lock, pc>>
    BY <2>1
  <2> QED
    BY <2>1, <2>2 DEF Do
<1>2. call[g].op \in Submatch /\ call[g].ph # "run"
  BY <1>1 DEF Inv, CallerInv
<1>3. /\ q \in Request /\ pat \in Pattern /\ full \in BOOLEAN
      /\ c.ph = "search" => Ready(c)
      /\ c.op \in Submatch /\ Orderly(pat, c) /\ Toward(pat, q, full, c)
      /\ c.ph \in {"search", "done"}
  BY <1>1, <1>2, Inside, CallFields DEF Crowded
<1>4. r = IF c.ph = "done" THEN c
          ELSE IF loc = Nil THEN LastSearch(c) ELSE Matched(pat, c, loc)
  BY DEF CachedTurn
<1>5. loc \in {Find[pat][c.s][c.pos], FindInSuffix(pat, c)}
  OBVIOUS
<1> HIDE DEF r, c, q, full, loc
<1>6. Toward(pat, q, full, r)
  <2>1. CASE c.ph = "done"
    BY <1>3, <1>4, <2>1
  <2>2. CASE c.ph # "done" /\ loc = Nil
    BY <1>3, <1>4, <1>5, <2>2, LastSearchMeant
  <2>3. CASE c.ph # "done" /\ loc # Nil
    BY <1>3, <1>4, <1>5, <2>3, MatchedMeant
  <2> QED
    BY <2>1, <2>2, <2>3
<1>7. pc'[g] = "idle" => r.ph = "done"
  BY <1>1
<1> QED
  BY <1>1, <1>6, <1>7, MovesTo DEF q, full

LEMMA WriteSearchMeant ==
  ASSUME Inv, OrderlyInv, [Next]_vars, Means(pat), NEW g \in Caller, MeantOf(g),
         WriteSearch(g)
  PROVE  MeantOf(g)'
<1> DEFINE c == call[g]
           q == asked[g]
           full == Crowded
           loc == Find[pat][c.s][c.pos]
           r == IF c.op \in Looping THEN Turn(pat, c) ELSE SubmatchTurn(pat, c)
           d == IF r.ph = "run" THEN Tagged(pat) ELSE tdfa
<1>1. /\ pc[g] = "writing" /\ c.ph = "search" /\ asked' = asked /\ pc' = pc
      /\ call' = [call EXCEPT ![g] = r] /\ tdfa' = d
  BY Zenon DEF WriteSearch, Do
<1>2. /\ q \in Request /\ pat \in Pattern /\ full \in BOOLEAN
      /\ Ready(c) /\ c.ph = "search" /\ Orderly(pat, c) /\ Toward(pat, q, full, c)
      /\ c.op \in Looping \cup Submatch
  BY <1>1, Inside, CallFields DEF Crowded
<1>3. Tagged(pat).asts[Root] = Program[pat].root
  BY TaggedBuilt DEF Means, Seeks, Exact
<1>4. r.ph = "run" => tdfa' = Tagged(pat)
  BY <1>1
<1>5. c.op \notin Looping => r = IF loc = Nil THEN LastSearch(c) ELSE Matched(pat, c, loc)
  BY DEF SubmatchTurn
<1>6. c.op \in Looping => r = Turn(pat, c)
  OBVIOUS
<1>7. loc \in {Find[pat][c.s][c.pos], FindInSuffix(pat, c)}
  OBVIOUS
<1> HIDE DEF r, c, q, full, loc, d
<1>8. /\ Toward(pat, q, full, r)
      /\ r.ph = "run" => \A e : e.asts[Root] = Program[pat].root => RunMeant(pat, e, r)
  <2>1. CASE c.op \in Looping
    BY <1>2, <1>6, <2>1, TurnMeant, TurnInv
  <2>2. CASE c.op \notin Looping /\ loc = Nil
    <3>1. LastSearch(c).ph = "done"
      BY <1>2, LastSearchInv
    <3> QED
      BY <1>2, <1>5, <1>7, <2>2, <3>1, LastSearchMeant
  <2>3. CASE c.op \notin Looping /\ loc # Nil
    BY <1>2, <1>5, <1>7, <2>3, MatchedMeant
  <2> QED
    BY <2>1, <2>2, <2>3
<1>9. r.ph = "run" => RunMeant(pat, tdfa', r)
  BY <1>3, <1>4, <1>8
<1>10. pc'[g] # "idle"
  BY <1>1
<1> QED
  BY <1>1, <1>8, <1>9, <1>10, MovesTo DEF q, full

LEMMA WriteRunMeant ==
  ASSUME Inv, OrderlyInv, [Next]_vars, Means(pat), NEW g \in Caller, MeantOf(g), WriteRun(g)
  PROVE  MeantOf(g)'
<1> DEFINE c == call[g]
           q == asked[g]
           full == Crowded
           byte == RunByte(pat, tdfa, c)
           end == RunEnd(tdfa, c)
           next == IF c.at < Len(Span(c)) THEN byte ELSE end
           r == next.r
<1>1. /\ pc[g] = "writing" /\ c.ph = "run" /\ asked' = asked /\ pc' = pc
      /\ call' = [call EXCEPT ![g] = r] /\ tdfa' = next.dfa
  BY Zenon DEF WriteRun, Do
<1>2. /\ q \in Request /\ pat \in Pattern /\ full \in BOOLEAN /\ c \in CallType
      /\ CallInv(pat, c) /\ c.ph = "run" /\ Toward(pat, q, full, c) /\ RunMeant(pat, tdfa, c)
  BY <1>1, Inside DEF Crowded
<1>3. Running(pat, c) /\ Shape(tdfa) /\ Exact(pat, tdfa) /\ c.st \in 1..Len(tdfa.asts)
  BY <1>1, <1>2 DEF CallInv, Inv, CallerInv, TaggedInv, Means, Seeks
<1>4. Full(tdfa) => full
  BY <1>3, ShapeIsSome DEF Full, Crowded
<1>5. pc'[g] # "idle"
  BY <1>1
<1>6. CASE c.at < Len(Span(c))
  <2>1. r = byte.r /\ tdfa' = byte.dfa
    BY <1>1, <1>6
  <2> HIDE DEF r, c, q, full
  <2>2. Toward(pat, q, full, r) /\ RunMeant(pat, tdfa', r)
    BY <1>2, <1>3, <1>6, <2>1, RunByteToward, RunByteMeant
  <2> QED
    BY <1>1, <1>5, <2>2, MovesTo DEF q, full
<1>7. CASE ~(c.at < Len(Span(c)))
  <2>1. r = end.r
    BY <1>7
  <2> HIDE DEF r, c, q, full
  <2>2. Toward(pat, q, full, r)
    BY <1>2, <1>3, <1>4, <1>7, <2>1, RunEndMeant
  <2>3. r.ph # "run"
    BY <1>2, <1>3, <2>1, RunEndInv
  <2> QED
    BY <1>1, <1>5, <2>2, <2>3, MovesTo DEF q, full
<1> QED
  BY <1>6, <1>7

LEMMA MeantStep == Inv /\ OrderlyInv /\ MeantInv /\ [Next]_vars => MeantInv'
<1> SUFFICES ASSUME Inv, OrderlyInv, MeantInv, [Next]_vars, Means(pat)'
             PROVE  \A g \in Caller : MeantOf(g)'
  BY DEF MeantInv
<1>1. pat' = pat
  BY OnePattern
<1>2. Means(pat)
  BY <1>1 DEF Means, Seeks, FindsFirst, AnswersAsMeant
<1> SUFFICES ASSUME NEW g \in Caller
             PROVE  MeantOf(g)'
  OBVIOUS
<1>3. MeantOf(g)
  BY <1>2 DEF MeantInv
<1>4. CASE UNCHANGED vars
  BY <1>3, <1>4 DEF MeantOf, vars, Crowded
<1>5. CASE Next
  <2>1. PICK h \in Caller : Proceed(h) \/ \E q \in Request : Call(h, q)
    BY <1>5, Zenon DEF Next
  <2>2. CASE h # g
    BY <1>3, <2>1, <2>2, OthersMeant
  <2>3. CASE h = g /\ \E q \in Request : Call(g, q)
    BY <1>2, <2>3, CallMeant
  <2>4. CASE h = g /\ Proceed(g)
    <3>1. CASE ReturnAtOnce(g) \/ RLock(g) \/ Miss(g) \/ Unlock(g)
      BY <1>3, <3>1, SameCallMeant
    <3>2. CASE Loop(g)
      BY <1>2, <1>3, <3>2, LoopMeant
    <3>3. CASE ReadTurn(g)
      BY <1>2, <1>3, <3>3, ReadTurnMeant
    <3>4. CASE Lock(g)
      BY <1>2, <3>4, LockMeant
    <3>5. CASE WriteSearch(g)
      BY <1>2, <1>3, <3>5, WriteSearchMeant
    <3>6. CASE WriteRun(g)
      BY <1>2, <1>3, <3>6, WriteRunMeant
    <3> QED
      BY <2>4, <3>1, <3>2, <3>3, <3>4, <3>5, <3>6, Zenon DEF Proceed, Read, Write
  <2> QED
    BY <2>1, <2>2, <2>3, <2>4
<1> QED
  BY <1>4, <1>5

LEMMA MeantAlways == Spec => [](Inv /\ OrderlyInv /\ MeantInv)
<1>1. Init => MeantInv
  BY DEF Init, MeantInv, MeantOf
<1> QED
  BY <1>1, OrderlyAlways, MeantStep, PTL DEF Spec

----------------------------------------------------------------------------
(* The goroutines see one expression that answers at once.                 *)

\* What has to hold of an expression's answers and of its search: the answers are
\* those meant, and without assertions the search finds the first match.
Faithful(p) == AnswersAsMeant(p) /\ (~Program[p].hasAssertions => FindsFirst(p))

\* What the caller of q is told when its call r returns.
ToldAs(p, q, r) ==
  IF Program[p].hasAssertions THEN Answer[p][q] ELSE <<r.found, r.out>>

\* It is an answer of the expression, or one that a full automaton may give.
LEMMA ToldAnswer ==
  ASSUME NEW p \in Pattern, NEW q \in Request, Faithful(p), NEW full \in BOOLEAN, NEW r,
         Means(p) => Answered(p, q, full, r)
  PROVE  /\ ToldAs(p, q, r) \in {Answer[p][q]}
                                  \cup (IF full THEN PoorerThan(Answer[p][q], q) ELSE {})
         /\ ToldAs(p, q, r) # None
<1>1. ToldAs(p, q, r) \in {Answer[p][q]} \cup (IF full THEN PoorerThan(Answer[p][q], q) ELSE {})
  <2>1. CASE Program[p].hasAssertions
    BY <2>1 DEF ToldAs
  <2>2. CASE ~Program[p].hasAssertions
    <3>1. Means(p)
      BY <2>2 DEF Means, Seeks, Faithful
    <3> QED
      BY <2>2, <3>1 DEF ToldAs, Answered
  <2> QED
    BY <2>1, <2>2
<1>2. None \notin {Answer[p][q]} \cup PoorerThan(Answer[p][q], q)
  BY DEF Faithful, AnswersAsMeant
<1> QED
  BY <1>1, <1>2

\* What a goroutine that has returned is told.
LEMMA ToldIs ==
  ASSUME NEW g \in Caller
  PROVE  /\ pc[g] # "idle" => Told(g) = None
         /\ pc[g] = "idle" /\ asked[g] # None => Told(g) = ToldAs(pat, asked[g], call[g])
BY DEF Told, ToldAs

\* A goroutine that has asked and is outside of its method has been told.
LEMMA ToldAlready ==
  ASSUME Inv, MeantInv, Faithful(pat), NEW g \in Caller, pc[g] = "idle", asked[g] # None
  PROVE  Told(g) # None
<1> DEFINE q == asked[g]
           r == call[g]
           full == Crowded
<1>1. q \in Request /\ pat \in Pattern /\ full \in BOOLEAN
  BY DEF Inv, LockInv, Crowded
<1>2. Means(pat) => Answered(pat, q, full, r)
  BY DEF MeantInv, MeantOf, Toward
<1>3. Told(g) = ToldAs(pat, q, r)
  BY ToldIs
<1> HIDE DEF q, r, full
<1> QED
  BY <1>1, <1>2, <1>3, ToldAnswer

LEMMA LoopsOthersKeep ==
  ASSUME pat' = pat, NEW h, pc'[h] = pc[h], asked'[h] = asked[h], call'[h] = call[h]
  PROVE  Told(h)' = Told(h)
BY DEF Told

LEMMA LoopsSilent ==
  ASSUME \A h \in Caller : Told(h)' = Told(h), asked' = asked, pat' = pat,
         Crowded' <=> Crowded
  PROVE  UNCHANGED R!vars
<1>1. [h \in Caller |-> Told(h)]' = [h \in Caller |-> Told(h)]
  OBVIOUS
<1>2. Crowded' = Crowded
  BY DEF Crowded
<1> QED
  BY <1>1, <1>2, Zenon DEF R!vars

LEMMA LoopsToldInit == Init => R!Init
<1> SUFFICES ASSUME Init
             PROVE  R!Init
  OBVIOUS
<1>1. \A g \in Caller : Told(g) = None
  BY DEF Init, Told
<1> QED
  BY <1>1 DEF Init, R!Init, Crowded

LEMMA CallRefines ==
  ASSUME Inv, MeantInv, Faithful(pat), NEW g \in Caller, NEW q \in Request, Call(g, q)
  PROVE  R!Ask(g, q)
<1> DEFINE to == Entry(q)
           r == NewCall(q, q.way)
<1>1. /\ pc[g] = "idle" /\ pat' = pat /\ tdfa' = tdfa
      /\ asked' = [asked EXCEPT ![g] = q]
      /\ call' = [call EXCEPT ![g] = r]
      /\ pc' = [pc EXCEPT ![g] = to]
  BY Zenon DEF Call, Do, Go
<1>2. to # "idle"
  BY DEF Entry
<1>3. DOMAIN pc = Caller /\ DOMAIN call = Caller /\ DOMAIN asked = Caller
  BY DEF Inv, LockInv
<1> HIDE DEF to, r
<1>4. asked[g] = None \/ Told(g) # None
  BY <1>1, ToldAlready
<1>5. Told(g)' = None
  BY <1>1, <1>2, <1>3 DEF Told
<1>6. ASSUME NEW h \in Caller, h # g
      PROVE  Told(h)' = Told(h)
  BY <1>1, <1>3, <1>6, LoopsOthersKeep
<1>7. [h \in Caller |-> Told(h)]' = [[h \in Caller |-> Told(h)] EXCEPT ![g] = None]
  BY <1>5, <1>6
<1>8. Crowded' = Crowded
  BY <1>1 DEF Crowded
<1> QED
  BY <1>1, <1>4, <1>7, <1>8 DEF R!Ask

\* A goroutine that returns is told its answer in this step.
LEMMA ReturnRefines ==
  ASSUME Inv, Inv', MeantInv', Faithful(pat), NEW g \in Caller, pc[g] # "idle",
         pat' = pat, tdfa' = tdfa, asked' = asked, pc' = [pc EXCEPT ![g] = "idle"],
         \A h \in Caller : h # g => call'[h] = call[h]
  PROVE  R!Tell(g)
<1> DEFINE q == asked[g]
           r == call'[g]
           full == Crowded
           a == ToldAs(pat, q, r)
           answer == Answer
           poorer == [p \in Pattern |-> [k \in Request |-> PoorerThan(Answer[p][k], k)]]
<1>1. q \in Request /\ pat \in Pattern /\ full \in BOOLEAN /\ DOMAIN pc = Caller
  BY Mover DEF Inv, LockInv, Crowded
<1>2. q # None
  BY <1>1, IterationAssumption
<1>3. Crowded' = full
  BY DEF Crowded
<1>4. Means(pat) => Answered(pat, q, full, r)
  <2> SUFFICES ASSUME Means(pat)
               PROVE  Answered(pat, q, full, r)
    OBVIOUS
  <2>1. Means(pat)'
    BY DEF Means, Seeks, FindsFirst, AnswersAsMeant
  <2>2. MeantOf(g)'
    BY <2>1 DEF MeantInv
  <2>3. pc'[g] = "idle" /\ asked'[g] = q
    BY <1>1
  <2>4. Toward(pat', asked'[g], Crowded', call'[g]) /\ call'[g].ph = "done"
    BY <1>2, <2>2, <2>3 DEF MeantOf
  <2>5. Toward(pat, q, full, r) /\ r.ph = "done"
    BY <1>3, <2>3, <2>4
  <2> HIDE DEF q, r, full
  <2> QED
    BY <2>5 DEF Toward
<1>5. Told(g) = None
  BY ToldIs
<1>6. Told(g)' = a
  <2>1. pc'[g] = "idle"
    BY <1>1
  <2> QED
    BY <1>2, <2>1 DEF Told, ToldAs
<1>7. ASSUME NEW h \in Caller, h # g
      PROVE  Told(h)' = Told(h)
  BY <1>1, <1>7, LoopsOthersKeep
<1>8. [h \in Caller |-> Told(h)]' = [[h \in Caller |-> Told(h)] EXCEPT ![g] = a]
  BY <1>6, <1>7
<1>9. poorer[pat][q] = PoorerThan(Answer[pat][q], q)
  BY <1>1
<1>10. a \in {Answer[pat][q]} \cup (IF full THEN PoorerThan(Answer[pat][q], q) ELSE {})
  <2> HIDE DEF q, r, full
  <2> QED
    BY <1>1, <1>4, ToldAnswer
<1> HIDE DEF a, poorer
<1>11. a \in {Answer[pat][q]} \cup (IF Crowded THEN poorer[pat][q] ELSE {})
  BY <1>9, <1>10
<1> QED
  BY <1>2, <1>3, <1>5, <1>8, <1>11 DEF R!Tell, poorer

\* Inside its method a goroutine is told nothing, but may fill the automaton.
LEMMA InsideRefines ==
  ASSUME Inv, [Next]_vars, NEW g \in Caller, pc[g] # "idle", pc'[g] # "idle",
         pat' = pat, asked' = asked,
         \A h \in Caller : h # g => pc'[h] = pc[h] /\ call'[h] = call[h]
  PROVE  R!Next \/ UNCHANGED R!vars
<1>1. Told(g) = None /\ Told(g)' = None
  BY DEF Told
<1>2. \A h \in Caller : Told(h)' = Told(h)
  BY <1>1, LoopsOthersKeep
<1>3. Crowded => Crowded'
  BY CrowdedStays
<1>4. CASE Crowded' <=> Crowded
  BY <1>2, <1>4, LoopsSilent
<1>5. CASE ~Crowded /\ Crowded'
  <2>1. [h \in Caller |-> Told(h)]' = [h \in Caller |-> Told(h)]
    BY <1>2
  <2>2. Crowded' = TRUE
    BY <1>5 DEF Crowded
  <2>3. R!Fill
    BY <1>5, <2>1, <2>2 DEF R!Fill
  <2> QED
    BY <2>3 DEF R!Next
<1> QED
  BY <1>3, <1>4, <1>5

\* A step inside a method, seen from outside: one goroutine goes on, or returns.
LEMMA GoneOn ==
  ASSUME Inv, [Next]_vars, Inv', MeantInv', Faithful(pat), NEW g \in Caller, pc[g] # "idle",
         pat' = pat, asked' = asked,
         NEW to, pc' = [pc EXCEPT ![g] = to], to = "idle" => tdfa' = tdfa,
         NEW r, call' = [call EXCEPT ![g] = r]
  PROVE  R!Next \/ UNCHANGED R!vars
<1>1. DOMAIN pc = Caller /\ DOMAIN call = Caller
  BY DEF Inv, LockInv
<1>2. \A h \in Caller : h # g => pc'[h] = pc[h] /\ call'[h] = call[h]
  BY <1>1
<1>3. CASE to = "idle"
  <2>1. R!Tell(g)
    BY <1>2, <1>3, ReturnRefines
  <2> QED
    BY <2>1 DEF R!Next
<1>4. CASE to # "idle"
  <2>1. pc'[g] # "idle"
    BY <1>1, <1>4
  <2> QED
    BY <1>2, <2>1, InsideRefines
<1> QED
  BY <1>3, <1>4

LEMMA ProceedRefines ==
  ASSUME Inv, [Next]_vars, Inv', MeantInv', Faithful(pat), NEW g \in Caller, Proceed(g)
  PROVE  R!Next \/ UNCHANGED R!vars
<1>1. pat' = pat
  BY OnePattern
<1>2. ASSUME pc[g] # "idle"
      PROVE  call = [call EXCEPT ![g] = call[g]] /\ pc = [pc EXCEPT ![g] = pc[g]]
  BY <1>2, Mover
<1>3. CASE ReturnAtOnce(g)
  <2>1. /\ pc[g] # "idle" /\ tdfa' = tdfa /\ asked' = asked /\ call' = call
        /\ pc' = [pc EXCEPT ![g] = "idle"]
    BY <1>3, Zenon DEF ReturnAtOnce, Go
  <2> QED
    BY <1>1, <1>2, <2>1, GoneOn
<1>4. CASE RLock(g) \/ Miss(g)
  <2>1. /\ pc[g] # "idle" /\ tdfa' = tdfa /\ asked' = asked /\ call' = call
        /\ pc' = [pc EXCEPT ![g] = "reading"] \/ pc' = [pc EXCEPT ![g] = "lock"]
    BY <1>4, Zenon DEF RLock, Miss, RUnlock, Go
  <2> QED
    BY <1>1, <1>2, <2>1, GoneOn
<1>5. CASE Unlock(g)
  <2>1. /\ pc[g] # "idle" /\ tdfa' = tdfa /\ asked' = asked /\ call' = call
        /\ pc' = [pc EXCEPT ![g] = "idle"]
    BY <1>5, Zenon DEF Unlock, Go
  <2> QED
    BY <1>1, <1>2, <2>1, GoneOn
<1>6. CASE Lock(g)
  <2> DEFINE r == NewCall(asked[g], "engine")
  <2>1. /\ pc[g] # "idle" /\ tdfa' = tdfa /\ asked' = asked
        /\ call' = [call EXCEPT ![g] = r] /\ pc' = [pc EXCEPT ![g] = "writing"]
    BY <1>6, Zenon DEF Lock, Do, Go
  <2> HIDE DEF r
  <2> QED
    BY <1>1, <2>1, GoneOn
<1>7. CASE Loop(g)
  <2> DEFINE r  == Turn(pat, call[g])
             to == IF r.ph = "done" THEN "idle" ELSE "loop"
  <2>1. /\ pc[g] # "idle" /\ tdfa' = tdfa /\ asked' = asked
        /\ call' = [call EXCEPT ![g] = r] /\ pc' = [pc EXCEPT ![g] = to]
    BY <1>7, Zenon DEF Loop, Do, Go
  <2> HIDE DEF r, to
  <2> QED
    BY <1>1, <2>1, GoneOn
<1>8. CASE ReadTurn(g)
  <2> DEFINE r == CachedTurn(pat, call[g])
  <2>1. /\ pc[g] # "idle" /\ tdfa' = tdfa /\ asked' = asked
        /\ \E x \in {r} : /\ Do(g, x)
                          /\ IF x.ph = "done" THEN RUnlock(g, "idle")
                             ELSE UNCHANGED <<lock, pc>>
    BY <1>8, Zenon DEF ReadTurn, Hit
  <2> HIDE DEF r
  <2>2. /\ call' = [call EXCEPT ![g] = r]
        /\ pc' = [pc EXCEPT ![g] = "idle"] \/ pc' = pc
    BY <2>1 DEF Do, RUnlock, Go
  <2> QED
    BY <1>1, <1>2, <2>1, <2>2, GoneOn
<1>9. CASE WriteSearch(g) \/ WriteRun(g)
  <2>1. /\ pc[g] # "idle" /\ asked' = asked /\ pc' = pc
        /\ \E r : call' = [call EXCEPT ![g] = r]
    BY <1>9, Zenon DEF WriteSearch, WriteRun, Do
  <2>2. PICK r : call' = [call EXCEPT ![g] = r]
    BY <2>1
  <2> QED
    BY <1>1, <1>2, <2>1, <2>2, GoneOn
<1> QED
  BY <1>3, <1>4, <1>5, <1>6, <1>7, <1>8, <1>9, Zenon DEF Proceed, Read, Write

\* The goroutines see one expression that answers at once and always the same, by
\* the matches of the expression alone: ReplaceAll as ReplaceAllString, the wrapper
\* as the engine, whatever has been asked before and whoever asks at the same time;
\* only the groups of a match may be missing, once the tagged automaton is full.
\* (With assertions nothing is said of the answers, as in the run.)
THEOREM LoopsRefine == Spec /\ Faithful(pat) => Implements
<1>1. Faithful(pat) /\ Inv /\ MeantInv /\ [Next]_vars /\ Inv' /\ MeantInv' => [R!Next]_R!vars
  <2> SUFFICES ASSUME Faithful(pat), Inv, MeantInv, [Next]_vars, Inv', MeantInv'
               PROVE  R!Next \/ UNCHANGED R!vars
    OBVIOUS
  <2>1. CASE Next
    <3>1. PICK g \in Caller : Proceed(g) \/ \E q \in Request : Call(g, q)
      BY <2>1, Zenon DEF Next
    <3>2. CASE Proceed(g)
      BY <3>2, ProceedRefines
    <3>3. CASE \E q \in Request : Call(g, q)
      <4>1. \E q \in Request : R!Ask(g, q)
        BY <3>3, CallRefines
      <4> QED
        BY <4>1 DEF R!Next
    <3> QED
      BY <3>1, <3>2, <3>3
  <2>2. CASE UNCHANGED vars
    <3>1. pat' = pat /\ tdfa' = tdfa /\ pc' = pc /\ asked' = asked /\ call' = call
      BY <2>2 DEF vars
    <3>2. \A h \in Caller : Told(h)' = Told(h)
      BY <3>1, LoopsOthersKeep
    <3>3. Crowded' <=> Crowded
      BY <3>1 DEF Crowded
    <3> QED
      BY <3>1, <3>2, <3>3, LoopsSilent
  <2> QED
    BY <2>1, <2>2
<1>2. Faithful(pat) /\ [Next]_vars => Faithful(pat)'
  <2> SUFFICES ASSUME Faithful(pat), [Next]_vars
               PROVE  Faithful(pat)'
    OBVIOUS
  <2>1. pat' = pat
    BY OnePattern
  <2> QED
    BY <2>1 DEF Faithful, FindsFirst, AnswersAsMeant
<1> QED
  BY <1>1, <1>2, LoopsToldInit, MeantAlways, PTL DEF Spec, Implements, R!Spec

=============================================================================
