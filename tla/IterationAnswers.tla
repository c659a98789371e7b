-------------------------- MODULE IterationAnswers --------------------------
(***************************************************************************)
(* What the calls of Iteration.tla mean to return, from the matches of an  *)
(* expression alone: no loop, no lock, no cached transition.               *)
(***************************************************************************)
EXTENDS TaggedTrees, Language

\* Of the matches from pos on the first to end, of these the leftmost, from
\* there the longest.
FirstMatch(spans, pos) ==
  LET from   == {x \in spans : x[1] >= pos}
      first  == {x \in from : \A y \in from : x[2] <= y[2]}
      starts == {x[1] : x \in first}
  IN  IF from = {} THEN <<>>
      ELSE <<Min(starts), Max({x[2] : x \in {y \in from : y[1] = Min(starts)}})>>

\* Where the text goes on after a match: behind it, behind the rune after an
\* empty one.
Behind(s, loc) ==
  IF loc[1] < loc[2] THEN loc[2]
  ELSE IF loc[2] = Len(s) THEN loc[2] + 1 ELSE loc[2] + DecodeRune(s, loc[2]).size

\* The successive matches from pos on, n of them, or all if n < 0.
RECURSIVE Successives(_, _, _, _)
Successives(spans, s, pos, n) ==
  LET loc == FirstMatch(spans, pos)
  IN  IF n = 0 \/ pos > Len(s) \/ loc = <<>> THEN <<>>
      ELSE <<loc>> \o Successives(spans, s, Behind(s, loc), n - 1)

\* The text between the matches, up to the last one.
Gaps(s, found) ==
  [k \in DOMAIN found |-> <<IF k = 1 THEN 0 ELSE Behind(s, found[k - 1]), found[k][1]>>]

\* What is left once no match is found from pos on.
Rest(s, pos) == IF pos > Len(s) THEN <<>> ELSE <<<<pos, Len(s)>>>>

AllPieces(s, found) ==
  Gaps(s, found) \o Rest(s, IF found = <<>> THEN 0 ELSE Behind(s, found[Len(found)]))

SplitPieces(s, found, n) ==
  IF n = 0 THEN <<>>
  ELSE IF n > 0 /\ Len(found) = n - 1
  THEN Gaps(s, found) \o <<<<IF found = <<>> THEN 0 ELSE found[Len(found)][2], Len(s)>>>>
  ELSE AllPieces(s, found)

\* The groups of a span, by the first way of reading each byte: slot i is a pair
\* of offsets.  Nil if the span is not read to its end this way.
RECURSIVE GroupsFrom(_, _, _, _)
GroupsFrom(t, span, at, slots) ==
  LET ctx  == MakeMatchContext(span, at)
      ways == StepTDFA(t, span[at + 1], ctx)
      tags == {ways[1].tags[i] : i \in DOMAIN ways[1].tags}
      set(i) == <<IF [id |-> i, isStart |-> TRUE] \in tags THEN at ELSE slots[i][1],
                  IF [id |-> i, isStart |-> FALSE] \in tags THEN at + 1 ELSE slots[i][2]>>
  IN  IF at = Len(span) THEN IF Nullable(t, ctx) THEN slots ELSE <<>>
      ELSE IF ways = <<>> THEN <<>>
      ELSE GroupsFrom(ways[1].next, span, at + 1, [i \in DOMAIN slots |-> set(i)])

\* The row of a match: its offsets and those of its groups.
RowOf(e, s, loc) ==
  LET captures == CountCaptureGroups(e)
      slots == GroupsFrom(InjectCaptureTags(e), SubSeq(s, loc[1] + 1, loc[2]), 0,
                          [i \in 1..captures |-> <<-1, -1>>])
      moved(i) == IF i = 0 THEN loc
                  ELSE IF slots[i][1] < 0 THEN slots[i]
                  ELSE <<slots[i][1] + loc[1], slots[i][2] + loc[1]>>
  IN  IF captures > 0 /\ slots = <<>> THEN <<>> ELSE [i \in 0..captures |-> moved(i)]

\* A match of which the groups are not found counts for nothing where one match
\* is asked for, and stands alone among all matches.
RowOrMatch(e, s, loc) ==
  IF RowOf(e, s, loc) = <<>> THEN [i \in {0} |-> loc] ELSE RowOf(e, s, loc)

MeansToReturn(e, spans, q) ==
  LET all == Successives(spans, q.s, 0, q.n)
      one == Successives(spans, q.s, 0, 1)
      cut == IF q.n = 0 THEN <<>> ELSE Successives(spans, q.s, 0, q.n - 1)
  IN  CASE q.op = "FindAll" -> <<all, <<>>>>
        [] q.op = "Split"   -> <<cut, SplitPieces(q.s, cut, q.n)>>
        [] q.op \in {"ReplaceAll", "ReplaceAllString"} ->
             LET found == Successives(spans, q.s, 0, -1) IN <<found, AllPieces(q.s, found)>>
        [] q.op = "FindAllSubmatch" ->
             <<all, [k \in DOMAIN all |-> RowOrMatch(e, q.s, all[k])]>>
        [] q.op = "FindSubmatch" ->
             <<one, IF one = <<>> \/ RowOf(e, q.s, one[1]) = <<>> THEN <<>>
                    ELSE <<RowOf(e, q.s, one[1])>>>>

=============================================================================
