-------------------------- MODULE IterationMeaning --------------------------
(***************************************************************************)
(* What a call of Iteration.tla means to return, stated of an answer that  *)
(* is given: which matches it names, and which pieces or rows belong to    *)
(* them.  No loop, no lock, no automaton.  IterationAnswers.tla computes   *)
(* the answers of the model-checked expressions; here is what the proofs   *)
(* of LoopProofs.tla need to know of the answers of any.                   *)
(***************************************************************************)
EXTENDS Iteration

\* How many matches a call is after, if there are as many; below 0, all of them.
Wanted(q) ==
  CASE q.op = "FindSubmatch"                      -> 1
    [] q.op \in {"ReplaceAll", "ReplaceAllString"} -> -1
    [] q.op = "Split" /\ q.n > 0                  -> q.n - 1
    [] OTHER                                      -> q.n

\* The matches still to come after the first k of r.
Ahead(p, r, k) == {x \in Spans[p][r.s] : x[1] >= After(r, k)}

\* The successive matches of a text, as many as are wanted.
Successors(p, q, found) ==
  LET r == [s |-> q.s, found |-> found]
  IN  /\ found \in Seq(Location(q.s, 0))
      /\ \A k \in DOMAIN found : Earliest(Ahead(p, r, k - 1), found[k])
      /\ Wanted(q) >= 0 => Len(found) <= Wanted(q)
      /\ Len(found) # Wanted(q) => Ahead(p, r, Len(found)) = {}

\* The text between the matches and what is left behind the last one.  Split, once
\* it has all it may, keeps also the rune that an empty match is followed by.
PiecesMeant(q, found) ==
  LET r    == [s |-> q.s, found |-> found]
      n    == Len(found)
      left == IF q.op = "Split" /\ n > 0 /\ n = q.n - 1 THEN found[n][2] ELSE After(r, n)
  IN  IF q.op = "FindAll" \/ (q.op = "Split" /\ q.n = 0) THEN <<>>
      ELSE [k \in 1..(IF left <= Len(q.s) THEN n + 1 ELSE n) |->
              IF k <= n THEN <<After(r, k - 1), found[k][1]>> ELSE <<left, Len(q.s)>>]

SpanOf(s, loc) == SubSeq(s, loc[1] + 1, loc[2])

\* The first way of reading the byte of a span behind the first at: the tree it
\* leads to, and the slots with the tags passed.
ReadOn(p, span, before, at) ==
  LET ways == Configs[before.tree][Program[p].byteToClass[span[at + 1]]]
                     [MakeMatchContext(span, at)]
  IN  IF ways = <<>> THEN [tree |-> DeadTree, slots |-> before.slots]
      ELSE [tree |-> ways[1].next, slots |-> ApplyTags(before.slots, ways[1].tags, at)]

\* A span read byte by byte.
Reading(p, span) ==
  LET read[at \in 0..Len(span)] ==
        IF at = 0
        THEN [tree |-> Program[p].root, slots |-> NoSlots(Program[p].captures)]
        ELSE ReadOn(p, span, read[at - 1], at - 1)
  IN  read

\* The groups of a match are found if there are none, or if that reading accepts.
GroupsFound(p, s, loc) ==
  LET span == SpanOf(s, loc)
  IN  \/ Program[p].captures = 0
      \/ TagNull[Reading(p, span)[Len(span)].tree][MakeMatchContext(span, Len(span))]

\* The groups of a span, as offsets of the text: of one that is not set the slots
\* stay unset.
InText(slots, loc) ==
  [i \in DOMAIN slots |-> IF i = 0 THEN loc
                          ELSE IF slots[i][1] >= 0
                               THEN <<slots[i][1] + loc[1], slots[i][2] + loc[1]>>
                          ELSE slots[i]]

\* The row of a match whose groups are found.
RowMeant(p, s, loc) ==
  LET span == SpanOf(s, loc)
  IN  IF Program[p].captures = 0 THEN Whole(loc)
      ELSE InText(Reading(p, span)[Len(span)].slots, loc)

RowOfAll(p, s, loc) == IF GroupsFound(p, s, loc) THEN RowMeant(p, s, loc) ELSE Whole(loc)

\* The result that belongs to the matches.
ResultMeant(p, q, found) ==
  CASE q.op \in Looping         -> PiecesMeant(q, found)
    [] q.op = "FindSubmatch"    ->
         [k \in {i \in DOMAIN found : GroupsFound(p, q.s, found[i])} |->
            RowMeant(p, q.s, found[k])]
    [] q.op = "FindAllSubmatch" -> [k \in DOMAIN found |-> RowOfAll(p, q.s, found[k])]

\* The answers are the ones meant, and none of them is "no answer".
AnswersAsMeant(p) ==
  \A q \in Request :
    /\ None \notin {Answer[p][q]} \cup PoorerThan(Answer[p][q], q)
    /\ ~Program[p].hasAssertions =>
         LET found == Answer[p][q][1]
         IN  /\ Successors(p, q, found)
             /\ Answer[p][q] = <<found, ResultMeant(p, q, found)>>

=============================================================================
