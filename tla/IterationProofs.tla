-------------------------- MODULE IterationProofs --------------------------
(***************************************************************************)
(* The loops over a text and the lock around them, for all expressions,    *)
(* texts, counts and goroutines: matches do not overlap, groups lie in     *)
(* their match, and the tagged automaton only grows and is right.          *)
(***************************************************************************)
EXTENDS Iteration, TaggedProofs, SequenceTheorems

Pair == Int \X Int
Row  == UNION {[0..k -> Pair] : k \in Nat}

CallType ==
  [op : Looping \cup Submatch, s : Input, n : Int, ph : {"search", "run", "done"},
   pos : Nat, found : Seq(Pair), out : Seq(Pair \cup Row), at : Nat, st : Nat,
   slots : Row]

\* Successive, for one call.
InOrder(r) ==
  /\ \A k \in 1..Len(r.found) : r.found[k] \in Location(r.s, 0) /\ r.found[k][1] >= k - 1
  /\ \A k, m \in 1..Len(r.found) :
       k < m => r.found[k][1] < r.found[m][1] /\ r.found[k][2] <= r.found[m][1]

\* The matches found lie behind pos: the next one starts after them, and there
\* are no more of them than offsets.
AllBehind(r) ==
  /\ Len(r.found) <= r.pos
  /\ \A k \in 1..Len(r.found) : r.found[k][1] < r.pos /\ r.found[k][2] <= r.pos

LastFound(r) == r.found[Len(r.found)]

\* GroupsInside, for one row.
InMatch(row, loc) ==
  /\ row[0] = loc
  /\ \A i \in DOMAIN row :
       \/ row[i][1] = Unset
       \/ row[i][1] \in loc[1]..loc[2] /\ row[i][2] \in loc[1] - 1..loc[2]

\* Slots of a span of which at bytes are read.
InSpan(slots, at) ==
  \A i \in DOMAIN slots : slots[i][1] \in Unset..at /\ slots[i][2] \in Unset..at

\* There is a row for each match, the last one excepted for the time of its run.
RowsOf(r, open) ==
  r.op \in Submatch =>
    /\ Len(r.out) = Len(r.found) - open
    /\ \A k \in 1..Len(r.out) : InMatch(r.out[k], r.found[k])

\* The rows of a call that has returned.
RowsAtEnd(r) ==
  r.op \in Submatch =>
    /\ Len(r.out) <= Len(r.found)
    /\ \A k \in 1..Len(r.out) : InMatch(r.out[k], r.found[k])

\* What holds of a call whatever it does.
Sane(r) == r \in CallType /\ r.pos <= Len(r.s) + 1 /\ InOrder(r)

\* Ready to search from pos on.
Ready(r) == Sane(r) /\ AllBehind(r) /\ RowsOf(r, 0) /\ r.pos <= Len(r.s)

\* A match from pos on has just been found.
Hits(r, loc) ==
  /\ Sane(r)
  /\ r.pos <= Len(r.s)
  /\ Len(r.found) > 0
  /\ loc = LastFound(r)
  /\ loc \in Location(r.s, r.pos)

\* Its groups are being looked for.
Running(p, r) ==
  /\ Hits(r, LastFound(r))
  /\ r.op \in Submatch
  /\ RowsOf(r, 1)
  /\ r.at <= Len(Span(r))
  /\ r.slots \in [0..Program[p].captures -> Pair]
  /\ InSpan(r.slots, r.at)

\* The invariant of a call.
CallInv(p, r) ==
  /\ Sane(r)
  /\ r.ph = "search" => Ready(r)
  /\ r.ph = "run" => Running(p, r)
  /\ r.ph = "done" => RowsAtEnd(r)

LEMMA InputTexts ==
  ASSUME NEW s \in Input
  PROVE  s \in Seq(Nat) /\ s \in Seq(Letter) /\ Len(s) \in Nat
<1>1. s \in Seq(Letter) /\ Letter \subseteq Nat
  BY IterationAssumption
<1>2. s \in Seq(Nat)
  BY <1>1, SeqMonotonic
<1> QED
  BY <1>1, <1>2

\* A rune is at least a byte long and does not go beyond the end of the text.
LEMMA RuneSize ==
  ASSUME NEW s \in Input, NEW pos \in Nat, pos < Len(s)
  PROVE  /\ DecodeRune(s, pos).size \in {1, 2}
         /\ pos + DecodeRune(s, pos).size <= Len(s)
BY InputTexts DEF DecodeRune

LEMMA CallFields ==
  ASSUME NEW r \in CallType
  PROVE  /\ r.s \in Input
         /\ Len(r.s) \in Nat
         /\ r.pos \in Nat
         /\ r.at \in Nat
         /\ r.n \in Int
         /\ r.found \in Seq(Pair)
         /\ Len(r.found) \in Nat
         /\ r.out \in Seq(Pair \cup Row)
         /\ Len(r.out) \in Nat
         /\ r.op \in Looping \cup Submatch
         /\ r.ph \in {"search", "run", "done"}
BY InputTexts DEF CallType

\* A change of the fields below keeps what is said of a call.
LEMMA SetPh ==
  ASSUME NEW r \in CallType, NEW ph \in {"search", "run", "done"}
  PROVE  LET q == [r EXCEPT !.ph = ph]
         IN  /\ q \in CallType
             /\ q.ph = ph
             /\ q.s = r.s /\ q.op = r.op /\ q.n = r.n /\ q.pos = r.pos
             /\ q.found = r.found /\ q.out = r.out
             /\ q.at = r.at /\ q.st = r.st /\ q.slots = r.slots
BY DEF CallType

LEMMA SetPos ==
  ASSUME NEW r \in CallType, NEW pos \in Nat
  PROVE  LET q == [r EXCEPT !.pos = pos]
         IN  /\ q \in CallType
             /\ q.pos = pos
             /\ q.s = r.s /\ q.op = r.op /\ q.n = r.n /\ q.ph = r.ph
             /\ q.found = r.found /\ q.out = r.out
BY DEF CallType

\* The top of the loop, once all that has been found lies behind.
LEMMA AtTopOfLoop ==
  ASSUME NEW p, NEW r, Sane(r), AllBehind(r), RowsOf(r, 0)
  PROVE  /\ CallInv(p, TopOfLoop(r))
         /\ TopOfLoop(r).ph \in {"search", "done"}
         /\ TopOfLoop(r).s = r.s /\ TopOfLoop(r).op = r.op
<1> DEFINE ph == IF r.pos <= Len(r.s) /\ ~Enough(r) THEN "search" ELSE "done"
           q == [r EXCEPT !.ph = ph]
<1>1. TopOfLoop(r) = q
  BY DEF TopOfLoop
<1>2. r \in CallType /\ ph \in {"search", "done"} /\ ph \in {"search", "run", "done"}
  BY DEF Sane
<1>4. ph = "search" => r.pos <= Len(r.s)
  OBVIOUS
<1> HIDE DEF ph
<1>3. /\ q \in CallType
      /\ q.ph = ph
      /\ q.s = r.s /\ q.op = r.op /\ q.n = r.n /\ q.pos = r.pos
      /\ q.found = r.found /\ q.out = r.out
  BY <1>2, SetPh
<1>5. Len(r.out) \in Nat /\ Len(r.found) \in Nat
  BY <1>2, CallFields
<1> HIDE DEF q
<1>6. Sane(q) /\ AllBehind(q) /\ RowsOf(q, 0)
  BY <1>3 DEF Sane, InOrder, AllBehind, RowsOf
<1>7. RowsAtEnd(q)
  BY <1>3, <1>5, <1>6 DEF RowsOf, RowsAtEnd
<1>8. CallInv(p, q)
  BY <1>2, <1>3, <1>4, <1>6, <1>7 DEF CallInv, Ready
<1> QED
  BY <1>1, <1>2, <1>3, <1>8

\* After a match the search goes on behind it, and at least one byte on.
LEMMA ResumeBehindMatch ==
  ASSUME NEW r, NEW loc, Hits(r, loc)
  PROVE  /\ Resume(r, loc) \in Nat
         /\ Resume(r, loc) > loc[1]
         /\ Resume(r, loc) >= loc[2]
         /\ Resume(r, loc) <= Len(r.s) + 1
<1>1. r \in CallType /\ r.pos <= Len(r.s) /\ loc \in Location(r.s, r.pos)
  BY DEF Hits, Sane
<1>2. r.s \in Input /\ Len(r.s) \in Nat /\ r.pos \in Nat
  BY <1>1, CallFields
<1>3. loc[1] \in Nat /\ loc[2] \in Nat /\ r.pos <= loc[1] /\ loc[1] <= loc[2]
      /\ loc[2] <= Len(r.s)
  BY <1>1, <1>2 DEF Location
<1>4. CASE loc[1] < Len(r.s)
  <2>1. DecodeRune(r.s, loc[1]).size \in {1, 2}
        /\ loc[1] + DecodeRune(r.s, loc[1]).size <= Len(r.s)
    BY <1>2, <1>3, <1>4, RuneSize
  <2> QED
    BY <1>2, <1>3, <1>4, <2>1, SMTT(30) DEF Resume, AdvancePosAfterEmptyMatch
<1>5. CASE loc[1] = Len(r.s)
  BY <1>2, <1>3, <1>5 DEF Resume, AdvancePosAfterEmptyMatch
<1> QED
  BY <1>2, <1>3, <1>4, <1>5

\* All matches lie before the end of the last one.
LEMMA LastIsLast ==
  ASSUME NEW r, NEW loc, Hits(r, loc), NEW k \in 1..Len(r.found)
  PROVE  r.found[k][1] \in Nat /\ r.found[k][2] \in Nat
         /\ r.found[k][1] <= loc[1] /\ r.found[k][2] <= loc[2]
<1>1. r \in CallType /\ InOrder(r) /\ loc = r.found[Len(r.found)] /\ Len(r.found) > 0
  BY DEF Hits, Sane, LastFound
<1>2. Len(r.s) \in Nat /\ Len(r.found) \in Nat
  BY <1>1, CallFields
<1>3. \A j \in 1..Len(r.found) :
        r.found[j][1] \in Nat /\ r.found[j][2] \in Nat /\ r.found[j][1] <= r.found[j][2]
  BY <1>1, <1>2 DEF InOrder, Location
<1>4. CASE k = Len(r.found)
  BY <1>1, <1>3, <1>4
<1>5. CASE k < Len(r.found)
  <2>1. Len(r.found) \in 1..Len(r.found)
    BY <1>1, <1>2
  <2>2. r.found[k][1] < loc[1] /\ r.found[k][2] <= loc[1]
    BY <1>1, <1>5, <2>1 DEF InOrder
  <2>3. loc[1] \in Nat /\ loc[2] \in Nat /\ loc[1] <= loc[2]
    BY <1>1, <1>3, <2>1
  <2> QED
    BY <1>3, <2>2, <2>3
<1> QED
  BY <1>2, <1>4, <1>5

LEMMA OnwardInv ==
  ASSUME NEW p, NEW r, NEW loc, Hits(r, loc), RowsOf(r, 0)
  PROVE  /\ CallInv(p, Onward(r, loc))
         /\ Onward(r, loc).ph \in {"search", "done"}
         /\ Onward(r, loc).s = r.s /\ Onward(r, loc).op = r.op
<1> DEFINE pos == Resume(r, loc)
           q == [r EXCEPT !.pos = pos]
<1>1. pos \in Nat /\ pos > loc[1] /\ pos >= loc[2] /\ pos <= Len(r.s) + 1
  BY ResumeBehindMatch
<1>2. r \in CallType /\ Sane(r) /\ InOrder(r) /\ Len(r.found) > 0
      /\ loc = r.found[Len(r.found)]
  BY DEF Hits, Sane, LastFound
<1>3. Onward(r, loc) = TopOfLoop(q)
  BY DEF Onward
<1> HIDE DEF pos
<1>4. /\ q \in CallType
      /\ q.pos = pos
      /\ q.s = r.s /\ q.op = r.op /\ q.n = r.n /\ q.ph = r.ph
      /\ q.found = r.found /\ q.out = r.out
  BY <1>1, <1>2, SetPos
<1> HIDE DEF q
<1>5. Sane(q) /\ RowsOf(q, 0)
  BY <1>1, <1>2, <1>4 DEF Sane, InOrder, RowsOf
<1>6. AllBehind(q)
  <2>1. Len(r.found) \in Nat
    BY <1>2, CallFields
  <2>2. Len(r.found) \in 1..Len(r.found) /\ loc[1] >= Len(r.found) - 1
    BY <1>2, <2>1 DEF InOrder
  <2>3. loc[1] \in Nat /\ loc[2] \in Nat
    BY <2>2, <1>2, LastIsLast
  <2>4. Len(r.found) <= pos
    BY <1>1, <2>1, <2>2, <2>3
  <2>5. \A k \in 1..Len(r.found) : r.found[k][1] < pos /\ r.found[k][2] <= pos
    <3> SUFFICES ASSUME NEW k \in 1..Len(r.found)
                 PROVE  r.found[k][1] < pos /\ r.found[k][2] <= pos
      OBVIOUS
    <3>1. r.found[k][1] \in Nat /\ r.found[k][2] \in Nat
          /\ r.found[k][1] <= loc[1] /\ r.found[k][2] <= loc[2]
      BY LastIsLast
    <3> QED
      BY <1>1, <2>3, <3>1
  <2> QED
    BY <1>4, <2>4, <2>5 DEF AllBehind
<1> QED
  BY <1>3, <1>4, <1>5, <1>6, AtTopOfLoop

LEMMA SuffixLength ==
  ASSUME NEW s \in Input, NEW pos \in 0..Len(s)
  PROVE  Len(Suffix(s, pos)) = Len(s) - pos
<1>1. s \in Seq(Nat) /\ Len(s) \in Nat
  BY InputTexts
<1>2. \A i \in pos + 1..Len(s) : s[i] \in Nat
  BY <1>1
<1>3. Len(SubSeq(s, pos + 1, Len(s)))
        = IF pos + 1 <= Len(s) THEN Len(s) - (pos + 1) + 1 ELSE 0
  BY <1>1, <1>2, SubSeqProperties
<1> QED
  BY <1>1, <1>3 DEF Suffix

\* A search finds a location from pos on, or none, also in what is cut off.
LEMMA FoundFromPos ==
  ASSUME NEW p \in Pattern, NEW r, Ready(r)
  PROVE  /\ Find[p][r.s][r.pos] \in {Nil} \cup Location(r.s, r.pos)
         /\ FindInSuffix(p, r) \in {Nil} \cup Location(r.s, r.pos)
<1>1. r \in CallType /\ r.pos <= Len(r.s)
  BY DEF Ready, Sane
<1>2. r.s \in Input /\ Len(r.s) \in Nat /\ r.pos \in 0..Len(r.s) /\ r.s \in Seq(Nat)
  BY <1>1, CallFields, InputTexts
<1> DEFINE s == r.s
           pos == r.pos
           rest == Suffix(s, pos)
<1> HIDE DEF s, pos
<1>3. rest \in Input
  BY <1>2, IterationAssumption DEF s, pos
<1>4. Len(rest) = Len(s) - pos
  BY <1>2, SuffixLength DEF s, pos
<1> DEFINE loc == Find[p][rest][0]
<1>5. loc \in {Nil} \cup Location(rest, 0)
  <2>1. 0 \in 0..Len(rest)
    BY <1>2, <1>4 DEF s, pos
  <2> QED
    BY <1>3, <2>1, FindAssumption
<1> HIDE DEF loc, rest
<1>6. Shift(loc, pos) \in {Nil} \cup Location(s, pos)
  <2>1. CASE loc = Nil
    BY <2>1 DEF Shift
  <2>2. CASE loc # Nil
    <3>1. loc[1] \in 0..Len(s) - pos /\ loc[2] \in 0..Len(s) - pos /\ loc[1] <= loc[2]
      BY <1>4, <1>5, <2>2 DEF Location
    <3>2. Shift(loc, pos) = <<loc[1] + pos, loc[2] + pos>>
      BY <2>2 DEF Shift
    <3> QED
      BY <1>2, <3>1, <3>2 DEF Location, s, pos
  <2> QED
    BY <2>1, <2>2
<1>7. FindInSuffix(p, r) = Shift(loc, pos)
  BY DEF FindInSuffix, loc, rest, s, pos
<1>8. Find[p][r.s][r.pos] \in {Nil} \cup Location(r.s, r.pos)
  BY <1>2, FindAssumption
<1> QED
  BY <1>6, <1>7, <1>8 DEF s, pos

\* The match found next, after those that lie behind.
LEMMA NextMatch ==
  ASSUME NEW r, Ready(r), NEW loc \in Location(r.s, r.pos), NEW q \in CallType,
         q.s = r.s, q.pos = r.pos, q.found = Append(r.found, loc)
  PROVE  /\ Hits(q, loc)
         /\ Len(q.found) = Len(r.found) + 1
         /\ \A k \in 1..Len(r.found) : q.found[k] = r.found[k]
         /\ q.found[Len(q.found)] = loc
<1>1. r \in CallType /\ InOrder(r) /\ AllBehind(r) /\ r.pos <= Len(r.s)
  BY DEF Ready, Sane
<1>2. /\ r.pos \in Nat /\ Len(r.s) \in Nat /\ Len(r.found) \in Nat
      /\ r.found \in Seq(Pair)
  BY <1>1, CallFields
<1>3. /\ loc[1] \in Nat /\ loc[2] \in Nat /\ r.pos <= loc[1] /\ loc[1] <= loc[2]
      /\ loc \in Pair /\ loc \in Location(r.s, 0)
  BY <1>2 DEF Location, Pair
<1> DEFINE n == Len(r.found)
           found == q.found
<1>4. /\ Len(found) = n + 1 /\ found[n + 1] = loc
      /\ \A k \in 1..n : found[k] = r.found[k]
  BY <1>2, <1>3
<1>5. \A k \in 1..n + 1 : k \in 1..n \/ k = n + 1
  BY <1>2
<1> HIDE DEF n, found
<1>6. \A k \in 1..n + 1 : found[k] \in Location(r.s, 0) /\ found[k][1] >= k - 1
  <2>1. \A k \in 1..n : found[k] \in Location(r.s, 0) /\ found[k][1] >= k - 1
    BY <1>1, <1>4 DEF InOrder, n
  <2>2. loc[1] >= n
    BY <1>1, <1>2, <1>3 DEF AllBehind, n
  <2> QED
    BY <1>2, <1>3, <1>4, <1>5, <2>1, <2>2 DEF n
<1>7. \A k, m \in 1..n + 1 :
        k < m => found[k][1] < found[m][1] /\ found[k][2] <= found[m][1]
  <2> SUFFICES ASSUME NEW k \in 1..n + 1, NEW m \in 1..n + 1, k < m
               PROVE  found[k][1] < found[m][1] /\ found[k][2] <= found[m][1]
    OBVIOUS
  <2>1. k \in 1..n
    BY <1>2 DEF n
  <2>2. CASE m \in 1..n
    BY <1>1, <1>4, <2>1, <2>2 DEF InOrder, n
  <2>3. CASE m = n + 1
    <3>1. found[k][1] < r.pos /\ found[k][2] <= r.pos
          /\ found[k][1] \in Nat /\ found[k][2] \in Nat
      <4>1. found[k] = r.found[k] /\ r.found[k] \in Location(r.s, 0)
        BY <1>1, <1>4, <2>1 DEF InOrder, n
      <4>2. r.found[k][1] < r.pos /\ r.found[k][2] <= r.pos
        BY <1>1, <2>1 DEF AllBehind, n
      <4> QED
        BY <1>2, <4>1, <4>2 DEF Location
    <3> QED
      BY <1>2, <1>3, <1>4, <2>3, <3>1
  <2> QED
    BY <1>5, <2>2, <2>3
<1>8. InOrder(q)
  BY <1>4, <1>6, <1>7 DEF InOrder, found
<1>9. Sane(q)
  BY <1>1, <1>2, <1>8 DEF Sane
<1> QED
  BY <1>1, <1>2, <1>4, <1>9 DEF Hits, LastFound, found, n

\* The fields of a run: ph, at, st and slots; all else stays.
Rerun(r, ph, at, st, slots) ==
  [r EXCEPT !.ph = ph, !.at = at, !.st = st, !.slots = slots]

LEMMA SetRun ==
  ASSUME NEW r \in CallType, NEW ph \in {"search", "run", "done"}, NEW at \in Nat,
         NEW st \in Nat, NEW slots \in Row
  PROVE  LET q == Rerun(r, ph, at, st, slots)
         IN  /\ q \in CallType
             /\ q.ph = ph /\ q.at = at /\ q.st = st /\ q.slots = slots
             /\ q.s = r.s /\ q.op = r.op /\ q.n = r.n /\ q.pos = r.pos
             /\ q.found = r.found /\ q.out = r.out
BY DEF CallType, Rerun

\* A row more, after which the call returns or goes on.
LEMMA FinishedInv ==
  ASSUME NEW p, NEW r, Hits(r, LastFound(r)), r.op \in Submatch, RowsOf(r, 1),
         NEW row \in Row, InMatch(row, LastFound(r))
  PROVE  /\ CallInv(p, Finished(r, row))
         /\ Finished(r, row).ph \in {"search", "done"}
         /\ Finished(r, row).s = r.s /\ Finished(r, row).op = r.op
<1> DEFINE out == Append(r.out, row)
           more == [r EXCEPT !.out = out]
           loc == LastFound(r)
<1>1. r \in CallType
  BY DEF Hits, Sane
<1>2. /\ r.out \in Seq(Pair \cup Row) /\ r.found \in Seq(Pair)
      /\ Len(r.out) \in Nat /\ Len(r.found) \in Nat
  BY <1>1, CallFields
<1>3. /\ out \in Seq(Pair \cup Row) /\ Len(out) = Len(r.out) + 1
      /\ out[Len(r.out) + 1] = row /\ \A k \in 1..Len(r.out) : out[k] = r.out[k]
  BY <1>2
<1> HIDE DEF out
<1>4. /\ more \in CallType
      /\ more.out = out
      /\ more.s = r.s /\ more.op = r.op /\ more.n = r.n /\ more.ph = r.ph
      /\ more.pos = r.pos /\ more.found = r.found
  BY <1>1, <1>3 DEF CallType
<1>5. Finished(r, row) = IF r.op = "FindSubmatch" THEN [more EXCEPT !.ph = "done"]
                         ELSE Onward(more, loc)
  BY DEF Finished, LastFound, out
<1> HIDE DEF more
<1>6. Hits(more, loc) /\ Sane(more) /\ LastFound(more) = loc
  BY <1>4 DEF Hits, Sane, InOrder, LastFound
<1>7. RowsOf(more, 0)
  <2>1. Len(out) = Len(r.found)
    BY <1>2, <1>3 DEF RowsOf
  <2>2. \A k \in 1..Len(out) : k \in 1..Len(r.out) \/ k = Len(r.found)
    BY <1>2, <1>3, <2>1
  <2>3. \A k \in 1..Len(out) : InMatch(out[k], r.found[k])
    BY <1>3, <2>1, <2>2 DEF RowsOf, LastFound
  <2> QED
    BY <1>2, <1>4, <2>1, <2>3 DEF RowsOf
<1>8. CASE r.op = "FindSubmatch"
  <2> DEFINE q == [more EXCEPT !.ph = "done"]
  <2>1. /\ q \in CallType
        /\ q.ph = "done"
        /\ q.s = more.s /\ q.op = more.op /\ q.pos = more.pos
        /\ q.found = more.found /\ q.out = more.out
    BY <1>4, SetPh
  <2> HIDE DEF q
  <2>2. CallInv(p, q)
    BY <1>2, <1>3, <1>4, <1>6, <1>7, <2>1 DEF CallInv, Sane, InOrder, RowsOf, RowsAtEnd
  <2> QED
    BY <1>4, <1>5, <1>8, <2>1, <2>2 DEF q
<1>9. CASE r.op # "FindSubmatch"
  <2>1. /\ CallInv(p, Onward(more, loc))
        /\ Onward(more, loc).ph \in {"search", "done"}
        /\ Onward(more, loc).s = more.s /\ Onward(more, loc).op = more.op
    BY <1>6, <1>7, OnwardInv
  <2> QED
    BY <1>4, <1>5, <1>9, <2>1
<1> QED
  BY <1>8, <1>9

\* No match is left.
LEMMA LastSearchInv ==
  ASSUME NEW p, NEW r, Ready(r)
  PROVE  /\ CallInv(p, LastSearch(r))
         /\ LastSearch(r).ph = "done"
         /\ LastSearch(r).s = r.s /\ LastSearch(r).op = r.op
<1> DEFINE out == IF r.op \in Looping \ {"FindAll"} THEN Append(r.out, <<r.pos, Len(r.s)>>)
                  ELSE r.out
           q == [r EXCEPT !.ph = "done", !.out = out]
<1>1. r \in CallType
  BY DEF Ready, Sane
<1>2. /\ r.out \in Seq(Pair \cup Row) /\ Len(r.out) \in Nat /\ Len(r.found) \in Nat
      /\ r.pos \in Nat /\ Len(r.s) \in Nat
  BY <1>1, CallFields
<1>3. out \in Seq(Pair \cup Row)
  <2>1. <<r.pos, Len(r.s)>> \in Pair \cup Row
    BY <1>2 DEF Pair
  <2> QED
    BY <1>2, <2>1
<1>4. r.op \in Submatch => out = r.out
  BY DEF Submatch, Looping
<1>5. LastSearch(r) = q
  BY DEF LastSearch
<1> HIDE DEF out
<1>6. /\ q \in CallType
      /\ q.ph = "done" /\ q.out = out
      /\ q.s = r.s /\ q.op = r.op /\ q.pos = r.pos /\ q.found = r.found
  BY <1>1, <1>3 DEF CallType
<1> HIDE DEF q
<1>7. CallInv(p, q)
  BY <1>2, <1>4, <1>6, SMTT(30) DEF CallInv, Ready, Sane, InOrder, RowsOf, RowsAtEnd
<1> QED
  BY <1>5, <1>6, <1>7

\* A match in a loop.
LEMMA LoopMatchInv ==
  ASSUME NEW p, NEW r, Ready(r), r.op \in Looping, NEW loc \in Location(r.s, r.pos)
  PROVE  /\ CallInv(p, LoopMatch(r, loc))
         /\ LoopMatch(r, loc).ph \in {"search", "done"}
         /\ LoopMatch(r, loc).s = r.s /\ LoopMatch(r, loc).op = r.op
<1> DEFINE found == Append(r.found, loc)
           out == IF r.op = "FindAll" THEN r.out ELSE Append(r.out, Piece(r, loc))
           more == [r EXCEPT !.found = found, !.out = out]
           last == Append(more.out, <<loc[2], Len(r.s)>>)
           q == [more EXCEPT !.ph = "done", !.out = last]
<1>1. r \in CallType
  BY DEF Ready, Sane
<1>2. /\ r.out \in Seq(Pair \cup Row) /\ r.found \in Seq(Pair)
      /\ r.pos \in Nat /\ Len(r.s) \in Nat
  BY <1>1, CallFields
<1>3. loc \in Pair /\ loc[1] \in Nat /\ loc[2] \in Nat
  BY <1>2 DEF Location, Pair
<1>4. found \in Seq(Pair) /\ out \in Seq(Pair \cup Row)
  <2>1. Piece(r, loc) \in Pair \cup Row
    BY <1>2, <1>3 DEF Piece, Pair
  <2> QED
    BY <1>2, <1>3, <2>1
<1>5. LoopMatch(r, loc) = IF r.op = "Split" /\ r.n > 0 /\ Len(more.found) >= r.n - 1
                          THEN q ELSE Onward(more, loc)
  BY DEF LoopMatch
<1> HIDE DEF found, out
<1>6. /\ more \in CallType
      /\ more.found = found /\ more.out = out
      /\ more.s = r.s /\ more.op = r.op /\ more.pos = r.pos
  BY <1>1, <1>4 DEF CallType
<1> HIDE DEF more
<1>7. Hits(more, loc)
  BY <1>6, NextMatch DEF found
<1>8. more.op \notin Submatch
  BY <1>6 DEF Looping, Submatch
<1>9. /\ CallInv(p, Onward(more, loc))
      /\ Onward(more, loc).ph \in {"search", "done"}
      /\ Onward(more, loc).s = more.s /\ Onward(more, loc).op = more.op
  <2>1. RowsOf(more, 0)
    BY <1>8 DEF RowsOf
  <2> QED
    BY <1>7, <2>1, OnwardInv
<1>10. last \in Seq(Pair \cup Row)
  <2>1. <<loc[2], Len(r.s)>> \in Pair \cup Row
    BY <1>2, <1>3 DEF Pair
  <2> QED
    BY <1>4, <1>6, <2>1
<1> HIDE DEF last
<1>11. /\ q \in CallType
       /\ q.ph = "done"
       /\ q.s = more.s /\ q.op = more.op /\ q.pos = more.pos /\ q.found = more.found
  BY <1>6, <1>10 DEF CallType
<1> HIDE DEF q
<1>12. CallInv(p, q)
  BY <1>7, <1>8, <1>11 DEF CallInv, Hits, Sane, InOrder, RowsAtEnd
<1> QED
  BY <1>5, <1>6, <1>9, <1>11, <1>12

\* One turn of a loop.
LEMMA TurnInv ==
  ASSUME NEW p \in Pattern, NEW r, Ready(r), r.op \in Looping
  PROVE  /\ CallInv(p, Turn(p, r))
         /\ Turn(p, r).ph \in {"search", "done"}
         /\ Turn(p, r).s = r.s /\ Turn(p, r).op = r.op
<1> DEFINE loc == Located(p, r)
<1>1. loc \in {Nil} \cup Location(r.s, r.pos)
  BY FoundFromPos DEF Located
<1>2. Turn(p, r) = IF loc = Nil THEN LastSearch(r) ELSE LoopMatch(r, loc)
  BY DEF Turn
<1> HIDE DEF loc
<1> QED
  BY <1>1, <1>2, LastSearchInv, LoopMatchInv

\* The span of a match is a text of its own, whose contexts the trees know.
LEMMA SpanIs ==
  ASSUME NEW r, Hits(r, LastFound(r))
  PROVE  LET loc == LastFound(r)
         IN  /\ loc[1] \in Nat /\ loc[2] \in Nat /\ loc[1] <= loc[2]
             /\ loc \in Pair
             /\ Span(r) \in Seq(Letter)
             /\ Len(Span(r)) = loc[2] - loc[1]
             /\ Len(Span(r)) \in Nat
             /\ \A at \in 0..Len(Span(r)) : MakeMatchContext(Span(r), at) \in Situation
<1> DEFINE loc == LastFound(r)
<1>1. r \in CallType /\ loc \in Location(r.s, r.pos)
  BY DEF Hits, Sane
<1>2. r.s \in Input /\ Len(r.s) \in Nat /\ r.pos \in Nat /\ r.s \in Seq(Letter)
  BY <1>1, CallFields, InputTexts
<1>3. Span(r) = SubSeq(r.s, loc[1] + 1, loc[2])
  BY DEF Span, LastFound
<1> HIDE DEF loc
<1>4. /\ loc[1] \in Nat /\ loc[2] \in Nat /\ loc[1] <= loc[2] /\ loc[2] <= Len(r.s)
      /\ loc \in Pair /\ loc \in Location(r.s, 0)
  BY <1>1, <1>2 DEF Location, Pair
<1>5. \A i \in loc[1] + 1..loc[2] : r.s[i] \in Letter
  BY <1>2, <1>4
<1>6. /\ SubSeq(r.s, loc[1] + 1, loc[2]) \in Seq(Letter)
      /\ Len(SubSeq(r.s, loc[1] + 1, loc[2]))
           = IF loc[1] + 1 <= loc[2] THEN loc[2] - (loc[1] + 1) + 1 ELSE 0
  BY <1>4, <1>5, SubSeqProperties
<1>7. Len(Span(r)) = loc[2] - loc[1]
  BY <1>3, <1>4, <1>6
<1>8. \A at \in 0..loc[2] - loc[1] : MakeMatchContext(Span(r), at) \in Situation
  BY <1>2, <1>3, <1>4, IterationAssumption
<1> QED
  BY <1>3, <1>4, <1>6, <1>7, <1>8 DEF loc

LEMMA WholeRow ==
  ASSUME NEW loc \in Pair, loc[1] <= loc[2]
  PROVE  Whole(loc) \in Row /\ InMatch(Whole(loc), loc)
<1>1. Whole(loc) \in [0..0 -> Pair] /\ Whole(loc)[0] = loc /\ DOMAIN Whole(loc) = {0}
  BY DEF Whole
<1>2. Whole(loc) \in Row
  BY <1>1 DEF Row
<1>3. loc[1] \in Int /\ loc[2] \in Int
  BY DEF Pair
<1> QED
  BY <1>1, <1>2, <1>3 DEF InMatch

\* A match whose groups there are none of, or that is run over.
LEMMA MatchedInv ==
  ASSUME NEW p \in Pattern, NEW r, Ready(r), r.op \in Submatch,
         NEW loc \in Location(r.s, r.pos)
  PROVE  /\ CallInv(p, Matched(p, r, loc))
         /\ Matched(p, r, loc).ph = "run" => Matched(p, r, loc).st = Root
         /\ Matched(p, r, loc).s = r.s /\ Matched(p, r, loc).op = r.op
<1> DEFINE found == Append(r.found, loc)
           more == [r EXCEPT !.found = found]
           captures == Program[p].captures
           q == [more EXCEPT !.ph = "run", !.at = 0, !.st = Root, !.slots = NoSlots(captures)]
<1>1. r \in CallType
  BY DEF Ready, Sane
<1>2. /\ r.found \in Seq(Pair) /\ r.pos \in Nat /\ Len(r.s) \in Nat
      /\ Len(r.out) \in Nat /\ Len(r.found) \in Nat
  BY <1>1, CallFields
<1>3. loc \in Pair /\ loc[1] <= loc[2]
  BY <1>2 DEF Location, Pair
<1>4. found \in Seq(Pair)
  BY <1>2, <1>3
<1>5. Matched(p, r, loc) = IF captures = 0 THEN Finished(more, Whole(loc)) ELSE q
  BY DEF Matched
<1> HIDE DEF found
<1>6. /\ more \in CallType
      /\ more.found = found /\ more.out = r.out
      /\ more.s = r.s /\ more.op = r.op /\ more.pos = r.pos
  BY <1>1, <1>4 DEF CallType
<1> HIDE DEF more
<1>7. /\ Hits(more, loc) /\ LastFound(more) = loc
      /\ Len(found) = Len(r.found) + 1
      /\ \A k \in 1..Len(r.found) : found[k] = r.found[k]
  BY <1>6, NextMatch DEF found, LastFound
<1>8. RowsOf(more, 1)
  <2>1. Len(r.out) = Len(r.found) /\ \A k \in 1..Len(r.out) : InMatch(r.out[k], r.found[k])
    BY <1>2 DEF Ready, RowsOf
  <2> QED
    BY <1>2, <1>6, <1>7, <2>1 DEF RowsOf
<1>9. CASE captures = 0
  <2>1. Whole(loc) \in Row /\ InMatch(Whole(loc), loc)
    BY <1>3, WholeRow
  <2>2. /\ CallInv(p, Finished(more, Whole(loc)))
        /\ Finished(more, Whole(loc)).ph \in {"search", "done"}
        /\ Finished(more, Whole(loc)).s = more.s /\ Finished(more, Whole(loc)).op = more.op
    BY <1>6, <1>7, <1>8, <2>1, FinishedInv
  <2> QED
    BY <1>5, <1>6, <1>9, <2>2
<1>10. CASE captures # 0
  <2>1. captures \in Nat
    BY IterationAssumption
  <2> HIDE DEF captures
  <2> DEFINE slots == NoSlots(captures)
  <2>2. slots \in [0..captures -> Pair] /\ slots \in Row /\ InSpan(slots, 0)
    <3>1. slots \in [0..captures -> Pair]
      BY DEF NoSlots, Unset, Pair
    <3>2. slots \in Row
      BY <2>1, <3>1 DEF Row
    <3>3. \A i \in 0..captures : slots[i] = <<Unset, Unset>>
      BY DEF NoSlots
    <3>4. Unset \in Unset..0
      BY DEF Unset
    <3> HIDE DEF slots
    <3> QED
      BY <3>1, <3>2, <3>3, <3>4 DEF InSpan
  <2> HIDE DEF slots
  <2>3. q = [more EXCEPT !.ph = "run", !.at = 0, !.st = Root, !.slots = slots]
    BY DEF slots
  <2>4. /\ q \in CallType
        /\ q.ph = "run" /\ q.at = 0 /\ q.st = Root /\ q.slots = slots
        /\ q.s = more.s /\ q.op = more.op /\ q.pos = more.pos
        /\ q.found = more.found /\ q.out = more.out
    BY <1>6, <2>2, <2>3 DEF CallType, Root
  <2> HIDE DEF q
  <2>5. Hits(q, loc) /\ LastFound(q) = loc /\ RowsOf(q, 1) /\ Sane(q)
    BY <1>7, <1>8, <2>4 DEF Hits, Sane, InOrder, LastFound, RowsOf
  <2>6. Len(Span(q)) \in Nat
    BY <2>5, SpanIs
  <2>7. Running(p, q)
    BY <1>6, <1>7, <2>2, <2>4, <2>5, <2>6 DEF Running, captures
  <2> QED
    BY <1>5, <1>6, <1>10, <2>4, <2>5, <2>7 DEF CallInv
<1> QED
  BY <1>9, <1>10

\* Offsets of tags passed at one byte lie in the bytes read.
LEMMA TagsInSpan ==
  ASSUME NEW captures \in Nat, NEW slots \in [0..captures -> Pair], NEW at \in Nat,
         InSpan(slots, at), NEW tags
  PROVE  /\ ApplyTags(slots, tags, at) \in [0..captures -> Pair]
         /\ InSpan(ApplyTags(slots, tags, at), at + 1)
<1> DEFINE new == ApplyTags(slots, tags, at)
           Has(i, isStart) == \E k \in DOMAIN tags : tags[k] = [id |-> i, isStart |-> isStart]
<1>1. /\ DOMAIN new = 0..captures
      /\ new = [i \in 0..captures |->
                  <<IF Has(i, TRUE) THEN at ELSE slots[i][1],
                    IF Has(i, FALSE) THEN at + 1 ELSE slots[i][2]>>]
  BY Zenon DEF ApplyTags
<1> HIDE DEF Has, new
<1>2. ASSUME NEW i \in 0..captures
      PROVE  /\ new[i] \in Pair
             /\ new[i][1] \in Unset..at + 1 /\ new[i][2] \in Unset..at + 1
  <2>1. slots[i][1] \in Unset..at /\ slots[i][2] \in Unset..at
    BY DEF InSpan
  <2>2. new[i] = <<IF Has(i, TRUE) THEN at ELSE slots[i][1],
                   IF Has(i, FALSE) THEN at + 1 ELSE slots[i][2]>>
    BY <1>1
  <2> DEFINE from == slots[i][1]
             to == slots[i][2]
             starts == Has(i, TRUE)
             ends == Has(i, FALSE)
             x == IF starts THEN at ELSE from
             y == IF ends THEN at + 1 ELSE to
  <2>3. x \in -1..at + 1 /\ y \in -1..at + 1
    <3>1. from \in -1..at /\ to \in -1..at
      BY <2>1 DEF Unset
    <3> HIDE DEF from, to, starts, ends
    <3> QED
      BY <3>1
  <2>4. new[i] = <<x, y>>
    BY <2>2
  <2> HIDE DEF x, y
  <2> QED
    BY <2>3, <2>4 DEF Unset, Pair
<1>3. new \in [0..captures -> Pair]
  BY <1>1, <1>2
<1> QED
  BY <1>1, <1>2, <1>3 DEF InSpan, new

\* Slot 0 set.
LEMMA MarkedInSpan ==
  ASSUME NEW p \in Pattern, NEW d, NEW r, Running(p, r)
  PROVE  /\ Marked(d, r) \in [0..Program[p].captures -> Pair]
         /\ InSpan(Marked(d, r), r.at)
<1>1. /\ r.at \in Nat /\ r.slots \in [0..Program[p].captures -> Pair]
      /\ InSpan(r.slots, r.at)
  BY CallFields DEF Running, Hits, Sane
<1>2. Program[p].captures \in Nat
  BY IterationAssumption
<1> DEFINE new == [r.slots EXCEPT ![0] = <<0, r.at>>]
<1>3. new \in [0..Program[p].captures -> Pair] /\ InSpan(new, r.at)
  BY <1>1, <1>2 DEF InSpan, Pair, Unset
<1> QED
  BY <1>1, <1>3 DEF Marked

\* The row that the slots of a run make.
LEMMA MovedInMatch ==
  ASSUME NEW captures \in Nat, NEW slots \in [0..captures -> Pair],
         NEW loc \in Pair, loc[1] \in Nat, loc[1] <= loc[2],
         NEW at \in Nat, at <= loc[2] - loc[1], InSpan(slots, at)
  PROVE  Moved(slots, loc) \in Row /\ InMatch(Moved(slots, loc), loc)
<1> DEFINE row == Moved(slots, loc)
<1>1. /\ DOMAIN row = 0..captures
      /\ row = [i \in 0..captures |->
                  IF i = 0 THEN loc
                  ELSE IF slots[i][1] >= 0 THEN <<slots[i][1] + loc[1], slots[i][2] + loc[1]>>
                  ELSE slots[i]]
  BY DEF Moved
<1> HIDE DEF row
<1>2. ASSUME NEW i \in 0..captures
      PROVE  /\ row[i] \in Pair
             /\ i = 0 => row[i] = loc
             /\ \/ row[i][1] = Unset
                \/ row[i][1] \in loc[1]..loc[2] /\ row[i][2] \in loc[1] - 1..loc[2]
  <2>1. /\ slots[i] \in Pair
        /\ slots[i][1] \in Unset..at /\ slots[i][2] \in Unset..at
        /\ slots[i][1] \in Int /\ slots[i][2] \in Int
        /\ loc[1] \in Int /\ loc[2] \in Int
    BY DEF InSpan, Pair
  <2>2. CASE i = 0
    BY <1>1, <2>1, <2>2
  <2>3. CASE i # 0 /\ slots[i][1] >= 0
    <3>1. row[i] = <<slots[i][1] + loc[1], slots[i][2] + loc[1]>>
      BY <1>1, <2>3
    <3> DEFINE from == slots[i][1]
               to == slots[i][2]
               first == loc[1]
               last == loc[2]
               x == from + first
               y == to + first
    <3>2. x \in first..last /\ y \in first - 1..last /\ x \in Int /\ y \in Int
      <4>1. /\ from \in -1..at /\ to \in -1..at /\ from >= 0
            /\ first \in Int /\ last \in Int /\ at <= last - first
        BY <2>1, <2>3 DEF Unset
      <4> HIDE DEF from, to, first, last
      <4> QED
        BY <4>1
    <3>3. row[i] = <<x, y>>
      BY <3>1
    <3> HIDE DEF x, y
    <3> QED
      BY <2>3, <3>2, <3>3, SMTT(30) DEF Pair
  <2>4. CASE i # 0 /\ ~(slots[i][1] >= 0)
    <3>1. row[i] = slots[i]
      BY <1>1, <2>4
    <3> QED
      BY <2>1, <2>4, <3>1 DEF Unset
  <2> QED
    BY <2>2, <2>3, <2>4
<1>3. row \in [0..captures -> Pair]
  BY <1>1, <1>2
<1>4. row \in Row
  BY <1>3 DEF Row
<1>5. row[0] = loc
  BY <1>2
<1> QED
  BY <1>1, <1>2, <1>4, <1>5 DEF InMatch, row

\* The automaton of an expression without assertions.
Exact(p, d) == Fresh(d) /\ Right(d) /\ d.asts[Root] = Program[p].root

\* A byte of a span read.
LEMMA RunByteInv ==
  ASSUME NEW p \in Pattern, NEW r, Running(p, r), r.ph = "run", r.at < Len(Span(r)),
         NEW d, Shape(d), r.st \in 1..Len(d.asts)
  PROVE  LET next == RunByte(p, d, r)
         IN  /\ CallInv(p, next.r)
             /\ next.r.ph = "run" /\ next.r.s = r.s /\ next.r.op = r.op
             /\ Shape(next.dfa)
             /\ Extends(d, next.dfa)
             /\ Exact(p, d) => Exact(p, next.dfa)
             /\ next.r.st \in 1..Len(next.dfa.asts)
<1> DEFINE span == Span(r)
           b == Program[p].byteToClass[span[r.at + 1]]
           c == MakeMatchContext(span, r.at)
           step == NextTagged(d, r.st, b, c)
           slots == ApplyTags(Marked(d, r), step.tr.tags, r.at)
           q == [r EXCEPT !.slots = slots, !.st = step.tr.next, !.at = @ + 1]
           captures == Program[p].captures
<1>1. RunByte(p, d, r) = [dfa |-> step.dfa, r |-> q]
  BY Zenon DEF RunByte
<1>2. r \in CallType /\ r.at \in Nat /\ Hits(r, LastFound(r)) /\ captures \in Nat
  BY CallFields, IterationAssumption DEF Running, Hits, Sane
<1>3. b \in Letter /\ c \in Situation
  <2>1. /\ span \in Seq(Letter) /\ Len(span) \in Nat
        /\ \A at \in 0..Len(span) : MakeMatchContext(span, at) \in Situation
    BY <1>2, SpanIs
  <2>2. r.at + 1 \in 1..Len(span) /\ r.at \in 0..Len(span)
    BY <1>2, <2>1
  <2> HIDE DEF span
  <2>3. span[r.at + 1] \in Letter
    BY <2>1, <2>2
  <2>4. Program[p].byteToClass \in [Letter -> Letter]
    BY IterationAssumption
  <2> QED
    BY <2>1, <2>2, <2>3, <2>4
<1> HIDE DEF b, c
<1>4. /\ Shape(step.dfa)
      /\ Extends(d, step.dfa)
      /\ step.tr \in TransitionType
      /\ step.tr.next \in 1..Len(step.dfa.asts)
      /\ Exact(p, d) => Exact(p, step.dfa)
  <2> HIDE DEF step
  <2>1. /\ Shape(step.dfa)
        /\ Extends(d, step.dfa)
        /\ step.tr \in TransitionType
        /\ step.tr.next \in 1..Len(step.dfa.asts)
        /\ Fresh(d) => Fresh(step.dfa)
    BY <1>3, NextTaggedSound DEF step
  <2>2. ASSUME Fresh(d), Right(d)
        PROVE  Right(step.dfa)
    BY <1>3, <2>2, NextTaggedRight DEF step
  <2>3. step.dfa.asts[Root] = d.asts[Root]
    <3>1. Root \in 1..Len(d.asts)
      BY DEF Shape, Root
    <3> QED
      BY <2>1, <3>1 DEF Extends
  <2> QED
    BY <2>1, <2>2, <2>3 DEF Exact
<1>5. step.tr.next \in Nat
  BY <1>4 DEF TransitionType
<1>6. slots \in [0..captures -> Pair] /\ InSpan(slots, r.at + 1)
  <2>1. Marked(d, r) \in [0..captures -> Pair] /\ InSpan(Marked(d, r), r.at)
    BY MarkedInSpan
  <2> HIDE DEF captures, step
  <2> QED
    BY <1>2, <2>1, TagsInSpan
<1> HIDE DEF step, slots, captures
<1>7. slots \in Row
  BY <1>2, <1>6 DEF Row
<1>8. /\ q \in CallType
      /\ q.slots = slots /\ q.st = step.tr.next /\ q.at = r.at + 1 /\ q.ph = r.ph
      /\ q.s = r.s /\ q.op = r.op /\ q.pos = r.pos /\ q.found = r.found /\ q.out = r.out
  <2> DEFINE st == step.tr.next
             at == r.at + 1
  <2>1. q = [r EXCEPT !.slots = slots, !.st = st, !.at = at]
    OBVIOUS
  <2>2. st \in Nat /\ at \in Nat
    BY <1>2, <1>5
  <2> HIDE DEF q, st, at
  <2>3. /\ q \in CallType
        /\ q.slots = slots /\ q.st = st /\ q.at = at /\ q.ph = r.ph
        /\ q.s = r.s /\ q.op = r.op /\ q.pos = r.pos /\ q.found = r.found /\ q.out = r.out
    BY <1>2, <1>7, <2>1, <2>2 DEF CallType
  <2> QED
    BY <2>3 DEF st, at
<1> HIDE DEF q
<1>9. Span(q) = Span(r) /\ LastFound(q) = LastFound(r)
  BY <1>8 DEF Span, LastFound
<1>10. Len(Span(r)) \in Nat
  BY <1>2, SpanIs
<1>11. Hits(q, LastFound(q)) /\ Sane(q) /\ RowsOf(q, 1) /\ q.op \in Submatch
  BY <1>2, <1>8, <1>9 DEF Running, Hits, Sane, InOrder, RowsOf
<1>12. q.at <= Len(Span(q))
  BY <1>2, <1>8, <1>9, <1>10
<1>13. Running(p, q)
  BY <1>6, <1>8, <1>11, <1>12 DEF Running, captures
<1>14. CallInv(p, q)
  BY <1>8, <1>11, <1>13 DEF CallInv
<1> QED
  BY <1>1, <1>4, <1>8, <1>14

\* The end of a span.
LEMMA RunEndInv ==
  ASSUME NEW p \in Pattern, NEW r, Running(p, r), NEW d
  PROVE  LET next == RunEnd(d, r)
         IN  /\ CallInv(p, next.r)
             /\ next.r.ph \in {"search", "done"} /\ next.r.s = r.s /\ next.r.op = r.op
             /\ next.dfa = d
<1> DEFINE loc == LastFound(r)
           captures == Program[p].captures
           row == Moved(Marked(d, r), loc)
           stop == [r EXCEPT !.ph = "done"]
           q == IF Accepting(d, r) /\ r.st # Dead THEN Finished(r, row)
                ELSE IF r.op = "FindSubmatch" THEN stop
                ELSE Finished(r, Whole(loc))
<1>1. RunEnd(d, r) = [dfa |-> d, r |-> q]
  BY Zenon DEF RunEnd, LastFound
<1>2. /\ r \in CallType /\ r.at \in Nat /\ Hits(r, loc) /\ captures \in Nat
      /\ r.op \in Submatch /\ RowsOf(r, 1) /\ Sane(r)
  BY CallFields, IterationAssumption DEF Running, Hits, Sane
<1>3. /\ loc \in Pair /\ loc[1] \in Nat /\ loc[1] <= loc[2] /\ loc[2] \in Nat
      /\ r.at <= loc[2] - loc[1]
  BY <1>2, SpanIs DEF Running
<1>4. row \in Row /\ InMatch(row, loc)
  <2>1. Marked(d, r) \in [0..captures -> Pair] /\ InSpan(Marked(d, r), r.at)
    BY MarkedInSpan
  <2> HIDE DEF captures, loc
  <2> QED
    BY <1>2, <1>3, <2>1, MovedInMatch
<1>5. Whole(loc) \in Row /\ InMatch(Whole(loc), loc)
  BY <1>3, WholeRow
<1>6. \A x \in {row, Whole(loc)} :
        /\ CallInv(p, Finished(r, x))
        /\ Finished(r, x).ph \in {"search", "done"}
        /\ Finished(r, x).s = r.s /\ Finished(r, x).op = r.op
  <2> HIDE DEF row
  <2> QED
    BY <1>2, <1>4, <1>5, FinishedInv
<1>7. /\ CallInv(p, stop) /\ stop.ph = "done" /\ stop.s = r.s /\ stop.op = r.op
  <2>1. /\ stop \in CallType
        /\ stop.ph = "done" /\ stop.s = r.s /\ stop.op = r.op /\ stop.pos = r.pos
        /\ stop.found = r.found /\ stop.out = r.out
    BY <1>2, SetPh
  <2>2. Len(r.out) \in Nat /\ Len(r.found) \in Nat
    BY <1>2, CallFields
  <2> HIDE DEF stop
  <2>3. Sane(stop) /\ RowsAtEnd(stop)
    BY <1>2, <2>1, <2>2 DEF Sane, InOrder, RowsOf, RowsAtEnd
  <2> QED
    BY <2>1, <2>3 DEF CallInv
<1> HIDE DEF stop, row
<1>8. CallInv(p, q) /\ q.ph \in {"search", "done"} /\ q.s = r.s /\ q.op = r.op
  BY <1>6, <1>7
<1> HIDE DEF q
<1> QED
  BY <1>1, <1>8

\* A call begins.
LEMMA NewCallInv ==
  ASSUME NEW p, NEW ask \in Request, NEW way \in {"wrapper", "engine"}
  PROVE  LET r == NewCall(ask, way)
         IN  /\ CallInv(p, r)
             /\ r.ph \in {"search", "done"} /\ r.s = ask.s /\ r.op = ask.op
<1> DEFINE n == Count(ask, way)
           first == [op |-> ask.op, s |-> ask.s, n |-> n, ph |-> "search", pos |-> 0,
                     found |-> <<>>, out |-> <<>>, at |-> 0, st |-> Root,
                     slots |-> NoSlots(0)]
           out == IF ask.n = 0 THEN <<>> ELSE <<<<0, Len(ask.s)>>>>
           q == [first EXCEPT !.ph = "done", !.out = out]
           r == NewCall(ask, way)
<1>1. /\ ask.op \in Looping \cup Submatch /\ ask.s \in Input /\ ask.n \in Int
      /\ Len(ask.s) \in Nat
  BY IterationAssumption, InputTexts
<1>2. r = IF ask.op = "Split" /\ ask.n \in {0, 1} THEN q ELSE TopOfLoop(first)
  BY Zenon DEF NewCall
<1>3. n \in Int
  BY <1>1 DEF Count
<1>4. NoSlots(0) \in Row
  <2>1. NoSlots(0) \in [0..0 -> Pair]
    BY DEF NoSlots, Unset, Pair
  <2> QED
    BY <2>1 DEF Row
<1>5. out \in Seq(Pair \cup Row) /\ <<>> \in Seq(Pair \cup Row) /\ <<>> \in Seq(Pair)
      /\ Len(<<>>) = 0
  <2> DEFINE Whole1 == <<0, Len(ask.s)>>
             Part == Pair \cup Row
  <2>1. Whole1 \in Part
    BY <1>1 DEF Pair
  <2>2. <<>> \in Seq(Part) /\ <<>> \in Seq(Pair) /\ Len(<<>>) = 0
    OBVIOUS
  <2> HIDE DEF Whole1, Part
  <2>3. <<Whole1>> \in Seq(Part)
    BY <2>1
  <2>4. out = <<>> \/ out = <<Whole1>>
    BY DEF Whole1
  <2>5. out \in Seq(Part)
    BY <2>2, <2>3, <2>4
  <2> QED
    BY <2>2, <2>5 DEF Part
<1> DEFINE slots == NoSlots(0)
<1> HIDE DEF n, out, slots
<1>6. /\ first \in CallType /\ first.s = ask.s /\ first.op = ask.op /\ first.pos = 0
      /\ first.found = <<>> /\ first.out = <<>>
  BY <1>1, <1>3, <1>4, <1>5 DEF CallType, Root, slots
<1>7. /\ q \in CallType /\ q.s = ask.s /\ q.op = ask.op /\ q.pos = 0 /\ q.ph = "done"
      /\ q.found = <<>>
  BY <1>1, <1>3, <1>4, <1>5 DEF CallType, Root, slots
<1> HIDE DEF first, q, r
<1>8. Sane(first) /\ AllBehind(first) /\ RowsOf(first, 0) /\ Sane(q)
  BY <1>1, <1>5, <1>6, <1>7 DEF Sane, InOrder, AllBehind, RowsOf
<1>9. CASE ask.op = "Split" /\ ask.n \in {0, 1}
  <2>1. RowsAtEnd(q)
    BY <1>7, <1>9 DEF RowsAtEnd, Submatch
  <2> QED
    BY <1>2, <1>7, <1>8, <1>9, <2>1 DEF CallInv, r
<1>10. CASE ~(ask.op = "Split" /\ ask.n \in {0, 1})
  BY <1>2, <1>6, <1>8, <1>10, AtTopOfLoop DEF r
<1> QED
  BY <1>9, <1>10

----------------------------------------------------------------------------
(* The goroutines.                                                         *)

PCs == {"idle", "loop", "rlock", "reading", "lock", "writing"}

\* The lock names those who are in it.
LockInv ==
  /\ lock = [readers |-> lock.readers, writer |-> lock.writer]
  /\ pc \in [Caller -> PCs]
  /\ lock.readers = {g \in Caller : pc[g] = "reading"}
  /\ \A g \in Caller : pc[g] = "writing" <=> lock.writer = g
  /\ lock.writer = None \/ lock.readers = {}

\* The tagged automaton, once it is built.
TaggedInv ==
  Shape(tdfa) /\ (~Program[pat].hasAssertions => Exact(pat, tdfa))

\* A goroutine's call: it is done once it has returned, and only the writer's may
\* have its match run over.
CallerInv(g) ==
  Called(g) \/ pc[g] # "idle" =>
    /\ asked[g] \in Request
    /\ CallInv(pat, call[g])
    /\ call[g].s = asked[g].s /\ call[g].op = asked[g].op
    /\ pc[g] = "idle" => call[g].ph = "done"
    /\ pc[g] = "loop" => call[g].op \in Looping
    /\ pc[g] \in {"rlock", "reading"} => call[g].op \in Submatch
    /\ call[g].ph = "run" =>
         pc[g] = "writing" /\ TaggedInv /\ call[g].st \in 1..Len(tdfa.asts)

\* The inductive invariant.  Successive alone is not inductive: the next match is
\* after the others only because pos is; nor is GroupsInside, without the slots
\* of the run under way; and those are right only while no other goroutine
\* touches the automaton.
Inv ==
  /\ pat \in Pattern
  /\ LockInv
  /\ asked \in [Caller -> Request \cup {None}]
  /\ call \in [Caller -> CallType \cup {None}]
  /\ tdfa = None \/ TaggedInv
  /\ \A g \in Caller : CallerInv(g)

LEMMA InitInv == Init => Inv
<1> SUFFICES ASSUME Init
             PROVE  Inv
  OBVIOUS
<1>1. lock = [readers |-> {}, writer |-> None]
  BY DEF Init, Unlocked
<1>2. LockInv
  BY <1>1, IterationAssumption DEF Init, LockInv, PCs
<1>3. \A g \in Caller : CallerInv(g)
  BY DEF Init, CallerInv, Called
<1> QED
  BY <1>2, <1>3 DEF Init, Inv

\* The lock alone.
LEMMA LockStep == LockInv /\ [Next]_vars => LockInv'
<1> SUFFICES ASSUME LockInv, [Next]_vars
             PROVE  LockInv'
  OBVIOUS
<1> DEFINE readers == lock.readers
           writer == lock.writer
<1>0. lock = [readers |-> readers, writer |-> writer]
  BY DEF LockInv
<1> USE DEF LockInv, Go, PCs
<1>1. ASSUME NEW g \in Caller, NEW q \in Request, Call(g, q)
      PROVE  LockInv'
  <2> DEFINE to == Entry(q)
  <2>1. to \in {"loop", "rlock", "lock"}
    BY DEF Entry
  <2>2. pc[g] = "idle" /\ pc' = [pc EXCEPT ![g] = to] /\ lock' = lock
    BY <1>1, Zenon DEF Call
  <2> HIDE DEF to
  <2> QED
    BY <2>1, <2>2
<1>9. ASSUME NEW g \in Caller, ReturnAtOnce(g)
      PROVE  LockInv'
  BY <1>9 DEF ReturnAtOnce
<1>2. ASSUME NEW g \in Caller, Loop(g)
      PROVE  LockInv'
  <2>1. PICK to \in {"idle", "loop"} : pc' = [pc EXCEPT ![g] = to]
    BY <1>2, Zenon DEF Loop
  <2>2. pc[g] = "loop" /\ lock' = lock
    BY <1>2, Zenon DEF Loop
  <2> QED
    BY <2>1, <2>2
<1>3. ASSUME NEW g \in Caller, RLock(g)
      PROVE  LockInv'
  <2>1. lock' = [readers |-> readers \cup {g}, writer |-> writer]
    <3>1. lock' = [lock EXCEPT !.readers = lock.readers \cup {g}]
      BY <1>3, Zenon DEF RLock
    <3> HIDE DEF readers, writer
    <3> QED
      BY <1>0, <3>1 DEF readers
  <2>2. /\ pc[g] = "rlock" /\ pc' = [pc EXCEPT ![g] = "reading"]
        /\ lock.writer = None
    BY <1>3 DEF RLock
  <2> QED
    BY <2>1, <2>2
<1>4. ASSUME NEW g \in Caller, NEW to \in {"idle", "lock"}, pc[g] = "reading", RUnlock(g, to)
      PROVE  LockInv'
  <2>1. lock' = [readers |-> readers \ {g}, writer |-> writer]
    <3>1. lock' = [lock EXCEPT !.readers = lock.readers \ {g}]
      BY <1>4, Zenon DEF RUnlock
    <3> HIDE DEF readers, writer
    <3> QED
      BY <1>0, <3>1 DEF readers
  <2>2. pc' = [pc EXCEPT ![g] = to]
    BY <1>4 DEF RUnlock
  <2> QED
    BY <1>4, <2>1, <2>2
<1>5. ASSUME NEW g \in Caller, Read(g)
      PROVE  LockInv'
  <2>1. CASE Miss(g)
    BY <1>4, <2>1 DEF Miss
  <2>2. CASE ReadTurn(g)
    <3>1. pc[g] = "reading" /\ (RUnlock(g, "idle") \/ UNCHANGED <<lock, pc>>)
      BY <2>2, Zenon DEF ReadTurn, Hit
    <3>2. CASE RUnlock(g, "idle")
      BY <1>4, <3>1, <3>2
    <3>3. CASE UNCHANGED <<lock, pc>>
      BY <3>3
    <3> QED
      BY <3>1, <3>2, <3>3
  <2> QED
    BY <1>5, <2>1, <2>2 DEF Read
<1>6. ASSUME NEW g \in Caller, Lock(g)
      PROVE  LockInv'
  <2>1. lock = [readers |-> {}, writer |-> None] /\ lock' = [lock EXCEPT !.writer = g]
    BY <1>6, Zenon DEF Lock, Free, Unlocked
  <2>2. lock' = [readers |-> {}, writer |-> g]
    BY <2>1
  <2>3. pc[g] = "lock" /\ pc' = [pc EXCEPT ![g] = "writing"]
    BY <1>6 DEF Lock
  <2>4. \A h \in Caller : pc[h] # "writing" /\ pc[h] # "reading"
    BY <2>1, IterationAssumption
  <2> QED
    BY <2>2, <2>3, <2>4
<1>7. ASSUME NEW g \in Caller, Write(g)
      PROVE  LockInv'
  <2>1. CASE WriteSearch(g)
    BY <2>1 DEF WriteSearch
  <2>2. CASE WriteRun(g)
    BY <2>2 DEF WriteRun
  <2>3. CASE Unlock(g)
    <3>1. lock' = [readers |-> readers, writer |-> None]
      <4>1. lock' = [lock EXCEPT !.writer = None]
        BY <2>3, Zenon DEF Unlock
      <4> HIDE DEF readers, writer
      <4> QED
        BY <1>0, <4>1
    <3>2. pc[g] = "writing" /\ pc' = [pc EXCEPT ![g] = "idle"]
      BY <2>3 DEF Unlock
    <3>3. \A h \in Caller : h # g => pc[h] # "writing"
      BY <3>2
    <3> QED
      BY <3>1, <3>2, <3>3, IterationAssumption
  <2> QED
    BY <1>7, <2>1, <2>2, <2>3 DEF Write
<1>8. CASE UNCHANGED vars
  BY <1>8 DEF vars
<1> QED
  BY <1>1, <1>2, <1>3, <1>5, <1>6, <1>7, <1>8, <1>9 DEF Next, Proceed

\* What one goroutine does disturbs no other: only the writer touches the
\* automaton, and there is one writer.
LEMMA OneMoves ==
  ASSUME Inv, LockInv', NEW g \in Caller,
         NEW to, pc' = [pc EXCEPT ![g] = to],
         NEW q \in Request, asked' = [asked EXCEPT ![g] = q],
         NEW r \in CallType, call' = [call EXCEPT ![g] = r],
         pat' = pat, tdfa' = tdfa \/ pc[g] = "writing",
         tdfa' = None \/ TaggedInv', CallerInv(g)'
  PROVE  Inv'
<1>1. asked' \in [Caller -> Request \cup {None}] /\ call' \in [Caller -> CallType \cup {None}]
  BY DEF Inv
<1>2. ASSUME NEW h \in Caller, h # g
      PROVE  CallerInv(h)'
  <2>1. pc'[h] = pc[h] /\ asked'[h] = asked[h] /\ call'[h] = call[h] /\ CallerInv(h)
    BY <1>2 DEF Inv, LockInv
  <2>2. tdfa' = tdfa \/ pc[h] # "writing"
    BY <1>2 DEF Inv, LockInv
  <2> QED
    BY <2>1, <2>2 DEF CallerInv, Called, TaggedInv
<1> QED
  BY <1>1, <1>2 DEF Inv

\* What is known of the goroutine that moves on with its call.
LEMMA Mover ==
  ASSUME Inv, NEW g \in Caller, pc[g] # "idle"
  PROVE  /\ asked[g] \in Request
         /\ asked = [asked EXCEPT ![g] = asked[g]]
         /\ call[g] \in CallType
         /\ call = [call EXCEPT ![g] = call[g]]
         /\ pc = [pc EXCEPT ![g] = pc[g]]
         /\ CallInv(pat, call[g])
         /\ call[g].s = asked[g].s /\ call[g].op = asked[g].op
BY DEF Inv, LockInv, CallerInv, CallInv, Sane

\* A goroutine goes on with call r, whose match nobody runs over.
LEMMA GoesOn ==
  ASSUME Inv, NEW g \in Caller, CallerInv(g)', pc[g] # "idle",
         asked' = asked, NEW r \in CallType, call' = [call EXCEPT ![g] = r],
         NEW to, pc' = [pc EXCEPT ![g] = to], pat' = pat,
         tdfa' = tdfa \/ pc[g] = "writing", tdfa' = None \/ TaggedInv', [Next]_vars
  PROVE  Inv'
<1>1. asked[g] \in Request /\ asked' = [asked EXCEPT ![g] = asked[g]]
  BY Mover
<1>2. LockInv'
  BY LockStep DEF Inv
<1> QED
  BY <1>1, <1>2, OneMoves

LEMMA CallStep ==
  ASSUME Inv, [Next]_vars, NEW g \in Caller, NEW q \in Request, Call(g, q)
  PROVE  Inv'
<1> DEFINE r == NewCall(q, q.way)
           to == Entry(q)
<1>1. /\ pc' = [pc EXCEPT ![g] = to] /\ asked' = [asked EXCEPT ![g] = q]
      /\ call' = [call EXCEPT ![g] = r] /\ pat' = pat /\ tdfa' = tdfa /\ lock' = lock
  BY Zenon DEF Call, Go, Do
<1>2. q.way \in {"wrapper", "engine"} /\ q.op \in Looping \cup Submatch
  BY IterationAssumption
<1>3. CallInv(pat, r) /\ r.ph \in {"search", "done"} /\ r.s = q.s /\ r.op = q.op
  BY <1>2, NewCallInv
<1>4. /\ to # "idle"
      /\ to = "loop" => q.op \in Looping
      /\ to \in {"rlock", "reading"} => q.op \in Submatch
  BY <1>2 DEF Entry
<1> HIDE DEF r, to
<1>5. r \in CallType
  BY <1>3 DEF CallInv, Sane
<1>6. LockInv'
  BY LockStep DEF Inv
<1>7. pc'[g] = to /\ asked'[g] = q /\ call'[g] = r
  BY <1>1 DEF Inv, LockInv
<1>8. CallerInv(g)'
  BY <1>1, <1>3, <1>4, <1>7 DEF CallerInv
<1>9. tdfa' = None \/ TaggedInv'
  BY <1>1 DEF Inv, TaggedInv
<1> QED
  BY <1>1, <1>5, <1>6, <1>8, <1>9, OneMoves

LEMMA LoopStep ==
  ASSUME Inv, [Next]_vars, NEW g \in Caller, Loop(g)
  PROVE  Inv'
<1> DEFINE r == Turn(pat, call[g])
           to == IF r.ph = "done" THEN "idle" ELSE "loop"
<1>1. /\ pc[g] = "loop" /\ pc' = [pc EXCEPT ![g] = to] /\ asked' = asked
      /\ call' = [call EXCEPT ![g] = r] /\ pat' = pat /\ tdfa' = tdfa
      /\ call[g].ph = "search"
  BY Zenon DEF Loop, Go, Do
<1>2. /\ CallInv(pat, call[g]) /\ call[g].ph = "search" /\ call[g].op \in Looping
      /\ call[g].s = asked[g].s /\ call[g].op = asked[g].op /\ asked[g] \in Request
      /\ pat \in Pattern
  BY <1>1 DEF Inv, CallerInv
<1>3. CallInv(pat, r) /\ r.ph \in {"search", "done"} /\ r.s = call[g].s /\ r.op = call[g].op
  BY <1>2, TurnInv DEF CallInv
<1> HIDE DEF r
<1>4. r \in CallType
  BY <1>3 DEF CallInv, Sane
<1>5. pc'[g] = to /\ call'[g] = r /\ to \in {"idle", "loop"}
      /\ (to = "idle" => r.ph = "done")
  BY <1>1, <1>3 DEF Inv, LockInv
<1> HIDE DEF to
<1>6. CallerInv(g)'
  BY <1>1, <1>2, <1>3, <1>5 DEF CallerInv
<1>7. tdfa' = None \/ TaggedInv'
  BY <1>1 DEF Inv, TaggedInv
<1> QED
  BY <1>1, <1>4, <1>6, <1>7, GoesOn

\* The call itself is left alone.
LEMMA GoOnlyStep ==
  ASSUME Inv, [Next]_vars, NEW g \in Caller, pc[g] # "idle",
         NEW to \in {"idle", "reading", "lock"}, pc' = [pc EXCEPT ![g] = to],
         UNCHANGED <<pat, tdfa, asked, call>>,
         call[g].ph # "run", to = "reading" => pc[g] = "rlock",
         to = "idle" => call[g].ph = "done"
  PROVE  Inv'
<1>1. /\ asked[g] \in Request /\ call[g] \in CallType /\ CallInv(pat, call[g])
      /\ call[g].s = asked[g].s /\ call[g].op = asked[g].op
      /\ call' = [call EXCEPT ![g] = call[g]]
  BY Mover
<1>2. pc'[g] = to
  BY DEF Inv, LockInv
<1>3. to = "reading" => call[g].op \in Submatch
  BY DEF Inv, CallerInv
<1>4. CallerInv(g)'
  BY <1>1, <1>2, <1>3 DEF CallerInv
<1>5. tdfa' = None \/ TaggedInv'
  BY DEF Inv, TaggedInv
<1> QED
  BY <1>1, <1>4, <1>5, GoesOn

LEMMA ReadTurnStep ==
  ASSUME Inv, [Next]_vars, NEW g \in Caller, ReadTurn(g)
  PROVE  Inv'
<1> DEFINE r == CachedTurn(pat, call[g])
           loc == FindInSuffix(pat, call[g])
           to == IF r.ph = "done" THEN "idle" ELSE "reading"
<1>1. /\ pc[g] = "reading" /\ asked' = asked /\ pat' = pat /\ tdfa' = tdfa
      /\ r.ph # "run" /\ call' = [call EXCEPT ![g] = r]
      /\ IF r.ph = "done" THEN pc' = [pc EXCEPT ![g] = "idle"] ELSE pc' = pc
  <2>1. /\ pc[g] = "reading" /\ UNCHANGED <<pat, tdfa, asked>>
        /\ r.ph # "run" /\ Do(g, r)
        /\ IF r.ph = "done" THEN RUnlock(g, "idle") ELSE UNCHANGED <<lock, pc>>
    <3>1. PICK x \in {r} : /\ x.ph # "run" /\ Do(g, x)
                           /\ IF x.ph = "done" THEN RUnlock(g, "idle") ELSE UNCHANGED <<lock, pc>>
      BY Zenon DEF ReadTurn
    <3>2. pc[g] = "reading" /\ UNCHANGED <<pat, tdfa, asked>>
      BY Zenon DEF ReadTurn, Hit
    <3>3. x = r
      OBVIOUS
    <3> HIDE DEF r
    <3> QED
      BY <3>1, <3>2, <3>3
  <2> HIDE DEF r
  <2> QED
    BY <2>1 DEF RUnlock, Go, Do
<1>2. /\ CallInv(pat, call[g]) /\ call[g].op \in Submatch /\ call[g].ph # "run"
      /\ call[g].s = asked[g].s /\ call[g].op = asked[g].op /\ asked[g] \in Request
      /\ pat \in Pattern
      /\ call[g].ph \in {"search", "done"}
  BY <1>1, CallFields DEF Inv, CallerInv, CallInv, Sane
<1>3. CallInv(pat, r) /\ r.s = call[g].s /\ r.op = call[g].op
  <2>1. CASE call[g].ph = "done"
    BY <1>2, <2>1 DEF CachedTurn
  <2>2. CASE call[g].ph = "search"
    <3>1. Ready(call[g]) /\ loc \in {Nil} \cup Location(call[g].s, call[g].pos)
      BY <1>2, <2>2, FoundFromPos DEF CallInv
    <3>2. r = IF loc = Nil THEN LastSearch(call[g]) ELSE Matched(pat, call[g], loc)
      BY <2>2 DEF CachedTurn
    <3> HIDE DEF loc, r
    <3> QED
      BY <1>2, <3>1, <3>2, LastSearchInv, MatchedInv
  <2> QED
    BY <1>2, <2>1, <2>2
<1> HIDE DEF r
<1>4. r \in CallType /\ (r.ph = "done" \/ r.ph = "search")
  BY <1>1, <1>3, CallFields DEF CallInv, Sane
<1>5. pc' = [pc EXCEPT ![g] = to] /\ to \in {"idle", "reading"} /\ (to = "idle" => r.ph = "done")
  BY <1>1, <1>4 DEF Inv, LockInv
<1>6. pc'[g] = to /\ call'[g] = r
  BY <1>1, <1>5 DEF Inv, LockInv
<1> HIDE DEF to
<1>7. CallerInv(g)'
  BY <1>1, <1>2, <1>3, <1>5, <1>6 DEF CallerInv
<1>8. tdfa' = None \/ TaggedInv'
  BY <1>1 DEF Inv, TaggedInv
<1> QED
  BY <1>1, <1>4, <1>5, <1>7, <1>8, GoesOn

\* The call starts over.
LEMMA EnterStep ==
  ASSUME Inv, [Next]_vars, NEW g \in Caller, Lock(g)
  PROVE  Inv'
<1> DEFINE r == NewCall(asked[g], "engine")
<1>1. /\ pc[g] = "lock" /\ pc' = [pc EXCEPT ![g] = "writing"] /\ asked' = asked
      /\ call' = [call EXCEPT ![g] = r] /\ pat' = pat /\ tdfa' = tdfa
  BY Zenon DEF Lock, Go, Do
<1>2. asked[g] \in Request
  BY <1>1, Mover
<1>3. CallInv(pat, r) /\ r.ph \in {"search", "done"} /\ r.s = asked[g].s /\ r.op = asked[g].op
  BY <1>2, NewCallInv
<1> HIDE DEF r
<1>4. r \in CallType
  BY <1>3 DEF CallInv, Sane
<1>5. pc'[g] = "writing" /\ call'[g] = r
  BY <1>1 DEF Inv, LockInv
<1>6. CallerInv(g)'
  BY <1>1, <1>2, <1>3, <1>5 DEF CallerInv
<1>7. tdfa' = None \/ TaggedInv'
  BY <1>1 DEF Inv, TaggedInv
<1> QED
  BY <1>1, <1>4, <1>6, <1>7, GoesOn

\* The automaton, if there is one, or else a new one.
LEMMA TaggedBuilt ==
  ASSUME Inv
  PROVE  /\ Shape(Tagged(pat))
         /\ ~Program[pat].hasAssertions => Exact(pat, Tagged(pat))
         /\ tdfa # None => Tagged(pat) = tdfa
         /\ Root \in 1..Len(Tagged(pat).asts)
<1>1. CASE tdfa = None
  <2>1. Tagged(pat) = NewLazyTDFA(Program[pat].root)
    BY <1>1 DEF Tagged
  <2>2. Program[pat].root \in TagTree
        /\ (~Program[pat].hasAssertions => Program[pat].root \in ContextFree)
    BY IterationAssumption DEF Inv
  <2>3. Shape(Tagged(pat)) /\ (~Program[pat].hasAssertions => Exact(pat, Tagged(pat)))
    BY <2>1, <2>2, NewTaggedShape, NewTaggedRight DEF Exact
  <2> QED
    BY <1>1, <2>3 DEF Shape, Root
<1>2. CASE tdfa # None
  BY <1>2 DEF Tagged, Inv, TaggedInv, Shape, Root
<1> QED
  BY <1>1, <1>2

\* A writer's step that moves it to call r and the automaton to d.
LEMMA WriterMoves ==
  ASSUME Inv, [Next]_vars, NEW g \in Caller, pc[g] = "writing",
         UNCHANGED <<pat, pc, asked>>, NEW r, call' = [call EXCEPT ![g] = r],
         CallInv(pat, r), r.s = call[g].s, r.op = call[g].op,
         tdfa' = None \/ TaggedInv',
         r.ph = "run" => TaggedInv' /\ r.st \in 1..Len(tdfa'.asts)
  PROVE  Inv'
<1>1. /\ asked[g] \in Request /\ call[g].s = asked[g].s /\ call[g].op = asked[g].op
      /\ pc' = [pc EXCEPT ![g] = pc[g]]
  BY Mover
<1>2. r \in CallType
  BY DEF CallInv, Sane
<1>3. call'[g] = r
  BY DEF Inv
<1>4. CallerInv(g)'
  BY <1>1, <1>3 DEF CallerInv
<1> QED
  BY <1>1, <1>2, <1>4, GoesOn

LEMMA WriteSearchStep ==
  ASSUME Inv, [Next]_vars, NEW g \in Caller, WriteSearch(g)
  PROVE  Inv'
<1> DEFINE loc == Find[pat][call[g].s][call[g].pos]
           r == IF call[g].op \in Looping THEN Turn(pat, call[g]) ELSE SubmatchTurn(pat, call[g])
           d == IF r.ph = "run" THEN Tagged(pat) ELSE tdfa
<1>1. /\ pc[g] = "writing" /\ call[g].ph = "search"
      /\ UNCHANGED <<pat, pc, asked>> /\ pat' = pat
      /\ call' = [call EXCEPT ![g] = r] /\ tdfa' = d
  BY Zenon DEF WriteSearch, Do
<1>2. CallInv(pat, call[g]) /\ call[g] \in CallType
  BY <1>1, Mover
<1>3. Ready(call[g]) /\ pat \in Pattern /\ call[g].op \in Looping \cup Submatch
  BY <1>1, <1>2, CallFields DEF CallInv, Inv
<1>4. /\ CallInv(pat, r) /\ r.s = call[g].s /\ r.op = call[g].op
      /\ r.ph = "run" => r.st = Root
  <2>1. CASE call[g].op \in Looping
    <3>1. r = Turn(pat, call[g])
      BY <2>1
    <3> HIDE DEF r
    <3> QED
      BY <1>3, <2>1, <3>1, TurnInv
  <2>2. CASE call[g].op \notin Looping
    <3>1. loc \in {Nil} \cup Location(call[g].s, call[g].pos)
      BY <1>3, FoundFromPos
    <3>2. r = IF loc = Nil THEN LastSearch(call[g]) ELSE Matched(pat, call[g], loc)
      BY <2>2 DEF SubmatchTurn
    <3>3. call[g].op \in Submatch
      BY <1>3, <2>2
    <3> HIDE DEF r, loc
    <3> QED
      BY <1>3, <3>1, <3>2, <3>3, LastSearchInv, MatchedInv
  <2> QED
    BY <2>1, <2>2
<1> HIDE DEF r
<1>5. /\ tdfa' = None \/ TaggedInv'
      /\ r.ph = "run" => TaggedInv' /\ r.st \in 1..Len(tdfa'.asts)
  BY <1>1, <1>4, TaggedBuilt DEF Inv, TaggedInv
<1> HIDE DEF d
<1> QED
  BY <1>1, <1>4, <1>5, WriterMoves

LEMMA WriteRunStep ==
  ASSUME Inv, [Next]_vars, NEW g \in Caller, WriteRun(g)
  PROVE  Inv' /\ Shape(tdfa') /\ Extends(tdfa, tdfa')
<1> DEFINE byte == RunByte(pat, tdfa, call[g])
           end == RunEnd(tdfa, call[g])
           next == IF call[g].at < Len(Span(call[g])) THEN byte ELSE end
<1>1. /\ pc[g] = "writing" /\ call[g].ph = "run"
      /\ UNCHANGED <<pat, pc, asked>> /\ pat' = pat
      /\ call' = [call EXCEPT ![g] = next.r] /\ tdfa' = next.dfa
  BY Zenon DEF WriteRun, Do
<1>2. /\ Running(pat, call[g]) /\ TaggedInv /\ call[g].st \in 1..Len(tdfa.asts)
      /\ pat \in Pattern /\ Shape(tdfa)
  BY <1>1 DEF Inv, CallerInv, CallInv, TaggedInv
<1>3. /\ CallInv(pat, next.r) /\ next.r.s = call[g].s /\ next.r.op = call[g].op
      /\ Shape(next.dfa) /\ Extends(tdfa, next.dfa)
      /\ Exact(pat, tdfa) => Exact(pat, next.dfa)
      /\ next.r.ph = "run" => next.r.st \in 1..Len(next.dfa.asts)
  <2>1. CASE call[g].at < Len(Span(call[g]))
    <3>1. next = byte
      BY <2>1
    <3> HIDE DEF next
    <3> QED
      BY <1>1, <1>2, <2>1, <3>1, RunByteInv
  <2>2. CASE ~(call[g].at < Len(Span(call[g])))
    <3>1. next = end
      BY <2>2
    <3>2. Extends(tdfa, tdfa)
      BY <1>2 DEF Extends, Shape
    <3> HIDE DEF next
    <3> QED
      BY <1>2, <3>1, <3>2, RunEndInv
  <2> QED
    BY <2>1, <2>2
<1> HIDE DEF next
<1>4. TaggedInv'
  BY <1>1, <1>2, <1>3 DEF TaggedInv
<1> DEFINE r == next.r
<1> HIDE DEF r
<1>5. Inv'
  <2>1. /\ call' = [call EXCEPT ![g] = r]
        /\ CallInv(pat, r) /\ r.s = call[g].s /\ r.op = call[g].op
        /\ r.ph = "run" => TaggedInv' /\ r.st \in 1..Len(tdfa'.asts)
    BY <1>1, <1>3, <1>4 DEF r
  <2> QED
    BY <1>1, <1>4, <2>1, WriterMoves
<1> QED
  BY <1>1, <1>3, <1>5

LEMMA InvStep == Inv /\ [Next]_vars => Inv'
<1> SUFFICES ASSUME Inv, [Next]_vars
             PROVE  Inv'
  OBVIOUS
<1>1. ASSUME NEW g \in Caller, NEW q \in Request, Call(g, q)
      PROVE  Inv'
  BY <1>1, CallStep
<1>2. ASSUME NEW g \in Caller, Loop(g)
      PROVE  Inv'
  BY <1>2, LoopStep
<1>12. ASSUME NEW g \in Caller, ReturnAtOnce(g)
       PROVE  Inv'
  BY <1>12, GoOnlyStep DEF ReturnAtOnce, Go
<1>3. ASSUME NEW g \in Caller, pc[g] \in {"rlock", "reading"}
      PROVE  call[g].ph # "run"
  BY <1>3 DEF Inv, CallerInv
<1>4. ASSUME NEW g \in Caller, RLock(g)
      PROVE  Inv'
  BY <1>3, <1>4, GoOnlyStep DEF RLock, Go
<1>5. ASSUME NEW g \in Caller, Miss(g)
      PROVE  Inv'
  BY <1>3, <1>5, GoOnlyStep DEF Miss, RUnlock, Go
<1>6. ASSUME NEW g \in Caller, ReadTurn(g)
      PROVE  Inv'
  BY <1>6, ReadTurnStep
<1>7. ASSUME NEW g \in Caller, Lock(g)
      PROVE  Inv'
  BY <1>7, EnterStep
<1>8. ASSUME NEW g \in Caller, WriteSearch(g)
      PROVE  Inv'
  BY <1>8, WriteSearchStep
<1>9. ASSUME NEW g \in Caller, WriteRun(g)
      PROVE  Inv'
  BY <1>9, WriteRunStep
<1>10. ASSUME NEW g \in Caller, Unlock(g)
       PROVE  Inv'
  BY <1>10, GoOnlyStep DEF Unlock, Go
<1>11. CASE UNCHANGED vars
  <2>1. LockInv'
    BY LockStep DEF Inv
  <2> QED
    BY <1>11, <2>1 DEF vars, Inv, CallerInv, Called, TaggedInv
<1> QED
  BY <1>1, <1>2, <1>4, <1>5, <1>6, <1>7, <1>8, <1>9, <1>10, <1>11, <1>12
     DEF Next, Proceed, Read, Write

THEOREM InvAlways == Spec => []Inv
BY InitInv, InvStep, PTL DEF Spec

----------------------------------------------------------------------------
(* The properties the run iteration checks.                                *)

\* Type correctness: the lock names who is in it, and a call's automaton is in
\* a state that exists (concurrent.go 222-720, tdfa.go 387-439).
THEOREM IterationTypes == Spec => []TypeOK
<1>1. Inv => TypeOK
  <2> SUFFICES ASSUME Inv
               PROVE  TypeOK
    OBVIOUS
  <2>1. ASSUME NEW g \in Caller, Called(g)
        PROVE  LET r == call[g]
               IN  /\ r.s = asked[g].s /\ r.op = asked[g].op
                   /\ r.ph \in {"search", "run", "done"}
                   /\ r.pos \in 0..Len(r.s) + 1
                   /\ r.ph = "search" => r.pos <= Len(r.s)
                   /\ r.ph = "run" => /\ r.at \in 0..Len(Span(r))
                                     /\ r.st \in 1..Len(tdfa.asts)
                                     /\ DOMAIN r.slots = 0..Program[pat].captures
    <3> DEFINE r == call[g]
    <3>1. /\ CallInv(pat, r) /\ r.s = asked[g].s /\ r.op = asked[g].op
          /\ r.ph = "run" => r.st \in 1..Len(tdfa.asts)
      BY <2>1 DEF Inv, CallerInv
    <3> HIDE DEF r
    <3>2. /\ r.pos \in Nat /\ Len(r.s) \in Nat /\ r.pos <= Len(r.s) + 1 /\ r.at \in Nat
          /\ r.ph \in {"search", "run", "done"}
      BY <3>1, CallFields DEF CallInv, Sane
    <3>3. r.ph = "search" => r.pos <= Len(r.s)
      BY <3>1 DEF CallInv, Ready
    <3>4. ASSUME r.ph = "run"
          PROVE  r.at \in 0..Len(Span(r)) /\ DOMAIN r.slots = 0..Program[pat].captures
      <4>1. Running(pat, r)
        BY <3>1, <3>4 DEF CallInv
      <4>2. Len(Span(r)) \in Nat
        BY <4>1, SpanIs DEF Running
      <4> QED
        BY <3>2, <4>1, <4>2 DEF Running
    <3> QED
      BY <3>1, <3>2, <3>3, <3>4 DEF r
  <2> QED
    BY <2>1 DEF TypeOK, Inv, LockInv, PCs
<1> QED
  BY <1>1, InvAlways, PTL

\* Matches come in order and do not overlap, whatever the loop, the way it was
\* called and who else was calling (regexp.go 35-55, 389-477, 755-882).
THEOREM MatchesSuccessive == Spec => []Successive
<1>1. Inv => Successive
  <2> SUFFICES ASSUME Inv, NEW g \in Caller, Called(g)
               PROVE  LET r == call[g]
                      IN  /\ \A k \in DOMAIN r.found :
                               r.found[k] \in Location(r.s, 0) /\ r.found[k][1] >= k - 1
                          /\ \A k, m \in DOMAIN r.found :
                               k < m => /\ r.found[k][1] < r.found[m][1]
                                        /\ r.found[k][2] <= r.found[m][1]
    BY DEF Successive
  <2>1. call[g] \in CallType /\ InOrder(call[g])
    BY DEF Inv, CallerInv, CallInv, Sane
  <2>2. DOMAIN call[g].found = 1..Len(call[g].found)
    BY <2>1, CallFields
  <2> QED
    BY <2>1, <2>2 DEF InOrder
<1> QED
  BY <1>1, InvAlways, PTL

\* Groups lie in their match (regexp.go 483-752, tdfa.go 387-439).
THEOREM GroupsAlwaysInside == Spec => []GroupsInside
<1>1. Inv => GroupsInside
  <2> SUFFICES ASSUME Inv, NEW g \in Caller, Called(g), call[g].op \in Submatch
               PROVE  \A k \in DOMAIN call[g].out : InMatch(call[g].out[k], call[g].found[k])
    BY DEF GroupsInside, InMatch
  <2> DEFINE r == call[g]
  <2>1. r \in CallType /\ CallInv(pat, r)
    BY DEF Inv, CallerInv, CallInv, Sane
  <2>2. r.ph \in {"search", "run", "done"} /\ DOMAIN r.out = 1..Len(r.out)
    BY <2>1, CallFields
  <2> HIDE DEF r
  <2>3. r.op \in Submatch
    BY DEF r
  <2>4. \A k \in 1..Len(r.out) : InMatch(r.out[k], r.found[k])
    BY <2>1, <2>2, <2>3 DEF CallInv, Ready, Running, RowsOf, RowsAtEnd
  <2> QED
    BY <2>2, <2>4 DEF r
<1> QED
  BY <1>1, InvAlways, PTL

\* A transition learned at one position is right at all others, without
\* assertions (tdfa.go 305-355).
THEOREM TransitionsAlwaysFresh == Spec => []TransitionsAreFresh
<1>1. Inv => TransitionsAreFresh
  BY DEF Inv, TaggedInv, Exact, Fresh, IsFirst, TransitionsAreFresh
<1> QED
  BY <1>1, InvAlways, PTL

\* The tagged automaton grows under the write lock only, and forgets nothing
\* (concurrent.go 222-599, regexp.go 549-637, tdfa.go 279-355).
THEOREM TaggedAlwaysGrows == Spec => TaggedGrows
<1> DEFINE Grows == tdfa' # tdfa =>
             /\ Exclusive
             /\ tdfa # None =>
                  /\ Len(tdfa.asts) <= Len(tdfa'.asts)
                  /\ \A st \in 1..Len(tdfa.asts) : tdfa'.asts[st] = tdfa.asts[st]
                  /\ \A st \in 1..Len(tdfa.asts), b \in Letter :
                       tdfa.rows[st][b] # Unknown => tdfa'.rows[st][b] = tdfa.rows[st][b]
<1>1. Inv /\ [Next]_vars => [Grows]_vars
  <2> SUFFICES ASSUME Inv, [Next]_vars, tdfa' # tdfa
               PROVE  Grows
    BY DEF vars
  <2>1. PICK g \in Caller : WriteSearch(g) \/ WriteRun(g)
    BY Zenon DEF Next, Proceed, Call, ReturnAtOnce, Loop, RLock, Read, Miss, ReadTurn, Lock, Write,
       Unlock, vars
  <2>2. Exclusive
    <3>1. pc[g] = "writing"
      BY <2>1 DEF WriteSearch, WriteRun
    <3>2. g # None
      BY IterationAssumption
    <3>3. lock.writer = g /\ lock = [readers |-> {}, writer |-> g]
      BY <3>1, <3>2 DEF Inv, LockInv
    <3> QED
      BY <3>1, <3>3 DEF Exclusive
  <2>3. CASE WriteSearch(g)
    <3>1. tdfa' = tdfa \/ tdfa' = Tagged(pat)
      BY <2>3, Zenon DEF WriteSearch
    <3> QED
      BY <2>2, <3>1, TaggedBuilt
  <2>4. CASE WriteRun(g)
    BY <2>2, <2>4, WriteRunStep DEF Extends
  <2> QED
    BY <2>1, <2>3, <2>4
<1>2. Inv /\ [Next]_vars => [Grows]_vars
  BY <1>1
<1> QED
  BY <1>2, InvAlways, PTL DEF Spec, TaggedGrows

=============================================================================
