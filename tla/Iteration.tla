----------------------------- MODULE Iteration -----------------------------
(***************************************************************************)
(* What is built on a search: the loops of FindAll, Split and ReplaceAll,  *)
(* and the submatches (regexp.go), called by goroutines that share an      *)
(* engine behind the wrapper of concurrent.go.                             *)
(*                                                                         *)
(* A search is one step here: Find is the answer of findStringIndexFrom,   *)
(* which Searching.tla and Concurrent.tla are about.  The wrapper's loops  *)
(* take the write lock for each search and let others in between; its      *)
(* submatch methods first try without the write lock and then run the      *)
(* engine's method under it from the start; its methods that take a        *)
(* context run the engine's method under it at once (way "engine", which   *)
(* is also what an engine without a wrapper does for a single caller).     *)
(***************************************************************************)
EXTENDS TaggedDFA, MatchContext, FiniteSets

CONSTANTS
  Pattern,   \* compiled expressions
  Program,   \* Program[p]: what the methods need of the compiled expression
  Input,     \* the texts, closed under suffixes
  Find,      \* Find[p][s][pos]: the location found in s from pos on, or Nil
  Caller,    \* goroutines
  Request,   \* the calls they make
  None,
  Spans,     \* Spans[p][s]: the matches of p in s
  Answer     \* Answer[p][q]: the matches and the result call q means to return

NoPos == -1
Nil   == <<>>

Looping == {"FindAll", "Split", "ReplaceAll", "ReplaceAllString"}
Submatch == {"FindSubmatch", "FindAllSubmatch"}

Suffix(s, pos) == SubSeq(s, pos + 1, Len(s))

\* A location found from pos on.
Location(s, pos) == {loc \in (pos..Len(s)) \X (pos..Len(s)) : loc[1] <= loc[2]}

ASSUME IterationAssumption ==
  /\ Letter \subseteq Nat
  /\ \A s \in Input : s \in Seq(Letter) /\ \A pos \in 0..Len(s) : Suffix(s, pos) \in Input
  /\ Program \in [Pattern -> [root : TagTree, captures : Nat, hasAssertions : BOOLEAN,
                              byteToClass : [Letter -> Letter]]]
  /\ Request \subseteq [op : Looping \cup Submatch, way : {"wrapper", "engine"},
                    s : Input, n : Int]
  /\ \A p \in Pattern : ~Program[p].hasAssertions => Program[p].root \in ContextFree
  /\ \A s \in Input : \A loc \in Location(s, 0) : \A at \in 0..loc[2] - loc[1] :
       MakeMatchContext(SubSeq(s, loc[1] + 1, loc[2]), at) \in Situation
  /\ None \notin Caller \cup Request /\ None \notin LazyTDFA

ASSUME FindAssumption ==
  \A p \in Pattern, s \in Input : \A pos \in 0..Len(s) :
    Find[p][s][pos] \in {Nil} \cup Location(s, pos)

\* A match lies in its text, and without assertions what is left of a text is
\* matched as if nothing stood before it.
ASSUME SpansAssumption ==
  \A p \in Pattern, s \in Input :
    /\ Spans[p][s] \subseteq Location(s, 0)
    /\ ~Program[p].hasAssertions =>
         \A pos \in 0..Len(s) :
           Spans[p][Suffix(s, pos)] =
             {<<x[1] - pos, x[2] - pos>> : x \in {y \in Spans[p][s] : y[1] >= pos}}

\* Of some matches, is loc the longest from the leftmost start among those that
\* end first?
Earliest(spans, loc) ==
  IF loc = Nil THEN spans = {}
  ELSE /\ loc \in spans
       /\ \E y \in spans : /\ y[1] = loc[1]
                          /\ \A x \in spans : y[2] <= x[2] /\ (x[2] = y[2] => y[1] <= x[1])
       /\ \A x \in spans : x[1] = loc[1] => x[2] <= loc[2]

\* What a search finds as long as no automaton is full, where the filters keep all
\* matches and nothing asks for its context (Searching!Implements).
FindsFirst(p) ==
  \A s \in Input : \A pos \in 0..Len(s) :
    Earliest({x \in Spans[p][s] : x[1] >= pos}, Find[p][s][pos])

VARIABLES pat,    \* the expression of the shared engine
          tdfa,   \* its tagged automaton, None before the first submatch call
          lock,   \* its RWMutex
          pc,     \* where each goroutine is
          asked,  \* the call it makes, or has made last
          call    \* the local state of that call

vars == <<pat, tdfa, lock, pc, asked, call>>

----------------------------------------------------------------------------
(* The local state of a call: what is left of the text (pos), the matches  *)
(* found, the result (pieces of the text, or rows of slots), and where the *)
(* tagged automaton is in the span of the last match.                      *)

\* A count below 0 stands for all; the engine takes it for one match more than
\* the text has bytes.
Count(q, way) ==
  IF q.n < 0 /\ way = "engine" /\ q.op \in {"FindAll", "FindAllSubmatch"}
  THEN Len(q.s) + 1 ELSE q.n

\* Mutant: the matches not counted.
NeverEnough(r) == r.n = 0 /\ r.op \in {"FindAll", "FindAllSubmatch"}

\* Has a call found as many matches as it was asked for?
Enough(r) ==
  /\ r.op \in {"FindAll", "FindAllSubmatch"}
  /\ r.n >= 0
  /\ Len(r.found) >= r.n

\* Mutant: the end of the text not looked for.
TopOfAnyLoop(r) == [r EXCEPT !.ph = IF Enough(r) THEN "done" ELSE "search"]

\* The condition at the top of the loops.
TopOfLoop(r) ==
  [r EXCEPT !.ph = IF r.pos <= Len(r.s) /\ ~Enough(r) THEN "search" ELSE "done"]

NewCall(q, way) ==
  LET r == [op |-> q.op, s |-> q.s, n |-> Count(q, way), ph |-> "search", pos |-> 0,
            found |-> <<>>, out |-> <<>>, at |-> 0, st |-> Root, slots |-> NoSlots(0)]
  IN  IF q.op = "Split" /\ q.n \in {0, 1}
      THEN [r EXCEPT !.ph = "done", !.out = IF q.n = 0 THEN <<>> ELSE <<<<0, Len(q.s)>>>>]
      ELSE TopOfLoop(r)

AdvancePosAfterEmptyMatch(s, pos) ==
  IF pos >= Len(s) THEN pos + 1 ELSE pos + DecodeRune(s, pos).size

\* Mutants: the search goes on inside a match; behind the byte after it.
ResumeInside(r, loc) == loc[1] + 1
ResumeBehind(r, loc) == loc[2] + 1

\* Where the search goes on after a match.
Resume(r, loc) ==
  IF loc[1] = loc[2]
  THEN LET next == AdvancePosAfterEmptyMatch(r.s, loc[1])
       IN  IF next <= r.pos THEN r.pos + 1 ELSE next
  ELSE loc[2]

Onward(r, loc) == TopOfLoop([r EXCEPT !.pos = Resume(r, loc)])

Shift(loc, by) == IF loc = Nil THEN Nil ELSE <<loc[1] + by, loc[2] + by>>

\* A search of what is left of the text, cut off from what stands before it.
FindInSuffix(p, r) == Shift(Find[p][Suffix(r.s, r.pos)][0], r.pos)

\* ReplaceAll cuts the text, the others tell the search where to begin.
Located(p, r) == IF r.op = "ReplaceAll" THEN FindInSuffix(p, r) ELSE Find[p][r.s][r.pos]

\* No further match: Split and ReplaceAll keep the rest of the text.
LastSearch(r) ==
  [r EXCEPT !.ph = "done",
            !.out = IF r.op \in Looping \ {"FindAll"} THEN Append(@, <<r.pos, Len(r.s)>>)
                    ELSE @]

\* Mutant: the piece before a match cut off where the match ends.
PieceWithMatch(r, loc) == <<r.pos, loc[2]>>

Piece(r, loc) == <<r.pos, loc[1]>>

\* A match in the loops of FindAll, Split and ReplaceAll.
LoopMatch(r, loc) ==
  LET more == [r EXCEPT !.found = Append(@, loc),
                        !.out = IF r.op = "FindAll" THEN @ ELSE Append(@, Piece(r, loc))]
  IN  IF r.op = "Split" /\ r.n > 0 /\ Len(more.found) >= r.n - 1
      THEN [more EXCEPT !.ph = "done", !.out = Append(@, <<loc[2], Len(r.s)>>)]
      ELSE Onward(more, loc)

\* One turn of such a loop.
Turn(p, r) ==
  LET loc == Located(p, r)
  IN  IF loc = Nil THEN LastSearch(r) ELSE LoopMatch(r, loc)

----------------------------------------------------------------------------
(* Submatches.                                                             *)

\* A row of the result is finished: the only one, or one more.
Finished(r, row) ==
  LET more == [r EXCEPT !.out = Append(@, row)]
  IN  IF r.op = "FindSubmatch" THEN [more EXCEPT !.ph = "done"]
      ELSE Onward(more, r.found[Len(r.found)])

Whole(loc) == [i \in {0} |-> loc]

\* A match whose groups are to be found: there are none, or the automaton runs.
Matched(p, r, loc) ==
  LET more == [r EXCEPT !.found = Append(@, loc)]
  IN  IF Program[p].captures = 0 THEN Finished(more, Whole(loc))
      ELSE [more EXCEPT !.ph = "run", !.at = 0, !.st = Root,
                        !.slots = NoSlots(Program[p].captures)]

SubmatchTurn(p, r) ==
  LET loc == Find[p][r.s][r.pos]
  IN  IF loc = Nil THEN LastSearch(r) ELSE Matched(p, r, loc)

Span(r) == LET loc == r.found[Len(r.found)] IN SubSeq(r.s, loc[1] + 1, loc[2])

Accepting(d, r) == AcceptsTagged(d, r.st, MakeMatchContext(Span(r), r.at))

\* Slot 0 is set wherever the automaton accepts.
Marked(d, r) ==
  IF Accepting(d, r) THEN [r.slots EXCEPT ![0] = <<0, r.at>>] ELSE r.slots

RunByte(p, d, r) ==
  LET span == Span(r)
      next == NextTagged(d, r.st, Program[p].byteToClass[span[r.at + 1]],
                         MakeMatchContext(span, r.at))
  IN  [dfa |-> next.dfa,
       r   |-> [r EXCEPT !.slots = ApplyTags(Marked(d, r), next.tr.tags, r.at),
                         !.st = next.tr.next, !.at = @ + 1]]

\* Mutant: the slots left relative to the match.
NotMoved(slots, loc) ==
  [i \in DOMAIN slots |-> IF i = 0 THEN loc ELSE slots[i]]

\* The slots of the span as offsets of the text: both of a pair are moved once
\* its start is set.
Moved(slots, loc) ==
  [i \in DOMAIN slots |->
     IF i = 0 THEN loc
     ELSE IF slots[i][1] >= 0 THEN <<slots[i][1] + loc[1], slots[i][2] + loc[1]>>
     ELSE slots[i]]

\* The end of the span.  A run that does not accept finds no groups: then a
\* single match is no match, one of many is a match without groups.
RunEnd(d, r) ==
  LET loc == r.found[Len(r.found)]
  IN  [dfa |-> d,
       r   |-> IF Accepting(d, r) /\ r.st # Dead THEN Finished(r, Moved(Marked(d, r), loc))
               ELSE IF r.op = "FindSubmatch" THEN [r EXCEPT !.ph = "done"]
               ELSE Finished(r, Whole(loc))]

----------------------------------------------------------------------------

Unlocked == [readers |-> {}, writer |-> None]

Free == lock = Unlocked

Init == /\ pat \in Pattern
        /\ tdfa = None
        /\ lock = Unlocked
        /\ pc = [g \in Caller |-> "idle"]
        /\ asked = [g \in Caller |-> None]
        /\ call = [g \in Caller |-> None]

Go(g, to) == pc' = [pc EXCEPT ![g] = to]
Do(g, r)  == call' = [call EXCEPT ![g] = r]

\* Where a method of the wrapper goes first.
Entry(q) ==
  IF q.way = "engine" THEN "lock"
  ELSE IF q.op \in Looping THEN "loop"
  ELSE IF q.op = "FindAllSubmatch" /\ Program[pat].captures > 0 THEN "lock"
  ELSE "rlock"

Call(g, q) ==
  /\ pc[g] = "idle"
  /\ asked' = [asked EXCEPT ![g] = q]
  /\ Do(g, NewCall(q, q.way))
  /\ Go(g, Entry(q))
  /\ UNCHANGED <<pat, tdfa, lock>>

\* A method of the wrapper that returns before its first search: Split at most
\* once into one piece, FindAll of no match.
ReturnAtOnce(g) ==
  /\ pc[g] = "loop"
  /\ call[g].ph = "done"
  /\ Go(g, "idle")
  /\ UNCHANGED <<pat, tdfa, lock, asked, call>>

\* One turn of a loop of the wrapper; only its search holds the lock, for writing
\* or, when ReplaceAll finds its answer cached, for reading.
Loop(g) ==
  /\ pc[g] = "loop"
  /\ call[g].ph = "search"
  /\ IF call[g].op = "ReplaceAll" THEN lock.writer = None ELSE Free
  /\ \E r \in {Turn(pat, call[g])} :
       /\ Do(g, r)
       /\ Go(g, IF r.ph = "done" THEN "idle" ELSE "loop")
  /\ UNCHANGED <<pat, tdfa, lock, asked>>

RLock(g) ==
  /\ pc[g] = "rlock"
  /\ lock.writer = None
  /\ lock' = [lock EXCEPT !.readers = @ \cup {g}]
  /\ Go(g, "reading")
  /\ UNCHANGED <<pat, tdfa, asked, call>>

RUnlock(g, to) ==
  /\ lock' = [lock EXCEPT !.readers = @ \ {g}]
  /\ Go(g, to)

\* The cached pass lacks a transition, as it always does with assertions; or it
\* finds a match with groups, for which the tagged automaton may have to grow.
Miss(g) ==
  /\ pc[g] = "reading"
  /\ RUnlock(g, "lock")
  /\ UNCHANGED <<pat, tdfa, asked, call>>

\* The cached pass has every transition it needs.
Hit(g) == pc[g] = "reading" /\ ~Program[pat].hasAssertions

CachedTurn(p, r) ==
  LET loc == FindInSuffix(p, r)
  IN  IF r.ph = "done" THEN r ELSE IF loc = Nil THEN LastSearch(r) ELSE Matched(p, r, loc)

\* The cached pass finds no match, or one without groups; it cuts the text.
ReadTurn(g) ==
  /\ Hit(g)
  /\ \E r \in {CachedTurn(pat, call[g])} :
       /\ r.ph # "run"
       /\ Do(g, r)
       /\ IF r.ph = "done" THEN RUnlock(g, "idle") ELSE UNCHANGED <<lock, pc>>
  /\ UNCHANGED <<pat, tdfa, asked>>

\* The call starts over under the write lock, in the engine.
Lock(g) ==
  /\ pc[g] = "lock"
  /\ Free
  /\ lock' = [lock EXCEPT !.writer = g]
  /\ Go(g, "writing")
  /\ Do(g, NewCall(asked[g], "engine"))
  /\ UNCHANGED <<pat, tdfa, asked>>

\* Mutant: an automaton built for each call.
BuiltAnew(p) == NewLazyTDFA(Program[p].root)

\* The tagged automaton, built by the first call that needs it.
Tagged(p) == IF tdfa = None THEN NewLazyTDFA(Program[p].root) ELSE tdfa

WriteSearch(g) ==
  /\ pc[g] = "writing"
  /\ call[g].ph = "search"
  /\ \E r \in {IF call[g].op \in Looping THEN Turn(pat, call[g])
               ELSE SubmatchTurn(pat, call[g])} :
       /\ Do(g, r)
       /\ tdfa' = IF r.ph = "run" THEN Tagged(pat) ELSE tdfa
  /\ UNCHANGED <<pat, lock, pc, asked>>

WriteRun(g) ==
  /\ pc[g] = "writing"
  /\ call[g].ph = "run"
  /\ \E next \in {IF call[g].at < Len(Span(call[g])) THEN RunByte(pat, tdfa, call[g])
                  ELSE RunEnd(tdfa, call[g])} :
       Do(g, next.r) /\ tdfa' = next.dfa
  /\ UNCHANGED <<pat, lock, pc, asked>>

\* Mutant: a call that finds nothing made again.
UnlockAndRetry(g) ==
  /\ pc[g] = "writing"
  /\ call[g].ph = "done"
  /\ lock' = [lock EXCEPT !.writer = None]
  /\ Go(g, IF call[g].found = <<>> THEN "lock" ELSE "idle")
  /\ UNCHANGED <<pat, tdfa, asked, call>>

Unlock(g) ==
  /\ pc[g] = "writing"
  /\ call[g].ph = "done"
  /\ lock' = [lock EXCEPT !.writer = None]
  /\ Go(g, "idle")
  /\ UNCHANGED <<pat, tdfa, asked, call>>

Read(g)    == Miss(g) \/ ReadTurn(g)
Write(g)   == WriteSearch(g) \/ WriteRun(g) \/ Unlock(g)
Proceed(g) == ReturnAtOnce(g) \/ Loop(g) \/ RLock(g) \/ Read(g) \/ Lock(g) \/ Write(g)

Next == \E g \in Caller : Proceed(g) \/ \E q \in Request : Call(g, q)

\* A goroutine inside a method goes on, and an RWMutex starves no one who waits:
\* whoever could go on again and again does.  Whether it calls again is its choice.
Spec == Init /\ [][Next]_vars /\ \A g \in Caller : SF_vars(Proceed(g))

----------------------------------------------------------------------------

Called(g) == call[g] # None

\* Type correctness; the lock says who is in it, and a call's state which state
\* of the automaton it is in.
TypeOK ==
  /\ pat \in Pattern
  /\ pc \in [Caller -> {"idle", "loop", "rlock", "reading", "lock", "writing"}]
  /\ lock.readers = {g \in Caller : pc[g] = "reading"}
  /\ \A g \in Caller : pc[g] = "writing" <=> lock.writer = g
  /\ asked \in [Caller -> Request \cup {None}]
  /\ \A g \in Caller : Called(g) =>
       LET r == call[g]
       IN  /\ r.s = asked[g].s /\ r.op = asked[g].op
           /\ r.ph \in {"search", "run", "done"}
           /\ r.pos \in 0..Len(r.s) + 1
           /\ r.ph = "search" => r.pos <= Len(r.s)
           /\ r.ph = "run" => /\ r.at \in 0..Len(Span(r))
                             /\ r.st \in 1..Len(tdfa.asts)
                             /\ DOMAIN r.slots = 0..Program[pat].captures

\* The matches come in the order of the text and do not overlap; no two begin at
\* one offset, so that there are no more than the text has offsets and a count
\* below 0 leaves none out, whether it stands for all or for Len(s) + 1.
Successive ==
  \A g \in Caller : Called(g) =>
    LET r == call[g]
    IN  /\ \A k \in DOMAIN r.found :
             r.found[k] \in Location(r.s, 0) /\ r.found[k][1] >= k - 1
        /\ \A k, m \in DOMAIN r.found :
             k < m => r.found[k][1] < r.found[m][1] /\ r.found[k][2] <= r.found[m][1]

\* Where the search went on after match k of a call.
After(r, k) ==
  IF k = 0 THEN 0
  ELSE IF r.found[k][1] = r.found[k][2] THEN AdvancePosAfterEmptyMatch(r.s, r.found[k][1])
  ELSE r.found[k][2]

\* Has the call stopped because there are no more matches?
Exhausted(r) ==
  /\ r.ph = "done"
  /\ r.op # "FindSubmatch"
  /\ ~Enough(r)
  /\ r.op = "Split" => r.n < 0 \/ r.n > Len(r.found) + 1

\* No match is left out between two that are found, nor after the last one.
\* (With assertions a search may find less: NilMeansNoMatch.)
NothingBetween ==
  \A g \in Caller : Called(g) /\ ~Program[pat].hasAssertions =>
    LET r == call[g]
        missed(from, to) == \E x \in Spans[pat][r.s] :
                              x[1] >= from /\ x[1] < to /\ x[2] <= to
    IN  /\ \A k \in DOMAIN r.found : ~missed(After(r, k - 1), r.found[k][1])
        /\ Exhausted(r) => ~missed(After(r, Len(r.found)), Len(r.s) + 1)

Covers(span, k) == span[1] <= k /\ k < span[2]

\* The pieces of Split and ReplaceAll and the matches between them hold each byte
\* of the text once.  The bytes of the rune an empty match is followed by may be
\* lost: the loops step over them and cut the next piece off behind them.
TextAccounted ==
  \A g \in Caller :
    Called(g) /\ call[g].ph = "done" /\ call[g].op \in Looping \ {"FindAll"}
      /\ (call[g].op = "Split" => call[g].n # 0) =>
    LET r == call[g]
    IN  \A k \in 0..Len(r.s) - 1 :
          LET pieces  == {i \in DOMAIN r.out : Covers(r.out[i], k)}
              matches == {i \in DOMAIN r.found : Covers(r.found[i], k)}
          IN  \/ Cardinality(pieces) + Cardinality(matches) = 1
              \/ /\ pieces \cup matches = {}
                 /\ \E i \in DOMAIN r.found :
                      Covers(<<r.found[i][1], After(r, i)>>, k) /\ r.found[i][1] = r.found[i][2]

\* The groups of a row lie in its match.  A group without an end has the end -1,
\* or the offset before the match.
GroupsInside ==
  \A g \in Caller : Called(g) /\ call[g].op \in Submatch =>
    LET r == call[g]
    IN  \A k \in DOMAIN r.out :
          LET loc == r.found[k]
              row == r.out[k]
          IN  /\ row[0] = loc
              /\ \A i \in DOMAIN row :
                   \/ row[i][1] = Unset
                   \/ /\ row[i][1] \in loc[1]..loc[2]
                      /\ row[i][2] \in loc[1] - 1..loc[2]

\* A transition of the tagged automaton is right for every position it is used
\* at, though it was learned in the context of one of them: without assertions
\* no tree looks at its context.
TransitionsAreFresh ==
  tdfa # None /\ ~Program[pat].hasAssertions =>
    \A st \in 1..Len(tdfa.asts), b \in Letter :
      LET tr == tdfa.rows[st][b]
      IN  tr \notin {Unknown, Lost} =>
            \A c \in Situation :
              LET config == Configs[tdfa.asts[st]][b][c][1]
              IN  tdfa.asts[tr.next] = config.next /\ tr.tags = config.tags

\* What the documentation promises of FindStringSubmatch: nil only if there is no
\* match (api.go:47), and the groups of user@domain.com (README.md:87).
SubmatchNilMeansNoMatch ==
  \A g \in Caller :
    Called(g) /\ pc[g] = "idle" /\ call[g].op = "FindSubmatch" /\ call[g].out = <<>> =>
      Spans[pat][call[g].s] = {}

Exclusive == \E g \in Caller : lock = [readers |-> {}, writer |-> g]

\* The tagged automaton is built once, on the first call that needs it, and only
\* grows, always by the one goroutine that holds the write lock.
TaggedGrows ==
  [][tdfa' # tdfa =>
       /\ Exclusive
       /\ tdfa # None =>
            /\ Len(tdfa.asts) <= Len(tdfa'.asts)
            /\ \A st \in 1..Len(tdfa.asts) : tdfa'.asts[st] = tdfa.asts[st]
            /\ \A st \in 1..Len(tdfa.asts), b \in Letter :
                 tdfa.rows[st][b] # Unknown => tdfa'.rows[st][b] = tdfa.rows[st][b]]_vars

\* Every call returns.
Returns == \A g \in Caller : pc[g] # "idle" ~> pc[g] = "idle"

\* The goroutines see one expression that answers at once and always the same:
\* ReplaceAll as ReplaceAllString, the wrapper as the engine, whatever has been
\* asked before, until the tagged automaton is full.  (With assertions it need not;
\* then nothing is compared.)
Told(g) ==
  IF pc[g] # "idle" \/ asked[g] = None THEN None
  ELSE IF Program[pat].hasAssertions THEN Answer[pat][asked[g]]
  ELSE <<call[g].found, call[g].out>>

\* An automaton that is full loses transitions.
Crowded == tdfa # None /\ Len(tdfa.asts) >= maxLazyTDFAStates

\* The rows of an answer, some without their groups.
RowsWithout(a, lost) ==
  [k \in DOMAIN a[2] |-> IF k \in lost THEN Whole(a[1][k]) ELSE a[2][k]]

\* The groups of matches may then be missing: a single match is none, one of many
\* stands alone.
PoorerThan(a, q) ==
  CASE q.op = "FindSubmatch"    -> {<<a[1], <<>>>>}
    [] q.op = "FindAllSubmatch" ->
         {<<a[1], RowsWithout(a, lost)>> : lost \in SUBSET DOMAIN a[2]}
    [] q.op \in Looping         -> {}

R == INSTANCE RegExp WITH
       Question   <- Request,
       Poorer     <- [p \in Pattern |-> [q \in Request |-> PoorerThan(Answer[p][q], q)]],
       Expression <- Pattern,
       expression <- pat,
       told       <- [g \in Caller |-> Told(g)],
       full       <- Crowded

Implements == R!Spec

=============================================================================
