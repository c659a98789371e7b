-------------------------- MODULE SearchInvariants --------------------------
(***************************************************************************)
(* What is true of an engine and of a call after each iteration of its     *)
(* loops: of the automata, of the place a pass has come to, and of what it *)
(* has found and left behind.  An automaton that has no more room may have *)
(* lost matches, but it has never made one up.                             *)
(***************************************************************************)
EXTENDS Answers, LazyDFAInvariants

\* No state of d asks about its context.
AsksNothing(d) == \A st \in State(d) : Mask[d.asts[st]] = NoFacts

\* d is a sound automaton of tree root of expression n.
AutomatonOf(n, root, d) ==
  /\ Sound(d)
  /\ d.asts[RootState] = root
  /\ ~Compiled[n].hasAssertions => AsksNothing(d)

\* An engine has these fields and no others.
IsEngine(e) ==
  /\ e = [f \in {"pat", "forward", "unanchored", "reverse"} |-> e[f]]
  /\ e.pat \in Expression
  /\ AutomatonOf(e.pat, Compiled[e.pat].forward, e.forward)
  /\ AutomatonOf(e.pat, Compiled[e.pat].unanchored, e.unanchored)
  /\ AutomatonOf(e.pat, Compiled[e.pat].reverse, e.reverse)

\* A state that stands for tree t, or has lost it for good.
Stands(d, st, t) ==
  /\ st \in State(d)
  /\ \/ d.asts[st] = t
     \/ st = DeadState /\ ~HasRoom(d)

CallField == {"ph", "s", "from", "pos", "st", "firstEnd", "start", "end", "loc"}

IsCall(r) ==
  /\ r = [f \in CallField |-> r[f]]
  /\ r.s \in Input
  /\ r.from \in 0..Len(r.s)

----------------------------------------------------------------------------
(* The three passes, of a call r in an engine e.                           *)

Begun(e, r) ==
  /\ r.pos = r.from
  /\ r.st = RootState
  /\ r.firstEnd = NoPos /\ r.start = NoPos /\ r.end = NoPos

\* The first pass began at p0; with filters that keep the matches, no match
\* begins before.
ScanBegan(e, r, p0) ==
  /\ Stands(e.unanchored, r.st,
            Residual(e.pat, Compiled[e.pat].unanchored, r.s, p0)[r.pos])
  /\ FiltersKeepMatches(e.pat) =>
       \A x \in SpansFrom(e.pat, r.s, r.from) : p0 <= x[1]

\* Where a match ends that begins at from or behind.
IsEnd(e, r, end) == \E x \in SpansFrom(e.pat, r.s, r.from) : x[2] = end

\* No match ends before the first end, or where the first pass has been.
NoneBehind(e, r, passed) ==
  FiltersKeepMatches(e.pat) /\ HasRoom(e.unanchored) =>
    \A x \in SpansFrom(e.pat, r.s, r.from) : x[2] > passed

\* What the first pass hands on.
EndKnown(e, r) ==
  /\ r.firstEnd \in r.from..Len(r.s)
  /\ NoneBehind(e, r, r.firstEnd - 1)
  /\ IsEnd(e, r, r.firstEnd)

Scanning(e, r) ==
  /\ r.pos \in r.from..Len(r.s)
  /\ r.st \in State(e.unanchored)
  /\ r.start = NoPos /\ r.end = NoPos
  /\ \/ /\ r.firstEnd = NoPos
        /\ NoneBehind(e, r, r.pos)
        /\ \E p0 \in r.from..r.pos : ScanBegan(e, r, p0)
     \/ EndKnown(e, r)

\* The matches that end at the first end and begin at i.
StartsAt(e, r, i) == <<i, r.firstEnd>> \in Spans[e.pat][r.s]

Backing(e, r) ==
  /\ EndKnown(e, r)
  /\ r.pos \in r.from..r.firstEnd
  /\ r.st \in State(e.reverse)
  /\ r.start = NoPos \/ r.start \in r.pos..r.firstEnd
  /\ r.end = NoPos
  /\ ~Compiled[e.pat].hasAssertions =>
       /\ Stands(e.reverse, r.st,
                 ResidualBack(e.pat, Compiled[e.pat].reverse, r.s, r.firstEnd)[r.pos])
       /\ r.start # NoPos => StartsAt(e, r, r.start)
       /\ HasRoom(e.reverse) =>
            \A i \in r.pos..r.firstEnd - 1 :
              StartsAt(e, r, i) => r.start # NoPos /\ r.start <= i

\* What the second pass hands on: the leftmost start, unless it has lost it.
StartKnown(e, r) ==
  /\ r.start \in r.from..r.firstEnd
  /\ ~Compiled[e.pat].hasAssertions =>
       /\ StartsAt(e, r, r.start)
       /\ HasRoom(e.reverse) =>
            \A i \in r.from..r.firstEnd : StartsAt(e, r, i) => r.start <= i

\* The matches that begin at the start and end at j.
EndsAt(e, r, j) == <<r.start, j>> \in Spans[e.pat][r.s]

Extending(e, r) ==
  /\ EndKnown(e, r)
  /\ StartKnown(e, r)
  /\ r.pos \in r.start..Len(r.s)
  /\ Stands(e.forward, r.st, Residual(e.pat, Compiled[e.pat].forward, r.s, r.start)[r.pos])
  /\ r.end # NoPos => r.end \in r.start..r.pos /\ EndsAt(e, r, r.end)
  /\ HasRoom(e.forward) =>
       \A j \in r.start..r.pos : EndsAt(e, r, j) => r.end # NoPos /\ j <= r.end

----------------------------------------------------------------------------
(* What a call answers.                                                    *)

\* Nothing, a match, or a start whose end is lost.
IsAnswer(e, r) ==
  \/ r.loc = Nil
  \/ r.loc \in SpansFrom(e.pat, r.s, r.from)
  \/ \E i \in r.from..Len(r.s) : r.loc = <<i, NoPos>>

\* Without anchors only a full forward automaton loses the end.
EndNotLost(e, r) ==
  HasRoom(e.forward) /\ ~Compiled[e.pat].hasAssertions =>
    (r.loc # Nil => r.loc[2] # NoPos)

\* Without anchors, and while no automaton is full, the answer is exact.
ExactAnswer(e, r) ==
  FiltersKeepMatches(e.pat) /\ ~Full(e) /\ ~Compiled[e.pat].hasAssertions =>
    r.loc = FirstEnding(e.pat, r.s, r.from)

Answered(e, r) ==
  /\ r.pos \in 0..Len(r.s)
  /\ {r.firstEnd, r.start, r.end} \subseteq {NoPos} \cup r.from..Len(r.s)
  /\ IsAnswer(e, r)
  /\ r.loc # Nil => SpansFrom(e.pat, r.s, r.from) # {}
  /\ EndNotLost(e, r)
  /\ ExactAnswer(e, r)

SearchCall(e, r) ==
  /\ IsCall(r)
  /\ \/ r.ph = "begin"   /\ Begun(e, r)
     \/ r.ph = "scan"    /\ Scanning(e, r)
     \/ r.ph = "back"    /\ Backing(e, r)
     \/ r.ph = "longest" /\ Extending(e, r)
     \/ r.ph = "done"    /\ Answered(e, r)

----------------------------------------------------------------------------
(* Match.                                                                  *)

Reading(e, r) ==
  /\ r.pos \in 0..Len(r.s)
  /\ Stands(e.forward, r.st, Residual(e.pat, Compiled[e.pat].forward, r.s, 0)[r.pos])

MatchAnswered(e, r) ==
  /\ r.loc \in {Verdict(FALSE), MatchAnswer(e.pat, r.s)}
  /\ HasRoom(e.forward) => r.loc = MatchAnswer(e.pat, r.s)

MatchCall(e, r) ==
  /\ IsCall(r)
  /\ \/ r.ph = "match" /\ Reading(e, r)
     \/ r.ph = "done"  /\ MatchAnswered(e, r)

=============================================================================
