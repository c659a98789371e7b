---------------------------- MODULE CachedSearch ----------------------------
(***************************************************************************)
(* The fast path of a concurrent engine (findStringIndexCached and the     *)
(* first loop of Match in concurrent.go): the same passes as Search.tla,   *)
(* over transitions that are cached already.  It reads and never writes,   *)
(* and gives up at the first transition it does not find.                  *)
(*                                                                         *)
(* An operator gives the call after one iteration of its loop.             *)
(***************************************************************************)
EXTENDS Answers

Miss(r)  == [r EXCEPT !.ph = "miss"]

\* Indexing the text with a negative position: a run-time panic.
Panic(r) == [r EXCEPT !.ph = "panic"]

CachedAt(e, d, r, i) ==
  GetNextStateCached(d, r.st, Compiled[e.pat].byteToClass[r.s[i + 1]], NoContext)

\* Only the literal prefix is looked for: no start class, no early byte.
BeginCached(e, r) ==
  LET p      == Compiled[e.pat]
      starts == IF p.prefix # <<>> THEN Occurrences(r.s, p.prefix, 0) ELSE {0}
  IN  IF p.hasAssertions THEN Miss(r)
      ELSE IF r.s = <<>>
      THEN Return(r, IF IsAccepting(e.forward, RootState) THEN <<0, 0>> ELSE Nil)
      ELSE IF starts = {} THEN Return(r, Nil)
      ELSE [r EXCEPT !.ph = "scan", !.pos = Least(starts),
                     !.firstEnd = IF IsAccepting(e.unanchored, RootState) THEN 0 ELSE NoPos]

ScanCached(e, r) ==
  LET to == CachedAt(e, e.unanchored, r, r.pos)
  IN  IF r.firstEnd # NoPos
      THEN [r EXCEPT !.ph = "back", !.pos = r.firstEnd, !.st = RootState]
      ELSE IF r.pos >= Len(r.s) THEN Return(r, Nil)
      ELSE IF to = Uncached THEN Miss(r)
      ELSE IF IsAccepting(e.unanchored, to) THEN EndFound([r EXCEPT !.st = to], r.pos + 1)
      ELSE IF to = DeadState THEN Return(r, Nil)
      ELSE Advance(r, to)

\* Unlike EndBack of the full search it goes on even if no start was found.
EndBackCached(e, r) ==
  EnterLongest(e, r, IF r.start = NoPos /\ IsAccepting(e.reverse, RootState)
                     THEN r.firstEnd ELSE r.start)

BackCached(e, r) ==
  LET at   == r.pos - 1
      to   == CachedAt(e, e.reverse, r, at)
      read == [r EXCEPT !.st = to, !.pos = at]
  IN  IF r.pos <= 0 THEN EndBackCached(e, r)
      ELSE IF to = Uncached THEN Miss(r)
      ELSE IF to = DeadState THEN EndBackCached(e, r)
      ELSE IF IsAccepting(e.reverse, to) THEN StartFound(read, at)
      ELSE read

LongestCached(e, r) ==
  LET to   == CachedAt(e, e.forward, r, r.pos)
      read == Advance(r, to)
  IN  IF r.pos >= Len(r.s) \/ r.st = DeadState THEN Return(r, <<r.start, r.end>>)
      ELSE IF r.pos < 0 THEN Panic(r)
      ELSE IF to = Uncached THEN Miss(r)
      ELSE IF IsAccepting(e.forward, to) THEN LongerFound(read, r.pos + 1)
      ELSE read

BeginMatchCached(e, r) ==
  IF Compiled[e.pat].hasAssertions THEN Miss(r) ELSE [r EXCEPT !.ph = "match"]

MatchCached(e, r) ==
  LET to == CachedAt(e, e.forward, r, r.pos)
  IN  IF r.pos >= Len(r.s) THEN Return(r, Verdict(IsAccepting(e.forward, r.st)))
      ELSE IF to = Uncached THEN Miss(r)
      ELSE Advance(r, to)

StepCached(e, r) ==
  CASE r.ph = "scan"    -> ScanCached(e, r)
    [] r.ph = "back"    -> BackCached(e, r)
    [] r.ph = "longest" -> LongestCached(e, r)
    [] r.ph = "match"   -> MatchCached(e, r)

=============================================================================
