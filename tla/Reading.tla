------------------------------ MODULE Reading ------------------------------
(***************************************************************************)
(* How an expression is meant to be read, from scratch: what the lexer and *)
(* the parser are held against.  Nothing here is a translation of the      *)
(* program.  An expression is a sequence of pieces; what a piece is, and   *)
(* what it stands for, is given and not found out from its characters.     *)
(*   atom     one token that matches something                             *)
(*   open     of a group: its wrapper, the flags it sets                   *)
(*   close, bar                                                            *)
(*   times    how often the item before it may come, as <<min, max>>       *)
(*   flags    the flags it sets from here on                               *)
(*   torn     a backslash or a bracket that is not complete                *)
(* and in a class                                                          *)
(*   rune     one rune, the dash among them                                *)
(*   set      several runes                                                *)
(***************************************************************************)
EXTENDS Parser, Language

Unbounded == -1

Is(ps, i, kind) == i \in DOMAIN ps /\ ps[i].kind = kind

Count(ps, lo, hi, kind) == Cardinality({i \in lo..hi : ps[i].kind = kind})

\* How many of the parentheses opened from lo on are open before i.
Depth(ps, lo, i) == Count(ps, lo, i - 1, "open") - Count(ps, lo, i - 1, "close")

\* Where the parenthesis opened at k is closed; behind the end if it is not.
CloseOf(ps, k) ==
  Min({Len(ps) + 1} \cup {c \in k + 1 .. Len(ps) : ps[c].kind = "close" /\ Depth(ps, k, c) = 1})

\* A ? behind a quantifier makes it lazy, which changes nothing.
IsLazy(ps) ==
  LET lazy[i \in 0..Len(ps)] ==
        i > 1 /\ ps[i].text = <<"?">> /\ ps[i - 1].kind = "times" /\ ~lazy[i - 1]
  IN  lazy

Quantifiers(ps) == {i \in DOMAIN ps : ps[i].kind = "times" /\ ~IsLazy(ps)[i]}

----------------------------------------------------------------------------
(* Flags reach to the end of the group without a number they stand in.     *)

InScope(ps, j, i) ==
  /\ j < i
  /\ \A k \in 1..j :
       ~(ps[k].kind = "open" /\ ps[k].wrap = "none" /\ CloseOf(ps, k) \in j + 1 .. i - 1)

FlagAt(ps, i, f) ==
  LET setters == {j \in DOMAIN ps : /\ ps[j].kind \in {"open", "flags"}
                                    /\ f \in DOMAIN ps[j].sets
                                    /\ InScope(ps, j, i)}
  IN  setters # {} /\ ps[Max(setters)].sets[f]

FlagsAt(ps, i) == [f \in DOMAIN NoFlags |-> FlagAt(ps, i, f)]

----------------------------------------------------------------------------
(* The tree.                                                               *)

Repeated(node, times) ==
  CASE times = <<0, Unbounded>> -> Star(node)
    [] times = <<0, 1>>         -> NewUnion(node, Empty)
    [] times[2] = Unbounded     ->
         NewConcat(NewRepeat(node, times[1], times[1]), Star(node))
    [] OTHER                    -> NewRepeat(node, times[1], times[2])

Wrapped(ps, k, node) ==
  CASE ps[k].wrap = "none"       -> node
    [] ps[k].wrap = "Group"      ->
         Group(Cardinality({j \in 1..k : ps[j].kind = "open" /\ ps[j].wrap = "Group"}), node)
    [] ps[k].wrap = "LookAhead"  -> LookAhead(node)
    [] ps[k].wrap = "LookBehind" -> LookBehind(node)

\* Split lo..hi at the bars outside of parentheses.
Bars(ps, lo, hi) == {i \in lo..hi : ps[i].kind = "bar" /\ Depth(ps, lo, i) = 0}

Alternatives(ps, lo, hi) ==
  LET cuts == Ascending({lo - 1, hi + 1} \cup Bars(ps, lo, hi))
  IN  [a \in 1..Len(cuts) - 1 |-> <<cuts[a] + 1, cuts[a + 1] - 1>>]

\* Where the items of an alternative begin.
Items(ps, lo, hi) ==
  Ascending({i \in lo..hi : ps[i].kind \in {"atom", "open", "flags"} /\ Depth(ps, lo, i) = 0})

RECURSIVE Tree(_, _, _)

ItemNode(ps, k) ==
  CASE ps[k].kind = "atom"  -> AtomNode(LexAll(ps[k].text)[1], FlagsAt(ps, k))
    [] ps[k].kind = "flags" -> Empty
    [] ps[k].kind = "open"  -> Wrapped(ps, k, Tree(ps, k + 1, CloseOf(ps, k) - 1))

\* The item that begins at k, with the quantifiers up to end.
Quantified(ps, k, end) ==
  LET from  == IF ps[k].kind = "open" THEN CloseOf(ps, k) ELSE k
      marks == Ascending(Quantifiers(ps) \cap (from + 1 .. end))
  IN  SeqExt!FoldLeft(LAMBDA n, m : Repeated(n, ps[m].times), ItemNode(ps, k), marks)

Alternative(ps, lo, hi) ==
  LET items == Items(ps, lo, hi)
      end(k) == IF k = Len(items) THEN hi ELSE items[k + 1] - 1
  IN  SeqNode([k \in DOMAIN items |-> Quantified(ps, items[k], end(k))])

Tree(ps, lo, hi) ==
  LET alternatives == Alternatives(ps, lo, hi)
  IN  UnionNodes([a \in DOMAIN alternatives |->
                    Alternative(ps, alternatives[a][1], alternatives[a][2])])

AsWritten(ps) == Tree(ps, 1, Len(ps))

----------------------------------------------------------------------------
(* What is no expression.                                                  *)

\* A quantifier with nothing to repeat, and a count whose bounds are the wrong way round.
BadQuantifier(ps, i) ==
  /\ i \in Quantifiers(ps)
  /\ \/ i = 1 \/ ps[i - 1].kind \in {"bar", "open"}
     \/ ps[i].times[2] # Unbounded /\ ps[i].times[1] > ps[i].times[2]

\* A parenthesis needs its other half; what looks around needs something to look for.
BadOpening(ps, k) ==
  /\ ps[k].kind = "open"
  /\ \/ CloseOf(ps, k) > Len(ps)
     \/ CloseOf(ps, k) = k + 1 /\ ps[k].wrap \in {"LookAhead", "LookBehind"}

\* A parenthesis that closes nothing.
UnexpectedParen(ps) == \E i \in DOMAIN ps : ps[i].kind = "close" /\ Depth(ps, 1, i) <= 0

\* A quantifier behind a quantifier, lazy or not.
NestedRepetition(ps) == \E i \in Quantifiers(ps) : Is(ps, i - 1, "times")

Torn(ps) == \E i \in DOMAIN ps : ps[i].kind = "torn"

Unfinished(ps) == \E i \in DOMAIN ps : BadQuantifier(ps, i) \/ BadOpening(ps, i)

Malformed(ps) == Torn(ps) \/ Unfinished(ps) \/ UnexpectedParen(ps) \/ NestedRepetition(ps)

----------------------------------------------------------------------------
(* Classes.                                                                *)

Dash == <<"-">>

\* A dash between two others is a range, unless it is itself the end of one or
\* stands behind the end of one.
IsRange(ps) ==
  LET range[i \in -1..Len(ps)] ==
        /\ i > 1 /\ i < Len(ps) /\ ps[i].text = Dash
        /\ ~range[i - 1] /\ ~range[i - 2]
  IN  range

Endpoint(ps, i) == Min(ps[i].runes)

Between(a, b) == IF a < b THEN a..b ELSE b..a

\* Case is ignored in what is spelled out, not in the sets that are named.
CaseVariants(S, flags) ==
  IF ~flags.caseInsensitive THEN S
  ELSE UNION {IF flags.unicodeMode THEN Folds(r) ELSE ASCIIFolds(r) : r \in S}

Members(ps, flags) ==
  LET range   == IsRange(ps)
      ranges  == {i \in DOMAIN ps : range[i]}
      ends    == {i - 1 : i \in ranges} \cup {i + 1 : i \in ranges}
      single  == DOMAIN ps \ (ranges \cup ends)
      spelled == UNION {Between(Endpoint(ps, i - 1), Endpoint(ps, i + 1)) : i \in ranges}
                   \cup UNION {ps[i].runes : i \in {j \in single : ps[j].kind = "rune"}}
  IN  CaseVariants(spelled, flags)
        \cup UNION {ps[i].runes : i \in {j \in single : ps[j].kind = "set"}}

\* r is a rune the class of these pieces has.  A class of nothing has none, not even
\* when it is negated.
Denotes(ps, flags, r) ==
  IF Is(ps, 1, "rune") /\ ps[1].text = <<"^">>
  THEN Len(ps) > 1 /\ r \notin Members(Tail(ps), flags)
  ELSE r \in Members(ps, flags)

=============================================================================
