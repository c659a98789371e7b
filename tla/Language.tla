------------------------------ MODULE Language ------------------------------
(***************************************************************************)
(* The language of an expression, defined on the tree from scratch: what   *)
(* the derivatives, the automata and the searches are held against.        *)
(* Nothing here is a translation of the program.                           *)
(***************************************************************************)
EXTENDS Ast

WordAt(w, k, wide) ==
  LET r == DecodeRune(w, k).rune
  IN  IF wide THEN IsWordRune(r) ELSE IsASCIIWordRune(r)

\* Is the rune that ends, and the one that begins, at offset i part of a word?
WordBefore(w, i, wide) ==
  \E k \in {i - 1, i - 2} :
    k >= 0 /\ DecodeRune(w, k).size = i - k /\ WordAt(w, k, wide)
WordAfter(w, i, wide) == i < Len(w) /\ WordAt(w, i, wide)

HoldsAt(n, w, i) ==
  CASE n[1] = "Start"     -> i = 0 \/ w[i] = Newline
    [] n[1] = "End"       -> i = Len(w) \/ w[i + 1] = Newline
    [] n[1] = "BeginText" -> i = 0
    [] n[1] = "EndText"   -> i = Len(w)
    [] n[1] = "EndTextOptionalNewline" ->
         i = Len(w) \/ (i = Len(w) - 1 /\ w[Len(w)] = Newline)
    [] n[1] = "WordBoundary" ->
         ~InsideRune(w, i) /\ WordBefore(w, i, n[2]) # WordAfter(w, i, n[2])
    [] n[1] = "NotWordBoundary" ->
         InsideRune(w, i) \/ WordBefore(w, i, n[2]) = WordAfter(w, i, n[2])

\* Matches(n, w, i, j): the bytes of w from offset i to offset j match n.
RECURSIVE Matches(_, _, _, _), Repeats(_, _, _, _, _, _)

Matches(n, w, i, j) ==
  CASE n[1] = "False"      -> FALSE
    [] n[1] = "Empty"      -> i = j
    [] n[1] \in Anchor     -> i = j /\ HoldsAt(n, w, i)
    [] n[1] = "Group"      -> Matches(n[3], w, i, j)
    [] n[1] = "Complement" -> ~Matches(n[2], w, i, j)
    [] n[1] = "Union"      -> Matches(n[2], w, i, j) \/ Matches(n[3], w, i, j)
    [] n[1] = "Intersect"  -> Matches(n[2], w, i, j) /\ Matches(n[3], w, i, j)
    [] n[1] = "Concat"     ->
         \E k \in i..j : Matches(n[2], w, i, k) /\ Matches(n[3], w, k, j)
    [] n[1] = "Star"       ->
         i = j \/ \E k \in i + 1 .. j : Matches(n[2], w, i, k) /\ Matches(n, w, k, j)
    [] n[1] = "Repeat"     -> Repeats(n[2], n[3], n[4], w, i, j)
    [] OTHER               -> j = i + 1 /\ Reads(n, w[j])

Repeats(c, min, max, w, i, j) ==
  \/ min = 0 /\ i = j
  \/ /\ max > 0
     /\ \E k \in i..j : /\ Matches(c, w, i, k)
                        /\ Repeats(c, IF min = 0 THEN 0 ELSE min - 1, max - 1, w, k, j)

=============================================================================
