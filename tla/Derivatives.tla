----------------------------- MODULE Derivatives -----------------------------
(***************************************************************************)
(* A word read by derivatives, one byte after another, each in the context *)
(* of its position, beside the language of the expression defined from     *)
(* scratch.  The whole engine rests on this: what is left of the tree      *)
(* after a prefix stands for exactly the ways to go on.                    *)
(*                                                                         *)
(* The look-around nodes are not in Terms: the code reads them as groups   *)
(* that consume their text, so they have no zero-width meaning to check.   *)
(***************************************************************************)
EXTENDS Language, Compiler

CONSTANTS Terms,    \* the expressions, as trees
          Words     \* the inputs, sequences of byte values

VARIABLES re,       \* the expression
          s,        \* the input
          pos,      \* how many bytes have been read
          cur       \* the derivative of re by these bytes

vars == <<re, s, pos, cur>>

Context == MakeMatchContext(s, pos)

Init == /\ re \in Terms
        /\ s \in Words
        /\ pos = 0
        /\ cur = re

\* One byte of any of the matching loops.
Read == /\ pos < Len(s)
        /\ cur' = Derivative(cur, s[pos + 1], Context)
        /\ pos' = pos + 1
        /\ UNCHANGED <<re, s>>

Spec == Init /\ [][Read]_vars

----------------------------------------------------------------------------

\* The tree that is left after a prefix matches exactly the ways to complete
\* it, in the same input and at the same offsets.  (Every Derivative method of
\* ast.go; the anchors see the context of the offset they stand at.)
DerivativeIsSound ==
  \A j \in pos..Len(s) : Matches(cur, s, pos, j) = Matches(re, s, 0, j)

\* A state accepts exactly when the bytes read so far are a match: Nullable in
\* the context the byte loop builds agrees with the language, also inside a
\* multi-byte rune and at both ends of the input.
AcceptsExactly == Nullable(cur, Context) = Matches(re, s, 0, pos)

\* A derivative depends on its context only through RequiredContextMask: the
\* cache may answer for a context it never saw when the masked bits agree, and
\* the dense row may answer for all contexts whose masked bits are all zero.
MaskIsEnough ==
  LET kept == Context \cap RequiredContextMask(cur)
  IN  /\ Nullable(cur, Context) = Nullable(cur, kept)
      /\ pos < Len(s) =>
           Derivative(cur, s[pos + 1], Context) = Derivative(cur, s[pos + 1], kept)

\* Bytes of one minterm have one derivative, of the expression and of all that
\* is left of it: the automaton may read any of them as the one that stands
\* for its class.  (buildMintermTable sees the predicates of the root only.)
MintermsAreSound ==
  LET table == MintermTable(re)
  IN  \A b \in Byte : Derivative(cur, b, Context) = Derivative(cur, table[b], Context)

\* A search that skips ahead to the literal prefix, or to a byte of the start
\* class, skips no match: every match begins with that prefix, and a match of
\* an expression with a start class is not empty and begins with one of its
\* bytes.  (extractLiteralPrefix, extractStartClass.)
FiltersSkipNoMatch ==
  pos = 0 =>
    LET prefix == ExtractLiteralPrefix(re)
        start  == ExtractStartClass(re)
    IN  \A i \in 0..Len(s) : \A j \in i..Len(s) :
          Matches(re, s, i, j) =>
            /\ SeqExt!IsPrefix(prefix, SubSeq(s, i + 1, j))
            /\ start # <<>> => i < j /\ \E k \in DOMAIN start : start[k] = s[i + 1]

Mirror(w) == [k \in 1..Len(w) |-> w[Len(w) + 1 - k]]

\* The reversed tree matches, in the mirrored input, the mirror images of the
\* matches: what the backward pass of a search needs to find a match's start.
\* \Z is left out: ast.go:492 turns it into \A, which has no optional newline,
\* so that its mirror image at the newline is lost.  Anchors are asked about
\* ASCII inputs, whose mirror images are inputs again.
Mirrorable ==
  /\ "AtEndAfterOptionalNewline" \notin RequiredContextMask(re)
  /\ ContainsAssertions(re) => \A k \in 1..Len(s) : s[k] < 128

ReverseIsSound ==
  pos = 0 /\ Mirrorable =>
    \A i \in 0..Len(s) : \A j \in i..Len(s) :
      Matches(Reverse(re), Mirror(s), Len(s) - j, Len(s) - i) = Matches(re, s, i, j)

\* The operands of a union or an intersection, from left to right.
RECURSIVE Operands(_, _)
Operands(kind, n) == IF n[1] = kind THEN <<n[2]>> \o Operands(kind, n[3]) ELSE <<n>>

RECURSIVE Canonical(_)
Canonical(n) ==
  /\ n[1] = "Repeat" => n[2] \notin {False, Empty}
  /\ n[1] \in {"Union", "Intersect"} =>
       LET ops == Operands(n[1], n)
       IN  /\ n[2][1] # n[1]
           /\ \A k \in 1..Len(ops) - 1 :
                /\ ops[k] # False
                /\ ops[k] # ops[k + 1]
                /\ FingerPrint(ops[k]) <= FingerPrint(ops[k + 1])
  /\ n[1] = "Concat" => n[2][1] # "Concat" /\ {n[2], n[3]} \cap {False, Empty} = {}
  /\ n[1] \in Binary => Canonical(n[2]) /\ Canonical(n[3])
  /\ n[1] \in Wrap   => Canonical(Child(n))

\* Reading keeps every list of operands sorted, flat and free of repetitions.
\* Equals compares trees node by node, so two orders of the same operands would
\* be two states, and the automaton would grow without need.
StaysCanonical == /\ Canonical(cur)

=============================================================================
