-------------------------------- MODULE Ast --------------------------------
(***************************************************************************)
(* The syntax tree of a regular expression and its Brzozowski derivative   *)
(* (ast.go).  A node is a tuple: the name of its Go type, its fields.  The *)
(* smart constructors keep a tree in the form the code keeps it in, so     *)
(* that structural equality is the code's Equals, and the automaton's      *)
(* states, which are trees, are shared exactly when the code shares them.  *)
(*                                                                         *)
(* A fingerprint is a hash whose range is 0..FpMod - 1: the code's is 64   *)
(* bits wide, a small FpMod makes the collisions it must survive happen.   *)
(***************************************************************************)
EXTENDS MatchContext, FiniteSetsExt

CONSTANT FpMod

ASSUME FpModAssumption == FpMod \in Nat \ {0}

False     == <<"False">>
Empty     == <<"Empty">>
Any       == <<"Any">>
AnyByte   == <<"AnyByte">>
Lit(b)    == <<"Lit", b>>
Class(S)  == <<"Class", S>>
\* A class without text, which the lowering to bytes makes.
ByteClass(S)     == <<"Class", S, "lowered">>
Group(id, c)     == <<"Group", id, c>>
Star(c)          == <<"Star", c>>
LookAhead(c)     == <<"LookAhead", c>>
LookBehind(c)    == <<"LookBehind", c>>
Tag(id, isStart) == <<"Tag", id, isStart>>
Start        == <<"Start">>
End          == <<"End">>
BeginText    == <<"BeginText">>
EndText      == <<"EndText">>
EndTextOptionalNewline == <<"EndTextOptionalNewline">>
WordBoundary(u)        == <<"WordBoundary", u>>
NotWordBoundary(u)     == <<"NotWordBoundary", u>>

Leaf   == {"False", "Empty", "Any", "AnyByte", "Lit", "Class", "Tag"}
Anchor == {"Start", "End", "BeginText", "EndText", "EndTextOptionalNewline",
           "WordBoundary", "NotWordBoundary"}
Wrap   == {"Group", "Star", "LookAhead", "LookBehind", "Complement", "Repeat"}
Binary == {"Union", "Intersect", "Concat"}

\* The node a unary node wraps.
Child(n) == IF n[1] = "Group" THEN n[3] ELSE n[2]

----------------------------------------------------------------------------
(* Fingerprints.                                                           *)

NodeCode ==
  [False |-> 1, Empty |-> 2, Lit |-> 3, Any |-> 4, Class |-> 5, Union |-> 6,
   Intersect |-> 7, Complement |-> 8, Concat |-> 9, Star |-> 10,
   Repeat |-> 11, Group |-> 12, LookAhead |-> 13, LookBehind |-> 14,
   Tag |-> 15, Start |-> 16, End |-> 17, BeginText |-> 18, EndText |-> 19,
   EndTextOptionalNewline |-> 20, WordBoundary |-> 21,
   NotWordBoundary |-> 22, AnyByte |-> 23]

MixFingerprint(h, v) == (h * 31 + v + 7) % FpMod

Flag(b) == IF b THEN 1 ELSE 0

RECURSIVE FingerPrint(_)
FingerPrint(n) ==
  LET h == MixFingerprint(0, NodeCode[n[1]])
  IN  CASE n[1] = "Lit"   -> MixFingerprint(h, n[2])
        [] n[1] = "Class" -> MixFingerprint(h, SumSet(n[2]))
        [] n[1] = "Tag"   -> MixFingerprint(MixFingerprint(h, n[2]), Flag(n[3]))
        [] n[1] = "Group" -> MixFingerprint(MixFingerprint(h, n[2]), FingerPrint(n[3]))
        [] n[1] = "Repeat" ->
             MixFingerprint(MixFingerprint(MixFingerprint(h, FingerPrint(n[2])),
                                           n[3] + 1), n[4] + 1)
        [] n[1] \in {"WordBoundary", "NotWordBoundary"} -> MixFingerprint(h, Flag(n[2]))
        [] n[1] \in Binary ->
             MixFingerprint(MixFingerprint(h, FingerPrint(n[2])), FingerPrint(n[3]))
        [] n[1] \in Wrap \ {"Group", "Repeat"} -> MixFingerprint(h, FingerPrint(n[2]))
        [] OTHER -> h

----------------------------------------------------------------------------
(* Smart constructors.                                                     *)

\* Mutant: the operands kept as they came.
InsertAtHead(kind, left, right) ==
  IF left = right THEN left ELSE <<kind, left, right>>

\* A union or an intersection is a right-nested list, sorted by fingerprint
\* and without repetitions.  Two nodes whose fingerprints collide keep the
\* order in which they came.
RECURSIVE SortedInsert(_, _, _)
SortedInsert(kind, left, right) ==
  LET lfp  == FingerPrint(left)
      head == IF right[1] = kind THEN right[2] ELSE right
  IN  IF left = right THEN left
      ELSE IF left[1] = kind
      THEN SortedInsert(kind, left[2], SortedInsert(kind, left[3], right))
      ELSE IF right[1] = kind /\ left = head THEN right
      ELSE IF lfp > FingerPrint(head)
      THEN IF right[1] = kind
           THEN SortedInsert(kind, head, SortedInsert(kind, left, right[3]))
           ELSE <<kind, right, left>>
      ELSE <<kind, left, right>>

NewUnion(left, right) ==
  IF left = False THEN right
  ELSE IF right = False THEN left
  ELSE SortedInsert("Union", left, right)

NewIntersect(left, right) ==
  IF False \in {left, right} THEN False
  ELSE SortedInsert("Intersect", left, right)

RECURSIVE NewConcat(_, _)
NewConcat(left, right) ==
  IF False \in {left, right} THEN False
  ELSE IF left = Empty THEN right
  ELSE IF right = Empty THEN left
  ELSE IF left[1] = "Concat"
  THEN NewConcat(left[2], NewConcat(left[3], right))
  ELSE <<"Concat", left, right>>

NewComplement(c) == IF c[1] = "Complement" THEN c[2] ELSE <<"Complement", c>>

NewRepeat(c, min, max) ==
  IF max = 0 THEN Empty
  ELSE IF min = 1 /\ max = 1 THEN c
  ELSE IF c = False THEN IF min = 0 THEN Empty ELSE False
  ELSE IF c = Empty THEN Empty
  ELSE <<"Repeat", c, min, max>>

----------------------------------------------------------------------------
(* Nullable: does the node accept the empty string in this context?        *)

\* When an anchor holds, by the facts of the context alone.
AnchorHolds(n, ctx) ==
  CASE n[1] = "Start"     -> ctx \cap {"AtStart", "PrevIsNewline"} # {}
    [] n[1] = "End"       -> ctx \cap {"AtEnd", "NextIsNewline"} # {}
    [] n[1] = "BeginText" -> "AtStart" \in ctx
    [] n[1] = "EndText"   -> "AtEnd" \in ctx
    [] n[1] = "EndTextOptionalNewline" -> "AtEndAfterOptionalNewline" \in ctx
    [] n[1] \in {"WordBoundary", "NotWordBoundary"} ->
         LET differ == IF n[2] THEN ("PrevIsWord" \in ctx) # ("NextIsWord" \in ctx)
                       ELSE ("PrevIsASCIIWord" \in ctx) # ("NextIsASCIIWord" \in ctx)
         IN  differ = (n[1] = "WordBoundary")

RECURSIVE Nullable(_, _)
Nullable(n, ctx) ==
  CASE n[1] \in {"Empty", "Tag", "Star"} -> TRUE
    [] n[1] \in Anchor       -> AnchorHolds(n, ctx)
    [] n[1] = "Complement"   -> ~Nullable(n[2], ctx)
    [] n[1] = "Repeat"       -> n[3] = 0 \/ Nullable(n[2], ctx)
    [] n[1] \in {"Group", "LookAhead", "LookBehind"} -> Nullable(Child(n), ctx)
    [] n[1] = "Union"        -> Nullable(n[2], ctx) \/ Nullable(n[3], ctx)
    [] n[1] \in {"Intersect", "Concat"} -> Nullable(n[2], ctx) /\ Nullable(n[3], ctx)
    [] OTHER                 -> FALSE

----------------------------------------------------------------------------
(* The derivative by a byte.  Each rule takes the derivatives of the parts  *)
(* and whether the part that is read first may be skipped.                  *)

\* The bytes a one-byte node reads.
Reads(n, b) ==
  CASE n[1] = "Lit"     -> b = n[2]
    [] n[1] = "Any"     -> b # Newline
    [] n[1] = "Class"   -> b \in n[2]
    [] n[1] \in {"AnyByte", "Tag"} -> TRUE
    [] OTHER            -> FALSE

\* Mutant: the second part forgotten when the first one may be empty.
ConcatForgetsRight(n, dl, dr, leftNullable) == NewConcat(dl, n[3])

ConcatDerivative(n, dl, dr, leftNullable) ==
  IF leftNullable THEN NewUnion(NewConcat(dl, n[3]), dr) ELSE NewConcat(dl, n[3])

\* The repetitions left when k more of them have been skipped, k = 0 .. the
\* number that may follow the one being read.
Remaining(n, k) ==
  LET less == n[3] - 1 - k
  IN  NewRepeat(n[2], IF less < 0 THEN 0 ELSE less, n[4] - 1 - k)

RECURSIVE SkipUnion(_, _, _)
SkipUnion(n, d, k) ==
  LET here == NewConcat(d, Remaining(n, k))
  IN  IF k = n[4] - 1 THEN here ELSE NewUnion(here, SkipUnion(n, d, k + 1))

\* Mutant: the lower bound not counted down.
RepeatKeepsMin(n, d, childNullable) == NewConcat(d, NewRepeat(n[2], n[3], n[4] - 1))

RepeatDerivative(n, d, childNullable) ==
  IF n[4] = 0 THEN False
  ELSE IF childNullable THEN SkipUnion(n, d, 0)
  ELSE NewConcat(d, Remaining(n, 0))

RECURSIVE Derivative(_, _, _)
Derivative(n, b, ctx) ==
  CASE n[1] \in Leaf         -> IF Reads(n, b) THEN Empty ELSE False
    [] n[1] \in Anchor       -> False
    [] n[1] = "Complement"   -> NewComplement(Derivative(n[2], b, ctx))
    [] n[1] = "Star"         -> NewConcat(Derivative(n[2], b, ctx), n)
    [] n[1] = "Group"        -> Derivative(n[3], b, ctx)
    [] n[1] \in {"LookAhead", "LookBehind"} -> <<n[1], Derivative(n[2], b, ctx)>>
    [] n[1] = "Union"        ->
         NewUnion(Derivative(n[2], b, ctx), Derivative(n[3], b, ctx))
    [] n[1] = "Intersect"    ->
         NewIntersect(Derivative(n[2], b, ctx), Derivative(n[3], b, ctx))
    [] n[1] = "Concat"       ->
         ConcatDerivative(n, Derivative(n[2], b, ctx), Derivative(n[3], b, ctx),
                          Nullable(n[2], ctx))
    [] n[1] = "Repeat"       ->
         RepeatDerivative(n, Derivative(n[2], b, ctx), Nullable(n[2], ctx))

----------------------------------------------------------------------------
(* The tree of the reversed language, for the pass that runs backwards.    *)

ReverseAnchor(n) ==
  CASE n[1] = "Start"   -> End
    [] n[1] = "End"     -> Start
    [] n[1] = "BeginText" -> EndText
    [] n[1] \in {"EndText", "EndTextOptionalNewline"} -> BeginText
    [] OTHER            -> n

RECURSIVE Reverse(_)

\* Mutant: the parts reversed but not swapped.
ConcatNotSwapped(n) == NewConcat(Reverse(n[2]), Reverse(n[3]))

ReverseConcat(n) == NewConcat(Reverse(n[3]), Reverse(n[2]))

Reverse(n) ==
  CASE n[1] = "Tag"          -> Tag(n[2], ~n[3])
    [] n[1] \in Anchor       -> ReverseAnchor(n)
    [] n[1] = "Complement"   -> NewComplement(Reverse(n[2]))
    [] n[1] = "Star"         -> Star(Reverse(n[2]))
    [] n[1] = "Group"        -> Group(n[2], Reverse(n[3]))
    [] n[1] = "Repeat"       -> NewRepeat(Reverse(n[2]), n[3], n[4])
    [] n[1] = "Union"        -> NewUnion(Reverse(n[2]), Reverse(n[3]))
    [] n[1] = "Intersect"    -> NewIntersect(Reverse(n[2]), Reverse(n[3]))
    [] n[1] = "Concat"       -> ReverseConcat(n)
    [] OTHER                 -> n

----------------------------------------------------------------------------
(* What the compiler asks of a tree (compiler.go).                         *)

\* Mutant: ^ taken for \A, a line start inside the text forgotten.
MaskForgetsNewline(n) ==
  IF n[1] = "Start" THEN {"AtStart"} ELSE CtxBit

\* The facts an anchor may ask about.
AnchorMask(n) ==
  CASE n[1] = "Start"     -> {"AtStart", "PrevIsNewline"}
    [] n[1] = "End"       -> {"AtEnd", "NextIsNewline"}
    [] n[1] = "BeginText" -> {"AtStart"}
    [] n[1] = "EndText"   -> {"AtEnd"}
    [] n[1] = "EndTextOptionalNewline" -> {"AtEndAfterOptionalNewline"}
    [] n[1] \in {"WordBoundary", "NotWordBoundary"} ->
         {"PrevIsWord", "NextIsWord", "PrevIsASCIIWord", "NextIsASCIIWord"}

\* The facts of the context that a node's nullability or derivative may use.
RECURSIVE RequiredContextMask(_)
RequiredContextMask(n) ==
  CASE n[1] \in Anchor    -> AnchorMask(n)
    [] n[1] \in Wrap      -> RequiredContextMask(Child(n))
    [] n[1] \in Binary    -> RequiredContextMask(n[2]) \cup RequiredContextMask(n[3])
    [] OTHER              -> {}

RECURSIVE ContainsAssertions(_)
ContainsAssertions(n) ==
  \/ n[1] \in Anchor
  \/ n[1] \in Wrap /\ ContainsAssertions(Child(n))
  \/ n[1] \in Binary /\ (ContainsAssertions(n[2]) \/ ContainsAssertions(n[3]))

=============================================================================
