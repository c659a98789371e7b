---------------------------- MODULE TaggedTrees ----------------------------
(***************************************************************************)
(* The step of the tagged automaton (stepTDFA of tdfa.go): one tree after  *)
(* the reading of a byte for each way of reading it, in the order of       *)
(* preference, with the tags passed on the way.  Unlike the derivative it  *)
(* never joins two ways into a union.                                      *)
(***************************************************************************)
EXTENDS Ast, Sequences

Config(next, tags) == [next |-> next, tags |-> tags]

\* One config: the byte is read, or it is not and the way is dead.
Consume(reads) == <<Config(IF reads THEN Empty ELSE False, <<>>)>>

\* The tag operation of a tag, of any other node none.
TagOps(n) == IF n[1] = "Tag" THEN <<[id |-> n[2], isStart |-> n[3]]>> ELSE <<>>

\* A class is read by its text, which a lowered class does not have.
ReadsTagged(n, b) == Reads(n, b) /\ ~(n[1] = "Class" /\ Len(n) = 3)

\* Each way goes on with n after what it has left to read.
FollowedBy(configs, n) ==
  [i \in DOMAIN configs |-> Config(NewConcat(configs[i].next, n), configs[i].tags)]

\* Past a nullable left side first, then through it.  A tag is passed when the
\* side before it is read to its end, and once more when the next byte is read.
ConcatConfigs(n, left, right, leftNullable) ==
  LET past == [i \in DOMAIN right |->
                 Config(right[i].next, TagOps(n[2]) \o right[i].tags)]
      through == [i \in DOMAIN left |->
                    Config(NewConcat(left[i].next, n[3]),
                           left[i].tags \o (IF left[i].next = Empty THEN TagOps(n[3])
                                            ELSE <<>>))]
  IN  (IF leftNullable THEN past ELSE <<>>) \o through

\* As many repetitions skipped as the count allows when the body may be empty.
RECURSIVE SkipConfigs(_, _, _)
SkipConfigs(n, child, k) ==
  FollowedBy(child, Remaining(n, k))
    \o (IF k = n[4] - 1 THEN <<>> ELSE SkipConfigs(n, child, k + 1))

RepeatConfigs(n, child, childNullable) ==
  IF n[4] = 0 THEN Consume(FALSE)
  ELSE IF childNullable THEN SkipConfigs(n, child, 0)
  ELSE FollowedBy(child, Remaining(n, 0))

\* A way of the left side survives with the first way of the right side that
\* leads to the same tree.
IntersectConfigs(left, right) ==
  LET meets(i) == {j \in DOMAIN right : right[j].next = left[i].next}
      alive    == SelectSeq([i \in DOMAIN left |-> i], LAMBDA i : meets(i) # {})
  IN  [k \in DOMAIN alive |->
         LET i == alive[k]
         IN  Config(left[i].next, left[i].tags \o right[Min(meets(i))].tags)]

\* The configurations of the child of n, inside a node of n's type.
Wrapped(n, configs) ==
  LET make(child) == CASE n[1] = "Complement" -> NewComplement(child)
                       [] n[1] = "LookAhead"  -> LookAhead(child)
                       [] n[1] = "LookBehind" -> LookBehind(child)
  IN  [i \in DOMAIN configs |-> Config(make(configs[i].next), configs[i].tags)]

RECURSIVE StepTDFA(_, _, _)
StepTDFA(n, b, ctx) ==
  CASE n[1] = "AnyByte"      -> <<>>
    [] n[1] \in Leaf \ {"AnyByte"} -> Consume(ReadsTagged(n, b))
    [] n[1] \in Anchor       -> Consume(AnchorHolds(n, ctx))
    [] n[1] = "Union"        -> StepTDFA(n[2], b, ctx) \o StepTDFA(n[3], b, ctx)
    [] n[1] = "Concat"       ->
         ConcatConfigs(n, StepTDFA(n[2], b, ctx), StepTDFA(n[3], b, ctx),
                       Nullable(n[2], ctx))
    [] n[1] = "Star"         -> FollowedBy(StepTDFA(n[2], b, ctx), n)
    [] n[1] = "Group"        -> StepTDFA(n[3], b, ctx)
    [] n[1] = "Repeat"       ->
         RepeatConfigs(n, StepTDFA(n[2], b, ctx), Nullable(n[2], ctx))
    [] n[1] = "Intersect"    ->
         IntersectConfigs(StepTDFA(n[2], b, ctx), StepTDFA(n[3], b, ctx))
    [] n[1] \in {"Complement", "LookAhead", "LookBehind"} ->
         Wrapped(n, StepTDFA(n[2], b, ctx))

\* Each group becomes its child between two tags.
RECURSIVE InjectCaptureTags(_)
InjectCaptureTags(n) ==
  CASE n[1] = "Group"        ->
         NewConcat(Tag(n[2], TRUE), NewConcat(InjectCaptureTags(n[3]), Tag(n[2], FALSE)))
    [] n[1] = "Concat"       -> NewConcat(InjectCaptureTags(n[2]), InjectCaptureTags(n[3]))
    [] n[1] = "Union"        -> NewUnion(InjectCaptureTags(n[2]), InjectCaptureTags(n[3]))
    [] n[1] = "Intersect"    -> NewIntersect(InjectCaptureTags(n[2]), InjectCaptureTags(n[3]))
    [] n[1] = "Repeat"       -> NewRepeat(InjectCaptureTags(n[2]), n[3], n[4])
    [] n[1] = "Complement"   -> NewComplement(InjectCaptureTags(n[2]))
    [] n[1] \in {"Star", "LookAhead", "LookBehind"} -> <<n[1], InjectCaptureTags(n[2])>>
    [] OTHER                 -> n

RECURSIVE CountCaptureGroups(_)
CountCaptureGroups(n) ==
  CASE n[1] = "Group"        -> 1 + CountCaptureGroups(n[3])
    [] n[1] \in Wrap \ {"Group"} -> CountCaptureGroups(n[2])
    [] n[1] \in Binary       -> CountCaptureGroups(n[2]) + CountCaptureGroups(n[3])
    [] OTHER                 -> 0

=============================================================================
