---------------------------- MODULE MCIteration ----------------------------
(***************************************************************************)
(* Two goroutines that share an engine for one of a few expressions, most  *)
(* of them with groups.  What a search answers comes from a run of the     *)
(* machine of Search.tla; what a tagged tree may do from TaggedTrees.tla.  *)
(***************************************************************************)
EXTENDS IterationMeaning, MCTrees, IterationAnswers

CONSTANT Exprs

a == Lit(97)
b0 == Lit(98)
c0 == Lit(99)

\* a*, (b), (a)(b), (a+)(a+), (a)?b(c), (a)+(b), ^(a)
Grouped ==
  <<Star(a),
    Group(1, b0),
    NewConcat(Group(1, a), Group(2, b0)),
    NewConcat(Group(1, NewConcat(a, Star(a))), Group(2, NewConcat(a, Star(a)))),
    NewConcat(NewUnion(Group(1, a), Empty), NewConcat(b0, Group(2, c0))),
    NewConcat(NewConcat(Group(1, a), Star(Group(1, a))), Group(2, b0)),
    NewConcat(Start, Group(1, a))>>

\* ([a-z]+)@([a-z]+)\.([a-z]+), whose classes are lowered to bytes.
Letters == ByteClass({97, 98, 99})
Name(id) == Group(id, NewConcat(Letters, Star(Letters)))
Address ==
  <<NewConcat(Name(1), NewConcat(Lit(64), NewConcat(Name(2), NewConcat(Lit(46), Name(3)))))>>

AAB == <<97, 97, 98>>
BC  == <<98, 99>>
EA  == <<195, 169, 97>>

Asking(op, way, s, n) == [op |-> op, way |-> way, s |-> s, n |-> n]

Asked ==
  {Asking("FindAll", "wrapper", EA, -1), Asking("FindAll", "engine", AAB, 2),
   Asking("Split", "wrapper", EA, -1), Asking("Split", "wrapper", EA, 0),
   Asking("Split", "engine", AAB, 2),
   Asking("ReplaceAll", "wrapper", EA, -1), Asking("ReplaceAllString", "wrapper", AAB, -1),
   Asking("FindSubmatch", "wrapper", AAB, 1),
   Asking("FindAllSubmatch", "wrapper", AAB, -1), Asking("FindAllSubmatch", "engine", BC, 1)}

AskedGroups == {Asking("FindSubmatch", "wrapper", <<97, 64, 98, 46, 99>>, 1)}

Texts == {q.s : q \in Request}
MCInput == UNION {{Suffix(s, i) : i \in 0..Len(s)} : s \in Texts}

Bytes   == UNION {{s[i] : i \in DOMAIN s} : s \in Texts}
Spanned == SpanTable(Exprs, MCInput)

MCByte  == LET bytes == Bytes IN bytes
MCSpans == LET spans == Spanned IN spans

----------------------------------------------------------------------------
(* The answers of a search, from a run of it in a new engine over tables t. *)

S(t) == INSTANCE Search WITH
          Tree <- DOMAIN t.trees, FalseTree <- 1, Minterm <- Bytes,
          Context <- ContextsOf(Exprs, MCInput), Deriv <- t.deriv, Null <- t.null,
          Mask <- t.mask, FP <- t.fp, Compiled <- t.compiled, maxLazyDFAStates <- 1000

RECURSIVE RunOf(_, _, _)
RunOf(t, e, r) ==
  IF r.ph = "done" THEN r.loc
  ELSE LET next == S(t)!Step(e, r) IN RunOf(t, next.e, next.r)

FindIn(t, p, s, pos) ==
  RunOf(t, S(t)!NewEngine(p), S(t)!Begin(S(t)!NewEngine(p), S(t)!NewCall(s, pos)))

Found ==
  Tabulated({[p \in DOMAIN Exprs |->
               [s \in MCInput |-> [pos \in 0..Len(s) |-> FindIn(t, p, s, pos)]]] :
             t \in {Tables(RootsOf(Exprs), Bytes, ContextsOf(Exprs, MCInput), 997, Exprs, {})}})

MCFind == LET found == Found IN found

----------------------------------------------------------------------------
(* The tagged trees, numbered; False, the dead tree, is the first one.     *)

Parts == UNION {{SubSeq(s, 1, i) : i \in 0..Len(s)} : s \in MCInput}

Situations == UNION {{MakeMatchContext(s, i) : i \in 0..Len(s)} : s \in Parts}

RECURSIVE TaggedClosure(_, _)
TaggedClosure(todo, done) ==
  IF todo = {} THEN done
  ELSE LET t    == CHOOSE x \in todo : TRUE
           more == Append(done, t)
           new  == UNION {{ways[i].next : i \in DOMAIN ways} :
                     ways \in {StepTDFA(t, b, c) : b \in Bytes, c \in Situations}}
       IN  TaggedClosure((todo \cup new) \ {more[i] : i \in DOMAIN more}, more)

TaggedTables ==
  Tabulated({[
    trees   |-> trees,
    configs |-> [i \in DOMAIN trees |-> [b \in Bytes |-> [c \in Situations |->
                  LET ways == StepTDFA(trees[i], b, c)
                  IN  [k \in DOMAIN ways |->
                         [next |-> Number(trees, ways[k].next), tags |-> ways[k].tags]]]]],
    accepts |-> [i \in DOMAIN trees |-> [c \in Situations |-> Nullable(trees[i], c)]],
    plain   |-> {i \in DOMAIN trees : ~ContainsAssertions(trees[i])},
    program |-> [p \in DOMAIN Exprs |->
                  [root |-> Number(trees, InjectCaptureTags(Exprs[p])),
                   captures |-> CountCaptureGroups(Exprs[p]),
                   hasAssertions |-> ContainsAssertions(Exprs[p]),
                   byteToClass |-> MintermTable(Exprs[p])]]] :
    trees \in {TaggedClosure({InjectCaptureTags(Exprs[p]) : p \in DOMAIN Exprs}, <<False>>)}})

MCTagTree   == LET t == TaggedTables IN DOMAIN t.trees
MCConfigs   == LET t == TaggedTables IN t.configs
MCAccepts   == LET t == TaggedTables IN t.accepts
MCPlain     == LET t == TaggedTables IN t.plain
MCProgram   == LET t == TaggedTables IN t.program
MCSituation == LET contexts == Situations IN contexts
MCPattern   == LET exprs == Exprs IN DOMAIN exprs

Meant ==
  Tabulated({[p \in DOMAIN Exprs |-> [q \in Request |->
               MeansToReturn(Exprs[p], spans[p][q.s], q)]] : spans \in {SpanTable(Exprs, MCInput)}})

MCAnswer == LET answers == Meant IN answers

\* What the theorems of LoopProofs are proved under holds of these expressions.
ASSUME MeaningAssumption == \A p \in Pattern : AnswersAsMeant(p)

ASSUME FindsFirstAssumption == \A p \in Pattern : ~Program[p].hasAssertions => FindsFirst(p)

=============================================================================
