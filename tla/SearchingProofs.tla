--------------------------- MODULE SearchingProofs ---------------------------
(***************************************************************************)
(* What the searches of one caller return, call after call, for all        *)
(* expressions, texts and limits that meet the assumptions of Answers.tla. *)
(***************************************************************************)
EXTENDS Searching, SearchProofs

\* The inductive invariant.
Inv ==
  /\ IsEngine(engine)
  /\ SearchCall(engine, call)
  /\ call.s \in Texts[engine.pat]

LEMMA NewCallFits ==
  ASSUME NEW e, NEW s \in Input, NEW from \in 0..Len(s)
  PROVE  LET q == NewCall(s, from)
         IN  SearchCall(e, q) /\ q.ph = "begin" /\ q.s = s /\ q.from = from
BY DEF NewCall, SearchCall, IsCall, CallField, Begun

LEMMA WorkFollows ==
  ASSUME Inv, Work
  PROVE  Follows(engine, call, engine', call') /\ SearchCall(engine', call')
<1>1. IsEngine(engine) /\ IsCall(call)
  BY DEF Inv, SearchCall
<1>2. CASE Prologue
  <2>1. call.ph = "begin" /\ Begun(engine, call)
    BY <1>2 DEF Prologue, Inv, SearchCall
  <2>2. Follows(engine, call, engine, Begin(engine, call))
        /\ SearchCall(engine, Begin(engine, call))
    BY <1>1, <2>1, BeginFits
  <2> QED
    BY <1>2, <2>2 DEF Prologue
<1>3. CASE FirstPass
  <2>1. call.ph = "scan" /\ Scanning(engine, call)
    BY <1>3 DEF FirstPass, Pass, Inv, SearchCall
  <2> QED
    BY <1>1, <1>3, <2>1, ScanForwardFits DEF FirstPass, Pass
<1>4. CASE SecondPass
  <2>1. call.ph = "back" /\ Backing(engine, call)
    BY <1>4 DEF SecondPass, Pass, Inv, SearchCall
  <2> QED
    BY <1>1, <1>4, <2>1, ScanBackFits DEF SecondPass, Pass
<1>5. CASE ThirdPass
  <2>1. call.ph = "longest" /\ Extending(engine, call)
    BY <1>5 DEF ThirdPass, Pass, Inv, SearchCall
  <2> QED
    BY <1>1, <1>5, <2>1, ScanLongestFits DEF ThirdPass, Pass
<1> QED
  BY <1>2, <1>3, <1>4, <1>5 DEF Work

LEMMA InvInit == Init => Inv
<1> SUFFICES ASSUME NEW n \in Expression, engine = NewEngine(n),
                    NEW s \in Texts[engine.pat], NEW from \in 0..Len(s),
                    call = NewCall(s, from)
             PROVE  Inv
  BY DEF Init
<1>1. IsEngine(engine) /\ engine.pat = n
  BY NewEngineFits
<1>2. s \in Input
  BY <1>1, TextsAssumption
<1> QED
  BY <1>1, <1>2, NewCallFits DEF Inv

LEMMA InvStep == Inv /\ [Next]_vars => Inv'
<1> SUFFICES ASSUME Inv, [Next]_vars
             PROVE  Inv'
  OBVIOUS
<1>1. CASE Call
  <2>1. PICK s \in Texts[engine.pat] : \E from \in 0..Len(s) : call' = NewCall(s, from)
    BY <1>1 DEF Call
  <2>2. PICK from \in 0..Len(s) : call' = NewCall(s, from)
    BY <2>1
  <2>3. s \in Input
    BY TextsAssumption DEF Inv, IsEngine
  <2>4. SearchCall(engine, call') /\ call'.s = s
    BY <2>2, <2>3, NewCallFits
  <2> QED
    BY <1>1, <2>4 DEF Call, Inv
<1>2. CASE Work
  BY <1>2, WorkFollows DEF Inv, Follows
<1>3. CASE UNCHANGED vars
  BY <1>3 DEF vars, Inv
<1> QED
  BY <1>1, <1>2, <1>3 DEF Next

LEMMA Invariance == Spec => []Inv
<1> QED
  BY InvInit, InvStep, PTL DEF Spec

----------------------------------------------------------------------------

\* The automata of an engine and the local state of its call have their types
\* whatever is searched, and the call is in a state of the automaton it runs.
THEOREM TypeCorrect == Spec => []TypeOK
<1>1. Inv => TypeOK
  <2> SUFFICES ASSUME Inv
               PROVE  TypeOK
    OBVIOUS
  <2>1. IsEngine(engine) /\ IsCall(call)
    BY DEF Inv, SearchCall
  <2>2. call.s \in Input /\ call.from \in 0..Len(call.s) /\ Len(call.s) \in Nat
    BY <2>1, SpansFacts
  <2>3. \A d \in Automata(engine) : d.asts \in Seq(Tree) /\ Len(d.rows) = Len(d.asts)
    BY <2>1 DEF IsEngine, Automata, AutomatonOf, Sound, WellFormed
  <2>4. call.ph \in {"begin", "scan", "back", "longest", "done"}
    BY DEF Inv, SearchCall
  <2>5. call.pos \in 0..Len(call.s)
        /\ {call.firstEnd, call.start, call.end} \subseteq {NoPos} \cup 0..Len(call.s)
    <3>1. CASE call.ph = "begin"
      BY <2>2, <3>1 DEF Inv, SearchCall, Begun
    <3>2. CASE call.ph = "scan"
      BY <2>2, <3>2 DEF Inv, SearchCall, Scanning, EndKnown
    <3>3. CASE call.ph = "back"
      <4>1. Backing(engine, call)
        BY <3>3 DEF Inv, SearchCall
      <4> QED
        BY <2>2, <4>1 DEF Backing, EndKnown
    <3>4. CASE call.ph = "longest"
      <4>1. Extending(engine, call)
        BY <3>4 DEF Inv, SearchCall
      <4> QED
        BY <2>2, <4>1 DEF Extending, EndKnown, StartKnown
    <3>5. CASE call.ph = "done"
      BY <2>2, <3>5 DEF Inv, SearchCall, Answered
    <3> QED
      BY <2>4, <3>1, <3>2, <3>3, <3>4, <3>5
  <2>6. Done \/ call.st \in 1..Len(Running(engine, call).asts)
    <3>1. CASE call.ph = "begin"
      <4>1. RootState \in State(engine.unanchored)
        BY <2>1, RootStands DEF IsEngine, Stands
      <4> QED
        BY <3>1, <4>1 DEF Inv, SearchCall, Begun, Running, State
    <3>2. CASE call.ph = "scan"
      BY <3>2 DEF Inv, SearchCall, Scanning, Running, State
    <3>3. CASE call.ph = "back"
      BY <3>3 DEF Inv, SearchCall, Backing, Running, State
    <3>4. CASE call.ph = "longest"
      BY <3>4 DEF Inv, SearchCall, Extending, Stands, Running, State
    <3> QED
      BY <2>4, <3>1, <3>2, <3>3, <3>4 DEF Done
  <2> QED
    BY <2>1, <2>2, <2>3, <2>4, <2>5, <2>6 DEF TypeOK, Inv, IsEngine
<1> QED
  BY <1>1, Invariance, PTL

\* A search never makes up a match: not with full automata, not with anchors, and
\* whatever its filters skip.
THEOREM AnswersAreMatches == Spec => []AnswerIsMatch
<1>1. Inv => AnswerIsMatch
  BY DEF Inv, SearchCall, AnswerIsMatch, Done, Answered, IsAnswer
<1> QED
  BY <1>1, Invariance, PTL

\* Without anchors, a match that is found has its end, as long as the forward
\* automaton has room: what the reversed and the unanchored one have lost does
\* not matter.
THEOREM EndsAreKnown == Spec => []EndIsKnown
<1>1. Inv => EndIsKnown
  BY DEF Inv, SearchCall, EndIsKnown, Done, Answered, EndNotLost
<1> QED
  BY <1>1, Invariance, PTL

\* An expression whose filters keep its matches leaves none behind.
THEOREM NothingLeftBehind == Spec => [](FiltersKeepMatches(engine.pat) => NothingBehind)
<1>1. Inv => (FiltersKeepMatches(engine.pat) => NothingBehind)
  <2> SUFFICES ASSUME Inv, FiltersKeepMatches(engine.pat),
                      call.ph \in {"scan", "back", "longest"}, ~Full(engine)
               PROVE  LET passed == IF call.firstEnd # NoPos THEN call.firstEnd - 1 ELSE call.pos
                      IN  \A x \in SpansFrom(engine.pat, call.s, call.from) : x[2] > passed
    BY DEF NothingBehind
  <2>1. HasRoom(engine.unanchored)
    BY RoomOfFull
  <2>2. \/ EndKnown(engine, call)
        \/ call.firstEnd = NoPos /\ NoneBehind(engine, call, call.pos)
    <3>1. \/ call.ph = "scan" /\ Scanning(engine, call)
          \/ call.ph = "back" /\ Backing(engine, call)
          \/ call.ph = "longest" /\ Extending(engine, call)
      BY Zenon DEF Inv, SearchCall
    <3> QED
      BY <3>1 DEF Scanning, Backing, Extending
  <2>3. CASE EndKnown(engine, call)
    <3>1. call.firstEnd # NoPos
      <4>1. call.from \in Nat
        BY DEF Inv, SearchCall, IsCall
      <4> QED
        BY <2>3, <4>1 DEF EndKnown, NoPos
    <3> QED
      BY <2>1, <2>3, <3>1 DEF EndKnown, NoneBehind
  <2>4. CASE call.firstEnd = NoPos /\ NoneBehind(engine, call, call.pos)
    BY <2>1, <2>4 DEF NoneBehind
  <2> QED
    BY <2>2, <2>3, <2>4
<1> QED
  BY <1>1, Invariance, PTL

----------------------------------------------------------------------------
(* An engine implements the expression.                                    *)

LEMMA AnswersByText ==
  ASSUME Inv
  PROVE  /\ <<call.s, call.from>> \in {<<s, from>> : s \in Input, from \in 0..MaxLen}
         /\ <<call.s, call.from>> # None
         /\ (Full(engine) \/ Compiled[engine.pat].hasAssertions) \in BOOLEAN
         /\ Done => call.loc # None
<1>1. IsEngine(engine) /\ IsCall(call)
  BY DEF Inv, SearchCall
<1>2. call.s \in Input /\ call.from \in 0..Len(call.s) /\ Len(call.s) \in Nat
  BY <1>1, SpansFacts
<1>3. call.from \in 0..MaxLen
  BY <1>2, InputAssumption
<1>4. <<call.s, call.from>> # None
  <2>1. <<call.s, call.from>> \in Input \X Nat
    BY <1>2
  <2> QED
    BY <2>1, AbsentAssumption
<1>5. ASSUME Done
      PROVE  call.loc # None
  <2>1. IsAnswer(engine, call)
    BY <1>5 DEF Inv, SearchCall, Done, Answered
  <2>2. call.loc \in Seq(Int)
    <3>1. CASE call.loc = Nil
      BY <3>1 DEF Nil
    <3>2. CASE call.loc \in SpansFrom(engine.pat, call.s, call.from)
      <4> DEFINE x == call.loc
      <4>1. x = <<x[1], x[2]>> /\ x[1] \in Nat /\ x[2] \in Nat
        BY <1>1, <3>2, SpansFacts
      <4>2. \A i, j \in Nat : <<i, j>> \in Seq(Int)
        OBVIOUS
      <4> HIDE DEF x
      <4>3. x \in Seq(Int)
        BY <4>1, <4>2
      <4> QED
        BY <4>3 DEF x
    <3>3. CASE \E i \in call.from..Len(call.s) : call.loc = <<i, NoPos>>
      BY <1>2, <3>3 DEF NoPos
    <3> QED
      BY <2>1, <3>1, <3>2, <3>3 DEF IsAnswer
  <2> QED
    BY <2>2, AbsentAssumption
<1>6. (Full(engine) \/ Compiled[engine.pat].hasAssertions) \in BOOLEAN
  OBVIOUS
<1> QED
  BY <1>2, <1>3, <1>4, <1>5, <1>6

LEMMA AskRefines ==
  ASSUME Inv, Call
  PROVE  R!Next
<1>1. PICK s \in Texts[engine.pat] : \E from \in 0..Len(s) : call' = NewCall(s, from)
  BY DEF Call
<1>2. PICK from \in 0..Len(s) : call' = NewCall(s, from)
  BY <1>1
<1>3. /\ call'.ph = "begin" /\ call'.s = s /\ call'.from = from
      /\ engine' = engine /\ call.ph = "done"
  BY <1>2 DEF NewCall, Call
<1>4. s \in Input /\ from \in 0..MaxLen
  <2>1. s \in Input
    BY TextsAssumption DEF Inv, IsEngine
  <2> QED
    BY <2>1, InputAssumption
<1>5. call.loc # None
  BY <1>3, AnswersByText DEF Done
<1>6. ~Done' /\ Done
  BY <1>3 DEF Done
<1>7. R!Ask(1, <<s, from>>)
  BY <1>3, <1>5, <1>6 DEF R!Ask
<1> QED
  BY <1>4, <1>7 DEF R!Next

LEMMA WorkRefines ==
  ASSUME FiltersKeepMatches(engine.pat), Inv, Work, Inv'
  PROVE  R!Next \/ UNCHANGED R!vars
<1> DEFINE n      == engine.pat
           asserts == Compiled[n].hasAssertions
<1>1. Follows(engine, call, engine', call') /\ SearchCall(engine', call')
  BY WorkFollows
<1>2. /\ engine'.pat = n /\ call'.s = call.s /\ call'.from = call.from
      /\ Full(engine) => Full(engine')
      /\ call'.ph = "done" => (Full(engine') => Full(engine))
  BY <1>1 DEF Follows
<1>3. call.ph # "done"
  BY DEF Work, Prologue, FirstPass, SecondPass, ThirdPass, Pass
<1>4. IsEngine(engine) /\ IsCall(call)
  BY DEF Inv, SearchCall
<1>5. /\ n \in Expression /\ call.s \in Input
      /\ call.from \in 0..Len(call.s) /\ Len(call.s) \in Nat
  BY <1>4, SpansFacts
<1>6. <<call.s, call.from>> # None /\ <<call.s, call.from>> \in Input \X (0..MaxLen)
  BY AnswersByText
<1>7. CASE call'.ph # "done"
  <2>1. ~Done /\ ~Done'
    BY <1>3, <1>7 DEF Done
  <2>2. CASE Full(engine) \/ asserts \/ ~Full(engine')
    <3>1. (Full(engine) \/ asserts) <=> (Full(engine') \/ Compiled[engine'.pat].hasAssertions)
      BY <1>2, <2>2
    <3> QED
      BY <1>2, <2>1, <3>1 DEF R!vars
  <2>3. CASE ~(Full(engine) \/ asserts) /\ Full(engine')
    BY <1>2, <2>1, <2>3 DEF R!Next, R!Fill
  <2> QED
    BY <2>2, <2>3
<1>8. CASE call'.ph = "done"
  <2>1. ~Done /\ Done'
    BY <1>3, <1>8 DEF Done
  <2>2. (Full(engine) \/ asserts) <=> (Full(engine') \/ Compiled[engine'.pat].hasAssertions)
    BY <1>2, <1>8
  <2>3. Answered(engine', call')
    BY <1>1, <1>8 DEF SearchCall
  <2>4. call'.loc \in PoorerLocations(n, call.s, call.from)
    <3>1. \/ call'.loc = Nil
          \/ call'.loc \in SpansFrom(n, call.s, call.from)
          \/ \E i \in call.from..Len(call.s) : call'.loc = <<i, NoPos>>
      BY <1>2, <2>3 DEF Answered, IsAnswer
    <3>2. call.from..Len(call.s) \subseteq 0..Len(call.s)
      BY <1>5
    <3> QED
      BY <3>1, <3>2 DEF PoorerLocations
  <2>5. ~(Full(engine) \/ asserts) => call'.loc = FirstEnding(n, call.s, call.from)
    BY <1>2, <1>5, <1>8, <2>3 DEF Answered, ExactAnswer
  <2>7. <<call.s, call.from>>[1] = call.s /\ <<call.s, call.from>>[2] = call.from
    OBVIOUS
  <2> DEFINE q == <<call.s, call.from>>
             exact == [m \in Expression |-> [k \in Input \X (0..MaxLen) |->
                         FirstEnding(m, k[1], k[2])]]
             poorer == [m \in Expression |-> [k \in Input \X (0..MaxLen) |->
                          PoorerLocations(m, k[1], k[2])]]
  <2>8. /\ exact[n][q] = FirstEnding(n, call.s, call.from)
        /\ poorer[n][q] = PoorerLocations(n, call.s, call.from)
    BY <1>5, <1>6, <2>7
  <2> HIDE DEF exact, poorer
  <2>9. call'.loc \in {exact[n][q]}
                        \cup (IF Full(engine) \/ asserts THEN poorer[n][q] ELSE {})
    BY <2>4, <2>5, <2>8
  <2>10. R!Tell(1)
    BY <1>2, <1>6, <2>1, <2>2, <2>9 DEF R!Tell, exact, poorer
  <2> QED
    BY <2>10 DEF R!Next
<1> QED
  BY <1>7, <1>8

\* Whatever is cached, searches answer as the expression does, at once and by its
\* matches alone; an automaton that is full, and anchors, may only make the answers
\* poorer.
THEOREM Refinement == Spec /\ FiltersKeepMatches(engine.pat) => Implements
<1>1. Inv /\ Init => R!Init
  <2> SUFFICES ASSUME Inv, Init
               PROVE  R!Init
    OBVIOUS
  <2>1. call.ph = "begin"
    BY DEF Init, NewCall
  <2>2. ~Done
    BY <2>1 DEF Done
  <2>3. engine.pat \in Expression
    BY DEF Inv, IsEngine
  <2> QED
    BY <2>2, <2>3, AnswersByText DEF R!Init
<1>2. FiltersKeepMatches(engine.pat) /\ Inv /\ [Next]_vars /\ Inv' => [R!Next]_R!vars
  <2> SUFFICES ASSUME FiltersKeepMatches(engine.pat), Inv, [Next]_vars, Inv'
               PROVE  R!Next \/ UNCHANGED R!vars
    OBVIOUS
  <2>1. CASE Call
    BY <2>1, AskRefines
  <2>2. CASE Work
    BY <2>2, WorkRefines
  <2>3. CASE UNCHANGED vars
    BY <2>3 DEF vars, R!vars, Done
  <2> QED
    BY <2>1, <2>2, <2>3 DEF Next
<1>3. FiltersKeepMatches(engine.pat) /\ Inv /\ [Next]_vars => FiltersKeepMatches(engine.pat)'
  <2> SUFFICES ASSUME Inv, [Next]_vars
               PROVE  engine'.pat = engine.pat
    OBVIOUS
  <2> QED
    BY WorkFollows DEF Next, Call, Follows, vars
<1> QED
  BY <1>1, <1>2, <1>3, Invariance, PTL DEF Spec, Implements, R!Spec

=============================================================================
