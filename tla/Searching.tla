----------------------------- MODULE Searching -----------------------------
(***************************************************************************)
(* One engine searched by one caller, call after call (FindStringIndex and *)
(* the loops of FindAll, which go on from where the last match ended).     *)
(* The automata persist between calls.                                     *)
(***************************************************************************)
EXTENDS Answers

CONSTANT Texts   \* Texts[n]: the texts that expression n is searched in

ASSUME TextsAssumption == Texts \in [Expression -> SUBSET Input]

VARIABLES engine, call

vars == <<engine, call>>

Init == /\ \E n \in Expression : engine = NewEngine(n)
        /\ \E s \in Texts[engine.pat] : \E from \in 0..Len(s) : call = NewCall(s, from)

\* A new call, once the last one has returned.
Call == /\ call.ph = "done"
        /\ \E s \in Texts[engine.pat] : \E from \in 0..Len(s) : call' = NewCall(s, from)
        /\ UNCHANGED engine

Prologue == /\ call.ph = "begin"
            /\ call' = Begin(engine, call)
            /\ UNCHANGED engine

Pass(phase, step) == /\ call.ph = phase
                     /\ engine' = step.e
                     /\ call' = step.r

FirstPass  == Pass("scan", ScanForward(engine, call))
SecondPass == Pass("back", ScanBack(engine, call))
ThirdPass  == Pass("longest", ScanLongest(engine, call))

Work == Prologue \/ FirstPass \/ SecondPass \/ ThirdPass

Next == Call \/ Work

\* A call runs to its end; whether another one follows is the caller's choice.
Spec == Init /\ [][Next]_vars /\ WF_vars(Work)

----------------------------------------------------------------------------

Done == call.ph = "done"

\* Type correctness; the state of a call is a state of the automaton it runs.
TypeOK ==
  /\ engine.pat \in Expression
  /\ \A d \in Automata(engine) : d.asts \in Seq(Tree) /\ Len(d.rows) = Len(d.asts)
  /\ call.ph \in {"begin", "scan", "back", "longest", "done"}
  /\ call.s \in Texts[engine.pat]
  /\ call.from \in 0..Len(call.s)
  /\ call.pos \in 0..Len(call.s)
  /\ {call.firstEnd, call.start, call.end} \subseteq {NoPos} \cup 0..Len(call.s)
  /\ Done \/ call.st \in 1..Len(Running(engine, call).asts)

\* The first pass leaves no match behind: neither one it has skipped with its
\* filters nor one whose end it has read over.  (A full automaton may.)
NothingBehind ==
  call.ph \in {"scan", "back", "longest"} /\ ~Full(engine) =>
    LET passed == IF call.firstEnd # NoPos THEN call.firstEnd - 1 ELSE call.pos
    IN  \A x \in SpansFrom(engine.pat, call.s, call.from) : x[2] > passed

\* Whatever a search finds is a match, full automata or not, provided it has
\* found an end.
AnswerIsMatch ==
  Done /\ call.loc # Nil /\ call.loc[2] # NoPos =>
    call.loc \in SpansFrom(engine.pat, call.s, call.from)

\* A match has an end: the third pass loses the one the first has found only in
\* a full forward automaton, or where an anchor that held for the second pass
\* does not hold for it (regexp.go:290, 322).  It then returns [start, -1], which
\* a caller that slices the text cannot survive.
EndIsKnown ==
  Done /\ call.loc # Nil /\ HasRoom(engine.forward) /\ ~Compiled[engine.pat].hasAssertions =>
    call.loc[2] # NoPos

\* What the documentation promises of the location returned: that of the
\* leftmost match (regexp.go:135, api.go:17), and nil only if there is none
\* (api.go:18).
ReturnsLeftmost ==
  Done /\ ~Full(engine) /\ call.loc # Nil =>
    \A x \in SpansFrom(engine.pat, call.s, call.from) : call.loc[1] <= x[1]

NilMeansNoMatch ==
  Done /\ ~Full(engine) /\ call.loc = Nil =>
    SpansFrom(engine.pat, call.s, call.from) = {}

\* A call returns.
Returns == ~Done ~> Done

\* The engine is a memory of what the expression means: as long as no automaton
\* is full and the passes do not disagree on anchors, an answer depends on the
\* expression and the question alone.
R == INSTANCE RegExp WITH
       Caller     <- {1},
       Question   <- {<<s, from>> : s \in Input, from \in 0..MaxLen},
       Answer     <- [n \in Expression |-> [q \in Input \X (0..MaxLen) |->
                        FirstEnding(n, q[1], q[2])]],
       Poorer     <- [n \in Expression |-> [q \in Input \X (0..MaxLen) |->
                        PoorerLocations(n, q[1], q[2])]],
       expression <- engine.pat,
       asked      <- [c \in {1} |-> <<call.s, call.from>>],
       told       <- [c \in {1} |-> IF Done THEN call.loc ELSE None],
       full       <- Full(engine) \/ Compiled[engine.pat].hasAssertions

Implements == R!Spec

=============================================================================
