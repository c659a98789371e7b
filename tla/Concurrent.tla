----------------------------- MODULE Concurrent -----------------------------
(***************************************************************************)
(* The wrapper of concurrent.go: goroutines share one engine behind a      *)
(* read-write lock.  Match and FindStringIndex first run on cached         *)
(* transitions under the read lock; on a miss they let go of it, take the  *)
(* write lock and run the whole call again.  The loops of FindAll, Split   *)
(* and Replace take the write lock for each search (findStringIndexFrom),  *)
(* and so do the methods that take a context.                              *)
(*                                                                         *)
(* A goroutine's pc is named after what it does or waits for:              *)
(* idle, rlock, reading, lock, announced, writing.                         *)
(***************************************************************************)
EXTENDS CachedSearch, LazyDFAInvariants

CONSTANTS Goroutine, Question   \* questions are <<operation, text, position>>

ASSUME NoneAssumption == None \notin Goroutine

ASSUME QuestionAssumption ==
  /\ Question \subseteq {"Match", "FindStringIndex", "findStringIndexFrom"}
                          \X Input \X (0..MaxLen)
  /\ \A q \in Question : q[3] <= Len(q[2]) /\ (q[1] # "findStringIndexFrom" => q[3] = 0)
  /\ None \notin Question

VARIABLES engine,   \* the shared engine
          lock,     \* its RWMutex
          pc,       \* where each goroutine is
          asked,    \* the question it is answering, or has answered last
          call      \* the local state of its search

vars == <<engine, lock, pc, asked, call>>

----------------------------------------------------------------------------
(* External (sync.RWMutex).  A writer first announces itself, which keeps  *)
(* new readers and other writers out, and then waits for the readers that  *)
(* are in.                                                                 *)

Unlocked == [readers |-> {}, writer |-> None]

Open     == lock.writer = None
Drained  == lock.readers = {}

----------------------------------------------------------------------------

Init == /\ \E n \in Expression : engine = NewEngine(n)
        /\ lock = Unlocked
        /\ pc = [g \in Goroutine |-> "idle"]
        /\ asked = [g \in Goroutine |-> None]
        /\ call = [g \in Goroutine |-> NewCall(<<>>, 0)]

Go(g, to) == pc' = [pc EXCEPT ![g] = to]

Starting(g) == NewCall(asked[g][2], asked[g][3])

\* A goroutine calls a method.
Ask(g, q) ==
  /\ pc[g] = "idle"
  /\ Go(g, IF q[1] = "findStringIndexFrom" THEN "lock" ELSE "rlock")
  /\ asked' = [asked EXCEPT ![g] = q]
  /\ UNCHANGED <<engine, lock, call>>

RLock(g) ==
  /\ pc[g] = "rlock"
  /\ Open
  /\ Go(g, "reading")
  /\ lock' = [lock EXCEPT !.readers = @ \cup {g}]
  /\ call' = [call EXCEPT ![g] = IF asked[g][1] = "Match"
                                 THEN BeginMatchCached(engine, Starting(g))
                                 ELSE BeginCached(engine, Starting(g))]
  /\ UNCHANGED <<engine, asked>>

Read(g) ==
  /\ pc[g] = "reading"
  /\ call[g].ph \notin {"done", "miss", "panic"}
  /\ call' = [call EXCEPT ![g] = StepCached(engine, call[g])]
  /\ UNCHANGED <<engine, lock, pc, asked>>

\* Mutants: the read lock kept over a miss; the write lock not taken after one.
MissKeepsLock(g) ==
  /\ pc[g] = "reading"
  /\ call[g].ph \in {"done", "miss"}
  /\ Go(g, IF call[g].ph = "done" THEN "idle" ELSE "lock")
  /\ lock' = IF call[g].ph = "done" THEN [lock EXCEPT !.readers = @ \ {g}] ELSE lock
  /\ UNCHANGED <<engine, asked, call>>

MissWritesOn(g) ==
  /\ pc[g] = "reading"
  /\ call[g].ph \in {"done", "miss"}
  /\ Go(g, IF call[g].ph = "done" THEN "idle" ELSE "writing")
  /\ lock' = [lock EXCEPT !.readers = @ \ {g}]
  /\ call' = [call EXCEPT ![g] = IF @.ph = "done" THEN @
                                 ELSE IF asked[g][1] = "Match"
                                 THEN BeginMatch(engine, Starting(g))
                                 ELSE Begin(engine, Starting(g))]
  /\ UNCHANGED <<engine, asked>>

\* No lock is held between RUnlock and Lock: other goroutines may come first.
RUnlock(g) ==
  /\ pc[g] = "reading"
  /\ call[g].ph \in {"done", "miss"}
  /\ Go(g, IF call[g].ph = "done" THEN "idle" ELSE "lock")
  /\ lock' = [lock EXCEPT !.readers = @ \ {g}]
  /\ UNCHANGED <<engine, asked, call>>

Announce(g) ==
  /\ pc[g] = "lock"
  /\ Open
  /\ Go(g, "announced")
  /\ lock' = [lock EXCEPT !.writer = g]
  /\ UNCHANGED <<engine, asked, call>>

\* The call starts over: what the cached pass has found is forgotten.
Lock(g) ==
  /\ pc[g] = "announced"
  /\ Drained
  /\ Go(g, "writing")
  /\ call' = [call EXCEPT ![g] = IF asked[g][1] = "Match"
                                 THEN BeginMatch(engine, Starting(g))
                                 ELSE Begin(engine, Starting(g))]
  /\ UNCHANGED <<engine, lock, asked>>

Write(g) ==
  /\ pc[g] = "writing"
  /\ call[g].ph # "done"
  /\ LET next == Step(engine, call[g])
     IN  /\ engine' = next.e
         /\ call' = [call EXCEPT ![g] = next.r]
  /\ UNCHANGED <<lock, pc, asked>>

Unlock(g) ==
  /\ pc[g] = "writing"
  /\ call[g].ph = "done"
  /\ Go(g, "idle")
  /\ lock' = [lock EXCEPT !.writer = None]
  /\ UNCHANGED <<engine, asked, call>>

Enter(g) == RLock(g) \/ Announce(g)

Run(g) == Read(g) \/ RUnlock(g) \/ Lock(g) \/ Write(g) \/ Unlock(g)

Next == \E g \in Goroutine : Enter(g) \/ Run(g) \/ \E q \in Question : Ask(g, q)

\* A goroutine that can run does run; an RWMutex starves neither the readers nor
\* the writers that wait for it.  Whether a goroutine calls again is its choice.
Spec ==
  /\ Init
  /\ [][Next]_vars
  /\ \A g \in Goroutine : WF_vars(Run(g)) /\ SF_vars(RLock(g)) /\ SF_vars(Announce(g))

----------------------------------------------------------------------------

\* Type correctness; the lock says who is in it.
TypeOK ==
  /\ engine.pat \in Expression
  /\ lock.readers \subseteq Goroutine
  /\ lock.writer \in Goroutine \cup {None}
  /\ pc \in [Goroutine -> {"idle", "rlock", "reading", "lock", "announced", "writing"}]
  /\ asked \in [Goroutine -> Question \cup {None}]
  /\ lock.readers = {g \in Goroutine : pc[g] = "reading"}
  /\ \A g \in Goroutine : pc[g] \in {"announced", "writing"} <=> lock.writer = g

\* While a goroutine grows the automata no other one reads them: lazyDFA has no
\* locks of its own, and a reader would see slices of different lengths.
NoRace ==
  \A g, h \in Goroutine :
    pc[g] = "writing" /\ pc[h] \in {"reading", "writing"} => g = h

\* The shared automata are sound at each moment, whatever the goroutines have
\* asked and in whatever order their passes have come.
EngineSound == \A d \in Automata(engine) : Sound(d)

\* The wrapper is as good as the engine it wraps (re3_test.go:90): a call that
\* the engine answers with nil does not panic.
Parity == \A g \in Goroutine : call[g].ph # "panic"

\* Every call returns.
Returns == \A g \in Goroutine : pc[g] # "idle" ~> pc[g] = "idle"

\* The goroutines see one expression that answers at once and always the same:
\* neither the order of their calls nor the state of the cache shows.  The answers
\* are those the code means to give, not those of the documentation: for Match whether
\* the whole text is a match and not whether it contains one (MatchAnswer), for a
\* search the match that ends first and not the leftmost (Searching!ReturnsLeftmost).
ByText(n, q) == IF q[1] = "Match" THEN MatchAnswer(n, q[2])
                ELSE FirstEnding(n, q[2], q[3])

ByFullEngine(n, q) == IF q[1] = "Match" THEN {Verdict(FALSE)}
                      ELSE PoorerLocations(n, q[2], q[3])

Told(g) == IF pc[g] # "idle" \/ asked[g] = None THEN None
           ELSE IF asked[g][1] = "Match" THEN MatchReply(engine, call[g].loc)
           ELSE call[g].loc

R == INSTANCE RegExp WITH
       Caller     <- Goroutine,
       Answer     <- [n \in Expression |-> [q \in Question |-> ByText(n, q)]],
       Poorer     <- [n \in Expression |-> [q \in Question |-> ByFullEngine(n, q)]],
       expression <- engine.pat,
       told       <- [g \in Goroutine |-> Told(g)],
       full       <- Full(engine)

Implements == R!Spec

=============================================================================
