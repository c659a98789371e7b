------------------------------- MODULE RegExp -------------------------------
(***************************************************************************)
(* An expression that answers at once, with no automaton: a question is    *)
(* answered, some time after it was asked, in one step and by what the     *)
(* expression and the question are alone.  Not by what was asked before,   *)
(* not by who else is asking, not by what happens to be cached.  Only once *)
(* an automaton is full may an answer be poorer than that.                 *)
(*                                                                         *)
(* Which answer that is, is given.  The modules that implement this one    *)
(* give what the code means to compute, which differs from what api.go     *)
(* says: see Answers!MatchAnswer, Searching!ReturnsLeftmost and            *)
(* Searching!NilMeansNoMatch.                                              *)
(***************************************************************************)
EXTENDS Integers

CONSTANTS Caller, Question,
          Answer,      \* Answer[e][q]: the answer of expression e to question q
          Poorer,      \* Poorer[e][q]: the answers of a full engine
          Expression,
          None      \* no question, no answer

VARIABLES expression, asked, told, full

vars == <<expression, asked, told, full>>

Init == /\ expression \in Expression
        /\ asked \in [Caller -> Question \cup {None}]
        /\ told = [c \in Caller |-> None]
        /\ full \in BOOLEAN

Ask(c, q) == /\ asked[c] = None \/ told[c] # None
             /\ asked' = [asked EXCEPT ![c] = q]
             /\ told' = [told EXCEPT ![c] = None]
             /\ UNCHANGED <<expression, full>>

Tell(c) == /\ asked[c] # None
           /\ told[c] = None
           /\ \E a \in {Answer[expression][asked[c]]}
                         \cup (IF full THEN Poorer[expression][asked[c]] ELSE {}) :
                told' = [told EXCEPT ![c] = a]
           /\ UNCHANGED <<expression, asked, full>>

Fill == /\ ~full
        /\ full' = TRUE
        /\ UNCHANGED <<expression, asked, told>>

Next == Fill \/ \E c \in Caller : Tell(c) \/ \E q \in Question : Ask(c, q)

Spec == Init /\ [][Next]_vars

=============================================================================
