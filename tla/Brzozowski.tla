----------------------------- MODULE Brzozowski -----------------------------
(***************************************************************************)
(* What a lazy automaton promises, with no table and no state numbers: the *)
(* automaton whose states are derivatives of the root.  It can tell apart  *)
(* a limited number of trees only.  A derivative that is known is reached; *)
(* one that is not is learned while there is room, and after that the      *)
(* match is lost, every time.                                              *)
(***************************************************************************)
EXTENDS Integers

CONSTANTS Tree, FalseTree, Minterm, Context, Deriv, Limit

VARIABLES root,      \* the expression
          residual,  \* its derivative by the bytes read since the last restart
          known,     \* the trees that have become states
          room       \* how many more trees may become states

vars == <<root, residual, known, room>>

Init == /\ root \in Tree
        /\ residual = root
        /\ known = {root, FalseTree}
        /\ room = Limit - 2

Reach(t) == /\ t \in known
            /\ residual' = t
            /\ UNCHANGED <<root, known, room>>

Learn(t) == /\ t \notin known
            /\ room > 0
            /\ residual' = t
            /\ known' = known \cup {t}
            /\ room' = room - 1
            /\ UNCHANGED root

Lose(t) == /\ t \notin known
           /\ room <= 0
           /\ residual' = FalseTree
           /\ UNCHANGED <<root, known, room>>

Read == \E m \in Minterm, c \in Context :
          LET t == Deriv[residual][m][c]
          IN  Reach(t) \/ Learn(t) \/ Lose(t)

Restart == /\ residual' = root
           /\ UNCHANGED <<root, known, room>>

Next == Read \/ Restart

Spec == Init /\ [][Next]_vars

=============================================================================
