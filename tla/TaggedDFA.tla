----------------------------- MODULE TaggedDFA -----------------------------
(***************************************************************************)
(* The type lazyTDFA of tdfa.go: a lazy automaton over trees with capture  *)
(* tags, whose transitions carry the tags passed.  It is run over the span *)
(* of a match that a search has found, to find where its groups are.       *)
(*                                                                         *)
(* States are numbered as in LazyDFA.tla.  What the automaton needs of the *)
(* trees comes as constants; the model-checked instances take them from    *)
(* TaggedTrees.tla.                                                        *)
(***************************************************************************)
EXTENDS Integers, Sequences

CONSTANTS
  TagTree,    \* trees with tags
  DeadTree,   \* the tree that matches nothing
  Letter,     \* the bytes that stand for the minterms
  Situation,  \* the contexts positions may have
  Configs,    \* Configs[t][b][c]: the ways tree t reads b in context c, by preference
  TagNull,    \* TagNull[t][c]: is t nullable in context c?
  ContextFree, \* the trees without assertions
  maxLazyTDFAStates

TagOp == [id : Nat, isStart : BOOLEAN]

ASSUME TagTreeAssumption ==
  /\ DeadTree \in TagTree
  /\ Configs \in [TagTree -> [Letter -> [Situation -> Seq([next : TagTree, tags : Seq(TagOp)])]]]
  /\ TagNull \in [TagTree -> [Situation -> BOOLEAN]]
  /\ maxLazyTDFAStates \in Nat

\* The dead tree reads every byte to itself and accepts nothing.
ASSUME DeadTreeAssumption ==
  \A c \in Situation :
    /\ ~TagNull[DeadTree][c]
    /\ \A b \in Letter : \A i \in DOMAIN Configs[DeadTree][b][c] :
         Configs[DeadTree][b][c][i].next = DeadTree

\* Without assertions no tree, and none it leads to, looks at its context.
ASSUME ContextFreeAssumption ==
  /\ DeadTree \in ContextFree
  /\ ContextFree \subseteq TagTree
  /\ \A t \in ContextFree, b \in Letter, c \in Situation :
       /\ \A d \in Situation : Configs[t][b][d] = Configs[t][b][c]
       /\ \A i \in DOMAIN Configs[t][b][c] : Configs[t][b][c][i].next \in ContextFree

Root == 1
Dead == 2

\* A transition: the successor, 0 before it is known, and the tags passed.
Transition(to, tags) == [next |-> to, tags |-> tags]
Unknown == Transition(0, <<>>)
Lost    == Transition(Dead, <<>>)

LazyTDFA == [asts : Seq(TagTree), rows : Seq([Letter -> [next : Nat, tags : Seq(TagOp)]])]

NewLazyTDFA(root) ==
  [asts |-> <<root, DeadTree>>,
   rows |-> <<[b \in Letter |-> Unknown], [b \in Letter |-> Lost]>>]

TaggedStates(d, t) == {st \in 1..Len(d.asts) : d.asts[st] = t}

Learned(d, st, b, tr) == [dfa |-> [d EXCEPT !.rows[st][b] = tr], tr |-> tr]

\* The first config is taken, the others are forgotten; its tree is an old state
\* or a new one while there is room.
FirstConfig(d, st, b, config) ==
  LET old == TaggedStates(d, config.next)
      new == Len(d.asts) + 1
  IN  IF old # {}
      THEN Learned(d, st, b, Transition(CHOOSE x \in old : \A y \in old : x <= y, config.tags))
      ELSE IF Len(d.asts) >= maxLazyTDFAStates THEN Learned(d, st, b, Lost)
      ELSE Learned([asts |-> Append(d.asts, config.next),
                    rows |-> Append(d.rows, [x \in Letter |-> Unknown])],
                   st, b, Transition(new, config.tags))

\* Mutant: the last config taken.
NextByLast(d, st, b, c) ==
  IF st = Dead THEN [dfa |-> d, tr |-> Lost]
  ELSE IF d.rows[st][b].next # 0 THEN [dfa |-> d, tr |-> d.rows[st][b]]
  ELSE LET configs == Configs[d.asts[st]][b][c]
       IN  IF configs = <<>> THEN Learned(d, st, b, Lost)
           ELSE FirstConfig(d, st, b, configs[Len(configs)])

\* The transition of the first visit serves all others, in whatever context.
NextTagged(d, st, b, c) ==
  IF st = Dead THEN [dfa |-> d, tr |-> Lost]
  ELSE IF d.rows[st][b].next # 0 THEN [dfa |-> d, tr |-> d.rows[st][b]]
  ELSE LET configs == Configs[d.asts[st]][b][c]
       IN  IF configs = <<>> THEN Learned(d, st, b, Lost)
           ELSE FirstConfig(d, st, b, configs[1])

AcceptsTagged(d, st, c) == TagNull[d.asts[st]][c]

----------------------------------------------------------------------------
(* The slots of a run: for the whole match, 0, and for each group a pair of *)
(* offsets, Unset until a tag sets them.                                    *)

Unset == -1

NoSlots(captures) == [i \in 0..captures |-> <<Unset, Unset>>]

\* A group that starts starts before the byte at pos, one that ends ends after it.
ApplyTags(slots, tags, pos) ==
  [i \in DOMAIN slots |->
     LET has(isStart) == \E k \in DOMAIN tags : tags[k] = [id |-> i, isStart |-> isStart]
     IN  <<IF has(TRUE) THEN pos ELSE slots[i][1], IF has(FALSE) THEN pos + 1 ELSE slots[i][2]>>]

=============================================================================
