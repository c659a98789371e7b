---------------------------- MODULE TaggedProofs ----------------------------
(***************************************************************************)
(* getNextState of lazyTDFA keeps the automaton well formed, forgets       *)
(* nothing, and is right about trees without assertions, for all trees,    *)
(* contexts and limits that meet the assumptions of TaggedDFA.tla.         *)
(***************************************************************************)
EXTENDS TaggedDFA, WellFoundedInduction, TLAPS

TransitionType == [next : Nat, tags : Seq(TagOp)]

\* A row for each state, that leads to states.
Shape(d) ==
  /\ d = [asts |-> d.asts, rows |-> d.rows]
  /\ d.asts \in Seq(TagTree)
  /\ d.rows \in Seq([Letter -> TransitionType])
  /\ Len(d.asts) >= 2
  /\ Len(d.rows) = Len(d.asts)
  /\ \A st \in 1..Len(d.asts), b \in Letter :
       d.rows[st][b] = Unknown \/ d.rows[st][b].next \in 1..Len(d.asts)

\* tr is where tree t goes by its first config, whatever the context.
IsFirst(asts, t, b, tr) ==
  \A c \in Situation :
    LET config == Configs[t][b][c][1]
    IN  asts[tr.next] = config.next /\ tr.tags = config.tags

\* No tree looks at its context, and each transition known is the first config's.
Fresh(d) ==
  /\ \A st \in 1..Len(d.asts) : d.asts[st] \in ContextFree
  /\ \A st \in 1..Len(d.asts), b \in Letter :
       \/ d.rows[st][b] \in {Unknown, Lost}
       \/ IsFirst(d.asts, d.asts[st], b, d.rows[st][b])

\* There is no room for another state.
Full(d) == Len(d.asts) >= maxLazyTDFAStates

\* tr is all that tree t needs to know of byte b, whatever the context: it leads to
\* the dead state if t cannot read b, or not if it is to match, or if there was no
\* room, and else where the first config leads.
Follows(d, t, b, tr) ==
  IF tr.next = Dead
  THEN \/ Full(d)
       \/ \A c \in Situation :
            Configs[t][b][c] = <<>> \/ Configs[t][b][c][1].next = DeadTree
  ELSE /\ \A c \in Situation : Configs[t][b][c] # <<>>
       /\ IsFirst(d.asts, t, b, tr)

\* What is known is all there is to know.
Right(d) ==
  /\ d.asts[Dead] = DeadTree
  /\ \A st \in 1..Len(d.asts), b \in Letter :
       st # Dead /\ d.rows[st][b] # Unknown => Follows(d, d.asts[st], b, d.rows[st][b])

\* d has become e: states and known transitions stay.
Extends(d, e) ==
  /\ Len(d.asts) <= Len(e.asts)
  /\ \A st \in 1..Len(d.asts) : e.asts[st] = d.asts[st]
  /\ \A st \in 1..Len(d.asts), b \in Letter :
       d.rows[st][b] # Unknown => e.rows[st][b] = d.rows[st][b]

LEMMA NewTaggedShape ==
  ASSUME NEW root \in TagTree
  PROVE  /\ Shape(NewLazyTDFA(root))
         /\ root \in ContextFree => Fresh(NewLazyTDFA(root))
<1> DEFINE d == NewLazyTDFA(root)
           fresh == [b \in Letter |-> Unknown]
           dead == [b \in Letter |-> Lost]
<1>1. d.asts = <<root, DeadTree>> /\ d.rows = <<fresh, dead>>
      /\ d = [asts |-> <<root, DeadTree>>, rows |-> <<fresh, dead>>]
  BY DEF NewLazyTDFA
<1>2. Unknown \in TransitionType /\ Lost \in TransitionType
      /\ Unknown.next = 0 /\ Lost.next = 2
  BY DEF Unknown, Lost, Transition, TransitionType, Dead
<1>3. DeadTree \in TagTree /\ DeadTree \in ContextFree
  BY TagTreeAssumption, ContextFreeAssumption
<1>4. fresh \in [Letter -> TransitionType] /\ dead \in [Letter -> TransitionType]
  BY <1>2
<1> HIDE DEF d, fresh, dead
<1>5. d.rows \in Seq([Letter -> TransitionType]) /\ d.asts \in Seq(TagTree)
      /\ Len(d.rows) = 2 /\ Len(d.asts) = 2
      /\ d.rows[1] = fresh /\ d.rows[2] = dead /\ d.asts[1] = root /\ d.asts[2] = DeadTree
  BY <1>1, <1>3, <1>4
<1>6. Shape(d)
  BY <1>1, <1>2, <1>5 DEF Shape, fresh, dead
<1>7. root \in ContextFree => Fresh(d)
  BY <1>3, <1>5 DEF Fresh, fresh, dead
<1> QED
  BY <1>6, <1>7 DEF d

\* A transition learned.
LEMMA LearnedShape ==
  ASSUME NEW d, Shape(d), NEW st \in 1..Len(d.asts), NEW b \in Letter,
         NEW tr \in TransitionType, tr.next \in 1..Len(d.asts),
         d.rows[st][b] = Unknown
  PROVE  LET r == Learned(d, st, b, tr)
         IN  /\ r.tr = tr
             /\ Shape(r.dfa)
             /\ Extends(d, r.dfa)
             /\ r.dfa.asts = d.asts
             /\ r.dfa.rows[st][b] = tr
             /\ \A x \in 1..Len(d.asts), y \in Letter :
                  x # st \/ y # b => r.dfa.rows[x][y] = d.rows[x][y]
<1> DEFINE r == Learned(d, st, b, tr)
           e == r.dfa
           asts == d.asts
           rows == d.rows
<1>1. r.tr = tr /\ e = [d EXCEPT !.rows[st][b] = tr]
  BY DEF Learned
<1>2. d = [asts |-> asts, rows |-> rows]
  BY DEF Shape
<1>3. e = [asts |-> asts, rows |-> [rows EXCEPT ![st][b] = tr]]
  <2> HIDE DEF asts, rows, e
  <2>1. e = [[asts |-> asts, rows |-> rows] EXCEPT !.rows[st][b] = tr]
    BY <1>1, <1>2
  <2> QED
    BY <2>1
<1>4. asts \in Seq(TagTree) /\ rows \in Seq([Letter -> TransitionType]) /\ Len(rows) = Len(asts)
      /\ \A x \in 1..Len(asts), y \in Letter :
           rows[x][y] = Unknown \/ rows[x][y].next \in 1..Len(asts)
  BY DEF Shape
<1>5. e.asts = asts /\ e.rows = [rows EXCEPT ![st][b] = tr]
  BY <1>3
<1> HIDE DEF e, asts, rows, r
<1>6. st \in 1..Len(rows)
  BY <1>4 DEF asts
<1>7. /\ e.rows \in Seq([Letter -> TransitionType])
      /\ Len(e.rows) = Len(rows)
      /\ e.rows[st][b] = tr
      /\ \A x \in 1..Len(asts), y \in Letter :
           x # st \/ y # b => e.rows[x][y] = rows[x][y]
  BY <1>4, <1>5, <1>6
<1>8. Len(asts) >= 2
  BY DEF Shape, asts
<1>9. Shape(e)
  <2>1. e = [asts |-> e.asts, rows |-> e.rows]
    BY <1>3
  <2>2. \A x \in 1..Len(asts), y \in Letter : e.rows[x][y] = Unknown \/ e.rows[x][y].next \in 1..Len(asts)
    <3> SUFFICES ASSUME NEW x \in 1..Len(asts), NEW y \in Letter
                 PROVE  e.rows[x][y] = Unknown \/ e.rows[x][y].next \in 1..Len(asts)
      OBVIOUS
    <3>1. CASE x = st /\ y = b
      BY <3>1, <1>7 DEF asts
    <3>2. CASE x # st \/ y # b
      BY <3>2, <1>7, <1>4
    <3> QED
      BY <3>1, <3>2
  <2> QED
    BY <2>1, <2>2, <1>4, <1>5, <1>7, <1>8 DEF Shape
<1>10. Extends(d, e)
  <2>1. \A x \in 1..Len(asts), y \in Letter :
          rows[x][y] # Unknown => e.rows[x][y] = rows[x][y]
    BY <1>7 DEF rows
  <2> QED
    BY <2>1, <1>4, <1>5 DEF Extends, asts, rows
<1> QED
  BY <1>1, <1>5, <1>7, <1>9, <1>10 DEF e, r, asts, rows

\* A state appended, with a row of its own, that nothing leads to yet.
Grown(d, t) ==
  [asts |-> Append(d.asts, t), rows |-> Append(d.rows, [x \in Letter |-> Unknown])]

LEMMA GrownShape ==
  ASSUME NEW d, Shape(d), NEW t \in TagTree
  PROVE  /\ Shape(Grown(d, t))
         /\ Extends(d, Grown(d, t))
         /\ Len(Grown(d, t).asts) = Len(d.asts) + 1
         /\ Grown(d, t).asts[Len(d.asts) + 1] = t
         /\ \A b \in Letter : Grown(d, t).rows[Len(d.asts) + 1][b] = Unknown
         /\ \A x \in 1..Len(d.asts) : Grown(d, t).rows[x] = d.rows[x]
<1> DEFINE asts == d.asts
           rows == d.rows
           new == [x \in Letter |-> Unknown]
           e == Grown(d, t)
<1>1. asts \in Seq(TagTree) /\ rows \in Seq([Letter -> TransitionType])
      /\ Len(rows) = Len(asts) /\ Len(asts) >= 2
      /\ \A x \in 1..Len(asts), y \in Letter :
           rows[x][y] = Unknown \/ rows[x][y].next \in 1..Len(asts)
  BY DEF Shape
<1>2. new \in [Letter -> TransitionType] /\ \A b \in Letter : new[b] = Unknown
  BY DEF Unknown, Transition, TransitionType
<1>3. e = [asts |-> e.asts, rows |-> e.rows]
      /\ e.asts = Append(asts, t) /\ e.rows = Append(rows, new)
  BY DEF Grown
<1> HIDE DEF asts, rows, new, e
<1>4. e.asts \in Seq(TagTree) /\ Len(e.asts) = Len(asts) + 1 /\ e.asts[Len(asts) + 1] = t
      /\ \A x \in 1..Len(asts) : e.asts[x] = asts[x]
  BY <1>1, <1>3
<1>5. e.rows \in Seq([Letter -> TransitionType]) /\ Len(e.rows) = Len(asts) + 1
      /\ e.rows[Len(asts) + 1] = new /\ \A x \in 1..Len(asts) : e.rows[x] = rows[x]
  BY <1>1, <1>2, <1>3
<1>6. \A x \in 1..Len(asts) + 1 : x \in 1..Len(asts) \/ x = Len(asts) + 1
  BY <1>1
<1>7. Shape(e)
  <2>1. \A x \in 1..Len(e.asts), y \in Letter :
          e.rows[x][y] = Unknown \/ e.rows[x][y].next \in 1..Len(e.asts)
    BY <1>1, <1>2, <1>4, <1>5, <1>6
  <2> QED
    BY <2>1, <1>1, <1>3, <1>4, <1>5 DEF Shape
<1>8. Extends(d, e)
  BY <1>1, <1>4, <1>5 DEF Extends, asts, rows
<1> QED
  BY <1>2, <1>4, <1>5, <1>7, <1>8 DEF e, asts, rows, new

\* d has become e by learning that st goes by tr for b, perhaps to a new state of
\* tree t.
Learns(d, e, st, b, tr, t) ==
  /\ Shape(e)
  /\ Extends(d, e)
  /\ tr \in TransitionType
  /\ tr.next \in 1..Len(e.asts)
  /\ e.rows[st][b] = tr
  /\ \A x \in 1..Len(e.asts) : x <= Len(d.asts) \/ e.asts[x] = t
  /\ \A x \in 1..Len(e.asts), y \in Letter :
       x # st \/ y # b =>
         \/ e.rows[x][y] = Unknown
         \/ x <= Len(d.asts) /\ e.rows[x][y] = d.rows[x][y]

LEMMA LearnedLearns ==
  ASSUME NEW d, Shape(d), NEW st \in 1..Len(d.asts), NEW b \in Letter,
         d.rows[st][b] = Unknown, NEW t,
         NEW tr \in TransitionType, tr.next \in 1..Len(d.asts)
  PROVE  /\ Learned(d, st, b, tr).tr = tr
         /\ Learned(d, st, b, tr).dfa.asts = d.asts
         /\ Learns(d, Learned(d, st, b, tr).dfa, st, b, tr, t)
<1> DEFINE r == Learned(d, st, b, tr)
<1>1. /\ r.tr = tr
      /\ Shape(r.dfa)
      /\ Extends(d, r.dfa)
      /\ r.dfa.asts = d.asts
      /\ r.dfa.rows[st][b] = tr
      /\ \A x \in 1..Len(d.asts), y \in Letter :
           x # st \/ y # b => r.dfa.rows[x][y] = d.rows[x][y]
  BY LearnedShape
<1>2. \A x \in 1..Len(d.asts) : x <= Len(d.asts)
  BY DEF Shape
<1> QED
  BY <1>1, <1>2 DEF Learns

ConfigType == [next : TagTree, tags : Seq(TagOp)]

LEMMA SmallestExists ==
  ASSUME NEW S \in SUBSET Nat, S # {}
  PROVE  \E x \in S : \A y \in S : x <= y
<1> DEFINE less == {ss \in Nat \X Nat : ss[1] < ss[2]}
<1>1. IsWellFoundedOn(less, Nat)
  BY NatLessThanWellFounded DEF OpToRel
<1> HIDE DEF less
<1>2. \E x \in S : \A y \in S : ~(<<y, x>> \in less)
  BY <1>1, WFMin
<1>3. \A x, y \in Nat : y < x => <<y, x>> \in less
  BY DEF less
<1>4. PICK x \in S : \A y \in S : ~(<<y, x>> \in less)
  BY <1>2
<1>5. \A y \in S : x <= y
  <2> SUFFICES ASSUME NEW y \in S PROVE x <= y
    OBVIOUS
  <2>1. x \in Nat /\ y \in Nat /\ ~(y < x)
    BY <1>3, <1>4
  <2> QED
    BY <2>1
<1> QED
  BY <1>5

\* The first config is found among the states, or becomes one, or there is no
\* more room and it is lost.
LEMMA FirstConfigLearns ==
  ASSUME NEW d, Shape(d), NEW st \in 1..Len(d.asts), NEW b \in Letter,
         d.rows[st][b] = Unknown, NEW config \in ConfigType
  PROVE  LET r == FirstConfig(d, st, b, config)
         IN  /\ Learns(d, r.dfa, st, b, r.tr, config.next)
             /\ \/ r.tr = Lost /\ Full(d)
                \/ r.dfa.asts[r.tr.next] = config.next /\ r.tr.tags = config.tags
<1> DEFINE r == FirstConfig(d, st, b, config)
           old == TaggedStates(d, config.next)
           first == CHOOSE x \in old : \A y \in old : x <= y
           new == Len(d.asts) + 1
           e == Grown(d, config.next)
<1>1. config.next \in TagTree /\ config.tags \in Seq(TagOp)
  BY DEF ConfigType
<1>2. Len(d.asts) \in Nat /\ Len(d.asts) >= 2
  BY DEF Shape
<1>3. \A to \in Nat : /\ Transition(to, config.tags) \in TransitionType
                      /\ Transition(to, config.tags).next = to
                      /\ Transition(to, config.tags).tags = config.tags
  BY <1>1 DEF Transition, TransitionType
<1>4. CASE old # {}
  <2>1. old \in SUBSET Nat
    BY <1>2 DEF TaggedStates
  <2>2. \E x \in old : \A y \in old : x <= y
    BY <1>4, <2>1, SmallestExists
  <2>3. first \in old
    BY <2>2
  <2>4. first \in 1..Len(d.asts) /\ d.asts[first] = config.next /\ first \in Nat
    BY <2>1, <2>3 DEF TaggedStates
  <2>5. r = Learned(d, st, b, Transition(first, config.tags))
    BY <1>4, Zenon DEF FirstConfig
  <2> DEFINE tr == Transition(first, config.tags)
  <2> HIDE DEF r, first
  <2>0. tr \in TransitionType /\ tr.next \in 1..Len(d.asts)
    BY <1>3, <2>4
  <2> HIDE DEF tr
  <2>6. /\ r.tr = tr
        /\ r.dfa.asts = d.asts
        /\ Learns(d, r.dfa, st, b, tr, config.next)
    <3>1. r = Learned(d, st, b, tr) /\ tr.next = first
      BY <2>5 DEF tr, Transition
    <3>2. d.asts[tr.next] = config.next
      BY <2>4, <3>1
    <3> QED
      BY <2>0, <3>1, <3>2, LearnedLearns, ZenonT(30)
  <2> QED
    BY <1>3, <2>4, <2>6 DEF r, tr
<1>5. CASE old = {} /\ Len(d.asts) >= maxLazyTDFAStates
  <2>1. r = Learned(d, st, b, Lost)
    BY <1>5, Zenon DEF FirstConfig
  <2>2. Lost \in TransitionType /\ Lost.next \in 1..Len(d.asts)
    BY <1>2 DEF Lost, Transition, TransitionType, Dead
  <2> HIDE DEF r
  <2>3. r.tr = Lost /\ Learns(d, r.dfa, st, b, Lost, config.next)
    BY <2>1, <2>2, LearnedLearns
  <2> QED
    BY <1>5, <2>3 DEF r, Full
<1>6. CASE old = {} /\ ~(Len(d.asts) >= maxLazyTDFAStates)
  <2> DEFINE tr == Transition(new, config.tags)
  <2>1. r = Learned(e, st, b, tr)
    BY <1>6, Zenon DEF FirstConfig, Grown
  <2>2. /\ Shape(e)
        /\ Extends(d, e)
        /\ Len(e.asts) = new
        /\ e.asts[new] = config.next
        /\ \A y \in Letter : e.rows[new][y] = Unknown
        /\ \A x \in 1..Len(d.asts) : e.rows[x] = d.rows[x]
    BY <1>1, <1>2, GrownShape
  <2>3. st \in 1..Len(e.asts) /\ e.rows[st][b] = Unknown /\ new \in Nat
        /\ new \in 1..Len(e.asts)
    BY <1>2, <2>2
  <2> HIDE DEF e, r
  <2>4. tr \in TransitionType /\ tr.next = new /\ tr.tags = config.tags
    BY <1>3, <2>3
  <2>5. /\ r.tr = tr
        /\ r.dfa.asts = e.asts
        /\ Learns(e, r.dfa, st, b, tr, config.next)
    BY <2>1, <2>2, <2>3, <2>4, LearnedLearns
  <2>6. Extends(d, r.dfa)
    BY <1>2, <2>2, <2>5, SMTT(30) DEF Extends, Learns
  <2>7. \A x \in 1..new : x <= Len(d.asts) \/ x = new
    BY <1>2
  <2>8. Learns(d, r.dfa, st, b, tr, config.next)
    <3>1. \A x \in 1..Len(r.dfa.asts) : x <= Len(d.asts) \/ r.dfa.asts[x] = config.next
      BY <2>2, <2>5, <2>7
    <3>2. \A x \in 1..Len(r.dfa.asts), y \in Letter :
            x # st \/ y # b =>
              \/ r.dfa.rows[x][y] = Unknown
              \/ x <= Len(d.asts) /\ r.dfa.rows[x][y] = d.rows[x][y]
      <4> SUFFICES ASSUME NEW x \in 1..Len(r.dfa.asts), NEW y \in Letter, x # st \/ y # b
                   PROVE  \/ r.dfa.rows[x][y] = Unknown
                          \/ x <= Len(d.asts) /\ r.dfa.rows[x][y] = d.rows[x][y]
        OBVIOUS
      <4>1. r.dfa.rows[x][y] = Unknown \/ r.dfa.rows[x][y] = e.rows[x][y]
        BY <2>5 DEF Learns
      <4>2. x \in 1..Len(d.asts) \/ x = new
        BY <1>2, <2>2, <2>5
      <4> QED
        BY <4>1, <4>2, <1>2, <2>2
    <3> QED
      BY <2>5, <2>6, <3>1, <3>2 DEF Learns
  <2> HIDE DEF tr, new
  <2> QED
    BY <2>2, <2>4, <2>5, <2>8 DEF r
<1> QED
  BY <1>4, <1>5, <1>6

\* What a state learns the first time it reads a byte.
LEMMA NextTaggedLearns ==
  ASSUME NEW d, Shape(d), NEW st \in 1..Len(d.asts), NEW b \in Letter,
         NEW c \in Situation, st # Dead, d.rows[st][b].next = 0
  PROVE  LET r       == NextTagged(d, st, b, c)
             configs == Configs[d.asts[st]][b][c]
             t       == IF configs = <<>> THEN DeadTree ELSE configs[1].next
         IN  /\ d.rows[st][b] = Unknown
             /\ d.asts[st] \in TagTree /\ configs \in Seq(ConfigType)
             /\ Learns(d, r.dfa, st, b, r.tr, t)
             /\ configs = <<>> => r.tr = Lost
             /\ configs # <<>> =>
                  \/ r.tr = Lost /\ Full(d)
                  \/ /\ r.dfa.asts[r.tr.next] = configs[1].next
                     /\ r.tr.tags = configs[1].tags
<1> DEFINE r == NextTagged(d, st, b, c)
           configs == Configs[d.asts[st]][b][c]
           t == IF configs = <<>> THEN DeadTree ELSE configs[1].next
<1>1. /\ d.asts \in Seq(TagTree)
      /\ Len(d.asts) >= 2
      /\ \A x \in 1..Len(d.asts), y \in Letter :
           d.rows[x][y] = Unknown \/ d.rows[x][y].next \in 1..Len(d.asts)
  BY DEF Shape
<1>2. Lost \in TransitionType /\ Lost.next = 2 /\ Unknown.next = 0
  BY DEF Lost, Unknown, Transition, TransitionType, Dead
<1>3. d.rows[st][b] = Unknown
  BY <1>1
<1>4. d.asts[st] \in TagTree /\ configs \in Seq(ConfigType)
  <2>1. d.asts[st] \in TagTree
    BY <1>1
  <2>2. Configs[d.asts[st]] \in [Letter -> [Situation -> Seq(ConfigType)]]
    BY <2>1, TagTreeAssumption DEF ConfigType
  <2>3. Configs[d.asts[st]][b] \in [Situation -> Seq(ConfigType)]
    BY <2>2
  <2> QED
    BY <2>1, <2>3
<1>5. CASE configs = <<>>
  <2>1. r = Learned(d, st, b, Lost)
    BY <1>5, Zenon DEF NextTagged
  <2>2. Lost.next \in 1..Len(d.asts)
    BY <1>1, <1>2
  <2> HIDE DEF r, t
  <2>3. r.tr = Lost /\ Learns(d, r.dfa, st, b, Lost, t)
    BY <1>2, <1>3, <2>1, <2>2, LearnedLearns
  <2> QED
    BY <1>3, <1>4, <1>5, <2>3 DEF r, t
<1>6. CASE configs # <<>>
  <2>1. r = FirstConfig(d, st, b, configs[1])
    BY <1>6, Zenon DEF NextTagged
  <2>2. configs[1] \in ConfigType /\ t = configs[1].next
    BY <1>4, <1>6
  <2> HIDE DEF r, t, configs
  <2>3. /\ Learns(d, r.dfa, st, b, r.tr, t)
        /\ \/ r.tr = Lost /\ Full(d)
           \/ r.dfa.asts[r.tr.next] = configs[1].next /\ r.tr.tags = configs[1].tags
    BY <1>3, <2>1, <2>2, FirstConfigLearns
  <2> QED
    BY <1>3, <1>4, <1>6, <2>3 DEF r, t, configs
<1> QED
  BY <1>5, <1>6

\* getNextState keeps the automaton well formed, forgets nothing, and leads to
\* a state; on trees without assertions its transitions are right in every
\* context.
THEOREM NextTaggedSound ==
  ASSUME NEW d, Shape(d), NEW st \in 1..Len(d.asts), NEW b \in Letter,
         NEW c \in Situation
  PROVE  LET r == NextTagged(d, st, b, c)
         IN  /\ Shape(r.dfa)
             /\ Extends(d, r.dfa)
             /\ r.tr \in TransitionType
             /\ r.tr.next \in 1..Len(r.dfa.asts)
             /\ Fresh(d) => Fresh(r.dfa)
<1> DEFINE r == NextTagged(d, st, b, c)
           configs == Configs[d.asts[st]][b][c]
<1>1. /\ d.asts \in Seq(TagTree)
      /\ d.rows \in Seq([Letter -> TransitionType])
      /\ Len(d.asts) >= 2
      /\ Len(d.rows) = Len(d.asts)
      /\ \A x \in 1..Len(d.asts), y \in Letter :
           d.rows[x][y] = Unknown \/ d.rows[x][y].next \in 1..Len(d.asts)
  BY DEF Shape
<1>2. Lost \in TransitionType /\ Lost.next = 2 /\ Unknown.next = 0
  BY DEF Lost, Unknown, Transition, TransitionType, Dead
<1>3. Extends(d, d)
  BY <1>1 DEF Extends
<1>4. CASE st = Dead
  BY <1>1, <1>2, <1>3, <1>4 DEF NextTagged
<1>5. CASE st # Dead /\ d.rows[st][b].next # 0
  <2>1. r.dfa = d /\ r.tr = d.rows[st][b]
    BY <1>5 DEF NextTagged
  <2>2. d.rows[st][b] \in TransitionType /\ d.rows[st][b].next \in 1..Len(d.asts)
    BY <1>1, <1>2, <1>5
  <2> HIDE DEF r
  <2> QED
    BY <1>3, <2>1, <2>2 DEF r
<1>6. CASE st # Dead /\ d.rows[st][b].next = 0
  <2> DEFINE t == IF configs = <<>> THEN DeadTree ELSE configs[1].next
  <2>1. /\ d.rows[st][b] = Unknown
        /\ d.asts[st] \in TagTree /\ configs \in Seq(ConfigType)
        /\ Learns(d, r.dfa, st, b, r.tr, t)
        /\ configs = <<>> => r.tr = Lost
        /\ configs # <<>> =>
             \/ r.tr = Lost /\ Full(d)
             \/ r.dfa.asts[r.tr.next] = configs[1].next /\ r.tr.tags = configs[1].tags
    BY <1>6, NextTaggedLearns
  <2>2. d.asts[st] \in TagTree /\ configs \in Seq(ConfigType)
    BY <2>1
  <2>3. /\ Learns(d, r.dfa, st, b, r.tr, t)
        /\ \/ r.tr = Lost
           \/ /\ configs # <<>>
              /\ r.dfa.asts[r.tr.next] = configs[1].next
              /\ r.tr.tags = configs[1].tags
    <3> HIDE DEF r, t, configs
    <3> QED
      BY <2>1
  <2> HIDE DEF r, t
  <2>4. ASSUME Fresh(d)
        PROVE  Fresh(r.dfa)
    <3>1. t \in ContextFree
      <4>1. d.asts[st] \in ContextFree
        BY <2>4 DEF Fresh
      <4>2. configs # <<>> => 1 \in DOMAIN configs
        BY <2>2
      <4> QED
        BY <4>1, <4>2, ContextFreeAssumption DEF t
    <3>2. \A x \in 1..Len(r.dfa.asts) : r.dfa.asts[x] \in ContextFree
      <4>1. \A x \in 1..Len(r.dfa.asts) : x \in 1..Len(d.asts) \/ r.dfa.asts[x] = t
        BY <1>1, <2>3, SMTT(30) DEF Learns
      <4> QED
        BY <4>1, <2>3, <2>4, <3>1 DEF Learns, Extends, Fresh
    <3>3. r.tr = Lost \/ IsFirst(r.dfa.asts, r.dfa.asts[st], b, r.tr)
      <4>1. r.dfa.asts[st] = d.asts[st] /\ d.asts[st] \in ContextFree
        BY <2>3, <2>4 DEF Learns, Extends, Fresh
      <4>2. \A e \in Situation : Configs[d.asts[st]][b][e] = configs
        BY <4>1, ContextFreeAssumption
      <4> HIDE DEF configs
      <4> QED
        BY <2>3, <4>1, <4>2 DEF IsFirst
    <3>4. ASSUME NEW x \in 1..Len(r.dfa.asts), NEW y \in Letter, x # st \/ y # b
          PROVE  \/ r.dfa.rows[x][y] \in {Unknown, Lost}
                 \/ IsFirst(r.dfa.asts, r.dfa.asts[x], y, r.dfa.rows[x][y])
      <4>1. CASE r.dfa.rows[x][y] = Unknown
        BY <4>1
      <4>2. CASE x <= Len(d.asts) /\ r.dfa.rows[x][y] = d.rows[x][y]
        <5>1. x \in 1..Len(d.asts) /\ r.dfa.asts[x] = d.asts[x]
          <6>1. Extends(d, r.dfa)
            BY <2>3 DEF Learns
          <6>2. \A z \in 1..Len(d.asts) : r.dfa.asts[z] = d.asts[z]
            BY <6>1 DEF Extends
          <6>3. x \in 1..Len(d.asts)
            BY <1>1, <4>2
          <6> QED
            BY <6>2, <6>3
        <5>2. CASE d.rows[x][y] \in {Unknown, Lost}
          BY <4>2, <5>2
        <5>3. CASE d.rows[x][y] # Unknown /\ IsFirst(d.asts, d.asts[x], y, d.rows[x][y])
          <6>1. d.rows[x][y].next \in 1..Len(d.asts)
            BY <1>1, <5>1, <5>3
          <6>2. r.dfa.asts[d.rows[x][y].next] = d.asts[d.rows[x][y].next]
            BY <2>3, <6>1 DEF Learns, Extends
          <6>3. IsFirst(r.dfa.asts, d.asts[x], y, d.rows[x][y])
            BY <5>3, <6>2 DEF IsFirst
          <6> QED
            BY <4>2, <5>1, <6>3
        <5> QED
          BY <2>4, <5>1, <5>2, <5>3 DEF Fresh
      <4> QED
        BY <2>3, <3>4, <4>1, <4>2 DEF Learns
    <3> QED
      BY <2>3, <3>2, <3>3, <3>4 DEF Fresh, Learns
  <2> QED
    BY <2>3, <2>4 DEF Learns, r
<1> QED
  BY <1>4, <1>5, <1>6

----------------------------------------------------------------------------
(* The automaton says all there is to say of a tree without assertions,    *)
(* until it is full.                                                       *)

LEMMA NewTaggedRight ==
  ASSUME NEW root \in TagTree
  PROVE  Right(NewLazyTDFA(root)) /\ NewLazyTDFA(root).asts[Root] = root
<1> DEFINE d == NewLazyTDFA(root)
           fresh == [b \in Letter |-> Unknown]
           dead == [b \in Letter |-> Lost]
<1>1. d.asts = <<root, DeadTree>> /\ d.rows = <<fresh, dead>>
  BY DEF NewLazyTDFA
<1> HIDE DEF d, fresh, dead
<1>2. /\ Len(d.asts) = 2 /\ d.asts[1] = root /\ d.asts[2] = DeadTree
      /\ d.rows[1] = fresh /\ \A b \in Letter : fresh[b] = Unknown
  BY <1>1 DEF fresh
<1> QED
  BY <1>2 DEF Right, Dead, Root, d

\* What is known stays right as the automaton grows.
LEMMA FollowsStill ==
  ASSUME NEW d, NEW e, Shape(d), Shape(e), Extends(d, e), NEW t, NEW b \in Letter,
         NEW tr, tr.next \in 1..Len(d.asts), Follows(d, t, b, tr)
  PROVE  Follows(e, t, b, tr)
<1>1. Len(d.asts) \in Nat /\ Len(e.asts) \in Nat /\ Len(d.asts) <= Len(e.asts)
      /\ e.asts[tr.next] = d.asts[tr.next] /\ maxLazyTDFAStates \in Nat
  BY TagTreeAssumption DEF Shape, Extends
<1>2. Full(d) => Full(e)
  BY <1>1 DEF Full
<1> QED
  BY <1>1, <1>2 DEF Follows, IsFirst

LEMMA NextTaggedRight ==
  ASSUME NEW d, Shape(d), Fresh(d), Right(d), NEW st \in 1..Len(d.asts), NEW b \in Letter,
         NEW c \in Situation
  PROVE  LET r == NextTagged(d, st, b, c)
         IN  /\ Right(r.dfa)
             /\ st = Dead => r.tr = Lost
             /\ st # Dead => Follows(r.dfa, d.asts[st], b, r.tr)
<1> DEFINE r == NextTagged(d, st, b, c)
           configs == Configs[d.asts[st]][b][c]
           t == IF configs = <<>> THEN DeadTree ELSE configs[1].next
<1>1. \A x \in 1..Len(d.asts), y \in Letter :
        d.rows[x][y] = Unknown \/ d.rows[x][y].next \in 1..Len(d.asts)
  BY DEF Shape
<1>2. Unknown.next = 0 /\ Lost.next = Dead /\ Dead = 2
  BY DEF Unknown, Lost, Transition, Dead
<1>3. CASE st = Dead
  BY <1>3 DEF NextTagged
<1>4. CASE st # Dead /\ d.rows[st][b].next # 0
  <2>1. r.dfa = d /\ r.tr = d.rows[st][b]
    BY <1>4 DEF NextTagged
  <2>2. d.rows[st][b] # Unknown
    BY <1>2, <1>4
  <2> HIDE DEF r
  <2> QED
    BY <1>4, <2>1, <2>2 DEF Right, r
<1>5. CASE st # Dead /\ d.rows[st][b].next = 0
  <2>1. /\ d.asts[st] \in TagTree /\ configs \in Seq(ConfigType)
        /\ Learns(d, r.dfa, st, b, r.tr, t)
        /\ configs = <<>> => r.tr = Lost
        /\ configs # <<>> =>
             \/ r.tr = Lost /\ Full(d)
             \/ r.dfa.asts[r.tr.next] = configs[1].next /\ r.tr.tags = configs[1].tags
    BY <1>5, NextTaggedLearns
  <2>2. \A e \in Situation : Configs[d.asts[st]][b][e] = configs
    <3>1. d.asts[st] \in ContextFree
      BY DEF Fresh
    <3> QED
      BY <3>1, ContextFreeAssumption
  <2> HIDE DEF r, t, configs
  <2>3. /\ Shape(r.dfa) /\ Extends(d, r.dfa) /\ r.tr.next \in 1..Len(r.dfa.asts)
        /\ r.dfa.rows[st][b] = r.tr
    BY <2>1 DEF Learns
  <2>4. /\ Len(d.asts) \in Nat /\ Len(r.dfa.asts) \in Nat /\ Len(d.asts) >= 2
        /\ Len(d.asts) <= Len(r.dfa.asts)
        /\ \A x \in 1..Len(d.asts) : r.dfa.asts[x] = d.asts[x]
    BY <2>3 DEF Shape, Extends
  <2>5. r.dfa.asts[Dead] = DeadTree /\ r.dfa.asts[st] = d.asts[st]
    BY <1>2, <2>4 DEF Right
  <2>6. Full(d) => Full(r.dfa)
    BY <2>4, TagTreeAssumption DEF Full
  <2>7. Follows(r.dfa, d.asts[st], b, r.tr)
    <3>1. CASE configs = <<>>
      BY <1>2, <2>1, <2>2, <3>1 DEF Follows
    <3>2. CASE configs # <<>> /\ r.tr = Lost /\ Full(d)
      BY <1>2, <2>6, <3>2 DEF Follows
    <3>3. CASE configs # <<>> /\ r.dfa.asts[r.tr.next] = configs[1].next
               /\ r.tr.tags = configs[1].tags
      <4>1. CASE r.tr.next = Dead
        BY <2>2, <2>5, <3>3, <4>1 DEF Follows
      <4>2. CASE r.tr.next # Dead
        BY <2>2, <3>3, <4>2 DEF Follows, IsFirst
      <4> QED
        BY <4>1, <4>2
    <3> QED
      BY <2>1, <3>1, <3>2, <3>3
  <2>8. ASSUME NEW x \in 1..Len(r.dfa.asts), NEW y \in Letter, x # Dead,
               r.dfa.rows[x][y] # Unknown
        PROVE  Follows(r.dfa, r.dfa.asts[x], y, r.dfa.rows[x][y])
    <3>1. CASE x = st /\ y = b
      BY <2>3, <2>5, <2>7, <3>1
    <3>2. CASE x # st \/ y # b
      <4>1. x \in 1..Len(d.asts) /\ r.dfa.rows[x][y] = d.rows[x][y]
        BY <2>1, <2>4, <2>8, <3>2 DEF Learns
      <4>2. /\ d.rows[x][y].next \in 1..Len(d.asts)
            /\ Follows(d, d.asts[x], y, d.rows[x][y])
        BY <1>1, <2>8, <4>1 DEF Right
      <4>3. Follows(r.dfa, d.asts[x], y, d.rows[x][y])
        BY <2>3, <4>2, FollowsStill
      <4> QED
        BY <2>4, <4>1, <4>3
    <3> QED
      BY <3>1, <3>2
  <2> QED
    BY <1>5, <2>5, <2>7, <2>8 DEF Right, r
<1> QED
  BY <1>3, <1>4, <1>5

=============================================================================
