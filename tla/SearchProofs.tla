---------------------------- MODULE SearchProofs ----------------------------
(***************************************************************************)
(* A search keeps what SearchInvariants.tla says, for all expressions,     *)
(* texts and limits that meet the assumptions of Answers.tla.              *)
(***************************************************************************)
EXTENDS SearchInvariants, LazyDFAProofs, WellFoundedInduction

LEMMA LeastExists ==
  ASSUME NEW S \in SUBSET Nat, S # {}
  PROVE  \E x \in S : \A y \in S : x <= y
<1> DEFINE less == {ss \in Nat \X Nat : ss[1] < ss[2]}
<1>1. IsWellFoundedOn(less, Nat)
  BY NatLessThanWellFounded DEF OpToRel
<1> HIDE DEF less
<1>2. PICK x \in S : \A y \in S : ~(<<y, x>> \in less)
  BY <1>1, WFMin
<1>3. \A a, b \in Nat : b < a => <<b, a>> \in less
  BY DEF less
<1>4. \A y \in S : ~(y < x)
  BY <1>2, <1>3
<1> QED
  BY <1>4

\* Induction, over a set.
LEMMA Induction ==
  ASSUME NEW S, 0 \in S, \A k \in Nat : k \in S => k + 1 \in S
  PROVE  \A k \in Nat : k \in S
<1> SUFFICES ASSUME NEW z \in Nat, z \notin S
             PROVE  FALSE
  OBVIOUS
<1> DEFINE T == {k \in Nat : k \notin S}
<1>1. PICK x \in T : \A y \in T : x <= y
  BY LeastExists
<1>2. x # 0 /\ x - 1 \in Nat
  BY <1>1
<1>3. x - 1 \in S
  BY <1>1, <1>2
<1>4. (x - 1) + 1 \in S
  BY <1>2, <1>3
<1> QED
  BY <1>1, <1>4

----------------------------------------------------------------------------
(* What is left of a tree: the recursive functions of Answers.tla exist.   *)

\* A function on 0..N that begins with a and goes on with G.
Recursive(T, a, G, N) ==
  \E g \in [0..N -> T] : g[0] = a /\ \A k \in 1..N : g[k] = G[k][g[k - 1]]

\* A function can be defined by recursion up to any bound.
LEMMA RecursionExists ==
  ASSUME NEW T, NEW a \in T, NEW G \in [Nat -> [T -> T]], NEW N \in Nat
  PROVE  Recursive(T, a, G, N)
<1> DEFINE Good(n, g) == /\ g \in [0..n -> T]
                         /\ g[0] = a /\ \A k \in 1..n : g[k] = G[k][g[k - 1]]
           S == {n \in Nat : \E g : Good(n, g)}
<1>1. 0 \in S
  <2>1. Good(0, [k \in 0..0 |-> a])
    OBVIOUS
  <2> QED
    BY <2>1
<1>2. ASSUME NEW n \in Nat, n \in S
      PROVE  n + 1 \in S
  <2>1. PICK g : Good(n, g)
    BY <1>2
  <2> DEFINE h == [k \in 0..(n + 1) |-> IF k = n + 1 THEN G[k][g[n]] ELSE g[k]]
  <2>2. h \in [0..(n + 1) -> T]
    <3>1. G[n + 1] \in [T -> T] /\ g[n] \in T
      BY <2>1
    <3> QED
      BY <2>1, <3>1
  <2>3. h[0] = a
    BY <2>1
  <2>4. ASSUME NEW k \in 1..(n + 1)
        PROVE  h[k] = G[k][h[k - 1]]
    <3>1. CASE k = n + 1
      BY <3>1
    <3>2. CASE k # n + 1
      <4>1. k \in 1..n /\ k - 1 \in 0..(n + 1) /\ k - 1 # n + 1 /\ k \in 0..(n + 1)
        BY <3>2
      <4>2. h[k] = g[k] /\ h[k - 1] = g[k - 1]
        BY <4>1
      <4> QED
        BY <2>1, <4>1, <4>2
    <3> QED
      BY <3>1, <3>2
  <2>5. Good(n + 1, h)
    BY <2>2, <2>3, <2>4
  <2>6. \E f : Good(n + 1, f)
    <3> HIDE DEF h, Good
    <3> QED
      BY <2>5
  <2> QED
    BY <2>6
<1> HIDE DEF S
<1>3. N \in S
  BY <1>1, <1>2, Induction
<1> QED
  BY <1>3 DEF S, Recursive

LEMMA ByteOfText ==
  ASSUME NEW n \in Expression, NEW s \in Input, NEW i \in 0..Len(s) - 1
  PROVE  Compiled[n].byteToClass[s[i + 1]] \in Minterm /\ Ctx(Compiled[n], s, i) \in Context
<1>1. s \in Seq(Minterm) /\ Len(s) \in Nat
  BY InputAssumption
<1>2. s[i + 1] \in Minterm
  BY <1>1
<1>3. Compiled[n].byteToClass \in [Minterm -> Minterm]
  BY CompiledAssumption DEF Expression
<1>4. i \in 0..Len(s)
  BY <1>1
<1> QED
  BY <1>2, <1>3, <1>4, InputAssumption

LEMMA DerivIsTree ==
  ASSUME NEW n \in Expression, NEW s \in Input, NEW i \in 0..Len(s) - 1, NEW t \in Tree
  PROVE  DerivAt(n, t, s, i) \in Tree
<1>1. Compiled[n].byteToClass[s[i + 1]] \in Minterm /\ Ctx(Compiled[n], s, i) \in Context
  BY ByteOfText
<1>2. Deriv[t] \in [Minterm -> [Context -> Tree]]
  BY TreeAssumption
<1> QED
  BY <1>1, <1>2 DEF DerivAt

LEMMA ResidualExists ==
  ASSUME NEW n \in Expression, NEW t \in Tree, NEW s \in Input, NEW i \in 0..Len(s)
  PROVE  \E f : f = [j \in i..Len(s) |-> IF j = i THEN t ELSE DerivAt(n, f[j - 1], s, j - 1)]
<1> DEFINE N == Len(s) - i
           G == [k \in Nat |->
                  [x \in Tree |-> IF k \in 1..N THEN DerivAt(n, x, s, i + k - 1) ELSE x]]
<1>1. Len(s) \in Nat /\ i \in Nat /\ N \in Nat
  BY InputAssumption
<1>2. G \in [Nat -> [Tree -> Tree]]
  <2> SUFFICES ASSUME NEW k \in Nat, NEW x \in Tree
               PROVE  (IF k \in 1..N THEN DerivAt(n, x, s, i + k - 1) ELSE x) \in Tree
    OBVIOUS
  <2>1. k \in 1..N => i + k - 1 \in 0..Len(s) - 1
    BY <1>1
  <2> QED
    BY <2>1, DerivIsTree
<1> HIDE DEF N
<1>3. PICK g \in [0..N -> Tree] : g[0] = t /\ \A k \in 1..N : g[k] = G[k][g[k - 1]]
  <2> HIDE DEF G
  <2>1. Recursive(Tree, t, G, N)
    BY <1>1, <1>2, RecursionExists
  <2> QED
    BY <2>1 DEF Recursive
<1> DEFINE f == [j \in i..Len(s) |-> g[j - i]]
<1>4. ASSUME NEW j \in i..Len(s)
      PROVE  f[j] = IF j = i THEN t ELSE DerivAt(n, f[j - 1], s, j - 1)
  <2>1. CASE j = i
    <3>1. j - i = 0
      BY <1>1, <2>1
    <3>2. f[j] = g[j - i]
      OBVIOUS
    <3> QED
      BY <1>3, <2>1, <3>1, <3>2
  <2>2. CASE j # i
    <3>1. j - i \in 1..N /\ j - 1 \in i..Len(s) /\ i + (j - i) - 1 = j - 1
          /\ (j - 1) - i = (j - i) - 1 /\ (j - i) - 1 \in 0..N /\ j - i \in Nat
      BY <1>1, <2>2 DEF N
    <3>2. f[j] = g[j - i] /\ f[j - 1] = g[(j - i) - 1]
      BY <3>1
    <3>3. g[j - i] = G[j - i][g[(j - i) - 1]] /\ g[(j - i) - 1] \in Tree
      BY <1>3, <3>1
    <3>4. G[j - i][g[(j - i) - 1]] = DerivAt(n, g[(j - i) - 1], s, i + (j - i) - 1)
      BY <3>1, <3>3
    <3> QED
      BY <2>2, <3>1, <3>2, <3>3, <3>4
  <2> QED
    BY <2>1, <2>2
<1>5. f = [j \in i..Len(s) |-> f[j]]
  OBVIOUS
<1>6. f = [j \in i..Len(s) |-> IF j = i THEN t ELSE DerivAt(n, f[j - 1], s, j - 1)]
  <2> HIDE DEF f
  <2> QED
    BY <1>4, <1>5
<1> QED
  BY <1>6

LEMMA ResidualUnfolds ==
  ASSUME NEW n \in Expression, NEW t \in Tree, NEW s \in Input, NEW i \in 0..Len(s)
  PROVE  Residual(n, t, s, i)
           = [j \in i..Len(s) |-> IF j = i THEN t
                                  ELSE DerivAt(n, Residual(n, t, s, i)[j - 1], s, j - 1)]
<1>1. Residual(n, t, s, i)
        = CHOOSE f : f = [j \in i..Len(s) |-> IF j = i THEN t
                                              ELSE DerivAt(n, f[j - 1], s, j - 1)]
  BY Zenon DEF Residual
<1>2. \E f : f = [j \in i..Len(s) |-> IF j = i THEN t ELSE DerivAt(n, f[j - 1], s, j - 1)]
  BY ResidualExists
<1> QED
  BY <1>1, <1>2, Zenon

\* What is left when nothing has been read, and when one more byte has.
LEMMA ResidualStep ==
  ASSUME NEW n \in Expression, NEW t \in Tree, NEW s \in Input, NEW i \in 0..Len(s)
  PROVE  /\ Residual(n, t, s, i)[i] = t
         /\ \A j \in i..Len(s) - 1 :
              Residual(n, t, s, i)[j + 1] = DerivAt(n, Residual(n, t, s, i)[j], s, j)
         /\ \A j \in i..Len(s) : Residual(n, t, s, i)[j] \in Tree
<1> DEFINE f == Residual(n, t, s, i)
<1>1. Len(s) \in Nat /\ i \in Nat /\ i <= Len(s)
  BY InputAssumption
<1>2. f = [j \in i..Len(s) |-> IF j = i THEN t ELSE DerivAt(n, f[j - 1], s, j - 1)]
  BY ResidualUnfolds
<1> HIDE DEF f
<1>3. \A j \in i..Len(s) : f[j] = IF j = i THEN t ELSE DerivAt(n, f[j - 1], s, j - 1)
  BY <1>2
<1>4. f[i] = t
  BY <1>1, <1>3
<1>5. ASSUME NEW j \in i..Len(s) - 1
      PROVE  f[j + 1] = DerivAt(n, f[j], s, j)
  <2>1. j + 1 \in i..Len(s) /\ j + 1 # i /\ (j + 1) - 1 = j
    BY <1>1
  <2>2. f[j + 1] = DerivAt(n, f[(j + 1) - 1], s, (j + 1) - 1)
    BY <1>3, <2>1
  <2> QED
    BY <2>1, <2>2
<1>6. \A j \in i..Len(s) : f[j] \in Tree
  <2> DEFINE S == {k \in Nat : i + k <= Len(s) => f[i + k] \in Tree}
  <2>1. 0 \in S
    BY <1>1, <1>4
  <2>2. ASSUME NEW k \in Nat, k \in S
        PROVE  k + 1 \in S
    <3> SUFFICES ASSUME i + (k + 1) <= Len(s)
                 PROVE  f[i + (k + 1)] \in Tree
      OBVIOUS
    <3>1. i + k \in i..Len(s) - 1 /\ i + k \in 0..Len(s) - 1 /\ i + (k + 1) = (i + k) + 1
          /\ i + k <= Len(s)
      BY <1>1
    <3>2. f[i + k] \in Tree
      BY <2>2, <3>1
    <3>3. DerivAt(n, f[i + k], s, i + k) \in Tree
      BY <3>1, <3>2, DerivIsTree
    <3> QED
      BY <1>5, <3>1, <3>3
  <2> HIDE DEF S
  <2>3. \A k \in Nat : k \in S
    BY <2>1, <2>2, Induction
  <2>4. ASSUME NEW j \in i..Len(s)
        PROVE  f[j] \in Tree
    <3>1. j - i \in Nat /\ i + (j - i) = j
      BY <1>1
    <3>2. j - i \in S
      BY <2>3, <3>1
    <3> QED
      BY <3>1, <3>2, <1>1 DEF S
  <2> QED
    BY <2>4
<1> QED
  BY <1>4, <1>5, <1>6 DEF f

\* The same, backwards.
LEMMA ResidualBackExists ==
  ASSUME NEW n \in Expression, NEW t \in Tree, NEW s \in Input, NEW j \in 0..Len(s)
  PROVE  \E f : f = [i \in 0..j |-> IF i = j THEN t ELSE DerivAt(n, f[i + 1], s, i)]
<1> DEFINE G == [k \in Nat |-> [x \in Tree |-> IF k \in 1..j THEN DerivAt(n, x, s, j - k) ELSE x]]
<1>1. Len(s) \in Nat /\ j \in Nat /\ j <= Len(s)
  BY InputAssumption
<1>2. G \in [Nat -> [Tree -> Tree]]
  <2> SUFFICES ASSUME NEW k \in Nat, NEW x \in Tree
               PROVE  (IF k \in 1..j THEN DerivAt(n, x, s, j - k) ELSE x) \in Tree
    OBVIOUS
  <2>1. k \in 1..j => j - k \in 0..Len(s) - 1
    BY <1>1
  <2> QED
    BY <2>1, DerivIsTree
<1>3. PICK g \in [0..j -> Tree] : g[0] = t /\ \A k \in 1..j : g[k] = G[k][g[k - 1]]
  <2> HIDE DEF G
  <2>1. Recursive(Tree, t, G, j)
    BY <1>1, <1>2, RecursionExists
  <2> QED
    BY <2>1 DEF Recursive
<1> DEFINE f == [i \in 0..j |-> g[j - i]]
<1>4. ASSUME NEW i \in 0..j
      PROVE  f[i] = IF i = j THEN t ELSE DerivAt(n, f[i + 1], s, i)
  <2>1. CASE i = j
    <3>1. j - i = 0
      BY <1>1, <2>1
    <3>2. f[i] = g[j - i]
      OBVIOUS
    <3> QED
      BY <1>3, <2>1, <3>1, <3>2
  <2>2. CASE i # j
    <3>1. j - i \in 1..j /\ i + 1 \in 0..j /\ j - (j - i) = i
          /\ j - (i + 1) = (j - i) - 1 /\ (j - i) - 1 \in 0..j /\ j - i \in Nat
      BY <1>1, <2>2
    <3>2. f[i] = g[j - i] /\ f[i + 1] = g[(j - i) - 1]
      BY <3>1
    <3>3. g[j - i] = G[j - i][g[(j - i) - 1]] /\ g[(j - i) - 1] \in Tree
      BY <1>3, <3>1
    <3>4. G[j - i][g[(j - i) - 1]] = DerivAt(n, g[(j - i) - 1], s, j - (j - i))
      BY <3>1, <3>3
    <3> QED
      BY <2>2, <3>1, <3>2, <3>3, <3>4
  <2> QED
    BY <2>1, <2>2
<1>5. f = [i \in 0..j |-> f[i]]
  OBVIOUS
<1>6. f = [i \in 0..j |-> IF i = j THEN t ELSE DerivAt(n, f[i + 1], s, i)]
  <2> HIDE DEF f
  <2> QED
    BY <1>4, <1>5
<1> QED
  BY <1>6

LEMMA ResidualBackStep ==
  ASSUME NEW n \in Expression, NEW t \in Tree, NEW s \in Input, NEW j \in 0..Len(s)
  PROVE  /\ ResidualBack(n, t, s, j)[j] = t
         /\ \A i \in 0..j - 1 :
              ResidualBack(n, t, s, j)[i] = DerivAt(n, ResidualBack(n, t, s, j)[i + 1], s, i)
         /\ \A i \in 0..j : ResidualBack(n, t, s, j)[i] \in Tree
<1> DEFINE f == ResidualBack(n, t, s, j)
<1>1. Len(s) \in Nat /\ j \in Nat /\ j <= Len(s)
  BY InputAssumption
<1>2. f = CHOOSE h : h = [i \in 0..j |-> IF i = j THEN t ELSE DerivAt(n, h[i + 1], s, i)]
  BY Zenon DEF ResidualBack
<1>3. \E h : h = [i \in 0..j |-> IF i = j THEN t ELSE DerivAt(n, h[i + 1], s, i)]
  BY ResidualBackExists
<1>4. f = [i \in 0..j |-> IF i = j THEN t ELSE DerivAt(n, f[i + 1], s, i)]
  <2> HIDE DEF f
  <2> QED
    BY <1>2, <1>3, Zenon
<1> HIDE DEF f
<1>5. \A i \in 0..j : f[i] = IF i = j THEN t ELSE DerivAt(n, f[i + 1], s, i)
  BY <1>4
<1>6. f[j] = t
  BY <1>1, <1>5
<1>7. \A i \in 0..j - 1 : f[i] = DerivAt(n, f[i + 1], s, i)
  BY <1>1, <1>5
<1>8. \A i \in 0..j : f[i] \in Tree
  <2> DEFINE S == {k \in Nat : k <= j => f[j - k] \in Tree}
  <2>1. 0 \in S
    BY <1>1, <1>6
  <2>2. ASSUME NEW k \in Nat, k \in S
        PROVE  k + 1 \in S
    <3> SUFFICES ASSUME k + 1 <= j
                 PROVE  f[j - (k + 1)] \in Tree
      OBVIOUS
    <3>1. j - (k + 1) \in 0..j - 1 /\ j - (k + 1) \in 0..Len(s) - 1
          /\ (j - (k + 1)) + 1 = j - k /\ k <= j
      BY <1>1
    <3>2. f[j - k] \in Tree
      BY <2>2, <3>1
    <3>3. DerivAt(n, f[j - k], s, j - (k + 1)) \in Tree
      BY <3>1, <3>2, DerivIsTree
    <3> QED
      BY <1>7, <3>1, <3>3
  <2> HIDE DEF S
  <2>3. \A k \in Nat : k \in S
    BY <2>1, <2>2, Induction
  <2>4. ASSUME NEW i \in 0..j
        PROVE  f[i] \in Tree
    <3>1. j - i \in Nat /\ j - (j - i) = i /\ j - i <= j
      BY <1>1
    <3>2. j - i \in S
      BY <2>3, <3>1
    <3> QED
      BY <3>1, <3>2 DEF S
  <2> QED
    BY <2>4
<1> QED
  BY <1>6, <1>7, <1>8 DEF f

----------------------------------------------------------------------------
(* A tree that is False reads nothing and accepts nothing.                 *)

LEMMA FalseStays ==
  ASSUME NEW n \in Expression, NEW s \in Input, NEW i \in 0..Len(s) - 1
  PROVE  DerivAt(n, FalseTree, s, i) = FalseTree
BY ByteOfText, FalseAssumption DEF DerivAt

LEMMA NothingAhead ==
  ASSUME NEW n \in Expression, NEW t \in Tree, NEW s \in Input, NEW i \in 0..Len(s),
         NEW j \in i..Len(s), Residual(n, t, s, i)[j] = FalseTree, NEW k \in j..Len(s)
  PROVE  ~Accepted(n, t, s, i, k)
<1> DEFINE f == Residual(n, t, s, i)
           S == {m \in Nat : j + m <= Len(s) => f[j + m] = FalseTree}
<1>1. Len(s) \in Nat /\ i \in Nat /\ j \in Nat /\ i <= j /\ j <= Len(s)
  BY InputAssumption
<1>2. \A m \in i..Len(s) - 1 : f[m + 1] = DerivAt(n, f[m], s, m)
  BY ResidualStep
<1>3. f[j] = FalseTree
  OBVIOUS
<1> HIDE DEF f
<1>4. 0 \in S
  BY <1>1, <1>3
<1>5. ASSUME NEW m \in Nat, m \in S
      PROVE  m + 1 \in S
  <2> SUFFICES ASSUME j + (m + 1) <= Len(s)
               PROVE  f[j + (m + 1)] = FalseTree
    OBVIOUS
  <2>1. j + m \in i..Len(s) - 1 /\ j + m \in 0..Len(s) - 1 /\ j + (m + 1) = (j + m) + 1
        /\ j + m <= Len(s)
    BY <1>1
  <2>2. f[j + m] = FalseTree
    BY <1>5, <2>1
  <2> QED
    BY <1>2, <2>1, <2>2, FalseStays
<1> HIDE DEF S
<1>6. k - j \in S
  <2>1. k - j \in Nat
    BY <1>1
  <2> QED
    BY <1>4, <1>5, <2>1, Induction
<1>7. f[k] = FalseTree
  <2>1. j + (k - j) = k /\ k <= Len(s)
    BY <1>1
  <2> QED
    BY <1>6, <2>1 DEF S
<1>8. Ctx(Compiled[n], s, k) \in Context
  BY <1>1, InputAssumption
<1> QED
  BY <1>7, <1>8, FalseAssumption DEF Accepted, f

LEMMA NothingAheadBack ==
  ASSUME NEW n \in Expression, NEW t \in Tree, NEW s \in Input, NEW j \in 0..Len(s),
         NEW i \in 0..j, ResidualBack(n, t, s, j)[i] = FalseTree, NEW k \in 0..i
  PROVE  ~AcceptedBack(n, t, s, k, j)
<1> DEFINE f == ResidualBack(n, t, s, j)
           S == {m \in Nat : m <= i => f[i - m] = FalseTree}
<1>1. Len(s) \in Nat /\ i \in Nat /\ j \in Nat /\ i <= j /\ j <= Len(s)
  BY InputAssumption
<1>2. \A m \in 0..j - 1 : f[m] = DerivAt(n, f[m + 1], s, m)
  BY ResidualBackStep
<1>3. f[i] = FalseTree
  OBVIOUS
<1> HIDE DEF f
<1>4. 0 \in S
  BY <1>1, <1>3
<1>5. ASSUME NEW m \in Nat, m \in S
      PROVE  m + 1 \in S
  <2> SUFFICES ASSUME m + 1 <= i
               PROVE  f[i - (m + 1)] = FalseTree
    OBVIOUS
  <2>1. i - (m + 1) \in 0..j - 1 /\ i - (m + 1) \in 0..Len(s) - 1
        /\ (i - (m + 1)) + 1 = i - m /\ m <= i
    BY <1>1
  <2>2. f[i - m] = FalseTree
    BY <1>5, <2>1
  <2> QED
    BY <1>2, <2>1, <2>2, FalseStays
<1> HIDE DEF S
<1>6. i - k \in S
  <2>1. i - k \in Nat
    BY <1>1
  <2> QED
    BY <1>4, <1>5, <2>1, Induction
<1>7. f[k] = FalseTree
  <2>1. i - (i - k) = k /\ i - k <= i
    BY <1>1
  <2> QED
    BY <1>6, <2>1 DEF S
<1> QED
  BY <1>7, FalseAssumption, TreeAssumption DEF AcceptedBack, f, NoContext, NoFacts

----------------------------------------------------------------------------
(* What the loops read of an automaton.                                    *)

\* A byte takes an automaton to the derivative of what its state stands for.
LEMMA ReadFits ==
  ASSUME NEW n \in Expression, NEW root, NEW d, AutomatonOf(n, root, d),
         NEW r, r.s \in Input, r.st \in State(d), NEW i \in 0..Len(r.s) - 1
  PROVE  LET next == ReadAt(Compiled[n], d, r, i)
         IN  /\ AutomatonOf(n, root, next.dfa)
             /\ next.to \in State(next.dfa)
             /\ State(d) \subseteq State(next.dfa)
             /\ HasRoom(next.dfa) => HasRoom(d)
             /\ next.to = DeadState => (HasRoom(d) => HasRoom(next.dfa))
             /\ \A t \in Tree : Stands(d, r.st, t) =>
                  Stands(next.dfa, next.to, DerivAt(n, t, r.s, i))
<1> DEFINE next == ReadAt(Compiled[n], d, r, i)
           m == Compiled[n].byteToClass[r.s[i + 1]]
           c == Ctx(Compiled[n], r.s, i)
           f == next.dfa
           new == Deriv[d.asts[r.st]][m][c]
<1>1. m \in Minterm /\ c \in Context
  BY ByteOfText
<1>2. Sound(d)
  BY DEF AutomatonOf
<1>3. next = GetNextState(d, r.st, m, c)
  BY DEF ReadAt
<1> HIDE DEF next, m, c
<1>4. Sound(f) /\ Grows(d, f) /\ next.to \in State(f) /\ Moves(d, f, next.to, new)
  BY <1>1, <1>2, <1>3, GetNextStateSound
<1>5. /\ d.asts \in Seq(Tree) /\ Len(d.asts) \in Nat /\ Len(d.asts) >= 2
      /\ f.asts \in Seq(Tree) /\ Len(f.asts) \in Nat
  BY <1>2, <1>4 DEF Sound, WellFormed
<1>6. Len(d.asts) <= Len(f.asts) /\ (\A x \in State(d) : f.asts[x] = d.asts[x])
  BY <1>4 DEF Grows
<1>7. State(d) \subseteq State(f) /\ (HasRoom(f) => HasRoom(d))
  BY <1>5, <1>6, TreeAssumption DEF State, HasRoom
<1>11. next.to = DeadState => (HasRoom(d) => HasRoom(f))
  BY <1>4, <1>5 DEF Moves, HasRoom, DeadState
<1>8. d.asts[r.st] \in Tree /\ new \in Tree
  <2>1. d.asts[r.st] \in Tree
    BY <1>5 DEF State
  <2>2. Deriv[d.asts[r.st]] \in [Minterm -> [Context -> Tree]]
    BY <2>1, TreeAssumption
  <2> QED
    BY <1>1, <2>1, <2>2
<1>9. AutomatonOf(n, root, f)
  <2>1. f.asts[RootState] = root
    BY <1>5, <1>6 DEF AutomatonOf, State, RootState
  <2>2. ASSUME ~Compiled[n].hasAssertions
        PROVE  AsksNothing(f)
    <3>1. \A x \in State(d) : Mask[d.asts[x]] = NoFacts
      BY <2>2 DEF AutomatonOf, AsksNothing
    <3>2. Mask[new] = NoFacts
      BY <1>1, <1>8, <3>1, PlainAssumption
    <3>3. CASE f.asts = d.asts
      BY <3>1, <3>3 DEF AsksNothing, State
    <3>4. CASE f.asts = Append(d.asts, new)
      <4>1. \A x \in State(f) : x \in State(d) \/ f.asts[x] = new
        BY <1>5, <1>8, <3>4 DEF State
      <4> QED
        BY <1>6, <3>1, <3>2, <4>1 DEF AsksNothing
    <3> QED
      BY <1>4, <3>3, <3>4 DEF Moves
  <2> QED
    BY <1>4, <2>1, <2>2 DEF AutomatonOf
<1>10. ASSUME NEW t \in Tree, Stands(d, r.st, t)
       PROVE  Stands(f, next.to, DerivAt(n, t, r.s, i))
  <2>1. DerivAt(n, t, r.s, i) = Deriv[t][m][c]
    BY DEF DerivAt, m, c
  <2>2. CASE d.asts[r.st] = t
    <3>1. DerivAt(n, t, r.s, i) = new
      BY <2>1, <2>2
    <3>2. CASE f.asts = d.asts /\ next.to \in State(d) /\ d.asts[next.to] = new
      BY <1>4, <3>1, <3>2 DEF Stands
    <3>3. CASE f.asts = Append(d.asts, new) /\ next.to = Len(d.asts) + 1
      <4>1. f.asts[next.to] = new
        BY <1>5, <1>8, <3>3
      <4> QED
        BY <1>4, <3>1, <4>1 DEF Stands
    <3>4. CASE ~HasRoom(d) /\ f.asts = d.asts /\ next.to = DeadState
      BY <1>4, <3>4 DEF Stands, HasRoom
    <3> QED
      BY <1>4, <3>2, <3>3, <3>4 DEF Moves
  <2>3. CASE r.st = DeadState /\ ~HasRoom(d)
    <3>1. next = [dfa |-> d, to |-> DeadState]
      BY <1>3, <2>3 DEF GetNextState
    <3> QED
      BY <1>4, <2>3, <3>1 DEF Stands
  <2> QED
    BY <1>10, <2>2, <2>3 DEF Stands
<1> QED
  BY <1>4, <1>7, <1>9, <1>10, <1>11 DEF next

\* A state accepts at a position if its tree is nullable there, and the match bit
\* says the same where nothing is asked.
LEMMA AcceptsByTree ==
  ASSUME NEW n \in Expression, NEW root, NEW d, AutomatonOf(n, root, d),
         NEW st \in State(d), NEW s \in Input, NEW i \in 0..Len(s)
  PROVE  Accepts(Compiled[n], d, st, s, i) <=> Null[d.asts[st]][Ctx(Compiled[n], s, i)]
<1>1. Sound(d)
  BY DEF AutomatonOf
<1>2. d.asts \in Seq(Tree) /\ d.asts[st] \in Tree /\ st \in 1..Len(d.asts)
      /\ Len(d.isMatch) = Len(d.asts)
  BY <1>1 DEF Sound, WellFormed, State
<1>3. Ctx(Compiled[n], s, i) \in Context
  BY InputAssumption
<1>4. Null[d.asts[st]][Ctx(Compiled[n], s, i)] \in BOOLEAN
  <2>1. Null[d.asts[st]] \in [Context -> BOOLEAN]
    BY <1>2, TreeAssumption
  <2> QED
    BY <1>3, <2>1
<1>5. CASE Compiled[n].hasAssertions
  BY <1>2, <1>4, <1>5 DEF Accepts, IsAcceptingWithContext, Ctx
<1>6. CASE ~Compiled[n].hasAssertions
  <2>1. Mask[d.asts[st]] = NoFacts
    BY <1>6 DEF AutomatonOf, AsksNothing
  <2>2. d.isMatch[st] = Null[d.asts[st]][NoFacts]
    BY <1>1, <2>1 DEF Sound, MatchRight
  <2>3. Ctx(Compiled[n], s, i) = NoFacts
    BY <1>6 DEF Ctx, NoContext, NoFacts
  <2> QED
    BY <1>2, <1>4, <1>6, <2>2, <2>3 DEF Accepts, IsAccepting
<1> QED
  BY <1>5, <1>6

\* A state accepts only what it stands for accepts, and all of that while the
\* automaton has room.
LEMMA AcceptsWhatItStandsFor ==
  ASSUME NEW n \in Expression, NEW root, NEW d, AutomatonOf(n, root, d),
         NEW st, NEW t, Stands(d, st, t), NEW s \in Input, NEW i \in 0..Len(s)
  PROVE  /\ Accepts(Compiled[n], d, st, s, i) => Null[t][Ctx(Compiled[n], s, i)]
         /\ HasRoom(d) /\ Null[t][Ctx(Compiled[n], s, i)] =>
              Accepts(Compiled[n], d, st, s, i)
<1>1. st \in State(d)
  BY DEF Stands
<1>2. Accepts(Compiled[n], d, st, s, i) <=> Null[d.asts[st]][Ctx(Compiled[n], s, i)]
  BY <1>1, AcceptsByTree
<1>3. CASE d.asts[st] = t
  BY <1>2, <1>3
<1>4. CASE st = DeadState /\ ~HasRoom(d)
  <2>1. d.asts[st] = FalseTree
    BY <1>4 DEF AutomatonOf, Sound, WellFormed
  <2>2. Ctx(Compiled[n], s, i) \in Context
    BY InputAssumption
  <2> QED
    BY <1>2, <1>4, <2>1, <2>2, FalseAssumption
<1> QED
  BY <1>3, <1>4 DEF Stands

\* While the automaton has room, only the derivative False takes it to the dead
\* state.
LEMMA DeadIsFalse ==
  ASSUME NEW n, NEW root, NEW d, AutomatonOf(n, root, d), NEW t, Stands(d, DeadState, t),
         HasRoom(d)
  PROVE  t = FalseTree
BY DEF AutomatonOf, Sound, WellFormed, Stands

\* The root stands for its tree, and is there.
LEMMA RootStands ==
  ASSUME NEW n, NEW root, NEW d, AutomatonOf(n, root, d)
  PROVE  Stands(d, RootState, root) /\ d.asts[RootState] = root
BY DEF AutomatonOf, Sound, WellFormed, Stands, State, RootState

LEMMA RootsAreTrees ==
  ASSUME NEW n \in Expression
  PROVE  /\ Compiled[n].forward \in Tree /\ Compiled[n].unanchored \in Tree
         /\ Compiled[n].reverse \in Tree
BY CompiledAssumption DEF Expression

\* A new engine is an engine.
LEMMA NewEngineFits ==
  ASSUME NEW n \in Expression
  PROVE  IsEngine(NewEngine(n)) /\ NewEngine(n).pat = n
<1>1. ASSUME NEW root \in {Compiled[n].forward, Compiled[n].unanchored, Compiled[n].reverse}
      PROVE  AutomatonOf(n, root, NewLazyDFA(root))
  <2>1. root \in Tree
    BY RootsAreTrees
  <2>2. Sound(NewLazyDFA(root)) /\ NewLazyDFA(root).asts = <<root, FalseTree>>
    BY <2>1, NewSound
  <2>3. NewLazyDFA(root).asts[RootState] = root
    BY <2>2 DEF RootState
  <2>4. ASSUME ~Compiled[n].hasAssertions
        PROVE  AsksNothing(NewLazyDFA(root))
    <3>1. Mask[root] = NoFacts /\ Mask[FalseTree] = NoFacts
      BY <2>4, PlainAssumption
    <3> QED
      BY <2>2, <3>1 DEF AsksNothing, State
  <2> QED
    BY <2>2, <2>3, <2>4 DEF AutomatonOf
<1> QED
  BY <1>1 DEF NewEngine, IsEngine

----------------------------------------------------------------------------
(* The language of an expression.                                          *)

LEMMA LeastIs ==
  ASSUME NEW S \in SUBSET Nat, S # {}
  PROVE  Least(S) \in S /\ \A y \in S : Least(S) <= y
BY LeastExists, Zenon DEF Least

LEMMA SpanInText ==
  ASSUME NEW n \in Expression, NEW s \in Input, NEW x \in Spans[n][s]
  PROVE  /\ x = <<x[1], x[2]>> /\ x[1] \in Nat /\ x[2] \in Nat
         /\ x[1] <= x[2] /\ x[2] <= Len(s)
BY SpansAssumption

LEMMA ForwardAccepts ==
  ASSUME NEW n \in Expression, NEW s \in Input, NEW i \in 0..Len(s), NEW j \in i..Len(s)
  PROVE  Accepted(n, Compiled[n].forward, s, i, j) <=> <<i, j>> \in Spans[n][s]
BY DerivativeAssumption, Zenon

LEMMA UnanchoredAccepts ==
  ASSUME NEW n \in Expression, NEW s \in Input, NEW i \in 0..Len(s), NEW j \in i..Len(s)
  PROVE  Accepted(n, Compiled[n].unanchored, s, i, j)
           <=> \E k \in i..j : <<k, j>> \in Spans[n][s]
BY DerivativeAssumption, Zenon

LEMMA ReverseAccepts ==
  ASSUME NEW n \in Expression, ~Compiled[n].hasAssertions,
         NEW s \in Input, NEW i \in 0..Len(s), NEW j \in i..Len(s)
  PROVE  AcceptedBack(n, Compiled[n].reverse, s, i, j) <=> <<i, j>> \in Spans[n][s]
BY DerivativeAssumption, Zenon

\* The root of the forward automaton accepts where an empty match is.
LEMMA ForwardRootAccepts ==
  ASSUME NEW n \in Expression, NEW d, AutomatonOf(n, Compiled[n].forward, d),
         NEW s \in Input, NEW i \in 0..Len(s)
  PROVE  Accepts(Compiled[n], d, RootState, s, i) <=> <<i, i>> \in Spans[n][s]
<1>1. RootState \in State(d) /\ d.asts[RootState] = Compiled[n].forward
  BY RootStands DEF Stands
<1>2. Accepts(Compiled[n], d, RootState, s, i)
        <=> Null[Compiled[n].forward][Ctx(Compiled[n], s, i)]
  BY <1>1, AcceptsByTree
<1>3. Residual(n, Compiled[n].forward, s, i)[i] = Compiled[n].forward
  BY RootsAreTrees, ResidualStep
<1>4. i \in i..Len(s)
  BY InputAssumption
<1> QED
  BY <1>2, <1>3, <1>4, ForwardAccepts DEF Accepted

\* So does the root of the unanchored one, which has read nothing yet.
LEMMA UnanchoredRootAccepts ==
  ASSUME NEW n \in Expression, NEW d, AutomatonOf(n, Compiled[n].unanchored, d),
         NEW s \in Input, NEW i \in 0..Len(s)
  PROVE  Accepts(Compiled[n], d, RootState, s, i) <=> <<i, i>> \in Spans[n][s]
<1>1. RootState \in State(d) /\ d.asts[RootState] = Compiled[n].unanchored
  BY RootStands DEF Stands
<1>2. Accepts(Compiled[n], d, RootState, s, i)
        <=> Null[Compiled[n].unanchored][Ctx(Compiled[n], s, i)]
  BY <1>1, AcceptsByTree
<1>3. Residual(n, Compiled[n].unanchored, s, i)[i] = Compiled[n].unanchored
  BY RootsAreTrees, ResidualStep
<1>4. i \in i..Len(s) /\ i..i = {i}
  BY InputAssumption
<1>5. Accepted(n, Compiled[n].unanchored, s, i, i) <=> \E k \in i..i : <<k, i>> \in Spans[n][s]
  BY <1>4, UnanchoredAccepts
<1> QED
  BY <1>2, <1>3, <1>4, <1>5 DEF Accepted

\* And that of the reversed one.
LEMMA ReverseRootAccepts ==
  ASSUME NEW n \in Expression, ~Compiled[n].hasAssertions,
         NEW d, AutomatonOf(n, Compiled[n].reverse, d), NEW s \in Input, NEW i \in 0..Len(s)
  PROVE  IsAccepting(d, RootState) <=> <<i, i>> \in Spans[n][s]
<1>1. RootState \in State(d) /\ d.asts[RootState] = Compiled[n].reverse
  BY RootStands DEF Stands
<1>2. Accepts(Compiled[n], d, RootState, s, i)
        <=> Null[Compiled[n].reverse][Ctx(Compiled[n], s, i)]
  BY <1>1, AcceptsByTree
<1>3. ResidualBack(n, Compiled[n].reverse, s, i)[i] = Compiled[n].reverse
  BY RootsAreTrees, ResidualBackStep
<1>4. i \in i..Len(s)
  BY InputAssumption
<1> QED
  BY <1>2, <1>3, <1>4, ReverseAccepts DEF AcceptedBack, Accepts, Ctx

\* The filters of a search let through positions of the text only.
LEMMA StartsInText ==
  ASSUME NEW n \in Expression, NEW s \in Input, NEW i \in 0..Len(s)
  PROVE  StartPositions(Compiled[n], s, i) \subseteq i..Len(s)
<1>1. Compiled[n].prefix \in Seq(Nat) /\ Len(Compiled[n].prefix) \in Nat
  BY CompiledAssumption DEF Expression
<1>2. i \in Nat /\ Len(s) \in Nat /\ i <= Len(s)
  BY InputAssumption
<1>3. Occurrences(s, Compiled[n].prefix, i) \subseteq i..Len(s)
  BY <1>1, <1>2 DEF Occurrences
<1>4. AnyOccurrences(s, Compiled[n].prefixAny, i) \subseteq i..Len(s)
  <2>1. RuneStarts(s, i) \subseteq i..Len(s)
    BY <1>2, Z3 DEF RuneStarts
  <2>2. AnyOccurrences(s, Compiled[n].prefixAny, i) \subseteq RuneStarts(s, i)
    BY Zenon DEF AnyOccurrences
  <2> QED
    BY <2>1, <2>2
<1>5. Candidates(Compiled[n], s, i) \subseteq i..Len(s)
  BY <1>2, <1>3, <1>4 DEF Candidates
<1> QED
  BY <1>5, Zenon DEF StartPositions

\* What FirstEnding chooses.
LEMMA FirstEndingIs ==
  ASSUME NEW n \in Expression, NEW s \in Input, NEW from \in 0..Len(s),
         NEW x \in SpansFrom(n, s, from),
         \A y \in SpansFrom(n, s, from) : x[2] <= y[2] /\ (y[2] = x[2] => x[1] <= y[1]),
         NEW z \in SpansFrom(n, s, from), z[1] = x[1],
         \A y \in SpansFrom(n, s, from) : y[1] = x[1] => y[2] <= z[2]
  PROVE  FirstEnding(n, s, from) = z
<1> DEFINE spans == SpansFrom(n, s, from)
           end   == Least({y[2] : y \in spans})
           start == Least({y[1] : y \in {u \in spans : u[2] = end}})
           ends  == {y[2] : y \in {u \in spans : u[1] = start}}
<1>1. \A y \in spans : y = <<y[1], y[2]>> /\ y[1] \in Nat /\ y[2] \in Nat
  BY SpanInText DEF SpansFrom
<1>2. x \in spans /\ z \in spans /\ z[1] = x[1]
      /\ (\A y \in spans : x[2] <= y[2] /\ (y[2] = x[2] => x[1] <= y[1]))
      /\ (\A y \in spans : y[1] = x[1] => y[2] <= z[2])
  OBVIOUS
<1> HIDE DEF spans
<1>3. end = x[2]
  <2> DEFINE S == {y[2] : y \in spans}
  <2>1. S \in SUBSET Nat /\ x[2] \in S /\ \A k \in S : x[2] <= k
    BY <1>1, <1>2
  <2> HIDE DEF S
  <2>2. Least(S) \in S /\ \A y \in S : Least(S) <= y
    BY <2>1, LeastIs
  <2>3. Least(S) \in Nat /\ x[2] \in Nat
    BY <2>1, <2>2
  <2>4. Least(S) = x[2]
    BY <2>1, <2>2, <2>3
  <2> QED
    BY <2>4 DEF S
<1> HIDE DEF end
<1>4. start = x[1]
  <2> DEFINE S == {y[1] : y \in {u \in spans : u[2] = end}}
  <2>1. S \in SUBSET Nat /\ x[1] \in S /\ \A k \in S : x[1] <= k
    BY <1>1, <1>2, <1>3
  <2> HIDE DEF S
  <2>2. Least(S) \in S /\ \A y \in S : Least(S) <= y
    BY <2>1, LeastIs
  <2>3. Least(S) \in Nat /\ x[1] \in Nat
    BY <2>1, <2>2
  <2>4. Least(S) = x[1]
    BY <2>1, <2>2, <2>3
  <2> QED
    BY <2>4 DEF S
<1> HIDE DEF start
<1>5. (CHOOSE j \in ends : \A k \in ends : j >= k) = z[2]
  <2>1. z[2] \in ends /\ ends \subseteq Nat /\ \A k \in ends : z[2] >= k
    BY <1>1, <1>2, <1>4
  <2> HIDE DEF ends
  <2>2. \E j \in ends : \A k \in ends : j >= k
    BY <2>1
  <2>3. PICK j \in ends : j = (CHOOSE l \in ends : \A k \in ends : l >= k)
                          /\ \A k \in ends : j >= k
    BY <2>2, Zenon
  <2>4. \A k \in ends : j >= k
    BY <2>3
  <2>5. j \in Nat /\ z[2] \in Nat /\ j >= z[2] /\ z[2] >= j
    BY <2>1, <2>4
  <2> QED
    BY <2>3, <2>5
<1>6. spans # {}
  BY <1>2
<1>7. FirstEnding(n, s, from) = <<start, CHOOSE j \in ends : \A k \in ends : j >= k>>
  BY <1>6, Zenon DEF FirstEnding, spans, end, start, ends
<1>8. z = <<z[1], z[2]>>
  BY <1>1, <1>2
<1> HIDE DEF ends
<1> QED
  BY <1>2, <1>4, <1>5, <1>7, <1>8

----------------------------------------------------------------------------
(* One byte read by a pass.                                                *)

LEMMA ReadAhead ==
  ASSUME NEW n \in Expression, NEW root \in Tree, NEW d, AutomatonOf(n, root, d),
         NEW r, r.s \in Input, NEW p0 \in 0..Len(r.s), NEW i \in p0..Len(r.s) - 1,
         Stands(d, r.st, Residual(n, root, r.s, p0)[i])
  PROVE  LET next == ReadAt(Compiled[n], d, r, i)
         IN  /\ Stands(next.dfa, next.to, Residual(n, root, r.s, p0)[i + 1])
             /\ Accepts(Compiled[n], next.dfa, next.to, r.s, i + 1)
                  => Accepted(n, root, r.s, p0, i + 1)
             /\ HasRoom(next.dfa) /\ Accepted(n, root, r.s, p0, i + 1)
                  => Accepts(Compiled[n], next.dfa, next.to, r.s, i + 1)
             /\ HasRoom(next.dfa) /\ next.to = DeadState
                  => \A k \in i + 1..Len(r.s) : ~Accepted(n, root, r.s, p0, k)
<1> DEFINE next == ReadAt(Compiled[n], d, r, i)
           left == Residual(n, root, r.s, p0)
<1>1. Len(r.s) \in Nat /\ i \in 0..Len(r.s) - 1 /\ i \in p0..Len(r.s)
      /\ i + 1 \in 0..Len(r.s) /\ i + 1 \in p0..Len(r.s)
  BY InputAssumption
<1>2. left[i] \in Tree /\ left[i + 1] = DerivAt(n, left[i], r.s, i)
  BY <1>1, ResidualStep
<1>3. r.st \in State(d) /\ Stands(d, r.st, left[i])
  BY DEF Stands
<1>4. AutomatonOf(n, root, next.dfa) /\ Stands(next.dfa, next.to, left[i + 1])
  BY <1>1, <1>2, <1>3, ReadFits
<1>5. Accepted(n, root, r.s, p0, i + 1) <=> Null[left[i + 1]][Ctx(Compiled[n], r.s, i + 1)]
  <2>1. Accepted(n, root, r.s, p0, i + 1) = Null[left[i + 1]][Ctx(Compiled[n], r.s, i + 1)]
    BY Zenon DEF Accepted
  <2> QED
    BY <2>1
<1> HIDE DEF next
<1>6. /\ Accepts(Compiled[n], next.dfa, next.to, r.s, i + 1)
           => Null[left[i + 1]][Ctx(Compiled[n], r.s, i + 1)]
      /\ HasRoom(next.dfa) /\ Null[left[i + 1]][Ctx(Compiled[n], r.s, i + 1)]
           => Accepts(Compiled[n], next.dfa, next.to, r.s, i + 1)
  <2> HIDE DEF left
  <2> QED
    BY <1>1, <1>4, AcceptsWhatItStandsFor
<1>7. ASSUME HasRoom(next.dfa), next.to = DeadState, NEW k \in i + 1..Len(r.s)
      PROVE  ~Accepted(n, root, r.s, p0, k)
  <2>1. left[i + 1] = FalseTree
    <3> HIDE DEF left
    <3> QED
      BY <1>4, <1>7, DeadIsFalse
  <2> QED
    BY <1>1, <2>1, NothingAhead
<1> HIDE DEF left
<1>8. Stands(next.dfa, next.to, Residual(n, root, r.s, p0)[i + 1])
  BY <1>4 DEF left
<1> QED
  BY <1>5, <1>6, <1>7, <1>8 DEF next

LEMMA ReadBackwards ==
  ASSUME NEW n \in Expression, ~Compiled[n].hasAssertions, NEW root \in Tree,
         NEW d, AutomatonOf(n, root, d),
         NEW r, r.s \in Input, NEW j \in 0..Len(r.s), NEW i \in 0..j - 1,
         Stands(d, r.st, ResidualBack(n, root, r.s, j)[i + 1])
  PROVE  LET next == ReadAt(Compiled[n], d, r, i)
         IN  /\ Stands(next.dfa, next.to, ResidualBack(n, root, r.s, j)[i])
             /\ Accepts(Compiled[n], next.dfa, next.to, r.s, i)
                  => AcceptedBack(n, root, r.s, i, j)
             /\ HasRoom(next.dfa) /\ AcceptedBack(n, root, r.s, i, j)
                  => Accepts(Compiled[n], next.dfa, next.to, r.s, i)
             /\ HasRoom(next.dfa) /\ next.to = DeadState
                  => \A k \in 0..i : ~AcceptedBack(n, root, r.s, k, j)
<1> DEFINE next == ReadAt(Compiled[n], d, r, i)
           left == ResidualBack(n, root, r.s, j)
<1>1. Len(r.s) \in Nat /\ i \in 0..Len(r.s) - 1 /\ i \in 0..j /\ i \in 0..Len(r.s)
      /\ i + 1 \in 0..j
  BY InputAssumption
<1>2. left[i + 1] \in Tree /\ left[i] = DerivAt(n, left[i + 1], r.s, i)
  BY <1>1, ResidualBackStep
<1>3. r.st \in State(d) /\ Stands(d, r.st, left[i + 1])
  BY DEF Stands
<1>4. AutomatonOf(n, root, next.dfa) /\ Stands(next.dfa, next.to, left[i])
  BY <1>1, <1>2, <1>3, ReadFits
<1>5. AcceptedBack(n, root, r.s, i, j) <=> Null[left[i]][Ctx(Compiled[n], r.s, i)]
  <2>1. Ctx(Compiled[n], r.s, i) = NoContext
    BY DEF Ctx
  <2>2. AcceptedBack(n, root, r.s, i, j) = Null[left[i]][NoContext]
    BY Zenon DEF AcceptedBack
  <2> QED
    BY <2>1, <2>2
<1> HIDE DEF next
<1>6. /\ Accepts(Compiled[n], next.dfa, next.to, r.s, i)
           => Null[left[i]][Ctx(Compiled[n], r.s, i)]
      /\ HasRoom(next.dfa) /\ Null[left[i]][Ctx(Compiled[n], r.s, i)]
           => Accepts(Compiled[n], next.dfa, next.to, r.s, i)
  <2> HIDE DEF left
  <2> QED
    BY <1>1, <1>4, AcceptsWhatItStandsFor
<1>7. ASSUME HasRoom(next.dfa), next.to = DeadState, NEW k \in 0..i
      PROVE  ~AcceptedBack(n, root, r.s, k, j)
  <2>1. left[i] = FalseTree
    <3> HIDE DEF left
    <3> QED
      BY <1>4, <1>7, DeadIsFalse
  <2> QED
    BY <1>1, <2>1, NothingAheadBack
<1> HIDE DEF left
<1>8. Stands(next.dfa, next.to, ResidualBack(n, root, r.s, j)[i])
  BY <1>4 DEF left
<1> QED
  BY <1>5, <1>6, <1>7, <1>8 DEF next

----------------------------------------------------------------------------
(* The steps of a search.                                                  *)

\* A step goes on with the question, and with an engine that has not lost a state;
\* the step that answers does not fill it.
Follows(e, r, f, q) ==
  /\ IsEngine(f)
  /\ f.pat = e.pat
  /\ IsCall(q)
  /\ q.ph # "begin"
  /\ q.s = r.s
  /\ q.from = r.from
  /\ Full(e) => Full(f)
  /\ q.ph = "done" => (Full(f) => Full(e))

\* An answer and nothing else.
LEMMA ReturnIs ==
  ASSUME NEW r, IsCall(r), NEW loc
  PROVE  LET q == Return(r, loc)
         IN  /\ IsCall(q) /\ q.ph = "done" /\ q.loc = loc
             /\ q.s = r.s /\ q.from = r.from /\ q.pos = r.pos /\ q.st = r.st
             /\ q.firstEnd = r.firstEnd /\ q.start = r.start /\ q.end = r.end
BY DEF IsCall, CallField, Return

\* The facts of a call that every pass needs.
LEMMA SpansFacts ==
  ASSUME NEW e, IsEngine(e), NEW r, IsCall(r)
  PROVE  /\ e.pat \in Expression /\ r.s \in Input /\ r.from \in 0..Len(r.s) /\ Len(r.s) \in Nat
         /\ \A x \in SpansFrom(e.pat, r.s, r.from) :
              /\ x = <<x[1], x[2]>> /\ x[1] \in Nat /\ x[2] \in Nat
              /\ x[1] <= x[2] /\ x[2] <= Len(r.s) /\ r.from <= x[1]
         /\ \A i, j \in Nat : r.from <= i /\ <<i, j>> \in Spans[e.pat][r.s]
                              => <<i, j>> \in SpansFrom(e.pat, r.s, r.from)
         /\ SpansFrom(e.pat, r.s, r.from) \subseteq Spans[e.pat][r.s]
<1>1. e.pat \in Expression /\ r.s \in Input /\ r.from \in 0..Len(r.s) /\ Len(r.s) \in Nat
  BY InputAssumption DEF IsEngine, IsCall
<1> QED
  BY <1>1, SpanInText DEF SpansFrom

\* A call that gives up has not lost a match, unless an automaton has.
LEMMA GivesUp ==
  ASSUME NEW e, IsEngine(e), NEW r, IsCall(r), r.pos \in 0..Len(r.s),
         r.firstEnd \in {NoPos} \cup r.from..Len(r.s), r.start = NoPos, r.end = NoPos,
         FiltersKeepMatches(e.pat) /\ ~Full(e) /\ ~Compiled[e.pat].hasAssertions =>
           SpansFrom(e.pat, r.s, r.from) = {}
  PROVE  SearchCall(e, Return(r, Nil))
<1> DEFINE q == Return(r, Nil)
<1>1. /\ IsCall(q) /\ q.ph = "done" /\ q.loc = Nil
      /\ q.s = r.s /\ q.from = r.from /\ q.pos = r.pos
      /\ q.firstEnd = r.firstEnd /\ q.start = NoPos /\ q.end = NoPos
  BY ReturnIs
<1> HIDE DEF q
<1>2. Answered(e, q)
  BY <1>1 DEF Answered, IsAnswer, EndNotLost, ExactAnswer, FirstEnding
<1> QED
  BY <1>1, <1>2 DEF SearchCall, q

\* At the end of the text only the empty match is left.
LEMMA EndOfText ==
  ASSUME NEW e, IsEngine(e), NEW r, IsCall(r), Begun(e, r), r.from = Len(r.s)
  PROVE  LET len == Len(r.s)
             q   == Return(r, IF Accepts(Compiled[e.pat], e.forward, RootState, r.s, len)
                              THEN <<len, len>> ELSE Nil)
         IN  SearchCall(e, q)
<1> DEFINE n     == e.pat
           spans == SpansFrom(n, r.s, r.from)
           len   == Len(r.s)
           loc   == IF Accepts(Compiled[n], e.forward, RootState, r.s, len)
                    THEN <<len, len>> ELSE Nil
           q     == Return(r, loc)
<1>1. /\ n \in Expression /\ r.s \in Input /\ r.from = len /\ len \in Nat
      /\ \A x \in spans : x = <<x[1], x[2]>> /\ x[1] \in Nat /\ x[2] \in Nat
                          /\ x[1] <= x[2] /\ x[2] <= len /\ r.from <= x[1]
      /\ \A i, j \in Nat : r.from <= i /\ <<i, j>> \in Spans[n][r.s] => <<i, j>> \in spans
      /\ spans \subseteq Spans[n][r.s]
  BY SpansFacts
<1>2. len \in 0..len /\ r.from \in 0..len
  BY <1>1
<1>3. Accepts(Compiled[n], e.forward, RootState, r.s, len) <=> <<len, len>> \in Spans[n][r.s]
  BY <1>1, <1>2, ForwardRootAccepts DEF IsEngine
<1>4. \A x \in spans : x = <<len, len>>
  BY <1>1
<1>5. loc = FirstEnding(n, r.s, r.from)
  <2>1. CASE <<len, len>> \in Spans[n][r.s]
    <3>1. <<len, len>> \in spans
      BY <1>1, <2>1
    <3>2. FirstEnding(n, r.s, r.from) = <<len, len>>
      BY <1>1, <1>2, <1>4, <3>1, FirstEndingIs
    <3> QED
      BY <1>3, <2>1, <3>2
  <2>2. CASE <<len, len>> \notin Spans[n][r.s]
    <3>1. spans = {}
      BY <1>1, <1>4, <2>2
    <3> QED
      BY <1>3, <2>2, <3>1 DEF FirstEnding
  <2> QED
    BY <2>1, <2>2
<1>6. loc = Nil \/ loc \in spans
  BY <1>1, <1>3
<1>7. loc # Nil => loc[2] # NoPos
  BY <1>1 DEF Nil, NoPos
<1> HIDE DEF loc, q
<1>8. /\ IsCall(q) /\ q.ph = "done" /\ q.loc = loc
      /\ q.s = r.s /\ q.from = r.from /\ q.pos = r.from
      /\ q.firstEnd = NoPos /\ q.start = NoPos /\ q.end = NoPos
  BY ReturnIs DEF Begun, q
<1>9. Answered(e, q)
  BY <1>1, <1>2, <1>5, <1>6, <1>7, <1>8 DEF Answered, IsAnswer, EndNotLost, ExactAnswer
<1> QED
  BY <1>8, <1>9 DEF SearchCall, q, loc

\* The first pass may begin where the filters say.
LEMMA ScanBegins ==
  ASSUME NEW e, IsEngine(e), NEW r, IsCall(r), Begun(e, r), r.from # Len(r.s),
         NEW p0 \in r.from..Len(r.s),
         FiltersKeepMatches(e.pat) =>
           \A x \in SpansFrom(e.pat, r.s, r.from) :
             p0 <= x[1] /\ (p0 # r.from => x[1] < x[2]),
         NEW end,
         end = IF Accepts(Compiled[e.pat], e.unanchored, RootState, r.s, r.from)
               THEN r.from ELSE NoPos,
         NEW q, IsCall(q), q.ph = "scan", q.s = r.s, q.from = r.from, q.pos = p0,
         q.st = RootState, q.firstEnd = end, q.start = NoPos, q.end = NoPos
  PROVE  SearchCall(e, q)
<1> DEFINE n       == e.pat
           spans   == SpansFrom(n, r.s, r.from)
           accepts == Accepts(Compiled[n], e.unanchored, RootState, r.s, r.from)
<1>1. /\ n \in Expression /\ r.s \in Input /\ r.from \in 0..Len(r.s) /\ Len(r.s) \in Nat
      /\ \A x \in spans : x = <<x[1], x[2]>> /\ x[1] \in Nat /\ x[2] \in Nat
                          /\ x[1] <= x[2] /\ x[2] <= Len(r.s) /\ r.from <= x[1]
      /\ \A i, j \in Nat : r.from <= i /\ <<i, j>> \in Spans[n][r.s] => <<i, j>> \in spans
  BY SpansFacts
<1>2. accepts <=> <<r.from, r.from>> \in Spans[n][r.s]
  BY <1>1, UnanchoredRootAccepts DEF IsEngine
<1>e. end = IF accepts THEN r.from ELSE NoPos
  OBVIOUS
<1> HIDE DEF accepts
<1>3. /\ IsCall(q) /\ q.ph = "scan" /\ q.s = r.s /\ q.from = r.from /\ q.pos = p0
      /\ q.st = RootState /\ q.firstEnd = end /\ q.start = NoPos /\ q.end = NoPos
  OBVIOUS
<1>4. /\ RootState \in State(e.unanchored)
      /\ Stands(e.unanchored, RootState, Compiled[n].unanchored)
  BY RootStands DEF IsEngine, Stands
<1>5. Scanning(e, q)
  <2>1. CASE accepts
    <3>1. <<r.from, r.from>> \in spans
      BY <1>1, <1>2, <2>1
    <3>2. IsEnd(e, q, r.from)
      BY <1>3, <3>1 DEF IsEnd
    <3>3. NoneBehind(e, q, r.from - 1)
      BY <1>1, <1>3 DEF NoneBehind
    <3> QED
      BY <1>1, <1>3, <1>4, <1>e, <2>1, <3>2, <3>3 DEF Scanning, EndKnown
  <2>2. CASE ~accepts
    <3>1. NoneBehind(e, q, p0)
      <4> SUFFICES ASSUME FiltersKeepMatches(n), NEW x \in spans
                   PROVE  x[2] > p0
        BY <1>3 DEF NoneBehind
      <4>1. p0 <= x[1] /\ (p0 # r.from => x[1] < x[2])
        OBVIOUS
      <4>2. CASE p0 # r.from
        BY <1>1, <4>1, <4>2
      <4>3. CASE p0 = r.from
        <5>1. x # <<r.from, r.from>>
          BY <1>2, <2>2 DEF SpansFrom
        <5> QED
          BY <1>1, <4>3, <5>1
      <4> QED
        BY <4>2, <4>3
    <3>2. ScanBegan(e, q, p0)
      <4>1. Residual(n, Compiled[n].unanchored, r.s, p0)[p0] = Compiled[n].unanchored
        <5>1. p0 \in 0..Len(r.s)
          BY <1>1
        <5> QED
          BY <1>1, <5>1, RootsAreTrees, ResidualStep
      <4> QED
        BY <1>3, <1>4, <4>1 DEF ScanBegan
    <3>3. p0 \in r.from..p0
      BY <1>1
    <3> QED
      BY <1>1, <1>3, <1>4, <1>e, <2>2, <3>1, <3>2, <3>3 DEF Scanning
  <2> QED
    BY <2>1, <2>2
<1> QED
  BY <1>3, <1>5 DEF SearchCall

LEMMA BeginFits ==
  ASSUME NEW e, IsEngine(e), NEW r, IsCall(r), Begun(e, r)
  PROVE  Follows(e, r, e, Begin(e, r)) /\ SearchCall(e, Begin(e, r))
<1> DEFINE n      == e.pat
           starts == StartPositions(Compiled[n], r.s, r.from)
           spans  == SpansFrom(n, r.s, r.from)
           q      == Begin(e, r)
<1>1. /\ n \in Expression /\ r.s \in Input /\ r.from \in 0..Len(r.s) /\ Len(r.s) \in Nat
      /\ r.pos = r.from /\ r.firstEnd = NoPos /\ r.start = NoPos /\ r.end = NoPos
  BY SpansFacts DEF Begun
<1>2. CASE r.s = <<>> \/ r.from = Len(r.s)
  <2>1. q = Return(r, IF Accepts(Compiled[n], e.forward, RootState, r.s, Len(r.s))
                      THEN <<Len(r.s), Len(r.s)>> ELSE Nil)
    BY <1>2 DEF Begin
  <2>2. r.from = Len(r.s)
    BY <1>1, <1>2
  <2> HIDE DEF q
  <2>3. SearchCall(e, q)
    BY <2>1, <2>2, EndOfText
  <2> QED
    BY <2>1, <2>3, ReturnIs DEF Follows, q
<1>3. CASE ~(r.s = <<>> \/ r.from = Len(r.s)) /\ starts = {}
  <2>1. q = Return(r, Nil)
    BY <1>1, <1>3 DEF Begin
  <2>2. r.from \in 0..Len(r.s) - 1
    BY <1>1, <1>3
  <2>3. FiltersKeepMatches(n) => spans = {}
    BY <1>1, <1>3, <2>2 DEF FiltersKeepMatches
  <2> HIDE DEF q
  <2>4. SearchCall(e, q)
    BY <1>1, <2>1, <2>3, GivesUp
  <2> QED
    BY <2>1, <2>4, ReturnIs DEF Follows, q
<1>4. CASE ~(r.s = <<>> \/ r.from = Len(r.s)) /\ starts # {}
  <2> DEFINE first  == Least(starts)
             known == IF Accepts(Compiled[n], e.unanchored, RootState, r.s, r.from)
                    THEN r.from ELSE NoPos
  <2>1. first \in r.from..Len(r.s)
    <3>1. starts \subseteq r.from..Len(r.s)
      BY <1>1, StartsInText
    <3>2. starts \in SUBSET Nat
      BY <1>1, <3>1
    <3> HIDE DEF starts
    <3> QED
      BY <1>4, <3>1, <3>2, LeastIs
  <2>2. q = [r EXCEPT !.ph = "scan", !.pos = first, !.firstEnd = known]
    BY <1>1, <1>4 DEF Begin
  <2>3. r.from \in 0..Len(r.s) - 1 /\ r.from # Len(r.s)
    BY <1>1, <1>4
  <2>4. FiltersKeepMatches(e.pat) =>
          \A x \in SpansFrom(e.pat, r.s, r.from) :
            first <= x[1] /\ (first # r.from => x[1] < x[2])
    BY <1>1, <2>3, Zenon DEF FiltersKeepMatches
  <2>5. known = IF Accepts(Compiled[e.pat], e.unanchored, RootState, r.s, r.from)
              THEN r.from ELSE NoPos
    OBVIOUS
  <2>6. /\ IsCall(q) /\ q.ph = "scan" /\ q.s = r.s /\ q.from = r.from /\ q.pos = first
        /\ q.st = RootState /\ q.firstEnd = known /\ q.start = NoPos /\ q.end = NoPos
    BY <2>2 DEF IsCall, CallField, Begun
  <2>7. SearchCall(e, q)
    <3> HIDE DEF first, q, known
    <3> QED
      BY <2>1, <2>3, <2>4, <2>5, <2>6, ScanBegins
  <2> QED
    BY <2>6, <2>7 DEF Follows
<1> QED
  BY <1>2, <1>3, <1>4

LEMMA RoomOfFull ==
  ASSUME NEW e, ~Full(e)
  PROVE  HasRoom(e.forward) /\ HasRoom(e.unanchored) /\ HasRoom(e.reverse)
BY DEF Full, Automata

\* An engine with one automaton exchanged for a later one of the same tree.
LEMMA EngineGrows ==
  ASSUME NEW e, IsEngine(e), NEW f,
         \/ \E d : f = [e EXCEPT !.forward = d]
                   /\ AutomatonOf(e.pat, Compiled[e.pat].forward, d)
                   /\ (HasRoom(d) => HasRoom(e.forward))
         \/ \E d : f = [e EXCEPT !.unanchored = d]
                   /\ AutomatonOf(e.pat, Compiled[e.pat].unanchored, d)
                   /\ (HasRoom(d) => HasRoom(e.unanchored))
         \/ \E d : f = [e EXCEPT !.reverse = d]
                   /\ AutomatonOf(e.pat, Compiled[e.pat].reverse, d)
                   /\ (HasRoom(d) => HasRoom(e.reverse))
  PROVE  IsEngine(f) /\ f.pat = e.pat /\ (Full(e) => Full(f))
<1>1. ASSUME NEW d, f = [e EXCEPT !.forward = d],
             AutomatonOf(e.pat, Compiled[e.pat].forward, d), HasRoom(d) => HasRoom(e.forward)
      PROVE  IsEngine(f) /\ f.pat = e.pat /\ (Full(e) => Full(f))
  BY <1>1 DEF IsEngine, Full, Automata
<1>2. ASSUME NEW d, f = [e EXCEPT !.unanchored = d],
             AutomatonOf(e.pat, Compiled[e.pat].unanchored, d), HasRoom(d) => HasRoom(e.unanchored)
      PROVE  IsEngine(f) /\ f.pat = e.pat /\ (Full(e) => Full(f))
  BY <1>2 DEF IsEngine, Full, Automata
<1>3. ASSUME NEW d, f = [e EXCEPT !.reverse = d],
             AutomatonOf(e.pat, Compiled[e.pat].reverse, d), HasRoom(d) => HasRoom(e.reverse)
      PROVE  IsEngine(f) /\ f.pat = e.pat /\ (Full(e) => Full(f))
  BY <1>3 DEF IsEngine, Full, Automata
<1> QED
  BY <1>1, <1>2, <1>3

LEMMA ScanForwardFits ==
  ASSUME NEW e, IsEngine(e), NEW r, IsCall(r), r.ph = "scan", Scanning(e, r)
  PROVE  LET step == ScanForward(e, r)
         IN  Follows(e, r, step.e, step.r) /\ SearchCall(step.e, step.r)
<1> DEFINE n     == e.pat
           p     == Compiled[n]
           U     == Compiled[n].unanchored
           next  == ReadAt(p, e.unanchored, r, r.pos)
           f     == [e EXCEPT !.unanchored = next.dfa]
           spans == SpansFrom(n, r.s, r.from)
           step  == ScanForward(e, r)
<1>1. /\ n \in Expression /\ r.s \in Input /\ r.from \in 0..Len(r.s) /\ Len(r.s) \in Nat
      /\ \A x \in spans : /\ x = <<x[1], x[2]>> /\ x[1] \in Nat /\ x[2] \in Nat
                          /\ x[1] <= x[2] /\ x[2] <= Len(r.s) /\ r.from <= x[1]
      /\ \A i, j \in Nat : r.from <= i /\ <<i, j>> \in Spans[n][r.s] => <<i, j>> \in spans
      /\ spans \subseteq Spans[n][r.s]
  BY SpansFacts
<1>2. /\ r.pos \in r.from..Len(r.s) /\ r.st \in State(e.unanchored)
      /\ r.start = NoPos /\ r.end = NoPos
  BY DEF Scanning
<1> HIDE DEF spans
<1>3. CASE r.firstEnd # NoPos
  <2> DEFINE q == [r EXCEPT !.ph = "back", !.pos = r.firstEnd, !.st = RootState]
  <2>1. step.e = e /\ step.r = q
    BY <1>3 DEF ScanForward
  <2>2. /\ IsCall(q) /\ q.ph = "back" /\ q.s = r.s /\ q.from = r.from /\ q.pos = r.firstEnd
        /\ q.st = RootState /\ q.firstEnd = r.firstEnd /\ q.start = NoPos /\ q.end = NoPos
    BY <1>2 DEF IsCall, CallField
  <2>3. EndKnown(e, r)
    BY <1>3 DEF Scanning
  <2> HIDE DEF q
  <2>4. r.firstEnd \in r.from..Len(r.s) /\ r.firstEnd \in 0..Len(r.s) /\ EndKnown(e, q)
    BY <1>1, <2>2, <2>3 DEF EndKnown, NoneBehind, IsEnd
  <2>5. Stands(e.reverse, RootState,
               ResidualBack(n, Compiled[n].reverse, r.s, r.firstEnd)[r.firstEnd])
    <3>1. ResidualBack(n, Compiled[n].reverse, r.s, r.firstEnd)[r.firstEnd] = Compiled[n].reverse
      BY <1>1, <2>4, RootsAreTrees, ResidualBackStep
    <3> QED
      BY <3>1, RootStands DEF IsEngine
  <2>6. RootState \in State(e.reverse)
    BY <2>5 DEF Stands
  <2>7. r.firstEnd \in r.from..r.firstEnd /\ r.firstEnd..r.firstEnd - 1 = {}
    BY <1>1, <2>4
  <2>8. Backing(e, q)
    BY <2>2, <2>4, <2>5, <2>6, <2>7 DEF Backing
  <2> QED
    BY <2>1, <2>2, <2>8 DEF Follows, SearchCall
<1>4. ASSUME r.firstEnd = NoPos
      PROVE  NoneBehind(e, r, r.pos) /\ \E p0 \in r.from..r.pos : ScanBegan(e, r, p0)
  BY <1>1, <1>4 DEF Scanning, EndKnown, NoPos
<1>5. CASE r.firstEnd = NoPos /\ r.pos >= Len(r.s)
  <2>1. step.e = e /\ step.r = Return(r, Nil)
    BY <1>5 DEF ScanForward
  <2>2. FiltersKeepMatches(n) /\ ~Full(e) => spans = {}
    BY <1>1, <1>2, <1>4, <1>5, RoomOfFull DEF NoneBehind, spans
  <2>3. SearchCall(e, Return(r, Nil))
    <3>1. r.pos \in 0..Len(r.s)
      BY <1>1, <1>2
    <3> QED
      BY <1>2, <1>5, <2>2, <3>1, GivesUp DEF spans
  <2> QED
    BY <2>1, <2>3, ReturnIs DEF Follows
<1>6. CASE /\ r.firstEnd = NoPos /\ r.pos < Len(r.s)
           /\ p.hasAssertions /\ Accepts(p, e.forward, RootState, r.s, r.pos)
  <2> DEFINE q == EndFound(r, r.pos)
  <2>1. step.e = e /\ step.r = q
    BY <1>1, <1>2, <1>6 DEF ScanForward
  <2>2. /\ IsCall(q) /\ q.ph = "scan" /\ q.s = r.s /\ q.from = r.from /\ q.pos = r.pos
        /\ q.st = r.st /\ q.firstEnd = r.pos /\ q.start = NoPos /\ q.end = NoPos
    BY <1>2 DEF IsCall, CallField, EndFound
  <2> HIDE DEF q
  <2>3. <<r.pos, r.pos>> \in Spans[n][r.s]
    <3>1. r.pos \in 0..Len(r.s)
      BY <1>1, <1>2
    <3> QED
      BY <1>1, <1>6, <3>1, ForwardRootAccepts DEF IsEngine
  <2>4. IsEnd(e, q, r.pos)
    <3>1. <<r.pos, r.pos>> \in spans
      BY <1>1, <1>2, <2>3
    <3> QED
      BY <2>2, <3>1 DEF IsEnd, spans
  <2>5. NoneBehind(e, q, r.pos - 1)
    BY <1>1, <1>2, <1>4, <1>6, <2>2 DEF NoneBehind, spans
  <2>6. Scanning(e, q)
    BY <1>2, <2>2, <2>4, <2>5 DEF Scanning, EndKnown
  <2> QED
    BY <2>1, <2>2, <2>6 DEF Follows, SearchCall
<1>7. CASE /\ r.firstEnd = NoPos /\ r.pos < Len(r.s)
           /\ ~(p.hasAssertions /\ Accepts(p, e.forward, RootState, r.s, r.pos))
  <2> DEFINE accepts == Accepts(p, next.dfa, next.to, r.s, r.pos + 1)
  <2>1. /\ step.e = f
        /\ step.r = IF accepts THEN EndFound([r EXCEPT !.st = next.to], r.pos + 1)
                    ELSE IF next.to = DeadState THEN Return(r, Nil)
                    ELSE [r EXCEPT !.st = next.to, !.pos = r.pos + 1]
    BY <1>1, <1>2, <1>7 DEF ScanForward
  <2>2. PICK p0 \in r.from..r.pos : ScanBegan(e, r, p0)
    BY <1>4, <1>7
  <2>3. /\ p0 \in 0..Len(r.s) /\ p0 \in Nat /\ r.pos \in p0..Len(r.s) - 1
        /\ r.pos \in 0..Len(r.s) - 1 /\ r.pos + 1 \in p0..Len(r.s) /\ p0 \in r.from..r.pos + 1
    BY <1>1, <1>2, <1>7
  <2>4. Stands(e.unanchored, r.st, Residual(n, U, r.s, p0)[r.pos])
    BY <2>2 DEF ScanBegan
  <2>5. AutomatonOf(n, U, e.unanchored) /\ U \in Tree
    BY <1>1, RootsAreTrees DEF IsEngine
  <2>6. /\ AutomatonOf(n, U, next.dfa) /\ next.to \in State(next.dfa)
        /\ HasRoom(next.dfa) => HasRoom(e.unanchored)
        /\ next.to = DeadState => (HasRoom(e.unanchored) => HasRoom(next.dfa))
    BY <1>1, <1>2, <2>3, <2>5, ReadFits
  <2>7. /\ Stands(next.dfa, next.to, Residual(n, U, r.s, p0)[r.pos + 1])
        /\ accepts => Accepted(n, U, r.s, p0, r.pos + 1)
        /\ HasRoom(next.dfa) /\ Accepted(n, U, r.s, p0, r.pos + 1) => accepts
        /\ HasRoom(next.dfa) /\ next.to = DeadState
             => \A k \in r.pos + 1..Len(r.s) : ~Accepted(n, U, r.s, p0, k)
    BY <1>1, <2>3, <2>4, <2>5, ReadAhead
  <2>8. \A j \in p0..Len(r.s) :
          Accepted(n, U, r.s, p0, j) <=> \E k \in p0..j : <<k, j>> \in Spans[n][r.s]
    BY <1>1, <2>3, UnanchoredAccepts
  <2>9. FiltersKeepMatches(n) => \A x \in spans : p0 <= x[1]
    BY <2>2 DEF ScanBegan, spans
  <2> HIDE DEF next, accepts, step
  <2>10. /\ f.unanchored = next.dfa /\ f.forward = e.forward /\ f.reverse = e.reverse
         /\ f.pat = n
    BY DEF IsEngine
  <2>11. IsEngine(f) /\ (Full(e) => Full(f))
    BY <2>6, EngineGrows
  <2> HIDE DEF f
  <2>12. ASSUME FiltersKeepMatches(n), HasRoom(next.dfa), NEW x \in spans
         PROVE  x[2] > r.pos /\ Accepted(n, U, r.s, p0, x[2])
    <3>1. x[2] > r.pos
      BY <1>4, <1>7, <2>6, <2>12 DEF NoneBehind, spans
    <3>2. x[1] \in p0..x[2] /\ x[2] \in p0..Len(r.s) /\ <<x[1], x[2]>> \in Spans[n][r.s]
      BY <1>1, <2>3, <2>9, <2>12
    <3> QED
      BY <2>8, <3>1, <3>2
  <2>13. CASE accepts
    <3> DEFINE q == EndFound([r EXCEPT !.st = next.to], r.pos + 1)
    <3>1. step.r = q
      BY <2>1, <2>13
    <3>2. /\ IsCall(q) /\ q.ph = "scan" /\ q.s = r.s /\ q.from = r.from /\ q.pos = r.pos
          /\ q.st = next.to /\ q.firstEnd = r.pos + 1 /\ q.start = NoPos /\ q.end = NoPos
      BY <1>2 DEF IsCall, CallField, EndFound
    <3> HIDE DEF q
    <3>3. IsEnd(f, q, r.pos + 1)
      <4>1. PICK k \in p0..r.pos + 1 : <<k, r.pos + 1>> \in Spans[n][r.s]
        BY <2>3, <2>7, <2>8, <2>13
      <4>2. <<k, r.pos + 1>> \in spans
        BY <1>1, <1>2, <2>3, <4>1
      <4> QED
        BY <2>10, <3>2, <4>2 DEF IsEnd, spans
    <3>4. NoneBehind(f, q, (r.pos + 1) - 1)
      BY <1>1, <1>2, <2>10, <2>12, <3>2 DEF NoneBehind, spans
    <3>5. Scanning(f, q)
      BY <1>1, <1>2, <1>7, <2>6, <2>10, <3>2, <3>3, <3>4 DEF Scanning, EndKnown
    <3> QED
      BY <2>1, <2>10, <2>11, <3>1, <3>2, <3>5 DEF Follows, SearchCall, step
  <2>14. CASE ~accepts /\ next.to = DeadState
    <3>1. step.r = Return(r, Nil)
      BY <2>1, <2>14
    <3>2. FiltersKeepMatches(n) /\ ~Full(f) => spans = {}
      <4> SUFFICES ASSUME FiltersKeepMatches(n), ~Full(f), NEW x \in spans
                   PROVE  FALSE
        OBVIOUS
      <4>1. HasRoom(next.dfa)
        BY <2>10, RoomOfFull
      <4>2. x[2] > r.pos /\ Accepted(n, U, r.s, p0, x[2])
        BY <2>12, <4>1
      <4>3. x[2] \in r.pos + 1..Len(r.s)
        BY <1>1, <1>2, <4>2
      <4> QED
        BY <2>7, <2>14, <4>1, <4>2, <4>3
    <3>3. SearchCall(f, Return(r, Nil))
      <4>1. r.pos \in 0..Len(r.s)
        BY <1>1, <1>2
      <4> QED
        BY <1>2, <1>7, <2>10, <2>11, <3>2, <4>1, GivesUp DEF spans
    <3>4. Full(f) => Full(e)
      BY <2>6, <2>10, <2>14 DEF Full, Automata
    <3> QED
      BY <2>1, <2>10, <2>11, <3>1, <3>3, <3>4, ReturnIs DEF Follows, step
  <2>15. CASE ~accepts /\ next.to # DeadState
    <3> DEFINE q == [r EXCEPT !.st = next.to, !.pos = r.pos + 1]
    <3>1. step.r = q
      BY <2>1, <2>15
    <3>2. /\ IsCall(q) /\ q.ph = "scan" /\ q.s = r.s /\ q.from = r.from /\ q.pos = r.pos + 1
          /\ q.st = next.to /\ q.firstEnd = NoPos /\ q.start = NoPos /\ q.end = NoPos
      BY <1>2, <1>7 DEF IsCall, CallField
    <3> HIDE DEF q
    <3>3. NoneBehind(f, q, r.pos + 1)
      <4> SUFFICES ASSUME FiltersKeepMatches(n), HasRoom(next.dfa), NEW x \in spans
                   PROVE  x[2] > r.pos + 1
        BY <2>10, <3>2 DEF NoneBehind, spans
      <4>1. x[2] > r.pos /\ Accepted(n, U, r.s, p0, x[2])
        BY <2>12
      <4>2. x[2] # r.pos + 1
        BY <2>7, <2>15, <4>1
      <4> QED
        BY <1>1, <1>2, <4>1, <4>2
    <3>4. ScanBegan(f, q, p0)
      BY <2>7, <2>9, <2>10, <3>2 DEF ScanBegan, spans
    <3>5. Scanning(f, q)
      BY <1>1, <1>2, <1>7, <2>3, <2>6, <2>10, <3>2, <3>3, <3>4 DEF Scanning
    <3> QED
      BY <2>1, <2>10, <2>11, <3>1, <3>2, <3>5 DEF Follows, SearchCall, step
  <2> QED
    BY <2>13, <2>14, <2>15
<1> QED
  BY <1>1, <1>2, <1>3, <1>5, <1>6, <1>7

\* The start the second pass hands on is right, unless an anchor or a full reversed
\* automaton has misled it.
RightStart(e, r, start) ==
  ~Compiled[e.pat].hasAssertions =>
    /\ StartsAt(e, r, start)
    /\ HasRoom(e.reverse) => \A i \in r.from..r.firstEnd : StartsAt(e, r, i) => start <= i

LEMMA EnterLongestFits ==
  ASSUME NEW e, IsEngine(e), NEW r, IsCall(r), EndKnown(e, r),
         NEW start \in r.from..r.firstEnd, RightStart(e, r, start)
  PROVE  LET q == EnterLongest(e, r, start)
         IN  /\ SearchCall(e, q) /\ q.ph = "longest" /\ q.s = r.s /\ q.from = r.from
<1> DEFINE n    == e.pat
           F    == Compiled[n].forward
           q    == EnterLongest(e, r, start)
           accepts == Accepts(Compiled[n], e.forward, RootState, r.s, start)
           end  == IF accepts THEN start ELSE NoPos
<1>1. /\ n \in Expression /\ r.s \in Input /\ r.from \in 0..Len(r.s) /\ Len(r.s) \in Nat
      /\ r.firstEnd \in r.from..Len(r.s)
  BY SpansFacts DEF EndKnown
<1>2. start \in 0..Len(r.s) /\ start \in start..Len(r.s) /\ start \in Nat
  BY <1>1
<1>3. /\ IsCall(q) /\ q.ph = "longest" /\ q.s = r.s /\ q.from = r.from /\ q.pos = start
      /\ q.st = RootState /\ q.firstEnd = r.firstEnd /\ q.start = start /\ q.end = end
  BY DEF IsCall, CallField, EnterLongest
<1>4. accepts <=> <<start, start>> \in Spans[n][r.s]
  BY <1>1, <1>2, ForwardRootAccepts DEF IsEngine
<1> HIDE DEF q, accepts
<1>5. EndKnown(e, q)
  BY <1>3 DEF EndKnown, NoneBehind, IsEnd
<1>6. StartKnown(e, q)
  BY <1>3 DEF StartKnown, RightStart, StartsAt
<1>7. Stands(e.forward, RootState, Residual(n, F, r.s, start)[start])
  <2>1. Residual(n, F, r.s, start)[start] = F
    BY <1>1, <1>2, RootsAreTrees, ResidualStep
  <2> QED
    BY <2>1, RootStands DEF IsEngine
<1>8. q.end # NoPos => q.end \in start..start /\ EndsAt(e, q, q.end)
  BY <1>2, <1>3, <1>4 DEF EndsAt
<1>9. \A j \in start..start : EndsAt(e, q, j) => q.end # NoPos /\ j <= q.end
  BY <1>2, <1>3, <1>4 DEF EndsAt, NoPos
<1>10. Extending(e, q)
  BY <1>2, <1>3, <1>5, <1>6, <1>7, <1>8, <1>9 DEF Extending
<1> QED
  BY <1>3, <1>10 DEF SearchCall, q

\* The second pass finds a start, unless an anchor or a full automaton misleads it:
\* the end it begins at is that of a match.
LEMMA StartIsFound ==
  ASSUME NEW e, IsEngine(e), NEW r, IsCall(r), Backing(e, r),
         ~Compiled[e.pat].hasAssertions, HasRoom(e.reverse),
         \A i \in r.from..r.pos - 1 : ~StartsAt(e, r, i)
  PROVE  r.start # NoPos \/ EmptyAtEnd(e, r)
<1> DEFINE n     == e.pat
           spans == SpansFrom(n, r.s, r.from)
<1>1. /\ n \in Expression /\ r.s \in Input /\ r.from \in 0..Len(r.s) /\ Len(r.s) \in Nat
      /\ \A x \in spans : /\ x = <<x[1], x[2]>> /\ x[1] \in Nat /\ x[2] \in Nat
                          /\ x[1] <= x[2] /\ x[2] <= Len(r.s) /\ r.from <= x[1]
      /\ spans \subseteq Spans[n][r.s]
  BY SpansFacts
<1>2. /\ r.firstEnd \in r.from..Len(r.s) /\ r.firstEnd \in 0..Len(r.s)
      /\ r.pos \in r.from..r.firstEnd
  BY <1>1 DEF Backing, EndKnown
<1>3. EmptyAtEnd(e, r) <=> StartsAt(e, r, r.firstEnd)
  BY <1>1, <1>2, ReverseRootAccepts DEF EmptyAtEnd, StartsAt, IsEngine
<1> HIDE DEF spans
<1>4. PICK x \in spans : x[2] = r.firstEnd
  BY DEF Backing, EndKnown, IsEnd, spans
<1>5. StartsAt(e, r, x[1]) /\ x[1] \in r.from..r.firstEnd
  <2>1. x \in Spans[n][r.s] /\ x = <<x[1], r.firstEnd>>
    BY <1>1, <1>4
  <2>2. x[1] \in r.from..r.firstEnd
    BY <1>1, <1>2, <1>4
  <2> QED
    BY <2>1, <2>2 DEF StartsAt
<1>6. CASE x[1] = r.firstEnd
  BY <1>3, <1>5, <1>6
<1>7. CASE x[1] # r.firstEnd
  <2>1. x[1] \notin r.from..r.pos - 1
    BY <1>5
  <2>2. x[1] \in r.pos..r.firstEnd - 1
    BY <1>1, <1>2, <1>5, <1>7, <2>1
  <2> QED
    BY <1>5, <2>2 DEF Backing
<1> QED
  BY <1>6, <1>7

\* What follows the second pass, when nothing is left before its position.
LEMMA EndBackFits ==
  ASSUME NEW e, IsEngine(e), NEW f, IsEngine(f),
         f.pat = e.pat, f.forward = e.forward, f.unanchored = e.unanchored,
         HasRoom(f.reverse) => HasRoom(e.reverse),
         NEW r, IsCall(r), Backing(e, r),
         ~Compiled[e.pat].hasAssertions /\ HasRoom(f.reverse) =>
           \A i \in r.from..r.pos - 1 : ~StartsAt(e, r, i)
  PROVE  LET q == EndBack(e, r)
         IN  /\ SearchCall(f, q) /\ IsCall(q) /\ q.ph # "begin"
             /\ q.s = r.s /\ q.from = r.from
<1> DEFINE n     == e.pat
           q     == EndBack(e, r)
           spans == SpansFrom(n, r.s, r.from)
<1>1. /\ n \in Expression /\ r.s \in Input /\ r.from \in 0..Len(r.s) /\ Len(r.s) \in Nat
      /\ \A x \in spans : /\ x = <<x[1], x[2]>> /\ x[1] \in Nat /\ x[2] \in Nat
                          /\ x[1] <= x[2] /\ x[2] <= Len(r.s) /\ r.from <= x[1]
      /\ spans \subseteq Spans[n][r.s]
  BY SpansFacts
<1>2. /\ r.firstEnd \in r.from..Len(r.s) /\ r.firstEnd \in 0..Len(r.s)
      /\ r.pos \in r.from..r.firstEnd /\ r.end = NoPos
      /\ r.start = NoPos \/ r.start \in r.pos..r.firstEnd
  BY <1>1 DEF Backing, EndKnown
<1>3. EndKnown(f, r)
  BY DEF Backing, EndKnown, NoneBehind, IsEnd
<1>4. \A start : EnterLongest(e, r, start) = EnterLongest(f, r, start)
  BY DEF EnterLongest
<1>5. ASSUME ~Compiled[n].hasAssertions, HasRoom(f.reverse),
             NEW i \in r.from..r.firstEnd - 1, StartsAt(e, r, i)
      PROVE  r.start # NoPos /\ r.start <= i
  <2>1. i \notin r.from..r.pos - 1
    BY <1>5
  <2>2. i \in r.pos..r.firstEnd - 1
    BY <1>1, <1>2, <1>5, <2>1
  <2> QED
    BY <1>5, <2>2 DEF Backing
<1> HIDE DEF spans, q
<1>6. CASE r.start # NoPos
  <2>1. q = EnterLongest(f, r, r.start)
    BY <1>4, <1>6 DEF EndBack, q
  <2>2. r.start \in r.from..r.firstEnd
    BY <1>1, <1>2, <1>6
  <2>3. RightStart(f, r, r.start)
    <3> SUFFICES ASSUME ~Compiled[n].hasAssertions
                 PROVE  /\ StartsAt(f, r, r.start)
                        /\ HasRoom(f.reverse) =>
                             \A i \in r.from..r.firstEnd : StartsAt(f, r, i) => r.start <= i
      BY DEF RightStart
    <3>1. StartsAt(f, r, r.start)
      BY <1>6 DEF Backing, StartsAt
    <3>2. ASSUME HasRoom(f.reverse), NEW i \in r.from..r.firstEnd, StartsAt(f, r, i)
          PROVE  r.start <= i
      <4>1. CASE i = r.firstEnd
        BY <1>1, <1>2, <1>6, <4>1
      <4>2. CASE i # r.firstEnd
        <5>1. i \in r.from..r.firstEnd - 1
          BY <1>1, <1>2, <4>2
        <5>2. StartsAt(e, r, i)
          BY <3>2 DEF StartsAt
        <5> QED
          BY <1>5, <3>2, <5>1, <5>2
      <4> QED
        BY <4>1, <4>2
    <3> QED
      BY <3>1, <3>2
  <2>4. SearchCall(f, q) /\ q.ph = "longest" /\ q.s = r.s /\ q.from = r.from
    BY <1>3, <2>1, <2>2, <2>3, EnterLongestFits
  <2> QED
    BY <2>4 DEF SearchCall, q
<1>7. ASSUME ~Compiled[n].hasAssertions
      PROVE  EmptyAtEnd(e, r) <=> StartsAt(e, r, r.firstEnd)
  BY <1>1, <1>2, <1>7, ReverseRootAccepts DEF EmptyAtEnd, StartsAt, IsEngine
<1>8. CASE r.start = NoPos /\ EmptyAtEnd(e, r)
  <2>1. q = EnterLongest(f, r, r.firstEnd)
    BY <1>4, <1>8 DEF EndBack, q
  <2>2. r.firstEnd \in r.from..r.firstEnd
    BY <1>1, <1>2
  <2>3. RightStart(f, r, r.firstEnd)
    <3> SUFFICES ASSUME ~Compiled[n].hasAssertions
                 PROVE  /\ StartsAt(f, r, r.firstEnd)
                        /\ HasRoom(f.reverse) =>
                             \A i \in r.from..r.firstEnd : StartsAt(f, r, i) => r.firstEnd <= i
      BY DEF RightStart
    <3>1. StartsAt(f, r, r.firstEnd)
      BY <1>7, <1>8 DEF StartsAt
    <3>2. ASSUME HasRoom(f.reverse), NEW i \in r.from..r.firstEnd, StartsAt(f, r, i)
          PROVE  r.firstEnd <= i
      <4>1. i \notin r.from..r.firstEnd - 1
        BY <1>5, <1>8, <3>2 DEF StartsAt
      <4> QED
        BY <1>1, <1>2, <4>1
    <3> QED
      BY <3>1, <3>2
  <2>4. SearchCall(f, q) /\ q.ph = "longest" /\ q.s = r.s /\ q.from = r.from
    BY <1>3, <2>1, <2>2, <2>3, EnterLongestFits
  <2> QED
    BY <2>4 DEF SearchCall, q
<1>9. CASE r.start = NoPos /\ ~EmptyAtEnd(e, r)
  <2>1. q = Return(r, Nil)
    BY <1>9 DEF EndBack, q
  <2>2. FiltersKeepMatches(n) /\ ~Full(f) /\ ~Compiled[n].hasAssertions => spans = {}
    <3> SUFFICES ASSUME ~Full(f), ~Compiled[n].hasAssertions
                 PROVE  FALSE
      OBVIOUS
    <3>1. HasRoom(e.reverse) /\ \A i \in r.from..r.pos - 1 : ~StartsAt(e, r, i)
      BY RoomOfFull
    <3> QED
      BY <1>9, <3>1, StartIsFound
  <2>3. r.pos \in 0..Len(r.s)
    BY <1>1, <1>2
  <2>4. SearchCall(f, q)
    BY <1>2, <1>9, <2>1, <2>2, <2>3, GivesUp DEF spans
  <2> QED
    BY <2>1, <2>4, ReturnIs DEF q
<1> QED
  BY <1>6, <1>8, <1>9

\* When the second pass comes to the dead state no start is left before it.
LEMMA NothingBefore ==
  ASSUME NEW e, IsEngine(e), NEW r, IsCall(r), Backing(e, r), r.pos > r.from,
         ~Compiled[e.pat].hasAssertions,
         ReadAt(Compiled[e.pat], e.reverse, r, r.pos - 1).to = DeadState,
         HasRoom(ReadAt(Compiled[e.pat], e.reverse, r, r.pos - 1).dfa),
         NEW i \in r.from..r.pos - 1
  PROVE  ~StartsAt(e, r, i)
<1> DEFINE n == e.pat
           B == Compiled[n].reverse
           at == r.pos - 1
<1>1. /\ n \in Expression /\ r.s \in Input /\ r.from \in 0..Len(r.s) /\ Len(r.s) \in Nat
  BY SpansFacts
<1>2. r.firstEnd \in r.from..Len(r.s) /\ r.pos \in r.from..r.firstEnd
  BY DEF Backing, EndKnown
<1>3. /\ at \in 0..r.firstEnd - 1 /\ at + 1 = r.pos /\ r.firstEnd \in 0..Len(r.s)
      /\ i \in 0..at /\ i \in 0..Len(r.s) /\ r.firstEnd \in i..Len(r.s)
  BY <1>1, <1>2
<1>4. AutomatonOf(n, B, e.reverse) /\ B \in Tree
  BY <1>1, RootsAreTrees DEF IsEngine
<1>5. Stands(e.reverse, r.st, ResidualBack(n, B, r.s, r.firstEnd)[at + 1])
  BY <1>3 DEF Backing
<1>6. LET next == ReadAt(Compiled[n], e.reverse, r, at)
      IN  HasRoom(next.dfa) /\ next.to = DeadState
            => \A k \in 0..at : ~AcceptedBack(n, B, r.s, k, r.firstEnd)
  BY <1>1, <1>3, <1>4, <1>5, ReadBackwards
<1>7. ~AcceptedBack(n, B, r.s, i, r.firstEnd)
  BY <1>3, <1>6
<1> QED
  BY <1>1, <1>3, <1>7, ReverseAccepts DEF StartsAt

LEMMA ScanBackFits ==
  ASSUME NEW e, IsEngine(e), NEW r, IsCall(r), r.ph = "back", Backing(e, r)
  PROVE  LET step == ScanBack(e, r)
         IN  Follows(e, r, step.e, step.r) /\ SearchCall(step.e, step.r)
<1> DEFINE n    == e.pat
           p    == Compiled[n]
           B    == Compiled[n].reverse
           at   == r.pos - 1
           next == ReadAt(p, e.reverse, r, at)
           f    == [e EXCEPT !.reverse = next.dfa]
           step == ScanBack(e, r)
<1>1. /\ n \in Expression /\ r.s \in Input /\ r.from \in 0..Len(r.s) /\ Len(r.s) \in Nat
  BY SpansFacts
<1>2. /\ EndKnown(e, r)
      /\ r.firstEnd \in r.from..Len(r.s)
      /\ r.pos \in r.from..r.firstEnd /\ r.end = NoPos /\ r.st \in State(e.reverse)
      /\ r.start = NoPos \/ r.start \in r.pos..r.firstEnd
  BY DEF Backing, EndKnown
<1>3. CASE r.pos <= r.from
  <2>1. step.e = e /\ step.r = EndBack(e, r)
    BY <1>3 DEF ScanBack
  <2>2. r.from..r.pos - 1 = {}
    BY <1>1, <1>2, <1>3
  <2>3. SearchCall(e, EndBack(e, r)) /\ IsCall(EndBack(e, r)) /\ EndBack(e, r).ph # "begin"
        /\ EndBack(e, r).s = r.s /\ EndBack(e, r).from = r.from
    BY <2>2, EndBackFits
  <2> QED
    BY <2>1, <2>3 DEF Follows
<1>4. CASE r.pos > r.from
  <2> DEFINE accepts == Accepts(p, next.dfa, next.to, r.s, at)
             read    == [r EXCEPT !.st = next.to, !.pos = at]
  <2>1. /\ step.e = f
        /\ step.r = IF next.to = DeadState THEN EndBack(e, r)
                    ELSE IF accepts THEN StartFound(read, at) ELSE read
    BY <1>1, <1>2, <1>4 DEF ScanBack
  <2>2. /\ at \in 0..Len(r.s) - 1 /\ at \in 0..r.firstEnd - 1 /\ at + 1 = r.pos /\ at \in Nat
        /\ r.firstEnd \in 0..Len(r.s) /\ at \in r.from..r.firstEnd - 1
        /\ at \in r.from..r.firstEnd /\ at \in at..r.firstEnd
    BY <1>1, <1>2, <1>4
  <2>3. AutomatonOf(n, B, e.reverse) /\ B \in Tree
    BY <1>1, RootsAreTrees DEF IsEngine
  <2>4. /\ AutomatonOf(n, B, next.dfa) /\ next.to \in State(next.dfa)
        /\ HasRoom(next.dfa) => HasRoom(e.reverse)
        /\ next.to = DeadState => (HasRoom(e.reverse) => HasRoom(next.dfa))
    BY <1>1, <1>2, <2>2, <2>3, ReadFits
  <2>5. ASSUME ~Compiled[n].hasAssertions
        PROVE  /\ Stands(next.dfa, next.to, ResidualBack(n, B, r.s, r.firstEnd)[at])
               /\ accepts => AcceptedBack(n, B, r.s, at, r.firstEnd)
               /\ HasRoom(next.dfa) /\ AcceptedBack(n, B, r.s, at, r.firstEnd) => accepts
               /\ HasRoom(next.dfa) /\ next.to = DeadState
                    => \A k \in 0..at : ~AcceptedBack(n, B, r.s, k, r.firstEnd)
    <3>1. Stands(e.reverse, r.st, ResidualBack(n, B, r.s, r.firstEnd)[at + 1])
      BY <2>2, <2>5 DEF Backing
    <3> QED
      BY <1>1, <2>2, <2>3, <2>5, <3>1, ReadBackwards
  <2>6. ASSUME ~Compiled[n].hasAssertions, NEW i \in 0..r.firstEnd
        PROVE  AcceptedBack(n, B, r.s, i, r.firstEnd) <=> StartsAt(e, r, i)
    <3>1. i \in 0..Len(r.s) /\ r.firstEnd \in i..Len(r.s)
      BY <1>1, <2>2
    <3> QED
      BY <1>1, <2>6, <3>1, ReverseAccepts DEF StartsAt
  <2> HIDE DEF next, accepts, step
  <2>7. /\ f.reverse = next.dfa /\ f.forward = e.forward /\ f.unanchored = e.unanchored
        /\ f.pat = n
    BY DEF IsEngine
  <2>8. IsEngine(f) /\ (Full(e) => Full(f))
    BY <2>4, EngineGrows
  <2> HIDE DEF f
  <2>9. CASE next.to = DeadState
    <3>1. ASSUME ~Compiled[n].hasAssertions, HasRoom(f.reverse), NEW i \in r.from..r.pos - 1
          PROVE  ~StartsAt(e, r, i)
      BY <1>4, <2>7, <2>9, <3>1, NothingBefore DEF next
    <3>2. SearchCall(f, EndBack(e, r)) /\ IsCall(EndBack(e, r)) /\ EndBack(e, r).ph # "begin"
          /\ EndBack(e, r).s = r.s /\ EndBack(e, r).from = r.from
      BY <2>4, <2>7, <2>8, <3>1, EndBackFits
    <3>3. Full(f) => Full(e)
      BY <2>4, <2>7, <2>9 DEF Full, Automata
    <3> QED
      BY <2>1, <2>7, <2>8, <2>9, <3>2, <3>3 DEF Follows, step
  <2>10. CASE next.to # DeadState
    <3> DEFINE q == IF accepts THEN StartFound(read, at) ELSE read
               start == IF accepts THEN at ELSE r.start
    <3>1. step.r = q
      BY <2>1, <2>10
    <3>2. /\ IsCall(q) /\ q.ph = "back" /\ q.s = r.s /\ q.from = r.from /\ q.pos = at
          /\ q.st = next.to /\ q.firstEnd = r.firstEnd /\ q.start = start /\ q.end = NoPos
      BY <1>2 DEF IsCall, CallField, StartFound
    <3> HIDE DEF q
    <3>3. EndKnown(f, q)
      BY <1>2, <2>7, <3>2 DEF EndKnown, NoneBehind, IsEnd
    <3>4. q.start = NoPos \/ q.start \in at..r.firstEnd
      BY <1>1, <1>2, <2>2, <3>2
    <3>5. ASSUME ~Compiled[n].hasAssertions
          PROVE  /\ Stands(f.reverse, q.st, ResidualBack(n, B, r.s, r.firstEnd)[at])
                 /\ q.start # NoPos => StartsAt(f, q, q.start)
                 /\ HasRoom(f.reverse) =>
                      \A i \in at..r.firstEnd - 1 :
                        StartsAt(f, q, i) => q.start # NoPos /\ q.start <= i
      <4>1. Stands(f.reverse, q.st, ResidualBack(n, B, r.s, r.firstEnd)[at])
        BY <2>5, <2>7, <3>2, <3>5
      <4>2. \A i : StartsAt(f, q, i) <=> StartsAt(e, r, i)
        BY <2>7, <3>2 DEF StartsAt
      <4>3. at \in 0..r.firstEnd
        BY <2>2
      <4>4. q.start # NoPos => StartsAt(f, q, q.start)
        <5>1. CASE accepts
          BY <2>5, <2>6, <3>2, <3>5, <4>2, <4>3, <5>1
        <5>2. CASE ~accepts
          BY <3>2, <3>5, <4>2, <5>2 DEF Backing
        <5> QED
          BY <5>1, <5>2
      <4>5. ASSUME HasRoom(f.reverse), NEW i \in at..r.firstEnd - 1, StartsAt(f, q, i)
            PROVE  q.start # NoPos /\ q.start <= i
        <5>1. CASE accepts
          BY <1>1, <1>2, <2>2, <3>2, <4>5, <5>1 DEF NoPos
        <5>2. CASE ~accepts
          <6>1. i # at
            BY <2>5, <2>6, <2>7, <3>5, <4>2, <4>3, <4>5, <5>2
          <6>2. i \in r.pos..r.firstEnd - 1
            BY <1>1, <1>2, <2>2, <6>1
          <6>3. HasRoom(e.reverse) /\ StartsAt(e, r, i)
            BY <2>4, <2>7, <4>2, <4>5
          <6> QED
            BY <3>2, <3>5, <5>2, <6>2, <6>3 DEF Backing
        <5> QED
          BY <5>1, <5>2
      <4> QED
        BY <4>1, <4>4, <4>5
    <3>6. Backing(f, q)
      BY <2>2, <2>4, <2>7, <3>2, <3>3, <3>4, <3>5 DEF Backing
    <3> QED
      BY <2>1, <2>7, <2>8, <3>1, <3>2, <3>6 DEF Follows, SearchCall, step
  <2> QED
    BY <2>9, <2>10
<1> QED
  BY <1>1, <1>2, <1>3, <1>4

\* The answer of the third pass.
LEMMA LongestAnswers ==
  ASSUME NEW e, IsEngine(e), NEW r, IsCall(r), Extending(e, r),
         r.pos >= Len(r.s) \/ r.st = DeadState
  PROVE  SearchCall(e, Return(r, <<r.start, r.end>>))
<1> DEFINE n     == e.pat
           F     == Compiled[n].forward
           spans == SpansFrom(n, r.s, r.from)
           loc   == <<r.start, r.end>>
           q     == Return(r, loc)
<1>1. /\ n \in Expression /\ r.s \in Input /\ r.from \in 0..Len(r.s) /\ Len(r.s) \in Nat
      /\ \A x \in spans : /\ x = <<x[1], x[2]>> /\ x[1] \in Nat /\ x[2] \in Nat
                          /\ x[1] <= x[2] /\ x[2] <= Len(r.s) /\ r.from <= x[1]
      /\ \A i, j \in Nat : r.from <= i /\ <<i, j>> \in Spans[n][r.s] => <<i, j>> \in spans
      /\ spans \subseteq Spans[n][r.s]
  BY SpansFacts
<1>2. /\ r.firstEnd \in r.from..Len(r.s) /\ r.start \in r.from..r.firstEnd
      /\ r.pos \in r.start..Len(r.s)
      /\ r.end # NoPos => r.end \in r.start..r.pos /\ EndsAt(e, r, r.end)
  BY DEF Extending, EndKnown, StartKnown
<1>3. /\ IsCall(q) /\ q.ph = "done" /\ q.loc = loc
      /\ q.s = r.s /\ q.from = r.from /\ q.pos = r.pos
      /\ q.firstEnd = r.firstEnd /\ q.start = r.start /\ q.end = r.end
  BY ReturnIs
<1> HIDE DEF q, spans
<1>4. /\ q.pos \in 0..Len(r.s) /\ r.start \in r.from..Len(r.s)
      /\ {q.firstEnd, q.start, q.end} \subseteq {NoPos} \cup r.from..Len(r.s)
  BY <1>1, <1>2, <1>3
<1>5. r.end # NoPos => loc \in spans
  BY <1>1, <1>2 DEF EndsAt
<1>6. ASSUME HasRoom(e.forward), NEW j \in r.start..Len(r.s), EndsAt(e, r, j)
      PROVE  r.end # NoPos /\ j <= r.end
  <2>1. j \in r.start..r.pos
    <3>1. CASE r.pos >= Len(r.s)
      BY <1>1, <1>2, <3>1
    <3>2. CASE r.st = DeadState
      <4> SUFFICES ASSUME j > r.pos
                   PROVE  FALSE
        BY <1>1, <1>2
      <4>1. r.start \in 0..Len(r.s) /\ r.pos \in r.start..Len(r.s) /\ j \in r.pos..Len(r.s)
            /\ j \in r.start..Len(r.s)
        BY <1>1, <1>2
      <4>2. Residual(n, F, r.s, r.start)[r.pos] = FalseTree
        BY <1>6, <3>2, DeadIsFalse DEF Extending, IsEngine
      <4>3. ~Accepted(n, F, r.s, r.start, j)
        BY <1>1, <4>1, <4>2, RootsAreTrees, NothingAhead
      <4> QED
        BY <1>1, <1>6, <4>1, <4>3, ForwardAccepts DEF EndsAt
    <3> QED
      BY <3>1, <3>2
  <2> QED
    BY <1>6, <2>1 DEF Extending
<1>7. r.firstEnd \in r.start..Len(r.s)
  BY <1>1, <1>2
<1>8. ~Compiled[n].hasAssertions => EndsAt(e, r, r.firstEnd)
  BY DEF Extending, StartKnown, StartsAt, EndsAt
<1>9. IsAnswer(e, q)
  BY <1>3, <1>4, <1>5 DEF IsAnswer, spans
<1>10. EndNotLost(e, q)
  <2>1. loc[2] = r.end
    OBVIOUS
  <2> QED
    BY <1>3, <1>6, <1>7, <1>8, <2>1 DEF EndNotLost
<1>11. ExactAnswer(e, q)
  <2> SUFFICES ASSUME FiltersKeepMatches(n), ~Full(e), ~Compiled[n].hasAssertions
               PROVE  loc = FirstEnding(n, r.s, r.from)
    BY <1>3 DEF ExactAnswer
  <2>1. HasRoom(e.forward) /\ HasRoom(e.unanchored) /\ HasRoom(e.reverse)
    BY RoomOfFull
  <2> DEFINE x == <<r.start, r.firstEnd>>
  <2>2. x \in spans
    BY <1>1, <1>2, <1>8 DEF EndsAt
  <2>3. \A y \in spans : r.firstEnd <= y[2]
    <3>1. \A y \in spans : y[2] > r.firstEnd - 1
      BY <2>1 DEF Extending, EndKnown, NoneBehind, spans
    <3> QED
      BY <1>1, <1>2, <3>1
  <2>4. ASSUME NEW y \in spans, y[2] = r.firstEnd
        PROVE  r.start <= y[1]
    <3>1. y[1] \in r.from..r.firstEnd
      BY <1>1, <1>2, <2>4
    <3>2. StartsAt(e, r, y[1])
      <4>1. y = <<y[1], r.firstEnd>> /\ y \in Spans[n][r.s]
        BY <1>1, <2>4
      <4> QED
        BY <4>1 DEF StartsAt
    <3> QED
      BY <2>1, <3>1, <3>2 DEF Extending, StartKnown
  <2>5. r.end # NoPos /\ loc \in spans
    BY <1>5, <1>6, <1>7, <1>8, <2>1
  <2>6. ASSUME NEW y \in spans, y[1] = r.start
        PROVE  y[2] <= r.end
    <3>1. y[2] \in r.start..Len(r.s)
      BY <1>1, <1>2, <2>6
    <3>2. EndsAt(e, r, y[2])
      <4>1. y = <<r.start, y[2]>> /\ y \in Spans[n][r.s]
        BY <1>1, <2>6
      <4> QED
        BY <4>1 DEF EndsAt
    <3> QED
      BY <1>6, <2>1, <3>1, <3>2
  <2>7. x[1] = r.start /\ x[2] = r.firstEnd /\ loc[1] = r.start /\ loc[2] = r.end
    OBVIOUS
  <2> HIDE DEF x, loc
  <2>8. \A y \in spans : x[2] <= y[2] /\ (y[2] = x[2] => x[1] <= y[1])
    BY <2>3, <2>4, <2>7
  <2>9. \A y \in spans : y[1] = x[1] => y[2] <= loc[2]
    BY <2>6, <2>7
  <2> QED
    BY <1>1, <2>2, <2>5, <2>7, <2>8, <2>9, FirstEndingIs DEF spans
<1>12. spans # {}
  BY DEF Extending, EndKnown, IsEnd, spans
<1>13. Answered(e, q)
  BY <1>3, <1>4, <1>9, <1>10, <1>11, <1>12 DEF Answered, spans
<1> QED
  BY <1>3, <1>13 DEF SearchCall, q

LEMMA ScanLongestFits ==
  ASSUME NEW e, IsEngine(e), NEW r, IsCall(r), r.ph = "longest", Extending(e, r)
  PROVE  LET step == ScanLongest(e, r)
         IN  Follows(e, r, step.e, step.r) /\ SearchCall(step.e, step.r)
<1> DEFINE n    == e.pat
           p    == Compiled[n]
           F    == Compiled[n].forward
           next == ReadAt(p, e.forward, r, r.pos)
           f    == [e EXCEPT !.forward = next.dfa]
           step == ScanLongest(e, r)
<1>1. /\ n \in Expression /\ r.s \in Input /\ r.from \in 0..Len(r.s) /\ Len(r.s) \in Nat
  BY SpansFacts
<1>2. /\ r.firstEnd \in r.from..Len(r.s) /\ r.start \in r.from..r.firstEnd
      /\ r.pos \in r.start..Len(r.s)
      /\ r.end # NoPos => r.end \in r.start..r.pos /\ EndsAt(e, r, r.end)
      /\ Stands(e.forward, r.st, Residual(n, F, r.s, r.start)[r.pos])
      /\ EndKnown(e, r) /\ StartKnown(e, r)
  BY DEF Extending, EndKnown, StartKnown
<1>3. CASE r.pos >= Len(r.s) \/ r.st = DeadState
  <2>1. step.e = e /\ step.r = Return(r, <<r.start, r.end>>)
    BY <1>3 DEF ScanLongest
  <2> QED
    BY <1>3, <2>1, LongestAnswers, ReturnIs DEF Follows
<1>4. CASE ~(r.pos >= Len(r.s) \/ r.st = DeadState)
  <2> DEFINE accepts == Accepts(p, next.dfa, next.to, r.s, r.pos + 1)
             read    == Advance(r, next.to)
             q       == IF accepts THEN LongerFound(read, r.pos + 1) ELSE read
             end     == IF accepts THEN r.pos + 1 ELSE r.end
  <2>1. step.e = f /\ step.r = q
    BY <1>4 DEF ScanLongest
  <2>2. /\ r.start \in 0..Len(r.s) /\ r.pos \in r.start..Len(r.s) - 1 /\ r.pos \in 0..Len(r.s) - 1
        /\ r.pos + 1 \in r.start..Len(r.s) /\ r.pos + 1 \in r.start..r.pos + 1
    BY <1>1, <1>2, <1>4
  <2>3. AutomatonOf(n, F, e.forward) /\ F \in Tree /\ r.st \in State(e.forward)
    BY <1>1, <1>2, RootsAreTrees DEF IsEngine, Stands
  <2>4. /\ AutomatonOf(n, F, next.dfa) /\ next.to \in State(next.dfa)
        /\ HasRoom(next.dfa) => HasRoom(e.forward)
    BY <1>1, <2>2, <2>3, ReadFits
  <2>5. /\ Stands(next.dfa, next.to, Residual(n, F, r.s, r.start)[r.pos + 1])
        /\ accepts => Accepted(n, F, r.s, r.start, r.pos + 1)
        /\ HasRoom(next.dfa) /\ Accepted(n, F, r.s, r.start, r.pos + 1) => accepts
    BY <1>1, <1>2, <2>2, <2>3, ReadAhead
  <2>6. Accepted(n, F, r.s, r.start, r.pos + 1) <=> EndsAt(e, r, r.pos + 1)
    BY <1>1, <2>2, ForwardAccepts DEF EndsAt
  <2> HIDE DEF next, accepts, step
  <2>7. /\ f.reverse = e.reverse /\ f.forward = next.dfa /\ f.unanchored = e.unanchored
        /\ f.pat = n
    BY DEF IsEngine
  <2>8. IsEngine(f) /\ (Full(e) => Full(f))
    BY <2>4, EngineGrows
  <2>9. /\ IsCall(q) /\ q.ph = "longest" /\ q.s = r.s /\ q.from = r.from /\ q.pos = r.pos + 1
        /\ q.st = next.to /\ q.firstEnd = r.firstEnd /\ q.start = r.start /\ q.end = end
    BY <1>2 DEF IsCall, CallField, LongerFound, Advance
  <2> HIDE DEF f, q
  <2>10. EndKnown(f, q) /\ StartKnown(f, q)
    BY <1>2, <2>7, <2>9 DEF EndKnown, NoneBehind, IsEnd, StartKnown, StartsAt
  <2>11. \A j : EndsAt(f, q, j) <=> EndsAt(e, r, j)
    BY <2>7, <2>9 DEF EndsAt
  <2>12. q.end # NoPos => q.end \in r.start..r.pos + 1 /\ EndsAt(f, q, q.end)
    <3>1. CASE accepts
      BY <2>2, <2>5, <2>6, <2>9, <2>11, <3>1
    <3>2. CASE ~accepts
      BY <1>1, <1>2, <2>9, <2>11, <3>2
    <3> QED
      BY <3>1, <3>2
  <2>13. ASSUME HasRoom(f.forward), NEW j \in r.start..r.pos + 1, EndsAt(f, q, j)
         PROVE  q.end # NoPos /\ j <= q.end
    <3>1. CASE accepts
      BY <1>1, <1>2, <2>2, <2>9, <3>1, <2>13 DEF NoPos
    <3>2. CASE ~accepts
      <4>1. j # r.pos + 1
        BY <2>5, <2>6, <2>7, <2>11, <2>13, <3>2
      <4>2. j \in r.start..r.pos /\ HasRoom(e.forward) /\ EndsAt(e, r, j)
        BY <1>1, <1>2, <2>4, <2>7, <2>11, <2>13, <4>1
      <4> QED
        BY <2>9, <3>2, <4>2 DEF Extending
    <3> QED
      BY <3>1, <3>2
  <2>14. Extending(f, q)
    BY <2>2, <2>5, <2>7, <2>9, <2>10, <2>12, <2>13 DEF Extending
  <2> QED
    BY <2>1, <2>7, <2>8, <2>9, <2>14 DEF Follows, SearchCall, step
<1> QED
  BY <1>1, <1>2, <1>3, <1>4

----------------------------------------------------------------------------
(* The steps of Match, where there are no assertions.                      *)

LEMMA MatchBegins ==
  ASSUME NEW e, IsEngine(e), ~Compiled[e.pat].hasAssertions,
         NEW r, IsCall(r), Begun(e, r), r.from = 0
  PROVE  Follows(e, r, e, BeginMatch(e, r)) /\ MatchCall(e, BeginMatch(e, r))
<1> DEFINE n == e.pat
           F == Compiled[n].forward
           q == BeginMatch(e, r)
<1>1. /\ n \in Expression /\ r.s \in Input /\ r.from \in 0..Len(r.s) /\ Len(r.s) \in Nat
  BY SpansFacts
<1>2. q = [r EXCEPT !.ph = "match"]
  BY DEF BeginMatch
<1>3. /\ IsCall(q) /\ q.ph = "match" /\ q.s = r.s /\ q.from = r.from /\ q.pos = 0
      /\ q.st = RootState
  BY <1>2 DEF IsCall, CallField, Begun
<1> HIDE DEF q
<1>4. Stands(e.forward, RootState, Residual(n, F, r.s, 0)[0])
  <2>1. Residual(n, F, r.s, 0)[0] = F
    BY <1>1, RootsAreTrees, ResidualStep
  <2> QED
    BY <2>1, RootStands DEF IsEngine
<1>5. Reading(e, q)
  BY <1>1, <1>3, <1>4 DEF Reading
<1> QED
  BY <1>3, <1>5 DEF Follows, MatchCall, q

LEMMA MatchNextFits ==
  ASSUME NEW e, IsEngine(e), ~Compiled[e.pat].hasAssertions,
         NEW r, IsCall(r), r.ph = "match", Reading(e, r)
  PROVE  LET step == MatchNext(e, r)
         IN  Follows(e, r, step.e, step.r) /\ MatchCall(step.e, step.r)
<1> DEFINE n    == e.pat
           p    == Compiled[n]
           F    == Compiled[n].forward
           next == ReadAt(p, e.forward, r, r.pos)
           f    == [e EXCEPT !.forward = next.dfa]
           step == MatchNext(e, r)
<1>1. /\ n \in Expression /\ r.s \in Input /\ r.from \in 0..Len(r.s) /\ Len(r.s) \in Nat
  BY SpansFacts
<1>2. r.pos \in 0..Len(r.s) /\ Stands(e.forward, r.st, Residual(n, F, r.s, 0)[r.pos])
  BY DEF Reading
<1>3. AutomatonOf(n, F, e.forward) /\ F \in Tree /\ r.st \in State(e.forward)
  BY <1>1, <1>2, RootsAreTrees DEF IsEngine, Stands
<1>4. CASE r.pos >= Len(r.s)
  <2> DEFINE loc == Verdict(IsAccepting(e.forward, r.st))
             q   == Return(r, loc)
  <2>1. step.e = e /\ step.r = q
    BY <1>4 DEF MatchNext
  <2>2. r.pos = Len(r.s) /\ Len(r.s) \in 0..Len(r.s)
    BY <1>1, <1>2, <1>4
  <2>3. Accepts(p, e.forward, r.st, r.s, Len(r.s)) <=> IsAccepting(e.forward, r.st)
    BY DEF Accepts
  <2>4. Null[Residual(n, F, r.s, 0)[Len(r.s)]][Ctx(p, r.s, Len(r.s))]
          <=> <<0, Len(r.s)>> \in Spans[n][r.s]
    <3>1. Accepted(n, F, r.s, 0, Len(r.s))
            = Null[Residual(n, F, r.s, 0)[Len(r.s)]][Ctx(p, r.s, Len(r.s))]
      BY Zenon DEF Accepted
    <3>2. 0 \in 0..Len(r.s)
      BY <1>1
    <3>3. Accepted(n, F, r.s, 0, Len(r.s)) <=> <<0, Len(r.s)>> \in Spans[n][r.s]
      BY <1>1, <2>2, <3>2, ForwardAccepts
    <3> QED
      BY <3>1, <3>3
  <2> DEFINE left == Residual(n, F, r.s, 0)[Len(r.s)]
  <2>5. /\ Accepts(p, e.forward, r.st, r.s, Len(r.s)) => Null[left][Ctx(p, r.s, Len(r.s))]
        /\ HasRoom(e.forward) /\ Null[left][Ctx(p, r.s, Len(r.s))]
             => Accepts(p, e.forward, r.st, r.s, Len(r.s))
    <3>1. Stands(e.forward, r.st, left)
      BY <1>2, <2>2
    <3> HIDE DEF left
    <3> QED
      BY <1>1, <1>3, <2>2, <3>1, AcceptsWhatItStandsFor
  <2>6. /\ IsAccepting(e.forward, r.st) => <<0, Len(r.s)>> \in Spans[n][r.s]
        /\ HasRoom(e.forward) =>
             (IsAccepting(e.forward, r.st) <=> <<0, Len(r.s)>> \in Spans[n][r.s])
    BY <2>3, <2>4, <2>5
  <2>7. MatchAnswer(n, r.s) = Verdict(<<0, Len(r.s)>> \in Spans[n][r.s])
    BY DEF MatchAnswer, Verdict
  <2>8. IsCall(q) /\ q.ph = "done" /\ q.loc = loc /\ q.s = r.s /\ q.from = r.from
    BY ReturnIs
  <2> HIDE DEF q
  <2>9. MatchAnswered(e, q)
    BY <2>6, <2>7, <2>8 DEF MatchAnswered, Verdict
  <2> QED
    BY <2>1, <2>8, <2>9 DEF Follows, MatchCall, q
<1>5. CASE r.pos < Len(r.s)
  <2> DEFINE q == Advance(r, next.to)
  <2>1. step.e = f /\ step.r = q
    BY <1>1, <1>2, <1>5 DEF MatchNext
  <2>2. 0 \in 0..Len(r.s) /\ r.pos \in 0..Len(r.s) - 1 /\ r.pos + 1 \in 0..Len(r.s)
    BY <1>1, <1>2, <1>5
  <2>3. /\ AutomatonOf(n, F, next.dfa)
        /\ HasRoom(next.dfa) => HasRoom(e.forward)
    BY <1>1, <1>3, <2>2, ReadFits
  <2>4. Stands(next.dfa, next.to, Residual(n, F, r.s, 0)[r.pos + 1])
    BY <1>1, <1>2, <1>3, <2>2, ReadAhead
  <2> HIDE DEF next, step
  <2>5. f.forward = next.dfa /\ f.pat = n
    BY DEF IsEngine
  <2>6. IsEngine(f) /\ (Full(e) => Full(f))
    BY <2>3, EngineGrows
  <2>7. /\ IsCall(q) /\ q.ph = "match" /\ q.s = r.s /\ q.from = r.from /\ q.pos = r.pos + 1
        /\ q.st = next.to
    BY DEF IsCall, CallField, Advance
  <2> HIDE DEF f, q
  <2>8. Reading(f, q)
    BY <2>2, <2>4, <2>5, <2>7 DEF Reading
  <2> QED
    BY <2>1, <2>5, <2>6, <2>7, <2>8 DEF Follows, MatchCall, step
<1> QED
  BY <1>1, <1>2, <1>4, <1>5

=============================================================================
