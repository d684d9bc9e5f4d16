-------------------------------- MODULE Sums --------------------------------
(***************************************************************************)
(* Inductions and sums over finite sets, for the proofs about costs, coins *)
(* and work.  The induction theorems of the library take an operator as a  *)
(* parameter; the principles below take the set of the cases that hold or  *)
(* a function instead, and rest on the library's theorems about            *)
(* well-founded orderings.                                                 *)
(***************************************************************************)
EXTENDS Integers, FiniteSetsExt, FiniteSetTheorems, WellFoundedInduction, TLAPS

\* The sum of f[x] over the members x of S.
SumOver(f, S) == MapThenSumSet(LAMBDA x : f[x], S)

---------------------------------------------------------------------------
\* Induction.

\* A nonempty family of subsets of a finite set has a member with no proper
\* subset in the family.
LEMMA MinimalSet ==
    ASSUME NEW U, IsFiniteSet(U), NEW F, F \subseteq SUBSET U, F # {}
    PROVE  \E T \in F : \A V \in F : V \subseteq T => V = T
<1>1. IsWellFoundedOn(StrictSubsetOrdering(U), FiniteSubsetsOf(U))
  BY FS_StrictSubsetOrderingWellFounded
<1>2. FiniteSubsetsOf(U) = SUBSET U
  BY FS_FiniteSubsetsOfFinite
<1>3. PICK T \in F : \A V \in F : ~(<<V, T>> \in StrictSubsetOrdering(U))
  BY <1>1, <1>2, WFMin
<1>4. \A V \in F : V \subseteq T => V = T
  BY <1>3 DEF StrictSubsetOrdering
<1> QED
  BY <1>4

\* Induction on a finite set, one element more at a time: Q holds the subsets
\* for which the claim is shown.
LEMMA SetInduction ==
    ASSUME NEW U, IsFiniteSet(U), NEW Q, {} \in Q,
           \A T \in SUBSET U : \A x \in U \ T : T \in Q => T \cup {x} \in Q
    PROVE  \A T \in SUBSET U : T \in Q
<1> DEFINE bad == {T \in SUBSET U : T \notin Q}
<1> SUFFICES ASSUME bad # {} PROVE FALSE
  OBVIOUS
<1>1. PICK T \in bad : \A V \in bad : V \subseteq T => V = T
  <2>1. bad \subseteq SUBSET U
    OBVIOUS
  <2> HIDE DEF bad
  <2> QED
    BY <2>1, MinimalSet
<1>2. PICK z \in T : TRUE
  BY <1>1
<1>3. T \ {z} \in Q /\ T \ {z} \in SUBSET U /\ z \in U \ (T \ {z})
  BY <1>1, <1>2
<1>4. (T \ {z}) \cup {z} = T
  BY <1>2
<1> QED
  BY <1>1, <1>3, <1>4

\* Induction on numbers: Q holds those for which the claim is shown.
LEMMA NumberInduction ==
    ASSUME NEW Q, 0 \in Q, \A n \in Nat : n \in Q => n + 1 \in Q
    PROVE  Nat \subseteq Q
<1> DEFINE bad == {n \in Nat : n \notin Q}
<1> SUFFICES ASSUME bad # {} PROVE FALSE
  OBVIOUS
<1>1. PICK n \in bad : \A k \in bad : ~(<<k, n>> \in OpToRel(<, Nat))
  <2>1. bad \subseteq Nat
    OBVIOUS
  <2> HIDE DEF bad
  <2> QED
    BY <2>1, WFMin, NatLessThanWellFounded
<1>2. \A k \in Nat : k < n => k \in Q
  BY <1>1 DEF OpToRel
<1>3. n \in Nat /\ n # 0
  BY <1>1
<1>4. n - 1 \in Nat /\ n - 1 \in Q
  BY <1>2, <1>3
<1>5. (n - 1) + 1 \in Q /\ (n - 1) + 1 = n
  BY <1>3, <1>4
<1>6. n \notin Q
  BY <1>1
<1> QED
  BY <1>5, <1>6

\* A nonempty set of numbers has a least one.
LEMMA LeastNumber ==
    ASSUME NEW S, S \subseteq Nat, S # {}
    PROVE  \E n \in S : \A k \in S : n <= k
<1>1. PICK n \in S : \A k \in S : ~(<<k, n>> \in OpToRel(<, Nat))
  BY WFMin, NatLessThanWellFounded
<1>2. \A k \in S : ~(k < n)
  BY <1>1 DEF OpToRel
<1> QED
  BY <1>2

\* A function on the nodes of a tree may be defined along the parents: every node
\* is a finite number of steps above the root.
IsTree(Node, root, Up, High) ==
    /\ root \in Node /\ Up \in [Node -> Node]
    /\ High \in [Node -> Nat] /\ High[root] = 0
    /\ \A b \in Node \ {root} : High[b] = High[Up[b]] + 1

Descends(f, Node, root, Up, v0, step) ==
    \A b \in Node : f[b] = IF b = root THEN v0 ELSE step[b][f[Up[b]]]

LEMMA ByParents ==
    ASSUME NEW Node, NEW root, NEW Up, NEW High, IsTree(Node, root, Up, High),
           NEW V, NEW v0 \in V, NEW step \in [Node -> [V -> V]]
    PROVE  \E f \in [Node -> V] : Descends(f, Node, root, Up, v0, step)
<1> DEFINE low(n) == {b \in Node : High[b] <= n}
           Good(g, n) ==
              /\ g \in [low(n) -> V]
              /\ \A b \in low(n) : g[b] = IF b = root THEN v0 ELSE step[b][g[Up[b]]]
           some == {n \in Nat : \E g : Good(g, n)}
           one == {n \in Nat : \A g, k : Good(g, n) /\ Good(k, n) => g = k}
<1>t. /\ root \in Node /\ Up \in [Node -> Node]
      /\ High \in [Node -> Nat] /\ High[root] = 0
      /\ \A b \in Node \ {root} : High[b] = High[Up[b]] + 1
  BY DEF IsTree
<1> USE <1>t
<1>0. /\ \A n \in Nat : \A b \in low(n + 1) : b # root => Up[b] \in low(n)
      /\ \A n \in Nat : low(n) \subseteq low(n + 1)
      /\ \A n \in Nat : \A b \in low(n) : b # root => Up[b] \in low(n)
      /\ low(0) = {root}
      /\ \A b \in Node : b \in low(High[b])
      /\ \A n : low(n) \subseteq Node
  <2>1. \A n \in Nat : \A b \in low(n + 1) : b # root => Up[b] \in low(n)
    OBVIOUS
  <2>2. \A n \in Nat : low(n) \subseteq low(n + 1)
    OBVIOUS
  <2>3. \A n \in Nat : \A b \in low(n) : b # root => Up[b] \in low(n)
    OBVIOUS
  <2>4. low(0) = {root}
    <3>1. ASSUME NEW b \in Node, b # root PROVE ~(High[b] <= 0)
      <4>1. Up[b] \in Node /\ High[Up[b]] \in Nat /\ High[b] = High[Up[b]] + 1
        BY <3>1
      <4> QED
        BY <4>1
    <3> QED
      BY <3>1
  <2>5. /\ \A b \in Node : b \in low(High[b])
        /\ \A n : low(n) \subseteq Node
    OBVIOUS
  <2> QED
    BY <2>1, <2>2, <2>3, <2>4, <2>5
<1> HIDE DEF low
<1>1. \A n \in Nat : \E g : Good(g, n)
  <2>1. \E g : Good(g, 0)
    <3>1. Good([b \in low(0) |-> v0], 0)
      BY <1>0
    <3> HIDE DEF Good
    <3> QED
      BY <3>1
  <2>2. ASSUME NEW n \in Nat, NEW g, Good(g, n) PROVE \E k : Good(k, n + 1)
    <3> DEFINE k == [b \in low(n + 1) |-> IF b = root THEN v0 ELSE step[b][g[Up[b]]]]
    <3>1. \A b \in low(n) : k[b] = g[b]
      BY <2>2, <1>0
    <3>2. \A b \in low(n + 1) : b # root => step[b] \in [V -> V] /\ g[Up[b]] \in V
      BY <2>2, <1>0
    <3>3. k \in [low(n + 1) -> V]
      BY <3>2
    <3>4. \A b \in low(n + 1) : k[b] = IF b = root THEN v0 ELSE step[b][k[Up[b]]]
      BY <3>1, <1>0
    <3> HIDE DEF k
    <3>5. Good(k, n + 1)
      BY <3>3, <3>4
    <3> HIDE DEF Good
    <3> QED
      BY <3>5
  <2> HIDE DEF Good
  <2>3. 0 \in some /\ \A n \in Nat : n \in some => n + 1 \in some
    BY <2>1, <2>2
  <2> HIDE DEF some
  <2>4. Nat \subseteq some
    BY <2>3, NumberInduction
  <2> USE DEF some
  <2> QED
    BY <2>4
<1>2. \A n \in Nat : \A g, k : Good(g, n) /\ Good(k, n) => g = k
  <2>1. \A g, k : Good(g, 0) /\ Good(k, 0) => g = k
    <3>1. ASSUME NEW g, NEW k, Good(g, 0), Good(k, 0) PROVE g = k
      <4>1. g[root] = v0 /\ k[root] = v0
        BY <1>0, <3>1
      <4> QED
        BY <3>1, <4>1, <1>0
    <3> HIDE DEF Good
    <3> QED
      BY <3>1
  <2>2. ASSUME NEW n \in Nat, \A g, k : Good(g, n) /\ Good(k, n) => g = k,
               NEW g, NEW k, Good(g, n + 1), Good(k, n + 1)
        PROVE  g = k
    <3> DEFINE g1 == [b \in low(n) |-> g[b]]
               k1 == [b \in low(n) |-> k[b]]
    <3>1. Good(g1, n) /\ Good(k1, n)
      BY <2>2, <1>0
    <3> HIDE DEF g1, k1
    <3>2. g1 = k1
      <4> HIDE DEF Good
      <4> QED
        BY <3>1, <2>2
    <3>3. \A b \in low(n) : g[b] = k[b]
      BY <3>2 DEF g1, k1
    <3>4. \A b \in low(n + 1) : g[b] = k[b]
      BY <3>3, <2>2, <1>0
    <3> QED
      BY <3>4, <2>2
  <2> HIDE DEF Good
  <2>3. 0 \in one /\ \A n \in Nat : n \in one => n + 1 \in one
    <3>1. 0 \in one
      BY <2>1
    <3>2. ASSUME NEW n \in Nat, n \in one PROVE n + 1 \in one
      <4>1. n + 1 \in Nat
        OBVIOUS
      <4>2. \A g, k : Good(g, n) /\ Good(k, n) => g = k
        BY <3>2
      <4>3. \A g, k : Good(g, n + 1) /\ Good(k, n + 1) => g = k
        BY <4>2, <2>2
      <4> QED
        BY <4>1, <4>3
    <3> QED
      BY <3>1, <3>2
  <2> HIDE DEF one
  <2>4. Nat \subseteq one
    BY <2>3, NumberInduction
  <2> USE DEF one
  <2> QED
    BY <2>4
<1> DEFINE G == [n \in Nat |-> CHOOSE g : Good(g, n)]
           f == [b \in Node |-> G[High[b]][b]]
<1>3. \A n \in Nat : Good(G[n], n)
  <2> SUFFICES ASSUME NEW n \in Nat PROVE Good(G[n], n)
    OBVIOUS
  <2>1. \E g : Good(g, n)
    BY <1>1
  <2>2. G[n] = CHOOSE g : Good(g, n)
    OBVIOUS
  <2> HIDE DEF Good, G
  <2> QED
    BY <2>1, <2>2
<1> HIDE DEF G
<1>4. ASSUME NEW n \in Nat, NEW b \in low(n)
      PROVE  G[n + 1][b] = G[n][b]
  <2> DEFINE k == [c \in low(n) |-> G[n + 1][c]]
  <2>1. Good(G[n], n) /\ Good(G[n + 1], n + 1)
    BY <1>3
  <2>3. Good(k, n)
    BY <2>1, <1>0
  <2>4. k = G[n]
    <3> HIDE DEF k, Good
    <3> QED
      BY <2>1, <2>3, <1>2
  <2>5. k[b] = G[n + 1][b]
    OBVIOUS
  <2> HIDE DEF k
  <2> QED
    BY <2>4, <2>5
<1>5. \A b \in Node : /\ High[b] \in Nat
                       /\ G[High[b]][b] \in V
                       /\ G[High[b]][b] =
                             IF b = root THEN v0 ELSE step[b][G[High[b]][Up[b]]]
  <2> SUFFICES ASSUME NEW b \in Node
               PROVE  /\ High[b] \in Nat
                      /\ G[High[b]][b] \in V
                      /\ G[High[b]][b] =
                             IF b = root THEN v0 ELSE step[b][G[High[b]][Up[b]]]
    OBVIOUS
  <2>1. High[b] \in Nat /\ b \in low(High[b])
    BY <1>0
  <2>2. Good(G[High[b]], High[b])
    <3> HIDE DEF Good
    <3> QED
      BY <2>1, <1>3
  <2> QED
    BY <2>1, <2>2
<1>6. f \in [Node -> V]
  BY <1>5
<1>7. ASSUME NEW b \in Node
      PROVE  f[b] = IF b = root THEN v0 ELSE step[b][f[Up[b]]]
  <2>1. CASE b = root
    BY <2>1, <1>5
  <2>2. CASE b # root
    <3> DEFINE p == Up[b]
               m == High[p]
    <3>1. p \in Node /\ m \in Nat /\ High[b] = m + 1
      BY <2>2
    <3>2. p \in low(m)
      BY <3>1, <1>0
    <3>3. f[p] = G[m][p] /\ f[b] = G[m + 1][b]
      BY <3>1
    <3> HIDE DEF f, m
    <3>4. G[m + 1][p] = G[m][p]
      BY <3>1, <3>2, <1>4
    <3>5. G[m + 1][b] = step[b][G[m + 1][p]]
      BY <2>2, <3>1, <1>5
    <3> QED
      BY <2>2, <3>3, <3>4, <3>5
  <2> QED
    BY <2>1, <2>2
<1> HIDE DEF f
<1> QED
  BY <1>6, <1>7 DEF Descends

---------------------------------------------------------------------------
\* MapThenSumSet adds up.

\* g adds up f over the subsets of U.
Adds(g, f, U) ==
    /\ g \in [SUBSET U -> Int]
    /\ g[{}] = 0
    /\ \A T \in SUBSET U : \A x \in U \ T : g[T \cup {x}] = g[T] + f[x]

LEMMA AdderExists ==
    ASSUME NEW U, IsFiniteSet(U), NEW f, \A x \in U : f[x] \in Int
    PROVE  \E g : Adds(g, f, U)
<1> DEFINE Q == {T \in SUBSET U : \E g : Adds(g, f, T)}
<1>1. {} \in Q
  <2>1. Adds([S \in SUBSET {} |-> 0], f, {})
    BY DEF Adds
  <2> QED
    BY <2>1
<1>2. ASSUME NEW R \in SUBSET U, NEW z \in U \ R, R \in Q
      PROVE  R \cup {z} \in Q
  <2>2. PICK g : Adds(g, f, R)
    BY <1>2
  <2> DEFINE T == R \cup {z}
             h == [S \in SUBSET T |-> IF z \in S THEN g[S \ {z}] + f[z] ELSE g[S]]
  <2>3. Adds(h, f, T)
    <3>1. \A x \in T : f[x] \in Int
      OBVIOUS
    <3>2. \A S \in SUBSET R : g[S] \in Int
      BY <2>2 DEF Adds
    <3>3. h \in [SUBSET T -> Int]
      <4>1. \A S \in SUBSET T : S \ {z} \in SUBSET R /\ (z \notin S => S \in SUBSET R)
        OBVIOUS
      <4>2. \A S \in SUBSET T : (IF z \in S THEN g[S \ {z}] + f[z] ELSE g[S]) \in Int
        BY <4>1, <3>1, <3>2
      <4> QED
        BY <4>2
    <3>4. h[{}] = 0
      BY <2>2 DEF Adds
    <3>5. ASSUME NEW S \in SUBSET T, NEW x \in T \ S
          PROVE  h[S \cup {x}] = h[S] + f[x]
      <4>1. CASE x = z
        <5>1. (S \cup {x}) \ {z} = S /\ z \in S \cup {x} /\ z \notin S /\ S \cup {x} \in SUBSET T
          BY <4>1
        <5> QED
          BY <5>1, <4>1
      <4>2. CASE x # z /\ z \in S
        <5>1. (S \cup {x}) \ {z} = (S \ {z}) \cup {x} /\ S \ {z} \in SUBSET R
              /\ x \in R \ (S \ {z})
          BY <4>2
        <5>2. g[(S \ {z}) \cup {x}] = g[S \ {z}] + f[x]
          BY <5>1, <2>2 DEF Adds
        <5>3. h[S \cup {x}] = g[(S \ {z}) \cup {x}] + f[z] /\ h[S] = g[S \ {z}] + f[z]
          BY <5>1, <4>2
        <5>4. g[S \ {z}] \in Int /\ f[z] \in Int /\ f[x] \in Int
          BY <5>1, <3>1, <3>2
        <5> HIDE DEF h
        <5> QED
          BY <5>2, <5>3, <5>4
      <4>3. CASE x # z /\ z \notin S
        <5>1. S \in SUBSET R /\ x \in R \ S /\ z \notin S \cup {x} /\ S \cup {x} \in SUBSET T
          BY <4>3
        <5>2. g[S \cup {x}] = g[S] + f[x]
          BY <5>1, <2>2 DEF Adds
        <5> QED
          BY <5>1, <5>2
      <4> QED
        BY <4>1, <4>2, <4>3
    <3> QED
      BY <3>3, <3>4, <3>5 DEF Adds
  <2> QED
    BY <2>3
<1>3. U \in Q
  <2> HIDE DEF Q
  <2> QED
    BY <1>1, <1>2, SetInduction
<1> QED
  BY <1>3

\* The recursive function behind MapThenSumSet is such a g.
LEMMA SumIsAdder ==
    ASSUME NEW U, IsFiniteSet(U), NEW f, \A x \in U : f[x] \in Int,
           NEW g, Adds(g, f, U), NEW S \in SUBSET U
    PROVE  SumOver(f, S) = g[S]
<1> DEFINE Iter(i) == i = [s \in SUBSET S |->
                IF s = {} THEN 0
                ELSE LET x == CHOOSE x \in s : TRUE IN f[x] + i[s \ {x}]]
           k == [s \in SUBSET S |-> g[s]]
<1>0. IsFiniteSet(S)
  BY FS_Subset
<1>1. ASSUME NEW s \in SUBSET S, NEW x \in s
      PROVE  g[s] = f[x] + g[s \ {x}]
  <2>1. s = (s \ {x}) \cup {x} /\ s \ {x} \in SUBSET U /\ x \in U \ (s \ {x})
    OBVIOUS
  <2>2. g[s] = g[s \ {x}] + f[x] /\ g[s \ {x}] \in Int /\ f[x] \in Int
    BY <2>1 DEF Adds
  <2> QED
    BY <2>2
<1>2. Iter(k)
  <2>1. ASSUME NEW s \in SUBSET S, s # {}
        PROVE  g[s] = LET x == CHOOSE x \in s : TRUE IN f[x] + k[s \ {x}]
    <3> DEFINE x == CHOOSE y \in s : TRUE
    <3>1. x \in s
      BY <2>1
    <3> HIDE DEF x
    <3>2. g[s] = f[x] + k[s \ {x}]
      BY <1>1, <3>1
    <3> QED
      BY <3>2 DEF x
  <2> QED
    BY <2>1 DEF Adds
<1>3. ASSUME NEW i, Iter(i)
      PROVE  i[S] = g[S]
  <2> DEFINE Q == {s \in SUBSET S : i[s] = g[s]}
             bad == {s \in SUBSET S : i[s] # g[s]}
  <2> SUFFICES ASSUME bad # {} PROVE FALSE
    OBVIOUS
  <2>1. PICK T \in bad : \A V \in bad : V \subseteq T => V = T
    <3>1. bad \subseteq SUBSET S
      OBVIOUS
    <3> HIDE DEF bad
    <3> QED
      BY <1>0, <3>1, MinimalSet
  <2>2. CASE T = {}
    BY <1>3, <2>1, <2>2 DEF Adds
  <2>3. CASE T # {}
    <3> DEFINE x == CHOOSE y \in T : TRUE
    <3>1. x \in T
      BY <2>3
    <3>2. i[T] = f[x] + i[T \ {x}]
      BY <1>3, <2>1, <2>3
    <3> HIDE DEF x
    <3>3. T \ {x} \in SUBSET S /\ T \ {x} \notin bad
      BY <2>1, <3>1
    <3>4. g[T] = f[x] + g[T \ {x}]
      BY <1>1, <2>1, <3>1
    <3> QED
      BY <2>1, <3>2, <3>3, <3>4
  <2> QED
    BY <2>2, <2>3
<1>4. SumOver(f, S) = (CHOOSE i : Iter(i))[S]
  BY DEF SumOver, MapThenSumSet, MapThenFoldSet
<1>5. Iter(CHOOSE i : Iter(i))
  <2> HIDE DEF Iter
  <2> QED
    BY <1>2
<1> QED
  <2> HIDE DEF Iter
  <2> QED
    BY <1>3, <1>4, <1>5

---------------------------------------------------------------------------
\* What the other proofs cite.

\* The sum over the empty set.
LEMMA SumOfNone == ASSUME NEW f PROVE SumOver(f, {}) = 0
<1>1. IsFiniteSet({})
  BY FS_EmptySet
<1>2. PICK g : Adds(g, f, {})
  BY <1>1, AdderExists
<1>3. SumOver(f, {}) = g[{}]
  BY <1>1, <1>2, SumIsAdder
<1> QED
  BY <1>2, <1>3 DEF Adds

\* One member more.
LEMMA SumOfOneMore ==
    ASSUME NEW S, IsFiniteSet(S), NEW x, x \notin S, NEW f,
           \A y \in S \cup {x} : f[y] \in Int
    PROVE  /\ SumOver(f, S) \in Int
           /\ SumOver(f, S \cup {x}) = SumOver(f, S) + f[x]
<1> DEFINE U == S \cup {x}
<1>1. IsFiniteSet(U)
  BY FS_AddElement
<1>2. PICK g : Adds(g, f, U)
  BY <1>1, AdderExists
<1>3. SumOver(f, S) = g[S] /\ SumOver(f, U) = g[U]
  BY <1>1, <1>2, SumIsAdder
<1> QED
  BY <1>2, <1>3 DEF Adds

\* A sum of integers is an integer.
LEMMA SumType ==
    ASSUME NEW S, IsFiniteSet(S), NEW f, \A y \in S : f[y] \in Int
    PROVE  SumOver(f, S) \in Int
<1>1. PICK g : Adds(g, f, S)
  BY AdderExists
<1>2. SumOver(f, S) = g[S]
  BY <1>1, SumIsAdder
<1> QED
  BY <1>1, <1>2 DEF Adds

\* Sums of equal terms are equal.
LEMMA SumOfEquals ==
    ASSUME NEW S, IsFiniteSet(S), NEW f, NEW g,
           \A y \in S : f[y] \in Int /\ g[y] = f[y]
    PROVE  SumOver(g, S) = SumOver(f, S)
<1>1. PICK s : Adds(s, f, S)
  BY AdderExists
<1>2. Adds(s, g, S)
  BY <1>1 DEF Adds
<1> QED
  BY <1>1, <1>2, SumIsAdder

\* The sum over two disjoint sets.
LEMMA SumOfTwo ==
    ASSUME NEW S, NEW T, IsFiniteSet(S), IsFiniteSet(T), S \cap T = {}, NEW f,
           \A y \in S \cup T : f[y] \in Int
    PROVE  SumOver(f, S \cup T) = SumOver(f, S) + SumOver(f, T)
<1> DEFINE Q == {V \in SUBSET T : SumOver(f, S \cup V) = SumOver(f, S) + SumOver(f, V)}
<1>1. {} \in Q
  <2>1. S \cup {} = S /\ SumOver(f, {}) = 0 /\ SumOver(f, S) \in Int
    BY SumOfNone, SumType
  <2> QED
    BY <2>1
<1>2. ASSUME NEW V \in SUBSET T, NEW x \in T \ V, V \in Q
      PROVE  V \cup {x} \in Q
  <2>1. IsFiniteSet(V) /\ IsFiniteSet(S \cup V)
    BY FS_Subset, FS_Union
  <2>2. SumOver(f, V \cup {x}) = SumOver(f, V) + f[x] /\ SumOver(f, V) \in Int
    BY <2>1, SumOfOneMore
  <2>3. SumOver(f, (S \cup V) \cup {x}) = SumOver(f, S \cup V) + f[x]
    BY <2>1, SumOfOneMore
  <2>4. (S \cup V) \cup {x} = S \cup (V \cup {x})
    OBVIOUS
  <2>5. SumOver(f, S) \in Int /\ f[x] \in Int
    BY SumType
  <2>6. SumOver(f, S \cup V) = SumOver(f, S) + SumOver(f, V)
    BY <1>2
  <2>7. SumOver(f, S \cup (V \cup {x})) = SumOver(f, S \cup V) + f[x]
    BY <2>3, <2>4
  <2>8. SumOver(f, S \cup (V \cup {x})) = SumOver(f, S) + SumOver(f, V \cup {x})
    BY <2>2, <2>5, <2>6, <2>7
  <2> QED
    BY <2>8
<1>3. T \in Q
  <2> HIDE DEF Q
  <2> QED
    BY <1>1, <1>2, SetInduction
<1> QED
  BY <1>3

\* A sum of natural numbers is one.
LEMMA SumOfNaturals ==
    ASSUME NEW S, IsFiniteSet(S), NEW f, \A y \in S : f[y] \in Nat
    PROVE  SumOver(f, S) \in Nat
<1> DEFINE Q == {V \in SUBSET S : SumOver(f, V) \in Nat}
<1>1. {} \in Q
  BY SumOfNone
<1>2. ASSUME NEW V \in SUBSET S, NEW x \in S \ V, V \in Q
      PROVE  V \cup {x} \in Q
  <2>1. IsFiniteSet(V)
    BY FS_Subset
  <2>2. SumOver(f, V \cup {x}) = SumOver(f, V) + f[x]
    <3>1. \A y \in V \cup {x} : f[y] \in Int
      OBVIOUS
    <3> QED
      BY <2>1, <3>1, SumOfOneMore
  <2>3. f[x] \in Nat
    OBVIOUS
  <2> QED
    BY <1>2, <2>2, <2>3
<1>3. S \in Q
  <2> HIDE DEF Q
  <2> QED
    BY <1>1, <1>2, SetInduction
<1> QED
  BY <1>3

\* A part of a set of natural numbers adds up to no more than the whole.
LEMMA SumOfPart ==
    ASSUME NEW S, IsFiniteSet(S), NEW f, \A y \in S : f[y] \in Nat, NEW T \in SUBSET S
    PROVE  /\ SumOver(f, T) \in Nat /\ SumOver(f, S \ T) \in Nat
           /\ SumOver(f, S) = SumOver(f, T) + SumOver(f, S \ T)
           /\ SumOver(f, T) <= SumOver(f, S)
<1>1. IsFiniteSet(T) /\ IsFiniteSet(S \ T) /\ T \cup (S \ T) = S /\ T \cap (S \ T) = {}
  BY FS_Subset
<1>2. SumOver(f, T) \in Nat /\ SumOver(f, S \ T) \in Nat
  BY <1>1, SumOfNaturals
<1>3. SumOver(f, T \cup (S \ T)) = SumOver(f, T) + SumOver(f, S \ T)
  <2>1. \A y \in T \cup (S \ T) : f[y] \in Int
    OBVIOUS
  <2> QED
    BY <1>1, <2>1, SumOfTwo
<1>4. SumOver(f, S) = SumOver(f, T) + SumOver(f, S \ T)
  BY <1>1, <1>3
<1> QED
  BY <1>2, <1>4

\* One term changes.
LEMMA SumOfChanged ==
    ASSUME NEW S, IsFiniteSet(S), NEW f, NEW g, NEW z \in S,
           \A y \in S : f[y] \in Int /\ g[y] \in Int,
           \A y \in S \ {z} : g[y] = f[y]
    PROVE  SumOver(g, S) = SumOver(f, S) - f[z] + g[z]
<1> DEFINE R == S \ {z}
<1>1. IsFiniteSet(R) /\ R \cup {z} = S /\ z \notin R
  BY FS_Subset
<1>2. SumOver(f, R \cup {z}) = SumOver(f, R) + f[z] /\ SumOver(f, R) \in Int
  BY <1>1, SumOfOneMore
<1>3. SumOver(g, R \cup {z}) = SumOver(g, R) + g[z]
  BY <1>1, SumOfOneMore
<1>4. SumOver(g, R) = SumOver(f, R)
  BY <1>1, SumOfEquals
<1>5. SumOver(f, S) = SumOver(f, R) + f[z] /\ SumOver(g, S) = SumOver(f, R) + g[z]
  BY <1>1, <1>2, <1>3, <1>4
<1>6. f[z] \in Int /\ g[z] \in Int
  OBVIOUS
<1> HIDE DEF R
<1> QED
  BY <1>2, <1>5, <1>6
=============================================================================
