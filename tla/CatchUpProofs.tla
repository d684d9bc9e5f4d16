--------------------------- MODULE CatchUpProofs ---------------------------
(***************************************************************************)
(* Proofs about CatchUp and the fork choice of Ledger, for every tree of   *)
(* blocks, finality depth, override factor, batch size and peer.           *)
(***************************************************************************)
EXTENDS CatchUp, Sums

---------------------------------------------------------------------------
\* The tree.

LEMMA BlocksAreTree == IsTree(Block, Genesis, Parent, Height)
BY LedgerAssumption DEF IsTree

LEMMA PathEquation ==
    \A b \in Block : PathTo[b] = IF b = Genesis THEN <<b>> ELSE Append(PathTo[Parent[b]], b)
<1> DEFINE v0 == <<Genesis>>
           step == [b \in Block |-> [s \in Seq(Block) |-> Append(s, b)]]
<1>1. v0 \in Seq(Block) /\ step \in [Block -> [Seq(Block) -> Seq(Block)]]
  BY LedgerAssumption
<1>2. \A b \in Block, s \in Seq(Block) : step[b][s] = Append(s, b)
  OBVIOUS
<1> HIDE DEF step, v0
<1>3. PICK f \in [Block -> Seq(Block)] :
         \A b \in Block : f[b] = IF b = Genesis THEN v0 ELSE step[b][f[Parent[b]]]
  <2> DEFINE V == Seq(Block)
  <2>1. v0 \in V /\ step \in [Block -> [V -> V]]
    BY <1>1
  <2> HIDE DEF V
  <2>2. \E f \in [Block -> V] : Descends(f, Block, Genesis, Parent, v0, step)
    BY <2>1, BlocksAreTree, ByParents
  <2> USE DEF V
  <2> QED
    BY <2>2 DEF Descends
<1>4. \A b \in Block : f[b] = IF b = Genesis THEN <<b>> ELSE Append(f[Parent[b]], b)
  BY <1>2, <1>3, LedgerAssumption DEF v0
<1>5. f = [b \in Block |-> IF b = Genesis THEN <<b>> ELSE Append(f[Parent[b]], b)]
  BY <1>4
<1>6. PathTo = [b \in Block |-> IF b = Genesis THEN <<b>> ELSE Append(PathTo[Parent[b]], b)]
  BY <1>5 DEF PathTo
<1> QED
  BY <1>6


LEMMA WeightEquation ==
    \A b \in Block :
        AbsWeight[b] = IF b = Genesis THEN Diff[b] ELSE AbsWeight[Parent[b]] + Diff[b]
<1> DEFINE v0 == Diff[Genesis]
           step == [b \in Block |-> [w \in Nat |-> w + Diff[b]]]
<1>1. v0 \in Nat /\ step \in [Block -> [Nat -> Nat]]
  BY LedgerAssumption
<1>2. \A b \in Block, w \in Nat : step[b][w] = w + Diff[b]
  OBVIOUS
<1> HIDE DEF step, v0
<1>3. PICK f \in [Block -> Nat] :
         \A b \in Block : f[b] = IF b = Genesis THEN v0 ELSE step[b][f[Parent[b]]]
  <2> DEFINE V == Nat
  <2>1. v0 \in V /\ step \in [Block -> [V -> V]]
    BY <1>1
  <2> HIDE DEF V
  <2>2. \E f \in [Block -> V] : Descends(f, Block, Genesis, Parent, v0, step)
    BY <2>1, BlocksAreTree, ByParents
  <2> USE DEF V
  <2> QED
    BY <2>2 DEF Descends
<1>4. \A b \in Block : f[b] = IF b = Genesis THEN Diff[b] ELSE f[Parent[b]] + Diff[b]
  BY <1>2, <1>3, LedgerAssumption DEF v0
<1>5. f = [b \in Block |-> IF b = Genesis THEN Diff[b] ELSE f[Parent[b]] + Diff[b]]
  BY <1>4
<1>6. AbsWeight = [b \in Block |-> IF b = Genesis THEN Diff[b] ELSE AbsWeight[Parent[b]] + Diff[b]]
  BY <1>5 DEF AbsWeight
<1> QED
  BY <1>6

\* Induction on the height of a block.
LEMMA ByHeight ==
    ASSUME NEW G, Genesis \in G,
           \A b \in Block \ {Genesis} : Parent[b] \in G => b \in G
    PROVE  Block \subseteq G
<1> DEFINE Q == {n \in Nat : \A b \in Block : Height[b] = n => b \in G}
<1>1. 0 \in Q
  <2>1. \A b \in Block : Height[b] = 0 => b = Genesis
    BY LedgerAssumption
  <2> QED
    BY <2>1
<1>2. ASSUME NEW n \in Nat, n \in Q PROVE n + 1 \in Q
  <2>1. \A b \in Block : Height[b] = n + 1 =>
           b # Genesis /\ Parent[b] \in Block /\ Height[Parent[b]] = n
    BY LedgerAssumption
  <2> QED
    BY <1>2, <2>1
<1>3. \A b \in Block : Height[b] \in Nat
  BY LedgerAssumption
<1> HIDE DEF Q
<1>4. Nat \subseteq Q
  BY <1>1, <1>2, NumberInduction
<1> USE DEF Q
<1> QED
  BY <1>3, <1>4

\* The path to a block ends with it, has one block of every height up to its
\* own, and begins with the path to any of them.
PathSound(t) ==
    /\ PathTo[t] \in Seq(Block)
    /\ Len(PathTo[t]) = Height[t] + 1
    /\ PathTo[t][Height[t] + 1] = t
    /\ \A i \in 1 .. (Height[t] + 1) :
          /\ Height[PathTo[t][i]] = i - 1
          /\ \A k \in 1 .. i : PathTo[PathTo[t][i]][k] = PathTo[t][k]

LEMMA PathsSound == \A t \in Block : PathSound(t)
<1> DEFINE G == {t \in Block : PathSound(t)}
<1>1. Genesis \in G
  <2>1. PathTo[Genesis] = <<Genesis>> /\ Genesis \in Block /\ Height[Genesis] = 0
    BY PathEquation, LedgerAssumption
  <2>2. PathSound(Genesis)
    BY <2>1 DEF PathSound
  <2> QED
    BY <2>1, <2>2
<1>2. ASSUME NEW t \in Block \ {Genesis}, Parent[t] \in G PROVE t \in G
  <2> DEFINE p == Parent[t]
             n == Height[p] + 1
  <2>1. /\ p \in Block /\ Height[p] \in Nat /\ Height[t] = n
        /\ PathTo[t] = Append(PathTo[p], t)
    BY PathEquation, LedgerAssumption
  <2>2. /\ PathTo[p] \in Seq(Block) /\ Len(PathTo[p]) = n /\ PathTo[p][n] = p
        /\ \A i \in 1 .. n : /\ Height[PathTo[p][i]] = i - 1
                             /\ \A k \in 1 .. i : PathTo[PathTo[p][i]][k] = PathTo[p][k]
    BY <1>2 DEF PathSound
  <2> HIDE DEF p, n
  <2>3. n \in Nat
    BY <2>1 DEF n
  <2>4. /\ PathTo[t] \in Seq(Block) /\ Len(PathTo[t]) = n + 1 /\ PathTo[t][n + 1] = t
        /\ \A i \in 1 .. n : PathTo[t][i] = PathTo[p][i]
    BY <2>1, <2>2, <2>3
  <2>5. ASSUME NEW i \in 1 .. (n + 1)
        PROVE  /\ Height[PathTo[t][i]] = i - 1
               /\ \A k \in 1 .. i : PathTo[PathTo[t][i]][k] = PathTo[t][k]
    <3>1. CASE i = n + 1
      BY <3>1, <2>1, <2>3, <2>4
    <3>2. CASE i # n + 1
      <4>1. i \in 1 .. n /\ \A k \in 1 .. i : k \in 1 .. n
        BY <3>2, <2>3
      <4>2. PathTo[t][i] = PathTo[p][i] /\ \A k \in 1 .. i : PathTo[t][k] = PathTo[p][k]
        BY <4>1, <2>4
      <4>3. /\ Height[PathTo[p][i]] = i - 1
            /\ \A k \in 1 .. i : PathTo[PathTo[p][i]][k] = PathTo[p][k]
        BY <4>1, <2>2
      <4> QED
        BY <4>2, <4>3
    <3> QED
      BY <3>1, <3>2
  <2>6. PathSound(t)
    BY <2>1, <2>3, <2>4, <2>5 DEF PathSound
  <2> QED
    BY <2>6
<1> HIDE DEF G
<1>3. Block \subseteq G
  BY <1>1, <1>2, ByHeight
<1> USE DEF G
<1> QED
  BY <1>3

\* The block of height h on the way to t.
LEMMA Ancestors ==
    ASSUME NEW t \in Block, NEW h \in 0 .. HeightOf(t)
    PROVE  /\ At(t, h) \in Block /\ HeightOf(At(t, h)) = h
           /\ OnPath(At(t, h), t)
           /\ \A k \in 0 .. h : At(At(t, h), k) = At(t, k)
           /\ h > 0 => At(t, h) # Genesis /\ Parent[At(t, h)] = At(t, h - 1)
<1>1. Height[t] \in Nat /\ h \in Nat /\ h + 1 \in 1 .. (Height[t] + 1)
  BY LedgerAssumption DEF HeightOf
<1> DEFINE c == At(t, h)
<1>2. PathSound(t)
  BY PathsSound
<1>3. /\ c \in Block /\ Height[c] = h
      /\ \A k \in 1 .. (h + 1) : PathTo[c][k] = PathTo[t][k]
  BY <1>1, <1>2 DEF PathSound, At
<1>4. h <= Height[t]
  BY <1>1
<1>5. OnPath(c, t)
  BY <1>3, <1>4 DEF OnPath, HeightOf
<1>6. \A k \in 0 .. h : At(c, k) = At(t, k)
  <2>1. \A k \in 0 .. h : k + 1 \in 1 .. (h + 1)
    BY <1>1
  <2> HIDE DEF c
  <2> QED
    BY <2>1, <1>3 DEF At
<1> HIDE DEF c
<1>7. ASSUME h > 0 PROVE c # Genesis /\ Parent[c] = At(t, h - 1)
  <2> DEFINE p == Parent[c]
  <2>1. c # Genesis /\ p \in Block /\ Height[p] = h - 1
    BY <1>1, <1>3, <1>7, LedgerAssumption
  <2>2. PathTo[c] = Append(PathTo[p], c)
    BY <1>3, <2>1, PathEquation
  <2>3. PathSound(p)
    BY <2>1, PathsSound
  <2> HIDE DEF p
  <2>4. PathTo[p] \in Seq(Block) /\ Len(PathTo[p]) = h /\ PathTo[p][h] = p
    BY <1>1, <2>1, <2>3 DEF PathSound
  <2>5. PathTo[c][h] = p
    BY <1>1, <1>7, <2>2, <2>4
  <2>6. At(t, h - 1) = p
    BY <1>1, <1>3, <1>7, <2>5 DEF At
  <2> QED
    BY <2>1, <2>6 DEF p
<1> QED
  BY <1>3, <1>5, <1>6, <1>7 DEF c, HeightOf

LEMMA Heights ==
    /\ \A b \in Block : HeightOf(b) \in Nat /\ At(b, HeightOf(b)) = b
    /\ \A b \in Block \ {Genesis} : Parent[b] \in Block /\ HeightOf(b) = HeightOf(Parent[b]) + 1
    /\ Genesis \in Block /\ HeightOf(Genesis) = 0
    /\ \A b \in Block : HeightOf(b) = 0 => b = Genesis
<1>1. \A b \in Block : At(b, HeightOf(b)) = b
  BY PathsSound DEF PathSound, At, HeightOf
<1> QED
  BY <1>1, LedgerAssumption DEF HeightOf


LEMMA Weights ==
    /\ \A b \in Block : AbsWeight[b] \in Nat
    /\ \A b \in Block \ {Genesis} : AbsWeight[Parent[b]] < AbsWeight[b]
<1> DEFINE G == {b \in Block : AbsWeight[b] \in Nat}
<1>0. \A b \in Block : Diff[b] \in Nat /\ Diff[b] > 0 /\ Parent[b] \in Block
  BY LedgerAssumption
<1>1. Genesis \in G
  BY <1>0, WeightEquation, LedgerAssumption
<1>2. ASSUME NEW b \in Block \ {Genesis}, Parent[b] \in G PROVE b \in G
  BY <1>0, <1>2, WeightEquation
<1> HIDE DEF G
<1>3. Block \subseteq G
  BY <1>1, <1>2, ByHeight
<1>4. \A b \in Block : AbsWeight[b] \in Nat
  BY <1>3 DEF G
<1>5. ASSUME NEW b \in Block \ {Genesis} PROVE AbsWeight[Parent[b]] < AbsWeight[b]
  <2>1. AbsWeight[b] = AbsWeight[Parent[b]] + Diff[b]
    BY WeightEquation
  <2> QED
    BY <2>1, <1>0, <1>4
<1> QED
  BY <1>4, <1>5

LEMMA OnPathFacts ==
    ASSUME NEW t \in Block, NEW b \in Block, OnPath(b, t)
    PROVE  /\ HeightOf(b) \in 0 .. HeightOf(t) /\ At(t, HeightOf(b)) = b
           /\ \A k \in 0 .. HeightOf(b) : At(b, k) = At(t, k)
           /\ b # Genesis => OnPath(Parent[b], t)
           /\ HeightOf(b) = HeightOf(t) => b = t
<1>1. HeightOf(b) \in 0 .. HeightOf(t) /\ At(t, HeightOf(b)) = b
  BY Heights DEF OnPath
<1>2. \A k \in 0 .. HeightOf(b) : At(b, k) = At(t, k)
  BY <1>1, Ancestors
<1>3. b # Genesis => OnPath(Parent[b], t)
  <2> SUFFICES ASSUME b # Genesis PROVE OnPath(Parent[b], t)
    OBVIOUS
  <2>1. HeightOf(b) > 0 /\ HeightOf(b) - 1 \in 0 .. HeightOf(t)
    BY <1>1, Heights
  <2>2. Parent[b] = At(t, HeightOf(b) - 1)
    BY <1>1, <2>1, Ancestors
  <2> QED
    BY <2>1, <2>2, Ancestors
<1>4. HeightOf(b) = HeightOf(t) => b = t
  BY <1>1, Heights
<1> QED
  BY <1>1, <1>2, <1>3, <1>4

LEMMA OnPathOrder ==
    /\ \A b \in Block : OnPath(b, b)
    /\ \A b \in Block \ {Genesis} : OnPath(Parent[b], b)
    /\ \A a, b, c \in Block : OnPath(a, b) /\ OnPath(b, c) => OnPath(a, c)
<1>1. \A b \in Block : OnPath(b, b)
  BY Heights DEF OnPath
<1>2. \A b \in Block \ {Genesis} : OnPath(Parent[b], b)
  BY <1>1, OnPathFacts
<1>3. ASSUME NEW a \in Block, NEW b \in Block, NEW c \in Block, OnPath(a, b), OnPath(b, c)
      PROVE  OnPath(a, c)
  <2>1. /\ HeightOf(a) \in 0 .. HeightOf(b) /\ At(b, HeightOf(a)) = a
        /\ HeightOf(b) \in 0 .. HeightOf(c)
    BY <1>3, OnPathFacts
  <2>2. At(b, HeightOf(a)) = At(c, HeightOf(a))
    BY <1>3, <2>1, OnPathFacts
  <2>3. HeightOf(a) \in Nat /\ HeightOf(a) <= HeightOf(c)
    BY <2>1, Heights
  <2> QED
    BY <2>1, <2>2, <2>3 DEF OnPath
<1> QED
  BY <1>1, <1>2, <1>3

\* A block weighs more than those below it on its path.
LEMMA WeightRises ==
    \A t, b \in Block : OnPath(b, t) => AbsWeight[b] <= AbsWeight[t] /\ (AbsWeight[b] = AbsWeight[t] => b = t)
<1> DEFINE G == {t \in Block : \A b \in Block : OnPath(b, t) => b = t \/ AbsWeight[b] < AbsWeight[t]}
<1>1. Genesis \in G
  <2>1. ASSUME NEW b \in Block, OnPath(b, Genesis) PROVE b = Genesis
    BY <2>1, OnPathFacts, Heights
  <2> QED
    BY <2>1, Heights
<1>2. ASSUME NEW t \in Block \ {Genesis}, Parent[t] \in G PROVE t \in G
  <2> DEFINE p == Parent[t]
  <2>1. /\ p \in Block /\ HeightOf(t) = HeightOf(p) + 1 /\ OnPath(p, t)
        /\ AbsWeight[p] < AbsWeight[t]
    BY Heights, OnPathOrder, Weights
  <2>2. ASSUME NEW b \in Block, OnPath(b, t), b # t PROVE AbsWeight[b] < AbsWeight[t]
    <3>1. HeightOf(b) \in 0 .. HeightOf(t) /\ HeightOf(b) # HeightOf(t) /\ At(t, HeightOf(b)) = b
      BY <2>2, OnPathFacts
    <3>2. HeightOf(b) \in 0 .. HeightOf(p) /\ HeightOf(b) <= HeightOf(p)
      BY <3>1, <2>1, Heights
    <3>3. At(p, HeightOf(b)) = b
      BY <2>1, <3>1, <3>2, OnPathFacts
    <3>4. OnPath(b, p)
      BY <3>2, <3>3 DEF OnPath
    <3>5. b = p \/ AbsWeight[b] < AbsWeight[p]
      BY <1>2, <3>4
    <3> QED
      BY <2>1, <3>5, Weights
  <2> QED
    BY <2>2
<1> HIDE DEF G
<1>3. Block \subseteq G
  BY <1>1, <1>2, ByHeight
<1>4. \A t, b \in Block : OnPath(b, t) => b = t \/ AbsWeight[b] < AbsWeight[t]
  BY <1>3 DEF G
<1> QED
  BY <1>4, Weights

---------------------------------------------------------------------------
\* The two arbitrations.

\* Headers in the order of a chain.
InOrder(H) ==
    /\ H \in Seq(Block) /\ H # <<>>
    /\ \A i \in 2 .. Len(H) : H[i] # Genesis /\ Parent[H[i]] = H[i - 1]

LEMMA InOrderPaths ==
    ASSUME NEW H, InOrder(H)
    PROVE  \A i \in 1 .. Len(H) : \A k \in 1 .. i :
              /\ H[i] \in Block /\ H[k] \in Block
              /\ OnPath(H[k], H[i])
              /\ HeightOf(H[i]) = HeightOf(H[k]) + (i - k)
<1> DEFINE Q == {n \in Nat : n + 1 \in 1 .. Len(H) =>
                    \A k \in 1 .. (n + 1) : /\ OnPath(H[k], H[n + 1])
                                            /\ HeightOf(H[n + 1]) = HeightOf(H[k]) + (n + 1 - k)}
<1>0. Len(H) \in Nat /\ \A i \in 1 .. Len(H) : H[i] \in Block
  BY DEF InOrder
<1>1. 0 \in Q
  <2>1. \A k \in 1 .. (0 + 1) : k = 1
    OBVIOUS
  <2>2. 0 + 1 \in 1 .. Len(H) => OnPath(H[1], H[1]) /\ HeightOf(H[1]) = HeightOf(H[1]) + (0 + 1 - 1)
    BY <1>0, OnPathOrder, Heights
  <2> QED
    BY <2>1, <2>2
<1>2. ASSUME NEW n \in Nat, n \in Q PROVE n + 1 \in Q
  <2> DEFINE m == n + 1
  <2> SUFFICES ASSUME m + 1 \in 1 .. Len(H), NEW k \in 1 .. (m + 1)
               PROVE  /\ OnPath(H[k], H[m + 1])
                      /\ HeightOf(H[m + 1]) = HeightOf(H[k]) + (m + 1 - k)
    OBVIOUS
  <2>1. m \in 1 .. Len(H) /\ m + 1 \in 2 .. Len(H) /\ (m + 1) - 1 = m
    BY <1>0
  <2>2. H[m + 1] # Genesis /\ Parent[H[m + 1]] = H[m] /\ H[m + 1] \in Block /\ H[m] \in Block
    BY <2>1, <1>0 DEF InOrder
  <2>3. OnPath(H[m], H[m + 1]) /\ HeightOf(H[m + 1]) = HeightOf(H[m]) + 1
    BY <2>2, OnPathOrder, Heights
  <2>4. CASE k = m + 1
    BY <2>4, <2>2, OnPathOrder, Heights
  <2>5. CASE k # m + 1
    <3>1. k \in 1 .. m /\ k \in 1 .. Len(H) /\ H[k] \in Block /\ HeightOf(H[k]) \in Nat
      BY <2>5, <2>1, <1>0, Heights
    <3>2. OnPath(H[k], H[m]) /\ HeightOf(H[m]) = HeightOf(H[k]) + (m - k)
      BY <1>2, <2>1, <3>1
    <3>3. OnPath(H[k], H[m + 1])
      BY <2>2, <2>3, <3>1, <3>2, OnPathOrder
    <3> QED
      BY <2>3, <3>1, <3>2, <3>3
  <2> QED
    BY <2>4, <2>5
<1> HIDE DEF Q
<1>3. Nat \subseteq Q
  BY <1>1, <1>2, NumberInduction
<1> USE DEF Q
<1>4. ASSUME NEW i \in 1 .. Len(H), NEW k \in 1 .. i
      PROVE  OnPath(H[k], H[i]) /\ HeightOf(H[i]) = HeightOf(H[k]) + (i - k)
  <2>1. i - 1 \in Nat /\ (i - 1) + 1 = i
    BY <1>0
  <2>2. i - 1 \in Q
    BY <2>1, <1>3
  <2> QED
    BY <2>1, <2>2
<1>5. \A i \in 1 .. Len(H) : \A k \in 1 .. i : k \in 1 .. Len(H)
  BY <1>0
<1> HIDE DEF Q
<1> QED
  BY <1>0, <1>4, <1>5

\* A set of positions with all those before them is an initial stretch.
LEMMA InitialStretch ==
    ASSUME NEW n \in Nat, NEW S \in SUBSET (1 .. n), \A i \in S : \A k \in 1 .. i : k \in S
    PROVE  \E m \in 0 .. n : S = 1 .. m
<1> DEFINE Closed(T) == \A i \in T : \A k \in 1 .. i : k \in T
           Q == {l \in Nat : \A T \in SUBSET (1 .. l) : Closed(T) => \E m \in 0 .. l : T = 1 .. m}
<1>1. 0 \in Q
  <2>1. \A T \in SUBSET (1 .. 0) : T = 1 .. 0
    <3>1. 1 .. 0 = {}
      OBVIOUS
    <3> QED
      BY <3>1
  <2>2. \A T \in SUBSET (1 .. 0) : \E m \in 0 .. 0 : T = 1 .. m
    <3> SUFFICES ASSUME NEW T \in SUBSET (1 .. 0) PROVE \E m \in 0 .. 0 : T = 1 .. m
      OBVIOUS
    <3>1. T = 1 .. 0 /\ 0 \in 0 .. 0
      BY <2>1
    <3> WITNESS 0 \in 0 .. 0
    <3> QED
      BY <3>1
  <2> QED
    BY <2>2
<1>2. ASSUME NEW l \in Nat, l \in Q PROVE l + 1 \in Q
  <2> SUFFICES ASSUME NEW T \in SUBSET (1 .. (l + 1)), Closed(T)
               PROVE  \E m \in 0 .. (l + 1) : T = 1 .. m
    OBVIOUS
  <2>1. CASE l + 1 \in T
    <3>1. \A k \in 1 .. (l + 1) : k \in T
      BY <2>1
    <3>2. T = 1 .. (l + 1)
      BY <3>1
    <3>3. l + 1 \in 0 .. (l + 1)
      OBVIOUS
    <3> WITNESS l + 1 \in 0 .. (l + 1)
    <3> QED
      BY <3>2
  <2>2. CASE l + 1 \notin T
    <3>1. T \in SUBSET (1 .. l)
      BY <2>2
    <3>2. PICK m \in 0 .. l : T = 1 .. m
      BY <1>2, <3>1
    <3> QED
      BY <3>2
  <2> QED
    BY <2>1, <2>2
<1> HIDE DEF Q
<1>3. Nat \subseteq Q
  BY <1>1, <1>2, NumberInduction
<1> USE DEF Q
<1> QED
  BY <1>3


\* The headers the node has are the first ones, and the block the weights are
\* compared from is the parent of the first one it has not.
LEMMA NewHeaders ==
    ASSUME tip \in Block, NEW H, InOrder(H), H[1] # Genesis, NewPart(H) # <<>>
    PROVE  \E m \in 0 .. (Len(H) - 1) :
              /\ Matched(H) = 1 .. m
              /\ NewPart(H) \in Seq(Block) /\ Len(NewPart(H)) = Len(H) - m
              /\ \A i \in 1 .. (Len(H) - m) : NewPart(H)[i] = H[m + i]
              /\ ForkBlock(H) = Parent[H[m + 1]]
              /\ m > 0 => Stored(ForkBlock(H)) /\ Stored(Parent[H[1]])
<1> DEFINE n == Len(H)
           S == Matched(H)
<1>1. n \in Nat \ {0} /\ H \in Seq(Block) /\ \A i \in 1 .. n : H[i] \in Block
  BY DEF InOrder
<1>2. S \in SUBSET (1 .. n)
  BY DEF Matched
<1>3. \A i \in S : \A k \in 1 .. i : k \in S
  <2> SUFFICES ASSUME NEW i \in S, NEW k \in 1 .. i PROVE k \in S
    OBVIOUS
  <2>1. i \in 1 .. n /\ k \in 1 .. n /\ OnPath(H[i], tip)
    BY <1>1 DEF Matched, Stored
  <2>2. OnPath(H[k], H[i])
    BY <2>1, InOrderPaths
  <2>3. OnPath(H[k], tip)
    BY <2>1, <2>2, <1>1, OnPathOrder
  <2> QED
    BY <2>1, <2>3 DEF Matched, Stored
<1> HIDE DEF S
<1>4. PICK m \in 0 .. n : S = 1 .. m
  <2> HIDE DEF n
  <2> QED
    BY <1>1, <1>2, <1>3, InitialStretch
<1>5. Cardinality(S) = m
  <2>1. Cardinality(1 .. m) = m
    BY FS_Interval
  <2> QED
    BY <1>4, <2>1
<1>6. NewPart(H) = SubSeq(H, m + 1, n)
  BY <1>5 DEF NewPart, S
<1>7. m < n
  <2>1. SubSeq(H, n + 1, n) = <<>>
    BY <1>1
  <2> QED
    BY <1>1, <1>4, <1>6, <2>1
<1>8. /\ NewPart(H) \in Seq(Block) /\ Len(NewPart(H)) = n - m
      /\ \A i \in 1 .. (n - m) : NewPart(H)[i] = H[m + i]
  <2> DEFINE B == SubSeq(H, m + 1, n)
  <2>1. m + 1 \in 1 .. n /\ n - m \in Nat /\ n - (m + 1) + 1 = n - m
    BY <1>1, <1>7
  <2>2. B \in Seq(Block) /\ Len(B) = n - m
    BY <1>1, <2>1
  <2>3. \A i \in 1 .. (n - m) : B[i] = H[(m + 1) + i - 1] /\ (m + 1) + i - 1 = m + i
    BY <1>1, <2>1
  <2> HIDE DEF B
  <2> QED
    BY <1>6, <2>2, <2>3 DEF B
<1>9. ForkBlock(H) = Parent[H[m + 1]] /\ (m > 0 => Stored(ForkBlock(H)) /\ Stored(Parent[H[1]]))
  <2>1. CASE m = 0
    <3>1. Matched(H) = {}
      BY <1>4, <2>1 DEF S
    <3> QED
      BY <2>1, <3>1 DEF ForkBlock
  <2>2. CASE m > 0
    <3>1. S # {} /\ m \in S /\ 1 \in S
      BY <1>4, <2>2
    <3>2. LastMatch(H) = m
      <4>1. \A i \in S : (\A k \in S : k <= i) <=> i = m
        BY <1>4
      <4> QED
        BY <3>1, <4>1 DEF LastMatch, S
    <3>3. ForkBlock(H) = H[m]
      BY <3>1, <3>2 DEF ForkBlock, S
    <3>4. Stored(H[m]) /\ Stored(H[1])
      BY <3>1 DEF Matched, S
    <3>5. Stored(Parent[H[1]])
      BY <1>1, <3>4, OnPathFacts DEF Stored
    <3>6. m + 1 \in 2 .. n /\ (m + 1) - 1 = m
      BY <1>1, <1>7, <2>2
    <3>7. Parent[H[m + 1]] = H[m]
      BY <3>6 DEF InOrder
    <3> QED
      BY <3>3, <3>4, <3>5, <3>7
  <2> QED
    BY <2>1, <2>2, <1>4
<1>10. m \in 0 .. (Len(H) - 1)
  BY <1>1, <1>7
<1> QED
  BY <1>4, <1>8, <1>9, <1>10 DEF S

\* evaluate_header_chain says of a list of headers what process_chain would
\* answer to the blocks of it the node has not.
LEMMA Arbitrations ==
    ASSUME tip \in Block, finalized \in 0 .. HeightOf(tip),
           NEW H, InOrder(H), H[1] # Genesis, NewPart(H) # <<>>
    PROVE  /\ Judge(H) \in {"admit", "pass", "firewall", "unknown parent"}
           /\ Judge(H) = "unknown parent" => Verdict(NewPart(H), {}) = "orphan"
           /\ Judge(H) = "admit" => Verdict(NewPart(H), {}) = "adopted"
           /\ Judge(H) \in {"pass", "firewall"} => Verdict(NewPart(H), {}) = "ignored"
<1> DEFINE n == Len(H)
           B == NewPart(H)
           F == ForkBlock(H)
           top == H[n]
<1>1. n \in Nat \ {0} /\ H \in Seq(Block) /\ \A i \in 1 .. n : H[i] \in Block
  BY DEF InOrder
<1>2. PICK m \in 0 .. (n - 1) :
         /\ Matched(H) = 1 .. m
         /\ B \in Seq(Block) /\ Len(B) = n - m
         /\ \A i \in 1 .. (n - m) : B[i] = H[m + i]
         /\ F = Parent[H[m + 1]]
         /\ m > 0 => Stored(F) /\ Stored(Parent[H[1]])
  BY NewHeaders
<1> HIDE DEF B, F
<1>3. m + 1 \in 1 .. n /\ n - m \in 1 .. n /\ m + (n - m) = n /\ n \in 1 .. n
  BY <1>1, <1>2
<1>4. B[1] = H[m + 1] /\ B[Len(B)] = top /\ F = Parent[B[1]] /\ top \in Block
  BY <1>1, <1>2, <1>3
<1>5. Linked(B)
  <2> SUFFICES ASSUME NEW i \in 2 .. Len(B) PROVE Parent[B[i]] = B[i - 1]
    BY DEF Linked
  <2>1. /\ i \in 1 .. (n - m) /\ i - 1 \in 1 .. (n - m) /\ m + i \in 2 .. n
        /\ m + (i - 1) = (m + i) - 1
    BY <1>1, <1>2
  <2>2. B[i] = H[m + i] /\ B[i - 1] = H[(m + i) - 1]
    BY <1>2, <2>1
  <2> QED
    BY <2>1, <2>2 DEF InOrder
<1>6. Stored(Parent[H[1]]) <=> Stored(F)
  BY <1>2
<1>7. Verdict(B, {}) = IF ~Stored(F) THEN "orphan" ELSE IF Wins(F, top) THEN "adopted" ELSE "ignored"
  BY <1>4, <1>5 DEF Verdict
<1>8. CASE ~Stored(F)
  <2>1. Judge(H) = "unknown parent"
    BY <1>6, <1>8 DEF Judge
  <2> QED
    BY <1>7, <1>8, <2>1 DEF B
<1>9. CASE Stored(F)
  <2>1. H[m + 1] # Genesis /\ H[m + 1] \in Block
    <3>1. CASE m = 0
      BY <1>1, <1>3, <3>1
    <3>2. CASE m # 0
      BY <1>1, <1>2, <1>3, <3>2 DEF InOrder
    <3> QED
      BY <3>1, <3>2
  <2>2. F \in Block /\ HeightOf(H[m + 1]) = HeightOf(F) + 1 /\ OnPath(F, H[m + 1])
    BY <1>2, <2>1, Heights, OnPathOrder
  <2>3. OnPath(H[m + 1], top)
    BY <1>3, InOrderPaths
  <2>4. OnPath(F, top) /\ OnPath(F, tip)
    BY <1>4, <1>9, <2>1, <2>2, <2>3, OnPathOrder DEF Stored
  <2> DEFINE base == AbsWeight[F]
             new == AbsWeight[top]
             local == AbsWeight[tip]
  <2>5. base \in Nat /\ new \in Nat /\ local \in Nat /\ base <= new /\ base <= local
    BY <1>4, <2>2, <2>4, WeightRises, Weights
  <2>6. Sat(new, base) = new - base /\ Sat(local, base) = local - base
    BY <2>5 DEF Sat
  <2>7. IsDeepReorg(H) <=> HeightOf(F) < finalized
    <3>0. HeightOf(F) \in Nat /\ HeightOf(tip) \in Nat /\ Lower(finalized, HeightOf(tip)) = finalized
      BY <2>2, Heights DEF Lower
    <3>1. ASSUME HeightOf(F) < finalized PROVE IsDeepReorg(H)
      <4>1. ~Stored(H[m + 1])
        <5>1. m + 1 \notin 1 .. m
          BY <1>2
        <5> QED
          BY <5>1, <1>2, <1>3 DEF Matched
      <4>2. HeightOf(H[m + 1]) <= finalized
        BY <2>2, <3>0, <3>1
      <4> QED
        BY <1>3, <3>0, <4>1, <4>2 DEF IsDeepReorg
    <3>2. ASSUME IsDeepReorg(H) PROVE HeightOf(F) < finalized
      <4>1. PICK i \in 1 .. n : HeightOf(H[i]) <= finalized /\ ~Stored(H[i])
        BY <3>0, <3>2 DEF IsDeepReorg
      <4>2. i \notin 1 .. m
        BY <1>2, <4>1 DEF Matched
      <4>3. m + 1 \in 1 .. i
        BY <1>1, <1>2, <4>2
      <4>4. HeightOf(H[i]) = HeightOf(H[m + 1]) + (i - (m + 1))
        BY <4>3, InOrderPaths
      <4> QED
        BY <1>2, <2>2, <3>0, <4>1, <4>3, <4>4
    <3> QED
      BY <3>1, <3>2
  <2> HIDE DEF base, new, local, top
  <2>8. Wins(F, top) <=> IF HeightOf(F) < finalized
                         THEN new - base >= OverrideFactor * (local - base)
                         ELSE new > local
    BY DEF Wins, base, new, local
  <2>9. Judge(H) = IF HeightOf(F) < finalized
                   THEN IF new - base >= OverrideFactor * (local - base) THEN "admit"
                        ELSE IF new - base >= local - base THEN "pass" ELSE "firewall"
                   ELSE IF new > local THEN "admit" ELSE "pass"
    <3>1. Stored(Parent[H[1]])
      BY <1>6, <1>9
    <3> HIDE DEF n
    <3> QED
      BY <2>6, <2>7, <3>1 DEF Judge, base, new, local, top, F, n
  <2> QED
    BY <1>7, <1>9, <2>8, <2>9 DEF B
<1> QED
  BY <1>8, <1>9


---------------------------------------------------------------------------
\* The inductive invariant of one CatchUpSync call.

\* The call started at or below the first height above its checkpoint, and
\* only moves its start down.
StartsLow == pc # "idle" => startH <= fH + 1 /\ fH <= actualH

\* What was downloaded is a piece of a chain, from startH on.
HeadersInOrder ==
    pc \notin {"idle", "headers"} => InOrder(hBatch) /\ HeightOf(hBatch[1]) = startH

\* The bodies still to come lie within the headers.
PointInHeaders ==
    /\ pc \in {"fetch", "bodies", "deliver"} => startH <= point + 1 /\ point <= Highest
    /\ pc \in {"bodies", "deliver"} => point < Highest
    /\ pc = "deliver" => limitH \in (point + 1) .. Highest

CallInv == TypeOK /\ StartsLow /\ HeadersInOrder /\ PointInHeaders

\* Headers in order have the heights from that of the first on.
LEMMA HeadersOf ==
    ASSUME TypeOK, HeadersInOrder, pc \notin {"idle", "headers"}
    PROVE  /\ InOrder(hBatch) /\ hBatch[1] \in Block /\ HeightOf(hBatch[1]) = startH
           /\ Len(hBatch) \in Nat \ {0}
           /\ Highest = startH + Len(hBatch) - 1 /\ Highest \in Nat
           /\ \A h \in startH .. Highest : Header(h) \in Block /\ HeightOf(Header(h)) = h
<1>1. InOrder(hBatch) /\ HeightOf(hBatch[1]) = startH
  BY DEF HeadersInOrder
<1>2. /\ Len(hBatch) \in Nat \ {0} /\ startH \in Nat
      /\ \A i \in 1 .. Len(hBatch) : hBatch[i] \in Block
  BY <1>1 DEF InOrder, TypeOK
<1>3. \A i \in 1 .. Len(hBatch) : HeightOf(hBatch[i]) = startH + i - 1
  <2> SUFFICES ASSUME NEW i \in 1 .. Len(hBatch) PROVE HeightOf(hBatch[i]) = startH + i - 1
    OBVIOUS
  <2>1. 1 \in 1 .. i
    BY <1>2
  <2>2. HeightOf(hBatch[i]) = HeightOf(hBatch[1]) + (i - 1)
    BY <1>1, <2>1, InOrderPaths
  <2> QED
    BY <1>1, <1>2, <2>2
<1>4. Highest = startH + Len(hBatch) - 1 /\ Highest \in Nat
  BY <1>2, <1>3 DEF Highest
<1>5. ASSUME NEW h \in startH .. Highest
      PROVE  Header(h) \in Block /\ HeightOf(Header(h)) = h
  <2> DEFINE i == h - startH + 1
  <2>1. i \in 1 .. Len(hBatch) /\ h = startH + i - 1
    BY <1>2, <1>4
  <2>2. Header(h) = hBatch[i]
    BY <1>1 DEF Header
  <2> HIDE DEF i
  <2> QED
    BY <1>2, <1>3, <2>1, <2>2
<1> QED
  BY <1>1, <1>2, <1>4, <1>5

\* One answer of the core.
LEMMA ProcessChainType ==
    ASSUME tip \in Block, finalized \in 0 .. HeightOf(tip),
           NEW B \in Seq(Block), B # <<>>, NEW X, ProcessChain(B, X)
    PROVE  /\ tip' \in Block /\ finalized' \in 0 .. HeightOf(tip')
           /\ Verdict(B, X) \in {"ignored", "adopted", "orphan", "fraud", "mismatch"}
<1> DEFINE top == B[Len(B)]
           base == HeightOf(Parent[B[1]])
<1>1. B[1] \in Block /\ top \in Block /\ Parent[B[1]] \in Block
  BY LedgerAssumption
<1>2. HeightOf(top) \in Nat /\ HeightOf(tip) \in Nat /\ base \in Nat /\ FinalityDepth \in Nat
  BY <1>1, Heights, LedgerAssumption
<1>3. Verdict(B, X) \in {"ignored", "adopted", "orphan", "fraud", "mismatch"}
  BY DEF Verdict
<1>4. CASE Verdict(B, X) = "adopted"
  <2>1. tip' = top /\ finalized' = Sat(HeightOf(top), FinalityDepth)
    BY <1>4 DEF ProcessChain
  <2> HIDE DEF top
  <2>2. Sat(HeightOf(top), FinalityDepth) \in 0 .. HeightOf(top)
    BY <1>2 DEF Sat
  <2>3. HeightOf(tip') = HeightOf(top)
    BY <2>1
  <2> QED
    BY <1>1, <1>3, <2>1, <2>2, <2>3
<1>5. CASE Verdict(B, X) = "mismatch"
  <2> DEFINE n == FirstBare(B, X) - 1
             left == IF n > 0 THEN Sat(base + n, FinalityDepth) ELSE finalized
  <2>1. tip' = tip /\ finalized' = Higher(Lower(base, left), Sat(HeightOf(tip), FinalityDepth))
    BY <1>5 DEF ProcessChain, LeftAt
  <2>2. base <= HeightOf(tip)
    BY <1>5 DEF Verdict, Stored, OnPath
  <2>3. left \in Nat
    <3>1. FirstBare(B, X) \in Nat
      <4>1. PICK i \in 1 .. Len(B) : B[i] \in X
        BY <1>5 DEF Verdict
      <4> DEFINE fails == {k \in 1 .. Len(B) : B[k] \in X}
      <4>2. PICK k \in fails : \A j \in fails : k <= j
        <5>1. fails \subseteq Nat /\ fails # {}
          BY <4>1
        <5> HIDE DEF fails
        <5> QED
          BY <5>1, LeastNumber
      <4>3. \A j \in 1 .. (k - 1) : B[j] \notin X
        BY <4>2
      <4>4. FirstBare(B, X) \in 1 .. Len(B)
        BY <4>2, <4>3 DEF FirstBare
      <4> QED
        BY <4>4
    <3> QED
      BY <1>2, <3>1 DEF Sat
  <2> HIDE DEF base, left
  <2>4. Higher(Lower(base, left), Sat(HeightOf(tip), FinalityDepth)) \in 0 .. HeightOf(tip)
    BY <1>2, <2>2, <2>3 DEF Higher, Lower, Sat
  <2>5. HeightOf(tip') = HeightOf(tip)
    BY <2>1
  <2> QED
    BY <1>3, <2>1, <2>4, <2>5
<1>6. CASE Verdict(B, X) \notin {"adopted", "mismatch"}
  <2>1. tip' = tip /\ finalized' = finalized
    BY <1>6 DEF ProcessChain, ledgerVars
  <2>2. HeightOf(tip') = HeightOf(tip)
    BY <2>1
  <2> QED
    BY <1>3, <2>1, <2>2
<1> QED
  BY <1>4, <1>5, <1>6

\* A step that leaves the call alone.
LEMMA QuietCall ==
    ASSUME CallInv, UNCHANGED <<catchUpVars, pc, rootErrors, strikes, outcome>>,
           tip' \in Block, finalized' \in 0 .. HeightOf(tip'),
           peerTip' \in PeerTips, pending' \subseteq CachedBlocks
    PROVE  CallInv'
<1>1. TypeOK'
  BY DEF CallInv, TypeOK, catchUpVars, began
<1>2. StartsLow'
  BY DEF CallInv, StartsLow, catchUpVars, began
<1>3. HeadersInOrder'
  BY DEF CallInv, HeadersInOrder, catchUpVars, began, InOrder, HeightOf
<1>4. PointInHeaders'
  BY DEF CallInv, PointInHeaders, catchUpVars, began, Highest, HeightOf
<1> QED
  BY <1>1, <1>2, <1>3, <1>4 DEF CallInv

\* The end of a call.
LEMMA ReturnCall ==
    ASSUME CallInv, NEW result \in Outcome, Return(result), strikes' \in 0 .. MaxStrikes,
           UNCHANGED <<ledgerVars, peerTip, pending, rootErrors>>
    PROVE  CallInv'
<1>1. tip' \in Block /\ finalized' \in 0 .. HeightOf(tip')
  BY DEF CallInv, TypeOK, ledgerVars, HeightOf
<1>2. TypeOK'
  <2>1. stepBacks' \in 0 .. Len(StepBacks)
    BY CatchUpAssumption DEF Return
  <2>2. hBatch' \in Seq(Block) /\ debt' \in Seq(Block)
    BY DEF Return, NoHeaders
  <2>3. oldTip' \in Block
    BY LedgerAssumption DEF Return
  <2> QED
    BY <1>1, <2>1, <2>2, <2>3 DEF CallInv, TypeOK, Return, Phase, Reply
<1>3. pc' = "idle"
  BY DEF Return
<1> QED
  BY <1>2, <1>3 DEF CallInv, StartsLow, HeadersInOrder, PointInHeaders

LEMMA Struck ==
    ASSUME TypeOK, PunishPeer
    PROVE  strikes' \in 0 .. MaxStrikes
BY DEF TypeOK, PunishPeer, MaxStrikes, Lower


LEMMA StartCall ==
    ASSUME CallInv, Start
    PROVE  CallInv'
<1>1. /\ tip \in Block /\ peerTip \in Block /\ finalized \in Nat /\ HeightOf(tip) \in Nat
      /\ HeightOf(peerTip) \in Nat /\ finalized <= HeightOf(tip)
  BY Heights, CatchUpAssumption DEF CallInv, TypeOK
<1>2. /\ pc' = "headers" /\ startH' = finalized + 1 /\ fH' = finalized
      /\ actualH' = HeightOf(tip) /\ oldTip' = tip /\ peerH' = HeightOf(peerTip)
      /\ outcome' = "none" /\ UNCHANGED <<tip, finalized>>
  BY DEF Start, ledgerVars
<1>3. HeightOf(tip') = HeightOf(tip)
  BY <1>2
<1>4. TypeOK'
  BY <1>1, <1>2, <1>3 DEF CallInv, TypeOK, Start, Phase, Outcome
<1>5. StartsLow' /\ HeadersInOrder' /\ PointInHeaders'
  BY <1>1, <1>2 DEF StartsLow, HeadersInOrder, PointInHeaders
<1> QED
  BY <1>4, <1>5 DEF CallInv

\* The headers that arrive are those of the peer's chain.
LEMMA Downloaded ==
    ASSUME CallInv, DownloadHeaders
    PROVE  /\ peerTip \in Block /\ HeightOf(peerTip) \in Nat /\ startH \in Nat
           /\ hBatch' \in Seq(Block) /\ Len(hBatch') \in Nat \ {0}
           /\ \A i \in 1 .. Len(hBatch') : /\ hBatch'[i] = At(peerTip, startH + i - 1)
                                          /\ startH + i - 1 \in 0 .. HeightOf(peerTip)
<1> DEFINE low == Lower(peerH, HeightOf(peerTip))
           last == Lower(low, startH + HeaderSpan - 1)
           path == PathTo[peerTip]
<1>1. /\ peerTip \in Block /\ HeightOf(peerTip) \in Nat /\ startH \in Nat /\ peerH \in Nat
      /\ HeaderSpan \in Nat \ {0} /\ low >= startH
      /\ hBatch' = SubSeq(path, startH + 1, last + 1)
  BY Heights, CatchUpAssumption DEF CallInv, TypeOK, DownloadHeaders
<1>2. last \in startH .. HeightOf(peerTip)
  BY <1>1 DEF Lower
<1>3. /\ path \in Seq(Block) /\ Len(path) = HeightOf(peerTip) + 1
      /\ \A h \in 0 .. HeightOf(peerTip) : path[h + 1] = At(peerTip, h)
  BY <1>1, PathsSound DEF PathSound, HeightOf, At
<1> HIDE DEF path, low, last
<1>4. /\ hBatch' \in Seq(Block) /\ Len(hBatch') = last - startH + 1
      /\ \A i \in 1 .. (last - startH + 1) : hBatch'[i] = path[(startH + 1) + i - 1]
  <2>1. startH + 1 \in 1 .. Len(path) /\ last + 1 \in (startH + 1) .. Len(path)
        /\ (last + 1) - (startH + 1) + 1 = last - startH + 1
    BY <1>1, <1>2, <1>3
  <2> QED
    BY <1>1, <1>3, <2>1
<1>5. ASSUME NEW i \in 1 .. Len(hBatch')
      PROVE  hBatch'[i] = At(peerTip, startH + i - 1) /\ startH + i - 1 \in 0 .. HeightOf(peerTip)
  <2>0. last \in Int /\ last <= HeightOf(peerTip) /\ i \in 1 .. (last - startH + 1)
    BY <1>1, <1>2, <1>4
  <2>1. startH + i - 1 \in 0 .. HeightOf(peerTip) /\ (startH + 1) + i - 1 = (startH + i - 1) + 1
    BY <1>1, <2>0
  <2> QED
    BY <1>3, <1>4, <2>1
<1>6. Len(hBatch') \in Nat \ {0}
  BY <1>1, <1>2, <1>4
<1> QED
  BY <1>1, <1>4, <1>5, <1>6

LEMMA DownloadCall ==
    ASSUME CallInv, DownloadHeaders
    PROVE  CallInv'
<1>1. /\ peerTip \in Block /\ HeightOf(peerTip) \in Nat /\ startH \in Nat
      /\ hBatch' \in Seq(Block) /\ Len(hBatch') \in Nat \ {0}
  BY Downloaded
<1>2. ASSUME NEW i \in 1 .. Len(hBatch')
      PROVE  hBatch'[i] = At(peerTip, startH + i - 1) /\ startH + i - 1 \in 0 .. HeightOf(peerTip)
  BY Downloaded
<1>3. InOrder(hBatch')
  <2>1. hBatch' # <<>> /\ Len(hBatch') \in Nat
    BY <1>1
  <2>2. ASSUME NEW i \in 2 .. Len(hBatch')
        PROVE  hBatch'[i] # Genesis /\ Parent[hBatch'[i]] = hBatch'[i - 1]
    <3> DEFINE h == startH + i - 1
    <3>0. startH \in Nat
      BY <1>1
    <3>1. i \in 1 .. Len(hBatch') /\ i - 1 \in 1 .. Len(hBatch') /\ startH + (i - 1) - 1 = h - 1
      BY <2>1, <3>0
    <3>2. hBatch'[i] = At(peerTip, h) /\ hBatch'[i - 1] = At(peerTip, h - 1) /\ h \in 0 .. HeightOf(peerTip)
      BY <1>2, <3>1
    <3>3. h > 0
      BY <1>1
    <3> HIDE DEF h
    <3> QED
      BY <1>1, <3>2, <3>3, Ancestors
  <2> QED
    BY <1>1, <2>1, <2>2 DEF InOrder
<1>4. HeightOf(hBatch'[1]) = startH
  <2>1. 1 \in 1 .. Len(hBatch') /\ startH + 1 - 1 = startH
    BY <1>1
  <2>2. hBatch'[1] = At(peerTip, startH) /\ startH \in 0 .. HeightOf(peerTip)
    BY <1>2, <2>1
  <2> QED
    BY <1>1, <2>2, Ancestors
<1>5. UNCHANGED <<tip, finalized, startH, fH, actualH>> /\ pc = "headers" /\ pc' = "judge"
  BY DEF DownloadHeaders, ledgerVars, began
<1>6. TypeOK'
  BY <1>1, <1>5 DEF CallInv, TypeOK, DownloadHeaders, began, ledgerVars, Phase, HeightOf
<1>7. StartsLow' /\ PointInHeaders'
  BY <1>5 DEF CallInv, StartsLow, PointInHeaders
<1>8. HeadersInOrder'
  <2>1. InOrder(hBatch)' /\ HeightOf(hBatch[1])' = startH'
    BY <1>3, <1>4, <1>5 DEF InOrder, HeightOf
  <2> QED
    BY <2>1 DEF HeadersInOrder
<1> QED
  BY <1>6, <1>7, <1>8 DEF CallInv

LEMMA StepBackCall ==
    ASSUME CallInv, StepBack
    PROVE  CallInv'
<1>1. /\ startH \in Nat /\ stepBacks \in 0 .. Len(StepBacks)
      /\ StepBacks \in Seq(Nat) /\ Len(StepBacks) \in Nat \ {0}
  BY CatchUpAssumption DEF CallInv, TypeOK
<1>2. StepLength(stepBacks + 1) \in Nat
  <2>1. Lower(stepBacks + 1, Len(StepBacks)) \in 1 .. Len(StepBacks)
    BY <1>1 DEF Lower
  <2> QED
    BY <1>1, <2>1 DEF StepLength
<1>3. startH' \in Nat /\ startH' <= startH
  <2>1. startH' = Sat(startH, StepLength(stepBacks + 1))
    BY DEF StepBack
  <2> QED
    BY <1>1, <1>2, <2>1 DEF Sat
<1>4. stepBacks' \in 0 .. Len(StepBacks)
  <2>1. stepBacks' = Lower(stepBacks + 1, Len(StepBacks))
    BY DEF StepBack
  <2> QED
    BY <1>1, <2>1 DEF Lower
<1>5. UNCHANGED <<tip, finalized, fH, actualH>> /\ pc = "judge" /\ pc' = "headers"
  BY DEF StepBack, ledgerVars, began
<1>6. TypeOK'
  BY <1>3, <1>4, <1>5 DEF CallInv, TypeOK, StepBack, began, ledgerVars, Phase, HeightOf
<1>7. StartsLow'
  BY <1>1, <1>3, <1>5 DEF CallInv, TypeOK, StartsLow
<1> QED
  BY <1>5, <1>6, <1>7 DEF CallInv, HeadersInOrder, PointInHeaders

\* The last stored header.
LEMMA LastMatchIsLast ==
    ASSUME tip \in Block, NEW H, InOrder(H), Matched(H) # {}
    PROVE  LastMatch(H) \in Matched(H) /\ \A k \in Matched(H) : k <= LastMatch(H)
<1>0. /\ Len(H) \in Nat /\ \A i \in 1 .. Len(H) : H[i] \in Block
      /\ Matched(H) \in SUBSET (1 .. Len(H))
  BY DEF InOrder, Matched
<1>1. \A j \in Matched(H) : \A k \in 1 .. j : k \in Matched(H)
  <2> SUFFICES ASSUME NEW j \in Matched(H), NEW k \in 1 .. j PROVE k \in Matched(H)
    OBVIOUS
  <2>1. j \in 1 .. Len(H) /\ k \in 1 .. Len(H) /\ OnPath(H[j], tip)
    BY <1>0 DEF Matched, Stored
  <2>2. OnPath(H[k], H[j]) /\ H[k] \in Block /\ H[j] \in Block
    BY <2>1, InOrderPaths
  <2>3. OnPath(H[k], tip)
    BY <2>1, <2>2, OnPathOrder
  <2> QED
    BY <2>1, <2>3 DEF Matched, Stored
<1>2. PICK m \in 0 .. Len(H) : Matched(H) = 1 .. m
  BY <1>0, <1>1, InitialStretch
<1>3. m \in Matched(H) /\ \A j \in Matched(H) : j <= m
  BY <1>2
<1> QED
  BY <1>3 DEF LastMatch

LEMMA AdmitCall ==
    ASSUME CallInv, Admit
    PROVE  CallInv'
<1>0. TypeOK /\ HeadersInOrder /\ StartsLow /\ pc = "judge"
  BY DEF CallInv, Admit
<1>1. /\ InOrder(hBatch) /\ hBatch[1] \in Block /\ HeightOf(hBatch[1]) = startH
      /\ Len(hBatch) \in Nat \ {0}
      /\ Highest = startH + Len(hBatch) - 1 /\ Highest \in Nat
  BY <1>0, HeadersOf
<1>2. startH \in Nat /\ fH \in Nat /\ actualH \in Nat /\ startH <= fH + 1 /\ fH <= actualH
  BY <1>0 DEF TypeOK, StartsLow
<1>3. ForkPoint(hBatch) \in Nat /\ startH <= ForkPoint(hBatch) + 1 /\ ForkPoint(hBatch) <= Highest
  <2>1. CASE hBatch[1] = Genesis
    BY <2>1, <1>1, <1>2, Heights DEF ForkPoint
  <2>2. CASE hBatch[1] # Genesis /\ Matched(hBatch) = {}
    <3>1. /\ ForkPoint(hBatch) = HeightOf(Parent[hBatch[1]]) /\ Parent[hBatch[1]] \in Block
          /\ HeightOf(hBatch[1]) = HeightOf(Parent[hBatch[1]]) + 1
      BY <2>2, <1>1, Heights DEF ForkPoint, ForkBlock
    <3>2. HeightOf(Parent[hBatch[1]]) \in Nat
      BY <3>1, Heights
    <3> QED
      BY <3>1, <3>2, <1>1
  <2>3. CASE hBatch[1] # Genesis /\ Matched(hBatch) # {}
    <3> DEFINE i == LastMatch(hBatch)
    <3>1. i \in 1 .. Len(hBatch)
      <4>1. tip \in Block
        BY <1>0 DEF TypeOK
      <4>2. i \in Matched(hBatch)
        BY <2>3, <1>1, <4>1, LastMatchIsLast
      <4> QED
        BY <4>2 DEF Matched
    <3> HIDE DEF i
    <3>2. ForkPoint(hBatch) = HeightOf(hBatch[i])
      BY <2>3 DEF ForkPoint, ForkBlock, i
    <3>3. 1 \in 1 .. i
      BY <3>1
    <3>4. HeightOf(hBatch[i]) = HeightOf(hBatch[1]) + (i - 1)
      BY <1>1, <3>1, <3>3, InOrderPaths
    <3> QED
      BY <1>1, <1>2, <3>1, <3>2, <3>4
  <2> QED
    BY <2>1, <2>2, <2>3
<1>4. /\ UNCHANGED <<tip, finalized, startH, fH, actualH, hBatch>> /\ pc' = "fetch"
      /\ fork' = ForkPoint(hBatch) /\ point' = Lower(ForkPoint(hBatch), actualH)
  BY DEF Admit, ledgerVars, began
<1>5. point' \in Nat /\ startH <= point' + 1 /\ point' <= Highest
  BY <1>1, <1>2, <1>3, <1>4 DEF Lower
<1>6. TypeOK'
  BY <1>3, <1>4, <1>5 DEF CallInv, TypeOK, Admit, began, ledgerVars, Phase, HeightOf
<1>7. StartsLow'
  BY <1>0, <1>4 DEF StartsLow
<1>8. HeadersInOrder'
  BY <1>0, <1>4 DEF HeadersInOrder, InOrder, HeightOf
<1>9. PointInHeaders'
  BY <1>4, <1>5 DEF PointInHeaders, Highest, HeightOf
<1> QED
  BY <1>6, <1>7, <1>8, <1>9 DEF CallInv


LEMMA FetchSmartCall ==
    ASSUME CallInv, FetchSmart
    PROVE  CallInv'
<1>0. TypeOK /\ HeadersInOrder /\ StartsLow /\ PointInHeaders /\ pc = "fetch" /\ point < Highest
  BY DEF CallInv, FetchSmart
<1>1. Highest \in Nat /\ point \in Nat /\ startH <= point + 1 /\ peerTip \in Block /\ HeightOf(peerTip) \in Nat
  BY <1>0, HeadersOf, Heights, CatchUpAssumption DEF TypeOK, PointInHeaders
<1>2. PICK n \in SmartAnswers :
         LET last == Lower(Lower(point + n, Highest), HeightOf(peerTip))
         IN  /\ last > point
             /\ debt' = [i \in 1 .. (last - point) |-> At(peerTip, point + i)]
             /\ limitH' = last
  BY DEF FetchSmart
<1> DEFINE last == Lower(Lower(point + n, Highest), HeightOf(peerTip))
<1>3. /\ last > point /\ limitH' = last
      /\ debt' = [i \in 1 .. (last - point) |-> At(peerTip, point + i)]
  BY <1>2
<1>4. n \in Nat
  BY CatchUpAssumption
<1>5. last \in Nat /\ last <= Highest /\ last <= HeightOf(peerTip)
  BY <1>1, <1>4 DEF Lower
<1> HIDE DEF last
<1>6. debt' \in Seq(Block)
  <2>1. last - point \in Nat
    BY <1>1, <1>3, <1>5
  <2>2. \A i \in 1 .. (last - point) : point + i \in 0 .. HeightOf(peerTip)
    BY <1>1, <1>5
  <2>3. \A i \in 1 .. (last - point) : At(peerTip, point + i) \in Block
    BY <1>1, <2>2, Ancestors
  <2> QED
    BY <1>3, <2>1, <2>3
<1>7. /\ UNCHANGED <<tip, finalized, startH, fH, actualH, hBatch, point>> /\ pc' = "deliver"
      /\ bare' = {} /\ reply' = "none" /\ smart' = TRUE
  BY DEF FetchSmart, ledgerVars, began
<1>8. TypeOK'
  BY <1>0, <1>3, <1>5, <1>6, <1>7 DEF TypeOK, FetchSmart, began, ledgerVars, Phase, Reply, HeightOf
<1>9. StartsLow'
  BY <1>0, <1>7 DEF StartsLow
<1>10. HeadersInOrder'
  BY <1>0, <1>7 DEF HeadersInOrder, InOrder, HeightOf
<1>11. PointInHeaders'
  <2>1. limitH' \in (point + 1) .. Highest
    BY <1>1, <1>3, <1>5
  <2> QED
    BY <1>0, <1>1, <1>7, <2>1 DEF PointInHeaders, Highest, HeightOf
<1> QED
  BY <1>8, <1>9, <1>10, <1>11 DEF CallInv

LEMMA FetchByHeightCall ==
    ASSUME CallInv, FetchByHeight
    PROVE  CallInv'
<1>0. TypeOK /\ HeadersInOrder /\ StartsLow /\ PointInHeaders /\ pc = "fetch" /\ point < Highest
  BY DEF CallInv, FetchByHeight
<1>1. UNCHANGED <<tip, finalized, startH, fH, actualH, hBatch, point>> /\ pc' = "bodies"
  BY DEF FetchByHeight, ledgerVars, catchUpVars, began
<1>2. TypeOK'
  BY <1>0, <1>1 DEF TypeOK, FetchByHeight, catchUpVars, began, ledgerVars, Phase, HeightOf
<1>3. StartsLow' /\ HeadersInOrder'
  BY <1>0, <1>1 DEF StartsLow, HeadersInOrder, InOrder, HeightOf
<1>4. PointInHeaders'
  BY <1>0, <1>1 DEF PointInHeaders, Highest, HeightOf
<1> QED
  BY <1>2, <1>3, <1>4 DEF CallInv

\* What stands for a height is a block of that height.
LEMMA BodyOf ==
    ASSUME TypeOK, HeadersInOrder, pc \notin {"idle", "headers"}, NEW h \in startH .. Highest
    PROVE  Body(h) \in Block /\ HeightOf(Body(h)) = h
<1>1. Header(h) \in Block /\ HeightOf(Header(h)) = h
  BY HeadersOf
<1>2. Cached(h) # {} => (CHOOSE b \in Cached(h) : TRUE) \in Cached(h)
  OBVIOUS
<1>3. \A b \in Cached(h) : b \in Block /\ HeightOf(b) = h
  BY CatchUpAssumption DEF Cached, TypeOK
<1> QED
  BY <1>1, <1>2, <1>3 DEF Body

LEMMA GatherCall ==
    ASSUME CallInv, Gather
    PROVE  CallInv'
<1>0. TypeOK /\ HeadersInOrder /\ StartsLow /\ PointInHeaders /\ pc = "bodies" /\ point < Highest
  BY DEF CallInv, Gather, PointInHeaders
<1>1. /\ Highest \in Nat /\ point \in Nat /\ startH \in Nat /\ startH <= point + 1
      /\ BodySpan \in Nat \ {0} /\ finalized \in Nat
  BY <1>0, HeadersOf, Heights, CatchUpAssumption DEF TypeOK, PointInHeaders
<1> DEFINE last == Lower(Highest, point + BodySpan)
<1>2. /\ debt' = [i \in 1 .. (last - point) |-> Body(point + i)]
      /\ bare' = {Header(h) : h \in (point + 1) .. (Lower(last + 1, finalized) - 1)}
      /\ limitH' = last
  BY DEF Gather
<1>3. last \in (point + 1) .. Highest
  BY <1>0, <1>1 DEF Lower
<1> HIDE DEF last
<1>4. debt' \in Seq(Block)
  <2>1. last - point \in Nat
    BY <1>1, <1>3
  <2>2. \A i \in 1 .. (last - point) : point + i \in startH .. Highest
    BY <1>1, <1>3
  <2>3. \A i \in 1 .. (last - point) : Body(point + i) \in Block
    BY <1>0, <2>2, BodyOf
  <2> QED
    BY <1>2, <2>1, <2>3
<1>5. bare' \subseteq Block
  <2>1. \A h \in (point + 1) .. (Lower(last + 1, finalized) - 1) : h \in startH .. Highest
    BY <1>1, <1>3 DEF Lower
  <2>2. \A h \in (point + 1) .. (Lower(last + 1, finalized) - 1) : Header(h) \in Block
    BY <1>0, <2>1, HeadersOf
  <2> QED
    BY <1>2, <2>2
<1>6. /\ UNCHANGED <<tip, finalized, startH, fH, actualH, hBatch, point>> /\ pc' = "deliver"
      /\ reply' = "none" /\ smart' = FALSE
  BY DEF Gather, ledgerVars, began
<1>7. limitH' \in Nat /\ limitH' \in (point + 1) .. Highest
  BY <1>1, <1>2, <1>3
<1>8. TypeOK'
  BY <1>0, <1>4, <1>5, <1>6, <1>7 DEF TypeOK, Gather, began, ledgerVars, Phase, Reply, HeightOf
<1>9. StartsLow' /\ HeadersInOrder'
  BY <1>0, <1>6 DEF StartsLow, HeadersInOrder, InOrder, HeightOf
<1>10. PointInHeaders'
  BY <1>0, <1>6, <1>7 DEF PointInHeaders, Highest, HeightOf
<1> QED
  BY <1>8, <1>9, <1>10 DEF CallInv

\* The next chunk is a nonempty beginning of what is still to be processed.
LEMMA ChunkOf ==
    ASSUME TypeOK, debt # <<>>
    PROVE  /\ Chunk \in Seq(Block) /\ Chunk # <<>> /\ Len(Chunk) \in 1 .. Len(debt)
           /\ \A i \in 1 .. Len(Chunk) : Chunk[i] = debt[i]
           /\ SubSeq(debt, Len(Chunk) + 1, Len(debt)) \in Seq(Block)
<1>1. debt \in Seq(Block) /\ Len(debt) \in Nat \ {0} /\ ChunkSize \in Nat \ {0}
  BY CatchUpAssumption DEF TypeOK
<1> DEFINE n == Lower(ChunkSize, Len(debt))
<1>2. n \in 1 .. Len(debt)
  BY <1>1 DEF Lower
<1>3. Chunk = SubSeq(debt, 1, n)
  BY DEF Chunk
<1> HIDE DEF n
<1>4. Chunk \in Seq(Block) /\ Len(Chunk) = n /\ \A i \in 1 .. n : Chunk[i] = debt[i]
  BY <1>1, <1>2, <1>3
<1>5. SubSeq(debt, n + 1, Len(debt)) \in Seq(Block)
  BY <1>1, <1>2
<1>6. Chunk # <<>>
  BY <1>2, <1>4
<1> QED
  BY <1>2, <1>4, <1>5, <1>6

LEMMA DeliverCall ==
    ASSUME CallInv, Deliver
    PROVE  CallInv'
<1>0. TypeOK /\ HeadersInOrder /\ StartsLow /\ PointInHeaders /\ pc = "deliver" /\ debt # <<>>
  BY DEF CallInv, Deliver
<1>1. /\ Chunk \in Seq(Block) /\ Chunk # <<>>
      /\ SubSeq(debt, Len(Chunk) + 1, Len(debt)) \in Seq(Block)
  BY <1>0, ChunkOf
<1>2. tip \in Block /\ finalized \in 0 .. HeightOf(tip) /\ ProcessChain(Chunk, bare)
  BY <1>0 DEF TypeOK, Deliver
<1>3. /\ tip' \in Block /\ finalized' \in 0 .. HeightOf(tip')
      /\ Verdict(Chunk, bare) \in {"ignored", "adopted", "orphan", "fraud", "mismatch"}
  BY <1>1, <1>2, ProcessChainType
<1>4. debt' \in Seq(Block) /\ reply' \in Reply
  BY <1>1, <1>3 DEF Deliver, Reply
<1>5. UNCHANGED <<pc, startH, fH, actualH, hBatch, point, limitH>>
  BY DEF Deliver, began
<1>6. TypeOK'
  <2>1. HeightOf(tip)' = HeightOf(tip')
    BY DEF HeightOf
  <2> QED
    BY <1>0, <1>3, <1>4, <1>5, <2>1 DEF TypeOK, Deliver, began
<1>7. StartsLow' /\ HeadersInOrder'
  BY <1>0, <1>5 DEF StartsLow, HeadersInOrder, InOrder, HeightOf
<1>8. PointInHeaders'
  BY <1>0, <1>5 DEF PointInHeaders, Highest, HeightOf
<1> QED
  BY <1>6, <1>7, <1>8 DEF CallInv

LEMMA ConcludeSmartCall ==
    ASSUME CallInv, ConcludeSmart
    PROVE  CallInv'
<1>0. TypeOK /\ HeadersInOrder /\ StartsLow /\ PointInHeaders /\ pc = "deliver"
  BY DEF CallInv, ConcludeSmart, Answered
<1>1. Highest \in Nat /\ point \in Nat /\ startH \in Nat /\ startH <= point + 1 /\ point < Highest
      /\ limitH \in (point + 1) .. Highest
  BY <1>0, HeadersOf DEF TypeOK, PointInHeaders
<1>2. UNCHANGED <<tip, finalized, startH, fH, actualH, hBatch>>
  BY DEF ConcludeSmart, ledgerVars, began
<1>3. \/ pc' = "fetch" /\ point' = limitH
      \/ pc' = "bodies" /\ point' = point
  BY DEF ConcludeSmart
<1>4. /\ point' \in Nat /\ pc' \in Phase
      /\ limitH' = 0 /\ bare' = {} /\ reply' = "none" /\ smart' = FALSE
      /\ UNCHANGED <<peerTip, pending, began, stepBacks, fork, debt, rootErrors, strikes, outcome>>
  BY <1>1, <1>3 DEF ConcludeSmart, Phase
<1>5. TypeOK'
  BY <1>0, <1>2, <1>4 DEF TypeOK, began, Reply, HeightOf
<1>6. StartsLow' /\ HeadersInOrder'
  BY <1>0, <1>2 DEF StartsLow, HeadersInOrder, InOrder, HeightOf
<1>7. PointInHeaders'
  BY <1>1, <1>2, <1>3 DEF PointInHeaders, Highest, HeightOf
<1> QED
  BY <1>5, <1>6, <1>7 DEF CallInv

LEMMA ConcludeCall ==
    ASSUME CallInv, Conclude
    PROVE  CallInv'
<1>0. TypeOK /\ HeadersInOrder /\ StartsLow /\ PointInHeaders /\ pc = "deliver"
  BY DEF CallInv, Conclude, Answered
<1>1. Highest \in Nat /\ point \in Nat /\ startH \in Nat /\ startH <= point + 1 /\ point < Highest
      /\ limitH \in (point + 1) .. Highest
  BY <1>0, HeadersOf DEF TypeOK, PointInHeaders
<1>2. /\ UNCHANGED <<tip, finalized, startH, fH, actualH, hBatch>>
      /\ pc' = "fetch" /\ point' = limitH /\ limitH' = 0 /\ bare' = {} /\ reply' = "none"
  BY DEF Conclude, ledgerVars, began
<1>3. point' \in Nat
  BY <1>1, <1>2
<1>4. rootErrors' \in 0 .. 1
  BY <1>0 DEF Conclude, Forgiven, TypeOK
<1>5. strikes' \in 0 .. MaxStrikes
  BY <1>0, Struck DEF Conclude, TypeOK, MaxStrikes
<1>6. pending' \subseteq CachedBlocks /\ outcome' \in Outcome
  BY <1>0 DEF Conclude, TypeOK, Outcome
<1>7. TypeOK'
  BY <1>0, <1>2, <1>3, <1>4, <1>5, <1>6 DEF TypeOK, Conclude, began, ledgerVars, Phase, Reply, HeightOf
<1>8. StartsLow' /\ HeadersInOrder'
  BY <1>0, <1>2 DEF StartsLow, HeadersInOrder, InOrder, HeightOf
<1>9. PointInHeaders'
  BY <1>1, <1>2 DEF PointInHeaders, Highest, HeightOf
<1> QED
  BY <1>7, <1>8, <1>9 DEF CallInv


LEMMA NextCall == CallInv /\ [Next]_vars => CallInv'
<1> SUFFICES ASSUME CallInv, [Next]_vars PROVE CallInv'
  OBVIOUS
<1>0. TypeOK /\ tip \in Block /\ finalized \in 0 .. HeightOf(tip) /\ peerTip \in PeerTips /\ pending \subseteq CachedBlocks
  BY DEF CallInv, TypeOK
<1>t. UNCHANGED ledgerVars => tip' \in Block /\ finalized' \in 0 .. HeightOf(tip')
  BY <1>0 DEF ledgerVars
<1>1. CASE Start
  BY <1>1, StartCall
<1>2. CASE CatchUpStep
  <2>1. CASE PeerTooLow
    BY <2>1, <1>0, ReturnCall DEF PeerTooLow, TypeOK, Outcome
  <2>2. CASE DownloadHeaders
    BY <2>2, DownloadCall
  <2>3. CASE DownloadEmpty
    BY <2>3, <1>0, ReturnCall, Struck DEF DownloadEmpty, Outcome
  <2>4. CASE DownloadFails
    BY <2>4, <1>0, ReturnCall DEF DownloadFails, TypeOK, Outcome
  <2>5. CASE StepBack
    BY <2>5, StepBackCall
  <2>6. CASE Refuse
    <3>1. strikes' \in 0 .. MaxStrikes
      BY <2>6, <1>0, Struck DEF Refuse, TypeOK
    <3>2. PICK result \in Outcome : Return(result)
      BY <2>6 DEF Refuse, Outcome
    <3> QED
      BY <2>6, <3>1, <3>2, ReturnCall DEF Refuse
  <2>7. CASE Admit
    BY <2>7, AdmitCall
  <2>8. CASE FetchSmart
    BY <2>8, FetchSmartCall
  <2>9. CASE FetchByHeight
    BY <2>9, FetchByHeightCall
  <2>10. CASE Gather
    BY <2>10, GatherCall
  <2>11. CASE GatherFails
    BY <2>11, <1>0, ReturnCall, Struck DEF GatherFails, Outcome
  <2>12. CASE Deliver
    BY <2>12, DeliverCall
  <2>13. CASE ConcludeSmart
    BY <2>13, ConcludeSmartCall
  <2>14. CASE Conclude
    BY <2>14, ConcludeCall
  <2>15. CASE Done
    BY <2>15, <1>0, ReturnCall DEF Done, TypeOK, Outcome
  <2> QED
    BY <1>2, <2>1, <2>2, <2>3, <2>4, <2>5, <2>6, <2>7, <2>8, <2>9, <2>10, <2>11, <2>12, <2>13,
       <2>14, <2>15 DEF CatchUpStep
<1>3. CASE LocalBlock
  <2>1. PICK b \in LocalBlocks : ProcessChain(<<b>>, {})
    BY <1>3 DEF LocalBlock
  <2>2. <<b>> \in Seq(Block) /\ <<b>> # <<>>
    BY CatchUpAssumption
  <2>3. tip' \in Block /\ finalized' \in 0 .. HeightOf(tip')
    BY <1>0, <2>1, <2>2, ProcessChainType
  <2>4. UNCHANGED <<catchUpVars, pc, rootErrors, strikes, outcome>> /\ peerTip' = peerTip /\ pending' = pending
    BY <1>3 DEF LocalBlock
  <2> QED
    BY <1>0, <2>3, <2>4, QuietCall
<1>4. CASE KeepBlock
  BY <1>4, <1>0, <1>t, QuietCall DEF KeepBlock
<1>5. CASE TakeBlock
  BY <1>5, <1>0, <1>t, QuietCall DEF TakeBlock
<1>6. CASE PeerMoves
  BY <1>6, <1>0, <1>t, QuietCall DEF PeerMoves
<1>7. CASE UNCHANGED vars
  BY <1>7, <1>0, <1>t, QuietCall DEF vars
<1> QED
  BY <1>1, <1>2, <1>3, <1>4, <1>5, <1>6, <1>7 DEF Next

LEMMA InitCall == Init => CallInv
<1> SUFFICES ASSUME Init PROVE CallInv
  OBVIOUS
<1>1. tip \in Block /\ HeightOf(tip) \in Nat /\ FinalityDepth \in Nat
  BY CatchUpAssumption, Heights, LedgerAssumption DEF Init
<1>2. finalized \in 0 .. HeightOf(tip)
  BY <1>1 DEF Init, Sat
<1>3. stepBacks \in 0 .. Len(StepBacks) /\ oldTip \in Block
  BY CatchUpAssumption, LedgerAssumption DEF Init
<1>4. hBatch \in Seq(Block) /\ debt \in Seq(Block)
  BY DEF Init, NoHeaders
<1>5. /\ pc = "idle" /\ reply = "none" /\ outcome = "none" /\ smart = FALSE
      /\ peerTip \in PeerTips /\ pending = {} /\ bare = {}
      /\ peerH = 0 /\ startH = 0 /\ fH = 0 /\ actualH = 0
      /\ fork = 0 /\ point = 0 /\ limitH = 0 /\ rootErrors = 0 /\ strikes = 0
  BY DEF Init
<1>6. TypeOK
  <2>1. pc \in Phase /\ reply \in Reply /\ outcome \in Outcome /\ smart \in BOOLEAN
    BY <1>5 DEF Phase, Reply, Outcome
  <2>2. peerTip \in PeerTips /\ pending \subseteq CachedBlocks /\ bare \subseteq Block
    BY <1>5
  <2>3. /\ peerH \in Nat /\ startH \in Nat /\ fH \in Nat /\ actualH \in Nat
        /\ fork \in Nat /\ point \in Nat /\ limitH \in Nat
        /\ rootErrors \in 0 .. 1 /\ strikes \in 0 .. MaxStrikes
    BY <1>5 DEF MaxStrikes
  <2> QED
    BY <1>1, <1>2, <1>3, <1>4, <2>1, <2>2, <2>3 DEF TypeOK
<1> QED
  BY <1>5, <1>6 DEF CallInv, StartsLow, HeadersInOrder, PointInHeaders

LEMMA CallInvariance == Spec => []CallInv
BY InitCall, NextCall, PTL DEF Spec

\* A catch-up call keeps its variables in their ranges whatever the node, the
\* peer and gossip do meanwhile: no header or body is asked for that is not
\* in the batch of headers.
THEOREM CatchUpTyped == Spec => []TypeOK
<1>1. CallInv => TypeOK
  BY DEF CallInv
<1> QED
  BY <1>1, CallInvariance, PTL

\* The two arbitrations agree, on every tree of blocks and at every moment of a
\* call: evaluate_header_chain admits the headers whose blocks process_chain
\* would adopt in one list, and no others.
THEOREM OneJudgement == Spec => []JudgesAgree
<1>1. CallInv => JudgesAgree
  <2> SUFFICES ASSUME CallInv, pc = "judge", hBatch[1] # Genesis, NewPart(hBatch) # <<>>
               PROVE  CASE Judge(hBatch) = "admit"          -> Verdict(NewPart(hBatch), {}) = "adopted"
                        [] Judge(hBatch) = "unknown parent" -> Verdict(NewPart(hBatch), {}) = "orphan"
                        [] OTHER                            -> Verdict(NewPart(hBatch), {}) = "ignored"
    BY DEF JudgesAgree
  <2>1. tip \in Block /\ finalized \in 0 .. HeightOf(tip) /\ InOrder(hBatch)
    BY DEF CallInv, TypeOK, HeadersInOrder
  <2>2. /\ Judge(hBatch) \in {"admit", "pass", "firewall", "unknown parent"}
        /\ Judge(hBatch) = "unknown parent" => Verdict(NewPart(hBatch), {}) = "orphan"
        /\ Judge(hBatch) = "admit" => Verdict(NewPart(hBatch), {}) = "adopted"
        /\ Judge(hBatch) \in {"pass", "firewall"} => Verdict(NewPart(hBatch), {}) = "ignored"
    BY <2>1, Arbitrations
  <2> QED
    BY <2>2
<1> QED
  BY <1>1, CallInvariance, PTL


---------------------------------------------------------------------------
\* The inductive invariant behind the amnesty.

\* Until the first body is delivered, the chain of the beginning only grows.
StillThere ==
    /\ pc # "idle" => actualH = HeightOf(oldTip)
    /\ pc \in {"headers", "judge"} => Stored(oldTip)

\* The headers above the fork are not of the chain of the beginning.
HeadersNew ==
    pc \in {"fetch", "bodies", "deliver"} =>
        /\ Lower(fork, actualH) <= point
        /\ hBatch[1] # Genesis => \A h \in (fork + 1) .. Highest : ~OnPath(Header(h), oldTip)

\* What the batch may hold: its headers' blocks, and blocks from pendingBlocks.
OfBatch(b) ==
    \/ \E h \in (point + 1) .. Highest : b = Header(h)
    \/ b \in CachedBlocks /\ HeightOf(b) > point

BatchKnown ==
    pc = "deliver" /\ ~smart =>
        /\ \A i \in 1 .. Len(debt) : OfBatch(debt[i])
        /\ reply = "adopted" => \E b \in Block : OfBatch(b) /\ Stored(b)

AmnestyInv == CallInv /\ StillThere /\ HeadersNew /\ BatchKnown

\* A block of this node or of gossip on top of the tip keeps the chain.
LEMMA LocalBlockGrows ==
    ASSUME TypeOK, LocalBlock
    PROVE  \A c \in Block : OnPath(c, tip) => OnPath(c, tip')
<1>1. PICK b \in LocalBlocks : Parent[b] = tip /\ ProcessChain(<<b>>, {})
  BY DEF LocalBlock
<1> DEFINE B == <<b>>
<1>2. B[1] = b /\ Len(B) = 1 /\ B[Len(B)] = b /\ \A i \in 1 .. Len(B) : B[i] \notin {}
  OBVIOUS
<1>3. b \in Block /\ tip \in Block /\ HeightOf(tip) \in Nat /\ finalized \in 0 .. HeightOf(tip)
  BY CatchUpAssumption, Heights DEF TypeOK
<1>4. ProcessChain(B, {})
  BY <1>1
<1> HIDE DEF B
<1>5. Verdict(B, {}) # "mismatch"
  BY <1>2 DEF Verdict
<1>6. CASE Verdict(B, {}) = "adopted"
  <2>1. tip' = b
    BY <1>2, <1>4, <1>6 DEF ProcessChain
  <2>2. Wins(tip, b)
    BY <1>1, <1>2, <1>6 DEF Verdict
  <2>3. AbsWeight[b] > AbsWeight[tip]
    BY <1>3, <2>2 DEF Wins
  <2>4. b # Genesis
    <3>1. 0 \in 0 .. HeightOf(tip)
      BY <1>3
    <3>2. At(tip, 0) = Genesis /\ OnPath(Genesis, tip)
      BY <1>3, <3>1, Ancestors, Heights
    <3>3. AbsWeight[Genesis] <= AbsWeight[tip]
      BY <1>3, <3>2, Heights, WeightRises
    <3> QED
      BY <1>3, <2>3, <3>3, Heights, Weights
  <2>5. OnPath(tip, b)
    BY <1>1, <1>3, <2>4, OnPathOrder
  <2> QED
    BY <1>3, <2>1, <2>5, OnPathOrder
<1>7. CASE Verdict(B, {}) # "adopted"
  <2>1. tip' = tip
    BY <1>4, <1>5, <1>7 DEF ProcessChain, ledgerVars
  <2> QED
    BY <2>1
<1> QED
  BY <1>6, <1>7

\* A chain through a header above the fork does not hold the block that was
\* final when the call began, if the fork is below it.
LEMMA OffTheChain ==
    ASSUME CallInv, StillThere, HeadersNew, pc = "deliver", hBatch[1] # Genesis, point < fH,
           NEW h \in (point + 1) .. Highest, NEW t \in Block, OnPath(Header(h), t)
    PROVE  ~OnPath(At(oldTip, fH), t)
<1> DEFINE old == At(oldTip, fH)
<1>1. /\ TypeOK /\ HeadersInOrder /\ oldTip \in Block
      /\ startH \in Nat /\ fH \in Nat /\ actualH \in Nat /\ point \in Nat /\ fork \in Nat
      /\ fH <= actualH /\ actualH = HeightOf(oldTip) /\ startH <= point + 1
  BY DEF CallInv, TypeOK, StartsLow, StillThere, PointInHeaders
<1>2. /\ Highest \in Nat /\ h \in startH .. Highest
      /\ InOrder(hBatch) /\ Len(hBatch) \in Nat \ {0} /\ Highest = startH + Len(hBatch) - 1
      /\ HeightOf(hBatch[1]) = startH
      /\ \A g \in startH .. Highest : Header(g) \in Block /\ HeightOf(Header(g)) = g
  <2>1. /\ InOrder(hBatch) /\ Len(hBatch) \in Nat \ {0} /\ HeightOf(hBatch[1]) = startH
        /\ Highest = startH + Len(hBatch) - 1 /\ Highest \in Nat
        /\ \A g \in startH .. Highest : Header(g) \in Block /\ HeightOf(Header(g)) = g
    BY <1>1, HeadersOf
  <2>2. h \in startH .. Highest
    BY <1>1, <2>1
  <2> QED
    BY <2>1, <2>2
<1>3. /\ fork <= point
      /\ \A g \in (fork + 1) .. Highest : ~OnPath(Header(g), oldTip)
  BY <1>1 DEF HeadersNew, Lower
<1>4. fH \in 0 .. HeightOf(oldTip)
  BY <1>1
<1>5. old \in Block /\ HeightOf(old) = fH /\ OnPath(old, oldTip)
  BY <1>1, <1>4, Ancestors
<1> HIDE DEF old
<1> SUFFICES ASSUME OnPath(old, t) PROVE FALSE
  BY DEF old
<1>6. CASE h <= fH
  <2>1. Header(h) \in Block /\ HeightOf(Header(h)) = h /\ h \in 0 .. HeightOf(old) /\ h \in Nat
    BY <1>1, <1>2, <1>5, <1>6
  <2>2. At(t, h) = Header(h)
    BY <2>1, OnPathFacts
  <2>3. At(old, h) = At(t, h) /\ At(old, h) = At(oldTip, h)
    BY <1>1, <1>5, <2>1, OnPathFacts
  <2>4. h \in 0 .. HeightOf(oldTip)
    BY <1>1, <1>6, <2>1
  <2>5. OnPath(Header(h), oldTip)
    BY <1>1, <2>1, <2>2, <2>3, <2>4, Ancestors
  <2>6. h \in (fork + 1) .. Highest
    BY <1>1, <1>2, <1>3
  <2> QED
    BY <1>3, <2>5, <2>6
<1>7. CASE h > fH
  <2>1. fH \in startH .. Highest /\ fH \in (fork + 1) .. Highest
    BY <1>1, <1>2, <1>3, <1>7
  <2>2. OnPath(Header(fH), Header(h))
    <3> DEFINE i == h - startH + 1
               k == fH - startH + 1
    <3>1. i \in 1 .. Len(hBatch) /\ k \in 1 .. i
      BY <1>1, <1>2, <1>7, <2>1
    <3>2. Header(h) = hBatch[i] /\ Header(fH) = hBatch[k]
      BY <1>2 DEF Header
    <3> HIDE DEF i, k
    <3> QED
      BY <1>2, <3>1, <3>2, InOrderPaths
  <2>3. Header(fH) \in Block /\ HeightOf(Header(fH)) = fH /\ Header(h) \in Block
    BY <1>2, <2>1
  <2>4. OnPath(Header(fH), t)
    BY <2>2, <2>3, OnPathOrder
  <2>5. Header(fH) = old
    BY <1>5, <2>3, <2>4, OnPathFacts
  <2> QED
    BY <1>3, <1>5, <2>1, <2>5
<1>8. h \in Int /\ fH \in Int
  BY <1>1, <1>2
<1> QED
  BY <1>6, <1>7, <1>8


LEMMA QuietAmnesty ==
    ASSUME AmnestyInv, UNCHANGED <<catchUpVars, pc>>,
           \A c \in Block : OnPath(c, tip) => OnPath(c, tip')
    PROVE  StillThere' /\ HeadersNew' /\ BatchKnown'
<1>1. /\ UNCHANGED <<pc, fork, point, actualH, oldTip, hBatch, debt, smart, reply>>
      /\ oldTip \in Block
  BY DEF catchUpVars, began, AmnestyInv, CallInv, TypeOK
<1>2. Highest' = Highest /\ \A h : Header(h)' = Header(h)
  BY <1>1 DEF Highest, Header, HeightOf
<1>3. StillThere'
  BY <1>1 DEF AmnestyInv, StillThere, Stored, HeightOf
<1>4. HeadersNew'
  <2>1. \A h : OnPath(Header(h), oldTip)' <=> OnPath(Header(h), oldTip)
    BY <1>1, <1>2 DEF OnPath, HeightOf, At
  <2> QED
    BY <1>1, <1>2, <2>1 DEF AmnestyInv, HeadersNew
<1>5. BatchKnown'
  <2>1. \A b : OfBatch(b)' <=> OfBatch(b)
    BY <1>1, <1>2 DEF OfBatch, HeightOf
  <2>2. \A b \in Block : Stored(b) => Stored(b)'
    BY DEF Stored, OnPath
  <2> QED
    BY <1>1, <2>1, <2>2 DEF AmnestyInv, BatchKnown
<1> QED
  BY <1>3, <1>4, <1>5

\* A step between two phases in which the batch is not yet, or no more, known.
LEMMA SamePlace ==
    ASSUME AmnestyInv, pc \in {"fetch", "bodies", "deliver"}, pc' \in {"fetch", "bodies", "deliver"},
           UNCHANGED <<fork, actualH, oldTip, hBatch>>, point' \in Nat, point <= point'
    PROVE  StillThere' /\ HeadersNew'
<1>1. Highest' = Highest /\ \A h : Header(h)' = Header(h)
  BY DEF Highest, Header, HeightOf
<1>2. \A h : OnPath(Header(h), oldTip)' <=> OnPath(Header(h), oldTip)
  BY <1>1 DEF OnPath, HeightOf, At
<1>3. fork \in Nat /\ actualH \in Nat /\ point \in Nat
  BY DEF AmnestyInv, CallInv, TypeOK
<1>4. Lower(fork, actualH) \in Nat /\ Lower(fork, actualH) <= point
  BY <1>3 DEF Lower, AmnestyInv, HeadersNew
<1>5. Lower(fork', actualH') = Lower(fork, actualH)
  OBVIOUS
<1>6. HeadersNew'
  <2>1. Lower(fork, actualH) <= point'
    BY <1>3, <1>4
  <2> QED
    BY <1>1, <1>2, <1>5, <2>1 DEF AmnestyInv, HeadersNew
<1>7. StillThere'
  <2>1. actualH = HeightOf(oldTip) /\ pc' \notin {"idle", "headers", "judge"}
    BY DEF AmnestyInv, StillThere
  <2> QED
    BY <2>1 DEF StillThere, HeightOf
<1> QED
  BY <1>6, <1>7

LEMMA AdmitAmnesty ==
    ASSUME AmnestyInv, Admit
    PROVE  StillThere' /\ HeadersNew' /\ BatchKnown'
<1>1. /\ TypeOK /\ HeadersInOrder /\ pc = "judge" /\ pc' = "fetch"
      /\ tip \in Block /\ oldTip \in Block /\ Stored(oldTip) /\ actualH = HeightOf(oldTip)
      /\ UNCHANGED <<actualH, oldTip, hBatch>>
      /\ fork' = ForkPoint(hBatch) /\ point' = Lower(ForkPoint(hBatch), actualH)
  BY DEF Admit, AmnestyInv, CallInv, TypeOK, StillThere, began
<1>2. /\ InOrder(hBatch) /\ hBatch[1] \in Block /\ HeightOf(hBatch[1]) = startH /\ startH \in Nat
      /\ Len(hBatch) \in Nat \ {0}
      /\ Highest = startH + Len(hBatch) - 1 /\ Highest \in Nat
      /\ \A h \in startH .. Highest : Header(h) \in Block /\ HeightOf(Header(h)) = h
  BY <1>1, HeadersOf DEF TypeOK
<1>3. StillThere'
  BY <1>1 DEF StillThere, HeightOf
<1>4. ASSUME hBatch[1] # Genesis, NEW h \in (ForkPoint(hBatch) + 1) .. Highest
      PROVE  ~OnPath(Header(h), oldTip)
  <2> DEFINE F == ForkPoint(hBatch)
  <2>1. F = HeightOf(ForkBlock(hBatch))
    BY <1>4 DEF ForkPoint
  <2>2. CASE Matched(hBatch) = {}
    <3>1. F = HeightOf(Parent[hBatch[1]])
      BY <2>1, <2>2 DEF ForkBlock
    <3>2. F \in Nat /\ startH = F + 1
      BY <3>1, <1>2, <1>4, Heights
    <3> DEFINE i == h - startH + 1
    <3>3. i \in 1 .. Len(hBatch) /\ h \in startH .. Highest
      BY <1>2, <3>2
    <3>4. Header(h) = hBatch[i]
      BY <1>2 DEF Header
    <3> HIDE DEF i
    <3>5. ~Stored(Header(h))
      BY <2>2, <3>3, <3>4 DEF Matched
    <3> QED
      BY <1>1, <1>2, <3>3, <3>5, OnPathOrder DEF Stored
  <2>3. CASE Matched(hBatch) # {}
    <3> DEFINE m == LastMatch(hBatch)
               i == h - startH + 1
    <3>1. m \in Matched(hBatch) /\ \A k \in Matched(hBatch) : k <= m
      BY <1>1, <1>2, <2>3, LastMatchIsLast
    <3>2. m \in 1 .. Len(hBatch) /\ 1 \in 1 .. m
      BY <3>1 DEF Matched
    <3> HIDE DEF m
    <3>3. F = HeightOf(hBatch[m])
      BY <2>1, <2>3 DEF ForkBlock, m
    <3>4. F = startH + m - 1 /\ F \in Nat
      <4>1. HeightOf(hBatch[m]) = HeightOf(hBatch[1]) + (m - 1)
        BY <1>2, <3>2, InOrderPaths
      <4> QED
        BY <1>2, <3>2, <3>3, <4>1
    <3> HIDE DEF F
    <3>5. h \in (F + 1) .. Highest
      BY <1>4 DEF F
    <3>6. i \in 1 .. Len(hBatch) /\ h \in startH .. Highest /\ i > m
      BY <1>2, <3>2, <3>4, <3>5
    <3>7. Header(h) = hBatch[i]
      BY <1>2 DEF Header
    <3> HIDE DEF i
    <3>8. i \notin Matched(hBatch)
      BY <3>1, <3>2, <3>6
    <3>9. ~Stored(Header(h))
      BY <3>6, <3>7, <3>8 DEF Matched
    <3> QED
      BY <1>1, <1>2, <3>6, <3>9, OnPathOrder DEF Stored
  <2> QED
    BY <2>2, <2>3
<1>5. HeadersNew'
  <2>1. Highest' = Highest /\ \A h : Header(h)' = Header(h)
    BY <1>1 DEF Highest, Header, HeightOf
  <2>2. \A h : OnPath(Header(h), oldTip)' <=> OnPath(Header(h), oldTip)
    BY <1>1, <2>1 DEF OnPath, HeightOf, At
  <2>3. Lower(fork', actualH') <= point'
    <3>1. point' = Lower(fork', actualH')
      BY <1>1
    <3>2. point' \in Nat
      <4>1. CallInv'
        BY AdmitCall DEF AmnestyInv
      <4> QED
        BY <4>1 DEF CallInv, TypeOK
    <3> QED
      BY <3>1, <3>2
  <2> QED
    BY <1>1, <1>4, <2>1, <2>2, <2>3 DEF HeadersNew
<1>6. BatchKnown'
  BY <1>1 DEF BatchKnown
<1> QED
  BY <1>3, <1>5, <1>6

\* The bodies gathered by height: the headers' blocks or gossiped ones.
LEMMA GatherAmnesty ==
    ASSUME AmnestyInv, Gather
    PROVE  StillThere' /\ HeadersNew' /\ BatchKnown'
<1> DEFINE last == Lower(Highest, point + BodySpan)
<1>1. /\ TypeOK /\ HeadersInOrder /\ PointInHeaders /\ pc = "bodies" /\ pc' = "deliver" /\ reply' = "none"
      /\ UNCHANGED <<fork, actualH, oldTip, hBatch, point>>
      /\ debt' = [i \in 1 .. (last - point) |-> Body(point + i)]
  BY DEF Gather, AmnestyInv, CallInv, began
<1>2. /\ point \in Nat /\ startH \in Nat /\ startH <= point + 1 /\ point < Highest
      /\ Highest \in Nat /\ BodySpan \in Nat \ {0}
  BY <1>1, HeadersOf, CatchUpAssumption DEF TypeOK, PointInHeaders
<1>3. StillThere' /\ HeadersNew'
  <2>1. point' \in Nat /\ point <= point'
    BY <1>1, <1>2
  <2> QED
    BY <1>1, <2>1, SamePlace
<1>4. last \in (point + 1) .. Highest
  BY <1>2 DEF Lower
<1> HIDE DEF last
<1>5. \A h \in (point + 1) .. Highest : OfBatch(Body(h))
  <2> SUFFICES ASSUME NEW h \in (point + 1) .. Highest PROVE OfBatch(Body(h))
    OBVIOUS
  <2>1. CASE h >= finalized /\ Cached(h) # {}
    <3>1. Body(h) \in Cached(h)
      BY <2>1 DEF Body
    <3>2. Body(h) \in CachedBlocks /\ HeightOf(Body(h)) = h /\ h > point
      BY <1>1, <1>2, <3>1 DEF Cached, TypeOK
    <3> QED
      BY <3>2 DEF OfBatch
  <2>2. CASE ~(h >= finalized /\ Cached(h) # {})
    <3>1. Body(h) = Header(h)
      BY <2>2 DEF Body
    <3> QED
      BY <3>1 DEF OfBatch
  <2> QED
    BY <2>1, <2>2
<1>6. BatchKnown'
  <2>1. Highest' = Highest /\ \A h : Header(h)' = Header(h)
    BY <1>1 DEF Highest, Header, HeightOf
  <2>2. \A b : OfBatch(b)' <=> OfBatch(b)
    BY <1>1, <2>1 DEF OfBatch, HeightOf
  <2>3. last - point \in Nat /\ \A i \in 1 .. (last - point) : point + i \in (point + 1) .. Highest
    BY <1>2, <1>4
  <2>4. Len(debt') = last - point /\ \A i \in 1 .. (last - point) : debt'[i] = Body(point + i)
    BY <1>1, <2>3
  <2>5. \A i \in 1 .. Len(debt') : OfBatch(debt'[i])
    BY <1>5, <2>3, <2>4
  <2> QED
    BY <1>1, <2>2, <2>5 DEF BatchKnown
<1> QED
  BY <1>3, <1>6

\* A chunk that is adopted puts its last block on top.
LEMMA DeliverAmnesty ==
    ASSUME AmnestyInv, Deliver
    PROVE  StillThere' /\ HeadersNew' /\ BatchKnown'
<1>1. /\ TypeOK /\ pc = "deliver" /\ pc' = "deliver" /\ debt # <<>>
      /\ UNCHANGED <<fork, actualH, oldTip, hBatch, point, smart>>
      /\ ProcessChain(Chunk, bare) /\ reply' = Verdict(Chunk, bare)
      /\ debt' = IF Verdict(Chunk, bare) \in {"fraud", "mismatch"} THEN <<>>
                 ELSE SubSeq(debt, Len(Chunk) + 1, Len(debt))
  BY DEF Deliver, AmnestyInv, CallInv, began
<1>2. StillThere' /\ HeadersNew'
  <2>1. point' \in Nat /\ point <= point'
    BY <1>1 DEF TypeOK
  <2> QED
    BY <1>1, <2>1, SamePlace
<1>3. /\ Chunk \in Seq(Block) /\ Chunk # <<>> /\ Len(Chunk) \in 1 .. Len(debt)
      /\ \A i \in 1 .. Len(Chunk) : Chunk[i] = debt[i]
      /\ debt \in Seq(Block) /\ Len(debt) \in Nat
  BY <1>1, ChunkOf DEF TypeOK
<1>4. ASSUME ~smart PROVE BatchKnown'
  <2>0. \A i \in 1 .. Len(debt) : OfBatch(debt[i])
    BY <1>1, <1>4 DEF AmnestyInv, BatchKnown
  <2>1. Highest' = Highest /\ \A h : Header(h)' = Header(h)
    BY <1>1 DEF Highest, Header, HeightOf
  <2>2. \A b : OfBatch(b)' <=> OfBatch(b)
    BY <1>1, <2>1 DEF OfBatch, HeightOf
  <2>3. \A i \in 1 .. Len(debt') : OfBatch(debt'[i])
    <3>1. CASE Verdict(Chunk, bare) \in {"fraud", "mismatch"}
      <4>1. debt' = <<>>
        BY <1>1, <3>1
      <4> QED
        BY <4>1
    <3>2. CASE Verdict(Chunk, bare) \notin {"fraud", "mismatch"}
      <4> DEFINE n == Len(Chunk)
                 rest == SubSeq(debt, n + 1, Len(debt))
      <4>1. debt' = rest
        BY <1>1, <3>2
      <4>2. n \in 1 .. Len(debt)
        BY <1>3
      <4> HIDE DEF n
      <4>3. /\ Len(rest) = Len(debt) - n
            /\ \A i \in 1 .. (Len(debt) - n) : rest[i] = debt[(n + 1) + i - 1]
        <5>1. CASE n = Len(debt)
          <6>1. rest = <<>>
            BY <1>3, <5>1
          <6> QED
            BY <1>3, <5>1, <6>1
        <5>2. CASE n # Len(debt)
          <6>1. n + 1 \in 1 .. Len(debt) /\ Len(debt) \in (n + 1) .. Len(debt)
                /\ Len(debt) - (n + 1) + 1 = Len(debt) - n
            BY <1>3, <4>2, <5>2
          <6> QED
            BY <1>3, <6>1
        <5> QED
          BY <5>1, <5>2
      <4>4. \A i \in 1 .. (Len(debt) - n) : (n + 1) + i - 1 \in 1 .. Len(debt)
        BY <1>3, <4>2
      <4> HIDE DEF rest
      <4> QED
        BY <2>0, <4>1, <4>3, <4>4
    <3> QED
      BY <3>1, <3>2
  <2>4. ASSUME reply' = "adopted" PROVE \E b \in Block : OfBatch(b)' /\ Stored(b)'
    <3>0. Chunk[Len(Chunk)] \in Block
      BY <1>3
    <3> PICK top \in Block : top = Chunk[Len(Chunk)]
      BY <3>0
    <3>1. tip' = top
      BY <1>1, <2>4 DEF ProcessChain
    <3>2. top = debt[Len(Chunk)] /\ Len(Chunk) \in 1 .. Len(debt)
      BY <1>3
    <3>3. OfBatch(top)'
      BY <2>0, <2>2, <3>2
    <3>4. OnPath(top, tip')
      BY <3>1, <3>2, OnPathOrder
    <3>5. Stored(top)'
      BY <3>4 DEF Stored, OnPath, HeightOf, At
    <3> QED
      BY <3>2, <3>3, <3>5
  <2> QED
    BY <2>2, <2>3, <2>4 DEF BatchKnown
<1>5. smart => BatchKnown'
  BY <1>1 DEF BatchKnown
<1> QED
  BY <1>2, <1>4, <1>5


\* The end of a call leaves nothing to keep.
LEMMA ReturnAmnesty ==
    ASSUME pc' = "idle"
    PROVE  StillThere' /\ HeadersNew' /\ BatchKnown'
BY DEF StillThere, HeadersNew, BatchKnown

LEMMA StartAmnesty ==
    ASSUME AmnestyInv, Start
    PROVE  StillThere' /\ HeadersNew' /\ BatchKnown'
<1>1. /\ tip \in Block /\ pc' = "headers" /\ actualH' = HeightOf(tip) /\ oldTip' = tip
      /\ tip' = tip /\ finalized' = finalized
  BY DEF Start, ledgerVars, AmnestyInv, CallInv, TypeOK
<1>2. Stored(tip)
  BY <1>1, OnPathOrder DEF Stored
<1>3. StillThere'
  BY <1>1, <1>2 DEF StillThere, Stored, OnPath, HeightOf, At
<1>4. HeadersNew' /\ BatchKnown'
  BY <1>1 DEF HeadersNew, BatchKnown
<1> QED
  BY <1>3, <1>4

\* The headers are fetched and judged under the chain of the beginning.
LEMMA HeadersAmnesty ==
    ASSUME AmnestyInv, pc \in {"headers", "judge"}, pc' \in {"headers", "judge"},
           UNCHANGED <<ledgerVars, began>>
    PROVE  StillThere' /\ HeadersNew' /\ BatchKnown'
<1>1. /\ actualH = HeightOf(oldTip) /\ Stored(oldTip)
      /\ UNCHANGED <<actualH, oldTip, tip, finalized>>
  BY DEF AmnestyInv, StillThere, began, ledgerVars
<1>2. StillThere'
  BY <1>1 DEF StillThere, Stored, OnPath, HeightOf, At
<1>3. HeadersNew' /\ BatchKnown'
  BY DEF HeadersNew, BatchKnown
<1> QED
  BY <1>2, <1>3

\* A smart answer carries no promise, and neither does a batch that is done with.
LEMMA BatchAmnesty ==
    ASSUME AmnestyInv, FetchSmart \/ FetchByHeight \/ ConcludeSmart \/ Conclude
    PROVE  StillThere' /\ HeadersNew' /\ BatchKnown'
<1>1. /\ point \in Nat /\ limitH \in Nat
      /\ pc = "deliver" => point < limitH
  <2>1. point \in Nat /\ limitH \in Nat /\ startH \in Nat
    BY DEF AmnestyInv, CallInv, TypeOK
  <2>2. pc = "deliver" => limitH \in (point + 1) .. Highest /\ Highest \in Nat
    BY HeadersOf DEF AmnestyInv, CallInv, PointInHeaders
  <2> QED
    BY <2>1, <2>2
<1>2. /\ pc \in {"fetch", "bodies", "deliver"} /\ pc' \in {"fetch", "bodies", "deliver"}
      /\ UNCHANGED <<fork, actualH, oldTip, hBatch>>
      /\ point' \in Nat /\ point <= point'
      /\ pc' = "deliver" => smart'
  <2>1. CASE FetchSmart
    BY <1>1, <2>1 DEF FetchSmart, began
  <2>2. CASE FetchByHeight
    BY <1>1, <2>2 DEF FetchByHeight, catchUpVars, began
  <2>3. CASE ConcludeSmart
    BY <1>1, <2>3 DEF ConcludeSmart, Answered, began
  <2>4. CASE Conclude
    BY <1>1, <2>4 DEF Conclude, Answered, began
  <2> QED
    BY <2>1, <2>2, <2>3, <2>4
<1>3. StillThere' /\ HeadersNew'
  BY <1>2, SamePlace
<1>4. BatchKnown'
  BY <1>2 DEF BatchKnown
<1> QED
  BY <1>3, <1>4

LEMMA NextAmnesty == AmnestyInv /\ [Next]_vars => AmnestyInv'
<1> SUFFICES ASSUME AmnestyInv, [Next]_vars PROVE AmnestyInv'
  OBVIOUS
<1>0. CallInv'
  BY NextCall DEF AmnestyInv
<1>s. ASSUME UNCHANGED <<ledgerVars, pc, catchUpVars>>
      PROVE  StillThere' /\ HeadersNew' /\ BatchKnown'
  <2>1. \A c \in Block : OnPath(c, tip) => OnPath(c, tip')
    BY <1>s DEF ledgerVars
  <2> QED
    BY <1>s, <2>1, QuietAmnesty
<1>1. CASE Start
  BY <1>0, <1>1, StartAmnesty DEF AmnestyInv
<1>2. CASE PeerTooLow \/ DownloadEmpty \/ DownloadFails \/ Refuse \/ GatherFails \/ Done
  <2>1. pc' = "idle"
    BY <1>2 DEF PeerTooLow, DownloadEmpty, DownloadFails, Refuse, GatherFails, Done, Return
  <2> QED
    BY <1>0, <2>1, ReturnAmnesty DEF AmnestyInv
<1>3. CASE DownloadHeaders \/ StepBack
  <2>1. pc \in {"headers", "judge"} /\ pc' \in {"headers", "judge"} /\ UNCHANGED <<ledgerVars, began>>
    BY <1>3 DEF DownloadHeaders, StepBack
  <2> QED
    BY <1>0, <2>1, HeadersAmnesty DEF AmnestyInv
<1>4. CASE Admit
  BY <1>0, <1>4, AdmitAmnesty DEF AmnestyInv
<1>5. CASE FetchSmart \/ FetchByHeight \/ ConcludeSmart \/ Conclude
  BY <1>0, <1>5, BatchAmnesty DEF AmnestyInv
<1>6. CASE Gather
  BY <1>0, <1>6, GatherAmnesty DEF AmnestyInv
<1>7. CASE Deliver
  BY <1>0, <1>7, DeliverAmnesty DEF AmnestyInv
<1>8. CASE LocalBlock
  <2>1. \A c \in Block : OnPath(c, tip) => OnPath(c, tip')
    BY <1>8, LocalBlockGrows DEF AmnestyInv, CallInv
  <2>2. UNCHANGED <<catchUpVars, pc>>
    BY <1>8 DEF LocalBlock
  <2> QED
    BY <1>0, <2>1, <2>2, QuietAmnesty DEF AmnestyInv
<1>9. CASE KeepBlock \/ TakeBlock \/ PeerMoves \/ UNCHANGED vars
  <2>1. UNCHANGED <<ledgerVars, pc, catchUpVars>>
    BY <1>9 DEF KeepBlock, TakeBlock, PeerMoves, vars
  <2> QED
    BY <1>0, <1>s, <2>1 DEF AmnestyInv
<1> QED
  BY <1>1, <1>2, <1>3, <1>4, <1>5, <1>6, <1>7, <1>8, <1>9 DEF Next, CatchUpStep

LEMMA InitAmnesty == Init => AmnestyInv
<1> SUFFICES ASSUME Init PROVE AmnestyInv
  OBVIOUS
<1>1. CallInv /\ pc = "idle"
  BY InitCall DEF Init
<1> QED
  BY <1>1 DEF AmnestyInv, StillThere, HeadersNew, BatchKnown

LEMMA AmnestyInvariance == Spec => []AmnestyInv
BY InitAmnesty, NextAmnesty, PTL DEF Spec

\* All penalties are lifted for nothing less than a lost final block, or a
\* block from pendingBlocks in the place of a header: on every tree of blocks,
\* for every number of bodies asked for at once and every size of a chunk.
THEOREM AmnestyNeedsLoss == Spec => AmnestyIsEarned
<1> DEFINE Earned == outcome # "amnesty" /\ outcome' = "amnesty" /\ hBatch[1] # Genesis
                        => \/ ~Stored(At(oldTip, fH))
                           \/ \E b \in CachedBlocks : HeightOf(b) > point /\ Stored(b)
<1>1. AmnestyInv /\ [Next]_vars => [Earned]_vars
  <2> SUFFICES ASSUME AmnestyInv, Next, outcome # "amnesty", outcome' = "amnesty",
                      hBatch[1] # Genesis
               PROVE  \/ ~Stored(At(oldTip, fH))
                      \/ \E b \in CachedBlocks : HeightOf(b) > point /\ Stored(b)
    OBVIOUS
  <2>1. Conclude
    <3>1. ~(Start \/ DownloadHeaders \/ StepBack \/ Admit \/ FetchSmart \/ FetchByHeight \/ Gather
              \/ Deliver \/ ConcludeSmart \/ LocalBlock \/ KeepBlock \/ TakeBlock \/ PeerMoves)
      BY DEF Start, DownloadHeaders, StepBack, Admit, FetchSmart, FetchByHeight, Gather,
             Deliver, ConcludeSmart, LocalBlock, KeepBlock, TakeBlock, PeerMoves
    <3>2. ~(PeerTooLow \/ DownloadEmpty \/ DownloadFails \/ Refuse \/ GatherFails \/ Done)
      BY DEF PeerTooLow, DownloadEmpty, DownloadFails, Refuse, GatherFails, Done, Return
    <3> QED
      BY <3>1, <3>2 DEF Next, CatchUpStep
  <2>2. pc = "deliver" /\ ~smart /\ reply = "adopted" /\ point < fH
    BY <2>1 DEF Conclude, Answered, IsDeepSuccess
  <2>3. PICK b \in Block : OfBatch(b) /\ Stored(b)
    BY <2>2 DEF AmnestyInv, BatchKnown
  <2>4. ASSUME NEW h \in (point + 1) .. Highest, b = Header(h)
        PROVE  ~Stored(At(oldTip, fH))
    <3>1. tip \in Block /\ OnPath(Header(h), tip)
      BY <2>3, <2>4 DEF Stored, AmnestyInv, CallInv, TypeOK
    <3> QED
      BY <2>2, <3>1, OffTheChain DEF Stored, AmnestyInv
  <2> QED
    BY <2>3, <2>4 DEF OfBatch
<1> QED
  BY <1>1, AmnestyInvariance, PTL DEF Spec, AmnestyIsEarned
---------------------------------------------------------------------------
\* An honest peer is not punished: the invariant.

\* The last height whose block has been processed.
Reached == IF pc = "deliver" THEN limitH - Len(debt) ELSE point

OwnOrPeers == tip \in StartTips \/ OnPath(tip, peerTip)
Checkpointed == finalized = Sat(HeightOf(tip), FinalityDepth)

\* The call asks for headers from its checkpoint on, and never steps back.
CallIsNear ==
    pc # "idle" =>
        /\ startH = fH + 1 /\ peerH <= HeightOf(peerTip)
        /\ pc \in {"headers", "judge"} => fH = finalized /\ actualH = HeightOf(tip)

HeadersArePeers ==
    pc \notin {"idle", "headers"} => OnPath(hBatch[Len(hBatch)], peerTip)

\* The chain of tip t and the peer's chain, with tip q, share the block of height
\* p; t is not final above it, and the peer's block of height top is heavier.
Shared(t, q, p, top) ==
    /\ p \in Nat /\ p <= top /\ top <= HeightOf(q)
    /\ p <= HeightOf(t) /\ HeightOf(t) <= p + FinalityDepth
    /\ At(t, p) = At(q, p)
    /\ t \in StartTips \/ t = At(q, p)
    /\ p = top \/ AbsWeight[At(q, top)] > AbsWeight[t]

PointIsShared ==
    pc \in {"fetch", "bodies", "deliver"} => Shared(tip, peerTip, Reached, Highest)

\* What is still to be processed are the peer's blocks; the first chunk of an
\* answer is long enough, or the last there is.
DebtIsPeers ==
    pc = "deliver" =>
        /\ \A i \in 1 .. Len(debt) : debt[i] = At(peerTip, Reached + i)
        /\ \/ tip = At(peerTip, Reached)
           \/ limitH = Highest
           \/ Len(debt) \in SmartAnswers \cup {BodySpan}
        /\ reply \in {"none", "adopted"}
        /\ debt = <<>> => reply = "adopted"

NearInv ==
    /\ CallInv
    /\ strikes = 0 /\ bare = {}
    /\ OwnOrPeers /\ Checkpointed /\ CallIsNear
    /\ HeadersArePeers /\ PointIsShared /\ DebtIsPeers

\* The node's checkpoint is a block of the peer's chain.
LEMMA FinalShared ==
    ASSUME NearPeers, TypeOK, OwnOrPeers, Checkpointed
    PROVE  /\ peerTip \in Block /\ HeightOf(peerTip) \in Nat /\ tip \in Block /\ HeightOf(tip) \in Nat
           /\ finalized \in 0 .. HeightOf(tip) /\ finalized <= HeightOf(peerTip)
           /\ HeightOf(tip) <= finalized + FinalityDepth
           /\ At(tip, finalized) = At(peerTip, finalized)
<1>1. /\ peerTip \in PeerTips /\ peerTip \in Block /\ tip \in Block
      /\ finalized \in 0 .. HeightOf(tip)
  BY CatchUpAssumption DEF TypeOK
<1>2. HeightOf(peerTip) \in Nat /\ HeightOf(tip) \in Nat /\ FinalityDepth \in Nat
  BY <1>1, Heights, LedgerAssumption
<1>3. HeightOf(tip) <= finalized + FinalityDepth
  BY <1>1, <1>2 DEF Checkpointed, Sat
<1>4. finalized <= HeightOf(peerTip) /\ At(tip, finalized) = At(peerTip, finalized)
  <2>1. CASE tip \in StartTips
    <3> DEFINE b == At(tip, finalized)
    <3>1. OnPath(b, peerTip)
      BY <1>1, <2>1 DEF NearPeers, Checkpointed
    <3>2. b \in Block /\ HeightOf(b) = finalized
      BY <1>1, Ancestors
    <3> HIDE DEF b
    <3>3. HeightOf(b) \in 0 .. HeightOf(peerTip) /\ At(peerTip, HeightOf(b)) = b
      BY <1>1, <3>1, <3>2, OnPathFacts
    <3> QED
      BY <1>1, <1>2, <3>2, <3>3 DEF b
  <2>2. CASE OnPath(tip, peerTip)
    <3>1. /\ HeightOf(tip) \in 0 .. HeightOf(peerTip)
          /\ \A k \in 0 .. HeightOf(tip) : At(tip, k) = At(peerTip, k)
      BY <1>1, <2>2, OnPathFacts
    <3> QED
      BY <1>1, <1>2, <3>1
  <2> QED
    BY <2>1, <2>2 DEF OwnOrPeers
<1> QED
  BY <1>1, <1>2, <1>3, <1>4

\* The headers are the peer's blocks.
LEMMA HeadersOnPath ==
    ASSUME CallInv, HeadersArePeers, pc \notin {"idle", "headers"}
    PROVE  /\ Highest \in Nat /\ startH \in Nat /\ startH <= Highest
           /\ Highest <= HeightOf(peerTip) /\ HeightOf(peerTip) \in Nat /\ peerTip \in Block
           /\ \A h \in startH .. Highest : Header(h) = At(peerTip, h)
           /\ hBatch[Len(hBatch)] = At(peerTip, Highest)
<1> DEFINE n == Len(hBatch)
<1>1. TypeOK /\ HeadersInOrder /\ peerTip \in Block
  BY CatchUpAssumption DEF CallInv, TypeOK
<1>2. /\ InOrder(hBatch) /\ HeightOf(hBatch[1]) = startH /\ startH \in Nat
      /\ n \in Nat \ {0}
      /\ Highest = startH + n - 1 /\ Highest \in Nat
      /\ \A h \in startH .. Highest : Header(h) \in Block /\ HeightOf(Header(h)) = h
  BY <1>1, HeadersOf DEF TypeOK
<1>3. hBatch[n] \in Block /\ OnPath(hBatch[n], peerTip) /\ HeightOf(hBatch[n]) = Highest
  BY <1>2 DEF HeadersArePeers, InOrder, Highest
<1>4. HeightOf(peerTip) \in Nat /\ Highest <= HeightOf(peerTip) /\ At(peerTip, Highest) = hBatch[n]
  BY <1>1, <1>3, Heights, OnPathFacts
<1>5. ASSUME NEW h \in startH .. Highest PROVE Header(h) = At(peerTip, h)
  <2> DEFINE i == h - startH + 1
  <2>1. i \in 1 .. n /\ n \in 1 .. n
    BY <1>2
  <2>2. Header(h) = hBatch[i]
    BY <1>2 DEF Header
  <2> HIDE DEF i, n
  <2>3. OnPath(hBatch[i], hBatch[n])
    BY <1>2, <2>1, InOrderPaths DEF n
  <2>4. OnPath(Header(h), peerTip) /\ Header(h) \in Block /\ HeightOf(Header(h)) = h
    BY <1>1, <1>2, <1>3, <2>2, <2>3, OnPathOrder
  <2> QED
    BY <1>1, <2>4, OnPathFacts
<1> QED
  BY <1>1, <1>2, <1>4, <1>5

\* The peer's chain grows: what was shared still is.
LEMMA SharedStays ==
    ASSUME NEW t \in Block, NEW q \in Block, NEW r \in Block, OnPath(q, r), NEW p, NEW top \in Nat,
           Shared(t, q, p, top)
    PROVE  Shared(t, r, p, top)
<1>1. /\ HeightOf(q) \in 0 .. HeightOf(r) /\ HeightOf(r) \in Nat
      /\ \A k \in 0 .. HeightOf(q) : At(q, k) = At(r, k)
  BY OnPathFacts, Heights
<1>2. p \in 0 .. HeightOf(q) /\ top \in 0 .. HeightOf(q)
  BY <1>1 DEF Shared
<1>3. At(q, p) = At(r, p) /\ At(q, top) = At(r, top) /\ top <= HeightOf(r)
  BY <1>1, <1>2
<1> QED
  BY <1>3 DEF Shared

\* A block further up the peer's chain weighs more.
LEMMA PeersWeights ==
    ASSUME NEW q \in Block, NEW h \in 0 .. HeightOf(q), NEW k \in 0 .. HeightOf(q), h < k
    PROVE  AbsWeight[At(q, h)] < AbsWeight[At(q, k)]
<1> DEFINE a == At(q, h)
           b == At(q, k)
<1>0. HeightOf(q) \in Nat
  BY Heights
<1>1. a \in Block /\ HeightOf(a) = h /\ b \in Block /\ HeightOf(b) = k
  BY Ancestors
<1>2. At(b, h) = a
  <2>1. h \in 0 .. k
    BY <1>0
  <2> QED
    BY <2>1, Ancestors
<1> HIDE DEF a, b
<1>3. OnPath(a, b) /\ a # b
  BY <1>0, <1>1, <1>2 DEF OnPath
<1>4. AbsWeight[a] <= AbsWeight[b] /\ AbsWeight[a] # AbsWeight[b]
  BY <1>1, <1>3, WeightRises
<1>5. AbsWeight[a] \in Nat /\ AbsWeight[b] \in Nat
  BY <1>1, Weights
<1>6. AbsWeight[a] < AbsWeight[b]
  BY <1>4, <1>5
<1> QED
  BY <1>6 DEF a, b

\* Headers from the checkpoint on leave nothing to judge but their weight.
LEMMA NearJudge ==
    ASSUME NearPeers, NearInv, pc = "judge"
    PROVE  /\ hBatch[1] # Genesis /\ ~IsDeepReorg(hBatch)
           /\ Judge(hBatch) \in {"admit", "pass"}
<1> DEFINE n == Len(hBatch)
<1>1. /\ CallInv /\ TypeOK /\ HeadersInOrder /\ OwnOrPeers /\ Checkpointed /\ HeadersArePeers
      /\ startH = finalized + 1
  BY DEF NearInv, CallInv, CallIsNear
<1>2. /\ peerTip \in Block /\ HeightOf(peerTip) \in Nat /\ tip \in Block /\ HeightOf(tip) \in Nat
      /\ finalized \in 0 .. HeightOf(tip) /\ At(tip, finalized) = At(peerTip, finalized)
  BY <1>1, FinalShared
<1>3. /\ Highest \in Nat /\ startH <= Highest /\ Highest <= HeightOf(peerTip)
      /\ \A h \in startH .. Highest : Header(h) = At(peerTip, h)
  BY <1>1, HeadersOnPath
<1>4. /\ InOrder(hBatch) /\ hBatch[1] \in Block /\ HeightOf(hBatch[1]) = startH
      /\ n \in Nat \ {0}
  BY <1>1, HeadersOf
<1>5. hBatch[1] # Genesis
  BY <1>1, <1>2, <1>4, Heights
<1>6. Stored(Parent[hBatch[1]])
  <2>1. startH \in startH .. Highest /\ startH - startH + 1 = 1 /\ startH \in 0 .. HeightOf(peerTip)
        /\ startH > 0 /\ startH - 1 = finalized
    BY <1>1, <1>2, <1>3
  <2>2. hBatch[1] = At(peerTip, startH)
    BY <1>3, <1>4, <2>1 DEF Header
  <2>3. Parent[hBatch[1]] = At(tip, finalized)
    BY <1>2, <2>1, <2>2, Ancestors
  <2> QED
    BY <1>2, <2>3, Ancestors DEF Stored
<1>7. ~IsDeepReorg(hBatch)
  <2>1. ASSUME NEW i \in 1 .. n PROVE ~(HeightOf(hBatch[i]) <= Lower(finalized, HeightOf(tip)))
    <3>1. 1 \in 1 .. i
      OBVIOUS
    <3>2. HeightOf(hBatch[i]) = startH + (i - 1)
      BY <1>4, <3>1, InOrderPaths DEF n
    <3> QED
      BY <1>1, <1>2, <3>2 DEF Lower
  <2> QED
    BY <2>1 DEF IsDeepReorg, n
<1> QED
  BY <1>5, <1>6, <1>7 DEF Judge

\* Admitted headers fork off at a block of both chains, above the checkpoint.
LEMMA AdmittedShares ==
    ASSUME NearPeers, NearInv, pc = "judge", Judge(hBatch) = "admit"
    PROVE  /\ hBatch[1] # Genesis
           /\ Lower(ForkPoint(hBatch), actualH) = ForkPoint(hBatch)
           /\ Shared(tip, peerTip, ForkPoint(hBatch), Highest)
<1> DEFINE b == ForkBlock(hBatch)
           F == HeightOf(b)
           n == Len(hBatch)
<1>1. /\ CallInv /\ TypeOK /\ HeadersInOrder /\ OwnOrPeers /\ Checkpointed /\ HeadersArePeers
      /\ startH = fH + 1 /\ fH = finalized /\ actualH = HeightOf(tip)
  BY DEF NearInv, CallInv, CallIsNear
<1>2. /\ peerTip \in Block /\ HeightOf(peerTip) \in Nat /\ tip \in Block /\ HeightOf(tip) \in Nat
      /\ finalized \in 0 .. HeightOf(tip) /\ finalized <= HeightOf(peerTip)
      /\ HeightOf(tip) <= finalized + FinalityDepth /\ FinalityDepth \in Nat
      /\ At(tip, finalized) = At(peerTip, finalized)
  BY <1>1, FinalShared, LedgerAssumption
<1>3. /\ Highest \in Nat /\ startH \in Nat /\ startH <= Highest /\ Highest <= HeightOf(peerTip)
      /\ \A h \in startH .. Highest : Header(h) = At(peerTip, h)
      /\ hBatch[n] = At(peerTip, Highest)
  BY <1>1, HeadersOnPath
<1>4. /\ InOrder(hBatch) /\ hBatch[1] \in Block /\ HeightOf(hBatch[1]) = startH
      /\ n \in Nat \ {0} /\ Highest = startH + n - 1
      /\ \A h \in startH .. Highest : Header(h) \in Block /\ HeightOf(Header(h)) = h
  BY <1>1, HeadersOf
<1>5. ASSUME NEW i \in 1 .. n PROVE hBatch[i] = Header(startH + i - 1) /\ startH + i - 1 \in startH .. Highest
  <2> DEFINE h == startH + i - 1
  <2>1. h - startH + 1 = i /\ h \in startH .. Highest
    BY <1>3, <1>4
  <2>2. Header(h) = hBatch[i]
    BY <1>4, <2>1 DEF Header
  <2> QED
    BY <2>1, <2>2
<1> HIDE DEF n
<1>6. hBatch[1] # Genesis
  BY NearJudge
<1>7. ForkPoint(hBatch) = F
  BY <1>6 DEF ForkPoint
<1>8. /\ F \in finalized .. Highest /\ F <= HeightOf(tip)
      /\ At(tip, F) = At(peerTip, F)
      /\ \A i \in 1 .. n : Stored(hBatch[i]) => startH + i - 1 <= F
  <2>1. CASE Matched(hBatch) = {}
    <3>1. b = Parent[hBatch[1]] /\ HeightOf(hBatch[1]) = F + 1 /\ F \in Nat
      BY <1>4, <1>6, <2>1, Heights DEF ForkBlock
    <3>2. F = finalized
      BY <1>1, <1>2, <1>4, <3>1
    <3>3. \A i \in 1 .. n : ~Stored(hBatch[i])
      BY <2>1 DEF Matched, n
    <3> HIDE DEF b, F
    <3> QED
      BY <1>1, <1>2, <1>3, <3>2, <3>3
  <2>2. CASE Matched(hBatch) # {}
    <3> DEFINE m == LastMatch(hBatch)
    <3>1. m \in Matched(hBatch) /\ \A k \in Matched(hBatch) : k <= m
      BY <1>2, <1>4, <2>2, LastMatchIsLast
    <3>2. b = hBatch[m]
      BY <2>2 DEF ForkBlock
    <3> HIDE DEF m, b
    <3>3. m \in 1 .. n /\ Stored(b)
      BY <3>1, <3>2 DEF Matched, n
    <3>4. b = Header(startH + m - 1) /\ startH + m - 1 \in startH .. Highest
      BY <1>5, <3>2, <3>3
    <3>5. F = startH + m - 1 /\ b \in Block /\ b = At(peerTip, F)
      BY <1>3, <1>4, <3>4
    <3>6. F \in 0 .. HeightOf(tip) /\ At(tip, F) = b
      BY <1>2, <3>3, <3>5, OnPathFacts DEF Stored
    <3>7. \A i \in 1 .. n : Stored(hBatch[i]) => i <= m
      BY <3>1 DEF Matched, n
    <3>8. \A i \in 1 .. n : Stored(hBatch[i]) => startH + i - 1 <= F
      BY <1>3, <1>4, <3>3, <3>5, <3>7
    <3> HIDE DEF F
    <3> QED
      BY <1>1, <1>2, <1>3, <3>3, <3>4, <3>5, <3>6, <3>8
  <2> QED
    BY <2>1, <2>2
<1> HIDE DEF b, F
<1>9. AbsWeight[At(peerTip, Highest)] > AbsWeight[tip]
  <2>1. ~IsDeepReorg(hBatch)
    BY NearJudge
  <2>2. AbsWeight[hBatch[n]] > AbsWeight[tip]
    BY <1>6, <2>1 DEF Judge, n
  <2> QED
    BY <1>3, <2>2
<1>10. tip \in StartTips \/ tip = At(peerTip, F)
  <2> SUFFICES ASSUME OnPath(tip, peerTip) PROVE HeightOf(tip) = F
    BY <1>1, <1>2, <1>8, Heights DEF OwnOrPeers
  <2>1. /\ HeightOf(tip) \in 0 .. HeightOf(peerTip) /\ At(peerTip, HeightOf(tip)) = tip
        /\ \A k \in 0 .. HeightOf(tip) : At(tip, k) = At(peerTip, k)
    BY <1>2, OnPathFacts
  <2>2. HeightOf(tip) <= Highest
    <3> SUFFICES ASSUME HeightOf(tip) > Highest PROVE FALSE
      BY <1>2, <1>3
    <3>1. Highest \in 0 .. HeightOf(peerTip) /\ Highest < HeightOf(tip)
      BY <1>2, <1>3
    <3>2. AbsWeight[At(peerTip, Highest)] < AbsWeight[tip]
      BY <1>2, <2>1, <3>1, PeersWeights
    <3>3. AbsWeight[tip] \in Nat /\ AbsWeight[At(peerTip, Highest)] \in Nat
      BY <1>2, <3>1, Ancestors, Weights
    <3> QED
      BY <1>9, <3>2, <3>3
  <2> SUFFICES ASSUME F < HeightOf(tip) PROVE FALSE
    BY <1>2, <1>3, <1>8
  <2> DEFINE i == F + 1 - startH + 1
  <2>3. i \in 1 .. n /\ startH + i - 1 = F + 1 /\ F + 1 \in startH .. Highest /\ F + 1 \in 0 .. HeightOf(tip)
    BY <1>1, <1>2, <1>3, <1>4, <1>8, <2>2
  <2> HIDE DEF i
  <2>4. hBatch[i] = At(tip, F + 1)
    BY <1>3, <1>5, <2>1, <2>3
  <2>5. Stored(hBatch[i])
    BY <1>2, <2>3, <2>4, Ancestors DEF Stored
  <2>6. F + 1 <= F
    BY <1>8, <2>3, <2>5
  <2> QED
    BY <1>2, <1>8, <2>6
<1>11. Shared(tip, peerTip, F, Highest)
  BY <1>2, <1>3, <1>8, <1>9, <1>10 DEF Shared
<1>12. Lower(F, actualH) = F
  BY <1>1, <1>2, <1>3, <1>8 DEF Lower
<1> QED
  BY <1>6, <1>7, <1>11, <1>12

\* A chunk of the peer's blocks beats the node's chain.
LEMMA ChunkAdopted ==
    ASSUME NearPeers, NearInv, pc = "deliver", debt # <<>>
    PROVE  /\ Verdict(Chunk, bare) = "adopted"
           /\ Reached \in Nat /\ Reached + Len(Chunk) <= limitH
           /\ Chunk[Len(Chunk)] = At(peerTip, Reached + Len(Chunk))
<1> DEFINE c == Len(Chunk)
           p == Reached
           top == At(peerTip, p + c)
<1>1. /\ TypeOK /\ CallInv /\ HeadersInOrder /\ Checkpointed /\ HeadersArePeers
      /\ bare = {} /\ Shared(tip, peerTip, p, Highest)
      /\ \A i \in 1 .. Len(debt) : debt[i] = At(peerTip, p + i)
      /\ \/ tip = At(peerTip, p)
         \/ limitH = Highest
         \/ Len(debt) \in SmartAnswers \cup {BodySpan}
      /\ peerTip \in PeerTips /\ peerTip \in Block /\ tip \in Block
      /\ limitH \in Nat /\ limitH <= Highest
  <2>1. /\ TypeOK /\ CallInv /\ HeadersInOrder /\ Checkpointed /\ HeadersArePeers /\ PointInHeaders
        /\ PointIsShared /\ DebtIsPeers
    BY DEF NearInv, CallInv
  <2>2. limitH \in Nat /\ limitH <= Highest
    BY <2>1, HeadersOf DEF TypeOK, PointInHeaders
  <2> QED
    BY <2>1, <2>2, CatchUpAssumption DEF NearInv, PointIsShared, DebtIsPeers, TypeOK
<1>2. /\ Highest \in Nat /\ Highest <= HeightOf(peerTip) /\ HeightOf(peerTip) \in Nat
  BY <1>1, HeadersOnPath
<1>3. /\ Chunk \in Seq(Block) /\ Chunk # <<>> /\ c \in 1 .. Len(debt) /\ Len(debt) \in Nat
      /\ \A i \in 1 .. c : Chunk[i] = debt[i]
      /\ c = ChunkSize \/ c = Len(debt)
      /\ c <= ChunkSize /\ ChunkSize \in Nat
  <2>1. debt \in Seq(Block) /\ Len(debt) \in Nat \ {0} /\ ChunkSize \in Nat \ {0}
    BY <1>1, CatchUpAssumption DEF TypeOK
  <2>2. c = Lower(ChunkSize, Len(debt))
    <3> DEFINE k == Lower(ChunkSize, Len(debt))
    <3>1. k \in 1 .. Len(debt)
      BY <2>1 DEF Lower
    <3>2. Chunk = SubSeq(debt, 1, k)
      BY DEF Chunk
    <3> HIDE DEF k
    <3> QED
      BY <2>1, <3>1, <3>2 DEF k
  <2> QED
    BY <1>1, <2>1, <2>2, ChunkOf DEF Lower
<1>4. p = limitH - Len(debt) /\ p \in Nat /\ p + Len(debt) = limitH
  BY <1>1, <1>3 DEF Reached, Shared
<1> HIDE DEF c, p
<1>5. /\ p + c \in 0 .. HeightOf(peerTip) /\ p \in 0 .. HeightOf(peerTip) /\ p < p + c
      /\ p + c <= limitH
  BY <1>1, <1>2, <1>3, <1>4
<1>6. \A i \in 1 .. c : Chunk[i] = At(peerTip, p + i)
  BY <1>1, <1>3, <1>4
<1>7. /\ p \in 0 .. HeightOf(tip) /\ HeightOf(tip) \in Nat /\ At(tip, p) = At(peerTip, p)
      /\ HeightOf(tip) <= p + FinalityDepth /\ FinalityDepth \in Nat
      /\ tip \in StartTips \/ tip = At(peerTip, p)
      /\ p = Highest \/ AbsWeight[At(peerTip, Highest)] > AbsWeight[tip]
  BY <1>1, <1>4, Heights, LedgerAssumption DEF Shared
<1>8. /\ Parent[Chunk[1]] = At(peerTip, p)
      /\ \A i \in 2 .. c : Parent[Chunk[i]] = Chunk[i - 1]
  <2>1. ASSUME NEW i \in 1 .. c PROVE Parent[Chunk[i]] = At(peerTip, p + i - 1)
    <3> DEFINE h == p + i
    <3>1. h \in 0 .. HeightOf(peerTip) /\ h > 0
      <4>1. i \in Nat /\ i > 0 /\ c \in Nat /\ i <= c
        BY <1>3
      <4> QED
        BY <1>2, <1>4, <1>5, <4>1
    <3>2. Chunk[i] = At(peerTip, h)
      BY <1>6
    <3> HIDE DEF h
    <3>3. Parent[Chunk[i]] = At(peerTip, h - 1)
      BY <1>1, <3>1, <3>2, Ancestors
    <3>4. h - 1 = p + i - 1
      BY <1>4 DEF h
    <3> QED
      BY <3>3, <3>4
  <2>2. 1 \in 1 .. c /\ p + 1 - 1 = p
    BY <1>3, <1>4
  <2>3. ASSUME NEW i \in 2 .. c PROVE Parent[Chunk[i]] = Chunk[i - 1]
    <3>1. i \in 1 .. c /\ i - 1 \in 1 .. c /\ p + i - 1 = p + (i - 1)
      BY <1>3, <1>4
    <3> QED
      BY <1>6, <2>1, <3>1
  <2> QED
    BY <2>1, <2>2, <2>3
<1>9. Linked(Chunk)
  BY <1>8 DEF Linked, c
<1>10. Stored(At(peerTip, p)) /\ HeightOf(At(peerTip, p)) = p
  BY <1>1, <1>5, <1>7, Ancestors DEF Stored
<1>11. AbsWeight[top] > AbsWeight[tip]
  <2>1. CASE tip = At(peerTip, p)
    <3>1. AbsWeight[At(peerTip, p)] < AbsWeight[At(peerTip, p + c)]
      BY <1>1, <1>5, PeersWeights
    <3>2. AbsWeight[At(peerTip, p)] \in Nat /\ AbsWeight[At(peerTip, p + c)] \in Nat
      BY <1>1, <1>5, Ancestors, Weights
    <3> QED
      BY <2>1, <3>1, <3>2
  <2>2. CASE tip \in StartTips /\ c \in SmartAnswers \cup {BodySpan, ChunkSize}
    <3>1. At(tip, p) = At(peerTip, p) /\ HeightOf(tip) <= p + FinalityDepth /\ p + c <= HeightOf(peerTip)
      BY <1>5, <1>7
    <3> QED
      BY <1>1, <1>7, <2>2, <3>1 DEF NearPeers
  <2>3. CASE limitH = Highest /\ c = Len(debt)
    <3>1. p + c = Highest /\ p # Highest
      BY <1>2, <1>3, <1>4, <2>3
    <3> QED
      BY <1>7, <3>1
  <2> QED
    BY <1>1, <1>3, <1>7, <2>1, <2>2, <2>3
<1>12. ~(p < finalized)
  BY <1>1, <1>4, <1>7 DEF Checkpointed, Sat
<1>13. Chunk[c] = top
  BY <1>3, <1>6
<1>14. Wins(Parent[Chunk[1]], Chunk[c])
  BY <1>8, <1>10, <1>11, <1>12, <1>13 DEF Wins
<1>15. Verdict(Chunk, bare) = "adopted"
  BY <1>1, <1>8, <1>9, <1>10, <1>14 DEF Verdict, c
<1> QED
  BY <1>4, <1>5, <1>13, <1>15 DEF c, p

\* A step that leaves the call and the node alone; the peer may have grown.
LEMMA QuietNear ==
    ASSUME NearInv, CallInv', UNCHANGED <<ledgerVars, pc, catchUpVars, strikes>>, OnPath(peerTip, peerTip')
    PROVE  NearInv'
<1>1. /\ UNCHANGED <<tip, finalized, pc, peerH, startH, fH, actualH, hBatch, point, debt, bare,
                     limitH, reply, strikes>>
  BY DEF ledgerVars, catchUpVars, began
<1>2. /\ tip \in Block /\ peerTip \in Block /\ peerTip' \in Block
      /\ HeightOf(peerTip) \in Nat /\ HeightOf(peerTip') \in Nat /\ peerH \in Nat
      /\ HeightOf(peerTip) <= HeightOf(peerTip')
  <2>1. tip \in Block /\ peerTip \in Block /\ peerTip' \in Block /\ peerH \in Nat
    BY CatchUpAssumption DEF NearInv, CallInv, TypeOK
  <2> QED
    BY <2>1, Heights DEF OnPath
<1>3. OwnOrPeers'
  <2>1. OnPath(tip, peerTip) => OnPath(tip, peerTip')
    BY <1>2, OnPathOrder
  <2> QED
    BY <1>1, <2>1 DEF NearInv, OwnOrPeers, OnPath, HeightOf, At
<1>4. Checkpointed'
  BY <1>1 DEF NearInv, Checkpointed, HeightOf
<1>5. CallIsNear'
  BY <1>1, <1>2 DEF NearInv, CallIsNear, HeightOf
<1>6. HeadersArePeers'
  <2> SUFFICES ASSUME pc \notin {"idle", "headers"} PROVE OnPath(hBatch[Len(hBatch)], peerTip')
    BY <1>1 DEF HeadersArePeers, OnPath, HeightOf, At
  <2>1. hBatch[Len(hBatch)] \in Block
    <3>1. hBatch \in Seq(Block) /\ hBatch # <<>>
      BY DEF NearInv, CallInv, HeadersInOrder, InOrder
    <3> QED
      BY <3>1
  <2> QED
    BY <1>2, <2>1, OnPathOrder DEF NearInv, HeadersArePeers
<1>7. Highest' = Highest /\ Reached' = Reached
  BY <1>1 DEF Highest, HeightOf, Reached
<1>8. ASSUME pc \in {"fetch", "bodies", "deliver"}
      PROVE  /\ Shared(tip, peerTip, Reached, Highest) /\ Shared(tip, peerTip', Reached, Highest)
             /\ Reached \in Nat /\ Highest \in Nat /\ Reached <= Highest /\ Highest <= HeightOf(peerTip)
  <2>1. Shared(tip, peerTip, Reached, Highest)
    BY <1>8 DEF NearInv, PointIsShared
  <2>2. Highest \in Nat
    BY <1>8, HeadersOnPath DEF NearInv
  <2> QED
    BY <1>2, <2>1, <2>2, SharedStays DEF Shared
<1>9. PointIsShared'
  BY <1>1, <1>7, <1>8 DEF PointIsShared, Shared, HeightOf, At
<1>10. DebtIsPeers'
  <2> SUFFICES ASSUME pc = "deliver" PROVE DebtIsPeers'
    BY <1>1 DEF DebtIsPeers
  <2>1. /\ \A i \in 1 .. Len(debt) : debt[i] = At(peerTip, Reached + i)
        /\ \/ tip = At(peerTip, Reached)
           \/ limitH = Highest
           \/ Len(debt) \in SmartAnswers \cup {BodySpan}
        /\ reply \in {"none", "adopted"} /\ (debt = <<>> => reply = "adopted")
    BY DEF NearInv, DebtIsPeers
  <2>2. \A k \in 0 .. HeightOf(peerTip) : At(peerTip', k) = At(peerTip, k)
    BY <1>2, OnPathFacts
  <2>3. At(peerTip', Reached) = At(peerTip, Reached)
    BY <1>2, <1>8, <2>2
  <2>4. \A i \in 1 .. Len(debt) : At(peerTip', Reached + i) = At(peerTip, Reached + i)
    <3>1. limitH \in Nat /\ Len(debt) \in Nat /\ limitH <= Highest /\ limitH - Len(debt) = Reached
      BY HeadersOf DEF NearInv, CallInv, TypeOK, PointInHeaders, Reached
    <3>2. \A i \in 1 .. Len(debt) : Reached + i \in 0 .. HeightOf(peerTip)
      BY <1>2, <1>8, <3>1
    <3> QED
      BY <2>2, <3>2
  <2>5. \A i \in 1 .. Len(debt') : debt'[i] = At(peerTip', Reached' + i)
    BY <1>1, <1>7, <2>1, <2>4
  <2>6. /\ \/ tip' = At(peerTip', Reached')
           \/ limitH' = Highest'
           \/ Len(debt') \in SmartAnswers \cup {BodySpan}
        /\ reply' \in {"none", "adopted"} /\ (debt' = <<>> => reply' = "adopted")
    BY <1>1, <1>7, <2>1, <2>3
  <2> QED
    BY <2>5, <2>6 DEF DebtIsPeers, At
<1> QED
  BY <1>1, <1>3, <1>4, <1>5, <1>6, <1>9, <1>10 DEF NearInv

\* What a step of the call itself leaves to show.
LEMMA StepNear ==
    ASSUME NearInv, CallInv', UNCHANGED <<ledgerVars, peerTip>>, strikes' = 0, bare' = {},
           CallIsNear', HeadersArePeers', PointIsShared', DebtIsPeers'
    PROVE  NearInv'
<1>1. UNCHANGED <<tip, finalized, peerTip>>
  BY DEF ledgerVars
<1>2. OwnOrPeers' /\ Checkpointed'
  BY <1>1 DEF NearInv, OwnOrPeers, Checkpointed, OnPath, HeightOf, At
<1> QED
  BY <1>2 DEF NearInv

LEMMA ReturnNear ==
    ASSUME NearInv, CallInv', NEW result, Return(result), UNCHANGED <<ledgerVars, peerTip>>, strikes' = 0
    PROVE  NearInv'
<1>1. pc' = "idle" /\ bare' = {}
  BY DEF Return
<1>2. CallIsNear' /\ HeadersArePeers' /\ PointIsShared' /\ DebtIsPeers'
  BY <1>1 DEF CallIsNear, HeadersArePeers, PointIsShared, DebtIsPeers
<1> QED
  BY <1>1, <1>2, StepNear

LEMMA StartNear ==
    ASSUME NearInv, CallInv', Start
    PROVE  NearInv'
<1>1. /\ pc' = "headers" /\ startH' = finalized + 1 /\ fH' = finalized /\ actualH' = HeightOf(tip)
      /\ peerH' = HeightOf(peerTip) /\ UNCHANGED <<ledgerVars, tip, finalized, peerTip>> /\ strikes' = 0 /\ bare' = {}
  BY DEF Start, ledgerVars, NearInv
<1>2. HeightOf(peerTip) \in Nat
  BY Heights, CatchUpAssumption DEF NearInv, CallInv, TypeOK
<1>3. CallIsNear'
  BY <1>1, <1>2 DEF CallIsNear, HeightOf
<1>4. HeadersArePeers' /\ PointIsShared' /\ DebtIsPeers'
  BY <1>1 DEF HeadersArePeers, PointIsShared, DebtIsPeers
<1> QED
  BY <1>1, <1>3, <1>4, StepNear

LEMMA DownloadNear ==
    ASSUME NearInv, CallInv', DownloadHeaders
    PROVE  NearInv'
<1>0. /\ peerTip \in Block /\ Len(hBatch') \in Nat \ {0}
      /\ \A i \in 1 .. Len(hBatch') : /\ hBatch'[i] = At(peerTip, startH + i - 1)
                                     /\ startH + i - 1 \in 0 .. HeightOf(peerTip)
  BY Downloaded DEF NearInv
<1>1. /\ pc = "headers" /\ pc' = "judge" /\ strikes' = 0 /\ bare' = {}
      /\ UNCHANGED <<ledgerVars, tip, finalized, peerTip, startH, fH, peerH, actualH>>
  BY DEF DownloadHeaders, ledgerVars, NearInv, began
<1>2. CallIsNear'
  BY <1>1 DEF NearInv, CallIsNear, HeightOf
<1>3. HeadersArePeers'
  <2> DEFINE n == Len(hBatch')
             h == startH + n - 1
  <2>1. peerTip \in Block /\ n \in 1 .. n
    BY <1>0
  <2>2. hBatch'[n] = At(peerTip, h) /\ h \in 0 .. HeightOf(peerTip)
    BY <1>0, <2>1
  <2> HIDE DEF n, h
  <2>3. OnPath(hBatch'[n], peerTip)
    BY <2>1, <2>2, Ancestors
  <2>4. OnPath(hBatch[Len(hBatch)], peerTip)'
    BY <1>1, <2>3 DEF n, OnPath, HeightOf, At
  <2> QED
    BY <2>4 DEF HeadersArePeers
<1>4. PointIsShared' /\ DebtIsPeers'
  BY <1>1 DEF PointIsShared, DebtIsPeers
<1> QED
  BY <1>1, <1>2, <1>3, <1>4, StepNear

LEMMA AdmitNear ==
    ASSUME NearPeers, NearInv, CallInv', Admit
    PROVE  NearInv'
<1>1. /\ pc = "judge" /\ Judge(hBatch) = "admit" /\ pc' = "fetch" /\ strikes' = 0 /\ bare' = {}
      /\ point' = Lower(ForkPoint(hBatch), actualH)
      /\ UNCHANGED <<ledgerVars, tip, finalized, peerTip, startH, fH, peerH, actualH, hBatch, bare>>
  BY DEF Admit, ledgerVars, NearInv, began
<1>2. Shared(tip, peerTip, point', Highest)
  BY <1>1, AdmittedShares
<1>3. CallIsNear' /\ HeadersArePeers'
  BY <1>1 DEF NearInv, CallIsNear, HeadersArePeers, OnPath, HeightOf, At
<1>4. PointIsShared'
  <2>1. Reached' = point' /\ Highest' = Highest
    BY <1>1 DEF Reached, Highest, HeightOf
  <2> QED
    BY <1>1, <1>2, <2>1 DEF PointIsShared, Shared, HeightOf, At
<1>5. DebtIsPeers'
  BY <1>1 DEF DebtIsPeers
<1> QED
  BY <1>1, <1>3, <1>4, <1>5, StepNear

LEMMA FetchSmartNear ==
    ASSUME NearPeers, NearInv, CallInv', FetchSmart
    PROVE  NearInv'
<1>1. /\ pc = "fetch" /\ pc' = "deliver" /\ strikes' = 0 /\ bare' = {} /\ reply' = "none"
      /\ UNCHANGED <<ledgerVars, tip, finalized, peerTip, startH, fH, peerH, actualH, hBatch, point>>
  BY DEF FetchSmart, ledgerVars, NearInv, began
<1>2. PICK n \in SmartAnswers :
         LET last == Lower(Lower(point + n, Highest), HeightOf(peerTip))
         IN  /\ last > point
             /\ debt' = [i \in 1 .. (last - point) |-> At(peerTip, point + i)]
             /\ limitH' = last
  BY DEF FetchSmart
<1>3. n \in Nat
  BY CatchUpAssumption
<1>4. /\ Shared(tip, peerTip, point, Highest) /\ point \in Nat
      /\ Highest \in Nat /\ Highest <= HeightOf(peerTip) /\ HeightOf(peerTip) \in Nat
  BY <1>1, HeadersOnPath DEF NearInv, PointIsShared, Reached, Shared
<1> DEFINE last == Lower(Highest, point + n)
<1>5. /\ last > point /\ last \in Nat /\ limitH' = last
      /\ debt' = [i \in 1 .. (last - point) |-> At(peerTip, point + i)]
      /\ last = Highest \/ last - point = n
  <2>1. Lower(Lower(point + n, Highest), HeightOf(peerTip)) = last
    BY <1>3, <1>4 DEF Lower
  <2>2. last \in Nat /\ (last = Highest \/ last - point = n)
    BY <1>3, <1>4 DEF Lower
  <2> QED
    BY <1>2, <2>1, <2>2
<1> HIDE DEF last
<1>6. Len(debt') = last - point /\ last - point \in Nat \ {0}
  BY <1>4, <1>5
<1>7. Reached' = point /\ Highest' = Highest
  BY <1>1, <1>4, <1>5, <1>6 DEF Reached, Highest, HeightOf
<1>8. CallIsNear' /\ HeadersArePeers'
  BY <1>1 DEF NearInv, CallIsNear, HeadersArePeers, OnPath, HeightOf, At
<1>9. PointIsShared'
  BY <1>1, <1>4, <1>7 DEF PointIsShared, Shared, HeightOf, At
<1>10. DebtIsPeers'
  <2>1. \A i \in 1 .. Len(debt') : debt'[i] = At(peerTip', Reached' + i)
    BY <1>1, <1>5, <1>6, <1>7
  <2>2. limitH' = Highest' \/ Len(debt') \in SmartAnswers \cup {BodySpan}
    BY <1>5, <1>6, <1>7
  <2>3. debt' # <<>>
    BY <1>6
  <2> QED
    BY <1>1, <2>1, <2>2, <2>3 DEF DebtIsPeers, At
<1> QED
  BY <1>1, <1>8, <1>9, <1>10, StepNear

LEMMA FetchByHeightNear ==
    ASSUME NearInv, CallInv', FetchByHeight
    PROVE  NearInv'
<1>1. /\ pc = "fetch" /\ pc' = "bodies" /\ strikes' = 0 /\ bare' = {}
      /\ UNCHANGED <<ledgerVars, tip, finalized, peerTip, startH, fH, peerH, actualH, hBatch, point>>
  BY DEF FetchByHeight, ledgerVars, NearInv, catchUpVars, began
<1>2. Shared(tip, peerTip, point, Highest)
  BY <1>1 DEF NearInv, PointIsShared, Reached
<1>3. Reached' = point /\ Highest' = Highest
  BY <1>1 DEF Reached, Highest, HeightOf
<1>4. CallIsNear' /\ HeadersArePeers'
  BY <1>1 DEF NearInv, CallIsNear, HeadersArePeers, OnPath, HeightOf, At
<1>5. PointIsShared' /\ DebtIsPeers'
  BY <1>1, <1>2, <1>3 DEF PointIsShared, DebtIsPeers, Shared, HeightOf, At
<1> QED
  BY <1>1, <1>4, <1>5, StepNear

\* Nothing of pendingBlocks takes a header's place, and no header is below the
\* checkpoint: all bodies are the peer's, and it has them all.
LEMMA GatherNear ==
    ASSUME NearPeers, NearInv, CallInv', Gather
    PROVE  NearInv'
<1> DEFINE last == Lower(Highest, point + BodySpan)
<1>1. /\ pc = "bodies" /\ pc' = "deliver" /\ strikes' = 0 /\ reply' = "none" /\ limitH' = last
      /\ debt' = [i \in 1 .. (last - point) |-> Body(point + i)]
      /\ bare' = {Header(h) : h \in (point + 1) .. (Lower(last + 1, finalized) - 1)}
      /\ UNCHANGED <<ledgerVars, tip, finalized, peerTip, startH, fH, peerH, actualH, hBatch, point>>
  BY DEF Gather, ledgerVars, NearInv, began
<1>2. /\ Shared(tip, peerTip, point, Highest) /\ point \in Nat
      /\ Highest \in Nat /\ Highest <= HeightOf(peerTip) /\ HeightOf(peerTip) \in Nat
      /\ startH <= point + 1 /\ point < Highest /\ startH \in Nat
      /\ \A h \in startH .. Highest : Header(h) = At(peerTip, h)
  BY <1>1, HeadersOnPath DEF NearInv, CallInv, PointInHeaders, PointIsShared, Reached, Shared
<1>3. BodySpan \in Nat \ {0} /\ finalized \in Nat /\ finalized <= point
  <2>1. /\ HeightOf(tip) \in Nat /\ FinalityDepth \in Nat /\ HeightOf(tip) <= point + FinalityDepth
        /\ finalized = Sat(HeightOf(tip), FinalityDepth)
    BY <1>2, Heights, LedgerAssumption DEF NearInv, CallInv, TypeOK, Shared, Checkpointed
  <2> QED
    BY <1>2, <2>1, CatchUpAssumption DEF Sat
<1>4. last > point /\ last \in Nat /\ last <= Highest /\ (last = Highest \/ last - point = BodySpan)
  BY <1>2, <1>3 DEF Lower
<1> HIDE DEF last
<1>5. bare' = {}
  <2>1. \A h \in (point + 1) .. (Lower(last + 1, finalized) - 1) : FALSE
    BY <1>2, <1>3, <1>4 DEF Lower
  <2> QED
    BY <1>1, <2>1
<1>6. \A h \in startH .. Highest : Body(h) = At(peerTip, h)
  <2>1. pending = {}
    BY DEF NearPeers, NearInv, CallInv, TypeOK
  <2>2. \A h : Cached(h) = {}
    BY <2>1 DEF Cached
  <2> QED
    BY <1>2, <2>2 DEF Body
<1>7. Len(debt') = last - point /\ last - point \in Nat \ {0}
  BY <1>1, <1>2, <1>4
<1>8. Reached' = point /\ Highest' = Highest
  BY <1>1, <1>2, <1>4, <1>7 DEF Reached, Highest, HeightOf
<1>9. CallIsNear' /\ HeadersArePeers'
  BY <1>1 DEF NearInv, CallIsNear, HeadersArePeers, OnPath, HeightOf, At
<1>10. PointIsShared'
  BY <1>1, <1>2, <1>8 DEF PointIsShared, Shared, HeightOf, At
<1>11. DebtIsPeers'
  <2>1. ASSUME NEW i \in 1 .. Len(debt') PROVE debt'[i] = At(peerTip', Reached' + i)
    <3>1. i \in 1 .. (last - point) /\ point + i \in startH .. Highest
      BY <1>2, <1>4, <1>7
    <3> QED
      BY <1>1, <1>6, <1>8, <3>1
  <2>2. limitH' = Highest' \/ Len(debt') \in SmartAnswers \cup {BodySpan}
    BY <1>1, <1>4, <1>7, <1>8
  <2>3. debt' # <<>>
    BY <1>7
  <2> QED
    BY <1>1, <2>1, <2>2, <2>3 DEF DebtIsPeers, At
<1> QED
  BY <1>1, <1>5, <1>9, <1>10, <1>11, StepNear

\* Each chunk is adopted: the tip is then the peer's block reached.
LEMMA DeliverNear ==
    ASSUME NearPeers, NearInv, CallInv', Deliver
    PROVE  NearInv'
<1> DEFINE c == Len(Chunk)
           r == Reached + c
           top == At(peerTip, r)
<1>1. /\ pc = "deliver" /\ pc' = "deliver" /\ strikes' = 0 /\ bare' = {} /\ debt # <<>>
      /\ ProcessChain(Chunk, bare) /\ reply' = Verdict(Chunk, bare)
      /\ debt' = IF Verdict(Chunk, bare) \in {"fraud", "mismatch"} THEN <<>>
                 ELSE SubSeq(debt, c + 1, Len(debt))
      /\ UNCHANGED <<peerTip, startH, fH, peerH, actualH, hBatch, point, limitH>>
  BY DEF Deliver, NearInv, began
<1>2. /\ Verdict(Chunk, bare) = "adopted" /\ Reached \in Nat /\ r <= limitH /\ Chunk[c] = top
  BY <1>1, ChunkAdopted
<1>3. /\ tip' = top /\ finalized' = Sat(HeightOf(top), FinalityDepth) /\ reply' = "adopted"
      /\ debt' = SubSeq(debt, c + 1, Len(debt))
  BY <1>1, <1>2 DEF ProcessChain
<1>4. /\ TypeOK /\ debt \in Seq(Block) /\ Len(debt) \in Nat /\ c \in 1 .. Len(debt)
      /\ peerTip \in Block /\ HeightOf(peerTip) \in Nat
      /\ Highest \in Nat /\ Highest <= HeightOf(peerTip)
      /\ limitH \in Nat /\ limitH <= Highest /\ Reached = limitH - Len(debt)
      /\ \A i \in 1 .. Len(debt) : debt[i] = At(peerTip, Reached + i)
  <2>1. TypeOK /\ CallInv /\ HeadersArePeers /\ PointInHeaders /\ DebtIsPeers
    BY DEF NearInv, CallInv
  <2>2. /\ peerTip \in Block /\ HeightOf(peerTip) \in Nat
        /\ Highest \in Nat /\ Highest <= HeightOf(peerTip)
    BY <1>1, <2>1, HeadersOnPath
  <2>3. c \in 1 .. Len(debt)
    BY <1>1, <2>1, ChunkOf
  <2> QED
    BY <1>1, <2>1, <2>2, <2>3 DEF TypeOK, PointInHeaders, DebtIsPeers, Reached
<1> HIDE DEF c
<1>5. r \in 0 .. HeightOf(peerTip) /\ r \in Nat /\ r <= Highest
  BY <1>2, <1>4
<1>6. /\ Len(debt') = Len(debt) - c
      /\ \A i \in 1 .. (Len(debt) - c) : debt'[i] = debt[c + i]
  <2>1. CASE c = Len(debt)
    <3>1. debt' = <<>>
      BY <1>3, <1>4, <2>1
    <3> QED
      BY <1>4, <2>1, <3>1
  <2>2. CASE c # Len(debt)
    <3>1. /\ c + 1 \in 1 .. Len(debt) /\ Len(debt) \in (c + 1) .. Len(debt)
          /\ Len(debt) - (c + 1) + 1 = Len(debt) - c
      BY <1>4, <2>2
    <3>2. /\ Len(debt') = Len(debt) - c
          /\ \A i \in 1 .. (Len(debt) - c) : debt'[i] = debt[(c + 1) + i - 1]
      BY <1>3, <1>4, <3>1
    <3>3. \A i \in 1 .. (Len(debt) - c) : (c + 1) + i - 1 = c + i
      BY <1>4
    <3> QED
      BY <3>2, <3>3
  <2> QED
    BY <2>1, <2>2
<1>7. Reached' = r /\ Highest' = Highest
  <2>1. Highest' = Highest
    BY <1>1 DEF Highest, HeightOf
  <2>2. Reached' = limitH - Len(debt')
    BY <1>1 DEF Reached
  <2>3. limitH - (Len(debt) - c) = (limitH - Len(debt)) + c
    BY <1>4
  <2> QED
    BY <1>4, <1>6, <2>1, <2>2, <2>3
<1>8. top \in Block /\ HeightOf(top) = r /\ At(top, r) = top /\ OnPath(top, peerTip)
  <2>1. top \in Block /\ HeightOf(top) = r /\ OnPath(top, peerTip)
    BY <1>4, <1>5, Ancestors
  <2> HIDE DEF r, top
  <2>2. At(top, HeightOf(top)) = top
    BY <2>1, Heights
  <2> QED
    BY <2>1, <2>2
<1>9. OwnOrPeers' /\ Checkpointed'
  BY <1>1, <1>3, <1>8 DEF OwnOrPeers, Checkpointed, OnPath, HeightOf, At, Sat
<1>10. CallIsNear' /\ HeadersArePeers'
  BY <1>1 DEF NearInv, CallIsNear, HeadersArePeers, OnPath, HeightOf, At
<1>11. PointIsShared'
  <2>1. r = Highest \/ AbsWeight[At(peerTip, Highest)] > AbsWeight[top]
    <3>1. CASE r < Highest
      <4>1. Highest \in 0 .. HeightOf(peerTip)
        BY <1>4
      <4>2. AbsWeight[top] < AbsWeight[At(peerTip, Highest)]
        BY <1>4, <1>5, <3>1, <4>1, PeersWeights
      <4>3. AbsWeight[top] \in Nat /\ AbsWeight[At(peerTip, Highest)] \in Nat
        BY <1>4, <1>8, <4>1, Ancestors, Weights
      <4> QED
        BY <4>2, <4>3
    <3> QED
      BY <1>4, <1>5, <3>1
  <2> HIDE DEF r, top
  <2>2. top = At(peerTip, r)
    BY DEF top
  <2>3. r <= r + FinalityDepth
    BY <1>5, LedgerAssumption
  <2>4. Shared(top, peerTip, r, Highest)
    BY <1>4, <1>5, <1>8, <2>1, <2>2, <2>3 DEF Shared
  <2> QED
    BY <1>1, <1>3, <1>7, <2>4 DEF PointIsShared, Shared, HeightOf, At
<1>12. DebtIsPeers'
  <2>1. ASSUME NEW i \in 1 .. Len(debt') PROVE debt'[i] = At(peerTip', Reached' + i)
    <3>1. c + i \in 1 .. Len(debt) /\ i \in 1 .. (Len(debt) - c) /\ Reached + (c + i) = r + i
      BY <1>2, <1>4, <1>6
    <3> QED
      BY <1>1, <1>4, <1>6, <1>7, <3>1
  <2>2. tip' = At(peerTip', Reached')
    BY <1>1, <1>3, <1>7
  <2> QED
    BY <1>3, <2>1, <2>2 DEF DebtIsPeers, At
<1> QED
  BY <1>1, <1>9, <1>10, <1>11, <1>12 DEF NearInv

\* All chunks of a batch adopted, the call goes on from the last block.
LEMMA ConcludeNear ==
    ASSUME NearInv, CallInv', ConcludeSmart \/ Conclude
    PROVE  NearInv'
<1>1. pc = "deliver" /\ debt = <<>> /\ Accepted
  BY DEF ConcludeSmart, Conclude, Answered, NearInv, DebtIsPeers, Accepted
<1>2. /\ pc' = "fetch" /\ point' = limitH /\ bare' = {} /\ strikes' = 0
      /\ UNCHANGED <<ledgerVars, tip, finalized, peerTip, startH, fH, peerH, actualH, hBatch>>
  <2>1. CASE ConcludeSmart
    BY <1>1, <2>1 DEF ConcludeSmart, ledgerVars, NearInv, began
  <2>2. CASE Conclude
    <3>1. reply # "mismatch" /\ strikes = 0
      BY <1>1 DEF Accepted, NearInv
    <3>2. strikes' = 0
      BY <1>1, <2>2, <3>1 DEF Conclude
    <3> QED
      BY <2>2, <3>2 DEF Conclude, ledgerVars, began
  <2> QED
    BY <2>1, <2>2
<1>3. Shared(tip, peerTip, limitH, Highest)
  <2>1. Reached = limitH
    <3>1. limitH \in Nat /\ Len(debt) = 0
      BY <1>1 DEF NearInv, CallInv, TypeOK
    <3> QED
      BY <1>1, <3>1 DEF Reached
  <2> QED
    BY <1>1, <2>1 DEF NearInv, PointIsShared
<1>4. Reached' = limitH /\ Highest' = Highest
  BY <1>2 DEF Reached, Highest, HeightOf
<1>5. CallIsNear' /\ HeadersArePeers'
  BY <1>1, <1>2 DEF NearInv, CallIsNear, HeadersArePeers, OnPath, HeightOf, At
<1>6. PointIsShared' /\ DebtIsPeers'
  BY <1>2, <1>3, <1>4 DEF PointIsShared, DebtIsPeers, Shared, HeightOf, At
<1> QED
  BY <1>2, <1>5, <1>6, StepNear

\* What would cost the peer a strike, or the call a step back, does not happen.
LEMMA NothingToBlame ==
    ASSUME NearPeers, NearInv
    PROVE  /\ ~DownloadEmpty /\ ~StepBack /\ ~GatherFails
           /\ Refuse => strikes' = 0
           /\ ~LocalBlock
<1>1. ~DownloadEmpty
  <2>1. pc = "headers" => peerH <= HeightOf(peerTip)
    BY DEF NearInv, CallIsNear
  <2>2. peerH \in Nat /\ startH \in Nat /\ HeightOf(peerTip) \in Nat
    BY Heights, CatchUpAssumption DEF NearInv, CallInv, TypeOK
  <2> QED
    BY <2>1, <2>2 DEF DownloadEmpty
<1>2. ~StepBack /\ (Refuse => strikes' = 0)
  <2>1. pc = "judge" => Judge(hBatch) \in {"admit", "pass"}
    BY NearJudge
  <2> QED
    BY <2>1 DEF StepBack, Refuse, NearInv
<1>3. ~GatherFails
  <2> SUFFICES ASSUME GatherFails PROVE FALSE
    OBVIOUS
  <2>1. PICK h \in (point + 1) .. Lower(Highest, point + BodySpan) : ~OnPath(Header(h), peerTip)
    BY DEF GatherFails
  <2>2. /\ point \in Nat /\ startH \in Nat /\ startH <= point + 1
        /\ Highest \in Nat /\ Highest <= HeightOf(peerTip) /\ HeightOf(peerTip) \in Nat /\ peerTip \in Block
        /\ \A g \in startH .. Highest : Header(g) = At(peerTip, g)
    BY HeadersOnPath DEF GatherFails, NearInv, CallInv, TypeOK, PointInHeaders
  <2>3. h \in startH .. Highest /\ h \in 0 .. HeightOf(peerTip)
    BY <2>1, <2>2, CatchUpAssumption DEF Lower
  <2> QED
    BY <2>1, <2>2, <2>3, Ancestors
<1>4. ~LocalBlock
  BY DEF NearPeers, LocalBlock
<1> QED
  BY <1>1, <1>2, <1>3, <1>4

LEMMA NextNear ==
    ASSUME NearPeers, NearInv, [Next]_vars
    PROVE  NearInv'
<1>0. CallInv'
  BY NextCall DEF NearInv
<1>p. peerTip \in Block
  BY CatchUpAssumption DEF NearInv, CallInv, TypeOK
<1>1. CASE Start
  BY <1>0, <1>1, StartNear
<1>2. CASE PeerTooLow \/ DownloadFails \/ Refuse \/ Done
  <2>1. /\ UNCHANGED <<ledgerVars, peerTip>> /\ \E result : Return(result)
        /\ strikes' = 0
    BY <1>2, NothingToBlame DEF PeerTooLow, DownloadFails, Refuse, Done, NearInv
  <2> QED
    BY <1>0, <2>1, ReturnNear
<1>3. CASE DownloadHeaders
  BY <1>0, <1>3, DownloadNear
<1>4. CASE Admit
  BY <1>0, <1>4, AdmitNear
<1>5. CASE FetchSmart
  BY <1>0, <1>5, FetchSmartNear
<1>6. CASE FetchByHeight
  BY <1>0, <1>6, FetchByHeightNear
<1>7. CASE Gather
  BY <1>0, <1>7, GatherNear
<1>8. CASE Deliver
  BY <1>0, <1>8, DeliverNear
<1>9. CASE ConcludeSmart \/ Conclude
  BY <1>0, <1>9, ConcludeNear
<1>10. CASE KeepBlock \/ TakeBlock \/ PeerMoves \/ UNCHANGED vars
  <2>1. UNCHANGED <<ledgerVars, pc, catchUpVars, strikes>>
    BY <1>10 DEF KeepBlock, TakeBlock, PeerMoves, vars
  <2>2. OnPath(peerTip, peerTip')
    <3>1. OnPath(peerTip, peerTip)
      BY <1>p, OnPathOrder
    <3>2. PeerMoves => OnPath(peerTip, peerTip')
      BY DEF PeerMoves, NearPeers
    <3>3. ~PeerMoves => peerTip' = peerTip
      BY <1>10 DEF KeepBlock, TakeBlock, vars
    <3> QED
      BY <3>1, <3>2, <3>3
  <2> QED
    BY <1>0, <2>1, <2>2, QuietNear
<1> QED
  BY <1>1, <1>2, <1>3, <1>4, <1>5, <1>6, <1>7, <1>8, <1>9, <1>10, NothingToBlame DEF Next, CatchUpStep

LEMMA InitNear == Init => NearInv
<1> SUFFICES ASSUME Init PROVE NearInv
  OBVIOUS
<1>1. CallInv
  BY InitCall
<1>2. /\ tip \in StartTips /\ finalized = Sat(HeightOf(tip), FinalityDepth)
      /\ pc = "idle" /\ strikes = 0 /\ bare = {}
  BY DEF Init
<1> QED
  BY <1>1, <1>2 DEF NearInv, OwnOrPeers, Checkpointed, CallIsNear, HeadersArePeers,
       PointIsShared, DebtIsPeers

\* An honest peer that extends its chain while the node catches up, undisturbed
\* by gossip and mining, is never punished, nor is the call ever refused its
\* blocks: for every tree of blocks, finality depth and batch size with which one
\* call's blocks outweigh the part of the node's chain that is not final.
THEOREM HonestIsSafe ==
    ASSUME NearPeers
    PROVE  Spec => []HonestUnpunished
<1>1. Init => NearInv
  BY InitNear
<1>2. NearInv /\ [Next]_vars => NearInv'
  BY NextNear
<1>3. NearInv => HonestUnpunished
  BY DEF NearInv, HonestUnpunished
<1> QED
  BY <1>1, <1>2, <1>3, PTL DEF Spec
=============================================================================
