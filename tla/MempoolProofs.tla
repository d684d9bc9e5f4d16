--------------------------- MODULE MempoolProofs ---------------------------
(***************************************************************************)
(* Whatever the transactions, accounts and bounds, the queues of the pool  *)
(* agree with its other maps, totalBytes never wraps below zero, no wallet *)
(* is charged more than its queued transactions cost, and a sweep leaves   *)
(* nothing it found outdated.                                              *)
(***************************************************************************)
EXTENDS Mempool, Sums

\* No two transactions of S have one sender and one nonce.
Apart(S) == \A t, u \in S : t.from = u.from /\ t.nonce = u.nonce => t = u

Shape(p) ==
    /\ p.pending \subseteq Tx
    /\ p.sender \in [Tx -> Key]
    /\ p.queue \in [Key -> SUBSET Tx]
    /\ p.items \subseteq Tx

\* A pool has these maps and no others.
Typed(p) == p \in [pending : SUBSET Tx, sender : [Tx -> Key], queue : [Key -> SUBSET Tx],
                   items : SUBSET Tx, spend : [Key -> Nat], total : Nat]

Queued(p) == \A k \in Key :
    /\ \A t \in p.queue[k] : t \in p.pending /\ p.sender[t] = k /\ t \in p.items
    /\ \A t, u \in p.queue[k] : t.nonce = u.nonce => t = u

Covered(p) == p.total \in Nat /\ p.total >= Cardinality(p.pending)

Reserved(p) ==
    /\ p.spend \in [Key -> Nat]
    /\ \A k \in Key : p.spend[k] <= Cost(p.queue[k])

PoolInv(p) == Typed(p) /\ Shape(p) /\ Queued(p) /\ Covered(p) /\ Reserved(p)

---------------------------------------------------------------------------
\* Costs.

\* What transactions cost is a natural number, and the sum of its parts.
LEMMA CostOfParts ==
    ASSUME NEW S \in SUBSET Tx
    PROVE  /\ Cost(S) \in Nat
           /\ \A T \in SUBSET S : Cost(S) = Cost(T) + Cost(S \ T) /\ Cost(T) <= Cost(S)
           /\ \A T \in SUBSET Tx : S \cap T = {} => Cost(S \cup T) = Cost(S) + Cost(T)
<1> DEFINE c == [t \in Tx |-> t.cost]
<1>1. ASSUME NEW V \in SUBSET Tx
      PROVE  Cost(V) = SumOver(c, V) /\ IsFiniteSet(V) /\ (\A t \in V : c[t] \in Nat)
  <2>1. IsFiniteSet(V)
    BY TxAssumption, FS_Subset
  <2>2. \A t \in V : c[t] \in Nat
    BY TxAssumption
  <2> DEFINE e == [t \in V |-> t.cost]
  <2>3. Cost(V) = SumOver(e, V)
    BY DEF Cost, SumOver, MapThenSumSet, MapThenFoldSet
  <2>4. \A t \in V : c[t] \in Int /\ e[t] = c[t]
    BY <2>2
  <2> HIDE DEF c, e
  <2>5. SumOver(e, V) = SumOver(c, V)
    BY <2>1, <2>4, SumOfEquals
  <2> QED
    BY <2>1, <2>2, <2>3, <2>5
<1> HIDE DEF c
<1>2. Cost(S) \in Nat
  BY <1>1, SumOfNaturals
<1>3. ASSUME NEW T \in SUBSET S
      PROVE  Cost(S) = Cost(T) + Cost(S \ T) /\ Cost(T) <= Cost(S)
  <2>1. T \in SUBSET Tx /\ S \ T \in SUBSET Tx
    OBVIOUS
  <2>2. Cost(S) = SumOver(c, S) /\ Cost(T) = SumOver(c, T) /\ Cost(S \ T) = SumOver(c, S \ T)
    BY <1>1, <2>1
  <2> QED
    BY <1>1, <2>2, SumOfPart
<1>4. ASSUME NEW T \in SUBSET Tx, S \cap T = {}
      PROVE  Cost(S \cup T) = Cost(S) + Cost(T)
  <2>1. S \cup T \in SUBSET Tx
    OBVIOUS
  <2>2. /\ Cost(S) = SumOver(c, S) /\ Cost(T) = SumOver(c, T)
        /\ Cost(S \cup T) = SumOver(c, S \cup T)
    BY <1>1, <2>1
  <2>3. \A y \in S \cup T : c[y] \in Int
    BY <1>1, <2>1
  <2>4. SumOver(c, S \cup T) = SumOver(c, S) + SumOver(c, T)
    BY <1>1, <1>4, <2>3, SumOfTwo
  <2> QED
    BY <2>2, <2>4
<1> QED
  BY <1>2, <1>3, <1>4

\* Giving back at least what left a queue keeps the charge within the queue's cost.
LEMMA GivenBack ==
    ASSUME NEW Q \in SUBSET Tx, NEW left \in SUBSET Q, NEW back \in SUBSET Tx,
           left \subseteq back, NEW x \in Nat, x <= Cost(Q)
    PROVE  Lowered(x, Cost(back)) \in Nat /\ Lowered(x, Cost(back)) <= Cost(Q \ left)
<1>1. left \in SUBSET Tx /\ Q \ left \in SUBSET Tx /\ left \in SUBSET back
  OBVIOUS
<1>2. /\ Cost(Q) \in Nat /\ Cost(back) \in Nat /\ Cost(left) \in Nat /\ Cost(Q \ left) \in Nat
      /\ Cost(Q) = Cost(left) + Cost(Q \ left) /\ Cost(left) <= Cost(back)
  BY <1>1, CostOfParts
<1> QED
  BY <1>2 DEF Lowered

---------------------------------------------------------------------------
\* The operations of the pool preserve its invariant.

LEMMA SubsetOfTx ==
    ASSUME NEW S \in SUBSET Tx
    PROVE  IsFiniteSet(S) /\ Cardinality(S) \in Nat
BY TxAssumption, FS_Subset, FS_CardinalityType

LEMMA PlainIsKey == \A t \in Tx : Plain(t.from) \in Key
BY TxAssumption DEF Plain, Key, Spelling

LEMMA EmptyPoolFine == PoolInv(EmptyPool)
<1>1. Cardinality({}) = 0
  BY FS_EmptySet
<1>2. EmptyPool.sender \in [Tx -> Key]
  BY PlainIsKey DEF EmptyPool
<1>3. Cost({}) \in Nat
  BY CostOfParts
<1> QED
  BY <1>1, <1>2, <1>3 DEF PoolInv, Typed, Shape, Queued, Covered, Reserved, EmptyPool

LEMMA AddValidatedFine ==
    ASSUME NEW p, PoolInv(p), NEW sp \in Spelling, NEW S \in SUBSET Tx, Apart(S)
    PROVE  PoolInv(AddValidated(p, sp, S))
<1> DEFINE fresh == S \ p.pending
           key(t) == <<t.from, sp>>
           queued == {t \in fresh : t.nonce \notin Nonces(p.queue[key(t)])}
           into(k) == {t \in queued : key(t) = k}
           q == AddValidated(p, sp, S)
<1>1. \A t \in Tx : key(t) \in Key
  BY TxAssumption DEF Key
<1>2. /\ q.pending = p.pending \cup fresh
      /\ q.sender = [t \in Tx |-> IF t \in fresh THEN key(t) ELSE p.sender[t]]
      /\ q.queue = [k \in Key |-> p.queue[k] \cup into(k)]
      /\ q.items = p.items \cup queued
      /\ q.total = p.total + Cardinality(fresh)
  BY DEF AddValidated
<1>3. Shape(q)
  BY <1>1, <1>2 DEF PoolInv, Shape
<1>4. Covered(q)
  <2>1. Cardinality(p.pending \cup fresh) = Cardinality(p.pending) + Cardinality(fresh)
    <3>1. p.pending \cap fresh = {} /\ Cardinality({}) = 0
      BY FS_EmptySet
    <3>2. IsFiniteSet(p.pending) /\ IsFiniteSet(fresh)
      BY SubsetOfTx DEF PoolInv, Shape
    <3>3. Cardinality(p.pending) \in Nat /\ Cardinality(fresh) \in Nat
      BY <3>2, FS_CardinalityType
    <3> HIDE DEF fresh
    <3>4. Cardinality(p.pending \cup fresh) =
             Cardinality(p.pending) + Cardinality(fresh) - Cardinality(p.pending \cap fresh)
      BY <3>2, FS_Union
    <3>5. Cardinality(p.pending \cap fresh) = 0
      BY <3>1
    <3> QED
      BY <3>3, <3>4, <3>5
  <2>2. Cardinality(p.pending) \in Nat /\ Cardinality(fresh) \in Nat
    BY SubsetOfTx DEF PoolInv, Shape
  <2> HIDE DEF fresh
  <2> QED
    BY <1>2, <2>1, <2>2 DEF PoolInv, Covered
<1>5. Queued(q)
  <2> SUFFICES ASSUME NEW k \in Key
               PROVE  /\ \A t \in q.queue[k] : t \in q.pending /\ q.sender[t] = k /\ t \in q.items
                      /\ \A t, u \in q.queue[k] : t.nonce = u.nonce => t = u
    BY DEF Queued
  <2>1. q.queue[k] = p.queue[k] \cup into(k)
    BY <1>2
  <2>2. \A t \in p.queue[k] : t \in p.pending /\ p.sender[t] = k /\ t \in p.items /\ t \in Tx
    BY DEF PoolInv, Queued, Shape
  <2>3. \A t \in into(k) : t \in fresh /\ key(t) = k /\ t \in queued /\ t \in Tx
    OBVIOUS
  <2>4. \A t \in q.queue[k] : t \in q.pending /\ q.sender[t] = k /\ t \in q.items
    BY <1>2, <2>1, <2>2, <2>3
  <2>5. \A t \in p.queue[k], u \in into(k) : t.nonce # u.nonce
    BY DEF Nonces
  <2>6. \A t, u \in into(k) : t.nonce = u.nonce => t = u
    <3> SUFFICES ASSUME NEW t \in into(k), NEW u \in into(k), t.nonce = u.nonce
                 PROVE  t = u
      OBVIOUS
    <3>1. t.from = u.from
      BY <2>3
    <3> QED
      BY <3>1 DEF Apart
  <2> QED
    BY <2>1, <2>4, <2>5, <2>6 DEF PoolInv, Queued
<1>6. Reserved(q)
  <2>1. q.spend = [k \in Key |-> p.spend[k] + Cost(into(k))]
    BY DEF AddValidated
  <2>2. ASSUME NEW k \in Key
        PROVE  q.spend[k] \in Nat /\ q.spend[k] <= Cost(q.queue[k])
    <3>1. into(k) \in SUBSET Tx /\ p.queue[k] \in SUBSET Tx
      BY DEF PoolInv, Shape
    <3>2. p.queue[k] \cap into(k) = {}
      BY DEF PoolInv, Queued
    <3>3. q.queue[k] = p.queue[k] \cup into(k) /\ q.spend[k] = p.spend[k] + Cost(into(k))
      BY <1>2, <2>1
    <3>4. p.spend[k] \in Nat /\ p.spend[k] <= Cost(p.queue[k])
      BY DEF PoolInv, Reserved
    <3> HIDE DEF into, q
    <3>5. /\ Cost(into(k)) \in Nat /\ Cost(p.queue[k]) \in Nat
          /\ Cost(p.queue[k] \cup into(k)) = Cost(p.queue[k]) + Cost(into(k))
      BY <3>1, <3>2, CostOfParts
    <3> QED
      BY <3>3, <3>4, <3>5
  <2> HIDE DEF into
  <2>3. q.spend \in [Key -> Nat]
    BY <2>1, <2>2
  <2> QED
    BY <2>2, <2>3 DEF Reserved
<1>7. Typed(q)
  <2>1. q = [pending |-> q.pending, sender |-> q.sender, queue |-> q.queue,
             items |-> q.items, spend |-> q.spend, total |-> q.total]
    BY DEF AddValidated
  <2> HIDE DEF q
  <2> QED
    BY <1>3, <1>4, <1>6, <2>1 DEF Typed, Shape, Covered, Reserved
<1> QED
  BY <1>3, <1>4, <1>5, <1>6, <1>7 DEF PoolInv

LEMMA RemoveTransactionsFine ==
    ASSUME NEW p, PoolInv(p), NEW H
    PROVE  PoolInv(RemoveTransactions(p, H))
<1> DEFINE gone == H \cap p.pending
           affected == {p.sender[t] : t \in gone}
           q == RemoveTransactions(p, H)
<1>1. /\ q.pending = p.pending \ gone
      /\ q.sender = [t \in Tx |-> IF t \in gone THEN Plain(t.from) ELSE p.sender[t]]
      /\ q.queue = [k \in Key |-> IF k \in affected THEN p.queue[k] \ H ELSE p.queue[k]]
      /\ q.items = p.items \ gone
      /\ q.total = p.total - Cardinality(gone)
  BY DEF RemoveTransactions, Forgotten
<1>2. Shape(q)
  BY <1>1, PlainIsKey DEF PoolInv, Shape
<1>3. Covered(q)
  <2>1. IsFiniteSet(p.pending) /\ IsFiniteSet(gone) /\ gone \subseteq p.pending
    BY SubsetOfTx DEF PoolInv, Shape
  <2>2. p.pending \cap gone = gone
    OBVIOUS
  <2>3. Cardinality(p.pending \ gone) = Cardinality(p.pending) - Cardinality(gone)
    <3> HIDE DEF gone
    <3>1. Cardinality(p.pending \ gone) =
             Cardinality(p.pending) - Cardinality(p.pending \cap gone)
      BY <2>1, FS_Difference
    <3>2. Cardinality(p.pending \cap gone) = Cardinality(gone)
      BY <2>2
    <3> QED
      BY <3>1, <3>2
  <2>4. /\ Cardinality(p.pending) \in Nat
        /\ Cardinality(gone) \in Nat
        /\ Cardinality(p.pending \ gone) \in Nat
    BY SubsetOfTx DEF PoolInv, Shape
  <2>5. q.pending = p.pending \ gone /\ q.total = p.total - Cardinality(gone)
    BY <1>1
  <2> HIDE DEF gone, q
  <2> QED
    BY <2>3, <2>4, <2>5 DEF PoolInv, Covered
<1>4. Queued(q)
  <2> SUFFICES ASSUME NEW k \in Key
               PROVE  /\ \A t \in q.queue[k] : t \in q.pending /\ q.sender[t] = k /\ t \in q.items
                      /\ \A t, u \in q.queue[k] : t.nonce = u.nonce => t = u
    BY DEF Queued
  <2>1. q.queue[k] \subseteq p.queue[k]
    BY <1>1
  <2>2. \A t \in p.queue[k] : t \in p.pending /\ p.sender[t] = k /\ t \in p.items /\ t \in Tx
    BY DEF PoolInv, Queued, Shape
  <2>3. \A t \in q.queue[k] : t \notin gone
    <3> SUFFICES ASSUME NEW t \in q.queue[k], t \in gone
                 PROVE  FALSE
      OBVIOUS
    <3>1. p.sender[t] = k
      BY <2>1, <2>2
    <3>2. k \in affected
      BY <3>1
    <3> QED
      BY <1>1, <3>2
  <2>4. \A t \in q.queue[k] : t \in q.pending /\ q.sender[t] = k /\ t \in q.items
    BY <1>1, <2>1, <2>2, <2>3
  <2> QED
    BY <2>1, <2>4 DEF PoolInv, Queued
<1> DEFINE charged(k) == {t \in gone \cap p.items : p.sender[t] = k}
<1>5. Reserved(q)
  <2>1. q.spend = [k \in Key |-> Lowered(p.spend[k], Cost(charged(k)))]
    BY DEF RemoveTransactions
  <2>2. ASSUME NEW k \in Key
        PROVE  q.spend[k] \in Nat /\ q.spend[k] <= Cost(q.queue[k])
    <3> DEFINE left == p.queue[k] \cap H
    <3>1. charged(k) \in SUBSET Tx /\ p.queue[k] \in SUBSET Tx /\ left \in SUBSET p.queue[k]
      BY DEF PoolInv, Shape
    <3>2. left \subseteq charged(k)
      BY DEF PoolInv, Queued
    <3>3. q.queue[k] = p.queue[k] \ left
      <4>1. \A t \in left : p.sender[t] = k /\ t \in gone
        BY DEF PoolInv, Queued
      <4>2. CASE k \in affected
        BY <1>1, <4>2
      <4>3. CASE k \notin affected
        <5>1. left = {}
          BY <4>1, <4>3
        <5> QED
          BY <1>1, <4>3, <5>1
      <4> QED
        BY <4>2, <4>3
    <3>4. q.spend[k] = Lowered(p.spend[k], Cost(charged(k)))
      BY <2>1
    <3>5. p.spend[k] \in Nat /\ p.spend[k] <= Cost(p.queue[k])
      BY DEF PoolInv, Reserved
    <3> HIDE DEF charged, q, left
    <3> QED
      BY ZenonT(30), <3>1, <3>2, <3>3, <3>4, <3>5, GivenBack
  <2> HIDE DEF charged
  <2>3. q.spend \in [Key -> Nat]
    BY <2>1, <2>2
  <2> QED
    BY <2>2, <2>3 DEF Reserved
<1>6. Typed(q)
  <2>1. q = [pending |-> q.pending, sender |-> q.sender, queue |-> q.queue,
             items |-> q.items, spend |-> q.spend, total |-> q.total]
    BY DEF RemoveTransactions
  <2> HIDE DEF q
  <2> QED
    BY <1>2, <1>3, <1>5, <2>1 DEF Typed, Shape, Covered, Reserved
<1> QED
  BY <1>2, <1>3, <1>4, <1>5, <1>6 DEF PoolInv

LEMMA RemoveStaleFine ==
    ASSUME NEW p, PoolInv(p), NEW floor
    PROVE  PoolInv(RemoveStale(p, floor))
<1> DEFINE stale(k) == {t \in p.queue[k] : k \in DOMAIN floor /\ t.nonce < floor[k]}
           gone == UNION {stale(k) : k \in Key}
           q == RemoveStale(p, floor)
<1>1. /\ q.pending = p.pending \ gone
      /\ q.sender = [t \in Tx |-> IF t \in gone THEN Plain(t.from) ELSE p.sender[t]]
      /\ q.queue = [k \in Key |-> p.queue[k] \ stale(k)]
      /\ q.items = p.items \ gone
      /\ q.total = p.total
  BY DEF RemoveStale, Forgotten
<1>2. Shape(q)
  <2> HIDE DEF gone
  <2> QED
    BY <1>1, PlainIsKey DEF PoolInv, Shape
<1>3. Covered(q)
  <2> HIDE DEF gone
  <2>1. IsFiniteSet(p.pending) /\ Cardinality(p.pending) \in Nat
    BY SubsetOfTx DEF PoolInv, Shape
  <2>2. Cardinality(p.pending \ gone) \in Nat
    BY SubsetOfTx DEF PoolInv, Shape
  <2>3. Cardinality(p.pending \ gone) <= Cardinality(p.pending)
    BY <2>1, FS_Subset
  <2> QED
    BY <1>1, <2>1, <2>2, <2>3 DEF PoolInv, Covered
<1>4. Queued(q)
  <2> SUFFICES ASSUME NEW k \in Key
               PROVE  /\ \A t \in q.queue[k] : t \in q.pending /\ q.sender[t] = k /\ t \in q.items
                      /\ \A t, u \in q.queue[k] : t.nonce = u.nonce => t = u
    BY DEF Queued
  <2>1. q.queue[k] = p.queue[k] \ stale(k)
    BY <1>1
  <2>2. \A l \in Key : \A t \in p.queue[l] :
           t \in p.pending /\ p.sender[t] = l /\ t \in p.items /\ t \in Tx
    BY DEF PoolInv, Queued, Shape
  <2>3. \A t \in q.queue[k] : t \notin gone
    <3> SUFFICES ASSUME NEW t \in q.queue[k], NEW l \in Key, t \in stale(l)
                 PROVE  FALSE
      OBVIOUS
    <3>1. p.sender[t] = k /\ p.sender[t] = l
      BY <2>1, <2>2
    <3> QED
      BY <2>1, <3>1
  <2>4. \A t \in q.queue[k] : t \in q.pending /\ q.sender[t] = k /\ t \in q.items
    <3> HIDE DEF gone
    <3> QED
      BY <1>1, <2>1, <2>2, <2>3
  <2> QED
    BY <2>1, <2>4 DEF PoolInv, Queued
<1>5. Reserved(q)
  <2>1. q.spend = [k \in Key |-> Lowered(p.spend[k], Cost(stale(k)))]
    BY DEF RemoveStale
  <2>2. ASSUME NEW k \in Key
        PROVE  q.spend[k] \in Nat /\ q.spend[k] <= Cost(q.queue[k])
    <3>1. stale(k) \in SUBSET Tx /\ p.queue[k] \in SUBSET Tx /\ stale(k) \in SUBSET p.queue[k]
      BY DEF PoolInv, Shape
    <3>2. q.queue[k] = p.queue[k] \ stale(k)
          /\ q.spend[k] = Lowered(p.spend[k], Cost(stale(k)))
      BY <1>1, <2>1
    <3>3. p.spend[k] \in Nat /\ p.spend[k] <= Cost(p.queue[k])
      BY DEF PoolInv, Reserved
    <3> HIDE DEF stale, q
    <3> QED
      BY ZenonT(30), <3>1, <3>2, <3>3, GivenBack
  <2> HIDE DEF stale
  <2>3. q.spend \in [Key -> Nat]
    BY <2>1, <2>2
  <2> QED
    BY <2>2, <2>3 DEF Reserved
<1>6. Typed(q)
  <2>1. q = [pending |-> q.pending, sender |-> q.sender, queue |-> q.queue,
             items |-> q.items, spend |-> q.spend, total |-> q.total]
    BY DEF RemoveStale
  <2> HIDE DEF q
  <2> QED
    BY <1>2, <1>3, <1>5, <2>1 DEF Typed, Shape, Covered, Reserved
<1> QED
  BY <1>2, <1>3, <1>4, <1>5, <1>6 DEF PoolInv

LEMMA PurgedFine ==
    ASSUME NEW p, PoolInv(p)
    PROVE  PoolInv(Purged(p))
<1> DEFINE e == EmptyPool
           q == [e EXCEPT !.items = p.items]
<1>1. Typed(e) /\ PoolInv(e)
  BY EmptyPoolFine DEF PoolInv
<1>2. e.queue = [k \in Key |-> {}]
  BY DEF EmptyPool
<1> HIDE DEF e
<1>3. Typed(q) /\ q.items = p.items /\ q.queue = e.queue /\ q.pending = e.pending
      /\ q.sender = e.sender /\ q.spend = e.spend /\ q.total = e.total
  BY <1>1 DEF PoolInv, Typed, Shape
<1>4. PoolInv(q)
  BY <1>1, <1>2, <1>3 DEF PoolInv, Shape, Queued, Covered, Reserved
<1> QED
  BY <1>4 DEF Purged, e

LEMMA WithinCapacityFine ==
    ASSUME NEW p, PoolInv(p), NEW q \in WithinCapacity(p)
    PROVE  PoolInv(q)
BY RemoveTransactionsFine DEF WithinCapacity

---------------------------------------------------------------------------
\* What the core approves of a batch is apart: the nonces of each account are
\* as many as its transactions.

LEMMA ExecutableApart ==
    ASSUME NEW S \in SUBSET Tx, Executable(S), \A a \in Account : LedgerNonce(a) \in Nat
    PROVE  Apart(S)
<1> SUFFICES ASSUME NEW t \in S, NEW u \in S, t.from = u.from, t.nonce = u.nonce
             PROVE  t = u
  BY DEF Apart
<1> DEFINE a == t.from
           F == From(S, a)
           c == Cardinality(F)
           n == LedgerNonce(a)
           f == [x \in F |-> x.nonce]
<1>1. a \in Account /\ n \in Nat
  BY TxAssumption
<1>2. F \in SUBSET Tx /\ t \in F /\ u \in F
  BY DEF From
<1>3. IsFiniteSet(F) /\ c \in Nat
  BY <1>2, SubsetOfTx
<1>4. Nonces(F) = n .. n + c - 1
  BY <1>1 DEF Executable
<1>5. Cardinality(n .. n + c - 1) = c
  <2> HIDE DEF n, c
  <2>1. n \in Int /\ n + c - 1 \in Int
    BY <1>1, <1>3
  <2>2. Cardinality(n .. n + c - 1) = IF n > n + c - 1 THEN 0 ELSE (n + c - 1) - n + 1
    BY <2>1, FS_Interval
  <2> QED
    BY <1>1, <1>3, <2>2
<1>6. f \in Surjection(F, Nonces(F))
  <2> HIDE DEF F
  <2>1. f \in [F -> Nonces(F)]
    BY DEF Nonces
  <2>2. \A m \in Nonces(F) : \E x \in F : f[x] = m
    BY DEF Nonces
  <2> QED
    BY <2>1, <2>2 DEF Surjection
<1>7. f \in Injection(F, Nonces(F))
  <2>1. Cardinality(F) = Cardinality(Nonces(F))
    BY <1>4, <1>5
  <2> HIDE DEF F, f
  <2> QED
    BY <1>3, <1>6, <2>1, FS_SurjSameCardinalityImpliesInj
<1>8. f[t] = f[u]
  BY <1>2
<1> QED
  <2>1. DOMAIN f = F
    OBVIOUS
  <2> HIDE DEF F, f
  <2> QED
    BY <1>2, <1>7, <1>8, <2>1 DEF Injection, IsInjective

---------------------------------------------------------------------------
\* The inductive invariant: besides the pool, what the two inserters carry.

IInv ==
    /\ PoolInv(pool)
    /\ ride \subseteq Tx /\ Apart(ride)
    /\ ebp \in [Account -> SUBSET Tx]
    /\ chain \in [Account -> SUBSET Tx]
    /\ shield \subseteq Tx /\ watch \subseteq Tx /\ old \subseteq Tx

LEMMA LedgerNonceNat ==
    ASSUME IInv
    PROVE  \A a \in Account : LedgerNonce(a) \in Nat
BY SubsetOfTx DEF IInv, LedgerNonce

LEMMA InitFine == Init => IInv
BY EmptyPoolFine DEF Init, IInv, Apart

LEMMA StepFine == IInv /\ [Next]_vars => IInv'
<1> SUFFICES ASSUME IInv, [Next]_vars
             PROVE  IInv'
  OBVIOUS
<1> USE DEF IInv
<1>1. CASE BusJudge
  <2>1. PICK new \in SUBSET (Tx \ pool.pending) :
           \E S \in SUBSET ((new \cup UNION {pool.queue[<<t.from, "0x">>] : t \in new}) \ old) :
              Executable(S) /\ ride' = S
    BY <1>1 DEF BusJudge
  <2>2. \A t \in new : pool.queue[<<t.from, "0x">>] \subseteq Tx
    <3>1. \A t \in new : <<t.from, "0x">> \in Key
      BY TxAssumption DEF Key, Spelling
    <3> QED
      BY <3>1 DEF PoolInv, Queued, Shape
  <2>3. PICK S \in SUBSET ((new \cup UNION {pool.queue[<<t.from, "0x">>] : t \in new}) \ old) :
           Executable(S) /\ ride' = S
    BY <2>1
  <2>4. S \in SUBSET Tx
    BY ZenonT(30), <2>2
  <2>5. Apart(S)
    BY <2>3, <2>4, LedgerNonceNat, ExecutableApart
  <2>6. UNCHANGED <<pool, ebp, chain, shield, watch, old>>
    BY <1>1 DEF BusJudge
  <2> QED
    BY <2>3, <2>4, <2>5, <2>6
<1>2. CASE BusInsert
  <2>1. "0x" \in Spelling
    BY DEF Spelling
  <2>2. PoolInv(AddValidated(pool, "0x", ride))
    BY <2>1, AddValidatedFine
  <2>3. PoolInv(pool')
    BY <1>2, <2>2, WithinCapacityFine DEF BusInsert
  <2> QED
    BY <1>2, <2>3 DEF BusInsert, Apart
<1>3. ASSUME NEW a \in Account, EbpJudge(a)
      PROVE  IInv'
  <2>1. ebp' \in [Account -> SUBSET Tx]
    BY <1>3 DEF EbpJudge, From
  <2> QED
    BY <1>3, <2>1 DEF EbpJudge
<1>4. ASSUME NEW a \in Account, EbpInsert(a)
      PROVE  IInv'
  <2>1. PICK t \in ebp[a] :
           /\ pool' \in IF Accepted(pool, "plain", t)
                        THEN WithinCapacity(AddValidated(pool, "plain", {t}))
                        ELSE {AddValidated(pool, "plain", {t})}
           /\ ebp' = [ebp EXCEPT ![a] = @ \ {t}]
    BY <1>4 DEF EbpInsert
  <2>2. PoolInv(AddValidated(pool, "plain", {t}))
    <3>1. "plain" \in Spelling /\ {t} \in SUBSET Tx /\ Apart({t})
      BY DEF Spelling, Apart
    <3> QED
      BY <3>1, AddValidatedFine
  <2>3. PoolInv(pool')
    BY <2>1, <2>2, WithinCapacityFine
  <2> QED
    BY <1>4, <2>1, <2>3 DEF EbpInsert
<1>5. CASE Block
  <2>1. chain' \in [Account -> SUBSET Tx]
    BY <1>5 DEF Block, Executed, From
  <2> QED
    BY <1>5, <2>1 DEF Block
<1>6. CASE CleanByHash
  <2>1. PoolInv(pool')
    BY <1>6, RemoveTransactionsFine DEF CleanByHash
  <2> QED
    BY <1>6, <2>1 DEF CleanByHash
<1>7. CASE CleanRead
  BY <1>7 DEF CleanRead
<1>8. CASE CleanStale
  <2>1. PoolInv(pool')
    BY <1>8, RemoveStaleFine DEF CleanStale
  <2> QED
    BY <1>8, <2>1 DEF CleanStale
<1>9. CASE Template
  <2>1. PICK head \in [Key -> Nonces(Tx)] :
           \E S \in SUBSET UNION {Run(pool.queue[k], head[k]) : k \in Key} :
              \E fit \in SUBSET (S \ old) : shield' = S \ fit
    BY <1>9 DEF Template
  <2>2. \A k \in Key : Run(pool.queue[k], head[k]) \subseteq Tx
    BY DEF Run, PoolInv, Shape
  <2>3. shield' \subseteq Tx
    BY <2>1, <2>2
  <2> QED
    BY <1>9, <2>3 DEF Template
<1>10. CASE TemplateShield
  <2>1. PoolInv(pool')
    BY <1>10, RemoveTransactionsFine DEF TemplateShield
  <2> QED
    BY <1>10, <2>1 DEF TemplateShield
<1>11. CASE SweepRead
  BY <1>11 DEF SweepRead
<1>12. CASE SweepApply
  <2>1. PoolInv(pool')
    BY <1>12, RemoveTransactionsFine DEF SweepApply
  <2> QED
    BY <1>12, <2>1 DEF SweepApply
<1>13. CASE WatchRead
  BY <1>13 DEF WatchRead
<1>14. CASE WatchApply
  <2>1. PoolInv(pool')
    BY <1>14, RemoveTransactionsFine DEF WatchApply
  <2> QED
    BY <1>14, <2>1 DEF WatchApply
<1>15. CASE Purge
  <2>1. PoolInv(pool')
    BY <1>15, PurgedFine DEF Purge
  <2> QED
    BY <1>15, <2>1 DEF Purge
<1>16. CASE Reorganise
  <2>1. chain' \in [Account -> SUBSET Tx]
    BY <1>16 DEF Reorganise
  <2> QED
    BY <1>16, <2>1 DEF Reorganise
<1>17. CASE Age
  BY <1>17 DEF Age
<1>18. CASE Restart
  <2>1. /\ PoolInv(pool') /\ ride' = {} /\ ebp' = [a \in Account |-> {}] /\ chain' = chain
        /\ shield' = {} /\ watch' = {} /\ old' = old
    BY <1>18, EmptyPoolFine DEF Restart
  <2> QED
    BY <2>1 DEF Apart
<1>19. CASE UNCHANGED vars
  BY <1>19 DEF vars
<1> QED
  BY <1>1, <1>2, <1>3, <1>4, <1>5, <1>6, <1>7, <1>8, <1>9, <1>10, <1>11, <1>12, <1>13,
     <1>14, <1>15, <1>16, <1>17, <1>18, <1>19 DEF Next

LEMMA PoolInvariant == Spec => []IInv
<1>1. Init => IInv
  BY InitFine
<1>2. IInv /\ [Next]_vars => IInv'
  BY StepFine
<1> QED
  BY <1>1, <1>2, PTL DEF Spec

---------------------------------------------------------------------------
\* However the bus, the exchange batches, the clean-ups, the template builder,
\* the sweeps, purges and restarts interleave, every queued transaction is in
\* the other maps of the pool under the same sender, and a queue never has two
\* of one nonce.
THEOREM QueuesAgree == Spec => []QueueIsPending
<1>1. IInv => QueueIsPending
  BY DEF IInv, PoolInv, Queued, QueueIsPending
<1> QED
  BY <1>1, PoolInvariant, PTL

\* totalBytes, unsigned in the code, is never lowered below zero: at any time
\* it is at least what the pool holds.
THEOREM BytesNeverWrap == Spec => []BytesCovered
<1>1. IInv => BytesCovered
  BY DEF IInv, PoolInv, Covered, BytesCovered
<1> QED
  BY <1>1, PoolInvariant, PTL

\* The pool's maps keep their types: what a wallet is charged and totalBytes are
\* never negative, and every goroutine's notes are transactions.
THEOREM PoolTyped == Spec => []TypeOK
<1>1. IInv => TypeOK
  BY DEF IInv, PoolInv, Typed, TypeOK
<1> QED
  BY <1>1, PoolInvariant, PTL

\* What a wallet's pendingSpend holds against it is at most what its queued
\* transactions cost, however removals, purges and late insertions interleave.
THEOREM ReserveIsCovered == Spec => []ReserveCovered
<1>1. IInv => ReserveCovered
  BY DEF IInv, PoolInv, Reserved, ReserveCovered
<1> QED
  BY <1>1, PoolInvariant, PTL

\* Removing a set that has all of a queue's outdated transactions leaves none.
LEMMA SweepRemoves ==
    ASSUME IInv, SweepApply, NEW k \in Key
    PROVE  pool'.queue[k] \cap sweep.outdated = {}
<1> DEFINE bad(l) == Swept(pool.queue[l], sweep.heads[l], sweep.outdated)
           H == UNION {bad(l) : l \in Key}
<1>1. pool' = RemoveTransactions(pool, H)
  BY DEF SweepApply
<1>2. \A t \in pool.queue[k] : t \in Tx /\ t.nonce \in Nat /\ t \in pool.pending /\ pool.sender[t] = k
  BY TxAssumption DEF IInv, PoolInv, Queued, Shape
<1>3. \A t \in pool.queue[k] \cap sweep.outdated : t \in bad(k)
  BY <1>2 DEF Swept
<1> HIDE DEF bad
<1>4. \A t \in pool.queue[k] \cap sweep.outdated : t \in H
  BY <1>3
<1> HIDE DEF H
<1>5. pool'.queue[k] = IF k \in {pool.sender[t] : t \in H \cap pool.pending}
                       THEN pool.queue[k] \ H ELSE pool.queue[k]
  BY <1>1 DEF RemoveTransactions
<1> SUFFICES ASSUME NEW t \in pool'.queue[k], t \in sweep.outdated PROVE FALSE
  OBVIOUS
<1>6. t \in pool.queue[k]
  BY <1>5
<1>7. t \in H \cap pool.pending /\ pool.sender[t] = k
  BY <1>2, <1>4, <1>6
<1> QED
  BY <1>5, <1>7

\* A sweep decides on what it read under an earlier lock; when it is over no queue
\* has a transaction that was outdated when it began, whatever came in between.
THEOREM SweepsClear == Spec => SweepClears
<1>1. ASSUME IInv, [Next]_vars
      PROVE  [sweep.at = "read" /\ sweep'.at = "idle"
                => \A k \in Key : pool'.queue[k] \cap sweep.outdated = {}]_vars
  <2> SUFFICES ASSUME Next, sweep.at = "read", sweep'.at = "idle", NEW k \in Key
               PROVE  pool'.queue[k] \cap sweep.outdated = {}
    BY <1>1
  <2>1. CASE SweepApply
    BY <1>1, <2>1, SweepRemoves
  <2>2. CASE Restart
    BY <2>2 DEF Restart, EmptyPool
  <2>3. CASE sweep' = sweep
    BY <2>3
  <2> QED
    BY <2>1, <2>2, <2>3 DEF Next, BusJudge, BusInsert, EbpJudge, EbpInsert, Block, CleanByHash,
       CleanRead, CleanStale, Template, TemplateShield, SweepRead, WatchRead, WatchApply, Purge,
       Reorganise, Age
<1> QED
  BY <1>1, PoolInvariant, PTL DEF Spec, SweepClears
=============================================================================
