-------------------------- MODULE ExecutionProofs --------------------------
(***************************************************************************)
(* Proofs about Execution, for all accounts, transactions, bodies, pools,  *)
(* rewards and bounds.  In order:                                          *)
(*   - no transfer is executed twice: the nonce of an account never goes   *)
(*     down along the chain, and a transfer lies strictly between the      *)
(*     nonce its sender had in the tree below its block and the one it has *)
(*     in the tree of the block;                                           *)
(*   - every balance is a natural number;                                  *)
(*   - no coin is made or lost: an execution moves coins between accounts  *)
(*     and fees, and the audit at its end settles the difference;          *)
(*   - an undisturbed template commits: the dry run's cache is, step by    *)
(*     step, the one a real execution of the kept transactions has;        *)
(*   - the ledger is what the chain says: every entry of a block does to   *)
(*     the cache what it does to the books read off the chain, and the end *)
(*     of a block rewards its miner and pays out the one reward that       *)
(*     ripens, as those books do.                                          *)
(***************************************************************************)
EXTENDS Execution, Sums

Blocks == [miner : Account, txs : Seq(Transaction)]

StateFields == {"btc_z", "nonce", "maturing"}
StateShape(st) == DOMAIN st = StateFields /\ st.nonce \in Nat
TreeShape(tree) == DOMAIN tree = Account /\ \A a \in Account : StateShape(tree[a])

---------------------------------------------------------------------------
\* The inductive invariant.

RunShape(r) ==
    /\ DOMAIN r = DOMAIN Off
    /\ r.pc \in {"off", "read", "tx"}
    /\ r.txs \in Seq(Transaction)
    /\ r.kept \in Seq(Transaction)
    /\ r.parent \in Seq(Blocks)
    /\ r.next \in Nat \ {0}
    /\ r.pc # "off" => r.miner \in Account /\ Len(r.parent) < MaxHeight
    /\ r.pc = "tx" => TreeShape(r.cache)

ShapeInv ==
    /\ chain \in Seq(Blocks)
    /\ Len(chain) <= MaxHeight
    /\ DOMAIN trees = Heights
    /\ \A h \in Heights : TreeShape(trees[h])
    /\ DOMAIN run = Runner
    /\ \A p \in Runner : RunShape(run[p])
    /\ template.txs \in Seq(Transaction)
    /\ template.parent \in Seq(Blocks)
    /\ template # NoTemplate => template.miner \in Account /\ Len(template.parent) < MaxHeight

\* Nonces never go down from one account table to the other.
Grows(low, high) == \A a \in Account : low[a].nonce <= high[a].nonce

\* The transfers of a list fall between the nonces of two account tables.
Between(txs, low, high) ==
    \A i \in 1 .. Len(txs) : IsTransfer(txs[i]) =>
        /\ txs[i].sender \in Account
        /\ low[txs[i].sender].nonce <= txs[i].nonce
        /\ txs[i].nonce < high[txs[i].sender].nonce

\* Of two transfers of one sender in a list, the later has the larger nonce.
Ordered(txs) ==
    \A i, j \in 1 .. Len(txs) :
        /\ i < j
        /\ IsTransfer(txs[i])
        /\ IsTransfer(txs[j])
        /\ txs[i].sender = txs[j].sender
        => txs[i].nonce < txs[j].nonce

ChainInv ==
    /\ \A h, k \in 0 .. Len(chain) : h <= k => Grows(trees[h], trees[k])
    /\ \A b \in 1 .. Len(chain) :
          Ordered(chain[b].txs) /\ Between(chain[b].txs, trees[b - 1], trees[b])

\* The execution of a received block works on the tip.
ExecInv ==
    LET r == run["exec"]
    IN  /\ r.pc # "off" => r.parent = chain
        /\ r.pc = "read" => r.kept = <<>>
        /\ r.pc = "tx" => /\ Grows(trees[Len(chain)], r.cache)
                          /\ Ordered(r.kept)
                          /\ Between(r.kept, trees[Len(chain)], r.cache)

IInv == ShapeInv /\ ChainInv /\ ExecInv

---------------------------------------------------------------------------
\* Facts about single operators.

\* A payout leaves the nonce alone.
LEMMA PayOutNonce ==
    ASSUME NEW st, StateShape(st), NEW h
    PROVE  StateShape(PayOut(st, h)) /\ PayOut(st, h).nonce = st.nonce
BY DEF PayOut, StateShape, StateFields

\* What an execution reads has the nonces of the tree of the tip.
LEMMA PrefetchNonce ==
    ASSUME NEW c, TreeShape(trees[Len(chain)]),
           c = [a \in Account |-> GetAccountState(a)]
    PROVE  /\ TreeShape(c)
           /\ \A a \in Account : c[a].nonce = trees[Len(chain)][a].nonce
BY PayOutNonce DEF GetAccountState, TreeShape

\* A transfer counts up the nonce of its sender and no other.
LEMMA TransferNonce ==
    ASSUME NEW c, TreeShape(c), NEW t \in Transaction, IsTransfer(t) => t.sender \in Account
    PROVE  /\ TreeShape(Transfer(c, t))
           /\ \A a \in Account : Transfer(c, t)[a].nonce =
                 IF IsTransfer(t) /\ a = t.sender THEN c[a].nonce + 1 ELSE c[a].nonce
<1>1. CASE ~IsTransfer(t)
  BY <1>1 DEF Transfer
<1>2. CASE IsTransfer(t)
  <2> DEFINE d == [c EXCEPT ![t.sender].btc_z = @ - Spend(c, t), ![t.sender].nonce = @ + 1]
  <2>1. Transfer(c, t) = [d EXCEPT ![t.receiver].btc_z = @ + t.amount]
    BY <1>2 DEF Transfer
  <2>2. /\ TreeShape(d)
        /\ \A a \in Account : d[a].nonce = IF a = t.sender THEN c[a].nonce + 1 ELSE c[a].nonce
    BY <1>2 DEF TreeShape, StateShape, StateFields
  <2>3. t.receiver \in Account
    BY DEF Transaction
  <2> HIDE DEF d
  <2>4. QED
    BY <1>2, <2>1, <2>2, <2>3 DEF TreeShape, StateShape, StateFields
<1>3. QED
  BY <1>1, <1>2

\* The tree of a block has the cache's nonces for what the block touched and the
\* parent tree's for the rest.
LEMMA FinalNonce ==
    ASSUME NEW r, TreeShape(r.cache), TreeShape(trees[Len(r.parent)]), r.miner \in Account
    PROVE  /\ TreeShape(FinalTree(r))
           /\ \A a \in Account : FinalTree(r)[a].nonce =
                 IF a \in Touched(r) THEN r.cache[a].nonce ELSE trees[Len(r.parent)][a].nonce
<1> DEFINE w == Rewarded(r)
<1>1. TreeShape(w) /\ \A a \in Account : w[a].nonce = r.cache[a].nonce
  BY DEF Rewarded, TreeShape, StateShape, StateFields
<1>2. \A a \in Account : /\ StateShape(PayOut(w[a], Height(r)))
                         /\ PayOut(w[a], Height(r)).nonce = w[a].nonce
  BY <1>1, PayOutNonce DEF TreeShape
<1>3. FinalTree(r) = [a \in Account |-> IF a \in Touched(r) THEN PayOut(w[a], Height(r))
                                        ELSE trees[Len(r.parent)][a]]
  BY DEF FinalTree
<1> HIDE DEF w
<1>4. QED
  BY <1>1, <1>2, <1>3 DEF TreeShape

---------------------------------------------------------------------------
\* The initial state and the steps.

LEMMA InitInv == Init => IInv
<1> SUFFICES ASSUME Init PROVE IInv
  OBVIOUS
<1>1. TreeShape(Genesis)
  BY RewardAssumption DEF Genesis, Default, TreeShape, StateShape, StateFields
<1>2. RunShape(Off)
  BY DEF RunShape, Off
<1>3. ShapeInv
  BY <1>1, <1>2, ExecutionAssumption
  DEF Init, ShapeInv, NoTemplate, Heights, Runner, Blocks
<1>4. ChainInv
  <2>1. Len(chain) = 0 /\ 0 \in Heights /\ trees[0] = Genesis
    BY ExecutionAssumption DEF Init, Heights
  <2>2. Grows(trees[0], trees[0])
    BY <1>1, <2>1 DEF Grows, TreeShape, StateShape
  <2>3. QED
    BY <2>1, <2>2 DEF ChainInv
<1>5. ExecInv
  BY DEF Init, ExecInv, Off, Runner
<1>6. QED
  BY <1>3, <1>4, <1>5 DEF IInv

\* Starting a call fixes its arguments and nothing else.
LEMMA StartedShape ==
    ASSUME IInv, NEW m \in Account, NEW txs \in Seq(Transaction), NEW root, NEW calm,
           Len(chain) < MaxHeight
    PROVE  LET r == Started(m, txs, root, calm)
           IN  RunShape(r) /\ r.pc = "read" /\ r.parent = chain /\ r.kept = <<>>
BY DEF IInv, ShapeInv, Started, RunShape, Off

LEMMA StartExec ==
    ASSUME IInv, NEW m \in Account, NEW txs \in Seq(Transaction), NEW root, NEW calm,
           Len(chain) < MaxHeight,
           run' = [run EXCEPT !["exec"] = Started(m, txs, root, calm)],
           UNCHANGED <<chain, trees, template>>
    PROVE  IInv'
<1> DEFINE s == Started(m, txs, root, calm)
<1>1. RunShape(s) /\ s.pc = "read" /\ s.parent = chain /\ s.kept = <<>>
  BY StartedShape
<1> HIDE DEF s
<1>2. run'["exec"] = s /\ run'["sim"] = run["sim"] /\ DOMAIN run' = Runner
  BY DEF IInv, ShapeInv, Runner, s
<1>3. ShapeInv'
  BY <1>1, <1>2 DEF IInv, ShapeInv, Runner
<1>4. ChainInv'
  BY DEF IInv, ChainInv
<1>5. ExecInv'
  BY <1>1, <1>2 DEF ExecInv
<1>6. QED
  BY <1>3, <1>4, <1>5 DEF IInv

LEMMA ReceiveBlockStep ==
    ASSUME IInv, NEW m \in Account, NEW txs \in Body, ReceiveBlock(m, txs)
    PROVE  IInv'
<1>1. txs \in Seq(Transaction)
  BY ExecutionAssumption
<1>2. QED
  BY <1>1, StartExec DEF ReceiveBlock

LEMMA SubmitTemplateStep ==
    ASSUME IInv, SubmitTemplate
    PROVE  IInv'
<1>1. CASE template.parent = chain
  BY <1>1, StartExec DEF SubmitTemplate, IInv, ShapeInv
<1>2. CASE template.parent # chain
  BY <1>2 DEF SubmitTemplate, IInv, ShapeInv, ChainInv, ExecInv
<1>3. QED
  BY <1>1, <1>2

\* A step that changes the dry run only.
LEMMA SimStep ==
    ASSUME IInv, NEW r, RunShape(r), run' = [run EXCEPT !["sim"] = r],
           UNCHANGED <<chain, trees, template>>
    PROVE  IInv'
<1>1. run'["sim"] = r /\ run'["exec"] = run["exec"] /\ DOMAIN run' = Runner
  BY DEF IInv, ShapeInv, Runner
<1>2. ShapeInv'
  BY <1>1 DEF IInv, ShapeInv, Runner
<1>3. ChainInv' /\ ExecInv'
  BY <1>1 DEF IInv, ChainInv, ExecInv
<1>4. QED
  BY <1>2, <1>3 DEF IInv

LEMMA BuildTemplateStep ==
    ASSUME IInv, NEW m \in Wallet, NEW pool \in Pool, BuildTemplate(m, pool)
    PROVE  IInv'
<1>1. m \in Account /\ pool \in Seq(Transaction)
  BY ExecutionAssumption
<1>2. Coinbase(m) \in Transaction
  BY <1>1 DEF Coinbase, Transaction
<1>3. <<Coinbase(m)>> \o pool \in Seq(Transaction)
  BY <1>1, <1>2
<1>4. RunShape(Started(m, <<Coinbase(m)>> \o pool, NoRoot, TRUE))
  BY <1>1, <1>3, StartedShape DEF BuildTemplate
<1>5. QED
  BY <1>4, SimStep DEF BuildTemplate

LEMMA SkipTxStep ==
    ASSUME IInv, SkipTx
    PROVE  IInv'
<1>1. RunShape(Skipped(run["sim"]))
  BY DEF IInv, ShapeInv, Runner, RunShape, Skipped, Off
<1>2. run' = [run EXCEPT !["sim"] = Skipped(run["sim"])]
  BY DEF SkipTx
<1>3. QED
  BY <1>1, <1>2, SimStep DEF SkipTx

LEMMA PrefetchStep ==
    ASSUME IInv, NEW p \in Runner, Prefetch(p)
    PROVE  IInv'
<1> DEFINE c == [a \in Account |-> GetAccountState(a)]
<1> DEFINE r == [run[p] EXCEPT !.pc = "tx", !.cache = c]
<1>1. TreeShape(trees[Len(chain)])
  BY DEF IInv, ShapeInv, Heights
<1>2. TreeShape(c) /\ \A a \in Account : c[a].nonce = trees[Len(chain)][a].nonce
  BY <1>1, PrefetchNonce
<1>3. run' = [run EXCEPT ![p] = r]
  BY DEF Prefetch, IInv, ShapeInv
<1> HIDE DEF c
<1>4. /\ RunShape(r)
      /\ r.pc = "tx" /\ r.cache = c /\ r.parent = run[p].parent /\ r.kept = run[p].kept
  BY <1>2 DEF IInv, ShapeInv, Prefetch, RunShape, Off
<1> HIDE DEF r
<1>5. CASE p = "sim"
  BY <1>3, <1>4, <1>5, SimStep DEF Prefetch
<1>6. CASE p = "exec"
  <2>1. run'["exec"] = r /\ run'["sim"] = run["sim"] /\ DOMAIN run' = Runner
    BY <1>3, <1>6 DEF IInv, ShapeInv, Runner
  <2>2. ShapeInv'
    BY <1>4, <2>1 DEF IInv, ShapeInv, Runner, Prefetch
  <2>3. ChainInv'
    BY DEF IInv, ChainInv, Prefetch
  <2>4. r.parent = chain /\ r.kept = <<>>
    BY <1>4, <1>6 DEF IInv, ExecInv, Prefetch
  <2>5. Grows(trees[Len(chain)], c)
    BY <1>1, <1>2 DEF Grows, TreeShape, StateShape
  <2>6. ExecInv'
    <3>1. chain' = chain /\ trees' = trees
      BY DEF Prefetch
    <3>2. Ordered(r.kept) /\ Between(r.kept, trees[Len(chain)], c)
      BY <2>4 DEF Ordered, Between
    <3>3. QED
      BY <1>4, <2>1, <2>4, <2>5, <3>1, <3>2 DEF ExecInv
  <2>7. QED
    BY <2>2, <2>3, <2>6 DEF IInv
<1>7. QED
  BY <1>5, <1>6 DEF Runner

\* The order of a list extended by a transaction above every nonce in it.
LEMMA AppendOrdered ==
    ASSUME NEW txs \in Seq(Transaction), NEW t \in Transaction, NEW low, NEW c,
           TreeShape(c), Ordered(txs), Between(txs, low, c),
           IsTransfer(t) => t.sender \in Account /\ t.nonce = c[t.sender].nonce
    PROVE  Ordered(Append(txs, t))
<1> DEFINE k == Append(txs, t)
<1>1. /\ Len(k) = Len(txs) + 1
      /\ k[Len(txs) + 1] = t
      /\ \A i \in 1 .. Len(txs) : k[i] = txs[i]
  OBVIOUS
<1> HIDE DEF k
<1>2. SUFFICES ASSUME NEW i \in 1 .. Len(k), NEW j \in 1 .. Len(k), i < j,
                      IsTransfer(k[i]), IsTransfer(k[j]), k[i].sender = k[j].sender
               PROVE  k[i].nonce < k[j].nonce
  BY DEF Ordered, k
<1>3. i \in 1 .. Len(txs) /\ k[i] = txs[i]
  BY <1>1, <1>2
<1>4. CASE j \in 1 .. Len(txs)
  BY <1>1, <1>2, <1>3, <1>4 DEF Ordered
<1>5. CASE j = Len(txs) + 1
  BY <1>1, <1>2, <1>3, <1>5 DEF Between
<1>6. QED
  BY <1>1, <1>4, <1>5

LEMMA TakeTxStep ==
    ASSUME IInv, NEW p \in Runner, TakeTx(p)
    PROVE  IInv'
<1> DEFINE r == run[p]
           t == Current(r)
           c == r.cache
           d == Transfer(c, t)
           k == Append(r.kept, t)
           s == [r EXCEPT !.next = @ + 1, !.cache = Transfer(@, t),
                          !.fees = @ + FeesOf(r.cache, t),
                          !.deducted = @ + Spend(r.cache, t),
                          !.credited = @ + t.amount, !.kept = Append(@, t)]
<1>1. /\ RunShape(r) /\ r.pc = "tx" /\ r.next <= Len(r.txs)
      /\ run' = [run EXCEPT ![p] = s]
      /\ chain' = chain /\ trees' = trees /\ template' = template
  BY DEF TakeTx, IInv, ShapeInv
<1>2. WellFormed(p, r.next, r.miner, t) /\ Payable(c, t)
  BY DEF TakeTx, Executable
<1>3. t \in Transaction
  BY <1>1 DEF Current, RunShape
<1>4. IsTransfer(t) => t.sender \in Account /\ t.nonce = c[t.sender].nonce
  BY <1>2, <1>3 DEF WellFormed, Payable, Transaction
<1>5. TreeShape(c)
  BY <1>1 DEF RunShape
<1>6. /\ TreeShape(d)
      /\ \A a \in Account : d[a].nonce =
            IF IsTransfer(t) /\ a = t.sender THEN c[a].nonce + 1 ELSE c[a].nonce
  BY <1>3, <1>4, <1>5, TransferNonce
<1>7. k \in Seq(Transaction)
  BY <1>1, <1>3 DEF RunShape
<1>8. /\ DOMAIN s = DOMAIN r /\ s.pc = r.pc /\ s.txs = r.txs /\ s.parent = r.parent
      /\ s.miner = r.miner /\ s.next = r.next + 1 /\ s.cache = d /\ s.kept = k
  BY <1>1 DEF RunShape, Off
<1> HIDE DEF r, t, c, d, k, s
<1>9. RunShape(s)
  BY <1>1, <1>6, <1>7, <1>8 DEF RunShape
<1>10. CASE p = "sim"
  BY <1>1, <1>9, <1>10, SimStep
<1>11. CASE p = "exec"
  <2>1. run'["exec"] = s /\ run'["sim"] = run["sim"] /\ DOMAIN run' = Runner
    BY <1>1, <1>11 DEF IInv, ShapeInv, Runner
  <2>2. ShapeInv'
    BY <1>1, <1>9, <2>1 DEF IInv, ShapeInv, Runner
  <2>3. ChainInv'
    BY <1>1 DEF IInv, ChainInv
  <2> DEFINE low == trees[Len(chain)]
  <2>4. /\ r.parent = chain /\ TreeShape(low)
        /\ Grows(low, c) /\ Ordered(r.kept) /\ Between(r.kept, low, c)
    BY <1>1, <1>11 DEF IInv, ExecInv, ShapeInv, Heights, r, c
  <2> HIDE DEF low
  <2>5. Grows(low, d)
    BY <1>5, <1>6, <2>4 DEF Grows, TreeShape, StateShape
  <2>6. Ordered(k)
    BY <1>1, <1>3, <1>4, <1>5, <2>4, AppendOrdered DEF RunShape, k
  <2>7. Between(k, low, d)
    <3>1. r.kept \in Seq(Transaction)
      BY <1>1 DEF RunShape
    <3>2. SUFFICES ASSUME NEW i \in 1 .. Len(k), IsTransfer(k[i])
                   PROVE  /\ k[i].sender \in Account
                          /\ low[k[i].sender].nonce <= k[i].nonce
                          /\ k[i].nonce < d[k[i].sender].nonce
      BY DEF Between
    <3>3. CASE i \in 1 .. Len(r.kept)
      <4>1. k[i] = r.kept[i]
        BY <3>1, <3>3 DEF k
      <4>2. /\ k[i].sender \in Account
            /\ low[k[i].sender].nonce <= k[i].nonce
            /\ k[i].nonce < c[k[i].sender].nonce
        BY <2>4, <3>2, <3>3, <4>1 DEF Between
      <4>3. c[k[i].sender].nonce <= d[k[i].sender].nonce
        BY <1>5, <1>6, <4>2 DEF TreeShape, StateShape
      <4>4. c[k[i].sender].nonce \in Nat /\ d[k[i].sender].nonce \in Nat
        BY <1>5, <1>6, <4>2 DEF TreeShape, StateShape
      <4>5. k[i].nonce \in Nat
        <5>1. k[i] \in Transaction
          BY <1>7
        <5>2. QED
          BY <5>1 DEF Transaction
      <4>6. QED
        BY <4>2, <4>3, <4>4, <4>5
    <3>4. CASE i = Len(r.kept) + 1
      <4>1. k[i] = t
        BY <3>1, <3>4 DEF k
      <4>2. /\ t.sender \in Account /\ t.nonce = c[t.sender].nonce
            /\ d[t.sender].nonce = c[t.sender].nonce + 1
        BY <1>4, <1>6, <3>2, <4>1
      <4>3. low[t.sender].nonce <= c[t.sender].nonce /\ c[t.sender].nonce \in Nat
        BY <1>5, <2>4, <4>2 DEF Grows, TreeShape, StateShape
      <4>4. QED
        BY <4>1, <4>2, <4>3
    <3>5. QED
      BY <3>1, <3>3, <3>4 DEF k
  <2>8. ExecInv'
    BY <1>1, <1>8, <2>1, <2>4, <2>5, <2>6, <2>7 DEF ExecInv, low
  <2>9. QED
    BY <2>2, <2>3, <2>8 DEF IInv
<1>12. QED
  BY <1>10, <1>11 DEF Runner

\* The end of an execution that commits nothing, and the disturbance of a dry run.
LEMMA EndShapes ==
    ASSUME IInv
    PROVE  RunShape(Off) /\ RunShape(Disturb(run["sim"]))
<1>1. RunShape(run["sim"])
  BY DEF IInv, ShapeInv, Runner
<1>2. RunShape(Off)
  BY DEF RunShape, Off
<1>3. RunShape(Disturb(run["sim"]))
  BY <1>1 DEF RunShape, Disturb, Off
<1>4. QED
  BY <1>2, <1>3

LEMMA AbandonExec ==
    ASSUME IInv, run' = [run EXCEPT !["exec"] = Off], UNCHANGED <<chain, trees, template>>
    PROVE  IInv'
<1>1. run'["exec"] = Off /\ run'["sim"] = run["sim"] /\ DOMAIN run' = Runner
  BY DEF IInv, ShapeInv, Runner
<1>2. ShapeInv'
  BY <1>1, EndShapes DEF IInv, ShapeInv, Runner
<1>3. ChainInv' /\ ExecInv'
  BY <1>1 DEF IInv, ChainInv, ExecInv, Off
<1>4. QED
  BY <1>2, <1>3 DEF IInv

\* The tree of the new block continues the nonces of the tree below it.
LEMMA FinalContinues ==
    ASSUME IInv, run["exec"].pc = "tx"
    PROVE  LET r == run["exec"]
               low == trees[Len(chain)]
           IN  /\ TreeShape(FinalTree(r))
               /\ Grows(low, FinalTree(r))
               /\ Ordered(r.kept)
               /\ Between(r.kept, low, FinalTree(r))
<1> DEFINE r == run["exec"]
           low == trees[Len(chain)]
           tree == FinalTree(r)
<1>1. /\ RunShape(r) /\ r.pc = "tx" /\ r.parent = chain
      /\ TreeShape(low) /\ TreeShape(r.cache) /\ r.miner \in Account
      /\ r.kept \in Seq(Transaction)
  BY DEF IInv, ShapeInv, ExecInv, RunShape, Runner, Heights
<1>2. Grows(low, r.cache) /\ Ordered(r.kept) /\ Between(r.kept, low, r.cache)
  BY DEF IInv, ExecInv
<1>3. /\ TreeShape(tree)
      /\ \A a \in Account : tree[a].nonce =
            IF a \in Touched(r) THEN r.cache[a].nonce ELSE low[a].nonce
  BY <1>1, FinalNonce
<1> HIDE DEF tree, low, r
<1>4. Grows(low, tree)
  BY SMTT(30), <1>1, <1>2, <1>3 DEF Grows, TreeShape, StateShape
<1>5. Between(r.kept, low, tree)
  <2>1. SUFFICES ASSUME NEW i \in 1 .. Len(r.kept), IsTransfer(r.kept[i])
                 PROVE  /\ r.kept[i].sender \in Account
                        /\ low[r.kept[i].sender].nonce <= r.kept[i].nonce
                        /\ r.kept[i].nonce < tree[r.kept[i].sender].nonce
    BY DEF Between
  <2>2. r.kept[i].sender \in Touched(r) \/ r.kept[i].sender = NoAccount
    BY DEF Touched
  <2>3. /\ r.kept[i].sender \in Account
        /\ low[r.kept[i].sender].nonce <= r.kept[i].nonce
        /\ r.kept[i].nonce < r.cache[r.kept[i].sender].nonce
    BY <1>2, <2>1 DEF Between
  <2>4. r.kept[i].sender \in Touched(r)
    BY <2>2, <2>3, ExecutionAssumption
  <2>5. QED
    BY <1>3, <2>3, <2>4
<1>6. QED
  BY <1>2, <1>3, <1>4, <1>5 DEF r, low, tree

LEMMA SealBlockStep ==
    ASSUME IInv, SealBlock
    PROVE  IInv'
<1> DEFINE r == run["exec"]
           tree == FinalTree(r)
           n == Len(chain)
           new == [miner |-> r.miner, txs |-> r.kept]
<1>1. CASE run' = [run EXCEPT !["exec"] = Off] /\ UNCHANGED <<chain, trees>>
  BY <1>1, AbandonExec DEF SealBlock
<1>2. CASE /\ run' = [run EXCEPT !["exec"] = Off, !["sim"] = Disturb(@)]
           /\ chain' = Append(chain, new)
           /\ trees' = [trees EXCEPT ![Height(r)] = tree]
  <2>1. /\ r.pc = "tx" /\ r.parent = chain /\ r.miner \in Account
        /\ r.kept \in Seq(Transaction) /\ n < MaxHeight
    BY DEF SealBlock, Finished, IInv, ShapeInv, ExecInv, RunShape, Runner
  <2>2. /\ TreeShape(tree) /\ Grows(trees[n], tree)
        /\ Ordered(r.kept) /\ Between(r.kept, trees[n], tree)
    BY <2>1, FinalContinues
  <2>3. Height(r) = n + 1
    BY <2>1 DEF Height
  <2>4. /\ run'["exec"] = Off /\ run'["sim"] = Disturb(run["sim"]) /\ DOMAIN run' = Runner
    BY <1>2 DEF IInv, ShapeInv, Runner
  <2>5. new \in Blocks /\ new.txs = r.kept
    BY <2>1 DEF Blocks
  <2>6. template' = template
    BY DEF SealBlock
  <2> HIDE DEF tree, new, n, r
  <2>7. chain \in Seq(Blocks) /\ n \in Nat /\ DOMAIN trees = Heights
    BY DEF IInv, ShapeInv, n
  <2>8. /\ chain' \in Seq(Blocks) /\ Len(chain') = n + 1
        /\ chain'[n + 1] = new
        /\ \A b \in 1 .. n : chain'[b] = chain[b]
    BY <1>2, <2>5, <2>7 DEF n
  <2>9. n + 1 \in Heights
    BY <2>1, <2>7, ExecutionAssumption DEF Heights
  <2>10. /\ DOMAIN trees' = Heights
         /\ trees'[n + 1] = tree
         /\ \A h \in 0 .. n : trees'[h] = trees[h]
         /\ \A h \in Heights : h # n + 1 => trees'[h] = trees[h]
    BY <1>2, <2>1, <2>3, <2>7, <2>9, ExecutionAssumption DEF Heights
  <2>11. ShapeInv'
    <3>1. \A h \in Heights : TreeShape(trees'[h])
      BY <2>2, <2>10 DEF IInv, ShapeInv
    <3>2. \A p \in Runner : RunShape(run'[p])
      BY <2>4, EndShapes DEF Runner
    <3>3. Len(chain') <= MaxHeight
      BY <2>1, <2>7, <2>8, ExecutionAssumption
    <3>4. QED
      BY <2>4, <2>6, <2>8, <2>10, <3>1, <3>2, <3>3 DEF IInv, ShapeInv
  <2>12. ChainInv'
    <3>1. ASSUME NEW h \in 0 .. n + 1, NEW k \in 0 .. n + 1, h <= k
          PROVE  Grows(trees'[h], trees'[k])
      <4>1. CASE k \in 0 .. n
        BY <2>7, <2>10, <3>1, <4>1 DEF IInv, ChainInv, n
      <4>2. CASE k = n + 1 /\ h \in 0 .. n
        <5>1. Grows(trees[h], trees[n])
          BY <2>7, <4>2 DEF IInv, ChainInv, n
        <5>2. TreeShape(trees[h]) /\ TreeShape(trees[n])
          BY <2>1, <2>7, <4>2, ExecutionAssumption DEF IInv, ShapeInv, Heights
        <5>3. Grows(trees[h], tree)
          BY <2>2, <5>1, <5>2 DEF Grows, TreeShape, StateShape
        <5>4. QED
          BY <2>10, <4>2, <5>3
      <4>3. CASE k = n + 1 /\ h = n + 1
        BY <2>2, <2>10, <4>3 DEF Grows, TreeShape, StateShape
      <4>4. QED
        BY <2>7, <4>1, <4>2, <4>3
    <3>2. ASSUME NEW b \in 1 .. n + 1
          PROVE  Ordered(chain'[b].txs) /\ Between(chain'[b].txs, trees'[b - 1], trees'[b])
      <4>1. CASE b \in 1 .. n
        <5>1. Ordered(chain[b].txs) /\ Between(chain[b].txs, trees[b - 1], trees[b])
          BY <4>1 DEF IInv, ChainInv, n
        <5>2. chain'[b] = chain[b] /\ trees'[b - 1] = trees[b - 1] /\ trees'[b] = trees[b]
          BY <2>7, <2>8, <2>10, <4>1
        <5>3. QED
          BY <5>1, <5>2
      <4>2. CASE b = n + 1
        <5>1. b - 1 = n /\ n \in 0 .. n
          BY <2>7, <4>2
        <5>2. QED
          BY <2>2, <2>5, <2>8, <2>10, <4>2, <5>1
      <4>3. QED
        BY <2>7, <4>1, <4>2
    <3>3. QED
      BY <2>8, <3>1, <3>2 DEF ChainInv
  <2>13. ExecInv'
    BY <2>4 DEF ExecInv, Off
  <2>14. QED
    BY <2>11, <2>12, <2>13 DEF IInv
<1>3. QED
  BY <1>1, <1>2 DEF SealBlock

LEMMA SealTemplateStep ==
    ASSUME IInv, SealTemplate
    PROVE  IInv'
<1>1. run'["exec"] = run["exec"] /\ run'["sim"] = Off /\ DOMAIN run' = Runner
  BY DEF SealTemplate, IInv, ShapeInv, Runner
<1>2. /\ template'.txs \in Seq(Transaction)
      /\ template'.parent \in Seq(Blocks)
      /\ template' # NoTemplate => template'.miner \in Account /\ Len(template'.parent) < MaxHeight
  BY DEF SealTemplate, Finished, IInv, ShapeInv, RunShape, Runner
<1>3. ShapeInv'
  BY <1>1, <1>2, EndShapes DEF SealTemplate, IInv, ShapeInv, Runner
<1>4. ChainInv' /\ ExecInv'
  BY <1>1 DEF SealTemplate, IInv, ChainInv, ExecInv
<1>5. QED
  BY <1>3, <1>4 DEF IInv

\* The first blocks of a chain.
LEMMA Prefix ==
    ASSUME NEW S, NEW s \in Seq(S), NEW n \in 0 .. Len(s)
    PROVE  /\ SubSeq(s, 1, n) \in Seq(S)
           /\ Len(SubSeq(s, 1, n)) = n
           /\ \A b \in 1 .. n : SubSeq(s, 1, n)[b] = s[b]
OBVIOUS

\* Rolling back shortens the chain and keeps every tree.
LEMMA RollBackStep ==
    ASSUME IInv, RollBack
    PROVE  IInv'
<1>1. /\ run'["exec"] = run["exec"] /\ run'["sim"] = Disturb(run["sim"])
      /\ DOMAIN run' = Runner /\ run["exec"].pc = "off"
      /\ trees' = trees /\ template' = template
  BY DEF RollBack, IInv, ShapeInv, Runner
<1>2. chain \in Seq(Blocks) /\ chain # <<>> /\ Len(chain) <= MaxHeight
  BY DEF RollBack, IInv, ShapeInv
<1>3. /\ chain' \in Seq(Blocks) /\ Len(chain') = Len(chain) - 1
      /\ \A b \in 1 .. Len(chain') : chain'[b] = chain[b]
  <2>1. Len(chain) \in Nat /\ Len(chain) > 0
    BY <1>2
  <2>2. /\ SubSeq(chain, 1, Len(chain) - 1) \in Seq(Blocks)
        /\ Len(SubSeq(chain, 1, Len(chain) - 1)) = Len(chain) - 1
        /\ \A b \in 1 .. Len(chain) - 1 : SubSeq(chain, 1, Len(chain) - 1)[b] = chain[b]
    BY <1>2, <2>1, Prefix
  <2>3. QED
    BY <2>2 DEF RollBack
<1>4. Len(chain) \in Nat
  BY <1>2
<1>5. ShapeInv'
  <2>1. Len(chain') <= MaxHeight
    BY <1>2, <1>3, <1>4, ExecutionAssumption
  <2>2. \A p \in Runner : RunShape(run'[p])
    BY <1>1, EndShapes DEF Runner, IInv, ShapeInv
  <2>3. QED
    BY <1>1, <1>3, <2>1, <2>2 DEF IInv, ShapeInv
<1>6. ChainInv'
  <2>1. \A h, k \in 0 .. Len(chain') : h <= k => Grows(trees[h], trees[k])
    BY <1>3, <1>4 DEF IInv, ChainInv
  <2>2. ASSUME NEW b \in 1 .. Len(chain')
        PROVE  Ordered(chain'[b].txs) /\ Between(chain'[b].txs, trees[b - 1], trees[b])
    <3>1. b \in 1 .. Len(chain) /\ chain'[b] = chain[b]
      BY <1>3, <1>4
    <3>2. Ordered(chain[b].txs) /\ Between(chain[b].txs, trees[b - 1], trees[b])
      BY <3>1 DEF IInv, ChainInv
    <3>3. QED
      BY <3>1, <3>2
  <2>3. QED
    BY <1>1, <2>1, <2>2 DEF ChainInv
<1>7. ExecInv'
  BY <1>1 DEF ExecInv
<1>8. QED
  BY <1>5, <1>6, <1>7 DEF IInv

LEMMA RejectBlockStep ==
    ASSUME IInv, RejectBlock
    PROVE  IInv'
BY AbandonExec DEF RejectBlock

LEMMA NextKeepsInv == IInv /\ [Next]_vars => IInv'
<1> SUFFICES ASSUME IInv, [Next]_vars PROVE IInv'
  OBVIOUS
<1>1. ASSUME NEW m \in Account, NEW txs \in Body, ReceiveBlock(m, txs) PROVE IInv'
  BY <1>1, ReceiveBlockStep
<1>2. ASSUME NEW m \in Wallet, NEW pool \in Pool, BuildTemplate(m, pool) PROVE IInv'
  BY <1>2, BuildTemplateStep
<1>3. CASE SubmitTemplate
  BY <1>3, SubmitTemplateStep
<1>4. ASSUME NEW p \in Runner, Prefetch(p) PROVE IInv'
  BY <1>4, PrefetchStep
<1>5. ASSUME NEW p \in Runner, TakeTx(p) PROVE IInv'
  BY <1>5, TakeTxStep
<1>6. CASE SkipTx
  BY <1>6, SkipTxStep
<1>7. CASE RejectBlock
  BY <1>7, RejectBlockStep
<1>8. CASE SealBlock
  BY <1>8, SealBlockStep
<1>9. CASE SealTemplate
  BY <1>9, SealTemplateStep
<1>10. CASE RollBack
  BY <1>10, RollBackStep
<1>11. CASE UNCHANGED vars
  BY <1>11 DEF vars, IInv, ShapeInv, ChainInv, ExecInv
<1>12. QED
  BY <1>1, <1>2, <1>3, <1>4, <1>5, <1>6, <1>7, <1>8, <1>9, <1>10, <1>11 DEF Next

\* In every reachable state the nonces of the trees never go down along the chain, and
\* every transfer lies between the trees around its block (lib.rs:1081-1136).
THEOREM Invariance == Spec => []IInv
<1>1. QED
  BY InitInv, NextKeepsInv, PTL DEF Spec

\* Two transfers of one sender on the chain have different nonces.
LEMMA NoncesDiffer ==
    ASSUME IInv, NEW b \in 1 .. Len(chain), NEW c \in 1 .. Len(chain),
           NEW i \in 1 .. Len(chain[b].txs), NEW j \in 1 .. Len(chain[c].txs),
           IsTransfer(chain[b].txs[i]), chain[b].txs[i] = chain[c].txs[j]
    PROVE  ~(b < c) /\ (b = c => ~(i < j))
<1> DEFINE t == chain[b].txs[i]
<1>1. /\ t.sender \in Account /\ t.nonce < trees[b][t.sender].nonce
      /\ trees[c - 1][t.sender].nonce <= t.nonce
  BY DEF IInv, ChainInv, Between
<1>2. t.nonce \in Int
  <2>1. chain \in Seq(Blocks)
    BY DEF IInv, ShapeInv
  <2>2. chain[b] \in Blocks
    BY <2>1
  <2>3. chain[b].txs \in Seq(Transaction)
    BY <2>2 DEF Blocks
  <2>4. t \in Transaction
    BY <2>3
  <2>5. QED
    BY <2>4 DEF Transaction
<1>3. ASSUME b < c PROVE FALSE
  <2>1. b \in 0 .. Len(chain) /\ c - 1 \in 0 .. Len(chain) /\ b <= c - 1
    BY <1>3
  <2>2. trees[b][t.sender].nonce <= trees[c - 1][t.sender].nonce
    BY <1>1, <2>1 DEF IInv, ChainInv, Grows
  <2>3. trees[b][t.sender].nonce \in Nat /\ trees[c - 1][t.sender].nonce \in Nat
    <3>0. Len(chain) \in Nat /\ Len(chain) <= MaxHeight
      <4>1. chain \in Seq(Blocks) /\ Len(chain) <= MaxHeight
        BY DEF IInv, ShapeInv
      <4> QED
        BY <4>1
    <3>1. b \in Heights /\ c - 1 \in Heights
      BY <2>1, <3>0, ExecutionAssumption DEF Heights
    <3>2. QED
      BY <1>1, <3>1 DEF IInv, ShapeInv, TreeShape, StateShape
  <2> HIDE DEF t
  <2>4. QED
    BY <1>1, <1>2, <2>2, <2>3
<1>4. ASSUME b = c, i < j PROVE FALSE
  <2>1. t.nonce < t.nonce
    BY <1>4 DEF IInv, ChainInv, Ordered
  <2>2. QED
    BY <1>2, <2>1
<1>5. QED
  BY <1>3, <1>4

\* No transfer is executed twice on the chain, in one block or in two: the nonce
\* check of execute_block_internal (lib.rs:1087) suffices, with or without the
\* recent-block-hash check.
THEOREM TransfersExecuteOnce == Spec => []NoReplay
<1>1. IInv => NoReplay
  <2> SUFFICES ASSUME IInv,
                      NEW b \in 1 .. Len(chain), NEW c \in 1 .. Len(chain),
                      NEW i \in 1 .. Len(chain[b].txs), NEW j \in 1 .. Len(chain[c].txs),
                      chain[b].txs[i] = chain[c].txs[j], IsTransfer(chain[b].txs[i])
               PROVE  b = c /\ i = j
    BY DEF NoReplay
  <2>1. ~(b < c) /\ ~(c < b)
    BY NoncesDiffer
  <2>2. b = c
    BY <2>1
  <2>3. ~(i < j) /\ ~(j < i)
    BY <2>2, NoncesDiffer
  <2>4. i \in Int /\ j \in Int
    OBVIOUS
  <2>5. QED
    BY <2>2, <2>3, <2>4
<1>2. QED
  BY <1>1, Invariance, PTL

---------------------------------------------------------------------------
\* Coins.

\* An account with finitely many waiting rewards, and a table of such accounts.
Sound(st) == st \in AccountState /\ IsFiniteSet(st.maturing)
SoundTree(tree) == DOMAIN tree = Account /\ (\A a \in Account : Sound(tree[a])) /\ tree \in Ledger

\* What an account holds, and what all of them hold.
Value(st) == st.btc_z + Total(st.maturing)
Supply(tree) == MapThenSumSet(LAMBDA a : Value(tree[a]), Account)
Minted(h) == MapThenSumSet(Reward, 0 .. h)

\* What rewards are worth together.
LEMMA TotalOfParts ==
    ASSUME NEW S, S \subseteq MaturingReward, IsFiniteSet(S)
    PROVE  /\ Total(S) \in Nat
           /\ \A T \in SUBSET S : /\ IsFiniteSet(T) /\ IsFiniteSet(S \ T)
                                  /\ Total(T) \in Nat /\ Total(S \ T) \in Nat
                                  /\ Total(S) = Total(T) + Total(S \ T)
           /\ \A x \in MaturingReward : x \notin S => Total(S \cup {x}) = Total(S) + x.amount
<1>1. ASSUME NEW x, x \in MaturingReward
      PROVE  LET U == S \cup {x}
                 f == [r \in U |-> r.amount]
             IN  \A T \in SUBSET U : IsFiniteSet(T) /\ Total(T) = SumOver(f, T)
  <2> DEFINE U == S \cup {x}
             f == [r \in U |-> r.amount]
  <2>1. SUFFICES ASSUME NEW T \in SUBSET U PROVE IsFiniteSet(T) /\ Total(T) = SumOver(f, T)
    OBVIOUS
  <2>2. IsFiniteSet(T)
    BY FS_AddElement, FS_Subset
  <2> DEFINE e == [r \in T |-> r.amount]
  <2>3. Total(T) = SumOver(e, T)
    BY DEF Total, SumOver, MapThenSumSet, MapThenFoldSet
  <2>4. \A r \in T : f[r] \in Int /\ e[r] = f[r]
    BY <1>1 DEF MaturingReward
  <2> HIDE DEF e, f
  <2>5. SumOver(e, T) = SumOver(f, T)
    BY <2>2, <2>4, SumOfEquals
  <2> QED
    BY <2>2, <2>3, <2>5
<1>2. ASSUME NEW x \in MaturingReward, x \notin S
      PROVE  Total(S \cup {x}) = Total(S) + x.amount
  <2> DEFINE U == S \cup {x}
             f == [r \in U |-> r.amount]
  <2>1. Total(S) = SumOver(f, S) /\ Total(U) = SumOver(f, U)
    BY <1>1
  <2>2. (\A y \in U : f[y] \in Int) /\ f[x] = x.amount
    BY DEF MaturingReward
  <2> HIDE DEF f
  <2>3. SumOver(f, S \cup {x}) = SumOver(f, S) + f[x]
    BY <1>2, <2>2, SumOfOneMore
  <2> QED
    BY <2>1, <2>2, <2>3
<1>3. ASSUME NEW T \in SUBSET S
      PROVE  /\ IsFiniteSet(T) /\ IsFiniteSet(S \ T)
             /\ Total(T) \in Nat /\ Total(S \ T) \in Nat
             /\ Total(S) = Total(T) + Total(S \ T) /\ Total(S) \in Nat
  <2> DEFINE x == [amount |-> 0, height |-> 0]
             U == S \cup {x}
             f == [r \in U |-> r.amount]
  <2>1. x \in MaturingReward
    BY DEF MaturingReward
  <2>2. \A V \in SUBSET U : IsFiniteSet(V) /\ Total(V) = SumOver(f, V)
    BY <1>1, <2>1
  <2>3. \A y \in S : f[y] \in Nat
    BY DEF MaturingReward
  <2> HIDE DEF f
  <2>4. T \in SUBSET U /\ S \ T \in SUBSET U /\ S \in SUBSET U
    OBVIOUS
  <2> HIDE DEF U
  <2>5. /\ SumOver(f, T) \in Nat /\ SumOver(f, S \ T) \in Nat
        /\ SumOver(f, S) = SumOver(f, T) + SumOver(f, S \ T)
    BY <2>3, SumOfPart
  <2> QED
    BY <2>2, <2>4, <2>5
<1>4. Total(S) \in Nat
  <2>1. {} \in SUBSET S
    OBVIOUS
  <2> QED
    BY <2>1, <1>3
<1> QED
  BY <1>2, <1>3, <1>4

\* A payout moves rewards to the balance and changes what the account holds by nothing.
LEMMA PayOutSound ==
    ASSUME NEW st, Sound(st), NEW h
    PROVE  /\ Sound(PayOut(st, h))
           /\ Value(PayOut(st, h)) = Value(st)
           /\ PayOut(st, h).maturing \subseteq st.maturing
<1> DEFINE R == Ripe(st.maturing, h)
<1>1. /\ st.maturing \subseteq MaturingReward /\ IsFiniteSet(st.maturing)
      /\ st.btc_z \in Nat /\ st.nonce \in Nat /\ DOMAIN st = StateFields
  BY DEF Sound, AccountState, StateFields
<1>2. R \in SUBSET st.maturing
  BY DEF Ripe
<1>3. /\ IsFiniteSet(st.maturing \ R) /\ Total(R) \in Nat /\ Total(st.maturing \ R) \in Nat
      /\ Total(st.maturing) = Total(R) + Total(st.maturing \ R)
  BY <1>1, <1>2, TotalOfParts
<1> DEFINE q == PayOut(st, h)
<1>4. /\ DOMAIN q = StateFields /\ q.btc_z = st.btc_z + Total(R) /\ q.nonce = st.nonce
      /\ q.maturing = st.maturing \ R /\ q \in AccountState
  <2>1. st \in AccountState
    BY DEF Sound
  <2>2. /\ st.btc_z + Total(R) \in Nat
        /\ st.maturing \ R \in SUBSET MaturingReward
    BY <1>1, <1>3
  <2>3. q = [st EXCEPT !.btc_z = st.btc_z + Total(R), !.maturing = st.maturing \ R]
    BY DEF PayOut
  <2> HIDE DEF R, q
  <2> QED
    BY <2>1, <2>2, <2>3 DEF AccountState, StateFields
<1> HIDE DEF q, R
<1>5. Sound(q)
  BY <1>3, <1>4 DEF Sound
<1>6. Value(q) = Value(st)
  BY <1>1, <1>3, <1>4 DEF Value
<1> QED
  BY <1>4, <1>5, <1>6 DEF q

\* What all accounts hold is a natural number; it depends on what each holds.
LEMMA SupplyIs ==
    ASSUME NEW tree, SoundTree(tree)
    PROVE  LET f == [a \in Account |-> Value(tree[a])]
           IN  /\ Supply(tree) = SumOver(f, Account) /\ Supply(tree) \in Nat
               /\ \A a \in Account : Value(tree[a]) \in Nat
<1> DEFINE f == [a \in Account |-> Value(tree[a])]
<1>1. Supply(tree) = SumOver(f, Account)
  BY DEF Supply, SumOver, MapThenSumSet, MapThenFoldSet
<1>2. ASSUME NEW a \in Account PROVE Value(tree[a]) \in Nat
  <2>1. /\ tree[a].btc_z \in Nat /\ tree[a].maturing \subseteq MaturingReward
        /\ IsFiniteSet(tree[a].maturing)
    BY DEF SoundTree, Sound, AccountState
  <2>2. Total(tree[a].maturing) \in Nat
    BY <2>1, TotalOfParts
  <2> QED
    BY <2>1, <2>2 DEF Value
<1>3. IsFiniteSet(Account)
  BY ExecutionAssumption
<1>4. \A a \in Account : f[a] \in Nat
  BY <1>2
<1> HIDE DEF f
<1>5. SumOver(f, Account) \in Nat
  BY <1>3, <1>4, SumOfNaturals
<1> QED
  BY <1>1, <1>2, <1>5 DEF f

\* Tables whose accounts hold the same have the same supply.
LEMMA SameSupply ==
    ASSUME NEW t, NEW u, SoundTree(t), SoundTree(u),
           \A a \in Account : Value(u[a]) = Value(t[a])
    PROVE  Supply(u) = Supply(t)
<1> DEFINE f == [a \in Account |-> Value(t[a])]
           g == [a \in Account |-> Value(u[a])]
<1>1. Supply(t) = SumOver(f, Account) /\ Supply(u) = SumOver(g, Account)
  BY SupplyIs
<1>2. f = g
  OBVIOUS
<1> QED
  BY <1>1, <1>2

\* One account changes.
LEMMA SupplyMoves ==
    ASSUME NEW t, NEW u, SoundTree(t), SoundTree(u), NEW z \in Account,
           \A a \in Account \ {z} : Value(u[a]) = Value(t[a])
    PROVE  Supply(u) = Supply(t) - Value(t[z]) + Value(u[z])
<1> DEFINE f == [a \in Account |-> Value(t[a])]
           g == [a \in Account |-> Value(u[a])]
<1>1. /\ Supply(t) = SumOver(f, Account) /\ Supply(u) = SumOver(g, Account)
      /\ \A a \in Account : f[a] \in Int /\ g[a] \in Int
  BY SupplyIs
<1>2. /\ IsFiniteSet(Account) /\ f[z] = Value(t[z]) /\ g[z] = Value(u[z])
      /\ \A a \in Account \ {z} : g[a] = f[a]
  BY ExecutionAssumption
<1> HIDE DEF f, g
<1>3. SumOver(g, Account) = SumOver(f, Account) - f[z] + g[z]
  BY <1>1, <1>2, SumOfChanged
<1> QED
  BY <1>1, <1>2, <1>3

\* The emission schedule, block by block.
LEMMA MintedNext ==
    ASSUME NEW h \in Heights
    PROVE  /\ Minted(h) \in Nat
           /\ h + 1 \in Heights => Minted(h + 1) = Minted(h) + Reward(h + 1)
           /\ Minted(0) = Reward(0)
<1> DEFINE f == [k \in Heights |-> Reward(k)]
<1>1. \A k \in Heights : f[k] \in Nat /\ f[k] = Reward(k)
  BY RewardAssumption
<1>2. ASSUME NEW k \in Heights
      PROVE  Minted(k) = SumOver(f, 0 .. k) /\ IsFiniteSet(0 .. k) /\ 0 .. k \subseteq Heights
  <2>1. 0 .. k \subseteq Heights /\ IsFiniteSet(0 .. k) /\ k \in Nat
    BY ExecutionAssumption, FS_Interval DEF Heights
  <2> DEFINE e == [j \in 0 .. k |-> Reward(j)]
  <2>2. Minted(k) = SumOver(e, 0 .. k)
    BY DEF Minted, SumOver, MapThenSumSet, MapThenFoldSet
  <2>3. \A j \in 0 .. k : f[j] \in Int /\ e[j] = f[j]
    BY <1>1, <2>1
  <2> HIDE DEF e, f
  <2>4. SumOver(e, 0 .. k) = SumOver(f, 0 .. k)
    BY <2>1, <2>3, SumOfEquals
  <2> QED
    BY <2>1, <2>2, <2>4
<1> HIDE DEF f
<1>3. Minted(h) \in Nat
  <2>1. \A k \in 0 .. h : f[k] \in Nat
    BY <1>1, <1>2
  <2> QED
    BY <1>2, <2>1, SumOfNaturals
<1>4. ASSUME h + 1 \in Heights PROVE Minted(h + 1) = Minted(h) + Reward(h + 1)
  <2>1. /\ 0 .. (h + 1) = (0 .. h) \cup {h + 1} /\ h + 1 \notin 0 .. h
    BY DEF Heights
  <2>2. \A k \in (0 .. h) \cup {h + 1} : f[k] \in Int
    BY <1>1, <1>2, <1>4
  <2>3. SumOver(f, (0 .. h) \cup {h + 1}) = SumOver(f, 0 .. h) + f[h + 1]
    BY <1>2, <2>1, <2>2, SumOfOneMore
  <2>4. Minted(h + 1) = SumOver(f, 0 .. (h + 1)) /\ Minted(h) = SumOver(f, 0 .. h)
    BY <1>2, <1>4
  <2> QED
    BY <1>1, <1>4, <2>1, <2>3, <2>4
<1>5. Minted(0) = Reward(0)
  <2>1. 0 \in Heights /\ 0 .. 0 = {} \cup {0}
    BY ExecutionAssumption DEF Heights
  <2>2. \A k \in {} \cup {0} : f[k] \in Int
    BY <1>1, <2>1
  <2>3. SumOver(f, {} \cup {0}) = SumOver(f, {}) + f[0]
    BY <2>2, FS_EmptySet, SumOfOneMore
  <2>4. SumOver(f, {}) = 0 /\ f[0] \in Nat /\ f[0] = Reward(0)
    BY <1>1, <2>1, SumOfNone
  <2>5. SumOver(f, 0 .. 0) = f[0]
    BY <2>1, <2>3, <2>4
  <2>6. Minted(0) = SumOver(f, 0 .. 0)
    BY <1>2, <2>1
  <2> QED
    BY <2>4, <2>5, <2>6
<1> QED
  BY <1>3, <1>4, <1>5

\* A payable transfer leaves every balance a natural number, takes what it spends
\* and gives its amount, and changes its sender and its receiver only.
LEMMA TransferSound ==
    ASSUME NEW c, SoundTree(c), NEW t \in Transaction, Payable(c, t),
           IsTransfer(t) => t.sender \in Account
    PROVE  /\ SoundTree(Transfer(c, t))
           /\ Spend(c, t) \in Nat /\ FeesOf(c, t) \in Nat
           /\ Supply(Transfer(c, t)) = Supply(c) - Spend(c, t) + t.amount
           /\ \A a \in Account : /\ Transfer(c, t)[a].maturing = c[a].maturing
                                 /\ a \notin {t.sender, t.receiver} => Transfer(c, t)[a] = c[a]
<1> DEFINE x == Spend(c, t)
           d == [c EXCEPT ![t.sender].btc_z = @ - x, ![t.sender].nonce = @ + 1]
           e == Transfer(c, t)
<1>1. /\ t.amount \in Nat /\ t.fee \in Nat /\ t.receiver \in Account
      /\ CreationCharge(c, t) \in Nat /\ x \in Nat /\ FeesOf(c, t) \in Nat
  BY ExecutionAssumption DEF Transaction, CreationCharge, Spend, FeesOf
<1>2. Supply(c) \in Nat
  BY SupplyIs
<1>3. CASE ~IsTransfer(t)
  <2>1. e = c /\ x = 0 /\ t.amount = 0
    BY <1>1, <1>3 DEF Transfer, Spend, IsTransfer
  <2> HIDE DEF e, x
  <2> QED
    BY <1>1, <1>2, <2>1 DEF e, x
<1>4. CASE IsTransfer(t)
  <2>1. /\ t.sender \in Account /\ c[t.sender].btc_z >= x
        /\ e = [d EXCEPT ![t.receiver].btc_z = @ + t.amount]
    BY <1>4 DEF Payable, Transfer
  <2>2. \A a \in Account : c[a] \in AccountState /\ IsFiniteSet(c[a].maturing)
    BY DEF SoundTree, Sound
  <2> HIDE DEF x
  <2>3. /\ DOMAIN d = Account
        /\ \A a \in Account : a # t.sender => d[a] = c[a]
        /\ d[t.sender] = [c[t.sender] EXCEPT !.btc_z = @ - x, !.nonce = @ + 1]
    BY <2>1 DEF SoundTree
  <2>4. /\ d[t.sender] \in AccountState /\ d[t.sender].btc_z = c[t.sender].btc_z - x
        /\ d[t.sender].maturing = c[t.sender].maturing
    BY <1>1, <2>1, <2>2, <2>3 DEF AccountState
  <2>5. SoundTree(d) /\ \A a \in Account : d[a].maturing = c[a].maturing
    BY <2>2, <2>3, <2>4 DEF SoundTree, Sound, Ledger
  <2>6. Supply(d) = Supply(c) - x /\ Supply(d) \in Nat
    <3>1. /\ Supply(d) = Supply(c) - Value(c[t.sender]) + Value(d[t.sender])
          /\ Value(c[t.sender]) \in Nat /\ Supply(d) \in Nat
      <4>1. \A a \in Account \ {t.sender} : Value(d[a]) = Value(c[a])
        BY <2>3
      <4> HIDE DEF d
      <4>2. SoundTree(c) /\ SoundTree(d) /\ t.sender \in Account
        BY <2>1, <2>5
      <4>3. Supply(d) = Supply(c) - Value(c[t.sender]) + Value(d[t.sender])
        BY <4>1, <4>2, SupplyMoves
      <4> QED
        BY <4>2, <4>3, SupplyIs
    <3>2. Value(d[t.sender]) = Value(c[t.sender]) - x
      <4>1. /\ c[t.sender].btc_z \in Nat /\ c[t.sender].maturing \subseteq MaturingReward
            /\ IsFiniteSet(c[t.sender].maturing)
        BY <2>1, <2>2 DEF AccountState
      <4>2. Total(c[t.sender].maturing) \in Nat
        BY <4>1, TotalOfParts
      <4> QED
        BY <1>1, <2>4, <4>1, <4>2 DEF Value
    <3> QED
      BY <1>1, <1>2, <3>1, <3>2
  <2> HIDE DEF d, e
  <2>7. /\ DOMAIN e = Account
        /\ \A a \in Account : a # t.receiver => e[a] = d[a]
        /\ e[t.receiver] = [d[t.receiver] EXCEPT !.btc_z = @ + t.amount]
    BY <1>1, <2>1, <2>5 DEF SoundTree
  <2>8. \A a \in Account : d[a] \in AccountState /\ IsFiniteSet(d[a].maturing)
    BY <2>5 DEF SoundTree, Sound
  <2>9. /\ e[t.receiver] \in AccountState
        /\ e[t.receiver].btc_z = d[t.receiver].btc_z + t.amount
        /\ e[t.receiver].maturing = d[t.receiver].maturing
    BY <1>1, <2>7, <2>8 DEF AccountState
  <2>10. SoundTree(e) /\ \A a \in Account : e[a].maturing = d[a].maturing
    <3>1. \A a \in Account : /\ e[a] \in AccountState /\ IsFiniteSet(e[a].maturing)
                             /\ e[a].maturing = d[a].maturing
      BY <2>7, <2>8, <2>9
    <3>2. e = [a \in Account |-> e[a]]
      BY <2>1, <2>5 DEF SoundTree, Ledger
    <3>3. e \in Ledger
      BY <3>1, <3>2 DEF Ledger
    <3> QED
      BY <2>7, <3>1, <3>3 DEF SoundTree, Sound
  <2>11. Supply(e) = Supply(d) + t.amount
    <3>1. /\ Supply(e) = Supply(d) - Value(d[t.receiver]) + Value(e[t.receiver])
          /\ Value(d[t.receiver]) \in Nat
      <4>1. \A a \in Account \ {t.receiver} : Value(e[a]) = Value(d[a])
        BY <2>7
      <4> QED
        BY ZenonT(30), <1>1, <2>5, <2>10, <4>1, SupplyMoves, SupplyIs
    <3>2. Value(e[t.receiver]) = Value(d[t.receiver]) + t.amount
      <4>1. /\ d[t.receiver].btc_z \in Nat /\ d[t.receiver].maturing \subseteq MaturingReward
            /\ IsFiniteSet(d[t.receiver].maturing)
        BY <1>1, <2>8 DEF AccountState
      <4>2. Total(d[t.receiver].maturing) \in Nat
        BY <4>1, TotalOfParts
      <4> QED
        BY <1>1, <2>9, <4>1, <4>2 DEF Value
    <3> QED
      BY <1>1, <2>6, <3>1, <3>2
  <2> QED
    BY <1>1, <1>2, <2>3, <2>5, <2>6, <2>7, <2>10, <2>11 DEF x, e
<1> QED
  BY <1>3, <1>4

\* No reward of a table waits for a height above k.
WaitsUpTo(tree, k) == \A a \in Account : \A w \in tree[a].maturing : w.height <= k

\* The accounts a list of transactions names.
Named(txs) == {txs[i].receiver : i \in 1 .. Len(txs)} \cup {txs[i].sender : i \in 1 .. Len(txs)}

\* The reward of the new block waits longer than every reward before it: the miner
\* gets it in addition to what it has.
LEMMA RewardedSound ==
    ASSUME NEW r, SoundTree(r.cache), r.miner \in Account, r.fees \in Nat, Height(r) \in Heights
    PROVE  /\ SoundTree(Rewarded(r))
           /\ \A a \in Account \ {r.miner} : Rewarded(r)[a] = r.cache[a]
           /\ \A k \in Nat : k < Height(r) + Maturity /\ WaitsUpTo(r.cache, k) =>
                 /\ WaitsUpTo(Rewarded(r), Height(r) + Maturity)
                 /\ Supply(Rewarded(r)) = Supply(r.cache) + Reward(Height(r)) + r.fees
<1> DEFINE w == Rewarded(r)
           c == r.cache
           m == r.miner
           x == [amount |-> Reward(Height(r)) + r.fees, height |-> Height(r) + Maturity]
<1>1. x \in MaturingReward /\ x.height \in Nat /\ Height(r) \in Nat /\ x.amount = Reward(Height(r)) + r.fees
  BY ExecutionAssumption, RewardAssumption DEF Heights, MaturingReward
<1>2. w = [c EXCEPT ![m].maturing = @ \cup {x}]
  BY DEF Rewarded
<1>x. x.height = Height(r) + Maturity
  OBVIOUS
<1> HIDE DEF x, w
<1>3. /\ \A a \in Account : c[a] \in AccountState /\ IsFiniteSet(c[a].maturing)
      /\ c \in Ledger /\ SoundTree(c) /\ m \in Account
  BY DEF SoundTree, Sound
<1> HIDE DEF c, m
<1>4. /\ w = [a \in Account |-> w[a]] /\ DOMAIN w = Account
      /\ \A a \in Account \ {m} : w[a] = c[a]
      /\ w[m] = [c[m] EXCEPT !.maturing = @ \cup {x}]
  BY <1>2, <1>3 DEF Ledger
<1>5. /\ w[m] \in AccountState /\ w[m].btc_z = c[m].btc_z
      /\ w[m].maturing = c[m].maturing \cup {x}
  BY <1>1, <1>3, <1>4 DEF AccountState
<1>6. IsFiniteSet(w[m].maturing)
  <2>1. IsFiniteSet(c[m].maturing)
    BY <1>3
  <2>2. IsFiniteSet(c[m].maturing \cup {x})
    BY <2>1, FS_AddElement
  <2> QED
    BY <1>5, <2>2
<1>7. SoundTree(w)
  <2>1. \A a \in Account : w[a] \in AccountState /\ IsFiniteSet(w[a].maturing)
    BY <1>3, <1>4, <1>5, <1>6
  <2>2. w \in Ledger
    BY <1>4, <2>1 DEF Ledger
  <2> QED
    BY <1>4, <2>1, <2>2 DEF SoundTree, Sound
<1>8. ASSUME NEW k \in Nat, k < Height(r) + Maturity, WaitsUpTo(c, k)
      PROVE  /\ WaitsUpTo(w, Height(r) + Maturity)
             /\ Supply(w) = Supply(c) + Reward(Height(r)) + r.fees
  <2>0. Height(r) + Maturity \in Nat
    BY <1>1, ExecutionAssumption
  <2>1. WaitsUpTo(w, Height(r) + Maturity)
    <3>1. ASSUME NEW a \in Account, NEW v \in w[a].maturing PROVE v.height <= Height(r) + Maturity
      <4>1. CASE v = x
        BY <1>x, <2>0, <4>1
      <4>2. CASE v # x
        <5>1. v \in c[a].maturing
          BY <1>4, <1>5, <3>1, <4>2
        <5>2. v.height \in Nat /\ v.height <= k
          BY <1>3, <1>8, <5>1 DEF WaitsUpTo, AccountState, MaturingReward
        <5> QED
          BY <1>8, <2>0, <5>2
      <4> QED
        BY <4>1, <4>2
    <3> QED
      BY <3>1 DEF WaitsUpTo
  <2>2. x \notin c[m].maturing
    BY <1>3, <1>8, <1>x, <2>0 DEF WaitsUpTo
  <2>3. /\ c[m].maturing \subseteq MaturingReward /\ c[m].btc_z \in Nat
    BY <1>3 DEF AccountState
  <2>4. /\ Total(w[m].maturing) = Total(c[m].maturing) + x.amount
        /\ Total(c[m].maturing) \in Nat
    BY <1>1, <1>3, <1>5, <2>2, <2>3, TotalOfParts
  <2>5. Reward(Height(r)) \in Nat
    BY RewardAssumption
  <2>6. Value(w[m]) = Value(c[m]) + Reward(Height(r)) + r.fees
    BY <1>1, <1>5, <2>3, <2>4, <2>5 DEF Value
  <2>7. \A a \in Account \ {m} : Value(w[a]) = Value(c[a])
    BY <1>4
  <2>8. Supply(w) = Supply(c) - Value(c[m]) + Value(w[m])
    BY <1>3, <1>7, <2>7, SupplyMoves
  <2>9. Supply(c) \in Nat /\ Value(c[m]) \in Nat
    BY <1>3, SupplyIs
  <2> QED
    BY <2>1, <2>5, <2>6, <2>8, <2>9
<1> QED
  BY <1>4, <1>7, <1>8 DEF w, c, m

\* The tree of a block: sound, its rewards due within Maturity blocks, and worth the
\* cache, the reward and the fees.  What the block does not touch must be in the cache
\* as it was read: the tree takes it from the tree below.
LEMMA FinalSound ==
    ASSUME NEW r, SoundTree(r.cache), SoundTree(trees[Len(r.parent)]), r.miner \in Account,
           r.fees \in Nat, Height(r) \in Heights
    PROVE  /\ SoundTree(FinalTree(r))
           /\ \A k \in Nat :
                 /\ k < Height(r) + Maturity
                 /\ WaitsUpTo(r.cache, k)
                 /\ WaitsUpTo(trees[Len(r.parent)], k)
                 /\ \A a \in Account \ Touched(r) :
                       Value(r.cache[a]) = Value(trees[Len(r.parent)][a])
                 => /\ WaitsUpTo(FinalTree(r), Height(r) + Maturity)
                    /\ Supply(FinalTree(r)) = Supply(r.cache) + Reward(Height(r)) + r.fees
<1> DEFINE w == Rewarded(r)
           f == FinalTree(r)
           h == Height(r)
           low == trees[Len(r.parent)]
<1>1. /\ SoundTree(w) /\ h \in Nat /\ h + Maturity \in Nat
      /\ \A a \in Account \ {r.miner} : w[a] = r.cache[a]
      /\ \A k \in Nat : k < h + Maturity /\ WaitsUpTo(r.cache, k) =>
            /\ WaitsUpTo(w, h + Maturity)
            /\ Supply(w) = Supply(r.cache) + Reward(h) + r.fees
  BY RewardedSound, ExecutionAssumption DEF Heights
<1>2. f = [a \in Account |-> IF a \in Touched(r) THEN PayOut(w[a], h) ELSE low[a]]
  BY DEF FinalTree
<1>3. SoundTree(low) /\ r.miner \in Touched(r)
  BY DEF Touched
<1> HIDE DEF w, f, low, h
<1>4. ASSUME NEW a \in Account
      PROVE  /\ Sound(PayOut(w[a], h)) /\ Value(PayOut(w[a], h)) = Value(w[a])
             /\ PayOut(w[a], h).maturing \subseteq w[a].maturing
  BY <1>1, PayOutSound DEF SoundTree
<1>5. SoundTree(f)
  <2>1. \A a \in Account : Sound(f[a])
    BY <1>2, <1>3, <1>4 DEF SoundTree
  <2>2. f \in Ledger
    BY <1>2, <2>1 DEF Ledger, Sound
  <2> QED
    BY <1>2, <2>1, <2>2 DEF SoundTree
<1>6. ASSUME NEW k \in Nat, k < h + Maturity, WaitsUpTo(r.cache, k), WaitsUpTo(low, k),
             \A a \in Account \ Touched(r) : Value(r.cache[a]) = Value(low[a])
      PROVE  /\ WaitsUpTo(f, h + Maturity)
             /\ Supply(f) = Supply(r.cache) + Reward(h) + r.fees
  <2>1. WaitsUpTo(w, h + Maturity) /\ Supply(w) = Supply(r.cache) + Reward(h) + r.fees
    BY <1>1, <1>6
  <2>2. ASSUME NEW a \in Account, NEW v \in f[a].maturing PROVE v.height <= h + Maturity
    <3>1. CASE a \in Touched(r)
      BY <1>2, <1>4, <2>1, <2>2, <3>1 DEF WaitsUpTo
    <3>2. CASE a \notin Touched(r)
      <4>1. v \in low[a].maturing
        BY <1>2, <2>2, <3>2
      <4>2. v.height <= k /\ v.height \in Nat
        BY <1>3, <1>6, <4>1 DEF WaitsUpTo, SoundTree, Sound, AccountState, MaturingReward
      <4> QED
        BY <1>1, <1>6, <4>2
    <3> QED
      BY <3>1, <3>2
  <2>3. ASSUME NEW a \in Account PROVE Value(f[a]) = Value(w[a])
    <3>1. CASE a \in Touched(r)
      BY <1>2, <1>4, <3>1
    <3>2. CASE a \notin Touched(r)
      BY <1>1, <1>2, <1>3, <1>6, <3>2
    <3> QED
      BY <3>1, <3>2
  <2>4. Supply(f) = Supply(w)
    BY <1>1, <1>5, <2>3, SameSupply
  <2> QED
    BY <2>1, <2>2, <2>4 DEF WaitsUpTo
<1> QED
  BY <1>5, <1>6 DEF f, h, low

---------------------------------------------------------------------------
\* Types: no balance goes below zero, and no sum of rewards is infinite.

RunSound(r) == RunTypeOK(r) /\ (r.pc = "tx" => SoundTree(r.cache))

TemplateSound(x) == x.root \in Ledger \cup {NoRoot} /\ x.calm \in BOOLEAN

TypeInv ==
    /\ TypeOK
    /\ TemplateSound(template)
    /\ \A h \in Heights : SoundTree(trees[h])
    /\ \A p \in Runner : RunSound(run[p])

LEMMA GenesisSound ==
    /\ SoundTree(Genesis)
    /\ WaitsUpTo(Genesis, Maturity)
    /\ Supply(Genesis) = Reward(0)
<1> DEFINE g == [a \in Account |-> Default]
           x == [amount |-> Reward(0), height |-> Maturity]
<1>1. 0 \in Heights /\ Reward(0) \in Nat /\ x \in MaturingReward /\ Founder \in Account
  BY ExecutionAssumption, RewardAssumption DEF Heights, MaturingReward
<1>2. IsFiniteSet({}) /\ IsFiniteSet({x})
  BY FS_EmptySet, FS_Singleton
<1>3. Genesis = [a \in Account |->
                    IF a = Founder THEN [btc_z |-> 0, nonce |-> 0, maturing |-> {x}]
                    ELSE [btc_z |-> 0, nonce |-> 0, maturing |-> {}]]
  BY DEF Genesis, Default
<1>h. x.height = Maturity /\ x.amount = Reward(0)
  OBVIOUS
<1> HIDE DEF x
<1>4. SoundTree(Genesis)
  <2>1. \A a \in Account : Sound(Genesis[a])
    BY <1>1, <1>2, <1>3 DEF Sound, AccountState
  <2> QED
    BY <1>3, <2>1 DEF SoundTree, Sound, Ledger
<1>5. SoundTree(g)
  BY <1>2 DEF SoundTree, Sound, Ledger, AccountState, Default
<1>6. Total({}) = 0 /\ Total({x}) = Reward(0)
  <2>1. Total({}) = 0
    <3>1. Total({}) = SumOver([r \in {} |-> r.amount], {})
      BY ZenonT(30) DEF Total, SumOver, MapThenSumSet, MapThenFoldSet
    <3> QED
      BY <3>1, SumOfNone
  <2>2. Total({} \cup {x}) = Total({}) + x.amount
    BY <1>1, <1>2, TotalOfParts
  <2>3. {} \cup {x} = {x}
    OBVIOUS
  <2> QED
    BY <1>1, <1>h, <2>1, <2>2, <2>3
<1>7. /\ Value(Genesis[Founder]) = Reward(0)
      /\ \A a \in Account : Value(g[a]) = 0
      /\ \A a \in Account \ {Founder} : Value(Genesis[a]) = Value(g[a])
  BY <1>1, <1>3, <1>6 DEF Value, Default
<1>8. Supply(Genesis) = Supply(g) - Value(g[Founder]) + Value(Genesis[Founder])
  <2> HIDE DEF g
  <2> QED
    BY <1>1, <1>4, <1>5, <1>7, SupplyMoves
<1>9. Supply(g) = 0
  <2> DEFINE z == [a \in Account |-> 0]
             v == [a \in Account |-> Value(g[a])]
             Q == {S \in SUBSET Account : SumOver(z, S) = 0}
  <2>1. {} \in Q
    BY SumOfNone
  <2>2. ASSUME NEW S \in SUBSET Account, NEW a \in Account \ S, S \in Q
        PROVE  S \cup {a} \in Q
    <3>1. IsFiniteSet(S) /\ (\A y \in S \cup {a} : z[y] \in Int) /\ z[a] = 0
      BY ExecutionAssumption, FS_Subset
    <3> HIDE DEF z
    <3>2. SumOver(z, S \cup {a}) = SumOver(z, S) + z[a]
      BY <3>1, SumOfOneMore
    <3> QED
      BY <2>2, <3>1, <3>2
  <2>3. Account \in Q
    <3>1. \A S \in SUBSET Account : \A a \in Account \ S : S \in Q => S \cup {a} \in Q
      BY <2>2
    <3>2. IsFiniteSet(Account)
      BY ExecutionAssumption
    <3> HIDE DEF Q
    <3>3. \A S \in SUBSET Account : S \in Q
      BY <2>1, <3>1, <3>2, SetInduction
    <3> QED
      BY <3>3
  <2>4. v = z
    BY <1>7
  <2>5. Supply(g) = SumOver(v, Account)
    BY <1>5, SupplyIs
  <2> QED
    BY <2>3, <2>4, <2>5
<1>10. WaitsUpTo(Genesis, Maturity)
  BY <1>3, <1>h, ExecutionAssumption DEF WaitsUpTo
<1> QED
  BY <1>1, <1>4, <1>7, <1>8, <1>9, <1>10

LEMMA InitTyped == Init => TypeInv
<1> SUFFICES ASSUME Init PROVE TypeInv
  OBVIOUS
<1>1. RunSound(Off)
  BY DEF RunSound, RunTypeOK, Off, NoRoot
<1>2. trees = [h \in Heights |-> Genesis] /\ Genesis \in Ledger /\ SoundTree(Genesis)
  BY GenesisSound DEF Init, SoundTree
<1>3. /\ chain = <<>> /\ Len(chain) = 0 /\ TemplateSound(template) /\ outcome = "none"
      /\ run = [p \in Runner |-> Off]
  BY DEF Init, NoTemplate, TemplateSound
<1> QED
  BY <1>1, <1>2, <1>3, ExecutionAssumption DEF TypeInv, TypeOK, Outcome, RunSound, TemplateSound

\* A step that changes one run and leaves the ledger alone.
LEMMA RunTyped ==
    ASSUME IInv, TypeInv, NEW p \in Runner, NEW s, RunSound(s),
           run' = [run EXCEPT ![p] = s], UNCHANGED <<chain, trees>>,
           TemplateSound(template'), outcome' \in Outcome
    PROVE  TypeInv'
<1>1. DOMAIN run = Runner
  BY DEF IInv, ShapeInv
<1>2. \A q \in Runner : RunSound(run'[q])
  BY <1>1 DEF TypeInv
<1>3. \A q \in Runner : RunTypeOK(run'[q])
  BY <1>2 DEF RunSound
<1> QED
  BY <1>2, <1>3 DEF TypeInv, TypeOK, TemplateSound

LEMMA StartedSound ==
    ASSUME IInv, TypeInv, NEW m \in Account, NEW txs \in Seq(Transaction),
           NEW root \in Ledger \cup {NoRoot}, NEW calm \in BOOLEAN
    PROVE  RunSound(Started(m, txs, root, calm))
BY DEF TypeInv, TypeOK, Started, Off, RunSound, RunTypeOK

LEMMA OffSound ==
    ASSUME IInv, TypeInv
    PROVE  RunSound(Off) /\ RunSound(Disturb(run["sim"]))
<1>1. RunSound(Off)
  BY DEF RunSound, RunTypeOK, Off, NoRoot
<1>2. RunSound(run["sim"]) /\ DOMAIN run["sim"] = DOMAIN Off
  BY DEF TypeInv, Runner, IInv, ShapeInv, RunShape
<1>3. RunSound(Disturb(run["sim"]))
  BY <1>2 DEF RunSound, RunTypeOK, Disturb, Off
<1> QED
  BY <1>1, <1>3

LEMMA PrefetchTyped ==
    ASSUME IInv, TypeInv, NEW p \in Runner, Prefetch(p)
    PROVE  TypeInv'
<1> DEFINE c == [a \in Account |-> GetAccountState(a)]
           s == [run[p] EXCEPT !.pc = "tx", !.cache = c]
<1>1. SoundTree(c)
  <2>1. \A a \in Account : Sound(c[a])
    <3>1. Len(chain) \in Heights
      BY ExecutionAssumption DEF IInv, ShapeInv, Heights
    <3> QED
      BY <3>1, PayOutSound DEF TypeInv, SoundTree, GetAccountState
  <2> QED
    BY <2>1 DEF SoundTree, Sound, Ledger
<1>2. /\ RunSound(run[p]) /\ DOMAIN run[p] = DOMAIN Off
      /\ run' = [run EXCEPT ![p] = s]
  BY DEF TypeInv, IInv, ShapeInv, RunShape, Prefetch
<1> HIDE DEF c
<1>3. RunSound(s)
  BY <1>1, <1>2 DEF RunSound, RunTypeOK, Off, SoundTree
<1>4. TemplateSound(template') /\ outcome' \in Outcome /\ UNCHANGED <<chain, trees>>
  BY DEF Prefetch, TypeInv, TypeOK
<1> HIDE DEF s
<1> QED
  BY <1>2, <1>3, <1>4, RunTyped

LEMMA TakeTxTyped ==
    ASSUME IInv, TypeInv, NEW p \in Runner, TakeTx(p)
    PROVE  /\ TypeInv'
           /\ LET r == run[p]
                  t == Current(r)
                  s == run'[p]
              IN  /\ t \in Transaction /\ r.kept \in Seq(Transaction)
                  /\ SoundTree(r.cache) /\ Payable(r.cache, t)
                  /\ IsTransfer(t) => t.sender \in Account
                  /\ s.pc = "tx" /\ s.kept = Append(r.kept, t) /\ s.parent = r.parent
                  /\ s.cache = Transfer(r.cache, t)
                  /\ s.fees = r.fees + FeesOf(r.cache, t)
                  /\ s.deducted = r.deducted + Spend(r.cache, t)
                  /\ s.credited = r.credited + t.amount
<1> DEFINE r == run[p]
           t == Current(r)
           s == [r EXCEPT !.next = @ + 1, !.cache = Transfer(@, t),
                          !.fees = @ + FeesOf(r.cache, t),
                          !.deducted = @ + Spend(r.cache, t),
                          !.credited = @ + t.amount, !.kept = Append(@, t)]
<1>1. /\ RunSound(r) /\ r.pc = "tx" /\ r.next <= Len(r.txs) /\ DOMAIN r = DOMAIN Off
      /\ run' = [run EXCEPT ![p] = s] /\ DOMAIN run = Runner
  BY DEF TakeTx, TypeInv, IInv, ShapeInv, RunShape
<1>2. WellFormed(p, r.next, r.miner, t) /\ Payable(r.cache, t)
  BY DEF TakeTx, Executable
<1>3. t \in Transaction /\ t.amount \in Nat
  <2>1. t \in Transaction
    BY <1>1 DEF Current, RunSound, RunTypeOK
  <2> HIDE DEF t
  <2> QED
    BY <2>1 DEF Transaction
<1>4. IsTransfer(t) => t.sender \in Account
  BY <1>2, <1>3 DEF WellFormed, Transaction
<1>5. SoundTree(r.cache)
  BY <1>1 DEF RunSound
<1>6. /\ SoundTree(Transfer(r.cache, t))
      /\ Spend(r.cache, t) \in Nat /\ FeesOf(r.cache, t) \in Nat
  BY <1>2, <1>3, <1>4, <1>5, TransferSound
<1> HIDE DEF t
<1>7. /\ s.pc = "tx" /\ s.kept = Append(r.kept, t) /\ s.cache = Transfer(r.cache, t)
      /\ s.fees = r.fees + FeesOf(r.cache, t)
      /\ s.deducted = r.deducted + Spend(r.cache, t)
      /\ s.credited = r.credited + t.amount
      /\ s.miner = r.miner /\ s.txs = r.txs /\ s.parent = r.parent /\ s.next = r.next + 1
      /\ s.root = r.root /\ s.calm = r.calm
  BY <1>1 DEF Off
<1> HIDE DEF r, s
<1>8. RunSound(s)
  <2>1. /\ r.miner \in Account \cup {NoAccount} /\ r.txs \in Seq(Transaction)
        /\ r.parent \in Seq([miner : Account, txs : Seq(Transaction)])
        /\ r.next \in Nat \ {0} /\ r.fees \in Nat /\ r.deducted \in Nat /\ r.credited \in Nat
        /\ r.kept \in Seq(Transaction) /\ r.root \in Ledger \cup {NoRoot} /\ r.calm \in BOOLEAN
    BY <1>1 DEF RunSound, RunTypeOK
  <2>2. /\ s.fees \in Nat /\ s.deducted \in Nat /\ s.credited \in Nat /\ s.next \in Nat \ {0}
    <3> DEFINE x == Spend(r.cache, t)
               f == FeesOf(r.cache, t)
    <3>1. x \in Nat /\ f \in Nat /\ s.fees = r.fees + f /\ s.deducted = r.deducted + x
      BY <1>6, <1>7
    <3> HIDE DEF x, f
    <3>2. s.fees \in Nat /\ s.deducted \in Nat
      BY SMTT(30), <2>1, <3>1
    <3>3. s.credited \in Nat
      BY <1>3, <1>7, <2>1
    <3>4. s.next \in Nat \ {0}
      BY <1>7, <2>1
    <3> QED
      BY <3>2, <3>3, <3>4
  <2>3. s.kept \in Seq(Transaction) /\ s.cache \in Ledger /\ SoundTree(s.cache)
    BY <1>3, <1>6, <1>7, <2>1 DEF SoundTree
  <2> QED
    BY <1>7, <2>1, <2>2, <2>3 DEF RunSound, RunTypeOK
<1>9. TemplateSound(template') /\ outcome' \in Outcome /\ UNCHANGED <<chain, trees>>
  BY DEF TakeTx, TypeInv, TypeOK
<1>10. TypeInv'
  BY <1>1, <1>8, <1>9, RunTyped
<1>11. run'[p] = s /\ r.kept \in Seq(Transaction)
  BY <1>1 DEF RunSound, RunTypeOK
<1> QED
  BY <1>2, <1>3, <1>4, <1>5, <1>7, <1>10, <1>11 DEF r, t

\* The tree of a finished run.
LEMMA FinalTyped ==
    ASSUME IInv, TypeInv, NEW p \in Runner, Finished(p)
    PROVE  /\ SoundTree(FinalTree(run[p])) /\ Height(run[p]) \in Heights
           /\ SoundTree(run[p].cache) /\ SoundTree(trees[Len(run[p].parent)])
           /\ run[p].miner \in Account /\ run[p].fees \in Nat
           /\ run[p].kept \in Seq(Transaction)
<1> DEFINE r == run[p]
<1>1. /\ RunSound(r) /\ r.pc = "tx" /\ RunShape(r)
  BY DEF Finished, TypeInv, IInv, ShapeInv
<1> HIDE DEF r
<1>2. /\ SoundTree(r.cache) /\ r.miner \in Account /\ r.fees \in Nat
      /\ Len(r.parent) \in Nat /\ Len(r.parent) < MaxHeight /\ r.kept \in Seq(Transaction)
  BY <1>1 DEF RunSound, RunTypeOK, RunShape
<1>3. Height(r) \in Heights /\ Len(r.parent) \in Heights
  BY <1>2, ExecutionAssumption DEF Height, Heights
<1>4. SoundTree(trees[Len(r.parent)])
  BY <1>3 DEF TypeInv
<1>5. SoundTree(FinalTree(r))
  BY <1>2, <1>3, <1>4, FinalSound
<1> QED
  BY <1>2, <1>3, <1>4, <1>5 DEF r

LEMMA SealBlockTyped ==
    ASSUME IInv, TypeInv, SealBlock
    PROVE  TypeInv'
<1> DEFINE r == run["exec"]
           tree == FinalTree(r)
           new == [miner |-> r.miner, txs |-> r.kept]
<1>1. /\ SoundTree(tree) /\ Height(r) \in Heights /\ r.miner \in Account
      /\ r.kept \in Seq(Transaction)
  BY FinalTyped DEF SealBlock, Runner
<1>2. TemplateSound(template')
  BY DEF SealBlock, TypeInv, TypeOK
<1>3. CASE /\ run' = [run EXCEPT !["exec"] = Off] /\ UNCHANGED <<chain, trees>>
           /\ outcome' \in {"toxic", "mismatch"}
  <2>1. outcome' \in Outcome
    BY <1>3 DEF Outcome
  <2> QED
    BY <1>2, <1>3, <2>1, OffSound, RunTyped DEF Runner
<1>4. CASE /\ run' = [run EXCEPT !["exec"] = Off, !["sim"] = Disturb(@)]
           /\ chain' = Append(chain, new)
           /\ trees' = [trees EXCEPT ![Height(r)] = tree]
           /\ outcome' = "committed"
  <2>1. IInv'
    BY SealBlockStep
  <2>2. chain' \in Seq([miner : Account, txs : Seq(Transaction)]) /\ Len(chain') <= MaxHeight
    BY <2>1 DEF IInv, ShapeInv, Blocks
  <2> HIDE DEF tree
  <2>3. /\ trees' \in [Heights -> Ledger]
        /\ \A h \in Heights : SoundTree(trees'[h])
    <3>1. trees \in [Heights -> Ledger] /\ \A h \in Heights : SoundTree(trees[h])
      BY DEF TypeInv, TypeOK
    <3>2. tree \in Ledger
      BY <1>1 DEF SoundTree
    <3> QED
      BY <1>1, <1>4, <3>1, <3>2
  <2>4. \A q \in Runner : RunSound(run'[q])
    <3>1. run'["exec"] = Off /\ run'["sim"] = Disturb(run["sim"])
      BY <1>4 DEF IInv, ShapeInv, Runner
    <3> QED
      BY <3>1, OffSound DEF Runner
  <2>5. \A q \in Runner : RunTypeOK(run'[q])
    BY <2>4 DEF RunSound
  <2>6. outcome' \in Outcome
    BY <1>4 DEF Outcome
  <2> QED
    BY <1>2, <2>2, <2>3, <2>4, <2>5, <2>6 DEF TypeInv, TypeOK, TemplateSound
<1>5. QED
  BY <1>3, <1>4 DEF SealBlock

LEMMA NextKeepsTypes == IInv /\ TypeInv /\ [Next]_vars => TypeInv'
<1> SUFFICES ASSUME IInv, TypeInv, [Next]_vars PROVE TypeInv'
  OBVIOUS
<1>0. /\ TemplateSound(template) /\ outcome \in Outcome
      /\ {"none", "refused", "invalid"} \subseteq Outcome
  BY DEF TypeInv, TypeOK, Outcome
<1>1. ASSUME NEW m \in Account, NEW txs \in Body, ReceiveBlock(m, txs) PROVE TypeInv'
  <2>1. txs \in Seq(Transaction) /\ NoRoot \in Ledger \cup {NoRoot}
    BY ExecutionAssumption
  <2>2. RunSound(Started(m, txs, NoRoot, TRUE))
    BY <2>1, StartedSound
  <2>3. "exec" \in Runner
    BY DEF Runner
  <2> QED
    BY <1>0, <1>1, <2>2, <2>3, RunTyped DEF ReceiveBlock
<1>2. ASSUME NEW m \in Wallet, NEW pool \in Pool, BuildTemplate(m, pool) PROVE TypeInv'
  <2>1. m \in Account /\ pool \in Seq(Transaction) /\ NoRoot \in Ledger \cup {NoRoot}
    BY ExecutionAssumption
  <2>2. Coinbase(m) \in Transaction
    BY <2>1 DEF Coinbase, Transaction
  <2>3. <<Coinbase(m)>> \o pool \in Seq(Transaction)
    BY <2>1, <2>2
  <2>4. RunSound(Started(m, <<Coinbase(m)>> \o pool, NoRoot, TRUE))
    BY <2>1, <2>3, StartedSound
  <2>5. "sim" \in Runner
    BY DEF Runner
  <2> QED
    BY <1>0, <1>2, <2>4, <2>5, RunTyped DEF BuildTemplate
<1>3. CASE SubmitTemplate
  <2>1. CASE template.parent = chain
    <3>1. /\ template.miner \in Account /\ template.txs \in Seq(Transaction)
          /\ "exec" \in Runner
      BY <1>3 DEF SubmitTemplate, IInv, ShapeInv, Runner
    <3>2. RunSound(Started(template.miner, template.txs, template.root, template.calm))
      BY <1>0, <3>1, StartedSound DEF TemplateSound
    <3> QED
      BY <1>0, <1>3, <2>1, <3>1, <3>2, RunTyped DEF SubmitTemplate
  <2>2. CASE template.parent # chain
    <3>1. run' = run /\ chain' = chain /\ trees' = trees /\ template' = template
          /\ outcome' = "refused"
      BY <1>3, <2>2 DEF SubmitTemplate
    <3> QED
      BY <1>0, <3>1 DEF TypeInv, TypeOK, TemplateSound
  <2> QED
    BY <2>1, <2>2
<1>4. ASSUME NEW p \in Runner, Prefetch(p) PROVE TypeInv'
  BY <1>4, PrefetchTyped
<1>5. ASSUME NEW p \in Runner, TakeTx(p) PROVE TypeInv'
  BY <1>5, TakeTxTyped
<1>6. CASE SkipTx
  <2>1. /\ RunSound(run["sim"]) /\ DOMAIN run["sim"] = DOMAIN Off /\ "sim" \in Runner
    BY DEF TypeInv, IInv, ShapeInv, RunShape, Runner
  <2>2. RunSound(Skipped(run["sim"]))
    BY <2>1 DEF RunSound, RunTypeOK, Skipped, Off
  <2>3. run' = [run EXCEPT !["sim"] = Skipped(run["sim"])]
    BY <1>6 DEF SkipTx
  <2> QED
    BY <1>0, <1>6, <2>1, <2>2, <2>3, RunTyped DEF SkipTx
<1>7. CASE RejectBlock
  BY <1>0, <1>7, OffSound, RunTyped DEF RejectBlock, Runner
<1>8. CASE SealBlock
  BY <1>8, SealBlockTyped
<1>9. CASE SealTemplate
  <2>1. FinalTree(run["sim"]) \in Ledger
    BY <1>9, FinalTyped DEF SealTemplate, Runner, SoundTree
  <2>2. TemplateSound(template')
    <3>1. RunSound(run["sim"])
      BY DEF TypeInv, Runner
    <3>2. run["sim"].calm \in BOOLEAN
      BY <3>1 DEF RunSound, RunTypeOK
    <3> QED
      BY <1>0, <1>9, <2>1, <3>2 DEF SealTemplate, TemplateSound
  <2> QED
    BY <1>0, <1>9, <2>2, OffSound, RunTyped DEF SealTemplate, Runner
<1>10. CASE RollBack
  <2>1. IInv'
    BY <1>10, RollBackStep
  <2>2. chain' \in Seq([miner : Account, txs : Seq(Transaction)]) /\ Len(chain') <= MaxHeight
    BY <2>1 DEF IInv, ShapeInv, Blocks
  <2>3. \A q \in Runner : RunSound(run'[q])
    <3>1. run'["exec"] = run["exec"] /\ run'["sim"] = Disturb(run["sim"])
      BY <1>10 DEF RollBack, IInv, ShapeInv, Runner
    <3> QED
      BY <3>1, OffSound DEF Runner, TypeInv
  <2>4. \A q \in Runner : RunTypeOK(run'[q])
    BY <2>3 DEF RunSound
  <2> QED
    BY <1>0, <1>10, <2>2, <2>3, <2>4 DEF RollBack, TypeInv, TypeOK, TemplateSound
<1>11. CASE UNCHANGED vars
  BY <1>11 DEF vars, TypeInv, TypeOK, TemplateSound
<1> QED
  BY <1>1, <1>2, <1>3, <1>4, <1>5, <1>6, <1>7, <1>8, <1>9, <1>10, <1>11 DEF Next


\* Every balance, in a tree or in the cache of an execution, is a natural number in
\* every reachable state: the saturating debit of a transfer (lib.rs:1121) never saturates.
THEOREM BalancesAreNatural == Spec => []TypeOK
<1>1. Spec => []TypeInv
  BY InitTyped, NextKeepsTypes, Invariance, PTL DEF Spec
<1>2. TypeInv => TypeOK
  BY DEF TypeInv
<1> QED
  BY <1>1, <1>2, PTL

---------------------------------------------------------------------------
\* The supply: what the trees of the chain hold is what was minted up to their heights.

\* What an execution has moved so far, against the tree it works on.
Audited(r, low, n) ==
    /\ WaitsUpTo(r.cache, n + Maturity)
    /\ Supply(r.cache) + r.deducted = Supply(low) + r.credited
    /\ \A a \in Account \ Named(r.kept) : Value(r.cache[a]) = Value(low[a])

SupplyInv ==
    LET r == run["exec"]
        n == Len(chain)
    IN  /\ \A h \in 0 .. n : WaitsUpTo(trees[h], h + Maturity) /\ Supply(trees[h]) = Minted(h)
        /\ r.pc = "read" => r.deducted = 0 /\ r.credited = 0
        /\ r.pc = "tx" => Audited(r, trees[n], n)

LEMMA InitSupply == Init => SupplyInv
<1> SUFFICES ASSUME Init PROVE SupplyInv
  OBVIOUS
<1>1. Len(chain) = 0 /\ 0 \in Heights /\ trees[0] = Genesis /\ run["exec"].pc = "off"
  BY ExecutionAssumption DEF Init, Heights, Off, Runner
<1>2. 0 + Maturity = Maturity /\ Minted(0) = Reward(0)
  BY <1>1, ExecutionAssumption, MintedNext
<1> QED
  BY <1>1, <1>2, GenesisSound DEF SupplyInv

\* A step that leaves the ledger and the execution of a received block alone.
LEMMA SupplyKept ==
    ASSUME SupplyInv, UNCHANGED <<chain, trees, run["exec"]>>
    PROVE  SupplyInv'
BY DEF SupplyInv, Audited, WaitsUpTo

LEMMA SupplyOffOrRead ==
    ASSUME SupplyInv, UNCHANGED <<chain, trees>>,
           \/ run'["exec"].pc = "off"
           \/ run'["exec"].pc = "read" /\ run'["exec"].deducted = 0 /\ run'["exec"].credited = 0
    PROVE  SupplyInv'
BY DEF SupplyInv, WaitsUpTo

LEMMA PrefetchSupply ==
    ASSUME IInv, TypeInv, SupplyInv, Prefetch("exec")
    PROVE  SupplyInv'
<1> DEFINE r == run["exec"]
           s == run'["exec"]
           n == Len(chain)
           low == trees[n]
           c == [a \in Account |-> PayOut(low[a], n)]
<1>1. /\ DOMAIN r = DOMAIN Off /\ r.pc = "read" /\ r.kept = <<>> /\ n \in Heights
      /\ r.deducted = 0 /\ r.credited = 0
      /\ chain' = chain /\ trees' = trees
      /\ SoundTree(low) /\ WaitsUpTo(low, n + Maturity)
  <2>1. n \in Heights /\ n \in 0 .. n
    BY ExecutionAssumption DEF IInv, ShapeInv, Heights
  <2> QED
    BY <2>1 DEF Prefetch, IInv, ShapeInv, RunShape, ExecInv, Runner, TypeInv, SupplyInv
<1>2. s.pc = "tx" /\ s.cache = c /\ s.kept = <<>> /\ s.deducted = 0 /\ s.credited = 0
  BY <1>1 DEF Prefetch, IInv, ShapeInv, Runner, Off, GetAccountState
<1> HIDE DEF low
<1>3. /\ \A a \in Account : /\ Sound(c[a]) /\ Value(c[a]) = Value(low[a])
                            /\ c[a].maturing \subseteq low[a].maturing
  BY <1>1, PayOutSound DEF SoundTree
<1>c. c = [a \in Account |-> c[a]]
  OBVIOUS
<1> HIDE DEF c
<1>4. SoundTree(c)
  BY <1>3, <1>c DEF SoundTree, Sound, Ledger
<1>5. Supply(c) = Supply(low) /\ Supply(low) \in Nat
  BY <1>1, <1>3, <1>4, SameSupply, SupplyIs
<1>6. WaitsUpTo(c, n + Maturity)
  BY <1>1, <1>3 DEF WaitsUpTo
<1>7. Audited(s, low, n)
  BY <1>2, <1>3, <1>5, <1>6 DEF Audited
<1>8. \A h \in 0 .. n : WaitsUpTo(trees[h], h + Maturity) /\ Supply(trees[h]) = Minted(h)
  BY DEF SupplyInv
<1> QED
  BY <1>1, <1>2, <1>7, <1>8 DEF SupplyInv, low

LEMMA TakeTxSupply ==
    ASSUME IInv, TypeInv, SupplyInv, TakeTx("exec")
    PROVE  SupplyInv'
<1> DEFINE r == run["exec"]
           s == run'["exec"]
           n == Len(chain)
           low == trees[n]
           t == Current(r)
           d == Transfer(r.cache, t)
<1>1. /\ t \in Transaction /\ r.kept \in Seq(Transaction) /\ SoundTree(r.cache)
      /\ Payable(r.cache, t) /\ (IsTransfer(t) => t.sender \in Account)
      /\ s.pc = "tx" /\ s.kept = Append(r.kept, t) /\ s.cache = d
      /\ s.deducted = r.deducted + Spend(r.cache, t)
      /\ s.credited = r.credited + t.amount
  BY TakeTxTyped DEF Runner
<1>2. /\ r.pc = "tx" /\ chain' = chain /\ trees' = trees /\ Audited(r, low, n)
      /\ n \in Heights /\ SoundTree(low) /\ r.deducted \in Nat /\ r.credited \in Nat
  <2>1. n \in Heights
    BY ExecutionAssumption DEF IInv, ShapeInv, Heights
  <2>2. RunTypeOK(r)
    BY DEF TypeInv, RunSound, Runner
  <2> QED
    BY <2>1, <2>2 DEF TakeTx, SupplyInv, TypeInv, RunTypeOK
<1>3. /\ SoundTree(d) /\ Spend(r.cache, t) \in Nat
      /\ Supply(d) = Supply(r.cache) - Spend(r.cache, t) + t.amount
      /\ \A a \in Account : /\ d[a].maturing = r.cache[a].maturing
                            /\ a \notin {t.sender, t.receiver} => d[a] = r.cache[a]
  BY <1>1, TransferSound
<1>4. t.amount \in Nat
  <2> HIDE DEF t
  <2> QED
    BY <1>1 DEF Transaction
<1> HIDE DEF d, t, r, s, low, n
<1>5. WaitsUpTo(s.cache, n + Maturity)
  BY <1>1, <1>2, <1>3 DEF WaitsUpTo, Audited
<1>6. Supply(s.cache) + s.deducted = Supply(low) + s.credited
  <2>1. Supply(r.cache) \in Nat /\ Supply(low) \in Nat
    BY <1>1, <1>2, SupplyIs
  <2> DEFINE x == Spend(r.cache, t)
  <2>2. x \in Nat /\ Supply(d) = Supply(r.cache) - x + t.amount /\ s.deducted = r.deducted + x
    BY <1>1, <1>3
  <2>3. Supply(r.cache) + r.deducted = Supply(low) + r.credited
    BY <1>2 DEF Audited
  <2> HIDE DEF x
  <2> QED
    <3>1. Supply(s.cache) = Supply(r.cache) - x + t.amount
      BY <1>1, <2>2
    <3>2. r.deducted \in Nat /\ r.credited \in Nat /\ s.credited = r.credited + t.amount
      BY <1>1, <1>2
    <3> QED
      BY <1>4, <2>1, <2>2, <2>3, <3>1, <3>2
<1>7. ASSUME NEW a \in Account \ Named(s.kept) PROVE Value(s.cache[a]) = Value(low[a])
  <2>1. /\ Len(s.kept) = Len(r.kept) + 1 /\ s.kept[Len(r.kept) + 1] = t
        /\ \A i \in 1 .. Len(r.kept) : s.kept[i] = r.kept[i]
        /\ Len(r.kept) \in Nat
    BY <1>1
  <2>2. a \notin {t.sender, t.receiver}
    <3>1. Len(r.kept) + 1 \in 1 .. Len(s.kept)
      BY <2>1
    <3> QED
      BY <1>7, <2>1, <3>1 DEF Named
  <2>3. a \notin Named(r.kept)
    <3>1. \A i \in 1 .. Len(r.kept) : i \in 1 .. Len(s.kept)
      BY <2>1
    <3> QED
      BY <1>7, <2>1, <3>1 DEF Named
  <2> QED
    BY <1>1, <1>2, <1>3, <2>2, <2>3 DEF Audited
<1>8. Audited(s, low, n)
  BY <1>5, <1>6, <1>7 DEF Audited
<1>9. \A h \in 0 .. n : WaitsUpTo(trees[h], h + Maturity) /\ Supply(trees[h]) = Minted(h)
  BY DEF SupplyInv, n
<1> QED
  BY <1>1, <1>2, <1>8, <1>9 DEF SupplyInv, low, n, s

LEMMA SealBlockSupply ==
    ASSUME IInv, TypeInv, SupplyInv, SealBlock
    PROVE  SupplyInv'
<1> DEFINE r == run["exec"]
           tree == FinalTree(r)
           n == Len(chain)
           new == [miner |-> r.miner, txs |-> r.kept]
<1>1. CASE run' = [run EXCEPT !["exec"] = Off] /\ UNCHANGED <<chain, trees>>
  <2>1. run'["exec"].pc = "off"
    BY <1>1 DEF IInv, ShapeInv, Runner, Off
  <2> QED
    BY <1>1, <2>1, SupplyOffOrRead
<1>2. CASE /\ Conserved(r)
           /\ run' = [run EXCEPT !["exec"] = Off, !["sim"] = Disturb(@)]
           /\ chain' = Append(chain, new)
           /\ trees' = [trees EXCEPT ![Height(r)] = tree]
  <2>1. /\ r.pc = "tx" /\ r.parent = chain /\ n < MaxHeight /\ n \in Nat
        /\ chain \in Seq(Blocks) /\ DOMAIN trees = Heights
    BY DEF SealBlock, Finished, IInv, ShapeInv, ExecInv, RunShape, Runner
  <2>2. Height(r) = n + 1
    BY <2>1 DEF Height
  <2>3. /\ SoundTree(tree) /\ n + 1 \in Heights /\ n \in Heights /\ SoundTree(r.cache)
        /\ SoundTree(trees[n]) /\ r.miner \in Account /\ r.fees \in Nat
    <3>1. Finished("exec") /\ "exec" \in Runner
      BY DEF SealBlock, Runner
    <3> QED
      <4>1. n + 1 \in Heights /\ n \in Heights
        BY <2>1, ExecutionAssumption DEF Heights
      <4>2. /\ SoundTree(tree) /\ SoundTree(r.cache) /\ SoundTree(trees[Len(r.parent)])
            /\ r.miner \in Account /\ r.fees \in Nat
        BY <3>1, FinalTyped
      <4> QED
        BY <2>1, <4>1, <4>2
  <2>4. Audited(r, trees[n], n) /\ Supply(trees[n]) = Minted(n) /\ WaitsUpTo(trees[n], n + Maturity)
    BY <2>1 DEF SupplyInv
  <2>5. ASSUME NEW a \in Account \ Touched(r) PROVE Value(r.cache[a]) = Value(trees[n][a])
    <3>1. a \notin Named(r.kept)
      BY <2>5, ExecutionAssumption DEF Touched, Named
    <3> QED
      BY <2>4, <3>1 DEF Audited
  <2>6. /\ WaitsUpTo(tree, n + 1 + Maturity)
        /\ Supply(tree) = Supply(r.cache) + Reward(n + 1) + r.fees
    <3>1. n + Maturity \in Nat /\ n + Maturity < Height(r) + Maturity
      BY <2>1, <2>2, ExecutionAssumption
    <3>2. WaitsUpTo(r.cache, n + Maturity)
      BY <2>4 DEF Audited
    <3> HIDE DEF r, tree, n
    <3>3. Len(r.parent) = n
      BY <2>1 DEF n
    <3> QED
      BY <2>2, <2>3, <2>4, <2>5, <3>1, <3>2, <3>3, FinalSound DEF tree
  <2>7. Supply(tree) = Minted(n + 1)
    <3>1. RunTypeOK(r)
      BY DEF TypeInv, RunSound, Runner
    <3>2. r.deducted \in Nat /\ r.credited \in Nat
      BY <3>1 DEF RunTypeOK
    <3>3. Supply(r.cache) + r.deducted = Supply(trees[n]) + r.credited /\ r.deducted = r.credited + r.fees
      BY <1>2, <2>4 DEF Audited, Conserved
    <3>4. Minted(n + 1) = Minted(n) + Reward(n + 1) /\ Minted(n) \in Nat /\ Reward(n + 1) \in Nat
      BY <2>3, MintedNext, RewardAssumption
    <3>5. Supply(r.cache) \in Nat
      BY <2>3, SupplyIs
    <3> HIDE DEF r, tree, n
    <3> QED
      BY <2>3, <2>4, <2>6, <3>2, <3>3, <3>4, <3>5
  <2>8. Len(chain') = n + 1
    BY <1>2, <2>1
  <2>9. trees'[n + 1] = tree /\ \A h \in 0 .. n : trees'[h] = trees[h]
    <3> HIDE DEF tree, n
    <3> QED
      BY <1>2, <2>1, <2>2, <2>3 DEF Heights
  <2>10. run'["exec"].pc = "off"
    BY <1>2 DEF IInv, ShapeInv, Runner, Off
  <2>11. ASSUME NEW h \in 0 .. n + 1
         PROVE  WaitsUpTo(trees'[h], h + Maturity) /\ Supply(trees'[h]) = Minted(h)
    <3>1. CASE h \in 0 .. n
      BY <2>9, <3>1 DEF SupplyInv
    <3>2. CASE h = n + 1
      BY <2>6, <2>7, <2>9, <3>2
    <3> QED
      BY <2>1, <3>1, <3>2
  <2> HIDE DEF n
  <2> QED
    BY <2>8, <2>10, <2>11 DEF SupplyInv, WaitsUpTo
<1> QED
  BY <1>1, <1>2 DEF SealBlock

LEMMA NextKeepsSupply == IInv /\ TypeInv /\ SupplyInv /\ [Next]_vars => SupplyInv'
<1> SUFFICES ASSUME IInv, TypeInv, SupplyInv, [Next]_vars PROVE SupplyInv'
  OBVIOUS
<1>0. DOMAIN run = Runner /\ "exec" \in Runner /\ "sim" \in Runner
  BY DEF IInv, ShapeInv, Runner
<1>1. ASSUME NEW m \in Account, NEW txs \in Body, ReceiveBlock(m, txs) PROVE SupplyInv'
  BY <1>0, <1>1, SupplyOffOrRead DEF ReceiveBlock, Started, Off
<1>2. ASSUME NEW m \in Wallet, NEW pool \in Pool, BuildTemplate(m, pool) PROVE SupplyInv'
  BY <1>0, <1>2, SupplyKept DEF BuildTemplate
<1>3. CASE SubmitTemplate
  <2>1. CASE template.parent = chain
    BY ZenonT(30), <1>0, <1>3, <2>1, SupplyOffOrRead DEF SubmitTemplate, Started, Off
  <2>2. CASE template.parent # chain
    BY <1>3, <2>2, SupplyKept DEF SubmitTemplate
  <2> QED
    BY <2>1, <2>2
<1>4. ASSUME NEW p \in Runner, Prefetch(p) PROVE SupplyInv'
  <2>1. CASE p = "exec"
    BY <1>4, <2>1, PrefetchSupply
  <2>2. CASE p = "sim"
    BY <1>0, <1>4, <2>2, SupplyKept DEF Prefetch
  <2> QED
    BY <2>1, <2>2 DEF Runner
<1>5. ASSUME NEW p \in Runner, TakeTx(p) PROVE SupplyInv'
  <2>1. CASE p = "exec"
    BY <1>5, <2>1, TakeTxSupply
  <2>2. CASE p = "sim"
    BY <1>0, <1>5, <2>2, SupplyKept DEF TakeTx
  <2> QED
    BY <2>1, <2>2 DEF Runner
<1>6. CASE SkipTx
  BY <1>0, <1>6, SupplyKept DEF SkipTx
<1>7. CASE RejectBlock
  BY <1>0, <1>7, SupplyOffOrRead DEF RejectBlock, Off
<1>8. CASE SealBlock
  BY <1>8, SealBlockSupply
<1>9. CASE SealTemplate
  BY <1>0, <1>9, SupplyKept DEF SealTemplate
<1>10. CASE RollBack
  <2>1. chain \in Seq(Blocks) /\ chain # <<>>
    BY <1>10 DEF RollBack, IInv, ShapeInv
  <2>2. Len(chain) \in Nat /\ Len(chain) > 0
    BY <2>1
  <2>3. Len(SubSeq(chain, 1, Len(chain) - 1)) = Len(chain) - 1
    <3>1. Len(chain) - 1 \in 0 .. Len(chain)
      BY <2>2
    <3> QED
      BY <2>1, <3>1, Prefix
  <2>4. 0 .. Len(chain') \subseteq 0 .. Len(chain) /\ trees' = trees /\ run'["exec"].pc = "off"
    BY <1>0, <1>10, <2>2, <2>3 DEF RollBack
  <2> QED
    BY <2>4 DEF SupplyInv, WaitsUpTo
<1>11. CASE UNCHANGED vars
  BY <1>11, SupplyKept DEF vars
<1> QED
  BY <1>1, <1>2, <1>3, <1>4, <1>5, <1>6, <1>7, <1>8, <1>9, <1>10, <1>11 DEF Next

\* On every chain, at every height, the balances and the rewards still waiting add up
\* to what the emission schedule has minted: no transfer, creation charge, fee or
\* matured reward makes or loses a coin (the audit of lib.rs:1248 and the commit).
THEOREM NoCoinIsLost == Spec => []SupplyConserved
<1>1. SupplyInv => SupplyConserved
  BY DEF SupplyInv, SupplyConserved, Supply, Minted, Value
<1>2. Spec => []TypeInv
  BY InitTyped, NextKeepsTypes, Invariance, PTL DEF Spec
<1> QED
  BY <1>1, <1>2, InitSupply, NextKeepsSupply, Invariance, PTL DEF Spec

---------------------------------------------------------------------------
\* The builder and the executor agree: the sums of a run after a list of transactions
\* are determined by the tree it started from, a tree by the chain below it.

Start(low, n) ==
    [cache |-> [a \in Account |-> PayOut(low[a], n)], fees |-> 0, deducted |-> 0, credited |-> 0]

After(s, t) ==
    [cache |-> Transfer(s.cache, t), fees |-> s.fees + FeesOf(s.cache, t),
     deducted |-> s.deducted + Spend(s.cache, t), credited |-> s.credited + t.amount]

Tally(r) ==
    [cache |-> r.cache, fees |-> r.fees, deducted |-> r.deducted, credited |-> r.credited]

\* x lists the tallies before each transaction of txs and after the last.
Traces(x, txs, low, n) ==
    /\ x[1] = Start(low, n)
    /\ \A i \in 1 .. Len(txs) : x[i + 1] = After(x[i], txs[i])

\* x does so for the first k of them.
TracesTo(x, k, txs, low, n) ==
    /\ x[1] = Start(low, n)
    /\ \A i \in 1 .. k : x[i + 1] = After(x[i], txs[i])

\* Every transaction of txs passes the checks of an execution at its place.
Passes(x, txs, m, h) ==
    \A i \in 1 .. Len(txs) :
        WellFormed("sim", i, m, txs[i]) /\ Recent(txs[i], h) /\ Payable(x[i].cache, txs[i])

SignedOnly(txs) == \A i \in 1 .. Len(txs) : IsTransfer(txs[i]) => txs[i] \in Signed

Sealed(low, m, txs, s, h) ==
    LET touched == {m} \cup {txs[i].receiver : i \in 1 .. Len(txs)}
                       \cup ({txs[i].sender : i \in 1 .. Len(txs)} \ {NoAccount})
        paid == [s.cache EXCEPT ![m].maturing =
                    @ \cup {[amount |-> Reward(h) + s.fees, height |-> h + Maturity]}]
    IN  [a \in Account |-> IF a \in touched THEN PayOut(paid[a], h) ELSE low[a]]

\* ts are the trees a node has after executing the blocks of ch.
Built(ch, ts) ==
    /\ ts[0] = Genesis
    /\ \A b \in 1 .. Len(ch) : \E x :
          /\ Traces(x, ch[b].txs, ts[b - 1], b - 1)
          /\ ts[b] = Sealed(ts[b - 1], ch[b].miner, ch[b].txs, x[Len(ch[b].txs) + 1], b)

\* A block on ch that executes, to the announced root.
Promise(ch, txs, m, root) ==
    /\ SignedOnly(txs)
    /\ \E ts, x :
          LET n == Len(ch)
              last == x[Len(txs) + 1]
          IN  /\ Built(ch, ts)
              /\ Traces(x, txs, ts[n], n)
              /\ Passes(x, txs, m, n + 1)
              /\ last.deducted = last.credited + last.fees
              /\ root = Sealed(ts[n], m, txs, last, n + 1)

LEMMA FinalIsSealed ==
    ASSUME NEW r
    PROVE  FinalTree(r) = Sealed(trees[Len(r.parent)], r.miner, r.kept, Tally(r), Height(r))
BY DEF FinalTree, Sealed, Touched, Rewarded, Tally

\* The tallies of a list and a start are unique.
LEMMA OneTrace ==
    ASSUME NEW txs, NEW low, NEW n, NEW x, NEW y, NEW k \in Nat,
           Len(txs) \in Nat, k <= Len(txs), Traces(x, txs, low, n), TracesTo(y, k, txs, low, n)
    PROVE  \A i \in 0 .. k : x[i + 1] = y[i + 1]
<1> DEFINE Q == {i \in Nat : i <= k => x[i + 1] = y[i + 1]}
<1>1. 0 \in Q
  BY DEF Traces, TracesTo
<1>2. ASSUME NEW i \in Nat, i \in Q PROVE i + 1 \in Q
  <2>1. SUFFICES ASSUME i + 1 <= k PROVE x[i + 1 + 1] = y[i + 1 + 1]
    OBVIOUS
  <2>2. x[i + 1] = y[i + 1] /\ i + 1 \in 1 .. k /\ i + 1 \in 1 .. Len(txs)
    BY <1>2, <2>1
  <2> QED
    BY <2>2 DEF Traces, TracesTo
<1>3. Nat \subseteq Q
  <2> HIDE DEF Q
  <2> QED
    BY <1>1, <1>2, NumberInduction
<1> QED
  BY <1>3

\* A trace goes on with the next transaction.
LEMMA TraceGoesOn ==
    ASSUME NEW S, NEW txs \in Seq(S), NEW t \in S, NEW low, NEW n, NEW x, Traces(x, txs, low, n)
    PROVE  \E y : /\ Traces(y, Append(txs, t), low, n)
                  /\ \A i \in 1 .. Len(txs) + 1 : y[i] = x[i]
                  /\ y[Len(Append(txs, t)) + 1] = After(x[Len(txs) + 1], t)
<1> DEFINE k == Len(txs)
           u == Append(txs, t)
           y == [i \in 1 .. k + 2 |-> IF i <= k + 1 THEN x[i] ELSE After(x[k + 1], t)]
<1>1. /\ k \in Nat /\ Len(u) = k + 1 /\ u[k + 1] = t
      /\ \A i \in 1 .. k : u[i] = txs[i]
  OBVIOUS
<1>2. (\A i \in 1 .. k + 1 : y[i] = x[i]) /\ y[k + 2] = After(x[k + 1], t)
  BY <1>1
<1> HIDE DEF y, u
<1>3. y[1] = Start(low, n)
  BY <1>1, <1>2 DEF Traces
<1>4. ASSUME NEW i \in 1 .. k + 1 PROVE y[i + 1] = After(y[i], u[i])
  <2>1. CASE i \in 1 .. k
    <3>1. i + 1 \in 1 .. k + 1 /\ i \in 1 .. k + 1
      BY <1>1, <2>1
    <3> QED
      BY <1>1, <1>2, <2>1, <3>1 DEF Traces
  <2>2. CASE i = k + 1
    <3>1. i + 1 = k + 2
      BY <1>1, <2>2
    <3>2. y[i + 1] = After(x[k + 1], t) /\ y[i] = x[k + 1] /\ u[i] = t
      BY <1>1, <1>2, <2>2, <3>1
    <3> QED
      BY <2>2, <3>2
  <2> QED
    BY <1>1, <2>1, <2>2
<1>5. Traces(y, u, low, n)
  BY <1>1, <1>3, <1>4 DEF Traces
<1>6. k + 2 = Len(u) + 1
  BY <1>1
<1>7. y[Len(u) + 1] = After(x[k + 1], t)
  BY <1>2, <1>6
<1> QED
  BY <1>2, <1>5, <1>7 DEF u

\* Two nodes with the same chain have the same trees.
LEMMA OneLedger ==
    ASSUME NEW ch \in Seq(Blocks), NEW ts, NEW us, Built(ch, ts), Built(ch, us)
    PROVE  \A b \in 0 .. Len(ch) : ts[b] = us[b]
<1> DEFINE Q == {b \in Nat : b <= Len(ch) => ts[b] = us[b]}
<1>1. 0 \in Q
  BY DEF Built
<1>2. ASSUME NEW i \in Nat, i \in Q PROVE i + 1 \in Q
  <2>1. SUFFICES ASSUME i + 1 <= Len(ch) PROVE ts[i + 1] = us[i + 1]
    OBVIOUS
  <2> DEFINE b == i + 1
             txs == ch[b].txs
             low == ts[i]
  <2>2. b \in 1 .. Len(ch) /\ b - 1 = i /\ ts[i] = us[i]
    BY <1>2, <2>1
  <2>3. txs \in Seq(Transaction)
    <3>1. ch[b] \in Blocks
      BY <2>2
    <3> QED
      BY <3>1 DEF Blocks
  <2>4. PICK x : /\ Traces(x, txs, low, i)
                 /\ ts[b] = Sealed(low, ch[b].miner, txs, x[Len(txs) + 1], b)
    BY <2>2 DEF Built
  <2>5. PICK y : /\ Traces(y, txs, low, i)
                 /\ us[b] = Sealed(low, ch[b].miner, txs, y[Len(txs) + 1], b)
    BY <2>2 DEF Built
  <2> HIDE DEF b, txs, low
  <2>6. x[Len(txs) + 1] = y[Len(txs) + 1]
    <3>1. /\ Len(txs) \in Nat /\ Len(txs) <= Len(txs) /\ Len(txs) \in 0 .. Len(txs)
          /\ TracesTo(y, Len(txs), txs, low, i)
      BY <2>3, <2>5 DEF Traces, TracesTo
    <3> QED
      BY <2>3, <2>4, <3>1, OneTrace
  <2> QED
    BY <2>4, <2>5, <2>6 DEF b
<1>3. Nat \subseteq Q
  <2> HIDE DEF Q
  <2> QED
    BY <1>1, <1>2, NumberInduction
<1> QED
  BY <1>3


---------------------------------------------------------------------------
\* What ties the builder to the executor.

ExecAgree ==
    LET r == run["exec"]
        n == Len(chain)
    IN  /\ r.pc = "off" => r.root = NoRoot
        /\ r.pc = "read" => r.kept = <<>> /\ r.next = 1
                            /\ r.fees = 0 /\ r.deducted = 0 /\ r.credited = 0
        /\ r.root # NoRoot /\ r.calm => Promise(chain, r.txs, r.miner, r.root)
        /\ r.pc = "tx" =>
              /\ Len(r.kept) = r.next - 1 /\ r.next <= Len(r.txs) + 1
              /\ \A i \in 1 .. Len(r.kept) : r.kept[i] = r.txs[i]
              /\ \E x : Traces(x, r.kept, trees[n], n) /\ x[Len(r.kept) + 1] = Tally(r)

SimAgree ==
    LET r == run["sim"]
        n == Len(chain)
    IN  /\ r.pc # "off" =>
              /\ SignedOnly(r.txs) /\ Len(r.txs) > 0 /\ r.txs[1] = Coinbase(r.miner)
              /\ r.calm => r.parent = chain
        /\ r.pc = "read" => r.kept = <<>> /\ r.next = 1
                            /\ r.fees = 0 /\ r.deducted = 0 /\ r.credited = 0
        /\ r.pc = "tx" => SignedOnly(r.kept) /\ (r.next = 1 <=> Len(r.kept) = 0)
        /\ r.pc = "tx" /\ r.calm =>
              \E x : /\ Traces(x, r.kept, trees[n], n) /\ x[Len(r.kept) + 1] = Tally(r)
                     /\ Passes(x, r.kept, r.miner, n + 1)

TemplateAgree ==
    template.root # NoRoot /\ template.calm =>
        Promise(template.parent, template.txs, template.miner, template.root)

AgreeInv == Built(chain, trees) /\ ExecAgree /\ SimAgree /\ TemplateAgree

LEMMA InitAgree == Init => AgreeInv
<1> SUFFICES ASSUME Init PROVE AgreeInv
  OBVIOUS
<1>1. /\ Len(chain) = 0 /\ 0 \in Heights /\ trees[0] = Genesis
      /\ run["exec"] = Off /\ run["sim"] = Off /\ template = NoTemplate
  BY ExecutionAssumption DEF Init, Heights, Runner
<1>2. Built(chain, trees)
  BY <1>1 DEF Built
<1> QED
  BY <1>1, <1>2 DEF AgreeInv, ExecAgree, SimAgree, TemplateAgree, Off, NoTemplate

\* Which parts a step may disturb.
LEMMA ExecKept ==
    ASSUME ExecAgree, UNCHANGED <<chain, trees, run["exec"]>>
    PROVE  ExecAgree'
BY DEF ExecAgree

LEMMA SimKept ==
    ASSUME SimAgree, UNCHANGED <<chain, trees, run["sim"]>>
    PROVE  SimAgree'
BY DEF SimAgree

LEMMA OffAgrees ==
    ASSUME run'["exec"] = Off
    PROVE  ExecAgree'
BY DEF ExecAgree, Off

\* A dry run that the ledger moves under promises nothing.
LEMMA DisturbedAgrees ==
    ASSUME IInv, SimAgree, run'["sim"] = Disturb(run["sim"])
    PROVE  SimAgree'
<1> DEFINE r == run["sim"]
           s == Disturb(r)
<1>1. DOMAIN r = DOMAIN Off
  BY DEF IInv, ShapeInv, RunShape, Runner
<1>2. /\ s.pc = r.pc /\ s.txs = r.txs /\ s.miner = r.miner /\ s.parent = r.parent
      /\ s.kept = r.kept /\ s.next = r.next /\ s.fees = r.fees
      /\ s.deducted = r.deducted /\ s.credited = r.credited
      /\ s.calm = (r.calm /\ r.pc = "off")
  BY <1>1 DEF Disturb, Off
<1> HIDE DEF s
<1> QED
  BY <1>2 DEF SimAgree, s

LEMMA PrefetchAgrees ==
    ASSUME IInv, AgreeInv, NEW p \in Runner, Prefetch(p)
    PROVE  AgreeInv'
<1> DEFINE r == run[p]
           s == run'[p]
           n == Len(chain)
           low == trees[n]
           x == [i \in {1} |-> Start(low, n)]
<1>1. /\ DOMAIN r = DOMAIN Off /\ r.pc = "read" /\ DOMAIN run = Runner
      /\ chain' = chain /\ trees' = trees /\ template' = template
  BY DEF Prefetch, IInv, ShapeInv, RunShape
<1>2. /\ s = [r EXCEPT !.pc = "tx", !.cache = [a \in Account |-> PayOut(low[a], n)]]
      /\ \A q \in Runner : q # p => run'[q] = run[q]
  BY <1>1 DEF Prefetch, GetAccountState
<1>3. /\ s.pc = "tx" /\ s.cache = [a \in Account |-> PayOut(low[a], n)]
      /\ s.txs = r.txs /\ s.miner = r.miner /\ s.parent = r.parent
      /\ s.kept = r.kept /\ s.next = r.next /\ s.fees = r.fees
      /\ s.deducted = r.deducted /\ s.credited = r.credited /\ s.calm = r.calm /\ s.root = r.root
  BY <1>1, <1>2 DEF Off
<1>4. r.kept = <<>> /\ r.next = 1 /\ r.fees = 0 /\ r.deducted = 0 /\ r.credited = 0
  BY <1>1 DEF AgreeInv, ExecAgree, SimAgree, Runner
<1>5. Tally(s) = Start(low, n)
  BY <1>3, <1>4 DEF Tally, Start
<1>6. /\ Traces(x, s.kept, low, n) /\ x[Len(s.kept) + 1] = Tally(s)
      /\ Passes(x, s.kept, s.miner, n + 1) /\ SignedOnly(s.kept)
      /\ Len(s.kept) = 0 /\ \A i \in 1 .. Len(s.kept) : s.kept[i] = s.txs[i]
  BY <1>3, <1>4, <1>5 DEF Traces, Passes, SignedOnly
<1>7. Built(chain, trees)' /\ TemplateAgree'
  BY <1>1 DEF AgreeInv, TemplateAgree
<1> HIDE DEF x
<1>8. CASE p = "exec"
  <2>1. SimAgree'
    BY <1>1, <1>2, <1>8, SimKept DEF AgreeInv, Runner
  <2>2. r.txs \in Seq(Transaction)
    BY DEF IInv, ShapeInv, RunShape
  <2>3. s.next <= Len(s.txs) + 1 /\ Len(s.kept) = s.next - 1
    BY <1>3, <1>4, <1>6, <2>2
  <2>4. ExecAgree
    BY DEF AgreeInv
  <2> HIDE DEF s
  <2>5. s.root # NoRoot /\ s.calm => Promise(chain, s.txs, s.miner, s.root)
    BY <1>3, <1>8, <2>4 DEF ExecAgree
  <2>6. run'["exec"] = s
    BY <1>8 DEF s
  <2>7. ExecAgree'
    BY <1>1, <1>3, <1>6, <2>3, <2>5, <2>6 DEF ExecAgree
  <2> QED
    BY <1>7, <2>1, <2>7 DEF AgreeInv
<1>9. CASE p = "sim"
  <2>1. ExecAgree'
    BY <1>1, <1>2, <1>9, ExecKept DEF AgreeInv, Runner
  <2>2. SimAgree
    BY DEF AgreeInv
  <2> HIDE DEF s
  <2>3. run'["sim"] = s
    BY <1>9 DEF s
  <2>4. SimAgree'
    BY <1>1, <1>3, <1>4, <1>6, <1>9, <2>2, <2>3 DEF SimAgree
  <2> QED
    BY <1>7, <2>1, <2>4 DEF AgreeInv
<1> QED
  BY <1>8, <1>9 DEF Runner

\* One transaction more is one step more of the trace.
LEMMA TakeTxTally ==
    ASSUME IInv, TypeInv, NEW p \in Runner, TakeTx(p)
    PROVE  LET r == run[p]
               s == run'[p]
           IN  /\ Tally(s) = After(Tally(r), Current(r))
               /\ s.txs = r.txs /\ s.miner = r.miner /\ s.parent = r.parent
               /\ s.next = r.next + 1 /\ s.calm = r.calm /\ s.root = r.root
               /\ \A q \in Runner : q # p => run'[q] = run[q]
               /\ r.next \in Nat \ {0} /\ r.next <= Len(r.txs) /\ r.pc = "tx"
               /\ chain' = chain /\ trees' = trees /\ template' = template
               /\ r.txs \in Seq(Transaction)
<1> DEFINE r == run[p]
           s == run'[p]
           t == Current(r)
<1>1. DOMAIN r = DOMAIN Off /\ DOMAIN run = Runner /\ r.next \in Nat \ {0} /\ r.txs \in Seq(Transaction)
  BY DEF IInv, ShapeInv, RunShape
<1>2. s = [r EXCEPT !.next = @ + 1, !.cache = Transfer(@, t),
                    !.fees = @ + FeesOf(r.cache, t),
                    !.deducted = @ + Spend(r.cache, t),
                    !.credited = @ + t.amount, !.kept = Append(@, t)]
  BY <1>1 DEF TakeTx
<1> HIDE DEF t
<1>3. /\ s.cache = Transfer(r.cache, t) /\ s.fees = r.fees + FeesOf(r.cache, t)
      /\ s.deducted = r.deducted + Spend(r.cache, t) /\ s.credited = r.credited + t.amount
      /\ s.txs = r.txs /\ s.miner = r.miner /\ s.parent = r.parent
      /\ s.next = r.next + 1 /\ s.calm = r.calm /\ s.root = r.root
  BY <1>1, <1>2 DEF Off
<1>4. Tally(s) = After(Tally(r), t)
  BY <1>3 DEF Tally, After
<1>5. (\A q \in Runner : q # p => run'[q] = run[q]) /\ r.next <= Len(r.txs) /\ r.pc = "tx"
      /\ chain' = chain /\ trees' = trees /\ template' = template
  BY <1>1 DEF TakeTx
<1> QED
  BY <1>1, <1>3, <1>4, <1>5 DEF t

LEMMA TakeTxAgrees ==
    ASSUME IInv, TypeInv, AgreeInv, NEW p \in Runner, TakeTx(p)
    PROVE  AgreeInv'
<1> DEFINE r == run[p]
           s == run'[p]
           n == Len(chain)
           low == trees[n]
           t == Current(r)
<1>1. /\ t \in Transaction /\ r.kept \in Seq(Transaction)
      /\ s.pc = "tx" /\ s.kept = Append(r.kept, t)
      /\ Payable(r.cache, t)
  BY TakeTxTyped
<1>2. /\ Tally(s) = After(Tally(r), t)
      /\ s.txs = r.txs /\ s.miner = r.miner /\ s.parent = r.parent
      /\ s.next = r.next + 1 /\ s.calm = r.calm /\ s.root = r.root
      /\ \A q \in Runner : q # p => run'[q] = run[q]
      /\ r.next \in Nat \ {0} /\ r.next <= Len(r.txs) /\ r.pc = "tx"
      /\ chain' = chain /\ trees' = trees /\ template' = template
      /\ r.txs \in Seq(Transaction)
  BY TakeTxTally
<1>3. /\ t = r.txs[r.next] /\ WellFormed(p, r.next, r.miner, t)
      /\ Recent(t, Len(r.parent) + 1)
  BY DEF TakeTx, Executable, Current, Height
<1>4. Built(chain, trees)' /\ TemplateAgree'
  BY <1>2 DEF AgreeInv, TemplateAgree
<1>k. /\ Len(r.kept) \in Nat /\ Len(s.kept) = Len(r.kept) + 1 /\ s.kept[Len(r.kept) + 1] = t
      /\ \A i \in 1 .. Len(r.kept) : s.kept[i] = r.kept[i]
  BY <1>1
<1>5. CASE p = "exec"
  <2>1. SimAgree'
    BY <1>2, <1>5, SimKept DEF AgreeInv, Runner
  <2>2. /\ Len(r.kept) = r.next - 1 /\ \A i \in 1 .. Len(r.kept) : r.kept[i] = r.txs[i]
        /\ \E x : Traces(x, r.kept, low, n) /\ x[Len(r.kept) + 1] = Tally(r)
        /\ r.root # NoRoot /\ r.calm => Promise(chain, r.txs, r.miner, r.root)
    BY <1>2, <1>5 DEF AgreeInv, ExecAgree
  <2>3. PICK x : Traces(x, r.kept, low, n) /\ x[Len(r.kept) + 1] = Tally(r)
    BY <2>2
  <2>4. run'["exec"] = s
    BY <1>5
  <2> HIDE DEF r, s, t, low, n
  <2>5. \E y : Traces(y, s.kept, low, n) /\ y[Len(s.kept) + 1] = Tally(s)
    BY SMTT(30), <1>1, <1>2, <2>3, TraceGoesOn
  <2>6. Len(s.kept) = s.next - 1 /\ s.next <= Len(s.txs) + 1
    BY <1>k, <1>2, <2>2
  <2>7. \A i \in 1 .. Len(s.kept) : s.kept[i] = s.txs[i]
    <3> SUFFICES ASSUME NEW i \in 1 .. Len(s.kept) PROVE s.kept[i] = s.txs[i]
      OBVIOUS
    <3>1. CASE i \in 1 .. Len(r.kept)
      BY <1>k, <1>2, <2>2, <3>1
    <3>2. CASE i = Len(r.kept) + 1
      <4>1. i = r.next
        BY <1>2, <1>k, <2>2, <3>2
      <4> QED
        BY <1>k, <1>2, <1>3, <3>2, <4>1
    <3> QED
      BY <1>k, <3>1, <3>2
  <2>8. ExecAgree'
    BY <1>1, <1>2, <2>2, <2>4, <2>5, <2>6, <2>7 DEF ExecAgree, low, n
  <2> QED
    BY <1>4, <2>1, <2>8 DEF AgreeInv
<1>6. CASE p = "sim"
  <2>1. ExecAgree'
    BY <1>2, <1>6, ExecKept DEF AgreeInv, Runner
  <2>2. /\ SignedOnly(r.txs) /\ Len(r.txs) > 0 /\ r.txs[1] = Coinbase(r.miner)
        /\ r.calm => r.parent = chain
        /\ SignedOnly(r.kept) /\ (r.next = 1 <=> Len(r.kept) = 0)
        /\ r.calm => \E x : /\ Traces(x, r.kept, low, n) /\ x[Len(r.kept) + 1] = Tally(r)
                            /\ Passes(x, r.kept, r.miner, n + 1)
    BY <1>2, <1>6 DEF AgreeInv, SimAgree
  <2>3. run'["sim"] = s
    BY <1>6
  <2>4. n \in Nat
    BY DEF IInv, ShapeInv
  <2>5. WellFormed("sim", Len(r.kept) + 1, r.miner, t)
    <3>1. r.next = 1 <=> Len(r.kept) + 1 = 1
      BY <1>k, <2>2
    <3> QED
      BY <1>3, <1>6, <3>1 DEF WellFormed
  <2>t. Tally(r).cache = r.cache
    BY DEF Tally
  <2>n. r.calm => n = Len(r.parent)
    BY <2>2
  <2> HIDE DEF r, s, t, low, n
  <2>6. SignedOnly(s.kept)
    <3> SUFFICES ASSUME NEW i \in 1 .. Len(s.kept), IsTransfer(s.kept[i])
                 PROVE  s.kept[i] \in Signed
      BY DEF SignedOnly
    <3>1. CASE i \in 1 .. Len(r.kept)
      BY <1>k, <2>2, <3>1 DEF SignedOnly
    <3>2. CASE i = Len(r.kept) + 1
      <4>1. s.kept[i] = r.txs[r.next] /\ r.next \in 1 .. Len(r.txs)
        BY <1>k, <1>2, <1>3, <3>2
      <4> QED
        BY <2>2, <4>1 DEF SignedOnly
    <3> QED
      BY <1>k, <3>1, <3>2
  <2>7. s.next # 1 /\ Len(s.kept) # 0
    BY <1>k, <1>2
  <2>8. ASSUME s.calm
        PROVE  \E y : /\ Traces(y, s.kept, low, n) /\ y[Len(s.kept) + 1] = Tally(s)
                      /\ Passes(y, s.kept, s.miner, n + 1)
    <3>1. PICK x : /\ Traces(x, r.kept, low, n) /\ x[Len(r.kept) + 1] = Tally(r)
                   /\ Passes(x, r.kept, r.miner, n + 1)
      BY <1>2, <2>2, <2>8
    <3>2. PICK y : /\ Traces(y, Append(r.kept, t), low, n)
                   /\ \A i \in 1 .. Len(r.kept) + 1 : y[i] = x[i]
                   /\ y[Len(Append(r.kept, t)) + 1] = After(x[Len(r.kept) + 1], t)
      BY <1>1, <3>1, TraceGoesOn
    <3>3. ASSUME NEW i \in 1 .. Len(s.kept)
          PROVE  /\ WellFormed("sim", i, s.miner, s.kept[i]) /\ Recent(s.kept[i], n + 1)
                 /\ Payable(y[i].cache, s.kept[i])
      <4>1. CASE i \in 1 .. Len(r.kept)
        <5>1. s.kept[i] = r.kept[i] /\ y[i] = x[i] /\ s.miner = r.miner
          BY <1>k, <1>2, <3>2, <4>1
        <5> QED
          BY <3>1, <4>1, <5>1 DEF Passes
      <4>2. CASE i = Len(r.kept) + 1
        <5>1. s.kept[i] = t /\ y[i] = Tally(r) /\ s.miner = r.miner
          BY <1>k, <1>2, <3>1, <3>2, <4>2
        <5>2. Recent(t, n + 1)
          BY <1>2, <1>3, <2>n, <2>8
        <5> QED
          BY <1>1, <2>5, <2>t, <4>2, <5>1, <5>2
      <4> QED
        BY <1>k, <4>1, <4>2
    <3>4. Passes(y, s.kept, s.miner, n + 1)
      BY <3>3 DEF Passes
    <3> QED
      BY <1>1, <1>2, <3>1, <3>2, <3>4
  <2>9. SimAgree'
    BY <1>1, <1>2, <2>2, <2>3, <2>6, <2>7, <2>8 DEF SimAgree, low, n
  <2> QED
    BY <1>4, <2>1, <2>9 DEF AgreeInv
<1> QED
  BY <1>5, <1>6 DEF Runner


\* The start of a call.
LEMMA StartedFields ==
    ASSUME NEW m, NEW txs, NEW root, NEW calm
    PROVE  LET r == Started(m, txs, root, calm)
           IN  /\ r.pc = "read" /\ r.miner = m /\ r.txs = txs /\ r.parent = chain
               /\ r.root = root /\ r.calm = calm /\ r.kept = <<>> /\ r.next = 1
               /\ r.fees = 0 /\ r.deducted = 0 /\ r.credited = 0
BY DEF Started, Off

LEMMA BuildAgrees ==
    ASSUME IInv, AgreeInv, NEW m \in Wallet, NEW pool \in Pool, BuildTemplate(m, pool)
    PROVE  AgreeInv'
<1> DEFINE txs == <<Coinbase(m)>> \o pool
           s == Started(m, txs, NoRoot, TRUE)
<1>1. /\ run'["sim"] = s /\ run'["exec"] = run["exec"]
      /\ chain' = chain /\ trees' = trees /\ template' = template
  BY DEF BuildTemplate, IInv, ShapeInv, Runner
<1>2. pool \in Seq(Signed) /\ pool \in Seq(Transaction) /\ m \in Account
  BY ExecutionAssumption
<1>3. SignedOnly(txs) /\ Len(txs) > 0 /\ txs[1] = Coinbase(m)
  <2>0. Coinbase(m) \in Transaction /\ ~IsTransfer(Coinbase(m))
    BY <1>2 DEF Coinbase, Transaction, IsTransfer
  <2> DEFINE c == Coinbase(m)
  <2> HIDE DEF c
  <2>1. /\ Len(<<c>> \o pool) = Len(pool) + 1 /\ (<<c>> \o pool)[1] = c /\ Len(pool) \in Nat
        /\ \A i \in 1 .. Len(pool) : (<<c>> \o pool)[i + 1] = pool[i]
    <3>1. c \in Transaction
      BY <2>0 DEF c
    <3> QED
      BY <1>2, <3>1
  <2>2. ASSUME NEW i \in 1 .. Len(txs), IsTransfer(txs[i]) PROVE txs[i] \in Signed
    <3>1. CASE i = 1
      BY <2>0, <2>1, <2>2, <3>1 DEF c
    <3>2. CASE i # 1
      <4>1. i - 1 \in 1 .. Len(pool) /\ i = (i - 1) + 1
        BY <2>1, <3>2 DEF c
      <4>2. txs[i] = pool[i - 1]
        BY <2>1, <4>1 DEF c
      <4> QED
        BY <1>2, <4>1, <4>2
    <3> QED
      BY <3>1, <3>2
  <2> QED
    BY <2>1, <2>2 DEF SignedOnly, c
<1> HIDE DEF txs
<1>4. /\ s.pc = "read" /\ s.miner = m /\ s.txs = txs /\ s.parent = chain
      /\ s.kept = <<>> /\ s.next = 1 /\ s.fees = 0 /\ s.deducted = 0 /\ s.credited = 0
  BY DEF Started, Off
<1> HIDE DEF s
<1>5. SimAgree'
  BY <1>1, <1>3, <1>4 DEF SimAgree
<1> QED
  BY <1>1, <1>5, ExecKept DEF AgreeInv, TemplateAgree

LEMMA StartExecAgrees ==
    ASSUME IInv, AgreeInv, NEW m, NEW txs, NEW root, NEW calm,
           run' = [run EXCEPT !["exec"] = Started(m, txs, root, calm)],
           UNCHANGED <<chain, trees, template>>,
           root # NoRoot /\ calm => Promise(chain, txs, m, root)
    PROVE  AgreeInv'
<1> DEFINE s == Started(m, txs, root, calm)
<1>1. run'["exec"] = s /\ run'["sim"] = run["sim"]
  BY DEF IInv, ShapeInv, Runner
<1>2. /\ s.pc = "read" /\ s.miner = m /\ s.txs = txs /\ s.root = root /\ s.calm = calm
      /\ s.kept = <<>> /\ s.next = 1 /\ s.fees = 0 /\ s.deducted = 0 /\ s.credited = 0
  BY StartedFields
<1> HIDE DEF s
<1>3. ExecAgree'
  BY <1>1, <1>2 DEF ExecAgree
<1> QED
  BY <1>1, <1>3, SimKept DEF AgreeInv, TemplateAgree

\* The coinbase of a template always executes: a dry run skips no first transaction.
LEMMA SkipAgrees ==
    ASSUME IInv, AgreeInv, SkipTx
    PROVE  AgreeInv'
<1> DEFINE r == run["sim"]
           s == Skipped(r)
<1>1. /\ run'["sim"] = s /\ run'["exec"] = run["exec"] /\ DOMAIN r = DOMAIN Off
      /\ chain' = chain /\ trees' = trees /\ template' = template /\ r.pc = "tx"
      /\ r.next \in Nat \ {0} /\ SimAgree /\ r.kept \in Seq(Transaction)
  BY DEF SkipTx, IInv, ShapeInv, RunShape, Runner, AgreeInv
<1>2. /\ s.pc = r.pc /\ s.txs = r.txs /\ s.miner = r.miner /\ s.parent = r.parent
      /\ s.kept = r.kept /\ s.next = r.next + 1 /\ s.calm = r.calm
      /\ Tally(s) = Tally(r)
  BY <1>1 DEF Skipped, Off, Tally
<1>3. r.next # 1
  <2> SUFFICES ASSUME r.next = 1 PROVE FALSE
    OBVIOUS
  <2>1. Current(r) = Coinbase(r.miner)
    BY <1>1 DEF SimAgree, Current
  <2>2. ~IsTransfer(Coinbase(r.miner)) /\ Coinbase(r.miner).receiver = r.miner
    BY DEF Coinbase, IsTransfer
  <2>3. Executable("sim")
    BY <2>1, <2>2 DEF Executable, WellFormed, Recent, Payable
  <2> QED
    BY <2>3 DEF SkipTx
<1> HIDE DEF s
<1>4. SimAgree'
  BY <1>1, <1>2, <1>3 DEF SimAgree
<1> QED
  BY <1>1, <1>4, ExecKept DEF AgreeInv, TemplateAgree

LEMMA SealTemplateAgrees ==
    ASSUME IInv, AgreeInv, SealTemplate
    PROVE  AgreeInv'
<1> DEFINE r == run["sim"]
           n == Len(chain)
<1>1. /\ run'["sim"] = Off /\ run'["exec"] = run["exec"]
      /\ chain' = chain /\ trees' = trees /\ r.pc = "tx"
      /\ SimAgree
  BY DEF SealTemplate, Finished, IInv, ShapeInv, Runner, AgreeInv
<1>2. SimAgree'
  BY <1>1 DEF SimAgree, Off
<1>3. CASE ~Conserved(r)
  <2>1. template' = template
    BY <1>3 DEF SealTemplate
  <2> QED
    BY <1>1, <1>2, <2>1, ExecKept DEF AgreeInv, TemplateAgree
<1>4. CASE Conserved(r)
  <2>1. template' = [parent |-> r.parent, miner |-> r.miner, txs |-> r.kept,
                     root |-> FinalTree(r), calm |-> r.calm]
    BY <1>4 DEF SealTemplate
  <2>2. ASSUME r.calm PROVE Promise(r.parent, r.kept, r.miner, FinalTree(r))
    <3>1. r.parent = chain /\ SignedOnly(r.kept)
      BY <1>1, <2>2 DEF SimAgree
    <3>2. PICK x : /\ Traces(x, r.kept, trees[n], n) /\ x[Len(r.kept) + 1] = Tally(r)
                   /\ Passes(x, r.kept, r.miner, n + 1)
      BY <1>1, <2>2 DEF SimAgree
    <3>3. Tally(r).deducted = Tally(r).credited + Tally(r).fees
      BY <1>4 DEF Conserved, Tally
    <3>4. FinalTree(r) = Sealed(trees[n], r.miner, r.kept, Tally(r), n + 1)
      BY <3>1, FinalIsSealed DEF Height
    <3>5. Built(chain, trees)
      BY DEF AgreeInv
    <3> HIDE DEF r
    <3> QED
      BY <3>1, <3>2, <3>3, <3>4, <3>5 DEF Promise
  <2>3. TemplateAgree'
    <3> HIDE DEF r
    <3> QED
      BY <2>1, <2>2 DEF TemplateAgree
  <2> QED
    BY <1>1, <1>2, <2>3, ExecKept DEF AgreeInv
<1> QED
  BY <1>3, <1>4

LEMMA SealBlockAgrees ==
    ASSUME IInv, AgreeInv, SealBlock
    PROVE  AgreeInv'
<1> DEFINE r == run["exec"]
           tree == FinalTree(r)
           n == Len(chain)
           new == [miner |-> r.miner, txs |-> r.kept]
<1>0. template' = template /\ DOMAIN run = Runner
  BY DEF SealBlock, IInv, ShapeInv
<1>1. CASE run' = [run EXCEPT !["exec"] = Off] /\ UNCHANGED <<chain, trees>>
  <2>1. run'["exec"] = Off /\ run'["sim"] = run["sim"]
    BY <1>0, <1>1 DEF Runner
  <2> QED
    BY <1>0, <1>1, <2>1, OffAgrees, SimKept DEF AgreeInv, TemplateAgree
<1>2. CASE /\ run' = [run EXCEPT !["exec"] = Off, !["sim"] = Disturb(@)]
           /\ chain' = Append(chain, new)
           /\ trees' = [trees EXCEPT ![Height(r)] = tree]
  <2>1. run'["exec"] = Off /\ run'["sim"] = Disturb(run["sim"])
    BY <1>0, <1>2 DEF Runner
  <2>2. ExecAgree' /\ SimAgree'
    BY <2>1, OffAgrees, DisturbedAgrees DEF AgreeInv
  <2>3. /\ r.pc = "tx" /\ r.parent = chain /\ n < MaxHeight /\ n \in Nat
        /\ chain \in Seq(Blocks) /\ DOMAIN trees = Heights
        /\ r.miner \in Account /\ r.kept \in Seq(Transaction)
    BY DEF SealBlock, Finished, IInv, ShapeInv, ExecInv, RunShape, Runner
  <2>4. Height(r) = n + 1 /\ n + 1 \in Heights
    BY <2>3, ExecutionAssumption DEF Height, Heights
  <2>5. PICK x : Traces(x, r.kept, trees[n], n) /\ x[Len(r.kept) + 1] = Tally(r)
    BY <2>3 DEF AgreeInv, ExecAgree
  <2>6. tree = Sealed(trees[n], r.miner, r.kept, Tally(r), n + 1)
    BY <2>3, <2>4, FinalIsSealed
  <2>7. new \in Blocks /\ new.miner = r.miner /\ new.txs = r.kept
    BY <2>3 DEF Blocks
  <2> HIDE DEF tree, new, r
  <2>8. /\ Len(chain') = n + 1 /\ chain'[n + 1] = new
        /\ \A b \in 1 .. n : chain'[b] = chain[b]
    BY <1>2, <2>3, <2>7
  <2> HIDE DEF n
  <2>9. trees'[n + 1] = tree /\ \A h \in 0 .. n : trees'[h] = trees[h]
    BY <1>2, <2>3, <2>4 DEF Heights
  <2>b. Built(chain, trees) /\ Len(chain) = n
    BY DEF AgreeInv, n
  <2>10. ASSUME NEW b \in 1 .. n + 1
         PROVE  \E y : /\ Traces(y, chain'[b].txs, trees'[b - 1], b - 1)
                       /\ trees'[b] = Sealed(trees'[b - 1], chain'[b].miner, chain'[b].txs,
                                             y[Len(chain'[b].txs) + 1], b)
    <3>1. CASE b \in 1 .. n
      <4>1. chain'[b] = chain[b] /\ trees'[b - 1] = trees[b - 1] /\ trees'[b] = trees[b]
        BY <2>3, <2>8, <2>9, <3>1
      <4>2. \E y : /\ Traces(y, chain[b].txs, trees[b - 1], b - 1)
                   /\ trees[b] = Sealed(trees[b - 1], chain[b].miner, chain[b].txs,
                                        y[Len(chain[b].txs) + 1], b)
        BY <2>b, <3>1 DEF Built
      <4> QED
        BY <4>1, <4>2
    <3>2. CASE b = n + 1
      <4>1. /\ b - 1 = n /\ trees'[b - 1] = trees[n] /\ trees'[b] = tree
            /\ chain'[b].miner = r.miner /\ chain'[b].txs = r.kept
        BY <2>3, <2>7, <2>8, <2>9, <3>2
      <4> QED
        BY <2>5, <2>6, <3>2, <4>1
    <3> QED
      BY <2>3, <3>1, <3>2
  <2>11. trees'[0] = Genesis
    BY <2>3, <2>9, <2>b DEF Built
  <2>12. Built(chain', trees')
    BY <2>8, <2>10, <2>11 DEF Built
  <2> QED
    BY <1>0, <2>2, <2>12 DEF AgreeInv, TemplateAgree
<1> QED
  BY <1>1, <1>2 DEF SealBlock

LEMMA RollBackAgrees ==
    ASSUME IInv, AgreeInv, RollBack
    PROVE  AgreeInv'
<1>1. /\ run'["exec"] = run["exec"] /\ run'["sim"] = Disturb(run["sim"])
      /\ run["exec"].pc = "off" /\ trees' = trees /\ template' = template
      /\ chain \in Seq(Blocks) /\ chain # <<>>
  BY DEF RollBack, IInv, ShapeInv, Runner
<1>2. Len(chain) \in Nat /\ Len(chain) > 0
  BY <1>1
<1>3. /\ Len(chain') = Len(chain) - 1
      /\ \A b \in 1 .. Len(chain) - 1 : chain'[b] = chain[b]
  <2>1. Len(chain) - 1 \in 0 .. Len(chain)
    BY <1>2
  <2>2. /\ Len(SubSeq(chain, 1, Len(chain) - 1)) = Len(chain) - 1
        /\ \A b \in 1 .. Len(chain) - 1 : SubSeq(chain, 1, Len(chain) - 1)[b] = chain[b]
    BY <1>1, <2>1, Prefix
  <2> QED
    BY <2>2 DEF RollBack
<1>4. Built(chain', trees')
  <2>1. \A b \in 1 .. Len(chain') : b \in 1 .. Len(chain) /\ chain'[b] = chain[b]
    BY <1>2, <1>3
  <2>2. Built(chain, trees)
    BY DEF AgreeInv
  <2> QED
    BY <1>1, <2>1, <2>2 DEF Built
<1>5. ExecAgree'
  BY <1>1 DEF AgreeInv, ExecAgree
<1> QED
  BY <1>1, <1>4, <1>5, DisturbedAgrees DEF AgreeInv, TemplateAgree


LEMMA NextKeepsAgree == IInv /\ TypeInv /\ AgreeInv /\ [Next]_vars => AgreeInv'
<1> SUFFICES ASSUME IInv, TypeInv, AgreeInv, [Next]_vars PROVE AgreeInv'
  OBVIOUS
<1>1. ASSUME NEW m \in Account, NEW txs \in Body, ReceiveBlock(m, txs) PROVE AgreeInv'
  BY <1>1, StartExecAgrees DEF ReceiveBlock
<1>2. ASSUME NEW m \in Wallet, NEW pool \in Pool, BuildTemplate(m, pool) PROVE AgreeInv'
  BY <1>2, BuildAgrees
<1>3. CASE SubmitTemplate
  <2>1. CASE template.parent = chain
    <3>1. template.root # NoRoot /\ template.calm =>
              Promise(chain, template.txs, template.miner, template.root)
      BY <2>1 DEF AgreeInv, TemplateAgree
    <3>2. /\ run' = [run EXCEPT !["exec"] =
                Started(template.miner, template.txs, template.root, template.calm)]
          /\ UNCHANGED <<chain, trees, template>>
      BY <1>3, <2>1 DEF SubmitTemplate
    <3> QED
      BY <3>1, <3>2, StartExecAgrees
  <2>2. CASE template.parent # chain
    BY <1>3, <2>2, ExecKept, SimKept DEF SubmitTemplate, AgreeInv, TemplateAgree
  <2> QED
    BY <2>1, <2>2
<1>4. ASSUME NEW p \in Runner, Prefetch(p) PROVE AgreeInv'
  BY <1>4, PrefetchAgrees
<1>5. ASSUME NEW p \in Runner, TakeTx(p) PROVE AgreeInv'
  BY <1>5, TakeTxAgrees
<1>6. CASE SkipTx
  BY <1>6, SkipAgrees
<1>7. CASE RejectBlock
  <2>1. run'["exec"] = Off /\ run'["sim"] = run["sim"]
    BY <1>7 DEF RejectBlock, IInv, ShapeInv, Runner
  <2> QED
    BY <1>7, <2>1, OffAgrees, SimKept DEF RejectBlock, AgreeInv, TemplateAgree
<1>8. CASE SealBlock
  BY <1>8, SealBlockAgrees
<1>9. CASE SealTemplate
  BY <1>9, SealTemplateAgrees
<1>10. CASE RollBack
  BY <1>10, RollBackAgrees
<1>11. CASE UNCHANGED vars
  BY <1>11, ExecKept, SimKept DEF vars, AgreeInv, TemplateAgree
<1> QED
  BY <1>1, <1>2, <1>3, <1>4, <1>5, <1>6, <1>7, <1>8, <1>9, <1>10, <1>11 DEF Next

\* What a promise says of the run that executes it: the run stands where the dry run
\* stood after as many transactions.
LEMMA PromiseFollowed ==
    ASSUME IInv, AgreeInv, run["exec"].pc = "tx", run["exec"].root # NoRoot, run["exec"].calm
    PROVE  LET r == run["exec"]
               n == Len(chain)
           IN  /\ r.next \in 1 .. Len(r.txs) =>
                     /\ WellFormed("exec", r.next, r.miner, r.txs[r.next])
                     /\ Recent(r.txs[r.next], n + 1)
                     /\ Payable(r.cache, r.txs[r.next])
               /\ r.next > Len(r.txs) =>
                     /\ r.deducted = r.credited + r.fees
                     /\ r.root = Sealed(trees[n], r.miner, r.kept, Tally(r), n + 1)
<1> DEFINE r == run["exec"]
           n == Len(chain)
           k == Len(r.kept)
<1>1. /\ r.kept \in Seq(Transaction) /\ r.txs \in Seq(Transaction) /\ r.next \in Nat \ {0}
      /\ chain \in Seq(Blocks) /\ n \in Nat
  BY DEF IInv, ShapeInv, RunShape, Runner
<1>2. /\ k = r.next - 1 /\ r.next <= Len(r.txs) + 1
      /\ \A i \in 1 .. k : r.kept[i] = r.txs[i]
      /\ Promise(chain, r.txs, r.miner, r.root) /\ Built(chain, trees)
  BY DEF AgreeInv, ExecAgree
<1>3. PICK x : Traces(x, r.kept, trees[n], n) /\ x[k + 1] = Tally(r)
  BY DEF AgreeInv, ExecAgree
<1>4. PICK ts, y :
          /\ Built(chain, ts) /\ Traces(y, r.txs, ts[n], n) /\ Passes(y, r.txs, r.miner, n + 1)
          /\ y[Len(r.txs) + 1].deducted = y[Len(r.txs) + 1].credited + y[Len(r.txs) + 1].fees
          /\ r.root = Sealed(ts[n], r.miner, r.txs, y[Len(r.txs) + 1], n + 1)
  BY <1>2 DEF Promise
<1> HIDE DEF r
<1>5. ts[n] = trees[n]
  <2>1. n \in 0 .. Len(chain)
    BY <1>1
  <2> HIDE DEF n
  <2> QED
    BY <1>1, <1>2, <1>4, <2>1, OneLedger
<1> HIDE DEF n
<1>6. y[k + 1] = Tally(r)
  <2>1. /\ k \in Nat /\ k <= Len(r.txs) /\ k \in 0 .. k
        /\ x[1] = Start(trees[n], n)
        /\ \A i \in 1 .. k : x[i + 1] = After(x[i], r.txs[i])
    BY <1>1, <1>2, <1>3 DEF Traces
  <2>2. Traces(y, r.txs, trees[n], n)
    BY <1>4, <1>5
  <2>3. \A i \in 0 .. k : y[i + 1] = x[i + 1]
    <3> DEFINE txs == r.txs
               low == trees[n]
    <3>1. Len(txs) \in Nat /\ Traces(y, txs, low, n) /\ k \in Nat /\ k <= Len(txs)
      BY <1>1, <2>1, <2>2
    <3>2. TracesTo(x, k, txs, low, n)
      BY <2>1 DEF TracesTo
    <3> HIDE DEF k, txs, low
    <3> QED
      BY <3>1, <3>2, OneTrace
  <2> QED
    BY <1>3, <2>1, <2>3
<1>7. ASSUME r.next \in 1 .. Len(r.txs)
      PROVE  /\ WellFormed("exec", r.next, r.miner, r.txs[r.next])
             /\ Recent(r.txs[r.next], n + 1)
             /\ Payable(r.cache, r.txs[r.next])
  <2>1. /\ WellFormed("sim", r.next, r.miner, r.txs[r.next])
        /\ Recent(r.txs[r.next], n + 1)
        /\ Payable(y[r.next].cache, r.txs[r.next])
    BY <1>4, <1>7 DEF Passes
  <2>2. y[r.next] = Tally(r)
    <3>0. k \in Nat /\ r.next \in Nat /\ k = r.next - 1
      BY <1>1, <1>2
    <3>1. r.next = k + 1
      BY <3>0
    <3> QED
      BY <1>6, <3>1
  <2>3. y[r.next].cache = r.cache
    BY <2>2 DEF Tally
  <2>4. IsTransfer(r.txs[r.next]) => r.txs[r.next] \in Signed
    BY <1>2, <1>7 DEF Promise, SignedOnly
  <2>5. WellFormed("exec", r.next, r.miner, r.txs[r.next])
    BY <2>1, <2>4 DEF WellFormed
  <2> QED
    BY <2>1, <2>3, <2>5
<1>8. ASSUME r.next > Len(r.txs)
      PROVE  /\ r.deducted = r.credited + r.fees
             /\ r.root = Sealed(trees[n], r.miner, r.kept, Tally(r), n + 1)
  <2>1. Len(r.txs) = k
    BY <1>1, <1>2, <1>8
  <2>2. r.kept = r.txs
    <3>1. /\ r.kept = [i \in 1 .. Len(r.kept) |-> r.kept[i]]
          /\ r.txs = [i \in 1 .. Len(r.txs) |-> r.txs[i]]
      BY <1>1
    <3>2. Len(r.kept) = Len(r.txs) /\ \A i \in 1 .. Len(r.kept) : r.kept[i] = r.txs[i]
      BY <1>2, <2>1
    <3> QED
      BY <3>1, <3>2
  <2>3. y[Len(r.txs) + 1] = Tally(r)
    BY <1>6, <2>1
  <2>4. Tally(r).deducted = r.deducted /\ Tally(r).credited = r.credited /\ Tally(r).fees = r.fees
    BY DEF Tally
  <2> QED
    BY <1>4, <1>5, <2>2, <2>3, <2>4
<1> QED
  BY <1>7, <1>8 DEF r, n

LEMMA TemplateStep ==
    IInv /\ AgreeInv /\ [Next]_vars =>
        (run["exec"].root # NoRoot /\ run["exec"].calm /\ run'["exec"].pc = "off"
            => outcome' = "committed" \/ UNCHANGED vars)
<1> SUFFICES ASSUME IInv, AgreeInv, Next,
                    run["exec"].root # NoRoot, run["exec"].calm, run'["exec"].pc = "off"
             PROVE  outcome' = "committed"
  BY DEF vars
<1> DEFINE r == run["exec"]
           n == Len(chain)
<1>1. /\ r.pc # "off" /\ DOMAIN run = Runner
      /\ r.pc \in {"read", "tx"} /\ r.next \in Nat \ {0} /\ r.txs \in Seq(Transaction)
  BY DEF AgreeInv, ExecAgree, IInv, ShapeInv, RunShape, Runner
<1>2. r.parent = chain /\ Height(r) = n + 1
  BY <1>1 DEF IInv, ExecInv, Height
<1>3. run'["exec"] # run["exec"]
  BY <1>1
<1>4. RejectBlock \/ SealBlock
  <2>1. \A m \in Account, txs \in Body : ~ReceiveBlock(m, txs)
    BY <1>1 DEF ReceiveBlock
  <2>2. \A m \in Wallet, pool \in Pool : ~BuildTemplate(m, pool)
    BY <1>1, <1>3 DEF BuildTemplate, Runner
  <2>3. ~SubmitTemplate
    BY <1>1 DEF SubmitTemplate
  <2>4. \A p \in Runner : ~Prefetch(p)
    <3> SUFFICES ASSUME NEW p \in Runner, Prefetch(p) PROVE FALSE
      OBVIOUS
    <3>1. p = "exec"
      BY <1>1, <1>3 DEF Prefetch, Runner
    <3>2. DOMAIN r = DOMAIN Off
      BY DEF IInv, ShapeInv, RunShape, Runner
    <3>3. run'["exec"].pc = "tx"
      BY <1>1, <3>1, <3>2 DEF Prefetch, Off
    <3> QED
      BY <3>3
  <2>5. \A p \in Runner : ~TakeTx(p)
    <3> SUFFICES ASSUME NEW p \in Runner, TakeTx(p) PROVE FALSE
      OBVIOUS
    <3>1. p = "exec"
      BY <1>1, <1>3 DEF TakeTx, Runner
    <3>2. DOMAIN r = DOMAIN Off
      BY DEF IInv, ShapeInv, RunShape, Runner
    <3>3. run'["exec"].pc = run["exec"].pc
      BY <1>1, <3>1, <3>2 DEF TakeTx, Off
    <3> QED
      BY <1>1, <3>3
  <2>6. ~SkipTx /\ ~SealTemplate
    BY <1>1, <1>3 DEF SkipTx, SealTemplate, Runner
  <2>7. ~RollBack
    BY <1>1 DEF RollBack
  <2> QED
    BY <2>1, <2>2, <2>3, <2>4, <2>5, <2>6, <2>7 DEF Next
<1>5. ~RejectBlock
  <2> SUFFICES ASSUME RejectBlock PROVE FALSE
    OBVIOUS
  <2>1. r.pc = "tx" /\ r.next \in 1 .. Len(r.txs) /\ ~Executable("exec")
    BY <1>1 DEF RejectBlock
  <2>2. Executable("exec")
    BY <1>2, <2>1, PromiseFollowed DEF Executable, Current
  <2> QED
    BY <2>1, <2>2
<1>6. CASE SealBlock
  <2>1. r.pc = "tx" /\ r.next > Len(r.txs)
    BY <1>6 DEF SealBlock, Finished
  <2>2. r.deducted = r.credited + r.fees
    BY <2>1, PromiseFollowed
  <2>3. r.root = Sealed(trees[n], r.miner, r.kept, Tally(r), n + 1)
    BY <2>1, PromiseFollowed
  <2>4. r.root = FinalTree(r)
    BY <1>2, <2>3, FinalIsSealed
  <2> QED
    BY <1>6, <2>2, <2>4 DEF SealBlock, Conserved
<1> QED
  BY <1>4, <1>5, <1>6

\* A block of the builder whose dry run was not disturbed commits when the miner hands
\* it in on the parent it was built on, however often the chain was rolled back and
\* executed again in between: the dry run (build_vanguard_block_template, lib.rs:2692)
\* and the real execution of the same transactions from the same tree cannot differ.
THEOREM UndisturbedTemplatesCommit == Spec => TemplateExecutes
<1>1. Spec => []TypeInv
  BY InitTyped, NextKeepsTypes, Invariance, PTL DEF Spec
<1>2. Spec => []AgreeInv
  BY <1>1, InitAgree, NextKeepsAgree, Invariance, PTL DEF Spec
<1>3. IInv /\ AgreeInv /\ [Next]_vars =>
          [run["exec"].root # NoRoot /\ run["exec"].calm /\ run'["exec"].pc = "off"
              => outcome' = "committed"]_vars
  BY TemplateStep
<1> QED
  BY <1>2, <1>3, Invariance, PTL DEF Spec, TemplateExecutes

---------------------------------------------------------------------------
\* The ledger against the chain.  What the properties read off the chain, here of any
\* list C of blocks: the invariant speaks of the chain with the block being executed.

EntryIn(C, h) == UNION {{<<b, i>> : i \in 2 .. Len(C[b].txs)} : b \in 1 .. h}
TxIn(C, e) == C[e[1]].txs[e[2]]
KnownIn(C, e) ==
    {Founder} \cup {C[b].miner : b \in 1 .. (e[1] - 1)}
              \cup {TxIn(C, f).receiver : f \in {f \in EntryIn(C, e[1]) : Before(f, e)}}
FeeIn(C, e) == TxIn(C, e).fee + IF TxIn(C, e).receiver \in KnownIn(C, e) THEN 0 ELSE CreationFee
FeesIn(C, b) == SumOver([e \in EntryIn(C, b) |-> FeeIn(C, e)], {e \in EntryIn(C, b) : e[1] = b})

PaidTo(C, h, a) ==
    SumOver([e \in EntryIn(C, h) |-> TxIn(C, e).amount],
            {e \in EntryIn(C, h) : TxIn(C, e).receiver = a})
SpentBy(C, h, a) ==
    SumOver([e \in EntryIn(C, h) |-> TxIn(C, e).amount + FeeIn(C, e)],
            {e \in EntryIn(C, h) : TxIn(C, e).sender = a})
SentBy(C, h, a) == Cardinality({e \in EntryIn(C, h) : TxIn(C, e).sender = a})

\* Genesis counts as block 0, mined by the founder.
MinerAt(C, b) == IF b = 0 THEN Founder ELSE C[b].miner
RewardAt(C, b) == IF b = 0 THEN Reward(0) ELSE Reward(b) + FeesIn(C, b)
RipeFor(C, k, a) == {b \in 0 .. k : MinerAt(C, b) = a /\ b + Maturity <= k}
MinedBy(C, k, a) == SumOver([b \in 0 .. k |-> RewardAt(C, b)], RipeFor(C, k, a))
WaitsFor(C, k, a) ==
    {[amount |-> RewardAt(C, b), height |-> b + Maturity] :
        b \in {b \in 0 .. k : MinerAt(C, b) = a /\ b + Maturity > k}}

\* The accounts the first h blocks paid or the first k blocks rewarded.
Met(C, h, k) ==
    {MinerAt(C, b) : b \in 0 .. k} \cup {TxIn(C, e).receiver : e \in EntryIn(C, h)}

\* st is what the transfers of the first h blocks and the rewards of the first k
\* make of account a.
Matches(st, C, h, k, a) ==
    /\ st.btc_z = PaidTo(C, h, a) - SpentBy(C, h, a) + MinedBy(C, k, a)
    /\ st.nonce = SentBy(C, h, a)
    /\ st.maturing = WaitsFor(C, k, a)
    /\ IsNewWallet(st) <=> a \notin Met(C, h, k)

\* The entries of a list of blocks.
LEMMA EntriesAre ==
    ASSUME NEW C \in Seq(Blocks), NEW h \in Nat, h <= Len(C)
    PROVE  /\ IsFiniteSet(EntryIn(C, h))
           /\ \A e \in EntryIn(C, h) :
                 /\ e[1] \in 1 .. h /\ e[2] \in 2 .. Len(C[e[1]].txs) /\ e = <<e[1], e[2]>>
                 /\ TxIn(C, e) \in Transaction
           /\ \A b \in 1 .. h : \A i \in 2 .. Len(C[b].txs) : <<b, i>> \in EntryIn(C, h)
<1> DEFINE Q == {k \in Nat : k <= Len(C) => IsFiniteSet(EntryIn(C, k))}
<1>1. 0 \in Q
  <2>1. EntryIn(C, 0) = {}
    BY DEF EntryIn
  <2> QED
    BY <2>1, FS_EmptySet
<1>2. ASSUME NEW k \in Nat, k \in Q PROVE k + 1 \in Q
  <2> SUFFICES ASSUME k + 1 <= Len(C) PROVE IsFiniteSet(EntryIn(C, k + 1))
    OBVIOUS
  <2> DEFINE row == {<<k + 1, i>> : i \in 2 .. Len(C[k + 1].txs)}
             wide == {k + 1} \X (2 .. Len(C[k + 1].txs))
  <2>1. EntryIn(C, k + 1) = EntryIn(C, k) \cup row
    <3>1. 1 .. (k + 1) = (1 .. k) \cup {k + 1}
      OBVIOUS
    <3> QED
      BY <3>1 DEF EntryIn
  <2>2. IsFiniteSet(row)
    <3>1. Len(C[k + 1].txs) \in Nat
      BY DEF Blocks
    <3>2. IsFiniteSet(2 .. Len(C[k + 1].txs))
      <4> 2 \in Int /\ Len(C[k + 1].txs) \in Int
        BY <3>1
      <4> QED
        BY FS_Interval
    <3>3. IsFiniteSet(wide)
      <4> DEFINE S == {k + 1}
                 T == 2 .. Len(C[k + 1].txs)
      <4>1. IsFiniteSet(S) /\ IsFiniteSet(T)
        BY <3>2, FS_Singleton
      <4> HIDE DEF S, T
      <4>2. IsFiniteSet(S \X T)
        BY <4>1, FS_Product
      <4> QED
        BY <4>2 DEF S, T
    <3>4. row \in SUBSET wide
      OBVIOUS
    <3> QED
      BY <3>3, <3>4, FS_Subset
  <2>3. IsFiniteSet(EntryIn(C, k))
    BY <1>2
  <2> DEFINE old == EntryIn(C, k)
  <2>4. IsFiniteSet(old) /\ EntryIn(C, k + 1) = old \cup row
    BY <2>1, <2>3
  <2> HIDE DEF row, old, Q
  <2>5. IsFiniteSet(old \cup row)
    BY <2>2, <2>4, FS_Union
  <2> QED
    BY <2>4, <2>5
<1>3. \A k \in Nat : k \in Q
  <2> HIDE DEF Q
  <2> QED
    BY <1>1, <1>2, NumberInduction
<1>4. IsFiniteSet(EntryIn(C, h))
  BY <1>3
<1>5. ASSUME NEW e \in EntryIn(C, h)
      PROVE  /\ e[1] \in 1 .. h /\ e[2] \in 2 .. Len(C[e[1]].txs) /\ e = <<e[1], e[2]>>
             /\ TxIn(C, e) \in Transaction
  <2>1. PICK b \in 1 .. h : \E i \in 2 .. Len(C[b].txs) : e = <<b, i>>
    BY DEF EntryIn
  <2>2. C[b].txs \in Seq(Transaction)
    <3>1. b \in 1 .. Len(C) /\ C[b] \in Blocks
      BY <2>1
    <3> QED
      BY <3>1 DEF Blocks
  <2> QED
    BY <2>1, <2>2 DEF TxIn
<1>6. \A b \in 1 .. h : \A i \in 2 .. Len(C[b].txs) : <<b, i>> \in EntryIn(C, h)
  BY DEF EntryIn
<1> QED
  BY <1>4, <1>5, <1>6

\* What entries cost, fees and rewards are natural numbers.
LEMMA EntriesCost ==
    ASSUME NEW C \in Seq(Blocks), NEW h \in Nat, h <= Len(C)
    PROVE  /\ \A e \in EntryIn(C, h) : FeeIn(C, e) \in Nat /\ TxIn(C, e).amount \in Nat
           /\ \A b \in 1 .. h : FeesIn(C, b) \in Nat
<1>1. ASSUME NEW k \in Nat, k <= Len(C), NEW e \in EntryIn(C, k)
      PROVE  FeeIn(C, e) \in Nat /\ TxIn(C, e).amount \in Nat
  <2>1. TxIn(C, e) \in Transaction
    BY <1>1, EntriesAre
  <2>2. TxIn(C, e).fee \in Nat /\ TxIn(C, e).amount \in Nat /\ CreationFee \in Nat
    BY <2>1, ExecutionAssumption DEF Transaction
  <2> QED
    BY <2>2 DEF FeeIn
<1>2. ASSUME NEW b \in 1 .. h PROVE FeesIn(C, b) \in Nat
  <2> DEFINE f == [e \in EntryIn(C, b) |-> FeeIn(C, e)]
             S == {e \in EntryIn(C, b) : e[1] = b}
  <2>1. b \in Nat /\ b <= Len(C)
    BY <1>2
  <2>2. IsFiniteSet(S) /\ \A e \in S : f[e] \in Nat
    <3>1. IsFiniteSet(EntryIn(C, b)) /\ S \in SUBSET EntryIn(C, b)
      BY <2>1, EntriesAre
    <3> QED
      BY <1>1, <2>1, <3>1, FS_Subset
  <2>3. FeesIn(C, b) = SumOver(f, S)
    BY DEF FeesIn
  <2> HIDE DEF f, S
  <2> QED
    BY <2>2, <2>3, SumOfNaturals
<1> QED
  BY <1>1, <1>2

\* Lists with the same first h blocks have the same entries, fees and rewards there.
LEMMA SameEntries ==
    ASSUME NEW C \in Seq(Blocks), NEW D \in Seq(Blocks), NEW h \in Nat,
           h <= Len(C), h <= Len(D), \A b \in 1 .. h : C[b] = D[b]
    PROVE  /\ \A b \in 0 .. h : EntryIn(C, b) = EntryIn(D, b) /\ MinerAt(C, b) = MinerAt(D, b)
           /\ \A e \in EntryIn(C, h) : TxIn(C, e) = TxIn(D, e) /\ FeeIn(C, e) = FeeIn(D, e)
           /\ \A b \in 1 .. h : FeesIn(C, b) = FeesIn(D, b)
           /\ \A b \in 0 .. h : RewardAt(C, b) = RewardAt(D, b)
<1>1. \A b \in 0 .. h : EntryIn(C, b) = EntryIn(D, b)
  BY DEF EntryIn
<1>2. \A b \in 0 .. h : MinerAt(C, b) = MinerAt(D, b)
  BY DEF MinerAt
<1>3. \A e : e[1] \in 1 .. h => TxIn(C, e) = TxIn(D, e)
  BY DEF TxIn
<1>4. ASSUME NEW k \in 0 .. h, NEW e \in EntryIn(C, k)
      PROVE  e[1] \in 1 .. h /\ e[1] \in 0 .. h /\ e[1] <= k /\ FeeIn(C, e) = FeeIn(D, e)
  <2>1. e[1] \in 1 .. k /\ k \in Nat /\ k <= Len(C)
    <3>1. k \in Nat /\ k <= Len(C)
      OBVIOUS
    <3> QED
      BY <3>1, EntriesAre
  <2>2. e[1] \in 1 .. h /\ e[1] \in 0 .. h
    BY <2>1
  <2> DEFINE E == {f \in EntryIn(C, e[1]) : Before(f, e)}
  <2>3. E = {f \in EntryIn(D, e[1]) : Before(f, e)}
    BY <1>1, <2>2
  <2>4. \A f \in E : f[1] \in 1 .. h
    <3>1. e[1] \in Nat /\ e[1] <= Len(C)
      BY <2>2
    <3>2. \A f \in EntryIn(C, e[1]) : f[1] \in 1 .. e[1]
      BY <3>1, EntriesAre
    <3> QED
      BY <2>2, <3>2
  <2>5. \A f \in E : TxIn(C, f) = TxIn(D, f)
    BY <1>3, <2>4
  <2>6. {C[b].miner : b \in 1 .. (e[1] - 1)} = {D[b].miner : b \in 1 .. (e[1] - 1)}
    <3> DEFINE B == 1 .. (e[1] - 1)
    <3>1. B \subseteq 1 .. h
      BY <2>2
    <3> HIDE DEF B
    <3>2. \A b \in B : C[b].miner = D[b].miner
      BY <3>1
    <3>3. {C[b].miner : b \in B} = {D[b].miner : b \in B}
      BY <3>2
    <3> QED
      BY <3>3 DEF B
  <2>7. KnownIn(C, e) = KnownIn(D, e)
    <3>1. {TxIn(C, f).receiver : f \in E} = {TxIn(D, f).receiver : f \in E}
      BY <2>5
    <3> QED
      BY <2>3, <2>6, <3>1 DEF KnownIn
  <2> QED
    BY <1>3, <2>1, <2>2, <2>7 DEF FeeIn
<1>5. h \in 0 .. h
  OBVIOUS
<1>6. ASSUME NEW b \in 1 .. h PROVE FeesIn(C, b) = FeesIn(D, b)
  <2>1. b \in 0 .. h
    OBVIOUS
  <2>2. [e \in EntryIn(C, b) |-> FeeIn(C, e)] = [e \in EntryIn(D, b) |-> FeeIn(D, e)]
    BY <1>1, <1>4, <2>1
  <2>3. {e \in EntryIn(C, b) : e[1] = b} = {e \in EntryIn(D, b) : e[1] = b}
    BY <1>1, <2>1
  <2> QED
    BY <2>2, <2>3 DEF FeesIn
<1>7. \A b \in 0 .. h : RewardAt(C, b) = RewardAt(D, b)
  BY <1>6 DEF RewardAt
<1> QED
  BY <1>1, <1>2, <1>3, <1>4, <1>5, <1>6, <1>7

\* What transfers and rewards give an account, on lists with the same entries and rewards.
LEMMA SameMatch ==
    ASSUME NEW C, NEW D, NEW g, NEW h, NEW k \in Nat, EntryIn(C, g) = EntryIn(D, h),
           \A e \in EntryIn(C, g) : TxIn(C, e) = TxIn(D, e) /\ FeeIn(C, e) = FeeIn(D, e),
           \A b \in 0 .. k : MinerAt(C, b) = MinerAt(D, b) /\ RewardAt(C, b) = RewardAt(D, b),
           NEW st, NEW a, Matches(st, C, g, k, a)
    PROVE  Matches(st, D, h, k, a)
<1> DEFINE E == EntryIn(C, g)
<1>1. PaidTo(C, g, a) = PaidTo(D, h, a)
  <2>1. [e \in EntryIn(C, g) |-> TxIn(C, e).amount] = [e \in EntryIn(D, h) |-> TxIn(D, e).amount]
    OBVIOUS
  <2>2. {e \in EntryIn(C, g) : TxIn(C, e).receiver = a} = {e \in EntryIn(D, h) : TxIn(D, e).receiver = a}
    OBVIOUS
  <2> QED
    BY <2>1, <2>2 DEF PaidTo
<1>2. SpentBy(C, g, a) = SpentBy(D, h, a) /\ SentBy(C, g, a) = SentBy(D, h, a)
  <2>1. [e \in EntryIn(C, g) |-> TxIn(C, e).amount + FeeIn(C, e)]
            = [e \in EntryIn(D, h) |-> TxIn(D, e).amount + FeeIn(D, e)]
    OBVIOUS
  <2>2. {e \in EntryIn(C, g) : TxIn(C, e).sender = a} = {e \in EntryIn(D, h) : TxIn(D, e).sender = a}
    OBVIOUS
  <2> QED
    BY <2>1, <2>2 DEF SpentBy, SentBy
<1>3. MinedBy(C, k, a) = MinedBy(D, k, a)
  <2>1. [b \in 0 .. k |-> RewardAt(C, b)] = [b \in 0 .. k |-> RewardAt(D, b)]
    OBVIOUS
  <2>2. RipeFor(C, k, a) = RipeFor(D, k, a)
    BY DEF RipeFor
  <2> QED
    BY <2>1, <2>2 DEF MinedBy
<1>4. WaitsFor(C, k, a) = WaitsFor(D, k, a)
  <2> DEFINE B == {b \in 0 .. k : MinerAt(C, b) = a /\ b + Maturity > k}
  <2>1. B = {b \in 0 .. k : MinerAt(D, b) = a /\ b + Maturity > k}
    OBVIOUS
  <2>2. \A b \in B : RewardAt(C, b) = RewardAt(D, b)
    OBVIOUS
  <2>3. {[amount |-> RewardAt(C, b), height |-> b + Maturity] : b \in B}
            = {[amount |-> RewardAt(D, b), height |-> b + Maturity] : b \in B}
    <3> HIDE DEF B
    <3>1. \A b \in B : [amount |-> RewardAt(C, b), height |-> b + Maturity]
                         = [amount |-> RewardAt(D, b), height |-> b + Maturity]
      BY <2>2
    <3> QED
      BY <3>1, Zenon
  <2> QED
    BY <2>1, <2>3 DEF WaitsFor
<1>5. Met(C, g, k) = Met(D, h, k)
  <2>1. {MinerAt(C, b) : b \in 0 .. k} = {MinerAt(D, b) : b \in 0 .. k}
    OBVIOUS
  <2>2. {TxIn(C, e).receiver : e \in EntryIn(C, g)} = {TxIn(D, e).receiver : e \in EntryIn(D, h)}
    OBVIOUS
  <2> QED
    BY <2>1, <2>2 DEF Met
<1> QED
  BY <1>1, <1>2, <1>3, <1>4, <1>5 DEF Matches

\* A block that has at most its coinbase adds no entry.
LEMMA EmptyTail ==
    ASSUME NEW C \in Seq(Blocks), NEW n \in Nat, n + 1 = Len(C), Len(C[n + 1].txs) <= 1
    PROVE  EntryIn(C, n + 1) = EntryIn(C, n) /\ FeesIn(C, n + 1) = 0
<1> DEFINE row == {<<n + 1, i>> : i \in 2 .. Len(C[n + 1].txs)}
<1>1. row = {}
  <2>1. Len(C[n + 1].txs) \in Nat
    BY DEF Blocks
  <2> QED
    BY <2>1
<1>2. EntryIn(C, n + 1) = EntryIn(C, n) \cup row
  <2>1. 1 .. (n + 1) = (1 .. n) \cup {n + 1}
    OBVIOUS
  <2> QED
    BY <2>1 DEF EntryIn
<1>3. {e \in EntryIn(C, n + 1) : e[1] = n + 1} = {}
  <2>1. n <= Len(C)
    OBVIOUS
  <2>2. \A e \in EntryIn(C, n) : e[1] \in 1 .. n
    BY <2>1, EntriesAre
  <2> QED
    BY <1>1, <1>2, <2>2
<1> QED
  BY <1>1, <1>2, <1>3, SumOfNone DEF FeesIn

\* D is C with transaction t added to its last block m, as entry e.
OneMore(C, D, n, m, t, e) ==
    /\ C \in Seq(Blocks) /\ D \in Seq(Blocks) /\ n \in Nat /\ m = n + 1
    /\ Len(C) = m /\ Len(D) = m
    /\ \A b \in 1 .. n : C[b] = D[b]
    /\ D[m].txs = Append(C[m].txs, t) /\ Len(C[m].txs) >= 1
    /\ e = <<m, Len(C[m].txs) + 1>>

\* It is one entry more, after all others.
LEMMA OneMoreEntry ==
    ASSUME NEW C, NEW D, NEW n, NEW m, NEW t, NEW e, OneMore(C, D, n, m, t, e)
    PROVE  /\ e \notin EntryIn(C, m) /\ EntryIn(D, m) = EntryIn(C, m) \cup {e}
           /\ TxIn(D, e) = t
           /\ \A f \in EntryIn(C, m) : TxIn(D, f) = TxIn(C, f) /\ FeeIn(D, f) = FeeIn(C, f)
           /\ FeeIn(D, e) = t.fee + (IF t.receiver \in Met(C, m, n) THEN 0 ELSE CreationFee)
<1> DEFINE k == Len(C[n + 1].txs)
           E == EntryIn(C, n + 1)
<1> USE DEF OneMore
<1>1. /\ C[n + 1].txs \in Seq(Transaction) /\ k \in Nat /\ k >= 1
      /\ Len(D[n + 1].txs) = k + 1 /\ D[n + 1].txs[k + 1] = t
      /\ \A i \in 1 .. k : D[n + 1].txs[i] = C[n + 1].txs[i]
  <2>1. C[n + 1].txs \in Seq(Transaction)
    <3>1. n + 1 \in 1 .. Len(C) /\ C[n + 1] \in Blocks
      OBVIOUS
    <3> QED
      BY <3>1 DEF Blocks
  <2> QED
    BY <2>1
<1>2. /\ \A f \in E : f[1] \in 1 .. (n + 1) /\ f[2] \in 2 .. Len(C[f[1]].txs) /\ f = <<f[1], f[2]>>
      /\ n + 1 \in Nat /\ n + 1 <= Len(C)
  <2>1. n + 1 \in Nat /\ n + 1 <= Len(C)
    OBVIOUS
  <2> QED
    BY <2>1, EntriesAre
<1>3. e[1] = n + 1 /\ e[2] = k + 1
  OBVIOUS
<1>4. e \notin E
  BY <1>1, <1>2, <1>3
<1>5. EntryIn(D, n + 1) = E \cup {e}
  <2> DEFINE old == {<<n + 1, i>> : i \in 2 .. k}
             new == {<<n + 1, i>> : i \in 2 .. (k + 1)}
             low == EntryIn(C, n)
  <2>1. 1 .. (n + 1) = (1 .. n) \cup {n + 1}
    OBVIOUS
  <2>2. E = low \cup old
    BY <2>1 DEF EntryIn
  <2>3. EntryIn(D, n + 1) = EntryIn(D, n) \cup new
    BY <1>1, <2>1 DEF EntryIn
  <2>4. EntryIn(D, n) = low
    BY DEF EntryIn
  <2>5. new = old \cup {e}
    <3>1. 2 .. (k + 1) = (2 .. k) \cup {k + 1}
      BY <1>1
    <3> QED
      BY <3>1
  <2> HIDE DEF old, new, low, E
  <2> QED
    BY <2>2, <2>3, <2>4, <2>5
<1>6. TxIn(D, e) = t
  BY <1>1, <1>3 DEF TxIn
<1>7. \A f \in E : TxIn(D, f) = TxIn(C, f)
  <2> SUFFICES ASSUME NEW f \in E PROVE TxIn(D, f) = TxIn(C, f)
    OBVIOUS
  <2>1. CASE f[1] \in 1 .. n
    BY <2>1 DEF TxIn
  <2>2. CASE f[1] = n + 1
    <3>1. f[2] \in 1 .. k
      BY <1>1, <1>2, <2>2
    <3> QED
      BY <1>1, <2>2, <3>1 DEF TxIn
  <2> QED
    BY <1>2, <2>1, <2>2
<1>8. \A b \in 0 .. n : EntryIn(C, b) = EntryIn(D, b)
  BY DEF EntryIn
<1>9. ASSUME NEW f \in E PROVE KnownIn(D, f) = KnownIn(C, f)
  <2> DEFINE B == 1 .. (f[1] - 1)
             G == {g \in EntryIn(C, f[1]) : Before(g, f)}
  <2>1. B \subseteq 1 .. n
    BY <1>2
  <2> HIDE DEF B
  <2>2. \A b \in B : C[b].miner = D[b].miner
    BY <2>1
  <2>3. {C[b].miner : b \in B} = {D[b].miner : b \in B}
    BY <2>2
  <2>4. G = {g \in EntryIn(D, f[1]) : Before(g, f)}
    <3>1. CASE f[1] \in 1 .. n
      BY <1>8, <3>1
    <3>2. CASE f[1] = n + 1
      <4>1. ~Before(e, f)
        BY <1>1, <1>2, <1>3, <3>2 DEF Before
      <4> QED
        BY <1>5, <3>2, <4>1
    <3> QED
      BY <1>2, <3>1, <3>2
  <2>5. G \subseteq E
    <3>1. CASE f[1] \in 1 .. n
      <4>1. EntryIn(C, f[1]) \subseteq E
        BY <3>1 DEF EntryIn
      <4> QED
        BY <4>1
    <3>2. CASE f[1] = n + 1
      BY <3>2
    <3> QED
      BY <1>2, <3>1, <3>2
  <2>6. \A g \in G : TxIn(D, g).receiver = TxIn(C, g).receiver
    BY <1>7, <2>5
  <2> HIDE DEF G
  <2>7. {TxIn(C, g).receiver : g \in G} = {TxIn(D, g).receiver : g \in G}
    BY <2>6
  <2> QED
    BY <2>3, <2>4, <2>7 DEF KnownIn, B, G
<1>10. KnownIn(D, e) = Met(C, n + 1, n)
  <2>1. {g \in EntryIn(D, n + 1) : Before(g, e)} = E
    <3>1. ~Before(e, e)
      BY <1>1, <1>3 DEF Before
    <3>2. \A g \in E : Before(g, e)
      BY <1>1, <1>2, <1>3 DEF Before
    <3> QED
      BY <1>5, <3>1, <3>2
  <2>2. {Founder} \cup {D[b].miner : b \in 1 .. n} = {MinerAt(C, b) : b \in 0 .. n}
    <3>1. 0 .. n = {0} \cup (1 .. n)
      OBVIOUS
    <3>2. MinerAt(C, 0) = Founder /\ \A b \in 1 .. n : MinerAt(C, b) = D[b].miner
      BY DEF MinerAt
    <3> QED
      BY <3>1, <3>2
  <2>3. {TxIn(D, g).receiver : g \in E} = {TxIn(C, g).receiver : g \in E}
    <3> HIDE DEF E
    <3>1. \A g \in E : TxIn(D, g).receiver = TxIn(C, g).receiver
      BY <1>7
    <3> QED
      BY <3>1
  <2>4. KnownIn(D, e) = {Founder} \cup {D[b].miner : b \in 1 .. n} \cup {TxIn(D, g).receiver : g \in E}
    <3>1. 1 .. (e[1] - 1) = 1 .. n
      BY <1>3
    <3> HIDE DEF E
    <3> QED
      BY <1>3, <2>1, <3>1 DEF KnownIn
  <2> QED
    BY <2>2, <2>3, <2>4 DEF Met
<1>11. \A f \in E : FeeIn(D, f) = FeeIn(C, f)
  BY <1>7, <1>9 DEF FeeIn
<1>12. FeeIn(D, e) = t.fee + (IF t.receiver \in Met(C, n + 1, n) THEN 0 ELSE CreationFee)
  BY <1>6, <1>10 DEF FeeIn
<1> QED
  BY <1>4, <1>5, <1>6, <1>7, <1>11, <1>12

\* A sum over one member more, of terms that are otherwise the same.
LEMMA SumGains ==
    ASSUME NEW T, IsFiniteSet(T), NEW f, NEW g, NEW e, e \notin T,
           \A x \in T : f[x] \in Int /\ g[x] = f[x], g[e] \in Int
    PROVE  /\ SumOver(f, T) \in Int /\ SumOver(g, T) = SumOver(f, T)
           /\ SumOver(g, T \cup {e}) = SumOver(f, T) + g[e]
<1>1. SumOver(f, T) \in Int
  BY SumType
<1>2. SumOver(g, T) = SumOver(f, T)
  BY SumOfEquals
<1>3. \A x \in T \cup {e} : g[x] \in Int
  OBVIOUS
<1>4. SumOver(g, T \cup {e}) = SumOver(g, T) + g[e]
  BY <1>3, SumOfOneMore
<1> QED
  BY <1>1, <1>2, <1>4

\* What an account was paid, spent and was rewarded with are numbers.
LEMMA MatchNumbers ==
    ASSUME NEW C \in Seq(Blocks), NEW h \in Nat, h <= Len(C), NEW a
    PROVE  /\ PaidTo(C, h, a) \in Nat /\ SpentBy(C, h, a) \in Nat /\ SentBy(C, h, a) \in Nat
           /\ h \in Heights => MinedBy(C, h, a) \in Nat
           /\ h \in Heights => \A b \in 0 .. h : RewardAt(C, b) \in Nat
<1> DEFINE E == EntryIn(C, h)
           paid == [e \in E |-> TxIn(C, e).amount]
           cost == [e \in E |-> TxIn(C, e).amount + FeeIn(C, e)]
           P == {e \in E : TxIn(C, e).receiver = a}
           S == {e \in E : TxIn(C, e).sender = a}
<1>1. /\ IsFiniteSet(P) /\ IsFiniteSet(S)
      /\ \A e \in P : paid[e] \in Nat
      /\ \A e \in S : cost[e] \in Nat
  <2>1. IsFiniteSet(E)
    BY EntriesAre
  <2>2. \A e \in E : FeeIn(C, e) \in Nat /\ TxIn(C, e).amount \in Nat
    BY EntriesCost
  <2>3. IsFiniteSet(P) /\ IsFiniteSet(S)
    <3>1. P \in SUBSET E /\ S \in SUBSET E
      OBVIOUS
    <3> HIDE DEF E, P, S
    <3> QED
      BY <2>1, <3>1, FS_Subset
  <2>4. \A e \in E : paid[e] \in Nat /\ cost[e] \in Nat
    BY <2>2
  <2> QED
    BY <2>3, <2>4
<1>2. PaidTo(C, h, a) = SumOver(paid, P) /\ SpentBy(C, h, a) = SumOver(cost, S)
  BY DEF PaidTo, SpentBy
<1>3. SentBy(C, h, a) \in Nat
  BY <1>1, FS_CardinalityType DEF SentBy
<1>4. ASSUME h \in Heights
      PROVE  /\ \A b \in 0 .. h : RewardAt(C, b) \in Nat
             /\ MinedBy(C, h, a) \in Nat
  <2>1. \A b \in 0 .. h : b \in Heights
    BY <1>4, ExecutionAssumption DEF Heights
  <2>2. \A b \in 0 .. h : RewardAt(C, b) \in Nat
    BY <2>1, EntriesCost, RewardAssumption DEF RewardAt
  <2> DEFINE f == [b \in 0 .. h |-> RewardAt(C, b)]
             R == RipeFor(C, h, a)
  <2>3. IsFiniteSet(0 .. h) /\ R \in SUBSET (0 .. h)
    BY FS_Interval DEF RipeFor
  <2>4. IsFiniteSet(R) /\ \A b \in R : f[b] \in Nat
    BY <2>2, <2>3, FS_Subset
  <2>5. MinedBy(C, h, a) = SumOver(f, R)
    BY DEF MinedBy
  <2> HIDE DEF f, R
  <2>6. SumOver(f, R) \in Nat
    BY <2>4, SumOfNaturals
  <2> QED
    BY <2>2, <2>5, <2>6
<1>5. SumOver(paid, P) \in Nat /\ SumOver(cost, S) \in Nat
  <2> HIDE DEF paid, cost, P, S
  <2> QED
    BY <1>1, SumOfNaturals
<1> QED
  BY <1>2, <1>3, <1>4, <1>5

\* What one transaction more changes.
NextFee(C, n, m, t) == t.fee + (IF t.receiver \in Met(C, m, n) THEN 0 ELSE CreationFee)

LEMMA OneMoreTx ==
    ASSUME NEW C, NEW D, NEW n, NEW m, NEW t \in Transaction, NEW e, OneMore(C, D, n, m, t, e)
    PROVE  /\ NextFee(C, n, m, t) \in Nat
           /\ FeesIn(D, m) = FeesIn(C, m) + NextFee(C, n, m, t)
           /\ Met(D, m, n) = Met(C, m, n) \cup {t.receiver}
           /\ \A a : /\ PaidTo(D, m, a) = PaidTo(C, m, a) + (IF t.receiver = a THEN t.amount ELSE 0)
                     /\ SpentBy(D, m, a) =
                           SpentBy(C, m, a) + (IF t.sender = a THEN t.amount + NextFee(C, n, m, t) ELSE 0)
                     /\ SentBy(D, m, a) = SentBy(C, m, a) + (IF t.sender = a THEN 1 ELSE 0)
                     /\ MinedBy(D, n, a) = MinedBy(C, n, a)
                     /\ WaitsFor(D, n, a) = WaitsFor(C, n, a)
<1> DEFINE E == EntryIn(C, m)
           F == EntryIn(D, m)
           fee == NextFee(C, n, m, t)
<1>1. /\ e \notin E /\ F = E \cup {e} /\ TxIn(D, e) = t
      /\ \A f \in E : TxIn(D, f) = TxIn(C, f) /\ FeeIn(D, f) = FeeIn(C, f)
      /\ FeeIn(D, e) = fee
  BY OneMoreEntry DEF NextFee
<1>2. /\ \A b \in 0 .. n : MinerAt(C, b) = MinerAt(D, b) /\ RewardAt(C, b) = RewardAt(D, b)
      /\ \A f \in E : f[1] \in 1 .. (m)
  <2>1. n <= Len(C) /\ n <= Len(D) /\ m \in Nat /\ m <= Len(C) /\ m = n + 1
    BY DEF OneMore
  <2>2. C \in Seq(Blocks) /\ D \in Seq(Blocks) /\ n \in Nat /\ \A b \in 1 .. n : C[b] = D[b]
    BY DEF OneMore
  <2> QED
    BY <2>1, <2>2, SameEntries, EntriesAre
<1>3. /\ IsFiniteSet(E)
      /\ \A f \in E : FeeIn(C, f) \in Nat /\ TxIn(C, f).amount \in Nat
  <2>1. C \in Seq(Blocks) /\ m \in Nat /\ m <= Len(C)
    BY DEF OneMore
  <2> QED
    BY <2>1, EntriesAre, EntriesCost
<1>4. fee \in Nat /\ t.amount \in Nat /\ e[1] = m
  BY ExecutionAssumption DEF Transaction, NextFee, OneMore
<1> HIDE DEF fee
<1>5. FeesIn(D, m) = FeesIn(C, m) + fee
  <2> DEFINE f == [x \in E |-> FeeIn(C, x)]
             g == [x \in F |-> FeeIn(D, x)]
             T == {x \in E : x[1] = m}
  <2>1. FeesIn(C, m) = SumOver(f, T) /\ FeesIn(D, m) = SumOver(g, {x \in F : x[1] = m})
    BY DEF FeesIn
  <2>2. {x \in F : x[1] = m} = T \cup {e} /\ e \notin T /\ T \in SUBSET E
    BY <1>1, <1>4
  <2>3. \A x \in T : f[x] \in Int /\ g[x] = f[x]
    BY <1>1, <1>3
  <2>4. g[e] = fee
    BY <1>1
  <2>5. IsFiniteSet(T)
    <3> HIDE DEF E, T
    <3> QED
      BY <1>3, <2>2, FS_Subset
  <2> HIDE DEF f, g, T, F
  <2>6. SumOver(g, T \cup {e}) = SumOver(f, T) + g[e]
    <3>1. g[e] \in Int /\ e \notin T
      BY <1>4, <2>2, <2>4
    <3>2. SumOver(g, T \cup {e}) = SumOver(f, T) + g[e]
      BY ONLY <2>3, <2>5, <3>1, SumGains
    <3> QED
      BY <2>3, <2>5, <3>2, SumOfEquals, SumType
  <2> QED
    BY <2>1, <2>2, <2>4, <2>6
<1>6. Met(D, m, n) = Met(C, m, n) \cup {t.receiver}
  <2>1. {MinerAt(D, b) : b \in 0 .. n} = {MinerAt(C, b) : b \in 0 .. n}
    BY <1>2
  <2>2. {TxIn(D, x).receiver : x \in F} = {TxIn(C, x).receiver : x \in E} \cup {t.receiver}
    <3>1. \A x \in E : TxIn(D, x).receiver = TxIn(C, x).receiver
      BY <1>1
    <3> HIDE DEF E, F
    <3> QED
      BY <1>1, <3>1
  <2> QED
    BY <2>1, <2>2 DEF Met
<1>7. ASSUME NEW a
      PROVE  PaidTo(D, m, a) = PaidTo(C, m, a) + (IF t.receiver = a THEN t.amount ELSE 0)
  <2> DEFINE f == [x \in E |-> TxIn(C, x).amount]
             g == [x \in F |-> TxIn(D, x).amount]
             T == {x \in E : TxIn(C, x).receiver = a}
             U == {x \in F : TxIn(D, x).receiver = a}
  <2>1. PaidTo(C, m, a) = SumOver(f, T) /\ PaidTo(D, m, a) = SumOver(g, U)
    BY DEF PaidTo
  <2>2. U = (IF t.receiver = a THEN T \cup {e} ELSE T) /\ e \notin T /\ T \in SUBSET E
    BY <1>1
  <2>3. \A x \in T : f[x] \in Int /\ g[x] = f[x]
    BY <1>1, <1>3
  <2>4. g[e] = t.amount
    BY <1>1
  <2>5. IsFiniteSet(T)
    <3> HIDE DEF E, T
    <3> QED
      BY <1>3, <2>2, FS_Subset
  <2> HIDE DEF f, g, T, F, U
  <2>6. /\ SumOver(g, T \cup {e}) = SumOver(f, T) + g[e]
        /\ SumOver(g, T) = SumOver(f, T) /\ SumOver(f, T) \in Int
    <3>1. g[e] \in Int /\ e \notin T
      BY <1>4, <2>2, <2>4
    <3>2. SumOver(g, T \cup {e}) = SumOver(f, T) + g[e]
      BY ONLY <2>3, <2>5, <3>1, SumGains
    <3> QED
      BY <2>3, <2>5, <3>2, SumOfEquals, SumType
  <2> QED
    BY <2>1, <2>2, <2>4, <2>6
<1>8. ASSUME NEW a
      PROVE  /\ SpentBy(D, m, a) = SpentBy(C, m, a) + (IF t.sender = a THEN t.amount + fee ELSE 0)
             /\ SentBy(D, m, a) = SentBy(C, m, a) + (IF t.sender = a THEN 1 ELSE 0)
  <2> DEFINE f == [x \in E |-> TxIn(C, x).amount + FeeIn(C, x)]
             g == [x \in F |-> TxIn(D, x).amount + FeeIn(D, x)]
             T == {x \in E : TxIn(C, x).sender = a}
             U == {x \in F : TxIn(D, x).sender = a}
  <2>1. /\ SpentBy(C, m, a) = SumOver(f, T) /\ SpentBy(D, m, a) = SumOver(g, U)
        /\ SentBy(C, m, a) = Cardinality(T) /\ SentBy(D, m, a) = Cardinality(U)
    BY DEF SpentBy, SentBy
  <2>2. U = (IF t.sender = a THEN T \cup {e} ELSE T) /\ e \notin T /\ T \in SUBSET E
    BY <1>1
  <2>3. \A x \in T : f[x] \in Int /\ g[x] = f[x]
    BY <1>1, <1>3
  <2>4. g[e] = t.amount + fee /\ t.amount + fee \in Int
    BY <1>1, <1>4
  <2>5. IsFiniteSet(T)
    <3> HIDE DEF E, T
    <3> QED
      BY <1>3, <2>2, FS_Subset
  <2> HIDE DEF f, g, T, F, U
  <2>6. /\ SumOver(g, T \cup {e}) = SumOver(f, T) + g[e]
        /\ SumOver(g, T) = SumOver(f, T) /\ SumOver(f, T) \in Int
    <3>1. g[e] \in Int /\ e \notin T
      BY <2>2, <2>4
    <3>2. SumOver(g, T \cup {e}) = SumOver(f, T) + g[e]
      BY ONLY <2>3, <2>5, <3>1, SumGains
    <3> QED
      BY <2>3, <2>5, <3>2, SumOfEquals, SumType
  <2>7. Cardinality(T \cup {e}) = Cardinality(T) + 1 /\ Cardinality(T) \in Nat
    BY <2>2, <2>5, FS_AddElement, FS_CardinalityType
  <2> QED
    BY <2>1, <2>2, <2>4, <2>6, <2>7
<1>9. ASSUME NEW a PROVE MinedBy(D, n, a) = MinedBy(C, n, a) /\ WaitsFor(D, n, a) = WaitsFor(C, n, a)
  <2>1. [b \in 0 .. n |-> RewardAt(C, b)] = [b \in 0 .. n |-> RewardAt(D, b)]
    BY <1>2
  <2>2. RipeFor(C, n, a) = RipeFor(D, n, a)
    BY <1>2 DEF RipeFor
  <2> DEFINE B == {b \in 0 .. n : MinerAt(C, b) = a /\ b + Maturity > n}
  <2>3. B = {b \in 0 .. n : MinerAt(D, b) = a /\ b + Maturity > n}
    BY <1>2
  <2>4. \A b \in B : RewardAt(C, b) = RewardAt(D, b)
    BY <1>2
  <2>5. {[amount |-> RewardAt(C, b), height |-> b + Maturity] : b \in B}
            = {[amount |-> RewardAt(D, b), height |-> b + Maturity] : b \in B}
    BY <2>4
  <2> QED
    BY <2>1, <2>2, <2>3, <2>5 DEF MinedBy, WaitsFor
<1> QED
  BY <1>4, <1>5, <1>6, <1>7, <1>8, <1>9 DEF fee

---------------------------------------------------------------------------
\* Accounts against the chain: rewards that ripen.

\* Every block pays something, as the code's schedule does to the end of year 307.
EmissionRuns == \A h \in Heights : Reward(h) > 0

LEMMA TotalOfFew ==
    /\ Total({}) = 0
    /\ \A x \in MaturingReward : Total({x}) = x.amount
<1>1. Total({}) = 0
  <2>1. Total({}) = SumOver([r \in {} |-> r.amount], {})
    BY ZenonT(30) DEF Total, SumOver, MapThenSumSet, MapThenFoldSet
  <2> QED
    BY <2>1, SumOfNone
<1>2. ASSUME NEW x \in MaturingReward PROVE Total({x}) = x.amount
  <2>1. Total({} \cup {x}) = Total({}) + x.amount
    <3>1. {} \subseteq MaturingReward /\ IsFiniteSet({}) /\ x \notin {}
      BY FS_EmptySet
    <3> QED
      BY <3>1, TotalOfParts
  <2>2. {} \cup {x} = {x} /\ x.amount \in Nat
    BY DEF MaturingReward
  <2> QED
    BY <1>1, <2>1, <2>2
<1> QED
  BY <1>1, <1>2

LEMMA PayOutIs ==
    ASSUME NEW st, Sound(st), NEW h
    PROVE  /\ PayOut(st, h) \in AccountState
           /\ PayOut(st, h).btc_z = st.btc_z + Total(Ripe(st.maturing, h))
           /\ PayOut(st, h).nonce = st.nonce
           /\ PayOut(st, h).maturing = st.maturing \ Ripe(st.maturing, h)
           /\ Total(Ripe(st.maturing, h)) \in Nat
<1> DEFINE R == Ripe(st.maturing, h)
           q == PayOut(st, h)
<1>1. st \in AccountState /\ st.maturing \subseteq MaturingReward /\ IsFiniteSet(st.maturing)
  BY DEF Sound, AccountState
<1>2. R \in SUBSET st.maturing
  BY DEF Ripe
<1>3. Total(R) \in Nat
  BY <1>1, <1>2, TotalOfParts
<1>4. q = [st EXCEPT !.btc_z = @ + Total(R), !.maturing = @ \ R]
  BY DEF PayOut
<1>5. q \in AccountState
  BY PayOutSound DEF Sound
<1> HIDE DEF q, R
<1>6. q.btc_z = st.btc_z + Total(R) /\ q.nonce = st.nonce /\ q.maturing = st.maturing \ R
  BY <1>1, <1>4 DEF AccountState
<1> QED
  BY <1>3, <1>5, <1>6 DEF q, R

\* Account states with equal fields are equal.
LEMMA SameState ==
    ASSUME NEW s \in AccountState, NEW t \in AccountState,
           s.btc_z = t.btc_z, s.nonce = t.nonce, s.maturing = t.maturing
    PROVE  s = t
BY DEF AccountState

\* What was paid out at a height need not be before paying out at a later one.
LEMMA PayOutAgain ==
    ASSUME NEW st, Sound(st), NEW h \in Nat, NEW k \in Nat, h <= k
    PROVE  PayOut(PayOut(st, h), k) = PayOut(st, k)
<1> DEFINE M == st.maturing
           A == Ripe(M, h)
           B == Ripe(M \ A, k)
           R == Ripe(M, k)
           p == PayOut(st, h)
<1>1. M \subseteq MaturingReward /\ IsFiniteSet(M) /\ st.btc_z \in Nat
  BY DEF Sound, AccountState
<1>2. /\ p.btc_z = st.btc_z + Total(A) /\ p.nonce = st.nonce /\ p.maturing = M \ A
      /\ Total(A) \in Nat
  BY PayOutIs
<1>3. Sound(p)
  BY PayOutSound
<1>4. /\ PayOut(p, k) \in AccountState
      /\ PayOut(p, k).btc_z = p.btc_z + Total(B) /\ PayOut(p, k).nonce = p.nonce
      /\ PayOut(p, k).maturing = (M \ A) \ B /\ Total(B) \in Nat
  <2> HIDE DEF p
  <2> QED
    BY <1>2, <1>3, PayOutIs
<1>5. /\ PayOut(st, k) \in AccountState
      /\ PayOut(st, k).btc_z = st.btc_z + Total(R) /\ PayOut(st, k).nonce = st.nonce
      /\ PayOut(st, k).maturing = M \ R
  BY PayOutIs
<1>6. A \in SUBSET R /\ B = R \ A /\ R \in SUBSET M /\ (M \ A) \ B = M \ R
  <2>1. \A w \in M : w.height \in Nat
    BY <1>1 DEF MaturingReward
  <2>2. \A w \in M : h >= w.height => k >= w.height
    BY <2>1
  <2> QED
    BY <2>2 DEF Ripe
<1>7. Total(R) = Total(A) + Total(B)
  <2>1. R \subseteq MaturingReward /\ IsFiniteSet(R)
    <3> HIDE DEF R, M
    <3> QED
      BY <1>1, <1>6, FS_Subset
  <2> HIDE DEF A, B, R
  <2> QED
    BY <1>6, <2>1, TotalOfParts
<1>8. PayOut(p, k).btc_z = PayOut(st, k).btc_z
  <2> HIDE DEF p, A, B, R
  <2> QED
    BY <1>1, <1>2, <1>4, <1>5, <1>7
<1> HIDE DEF p, A, B, R, M
<1>9. PayOut(p, k) = PayOut(st, k)
  BY <1>2, <1>4, <1>5, <1>6, <1>8, SameState
<1> QED
  BY <1>9 DEF p

\* Of the rewards that wait, at most one ripens with the next block.
LEMMA RewardMatches ==
    ASSUME EmissionRuns,
           NEW D \in Seq(Blocks), NEW n \in Nat, NEW m, m = n + 1, Len(D) = m, m \in Heights,
           NEW a, NEW c, Sound(c), Matches(c, D, m, n, a), NEW s, Sound(s),
           s.btc_z = c.btc_z, s.nonce = c.nonce,
           s.maturing = IF a = D[m].miner
                        THEN c.maturing \cup {[amount |-> RewardAt(D, m), height |-> m + Maturity]}
                        ELSE c.maturing
    PROVE  Matches(PayOut(s, m), D, m, m, a)
<1> DEFINE z == m - Maturity
           ripens == z \in 0 .. m /\ MinerAt(D, z) = a
           rec(b) == [amount |-> RewardAt(D, b), height |-> b + Maturity]
           W == {b \in 0 .. m : MinerAt(D, b) = a /\ b + Maturity > n}
           R == Ripe(s.maturing, m)
           q == PayOut(s, m)
           f == [b \in 0 .. n |-> RewardAt(D, b)]
           g == [b \in 0 .. m |-> RewardAt(D, b)]
<1>1. /\ n \in Heights /\ Maturity \in Nat /\ m \in Nat /\ 0 .. m = (0 .. n) \cup {m}
      /\ m \notin 0 .. n /\ m \in 0 .. m /\ MinerAt(D, m) = D[m].miner
  BY ExecutionAssumption DEF Heights, MinerAt
<1>2. \A b \in 0 .. m : RewardAt(D, b) \in Nat /\ RewardAt(D, b) > 0
  <2>1. m \in Nat /\ m <= Len(D)
    BY <1>1
  <2>2. \A b \in 0 .. m : b \in Heights
    BY <1>1, ExecutionAssumption DEF Heights
  <2>3. \A b \in 1 .. m : FeesIn(D, b) \in Nat
    BY <2>1, EntriesCost
  <2> QED
    BY <1>1, <2>2, <2>3, RewardAssumption DEF RewardAt, EmissionRuns
<1>3. s.maturing = {rec(b) : b \in W}
  <2>1. c.maturing = {rec(b) : b \in {b \in 0 .. n : MinerAt(D, b) = a /\ b + Maturity > n}}
    BY DEF Matches, WaitsFor
  <2> DEFINE V == {b \in 0 .. n : MinerAt(D, b) = a /\ b + Maturity > n}
  <2>2. W = IF a = D[m].miner THEN V \cup {m} ELSE V
    BY <1>1
  <2> HIDE DEF V, W
  <2> QED
    BY <2>1, <2>2 DEF V
<1>4. \A b \in W : rec(b) \in MaturingReward /\ rec(b).height = b + Maturity /\ b \in Nat
  BY <1>1, <1>2 DEF MaturingReward
<1>5. R = IF ripens THEN {rec(z)} ELSE {}
  <2>1. R = {rec(b) : b \in {b \in W : m >= b + Maturity}}
    BY <1>3, <1>4 DEF Ripe
  <2>2. {b \in W : m >= b + Maturity} = IF ripens THEN {z} ELSE {}
    <3>1. \A b \in W : m >= b + Maturity => b = z
      BY <1>1
    <3>2. ripens => z \in W /\ m >= z + Maturity
      BY <1>1
    <3>3. \A b \in W : b = z => ripens
      OBVIOUS
    <3> HIDE DEF W, ripens, z
    <3> QED
      BY <3>1, <3>2, <3>3
  <2> HIDE DEF W, z, ripens, R
  <2> QED
    BY <2>1, <2>2
<1>6. s.maturing \ R = WaitsFor(D, m, a)
  <2>1. R = {rec(b) : b \in {b \in W : m >= b + Maturity}}
    BY <1>3, <1>4 DEF Ripe
  <2>2. s.maturing \ R = {rec(b) : b \in {b \in W : ~(m >= b + Maturity)}}
    BY <1>3, <1>4 DEF Ripe
  <2>3. {b \in W : ~(m >= b + Maturity)} = {b \in 0 .. m : MinerAt(D, b) = a /\ b + Maturity > m}
    BY <1>1
  <2> HIDE DEF W, R
  <2> QED
    BY <2>2, <2>3 DEF WaitsFor
<1>7. Total(R) = IF ripens THEN RewardAt(D, z) ELSE 0
  <2>1. ripens => rec(z) \in MaturingReward /\ rec(z).amount = RewardAt(D, z)
    BY <1>1, <1>2 DEF MaturingReward
  <2> HIDE DEF ripens, z, R, rec
  <2> QED
    BY <1>5, <2>1, TotalOfFew
<1>8. MinedBy(D, m, a) = MinedBy(D, n, a) + Total(R) /\ MinedBy(D, n, a) \in Nat
  <2> DEFINE S == RipeFor(D, n, a)
  <2>1. RipeFor(D, m, a) = (IF ripens THEN S \cup {z} ELSE S) /\ z \notin S /\ S \in SUBSET (0 .. n)
    <3>1. \A b \in 0 .. m : b + Maturity <= m => b + Maturity <= n \/ b = z
      BY <1>1
    <3>2. z \notin S
      BY <1>1 DEF RipeFor
    <3>3. \A b \in 0 .. m : b + Maturity <= n => b \in 0 .. n
      BY <1>1
    <3>4. z + Maturity = m
      BY <1>1
    <3>5. S = {b \in 0 .. m : MinerAt(D, b) = a /\ b + Maturity <= n}
      BY <1>1, <3>3 DEF RipeFor
    <3>6. RipeFor(D, m, a) = {b \in 0 .. m : MinerAt(D, b) = a /\ b + Maturity <= m}
      BY DEF RipeFor
    <3>7. \A b \in 0 .. m : b + Maturity <= n => b + Maturity <= m
      BY <1>1
    <3>8. ASSUME NEW b
          PROVE  b \in RipeFor(D, m, a) <=> b \in S \/ (ripens /\ b = z)
      <4>1. CASE b \in 0 .. m
        <5> HIDE DEF z, S
        <5> QED
          BY <1>1, <3>1, <3>4, <3>5, <3>6, <3>7, <4>1
      <4>2. CASE b \notin 0 .. m
        BY <3>5, <3>6, <4>2
      <4> QED
        BY <4>1, <4>2
    <3>9. S \in SUBSET (0 .. n)
      BY DEF RipeFor
    <3> HIDE DEF S, z, ripens
    <3> QED
      BY <3>2, <3>8, <3>9
  <2>2. IsFiniteSet(S) /\ \A b \in S : f[b] \in Int /\ g[b] = f[b]
    <3>1. IsFiniteSet(0 .. n)
      <4>1. 0 \in Int /\ n \in Int
        OBVIOUS
      <4> QED
        BY <4>1, FS_Interval
    <3>2. \A b \in 0 .. n : f[b] \in Int /\ g[b] = f[b]
      BY <1>1, <1>2
    <3> HIDE DEF S, f, g
    <3>3. IsFiniteSet(S)
      BY <2>1, <3>1, FS_Subset
    <3> QED
      BY <2>1, <3>2, <3>3
  <2>3. ripens => g[z] = RewardAt(D, z) /\ g[z] \in Int
    BY <1>2
  <2>4. MinedBy(D, n, a) = SumOver(f, S) /\ MinedBy(D, m, a) = SumOver(g, RipeFor(D, m, a))
    BY DEF MinedBy
  <2> HIDE DEF f, g, S, z, ripens, R
  <2>5. SumOver(g, S) = SumOver(f, S) /\ SumOver(f, S) \in Int
    BY <2>2, SumOfEquals, SumType
  <2>6. ripens => SumOver(g, S \cup {z}) = SumOver(f, S) + g[z]
    <3> SUFFICES ASSUME ripens PROVE SumOver(g, S \cup {z}) = SumOver(f, S) + g[z]
      OBVIOUS
    <3>1. g[z] \in Int /\ z \notin S
      BY <2>1, <2>3
    <3> QED
      BY ONLY <2>2, <3>1, SumGains
  <2>7. MinedBy(D, n, a) \in Nat
    <3>1. n <= Len(D)
      OBVIOUS
    <3> QED
      BY <1>1, <3>1, MatchNumbers
  <2> QED
    BY <1>7, <2>1, <2>3, <2>4, <2>5, <2>6, <2>7
<1>9. /\ q.btc_z = c.btc_z + Total(R) /\ q.nonce = c.nonce /\ q.maturing = s.maturing \ R
      /\ c.btc_z \in Nat /\ c.nonce \in Nat /\ Total(R) \in Nat
  <2>1. /\ q.btc_z = s.btc_z + Total(R) /\ q.nonce = s.nonce /\ q.maturing = s.maturing \ R
        /\ Total(R) \in Nat
    BY PayOutIs
  <2>2. c.btc_z \in Nat /\ c.nonce \in Nat
    BY DEF Sound, AccountState
  <2> QED
    BY <2>1, <2>2
<1>10. q.btc_z = PaidTo(D, m, a) - SpentBy(D, m, a) + MinedBy(D, m, a)
  <2>1. PaidTo(D, m, a) \in Nat /\ SpentBy(D, m, a) \in Nat
    <3>1. m \in Nat /\ m <= Len(D)
      BY <1>1
    <3> QED
      BY <3>1, MatchNumbers
  <2>2. c.btc_z = PaidTo(D, m, a) - SpentBy(D, m, a) + MinedBy(D, n, a)
    BY DEF Matches
  <2> HIDE DEF q, R
  <2> QED
    BY <1>8, <1>9, <2>1, <2>2
<1>11. IsNewWallet(q) <=> a \notin Met(D, m, m)
  <2>1. Met(D, m, m) = Met(D, m, n) \cup {D[m].miner}
    BY <1>1 DEF Met
  <2>2. IsNewWallet(c) <=> a \notin Met(D, m, n)
    BY DEF Matches
  <2>3. CASE IsNewWallet(c) /\ a # D[m].miner
    <3>1. s.maturing = {} /\ c.btc_z = 0 /\ c.nonce = 0
      BY <2>3 DEF IsNewWallet
    <3>2. R = {}
      BY <3>1 DEF Ripe
    <3> HIDE DEF q, R
    <3>3. Total(R) = 0
      BY <3>2, TotalOfFew
    <3>4. IsNewWallet(q)
      <4>1. q.btc_z = 0 /\ q.nonce = 0
        BY <1>9, <3>1, <3>3
      <4>2. q.maturing = {}
        BY <1>9, <3>1
      <4> QED
        BY <4>1, <4>2 DEF IsNewWallet
    <3> QED
      BY <2>1, <2>2, <2>3, <3>4
  <2>4. CASE ~(IsNewWallet(c) /\ a # D[m].miner)
    <3>1. s.maturing # {} => Total(R) > 0 \/ s.maturing \ R # {}
      <4>1. ripens => Total(R) > 0
        BY <1>2, <1>7
      <4>2. ~ripens => R = {}
        BY <1>5
      <4> QED
        BY <4>1, <4>2
    <3>2. s.maturing = {} => s.maturing = c.maturing /\ ~IsNewWallet(c)
      BY <2>4
    <3>3. ~IsNewWallet(q)
      <4> HIDE DEF q, R
      <4> QED
        BY <1>9, <3>1, <3>2 DEF IsNewWallet
    <3> QED
      BY <2>1, <2>2, <2>4, <3>3
  <2> QED
    BY <2>3, <2>4
<1>12. q.nonce = SentBy(D, m, a)
  BY <1>9 DEF Matches
<1> HIDE DEF q
<1> QED
  BY <1>6, <1>9, <1>10, <1>11, <1>12 DEF Matches, q

---------------------------------------------------------------------------
\* Accounts against the chain: transfers.

LEMMA TransferIs ==
    ASSUME NEW c, SoundTree(c), NEW t \in Transaction, Payable(c, t), IsTransfer(t),
           t.sender \in Account
    PROVE  /\ Spend(c, t) = t.amount + FeesOf(c, t) /\ Spend(c, t) \in Nat
           /\ c[t.sender].btc_z >= Spend(c, t)
           /\ \A a \in Account :
                 /\ Transfer(c, t)[a].btc_z = c[a].btc_z - (IF a = t.sender THEN Spend(c, t) ELSE 0)
                                                         + (IF a = t.receiver THEN t.amount ELSE 0)
                 /\ Transfer(c, t)[a].nonce = c[a].nonce + (IF a = t.sender THEN 1 ELSE 0)
                 /\ Transfer(c, t)[a].maturing = c[a].maturing
                 /\ c[a].btc_z \in Nat /\ c[a].nonce \in Nat
<1> DEFINE x == Spend(c, t)
           d == [c EXCEPT ![t.sender].btc_z = @ - x, ![t.sender].nonce = @ + 1]
           e == Transfer(c, t)
<1>1. /\ t.amount \in Nat /\ t.fee \in Nat /\ t.receiver \in Account
      /\ CreationCharge(c, t) \in Nat /\ x \in Nat /\ x = t.amount + FeesOf(c, t)
  BY ExecutionAssumption DEF Transaction, CreationCharge, Spend, FeesOf
<1>2. /\ c[t.sender].btc_z >= x
      /\ e = [d EXCEPT ![t.receiver].btc_z = @ + t.amount]
      /\ \A a \in Account : e[a].maturing = c[a].maturing
  BY TransferSound DEF Payable, Transfer
<1>3. \A a \in Account : c[a] \in AccountState
  BY DEF SoundTree, Sound
<1>4. \A a \in Account : c[a].btc_z \in Nat /\ c[a].nonce \in Nat
  BY <1>3 DEF AccountState
<1> HIDE DEF x
<1>5. /\ DOMAIN d = Account
      /\ \A a \in Account : a # t.sender => d[a] = c[a]
      /\ d[t.sender] = [c[t.sender] EXCEPT !.btc_z = @ - x, !.nonce = @ + 1]
  BY <1>2 DEF SoundTree
<1>6. /\ d[t.sender].btc_z = c[t.sender].btc_z - x /\ d[t.sender].nonce = c[t.sender].nonce + 1
      /\ d[t.sender] \in AccountState
  BY <1>1, <1>2, <1>3, <1>4, <1>5 DEF AccountState
<1>7. \A a \in Account : d[a] \in AccountState
  BY <1>3, <1>5, <1>6
<1> HIDE DEF d, e
<1>8. /\ \A a \in Account : a # t.receiver => e[a] = d[a]
      /\ e[t.receiver] = [d[t.receiver] EXCEPT !.btc_z = @ + t.amount]
  BY <1>1, <1>2, <1>5
<1>9. e[t.receiver].btc_z = d[t.receiver].btc_z + t.amount /\ e[t.receiver].nonce = d[t.receiver].nonce
  BY <1>1, <1>7, <1>8 DEF AccountState
<1>10. \A a \in Account :
          /\ d[a].btc_z = c[a].btc_z - (IF a = t.sender THEN x ELSE 0)
          /\ d[a].nonce = c[a].nonce + (IF a = t.sender THEN 1 ELSE 0)
  <2> SUFFICES ASSUME NEW a \in Account
               PROVE  /\ d[a].btc_z = c[a].btc_z - (IF a = t.sender THEN x ELSE 0)
                      /\ d[a].nonce = c[a].nonce + (IF a = t.sender THEN 1 ELSE 0)
    OBVIOUS
  <2>1. c[a].btc_z \in Nat /\ c[a].nonce \in Nat
    BY <1>4
  <2>2. CASE a = t.sender
    BY ONLY <1>6, <2>1, <2>2
  <2>3. CASE a # t.sender
    <3>1. d[a] = c[a]
      BY <1>5, <2>3
    <3> QED
      BY ONLY <3>1, <2>1, <2>3
  <2> QED
    BY ONLY <2>2, <2>3
<1>11. \A a \in Account :
          /\ e[a].btc_z = d[a].btc_z + (IF a = t.receiver THEN t.amount ELSE 0)
          /\ e[a].nonce = d[a].nonce
  <2> SUFFICES ASSUME NEW a \in Account
               PROVE  /\ e[a].btc_z = d[a].btc_z + (IF a = t.receiver THEN t.amount ELSE 0)
                      /\ e[a].nonce = d[a].nonce
    OBVIOUS
  <2>1. d[a].btc_z \in Nat /\ d[a].nonce \in Nat
    BY <1>7 DEF AccountState
  <2>2. CASE a = t.receiver
    BY ONLY <1>9, <2>1, <2>2
  <2>3. CASE a # t.receiver
    <3>1. e[a] = d[a]
      BY <1>8, <2>3
    <3> QED
      BY ONLY <3>1, <2>1, <2>3
  <2> QED
    BY ONLY <2>2, <2>3
<1> QED
  BY <1>1, <1>2, <1>4, <1>10, <1>11 DEF x, e

\* A transfer does to the cache what its entry does to the books.
LEMMA TransferMatches ==
    ASSUME NEW C, NEW D, NEW n, NEW m, NEW t \in Transaction, NEW e, OneMore(C, D, n, m, t, e),
           n \in Heights, NEW c, SoundTree(c), \A a \in Account : Matches(c[a], C, m, n, a),
           Payable(c, t), IsTransfer(t), t.sender \in Account
    PROVE  /\ \A a \in Account : Matches(Transfer(c, t)[a], D, m, n, a)
           /\ FeesIn(D, m) = FeesIn(C, m) + FeesOf(c, t)
<1> DEFINE fee == NextFee(C, n, m, t)
           x == Spend(c, t)
           d == Transfer(c, t)
<1>1. t.receiver \in Account /\ t.amount \in Nat /\ t.amount > 0
  BY DEF Transaction, IsTransfer
<1>2. FeesOf(c, t) = fee
  <2>1. t.receiver \in Met(C, m, n) <=> ~IsNewWallet(c[t.receiver])
    BY <1>1 DEF Matches
  <2> QED
    BY <2>1, ExecutionAssumption DEF FeesOf, CreationCharge, Transaction, NextFee
<1> HIDE DEF fee
<1>3. /\ fee \in Nat
      /\ FeesIn(D, m) = FeesIn(C, m) + fee
      /\ Met(D, m, n) = Met(C, m, n) \cup {t.receiver}
      /\ \A a : /\ PaidTo(D, m, a) = PaidTo(C, m, a) + (IF t.receiver = a THEN t.amount ELSE 0)
                /\ SpentBy(D, m, a) = SpentBy(C, m, a) + (IF t.sender = a THEN t.amount + fee ELSE 0)
                /\ SentBy(D, m, a) = SentBy(C, m, a) + (IF t.sender = a THEN 1 ELSE 0)
                /\ MinedBy(D, n, a) = MinedBy(C, n, a)
                /\ WaitsFor(D, n, a) = WaitsFor(C, n, a)
  BY OneMoreTx DEF fee
<1>4. /\ x = t.amount + fee /\ x \in Nat /\ c[t.sender].btc_z >= x
      /\ \A a \in Account :
            /\ d[a].btc_z = c[a].btc_z - (IF a = t.sender THEN x ELSE 0)
                                       + (IF a = t.receiver THEN t.amount ELSE 0)
            /\ d[a].nonce = c[a].nonce + (IF a = t.sender THEN 1 ELSE 0)
            /\ d[a].maturing = c[a].maturing
            /\ c[a].btc_z \in Nat /\ c[a].nonce \in Nat
  BY <1>2, TransferIs
<1> HIDE DEF x, d
<1>5. ASSUME NEW a \in Account PROVE Matches(d[a], D, m, n, a)
  <2>1. /\ c[a].btc_z = PaidTo(C, m, a) - SpentBy(C, m, a) + MinedBy(C, n, a)
        /\ c[a].nonce = SentBy(C, m, a) /\ c[a].maturing = WaitsFor(C, n, a)
        /\ (IsNewWallet(c[a]) <=> a \notin Met(C, m, n))
    BY DEF Matches
  <2>2. PaidTo(C, m, a) \in Nat /\ SpentBy(C, m, a) \in Nat /\ MinedBy(C, n, a) \in Int
    <3>1. C \in Seq(Blocks) /\ m \in Nat /\ m <= Len(C)
      BY DEF OneMore
    <3>2. PaidTo(C, m, a) \in Nat /\ SpentBy(C, m, a) \in Nat
      BY <3>1, MatchNumbers
    <3>3. C \in Seq(Blocks) /\ n \in Nat /\ n <= Len(C) /\ n \in Heights
      BY DEF OneMore
    <3>4. MinedBy(C, n, a) \in Nat
      BY <3>3, MatchNumbers
    <3> QED
      BY <3>2, <3>4
  <2>3. d[a].btc_z = PaidTo(D, m, a) - SpentBy(D, m, a) + MinedBy(D, n, a)
    BY <1>1, <1>3, <1>4, <2>1, <2>2
  <2>4. d[a].nonce = SentBy(D, m, a) /\ d[a].maturing = WaitsFor(D, n, a)
    BY <1>3, <1>4, <2>1
  <2>5. IsNewWallet(d[a]) <=> a \notin Met(D, m, n)
    <3>1. CASE a = t.sender
      <4>1. c[a].btc_z > 0
        BY <1>1, <1>3, <1>4, <3>1
      <4>2. ~IsNewWallet(c[a])
        BY <4>1 DEF IsNewWallet
      <4>3. d[a].nonce # 0
        BY <1>4, <3>1
      <4> QED
        BY <1>3, <2>1, <4>2, <4>3 DEF IsNewWallet
    <3>2. CASE a # t.sender /\ a = t.receiver
      <4>1. d[a].btc_z > 0
        BY <1>1, <1>4, <3>2
      <4> QED
        BY <1>3, <3>2, <4>1 DEF IsNewWallet
    <3>3. CASE a # t.sender /\ a # t.receiver
      <4>1. d[a].btc_z = c[a].btc_z /\ d[a].nonce = c[a].nonce /\ d[a].maturing = c[a].maturing
        BY <1>4, <3>3
      <4> QED
        BY <1>3, <2>1, <3>3, <4>1 DEF IsNewWallet
    <3> QED
      BY <3>1, <3>2, <3>3
  <2> QED
    BY <2>3, <2>4, <2>5 DEF Matches
<1> QED
  BY <1>2, <1>3, <1>5 DEF d

---------------------------------------------------------------------------
\* The invariant: every tree of the chain matches it, and the cache of an execution
\* matches the chain with the block that is underway.

Underway(ch, r) == Append(ch, [miner |-> r.miner, txs |-> r.kept])

ChainMatches(ch, ts) ==
    \A h \in 0 .. Len(ch) : \A a \in Account : Matches(PayOut(ts[h][a], h), ch, h, h, a)

RunMatches(ch, ts, r) ==
    LET n == Len(ch)
        C == Underway(ch, r)
    IN  /\ \A a \in Account : Matches(r.cache[a], C, n + 1, n, a)
        /\ \A a \in Account \ Named(r.kept) : r.cache[a] = PayOut(ts[n][a], n)
        /\ r.deducted = r.credited + FeesIn(C, n + 1)

HistoryInv ==
    /\ ChainMatches(chain, trees)
    /\ run["exec"].pc = "tx" => RunMatches(chain, trees, run["exec"])

\* What matches a list at a height matches every list that is the same up to there.
LEMMA PrefixMatch ==
    ASSUME NEW C \in Seq(Blocks), NEW D \in Seq(Blocks), NEW h \in Nat,
           h <= Len(C), h <= Len(D), \A b \in 1 .. h : C[b] = D[b],
           NEW st, NEW a, Matches(st, C, h, h, a)
    PROVE  Matches(st, D, h, h, a)
<1>1. /\ EntryIn(C, h) = EntryIn(D, h)
      /\ \A e \in EntryIn(C, h) : TxIn(C, e) = TxIn(D, e) /\ FeeIn(C, e) = FeeIn(D, e)
      /\ \A b \in 0 .. h : MinerAt(C, b) = MinerAt(D, b) /\ RewardAt(C, b) = RewardAt(D, b)
  BY SameEntries
<1> QED
  BY <1>1, SameMatch

\* A block of at most a coinbase moves nothing before it is rewarded.
LEMMA EmptyMatch ==
    ASSUME NEW C \in Seq(Blocks), NEW D \in Seq(Blocks), NEW n \in Nat, NEW m, m = n + 1,
           n <= Len(C), m = Len(D), \A b \in 1 .. n : C[b] = D[b], Len(D[m].txs) <= 1,
           NEW g, EntryIn(C, g) = EntryIn(C, n)
    PROVE  /\ \A st, a : Matches(st, C, g, n, a) => Matches(st, D, m, n, a)
           /\ FeesIn(D, m) = 0
<1>1. EntryIn(D, m) = EntryIn(D, n) /\ FeesIn(D, m) = 0
  BY EmptyTail
<1>2. /\ EntryIn(C, n) = EntryIn(D, n)
      /\ \A e \in EntryIn(C, n) : TxIn(C, e) = TxIn(D, e) /\ FeeIn(C, e) = FeeIn(D, e)
      /\ \A b \in 0 .. n : MinerAt(C, b) = MinerAt(D, b) /\ RewardAt(C, b) = RewardAt(D, b)
  BY SameEntries
<1>3. ASSUME NEW st, NEW a, Matches(st, C, g, n, a) PROVE Matches(st, D, m, n, a)
  <2>1. /\ EntryIn(C, g) = EntryIn(D, m)
        /\ \A e \in EntryIn(C, g) : TxIn(C, e) = TxIn(D, e) /\ FeeIn(C, e) = FeeIn(D, e)
    BY <1>1, <1>2
  <2> QED
    BY <1>2, <1>3, <2>1, SameMatch
<1> QED
  BY <1>1, <1>3

\* The chain with one block more.
LEMMA UnderwayIs ==
    ASSUME NEW ch \in Seq(Blocks), NEW r, r.miner \in Account, r.kept \in Seq(Transaction)
    PROVE  LET C == Underway(ch, r)
               m == Len(ch) + 1
           IN  /\ C \in Seq(Blocks) /\ Len(C) = m
               /\ C[m].miner = r.miner /\ C[m].txs = r.kept
               /\ \A b \in 1 .. Len(ch) : C[b] = ch[b]
<1>1. [miner |-> r.miner, txs |-> r.kept] \in Blocks
  BY DEF Blocks
<1> QED
  BY <1>1 DEF Underway

LEMMA GenesisMatches ==
    ASSUME EmissionRuns, NEW a \in Account
    PROVE  Matches(PayOut(Genesis[a], 0), <<>>, 0, 0, a)
<1> DEFINE x == [amount |-> Reward(0), height |-> Maturity]
           st == Genesis[a]
           q == PayOut(st, 0)
<1>1. /\ EntryIn(<<>>, 0) = {} /\ MinerAt(<<>>, 0) = Founder /\ RewardAt(<<>>, 0) = Reward(0)
      /\ 0 .. 0 = {0} /\ 0 \in Heights /\ Reward(0) \in Nat /\ x \in MaturingReward
      /\ Maturity \in Nat
  BY ExecutionAssumption, RewardAssumption DEF EntryIn, MinerAt, RewardAt, Heights, MaturingReward
<1>2. /\ PaidTo(<<>>, 0, a) = 0 /\ SpentBy(<<>>, 0, a) = 0 /\ SentBy(<<>>, 0, a) = 0
  <2>1. {e \in {} : TxIn(<<>>, e).receiver = a} = {} /\ {e \in {} : TxIn(<<>>, e).sender = a} = {}
    OBVIOUS
  <2>2. \A f : SumOver(f, {}) = 0
    BY SumOfNone
  <2> QED
    BY <1>1, <2>1, <2>2, FS_EmptySet DEF PaidTo, SpentBy, SentBy
<1>3. /\ st.btc_z = 0 /\ st.nonce = 0 /\ st.maturing = (IF a = Founder THEN {x} ELSE {})
      /\ Sound(st)
  BY GenesisSound DEF SoundTree, Genesis, Default
<1> HIDE DEF st, x
<1> DEFINE R == Ripe(st.maturing, 0)
<1>4. q.btc_z = Total(R) /\ q.nonce = 0 /\ q.maturing = st.maturing \ R
  <2>1. /\ q.btc_z = st.btc_z + Total(R) /\ q.nonce = st.nonce
        /\ q.maturing = st.maturing \ R /\ Total(R) \in Nat
    BY <1>3, PayOutIs
  <2> HIDE DEF q, R
  <2> QED
    BY <1>3, <2>1
<1>5. /\ \A k : RipeFor(<<>>, 0, k) = IF k = Founder /\ Maturity = 0 THEN {0} ELSE {}
      /\ WaitsFor(<<>>, 0, a) = IF a = Founder /\ Maturity > 0 THEN {x} ELSE {}
      /\ Met(<<>>, 0, 0) = {Founder}
  <2>1. {b \in 0 .. 0 : MinerAt(<<>>, b) = a /\ b + Maturity > 0}
            = IF a = Founder /\ Maturity > 0 THEN {0} ELSE {}
    BY <1>1
  <2>2. WaitsFor(<<>>, 0, a) = IF a = Founder /\ Maturity > 0 THEN {x} ELSE {}
    BY <1>1, <2>1 DEF WaitsFor, x
  <2> QED
    BY <1>1, <2>2 DEF RipeFor, Met
<1>6. MinedBy(<<>>, 0, a) = IF a = Founder /\ Maturity = 0 THEN Reward(0) ELSE 0
  <2> DEFINE f == [b \in 0 .. 0 |-> RewardAt(<<>>, b)]
  <2>1. f[0] = Reward(0) /\ MinedBy(<<>>, 0, a) = SumOver(f, RipeFor(<<>>, 0, a))
    BY <1>1 DEF MinedBy
  <2> HIDE DEF f
  <2>2. SumOver(f, {}) = 0
    BY SumOfNone
  <2>3. SumOver(f, {} \cup {0}) = SumOver(f, {}) + f[0]
    <3>1. IsFiniteSet({}) /\ 0 \notin {} /\ \A y \in {} \cup {0} : f[y] \in Int
      BY <1>1, <2>1, FS_EmptySet
    <3> QED
      BY <3>1, SumOfOneMore
  <2>4. SumOver(f, {0}) = Reward(0)
    BY <1>1, <2>1, <2>2, <2>3
  <2> QED
    BY <1>5, <2>1, <2>2, <2>4
<1>7. x.amount = Reward(0) /\ x.height = Maturity
  BY DEF x
<1>8. R = IF a = Founder /\ Maturity = 0 THEN {x} ELSE {}
  BY <1>1, <1>3, <1>7 DEF Ripe
<1>9. Total(R) = (IF a = Founder /\ Maturity = 0 THEN Reward(0) ELSE 0)
  BY <1>1, <1>7, <1>8, TotalOfFew
<1>10. q.maturing = IF a = Founder /\ Maturity > 0 THEN {x} ELSE {}
  <2> HIDE DEF R
  <2>1. Maturity = 0 \/ Maturity > 0
    BY <1>1
  <2>2. ~(Maturity = 0 /\ Maturity > 0)
    OBVIOUS
  <2> QED
    BY ZenonT(30), <1>3, <1>4, <1>8, <2>1, <2>2
<1>11. IsNewWallet(q) <=> a \notin Met(<<>>, 0, 0)
  <2> HIDE DEF R
  <2>1. Reward(0) > 0
    BY <1>1 DEF EmissionRuns
  <2> QED
    BY <1>1, <1>4, <1>5, <1>9, <1>10, <2>1 DEF IsNewWallet
<1> HIDE DEF R
<1>12. Matches(q, <<>>, 0, 0, a)
  <2>1. MinedBy(<<>>, 0, a) \in Int
    BY <1>1, <1>6
  <2>2. q.btc_z = PaidTo(<<>>, 0, a) - SpentBy(<<>>, 0, a) + MinedBy(<<>>, 0, a)
    BY <1>2, <1>4, <1>6, <1>9, <2>1
  <2>3. q.nonce = SentBy(<<>>, 0, a) /\ q.maturing = WaitsFor(<<>>, 0, a)
    BY <1>2, <1>4, <1>5, <1>10
  <2> QED
    BY <1>11, <2>2, <2>3 DEF Matches
<1> QED
  BY <1>12 DEF q, st

---------------------------------------------------------------------------
\* Every step keeps it.

LEMMA InitHistory == ASSUME EmissionRuns PROVE Init => HistoryInv
<1> SUFFICES ASSUME Init PROVE HistoryInv
  OBVIOUS
<1>1. chain = <<>> /\ Len(chain) = 0 /\ trees[0] = Genesis /\ run["exec"].pc = "off"
  BY ExecutionAssumption DEF Init, Heights, Off, Runner
<1>2. \A h \in 0 .. Len(chain) : h = 0
  BY <1>1
<1>3. ASSUME NEW a \in Account PROVE Matches(PayOut(trees[0][a], 0), chain, 0, 0, a)
  BY <1>1, GenesisMatches
<1> QED
  BY <1>1, <1>2, <1>3 DEF HistoryInv, ChainMatches

\* A step that leaves the ledger alone, and the execution of a received block alone or
\* outside its transactions.
LEMMA HistoryKept ==
    ASSUME HistoryInv, UNCHANGED <<chain, trees>>,
           run'["exec"] = run["exec"] \/ run'["exec"].pc # "tx"
    PROVE  HistoryInv'
BY DEF HistoryInv, ChainMatches, RunMatches, Underway

\* The blocks an execution works on.
LEMMA RunChain ==
    ASSUME IInv, TypeInv, run["exec"].pc # "off"
    PROVE  LET r == run["exec"]
               C == Underway(chain, r)
               m == Len(chain) + 1
           IN  /\ chain \in Seq(Blocks) /\ Len(chain) \in Nat /\ Len(chain) \in Heights
               /\ m \in Heights /\ r.miner \in Account /\ r.kept \in Seq(Transaction)
               /\ r.parent = chain /\ DOMAIN trees = Heights /\ RunTypeOK(r)
               /\ SoundTree(trees[Len(chain)])
               /\ C \in Seq(Blocks) /\ Len(C) = m
               /\ C[m].miner = r.miner /\ C[m].txs = r.kept
               /\ \A b \in 1 .. Len(chain) : C[b] = chain[b]
<1> DEFINE r == run["exec"]
           m == Len(chain) + 1
<1>1. /\ chain \in Seq(Blocks) /\ r.miner \in Account /\ r.kept \in Seq(Transaction)
      /\ r.parent = chain /\ Len(chain) < MaxHeight /\ DOMAIN trees = Heights
  BY DEF IInv, ShapeInv, ExecInv, RunShape, Runner
<1>2. Len(chain) \in Nat /\ Len(chain) \in Heights /\ m \in Heights
  BY <1>1, ExecutionAssumption DEF Heights
<1>3. RunTypeOK(r) /\ SoundTree(trees[Len(chain)])
  BY <1>2 DEF TypeInv, RunSound, Runner
<1> QED
  BY <1>1, <1>2, <1>3, UnderwayIs

LEMMA PrefetchHistory ==
    ASSUME IInv, TypeInv, AgreeInv, HistoryInv, Prefetch("exec")
    PROVE  HistoryInv'
<1> DEFINE r == run["exec"]
           s == run'["exec"]
           n == Len(chain)
           m == n + 1
           D == Underway(chain, s)
<1>1. /\ DOMAIN r = DOMAIN Off /\ r.pc = "read" /\ r.kept = <<>>
      /\ r.deducted = 0 /\ r.credited = 0
      /\ chain' = chain /\ trees' = trees
  BY DEF Prefetch, IInv, ShapeInv, RunShape, AgreeInv, ExecAgree, Runner
<1>2. /\ s.pc = "tx" /\ s.kept = <<>> /\ s.deducted = 0 /\ s.credited = 0
      /\ s.miner = r.miner
      /\ \A a \in Account : s.cache[a] = PayOut(trees[n][a], n)
  BY <1>1 DEF Prefetch, IInv, ShapeInv, Runner, Off, GetAccountState
<1>3. /\ chain \in Seq(Blocks) /\ n \in Nat /\ D \in Seq(Blocks) /\ Len(D) = m
      /\ D[m].txs = <<>> /\ \A b \in 1 .. n : D[b] = chain[b]
  <2>1. chain \in Seq(Blocks) /\ n \in Nat /\ s.miner \in Account /\ s.kept \in Seq(Transaction)
    BY <1>1, <1>2, RunChain
  <2> HIDE DEF s
  <2>2. /\ D \in Seq(Blocks) /\ Len(D) = m /\ D[m].txs = s.kept
        /\ \A b \in 1 .. n : D[b] = chain[b]
    BY <2>1, UnderwayIs
  <2> QED
    BY <1>2, <2>1, <2>2
<1> HIDE DEF D, s, r
<1>4. \A a \in Account : Matches(s.cache[a], chain, n, n, a)
  BY <1>2, <1>3 DEF HistoryInv, ChainMatches
<1>5. (\A st, a : Matches(st, chain, n, n, a) => Matches(st, D, m, n, a)) /\ FeesIn(D, m) = 0
  <2>1. n <= Len(chain) /\ m = n + 1 /\ m = Len(D) /\ Len(D[m].txs) <= 1
    BY <1>3
  <2> QED
    BY <1>3, <2>1, EmptyMatch
<1>6. /\ \A a \in Account : Matches(s.cache[a], D, n + 1, n, a)
      /\ s.deducted = s.credited + FeesIn(D, n + 1)
  BY <1>2, <1>4, <1>5
<1>7. RunMatches(chain, trees, s)
  BY <1>2, <1>6 DEF RunMatches, D
<1>8. ChainMatches(chain, trees)
  BY DEF HistoryInv
<1> QED
  BY <1>1, <1>7, <1>8 DEF HistoryInv, ChainMatches, RunMatches, Underway, s

LEMMA TakeTxHistory ==
    ASSUME IInv, TypeInv, AgreeInv, HistoryInv, TakeTx("exec")
    PROVE  HistoryInv'
<1> DEFINE r == run["exec"]
           s == run'["exec"]
           n == Len(chain)
           m == n + 1
           t == Current(r)
           c == r.cache
           d == Transfer(c, t)
           C == Underway(chain, r)
           D == Underway(chain, s)
<1>1. /\ t \in Transaction /\ SoundTree(c) /\ Payable(c, t)
      /\ s.pc = "tx" /\ s.kept = Append(r.kept, t) /\ s.cache = d
      /\ s.deducted = r.deducted + Spend(c, t)
      /\ s.credited = r.credited + t.amount
  BY TakeTxTyped DEF Runner
<1>2. /\ s.miner = r.miner /\ r.pc = "tx" /\ chain' = chain /\ trees' = trees
      /\ r.next \in Nat \ {0} /\ Len(r.kept) = r.next - 1
      /\ WellFormed("exec", r.next, r.miner, t)
  BY TakeTxTally DEF TakeTx, Executable, AgreeInv, ExecAgree, Runner
<1>3. /\ chain \in Seq(Blocks) /\ n \in Nat /\ n \in Heights
      /\ r.miner \in Account /\ r.kept \in Seq(Transaction) /\ RunTypeOK(r)
      /\ C \in Seq(Blocks) /\ Len(C) = m /\ C[m].txs = r.kept
      /\ \A b \in 1 .. n : C[b] = chain[b]
  BY <1>2, RunChain
<1>4. r.deducted \in Nat /\ r.credited \in Nat
  BY <1>3 DEF RunTypeOK
<1>5. s.kept \in Seq(Transaction) /\ Len(s.kept) = Len(r.kept) + 1
  BY <1>1, <1>3
<1>6. /\ D \in Seq(Blocks) /\ Len(D) = m /\ D[m].txs = Append(r.kept, t)
      /\ \A b \in 1 .. n : D[b] = C[b]
  <2>1. s.miner \in Account /\ s.kept \in Seq(Transaction) /\ chain \in Seq(Blocks)
    BY <1>2, <1>3, <1>5
  <2> HIDE DEF s, r, t
  <2>2. /\ D \in Seq(Blocks) /\ Len(D) = m /\ D[m].txs = s.kept
        /\ \A b \in 1 .. n : D[b] = chain[b]
    BY <2>1, UnderwayIs
  <2> QED
    BY <1>1, <1>3, <2>2
<1>7. RunMatches(chain, trees, r) /\ ChainMatches(chain, trees)
  BY <1>2 DEF HistoryInv
<1>8. /\ \A a \in Account : Matches(c[a], C, m, n, a)
      /\ \A a \in Account \ Named(r.kept) : c[a] = PayOut(trees[n][a], n)
      /\ r.deducted = r.credited + FeesIn(C, m)
  BY <1>7 DEF RunMatches
<1> HIDE DEF C, D, r, s, t, c, d, n
<1>9. /\ \A a \in Account : Matches(s.cache[a], D, m, n, a)
      /\ s.deducted = s.credited + FeesIn(D, m)
  <2>1. CASE r.next = 1
    <3>1. r.kept = <<>> /\ ~IsTransfer(t)
      BY <1>2, <1>3, <2>1 DEF WellFormed
    <3>2. d = c /\ Spend(c, t) = 0 /\ t.amount = 0
      BY <1>1, <3>1 DEF d, Transfer, Spend, IsTransfer, Transaction
    <3>3. EntryIn(C, m) = EntryIn(C, n) /\ FeesIn(C, m) = 0
      <4>1. n + 1 = Len(C) /\ Len(C[n + 1].txs) <= 1
        BY <1>3, <3>1
      <4> QED
        BY <1>3, <4>1, EmptyTail
    <3>4. (\A st, a : Matches(st, C, m, n, a) => Matches(st, D, m, n, a)) /\ FeesIn(D, m) = 0
      <4>1. n <= Len(C) /\ m = n + 1 /\ m = Len(D) /\ Len(D[m].txs) <= 1
        BY <1>3, <1>6, <3>1
      <4> QED
        BY <1>3, <1>6, <3>3, <4>1, EmptyMatch
    <3> QED
      BY <1>1, <1>4, <1>8, <3>2, <3>3, <3>4
  <2>2. CASE r.next # 1
    <3>1. Len(r.kept) >= 1 /\ IsTransfer(t) /\ t.sender \in Account
      BY <1>1, <1>2, <1>3, <2>2 DEF WellFormed, Transaction
    <3> DEFINE e == <<m, Len(r.kept) + 1>>
    <3>2. OneMore(C, D, n, m, t, e)
      BY <1>3, <1>6, <3>1 DEF OneMore
    <3> HIDE DEF e, m
    <3>3. /\ \A a \in Account : Matches(Transfer(c, t)[a], D, m, n, a)
          /\ FeesIn(D, m) = FeesIn(C, m) + FeesOf(c, t)
      BY <1>1, <1>3, <1>8, <3>1, <3>2, TransferMatches
    <3>4. Spend(c, t) = t.amount + FeesOf(c, t) /\ Spend(c, t) \in Nat
      BY <1>1, <3>1, TransferIs
    <3>5. FeesIn(C, m) \in Nat
      <4>1. m \in Nat /\ m <= Len(C) /\ m \in 1 .. m
        BY <1>3 DEF m
      <4> QED
        BY <1>3, <4>1, EntriesCost
    <3>6. t.amount \in Nat /\ FeesOf(c, t) \in Nat
      <4>1. t.sender \in Account
        BY <3>1
      <4> QED
        BY <1>1, <4>1, TransferSound DEF Transaction
    <3>7. r.deducted = r.credited + FeesIn(C, m)
      BY <1>8 DEF m
    <3>8. s.deducted = s.credited + FeesIn(D, m)
      BY <1>1, <1>4, <3>3, <3>4, <3>5, <3>6, <3>7
    <3> QED
      BY <1>1, <3>3, <3>8 DEF d, m
  <2> QED
    BY <2>1, <2>2
<1>10. ASSUME NEW a \in Account \ Named(s.kept) PROVE s.cache[a] = PayOut(trees[n][a], n)
  <2>1. /\ s.kept[Len(r.kept) + 1] = t /\ Len(r.kept) \in Nat
        /\ \A i \in 1 .. Len(r.kept) : s.kept[i] = r.kept[i]
    BY <1>1, <1>3
  <2>2. a \notin {t.sender, t.receiver}
    <3>1. Len(r.kept) + 1 \in 1 .. Len(s.kept)
      BY <1>5, <2>1
    <3> QED
      BY <1>10, <2>1, <3>1 DEF Named
  <2>3. a \notin Named(r.kept)
    <3>1. \A i \in 1 .. Len(r.kept) : i \in 1 .. Len(s.kept)
      BY <1>5, <2>1
    <3> QED
      BY <1>10, <2>1, <3>1 DEF Named
  <2>4. IsTransfer(t) => t.sender \in Account
    BY TakeTxTyped DEF Runner, t, r
  <2>5. d[a] = c[a]
    BY <1>1, <2>2, <2>4, TransferSound DEF d
  <2> QED
    BY <1>1, <1>8, <2>3, <2>5
<1>11. RunMatches(chain, trees, s)
  BY <1>9, <1>10 DEF RunMatches, D, n
<1> QED
  BY <1>1, <1>2, <1>7, <1>11 DEF HistoryInv, ChainMatches, RunMatches, Underway, s

LEMMA SealBlockHistory ==
    ASSUME EmissionRuns, IInv, TypeInv, HistoryInv, SealBlock
    PROVE  HistoryInv'
<1> DEFINE r == run["exec"]
           tree == FinalTree(r)
           n == Len(chain)
           m == n + 1
           new == [miner |-> r.miner, txs |-> r.kept]
           C == Underway(chain, r)
           w == Rewarded(r)
<1>1. CASE run' = [run EXCEPT !["exec"] = Off] /\ UNCHANGED <<chain, trees>>
  <2>1. run'["exec"].pc # "tx"
    BY <1>1 DEF IInv, ShapeInv, Runner, Off
  <2> QED
    BY <1>1, <2>1, HistoryKept
<1>2. CASE /\ Conserved(r)
           /\ run' = [run EXCEPT !["exec"] = Off, !["sim"] = Disturb(@)]
           /\ chain' = Append(chain, new)
           /\ trees' = [trees EXCEPT ![Height(r)] = tree]
  <2>1. r.pc = "tx" /\ Finished("exec")
    BY DEF SealBlock, Finished
  <2>2. /\ chain \in Seq(Blocks) /\ n \in Nat /\ n \in Heights /\ m \in Heights
        /\ r.miner \in Account /\ r.kept \in Seq(Transaction) /\ r.parent = chain
        /\ DOMAIN trees = Heights /\ RunTypeOK(r) /\ SoundTree(trees[n])
        /\ C \in Seq(Blocks) /\ Len(C) = m /\ C[m].miner = r.miner
        /\ \A b \in 1 .. n : C[b] = chain[b]
    BY <2>1, RunChain
  <2>3. Height(r) = m /\ chain' = C
    BY <1>2, <2>2 DEF Height, Underway
  <2>4. /\ SoundTree(tree) /\ SoundTree(r.cache) /\ r.fees \in Nat
    BY <2>1, FinalTyped DEF Runner
  <2>5. RunMatches(chain, trees, r) /\ ChainMatches(chain, trees)
    BY <2>1 DEF HistoryInv
  <2>6. /\ \A a \in Account : Matches(r.cache[a], C, m, n, a)
        /\ \A a \in Account \ Named(r.kept) : r.cache[a] = PayOut(trees[n][a], n)
        /\ r.fees = FeesIn(C, m)
    <3>1. r.deducted \in Nat /\ r.credited \in Nat /\ r.deducted = r.credited + r.fees
      BY <1>2, <2>2 DEF RunTypeOK, Conserved
    <3>2. FeesIn(C, m) \in Nat
      <4>1. m \in Nat /\ m <= Len(C) /\ m \in 1 .. m
        BY <2>2
      <4> QED
        BY <2>2, <4>1, EntriesCost
    <3>3. r.deducted = r.credited + FeesIn(C, m)
      BY <2>5 DEF RunMatches
    <3>4. r.fees = FeesIn(C, m)
      BY ONLY <2>4, <3>1, <3>2, <3>3
    <3> QED
      BY <2>5, <3>4 DEF RunMatches
  <2>7. RewardAt(C, m) = Reward(m) + r.fees
    BY <2>2, <2>6 DEF RewardAt
  <2>8. /\ SoundTree(w)
        /\ \A a \in Account : /\ w[a].btc_z = r.cache[a].btc_z /\ w[a].nonce = r.cache[a].nonce
                              /\ w[a].maturing = IF a = r.miner
                                    THEN r.cache[a].maturing
                                           \cup {[amount |-> RewardAt(C, m), height |-> m + Maturity]}
                                    ELSE r.cache[a].maturing
    <3>1. SoundTree(w)
      BY <2>2, <2>3, <2>4, RewardedSound
    <3> QED
      BY <2>2, <2>3, <2>4, <2>7, <3>1 DEF Rewarded, SoundTree, Sound, AccountState
  <2> HIDE DEF r, tree, n, C, w
  <2>9. ASSUME NEW a \in Account PROVE Matches(PayOut(w[a], m), C, m, m, a)
    <3>1. Sound(r.cache[a]) /\ Sound(w[a]) /\ Matches(r.cache[a], C, m, n, a)
      BY <2>4, <2>6, <2>8 DEF SoundTree
    <3>2. w[a].maturing = IF a = C[m].miner
                THEN r.cache[a].maturing \cup {[amount |-> RewardAt(C, m), height |-> m + Maturity]}
                ELSE r.cache[a].maturing
      BY <2>2, <2>8
    <3>3. m = n + 1 /\ w[a].btc_z = r.cache[a].btc_z /\ w[a].nonce = r.cache[a].nonce
      BY <2>8
    <3> HIDE DEF m
    <3> QED
      BY <2>2, <3>1, <3>2, <3>3, RewardMatches
  <2>10. ASSUME NEW a \in Account PROVE Matches(PayOut(tree[a], m), C, m, m, a)
    <3>1. m \in Nat /\ n <= m /\ m <= m
      BY <2>2
    <3>2. CASE a \in Touched(r)
      <4>1. tree[a] = PayOut(w[a], m) /\ Sound(w[a])
        BY <2>3, <2>8, <3>2 DEF tree, w, FinalTree, SoundTree
      <4> HIDE DEF m
      <4>2. PayOut(tree[a], m) = PayOut(w[a], m)
        BY <3>1, <4>1, PayOutAgain
      <4> QED
        BY <2>9, <4>2
    <3>3. CASE a \notin Touched(r)
      <4>1. a \notin Named(r.kept) /\ a # r.miner
        BY <3>3, ExecutionAssumption DEF Touched, Named
      <4>2. tree[a] = trees[n][a] /\ Sound(trees[n][a])
        BY <2>2, <3>3 DEF tree, FinalTree, SoundTree, n
      <4>3. r.cache[a] = PayOut(trees[n][a], n)
        BY <2>6, <4>1
      <4> HIDE DEF m
      <4>4. PayOut(r.cache[a], m) = PayOut(tree[a], m)
        BY <2>2, <3>1, <4>2, <4>3, PayOutAgain
      <4>5. PayOut(w[a], m) = PayOut(r.cache[a], m)
        <5>1. w[a] = r.cache[a]
          BY <2>2, <2>3, <2>4, <4>1, RewardedSound DEF w
        <5> QED
          BY <5>1
      <4> QED
        BY <2>9, <4>4, <4>5
    <3> QED
      BY <3>2, <3>3
  <2>11. trees'[m] = tree /\ \A h \in 0 .. n : trees'[h] = trees[h]
    <3> HIDE DEF m
    <3>1. \A h \in 0 .. n : h \in Heights /\ h # m
      BY <2>2, ExecutionAssumption DEF Heights, m
    <3> QED
      BY <1>2, <2>2, <2>3, <3>1
  <2>12. ASSUME NEW h \in 0 .. m, NEW a \in Account
         PROVE  Matches(PayOut(trees'[h][a], h), C, h, h, a)
    <3>1. CASE h \in 0 .. n
      <4>1. Matches(PayOut(trees[h][a], h), chain, h, h, a)
        BY <2>5, <3>1 DEF ChainMatches, n
      <4>2. /\ h \in Nat /\ h <= Len(chain) /\ h <= Len(C)
            /\ \A b \in 1 .. h : chain[b] = C[b]
        BY <2>2, <3>1 DEF n
      <4>3. Matches(PayOut(trees[h][a], h), C, h, h, a)
        BY <2>2, <4>1, <4>2, PrefixMatch
      <4> QED
        BY <2>11, <3>1, <4>3
    <3>2. CASE h = m
      BY <2>10, <2>11, <3>2
    <3> QED
      BY <2>2, <3>1, <3>2
  <2>13. run'["exec"].pc # "tx"
    BY <1>2 DEF IInv, ShapeInv, Runner, Off
  <2>14. ChainMatches(chain', trees')
    BY <2>2, <2>3, <2>12 DEF ChainMatches
  <2> QED
    BY <2>13, <2>14 DEF HistoryInv, ChainMatches
<1> QED
  BY <1>1, <1>2 DEF SealBlock

LEMMA RollBackHistory ==
    ASSUME IInv, TypeInv, HistoryInv, RollBack
    PROVE  HistoryInv'
<1> DEFINE D == SubSeq(chain, 1, Len(chain) - 1)
<1>1. /\ chain \in Seq(Blocks) /\ chain # <<>> /\ chain' = D /\ trees' = trees
      /\ run'["exec"].pc # "tx"
  BY DEF RollBack, IInv, ShapeInv, Runner
<1>2. Len(chain) \in Nat /\ Len(chain) > 0
  BY <1>1
<1>3. /\ D \in Seq(Blocks) /\ Len(D) = Len(chain) - 1
      /\ \A b \in 1 .. Len(D) : D[b] = chain[b]
  <2>1. Len(chain) - 1 \in 0 .. Len(chain)
    BY <1>2
  <2> QED
    BY <1>1, <2>1, Prefix
<1> HIDE DEF D
<1>4. ASSUME NEW h \in 0 .. Len(D), NEW a \in Account
      PROVE  Matches(PayOut(trees[h][a], h), D, h, h, a)
  <2>1. /\ h \in Nat /\ h <= Len(chain) /\ h <= Len(D) /\ \A b \in 1 .. h : chain[b] = D[b]
    BY <1>2, <1>3
  <2>2. Matches(PayOut(trees[h][a], h), chain, h, h, a)
    BY <1>2, <2>1 DEF HistoryInv, ChainMatches
  <2> QED
    BY <1>1, <1>3, <2>1, <2>2, PrefixMatch
<1>5. ChainMatches(chain', trees')
  BY <1>1, <1>4 DEF ChainMatches
<1> QED
  BY <1>1, <1>5 DEF HistoryInv, ChainMatches

LEMMA NextKeepsHistory ==
    ASSUME EmissionRuns
    PROVE  IInv /\ TypeInv /\ AgreeInv /\ HistoryInv /\ [Next]_vars => HistoryInv'
<1> SUFFICES ASSUME IInv, TypeInv, AgreeInv, HistoryInv, [Next]_vars PROVE HistoryInv'
  OBVIOUS
<1>0. DOMAIN run = Runner /\ "exec" \in Runner /\ "sim" \in Runner
  BY DEF IInv, ShapeInv, Runner
<1>1. ASSUME NEW m \in Account, NEW txs \in Body, ReceiveBlock(m, txs) PROVE HistoryInv'
  BY <1>0, <1>1, HistoryKept DEF ReceiveBlock, Started, Off
<1>2. ASSUME NEW m \in Wallet, NEW pool \in Pool, BuildTemplate(m, pool) PROVE HistoryInv'
  BY <1>0, <1>2, HistoryKept DEF BuildTemplate
<1>3. CASE SubmitTemplate
  <2>1. CASE template.parent = chain
    BY ZenonT(30), <1>0, <1>3, <2>1, HistoryKept DEF SubmitTemplate, Started, Off
  <2>2. CASE template.parent # chain
    BY <1>3, <2>2, HistoryKept DEF SubmitTemplate
  <2> QED
    BY <2>1, <2>2
<1>4. ASSUME NEW p \in Runner, Prefetch(p) PROVE HistoryInv'
  <2>1. CASE p = "exec"
    BY <1>4, <2>1, PrefetchHistory
  <2>2. CASE p = "sim"
    BY <1>0, <1>4, <2>2, HistoryKept DEF Prefetch
  <2> QED
    BY <2>1, <2>2 DEF Runner
<1>5. ASSUME NEW p \in Runner, TakeTx(p) PROVE HistoryInv'
  <2>1. CASE p = "exec"
    BY <1>5, <2>1, TakeTxHistory
  <2>2. CASE p = "sim"
    BY <1>0, <1>5, <2>2, HistoryKept DEF TakeTx
  <2> QED
    BY <2>1, <2>2 DEF Runner
<1>6. CASE SkipTx
  BY <1>0, <1>6, HistoryKept DEF SkipTx
<1>7. CASE RejectBlock
  BY <1>0, <1>7, HistoryKept DEF RejectBlock, Off
<1>8. CASE SealBlock
  BY <1>8, SealBlockHistory
<1>9. CASE SealTemplate
  BY <1>0, <1>9, HistoryKept DEF SealTemplate
<1>10. CASE RollBack
  BY <1>10, RollBackHistory
<1>11. CASE UNCHANGED vars
  BY <1>11, HistoryKept DEF vars
<1> QED
  BY <1>1, <1>2, <1>3, <1>4, <1>5, <1>6, <1>7, <1>8, <1>9, <1>10, <1>11 DEF Next

---------------------------------------------------------------------------
\* What the invariant says in the words of the property.

\* A sum over a set is the sum of the function with these values.
LEMMA HistoryWords ==
    ASSUME NEW h \in 0 .. Len(chain)
    PROVE  /\ Entry(h) = EntryIn(chain, h)
           /\ \A e : TxOf(e) = TxIn(chain, e) /\ FeeOf(e) = FeeIn(chain, e)
<1>1. \A k : Entry(k) = EntryIn(chain, k)
  BY DEF Entry, EntryIn
<1>2. \A e : TxOf(e) = TxIn(chain, e)
  BY DEF TxOf, TxIn
<1>3. \A e : KnownTo(e) = KnownIn(chain, e)
  BY <1>1, <1>2 DEF KnownTo, KnownIn
<1> QED
  BY <1>1, <1>2, <1>3 DEF FeeOf, FeeIn

LEMMA SpendableIs ==
    ASSUME chain \in Seq(Blocks), NEW h \in 0 .. Len(chain), h \in Heights, NEW a
    PROVE  /\ SpendableOf(a, h) = PaidTo(chain, h, a) - SpentBy(chain, h, a) + MinedBy(chain, h, a)
           /\ Cardinality({e \in Entry(h) : TxOf(e).sender = a}) = SentBy(chain, h, a)
<1> DEFINE E == EntryIn(chain, h)
           P == {e \in E : TxIn(chain, e).receiver = a}
           S == {e \in E : TxIn(chain, e).sender = a}
           M == {b \in 1 .. h : chain[b].miner = a /\ b + Maturity <= h}
<1>1. /\ h \in Nat /\ h <= Len(chain) /\ IsFiniteSet(E) /\ 0 .. h \subseteq Heights
  BY EntriesAre, ExecutionAssumption DEF Heights
<1>2. /\ \A e \in E : FeeIn(chain, e) \in Nat /\ TxIn(chain, e).amount \in Nat
      /\ \A b \in 0 .. h : RewardAt(chain, b) \in Nat
  BY <1>1, EntriesCost, MatchNumbers
<1>3. /\ P = {e \in Entry(h) : TxOf(e).receiver = a}
      /\ S = {e \in Entry(h) : TxOf(e).sender = a}
  BY HistoryWords
<1>4. MapThenSumSet(LAMBDA e : TxOf(e).amount, P) = PaidTo(chain, h, a)
  <2> DEFINE f == [e \in P |-> TxOf(e).amount]
             g == [e \in E |-> TxIn(chain, e).amount]
  <2>1. MapThenSumSet(LAMBDA e : TxOf(e).amount, P) = SumOver(f, P)
    <3> HIDE DEF P
    <3> QED
      BY DEF SumOver, MapThenSumSet, MapThenFoldSet
  <2>2. IsFiniteSet(P) /\ \A e \in P : g[e] \in Int /\ f[e] = g[e]
    <3>1. P \in SUBSET E
      OBVIOUS
    <3>2. \A e \in P : g[e] \in Int /\ f[e] = g[e]
      BY <1>2, HistoryWords
    <3> HIDE DEF E, P
    <3> QED
      BY <1>1, <3>1, <3>2, FS_Subset
  <2>3. PaidTo(chain, h, a) = SumOver(g, P)
    BY DEF PaidTo
  <2> HIDE DEF f, g, P
  <2> QED
    BY <2>1, <2>2, <2>3, SumOfEquals
<1>5. MapThenSumSet(LAMBDA e : TxOf(e).amount + FeeOf(e), S) = SpentBy(chain, h, a)
  <2> DEFINE f == [e \in S |-> TxOf(e).amount + FeeOf(e)]
             g == [e \in E |-> TxIn(chain, e).amount + FeeIn(chain, e)]
  <2>1. MapThenSumSet(LAMBDA e : TxOf(e).amount + FeeOf(e), S) = SumOver(f, S)
    <3> HIDE DEF S
    <3> QED
      BY DEF SumOver, MapThenSumSet, MapThenFoldSet
  <2>2. IsFiniteSet(S) /\ \A e \in S : g[e] \in Int /\ f[e] = g[e]
    <3>1. S \in SUBSET E
      OBVIOUS
    <3>2. \A e \in S : g[e] \in Int /\ f[e] = g[e]
      BY <1>2, HistoryWords
    <3> HIDE DEF E, S
    <3> QED
      BY <1>1, <3>1, <3>2, FS_Subset
  <2>3. SpentBy(chain, h, a) = SumOver(g, S)
    BY DEF SpentBy
  <2> HIDE DEF f, g, S
  <2> QED
    BY <2>1, <2>2, <2>3, SumOfEquals
<1>6. ASSUME NEW b \in 1 .. h PROVE RewardOf(b) = RewardAt(chain, b)
  <2> DEFINE F == {e \in EntryIn(chain, b) : e[1] = b}
             f == [e \in F |-> FeeOf(e)]
             g == [e \in EntryIn(chain, b) |-> FeeIn(chain, e)]
  <2>1. b \in 0 .. Len(chain) /\ b \in Nat /\ b <= Len(chain) /\ b # 0
    BY <1>1
  <2>2. F = {e \in Entry(b) : e[1] = b}
    BY <2>1, HistoryWords
  <2>3. MapThenSumSet(FeeOf, F) = SumOver(f, F)
    <3> HIDE DEF F
    <3> QED
      BY DEF SumOver, MapThenSumSet, MapThenFoldSet
  <2>4. IsFiniteSet(F) /\ \A e \in F : g[e] \in Int /\ f[e] = g[e]
    <3>1. \A e \in F : g[e] \in Int /\ f[e] = g[e]
      BY <2>1, EntriesCost, HistoryWords
    <3>2. IsFiniteSet(F)
      BY <2>1, EntriesAre, FS_Subset
    <3> QED
      BY <3>1, <3>2
  <2>5. FeesIn(chain, b) = SumOver(g, F)
    BY DEF FeesIn
  <2> HIDE DEF f, g, F
  <2>6. MapThenSumSet(FeeOf, F) = FeesIn(chain, b)
    BY <2>3, <2>4, <2>5, SumOfEquals
  <2> QED
    BY <2>1, <2>2, <2>6 DEF RewardOf, RewardAt
<1> DEFINE found == IF a = Founder /\ Maturity <= h THEN Reward(0) ELSE 0
           mined == MapThenSumSet(RewardOf, M)
<1>7. mined + found = MinedBy(chain, h, a) /\ mined \in Int /\ found \in Int
  <2> DEFINE f == [b \in M |-> RewardOf(b)]
             g == [b \in 0 .. h |-> RewardAt(chain, b)]
  <2>1. MapThenSumSet(RewardOf, M) = SumOver(f, M)
    <3> HIDE DEF M
    <3> QED
      BY DEF SumOver, MapThenSumSet, MapThenFoldSet
  <2>2. /\ IsFiniteSet(M) /\ 0 \notin M
        /\ \A b \in M : g[b] \in Int /\ f[b] = g[b]
        /\ g[0] = Reward(0) /\ g[0] \in Int
    <3>1. \A b \in M : b \in 1 .. h /\ b \in 0 .. h
      OBVIOUS
    <3>2. IsFiniteSet(M)
      <4>1. IsFiniteSet(1 .. h) /\ M \in SUBSET (1 .. h)
        BY <1>1, FS_Interval
      <4> QED
        BY <4>1, FS_Subset
    <3>3. g[0] = Reward(0) /\ g[0] \in Int
      BY <1>1, <1>2 DEF RewardAt
    <3> QED
      BY <1>2, <1>6, <3>1, <3>2, <3>3
  <2>3. RipeFor(chain, h, a) = IF a = Founder /\ Maturity <= h THEN M \cup {0} ELSE M
    BY <1>1, ExecutionAssumption DEF RipeFor, MinerAt
  <2>4. MinedBy(chain, h, a) = SumOver(g, RipeFor(chain, h, a))
    BY DEF MinedBy
  <2> HIDE DEF f, g, M
  <2>5. SumOver(f, M) = SumOver(g, M) /\ SumOver(g, M) \in Int
    BY <2>2, SumOfEquals, SumType
  <2>6. SumOver(g, M \cup {0}) = SumOver(g, M) + g[0]
    BY <2>2, SumOfOneMore
  <2> QED
    BY ONLY <2>1, <2>2, <2>3, <2>4, <2>5, <2>6
<1>8. PaidTo(chain, h, a) \in Int /\ SpentBy(chain, h, a) \in Int
  BY <1>1, MatchNumbers
<1>9. SpendableOf(a, h) = PaidTo(chain, h, a) - SpentBy(chain, h, a) + mined + found
  BY <1>3, <1>4, <1>5 DEF SpendableOf
<1>10. SentBy(chain, h, a) = Cardinality(S)
  BY DEF SentBy
<1> HIDE DEF found, mined, S, P, E, M
<1> QED
  BY <1>3, <1>7, <1>8, <1>9, <1>10

\* On every chain, at every height, what the ledger lets an account spend is what the
\* chain gave it.
THEOREM LedgerIsHistory == ASSUME EmissionRuns PROVE Spec => []LedgerMatchesHistory
<1>1. IInv /\ TypeInv /\ HistoryInv => LedgerMatchesHistory
  <2> SUFFICES ASSUME IInv, TypeInv, HistoryInv, NEW h \in 0 .. Len(chain), NEW a \in Account
               PROVE  /\ PayOut(trees[h][a], h).btc_z = SpendableOf(a, h)
                      /\ trees[h][a].nonce = Cardinality({e \in Entry(h) : TxOf(e).sender = a})
    BY DEF LedgerMatchesHistory
  <2>1. chain \in Seq(Blocks) /\ h \in Heights
    BY ExecutionAssumption DEF IInv, ShapeInv, Heights
  <2>2. Sound(trees[h][a])
    BY <2>1 DEF TypeInv, SoundTree
  <2>3. PayOut(trees[h][a], h).nonce = trees[h][a].nonce
    BY <2>2, PayOutIs
  <2>4. Matches(PayOut(trees[h][a], h), chain, h, h, a)
    BY DEF HistoryInv, ChainMatches
  <2> QED
    BY <2>1, <2>3, <2>4, SpendableIs DEF Matches
<1>2. Spec => []TypeInv
  BY InitTyped, NextKeepsTypes, Invariance, PTL DEF Spec
<1>3. Spec => []AgreeInv
  BY <1>2, InitAgree, NextKeepsAgree, Invariance, PTL DEF Spec
<1>4. Init => HistoryInv
  BY InitHistory
<1>5. IInv /\ TypeInv /\ AgreeInv /\ HistoryInv /\ [Next]_vars => HistoryInv'
  BY NextKeepsHistory
<1> QED
  BY <1>1, <1>2, <1>3, <1>4, <1>5, Invariance, PTL DEF Spec
=============================================================================
