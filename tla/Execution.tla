----------------------------- MODULE Execution -----------------------------
(***************************************************************************)
(* Executing the body of a block: execute_block_internal (lib.rs), as the  *)
(* consensus code runs it on a received block and as the block builder     *)
(* (build_vanguard_block_template) runs it dry on the transactions of the  *)
(* pool.  consensusMu lets one real execution run at a time; the builder   *)
(* takes no lock, so blocks are committed, and tips rolled back, between   *)
(* its steps.                                                              *)
(*                                                                         *)
(* A block's hash commits to its whole ancestry: the chain of a block's    *)
(* ancestors stands for its parent hash, and a state root for the account  *)
(* table it is the root of.                                                *)
(***************************************************************************)
EXTENDS Integers, Sequences, FiniteSets, Functions, FiniteSetsExt

CONSTANTS
    Account,        \* 32-byte addresses
    NoAccount,
    Tx,             \* transactions that may reach a block or the pool
    Signed,         \* those whose Ed25519 signature verifies
    Pool,           \* lists the pool may hand the builder: it verified every signature
    Body,           \* bodies of the blocks of other miners
    Fees,           \* 250, 500, 1000 VNT
    CreationFee,    \* 1000 VNT for the first transfer to a fresh address
    Reward(_),      \* calculate_block_reward_btc_z
    Maturity,       \* blocks before a reward may be spent: 6
    ReplayFrom,     \* height from which recent_block_hash is checked: 15
    ReplayWindow,   \* how far back that hash may lie: 100
    Founder,        \* miner of the genesis block
    Wallet,         \* the addresses this node mines for
    MaxHeight       \* bound on the height of the instance

Heights == 0 .. MaxHeight
NoAnchor == -1      \* a recent_block_hash the node does not know

Transaction ==
    [sender : Account \cup {NoAccount}, receiver : Account, amount : Nat, fee : Nat,
     nonce : Nat, anchor : Heights \cup {NoAnchor}]

ASSUME ExecutionAssumption ==
    /\ IsFiniteSet(Account)
    /\ NoAccount \notin Account
    /\ Founder \in Account
    /\ Wallet \subseteq Account
    /\ Tx \subseteq Transaction
    /\ Signed \subseteq Tx
    /\ Pool \subseteq Seq(Signed)
    /\ Body \subseteq Seq(Tx)
    /\ Fees \subseteq Nat
    /\ CreationFee \in Nat
    /\ Maturity \in Nat
    /\ ReplayFrom \in Nat
    /\ ReplayWindow \in Nat
    /\ MaxHeight \in Nat

ASSUME RewardAssumption == \A h \in Heights : Reward(h) \in Nat

VARIABLES
    chain,      \* the blocks above genesis, [miner, txs] each
    trees,      \* the account tree of every height; trees[Len(chain)] is current
    run,        \* the two executions that may be in progress
    template,   \* the last block the builder made
    outcome     \* how the last real execution ended

vars == <<chain, trees, run, template, outcome>>

\* "exec" is the execution of a received block, "sim" the builder's dry run.
Runner == {"exec", "sim"}
Outcome == {"none", "committed", "refused", "invalid", "toxic", "mismatch"}

---------------------------------------------------------------------------
\* Account states.

MaturingReward == [amount : Nat, height : Nat]
AccountState == [btc_z : Nat, nonce : Nat, maturing : SUBSET MaturingReward]
Ledger == [Account -> AccountState]

Default == [btc_z |-> 0, nonce |-> 0, maturing |-> {}]

Total(rewards) == MapThenSumSet(LAMBDA r : r.amount, rewards)

Ripe_Late(rewards, h) == {r \in rewards : h > r.height}
Ripe(rewards, h) == {r \in rewards : h >= r.height}

\* A matured reward moves to the balance: on every read of an account, with the
\* height of the ledger, and at the end of a block, with the block's height.
PayOut(st, h) ==
    [st EXCEPT !.btc_z = @ + Total(Ripe(st.maturing, h)),
               !.maturing = @ \ Ripe(st.maturing, h)]

GetAccountState(a) == PayOut(trees[Len(chain)][a], Len(chain))

IsNewWallet(st) == st.btc_z = 0 /\ st.nonce = 0 /\ st.maturing = {}

---------------------------------------------------------------------------
\* One transaction on the cache of an execution.

Coinbase(m) ==
    [sender |-> NoAccount, receiver |-> m, amount |-> 0, fee |-> 0, nonce |-> 0,
     anchor |-> NoAnchor]

IsTransfer(t) == t.amount > 0

\* The coinbase, and only it, is first and moves nothing; signatures are checked
\* on real executions only.
WellFormed(p, i, m, t) ==
    /\ IF i = 1 THEN ~IsTransfer(t) /\ t.receiver = m
                ELSE IsTransfer(t) /\ t.sender # NoAccount
    /\ p = "exec" /\ IsTransfer(t) => t \in Signed

\* recent_block_hash is the hash of one of the ReplayWindow blocks below h.
Recent(t, h) ==
    IsTransfer(t) /\ h >= ReplayFrom =>
        t.anchor \in {k \in Heights : k >= h - ReplayWindow /\ k < h}

CreationCharge(c, t) ==
    IF IsTransfer(t) /\ IsNewWallet(c[t.receiver]) THEN CreationFee ELSE 0

Spend(c, t) == IF IsTransfer(t) THEN t.amount + t.fee + CreationCharge(c, t) ELSE 0

Payable_NoBalance(c, t) ==
    IsTransfer(t) => t.nonce = c[t.sender].nonce /\ t.fee \in Fees

Payable_OldNonce(c, t) ==
    IsTransfer(t) =>
        /\ t.nonce <= c[t.sender].nonce
        /\ t.fee \in Fees
        /\ c[t.sender].btc_z >= Spend(c, t)

Payable(c, t) ==
    IsTransfer(t) =>
        /\ t.nonce = c[t.sender].nonce
        /\ t.fee \in Fees
        /\ c[t.sender].btc_z >= Spend(c, t)

\* Debit first, credit second: the sender may be the receiver.
Transfer(c, t) ==
    LET spend == Spend(c, t)
        debited == [c EXCEPT ![t.sender].btc_z = @ - spend, ![t.sender].nonce = @ + 1]
    IN  IF IsTransfer(t) THEN [debited EXCEPT ![t.receiver].btc_z = @ + t.amount] ELSE c

\* Fees of every kind go to the miner.
FeesOf(c, t) == t.fee + CreationCharge(c, t)

---------------------------------------------------------------------------
\* The two executions.  A run carries the locals of one call.

NoRoot == <<>>  \* a header whose state root is the right one for its body

Off == [pc |-> "off", miner |-> NoAccount, txs |-> <<>>, parent |-> <<>>, cache |-> <<>>,
        next |-> 1, fees |-> 0, deducted |-> 0, credited |-> 0, kept |-> <<>>, root |-> NoRoot,
        calm |-> TRUE]

NoTemplate ==
    [parent |-> <<>>, miner |-> NoAccount, txs |-> <<>>, root |-> NoRoot, calm |-> TRUE]

Genesis ==
    [a \in Account |->
        IF a = Founder
        THEN [Default EXCEPT !.maturing = {[amount |-> Reward(0), height |-> Maturity]}]
        ELSE Default]

Init ==
    /\ chain = <<>>
    /\ trees = [h \in Heights |-> Genesis]
    /\ run = [p \in Runner |-> Off]
    /\ template = NoTemplate
    /\ outcome = "none"

\* The parent check passed: the arguments of the call are fixed.
Started(m, txs, root, calm) ==
    [Off EXCEPT !.pc = "read", !.miner = m, !.txs = txs, !.parent = chain,
                !.root = root, !.calm = calm]

\* History: a dry run is calm as long as the ledger does not move under it.
Disturb(r) == [r EXCEPT !.calm = @ /\ r.pc = "off"]

\* Another miner's block on the tip.  Blocks on other parents do not get past the
\* parent check and change nothing.
ReceiveBlock(m, txs) ==
    /\ run["exec"].pc = "off"
    /\ Len(chain) < MaxHeight
    /\ run' = [run EXCEPT !["exec"] = Started(m, txs, NoRoot, TRUE)]
    /\ outcome' = "none"
    /\ UNCHANGED <<chain, trees, template>>

\* The miner found a nonce for its template: the block is executed for real.
SubmitTemplate ==
    /\ run["exec"].pc = "off"
    /\ template # NoTemplate
    /\ IF template.parent = chain
       THEN /\ run' = [run EXCEPT !["exec"] =
                Started(template.miner, template.txs, template.root, template.calm)]
            /\ outcome' = "none"
       ELSE outcome' = "refused" /\ UNCHANGED run
    /\ UNCHANGED <<chain, trees, template>>

\* build_vanguard_block_template: coinbase first, then what the pool holds.
BuildTemplate(m, pool) ==
    /\ run["sim"].pc = "off"
    /\ Len(chain) < MaxHeight
    /\ run' = [run EXCEPT !["sim"] = Started(m, <<Coinbase(m)>> \o pool, NoRoot, TRUE)]
    /\ UNCHANGED <<chain, trees, template, outcome>>

\* The parallel prefetch of every account the block names.
Prefetch(p) ==
    /\ run[p].pc = "read"
    /\ run' = [run EXCEPT ![p].pc = "tx", ![p].cache = [a \in Account |-> GetAccountState(a)]]
    /\ UNCHANGED <<chain, trees, template, outcome>>

Height(r) == Len(r.parent) + 1
Current(r) == r.txs[r.next]

Executable(p) ==
    LET r == run[p]
        t == Current(r)
    IN  WellFormed(p, r.next, r.miner, t) /\ Recent(t, Height(r)) /\ Payable(r.cache, t)

TakeTx(p) ==
    LET r == run[p]
        t == Current(r)
    IN  /\ r.pc = "tx"
        /\ r.next <= Len(r.txs)
        /\ Executable(p)
        /\ run' = [run EXCEPT ![p] =
                     [r EXCEPT !.next = @ + 1,
                               !.cache = Transfer(@, t),
                               !.fees = @ + FeesOf(r.cache, t),
                               !.deducted = @ + Spend(r.cache, t),
                               !.credited = @ + t.amount,
                               !.kept = Append(@, t)]]
        /\ UNCHANGED <<chain, trees, template, outcome>>

Skipped_BurnsNonce(r) ==
    [r EXCEPT !.next = @ + 1,
              !.cache = IF IsTransfer(Current(r)) /\ Current(r).sender # NoAccount
                        THEN [@ EXCEPT ![Current(r).sender].nonce = @ + 1] ELSE @]

\* What a dry run keeps after a transaction it cannot execute.
Skipped(r) == [r EXCEPT !.next = @ + 1]

\* A dry run leaves the transaction out, a real execution rejects the block.
SkipTx ==
    /\ run["sim"].pc = "tx"
    /\ run["sim"].next <= Len(run["sim"].txs)
    /\ ~Executable("sim")
    /\ run' = [run EXCEPT !["sim"] = Skipped(@)]
    /\ UNCHANGED <<chain, trees, template, outcome>>

RejectBlock ==
    /\ run["exec"].pc = "tx"
    /\ run["exec"].next <= Len(run["exec"].txs)
    /\ ~Executable("exec")
    /\ run' = [run EXCEPT !["exec"] = Off]
    /\ outcome' = "invalid"
    /\ UNCHANGED <<chain, trees, template>>

\* The end of the block: the miner's reward is scheduled, every account the block
\* touched is paid what has matured, the others keep the leaf of the tree below.
Touched(r) ==
    {r.miner} \cup {r.kept[i].receiver : i \in 1 .. Len(r.kept)}
              \cup ({r.kept[i].sender : i \in 1 .. Len(r.kept)} \ {NoAccount})

Rewarded(r) ==
    [r.cache EXCEPT ![r.miner].maturing =
        @ \cup {[amount |-> Reward(Height(r)) + r.fees, height |-> Height(r) + Maturity]}]

FinalTree(r) ==
    [a \in Account |-> IF a \in Touched(r) THEN PayOut(Rewarded(r)[a], Height(r))
                       ELSE trees[Len(r.parent)][a]]

Conserved_Unchecked(r) == TRUE

\* The conservation audit.
Conserved(r) == r.deducted = r.credited + r.fees

Finished(p) == run[p].pc = "tx" /\ run[p].next > Len(run[p].txs)

\* The audit, the comparison with the state root of the header, the commit.
SealBlock ==
    LET r == run["exec"]
        tree == FinalTree(r)
    IN  /\ Finished("exec")
        /\ IF ~Conserved(r)
           THEN /\ outcome' = "toxic"
                /\ run' = [run EXCEPT !["exec"] = Off]
                /\ UNCHANGED <<chain, trees>>
           ELSE IF r.root \notin {NoRoot, tree}
           THEN /\ outcome' = "mismatch"
                /\ run' = [run EXCEPT !["exec"] = Off]
                /\ UNCHANGED <<chain, trees>>
           ELSE /\ outcome' = "committed"
                /\ run' = [run EXCEPT !["exec"] = Off, !["sim"] = Disturb(@)]
                /\ chain' = Append(chain, [miner |-> r.miner, txs |-> r.kept])
                /\ trees' = [trees EXCEPT ![Height(r)] = tree]
        /\ UNCHANGED template

\* The new template replaces the one the miner works on.
SealTemplate ==
    LET r == run["sim"]
    IN  /\ Finished("sim")
        /\ run' = [run EXCEPT !["sim"] = Off]
        /\ template' = IF Conserved(r)
                       THEN [parent |-> r.parent, miner |-> r.miner, txs |-> r.kept,
                             root |-> FinalTree(r), calm |-> r.calm]
                       ELSE template
        /\ UNCHANGED <<chain, trees, outcome>>

\* rollback_state to the block below: the trees stay on disk.
RollBack ==
    /\ run["exec"].pc = "off"
    /\ chain # <<>>
    /\ chain' = SubSeq(chain, 1, Len(chain) - 1)
    /\ run' = [run EXCEPT !["sim"] = Disturb(@)]
    /\ UNCHANGED <<trees, template, outcome>>

Next ==
    \/ \E m \in Account, txs \in Body : ReceiveBlock(m, txs)
    \/ \E m \in Wallet, pool \in Pool : BuildTemplate(m, pool)
    \/ SubmitTemplate
    \/ \E p \in Runner : Prefetch(p) \/ TakeTx(p)
    \/ SkipTx \/ RejectBlock \/ SealBlock \/ SealTemplate
    \/ RollBack

Spec == Init /\ [][Next]_vars

---------------------------------------------------------------------------
\* Properties.

RunTypeOK(r) ==
    /\ r.pc \in {"off", "read", "tx"}
    /\ r.miner \in Account \cup {NoAccount}
    /\ r.txs \in Seq(Transaction)
    /\ r.parent \in Seq([miner : Account, txs : Seq(Transaction)])
    /\ r.cache \in Ledger \cup {<<>>}
    /\ r.next \in Nat \ {0}
    /\ r.fees \in Nat
    /\ r.deducted \in Nat
    /\ r.credited \in Nat
    /\ r.kept \in Seq(Transaction)
    /\ r.root \in Ledger \cup {NoRoot}
    /\ r.calm \in BOOLEAN

\* No balance, in a tree or in the cache of an execution, ever goes below zero.
TypeOK ==
    /\ chain \in Seq([miner : Account, txs : Seq(Transaction)])
    /\ Len(chain) <= MaxHeight
    /\ trees \in [Heights -> Ledger]
    /\ \A p \in Runner : RunTypeOK(run[p])
    /\ template.root \in Ledger \cup {NoRoot}
    /\ outcome \in Outcome

\* All the coins there are: what the balances and the waiting rewards add up to is
\* what the emission schedule has minted up to that height (the EISD law).
SupplyConserved ==
    \A h \in 0 .. Len(chain) :
        MapThenSumSet(LAMBDA a : trees[h][a].btc_z + Total(trees[h][a].maturing), Account)
            = MapThenSumSet(Reward, 0 .. h)

\* A reference reading of the chain, with no caches, lists of waiting rewards or
\* touched accounts: the transfers of the first h blocks and what each of them costs.
Entry(h) == UNION {{<<b, i>> : i \in 2 .. Len(chain[b].txs)} : b \in 1 .. h}
TxOf(e) == chain[e[1]].txs[e[2]]
Before(e, f) == e[1] < f[1] \/ (e[1] = f[1] /\ e[2] < f[2])
KnownTo(e) ==   \* accounts something was paid to before entry e
    {Founder} \cup {chain[b].miner : b \in 1 .. (e[1] - 1)}
              \cup {TxOf(f).receiver : f \in {f \in Entry(e[1]) : Before(f, e)}}
FeeOf(e) == TxOf(e).fee + IF TxOf(e).receiver \in KnownTo(e) THEN 0 ELSE CreationFee
RewardOf(b) == Reward(b) + MapThenSumSet(FeeOf, {e \in Entry(b) : e[1] = b})

SpendableOf(a, h) ==
    LET paid == {e \in Entry(h) : TxOf(e).receiver = a}
        spent == {e \in Entry(h) : TxOf(e).sender = a}
        mined == {b \in 1 .. h : chain[b].miner = a /\ b + Maturity <= h}
    IN  MapThenSumSet(LAMBDA e : TxOf(e).amount, paid)
        - MapThenSumSet(LAMBDA e : TxOf(e).amount + FeeOf(e), spent)
        + MapThenSumSet(RewardOf, mined)
        + IF a = Founder /\ Maturity <= h THEN Reward(0) ELSE 0

\* What the ledger lets an account spend is exactly what the chain gave it: every
\* reward once and not before its Maturity blocks, every transfer once; and its
\* nonce is the number of transfers it signed.
LedgerMatchesHistory ==
    \A h \in 0 .. Len(chain), a \in Account :
        /\ PayOut(trees[h][a], h).btc_z = SpendableOf(a, h)
        /\ trees[h][a].nonce = Cardinality({e \in Entry(h) : TxOf(e).sender = a})

\* No transfer is executed twice, in one block or in two.
NoReplay ==
    \A b, c \in 1 .. Len(chain) :
        \A i \in 1 .. Len(chain[b].txs), j \in 1 .. Len(chain[c].txs) :
            /\ chain[b].txs[i] = chain[c].txs[j]
            /\ IsTransfer(chain[b].txs[i])
            => b = c /\ i = j

\* A block of the builder whose dry run was not disturbed is committed when it is
\* executed on the parent it was built on: the transactions the dry run kept execute
\* for real, and to the state root it announced.
TemplateExecutes ==
    [][run["exec"].root # NoRoot /\ run["exec"].calm /\ run'["exec"].pc = "off"
          => outcome' = "committed"]_vars
=============================================================================
