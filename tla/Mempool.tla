------------------------------ MODULE Mempool ------------------------------
(***************************************************************************)
(* The transaction pool of the Go node (mempool.go) with those who work on *)
(* it: the two-second bus, the exchange batches of the RPC server, the     *)
(* clean-up after a block, the template builder, the two periodic sweeps,  *)
(* reorganisations and restarts.  Each of them looks at the pool or at the *)
(* ledger under one lock or in one call and acts under a later one, so any *)
(* of the others may run between.                                          *)
(*                                                                         *)
(* The pool keys its queues by the sender's address as a string, and the   *)
(* callers spell it in two ways: the bus writes "0x" before the digits,    *)
(* everyone else does not.  A transaction is a record of its sender, nonce *)
(* and cost (amount, fee and the creation fee noted when it came); every   *)
(* transaction counts one byte.                                            *)
(*                                                                         *)
(* Not here: the copy on disk, which a restart only erases                 *)
(* (loadMempoolFromRust); projectedNonce, which no reader depends on; fees *)
(* beyond their order in a template; gossip.                               *)
(***************************************************************************)
EXTENDS Integers, FiniteSets, FiniteSetsExt

CONSTANTS
    Tx,         \* transactions: records with fields id, from, nonce, cost
    Account,
    MaxBytes,   \* MempoolMaxBytes, in transactions
    EvictBatch, \* MempoolEvictThreshold: 5000
    MaxGap,     \* maxAllowedNonceGap: 20
    MaxInserting, \* bound of the model: how many of the bus and the exchange batches
                \* may at once be between the core's answer and the insertion
    MaxRemoving, \* bound of the model: how many of the clean-ups, the template builder
                \* and the monitor may be between their look and the removal
    MaxOld,     \* bound of the model: how many may become outdated
    BytesBound  \* bound of the model: no batch is taken at this totalBytes

Spelling == {"0x", "plain"}
Key == Account \X Spelling

ASSUME TxAssumption ==
    /\ IsFiniteSet(Tx)
    /\ \A t \in Tx : t.from \in Account /\ t.nonce \in Nat /\ t.cost \in Nat

VARIABLES
    pool,   \* the maps of Mempool, all under m.mu
    ride,   \* processBusBatch: the part of its batch that the core approved
    ebp,    \* handleSendBatchTx by sender: the approved part still to be added
    jobs,   \* clean-ups after a block
    shield, \* buildAndSubmitTemplate: what it offered and the core left out
    sweep,  \* performEviction: what it read before it took the lock
    watch,  \* StartMonitor: the hashes it is about to remove
    chain,  \* the ledger: by account, its executed transactions, one of each nonce from 0
    old     \* transactions whose block hash has left the window, or that are too old

vars == <<pool, ride, ebp, jobs, shield, sweep, watch, chain, old>>

---------------------------------------------------------------------------
\* What the pool does under its lock.

Cost(S) == MapThenSumSet(LAMBDA t : t.cost, S)
\* MUTANT of Lowered: a sum below zero is kept.
LoweredBelow(x, d) == x - d

\* What is given back never takes a sum below zero.
Lowered(x, d) == IF x >= d THEN x - d ELSE 0
Nonces(S) == {t.nonce : t \in S}
From(S, a) == {t \in S : t.from = a}
Plain(a) == <<a, "plain">>

EmptyPool ==
    [pending |-> {},                            \* pendingTxs
     sender  |-> [t \in Tx |-> Plain(t.from)],  \* txSender, for pending ones
     queue   |-> [k \in Key |-> {}],            \* txBySender: distinct nonces, in order
     items   |-> {},                            \* txItems
     spend   |-> [k \in Key |-> 0],             \* pendingSpend
     total   |-> 0]                             \* totalBytes

\* The senders of gone are forgotten.
Forgotten(p, gone) == [t \in Tx |-> IF t \in gone THEN Plain(t.from) ELSE p.sender[t]]

\* MUTANT of AddValidated: charged before the nonce is found taken.
ChargedFirst(p, sp, S) ==
    LET fresh == S \ p.pending
        key(t) == <<t.from, sp>>
        queued == {t \in fresh : t.nonce \notin Nonces(p.queue[key(t)])}
        into(k) == {t \in queued : key(t) = k}
    IN  [pending |-> p.pending \cup fresh,
         sender  |-> [t \in Tx |-> IF t \in fresh THEN key(t) ELSE p.sender[t]],
         queue   |-> [k \in Key |-> p.queue[k] \cup into(k)],
         items   |-> p.items \cup queued,
         spend   |-> [k \in Key |-> p.spend[k] + Cost({t \in fresh : key(t) = k})],
         total   |-> p.total + Cardinality(fresh)]

\* S, no two of one sender and nonce, is added under the given spelling.  One
\* whose nonce is taken is stored, but neither queued nor charged.
AddValidated(p, sp, S) ==
    LET fresh == S \ p.pending
        key(t) == <<t.from, sp>>
        queued == {t \in fresh : t.nonce \notin Nonces(p.queue[key(t)])}
        into(k) == {t \in queued : key(t) = k}
    IN  [pending |-> p.pending \cup fresh,
         sender  |-> [t \in Tx |-> IF t \in fresh THEN key(t) ELSE p.sender[t]],
         queue   |-> [k \in Key |-> p.queue[k] \cup into(k)],
         items   |-> p.items \cup queued,
         spend   |-> [k \in Key |-> p.spend[k] + Cost(into(k))],
         total   |-> p.total + Cardinality(fresh)]

Accepted(p, sp, t) == t \in p.pending \/ t.nonce \notin Nonces(p.queue[<<t.from, sp>>])

\* MUTANT of RemoveTransactions: a hash the pool no longer has lowers totalBytes too.
RemovedTwice(p, H) ==
    LET gone == H \cap p.pending
        charged(k) == {t \in gone \cap p.items : p.sender[t] = k}
    IN  [pending |-> p.pending \ gone,
         sender  |-> Forgotten(p, gone),
         queue   |-> [k \in Key |-> p.queue[k] \ gone],
         items   |-> p.items \ gone,
         spend   |-> [k \in Key |-> Lowered(p.spend[k], Cost(charged(k)))],
         total   |-> p.total - Cardinality(H)]

\* What is charged is given back for those with an entry in txItems.
RemoveTransactions(p, H) ==
    LET gone == H \cap p.pending
        affected == {p.sender[t] : t \in gone}
        charged(k) == {t \in gone \cap p.items : p.sender[t] = k}
    IN  [pending |-> p.pending \ gone,
         sender  |-> Forgotten(p, gone),
         queue   |-> [k \in Key |-> IF k \in affected THEN p.queue[k] \ H ELSE p.queue[k]],
         items   |-> p.items \ gone,
         spend   |-> [k \in Key |-> Lowered(p.spend[k], Cost(charged(k)))],
         total   |-> p.total - Cardinality(gone)]

\* floor: by key, the nonce below which the ledger has moved on.  totalBytes stays.
RemoveStale(p, floor) ==
    LET stale(k) == {t \in p.queue[k] : k \in DOMAIN floor /\ t.nonce < floor[k]}
        gone == UNION {stale(k) : k \in Key}
    IN  [pending |-> p.pending \ gone,
         sender  |-> Forgotten(p, gone),
         queue   |-> [k \in Key |-> p.queue[k] \ stale(k)],
         items   |-> p.items \ gone,
         spend   |-> [k \in Key |-> Lowered(p.spend[k], Cost(stale(k)))],
         total   |-> p.total]

\* MUTANT of Purged: the queues are not among the maps that are replaced.
PurgedButQueues(p) == [EmptyPool EXCEPT !.items = p.items, !.queue = p.queue]

\* txItems is not among the maps that are replaced.
Purged(p) == [EmptyPool EXCEPT !.items = p.items]

\* The sets PerformCapacityEviction may cut: a fifth of each queue, at least
\* one, from its high end, the longest queues first, EvictBatch in all.
Fifth(Q) == IF Q = {} THEN 0 ELSE IF Cardinality(Q) < 5 THEN 1 ELSE Cardinality(Q) \div 5

TailOf(W, Q) == \A t \in W \cap Q, u \in Q \ W : u.nonce < t.nonce

Victims(p) ==
    LET cut(W, k) == Cardinality(W \cap p.queue[k])
        full(W, k) == cut(W, k) = Fifth(p.queue[k])
    IN  {W \in SUBSET UNION {p.queue[k] : k \in Key} :
            /\ Cardinality(W) <= EvictBatch
            /\ Cardinality(W) = EvictBatch \/ \A k \in Key : full(W, k)
            /\ \A k \in Key : cut(W, k) <= Fifth(p.queue[k]) /\ TailOf(W, p.queue[k])
            /\ \A k, l \in Key :
                  /\ Cardinality(p.queue[k]) > Cardinality(p.queue[l])
                  /\ cut(W, l) > 0
                  => full(W, k)}

WithinCapacity(p) == IF p.total > MaxBytes THEN {RemoveTransactions(p, W) : W \in Victims(p)} ELSE {p}

\* getNextNonceLocked: the first nonce from n on that a queue does not hold.
NextNonce(Q, n) == CHOOSE m \in n .. n + Cardinality(Q) :
    m \notin Nonces(Q) /\ \A i \in n .. m - 1 : i \in Nonces(Q)

\* getSenderNoncesBatch: the lowest nonce of each queue, not the ledger's.
Heads(p) == [k \in Key |-> IF p.queue[k] = {} THEN 0 ELSE Min(Nonces(p.queue[k]))]

---------------------------------------------------------------------------
\* The ledger, as far as the pool sees it.

LedgerNonce(a) == Cardinality(chain[a])

\* S can be executed now: the next nonces of each account, each once.
Executable(S) == \A a \in Account :
    Nonces(From(S, a)) = LedgerNonce(a) .. LedgerNonce(a) + Cardinality(From(S, a)) - 1

Executed(S) == [a \in Account |-> chain[a] \cup From(S, a)]

---------------------------------------------------------------------------
NoSweep == [at |-> "idle", heads |-> [k \in Key |-> 0], outdated |-> {}]

Init ==
    /\ pool = EmptyPool
    /\ ride = {}
    /\ ebp = [a \in Account |-> {}]
    /\ jobs = {}
    /\ shield = {}
    /\ sweep = NoSweep
    /\ watch = {}
    /\ chain = [a \in Account |-> {}]
    /\ old = {}

Inserting == Cardinality({a \in Account : ebp[a] # {}}) + (IF ride = {} THEN 0 ELSE 1)
Removing == Cardinality(jobs) + Cardinality({i \in 1 .. 2 : <<shield, watch>>[i] # {}})

\* processBusBatch, down to the answer of ValidateTransactionBatch.  Anything may
\* be on the bus, fresh from a wallet or a peer, or orphaned by a block.  What
\* the pool has is dropped, the queues the bus filled for the same senders are
\* put before the rest, and the core approves, of what is next in line and
\* recent, any part: the balance or a signature may fail one, and then those
\* behind it.  Of two with one nonce either may come first.
BusJudge ==
    /\ ride = {}
    /\ Inserting < MaxInserting
    /\ pool.total < BytesBound
    /\ \E new \in SUBSET (Tx \ pool.pending) \ {{}} :
          LET again == UNION {pool.queue[<<t.from, "0x">>] : t \in new}
          IN  \E S \in SUBSET ((new \cup again) \ old) :
                 /\ Executable(S)
                 /\ ride' = S
    /\ UNCHANGED <<pool, ebp, jobs, shield, sweep, watch, chain, old>>

BusInsert ==
    /\ ride # {}
    /\ pool' \in WithinCapacity(AddValidated(pool, "0x", ride))
    /\ ride' = {}
    /\ UNCHANGED <<ebp, jobs, shield, sweep, watch, chain, old>>

\* handleSendBatchTx, under the lock of the sender: a batch that continues the
\* plain queue, or the ledger.  A verdict "nonce gap" is overruled, any other
\* refusal is not.
EbpJudge(a) ==
    /\ ebp[a] = {}
    /\ Inserting < MaxInserting
    /\ pool.total < BytesBound
    /\ \E S \in SUBSET From(Tx, a) \ {{}} :
          LET base == NextNonce(pool.queue[Plain(a)], LedgerNonce(a))
          IN  /\ Nonces(S) = base .. base + Cardinality(S) - 1
              /\ \E part \in SUBSET (S \ old) : ebp' = [ebp EXCEPT ![a] = part]
    /\ UNCHANGED <<pool, ride, jobs, shield, sweep, watch, chain, old>>

\* AddValidatedTx, one transaction per lock.
EbpInsert(a) ==
    /\ \E t \in ebp[a] :
          LET added == AddValidated(pool, "plain", {t})
          IN  /\ \A u \in ebp[a] \ {t} : t.nonce < u.nonce
              /\ pool' \in IF Accepted(pool, "plain", t) THEN WithinCapacity(added) ELSE {added}
              /\ ebp' = [ebp EXCEPT ![a] = @ \ {t}]
    /\ UNCHANGED <<ride, jobs, shield, sweep, watch, chain, old>>

NoFloor == [k \in {} |-> 0]
Job(S, first) == [txs |-> S, senders |-> {t.from : t \in S}, step |-> first, floor |-> NoFloor]

\* A block is committed, from the network or the node's own: after its own the
\* miner first removes by itself what became stale, then the same clean-up runs.
Block ==
    /\ Removing < MaxRemoving
    /\ \E S \in SUBSET Tx \ {{}}, first \in {"hash", "ownRead"} :
          /\ Executable(S)
          /\ chain' = Executed(S)
          /\ jobs' = jobs \cup {Job(S, first)}
    /\ UNCHANGED <<pool, ride, ebp, shield, sweep, watch, old>>

\* SyncBlockToTracker removes by hash, reads the nonces of the senders (a call
\* that may fail), and removes what is below them in their plain queues.
CleanByHash ==
    /\ \E j \in jobs :
          /\ j.step = "hash"
          /\ pool' = RemoveTransactions(pool, j.txs)
          /\ jobs' = (jobs \ {j}) \cup {[j EXCEPT !.txs = {}, !.step = "read"]}
    /\ UNCHANGED <<ride, ebp, shield, sweep, watch, chain, old>>

Floors(j) == [k \in {Plain(a) : a \in j.senders} |-> LedgerNonce(k[1])]

CleanRead ==
    /\ \E j \in jobs :
          \/ /\ j.step \in {"read", "ownRead"}
             /\ jobs' = (jobs \ {j}) \cup {[j EXCEPT
                   !.floor = Floors(j),
                   !.step = IF @ = "read" THEN "stale" ELSE "ownStale"]}
          \/ /\ j.step = "read"
             /\ jobs' = jobs \ {j}
    /\ UNCHANGED <<pool, ride, ebp, shield, sweep, watch, chain, old>>

CleanStale ==
    /\ \E j \in jobs :
          /\ j.step \in {"stale", "ownStale"}
          /\ pool' = RemoveStale(pool, j.floor)
          /\ jobs' = (jobs \ {j}) \cup IF j.step = "stale" THEN {} ELSE {Job(j.txs, "hash")}
    /\ UNCHANGED <<ride, ebp, shield, sweep, watch, chain, old>>

\* GetPartitionedTransactions takes the unbroken run of each queue from a head
\* on that it read under an earlier lock, as far as the block has room: one too
\* large for the rest is passed over, its successors are not.
Run(Q, head) ==
    LET ahead == {t \in Q : t.nonce >= head}
    IN  {t \in ahead : \A n \in Min(Nonces(ahead)) .. t.nonce : n \in Nonces(ahead)}

\* The dry run of the core keeps what executes; what it left out is noted.
Template ==
    /\ shield = {}
    /\ Removing < MaxRemoving
    /\ \E head \in [Key -> Nonces(Tx)] :
          \E S \in SUBSET UNION {Run(pool.queue[k], head[k]) : k \in Key} :
             \E fit \in SUBSET (S \ old) :
                /\ Executable(fit)
                /\ shield' = S \ fit
    /\ UNCHANGED <<pool, ride, ebp, jobs, sweep, watch, chain, old>>

TemplateShield ==
    /\ shield # {}
    /\ pool' = RemoveTransactions(pool, shield)
    /\ shield' = {}
    /\ UNCHANGED <<ride, ebp, jobs, sweep, watch, chain, old>>

\* performEviction: heads and recent hashes are read without the write lock.
SweepRead ==
    /\ sweep.at = "idle"
    /\ sweep' = [at |-> "read", heads |-> Heads(pool), outdated |-> old]
    /\ UNCHANGED <<pool, ride, ebp, jobs, shield, watch, chain, old>>

\* MUTANT of Swept: only the head of the queue is looked at.
SweptHead(Q, head, outdated) ==
    IF \E t \in Q : t.nonce = head /\ t \in outdated THEN Q ELSE {t \in Q : t.nonce < head}

\* Below the head seen: removed alone.  From the first outdated one, or the
\* first too far behind a gap, on: all removed.
Swept(Q, head, outdated) ==
    LET live == {t \in Q : t.nonce >= head}
        gap == NextNonce(live, head)
        bad == {t \in live : t \in outdated \/ t.nonce - gap > MaxGap}
    IN  (Q \ live) \cup {t \in live : \E u \in bad : u.nonce <= t.nonce}

SweepApply ==
    /\ sweep.at = "read"
    /\ pool' = RemoveTransactions(pool,
                  UNION {Swept(pool.queue[k], sweep.heads[k], sweep.outdated) : k \in Key})
    /\ sweep' = NoSweep
    /\ UNCHANGED <<ride, ebp, jobs, shield, watch, chain, old>>

\* StartMonitor collects outdated hashes under the read lock, removes them later.
WatchRead ==
    /\ watch = {}
    /\ Removing < MaxRemoving
    /\ watch' = pool.items \cap old
    /\ UNCHANGED <<pool, ride, ebp, jobs, shield, sweep, chain, old>>

WatchApply ==
    /\ watch # {}
    /\ pool' = RemoveTransactions(pool, watch)
    /\ watch' = {}
    /\ UNCHANGED <<ride, ebp, jobs, shield, sweep, chain, old>>

\* Purge, after a reorganisation or on the operator's demand.
Purge ==
    /\ pool' = Purged(pool)
    /\ UNCHANGED <<ride, ebp, jobs, shield, sweep, watch, chain, old>>

\* The last transactions of an account leave the ledger.
Reorganise ==
    /\ \E a \in Account, n \in Nonces(Tx) :
          chain' = [chain EXCEPT ![a] = {t \in @ : t.nonce < n}]
    /\ UNCHANGED <<pool, ride, ebp, jobs, shield, sweep, watch, old>>

\* Time passes.
Age ==
    /\ Cardinality(old) < MaxOld
    /\ \E t \in Tx \ old : old' = old \cup {t}
    /\ UNCHANGED <<pool, ride, ebp, jobs, shield, sweep, watch, chain>>

\* The Go process is restarted; the pool starts empty.
Restart ==
    /\ pool' = EmptyPool
    /\ ride' = {}
    /\ ebp' = [a \in Account |-> {}]
    /\ jobs' = {}
    /\ shield' = {}
    /\ sweep' = NoSweep
    /\ watch' = {}
    /\ UNCHANGED <<chain, old>>

Next ==
    \/ BusJudge \/ BusInsert
    \/ \E a \in Account : EbpJudge(a) \/ EbpInsert(a)
    \/ Block \/ CleanByHash \/ CleanRead \/ CleanStale
    \/ Template \/ TemplateShield
    \/ SweepRead \/ SweepApply \/ WatchRead \/ WatchApply
    \/ Purge \/ Reorganise \/ Age \/ Restart

Spec == Init /\ [][Next]_vars

---------------------------------------------------------------------------
\* Each goroutine's notes and the pool's maps have their types.
TypeOK ==
    /\ pool \in [pending : SUBSET Tx, sender : [Tx -> Key], queue : [Key -> SUBSET Tx],
                 items : SUBSET Tx, spend : [Key -> Nat], total : Nat]
    /\ ride \subseteq Tx /\ shield \subseteq Tx /\ watch \subseteq Tx /\ old \subseteq Tx
    /\ ebp \in [Account -> SUBSET Tx]
    /\ chain \in [Account -> SUBSET Tx]

\* However the goroutines interleave, a queue holds only transactions the pool
\* has, under the sender it noted for them, never two of one nonce, each with
\* the entry that its removal will look up: no queue is left with a hash that
\* no later removal finds, and no transaction is offered twice.
QueueIsPending == \A k \in Key :
    /\ \A t \in pool.queue[k] :
          t \in pool.pending /\ pool.sender[t] = k /\ t \in pool.items
    /\ \A t, u \in pool.queue[k] : t.nonce = u.nonce => t = u

\* totalBytes is unsigned and lowered by every removal: it never wraps below
\* zero, because it is at least what the pool holds, whichever of the five
\* removers ran and in whatever order they saw the same hashes.
BytesCovered == pool.total >= Cardinality(pool.pending)

\* A wallet's pendingSpend is never more than its queued transactions cost:
\* what left the pool, by whichever way, is not held against the wallet.
ReserveCovered == \A k \in Key : pool.spend[k] <= Cost(pool.queue[k])

\* When a sweep is over, no queue has a transaction that was outdated when it
\* began, whatever was inserted before and behind it in the meantime.
SweepClears ==
    [][sweep.at = "read" /\ sweep'.at = "idle"
       => \A k \in Key : pool'.queue[k] \cap sweep.outdated = {}]_vars
=============================================================================
