# YonaCode: TLA+ models, checks and proofs

TLA+ specifications of the consensus core of YonaCode, the TLC configurations
that model-check them on small instances, and TLAPS proofs of their main
theorems. Paths are relative to the repository root. `PROJECT.json` maps every
definition to the lines it models, lists the runs, the seeded bugs each property
is known to catch (`mutants`), the hazards of the code and the disagreements
found between the code and its own comments (`findings`).

    cd tla
    tlc -workers 2 -config ChainCrash.cfg MCProcessChain.tla     # any run: see "Runs"
    tlapm ProcessChainProofs.tla

## 1. The system

A YonaCode node is two processes and a set of clients.

* **Rust core** (`src/0_shared_lib`): owns the ledger in RocksDB; decides which
  chain is canonical, executes blocks, builds block templates. Served over gRPC
  by `bin/scl_server.rs`.
* **Go node** (`src/5_node_p2p`, `src/2_miner_core/go_bridge`,
  `src/6_user_interface`): libp2p network, gossip, block download, mempool, ban
  list, mining control, RPC. It reaches the core through `go_bridge`.
* **Miners and pools** (`src/8_miner_gpu`, `src/11_light_mining`,
  `src/9_mining_pool`) and **wallets** (`src/7_user_wallet`,
  `src/8_wallet_gateway`).

### Components

| Component | State | Operations | What makes it correct |
|---|---|---|---|
| Ledger store, `state_manager.rs` | RocksDB column families: height index, headers (with accumulated weight), bodies, account tree versions, flat account table, touched lists; `jmt_v`, `finalized_h` | commit, save, rollback, force delete, finalize, heal at boot, purge, snapshot import/export | index is one linked chain; table is that chain executed; tip complete when served |
| Fork choice, `consensus/reorg.rs` | locals of one `process_chain` call | verify, weigh, roll back, execute, recover | only a heavier chain replaces; finalized blocks stay unless ten times outweighed; a failure restores |
| Block intake, `lib.rs` | none | `process_new_block`, `save_block_raw`, `commit_block_hash` | a crash between its four writes is healed |
| Execution, `lib.rs` | cache of one execution | `execute_block_internal` real and dry | no transfer twice, no coin from nothing, rewards paid once and not early |
| Block builder, `lib.rs` | none; the miner keeps the template | `build_vanguard_block_template` | the block it proposes is accepted |
| Header-chain evaluation, `lib.rs` | none | `evaluate_header_chain` | same verdict as `process_chain` on the same blocks |
| Rewards, difficulty, PoW, crypto | none (pure) | schedule, LWMA, hashing | emission closed form equals the sum; bounds |
| gRPC bridge, `go_bridge` | `consensusMu`, connection | one call per RPC, retries, deadlines | chain-moving calls do not overlap |
| Sync engine, `sync_engine.go` | orphan tracker, strikes, catch-up flag, pending blocks, side-chain cool-downs | block arrival, orphan alignment, catch-up, investigation, fast bootstrap | a heavier chain is eventually adopted; honest peers are not punished |
| Mempool, `mempool.go` | transactions, senders, per-sender nonce queues, pending spend, byte count | add one or a batch, remove by hash or by nonce, evict, sweep, purge after a reorganisation | queues hold what the pool holds, one of each nonce; the byte count never wraps; a wallet is not charged for what left |
| Bans and gating, `ban_manager.go`, `network_manager.go` | bans, penalties, static peers and mode, their file, one RWMutex | punish, pardon, sweep, set and save, four gates | a banned or unwanted peer is out; the file is what is set; the nested lock is the only way to get stuck |
| Download, `header_sync.go`, `block_sync.go`, `bitswap_adapter.go` | streams | request, answer | lost or late answers do no harm |
| Mining pool, `9_mining_pool/pool.go`, `rpc_server.go` | shares, used nonces, pending payouts, three JSON files | job, share, solved block, payout | each share paid at most once |
| Node process and CLI, `cli_app.go`, `cmd/genz` | run state, mining state | start, supervise, self-audit, rollback | restart leads back to service |

### How they interact

* Peers' blocks reach `SyncEngine` by gossip or by request. A block whose parent
  is known goes to the core's `ProcessChain`; an orphan starts an alignment,
  which asks a peer for headers, has the core judge them
  (`EvaluateHeaderChain`), downloads bodies and hands them to `ProcessChain` in
  chunks of ten.
* `Bridge.ProcessChain` (`bridge.go:1353`) holds `consensusMu` during the call,
  so one `process_chain` runs at a time. In the server a call runs to its end in
  a blocking task, also when the client has gone. `Bridge.RollbackState`
  (`bridge.go:736`) takes no lock.
* The miner asks for templates (a dry run inside the core, no lock) and sends
  solved blocks to `ProcessChain`.
* The node's supervisor restarts the core when it dies; `StateManager::try_new`
  heals an incomplete tip at boot.

### What is hard here

Crashes between the separate writes of one block; recovery that itself depends on
the checkpoint the failed attempt moved; a call that reads a version and acts on
it one RPC later; a dry run that reads the ledger twice without a lock; caches and
counters of the Go node updated from several goroutines. The `hazards` of
`PROJECT.json` list them line by line, with the properties that cover them or the
reason none does yet.

## 2. Modules

| Module | Models | Extends |
|---|---|---|
| `BlockTree` | the blocks a node may be handed; what executing one does to the accounts | – |
| `StateManager` | the RocksDB ledger: one operator per atomic RocksDB write | `BlockTree` |
| `ProcessChain` | `process_chain`, `process_new_block`, boot healing, step-backs, operator deletes, as a machine with a program counter between writes | `StateManager` |
| `HealRace` | the unlocked step-back racing with it | `ProcessChain` |
| `Execution` | `execute_block_internal` on accounts, balances, nonces, rewards and fees, real and dry, with the builder and the miner around it | – |
| `Ledger` | one whole `ProcessChain` call as a step on (tip, checkpoint): what it promises the Go goroutines; `ProcessChain` is shown to keep it, by a run and by proof | – |
| `CatchUp` | `CatchUpSync` and `evaluate_header_chain` with one peer, around `Ledger` | `Ledger` |
| `BestChain` | what fork choice promises whoever asks the node: a best block and a checkpoint; `ProcessChain` is shown to implement it, by a run and by proof | – |
| `OrphanSync` | block arrival by its three ways, investigations, alignment with strikes, the single-catch-up flag | – |
| `Mempool` | the pool's maps under their lock, and the goroutines that look under one lock and act under the next | – |
| `MiningPool` | share submissions over HTTP and streams, the nonce cache, payouts, three files | – |
| `PeerGate` | bans, isolation modes, the gates before a connection and the read-write lock they share | – |
| `MCTree`, `MCProcessChain`, `MCHealRace`, `MCExecution`, `MCCatchUp`, `MCCatchUpNear`, `MCOrphanSync`, `MCMempool`, `MCMiningPool`, `MCPeerGate` | instances for TLC | |
| `ProcessChainProofs` (with `HealRace`), `ExecutionProofs`, `CatchUpProofs`, `OrphanSyncProofs`, `MempoolProofs`, `MiningPoolProofs`, `PeerGateProofs` | theorems and proofs | the module each is about |
| `Sums` | finite sums, induction and recursion on trees, for the proofs | – |

### Correspondence: the ledger (`BlockTree`, `StateManager`, `ProcessChain`)

A **block** is its header hash. `index`, `headers`, `weight`, `bodies`, `version`,
`finalized`, `jmt`, `acc`, `touched` are the column families and meta keys named
beside them in `StateManager`. Each write operator is one `db.write` or `db.put`;
a crash falls between two of them. Reads that precede the first write of a call
happen under `consensusMu` and are one step with it.

An **account state** is an opaque value and `Effect(b, a, v)` what block `b` makes
of it; the real balances are the business of `Execution`. In the runs a state is
the list of the blocks that rewrote the account, so a lost, repeated or misplaced
execution is visible. A **state root** names the account tree it is the root of.

`pc` of `ProcessChain` says which write comes next:

    idle -> rollback -> apply* -> (Adopt) idle                    reorganisation
                          |-> recover -> replay* -> (Restored) idle
    idle -> header -> body -> index -> finalize -> idle           process_new_block
            (replayed blocks take the same four writes and return to replay)
    any -> down -> healing* -> idle                               crash and boot

Details of the code that the model keeps because something depends on them:

* the fork point is *any* stored header, canonical or not (`ForkBlock`);
* the height a header declares is not compared with its parent's, so that "blocks
  sit at their height" is a result, not an assumption;
* `commit_block_atomic` writes `finalized_h = height - 5` whatever it was, while
  `set_finalized_height` only raises it;
* the result of the recovery rollback is ignored (`Recover`);
* bodies are stored by hash but deleted by height, so no rollback removes one;
* the gRPC deadline may pass before any block of a batch (`Deadline`);
* `put_block_hash` never overwrites a row with another hash.

Abstractions: proof of work, difficulty and timestamps are one set `ValidHeader`;
signatures are `ValidSigs`; the rest of a body is `ValidBody`. Trees above the
current version stay on disk in the code; nothing reads one before it is written
again, and the model blanks them. `before` is a history variable.

**What it implements.** `BestChain` has two variables, a best block and a
checkpoint, and counts work on the tree itself: the ancestors of a block are the least
set that holds it and the parents of what it holds, the work of a branch the sum over
the ancestors the other block lacks. `ServesBestChain` instantiates it
with the tip and the checkpoint the node serves between calls (`ServedTip`,
`ServedCheckpoint`; during a call the values from before it): the best block moves
to a child, to a branch with strictly more work (`OverrideFactor` times as much
across the checkpoint), or to its parent above the checkpoint. A reorganisation
that failed is a stutter, except that it may leave the checkpoint elsewhere
(`Shift`): lowered to the fork it tried, or raised by blocks it committed and undid.

### Correspondence: execution (`Execution`)

The chain of a block's ancestors stands for its parent hash, and a tree for its
root. `run["exec"]` holds the locals of an execution of a received block,
`run["sim"]` those of the builder's dry run: parent check (`ReceiveBlock`,
`BuildTemplate`), prefetch of the accounts, one step per transaction, end of
block. Only real executions are serialised; blocks are committed and rolled back
between the steps of a dry run. The per-transaction checks are `WellFormed`
(coinbase position, signature), `Recent` (hash of a recent block), `Payable`
(nonce, fee tier, balance with the creation charge). Rewards wait in `maturing`
and are paid on read and at the end of a block (`PayOut`); `Conserved` is the audit
`deducted = credited + fees`. The prefetch of all accounts is one step: every key
is read at the same `version` unless a commit falls inside, which the separate
parent check already lets happen just before. The pool hands the builder signed
transactions only, as the Go mempool verifies them. `calm` is a history variable:
the ledger did not move during the dry run.

### Correspondence: catching up (`Ledger`, `CatchUp`)

`Ledger` names the canonical chain by its tip. `Verdict` is the answer to a list of
blocks in the order the code decides: parent unknown (status 3, "orphan"), broken
link (2, "fraud"), not heavy enough (0, "ignored"; nothing is stored), a block that does
not apply (2, "mismatch"), adopted (1). Blocks are valid; to `CatchUp` the only way to a
mismatch is a block sent without its body. `ProcessChain(B, bare)` is the whole call:
an adopted list brings its tip and the checkpoint `FinalityDepth` below it; a failed one
keeps the tip, and of the checkpoint `LeftAt` says what the commits before the failure
(or, without any, the deep branch) have made of it, from where the replay of the old
chain raises it again. `KeepsPromise` in `ProcessChain` compares the two modules: its
call, from `Accept` to the answer, with one step of `Ledger`, for the list of blocks in
which the one the call stopped at (executed badly, or reached after the deadline) is bare.

`pc` of `CatchUp` follows the function:

    idle -> headers <-> judge -> fetch -> deliver          smart answer
                          |        ^ |-> bodies -> deliver  bodies by height
                          v        |______________|
                        idle       (ConcludeSmart, Conclude)

`Start` reads the checkpoint, the version and the height the peer has told;
`StepBack` is the search for a common ancestor; `Judge` is
`evaluate_header_chain`; `Gather` collects bodies (a bare header below the
checkpoint, whatever `pendingBlocks` holds at the height, or the block asked for by
its hash); `Deliver` is one `ProcessChain` call on a chunk; `Conclude` is the
`if`/`else if` ladder on the last answer, penalties and amnesty included. Between
any two of them the node may adopt a block of its own (`LocalBlock`), gossip may
leave a block in `pendingBlocks` (`KeepBlock`, looked at by height only, as in the
code) and the peer may extend or leave its branch (`PeerMoves`).

The peer is honest: what it sends are blocks of the chain it has. Kept because
something depends on it: status 0 counts as success; statuses 0 and 3 do not stop
the chunk loop; after a refused batch the loop goes on with the next heights; an
empty header answer is an error that costs a strike; bootstrap mode answers fork
point 0. Left out: the side-chain cool-down (it delays the next call by five
minutes), errors of the gRPC call itself, reconstruction of bodies from cached
transaction ids, which ends in the same request by hash. `oldTip` is a history
variable.

### Correspondence: orphans (`OrphanSync`)

Every arriving block is a goroutine (`job`). By gossip and after the core's answer
"orphan" it first looks at the height (`Look`), in the sequential loop it registers
first (`Register`); `Attempt` is `checkAndRecordOrphanAttempt`; `Align` to `Strike`
are `alignOrphanChain` and the goroutine it starts, with the flag read once before
(`Align`) and once by compare-and-swap (`Enter`). What `CatchUpSync` does inside is
the module `CatchUp`; here it brings an honest peer's chain, and from another peer
any part. `detective` is `investigationRoutine`: a copy of the tracker, one question
per case without the lock, then the deletions under it. `crossed` is a history
variable: an alignment did not get its catch-up, or somebody else moved the height
it is judged by. So is `renewed`: cases that the peer accused by the investigator's
copy has opened again, or fed, since the copy. The code compares senders only and
drops them, fresh as they are; `FreshCaseKept` says that it drops no other fresh case.

### Correspondence: the pool of transactions (`Mempool`)

`pool` is the record of the maps under `m.mu`, and the operators from
`AddValidated` to `WithinCapacity` are what each method does to all of them at
once. Everything else is a goroutine that looks first and acts later: the two-second
bus (`BusJudge`, `BusInsert`), an exchange batch (`EbpJudge`, `EbpInsert`, one
transaction per lock), the clean-up after a block (`CleanByHash`, `CleanRead`,
`CleanStale`), the template and its shield, `performEviction`, `StartMonitor`,
`Purge`, `Reorganise`, `Restart`. The queues are keyed by the address as a string,
and the bus spells it with "0x": the two spellings are two queues, as in the code.
The core approves any part of what is executable next.

### Correspondence: the mining pool (`MiningPool`)

A request is a goroutine with the template it read; `req[r].pc` is the call it makes
next, and the phases in `Holding` keep `pool.Mu` (a crash may fall there, another
request not). Each of the three JSON files is truncated by one step and written by
the next; what it holds is what a restart would load. A credit is the number of the
share that earned it, so that a credit in two places shows. A file may not open, or not be
written, and the code goes on (`Failed`); for payouts and mined heights, which later
writes mend, `unsaved` remembers it. `unsaved`, `credits` and `mixed` are history
variables.

### Correspondence: bans and gates (`PeerGate`)

`bannedPeers`, `bannedIPs`, `isolationMode`, `staticPeers` are the fields of
`BanManager`, `file` its `static_peers.json`. A gate is a goroutine that dials or
accepts: `InterceptPeerDial`, `InterceptAddrDial` and `InterceptSecured` for an
outgoing connection, `InterceptAccept` and `InterceptSecured` for an incoming one,
in libp2p's order, and then the swarm adds it (`Connect`). Each gate takes the read
lock (`EnterGate`) and again for each question it asks (`Ask`, `Answer`), so `bm.mu`
is modelled as Go implements it: a reader that finds a writer waiting sleeps, an
unlocking writer wakes every sleeping reader before the next writer. `punishPeer`
is `Tally`, `Conns`, `BanIP`, `BanPeer`, `Close`; the pardon after a deep
reorganisation, which also forgets the penalties, and the operator's, which does
not, are `Clear` and `Forget`; the two settings requests are set and saved under two
locks, and isolating the node then closes peers one by one from a list it took
(`ListPeers`, `Part`). `Restart` loads the file, or the defaults when it was half
written. `os.WriteFile`'s error is dropped (`ban_manager.go:106`), so a save may fail:
the file stays as it was or no longer parses (`Failure`), and the history variable
`broken` remembers it until the next save. One step stands for each of the four
gates (`Verdict`, `Admits`). `overtaken` is a history variable: connections that every gate had admitted
before the ban or the setting, or that the settings request left open.

## 3. Runs

| Run | Question | Result |
|---|---|---|
| `ChainCrash` | every interleaving of calls, single blocks, step-backs, operator deletes, crashes and restarts | `TypeOK`, `CanonicalChain`, `StateFollowsChain`, `ReadyMeansComplete`, `FinalizedIsFinal`, `AdoptedIsHeavier` hold, and every call, recovery and boot ends (`ReturnsToIdle`); 233,000 states |
| `ChainSteady` | the same without crashes and operator | `WeightsAccumulate`, `FailureRestores` hold; `ServesBestChain`: the node implements `BestChain`; `KeepsPromise`: each call is one of `Ledger`; 4,900 states |
| `ExecLedger` | blocks, good and bad, and rollbacks on balances | `TypeOK`, `SupplyConserved`, `LedgerMatchesHistory`, `NoReplay` hold |
| `ExecTemplate` | the builder racing with commits and rollbacks | `TemplateExecutes` holds: an undisturbed template is always accepted |
| `CatchUpNear` | catching up with a peer whose branch forks off above the checkpoint, at every height, with and without smart answers | `HonestUnpunished`, `CatchesUp` hold |
| `CatchUpRough` | peers of every branch that switch, lost downloads, blocks adopted and cached meanwhile | `TypeOK`, `JudgesAgree`, `AmnestyIsEarned`, `CatchUpEnds` hold |
| `OrphanSync` | an honest and another peer, two goroutines, one missing parent, any timing of the investigator | `TypeOK`, `OneCatchUp`, `HonestUnstruck`, `FreshCaseKept`, `CasesClose` hold; 1.3 million states |
| `Pool` | every interleaving of bus, exchange batches, clean-ups, templates, sweeps and restarts | `TypeOK`, `QueueIsPending`, `BytesCovered`, `ReserveCovered`, `SweepClears` hold; 1.2 million states |
| `Shares` | two submissions by either path, templates replaced under them, file writes that fail, crashes between them | `CreditedOnce`, `PaidOnce`, `RecordsOnDisk` hold (`TypeOK` of this module is proved, and in no run); 1.8 million states |
| `PeerGate` | a peer through all gates while two goroutines punish, pardon, sweep and set, with saves that fail | `TypeOK`, `BannedStayOut`, `IsolatedStayOut`, `SettingsSaved`, `OnlySqueezeBlocks` hold; 2.8 million states |
| `ChainLongBatch` | is a failed reorganisation undone when the batch is longer than the finality depth plus one | **no** |
| `HealRace` | is the step-back safe | **no**: it races with `ProcessChain` |

Each "no" is a finding with the line of code and the comment it contradicts. The
state counts are distinct states; no run takes more than a few minutes.
What survives the race of `HealRace` is proved, see section 4.

**Met on the way, without a run of their own** (each was seen as a TLC trace or
follows from the lines named):

* a crash between `put_header` and `put_block_hash` leaves a header off the chain;
  a reorganisation that forks from it and fails gives the replayed chain weights
  counted from that header (`reorg.rs:756`), so `FailureRestores` and
  `WeightsAccumulate` are checked without crashes;
* `commit_block_atomic` lowers the checkpoint when a heavier, shorter chain is
  adopted (`state_manager.rs:1481`), although `set_finalized_height` says it only
  advances; `FinalizedIsFinal` is stated against the checkpoint of the moment;
* a batch given up because of this node's own deadline is answered as fraud
  (`reorg.rs:790`);
* a dry run whose two reads saw different tips yields a template that is refused on
  the very parent it names (`lib.rs:2687`): hence `calm` in `TemplateExecutes`;
* a gossiped block of another branch, kept in `pendingBlocks` by height, breaks a
  catch-up and its honest peer is punished (`sync_engine.go:2405`): hence
  `HonestUnpunished` in `CatchUpNear`, where gossip leaves nothing there;
* an honest peer that left its branch since it told its height, or before its bodies
  were asked for, is punished as well (`sync_engine.go:2440`): `CatchUpNear` has
  `PeerSwitches = FALSE`;
* headers are judged as a whole (`sync_engine.go:2214`) but bodies go to
  `process_chain` in chunks of ten (`sync_engine.go:2483`): a chunk that does not win
  alone is answered 0 and not stored (`reorg.rs:519`), and the next is an orphan, so a
  chain that outweighs ten times in all is not adopted, against `README.md:79`; hence
  chains in `CatchesUp` whose chunks win alone;
* the branch for a missing parent asks for status 2 (`sync_engine.go:2576`, "KHÔNG PHẠT
  PEER") while `process_chain` answers 3 (`reorg.rs:188`): an honest peer of an orphan is
  punished; it happens after smart answers shorter than asked (`sync_engine.go:2338`);
* orphans: a strike is given although the catch-up was refused by the flag
  (`sync_engine.go:2691`, against the comment at 2685-2690), although the node caught up
  meanwhile, or because somebody else moved the height (hence `crossed`); a parent goes
  into its cool-down even when the alignment returned "busy"; a peer may be closed for
  silence although nothing was asked of it (`sync_engine.go:2054`); a case that its
  sender opens again, or feeds, between the investigator's copy and its deletion is
  dropped fresh, also when it went to another peer and back, since only the sender is
  compared (`sync_engine.go:2081`, against the comment at 2065-2068; TLC finds the trace
  as soon as `FreshCaseKept` is stated without `renewed`);
* mempool: a wallet's spend under "0x" is not seen by the reader of the plain spelling
  (`rpc_server.go:3537`); `RemoveStaleNonceTxsBatch` never lowers `totalBytes`
  (`mempool.go:1052`); a transaction whose nonce is taken is stored and never offered
  (`mempool.go:1231`); `Purge` keeps `txItems`; the sweep takes the head of a queue for
  the ledger's nonce; the copy on disk is only ever erased;
* mining pool: requests of two heights that alternate empty the nonce cache for each
  other (`pool.go:335`, hence `mixed`); status 0 (ignored) is recorded as mined; the
  nonce is put on the template active at the end (`rpc_server.go:8398`), not on the one
  it was found for; a payout is entered before the block is accepted; shares not yet in
  a payout are lost at a restart: their file is written after a reset only, for the one
  caller of `SaveShares` is `ResetShares` (`pool.go:254`), which nobody calls; the errors
  of all three files are ignored or logged (`pool.go:106`, `365`, `415`);
* bans: a writer that queues up between the two read locks of a gate stops both, and
  with them every later reader of the settings, until a restart (`ban_manager.go:257`;
  `Squeezed`); a connection admitted before a ban and added after `ClosePeer` stays for
  the ban's whole length; a settings file torn by a crash turns strict isolation into
  the default mode; the operator's pardon keeps the penalties, so that the next
  violation bans at once; a save that failed is not tried again; a peer taken off the list keeps its connection in strict mode;
* when the header search stepped back to Genesis, extending the tip counts as a deep
  reorganisation and lifts every penalty (`sync_engine.go:2522`, `lib.rs:498`): hence
  the exception in `AmnestyIsEarned`;
* a gossiped block left in `pendingBlocks` and alone in the last chunk can extend the
  node's own chain and end the call as "deep history was cut off"
  (`sync_engine.go:2402-2410`, `2514-2545`), with every penalty lifted and nothing lost:
  hence the second exception there.

**Bounds.** The tree of `MCTree` has a plain chain, a heavier branch from its
first block, a bad block on top of that branch, and one very heavy block from
genesis: the smallest tree on which a flexible reorganisation, a deep
reorganisation over the checkpoint, a refused one, a failing one with a replay of
several old blocks, and a shorter heavier chain all happen. `FinalityDepth` is 1
for 5 (2 where a gap between tip and checkpoint is needed) and `OverrideFactor` 2
for 10; both only scale how many blocks an interesting case takes. Batches hold two
blocks where the code sends up to ten; what changes beyond `FinalityDepth + 1` is
exactly `ChainLongBatch`. In `ExecLedger` the reward matures after 2 blocks for 6,
recent hashes are checked from height 2 for 15, and four blocks let a reward mature
and be spent, a wallet be opened, its owner spend, and a transfer be sent again.
In the `CatchUp` runs depth 5, override 10, chunks of 10 and steps of 100, 500, 2000
become 2, 2, 4 and 2, 3, 4: a chunk is still longer than the flexible zone and still
lighter than an override of equal difficulty. The node sits at height 5 with its
checkpoint at 3; branches fork off at 0, 1, 2, 3, 4 and 5, light and heavy, so that
every answer of both judges, up to two steps back and batches of one and two
chunks occur. Bodies come six at a time for 100 (five in `CatchUpRough`, so that
a chunk of one occurs), smart answers hold 1, 4 or 6.

Of the Go side's modules, `OrphanSync` has one honest and one other peer, one missing
parent and two goroutines, the least with which a flag is refused, a case changes
hands and a silent peer is closed; heights reach 3, "near" is two blocks for five and
the strike limit 1 for 3. `Pool` has one wallet with two transactions for its first
nonce and one for its second; two inserters never overlap with each other, nor two
removers, but each inserter overlaps with each remover, which is where the maps may
part; capacity is two transactions. `Shares` has two requests, three templates of any
of two heights, two nonces, less than two credits when a request starts (three in all),
and at most one record whose last write failed (`MaxUnsaved`). `PeerGate` has one peer
and one gate, so that several dials of one peer do not overlap, and two writers; penalties beyond the
first that bans count as that one; a save fails there by cutting the file short (with
`Failure = {"open"}` the properties hold too, in 6.5 million states). The theorems of section 4 are about any numbers.

**Fairness.** `ChainCrash`: `WF(CallStep)`: a started call is a blocking task
that runs to its end, whatever the client does. `WF(BootStep)`: the supervisor
restarts a dead core. Nothing is assumed of peers, of the operator, or that crashes
cease; only that one does not strike during every boot (`LiveNext`). `CatchUpNear` and
`CatchUpRough` (`LiveSpec`): `WF(CatchUpStep)`, a running goroutine goes on (each of
its waits has a timeout, which `DownloadFails` models); `WF(Start)`, `syncLoop` and
gossip start a catch-up again as long as the peer is ahead. `OrphanSync`: weak
fairness of the investigator (it has a ticker), of the one catch-up under way (every
wait in it has a timeout) and of time; none of peers. `PeerGate` states
what may block as an invariant (`OnlySqueezeBlocks`) rather than as a liveness
property, since the code can really get stuck. In `CatchUpNear` no
download times out (`NetworkFails = FALSE`), though smart answers may be lost.

## 4. Proofs

`ProcessChainProofs` proves, for every block tree, every finality depth and every
set of batches no longer than `FinalityDepth + 1` (`ShortBatches`), that `TypeOK`,
`CanonicalChain`, `StateFollowsChain`, `ReadyMeansComplete` and `FinalizedIsFinal`
hold of `Spec`, crashes and operator included.

* The hypothesis is needed: `ChainLongBatch` is the counterexample without it. It
  holds of blocks received by gossip or mined (batches of one) and of catch-up over
  at most six blocks; it does not hold of the sync engine's chunks of ten when
  execution fails in the last four.
* The invariant is `IInv == TypeOK /\ LedgerInv /\ PhaseInv`. `LedgerInv` adds to
  the checked properties that every canonical block has its body, that an account
  outside the touched lists of a stretch of versions is equal in the trees at both
  ends of it (what makes a rollback by touched lists right), and that the
  checkpoint is at most the version, and below it while the top row is missing.
  `PhaseInv` says, for each `pc`, how far the ledger is from complete: which row
  the block in progress still lacks, that the checkpoint has not passed the fork
  while a rollback may still be needed (this is where `ShortBatches` enters), and
  that every backed-up block sits at the height it declares.
* One lemma per ledger write (`DropKeepsLedger`, `CommitKeepsLedger`,
  `StateFirstKeepsLedger`, …), one per action, and `NextKeepsInv` to combine them.

Six further theorems of the module rest on it:

* `AdoptionNeedsWork` (`AdoptedIsHeavier`, crashes included): `WorkInv` says that
  `rolling_weight` is the anchor's weight plus the work applied so far and that the
  whole batch would pass the verdict, so the last block of it does.
* `WeightIsWork` (`WeightsAccumulate`) and `FailureLeavesNothing` (`FailureRestores`),
  of `SteadySpec`. `SteadyInv` adds that only indexed headers are stored
  (`HeadersIndexed`: a fork is then a canonical block, which is what a crash breaks),
  that indexed blocks have executed (`RowsExecuted`, so that a replay cannot fail),
  what the local weight follows (`RollingFollows`), and `RestoreInv`: there are a list
  of states and a list of weights, those of the chain the call found, that the backup
  leads from the fork back to, and of which a replay has rebuilt the part up to the
  current version.
* `ImplementsBestChain` (`ServesBestChain`, of `SteadySpec`). The work between
  two blocks is related to stored weights by `Path`: the blocks of a path are its
  ancestors' set, its weights add up (`WeightsAccumulate`), and two paths that part at
  the fork differ in what lies above it. `ServedInv` adds that the row of genesis
  stays and that a call is deep exactly when its fork lies below the checkpoint it
  found. Every step that adopts is then an `Extend` or a `Switch`, a step back a
  `StepBack`, the end of a failed call a stutter or a `Shift`, and everything else
  stutters since a call shows the values from before it.
* `CallsKeepPromise` (`KeepsPromise`, of `SteadySpec`): what `CatchUp` assumes of a
  call is what `ProcessChain` does. Its hypothesis `LedgerSetting` is the setting of
  `Ledger`: heights count along parents and no check of part 1 refuses a block of a
  batch. `VerdictsAgree` shows the two verdicts equal on an idle node: a stored header is
  one on the tip's path (`StoredIsIndexed`, from `RowsArePath` and `PathIsNamed`), and
  stored weights are those `Ledger` computes by recursion on the tree, but for a constant
  that both sides of `Wins` share (`WeightsAgree`, `BatchRises`). `CallFollows` carries
  that verdict to the end of the call, and `CheckpointFollows` says at every `pc` what
  the checkpoint is: `LeftCheckpoint` until recovery, then the higher of that and
  `FinalityDepth` below the replayed top. The latter needs that between calls the
  checkpoint is never further below the tip than that, which it also says. At the end
  `AdoptAsPromised`, `RestoredAsPromised` and `RejectAsPromised` read `Ledger`'s step off
  the two.
* `RaceSparesFinalized`, of `HealRace`, again under `ShortBatches`: the unlocked step
  back, whatever version it was computed from and whatever call it falls into, deletes
  or replaces no row at or below the checkpoint. The ledger does break in that race, so
  the invariant says nothing of linked chains or accounts: rows sit at their own
  heights, the checkpoint is at most the version, and a call writes above the
  checkpoint until its last block is in (`CallAbove`).

`ExecutionProofs` proves what follows, all but the last with no hypothesis beyond the
assumptions on the constants. `TransfersExecuteOnce` (`NoReplay`): for every set of accounts, transactions, bodies and
pools, no transfer lies in the chain twice, rollbacks and racing templates
included. The invariant: along the trees of the chain nonces never decrease; a
transfer of block `h` has a nonce at least its sender's in tree `h - 1` and below
its sender's in tree `h`; within a block nonces of one sender ascend. Two equal
transfers would then have a nonce on both sides of a tree.
`BalancesAreNatural` (`TypeOK`) and `NoCoinIsLost` (`SupplyConserved`) follow the sum
over all accounts of what is spendable and what waits: `PayOut` moves between the two,
a transfer moves `deducted` out and `credited` in (`Audited`), and the audit at the
end leaves exactly the block's reward. The invariant also says that no reward waits
beyond the next `Maturity` blocks (`WaitsUpTo`), without which the set of waiting
rewards could swallow one equal to the new one. `UndisturbedTemplatesCommit`
(`TemplateExecutes`) is about two executions at different times: a `Traces` list holds
the balances and sums before each transaction, which the tree below and the
transactions determine, so the builder's list and the executor's are the same list, the
audit and the checks decide alike, and the roots are equal (`AgreeInv`).
`LedgerIsHistory` (`LedgerMatchesHistory`) reads the books off any list of blocks
(`PaidTo`, `SpentBy`, `SentBy`, `MinedBy`, `WaitsFor`). The invariant: every tree of the
chain matches the books at its height (`ChainMatches`), and the cache of an execution
matches the books of the chain with the transactions kept so far as one block more, not
yet rewarded (`RunMatches`). A transfer is one entry more in the books (`OneMoreTx`), the
end of a block is the miner's reward and at most one reward that ripens
(`RewardMatches`); what the block did not touch is paid out when it is next read, to the
same amount (`PayOutAgain`). Whether a wallet is new, which decides the creation fee, is
whether the books have ever met it, and that needs the one hypothesis of this theorem,
`EmissionRuns`: every block pays something. The schedule (`reward_logic.rs` 42-113) does
up to height 105,694,901 and nothing afterwards: from then on a wallet that only ever
mined blocks without fees counts as new, and the first transfer to it pays the creation fee.

`OrphanSyncProofs` proves `TypeOK`, `OneCatchUp` and `HonestUnstruck` for any peers,
parents and number of goroutines. The flag needs only the phases of the goroutines;
for `HonestUnstruck` the invariant follows an uncrossed alignment of an honest peer:
from its `heightBefore` on, either its catch-up is still to come and the height is
below the peer's tip, or the height has risen. `FreshCasesAreKept`
(`FreshCaseKept`) follows a case from the investigator's copy to its deletion: what was
resolved is present (`ResolvedPresent`), and a case that the copy calls stale, and that
still has its sender, is stale now or has been renewed by that sender (`StillStale`).

`MempoolProofs` proves all five properties of `Mempool` for any finite set of
transactions and any bounds: one lemma per operator on the maps, then one case per
goroutine. `QueuesAgree` and `BytesNeverWrap` were enough to state `PoolInv`; `PoolTyped`
needs it, since a queue's head is read; `ReserveIsCovered` needs that the reserved spend
is at most the cost of the queue (`Reserved`), a sum over a finite set that loses exactly
what `RemoveStaleNonceTxs` gives back; `SweepsClear` needs what the sweep had found.

`MiningPoolProofs` proves `TypeOK`, `PaidOnce`, `CreditedOnce` and `RecordsOnDisk`
(`RestartFindsRecords`: payouts and mined heights, and no credit outside a payout) for
any number of requests and failing writes. `PaidOnce` rests on `PayoutInv`: one request at a time is inside a stretch
under `pool.Mu` (`OneHolder`); the workers' file is only ever written just after a
reset, so it never holds credits that a restart could bring back (`FileOfZeros`); the
payouts on file are payouts of memory, no two payouts share a credit, and the credits
of memory are in no payout except between the payout and its reset (`PayoutsKept`).
`CreditedOnce` rests on `CacheInv`: the active template is the newest, and while
heights do not mix, a request being judged is of the cache's height and its nonce is
registered for it alone; a piece already spent on a template that may still be asked
for stays registered and no request in flight will release it; and while a request
waits for its check, nothing of a newer template of another height has been registered.

`PeerGateProofs` proves all five properties of `PeerGate` for any peers, addresses,
gates and writers. Its invariant is `Shape` (types, how many read locks a gate holds
and which questions it has left, how far a writer is) and `UpInv`: from the peer check
of the last gate on, the read lock is held, so no ban intervenes before it answers; a
connection it let through and that no punisher or isolating request has met since
(not `late`) belongs to a peer that is neither banned nor, in strict mode, off the
list.

`CatchUpProofs` is about every tree of blocks, every span, chunk and list of step-backs.
`CatchUpTyped` (`TypeOK`) is less than obvious: that no header or body outside the batch
is read rests on `CallInv` (the headers are consecutive from `startH`, the effective
fork point lies in them). `OneJudgement` (`JudgesAgree`) compares `evaluate_header_chain`
with the verdict of `process_chain` on every tree. `AmnestyNeedsLoss` (`AmnestyIsEarned`)
rests on `AmnestyInv`: until the first body is delivered the chain the call found only
grows (`StillThere`), the headers above the fork are not of it (`HeadersNew`), and what
is delivered are the blocks of those headers or came from `pendingBlocks`
(`BatchKnown`); so a batch adopted above a fork below the checkpoint has displaced the
finalized block. The chain of a tip and its weight are recursive functions on the tree;
what the proofs use of them are their equations, which `ByParents` gives.

`HonestIsSafe` (`HonestUnpunished`) is the longest of the module: a call that may be cut
anywhere, by a lost smart answer or by the peer growing, is never refused a body and so
never comes to the ladder of penalties in `Conclude`. Its invariant `NearInv` says that
the call asks from its checkpoint on and has not stepped back (`CallIsNear`), that the
headers lie on the peer's path (`HeadersArePeers`), that at the last height processed
node and peer have the same block, with the node's tip at most `FinalityDepth` above it
and lighter than the last header (`PointIsShared`), and that what is still to be delivered are the peer's blocks from there
up, a whole answer or all that is left (`DebtIsPeers`); `ChunkAdopted` concludes that
`process_chain` adopts the next chunk, and `StepNear` that its tip is again such a
height. The hypothesis `NearPeers` is what the code relies on without saying so: the peer
does not leave its branch, gossip and miner stay away, the peer's chain holds the node's
checkpoint block, and the bodies of one call outweigh the part of the node's chain that
is not final (a hundred bodies or chunks of ten against five blocks; a short smart answer
need not). None of it can be spared: giving up any one part in `CatchUpNear`
(`PeerSwitches = TRUE`; `LocalBlocks <- Own`; `CachedBlocks <- Stray`;
`SmartAnswers <- ShortAnswers`; `BodySpan = 1`; `ChunkSize = 1`; `PeerTips <- AllTips`)
makes TLC find an honest peer punished. `MCCatchUpNear` has TLC evaluate it for the run.

`Sums` holds the facts about sums over finite sets that the above share, and `ByParents`:
on a tree whose nodes have heights (`IsTree`), a recursion from parent to child has a
solution, so that a recursive function of `Ledger` meets its equation. The induction
theorems of the library quantify over a predicate and cannot be used here; `SetInduction`
and `NumberInduction` state induction for the *set* of the cases that hold, and are
proved from the library's theorems on well-founded orders.

**Assumptions.** The theorems use the assumptions named in the modules and no others:
positive work, an override factor of at least 2 (10 in the code), finitely many
accounts and transactions, rewards in the natural numbers, pools of signed transactions
(the mempool verifies each), and for `Ledger` and `CatchUp` blocks one above their
parents; `ProcessChain` assumes no such thing and its theorems show it of the rows.
`ShortBatches`, `LedgerSetting`, `EmissionRuns` and `NearPeers` are hypotheses of the
theorems that need them, not assumptions; TLC evaluates `LedgerSetting` and `NearPeers`
on the runs that check the properties.

**Only model-checked**: liveness (`ReturnsToIdle`, `CatchesUp`, `CatchUpEnds`,
`CasesClose`: out of the prover's reach). Every other property of a passing run is a
theorem. `KeepsPromise` compares calls that do not crash; after a crash stored weights may
be wrong (section 4, `HeadersIndexed`), and `Ledger` does not speak of such a node.

## 5. Not modelled

`PROJECT.json` gives the reason for each component. Inside the modelled files the
main omissions are: header-only blocks below the purge height, purge, snapshot
export and import, the difficulty and timestamp checks, receipts and transaction indexes,
the recent-hash cache, the emission schedule (a constant operator), u64 saturation. On
the Go side: discovery, NAT, streams and their rate limits, the sequential sync loop's
own body, fast bootstrap (switched off by `EnableSnapshotJumping`), difficulty per
worker. `mempool.rs` is not compiled into the crate.

Most lines of the Go code are none of this: about 24,000 are generated protocol code,
and most of `rpc_server.go` reads for the user interface (explorer, charts,
translations, configuration) and changes no state the node depends on. The handlers of
it that do change such state are the ones modelled. The share of all lines covered
therefore stays low, however much of the core is.

## 6. Plan

1. `FastSync` and snapshot import: what a crash leaves.
2. Purge and header-only blocks on `StateManager`; the recent-hash cache as a second
   reader of the index.
3. Two overlapping `ProcessChain` calls after a client timeout, in `HealRace`'s style.
4. Orphaned transactions of a reorganisation, from `ProcessChain` to `Mempool`.
5. `Reward` and `Difficulty` as pure operators against the sum and the bounds they
   must meet.
6. Proofs: `ServesBestChain` and `KeepsPromise` of runs with crashes, once the weights a
   restart leaves are described.
