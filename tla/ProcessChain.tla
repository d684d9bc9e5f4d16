---------------------------- MODULE ProcessChain ----------------------------
(***************************************************************************)
(* Fork choice and reorganisation: process_chain (consensus/reorg.rs),     *)
(* process_new_block (lib.rs), the start-up healing of try_new and the     *)
(* operator's rollback tools, over the ledger of StateManager.             *)
(*                                                                         *)
(* The Go bridge serialises ProcessChain calls with consensusMu, so one    *)
(* call is in progress at a time; the node may crash between any two       *)
(* database writes of it.                                                  *)
(***************************************************************************)
EXTENDS StateManager, FiniteSetsExt

CONSTANTS
    Batch,          \* block lists a caller may pass, already sorted by height
    OverrideFactor  \* work ratio that unlocks a finalized segment: 10

ASSUME BatchAssumption ==
    /\ Batch \subseteq Seq(Block) \ {<<>>}
    /\ \A B \in Batch : Height[B[1]] > 0    \* genesis is never re-sent
    /\ OverrideFactor \in Nat \ {0, 1}   \* an override is heavier than what it replaces

VARIABLES
    pc,         \* where the running call is
    status,     \* SyncChainResponse.status of the last call
    batch,      \* the blocks being processed
    pos,        \* next block of the batch, or next height to replay
    fork,       \* fork_point_height
    forkWeight, \* fork_point_weight
    tip,        \* current_tip_h
    rolling,    \* rolling_weight / old_rolling_weight
    failedTip,  \* applied_heights.last(), fork while it is empty
    backup,     \* old_blocks_raw, by height
    cur,        \* block whose state is written and whose rows are not yet
    before      \* history variable: what the node held when the call began

callVars == <<batch, pos, fork, forkWeight, tip, rolling, failedTip, backup, cur, before>>
vars == <<dbVars, pc, status, callVars>>

Phase == {"idle", "rollback", "apply", "recover", "replay",
          "header", "body", "index", "finalize", "down", "healing"}
Reply == {"none", "ignored", "adopted", "fraud", "orphan", "internal", "stored"}
Snapshot == [tip : Block, weight : Nat, acc : State, fin : Heights, deep : BOOLEAN]

NoBackup == [h \in Heights |-> NoBlock]
Unset == [tip |-> Genesis, weight |-> 0, acc |-> Fresh, fin |-> 0, deep |-> FALSE]

\* Everything the call kept in RAM is forgotten when it returns.
ClearCall ==
    /\ batch' = <<>> /\ pos' = 0 /\ fork' = 0 /\ forkWeight' = 0 /\ tip' = 0
    /\ rolling' = 0 /\ failedTip' = 0 /\ backup' = NoBackup
    /\ cur' = NoBlock /\ before' = Unset

CallInit ==
    /\ pc = "idle" /\ status = "none" /\ batch = <<>> /\ pos = 0 /\ fork = 0
    /\ forkWeight = 0 /\ tip = 0 /\ rolling = 0 /\ failedTip = 0
    /\ backup = NoBackup /\ cur = NoBlock /\ before = Unset

Init == DbInit /\ CallInit

Answer(s) == pc' = "idle" /\ status' = s /\ ClearCall

---------------------------------------------------------------------------
\* process_chain, part 1: checks that only read.

Signed(B) == \A i \in 1 .. Len(B) : B[i] \in ValidSigs

\* Fork point: the stored header of the first block's parent.  Any stored
\* header will do, canonical or not.
ForkBlock(B) == Parent[B[1]]
ForkHeight(B) == Height[ForkBlock(B)]

\* The DAA needs the canonical headers up to the fork height.
HistoryPresent(h) == \A k \in 0 .. h : index[k] \in headers

HeadersVerify(B) ==
    \A i \in 1 .. Len(B) : /\ i > 1 => Parent[B[i]] = B[i - 1]
                           /\ B[i] \in ValidHeader

\* Work of the first n blocks of B.
Work(B, n) == MapThenSumSet(LAMBDA i : Diff[B[i]], 1 .. n)

NewWeight(B) == weight[ForkBlock(B)] + Work(B, Len(B))

\* Weight of the anchor the new blocks are counted from.
AnchorWeight_DoubleCount(B) == NewWeight(B)
AnchorWeight_Forgotten(B) == 0
AnchorWeight(B) == weight[ForkBlock(B)]

DeepReorg_AtCheckpoint(B) == ForkHeight(B) <= finalized
DeepReorg(B) == ForkHeight(B) < finalized

\* The x10 rule of the deep branch, on the disputed segments.
Overrides(B) ==
    LET base == weight[ForkBlock(B)]
    IN  SaturatingSub(NewWeight(B), base) >= OverrideFactor * SaturatingSub(TipWeight, base)

\* Nakamoto's rule of the flexible zone.
Heavier_OrEqual(B) == NewWeight(B) >= TipWeight
Heavier(B) == NewWeight(B) > TipWeight

Verdict(B) ==
    IF ~Signed(B) THEN "fraud"
    ELSE IF ForkBlock(B) \notin headers THEN "orphan"
    ELSE IF ~HistoryPresent(ForkHeight(B)) THEN "internal"
    ELSE IF ~HeadersVerify(B) THEN "fraud"
    ELSE IF DeepReorg(B) THEN (IF Overrides(B) THEN "reorg" ELSE "ignored")
    ELSE IF Heavier(B) THEN "reorg" ELSE "ignored"

\* The call returns before it writes anything.
Reject(B) ==
    /\ pc = "idle"
    /\ Verdict(B) # "reorg"
    /\ Answer(Verdict(B))
    /\ UNCHANGED dbVars

\* The call goes on; a deep one first lowers the checkpoint to the fork.
Accept(B) ==
    /\ pc = "idle"
    /\ Verdict(B) = "reorg"
    /\ pc' = "rollback"
    /\ status' = "none"
    /\ batch' = B
    /\ pos' = 1
    /\ fork' = ForkHeight(B)
    /\ forkWeight' = AnchorWeight(B)
    /\ tip' = version
    /\ rolling' = AnchorWeight(B)
    /\ failedTip' = ForkHeight(B)
    /\ before' = [tip |-> index[version], weight |-> TipWeight, acc |-> acc,
                  fin |-> finalized, deep |-> DeepReorg(B)]
    /\ IF DeepReorg(B) THEN ForceSetFinalizedHeight(ForkHeight(B)) ELSE UNCHANGED finalized
    /\ UNCHANGED <<index, headers, weight, bodies, version, jmt, acc, touched,
                   backup, cur>>

---------------------------------------------------------------------------
\* process_chain, part 2: back up and roll back the old blocks, apply the new.

RollBack ==
    /\ pc = "rollback"
    /\ IF tip > fork /\ ~RollbackAllowed(fork)
       THEN Answer("internal") /\ UNCHANGED dbVars
       ELSE /\ pc' = "apply"
            /\ backup' = [h \in Heights |->
                            IF h \in (fork + 1) .. tip /\ index[h] \in headers
                            THEN index[h] ELSE NoBlock]
            /\ RollbackState(tip, fork)
            /\ UNCHANGED <<status, batch, pos, fork, forkWeight, tip, rolling, failedTip, cur, before>>

\* A block is committed once it executes and leaves the state it declares.
Applies(b) == Executable(b) /\ TreeAfter(b) = StateRoot[b]

Apply ==
    /\ pc = "apply"
    /\ pos <= Len(batch)
    /\ LET b == batch[pos]
       IN  /\ Applies(b)
           /\ rolling' = rolling + Diff[b]
           /\ CommitBlockAtomic(b, rolling + Diff[b])
           /\ failedTip' = Height[b]
    /\ pos' = pos + 1
    /\ UNCHANGED <<pc, status, batch, fork, forkWeight, tip, backup, cur, before>>

\* The loop is left early: the block is bad, or the gRPC deadline has passed
\* (any block may be reached after it).
ApplyFails ==
    /\ pc = "apply"
    /\ pos <= Len(batch)
    /\ ~Applies(batch[pos])
    /\ pc' = "recover"
    /\ UNCHANGED <<dbVars, status, callVars>>

Deadline ==
    /\ pc = "apply"
    /\ pos <= Len(batch)
    /\ pc' = "recover"
    /\ UNCHANGED <<dbVars, status, callVars>>

\* commit_block_hash for every block of the batch, then success.
Adopt ==
    /\ pc = "apply"
    /\ pos > Len(batch)
    /\ index' = [h \in Heights |->
                   IF index[h] = NoBlock /\ \E i \in 1 .. Len(batch) : Height[batch[i]] = h
                   THEN batch[CHOOSE i \in 1 .. Len(batch) : Height[batch[i]] = h]
                   ELSE index[h]]
    /\ SetFinalizedHeight(SaturatingSub(Height[batch[Len(batch)]], FinalityDepth))
    /\ Answer("adopted")
    /\ UNCHANGED <<headers, weight, bodies, version, jmt, acc, touched>>

---------------------------------------------------------------------------
\* process_chain, part 3: undo the new blocks and replay the old ones.

\* The result of this rollback is thrown away by the code.
Recover ==
    /\ pc = "recover"
    /\ RollbackState(failedTip, fork)
    /\ pc' = "replay"
    /\ pos' = fork + 1
    /\ rolling' = forkWeight
    /\ UNCHANGED <<status, batch, fork, forkWeight, tip, failedTip, backup, cur, before>>

ToReplay_SkipsFirst == {h \in Heights : h > pos /\ backup[h] # NoBlock}
ToReplay == {h \in Heights : h >= pos /\ backup[h] # NoBlock}
NextReplay_Strict(h) == h \in ToReplay /\ \A k \in ToReplay : h < k
NextReplay(h) == h \in ToReplay /\ \A k \in ToReplay : h <= k

Replay(h) ==
    /\ pc = "replay"
    /\ NextReplay(h)
    /\ LET b == backup[h]
       IN  IF Executable(b)
           THEN /\ WriteStateBatch(b)
                /\ rolling' = rolling + Diff[b]
                /\ cur' = b
                /\ pos' = h + 1
                /\ pc' = "header"
                /\ UNCHANGED <<index, headers, weight, bodies, finalized, status,
                               batch, fork, forkWeight, tip, failedTip, backup, before>>
           \* panic!: the blocking task dies, the server answers an internal error
           ELSE Answer("internal") /\ UNCHANGED dbVars

\* The failure is the peer's unless the message names a database error, which
\* none of the messages of this model does.
Restored ==
    /\ pc = "replay"
    /\ ToReplay = {}
    /\ Answer("fraud")
    /\ UNCHANGED dbVars

---------------------------------------------------------------------------
\* process_new_block: a block on top of the tip, its rows written one by one.
\* Its early returns change nothing.

NewBlock(b) ==
    /\ pc = "idle"
    /\ Height[b] = version + 1
    /\ index[version] = Parent[b]
    /\ HistoryPresent(version)
    /\ b \in ValidHeader
    /\ Executable(b)
    /\ WriteStateBatch(b)
    /\ rolling' = weight[index[version]] + Diff[b]
    /\ cur' = b
    /\ pc' = "header"
    /\ UNCHANGED <<index, headers, weight, bodies, finalized, status,
                   batch, pos, fork, forkWeight, tip, failedTip, backup, before>>

\* save_block_raw, then commit_block_hash: four separate writes, for a block
\* of process_new_block and for a replayed one alike.
SaveHeader ==
    /\ pc = "header"
    /\ PutHeader(cur, rolling)
    /\ pc' = "body"
    /\ UNCHANGED <<index, bodies, version, finalized, jmt, acc, touched, status, callVars>>

SaveBody ==
    /\ pc = "body"
    /\ PutBlockBody(cur)
    /\ pc' = "index"
    /\ UNCHANGED <<index, headers, weight, version, finalized, jmt, acc, touched, status, callVars>>

SaveIndex ==
    /\ pc = "index"
    /\ PutBlockHash(cur)
    /\ pc' = "finalize"
    /\ UNCHANGED <<headers, weight, bodies, version, finalized, jmt, acc, touched, status, callVars>>

Finalize ==
    /\ pc = "finalize"
    /\ SetFinalizedHeight(SaturatingSub(Height[cur], FinalityDepth))
    /\ IF batch = <<>>
       THEN Answer("stored")
       ELSE /\ pc' = "replay"
            /\ cur' = NoBlock
            /\ UNCHANGED <<status, batch, pos, fork, forkWeight, tip, rolling, failedTip, backup, before>>
    /\ UNCHANGED <<index, headers, weight, bodies, version, jmt, acc, touched>>

---------------------------------------------------------------------------
\* Crash, restart and the operator.

Crash ==
    /\ pc # "down"
    /\ pc' = "down"
    /\ status' = "none"
    /\ ClearCall
    /\ UNCHANGED dbVars

\* try_new, with or without the operator's FORCE_HEAL file.
Restart ==
    /\ pc = "down"
    /\ pc' = "healing"
    /\ UNCHANGED <<dbVars, status, callVars>>

RestartForceHeal ==
    /\ pc = "down"
    /\ version > 0
    /\ RollbackState(version, version - 1)
    /\ pc' = "healing"
    /\ UNCHANGED <<status, callVars>>

NeedsHealing_OffByOne == version > finalized + 1 /\ ~IsBlockComplete(version)
NeedsHealing == version > finalized /\ ~IsBlockComplete(version)

Heal ==
    /\ pc = "healing"
    /\ NeedsHealing
    /\ RollbackState(version, version - 1)
    /\ UNCHANGED <<pc, status, callVars>>

Healed ==
    /\ pc = "healing"
    /\ ~NeedsHealing
    /\ pc' = "idle"
    /\ IF finalized > version THEN ForceSetFinalizedHeight(version) ELSE UNCHANGED finalized
    /\ UNCHANGED <<index, headers, weight, bodies, version, jmt, acc, touched, status, callVars>>

\* SYNC-DEEP-HEAL and the miner's self audit: one step back, when no call runs.
StepBack ==
    /\ pc = "idle"
    /\ version > finalized
    /\ RollbackState(version, version - 1)
    /\ UNCHANGED <<pc, status, callVars>>

\* The operator's force_delete_blocks.
ForceDelete(target) ==
    /\ pc = "idle"
    /\ ForceDeleteBlocks(version, target)
    /\ UNCHANGED <<pc, status, callVars>>

---------------------------------------------------------------------------
CallStep ==
    \/ RollBack \/ Apply \/ ApplyFails \/ Deadline \/ Adopt
    \/ Recover \/ Restored
    \/ \E h \in Heights : Replay(h)
    \/ SaveHeader \/ SaveBody \/ SaveIndex \/ Finalize

BootStep == Restart \/ RestartForceHeal \/ Heal \/ Healed

\* What peers, miners and the sync loop make a node do that never crashes.
SteadyNext ==
    \/ \E B \in Batch : Reject(B) \/ Accept(B)
    \/ \E b \in Block : NewBlock(b)
    \/ CallStep
    \/ StepBack

OperatorStep == \E target \in Heights : ForceDelete(target)

Next == SteadyNext \/ OperatorStep \/ Crash \/ BootStep

SteadySpec == Init /\ [][SteadyNext]_vars
Spec == Init /\ [][Next]_vars

\* A started call keeps running, a stopped node is restarted by its supervisor.
LiveSpec == Spec /\ WF_vars(CallStep) /\ WF_vars(BootStep)

---------------------------------------------------------------------------
\* Properties.

TypeOK ==
    /\ DbTypeOK
    /\ pc \in Phase
    /\ status \in Reply
    /\ batch \in Batch \cup {<<>>}
    /\ pos \in Nat
    /\ fork \in Heights
    /\ forkWeight \in Nat
    /\ tip \in Heights
    /\ rolling \in Nat
    /\ failedTip \in Heights
    /\ backup \in [Heights -> Block \cup {NoBlock}]
    /\ cur \in Block \cup {NoBlock}
    /\ before \in Snapshot

\* The rows of the block at the top may still be missing: its state is written
\* first, its index row last, and a crash may fall between.
TopRowMissing == index[version] = NoBlock

CanonicalTop == IF TopRowMissing THEN version - 1 ELSE version

\* The index is a chain of linked blocks, each at the height it declares, with
\* its header stored; above the executed state there is no row (the "ghost
\* blocks" the code's firewalls are about).
CanonicalChain ==
    /\ \A h \in 0 .. CanonicalTop : index[h] \in headers /\ Height[index[h]] = h
    /\ \A h \in 1 .. CanonicalTop : Parent[index[h]] = index[h - 1]
    /\ \A h \in Heights : h > version => index[h] = NoBlock

\* Every state version is the canonical block executed on the version below,
\* and the flat account table is the tree of the current version.
StateFollowsChain ==
    /\ \A h \in 1 .. CanonicalTop : jmt[h] = ExecuteOn(index[h], jmt[h - 1], jmt[h - 1])
    /\ acc = jmt[version]

\* The stored weight of a canonical block is its parent's plus its own work.
WeightsAccumulate ==
    \A h \in 1 .. CanonicalTop : weight[index[h]] = weight[index[h - 1]] + Diff[index[h]]

\* Whenever the node serves requests its tip is complete, and the checkpoint is
\* not above it.
ReadyMeansComplete == pc = "idle" => IsBlockComplete(version) /\ finalized <= version

\* Finality: the block of a finalized height changes only by the operator's hand.
\* (A deep reorganisation lowers the checkpoint first, in a step of its own.)
FinalizedIsFinal ==
    [][\A h \in 0 .. finalized : index'[h] = index[h] \/ OperatorStep]_vars

\* A call that answers "Reorg failed, node restored to original tip" leaves the
\* tip, its weight and every account as they were when it began.
FailureRestores ==
    [][pc = "replay" /\ pc' = "idle" =>
          index'[version'] = before.tip /\ TipWeight' = before.weight /\ acc' = before.acc]_vars

\* A chain is adopted only if it is heavier than the one it replaces, and, when
\* it replaces finalized blocks, OverrideFactor times as heavy from the fork on.
AdoptedIsHeavier ==
    [][pc = "apply" /\ pc' = "idle" =>
          /\ TipWeight' > before.weight
          /\ before.deep =>
                TipWeight' - forkWeight >= OverrideFactor * (before.weight - forkWeight)]_vars

\* What the node answers between calls: the tip and the checkpoint; while a call
\* runs, those it found; while the rows of a mined block are written, its parent.
ServedTip ==
    IF batch # <<>> THEN before.tip ELSE IF cur # NoBlock THEN Parent[cur] ELSE index[version]
ServedCheckpoint == IF batch # <<>> THEN before.fin ELSE finalized

Served == INSTANCE BestChain WITH
    best <- ServedTip, checkpoint <- ServedCheckpoint, Factor <- OverrideFactor

\* To whoever asks between calls, fork choice by stored weights, rollback, block
\* by block execution, recovery and replay is one switch to the branch with more
\* work, and a failed call is nothing but, at most, a checkpoint moved.
ServesBestChain == Served!Spec

\* Ledger is the same call as the modules of the Go side see it: one step.  It
\* speaks of trees whose heights count and of blocks no check of part 1 refuses.
Promise == INSTANCE Ledger WITH tip <- ServedTip, finalized <- ServedCheckpoint

LedgerSetting ==
    /\ \A b \in Block \ {Genesis} : Height[b] = Height[Parent[b]] + 1
    /\ \A B \in Batch : \A i \in 1 .. Len(B) :
          B[i] \in (ValidHeader \cap ValidSigs) \ {Genesis}

\* The call with batch B does what Ledger says, if the blocks in bare do not apply.
DoesAsPromised(B, bare) ==
    /\ Promise!ProcessChain(B, bare)
    /\ status' = IF Promise!Verdict(B, bare) = "mismatch" THEN "fraud" ELSE Promise!Verdict(B, bare)

\* However many writes a call takes, and wherever it fails, what it answers and the
\* tip and checkpoint it leaves are what Ledger says of the chain it found.
KeepsPromise ==
    [][/\ \A B \in Batch : Reject(B) => DoesAsPromised(B, {})
       /\ batch # <<>> /\ batch' = <<>> =>
             \E bare \in SUBSET {batch[i] : i \in 1 .. Len(batch)} : DoesAsPromised(batch, bare)]_vars

\* Whatever call, crash or replay is under way, the node serves again, unless
\* one crash after the other interrupts its boot.
BootInterrupted == pc = "healing" /\ Crash
ReturnsToIdle == (pc # "idle" ~> pc = "idle") \/ []<><<BootInterrupted>>_vars
=============================================================================
