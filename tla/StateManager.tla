---------------------------- MODULE StateManager ----------------------------
(***************************************************************************)
(* The RocksDB ledger of the Rust core (state_manager.rs) and the writes   *)
(* the consensus code makes to it.  Each operator below that primes a      *)
(* variable is ONE RocksDB write: a crash falls between two of them, never *)
(* inside.  The RAM mirror current_version always equals jmt_v between two *)
(* writes and is the same variable here.                                   *)
(***************************************************************************)
EXTENDS BlockTree

CONSTANT FinalityDepth     \* blocks above a checkpoint before it is final: 5

ASSUME FinalityDepthAssumption == FinalityDepth \in Nat

VARIABLES
    index,      \* CF_BLOCKS: the canonical block of each height
    headers,    \* CF_HEADERS: blocks whose header is stored
    weight,     \* absolute_weight inside the stored header
    bodies,     \* CF_BLOCK_BODIES: blocks whose body is stored
    version,    \* CF_META jmt_v: height of the executed state
    finalized,  \* CF_META finalized_h
    jmt,        \* CF_JMT: the account tree of every version
    acc,        \* CF_ACC: the flat table of latest account states
    touched     \* CF_TOUCHED_ACCS: accounts rewritten at each height

dbVars == <<index, headers, weight, bodies, version, finalized, jmt, acc, touched>>

Fresh == [a \in Account |-> InitValue]

DbInit ==
    /\ index = [h \in Heights |-> IF h = 0 THEN Genesis ELSE NoBlock]
    /\ headers = {Genesis}
    /\ weight = [b \in Block |-> IF b = Genesis THEN Diff[Genesis] ELSE 0]
    /\ bodies = {Genesis}
    /\ version = 0
    /\ finalized = 0
    /\ jmt = [h \in Heights |-> Fresh]
    /\ acc = Fresh
    /\ touched = [h \in Heights |-> {}]

DbTypeOK ==
    /\ index \in [Heights -> Block \cup {NoBlock}]
    /\ headers \subseteq Block
    /\ weight \in [Block -> Nat]
    /\ bodies \subseteq Block
    /\ version \in Heights
    /\ finalized \in Heights
    /\ jmt \in [Heights -> State]
    /\ acc \in State
    /\ touched \in [Heights -> SUBSET Account]

---------------------------------------------------------------------------
\* Reads.

\* Weight of the stored tip header, 0 when the header is gone.
TipWeight == IF index[version] \in headers THEN weight[index[version]] ELSE 0

\* is_block_complete: a block above the checkpoint needs its body as well.
IsBlockComplete(h) ==
    /\ index[h] \in headers
    /\ h > finalized => index[h] \in bodies

\* The parent check at the head of execute_block_internal, and the body's own
\* validity.
Executable(b) ==
    /\ Height[b] > 0
    /\ index[Height[b] - 1] = Parent[b]
    /\ b \in ValidBody

\* The tree block b would leave at its height, were it executed now.
TreeAfter(b) == ExecuteOn(b, jmt[Height[b] - 1], acc)

---------------------------------------------------------------------------
\* Writes.

\* The state batch of execute_block_internal: the flat rows of the touched
\* accounts, the new tree, jmt_v and the list of touched accounts.
WriteStateBatch(b) ==
    /\ jmt' = [jmt EXCEPT ![Height[b]] = TreeAfter(b)]
    /\ acc' = [a \in Account |-> IF a \in Touches[b] THEN Effect(b, a, acc[a]) ELSE acc[a]]
    /\ touched' = [touched EXCEPT ![Height[b]] = Touches[b]]
    /\ version' = Height[b]

\* put_header / put_block_body / put_block_hash.  The index row is never
\* overwritten by another hash.
PutHeader(b, w) ==
    /\ headers' = headers \cup {b}
    /\ weight' = [weight EXCEPT ![b] = w]

PutBlockBody(b) == bodies' = bodies \cup {b}

PutBlockHash(b) ==
    index' = [index EXCEPT ![Height[b]] = IF @ = NoBlock THEN b ELSE @]

\* set_finalized_height: forward only, and only under FinalityDepth
\* confirmations of the executed state.
SetFinalizedHeight(h) ==
    finalized' = IF h > finalized /\ h + FinalityDepth <= version THEN h ELSE finalized

\* force_set_finalized_height: any height the ledger has reached.
ForceSetFinalizedHeight(h) ==
    finalized' = IF h <= version THEN h ELSE finalized

\* commit_block_atomic: state, header, body, index and checkpoint in one batch.
CommitBlockAtomic(b, w) ==
    /\ WriteStateBatch(b)
    /\ PutHeader(b, w)
    /\ PutBlockBody(b)
    /\ index' = [index EXCEPT ![Height[b]] = b]
    /\ finalized' = SaturatingSub(Height[b], FinalityDepth)

RestoredAccounts_DropsUntouched(current, target) ==
    LET rewritten == UNION {touched[h] : h \in (target + 1) .. current}
    IN  [a \in rewritten |-> jmt[target][a]]

RestoredAccounts_TopOnly(current, target) ==
    [a \in Account |-> IF a \in touched[current] THEN jmt[target][a] ELSE acc[a]]

\* The flat rows after a rollback: every account touched above the target gets
\* the value the target's tree holds for it.
RestoredAccounts(current, target) ==
    [a \in Account |-> IF \E h \in (target + 1) .. current : a \in touched[h]
                       THEN jmt[target][a] ELSE acc[a]]

Orphaned_KeepsTop(current, target) == (target + 1) .. (current - 1)

\* The heights a rollback removes.
Orphaned(current, target) == (target + 1) .. current

\* The batch rollback_state and force_delete_blocks share.  Headers go by the
\* hash the index holds; bodies are keyed by hash while the code deletes by
\* height, so none is removed.  Trees above the target stay on disk in the
\* code, but nothing reads a tree above jmt_v before it is written again: they
\* are blanked here.
DropBlocks(current, target) ==
    LET gone == Orphaned(current, target)
        dropped == {index[h] : h \in gone}
    IN  /\ index' = [h \in Heights |-> IF h \in gone THEN NoBlock ELSE index[h]]
        /\ headers' = headers \ dropped
        /\ weight' = [b \in Block |-> IF b \in dropped THEN 0 ELSE weight[b]]
        /\ jmt' = [h \in Heights |-> IF h \in gone THEN Fresh ELSE jmt[h]]
        /\ acc' = RestoredAccounts(current, target)
        /\ touched' = [h \in Heights |-> IF h \in gone THEN {} ELSE touched[h]]
        /\ version' = target
        /\ UNCHANGED bodies

RollbackAllowed_NoFirewall(target) == TRUE

\* rollback_state, the immutability firewall: no target below the checkpoint
\* (ERR_FINALITY_VIOLATION leaves everything as it is), and nothing to do when
\* the target is not below the caller's idea of the current height.
RollbackAllowed(target) == target >= finalized

RollbackState(current, target) ==
    IF target < current /\ RollbackAllowed(target)
    THEN DropBlocks(current, target) /\ UNCHANGED finalized
    ELSE UNCHANGED dbVars

\* force_delete_blocks, the operator's tool: no firewall, checkpoint lowered.
ForceDeleteBlocks(current, target) ==
    /\ target < current
    /\ DropBlocks(current, target)
    /\ finalized' = target
=============================================================================
