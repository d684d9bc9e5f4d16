------------------------- MODULE ProcessChainProofs -------------------------
(***************************************************************************)
(* Proofs about ProcessChain, for every block tree, account set, finality  *)
(* depth and bound on heights, provided no batch is longer than            *)
(* FinalityDepth + 1 blocks (ShortBatches): the run ChainLongBatch shows   *)
(* what becomes of a longer one.  In order: the database rows and the      *)
(* checkpoint, the step back of HealRace, the weights and the old blocks   *)
(* of a reorganisation, and the refinements of BestChain and of Ledger.    *)
(***************************************************************************)
EXTENDS HealRace, Sums

ShortBatches == \A B \in Batch : Len(B) <= FinalityDepth + 1

---------------------------------------------------------------------------
\* The inductive invariant.

\* Every canonical block has its body.
BodiesPresent == \A h \in 0 .. CanonicalTop : index[h] \in bodies

\* An account outside the touched lists of a stretch of versions keeps its
\* state over it: what the flat rows a rollback does not rewrite rely on.
UntouchedKept ==
    \A i, j \in 0 .. version : \A a \in Account :
        (i <= j /\ \A h \in (i + 1) .. j : a \notin touched[h]) => jmt[j][a] = jmt[i][a]

\* The checkpoint stays below a block whose rows are missing, or start-up would
\* take it for a header-only block of a snapshot and keep it.
CheckpointBelow ==
    /\ finalized <= version
    /\ TopRowMissing => finalized < version

LedgerInv ==
    CanonicalChain /\ StateFollowsChain /\ BodiesPresent /\ UntouchedKept /\ CheckpointBelow

\* A block whose state is written and whose rows are being written.
SavingBlock ==
    /\ cur \in Block
    /\ version > 0
    /\ Height[cur] = version
    /\ Parent[cur] = index[version - 1]
    /\ jmt[version] = ExecuteOn(cur, jmt[version - 1], jmt[version - 1])
    /\ batch # <<>> => pos = version + 1
    /\ pc \in {"body", "index", "finalize"} => cur \in headers
    /\ pc \in {"index", "finalize"} => cur \in bodies
    /\ IF pc = "finalize" THEN index[version] = cur ELSE TopRowMissing

BackupAtHeight == \A h \in Heights : backup[h] # NoBlock => Height[backup[h]] = h

PhaseInv ==
    /\ TopRowMissing => pc \in {"header", "body", "index", "down", "healing"}
    /\ pc \in {"idle", "down", "healing"} => batch = <<>>
    /\ pc \in {"rollback", "apply", "recover", "replay"} => batch # <<>>
    /\ pc \in {"rollback", "apply"} => HeadersVerify(batch) /\ fork = ForkHeight(batch)
    /\ pc = "rollback" => /\ tip = version /\ failedTip = fork /\ pos = 1
                          /\ fork <= version /\ finalized <= fork
    /\ pc = "apply" => /\ pos \in 1 .. Len(batch) + 1
                       /\ failedTip = version
                       /\ version = fork + pos - 1
                       /\ pos <= Len(batch) => finalized <= fork
                       /\ \A i \in 1 .. pos - 1 : Height[batch[i]] = fork + i
                       /\ pos > 1 => index[version] = batch[pos - 1]
    /\ pc = "recover" => failedTip = version /\ fork <= version /\ finalized <= fork
    /\ pc = "replay" => pos = version + 1
    /\ pc \in {"header", "body", "index", "finalize"} => SavingBlock
    /\ BackupAtHeight

IInv == TypeOK /\ LedgerInv /\ PhaseInv

---------------------------------------------------------------------------
\* Facts about single operators.

\* Executing a block on account tables yields an account table.
LEMMA ExecuteOnType ==
    ASSUME NEW b \in Block, NEW tree \in State, NEW flat \in State
    PROVE  ExecuteOn(b, tree, flat) \in State
BY EffectAssumption DEF ExecuteOn, State

\* saturating_sub is a natural number no larger than its first argument.
LEMMA SaturatingSubBounds ==
    ASSUME NEW x \in Nat, NEW y \in Nat
    PROVE  SaturatingSub(x, y) \in Nat /\ SaturatingSub(x, y) <= x
BY DEF SaturatingSub

\* In a sound ledger the row at height 0 is there, and rows are canonical.
LEMMA RowsAreBlocks ==
    ASSUME DbTypeOK, CanonicalChain, CheckpointBelow
    PROVE  /\ CanonicalTop \in Nat
           /\ CanonicalTop <= version
           /\ \A h \in 0 .. CanonicalTop : index[h] \in Block
           /\ \A h \in Heights : index[h] # NoBlock => h \in 0 .. CanonicalTop
<1>1. version \in Nat /\ finalized \in Nat /\ version \in Heights /\ MaxHeight \in Nat
  BY TreeAssumption DEF DbTypeOK, Heights
<1>2. CanonicalTop \in Nat /\ CanonicalTop <= version
  BY <1>1 DEF CheckpointBelow, CanonicalTop
<1>3. \A h \in 0 .. CanonicalTop : index[h] \in Block
  BY DEF DbTypeOK, CanonicalChain
<1>4. ASSUME NEW h \in Heights, index[h] # NoBlock
      PROVE  h \in 0 .. CanonicalTop
  <2>1. h \in Nat /\ h <= version
    BY <1>1, <1>4 DEF Heights, CanonicalChain
  <2>2. CASE TopRowMissing
    BY <1>1, <1>4, <2>1, <2>2 DEF TopRowMissing, CanonicalTop
  <2>3. CASE ~TopRowMissing
    BY <1>1, <2>1, <2>3 DEF CanonicalTop
  <2> QED
    BY <2>2, <2>3
<1> QED
  BY <1>2, <1>3, <1>4

\* A block that executes sits one above its parent, which is canonical.
LEMMA ExecutableHeight ==
    ASSUME DbTypeOK, CanonicalChain, CheckpointBelow,
           NEW b \in Block, Executable(b)
    PROVE  /\ Height[b] - 1 \in 0 .. CanonicalTop
           /\ Height[Parent[b]] = Height[b] - 1
<1>1. Height[b] - 1 \in Heights /\ index[Height[b] - 1] = Parent[b] /\ Parent[b] \in Block
  BY TreeAssumption DEF Executable, Heights
<1>2. index[Height[b] - 1] # NoBlock
  BY <1>1, TreeAssumption
<1>3. Height[b] - 1 \in 0 .. CanonicalTop
  BY <1>1, <1>2, RowsAreBlocks
<1> QED
  BY <1>1, <1>3 DEF CanonicalChain

\* Rolling the top of a sound ledger back to a target at or above the new
\* checkpoint leaves a sound ledger whose top row is there.
LEMMA DropKeepsLedger ==
    ASSUME DbTypeOK, LedgerInv,
           NEW target \in Heights, target < version,
           DropBlocks(version, target),
           finalized' \in Heights, finalized' <= target
    PROVE  DbTypeOK' /\ LedgerInv' /\ ~TopRowMissing' /\ version' = target
<1> DEFINE gone == (target + 1) .. version
<1> DEFINE dropped == {index[h] : h \in gone}
<1>0. /\ index' = [h \in Heights |-> IF h \in gone THEN NoBlock ELSE index[h]]
      /\ headers' = headers \ dropped
      /\ weight' = [b \in Block |-> IF b \in dropped THEN 0 ELSE weight[b]]
      /\ jmt' = [h \in Heights |-> IF h \in gone THEN Fresh ELSE jmt[h]]
      /\ acc' = RestoredAccounts(version, target)
      /\ touched' = [h \in Heights |-> IF h \in gone THEN {} ELSE touched[h]]
      /\ version' = target
      /\ bodies' = bodies
  BY DEF DropBlocks, Orphaned
<1>1. /\ CanonicalTop \in Nat /\ CanonicalTop <= version
      /\ \A h \in 0 .. CanonicalTop : index[h] \in Block
      /\ \A h \in Heights : index[h] # NoBlock => h \in 0 .. CanonicalTop
  BY RowsAreBlocks DEF LedgerInv
<1>2. version \in Nat /\ target \in Nat /\ Heights \subseteq Nat /\ version \in Heights
  BY TreeAssumption DEF DbTypeOK, Heights
<1>3. target <= CanonicalTop
  BY <1>2 DEF CanonicalTop
<1>4. /\ \A h \in 0 .. target : h \in Heights /\ h \notin gone
      /\ \A h \in 0 .. target : index'[h] = index[h] /\ jmt'[h] = jmt[h]
                              /\ touched'[h] = touched[h]
  BY <1>0, <1>2, TreeAssumption DEF Heights
<1>5. ~TopRowMissing' /\ CanonicalTop' = target
  <2>1. index'[version'] = index[target] /\ index[target] \in Block
    BY <1>0, <1>1, <1>2, <1>3, <1>4
  <2> QED
    BY <2>1, <1>0, TreeAssumption DEF TopRowMissing, CanonicalTop
<1>6. Fresh \in State
  BY TreeAssumption DEF Fresh, State
<1>7. acc' \in State
  BY <1>0, <1>2 DEF RestoredAccounts, DbTypeOK, State, Heights
<1>8. DbTypeOK'
  <2>1. index' \in [Heights -> Block \cup {NoBlock}]
    BY <1>0 DEF DbTypeOK
  <2>2. headers' \subseteq Block /\ weight' \in [Block -> Nat] /\ bodies' \subseteq Block
    BY <1>0 DEF DbTypeOK
  <2>3. jmt' \in [Heights -> State]
    BY <1>0, <1>6 DEF DbTypeOK
  <2>4. touched' \in [Heights -> SUBSET Account]
    BY <1>0 DEF DbTypeOK
  <2> QED
    BY <1>0, <1>7, <2>1, <2>2, <2>3, <2>4 DEF DbTypeOK
\* No kept block shares its hash with a dropped one: their heights differ.
<1>9. \A k \in 0 .. target : index[k] \notin dropped
  <2> SUFFICES ASSUME NEW k \in 0 .. target, NEW h \in gone, index[k] = index[h]
               PROVE  FALSE
    OBVIOUS
  <2>1. k \in 0 .. CanonicalTop /\ index[k] \in Block /\ Height[index[k]] = k
    BY <1>1, <1>2, <1>3 DEF LedgerInv, CanonicalChain
  <2>2. h \in Heights /\ h > target /\ h \in Nat
    BY <1>2, TreeAssumption DEF Heights
  <2>3. index[h] # NoBlock
    BY <2>1, TreeAssumption
  <2>4. Height[index[h]] = h
    BY <2>2, <2>3, <1>1 DEF LedgerInv, CanonicalChain
  <2> QED
    BY <2>1, <2>2, <2>4, <1>2
<1>10. CanonicalChain'
  <2>1. \A h \in 0 .. target : index'[h] \in headers' /\ Height[index'[h]] = h
    BY <1>0, <1>1, <1>2, <1>3, <1>4, <1>9 DEF LedgerInv, CanonicalChain
  <2>2. \A h \in 1 .. target : Parent[index'[h]] = index'[h - 1]
    BY <1>0, <1>1, <1>2, <1>3, <1>4 DEF LedgerInv, CanonicalChain
  <2>3. \A h \in Heights : h > target => index'[h] = NoBlock
    BY <1>0, <1>2 DEF LedgerInv, CanonicalChain
  <2> QED
    BY <1>0, <1>5, <2>1, <2>2, <2>3 DEF CanonicalChain
<1>11. StateFollowsChain'
  <2>1. \A h \in 1 .. target : jmt'[h] = ExecuteOn(index'[h], jmt'[h - 1], jmt'[h - 1])
    BY <1>1, <1>2, <1>3, <1>4 DEF LedgerInv, StateFollowsChain
  <2>2. acc' = jmt[target]
    <3> SUFFICES ASSUME NEW a \in Account PROVE acc'[a] = jmt[target][a]
      BY <1>2, <1>7 DEF State, DbTypeOK
    <3>1. CASE \E h \in gone : a \in touched[h]
      BY <1>0, <3>1 DEF RestoredAccounts
    <3>2. CASE ~ \E h \in gone : a \in touched[h]
      <4>1. acc'[a] = acc[a] /\ acc[a] = jmt[version][a]
        BY <1>0, <3>2 DEF RestoredAccounts, LedgerInv, StateFollowsChain
      <4>2. jmt[version][a] = jmt[target][a]
        BY <1>2, <3>2 DEF LedgerInv, UntouchedKept
      <4> QED
        BY <4>1, <4>2
    <3> QED
      BY <3>1, <3>2
  <2> QED
    <3>1. jmt'[version'] = jmt[target]
      BY <1>0, <1>2, <1>4
    <3> QED
      BY <1>5, <2>1, <2>2, <3>1 DEF StateFollowsChain
<1>12. BodiesPresent'
  BY <1>0, <1>1, <1>2, <1>3, <1>4, <1>5 DEF LedgerInv, BodiesPresent
<1>13. UntouchedKept'
  <2>0. version' = target
    BY <1>0
  <2> SUFFICES ASSUME NEW i \in 0 .. target, NEW j \in 0 .. target, NEW a \in Account,
                      i <= j, \A h \in (i + 1) .. j : a \notin touched'[h]
               PROVE  jmt'[j][a] = jmt'[i][a]
    BY <2>0 DEF UntouchedKept
  <2>1. \A h \in (i + 1) .. j : h \in 0 .. target /\ a \notin touched[h]
    BY <1>2, <1>4
  <2>2. jmt[j][a] = jmt[i][a]
    BY <1>2, <2>1 DEF LedgerInv, UntouchedKept
  <2> QED
    BY <1>4, <2>2
<1>14. CheckpointBelow'
  BY <1>0, <1>5 DEF CheckpointBelow
<1> QED
  BY <1>0, <1>5, <1>8, <1>10, <1>11, <1>12, <1>13, <1>14 DEF LedgerInv

---------------------------------------------------------------------------
\* What the state batch of a block on top of the ledger does.

\* The new version is the block executed on the version below, the flat table
\* is its tree, and the versions below are as they were.
LEMMA StateBatchExtends ==
    ASSUME DbTypeOK, LedgerInv, ~TopRowMissing,
           NEW b \in Block, Executable(b), Height[b] = version + 1,
           WriteStateBatch(b)
    PROVE  /\ version' = version + 1 /\ version' \in Heights
           /\ jmt' \in [Heights -> State] /\ acc' \in State
           /\ touched' \in [Heights -> SUBSET Account]
           /\ \A h \in 0 .. version : jmt'[h] = jmt[h]
           /\ jmt'[version'] = ExecuteOn(b, jmt'[version], jmt'[version])
           /\ acc' = jmt'[version']
           /\ UntouchedKept'
<1>1. version \in Nat /\ version + 1 \in Heights /\ version \in Heights /\ Heights \subseteq Nat
      /\ version + 1 \notin 0 .. version /\ 0 .. version \subseteq Heights
  BY TreeAssumption DEF DbTypeOK, Heights
<1>2. jmt[version] \in State /\ acc = jmt[version] /\ acc \in State
  BY <1>1 DEF DbTypeOK, LedgerInv, StateFollowsChain
<1>3. TreeAfter(b) = ExecuteOn(b, jmt[version], jmt[version]) /\ TreeAfter(b) \in State
  BY <1>1, <1>2, ExecuteOnType DEF TreeAfter
<1>4. version' = version + 1 /\ jmt' = [jmt EXCEPT ![version + 1] = TreeAfter(b)]
      /\ touched' = [touched EXCEPT ![version + 1] = Touches[b]]
  BY DEF WriteStateBatch
<1>5. jmt' \in [Heights -> State] /\ touched' \in [Heights -> SUBSET Account]
  BY <1>1, <1>3, <1>4, TreeAssumption DEF DbTypeOK
<1>6. \A h \in 0 .. version : jmt'[h] = jmt[h] /\ touched'[h] = touched[h]
  BY <1>1, <1>4 DEF DbTypeOK
<1>7. jmt'[version + 1] = TreeAfter(b) /\ touched'[version + 1] = Touches[b]
  BY <1>1, <1>4 DEF DbTypeOK
<1>8. acc' = TreeAfter(b)
  <2>1. acc' = [a \in Account |-> IF a \in Touches[b] THEN Effect(b, a, acc[a]) ELSE acc[a]]
    BY DEF WriteStateBatch
  <2> QED
    BY <2>1, <1>2, <1>3 DEF ExecuteOn, State
<1>9. UntouchedKept'
  <2> SUFFICES ASSUME NEW i \in 0 .. (version + 1), NEW j \in 0 .. (version + 1),
                      NEW a \in Account,
                      i <= j, \A h \in (i + 1) .. j : a \notin touched'[h]
               PROVE  jmt'[j][a] = jmt'[i][a]
    BY <1>4 DEF UntouchedKept
  <2>1. CASE j <= version
    <3>1. j \in 0 .. version /\ i \in 0 .. version
      BY <1>1, <2>1
    <3>2. \A h \in (i + 1) .. j : a \notin touched[h]
      BY <1>1, <1>6, <3>1
    <3> QED
      BY <1>6, <3>1, <3>2 DEF LedgerInv, UntouchedKept
  <2>2. CASE j = version + 1 /\ i <= version
    <3>1. a \notin Touches[b] /\ \A h \in (i + 1) .. version : a \notin touched[h]
      BY <1>1, <1>6, <1>7, <2>2
    <3>2. jmt'[j][a] = jmt[version][a]
      BY <1>3, <1>7, <2>2, <3>1 DEF ExecuteOn
    <3>3. jmt[version][a] = jmt[i][a]
      BY <1>1, <2>2, <3>1 DEF LedgerInv, UntouchedKept
    <3> QED
      BY <1>1, <1>6, <2>2, <3>2, <3>3
  <2>3. CASE j = version + 1 /\ i = version + 1
    BY <2>3
  <2> QED
    BY <1>1, <2>1, <2>2, <2>3
<1>10. jmt'[version] = jmt[version]
  BY <1>1, <1>6
<1> QED
  BY <1>1, <1>2, <1>3, <1>4, <1>5, <1>6, <1>7, <1>8, <1>9, <1>10

\* commit_block_atomic of such a block leaves a sound ledger.
LEMMA CommitKeepsLedger ==
    ASSUME DbTypeOK, LedgerInv, ~TopRowMissing,
           NEW b \in Block, Executable(b), Height[b] = version + 1,
           NEW w \in Nat, CommitBlockAtomic(b, w)
    PROVE  /\ DbTypeOK' /\ LedgerInv' /\ ~TopRowMissing'
           /\ version' = version + 1 /\ index'[version'] = b
           /\ \A h \in 0 .. version : index'[h] = index[h]
           /\ finalized' = SaturatingSub(version + 1, FinalityDepth)
<1>1. WriteStateBatch(b) /\ headers' = headers \cup {b} /\ bodies' = bodies \cup {b}
      /\ weight' = [weight EXCEPT ![b] = w]
      /\ index' = [index EXCEPT ![version + 1] = b]
      /\ finalized' = SaturatingSub(version + 1, FinalityDepth)
  BY DEF CommitBlockAtomic, PutHeader, PutBlockBody
<1>2. /\ version' = version + 1 /\ version' \in Heights
      /\ jmt' \in [Heights -> State] /\ acc' \in State
      /\ touched' \in [Heights -> SUBSET Account]
      /\ \A h \in 0 .. version : jmt'[h] = jmt[h]
      /\ jmt'[version'] = ExecuteOn(b, jmt'[version], jmt'[version])
      /\ acc' = jmt'[version']
      /\ UntouchedKept'
  BY <1>1, StateBatchExtends
<1>3. version \in Nat /\ version + 1 \in Heights /\ Heights \subseteq Nat
      /\ 0 .. version \subseteq Heights /\ MaxHeight \in Nat
  BY TreeAssumption, <1>2 DEF DbTypeOK, Heights
<1>4. finalized' \in 0 .. version + 1 /\ finalized' \in Heights
  BY <1>1, <1>3, SaturatingSubBounds, FinalityDepthAssumption DEF Heights
<1>5. index'[version + 1] = b /\ \A h \in Heights : h # version + 1 => index'[h] = index[h]
  BY <1>1, <1>3 DEF DbTypeOK
<1>6. CanonicalTop = version /\ CanonicalTop' = version + 1 /\ ~TopRowMissing'
  BY <1>2, <1>3, <1>5, TreeAssumption DEF CanonicalTop, TopRowMissing
<1>7. DbTypeOK'
  BY <1>1, <1>2, <1>4 DEF DbTypeOK
<1>8. \A h \in 0 .. version : index'[h] = index[h]
  BY <1>3, <1>5
<1>9. CanonicalChain'
  <2>1. \A h \in 0 .. (version + 1) : index'[h] \in headers' /\ Height[index'[h]] = h
    BY <1>1, <1>3, <1>5, <1>6, <1>8 DEF LedgerInv, CanonicalChain
  <2>2. Parent[b] = index[version]
    BY <1>3 DEF Executable
  <2>3. \A h \in 1 .. (version + 1) : Parent[index'[h]] = index'[h - 1]
    BY <1>3, <1>5, <1>6, <1>8, <2>2 DEF LedgerInv, CanonicalChain
  <2>4. \A h \in Heights : h > version + 1 => index'[h] = NoBlock
    BY <1>3, <1>5 DEF LedgerInv, CanonicalChain
  <2> QED
    BY <1>2, <1>6, <2>1, <2>3, <2>4 DEF CanonicalChain
<1>10. StateFollowsChain'
  <2>1. \A h \in 1 .. (version + 1) : jmt'[h] = ExecuteOn(index'[h], jmt'[h - 1], jmt'[h - 1])
    <3> SUFFICES ASSUME NEW h \in 1 .. (version + 1)
                 PROVE  jmt'[h] = ExecuteOn(index'[h], jmt'[h - 1], jmt'[h - 1])
      OBVIOUS
    <3>1. CASE h = version + 1
      BY <1>2, <1>3, <1>5, <3>1
    <3>2. CASE h \in 1 .. version
      BY <1>2, <1>3, <1>6, <1>8, <3>2 DEF LedgerInv, StateFollowsChain
    <3> QED
      BY <1>3, <3>1, <3>2
  <2> QED
    BY <1>2, <1>6, <2>1 DEF StateFollowsChain
<1>11. BodiesPresent'
  BY <1>1, <1>3, <1>5, <1>6, <1>8 DEF LedgerInv, BodiesPresent
<1>12. CheckpointBelow'
  BY <1>2, <1>3, <1>4, <1>6 DEF CheckpointBelow
<1> QED
  BY <1>1, <1>2, <1>5, <1>6, <1>7, <1>8, <1>9, <1>10, <1>11, <1>12 DEF LedgerInv

\* The state batch alone leaves a sound ledger whose top row is missing.
LEMMA StateFirstKeepsLedger ==
    ASSUME DbTypeOK, LedgerInv, ~TopRowMissing,
           NEW b \in Block, Executable(b), Height[b] = version + 1,
           WriteStateBatch(b), UNCHANGED <<index, headers, weight, bodies, finalized>>
    PROVE  /\ DbTypeOK' /\ LedgerInv' /\ TopRowMissing'
           /\ version' = version + 1 /\ Parent[b] = index'[version' - 1]
           /\ jmt'[version'] = ExecuteOn(b, jmt'[version' - 1], jmt'[version' - 1])
<1>2. /\ version' = version + 1 /\ version' \in Heights
      /\ jmt' \in [Heights -> State] /\ acc' \in State
      /\ touched' \in [Heights -> SUBSET Account]
      /\ \A h \in 0 .. version : jmt'[h] = jmt[h]
      /\ jmt'[version'] = ExecuteOn(b, jmt'[version], jmt'[version])
      /\ acc' = jmt'[version']
      /\ UntouchedKept'
  BY StateBatchExtends
<1>3. version \in Nat /\ version + 1 \in Heights /\ Heights \subseteq Nat
      /\ finalized \in Nat
  BY TreeAssumption, <1>2 DEF DbTypeOK, Heights
<1>4. index'[version + 1] = NoBlock
  BY <1>3 DEF LedgerInv, CanonicalChain
<1>5. CanonicalTop = version /\ CanonicalTop' = version /\ TopRowMissing'
  BY <1>2, <1>3, <1>4 DEF CanonicalTop, TopRowMissing
<1>6. DbTypeOK'
  BY <1>2 DEF DbTypeOK
<1>7. CanonicalChain'
  BY <1>2, <1>3, <1>5 DEF LedgerInv, CanonicalChain
<1>8. StateFollowsChain'
  <2>1. \A h \in 1 .. version : jmt'[h] = ExecuteOn(index'[h], jmt'[h - 1], jmt'[h - 1])
    BY <1>2, <1>3, <1>5 DEF LedgerInv, StateFollowsChain
  <2> QED
    BY <1>2, <1>5, <2>1 DEF StateFollowsChain
<1>9. BodiesPresent'
  BY <1>5 DEF LedgerInv, BodiesPresent
<1>10. CheckpointBelow'
  BY <1>2, <1>3, <1>5 DEF LedgerInv, CheckpointBelow
<1>11. Parent[b] = index'[version' - 1]
  BY <1>2, <1>3 DEF Executable
<1> QED
  BY <1>2, <1>3, <1>5, <1>6, <1>7, <1>8, <1>9, <1>10, <1>11 DEF LedgerInv

---------------------------------------------------------------------------
\* The invariant holds at the start and is kept by every action.

\* The genesis block alone is a complete ledger.
LEMMA InitInv == Init => IInv
<1> SUFFICES ASSUME Init PROVE IInv
  OBVIOUS
<1>1. /\ index = [h \in Heights |-> IF h = 0 THEN Genesis ELSE NoBlock]
      /\ headers = {Genesis} /\ bodies = {Genesis} /\ version = 0 /\ finalized = 0
      /\ weight = [b \in Block |-> IF b = Genesis THEN Diff[Genesis] ELSE 0]
      /\ jmt = [h \in Heights |-> Fresh] /\ acc = Fresh
      /\ touched = [h \in Heights |-> {}]
      /\ pc = "idle" /\ status = "none" /\ batch = <<>> /\ pos = 0 /\ fork = 0
      /\ forkWeight = 0 /\ tip = 0 /\ rolling = 0 /\ failedTip = 0
      /\ backup = NoBackup /\ cur = NoBlock /\ before = Unset
  BY DEF Init, DbInit, CallInit
<1>2. 0 \in Heights /\ Fresh \in State /\ Genesis # NoBlock /\ Heights \subseteq Nat
  BY TreeAssumption DEF Heights, Fresh, State
<1>3. TypeOK
  <2>1. DbTypeOK
    BY <1>1, <1>2, TreeAssumption DEF DbTypeOK
  <2>2. backup \in [Heights -> Block \cup {NoBlock}] /\ before \in Snapshot
    BY <1>1, <1>2, TreeAssumption DEF NoBackup, Unset, Snapshot
  <2> QED
    BY <1>1, <1>2, <2>1, <2>2 DEF TypeOK, Phase, Reply
<1>4. CanonicalTop = 0 /\ ~TopRowMissing
  BY <1>1, <1>2 DEF CanonicalTop, TopRowMissing
<1>5. LedgerInv
  BY <1>1, <1>2, <1>4, TreeAssumption DEF LedgerInv, CanonicalChain, StateFollowsChain,
         BodiesPresent, UntouchedKept, CheckpointBelow, Heights
<1>6. PhaseInv
  BY <1>1, <1>4 DEF PhaseInv, BackupAtHeight, NoBackup
<1> QED
  BY <1>3, <1>5, <1>6 DEF IInv

\* The part of TypeOK about the call's own variables, which a step that answers
\* resets.
CallTypeOK ==
    /\ pc \in Phase /\ status \in Reply /\ batch \in Batch \cup {<<>>}
    /\ pos \in Nat /\ fork \in Heights /\ forkWeight \in Nat /\ tip \in Heights
    /\ rolling \in Nat /\ failedTip \in Heights
    /\ backup \in [Heights -> Block \cup {NoBlock}]
    /\ cur \in Block \cup {NoBlock} /\ before \in Snapshot

LEMMA TypeSplit == TypeOK <=> DbTypeOK /\ CallTypeOK
BY DEF TypeOK, CallTypeOK

\* A step that ends the call over a sound ledger with its top row in place.
LEMMA AnswerKeepsInv ==
    ASSUME NEW s \in Reply, Answer(s), DbTypeOK', LedgerInv', ~TopRowMissing'
    PROVE  IInv'
<1>1. /\ pc' = "idle" /\ status' = s /\ batch' = <<>> /\ pos' = 0 /\ fork' = 0
      /\ forkWeight' = 0 /\ tip' = 0 /\ rolling' = 0 /\ failedTip' = 0
      /\ backup' = NoBackup /\ cur' = NoBlock /\ before' = Unset
  BY DEF Answer, ClearCall
<1>2. 0 \in Heights /\ Fresh \in State
  BY TreeAssumption DEF Heights, Fresh, State
<1>3. backup' \in [Heights -> Block \cup {NoBlock}] /\ before' \in Snapshot
  BY <1>1, <1>2, TreeAssumption DEF NoBackup, Unset, Snapshot
<1>4. CallTypeOK'
  BY <1>1, <1>2, <1>3 DEF CallTypeOK, Phase
<1>5. PhaseInv'
  BY <1>1 DEF PhaseInv, BackupAtHeight, NoBackup
<1> QED
  BY <1>4, <1>5, TypeSplit DEF IInv, TypeOK, CallTypeOK

\* A step that touches nothing the ledger's invariant speaks of.
LEMMA LedgerUnchanged ==
    ASSUME DbTypeOK, LedgerInv, UNCHANGED dbVars
    PROVE  DbTypeOK' /\ LedgerInv' /\ (TopRowMissing' <=> TopRowMissing)
BY DEF DbTypeOK, LedgerInv, CanonicalChain, StateFollowsChain, BodiesPresent, UntouchedKept,
       CheckpointBelow, CanonicalTop, TopRowMissing, dbVars

\* Moving the checkpoint up to the executed version at most.
LEMMA CheckpointMoves ==
    ASSUME DbTypeOK, LedgerInv, ~TopRowMissing,
           UNCHANGED <<index, headers, weight, bodies, version, jmt, acc, touched>>,
           finalized' \in Heights, finalized' <= version
    PROVE  DbTypeOK' /\ LedgerInv' /\ ~TopRowMissing'
BY DEF DbTypeOK, LedgerInv, CanonicalChain, StateFollowsChain, BodiesPresent, UntouchedKept,
       CheckpointBelow, CanonicalTop, TopRowMissing

LEMMA SetFinalizedBounds ==
    ASSUME DbTypeOK, finalized <= version, NEW h \in Nat, SetFinalizedHeight(h)
    PROVE  finalized' \in Heights /\ finalized' <= version
BY TreeAssumption, FinalityDepthAssumption DEF DbTypeOK, SetFinalizedHeight, Heights

---------------------------------------------------------------------------
\* One lemma per action: it keeps IInv.

LEMMA RejectKeeps == ASSUME IInv, NEW B \in Batch, Reject(B) PROVE IInv'
<1>1. DbTypeOK' /\ LedgerInv' /\ ~TopRowMissing'
  BY LedgerUnchanged, TypeSplit DEF IInv, PhaseInv, Reject
<1>2. Verdict(B) \in Reply
  BY DEF Verdict, Reply, Reject
<1> QED
  BY <1>1, <1>2, AnswerKeepsInv DEF Reject

\* A verdict that goes on has a canonical fork point and a linked batch.
LEMMA AcceptedBatch ==
    ASSUME DbTypeOK, LedgerInv, NEW B \in Batch, Verdict(B) = "reorg"
    PROVE  /\ B \in Seq(Block) /\ B # <<>> /\ Len(B) \in Nat \ {0} /\ B[1] \in Block
           /\ ForkBlock(B) \in Block /\ ForkHeight(B) \in Heights
           /\ ForkHeight(B) <= version
           /\ HeadersVerify(B)
<1>1. B \in Seq(Block) /\ B # <<>>
  BY BatchAssumption
<1>2. Len(B) \in Nat \ {0} /\ B[1] \in Block
  BY <1>1
<1>3. ForkBlock(B) \in Block /\ ForkHeight(B) \in Heights
  BY <1>2, TreeAssumption DEF ForkBlock, ForkHeight, Heights
<1>4. HistoryPresent(ForkHeight(B)) /\ HeadersVerify(B)
  BY DEF Verdict
<1>5. ForkHeight(B) <= version
  <2>1. index[ForkHeight(B)] \in headers
    BY <1>3, <1>4, TreeAssumption DEF HistoryPresent, Heights
  <2>2. index[ForkHeight(B)] # NoBlock
    BY <2>1, TreeAssumption DEF DbTypeOK
  <2>3. ForkHeight(B) \in Nat /\ version \in Nat
    BY <1>3, TreeAssumption DEF DbTypeOK, Heights
  <2> QED
    BY <1>3, <2>2, <2>3 DEF LedgerInv, CanonicalChain
<1> QED
  BY <1>1, <1>2, <1>3, <1>4, <1>5

LEMMA AcceptKeeps == ASSUME IInv, NEW B \in Batch, Accept(B) PROVE IInv'
<1>1. DbTypeOK /\ LedgerInv /\ ~TopRowMissing /\ PhaseInv /\ CallTypeOK
  BY TypeSplit DEF IInv, PhaseInv, Accept
<1>2. /\ B \in Seq(Block) /\ B # <<>> /\ Len(B) \in Nat \ {0} /\ B[1] \in Block
      /\ ForkBlock(B) \in Block /\ ForkHeight(B) \in Heights
      /\ ForkHeight(B) <= version
      /\ HeadersVerify(B)
  BY <1>1, AcceptedBatch DEF Accept
<1>3. finalized' \in Heights /\ finalized' <= ForkHeight(B) /\ finalized' <= version
  BY SMTT(30), <1>1, <1>2, TreeAssumption
     DEF Accept, DeepReorg, ForceSetFinalizedHeight, DbTypeOK, Heights, LedgerInv, CheckpointBelow
<1>4. DbTypeOK' /\ LedgerInv' /\ ~TopRowMissing'
  BY <1>1, <1>3, CheckpointMoves DEF Accept
<1>5. /\ pc' = "rollback" /\ status' = "none" /\ batch' = B /\ pos' = 1
      /\ fork' = ForkHeight(B) /\ forkWeight' = AnchorWeight(B) /\ tip' = version
      /\ rolling' = AnchorWeight(B) /\ failedTip' = ForkHeight(B)
      /\ before' = [tip |-> index[version], weight |-> TipWeight, acc |-> acc,
                    fin |-> finalized, deep |-> DeepReorg(B)]
      /\ version' = version /\ backup' = backup /\ cur' = cur
  BY DEF Accept
<1>6. AnchorWeight(B) \in Nat
  BY <1>1, <1>2 DEF AnchorWeight, DbTypeOK
<1>7. before' \in Snapshot
  <2>1. index[version] \in Block
    BY <1>1 DEF DbTypeOK, TopRowMissing
  <2> QED
    BY <1>1, <1>5, <2>1 DEF Snapshot, TipWeight, DeepReorg, DbTypeOK
<1>8. CallTypeOK'
  BY <1>1, <1>2, <1>5, <1>6, <1>7 DEF CallTypeOK, Phase, Reply, DbTypeOK
<1>9. PhaseInv'
  BY <1>1, <1>2, <1>3, <1>4, <1>5 DEF PhaseInv, BackupAtHeight, ForkHeight, ForkBlock, HeadersVerify
<1> QED
  BY <1>4, <1>8, <1>9, TypeSplit DEF IInv, TypeOK, CallTypeOK

LEMMA RollBackKeeps == ASSUME IInv, RollBack PROVE IInv'
<1>1. /\ DbTypeOK /\ LedgerInv /\ ~TopRowMissing /\ PhaseInv /\ CallTypeOK
      /\ tip = version /\ fork <= version /\ finalized <= fork /\ fork \in Heights
      /\ version \in Heights /\ failedTip = fork /\ pos = 1 /\ batch # <<>>
      /\ HeadersVerify(batch) /\ fork = ForkHeight(batch)
  BY TypeSplit DEF IInv, PhaseInv, RollBack, CallTypeOK, DbTypeOK
<1>2. fork \in Nat /\ version \in Nat /\ finalized \in Heights
  BY <1>1, TreeAssumption DEF Heights, DbTypeOK
<1>3. RollbackAllowed(fork)
  BY <1>1 DEF RollbackAllowed
<1>4. /\ pc' = "apply"
      /\ backup' = [h \in Heights |-> IF h \in (fork + 1) .. tip /\ index[h] \in headers
                                      THEN index[h] ELSE NoBlock]
      /\ RollbackState(tip, fork)
      /\ UNCHANGED <<status, batch, pos, fork, forkWeight, tip, rolling, failedTip, cur, before>>
  BY <1>3 DEF RollBack
<1>5. DbTypeOK' /\ LedgerInv' /\ ~TopRowMissing' /\ version' = fork /\ finalized' = finalized
  <2>1. CASE fork < version
    BY <1>1, <1>2, <1>3, <1>4, <2>1, DropKeepsLedger DEF RollbackState
  <2>2. CASE fork = version
    BY <1>1, <1>2, <1>4, <2>2, LedgerUnchanged DEF RollbackState, dbVars
  <2> QED
    BY <1>1, <1>2, <2>1, <2>2
<1>6. backup' \in [Heights -> Block \cup {NoBlock}] /\ BackupAtHeight'
  <2>1. backup' \in [Heights -> Block \cup {NoBlock}]
    BY <1>1, <1>4 DEF DbTypeOK
  <2>2. ASSUME NEW h \in Heights, backup'[h] # NoBlock PROVE Height[backup'[h]] = h
    <3>1. index[h] # NoBlock /\ backup'[h] = index[h]
      BY <1>1, <1>4, <2>2
    <3>2. h \in 0 .. CanonicalTop
      BY <1>1, <3>1, RowsAreBlocks DEF LedgerInv
    <3> QED
      BY <1>1, <3>1, <3>2 DEF LedgerInv, CanonicalChain
  <2> QED
    BY <2>1, <2>2 DEF BackupAtHeight
<1>7. CallTypeOK'
  BY <1>1, <1>4, <1>6 DEF CallTypeOK, Phase
<1>8. PhaseInv'
  <2>1. batch \in Seq(Block) /\ Len(batch) \in Nat \ {0}
    BY <1>1, BatchAssumption DEF CallTypeOK
  <2>2. HeadersVerify(batch)' /\ ForkHeight(batch)' = ForkHeight(batch)
    BY <1>1, <1>4 DEF HeadersVerify, ForkHeight, ForkBlock
  <2> QED
    BY <1>1, <1>2, <1>4, <1>5, <1>6, <2>1, <2>2 DEF PhaseInv
<1> QED
  BY <1>5, <1>7, <1>8, TypeSplit DEF IInv, TypeOK, CallTypeOK

\* What Apply relies on: the next block of the batch goes right on the top.
LEMMA NextBlockHeight ==
    ASSUME IInv, pc = "apply", pos <= Len(batch), Executable(batch[pos])
    PROVE  /\ batch \in Batch /\ batch[pos] \in Block
           /\ Height[batch[pos]] = version + 1
<1>1. /\ DbTypeOK /\ LedgerInv /\ ~TopRowMissing /\ batch # <<>> /\ batch \in Batch
      /\ HeadersVerify(batch) /\ fork = ForkHeight(batch)
      /\ pos \in 1 .. Len(batch) + 1 /\ version = fork + pos - 1
      /\ (pos > 1 => index[version] = batch[pos - 1])
      /\ version \in Heights /\ fork \in Heights
  BY TypeSplit DEF IInv, PhaseInv, CallTypeOK, DbTypeOK
<1>2. batch \in Seq(Block) /\ Len(batch) \in Nat
  BY <1>1, BatchAssumption
<1>3. pos \in 1 .. Len(batch) /\ batch[pos] \in Block /\ version \in Nat /\ fork \in Nat
  BY <1>1, <1>2, TreeAssumption DEF Heights
<1>4. Height[Parent[batch[pos]]] = Height[batch[pos]] - 1 /\ Height[batch[pos]] \in Nat
  BY <1>1, <1>3, ExecutableHeight, TreeAssumption DEF LedgerInv, Heights
<1>5. Height[Parent[batch[pos]]] = version
  <2>1. CASE pos = 1
    BY <1>1, <1>3, <2>1 DEF ForkHeight, ForkBlock
  <2>2. CASE pos > 1
    <3>1. Parent[batch[pos]] = index[version]
      BY <1>1, <1>3, <2>2 DEF HeadersVerify
    <3>2. version \in 0 .. CanonicalTop
      BY <1>1, <1>3 DEF CanonicalTop
    <3> QED
      BY <1>1, <3>1, <3>2 DEF LedgerInv, CanonicalChain
  <2> QED
    BY <1>1, <1>2, <2>1, <2>2
<1> QED
  BY <1>1, <1>3, <1>4, <1>5

LEMMA ApplyKeeps == ASSUME IInv, ShortBatches, Apply PROVE IInv'
<1> DEFINE b == batch[pos]
<1>1. /\ DbTypeOK /\ LedgerInv /\ ~TopRowMissing /\ CallTypeOK /\ PhaseInv
      /\ HeadersVerify(batch) /\ fork = ForkHeight(batch)
      /\ pos \in 1 .. Len(batch) + 1 /\ pos <= Len(batch) /\ version = fork + pos - 1
      /\ failedTip = version /\ finalized <= fork /\ batch # <<>>
      /\ \A i \in 1 .. pos - 1 : Height[batch[i]] = fork + i
  BY TypeSplit DEF IInv, PhaseInv, Apply
<1>2. /\ Executable(b)
      /\ rolling' = rolling + Diff[b]
      /\ CommitBlockAtomic(b, rolling + Diff[b])
      /\ failedTip' = Height[b] /\ pos' = pos + 1
      /\ UNCHANGED <<pc, status, batch, fork, forkWeight, tip, backup, cur, before>>
      /\ pc = "apply"
  BY DEF Apply, Applies
<1>3. batch \in Batch /\ b \in Block /\ Height[b] = version + 1
  BY <1>1, <1>2, NextBlockHeight
<1>4. batch \in Seq(Block) /\ Len(batch) \in Nat /\ Len(batch) <= FinalityDepth + 1
      /\ fork \in Nat /\ version \in Nat /\ rolling \in Nat /\ Diff[b] \in Nat /\ pos \in Nat
  <2>1. batch \in Seq(Block) /\ Len(batch) <= FinalityDepth + 1
    BY <1>3, BatchAssumption DEF ShortBatches
  <2>2. fork \in Nat /\ version \in Nat /\ rolling \in Nat /\ pos \in Nat
    BY <1>1, TreeAssumption DEF CallTypeOK, DbTypeOK, Heights
  <2>3. Diff[b] \in Nat
    <3> HIDE DEF b
    <3> QED BY <1>3, TreeAssumption
  <2> QED
    BY <2>1, <2>2, <2>3
<1>5. /\ DbTypeOK' /\ LedgerInv' /\ ~TopRowMissing'
      /\ version' = version + 1 /\ index'[version'] = b
      /\ finalized' = SaturatingSub(version + 1, FinalityDepth)
  <2>1. rolling + Diff[b] \in Nat
    BY <1>4
  <2> HIDE DEF b
  <2> QED
    BY <1>1, <1>2, <1>3, <2>1, CommitKeepsLedger
<1>6. CallTypeOK'
  <2>1. rolling' \in Nat /\ failedTip' \in Heights /\ pos' \in Nat
    BY <1>2, <1>3, <1>4, TreeAssumption
  <2> QED
    BY <1>1, <1>2, <2>1 DEF CallTypeOK
<1>7. PhaseInv'
  <2>1. HeadersVerify(batch)' /\ ForkHeight(batch)' = ForkHeight(batch)
    BY <1>1, <1>2 DEF HeadersVerify, ForkHeight, ForkBlock
  <2>2. pos' <= Len(batch) => finalized' <= fork
    <3>1. version + 1 = fork + pos /\ pos' = pos + 1
      BY <1>1, <1>2, <1>4
    <3>2. pos + 1 <= Len(batch) => SaturatingSub(fork + pos, FinalityDepth) <= fork
      BY <1>4, FinalityDepthAssumption DEF SaturatingSub
    <3> QED
      BY <1>5, <3>1, <3>2
  <2>3. \A i \in 1 .. pos : Height[batch[i]] = fork + i
    BY <1>1, <1>3, <1>4
  <2>4. BackupAtHeight'
    BY <1>1, <1>2 DEF PhaseInv, BackupAtHeight
  <2> QED
    BY <1>1, <1>2, <1>3, <1>4, <1>5, <2>1, <2>2, <2>3, <2>4 DEF PhaseInv
<1> QED
  BY <1>5, <1>6, <1>7, TypeSplit DEF IInv, TypeOK, CallTypeOK

\* Leaving the loop early: the bad block and the deadline alike.
LEMMA LoopLeftKeeps ==
    ASSUME IInv, pc = "apply", pos <= Len(batch), pc' = "recover",
           UNCHANGED <<dbVars, status, callVars>>
    PROVE  IInv'
<1>1. DbTypeOK' /\ LedgerInv' /\ (TopRowMissing' <=> TopRowMissing)
  BY LedgerUnchanged, TypeSplit DEF IInv
<1>2. CallTypeOK'
  BY TypeSplit DEF IInv, CallTypeOK, Phase, callVars
<1>3. PhaseInv'
  <2>1. fork \in Nat /\ pos \in 1 .. Len(batch) + 1 /\ version = fork + pos - 1 /\ fork <= version
        /\ failedTip = version /\ finalized <= fork /\ batch # <<>> /\ ~TopRowMissing
        /\ BackupAtHeight
    BY TypeSplit, TreeAssumption DEF IInv, PhaseInv, CallTypeOK, Heights
  <2> QED
    BY <1>1, <2>1 DEF PhaseInv, BackupAtHeight, callVars, dbVars
<1> QED
  BY <1>1, <1>2, <1>3, TypeSplit DEF IInv, TypeOK, CallTypeOK

\* Adoption finds every row of the batch already in the index.
LEMMA AdoptKeepsRows == ASSUME IInv, Adopt PROVE index' = index
<1>1. /\ DbTypeOK /\ LedgerInv /\ ~TopRowMissing /\ CallTypeOK
      /\ pos \in 1 .. Len(batch) + 1 /\ pos > Len(batch) /\ version = fork + pos - 1
      /\ batch # <<>> /\ \A i \in 1 .. pos - 1 : Height[batch[i]] = fork + i
  BY TypeSplit DEF IInv, PhaseInv, Adopt
<1>2. batch \in Seq(Block) /\ Len(batch) \in Nat \ {0} /\ fork \in Nat /\ version \in Nat
      /\ version \in Heights
  BY <1>1, BatchAssumption, TreeAssumption DEF CallTypeOK, DbTypeOK, Heights
<1>3. \A i \in 1 .. Len(batch) : index[Height[batch[i]]] # NoBlock
  <2> SUFFICES ASSUME NEW i \in 1 .. Len(batch) PROVE index[Height[batch[i]]] # NoBlock
    OBVIOUS
  <2>1. Height[batch[i]] \in 0 .. version
    BY <1>1, <1>2
  <2>2. CanonicalTop = version
    BY <1>1 DEF CanonicalTop
  <2> QED
    BY <1>1, <2>1, <2>2, RowsAreBlocks, TreeAssumption DEF LedgerInv
<1>4. index' = [h \in Heights |->
                 IF index[h] = NoBlock /\ \E i \in 1 .. Len(batch) : Height[batch[i]] = h
                 THEN batch[CHOOSE i \in 1 .. Len(batch) : Height[batch[i]] = h]
                 ELSE index[h]]
  BY DEF Adopt
<1>5. \A h \in Heights : ~(index[h] = NoBlock /\ \E i \in 1 .. Len(batch) : Height[batch[i]] = h)
  BY <1>3
<1> QED
  BY <1>1, <1>4, <1>5 DEF DbTypeOK

LEMMA AdoptKeeps == ASSUME IInv, Adopt PROVE IInv'
<1>1. DbTypeOK /\ LedgerInv /\ ~TopRowMissing /\ CallTypeOK /\ batch # <<>>
  BY TypeSplit DEF IInv, PhaseInv, Adopt
<1>2. batch \in Seq(Block) /\ Len(batch) \in Nat \ {0}
  BY <1>1, BatchAssumption DEF CallTypeOK
<1>4. index' = index
  BY AdoptKeepsRows
<1>5. Height[batch[Len(batch)]] \in Nat
  BY <1>2, TreeAssumption DEF Heights
<1>6. SaturatingSub(Height[batch[Len(batch)]], FinalityDepth) \in Nat
  BY <1>5, SaturatingSubBounds, FinalityDepthAssumption
<1>7. finalized' \in Heights /\ finalized' <= version
  BY <1>1, <1>6, SetFinalizedBounds DEF Adopt, LedgerInv, CheckpointBelow
<1>8. DbTypeOK' /\ LedgerInv' /\ ~TopRowMissing'
  BY <1>1, <1>4, <1>7, CheckpointMoves DEF Adopt
<1> QED
  BY <1>8, AnswerKeepsInv DEF Adopt, Reply

LEMMA RecoverKeeps == ASSUME IInv, Recover PROVE IInv'
<1>1. /\ DbTypeOK /\ LedgerInv /\ ~TopRowMissing /\ CallTypeOK /\ batch # <<>>
      /\ failedTip = version /\ fork <= version /\ finalized <= fork /\ fork \in Heights
      /\ version \in Heights /\ BackupAtHeight /\ forkWeight \in Nat
  BY TypeSplit DEF IInv, PhaseInv, Recover, CallTypeOK, DbTypeOK
<1>2. fork \in Nat /\ version \in Nat /\ finalized \in Heights
  BY <1>1, TreeAssumption DEF Heights, DbTypeOK
<1>3. /\ RollbackState(failedTip, fork) /\ pc' = "replay" /\ pos' = fork + 1
      /\ rolling' = forkWeight
      /\ UNCHANGED <<status, batch, fork, forkWeight, tip, failedTip, backup, cur, before>>
  BY DEF Recover
<1>4. DbTypeOK' /\ LedgerInv' /\ ~TopRowMissing' /\ version' = fork
  <2>1. CASE fork < version
    BY <1>1, <1>2, <1>3, <2>1, DropKeepsLedger DEF RollbackState, RollbackAllowed
  <2>2. CASE fork = version
    BY <1>1, <1>2, <1>3, <2>2, LedgerUnchanged DEF RollbackState, dbVars
  <2> QED
    BY <1>1, <1>2, <2>1, <2>2
<1>5. CallTypeOK'
  BY <1>1, <1>2, <1>3 DEF CallTypeOK, Phase
<1>6. PhaseInv'
  BY <1>1, <1>3, <1>4 DEF PhaseInv, BackupAtHeight
<1> QED
  BY <1>4, <1>5, <1>6, TypeSplit DEF IInv, TypeOK, CallTypeOK

LEMMA ReplayKeeps == ASSUME IInv, NEW h \in Heights, Replay(h) PROVE IInv'
<1> DEFINE b == backup[h]
<1>1. /\ DbTypeOK /\ LedgerInv /\ ~TopRowMissing /\ CallTypeOK /\ batch # <<>>
      /\ pos = version + 1 /\ BackupAtHeight /\ version \in Heights
  BY TypeSplit DEF IInv, PhaseInv, Replay, CallTypeOK, DbTypeOK
<1>2. b \in Block /\ Height[b] = h /\ h >= pos /\ version \in Nat /\ h \in Nat
  BY <1>1, TreeAssumption DEF Replay, NextReplay, ToReplay, CallTypeOK, BackupAtHeight, Heights
<1>3. CASE ~Executable(b)
  <2>1. Answer("internal") /\ UNCHANGED dbVars
    BY <1>3 DEF Replay
  <2>2. DbTypeOK' /\ LedgerInv' /\ ~TopRowMissing'
    BY <1>1, <2>1, LedgerUnchanged
  <2> QED
    BY <2>1, <2>2, AnswerKeepsInv DEF Reply
<1>4. CASE Executable(b)
  <2>1. /\ WriteStateBatch(b) /\ rolling' = rolling + Diff[b] /\ cur' = b
        /\ pos' = h + 1 /\ pc' = "header"
        /\ UNCHANGED <<index, headers, weight, bodies, finalized, status,
                       batch, fork, forkWeight, tip, failedTip, backup, before>>
    BY <1>4 DEF Replay
  <2> HIDE DEF b
  <2>2. Height[b] = version + 1
    <3>1. Height[b] - 1 \in 0 .. CanonicalTop /\ CanonicalTop <= version /\ CanonicalTop \in Nat
      BY <1>1, <1>2, <1>4, ExecutableHeight, RowsAreBlocks DEF LedgerInv
    <3> QED
      BY <1>1, <1>2, <3>1
  <2>3. /\ DbTypeOK' /\ LedgerInv' /\ TopRowMissing'
        /\ version' = version + 1 /\ Parent[b] = index'[version' - 1]
        /\ jmt'[version'] = ExecuteOn(b, jmt'[version' - 1], jmt'[version' - 1])
    BY <1>1, <1>2, <1>4, <2>1, <2>2, StateFirstKeepsLedger
  <2>4. rolling' \in Nat /\ pos' \in Nat
    BY <1>1, <1>2, <2>1, TreeAssumption DEF CallTypeOK
  <2>5. CallTypeOK'
    BY <1>1, <1>2, <2>1, <2>4 DEF CallTypeOK, Phase
  <2>6. SavingBlock'
    BY <1>2, <2>1, <2>2, <2>3 DEF SavingBlock
  <2>7. PhaseInv'
    BY <1>1, <2>1, <2>6 DEF PhaseInv, BackupAtHeight
  <2> QED
    BY <2>3, <2>5, <2>7, TypeSplit DEF IInv, TypeOK, CallTypeOK
<1> QED
  BY <1>3, <1>4

LEMMA RestoredKeeps == ASSUME IInv, Restored PROVE IInv'
<1>1. DbTypeOK' /\ LedgerInv' /\ ~TopRowMissing'
  BY LedgerUnchanged, TypeSplit DEF IInv, PhaseInv, Restored
<1> QED
  BY <1>1, AnswerKeepsInv DEF Restored, Reply

LEMMA NewBlockKeeps == ASSUME IInv, NEW b \in Block, NewBlock(b) PROVE IInv'
<1>1. /\ DbTypeOK /\ LedgerInv /\ ~TopRowMissing /\ CallTypeOK /\ batch = <<>>
      /\ BackupAtHeight
  BY TypeSplit DEF IInv, PhaseInv, NewBlock
<1>2. /\ WriteStateBatch(b) /\ Executable(b) /\ Height[b] = version + 1
      /\ rolling' = weight[index[version]] + Diff[b] /\ cur' = b /\ pc' = "header"
      /\ UNCHANGED <<index, headers, weight, bodies, finalized, status,
                     batch, pos, fork, forkWeight, tip, failedTip, backup, before>>
  BY DEF NewBlock
<1>3. /\ DbTypeOK' /\ LedgerInv' /\ TopRowMissing'
      /\ version' = version + 1 /\ Parent[b] = index'[version' - 1]
      /\ jmt'[version'] = ExecuteOn(b, jmt'[version' - 1], jmt'[version' - 1])
  BY <1>1, <1>2, StateFirstKeepsLedger
<1>4. rolling' \in Nat
  <2>1. index[version] \in Block
    BY <1>1 DEF DbTypeOK, TopRowMissing
  <2> QED
    BY <1>1, <1>2, <2>1, TreeAssumption DEF DbTypeOK
<1>5. CallTypeOK'
  BY <1>1, <1>2, <1>4 DEF CallTypeOK, Phase
<1>6. SavingBlock'
  <2>1. version \in Nat
    BY <1>1, TreeAssumption DEF DbTypeOK, Heights
  <2> QED
    BY <1>1, <1>2, <1>3, <2>1 DEF SavingBlock
<1>7. PhaseInv'
  BY <1>1, <1>2, <1>6 DEF PhaseInv, BackupAtHeight
<1> QED
  BY <1>3, <1>5, <1>7, TypeSplit DEF IInv, TypeOK, CallTypeOK

\* The three row writes of a block whose state is there.
LEMMA SaveHeaderKeeps == ASSUME IInv, SaveHeader PROVE IInv'
<1>1. /\ DbTypeOK /\ LedgerInv /\ CallTypeOK /\ SavingBlock /\ TopRowMissing
      /\ cur \in Block /\ rolling \in Nat /\ BackupAtHeight
  BY TypeSplit DEF IInv, PhaseInv, SaveHeader, SavingBlock, CallTypeOK
<1>2. /\ headers' = headers \cup {cur} /\ weight' = [weight EXCEPT ![cur] = rolling]
      /\ pc' = "body" /\ pc = "header"
      /\ UNCHANGED <<index, bodies, version, finalized, jmt, acc, touched, status, callVars>>
  BY DEF SaveHeader, PutHeader
<1>3. DbTypeOK'
  BY <1>1, <1>2 DEF DbTypeOK
<1>4. LedgerInv' /\ TopRowMissing'
  BY <1>1, <1>2 DEF LedgerInv, CanonicalChain, StateFollowsChain, BodiesPresent,
     UntouchedKept, CheckpointBelow, CanonicalTop, TopRowMissing
<1>5. CallTypeOK'
  BY <1>1, <1>2 DEF CallTypeOK, Phase, callVars
<1>6. SavingBlock'
  BY <1>1, <1>2, <1>4 DEF SavingBlock, callVars
<1>7. PhaseInv'
  BY <1>1, <1>2, <1>4, <1>6 DEF PhaseInv, BackupAtHeight, callVars
<1> QED
  BY <1>3, <1>4, <1>5, <1>7, TypeSplit DEF IInv, TypeOK, CallTypeOK

LEMMA SaveBodyKeeps == ASSUME IInv, SaveBody PROVE IInv'
<1>1. /\ DbTypeOK /\ LedgerInv /\ CallTypeOK /\ SavingBlock /\ TopRowMissing
      /\ cur \in Block /\ BackupAtHeight
  BY TypeSplit DEF IInv, PhaseInv, SaveBody, SavingBlock, CallTypeOK
<1>2. /\ bodies' = bodies \cup {cur} /\ pc' = "index" /\ pc = "body"
      /\ UNCHANGED <<index, headers, weight, version, finalized, jmt, acc, touched,
                     status, callVars>>
  BY DEF SaveBody, PutBlockBody
<1>3. DbTypeOK'
  BY <1>1, <1>2 DEF DbTypeOK
<1>4. LedgerInv' /\ TopRowMissing'
  BY <1>1, <1>2 DEF LedgerInv, CanonicalChain, StateFollowsChain, BodiesPresent,
     UntouchedKept, CheckpointBelow, CanonicalTop, TopRowMissing
<1>5. CallTypeOK'
  BY <1>1, <1>2 DEF CallTypeOK, Phase, callVars
<1>6. SavingBlock'
  BY <1>1, <1>2, <1>4 DEF SavingBlock, callVars
<1>7. PhaseInv'
  BY <1>1, <1>2, <1>4, <1>6 DEF PhaseInv, BackupAtHeight, callVars
<1> QED
  BY <1>3, <1>4, <1>5, <1>7, TypeSplit DEF IInv, TypeOK, CallTypeOK

LEMMA SaveIndexKeeps == ASSUME IInv, SaveIndex PROVE IInv'
<1>1. /\ DbTypeOK /\ LedgerInv /\ CallTypeOK /\ SavingBlock /\ TopRowMissing /\ BackupAtHeight
      /\ cur \in Block /\ cur \in headers /\ cur \in bodies /\ Height[cur] = version
      /\ Parent[cur] = index[version - 1] /\ version > 0
      /\ jmt[version] = ExecuteOn(cur, jmt[version - 1], jmt[version - 1])
      /\ version \in Heights
  BY TypeSplit DEF IInv, PhaseInv, SaveIndex, SavingBlock, CallTypeOK, DbTypeOK
<1>2. /\ index' = [index EXCEPT ![version] = cur] /\ pc' = "finalize" /\ pc = "index"
      /\ UNCHANGED <<headers, weight, bodies, version, finalized, jmt, acc, touched,
                     status, callVars>>
  BY <1>1 DEF SaveIndex, PutBlockHash, TopRowMissing, DbTypeOK
<1>3. version \in Nat /\ Heights \subseteq Nat /\ MaxHeight \in Nat
  BY <1>1, TreeAssumption DEF Heights
<1>4. index'[version] = cur /\ \A h \in Heights : h # version => index'[h] = index[h]
  BY <1>1, <1>2 DEF DbTypeOK
<1>5. CanonicalTop = version - 1 /\ CanonicalTop' = version /\ ~TopRowMissing'
      /\ 0 .. version \subseteq Heights
  BY <1>1, <1>2, <1>3, <1>4, TreeAssumption DEF CanonicalTop, TopRowMissing, Heights
<1>6. DbTypeOK'
  BY <1>1, <1>2 DEF DbTypeOK
<1>7. CanonicalChain'
  <2>1. \A h \in 0 .. version : index'[h] \in headers' /\ Height[index'[h]] = h
    BY <1>1, <1>2, <1>3, <1>4, <1>5 DEF LedgerInv, CanonicalChain
  <2>2. \A h \in 1 .. version : Parent[index'[h]] = index'[h - 1]
    <3> SUFFICES ASSUME NEW h \in 1 .. version PROVE Parent[index'[h]] = index'[h - 1]
      OBVIOUS
    <3>1. CASE h = version
      BY <1>1, <1>3, <1>4, <1>5, <3>1
    <3>2. CASE h \in 1 .. (version - 1)
      BY <1>1, <1>3, <1>4, <1>5, <3>2 DEF LedgerInv, CanonicalChain
    <3> QED
      BY <1>3, <3>1, <3>2
  <2>3. \A h \in Heights : h > version => index'[h] = NoBlock
    <3> SUFFICES ASSUME NEW h \in Heights, h > version PROVE index'[h] = NoBlock
      OBVIOUS
    <3>1. index[h] = NoBlock
      BY <1>1 DEF LedgerInv, CanonicalChain
    <3> QED
      BY <1>3, <1>4, <3>1
  <2> QED
    BY <1>2, <1>5, <2>1, <2>2, <2>3 DEF CanonicalChain
<1>8. StateFollowsChain'
  <2>1. \A h \in 1 .. version : jmt[h] = ExecuteOn(index'[h], jmt[h - 1], jmt[h - 1])
    <3> SUFFICES ASSUME NEW h \in 1 .. version
                 PROVE  jmt[h] = ExecuteOn(index'[h], jmt[h - 1], jmt[h - 1])
      OBVIOUS
    <3>1. CASE h = version
      BY <1>1, <1>4, <3>1
    <3>2. CASE h \in 1 .. (version - 1)
      BY <1>1, <1>3, <1>4, <1>5, <3>2 DEF LedgerInv, StateFollowsChain
    <3> QED
      BY <1>3, <3>1, <3>2
  <2> QED
    BY <1>1, <1>2, <1>5, <2>1 DEF LedgerInv, StateFollowsChain
<1>9. BodiesPresent'
  BY <1>1, <1>2, <1>3, <1>4, <1>5 DEF LedgerInv, BodiesPresent
<1>10. UntouchedKept' /\ CheckpointBelow'
  BY <1>1, <1>2, <1>5 DEF LedgerInv, UntouchedKept, CheckpointBelow
<1>11. CallTypeOK'
  BY <1>1, <1>2 DEF CallTypeOK, Phase, callVars
<1>12. SavingBlock'
  BY <1>1, <1>2, <1>3, <1>4, <1>5 DEF SavingBlock, callVars
<1>13. PhaseInv'
  BY <1>1, <1>2, <1>5, <1>12 DEF PhaseInv, BackupAtHeight, callVars
<1> QED
  BY <1>6, <1>7, <1>8, <1>9, <1>10, <1>11, <1>13, TypeSplit
     DEF IInv, LedgerInv, TypeOK, CallTypeOK

LEMMA FinalizeKeeps == ASSUME IInv, Finalize PROVE IInv'
<1>1. /\ DbTypeOK /\ LedgerInv /\ CallTypeOK /\ SavingBlock /\ ~TopRowMissing /\ BackupAtHeight
      /\ Height[cur] = version /\ version \in Nat
      /\ (batch # <<>> => pos = version + 1)
  <2>1. /\ DbTypeOK /\ LedgerInv /\ CallTypeOK /\ SavingBlock /\ ~TopRowMissing
        /\ BackupAtHeight
    BY TypeSplit DEF IInv, PhaseInv, Finalize
  <2>2. version \in Nat
    BY <2>1, TreeAssumption DEF DbTypeOK, Heights
  <2> QED
    BY <2>1, <2>2 DEF SavingBlock
<1>2. SaturatingSub(Height[cur], FinalityDepth) \in Nat
  BY <1>1, SaturatingSubBounds, FinalityDepthAssumption
<1>3. finalized' \in Heights /\ finalized' <= version
  BY <1>1, <1>2, SetFinalizedBounds DEF Finalize, LedgerInv, CheckpointBelow
<1>4. DbTypeOK' /\ LedgerInv' /\ ~TopRowMissing'
  BY <1>1, <1>3, CheckpointMoves DEF Finalize
<1>5. CASE batch = <<>>
  BY <1>4, <1>5, AnswerKeepsInv DEF Finalize, Reply
<1>6. CASE batch # <<>>
  <2>1. /\ pc' = "replay" /\ cur' = NoBlock /\ version' = version
        /\ UNCHANGED <<status, batch, pos, fork, forkWeight, tip, rolling, failedTip, backup, before>>
    BY <1>6 DEF Finalize
  <2>2. CallTypeOK'
    BY <1>1, <2>1 DEF CallTypeOK, Phase
  <2>3. PhaseInv'
    BY <1>1, <1>4, <1>6, <2>1 DEF PhaseInv, BackupAtHeight
  <2> QED
    BY <1>4, <2>2, <2>3, TypeSplit DEF IInv, TypeOK, CallTypeOK
<1> QED
  BY <1>5, <1>6

---------------------------------------------------------------------------
\* Crash, restart and the operator.

LEMMA CrashKeeps == ASSUME IInv, Crash PROVE IInv'
<1>1. /\ pc' = "down" /\ status' = "none" /\ batch' = <<>> /\ pos' = 0 /\ fork' = 0
      /\ forkWeight' = 0 /\ tip' = 0 /\ rolling' = 0 /\ failedTip' = 0
      /\ backup' = NoBackup /\ cur' = NoBlock /\ before' = Unset /\ UNCHANGED dbVars
  BY DEF Crash, ClearCall
<1>2. 0 \in Heights /\ Fresh \in State
  BY TreeAssumption DEF Heights, Fresh, State
<1>3. DbTypeOK' /\ LedgerInv'
  BY <1>1, LedgerUnchanged, TypeSplit DEF IInv
<1>4. backup' \in [Heights -> Block \cup {NoBlock}] /\ before' \in Snapshot
  BY <1>1, <1>2, TreeAssumption DEF NoBackup, Unset, Snapshot
<1>5. CallTypeOK'
  BY <1>1, <1>2, <1>4 DEF CallTypeOK, Phase, Reply
<1>6. PhaseInv'
  BY <1>1 DEF PhaseInv, BackupAtHeight, NoBackup
<1> QED
  BY <1>3, <1>5, <1>6, TypeSplit DEF IInv, TypeOK, CallTypeOK

\* A step outside any call that leaves a sound ledger.
LEMMA QuietStep ==
    ASSUME IInv, pc \in {"idle", "down", "healing"}, pc' \in {"idle", "healing"},
           UNCHANGED <<status, callVars>>, DbTypeOK', LedgerInv',
           TopRowMissing' => pc' = "healing"
    PROVE  IInv'
<1>1. CallTypeOK'
  BY TypeSplit DEF IInv, CallTypeOK, callVars, Phase
<1>2. PhaseInv'
  BY DEF IInv, PhaseInv, BackupAtHeight, callVars
<1> QED
  BY <1>1, <1>2, TypeSplit DEF IInv, TypeOK, CallTypeOK

\* One block back, refused below the checkpoint.
LEMMA OneBack ==
    ASSUME DbTypeOK, LedgerInv, version > 0, RollbackState(version, version - 1)
    PROVE  /\ DbTypeOK' /\ LedgerInv'
           /\ TopRowMissing' => TopRowMissing
<1>1. version \in Nat /\ version - 1 \in Heights /\ version - 1 \in Nat /\ finalized \in Heights
      /\ finalized \in Nat /\ version - 1 < version
  BY TreeAssumption DEF DbTypeOK, Heights
<1>2. CASE RollbackAllowed(version - 1)
  <2>1. DropBlocks(version, version - 1) /\ finalized' = finalized /\ finalized <= version - 1
    BY <1>1, <1>2 DEF RollbackState, RollbackAllowed
  <2> QED
    BY <1>1, <2>1, DropKeepsLedger
<1>3. CASE ~RollbackAllowed(version - 1)
  BY <1>3, LedgerUnchanged DEF RollbackState
<1> QED
  BY <1>2, <1>3

LEMMA BootKeeps == ASSUME IInv, BootStep PROVE IInv'
<1>1. DbTypeOK /\ LedgerInv /\ PhaseInv
  BY TypeSplit DEF IInv
<1>2. version \in Nat /\ finalized \in Nat /\ version \in Heights /\ finalized \in Heights
      /\ finalized <= version
  BY <1>1, TreeAssumption DEF DbTypeOK, Heights, LedgerInv, CheckpointBelow
<1>3. CASE Restart
  <2>1. DbTypeOK' /\ LedgerInv'
    BY <1>1, <1>3, LedgerUnchanged DEF Restart
  <2> QED
    BY <1>3, <2>1, QuietStep DEF Restart
<1>4. CASE RestartForceHeal
  BY <1>1, <1>2, <1>4, OneBack, QuietStep DEF RestartForceHeal
<1>5. CASE Heal
  <2>1. version > 0
    BY <1>2, <1>5 DEF Heal, NeedsHealing
  <2> QED
    BY <1>1, <1>5, <2>1, OneBack, QuietStep DEF Heal
<1>6. CASE Healed
  <2>1. ~TopRowMissing
    <3>1. CASE version > finalized
      <4>1. index[version] \in headers
        BY <1>6, <3>1 DEF Healed, NeedsHealing, IsBlockComplete
      <4> QED
        BY <1>1, <4>1, TreeAssumption DEF TopRowMissing, DbTypeOK
    <3>2. CASE ~(version > finalized)
      BY <1>1, <1>2, <3>2 DEF LedgerInv, CheckpointBelow
    <3> QED
      BY <3>1, <3>2
  <2>2. finalized' = finalized
    BY <1>2, <1>6 DEF Healed
  <2>3. DbTypeOK' /\ LedgerInv' /\ ~TopRowMissing'
    BY <1>1, <1>2, <1>6, <2>1, <2>2, CheckpointMoves DEF Healed
  <2> QED
    BY <1>6, <2>3, QuietStep DEF Healed
<1> QED
  BY <1>3, <1>4, <1>5, <1>6 DEF BootStep

LEMMA StepBackKeeps == ASSUME IInv, StepBack PROVE IInv'
<1>1. DbTypeOK /\ LedgerInv /\ ~TopRowMissing
  BY TypeSplit DEF IInv, PhaseInv, StepBack
<1>2. version > 0
  BY <1>1, TreeAssumption DEF StepBack, DbTypeOK, Heights
<1> QED
  BY <1>1, <1>2, OneBack, QuietStep DEF StepBack

LEMMA OperatorKeeps == ASSUME IInv, OperatorStep PROVE IInv'
<1>1. PICK target \in Heights : ForceDelete(target)
  BY DEF OperatorStep
<1>2. DbTypeOK /\ LedgerInv
  BY TypeSplit DEF IInv
<1>3. target < version /\ DropBlocks(version, target) /\ finalized' = target /\ target \in Nat
  BY <1>1, TreeAssumption DEF ForceDelete, ForceDeleteBlocks, Heights
<1>4. DbTypeOK' /\ LedgerInv' /\ ~TopRowMissing'
  BY <1>2, <1>3, DropKeepsLedger
<1> QED
  BY <1>1, <1>4, QuietStep DEF ForceDelete

---------------------------------------------------------------------------
\* The theorems.

\* Every step of calls, blocks, crashes, boots and operator keeps the invariant.
LEMMA NextKeepsInv == ASSUME ShortBatches, IInv, [Next]_vars PROVE IInv'
<1>1. CASE \E B \in Batch : Reject(B) \/ Accept(B)
  BY <1>1, RejectKeeps, AcceptKeeps
<1>2. CASE \E b \in Block : NewBlock(b)
  BY <1>2, NewBlockKeeps
<1>3. CASE CallStep
  <2>1. CASE ApplyFails \/ Deadline
    BY <2>1, LoopLeftKeeps DEF ApplyFails, Deadline
  <2>2. CASE \E h \in Heights : Replay(h)
    BY <2>2, ReplayKeeps
  <2> QED
    BY <1>3, <2>1, <2>2, RollBackKeeps, ApplyKeeps, AdoptKeeps, RecoverKeeps, RestoredKeeps,
       SaveHeaderKeeps, SaveBodyKeeps, SaveIndexKeeps, FinalizeKeeps DEF CallStep
<1>4. CASE UNCHANGED vars
  <2>1. DbTypeOK' /\ LedgerInv' /\ (TopRowMissing' <=> TopRowMissing)
    BY <1>4, LedgerUnchanged, TypeSplit DEF IInv, vars
  <2>2. CallTypeOK'
    BY <1>4, TypeSplit DEF IInv, CallTypeOK, vars, callVars
  <2>3. PhaseInv'
    BY <1>4, <2>1 DEF IInv, PhaseInv, SavingBlock, BackupAtHeight, HeadersVerify, ForkHeight,
                      ForkBlock, vars, callVars, dbVars
  <2> QED
    BY <2>1, <2>2, <2>3, TypeSplit DEF IInv, TypeOK, CallTypeOK
<1> QED
  BY <1>1, <1>2, <1>3, <1>4, StepBackKeeps, OperatorKeeps, CrashKeeps, BootKeeps
     DEF Next, SteadyNext

\* The invariant behind the safety theorems holds of every reachable state.
THEOREM Invariance == ASSUME ShortBatches PROVE Spec => []IInv
<1>1. IInv /\ [Next]_vars => IInv'
  BY NextKeepsInv
<1> QED
  BY <1>1, InitInv, PTL DEF Spec

\* Type correctness of process_chain and its ledger.
THEOREM TypeCorrect == ASSUME ShortBatches PROVE Spec => []TypeOK
<1>1. IInv => TypeOK
  BY DEF IInv
<1> QED
  BY <1>1, Invariance, PTL

\* The height index is a linked chain with nothing above the executed state,
\* whatever calls, crashes, replays and operator deletes happened.
THEOREM IndexIsChain == ASSUME ShortBatches PROVE Spec => []CanonicalChain
<1>1. IInv => CanonicalChain
  BY DEF IInv, LedgerInv
<1> QED
  BY <1>1, Invariance, PTL

\* Every stored version of the account table, and the flat table, is the
\* canonical chain executed.
THEOREM StateIsChain == ASSUME ShortBatches PROVE Spec => []StateFollowsChain
<1>1. IInv => StateFollowsChain
  BY DEF IInv, LedgerInv
<1> QED
  BY <1>1, Invariance, PTL

\* A node that serves has a complete tip at or above its checkpoint.
THEOREM ReadyIsComplete == ASSUME ShortBatches PROVE Spec => []ReadyMeansComplete
<1>1. IInv => ReadyMeansComplete
  <2> SUFFICES ASSUME IInv, pc = "idle" PROVE IsBlockComplete(version) /\ finalized <= version
    BY DEF ReadyMeansComplete
  <2>1. DbTypeOK /\ LedgerInv /\ ~TopRowMissing
    BY TypeSplit DEF IInv, PhaseInv
  <2>2. CanonicalTop = version /\ version \in 0 .. CanonicalTop
    BY <2>1, RowsAreBlocks DEF CanonicalTop, LedgerInv
  <2> QED
    BY <2>1, <2>2 DEF IsBlockComplete, LedgerInv, CanonicalChain, BodiesPresent, CheckpointBelow
<1> QED
  BY <1>1, Invariance, PTL

---------------------------------------------------------------------------
\* Finality.

\* A rollback that passes the firewall, and one block back in particular, keeps
\* the rows up to the checkpoint.
LEMMA RollbackKeepsFinal ==
    ASSUME DbTypeOK, NEW current \in Heights, NEW target \in Int, RollbackState(current, target)
    PROVE  \A h \in 0 .. finalized : index'[h] = index[h]
<1>1. CASE target < current /\ RollbackAllowed(target)
  <2>1. index' = [h \in Heights |-> IF h \in (target + 1) .. current THEN NoBlock ELSE index[h]]
    BY <1>1 DEF RollbackState, DropBlocks, Orphaned
  <2>2. finalized \in Nat /\ finalized <= target /\ finalized <= MaxHeight /\ MaxHeight \in Nat
    BY <1>1, TreeAssumption DEF RollbackAllowed, DbTypeOK, Heights
  <2> QED
    BY <2>1, <2>2 DEF Heights
<1>2. CASE ~(target < current /\ RollbackAllowed(target))
  BY <1>2 DEF RollbackState, dbVars
<1> QED
  BY <1>1, <1>2

\* The one step a call takes that writes a row below the top is at the top.
LEMMA StepKeepsFinal ==
    ASSUME ShortBatches, IInv, Next, ~OperatorStep
    PROVE  \A h \in 0 .. finalized : index'[h] = index[h]
<1>1. /\ DbTypeOK /\ LedgerInv /\ PhaseInv /\ CallTypeOK
      /\ version \in Nat /\ version \in Heights /\ finalized \in Nat /\ finalized <= version
      /\ Heights \subseteq Nat /\ 0 .. finalized \subseteq Heights
  BY TypeSplit, TreeAssumption DEF IInv, LedgerInv, CheckpointBelow, DbTypeOK, Heights
<1>2. CASE \E B \in Batch : Reject(B) \/ Accept(B)
  BY <1>2 DEF Reject, Accept, dbVars
<1>3. CASE \E b \in Block : NewBlock(b)
  BY <1>3 DEF NewBlock
<1>4. CASE RollBack
  <2>1. tip \in Heights /\ fork \in Int
    BY <1>1, TreeAssumption DEF CallTypeOK, Heights
  <2>2. CASE UNCHANGED dbVars
    BY <2>2 DEF dbVars
  <2>3. CASE RollbackState(tip, fork)
    BY <1>1, <2>1, <2>3, RollbackKeepsFinal
  <2> QED
    BY <1>4, <2>2, <2>3 DEF RollBack
<1>5. CASE Apply
  <2>1. Executable(batch[pos]) /\ pos <= Len(batch) /\ pc = "apply"
        /\ index' = [index EXCEPT ![Height[batch[pos]]] = batch[pos]]
    BY <1>5 DEF Apply, Applies, CommitBlockAtomic
  <2>2. Height[batch[pos]] = version + 1
    BY <2>1, NextBlockHeight
  <2> QED
    BY <1>1, <2>1, <2>2 DEF DbTypeOK
<1>6. CASE ApplyFails \/ Deadline \/ Restored \/ Restart
  BY <1>6 DEF ApplyFails, Deadline, Restored, Restart, dbVars
<1>7. CASE Adopt
  <2>1. \A h \in 0 .. finalized : index[h] # NoBlock
    <3>1. ~TopRowMissing
      BY <1>1, <1>7 DEF PhaseInv, Adopt
    <3>2. CanonicalTop = version
      BY <3>1 DEF CanonicalTop
    <3> QED
      BY <1>1, <3>2, RowsAreBlocks, TreeAssumption DEF LedgerInv
  <2> QED
    BY <1>1, <1>7, <2>1 DEF Adopt
<1>8. CASE Recover
  <2>1. failedTip \in Heights /\ fork \in Int
    BY <1>1, TreeAssumption DEF CallTypeOK, Heights
  <2> QED
    BY <1>1, <1>8, <2>1, RollbackKeepsFinal DEF Recover
<1>9. CASE \E h \in Heights : Replay(h)
  BY <1>9 DEF Replay, dbVars
<1>10. CASE SaveHeader \/ SaveBody \/ Finalize \/ Crash \/ Healed
  BY <1>10 DEF SaveHeader, SaveBody, Finalize, Crash, Healed, dbVars
<1>11. CASE SaveIndex
  <2>1. index' = [index EXCEPT ![version] = IF @ = NoBlock THEN cur ELSE @] /\ TopRowMissing
    BY <1>1, <1>11 DEF SaveIndex, PutBlockHash, PhaseInv, SavingBlock
  <2>2. finalized < version
    BY <1>1, <2>1 DEF LedgerInv, CheckpointBelow
  <2> QED
    BY <1>1, <2>1, <2>2 DEF DbTypeOK
<1>12. CASE RestartForceHeal \/ Heal \/ StepBack
  <2>1. RollbackState(version, version - 1)
    BY <1>12 DEF RestartForceHeal, Heal, StepBack
  <2> QED
    BY <1>1, <2>1, RollbackKeepsFinal
<1> QED
  BY <1>2, <1>3, <1>4, <1>5, <1>6, <1>7, <1>8, <1>9, <1>10, <1>11, <1>12
     DEF Next, SteadyNext, CallStep, BootStep

\* A finalized block is replaced only by the operator's hand, or after a step
\* that lowered the checkpoint below it.
THEOREM FinalizedStays == ASSUME ShortBatches PROVE Spec => FinalizedIsFinal
<1>1. ASSUME IInv, [Next]_vars
      PROVE  [\A h \in 0 .. finalized : index'[h] = index[h] \/ OperatorStep]_vars
  BY <1>1, StepKeepsFinal
<1> QED
  BY <1>1, Invariance, PTL DEF Spec, FinalizedIsFinal
---------------------------------------------------------------------------
\* What the unlocked step back of HealRace cannot break.  The ledger itself does
\* break (the run HealRace), so the invariant here is much weaker than IInv: it
\* speaks of the height index, the checkpoint and how far above it a call in
\* progress writes, not of linked chains or account states.

RowTypeOK ==
    /\ index \in [Heights -> Block \cup {NoBlock}]
    /\ headers \subseteq Block
    /\ version \in Heights /\ finalized \in Heights
    /\ batch \in Batch \cup {<<>>}
    /\ pos \in Nat /\ fork \in Heights /\ tip \in Heights /\ failedTip \in Heights
    /\ backup \in [Heights -> Block \cup {NoBlock}]
    /\ cur \in Block \cup {NoBlock}
    /\ seen \in Heights \cup {NoHeight} /\ seen # 0

\* Every row is a block of its own height, linked below or not.
RowsAtHeight == \A h \in Heights : index[h] # NoBlock => Height[index[h]] = h

\* A reorganisation works above the checkpoint until its last block is in, and
\* its recovery as well.
CallAbove ==
    /\ pc = "idle" => batch = <<>>
    /\ pc \in {"rollback", "apply", "recover", "replay"} => batch # <<>>
    /\ pc \in {"rollback", "apply"} => HeadersVerify(batch) /\ fork = ForkHeight(batch)
    /\ pc = "rollback" => pos = 1 /\ finalized <= fork
    /\ pc = "apply" => /\ pos \in 1 .. Len(batch) + 1
                       /\ pos <= Len(batch) => finalized <= fork
                       /\ \A i \in 1 .. pos - 1 : Height[batch[i]] = fork + i
    /\ pc = "recover" => finalized <= fork
    /\ pc = "replay" => finalized < pos
    /\ pc \in {"header", "body", "index", "finalize"} =>
          cur # NoBlock /\ (batch # <<>> => finalized < pos /\ Height[cur] = pos - 1)

RaceInv == RowTypeOK /\ RowsAtHeight /\ finalized <= version /\ CallAbove /\ BackupAtHeight

---------------------------------------------------------------------------
\* Heights are numbers.
LEMMA RaceNumbers ==
    ASSUME RaceInv
    PROVE  /\ MaxHeight \in Nat /\ Heights \subseteq Nat
           /\ version \in Nat /\ finalized \in Nat /\ fork \in Nat /\ tip \in Nat /\ failedTip \in Nat
           /\ 0 .. finalized \subseteq Heights
BY TreeAssumption DEF RaceInv, RowTypeOK, Heights

\* A rollback, whatever it takes the current version to be, either does nothing
\* or empties rows above the checkpoint and puts the version on the target.
LEMMA RaceRollback ==
    ASSUME RaceInv, NEW current \in Heights, NEW target \in Heights, RollbackState(current, target)
    PROVE  /\ finalized' = finalized /\ finalized <= version' /\ version' \in Heights
           /\ index' \in [Heights -> Block \cup {NoBlock}] /\ headers' \subseteq Block
           /\ RowsAtHeight'
           /\ \A h \in 0 .. finalized : index'[h] = index[h]
<1>1. CASE target < current /\ RollbackAllowed(target)
  <2>1. /\ index' = [h \in Heights |-> IF h \in (target + 1) .. current THEN NoBlock ELSE index[h]]
        /\ headers' \subseteq headers /\ version' = target /\ finalized' = finalized
    BY <1>1 DEF RollbackState, DropBlocks, Orphaned
  <2>2. finalized <= target
    BY <1>1 DEF RollbackAllowed
  <2>3. \A h \in 0 .. finalized : index'[h] = index[h]
    BY <2>1, <2>2, RaceNumbers
  <2>4. RowsAtHeight'
    BY <2>1 DEF RaceInv, RowsAtHeight
  <2> QED
    BY <2>1, <2>2, <2>3, <2>4 DEF RaceInv, RowTypeOK
<1>2. CASE ~(target < current /\ RollbackAllowed(target))
  BY <1>2 DEF RollbackState, dbVars, RaceInv, RowTypeOK, RowsAtHeight
<1> QED
  BY <1>1, <1>2

\* The next block of a batch goes right above the block before it.
LEMMA RaceNextHeight ==
    ASSUME RaceInv, pc = "apply", pos <= Len(batch), Executable(batch[pos])
    PROVE  /\ batch \in Batch /\ batch \in Seq(Block) /\ Len(batch) \in Nat
           /\ pos \in 1 .. Len(batch) /\ batch[pos] \in Block
           /\ Height[batch[pos]] = fork + pos
<1> DEFINE b == batch[pos]
<1>1. /\ batch \in Batch /\ HeadersVerify(batch) /\ fork = ForkHeight(batch)
      /\ pos \in 1 .. Len(batch) + 1
      /\ \A i \in 1 .. pos - 1 : Height[batch[i]] = fork + i
  BY DEF RaceInv, CallAbove, RowTypeOK
<1>2. batch \in Seq(Block) /\ Len(batch) \in Nat
  BY <1>1, BatchAssumption
<1>3. pos \in 1 .. Len(batch) /\ b \in Block
  BY <1>1, <1>2
<1>4. Height[Parent[b]] = Height[b] - 1 /\ Height[b] \in Nat
  <2> HIDE DEF b
  <2>1. Height[b] - 1 \in Heights /\ index[Height[b] - 1] = Parent[b]
    <3> USE DEF b
    <3>1. Height[b] > 0 /\ index[Height[b] - 1] = Parent[b]
      BY DEF Executable
    <3>2. Height[b] \in Heights
      BY <1>3, TreeAssumption
    <3> QED
      BY <3>1, <3>2, TreeAssumption DEF Heights
  <2>2. Parent[b] # NoBlock
    BY <1>3, TreeAssumption
  <2>3. Height[b] \in Nat
    BY <1>3, TreeAssumption DEF Heights
  <2> QED
    BY <2>1, <2>2, <2>3 DEF RaceInv, RowsAtHeight
<1>5. Height[Parent[b]] = fork + pos - 1
  <2>1. CASE pos = 1
    BY <1>1, <1>3, <2>1, RaceNumbers DEF ForkHeight, ForkBlock
  <2>2. CASE pos > 1
    <3>1. Parent[b] = batch[pos - 1]
      BY <1>1, <1>3, <2>2 DEF HeadersVerify
    <3> QED
      BY <1>1, <1>2, <1>3, <3>1, <2>2, RaceNumbers
  <2> QED
    BY <1>3, <2>1, <2>2
<1>6. Height[b] = fork + pos
  <2> HIDE DEF b
  <2>1. pos \in Nat
    BY <1>2, <1>3
  <2> QED
    BY SMTT(30), <1>4, <1>5, <2>1, RaceNumbers
<1> QED
  BY <1>1, <1>2, <1>3, <1>6

\* A call that returns leaves nothing behind.
LEMMA RaceAnswer ==
    ASSUME RaceInv, NEW s, Answer(s), UNCHANGED seen,
           index' \in [Heights -> Block \cup {NoBlock}], headers' \subseteq Block, RowsAtHeight',
           version' \in Heights, finalized' \in Heights, finalized' <= version'
    PROVE  RaceInv'
<1>1. /\ pc' = "idle" /\ batch' = <<>> /\ pos' = 0 /\ fork' = 0 /\ tip' = 0 /\ failedTip' = 0
      /\ backup' = NoBackup /\ cur' = NoBlock
  BY DEF Answer, ClearCall
<1>2. RowTypeOK'
  BY <1>1, TreeAssumption DEF RaceInv, RowTypeOK, NoBackup, Heights
<1>3. CallAbove' /\ BackupAtHeight'
  BY <1>1 DEF CallAbove, BackupAtHeight, NoBackup
<1> QED
  BY <1>2, <1>3 DEF RaceInv

---------------------------------------------------------------------------
\* The invariant is kept, and with it no finalized row is replaced.

Keeps == RaceInv' /\ \A h \in 0 .. finalized : index[h] # NoBlock => index'[h] = index[h]

LEMMA RaceInitially == RaceInit => RaceInv
BY TreeAssumption
   DEF RaceInit, Init, DbInit, CallInit, RaceInv, RowTypeOK, RowsAtHeight, CallAbove, BackupAtHeight,
       NoBackup, Heights, NoHeight

LEMMA RaceRejectKeeps == ASSUME RaceInv, NEW B \in Batch, Reject(B), UNCHANGED seen PROVE Keeps
BY RaceAnswer DEF Reject, dbVars, Keeps, RaceInv, RowTypeOK, RowsAtHeight

LEMMA RaceAcceptKeeps == ASSUME RaceInv, NEW B \in Batch, Accept(B), UNCHANGED seen PROVE Keeps
<1>1. /\ pc' = "rollback" /\ batch' = B /\ pos' = 1 /\ fork' = ForkHeight(B) /\ tip' = version
      /\ failedTip' = ForkHeight(B)
      /\ UNCHANGED <<index, headers, version, backup, cur, seen>>
      /\ Verdict(B) = "reorg"
      /\ IF DeepReorg(B) THEN ForceSetFinalizedHeight(ForkHeight(B)) ELSE UNCHANGED finalized
  BY DEF Accept
<1>2. B \in Seq(Block) /\ B # <<>> /\ Len(B) \in Nat \ {0} /\ B[1] \in Block
  BY BatchAssumption
<1>3. ForkHeight(B) \in Heights /\ HeadersVerify(B)
  <2>1. ForkBlock(B) \in Block
    BY <1>2, TreeAssumption DEF ForkBlock
  <2> QED
    BY <1>1, <2>1, TreeAssumption DEF ForkHeight, Verdict
<1>4. finalized' \in Heights /\ finalized' <= version /\ finalized' <= ForkHeight(B)
  BY <1>1, <1>3, RaceNumbers DEF DeepReorg, ForceSetFinalizedHeight, RaceInv, RowTypeOK
<1>5. RowTypeOK' /\ RowsAtHeight' /\ BackupAtHeight'
  BY <1>1, <1>3, <1>4 DEF RaceInv, RowTypeOK, RowsAtHeight, BackupAtHeight
<1>6. CallAbove'
  BY <1>1, <1>2, <1>3, <1>4 DEF CallAbove, HeadersVerify, ForkHeight, ForkBlock
<1> QED
  BY <1>1, <1>4, <1>5, <1>6 DEF RaceInv, Keeps

LEMMA RaceRollBackKeeps == ASSUME RaceInv, RollBack, UNCHANGED seen PROVE Keeps
<1>1. CASE Answer("internal") /\ UNCHANGED dbVars
  BY <1>1, RaceAnswer DEF dbVars, Keeps, RaceInv, RowTypeOK, RowsAtHeight
<1>2. CASE ~(Answer("internal") /\ UNCHANGED dbVars)
  <2>1. /\ pc = "rollback" /\ pc' = "apply" /\ RollbackState(tip, fork)
        /\ backup' = [h \in Heights |-> IF h \in (fork + 1) .. tip /\ index[h] \in headers
                                        THEN index[h] ELSE NoBlock]
        /\ UNCHANGED <<batch, pos, fork, tip, failedTip, cur, seen>>
    BY <1>2 DEF RollBack
  <2>2. /\ finalized' = finalized /\ finalized <= version' /\ version' \in Heights
        /\ index' \in [Heights -> Block \cup {NoBlock}] /\ headers' \subseteq Block
        /\ RowsAtHeight'
        /\ \A h \in 0 .. finalized : index'[h] = index[h]
    BY <2>1, RaceRollback DEF RaceInv, RowTypeOK
  <2>3. /\ HeadersVerify(batch) /\ fork = ForkHeight(batch) /\ pos = 1 /\ finalized <= fork
        /\ batch \in Batch /\ batch # <<>>
    BY <2>1 DEF RaceInv, CallAbove, RowTypeOK
  <2>4. Len(batch) \in Nat
    BY <2>3, BatchAssumption
  <2>5. backup' \in [Heights -> Block \cup {NoBlock}] /\ BackupAtHeight'
    BY <2>1 DEF RaceInv, RowTypeOK, RowsAtHeight, BackupAtHeight
  <2>6. RowTypeOK'
    BY <2>1, <2>2, <2>5 DEF RaceInv, RowTypeOK
  <2>7. CallAbove'
    BY <2>1, <2>2, <2>3, <2>4 DEF CallAbove, HeadersVerify, ForkHeight, ForkBlock
  <2> QED
    BY <2>2, <2>5, <2>6, <2>7 DEF RaceInv, Keeps
<1> QED
  BY <1>1, <1>2

\* A committed block is above the checkpoint; the checkpoint stays at or below
\* the fork while blocks follow, for a batch is short.
LEMMA RaceApplyKeeps == ASSUME ShortBatches, RaceInv, Apply, UNCHANGED seen PROVE Keeps
<1> DEFINE b == batch[pos]
<1>1. /\ pc = "apply" /\ pos <= Len(batch) /\ Executable(b)
      /\ index' = [index EXCEPT ![Height[b]] = b] /\ headers' = headers \cup {b}
      /\ version' = Height[b] /\ failedTip' = Height[b]
      /\ finalized' = SaturatingSub(Height[b], FinalityDepth)
      /\ pos' = pos + 1 /\ UNCHANGED <<pc, batch, fork, tip, backup, cur, seen>>
  BY DEF Apply, Applies, CommitBlockAtomic, WriteStateBatch, PutHeader
<1>2. /\ batch \in Batch /\ Len(batch) \in Nat /\ pos \in 1 .. Len(batch) /\ b \in Block
      /\ Height[b] = fork + pos
  BY <1>1, RaceNextHeight
<1>3. /\ HeadersVerify(batch) /\ fork = ForkHeight(batch) /\ batch # <<>> /\ finalized <= fork
      /\ \A i \in 1 .. pos - 1 : Height[batch[i]] = fork + i
  BY <1>1 DEF RaceInv, CallAbove
<1> HIDE DEF b
<1>4. Height[b] \in Heights /\ Height[b] \in Nat
  BY <1>2, TreeAssumption DEF Heights
<1>5. finalized' \in Heights /\ finalized' <= version'
  BY SMTT(30), <1>1, <1>4, RaceNumbers, FinalityDepthAssumption DEF SaturatingSub, Heights
<1>6. pos' <= Len(batch) => finalized' <= fork
  <2>1. Len(batch) <= FinalityDepth + 1
    BY <1>2 DEF ShortBatches
  <2> QED
    BY <1>1, <1>2, <2>1, RaceNumbers, FinalityDepthAssumption DEF SaturatingSub
<1>7. \A i \in 1 .. pos' - 1 : Height[batch[i]] = fork + i
  BY <1>1, <1>2, <1>3 DEF b
<1>8. RowTypeOK' /\ RowsAtHeight' /\ BackupAtHeight'
  <2>1. index' \in [Heights -> Block \cup {NoBlock}] /\ headers' \subseteq Block /\ RowsAtHeight'
    BY <1>1, <1>2, <1>4 DEF RaceInv, RowTypeOK, RowsAtHeight
  <2>2. pos' \in Nat
    BY <1>1, <1>2
  <2> QED
    BY <1>1, <1>2, <1>4, <1>5, <2>1, <2>2 DEF RaceInv, RowTypeOK, BackupAtHeight
<1>9. CallAbove'
  <2>1. HeadersVerify(batch)' /\ ForkHeight(batch)' = ForkHeight(batch)
    BY <1>1, <1>3 DEF HeadersVerify, ForkHeight, ForkBlock
  <2>2. pos' \in 1 .. Len(batch') + 1
    BY <1>1, <1>2
  <2> QED
    BY <1>1, <1>3, <1>6, <1>7, <2>1, <2>2 DEF CallAbove
<1>10. \A h \in 0 .. finalized : index'[h] = index[h]
  BY <1>1, <1>2, <1>3, RaceNumbers DEF RaceInv, RowTypeOK
<1> QED
  BY <1>5, <1>8, <1>9, <1>10 DEF RaceInv, Keeps

LEMMA RaceLoopLeftKeeps == ASSUME RaceInv, ApplyFails \/ Deadline, UNCHANGED seen PROVE Keeps
<1>1. /\ pc = "apply" /\ pos <= Len(batch) /\ pc' = "recover"
      /\ UNCHANGED <<index, headers, version, finalized, batch, pos, fork, tip, failedTip, backup, cur, seen>>
  BY DEF ApplyFails, Deadline, dbVars, callVars
<1>2. RowTypeOK' /\ RowsAtHeight' /\ BackupAtHeight'
  BY <1>1 DEF RaceInv, RowTypeOK, RowsAtHeight, BackupAtHeight
<1>3. CallAbove'
  BY <1>1 DEF RaceInv, CallAbove
<1> QED
  BY <1>1, <1>2, <1>3 DEF RaceInv, Keeps

\* commit_block_hash fills empty rows only.
LEMMA RaceAdoptKeeps == ASSUME RaceInv, Adopt, UNCHANGED seen PROVE Keeps
<1> DEFINE At(h) == \E i \in 1 .. Len(batch) : Height[batch[i]] = h
           Fill(h) == batch[CHOOSE i \in 1 .. Len(batch) : Height[batch[i]] = h]
<1>1. /\ pc = "apply" /\ pos > Len(batch) /\ Answer("adopted")
      /\ index' = [h \in Heights |-> IF index[h] = NoBlock /\ At(h) THEN Fill(h) ELSE index[h]]
      /\ SetFinalizedHeight(SaturatingSub(Height[batch[Len(batch)]], FinalityDepth))
      /\ headers' = headers /\ version' = version
  BY DEF Adopt
<1>2. batch \in Seq(Block) /\ batch # <<>>
  BY <1>1, BatchAssumption DEF RaceInv, RowTypeOK, CallAbove
<1>3. \A h : At(h) => Fill(h) \in Block /\ Height[Fill(h)] = h
  BY <1>2
<1>4. index' \in [Heights -> Block \cup {NoBlock}] /\ RowsAtHeight'
  <2> HIDE DEF At, Fill
  <2> QED
    BY <1>1, <1>3 DEF RaceInv, RowTypeOK, RowsAtHeight
<1>5. finalized' \in Heights /\ finalized' <= version'
  <2>1. batch[Len(batch)] \in Block
    BY <1>2
  <2>2. Height[batch[Len(batch)]] \in Nat
    BY <2>1, TreeAssumption DEF Heights
  <2>3. SaturatingSub(Height[batch[Len(batch)]], FinalityDepth) \in Nat
    BY <2>2, SaturatingSubBounds, FinalityDepthAssumption
  <2> QED
    BY <1>1, <2>3, RaceNumbers, FinalityDepthAssumption DEF SetFinalizedHeight, RaceInv, RowTypeOK, Heights
<1>6. RaceInv'
  BY <1>1, <1>4, <1>5, RaceAnswer DEF RaceInv, RowTypeOK
<1> QED
  BY <1>1, <1>6, RaceNumbers DEF Keeps

LEMMA RaceRecoverKeeps == ASSUME RaceInv, Recover, UNCHANGED seen PROVE Keeps
<1>1. /\ pc = "recover" /\ pc' = "replay" /\ RollbackState(failedTip, fork) /\ pos' = fork + 1
      /\ UNCHANGED <<batch, fork, tip, failedTip, backup, cur, seen>>
  BY DEF Recover
<1>2. /\ finalized' = finalized /\ finalized <= version' /\ version' \in Heights
      /\ index' \in [Heights -> Block \cup {NoBlock}] /\ headers' \subseteq Block
      /\ RowsAtHeight'
      /\ \A h \in 0 .. finalized : index'[h] = index[h]
  BY <1>1, RaceRollback DEF RaceInv, RowTypeOK
<1>3. RowTypeOK' /\ BackupAtHeight'
  BY <1>1, <1>2, RaceNumbers DEF RaceInv, RowTypeOK, BackupAtHeight
<1>4. CallAbove'
  BY <1>1, <1>2, RaceNumbers DEF RaceInv, CallAbove
<1> QED
  BY <1>2, <1>3, <1>4 DEF RaceInv, Keeps

LEMMA RaceReplayKeeps == ASSUME RaceInv, NEW h \in Heights, Replay(h), UNCHANGED seen PROVE Keeps
<1>1. CASE ~Executable(backup[h])
  BY <1>1, RaceAnswer DEF Replay, dbVars, Keeps, RaceInv, RowTypeOK, RowsAtHeight
<1>2. CASE Executable(backup[h])
  <2>1. /\ pc = "replay" /\ h >= pos /\ backup[h] # NoBlock
        /\ version' = Height[backup[h]] /\ cur' = backup[h] /\ pos' = h + 1 /\ pc' = "header"
        /\ UNCHANGED <<index, headers, finalized, batch, fork, tip, failedTip, backup, seen>>
    BY <1>2 DEF Replay, NextReplay, ToReplay, WriteStateBatch
  <2>2. Height[backup[h]] = h /\ backup[h] \in Block /\ finalized < pos /\ pos \in Nat /\ h \in Nat
    BY <2>1, RaceNumbers DEF RaceInv, RowTypeOK, CallAbove, BackupAtHeight
  <2>3. finalized < pos' /\ finalized <= version' /\ Height[cur'] = pos' - 1
    BY <2>1, <2>2, RaceNumbers
  <2>4. RowTypeOK' /\ RowsAtHeight' /\ BackupAtHeight'
    BY <2>1, <2>2 DEF RaceInv, RowTypeOK, RowsAtHeight, BackupAtHeight
  <2>5. CallAbove'
    BY <2>1, <2>2, <2>3 DEF CallAbove
  <2> QED
    BY <2>1, <2>3, <2>4, <2>5 DEF RaceInv, Keeps
<1> QED
  BY <1>1, <1>2

LEMMA RaceRestoredKeeps == ASSUME RaceInv, Restored, UNCHANGED seen PROVE Keeps
BY RaceAnswer DEF Restored, dbVars, Keeps, RaceInv, RowTypeOK, RowsAtHeight

LEMMA RaceNewBlockKeeps == ASSUME RaceInv, NEW b \in Block, NewBlock(b), UNCHANGED seen PROVE Keeps
<1>1. /\ pc = "idle" /\ Height[b] = version + 1 /\ version' = Height[b] /\ cur' = b /\ pc' = "header"
      /\ UNCHANGED <<index, headers, finalized, batch, pos, fork, tip, failedTip, backup, seen>>
  BY DEF NewBlock, WriteStateBatch
<1>2. Height[b] \in Heights
  BY TreeAssumption
<1>3. RowTypeOK' /\ RowsAtHeight' /\ BackupAtHeight' /\ finalized' <= version'
  BY <1>1, <1>2, RaceNumbers DEF RaceInv, RowTypeOK, RowsAtHeight, BackupAtHeight
<1>4. CallAbove'
  BY <1>1, TreeAssumption DEF RaceInv, CallAbove
<1> QED
  BY <1>1, <1>3, <1>4 DEF RaceInv, Keeps

\* The four rows of a single block: the index row is written only where none is.
LEMMA RaceSaveKeeps == ASSUME RaceInv, SaveHeader \/ SaveBody \/ SaveIndex, UNCHANGED seen PROVE Keeps
<1>1. /\ pc \in {"header", "body", "index"} /\ pc' \in {"body", "index", "finalize"}
      /\ UNCHANGED <<version, finalized, batch, pos, fork, tip, failedTip, backup, cur, seen>>
  BY DEF SaveHeader, SaveBody, SaveIndex, callVars
<1>2. cur \in Block
  BY <1>1 DEF RaceInv, RowTypeOK, CallAbove
<1>3. headers' \subseteq Block
  BY <1>2 DEF SaveHeader, SaveBody, SaveIndex, PutHeader, RaceInv, RowTypeOK
<1>4. index' = index \/ index' = [index EXCEPT ![Height[cur]] = IF @ = NoBlock THEN cur ELSE @]
  BY DEF SaveHeader, SaveBody, SaveIndex, PutBlockHash
<1>5. /\ index' \in [Heights -> Block \cup {NoBlock}] /\ RowsAtHeight'
      /\ \A h \in 0 .. finalized : index[h] # NoBlock => index'[h] = index[h]
  <2>1. Height[cur] \in Heights
    BY <1>2, TreeAssumption
  <2> QED
    BY SMTT(30), <1>2, <1>4, <2>1, RaceNumbers DEF RaceInv, RowTypeOK, RowsAtHeight
<1>6. RowTypeOK' /\ BackupAtHeight'
  BY <1>1, <1>3, <1>5 DEF RaceInv, RowTypeOK, BackupAtHeight
<1>7. CallAbove'
  BY <1>1 DEF RaceInv, CallAbove
<1> QED
  BY <1>1, <1>5, <1>6, <1>7 DEF RaceInv, Keeps

LEMMA RaceFinalizeKeeps == ASSUME RaceInv, Finalize, UNCHANGED seen PROVE Keeps
<1>1. /\ pc = "finalize" /\ UNCHANGED <<index, headers, version, seen>>
      /\ SetFinalizedHeight(SaturatingSub(Height[cur], FinalityDepth))
  BY DEF Finalize
<1>2. Height[cur] \in Nat
  BY <1>1, TreeAssumption DEF RaceInv, RowTypeOK, CallAbove, Heights
<1>3. SaturatingSub(Height[cur], FinalityDepth) \in Nat
      /\ SaturatingSub(Height[cur], FinalityDepth) <= Height[cur]
  BY <1>2, SaturatingSubBounds, FinalityDepthAssumption
<1>4. finalized' \in Heights /\ finalized' <= version'
  BY <1>1, <1>3, RaceNumbers, FinalityDepthAssumption DEF SetFinalizedHeight, RaceInv, RowTypeOK, Heights
<1>5. CASE batch = <<>>
  BY <1>1, <1>4, <1>5, RaceAnswer DEF Finalize, Keeps, RaceInv, RowTypeOK, RowsAtHeight
<1>6. CASE batch # <<>>
  <2>1. pc' = "replay" /\ cur' = NoBlock /\ UNCHANGED <<batch, pos, fork, tip, failedTip, backup>>
    BY <1>6 DEF Finalize
  <2>2. finalized' < pos'
    <3>1. finalized < pos /\ Height[cur] = pos - 1 /\ pos \in Nat
      BY <1>1, <1>6 DEF RaceInv, CallAbove, RowTypeOK
    <3> QED
      BY <1>1, <1>3, <2>1, <3>1, RaceNumbers DEF SetFinalizedHeight
  <2>3. RowTypeOK' /\ RowsAtHeight' /\ BackupAtHeight'
    BY <1>1, <1>4, <2>1 DEF RaceInv, RowTypeOK, RowsAtHeight, BackupAtHeight
  <2>4. CallAbove'
    BY <1>6, <2>1, <2>2 DEF CallAbove
  <2> QED
    BY <1>1, <1>4, <2>3, <2>4 DEF RaceInv, Keeps
<1> QED
  BY <1>5, <1>6

\* The step back, with a version of this moment or of an earlier one, in the
\* middle of whatever call.
LEMMA RaceStepBackKeeps ==
    ASSUME RaceInv, NEW current \in Heights, current # 0, RollbackState(current, current - 1),
           UNCHANGED <<pc, callVars>>, seen' \in {seen, NoHeight}
    PROVE  Keeps
<1>1. current - 1 \in Heights
  BY RaceNumbers DEF Heights
<1>2. /\ finalized' = finalized /\ finalized <= version' /\ version' \in Heights
      /\ index' \in [Heights -> Block \cup {NoBlock}] /\ headers' \subseteq Block
      /\ RowsAtHeight'
      /\ \A h \in 0 .. finalized : index'[h] = index[h]
  BY <1>1, RaceRollback
<1>3. UNCHANGED <<pc, batch, pos, fork, tip, failedTip, backup, cur>>
  BY DEF callVars
<1>4. RowTypeOK' /\ BackupAtHeight'
  BY <1>2, <1>3 DEF RaceInv, RowTypeOK, BackupAtHeight, NoHeight
<1>5. CallAbove'
  BY <1>2, <1>3 DEF RaceInv, CallAbove, HeadersVerify, ForkHeight, ForkBlock
<1> QED
  BY <1>2, <1>4, <1>5 DEF RaceInv, Keeps

LEMMA RaceStepKeeps == ASSUME ShortBatches, RaceInv, [RaceNext]_raceVars PROVE Keeps \/ UNCHANGED raceVars
<1>1. CASE SteadyNext /\ UNCHANGED seen
  <2>1. CASE StepBack
    <3>1. version \in Heights /\ version # 0
      BY <2>1, RaceNumbers DEF StepBack, RaceInv, RowTypeOK
    <3> QED
      BY <1>1, <2>1, <3>1, RaceStepBackKeeps DEF StepBack
  <2>2. CASE CallStep
    BY <1>1, <2>2, RaceRollBackKeeps, RaceApplyKeeps, RaceLoopLeftKeeps, RaceAdoptKeeps, RaceRecoverKeeps,
       RaceRestoredKeeps, RaceReplayKeeps, RaceSaveKeeps, RaceFinalizeKeeps DEF CallStep
  <2> QED
    BY <1>1, <2>1, <2>2, RaceRejectKeeps, RaceAcceptKeeps, RaceNewBlockKeeps DEF SteadyNext
<1>2. CASE ReadVersion
  <2>1. seen' = version /\ version \in Heights /\ version # 0
        /\ UNCHANGED <<index, headers, version, finalized, pc, batch, pos, fork, tip, failedTip, backup, cur>>
    BY <1>2, RaceNumbers DEF ReadVersion, RaceInv, RowTypeOK, vars, dbVars, callVars
  <2>2. RowTypeOK' /\ RowsAtHeight' /\ BackupAtHeight'
    BY <2>1 DEF RaceInv, RowTypeOK, RowsAtHeight, BackupAtHeight
  <2>3. CallAbove'
    BY <2>1 DEF RaceInv, CallAbove, HeadersVerify, ForkHeight, ForkBlock
  <2> QED
    BY <2>1, <2>2, <2>3 DEF RaceInv, Keeps
<1>3. CASE StaleStepBack
  BY <1>3, RaceStepBackKeeps DEF StaleStepBack, RaceInv, RowTypeOK
<1> QED
  BY <1>1, <1>2, <1>3 DEF RaceNext

\* For every block tree, every set of short batches and any version read at any
\* time: the unlocked RollbackState of the Go bridge breaks the ledger above the
\* checkpoint but replaces or deletes no row at or below it.
THEOREM RaceSparesFinalized == ASSUME ShortBatches PROVE RaceSpec => FinalizedNotReplaced
<1>1. ASSUME RaceInv, [RaceNext]_raceVars
      PROVE  RaceInv' /\ [\A h \in 0 .. finalized : index[h] # NoBlock => index'[h] = index[h]]_raceVars
  <2>1. CASE Keeps
    BY <2>1 DEF Keeps
  <2>2. CASE UNCHANGED raceVars
    <3>1. UNCHANGED <<index, headers, version, finalized, pc, batch, pos, fork, tip, failedTip, backup, cur, seen>>
      BY <2>2 DEF raceVars, vars, dbVars, callVars
    <3>2. RowTypeOK' /\ RowsAtHeight' /\ BackupAtHeight'
      BY <1>1, <3>1 DEF RaceInv, RowTypeOK, RowsAtHeight, BackupAtHeight
    <3>3. CallAbove'
      BY <1>1, <3>1 DEF RaceInv, CallAbove, HeadersVerify, ForkHeight, ForkBlock
    <3> QED
      BY <1>1, <2>2, <3>1, <3>2, <3>3 DEF RaceInv
  <2> QED
    BY <1>1, <2>1, <2>2, RaceStepKeeps
<1> QED
  BY <1>1, RaceInitially, PTL DEF RaceSpec, FinalizedNotReplaced

---------------------------------------------------------------------------
(***************************************************************************)
(* From here on: the weights ProcessChain compares, and the old blocks it  *)
(* backs up, replaces and replays.  What a crash between two row writes    *)
(* can leave behind, a header outside the index, is a fork point with a    *)
(* stale weight: the results about stored weights and about restoring are  *)
(* of runs without crashes (SteadySpec).                                   *)
(***************************************************************************)

---------------------------------------------------------------------------
\* The work of a batch.

\* One block more adds its difficulty; the work of no block is none.
LEMMA WorkGrows ==
    ASSUME NEW B \in Seq(Block)
    PROVE  /\ Work(B, 0) = 0
           /\ \A n \in 0 .. Len(B) : Work(B, n) \in Nat
           /\ \A n \in 1 .. Len(B) : Work(B, n) = Work(B, n - 1) + Diff[B[n]]
<1> DEFINE f == [i \in 1 .. Len(B) |-> Diff[B[i]]]
<1>1. Len(B) \in Nat /\ \A i \in 1 .. Len(B) : B[i] \in Block
  OBVIOUS
<1>2. \A i \in 1 .. Len(B) : f[i] \in Nat
  BY <1>1, TreeAssumption
<1>3. ASSUME NEW n \in 0 .. Len(B)
      PROVE  Work(B, n) = SumOver(f, 1 .. n)
  <2> DEFINE e == [i \in 1 .. n |-> Diff[B[i]]]
  <2>1. Work(B, n) = SumOver(e, 1 .. n)
    BY DEF Work, SumOver, MapThenSumSet, MapThenFoldSet
  <2>2. IsFiniteSet(1 .. n)
    BY <1>1, FS_Interval
  <2>3. \A i \in 1 .. n : f[i] \in Int /\ e[i] = f[i]
    BY <1>1, <1>2
  <2> HIDE DEF e, f
  <2>4. SumOver(e, 1 .. n) = SumOver(f, 1 .. n)
    BY <2>2, <2>3, SumOfEquals
  <2> QED
    BY <2>1, <2>4
<1>4. Work(B, 0) = 0
  <2>1. 1 .. 0 = {}
    OBVIOUS
  <2> HIDE DEF f
  <2> QED
    BY <1>1, <1>3, <2>1, SumOfNone
<1>5. ASSUME NEW n \in 0 .. Len(B)
      PROVE  Work(B, n) \in Nat
  <2>1. IsFiniteSet(1 .. n) /\ \A i \in 1 .. n : f[i] \in Nat
    BY <1>1, <1>2, FS_Interval
  <2> HIDE DEF f
  <2> QED
    BY <1>3, <2>1, SumOfNaturals
<1>6. ASSUME NEW n \in 1 .. Len(B)
      PROVE  Work(B, n) = Work(B, n - 1) + Diff[B[n]]
  <2> DEFINE S == 1 .. (n - 1)
  <2>1. IsFiniteSet(S) /\ n \notin S /\ S \cup {n} = 1 .. n
    <3>1. n \in Nat /\ n - 1 \in Int /\ n >= 1
      BY <1>1
    <3>2. n \notin S /\ S \cup {n} = 1 .. n
      BY <3>1
    <3> QED
      BY <3>1, <3>2, FS_Interval
  <2>2. (\A y \in S \cup {n} : f[y] \in Int) /\ f[n] = Diff[B[n]]
    BY <1>1, <1>2
  <2>3. n \in 0 .. Len(B) /\ n - 1 \in 0 .. Len(B)
    BY <1>1
  <2>4. Work(B, n) = SumOver(f, S \cup {n}) /\ Work(B, n - 1) = SumOver(f, S)
    BY <1>3, <2>1, <2>3
  <2> HIDE DEF f, S
  <2>5. SumOver(f, S \cup {n}) = SumOver(f, S) + f[n]
    BY <2>1, <2>2, SumOfOneMore
  <2> QED
    BY <2>2, <2>4, <2>5
<1> QED
  BY <1>4, <1>5, <1>6

---------------------------------------------------------------------------
\* What a call in its apply loop knows about weights.

\* The decision of the verdict, on what the call keeps of it.
Outweighs(new) ==
    IF before.deep
    THEN SaturatingSub(new, forkWeight) >= OverrideFactor * SaturatingSub(before.weight, forkWeight)
    ELSE new > before.weight

\* rolling_weight is the anchor's weight plus the work applied so far, and is
\* what the stored header of the top says.
WorkInv ==
    /\ pc \in {"rollback", "apply"} =>
          /\ rolling = forkWeight + Work(batch, pos - 1)
          /\ Outweighs(forkWeight + Work(batch, Len(batch)))
    /\ pc = "apply" /\ pos > 1 => weight[index[version]] = rolling

LEMMA WorkInvInit == Init => WorkInv
BY DEF Init, CallInit, WorkInv

LEMMA AcceptWork == ASSUME IInv, NEW B \in Batch, Accept(B) PROVE WorkInv'
<1>1. DbTypeOK /\ LedgerInv
  BY TypeSplit DEF IInv
<1>2. /\ B \in Seq(Block) /\ ForkBlock(B) \in Block /\ Verdict(B) = "reorg"
      /\ weight[ForkBlock(B)] \in Nat
  BY <1>1, AcceptedBatch DEF Accept, DbTypeOK
<1>3. /\ pc' = "rollback" /\ batch' = B /\ pos' = 1
      /\ forkWeight' = weight[ForkBlock(B)] /\ rolling' = weight[ForkBlock(B)]
      /\ before'.weight = TipWeight /\ before'.deep = DeepReorg(B)
  BY DEF Accept, AnchorWeight
<1>4. Work(B, 0) = 0
  BY <1>2, WorkGrows
<1>5. DeepReorg(B) => Overrides(B)
  BY <1>2 DEF Verdict
<1>6. ~DeepReorg(B) => Heavier(B)
  BY <1>2 DEF Verdict
<1>7. NewWeight(B) = forkWeight' + Work(B, Len(B))
  BY <1>3 DEF NewWeight
<1>8. Outweighs(forkWeight + Work(batch, Len(batch)))'
  BY <1>3, <1>5, <1>6, <1>7 DEF Outweighs, Overrides, Heavier
<1>9. rolling' = forkWeight' + Work(batch', pos' - 1)
  BY <1>2, <1>3, <1>4
<1> QED
  BY <1>3, <1>8, <1>9 DEF WorkInv

LEMMA RollBackWork == ASSUME IInv, WorkInv, RollBack PROVE WorkInv'
<1>1. pos = 1 /\ pc = "rollback"
  BY DEF IInv, PhaseInv, RollBack
<1>2. CASE pc' = "idle"
  BY <1>2 DEF WorkInv
<1>3. CASE UNCHANGED <<status, batch, pos, fork, forkWeight, tip, rolling, failedTip, cur, before>>
  BY <1>1, <1>3 DEF WorkInv, Outweighs
<1> QED
  BY <1>2, <1>3 DEF RollBack, Answer

LEMMA ApplyWork == ASSUME IInv, ShortBatches, WorkInv, Apply PROVE WorkInv'
<1> DEFINE b == batch[pos]
<1>1. /\ pc = "apply" /\ pos <= Len(batch) /\ Executable(b) /\ rolling' = rolling + Diff[b]
      /\ CommitBlockAtomic(b, rolling + Diff[b]) /\ pos' = pos + 1
      /\ UNCHANGED <<pc, batch, fork, forkWeight, before>>
  BY DEF Apply, Applies
<1>2. /\ batch \in Batch /\ b \in Block /\ Height[b] = version + 1
      /\ DbTypeOK /\ LedgerInv /\ ~TopRowMissing /\ rolling \in Nat /\ forkWeight \in Nat
      /\ pos \in 1 .. Len(batch) + 1
  BY <1>1, NextBlockHeight, TypeSplit DEF IInv, PhaseInv, CallTypeOK
<1>3. batch \in Seq(Block) /\ pos \in 1 .. Len(batch) /\ Len(batch) \in Nat
  BY <1>1, <1>2, BatchAssumption
<1>4. Diff[b] \in Nat
  <2> HIDE DEF b
  <2> QED
    BY <1>2, TreeAssumption
<1>5. Work(batch, pos) = Work(batch, pos - 1) + Diff[b] /\ Work(batch, pos - 1) \in Nat
  <2>1. pos - 1 \in 0 .. Len(batch)
    BY <1>3
  <2> QED
    BY <1>3, <2>1, WorkGrows
<1>6. rolling' = forkWeight' + Work(batch', pos' - 1)
  BY <1>1, <1>2, <1>3, <1>4, <1>5 DEF WorkInv
<1>7. index'[version'] = b
  <2>1. rolling + Diff[b] \in Nat
    BY <1>2, <1>4
  <2> HIDE DEF b
  <2> QED
    BY <1>1, <1>2, <2>1, CommitKeepsLedger
<1>8. weight'[b] = rolling'
  BY <1>1, <1>2 DEF CommitBlockAtomic, PutHeader, DbTypeOK
<1> QED
  BY <1>1, <1>6, <1>7, <1>8 DEF WorkInv, Outweighs

\* Every other step is outside the two phases, or leaves them.
LEMMA WorkStep == ASSUME ShortBatches, IInv, WorkInv, [Next]_vars PROVE WorkInv'
<1>1. CASE \E B \in Batch : Reject(B) \/ Accept(B)
  <2>1. ASSUME NEW B \in Batch, Reject(B) PROVE WorkInv'
    BY <2>1 DEF Reject, Answer, WorkInv
  <2> QED
    BY <1>1, <2>1, AcceptWork
<1>2. CASE \E b \in Block : NewBlock(b)
  BY <1>2 DEF NewBlock, WorkInv
<1>3. CASE RollBack
  BY <1>3, RollBackWork
<1>4. CASE Apply
  BY <1>4, ApplyWork
<1>5. CASE ApplyFails \/ Deadline \/ Recover \/ Restored \/ Adopt
  BY <1>5 DEF ApplyFails, Deadline, Recover, Restored, Adopt, Answer, WorkInv
<1>6. CASE \E h \in Heights : Replay(h)
  BY <1>6 DEF Replay, Answer, WorkInv
<1>7. CASE SaveHeader \/ SaveBody \/ SaveIndex \/ Finalize
  BY <1>7 DEF SaveHeader, SaveBody, SaveIndex, Finalize, Answer, WorkInv
<1>8. CASE StepBack \/ Crash \/ BootStep \/ OperatorStep
  BY <1>8 DEF StepBack, Crash, BootStep, Restart, RestartForceHeal, Heal, Healed, OperatorStep,
              ForceDelete, WorkInv
<1>9. CASE UNCHANGED vars
  BY <1>9 DEF vars, callVars, dbVars, WorkInv, Outweighs
<1> QED
  BY <1>1, <1>2, <1>3, <1>4, <1>5, <1>6, <1>7, <1>8, <1>9 DEF Next, SteadyNext, CallStep

---------------------------------------------------------------------------
\* Arithmetic of the override rule.

\* What is at least OverrideFactor times a gain is more than the gain, if there
\* is one to beat.
LEMMA FactorBeats ==
    ASSUME NEW k \in Nat \ {0, 1}, NEW x \in Int, NEW y \in Int
    PROVE  /\ x <= 0 => k * x <= 0
           /\ x > 0 /\ y >= k * x => y > x
OBVIOUS

\* A verdict kept through the apply loop is the claim about adoption.
LEMMA OutweighsWins ==
    ASSUME NEW new \in Nat, forkWeight \in Nat, before.weight \in Nat, new > forkWeight,
           Outweighs(new)
    PROVE  /\ new > before.weight
           /\ before.deep => new - forkWeight >= OverrideFactor * (before.weight - forkWeight)
<1> DEFINE k == OverrideFactor
           x == before.weight - forkWeight
           y == new - forkWeight
<1>1. k \in Nat \ {0, 1} /\ x \in Int /\ y \in Int /\ y > 0
  BY BatchAssumption
<1>2. CASE ~before.deep
  BY <1>2 DEF Outweighs
<1>3. CASE before.deep
  <2>1. SaturatingSub(new, forkWeight) = y
    BY DEF SaturatingSub
  <2>2. CASE x > 0
    <3>1. SaturatingSub(before.weight, forkWeight) = x
      BY <2>2 DEF SaturatingSub
    <3>2. y >= k * x
      BY <1>3, <2>1, <3>1 DEF Outweighs
    <3> HIDE DEF k, x, y
    <3>3. y > x
      BY <1>1, <2>2, <3>2, FactorBeats
    <3> QED
      BY <3>2, <3>3 DEF k, x, y
  <2>3. CASE x <= 0
    <3> HIDE DEF k, x, y
    <3>1. k * x <= 0 /\ y > x
      BY <1>1, <2>3, FactorBeats
    <3>2. y >= k * x
      <4>1. k * x \in Int
        BY <1>1
      <4> QED
        BY <1>1, <3>1, <4>1
    <3> QED
      BY <3>1, <3>2 DEF k, x, y
  <2> QED
    BY <1>1, <2>2, <2>3
<1> QED
  BY <1>2, <1>3

\* The step that adopts a chain.
LEMMA AdoptWins ==
    ASSUME IInv, WorkInv, Adopt
    PROVE  /\ TipWeight' > before.weight
           /\ before.deep =>
                 TipWeight' - forkWeight >= OverrideFactor * (before.weight - forkWeight)
<1>1. /\ DbTypeOK /\ LedgerInv /\ ~TopRowMissing /\ batch \in Batch /\ forkWeight \in Nat
      /\ before.weight \in Nat /\ pos \in 1 .. Len(batch) + 1 /\ pos > Len(batch)
      /\ rolling = forkWeight + Work(batch, pos - 1)
      /\ Outweighs(forkWeight + Work(batch, Len(batch)))
      /\ (pos > 1 => weight[index[version]] = rolling)
  BY TypeSplit DEF IInv, PhaseInv, CallTypeOK, Snapshot, WorkInv, Adopt
<1>2. batch \in Seq(Block) /\ Len(batch) \in Nat \ {0} /\ pos = Len(batch) + 1
  BY <1>1, BatchAssumption
<1>3. Work(batch, Len(batch)) \in Nat \ {0}
  <2>1. Len(batch) \in 1 .. Len(batch) /\ Len(batch) - 1 \in 0 .. Len(batch)
        /\ batch[Len(batch)] \in Block
    BY <1>2
  <2>2. Diff[batch[Len(batch)]] \in Nat \ {0}
    BY <2>1, TreeAssumption
  <2> QED
    BY <1>2, <2>1, <2>2, WorkGrows
<1>4. index' = index /\ headers' = headers /\ weight' = weight /\ version' = version
  BY AdoptKeepsRows DEF Adopt
<1>5. index[version] \in headers
  <2>1. version \in 0 .. CanonicalTop
    BY <1>1, TreeAssumption DEF CanonicalTop, DbTypeOK, Heights
  <2> QED
    BY <1>1, <2>1 DEF LedgerInv, CanonicalChain
<1>6. TipWeight' = forkWeight + Work(batch, Len(batch))
  BY <1>1, <1>2, <1>4, <1>5 DEF TipWeight
<1> DEFINE new == forkWeight + Work(batch, Len(batch))
<1>7. new \in Nat /\ new > forkWeight /\ Outweighs(new) /\ TipWeight' = new
  BY <1>1, <1>3, <1>6
<1> HIDE DEF new
<1> QED
  BY <1>1, <1>7, OutweighsWins

\* A chain is adopted only if it outweighs the one it replaces, whatever
\* crashes, rollbacks and replays lie before; one that replaces finalized blocks
\* carries OverrideFactor times their work.
THEOREM AdoptionNeedsWork == ASSUME ShortBatches PROVE Spec => AdoptedIsHeavier
<1>1. ASSUME IInv, WorkInv, [Next]_vars
      PROVE  [pc = "apply" /\ pc' = "idle" =>
                 /\ TipWeight' > before.weight
                 /\ before.deep =>
                      TipWeight' - forkWeight >= OverrideFactor * (before.weight - forkWeight)]_vars
  <2> SUFFICES ASSUME Next, pc = "apply", pc' = "idle"
               PROVE  Adopt
    BY <1>1, AdoptWins
  <2> QED
    BY DEF Next, SteadyNext, CallStep, BootStep, Reject, Accept, NewBlock, RollBack, Apply,
           ApplyFails, Deadline, Recover, Restored, Replay, SaveHeader, SaveBody, SaveIndex,
           Finalize, StepBack, OperatorStep, ForceDelete, Crash, Restart, RestartForceHeal,
           Heal, Healed
<1>2. IInv /\ WorkInv /\ [Next]_vars => WorkInv'
  BY WorkStep
<1>3. Init => WorkInv
  BY WorkInvInit
<1> QED
  BY <1>1, <1>2, <1>3, Invariance, PTL DEF Spec, AdoptedIsHeavier
---------------------------------------------------------------------------
\* Runs without crashes: stored weights, and the old chain a call can restore.

\* No header is stored but those of the rows and of the block being saved.
HeadersIndexed ==
    \A b \in headers : (pc \in {"body", "index"} => b # cur) => index[Height[b]] = b

\* Rows and the block being saved have been executed.
RowsExecuted ==
    /\ \A h \in 1 .. CanonicalTop : index[h] \in ValidBody
    /\ pc \in {"header", "body", "index"} => cur \in ValidBody

\* rolling_weight is the weight of the top, or will be once its header is in;
\* fork_point_weight is that of the fork.
RollingFollows ==
    /\ pc \in {"rollback", "apply", "recover"} => weight[index[fork]] = forkWeight
    /\ pc \in {"apply", "replay", "finalize"} => weight[index[version]] = rolling
    /\ pc = "rollback" => rolling = forkWeight
    /\ pc \in {"header", "body", "index"} => rolling = weight[index[version - 1]] + Diff[cur]
    /\ pc \in {"body", "index"} => weight[cur] = rolling

\* The block the old chain had at height h, from the fork to its tip.
OldBlock(h) == IF h = fork THEN index[fork] ELSE backup[h]

\* The backup is the old chain above the fork, with the states T and the weights
\* W it had.
OldChain(T, W) ==
    /\ fork <= tip
    /\ \A h \in (fork + 1) .. tip :
          /\ backup[h] \in ValidBody
          /\ Parent[backup[h]] = OldBlock(h - 1)
          /\ T[h] = ExecuteOn(backup[h], T[h - 1], T[h - 1])
          /\ W[h] = W[h - 1] + Diff[backup[h]]
    /\ \A h \in Heights : h \notin (fork + 1) .. tip => backup[h] = NoBlock
    /\ T[fork] = jmt[fork] /\ W[fork] = forkWeight
    /\ T[tip] = before.acc /\ W[tip] = before.weight /\ OldBlock(tip) = before.tip

Replaying == {"replay", "header", "body", "index", "finalize"}

\* A replay has rebuilt the old chain up to the executed version.
Rebuilt(T, W) ==
    /\ version \in fork .. tip
    /\ jmt[version] = T[version] /\ rolling = W[version]
    /\ IF pc = "replay" THEN index[version] = OldBlock(version)
       ELSE version > fork /\ cur = OldBlock(version)

RestoreInv ==
    /\ pc = "rollback" => /\ before.tip = index[version]
                          /\ before.weight = weight[index[version]]
                          /\ before.acc = acc
    /\ batch # <<>> /\ pc # "rollback" =>
          \E T \in [Heights -> State], W \in [Heights -> Nat] :
              OldChain(T, W) /\ (pc \in Replaying => Rebuilt(T, W))

SteadyInv == HeadersIndexed /\ RowsExecuted /\ WeightsAccumulate /\ RollingFollows /\ RestoreInv
---------------------------------------------------------------------------
\* What the ledger's writes do to rows, headers and weights.

\* The part of the invariant about a ledger on which nothing is being saved.
SoundRows ==
    /\ \A b \in headers : index[Height[b]] = b
    /\ \A h \in 1 .. CanonicalTop : index[h] \in ValidBody
    /\ WeightsAccumulate

\* Numbers every proof below needs.
LEMMA LedgerNumbers ==
    ASSUME DbTypeOK, LedgerInv
    PROVE  /\ version \in Nat /\ finalized \in Nat /\ MaxHeight \in Nat /\ version \in Heights
           /\ Heights \subseteq Nat /\ 0 .. version \subseteq Heights
           /\ CanonicalTop \in Nat /\ CanonicalTop <= version
           /\ ~TopRowMissing => CanonicalTop = version
           /\ TopRowMissing => CanonicalTop = version - 1
           /\ \A h \in 0 .. CanonicalTop : index[h] \in Block /\ index[h] \in headers
                                           /\ Height[index[h]] = h /\ weight[index[h]] \in Nat
BY RowsAreBlocks, TreeAssumption DEF DbTypeOK, LedgerInv, CanonicalChain, CanonicalTop, Heights

\* Rolling back keeps the rows, trees and weights up to the target, and leaves
\* no header behind.
LEMMA DropKeepsRows ==
    ASSUME DbTypeOK, LedgerInv, SoundRows,
           NEW target \in Heights, target < version,
           DropBlocks(version, target),
           finalized' \in Heights, finalized' <= target
    PROVE  /\ SoundRows'
           /\ \A h \in 0 .. target : /\ index'[h] = index[h] /\ jmt'[h] = jmt[h]
                                     /\ weight'[index[h]] = weight[index[h]]
<1> DEFINE gone == (target + 1) .. version
           dropped == {index[h] : h \in gone}
<1>0. /\ index' = [h \in Heights |-> IF h \in gone THEN NoBlock ELSE index[h]]
      /\ headers' = headers \ dropped
      /\ weight' = [b \in Block |-> IF b \in dropped THEN 0 ELSE weight[b]]
      /\ jmt' = [h \in Heights |-> IF h \in gone THEN Fresh ELSE jmt[h]]
  BY DEF DropBlocks, Orphaned
<1>1. /\ version \in Nat /\ Heights \subseteq Nat /\ 0 .. version \subseteq Heights
      /\ CanonicalTop \in Nat /\ CanonicalTop <= version /\ version - 1 <= CanonicalTop
      /\ \A h \in 0 .. CanonicalTop : index[h] \in Block /\ index[h] \in headers
                                      /\ Height[index[h]] = h /\ weight[index[h]] \in Nat
  BY LedgerNumbers
<1>2. target \in Nat /\ target <= CanonicalTop
  BY <1>1
<1>3. CanonicalTop' = target
  <2>1. DbTypeOK' /\ LedgerInv' /\ ~TopRowMissing' /\ version' = target
    BY DropKeepsLedger
  <2> QED
    BY <2>1 DEF CanonicalTop
<1>4. \A h \in 0 .. target : index[h] \notin dropped
  <2> SUFFICES ASSUME NEW k \in 0 .. target, NEW h \in gone, index[k] = index[h]
               PROVE  FALSE
    OBVIOUS
  <2>1. index[k] \in Block /\ Height[index[k]] = k
    BY <1>1, <1>2
  <2>2. h \in Heights /\ index[h] # NoBlock
    BY <1>1, <1>2, <2>1, TreeAssumption
  <2>3. h \in 0 .. CanonicalTop
    BY <2>2, RowsAreBlocks DEF LedgerInv
  <2>4. Height[index[h]] = h
    BY <1>1, <2>3
  <2> QED
    BY <1>1, <1>2, <2>1, <2>4
<1>5. \A h \in 0 .. target : /\ index'[h] = index[h] /\ jmt'[h] = jmt[h]
                             /\ weight'[index[h]] = weight[index[h]]
  <2> SUFFICES ASSUME NEW h \in 0 .. target
               PROVE  /\ index'[h] = index[h] /\ jmt'[h] = jmt[h]
                      /\ weight'[index[h]] = weight[index[h]]
    OBVIOUS
  <2>1. h \in Heights /\ h \notin gone /\ index[h] \in Block /\ index[h] \notin dropped
    BY <1>1, <1>2, <1>4
  <2> HIDE DEF gone, dropped
  <2> QED
    BY <1>0, <2>1
<1>6. \A b \in headers' : index'[Height[b]] = b
  <2> SUFFICES ASSUME NEW b \in headers, b \notin dropped
               PROVE  index'[Height[b]] = b
    BY <1>0
  <2>1. b \in Block /\ Height[b] \in Heights /\ index[Height[b]] = b
    BY TreeAssumption DEF SoundRows, DbTypeOK
  <2>2. Height[b] \notin gone
    BY <2>1
  <2> QED
    BY <1>0, <2>1, <2>2
<1>7. \A h \in 1 .. target : index'[h] \in ValidBody
  BY <1>1, <1>2, <1>5 DEF SoundRows
<1>8. \A h \in 1 .. target : weight'[index'[h]] = weight'[index'[h - 1]] + Diff[index'[h]]
  <2> SUFFICES ASSUME NEW h \in 1 .. target
               PROVE  weight'[index'[h]] = weight'[index'[h - 1]] + Diff[index'[h]]
    OBVIOUS
  <2>1. h \in 0 .. target /\ h - 1 \in 0 .. target /\ h \in 1 .. CanonicalTop
    BY <1>1, <1>2
  <2>2. weight[index[h]] = weight[index[h - 1]] + Diff[index[h]]
    BY <2>1 DEF SoundRows, WeightsAccumulate
  <2> QED
    BY <1>5, <2>1, <2>2
<1>9. SoundRows'
  BY <1>3, <1>6, <1>7, <1>8 DEF SoundRows, WeightsAccumulate
<1> QED
  BY <1>5, <1>9

\* A rollback to the fork or one block back, or nothing.
LEMMA RollbackKeepsRows ==
    ASSUME DbTypeOK, LedgerInv, SoundRows, ~TopRowMissing,
           NEW target \in Heights, target <= version, RollbackState(version, target)
    PROVE  /\ SoundRows'
           /\ \A h \in 0 .. target : /\ index'[h] = index[h] /\ jmt'[h] = jmt[h]
                                     /\ weight'[index[h]] = weight[index[h]]
<1>1. CASE target < version /\ RollbackAllowed(target)
  <2>1. DropBlocks(version, target) /\ finalized' = finalized /\ finalized <= target
        /\ finalized \in Heights
    BY <1>1 DEF RollbackState, RollbackAllowed, DbTypeOK
  <2> QED
    BY <1>1, <2>1, DropKeepsRows
<1>2. CASE ~(target < version /\ RollbackAllowed(target))
  BY <1>2 DEF RollbackState, dbVars, SoundRows, WeightsAccumulate, CanonicalTop, TopRowMissing
<1> QED
  BY <1>1, <1>2

\* The commit of a block on top, with its parent's weight and its own work.
LEMMA CommitKeepsRows ==
    ASSUME DbTypeOK, LedgerInv, SoundRows, ~TopRowMissing,
           NEW b \in Block, Executable(b), Height[b] = version + 1,
           NEW w \in Nat, w = weight[index[version]] + Diff[b], CommitBlockAtomic(b, w)
    PROVE  /\ SoundRows' /\ weight'[b] = w /\ index'[version'] = b
           /\ \A h \in 0 .. version : /\ index'[h] = index[h] /\ jmt'[h] = jmt[h]
                                      /\ weight'[index[h]] = weight[index[h]]
<1>1. /\ WriteStateBatch(b) /\ headers' = headers \cup {b}
      /\ weight' = [weight EXCEPT ![b] = w] /\ index' = [index EXCEPT ![version + 1] = b]
  BY DEF CommitBlockAtomic, PutHeader
<1>2. /\ version \in Nat /\ Heights \subseteq Nat /\ 0 .. version \subseteq Heights
      /\ CanonicalTop = version
      /\ \A h \in 0 .. version : index[h] \in Block /\ Height[index[h]] = h
  BY LedgerNumbers
<1>3. /\ ~TopRowMissing' /\ version' = version + 1 /\ index'[version'] = b
      /\ \A h \in 0 .. version : index'[h] = index[h]
      /\ \A h \in 0 .. version : jmt'[h] = jmt[h]
  BY <1>1, CommitKeepsLedger, StateBatchExtends
<1>4. CanonicalTop' = version + 1
  BY <1>3 DEF CanonicalTop
<1>5. weight'[b] = w
  BY <1>1 DEF DbTypeOK
<1>6. \A h \in 0 .. version : weight'[index[h]] = weight[index[h]]
  <2> SUFFICES ASSUME NEW h \in 0 .. version PROVE weight'[index[h]] = weight[index[h]]
    OBVIOUS
  <2>1. index[h] # b /\ index[h] \in Block
    BY <1>2
  <2> QED
    BY <1>1, <2>1 DEF DbTypeOK
<1>7. \A c \in headers' : index'[Height[c]] = c
  <2> SUFFICES ASSUME NEW c \in headers, c # b PROVE index'[Height[c]] = c
    BY <1>1, <1>3
  <2>1. index[Height[c]] = c /\ c \in Block /\ Height[c] \in Heights
    BY TreeAssumption DEF SoundRows, DbTypeOK
  <2>2. index[version + 1] = NoBlock
    <3>1. version + 1 \in Heights /\ version + 1 > version
      BY <1>2, TreeAssumption
    <3> QED
      BY <3>1 DEF LedgerInv, CanonicalChain
  <2>3. Height[c] # version + 1
    BY <2>1, <2>2, TreeAssumption
  <2> QED
    BY <1>1, <2>1, <2>3 DEF DbTypeOK
<1>8. \A h \in 1 .. (version + 1) : index'[h] \in ValidBody
  <2>1. b \in ValidBody
    BY DEF Executable
  <2> QED
    BY <1>2, <1>3, <2>1 DEF SoundRows
<1>9. \A h \in 1 .. (version + 1) : weight'[index'[h]] = weight'[index'[h - 1]] + Diff[index'[h]]
  <2> SUFFICES ASSUME NEW h \in 1 .. (version + 1)
               PROVE  weight'[index'[h]] = weight'[index'[h - 1]] + Diff[index'[h]]
    OBVIOUS
  <2>1. CASE h = version + 1
    <3>1. h - 1 = version /\ version \in 0 .. version
      BY <1>2, <2>1
    <3> QED
      BY <1>3, <1>5, <1>6, <2>1, <3>1
  <2>2. CASE h # version + 1
    <3>1. h \in 0 .. version /\ h - 1 \in 0 .. version /\ h \in 1 .. CanonicalTop
      BY <1>2, <2>2
    <3>2. weight[index[h]] = weight[index[h - 1]] + Diff[index[h]]
      BY <3>1 DEF SoundRows, WeightsAccumulate
    <3> QED
      BY <1>3, <1>6, <3>1, <3>2
  <2> QED
    BY <2>1, <2>2
<1>10. SoundRows'
  BY <1>4, <1>7, <1>8, <1>9 DEF SoundRows, WeightsAccumulate
<1> QED
  BY <1>3, <1>5, <1>6, <1>10
---------------------------------------------------------------------------
\* One lemma per action: it keeps SteadyInv.

Saving == {"header", "body", "index"}

LEMMA SoundWhenQuiet == ASSUME SteadyInv, pc \notin Saving PROVE SoundRows
BY DEF SteadyInv, SoundRows, Saving, HeadersIndexed, RowsExecuted

LEMMA QuietWhenSound ==
    ASSUME SoundRows', pc' \notin Saving
    PROVE  (HeadersIndexed /\ RowsExecuted /\ WeightsAccumulate)'
BY DEF SoundRows, Saving, HeadersIndexed, RowsExecuted

LEMMA RowsStay ==
    ASSUME SoundRows, UNCHANGED <<index, headers, weight, version>>
    PROVE  SoundRows'
BY DEF SoundRows, WeightsAccumulate, CanonicalTop, TopRowMissing

LEMMA AnswerSteady ==
    ASSUME NEW s, Answer(s), SoundRows'
    PROVE  SteadyInv'
<1>1. pc' = "idle" /\ batch' = <<>>
  BY DEF Answer, ClearCall
<1> QED
  BY <1>1, QuietWhenSound DEF SteadyInv, Saving, RollingFollows, RestoreInv

\* The old chain is known by the call's own variables and by the fork's rows.
LEMMA OldChainStays ==
    ASSUME NEW T, NEW W, OldChain(T, W), UNCHANGED <<backup, tip, fork, forkWeight, before>>,
           index'[fork] = index[fork], jmt'[fork] = jmt[fork]
    PROVE  OldChain(T, W)' /\ \A h : OldBlock(h)' = OldBlock(h)
BY DEF OldChain, OldBlock

LEMMA SteadyInit == Init => SteadyInv
<1> SUFFICES ASSUME Init PROVE SteadyInv
  OBVIOUS
<1>1. /\ pc = "idle" /\ batch = <<>> /\ headers = {Genesis} /\ version = 0
      /\ index = [h \in Heights |-> IF h = 0 THEN Genesis ELSE NoBlock]
  BY DEF Init, DbInit, CallInit
<1>2. CanonicalTop = 0 /\ index[Height[Genesis]] = Genesis
  BY <1>1, TreeAssumption DEF CanonicalTop, TopRowMissing, Heights
<1> QED
  BY <1>1, <1>2 DEF SteadyInv, HeadersIndexed, RowsExecuted, WeightsAccumulate, RollingFollows,
                    RestoreInv

LEMMA RejectSteady == ASSUME SteadyInv, NEW B \in Batch, Reject(B) PROVE SteadyInv'
<1>1. SoundRows'
  BY SoundWhenQuiet, RowsStay DEF Reject, Saving, dbVars
<1> QED
  BY <1>1, AnswerSteady DEF Reject

LEMMA AcceptSteady == ASSUME IInv, SteadyInv, NEW B \in Batch, Accept(B) PROVE SteadyInv'
<1>1. DbTypeOK /\ LedgerInv /\ ~TopRowMissing /\ SoundRows
  BY TypeSplit, SoundWhenQuiet DEF IInv, PhaseInv, Accept, Saving
<1>2. /\ pc' = "rollback" /\ batch' = B /\ fork' = ForkHeight(B)
      /\ forkWeight' = weight[ForkBlock(B)] /\ rolling' = weight[ForkBlock(B)]
      /\ before'.tip = index[version] /\ before'.weight = TipWeight /\ before'.acc = acc
      /\ UNCHANGED <<index, headers, weight, version, acc>>
  BY DEF Accept, AnchorWeight
<1>3. ForkBlock(B) \in headers
  BY DEF Accept, Verdict
<1>4. index[fork'] = ForkBlock(B)
  BY <1>1, <1>2, <1>3 DEF SoundRows, ForkHeight
<1>5. TipWeight = weight[index[version]]
  BY <1>1, LedgerNumbers DEF TipWeight
<1>6. SoundRows'
  BY <1>1, <1>2, RowsStay
<1> QED
  BY <1>2, <1>4, <1>5, <1>6, QuietWhenSound DEF SteadyInv, Saving, RollingFollows, RestoreInv

LEMMA NewBlockSteady == ASSUME IInv, SteadyInv, NEW b \in Block, NewBlock(b) PROVE SteadyInv'
<1>1. DbTypeOK /\ LedgerInv /\ ~TopRowMissing /\ SoundRows /\ batch = <<>>
  BY TypeSplit, SoundWhenQuiet DEF IInv, PhaseInv, NewBlock, Saving
<1>2. /\ WriteStateBatch(b) /\ Executable(b) /\ Height[b] = version + 1
      /\ rolling' = weight[index[version]] + Diff[b] /\ cur' = b /\ pc' = "header"
      /\ UNCHANGED <<index, headers, weight, bodies, finalized, batch>>
  BY DEF NewBlock
<1>3. TopRowMissing' /\ version' = version + 1
  BY <1>1, <1>2, StateFirstKeepsLedger
<1>4. CanonicalTop' = version /\ CanonicalTop = version /\ version \in Nat
  BY <1>1, <1>3, LedgerNumbers DEF CanonicalTop
<1>5. b \in ValidBody
  BY <1>2 DEF Executable
<1>6. HeadersIndexed' /\ RowsExecuted' /\ WeightsAccumulate'
  BY <1>1, <1>2, <1>4, <1>5 DEF SoundRows, HeadersIndexed, RowsExecuted, WeightsAccumulate
<1>7. RollingFollows' /\ RestoreInv'
  BY <1>1, <1>2, <1>3, <1>4 DEF RollingFollows, RestoreInv
<1> QED
  BY <1>6, <1>7 DEF SteadyInv

\* The rollback keeps the old chain: its blocks in the backup, and the states and
\* weights it had.
LEMMA RollBackSteady == ASSUME IInv, SteadyInv, RollBack PROVE SteadyInv'
<1>1. /\ DbTypeOK /\ LedgerInv /\ ~TopRowMissing /\ SoundRows
      /\ tip = version /\ fork <= version /\ finalized <= fork /\ fork \in Heights
      /\ batch # <<>> /\ pc = "rollback"
  BY TypeSplit, SoundWhenQuiet DEF IInv, PhaseInv, RollBack, CallTypeOK, Saving
<1>2. /\ version \in Nat /\ fork \in Nat /\ Heights \subseteq Nat /\ 0 .. version \subseteq Heights
      /\ CanonicalTop = version
      /\ \A h \in 0 .. version : index[h] \in Block /\ index[h] \in headers
                                 /\ weight[index[h]] \in Nat
  BY <1>1, LedgerNumbers
<1>3. /\ pc' = "apply"
      /\ backup' = [h \in Heights |-> IF h \in (fork + 1) .. tip /\ index[h] \in headers
                                      THEN index[h] ELSE NoBlock]
      /\ RollbackState(tip, fork)
      /\ UNCHANGED <<status, batch, pos, fork, forkWeight, tip, rolling, failedTip, cur, before>>
  BY <1>1 DEF RollBack, RollbackAllowed
<1>4. /\ SoundRows' /\ index'[fork] = index[fork] /\ jmt'[fork] = jmt[fork]
      /\ weight'[index[fork]] = weight[index[fork]] /\ version' = fork
  <2>1. version' = fork
    BY <1>1, <1>2, <1>3 DEF RollbackState, RollbackAllowed, DropBlocks, dbVars
  <2> QED
    BY <1>1, <1>2, <1>3, <2>1, RollbackKeepsRows
<1>5. RollingFollows'
  BY <1>1, <1>3, <1>4 DEF SteadyInv, RollingFollows
<1>6. RestoreInv'
  <2>1. PICK T \in [Heights -> State] : T = jmt
    BY <1>1 DEF DbTypeOK
  <2>2. PICK W \in [Heights -> Nat] :
           W = [h \in Heights |-> IF h <= version THEN weight[index[h]] ELSE 0]
    <3> DEFINE w == [h \in Heights |-> IF h <= version THEN weight[index[h]] ELSE 0]
    <3>1. w \in [Heights -> Nat]
      BY <1>2
    <3> QED
      BY <3>1
  <2>3. \A h \in fork .. tip : h \in Heights /\ OldBlock(h)' = index[h] /\ W[h] = weight[index[h]]
    BY <1>1, <1>2, <1>3, <1>4, <2>2 DEF OldBlock
  <2>4. \A h \in Heights : h \notin (fork + 1) .. tip => backup'[h] = NoBlock
    BY <1>3
  <2>5. ASSUME NEW h \in (fork + 1) .. tip
        PROVE  /\ backup'[h] \in ValidBody /\ Parent[backup'[h]] = OldBlock(h - 1)'
               /\ T[h] = ExecuteOn(backup'[h], T[h - 1], T[h - 1])
               /\ W[h] = W[h - 1] + Diff[backup'[h]]
    <3>1. h \in 1 .. CanonicalTop /\ h - 1 \in fork .. tip /\ h \in fork .. tip /\ h # fork
      BY <1>1, <1>2
    <3>2. backup'[h] = index[h] /\ OldBlock(h - 1)' = index[h - 1]
      BY <1>1, <1>2, <1>3, <2>3, <3>1
    <3>3. index[h] \in ValidBody /\ Parent[index[h]] = index[h - 1]
          /\ jmt[h] = ExecuteOn(index[h], jmt[h - 1], jmt[h - 1])
          /\ weight[index[h]] = weight[index[h - 1]] + Diff[index[h]]
      BY <1>1, <3>1 DEF SoundRows, LedgerInv, CanonicalChain, StateFollowsChain, WeightsAccumulate
    <3> QED
      BY <2>1, <2>3, <3>1, <3>2, <3>3
  <2>6. /\ T[fork] = jmt'[fork] /\ W[fork] = forkWeight
        /\ T[tip] = before.acc /\ W[tip] = before.weight /\ OldBlock(tip)' = before.tip
    <3>1. fork \in fork .. tip /\ tip \in fork .. tip
      BY <1>1, <1>2
    <3>2. W[fork] = weight[index[fork]] /\ W[tip] = weight[index[tip]] /\ OldBlock(tip)' = index[tip]
      <4>1. PICK k : k = tip
        OBVIOUS
      <4>2. OldBlock(k)' = index[k]
        BY <2>3, <3>1, <4>1
      <4>3. tip' = tip /\ k = tip'
        BY <1>3, <4>1
      <4>4. OldBlock(tip)' = index[tip]
        BY <4>1, <4>2, <4>3 DEF OldBlock
      <4> QED
        BY <2>3, <3>1, <4>4
    <3>3. weight[index[fork]] = forkWeight /\ before.weight = weight[index[version]]
          /\ before.acc = acc /\ before.tip = index[version]
      BY <1>1 DEF SteadyInv, RollingFollows, RestoreInv
    <3>4. acc = jmt[version]
      BY <1>1 DEF LedgerInv, StateFollowsChain
    <3> QED
      BY <1>1, <1>4, <2>1, <3>2, <3>3, <3>4
  <2>7. OldChain(T, W)'
    BY <1>1, <1>3, <2>4, <2>5, <2>6 DEF OldChain
  <2> QED
    BY <1>3, <2>7 DEF RestoreInv, Replaying
<1> QED
  BY <1>3, <1>4, <1>5, <1>6, QuietWhenSound DEF SteadyInv, Saving

LEMMA ApplySteady == ASSUME IInv, SteadyInv, Apply PROVE SteadyInv'
<1> DEFINE b == batch[pos]
<1>1. /\ DbTypeOK /\ LedgerInv /\ ~TopRowMissing /\ SoundRows /\ pc = "apply" /\ batch # <<>>
      /\ version = fork + pos - 1 /\ pos \in 1 .. Len(batch) + 1 /\ fork \in Heights
      /\ pos <= Len(batch) /\ Executable(b) /\ rolling' = rolling + Diff[b]
      /\ CommitBlockAtomic(b, rolling + Diff[b])
      /\ UNCHANGED <<pc, batch, fork, forkWeight, tip, backup, before>>
      /\ rolling \in Nat
  BY TypeSplit, SoundWhenQuiet DEF IInv, PhaseInv, CallTypeOK, Apply, Applies, Saving
<1>2. b \in Block /\ Height[b] = version + 1
  BY <1>1, NextBlockHeight
<1>3. rolling = weight[index[version]] /\ weight[index[fork]] = forkWeight
  BY <1>1 DEF SteadyInv, RollingFollows
<1>4. rolling + Diff[b] \in Nat
  <2> HIDE DEF b
  <2> QED
    BY <1>1, <1>2, TreeAssumption
<1>5. /\ SoundRows' /\ weight'[b] = rolling' /\ index'[version'] = b
      /\ \A h \in 0 .. version : /\ index'[h] = index[h] /\ jmt'[h] = jmt[h]
                                 /\ weight'[index[h]] = weight[index[h]]
  <2> HIDE DEF b
  <2> QED
    BY <1>1, <1>2, <1>3, <1>4, CommitKeepsRows
<1>6. fork \in 0 .. version
  BY <1>1, LedgerNumbers
<1>7. RollingFollows'
  BY <1>1, <1>3, <1>5, <1>6 DEF RollingFollows
<1>8. RestoreInv'
  <2>1. PICK T \in [Heights -> State], W \in [Heights -> Nat] : OldChain(T, W)
    BY <1>1 DEF SteadyInv, RestoreInv
  <2>2. OldChain(T, W)'
    BY <1>1, <1>5, <1>6, <2>1, OldChainStays
  <2> QED
    BY <1>1, <2>2 DEF RestoreInv, Replaying
<1> QED
  BY <1>1, <1>5, <1>7, <1>8, QuietWhenSound DEF SteadyInv, Saving

LEMMA LoopLeftSteady ==
    ASSUME IInv, SteadyInv, pc = "apply", pc' = "recover", UNCHANGED <<dbVars, status, callVars>>
    PROVE  SteadyInv'
<1>1. SoundRows' /\ batch # <<>>
  BY SoundWhenQuiet, RowsStay DEF Saving, dbVars, IInv, PhaseInv
<1>2. RollingFollows'
  BY DEF SteadyInv, RollingFollows, dbVars, callVars
<1>3. RestoreInv'
  <2>1. PICK T \in [Heights -> State], W \in [Heights -> Nat] : OldChain(T, W)
    BY <1>1 DEF SteadyInv, RestoreInv
  <2>2. OldChain(T, W)'
    BY <2>1, OldChainStays DEF dbVars, callVars
  <2> QED
    BY <2>2 DEF RestoreInv, Replaying
<1> QED
  BY <1>1, <1>2, <1>3, QuietWhenSound DEF SteadyInv, Saving

LEMMA AdoptSteady == ASSUME IInv, SteadyInv, Adopt PROVE SteadyInv'
<1>1. SoundRows'
  BY SoundWhenQuiet, RowsStay, AdoptKeepsRows DEF Adopt, Saving
<1> QED
  BY <1>1, AnswerSteady DEF Adopt

LEMMA RecoverSteady == ASSUME IInv, SteadyInv, Recover PROVE SteadyInv'
<1>1. /\ DbTypeOK /\ LedgerInv /\ ~TopRowMissing /\ SoundRows /\ pc = "recover"
      /\ failedTip = version /\ fork <= version /\ finalized <= fork /\ fork \in Heights
      /\ batch # <<>>
  BY TypeSplit, SoundWhenQuiet DEF IInv, PhaseInv, Recover, CallTypeOK, Saving
<1>2. fork \in Nat /\ version \in Nat /\ fork \in 0 .. fork
  BY <1>1, LedgerNumbers
<1>3. /\ RollbackState(version, fork) /\ pc' = "replay" /\ rolling' = forkWeight
      /\ UNCHANGED <<batch, fork, forkWeight, tip, backup, before>>
  BY <1>1 DEF Recover
<1>4. /\ SoundRows' /\ index'[fork] = index[fork] /\ jmt'[fork] = jmt[fork]
      /\ weight'[index[fork]] = weight[index[fork]] /\ version' = fork
  <2>1. version' = fork
    BY <1>1, <1>2, <1>3 DEF RollbackState, RollbackAllowed, DropBlocks, dbVars
  <2> QED
    BY <1>1, <1>2, <1>3, <2>1, RollbackKeepsRows
<1>5. RollingFollows'
  BY <1>1, <1>3, <1>4 DEF SteadyInv, RollingFollows
<1>6. RestoreInv'
  <2>1. PICK T \in [Heights -> State], W \in [Heights -> Nat] : OldChain(T, W)
    BY <1>1 DEF SteadyInv, RestoreInv
  <2>2. OldChain(T, W)' /\ OldBlock(fork)' = OldBlock(fork)
    BY <1>3, <1>4, <2>1, OldChainStays
  <2>3. /\ version' \in fork' .. tip' /\ jmt'[version'] = T[version'] /\ rolling' = W[version']
        /\ index'[version'] = OldBlock(version)'
    <3>1. tip \in Nat /\ fork <= tip
      BY <2>1, LedgerNumbers, TypeSplit, <1>1 DEF OldChain, IInv, CallTypeOK
    <3>2. OldBlock(version)' = index'[version']
      BY <1>3, <1>4 DEF OldBlock
    <3>3. T[fork] = jmt[fork] /\ W[fork] = forkWeight
      BY <2>1 DEF OldChain
    <3> QED
      BY <1>2, <1>3, <1>4, <3>1, <3>2, <3>3
  <2>4. Rebuilt(T, W)'
    BY <1>3, <2>3 DEF Rebuilt
  <2> QED
    BY <1>3, <2>2, <2>4 DEF RestoreInv
<1> QED
  BY <1>3, <1>4, <1>5, <1>6, QuietWhenSound DEF SteadyInv, Saving
\* A block of the backup that is still to be replayed is the next one, and it
\* executes.
LEMMA ReplayIsNext ==
    ASSUME IInv, SteadyInv, pc = "replay", NEW h \in Heights, NextReplay(h),
           NEW T, NEW W, OldChain(T, W), Rebuilt(T, W)
    PROVE  /\ h = version + 1 /\ h \in (fork + 1) .. tip /\ version \in fork .. tip
           /\ Executable(backup[h]) /\ backup[h] \in Block /\ Height[backup[h]] = h
<1>1. /\ DbTypeOK /\ LedgerInv /\ CallTypeOK /\ BackupAtHeight /\ pos = version + 1
      /\ version \in Nat /\ version \in Heights /\ fork \in Nat /\ tip \in Nat /\ tip \in Heights
      /\ h \in Nat
  BY TypeSplit, LedgerNumbers, TreeAssumption DEF IInv, PhaseInv, CallTypeOK, Heights
<1>2. h >= version + 1 /\ backup[h] # NoBlock /\ \A k \in ToReplay : h <= k
  BY <1>1 DEF NextReplay, ToReplay
<1>3. h \in (fork + 1) .. tip
  BY <1>2 DEF OldChain
<1>4. version \in fork .. tip /\ index[version] = OldBlock(version)
  BY DEF Rebuilt
<1>5. version + 1 \in (fork + 1) .. tip /\ version + 1 \in Heights
  BY <1>1, <1>2, <1>3, <1>4, TreeAssumption DEF Heights
<1>6. backup[version + 1] \in ValidBody /\ Parent[backup[version + 1]] = OldBlock(version)
  <2>1. (version + 1) - 1 = version
    BY <1>1
  <2> QED
    BY <1>5, <2>1 DEF OldChain
<1>7. backup[version + 1] # NoBlock /\ backup[version + 1] \in Block
  BY <1>6, TreeAssumption
<1>8. version + 1 \in ToReplay
  BY <1>1, <1>5, <1>7 DEF ToReplay
<1>9. h = version + 1
  BY <1>1, <1>2, <1>8
<1>10. Height[backup[h]] = h
  BY <1>1, <1>2 DEF BackupAtHeight
<1>11. Executable(backup[h])
  BY <1>1, <1>4, <1>6, <1>9, <1>10 DEF Executable
<1> QED
  BY <1>3, <1>4, <1>7, <1>9, <1>10, <1>11

LEMMA ReplaySteady == ASSUME IInv, SteadyInv, NEW h \in Heights, Replay(h) PROVE SteadyInv'
<1> DEFINE b == backup[h]
<1>1. /\ DbTypeOK /\ LedgerInv /\ ~TopRowMissing /\ SoundRows /\ batch # <<>>
      /\ pc = "replay" /\ NextReplay(h) /\ weight[index[version]] = rolling
  BY TypeSplit, SoundWhenQuiet DEF IInv, PhaseInv, Replay, Saving, SteadyInv, RollingFollows
<1>2. PICK T \in [Heights -> State], W \in [Heights -> Nat] : OldChain(T, W) /\ Rebuilt(T, W)
  BY <1>1 DEF SteadyInv, RestoreInv, Replaying
<1>3. /\ h = version + 1 /\ h \in (fork + 1) .. tip /\ version \in fork .. tip
      /\ Executable(b) /\ b \in Block /\ Height[b] = h
  BY <1>1, <1>2, ReplayIsNext
<1>4. /\ WriteStateBatch(b) /\ rolling' = rolling + Diff[b] /\ cur' = b /\ pc' = "header"
      /\ UNCHANGED <<index, headers, weight, bodies, finalized, batch, fork, forkWeight, tip,
                     backup, before>>
  BY <1>3 DEF Replay
<1>5. fork \in Nat /\ tip \in Nat /\ version \in Nat /\ CanonicalTop = version
      /\ fork \in 0 .. version
  <2>1. fork \in Nat /\ tip \in Nat
    BY TypeSplit, TreeAssumption DEF IInv, CallTypeOK, Heights
  <2> QED
    BY <1>1, <1>3, <2>1, LedgerNumbers
<1>6. TopRowMissing' /\ version' = version + 1
      /\ \A k \in 0 .. version : jmt'[k] = jmt[k]
      /\ jmt'[version'] = ExecuteOn(b, jmt'[version], jmt'[version])
  <2> HIDE DEF b
  <2> QED
    BY <1>1, <1>3, <1>4, StateFirstKeepsLedger, StateBatchExtends
<1>7. CanonicalTop' = version /\ version' - 1 = version
  BY <1>5, <1>6 DEF CanonicalTop
<1>8. b \in ValidBody
  BY <1>3 DEF Executable
<1>9. HeadersIndexed' /\ RowsExecuted' /\ WeightsAccumulate'
  BY <1>1, <1>4, <1>5, <1>7, <1>8 DEF SoundRows, HeadersIndexed, RowsExecuted, WeightsAccumulate
<1>10. RollingFollows'
  BY <1>1, <1>4, <1>7 DEF RollingFollows
<1>11. OldChain(T, W)' /\ \A k : OldBlock(k)' = OldBlock(k)
  BY <1>2, <1>4, <1>5, <1>6, OldChainStays
<1>12. Rebuilt(T, W)'
  <2>1. /\ jmt[version] = T[version] /\ rolling = W[version]
        /\ T[h] = ExecuteOn(b, T[h - 1], T[h - 1]) /\ W[h] = W[h - 1] + Diff[b]
    BY <1>2, <1>3 DEF Rebuilt, OldChain
  <2>2. h - 1 = version /\ version' = h /\ version \in 0 .. version
    BY <1>3, <1>5, <1>6
  <2>3. jmt'[version'] = T[version'] /\ rolling' = W[version']
    BY <1>4, <1>6, <2>1, <2>2
  <2>4. version' \in fork' .. tip' /\ version' > fork'
    BY <1>3, <1>4, <1>5, <1>6
  <2>5. OldBlock(h)' = b
    <3>1. fork' # h
      BY <1>3, <1>4, <1>5
    <3> QED
      BY <1>4, <3>1 DEF OldBlock
  <2>6. cur' = OldBlock(version)'
    BY <1>4, <2>2, <2>5, <1>6 DEF OldBlock
  <2> QED
    BY <1>4, <2>3, <2>4, <2>6 DEF Rebuilt
<1>13. RestoreInv'
  BY <1>4, <1>11, <1>12 DEF RestoreInv
<1> QED
  BY <1>9, <1>10, <1>13 DEF SteadyInv

LEMMA RestoredSteady == ASSUME SteadyInv, Restored PROVE SteadyInv'
<1>1. SoundRows'
  BY SoundWhenQuiet, RowsStay DEF Restored, Saving, dbVars
<1> QED
  BY <1>1, AnswerSteady DEF Restored

\* The replay goes on: nothing the old chain is known by has changed.
LEMMA ReplayGoesOn ==
    ASSUME SteadyInv, batch # <<>>, pc \in {"header", "body", "index", "finalize"},
           pc' \in {"header", "body", "index", "finalize"},
           UNCHANGED <<version, jmt, callVars>>, \A h \in 0 .. version - 1 : index'[h] = index[h],
           fork \in Nat, version \in Nat
    PROVE  RestoreInv'
<1>1. PICK T \in [Heights -> State], W \in [Heights -> Nat] : OldChain(T, W) /\ Rebuilt(T, W)
  BY DEF SteadyInv, RestoreInv, Replaying
<1>2. fork \in 0 .. version - 1
  BY <1>1 DEF Rebuilt
<1>3. OldChain(T, W)' /\ \A k : OldBlock(k)' = OldBlock(k)
  BY <1>1, <1>2, OldChainStays DEF callVars
<1>4. Rebuilt(T, W)'
  BY <1>1, <1>2 DEF Rebuilt, OldBlock, callVars
<1> QED
  BY <1>3, <1>4 DEF RestoreInv, callVars

LEMMA SaveSteady == ASSUME IInv, SteadyInv, SaveHeader \/ SaveBody \/ SaveIndex PROVE SteadyInv'
<1>1. /\ DbTypeOK /\ LedgerInv /\ CallTypeOK /\ SavingBlock /\ TopRowMissing
      /\ cur \in Block /\ Height[cur] = version /\ version > 0 /\ rolling \in Nat
      /\ pc \in {"header", "body", "index"} /\ pc' \in {"body", "index", "finalize"}
      /\ UNCHANGED <<version, jmt, status, callVars>>
  BY TypeSplit DEF IInv, PhaseInv, SaveHeader, SaveBody, SaveIndex, SavingBlock, CallTypeOK
<1>2. /\ version \in Nat /\ version \in Heights /\ 0 .. version \subseteq Heights
      /\ CanonicalTop = version - 1 /\ fork \in Nat
      /\ \A h \in 0 .. version - 1 : index[h] \in Block /\ Height[index[h]] = h
  BY <1>1, LedgerNumbers, TreeAssumption DEF CallTypeOK, Heights
<1>3. \A h \in 0 .. version - 1 : index'[h] = index[h]
  BY <1>1, <1>2 DEF SaveHeader, SaveBody, SaveIndex, PutBlockHash, DbTypeOK
<1>4. RestoreInv'
  <2>1. CASE batch = <<>>
    BY <1>1, <2>1 DEF RestoreInv, callVars
  <2>2. CASE batch # <<>>
    BY <1>1, <1>2, <1>3, <2>2, ReplayGoesOn
  <2> QED
    BY <2>1, <2>2
<1>5. /\ \A b \in headers : (pc \in {"body", "index"} => b # cur) => index[Height[b]] = b
      /\ \A h \in 1 .. version - 1 : index[h] \in ValidBody
      /\ cur \in ValidBody
      /\ \A h \in 1 .. version - 1 : weight[index[h]] = weight[index[h - 1]] + Diff[index[h]]
      /\ rolling = weight[index[version - 1]] + Diff[cur]
      /\ (pc \in {"body", "index"} => weight[cur] = rolling)
  BY <1>1, <1>2 DEF SteadyInv, HeadersIndexed, RowsExecuted, WeightsAccumulate, RollingFollows
<1>6. CASE SaveHeader
  <2>1. /\ headers' = headers \cup {cur} /\ weight' = [weight EXCEPT ![cur] = rolling]
        /\ index' = index /\ pc = "header" /\ pc' = "body"
    BY <1>6 DEF SaveHeader, PutHeader
  <2>2. CanonicalTop' = version - 1
    BY <1>1, <1>2, <2>1 DEF CanonicalTop, TopRowMissing
  <2>3. weight'[cur] = rolling
    BY <1>1, <2>1 DEF DbTypeOK
  <2>4. \A h \in 0 .. version - 1 : weight'[index[h]] = weight[index[h]]
    <3> SUFFICES ASSUME NEW h \in 0 .. version - 1 PROVE weight'[index[h]] = weight[index[h]]
      OBVIOUS
    <3>1. index[h] # cur /\ index[h] \in Block
      BY <1>1, <1>2
    <3> QED
      BY <1>1, <2>1, <3>1 DEF DbTypeOK
  <2>5. HeadersIndexed' /\ RowsExecuted'
    BY <1>1, <1>5, <2>1, <2>2 DEF HeadersIndexed, RowsExecuted, callVars
  <2>6. WeightsAccumulate'
    <3>1. \A h \in 1 .. version - 1 : h \in 0 .. version - 1 /\ h - 1 \in 0 .. version - 1
      BY <1>2
    <3> QED
      BY <1>5, <2>1, <2>2, <2>4, <3>1 DEF WeightsAccumulate
  <2>7. RollingFollows'
    <3>1. version - 1 \in 0 .. version - 1
      BY <1>1, <1>2
    <3> QED
      BY <1>1, <1>5, <2>1, <2>3, <2>4, <3>1 DEF RollingFollows, callVars
  <2> QED
    BY <1>4, <2>5, <2>6, <2>7 DEF SteadyInv
<1>7. CASE SaveBody
  <2>1. /\ UNCHANGED <<index, headers, weight>> /\ pc = "body" /\ pc' = "index"
    BY <1>7 DEF SaveBody
  <2>2. CanonicalTop' = version - 1
    BY <1>1, <1>2, <2>1 DEF CanonicalTop, TopRowMissing
  <2>3. HeadersIndexed' /\ RowsExecuted' /\ WeightsAccumulate'
    BY <1>1, <1>5, <2>1, <2>2 DEF HeadersIndexed, RowsExecuted, WeightsAccumulate, callVars
  <2>4. RollingFollows'
    BY <1>1, <1>5, <2>1 DEF RollingFollows, callVars
  <2> QED
    BY <1>4, <2>3, <2>4 DEF SteadyInv
<1>8. CASE SaveIndex
  <2>1. /\ index' = [index EXCEPT ![version] = cur] /\ UNCHANGED <<headers, weight>>
        /\ pc = "index" /\ pc' = "finalize"
    BY <1>1, <1>8 DEF SaveIndex, PutBlockHash, TopRowMissing, DbTypeOK
  <2>2. index'[version] = cur
    BY <1>1, <1>2, <2>1 DEF DbTypeOK
  <2>3. CanonicalTop' = version
    BY <1>1, <2>2, TreeAssumption DEF CanonicalTop, TopRowMissing
  <2>4. \A b \in headers' : index'[Height[b]] = b
    <3> SUFFICES ASSUME NEW b \in headers, b # cur PROVE index'[Height[b]] = b
      BY <1>1, <2>1, <2>2
    <3>1. index[Height[b]] = b /\ b \in Block /\ Height[b] \in Heights
      BY <1>1, <1>5, TreeAssumption DEF DbTypeOK
    <3>2. Height[b] # version
      BY <1>1, <3>1, TreeAssumption DEF TopRowMissing
    <3> QED
      BY <1>1, <2>1, <3>1, <3>2 DEF DbTypeOK
  <2>5. \A h \in 1 .. version : index'[h] \in ValidBody
    BY <1>2, <1>3, <1>5, <2>2
  <2>6. \A h \in 1 .. version : weight[index'[h]] = weight[index'[h - 1]] + Diff[index'[h]]
    <3> SUFFICES ASSUME NEW h \in 1 .. version
                 PROVE  weight[index'[h]] = weight[index'[h - 1]] + Diff[index'[h]]
      OBVIOUS
    <3>1. index'[h - 1] = index[h - 1]
      BY <1>2, <1>3
    <3>2. CASE h = version
      BY <1>5, <2>1, <2>2, <3>1, <3>2
    <3>3. CASE h # version
      BY <1>2, <1>3, <1>5, <3>1, <3>3
    <3> QED
      BY <3>2, <3>3
  <2>7. HeadersIndexed' /\ RowsExecuted' /\ WeightsAccumulate'
    BY <2>1, <2>3, <2>4, <2>5, <2>6 DEF HeadersIndexed, RowsExecuted, WeightsAccumulate
  <2>8. RollingFollows'
    BY <1>1, <1>5, <2>1, <2>2 DEF RollingFollows, callVars
  <2> QED
    BY <1>4, <2>7, <2>8 DEF SteadyInv
<1> QED
  BY <1>6, <1>7, <1>8

LEMMA FinalizeSteady == ASSUME IInv, SteadyInv, Finalize PROVE SteadyInv'
<1>1. /\ SoundRows /\ SavingBlock /\ pc = "finalize" /\ index[version] = cur
      /\ UNCHANGED <<index, headers, weight, version, jmt, acc>>
  BY SoundWhenQuiet DEF IInv, PhaseInv, SavingBlock, Finalize, Saving
<1>2. SoundRows'
  BY <1>1, RowsStay
<1>3. CASE batch = <<>>
  BY <1>2, <1>3, AnswerSteady DEF Finalize
<1>4. CASE batch # <<>>
  <2>1. pc' = "replay" /\ UNCHANGED <<batch, fork, forkWeight, tip, rolling, backup, before>>
    BY <1>4 DEF Finalize
  <2>2. RollingFollows'
    BY <1>1, <2>1 DEF SteadyInv, RollingFollows
  <2>3. PICK T \in [Heights -> State], W \in [Heights -> Nat] : OldChain(T, W) /\ Rebuilt(T, W)
    BY <1>1, <1>4 DEF SteadyInv, RestoreInv, Replaying
  <2>4. OldChain(T, W)' /\ \A k : OldBlock(k)' = OldBlock(k)
    BY <1>1, <2>1, <2>3, OldChainStays
  <2>5. Rebuilt(T, W)'
    BY <1>1, <2>1, <2>3 DEF Rebuilt, OldBlock
  <2> QED
    BY <1>2, <2>1, <2>2, <2>4, <2>5, QuietWhenSound DEF SteadyInv, RestoreInv, Saving
<1> QED
  BY <1>3, <1>4

LEMMA StepBackSteady == ASSUME IInv, SteadyInv, StepBack PROVE SteadyInv'
<1>1. /\ DbTypeOK /\ LedgerInv /\ ~TopRowMissing /\ SoundRows /\ batch = <<>> /\ pc' = "idle"
      /\ batch' = <<>> /\ RollbackState(version, version - 1) /\ version > finalized
  BY TypeSplit, SoundWhenQuiet DEF IInv, PhaseInv, StepBack, Saving, callVars
<1>2. version - 1 \in Heights /\ version - 1 <= version
  BY <1>1, LedgerNumbers, TreeAssumption DEF Heights
<1>3. SoundRows'
  BY <1>1, <1>2, RollbackKeepsRows
<1> QED
  BY <1>1, <1>3, QuietWhenSound DEF SteadyInv, Saving, RollingFollows, RestoreInv

LEMMA StutterSteady == ASSUME SteadyInv, UNCHANGED vars PROVE SteadyInv'
<1>1. HeadersIndexed' /\ RowsExecuted' /\ WeightsAccumulate' /\ RollingFollows'
  BY DEF SteadyInv, HeadersIndexed, RowsExecuted, WeightsAccumulate, RollingFollows, CanonicalTop,
         TopRowMissing, vars, dbVars, callVars
<1>2. UNCHANGED <<pc, batch, before, index, weight, version, acc>>
  BY DEF vars, dbVars, callVars
<1>3. CASE batch = <<>> \/ pc = "rollback"
  BY <1>1, <1>2, <1>3 DEF SteadyInv, RestoreInv
<1>4. CASE batch # <<>> /\ pc # "rollback"
  <2>1. PICK T \in [Heights -> State], W \in [Heights -> Nat] :
           OldChain(T, W) /\ (pc \in Replaying => Rebuilt(T, W))
    BY <1>4 DEF SteadyInv, RestoreInv
  <2>2. OldChain(T, W)' /\ (pc' \in Replaying => Rebuilt(T, W)')
    BY <2>1, OldChainStays DEF Rebuilt, OldBlock, vars, dbVars, callVars
  <2>3. RestoreInv'
    BY <1>2, <1>4, <2>2 DEF RestoreInv
  <2> QED
    BY <1>1, <2>3 DEF SteadyInv
<1> QED
  BY <1>3, <1>4

---------------------------------------------------------------------------
\* The theorems about runs without crashes.

\* Every step of a run without crashes keeps the weights and the old blocks right.
LEMMA SteadyStep == ASSUME ShortBatches, IInv, SteadyInv, [SteadyNext]_vars PROVE SteadyInv'
<1>1. CASE \E B \in Batch : Reject(B) \/ Accept(B)
  BY <1>1, RejectSteady, AcceptSteady
<1>2. CASE \E b \in Block : NewBlock(b)
  BY <1>2, NewBlockSteady
<1>3. CASE ApplyFails \/ Deadline
  BY <1>3, LoopLeftSteady DEF ApplyFails, Deadline
<1>4. CASE \E h \in Heights : Replay(h)
  BY <1>4, ReplaySteady
<1> QED
  BY <1>1, <1>2, <1>3, <1>4, RollBackSteady, ApplySteady, AdoptSteady, RecoverSteady,
     RestoredSteady, SaveSteady, FinalizeSteady, StepBackSteady, StutterSteady
     DEF SteadyNext, CallStep

\* Without crashes the weights are the work of the branches, and a call that has
\* rolled back keeps what it needs to restore the old chain.
THEOREM SteadyInvariance == ASSUME ShortBatches PROVE SteadySpec => [](IInv /\ SteadyInv)
<1>1. IInv /\ SteadyInv /\ [SteadyNext]_vars => (IInv /\ SteadyInv)'
  <2>1. [SteadyNext]_vars => [Next]_vars
    BY DEF Next
  <2> QED
    BY <2>1, NextKeepsInv, SteadyStep
<1>2. Init => IInv /\ SteadyInv
  BY InitInv, SteadyInit
<1> QED
  BY <1>1, <1>2, PTL DEF SteadySpec

\* The weight fork choice reads is the work of the chain: along the index every
\* stored weight is the parent's plus the block's own, through reorganisations,
\* failures and replays.
THEOREM WeightIsWork == ASSUME ShortBatches PROVE SteadySpec => []WeightsAccumulate
<1>1. SteadyInv => WeightsAccumulate
  BY DEF SteadyInv
<1> QED
  BY <1>1, SteadyInvariance, PTL

\* The step that ends a replay finds the old chain whole.
LEMMA RestoredWhole ==
    ASSUME IInv, SteadyInv, Restored
    PROVE  index'[version'] = before.tip /\ TipWeight' = before.weight /\ acc' = before.acc
<1>1. /\ DbTypeOK /\ LedgerInv /\ ~TopRowMissing /\ batch # <<>> /\ pos = version + 1
      /\ pc = "replay" /\ ToReplay = {} /\ UNCHANGED dbVars
      /\ weight[index[version]] = rolling /\ fork \in Nat /\ tip \in Nat /\ tip \in Heights
  BY TypeSplit, TreeAssumption DEF IInv, PhaseInv, Restored, SteadyInv, RollingFollows, CallTypeOK,
                                   Heights
<1>2. PICK T \in [Heights -> State], W \in [Heights -> Nat] : OldChain(T, W) /\ Rebuilt(T, W)
  BY <1>1 DEF SteadyInv, RestoreInv, Replaying
<1>3. version \in fork .. tip /\ version \in Nat /\ index[version] \in headers
  BY <1>1, <1>2, LedgerNumbers DEF Rebuilt
<1>4. version = tip
  <2> SUFFICES ASSUME version # tip PROVE FALSE
    OBVIOUS
  <2>1. version + 1 \in (fork + 1) .. tip /\ version + 1 \in Heights
    BY <1>1, <1>3, TreeAssumption DEF Heights
  <2>2. backup[version + 1] # NoBlock
    BY <1>2, <2>1, TreeAssumption DEF OldChain
  <2>3. version + 1 \in ToReplay
    BY <1>1, <1>3, <2>1, <2>2 DEF ToReplay
  <2> QED
    BY <1>1, <2>3
<1>5. index[version] = before.tip /\ weight[index[version]] = before.weight
      /\ jmt[version] = before.acc
  BY <1>1, <1>2, <1>4 DEF OldChain, Rebuilt
<1>6. acc = jmt[version]
  BY <1>1 DEF LedgerInv, StateFollowsChain
<1> QED
  BY <1>1, <1>3, <1>5, <1>6 DEF TipWeight, dbVars

\* "Reorg failed, node restored to original tip" is true: the tip, its weight
\* and every account are those from before the call.
THEOREM FailureLeavesNothing == ASSUME ShortBatches PROVE SteadySpec => FailureRestores
<1>1. ASSUME IInv, SteadyInv, [SteadyNext]_vars
      PROVE  [pc = "replay" /\ pc' = "idle" =>
                 index'[version'] = before.tip /\ TipWeight' = before.weight
                 /\ acc' = before.acc]_vars
  <2> SUFFICES ASSUME SteadyNext, pc = "replay", pc' = "idle"
               PROVE  Restored
    BY <1>1, RestoredWhole
  <2>1. ASSUME NEW h \in Heights, Replay(h) PROVE FALSE
    <3>1. batch # <<>>
      BY <1>1 DEF IInv, PhaseInv
    <3>2. PICK T \in [Heights -> State], W \in [Heights -> Nat] : OldChain(T, W) /\ Rebuilt(T, W)
      BY <1>1, <3>1 DEF SteadyInv, RestoreInv, Replaying
    <3>3. NextReplay(h)
      BY <2>1 DEF Replay
    <3>4. Executable(backup[h])
      BY <1>1, <3>2, <3>3, ReplayIsNext
    <3> QED
      BY <2>1, <3>4 DEF Replay
  <2> QED
    BY <2>1 DEF SteadyNext, CallStep, Reject, Accept, NewBlock, RollBack, Apply, ApplyFails,
           Deadline, Adopt, Recover, SaveHeader, SaveBody, SaveIndex, Finalize, StepBack
<1> QED
  BY <1>1, SteadyInvariance, PTL DEF SteadySpec, FailureRestores

---------------------------------------------------------------------------
\* The refinement of BestChain: paths of the tree and their work.

\* c names the blocks of a path by height, from genesis up to height n.
Path(c, n) ==
    /\ c[0] = Genesis
    /\ \A k \in 0 .. n : c[k] \in Block /\ Height[c[k]] = k
    /\ \A k \in 1 .. n : Parent[c[k]] = c[k - 1]

\* The blocks of c at the heights lo + 1 .. n.
Above(c, lo, n) == {c[k] : k \in (lo + 1) .. n}

\* What BestChain finds below the top of a path is the path.
LEMMA AncestorsOnPath ==
    ASSUME NEW n \in Nat, NEW c, Path(c, n)
    PROVE  Served!Ancestors(c[n]) = {c[k] : k \in 0 .. n}
<1> DEFINE P == {c[k] : k \in 0 .. n}
           Holds(S) == \A y \in S \ {Genesis} : Parent[y] \in S
<1>1. P \in SUBSET Block /\ c[n] \in P
  BY DEF Path
<1>2. Holds(P)
  <2> SUFFICES ASSUME NEW k \in 0 .. n, c[k] # Genesis PROVE Parent[c[k]] \in P
    OBVIOUS
  <2>1. k \in 1 .. n /\ k - 1 \in 0 .. n
    BY DEF Path
  <2> QED
    BY <2>1 DEF Path
<1>3. ASSUME NEW S \in SUBSET Block, c[n] \in S, Holds(S), NEW k \in 0 .. n
      PROVE  c[k] \in S
  <2> DEFINE Q == {j \in Nat : j <= n => c[n - j] \in S}
  <2>1. 0 \in Q
    BY <1>3
  <2>2. ASSUME NEW j \in Nat, j \in Q PROVE j + 1 \in Q
    <3> SUFFICES ASSUME j + 1 <= n PROVE c[n - (j + 1)] \in S
      OBVIOUS
    <3>1. c[n - j] \in S /\ n - j \in 1 .. n /\ n - (j + 1) = (n - j) - 1
      BY <2>2
    <3>2. c[n - j] # Genesis
      <4>1. Height[c[n - j]] = n - j
        BY <3>1 DEF Path
      <4> QED
        BY <3>1, <4>1, TreeAssumption
    <3>3. Parent[c[n - j]] = c[(n - j) - 1]
      BY <3>1 DEF Path
    <3> QED
      BY <1>3, <3>1, <3>2, <3>3
  <2>3. Nat \subseteq Q
    <3> HIDE DEF Q
    <3> QED
      BY <2>1, <2>2, NumberInduction
  <2>4. n - k \in Nat /\ n - k <= n /\ n - (n - k) = k
    OBVIOUS
  <2>5. n - k \in Q
    BY <2>3, <2>4
  <2> QED
    BY <2>4, <2>5
<1>4. Served!Ancestors(c[n]) = {x \in Block : \A S \in SUBSET Block : (c[n] \in S /\ Holds(S)) => x \in S}
  BY DEF Served!Ancestors
<1> HIDE DEF Holds
<1>5. P \subseteq Served!Ancestors(c[n])
  BY <1>1, <1>3, <1>4
<1>6. Served!Ancestors(c[n]) \subseteq P
  BY <1>1, <1>2, <1>4
<1> QED
  BY <1>5, <1>6

\* Weights that grow by each block's difficulty differ by the work between.
LEMMA WorkAbove ==
    ASSUME NEW n \in Nat, NEW c, Path(c, n), NEW lo \in 0 .. n, NEW w,
           \A k \in lo .. n : w[k] \in Nat,
           \A k \in (lo + 1) .. n : w[k] = w[k - 1] + Diff[c[k]]
    PROVE  /\ IsFiniteSet(Above(c, lo, n)) /\ Above(c, lo, n) \subseteq Block
           /\ SumOver(Diff, Above(c, lo, n)) = w[n] - w[lo]
<1> DEFINE Q == {j \in Nat : lo + j <= n =>
                    /\ IsFiniteSet(Above(c, lo, lo + j))
                    /\ SumOver(Diff, Above(c, lo, lo + j)) = w[lo + j] - w[lo]}
<1>1. 0 \in Q
  <2>1. Above(c, lo, lo + 0) = {}
    BY DEF Above
  <2>2. w[lo + 0] - w[lo] = 0
    <3>1. lo + 0 = lo /\ lo \in lo .. n
      OBVIOUS
    <3> QED
      BY <3>1
  <2> QED
    BY <2>1, <2>2, SumOfNone, FS_EmptySet
<1>2. ASSUME NEW j \in Nat, j \in Q PROVE j + 1 \in Q
  <2> SUFFICES ASSUME lo + (j + 1) <= n
               PROVE  /\ IsFiniteSet(Above(c, lo, lo + (j + 1)))
                      /\ SumOver(Diff, Above(c, lo, lo + (j + 1))) = w[lo + (j + 1)] - w[lo]
    OBVIOUS
  <2> DEFINE S == Above(c, lo, lo + j)
             m == lo + (j + 1)
             b == c[m]
  <2>1. IsFiniteSet(S) /\ SumOver(Diff, S) = w[lo + j] - w[lo]
    BY <1>2
  <2>2. m \in (lo + 1) .. n /\ m - 1 = lo + j /\ lo + j \in lo .. n /\ m \in 0 .. n /\ lo \in lo .. n
    OBVIOUS
  <2>3. b \in Block /\ Height[b] = m
    BY <2>2 DEF Path
  <2>4. b \notin S /\ S \subseteq Block
    <3>1. \A k \in (lo + 1) .. (lo + j) : k \in 0 .. n /\ k # m
      BY <2>2
    <3>2. \A k \in (lo + 1) .. (lo + j) : c[k] \in Block /\ Height[c[k]] = k
      BY <3>1 DEF Path
    <3> QED
      BY <2>3, <3>1, <3>2 DEF Above
  <2>5. Above(c, lo, m) = S \cup {b}
    <3>1. (lo + 1) .. m = ((lo + 1) .. (lo + j)) \cup {m}
      BY <2>2
    <3> QED
      BY <3>1 DEF Above
  <2>6. w[m] = w[lo + j] + Diff[b] /\ w[lo + j] \in Nat /\ w[lo] \in Nat
    BY <2>2
  <2>7. \A y \in S \cup {b} : Diff[y] \in Int
    BY <2>3, <2>4, TreeAssumption
  <2> HIDE DEF S, b
  <2>8. IsFiniteSet(S \cup {b})
    BY <2>1, FS_AddElement
  <2>9. SumOver(Diff, S \cup {b}) = SumOver(Diff, S) + Diff[b] /\ Diff[b] \in Int
    BY <2>1, <2>4, <2>7, SumOfOneMore
  <2>10. SumOver(Diff, S \cup {b}) = w[m] - w[lo]
    <3> HIDE DEF m
    <3> QED
      BY <2>1, <2>6, <2>9
  <2> HIDE DEF m
  <2>11. IsFiniteSet(Above(c, lo, m)) /\ SumOver(Diff, Above(c, lo, m)) = w[m] - w[lo]
    BY <2>5, <2>8, <2>10
  <2> QED
    BY <2>11 DEF m
<1>3. Nat \subseteq Q
  <2> HIDE DEF Q
  <2> QED
    BY <1>1, <1>2, NumberInduction
<1>4. n - lo \in Nat /\ lo + (n - lo) = n
  OBVIOUS
<1>5. n - lo \in Q
  BY <1>3, <1>4
<1>6. Above(c, lo, n) \subseteq Block
  <2>1. \A k \in (lo + 1) .. n : k \in 0 .. n
    OBVIOUS
  <2> QED
    BY <2>1 DEF Above, Path
<1> QED
  BY <1>4, <1>5, <1>6

\* Two paths that share their blocks up to height lo: what one has beyond the
\* other, and what both have above lo.
LEMMA PathsPart ==
    ASSUME NEW n \in Nat, NEW m \in Nat, NEW c, NEW o, Path(c, n), Path(o, m),
           NEW lo \in Nat, lo <= n, lo <= m, \A k \in 0 .. lo : c[k] = o[k]
    PROVE  /\ Served!Ancestors(c[n]) \ Served!Ancestors(o[m]) = Above(c, lo, n) \ Above(o, lo, m)
           /\ c[lo] \in Served!Ancestors(c[n]) \cap Served!Ancestors(o[m])
<1> DEFINE C == {c[k] : k \in 0 .. n}
           O == {o[k] : k \in 0 .. m}
<1>1. Served!Ancestors(c[n]) = C /\ Served!Ancestors(o[m]) = O
  BY AncestorsOnPath
<1>2. C = {c[k] : k \in 0 .. lo} \cup Above(c, lo, n)
  <2>1. 0 .. n = (0 .. lo) \cup ((lo + 1) .. n)
    OBVIOUS
  <2> QED
    BY <2>1 DEF Above
<1>3. O = {c[k] : k \in 0 .. lo} \cup Above(o, lo, m)
  <2>1. 0 .. m = (0 .. lo) \cup ((lo + 1) .. m)
    OBVIOUS
  <2> QED
    BY <2>1 DEF Above
<1>4. \A x \in Above(c, lo, n) : x \notin {c[k] : k \in 0 .. lo}
  <2> SUFFICES ASSUME NEW i \in (lo + 1) .. n, NEW k \in 0 .. lo, c[i] = c[k]
               PROVE  FALSE
    BY DEF Above
  <2>1. i \in 0 .. n /\ k \in 0 .. n /\ i # k
    OBVIOUS
  <2> QED
    BY <2>1 DEF Path
<1>5. c[lo] \in {c[k] : k \in 0 .. lo}
  BY lo \in 0 .. lo
<1> HIDE DEF C, O
<1> QED
  BY <1>1, <1>2, <1>3, <1>4, <1>5

LEMMA ServedWorkIsSum ==
    ASSUME NEW b, NEW c
    PROVE  Served!Work(b, c) = SumOver(Diff, Served!Ancestors(b) \ Served!Ancestors(c))
BY DEF Served!Work, SumOver, MapThenSumSet, MapThenFoldSet, Served!MapThenSumSet,
       Served!MapThenFoldSet

\* What two branches share counts for neither: the decision stands without it.
LEMMA SharedWorkCancels ==
    ASSUME NEW new \in Nat, NEW old \in Nat, NEW shared \in Nat, NEW k \in Nat \ {0, 1}
    PROVE  /\ new > old => new - shared > old - shared
           /\ new >= k * old => new - shared >= k * (old - shared)
<1>1. k * (old - shared) = k * old - k * shared /\ k * old \in Nat /\ k * shared \in Nat
  OBVIOUS
<1>2. k * shared >= shared
  OBVIOUS
<1> QED
  BY <1>1, <1>2

---------------------------------------------------------------------------
\* The refinement of BestChain: the steps.

\* Genesis stays at the bottom, an idle node saves nothing, and a call is deep
\* when its fork lies below the checkpoint it found.
ServedInv ==
    /\ index[0] = Genesis
    /\ pc = "idle" => cur = NoBlock
    /\ batch # <<>> => (before.deep <=> fork < before.fin)

LEMMA ServedInit == Init => ServedInv
<1>1. 0 \in Heights
  BY TreeAssumption DEF Heights
<1> QED
  BY <1>1 DEF Init, DbInit, CallInit, ServedInv

\* The row of genesis is written once.
LEMMA GenesisStays ==
    ASSUME IInv, ServedInv, [SteadyNext]_vars
    PROVE  index'[0] = index[0]
<1>1. /\ DbTypeOK /\ LedgerInv /\ version \in Nat /\ 0 \in Heights /\ 0 \in 0 .. CanonicalTop
      /\ index \in [Heights -> Block \cup {NoBlock}]
  BY TypeSplit, LedgerNumbers, TreeAssumption DEF IInv, DbTypeOK, Heights
<1>2. ASSUME NEW current, NEW target \in Int, target >= 0, RollbackState(current, target)
      PROVE  index'[0] = index[0]
  <2>1. 0 \notin (target + 1) .. current
    BY <1>2
  <2> QED
    BY <1>1, <1>2, <2>1 DEF RollbackState, DropBlocks, Orphaned, dbVars
<1>3. CASE RollBack \/ Recover
  <2>1. fork \in Int /\ fork >= 0
    BY TypeSplit, TreeAssumption DEF IInv, CallTypeOK, Heights
  <2> QED
    BY <1>2, <1>3, <2>1 DEF RollBack, Recover, dbVars
<1>4. CASE StepBack
  <2>1. version - 1 \in Int /\ version - 1 >= 0
    BY <1>1, <1>4, LedgerNumbers DEF StepBack
  <2> QED
    BY <1>2, <1>4, <2>1 DEF StepBack
<1>5. CASE Apply
  <2> DEFINE b == batch[pos]
  <2>1. Height[b] > 0 /\ CommitBlockAtomic(b, rolling + Diff[b])
    BY <1>5 DEF Apply, Applies, Executable
  <2>2. index' = [index EXCEPT ![Height[b]] = b]
    BY <2>1 DEF CommitBlockAtomic
  <2> QED
    BY <1>1, <2>1, <2>2
<1>6. CASE Adopt
  BY <1>6, AdoptKeepsRows
<1>7. CASE SaveIndex
  BY <1>1, <1>7, TreeAssumption DEF SaveIndex, PutBlockHash, ServedInv
<1>8. CASE UNCHANGED index
  BY <1>8
<1> QED
  BY <1>3, <1>4, <1>5, <1>6, <1>7, <1>8 DEF SteadyNext, CallStep, Reject, Accept, NewBlock,
     ApplyFails, Deadline, Restored, Replay, SaveHeader, SaveBody, Finalize, vars, dbVars

LEMMA ServedStep == ASSUME IInv, ServedInv, [SteadyNext]_vars PROVE ServedInv'
<1>1. index'[0] = Genesis
  BY GenesisStays DEF ServedInv
<1>2. CASE \E s : Answer(s)
  BY <1>1, <1>2 DEF Answer, ClearCall, ServedInv
<1>3. CASE \E B \in Batch : Accept(B)
  <2>1. PICK B \in Batch : Accept(B)
    BY <1>3
  <2>2. /\ pc' = "rollback" /\ fork' = ForkHeight(B)
        /\ before'.fin = finalized /\ before'.deep = DeepReorg(B)
    BY <2>1 DEF Accept
  <2>3. DeepReorg(B) <=> ForkHeight(B) < finalized
    BY DEF DeepReorg
  <2> QED
    BY <1>1, <2>2, <2>3 DEF ServedInv
<1>4. CASE pc' # "idle" /\ UNCHANGED <<batch, before, fork>>
  BY <1>1, <1>4 DEF ServedInv
<1>5. CASE UNCHANGED <<pc, callVars>>
  BY <1>1, <1>5 DEF ServedInv, callVars
<1>6. CASE \E B \in Batch : Reject(B)
  BY <1>2, <1>6 DEF Reject
<1>7. CASE \E b \in Block : NewBlock(b)
  BY <1>4, <1>7 DEF NewBlock
<1>8. CASE CallStep
  BY <1>2, <1>4, <1>8 DEF CallStep, RollBack, Apply, ApplyFails, Deadline, Adopt, Recover, Restored,
     Replay, SaveHeader, SaveBody, SaveIndex, Finalize, callVars
<1>9. CASE StepBack \/ UNCHANGED vars
  BY <1>5, <1>9 DEF StepBack, vars
<1> QED
  BY <1>3, <1>6, <1>7, <1>8, <1>9 DEF SteadyNext

\* The canonical rows are a path of the tree.
LEMMA RowsArePath ==
    ASSUME IInv, ServedInv, ~TopRowMissing
    PROVE  Path(index, version)
<1>1. DbTypeOK /\ LedgerInv
  BY TypeSplit DEF IInv
<1> QED
  BY <1>1, LedgerNumbers DEF Path, ServedInv, LedgerInv, CanonicalChain

\* Adopting the new chain is one switch of the best block.
LEMMA AdoptSwitches ==
    ASSUME IInv, SteadyInv, WorkInv, ServedInv, Adopt
    PROVE  Served!Switch(index[version])
<1>1. /\ DbTypeOK /\ LedgerInv /\ ~TopRowMissing /\ batch # <<>> /\ pc = "apply"
      /\ version = fork + pos - 1 /\ pos \in 1 .. Len(batch) + 1
      /\ fork \in Heights /\ tip \in Heights /\ forkWeight \in Nat /\ before.fin \in Heights
      /\ weight[index[fork]] = forkWeight
  BY TypeSplit DEF IInv, PhaseInv, CallTypeOK, Snapshot, Adopt, SteadyInv, RollingFollows
<1>2. PICK T \in [Heights -> State], W \in [Heights -> Nat] : OldChain(T, W)
  BY <1>1 DEF SteadyInv, RestoreInv
<1>3. /\ version \in Nat /\ fork \in Nat /\ tip \in Nat /\ fork <= version /\ fork <= tip
      /\ Heights \subseteq Nat /\ 0 .. version \subseteq Heights /\ CanonicalTop = version
      /\ before.fin \in Nat /\ 0 .. tip \subseteq Heights
      /\ \A k \in 0 .. version : index[k] \in headers /\ weight[index[k]] \in Nat
                                 /\ index[k] \in Block /\ Height[index[k]] = k
  <2>1. fork \in Nat /\ tip \in Nat /\ Heights \subseteq Nat /\ before.fin \in Nat
        /\ 0 .. tip \subseteq Heights
    BY <1>1, TreeAssumption DEF Heights
  <2> QED
    BY SMTT(30), <1>1, <1>2, <2>1, LedgerNumbers DEF OldChain
<1> DEFINE o == [k \in 0 .. tip |-> IF k <= fork THEN index[k] ELSE backup[k]]
           w == [k \in 0 .. version |-> weight[index[k]]]
           new == Above(index, fork, version)
           old == Above(o, fork, tip)
           best == index[version]
<1>4. Path(index, version)
  BY <1>1, RowsArePath
<1>5. Path(o, tip) /\ o[tip] = before.tip /\ \A k \in 0 .. fork : index[k] = o[k]
  <2>1. \A k \in (fork + 1) .. tip : backup[k] \in Block /\ Height[backup[k]] = k
    <3> SUFFICES ASSUME NEW k \in (fork + 1) .. tip
                 PROVE  backup[k] \in Block /\ Height[backup[k]] = k
      OBVIOUS
    <3>1. backup[k] \in Block /\ k \in Heights
      BY <1>2, <1>3, TreeAssumption DEF OldChain
    <3> QED
      BY <3>1, TreeAssumption DEF IInv, PhaseInv, BackupAtHeight
  <2>2. \A k \in 0 .. tip : o[k] \in Block /\ Height[o[k]] = k
    BY <1>3, <2>1
  <2>3. ASSUME NEW k \in 1 .. tip PROVE Parent[o[k]] = o[k - 1]
    <3>1. CASE k <= fork
      BY SMTT(30), <1>3, <1>4, <3>1 DEF Path
    <3>2. CASE k > fork
      <4>1. Parent[backup[k]] = OldBlock(k - 1) /\ o[k] = backup[k]
        BY <1>2, <1>3, <3>2 DEF OldChain
      <4>2. OldBlock(k - 1) = o[k - 1]
        BY <1>3, <3>2 DEF OldBlock
      <4> QED
        BY <4>1, <4>2
    <3> QED
      BY <1>3, <3>1, <3>2
  <2>4. o[0] = Genesis
    BY <1>3 DEF ServedInv
  <2>5. o[tip] = before.tip
    BY <1>2, <1>3 DEF OldChain, OldBlock
  <2>6. \A k \in 0 .. fork : index[k] = o[k]
    BY <1>3
  <2> HIDE DEF o
  <2> QED
    BY <2>2, <2>3, <2>4, <2>5, <2>6 DEF Path
<1>6. IsFiniteSet(new) /\ new \subseteq Block /\ SumOver(Diff, new) = weight[best] - forkWeight
  <2>1. \A k \in fork .. version : w[k] \in Nat
    BY <1>3
  <2>2. \A k \in (fork + 1) .. version : w[k] = w[k - 1] + Diff[index[k]]
    BY <1>3 DEF SteadyInv, WeightsAccumulate
  <2>3. w[version] = weight[best] /\ w[fork] = forkWeight /\ fork \in 0 .. version
    BY <1>1, <1>3
  <2>4. version \in Nat
    BY <1>3
  <2> HIDE DEF w
  <2> QED
    BY <1>4, <2>1, <2>2, <2>3, <2>4, WorkAbove
<1>7. IsFiniteSet(old) /\ old \subseteq Block /\ SumOver(Diff, old) = before.weight - forkWeight
  <2>1. \A k \in fork .. tip : W[k] \in Nat
    <3>1. \A k \in fork .. tip : k \in Heights
      BY <1>3
    <3> QED
      BY <3>1
  <2>2. \A k \in (fork + 1) .. tip : W[k] = W[k - 1] + Diff[o[k]]
    BY <1>2, <1>3 DEF OldChain
  <2>3. W[tip] = before.weight /\ W[fork] = forkWeight /\ fork \in 0 .. tip
    BY <1>2, <1>3 DEF OldChain
  <2> HIDE DEF o
  <2> QED
    BY <1>3, <1>5, <2>1, <2>2, <2>3, WorkAbove
<1> DEFINE x == SumOver(Diff, new \cap old)
           N == SumOver(Diff, new)
           M == SumOver(Diff, old)
<1>8. /\ N \in Nat /\ M \in Nat /\ x \in Nat
      /\ SumOver(Diff, new \ old) = N - x /\ SumOver(Diff, old \ new) = M - x
  <2>1. (\A y \in new : Diff[y] \in Nat) /\ (\A y \in old : Diff[y] \in Nat)
    BY <1>6, <1>7, TreeAssumption
  <2>2. new \ (new \cap old) = new \ old /\ old \ (new \cap old) = old \ new
        /\ new \cap old \in SUBSET new /\ new \cap old \in SUBSET old
    OBVIOUS
  <2> HIDE DEF new, old
  <2>3. /\ SumOver(Diff, new) \in Nat /\ SumOver(Diff, old) \in Nat
        /\ SumOver(Diff, new \cap old) \in Nat
        /\ SumOver(Diff, new \ old) \in Nat /\ SumOver(Diff, old \ new) \in Nat
    <3>1. IsFiniteSet(new \ old) /\ IsFiniteSet(old \ new) /\ IsFiniteSet(new \cap old)
      BY <1>6, <1>7, FS_Subset, <2>2
    <3> QED
      BY <1>6, <1>7, <2>1, <3>1, SumOfNaturals
  <2>4. /\ SumOver(Diff, new) = SumOver(Diff, new \cap old) + SumOver(Diff, new \ old)
        /\ SumOver(Diff, old) = SumOver(Diff, new \cap old) + SumOver(Diff, old \ new)
    BY <1>6, <1>7, <2>1, <2>2, SumOfPart
  <2> QED
    BY <2>3, <2>4
<1>9. ServedTip = before.tip /\ ServedCheckpoint = before.fin
  BY <1>1 DEF ServedTip, ServedCheckpoint
<1> HIDE DEF o
<1>10. /\ Served!Ancestors(best) \ Served!Ancestors(before.tip) = new \ old
       /\ Served!Ancestors(before.tip) \ Served!Ancestors(best) = old \ new
       /\ index[fork] \in Served!Ancestors(best) \cap Served!Ancestors(before.tip)
  BY <1>3, <1>4, <1>5, PathsPart
<1> HIDE DEF new, old
<1>11. Served!Work(best, before.tip) = N - x /\ Served!Work(before.tip, best) = M - x
  BY <1>8, <1>10, ServedWorkIsSum
<1>12. /\ weight[best] > before.weight
       /\ before.deep => weight[best] - forkWeight >= OverrideFactor * (before.weight - forkWeight)
  <2>1. TipWeight' = weight[best]
    <3>1. index' = index /\ headers' = headers /\ weight' = weight /\ version' = version
      BY AdoptKeepsRows DEF Adopt
    <3>2. index[version] \in headers
      BY <1>3
    <3> QED
      BY <3>1, <3>2 DEF TipWeight
  <2> QED
    BY <2>1, AdoptWins
<1>13. N > M /\ (before.deep => N >= OverrideFactor * M)
  <2>1. weight[best] \in Nat /\ before.weight \in Nat
    BY <1>3, TypeSplit DEF IInv, CallTypeOK, Snapshot
  <2> HIDE DEF N, M, best
  <2>2. N = weight[best] - forkWeight /\ M = before.weight - forkWeight
    BY <1>6, <1>7 DEF N, M
  <2> QED
    BY SMTT(30), <1>1, <1>12, <2>1, <2>2
<1>14. Served!PartBelow(best, before.tip, before.fin) => before.deep
  <2>1. Served!PartBelow(best, before.tip, before.fin) => Height[index[fork]] < before.fin
    BY <1>10 DEF Served!PartBelow
  <2>2. Height[index[fork]] = fork
    BY <1>3
  <2> QED
    BY <1>1, <2>1, <2>2 DEF ServedInv
<1>15. ServedTip' = best
  <2>1. batch' = <<>> /\ cur' = NoBlock
    BY DEF Adopt, Answer, ClearCall
  <2>2. index' = index /\ version' = version
    BY AdoptKeepsRows DEF Adopt
  <2> QED
    BY <2>1, <2>2 DEF ServedTip
<1> HIDE DEF N, M, x, best
<1>16. N - x > M - x /\ (before.deep => N - x >= OverrideFactor * (M - x))
  BY <1>8, <1>13, SharedWorkCancels, BatchAssumption
<1>17. Served!Switch(best)
  BY <1>9, <1>11, <1>14, <1>15, <1>16 DEF Served!Switch
<1> QED
  BY <1>17 DEF best

\* Between calls the checkpoint is not above the tip.
LEMMA ServedBelow ==
    ASSUME IInv, ServedInv, pc = "idle"
    PROVE  /\ ServedTip = index[version] /\ ServedCheckpoint = finalized
           /\ ServedCheckpoint <= Height[ServedTip]
<1>1. /\ DbTypeOK /\ LedgerInv /\ ~TopRowMissing /\ batch = <<>> /\ cur = NoBlock
  BY TypeSplit DEF IInv, PhaseInv, ServedInv
<1>2. version \in 0 .. CanonicalTop /\ finalized <= version
  BY <1>1, LedgerNumbers DEF LedgerInv, CheckpointBelow
<1> QED
  BY <1>1, <1>2, LedgerNumbers DEF ServedTip, ServedCheckpoint

\* The same after a step.
LEMMA ServedBelowNext ==
    IInv' /\ ServedInv' /\ pc' = "idle"
        => /\ ServedTip' = index'[version'] /\ ServedCheckpoint' = finalized'
           /\ ServedCheckpoint' <= Height[ServedTip']
<1> DEFINE Below == /\ ServedTip = index[version] /\ ServedCheckpoint = finalized
                    /\ ServedCheckpoint <= Height[ServedTip]
<1>1. IInv /\ ServedInv /\ pc = "idle" => Below
  BY ServedBelow
<1>2. (IInv /\ ServedInv /\ pc = "idle" => Below)'
  BY <1>1, PTL
<1> QED
  BY <1>2

\* A call in progress shows what it found.
LEMMA CallHidden ==
    ASSUME batch # <<>>, UNCHANGED <<batch, before>>
    PROVE  UNCHANGED <<ServedTip, ServedCheckpoint>>
BY DEF ServedTip, ServedCheckpoint

LEMMA AcceptHidden ==
    ASSUME IInv, ServedInv, NEW B \in Batch, Accept(B)
    PROVE  UNCHANGED <<ServedTip, ServedCheckpoint>>
<1>1. pc = "idle" /\ batch' = B /\ before'.tip = index[version] /\ before'.fin = finalized
  BY DEF Accept
<1>2. B # <<>>
  BY BatchAssumption
<1> QED
  BY <1>1, <1>2, ServedBelow DEF ServedTip, ServedCheckpoint

LEMMA NewBlockHidden ==
    ASSUME IInv, ServedInv, NEW b \in Block, NewBlock(b)
    PROVE  UNCHANGED <<ServedTip, ServedCheckpoint>>
<1>1. /\ pc = "idle" /\ batch = <<>> /\ index[version] = Parent[b] /\ cur' = b
      /\ UNCHANGED <<batch, finalized>>
  BY DEF NewBlock, IInv, PhaseInv
<1>2. b # NoBlock
  BY TreeAssumption
<1> QED
  BY <1>1, <1>2, ServedBelow DEF ServedTip, ServedCheckpoint

LEMMA SaveHidden ==
    ASSUME IInv, SaveHeader \/ SaveBody \/ SaveIndex
    PROVE  UNCHANGED <<ServedTip, ServedCheckpoint>>
<1>1. cur \in Block /\ UNCHANGED <<batch, before, cur, finalized>>
  BY DEF IInv, PhaseInv, SavingBlock, SaveHeader, SaveBody, SaveIndex, callVars
<1>2. cur # NoBlock
  BY <1>1, TreeAssumption
<1> QED
  BY <1>1, <1>2 DEF ServedTip, ServedCheckpoint

\* The last write of a mined block makes it the best block.
LEMMA FinalizeServes ==
    ASSUME IInv, IInv', ServedInv', Finalize
    PROVE  \/ UNCHANGED <<ServedTip, ServedCheckpoint>>
           \/ Served!Next /\ ServedCheckpoint' <= Height[ServedTip']
<1>1. CASE batch # <<>>
  BY <1>1, CallHidden DEF Finalize
<1>2. CASE batch = <<>>
  <2>1. /\ DbTypeOK /\ LedgerInv /\ SavingBlock /\ pc = "finalize" /\ index[version] = cur
        /\ pc' = "idle" /\ UNCHANGED <<index, version>>
    BY <1>2, TypeSplit DEF IInv, PhaseInv, Finalize, SavingBlock, Answer
  <2>2. /\ cur \in Block /\ Height[cur] = version /\ Parent[cur] = index[version - 1]
        /\ version - 1 \in 0 .. CanonicalTop /\ version > 0 /\ version \in Nat
    <3>1. cur # NoBlock /\ cur \in Block
      BY <2>1, TreeAssumption DEF SavingBlock
    <3> QED
      BY <2>1, <3>1, LedgerNumbers DEF SavingBlock, TopRowMissing
  <2>3. Height[index[version - 1]] = version - 1
    BY <2>1, <2>2, LedgerNumbers
  <2>4. ServedTip = Parent[cur] /\ ServedTip' = cur
    <3>1. cur # NoBlock
      BY <2>2, TreeAssumption
    <3> QED
      BY <1>2, <2>1, <3>1, ServedBelowNext DEF ServedTip
  <2>5. Served!Extend(cur)
    BY <2>2, <2>3, <2>4 DEF Served!Extend
  <2>6. ServedCheckpoint' <= Height[ServedTip']
    BY <2>1, ServedBelowNext
  <2> QED
    BY <2>2, <2>5, <2>6 DEF Served!Next
<1> QED
  BY <1>1, <1>2

\* A restored call has at most moved the checkpoint.
LEMMA RestoredServes ==
    ASSUME IInv, SteadyInv, IInv', ServedInv', Restored
    PROVE  \/ UNCHANGED <<ServedTip, ServedCheckpoint>>
           \/ Served!Next /\ ServedCheckpoint' <= Height[ServedTip']
<1>1. batch # <<>> /\ pc' = "idle"
  BY DEF IInv, PhaseInv, Restored, Answer
<1>2. ServedTip = before.tip /\ index'[version'] = before.tip
  BY <1>1, RestoredWhole DEF ServedTip
<1>3. ServedTip' = index'[version'] /\ ServedCheckpoint' <= Height[ServedTip']
  BY <1>1, ServedBelowNext
<1> QED
  BY <1>2, <1>3 DEF Served!Next, Served!Shift

\* One block back above the checkpoint.
LEMMA StepBackServes ==
    ASSUME IInv, ServedInv, IInv', ServedInv', StepBack
    PROVE  Served!Next /\ ServedCheckpoint' <= Height[ServedTip']
<1>1. /\ DbTypeOK /\ LedgerInv /\ ~TopRowMissing /\ pc = "idle" /\ pc' = "idle"
      /\ version > finalized /\ RollbackState(version, version - 1)
  BY TypeSplit DEF IInv, PhaseInv, StepBack
<1>2. /\ version \in Nat /\ finalized \in Nat /\ version \in 1 .. CanonicalTop
      /\ CanonicalTop = version /\ version - 1 \in Heights /\ version \in 0 .. version
  BY <1>1, LedgerNumbers, TreeAssumption DEF Heights
<1>3. Height[index[version]] = version /\ Parent[index[version]] = index[version - 1]
  BY <1>1, <1>2 DEF LedgerInv, CanonicalChain
<1>4. DropBlocks(version, version - 1) /\ finalized' = finalized
  BY <1>1, <1>2 DEF RollbackState, RollbackAllowed
<1>5. version' = version - 1 /\ index'[version - 1] = index[version - 1]
  BY <1>2, <1>4 DEF DropBlocks, Orphaned
<1>6. /\ ServedTip = index[version] /\ ServedTip' = index[version - 1]
      /\ ServedCheckpoint = finalized /\ ServedCheckpoint' = finalized
      /\ ServedCheckpoint' <= Height[ServedTip']
  <2>1. ServedTip = index[version] /\ ServedCheckpoint = finalized
    BY <1>1, ServedBelow
  <2>2. /\ ServedTip' = index'[version'] /\ ServedCheckpoint' = finalized'
        /\ ServedCheckpoint' <= Height[ServedTip']
    BY <1>1, ServedBelowNext
  <2> QED
    BY <1>4, <1>5, <2>1, <2>2
<1>7. Served!StepBack
  BY <1>1, <1>3, <1>6 DEF Served!StepBack
<1> QED
  BY <1>6, <1>7 DEF Served!Next

\* Every step of the detailed node is a step of the abstract one, or none.
LEMMA StepServes ==
    ASSUME ShortBatches, IInv, SteadyInv, WorkInv, ServedInv, [SteadyNext]_vars
    PROVE  [Served!Next /\ ServedCheckpoint' <= Height[ServedTip']]_<<ServedTip, ServedCheckpoint>>
<1> DEFINE Hidden == UNCHANGED <<ServedTip, ServedCheckpoint>>
           Seen == Served!Next /\ ServedCheckpoint' <= Height[ServedTip']
<1>1. IInv' /\ ServedInv'
  <2>1. [Next]_vars
    BY DEF Next
  <2> QED
    BY <2>1, NextKeepsInv, ServedStep
<1>2. CASE \E B \in Batch : Reject(B) \/ Accept(B)
  <2>1. ASSUME NEW B \in Batch, Reject(B) PROVE Hidden
    <3>1. pc = "idle" /\ pc' = "idle" /\ UNCHANGED dbVars
      BY <2>1 DEF Reject, Answer
    <3>2. ServedTip = index[version] /\ ServedCheckpoint = finalized
      BY <3>1, ServedBelow
    <3>3. ServedTip' = index'[version'] /\ ServedCheckpoint' = finalized'
      BY <1>1, <3>1, ServedBelowNext
    <3> QED
      BY <3>1, <3>2, <3>3 DEF dbVars
  <2> QED
    BY <1>2, <2>1, AcceptHidden
<1>3. CASE \E b \in Block : NewBlock(b)
  BY <1>3, NewBlockHidden
<1>4. CASE RollBack
  <2>1. ~(tip > fork /\ ~RollbackAllowed(fork)) /\ batch # <<>>
    BY <1>4 DEF IInv, PhaseInv, RollBack, RollbackAllowed
  <2>2. UNCHANGED <<batch, before>>
    BY <1>4, <2>1 DEF RollBack
  <2> QED
    BY <2>1, <2>2, CallHidden
<1>5. CASE Apply \/ ApplyFails \/ Deadline \/ Recover
  <2>1. batch # <<>> /\ UNCHANGED <<batch, before>>
    BY <1>5 DEF IInv, PhaseInv, Apply, ApplyFails, Deadline, Recover, callVars
  <2> QED
    BY <2>1, CallHidden
<1>6. CASE \E h \in Heights : Replay(h)
  <2>1. PICK h \in Heights : Replay(h)
    BY <1>6
  <2>2. batch # <<>> /\ pc = "replay" /\ NextReplay(h)
    BY <2>1 DEF IInv, PhaseInv, Replay
  <2>3. PICK T \in [Heights -> State], W \in [Heights -> Nat] : OldChain(T, W) /\ Rebuilt(T, W)
    BY <2>2 DEF SteadyInv, RestoreInv, Replaying
  <2>4. Executable(backup[h])
    BY <2>2, <2>3, ReplayIsNext
  <2>5. UNCHANGED <<batch, before>>
    BY <2>1, <2>4 DEF Replay
  <2> QED
    BY <2>2, <2>5, CallHidden
<1>7. CASE Adopt
  <2>1. pc' = "idle"
    BY <1>7 DEF Adopt, Answer
  <2>2. ServedCheckpoint' <= Height[ServedTip']
    BY <1>1, <2>1, ServedBelowNext
  <2>3. Served!Switch(index[version]) /\ index[version] \in Block
    <3>1. DbTypeOK /\ LedgerInv /\ ~TopRowMissing
      BY <1>7, TypeSplit DEF IInv, PhaseInv, Adopt
    <3>2. version \in 0 .. CanonicalTop
      BY <3>1, LedgerNumbers
    <3> QED
      BY <1>7, <3>1, <3>2, AdoptSwitches, LedgerNumbers
  <2> QED
    BY <2>2, <2>3 DEF Served!Next
<1>8. CASE UNCHANGED vars
  BY <1>8 DEF vars, callVars, dbVars, ServedTip, ServedCheckpoint
<1> QED
  BY <1>1, <1>2, <1>3, <1>4, <1>5, <1>6, <1>7, <1>8, SaveHidden, FinalizeServes, RestoredServes,
     StepBackServes DEF SteadyNext, CallStep

\* Seen between calls, the whole of fork choice and reorganisation is BestChain:
\* the best block moves to a child, to a branch with more work, or back above the
\* checkpoint, and never otherwise.
THEOREM ImplementsBestChain == ASSUME ShortBatches PROVE SteadySpec => ServesBestChain
<1>1. Init => Served!Init
  <2>1. Init => index[version] = Genesis
    BY TreeAssumption DEF Init, DbInit, Heights
  <2> QED
    BY <2>1 DEF Init, CallInit, DbInit, ServedTip, ServedCheckpoint, Served!Init
<1>2. Init => WorkInv /\ ServedInv
  BY WorkInvInit, ServedInit
<1>3. IInv /\ SteadyInv /\ WorkInv /\ ServedInv /\ [SteadyNext]_vars => WorkInv' /\ ServedInv'
  <2>1. [SteadyNext]_vars => [Next]_vars
    BY DEF Next
  <2> QED
    BY <2>1, WorkStep, ServedStep
<1>4. SteadySpec => [](IInv /\ SteadyInv)
  BY SteadyInvariance
<1>5. SteadySpec => [](WorkInv /\ ServedInv)
  BY <1>2, <1>3, <1>4, PTL DEF SteadySpec
<1>6. IInv /\ SteadyInv /\ WorkInv /\ ServedInv /\ [SteadyNext]_vars
        => [Served!Next /\ ServedCheckpoint' <= Height[ServedTip']]_<<ServedTip, ServedCheckpoint>>
  BY StepServes
<1> QED
  BY <1>1, <1>4, <1>5, <1>6, PTL DEF SteadySpec, ServesBestChain, Served!Spec

---------------------------------------------------------------------------
\* The refinement of Ledger: what it computes along a path of the tree.

LEMMA BlocksAreTree ==
    ASSUME LedgerSetting
    PROVE  IsTree(Block, Genesis, Parent, Height)
BY TreeAssumption DEF LedgerSetting, IsTree, Heights

LEMMA PathEquation ==
    ASSUME LedgerSetting
    PROVE  \A b \in Block : Promise!PathTo[b] =
              IF b = Genesis THEN <<b>> ELSE Append(Promise!PathTo[Parent[b]], b)
<1> DEFINE V == Seq(Block)
           v0 == <<Genesis>>
           step == [b \in Block |-> [s \in V |-> Append(s, b)]]
<1>1. v0 \in V /\ step \in [Block -> [V -> V]]
  BY TreeAssumption
<1>2. \A b \in Block, s \in V : step[b][s] = Append(s, b)
  OBVIOUS
<1>3. PICK f \in [Block -> V] : Descends(f, Block, Genesis, Parent, v0, step)
  <2> HIDE DEF V, v0, step
  <2> QED
    BY <1>1, BlocksAreTree, ByParents
<1> HIDE DEF step
<1>4. \A b \in Block : f[b] = IF b = Genesis THEN <<b>> ELSE Append(f[Parent[b]], b)
  BY <1>2, <1>3, TreeAssumption DEF Descends
<1>5. f = [b \in Block |-> IF b = Genesis THEN <<b>> ELSE Append(f[Parent[b]], b)]
  BY <1>4
<1>6. Promise!PathTo =
         [b \in Block |-> IF b = Genesis THEN <<b>> ELSE Append(Promise!PathTo[Parent[b]], b)]
  BY <1>5 DEF Promise!PathTo
<1> QED
  BY <1>6

LEMMA WeightEquation ==
    ASSUME LedgerSetting
    PROVE  \A b \in Block : Promise!AbsWeight[b] =
              IF b = Genesis THEN Diff[b] ELSE Promise!AbsWeight[Parent[b]] + Diff[b]
<1> DEFINE v0 == Diff[Genesis]
           step == [b \in Block |-> [w \in Int |-> w + Diff[b]]]
           V == Int
<1>1. v0 \in V /\ step \in [Block -> [V -> V]]
  BY TreeAssumption
<1>2. \A b \in Block, w \in V : step[b][w] = w + Diff[b]
  OBVIOUS
<1>3. PICK f \in [Block -> V] : Descends(f, Block, Genesis, Parent, v0, step)
  <2> HIDE DEF V, v0, step
  <2> QED
    BY <1>1, BlocksAreTree, ByParents
<1> HIDE DEF step
<1>4. \A b \in Block : f[b] = IF b = Genesis THEN Diff[b] ELSE f[Parent[b]] + Diff[b]
  BY <1>2, <1>3, TreeAssumption DEF Descends
<1>5. f = [b \in Block |-> IF b = Genesis THEN Diff[b] ELSE f[Parent[b]] + Diff[b]]
  BY <1>4
<1>6. Promise!AbsWeight =
         [b \in Block |-> IF b = Genesis THEN Diff[b] ELSE Promise!AbsWeight[Parent[b]] + Diff[b]]
  BY <1>5 DEF Promise!AbsWeight
<1> QED
  BY <1>6

\* The path to a block of a path is the path so far.
LEMMA PathIsNamed ==
    ASSUME LedgerSetting, NEW n \in Nat, NEW c, Path(c, n)
    PROVE  \A k \in 0 .. n : Promise!At(c[n], k) = c[k]
<1> DEFINE named == {h \in Nat : h <= n =>
                        Promise!PathTo[c[h]] = [i \in 1 .. (h + 1) |-> c[i - 1]]}
<1>1. 0 \in named
  <2>1. Promise!PathTo[c[0]] = <<Genesis>>
    BY PathEquation, TreeAssumption DEF Path
  <2>2. <<Genesis>> = [i \in 1 .. (0 + 1) |-> c[i - 1]]
    BY DEF Path
  <2> QED
    BY <2>1, <2>2
<1>2. ASSUME NEW h \in Nat, h \in named PROVE h + 1 \in named
  <2> SUFFICES ASSUME h + 1 <= n
               PROVE  Promise!PathTo[c[h + 1]] = [i \in 1 .. (h + 1 + 1) |-> c[i - 1]]
    OBVIOUS
  <2>1. h \in 0 .. n /\ h + 1 \in 0 .. n /\ h + 1 \in 1 .. n
    OBVIOUS
  <2>2. /\ c[h + 1] \in Block /\ Height[c[h + 1]] = h + 1 /\ Parent[c[h + 1]] = c[h + 1 - 1]
    BY <2>1 DEF Path
  <2>3. c[h + 1] # Genesis /\ c[h + 1 - 1] = c[h]
    BY <2>2, TreeAssumption
  <2>4. Promise!PathTo[c[h + 1]] = Append([i \in 1 .. (h + 1) |-> c[i - 1]], c[h + 1])
    <3>1. Promise!PathTo[c[h]] = [i \in 1 .. (h + 1) |-> c[i - 1]]
      BY <1>2, <2>1
    <3>2. Promise!PathTo[c[h + 1]] = Append(Promise!PathTo[Parent[c[h + 1]]], c[h + 1])
      BY <2>2, <2>3, PathEquation
    <3> QED
      BY <2>2, <2>3, <3>1, <3>2
  <2>5. \A i \in 1 .. (h + 1) : c[i - 1] \in Block
    BY <2>1 DEF Path
  <2> DEFINE s == [i \in 1 .. (h + 1) |-> c[i - 1]]
             t == [i \in 1 .. (h + 1 + 1) |-> c[i - 1]]
  <2>6. s \in Seq(Block) /\ Len(s) = h + 1
    BY <2>5
  <2>7. Append(s, c[h + 1]) = [i \in 1 .. (Len(s) + 1) |-> IF i = Len(s) + 1 THEN c[h + 1] ELSE s[i]]
    BY <2>2, <2>6
  <2>8. ASSUME NEW i \in 1 .. (h + 1 + 1)
        PROVE  (IF i = h + 1 + 1 THEN c[h + 1] ELSE s[i]) = c[i - 1]
    BY <2>8
  <2>9. Append(s, c[h + 1]) = t
    BY <2>6, <2>7, <2>8
  <2> QED
    BY <2>4, <2>9
<1> HIDE DEF named
<1>3. n \in named
  BY <1>1, <1>2, NumberInduction
<1>4. Promise!PathTo[c[n]] = [i \in 1 .. (n + 1) |-> c[i - 1]]
  BY <1>3 DEF named
<1>5. ASSUME NEW k \in 0 .. n PROVE Promise!PathTo[c[n]][k + 1] = c[k]
  <2>1. k + 1 \in 1 .. (n + 1) /\ k + 1 - 1 = k
    OBVIOUS
  <2> QED
    BY <1>4, <2>1
<1> QED
  BY <1>5 DEF Promise!At

\* A block is on the way to the top of a path when it is the path's at its height.
LEMMA OnNamedPath ==
    ASSUME LedgerSetting, NEW n \in Nat, NEW c, Path(c, n), NEW b \in Block
    PROVE  Promise!OnPath(b, c[n]) <=> Height[b] <= n /\ c[Height[b]] = b
<1>1. Height[c[n]] = n /\ Height[b] \in Nat
  BY TreeAssumption DEF Path, Heights
<1>2. Height[b] <= n => Promise!At(c[n], Height[b]) = c[Height[b]]
  BY <1>1, PathIsNamed
<1> QED
  BY <1>1, <1>2 DEF Promise!OnPath, Promise!HeightOf

\* Weights that grow by the work of each block of a path are Ledger's, up to what
\* they give genesis.
LEMMA WeightsAgree ==
    ASSUME LedgerSetting, NEW n \in Nat, NEW c, Path(c, n), NEW w,
           \A k \in 0 .. n : w[k] \in Nat,
           \A k \in 1 .. n : w[k] = w[k - 1] + Diff[c[k]]
    PROVE  \A k \in 0 .. n : Promise!AbsWeight[c[k]] = w[k] + (Diff[Genesis] - w[0])
<1> DEFINE good == {h \in Nat : h <= n =>
                       Promise!AbsWeight[c[h]] = w[h] + (Diff[Genesis] - w[0])}
<1>1. 0 \in good
  <2>1. Promise!AbsWeight[c[0]] = Diff[Genesis]
    BY WeightEquation, TreeAssumption DEF Path
  <2>2. Diff[Genesis] \in Nat /\ w[0] \in Nat
    BY TreeAssumption
  <2> QED
    BY <2>1, <2>2
<1>2. ASSUME NEW h \in Nat, h \in good PROVE h + 1 \in good
  <2> SUFFICES ASSUME h + 1 <= n
               PROVE  Promise!AbsWeight[c[h + 1]] = w[h + 1] + (Diff[Genesis] - w[0])
    OBVIOUS
  <2>1. h \in 0 .. n /\ h + 1 \in 0 .. n /\ h + 1 \in 1 .. n /\ 0 \in 0 .. n /\ h + 1 - 1 = h
    OBVIOUS
  <2>2. /\ c[h + 1] \in Block /\ Height[c[h + 1]] = h + 1 /\ Parent[c[h + 1]] = c[h]
    BY <2>1 DEF Path
  <2>3. c[h + 1] # Genesis
    BY <2>2, TreeAssumption
  <2>4. Promise!AbsWeight[c[h + 1]] = Promise!AbsWeight[c[h]] + Diff[c[h + 1]]
    BY <2>2, <2>3, WeightEquation
  <2>5. w[h + 1] = w[h] + Diff[c[h + 1]] /\ w[h] \in Nat /\ w[0] \in Nat
    BY <2>1
  <2>6. Diff[c[h + 1]] \in Nat /\ Diff[Genesis] \in Nat
    BY <2>2, TreeAssumption
  <2> QED
    BY <1>2, <2>4, <2>5, <2>6
<1> HIDE DEF good
<1>3. Nat \subseteq good
  BY <1>1, <1>2, NumberInduction
<1>4. ASSUME NEW k \in 0 .. n
      PROVE  Promise!AbsWeight[c[k]] = w[k] + (Diff[Genesis] - w[0])
  BY <1>3 DEF good
<1> QED
  BY <1>4

\* The blocks of a linked batch rise from its fork, in height and in weight.
LEMMA BatchRises ==
    ASSUME LedgerSetting, NEW B \in Batch, \A i \in 2 .. Len(B) : Parent[B[i]] = B[i - 1]
    PROVE  \A i \in 1 .. Len(B) :
              /\ B[i] \in Block
              /\ Height[B[i]] = ForkHeight(B) + i
              /\ Promise!AbsWeight[ForkBlock(B)] \in Int =>
                    Promise!AbsWeight[B[i]] = Promise!AbsWeight[ForkBlock(B)] + Work(B, i)
<1> DEFINE a == Promise!AbsWeight[ForkBlock(B)]
           good == {k \in Nat : k + 1 <= Len(B) =>
                       /\ Height[B[k + 1]] = ForkHeight(B) + (k + 1)
                       /\ a \in Int => Promise!AbsWeight[B[k + 1]] = a + Work(B, k + 1)}
<1>1. /\ B \in Seq(Block) /\ Len(B) \in Nat \ {0} /\ \A i \in 1 .. Len(B) : B[i] \in Block
  BY BatchAssumption
<1>2. /\ \A i \in 1 .. Len(B) : /\ B[i] # Genesis
                                /\ Height[B[i]] = Height[Parent[B[i]]] + 1
                                /\ Promise!AbsWeight[B[i]] = Promise!AbsWeight[Parent[B[i]]] + Diff[B[i]]
                                /\ Diff[B[i]] \in Nat
      /\ ForkHeight(B) \in Nat
  <2>1. \A i \in 1 .. Len(B) : B[i] # Genesis
    BY DEF LedgerSetting
  <2>2. ForkHeight(B) \in Nat
    BY <1>1, TreeAssumption DEF ForkHeight, ForkBlock, Heights
  <2> QED
    BY <1>1, <2>1, <2>2, WeightEquation, TreeAssumption DEF LedgerSetting
<1>3. /\ Work(B, 0) = 0 /\ \A k \in 0 .. Len(B) : Work(B, k) \in Nat
      /\ \A k \in 1 .. Len(B) : Work(B, k) = Work(B, k - 1) + Diff[B[k]]
  BY <1>1, WorkGrows
<1> HIDE DEF a
<1>4. 0 \in good
  <2>1. 1 \in 1 .. Len(B) /\ 1 - 1 = 0 /\ 0 + 1 = 1
    BY <1>1
  <2>2. Work(B, 1) = Diff[B[1]] /\ Diff[B[1]] \in Nat
    BY <1>2, <1>3, <2>1
  <2> QED
    BY <1>2, <2>1, <2>2 DEF a, ForkHeight, ForkBlock
<1>5. ASSUME NEW k \in Nat, k \in good PROVE k + 1 \in good
  <2> SUFFICES ASSUME k + 1 + 1 <= Len(B)
               PROVE  /\ Height[B[k + 1 + 1]] = ForkHeight(B) + (k + 1 + 1)
                      /\ a \in Int => Promise!AbsWeight[B[k + 1 + 1]] = a + Work(B, k + 1 + 1)
    OBVIOUS
  <2>1. /\ k + 1 + 1 \in 1 .. Len(B) /\ k + 1 + 1 \in 2 .. Len(B) /\ k + 1 + 1 - 1 = k + 1
        /\ k + 1 \in 0 .. Len(B) /\ k + 1 <= Len(B)
    BY <1>1
  <2>2. Parent[B[k + 1 + 1]] = B[k + 1]
    BY <2>1
  <2>3. /\ Height[B[k + 1]] = ForkHeight(B) + (k + 1)
        /\ a \in Int => Promise!AbsWeight[B[k + 1]] = a + Work(B, k + 1)
    BY <1>5, <2>1
  <2>4. /\ Work(B, k + 1 + 1) = Work(B, k + 1) + Diff[B[k + 1 + 1]]
        /\ Work(B, k + 1) \in Nat /\ Diff[B[k + 1 + 1]] \in Nat
    BY <1>2, <1>3, <2>1
  <2>5. /\ Height[B[k + 1 + 1]] = Height[B[k + 1]] + 1
        /\ Promise!AbsWeight[B[k + 1 + 1]] = Promise!AbsWeight[B[k + 1]] + Diff[B[k + 1 + 1]]
    BY <1>2, <2>1, <2>2
  <2>6. Height[B[k + 1 + 1]] = ForkHeight(B) + (k + 1 + 1)
    BY <1>2, <2>3, <2>5
  <2>7. a \in Int => Promise!AbsWeight[B[k + 1 + 1]] = a + Work(B, k + 1 + 1)
    BY <2>3, <2>4, <2>5
  <2> QED
    BY <2>6, <2>7
<1> HIDE DEF good
<1>6. Nat \subseteq good
  BY <1>4, <1>5, NumberInduction
<1>7. ASSUME NEW i \in 1 .. Len(B)
      PROVE  /\ Height[B[i]] = ForkHeight(B) + i
             /\ a \in Int => Promise!AbsWeight[B[i]] = a + Work(B, i)
  <2>1. i - 1 \in Nat /\ i - 1 + 1 = i /\ i - 1 + 1 <= Len(B)
    BY <1>1
  <2>2. i - 1 \in good
    BY <1>6, <2>1
  <2> QED
    BY <2>1, <2>2 DEF good
<1> QED
  BY <1>1, <1>7 DEF a

---------------------------------------------------------------------------
\* The refinement of Ledger: the verdict.

\* What a factor does to a difference cut at zero, and to one that is not.
LEMMA FactorOfNone ==
    ASSUME NEW k \in Nat, NEW x \in Int, x <= 0
    PROVE  k * x <= 0
OBVIOUS

\* An idle node stores the headers of its chain, and all of them.
LEMMA StoredIsIndexed ==
    ASSUME LedgerSetting, IInv, SteadyInv, ServedInv, pc = "idle", NEW b \in Block
    PROVE  /\ b \in headers <=> Promise!Stored(b)
           /\ Promise!Stored(b) => Height[b] \in 0 .. version /\ index[Height[b]] = b
<1>1. /\ DbTypeOK /\ LedgerInv /\ ~TopRowMissing /\ ServedTip = index[version]
  BY TypeSplit, ServedBelow DEF IInv, PhaseInv
<1>2. /\ version \in Nat /\ CanonicalTop = version /\ Height[b] \in Nat /\ Height[b] \in Heights
      /\ \A h \in 0 .. version : index[h] \in headers
  BY <1>1, LedgerNumbers, TreeAssumption DEF Heights
<1>3. SoundRows
  BY SoundWhenQuiet DEF Saving
<1>4. Promise!Stored(b) <=> Height[b] <= version /\ index[Height[b]] = b
  BY <1>1, <1>2, RowsArePath, OnNamedPath DEF Promise!Stored
<1>5. b \in headers => Height[b] <= version /\ index[Height[b]] = b
  <2> SUFFICES ASSUME b \in headers PROVE Height[b] <= version /\ index[Height[b]] = b
    OBVIOUS
  <2>1. index[Height[b]] = b /\ b # NoBlock
    BY <1>3, TreeAssumption DEF SoundRows
  <2> QED
    BY <1>1, <1>2, <2>1 DEF LedgerInv, CanonicalChain
<1>6. Height[b] <= version /\ index[Height[b]] = b => b \in headers
  BY <1>2
<1> QED
  BY <1>2, <1>4, <1>5, <1>6

\* Both compare the same two stretches of work.
LEMMA WinsAgree ==
    ASSUME LedgerSetting, IInv, SteadyInv, ServedInv, pc = "idle", NEW B \in Batch,
           Promise!Stored(ForkBlock(B)), Promise!Linked(B)
    PROVE  Promise!Wins(ForkBlock(B), B[Len(B)]) <=>
              IF DeepReorg(B) THEN Overrides(B) ELSE Heavier(B)
<1> DEFINE f == ForkHeight(B)
           n == Len(B)
           w == [k \in 0 .. version |-> weight[index[k]]]
           off == Diff[Genesis] - w[0]
           won == Work(B, n)
<1>1. /\ DbTypeOK /\ LedgerInv /\ ~TopRowMissing /\ ServedTip = index[version]
      /\ ServedCheckpoint = finalized /\ WeightsAccumulate
  BY TypeSplit, ServedBelow DEF IInv, PhaseInv, SteadyInv
<1>2. /\ version \in Nat /\ CanonicalTop = version
      /\ \A h \in 0 .. version : index[h] \in headers /\ weight[index[h]] \in Nat
  BY <1>1, LedgerNumbers
<1>3. B \in Seq(Block) /\ n \in Nat \ {0} /\ ForkBlock(B) \in Block
  BY BatchAssumption, TreeAssumption DEF ForkBlock
<1>4. f \in 0 .. version /\ index[f] = ForkBlock(B)
  BY <1>3, StoredIsIndexed DEF ForkHeight
<1>5. \A k \in 0 .. version : Promise!AbsWeight[index[k]] = w[k] + off /\ w[k] \in Nat
  <2>1. \A k \in 0 .. version : w[k] \in Nat
    BY <1>2
  <2>2. \A k \in 1 .. version : w[k] = w[k - 1] + Diff[index[k]]
    BY <1>1, <1>2 DEF WeightsAccumulate
  <2>3. Path(index, version)
    BY <1>1, RowsArePath
  <2> HIDE DEF w
  <2> QED
    BY <1>2, <2>1, <2>2, <2>3, WeightsAgree
<1>6. off \in Int
  BY <1>2, TreeAssumption
<1>7. weight[index[f]] = w[f] /\ TipWeight = w[version] /\ w[f] \in Nat /\ w[version] \in Nat
  BY <1>2, <1>4 DEF TipWeight
<1> HIDE DEF off, w
<1>8. /\ Promise!AbsWeight[ForkBlock(B)] = w[f] + off
      /\ Promise!AbsWeight[ServedTip] = w[version] + off
  <2>1. version \in 0 .. version
    BY <1>2
  <2> QED
    BY <1>1, <1>4, <1>5, <2>1
<1>9. won \in Nat /\ Promise!AbsWeight[B[n]] = w[f] + off + won
  <2>1. \A i \in 2 .. Len(B) : Parent[B[i]] = B[i - 1]
    BY DEF Promise!Linked
  <2>2. n \in 1 .. n /\ n \in 0 .. n
    BY <1>3
  <2>3. won \in Nat
    BY <1>3, <2>2, WorkGrows
  <2>4. w[f] + off \in Int /\ Promise!AbsWeight[ForkBlock(B)] \in Int
    BY <1>6, <1>7, <1>8
  <2>5. Promise!AbsWeight[B[n]] = Promise!AbsWeight[ForkBlock(B)] + won
    <3>1. \A i \in 1 .. Len(B) :
             Promise!AbsWeight[B[i]] = Promise!AbsWeight[ForkBlock(B)] + Work(B, i)
      BY <2>1, <2>4, BatchRises
    <3> QED
      BY <2>2, <3>1
  <2> QED
    BY <1>8, <2>3, <2>5
<1>10. NewWeight(B) = w[f] + won
  BY <1>4, <1>7 DEF NewWeight
<1>11. f < finalized <=> DeepReorg(B)
  BY DEF DeepReorg
<1> HIDE DEF won
<1>12. CASE DeepReorg(B)
  <2>1. Promise!Wins(ForkBlock(B), B[n]) <=>
           (w[f] + off + won) - (w[f] + off) >= OverrideFactor * ((w[version] + off) - (w[f] + off))
    BY <1>1, <1>8, <1>9, <1>11, <1>12 DEF Promise!Wins, Promise!HeightOf, ForkHeight
  <2>2. /\ (w[f] + off + won) - (w[f] + off) = won
        /\ (w[version] + off) - (w[f] + off) = w[version] - w[f]
    BY <1>6, <1>7, <1>9
  <2>3. Overrides(B) <=> won >= OverrideFactor * SaturatingSub(w[version], w[f])
    <3>1. SaturatingSub(w[f] + won, w[f]) = won
      BY <1>7, <1>9 DEF SaturatingSub
    <3> QED
      BY <1>4, <1>7, <1>10, <3>1 DEF Overrides
  <2>4. OverrideFactor * SaturatingSub(w[version], w[f]) <= won
           <=> OverrideFactor * (w[version] - w[f]) <= won
    <3>0. OverrideFactor \in Nat
      BY BatchAssumption
    <3>1. CASE w[version] > w[f]
      BY <3>1 DEF SaturatingSub
    <3>2. CASE ~(w[version] > w[f])
      <4>1. w[version] - w[f] \in Int /\ w[version] - w[f] <= 0
        BY <1>7, <3>2
      <4>2. OverrideFactor * (w[version] - w[f]) <= 0 /\ OverrideFactor * (w[version] - w[f]) \in Int
        BY <3>0, <4>1, FactorOfNone
      <4>3. SaturatingSub(w[version], w[f]) = 0 /\ OverrideFactor * 0 = 0
        BY <3>0, <3>2 DEF SaturatingSub
      <4> QED
        BY <1>9, <4>2, <4>3
    <3> QED
      BY <3>1, <3>2
  <2> QED
    BY <1>12, <2>1, <2>2, <2>3, <2>4
<1>13. CASE ~DeepReorg(B)
  <2>1. Promise!Wins(ForkBlock(B), B[n]) <=> w[f] + off + won > w[version] + off
    BY <1>1, <1>8, <1>9, <1>11, <1>13 DEF Promise!Wins, Promise!HeightOf, ForkHeight
  <2>2. Heavier(B) <=> w[f] + won > w[version]
    BY <1>7, <1>10 DEF Heavier
  <2> QED
    BY <1>6, <1>7, <1>9, <1>13, <2>1, <2>2
<1> QED
  BY <1>12, <1>13

\* process_chain, on an idle node, decides as Ledger does, in the same order.
LEMMA VerdictsAgree ==
    ASSUME LedgerSetting, IInv, SteadyInv, ServedInv, pc = "idle", NEW B \in Batch
    PROVE  Promise!Verdict(B, {}) = IF Verdict(B) = "reorg" THEN "adopted" ELSE Verdict(B)
<1>1. /\ DbTypeOK /\ LedgerInv /\ ~TopRowMissing /\ CanonicalTop = version /\ version \in Nat
      /\ \A h \in 0 .. version : index[h] \in headers
  BY TypeSplit, LedgerNumbers DEF IInv, PhaseInv
<1>2. B \in Seq(Block) /\ Len(B) \in Nat \ {0} /\ ForkBlock(B) \in Block
  BY BatchAssumption, TreeAssumption DEF ForkBlock
<1>3. Signed(B)
  BY DEF Signed, LedgerSetting
<1>4. ForkBlock(B) \in headers <=> Promise!Stored(ForkBlock(B))
  BY <1>2, StoredIsIndexed
<1>5. Promise!Stored(ForkBlock(B)) => HistoryPresent(ForkHeight(B))
  BY <1>1, <1>2, StoredIsIndexed DEF HistoryPresent, ForkHeight
<1>6. HeadersVerify(B) <=> Promise!Linked(B)
  <2>1. \A i \in 1 .. Len(B) : B[i] \in ValidHeader
    BY DEF LedgerSetting
  <2>2. \A i : i \in 2 .. Len(B) <=> i \in 1 .. Len(B) /\ i > 1
    BY <1>2
  <2> QED
    BY <2>1, <2>2 DEF HeadersVerify, Promise!Linked
<1>7. Promise!Stored(ForkBlock(B)) /\ Promise!Linked(B) =>
         (Promise!Wins(ForkBlock(B), B[Len(B)]) <=> IF DeepReorg(B) THEN Overrides(B) ELSE Heavier(B))
  BY WinsAgree
<1>8. Promise!Verdict(B, {}) =
         IF ~Promise!Stored(ForkBlock(B)) THEN "orphan"
         ELSE IF ~Promise!Linked(B) THEN "fraud"
         ELSE IF ~Promise!Wins(ForkBlock(B), B[Len(B)]) THEN "ignored"
         ELSE "adopted"
  BY DEF Promise!Verdict, ForkBlock
<1>9. Verdict(B) =
         IF ForkBlock(B) \notin headers THEN "orphan"
         ELSE IF ~HistoryPresent(ForkHeight(B)) THEN "internal"
         ELSE IF ~HeadersVerify(B) THEN "fraud"
         ELSE IF DeepReorg(B) THEN (IF Overrides(B) THEN "reorg" ELSE "ignored")
         ELSE IF Heavier(B) THEN "reorg" ELSE "ignored"
  BY <1>3 DEF Verdict
<1>10. CASE ~Promise!Stored(ForkBlock(B))
  BY <1>4, <1>8, <1>9, <1>10
<1>11. CASE Promise!Stored(ForkBlock(B)) /\ ~Promise!Linked(B)
  BY <1>4, <1>5, <1>6, <1>8, <1>9, <1>11
<1>12. CASE Promise!Stored(ForkBlock(B)) /\ Promise!Linked(B) /\ DeepReorg(B)
  BY <1>4, <1>5, <1>6, <1>7, <1>8, <1>9, <1>12
<1>13. CASE Promise!Stored(ForkBlock(B)) /\ Promise!Linked(B) /\ ~DeepReorg(B)
  BY <1>4, <1>5, <1>6, <1>7, <1>8, <1>9, <1>13
<1> QED
  BY <1>10, <1>11, <1>12, <1>13

---------------------------------------------------------------------------
\* The refinement of Ledger: the checkpoint a call leaves.

Behind(h) == SaturatingSub(h, FinalityDepth)

\* The checkpoint of the last block the call committed; before there is one, the
\* old one, which a deep call has lowered to the fork.
LeftCheckpoint ==
    IF failedTip > fork THEN Behind(failedTip) ELSE Promise!Lower(fork, before.fin)

\* FinalityDepth blocks at most lie above the checkpoint, and a replay raises the
\* one the failed call has left as it goes.
CheckpointFollows ==
    /\ batch = <<>> => finalized >= Behind(IF pc = "idle" THEN version ELSE version - 1)
    /\ pc \in {"rollback", "apply", "recover"} => finalized = LeftCheckpoint
    /\ batch # <<>> /\ pc \in Replaying =>
          finalized = Promise!Higher(LeftCheckpoint,
                                     Behind(IF pc = "replay" THEN version ELSE version - 1))

\* The call was one to adopt when it began, and it fails at a block of its own.
CallFollows ==
    batch # <<>> =>
        /\ fork = ForkHeight(batch) /\ fork <= tip
        /\ Height[before.tip] = tip /\ before.fin >= Behind(tip)
        /\ Promise!Verdict(batch, {}) = "adopted"
        /\ pc \in {"recover"} \cup Replaying => failedTip \in fork .. (fork + Len(batch) - 1)

LEMMA BehindNumbers ==
    /\ \A h \in Nat : Behind(h) \in Nat /\ Behind(h) <= h
    /\ \A h, k \in Nat : h <= k => Behind(h) <= Behind(k)
    /\ \A h, k \in Nat : h <= k + FinalityDepth => Behind(h) <= k
BY FinalityDepthAssumption DEF Behind, SaturatingSub

\* set_finalized_height refuses no height FinalityDepth below the tip.
LEMMA RaisedToBehind ==
    ASSUME version \in Nat, finalized \in Nat, SetFinalizedHeight(Behind(version))
    PROVE  finalized' = Promise!Higher(finalized, Behind(version))
BY FinalityDepthAssumption DEF SetFinalizedHeight, Behind, SaturatingSub, Promise!Higher

\* The answer hangs on the chain the call found, and that is what is still served.
LEMMA VerdictStays ==
    ASSUME UNCHANGED <<ServedTip, ServedCheckpoint>>
    PROVE  \A B \in Batch : Promise!Verdict(B, {})' = Promise!Verdict(B, {})
BY DEF Promise!Verdict, Promise!Stored, Promise!OnPath, Promise!At, Promise!HeightOf, Promise!Linked,
       Promise!Wins

LEMMA PromiseInit == Init => CheckpointFollows /\ CallFollows
<1>1. Behind(0) = 0
  BY FinalityDepthAssumption DEF Behind, SaturatingSub
<1> QED
  BY <1>1 DEF Init, DbInit, CallInit, CheckpointFollows, CallFollows, Replaying

---------------------------------------------------------------------------
\* One lemma per kind of step: what the call was begun for stays true.

LEMMA AcceptBegins ==
    ASSUME LedgerSetting, IInv, SteadyInv, ServedInv, CheckpointFollows,
           NEW B \in Batch, Accept(B)
    PROVE  CallFollows' /\ CheckpointFollows'
<1>1. /\ pc = "idle" /\ batch = <<>> /\ Verdict(B) = "reorg"
      /\ pc' = "rollback" /\ batch' = B /\ fork' = ForkHeight(B) /\ tip' = version
      /\ failedTip' = ForkHeight(B)
      /\ before'.tip = index[version] /\ before'.fin = finalized
      /\ IF DeepReorg(B) THEN ForceSetFinalizedHeight(ForkHeight(B)) ELSE UNCHANGED finalized
  BY DEF Accept, IInv, PhaseInv
<1>2. /\ DbTypeOK /\ LedgerInv /\ ~TopRowMissing
  BY <1>1, TypeSplit DEF IInv, PhaseInv
<1>3. ForkHeight(B) \in Nat /\ ForkHeight(B) <= version /\ version \in Nat /\ finalized \in Nat
      /\ Height[index[version]] = version
  <2>1. version \in 0 .. CanonicalTop
    BY <1>2, LedgerNumbers
  <2> QED
    BY <1>1, <1>2, <2>1, AcceptedBatch, LedgerNumbers
<1>4. finalized >= Behind(version)
  BY <1>1 DEF CheckpointFollows
<1>5. Promise!Verdict(B, {}) = "adopted"
  BY <1>1, VerdictsAgree
<1>6. Promise!Verdict(B, {})' = "adopted"
  BY <1>5, AcceptHidden, VerdictStays
<1>7. Promise!Verdict(batch, {})' = "adopted"
  BY <1>1, <1>6 DEF Promise!Verdict, Promise!Stored, Promise!Linked, Promise!Wins
<1>8. CallFollows'
  <2>1. fork' = ForkHeight(batch')
    BY <1>1
  <2> QED
    BY <1>1, <1>3, <1>4, <1>7, <2>1 DEF CallFollows, Replaying, ForkHeight, ForkBlock, Behind
<1>9. finalized' = Promise!Lower(ForkHeight(B), finalized)
  BY <1>1, <1>3 DEF Promise!Lower, DeepReorg, ForceSetFinalizedHeight
<1>10. LeftCheckpoint' = Promise!Lower(ForkHeight(B), finalized)
  BY <1>1, <1>3 DEF LeftCheckpoint, Promise!Lower
<1>11. B # <<>>
  BY BatchAssumption
<1>12. CheckpointFollows'
  BY <1>1, <1>9, <1>10, <1>11 DEF CheckpointFollows, Replaying
<1> QED
  BY <1>8, <1>12

LEMMA CallGoesOn ==
    ASSUME CallFollows, batch # <<>>, batch \in Batch,
           UNCHANGED <<batch, fork, tip, before>>,
           pc' \in {"recover"} \cup Replaying =>
              failedTip' \in fork .. (fork + Len(batch) - 1)
    PROVE  CallFollows'
<1>1. Promise!Verdict(batch, {})' = Promise!Verdict(batch, {})
  BY CallHidden DEF Promise!Verdict, Promise!Stored, Promise!OnPath, Promise!At, Promise!HeightOf,
     Promise!Linked, Promise!Wins
<1>2. fork' = ForkHeight(batch)' /\ fork' <= tip'
  BY DEF CallFollows, ForkHeight, ForkBlock
<1>3. Height[before'.tip] = tip' /\ before'.fin >= Behind(tip')
  BY DEF CallFollows
<1> QED
  BY <1>1, <1>2, <1>3 DEF CallFollows, Replaying, Behind

\* What a call in progress knows of itself.
LEMMA CallNumbers ==
    ASSUME IInv, CallFollows, batch # <<>>
    PROVE  /\ batch \in Batch /\ batch \in Seq(Block) /\ Len(batch) \in Nat \ {0}
           /\ fork \in Nat /\ tip \in Nat /\ failedTip \in Nat /\ fork <= tip
           /\ before.fin \in Nat /\ before.tip \in Block /\ before.fin >= Behind(tip)
           /\ version \in Nat /\ finalized \in Nat
<1>1. DbTypeOK /\ CallTypeOK /\ LedgerInv
  BY TypeSplit DEF IInv
<1>2. batch \in Batch
  BY <1>1 DEF CallTypeOK
<1> QED
  BY <1>1, <1>2, BatchAssumption, LedgerNumbers, TreeAssumption
     DEF CallTypeOK, CallFollows, Snapshot, Heights

LEMMA CallStepFollows ==
    ASSUME LedgerSetting, IInv, SteadyInv, ServedInv, CheckpointFollows, CallFollows,
           [SteadyNext]_vars
    PROVE  CallFollows'
<1>1. CASE \E s : Answer(s)
  BY <1>1 DEF Answer, ClearCall, CallFollows
<1>2. CASE \E B \in Batch : Reject(B) \/ Accept(B)
  BY <1>1, <1>2, AcceptBegins DEF Reject
<1>3. CASE batch = <<>> /\ batch' = <<>>
  BY <1>3 DEF CallFollows
<1>4. CASE RollBack
  <2>1. batch # <<>> /\ pc' = "apply" /\ UNCHANGED <<batch, fork, tip, before>>
    BY <1>4 DEF IInv, PhaseInv, RollBack, RollbackAllowed
  <2> QED
    BY <2>1, CallNumbers, CallGoesOn DEF Replaying
<1>5. CASE Apply
  <2>1. batch # <<>> /\ pc' = "apply" /\ UNCHANGED <<batch, fork, tip, before>>
    BY <1>5 DEF IInv, PhaseInv, Apply
  <2> QED
    BY <2>1, CallNumbers, CallGoesOn DEF Replaying
<1>6. CASE ApplyFails \/ Deadline
  <2>1. /\ batch # <<>> /\ UNCHANGED <<batch, fork, tip, before, failedTip>> /\ pos <= Len(batch)
        /\ failedTip = fork + pos - 1 /\ pos \in 1 .. Len(batch) + 1
    BY <1>6 DEF IInv, PhaseInv, ApplyFails, Deadline, callVars
  <2>2. failedTip \in fork .. (fork + Len(batch) - 1)
    BY <2>1, CallNumbers
  <2> QED
    BY <2>1, <2>2, CallNumbers, CallGoesOn
<1>7. CASE /\ pc \in {"recover"} \cup Replaying /\ batch # <<>>
           /\ UNCHANGED <<batch, fork, tip, before, failedTip>>
  <2>1. failedTip \in fork .. (fork + Len(batch) - 1)
    BY <1>7 DEF CallFollows
  <2> QED
    BY <1>7, <2>1, CallNumbers, CallGoesOn
<1>8. CASE Recover \/ SaveHeader \/ SaveBody \/ SaveIndex \/ Finalize \/ \E h \in Heights : Replay(h)
  <2>1. CASE batch = <<>>
    BY <1>1, <1>3, <1>8, <2>1 DEF Recover, SaveHeader, SaveBody, SaveIndex, Finalize, Replay, callVars
  <2>2. CASE batch # <<>>
    BY <1>1, <1>7, <1>8, <2>2 DEF Recover, SaveHeader, SaveBody, SaveIndex, Finalize, Replay,
       callVars, Replaying
  <2> QED
    BY <2>1, <2>2
<1>9. CASE (\E b \in Block : NewBlock(b)) \/ StepBack
  BY <1>3, <1>9 DEF NewBlock, StepBack, callVars, IInv, PhaseInv
<1>10. CASE UNCHANGED vars
  <2>1. UNCHANGED <<pc, batch, fork, tip, before, failedTip>>
    BY <1>10 DEF vars, callVars
  <2>2. pc' \in {"recover"} \cup Replaying /\ batch # <<>> => failedTip' \in fork .. (fork + Len(batch) - 1)
    BY <2>1 DEF CallFollows
  <2> QED
    BY <1>3, <2>1, <2>2, CallNumbers, CallGoesOn
<1>11. CASE Adopt \/ Restored
  BY <1>1, <1>11 DEF Adopt, Restored
<1> QED
  BY <1>2, <1>4, <1>5, <1>6, <1>8, <1>9, <1>10, <1>11 DEF SteadyNext, CallStep

---------------------------------------------------------------------------
\* One lemma per kind of step: the checkpoint follows the call.

\* The replay starts at the fork, and the checkpoint the call left is no lower
\* than FinalityDepth blocks below it.
LEMMA RecoverCheckpoint ==
    ASSUME IInv, CheckpointFollows, CallFollows, Recover
    PROVE  CheckpointFollows'
<1>1. /\ pc = "recover" /\ batch # <<>> /\ finalized = LeftCheckpoint
      /\ failedTip = version /\ fork <= version /\ finalized <= fork
  BY DEF IInv, PhaseInv, Recover, CheckpointFollows
<1>2. /\ fork \in Nat /\ tip \in Nat /\ failedTip \in Nat /\ fork <= tip /\ before.fin \in Nat
      /\ before.fin >= Behind(tip) /\ version \in Nat /\ finalized \in Nat
  BY <1>1, CallNumbers
<1>3. /\ RollbackState(failedTip, fork) /\ pc' = "replay"
      /\ UNCHANGED <<batch, fork, failedTip, before>>
  BY DEF Recover
<1>4. version' = fork /\ finalized' = finalized
  BY <1>1, <1>2, <1>3 DEF RollbackState, RollbackAllowed, DropBlocks, dbVars
<1>5. Behind(fork) \in Nat /\ Behind(fork) <= fork /\ Behind(fork) <= Behind(tip)
      /\ Behind(tip) \in Nat /\ (failedTip > fork => Behind(fork) <= Behind(failedTip))
      /\ Behind(failedTip) \in Nat
  BY <1>2, BehindNumbers
<1>6. Behind(fork) <= LeftCheckpoint
  BY <1>2, <1>5 DEF LeftCheckpoint, Promise!Lower
<1>7. finalized = Promise!Higher(LeftCheckpoint, Behind(fork))
  BY <1>1, <1>2, <1>5, <1>6 DEF Promise!Higher
<1>8. LeftCheckpoint' = LeftCheckpoint /\ Behind(version)' = Behind(fork)
  BY <1>3, <1>4 DEF LeftCheckpoint, Behind
<1> QED
  BY <1>1, <1>3, <1>4, <1>7, <1>8 DEF CheckpointFollows

\* A block committed by the call brings its own checkpoint.
LEMMA ApplyCheckpoint ==
    ASSUME IInv, CallFollows, Apply
    PROVE  CheckpointFollows'
<1>1. /\ pc = "apply" /\ batch # <<>> /\ pos <= Len(batch) /\ Executable(batch[pos])
      /\ version = fork + pos - 1 /\ pos \in 1 .. Len(batch) + 1
      /\ CommitBlockAtomic(batch[pos], rolling + Diff[batch[pos]])
      /\ failedTip' = Height[batch[pos]]
      /\ UNCHANGED <<pc, batch, fork, before>>
  BY DEF IInv, PhaseInv, Apply, Applies
<1>2. Height[batch[pos]] = version + 1
  BY <1>1, NextBlockHeight
<1>3. finalized' = Behind(failedTip')
  BY <1>1 DEF CommitBlockAtomic, Behind
<1>4. fork \in Nat /\ Len(batch) \in Nat
  BY <1>1, CallNumbers
<1>5. failedTip' > fork'
  BY <1>1, <1>2, <1>4
<1>6. LeftCheckpoint' = finalized'
  BY <1>3, <1>5 DEF LeftCheckpoint, Behind
<1> QED
  BY <1>1, <1>6 DEF CheckpointFollows, Replaying

\* The last write of a block raises the checkpoint with it.
LEMMA FinalizeCheckpoint ==
    ASSUME IInv, CheckpointFollows, CallFollows, Finalize
    PROVE  CheckpointFollows'
<1>1. /\ pc = "finalize" /\ Height[cur] = version
      /\ SetFinalizedHeight(Behind(Height[cur])) /\ UNCHANGED version
  BY DEF IInv, PhaseInv, SavingBlock, Finalize, Behind
<1>2. version \in Nat /\ finalized \in Nat /\ version > 0
  BY TypeSplit, <1>1, LedgerNumbers DEF IInv, PhaseInv, SavingBlock
<1>3. finalized' = Promise!Higher(finalized, Behind(version))
  BY <1>1, <1>2, RaisedToBehind
<1>4. /\ Behind(version) \in Nat /\ Behind(version - 1) \in Nat /\ Behind(version - 1) <= Behind(version)
  BY <1>2, BehindNumbers
<1>5. Behind(version)' = Behind(version)
  BY <1>1 DEF Behind
<1>6. CASE batch = <<>>
  <2>1. pc' = "idle" /\ batch' = <<>>
    BY <1>6 DEF Finalize, Answer, ClearCall
  <2>2. finalized' >= Behind(version)
    BY <1>2, <1>3, <1>4 DEF Promise!Higher
  <2> QED
    BY <1>5, <2>1, <2>2 DEF CheckpointFollows, Replaying
<1>7. CASE batch # <<>>
  <2>1. pc' = "replay" /\ UNCHANGED <<batch, fork, failedTip, before>>
    BY <1>7 DEF Finalize
  <2>2. finalized = Promise!Higher(LeftCheckpoint, Behind(version - 1))
    BY <1>1, <1>7 DEF CheckpointFollows, Replaying
  <2>3. LeftCheckpoint \in Nat
    <3>1. fork \in Nat /\ failedTip \in Nat /\ before.fin \in Nat
      BY <1>7, CallNumbers
    <3> QED
      BY <3>1, BehindNumbers DEF LeftCheckpoint, Promise!Lower
  <2>4. finalized' = Promise!Higher(LeftCheckpoint, Behind(version))
    BY <1>2, <1>3, <1>4, <2>2, <2>3 DEF Promise!Higher
  <2>5. LeftCheckpoint' = LeftCheckpoint
    BY <2>1 DEF LeftCheckpoint, Behind
  <2> QED
    BY <1>5, <1>7, <2>1, <2>4, <2>5 DEF CheckpointFollows
<1> QED
  BY <1>6, <1>7

\* A block of the replay whose state is written, and the writes of its rows.
LEMMA ReplayCheckpoint ==
    ASSUME IInv, SteadyInv, CheckpointFollows, CallFollows, NEW h \in Heights, Replay(h)
    PROVE  CheckpointFollows'
<1>1. batch # <<>> /\ pc = "replay" /\ NextReplay(h) /\ version \in Nat
  BY TypeSplit, LedgerNumbers DEF IInv, PhaseInv, Replay
<1>2. PICK T \in [Heights -> State], W \in [Heights -> Nat] : OldChain(T, W) /\ Rebuilt(T, W)
  BY <1>1 DEF SteadyInv, RestoreInv, Replaying
<1>3. h = version + 1 /\ Executable(backup[h]) /\ Height[backup[h]] = h
  BY <1>1, <1>2, ReplayIsNext
<1>4. /\ version' = version + 1 /\ pc' = "header"
      /\ UNCHANGED <<finalized, batch, fork, failedTip, before>>
  BY <1>3 DEF Replay, WriteStateBatch
<1>5. LeftCheckpoint' = LeftCheckpoint /\ Behind(version - 1)' = Behind(version)
  BY <1>1, <1>4 DEF LeftCheckpoint, Behind
<1>6. finalized = Promise!Higher(LeftCheckpoint, Behind(version))
  BY <1>1 DEF CheckpointFollows, Replaying
<1> QED
  BY <1>1, <1>4, <1>5, <1>6 DEF CheckpointFollows

LEMMA SaveCheckpoint ==
    ASSUME CheckpointFollows, SaveHeader \/ SaveBody \/ SaveIndex
    PROVE  CheckpointFollows'
<1>1. /\ pc \in Saving /\ pc' \in {"body", "index", "finalize"}
      /\ UNCHANGED <<version, finalized, batch, fork, failedTip, before>>
  BY DEF SaveHeader, SaveBody, SaveIndex, callVars, Saving
<1>2. LeftCheckpoint' = LeftCheckpoint /\ Behind(version - 1)' = Behind(version - 1)
  BY <1>1 DEF LeftCheckpoint, Behind
<1>3. pc \in Replaying /\ pc \notin {"idle", "replay", "rollback", "apply", "recover"}
  BY <1>1 DEF Saving, Replaying
<1> QED
  BY <1>1, <1>2, <1>3 DEF CheckpointFollows, Replaying

\* A call that ends leaves at least the checkpoint of its tip.
LEMMA EndCheckpoint ==
    ASSUME IInv, SteadyInv, CheckpointFollows, CallFollows, Adopt \/ Restored
    PROVE  /\ CheckpointFollows'
           /\ Adopt => finalized' = Behind(version) /\ version = fork + Len(batch)
           /\ Restored => finalized' = Promise!Higher(LeftCheckpoint, Behind(version))
<1>1. /\ batch # <<>> /\ pc' = "idle" /\ batch' = <<>>
  BY DEF IInv, PhaseInv, Adopt, Restored, Answer, ClearCall
<1>2. /\ batch \in Batch /\ batch \in Seq(Block) /\ Len(batch) \in Nat \ {0} /\ fork \in Nat
      /\ failedTip \in Nat /\ before.fin \in Nat /\ version \in Nat /\ finalized \in Nat
  BY <1>1, CallNumbers
<1>3. Behind(version) \in Nat /\ LeftCheckpoint \in Nat
  BY <1>2, BehindNumbers DEF LeftCheckpoint, Promise!Lower
<1>4. CASE Adopt
  <2>1. /\ pc = "apply" /\ pos > Len(batch) /\ pos \in 1 .. Len(batch) + 1
        /\ failedTip = version /\ version = fork + pos - 1
        /\ \A i \in 1 .. pos - 1 : Height[batch[i]] = fork + i
        /\ SetFinalizedHeight(Behind(Height[batch[Len(batch)]])) /\ UNCHANGED version
    BY <1>4 DEF IInv, PhaseInv, Adopt, Behind
  <2>2. pos - 1 = Len(batch) /\ version = fork + Len(batch) /\ failedTip > fork
    BY <1>2, <2>1
  <2>3. Height[batch[Len(batch)]] = version
    BY <1>2, <2>1, <2>2
  <2>4. finalized = Behind(version)
    BY <2>1, <2>2 DEF CheckpointFollows, LeftCheckpoint
  <2>5. finalized' = Promise!Higher(finalized, Behind(version))
    BY <1>2, <2>1, <2>3, RaisedToBehind
  <2>6. finalized' = Behind(version) /\ Behind(version)' = Behind(version)
    BY <2>1, <2>4, <2>5 DEF Promise!Higher, Behind
  <2>7. ~Restored
    BY <2>1 DEF Restored
  <2> QED
    BY <1>1, <1>3, <2>2, <2>6, <2>7 DEF CheckpointFollows, Replaying
<1>5. CASE Restored
  <2>1. pc = "replay" /\ UNCHANGED <<version, finalized>>
    BY <1>5 DEF Restored, dbVars
  <2>2. finalized = Promise!Higher(LeftCheckpoint, Behind(version))
    BY <1>1, <2>1 DEF CheckpointFollows, Replaying
  <2>3. finalized' >= Behind(version) /\ Behind(version)' = Behind(version)
    BY <1>3, <2>1, <2>2 DEF Promise!Higher, Behind
  <2>4. ~Adopt
    BY <2>1 DEF Adopt
  <2> QED
    BY <1>1, <2>1, <2>2, <2>3, <2>4 DEF CheckpointFollows, Replaying
<1> QED
  BY <1>4, <1>5

\* Steps in which neither the executed state nor the checkpoint moves.
LEMMA QuietCheckpoint ==
    ASSUME CheckpointFollows, UNCHANGED <<version, finalized, batch, fork, failedTip, before>>,
           \/ pc' = pc
           \/ {pc, pc'} \subseteq {"rollback", "apply", "recover"}
    PROVE  CheckpointFollows'
<1>1. /\ LeftCheckpoint' = LeftCheckpoint /\ Behind(version)' = Behind(version)
      /\ Behind(version - 1)' = Behind(version - 1)
  BY DEF LeftCheckpoint, Behind
<1> QED
  BY <1>1 DEF CheckpointFollows, Replaying

LEMMA CheckpointStep ==
    ASSUME LedgerSetting, IInv, SteadyInv, ServedInv, CheckpointFollows, CallFollows,
           [SteadyNext]_vars
    PROVE  CheckpointFollows'
<1>1. /\ DbTypeOK /\ LedgerInv /\ version \in Nat /\ finalized \in Nat
  BY TypeSplit, LedgerNumbers DEF IInv
<1>2. CASE \E B \in Batch : Reject(B)
  <2>1. pc = "idle" /\ batch = <<>> /\ pc' = "idle" /\ batch' = <<>> /\ UNCHANGED <<version, finalized>>
    BY <1>2 DEF IInv, PhaseInv, Reject, Answer, ClearCall, dbVars
  <2>2. Behind(version)' = Behind(version)
    BY <2>1 DEF Behind
  <2> QED
    BY <2>1, <2>2 DEF CheckpointFollows, Replaying
<1>3. CASE \E B \in Batch : Accept(B)
  BY <1>3, AcceptBegins
<1>4. CASE \E b \in Block : NewBlock(b)
  <2>1. /\ pc = "idle" /\ batch = <<>> /\ pc' = "header" /\ batch' = <<>>
        /\ version' = version + 1 /\ finalized' = finalized
    BY <1>4 DEF IInv, PhaseInv, NewBlock, WriteStateBatch
  <2>2. Behind(version - 1)' = Behind(version)
    BY <1>1, <2>1 DEF Behind
  <2> QED
    BY <2>1, <2>2 DEF CheckpointFollows, Replaying
<1>5. CASE RollBack
  <2>1. /\ batch # <<>> /\ tip = version /\ fork <= version /\ finalized <= fork /\ pc = "rollback"
        /\ pc' = "apply" /\ RollbackState(tip, fork) /\ UNCHANGED <<batch, fork, failedTip, before>>
    BY <1>5 DEF IInv, PhaseInv, RollBack, RollbackAllowed
  <2>2. finalized' = finalized
    BY <2>1 DEF RollbackState, dbVars
  <2>3. LeftCheckpoint' = LeftCheckpoint
    BY <2>1 DEF LeftCheckpoint, Behind
  <2> QED
    BY <2>1, <2>2, <2>3 DEF CheckpointFollows, Replaying
<1>6. CASE ApplyFails \/ Deadline
  BY <1>6, QuietCheckpoint DEF ApplyFails, Deadline, dbVars, callVars
<1>7. CASE StepBack
  <2>1. /\ pc = "idle" /\ batch = <<>> /\ pc' = "idle" /\ batch' = <<>> /\ version > finalized
        /\ RollbackState(version, version - 1)
    BY <1>7 DEF IInv, PhaseInv, StepBack, callVars
  <2>2. version' = version - 1 /\ finalized' = finalized
    BY <1>1, <2>1 DEF RollbackState, RollbackAllowed, DropBlocks
  <2>3. Behind(version)' = Behind(version - 1)
    BY <2>2 DEF Behind
  <2>4. Behind(version - 1) <= Behind(version) /\ Behind(version) <= finalized
        /\ Behind(version) \in Nat /\ Behind(version - 1) \in Nat
    BY <1>1, <2>1, BehindNumbers DEF CheckpointFollows
  <2> QED
    BY <1>1, <2>1, <2>2, <2>3, <2>4 DEF CheckpointFollows, Replaying
<1>8. CASE UNCHANGED vars
  BY <1>8, QuietCheckpoint DEF vars, dbVars, callVars
<1> QED
  BY <1>2, <1>3, <1>4, <1>5, <1>6, <1>7, <1>8, EndCheckpoint, RecoverCheckpoint, ApplyCheckpoint,
     FinalizeCheckpoint, ReplayCheckpoint, SaveCheckpoint DEF SteadyNext, CallStep

---------------------------------------------------------------------------
\* The refinement of Ledger: the end of a call.

LEMMA RejectAsPromised ==
    ASSUME LedgerSetting, IInv, SteadyInv, ServedInv, IInv', ServedInv',
           NEW B \in Batch, Reject(B)
    PROVE  DoesAsPromised(B, {})
<1>1. /\ pc = "idle" /\ pc' = "idle" /\ status' = Verdict(B) /\ Verdict(B) # "reorg" /\ UNCHANGED dbVars
  BY DEF Reject, Answer
<1>2. Verdict(B) \in {"fraud", "orphan", "internal", "ignored"}
  BY <1>1 DEF Verdict
<1>3. Promise!Verdict(B, {}) = Verdict(B)
  BY <1>1, VerdictsAgree
<1>4. UNCHANGED <<ServedTip, ServedCheckpoint>>
  BY <1>1, ServedBelow, ServedBelowNext DEF dbVars
<1>5. Promise!ProcessChain(B, {})
  BY <1>2, <1>3, <1>4 DEF Promise!ProcessChain, Promise!ledgerVars
<1> QED
  BY <1>1, <1>2, <1>3, <1>5 DEF DoesAsPromised

LEMMA AdoptAsPromised ==
    ASSUME LedgerSetting, IInv, SteadyInv, ServedInv, CheckpointFollows, CallFollows,
           IInv', ServedInv', Adopt
    PROVE  DoesAsPromised(batch, {})
<1>1. /\ pc = "apply" /\ batch # <<>> /\ pos > Len(batch) /\ pos \in 1 .. Len(batch) + 1
      /\ pos > 1 => index[version] = batch[pos - 1]
      /\ \A i \in 1 .. pos - 1 : Height[batch[i]] = fork + i
      /\ pc' = "idle" /\ status' = "adopted" /\ UNCHANGED version
  BY DEF IInv, PhaseInv, Adopt, Answer
<1>2. Len(batch) \in Nat \ {0} /\ fork \in Nat
  BY <1>1, CallNumbers
<1>3. pos - 1 = Len(batch) /\ pos > 1
  BY <1>1, <1>2
<1>4. index[version] = batch[Len(batch)] /\ Height[batch[Len(batch)]] = version
  BY <1>1, <1>2, <1>3, EndCheckpoint
<1>5. index' = index
  BY AdoptKeepsRows
<1>6. ServedTip' = batch[Len(batch)] /\ ServedCheckpoint' = Behind(version)
  BY <1>1, <1>4, <1>5, ServedBelowNext, EndCheckpoint
<1>7. Behind(version) = Promise!Sat(Height[batch[Len(batch)]], FinalityDepth)
  BY <1>4 DEF Behind, SaturatingSub, Promise!Sat
<1>8. Promise!Verdict(batch, {}) = "adopted"
  BY <1>1 DEF CallFollows
<1>9. Promise!ProcessChain(batch, {})
  BY <1>6, <1>7, <1>8 DEF Promise!ProcessChain, Promise!HeightOf
<1> QED
  BY <1>1, <1>8, <1>9 DEF DoesAsPromised

\* A call that failed at its block number failedTip - fork + 1 leaves what Ledger
\* says of a list whose first bare block is that one.
LEMMA RestoredAsPromised ==
    ASSUME ShortBatches, LedgerSetting, IInv, SteadyInv, ServedInv, CheckpointFollows, CallFollows,
           IInv', ServedInv', Restored
    PROVE  \E bare \in SUBSET {batch[i] : i \in 1 .. Len(batch)} : DoesAsPromised(batch, bare)
<1> DEFINE n == failedTip - fork
           bare == {batch[n + 1]}
<1>1. /\ batch # <<>> /\ pc = "replay" /\ pc' = "idle" /\ status' = "fraud" /\ UNCHANGED dbVars
  BY DEF IInv, PhaseInv, Restored, Answer
<1>2. /\ batch \in Batch /\ batch \in Seq(Block) /\ Len(batch) \in Nat \ {0}
      /\ fork \in Nat /\ failedTip \in Nat /\ before.fin \in Nat /\ version \in Nat
      /\ failedTip \in fork .. (fork + Len(batch) - 1) /\ fork = ForkHeight(batch)
      /\ Promise!Verdict(batch, {}) = "adopted"
  BY <1>1, CallNumbers DEF CallFollows, Replaying
<1>3. n \in Nat /\ n + 1 \in 1 .. Len(batch) /\ n <= FinalityDepth /\ failedTip = fork + n
  <2>1. Len(batch) <= FinalityDepth + 1
    BY <1>2 DEF ShortBatches
  <2> QED
    BY <1>2, <2>1, FinalityDepthAssumption
<1>4. Promise!Stored(ForkBlock(batch)) /\ Promise!Linked(batch)
      /\ Promise!Wins(ForkBlock(batch), batch[Len(batch)])
  BY <1>2 DEF Promise!Verdict, ForkBlock
<1>5. \A i \in 1 .. Len(batch) : Height[batch[i]] = fork + i
  <2>1. \A i \in 2 .. Len(batch) : Parent[batch[i]] = batch[i - 1]
    BY <1>4 DEF Promise!Linked
  <2> QED
    BY <1>2, <2>1, BatchRises
<1>6. \A i \in 1 .. Len(batch) : batch[i] \in bare <=> i = n + 1
  <2>1. \A i \in 1 .. Len(batch) : batch[i] = batch[n + 1] => fork + i = fork + (n + 1)
    BY <1>3, <1>5
  <2> HIDE DEF n
  <2>2. \A i \in 1 .. Len(batch) : batch[i] = batch[n + 1] => i = n + 1
    BY <1>2, <1>3, <2>1
  <2> QED
    BY <1>3, <2>2
<1> HIDE DEF n, bare
<1>7. Promise!Verdict(batch, bare) = "mismatch"
  <2>1. \E i \in 1 .. Len(batch) : batch[i] \in bare
    BY <1>3, <1>6
  <2> QED
    BY <1>4, <2>1 DEF Promise!Verdict, ForkBlock
<1>8. Promise!FirstBare(batch, bare) = n + 1
  <2>1. n + 1 \in 1 .. Len(batch) /\ batch[n + 1] \in bare
        /\ \A j \in 1 .. (n + 1 - 1) : batch[j] \notin bare
    BY <1>2, <1>3, <1>6
  <2>2. \A i \in 1 .. Len(batch) :
           (batch[i] \in bare /\ \A j \in 1 .. (i - 1) : batch[j] \notin bare) <=> i = n + 1
    BY <1>6, <2>1
  <2> QED
    BY <2>1, <2>2 DEF Promise!FirstBare
<1>9. ServedTip = before.tip /\ ServedCheckpoint = before.fin
  BY <1>1 DEF ServedTip, ServedCheckpoint
<1>10. Promise!LeftAt(batch, bare) = LeftCheckpoint
  <2>1. Promise!LeftAt(batch, bare) =
           Promise!Lower(fork, IF n > 0 THEN Behind(failedTip) ELSE before.fin)
    <3>1. Promise!Sat(failedTip, FinalityDepth) = Behind(failedTip)
      BY DEF Promise!Sat, Behind, SaturatingSub
    <3>2. n + 1 - 1 = n
      BY <1>3
    <3> QED
      BY <1>2, <1>3, <1>8, <1>9, <3>1, <3>2
         DEF Promise!LeftAt, Promise!HeightOf, ForkHeight, ForkBlock
  <2>2. Behind(failedTip) \in Nat /\ Behind(failedTip) <= fork
    <3>1. failedTip <= fork + FinalityDepth
      BY <1>2, <1>3, FinalityDepthAssumption
    <3> QED
      BY <1>2, <3>1, BehindNumbers
  <2> QED
    BY <1>2, <1>3, <2>1, <2>2 DEF LeftCheckpoint, Promise!Lower
<1>11. /\ ServedTip' = before.tip /\ Height[before.tip] = version
       /\ ServedCheckpoint' = Promise!Higher(LeftCheckpoint, Behind(version))
  <2>1. index'[version'] = before.tip /\ finalized' = Promise!Higher(LeftCheckpoint, Behind(version))
    BY RestoredWhole, EndCheckpoint
  <2>2. index[version] = before.tip
    BY <1>1, <2>1 DEF dbVars
  <2>3. Height[index[version]] = version
    <3>1. DbTypeOK /\ LedgerInv /\ ~TopRowMissing
      BY <1>1, TypeSplit DEF IInv, PhaseInv
    <3>2. version \in 0 .. CanonicalTop
      BY <3>1, LedgerNumbers
    <3> QED
      BY <3>1, <3>2, LedgerNumbers
  <2> QED
    BY <1>1, <2>1, <2>2, <2>3, ServedBelowNext
<1>12. Promise!ProcessChain(batch, bare)
  <2>1. Promise!Sat(Height[ServedTip], FinalityDepth) = Behind(version)
    BY <1>9, <1>11 DEF Promise!Sat, Behind, SaturatingSub
  <2> QED
    BY <1>7, <1>9, <1>10, <1>11, <2>1 DEF Promise!ProcessChain, Promise!HeightOf
<1>13. DoesAsPromised(batch, bare)
  BY <1>1, <1>7, <1>12 DEF DoesAsPromised
<1>14. bare \in SUBSET {batch[i] : i \in 1 .. Len(batch)}
  BY <1>3 DEF bare
<1> QED
  BY <1>13, <1>14

\* However many writes a ProcessChain call takes and wherever it fails, its answer
\* and the tip and checkpoint it leaves are those of one step of Ledger.
THEOREM CallsKeepPromise ==
    ASSUME ShortBatches, LedgerSetting PROVE SteadySpec => KeepsPromise
<1> DEFINE Ended == \E bare \in SUBSET {batch[i] : i \in 1 .. Len(batch)} :
                        DoesAsPromised(batch, bare)
           Kept == /\ \A B \in Batch : Reject(B) => DoesAsPromised(B, {})
                   /\ batch # <<>> /\ batch' = <<>> => Ended
<1>1. Init => ServedInv /\ CheckpointFollows /\ CallFollows
  BY ServedInit, PromiseInit
<1>2. IInv /\ SteadyInv /\ ServedInv /\ CheckpointFollows /\ CallFollows /\ [SteadyNext]_vars
         => ServedInv' /\ CheckpointFollows' /\ CallFollows'
  BY ServedStep, CheckpointStep, CallStepFollows
<1>3. SteadySpec => [](IInv /\ SteadyInv)
  BY SteadyInvariance
<1>4. SteadySpec => [](ServedInv /\ CheckpointFollows /\ CallFollows)
  BY <1>1, <1>2, <1>3, PTL DEF SteadySpec
<1>5. ASSUME IInv, SteadyInv, ServedInv, CheckpointFollows, CallFollows,
             IInv', ServedInv', SteadyNext
      PROVE  Kept
  <2>1. \A B \in Batch : Reject(B) => DoesAsPromised(B, {})
    BY <1>5, RejectAsPromised
  <2>2. ASSUME batch # <<>>, batch' = <<>>
        PROVE  Adopt \/ Restored
    <3>1. ASSUME NEW h \in Heights, Replay(h) PROVE FALSE
      <4>1. pc = "replay" /\ NextReplay(h)
        BY <3>1 DEF Replay
      <4>2. PICK T \in [Heights -> State], W \in [Heights -> Nat] : OldChain(T, W) /\ Rebuilt(T, W)
        BY <1>5, <2>2, <4>1 DEF SteadyInv, RestoreInv, Replaying
      <4>3. Executable(backup[h])
        BY <1>5, <4>1, <4>2, ReplayIsNext
      <4> QED
        BY <2>2, <3>1, <4>3 DEF Replay
    <3>2. ~(\E B \in Batch : Reject(B) \/ Accept(B)) /\ ~(\E b \in Block : NewBlock(b)) /\ ~StepBack
      BY <1>5, <2>2 DEF IInv, PhaseInv, Reject, Accept, NewBlock, StepBack
    <3>3. ~RollBack
      BY <1>5, <2>2 DEF IInv, PhaseInv, RollBack, RollbackAllowed
    <3>4. ~Finalize /\ ~Apply /\ ~ApplyFails /\ ~Deadline /\ ~Recover /\ ~SaveHeader /\ ~SaveBody
          /\ ~SaveIndex
      BY <2>2 DEF Finalize, Apply, ApplyFails, Deadline, Recover, SaveHeader, SaveBody, SaveIndex,
         callVars
    <3> QED
      BY <1>5, <3>1, <3>2, <3>3, <3>4 DEF SteadyNext, CallStep
  <2>3. ASSUME Adopt PROVE Ended
    BY <1>5, <2>3, AdoptAsPromised
  <2>4. ASSUME Restored PROVE Ended
    BY <1>5, <2>4, RestoredAsPromised
  <2> QED
    BY <2>1, <2>2, <2>3, <2>4
<1>6. IInv /\ SteadyInv /\ ServedInv /\ CheckpointFollows /\ CallFollows /\ IInv' /\ ServedInv'
      /\ [SteadyNext]_vars
         => [Kept]_vars
  BY <1>5
<1> QED
  BY <1>3, <1>4, <1>6, PTL DEF SteadySpec, KeepsPromise
=============================================================================
