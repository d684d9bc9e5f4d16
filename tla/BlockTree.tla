----------------------------- MODULE BlockTree -----------------------------
(***************************************************************************)
(* The blocks a node may be handed, and what executing one does to the     *)
(* account table.  A block stands for its 32-byte header hash: two blocks  *)
(* are equal exactly when their packed headers are (pack_header_v112).     *)
(*                                                                         *)
(* The height a header declares is NOT assumed to be its parent's plus     *)
(* one: nothing in the header checks of process_chain compares the two, so *)
(* that fact has to come out of the model.                                 *)
(***************************************************************************)
EXTENDS Integers, Sequences, FiniteSets

CONSTANTS
    Block,          \* header hashes
    NoBlock,        \* "no such row" in the height index
    Genesis,        \* block 0, committed when the database is created
    Parent,         \* parent_hash of a header
    Height,         \* height a header declares
    Diff,           \* difficulty a header declares, = the work it proves
    ValidSigs,      \* every transaction signature of the block verifies
    ValidHeader,    \* PoW, LWMA difficulty and MTP-11 timestamp all verify
    ValidBody,      \* signatures, nonces, balances, fees and the tx root verify
    StateRoot,      \* state_root a header declares (a root names its tree)
    Account,        \* 32-byte addresses
    Touches,        \* accounts a block reads and rewrites
    Value,          \* account states
    InitValue,      \* AccountState::default()
    Effect(_, _, _),\* Effect(b, a, v): state of a after block b found it at v
    MaxHeight       \* bound on the heights of the instance

Heights == 0 .. MaxHeight
State == [Account -> Value]

ASSUME TreeAssumption ==
    /\ Genesis \in Block
    /\ NoBlock \notin Block
    /\ MaxHeight \in Nat
    /\ Parent \in [Block -> Block]
    /\ Height \in [Block -> Heights]
    /\ Height[Genesis] = 0
    /\ Diff \in [Block -> Nat \ {0}]
    /\ ValidHeader \subseteq Block
    /\ ValidSigs \subseteq Block
    /\ ValidBody \subseteq ValidSigs
    /\ StateRoot \in [Block -> State]
    /\ Touches \in [Block -> SUBSET Account]
    /\ InitValue \in Value

ASSUME EffectAssumption ==
    \A b \in Block, a \in Account : \A v \in Value : Effect(b, a, v) \in Value

\* U256::saturating_sub and u64::saturating_sub.
SaturatingSub(x, y) == IF x > y THEN x - y ELSE 0

\* The tree execute_block_internal writes for block b: the accounts b touches
\* are read from the flat table, all the others are inherited from the tree
\* of the version below.
ExecuteOn(b, tree, flat) ==
    [a \in Account |-> IF a \in Touches[b] THEN Effect(b, a, flat[a]) ELSE tree[a]]
=============================================================================
