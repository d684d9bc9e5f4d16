------------------------------- MODULE Ledger -------------------------------
(***************************************************************************)
(* What one ProcessChain call promises to the goroutines that make it: the *)
(* fork choice of process_chain (consensus/reorg.rs) with the call taken   *)
(* as one step.  ProcessChain shows what happens inside the call; here the *)
(* chain is named by its tip, the headers the node stores are those of the *)
(* chain, and the node does not crash.                                     *)
(***************************************************************************)
EXTENDS Integers, Sequences, FiniteSets

CONSTANTS
    Block,          \* header hashes, all with valid headers and bodies
    Genesis,
    Parent,         \* parent_hash of a header
    Height,         \* its height, the parent's plus one
    Diff,           \* work of a header
    FinalityDepth,  \* confirmations that finalize a block: 5
    OverrideFactor  \* work ratio that unlocks a finalized segment: 10

ASSUME LedgerAssumption ==
    /\ Genesis \in Block
    /\ Parent \in [Block -> Block]
    /\ Height \in [Block -> Nat]
    /\ Height[Genesis] = 0
    /\ \A b \in Block \ {Genesis} : Height[b] = Height[Parent[b]] + 1
    /\ Diff \in [Block -> Nat \ {0}]
    /\ FinalityDepth \in Nat
    /\ OverrideFactor \in Nat \ {0, 1}

VARIABLES
    tip,        \* hash of the top block of the canonical chain
    finalized   \* the checkpoint height

ledgerVars == <<tip, finalized>>

Sat(x, y) == IF x > y THEN x - y ELSE 0
Higher(x, y) == IF x > y THEN x ELSE y
Lower(x, y) == IF x < y THEN x ELSE y

PathTo[b \in Block] == IF b = Genesis THEN <<b>> ELSE Append(PathTo[Parent[b]], b)
HeightOf(b) == Height[b]
At(b, h) == PathTo[b][h + 1]
AbsWeight[b \in Block] ==
    IF b = Genesis THEN Diff[b] ELSE AbsWeight[Parent[b]] + Diff[b]

OnPath(b, t) == HeightOf(b) <= HeightOf(t) /\ At(t, HeightOf(b)) = b
Stored(b) == OnPath(b, tip)

Wins_DeepAtCheckpoint(base, top) ==
    IF HeightOf(base) <= finalized
    THEN AbsWeight[top] - AbsWeight[base] >= OverrideFactor * (AbsWeight[tip] - AbsWeight[base])
    ELSE AbsWeight[top] > AbsWeight[tip]

\* Nakamoto's rule above the checkpoint; below it the new segment must have
\* OverrideFactor times the work of the one it replaces.
Wins(base, top) ==
    IF HeightOf(base) < finalized
    THEN AbsWeight[top] - AbsWeight[base] >= OverrideFactor * (AbsWeight[tip] - AbsWeight[base])
    ELSE AbsWeight[top] > AbsWeight[tip]

Linked(B) == \A i \in 2 .. Len(B) : Parent[B[i]] = B[i - 1]

\* The answer to a list of blocks, of which those in "bare" do not apply.  To
\* CatchUp these are the ones without their body: a bare block is executed as an
\* empty one, and its roots then differ; process_chain excuses it only at heights
\* up to the checkpoint, which the deep branch has just lowered to the fork.
Verdict(B, bare) ==
    IF ~Stored(Parent[B[1]]) THEN "orphan"
    ELSE IF ~Linked(B) THEN "fraud"
    ELSE IF ~Wins(Parent[B[1]], B[Len(B)]) THEN "ignored"
    ELSE IF \E i \in 1 .. Len(B) : B[i] \in bare THEN "mismatch"
    ELSE "adopted"

\* The block a failing call stops at.
FirstBare(B, bare) ==
    CHOOSE i \in 1 .. Len(B) : B[i] \in bare /\ \A j \in 1 .. (i - 1) : B[j] \notin bare

\* The checkpoint a failing call leaves: that of the last block it committed, or,
\* when there is none, the old one, which the deep branch has lowered to the fork.
\* (After more than FinalityDepth commits the old chain could not be restored.)
LeftAt(B, bare) ==
    LET base == HeightOf(Parent[B[1]])
        n == FirstBare(B, bare) - 1
    IN  Lower(base, IF n > 0 THEN Sat(base + n, FinalityDepth) ELSE finalized)

\* An adopted chain brings the checkpoint of its own tip, up or down.  A call that
\* fails leaves the old chain, and its replay raises the checkpoint again.
ProcessChain(B, bare) ==
    CASE Verdict(B, bare) = "adopted" ->
            /\ tip' = B[Len(B)]
            /\ finalized' = Sat(HeightOf(B[Len(B)]), FinalityDepth)
      [] Verdict(B, bare) = "mismatch" ->
            /\ finalized' = Higher(LeftAt(B, bare), Sat(HeightOf(tip), FinalityDepth))
            /\ UNCHANGED tip
      [] OTHER -> UNCHANGED ledgerVars
=============================================================================
