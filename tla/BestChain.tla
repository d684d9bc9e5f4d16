----------------------------- MODULE BestChain -----------------------------
(***************************************************************************)
(* What fork choice promises whoever asks the node: one best block and one *)
(* checkpoint.  The best block is replaced by a child, by the tip of a     *)
(* branch with more work than its own, or by its parent above the          *)
(* checkpoint; a branch that leaves the chain below the checkpoint must    *)
(* carry Factor times the work it replaces.  Work is counted on the tree   *)
(* itself, from the last common ancestor: stored weights, batches,         *)
(* rollbacks, replays and crashes are no part of this module.              *)
(***************************************************************************)
EXTENDS Integers, FiniteSetsExt

CONSTANTS Block, Genesis, Parent, Height, Diff, Factor

VARIABLES best, checkpoint

\* The blocks on the path from b down to genesis: those no set can leave out
\* that holds b and, with a block, its parent.
Ancestors(b) ==
    LET HoldsParents(S) == \A y \in S \ {Genesis} : Parent[y] \in S
    IN  {x \in Block : \A S \in SUBSET Block : (b \in S /\ HoldsParents(S)) => x \in S}

\* The work of the blocks of b's path that are not on c's.
Work(b, c) == MapThenSumSet(LAMBDA x : Diff[x], Ancestors(b) \ Ancestors(c))

\* The paths of b and c part below height h.
PartBelow(b, c, h) == \A x \in Ancestors(b) \cap Ancestors(c) : Height[x] < h

Init == best = Genesis /\ checkpoint = 0

Extend(b) ==
    /\ Parent[b] = best
    /\ Height[b] = Height[best] + 1
    /\ best' = b

Switch(b) ==
    /\ Work(b, best) > Work(best, b)
    /\ PartBelow(b, best, checkpoint) => Work(b, best) >= Factor * Work(best, b)
    /\ best' = b

StepBack ==
    /\ Height[best] > checkpoint
    /\ best' = Parent[best]
    /\ UNCHANGED checkpoint

\* A call that failed may leave the checkpoint elsewhere: lowered to the fork it
\* tried, or raised by the blocks it committed and undid.
Shift == checkpoint' # checkpoint /\ UNCHANGED best

Next ==
    \/ \E b \in Block : Extend(b) \/ Switch(b)
    \/ StepBack
    \/ Shift

\* No step leaves the checkpoint above the best block.
Spec == Init /\ [][Next /\ checkpoint' <= Height[best']]_<<best, checkpoint>>
=============================================================================
