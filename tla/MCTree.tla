------------------------------- MODULE MCTree -------------------------------
(***************************************************************************)
(* The block tree the ledger runs are checked on.  Blocks are named by     *)
(* branch and height.  It is the smallest tree with a plain extension      *)
(* (a1 a2 a3), a branch above the first block that weighs more than a2 and *)
(* as much as a2 a3 (b2), a bad block on top of it (x3), and a block heavy *)
(* enough to override a checkpoint (c1).                                   *)
(***************************************************************************)
EXTENDS Integers, Sequences, TLC

CONSTANTS
    g,          \* genesis
    a1, a2, a3, \* main branch
    b2, x3,     \* branch off a1; x3 declares a wrong state root
    c1,         \* very heavy block off genesis
    alice, bob

MCParent ==
    g :> g @@ a1 :> g @@ a2 :> a1 @@ a3 :> a2 @@ b2 :> a1 @@ x3 :> b2 @@ c1 :> g

MCHeight ==
    g :> 0 @@ a1 :> 1 @@ a2 :> 2 @@ a3 :> 3 @@ b2 :> 2 @@ x3 :> 3 @@ c1 :> 1

MCDiff ==
    g :> 1 @@ a1 :> 1 @@ a2 :> 1 @@ a3 :> 2 @@ b2 :> 3 @@ x3 :> 2 @@ c1 :> 6

MCTouches ==
    g :> {} @@ a1 :> {alice, bob} @@ a2 :> {alice} @@ a3 :> {bob}
      @@ b2 :> {bob} @@ x3 :> {alice} @@ c1 :> {alice}

MCMaxHeight == 3
MCBlock == DOMAIN MCParent

\* An account state is the list of the blocks that rewrote it, so that any
\* lost, repeated or misplaced execution shows; MaxHeight entries are enough.
MCValue == UNION {[1 .. k -> MCBlock \ {g}] : k \in 0 .. MCMaxHeight}
MCInitValue == <<>>
MCEffect(b, a, v) == IF b # g /\ Len(v) < MCMaxHeight THEN Append(v, b) ELSE v

\* Account states after the honest execution of a block's ancestry.
RECURSIVE Honest(_)
Honest(b) ==
    IF b = g THEN [a \in {alice, bob} |-> <<>>]
    ELSE [a \in {alice, bob} |->
            IF a \in MCTouches[b] THEN Append(Honest(MCParent[b])[a], b)
            ELSE Honest(MCParent[b])[a]]

MCStateRoot == [b \in MCBlock |-> IF b = x3 THEN Honest(g) ELSE Honest(b)]

\* The segments of the tree of length at most n that a peer may send.
Segment(n) ==
    {B \in UNION {[1 .. k -> MCBlock \ {g}] : k \in 1 .. n} :
        \A i \in 2 .. Len(B) : MCParent[B[i]] = B[i - 1]}
Segments2 == Segment(2)
Segments3 == Segment(3)
=============================================================================
