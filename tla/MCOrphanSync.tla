---------------------------- MODULE MCOrphanSync ----------------------------
(***************************************************************************)
(* An honest peer and another; a parent far above the genesis block and    *)
(* just above the block after it.                                          *)
(***************************************************************************)
EXTENDS OrphanSync

CONSTANTS ann, eve, m

MCTip == [p \in {ann} |-> 3]
MCLevel == [h \in {m} |-> 2]
=============================================================================
