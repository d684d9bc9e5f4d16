--------------------------- MODULE MCProcessChain ---------------------------
(***************************************************************************)
(* ProcessChain on the tree of MCTree, with FinalityDepth 1 or 2 for 5 and *)
(* OverrideFactor 2 for 10.                                                *)
(***************************************************************************)
EXTENDS ProcessChain, MCTree

ASSUME LedgerHolds == LedgerSetting
=============================================================================
