--------------------------- MODULE MCMiningPool ---------------------------
(***************************************************************************)
(* MiningPool on three templates of any of two heights: nonce 1 is a share *)
(* of every template and a block of the first two, nonce 2 a share of the  *)
(* third only, and a block of the second that is no share of its worker.   *)
(***************************************************************************)
EXTENDS MiningPool, TLC

MCSymmetry == Permutations(Request)
MCNonce == {1, 2}
MCPoolShare == {<<1, 1>>, <<2, 1>>, <<3, 1>>, <<3, 2>>}
MCNetworkBlock == {<<1, 1>>, <<2, 1>>, <<2, 2>>}
=============================================================================
