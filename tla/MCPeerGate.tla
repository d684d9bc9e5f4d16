----------------------------- MODULE MCPeerGate -----------------------------
(***************************************************************************)
(* One peer, its address, one gate and two writers, which are alike.       *)
(***************************************************************************)
EXTENDS PeerGate, TLC

CONSTANTS eve, wan, w1, w2

MCHome == [p \in Peer |-> wan]
AnyWriter == Permutations(Writer)
=============================================================================
