----------------------------- MODULE MCHealRace -----------------------------
(***************************************************************************)
(* HealRace on the tree of MCTree.  Peers send the segments of the two     *)
(* branches over a1 only, blocks of the others arrive as single new        *)
(* blocks: the race multiplies the states of the ledger by the versions    *)
(* the caller may have read.                                               *)
(***************************************************************************)
EXTENDS HealRace, MCTree

RaceBatch == {B \in Segments2 : \A i \in 1 .. Len(B) : B[i] \in {a2, a3, b2, x3}}
=============================================================================
