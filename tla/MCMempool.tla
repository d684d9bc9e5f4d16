----------------------------- MODULE MCMempool -----------------------------
(***************************************************************************)
(* One wallet: two transactions that compete for its first nonce, and one  *)
(* that follows either.                                                    *)
(***************************************************************************)
EXTENDS Mempool, TLC

CONSTANTS alice, t1, t2, t3

MCTx ==
    {[id |-> t1, from |-> alice, nonce |-> 0, cost |-> 1],
     [id |-> t2, from |-> alice, nonce |-> 0, cost |-> 2],
     [id |-> t3, from |-> alice, nonce |-> 1, cost |-> 1]}
=============================================================================
