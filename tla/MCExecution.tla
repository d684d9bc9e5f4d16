---------------------------- MODULE MCExecution ----------------------------
(***************************************************************************)
(* Execution with three accounts: alice mined the genesis block, bob is    *)
(* another miner, carol has never been seen.  Amounts are in units the     *)
(* rewards of one or two blocks pay for, a fee is 1, the creation charge 2. *)
(***************************************************************************)
EXTENDS Execution

CONSTANTS alice, bob, carol

MCReward(h) == IF h = 0 THEN 8 ELSE 3

T(s, r, amount, nonce, anchor) ==
    [sender |-> s, receiver |-> r, amount |-> amount, fee |-> 1, nonce |-> nonce,
     anchor |-> anchor]

toCarol == T(alice, carol, 2, 0, 0)          \* opens carol's wallet
again   == T(alice, carol, 3, 1, 0)          \* the next one of alice
toSelf  == T(alice, alice, 1, 0, NoAnchor)   \* competes with toCarol; no recent hash
back    == T(carol, bob, 1, 0, 0)            \* spends what carol just received
forged  == T(bob, alice, 1, 0, 0)            \* signature does not verify
greedy  == [Coinbase(bob) EXCEPT !.fee = 1]  \* a coinbase that claims a fee

MCTx == {toCarol, again, toSelf, back, forged, greedy} \cup {Coinbase(a) : a \in Account}
MCSigned == {toCarol, again, toSelf, back}

MCPool == {<<toSelf, again, toCarol>>}

MCBody ==
    {<<Coinbase(a)>> : a \in {alice, bob}}
        \cup {<<Coinbase(bob), toCarol, back>>, <<Coinbase(alice), toSelf, again>>,
              <<Coinbase(bob), toCarol, toCarol>>, <<Coinbase(bob), forged>>, <<greedy>>}

\* The block that moves the tip under the builder.
MCRivals == {<<Coinbase(bob), toCarol>>}
=============================================================================
