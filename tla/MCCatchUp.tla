----------------------------- MODULE MCCatchUp -----------------------------
(***************************************************************************)
(* A tree for CatchUp.  The node mined m1 .. m5 (and may mine m6) with its *)
(* checkpoint at m3.  The other branches are named by the letter and the   *)
(* height of m they fork off: f3 and s4 above the checkpoint, f5 at the    *)
(* tip, f1 and d0 deep below it, h2 and h1 deep with three times the work  *)
(* per block.  The code's numbers are scaled down (FinalityDepth 5, chunks *)
(* of 10, override 10, steps back of 100, 500, 2000 become 2, 4, 2 and     *)
(* 2, 3, 4) so that a chunk still exceeds the flexible zone and is still   *)
(* lighter than an override of equal difficulty (10 < 10 * 6, 4 < 2 * 3).  *)
(***************************************************************************)
EXTENDS CatchUp

ForkOf == [m |-> 0, f5 |-> 5, f3 |-> 3, f1 |-> 1, h2 |-> 2, h1 |-> 1, s4 |-> 4, d0 |-> 0]
TopOf  == [m |-> 6, f5 |-> 11, f3 |-> 9, f1 |-> 11, h2 |-> 6, h1 |-> 6, s4 |-> 5, d0 |-> 7]

Branch(br) == {<<br, h>> : h \in (ForkOf[br] + 1) .. TopOf[br]}
MCGenesis == <<"m", 0>>
MCBlock == {MCGenesis} \cup UNION {Branch(br) : br \in DOMAIN ForkOf}

MCParent == [b \in MCBlock |->
    IF b = MCGenesis THEN b
    ELSE IF b[2] - 1 = ForkOf[b[1]] THEN <<"m", ForkOf[b[1]]>>
    ELSE <<b[1], b[2] - 1>>]

MCHeight == [b \in MCBlock |-> b[2]]
MCDiff == [b \in MCBlock |-> IF b[1] \in {"h1", "h2"} THEN 3 ELSE 1]

MCStepBacks == <<2, 3, 4>>
Mine == {<<"m", 5>>}
Own == {<<"m", 6>>}
Nothing == {}

\* Peers ahead on the node's branch, or on one that leaves it above the checkpoint.
NearTips == {<<"f3", h>> : h \in {4, 6, 9}} \cup {<<"f5", h>> : h \in {6, 11}}
LongAnswers == {4, 6}
ShortAnswers == {1, 6}

\* Peers of every branch, deep ones included.
AllTips == {<<"f3", 7>>, <<"f5", 8>>, <<"f1", 4>>, <<"f1", 9>>, <<"h2", 4>>, <<"h2", 6>>, <<"d0", 7>>, <<"h1", 6>>, <<"m", 4>>}
Stray == {<<"s4", 5>>, <<"f5", 6>>}
=============================================================================
