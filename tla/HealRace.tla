------------------------------ MODULE HealRace ------------------------------
(***************************************************************************)
(* The one-block step back the sync loop (SYNC-DEEP-HEAL) and the miner's  *)
(* self audit ask for: they read the current version with one gRPC call    *)
(* and send RollbackState(version, version - 1) with another.  Unlike      *)
(* ProcessChain the second call does not take consensusMu, so the gossip,  *)
(* pool or miner goroutine may run a whole ProcessChain between the two,   *)
(* or be inside one.                                                       *)
(***************************************************************************)
EXTENDS ProcessChain

VARIABLE seen           \* actualRustHeight / currentRealHeight of the caller

NoHeight == -1          \* nothing read yet

raceVars == <<vars, seen>>

RaceInit == Init /\ seen = NoHeight

ReadVersion ==
    /\ seen = NoHeight
    /\ version > finalized
    /\ seen' = version
    /\ UNCHANGED vars

StaleStepBack ==
    /\ seen # NoHeight
    /\ RollbackState(seen, seen - 1)
    /\ seen' = NoHeight
    /\ UNCHANGED <<pc, status, callVars>>

RaceNext ==
    \/ SteadyNext /\ UNCHANGED seen
    \/ ReadVersion
    \/ StaleStepBack

RaceSpec == RaceInit /\ [][RaceNext]_raceVars

\* The step back is "safe": after it the index is still a linked chain and the
\* state is still that chain's.
StepBackIsSafe ==
    [][seen # NoHeight /\ seen' = NoHeight => (CanonicalChain /\ StateFollowsChain)']_raceVars

\* What survives the race: no row at or below the checkpoint is replaced or
\* deleted, whatever version the step back was computed from.  (One that a
\* stale step back had emptied above the checkpoint may be filled again.)
FinalizedNotReplaced ==
    [][\A h \in 0 .. finalized : index[h] # NoBlock => index'[h] = index[h]]_raceVars
=============================================================================
