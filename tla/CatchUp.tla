------------------------------ MODULE CatchUp ------------------------------
(***************************************************************************)
(* CatchUpSync (sync_engine.go): a node downloads the headers of one peer  *)
(* from its checkpoint on, has evaluate_header_chain (lib.rs) judge them,  *)
(* and feeds the bodies to ProcessChain in chunks.  The peer is honest: it *)
(* answers with the blocks of the chain it has.  Between any two calls the *)
(* node may adopt another block and the peer may move on.                  *)
(*                                                                         *)
(* Not here: bad peers, snapshots (FastSyncBootstrap) and purged history   *)
(* (oldest_height is 0 on both sides).                                     *)
(***************************************************************************)
EXTENDS Ledger

CONSTANTS
    HeaderSpan,     \* headers asked for at once: 10000
    BodySpan,       \* bodies asked for at once: 100
    ChunkSize,      \* blocks of one ProcessChain call: 10
    StepBacks,      \* how far the start moves back: <<100, 500, 2000>>
    SmartAnswers,   \* numbers of blocks a smart answer (10 MB) may hold; {}: not supported
    SmartFails,     \* a smart answer may be lost
    NetworkFails,   \* a download may time out
    LocalBlocks,    \* blocks gossip or the miner may put on the node's tip meanwhile
    CachedBlocks,   \* blocks gossip may leave in pendingBlocks
    PeerTips,       \* tips the peer may have
    PeerSwitches,   \* the peer may leave its branch for a heavier one
    StartTips       \* tips the node may start with

ASSUME CatchUpAssumption ==
    /\ HeaderSpan \in Nat \ {0} /\ BodySpan \in Nat \ {0} /\ ChunkSize \in Nat \ {0}
    /\ StepBacks \in Seq(Nat) /\ StepBacks # <<>>
    /\ SmartAnswers \subseteq Nat
    /\ {SmartFails, NetworkFails, PeerSwitches} \subseteq BOOLEAN
    /\ LocalBlocks \cup CachedBlocks \cup PeerTips \cup StartTips \subseteq Block

NoHeaders == <<>>

VARIABLES
    pc,         \* where CatchUpSync is
    peerTip,    \* tip of the peer's chain
    pending,    \* pendingBlocks: blocks kept by height, one per height
    peerH,      \* PeerHeights[targetPeer] when CatchUpSync began
    startH,     \* height of the first header asked for
    fH,         \* finalized height when CatchUpSync began
    actualH,    \* version when CatchUpSync began
    oldTip,     \* history variable: the tip then
    stepBacks,  \* stepBackAttempts
    hBatch,     \* the downloaded headers, in order
    fork,       \* ForkPoint of the evaluation
    point,      \* effectiveForkPoint
    debt,       \* smartBlocks / debtChain still to be processed
    bare,       \* those of them without a body
    limitH,     \* where point goes when the bodies are done
    smart,      \* the bodies come from a smart answer
    reply,      \* last answer of ProcessChain, "none" before the first
    rootErrors, \* peerRootErrors[targetPeer]
    strikes,    \* punishPeer calls, up to MaxStrikes
    outcome     \* what the last batch of bodies, or the call, came to

began == <<peerH, fH, actualH, oldTip>>
catchUpVars == <<began, startH, stepBacks, hBatch, fork, point, debt, bare, limitH, smart, reply>>
vars == <<ledgerVars, pc, peerTip, pending, catchUpVars, rootErrors, strikes, outcome>>

MaxStrikes == 1
Phase == {"idle", "headers", "judge", "fetch", "bodies", "deliver"}
Reply == {"none", "ignored", "adopted", "orphan", "fraud", "mismatch"}
Outcome == {"none", "aborted", "unneeded", "refused", "reorg", "amnesty", "sidechain",
            "healing", "punished", "done"}

Init ==
    /\ tip \in StartTips
    /\ finalized = Sat(HeightOf(tip), FinalityDepth)
    /\ pc = "idle"
    /\ peerTip \in PeerTips
    /\ pending = {}
    /\ peerH = 0 /\ startH = 0 /\ fH = 0 /\ actualH = 0 /\ oldTip = Genesis /\ stepBacks = 0
    /\ hBatch = NoHeaders /\ fork = 0 /\ point = 0 /\ debt = <<>> /\ bare = {} /\ limitH = 0
    /\ smart = FALSE /\ reply = "none"
    /\ rootErrors = 0 /\ strikes = 0 /\ outcome = "none"

\* The deferred clean-up: the locals are gone, catchUpRunning is released.
Return(result) ==
    /\ pc' = "idle"
    /\ outcome' = result
    /\ peerH' = 0 /\ startH' = 0 /\ fH' = 0 /\ actualH' = 0 /\ oldTip' = Genesis /\ stepBacks' = 0
    /\ hBatch' = NoHeaders /\ fork' = 0 /\ point' = 0 /\ debt' = <<>> /\ bare' = {} /\ limitH' = 0
    /\ smart' = FALSE /\ reply' = "none"

PunishPeer == strikes' = Lower(strikes + 1, MaxStrikes)

---------------------------------------------------------------------------
\* Headers.

Start ==
    /\ pc = "idle"
    /\ pc' = "headers"
    /\ startH' = finalized + 1
    /\ peerH' = HeightOf(peerTip)
    /\ fH' = finalized
    /\ actualH' = HeightOf(tip)
    /\ oldTip' = tip
    /\ outcome' = "none"
    /\ UNCHANGED <<ledgerVars, peerTip, pending, stepBacks, hBatch, fork, point, debt, bare,
                   limitH, smart, reply, rootErrors, strikes>>

PeerTooLow ==
    /\ pc = "headers"
    /\ peerH < startH
    /\ Return("unneeded")
    /\ UNCHANGED <<ledgerVars, peerTip, pending, rootErrors, strikes>>

DownloadHeaders ==
    /\ pc = "headers"
    /\ Lower(peerH, HeightOf(peerTip)) >= startH
    /\ hBatch' = SubSeq(PathTo[peerTip], startH + 1,
                        Lower(Lower(peerH, HeightOf(peerTip)), startH + HeaderSpan - 1) + 1)
    /\ pc' = "judge"
    /\ UNCHANGED <<ledgerVars, peerTip, pending, began, startH, stepBacks, fork, point, debt,
                   bare, limitH, smart, reply, rootErrors, strikes, outcome>>

\* The peer has left for a heavier but shorter branch since it told its height.
\* DownloadHeaderBatch turns an empty answer into an error, and that costs a strike.
DownloadEmpty ==
    /\ pc = "headers"
    /\ peerH >= startH
    /\ HeightOf(peerTip) < startH
    /\ PunishPeer
    /\ Return("punished")
    /\ UNCHANGED <<ledgerVars, peerTip, pending, rootErrors>>

\* A timeout closes the connection and ends the call, without a penalty.
DownloadFails ==
    /\ NetworkFails
    /\ pc \in {"headers", "bodies"}
    /\ Return("aborted")
    /\ UNCHANGED <<ledgerVars, peerTip, pending, rootErrors, strikes>>

---------------------------------------------------------------------------
\* evaluate_header_chain.

Matched(H) == {i \in 1 .. Len(H) : Stored(H[i])}

LastMatch(H) == CHOOSE i \in Matched(H) : \A k \in Matched(H) : k <= i

ForkBlock_First(H) == Parent[H[1]]

\* The last header the node has, the parent of the first one if it has none.
ForkBlock(H) == IF Matched(H) = {} THEN Parent[H[1]] ELSE H[LastMatch(H)]

\* What the answer says: bootstrap mode always says 0.
ForkPoint(H) == IF H[1] = Genesis THEN 0 ELSE HeightOf(ForkBlock(H))

IsDeepReorg_OffByOne(H) ==
    \E i \in 1 .. Len(H) : HeightOf(H[i]) <= Lower(finalized + 1, HeightOf(tip)) /\ ~Stored(H[i])

\* A header that differs from the stored one at or below the checkpoint.
IsDeepReorg(H) ==
    \E i \in 1 .. Len(H) : HeightOf(H[i]) <= Lower(finalized, HeightOf(tip)) /\ ~Stored(H[i])

Judge(H) ==
    LET base  == AbsWeight[ForkBlock(H)]
        new   == AbsWeight[H[Len(H)]]
        local == AbsWeight[tip]
    IN  IF H[1] = Genesis THEN "admit"          \* bootstrap mode: no weighing
        ELSE IF ~Stored(Parent[H[1]]) THEN "unknown parent"
        ELSE IF IsDeepReorg(H)
             THEN IF Sat(new, base) >= OverrideFactor * Sat(local, base) THEN "admit"
                  ELSE IF Sat(new, base) >= Sat(local, base) THEN "pass"
                  ELSE "firewall"
             ELSE IF new > local THEN "admit" ELSE "pass"

StepLength_Once(n) == IF n = 1 THEN StepBacks[1] ELSE 0
StepLength(n) == StepBacks[Lower(n, Len(StepBacks))]

StepBack ==
    /\ pc = "judge"
    /\ Judge(hBatch) = "unknown parent"
    /\ stepBacks' = Lower(stepBacks + 1, Len(StepBacks))
    /\ startH' = Sat(startH, StepLength(stepBacks + 1))
    /\ pc' = "headers"
    /\ UNCHANGED <<ledgerVars, peerTip, pending, began, hBatch, fork, point, debt,
                   bare, limitH, smart, reply, rootErrors, strikes, outcome>>

\* Not heavier, or not heavy enough for a finalized segment.  Only a chain that
\* would lose finalized history to less work costs a strike.
Refuse ==
    /\ pc = "judge"
    /\ Judge(hBatch) \in {"pass", "firewall"}
    /\ IF Judge(hBatch) = "firewall" THEN PunishPeer ELSE UNCHANGED strikes
    /\ Return(IF Judge(hBatch) = "firewall" THEN "refused" ELSE "unneeded")
    /\ UNCHANGED <<ledgerVars, peerTip, pending, rootErrors>>

Highest == HeightOf(hBatch[Len(hBatch)])

\* The early exit for headers the node has all of (Highest <= fork) needs a chain
\* heavier than the local one and part of it; at point >= Highest Done ends the call.
Admit ==
    /\ pc = "judge"
    /\ Judge(hBatch) = "admit"
    /\ fork' = ForkPoint(hBatch)
    /\ point' = Lower(ForkPoint(hBatch), actualH)
    /\ pc' = "fetch"
    /\ UNCHANGED <<ledgerVars, peerTip, pending, began, startH, stepBacks, hBatch, debt,
                   bare, limitH, smart, reply, rootErrors, strikes, outcome>>

---------------------------------------------------------------------------
\* Bodies.

Header(h) == hBatch[h - HeightOf(hBatch[1]) + 1]

\* RequestBlockBatchSmart: blocks by height from the peer's chain of the moment.
FetchSmart ==
    /\ pc = "fetch"
    /\ point < Highest
    /\ \E n \in SmartAnswers :
          LET last == Lower(Lower(point + n, Highest), HeightOf(peerTip))
          IN  /\ last > point
              /\ debt' = [i \in 1 .. (last - point) |-> At(peerTip, point + i)]
              /\ limitH' = last
    /\ bare' = {}
    /\ smart' = TRUE
    /\ reply' = "none"
    /\ pc' = "deliver"
    /\ UNCHANGED <<ledgerVars, peerTip, pending, began, startH, stepBacks, hBatch, fork, point,
                   rootErrors, strikes, outcome>>

\* No smart answer: the peer does not speak the protocol, or it failed.
FetchByHeight ==
    /\ pc = "fetch"
    /\ point < Highest
    /\ SmartFails \/ SmartAnswers = {} \/ HeightOf(peerTip) <= point
    /\ pc' = "bodies"
    /\ UNCHANGED <<ledgerVars, peerTip, pending, catchUpVars, rootErrors, strikes, outcome>>

\* What stands for the block of height h: its header alone below the
\* checkpoint, whatever pendingBlocks holds at that height, or the block the
\* header names, asked for by its hash.
Cached(h) == {b \in pending : HeightOf(b) = h}
Body(h) ==
    IF h >= finalized /\ Cached(h) # {} THEN CHOOSE b \in Cached(h) : TRUE ELSE Header(h)

Gather ==
    /\ pc = "bodies"
    /\ LET last == Lower(Highest, point + BodySpan)
       IN  /\ \A h \in (point + 1) .. last :
                 h < finalized \/ Cached(h) # {} \/ OnPath(Header(h), peerTip)
           /\ debt' = [i \in 1 .. (last - point) |-> Body(point + i)]
           /\ bare' = {Header(h) : h \in (point + 1) .. (Lower(last + 1, finalized) - 1)}
           /\ limitH' = last
    /\ smart' = FALSE
    /\ reply' = "none"
    /\ pc' = "deliver"
    /\ UNCHANGED <<ledgerVars, peerTip, pending, began, startH, stepBacks, hBatch, fork, point,
                   rootErrors, strikes, outcome>>

\* The peer has left the branch meanwhile and does not know a hash any more.
GatherFails ==
    /\ pc = "bodies"
    /\ \E h \in (point + 1) .. Lower(Highest, point + BodySpan) :
          /\ h >= finalized /\ Cached(h) = {}
          /\ ~OnPath(Header(h), peerTip)
    /\ PunishPeer
    /\ Return("punished")
    /\ UNCHANGED <<ledgerVars, peerTip, pending, rootErrors>>

---------------------------------------------------------------------------
\* ProcessChain, chunk by chunk.

Chunk == SubSeq(debt, 1, Lower(ChunkSize, Len(debt)))

\* Statuses 2 and 4 end the loop, ORPHAN and the ignored side chain do not.
Deliver ==
    /\ pc = "deliver"
    /\ debt # <<>>
    /\ ProcessChain(Chunk, bare)
    /\ reply' = Verdict(Chunk, bare)
    /\ debt' = IF Verdict(Chunk, bare) \in {"fraud", "mismatch"} THEN <<>>
               ELSE SubSeq(debt, Len(Chunk) + 1, Len(debt))
    /\ UNCHANGED <<pc, peerTip, pending, began, startH, stepBacks, hBatch, fork, point, bare,
                   limitH, smart, rootErrors, strikes, outcome>>

Answered == pc = "deliver" /\ debt = <<>>
Accepted == reply \in {"adopted", "ignored"}

\* After a smart answer: go on, or fall back to bodies by height.
ConcludeSmart ==
    /\ Answered
    /\ smart
    /\ IF Accepted THEN pc' = "fetch" /\ point' = limitH ELSE pc' = "bodies" /\ UNCHANGED point
    /\ bare' = {} /\ reply' = "none" /\ smart' = FALSE /\ limitH' = 0
    /\ UNCHANGED <<ledgerVars, peerTip, pending, began, startH, stepBacks, hBatch, fork, debt,
                   rootErrors, strikes, outcome>>

\* Below the checkpoint of the beginning, an adopted batch lifts all penalties.
IsDeepSuccess_Eq == reply = "adopted" /\ point <= fH
IsDeepSuccess == reply = "adopted" /\ point < fH

Forgiven_Twice == rootErrors <= 1
Forgiven == rootErrors = 0

\* A state root mismatch is forgiven once; every failure that is not one of the
\* texts the code looks for is the peer's.  ProcessChain reports an orphan as
\* status 3, so the branch that spares the peer of an orphan (status 2) is not
\* taken.  A bare block may break the state root or the transaction root first.
Conclude ==
    /\ Answered
    /\ ~smart
    /\ \/ /\ Accepted
          /\ strikes' = IF IsDeepSuccess THEN 0 ELSE strikes
          /\ outcome' = IF IsDeepSuccess THEN "amnesty"
                        ELSE IF reply = "adopted" THEN "reorg" ELSE "sidechain"
          /\ UNCHANGED <<rootErrors, pending>>
       \/ /\ reply = "mismatch"
          /\ Forgiven
          /\ rootErrors' = rootErrors + 1
          /\ pending' = {b \in pending : HeightOf(b) \notin (fork + 1) .. Highest}
          /\ outcome' = "healing"
          /\ UNCHANGED strikes
       \/ /\ reply = "mismatch"
          /\ ~Forgiven
          /\ rootErrors' = 0
          /\ PunishPeer
          /\ outcome' = "punished"
          /\ UNCHANGED pending
       \/ /\ ~Accepted
          /\ PunishPeer
          /\ outcome' = "punished"
          /\ UNCHANGED <<rootErrors, pending>>
    /\ point' = limitH
    /\ pc' = "fetch"
    /\ bare' = {} /\ reply' = "none" /\ limitH' = 0
    /\ UNCHANGED <<ledgerVars, peerTip, began, startH, stepBacks, hBatch, fork, debt, smart>>

Done ==
    /\ pc = "fetch"
    /\ point >= Highest
    /\ Return("done")
    /\ UNCHANGED <<ledgerVars, peerTip, pending, rootErrors, strikes>>

---------------------------------------------------------------------------
\* Around the call.

\* A gossiped or mined block on the tip.
LocalBlock ==
    \E b \in LocalBlocks :
        /\ Parent[b] = tip
        /\ ProcessChain(<<b>>, {})
        /\ UNCHANGED <<pc, peerTip, pending, catchUpVars, rootErrors, strikes, outcome>>

\* HandleBlockArrival keeps a gossiped block that is one above the tip, of
\* whatever branch; syncLoop takes it out again.
KeepBlock ==
    \E b \in CachedBlocks :
        /\ HeightOf(b) = HeightOf(tip) + 1
        /\ pending' = {c \in pending : HeightOf(c) # HeightOf(b)} \cup {b}
        /\ UNCHANGED <<ledgerVars, pc, peerTip, catchUpVars, rootErrors, strikes, outcome>>

TakeBlock ==
    /\ Cached(HeightOf(tip) + 1) # {}
    /\ pending' = pending \ Cached(HeightOf(tip) + 1)
    /\ UNCHANGED <<ledgerVars, pc, peerTip, catchUpVars, rootErrors, strikes, outcome>>

PeerMoves ==
    /\ \E b \in PeerTips :
          /\ AbsWeight[b] > AbsWeight[peerTip]
          /\ PeerSwitches \/ OnPath(peerTip, b)
          /\ peerTip' = b
    /\ UNCHANGED <<ledgerVars, pc, pending, catchUpVars, rootErrors, strikes, outcome>>

---------------------------------------------------------------------------
CatchUpStep ==
    \/ PeerTooLow \/ DownloadHeaders \/ DownloadEmpty \/ DownloadFails
    \/ StepBack \/ Refuse \/ Admit
    \/ FetchSmart \/ FetchByHeight \/ Gather \/ GatherFails
    \/ Deliver \/ ConcludeSmart \/ Conclude \/ Done

Next ==
    \/ Start \/ CatchUpStep
    \/ LocalBlock \/ KeepBlock \/ TakeBlock \/ PeerMoves

Spec == Init /\ [][Next]_vars

\* A running call keeps running; syncLoop and gossip start it again and again.
LiveSpec == Spec /\ WF_vars(CatchUpStep) /\ WF_vars(Start)

---------------------------------------------------------------------------
\* Properties.

TypeOK ==
    /\ tip \in Block /\ finalized \in 0 .. HeightOf(tip)
    /\ pc \in Phase /\ peerTip \in PeerTips /\ pending \subseteq CachedBlocks
    /\ peerH \in Nat /\ startH \in Nat /\ fH \in Nat /\ actualH \in Nat /\ oldTip \in Block
    /\ stepBacks \in 0 .. Len(StepBacks)
    /\ hBatch \in Seq(Block) /\ debt \in Seq(Block) /\ bare \subseteq Block
    /\ fork \in Nat /\ point \in Nat /\ limitH \in Nat /\ smart \in BOOLEAN
    /\ reply \in Reply /\ rootErrors \in 0 .. 1 /\ strikes \in 0 .. MaxStrikes
    /\ outcome \in Outcome

\* The two arbitrations agree: headers evaluate_header_chain admits are a chain
\* process_chain would adopt, were it given all of them at once, and headers it
\* passes over are not.  (Bootstrap mode, which does not weigh, aside.)
NewPart(H) == SubSeq(H, Cardinality(Matched(H)) + 1, Len(H))
JudgesAgree ==
    pc = "judge" /\ hBatch[1] # Genesis /\ NewPart(hBatch) # <<>> =>
        CASE Judge(hBatch) = "admit"          -> Verdict(NewPart(hBatch), {}) = "adopted"
          [] Judge(hBatch) = "unknown parent" -> Verdict(NewPart(hBatch), {}) = "orphan"
          [] OTHER                            -> Verdict(NewPart(hBatch), {}) = "ignored"

\* An honest peer is not punished.
HonestUnpunished == strikes = 0

\* What it takes: the peer only extends its branch, gossip and the miner keep out
\* of the way, and the peer's chain holds the block the node starts with as final;
\* and as many bodies as make one ProcessChain call outweigh the unfinalized part
\* of the node's chain (10 blocks against 5), unless they are all there are.
NearPeers ==
    /\ ~PeerSwitches
    /\ LocalBlocks = {} /\ CachedBlocks = {}
    /\ \A s \in StartTips, p \in PeerTips :
          /\ OnPath(At(s, Sat(HeightOf(s), FinalityDepth)), p)
          /\ \A n \in SmartAnswers \cup {BodySpan, ChunkSize}, h \in 0 .. HeightOf(s) :
                h + n <= HeightOf(p) /\ HeightOf(s) <= h + FinalityDepth /\ At(s, h) = At(p, h)
                => AbsWeight[At(p, h + n)] > AbsWeight[s]

\* All penalties are lifted only when the chain lost a block that was final when
\* the catch-up began (headers that start at Genesis aside), or when a block that
\* gossip left in pendingBlocks took a header's place in the batch: one that is
\* alone in the last chunk may extend the node's own chain, and the code takes
\* that for the end of a deep reorganisation.
AmnestyIsEarned ==
    [][outcome # "amnesty" /\ outcome' = "amnesty" /\ hBatch[1] # Genesis
          => \/ ~Stored(At(oldTip, fH))
             \/ \E b \in CachedBlocks : HeightOf(b) > point /\ Stored(b)]_vars

\* The lock catchUpRunning is always released: no call runs for ever.
CatchUpEnds == pc # "idle" ~> pc = "idle"

\* The node ends up on a chain at least as heavy as the peer's.
CatchesUp == <>[](AbsWeight[tip] >= AbsWeight[peerTip])
=============================================================================
