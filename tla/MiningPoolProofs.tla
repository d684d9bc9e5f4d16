-------------------------- MODULE MiningPoolProofs --------------------------
(***************************************************************************)
(* Proofs about MiningPool, for every set of requests and nonces, whatever *)
(* hashes are shares or blocks.                                            *)
(***************************************************************************)
EXTENDS MiningPool, TLAPS

---------------------------------------------------------------------------
\* The inductive invariant of the payouts.

\* At most one request is inside a stretch under pool.Mu.
OneHolder ==
    \A r, s \in Request : req[r].pc \in Holding /\ req[s].pc \in Holding => r = s

\* The workers' file is only ever written just after a reset.
FileOfZeros == sharesFile = {} /\ \A r \in Request : req[r].pc = "shares" => shares = {}

\* The payouts of the file are payouts of memory, and while their request
\* holds the lock between payout and reset nobody else changes either.
PayoutsKept ==
    /\ payoutFile \subseteq payouts
    /\ \A p \in payouts : p.shares \subseteq DOMAIN credits
    /\ \A p, q \in payouts : p # q => p.shares \cap q.shares = {}
    /\ (\A r \in Request : req[r].pc \notin {"payouts", "reset"}) => Disjoint(shares, payouts)

---------------------------------------------------------------------------
\* The inductive invariant of the nonce cache.

Judging == {"verify", "unregister"}

\* Piece p is paid, or about to be.
Spent(p) ==
    \/ \E i \in DOMAIN credits : credits[i] = p
    \/ \E r \in Request : req[r].pc = "credit" /\ Piece(r) = p

\* A request may still ask for a piece of template t.
Open(t) == active = t \/ \E r \in Request : req[r].pc = "check" /\ req[r].on = t

\* The active template is the newest.
ActiveIsNewest == active # NoTemplate => active = Len(issued)

\* A request being judged is of the cache's height, and its nonce is its own.
JudgedRegistered ==
    \A r \in Request : req[r].pc \in Judging =>
        /\ HeightOf(r) = currentHeight
        /\ req[r].nonce \in usedNonces
        /\ req[r].pc = "verify" => ~Spent(Piece(r))
        /\ \A s \in Request \ {r} : req[s].pc \in Judging => req[s].nonce # req[r].nonce

\* A piece of an open template that was spent is still in the cache, and will
\* not be released.
SpentRemembered ==
    \A t \in DOMAIN issued, n \in Nonce :
        Open(t) /\ Spent(<<t, n>>) =>
            /\ currentHeight = issued[t]
            /\ n \in usedNonces
            /\ \A r \in Request : req[r].pc \in Judging => req[r].nonce # n

\* While a request waits for its check, nothing of a newer template of another
\* height has been registered.
OldFirst ==
    \A r \in Request : req[r].pc = "check" =>
        \A t \in DOMAIN issued :
            t > req[r].on /\ issued[t] # HeightOf(r) =>
                /\ \A n \in Nonce : ~Spent(<<t, n>>)
                /\ \A s \in Request : req[s].pc \in Judging => req[s].on # t

\* No piece is spent twice.
SpentOnce ==
    /\ \A i, j \in DOMAIN credits : credits[i] = credits[j] => i = j
    /\ \A r \in Request : req[r].pc = "credit" =>
          /\ \A i \in DOMAIN credits : credits[i] # Piece(r)
          /\ \A s \in Request \ {r} : req[s].pc = "credit" => Piece(s) # Piece(r)

CreditsIssued == \A i \in DOMAIN credits : credits[i][1] \in DOMAIN issued

CacheInv ==
    /\ ActiveIsNewest
    /\ CreditsIssued
    /\ ~mixed => JudgedRegistered /\ SpentRemembered /\ OldFirst /\ SpentOnce

---------------------------------------------------------------------------
\* Types.

USE DEF Template, Height

LEMMA InitType == Init => TypeOK
<1> SUFFICES ASSUME Init PROVE TypeOK
  OBVIOUS
<1>1. issued = <<>> /\ issued \in Seq(Height) /\ Len(issued) = 0
  BY DEF Init
<1>2. credits = <<>> /\ credits \in Seq(Template \X Nonce)
  BY DEF Init
<1>3. req \in [Request -> {Idle} \cup Busy]
  BY DEF Init
<1>4. Len(issued) <= MaxTemplates
  BY <1>1, PoolAssumption
<1>5. /\ active = NoTemplate /\ usedNonces = {} /\ currentHeight = 0
      /\ shares = {} /\ payouts = {} /\ mined = {}
      /\ payoutFile = {} /\ sharesFile = {} /\ statsFile = {} /\ unsaved = {} /\ mixed = FALSE
  BY DEF Init
<1>6. issued \in Seq(Height) /\ credits \in Seq(Template \X Nonce)
  BY <1>1, <1>2
<1> QED
  BY <1>3, <1>4, <1>5, <1>6 DEF TypeOK

\* What moving one request does to all of them.
LEMMA GotoType ==
    ASSUME TypeOK, NEW r \in Request, req[r].pc # "idle", NEW phase \in Phase \ {"idle"}, Goto(r, phase)
    PROVE  /\ req' \in [Request -> {Idle} \cup Busy]
           /\ req[r] \in Busy
           /\ \A s \in Request : req'[s] = IF s = r THEN At(r, phase) ELSE req[s]
<1>1. req[r] \in Busy
  BY DEF TypeOK, Idle
<1>2. At(r, phase) \in Busy
  BY <1>1 DEF At, Busy
<1> QED
  BY <1>1, <1>2 DEF Goto, TypeOK

LEMMA ReplyType ==
    ASSUME TypeOK, NEW r \in Request, Reply(r)
    PROVE  /\ req' \in [Request -> {Idle} \cup Busy]
           /\ \A s \in Request : req'[s] = IF s = r THEN Idle ELSE req[s]
BY DEF Reply, TypeOK

LEMMA NextType == TypeOK /\ [Next]_vars => TypeOK'
<1> SUFFICES ASSUME TypeOK, [Next]_vars PROVE TypeOK'
  OBVIOUS
<1> USE PoolAssumption
<1>0. ASSUME UNCHANGED <<active, issued>>, req' \in [Request -> {Idle} \cup Busy],
             usedNonces' \subseteq Nonce, currentHeight' \in Height \cup {0},
             UNCHANGED <<ram, files, credits>>, mixed' \in BOOLEAN
      PROVE  TypeOK'
  BY <1>0 DEF TypeOK, ram, files, Busy
<1>1. ASSUME NEW h \in Height, NewTemplate(h) PROVE TypeOK'
  <2>1. /\ issued' \in Seq(Height) /\ Len(issued') = Len(issued) + 1 /\ Len(issued) \in Nat
        /\ DOMAIN issued = 1 .. Len(issued) /\ DOMAIN issued' = 1 .. Len(issued) + 1
    BY <1>1 DEF NewTemplate, TypeOK
  <2>2. DOMAIN issued \subseteq DOMAIN issued'
    BY <2>1
  <2>3. Busy \subseteq Busy'
    BY <2>2 DEF Busy
  <2>4. req' \in [Request -> {Idle} \cup Busy']
    BY <1>1, <2>3 DEF NewTemplate, TypeOK
  <2>5. active' \in DOMAIN issued' /\ Len(issued') <= MaxTemplates
    BY <1>1, <2>1 DEF NewTemplate, TypeOK
  <2> QED
    BY <1>1, <2>1, <2>4, <2>5 DEF NewTemplate, TypeOK, cache, ram, files
<1>2. CASE DropTemplate
  BY <1>2 DEF DropTemplate, TypeOK, cache, ram, files, Busy
<1>3. ASSUME NEW r \in Request, NEW n \in Nonce, NEW s \in {"http", "stream"}, Submit(r, n, s)
      PROVE  TypeOK'
  <2>1. [pc |-> "check", source |-> s, on |-> active, nonce |-> n] \in Busy
    BY <1>3 DEF Submit, TypeOK, Busy, Phase
  <2>2. req' \in [Request -> {Idle} \cup Busy]
    BY <1>3, <2>1 DEF Submit, TypeOK
  <2> QED
    BY <1>3, <2>2, <1>0 DEF Submit, TypeOK, cache
<1>4. ASSUME NEW r \in Request, Handle(r) PROVE TypeOK'
  <2>0. req[r].pc \in Phase
    BY DEF TypeOK, Idle, Busy, Phase
  <2>1. CASE Check(r)
    <3>0. req[r] \in Busy
      BY <2>1 DEF Check, TypeOK, Idle
    <3>1. HeightOf(r) \in Height /\ req[r].nonce \in Nonce
      BY <3>0 DEF TypeOK, Busy, HeightOf
    <3>2. req' \in [Request -> {Idle} \cup Busy]
      BY <2>1, GotoType, ReplyType DEF Check, Phase
    <3>3. usedNonces' \subseteq Nonce
      BY <2>1, <3>1 DEF Check, Registered, Remembered, TypeOK
    <3>4. mixed' \in BOOLEAN
      BY <2>1 DEF Check, TypeOK, OtherHeightUnderWay
    <3> QED
      BY <2>1, <3>1, <3>2, <3>3, <3>4, <1>0 DEF Check
  <2>2. CASE Verify(r)
    <3>1. req' \in [Request -> {Idle} \cup Busy]
      BY <2>2, GotoType DEF Verify, Phase
    <3> QED
      BY <2>2, <3>1, <1>0 DEF Verify, TypeOK, cache
  <2>3. CASE UnregisterNonce(r)
    BY <2>3, ReplyType, <1>0 DEF UnregisterNonce, TypeOK
  <2>4. CASE RegisterShare(r)
    <3>1. req' \in [Request -> {Idle} \cup Busy]
      BY <2>4, GotoType, ReplyType DEF RegisterShare, Phase
    <3>2. Piece(r) \in Template \X Nonce
      BY <2>4 DEF RegisterShare, TypeOK, Busy, Idle, Piece
    <3>3. credits' \in Seq(Template \X Nonce) /\ DOMAIN credits' = 1 .. Len(credits) + 1
          /\ DOMAIN credits = 1 .. Len(credits) /\ Len(credits) \in Nat
      BY <2>4, <3>2 DEF RegisterShare, TypeOK
    <3>4. shares' \subseteq DOMAIN credits' /\ sharesFile' \subseteq DOMAIN credits'
      BY <2>4, <3>3 DEF RegisterShare, TypeOK, files
    <3> QED
      BY <2>4, <3>1, <3>3, <3>4 DEF RegisterShare, TypeOK, cache, files, Busy
  <2>5. CASE SkipShare(r)
    BY <2>5, ReplyType, <1>0 DEF SkipShare, TypeOK, cache
  <2>6. CASE SnapshotAndReset(r)
    <3>1. req' \in [Request -> {Idle} \cup Busy]
      BY <2>6, GotoType DEF SnapshotAndReset, Phase
    <3>2. HeightOf(r) \in Height
      BY <2>6 DEF SnapshotAndReset, TypeOK, Busy, Idle, HeightOf
    <3>3. shares \in SUBSET Nat
      BY DEF TypeOK
    <3>4. [height |-> HeightOf(r), shares |-> shares] \in Payout
      BY <3>2, <3>3 DEF Payout
    <3>5. payouts' \subseteq Payout /\ payoutFile' \subseteq Payout
      BY <2>6, <3>4 DEF SnapshotAndReset, TypeOK
    <3>6. unsaved' \subseteq {"payouts", "mined"}
      BY <2>6 DEF SnapshotAndReset, Failed, TypeOK
    <3> QED
      BY <2>6, <3>1, <3>5, <3>6 DEF SnapshotAndReset, TypeOK, cache, Busy
  <2>7. CASE SavePendingPayouts(r)
    <3>1. req' \in [Request -> {Idle} \cup Busy]
      BY <2>7, GotoType DEF SavePendingPayouts, Phase
    <3>2. unsaved' \subseteq {"payouts", "mined"} /\ payoutFile' \subseteq Payout
      BY <2>7 DEF SavePendingPayouts, Written, Failed, TypeOK
    <3> QED
      BY <2>7, <3>1, <3>2 DEF SavePendingPayouts, TypeOK, cache, ram, Busy
  <2>8. CASE ResetShares(r)
    <3>1. req' \in [Request -> {Idle} \cup Busy]
      BY <2>8, GotoType DEF ResetShares, Phase
    <3> QED
      BY <2>8, <3>1 DEF ResetShares, TypeOK, cache, Busy, SharesLeft
  <2>9. CASE SaveShares(r)
    <3>1. req' \in [Request -> {Idle} \cup Busy]
      BY <2>9, GotoType DEF SaveShares, Phase
    <3> QED
      BY <2>9, <3>1 DEF SaveShares, TypeOK, cache, ram, Busy
  <2>10. CASE Offer(r)
    <3>1. CASE Reply(r)
      BY <2>10, <3>1, ReplyType, <1>0 DEF Offer, TypeOK, cache
    <3>2. CASE Offers(r) /\ req' = [req EXCEPT ![r] =
                 [pc |-> "record", source |-> req[r].source, on |-> active, nonce |-> req[r].nonce]]
      <4>1. req[r] \in Busy
        BY <3>2 DEF Offers, TypeOK, Idle
      <4>2. [pc |-> "record", source |-> req[r].source, on |-> active, nonce |-> req[r].nonce] \in Busy
        BY <3>2, <4>1 DEF Offers, Busy, Phase, TypeOK
      <4>3. req' \in [Request -> {Idle} \cup Busy]
        BY <3>2, <4>2 DEF TypeOK
      <4> QED
        BY <2>10, <4>3, <1>0 DEF Offer, TypeOK, cache
    <3> QED
      BY <2>10, <3>1, <3>2 DEF Offer
  <2>11. CASE AddMinedBlock(r)
    <3>1. req' \in [Request -> {Idle} \cup Busy]
      BY <2>11, GotoType DEF AddMinedBlock, Phase
    <3>2. HeightOf(r) \in Height
      BY <2>11 DEF AddMinedBlock, TypeOK, Busy, Idle, HeightOf
    <3> QED
      BY <2>11, <3>1, <3>2 DEF AddMinedBlock, TypeOK, cache, files, Busy
  <2>12. CASE SaveStats(r)
    <3>1. req' \in [Request -> {Idle} \cup Busy]
      BY <2>12, GotoType, ReplyType DEF SaveStats, Phase
    <3>2. unsaved' \subseteq {"payouts", "mined"} /\ statsFile' \subseteq Height
      BY <2>12 DEF SaveStats, Failed, TypeOK
    <3> QED
      BY <2>12, <3>1, <3>2 DEF SaveStats, TypeOK, cache, ram, Busy
  <2>13. CASE StatsSaved(r)
    <3>1. req' \in [Request -> {Idle} \cup Busy]
      BY <2>13, ReplyType DEF StatsSaved
    <3>2. unsaved' \subseteq {"payouts", "mined"} /\ statsFile' \subseteq Height
      BY <2>13 DEF StatsSaved, Stats, Written, Failed, TypeOK
    <3> QED
      BY <2>13, <3>1, <3>2 DEF StatsSaved, TypeOK, cache, ram, Busy
  <2> QED
    BY <1>4, <2>1, <2>2, <2>3, <2>4, <2>5, <2>6, <2>7, <2>8, <2>9, <2>10, <2>11, <2>12, <2>13 DEF Handle
<1>5. CASE Restart
  <2>1. req' \in [Request -> {Idle} \cup Busy']
    BY <1>5 DEF Restart
  <2> QED
    BY <1>5, <2>1 DEF Restart, TypeOK, files
<1>6. CASE UNCHANGED vars
  BY <1>6 DEF vars, TypeOK, cache, ram, files, Busy
<1> QED
  BY <1>1, <1>2, <1>3, <1>4, <1>5, <1>6 DEF Next

\* For any number of requests, templates, nonces and credits the pool's variables,
\* the files included, keep their types.
THEOREM TypeCorrect == Spec => []TypeOK
BY InitType, NextType, PTL DEF Spec

---------------------------------------------------------------------------
\* Payouts.

PayoutInv == OneHolder /\ FileOfZeros /\ PayoutsKept

\* Taking the lock when it is free, or keeping it, leaves one holder.
LEMMA LockStep ==
    ASSUME OneHolder, NEW r \in Request,
           \A s \in Request \ {r} : req'[s] = req[s],
           req'[r].pc \in Holding => Unlocked \/ req[r].pc \in Holding
    PROVE  OneHolder'
BY DEF OneHolder, Unlocked

\* A step outside the snapshot.
LEMMA QuietPayouts ==
    ASSUME TypeOK, PayoutInv, OneHolder', UNCHANGED <<shares, payouts, payoutFile, sharesFile, credits>>,
           \A s \in Request : \/ req'[s].pc = req[s].pc
                              \/ /\ req[s].pc \notin {"payouts", "reset", "shares"}
                                 /\ req'[s].pc \notin {"payouts", "reset", "shares"}
    PROVE  PayoutInv'
<1>1. FileOfZeros'
  BY DEF PayoutInv, FileOfZeros
<1>2. PayoutsKept'
  BY DEF PayoutInv, PayoutsKept, Disjoint
<1> QED
  BY <1>1, <1>2 DEF PayoutInv

\* A request that moves from one quiet phase to another.
LEMMA QuietMove ==
    ASSUME TypeOK, PayoutInv, NEW r \in Request,
           \A s \in Request \ {r} : req'[s] = req[s],
           req[r].pc \notin {"payouts", "reset", "shares"},
           req'[r].pc \notin {"payouts", "reset", "shares"},
           req'[r].pc \in Holding => Unlocked,
           UNCHANGED <<shares, payouts, payoutFile, sharesFile, credits>>
    PROVE  PayoutInv'
<1>1. OneHolder'
  BY LockStep DEF PayoutInv
<1>2. \A s \in Request : \/ req'[s].pc = req[s].pc
                         \/ /\ req[s].pc \notin {"payouts", "reset", "shares"}
                            /\ req'[s].pc \notin {"payouts", "reset", "shares"}
  OBVIOUS
<1> QED
  BY <1>1, <1>2, QuietPayouts

LEMMA InitPayouts == Init => PayoutInv
BY DEF Init, PayoutInv, OneHolder, FileOfZeros, PayoutsKept, Disjoint, Idle, Holding

LEMMA NextPayouts == TypeOK /\ PayoutInv /\ [Next]_vars => PayoutInv'
<1> SUFFICES ASSUME TypeOK, PayoutInv, [Next]_vars PROVE PayoutInv'
  OBVIOUS
<1>1. ASSUME NEW h \in Height, NewTemplate(h) PROVE PayoutInv'
  BY <1>1, QuietPayouts DEF NewTemplate, ram, files, PayoutInv, OneHolder
<1>2. CASE DropTemplate
  BY <1>2, QuietPayouts DEF DropTemplate, ram, files, PayoutInv, OneHolder
<1>3. ASSUME NEW r \in Request, NEW n \in Nonce, NEW s \in {"http", "stream"}, Submit(r, n, s)
      PROVE  PayoutInv'
  <2>1. /\ \A o \in Request \ {r} : req'[o] = req[o]
        /\ req[r].pc = "idle" /\ req'[r].pc = "check"
    BY <1>3 DEF Submit, TypeOK
  <2> QED
    BY <1>3, <2>1, QuietMove DEF Submit, ram, files, Holding
<1>4. ASSUME NEW r \in Request, Handle(r) PROVE PayoutInv'
  <2>0. /\ \A phase \in Phase \ {"idle"} : req[r].pc # "idle" /\ Goto(r, phase) =>
              req'[r].pc = phase /\ \A s \in Request \ {r} : req'[s] = req[s]
        /\ Reply(r) => req'[r].pc = "idle" /\ \A s \in Request \ {r} : req'[s] = req[s]
    BY DEF Goto, At, Reply, Idle, TypeOK
  <2>1. CASE Check(r)
    BY <2>1, <2>0, QuietMove DEF Check, ram, files, Holding, Phase
  <2>2. CASE Verify(r)
    BY <2>2, <2>0, QuietMove DEF Verify, ram, files, Holding, Phase
  <2>3. CASE UnregisterNonce(r)
    BY <2>3, <2>0, QuietMove DEF UnregisterNonce, ram, files, Holding
  <2>4. CASE RegisterShare(r)
    <3> DEFINE new == Len(credits) + 1
    <3>1. /\ \A s \in Request \ {r} : req'[s] = req[s]
          /\ req[r].pc = "credit" /\ req'[r].pc \in {"idle", "snapshot"}
      BY <2>4, <2>0 DEF RegisterShare, Phase
    <3>2. OneHolder'
      BY <3>1, LockStep DEF PayoutInv, Holding
    <3>3. \A s \in Request : req[s].pc \notin Holding /\ req'[s].pc \notin Holding
      BY <2>4, <3>1 DEF RegisterShare, Unlocked, Holding
    <3>4. FileOfZeros'
      BY <2>4, <3>3 DEF RegisterShare, FileOfZeros, PayoutInv, files, Holding
    <3>5. DOMAIN credits \subseteq DOMAIN credits' /\ new \notin DOMAIN credits
      BY <2>4 DEF RegisterShare, TypeOK
    <3>6. Disjoint(shares, payouts) /\ \A p \in payouts : p.shares \subseteq DOMAIN credits
      BY <3>3 DEF PayoutInv, PayoutsKept, Holding
    <3>7. Disjoint(shares', payouts')
      BY <2>4, <3>5, <3>6 DEF RegisterShare, Disjoint
    <3>8. PayoutsKept'
      BY <2>4, <3>5, <3>6, <3>7 DEF RegisterShare, PayoutsKept, PayoutInv, files
    <3> QED
      BY <3>2, <3>4, <3>8 DEF PayoutInv
  <2>5. CASE SkipShare(r)
    BY <2>5, <2>0, QuietMove DEF SkipShare, ram, files, Holding
  <2>6. CASE SnapshotAndReset(r)
    <3> DEFINE owed == [height |-> HeightOf(r), shares |-> shares]
    <3>1. /\ \A s \in Request \ {r} : req'[s] = req[s] /\ req[s].pc \notin Holding
          /\ req[r].pc = "snapshot" /\ req'[r].pc \in {"payouts", "reset"}
      BY <2>6, <2>0 DEF SnapshotAndReset, Phase, Unlocked
    <3>2. OneHolder'
      BY <2>6, <3>1, LockStep DEF PayoutInv, SnapshotAndReset
    <3>3. FileOfZeros'
      BY <2>6, <3>1 DEF SnapshotAndReset, FileOfZeros, PayoutInv
    <3>4. Disjoint(shares, payouts)
      BY <3>1 DEF PayoutInv, PayoutsKept, Holding
    <3>5. payoutFile' \subseteq payouts'
      BY <2>6 DEF SnapshotAndReset, PayoutInv, PayoutsKept
    <3>6. owed.shares = shares /\ payouts' \subseteq payouts \cup {owed}
      BY <2>6 DEF SnapshotAndReset
    <3>7. \A p \in payouts' : p.shares \subseteq DOMAIN credits'
      <4>1. credits' = credits /\ shares \subseteq DOMAIN credits
        BY <2>6 DEF SnapshotAndReset, TypeOK
      <4> QED
        BY <3>6, <4>1 DEF PayoutInv, PayoutsKept
    <3>8. \A p, q \in payouts' : p # q => p.shares \cap q.shares = {}
      BY <3>4, <3>6 DEF PayoutInv, PayoutsKept, Disjoint
    <3>9. \E s \in Request : req'[s].pc \in {"payouts", "reset"}
      BY <3>1
    <3> QED
      BY <3>2, <3>3, <3>5, <3>7, <3>8, <3>9 DEF PayoutInv, PayoutsKept
  <2>7. CASE SavePendingPayouts(r)
    <3>1. /\ \A s \in Request \ {r} : req'[s] = req[s]
          /\ req[r].pc = "payouts" /\ req'[r].pc = "reset"
      BY <2>7, <2>0 DEF SavePendingPayouts, Phase
    <3>2. OneHolder'
      BY <3>1, LockStep DEF PayoutInv, Holding
    <3>3. FileOfZeros'
      BY <2>7, <3>1 DEF SavePendingPayouts, FileOfZeros, PayoutInv, ram
    <3>4. PayoutsKept'
      BY <2>7, <3>1 DEF SavePendingPayouts, PayoutsKept, PayoutInv, ram
    <3> QED
      BY <3>2, <3>3, <3>4 DEF PayoutInv
  <2>8. CASE ResetShares(r)
    <3>1. /\ \A s \in Request \ {r} : req'[s] = req[s]
          /\ req[r].pc = "reset" /\ req'[r].pc \in {"shares", "offer"}
      BY <2>8, <2>0 DEF ResetShares, Phase
    <3>2. OneHolder'
      BY <3>1, LockStep DEF PayoutInv, Holding
    <3>3. FileOfZeros'
      BY <2>8 DEF ResetShares, FileOfZeros, SharesLeft, PayoutInv
    <3>4. Disjoint(shares', payouts')
      BY <2>8 DEF ResetShares, PayoutsKept, PayoutInv, Disjoint, SharesLeft
    <3>5. PayoutsKept'
      BY <2>8, <3>4 DEF ResetShares, PayoutsKept, PayoutInv
    <3> QED
      BY <3>2, <3>3, <3>5 DEF PayoutInv
  <2>9. CASE SaveShares(r)
    <3>1. /\ \A s \in Request \ {r} : req'[s] = req[s]
          /\ req[r].pc = "shares" /\ req'[r].pc = "offer"
      BY <2>9, <2>0 DEF SaveShares, Phase
    <3>2. OneHolder'
      BY <3>1, LockStep DEF PayoutInv, Holding
    <3>3. FileOfZeros'
      BY <2>9, <3>1 DEF SaveShares, FileOfZeros, PayoutInv, ram
    <3>4. \A s \in Request : req[s].pc \in {"payouts", "reset"} => s = r
      BY <3>1 DEF PayoutInv, OneHolder, Holding
    <3>5. \A s \in Request : req[s].pc \notin {"payouts", "reset"}
      BY <3>1, <3>4
    <3>6. PayoutsKept'
      BY <2>9, <3>5 DEF SaveShares, PayoutsKept, PayoutInv, ram, Disjoint
    <3> QED
      BY <3>2, <3>3, <3>6 DEF PayoutInv
  <2>10. CASE Offer(r)
    <3>1. /\ \A s \in Request \ {r} : req'[s] = req[s]
          /\ req[r].pc = "offer" /\ req'[r].pc \in {"idle", "record"}
      BY <2>10, <2>0 DEF Offer, TypeOK
    <3> QED
      BY <2>10, <3>1, QuietMove DEF Offer, ram, files, Holding
  <2>11. CASE AddMinedBlock(r)
    BY <2>11, <2>0, QuietMove DEF AddMinedBlock, files, Holding, Phase
  <2>12. CASE SaveStats(r)
    BY <2>12, <2>0, QuietMove DEF SaveStats, ram, Phase
  <2>13. CASE StatsSaved(r)
    BY <2>13, <2>0, QuietMove DEF StatsSaved, ram, Holding
  <2> QED
    BY <1>4, <2>1, <2>2, <2>3, <2>4, <2>5, <2>6, <2>7, <2>8, <2>9, <2>10, <2>11, <2>12, <2>13 DEF Handle
<1>5. CASE Restart
  <2>1. OneHolder'
    BY <1>5 DEF Restart, OneHolder, Idle, Holding
  <2>2. FileOfZeros'
    BY <1>5 DEF Restart, FileOfZeros, PayoutInv, files, Idle
  <2>3. PayoutsKept'
    BY <1>5 DEF Restart, PayoutsKept, FileOfZeros, PayoutInv, files, Disjoint
  <2> QED
    BY <2>1, <2>2, <2>3 DEF PayoutInv
<1>6. CASE UNCHANGED vars
  BY <1>6, QuietPayouts DEF vars, ram, files, PayoutInv, OneHolder
<1> QED
  BY <1>1, <1>2, <1>3, <1>4, <1>5, <1>6 DEF Next

\* No share is owed twice, in memory or in the files a restart would load.
THEOREM SharesPaidOnce == Spec => []PaidOnce
<1>1. TypeOK /\ PayoutInv => PaidOnce
  BY DEF PayoutInv, PaidOnce, FileOfZeros, PayoutsKept, Disjoint, Unlocked, Holding
<1>2. Spec => []PayoutInv
  BY TypeCorrect, InitPayouts, NextPayouts, PTL DEF Spec
<1> QED
  BY <1>1, <1>2, TypeCorrect, PTL

---------------------------------------------------------------------------
\* The nonce cache.

FourInv == JudgedRegistered /\ SpentRemembered /\ OldFirst /\ SpentOnce

\* Phases of a request the cache invariant is about.
Active == {"check", "verify", "unregister", "credit"}

LEMMA ActiveBusy ==
    ASSUME TypeOK, NEW r \in Request, req[r].pc \in Active
    PROVE  /\ req[r] \in Busy
           /\ req[r].on \in DOMAIN issued /\ req[r].nonce \in Nonce
           /\ HeightOf(r) \in Height
<1>1. req[r] \in {Idle} \cup Busy /\ issued \in Seq(Height)
  BY DEF TypeOK
<1>2. req[r] # Idle
  BY DEF Idle, Active
<1>3. req[r] \in Busy
  BY <1>1, <1>2
<1>4. req[r].on \in DOMAIN issued /\ req[r].nonce \in Nonce
  BY <1>3 DEF Busy
<1>5. \A i \in DOMAIN issued : issued[i] \in Height
  BY <1>1, PoolAssumption
<1>6. HeightOf(r) \in Height
  BY <1>4, <1>5 DEF HeightOf
<1> QED
  BY <1>3, <1>4, <1>6

\* A step in which requests may only leave the phases in question.
LEMMA QuietCache ==
    ASSUME TypeOK, CacheInv, credits' = credits, mixed => mixed', usedNonces' = usedNonces,
           currentHeight' = currentHeight, issued' = issued,
           active' \in {active, NoTemplate},
           \A s \in Request : req'[s] = req[s] \/ req'[s].pc \notin Active
    PROVE  CacheInv'
<1>1. ActiveIsNewest' /\ CreditsIssued'
  BY DEF CacheInv, ActiveIsNewest, CreditsIssued
<1>2. ASSUME ~mixed' PROVE FourInv'
  <2>0. FourInv
    BY <1>2 DEF CacheInv, FourInv
  <2>1. \A p : Spent(p)' => Spent(p)
    BY DEF Spent, Active, Piece
  <2>2. \A t \in DOMAIN issued : Open(t)' => Open(t)
    <3> SUFFICES ASSUME NEW t \in DOMAIN issued, Open(t)' PROVE Open(t)
      OBVIOUS
    <3>1. t # NoTemplate
      BY PoolAssumption DEF TypeOK
    <3> QED
      BY <3>1 DEF Open, Active
  <2>3. JudgedRegistered'
    <3> SUFFICES ASSUME NEW r \in Request, req'[r].pc \in Judging
                 PROVE  /\ HeightOf(r)' = currentHeight'
                        /\ req'[r].nonce \in usedNonces'
                        /\ req'[r].pc = "verify" => ~(Spent(Piece(r))')
                        /\ \A s \in Request \ {r} : req'[s].pc \in Judging => req'[s].nonce # req'[r].nonce
      BY DEF JudgedRegistered, Judging
    <3>1. req'[r] = req[r]
      BY DEF Judging, Active
    <3>2. Piece(r)' = Piece(r) /\ HeightOf(r)' = HeightOf(r)
      BY <3>1 DEF Piece, HeightOf
    <3>3. \A s \in Request \ {r} : req'[s].pc \in Judging => req'[s] = req[s]
      BY DEF Judging, Active
    <3> QED
      BY <2>0, <2>1, <3>1, <3>2, <3>3 DEF FourInv, JudgedRegistered
  <2>4. SpentRemembered'
    <3>1. \A s \in Request : req'[s].pc \in Judging => req'[s] = req[s]
      BY DEF Judging, Active
    <3> QED
      BY <2>0, <2>1, <2>2, <3>1 DEF FourInv, SpentRemembered
  <2>5. OldFirst'
    <3>1. \A s \in Request : req'[s].pc \in Judging \cup {"check"} => req'[s] = req[s] /\ HeightOf(s)' = HeightOf(s)
      BY DEF Judging, Active, HeightOf
    <3> QED
      BY <2>0, <2>1, <3>1 DEF FourInv, OldFirst
  <2>6. SpentOnce'
    <3>1. \A s \in Request : req'[s].pc = "credit" => req[s].pc = "credit" /\ Piece(s)' = Piece(s)
      BY DEF Active, Piece
    <3> QED
      BY <2>0, <3>1 DEF FourInv, SpentOnce
  <2> QED
    BY <2>3, <2>4, <2>5, <2>6 DEF FourInv
<1> QED
  BY <1>1, <1>2 DEF CacheInv, FourInv

LEMMA InitCache == Init => CacheInv
<1> SUFFICES ASSUME Init PROVE CacheInv
  OBVIOUS
<1>1. DOMAIN credits = {} /\ DOMAIN issued = {}
  BY DEF Init
<1>2. \A r \in Request : req[r].pc = "idle"
  BY DEF Init, Idle
<1> QED
  BY <1>1, <1>2 DEF Init, CacheInv, ActiveIsNewest, CreditsIssued, JudgedRegistered, SpentRemembered,
     OldFirst, SpentOnce, Judging

LEMMA NewTemplateCache ==
    ASSUME TypeOK, CacheInv, NEW h \in Height, NewTemplate(h)
    PROVE  CacheInv'
<1> DEFINE new == Len(issued) + 1
<1>1. /\ Len(issued) \in Nat /\ DOMAIN issued = 1 .. Len(issued)
      /\ DOMAIN issued' = 1 .. new /\ Len(issued') = new
      /\ \A t \in DOMAIN issued : issued'[t] = issued[t]
  BY DEF NewTemplate, TypeOK
<1>2. active' = new /\ UNCHANGED <<usedNonces, currentHeight, req, credits, mixed>>
  BY DEF NewTemplate, cache
<1>3. ActiveIsNewest' /\ CreditsIssued'
  BY <1>1, <1>2 DEF CacheInv, ActiveIsNewest, CreditsIssued
<1>4. \A s \in Request : req[s].pc \in Active =>
         HeightOf(s)' = HeightOf(s) /\ req[s].on \in DOMAIN issued
  BY <1>1, <1>2, ActiveBusy DEF HeightOf
<1>5. \A p : Spent(p)' <=> Spent(p)
  BY <1>2 DEF Spent, Piece
<1>6. \A n \in Nonce : ~Spent(<<new, n>>)
  <2>1. \A i \in DOMAIN credits : \A n : credits[i] # <<new, n>>
    BY <1>1 DEF CacheInv, CreditsIssued
  <2>2. \A s \in Request, n \in Nonce : req[s].pc = "credit" => Piece(s) # <<new, n>>
    BY <1>1, <1>4 DEF Active, Piece
  <2> QED
    BY <2>1, <2>2 DEF Spent
<1>7. ASSUME ~mixed' PROVE FourInv'
  <2>0. FourInv
    BY <1>2, <1>7 DEF CacheInv, FourInv
  <2>1. JudgedRegistered'
    <3>1. \A s \in Request : Piece(s)' = Piece(s)
      BY <1>2 DEF Piece
    <3>2. \A s \in Request : req[s].pc \in Judging => HeightOf(s)' = HeightOf(s)
      BY <1>4 DEF Judging, Active
    <3> QED
      BY <2>0, <3>1, <3>2, <1>2, <1>5 DEF FourInv, JudgedRegistered
  <2>2. SpentRemembered'
    <3> SUFFICES ASSUME NEW t \in DOMAIN issued', NEW n \in Nonce, Open(t)', Spent(<<t, n>>)'
                 PROVE  /\ currentHeight' = issued'[t] /\ n \in usedNonces'
                        /\ \A r \in Request : req'[r].pc \in Judging => req'[r].nonce # n
      BY DEF SpentRemembered
    <3>1. Spent(<<t, n>>)
      BY <1>5
    <3>2. t # new
      BY <3>1, <1>6
    <3>3. t \in DOMAIN issued /\ Open(t)
      BY <3>2, <1>1, <1>2 DEF Open
    <3> QED
      BY <2>0, <3>1, <3>3, <1>1, <1>2 DEF FourInv, SpentRemembered
  <2>3. OldFirst'
    <3> SUFFICES ASSUME NEW r \in Request, req'[r].pc = "check", NEW t \in DOMAIN issued',
                        t > req'[r].on, issued'[t] # HeightOf(r)'
                 PROVE  /\ \A n \in Nonce : ~(Spent(<<t, n>>)')
                        /\ \A s \in Request : req'[s].pc \in Judging => req'[s].on # t
      BY DEF OldFirst
    <3>1. req[r].pc = "check" /\ HeightOf(r)' = HeightOf(r) /\ req'[r] = req[r]
      BY <1>2, <1>4 DEF Active
    <3>2. CASE t = new
      <4>1. \A s \in Request : req[s].pc \in Judging => req[s].on # t
        BY <3>2, <1>1, <1>4 DEF Judging, Active
      <4> QED
        BY <3>2, <4>1, <1>2, <1>5, <1>6
    <3>3. CASE t \in DOMAIN issued
      BY <3>1, <3>3, <2>0, <1>1, <1>2, <1>5 DEF FourInv, OldFirst
    <3> QED
      BY <3>2, <3>3, <1>1
  <2>4. SpentOnce'
    BY <2>0, <1>2 DEF FourInv, SpentOnce, Piece
  <2> QED
    BY <2>1, <2>2, <2>3, <2>4 DEF FourInv
<1> QED
  BY <1>3, <1>7 DEF CacheInv, FourInv

LEMMA SubmitCache ==
    ASSUME TypeOK, CacheInv, NEW r \in Request, NEW n \in Nonce, NEW source \in {"http", "stream"},
           Submit(r, n, source)
    PROVE  CacheInv'
<1>1. /\ \A s \in Request \ {r} : req'[s] = req[s]
      /\ req[r].pc = "idle" /\ req'[r].pc = "check" /\ req'[r].on = active
      /\ active = Len(issued) /\ active \in DOMAIN issued
      /\ UNCHANGED <<active, issued, usedNonces, currentHeight, credits, mixed>>
      /\ DOMAIN issued = 1 .. Len(issued) /\ Len(issued) \in Nat
  BY DEF Submit, TypeOK, cache, CacheInv, ActiveIsNewest
<1>2. ActiveIsNewest' /\ CreditsIssued'
  BY <1>1 DEF CacheInv, ActiveIsNewest, CreditsIssued
<1>3. \A s \in Request : req'[s].pc # "check" => req'[s] = req[s]
  BY <1>1
<1>4. \A p : Spent(p)' => Spent(p)
  BY <1>1, <1>3 DEF Spent, Piece
<1>5. \A t : Open(t)' => Open(t)
  BY <1>1 DEF Open
<1>6. ASSUME ~mixed' PROVE FourInv'
  <2>0. FourInv
    BY <1>1, <1>6 DEF CacheInv, FourInv
  <2>1. JudgedRegistered'
    <3>1. \A s \in Request : req'[s].pc \in Judging =>
             req'[s] = req[s] /\ Piece(s)' = Piece(s) /\ HeightOf(s)' = HeightOf(s)
      BY <1>1, <1>3 DEF Judging, Piece, HeightOf
    <3> QED
      BY <2>0, <3>1, <1>1, <1>4 DEF FourInv, JudgedRegistered
  <2>2. SpentRemembered'
    <3>1. \A s \in Request : req'[s].pc \in Judging => req'[s] = req[s]
      BY <1>3 DEF Judging
    <3> QED
      BY <2>0, <3>1, <1>1, <1>4, <1>5 DEF FourInv, SpentRemembered
  <2>3. OldFirst'
    <3> SUFFICES ASSUME NEW o \in Request, req'[o].pc = "check", NEW t \in DOMAIN issued,
                        t > req'[o].on, issued[t] # HeightOf(o)'
                 PROVE  /\ \A m \in Nonce : ~(Spent(<<t, m>>)')
                        /\ \A s \in Request : req'[s].pc \in Judging => req'[s].on # t
      BY <1>1 DEF OldFirst
    <3>1. o # r
      BY <1>1
    <3>2. req'[o] = req[o] /\ HeightOf(o)' = HeightOf(o)
      BY <3>1, <1>1 DEF HeightOf
    <3>3. \A s \in Request : req'[s].pc \in Judging => req'[s] = req[s]
      BY <1>3 DEF Judging
    <3> QED
      BY <2>0, <3>2, <3>3, <1>4 DEF FourInv, OldFirst
  <2>4. SpentOnce'
    <3>1. \A s \in Request : req'[s].pc = "credit" => req[s].pc = "credit" /\ Piece(s)' = Piece(s)
      BY <1>3 DEF Piece
    <3> QED
      BY <2>0, <3>1, <1>1 DEF FourInv, SpentOnce
  <2> QED
    BY <2>1, <2>2, <2>3, <2>4 DEF FourInv
<1> QED
  BY <1>2, <1>6 DEF CacheInv, FourInv

\* UnregisterNonce: nobody else relies on the nonce.
LEMMA UnregisterCache ==
    ASSUME TypeOK, CacheInv, NEW r \in Request, UnregisterNonce(r)
    PROVE  CacheInv'
<1>1. /\ \A s \in Request \ {r} : req'[s] = req[s]
      /\ req[r].pc = "unregister" /\ req'[r].pc = "idle"
      /\ usedNonces' = usedNonces \ {req[r].nonce}
      /\ UNCHANGED <<active, issued, currentHeight, credits, mixed>>
  BY DEF UnregisterNonce, Reply, TypeOK, Idle
<1>2. ActiveIsNewest' /\ CreditsIssued'
  BY <1>1 DEF CacheInv, ActiveIsNewest, CreditsIssued
<1>3. \A s \in Request : req'[s].pc \in Active => s # r /\ req'[s] = req[s]
  BY <1>1 DEF Active
<1>4. \A p : Spent(p)' => Spent(p)
  BY <1>1, <1>3 DEF Spent, Piece, Active
<1>5. \A t : Open(t)' => Open(t)
  BY <1>1, <1>3 DEF Open, Active
<1>6. ASSUME ~mixed' PROVE FourInv'
  <2>0. FourInv
    BY <1>1, <1>6 DEF CacheInv, FourInv
  <2>1. JudgedRegistered'
    <3>1. \A s \in Request : req'[s].pc \in Judging =>
             s # r /\ req'[s] = req[s] /\ Piece(s)' = Piece(s) /\ HeightOf(s)' = HeightOf(s)
      BY <1>1, <1>3 DEF Judging, Active, Piece, HeightOf
    <3>2. \A s \in Request : req'[s].pc \in Judging => req[s].nonce # req[r].nonce
      BY <2>0, <3>1, <1>1 DEF FourInv, JudgedRegistered, Judging
    <3> QED
      BY <2>0, <3>1, <3>2, <1>1, <1>4 DEF FourInv, JudgedRegistered
  <2>2. SpentRemembered'
    <3>1. \A s \in Request : req'[s].pc \in Judging => req'[s] = req[s]
      BY <1>3 DEF Judging, Active
    <3> QED
      BY <2>0, <3>1, <1>1, <1>4, <1>5 DEF FourInv, SpentRemembered, Judging
  <2>3. OldFirst'
    <3>1. \A s \in Request : req'[s].pc \in Judging \cup {"check"} => req'[s] = req[s] /\ HeightOf(s)' = HeightOf(s)
      BY <1>1, <1>3 DEF Judging, Active, HeightOf
    <3> QED
      BY <2>0, <3>1, <1>1, <1>4 DEF FourInv, OldFirst
  <2>4. SpentOnce'
    <3>1. \A s \in Request : req'[s].pc = "credit" => req[s].pc = "credit" /\ Piece(s)' = Piece(s)
      BY <1>3 DEF Active, Piece
    <3> QED
      BY <2>0, <3>1, <1>1 DEF FourInv, SpentOnce
  <2> QED
    BY <2>1, <2>2, <2>3, <2>4 DEF FourInv
<1> QED
  BY <1>2, <1>6 DEF CacheInv, FourInv

\* VerifyShare: the piece was not spent, and now its nonce stays in the cache.
LEMMA VerifyCache ==
    ASSUME TypeOK, CacheInv, NEW r \in Request, Verify(r)
    PROVE  CacheInv'
<1>1. /\ \A s \in Request \ {r} : req'[s] = req[s]
      /\ req[r].pc = "verify" /\ req'[r].pc \in {"credit", "unregister"}
      /\ req'[r].on = req[r].on /\ req'[r].nonce = req[r].nonce
      /\ UNCHANGED <<active, issued, usedNonces, currentHeight, credits, mixed>>
  BY DEF Verify, Goto, At, TypeOK, cache
<1>2. ActiveIsNewest' /\ CreditsIssued'
  BY <1>1 DEF CacheInv, ActiveIsNewest, CreditsIssued
<1>3. \A s \in Request : Piece(s)' = Piece(s) /\ HeightOf(s)' = HeightOf(s)
  BY <1>1 DEF Piece, HeightOf
<1>4. \A p : Spent(p)' => Spent(p) \/ p = Piece(r)
  BY <1>1, <1>3 DEF Spent
<1>5. \A t : Open(t)' => Open(t)
  BY <1>1 DEF Open
<1>6. \A s \in Request :
         /\ req'[s].on = req[s].on /\ req'[s].nonce = req[s].nonce
         /\ req'[s].pc \in Judging => req[s].pc \in Judging
         /\ req'[s].pc = "verify" => req[s].pc = "verify" /\ s # r
         /\ req'[s].pc = "check" => req[s].pc = "check"
  BY <1>1 DEF Judging
<1>7. /\ req[r].pc \in Judging
      /\ req'[r].pc \in Judging => \A p : Spent(p)' => Spent(p)
  BY <1>1, <1>3 DEF Judging, Spent
<1>8. ASSUME ~mixed' PROVE FourInv'
  <2>0. JudgedRegistered /\ SpentRemembered /\ OldFirst /\ SpentOnce
    BY <1>1, <1>8 DEF CacheInv
  <2>1. \A s \in Request \ {r} : req[s].pc \in Judging => req[s].nonce # req[r].nonce /\ Piece(s) # Piece(r)
    BY <2>0, <1>7 DEF JudgedRegistered, Piece
  <2>2. JudgedRegistered'
    <3> SUFFICES ASSUME NEW s \in Request, req'[s].pc \in Judging
                 PROVE  /\ HeightOf(s)' = currentHeight'
                        /\ req'[s].nonce \in usedNonces'
                        /\ req'[s].pc = "verify" => ~(Spent(Piece(s))')
                        /\ \A o \in Request \ {s} : req'[o].pc \in Judging => req'[o].nonce # req'[s].nonce
      BY DEF JudgedRegistered, Judging
    <3>1. req[s].pc \in Judging
      BY <1>6
    <3>2. req'[s].pc = "verify" => ~(Spent(Piece(s))')
      BY <1>3, <1>4, <1>6, <2>0, <2>1, <3>1 DEF JudgedRegistered
    <3> QED
      BY <3>1, <3>2, <1>1, <1>3, <1>6, <2>0 DEF JudgedRegistered
  <2>3. SpentRemembered'
    <3> SUFFICES ASSUME NEW t \in DOMAIN issued, NEW n \in Nonce, Open(t)', Spent(<<t, n>>)'
                 PROVE  /\ currentHeight' = issued'[t] /\ n \in usedNonces'
                        /\ \A s \in Request : req'[s].pc \in Judging => req'[s].nonce # n
      BY <1>1 DEF SpentRemembered
    <3>1. CASE Spent(<<t, n>>)
      BY <3>1, <1>1, <1>5, <1>6, <2>0 DEF SpentRemembered
    <3>2. CASE ~Spent(<<t, n>>)
      <4>1. t = req[r].on /\ n = req[r].nonce
        BY <3>2, <1>4 DEF Piece
      <4>2. req'[r].pc \notin Judging
        BY <3>2, <1>7
      <4> QED
        BY <4>1, <4>2, <1>1, <1>6, <1>7, <2>0, <2>1 DEF JudgedRegistered, HeightOf
    <3> QED
      BY <3>1, <3>2
  <2>4. OldFirst'
    <3> SUFFICES ASSUME NEW o \in Request, req'[o].pc = "check", NEW t \in DOMAIN issued,
                        t > req'[o].on, issued[t] # HeightOf(o)'
                 PROVE  /\ \A n \in Nonce : ~(Spent(<<t, n>>)')
                        /\ \A s \in Request : req'[s].pc \in Judging => req'[s].on # t
      BY <1>1 DEF OldFirst
    <3>1. /\ \A n \in Nonce : ~Spent(<<t, n>>)
          /\ \A s \in Request : req[s].pc \in Judging => req[s].on # t
      BY <1>3, <1>6, <2>0 DEF OldFirst
    <3>2. \A n \in Nonce : <<t, n>> # Piece(r)
      BY <3>1, <1>7 DEF Piece
    <3> QED
      BY <3>1, <3>2, <1>4, <1>6
  <2>5. SpentOnce'
    <3>1. ~Spent(Piece(r))
      BY <1>1, <1>7, <2>0 DEF JudgedRegistered
    <3>2. /\ \A i \in DOMAIN credits : credits[i] # Piece(r)
          /\ \A s \in Request : req[s].pc = "credit" => Piece(s) # Piece(r)
      BY <3>1 DEF Spent
    <3>3. \A s \in Request : req'[s].pc = "credit" => req[s].pc = "credit" \/ s = r
      BY <1>1
    <3> QED
      BY <3>2, <3>3, <1>1, <1>3, <2>0 DEF SpentOnce
  <2> QED
    BY <2>2, <2>3, <2>4, <2>5 DEF FourInv
<1> QED
  BY <1>2, <1>8 DEF CacheInv, FourInv

\* RegisterShare: the piece about to be paid is paid.
LEMMA RegisterShareCache ==
    ASSUME TypeOK, CacheInv, NEW r \in Request, RegisterShare(r)
    PROVE  CacheInv'
<1> DEFINE new == Len(credits) + 1
<1>1. /\ \A s \in Request \ {r} : req'[s] = req[s]
      /\ req[r].pc = "credit" /\ req'[r].pc \in {"idle", "snapshot"}
      /\ UNCHANGED <<active, issued, usedNonces, currentHeight, mixed>>
  BY DEF RegisterShare, Goto, Reply, At, Idle, TypeOK, cache
<1>2. /\ DOMAIN credits = 1 .. Len(credits) /\ Len(credits) \in Nat
      /\ DOMAIN credits' = DOMAIN credits \cup {new} /\ new \notin DOMAIN credits
      /\ \A i \in DOMAIN credits : credits'[i] = credits[i]
      /\ credits'[new] = Piece(r)
  <2>1. credits' = Append(credits, Piece(r)) /\ credits \in Seq(Template \X Nonce)
    BY DEF RegisterShare, TypeOK
  <2>2. Piece(r) \in Template \X Nonce
    <3>1. req[r].on \in 1 .. Len(issued) /\ req[r].nonce \in Nonce /\ Len(issued) \in Nat
      BY <1>1, ActiveBusy DEF Active, TypeOK
    <3>2. req[r].on \in Template
      BY <3>1, PoolAssumption DEF TypeOK
    <3> QED
      BY <3>1, <3>2 DEF Piece
  <2> QED
    BY <2>1, <2>2
<1>3. \A s \in Request : req'[s].pc \in Active => s # r /\ req'[s] = req[s] /\ req[s].pc \in Active
  BY <1>1 DEF Active
<1>4. \A s \in Request : req'[s].pc \in Active => Piece(s)' = Piece(s) /\ HeightOf(s)' = HeightOf(s)
  BY <1>1, <1>3 DEF Piece, HeightOf
<1>5. ActiveIsNewest' /\ CreditsIssued'
  <2>1. Piece(r)[1] \in DOMAIN issued
    BY <1>1, ActiveBusy DEF Active, Piece
  <2> QED
    BY <2>1, <1>1, <1>2 DEF CacheInv, ActiveIsNewest, CreditsIssued
<1>6. \A p : Spent(p)' => Spent(p)
  BY <1>1, <1>2, <1>3, <1>4 DEF Spent, Active
<1>7. \A t : Open(t)' => Open(t)
  BY <1>1, <1>3 DEF Open, Active
<1>8. \A s \in Request : req'[s].pc \in Judging \cup {"check"} => req'[s] = req[s] /\ HeightOf(s)' = HeightOf(s)
  BY <1>3, <1>4 DEF Judging, Active
<1>9. ASSUME ~mixed' PROVE FourInv'
  <2>0. JudgedRegistered /\ SpentRemembered /\ OldFirst /\ SpentOnce
    BY <1>1, <1>9 DEF CacheInv
  <2>1. JudgedRegistered'
    <3>1. \A s \in Request : req'[s].pc \in Judging => Piece(s)' = Piece(s)
      BY <1>4 DEF Judging, Active
    <3> QED
      BY <2>0, <3>1, <1>1, <1>6, <1>8 DEF JudgedRegistered
  <2>2. SpentRemembered'
    BY <2>0, <1>1, <1>6, <1>7, <1>8 DEF SpentRemembered
  <2>3. OldFirst'
    BY <2>0, <1>1, <1>6, <1>8 DEF OldFirst
  <2>4. SpentOnce'
    <3>1. \A s \in Request : req'[s].pc = "credit" => s # r /\ req[s].pc = "credit" /\ Piece(s)' = Piece(s)
      BY <1>3, <1>4 DEF Active
    <3>2. \A i \in DOMAIN credits : credits[i] # Piece(r)
      BY <2>0, <1>1 DEF SpentOnce
    <3>3. \A i, j \in DOMAIN credits' : credits'[i] = credits'[j] => i = j
      BY <2>0, <3>2, <1>2 DEF SpentOnce
    <3>4. \A s \in Request : req'[s].pc = "credit" =>
             /\ \A i \in DOMAIN credits' : credits'[i] # Piece(s)
             /\ \A o \in Request \ {s} : req'[o].pc = "credit" => Piece(o) # Piece(s)
      BY <2>0, <3>1, <1>1, <1>2 DEF SpentOnce
    <3> QED
      BY <3>1, <3>3, <3>4 DEF SpentOnce
  <2> QED
    BY <2>1, <2>2, <2>3, <2>4 DEF FourInv
<1> QED
  BY <1>5, <1>9 DEF CacheInv, FourInv

\* CheckAndRegisterNonce: where a change of height empties the cache, every
\* piece that was in it belongs to a template nobody can ask for any more.
LEMMA CheckCache ==
    ASSUME TypeOK, CacheInv, NEW r \in Request, Check(r)
    PROVE  CacheInv'
<1>0. /\ req[r].pc = "check" /\ req[r].on \in DOMAIN issued /\ req[r].nonce \in Nonce
      /\ HeightOf(r) = issued[req[r].on]
      /\ UNCHANGED <<active, issued, credits>> /\ currentHeight' = HeightOf(r)
      /\ mixed => mixed'
      /\ DOMAIN issued = 1 .. Len(issued) /\ Len(issued) \in Nat
  BY ActiveBusy DEF Check, Active, HeightOf, TypeOK
<1>1. CASE req[r].nonce \in Remembered(HeightOf(r))
  <2>1. currentHeight = HeightOf(r)
    BY <1>1 DEF Remembered
  <2>2. usedNonces' = usedNonces /\ \A s \in Request : req'[s] = req[s] \/ req'[s].pc \notin Active
    BY <1>1 DEF Check, Reply, Active, Idle, TypeOK
  <2> QED
    BY <2>1, <2>2, <1>0, QuietCache
<1>2. CASE req[r].nonce \notin Remembered(HeightOf(r))
  <2>1. /\ \A s \in Request \ {r} : req'[s] = req[s]
        /\ req'[r].pc = "verify" /\ req'[r].on = req[r].on /\ req'[r].nonce = req[r].nonce
        /\ usedNonces' = Remembered(HeightOf(r)) \cup {req[r].nonce}
    BY <1>2 DEF Check, Goto, At, TypeOK, Registered
  <2>2. ActiveIsNewest' /\ CreditsIssued'
    BY <1>0 DEF CacheInv, ActiveIsNewest, CreditsIssued
  <2>3. \A s \in Request : Piece(s)' = Piece(s) /\ HeightOf(s)' = HeightOf(s)
    BY <1>0, <2>1 DEF Piece, HeightOf
  <2>4. \A p : Spent(p)' => Spent(p)
    BY <1>0, <2>1, <2>3 DEF Spent
  <2>5. ASSUME ~mixed' PROVE FourInv'
    <3>0. JudgedRegistered /\ SpentRemembered /\ OldFirst /\ SpentOnce
      BY <1>0, <2>5 DEF CacheInv
    <3>1. \A s \in Request \ {r} : req[s].pc \in Judging \cup {"check"} => HeightOf(s) = HeightOf(r)
      BY <2>5 DEF Check, OtherHeightUnderWay, Judging
    <3>2. \A s \in Request : req'[s].pc \in Judging => s = r \/ req[s].pc \in Judging
      BY <2>1
    <3>3. \A s \in Request \ {r} : req[s].pc \in Judging =>
             /\ currentHeight = HeightOf(r)
             /\ req[s].nonce \in Remembered(HeightOf(r))
      BY <3>0, <3>1 DEF JudgedRegistered, Remembered
    <3>4. \A s \in Request \ {r} : req[s].pc \in Judging =>
             req[s].nonce \in usedNonces' /\ req[s].nonce # req[r].nonce
      BY <3>3, <2>1, <1>2
    <3>5. ~Spent(Piece(r))
      <4>1. Open(req[r].on)
        BY <1>0 DEF Open
      <4>2. Spent(Piece(r)) => req[r].nonce \in Remembered(HeightOf(r))
        BY <4>1, <1>0, <3>0 DEF SpentRemembered, Remembered, Piece
      <4> QED
        BY <4>2, <1>2
    <3>6. JudgedRegistered'
      <4> SUFFICES ASSUME NEW s \in Request, req'[s].pc \in Judging
                   PROVE  /\ HeightOf(s)' = currentHeight'
                          /\ req'[s].nonce \in usedNonces'
                          /\ req'[s].pc = "verify" => ~(Spent(Piece(s))')
                          /\ \A o \in Request \ {s} : req'[o].pc \in Judging => req'[o].nonce # req'[s].nonce
        BY DEF JudgedRegistered, Judging
      <4>1. CASE s = r
        BY <4>1, <1>0, <2>1, <2>3, <2>4, <3>2, <3>4, <3>5
      <4>2. CASE s # r
        <5>1. req[s].pc \in Judging /\ req'[s] = req[s]
          BY <4>2, <3>2, <2>1
        <5>2. \A o \in Request \ {s} : req'[o].pc \in Judging => req'[o].nonce # req'[s].nonce
          BY <4>2, <5>1, <2>1, <3>0, <3>2, <3>4 DEF JudgedRegistered
        <5>3. req'[s].pc = "verify" => ~(Spent(Piece(s))')
          BY <5>1, <2>3, <2>4, <3>0 DEF JudgedRegistered
        <5> QED
          BY <4>2, <5>1, <5>2, <5>3, <1>0, <2>3, <3>1, <3>4
      <4> QED
        BY <4>1, <4>2
    <3>7. SpentRemembered'
      <4> SUFFICES ASSUME NEW t \in DOMAIN issued, NEW n \in Nonce, Open(t)', Spent(<<t, n>>)'
                   PROVE  /\ currentHeight' = issued'[t] /\ n \in usedNonces'
                          /\ \A s \in Request : req'[s].pc \in Judging => req'[s].nonce # n
        BY <1>0 DEF SpentRemembered
      <4>1. Open(t) /\ Spent(<<t, n>>)
        BY <1>0, <2>1, <2>4 DEF Open
      <4>2. /\ currentHeight = issued[t] /\ n \in usedNonces
            /\ \A s \in Request : req[s].pc \in Judging => req[s].nonce # n
        BY <4>1, <3>0 DEF SpentRemembered
      <4>3. issued[t] = HeightOf(r)
        <5>1. CASE \E o \in Request : req'[o].pc = "check" /\ req'[o].on = t
          BY <5>1, <2>1, <3>1 DEF HeightOf
        <5>2. CASE active = t /\ issued[t] # HeightOf(r)
          <6>1. t = Len(issued) /\ t # req[r].on
            BY <5>2, <1>0, PoolAssumption DEF CacheInv, ActiveIsNewest, TypeOK
          <6>2. t > req[r].on
            BY <6>1, <1>0
          <6> QED
            BY <6>2, <5>2, <4>1, <1>0, <3>0 DEF OldFirst
        <5> QED
          BY <5>1, <5>2, <1>0 DEF Open
      <4>4. n \in Remembered(HeightOf(r))
        BY <4>2, <4>3 DEF Remembered
      <4>5. n # req[r].nonce
        BY <4>4, <1>2
      <4> QED
        BY <4>2, <4>3, <4>4, <4>5, <1>0, <2>1, <3>2
    <3>8. OldFirst'
      <4> SUFFICES ASSUME NEW o \in Request, req'[o].pc = "check", NEW t \in DOMAIN issued,
                          t > req'[o].on, issued[t] # HeightOf(o)'
                   PROVE  /\ \A n \in Nonce : ~(Spent(<<t, n>>)')
                          /\ \A s \in Request : req'[s].pc \in Judging => req'[s].on # t
        BY <1>0 DEF OldFirst
      <4>1. o # r /\ req'[o] = req[o] /\ HeightOf(o)' = HeightOf(o) /\ HeightOf(o) = HeightOf(r)
        BY <2>1, <2>3, <3>1
      <4>2. /\ \A n \in Nonce : ~Spent(<<t, n>>)
            /\ \A s \in Request : req[s].pc \in Judging => req[s].on # t
        BY <4>1, <3>0 DEF OldFirst
      <4>3. req[r].on # t
        BY <4>1, <1>0
      <4> QED
        BY <4>2, <4>3, <2>1, <2>4, <3>2
    <3>9. SpentOnce'
      <4>1. \A s \in Request : req'[s].pc = "credit" => req[s].pc = "credit" /\ s # r
        BY <2>1
      <4> QED
        BY <4>1, <3>0, <1>0, <2>3 DEF SpentOnce
    <3> QED
      BY <3>6, <3>7, <3>8, <3>9 DEF FourInv
  <2> QED
    BY <2>2, <2>5 DEF CacheInv, FourInv
<1> QED
  BY <1>1, <1>2

LEMMA RestartCache ==
    ASSUME TypeOK, CacheInv, Restart
    PROVE  CacheInv'
<1>1. /\ \A s \in Request : req'[s].pc = "idle"
      /\ active' = NoTemplate /\ UNCHANGED <<issued, credits, mixed>>
  BY DEF Restart, Idle
<1>2. ActiveIsNewest' /\ CreditsIssued'
  BY <1>1 DEF CacheInv, ActiveIsNewest, CreditsIssued
<1>3. JudgedRegistered' /\ OldFirst'
  BY <1>1 DEF JudgedRegistered, OldFirst, Judging
<1>4. SpentRemembered'
  <2>1. \A t \in DOMAIN issued : ~(Open(t)')
    BY <1>1, PoolAssumption DEF Open, TypeOK
  <2> QED
    BY <2>1, <1>1 DEF SpentRemembered
<1>5. ~mixed' => SpentOnce'
  BY <1>1 DEF CacheInv, SpentOnce
<1> QED
  BY <1>2, <1>3, <1>4, <1>5 DEF CacheInv

LEMMA NextCache == TypeOK /\ CacheInv /\ [Next]_vars => CacheInv'
<1> SUFFICES ASSUME TypeOK, CacheInv, [Next]_vars PROVE CacheInv'
  OBVIOUS
<1>1. ASSUME NEW h \in Height, NewTemplate(h) PROVE CacheInv'
  BY <1>1, NewTemplateCache
<1>2. CASE DropTemplate
  BY <1>2, QuietCache DEF DropTemplate, cache
<1>3. ASSUME NEW r \in Request, NEW n \in Nonce, NEW s \in {"http", "stream"}, Submit(r, n, s)
      PROVE  CacheInv'
  BY <1>3, SubmitCache
<1>4. ASSUME NEW r \in Request, Handle(r) PROVE CacheInv'
  <2>0. ASSUME NEW phase \in Phase \ Active, Goto(r, phase) \/ Reply(r)
        PROVE  \A s \in Request : req'[s] = req[s] \/ req'[s].pc \notin Active
    BY <2>0 DEF Goto, At, Reply, Idle, TypeOK, Active
  <2>1. CASE Check(r)
    BY <2>1, CheckCache
  <2>2. CASE Verify(r)
    BY <2>2, VerifyCache
  <2>3. CASE UnregisterNonce(r)
    BY <2>3, UnregisterCache
  <2>4. CASE RegisterShare(r)
    BY <2>4, RegisterShareCache
  <2>5. CASE SkipShare(r)
    BY <2>5, <2>0, QuietCache DEF SkipShare, cache, Phase, Active
  <2>6. CASE SnapshotAndReset(r)
    BY <2>6, <2>0, QuietCache DEF SnapshotAndReset, cache, Phase, Active
  <2>7. CASE SavePendingPayouts(r)
    BY <2>7, <2>0, QuietCache DEF SavePendingPayouts, cache, Phase, Active
  <2>8. CASE ResetShares(r)
    BY <2>8, <2>0, QuietCache DEF ResetShares, cache, Phase, Active
  <2>9. CASE SaveShares(r)
    BY <2>9, <2>0, QuietCache DEF SaveShares, cache, Phase, Active
  <2>10. CASE Offer(r)
    <3>1. \A s \in Request : req'[s] = req[s] \/ req'[s].pc \notin Active
      BY <2>10 DEF Offer, Reply, Idle, TypeOK, Active
    <3> QED
      BY <2>10, <3>1, QuietCache DEF Offer, cache
  <2>11. CASE AddMinedBlock(r)
    BY <2>11, <2>0, QuietCache DEF AddMinedBlock, cache, Phase, Active
  <2>12. CASE SaveStats(r)
    BY <2>12, <2>0, QuietCache DEF SaveStats, cache, Phase, Active
  <2>13. CASE StatsSaved(r)
    BY <2>13, <2>0, QuietCache DEF StatsSaved, cache, Phase, Active
  <2> QED
    BY <1>4, <2>1, <2>2, <2>3, <2>4, <2>5, <2>6, <2>7, <2>8, <2>9, <2>10, <2>11, <2>12, <2>13 DEF Handle
<1>5. CASE Restart
  BY <1>5, RestartCache
<1>6. CASE UNCHANGED vars
  BY <1>6, QuietCache DEF vars, cache
<1> QED
  BY <1>1, <1>2, <1>3, <1>4, <1>5, <1>6 DEF Next

\* A piece of work is paid once, unless a request registers its nonce while
\* another height is still being judged.
THEOREM SharesCreditedOnce == Spec => []CreditedOnce
<1>1. CacheInv => CreditedOnce
  BY DEF CacheInv, CreditedOnce, SpentOnce
<1>2. Spec => []CacheInv
  BY TypeCorrect, InitCache, NextCache, PTL DEF Spec
<1> QED
  BY <1>1, <1>2, PTL


---------------------------------------------------------------------------
\* The files.

\* A step that touches neither a payout, nor a mined height, nor their files,
\* and takes no request through a write of them.
LEMMA QuietFiles ==
    ASSUME RecordsOnDisk, UNCHANGED <<payouts, mined, payoutFile, statsFile, unsaved>>,
           \A s \in Request : \/ req'[s].pc = req[s].pc
                              \/ req[s].pc \notin {"payouts", "save", "saving"}
    PROVE  RecordsOnDisk'
BY DEF RecordsOnDisk

LEMMA NextFiles == TypeOK /\ RecordsOnDisk /\ [Next]_vars => RecordsOnDisk'
<1> SUFFICES ASSUME TypeOK, RecordsOnDisk, [Next]_vars PROVE RecordsOnDisk'
  OBVIOUS
<1>1. ASSUME NEW h \in Height, NewTemplate(h) PROVE RecordsOnDisk'
  BY <1>1, QuietFiles DEF NewTemplate, ram, files
<1>2. CASE DropTemplate
  BY <1>2, QuietFiles DEF DropTemplate, ram, files
<1>3. ASSUME NEW r \in Request, NEW n \in Nonce, NEW s \in {"http", "stream"}, Submit(r, n, s)
      PROVE  RecordsOnDisk'
  <2>1. req[r].pc = "idle" /\ \A o \in Request \ {r} : req'[o] = req[o]
    BY <1>3 DEF Submit, TypeOK
  <2> QED
    BY <1>3, <2>1, QuietFiles DEF Submit, ram, files
<1>4. ASSUME NEW r \in Request, Handle(r) PROVE RecordsOnDisk'
  <2>0. /\ \A phase : Goto(r, phase) =>
              req'[r].pc = phase /\ \A s \in Request \ {r} : req'[s] = req[s]
        /\ Reply(r) => req'[r].pc = "idle" /\ \A s \in Request \ {r} : req'[s] = req[s]
    BY DEF Goto, At, Reply, Idle, TypeOK
  <2>1. CASE Check(r)
    BY <2>1, <2>0, QuietFiles DEF Check, ram, files
  <2>2. CASE Verify(r)
    BY <2>2, <2>0, QuietFiles DEF Verify, ram, files
  <2>3. CASE UnregisterNonce(r)
    BY <2>3, <2>0, QuietFiles DEF UnregisterNonce, ram, files
  <2>4. CASE RegisterShare(r)
    BY <2>4, <2>0, QuietFiles DEF RegisterShare, files
  <2>5. CASE SkipShare(r)
    BY <2>5, <2>0, QuietFiles DEF SkipShare, ram, files
  <2>6. CASE SnapshotAndReset(r)
    \* A payout may be in memory only, but its request is about to write it.
    <3>1. CASE shares = {}
      BY <2>6, <2>0, <3>1, QuietFiles DEF SnapshotAndReset
    \* Or its file did not open, which `unsaved` records.
    <3>2. CASE shares # {} /\ Goto(r, "payouts")
      BY <2>6, <2>0, <3>2 DEF SnapshotAndReset, Failed, RecordsOnDisk
    <3>3. CASE shares # {} /\ Failed("payouts") /\ Goto(r, "reset")
      BY <2>6, <2>0, <3>3 DEF SnapshotAndReset, Failed, RecordsOnDisk
    <3> QED
      BY <2>6, <3>1, <3>2, <3>3 DEF SnapshotAndReset
  <2>7. CASE SavePendingPayouts(r)
    <3>1. "payouts" \in unsaved' \/ payouts' = payoutFile'
      BY <2>7 DEF SavePendingPayouts, Failed, ram
    <3>2. \/ "mined" \in unsaved' \/ mined' = statsFile'
          \/ \E s \in Request : req'[s].pc \in {"save", "saving"}
      BY <2>7, <2>0 DEF SavePendingPayouts, Written, Failed, RecordsOnDisk, ram
    <3> QED
      BY <3>1, <3>2 DEF RecordsOnDisk
  <2>8. CASE ResetShares(r)
    BY <2>8, <2>0, QuietFiles DEF ResetShares
  <2>9. CASE SaveShares(r)
    BY <2>9, <2>0, QuietFiles DEF SaveShares, ram
  <2>10. CASE Offer(r)
    <3>1. req[r].pc = "offer" /\ \A s \in Request \ {r} : req'[s] = req[s]
      BY <2>10, <2>0 DEF Offer, TypeOK
    <3> QED
      BY <2>10, <3>1, QuietFiles DEF Offer, ram, files
  <2>11. CASE AddMinedBlock(r)
    BY <2>11, <2>0 DEF AddMinedBlock, RecordsOnDisk, files
  <2>12. CASE SaveStats(r)
    <3>1. \/ "payouts" \in unsaved' \/ payouts' = payoutFile'
          \/ \E s \in Request : req'[s].pc = "payouts"
      BY <2>12, <2>0 DEF SaveStats, Failed, RecordsOnDisk, ram
    <3>2. "mined" \in unsaved' \/ \E s \in Request : req'[s].pc = "saving"
      BY <2>12, <2>0 DEF SaveStats, Failed
    <3> QED
      BY <3>1, <3>2 DEF RecordsOnDisk
  <2>13. CASE StatsSaved(r)
    \* What is written is the list of memory, another request's heights with it.
    <3>1. \/ "payouts" \in unsaved' \/ payouts' = payoutFile'
          \/ \E s \in Request : req'[s].pc = "payouts"
      BY <2>13, <2>0 DEF StatsSaved, Written, Failed, RecordsOnDisk, ram
    <3>2. "mined" \in unsaved' \/ mined' = statsFile'
      BY <2>13 DEF StatsSaved, Stats, Failed, ram
    <3> QED
      BY <3>1, <3>2 DEF RecordsOnDisk
  <2> QED
    BY <1>4, <2>1, <2>2, <2>3, <2>4, <2>5, <2>6, <2>7, <2>8, <2>9, <2>10, <2>11, <2>12, <2>13 DEF Handle
<1>5. CASE Restart
  BY <1>5 DEF Restart, files, RecordsOnDisk
<1>6. CASE UNCHANGED vars
  BY <1>6, QuietFiles DEF vars, ram, files
<1> QED
  BY <1>1, <1>2, <1>3, <1>4, <1>5, <1>6 DEF Next

\* When no request is writing and no last write failed, a restart loads exactly
\* the payouts and the mined heights that memory holds.  It says nothing of the
\* credits that are in no payout yet: those a restart loses.
THEOREM RestartFindsRecords == Spec => []RecordsOnDisk
<1>1. Init => RecordsOnDisk
  BY DEF Init, RecordsOnDisk
<1> QED
  BY <1>1, TypeCorrect, NextFiles, PTL DEF Spec
=============================================================================
