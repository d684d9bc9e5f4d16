----------------------------- MODULE MiningPool -----------------------------
(***************************************************************************)
(* The mining pool (9_mining_pool/pool.go) under its two sources of        *)
(* shares: handlePoolSubmitWork and the miners' gRPC streams               *)
(* (6_user_interface/rpc_server.go).  Every request is a goroutine that    *)
(* reads the active template, registers the nonce, verifies the hash,      *)
(* credits the share and, for a network block, takes the snapshot of the   *)
(* shares, offers the block to the core and records its height.  The pool  *)
(* keeps three JSON files; each is truncated and then written, either may  *)
(* fail unnoticed, and the node may crash between.                         *)
(*                                                                         *)
(* A hash is a constant of the instance: which nonces are shares, and      *)
(* which are blocks, of which template.  A credit is the number of the     *)
(* share that earned it, so that one credit in two places shows; workers,  *)
(* their difficulties and hash rates are left out, and so is the mining    *)
(* loop that takes the results of the streams from miningResultChan.       *)
(***************************************************************************)
EXTENDS Integers, Sequences, FiniteSets

CONSTANTS
    Request,      \* goroutines that may handle a submission
    Nonce,
    MaxTemplates, \* bound on the templates of the instance
    MaxHeight,    \* bound on the heights of the instance
    MaxCredits,   \* bound on the shares credited when a request starts
    MaxUnsaved,   \* bound on the records on disk that are behind at once
    PoolShare,    \* <<template, nonce>> whose hash meets the worker's target
    NetworkBlock, \* <<template, nonce>> whose hash meets the network's target
    NoTemplate

ASSUME PoolAssumption ==
    /\ MaxTemplates \in Nat /\ MaxHeight \in Nat /\ MaxCredits \in Nat /\ MaxUnsaved \in Nat
    /\ PoolShare \subseteq (1 .. MaxTemplates) \X Nonce
    /\ NetworkBlock \subseteq (1 .. MaxTemplates) \X Nonce
    /\ NoTemplate \notin 1 .. MaxTemplates

VARIABLES
    active,      \* cliApp.activeBlock
    issued,      \* height of every template built so far
    usedNonces,
    currentHeight,
    shares,      \* credits held in the Workers map
    payouts,     \* PendingPayouts
    mined,       \* MinedBlocks
    payoutFile,  \* pool_pending_payouts.json, as a restart would load it
    sharesFile,  \* pool_shares.json, as a restart would load it
    statsFile,   \* pool_stats.json, as a restart would load it
    req,         \* the requests under way
    unsaved,     \* history variable: records whose last write to disk failed
    credits,     \* history variable: the piece of work behind each credit
    mixed        \* history variable: a request found the cache at another
                 \* height while one of that height was still under way

ram == <<shares, payouts, mined>>
cache == <<usedNonces, currentHeight>>
files == <<payoutFile, sharesFile, statsFile, unsaved>>
vars == <<active, issued, cache, ram, files, req, credits, mixed>>

Template == 1 .. MaxTemplates
Height == 1 .. MaxHeight
Payout == [height : Height, shares : SUBSET Nat]

Phase == {"idle", "check", "verify", "credit", "unregister", "snapshot", "payouts",
          "reset", "shares", "offer", "record", "save", "saving"}

\* Phases that hold pool.Mu: a crash may fall between them, another request not.
Holding == {"payouts", "reset", "shares", "saving"}

Idle == [pc |-> "idle", source |-> "http", on |-> NoTemplate, nonce |-> 0]

Init ==
    /\ active = NoTemplate /\ issued = <<>>
    /\ usedNonces = {} /\ currentHeight = 0
    /\ shares = {} /\ payouts = {} /\ mined = {}
    /\ payoutFile = {} /\ sharesFile = {} /\ statsFile = {} /\ unsaved = {}
    /\ req = [r \in Request |-> Idle]
    /\ credits = <<>> /\ mixed = FALSE

Unlocked == \A r \in Request : req[r].pc \notin Holding
At(r, phase) == [pc |-> phase, source |-> req[r].source, on |-> req[r].on, nonce |-> req[r].nonce]
Goto(r, phase) == req' = [req EXCEPT ![r] = At(r, phase)]
Reply(r) == req' = [req EXCEPT ![r] = Idle]
Piece(r) == <<req[r].on, req[r].nonce>>
HeightOf(r) == issued[req[r].on]

---------------------------------------------------------------------------
\* The template: built by the mining loop or by RefreshMiningTask on whatever
\* height the core has, dropped when the node loses the internet.

NewTemplate(h) ==
    /\ Len(issued) < MaxTemplates
    /\ issued' = Append(issued, h)
    /\ active' = Len(issued) + 1
    /\ UNCHANGED <<cache, ram, files, req, credits, mixed>>

DropTemplate ==
    /\ active # NoTemplate
    /\ active' = NoTemplate
    /\ UNCHANGED <<issued, cache, ram, files, req, credits, mixed>>

---------------------------------------------------------------------------
\* One submission, from an HTTP request or from a stream.  It sticks to the
\* template it read.

Submit(r, n, source) ==
    /\ req[r].pc = "idle"
    /\ active # NoTemplate
    /\ Len(credits) < MaxCredits
    /\ req' = [req EXCEPT ![r] = [pc |-> "check", source |-> source, on |-> active, nonce |-> n]]
    /\ UNCHANGED <<active, issued, cache, ram, files, credits, mixed>>

\* CheckAndRegisterNonce: another height than the last one empties the cache.
Remembered(h) == IF currentHeight = h THEN usedNonces ELSE {}

Registered_NotAtReset(h, n) == IF currentHeight = h THEN usedNonces \cup {n} ELSE {}
Registered(h, n) == Remembered(h) \cup {n}

OtherHeightUnderWay(r) ==
    \E o \in Request \ {r} : req[o].pc \in {"check", "verify", "unregister"} /\ HeightOf(o) # HeightOf(r)

Check(r) ==
    /\ req[r].pc = "check"
    /\ Unlocked
    /\ currentHeight' = HeightOf(r)
    /\ mixed' = (mixed \/ OtherHeightUnderWay(r))
    /\ IF req[r].nonce \in Remembered(HeightOf(r))
       THEN Reply(r) /\ usedNonces' = usedNonces
       ELSE Goto(r, "verify") /\ usedNonces' = Registered(HeightOf(r), req[r].nonce)
    /\ UNCHANGED <<active, issued, ram, files, credits>>

\* VerifyShare.
Verify(r) ==
    /\ req[r].pc = "verify"
    /\ Goto(r, IF Piece(r) \in PoolShare THEN "credit" ELSE "unregister")
    /\ UNCHANGED <<active, issued, cache, ram, files, credits, mixed>>

\* The nonce is free again; an HTTP request ends here even when the hash is a
\* network block, a stream passes such a block on to the mining loop.
UnregisterNonce(r) ==
    /\ req[r].pc = "unregister"
    /\ Unlocked
    /\ usedNonces' = usedNonces \ {req[r].nonce}
    /\ Reply(r)
    /\ UNCHANGED <<active, issued, currentHeight, ram, files, credits, mixed>>

\* RegisterShare, and whether the request goes on with a network block.
RegisterShare(r) ==
    /\ req[r].pc = "credit"
    /\ Unlocked
    /\ credits' = Append(credits, Piece(r))
    /\ shares' = shares \cup {Len(credits) + 1}
    /\ IF req[r].source = "http" /\ Piece(r) \in NetworkBlock
       THEN Goto(r, "snapshot") ELSE Reply(r)
    /\ UNCHANGED <<active, issued, cache, payouts, mined, files, mixed>>

\* A stream whose miner gave no address: the nonce stays used, nobody is paid.
SkipShare(r) ==
    /\ req[r].pc = "credit"
    /\ req[r].source = "stream"
    /\ Reply(r)
    /\ UNCHANGED <<active, issued, cache, ram, files, credits, mixed>>

---------------------------------------------------------------------------
\* SnapshotAndReset, under pool.Mu from the first step to the last.  A file is
\* truncated before it is written, and one that does not parse loads as empty.
\* It may not open, or not be written: the code logs or ignores the error and
\* goes on.
Written(record) == unsaved' = unsaved \ {record}
Failed(record) ==
    /\ unsaved' = unsaved \cup {record}
    /\ Cardinality(unsaved') <= MaxUnsaved

SnapshotAndReset(r) ==
    /\ req[r].pc = "snapshot"
    /\ Unlocked
    /\ IF shares = {}
       THEN Goto(r, "reset") /\ UNCHANGED <<payouts, payoutFile, unsaved>>
       ELSE /\ payouts' = payouts \cup {[height |-> HeightOf(r), shares |-> shares]}
            /\ \/ payoutFile' = {} /\ unsaved' = unsaved /\ Goto(r, "payouts")
               \/ payoutFile' = payoutFile /\ Failed("payouts") /\ Goto(r, "reset")
    /\ UNCHANGED <<active, issued, cache, shares, mined, sharesFile, statsFile, credits, mixed>>

SavePendingPayouts(r) ==
    /\ req[r].pc = "payouts"
    /\ \/ payoutFile' = payouts /\ Written("payouts")
       \/ payoutFile' = payoutFile /\ Failed("payouts")
    /\ Goto(r, "reset")
    /\ UNCHANGED <<active, issued, cache, ram, sharesFile, statsFile, credits, mixed>>

\* The Workers map is reset in RAM, then written to a truncated file.
SharesLeft_AllOfThem == shares
SharesLeft == {}

ResetShares(r) ==
    /\ req[r].pc = "reset"
    /\ shares' = SharesLeft
    /\ \/ sharesFile' = {} /\ Goto(r, "shares")
       \/ sharesFile' = sharesFile /\ Goto(r, "offer")
    /\ UNCHANGED <<active, issued, cache, payouts, mined, payoutFile, statsFile, unsaved, credits, mixed>>

SaveShares(r) ==
    /\ req[r].pc = "shares"
    /\ sharesFile' \in {shares, sharesFile}
    /\ Goto(r, "offer")
    /\ UNCHANGED <<active, issued, cache, ram, payoutFile, statsFile, unsaved, credits, mixed>>

---------------------------------------------------------------------------
\* The block.  The one offered is the active template of this moment; the
\* request keeps only that template from here on.  The core accepts it (1),
\* ignores it as lighter (0), which the pool takes for success, or refuses it.

Offers(r) == req[r].pc = "offer" /\ active # NoTemplate

Offer(r) ==
    /\ req[r].pc = "offer"
    /\ \/ Reply(r)
       \/ /\ Offers(r)
          /\ req' = [req EXCEPT ![r] = [pc |-> "record", source |-> req[r].source, on |-> active, nonce |-> req[r].nonce]]
    /\ UNCHANGED <<active, issued, cache, ram, files, credits, mixed>>

AddMinedBlock(r) ==
    /\ req[r].pc = "record"
    /\ Unlocked
    /\ mined' = mined \cup {HeightOf(r)}
    /\ Goto(r, "save")
    /\ UNCHANGED <<active, issued, cache, shares, payouts, files, credits, mixed>>

\* SaveStats takes the lock again.
SaveStats(r) ==
    /\ req[r].pc = "save"
    /\ Unlocked
    /\ \/ statsFile' = {} /\ unsaved' = unsaved /\ Goto(r, "saving")
       \/ statsFile' = statsFile /\ Failed("mined") /\ Reply(r)
    /\ UNCHANGED <<active, issued, cache, ram, payoutFile, sharesFile, credits, mixed>>

Stats_OwnBlockOnly(r) == {HeightOf(r)}
Stats(r) == mined

StatsSaved(r) ==
    /\ req[r].pc = "saving"
    /\ \/ statsFile' = Stats(r) /\ Written("mined")
       \/ statsFile' = statsFile /\ Failed("mined")
    /\ Reply(r)
    /\ UNCHANGED <<active, issued, cache, ram, payoutFile, sharesFile, credits, mixed>>

---------------------------------------------------------------------------
\* The node dies and starts again: NewMiningPool loads the three files.

Restart ==
    /\ issued # <<>>
    /\ active' = NoTemplate
    /\ usedNonces' = {} /\ currentHeight' = 0
    /\ shares' = sharesFile
    /\ payouts' = payoutFile
    /\ mined' = statsFile
    /\ unsaved' = {}
    /\ req' = [r \in Request |-> Idle]
    /\ UNCHANGED <<issued, payoutFile, sharesFile, statsFile, credits, mixed>>

---------------------------------------------------------------------------
Handle(r) ==
    \/ Check(r) \/ Verify(r) \/ UnregisterNonce(r) \/ RegisterShare(r) \/ SkipShare(r)
    \/ SnapshotAndReset(r) \/ SavePendingPayouts(r) \/ ResetShares(r) \/ SaveShares(r)
    \/ Offer(r) \/ AddMinedBlock(r) \/ SaveStats(r) \/ StatsSaved(r)

Next ==
    \/ \E h \in Height : NewTemplate(h)
    \/ DropTemplate
    \/ \E r \in Request, n \in Nonce, s \in {"http", "stream"} : Submit(r, n, s)
    \/ \E r \in Request : Handle(r)
    \/ Restart

Spec == Init /\ [][Next]_vars

---------------------------------------------------------------------------
\* Properties.

Busy == [pc : Phase \ {"idle"}, source : {"http", "stream"}, on : DOMAIN issued, nonce : Nonce]

TypeOK ==
    /\ issued \in Seq(Height) /\ Len(issued) <= MaxTemplates
    /\ active \in DOMAIN issued \cup {NoTemplate}
    /\ usedNonces \subseteq Nonce /\ currentHeight \in Height \cup {0}
    /\ shares \subseteq DOMAIN credits
    /\ payouts \subseteq Payout /\ mined \subseteq Height
    /\ payoutFile \subseteq Payout /\ sharesFile \subseteq DOMAIN credits /\ statsFile \subseteq Height
    /\ req \in [Request -> {Idle} \cup Busy]
    /\ credits \in Seq(Template \X Nonce)
    /\ mixed \in BOOLEAN /\ unsaved \subseteq {"payouts", "mined"}

\* As long as no request of one height registers its nonce while another height
\* is still being judged, the nonce cache pays a piece of work once, whatever
\* the order of checks, verifications and releases, and however templates of
\* one height replace each other.
CreditedOnce ==
    ~mixed => \A i, j \in DOMAIN credits : credits[i] = credits[j] => i = j

\* No credit is owed twice: not by two payouts, not by a payout and the workers
\* whose next snapshot it would enter, neither in memory nor in the files a
\* restart would load, wherever the crash falls.
Disjoint(held, owed) ==
    /\ \A p \in owed : p.shares \cap held = {}
    /\ \A p, q \in owed : p # q => p.shares \cap q.shares = {}
PaidOnce ==
    /\ Disjoint(sharesFile, payoutFile)
    /\ Unlocked => Disjoint(shares, payouts)

\* When nobody is writing, a restart would find the payouts and the mined
\* heights the running pool has: no request's write hides another's, and a
\* record is missing on disk only if its last write failed, since the next one
\* writes them all.  Credits not yet in a payout are on no disk: they live in
\* the Workers map, whose file is written just after it was emptied.
RecordsOnDisk ==
    /\ "payouts" \in unsaved \/ (\E r \in Request : req[r].pc = "payouts") \/ payouts = payoutFile
    /\ "mined" \in unsaved \/ (\E r \in Request : req[r].pc \in {"save", "saving"}) \/ mined = statsFile
=============================================================================
