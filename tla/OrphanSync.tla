----------------------------- MODULE OrphanSync -----------------------------
(***************************************************************************)
(* Orphans in sync_engine.go: a block whose parent is unknown opens an     *)
(* investigation and starts CatchUpSync with the peer that sent it, either *)
(* directly (far ahead) or under alignOrphanChain, which gives the peer a  *)
(* strike when the height did not rise.  Every arrival is a goroutine; one *)
(* flag lets a single CatchUpSync in; investigationRoutine copies the      *)
(* investigations, asks the core and disconnects silent peers outside the  *)
(* lock, and then deletes.                                                 *)
(*                                                                         *)
(* The ledger is a height and the set of parents the core has; what        *)
(* CatchUpSync does inside is the module CatchUp.  Left out: the caches of *)
(* orphan headers, pendingBlocks, proof of work, the effect of a           *)
(* disconnection, and what the build switches off: unconnectableHashes is  *)
(* never filled, bootstrapRunning is false (EnableSnapshotJumping).        *)
(***************************************************************************)
EXTENDS Integers, FiniteSets

CONSTANTS
    Peer,
    Honest,       \* peers whose chain up to Tip is valid and heavier than ours
    Tip,          \* height of an honest peer's chain
    Missing,      \* parents that orphans may name
    Level,        \* their heights
    Job,          \* goroutines under way at once
    MaxHeight,    \* bound on the height
    MaxArrivals,  \* bound on the orphans that arrive
    Near,         \* CatchUpThreshold: 5
    StrikeLimit,  \* 3
    NoCase, NoPeer, NoHash

ASSUME OrphanAssumption ==
    /\ Honest \subseteq Peer /\ NoPeer \notin Peer
    /\ MaxHeight \in Nat /\ MaxArrivals \in Nat
    /\ Tip \in [Honest -> 0 .. MaxHeight] /\ Level \in [Missing -> Nat]
    /\ Near \in Nat /\ StrikeLimit \in Nat
    /\ NoCase \notin [sender : Peer, stale : BOOLEAN]
    /\ NoHash \notin Missing

VARIABLES
    height,         \* GetCurrentVersion
    present,        \* parents whose header the core has
    running,        \* catchUpRunning
    job,            \* the goroutines
    strikes,        \* orphanSyncStrikes
    tracker,        \* orphanTracker, and whether a case is past its timeout
    cooling,        \* failedOrphanAttempts younger than two minutes
    detective,      \* investigationRoutine
    arrivals,       \* history variable: orphans so far
    renewed,        \* history variable: parents whose case was opened again, or
                    \* fed, by the very peer the investigation under way accuses
    crossed         \* history variable: an alignment did not get its catch-up,
                    \* or somebody else moved the height it is judged by

ledger == <<height, present>>
inquiry == <<detective, renewed>>
vars == <<ledger, running, job, strikes, tracker, cooling, inquiry, arrivals, crossed>>

Height == 0 .. MaxHeight
Case == [sender : Peer, stale : BOOLEAN]
Target == [hash : Missing, sender : Peer, stale : BOOLEAN]

\* An alignment is judged by the height after its catch-up, a direct catch-up is not.
Phase == {"idle", "look", "register", "attempt", "align", "before", "enter", "run", "leave", "judged"}
Source == {"gossip", "core", "loop"}
Idle == [pc |-> "idle", source |-> "gossip", peer |-> NoPeer, hash |-> NoHash, before |-> 0, aligned |-> FALSE]
JobState == [pc : Phase, source : Source, peer : Peer, hash : Missing, before : Height, aligned : BOOLEAN]

Waiting == [pc |-> "wait", left |-> {}, resolved |-> {}, expired |-> {}]

Init ==
    /\ height = 0 /\ present = {}
    /\ running = FALSE
    /\ job = [j \in Job |-> Idle]
    /\ strikes = [p \in Peer |-> 0]
    /\ tracker = [h \in Missing |-> NoCase]
    /\ cooling = {}
    /\ detective = Waiting
    /\ arrivals = 0 /\ renewed = {} /\ crossed = FALSE

\* Where the orphan came from matters no more once its peer is to be asked.
Reason(j, phase) == IF phase \in {"align", "enter"} THEN "gossip" ELSE job[j].source
At(j, phase) == [pc |-> phase, source |-> Reason(j, phase), peer |-> job[j].peer, hash |-> job[j].hash,
                 before |-> job[j].before, aligned |-> job[j].aligned]
Goto(j, phase) == job' = [job EXCEPT ![j] = At(j, phase)]
End(j) == job' = [job EXCEPT ![j] = Idle]

---------------------------------------------------------------------------
\* A block whose parent is not stored: by gossip (HandleBlockArrival), by
\* gossip again after ProcessChain called it an orphan, or in the sequential
\* loop.  The first two look at the height, the loop registers first.

Arrive(j, p, h, source) ==
    /\ job[j].pc = "idle"
    /\ arrivals < MaxArrivals
    /\ p \in Honest => Level[h] < Tip[p]
    /\ arrivals' = arrivals + 1
    /\ job' = [job EXCEPT ![j] =
          [pc |-> IF source = "loop" THEN "register" ELSE "look",
           source |-> source, peer |-> p, hash |-> h, before |-> 0, aligned |-> FALSE]]
    /\ UNCHANGED <<ledger, running, strikes, tracker, cooling, inquiry, crossed>>

BlockHeight(j) == Level[job[j].hash] + 1
Far(j) == BlockHeight(j) > height + Near
Orphan(j) == job[j].source = "gossip" => BlockHeight(j) > height + 1

Look(j) ==
    /\ job[j].pc = "look"
    /\ IF Far(j) THEN Goto(j, "enter")
       ELSE IF job[j].source = "loop" THEN Goto(j, "align")
       ELSE IF Orphan(j) THEN Goto(j, "register")
       ELSE End(j)
    /\ UNCHANGED <<ledger, running, strikes, tracker, cooling, inquiry, arrivals, crossed>>

\* The investigation under way copied this case of p as past its timeout.
Accused(h, p) == \E t \in detective.left \cup detective.expired : t.hash = h /\ t.sender = p /\ t.stale

\* The case is opened anew for this peer, whoever had it.
Register(j) ==
    /\ job[j].pc = "register"
    /\ tracker' = [tracker EXCEPT ![job[j].hash] = [sender |-> job[j].peer, stale |-> FALSE]]
    /\ renewed' = IF Accused(job[j].hash, job[j].peer) THEN renewed \cup {job[j].hash} ELSE renewed
    /\ Goto(j, CASE job[j].source = "gossip" -> "attempt"
                 [] job[j].source = "core" -> "align"
                 [] OTHER -> "look")
    /\ UNCHANGED <<ledger, running, strikes, cooling, detective, arrivals, crossed>>

\* checkAndRecordOrphanAttempt: one alignment per parent in two minutes.
Attempt(j) ==
    /\ job[j].pc = "attempt"
    /\ cooling' = cooling \cup {job[j].hash}
    /\ IF job[j].hash \in cooling THEN End(j) ELSE Goto(j, "align")
    /\ UNCHANGED <<ledger, running, strikes, tracker, inquiry, arrivals, crossed>>

---------------------------------------------------------------------------
\* alignOrphanChain and the goroutine it starts.

\* Strikes half an hour old are forgotten first; a peer at the limit is
\* punished instead of asked, and a busy flag ends the attempt.
Align(j, forgotten) ==
    /\ job[j].pc = "align"
    /\ strikes' = [p \in Peer |-> IF p \in forgotten THEN 0 ELSE strikes[p]]
    /\ IF strikes'[job[j].peer] >= StrikeLimit \/ running THEN End(j) ELSE Goto(j, "before")
    /\ UNCHANGED <<ledger, running, tracker, cooling, inquiry, arrivals, crossed>>

\* heightBefore.  A peer the node has caught up with meanwhile cannot raise it.
Exhausted(j) == job[j].peer \in Honest /\ height >= Tip[job[j].peer]

Before(j) ==
    /\ job[j].pc = "before"
    /\ job' = [job EXCEPT ![j] =
          [pc |-> "enter", source |-> "gossip", peer |-> job[j].peer, hash |-> job[j].hash,
           before |-> height, aligned |-> TRUE]]
    /\ crossed' = (crossed \/ Exhausted(j))
    /\ UNCHANGED <<ledger, running, strikes, tracker, cooling, inquiry, arrivals>>

AfterCatchUp(j) == IF job[j].aligned THEN Goto(j, "judged") ELSE End(j)

\* CatchUpSync returns at once when the flag is set.
Refused_ClearsFlag(j) == running' = FALSE
Refused(j) == running' = running

Enter(j) ==
    /\ job[j].pc = "enter"
    /\ IF running
       THEN Refused(j) /\ AfterCatchUp(j) /\ crossed' = (crossed \/ job[j].aligned)
       ELSE running' = TRUE /\ Goto(j, "run") /\ crossed' = crossed
    /\ UNCHANGED <<ledger, strikes, tracker, cooling, inquiry, arrivals>>

\* Each body received keeps the peer's cases alive.
Of(p) == {h \in Missing : tracker[h] # NoCase /\ tracker[h].sender = p}

Feed(j) ==
    /\ job[j].pc = "run"
    /\ tracker' = [h \in Missing |-> IF h \in Of(job[j].peer)
                                     THEN [sender |-> job[j].peer, stale |-> FALSE] ELSE tracker[h]]
    /\ renewed' = renewed \cup {h \in Of(job[j].peer) : Accused(h, job[j].peer)}
    /\ UNCHANGED <<ledger, running, job, strikes, cooling, detective, arrivals, crossed>>

\* What the catch-up brings: from an honest peer its chain, from another any part.
UpTo(top) == {h \in Missing : Level[h] <= top}
Higher(a, b) == IF a > b THEN a ELSE b

Serve(j) ==
    /\ job[j].pc = "run"
    /\ Goto(j, "leave")
    /\ \E top \in height .. MaxHeight, known \in SUBSET Missing :
          /\ job[j].peer \in Honest => top = Higher(height, Tip[job[j].peer]) /\ known = UpTo(Tip[job[j].peer])
          /\ known \subseteq UpTo(top)
          /\ height' = top
          /\ present' = present \cup known
    /\ UNCHANGED <<running, strikes, tracker, cooling, inquiry, arrivals, crossed>>

Leave(j) ==
    /\ job[j].pc = "leave"
    /\ running' = FALSE
    /\ AfterCatchUp(j)
    /\ UNCHANGED <<ledger, strikes, tracker, cooling, inquiry, arrivals, crossed>>

\* heightAfter against heightBefore.
Rose_ByTwo(j) == height > job[j].before + 1
Rose(j) == height > job[j].before

StrikesAfter_OneOff(j) == IF Rose(j) THEN strikes[job[j].peer] - 1 ELSE strikes[job[j].peer] + 1
StrikesAfter(j) == IF Rose(j) THEN 0 ELSE strikes[job[j].peer] + 1

Strike(j) ==
    /\ job[j].pc = "judged"
    /\ strikes' = [strikes EXCEPT ![job[j].peer] = StrikesAfter(j)]
    /\ End(j)
    /\ UNCHANGED <<ledger, running, tracker, cooling, inquiry, arrivals, crossed>>

---------------------------------------------------------------------------
\* investigationRoutine: copy, look at each copy, delete.

Copy ==
    /\ detective.pc = "wait"
    /\ \E h \in Missing : tracker[h] # NoCase
    /\ detective' = [pc |-> "ask",
                     left |-> {[hash |-> h, sender |-> tracker[h].sender, stale |-> tracker[h].stale] :
                               h \in {m \in Missing : tracker[m] # NoCase}},
                     resolved |-> {}, expired |-> {}]
    /\ renewed' = {}
    /\ UNCHANGED <<ledger, running, job, strikes, tracker, cooling, arrivals, crossed>>

Expired_Unseen(t) == FALSE
Expired(t) == t.stale

Ask(t) ==
    /\ detective.pc = "ask" /\ t \in detective.left
    /\ detective' = [pc |-> "ask", left |-> detective.left \ {t},
                     resolved |-> IF t.hash \in present THEN detective.resolved \cup {t.hash} ELSE detective.resolved,
                     expired |-> IF t.hash \notin present /\ Expired(t) THEN detective.expired \cup {t} ELSE detective.expired]
    /\ UNCHANGED <<ledger, running, job, strikes, tracker, cooling, renewed, arrivals, crossed>>

\* A case another peer has taken over stays.
Closed_WhoeverHasIt(h) == h \in detective.resolved \/ \E t \in detective.expired : t.hash = h
Closed(h) ==
    \/ h \in detective.resolved
    \/ \E t \in detective.expired : t.hash = h /\ tracker[h] # NoCase /\ tracker[h].sender = t.sender

Delete ==
    /\ detective.pc = "ask" /\ detective.left = {}
    /\ tracker' = [h \in Missing |-> IF Closed(h) THEN NoCase ELSE tracker[h]]
    /\ detective' = Waiting /\ renewed' = {}
    /\ UNCHANGED <<ledger, running, job, strikes, cooling, arrivals, crossed>>

---------------------------------------------------------------------------
\* Around it: time passes, blocks come another way, a step back.

Age(h) ==
    /\ tracker[h] # NoCase /\ ~tracker[h].stale
    /\ tracker' = [tracker EXCEPT ![h] = [sender |-> tracker[h].sender, stale |-> TRUE]]
    /\ UNCHANGED <<ledger, running, job, strikes, cooling, inquiry, arrivals, crossed>>

Cool(h) ==
    /\ h \in cooling
    /\ cooling' = cooling \ {h}
    /\ UNCHANGED <<ledger, running, job, strikes, tracker, inquiry, arrivals, crossed>>

Advance ==
    /\ height < MaxHeight
    /\ height' = height + 1
    /\ \E known \in SUBSET UpTo(height') : present' = present \cup known
    /\ UNCHANGED <<running, job, strikes, tracker, cooling, inquiry, arrivals, crossed>>

Lower ==
    /\ height > 0
    /\ height' = height - 1
    /\ crossed' = (crossed \/ \E j \in Job : job[j].aligned)
    /\ UNCHANGED <<present, running, job, strikes, tracker, cooling, inquiry, arrivals>>

---------------------------------------------------------------------------
CatchUpStep(j) == Enter(j) \/ Serve(j) \/ Leave(j)
AlignStep(j) == (\E forgotten \in SUBSET Peer : Align(j, forgotten)) \/ Before(j) \/ CatchUpStep(j) \/ Strike(j)
Handle(j) == Look(j) \/ Register(j) \/ Attempt(j) \/ AlignStep(j)
Investigate == Copy \/ (\E t \in Target : Ask(t)) \/ Delete

Next ==
    \/ \E j \in Job, p \in Peer, h \in Missing, s \in Source : Arrive(j, p, h, s)
    \/ \E j \in Job : Handle(j) \/ Feed(j)
    \/ Investigate
    \/ \E h \in Missing : Age(h) \/ Cool(h)
    \/ Advance \/ Lower

Spec == Init /\ [][Next]_vars

\* The routine has a ticker, every wait inside CatchUpSync has a timeout, and
\* time passes.  Every such step changes the variable named in its subscript.
Fairness ==
    /\ WF_detective(Investigate)
    /\ WF_job(\E j \in Job : Serve(j))
    /\ WF_tracker(\E h \in Missing : Age(h))

LiveSpec == Spec /\ Fairness

---------------------------------------------------------------------------
\* Properties.

TypeOK ==
    /\ height \in Height /\ present \subseteq Missing
    /\ running \in BOOLEAN /\ crossed \in BOOLEAN
    /\ job \in [Job -> {Idle} \cup JobState]
    /\ strikes \in [Peer -> Nat]
    /\ tracker \in [Missing -> {NoCase} \cup Case]
    /\ cooling \subseteq Missing
    /\ detective.pc \in {"wait", "ask"} /\ detective.left \subseteq Target
    /\ detective.resolved \subseteq Missing /\ detective.expired \subseteq Target
    /\ arrivals \in 0 .. MaxArrivals /\ renewed \subseteq Missing

\* The flag is set exactly while one goroutine is inside CatchUpSync: neither
\* two at once, nor a flag nobody will clear.
Inside(j) == job[j].pc \in {"run", "leave"}
OneCatchUp ==
    /\ running <=> \E j \in Job : Inside(j)
    /\ \A i, j \in Job : Inside(i) /\ Inside(j) => i = j

\* An honest peer that delivers its chain has no strike as long as its
\* alignments get their turn and nobody else moves the height they are judged
\* by.  (The code does not grant that proviso: see crossed.)
HonestUnstruck == ~crossed => \A p \in Honest : strikes[p] = 0

\* The investigator judges by a copy, without the lock, while cases are opened
\* and fed; yet it drops only a case whose parent the core has, or one that is
\* past its timeout as it is now, not as it was copied.  One exception: a case
\* renewed since by the very peer that was accused.  The code compares the
\* sender alone, and drops such a case although it is fresh.
FreshCaseKept ==
    [][\A h \in Missing :
          tracker[h] # NoCase /\ tracker'[h] = NoCase =>
             h \in present \/ tracker[h].stale \/ h \in renewed]_vars

\* No case stays open for ever once no orphan arrives any more.
CasesClose == \A h \in Missing : []<>(tracker[h] = NoCase)
=============================================================================
