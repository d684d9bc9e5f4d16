-------------------------- MODULE OrphanSyncProofs --------------------------
(***************************************************************************)
(* Proofs about OrphanSync, for every set of peers, missing parents and    *)
(* goroutines, and every strike limit.                                     *)
(***************************************************************************)
EXTENDS OrphanSync, TLAPS

---------------------------------------------------------------------------
\* The inductive invariant.

\* Only a goroutine that read heightBefore is judged by it.
JudgedAligned ==
    \A j \in Job :
        /\ job[j].aligned => job[j].pc \in {"enter", "run", "leave", "judged"}
        /\ job[j].pc = "judged" => job[j].aligned

\* An honest peer can raise the height its alignment read, and after its
\* catch-up the height has risen.
WillRise ==
    \A j \in Job : job[j].aligned /\ job[j].peer \in Honest =>
        /\ job[j].before < Tip[job[j].peer]
        /\ job[j].pc \in {"leave", "judged"} => height > job[j].before

StrikeInv == JudgedAligned /\ (~crossed => WillRise /\ \A p \in Honest : strikes[p] = 0)

---------------------------------------------------------------------------
\* Types.

USE DEF Height, inquiry

LEMMA InitType == Init => TypeOK
<1> SUFFICES ASSUME Init PROVE TypeOK
  OBVIOUS
<1>1. job \in [Job -> {Idle} \cup JobState] /\ strikes \in [Peer -> Nat]
      /\ tracker \in [Missing -> {NoCase} \cup Case]
  BY DEF Init
<1>2. height \in Height /\ arrivals \in 0 .. MaxArrivals
  BY OrphanAssumption DEF Init
<1>3. detective.pc = "wait" /\ detective.left = {} /\ detective.resolved = {} /\ detective.expired = {}
  BY DEF Init, Waiting
<1> QED
  BY <1>1, <1>2, <1>3 DEF Init, TypeOK

\* What moving one goroutine does to all of them.
LEMMA JobType ==
    ASSUME TypeOK, NEW j \in Job, job[j].pc # "idle"
    PROVE  /\ job[j] \in JobState
           /\ \A phase \in Phase : Goto(j, phase) =>
                 /\ job' \in [Job -> {Idle} \cup JobState]
                 /\ \A i \in Job : job'[i] = IF i = j THEN At(j, phase) ELSE job[i]
           /\ End(j) =>
                 /\ job' \in [Job -> {Idle} \cup JobState]
                 /\ \A i \in Job : job'[i] = IF i = j THEN Idle ELSE job[i]
<1>1. job[j] \in JobState
  BY DEF TypeOK, Idle
<1>2. \A phase \in Phase : At(j, phase) \in JobState
  BY <1>1 DEF At, Reason, JobState, Source
<1> QED
  BY <1>1, <1>2 DEF Goto, End, TypeOK

LEMMA NextType == TypeOK /\ [Next]_vars => TypeOK'
<1> SUFFICES ASSUME TypeOK, [Next]_vars PROVE TypeOK'
  OBVIOUS
<1> USE OrphanAssumption
<1>1. ASSUME NEW j \in Job, NEW p \in Peer, NEW h \in Missing, NEW s \in Source, Arrive(j, p, h, s)
      PROVE  TypeOK'
  <2>1. [pc |-> IF s = "loop" THEN "register" ELSE "look", source |-> s, peer |-> p, hash |-> h,
         before |-> 0, aligned |-> FALSE] \in JobState
    BY DEF JobState, Phase
  <2>2. job' \in [Job -> {Idle} \cup JobState]
    BY <1>1, <2>1 DEF Arrive, TypeOK
  <2> QED
    BY <1>1, <2>2 DEF Arrive, TypeOK, ledger
<1>2. ASSUME NEW j \in Job, Handle(j) PROVE TypeOK'
  <2>1. CASE Look(j)
    <3>1. job' \in [Job -> {Idle} \cup JobState]
      BY <2>1, JobType DEF Look, Phase
    <3> QED
      BY <2>1, <3>1 DEF Look, TypeOK, ledger
  <2>2. CASE Register(j)
    <3>1. job' \in [Job -> {Idle} \cup JobState] /\ job[j] \in JobState
      BY <2>2, JobType DEF Register, Phase
    <3>2. tracker' \in [Missing -> {NoCase} \cup Case]
      BY <2>2, <3>1 DEF Register, TypeOK, JobState, Case
    <3> QED
      BY <2>2, <3>1, <3>2 DEF Register, TypeOK, ledger
  <2>3. CASE Attempt(j)
    <3>1. job' \in [Job -> {Idle} \cup JobState] /\ job[j] \in JobState
      BY <2>3, JobType DEF Attempt, Phase
    <3> QED
      BY <2>3, <3>1 DEF Attempt, TypeOK, ledger, JobState
  <2>4. ASSUME NEW forgotten \in SUBSET Peer, Align(j, forgotten) PROVE TypeOK'
    <3>1. job' \in [Job -> {Idle} \cup JobState]
      BY <2>4, JobType DEF Align, Phase
    <3>2. strikes' \in [Peer -> Nat]
      BY <2>4 DEF Align, TypeOK
    <3> QED
      BY <2>4, <3>1, <3>2 DEF Align, TypeOK, ledger
  <2>5. CASE Before(j)
    <3>1. job[j] \in JobState
      BY <2>5, JobType DEF Before
    <3>2. [pc |-> "enter", source |-> "gossip", peer |-> job[j].peer, hash |-> job[j].hash,
           before |-> height, aligned |-> TRUE] \in JobState
      BY <3>1 DEF JobState, Phase, Source, TypeOK
    <3>3. job' \in [Job -> {Idle} \cup JobState]
      BY <2>5, <3>2 DEF Before, TypeOK
    <3> QED
      BY <2>5, <3>3 DEF Before, TypeOK, ledger, Exhausted
  <2>6. CASE Enter(j)
    <3>1. job' \in [Job -> {Idle} \cup JobState] /\ job[j] \in JobState
      BY <2>6, JobType DEF Enter, AfterCatchUp, Phase
    <3>2. running' \in BOOLEAN /\ crossed' \in BOOLEAN
      BY <2>6, <3>1 DEF Enter, Refused, TypeOK, JobState
    <3> QED
      BY <2>6, <3>1, <3>2 DEF Enter, TypeOK, ledger
  <2>7. CASE Serve(j)
    <3>1. job' \in [Job -> {Idle} \cup JobState]
      BY <2>7, JobType DEF Serve, Phase
    <3>2. height' \in Height /\ present' \subseteq Missing
      BY <2>7 DEF Serve, TypeOK
    <3> QED
      BY <2>7, <3>1, <3>2 DEF Serve, TypeOK
  <2>8. CASE Leave(j)
    <3>1. job' \in [Job -> {Idle} \cup JobState]
      BY <2>8, JobType DEF Leave, AfterCatchUp, Phase
    <3> QED
      BY <2>8, <3>1 DEF Leave, TypeOK, ledger
  <2>9. CASE Strike(j)
    <3>1. job' \in [Job -> {Idle} \cup JobState] /\ job[j] \in JobState
      BY <2>9, JobType DEF Strike
    <3>2. strikes' \in [Peer -> Nat]
      BY <2>9, <3>1 DEF Strike, StrikesAfter, TypeOK, JobState
    <3> QED
      BY <2>9, <3>1, <3>2 DEF Strike, TypeOK, ledger
  <2> QED
    BY <1>2, <2>1, <2>2, <2>3, <2>4, <2>5, <2>6, <2>7, <2>8, <2>9 DEF Handle, AlignStep, CatchUpStep
<1>3. ASSUME NEW j \in Job, Feed(j) PROVE TypeOK'
  <2>1. job[j] \in JobState
    BY <1>3, JobType DEF Feed
  <2>2. tracker' \in [Missing -> {NoCase} \cup Case]
    BY <1>3, <2>1 DEF Feed, Of, TypeOK, JobState, Case
  <2> QED
    BY <1>3, <2>2 DEF Feed, Of, TypeOK, ledger
<1>4. CASE Investigate
  <2>1. CASE Copy
    <3>1. \A h \in Missing : tracker[h] # NoCase => tracker[h] \in Case
      BY DEF TypeOK
    <3>2. detective'.left \subseteq Target /\ detective'.pc = "ask"
          /\ detective'.resolved = {} /\ detective'.expired = {}
      BY <2>1, <3>1 DEF Copy, Target, Case
    <3> QED
      BY <2>1, <3>2 DEF Copy, TypeOK, ledger
  <2>2. ASSUME NEW t \in Target, Ask(t) PROVE TypeOK'
    <3>1. t.hash \in Missing
      BY DEF Target
    <3> QED
      BY <2>2, <3>1 DEF Ask, TypeOK, ledger
  <2>3. CASE Delete
    <3>1. tracker' \in [Missing -> {NoCase} \cup Case]
      BY <2>3 DEF Delete, TypeOK
    <3> QED
      BY <2>3, <3>1 DEF Delete, TypeOK, ledger, Waiting
  <2> QED
    BY <1>4, <2>1, <2>2, <2>3 DEF Investigate
<1>5. ASSUME NEW h \in Missing, Age(h) PROVE TypeOK'
  <2>1. tracker' \in [Missing -> {NoCase} \cup Case]
    BY <1>5 DEF Age, TypeOK, Case
  <2> QED
    BY <1>5, <2>1 DEF Age, TypeOK, ledger
<1>6. ASSUME NEW h \in Missing, Cool(h) PROVE TypeOK'
  BY <1>6 DEF Cool, TypeOK, ledger
<1>7. CASE Advance
  <2>1. height' \in Height /\ present' \subseteq Missing
    BY <1>7 DEF Advance, TypeOK, UpTo
  <2> QED
    BY <1>7, <2>1 DEF Advance, TypeOK
<1>8. CASE Lower
  <2>1. height' \in Height /\ crossed' \in BOOLEAN
    <3>1. height' \in Height
      BY <1>8 DEF Lower, TypeOK
    <3>2. (\E j \in Job : job[j].aligned) \in BOOLEAN
      OBVIOUS
    <3>3. crossed' \in BOOLEAN
      BY <1>8, <3>2 DEF Lower, TypeOK
    <3> QED
      BY <3>1, <3>3
  <2> QED
    BY <1>8, <2>1 DEF Lower, TypeOK
<1>9. CASE UNCHANGED vars
  BY <1>9 DEF vars, ledger, TypeOK
<1> QED
  BY <1>1, <1>2, <1>3, <1>4, <1>5, <1>6, <1>7, <1>8, <1>9 DEF Next

\* For any peers, parents and number of goroutines the tracker, the strikes and the
\* locals of every goroutine keep their types.
THEOREM TypeCorrect == Spec => []TypeOK
BY InitType, NextType, PTL DEF Spec

---------------------------------------------------------------------------
\* One catch-up.

\* A step that leaves the flag and who is inside.
LEMMA QuietFlag ==
    ASSUME OneCatchUp, running' = running, \A i \in Job : Inside(i)' <=> Inside(i)
    PROVE  OneCatchUp'
BY DEF OneCatchUp

LEMMA NextFlag == TypeOK /\ OneCatchUp /\ [Next]_vars => OneCatchUp'
<1> SUFFICES ASSUME TypeOK, OneCatchUp, [Next]_vars PROVE OneCatchUp'
  OBVIOUS
<1>1. ASSUME NEW j \in Job, NEW p \in Peer, NEW h \in Missing, NEW s \in Source, Arrive(j, p, h, s)
      PROVE  OneCatchUp'
  <2>1. \A i \in Job : Inside(i)' <=> Inside(i)
    BY <1>1 DEF Arrive, Inside, TypeOK
  <2> QED
    BY <1>1, <2>1, QuietFlag DEF Arrive
<1>2. ASSUME NEW j \in Job, Handle(j) PROVE OneCatchUp'
  <2>0. /\ \A phase \in Phase : Goto(j, phase) =>
              job'[j].pc = phase /\ \A i \in Job \ {j} : job'[i] = job[i]
        /\ End(j) => job'[j].pc = "idle" /\ \A i \in Job \ {j} : job'[i] = job[i]
    BY DEF Goto, At, End, Idle, TypeOK
  <2>1. CASE Look(j)
    BY <2>1, <2>0, QuietFlag DEF Look, Inside, Phase
  <2>2. CASE Register(j)
    BY <2>2, <2>0, QuietFlag DEF Register, Inside, Phase
  <2>3. CASE Attempt(j)
    BY <2>3, <2>0, QuietFlag DEF Attempt, Inside, Phase
  <2>4. ASSUME NEW forgotten \in SUBSET Peer, Align(j, forgotten) PROVE OneCatchUp'
    BY <2>4, <2>0, QuietFlag DEF Align, Inside, Phase
  <2>5. CASE Before(j)
    <3>1. \A i \in Job : Inside(i)' <=> Inside(i)
      BY <2>5 DEF Before, Inside, TypeOK
    <3> QED
      BY <2>5, <3>1, QuietFlag DEF Before
  <2>6. CASE Enter(j)
    <3>1. CASE running
      BY <2>6, <3>1, <2>0, QuietFlag DEF Enter, Refused, AfterCatchUp, Inside, Phase
    <3>2. CASE ~running
      <4>1. /\ running' = TRUE /\ job'[j].pc = "run"
            /\ \A i \in Job \ {j} : job'[i] = job[i] /\ ~Inside(i)
        BY <2>6, <3>2, <2>0 DEF Enter, OneCatchUp, Phase
      <4> QED
        BY <4>1 DEF OneCatchUp, Inside
    <3> QED
      BY <3>1, <3>2
  <2>7. CASE Serve(j)
    BY <2>7, <2>0, QuietFlag DEF Serve, Inside, Phase
  <2>8. CASE Leave(j)
    <3>1. /\ running' = FALSE /\ job'[j].pc \in {"judged", "idle"} /\ Inside(j)
          /\ \A i \in Job \ {j} : job'[i] = job[i]
      BY <2>8, <2>0 DEF Leave, AfterCatchUp, Phase, Inside
    <3>2. \A i \in Job \ {j} : ~Inside(i)
      BY <3>1 DEF OneCatchUp
    <3> QED
      BY <3>1, <3>2 DEF OneCatchUp, Inside
  <2>9. CASE Strike(j)
    BY <2>9, <2>0, QuietFlag DEF Strike, Inside, Phase
  <2> QED
    BY <1>2, <2>1, <2>2, <2>3, <2>4, <2>5, <2>6, <2>7, <2>8, <2>9 DEF Handle, AlignStep, CatchUpStep
<1>3. ASSUME UNCHANGED <<job, running>> PROVE OneCatchUp'
  BY <1>3, QuietFlag DEF Inside
<1> QED
  BY <1>1, <1>2, <1>3 DEF Next, Investigate, Copy, Ask, Delete, Feed, Age, Cool, Advance, Lower, vars

\* The flag and the goroutine inside CatchUpSync always agree.
THEOREM CatchUpAlone == Spec => []OneCatchUp
<1>1. Init => OneCatchUp
  BY DEF Init, OneCatchUp, Inside, Idle
<1> QED
  BY <1>1, TypeCorrect, NextFlag, PTL DEF Spec

---------------------------------------------------------------------------
\* Strikes.

\* A step that neither lowers the height nor gives a strike, in which one
\* goroutine moves that is no alignment afterwards.
LEMMA QuietStrikes ==
    ASSUME TypeOK, StrikeInv, crossed => crossed',
           height' \in Height, height' >= height,
           \A p \in Honest : strikes'[p] \in {0, strikes[p]},
           NEW j \in Job, \A i \in Job \ {j} : job'[i] = job[i],
           job'[j].aligned = FALSE, job'[j].pc # "judged"
    PROVE  StrikeInv'
<1>1. JudgedAligned'
  BY DEF StrikeInv, JudgedAligned
<1>2. ASSUME ~crossed' PROVE WillRise' /\ \A p \in Honest : strikes'[p] = 0
  <2>1. WillRise /\ \A p \in Honest : strikes[p] = 0
    BY <1>2 DEF StrikeInv
  <2>2. ASSUME NEW i \in Job, job'[i].aligned, job'[i].peer \in Honest
        PROVE  /\ job'[i].before < Tip[job'[i].peer]
               /\ job'[i].pc \in {"leave", "judged"} => height' > job'[i].before
    <3>1. job'[i] = job[i]
      BY <2>2
    <3>2. job[i].before \in Nat /\ height \in Nat /\ height' \in Nat
      <4>1. job[i] \in {Idle} \cup JobState
        BY DEF TypeOK
      <4>2. job[i].before \in Height
        BY <4>1, OrphanAssumption DEF Idle, JobState
      <4> QED
        BY <4>2, OrphanAssumption DEF TypeOK
    <3>3. /\ job[i].before < Tip[job[i].peer]
          /\ job[i].pc \in {"leave", "judged"} => height > job[i].before
      BY <2>1, <2>2, <3>1 DEF WillRise
    <3> QED
      BY <3>1, <3>2, <3>3
  <2> QED
    BY <2>1, <2>2 DEF WillRise
<1> QED
  BY <1>1, <1>2 DEF StrikeInv

LEMMA NextStrikes == TypeOK /\ StrikeInv /\ [Next]_vars => StrikeInv'
<1> SUFFICES ASSUME TypeOK, StrikeInv, [Next]_vars PROVE StrikeInv'
  OBVIOUS
<1>a. /\ height \in Height /\ height \in Nat
      /\ \A i \in Job : job[i].before \in Nat
  <2>1. \A i \in Job : job[i] \in {Idle} \cup JobState
    BY DEF TypeOK
  <2>2. \A i \in Job : job[i].before \in Height
    BY <2>1, OrphanAssumption DEF Idle, JobState
  <2> QED
    BY <2>2, OrphanAssumption DEF TypeOK
<1>b. height >= height
  BY <1>a
<1>1. ASSUME NEW j \in Job, NEW p \in Peer, NEW h \in Missing, NEW s \in Source, Arrive(j, p, h, s)
      PROVE  StrikeInv'
  <2>1. /\ \A i \in Job \ {j} : job'[i] = job[i]
        /\ job'[j].aligned = FALSE /\ job'[j].pc # "judged"
    BY <1>1 DEF Arrive, TypeOK
  <2> QED
    BY <1>1, <1>a, <1>b, <2>1, QuietStrikes DEF Arrive, ledger
<1>2. ASSUME NEW j \in Job, Handle(j) PROVE StrikeInv'
  <2>0. /\ \A phase \in Phase : Goto(j, phase) =>
              /\ job'[j].pc = phase /\ job'[j].aligned = job[j].aligned
              /\ job'[j].before = job[j].before /\ job'[j].peer = job[j].peer
              /\ \A i \in Job \ {j} : job'[i] = job[i]
        /\ End(j) => /\ job'[j].pc = "idle" /\ job'[j].aligned = FALSE
                     /\ \A i \in Job \ {j} : job'[i] = job[i]
    BY DEF Goto, At, End, Idle, TypeOK
  <2>a. JudgedAligned
    BY DEF StrikeInv
  <2>b. ASSUME job[j].pc \in {"look", "register", "attempt", "align"},
               (\E phase \in Phase \ {"judged"} : Goto(j, phase)) \/ End(j)
        PROVE  /\ \A i \in Job \ {j} : job'[i] = job[i]
               /\ job'[j].aligned = FALSE /\ job'[j].pc # "judged"
    <3>1. job[j].aligned = FALSE
      <4>1. job[j].aligned \in BOOLEAN
        <5>1. job[j] \in {Idle} \cup JobState
          BY DEF TypeOK
        <5>2. Idle.aligned \in BOOLEAN
          BY DEF Idle
        <5>3. ASSUME NEW x \in JobState PROVE x.aligned \in BOOLEAN
          BY DEF JobState
        <5> QED
          BY <5>1, <5>2, <5>3
      <4> QED
        BY <4>1, <2>a, <2>b DEF JudgedAligned
    <3> QED
      BY <2>0, <2>b, <3>1
  <2>1. CASE Look(j)
    <3>1. (\E phase \in Phase \ {"judged"} : Goto(j, phase)) \/ End(j)
      BY <2>1 DEF Look, Phase
    <3> QED
      BY <2>1, <1>a, <1>b, <2>b, <3>1, QuietStrikes DEF Look, ledger
  <2>2. CASE Register(j)
    <3>1. \E phase \in Phase \ {"judged"} : Goto(j, phase)
      BY <2>2 DEF Register, Phase
    <3> QED
      BY <2>2, <1>a, <1>b, <2>b, <3>1, QuietStrikes DEF Register, ledger
  <2>3. CASE Attempt(j)
    <3>1. (\E phase \in Phase \ {"judged"} : Goto(j, phase)) \/ End(j)
      BY <2>3 DEF Attempt, Phase
    <3> QED
      BY <2>3, <1>a, <1>b, <2>b, <3>1, QuietStrikes DEF Attempt, ledger
  <2>4. ASSUME NEW forgotten \in SUBSET Peer, Align(j, forgotten) PROVE StrikeInv'
    <3>1. (\E phase \in Phase \ {"judged"} : Goto(j, phase)) \/ End(j)
      BY <2>4 DEF Align, Phase
    <3>2. \A p \in Honest : strikes'[p] \in {0, strikes[p]}
      BY <2>4, OrphanAssumption DEF Align
    <3> QED
      BY <2>4, <1>a, <1>b, <2>b, <3>1, <3>2, QuietStrikes DEF Align, ledger
  <2>5. CASE Before(j)
    <3>1. /\ job'[j].pc = "enter" /\ job'[j].aligned /\ job'[j].before = height
          /\ job'[j].peer = job[j].peer
          /\ \A i \in Job \ {j} : job'[i] = job[i]
          /\ UNCHANGED <<height, strikes>>
      BY <2>5 DEF Before, TypeOK, ledger
    <3>2. JudgedAligned'
      BY <2>a, <3>1 DEF JudgedAligned
    <3>3. ASSUME ~crossed' PROVE WillRise' /\ \A p \in Honest : strikes'[p] = 0
      <4>1. WillRise /\ ~Exhausted(j) /\ \A p \in Honest : strikes[p] = 0
        BY <2>5, <3>3 DEF Before, StrikeInv
      <4>2. \A p \in Honest : Tip[p] \in Nat
        BY OrphanAssumption
      <4>3. job[j].peer \in Honest => height < Tip[job[j].peer]
        BY <4>1, <4>2, <1>a DEF Exhausted
      <4> QED
        BY <4>1, <4>3, <3>1 DEF WillRise
    <3> QED
      BY <3>2, <3>3 DEF StrikeInv
  <2>6. CASE Enter(j)
    <3>1. CASE running /\ job[j].aligned
      <4>1. /\ crossed' /\ job'[j].pc = "judged" /\ job'[j].aligned
            /\ \A i \in Job \ {j} : job'[i] = job[i]
        BY <2>6, <3>1, <2>0 DEF Enter, AfterCatchUp, Phase
      <4> QED
        BY <4>1, <2>a DEF StrikeInv, JudgedAligned
    <3>2. CASE running /\ ~job[j].aligned
      <4>1. /\ \A i \in Job \ {j} : job'[i] = job[i]
            /\ job'[j].aligned = FALSE /\ job'[j].pc # "judged"
        BY <2>6, <3>2, <2>0 DEF Enter, AfterCatchUp
      <4> QED
        BY <2>6, <4>1, <3>2, <1>a, <1>b, QuietStrikes DEF Enter, ledger
    <3>3. CASE ~running
      <4>1. /\ job'[j].pc = "run" /\ job'[j].aligned = job[j].aligned
            /\ job'[j].before = job[j].before /\ job'[j].peer = job[j].peer
            /\ \A i \in Job \ {j} : job'[i] = job[i]
            /\ UNCHANGED <<height, strikes, crossed>>
        BY <2>6, <3>3, <2>0 DEF Enter, Phase, ledger
      <4>2. JudgedAligned'
        BY <4>1, <2>a DEF JudgedAligned
      <4>3. WillRise => WillRise'
        BY <4>1 DEF WillRise
      <4> QED
        BY <4>1, <4>2, <4>3 DEF StrikeInv
    <3> QED
      BY <3>1, <3>2, <3>3
  <2>7. CASE Serve(j)
    <3>1. /\ job'[j].pc = "leave" /\ job'[j].aligned = job[j].aligned
          /\ job'[j].before = job[j].before /\ job'[j].peer = job[j].peer
          /\ \A i \in Job \ {j} : job'[i] = job[i]
          /\ job[j].pc = "run" /\ UNCHANGED <<strikes, crossed>>
      BY <2>7, <2>0 DEF Serve, Phase
    <3>2. /\ height' \in height .. MaxHeight
          /\ job[j].peer \in Honest => height' = Higher(height, Tip[job[j].peer])
      BY <2>7 DEF Serve
    <3>3. height' \in Nat /\ height' >= height
      BY <3>2, <1>a, OrphanAssumption
    <3>4. JudgedAligned'
      BY <3>1, <2>a DEF JudgedAligned
    <3>5. ASSUME WillRise PROVE WillRise'
      <4>1. ASSUME job[j].aligned, job[j].peer \in Honest
            PROVE  job[j].before < Tip[job[j].peer] /\ height' > job[j].before
        <5>1. job[j].before < Tip[job[j].peer] /\ Tip[job[j].peer] \in Nat
          BY <3>5, <4>1, OrphanAssumption DEF WillRise
        <5>2. height' = IF height > Tip[job[j].peer] THEN height ELSE Tip[job[j].peer]
          BY <3>2, <4>1 DEF Higher
        <5> QED
          BY <5>1, <5>2, <1>a
      <4>2. ASSUME NEW i \in Job, i # j, job[i].aligned, job[i].peer \in Honest
            PROVE  /\ job[i].before < Tip[job[i].peer]
                   /\ job[i].pc \in {"leave", "judged"} => height' > job[i].before
        <5>1. /\ job[i].before < Tip[job[i].peer]
              /\ job[i].pc \in {"leave", "judged"} => height > job[i].before
          BY <3>5, <4>2 DEF WillRise
        <5> QED
          BY <5>1, <3>3, <1>a
      <4> QED
        BY <4>1, <4>2, <3>1 DEF WillRise
    <3> QED
      BY <3>1, <3>4, <3>5 DEF StrikeInv
  <2>8. CASE Leave(j)
    <3>1. CASE ~job[j].aligned
      <4>1. /\ \A i \in Job \ {j} : job'[i] = job[i]
            /\ job'[j].aligned = FALSE /\ job'[j].pc # "judged"
        BY <2>8, <3>1, <2>0 DEF Leave, AfterCatchUp
      <4> QED
        BY <2>8, <4>1, <1>a, <1>b, QuietStrikes DEF Leave, ledger
    <3>2. CASE job[j].aligned
      <4>1. /\ job'[j].pc = "judged" /\ job'[j].aligned = job[j].aligned
            /\ job'[j].before = job[j].before /\ job'[j].peer = job[j].peer
            /\ \A i \in Job \ {j} : job'[i] = job[i]
            /\ job[j].pc = "leave" /\ UNCHANGED <<height, strikes, crossed>>
        BY <2>8, <3>2, <2>0 DEF Leave, AfterCatchUp, Phase, ledger
      <4>2. JudgedAligned'
        BY <4>1, <3>2, <2>a DEF JudgedAligned
      <4>3. WillRise => WillRise'
        BY <4>1 DEF WillRise
      <4> QED
        BY <4>1, <4>2, <4>3 DEF StrikeInv
    <3> QED
      BY <3>1, <3>2
  <2>9. CASE Strike(j)
    <3>1. /\ \A i \in Job \ {j} : job'[i] = job[i]
          /\ job'[j].aligned = FALSE /\ job'[j].pc # "judged"
      BY <2>9, <2>0 DEF Strike
    <3>2. CASE crossed
      BY <2>9, <3>1, <3>2, <2>0, <2>a DEF Strike, StrikeInv, JudgedAligned
    <3>3. CASE ~crossed
      <4>1. job[j].aligned /\ (job[j].peer \in Honest => Rose(j))
        BY <2>9, <3>3, <2>a DEF Strike, StrikeInv, JudgedAligned, WillRise, Rose
      <4>2. \A p \in Honest : strikes'[p] \in {0, strikes[p]}
        BY <2>9, <4>1, OrphanAssumption DEF Strike, StrikesAfter, TypeOK
      <4> QED
        BY <2>9, <3>1, <4>2, <1>a, <1>b, QuietStrikes DEF Strike, ledger
    <3> QED
      BY <3>2, <3>3
  <2> QED
    BY <1>2, <2>1, <2>2, <2>3, <2>4, <2>5, <2>6, <2>7, <2>8, <2>9 DEF Handle, AlignStep, CatchUpStep
<1>3. CASE Advance
  <2>1. height' >= height /\ height' \in Nat /\ UNCHANGED <<job, strikes, crossed>>
    BY <1>3, <1>a DEF Advance
  <2>2. JudgedAligned'
    BY <2>1 DEF StrikeInv, JudgedAligned
  <2>3. ASSUME WillRise, NEW i \in Job, job[i].aligned, job[i].peer \in Honest
        PROVE  /\ job[i].before < Tip[job[i].peer]
               /\ job[i].pc \in {"leave", "judged"} => height' > job[i].before
    <3>1. /\ job[i].before < Tip[job[i].peer]
          /\ job[i].pc \in {"leave", "judged"} => height > job[i].before
      BY <2>3 DEF WillRise
    <3> QED
      BY <3>1, <2>1, <1>a
  <2> QED
    BY <2>1, <2>2, <2>3 DEF StrikeInv, WillRise
<1>4. CASE Lower
  <2>1. JudgedAligned'
    BY <1>4 DEF Lower, StrikeInv, JudgedAligned
  <2>2. ASSUME ~crossed' PROVE WillRise' /\ \A p \in Honest : strikes'[p] = 0
    <3>1. ~crossed /\ \A i \in Job : ~job[i].aligned
      BY <1>4, <2>2 DEF Lower
    <3> QED
      BY <1>4, <3>1 DEF Lower, WillRise, StrikeInv
  <2> QED
    BY <2>1, <2>2 DEF StrikeInv
<1>5. ASSUME UNCHANGED <<height, job, strikes, crossed>> PROVE StrikeInv'
  BY <1>5 DEF StrikeInv, JudgedAligned, WillRise
<1> QED
  BY <1>1, <1>2, <1>3, <1>4, <1>5 DEF Next, Investigate, Copy, Ask, Delete, Feed, Age, Cool, vars, ledger

\* An honest peer is struck only where its alignment lost its turn or somebody
\* else moved the height it was judged by.
THEOREM HonestPeersSpared == Spec => []HonestUnstruck
<1>1. Init => StrikeInv
  BY OrphanAssumption DEF Init, StrikeInv, JudgedAligned, WillRise, Idle
<1>2. StrikeInv => HonestUnstruck
  BY DEF StrikeInv, HonestUnstruck
<1> QED
  BY <1>1, <1>2, TypeCorrect, NextStrikes, PTL DEF Spec

---------------------------------------------------------------------------
\* Cases.

\* What the routine found resolved stays so: no step takes a header back.
ResolvedPresent == detective.resolved \subseteq present

LEMMA NextResolved == ResolvedPresent /\ [Next]_vars => ResolvedPresent'
<1> SUFFICES ASSUME ResolvedPresent, [Next]_vars PROVE ResolvedPresent'
  OBVIOUS
<1>1. ASSUME NEW j \in Job, Serve(j) PROVE ResolvedPresent'
  BY <1>1 DEF Serve, ResolvedPresent
<1>2. CASE Copy
  BY <1>2 DEF Copy, ResolvedPresent
<1>3. ASSUME NEW t \in Target, Ask(t) PROVE ResolvedPresent'
  BY <1>3 DEF Ask, ResolvedPresent, ledger
<1>4. CASE Delete
  BY <1>4 DEF Delete, Waiting, ResolvedPresent
<1>5. CASE Advance
  BY <1>5 DEF Advance, ResolvedPresent
<1>6. ASSUME UNCHANGED <<present, detective>> PROVE ResolvedPresent'
  BY <1>6 DEF ResolvedPresent
<1> QED
  BY <1>1, <1>2, <1>3, <1>4, <1>5, <1>6
  DEF Next, Handle, AlignStep, CatchUpStep, Look, Register, Attempt, Align, Before, Enter, Leave,
      Strike, Arrive, Investigate, Feed, Age, Cool, Lower, vars, ledger

\* A case copied as past its timeout, and still with the peer it was copied of,
\* is past it still, or was renewed by that peer.
StillStale ==
    /\ \A t \in detective.expired : t.stale
    /\ \A t \in detective.left \cup detective.expired :
          t.stale /\ tracker[t.hash] # NoCase /\ tracker[t.hash].sender = t.sender =>
             tracker[t.hash].stale \/ t.hash \in renewed

LEMMA QuietCases ==
    ASSUME StillStale, UNCHANGED <<tracker, detective, renewed>>
    PROVE  StillStale'
BY DEF StillStale

LEMMA NextStale == TypeOK /\ StillStale /\ [Next]_vars => StillStale'
<1> SUFFICES ASSUME TypeOK, StillStale, [Next]_vars PROVE StillStale'
  OBVIOUS
<1>0. /\ tracker \in [Missing -> {NoCase} \cup Case] /\ NoCase \notin Case
      /\ \A t \in detective.left \cup detective.expired : t \in Target /\ t.hash \in Missing
  BY OrphanAssumption DEF TypeOK, Case, Target
<1>1. ASSUME NEW j \in Job, Register(j) PROVE StillStale'
  <2>1. job[j].hash \in Missing /\ detective' = detective
    BY <1>1, JobType DEF Register, JobState
  <2>2. ASSUME NEW t \in detective.left \cup detective.expired,
               t.stale, tracker'[t.hash] # NoCase, tracker'[t.hash].sender = t.sender
        PROVE  tracker'[t.hash].stale \/ t.hash \in renewed'
    <3>1. CASE t.hash = job[j].hash
      <4>1. t.sender = job[j].peer
        BY <1>0, <1>1, <2>1, <2>2, <3>1 DEF Register
      <4>2. Accused(job[j].hash, job[j].peer)
        BY <2>2, <3>1, <4>1 DEF Accused
      <4> QED
        BY <1>1, <3>1, <4>2 DEF Register
    <3>2. CASE t.hash # job[j].hash
      <4>1. tracker'[t.hash] = tracker[t.hash] /\ renewed \subseteq renewed'
        BY <1>0, <1>1, <3>2 DEF Register
      <4> QED
        BY <2>2, <4>1 DEF StillStale
    <3> QED
      BY <3>1, <3>2
  <2> QED
    BY <2>1, <2>2 DEF StillStale
<1>2. ASSUME NEW j \in Job, Feed(j) PROVE StillStale'
  <2>1. detective' = detective /\ renewed \subseteq renewed'
    BY <1>2 DEF Feed
  <2>2. ASSUME NEW t \in detective.left \cup detective.expired,
               t.stale, tracker'[t.hash] # NoCase, tracker'[t.hash].sender = t.sender
        PROVE  tracker'[t.hash].stale \/ t.hash \in renewed'
    <3>1. CASE t.hash \in Of(job[j].peer)
      <4>1. t.sender = job[j].peer
        BY <1>0, <1>2, <2>2, <3>1 DEF Feed
      <4>2. Accused(t.hash, job[j].peer)
        BY <2>2, <4>1 DEF Accused
      <4> QED
        BY <1>2, <3>1, <4>2 DEF Feed
    <3>2. CASE t.hash \notin Of(job[j].peer)
      <4>1. tracker'[t.hash] = tracker[t.hash]
        BY <1>0, <1>2, <3>2 DEF Feed
      <4> QED
        BY <2>1, <2>2, <4>1 DEF StillStale
    <3> QED
      BY <3>1, <3>2
  <2> QED
    BY <2>1, <2>2 DEF StillStale
<1>3. CASE Copy
  BY <1>3 DEF Copy, StillStale
<1>4. ASSUME NEW t \in Target, Ask(t) PROVE StillStale'
  BY <1>4 DEF Ask, Expired, StillStale, ledger
<1>5. CASE Delete
  BY <1>5 DEF Delete, Waiting, StillStale
<1>6. ASSUME NEW h \in Missing, Age(h) PROVE StillStale'
  <2>1. \A g \in Missing : g # h => tracker'[g] = tracker[g]
    BY <1>0, <1>6 DEF Age
  <2>2. tracker'[h].stale
    BY <1>0, <1>6 DEF Age
  <2> QED
    BY <1>0, <1>6, <2>1, <2>2 DEF Age, StillStale
<1>7. ASSUME UNCHANGED <<tracker, detective, renewed>> PROVE StillStale'
  BY <1>7, QuietCases
<1> QED
  BY <1>1, <1>2, <1>3, <1>4, <1>5, <1>6, <1>7
  DEF Next, Handle, AlignStep, CatchUpStep, Look, Attempt, Align, Before, Enter, Serve, Leave,
      Strike, Arrive, Investigate, Cool, Advance, Lower, vars

\* Only Delete closes a case, the other steps open one or renew it; and the
\* copy it closes by is still right about the cases it closes.
LEMMA CaseCloses ==
    TypeOK /\ ResolvedPresent /\ StillStale /\ [Next]_vars =>
        \A h \in Missing : tracker[h] # NoCase /\ tracker'[h] = NoCase =>
             h \in present \/ tracker[h].stale \/ h \in renewed
<1> SUFFICES ASSUME TypeOK, ResolvedPresent, StillStale, [Next]_vars, NEW h \in Missing,
                    tracker[h] # NoCase, tracker'[h] = NoCase
             PROVE  h \in present \/ tracker[h].stale \/ h \in renewed
  OBVIOUS
<1>1. tracker \in [Missing -> {NoCase} \cup Case] /\ NoCase \notin Case
  BY OrphanAssumption DEF TypeOK, Case
<1>2. ASSUME NEW j \in Job, Register(j) PROVE FALSE
  <2>1. job[j] \in JobState
    BY <1>2, JobType DEF Register
  <2>2. [sender |-> job[j].peer, stale |-> FALSE] \in Case
    BY <2>1 DEF JobState, Case
  <2> QED
    BY <1>1, <1>2, <2>2 DEF Register
<1>3. ASSUME NEW j \in Job, Feed(j) PROVE FALSE
  <2>1. job[j] \in JobState
    BY <1>3, JobType DEF Feed
  <2>2. [sender |-> job[j].peer, stale |-> FALSE] \in Case
    BY <2>1 DEF JobState, Case
  <2> QED
    BY <1>1, <1>3, <2>2 DEF Feed
<1>4. ASSUME NEW g \in Missing, Age(g) PROVE FALSE
  <2>1. tracker[g] \in Case
    BY <1>1, <1>4 DEF Age
  <2>2. [sender |-> tracker[g].sender, stale |-> TRUE] \in Case
    BY <2>1 DEF Case
  <2> QED
    BY <1>1, <1>4, <2>2 DEF Age
<1>5. CASE Delete
  <2>1. Closed(h)
    BY <1>5 DEF Delete
  <2>2. CASE h \in detective.resolved
    BY <2>2 DEF ResolvedPresent
  <2>3. CASE \E t \in detective.expired : t.hash = h /\ tracker[h].sender = t.sender
    BY <2>3 DEF StillStale
  <2> QED
    BY <2>1, <2>2, <2>3 DEF Closed
<1>6. ASSUME UNCHANGED tracker PROVE FALSE
  BY <1>6
<1> QED
  BY <1>2, <1>3, <1>4, <1>5, <1>6
  DEF Next, Handle, AlignStep, CatchUpStep, Look, Attempt, Align, Before, Enter, Serve, Leave,
      Strike, Arrive, Investigate, Copy, Ask, Cool, Advance, Lower, vars

\* investigationRoutine decides on a copy taken without the lock.  Of the cases whose
\* parent is still missing it drops only those past their timeout at that moment, but
\* for those renewed since by the peer accused, which its comparison of senders misses.
THEOREM FreshCasesAreKept == Spec => FreshCaseKept
<1>1. Init => ResolvedPresent /\ StillStale
  BY DEF Init, Waiting, ResolvedPresent, StillStale
<1>2. Spec => []ResolvedPresent
  BY <1>1, NextResolved, PTL DEF Spec
<1>3. Spec => []StillStale
  BY <1>1, TypeCorrect, NextStale, PTL DEF Spec
<1>4. TypeOK /\ ResolvedPresent /\ StillStale /\ [Next]_vars =>
        [\A h \in Missing : tracker[h] # NoCase /\ tracker'[h] = NoCase =>
             h \in present \/ tracker[h].stale \/ h \in renewed]_vars
  BY CaseCloses
<1> QED
  BY <1>2, <1>3, <1>4, TypeCorrect, PTL DEF Spec, FreshCaseKept
=============================================================================
