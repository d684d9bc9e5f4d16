--------------------------- MODULE PeerGateProofs ---------------------------
(***************************************************************************)
(* Proofs about PeerGate, for every set of peers, addresses and goroutines *)
(* and every penalty limit.                                                *)
(***************************************************************************)
EXTENDS PeerGate, TLAPS

---------------------------------------------------------------------------
\* The inductive invariant.

\* A gate holds or waits for the lock only inside a method, and takes it a
\* second time only for a check it still has to make.
GateInv ==
    /\ \A i \in Gate :
          /\ holds[i] > 0 \/ i \in sleeping => attempt[i] # Idle /\ attempt[i].pc = "in"
          /\ attempt[i] # Idle /\ attempt[i].stage = "Up" => attempt[i].pc = "call"
          /\ i \in sleeping /\ holds[i] = 1 => attempt[i].checks # <<>>
          /\ holds[i] = 2 => attempt[i].checks # <<>> /\ i \notin sleeping
    /\ sleeping # {} => queue # {}

\* A punishment names a peer, and bans an address only if there is one.
TaskInv ==
    \A w \in Writer : task[w] # Idle =>
        /\ task[w].pc \in {"tally", "conns", "banip", "banpeer", "close"} => task[w].peer \in Peer
        /\ task[w].pc = "banip" => Home[task[w].peer] \in Ip

Shape == TypeOK /\ GateInv /\ TaskInv

\* Past its peer check the last gate keeps the lock, so no ban intervenes; a
\* connection it let through is marked when one does.
LetThrough(i) ==
    /\ attempt[i].stage = "Secured" => attempt[i].checks # <<"peer">>
    /\ attempt[i].stage = "Secured" /\ attempt[i].pc = "call" => attempt[i].checks = <<"peer", "addr">>
    /\ attempt[i].stage = "Secured" /\ attempt[i].checks # <<"peer", "addr">> =>
          holds[i] > 0 /\ attempt[i].peer \notin bannedPeers
    /\ attempt[i].stage = "Up" /\ ~attempt[i].late =>
          /\ attempt[i].peer \notin bannedPeers
          /\ isolationMode = Strict => attempt[i].peer \in staticPeers
UpInv == \A i \in Gate : attempt[i] # Idle => LetThrough(i)

---------------------------------------------------------------------------
\* Sequences of checks and movements of goroutines.

Asks == {<<>>, <<"peer">>, <<"addr">>, <<"peer", "addr">>}

LEMMA AsksApart ==
    /\ <<"peer">> # <<>> /\ <<"addr">> # <<>> /\ <<"peer", "addr">> # <<>>
    /\ <<"peer">> # <<"addr">> /\ <<"peer", "addr">> # <<"peer">> /\ <<"peer", "addr">> # <<"addr">>
<1>1. Len(<<>>) = 0 /\ Len(<<"peer">>) = 1 /\ Len(<<"addr">>) = 1 /\ Len(<<"peer", "addr">>) = 2
  OBVIOUS
<1>2. <<"peer">>[1] = "peer" /\ <<"addr">>[1] = "addr"
  OBVIOUS
<1> QED
  BY <1>1, <1>2

LEMMA AsksTail ==
    /\ Tail(<<"peer">>) = <<>> /\ Tail(<<"addr">>) = <<>> /\ Tail(<<"peer", "addr">>) = <<"addr">>
    /\ Head(<<"peer", "addr">>) = "peer"
  OBVIOUS

LEMMA CallType ==
    ASSUME NEW p \in Peer, NEW stage \in {"PeerDial", "AddrDial", "Accept", "Secured"}
    PROVE  Call(p, stage) \in Attempt /\ Call(p, stage) # Idle
<1>1. Checks(stage) \in Asks
  BY DEF Checks, Asks
<1>2. \A c \in Asks : [peer |-> p, stage |-> stage, pc |-> "call", checks |-> c, late |-> FALSE] \in Attempt
  BY DEF Attempt, Asks
<1>3. Call(p, stage) \in Attempt
  BY <1>1, <1>2 DEF Call
<1> QED
  BY <1>3, IdleAssumption

LEMMA TaskMove ==
    ASSUME TypeOK, NEW w \in Writer, task[w] # Idle
    PROVE  /\ task[w] \in Task
           /\ Done(w) => /\ task' \in [Writer -> Task \cup {Idle}]
                         /\ \A v \in Writer : task'[v] = IF v = w THEN Idle ELSE task[v]
           /\ \A pc \in Locked \cup {"tally", "conns", "close", "forget", "list", "part"} : Goto(w, pc) =>
                 /\ task' \in [Writer -> Task \cup {Idle}]
                 /\ task'[w] # Idle /\ task'[w].pc = pc
                 /\ task'[w].peer = task[w].peer /\ task'[w].op = task[w].op /\ task'[w].want = task[w].want
                 /\ \A v \in Writer \ {w} : task'[v] = task[v]
<1>1. task[w] \in Task
  BY DEF TypeOK
<1>2. \A pc \in Locked \cup {"tally", "conns", "close", "forget", "list", "part"} :
         [task[w] EXCEPT !.pc = pc] \in Task
  BY <1>1 DEF Task
<1> QED
  BY <1>1, <1>2, IdleAssumption DEF TypeOK, Done, Goto, Task

LEMMA AttemptMove ==
    ASSUME TypeOK, NEW i \in Gate, NEW a \in Attempt \cup {Idle}, attempt' = [attempt EXCEPT ![i] = a]
    PROVE  /\ attempt' \in [Gate -> Attempt \cup {Idle}]
           /\ attempt'[i] = a /\ \A j \in Gate \ {i} : attempt'[j] = attempt[j]
BY DEF TypeOK

LEMMA AttemptTyped ==
    ASSUME TypeOK, NEW i \in Gate, attempt[i] # Idle
    PROVE  /\ attempt[i] \in Attempt /\ attempt[i].peer \in Peer
           /\ [attempt[i] EXCEPT !.pc = "in"] \in Attempt /\ [attempt[i] EXCEPT !.pc = "in"] # Idle
           /\ [attempt[i] EXCEPT !.late = TRUE] \in Attempt /\ [attempt[i] EXCEPT !.late = TRUE] # Idle
           /\ After(i) \in Attempt /\ After(i) # Idle
           /\ attempt[i].checks \in Asks
           /\ attempt[i].checks # <<>> => /\ [attempt[i] EXCEPT !.checks = Tail(@)] \in Attempt
                                         /\ [attempt[i] EXCEPT !.checks = Tail(@)] # Idle
<1>1. attempt[i] \in Attempt
  BY DEF TypeOK
<1>2. attempt[i].peer \in Peer /\ attempt[i].checks \in Asks
  BY <1>1 DEF Attempt, Asks
<1>3. [attempt[i] EXCEPT !.pc = "in"] \in Attempt /\ [attempt[i] EXCEPT !.late = TRUE] \in Attempt
  BY <1>1 DEF Attempt
<1>4. [attempt[i] EXCEPT !.stage = "Up", !.pc = "call"] \in Attempt
  BY <1>1 DEF Attempt
<1>5. After(i) \in Attempt
  BY <1>2, <1>4, CallType DEF After
<1>6. attempt[i].checks # <<>> => [attempt[i] EXCEPT !.checks = Tail(@)] \in Attempt
  <2> SUFFICES ASSUME attempt[i].checks # <<>> PROVE [attempt[i] EXCEPT !.checks = Tail(@)] \in Attempt
    OBVIOUS
  <2>1. Tail(attempt[i].checks) \in Asks
    BY <1>2, AsksTail DEF Asks
  <2>2. \A c \in Asks : [attempt[i] EXCEPT !.checks = c] \in Attempt
    BY <1>1 DEF Attempt, Asks
  <2> QED
    BY <2>1, <2>2
<1> QED
  BY <1>1, <1>2, <1>3, <1>5, <1>6, IdleAssumption

\* What a write does to the goroutines that were about to connect.
LEMMA OvertakeType ==
    ASSUME TypeOK, NEW S, Overtake(S)
    PROVE  /\ attempt' \in [Gate -> Attempt \cup {Idle}]
           /\ \A i \in Gate :
                 /\ attempt'[i] = Idle <=> attempt[i] = Idle
                 /\ attempt[i] # Idle =>
                       /\ attempt'[i].pc = attempt[i].pc /\ attempt'[i].checks = attempt[i].checks
                       /\ attempt'[i].stage = attempt[i].stage /\ attempt'[i].peer = attempt[i].peer
                       /\ attempt[i].late = TRUE => attempt'[i].late = TRUE
                       /\ attempt[i].stage = "Up" /\ attempt[i].peer \in S => attempt'[i].late = TRUE
                       /\ ~(attempt[i].stage = "Up" /\ attempt[i].peer \in S) => attempt'[i] = attempt[i]
<1>1. \A i \in Gate : attempt'[i] \in Attempt \cup {Idle}
  BY AttemptTyped DEF Overtake, TypeOK
<1>2. attempt' \in [Gate -> Attempt \cup {Idle}]
  BY <1>1 DEF Overtake
<1>3. ASSUME NEW i \in Gate, attempt[i] # Idle
      PROVE  /\ attempt'[i] # Idle
             /\ attempt'[i].pc = attempt[i].pc /\ attempt'[i].checks = attempt[i].checks
             /\ attempt'[i].stage = attempt[i].stage /\ attempt'[i].peer = attempt[i].peer
             /\ attempt[i].late = TRUE => attempt'[i].late = TRUE
             /\ attempt[i].stage = "Up" /\ attempt[i].peer \in S => attempt'[i].late = TRUE
             /\ ~(attempt[i].stage = "Up" /\ attempt[i].peer \in S) => attempt'[i] = attempt[i]
  BY <1>3, AttemptTyped DEF Overtake, Attempt
<1>4. \A i \in Gate : attempt[i] = Idle => attempt'[i] = Idle
  BY DEF Overtake
<1> QED
  BY <1>2, <1>3, <1>4

\* Unlocking leaves a lock no gate has twice and nobody sleeps on.
LEMMA UnlockShape ==
    ASSUME TypeOK, GateInv, NEW w \in Writer, NEW pc, Holds(w, pc), Unlock(w)
    PROVE  /\ holds' \in [Gate -> 0 .. 2] /\ sleeping' = {} /\ queue' \subseteq Writer
           /\ \A i \in Gate : holds'[i] = IF i \in sleeping THEN 1 ELSE 0
BY DEF TypeOK, Holds, Unlock

\* Every write leaves the gates as they should be, if their goroutines are
\* where they were.
LEMMA WriteGates ==
    ASSUME TypeOK, GateInv, NEW w \in Writer, NEW pc, Holds(w, pc), Unlock(w),
           \A i \in Gate : /\ attempt'[i] = Idle <=> attempt[i] = Idle
                           /\ attempt[i] # Idle => /\ attempt'[i].pc = attempt[i].pc
                                                  /\ attempt'[i].stage = attempt[i].stage
    PROVE  GateInv'
<1>1. sleeping' = {} /\ \A i \in Gate : holds'[i] = IF i \in sleeping THEN 1 ELSE 0
  BY UnlockShape
<1>2. ASSUME NEW i \in Gate, holds'[i] > 0 PROVE attempt'[i] # Idle /\ attempt'[i].pc = "in"
  <2>1. i \in sleeping
    BY <1>1, <1>2
  <2>2. attempt[i] # Idle /\ attempt[i].pc = "in"
    BY <2>1 DEF GateInv
  <2> QED
    BY <1>2, <2>2
<1>3. \A i \in Gate : holds'[i] # 2
  BY <1>1
<1>4. ASSUME NEW i \in Gate, attempt'[i] # Idle, attempt'[i].stage = "Up" PROVE attempt'[i].pc = "call"
  BY <1>4 DEF GateInv
<1> QED
  BY <1>1, <1>2, <1>3, <1>4 DEF GateInv

---------------------------------------------------------------------------
\* Types, gates and tasks.

USE DEF lock, bans, settings, disk, swarm

LEMMA ShapeInit == Init => Shape
<1> SUFFICES ASSUME Init PROVE Shape
  OBVIOUS
<1>1. Default \in Setting
  BY DEF Default, Setting, Open, Strict
<1>2. Current = Default /\ file = Default
  BY DEF Init, Current, Default
<1>3. broken \in BOOLEAN
  BY DEF Init
<1>4. TypeOK
  BY <1>1, <1>2, <1>3, LimitAssumption DEF Init, TypeOK
<1>5. GateInv /\ TaskInv
  BY DEF Init, GateInv, TaskInv
<1> QED
  BY <1>4, <1>5 DEF Shape

\* The steps of a gate.
LEMMA GateStepShape ==
    ASSUME Shape, NEW i \in Gate, GateStep(i) PROVE Shape'
<1> USE DEF Shape
<1>1. CASE EnterGate(i)
  <2>1. attempt[i] # Idle /\ holds[i] = 0 /\ i \notin sleeping
    BY <1>1 DEF EnterGate, GateInv, TypeOK
  <2>2. /\ attempt' \in [Gate -> Attempt \cup {Idle}]
        /\ attempt'[i] = [attempt[i] EXCEPT !.pc = "in"] /\ attempt'[i] # Idle
        /\ attempt'[i].pc = "in" /\ attempt'[i].checks = attempt[i].checks
        /\ attempt'[i].stage = attempt[i].stage /\ attempt[i].stage # "Up"
        /\ \A j \in Gate \ {i} : attempt'[j] = attempt[j]
    <3>1. attempt' = [attempt EXCEPT ![i] = [attempt[i] EXCEPT !.pc = "in"]] /\ attempt[i].stage # "Up"
      BY <1>1 DEF EnterGate
    <3>2. /\ [attempt[i] EXCEPT !.pc = "in"].pc = "in" /\ [attempt[i] EXCEPT !.pc = "in"].checks = attempt[i].checks
          /\ [attempt[i] EXCEPT !.pc = "in"].stage = attempt[i].stage
      BY <2>1, AttemptTyped DEF Attempt
    <3> QED
      BY <2>1, <3>1, <3>2, AttemptTyped, AttemptMove
  <2>3. /\ holds' \in [Gate -> 0 .. 2] /\ sleeping' \subseteq Gate
        /\ \/ queue = {} /\ sleeping' = sleeping /\ holds'[i] = 1
           \/ queue # {} /\ sleeping' = sleeping \cup {i} /\ holds'[i] = 0
        /\ \A j \in Gate \ {i} : holds'[j] = holds[j]
    BY <1>1, <2>1 DEF EnterGate, RLock, TypeOK
  <2>4. TypeOK'
    BY <1>1, <2>2, <2>3 DEF EnterGate, TypeOK, Current
  <2>5. GateInv'
    BY <1>1, <2>1, <2>2, <2>3 DEF EnterGate, GateInv
  <2> QED
    BY <1>1, <2>4, <2>5 DEF EnterGate, TaskInv
<1>2. CASE Ask(i)
  <2>1. /\ holds' \in [Gate -> 0 .. 2] /\ sleeping' \subseteq Gate
        /\ \/ queue = {} /\ sleeping' = sleeping /\ holds'[i] = 2
           \/ queue # {} /\ sleeping' = sleeping \cup {i} /\ holds'[i] = 1
        /\ \A j \in Gate \ {i} : holds'[j] = holds[j]
    BY <1>2 DEF Ask, RLock, TypeOK
  <2>2. TypeOK'
    BY <1>2, <2>1 DEF Ask, TypeOK, Current
  <2>3. GateInv'
    BY <1>2, <2>1 DEF Ask, GateInv
  <2> QED
    BY <1>2, <2>2, <2>3 DEF Ask, TaskInv
<1>3. CASE Answer(i)
  <2>1. attempt[i] # Idle /\ attempt[i].pc = "in" /\ attempt[i].checks # <<>> /\ i \notin sleeping
    BY <1>3 DEF Answer, GateInv
  <2>2. /\ attempt' \in [Gate -> Attempt \cup {Idle}]
        /\ \A j \in Gate \ {i} : attempt'[j] = attempt[j]
        /\ holds' \in [Gate -> 0 .. 2] /\ \A j \in Gate \ {i} : holds'[j] = holds[j]
        /\ \/ attempt'[i] = Idle /\ holds'[i] = 0
           \/ attempt'[i] # Idle /\ attempt'[i].pc = "in" /\ attempt'[i].stage = attempt[i].stage /\ holds'[i] = 1
    <3>1. CASE Banned(attempt[i].peer, Head(attempt[i].checks))
      BY <1>3, <3>1, AttemptMove DEF Answer, Release, TypeOK
    <3>2. CASE ~Banned(attempt[i].peer, Head(attempt[i].checks))
      <4>1. attempt' = [attempt EXCEPT ![i] = [attempt[i] EXCEPT !.checks = Tail(@)]]
            /\ holds' = [holds EXCEPT ![i] = 1]
        BY <1>3, <3>2 DEF Answer
      <4>2. [attempt[i] EXCEPT !.checks = Tail(@)] \in Attempt /\ [attempt[i] EXCEPT !.checks = Tail(@)] # Idle
            /\ [attempt[i] EXCEPT !.checks = Tail(@)].pc = "in"
            /\ [attempt[i] EXCEPT !.checks = Tail(@)].stage = attempt[i].stage
        BY <2>1, AttemptTyped DEF Attempt
      <4> QED
        BY <4>1, <4>2, AttemptMove DEF TypeOK
    <3> QED
      BY <3>1, <3>2
  <2>3. TypeOK'
    BY <1>3, <2>2 DEF Answer, TypeOK, Current
  <2>4. GateInv'
    BY <1>3, <2>1, <2>2 DEF Answer, GateInv
  <2> QED
    BY <1>3, <2>3, <2>4 DEF Answer, TaskInv
<1>4. CASE Verdict(i)
  <2>1. i \notin sleeping
    BY <1>4 DEF Verdict, GateInv
  <2>2. /\ attempt' \in [Gate -> Attempt \cup {Idle}]
        /\ \A j \in Gate \ {i} : attempt'[j] = attempt[j]
        /\ holds' \in [Gate -> 0 .. 2] /\ holds'[i] = 0 /\ \A j \in Gate \ {i} : holds'[j] = holds[j]
        /\ attempt'[i] # Idle => attempt'[i].pc = "call"
    <3>1. attempt[i] # Idle /\ attempt' = [attempt EXCEPT ![i] = IF Admits(i) THEN After(i) ELSE Idle]
          /\ holds' = [holds EXCEPT ![i] = 0]
      BY <1>4 DEF Verdict, Release
    <3>2. (IF Admits(i) THEN After(i) ELSE Idle) \in Attempt \cup {Idle}
      BY <3>1, AttemptTyped
    <3>3. After(i).pc = "call"
      BY ZenonT(30), <3>1, AttemptTyped DEF After, Call, Attempt
    <3> QED
      BY <3>1, <3>2, <3>3, AttemptMove DEF TypeOK
  <2>3. TypeOK'
    BY <1>4, <2>2 DEF Verdict, TypeOK, Current
  <2>4. GateInv'
    BY <1>4, <2>1, <2>2 DEF Verdict, GateInv
  <2> QED
    BY <1>4, <2>3, <2>4 DEF Verdict, TaskInv
<1> QED
  BY <1>1, <1>2, <1>3, <1>4 DEF GateStep

\* The steps of a writer that hold the lock.
LEMMA WriteShape ==
    ASSUME Shape, NEW w \in Writer, Write(w) PROVE Shape'
<1> USE DEF Shape
<1>1. CASE BanIP(w)
  <2>1. Holds(w, "banip") /\ task[w] # Idle /\ task[w].pc = "banip" /\ Unlock(w)
    BY <1>1 DEF BanIP, Holds, At
  <2>2. /\ task' \in [Writer -> Task \cup {Idle}] /\ \A v \in Writer \ {w} : task'[v] = task[v]
        /\ task'[w] # Idle /\ task'[w].pc = "banpeer" /\ task'[w].peer = task[w].peer
    BY <1>1, <2>1, TaskMove DEF BanIP, Locked
  <2>3. /\ attempt' \in [Gate -> Attempt \cup {Idle}]
        /\ \A i \in Gate : /\ attempt'[i] = Idle <=> attempt[i] = Idle
                           /\ attempt[i] # Idle => /\ attempt'[i].pc = attempt[i].pc
                                                  /\ attempt'[i].stage = attempt[i].stage
    BY <1>1 DEF BanIP, TypeOK
  <2>4. TypeOK'
    BY <1>1, <2>1, <2>2, <2>3, UnlockShape DEF BanIP, TypeOK, Current, TaskInv
  <2>5. GateInv'
    BY <2>1, <2>3, WriteGates
  <2>6. TaskInv'
    BY <2>1, <2>2 DEF TaskInv
  <2> QED
    BY <2>4, <2>5, <2>6
<1>2. CASE BanPeer(w)
  <2>1. Holds(w, "banpeer") /\ task[w] # Idle /\ task[w].pc = "banpeer" /\ Unlock(w)
    BY <1>2 DEF BanPeer, Holds, At
  <2>2. /\ task' \in [Writer -> Task \cup {Idle}] /\ \A v \in Writer \ {w} : task'[v] = task[v]
        /\ task'[w] # Idle /\ task'[w].pc = "close" /\ task'[w].peer = task[w].peer
    BY <1>2, <2>1, TaskMove DEF BanPeer, Locked
  <2>3. /\ attempt' \in [Gate -> Attempt \cup {Idle}]
        /\ \A i \in Gate : /\ attempt'[i] = Idle <=> attempt[i] = Idle
                           /\ attempt[i] # Idle => /\ attempt'[i].pc = attempt[i].pc
                                                  /\ attempt'[i].stage = attempt[i].stage
    BY <1>2, OvertakeType DEF BanPeer, TypeOK
  <2>4. TypeOK'
    BY <1>2, <2>1, <2>2, <2>3, UnlockShape DEF BanPeer, TypeOK, Current, TaskInv
  <2>5. GateInv'
    BY <2>1, <2>3, WriteGates
  <2>6. TaskInv'
    BY <2>1, <2>2 DEF TaskInv
  <2> QED
    BY <2>4, <2>5, <2>6
<1>3. CASE Clear(w)
  <2>1. Holds(w, "clear") /\ task[w] # Idle /\ task[w].pc = "clear" /\ Unlock(w)
    BY <1>3 DEF Clear, Holds, At
  <2>2. /\ task' \in [Writer -> Task \cup {Idle}] /\ \A v \in Writer \ {w} : task'[v] = task[v]
        /\ task'[w] = Idle \/ (task'[w] # Idle /\ task'[w].pc = "forget" /\ task'[w].peer = task[w].peer)
    BY <1>3, <2>1, TaskMove DEF Clear, Locked
  <2>3. /\ attempt' \in [Gate -> Attempt \cup {Idle}]
        /\ \A i \in Gate : /\ attempt'[i] = Idle <=> attempt[i] = Idle
                           /\ attempt[i] # Idle => /\ attempt'[i].pc = attempt[i].pc
                                                  /\ attempt'[i].stage = attempt[i].stage
    BY <1>3 DEF Clear, TypeOK
  <2>4. TypeOK'
    BY <1>3, <2>1, <2>2, <2>3, UnlockShape DEF Clear, TypeOK, Current, TaskInv
  <2>5. GateInv'
    BY <2>1, <2>3, WriteGates
  <2>6. TaskInv'
    BY <2>1, <2>2 DEF TaskInv
  <2> QED
    BY <2>4, <2>5, <2>6
<1>4. CASE Sweep(w)
  <2>1. Holds(w, "sweep") /\ task[w] # Idle /\ task[w].pc = "sweep" /\ Unlock(w)
    BY <1>4 DEF Sweep, Holds, At
  <2>2. /\ task' \in [Writer -> Task \cup {Idle}] /\ \A v \in Writer \ {w} : task'[v] = task[v]
        /\ task'[w] = Idle
    BY <1>4, <2>1, TaskMove DEF Sweep, Locked
  <2>3. /\ attempt' \in [Gate -> Attempt \cup {Idle}]
        /\ \A i \in Gate : /\ attempt'[i] = Idle <=> attempt[i] = Idle
                           /\ attempt[i] # Idle => /\ attempt'[i].pc = attempt[i].pc
                                                  /\ attempt'[i].stage = attempt[i].stage
    BY <1>4 DEF Sweep, TypeOK
  <2>4. TypeOK'
    BY <1>4, <2>1, <2>2, <2>3, UnlockShape DEF Sweep, TypeOK, Current, TaskInv
  <2>5. GateInv'
    BY <2>1, <2>3, WriteGates
  <2>6. TaskInv'
    BY <2>1, <2>2 DEF TaskInv
  <2> QED
    BY <2>4, <2>5, <2>6
<1>5. CASE SetMode(w)
  <2>1. Holds(w, "set") /\ task[w] # Idle /\ task[w].pc = "set" /\ Unlock(w)
    BY <1>5 DEF SetMode, Holds, At
  <2>2. /\ task' \in [Writer -> Task \cup {Idle}] /\ \A v \in Writer \ {w} : task'[v] = task[v]
        /\ task'[w] # Idle /\ task'[w].pc = "save" /\ task'[w].peer = task[w].peer
    BY <1>5, <2>1, TaskMove DEF SetMode, Locked
  <2>3. /\ attempt' \in [Gate -> Attempt \cup {Idle}]
        /\ \A i \in Gate : /\ attempt'[i] = Idle <=> attempt[i] = Idle
                           /\ attempt[i] # Idle => /\ attempt'[i].pc = attempt[i].pc
                                                  /\ attempt'[i].stage = attempt[i].stage
    BY <1>5, OvertakeType DEF SetMode, TypeOK
  <2>4. TypeOK'
    BY <1>5, <2>1, <2>2, <2>3, UnlockShape, TaskMove DEF SetMode, TypeOK, Current, TaskInv, Task, Setting
  <2>5. GateInv'
    BY <2>1, <2>3, WriteGates
  <2>6. TaskInv'
    BY <2>1, <2>2 DEF TaskInv
  <2> QED
    BY <2>4, <2>5, <2>6
<1>6. CASE SetStatics(w)
  <2>1. Holds(w, "set") /\ task[w] # Idle /\ task[w].pc = "set" /\ Unlock(w)
    BY <1>6 DEF SetStatics, Holds, At
  <2>2. /\ task' \in [Writer -> Task \cup {Idle}] /\ \A v \in Writer \ {w} : task'[v] = task[v]
        /\ task'[w] # Idle /\ task'[w].pc = "save" /\ task'[w].peer = task[w].peer
    BY <1>6, <2>1, TaskMove DEF SetStatics, Locked
  <2>3. /\ attempt' \in [Gate -> Attempt \cup {Idle}]
        /\ \A i \in Gate : /\ attempt'[i] = Idle <=> attempt[i] = Idle
                           /\ attempt[i] # Idle => /\ attempt'[i].pc = attempt[i].pc
                                                  /\ attempt'[i].stage = attempt[i].stage
    BY <1>6, OvertakeType DEF SetStatics, TypeOK
  <2>4. TypeOK'
    BY <1>6, <2>1, <2>2, <2>3, UnlockShape, TaskMove DEF SetStatics, TypeOK, Current, TaskInv, Task, Setting
  <2>5. GateInv'
    BY <2>1, <2>3, WriteGates
  <2>6. TaskInv'
    BY <2>1, <2>2 DEF TaskInv
  <2> QED
    BY <2>4, <2>5, <2>6
<1>7. CASE Save(w)
  <2>1. Holds(w, "save") /\ task[w] # Idle /\ task[w].pc = "save" /\ Unlock(w)
    BY <1>7 DEF Save, Holds, At
  <2>2. /\ task' \in [Writer -> Task \cup {Idle}] /\ \A v \in Writer \ {w} : task'[v] = task[v]
        /\ task'[w] = Idle \/ (task'[w] # Idle /\ task'[w].pc = "list" /\ task'[w].peer = task[w].peer)
    BY <1>7, <2>1, TaskMove DEF Save, Locked, AfterSave
  <2>3. /\ attempt' \in [Gate -> Attempt \cup {Idle}]
        /\ \A i \in Gate : /\ attempt'[i] = Idle <=> attempt[i] = Idle
                           /\ attempt[i] # Idle => /\ attempt'[i].pc = attempt[i].pc
                                                  /\ attempt'[i].stage = attempt[i].stage
    BY <1>7 DEF Save, TypeOK
  <2>4. file' \in Setting
    <3>1. Current \in Setting /\ Default \in Setting /\ file \in Setting
      BY DEF TypeOK, Default, Setting, Open, Strict
    <3> QED
      BY <1>7, <3>1 DEF Save, Saved
  <2>5. broken' \in BOOLEAN
    BY <1>7 DEF Save
  <2>6. Current' \in Setting
    BY <1>7 DEF Save, TypeOK, Current
  <2>7. TypeOK'
    BY <1>7, <2>1, <2>2, <2>3, <2>4, <2>5, <2>6, UnlockShape DEF Save, TypeOK
  <2>8. GateInv'
    BY <2>1, <2>3, WriteGates
  <2>9. TaskInv'
    BY <2>1, <2>2 DEF TaskInv
  <2> QED
    BY <2>7, <2>8, <2>9
<1> QED
  BY <1>1, <1>2, <1>3, <1>4, <1>5, <1>6, <1>7 DEF Write

\* Their other steps.
LEMMA PenaltyType ==
    ASSUME TypeOK, NEW p \in Peer, NEW steps \in 0 .. WarnLimit + 1
    PROVE  Level(Decayed(penalty[p], steps) + 1) \in 0 .. WarnLimit + 1
<1>1. penalty[p] \in 0 .. WarnLimit + 1
  BY DEF TypeOK
<1> QED
  BY <1>1, LimitAssumption DEF Level, Decayed

LEMMA TaskStepShape ==
    ASSUME Shape, NEW w \in Writer, Punish(w) \/ Forget(w) \/ Shun(w) PROVE Shape'
<1> USE DEF Shape
<1>1. ASSUME NEW n \in 0 .. WarnLimit + 1, Tally(w, n)
      PROVE  Shape'
  <2>1. task[w] # Idle /\ task[w].pc = "tally" /\ task[w].peer \in Peer
    BY <1>1 DEF Tally, At, TaskInv
  <2>2. /\ task' \in [Writer -> Task \cup {Idle}] /\ \A v \in Writer \ {w} : task'[v] = task[v]
        /\ task'[w] # Idle /\ task'[w].pc \in {"close", "conns"} /\ task'[w].peer = task[w].peer
    BY <1>1, <2>1, TaskMove DEF Tally
  <2>3. penalty' \in [Peer -> 0 .. WarnLimit + 1]
    BY <1>1, <2>1, PenaltyType DEF Tally, TypeOK
  <2>4. TypeOK'
    BY <1>1, <2>2, <2>3 DEF Tally, TypeOK, Current
  <2>5. GateInv'
    BY <1>1 DEF Tally, GateInv
  <2>6. TaskInv'
    BY <2>1, <2>2 DEF TaskInv
  <2> QED
    BY <2>4, <2>5, <2>6
<1>2. ASSUME Conns(w)
      PROVE  Shape'
  <2>1. task[w] # Idle /\ task[w].pc = "conns" /\ task[w].peer \in Peer
    BY <1>2 DEF Conns, At, TaskInv
  <2>2. /\ task' \in [Writer -> Task \cup {Idle}] /\ \A v \in Writer \ {w} : task'[v] = task[v]
        /\ task'[w] # Idle /\ task'[w].peer = task[w].peer
        /\ (task'[w].pc = "banip" /\ Home[task[w].peer] \in Ip) \/ task'[w].pc = "banpeer"
    BY <1>2, <2>1, TaskMove DEF Conns, Locked
  <2>3. TypeOK'
    BY <1>2, <2>2 DEF Conns, TypeOK, Current
  <2>4. GateInv'
    BY <1>2 DEF Conns, GateInv
  <2>5. TaskInv'
    BY <2>1, <2>2 DEF TaskInv
  <2> QED
    BY <2>3, <2>4, <2>5
<1>3. ASSUME Close(w)
      PROVE  Shape'
  <2>1. task[w] # Idle
    BY <1>3 DEF Close, At
  <2>2. /\ task' \in [Writer -> Task \cup {Idle}] /\ \A v \in Writer \ {w} : task'[v] = task[v]
        /\ task'[w] = Idle
    BY <1>3, <2>1, TaskMove DEF Close
  <2>3. TypeOK'
    BY <1>3, <2>1, <2>2 DEF Close, TypeOK, Current, ClosePeer
  <2>4. GateInv'
    BY <1>3 DEF Close, GateInv
  <2>5. TaskInv'
    BY <1>3, <2>1, <2>2 DEF Close, TaskInv, At
  <2> QED
    BY <2>3, <2>4, <2>5
<1>4. ASSUME Forget(w)
      PROVE  Shape'
  <2>1. task[w] # Idle
    BY <1>4 DEF Forget, At
  <2>2. /\ task' \in [Writer -> Task \cup {Idle}] /\ \A v \in Writer \ {w} : task'[v] = task[v]
        /\ task'[w] = Idle
    BY <1>4, <2>1, TaskMove DEF Forget
  <2>3. TypeOK'
    BY <1>4, <2>1, <2>2, LimitAssumption DEF Forget, TypeOK, Current, ClosePeer
  <2>4. GateInv'
    BY <1>4 DEF Forget, GateInv
  <2>5. TaskInv'
    BY <1>4, <2>1, <2>2 DEF Forget, TaskInv, At
  <2> QED
    BY <2>3, <2>4, <2>5
<1>5. ASSUME ListPeers(w) \/ \E p \in Peer : Part(w, p)
      PROVE  Shape'
  <2>1. task[w] # Idle /\ task[w].pc \in {"list", "part"} /\ task[w] \in Task
    BY <1>5 DEF ListPeers, Part, At, TypeOK
  <2>2. PICK left \in SUBSET Peer : task' = [task EXCEPT ![w] = [task[w] EXCEPT !.pc = "part", !.left = left]]
    <3>1. CASE ListPeers(w)
      BY <3>1 DEF ListPeers, TypeOK
    <3>2. CASE \E p \in Peer : Part(w, p)
      <4>1. PICK p \in Peer : Part(w, p)
        BY <3>2
      <4>2. task' = [task EXCEPT ![w] = [task[w] EXCEPT !.left = @ \ {p}]] /\ task[w].pc = "part"
        BY <4>1 DEF Part, At
      <4>3. [task[w] EXCEPT !.left = @ \ {p}] = [task[w] EXCEPT !.pc = "part", !.left = task[w].left \ {p}]
        BY <2>1, <4>2 DEF Task
      <4>4. task[w].left \ {p} \in SUBSET Peer
        BY <2>1 DEF Task
      <4> QED
        BY <4>2, <4>3, <4>4
    <3> QED
      BY <1>5, <3>1, <3>2
  <2>3. [task[w] EXCEPT !.pc = "part", !.left = left] \in Task /\ [task[w] EXCEPT !.pc = "part", !.left = left].pc = "part"
    BY <2>1 DEF Task
  <2>4. task' \in [Writer -> Task \cup {Idle}] /\ task'[w] # Idle /\ task'[w].pc = "part" /\ \A v \in Writer \ {w} : task'[v] = task[v]
    BY <2>2, <2>3, IdleAssumption DEF TypeOK
  <2>5. overtaken' \subseteq connected' /\ connected' \subseteq Peer
    BY <1>5 DEF ListPeers, Part, ClosePeer, TypeOK
  <2>6. TypeOK'
    BY <1>5, <2>4, <2>5 DEF ListPeers, Part, TypeOK, Current
  <2>7. GateInv'
    BY <1>5 DEF ListPeers, Part, GateInv
  <2>8. TaskInv'
    BY <2>4 DEF TaskInv
  <2> QED
    BY <2>6, <2>7, <2>8
<1>6. ASSUME EndPart(w)
      PROVE  Shape'
  <2>1. task[w] # Idle
    BY <1>6 DEF EndPart, At
  <2>2. /\ task' \in [Writer -> Task \cup {Idle}] /\ \A v \in Writer \ {w} : task'[v] = task[v]
        /\ task'[w] = Idle
    BY <1>6, <2>1, TaskMove DEF EndPart
  <2>3. TypeOK'
    BY <1>6, <2>1, <2>2 DEF EndPart, TypeOK, Current, ClosePeer
  <2>4. GateInv'
    BY <1>6 DEF EndPart, GateInv
  <2>5. TaskInv'
    BY <1>6, <2>1, <2>2 DEF EndPart, TaskInv, At
  <2> QED
    BY <2>3, <2>4, <2>5
<1> QED
  BY <1>1, <1>2, <1>3, <1>4, <1>5, <1>6 DEF Punish, Shun

LEMMA ShapeNext == Shape /\ [Next]_vars => Shape'
<1> SUFFICES ASSUME Shape, [Next]_vars PROVE Shape'
  OBVIOUS
<1> USE DEF Shape
<1>1. ASSUME NEW i \in Gate, NEW p \in Peer, NEW s \in {"PeerDial", "Accept"}, Begin(i, p, s)
      PROVE  Shape'
  <2>1. holds[i] = 0 /\ i \notin sleeping
    BY <1>1 DEF Begin, GateInv, TypeOK
  <2>2. /\ attempt' \in [Gate -> Attempt \cup {Idle}] /\ \A j \in Gate \ {i} : attempt'[j] = attempt[j]
        /\ attempt'[i] = Call(p, s)
    BY <1>1, CallType, AttemptMove DEF Begin
  <2>3. TypeOK' /\ GateInv'
    BY <1>1, <2>1, <2>2 DEF Begin, TypeOK, Current, GateInv, Call
  <2> QED
    BY <1>1, <2>3 DEF Begin, TaskInv
<1>2. ASSUME NEW i \in Gate, Connect(i) \/ Abandon(i)
      PROVE  Shape'
  <2>1. attempt[i] # Idle /\ attempt' = [attempt EXCEPT ![i] = Idle] /\ attempt[i].peer \in Peer
    BY <1>2, AttemptTyped DEF Connect, Abandon
  <2>2. attempt' \in [Gate -> Attempt \cup {Idle}] /\ \A j \in Gate \ {i} : attempt'[j] = attempt[j]
    BY <2>1, AttemptMove
  <2>3. holds[i] = 0 /\ i \notin sleeping
    BY <1>2, <2>1 DEF Connect, Abandon, GateInv, TypeOK
  <2>4. TypeOK'
    BY <1>2, <2>1, <2>2 DEF Connect, Abandon, TypeOK, Current
  <2>5. GateInv'
    BY <1>2, <2>2, <2>3 DEF Connect, Abandon, GateInv
  <2> QED
    BY <1>2, <2>4, <2>5 DEF Connect, Abandon, TaskInv
<1>3. ASSUME NEW p \in Peer, Leave(p) PROVE Shape'
  BY <1>3 DEF Leave, ClosePeer, TypeOK, Current, GateInv, TaskInv
<1>4. ASSUME NEW w \in Writer, NEW op, NEW pc, NEW p, NEW want, Start(w, op, pc, p, want),
             [op |-> op, pc |-> pc, peer |-> p, want |-> want, left |-> {}] \in Task,
             pc \in {"tally", "clear", "sweep", "set"}, pc = "tally" => p \in Peer
      PROVE  Shape'
  <2>1. /\ task' \in [Writer -> Task \cup {Idle}] /\ \A v \in Writer \ {w} : task'[v] = task[v]
        /\ task'[w] = [op |-> op, pc |-> pc, peer |-> p, want |-> want, left |-> {}]
    BY <1>4 DEF Start, TypeOK
  <2>2. task'[w].pc = pc /\ task'[w].peer = p
    BY <2>1
  <2>3. TypeOK' /\ GateInv'
    BY <1>4, <2>1 DEF Start, TypeOK, Current, GateInv
  <2>4. TaskInv'
    BY <1>4, <2>1, <2>2 DEF TaskInv
  <2> QED
    BY <2>3, <2>4
<1>5. ASSUME NEW w \in Writer, (\E p \in Peer : StartPunish(w, p)) \/ StartClear(w) \/ StartSweep(w) \/ StartSet(w)
      PROVE  Shape'
  <2> USE DEF Task, Setting, Default, Locked, Open, Strict
  <2>1. ASSUME NEW p \in Peer, StartPunish(w, p) PROVE Shape'
    BY <1>4, <2>1 DEF StartPunish
  <2>2. CASE StartClear(w)
    BY <1>4, <2>2 DEF StartClear
  <2>3. CASE StartSweep(w)
    BY <1>4, <2>3 DEF StartSweep
  <2>4. CASE StartSet(w)
    <3>1. ASSUME NEW mode \in {Open, Strict}, Start(w, "mode", "set", Nobody, [Default EXCEPT !.mode = mode])
          PROVE  Shape'
      BY <1>4, <3>1
    <3>2. ASSUME NEW peers \in SUBSET Peer, Start(w, "statics", "set", Nobody, [Default EXCEPT !.peers = peers])
          PROVE  Shape'
      BY <1>4, <3>2
    <3> QED
      BY <2>4, <3>1, <3>2 DEF StartSet
  <2> QED
    BY <1>5, <2>1, <2>2, <2>3, <2>4
<1>6. ASSUME NEW w \in Writer, Lock(w) PROVE Shape'
  BY <1>6 DEF Lock, TypeOK, Current, GateInv, TaskInv
<1>7. CASE Expire
  BY <1>7 DEF Expire, TypeOK, Current, GateInv, TaskInv
<1>8. CASE Restart
  <2>1. file' \in Setting
    BY <1>8 DEF Restart, TypeOK, Setting, Default, Open, Strict
  <2>2. Current' \in Setting
    BY <1>8, <2>1 DEF Restart, Current, Setting
  <2>3. broken' \in BOOLEAN
    BY <1>8 DEF Restart
  <2>4. TypeOK'
    BY <1>8, <2>1, <2>2, <2>3, LimitAssumption DEF Restart, TypeOK
  <2> QED
    BY <1>8, <2>4 DEF Restart, GateInv, TaskInv
<1>9. CASE UNCHANGED vars
  BY <1>9 DEF vars, TypeOK, Current, GateInv, TaskInv
<1> QED
  BY <1>1, <1>2, <1>3, <1>5, <1>6, <1>7, <1>8, <1>9, GateStepShape, WriteShape, TaskStepShape DEF Next

\* Types of the bans, the settings, the lock and the goroutines (ban_manager.go,
\* punishPeer): no penalty below zero, no address banned that does not exist.
THEOREM TypeCorrect == Spec => []TypeOK
<1>1. Spec => []Shape
  BY ShapeInit, ShapeNext, PTL DEF Spec
<1> QED
  BY <1>1, PTL DEF Shape

\* The lock of the BanManager gets stuck in one way only: a writer arrives
\* while a gate is between its two read locks (ban_manager.go:253-338).
THEOREM LockStuckOneWay == Spec => []OnlySqueezeBlocks
<1>1. Shape => OnlySqueezeBlocks
  <2> SUFFICES ASSUME Shape, queue # {}, ~Squeezed, NEW i \in Gate, holds[i] # 0
               PROVE  i \notin sleeping /\ holds[i] > 0 /\ attempt[i] # Idle /\ attempt[i].pc = "in"
    BY DEF OnlySqueezeBlocks, Shape, GateInv
  <2>1. holds[i] \in {1, 2}
    BY DEF Shape, TypeOK
  <2>2. i \notin sleeping
    BY <2>1 DEF Squeezed, Shape, GateInv
  <2> QED
    BY <2>1, <2>2 DEF Shape, GateInv
<1>2. Spec => []Shape
  BY ShapeInit, ShapeNext, PTL DEF Spec
<1> QED
  BY <1>1, <1>2, PTL

---------------------------------------------------------------------------
\* Settings and connections.

WriterStep(w) ==
    (\E p \in Peer : StartPunish(w, p)) \/ StartClear(w) \/ StartSweep(w) \/ StartSet(w)
    \/ Lock(w) \/ Write(w) \/ Punish(w) \/ Forget(w) \/ Shun(w)

\* A step of one writer moves no other.
LEMMA OthersStay ==
    ASSUME TypeOK, NEW w \in Writer, WriterStep(w), NEW v \in Writer, v # w
    PROVE  task'[v] = task[v]
<1>1. CASE (\E p \in Peer : StartPunish(w, p)) \/ StartClear(w) \/ StartSweep(w) \/ StartSet(w)
  BY <1>1 DEF StartPunish, StartClear, StartSweep, StartSet, Start, TypeOK
<1>2. CASE Lock(w)
  BY <1>2 DEF Lock
<1>3. CASE Write(w)
  BY <1>3 DEF Write, BanIP, BanPeer, Clear, Sweep, SetMode, SetStatics, Save, AfterSave, Goto, Done, TypeOK
<1>4. CASE Punish(w) \/ Forget(w) \/ Shun(w)
  BY <1>4 DEF Punish, Tally, Conns, Close, Forget, Shun, ListPeers, Part, EndPart, Goto, Done, TypeOK
<1> QED
  BY <1>1, <1>2, <1>3, <1>4 DEF WriterStep

LEMMA SettingsNext == Shape /\ SettingsSaved /\ [Next]_vars => SettingsSaved'
<1> SUFFICES ASSUME Shape, SettingsSaved, [Next]_vars PROVE SettingsSaved'
  OBVIOUS
<1> USE DEF Shape
<1>1. ASSUME NEW w \in Writer, Save(w) PROVE SettingsSaved'
  BY <1>1 DEF Save, Saved, SettingsSaved, Current
<1>2. ASSUME NEW w \in Writer, SetMode(w) \/ SetStatics(w) PROVE SettingsSaved'
  <2>1. task[w] # Idle /\ Goto(w, "save")
    BY <1>2 DEF SetMode, SetStatics, Holds, At
  <2>2. task'[w] # Idle /\ task'[w].pc = "save"
    BY <2>1, TaskMove DEF Locked
  <2> QED
    BY <2>2 DEF SettingsSaved, At
<1>3. ASSUME NEW w \in Writer, WriterStep(w), ~Save(w), ~SetMode(w), ~SetStatics(w) PROVE SettingsSaved'
  <2>1. UNCHANGED <<disk, isolationMode, staticPeers>>
    BY <1>3 DEF WriterStep, StartPunish, StartClear, StartSweep, StartSet, Start, Lock, Write, BanIP, BanPeer, Clear,
                Sweep, Punish, Tally, Conns, Close, Forget, Shun, ListPeers, Part, EndPart
  <2>2. At(w, "save") => At(w, "save")'
    BY <1>3 DEF At, WriterStep, StartPunish, StartClear, StartSweep, StartSet, Start, Lock, Write, BanIP, BanPeer, Clear,
                Sweep, Holds, Punish, Tally, Conns, Close, Forget, Shun, ListPeers, Part, EndPart
  <2>3. \A v \in Writer : At(v, "save") => At(v, "save")'
    BY <1>3, <2>2, OthersStay DEF At
  <2> QED
    BY <2>1, <2>3 DEF SettingsSaved, Current
<1>4. CASE Restart
  BY <1>4 DEF Restart, SettingsSaved, Current, TypeOK, Setting, Default
<1>5. ASSUME UNCHANGED <<disk, settings, task>> PROVE SettingsSaved'
  BY <1>5 DEF SettingsSaved, Current, At
<1>6. ASSUME NEW i \in Gate, (\E p \in Peer, s \in {"PeerDial", "Accept"} : Begin(i, p, s)) \/ GateStep(i) \/ Connect(i) \/ Abandon(i)
      PROVE  SettingsSaved'
  BY <1>5, <1>6 DEF Begin, GateStep, EnterGate, Ask, Answer, Verdict, Connect, Abandon
<1>7. CASE (\E p \in Peer : Leave(p)) \/ Expire \/ UNCHANGED vars
  BY <1>5, <1>7 DEF Leave, Expire, vars
<1> QED
  BY <1>1, <1>2, <1>3, <1>4, <1>6, <1>7 DEF Next, WriterStep

\* static_peers.json falls behind the settings only while a request that will
\* save is between its two locks (ban_manager.go:94-135), restarts included, or
\* after a save that failed, until the next one.
THEOREM FileFollowsSettings == Spec => []SettingsSaved
<1>1. Init => Shape /\ SettingsSaved
  BY ShapeInit DEF Init, SettingsSaved, Current, Default
<1>2. Shape /\ SettingsSaved /\ [Next]_vars => (Shape /\ SettingsSaved)'
  BY ShapeNext, SettingsNext
<1> QED
  BY <1>1, <1>2, PTL DEF Spec

\* The gates that move keep what the others rely on.
LEMMA GateMoves ==
    ASSUME Shape, UpInv, NEW i \in Gate, GateStep(i) PROVE UpInv'
<1> USE DEF Shape
<1>1. UNCHANGED <<bannedPeers, isolationMode, staticPeers>>
  BY DEF GateStep, EnterGate, Ask, Answer, Verdict
<1>2. ASSUME NEW j \in Gate, j # i, attempt'[j] = attempt[j], holds'[j] = holds[j], attempt'[j] # Idle
      PROVE  LetThrough(j)'
  BY <1>1, <1>2 DEF UpInv, LetThrough
<1>3. \A j \in Gate \ {i} : attempt'[j] = attempt[j] /\ holds'[j] = holds[j]
  BY DEF GateStep, EnterGate, Ask, Answer, Verdict, RLock, Release, TypeOK
<1>4. ASSUME attempt'[i] # Idle PROVE LetThrough(i)'
  <2>1. CASE EnterGate(i)
    <3>1. attempt' = [attempt EXCEPT ![i] = [attempt[i] EXCEPT !.pc = "in"]] /\ attempt[i] # Idle
          /\ attempt[i].pc = "call" /\ attempt[i].stage # "Up"
      BY <2>1 DEF EnterGate
    <3>2. attempt'[i] = [attempt[i] EXCEPT !.pc = "in"] /\ attempt[i] \in Attempt
      BY <3>1, AttemptTyped DEF TypeOK
    <3>3. /\ attempt'[i].stage = attempt[i].stage /\ attempt'[i].checks = attempt[i].checks
          /\ attempt'[i].pc = "in"
      BY <3>2 DEF Attempt
    <3> QED
      BY <3>1, <3>3, AsksApart DEF UpInv, LetThrough
  <2>2. CASE Ask(i)
    <3>1. attempt' = attempt /\ holds[i] = 1 /\ holds'[i] > 0
      BY <2>2 DEF Ask, RLock, TypeOK
    <3> QED
      BY <1>1, <1>4, <3>1 DEF UpInv, LetThrough
  <2>3. CASE Answer(i)
    <3>1. attempt[i] # Idle /\ attempt[i].pc = "in" /\ attempt[i].checks # <<>>
      BY <2>3 DEF Answer, GateInv
    <3>2. attempt' = [attempt EXCEPT ![i] = [attempt[i] EXCEPT !.checks = Tail(@)]] /\ holds' = [holds EXCEPT ![i] = 1]
          /\ ~Banned(attempt[i].peer, Head(attempt[i].checks))
      BY <1>4, <2>3, AttemptMove DEF Answer
    <3>3. attempt[i] \in Attempt /\ attempt'[i] = [attempt[i] EXCEPT !.checks = Tail(@)] /\ holds'[i] = 1
          /\ attempt[i].checks \in Asks
      BY <3>1, <3>2, AttemptTyped DEF TypeOK
    <3>4. /\ attempt'[i].stage = attempt[i].stage /\ attempt'[i].checks = Tail(attempt[i].checks)
          /\ attempt'[i].pc = "in" /\ attempt'[i].peer = attempt[i].peer
      BY <3>1, <3>3 DEF Attempt
    <3>5. attempt[i].stage # "Up"
      BY <3>1 DEF GateInv
    <3>6. CASE attempt[i].checks = <<"peer", "addr">>
      <4>1. attempt'[i].checks = <<"addr">> /\ attempt[i].peer \notin bannedPeers
        BY <3>2, <3>4, <3>6, AsksTail DEF Banned, IsPeerBanned
      <4> QED
        BY <1>1, <3>3, <3>4, <3>5, <4>1, AsksApart DEF LetThrough
    <3>7. CASE attempt[i].checks # <<"peer", "addr">>
      <4>1. attempt'[i].checks = <<>>
        BY <3>1, <3>3, <3>4, <3>7, AsksTail DEF Asks
      <4>2. attempt[i].stage = "Secured" => attempt[i].peer \notin bannedPeers
        BY <3>1, <3>7 DEF UpInv, LetThrough
      <4> QED
        BY <1>1, <3>3, <3>4, <3>5, <4>1, <4>2, AsksApart DEF LetThrough
    <3> QED
      BY <3>6, <3>7
  <2>4. CASE Verdict(i)
    <3>1. attempt[i] # Idle /\ attempt[i].checks = <<>> /\ attempt[i].pc = "in" /\ Admits(i)
          /\ attempt'[i] = After(i)
      BY <1>4, <2>4 DEF Verdict, TypeOK
    <3>2. CASE attempt[i].stage = "PeerDial"
      BY <3>1, <3>2 DEF After, Call, LetThrough
    <3>3. CASE attempt[i].stage = "Secured"
      <4>1. attempt[i].peer \notin bannedPeers
        BY <3>1, <3>3, AsksApart DEF UpInv, LetThrough
      <4>2. isolationMode = Strict => attempt[i].peer \in staticPeers
        BY <3>1, <3>3 DEF Admits
      <4>3. attempt'[i] = [attempt[i] EXCEPT !.stage = "Up", !.pc = "call"] /\ attempt[i] \in Attempt
        BY <3>1, <3>3, AttemptTyped DEF After
      <4>4. attempt'[i].stage = "Up" /\ attempt'[i].peer = attempt[i].peer
        BY <4>3 DEF Attempt
      <4> QED
        BY <1>1, <4>1, <4>2, <4>4 DEF LetThrough
    <3>4. CASE attempt[i].stage \notin {"PeerDial", "Secured"}
      <4>1. attempt'[i] = Call(attempt[i].peer, "Secured")
        BY <3>1, <3>4 DEF After
      <4>2. attempt'[i].stage = "Secured" /\ attempt'[i].checks = <<"peer", "addr">>
        BY <4>1 DEF Call, Checks
      <4> QED
        BY <4>2, AsksApart DEF LetThrough
    <3> QED
      BY <3>2, <3>3, <3>4
  <2> QED
    BY <2>1, <2>2, <2>3, <2>4 DEF GateStep
<1> QED
  BY <1>2, <1>3, <1>4 DEF UpInv

\* A write finds no gate past its peer check, and marks what it makes stale.
LEMMA WriteMoves ==
    ASSUME Shape, UpInv, NEW w \in Writer, Write(w) PROVE UpInv'
<1> USE DEF Shape
<1>1. \A i \in Gate : holds[i] = 0
  BY DEF Write, BanIP, BanPeer, Clear, Sweep, SetMode, SetStatics, Save, Holds
<1>2. ASSUME NEW i \in Gate, attempt[i] # Idle, attempt[i].stage = "Secured"
      PROVE  attempt[i].checks = <<"peer", "addr">>
  BY <1>1, <1>2 DEF UpInv, LetThrough
<1>3. ASSUME bannedPeers' \subseteq bannedPeers, UNCHANGED <<isolationMode, staticPeers, attempt>>
      PROVE  UpInv'
  BY <1>2, <1>3 DEF UpInv, LetThrough
<1>4. ASSUME NEW S, Overtake(S),
             \A i \in Gate : attempt[i] # Idle /\ attempt[i].stage = "Up" /\ ~attempt[i].late
                               /\ attempt[i].peer \notin S =>
                 /\ attempt[i].peer \notin bannedPeers'
                 /\ isolationMode' = Strict => attempt[i].peer \in staticPeers'
      PROVE  UpInv'
  <2> SUFFICES ASSUME NEW i \in Gate, attempt'[i] # Idle PROVE LetThrough(i)'
    BY DEF UpInv
  <2>1. attempt[i] # Idle
    BY <1>4, OvertakeType
  <2>2. CASE attempt[i].stage = "Up" /\ attempt[i].peer \in S
    <3>1. attempt'[i].stage = "Up" /\ attempt'[i].late = TRUE
      BY <1>4, <2>1, <2>2, OvertakeType
    <3> QED
      BY <3>1 DEF LetThrough
  <2>3. CASE ~(attempt[i].stage = "Up" /\ attempt[i].peer \in S)
    <3>1. attempt'[i] = attempt[i]
      BY <1>4, <2>1, <2>3, OvertakeType
    <3> QED
      BY <1>2, <1>4, <2>1, <2>3, <3>1, AsksApart DEF LetThrough
  <2> QED
    BY <2>2, <2>3
<1>5. CASE BanIP(w) \/ Clear(w) \/ Sweep(w) \/ Save(w)
  BY <1>3, <1>5 DEF BanIP, Clear, Sweep, Save
<1>6. CASE BanPeer(w)
  BY <1>4, <1>6 DEF BanPeer, UpInv, LetThrough
<1>7. CASE SetMode(w)
  BY <1>4, <1>7, AttemptTyped DEF SetMode, UpInv, LetThrough
<1>8. CASE SetStatics(w)
  BY <1>4, <1>8 DEF SetStatics, UpInv, LetThrough
<1> QED
  BY <1>5, <1>6, <1>7, <1>8 DEF Write

LEMMA UpNext == Shape /\ UpInv /\ [Next]_vars => UpInv'
<1> SUFFICES ASSUME Shape, UpInv, [Next]_vars PROVE UpInv'
  OBVIOUS
<1> USE DEF Shape
<1>1. ASSUME NEW i \in Gate, NEW p \in Peer, NEW s \in {"PeerDial", "Accept"}, Begin(i, p, s)
      PROVE  UpInv'
  <2>1. attempt'[i] = Call(p, s) /\ \A j \in Gate \ {i} : attempt'[j] = attempt[j]
    BY <1>1 DEF Begin, TypeOK
  <2>2. attempt'[i].stage = s
    BY <2>1 DEF Call
  <2> QED
    BY <1>1, <2>1, <2>2 DEF Begin, UpInv, LetThrough
<1>2. ASSUME NEW i \in Gate, Connect(i) \/ Abandon(i)
      PROVE  UpInv'
  <2>1. attempt'[i] = Idle /\ \A j \in Gate \ {i} : attempt'[j] = attempt[j]
    BY <1>2 DEF Connect, Abandon, TypeOK
  <2> QED
    BY <1>2, <2>1 DEF Connect, Abandon, UpInv, LetThrough
<1>3. ASSUME UNCHANGED <<holds, isolationMode, staticPeers, attempt>>, bannedPeers' \subseteq bannedPeers
      PROVE  UpInv'
  BY <1>3 DEF UpInv, LetThrough
<1>4. ASSUME NEW w \in Writer, WriterStep(w), ~Write(w)
      PROVE  UpInv'
  BY <1>3, <1>4 DEF WriterStep, StartPunish, StartClear, StartSweep, StartSet, Start, Lock, Punish, Tally,
                    Conns, Close, Forget, Shun, ListPeers, Part, EndPart
<1>5. CASE (\E p \in Peer : Leave(p)) \/ Expire \/ UNCHANGED vars
  BY <1>3, <1>5 DEF Leave, Expire, vars
<1>6. CASE Restart
  BY <1>6 DEF Restart, UpInv
<1> QED
  BY <1>1, <1>2, <1>4, <1>5, <1>6, GateMoves, WriteMoves DEF Next, WriterStep

\* What a step does to the connections that nothing excuses.
LEMMA ConnectionsNext ==
    ASSUME Shape, UpInv, [Next]_vars, NEW p \in connected' \ overtaken'
    PROVE  \/ p \in connected \ overtaken
           \/ /\ UNCHANGED <<bans, settings, task>>
              /\ p \notin bannedPeers
              /\ isolationMode = Strict => p \in staticPeers
<1>1. ASSUME NEW i \in Gate, Connect(i), p \notin connected \ overtaken
      PROVE  UNCHANGED <<bans, settings, task>> /\ p \notin bannedPeers /\ (isolationMode = Strict => p \in staticPeers)
  <2>1. p = attempt[i].peer /\ attempt[i] # Idle /\ attempt[i].stage = "Up" /\ ~attempt[i].late
    BY <1>1 DEF Connect
  <2> QED
    BY <1>1, <2>1 DEF Connect, UpInv, LetThrough
<1>2. ASSUME connected' \subseteq connected, connected' \ overtaken' \subseteq connected \ overtaken
      PROVE  p \in connected \ overtaken
  BY <1>2
<1>3. ASSUME UNCHANGED swarm PROVE p \in connected \ overtaken
  BY <1>3
<1>4. ASSUME NEW i \in Gate, (\E q \in Peer, s \in {"PeerDial", "Accept"} : Begin(i, q, s)) \/ GateStep(i) \/ Abandon(i)
      PROVE  p \in connected \ overtaken
  BY <1>3, <1>4 DEF Begin, GateStep, EnterGate, Ask, Answer, Verdict, Abandon
<1>5. ASSUME NEW q, ClosePeer(q) PROVE p \in connected \ overtaken
  BY <1>5 DEF ClosePeer
<1>6. ASSUME NEW w \in Writer, WriterStep(w) PROVE p \in connected \ overtaken
  <2>1. CASE (\E q \in Peer : StartPunish(w, q)) \/ StartClear(w) \/ StartSweep(w) \/ StartSet(w) \/ Lock(w)
    BY <1>3, <2>1 DEF StartPunish, StartClear, StartSweep, StartSet, Start, Lock
  <2>2. CASE Write(w)
    BY <2>2 DEF Write, BanIP, BanPeer, Clear, Sweep, SetMode, SetStatics, Save
  <2>3. CASE Punish(w) \/ Forget(w) \/ Shun(w)
    BY <1>5, <2>3 DEF Punish, Tally, Conns, Close, Forget, Shun, ListPeers, Part, EndPart
  <2> QED
    BY <1>6, <2>1, <2>2, <2>3 DEF WriterStep
<1>7. CASE (\E q \in Peer : Leave(q)) \/ Expire \/ Restart \/ UNCHANGED vars
  BY <1>3, <1>5, <1>7 DEF Leave, Expire, Restart, vars
<1> QED
  BY <1>1, <1>4, <1>6, <1>7 DEF Next, WriterStep

LEMMA BannedNext == Shape /\ UpInv /\ BannedStayOut /\ [Next]_vars => BannedStayOut'
<1> SUFFICES ASSUME Shape, UpInv, BannedStayOut, [Next]_vars,
                    NEW p \in connected' \ overtaken', p \in bannedPeers'
             PROVE  \E v \in Writer : At(v, "close")' /\ task'[v].peer = p
  BY DEF BannedStayOut, IsPeerBanned
<1> USE DEF Shape
<1>1. ASSUME NEW w \in Writer, BanPeer(w), p = task[w].peer
      PROVE  \E v \in Writer : At(v, "close")' /\ task'[v].peer = p
  <2>1. task[w] # Idle /\ Goto(w, "close")
    BY <1>1 DEF BanPeer, Holds, At
  <2>2. task'[w] # Idle /\ task'[w].pc = "close" /\ task'[w].peer = p
    BY <1>1, <2>1, TaskMove
  <2> QED
    BY <2>2 DEF At
<1>2. CASE \A w \in Writer : ~(BanPeer(w) /\ p = task[w].peer)
  <2>1. p \in bannedPeers
    <3>1. ASSUME NEW w \in Writer, WriterStep(w) PROVE p \in bannedPeers
      BY <1>2, <3>1 DEF WriterStep, StartPunish, StartClear, StartSweep, StartSet, Start, Lock, Write, BanIP, BanPeer, Clear,
              Sweep, SetMode, SetStatics, Save, Punish, Tally, Conns, Close, Forget, Shun, ListPeers, Part, EndPart
    <3>2. CASE \E i \in Gate : (\E q \in Peer, s \in {"PeerDial", "Accept"} : Begin(i, q, s)) \/ GateStep(i) \/ Connect(i) \/ Abandon(i)
      BY <3>2 DEF Begin, GateStep, EnterGate, Ask, Answer, Verdict, Connect, Abandon
    <3>3. CASE (\E q \in Peer : Leave(q)) \/ Expire \/ Restart \/ UNCHANGED vars
      BY <3>3 DEF Leave, Expire, Restart, vars
    <3> QED
      BY <3>1, <3>2, <3>3 DEF Next, WriterStep
  <2>2. p \in connected \ overtaken
    BY <2>1, ConnectionsNext
  <2>3. PICK v \in Writer : At(v, "close") /\ task[v].peer = p
    BY <2>1, <2>2 DEF BannedStayOut, IsPeerBanned
  <2>4. task'[v] = task[v]
    <3>1. CASE WriterStep(v)
      <4>1. ~Close(v)
        BY <2>3 DEF Close, ClosePeer
      <4> QED
        BY <2>3, <3>1, <4>1 DEF At, WriterStep, StartPunish, StartClear, StartSweep, StartSet, Start, Lock, Write, BanIP,
              BanPeer, Clear, Sweep, SetMode, SetStatics, Save, Holds, Punish, Tally, Conns, Forget, Shun, ListPeers, Part, EndPart
    <3>2. ASSUME NEW w \in Writer \ {v}, WriterStep(w) PROVE task'[v] = task[v]
      BY <3>2, OthersStay
    <3>3. CASE \E i \in Gate : (\E q \in Peer, s \in {"PeerDial", "Accept"} : Begin(i, q, s)) \/ GateStep(i) \/ Connect(i) \/ Abandon(i)
      BY <3>3 DEF Begin, GateStep, EnterGate, Ask, Answer, Verdict, Connect, Abandon
    <3>4. CASE (\E q \in Peer : Leave(q)) \/ Expire \/ Restart \/ UNCHANGED vars
      BY <3>4 DEF Leave, Expire, Restart, vars
    <3> QED
      BY <3>1, <3>2, <3>3, <3>4 DEF Next, WriterStep
  <2> QED
    BY <2>3, <2>4 DEF At
<1> QED
  BY <1>1, <1>2

LEMMA IsolatedNext == Shape /\ UpInv /\ IsolatedStayOut /\ [Next]_vars => IsolatedStayOut'
<1> SUFFICES ASSUME Shape, UpInv, IsolatedStayOut, [Next]_vars, isolationMode' = Strict,
                    NEW p \in connected' \ overtaken', p \notin staticPeers'
             PROVE  \E v \in Writer : Parting(v, p)'
  BY DEF IsolatedStayOut
<1> USE DEF Shape
<1>1. ASSUME NEW w \in Writer, SetMode(w)
      PROVE  \E v \in Writer : Parting(v, p)'
  <2>1. task[w] # Idle /\ Goto(w, "save") /\ task[w].op = "mode" /\ task[w].want.mode = Strict
    BY <1>1 DEF SetMode, Holds, At
  <2>2. task'[w] # Idle /\ task'[w].pc = "save" /\ task'[w].op = "mode" /\ task'[w].want.mode = Strict
    BY <2>1, TaskMove DEF Locked
  <2> QED
    BY <2>2 DEF Parting
<1>2. CASE \A w \in Writer : ~SetMode(w)
  <2>1. isolationMode = Strict /\ ~Restart
    <3>1. ~Restart
      BY DEF Restart
    <3>2. ASSUME NEW w \in Writer, WriterStep(w) PROVE isolationMode = Strict
      BY <1>2, <3>2 DEF WriterStep, StartPunish, StartClear, StartSweep, StartSet, Start, Lock, Write, BanIP, BanPeer, Clear,
              Sweep, SetStatics, Save, Punish, Tally, Conns, Close, Forget, Shun, ListPeers, Part, EndPart
    <3>3. CASE \E i \in Gate : (\E q \in Peer, s \in {"PeerDial", "Accept"} : Begin(i, q, s)) \/ GateStep(i) \/ Connect(i) \/ Abandon(i)
      BY <3>1, <3>3 DEF Begin, GateStep, EnterGate, Ask, Answer, Verdict, Connect, Abandon
    <3>4. CASE (\E q \in Peer : Leave(q)) \/ Expire \/ UNCHANGED vars
      BY <3>1, <3>4 DEF Leave, Expire, vars
    <3> QED
      BY <3>1, <3>2, <3>3, <3>4 DEF Next, WriterStep
  <2>2. p \in connected \ overtaken
    BY <2>1, ConnectionsNext
  <2>3. p \notin staticPeers
    <3>1. ASSUME NEW w \in Writer, SetStatics(w) PROVE p \notin staticPeers
      BY <2>1, <2>2, <3>1 DEF SetStatics
    <3>2. ASSUME NEW w \in Writer, WriterStep(w), ~SetStatics(w) PROVE p \notin staticPeers
      BY <1>2, <3>2 DEF WriterStep, StartPunish, StartClear, StartSweep, StartSet, Start, Lock, Write, BanIP, BanPeer, Clear,
              Sweep, Save, Punish, Tally, Conns, Close, Forget, Shun, ListPeers, Part, EndPart
    <3>3. CASE \E i \in Gate : (\E q \in Peer, s \in {"PeerDial", "Accept"} : Begin(i, q, s)) \/ GateStep(i) \/ Connect(i) \/ Abandon(i)
      BY <3>3 DEF Begin, GateStep, EnterGate, Ask, Answer, Verdict, Connect, Abandon
    <3>4. CASE (\E q \in Peer : Leave(q)) \/ Expire \/ UNCHANGED vars
      BY <3>4 DEF Leave, Expire, vars
    <3> QED
      BY <2>1, <3>1, <3>2, <3>3, <3>4 DEF Next, WriterStep
  <2>4. PICK v \in Writer : Parting(v, p)
    BY <2>1, <2>2, <2>3 DEF IsolatedStayOut
  <2>5. task[v] # Idle /\ task[v].op = "mode" /\ task[v].want.mode = Strict /\ task[v].pc \in {"save", "list", "part"}
        /\ task[v] \in Task
    BY <2>4 DEF Parting, TypeOK
  <2>6. ASSUME task'[v] = task[v] PROVE Parting(v, p)'
    BY <2>4, <2>6 DEF Parting
  <2>7. CASE Save(v)
    <3>1. Goto(v, "list")
      BY <2>5, <2>7 DEF Save, AfterSave
    <3>2. task'[v] # Idle /\ task'[v].pc = "list" /\ task'[v].op = "mode" /\ task'[v].want.mode = Strict
      BY <2>5, <3>1, TaskMove
    <3> QED
      BY <3>2 DEF Parting
  <2>8. CASE ListPeers(v)
    <3>1. task'[v] = [task[v] EXCEPT !.pc = "part", !.left = connected]
      BY <2>8 DEF ListPeers, TypeOK
    <3>2. task'[v] \in Task /\ task'[v].pc = "part" /\ task'[v].left = connected /\ task'[v].op = "mode" /\ task'[v].want.mode = Strict
      BY <2>5, <3>1 DEF Task, TypeOK
    <3>3. task'[v] # Idle
      BY <3>2, IdleAssumption
    <3> QED
      BY <2>2, <3>2, <3>3 DEF Parting
  <2>9. ASSUME NEW q \in Peer, Part(v, q) PROVE Parting(v, p)'
    <3>1. q # p
      BY <2>2, <2>3, <2>9 DEF Part, ClosePeer
    <3>2. task'[v] = [task[v] EXCEPT !.left = @ \ {q}] /\ task[v].pc = "part"
      BY <2>9 DEF Part, At, TypeOK
    <3>3. task'[v] \in Task /\ task'[v].pc = "part" /\ task'[v].left = task[v].left \ {q} /\ task'[v].op = "mode" /\ task'[v].want.mode = Strict
      BY <2>5, <3>2 DEF Task
    <3>4. p \in task[v].left
      BY <2>4, <3>2 DEF Parting
    <3>5. task'[v] # Idle
      BY <3>3, IdleAssumption
    <3> QED
      BY <3>1, <3>3, <3>4, <3>5 DEF Parting
  <2>10. ASSUME WriterStep(v), ~Save(v), ~ListPeers(v), \A q \in Peer : ~Part(v, q)
         PROVE  task'[v] = task[v]
    <3>1. ~EndPart(v)
      BY <2>4 DEF EndPart, At, Parting
    <3> QED
      BY <2>5, <2>10, <3>1 DEF At, WriterStep, StartPunish, StartClear, StartSweep, StartSet, Start, Lock, Write, BanIP,
              BanPeer, Clear, Sweep, SetMode, SetStatics, Holds, Punish, Tally, Conns, Close, Forget, Shun
  <2>11. ASSUME NEW w \in Writer \ {v}, WriterStep(w) PROVE task'[v] = task[v]
    BY <2>11, OthersStay
  <2>12. CASE \E i \in Gate : (\E q \in Peer, s \in {"PeerDial", "Accept"} : Begin(i, q, s)) \/ GateStep(i) \/ Connect(i) \/ Abandon(i)
    BY <2>6, <2>12 DEF Begin, GateStep, EnterGate, Ask, Answer, Verdict, Connect, Abandon
  <2>13. CASE (\E q \in Peer : Leave(q)) \/ Expire \/ UNCHANGED vars
    BY <2>6, <2>13 DEF Leave, Expire, vars
  <2> QED
    BY <2>1, <2>6, <2>7, <2>8, <2>9, <2>10, <2>11, <2>12, <2>13 DEF Next, WriterStep
<1> QED
  BY <1>1, <1>2

LEMMA StartsRight == Init => Shape /\ UpInv /\ BannedStayOut /\ IsolatedStayOut
BY ShapeInit DEF Init, UpInv, BannedStayOut, IsolatedStayOut

\* punishPeer bans before it closes, and the gates read the bans under the lock
\* (network_manager.go:484-499, ban_manager.go:253-323): only a connection
\* admitted before the ban and added after the close is left.
THEOREM BansHold == Spec => []BannedStayOut
<1>1. Shape /\ UpInv /\ BannedStayOut /\ [Next]_vars => (Shape /\ UpInv /\ BannedStayOut)'
  BY ShapeNext, UpNext, BannedNext
<1> QED
  BY <1>1, StartsRight, PTL DEF Spec

\* The same for strict isolation (rpc_server.go:7438-7452).
THEOREM IsolationHolds == Spec => []IsolatedStayOut
<1>1. Shape /\ UpInv /\ IsolatedStayOut /\ [Next]_vars => (Shape /\ UpInv /\ IsolatedStayOut)'
  BY ShapeNext, UpNext, IsolatedNext
<1> QED
  BY <1>1, StartsRight, PTL DEF Spec

=============================================================================
