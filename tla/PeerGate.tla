------------------------------ MODULE PeerGate ------------------------------
(***************************************************************************)
(* Bans, static peers and isolation modes (ban_manager.go), the gates they *)
(* hold before a connection, and the operations that change them: the      *)
(* punishment of a peer (network_manager.go), the amnesty after a deep     *)
(* reorganisation (sync_engine.go), the operator's requests                *)
(* (rpc_server.go).                                                        *)
(*                                                                         *)
(* bm.mu is Go's RWMutex: a reader that finds a writer waiting sleeps, a   *)
(* writer waits until the readers before it have left, and one that        *)
(* unlocks admits every sleeping reader first.  The gates take the read    *)
(* lock twice, so the lock is modelled call by call.  A ban runs or does   *)
(* not: how long the levels last is not distinguished, nor are penalties   *)
(* beyond the first that bans, nor the time that forgives some of them,    *)
(* nor the modes 1 and 2, which are alike to the gates.                    *)
(***************************************************************************)
EXTENDS Integers, Sequences

CONSTANTS
    Peer, Ip, NoIp,
    Home,       \* the address a peer connects from; NoIp when ToIP fails
    Loopback,   \* addresses BanIP leaves alone
    Gate,       \* goroutines that dial or accept
    Writer,     \* goroutines that punish, pardon, sweep or set
    Failure,    \* how a save may fail: "open" leaves the file, "write" cuts it short
    WarnLimit,  \* penalties that only disconnect (6)
    Nobody,     \* no peer
    Idle        \* no goroutine

VARIABLES
    bannedPeers, bannedIPs,           \* BanManager
    isolationMode, staticPeers, file, \* its settings and static_peers.json
    holds, sleeping, queue,           \* bm.mu: read locks per gate, readers and writers waiting
    penalty,                          \* PeerPenalties
    connected,                        \* the swarm
    attempt, task,                    \* the goroutines
    broken,                           \* history variable: the last save failed
    overtaken                         \* peers whose connection a ban or setting came too late for

lock == <<holds, sleeping, queue>>
bans == <<bannedPeers, bannedIPs>>
settings == <<isolationMode, staticPeers>>
disk == <<file, broken>>
swarm == <<connected, overtaken>>
vars == <<bans, settings, disk, lock, penalty, swarm, attempt, task>>

Strict == 3
Open == 1
Default == [mode |-> Open, peers |-> {}]
Current == [mode |-> isolationMode, peers |-> staticPeers]

Locked == {"banip", "banpeer", "clear", "sweep", "set", "save"}

Attempt == [peer : Peer, stage : {"PeerDial", "AddrDial", "Accept", "Secured", "Up"},
            pc : {"call", "in"}, checks : {<<>>, <<"peer">>, <<"addr">>, <<"peer", "addr">>},
            late : BOOLEAN]
Setting == [mode : {Open, Strict}, peers : SUBSET Peer]
Task == [op : {"punish", "amnesty", "pardon", "gc", "mode", "statics"},
         pc : Locked \cup {"tally", "conns", "close", "forget", "list", "part"},
         peer : Peer \cup {Nobody}, want : Setting, left : SUBSET Peer]

ASSUME HomeAssumption == Home \in [Peer -> Ip \cup {NoIp}] /\ NoIp \notin Ip
ASSUME LimitAssumption == WarnLimit \in Nat
ASSUME NobodyAssumption == Nobody \notin Peer
ASSUME IdleAssumption == Idle \notin Attempt \cup Task

Init ==
    /\ bannedPeers = {} /\ bannedIPs = {}
    /\ isolationMode = Open /\ staticPeers = {} /\ file = Default /\ broken = FALSE
    /\ holds = [i \in Gate |-> 0] /\ sleeping = {} /\ queue = {}
    /\ penalty = [p \in Peer |-> 0]
    /\ connected = {} /\ overtaken = {}
    /\ attempt = [i \in Gate |-> Idle] /\ task = [w \in Writer |-> Idle]

---------------------------------------------------------------------------
\* The gates.

Checks_NoPeer(stage) ==
    CASE stage = "PeerDial" -> <<"peer">> [] stage = "Accept" -> <<"addr">>
      [] stage = "AddrDial" -> <<"peer", "addr">> [] OTHER -> <<"addr">>
Checks(stage) ==
    CASE stage = "PeerDial" -> <<"peer">> [] stage = "Accept" -> <<"addr">>
      [] OTHER -> <<"peer", "addr">>

Call(p, stage) == [peer |-> p, stage |-> stage, pc |-> "call", checks |-> Checks(stage), late |-> FALSE]

\* RLock by a gate that holds n read locks.
RLock(i, n) ==
    IF queue = {}
    THEN holds' = [holds EXCEPT ![i] = n + 1] /\ sleeping' = sleeping
    ELSE sleeping' = sleeping \cup {i} /\ holds' = holds

\* The deferred RUnlock of the outer read lock.
Release_OnlyInner(i) == holds' = [holds EXCEPT ![i] = 1]
Release(i) == holds' = [holds EXCEPT ![i] = 0]

Begin(i, p, stage) ==
    /\ attempt[i] = Idle /\ stage \in {"PeerDial", "Accept"}
    /\ attempt' = [attempt EXCEPT ![i] = Call(p, stage)]
    /\ UNCHANGED <<bans, settings, disk, lock, penalty, swarm, task>>

EnterGate(i) ==
    /\ attempt[i] # Idle /\ attempt[i].pc = "call" /\ attempt[i].stage # "Up"
    /\ RLock(i, 0)
    /\ attempt' = [attempt EXCEPT ![i].pc = "in"]
    /\ UNCHANGED <<bans, settings, disk, queue, penalty, swarm, task>>

\* IsPeerBanned and IsBanned lock again.
Ask(i) ==
    /\ attempt[i] # Idle /\ attempt[i].checks # <<>> /\ holds[i] = 1 /\ i \notin sleeping
    /\ RLock(i, 1)
    /\ UNCHANGED <<bans, settings, disk, queue, penalty, swarm, attempt, task>>

IsPeerBanned(p) == p \in bannedPeers
IsAddrBanned(p) == Home[p] \in bannedIPs
Banned(p, check) == IF check = "peer" THEN IsPeerBanned(p) ELSE IsAddrBanned(p)

Answer(i) ==
    /\ holds[i] = 2
    /\ IF Banned(attempt[i].peer, Head(attempt[i].checks))
       THEN attempt' = [attempt EXCEPT ![i] = Idle] /\ Release(i)
       ELSE attempt' = [attempt EXCEPT ![i].checks = Tail(@)] /\ holds' = [holds EXCEPT ![i] = 1]
    /\ UNCHANGED <<bans, settings, disk, sleeping, queue, penalty, swarm, task>>

IsStaticIP(p) == Home[p] \in Ip /\ \E s \in staticPeers : Home[s] = Home[p]
Admits(i) ==
    LET p == attempt[i].peer IN
    isolationMode = Strict =>
        CASE attempt[i].stage \in {"PeerDial", "AddrDial"} -> p \in staticPeers
          [] attempt[i].stage = "Accept" -> IsStaticIP(p)
          [] OTHER -> p \in staticPeers /\ IsStaticIP(p)

After(i) ==
    CASE attempt[i].stage = "PeerDial" -> Call(attempt[i].peer, "AddrDial")
      [] attempt[i].stage = "Secured" -> [attempt[i] EXCEPT !.stage = "Up", !.pc = "call"]
      [] OTHER -> Call(attempt[i].peer, "Secured")

Verdict(i) ==
    /\ attempt[i] # Idle /\ attempt[i].pc = "in" /\ attempt[i].checks = <<>> /\ holds[i] = 1
    /\ attempt' = [attempt EXCEPT ![i] = IF Admits(i) THEN After(i) ELSE Idle]
    /\ Release(i)
    /\ UNCHANGED <<bans, settings, disk, sleeping, queue, penalty, swarm, task>>

\* The swarm adds the connection.
Connect(i) ==
    /\ attempt[i] # Idle /\ attempt[i].stage = "Up"
    /\ connected' = connected \cup {attempt[i].peer}
    /\ overtaken' = IF attempt[i].late THEN overtaken \cup {attempt[i].peer} ELSE overtaken
    /\ attempt' = [attempt EXCEPT ![i] = Idle]
    /\ UNCHANGED <<bans, settings, disk, lock, penalty, task>>

\* A dial or a handshake fails between two gates.
Abandon(i) ==
    /\ attempt[i] # Idle /\ attempt[i].pc = "call"
    /\ attempt' = [attempt EXCEPT ![i] = Idle]
    /\ UNCHANGED <<bans, settings, disk, lock, penalty, swarm, task>>

\* ClosePeer; the peer may also leave by itself.
ClosePeer(p) ==
    /\ connected' = connected \ {p}
    /\ overtaken' = overtaken \ {p}

Leave(p) ==
    /\ p \in connected
    /\ ClosePeer(p)
    /\ UNCHANGED <<bans, settings, disk, lock, penalty, attempt, task>>

---------------------------------------------------------------------------
\* The writers.

Start(w, op, pc, p, want) ==
    /\ task[w] = Idle
    /\ task' = [task EXCEPT ![w] = [op |-> op, pc |-> pc, peer |-> p, want |-> want, left |-> {}]]
    /\ UNCHANGED <<bans, settings, disk, lock, penalty, swarm, attempt>>

StartPunish(w, p) == Start(w, "punish", "tally", p, Default)
StartClear(w) == \E op \in {"amnesty", "pardon"} : Start(w, op, "clear", Nobody, Default)
StartSweep(w) == Start(w, "gc", "sweep", Nobody, Default)
StartSet(w) ==
    \/ \E mode \in {Open, Strict} : Start(w, "mode", "set", Nobody, [Default EXCEPT !.mode = mode])
    \/ \E peers \in SUBSET Peer : Start(w, "statics", "set", Nobody, [Default EXCEPT !.peers = peers])

At(w, pc) == task[w] # Idle /\ task[w].pc = pc
Goto(w, pc) == task' = [task EXCEPT ![w].pc = pc]
Done(w) == task' = [task EXCEPT ![w] = Idle]

\* Lock: queued until the readers before it have left.
Lock(w) ==
    /\ task[w] # Idle /\ task[w].pc \in Locked /\ w \notin queue
    /\ queue' = queue \cup {w}
    /\ UNCHANGED <<bans, settings, disk, holds, sleeping, penalty, swarm, attempt, task>>

Holds(w, pc) == w \in queue /\ At(w, pc) /\ \A i \in Gate : holds[i] = 0

Unlock(w) ==
    /\ queue' = queue \ {w}
    /\ holds' = [i \in Gate |-> IF i \in sleeping THEN 1 ELSE holds[i]]
    /\ sleeping' = {}

\* What a write makes out of date: connections admitted and not yet up.
Overtake(peers) ==
    attempt' = [i \in Gate |-> IF attempt[i] # Idle /\ attempt[i].stage = "Up" /\ attempt[i].peer \in peers
                               THEN [attempt[i] EXCEPT !.late = TRUE] ELSE attempt[i]]

---------------------------------------------------------------------------
\* punishPeer.  The time since the connection forgives some penalties first.

Decayed_Below(n, steps) == n - steps
Decayed(n, steps) == IF steps > n THEN 0 ELSE n - steps
Level(n) == IF n > WarnLimit THEN WarnLimit + 1 ELSE n

Tally(w, steps) ==
    LET p == task[w].peer IN
    /\ At(w, "tally")
    /\ penalty' = [penalty EXCEPT ![p] = Level(Decayed(@, steps) + 1)]
    /\ Goto(w, IF penalty'[p] <= WarnLimit THEN "close" ELSE "conns")
    /\ UNCHANGED <<bans, settings, disk, lock, swarm, attempt>>

Conns(w) ==
    /\ At(w, "conns")
    /\ Goto(w, IF task[w].peer \in connected /\ Home[task[w].peer] \in Ip \ Loopback THEN "banip" ELSE "banpeer")
    /\ UNCHANGED <<bans, settings, disk, lock, penalty, swarm, attempt>>

BanIP(w) ==
    /\ Holds(w, "banip")
    /\ bannedIPs' = bannedIPs \cup {Home[task[w].peer]}
    /\ Goto(w, "banpeer")
    /\ Unlock(w)
    /\ UNCHANGED <<bannedPeers, settings, disk, penalty, swarm, attempt>>

BanPeer(w) ==
    /\ Holds(w, "banpeer")
    /\ bannedPeers' = bannedPeers \cup {task[w].peer}
    /\ Overtake({task[w].peer})
    /\ Goto(w, "close")
    /\ Unlock(w)
    /\ UNCHANGED <<bannedIPs, settings, disk, penalty, swarm>>

Close(w) ==
    /\ At(w, "close")
    /\ ClosePeer(task[w].peer)
    /\ Done(w)
    /\ UNCHANGED <<bans, settings, disk, lock, penalty, attempt>>

---------------------------------------------------------------------------
\* ClearAllBans: by the catch-up, which then forgets the penalties, or by the
\* operator's requests, which do not.

Clear(w) ==
    /\ Holds(w, "clear")
    /\ bannedPeers' = {} /\ bannedIPs' = {}
    /\ IF task[w].op = "amnesty" THEN Goto(w, "forget") ELSE Done(w)
    /\ Unlock(w)
    /\ UNCHANGED <<settings, disk, penalty, swarm, attempt>>

Forget(w) ==
    /\ At(w, "forget")
    /\ penalty' = [p \in Peer |-> 0]
    /\ Done(w)
    /\ UNCHANGED <<bans, settings, disk, lock, swarm, attempt>>

\* gcLoop takes the lock too; the rows it deletes ban nobody any more.
Sweep(w) ==
    /\ Holds(w, "sweep")
    /\ Done(w)
    /\ Unlock(w)
    /\ UNCHANGED <<bans, settings, disk, penalty, swarm, attempt>>

---------------------------------------------------------------------------
\* SetIsolationMode and SetStaticPeers: set, unlock, lock, save.

SetMode(w) ==
    /\ Holds(w, "set") /\ task[w].op = "mode"
    /\ isolationMode' = task[w].want.mode
    /\ Overtake(IF task[w].want.mode = Strict THEN Peer \ staticPeers ELSE {})
    /\ Goto(w, "save")
    /\ Unlock(w)
    /\ UNCHANGED <<bans, staticPeers, disk, penalty, swarm>>

\* A peer taken off the list keeps its connection.
SetStatics(w) ==
    /\ Holds(w, "set") /\ task[w].op = "statics"
    /\ staticPeers' = task[w].want.peers
    /\ LET dropped == IF isolationMode = Strict THEN staticPeers \ task[w].want.peers ELSE {} IN
       Overtake(dropped) /\ overtaken' = overtaken \cup (connected \cap dropped)
    /\ Goto(w, "save")
    /\ Unlock(w)
    /\ UNCHANGED <<bans, isolationMode, disk, penalty, connected>>

\* saveStaticPeers writes what is set by now, whoever set it.
Saved_Wanted(w) == task[w].want
Saved(w) == Current

AfterSave_NoClosing(w) == Done(w)
AfterSave(w) == IF task[w].op = "mode" /\ task[w].want.mode = Strict THEN Goto(w, "list") ELSE Done(w)

\* os.WriteFile's error is dropped.  A file cut short does not parse.
Save(w) ==
    /\ Holds(w, "save")
    /\ \/ file' = Saved(w) /\ broken' = FALSE
       \/ (\E f \in Failure : file' = IF f = "open" THEN file ELSE Default) /\ broken' = TRUE
    /\ AfterSave(w)
    /\ Unlock(w)
    /\ UNCHANGED <<bans, settings, penalty, swarm, attempt>>

\* handleSetIsolationMode then closes the peers that are not static.
ListPeers(w) ==
    /\ At(w, "list")
    /\ task' = [task EXCEPT ![w].pc = "part", ![w].left = connected]
    /\ UNCHANGED <<bans, settings, disk, lock, penalty, swarm, attempt>>

\* IsStaticPeerID reads the list without the lock: while it is being replaced
\* the answer may be anything.
Replacing == \E v \in Writer : Holds(v, "set") /\ task[v].op = "statics"

Part(w, p) ==
    /\ At(w, "part") /\ p \in task[w].left
    /\ task' = [task EXCEPT ![w].left = @ \ {p}]
    /\ \/ /\ p \notin staticPeers \/ Replacing
          /\ ClosePeer(p)
       \/ /\ p \in staticPeers \/ Replacing
          /\ overtaken' = IF p \in connected \ staticPeers THEN overtaken \cup {p} ELSE overtaken
          /\ connected' = connected
    /\ UNCHANGED <<bans, settings, disk, lock, penalty, attempt>>

EndPart(w) ==
    /\ At(w, "part") /\ task[w].left = {}
    /\ Done(w)
    /\ UNCHANGED <<bans, settings, disk, lock, penalty, swarm, attempt>>

---------------------------------------------------------------------------
\* Around it: bans run out, the node restarts.

Expire ==
    /\ \/ (\E p \in bannedPeers : bannedPeers' = bannedPeers \ {p}) /\ bannedIPs' = bannedIPs
       \/ (\E a \in bannedIPs : bannedIPs' = bannedIPs \ {a}) /\ bannedPeers' = bannedPeers
    /\ UNCHANGED <<settings, disk, lock, penalty, swarm, attempt, task>>

\* A file half written is not parsed and the defaults are taken.
Torn == \E w \in Writer : Holds(w, "save")

Restart ==
    /\ file' = file \/ (Torn /\ file' \in {Default, Current})
    /\ broken' = FALSE
    /\ isolationMode' = file'.mode /\ staticPeers' = file'.peers
    /\ bannedPeers' = {} /\ bannedIPs' = {}
    /\ holds' = [i \in Gate |-> 0] /\ sleeping' = {} /\ queue' = {}
    /\ penalty' = [p \in Peer |-> 0]
    /\ connected' = {} /\ overtaken' = {}
    /\ attempt' = [i \in Gate |-> Idle] /\ task' = [w \in Writer |-> Idle]

---------------------------------------------------------------------------
GateStep(i) == EnterGate(i) \/ Ask(i) \/ Answer(i) \/ Verdict(i)
Write(w) == BanIP(w) \/ BanPeer(w) \/ Clear(w) \/ Sweep(w) \/ SetMode(w) \/ SetStatics(w) \/ Save(w)
Punish(w) == (\E n \in 0 .. WarnLimit + 1 : Tally(w, n)) \/ Conns(w) \/ Close(w)
Shun(w) == ListPeers(w) \/ (\E p \in Peer : Part(w, p)) \/ EndPart(w)

Next ==
    \/ \E i \in Gate : (\E p \in Peer, s \in {"PeerDial", "Accept"} : Begin(i, p, s)) \/ GateStep(i) \/ Connect(i) \/ Abandon(i)
    \/ \E p \in Peer : Leave(p)
    \/ \E w \in Writer : (\E p \in Peer : StartPunish(w, p)) \/ StartClear(w) \/ StartSweep(w) \/ StartSet(w)
    \/ \E w \in Writer : Lock(w) \/ Write(w) \/ Punish(w) \/ Forget(w) \/ Shun(w)
    \/ Expire \/ Restart

Spec == Init /\ [][Next]_vars

---------------------------------------------------------------------------
\* Properties.

TypeOK ==
    /\ bannedPeers \subseteq Peer /\ bannedIPs \subseteq Ip
    /\ Current \in Setting /\ file \in Setting /\ broken \in BOOLEAN
    /\ holds \in [Gate -> 0 .. 2] /\ sleeping \subseteq Gate /\ queue \subseteq Writer
    /\ penalty \in [Peer -> 0 .. WarnLimit + 1]
    /\ connected \subseteq Peer /\ overtaken \subseteq connected
    /\ attempt \in [Gate -> Attempt \cup {Idle}] /\ task \in [Writer -> Task \cup {Idle}]

\* A banned peer is connected only until its punisher has closed it, or by a
\* connection every gate had let through before the ban.
BannedStayOut ==
    \A p \in connected \ overtaken :
       IsPeerBanned(p) => \E w \in Writer : At(w, "close") /\ task[w].peer = p

\* Under strict isolation a peer off the list is connected only until the
\* request that isolated the node has closed it, or by a connection let
\* through, or left open, before it was unwanted.
Parting(w, p) ==
    /\ task[w] # Idle /\ task[w].op = "mode" /\ task[w].want.mode = Strict
    /\ task[w].pc \in {"save", "list"} \/ (task[w].pc = "part" /\ p \in task[w].left)
IsolatedStayOut ==
    isolationMode = Strict =>
       \A p \in connected \ (overtaken \cup staticPeers) : \E w \in Writer : Parting(w, p)

\* The file holds both settings as they are, unless one of the requests that
\* changed them has yet to save, or the last save failed: nothing tries again
\* before the next setting, whose save then mends it for both.
SettingsSaved == broken \/ file = Current \/ \E w \in Writer : At(w, "save")

\* A writer queued up while a gate was about to take the read lock again: both
\* wait for ever.
Squeezed == queue # {} /\ \E i \in sleeping : holds[i] = 1

\* That is the only way to get stuck: nobody sleeps unless a writer will wake
\* it, and while one waits either the lock is free or a reader is awake, in the
\* middle of a gate.
OnlySqueezeBlocks ==
    /\ sleeping # {} => queue # {}
    /\ queue # {} /\ ~Squeezed =>
          \/ \A i \in Gate : holds[i] = 0
          \/ \E i \in Gate \ sleeping : holds[i] > 0 /\ attempt[i] # Idle /\ attempt[i].pc = "in"
=============================================================================
