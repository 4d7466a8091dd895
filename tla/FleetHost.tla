------------------------------ MODULE FleetHost ------------------------------
(* One fleet host over its lives: the supervisor process may be killed at any  *)
(* point and is started again; its tenants are processes of their own and go   *)
(* on running.  What survives it is on disk: the allocator's slots, the        *)
(* sidecar of process ids, the spawn ledger and the keystores.  A start        *)
(* reconciles that with the processes and the leases, launches the static      *)
(* tenants, and enters the loop that reaps, spawns on request and takes over.  *)
(*                                                                             *)
(* What a lease says is left open wherever it is read, since any answer may    *)
(* come: FleetLease is about the leases.  The ledgers are replaced atomically; *)
(* a keystore's files are written in place, and a write may fail half way.     *)
EXTENDS Naturals, Sequences, FiniteSets

CONSTANTS
  Agents,
  Static,       \* fleet.tenants, in the order they are declared
  Requested,    \* the agents a retained spawn request asks for
  MaxTenants,   \* max_tenants
  MaxLives,     \* bound: how often the supervisor is started
  MaxPid,       \* bound: how many tenants are ever started
  MaxKey,       \* bound: how many keysets are ever dealt
  NoLaunch, NoReap

Pid == 1..MaxPid
Key == 1..MaxKey
Cid == 1..MaxTenants
Process == [pid: Pid, agent: Agents, cid: Cid, key: Key, life: 1..MaxLives]
Torn == MaxKey + 1  \* an anchor whose write failed half way: it is there and does not load
Keystore == [shares: Key \cup {0}, anchor: Key \cup {0, Torn}]
Phases == {"down", "observe", "reconcile", "launch_all", "rollback", "loop"}
Stages == {"allocate", "shares", "anchor", "claim", "spawn", "record", "finalize", "failed", "refused"}
Launch == [agent: Agents, by: {"config", "request", "takeover"}, stage: Stages, pid: Pid \cup {0}]
ReapStages == {"kill", "release", "clean", "forget", "clear"}
Reap == [agent: Agents, stage: ReapStages]

ASSUME FleetHostAssumption ==
  /\ Static \in Seq(Agents) /\ Requested \subseteq Agents
  /\ {MaxTenants, MaxLives, MaxPid, MaxKey} \subseteq Nat
  /\ NoLaunch \notin Launch /\ NoReap \notin Reap

VARIABLES
  live,       \* the slot of each agent (Allocator, persisted), 0 for none
  records,    \* the process id of each agent (LaunchRegistry, persisted), 0 for none
  spawned,    \* the spawn ledger (persisted)
  keystore,   \* the shares and the anchor on disk, each of a keyset or 0
  procs,      \* the tenants' processes that run
  tenants,    \* FleetSupervisor::tenants: the process id it tracks, 0 for none
  phase,      \* where the supervisor is
  observed,   \* what its reconcile's observation of the leases came to
  verdicts,   \* the items of the reconcile still to be applied
  reaping,    \* the orphan being reaped, and the step it is at
  launched,   \* how many static tenants launch_all has launched
  launch,     \* the launch in progress, and the step it is at
  life, pids, keys,
  cut         \* history: the agents a launch of which was cut between its slot and its record

disk == <<live, records, spawned, keystore>>
memory == <<tenants, phase, observed, verdicts, reaping, launched, launch>>
counters == <<life, pids, keys>>
vars == <<disk, procs, memory, counters, cut>>

TypeOK ==
  /\ live \in [Agents -> Cid \cup {0}] /\ records \in [Agents -> Pid \cup {0}]
  /\ spawned \in [Agents -> {"none", "pending", "launched"}]
  /\ keystore \in [Agents -> Keystore]
  /\ procs \subseteq Process
  /\ tenants \in [Agents -> Pid \cup {0}]
  /\ phase \in Phases /\ observed \in {"none", "complete", "incomplete"}
  /\ verdicts \in [Agents -> {"done", "re-adopt", "reap"}]
  /\ reaping \in Reap \cup {NoReap}
  /\ launched \in 0..Len(Static) /\ launch \in Launch \cup {NoLaunch}
  /\ life \in 0..MaxLives /\ pids \in 0..MaxPid /\ keys \in 0..MaxKey
  /\ cut \subseteq Agents

Nothing == [a \in Agents |-> 0]
NoVerdicts == [a \in Agents |-> "done"]
NoKeyset == [shares |-> 0, anchor |-> 0]

Init ==
  /\ live = Nothing /\ records = Nothing
  /\ spawned = [a \in Agents |-> "none"] /\ keystore = [a \in Agents |-> NoKeyset]
  /\ procs = {} /\ tenants = Nothing
  /\ phase = "down" /\ observed = "none" /\ verdicts = NoVerdicts
  /\ reaping = NoReap /\ launched = 0 /\ launch = NoLaunch
  /\ life = 0 /\ pids = 0 /\ keys = 0 /\ cut = {}
-----------------------------------------------------------------------------
Tracked == {a \in Agents : tenants[a] # 0}
Recorded == {a \in Agents : records[a] # 0}
Allocated == {a \in Agents : live[a] # 0}

(* is_running: by the Child, or of an orphan by its id and command line.       *)
Running(a, pid) == \E p \in procs : p.pid = pid /\ p.agent = a

Others(a, pid) == {p \in procs : ~(p.pid = pid /\ p.agent = a)}

lowest_free_Count(cid) ==  \* mutation: the next after as many as are live
  cid = Cardinality(Allocated) + 1

FreeCids == {cid \in Cid : \A a \in Agents : live[a] # cid}
lowest_free(cid) == cid \in FreeCids /\ \A other \in FreeCids : cid <= other

LoadsKeyset(a) == keystore[a].anchor # 0 /\ keystore[a].shares = keystore[a].anchor
-----------------------------------------------------------------------------
(* A tenant's process exits; the host reboots, and they all do.                *)
Die ==
  /\ \E p \in procs : procs' = procs \ {p}
  /\ UNCHANGED <<disk, memory, counters, cut>>

Down ==
  /\ phase' = "down" /\ tenants' = Nothing /\ observed' = "none"
  /\ verdicts' = NoVerdicts /\ reaping' = NoReap /\ launched' = 0 /\ launch' = NoLaunch

Cut ==
  IF launch = NoLaunch THEN {}
  ELSE IF launch.stage \in {"shares", "anchor", "claim", "spawn", "record", "failed"}
    THEN {launch.agent} ELSE {}

(* The supervisor ends: killed, or because the relay pool shut down.           *)
Crash ==
  /\ phase # "down"
  /\ Down
  /\ cut' = cut \cup Cut
  /\ procs' \in {procs, {}}
  /\ UNCHANGED <<disk, counters>>

(* A reconcile is tried if any process id was recorded.                        *)
Start ==
  /\ phase = "down" /\ life < MaxLives
  /\ life' = life + 1
  /\ phase' = IF Recorded = {} THEN "launch_all" ELSE "observe"
  /\ UNCHANGED <<disk, procs, tenants, observed, verdicts, reaping, launched, launch,
                 pids, keys, cut>>
-----------------------------------------------------------------------------
(* decide_one, for a view of the leases: "ours" and fresh, another's, or none. *)
decide_one(a, view) ==
  IF Running(a, records[a]) /\ view[a] = "ours" THEN "re-adopt" ELSE "reap"

reconcile(view) ==
  [a \in Agents |-> IF a \in Recorded THEN decide_one(a, view) ELSE "done"]

(* The relay's stored leases arrive completely (EOSE), and the verdicts are    *)
(* applied; or not in time, or not at all, and nothing is done.                *)
Observe_Always ==  \* mutation: the verdicts are applied to what has arrived
  /\ phase = "observe"
  /\ \E obs \in {"complete", "incomplete"} :
       /\ observed' = obs /\ phase' = "reconcile"
       /\ \E view \in [Agents -> {"ours", "other", "none"}] : verdicts' = reconcile(view)
  /\ UNCHANGED <<disk, procs, tenants, reaping, launched, launch, counters, cut>>

Observe ==
  /\ phase = "observe"
  /\ \/ /\ observed' = "complete" /\ phase' = "reconcile"
        /\ \E view \in [Agents -> {"ours", "other", "none"}] : verdicts' = reconcile(view)
     \/ /\ observed' = "incomplete" /\ phase' = "launch_all"
        /\ UNCHANGED verdicts
  /\ UNCHANGED <<disk, procs, tenants, reaping, launched, launch, counters, cut>>

(* One item of apply_reconcile begins.  A tenant whose slot is gone is reaped. *)
re_adopt(a) ==
  /\ phase = "reconcile" /\ reaping = NoReap
  /\ verdicts[a] = "re-adopt" /\ a \in Allocated
  /\ tenants' = [tenants EXCEPT ![a] = records[a]]
  /\ verdicts' = [verdicts EXCEPT ![a] = "done"]
  /\ UNCHANGED <<disk, procs, phase, observed, reaping, launched, launch, counters, cut>>

reap_orphan(a) ==
  /\ phase = "reconcile" /\ reaping = NoReap
  /\ verdicts[a] = "reap" \/ (verdicts[a] = "re-adopt" /\ a \notin Allocated)
  /\ reaping' = [agent |-> a, stage |-> "kill"]
  /\ verdicts' = [verdicts EXCEPT ![a] = "done"]
  /\ UNCHANGED <<disk, procs, tenants, phase, observed, launched, launch, counters, cut>>

AtReap(stage) == phase = "reconcile" /\ reaping # NoReap /\ reaping.stage = stage

ReapKill_Not ==  \* mutation: a recorded process is forgotten and left alone
  /\ AtReap("kill")
  /\ reaping' = [reaping EXCEPT !.stage = "release"]
  /\ UNCHANGED <<disk, procs, tenants, phase, observed, verdicts, launched, launch, counters,
                 cut>>

ReapKill ==
  /\ AtReap("kill")
  /\ procs' = Others(reaping.agent, records[reaping.agent])
  /\ reaping' = [reaping EXCEPT !.stage = "release"]
  /\ UNCHANGED <<disk, tenants, phase, observed, verdicts, launched, launch, counters, cut>>

ReapRelease ==
  /\ AtReap("release")
  /\ live' = [live EXCEPT ![reaping.agent] = 0]
  /\ reaping' = [reaping EXCEPT !.stage = "clean"]
  /\ UNCHANGED <<records, spawned, keystore, procs, tenants, phase, observed, verdicts,
                 launched, launch, counters, cut>>

(* remove_dir_all takes the files one by one, in any order.  It may fail with  *)
(* some or all of them left; that is logged, and the record forgotten anyway.  *)
ReapClean ==
  LET a == reaping.agent IN
  /\ AtReap("clean")
  /\ \/ /\ \E f \in {"shares", "anchor"} :
             keystore[a][f] # 0 /\ keystore' = [keystore EXCEPT ![a][f] = 0]
        /\ UNCHANGED reaping
     \/ /\ reaping' = [reaping EXCEPT !.stage = "forget"]
        /\ UNCHANGED keystore
  /\ UNCHANGED <<live, records, spawned, procs, tenants, phase, observed, verdicts, launched,
                 launch, counters, cut>>

ReapForget ==
  /\ AtReap("forget")
  /\ records' = [records EXCEPT ![reaping.agent] = 0]
  /\ reaping' = [reaping EXCEPT !.stage = "clear"]
  /\ UNCHANGED <<live, spawned, keystore, procs, tenants, phase, observed, verdicts, launched,
                 launch, counters, cut>>

ReapClear ==
  /\ AtReap("clear")
  /\ spawned' = [spawned EXCEPT ![reaping.agent] = "none"]
  /\ reaping' = NoReap
  /\ UNCHANGED <<live, records, keystore, procs, tenants, phase, observed, verdicts, launched,
                 launch, counters, cut>>

Reconciled ==
  /\ phase = "reconcile" /\ reaping = NoReap /\ verdicts = NoVerdicts
  /\ phase' = "launch_all"
  /\ UNCHANGED <<disk, procs, tenants, observed, verdicts, reaping, launched, launch, counters,
                 cut>>
-----------------------------------------------------------------------------
(* provision_and_launch.  A launch is begun by launch_all, by a spawn request, *)
(* or by the failover scan; its steps are the same.                            *)
Begin(a, by) == launch' = [agent |-> a, by |-> by, stage |-> "allocate", pid |-> 0]
At(stage) == launch # NoLaunch /\ launch.stage = stage
Goto(stage) == launch' = [launch EXCEPT !.stage = stage]

(* The slot of an agent that has one is refused, and so is one beyond the      *)
(* ceiling or one that cannot be persisted.                                    *)
Allocate ==
  /\ At("allocate")
  /\ \/ /\ launch.agent \notin Allocated /\ Cardinality(Allocated) < MaxTenants
        /\ \E cid \in Cid : lowest_free(cid) /\ live' = [live EXCEPT ![launch.agent] = cid]
        /\ Goto("shares")
     \/ Goto("refused") /\ UNCHANGED live
  /\ UNCHANGED <<records, spawned, keystore, procs, tenants, phase, observed, verdicts,
                 reaping, launched, counters, cut>>

(* provision_keyset_at: an anchor is reloaded with its shares, and without     *)
(* them the launch fails; no anchor is a first spawn, and a keyset is dealt.   *)
(* The files may fail to be written or read.                                   *)
Provision ==
  LET a == launch.agent IN
  /\ At("shares")
  /\ \/ /\ keystore[a].anchor # 0
        /\ Goto(IF LoadsKeyset(a) THEN "claim" ELSE "failed")
        /\ UNCHANGED <<keystore, keys>>
     \/ /\ keystore[a].anchor = 0 /\ keys < MaxKey
        /\ keys' = keys + 1
        /\ keystore' = [keystore EXCEPT ![a].shares = keys + 1]
        /\ Goto("anchor")
     \/ Goto("failed") /\ UNCHANGED <<keystore, keys>>
  /\ UNCHANGED <<live, records, spawned, procs, tenants, phase, observed, verdicts, reaping,
                 launched, life, pids, cut>>

(* save_pubkeys writes the anchor; that fails, or the chmod after it does.     *)
SaveAnchor ==
  LET a == launch.agent IN
  /\ At("anchor")
  /\ \/ /\ keystore' = [keystore EXCEPT ![a].anchor = keystore[a].shares]
        /\ Goto("claim") \/ Goto("failed")
     \/ /\ keystore' \in {keystore, [keystore EXCEPT ![a].anchor = Torn]}
        /\ Goto("failed")
  /\ UNCHANGED <<live, records, spawned, procs, tenants, phase, observed, verdicts, reaping,
                 launched, counters, cut>>

(* The lease is claimed and read back; either may fail, or the peer has won.   *)
Claim ==
  /\ At("claim")
  /\ Goto("spawn") \/ Goto("failed")
  /\ UNCHANGED <<disk, procs, tenants, phase, observed, verdicts, reaping, launched, counters,
                 cut>>

Spawn ==
  LET a == launch.agent
      pid == pids + 1
  IN
  /\ At("spawn")
  /\ \/ /\ pids < MaxPid /\ pids' = pid
        /\ procs' = procs \cup {[pid |-> pid, agent |-> a, cid |-> live[a],
                                 key |-> keystore[a].anchor, life |-> life]}
        /\ launch' = [launch EXCEPT !.stage = "record", !.pid = pid]
     \/ Goto("failed") /\ UNCHANGED <<procs, pids>>
  /\ UNCHANGED <<disk, tenants, phase, observed, verdicts, reaping, launched, life, keys, cut>>

(* The process id is recorded and the tenant tracked: the launch is made.      *)
Record ==
  LET a == launch.agent IN
  /\ At("record")
  /\ records' = [records EXCEPT ![a] = launch.pid]
  /\ tenants' = [tenants EXCEPT ![a] = launch.pid]
  /\ IF launch.by = "request" THEN Goto("finalize") ELSE launch' = NoLaunch
  /\ launched' = IF launch.by = "config" THEN launched + 1 ELSE launched
  /\ UNCHANGED <<live, spawned, keystore, procs, phase, observed, verdicts, reaping, counters,
                 cut>>

Finalize ==
  /\ At("finalize")
  /\ \/ spawned' = [spawned EXCEPT ![launch.agent] = "launched"]
     \/ UNCHANGED spawned
  /\ launch' = NoLaunch
  /\ UNCHANGED <<live, records, keystore, procs, tenants, phase, observed, verdicts, reaping,
                 launched, counters, cut>>

(* launch_one_at_term gives the slot of a failed launch back.                  *)
GiveBack_Not ==  \* mutation: a failed launch keeps its slot
  /\ At("failed")
  /\ Goto("refused")
  /\ UNCHANGED <<disk, procs, tenants, phase, observed, verdicts, reaping, launched, counters,
                 cut>>

GiveBack ==
  /\ At("failed")
  /\ live' = [live EXCEPT ![launch.agent] = 0]
  /\ Goto("refused")
  /\ UNCHANGED <<records, spawned, keystore, procs, tenants, phase, observed, verdicts,
                 reaping, launched, counters, cut>>

(* The failure reaches whoever began the launch: the ledger's entry is taken   *)
(* back, the batch is rolled back, or the takeover is tried again later.       *)
Refused ==
  /\ At("refused")
  /\ launch' = NoLaunch
  /\ spawned' = IF launch.by = "request" THEN [spawned EXCEPT ![launch.agent] = "none"]
                ELSE spawned
  /\ phase' = IF launch.by = "config" THEN "rollback" ELSE phase
  /\ UNCHANGED <<live, records, keystore, procs, tenants, observed, verdicts, reaping, launched,
                 counters, cut>>
-----------------------------------------------------------------------------
LaunchNext ==
  /\ phase = "launch_all" /\ launch = NoLaunch /\ launched < Len(Static)
  /\ Begin(Static[launched + 1], "config")
  /\ UNCHANGED <<disk, procs, tenants, phase, observed, verdicts, reaping, launched, counters,
                 cut>>

LaunchedAll ==
  /\ phase = "launch_all" /\ launch = NoLaunch /\ launched = Len(Static)
  /\ phase' = "loop"
  /\ UNCHANGED <<disk, procs, tenants, observed, verdicts, reaping, launched, launch, counters,
                 cut>>

(* kill_and_reap_all kills every tenant it tracks, and run_fleet_supervisor    *)
(* returns the error.                                                          *)
KillAndReap ==
  /\ phase = "rollback"
  /\ \E a \in Tracked :
       /\ procs' = Others(a, tenants[a])
       /\ tenants' = [tenants EXCEPT ![a] = 0]
       /\ live' = [live EXCEPT ![a] = 0]
       /\ records' = [records EXCEPT ![a] = 0]
  /\ UNCHANGED <<spawned, keystore, phase, observed, verdicts, reaping, launched, launch,
                 counters, cut>>

RolledBack ==
  /\ phase = "rollback" /\ Tracked = {}
  /\ Down
  /\ UNCHANGED <<disk, procs, counters, cut>>

(* One tick of the control plane's loop at a time, and a launch takes all of   *)
(* it.  reap_dead releases the slot, and then forgets the process id.          *)
Idle == phase = "loop" /\ launch = NoLaunch /\ reaping = NoReap

ReapDead ==
  /\ Idle
  /\ \E a \in Tracked :
       /\ ~Running(a, tenants[a])
       /\ tenants' = [tenants EXCEPT ![a] = 0]
       /\ live' = [live EXCEPT ![a] = 0]
       /\ reaping' = [agent |-> a, stage |-> "forget"]
  /\ UNCHANGED <<records, spawned, keystore, procs, phase, observed, verdicts, launched, launch,
                 counters, cut>>

ForgetDead ==
  /\ phase = "loop" /\ reaping # NoReap
  /\ records' = [records EXCEPT ![reaping.agent] = 0]
  /\ reaping' = NoReap
  /\ UNCHANGED <<live, spawned, keystore, procs, tenants, phase, observed, verdicts, launched,
                 launch, counters, cut>>

(* handle_event, from the capacity gate on: an agent already launched is       *)
(* ignored, and one whose launch was not finalized is resumed.                 *)
SpawnRequest(a) ==
  /\ Idle /\ a \in Requested
  /\ Cardinality(Tracked) < MaxTenants
  /\ spawned[a] # "launched"
  /\ spawned' = [spawned EXCEPT ![a] = "pending"]
  /\ Begin(a, "request")
  /\ UNCHANGED <<live, records, keystore, procs, tenants, phase, observed, verdicts, reaping,
                 launched, counters, cut>>

(* A verdict of detect_takeovers, admitted: the keystore is here to sign with, *)
(* and the agent is not hosted.                                                *)
TakeOver(a) ==
  /\ Idle /\ a \notin Tracked
  /\ LoadsKeyset(a) /\ Cardinality(Tracked) < MaxTenants
  /\ Begin(a, "takeover")
  /\ UNCHANGED <<disk, procs, tenants, phase, observed, verdicts, reaping, launched, counters,
                 cut>>
-----------------------------------------------------------------------------
LaunchStep ==
  \/ Allocate \/ Provision \/ SaveAnchor \/ Claim \/ Spawn \/ Record \/ Finalize
  \/ GiveBack \/ Refused

Next ==
  \/ Die \/ Crash \/ Start
  \/ Observe \/ Reconciled
  \/ \E a \in Agents : re_adopt(a) \/ reap_orphan(a)
  \/ ReapKill \/ ReapRelease \/ ReapClean \/ ReapForget \/ ReapClear
  \/ LaunchNext \/ LaunchedAll \/ LaunchStep
  \/ KillAndReap \/ RolledBack
  \/ ReapDead \/ ForgetDead
  \/ \E a \in Agents : SpawnRequest(a) \/ TakeOver(a)

Spec == Init /\ [][Next]_vars
-----------------------------------------------------------------------------
(* Apart from agents a launch of which was cut short, no two processes that    *)
(* run are the same agent or use the same guest CID, however often the         *)
(* supervisor was killed between an effect and its record.                     *)
OneProcess ==
  \A p, q \in procs :
    p # q /\ {p.agent, q.agent} \cap cut = {} => p.agent # q.agent /\ p.cid # q.cid

(* A tenant that runs still finds the keyset it was born with in its keystore: *)
(* no reap, rollback or new launch takes it from a running agent or deals      *)
(* another over it.                                                            *)
IdentityKept ==
  \A p \in procs :
    p.agent \notin cut => keystore[p.agent] = [shares |-> p.key, anchor |-> p.key]

(* The false-reap fence: a supervisor whose view of the leases is incomplete   *)
(* ends no tenant that an earlier one has left running, whatever it does after *)
(* (a tenant may exit of itself, and a reboot of the host ends them all).      *)
FalseReapFence ==
  [][\A p \in procs \ procs' :
       observed = "incomplete" /\ p.life < life
         => phase' = "down" \/ UNCHANGED <<disk, memory>>]_vars

(* Once a supervisor that saw all the leases is in its loop, a slot is held    *)
(* only for a tenant it tracks or launches: none leaked, through any number of *)
(* failed launches, deaths and restarts, but those of the launches cut short.  *)
SlotsAccounted ==
  phase = "loop" /\ observed = "complete" =>
    Allocated \ cut \subseteq Tracked \cup {a \in Agents : launch # NoLaunch /\ launch.agent = a}
=============================================================================
